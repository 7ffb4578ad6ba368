------------------------------ MODULE NetworkLock ------------------------------
(***************************************************************************)
(* NetworkLock.java: tasks of the network register their priority, and a   *)
(* task may proceed while nobody of a higher one is registered.  Lower     *)
(* numbers are higher priorities.  One task of DOWNLOAD_PRIORITY acts here *)
(* as the class asks of a task: it registers, calls proceed again and      *)
(* again, and unregisters.                                                 *)
(***************************************************************************)
EXTENDS Integers

STREAMING_PRIORITY == 0
DOWNLOAD_PRIORITY == 10
Priorities == {STREAMING_PRIORITY, DOWNLOAD_PRIORITY}

VARIABLES
  queue,      \* how often each priority is registered
  download    \* the task: absent; asking, waiting in proceed, proceeding

lockVars == <<queue, download>>

LockInit == queue = [p \in Priorities |-> 0] /\ download = "absent"

(* queue.peek() < p                                                        *)
IsBlocked(q, p) == \E r \in Priorities : r < p /\ q[r] > 0

Added(q, p) == [q EXCEPT ![p] = @ + 1]
Removed(q, p) == [q EXCEPT ![p] = IF @ > 0 THEN @ - 1 ELSE 0]

(* notifyAll: who waits looks at the queue again.                          *)
Notified(d) == IF d = "waiting" THEN "asking" ELSE d

add(p) == queue' = Added(queue, p) /\ UNCHANGED download

remove(p) == queue' = Removed(queue, p) /\ download' = Notified(download)

DownloadBegins ==
  /\ download = "absent"
  /\ download' = "asking" /\ queue' = Added(queue, DOWNLOAD_PRIORITY)

proceed ==
  /\ download = "asking"
  /\ download' = IF IsBlocked(queue, DOWNLOAD_PRIORITY)
                 THEN "waiting" ELSE "proceeding"
  /\ UNCHANGED queue

DownloadGoesOn ==
  /\ download = "proceeding" /\ download' = "asking"
  /\ UNCHANGED queue

DownloadEnds ==
  /\ download = "proceeding"
  /\ download' = "absent" /\ queue' = Removed(queue, DOWNLOAD_PRIORITY)

Download == DownloadBegins \/ proceed \/ DownloadGoesOn \/ DownloadEnds
=============================================================================
