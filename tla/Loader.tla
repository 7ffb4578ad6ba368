-------------------------------- MODULE Loader --------------------------------
(***************************************************************************)
(* Loader.java: one load at a time on a thread of its own, whose result    *)
(* comes back as a message to the thread that started it.  The loadable is *)
(* a Chunk, read through its DataSourceStream: a stream that failed keeps  *)
(* what it has loaded, and goes on from there when it is started again.    *)
(***************************************************************************)
EXTENDS Naturals

CONSTANTS
  ChunkSize,   \* the samples of a media chunk, the unit in which loads proceed
  MayFail      \* whether a load may end with an IOException

ASSUME LoaderAssumption == ChunkSize \in Nat \ {0} /\ MayFail \in BOOLEAN

VARIABLE
  task   \* the current LoadTask and the stream it loads

(* "idle" is loading = FALSE; a task is submitted, run, and posts its      *)
(* message.  canceled is DataSourceStream.loadCanceled.                    *)
Task == [phase : {"idle", "submitted", "running", "posted"},
         message : {"END_OF_SOURCE", "ERROR"}, canceled : BOOLEAN,
         loaded : 0..ChunkSize, size : 1..ChunkSize]

NoTask == [phase |-> "idle", message |-> "END_OF_SOURCE", canceled |-> FALSE,
           loaded |-> 0, size |-> 1]

isLoading(k) == k.phase # "idle"

(* startLoading of a chunk of the given size, of which some is loaded.     *)
startLoading(loaded, size) ==
  [phase |-> "submitted", message |-> "END_OF_SOURCE", canceled |-> FALSE,
   loaded |-> loaded, size |-> size]

cancelLoading(k) == [k EXCEPT !.canceled = TRUE]

(* onFinished: the message has arrived.                                    *)
onFinished(k) == [k EXCEPT !.phase = "idle"]

Posts(message) ==
  task' = [task EXCEPT !.phase = "posted", !.message = message]

(* LoadTask.run: a load canceled before it began is not made.              *)
Run ==
  /\ task.phase = "submitted"
  /\ IF task.canceled
     THEN Posts("END_OF_SOURCE")
     ELSE task' = [task EXCEPT !.phase = "running"]

(* DataSourceStream.load reads some more.                                  *)
LoadMore ==
  /\ task.phase = "running" /\ ~task.canceled
  /\ task.loaded < task.size
  /\ task' = [task EXCEPT !.loaded = @ + 1]

(* load returns: everything is loaded, or the load was canceled (the loop  *)
(* sees loadCanceled, or the thread is interrupted).                       *)
LoadEnds ==
  /\ task.phase = "running"
  /\ task.canceled \/ task.loaded = task.size
  /\ Posts("END_OF_SOURCE")

LoadFails ==
  /\ MayFail
  /\ task.phase = "running" /\ task.loaded < task.size
  /\ Posts("ERROR")

LoadThread == Run \/ LoadMore \/ LoadEnds \/ LoadFails
=============================================================================
