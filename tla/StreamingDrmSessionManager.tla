---------------------- MODULE StreamingDrmSessionManager ----------------------
(* The DRM session the protected tracks of a player share. The renderers     *)
(* open and close it and MediaDrm's events and the answers to its requests   *)
(* are served on the playback thread; a thread of each session fetches the   *)
(* answers, and may still do so when the session is over. What a renderer    *)
(* calls are operators, for its actions to use; what MediaDrm answers is     *)
(* free, so each gives the set of what may come out.                         *)
EXTENDS Integers, SequencesExt

CONSTANTS MaxMessages,  \* that may be on their way when MediaDrm posts another
          MaxLate       \* threads of former sessions that still fetch
ASSUME MessagesAssumption == {MaxMessages, MaxLate} \subseteq Nat

VARIABLE drm

Requests == {"PROVISION", "KEYS"}
Events == {"KEY_REQUIRED", "KEY_EXPIRED", "PROVISION_REQUIRED"}

\* An answer or an event in the playback thread's queue; late, if the session it is
\* of was closed before it was posted.
Message == [what : Requests \cup Events, late : BOOLEAN]

\* The manager: hasSession says that sessionId is not null, requests are those the
\* session's thread has yet to answer, late those that former threads are at.
IsManager(d) ==
  /\ DOMAIN d = {"openCount", "state", "hasSession", "requests", "late",
                 "inbox"}
  /\ d.openCount \in Nat /\ d.hasSession \in BOOLEAN
  /\ d.state \in {"CLOSED", "ERROR", "OPENING", "OPENED", "OPENED_WITH_KEYS"}
  /\ d.requests \in Seq(Requests) /\ d.late \in Seq(Requests)
  /\ d.inbox \in Seq(Message)

NewManager ==
  [openCount |-> 0, state |-> "CLOSED", hasSession |-> FALSE, requests |-> <<>>,
   late |-> <<>>, inbox |-> <<>>]

IsOpened(d) == d.state \in {"OPENED", "OPENED_WITH_KEYS"}
-----------------------------------------------------------------------------
onError(d) ==
  IF d.state = "OPENED_WITH_KEYS" THEN d ELSE [d EXCEPT !.state = "ERROR"]

Posted(d, request) == [d EXCEPT !.requests = Append(@, request)]

\* getKeyRequest may say that the device is not provisioned.
postKeyRequest(d) == {Posted(d, "KEYS"), Posted(d, "PROVISION")}

\* A session is opened, or the device is not provisioned, or something fails before
\* or after there is a session.
openInternal(d, allowProvisioning) ==
  LET opened == [d EXCEPT !.hasSession = TRUE]
  IN  postKeyRequest([opened EXCEPT !.state = "OPENED"])
        \cup {IF allowProvisioning THEN Posted(d, "PROVISION") ELSE onError(d)}
        \cup {onError(d), onError(opened)}

open(d) ==
  LET counted == [d EXCEPT !.openCount = @ + 1]
  IN  IF d.openCount > 0 THEN {counted}
      ELSE openInternal([counted EXCEPT !.state = "OPENING"], TRUE)

\* Everything is dropped but a request the thread is at, which it goes on with.
Abandoned(d) ==
  {[d EXCEPT !.requests = <<>>, !.inbox = <<>>, !.late = late] :
     late \in {d.late} \cup (IF d.requests # <<>> /\ Len(d.late) < MaxLate
                           THEN {Append(d.late, Head(d.requests))} ELSE {})}
close(d) ==
  IF d.openCount > 1 THEN {[d EXCEPT !.openCount = @ - 1]}
  ELSE {[e EXCEPT !.openCount = 0, !.state = "CLOSED", !.hasSession = FALSE] :
          e \in Abandoned(d)}
-----------------------------------------------------------------------------
\* Mutant: what was provisioned after the session was opened is not used.
onProvisionResponse_OpeningOnly(d) ==
  IF d.state # "OPENING" THEN {d} ELSE {onError(d)} \cup openInternal(d, FALSE)
\* What the playback thread does with an answer: it is an exception or bytes that
\* MediaDrm takes or not.
onProvisionResponse(d) ==
  IF d.state \notin {"OPENING", "OPENED", "OPENED_WITH_KEYS"} THEN {d}
  ELSE {onError(d)} \cup
       (IF d.state = "OPENING" THEN openInternal(d, FALSE) ELSE postKeyRequest(d))

onKeyResponse(d) ==
  IF ~IsOpened(d) THEN {d}
  ELSE {[d EXCEPT !.state = "OPENED_WITH_KEYS"], Posted(d, "PROVISION"), onError(d)}

\* MediaDrm's events.
handleEvent(d, event) ==
  IF d.openCount = 0 \/ ~IsOpened(d) THEN {d}
  ELSE CASE event = "KEY_REQUIRED" -> postKeyRequest(d)
         [] event = "KEY_EXPIRED" -> postKeyRequest([d EXCEPT !.state = "OPENED"])
         [] event = "PROVISION_REQUIRED" ->
              {Posted([d EXCEPT !.state = "OPENED"], "PROVISION")}

Handled(d, what) ==
  CASE what = "PROVISION" -> onProvisionResponse(d)
    [] what = "KEYS" -> onKeyResponse(d)
    [] OTHER -> handleEvent(d, what)

handleMessage ==
  /\ drm.inbox # <<>>
  /\ drm' \in Handled([drm EXCEPT !.inbox = Tail(@)], Head(drm.inbox).what)
-----------------------------------------------------------------------------
\* The threads: one posts what came of its request.
Arrives(d, what, late) == [d EXCEPT !.inbox = Append(@, [what |-> what, late |-> late])]

Answer ==
  /\ drm.requests # <<>>
  /\ drm' = Arrives([drm EXCEPT !.requests = Tail(@)], Head(drm.requests), FALSE)
AnswerLate ==
  /\ Len(drm.requests) + Len(drm.inbox) < MaxMessages
  /\ \E i \in DOMAIN drm.late :
       drm' = Arrives([drm EXCEPT !.late = RemoveAt(@, i)], drm.late[i], TRUE)

onEvent ==
  /\ Len(drm.requests) + Len(drm.inbox) < MaxMessages
  /\ \E event \in Events : drm' = Arrives(drm, event, ~drm.hasSession)
=============================================================================
