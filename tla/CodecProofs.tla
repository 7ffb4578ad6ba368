----------------------------- MODULE CodecProofs -----------------------------
(* A decoder is only given what it is set up for, encrypted samples only     *)
(* with their keys, the DRM session serves its users, and frames are shown   *)
(* in order, none missing: for any track, any seeks, and decoders with any   *)
(* number of buffers.                                                        *)
EXTENDS MediaCodecTrackRenderer, FoldProofs

-----------------------------------------------------------------------------
(* The session.                                                            *)

(* Nobody waits for keys in vain; unused, it is closed and has nothing     *)
(* under way.                                                              *)
OnTheWay(d) == ToSet(d.requests) \cup {d.inbox[i].what : i \in DOMAIN d.inbox}
Fetches(d) ==
  /\ d.state = "OPENING" => "PROVISION" \in OnTheWay(d)
  /\ d.state = "OPENED" => OnTheWay(d) \cap Requests # {}
ClosedIf(d) ==
  /\ d.openCount = 0 =>
       /\ d.state = "CLOSED" /\ ~d.hasSession /\ d.requests = <<>>
       /\ \A i \in DOMAIN d.inbox : d.inbox[i].late
  /\ d.openCount > 0 => d.state # "CLOSED"
  /\ d.state = "OPENING" => ~d.hasSession
  /\ IsOpened(d) => d.hasSession
Manager(d) == IsManager(d) /\ Fetches(d) /\ ClosedIf(d)

-----------------------------------------------------------------------------
(* What a call works on: r the renderer, c the codec, d the session.       *)

RendererTyped(r) ==
  /\ DOMAIN r = DOMAIN NewRenderer
  /\ r.state \in {"DISABLED", "ENABLED", "STARTED", "RELEASED"}
  /\ r.failed \in BOOLEAN /\ r.surface \in BOOLEAN
  /\ r.openedDrmSession \in BOOLEAN /\ r.reconfigured \in BOOLEAN
  /\ r.inputStreamEnded \in BOOLEAN /\ r.outputStreamEnded \in BOOLEAN
  /\ r.waitingForKeys \in BOOLEAN /\ r.waitingForFirstSyncFrame \in BOOLEAN
  /\ r.format \in Formats \cup {NoFormat}
  /\ {r.input, r.output} \subseteq Buffer \cup {NoBuffer}
  /\ r.reconfiguration \in {"NONE", "WRITE_PENDING", "QUEUE_PENDING"}
  /\ r.holder \in Frames \cup {0} /\ r.shown \in Frames \cup {0}
  /\ r.decodeOnly \subseteq Frames

(* What the decoder is given is a frame or the end.                        *)
Passes(b) == b = EndOfStream \/ b.time \in Frames
CodecTyped(c) ==
  /\ DOMAIN c = DOMAIN NoCodec
  /\ c.configured \in Formats \cup {NoFormat} /\ c.current \in Formats \cup {NoFormat}
  /\ c.crypto \in BOOLEAN /\ c.begun \in BOOLEAN
  /\ c.queue \in Seq(Buffer) /\ c.outputs \in Seq(Buffer)
  /\ \A i \in DOMAIN c.queue : Passes(c.queue[i])
  /\ \A i \in DOMAIN c.outputs : Passes(c.outputs[i])

(* The renderer and the session, whatever is the decoder's.                *)
Owns(r, d) ==
  /\ RendererTyped(r) /\ Manager(d)
  /\ d.openCount = (IF r.openedDrmSession THEN 1 ELSE 0) + (IF other THEN 1 ELSE 0)
  /\ r.openedDrmSession => device.protected
  /\ r.state \in {"DISABLED", "RELEASED"} => ~r.openedDrmSession /\ r.format = NoFormat
  /\ r.waitingForKeys => device.protected /\ r.holder \in Frames

(* Nothing is left of a decoder that was released.                         *)
Empty(r) ==
  r.input = NoBuffer /\ r.output = NoBuffer /\ ~r.reconfigured /\ r.reconfiguration = "NONE"

(* With a decoder there are a format, a surface and, on a protected track, *)
(* a session; without one nothing is left of the last.                     *)
SetUp(r, c, d) ==
  /\ c = NoCodec => Empty(r)
  /\ c # NoCodec =>
       /\ c.configured \in Formats /\ c.crypto = device.protected
       /\ r.format \in Formats /\ r.surface
       /\ device.protected => r.openedDrmSession /\ d.hasSession

(* The sample in the buffer is the one that is held.                       *)
Holds(r) ==
  /\ r.input.data # <<>> => Last(r.input.data) = r.holder
  /\ r.waitingForKeys =>
       /\ r.reconfiguration # "WRITE_PENDING"
       /\ r.waitingForFirstSyncFrame => r.reconfiguration = "NONE"
       /\ Len(r.input.data) = 1 => Samples[r.input.data[1]].format = r.format

(* What the decoder takes the ith buffer to be of, as TakenAs.             *)
Taken(c, i) ==
  LET configs == {j \in 1..i : c.queue[j].config # NoFormat}
  IN  IF configs = {} THEN c.current ELSE c.queue[Max(configs)].config

(* A decoder that was never reconfigured goes on with its first format; at *)
(* the end of its queue it is, or with what is due to be queued will be,   *)
(* set up for the renderer's.                                              *)
Formatted(r, c) ==
  /\ \A i \in DOMAIN c.queue :
       Len(c.queue[i].data) = 1 => Samples[c.queue[i].data[1]].format = Taken(c, i)
  /\ c # NoCodec /\ ~r.reconfigured =>
       /\ c.configured = r.format /\ c.current = r.format
       /\ \A i \in DOMAIN c.queue : c.queue[i].config = NoFormat
       /\ r.reconfiguration = "NONE"
  /\ r.reconfiguration = "QUEUE_PENDING" => r.input.config = r.format
  /\ r.reconfiguration # "QUEUE_PENDING" => r.input.config = NoFormat
  /\ c # NoCodec /\ r.reconfiguration = "NONE" => Taken(c, Len(c.queue)) = r.format

(* What a call finds and leaves, between the steps of the others.          *)
Works(r, c, d) ==
  /\ Owns(r, d) /\ CodecTyped(c) /\ (r.output # NoBuffer => Passes(r.output))
  /\ SetUp(r, c, d) /\ Holds(r) /\ Formatted(r, c)
Sane(w) == /\ DOMAIN w = {"renderer", "codec", "drm"}
           /\ Works(w.renderer, w.codec, w.drm)

-----------------------------------------------------------------------------
(* The source, and where it is against the decoder.                        *)

SourceTyped(s) ==
  /\ s \in [next : 1..Len(Samples) + 1, announced : Formats \cup {NoFormat},
            discontinuity : BOOLEAN, wanted : Frames, early : Nat]
  /\ s.discontinuity => s.next \in Frames /\ Samples[s.next].sync

(* The end is queued last, when nothing follows.                           *)
EndIsLast(r, c, s) ==
  /\ \A i \in DOMAIN c.queue : c.queue[i] = EndOfStream => i = Len(c.queue)
  /\ EndOfStream \in ToSet(c.queue) =>
       s.discontinuity \/ (r.inputStreamEnded /\ s.next \notin Frames)

(* A decoder that has begun with nothing is given a sync frame first.      *)
BeginsInSync(r, c, s) ==
  /\ c # NoCodec /\ ~c.begun /\ c.queue = <<>> /\ ~r.failed =>
       \/ r.waitingForFirstSyncFrame \/ s.discontinuity
       \/ s.next \notin Frames \/ Samples[s.next].sync
  /\ ~c.begun /\ c.queue # <<>> =>
       c.queue[1] = EndOfStream \/ Samples[c.queue[1].time].sync

Follows(r, c, s) ==
  /\ r.state \in {"ENABLED", "STARTED"} => s.announced = r.format
  /\ r.waitingForKeys => ~s.discontinuity
  /\ ~device.protected => EndIsLast(r, c, s) /\ BeginsInSync(r, c, s)

IInv ==
  /\ device \in Devices /\ other \in BOOLEAN
  /\ other => device.protected
  /\ Works(renderer, codec, drm)
  /\ SourceTyped(source) /\ Follows(renderer, codec, source)
  /\ phase \in {"idle", "drain", "feed"}
  /\ phase # "idle" =>
       codec # NoCodec /\ renderer.state \in {"ENABLED", "STARTED"} /\ ~renderer.failed
-----------------------------------------------------------------------------
(* The messages of the session.                                            *)

(* An error is not one while there are keys.                               *)
LEMMA ErrorManaged ==
  ASSUME NEW d, IsManager(d), ClosedIf(d), d.openCount > 0
  PROVE  LET e == onError(d)
         IN  /\ Manager(e) /\ e.openCount = d.openCount
             /\ e.hasSession = d.hasSession
<1>1. CASE d.state = "OPENED_WITH_KEYS"
  BY <1>1 DEF onError, Manager, Fetches
<1>2. CASE d.state # "OPENED_WITH_KEYS"
  <2> DEFINE e == [d EXCEPT !.state = "ERROR"]
  <2>1. /\ DOMAIN e = DOMAIN d /\ e.state = "ERROR" /\ e.openCount = d.openCount
        /\ e.hasSession = d.hasSession /\ e.requests = d.requests
        /\ e.late = d.late /\ e.inbox = d.inbox
    BY DEF IsManager
  <2> HIDE DEF e
  <2>2. Manager(e)
    BY <2>1 DEF Manager, IsManager, ClosedIf, Fetches, IsOpened
  <2> QED
    BY <1>2, <2>1, <2>2 DEF onError, e
<1> QED
  BY <1>1, <1>2

(* A request that is posted is on its way.                                 *)
LEMMA PostedManaged ==
  ASSUME NEW d, IsManager(d), ClosedIf(d), d.openCount > 0, NEW request \in Requests,
         d.state = "OPENING" => request = "PROVISION" \/ "PROVISION" \in OnTheWay(d)
  PROVE  LET e == Posted(d, request)
         IN  /\ Manager(e) /\ e.openCount = d.openCount
             /\ e.hasSession = d.hasSession
<1> DEFINE e == Posted(d, request)
<1>1. /\ DOMAIN e = DOMAIN d /\ e.state = d.state /\ e.openCount = d.openCount
      /\ e.hasSession = d.hasSession /\ e.requests = Append(d.requests, request)
      /\ e.late = d.late /\ e.inbox = d.inbox
  BY DEF IsManager, Posted
<1> HIDE DEF e
<1>2. e.requests \in Seq(Requests) /\ DOMAIN e.requests = 1..Len(d.requests) + 1
      /\ e.requests[Len(d.requests) + 1] = request
      /\ \A i \in DOMAIN d.requests : i \in DOMAIN e.requests /\ e.requests[i] = d.requests[i]
  BY <1>1 DEF IsManager
<1>3. request \in OnTheWay(e) /\ OnTheWay(d) \subseteq OnTheWay(e)
  <2>1. request \in ToSet(e.requests)
    <3>1. Len(d.requests) + 1 \in DOMAIN e.requests
      BY <1>2 DEF IsManager
    <3> QED
      BY <1>2, <3>1 DEF ToSet
  <2>2. ToSet(d.requests) \subseteq ToSet(e.requests)
    BY <1>2 DEF ToSet
  <2> QED
    BY <1>1, <2>1, <2>2 DEF OnTheWay
<1>4. IsManager(e)
  BY <1>1, <1>2 DEF IsManager
<1>5. ClosedIf(e)
  BY <1>1 DEF ClosedIf, IsOpened
<1>6. Fetches(e)
  BY <1>1, <1>3 DEF Fetches
<1> QED
  BY <1>1, <1>4, <1>5, <1>6 DEF Manager, e

(* The session that is to be there when keys are requested.                *)
LEMMA StateManaged ==
  ASSUME NEW d, IsManager(d), ClosedIf(d), d.openCount > 0, NEW s \in {"OPENED", "OPENED_WITH_KEYS", "ERROR"}
  PROVE  LET e == [[d EXCEPT !.hasSession = TRUE] EXCEPT !.state = s]
         IN  /\ IsManager(e) /\ ClosedIf(e) /\ e.state = s /\ e.hasSession
             /\ e.openCount = d.openCount /\ OnTheWay(e) = OnTheWay(d)
<1> DEFINE e == [[d EXCEPT !.hasSession = TRUE] EXCEPT !.state = s]
<1>1. /\ DOMAIN e = DOMAIN d /\ e.state = s /\ e.openCount = d.openCount
      /\ e.hasSession /\ e.hasSession \in BOOLEAN /\ e.requests = d.requests
      /\ e.late = d.late /\ e.inbox = d.inbox
  BY DEF IsManager
<1> HIDE DEF e
<1> QED
  BY <1>1 DEF e, IsManager, ClosedIf, OnTheWay, IsOpened

LEMMA StateChanged ==
  ASSUME NEW d, IsManager(d), ClosedIf(d), d.hasSession,
         NEW s \in {"OPENED", "OPENED_WITH_KEYS"}
  PROVE  LET e == [d EXCEPT !.state = s]
         IN  /\ IsManager(e) /\ ClosedIf(e) /\ e.state = s
             /\ e.hasSession = d.hasSession /\ e.openCount = d.openCount
<1> DEFINE e == [d EXCEPT !.state = s]
<1>1. /\ DOMAIN e = DOMAIN d /\ e.state = s /\ e.openCount = d.openCount
      /\ e.hasSession = d.hasSession /\ e.requests = d.requests
      /\ e.late = d.late /\ e.inbox = d.inbox
  BY DEF IsManager
<1> HIDE DEF e
<1> QED
  BY <1>1 DEF e, IsManager, ClosedIf, IsOpened

(* What opening, an answer or an event leaves: d is what it finds.         *)
Serves(d, e) ==
  Manager(e) /\ e.openCount = d.openCount /\ (d.hasSession => e.hasSession)

LEMMA KeysAsked ==
  ASSUME NEW d, IsManager(d), ClosedIf(d), d.openCount > 0, d.state # "OPENING",
         NEW e \in postKeyRequest(d)
  PROVE  Serves(d, e)
<1>1. e = Posted(d, "KEYS") \/ e = Posted(d, "PROVISION")
  BY DEF postKeyRequest
<1> QED
  BY <1>1, PostedManaged DEF Serves, Requests

LEMMA OpenedManaged ==
  ASSUME NEW d, IsManager(d), ClosedIf(d), d.openCount > 0, d.state = "OPENING",
         NEW allow \in BOOLEAN, NEW e \in openInternal(d, allow)
  PROVE  Serves(d, e)
<1> DEFINE opened == [d EXCEPT !.hasSession = TRUE]
           ready == [opened EXCEPT !.state = "OPENED"]
           lost == [opened EXCEPT !.state = "ERROR"]
<1>1. ~d.hasSession
  BY DEF ClosedIf
<1>2. /\ IsManager(ready) /\ ClosedIf(ready) /\ ready.state = "OPENED"
      /\ ready.openCount = d.openCount
  BY StateManaged
<1>3. /\ IsManager(lost) /\ ClosedIf(lost) /\ lost.state = "ERROR"
      /\ lost.openCount = d.openCount
  BY StateManaged
<1>4. onError(opened) = lost
  BY DEF onError, IsManager
<1>5. \/ e \in postKeyRequest(ready) \/ e = Posted(d, "PROVISION")
      \/ e = onError(d) \/ e = lost
  BY <1>4 DEF openInternal
<1> HIDE DEF opened, ready, lost
<1>6. CASE e \in postKeyRequest(ready)
  BY <1>1, <1>2, <1>6, KeysAsked DEF Serves
<1>7. CASE e = Posted(d, "PROVISION")
  BY <1>7, PostedManaged DEF Serves, Requests
<1>8. CASE e = onError(d)
  BY <1>8, ErrorManaged DEF Serves
<1>9. CASE e = lost
  BY <1>1, <1>3, <1>9 DEF Serves, Manager, Fetches
<1> QED
  BY <1>5, <1>6, <1>7, <1>8, <1>9

(* open counts one more.                                                   *)
LEMMA OpenManaged ==
  ASSUME NEW d, Manager(d), NEW e \in open(d)
  PROVE  /\ Manager(e) /\ e.openCount = d.openCount + 1
         /\ (d.hasSession => e.hasSession)
<1> DEFINE counted == [d EXCEPT !.openCount = @ + 1]
<1>1. /\ DOMAIN counted = DOMAIN d /\ counted.openCount = d.openCount + 1
      /\ counted.state = d.state /\ counted.hasSession = d.hasSession
      /\ counted.requests = d.requests /\ counted.late = d.late
      /\ counted.inbox = d.inbox
  BY DEF Manager, IsManager
<1>2. IsManager(counted) /\ d.openCount \in Nat /\ counted.openCount > 0
  BY <1>1 DEF Manager, IsManager
<1>3. CASE d.openCount > 0
  <2> HIDE DEF counted
  <2>1. ClosedIf(counted) /\ Fetches(counted)
    BY <1>1, <1>2, <1>3 DEF Manager, ClosedIf, Fetches, OnTheWay, IsOpened
  <2>2. e = counted
    BY <1>3 DEF open, counted
  <2> QED
    BY <1>1, <1>2, <2>1, <2>2 DEF Manager
<1>4. CASE ~(d.openCount > 0)
  <2> DEFINE begun == [counted EXCEPT !.state = "OPENING"]
  <2> HIDE DEF counted
  <2>1. ~d.hasSession
    BY <1>2, <1>4 DEF Manager, ClosedIf
  <2>2. /\ DOMAIN begun = DOMAIN d /\ begun.openCount = d.openCount + 1
        /\ begun.state = "OPENING" /\ begun.hasSession = d.hasSession
        /\ begun.requests = d.requests /\ begun.late = d.late
        /\ begun.inbox = d.inbox
    BY <1>1, <1>2 DEF IsManager
  <2>3. e \in openInternal(begun, TRUE)
    BY <1>4 DEF open, counted
  <2> HIDE DEF begun
  <2>4. IsManager(begun)
    <3>1. /\ DOMAIN d = {"openCount", "state", "hasSession", "requests", "late", "inbox"}
          /\ d.requests \in Seq(Requests) /\ d.late \in Seq(Requests)
          /\ d.inbox \in Seq(Message) /\ d.hasSession \in BOOLEAN
      BY DEF Manager, IsManager
    <3>2. begun.openCount \in Nat
      BY <1>2, <2>2
    <3> QED
      BY <2>2, <3>1, <3>2 DEF IsManager
  <2>5. ClosedIf(begun)
    BY <1>1, <1>2, <2>1, <2>2 DEF ClosedIf, IsOpened
  <2> QED
    BY <1>1, <1>2, <2>1, <2>2, <2>3, <2>4, <2>5, OpenedManaged DEF Serves
<1> QED
  BY <1>3, <1>4

(* A session that is closed and has nothing under way.                     *)
LEMMA NothingManaged ==
  ASSUME NEW e,
         DOMAIN e = {"openCount", "state", "hasSession", "requests", "late", "inbox"},
         e.openCount = 0, e.state = "CLOSED", e.hasSession \in BOOLEAN, ~e.hasSession,
         e.requests = <<>>, e.inbox = <<>>, e.late \in Seq(Requests)
  PROVE  Manager(e)
<1>1. e.requests \in Seq(Requests)
  OBVIOUS
<1>2. e.inbox \in Seq(Message)
  OBVIOUS
<1>3. IsManager(e)
  BY <1>1, <1>2 DEF IsManager
<1>4. ClosedIf(e)
  BY DEF ClosedIf, IsOpened
<1>5. Fetches(e)
  BY DEF Fetches
<1> QED
  BY <1>3, <1>4, <1>5 DEF Manager

(* close counts one less; with the last, all is over.                      *)
LEMMA CloseManaged ==
  ASSUME NEW d, Manager(d), d.openCount > 0, NEW e \in close(d)
  PROVE  /\ Manager(e) /\ e.openCount = d.openCount - 1
         /\ (d.openCount > 1 => e.hasSession = d.hasSession)
<1>1. CASE d.openCount > 1
  <2>1. e = [d EXCEPT !.openCount = @ - 1]
    BY <1>1 DEF close
  <2>2. /\ DOMAIN e = DOMAIN d /\ e.openCount = d.openCount - 1
        /\ e.state = d.state /\ e.hasSession = d.hasSession
        /\ e.requests = d.requests /\ e.late = d.late
        /\ e.inbox = d.inbox
    BY <2>1 DEF Manager, IsManager
  <2>3. e.openCount \in Nat /\ e.openCount > 0
    BY <1>1, <2>2 DEF Manager, IsManager
  <2> QED
    BY <2>2, <2>3 DEF Manager, IsManager, ClosedIf, Fetches, OnTheWay, IsOpened
<1>2. CASE ~(d.openCount > 1)
  <2>1. PICK a \in Abandoned(d) :
          e = [a EXCEPT !.openCount = 0, !.state = "CLOSED", !.hasSession = FALSE]
    BY <1>2 DEF close
  <2>2. PICK late \in {d.late} \cup (IF d.requests # <<>> /\ Len(d.late) < MaxLate
                           THEN {Append(d.late, Head(d.requests))} ELSE {}) :
          a = [d EXCEPT !.requests = <<>>, !.inbox = <<>>, !.late = late]
    BY DEF Abandoned
  <2>3. late \in Seq(Requests)
    BY SMTT(30) DEF Manager, IsManager
  <2>4. /\ DOMAIN a = DOMAIN d /\ a.requests = <<>> /\ a.inbox = <<>>
        /\ a.late = late
    BY <2>2 DEF Manager, IsManager
  <2>5. /\ DOMAIN e = DOMAIN d /\ e.openCount = 0 /\ e.state = "CLOSED"
        /\ e.hasSession \in BOOLEAN /\ ~e.hasSession /\ e.requests = <<>> /\ e.inbox = <<>>
        /\ e.late = late
    BY <2>1, <2>4 DEF Manager, IsManager
  <2>6. d.openCount = 1
    BY <1>2 DEF Manager, IsManager
  <2>7. DOMAIN d = {"openCount", "state", "hasSession", "requests", "late", "inbox"}
    BY DEF Manager, IsManager
  <2>8. Manager(e)
    BY <2>3, <2>5, <2>7, NothingManaged
  <2> QED
    BY <1>2, <2>5, <2>6, <2>8
<1> QED
  BY <1>1, <1>2

(* What is still on its way, or what has just come.                        *)
FetchesWith(d, what) ==
  /\ d.state = "OPENING" => what = "PROVISION" \/ "PROVISION" \in OnTheWay(d)
  /\ d.state = "OPENED" => what \in Requests \/ OnTheWay(d) \cap Requests # {}

LEMMA ArrivesManaged ==
  ASSUME NEW d, IsManager(d), ClosedIf(d), NEW what \in Requests \cup Events,
         NEW late \in BOOLEAN, FetchesWith(d, what), d.openCount = 0 => late
  PROVE  Serves(d, Arrives(d, what, late))
<1> DEFINE message == [what |-> what, late |-> late]
           e == Arrives(d, what, late)
<1>1. /\ DOMAIN e = DOMAIN d /\ e.state = d.state /\ e.openCount = d.openCount
      /\ e.hasSession = d.hasSession /\ e.requests = d.requests
      /\ e.late = d.late /\ e.inbox = Append(d.inbox, message)
  BY DEF IsManager, Arrives
<1>2. message \in Message /\ message.what = what /\ message.late = late
  BY DEF Message
<1> HIDE DEF message, e
<1>3. /\ e.inbox \in Seq(Message) /\ DOMAIN e.inbox = 1..Len(d.inbox) + 1
      /\ e.inbox[Len(d.inbox) + 1] = message
      /\ \A i \in DOMAIN d.inbox : i \in DOMAIN e.inbox /\ e.inbox[i] = d.inbox[i]
      /\ \A i \in DOMAIN e.inbox : i \in DOMAIN d.inbox \/ i = Len(d.inbox) + 1
      /\ Len(d.inbox) + 1 \in DOMAIN e.inbox
  BY <1>1, <1>2 DEF IsManager
<1>4. what \in OnTheWay(e)
  BY <1>2, <1>3 DEF OnTheWay
<1>5. OnTheWay(d) \subseteq OnTheWay(e)
  BY <1>1, <1>3 DEF OnTheWay
<1>6. IsManager(e)
  BY <1>1, <1>3 DEF IsManager
<1>7. ClosedIf(e)
  BY <1>1, <1>2, <1>3 DEF ClosedIf, IsOpened
<1>8. Fetches(e)
  BY <1>1, <1>4, <1>5 DEF Fetches, FetchesWith
<1> QED
  BY <1>1, <1>6, <1>7, <1>8 DEF Serves, Manager, e

(* The answer of the thread, or of a former one, and an event.             *)
LEMMA DrmManaged ==
  ASSUME Manager(drm), Answer \/ AnswerLate \/ onEvent
  PROVE  Serves(drm, drm')
<1>1. IsManager(drm) /\ ClosedIf(drm) /\ Fetches(drm)
  BY DEF Manager
<1>2. CASE Answer
  <2> DEFINE d == [drm EXCEPT !.requests = Tail(@)]
             what == Head(drm.requests)
  <2>1. /\ DOMAIN d = DOMAIN drm /\ d.state = drm.state /\ d.openCount = drm.openCount
        /\ d.hasSession = drm.hasSession /\ d.requests = Tail(drm.requests)
        /\ d.late = drm.late /\ d.inbox = drm.inbox
    BY <1>1 DEF IsManager
  <2>2. /\ drm.requests \in Seq(Requests) /\ drm.requests # <<>>
        /\ drm' = Arrives(d, what, FALSE)
    BY <1>1, <1>2 DEF Answer, IsManager
  <2>3. /\ what \in Requests /\ d.requests \in Seq(Requests)
        /\ \A i \in DOMAIN drm.requests :
             i = 1 \/ (i - 1 \in DOMAIN d.requests /\ d.requests[i - 1] = drm.requests[i])
        /\ what = drm.requests[1]
    BY <2>1, <2>2
  <2> HIDE DEF d, what
  <2>4. OnTheWay(drm) \subseteq OnTheWay(d) \cup {what}
    <3>1. ToSet(drm.requests) \subseteq ToSet(d.requests) \cup {what}
      BY <2>3 DEF ToSet
    <3> QED
      BY <2>1, <3>1 DEF OnTheWay
  <2>5. IsManager(d)
    BY <1>1, <2>1, <2>3 DEF IsManager
  <2>6. d.openCount # 0
    BY <1>1, <2>1, <2>2 DEF ClosedIf
  <2>7. ClosedIf(d)
    BY <1>1, <2>1, <2>6 DEF ClosedIf, IsOpened
  <2>8. FetchesWith(d, what)
    BY <1>1, <2>1, <2>3, <2>4 DEF Fetches, FetchesWith
  <2>9. Serves(d, drm')
    BY <2>2, <2>3, <2>5, <2>6, <2>7, <2>8, ArrivesManaged
  <2> QED
    BY <2>1, <2>9 DEF Serves
<1>3. CASE AnswerLate
  <2>1. PICK i \in DOMAIN drm.late :
          drm' = Arrives([drm EXCEPT !.late = RemoveAt(@, i)], drm.late[i], TRUE)
    BY <1>3 DEF AnswerLate
  <2> DEFINE d == [drm EXCEPT !.late = RemoveAt(@, i)]
  <2>2. /\ DOMAIN d = DOMAIN drm /\ d.state = drm.state /\ d.openCount = drm.openCount
        /\ d.hasSession = drm.hasSession /\ d.requests = drm.requests
        /\ d.late = RemoveAt(drm.late, i) /\ d.inbox = drm.inbox
    BY <1>1 DEF IsManager
  <2> HIDE DEF d
  <2>3. drm.late \in Seq(Requests)
    BY <1>1 DEF IsManager
  <2>4. d.late \in Seq(Requests) /\ drm.late[i] \in Requests
    <3>1. i \in 1..Len(drm.late)
      BY <2>3
    <3>2. /\ SubSeq(drm.late, 1, i - 1) \in Seq(Requests)
          /\ SubSeq(drm.late, i + 1, Len(drm.late)) \in Seq(Requests)
      BY <2>3, <3>1
    <3> QED
      BY <2>2, <2>3, <3>1, <3>2 DEF RemoveAt
  <2>5. IsManager(d)
    BY <1>1, <2>2, <2>4 DEF IsManager
  <2>6. ClosedIf(d) /\ OnTheWay(d) = OnTheWay(drm)
    BY <1>1, <2>2 DEF ClosedIf, OnTheWay, IsOpened
  <2>7. FetchesWith(d, drm.late[i])
    BY <1>1, <2>2, <2>6 DEF Fetches, FetchesWith
  <2>8. Serves(d, drm')
    BY <2>1, <2>4, <2>5, <2>6, <2>7, ArrivesManaged DEF d
  <2> QED
    BY <2>2, <2>8 DEF Serves
<1>4. CASE onEvent
  <2>1. PICK event \in Events : drm' = Arrives(drm, event, ~drm.hasSession)
    BY <1>4 DEF onEvent
  <2>2. FetchesWith(drm, event)
    BY <1>1 DEF Fetches, FetchesWith
  <2>3. (~drm.hasSession) \in BOOLEAN /\ (drm.openCount = 0 => ~drm.hasSession)
    BY <1>1 DEF ClosedIf
  <2> QED
    BY <1>1, <2>1, <2>2, <2>3, ArrivesManaged
<1> QED
  BY <1>2, <1>3, <1>4

(* A message that is handled.                                              *)
LEMMA ProvisionedManaged ==
  ASSUME NEW d, IsManager(d), ClosedIf(d), FetchesWith(d, "PROVISION"),
         NEW e \in onProvisionResponse(d)
  PROVE  Serves(d, e)
<1>1. CASE d.state \notin {"OPENING", "OPENED", "OPENED_WITH_KEYS"}
  BY <1>1 DEF onProvisionResponse, Serves, Manager, Fetches
<1>2. CASE d.state \in {"OPENING", "OPENED", "OPENED_WITH_KEYS"}
  <2>1. d.openCount > 0
    BY <1>2 DEF IsManager, ClosedIf
  <2>2. \/ e = onError(d)
        \/ d.state = "OPENING" /\ e \in openInternal(d, FALSE)
        \/ d.state # "OPENING" /\ e \in postKeyRequest(d)
    BY <1>2 DEF onProvisionResponse
  <2> QED
    BY <2>1, <2>2, ErrorManaged, OpenedManaged, KeysAsked DEF Serves
<1> QED
  BY <1>1, <1>2

LEMMA KeysManaged ==
  ASSUME NEW d, IsManager(d), ClosedIf(d), FetchesWith(d, "KEYS"),
         NEW e \in onKeyResponse(d)
  PROVE  Serves(d, e)
<1>1. CASE ~IsOpened(d)
  BY <1>1 DEF onKeyResponse, Serves, Manager, Fetches, FetchesWith, IsOpened
<1>2. CASE IsOpened(d)
  <2>1. d.openCount > 0 /\ d.state # "OPENING" /\ d.hasSession
    BY <1>2 DEF IsManager, ClosedIf, IsOpened
  <2> DEFINE f == [d EXCEPT !.state = "OPENED_WITH_KEYS"]
  <2>2. e = f \/ e = Posted(d, "PROVISION") \/ e = onError(d)
    BY <1>2 DEF onKeyResponse
  <2>3. Serves(d, f)
    <3>1. /\ IsManager(f) /\ ClosedIf(f) /\ f.state = "OPENED_WITH_KEYS"
          /\ f.openCount = d.openCount /\ f.hasSession = d.hasSession
      BY <2>1, StateChanged
    <3> HIDE DEF f
    <3> QED
      BY <3>1 DEF Serves, Manager, Fetches
  <2> HIDE DEF f
  <2>4. Serves(d, Posted(d, "PROVISION"))
    BY <2>1, PostedManaged DEF Serves, Requests
  <2>5. Serves(d, onError(d))
    BY <2>1, ErrorManaged DEF Serves
  <2> QED
    BY <2>2, <2>3, <2>4, <2>5
<1> QED
  BY <1>1, <1>2

LEMMA EventManaged ==
  ASSUME NEW d, IsManager(d), ClosedIf(d), Fetches(d), NEW event \in Events,
         NEW e \in handleEvent(d, event)
  PROVE  Serves(d, e)
<1>1. CASE d.openCount = 0 \/ ~IsOpened(d)
  BY <1>1 DEF handleEvent, Serves, Manager
<1>2. CASE ~(d.openCount = 0 \/ ~IsOpened(d))
  <2>1. d.openCount > 0 /\ d.state # "OPENING" /\ d.hasSession
    BY <1>2 DEF IsManager, IsOpened, ClosedIf
  <2> DEFINE f == [d EXCEPT !.state = "OPENED"]
  <2>2. \/ e \in postKeyRequest(d) \/ e \in postKeyRequest(f)
        \/ e = Posted(f, "PROVISION")
    BY <1>2 DEF handleEvent, Events
  <2>3. /\ IsManager(f) /\ ClosedIf(f) /\ f.state = "OPENED"
        /\ f.openCount = d.openCount /\ f.hasSession = d.hasSession
    BY <2>1, StateChanged
  <2> HIDE DEF f
  <2>4. e \in postKeyRequest(d) => Serves(d, e)
    BY <2>1, KeysAsked
  <2>5. e \in postKeyRequest(f) => Serves(f, e)
    BY <2>1, <2>3, KeysAsked
  <2>6. e = Posted(f, "PROVISION") => Serves(f, e)
    BY <2>1, <2>3, PostedManaged DEF Serves, Requests
  <2> QED
    BY <2>2, <2>3, <2>4, <2>5, <2>6 DEF Serves
<1> QED
  BY <1>1, <1>2

LEMMA MessageManaged ==
  ASSUME Manager(drm), handleMessage
  PROVE  Serves(drm, drm')
<1> DEFINE d == [drm EXCEPT !.inbox = Tail(@)]
           what == Head(drm.inbox).what
<1>1. IsManager(drm) /\ ClosedIf(drm) /\ Fetches(drm)
  BY DEF Manager
<1>2. /\ drm.inbox \in Seq(Message) /\ drm.inbox # <<>> /\ drm' \in Handled(d, what)
  BY <1>1 DEF handleMessage, IsManager
<1>3. /\ DOMAIN d = DOMAIN drm /\ d.state = drm.state /\ d.openCount = drm.openCount
      /\ d.hasSession = drm.hasSession /\ d.requests = drm.requests
      /\ d.late = drm.late /\ d.inbox = Tail(drm.inbox)
  BY <1>1 DEF IsManager
<1>4. /\ d.inbox \in Seq(Message) /\ what = drm.inbox[1].what /\ drm.inbox[1] \in Message
      /\ \A i \in DOMAIN drm.inbox :
           i = 1 \/ (i - 1 \in DOMAIN d.inbox /\ d.inbox[i - 1] = drm.inbox[i])
      /\ \A i \in DOMAIN d.inbox : i + 1 \in DOMAIN drm.inbox /\ d.inbox[i] = drm.inbox[i + 1]
  BY <1>2, <1>3
<1>5. what \in Requests \cup Events
  BY <1>4 DEF Message
<1> HIDE DEF d, what
<1>6. OnTheWay(drm) \subseteq OnTheWay(d) \cup {what}
  <2>1. ASSUME NEW i \in DOMAIN drm.inbox
        PROVE  drm.inbox[i].what \in OnTheWay(d) \cup {what}
    <3>1. CASE i = 1
      BY <1>4, <3>1
    <3>2. CASE i # 1
      BY <1>4, <3>2 DEF OnTheWay
    <3> QED
      BY <3>1, <3>2
  <2> QED
    BY <1>3, <2>1 DEF OnTheWay
<1>7. IsManager(d)
  BY <1>1, <1>3, <1>4 DEF IsManager
<1>8. ClosedIf(d)
  BY <1>1, <1>3, <1>4 DEF ClosedIf, IsOpened
<1>9. FetchesWith(d, what)
  BY <1>1, <1>3, <1>6 DEF Fetches, FetchesWith
<1>10. CASE what = "PROVISION"
  <2>1. drm' \in onProvisionResponse(d)
    BY <1>2, <1>10 DEF Handled
  <2> QED
    BY <1>3, <1>7, <1>8, <1>9, <1>10, <2>1, ProvisionedManaged DEF Serves
<1>11. CASE what = "KEYS"
  <2>1. drm' \in onKeyResponse(d)
    BY <1>2, <1>11 DEF Handled
  <2> QED
    BY <1>3, <1>7, <1>8, <1>9, <1>11, <2>1, KeysManaged DEF Serves
<1>12. CASE what \in Events
  <2>1. what \notin Requests
    BY <1>12 DEF Events, Requests
  <2>2. drm' \in handleEvent(d, what)
    BY <1>2, <2>1 DEF Handled, Requests
  <2>3. Fetches(d)
    BY <1>1, <1>3, <1>6, <2>1 DEF Fetches, Requests
  <2> QED
    BY <1>3, <1>7, <1>8, <1>12, <2>2, <2>3, EventManaged DEF Serves
<1> QED
  BY <1>5, <1>10, <1>11, <1>12 DEF Requests

-----------------------------------------------------------------------------
(* Buffers and decoders.                                                   *)

LEMMA Buffers ==
  /\ NoFormat \notin Formats
  /\ EndOfStream \in Buffer /\ EndOfStream.config = NoFormat /\ EndOfStream.data = <<>>
  /\ EmptyBuffer \in Buffer /\ EmptyBuffer.config = NoFormat /\ EmptyBuffer.data = <<>>
  /\ NoBuffer.config = NoFormat /\ NoBuffer.data = <<>> /\ NoBuffer.time = -1
  /\ EndOfStream.time = 0 /\ EmptyBuffer.time = -2
  /\ EndOfStream # NoBuffer
<1>1. NoFormat \notin Formats
  BY SamplesAssumption
<1>2. <<>> \in Seq(Frames)
  OBVIOUS
<1>3. EndOfStream \in Buffer /\ EmptyBuffer \in Buffer
  BY <1>2 DEF EndOfStream, EmptyBuffer, Buffer
<1> QED
  BY <1>1, <1>3 DEF EndOfStream, EmptyBuffer, NoBuffer

LEMMA NoCodecIs ==
  /\ NoCodec.configured = NoFormat /\ NoCodec.current = NoFormat
  /\ NoCodec.crypto \in BOOLEAN /\ ~NoCodec.crypto
  /\ NoCodec.begun \in BOOLEAN /\ ~NoCodec.begun
  /\ NoCodec.queue = <<>> /\ NoCodec.outputs = <<>>
  /\ DOMAIN NoCodec = {"configured", "current", "crypto", "begun", "queue", "outputs"}
BY DEF NoCodec

(* Nothing in the queue.                                                   *)
LEMMA TakenFirst ==
  ASSUME NEW c
  PROVE  Taken(c, 0) = c.current
<1>1. {j \in 1..0 : c.queue[j].config # NoFormat} = {}
  OBVIOUS
<1> QED
  BY <1>1 DEF Taken

(* Without a decoder a renderer is in order when nothing is left of one.   *)
LEMMA EmptyWorks ==
  ASSUME NEW r, NEW d, Owns(r, d), Empty(r)
  PROVE  Works(r, NoCodec, d)
<1>1. /\ r.input = NoBuffer /\ r.output = NoBuffer /\ ~r.reconfigured
      /\ r.reconfiguration = "NONE" /\ r.input.data = <<>> /\ r.input.config = NoFormat
  BY Buffers DEF Empty
<1>2. CodecTyped(NoCodec)
  <2>1. <<>> \in Seq(Buffer) /\ DOMAIN <<>> = {}
    OBVIOUS
  <2> QED
    BY <2>1, NoCodecIs DEF CodecTyped
<1>3. SetUp(r, NoCodec, d)
  BY DEF SetUp
<1>4. Holds(r)
  <2>1. Len(r.input.data) # 1
    BY <1>1
  <2> QED
    BY <1>1, <2>1 DEF Holds
<1>5. Formatted(r, NoCodec)
  <2>1. DOMAIN NoCodec.queue = {}
    BY NoCodecIs
  <2> QED
    BY <1>1, <2>1 DEF Formatted
<1> QED
  BY <1>1, <1>2, <1>3, <1>4, <1>5 DEF Works

(* A decoder with nothing in it: made for the renderer's format, or        *)
(* flushed, when it may have to be told of it again.                       *)
LEMMA FreshWorks ==
  ASSUME NEW r, NEW c, NEW d, Owns(r, d), r.input = NoBuffer, r.output = NoBuffer,
         DOMAIN c = DOMAIN NoCodec, c.queue = <<>>, c.outputs = <<>>,
         c.begun \in BOOLEAN, c.crypto \in BOOLEAN,
         c.configured \in Formats, c.current \in Formats \cup {NoFormat},
         c.crypto = device.protected,
         r.format \in Formats, r.surface,
         device.protected => r.openedDrmSession /\ d.hasSession,
         r.reconfiguration # "QUEUE_PENDING",
         r.reconfigured => r.reconfiguration = "WRITE_PENDING" /\ ~r.waitingForKeys,
         ~r.reconfigured =>
           r.reconfiguration = "NONE" /\ c.configured = r.format /\ c.current = r.format
  PROVE  Works(r, c, d) /\ c # NoCodec
<1>1. c # NoCodec
  BY Buffers, NoCodecIs
<1>2. CodecTyped(c)
  <2>1. <<>> \in Seq(Buffer) /\ DOMAIN <<>> = {}
    OBVIOUS
  <2> QED
    BY <2>1 DEF CodecTyped
<1>3. SetUp(r, c, d)
  BY <1>1 DEF SetUp
<1>4. r.input.data = <<>> /\ r.input.config = NoFormat
  BY Buffers
<1>5. Holds(r)
  <2>1. Len(r.input.data) # 1
    BY <1>4
  <2>2. r.reconfigured \in BOOLEAN
    BY DEF Owns, RendererTyped
  <2> QED
    BY <1>4, <2>1, <2>2 DEF Holds
<1>6. Formatted(r, c)
  <2>1. DOMAIN c.queue = {} /\ Len(c.queue) = 0
    OBVIOUS
  <2>2. Taken(c, Len(c.queue)) = c.current
    BY <2>1, TakenFirst
  <2>3. r.reconfigured \in BOOLEAN
    BY DEF Owns, RendererTyped
  <2>4. CASE r.reconfigured
    BY <1>4, <2>1, <2>4 DEF Formatted
  <2>5. CASE ~r.reconfigured
    BY <1>4, <2>1, <2>2, <2>5 DEF Formatted
  <2> QED
    BY <2>3, <2>4, <2>5
<1> QED
  BY <1>1, <1>2, <1>3, <1>5, <1>6 DEF Works

-----------------------------------------------------------------------------
(* The operators of a call.                                                *)

(* What q has changed of r.                                                *)
Changed(r, q, S) == DOMAIN q = DOMAIN r /\ \A f \in DOMAIN r \ S : q[f] = r[f]

(* What the session and the renderer's life depend on.                     *)
LEMMA StillOwns ==
  ASSUME NEW r, NEW q, NEW d, Owns(r, d), RendererTyped(q),
         q.state = r.state, q.openedDrmSession = r.openedDrmSession,
         q.format = r.format, q.waitingForKeys => r.waitingForKeys, q.holder = r.holder
  PROVE  Owns(q, d)
BY DEF Owns

LEMMA FieldsOf == DOMAIN NewRenderer =
  {"state", "failed", "surface", "format", "openedDrmSession", "input", "output", "holder",
   "reconfigured", "reconfiguration", "inputStreamEnded", "outputStreamEnded",
   "waitingForKeys", "waitingForFirstSyncFrame", "decodeOnly", "shown"}
BY DEF NewRenderer

IsWorld(w) == DOMAIN w = {"renderer", "codec", "drm"}

LEMMA ReleasedCodec ==
  ASSUME NEW w, IsWorld(w), Owns(w.renderer, w.drm), w.codec = NoCodec => Empty(w.renderer)
  PROVE  LET v == releaseCodec(w)
         IN  /\ Sane(v) /\ v.codec = NoCodec /\ v.drm = w.drm
             /\ Changed(w.renderer, v.renderer, {"input", "output", "decodeOnly", "reconfigured",
                                                 "reconfiguration"})
<1>1. CASE w.codec = NoCodec
  BY <1>1, EmptyWorks DEF releaseCodec, Sane, IsWorld, Changed
<1>2. CASE w.codec # NoCodec
  <2> DEFINE v == releaseCodec(w)
             r == w.renderer
             q == v.renderer
             q1 == [r EXCEPT !.input = NoBuffer, !.output = NoBuffer, !.decodeOnly = {},
                             !.reconfigured = FALSE, !.reconfiguration = "NONE"]
  <2>1. DOMAIN v = DOMAIN w /\ v.codec = NoCodec /\ v.drm = w.drm /\ q = q1
    BY <1>2 DEF releaseCodec, IsWorld
  <2> HIDE DEF v
  <2>2. RendererTyped(r)
    BY DEF Owns
  <2>3. /\ DOMAIN q1 = DOMAIN r /\ q1.input = NoBuffer /\ q1.output = NoBuffer
        /\ q1.decodeOnly = {} /\ ~q1.reconfigured /\ q1.reconfigured \in BOOLEAN
        /\ q1.reconfiguration = "NONE"
        /\ \A f \in DOMAIN r \ {"input", "output", "decodeOnly", "reconfigured",
                                "reconfiguration"} : q1[f] = r[f]
    BY <2>2, FieldsOf DEF RendererTyped
  <2> HIDE DEF q1
  <2>4. RendererTyped(q1)
    BY <2>2, <2>3, FieldsOf DEF RendererTyped
  <2>5. Owns(q1, w.drm)
    BY <2>2, <2>3, <2>4, FieldsOf, StillOwns DEF RendererTyped
  <2>6. Empty(q1)
    BY <2>3 DEF Empty
  <2> QED
    BY <2>1, <2>3, <2>5, <2>6, EmptyWorks DEF Sane, Changed, IsWorld, v
<1> QED
  BY <1>1, <1>2

(* Some fields are nobody else's.                                          *)
LEMMA WorksStill ==
  ASSUME NEW r, NEW q, NEW c, NEW d, Works(r, c, d), RendererTyped(q),
         Changed(r, q, {"failed", "shown", "inputStreamEnded", "outputStreamEnded",
                        "decodeOnly", "waitingForFirstSyncFrame"}),
         q.waitingForFirstSyncFrame => r.waitingForFirstSyncFrame
  PROVE  Works(q, c, d)
<1>1. RendererTyped(r) /\ DOMAIN r = DOMAIN NewRenderer
  BY DEF Works, Owns, RendererTyped
<1>2. /\ q.state = r.state /\ q.surface = r.surface /\ q.format = r.format
      /\ q.openedDrmSession = r.openedDrmSession /\ q.input = r.input
      /\ q.output = r.output /\ q.holder = r.holder /\ q.reconfigured = r.reconfigured
      /\ q.reconfiguration = r.reconfiguration /\ q.waitingForKeys = r.waitingForKeys
  BY <1>1, FieldsOf DEF Changed
<1>3. Owns(q, d)
  BY <1>2, StillOwns DEF Works
<1>4. SetUp(q, c, d)
  BY <1>2 DEF Works, SetUp, Empty
<1>5. Holds(q)
  BY <1>2 DEF Works, Holds
<1>6. Formatted(q, c)
  BY <1>2 DEF Works, Formatted
<1> QED
  BY <1>2, <1>3, <1>4, <1>5, <1>6 DEF Works

LEMMA ThrownWorks ==
  ASSUME NEW w, Sane(w)
  PROVE  LET v == Throws(w)
         IN  /\ Sane(v) /\ v.codec = w.codec /\ v.drm = w.drm
             /\ v.renderer.failed /\ Changed(w.renderer, v.renderer, {"failed"})
<1> DEFINE v == Throws(w)
           r == w.renderer
           q == [r EXCEPT !.failed = TRUE]
<1>1. DOMAIN v = DOMAIN w /\ v.codec = w.codec /\ v.drm = w.drm /\ v.renderer = q
  BY DEF Throws, Sane
<1> HIDE DEF v
<1>2. RendererTyped(r)
  BY DEF Sane, Works, Owns
<1>3. /\ DOMAIN q = DOMAIN r /\ q.failed /\ q.failed \in BOOLEAN
      /\ \A f \in DOMAIN r \ {"failed"} : q[f] = r[f]
  BY <1>2, FieldsOf DEF RendererTyped
<1> HIDE DEF q
<1>4. RendererTyped(q)
  BY <1>2, <1>3, FieldsOf DEF RendererTyped
<1>5. Works(q, w.codec, w.drm)
  <2>1. q.waitingForFirstSyncFrame = r.waitingForFirstSyncFrame
    BY <1>2, <1>3, FieldsOf DEF RendererTyped
  <2>2. Changed(r, q, {"failed", "shown", "inputStreamEnded", "outputStreamEnded",
                       "decodeOnly", "waitingForFirstSyncFrame"})
    BY <1>3 DEF Changed
  <2> QED
    BY <1>4, <2>1, <2>2, WorksStill DEF Sane
<1> QED
  BY <1>1, <1>3, <1>5 DEF Sane, Changed, v

(* The decoder is made, or not.                                            *)
LEMMA InitializedWorks ==
  ASSUME NEW w, Sane(w), w.codec = NoCodec, w.renderer.format # NoFormat,
         w.renderer.surface,
         device.protected => w.renderer.openedDrmSession /\ w.drm.hasSession,
         device.protected \in BOOLEAN, NEW v \in Initialized(w)
  PROVE  /\ Sane(v) /\ v.drm = w.drm /\ v.codec.queue = <<>>
         /\ Changed(w.renderer, v.renderer, {"failed", "input", "output",
                                             "waitingForFirstSyncFrame"})
         /\ v.renderer.failed \/ (v.codec # NoCodec /\ v.renderer.waitingForFirstSyncFrame)
<1> DEFINE r == w.renderer
           c == NewCodec(r.format, device.protected)
           created == [w EXCEPT !.codec = c]
           q == [r EXCEPT !.input = NoBuffer, !.output = NoBuffer,
                          !.waitingForFirstSyncFrame = TRUE]
           u == [created EXCEPT !.renderer.input = NoBuffer, !.renderer.output = NoBuffer,
                                !.renderer.waitingForFirstSyncFrame = TRUE]
<1>1. v = u \/ v = Throws(w) \/ v = Throws(created)
  BY DEF Initialized
<1>2. /\ DOMAIN created = DOMAIN w /\ created.codec = c /\ created.drm = w.drm
      /\ created.renderer = r
  BY DEF Sane
<1>3. /\ DOMAIN u = DOMAIN w /\ u.codec = c /\ u.drm = w.drm /\ u.renderer = q
  BY DEF Sane
<1>4. /\ c.configured = r.format /\ c.current = r.format /\ c.crypto = device.protected
      /\ c.begun \in BOOLEAN /\ ~c.begun /\ c.queue = <<>> /\ c.outputs = <<>>
      /\ DOMAIN c = DOMAIN NoCodec
  BY NoCodecIs DEF NewCodec, NoCodec
<1>5. Works(r, w.codec, w.drm) /\ DOMAIN w = {"renderer", "codec", "drm"}
  BY DEF Sane
<1>6. RendererTyped(r) /\ Owns(r, w.drm) /\ Empty(r) /\ r.format \in Formats
  BY <1>5 DEF Works, Owns, RendererTyped, SetUp
<1> HIDE DEF c, created, u
<1>7. /\ DOMAIN q = DOMAIN r /\ q.input = NoBuffer /\ q.output = NoBuffer
      /\ q.waitingForFirstSyncFrame /\ q.waitingForFirstSyncFrame \in BOOLEAN
      /\ \A f \in DOMAIN r \ {"input", "output", "waitingForFirstSyncFrame"} : q[f] = r[f]
  BY <1>6, FieldsOf DEF RendererTyped
<1> HIDE DEF q
<1>8. RendererTyped(q)
  BY <1>6, <1>7, FieldsOf, ZenonT(30) DEF RendererTyped
<1>9. /\ q.state = r.state /\ q.openedDrmSession = r.openedDrmSession
      /\ q.format = r.format /\ q.waitingForKeys = r.waitingForKeys /\ q.holder = r.holder
      /\ q.surface = r.surface /\ q.reconfigured = r.reconfigured
      /\ q.reconfiguration = r.reconfiguration
  BY <1>6, <1>7, FieldsOf DEF RendererTyped
<1>10. Owns(q, w.drm)
  BY <1>6, <1>8, <1>9, StillOwns
<1>11. Works(q, c, w.drm) /\ c # NoCodec
  BY <1>4, <1>6, <1>7, <1>9, <1>10, FreshWorks DEF Empty
<1>12. Works(r, c, w.drm)
  BY <1>4, <1>6, FreshWorks DEF Empty
<1>13. Sane(u) /\ Sane(created)
  BY <1>2, <1>3, <1>5, <1>11, <1>12 DEF Sane
<1>14. CASE v = u
  BY <1>3, <1>4, <1>7, <1>11, <1>13, <1>14 DEF Changed
<1>15. CASE v = Throws(w)
  BY <1>15, ThrownWorks, NoCodecIs DEF Changed
<1>16. CASE v = Throws(created)
  BY <1>2, <1>4, <1>13, <1>16, ThrownWorks DEF Changed
<1> QED
  BY <1>1, <1>14, <1>15, <1>16

LEMMA SessionWorks ==
  ASSUME NEW w, Sane(w), w.codec = NoCodec, device.protected,
         w.renderer.format # NoFormat, NEW v \in SessionOpened(w)
  PROVE  /\ Sane(v) /\ v.codec = NoCodec /\ v.renderer.openedDrmSession
         /\ v.drm.openCount > 0
         /\ Changed(w.renderer, v.renderer, {"openedDrmSession"})
         /\ w.renderer.openedDrmSession => v = w
<1> DEFINE r == w.renderer
           q == [r EXCEPT !.openedDrmSession = TRUE]
<1>1. Works(r, w.codec, w.drm) /\ DOMAIN w = {"renderer", "codec", "drm"}
  BY DEF Sane
<1>2. RendererTyped(r) /\ Owns(r, w.drm) /\ Empty(r) /\ Manager(w.drm)
  BY <1>1 DEF Works, Owns, SetUp
<1>3. w.drm.openCount \in Nat /\ (other => w.drm.openCount > 0)
  BY <1>2 DEF Owns, Manager, IsManager
<1>4. CASE r.openedDrmSession
  <2>1. v = w
    BY <1>4 DEF SessionOpened
  <2>2. w.drm.openCount > 0
    BY <1>2, <1>4 DEF Owns
  <2> QED
    BY <1>4, <2>1, <2>2 DEF Changed
<1>5. CASE ~r.openedDrmSession
  <2>1. PICK d \in open(w.drm) :
          v = [w EXCEPT !.drm = d, !.renderer.openedDrmSession = TRUE]
    BY <1>5 DEF SessionOpened
  <2>2. DOMAIN v = DOMAIN w /\ v.codec = w.codec /\ v.drm = d /\ v.renderer = q
    BY <1>1, <2>1
  <2>3. /\ Manager(d) /\ d.openCount = w.drm.openCount + 1
    BY <1>2, OpenManaged
  <2>4. /\ DOMAIN q = DOMAIN r /\ q.openedDrmSession /\ q.openedDrmSession \in BOOLEAN
        /\ \A f \in DOMAIN r \ {"openedDrmSession"} : q[f] = r[f]
    BY <1>2, FieldsOf DEF RendererTyped
  <2> HIDE DEF q
  <2>5. RendererTyped(q)
    BY <1>2, <2>4, FieldsOf DEF RendererTyped
  <2>6. /\ q.state = r.state /\ q.format = r.format /\ q.waitingForKeys = r.waitingForKeys
        /\ q.holder = r.holder /\ q.input = r.input /\ q.output = r.output
        /\ q.reconfigured = r.reconfigured /\ q.reconfiguration = r.reconfiguration
    BY <1>2, <2>4, FieldsOf DEF RendererTyped
  <2>7. w.drm.openCount = (IF other THEN 1 ELSE 0)
    BY <1>2, <1>5 DEF Owns
  <2>8. d.openCount = (IF q.openedDrmSession THEN 1 ELSE 0) + (IF other THEN 1 ELSE 0)
    BY <2>3, <2>4, <2>7
  <2>9. r.state \notin {"DISABLED", "RELEASED"}
    BY <1>2 DEF Owns
  <2>10. Owns(q, d)
    BY <1>2, <2>3, <2>5, <2>6, <2>8, <2>9 DEF Owns
  <2>11. Works(q, NoCodec, d)
    BY <1>2, <2>6, <2>10, EmptyWorks DEF Empty
  <2> QED
    BY <1>1, <1>3, <1>5, <2>2, <2>3, <2>4, <2>11 DEF Sane, Changed
<1> QED
  BY <1>4, <1>5

Anew == {"openedDrmSession", "failed", "input", "output", "waitingForFirstSyncFrame"}

(* A session that is in use was not closed; when it has a session, it is   *)
(* open or has failed.                                                     *)
LEMMA InUse ==
  ASSUME NEW d, Manager(d), d.openCount > 0, d.hasSession
  PROVE  d.state = "ERROR" \/ IsOpened(d)
BY DEF Manager, IsManager, ClosedIf, IsOpened

LEMMA InitWorks ==
  ASSUME NEW w, Sane(w), w.codec = NoCodec, device.protected \in BOOLEAN,
         NEW v \in maybeInitCodec(w)
  PROVE  /\ Sane(v) /\ v.codec.queue = <<>> /\ Changed(w.renderer, v.renderer, Anew)
         /\ v.codec # NoCodec /\ ~v.renderer.failed => v.renderer.waitingForFirstSyncFrame
         /\ /\ w.renderer.format # NoFormat /\ w.renderer.surface
            /\ device.protected => w.renderer.openedDrmSession /\ w.drm.hasSession
            => v.renderer.failed \/ v.codec # NoCodec
<1>1. CASE ~shouldInitCodec(w)
  <2>1. v = w
    BY <1>1 DEF maybeInitCodec
  <2>2. ~(w.renderer.format # NoFormat /\ w.renderer.surface)
    BY <1>1 DEF shouldInitCodec
  <2> QED
    BY <2>1, <2>2, NoCodecIs DEF Changed
<1>2. CASE shouldInitCodec(w) /\ ~device.protected
  <2>1. v \in Initialized(w)
    BY <1>2 DEF maybeInitCodec
  <2>2. w.renderer.format # NoFormat /\ w.renderer.surface
    BY <1>2 DEF shouldInitCodec
  <2> QED
    BY <1>2, <2>1, <2>2, InitializedWorks DEF Changed, Anew
<1>3. CASE shouldInitCodec(w) /\ device.protected
  <2>1. PICK u \in SessionOpened(w) :
          v \in CASE u.drm.state = "ERROR" -> {Throws(u)}
                  [] IsOpened(u.drm) -> Initialized(u)
                  [] OTHER -> {u}
    BY <1>3 DEF maybeInitCodec
  <2>2. w.renderer.format # NoFormat /\ w.renderer.surface
    BY <1>3 DEF shouldInitCodec
  <2>3. /\ Sane(u) /\ u.codec = NoCodec /\ u.renderer.openedDrmSession
        /\ u.drm.openCount > 0
        /\ Changed(w.renderer, u.renderer, {"openedDrmSession"})
        /\ w.renderer.openedDrmSession => u = w
    BY <1>3, <2>2, SessionWorks
  <2>4. Manager(u.drm) /\ RendererTyped(w.renderer)
    BY <2>3 DEF Sane, Works, Owns
  <2>5. u.renderer.format # NoFormat /\ u.renderer.surface
    BY <2>2, <2>3, <2>4, FieldsOf DEF Changed, RendererTyped
  <2>6. CASE u.drm.state = "ERROR"
    <3>1. v = Throws(u)
      BY <2>1, <2>6 DEF IsOpened
    <3> QED
      BY <2>3, <3>1, ThrownWorks, NoCodecIs DEF Changed, Anew
  <2>7. CASE IsOpened(u.drm)
    <3>1. v \in Initialized(u)
      BY <2>1, <2>7 DEF IsOpened
    <3>2. u.drm.hasSession
      BY <2>4, <2>7 DEF Manager, ClosedIf
    <3>3. /\ Sane(v) /\ v.codec.queue = <<>>
          /\ Changed(u.renderer, v.renderer, {"failed", "input", "output",
                                              "waitingForFirstSyncFrame"})
          /\ v.renderer.failed \/ (v.codec # NoCodec /\ v.renderer.waitingForFirstSyncFrame)
      BY <1>3, <2>3, <2>5, <3>1, <3>2, InitializedWorks
    <3> QED
      BY <2>3, <3>3 DEF Changed, Anew
  <2>8. CASE u.drm.state # "ERROR" /\ ~IsOpened(u.drm)
    <3>1. v = u
      BY <2>1, <2>8
    <3>2. ~u.drm.hasSession
      BY <2>3, <2>4, <2>8, InUse
    <3> QED
      BY <1>3, <2>3, <3>1, <3>2, NoCodecIs DEF Changed, Anew
  <2> QED
    BY <2>6, <2>7, <2>8
<1> QED
  BY <1>1, <1>2, <1>3

(* A flush keeps the decoder, or makes another; it is told again of a      *)
(* format it may have forgotten.                                           *)
Renewed == Anew \cup {"decodeOnly", "reconfigured", "reconfiguration"}

LEMMA FlushedWorks ==
  ASSUME NEW w, Sane(w), w.codec # NoCodec, ~w.renderer.waitingForKeys, NEW u \in Flushed(w)
  PROVE  LET v == Rewritten(u)
         IN  /\ Sane(v) /\ v.codec # NoCodec /\ v.codec.queue = <<>>
             /\ Changed(w.renderer, v.renderer, Renewed)
<1> DEFINE r == w.renderer
           q == [r EXCEPT !.input = NoBuffer, !.output = NoBuffer, !.decodeOnly = {}]
           p == [q EXCEPT !.reconfiguration = "WRITE_PENDING"]
           v == Rewritten(u)
<1>1. Works(r, w.codec, w.drm) /\ DOMAIN w = {"renderer", "codec", "drm"}
  BY DEF Sane
<1>2. /\ RendererTyped(r) /\ Owns(r, w.drm) /\ CodecTyped(w.codec)
      /\ SetUp(r, w.codec, w.drm) /\ Formatted(r, w.codec)
  BY <1>1 DEF Works, Owns
<1>3. PICK f \in {w.codec.current, w.codec.configured} :
        u = [w EXCEPT !.codec = [@ EXCEPT !.current = f, !.begun = FALSE, !.queue = <<>>,
                                          !.outputs = <<>>],
                      !.renderer.input = NoBuffer, !.renderer.output = NoBuffer,
                      !.renderer.decodeOnly = {}]
  BY DEF Flushed
<1> DEFINE c == [w.codec EXCEPT !.current = f, !.begun = FALSE, !.queue = <<>>,
                                !.outputs = <<>>]
<1>4. DOMAIN u = DOMAIN w /\ u.codec = c /\ u.drm = w.drm /\ u.renderer = q
  BY <1>1, <1>3
<1>5. /\ DOMAIN c = DOMAIN NoCodec /\ c.queue = <<>> /\ c.outputs = <<>>
      /\ c.begun \in BOOLEAN /\ c.current = f
      /\ c.configured = w.codec.configured /\ c.crypto = w.codec.crypto
  BY <1>2, NoCodecIs DEF CodecTyped
<1> HIDE DEF c
<1>6. /\ DOMAIN q = DOMAIN r /\ q.input = NoBuffer /\ q.output = NoBuffer
      /\ q.decodeOnly = {}
      /\ \A g \in DOMAIN r \ {"input", "output", "decodeOnly"} : q[g] = r[g]
  BY <1>2, FieldsOf DEF RendererTyped
<1> HIDE DEF q
<1>7. RendererTyped(q)
  BY <1>2, <1>6, FieldsOf DEF RendererTyped
<1>8. /\ q.state = r.state /\ q.openedDrmSession = r.openedDrmSession
      /\ q.format = r.format /\ q.waitingForKeys = r.waitingForKeys /\ q.holder = r.holder
      /\ q.surface = r.surface /\ q.reconfigured = r.reconfigured
      /\ q.reconfiguration = r.reconfiguration
  BY <1>2, <1>6, FieldsOf DEF RendererTyped
<1>9. Owns(q, w.drm)
  BY <1>2, <1>7, <1>8, StillOwns
<1>10. /\ c.configured \in Formats /\ c.current \in Formats \cup {NoFormat}
       /\ c.crypto = device.protected /\ c.crypto \in BOOLEAN
       /\ r.format \in Formats /\ r.surface
       /\ device.protected => r.openedDrmSession /\ w.drm.hasSession
  BY <1>2, <1>5 DEF SetUp, CodecTyped
<1>11. CASE r.reconfigured
  <2>1. /\ DOMAIN p = DOMAIN q /\ p.reconfiguration = "WRITE_PENDING"
        /\ \A g \in DOMAIN q \ {"reconfiguration"} : p[g] = q[g]
    BY <1>7, FieldsOf DEF RendererTyped
  <2>2. v = [u EXCEPT !.renderer.reconfiguration = "WRITE_PENDING"]
    BY <1>4, <1>8, <1>11 DEF Rewritten
  <2>3. DOMAIN v = DOMAIN w /\ v.codec = c /\ v.drm = w.drm /\ v.renderer = p
    BY <1>1, <1>4, <2>2
  <2> HIDE DEF p, v
  <2>4. RendererTyped(p)
    BY <1>7, <2>1, FieldsOf DEF RendererTyped
  <2>5. /\ p.state = q.state /\ p.openedDrmSession = q.openedDrmSession
        /\ p.format = q.format /\ p.waitingForKeys = q.waitingForKeys /\ p.holder = q.holder
        /\ p.surface = q.surface /\ p.reconfigured = q.reconfigured
        /\ p.input = q.input /\ p.output = q.output
    BY <1>7, <2>1, FieldsOf DEF RendererTyped
  <2>6. Owns(p, w.drm)
    BY <1>9, <2>4, <2>5, StillOwns
  <2>7. Works(p, c, w.drm) /\ c # NoCodec
    <3>1. /\ p.input = NoBuffer /\ p.output = NoBuffer
          /\ p.format \in Formats /\ p.surface
          /\ device.protected => p.openedDrmSession /\ w.drm.hasSession
          /\ p.reconfiguration # "QUEUE_PENDING"
      BY <1>6, <1>8, <1>10, <2>1, <2>5
    <3>2. /\ p.reconfigured => p.reconfiguration = "WRITE_PENDING" /\ ~p.waitingForKeys
          /\ ~p.reconfigured => /\ p.reconfiguration = "NONE"
                                 /\ c.configured = p.format /\ c.current = p.format
      BY <1>8, <1>11, <2>1, <2>5
    <3> QED
      BY <2>6, <1>5, <1>10, <3>1, <3>2, FreshWorks
  <2>8. Changed(r, p, Renewed)
    BY <1>6, <2>1 DEF Changed, Renewed, Anew
  <2> QED
    BY <1>1, <1>5, <2>3, <2>7, <2>8 DEF Sane, v
<1>12. CASE ~r.reconfigured
  <2>1. v = u
    BY <1>4, <1>8, <1>12 DEF Rewritten
  <2>2. f = r.format /\ c.configured = r.format /\ r.reconfiguration = "NONE"
    BY <1>2, <1>5, <1>12 DEF Formatted
  <2>3. Works(q, c, w.drm) /\ c # NoCodec
    <3>1. /\ q.input = NoBuffer /\ q.output = NoBuffer
          /\ q.format \in Formats /\ q.surface
          /\ device.protected => q.openedDrmSession /\ w.drm.hasSession
          /\ q.reconfiguration # "QUEUE_PENDING"
      BY <1>6, <1>8, <1>10, <2>2
    <3>2. /\ q.reconfigured => q.reconfiguration = "WRITE_PENDING" /\ ~q.waitingForKeys
          /\ ~q.reconfigured => /\ q.reconfiguration = "NONE"
                                 /\ c.configured = q.format /\ c.current = q.format
      BY <1>5, <1>8, <1>12, <2>2
    <3> QED
      BY <1>9, <1>5, <1>10, <3>1, <3>2, FreshWorks
  <2>4. Changed(r, q, Renewed)
    BY <1>6 DEF Changed, Renewed, Anew
  <2> QED
    BY <1>1, <1>4, <1>5, <2>1, <2>3, <2>4 DEF Sane
<1> QED
  BY <1>11, <1>12

LEMMA FlushWorks ==
  ASSUME NEW w, Sane(w), w.codec # NoCodec, ~w.renderer.waitingForKeys,
         device.protected \in BOOLEAN, NEW v \in flushCodec(w)
  PROVE  /\ Sane(v) /\ v.codec.queue = <<>> /\ Changed(w.renderer, v.renderer, Renewed)
         /\ v.renderer.failed \/ v.codec # NoCodec
<1>1. CASE device.flushes
  <2>1. PICK u \in Flushed(w) : v = Rewritten(u)
    BY <1>1 DEF flushCodec
  <2> QED
    BY <2>1, FlushedWorks
<1>2. CASE ~device.flushes
  <2> DEFINE b == releaseCodec(w)
  <2>1. PICK u \in maybeInitCodec(b) : v = Rewritten(u)
    BY <1>2 DEF flushCodec
  <2>2. /\ Owns(w.renderer, w.drm) /\ IsWorld(w) /\ RendererTyped(w.renderer)
        /\ SetUp(w.renderer, w.codec, w.drm)
    BY DEF Sane, Works, Owns, IsWorld
  <2>3. /\ Sane(b) /\ b.codec = NoCodec /\ b.drm = w.drm
        /\ Changed(w.renderer, b.renderer, {"input", "output", "decodeOnly", "reconfigured",
                                            "reconfiguration"})
    BY <2>2, ReleasedCodec
  <2> HIDE DEF b
  <2>4. b.renderer.format # NoFormat /\ b.renderer.surface
    BY <2>2, <2>3, FieldsOf, Buffers DEF Changed, SetUp, RendererTyped
  <2>5. device.protected => b.renderer.openedDrmSession /\ b.drm.hasSession
    BY <2>2, <2>3, FieldsOf DEF Changed, SetUp, RendererTyped
  <2>6. /\ Sane(u) /\ u.codec.queue = <<>> /\ Changed(b.renderer, u.renderer, Anew)
        /\ u.renderer.failed \/ u.codec # NoCodec
    BY <2>1, <2>3, <2>4, <2>5, InitWorks
  <2>7. ~b.renderer.reconfigured
    BY <2>3 DEF Sane, Works, SetUp, Empty
  <2>8. ~u.renderer.reconfigured
    BY <2>2, <2>3, <2>6, <2>7, FieldsOf DEF Changed, Anew, RendererTyped
  <2>9. v = u
    BY <2>1, <2>8 DEF Rewritten
  <2>10. Changed(w.renderer, u.renderer, Renewed)
    BY <2>3, <2>6 DEF Changed, Anew, Renewed
  <2> QED
    BY <2>6, <2>9, <2>10
<1> QED
  BY <1>1, <1>2

(* Another format goes to the decoder there is, or to another.             *)
LEMMA FormatWorks ==
  ASSUME NEW w, Sane(w), NEW f \in Formats,
         w.renderer.state \notin {"DISABLED", "RELEASED"},
         \/ w.codec = NoCodec
         \/ ~w.renderer.waitingForKeys /\ w.renderer.reconfiguration # "QUEUE_PENDING",
         device.protected \in BOOLEAN, NEW v \in onInputFormatChanged(w, f)
  PROVE  /\ Sane(v) /\ v.renderer.format = f
         /\ Changed(w.renderer, v.renderer, Renewed \cup {"format"})
         /\ w.codec # NoCodec => v.renderer.failed \/ v.codec # NoCodec
         /\ \/ /\ v.codec = w.codec /\ v.renderer.failed = w.renderer.failed
               /\ v.renderer.waitingForFirstSyncFrame = w.renderer.waitingForFirstSyncFrame
            \/ /\ v.codec.queue = <<>>
               /\ v.codec # NoCodec /\ ~v.renderer.failed
                    => v.renderer.waitingForFirstSyncFrame
<1> DEFINE r == w.renderer
           q == [r EXCEPT !.format = f]
           p == [q EXCEPT !.reconfigured = TRUE, !.reconfiguration = "WRITE_PENDING"]
           b == [w EXCEPT !.renderer.format = f]
<1>1. Works(r, w.codec, w.drm) /\ DOMAIN w = {"renderer", "codec", "drm"}
  BY DEF Sane
<1>2. /\ RendererTyped(r) /\ Owns(r, w.drm) /\ CodecTyped(w.codec)
      /\ SetUp(r, w.codec, w.drm) /\ Formatted(r, w.codec) /\ Holds(r)
  BY <1>1 DEF Works, Owns
<1>3. DOMAIN b = DOMAIN w /\ b.codec = w.codec /\ b.drm = w.drm /\ b.renderer = q
  BY <1>1
<1>4. /\ DOMAIN q = DOMAIN r /\ q.format = f
      /\ \A g \in DOMAIN r \ {"format"} : q[g] = r[g]
  BY <1>2, FieldsOf DEF RendererTyped
<1>5. w.codec # NoCodec /\ device.adaptive =>
        v = [b EXCEPT !.renderer.reconfigured = TRUE,
                      !.renderer.reconfiguration = "WRITE_PENDING"]
  BY DEF onInputFormatChanged
<1>6. ~(w.codec # NoCodec /\ device.adaptive) => v \in maybeInitCodec(releaseCodec(b))
  BY DEF onInputFormatChanged
<1> HIDE DEF b, q
<1>7. RendererTyped(q)
  BY <1>2, <1>4, FieldsOf DEF RendererTyped
<1>8. /\ q.state = r.state /\ q.openedDrmSession = r.openedDrmSession
      /\ q.waitingForKeys = r.waitingForKeys /\ q.holder = r.holder
      /\ q.surface = r.surface /\ q.reconfigured = r.reconfigured
      /\ q.reconfiguration = r.reconfiguration /\ q.input = r.input /\ q.output = r.output
      /\ q.failed = r.failed /\ q.waitingForFirstSyncFrame = r.waitingForFirstSyncFrame
  BY <1>2, <1>4, FieldsOf DEF RendererTyped
<1>9. Owns(q, w.drm)
  BY <1>2, <1>7, <1>8 DEF Owns
<1>10. CASE w.codec # NoCodec /\ device.adaptive
  <2>1. /\ DOMAIN p = DOMAIN q /\ p.reconfigured /\ p.reconfigured \in BOOLEAN
        /\ p.reconfiguration = "WRITE_PENDING"
        /\ \A g \in DOMAIN q \ {"reconfigured", "reconfiguration"} : p[g] = q[g]
    BY <1>7, FieldsOf DEF RendererTyped
  <2>2. DOMAIN v = DOMAIN w /\ v.codec = w.codec /\ v.drm = w.drm /\ v.renderer = p
    BY <1>1, <1>3, <1>5, <1>10
  <2> HIDE DEF p
  <2>3. RendererTyped(p)
    BY <1>7, <2>1, FieldsOf DEF RendererTyped
  <2>4. /\ p.state = q.state /\ p.openedDrmSession = q.openedDrmSession
        /\ p.format = q.format /\ p.waitingForKeys = q.waitingForKeys /\ p.holder = q.holder
        /\ p.surface = q.surface /\ p.input = q.input /\ p.output = q.output
        /\ p.failed = q.failed /\ p.waitingForFirstSyncFrame = q.waitingForFirstSyncFrame
    BY <1>7, <2>1, FieldsOf DEF RendererTyped
  <2>5. Owns(p, w.drm)
    BY <1>9, <2>3, <2>4, StillOwns
  <2>6. SetUp(p, w.codec, w.drm)
    BY <1>2, <1>4, <1>8, <1>10, <2>4 DEF SetUp
  <2>7. Holds(p)
    BY <1>2, <1>8, <1>10, <2>4 DEF Holds
  <2>8. Formatted(p, w.codec)
    BY <1>2, <1>8, <1>10, <2>1, <2>4, SMTT(30) DEF Formatted
  <2>9. Works(p, w.codec, w.drm)
    BY <1>1, <1>8, <2>4, <2>5, <2>6, <2>7, <2>8 DEF Works
  <2>10. Changed(r, p, Renewed \cup {"format"})
    BY <1>4, <2>1 DEF Changed, Renewed, Anew
  <2> QED
    BY <1>1, <1>4, <1>8, <1>10, <2>2, <2>4, <2>9, <2>10 DEF Sane
<1>11. CASE ~(w.codec # NoCodec /\ device.adaptive)
  <2> DEFINE a == releaseCodec(b)
  <2>1. v \in maybeInitCodec(a)
    BY <1>6, <1>11
  <2>2. b.codec = NoCodec => Empty(b.renderer)
    BY <1>2, <1>3, <1>8 DEF SetUp, Empty
  <2>3. /\ Sane(a) /\ a.codec = NoCodec /\ a.drm = w.drm
        /\ Changed(q, a.renderer, {"input", "output", "decodeOnly", "reconfigured",
                                   "reconfiguration"})
    BY <1>1, <1>3, <1>9, <2>2, ReleasedCodec DEF IsWorld
  <2> HIDE DEF a
  <2>4. a.renderer.format = f /\ a.renderer.surface = r.surface
        /\ a.renderer.openedDrmSession = r.openedDrmSession
    BY <1>4, <1>7, <1>8, <2>3, FieldsOf DEF Changed, RendererTyped
  <2>5. /\ Sane(v) /\ v.codec.queue = <<>> /\ Changed(a.renderer, v.renderer, Anew)
        /\ v.codec # NoCodec /\ ~v.renderer.failed => v.renderer.waitingForFirstSyncFrame
        /\ /\ a.renderer.format # NoFormat /\ a.renderer.surface
           /\ device.protected => a.renderer.openedDrmSession /\ a.drm.hasSession
           => v.renderer.failed \/ v.codec # NoCodec
    BY <2>1, <2>3, InitWorks
  <2>6. w.codec # NoCodec => v.renderer.failed \/ v.codec # NoCodec
    BY <1>2, <2>3, <2>4, <2>5, Buffers DEF SetUp
  <2>7. Changed(r, v.renderer, Renewed \cup {"format"})
    BY <1>4, <2>3, <2>5 DEF Changed, Renewed, Anew
  <2>8. v.renderer.format = f
    BY <1>7, <2>3, <2>4, <2>5, FieldsOf DEF Changed, Anew, RendererTyped
  <2> QED
    BY <2>5, <2>6, <2>7, <2>8
<1> QED
  BY <1>10, <1>11

-----------------------------------------------------------------------------
(* The decoder's queue.                                                    *)

(* The greatest of some numbers up to n is one of them.                    *)
LEMMA Greatest ==
  ASSUME NEW n \in Nat, NEW S \in SUBSET (1..n), S # {}
  PROVE  Max(S) \in S /\ \A j \in S : Max(S) >= j
<1> DEFINE R == OpToRel(<, Nat)
           T == {n - j : j \in S}
<1>1. IsWellFoundedOn(R, Nat)
  BY NatLessThanWellFounded
<1>2. \A u, t \in Nat : <<u, t>> \in R <=> u < t
  BY DEF OpToRel
<1> HIDE DEF R
<1>3. T \subseteq Nat
  OBVIOUS
<1>4. T # {}
  <2>1. PICK j \in S : TRUE
    OBVIOUS
  <2>2. n - j \in T
    BY <2>1
  <2> QED
    BY <2>2
<1>5. PICK t \in T : \A u \in T : ~(<<u, t>> \in R)
  <2> HIDE DEF T
  <2> QED
    BY <1>1, <1>3, <1>4, WFMin
<1>6. PICK m \in S : t = n - m
  OBVIOUS
<1>7. \A j \in S : m >= j
  <2> SUFFICES ASSUME NEW j \in S PROVE m >= j
    OBVIOUS
  <2>1. n - j \in T
    OBVIOUS
  <2>2. ~(n - j < t)
    BY <1>2, <1>3, <1>5, <2>1
  <2>3. j \in 1..n /\ m \in 1..n
    OBVIOUS
  <2> QED
    BY <1>6, <2>2, <2>3
<1> QED
  BY <1>7 DEF Max

(* It is the only one.                                                     *)
LEMMA GreatestIs ==
  ASSUME NEW n \in Nat, NEW S \in SUBSET (1..n), NEW m \in S, \A j \in S : m >= j
  PROVE  Max(S) = m
<1>1. Max(S) \in S /\ Max(S) >= m
  BY Greatest
<1>2. m \in 1..n /\ Max(S) \in 1..n /\ m >= Max(S)
  BY <1>1
<1> QED
  BY <1>1, <1>2

LEMMA TakenAppended ==
  ASSUME NEW c, NEW e, c.queue \in Seq(Buffer), NEW b \in Buffer,
         e.queue = Append(c.queue, b), e.current = c.current
  PROVE  /\ \A i \in 0..Len(c.queue) : Taken(e, i) = Taken(c, i)
         /\ Taken(e, Len(c.queue) + 1) =
              IF b.config = NoFormat THEN Taken(c, Len(c.queue)) ELSE b.config
<1> DEFINE n == Len(c.queue)
           S(i) == {j \in 1..i : c.queue[j].config # NoFormat}
           T(i) == {j \in 1..i : e.queue[j].config # NoFormat}
<1>1. /\ n \in Nat /\ \A j \in 1..n : e.queue[j] = c.queue[j]
      /\ e.queue[n + 1] = b
  OBVIOUS
<1>2. ASSUME NEW i \in 0..n PROVE Taken(e, i) = Taken(c, i)
  <2>1. T(i) = S(i)
    BY <1>1
  <2>2. CASE S(i) = {}
    BY <2>1, <2>2 DEF Taken
  <2>3. CASE S(i) # {}
    <3>1. Max(S(i)) \in S(i)
      <4>1. i \in Nat /\ S(i) \in SUBSET (1..i)
        BY <1>1
      <4> HIDE DEF S
      <4> QED
        BY <2>3, <4>1, Greatest
    <3>2. e.queue[Max(S(i))] = c.queue[Max(S(i))]
      BY <1>1, <3>1
    <3> QED
      BY <2>1, <2>3, <3>2 DEF Taken
  <2> QED
    BY <2>2, <2>3
<1>3. CASE b.config = NoFormat
  <2>1. T(n + 1) = T(n)
    BY <1>1, <1>3
  <2>2. Taken(e, n + 1) = Taken(e, n)
    BY <2>1 DEF Taken
  <2> QED
    BY <1>1, <1>2, <1>3, <2>2
<1>4. CASE b.config # NoFormat
  <2>1. n + 1 \in T(n + 1) /\ n + 1 \in Nat /\ T(n + 1) \in SUBSET (1..n + 1)
    BY <1>1, <1>4
  <2>2. Max(T(n + 1)) = n + 1
    <3>1. \A j \in T(n + 1) : n + 1 >= j
      BY <1>1
    <3> HIDE DEF T
    <3> QED
      BY <2>1, <3>1, GreatestIs
  <2>3. Taken(e, n + 1) = e.queue[n + 1].config
    BY <2>1, <2>2 DEF Taken
  <2> QED
    BY <1>1, <1>2, <1>4, <2>3
<1> QED
  BY <1>2, <1>3, <1>4

LEMMA TakenTaken ==
  ASSUME NEW c, NEW e, c.queue \in Seq(Buffer), c.queue # <<>>, e.queue = Tail(c.queue),
         e.current = IF Head(c.queue).config = NoFormat THEN c.current
                     ELSE Head(c.queue).config,
         NEW i \in 0..Len(e.queue)
  PROVE  Taken(e, i) = Taken(c, i + 1)
<1> DEFINE S == {j \in 1..i + 1 : c.queue[j].config # NoFormat}
           T == {j \in 1..i : e.queue[j].config # NoFormat}
<1>1. /\ i \in Nat /\ i + 1 \in Nat /\ Head(c.queue) = c.queue[1]
      /\ \A j \in 1..i : e.queue[j] = c.queue[j + 1]
  OBVIOUS
<1>2. S \in SUBSET (1..i + 1) /\ T \in SUBSET (1..i)
  OBVIOUS
<1>3. \A j \in 1..i : j \in T <=> j + 1 \in S
  BY <1>1
<1>4. \A j \in S : j = 1 \/ j - 1 \in T
  BY <1>1
<1>5. 1 \in S <=> c.queue[1].config # NoFormat
  BY <1>1
<1>6. /\ Taken(c, i + 1) = IF S = {} THEN c.current ELSE c.queue[Max(S)].config
      /\ Taken(e, i) = IF T = {} THEN e.current ELSE e.queue[Max(T)].config
  BY DEF Taken
<1> HIDE DEF S, T
<1>7. CASE T = {} /\ 1 \notin S
  <2>1. S = {}
    BY <1>4, <1>7
  <2> QED
    BY <1>1, <1>5, <1>6, <1>7, <2>1
<1>8. CASE T = {} /\ 1 \in S
  <2>1. \A j \in S : 1 >= j
    BY <1>2, <1>4, <1>8
  <2>2. Max(S) = 1
    BY <1>1, <1>2, <1>8, <2>1, GreatestIs
  <2> QED
    BY <1>1, <1>5, <1>6, <1>8, <2>2
<1>9. CASE T # {}
  <2> DEFINE m == Max(T)
  <2>1. m \in T /\ \A j \in T : m >= j
    BY <1>1, <1>2, <1>9, Greatest
  <2> HIDE DEF m
  <2>2. m + 1 \in S /\ m \in 1..i
    BY <1>2, <1>3, <2>1
  <2>3. \A j \in S : m + 1 >= j
    <3> SUFFICES ASSUME NEW j \in S PROVE m + 1 >= j
      OBVIOUS
    <3>1. CASE j = 1
      BY <2>2, <3>1
    <3>2. CASE j - 1 \in T
      BY <1>2, <2>1, <2>2, <3>2
    <3> QED
      BY <1>4, <3>1, <3>2
  <2>4. Max(S) = m + 1
    BY <1>1, <1>2, <2>2, <2>3, GreatestIs
  <2> QED
    BY <1>1, <1>6, <1>9, <2>2, <2>4 DEF m
<1> QED
  BY <1>7, <1>8, <1>9

-----------------------------------------------------------------------------
(* The input buffer.                                                       *)

(* What is in it changes, with what is known of the configuration data.    *)
LEMMA InputWorks ==
  ASSUME NEW r, NEW q, NEW c, NEW d, Works(r, c, d), c # NoCodec, RendererTyped(q),
         Changed(r, q, {"input", "reconfiguration"}),
         q.input.data = r.input.data \/ q.input.data = <<>>,
         q.reconfiguration = "QUEUE_PENDING" => q.input.config = r.format,
         q.reconfiguration # "QUEUE_PENDING" => q.input.config = NoFormat,
         \/ q.reconfiguration = r.reconfiguration
         \/ /\ r.reconfiguration # "NONE" /\ q.reconfiguration # "NONE"
            /\ ~r.waitingForKeys
  PROVE  Works(q, c, d)
<1>1. RendererTyped(r) /\ DOMAIN r = DOMAIN NewRenderer
  BY DEF Works, Owns, RendererTyped
<1>2. /\ q.state = r.state /\ q.surface = r.surface /\ q.format = r.format
      /\ q.openedDrmSession = r.openedDrmSession /\ q.failed = r.failed
      /\ q.output = r.output /\ q.holder = r.holder /\ q.reconfigured = r.reconfigured
      /\ q.waitingForKeys = r.waitingForKeys
      /\ q.waitingForFirstSyncFrame = r.waitingForFirstSyncFrame
  BY <1>1, FieldsOf DEF Changed
<1>3. Owns(q, d)
  BY <1>2, StillOwns DEF Works
<1>4. SetUp(q, c, d)
  BY <1>2 DEF Works, SetUp
<1>5. Holds(q)
  <2>1. Len(<<>>) = 0
    OBVIOUS
  <2>2. CASE q.input.data = r.input.data
    BY <1>2, <2>2 DEF Works, Holds
  <2>3. CASE q.input.data = <<>>
    BY <1>2, <2>1, <2>3 DEF Works, Holds
  <2> QED
    BY <2>2, <2>3
<1>6. Formatted(q, c)
  BY <1>2 DEF Works, Formatted
<1> QED
  BY <1>2, <1>3, <1>4, <1>5, <1>6 DEF Works

(* A buffer of the decoder's.                                              *)
LEMMA FillingWorks ==
  ASSUME Sane(World), codec # NoCodec
  PROVE  LET v == Filling
         IN  /\ Sane(v) /\ v.codec = codec /\ v.drm = drm
             /\ Changed(renderer, v.renderer, {"input"})
             /\ v.renderer.input \in Buffer /\ v.renderer.input.data = renderer.input.data
             /\ v.renderer.input.config = renderer.input.config
<1> DEFINE b == IF renderer.input = NoBuffer THEN EmptyBuffer ELSE renderer.input
           q == [renderer EXCEPT !.input = b]
           v == Filling
<1>1. Works(renderer, codec, drm) /\ RendererTyped(renderer)
  BY DEF Sane, World, Works, Owns
<1>2. /\ DOMAIN v = {"renderer", "codec", "drm"} /\ v.codec = codec /\ v.drm = drm
      /\ v.renderer = q
  BY DEF Filling, World
<1> HIDE DEF v
<1>3. b \in Buffer /\ b.data = renderer.input.data /\ b.config = renderer.input.config
  BY <1>1, Buffers DEF RendererTyped
<1> HIDE DEF b
<1>4. /\ DOMAIN q = DOMAIN renderer /\ q.input = b
      /\ \A g \in DOMAIN renderer \ {"input"} : q[g] = renderer[g]
  BY <1>1, FieldsOf DEF RendererTyped
<1> HIDE DEF q
<1>5. RendererTyped(q)
  BY <1>1, <1>3, <1>4, FieldsOf DEF RendererTyped
<1>6. q.reconfiguration = renderer.reconfiguration
  BY <1>1, <1>4, FieldsOf DEF RendererTyped
<1>7. Works(q, codec, drm)
  <2>1. /\ renderer.reconfiguration = "QUEUE_PENDING" =>
             renderer.input.config = renderer.format
        /\ renderer.reconfiguration # "QUEUE_PENDING" => renderer.input.config = NoFormat
    BY <1>1 DEF Works, Formatted
  <2>2. Changed(renderer, q, {"input", "reconfiguration"})
    BY <1>4 DEF Changed
  <2> QED
    BY <1>1, <1>3, <1>4, <1>5, <1>6, <2>1, <2>2, InputWorks
<1> QED
  BY <1>2, <1>3, <1>4, <1>7 DEF Sane, Changed, v

(* Configuration data that is due is written.                              *)
LEMMA ConfiguredWorks ==
  ASSUME NEW w, Sane(w), w.codec # NoCodec, w.renderer.input \in Buffer,
         ~w.renderer.waitingForKeys
  PROVE  LET v == Configured(w)
         IN  /\ Sane(v) /\ v.codec = w.codec /\ v.drm = w.drm
             /\ Changed(w.renderer, v.renderer, {"input", "reconfiguration"})
             /\ v.renderer.input \in Buffer /\ v.renderer.input.data = w.renderer.input.data
             /\ v.renderer.reconfiguration # "WRITE_PENDING"
<1> DEFINE r == w.renderer
           v == Configured(w)
           b == [r.input EXCEPT !.config = r.format]
           q == [r EXCEPT !.input = b, !.reconfiguration = "QUEUE_PENDING"]
<1>1. /\ Works(r, w.codec, w.drm) /\ RendererTyped(r)
      /\ DOMAIN w = {"renderer", "codec", "drm"} /\ SetUp(r, w.codec, w.drm)
  BY DEF Sane, Works, Owns
<1>2. CASE r.reconfiguration # "WRITE_PENDING"
  BY <1>2 DEF Configured, Changed
<1>3. CASE r.reconfiguration = "WRITE_PENDING"
  <2>1. /\ DOMAIN v = DOMAIN w /\ v.codec = w.codec /\ v.drm = w.drm
        /\ v.renderer = [r EXCEPT !.input.config = r.format,
                                  !.reconfiguration = "QUEUE_PENDING"]
    BY <1>1, <1>3 DEF Configured
  <2>2. v.renderer = q
    BY <2>1
  <2> HIDE DEF v
  <2>3. b \in Buffer /\ b.data = r.input.data /\ b.config = r.format
    BY <1>1 DEF SetUp, Buffer
  <2> HIDE DEF b
  <2>4. /\ DOMAIN q = DOMAIN r /\ q.input = b /\ q.reconfiguration = "QUEUE_PENDING"
        /\ \A g \in DOMAIN r \ {"input", "reconfiguration"} : q[g] = r[g]
    BY <1>1, FieldsOf DEF RendererTyped
  <2> HIDE DEF q
  <2>5. RendererTyped(q)
    BY <1>1, <2>3, <2>4, FieldsOf DEF RendererTyped
  <2>6. Changed(r, q, {"input", "reconfiguration"})
    BY <2>4 DEF Changed
  <2>7. Works(q, w.codec, w.drm)
    BY <1>1, <1>3, <2>3, <2>4, <2>5, <2>6, InputWorks
  <2> QED
    BY <1>1, <2>1, <2>2, <2>3, <2>4, <2>6, <2>7 DEF Sane, v
<1> QED
  BY <1>2, <1>3

(* The buffer is cleared, with the configuration data in it.               *)
LEMMA ClearedWorks ==
  ASSUME NEW w, Sane(w), w.codec # NoCodec,
         w.renderer.waitingForKeys => w.renderer.reconfiguration = "NONE"
  PROVE  LET v == Cleared(w)
         IN  /\ Sane(v) /\ v.codec = w.codec /\ v.drm = w.drm
             /\ Changed(w.renderer, v.renderer, {"input", "reconfiguration"})
             /\ v.renderer.input = EmptyBuffer
             /\ v.renderer.reconfiguration # "QUEUE_PENDING"
<1> DEFINE r == w.renderer
           v == Cleared(w)
           data == IF r.reconfiguration = "QUEUE_PENDING" THEN "WRITE_PENDING"
                   ELSE r.reconfiguration
           q == [r EXCEPT !.input = EmptyBuffer, !.reconfiguration = data]
<1>1. /\ Works(r, w.codec, w.drm) /\ RendererTyped(r)
      /\ DOMAIN w = {"renderer", "codec", "drm"}
  BY DEF Sane, Works, Owns
<1>2. DOMAIN v = DOMAIN w /\ v.codec = w.codec /\ v.drm = w.drm /\ v.renderer = q
  BY <1>1, FieldsOf DEF Cleared, RendererTyped
<1> HIDE DEF v
<1>3. /\ data \in {"NONE", "WRITE_PENDING"}
      /\ data = r.reconfiguration \/ (r.reconfiguration # "NONE" /\ data # "NONE")
      /\ r.waitingForKeys => data = r.reconfiguration
  BY <1>1 DEF RendererTyped
<1> HIDE DEF data
<1>4. /\ DOMAIN q = DOMAIN r /\ q.input = EmptyBuffer /\ q.reconfiguration = data
      /\ \A g \in DOMAIN r \ {"input", "reconfiguration"} : q[g] = r[g]
  BY <1>1, FieldsOf DEF RendererTyped
<1> HIDE DEF q
<1>5. RendererTyped(q)
  BY <1>1, <1>3, <1>4, FieldsOf, Buffers DEF RendererTyped
<1>6. Changed(r, q, {"input", "reconfiguration"})
  BY <1>4 DEF Changed
<1>7. Works(q, w.codec, w.drm)
  BY <1>1, <1>3, <1>4, <1>5, <1>6, Buffers, InputWorks
<1> QED
  BY <1>1, <1>2, <1>3, <1>4, <1>6, <1>7 DEF Sane, v

LEMMA TakenBackWorks ==
  ASSUME NEW w, Sane(w), w.codec # NoCodec, ~w.renderer.waitingForKeys
  PROVE  LET v == TakenBack(w)
         IN  /\ Sane(v) /\ v.codec = w.codec /\ v.drm = w.drm
             /\ Changed(w.renderer, v.renderer, {"input", "reconfiguration"})
             /\ v.renderer.reconfiguration # "QUEUE_PENDING"
<1>1. CASE w.renderer.reconfiguration = "QUEUE_PENDING"
  BY <1>1, ClearedWorks DEF TakenBack
<1>2. CASE w.renderer.reconfiguration # "QUEUE_PENDING"
  BY <1>2 DEF TakenBack, Changed
<1> QED
  BY <1>1, <1>2

(* A buffer goes to the decoder, of the format that this then is set up    *)
(* for, or nothing it takes to be a sample.                                *)
LEMMA AppendedWorks ==
  ASSUME NEW r, NEW q, NEW c, NEW e, NEW d, Works(r, c, d), c # NoCodec,
         NEW b \in Buffer, Passes(b),
         DOMAIN e = DOMAIN c, e.configured = c.configured, e.current = c.current,
         e.crypto = c.crypto, e.begun = c.begun, e.queue = Append(c.queue, b),
         e.outputs = c.outputs,
         RendererTyped(q), q.input = NoBuffer, ~q.waitingForKeys,
         Changed(r, q, {"input", "reconfiguration", "waitingForKeys", "decodeOnly",
                        "inputStreamEnded"}),
         q.reconfiguration # "QUEUE_PENDING",
         q.reconfiguration = "NONE" =>
           b.config = r.format \/ (b.config = NoFormat /\ r.reconfiguration = "NONE"),
         ~r.reconfigured => b.config = NoFormat /\ q.reconfiguration = "NONE",
         Len(b.data) = 1 =>
           /\ Samples[b.data[1]].format = r.format
           /\ b.config = r.format \/ (b.config = NoFormat /\ r.reconfiguration = "NONE")
  PROVE  Works(q, e, d) /\ e # NoCodec
<1> DEFINE n == Len(c.queue)
<1>1. /\ RendererTyped(r) /\ DOMAIN r = DOMAIN NewRenderer /\ CodecTyped(c)
      /\ SetUp(r, c, d) /\ Formatted(r, c)
  BY DEF Works, Owns, RendererTyped
<1>2. /\ q.state = r.state /\ q.surface = r.surface /\ q.format = r.format
      /\ q.openedDrmSession = r.openedDrmSession
      /\ q.output = r.output /\ q.holder = r.holder /\ q.reconfigured = r.reconfigured
  BY <1>1, FieldsOf DEF Changed
<1>3. Owns(q, d)
  BY <1>2, StillOwns DEF Works
<1>4. /\ c.queue \in Seq(Buffer) /\ n \in Nat /\ Len(e.queue) = n + 1
      /\ \A i \in 1..n : e.queue[i] = c.queue[i]
      /\ e.queue[n + 1] = b /\ e.queue \in Seq(Buffer)
      /\ DOMAIN e.queue = 1..n + 1 /\ DOMAIN c.queue = 1..n
  BY <1>1 DEF CodecTyped
<1>5. e # NoCodec
  BY <1>1, Buffers, NoCodecIs DEF SetUp
<1>6. CodecTyped(e)
  BY <1>1, <1>4 DEF CodecTyped
<1>7. SetUp(q, e, d)
  BY <1>1, <1>2, <1>5 DEF SetUp
<1>8. q.input.data = <<>> /\ q.input.config = NoFormat /\ NoFormat \notin Formats
  BY Buffers
<1>9. Holds(q)
  BY <1>8 DEF Holds
<1>10. /\ \A i \in 1..n : Taken(e, i) = Taken(c, i)
       /\ Taken(e, n + 1) = IF b.config = NoFormat THEN Taken(c, n) ELSE b.config
  BY <1>4, TakenAppended
<1> HIDE DEF n
<1>11. r.format \in Formats /\ (r.reconfiguration = "NONE" => Taken(c, n) = r.format)
  BY <1>1 DEF SetUp, Formatted, n
<1>12. b.config = r.format \/ (b.config = NoFormat /\ r.reconfiguration = "NONE")
         => Taken(e, n + 1) = r.format
  BY <1>8, <1>10, <1>11
<1>13. \A i \in DOMAIN e.queue :
         Len(e.queue[i].data) = 1 => Samples[e.queue[i].data[1]].format = Taken(e, i)
  <2> SUFFICES ASSUME NEW i \in 1..n + 1, Len(e.queue[i].data) = 1
               PROVE  Samples[e.queue[i].data[1]].format = Taken(e, i)
    BY <1>4
  <2>1. CASE i \in 1..n
    BY <1>1, <1>4, <1>10, <2>1 DEF Formatted
  <2>2. CASE i = n + 1
    BY <1>4, <1>12, <2>2
  <2> QED
    BY <1>4, <2>1, <2>2
<1>14. ~q.reconfigured =>
         /\ e.configured = q.format /\ e.current = q.format
         /\ \A i \in DOMAIN e.queue : e.queue[i].config = NoFormat
         /\ q.reconfiguration = "NONE"
  <2> SUFFICES ASSUME ~q.reconfigured
               PROVE  /\ e.configured = q.format /\ e.current = q.format
                      /\ \A i \in DOMAIN e.queue : e.queue[i].config = NoFormat
                      /\ q.reconfiguration = "NONE"
    OBVIOUS
  <2>1. ~r.reconfigured
    BY <1>2
  <2>2. /\ c.configured = r.format /\ c.current = r.format
        /\ \A i \in DOMAIN c.queue : c.queue[i].config = NoFormat
    BY <1>1, <2>1 DEF Formatted
  <2>3. ASSUME NEW i \in 1..n + 1 PROVE e.queue[i].config = NoFormat
    <3>1. CASE i \in 1..n
      BY <1>4, <2>2, <3>1
    <3>2. CASE i = n + 1
      BY <1>4, <2>1, <3>2
    <3> QED
      BY <1>4, <3>1, <3>2
  <2> QED
    BY <1>2, <1>4, <2>1, <2>2, <2>3
<1>15. Formatted(q, e)
  BY <1>2, <1>4, <1>8, <1>12, <1>13, <1>14 DEF Formatted
<1> QED
  BY <1>2, <1>3, <1>5, <1>6, <1>7, <1>9, <1>15 DEF Works

(* The sample that is held is passed on.                                   *)
LEMMA SampleWorks ==
  ASSUME NEW w, Sane(w), w.codec # NoCodec, w.renderer.input \in Buffer,
         NEW n \in Frames, w.renderer.reconfiguration # "WRITE_PENDING",
         Len(w.renderer.input.data) = 1 =>
           Samples[w.renderer.input.data[1]].format = w.renderer.format
  PROVE  LET v == SampleQueued(w, n)
         IN  /\ Sane(v) /\ v.codec # NoCodec /\ v.drm = w.drm
             /\ v.codec.begun = w.codec.begun /\ ~v.renderer.waitingForKeys
             /\ \E b \in Buffer :
                  /\ v.codec.queue = Append(w.codec.queue, b)
                  /\ b.time = n /\ b.data = w.renderer.input.data
             /\ Changed(w.renderer, v.renderer, {"input", "reconfiguration", "waitingForKeys",
                                                 "decodeOnly"})
<1> DEFINE r == w.renderer
           c == w.codec
           v == SampleQueued(w, n)
           b == [r.input EXCEPT !.time = n]
           e == [c EXCEPT !.queue = Append(@, b)]
           early == IF n < source.wanted THEN r.decodeOnly \cup {n} ELSE r.decodeOnly
           q == [r EXCEPT !.input = NoBuffer, !.reconfiguration = "NONE",
                          !.waitingForKeys = FALSE, !.decodeOnly = early]
           u == [w EXCEPT !.codec.queue = Append(@, b), !.renderer.input = NoBuffer]
<1>1. /\ Works(r, c, w.drm) /\ RendererTyped(r) /\ CodecTyped(c) /\ Formatted(r, c)
      /\ DOMAIN w = {"renderer", "codec", "drm"} /\ SetUp(r, c, w.drm)
  BY DEF Sane, Works, Owns
<1>2. /\ DOMAIN u = DOMAIN w /\ u.codec = e /\ u.drm = w.drm
      /\ u.renderer = [r EXCEPT !.input = NoBuffer]
  BY <1>1
<1>3. v = [u EXCEPT !.renderer.reconfiguration = "NONE",
                    !.renderer.waitingForKeys = FALSE,
                    !.renderer.decodeOnly = IF n < source.wanted THEN @ \cup {n} ELSE @]
  BY DEF SampleQueued, queueInputBuffer
<1> HIDE DEF u
<1>4. /\ DOMAIN v = DOMAIN w /\ v.codec = e /\ v.drm = w.drm
      /\ v.renderer = [u.renderer EXCEPT !.reconfiguration = "NONE",
                         !.waitingForKeys = FALSE,
                         !.decodeOnly = IF n < source.wanted THEN @ \cup {n} ELSE @]
  BY <1>1, <1>2, <1>3
<1>5. v.renderer = q
  BY <1>1, <1>2, <1>4, FieldsOf DEF RendererTyped
<1> HIDE DEF v
<1>6. b \in Buffer /\ b.time = n /\ b.data = r.input.data /\ b.config = r.input.config
  BY DEF Buffer
<1>7. Passes(b)
  BY <1>6 DEF Passes
<1> HIDE DEF b
<1>8. /\ DOMAIN e = DOMAIN c /\ e.configured = c.configured /\ e.current = c.current
      /\ e.crypto = c.crypto /\ e.begun = c.begun /\ e.queue = Append(c.queue, b)
      /\ e.outputs = c.outputs
  BY <1>1, NoCodecIs DEF CodecTyped
<1> HIDE DEF e
<1>9. early \subseteq Frames
  BY <1>1 DEF RendererTyped
<1> HIDE DEF early
<1>10. /\ DOMAIN q = DOMAIN r /\ q.input = NoBuffer /\ q.reconfiguration = "NONE"
       /\ ~q.waitingForKeys /\ q.waitingForKeys \in BOOLEAN /\ q.decodeOnly = early
       /\ \A g \in DOMAIN r \ {"input", "reconfiguration", "waitingForKeys", "decodeOnly"} :
            q[g] = r[g]
  BY <1>1, FieldsOf DEF RendererTyped
<1> HIDE DEF q
<1>11. RendererTyped(q)
  BY <1>1, <1>9, <1>10, FieldsOf DEF RendererTyped
<1>12. b.config = r.format \/ (b.config = NoFormat /\ r.reconfiguration = "NONE")
  BY <1>1, <1>6 DEF Formatted, RendererTyped
<1>13. ~r.reconfigured => b.config = NoFormat
  BY <1>1, <1>6 DEF Formatted
<1>14. Changed(r, q, {"input", "reconfiguration", "waitingForKeys", "decodeOnly",
                      "inputStreamEnded"})
  BY <1>10 DEF Changed
<1>15. Works(q, e, w.drm) /\ e # NoCodec
  BY <1>1, <1>6, <1>7, <1>8, <1>10, <1>11, <1>12, <1>13, <1>14, AppendedWorks
<1> QED
  BY <1>1, <1>4, <1>5, <1>6, <1>8, <1>10, <1>15 DEF Sane, Changed, v

(* The end of the stream is.                                               *)
LEMMA EndWorks ==
  ASSUME NEW w, Sane(w), w.codec # NoCodec, ~w.renderer.waitingForKeys
  PROVE  LET v == EndQueued(w)
         IN  /\ Sane(v) /\ v.codec # NoCodec /\ v.drm = w.drm
             /\ v.codec.queue = Append(w.codec.queue, EndOfStream)
             /\ v.codec.begun = w.codec.begun
             /\ v.renderer.inputStreamEnded
             /\ Changed(w.renderer, v.renderer, {"input", "reconfiguration",
                                                 "inputStreamEnded"})
<1> DEFINE t == TakenBack(w)
           r == t.renderer
           c == t.codec
           v == EndQueued(w)
           e == [c EXCEPT !.queue = Append(@, EndOfStream)]
           q == [r EXCEPT !.inputStreamEnded = TRUE, !.input = NoBuffer]
           u == [t EXCEPT !.renderer.inputStreamEnded = TRUE]
<1>1. /\ Sane(t) /\ c = w.codec /\ t.drm = w.drm
      /\ Changed(w.renderer, r, {"input", "reconfiguration"})
      /\ r.reconfiguration # "QUEUE_PENDING"
  BY TakenBackWorks
<1>2. v = [u EXCEPT !.codec.queue = Append(@, EndOfStream), !.renderer.input = NoBuffer]
  BY DEF EndQueued, queueInputBuffer
<1> HIDE DEF t
<1>3. /\ Works(r, c, w.drm) /\ RendererTyped(r) /\ CodecTyped(c) /\ Formatted(r, c)
      /\ DOMAIN t = {"renderer", "codec", "drm"}
  BY <1>1 DEF Sane, Works, Owns
<1>4. /\ DOMAIN u = DOMAIN t /\ u.codec = c /\ u.drm = t.drm
      /\ u.renderer = [r EXCEPT !.inputStreamEnded = TRUE]
  BY <1>3
<1> HIDE DEF u
<1>5. /\ DOMAIN v = DOMAIN t /\ v.codec = e /\ v.drm = t.drm
      /\ v.renderer = [u.renderer EXCEPT !.input = NoBuffer]
  BY <1>2, <1>3, <1>4
<1>6. v.renderer = q
  BY <1>3, <1>4, <1>5, FieldsOf DEF RendererTyped
<1> HIDE DEF v
<1>7. /\ DOMAIN e = DOMAIN c /\ e.configured = c.configured /\ e.current = c.current
      /\ e.crypto = c.crypto /\ e.begun = c.begun
      /\ e.queue = Append(c.queue, EndOfStream) /\ e.outputs = c.outputs
  BY <1>3, NoCodecIs DEF CodecTyped
<1> HIDE DEF e
<1>8. /\ DOMAIN q = DOMAIN r /\ q.input = NoBuffer /\ q.inputStreamEnded
      /\ q.inputStreamEnded \in BOOLEAN
      /\ \A g \in DOMAIN r \ {"input", "inputStreamEnded"} : q[g] = r[g]
  BY <1>3, FieldsOf DEF RendererTyped
<1> HIDE DEF q
<1>9. RendererTyped(q)
  BY <1>3, <1>8, FieldsOf DEF RendererTyped
<1>10. q.reconfiguration = r.reconfiguration /\ ~q.waitingForKeys
  BY <1>1, <1>3, <1>8, FieldsOf DEF RendererTyped, Changed
<1>11. Changed(r, q, {"input", "reconfiguration", "waitingForKeys", "decodeOnly",
                      "inputStreamEnded"})
  BY <1>8 DEF Changed
<1>12. ~r.reconfigured => r.reconfiguration = "NONE"
  BY <1>1, <1>3 DEF Formatted
<1>13. Len(EndOfStream.data) # 1
  BY Buffers
<1>14. Works(q, e, w.drm) /\ e # NoCodec
  BY <1>1, <1>3, <1>7, <1>8, <1>9, <1>10, <1>11, <1>12, <1>13, Buffers, AppendedWorks DEF Passes
<1>15. Changed(w.renderer, q, {"input", "reconfiguration", "inputStreamEnded"})
  BY <1>1, <1>8 DEF Changed
<1>16. Sane(v) /\ v.codec = e /\ v.drm = w.drm
  BY <1>1, <1>3, <1>5, <1>6, <1>14 DEF Sane
<1> QED
  BY <1>1, <1>6, <1>7, <1>8, <1>14, <1>15, <1>16 DEF v

-----------------------------------------------------------------------------
(* What the playback thread leaves.                                        *)

(* KeysAreThere, of a step.                                                *)
Given ==
  Len(codec'.queue) > Len(codec.queue) =>
    \A n \in Frames :
      Last(codec'.queue).data = <<n>> /\ IsEncrypted(n) =>
        drm.state = "OPENED_WITH_KEYS" /\ codec.crypto

LEMMA NotGiven ==
  ASSUME IInv, codec'.queue = codec.queue \/ codec'.queue = <<>>
  PROVE  Given
<1>1. codec.queue \in Seq(Buffer)
  BY DEF IInv, Works, CodecTyped
<1> QED
  BY <1>1 DEF Given

LEMMA WorldIs ==
  /\ World.renderer = renderer /\ World.codec = codec /\ World.drm = drm
  /\ DOMAIN World = {"renderer", "codec", "drm"}
BY DEF World

LEMMA WorksPrimed ==
  ASSUME NEW r, NEW c, NEW d, Works(r, c, d), UNCHANGED <<device, other>>,
         renderer' = r, codec' = c, drm' = d
  PROVE  Works(renderer, codec, drm)'
<1>1. Owns(renderer, drm)'
  BY DEF Works, Owns
<1>2. SetUp(renderer, codec, drm)'
  BY DEF Works, SetUp
<1>3. CodecTyped(codec)' /\ (renderer.output # NoBuffer => Passes(renderer.output))'
  BY DEF Works
<1>4. Holds(renderer)' /\ Formatted(renderer, codec)'
  BY DEF Works
<1> QED
  BY <1>1, <1>2, <1>3, <1>4 DEF Works

(* A call leaves the renderer, the decoder and the session in order.       *)
LEMMA Kept ==
  ASSUME IInv, NEW w, Sane(w), UNCHANGED <<device, other>>,
         NEW then \in {"idle", "drain", "feed"}, Leaves(w, then),
         w.renderer.state \in {"ENABLED", "STARTED"},
         SourceTyped(source'), Follows(w.renderer, w.codec, source'),
         then = "idle" \/ w.renderer.failed \/ w.codec # NoCodec
  PROVE  IInv'
<1>1. /\ renderer' = w.renderer /\ codec' = w.codec /\ drm' = w.drm
      /\ phase' = IF w.renderer.failed THEN "idle" ELSE then
  BY DEF Leaves
<1>2. Works(renderer, codec, drm)'
  BY <1>1, WorksPrimed DEF Sane
<1>3. SourceTyped(source)'
  OBVIOUS
<1>4. Follows(renderer, codec, source)'
  BY <1>1 DEF Follows
<1>5. w.renderer.failed \in BOOLEAN
  BY DEF Sane, Works, Owns, RendererTyped
<1>6. /\ (device \in Devices /\ other \in BOOLEAN)'
      /\ (other => device.protected)'
  BY DEF IInv
<1>7. (phase \in {"idle", "drain", "feed"})'
  BY <1>1, <1>5
<1>8. (phase # "idle" =>
         codec # NoCodec /\ renderer.state \in {"ENABLED", "STARTED"} /\ ~renderer.failed)'
  BY <1>1, <1>5
<1> QED
  BY <1>2, <1>3, <1>4, <1>6, <1>7, <1>8 DEF IInv

(* The source and a decoder that has nothing to do with it any more.       *)
LEMMA FollowsFresh ==
  ASSUME NEW q, NEW e, NEW s, e.queue = <<>>,
         q.state \in {"ENABLED", "STARTED"} => s.announced = q.format,
         q.waitingForKeys => ~s.discontinuity,
         \/ e = NoCodec \/ q.failed \/ q.waitingForFirstSyncFrame
         \/ s.discontinuity \/ s.next \notin Frames \/ Samples[s.next].sync
  PROVE  Follows(q, e, s)
<1>1. DOMAIN e.queue = {} /\ ToSet(e.queue) = {}
  BY DEF ToSet
<1>2. EndIsLast(q, e, s)
  BY <1>1 DEF EndIsLast
<1>3. BeginsInSync(q, e, s)
  BY DEF BeginsInSync
<1> QED
  BY <1>2, <1>3 DEF Follows

(* Where neither the queue nor the source moved.                           *)
LEMMA FollowsStill ==
  ASSUME NEW r, NEW q, NEW c, NEW e, NEW s, NEW z, Follows(r, c, s),
         e.queue = c.queue, e.begun = c.begun, e = NoCodec <=> c = NoCodec,
         z.next = s.next, z.discontinuity <=> s.discontinuity,
         q.state \in {"ENABLED", "STARTED"} => z.announced = q.format,
         q.waitingForKeys => ~z.discontinuity,
         q.failed \/ ~r.failed,
         r.waitingForFirstSyncFrame => q.waitingForFirstSyncFrame,
         r.inputStreamEnded => q.inputStreamEnded
  PROVE  Follows(q, e, z)
<1>1. ~device.protected => EndIsLast(q, e, z)
  BY DEF Follows, EndIsLast
<1>2. ~device.protected => BeginsInSync(q, e, z)
  BY DEF Follows, BeginsInSync
<1> QED
  BY <1>1, <1>2 DEF Follows

(* What every call starts from.                                            *)
LEMMA Begun ==
  ASSUME IInv
  PROVE  /\ Sane(World) /\ RendererTyped(renderer) /\ DOMAIN renderer = DOMAIN NewRenderer
         /\ CodecTyped(codec) /\ SourceTyped(source) /\ Follows(renderer, codec, source)
         /\ Owns(renderer, drm) /\ SetUp(renderer, codec, drm)
         /\ Holds(renderer) /\ Formatted(renderer, codec)
         /\ device.protected \in BOOLEAN /\ Manager(drm)
         /\ codec.queue \in Seq(Buffer)
BY WorldIs, DevicesAssumption
   DEF IInv, Sane, Works, Owns, RendererTyped, CodecTyped

-----------------------------------------------------------------------------
(* What the source answers.                                                *)

LEMMA FramesAre ==
  /\ Len(Samples) \in Nat /\ Len(Samples) > 0 /\ Frames = 1..Len(Samples)
  /\ \A n \in Frames : Samples[n].format \in Formats /\ Samples[n].sync \in BOOLEAN
<1>1. Samples \in Seq([format : Formats, sync : BOOLEAN, encrypted : BOOLEAN])
  BY SamplesAssumption
<1>2. Len(Samples) \in Nat /\ Frames = 1..Len(Samples) /\ Len(Samples) > 0
  BY <1>1, SamplesAssumption DEF Frames
<1>3. \A n \in Frames : Samples[n] \in [format : Formats, sync : BOOLEAN, encrypted : BOOLEAN]
  <2> DEFINE T == [format : Formats, sync : BOOLEAN, encrypted : BOOLEAN]
  <2> HIDE DEF T
  <2>1. Samples \in Seq(T)
    BY <1>1 DEF T
  <2>2. \A n \in 1..Len(Samples) : Samples[n] \in T
    BY <2>1
  <2> QED
    BY <1>2, <2>2 DEF T
<1> QED
  BY <1>2, <1>3

LEMMA DiscontinuityIs ==
  ASSUME SourceTyped(source), DiscontinuityRead
  PROVE  /\ SourceTyped(source') /\ source'.next = source.next
         /\ source'.announced = source.announced /\ ~source'.discontinuity
         /\ source.next \in Frames /\ Samples[source.next].sync /\ source.discontinuity
BY DEF SourceTyped, DiscontinuityRead

LEMMA FormatIs ==
  ASSUME SourceTyped(source), FormatRead
  PROVE  /\ SourceTyped(source') /\ source'.next = source.next
         /\ ~source.discontinuity /\ ~source'.discontinuity
         /\ source'.announced \in Formats
BY FramesAre DEF SourceTyped, FormatRead, HasNext

LEMMA SampleIs ==
  ASSUME SourceTyped(source), SampleRead
  PROVE  /\ SourceTyped(source') /\ source.next \in Frames
         /\ source'.next = source.next + 1
         /\ source'.announced = source.announced
         /\ ~source.discontinuity /\ ~source'.discontinuity
         /\ source.announced = Samples[source.next].format
BY FramesAre DEF SourceTyped, SampleRead, HasNext

-----------------------------------------------------------------------------
(* doSomeWork, but for its loops.                                          *)

Called == IInv /\ UNCHANGED <<device, other>> /\ renderer.state \in {"ENABLED", "STARTED"}

(* Whatever fails.                                                         *)
LEMMA FailsKeeps ==
  ASSUME Called, NEW w, Sane(w), w.codec = codec, Fails(w), w.renderer.state = renderer.state,
         w.renderer.waitingForKeys => renderer.waitingForKeys,
         w.renderer.format = renderer.format,
         renderer.waitingForFirstSyncFrame => w.renderer.waitingForFirstSyncFrame,
         renderer.inputStreamEnded => w.renderer.inputStreamEnded
  PROVE  IInv' /\ Given
<1> DEFINE v == Throws(w)
<1>1. /\ Sane(v) /\ v.codec = w.codec /\ v.drm = w.drm
      /\ v.renderer.failed /\ Changed(w.renderer, v.renderer, {"failed"})
  BY ThrownWorks
<1>2. UNCHANGED source /\ Leaves(v, "idle")
  BY DEF Fails
<1> HIDE DEF v
<1>3. RendererTyped(w.renderer) /\ DOMAIN w.renderer = DOMAIN NewRenderer
  BY DEF Sane, Works, Owns, RendererTyped
<1>4. /\ v.renderer.state = renderer.state /\ v.renderer.format = renderer.format
      /\ v.renderer.waitingForKeys => renderer.waitingForKeys
      /\ renderer.waitingForFirstSyncFrame => v.renderer.waitingForFirstSyncFrame
      /\ renderer.inputStreamEnded => v.renderer.inputStreamEnded
  BY <1>1, <1>3, FieldsOf DEF Changed
<1>5. SourceTyped(source) /\ Follows(renderer, codec, source)
  BY DEF Called, IInv
<1>6. Follows(v.renderer, v.codec, source')
  <2>1. renderer.waitingForKeys => ~source.discontinuity
    BY <1>5 DEF Follows
  <2>2. renderer.state \in {"ENABLED", "STARTED"} => source.announced = renderer.format
    BY <1>5 DEF Follows
  <2> QED
    BY <1>1, <1>2, <1>4, <1>5, <2>1, <2>2, FollowsStill DEF Called
<1>7. SourceTyped(source')
  BY <1>2, <1>5
<1>8. v.renderer.state \in {"ENABLED", "STARTED"}
  BY <1>4 DEF Called
<1>9. IInv'
  BY <1>1, <1>2, <1>6, <1>7, <1>8, Kept DEF Called
<1>10. codec' = codec
  BY <1>1, <1>2 DEF Leaves
<1> QED
  BY <1>9, <1>10, NotGiven DEF Called

(* A call that changed nothing of the renderer, and is answered nothing or *)
(* that there is a discontinuity when there is no decoder.                 *)
LEMMA NothingKeeps ==
  ASSUME Called, NothingRead \/ (DiscontinuityRead /\ codec = NoCodec),
         NEW then \in {"idle", "drain", "feed"}, Leaves(World, then),
         then = "idle" \/ codec # NoCodec
  PROVE  IInv' /\ Given
<1>1. /\ Sane(World) /\ SourceTyped(source) /\ Follows(renderer, codec, source)
  BY Begun DEF Called
<1>2. SourceTyped(source') /\ Follows(renderer, codec, source')
  <2>1. CASE NothingRead
    <3>1. source' = source
      BY <2>1 DEF NothingRead
    <3> QED
      BY <1>1, <3>1
  <2>2. CASE DiscontinuityRead /\ codec = NoCodec
    <3>1. /\ SourceTyped(source') /\ source'.announced = source.announced
          /\ ~source'.discontinuity
      BY <1>1, <2>2, DiscontinuityIs
    <3>2. renderer.state \in {"ENABLED", "STARTED"} => source.announced = renderer.format
      BY <1>1 DEF Follows
    <3>3. Follows(renderer, codec, source')
      BY <2>2, <3>1, <3>2, FollowsFresh, NoCodecIs
    <3> QED
      BY <3>1, <3>3
  <2> QED
    BY <2>1, <2>2
<1>3. IInv'
  BY <1>1, <1>2, WorldIs, Kept DEF Called
<1>4. codec' = codec
  BY WorldIs DEF Leaves
<1> QED
  BY <1>3, <1>4, NotGiven DEF Called

(* The format is read.                                                     *)
LEMMA FormatKeeps ==
  ASSUME Called, FormatRead, NEW w, Sane(w), w.codec = codec,
         w.renderer.state = renderer.state, ~w.renderer.failed <=> ~renderer.failed,
         renderer.waitingForFirstSyncFrame => w.renderer.waitingForFirstSyncFrame,
         renderer.inputStreamEnded => w.renderer.inputStreamEnded,
         \/ codec = NoCodec
         \/ ~w.renderer.waitingForKeys /\ w.renderer.reconfiguration # "QUEUE_PENDING",
         NEW v \in onInputFormatChanged(w, source'.announced),
         NEW then \in {"idle", "feed"}, Leaves(v, then), then = "idle" \/ codec # NoCodec
  PROVE  IInv' /\ Given
<1>1. /\ SourceTyped(source) /\ Follows(renderer, codec, source)
      /\ device.protected \in BOOLEAN
  BY Begun DEF Called
<1>2. /\ SourceTyped(source') /\ source'.next = source.next
      /\ ~source.discontinuity /\ ~source'.discontinuity /\ source'.announced \in Formats
  BY <1>1, FormatIs
<1> DEFINE f == source'.announced
<1>3. w.renderer.state \notin {"DISABLED", "RELEASED"}
  BY DEF Called
<1>4. /\ Sane(v) /\ v.renderer.format = f
      /\ Changed(w.renderer, v.renderer, Renewed \cup {"format"})
      /\ w.codec # NoCodec => v.renderer.failed \/ v.codec # NoCodec
      /\ \/ /\ v.codec = w.codec /\ v.renderer.failed = w.renderer.failed
            /\ v.renderer.waitingForFirstSyncFrame = w.renderer.waitingForFirstSyncFrame
         \/ /\ v.codec.queue = <<>>
            /\ v.codec # NoCodec /\ ~v.renderer.failed
                 => v.renderer.waitingForFirstSyncFrame
  BY <1>1, <1>2, <1>3, FormatWorks
<1>5. RendererTyped(w.renderer) /\ DOMAIN w.renderer = DOMAIN NewRenderer
  BY DEF Sane, Works, Owns, RendererTyped
<1>6. /\ v.renderer.state = renderer.state
      /\ renderer.inputStreamEnded => v.renderer.inputStreamEnded
  BY <1>4, <1>5, FieldsOf DEF Changed, Renewed, Anew
<1>7. Follows(v.renderer, v.codec, source')
  <2>1. CASE /\ v.codec = w.codec /\ v.renderer.failed = w.renderer.failed
             /\ v.renderer.waitingForFirstSyncFrame = w.renderer.waitingForFirstSyncFrame
    <3>1. v.renderer.failed \/ ~renderer.failed
      BY <2>1
    <3>2. renderer.waitingForFirstSyncFrame => v.renderer.waitingForFirstSyncFrame
      BY <2>1
    <3>3. v.codec = codec
      BY <2>1
    <3>4. Follows(v.renderer, codec, source')
      BY <1>1, <1>2, <1>4, <1>6, <3>1, <3>2, FollowsStill
    <3> QED
      BY <3>3, <3>4
  <2>2. CASE /\ v.codec.queue = <<>>
             /\ v.codec # NoCodec /\ ~v.renderer.failed
                  => v.renderer.waitingForFirstSyncFrame
    BY <1>2, <1>4, <2>2, FollowsFresh
  <2> QED
    BY <1>4, <2>1, <2>2
<1>8. v.renderer.state \in {"ENABLED", "STARTED"}
  BY <1>6 DEF Called
<1>9. IInv'
  BY <1>2, <1>4, <1>7, <1>8, Kept DEF Called
<1>10. codec' = codec \/ codec'.queue = <<>>
  BY <1>4 DEF Leaves
<1> QED
  BY <1>9, <1>10, NotGiven DEF Called

(* After a discontinuity the decoder is flushed.                           *)
LEMMA FlushKeeps ==
  ASSUME Called, DiscontinuityRead, codec # NoCodec, NEW w, Sane(w), w.codec # NoCodec,
         w.renderer.state = renderer.state, w.renderer.format = renderer.format,
         ~w.renderer.waitingForKeys, NEW v \in flushCodec(w),
         NEW then \in {"drain", "feed"}, Leaves(v, then)
  PROVE  IInv' /\ Given
<1>1. /\ SourceTyped(source) /\ Follows(renderer, codec, source)
      /\ device.protected \in BOOLEAN
  BY Begun DEF Called
<1>2. /\ SourceTyped(source') /\ source'.next = source.next
      /\ source'.announced = source.announced /\ ~source'.discontinuity
      /\ Samples[source.next].sync
  BY <1>1, DiscontinuityIs
<1>3. /\ Sane(v) /\ v.codec.queue = <<>> /\ Changed(w.renderer, v.renderer, Renewed)
      /\ v.renderer.failed \/ v.codec # NoCodec
  BY <1>1, FlushWorks
<1>4. RendererTyped(w.renderer) /\ DOMAIN w.renderer = DOMAIN NewRenderer
  BY DEF Sane, Works, Owns, RendererTyped
<1>5. v.renderer.state = renderer.state /\ v.renderer.format = renderer.format
  BY <1>3, <1>4, FieldsOf DEF Changed, Renewed, Anew
<1>6. Follows(v.renderer, v.codec, source')
  <2>1. renderer.state \in {"ENABLED", "STARTED"} => source.announced = renderer.format
    BY <1>1 DEF Follows
  <2> QED
    BY <1>2, <1>3, <1>5, <2>1, FollowsFresh
<1>7. v.renderer.state \in {"ENABLED", "STARTED"}
  BY <1>5 DEF Called
<1>8. IInv'
  BY <1>2, <1>3, <1>6, <1>7, Kept DEF Called
<1>9. codec'.queue = <<>>
  BY <1>3 DEF Leaves
<1> QED
  BY <1>8, <1>9, NotGiven DEF Called

(* Without a surface or its keys there is no decoder, but what comes is    *)
(* read past.                                                              *)
LEMMA HeldWorks ==
  ASSUME NEW w, Sane(w), w.codec = NoCodec, NEW n, n \in Frames \/ n = w.renderer.holder
  PROVE  LET v == [w EXCEPT !.renderer.holder = n]
         IN  /\ Sane(v) /\ v.codec = w.codec /\ v.drm = w.drm
             /\ Changed(w.renderer, v.renderer, {"holder"})
<1> DEFINE r == w.renderer
           q == [r EXCEPT !.holder = n]
           v == [w EXCEPT !.renderer.holder = n]
<1>1. DOMAIN w = {"renderer", "codec", "drm"} /\ Works(r, w.codec, w.drm)
  BY DEF Sane
<1>2. RendererTyped(r) /\ Owns(r, w.drm) /\ Empty(r)
  BY <1>1 DEF Works, Owns, SetUp
<1>3. DOMAIN v = DOMAIN w /\ v.codec = w.codec /\ v.drm = w.drm /\ v.renderer = q
  BY <1>1
<1> HIDE DEF v
<1>4. /\ DOMAIN q = DOMAIN r /\ q.holder = n
      /\ \A g \in DOMAIN r \ {"holder"} : q[g] = r[g]
  BY <1>2, FieldsOf DEF RendererTyped
<1> HIDE DEF q
<1>5. RendererTyped(q)
  BY <1>2, <1>4, FieldsOf DEF RendererTyped
<1>6. /\ q.state = r.state /\ q.openedDrmSession = r.openedDrmSession
      /\ q.format = r.format /\ q.waitingForKeys = r.waitingForKeys
      /\ q.input = r.input /\ q.output = r.output /\ q.reconfigured = r.reconfigured
      /\ q.reconfiguration = r.reconfiguration
  BY <1>2, <1>4, FieldsOf DEF RendererTyped
<1>7. Owns(q, w.drm)
  BY <1>2, <1>4, <1>5, <1>6 DEF Owns
<1>8. Works(q, NoCodec, w.drm)
  BY <1>2, <1>6, <1>7, EmptyWorks DEF Empty
<1> QED
  BY <1>1, <1>3, <1>4, <1>8 DEF Sane, Changed, v

LEMMA DiscardKeeps ==
  ASSUME Called, codec = NoCodec, discardSamples
  PROVE  IInv' /\ Given
<1>1. /\ Sane(World) /\ SourceTyped(source) /\ Follows(renderer, codec, source)
      /\ device.protected \in BOOLEAN /\ RendererTyped(renderer)
      /\ DOMAIN renderer = DOMAIN NewRenderer
  BY Begun DEF Called
<1>2. CASE DiscontinuityRead /\ Leaves(World, "idle")
  BY <1>2, NothingKeeps
<1>3. CASE ~(DiscontinuityRead /\ Leaves(World, "idle"))
  <2>1. ~source.discontinuity
    BY <1>3 DEF discardSamples
  <2>2. PICK n \in source.next..Len(Samples) + 1 :
          LET w == [World EXCEPT !.renderer.holder = IF n = source.next THEN @ ELSE n - 1]
          IN  \/ /\ source' = [source EXCEPT !.next = n]
                 /\ Leaves(w, "idle")
              \/ /\ n \in Frames
                 /\ source' = [source EXCEPT !.next = n, !.announced = Samples[n].format]
                 /\ \E v \in onInputFormatChanged(w, Samples[n].format) : Leaves(v, "idle")
    BY <1>3 DEF discardSamples
  <2> DEFINE w == [World EXCEPT !.renderer.holder = IF n = source.next THEN @ ELSE n - 1]
  <2>3. /\ n \in 1..Len(Samples) + 1 /\ source.next \in 1..Len(Samples) + 1
        /\ n # source.next => n - 1 \in Frames
    BY <1>1, FramesAre DEF SourceTyped
  <2>4. /\ Sane(w) /\ w.codec = NoCodec /\ w.drm = drm
        /\ Changed(renderer, w.renderer, {"holder"})
    <3> DEFINE m == IF n = source.next THEN renderer.holder ELSE n - 1
    <3>1. w = [World EXCEPT !.renderer.holder = m]
      BY WorldIs
    <3>2. m \in Frames \/ m = renderer.holder
      BY <2>3
    <3> HIDE DEF m, w
    <3> QED
      BY <1>1, <3>1, <3>2, WorldIs, HeldWorks
  <2>5. \/ /\ source' = [source EXCEPT !.next = n]
           /\ Leaves(w, "idle")
        \/ /\ n \in Frames
           /\ source' = [source EXCEPT !.next = n, !.announced = Samples[n].format]
           /\ \E v \in onInputFormatChanged(w, Samples[n].format) : Leaves(v, "idle")
    BY <2>2
  <2> HIDE DEF w
  <2>6. w.renderer.state = renderer.state /\ w.renderer.format = renderer.format
    BY <1>1, <2>4, FieldsOf DEF Changed
  <2>7. CASE source' = [source EXCEPT !.next = n] /\ Leaves(w, "idle")
    <3>1. /\ SourceTyped(source') /\ ~source'.discontinuity
          /\ source'.announced = source.announced
      BY <1>1, <2>1, <2>3, <2>7 DEF SourceTyped
    <3>2. renderer.state \in {"ENABLED", "STARTED"} => source.announced = renderer.format
      BY <1>1 DEF Follows
    <3>3. Follows(w.renderer, w.codec, source')
      BY <2>4, <2>6, <3>1, <3>2, FollowsFresh, NoCodecIs
    <3>4. IInv'
      BY <2>4, <2>6, <2>7, <3>1, <3>3, Kept DEF Called
    <3>5. codec' = codec
      BY <2>4, <2>7 DEF Leaves
    <3> QED
      BY <3>4, <3>5, NotGiven DEF Called
  <2>8. ASSUME n \in Frames,
               source' = [source EXCEPT !.next = n, !.announced = Samples[n].format],
               NEW v \in onInputFormatChanged(w, Samples[n].format), Leaves(v, "idle")
        PROVE  IInv' /\ Given
    <3>1. /\ SourceTyped(source') /\ ~source'.discontinuity
          /\ source'.announced = Samples[n].format /\ Samples[n].format \in Formats
      BY <1>1, <2>1, <2>3, <2>8, FramesAre DEF SourceTyped
    <3>2. w.renderer.state \notin {"DISABLED", "RELEASED"}
      BY <2>6 DEF Called
    <3>3. /\ Sane(v) /\ v.renderer.format = Samples[n].format
          /\ Changed(w.renderer, v.renderer, Renewed \cup {"format"})
          /\ \/ v.codec = w.codec
             \/ /\ v.codec.queue = <<>>
                /\ v.codec # NoCodec /\ ~v.renderer.failed
                     => v.renderer.waitingForFirstSyncFrame
      <4>1. PICK f \in Formats : f = Samples[n].format
        BY <3>1
      <4>2. v \in onInputFormatChanged(w, f)
        BY <4>1
      <4>3. /\ Sane(v) /\ v.renderer.format = f
            /\ Changed(w.renderer, v.renderer, Renewed \cup {"format"})
            /\ \/ v.codec = w.codec
               \/ /\ v.codec.queue = <<>>
                  /\ v.codec # NoCodec /\ ~v.renderer.failed
                       => v.renderer.waitingForFirstSyncFrame
        <5>1. /\ Sane(v) /\ v.renderer.format = f
              /\ Changed(w.renderer, v.renderer, Renewed \cup {"format"})
              /\ w.codec # NoCodec => v.renderer.failed \/ v.codec # NoCodec
              /\ \/ /\ v.codec = w.codec /\ v.renderer.failed = w.renderer.failed
                    /\ v.renderer.waitingForFirstSyncFrame
                         = w.renderer.waitingForFirstSyncFrame
                 \/ /\ v.codec.queue = <<>>
                    /\ v.codec # NoCodec /\ ~v.renderer.failed
                         => v.renderer.waitingForFirstSyncFrame
          BY <1>1, <2>4, <3>2, <4>2, FormatWorks
        <5> QED
          BY <5>1
      <4> QED
        BY <4>1, <4>3
    <3>4. RendererTyped(w.renderer) /\ DOMAIN w.renderer = DOMAIN NewRenderer
      BY <2>4 DEF Sane, Works, Owns, RendererTyped
    <3>5. v.renderer.state = renderer.state
      BY <2>6, <3>3, <3>4, FieldsOf DEF Changed, Renewed, Anew
    <3>6. Follows(v.renderer, v.codec, source')
      BY <2>4, <3>1, <3>3, FollowsFresh, NoCodecIs
    <3>7. IInv'
      BY <2>8, <3>1, <3>3, <3>5, <3>6, Kept DEF Called
    <3>8. codec'.queue = <<>>
      BY <2>4, <2>8, <3>3, NoCodecIs DEF Leaves
    <3> QED
      BY <3>7, <3>8, NotGiven DEF Called
  <2> QED
    BY <2>5, <2>7, <2>8
<1> QED
  BY <1>2, <1>3

LEMMA DoSomeWorkKeeps ==
  ASSUME IInv, doSomeWork
  PROVE  IInv' /\ Given
<1>1. Called /\ ~renderer.failed
  BY DEF doSomeWork, Working, Idle, Called
<1>2. /\ Sane(World) /\ SourceTyped(source) /\ Follows(renderer, codec, source)
      /\ device.protected \in BOOLEAN /\ RendererTyped(renderer)
      /\ DOMAIN renderer = DOMAIN NewRenderer /\ SetUp(renderer, codec, drm)
  BY Begun
<1>3. CASE Fails(World)
  BY <1>1, <1>2, <1>3, WorldIs, FailsKeeps
<1>4. CASE renderer.format = NoFormat /\ readFormat
  <2>1. codec = NoCodec
    BY <1>2, <1>4, Buffers DEF SetUp
  <2>2. CASE (NothingRead \/ DiscontinuityRead) /\ Leaves(World, "idle")
    BY <1>1, <2>1, <2>2, NothingKeeps
  <2>3. ASSUME FormatRead, NEW w \in onInputFormatChanged(World, source'.announced),
               Leaves(w, "idle")
        PROVE  IInv' /\ Given
    BY <1>1, <1>2, <2>1, <2>3, WorldIs, FormatKeeps
  <2> QED
    BY <1>4, <2>2, <2>3 DEF readFormat
<1>5. CASE codec = NoCodec /\ discardSamples
  BY <1>1, <1>5, DiscardKeeps
<1>6. ASSUME codec = NoCodec, UNCHANGED source, NEW w \in maybeInitCodec(World),
             Leaves(w, IF w.codec = NoCodec THEN "idle" ELSE "drain")
      PROVE  IInv' /\ Given
  <2>1. /\ Sane(w) /\ w.codec.queue = <<>> /\ Changed(renderer, w.renderer, Anew)
        /\ w.codec # NoCodec /\ ~w.renderer.failed => w.renderer.waitingForFirstSyncFrame
    BY <1>2, <1>6, WorldIs, InitWorks
  <2>2. /\ w.renderer.state = renderer.state /\ w.renderer.format = renderer.format
        /\ w.renderer.waitingForKeys = renderer.waitingForKeys
    BY <1>2, <2>1, FieldsOf DEF Changed, Anew
  <2>3. /\ renderer.state \in {"ENABLED", "STARTED"} => source.announced = renderer.format
        /\ renderer.waitingForKeys => ~source.discontinuity
    BY <1>2 DEF Follows
  <2>4. Follows(w.renderer, w.codec, source)
    BY <2>1, <2>2, <2>3, FollowsFresh
  <2>5. source' = source
    BY <1>6
  <2>6. IInv'
    <3>1. SourceTyped(source') /\ Follows(w.renderer, w.codec, source')
      BY <1>2, <2>4, <2>5
    <3>2. w.renderer.state \in {"ENABLED", "STARTED"}
      BY <1>1, <2>2 DEF Called
    <3>3. UNCHANGED <<device, other>>
      BY <1>1 DEF Called
    <3>4. CASE w.codec = NoCodec
      <4>1. Leaves(w, "idle")
        BY <1>6, <3>4
      <4> QED
        BY <2>1, <3>1, <3>2, <3>3, <4>1, Kept
    <3>5. CASE w.codec # NoCodec
      <4>1. Leaves(w, "drain")
        BY <1>6, <3>5
      <4> QED
        BY <2>1, <3>1, <3>2, <3>3, <3>5, <4>1, Kept
    <3> QED
      BY <3>4, <3>5
  <2>7. codec'.queue = <<>>
    BY <1>6, <2>1 DEF Leaves
  <2> QED
    BY <2>6, <2>7, NotGiven
<1>7. CASE codec # NoCodec /\ checkForDiscontinuity
  <2>1. CASE source.discontinuity
    <3>1. ~renderer.waitingForKeys
      BY <1>2, <2>1 DEF Follows
    <3>2. PICK w \in flushCodec(World) : DiscontinuityRead /\ Leaves(w, "drain")
      BY <1>7, <2>1 DEF checkForDiscontinuity
    <3> QED
      BY <1>1, <1>2, <1>7, <3>1, <3>2, WorldIs, FlushKeeps
  <2>2. CASE ~source.discontinuity
    <3>1. NothingRead /\ Leaves(World, "drain")
      BY <1>7, <2>2 DEF checkForDiscontinuity
    <3> QED
      BY <1>1, <1>7, <3>1, NothingKeeps
  <2> QED
    BY <2>1, <2>2
<1> QED
  BY <1>3, <1>4, <1>5, <1>6, <1>7 DEF doSomeWork

-----------------------------------------------------------------------------
(* drainOutputBuffer.                                                      *)

LEMMA OutputWorks ==
  ASSUME NEW r, NEW q, NEW c, NEW e, NEW d, Works(r, c, d), c # NoCodec, RendererTyped(q),
         Changed(r, q, {"output", "shown", "decodeOnly", "outputStreamEnded"}),
         q.output # NoBuffer => Passes(q.output),
         DOMAIN e = DOMAIN c, e.configured = c.configured, e.current = c.current,
         e.crypto = c.crypto, e.begun = c.begun, e.queue = c.queue,
         e.outputs \in Seq(Buffer), \A i \in DOMAIN e.outputs : Passes(e.outputs[i])
  PROVE  Works(q, e, d) /\ e # NoCodec
<1>1. /\ RendererTyped(r) /\ DOMAIN r = DOMAIN NewRenderer /\ CodecTyped(c)
      /\ SetUp(r, c, d) /\ Holds(r) /\ Formatted(r, c)
  BY DEF Works, Owns, RendererTyped
<1>2. /\ q.state = r.state /\ q.surface = r.surface /\ q.format = r.format
      /\ q.openedDrmSession = r.openedDrmSession /\ q.input = r.input
      /\ q.holder = r.holder /\ q.reconfigured = r.reconfigured
      /\ q.reconfiguration = r.reconfiguration /\ q.waitingForKeys = r.waitingForKeys
      /\ q.waitingForFirstSyncFrame = r.waitingForFirstSyncFrame
  BY <1>1, FieldsOf DEF Changed
<1>3. Owns(q, d)
  BY <1>2, StillOwns DEF Works
<1>4. e # NoCodec
  BY <1>1, Buffers, NoCodecIs DEF SetUp
<1>5. CodecTyped(e)
  BY <1>1 DEF CodecTyped
<1>6. SetUp(q, e, d)
  BY <1>1, <1>2, <1>4 DEF SetUp
<1>7. Holds(q)
  BY <1>1, <1>2 DEF Holds
<1>8. Formatted(q, e)
  <2>1. \A i : Taken(e, i) = Taken(c, i)
    BY DEF Taken
  <2> QED
    BY <1>1, <1>2, <2>1 DEF Formatted
<1> QED
  BY <1>3, <1>4, <1>5, <1>6, <1>7, <1>8 DEF Works

(* A buffer is taken from the decoder.                                     *)
LEMMA DequeuedWorks ==
  ASSUME IInv, codec # NoCodec
  PROVE  LET w == Dequeued
         IN  /\ Sane(w) /\ w.codec # NoCodec /\ w.codec.queue = codec.queue
             /\ w.codec.begun = codec.begun /\ w.drm = drm
             /\ Changed(renderer, w.renderer, {"output"})
<1>1. /\ Sane(World) /\ CodecTyped(codec) /\ RendererTyped(renderer)
      /\ Works(renderer, codec, drm)
  BY Begun, WorldIs DEF Sane
<1>2. CASE renderer.output # NoBuffer \/ codec.outputs = <<>>
  BY <1>1, <1>2, WorldIs DEF Dequeued, Changed
<1>3. CASE ~(renderer.output # NoBuffer \/ codec.outputs = <<>>)
  <2> DEFINE w == Dequeued
             b == Head(codec.outputs)
             q == [renderer EXCEPT !.output = b]
             e == [codec EXCEPT !.outputs = Tail(@)]
  <2>1. DOMAIN w = {"renderer", "codec", "drm"} /\ w.codec = e /\ w.drm = drm
        /\ w.renderer = q
    BY <1>3 DEF Dequeued, World
  <2> HIDE DEF w
  <2>2. /\ codec.outputs \in Seq(Buffer) /\ codec.outputs # <<>>
        /\ \A i \in DOMAIN codec.outputs : Passes(codec.outputs[i])
    BY <1>1, <1>3 DEF CodecTyped
  <2>3. b \in Buffer /\ Passes(b) /\ Tail(codec.outputs) \in Seq(Buffer)
        /\ \A i \in DOMAIN Tail(codec.outputs) : Passes(Tail(codec.outputs)[i])
    BY <2>2
  <2> HIDE DEF b
  <2>4. /\ DOMAIN e = DOMAIN codec /\ e.configured = codec.configured
        /\ e.current = codec.current /\ e.crypto = codec.crypto /\ e.begun = codec.begun
        /\ e.queue = codec.queue /\ e.outputs = Tail(codec.outputs)
    BY <1>1, NoCodecIs DEF CodecTyped
  <2> HIDE DEF e
  <2>5. /\ DOMAIN q = DOMAIN renderer /\ q.output = b
        /\ \A g \in DOMAIN renderer \ {"output"} : q[g] = renderer[g]
    BY <1>1, FieldsOf DEF RendererTyped
  <2> HIDE DEF q
  <2>6. RendererTyped(q)
    BY <1>1, <2>3, <2>5, FieldsOf DEF RendererTyped
  <2>7. Changed(renderer, q, {"output", "shown", "decodeOnly", "outputStreamEnded"})
    BY <2>5 DEF Changed
  <2>8. Works(q, e, drm) /\ e # NoCodec
    BY <1>1, <2>3, <2>4, <2>5, <2>6, <2>7, OutputWorks
  <2> QED
    BY <2>1, <2>4, <2>5, <2>8 DEF Sane, Changed, w
<1> QED
  BY <1>2, <1>3

LEMMA DrainedKeeps ==
  ASSUME Called, codec # NoCodec, NEW w, Sane(w), w.codec # NoCodec,
         w.codec.queue = codec.queue, w.codec.begun = codec.begun,
         Changed(renderer, w.renderer, {"output", "shown", "decodeOnly", "outputStreamEnded"}),
         UNCHANGED source, NEW then \in {"drain", "feed"}, Leaves(w, then)
  PROVE  IInv' /\ Given
<1>1. /\ SourceTyped(source) /\ Follows(renderer, codec, source)
      /\ RendererTyped(renderer) /\ DOMAIN renderer = DOMAIN NewRenderer
  BY Begun DEF Called
<1>2. /\ w.renderer.state = renderer.state /\ w.renderer.format = renderer.format
      /\ w.renderer.waitingForKeys = renderer.waitingForKeys
      /\ w.renderer.failed = renderer.failed
      /\ w.renderer.waitingForFirstSyncFrame = renderer.waitingForFirstSyncFrame
      /\ w.renderer.inputStreamEnded = renderer.inputStreamEnded
  BY <1>1, FieldsOf DEF Changed
<1>3. /\ renderer.state \in {"ENABLED", "STARTED"} => source.announced = renderer.format
      /\ renderer.waitingForKeys => ~source.discontinuity
  BY <1>1 DEF Follows
<1>4. Follows(w.renderer, w.codec, source)
  BY <1>1, <1>2, <1>3, FollowsStill
<1>5. IInv'
  BY <1>1, <1>2, <1>4, Kept DEF Called
<1>6. codec'.queue = codec.queue
  BY DEF Leaves
<1> QED
  BY <1>5, <1>6, NotGiven DEF Called

(* A frame is let go of.                                                   *)
LEMMA ReleasedKeeps ==
  ASSUME Called, codec # NoCodec, NEW w, Sane(w), w.codec # NoCodec,
         w.codec.queue = codec.queue, w.codec.begun = codec.begun,
         Changed(renderer, w.renderer, {"output"}), UNCHANGED source,
         NEW shown \in Frames \cup {0}, Released(w, shown)
  PROVE  IInv' /\ Given
<1> DEFINE r == w.renderer
           left == r.decodeOnly \ {r.output.time}
           q == [r EXCEPT !.output = NoBuffer, !.shown = shown, !.decodeOnly = left]
           v == [w EXCEPT !.renderer.output = NoBuffer, !.renderer.shown = shown,
                          !.renderer.decodeOnly = @ \ {w.renderer.output.time}]
<1>1. /\ DOMAIN w = {"renderer", "codec", "drm"} /\ Works(r, w.codec, w.drm)
      /\ RendererTyped(r) /\ CodecTyped(w.codec)
  BY DEF Sane, Works, Owns
<1>2. DOMAIN v = DOMAIN w /\ v.codec = w.codec /\ v.drm = w.drm /\ v.renderer = q
  BY <1>1, FieldsOf DEF RendererTyped
<1>3. Leaves(v, "drain")
  BY DEF Released
<1> HIDE DEF v
<1>4. left \subseteq Frames
  BY <1>1 DEF RendererTyped
<1> HIDE DEF left
<1>5. /\ DOMAIN q = DOMAIN r /\ q.output = NoBuffer /\ q.shown = shown
      /\ q.decodeOnly = left
      /\ \A g \in DOMAIN r \ {"output", "shown", "decodeOnly"} : q[g] = r[g]
  BY <1>1, FieldsOf DEF RendererTyped
<1> HIDE DEF q
<1>6. RendererTyped(q)
  BY <1>1, <1>4, <1>5, FieldsOf DEF RendererTyped
<1>7. Changed(r, q, {"output", "shown", "decodeOnly", "outputStreamEnded"})
  BY <1>5 DEF Changed
<1>8. Works(q, w.codec, w.drm)
  BY <1>1, <1>5, <1>6, <1>7, OutputWorks DEF CodecTyped
<1>9. Changed(renderer, q, {"output", "shown", "decodeOnly", "outputStreamEnded"})
  BY <1>5 DEF Changed
<1>10. Sane(v)
  BY <1>1, <1>2, <1>8 DEF Sane
<1> QED
  BY <1>2, <1>3, <1>9, <1>10, DrainedKeeps

LEMMA DrainKeeps ==
  ASSUME IInv, drainOutputBuffer
  PROVE  IInv' /\ Given
<1> DEFINE w == Dequeued
           r == w.renderer
<1>1. Called /\ codec # NoCodec /\ UNCHANGED source
  BY DEF drainOutputBuffer, IInv, Called
<1>2. /\ Sane(World) /\ RendererTyped(renderer)
  BY Begun
<1>3. /\ Sane(w) /\ w.codec # NoCodec /\ w.codec.queue = codec.queue
      /\ w.codec.begun = codec.begun /\ w.drm = drm
      /\ Changed(renderer, w.renderer, {"output"})
  BY <1>1, DequeuedWorks
<1>4. renderer.outputStreamEnded \in BOOLEAN
  BY <1>2 DEF RendererTyped
<1>5. /\ renderer.outputStreamEnded => Leaves(World, "feed")
      /\ ~renderer.outputStreamEnded /\ w.renderer.output = NoBuffer => Leaves(w, "feed")
      /\ ~renderer.outputStreamEnded /\ w.renderer.output = EndOfStream =>
           Leaves([w EXCEPT !.renderer.outputStreamEnded = TRUE], "feed")
      /\ ~renderer.outputStreamEnded /\ w.renderer.output \notin {NoBuffer, EndOfStream} =>
           processOutputBuffer(w)
  BY <1>4, Buffers DEF drainOutputBuffer
<1> HIDE DEF w
<1>6. /\ DOMAIN w = {"renderer", "codec", "drm"} /\ Works(r, w.codec, w.drm)
      /\ RendererTyped(r) /\ CodecTyped(w.codec)
  BY <1>3 DEF Sane, Works, Owns
<1>7. Changed(renderer, r, {"output", "shown", "decodeOnly", "outputStreamEnded"})
  BY <1>3 DEF Changed
<1>8. CASE Leaves(World, "feed")
  <2>1. Changed(renderer, renderer, {"output", "shown", "decodeOnly", "outputStreamEnded"})
    BY DEF Changed
  <2> QED
    BY <1>1, <1>2, <1>8, <2>1, WorldIs, DrainedKeeps
<1>9. CASE Leaves(w, "feed")
  BY <1>1, <1>3, <1>7, <1>9, DrainedKeeps
<1>10. CASE Leaves([w EXCEPT !.renderer.outputStreamEnded = TRUE], "feed")
  <2> DEFINE v == [w EXCEPT !.renderer.outputStreamEnded = TRUE]
             q == [r EXCEPT !.outputStreamEnded = TRUE]
  <2>1. DOMAIN v = DOMAIN w /\ v.codec = w.codec /\ v.drm = w.drm /\ v.renderer = q
    BY <1>6
  <2>2. Leaves(v, "feed")
    BY <1>10
  <2> HIDE DEF v
  <2>3. /\ DOMAIN q = DOMAIN r /\ q.outputStreamEnded \in BOOLEAN
        /\ \A g \in DOMAIN r \ {"outputStreamEnded"} : q[g] = r[g]
    BY <1>6, FieldsOf DEF RendererTyped
  <2> HIDE DEF q
  <2>4. RendererTyped(q)
    BY <1>6, <2>3, FieldsOf DEF RendererTyped
  <2>5. q.output = r.output
    BY <1>6, <2>3, FieldsOf DEF RendererTyped
  <2>6. Changed(r, q, {"output", "shown", "decodeOnly", "outputStreamEnded"})
    BY <2>3 DEF Changed
  <2>7. r.output # NoBuffer => Passes(r.output)
    BY <1>6 DEF Works
  <2>8. Works(q, w.codec, w.drm)
    BY <1>3, <1>6, <2>4, <2>5, <2>6, <2>7, OutputWorks DEF CodecTyped
  <2>9. Changed(renderer, q, {"output", "shown", "decodeOnly", "outputStreamEnded"})
    BY <1>7, <2>3 DEF Changed
  <2>10. Sane(v)
    BY <1>6, <2>1, <2>8 DEF Sane
  <2> QED
    BY <1>1, <1>3, <2>1, <2>2, <2>9, <2>10, DrainedKeeps
<1>11. CASE r.output \notin {NoBuffer, EndOfStream} /\ processOutputBuffer(w)
  <2>1. Passes(r.output)
    BY <1>6, <1>11 DEF Works
  <2>2. r.output.time \in Frames /\ renderer.shown \in Frames \cup {0}
    BY <1>2, <1>11, <2>1 DEF Passes, RendererTyped
  <2>3. Released(w, renderer.shown) \/ Released(w, r.output.time) \/ Leaves(w, "feed")
    BY <1>11 DEF processOutputBuffer
  <2>4. CASE Released(w, renderer.shown)
    BY <1>1, <1>3, <2>2, <2>4, ReleasedKeeps
  <2>5. CASE Released(w, r.output.time)
    BY <1>1, <1>3, <2>2, <2>5, ReleasedKeeps
  <2> QED
    BY <1>9, <2>3, <2>4, <2>5
<1> QED
  BY <1>4, <1>5, <1>8, <1>9, <1>10, <1>11

-----------------------------------------------------------------------------
(* feedInputBuffer.                                                        *)

LEMMA DataIs ==
  ASSUME NEW b \in Buffer, NEW data \in Seq(Frames)
  PROVE  LET e == [b EXCEPT !.data = data]
         IN  e \in Buffer /\ e.data = data /\ e.config = b.config
<1> DEFINE S == Seq(Frames)
<1> HIDE DEF S
<1>1. data \in S /\ b \in [config : Formats \cup {NoFormat}, data : S,
                           time : Frames \cup {-2, 0}]
  BY DEF Buffer, S
<1> QED
  BY <1>1 DEF Buffer, S

(* A sample is read behind what the buffer holds.                          *)
LEMMA ReadWorks ==
  ASSUME NEW w, Sane(w), w.codec # NoCodec, w.renderer.input \in Buffer,
         ~w.renderer.waitingForKeys, NEW n \in Frames
  PROVE  LET v == [w EXCEPT !.renderer.holder = n, !.renderer.input.data = Append(@, n)]
         IN  /\ Sane(v) /\ v.codec = w.codec /\ v.drm = w.drm
             /\ Changed(w.renderer, v.renderer, {"holder", "input"})
             /\ v.renderer.input \in Buffer /\ v.renderer.holder = n
             /\ Len(v.renderer.input.data) = 1 => v.renderer.input.data[1] = n
<1> DEFINE r == w.renderer
           b == [r.input EXCEPT !.data = Append(@, n)]
           q == [r EXCEPT !.holder = n, !.input = b]
           v == [w EXCEPT !.renderer.holder = n, !.renderer.input.data = Append(@, n)]
<1>1. /\ DOMAIN w = {"renderer", "codec", "drm"} /\ Works(r, w.codec, w.drm)
      /\ RendererTyped(r) /\ Owns(r, w.drm) /\ SetUp(r, w.codec, w.drm)
      /\ Formatted(r, w.codec)
  BY DEF Sane, Works, Owns
<1>2. /\ DOMAIN v = DOMAIN w /\ v.codec = w.codec /\ v.drm = w.drm
      /\ v.renderer = [r EXCEPT !.holder = n, !.input.data = Append(@, n)]
  BY <1>1
<1>3. v.renderer = q
  BY <1>1, <1>2, FieldsOf DEF RendererTyped
<1> HIDE DEF v
<1>4. /\ b \in Buffer /\ b.data = Append(r.input.data, n) /\ b.config = r.input.config
      /\ r.input.data \in Seq(Frames)
  <2>1. r.input.data \in Seq(Frames)
    BY DEF Buffer
  <2>2. Append(r.input.data, n) \in Seq(Frames)
    BY <2>1
  <2> QED
    BY <2>1, <2>2, DataIs
<1>5. Last(b.data) = n /\ (Len(b.data) = 1 => b.data[1] = n)
  BY <1>4, SMTT(30) DEF Last
<1> HIDE DEF b
<1>6. /\ DOMAIN q = DOMAIN r /\ q.input = b /\ q.holder = n
      /\ \A g \in DOMAIN r \ {"holder", "input"} : q[g] = r[g]
  BY <1>1, FieldsOf, ZenonT(30) DEF RendererTyped
<1> HIDE DEF q
<1>7. RendererTyped(q)
  BY <1>1, <1>4, <1>6, FieldsOf DEF RendererTyped
<1>8. /\ q.state = r.state /\ q.surface = r.surface /\ q.format = r.format
      /\ q.openedDrmSession = r.openedDrmSession /\ q.output = r.output
      /\ q.reconfigured = r.reconfigured /\ q.waitingForKeys = r.waitingForKeys
      /\ q.reconfiguration = r.reconfiguration
  BY <1>1, <1>6, FieldsOf DEF RendererTyped
<1>9. Owns(q, w.drm)
  BY <1>1, <1>6, <1>7, <1>8 DEF Owns
<1>10. SetUp(q, w.codec, w.drm)
  BY <1>1, <1>8 DEF SetUp
<1>11. Holds(q)
  BY <1>5, <1>6, <1>8 DEF Holds
<1>12. Formatted(q, w.codec)
  BY <1>1, <1>4, <1>6, <1>8 DEF Formatted
<1>13. Works(q, w.codec, w.drm)
  BY <1>1, <1>8, <1>9, <1>10, <1>11, <1>12 DEF Works
<1> QED
  BY <1>1, <1>2, <1>3, <1>4, <1>5, <1>6, <1>13 DEF Sane, Changed, v

(* The first sync frame has come.                                          *)
LEMMA SyncWorks ==
  ASSUME NEW w, Sane(w)
  PROVE  LET v == [w EXCEPT !.renderer.waitingForFirstSyncFrame = FALSE]
         IN  /\ Sane(v) /\ v.codec = w.codec /\ v.drm = w.drm
             /\ Changed(w.renderer, v.renderer, {"waitingForFirstSyncFrame"})
             /\ ~v.renderer.waitingForFirstSyncFrame
<1> DEFINE r == w.renderer
           q == [r EXCEPT !.waitingForFirstSyncFrame = FALSE]
           v == [w EXCEPT !.renderer.waitingForFirstSyncFrame = FALSE]
<1>1. /\ DOMAIN w = {"renderer", "codec", "drm"} /\ Works(r, w.codec, w.drm)
      /\ RendererTyped(r)
  BY DEF Sane, Works, Owns
<1>2. DOMAIN v = DOMAIN w /\ v.codec = w.codec /\ v.drm = w.drm /\ v.renderer = q
  BY <1>1
<1> HIDE DEF v
<1>3. /\ DOMAIN q = DOMAIN r /\ ~q.waitingForFirstSyncFrame
      /\ q.waitingForFirstSyncFrame \in BOOLEAN
      /\ \A g \in DOMAIN r \ {"waitingForFirstSyncFrame"} : q[g] = r[g]
  BY <1>1, FieldsOf DEF RendererTyped
<1> HIDE DEF q
<1>4. RendererTyped(q)
  BY <1>1, <1>3, FieldsOf DEF RendererTyped
<1>5. Changed(r, q, {"failed", "shown", "inputStreamEnded", "outputStreamEnded",
                     "decodeOnly", "waitingForFirstSyncFrame"})
  BY <1>3 DEF Changed
<1>6. Works(q, w.codec, w.drm)
  BY <1>1, <1>3, <1>4, <1>5, WorksStill
<1> QED
  BY <1>1, <1>2, <1>3, <1>6 DEF Sane, Changed, v

(* The sample is kept until there are keys.                                *)
LEMMA WaitsWorks ==
  ASSUME NEW w, Sane(w), ~w.renderer.waitingForFirstSyncFrame, device.protected,
         w.renderer.holder \in Frames, w.renderer.reconfiguration # "WRITE_PENDING",
         Len(w.renderer.input.data) = 1 =>
           Samples[w.renderer.input.data[1]].format = w.renderer.format
  PROVE  LET v == [w EXCEPT !.renderer.waitingForKeys = TRUE]
         IN  /\ Sane(v) /\ v.codec = w.codec /\ v.drm = w.drm
             /\ Changed(w.renderer, v.renderer, {"waitingForKeys"})
<1> DEFINE r == w.renderer
           q == [r EXCEPT !.waitingForKeys = TRUE]
           v == [w EXCEPT !.renderer.waitingForKeys = TRUE]
<1>1. /\ DOMAIN w = {"renderer", "codec", "drm"} /\ Works(r, w.codec, w.drm)
      /\ RendererTyped(r) /\ Owns(r, w.drm) /\ SetUp(r, w.codec, w.drm) /\ Holds(r)
      /\ Formatted(r, w.codec)
  BY DEF Sane, Works, Owns
<1>2. DOMAIN v = DOMAIN w /\ v.codec = w.codec /\ v.drm = w.drm /\ v.renderer = q
  BY <1>1
<1> HIDE DEF v
<1>3. /\ DOMAIN q = DOMAIN r /\ q.waitingForKeys /\ q.waitingForKeys \in BOOLEAN
      /\ \A g \in DOMAIN r \ {"waitingForKeys"} : q[g] = r[g]
  BY <1>1, FieldsOf DEF RendererTyped
<1> HIDE DEF q
<1>4. RendererTyped(q)
  BY <1>1, <1>3, FieldsOf DEF RendererTyped
<1>5. /\ q.state = r.state /\ q.surface = r.surface /\ q.format = r.format
      /\ q.openedDrmSession = r.openedDrmSession /\ q.output = r.output
      /\ q.input = r.input /\ q.holder = r.holder
      /\ q.reconfigured = r.reconfigured /\ q.reconfiguration = r.reconfiguration
      /\ q.waitingForFirstSyncFrame = r.waitingForFirstSyncFrame
  BY <1>1, <1>3, FieldsOf DEF RendererTyped
<1>6. Owns(q, w.drm)
  BY <1>1, <1>4, <1>5 DEF Owns
<1>7. SetUp(q, w.codec, w.drm)
  BY <1>1, <1>5 DEF SetUp, Empty
<1>8. Holds(q)
  BY <1>1, <1>5 DEF Holds
<1>9. Formatted(q, w.codec)
  BY <1>1, <1>5 DEF Formatted
<1>10. Works(q, w.codec, w.drm)
  BY <1>1, <1>5, <1>6, <1>7, <1>8, <1>9 DEF Works
<1> QED
  BY <1>1, <1>2, <1>3, <1>10 DEF Sane, Changed, v

(* Where the sample read was not passed on.                                *)
LEMMA FollowsKept ==
  ASSUME NEW r, NEW q, NEW c, NEW s, NEW z, Follows(r, c, s),
         r.state \in {"ENABLED", "STARTED"}, q.format = r.format,
         z.announced = s.announced, ~z.discontinuity,
         ~device.protected => ~s.discontinuity /\ s.next \in Frames,
         device.protected \/ q.failed \/ q.waitingForFirstSyncFrame
  PROVE  Follows(q, c, z)
<1>1. ASSUME ~device.protected PROVE EndIsLast(q, c, z)
  BY <1>1 DEF Follows, EndIsLast
<1>2. ASSUME ~device.protected PROVE BeginsInSync(q, c, z)
  BY <1>2 DEF Follows, BeginsInSync
<1> QED
  BY <1>1, <1>2 DEF Follows

(* Where it was.                                                           *)
LEMMA FollowsPassed ==
  ASSUME NEW r, NEW q, NEW c, NEW e, NEW s, NEW z, Follows(r, c, s), c # NoCodec,
         r.state \in {"ENABLED", "STARTED"}, q.format = r.format, ~r.failed,
         z.announced = s.announced, ~z.discontinuity, c.queue \in Seq(Buffer),
         NEW b \in Buffer, b.time \in Frames, e.queue = Append(c.queue, b),
         e.begun = c.begun,
         ~device.protected => ~s.discontinuity /\ s.next \in Frames /\ b.time = s.next,
         r.waitingForFirstSyncFrame => Samples[b.time].sync
  PROVE  Follows(q, e, z)
<1> DEFINE n == Len(c.queue)
<1>1. /\ n \in Nat /\ DOMAIN e.queue = 1..n + 1 /\ DOMAIN c.queue = 1..n
      /\ \A i \in 1..n : e.queue[i] = c.queue[i]
      /\ e.queue[n + 1] = b /\ e.queue # <<>>
  BY SMTT(30)
<1> HIDE DEF n
<1>2. b # EndOfStream
  BY FramesAre, Buffers
<1>3. ASSUME ~device.protected PROVE EndIsLast(q, e, z)
  <2>1. \A i \in 1..n : c.queue[i] # EndOfStream
    BY <1>1, <1>3 DEF Follows, EndIsLast, ToSet
  <2>2. \A i \in 1..n + 1 : e.queue[i] # EndOfStream
    <3> SUFFICES ASSUME NEW i \in 1..n + 1 PROVE e.queue[i] # EndOfStream
      OBVIOUS
    <3>1. CASE i \in 1..n
      BY <1>1, <2>1, <3>1
    <3>2. CASE i = n + 1
      BY <1>1, <1>2, <3>2
    <3> QED
      BY <1>1, <3>1, <3>2
  <2> QED
    BY <1>1, <2>2 DEF EndIsLast, ToSet
<1>4. ASSUME ~device.protected PROVE BeginsInSync(q, e, z)
  <2>1. ASSUME ~c.begun PROVE Samples[e.queue[1].time].sync \/ e.queue[1] = EndOfStream
    <3>1. CASE c.queue = <<>>
      <4>1. e.queue[1] = b
        BY <3>1
      <4>2. Samples[b.time].sync
        BY <1>4, <2>1, <3>1 DEF Follows, BeginsInSync
      <4> QED
        BY <4>1, <4>2
    <3>2. CASE c.queue # <<>>
      <4>1. e.queue[1] = c.queue[1]
        BY <3>2
      <4> QED
        BY <1>4, <2>1, <3>2, <4>1 DEF Follows, BeginsInSync
    <3> QED
      BY <3>1, <3>2
  <2> QED
    BY <1>1, <2>1 DEF BeginsInSync
<1> QED
  BY <1>3, <1>4 DEF Follows

(* The sample the holder describes is passed on, or kept, or not.          *)
LEMMA FeedsKeeps ==
  ASSUME Called, ~renderer.failed, codec # NoCodec,
         NEW w, Sane(w), w.codec = codec, w.drm = drm, w.renderer.input \in Buffer,
         w.renderer.holder \in Frames, w.renderer.reconfiguration # "WRITE_PENDING",
         Len(w.renderer.input.data) = 1 =>
           Samples[w.renderer.input.data[1]].format = w.renderer.format,
         Changed(renderer, w.renderer, {"input", "reconfiguration", "holder"}),
         SourceTyped(source'), ~source'.discontinuity, source'.announced = source.announced,
         ~device.protected =>
           /\ ~source.discontinuity /\ source.next \in Frames
           /\ w.renderer.holder = source.next,
         Feeds(w)
  PROVE  IInv' /\ Given
<1> DEFINE r == w.renderer
           n == r.holder
           v == [w EXCEPT !.renderer.waitingForFirstSyncFrame = FALSE]
<1>1. /\ Follows(renderer, codec, source) /\ RendererTyped(renderer)
      /\ DOMAIN renderer = DOMAIN NewRenderer /\ codec.queue \in Seq(Buffer)
  BY Begun DEF Called
<1>2. /\ DOMAIN r = DOMAIN renderer /\ r.state = renderer.state
      /\ r.format = renderer.format /\ r.failed = renderer.failed
      /\ r.waitingForFirstSyncFrame = renderer.waitingForFirstSyncFrame
      /\ r.openedDrmSession = renderer.openedDrmSession
      /\ r.inputStreamEnded = renderer.inputStreamEnded
  BY <1>1, FieldsOf DEF Changed
<1>3. Owns(r, drm) /\ SetUp(r, codec, drm) /\ Holds(r) /\ RendererTyped(r)
  BY DEF Sane, Works, Owns
<1>4. /\ Sane(v) /\ v.codec = codec /\ v.drm = drm
      /\ Changed(r, v.renderer, {"waitingForFirstSyncFrame"})
      /\ ~v.renderer.waitingForFirstSyncFrame
  BY SyncWorks
<1>5. \/ r.waitingForFirstSyncFrame /\ ~Samples[n].sync /\ Leaves(Cleared(w), "feed")
      \/ Leaves(Throws(v), "idle")
      \/ shouldWaitForKeys(v, n) /\ Leaves([v EXCEPT !.renderer.waitingForKeys = TRUE], "idle")
      \/ /\ r.waitingForFirstSyncFrame => Samples[n].sync
         /\ r.openedDrmSession => drm.state # "ERROR"
         /\ ~shouldWaitForKeys(v, n) /\ Leaves(SampleQueued(v, n), "feed")
  BY DEF Feeds
<1> HIDE DEF v
<1>6. /\ v.renderer.state = renderer.state /\ v.renderer.format = renderer.format
      /\ v.renderer.input = r.input /\ v.renderer.holder = n
      /\ v.renderer.reconfiguration = r.reconfiguration
      /\ v.renderer.openedDrmSession = r.openedDrmSession
  BY <1>1, <1>2, <1>4, FieldsOf DEF Changed
<1>7. Samples[n].sync \in BOOLEAN /\ renderer.waitingForFirstSyncFrame \in BOOLEAN
  BY <1>1, FramesAre DEF RendererTyped
<1>8. RendererTyped(v.renderer) /\ DOMAIN v.renderer = DOMAIN NewRenderer
  BY <1>4 DEF Sane, Works, Owns, RendererTyped
<1>9. CASE r.waitingForFirstSyncFrame /\ ~Samples[n].sync /\ Leaves(Cleared(w), "feed")
  <2> DEFINE u == Cleared(w)
  <2>1. r.waitingForKeys => r.reconfiguration = "NONE"
    BY <1>3, <1>9 DEF Holds
  <2>2. /\ Sane(u) /\ u.codec = codec /\ u.drm = drm
        /\ Changed(r, u.renderer, {"input", "reconfiguration"})
    BY <2>1, ClearedWorks
  <2>3. Leaves(u, "feed")
    BY <1>9
  <2> HIDE DEF u
  <2>4. /\ u.renderer.state = renderer.state /\ u.renderer.format = renderer.format
        /\ u.renderer.waitingForFirstSyncFrame
    BY <1>1, <1>2, <1>9, <2>2, FieldsOf DEF Changed
  <2>5. Follows(u.renderer, codec, source')
    BY <1>1, <2>4, FollowsKept DEF Called
  <2>6. IInv'
    BY <2>2, <2>3, <2>4, <2>5, Kept DEF Called
  <2>7. codec' = codec
    BY <2>2, <2>3 DEF Leaves
  <2> QED
    BY <2>6, <2>7, NotGiven DEF Called
<1>10. CASE Leaves(Throws(v), "idle")
  <2> DEFINE u == Throws(v)
  <2>1. /\ Sane(u) /\ u.codec = codec /\ u.drm = drm /\ u.renderer.failed
        /\ Changed(v.renderer, u.renderer, {"failed"})
    BY <1>4, ThrownWorks
  <2>2. Leaves(u, "idle")
    BY <1>10
  <2> HIDE DEF u
  <2>3. u.renderer.state = renderer.state /\ u.renderer.format = renderer.format
    BY <1>6, <1>8, <2>1, FieldsOf DEF Changed
  <2>4. Follows(u.renderer, codec, source')
    BY <1>1, <2>1, <2>3, FollowsKept DEF Called
  <2>5. IInv'
    BY <2>1, <2>2, <2>3, <2>4, Kept DEF Called
  <2>6. codec' = codec
    BY <2>1, <2>2 DEF Leaves
  <2> QED
    BY <2>5, <2>6, NotGiven DEF Called
<1>11. CASE /\ shouldWaitForKeys(v, n)
            /\ Leaves([v EXCEPT !.renderer.waitingForKeys = TRUE], "idle")
  <2> DEFINE u == [v EXCEPT !.renderer.waitingForKeys = TRUE]
  <2>1. device.protected
    BY <1>3, <1>6, <1>11 DEF shouldWaitForKeys, Owns
  <2>2. /\ Sane(u) /\ u.codec = codec /\ u.drm = drm
        /\ Changed(v.renderer, u.renderer, {"waitingForKeys"})
    BY <1>2, <1>4, <1>6, <2>1, WaitsWorks
  <2>3. Leaves(u, "idle")
    BY <1>11
  <2> HIDE DEF u
  <2>4. u.renderer.state = renderer.state /\ u.renderer.format = renderer.format
    BY <1>6, <1>8, <2>2, FieldsOf DEF Changed
  <2>5. Follows(u.renderer, codec, source')
    BY <1>1, <2>1, <2>4, FollowsKept DEF Called
  <2>6. IInv'
    BY <2>2, <2>3, <2>4, <2>5, Kept DEF Called
  <2>7. codec' = codec
    BY <2>2, <2>3 DEF Leaves
  <2> QED
    BY <2>6, <2>7, NotGiven DEF Called
<1>12. CASE /\ r.waitingForFirstSyncFrame => Samples[n].sync
            /\ r.openedDrmSession => drm.state # "ERROR"
            /\ ~shouldWaitForKeys(v, n) /\ Leaves(SampleQueued(v, n), "feed")
  <2> DEFINE u == SampleQueued(v, n)
  <2>1. /\ v.codec # NoCodec /\ v.renderer.input \in Buffer
        /\ v.renderer.reconfiguration # "WRITE_PENDING"
        /\ Len(v.renderer.input.data) = 1 =>
             Samples[v.renderer.input.data[1]].format = v.renderer.format
    BY <1>2, <1>4, <1>6
  <2>2. n \in Frames
    OBVIOUS
  <2> HIDE DEF n
  <2>3. /\ Sane(u) /\ u.codec # NoCodec /\ u.drm = drm
        /\ u.codec.begun = codec.begun /\ ~u.renderer.waitingForKeys
        /\ \E b \in Buffer : /\ u.codec.queue = Append(codec.queue, b)
                            /\ b.time = n /\ b.data = r.input.data
        /\ Changed(v.renderer, u.renderer, {"input", "reconfiguration", "waitingForKeys",
                                            "decodeOnly"})
    BY <1>4, <1>6, <2>1, <2>2, SampleWorks, SMTT(30)
  <2>4. Leaves(u, "feed")
    BY <1>12
  <2> HIDE DEF u
  <2> PICK b \in Buffer : /\ u.codec.queue = Append(codec.queue, b)
                          /\ b.time = n /\ b.data = r.input.data
    BY <2>3
  <2>5. u.renderer.state = renderer.state /\ u.renderer.format = renderer.format
    BY <1>6, <1>8, <2>3, FieldsOf DEF Changed
  <2>6. Follows(u.renderer, u.codec, source')
    <3>1. /\ u.codec.queue = Append(codec.queue, b) /\ u.codec.begun = codec.begun
          /\ b.time \in Frames
      BY <2>2, <2>3
    <3>2. renderer.waitingForFirstSyncFrame => Samples[b.time].sync
      BY <1>2, <1>12
    <3>3. ~device.protected =>
            ~source.discontinuity /\ source.next \in Frames /\ b.time = source.next
      BY DEF n
    <3>4. renderer.state \in {"ENABLED", "STARTED"}
      BY DEF Called
    <3> QED
      BY <1>1, <2>5, <3>1, <3>2, <3>3, <3>4, FollowsPassed
  <2>7. IInv'
    BY <2>3, <2>4, <2>5, <2>6, Kept DEF Called
  <2>8. Given
    <3> SUFFICES ASSUME NEW m \in Frames, Last(codec'.queue).data = <<m>>, IsEncrypted(m)
                 PROVE  drm.state = "OPENED_WITH_KEYS" /\ codec.crypto
      BY DEF Given
    <3>1. codec'.queue = Append(codec.queue, b)
      BY <2>4 DEF Leaves
    <3>2. Last(codec'.queue) = b
      BY <1>1, <3>1 DEF Last
    <3>3. r.input.data = <<m>>
      BY <3>2
    <3>4. m = n
      <4>1. Last(r.input.data) = m /\ r.input.data # <<>>
        BY <3>3 DEF Last
      <4> QED
        BY <1>3, <4>1 DEF Holds, n
    <3>5. device.protected
      BY DEF IsEncrypted
    <3>6. r.openedDrmSession /\ codec.crypto
      BY <1>3, <3>5 DEF SetUp
    <3>7. drm.state = "OPENED_WITH_KEYS"
      BY <1>4, <1>6, <1>12, <3>4, <3>6 DEF shouldWaitForKeys
    <3> QED
      BY <3>6, <3>7
  <2> QED
    BY <2>7, <2>8
<1> QED
  BY <1>5, <1>9, <1>10, <1>11, <1>12

(* The end goes to the decoder when it is read.                            *)
LEMMA FollowsEnded ==
  ASSUME NEW r, NEW q, NEW c, NEW e, NEW s, Follows(r, c, s), ~s.discontinuity,
         s.next \notin Frames, r.state \in {"ENABLED", "STARTED"}, q.format = r.format,
         ~r.inputStreamEnded, q.inputStreamEnded, c.queue \in Seq(Buffer),
         e.queue = Append(c.queue, EndOfStream), e.begun = c.begun
  PROVE  Follows(q, e, s)
<1> DEFINE n == Len(c.queue)
<1>1. /\ n \in Nat /\ DOMAIN e.queue = 1..n + 1 /\ DOMAIN c.queue = 1..n
      /\ \A i \in 1..n : e.queue[i] = c.queue[i]
      /\ e.queue[n + 1] = EndOfStream /\ e.queue # <<>> /\ Len(e.queue) = n + 1
  BY Buffers
<1> HIDE DEF n
<1>2. ASSUME ~device.protected PROVE EndIsLast(q, e, s)
  <2>1. \A i \in 1..n : c.queue[i] # EndOfStream
    BY <1>1, <1>2 DEF Follows, EndIsLast, ToSet
  <2>2. \A i \in 1..n + 1 : e.queue[i] = EndOfStream => i = n + 1
    <3> SUFFICES ASSUME NEW i \in 1..n + 1, e.queue[i] = EndOfStream, i # n + 1
                 PROVE  FALSE
      OBVIOUS
    <3>1. i \in 1..n
      BY <1>1
    <3> QED
      BY <1>1, <2>1, <3>1
  <2> QED
    BY <1>1, <2>2 DEF EndIsLast
<1>3. ASSUME ~device.protected PROVE BeginsInSync(q, e, s)
  <2>1. ASSUME ~c.begun PROVE Samples[e.queue[1].time].sync \/ e.queue[1] = EndOfStream
    <3>1. CASE c.queue = <<>>
      <4>1. e.queue[1] = EndOfStream
        BY <3>1, Buffers
      <4> QED
        BY <4>1
    <3>2. CASE c.queue # <<>>
      <4>1. e.queue[1] = c.queue[1]
        BY <3>2, Buffers
      <4> QED
        BY <1>3, <2>1, <3>2, <4>1 DEF Follows, BeginsInSync
    <3> QED
      BY <3>1, <3>2
  <2> QED
    BY <1>1, <2>1 DEF BeginsInSync
<1> QED
  BY <1>2, <1>3 DEF Follows

(* What the source may answer a decoder that has a buffer for it.          *)
LEMMA ReadsKeeps ==
  ASSUME Called, ~renderer.failed, codec # NoCodec, ~renderer.waitingForKeys,
         ~renderer.inputStreamEnded, NEW w, Sane(w), w.codec = codec, w.drm = drm,
         Changed(renderer, w.renderer, {"input", "reconfiguration"}),
         w.renderer.input \in Buffer, w.renderer.reconfiguration # "WRITE_PENDING", Reads(w)
  PROVE  IInv' /\ Given
<1> DEFINE r == w.renderer
<1>1. /\ SourceTyped(source) /\ Follows(renderer, codec, source) /\ RendererTyped(renderer)
      /\ DOMAIN renderer = DOMAIN NewRenderer /\ codec.queue \in Seq(Buffer)
  BY Begun DEF Called
<1>2. /\ DOMAIN r = DOMAIN renderer /\ r.state = renderer.state
      /\ r.format = renderer.format /\ r.failed = renderer.failed
      /\ r.waitingForFirstSyncFrame = renderer.waitingForFirstSyncFrame
      /\ r.inputStreamEnded = renderer.inputStreamEnded
      /\ r.waitingForKeys = renderer.waitingForKeys
  BY <1>1, FieldsOf DEF Changed
<1>3. /\ renderer.state \in {"ENABLED", "STARTED"}
      /\ source.announced = renderer.format
  BY <1>1 DEF Called, Follows
<1>4. CASE NothingRead /\ Leaves(w, "idle")
  <2>1. Follows(r, codec, source)
    BY <1>1, <1>2, <1>3, FollowsStill
  <2>2. source' = source
    BY <1>4 DEF NothingRead
  <2>3. IInv'
    BY <1>1, <1>2, <1>3, <1>4, <2>1, <2>2, Kept DEF Called
  <2>4. codec' = codec
    BY <1>4 DEF Leaves
  <2> QED
    BY <2>3, <2>4, NotGiven DEF Called
<1>5. ASSUME DiscontinuityRead, NEW v \in flushCodec(w), Leaves(v, "feed")
      PROVE  IInv' /\ Given
  BY <1>2, <1>5, FlushKeeps
<1>6. ASSUME FormatRead, NEW v \in onInputFormatChanged(TakenBack(w), source'.announced),
             Leaves(v, "feed")
      PROVE  IInv' /\ Given
  <2> DEFINE t == TakenBack(w)
  <2>1. /\ Sane(t) /\ t.codec = codec /\ t.drm = drm
        /\ Changed(r, t.renderer, {"input", "reconfiguration"})
        /\ t.renderer.reconfiguration # "QUEUE_PENDING"
    BY <1>2, TakenBackWorks
  <2>2. v \in onInputFormatChanged(t, source'.announced)
    BY <1>6
  <2> HIDE DEF t
  <2>3. /\ t.renderer.state = renderer.state /\ t.renderer.failed = renderer.failed
        /\ t.renderer.waitingForFirstSyncFrame = renderer.waitingForFirstSyncFrame
        /\ t.renderer.inputStreamEnded = renderer.inputStreamEnded
        /\ t.renderer.waitingForKeys = renderer.waitingForKeys
    BY <1>1, <1>2, <2>1, FieldsOf DEF Changed
  <2> QED
    BY <1>6, <2>1, <2>2, <2>3, FormatKeeps
<1>7. CASE EndOfStreamRead /\ Leaves(EndQueued(w), "idle")
  <2> DEFINE v == EndQueued(w)
  <2>1. /\ Sane(v) /\ v.codec # NoCodec /\ v.drm = drm
        /\ v.codec.queue = Append(codec.queue, EndOfStream)
        /\ v.codec.begun = codec.begun /\ v.renderer.inputStreamEnded
        /\ Changed(r, v.renderer, {"input", "reconfiguration", "inputStreamEnded"})
    BY <1>2, EndWorks
  <2>2. Leaves(v, "idle")
    BY <1>7
  <2> HIDE DEF v
  <2>3. v.renderer.state = renderer.state /\ v.renderer.format = renderer.format
    BY <1>1, <1>2, <2>1, FieldsOf DEF Changed
  <2>4. source' = source /\ ~source.discontinuity /\ source.next \notin Frames
    BY <1>7 DEF EndOfStreamRead
  <2>5. Follows(v.renderer, v.codec, source)
    BY <1>1, <1>3, <2>1, <2>3, <2>4, FollowsEnded
  <2>6. IInv'
    BY <1>1, <1>3, <2>1, <2>2, <2>3, <2>4, <2>5, Kept DEF Called
  <2>7. Given
    <3>1. codec'.queue = Append(codec.queue, EndOfStream)
      BY <2>1, <2>2 DEF Leaves
    <3>2. Last(codec'.queue) = EndOfStream
      BY <1>1, <3>1, Buffers DEF Last
    <3>3. \A n : <<n>> # <<>>
      OBVIOUS
    <3> QED
      BY <3>2, <3>3, Buffers DEF Given
  <2> QED
    BY <2>6, <2>7
<1>8. CASE /\ SampleRead
           /\ Feeds([w EXCEPT !.renderer.holder = source.next,
                              !.renderer.input.data = Append(@, source.next)])
  <2>1. /\ SourceTyped(source') /\ source.next \in Frames
        /\ source'.announced = source.announced
        /\ ~source.discontinuity /\ ~source'.discontinuity
        /\ source.announced = Samples[source.next].format
    BY <1>1, <1>8, SampleIs
  <2> PICK n \in Frames : n = source.next
    BY <2>1
  <2> DEFINE v == [w EXCEPT !.renderer.holder = n, !.renderer.input.data = Append(@, n)]
  <2>2. /\ Sane(v) /\ v.codec = codec /\ v.drm = drm
        /\ Changed(r, v.renderer, {"holder", "input"})
        /\ v.renderer.input \in Buffer /\ v.renderer.holder = n
        /\ Len(v.renderer.input.data) = 1 => v.renderer.input.data[1] = n
    BY <1>2, ReadWorks, ZenonT(30)
  <2>3. Feeds(v)
    BY <1>8
  <2> HIDE DEF v
  <2>4. /\ v.renderer.format = renderer.format
        /\ v.renderer.reconfiguration = r.reconfiguration
    BY <1>1, <1>2, <2>2, FieldsOf DEF Changed
  <2>5. Len(v.renderer.input.data) = 1 =>
          Samples[v.renderer.input.data[1]].format = v.renderer.format
    BY <1>3, <2>1, <2>2, <2>4
  <2>6. Changed(renderer, v.renderer, {"input", "reconfiguration", "holder"})
    BY <1>2, <2>2 DEF Changed
  <2> QED
    BY <2>1, <2>2, <2>3, <2>4, <2>5, <2>6, FeedsKeeps
<1>9. CASE Fails(w)
  BY <1>2, <1>9, FailsKeeps
<1> QED
  BY <1>4, <1>5, <1>6, <1>7, <1>8, <1>9 DEF Reads

LEMMA FeedKeeps ==
  ASSUME IInv, feedInputBuffer
  PROVE  IInv' /\ Given
<1>1. Called /\ ~renderer.failed /\ codec # NoCodec
  BY DEF feedInputBuffer, IInv, Called
<1>2. /\ Sane(World) /\ SourceTyped(source) /\ Follows(renderer, codec, source)
      /\ RendererTyped(renderer) /\ DOMAIN renderer = DOMAIN NewRenderer
      /\ Owns(renderer, drm) /\ Holds(renderer)
  BY Begun
<1>3. CASE UNCHANGED source /\ Leaves(World, "idle")
  <2>1. NothingRead
    BY <1>3 DEF NothingRead
  <2> QED
    BY <1>1, <1>3, <2>1, NothingKeeps
<1> DEFINE f == Filling
<1>4. /\ Sane(f) /\ f.codec = codec /\ f.drm = drm
      /\ Changed(renderer, f.renderer, {"input"})
      /\ f.renderer.input \in Buffer /\ f.renderer.input.data = renderer.input.data
  BY <1>1, <1>2, FillingWorks
<1>5. \/ UNCHANGED source /\ Leaves(World, "idle")
      \/ renderer.waitingForKeys /\ UNCHANGED source /\ Feeds(f)
      \/ ~renderer.waitingForKeys /\ ~renderer.inputStreamEnded /\ Reads(Configured(f))
  BY DEF feedInputBuffer
<1> HIDE DEF f
<1>6. /\ f.renderer.format = renderer.format /\ f.renderer.holder = renderer.holder
      /\ f.renderer.reconfiguration = renderer.reconfiguration
      /\ f.renderer.waitingForKeys = renderer.waitingForKeys
  BY <1>2, <1>4, FieldsOf DEF Changed
<1>7. CASE renderer.waitingForKeys /\ UNCHANGED source /\ Feeds(f)
  <2>1. /\ device.protected /\ renderer.holder \in Frames
        /\ renderer.reconfiguration # "WRITE_PENDING" /\ ~source.discontinuity
        /\ Len(renderer.input.data) = 1 =>
             Samples[renderer.input.data[1]].format = renderer.format
    BY <1>2, <1>7 DEF Owns, Holds, Follows
  <2>2. SourceTyped(source') /\ ~source'.discontinuity
        /\ source'.announced = source.announced
    BY <1>2, <1>7, <2>1
  <2>3. Changed(renderer, f.renderer, {"input", "reconfiguration", "holder"})
    BY <1>4 DEF Changed
  <2>4. Len(f.renderer.input.data) = 1 =>
          Samples[f.renderer.input.data[1]].format = f.renderer.format
    BY <1>4, <1>6, <2>1
  <2> QED
    BY <1>1, <1>4, <1>6, <1>7, <2>1, <2>2, <2>3, <2>4, FeedsKeeps
<1>8. CASE /\ ~renderer.waitingForKeys /\ ~renderer.inputStreamEnded
           /\ Reads(Configured(f))
  <2> DEFINE w == Configured(f)
  <2>1. /\ Sane(w) /\ w.codec = codec /\ w.drm = drm
        /\ Changed(f.renderer, w.renderer, {"input", "reconfiguration"})
        /\ w.renderer.input \in Buffer /\ w.renderer.reconfiguration # "WRITE_PENDING"
    BY <1>1, <1>4, <1>6, <1>8, ConfiguredWorks
  <2>2. Reads(w)
    BY <1>8
  <2> HIDE DEF w
  <2>3. Changed(renderer, w.renderer, {"input", "reconfiguration"})
    BY <1>4, <2>1 DEF Changed
  <2> QED
    BY <1>1, <1>8, <2>1, <2>2, <2>3, ReadsKeeps
<1> QED
  BY <1>3, <1>5, <1>7, <1>8

-----------------------------------------------------------------------------
(* Between the calls of the loops.                                         *)

LEMMA Settled ==
  ASSUME IInv, phase = "idle", UNCHANGED <<device, phase>>, Works(renderer, codec, drm)',
         other' \in BOOLEAN, other' => device.protected,
         SourceTyped(source'), Follows(renderer', codec', source'),
         codec' = codec \/ codec'.queue = <<>>
  PROVE  IInv' /\ Given
<1>1. Follows(renderer, codec, source)'
  BY DEF Follows
<1>2. SourceTyped(source)'
  OBVIOUS
<1> QED
  BY <1>1, <1>2, NotGiven DEF IInv

(* The player's calls, and what they leave alone.                          *)
LEMMA StateWorks ==
  ASSUME NEW r, NEW q, NEW c, NEW d, Works(r, c, d), RendererTyped(q),
         Changed(r, q, {"state", "inputStreamEnded", "outputStreamEnded",
                        "waitingForKeys", "shown"}),
         q.waitingForKeys => r.waitingForKeys,
         q.state \in {"DISABLED", "RELEASED"} => r.state \in {"DISABLED", "RELEASED"}
  PROVE  Works(q, c, d)
<1>1. /\ RendererTyped(r) /\ DOMAIN r = DOMAIN NewRenderer /\ Owns(r, d)
      /\ SetUp(r, c, d) /\ Holds(r) /\ Formatted(r, c)
  BY DEF Works, Owns, RendererTyped
<1>2. /\ q.surface = r.surface /\ q.format = r.format
      /\ q.openedDrmSession = r.openedDrmSession /\ q.output = r.output
      /\ q.input = r.input /\ q.holder = r.holder
      /\ q.reconfigured = r.reconfigured /\ q.reconfiguration = r.reconfiguration
      /\ q.waitingForFirstSyncFrame = r.waitingForFirstSyncFrame
  BY <1>1, FieldsOf DEF Changed
<1>3. Owns(q, d)
  BY <1>1, <1>2 DEF Owns
<1>4. SetUp(q, c, d)
  BY <1>1, <1>2 DEF SetUp, Empty
<1>5. Holds(q)
  BY <1>1, <1>2 DEF Holds
<1>6. Formatted(q, c)
  BY <1>1, <1>2 DEF Formatted
<1> QED
  BY <1>2, <1>3, <1>4, <1>5, <1>6 DEF Works

LEMMA SyncFrameIs ==
  ASSUME NEW t \in Frames
  PROVE  SyncFrame(t) \in Frames /\ Samples[SyncFrame(t)].sync /\ SyncFrame(t) <= t
<1> DEFINE S == {m \in Frames : m <= t /\ Samples[m].sync}
<1>1. S \in SUBSET (1..Len(Samples))
  BY FramesAre
<1>2. 1 \in S
  BY FramesAre, SamplesAssumption
<1>3. SyncFrame(t) = Max(S)
  BY DEF SyncFrame
<1> HIDE DEF S
<1>4. Max(S) \in S
  BY <1>1, <1>2, FramesAre, Greatest
<1> QED
  BY <1>3, <1>4 DEF S

(* A renderer that is not enabled has no decoder.                          *)
LEMMA DisabledIs ==
  ASSUME IInv, renderer.state \in {"DISABLED", "RELEASED"}
  PROVE  codec = NoCodec /\ renderer.format = NoFormat /\ ~renderer.openedDrmSession
BY Begun, Buffers DEF Owns, SetUp

LEMMA EnableKeeps ==
  ASSUME IInv, NEW t \in SeekTimes, Enable(t)
  PROVE  IInv' /\ Given
<1> DEFINE q == [renderer EXCEPT !.state = "ENABLED", !.inputStreamEnded = FALSE,
                                 !.outputStreamEnded = FALSE, !.waitingForKeys = FALSE,
                                 !.shown = 0]
<1>1. /\ RendererTyped(renderer) /\ Works(renderer, codec, drm)
      /\ DOMAIN renderer = DOMAIN NewRenderer
  BY Begun DEF IInv
<1>2. codec = NoCodec /\ renderer.format = NoFormat
  BY DisabledIs DEF Enable
<1>3. /\ renderer' = q /\ UNCHANGED <<device, codec, phase, other, drm>> /\ phase = "idle"
  BY DEF Enable, Idle
<1>4. /\ DOMAIN q = DOMAIN renderer /\ q.state = "ENABLED" /\ ~q.waitingForKeys
      /\ q.inputStreamEnded \in BOOLEAN /\ q.outputStreamEnded \in BOOLEAN
      /\ q.waitingForKeys \in BOOLEAN /\ q.shown = 0
      /\ \A g \in DOMAIN renderer \ {"state", "inputStreamEnded", "outputStreamEnded",
                                     "waitingForKeys", "shown"} : q[g] = renderer[g]
  BY <1>1, FieldsOf
<1> HIDE DEF q
<1>5. RendererTyped(q)
  BY <1>1, <1>4, FieldsOf DEF RendererTyped
<1>6. Changed(renderer, q, {"state", "inputStreamEnded", "outputStreamEnded",
                            "waitingForKeys", "shown"})
  BY <1>4 DEF Changed
<1>7. Works(q, codec, drm)
  BY <1>1, <1>4, <1>5, <1>6, StateWorks
<1>8. Works(renderer, codec, drm)'
  BY <1>3, <1>7, WorksPrimed
<1>9. q.format = renderer.format
  BY <1>1, <1>4, FieldsOf
<1>10. t \in Frames
  BY RendererAssumption
<1>11. SourceTyped(source') /\ source'.announced = NoFormat
  BY <1>10, SyncFrameIs, FramesAre DEF Enable, SourceTyped
<1>12. Follows(q, codec, source')
  BY <1>2, <1>4, <1>9, <1>11, FollowsFresh, NoCodecIs
<1>13. other' \in BOOLEAN /\ (other' => device.protected)
  BY <1>3 DEF IInv
<1> QED
  BY <1>3, <1>8, <1>11, <1>12, <1>13, Settled

LEMMA SeekKeeps ==
  ASSUME IInv, NEW t \in SeekTimes, seekTo(t)
  PROVE  IInv' /\ Given
<1> DEFINE q == [renderer EXCEPT !.inputStreamEnded = FALSE, !.outputStreamEnded = FALSE,
                                 !.waitingForKeys = FALSE, !.shown = 0]
<1>1. /\ RendererTyped(renderer) /\ Works(renderer, codec, drm)
      /\ DOMAIN renderer = DOMAIN NewRenderer /\ SourceTyped(source)
      /\ Follows(renderer, codec, source) /\ renderer.state = "ENABLED"
  BY Begun DEF IInv, seekTo
<1>2. /\ renderer' = q /\ UNCHANGED <<device, codec, phase, other, drm>> /\ phase = "idle"
      /\ ~renderer.failed /\ SeekSource(t)
  BY DEF seekTo, Idle
<1>3. /\ DOMAIN q = DOMAIN renderer /\ ~q.waitingForKeys
      /\ q.inputStreamEnded \in BOOLEAN /\ q.outputStreamEnded \in BOOLEAN
      /\ q.waitingForKeys \in BOOLEAN /\ q.shown = 0
      /\ \A g \in DOMAIN renderer \ {"inputStreamEnded", "outputStreamEnded",
                                     "waitingForKeys", "shown"} : q[g] = renderer[g]
  BY <1>1, FieldsOf
<1> HIDE DEF q
<1>4. RendererTyped(q)
  BY <1>1, <1>3, FieldsOf DEF RendererTyped
<1>5. Changed(renderer, q, {"state", "inputStreamEnded", "outputStreamEnded",
                            "waitingForKeys", "shown"})
  BY <1>3 DEF Changed
<1>6. /\ q.format = renderer.format /\ q.state = renderer.state
      /\ q.waitingForFirstSyncFrame = renderer.waitingForFirstSyncFrame
      /\ q.failed = renderer.failed
  BY <1>1, <1>3, FieldsOf
<1>7. Works(q, codec, drm)
  BY <1>1, <1>3, <1>4, <1>5, <1>6, StateWorks
<1>8. Works(renderer, codec, drm)'
  BY <1>2, <1>7, WorksPrimed
<1>9. t \in Frames
  BY RendererAssumption
<1>10. source.announced = renderer.format
  BY <1>1 DEF Follows
<1>11. SourceTyped(source') /\ Follows(q, codec, source')
  <2>1. CASE source' = [source EXCEPT !.next = SyncFrame(t), !.discontinuity = TRUE,
                                      !.wanted = t, !.early = 0]
    <3>1. /\ SourceTyped(source') /\ source'.discontinuity
          /\ source'.announced = source.announced
      <4> PICK n \in Frames : n = SyncFrame(t) /\ Samples[n].sync
        BY <1>9, SyncFrameIs
      <4>1. /\ source' = [source EXCEPT !.next = n, !.discontinuity = TRUE, !.wanted = t,
                                        !.early = 0]
            /\ n \in 1..Len(Samples) + 1
        BY <2>1, FramesAre
      <4> QED
        BY <1>1, <1>9, <4>1 DEF SourceTyped
    <3>2. ~device.protected => EndIsLast(q, codec, source')
      BY <1>1, <3>1 DEF Follows, EndIsLast
    <3>3. ~device.protected => BeginsInSync(q, codec, source')
      BY <1>1, <3>1 DEF Follows, BeginsInSync
    <3> QED
      BY <1>3, <1>6, <1>10, <3>1, <3>2, <3>3 DEF Follows
  <2>2. CASE /\ SyncFrame(t) <= source.next /\ source.next <= t
             /\ source' = [source EXCEPT !.wanted = t, !.early = source.next - 1]
    <3>1. /\ SourceTyped(source') /\ source'.announced = source.announced
          /\ source'.next = source.next /\ source'.discontinuity = source.discontinuity
          /\ source.next \in Frames
      <4> PICK n \in Frames : n = SyncFrame(t)
        BY <1>9, SyncFrameIs
      <4>1. source.next \in Frames /\ source.next - 1 \in Nat
        BY <1>1, <1>9, <2>2, FramesAre DEF SourceTyped
      <4> QED
        BY <1>1, <1>9, <2>2, <4>1 DEF SourceTyped
    <3>2. ~device.protected => EndIsLast(q, codec, source')
      BY <1>1, <3>1 DEF Follows, EndIsLast
    <3>3. ~device.protected => BeginsInSync(q, codec, source')
      BY <1>1, <1>6, <3>1 DEF Follows, BeginsInSync
    <3> QED
      BY <1>3, <1>6, <1>10, <3>1, <3>2, <3>3 DEF Follows
  <2> QED
    BY <1>2, <2>1, <2>2 DEF SeekSource
<1>12. other' \in BOOLEAN /\ (other' => device.protected)
  BY <1>2 DEF IInv
<1> QED
  BY <1>2, <1>8, <1>11, <1>12, Settled

(* Start, Stop and Release.                                                *)
LEMMA StateKeeps ==
  ASSUME IInv, phase = "idle", NEW s \in {"ENABLED", "STARTED", "RELEASED"},
         renderer' = [renderer EXCEPT !.state = s],
         s \in {"ENABLED", "STARTED"} => renderer.state \in {"ENABLED", "STARTED"},
         s = "RELEASED" => renderer.state = "DISABLED",
         UNCHANGED <<device, codec, source, phase, other, drm>>
  PROVE  IInv' /\ Given
<1> DEFINE q == [renderer EXCEPT !.state = s]
<1>1. /\ RendererTyped(renderer) /\ Works(renderer, codec, drm)
      /\ DOMAIN renderer = DOMAIN NewRenderer /\ SourceTyped(source)
      /\ Follows(renderer, codec, source)
  BY Begun DEF IInv
<1>2. renderer' = q
  OBVIOUS
<1>3. /\ DOMAIN q = DOMAIN renderer /\ q.state = s
      /\ \A g \in DOMAIN renderer \ {"state"} : q[g] = renderer[g]
  BY <1>1, FieldsOf
<1> HIDE DEF q
<1>4. RendererTyped(q)
  BY <1>1, <1>3, FieldsOf DEF RendererTyped
<1>5. Changed(renderer, q, {"state", "inputStreamEnded", "outputStreamEnded",
                            "waitingForKeys", "shown"})
  BY <1>3 DEF Changed
<1>6. /\ q.format = renderer.format /\ q.waitingForKeys = renderer.waitingForKeys
      /\ q.waitingForFirstSyncFrame = renderer.waitingForFirstSyncFrame
      /\ q.failed = renderer.failed /\ q.inputStreamEnded = renderer.inputStreamEnded
  BY <1>1, <1>3, FieldsOf
<1>7. Works(q, codec, drm)
  BY <1>1, <1>3, <1>4, <1>5, <1>6, StateWorks
<1>8. Works(renderer, codec, drm)'
  BY <1>2, <1>7, WorksPrimed
<1>9. SourceTyped(source')
  BY <1>1
<1>10. Follows(q, codec, source)
  <2>1. s \in {"ENABLED", "STARTED"} => source.announced = renderer.format
    BY <1>1 DEF Follows
  <2>2. renderer.waitingForKeys => ~source.discontinuity
    BY <1>1 DEF Follows
  <2> QED
    BY <1>1, <1>3, <1>6, <2>1, <2>2, FollowsStill
<1>11. Follows(q, codec, source')
  BY <1>10
<1>12. other' \in BOOLEAN /\ (other' => device.protected)
  BY DEF IInv
<1> QED
  BY <1>2, <1>8, <1>9, <1>11, <1>12, Settled

LEMMA DisableKeeps ==
  ASSUME IInv, Disable
  PROVE  IInv' /\ Given
<1> DEFINE w == releaseCodec(World)
           r == w.renderer
           state == IF renderer.failed THEN "RELEASED" ELSE "DISABLED"
           q == [r EXCEPT !.state = state, !.format = NoFormat, !.openedDrmSession = FALSE]
<1>1. /\ Sane(World) /\ RendererTyped(renderer) /\ DOMAIN renderer = DOMAIN NewRenderer
      /\ SourceTyped(source) /\ Follows(renderer, codec, source)
      /\ Owns(renderer, drm) /\ SetUp(renderer, codec, drm)
  BY Begun
<1>2. /\ Sane(w) /\ w.codec = NoCodec /\ w.drm = drm
      /\ Changed(renderer, r, {"input", "output", "decodeOnly", "reconfigured",
                               "reconfiguration"})
  <2>1. codec = NoCodec => Empty(renderer)
    BY <1>1 DEF SetUp
  <2> QED
    BY <1>1, <2>1, WorldIs, ReleasedCodec DEF IsWorld
<1>3. /\ phase = "idle" /\ codec' = w.codec /\ renderer' = q
      /\ drm' \in IF renderer.openedDrmSession THEN close(drm) ELSE {drm}
      /\ UNCHANGED <<device, source, phase, other>>
  BY DEF Disable
<1> HIDE DEF w
<1>4. RendererTyped(r) /\ DOMAIN r = DOMAIN NewRenderer /\ SetUp(r, NoCodec, drm)
  BY <1>2 DEF Sane, Works, Owns, RendererTyped
<1>5. state \in {"DISABLED", "RELEASED"}
  OBVIOUS
<1> HIDE DEF state
<1>6. /\ DOMAIN q = DOMAIN r /\ q.state = state /\ q.format = NoFormat
      /\ ~q.openedDrmSession /\ q.openedDrmSession \in BOOLEAN
      /\ \A g \in DOMAIN r \ {"state", "format", "openedDrmSession"} : q[g] = r[g]
  BY <1>4, FieldsOf
<1> HIDE DEF q
<1>7. RendererTyped(q)
  BY <1>4, <1>5, <1>6, FieldsOf DEF RendererTyped
<1>8. /\ q.input = r.input /\ q.output = r.output /\ q.reconfigured = r.reconfigured
      /\ q.reconfiguration = r.reconfiguration
      /\ q.waitingForKeys = renderer.waitingForKeys /\ q.holder = renderer.holder
  BY <1>1, <1>2, <1>4, <1>6, FieldsOf DEF Changed
<1>9. Manager(drm) /\ drm.openCount \in Nat
      /\ drm.openCount = (IF renderer.openedDrmSession THEN 1 ELSE 0)
                         + (IF other THEN 1 ELSE 0)
  BY <1>1 DEF Owns, Manager, IsManager
<1>10. Manager(drm') /\ drm'.openCount = (IF other THEN 1 ELSE 0)
  <2>1. CASE renderer.openedDrmSession
    <3>1. drm' \in close(drm) /\ drm.openCount > 0
      BY <1>3, <1>9, <2>1
    <3> PICK d \in close(drm) : drm' = d
      BY <3>1
    <3>2. Manager(d) /\ d.openCount = drm.openCount - 1
      BY <1>9, <3>1, CloseManaged
    <3> QED
      BY <1>9, <2>1, <3>2
  <2>2. CASE ~renderer.openedDrmSession
    BY <1>3, <1>9, <2>2
  <2> QED
    BY <2>1, <2>2
<1> PICK d : d = drm'
  OBVIOUS
<1>11. Owns(q, d)
  <2>1. d.openCount = (IF q.openedDrmSession THEN 1 ELSE 0) + (IF other THEN 1 ELSE 0)
    BY <1>6, <1>9, <1>10
  <2>2. q.waitingForKeys => device.protected /\ q.holder \in Frames
    BY <1>1, <1>8 DEF Owns
  <2> QED
    BY <1>6, <1>7, <1>10, <2>1, <2>2 DEF Owns
<1>12. Works(q, NoCodec, d)
  BY <1>4, <1>8, <1>11, EmptyWorks DEF SetUp, Empty
<1>13. Works(renderer, codec, drm)'
  BY <1>2, <1>3, <1>12, WorksPrimed
<1>14. SourceTyped(source')
  BY <1>1, <1>3
<1>15. Follows(q, NoCodec, source)
  <2>1. renderer.waitingForKeys => ~source.discontinuity
    BY <1>1 DEF Follows
  <2> QED
    BY <1>5, <1>6, <1>8, <2>1, FollowsFresh, NoCodecIs
<1>16. Follows(q, NoCodec, source')
  BY <1>3, <1>15
<1>17. other' \in BOOLEAN /\ (other' => device.protected)
  BY <1>3 DEF IInv
<1> QED
  BY <1>2, <1>3, <1>13, <1>14, <1>16, <1>17, NoCodecIs, Settled

LEMMA SurfaceKeeps ==
  ASSUME IInv, NEW surface \in BOOLEAN, setSurface(surface)
  PROVE  IInv' /\ Given
<1> DEFINE w == [World EXCEPT !.renderer.surface = surface]
           q == [renderer EXCEPT !.surface = surface]
<1>1. /\ Sane(World) /\ RendererTyped(renderer) /\ DOMAIN renderer = DOMAIN NewRenderer
      /\ SourceTyped(source) /\ Follows(renderer, codec, source)
      /\ Owns(renderer, drm) /\ SetUp(renderer, codec, drm) /\ device.protected \in BOOLEAN
  BY Begun
<1>2. /\ IsWorld(w) /\ w.codec = codec /\ w.drm = drm /\ w.renderer = q
  BY DEF World, IsWorld
<1>3. /\ UNCHANGED <<device, source, other>> /\ phase = "idle" /\ ~renderer.failed
      /\ \/ /\ renderer.state \in {"ENABLED", "STARTED"}
            /\ \E v \in maybeInitCodec(releaseCodec(w)) : Leaves(v, "idle")
         \/ renderer.state \notin {"ENABLED", "STARTED"} /\ Leaves(w, "idle")
  BY DEF setSurface, Idle
<1> HIDE DEF w
<1>4. /\ DOMAIN q = DOMAIN renderer /\ q.surface \in BOOLEAN
      /\ \A g \in DOMAIN renderer \ {"surface"} : q[g] = renderer[g]
  BY <1>1, FieldsOf
<1> HIDE DEF q
<1>5. RendererTyped(q)
  BY <1>1, <1>4, FieldsOf DEF RendererTyped
<1>6. /\ q.state = renderer.state /\ q.openedDrmSession = renderer.openedDrmSession
      /\ q.format = renderer.format /\ q.waitingForKeys = renderer.waitingForKeys
      /\ q.holder = renderer.holder /\ q.input = renderer.input
      /\ q.output = renderer.output /\ q.reconfigured = renderer.reconfigured
      /\ q.reconfiguration = renderer.reconfiguration /\ q.failed = renderer.failed
  BY <1>1, <1>4, FieldsOf
<1>7. Owns(q, drm) /\ (codec = NoCodec => Empty(q))
  BY <1>1, <1>5, <1>6, StillOwns DEF SetUp, Empty
<1>8. /\ renderer.state \in {"ENABLED", "STARTED"} => source.announced = renderer.format
      /\ renderer.waitingForKeys => ~source.discontinuity
  BY <1>1 DEF Follows
<1>9. SourceTyped(source')
  BY <1>1, <1>3
<1>10. ASSUME renderer.state \in {"ENABLED", "STARTED"},
              NEW v \in maybeInitCodec(releaseCodec(w)), Leaves(v, "idle")
       PROVE  IInv' /\ Given
  <2> DEFINE b == releaseCodec(w)
  <2>1. /\ Sane(b) /\ b.codec = NoCodec /\ b.drm = drm
        /\ Changed(q, b.renderer, {"input", "output", "decodeOnly", "reconfigured",
                                   "reconfiguration"})
    BY <1>2, <1>7, ReleasedCodec
  <2>2. v \in maybeInitCodec(b)
    BY <1>10
  <2> HIDE DEF b
  <2>3. /\ Sane(v) /\ v.codec.queue = <<>> /\ Changed(b.renderer, v.renderer, Anew)
        /\ v.codec # NoCodec /\ ~v.renderer.failed => v.renderer.waitingForFirstSyncFrame
    BY <1>1, <2>1, <2>2, InitWorks
  <2>4. /\ v.renderer.state = renderer.state /\ v.renderer.format = renderer.format
        /\ v.renderer.waitingForKeys = renderer.waitingForKeys
    BY <1>1, <1>4, <1>6, <2>1, <2>3, FieldsOf DEF Changed, Anew
  <2>5. Follows(v.renderer, v.codec, source)
    BY <1>8, <2>3, <2>4, FollowsFresh
  <2>6. Follows(v.renderer, v.codec, source')
    BY <1>3, <2>5
  <2>7. IInv'
    BY <1>3, <1>9, <1>10, <2>3, <2>4, <2>6, Kept
  <2>8. codec'.queue = <<>>
    BY <1>10, <2>3 DEF Leaves
  <2> QED
    BY <2>7, <2>8, NotGiven
<1>11. ASSUME renderer.state \notin {"ENABLED", "STARTED"}, Leaves(w, "idle")
       PROVE  IInv' /\ Given
  <2>1. codec = NoCodec
    BY <1>1, <1>11, DisabledIs DEF RendererTyped
  <2>2. renderer' = q /\ codec' = codec /\ drm' = drm /\ phase' = phase
    BY <1>2, <1>3, <1>11 DEF Leaves
  <2>3. Works(q, codec, drm)
    BY <1>7, <2>1, EmptyWorks
  <2>4. Works(renderer, codec, drm)'
    BY <1>3, <2>2, <2>3, WorksPrimed
  <2>5. Follows(q, codec, source)
    BY <1>6, <1>8, <2>1, FollowsFresh, NoCodecIs
  <2>6. Follows(renderer', codec', source')
    BY <1>3, <2>2, <2>5
  <2>7. other' \in BOOLEAN /\ (other' => device.protected)
    BY <1>3 DEF IInv
  <2> QED
    BY <1>3, <1>9, <2>2, <2>4, <2>6, <2>7, Settled
<1> QED
  BY <1>3, <1>10, <1>11

(* What others do with the session.                                        *)
LEMMA SessionKeeps ==
  ASSUME IInv, phase = "idle", UNCHANGED <<device, renderer, codec, source, phase>>,
         other' \in BOOLEAN, other' => device.protected,
         NEW d, Manager(d), drm' = d,
         d.openCount = (IF renderer.openedDrmSession THEN 1 ELSE 0)
                       + (IF other' THEN 1 ELSE 0),
         renderer.openedDrmSession /\ drm.hasSession => d.hasSession
  PROVE  IInv' /\ Given
<1>1. /\ Owns(renderer, drm) /\ SetUp(renderer, codec, drm) /\ CodecTyped(codec)
      /\ Holds(renderer) /\ Formatted(renderer, codec) /\ SourceTyped(source)
      /\ Follows(renderer, codec, source)
      /\ (renderer.output # NoBuffer => Passes(renderer.output))
  BY Begun DEF IInv, Works
<1>2. Owns(renderer, drm)'
  BY <1>1 DEF Owns
<1>3. SetUp(renderer, codec, drm)'
  BY <1>1 DEF SetUp
<1>4. CodecTyped(codec)' /\ (renderer.output # NoBuffer => Passes(renderer.output))'
  BY <1>1
<1>5. Holds(renderer)' /\ Formatted(renderer, codec)'
  BY <1>1
<1>6. Works(renderer, codec, drm)'
  BY <1>2, <1>3, <1>4, <1>5 DEF Works
<1>7. SourceTyped(source')
  BY <1>1
<1>8. Follows(renderer', codec', source')
  BY <1>1
<1> QED
  BY <1>6, <1>7, <1>8, Settled

LEMMA CountIs ==
  ASSUME IInv
  PROVE  /\ Manager(drm) /\ drm.openCount \in Nat /\ other \in BOOLEAN
         /\ drm.openCount = (IF renderer.openedDrmSession THEN 1 ELSE 0)
                            + (IF other THEN 1 ELSE 0)
         /\ other => device.protected
BY Begun DEF IInv, Owns, Manager, IsManager

LEMMA OthersKeep ==
  ASSUME IInv, OtherOpens \/ OtherCloses
  PROVE  IInv' /\ Given
<1>1. /\ Manager(drm) /\ drm.openCount \in Nat /\ other \in BOOLEAN
      /\ drm.openCount = (IF renderer.openedDrmSession THEN 1 ELSE 0)
                         + (IF other THEN 1 ELSE 0)
  BY CountIs
<1>2. CASE OtherOpens
  <2> PICK d \in open(drm) : drm' = d
    BY <1>2 DEF OtherOpens
  <2>1. /\ Manager(d) /\ d.openCount = drm.openCount + 1
        /\ (drm.hasSession => d.hasSession)
    BY <1>1, OpenManaged
  <2>2. /\ UNCHANGED <<device, renderer, codec, source, phase>> /\ phase = "idle"
        /\ other' \in BOOLEAN /\ other' /\ ~other /\ device.protected
    BY <1>2 DEF OtherOpens, Idle
  <2>3. d.openCount = (IF renderer.openedDrmSession THEN 1 ELSE 0)
                      + (IF other' THEN 1 ELSE 0)
    BY <1>1, <2>1, <2>2
  <2> QED
    BY <2>1, <2>2, <2>3, SessionKeeps
<1>3. CASE OtherCloses
  <2> PICK d \in close(drm) : drm' = d
    BY <1>3 DEF OtherCloses
  <2>1. /\ UNCHANGED <<device, renderer, codec, source, phase>> /\ phase = "idle"
        /\ other' \in BOOLEAN /\ ~other' /\ other
    BY <1>3 DEF OtherCloses, Idle
  <2>2. /\ Manager(d) /\ d.openCount = drm.openCount - 1
        /\ (drm.openCount > 1 => d.hasSession = drm.hasSession)
    BY <1>1, <2>1, CloseManaged
  <2>3. d.openCount = (IF renderer.openedDrmSession THEN 1 ELSE 0)
                      + (IF other' THEN 1 ELSE 0)
    BY <1>1, <2>1, <2>2
  <2>4. renderer.openedDrmSession /\ drm.hasSession => d.hasSession
    <3>1. renderer.openedDrmSession => drm.openCount > 1
      BY <1>1, <2>1
    <3> QED
      BY <2>2, <3>1
  <2> QED
    BY <2>1, <2>2, <2>3, <2>4, SessionKeeps
<1> QED
  BY <1>2, <1>3

LEMMA ManagerKeeps ==
  ASSUME IInv, Messages \/ Drm
  PROVE  IInv' /\ Given
<1>1. /\ Manager(drm) /\ drm.openCount \in Nat /\ other \in BOOLEAN
      /\ drm.openCount = (IF renderer.openedDrmSession THEN 1 ELSE 0)
                         + (IF other THEN 1 ELSE 0)
      /\ other => device.protected
  BY CountIs
<1>2. /\ handleMessage \/ Answer \/ AnswerLate \/ onEvent
      /\ UNCHANGED <<device, renderer, codec, source, phase, other>> /\ phase = "idle"
  BY DEF Messages, Drm, Idle
<1>3. Serves(drm, drm')
  BY <1>1, <1>2, DrmManaged, MessageManaged
<1> PICK d : d = drm'
  OBVIOUS
<1>4. /\ Manager(d) /\ d.openCount = drm.openCount /\ (drm.hasSession => d.hasSession)
  BY <1>3 DEF Serves
<1>5. /\ other' \in BOOLEAN /\ (other' => device.protected)
      /\ d.openCount = (IF renderer.openedDrmSession THEN 1 ELSE 0)
                       + (IF other' THEN 1 ELSE 0)
  BY <1>1, <1>2, <1>4
<1> QED
  BY <1>2, <1>4, <1>5, SessionKeeps

-----------------------------------------------------------------------------
(* The decoder.                                                            *)

LEMMA ConfigIs ==
  ASSUME NEW b \in Buffer
  PROVE  b.config \in Formats \cup {NoFormat}
BY DEF Buffer

(* It takes the first buffer, with the configuration data that is in it.   *)
LEMMA DecodedWorks ==
  ASSUME NEW r, NEW c, NEW e, NEW d, Works(r, c, d), c.queue # <<>>,
         DOMAIN e = DOMAIN c, e.configured = c.configured, e.crypto = c.crypto,
         e.begun \in BOOLEAN, e.queue = Tail(c.queue),
         e.current = IF Head(c.queue).config = NoFormat THEN c.current
                     ELSE Head(c.queue).config,
         e.outputs \in {c.outputs, Append(c.outputs, Head(c.queue))}
  PROVE  Works(r, e, d) /\ e # NoCodec
<1> DEFINE b == Head(c.queue)
           n == Len(c.queue)
<1>1. /\ RendererTyped(r) /\ CodecTyped(c) /\ Owns(r, d) /\ SetUp(r, c, d) /\ Holds(r)
      /\ Formatted(r, c) /\ (r.output # NoBuffer => Passes(r.output))
  BY DEF Works, Owns
<1>2. /\ c.queue \in Seq(Buffer) /\ n \in Nat \ {0} /\ b = c.queue[1]
      /\ DOMAIN c.queue = 1..n /\ Len(e.queue) = n - 1 /\ DOMAIN e.queue = 1..n - 1
      /\ \A i \in 1..n - 1 : e.queue[i] = c.queue[i + 1]
      /\ e.queue \in Seq(Buffer) /\ b \in Buffer
  BY <1>1 DEF CodecTyped
<1>3. c # NoCodec /\ e # NoCodec
  BY <1>1, NoCodecIs, Buffers DEF SetUp
<1>4. b.config \in Formats \cup {NoFormat} /\ Passes(b)
  <2>1. Passes(b)
    BY <1>1, <1>2 DEF CodecTyped
  <2> QED
    BY <1>2, <2>1, ConfigIs
<1>5. \A i \in 0..n - 1 : Taken(e, i) = Taken(c, i + 1)
  BY <1>2, TakenTaken
<1> HIDE DEF b, n
<1>6. e.outputs \in Seq(Buffer) /\ \A i \in DOMAIN e.outputs : Passes(e.outputs[i])
  <2>1. CASE e.outputs = c.outputs
    BY <1>1, <2>1 DEF CodecTyped
  <2>2. CASE e.outputs = Append(c.outputs, b)
    BY <1>1, <1>2, <1>4, <2>2 DEF CodecTyped
  <2> QED
    BY <2>1, <2>2 DEF b
<1>7. CodecTyped(e)
  <2>1. \A i \in 1..n - 1 : Passes(e.queue[i])
    <3> SUFFICES ASSUME NEW i \in 1..n - 1 PROVE Passes(e.queue[i])
      OBVIOUS
    <3>1. i + 1 \in 1..n /\ e.queue[i] = c.queue[i + 1]
      BY <1>2
    <3> QED
      BY <1>1, <1>2, <3>1 DEF CodecTyped
  <2>2. e.current \in Formats \cup {NoFormat}
    BY <1>1, <1>4 DEF CodecTyped, b
  <2> QED
    BY <1>1, <1>2, <1>6, <2>1, <2>2 DEF CodecTyped
<1>8. SetUp(r, e, d)
  BY <1>1, <1>3 DEF SetUp
<1>9. Formatted(r, e)
  <2>1. \A i \in DOMAIN e.queue :
          Len(e.queue[i].data) = 1 => Samples[e.queue[i].data[1]].format = Taken(e, i)
    <3> SUFFICES ASSUME NEW i \in 1..n - 1, Len(e.queue[i].data) = 1
                 PROVE  Samples[e.queue[i].data[1]].format = Taken(e, i)
      BY <1>2
    <3>1. i + 1 \in 1..n /\ e.queue[i] = c.queue[i + 1] /\ i \in 0..n - 1
      BY <1>2
    <3>2. Samples[c.queue[i + 1].data[1]].format = Taken(c, i + 1)
      BY <1>1, <1>2, <3>1 DEF Formatted
    <3> QED
      BY <1>5, <3>1, <3>2
  <2>2. ~r.reconfigured =>
          /\ e.configured = r.format /\ e.current = r.format
          /\ \A i \in DOMAIN e.queue : e.queue[i].config = NoFormat
          /\ r.reconfiguration = "NONE"
    <3> SUFFICES ASSUME ~r.reconfigured
                 PROVE  /\ e.configured = r.format /\ e.current = r.format
                        /\ \A i \in DOMAIN e.queue : e.queue[i].config = NoFormat
                        /\ r.reconfiguration = "NONE"
      OBVIOUS
    <3>1. /\ c.configured = r.format /\ c.current = r.format
          /\ \A i \in 1..n : c.queue[i].config = NoFormat
          /\ r.reconfiguration = "NONE"
      BY <1>1, <1>2, <1>3 DEF Formatted
    <3>2. \A i \in 1..n - 1 : e.queue[i].config = NoFormat
      <4> SUFFICES ASSUME NEW i \in 1..n - 1 PROVE e.queue[i].config = NoFormat
        OBVIOUS
      <4>1. i + 1 \in 1..n /\ e.queue[i] = c.queue[i + 1]
        BY <1>2
      <4> QED
        BY <3>1, <4>1
    <3>3. b.config = NoFormat
      BY <1>2, <3>1
    <3> QED
      BY <1>2, <3>1, <3>2, <3>3 DEF b
  <2>3. r.reconfiguration = "NONE" => Taken(e, Len(e.queue)) = r.format
    <3>1. Taken(e, n - 1) = Taken(c, n)
      BY <1>2, <1>5
    <3> QED
      BY <1>1, <1>2, <1>3, <3>1 DEF Formatted, n
  <2> QED
    BY <1>1, <2>1, <2>2, <2>3 DEF Formatted
<1> QED
  BY <1>1, <1>3, <1>7, <1>8, <1>9 DEF Works

LEMMA DecodeKeeps ==
  ASSUME IInv, Decode
  PROVE  IInv' /\ Given
<1> DEFINE b == Head(codec.queue)
           IsFrame == b.data # <<>>
           e == [codec EXCEPT
                   !.queue = Tail(@),
                   !.current = IF b.config = NoFormat THEN @ ELSE b.config,
                   !.begun = @ \/ b.time > 0,
                   !.outputs = IF IsFrame \/ b = EndOfStream THEN Append(@, b) ELSE @]
<1>1. /\ CodecTyped(codec) /\ SourceTyped(source) /\ Follows(renderer, codec, source)
      /\ Works(renderer, codec, drm) /\ codec.queue \in Seq(Buffer)
      /\ DOMAIN codec = DOMAIN NoCodec
  BY Begun DEF IInv, CodecTyped
<1>2. /\ codec.queue # <<>> /\ codec' = e
      /\ UNCHANGED <<device, renderer, source, phase, other, drm>>
  BY DEF Decode
<1>3. /\ DOMAIN e = DOMAIN codec /\ e.configured = codec.configured
      /\ e.crypto = codec.crypto /\ e.queue = Tail(codec.queue)
      /\ e.begun = (codec.begun \/ b.time > 0)
      /\ e.current = IF b.config = NoFormat THEN codec.current ELSE b.config
      /\ e.outputs \in {codec.outputs, Append(codec.outputs, b)}
  BY <1>1, NoCodecIs
<1> HIDE DEF e
<1>4. /\ b \in Buffer /\ b = codec.queue[1] /\ Passes(b)
      /\ Len(codec.queue) \in Nat \ {0} /\ DOMAIN codec.queue = 1..Len(codec.queue)
      /\ Len(e.queue) = Len(codec.queue) - 1
      /\ \A i \in 1..Len(e.queue) : e.queue[i] = codec.queue[i + 1]
      /\ DOMAIN e.queue = 1..Len(e.queue)
  BY <1>1, <1>2, <1>3 DEF CodecTyped
<1>5. e.begun \in BOOLEAN /\ (codec.begun => e.begun) /\ (b.time \in Frames => e.begun)
  <2>1. b.time \in Frames => b.time > 0
    BY FramesAre
  <2> QED
    BY <1>1, <1>3, <2>1 DEF CodecTyped
<1>6. Works(renderer, e, drm) /\ e # NoCodec
  BY <1>1, <1>2, <1>3, <1>5, DecodedWorks
<1>7. Works(renderer, codec, drm)'
  BY <1>2, <1>6, WorksPrimed
<1>8. codec # NoCodec
  BY <1>2, NoCodecIs
<1> HIDE DEF b
<1>9. ASSUME ~device.protected PROVE EndIsLast(renderer, e, source)
  <2>1. EndIsLast(renderer, codec, source)
    BY <1>1, <1>9 DEF Follows
  <2>2. \A i \in 1..Len(e.queue) : e.queue[i] = EndOfStream => i = Len(e.queue)
    <3> SUFFICES ASSUME NEW i \in 1..Len(e.queue), e.queue[i] = EndOfStream
                 PROVE  i = Len(e.queue)
      OBVIOUS
    <3>1. i + 1 \in 1..Len(codec.queue) /\ codec.queue[i + 1] = EndOfStream
      BY <1>4
    <3>2. i + 1 = Len(codec.queue)
      BY <1>4, <2>1, <3>1 DEF EndIsLast
    <3> QED
      BY <1>4, <3>2
  <2>3. EndOfStream \in ToSet(e.queue) => EndOfStream \in ToSet(codec.queue)
    <3> SUFFICES ASSUME EndOfStream \in ToSet(e.queue)
                 PROVE  EndOfStream \in ToSet(codec.queue)
      OBVIOUS
    <3> PICK i \in 1..Len(e.queue) : e.queue[i] = EndOfStream
      BY <1>4 DEF ToSet
    <3>1. i + 1 \in 1..Len(codec.queue) /\ codec.queue[i + 1] = EndOfStream
      BY <1>4
    <3> QED
      BY <1>4, <3>1 DEF ToSet
  <2> QED
    BY <1>4, <2>1, <2>2, <2>3 DEF EndIsLast
<1>10. ASSUME ~device.protected, ~e.begun PROVE b = EndOfStream
  BY <1>4, <1>5, <1>10 DEF Passes
<1>11. ASSUME ~device.protected PROVE BeginsInSync(renderer, e, source)
  <2>1. EndIsLast(renderer, codec, source)
    BY <1>1, <1>11 DEF Follows
  <2>2. ASSUME ~e.begun PROVE e.queue = <<>> /\ (source.discontinuity
                                                   \/ source.next \notin Frames)
    <3>1. codec.queue[1] = EndOfStream /\ 1 \in DOMAIN codec.queue
      BY <1>4, <1>10, <1>11, <2>2
    <3>2. Len(codec.queue) = 1
      BY <2>1, <3>1 DEF EndIsLast
    <3>3. EndOfStream \in ToSet(codec.queue)
      BY <3>1 DEF ToSet
    <3>4. e.queue = <<>>
      <4>1. e.queue \in Seq(Buffer) /\ Len(e.queue) = 0
        BY <1>1, <1>2, <1>3, <1>4, <3>2
      <4> QED
        BY <4>1
    <3> QED
      BY <2>1, <3>3, <3>4 DEF EndIsLast
  <2> QED
    BY <2>2 DEF BeginsInSync
<1>12. Follows(renderer, e, source)
  BY <1>1, <1>9, <1>11 DEF Follows
<1>13. IInv'
  <2>1. Follows(renderer, codec, source)'
    BY <1>2, <1>12 DEF Follows, EndIsLast, BeginsInSync
  <2>2. SourceTyped(source)'
    BY <1>1, <1>2
  <2>3. (codec # NoCodec)'
    BY <1>2, <1>6
  <2> QED
    BY <1>2, <1>7, <1>8, <2>1, <2>2, <2>3 DEF IInv
<1>14. Given
  BY <1>1, <1>2, <1>4 DEF Given
<1> QED
  BY <1>13, <1>14

-----------------------------------------------------------------------------
(* The theorems.                                                           *)

LEMMA InitIInv ==
  ASSUME Init
  PROVE  IInv
<1>1. /\ renderer = NewRenderer /\ codec = NoCodec /\ drm = NewManager
      /\ source = NewSource /\ device \in Devices /\ phase = "idle"
      /\ other \in BOOLEAN /\ ~other
  BY DEF Init
<1>2. Manager(drm) /\ drm.openCount = 0
  <2>1. <<>> \in Seq(Requests)
    OBVIOUS
  <2>2. /\ DOMAIN NewManager = {"openCount", "state", "hasSession", "requests", "late",
                                "inbox"}
        /\ NewManager.openCount = 0 /\ NewManager.state = "CLOSED"
        /\ NewManager.hasSession \in BOOLEAN /\ ~NewManager.hasSession
        /\ NewManager.requests = <<>> /\ NewManager.inbox = <<>> /\ NewManager.late = <<>>
    BY DEF NewManager
  <2> QED
    BY <1>1, <2>1, <2>2, NothingManaged
<1>3. /\ NewRenderer.state = "DISABLED" /\ NewRenderer.format = NoFormat
      /\ NewRenderer.input = NoBuffer /\ NewRenderer.output = NoBuffer
      /\ NewRenderer.holder = 0 /\ NewRenderer.shown = 0
      /\ NewRenderer.reconfiguration = "NONE" /\ NewRenderer.decodeOnly = {}
      /\ ~NewRenderer.openedDrmSession /\ ~NewRenderer.waitingForKeys
      /\ ~NewRenderer.reconfigured
  BY DEF NewRenderer
<1>4. RendererTyped(renderer)
  BY <1>1 DEF RendererTyped, NewRenderer
<1>5. Owns(renderer, drm)
  BY <1>1, <1>2, <1>3, <1>4 DEF Owns
<1>6. Works(renderer, codec, drm)
  BY <1>1, <1>3, <1>5, EmptyWorks DEF Empty
<1>7. SourceTyped(source) /\ source.announced = NoFormat /\ ~source.discontinuity
  BY <1>1, FramesAre DEF SourceTyped, NewSource
<1>8. Follows(renderer, codec, source)
  BY <1>1, <1>3, <1>7, FollowsFresh, NoCodecIs
<1> QED
  BY <1>1, <1>6, <1>7, <1>8 DEF IInv

LEMMA StutterKeeps ==
  ASSUME IInv, UNCHANGED vars
  PROVE  IInv' /\ Given
<1>1. /\ UNCHANGED <<device, renderer, codec, source, phase, other>> /\ drm' = drm
  BY DEF vars
<1>2. Works(renderer, codec, drm)'
  BY <1>1, WorksPrimed DEF IInv
<1>3. Follows(renderer, codec, source)'
  BY <1>1 DEF IInv, Follows, EndIsLast, BeginsInSync
<1>4. IInv'
  BY <1>1, <1>2, <1>3 DEF IInv
<1> QED
  BY <1>1, <1>4, NotGiven

LEMMA NextKeeps ==
  ASSUME IInv, [Next]_vars
  PROVE  IInv' /\ Given
<1>1. CASE doSomeWork
  BY <1>1, DoSomeWorkKeeps
<1>2. CASE drainOutputBuffer
  BY <1>2, DrainKeeps
<1>3. CASE feedInputBuffer
  BY <1>3, FeedKeeps
<1>4. ASSUME NEW t \in SeekTimes, Enable(t) \/ seekTo(t)
      PROVE  IInv' /\ Given
  BY <1>4, EnableKeeps, SeekKeeps
<1>5. CASE Start
  BY <1>5, StateKeeps DEF Start, Idle
<1>6. CASE Stop
  BY <1>6, StateKeeps DEF Stop, Idle
<1>7. CASE Disable
  BY <1>7, DisableKeeps
<1>8. CASE Release
  BY <1>8, StateKeeps DEF Release, Idle
<1>9. ASSUME NEW surface \in BOOLEAN, setSurface(surface)
      PROVE  IInv' /\ Given
  BY <1>9, SurfaceKeeps
<1>10. CASE OtherOpens \/ OtherCloses
  BY <1>10, OthersKeep
<1>11. CASE Messages \/ Drm
  BY <1>11, ManagerKeeps
<1>12. CASE Decode
  BY <1>12, DecodeKeeps
<1>13. CASE Quiet \/ UNCHANGED vars
  BY <1>13, StutterKeeps DEF Quiet
<1> QED
  BY <1>1, <1>2, <1>3, <1>4, <1>5, <1>6, <1>7, <1>8, <1>9, <1>10, <1>11, <1>12, <1>13
     DEF Next

(* The renderer, its decoder and the session go together, whatever the     *)
(* source and the decoder's threads do between the calls.                  *)
LEMMA Inductive == Spec => []IInv
<1>1. Init => IInv
  BY InitIInv
<1>2. IInv /\ [Next]_vars => IInv'
  BY NextKeeps
<1> QED
  BY <1>1, <1>2, PTL DEF Spec

(* MediaCodecTrackRenderer.TypeOK: the fields of the renderer, the decoder,*)
(* the session and the source have their types.                            *)
THEOREM CodecTypes == Spec => []TypeOK
<1>1. IInv => TypeOK
  <2> SUFFICES ASSUME IInv PROVE TypeOK
    OBVIOUS
  <2>1. /\ RendererTyped(renderer) /\ CodecTyped(codec) /\ Manager(drm)
        /\ SourceTyped(source)
    BY Begun
  <2>2. source \in [next : Nat, announced : Formats \cup {NoFormat},
                    discontinuity : BOOLEAN, wanted : Frames, early : Nat]
    BY <2>1, FramesAre DEF SourceTyped
  <2> QED
    BY <2>1, <2>2 DEF TypeOK, IInv, RendererTyped, CodecTyped, Manager
<1> QED
  BY <1>1, Inductive, PTL

(* The session is open as long as a renderer uses it and no longer, and a  *)
(* request that may bring what it waits for is always under way            *)
(* (StreamingDrmSessionManager.open, close and the handlers of answers).   *)
THEOREM SessionServes == Spec => []SessionServesItsUsers
<1>1. IInv => SessionServesItsUsers
  <2> SUFFICES ASSUME IInv PROVE SessionServesItsUsers
    OBVIOUS
  <2>1. /\ Owns(renderer, drm) /\ SetUp(renderer, codec, drm) /\ Manager(drm)
    BY Begun
  <2>2. KeysAreOnTheirWay
    BY <2>1 DEF KeysAreOnTheirWay, Manager, Fetches, OnTheWay
  <2>3. codec.crypto => renderer.openedDrmSession /\ drm.hasSession
    BY <2>1, NoCodecIs DEF SetUp
  <2>4. renderer.state \in {"DISABLED", "RELEASED"} =>
          codec = NoCodec /\ ~renderer.openedDrmSession
    BY DisabledIs
  <2>5. ClosedWhenUnused
    BY <2>1, <2>3, <2>4 DEF ClosedWhenUnused, Owns, Manager, ClosedIf
  <2> QED
    BY <2>2, <2>5 DEF SessionServesItsUsers
<1> QED
  BY <1>1, Inductive, PTL

(* No sample goes to a decoder that is set up for another format, a new or *)
(* flushed decoder begins with a sync frame, and the loops of doSomeWork   *)
(* have a decoder (feedInputBuffer, onInputFormatChanged, flushCodec).     *)
THEOREM DecoderGetsItsFormat == Spec => []DecodesInFormat
<1>1. IInv => DecodesInFormat
  <2> SUFFICES ASSUME IInv PROVE DecodesInFormat
    OBVIOUS
  <2>1. Formatted(renderer, codec) /\ Follows(renderer, codec, source)
    BY Begun
  <2>2. \A i : TakenAs(i) = Taken(codec, i)
    BY DEF TakenAs, Taken
  <2>3. phase # "idle" => codec # NoCodec
    BY DEF IInv
  <2>4. \A i \in DOMAIN codec.queue :
          Len(codec.queue[i].data) = 1 =>
            Samples[codec.queue[i].data[1]].format = TakenAs(i)
    BY <2>1, <2>2 DEF Formatted
  <2>5. ~device.protected /\ ~codec.begun /\ codec.queue # <<>> =>
          codec.queue[1] = EndOfStream \/ Samples[codec.queue[1].time].sync
    BY <2>1 DEF Follows, BeginsInSync
  <2> QED
    BY <2>3, <2>4, <2>5 DEF DecodesInFormat
<1> QED
  BY <1>1, Inductive, PTL

(* An encrypted sample goes to the decoder only in a step that finds the   *)
(* keys there and the decoder set up with the session (feedInputBuffer,    *)
(* shouldWaitForKeys).                                                     *)
THEOREM KeysComeFirst == Spec => KeysAreThere
<1>1. IInv /\ [Next]_vars => [Given]_vars
  BY NextKeeps
<1>2. Spec => [][Given]_vars
  BY <1>1, Inductive, PTL DEF Spec
<1>3. [][Given]_vars => KeysAreThere
  BY DEF KeysAreThere, Given
<1> QED
  BY <1>2, <1>3

-----------------------------------------------------------------------------
(* The way of the frames: what the buffers hold, from the source to what   *)
(* is shown.                                                               *)

(* The frames whose bytes are in the buffers of q.                         *)
In(q) == UNION {ToSet(q[i].data) : i \in DOMAIN q}
Below(A, B) == \A x \in A, y \in B : x < y
Rising(data) == \A k, l \in DOMAIN data : k < l => data[k] < data[l]
Sorted(q) ==
  /\ \A i \in DOMAIN q : Rising(q[i].data)
  /\ \A i, j \in DOMAIN q : i < j => Below(ToSet(q[i].data), ToSet(q[j].data))

(* Those a renderer and its decoder hold, in the order they came in.       *)
Ahead(c) == In(c.outputs) \cup In(c.queue)
Inside(r, c) == ToSet(r.output.data) \cup Ahead(c) \cup ToSet(r.input.data)
InOrder(r, c) ==
  /\ Rising(r.output.data) /\ Sorted(c.outputs) /\ Sorted(c.queue) /\ Rising(r.input.data)
  /\ Below(In(c.outputs), In(c.queue))
  /\ Below(ToSet(r.output.data), Ahead(c))
  /\ Below(ToSet(r.output.data) \cup Ahead(c), ToSet(r.input.data))

(* The frames inside are those before the next, but one that may be lost.  *)
NoneLost(X, s) ==
  /\ \A x \in X : x < s.next
  /\ \A x \in X \cup {s.next} :
       (\E y \in X : y < x) => x - 1 \in X \/ (x <= s.wanted /\ Samples[x].sync)

(* A frame comes with its time, and is marked when it is not to be shown.  *)
Dated(b, only, s) ==
  b.data # <<>> =>
    /\ b.time = Last(b.data)
    /\ b.time <= s.early \/ b.time >= s.wanted \/ b.time \in only
AllDated(r, c, s) ==
  /\ Dated(r.output, r.decodeOnly, s)
  /\ \A i \in DOMAIN c.outputs : Dated(c.outputs[i], r.decodeOnly, s)
  /\ \A i \in DOMAIN c.queue : Dated(c.queue[i], r.decodeOnly, s)

(* The decoder puts out frames and the end.                                *)
Shows(b) == b = EndOfStream \/ b.data # <<>>
OnlyFrames(r, c) ==
  /\ r.output # NoBuffer => Shows(r.output)
  /\ \A i \in DOMAIN c.outputs : Shows(c.outputs[i])

(* Shown is what came before all that is inside.                           *)
ShownBefore(r, X, s) ==
  /\ r.shown < s.next /\ \A x \in X : r.shown < x
  /\ r.shown # 0 => r.shown >= s.wanted \/ r.shown <= s.early

(* A decoder that has yet to get a sync frame has none.                    *)
Unfilled(r, c) == r.waitingForFirstSyncFrame => ToSet(r.output.data) \cup Ahead(c) = {}

(* The end follows all frames.                                             *)
Ends(q) == EndOfStream \in ToSet(q)
EndLast(q) == \A i \in DOMAIN q : q[i] = EndOfStream => i = Len(q)
EndComesLast(r, c, s) ==
  /\ EndLast(c.outputs) /\ EndLast(c.queue)
  /\ Ends(c.outputs) => c.queue = <<>>
  /\ r.output = EndOfStream => c.outputs = <<>> /\ c.queue = <<>>
  /\ Ends(c.outputs) \/ Ends(c.queue) \/ r.output = EndOfStream => r.inputStreamEnded
  /\ r.inputStreamEnded => s.next \notin Frames
  /\ r.outputStreamEnded => r.inputStreamEnded /\ c.queue = <<>> /\ c.outputs = <<>>
  /\ r.inputStreamEnded /\ ~r.outputStreamEnded /\ c # NoCodec /\ ~r.failed =>
       \/ Ends(c.outputs) \/ Ends(c.queue) \/ r.output = EndOfStream
       \/ r.waitingForFirstSyncFrame

(* The frames go through in order.                                         *)
Flowing(r, c, s) ==
  /\ InOrder(r, c) /\ NoneLost(Inside(r, c), s) /\ AllDated(r, c, s) /\ OnlyFrames(r, c)
  /\ ShownBefore(r, Inside(r, c), s) /\ Unfilled(r, c) /\ EndComesLast(r, c, s)

(* Only a seek inside what was read leaves a sample in the buffer to read  *)
(* on behind it.                                                           *)
Fed(r, s) ==
  r.input.data # <<>> /\ ~r.waitingForKeys /\ ~r.failed => s.next <= s.wanted
Flows(r, c, s) == Flowing(r, c, s) /\ Fed(r, s)

(* Nothing is in a decoder.                                                *)
Void(r, c) ==
  r.input.data = <<>> /\ r.output = NoBuffer /\ c.outputs = <<>> /\ c.queue = <<>>

(* Until a discontinuity is read nothing is shown: a decoder that is used  *)
(* is empty.                                                               *)
Awaits(r, c, p) ==
  /\ r.shown = 0 /\ ~r.inputStreamEnded /\ ~r.outputStreamEnded
  /\ p # "idle" => Void(r, c)

(* A sample of another format than the one before is a sync frame.         *)
InSync(s) ==
  s.next \in Frames /\ s.announced # Samples[s.next].format => Samples[s.next].sync

Streams(r, c, s, p) ==
  /\ InSync(s)
  /\ IF s.discontinuity THEN Awaits(r, c, p) ELSE Flows(r, c, s)

StreamInv == Streams(renderer, codec, source, phase)
-----------------------------------------------------------------------------
(* What the buffers hold.                                                  *)

LEMMA BufferIs ==
  ASSUME NEW b \in Buffer \cup {NoBuffer}
  PROVE  b.data \in Seq(Frames) /\ ToSet(b.data) \subseteq Frames
<1>1. b.data \in Seq(Frames)
  <2>1. <<>> \in Seq(Frames)
    OBVIOUS
  <2> QED
    BY <2>1, Buffers DEF Buffer
<1> QED
  BY <1>1 DEF ToSet

LEMMA InEmpty == In(<<>>) = {}
<1>1. DOMAIN <<>> = {}
  OBVIOUS
<1> QED
  BY <1>1 DEF In

LEMMA InFrames ==
  ASSUME NEW q \in Seq(Buffer)
  PROVE  In(q) \subseteq Frames
<1>1. \A i \in DOMAIN q : q[i] \in Buffer
  OBVIOUS
<1> QED
  BY <1>1, BufferIs DEF In

LEMMA InAppend ==
  ASSUME NEW q \in Seq(Buffer), NEW b \in Buffer
  PROVE  In(Append(q, b)) = In(q) \cup ToSet(b.data)
<1> DEFINE p == Append(q, b)
           n == Len(q)
<1>1. /\ n \in Nat /\ DOMAIN q = 1..n /\ DOMAIN p = 1..n + 1
      /\ p[n + 1] = b /\ \A i \in 1..n : p[i] = q[i]
  OBVIOUS
<1> HIDE DEF p, n
<1>2. /\ \A i \in 1..n + 1 : i \in 1..n \/ i = n + 1
      /\ n + 1 \in 1..n + 1 /\ \A i \in 1..n : i \in 1..n + 1
  BY <1>1
<1>3. In(p) \subseteq In(q) \cup ToSet(b.data)
  <2> SUFFICES ASSUME NEW i \in DOMAIN p, NEW x \in ToSet(p[i].data)
               PROVE  x \in In(q) \cup ToSet(b.data)
    BY DEF In
  <2>1. CASE i \in 1..n
    BY <1>1, <2>1 DEF In
  <2>2. CASE i = n + 1
    BY <1>1, <2>2
  <2> QED
    BY <1>1, <1>2, <2>1, <2>2
<1>4. In(q) \subseteq In(p)
  <2> SUFFICES ASSUME NEW i \in DOMAIN q, NEW x \in ToSet(q[i].data) PROVE x \in In(p)
    BY DEF In
  <2> QED
    BY <1>1, <1>2 DEF In
<1>5. ToSet(b.data) \subseteq In(p)
  BY <1>1, <1>2 DEF In
<1> QED
  BY <1>3, <1>4, <1>5 DEF p

LEMMA InHead ==
  ASSUME NEW q \in Seq(Buffer), q # <<>>
  PROVE  In(q) = ToSet(Head(q).data) \cup In(Tail(q))
<1> DEFINE p == Tail(q)
           b == Head(q)
           n == Len(q)
<1>1. /\ n \in Nat /\ n > 0 /\ DOMAIN q = 1..n /\ DOMAIN p = 1..n - 1
      /\ q[1] = b /\ \A i \in 1..n - 1 : p[i] = q[i + 1]
  OBVIOUS
<1> HIDE DEF p, b, n
<1>2. /\ \A i \in 1..n : i = 1 \/ (i - 1 \in 1..n - 1 /\ i - 1 + 1 = i)
      /\ 1 \in 1..n /\ \A i \in 1..n - 1 : i + 1 \in 1..n
  BY <1>1
<1>3. In(q) \subseteq ToSet(b.data) \cup In(p)
  <2> SUFFICES ASSUME NEW i \in DOMAIN q, NEW x \in ToSet(q[i].data)
               PROVE  x \in ToSet(b.data) \cup In(p)
    BY DEF In
  <2>1. CASE i = 1
    BY <1>1, <2>1
  <2>2. CASE i # 1
    <3>1. i - 1 \in DOMAIN p /\ p[i - 1] = q[i]
      BY <1>1, <1>2, <2>2
    <3> QED
      BY <3>1 DEF In
  <2> QED
    BY <2>1, <2>2
<1>4. In(p) \subseteq In(q)
  <2> SUFFICES ASSUME NEW i \in DOMAIN p, NEW x \in ToSet(p[i].data) PROVE x \in In(q)
    BY DEF In
  <2>1. i + 1 \in DOMAIN q /\ q[i + 1] = p[i]
    BY <1>1, <1>2
  <2> QED
    BY <2>1 DEF In
<1>5. ToSet(b.data) \subseteq In(q)
  BY <1>1, <1>2 DEF In
<1> QED
  BY <1>3, <1>4, <1>5 DEF p, b

LEMMA SortedAppend ==
  ASSUME NEW q \in Seq(Buffer), NEW b \in Buffer, Sorted(q), Rising(b.data),
         Below(In(q), ToSet(b.data))
  PROVE  Sorted(Append(q, b))
<1> DEFINE p == Append(q, b)
           n == Len(q)
<1>1. /\ n \in Nat /\ DOMAIN q = 1..n /\ DOMAIN p = 1..n + 1
      /\ p[n + 1] = b /\ \A i \in 1..n : p[i] = q[i]
  OBVIOUS
<1> HIDE DEF p, n
<1>2. \A i \in 1..n + 1 : i \in 1..n \/ i = n + 1
  BY <1>1
<1>3. ASSUME NEW i \in DOMAIN p PROVE Rising(p[i].data)
  <2>1. CASE i \in 1..n
    BY <1>1, <2>1 DEF Sorted
  <2>2. CASE i = n + 1
    BY <1>1, <2>2
  <2> QED
    BY <1>1, <1>2, <2>1, <2>2
<1>4. ASSUME NEW i \in DOMAIN p, NEW j \in DOMAIN p, i < j
      PROVE  Below(ToSet(p[i].data), ToSet(p[j].data))
  <2>1. i \in 1..n
    BY <1>1, <1>4
  <2>2. CASE j \in 1..n
    BY <1>1, <1>4, <2>1, <2>2 DEF Sorted
  <2>3. CASE j = n + 1
    <3>1. ToSet(p[i].data) \subseteq In(q) /\ p[j] = b
      BY <1>1, <2>1, <2>3 DEF In
    <3> QED
      BY <3>1 DEF Below
  <2> QED
    BY <1>1, <1>2, <2>2, <2>3
<1>5. Sorted(p)
  BY <1>3, <1>4 DEF Sorted
<1> QED
  BY <1>5 DEF p

LEMMA SortedHead ==
  ASSUME NEW q \in Seq(Buffer), q # <<>>, Sorted(q)
  PROVE  /\ Sorted(Tail(q)) /\ Rising(Head(q).data)
         /\ Below(ToSet(Head(q).data), In(Tail(q)))
<1> DEFINE p == Tail(q)
           b == Head(q)
           n == Len(q)
<1>1. /\ n \in Nat /\ n > 0 /\ DOMAIN q = 1..n /\ DOMAIN p = 1..n - 1
      /\ q[1] = b /\ \A i \in 1..n - 1 : p[i] = q[i + 1]
  OBVIOUS
<1> HIDE DEF p, b, n
<1>2. 1 \in 1..n /\ \A i \in 1..n - 1 : i + 1 \in 1..n /\ 1 < i + 1
  BY <1>1
<1>3. Rising(b.data)
  BY <1>1, <1>2 DEF Sorted
<1>4. Sorted(p)
  <2>1. \A i \in DOMAIN p : Rising(p[i].data)
    BY <1>1, <1>2 DEF Sorted
  <2>2. ASSUME NEW i \in DOMAIN p, NEW j \in DOMAIN p, i < j
        PROVE  Below(ToSet(p[i].data), ToSet(p[j].data))
    <3>1. i + 1 \in 1..n /\ j + 1 \in 1..n /\ i + 1 < j + 1
      BY <1>1, <2>2
    <3> QED
      BY <1>1, <3>1 DEF Sorted
  <2> QED
    BY <2>1, <2>2 DEF Sorted
<1>5. Below(ToSet(b.data), In(p))
  <2> SUFFICES ASSUME NEW i \in DOMAIN p, NEW y \in ToSet(p[i].data), NEW x \in ToSet(b.data)
               PROVE  x < y
    BY DEF Below, In
  <2>1. Below(ToSet(q[1].data), ToSet(q[i + 1].data))
    BY <1>1, <1>2 DEF Sorted
  <2> QED
    BY <1>1, <2>1 DEF Below
<1> QED
  BY <1>3, <1>4, <1>5 DEF p, b

LEMMA RisingAppend ==
  ASSUME NEW data \in Seq(Frames), NEW n \in Frames, Rising(data),
         \A x \in ToSet(data) : x < n
  PROVE  /\ Append(data, n) \in Seq(Frames) /\ Rising(Append(data, n))
         /\ ToSet(Append(data, n)) = ToSet(data) \cup {n}
<1> DEFINE p == Append(data, n)
           m == Len(data)
<1>1. /\ m \in Nat /\ DOMAIN data = 1..m /\ DOMAIN p = 1..m + 1
      /\ p[m + 1] = n /\ (\A i \in 1..m : p[i] = data[i]) /\ p \in Seq(Frames)
  OBVIOUS
<1> HIDE DEF p, m
<1>2. \A i \in 1..m + 1 : i \in 1..m \/ i = m + 1
  BY <1>1
<1>3. ASSUME NEW k \in DOMAIN p, NEW l \in DOMAIN p, k < l
      PROVE  p[k] < p[l]
  <2>1. k \in 1..m
    BY <1>1, <1>3
  <2>2. CASE l \in 1..m
    BY <1>1, <1>3, <2>1, <2>2 DEF Rising
  <2>3. CASE l = m + 1
    BY <1>1, <2>1, <2>3 DEF ToSet
  <2> QED
    BY <1>1, <1>2, <2>2, <2>3
<1>4. ToSet(p) = ToSet(data) \cup {n}
  <2>1. ToSet(p) \subseteq ToSet(data) \cup {n}
    BY <1>1, <1>2 DEF ToSet
  <2>2. ToSet(data) \cup {n} \subseteq ToSet(p)
    <3>1. m + 1 \in 1..m + 1 /\ \A i \in 1..m : i \in 1..m + 1
      BY <1>1
    <3> QED
      BY <1>1, <3>1 DEF ToSet
  <2> QED
    BY <2>1, <2>2
<1> QED
  BY <1>1, <1>3, <1>4 DEF p, Rising

LEMMA LastIs ==
  ASSUME NEW data \in Seq(Frames), data # <<>>, Rising(data)
  PROVE  Last(data) \in ToSet(data) /\ \A x \in ToSet(data) : x <= Last(data)
<1>1. Len(data) \in DOMAIN data /\ \A i \in DOMAIN data : i < Len(data) \/ i = Len(data)
  OBVIOUS
<1>2. \A i \in DOMAIN data : data[i] \in Int
  BY FramesAre
<1> QED
  BY <1>1, <1>2 DEF Last, ToSet, Rising

LEMMA NoData == ToSet(<<>>) = {} /\ Rising(<<>>)
<1>1. DOMAIN <<>> = {}
  OBVIOUS
<1> QED
  BY <1>1 DEF ToSet, Rising

-----------------------------------------------------------------------------
(* None are lost.                                                          *)

LEMMA NoneOfNone ==
  ASSUME NEW s
  PROVE  NoneLost({}, s)
BY DEF NoneLost

LEMMA NoneLostNext ==
  ASSUME NEW X \in SUBSET Frames, NEW s, NEW z, NoneLost(X, s), s.next \in Frames,
         z.next = s.next + 1, z.wanted = s.wanted
  PROVE  NoneLost(X \cup {s.next}, z)
<1> PICK n \in Frames : n = s.next
  OBVIOUS
<1>1. Frames \subseteq Int
  BY FramesAre
<1>2. \A x \in X : x < n
  BY DEF NoneLost
<1>3. \A x \in X \cup {n} : x < z.next
  BY <1>1, <1>2
<1>4. ASSUME NEW x \in X \cup {n} \cup {n + 1}, NEW y \in X \cup {n}, y < x
      PROVE  x - 1 \in X \cup {n} \/ (x <= z.wanted /\ Samples[x].sync)
  <2>1. CASE x = n + 1
    BY <1>1, <2>1
  <2>2. CASE x \in X \cup {n}
    <3>1. y \in X
      BY <1>1, <1>2, <1>4, <2>2
    <3> QED
      BY <1>4, <2>2, <3>1 DEF NoneLost
  <2> QED
    BY <2>1, <2>2
<1> QED
  BY <1>3, <1>4 DEF NoneLost

LEMMA NoneLostRest ==
  ASSUME NEW X \in SUBSET Frames, NEW A, NEW Y, X = A \cup Y, Below(A, Y), NEW s,
         NoneLost(X, s), s.next \in Int, \A x \in X : x < s.next
  PROVE  NoneLost(Y, s)
<1>1. Frames \subseteq Int
  BY FramesAre
<1>2. ASSUME NEW x \in Y \cup {s.next}, NEW y \in Y, y < x
      PROVE  x - 1 \in Y \/ (x <= s.wanted /\ Samples[x].sync)
  <2>1. x - 1 \in X \/ (x <= s.wanted /\ Samples[x].sync)
    BY <1>2 DEF NoneLost
  <2>2. CASE x - 1 \in A
    <3>1. x - 1 < y
      BY <2>2 DEF Below
    <3>2. x \in Int /\ y \in Int
      BY <1>1
    <3> QED
      BY <1>2, <3>1, <3>2
  <2> QED
    BY <2>1, <2>2
<1> QED
  BY <1>2 DEF NoneLost

LEMMA NoneLostDropped ==
  ASSUME NEW X \in SUBSET Frames, NEW D, NEW Y, X = Y \cup D, Below(Y, D), NEW s,
         NoneLost(X, s), D # {} => s.next <= s.wanted /\ Samples[s.next].sync
  PROVE  NoneLost(Y, s)
<1>1. Frames \subseteq Int
  BY FramesAre
<1>2. ASSUME NEW x \in Y \cup {s.next}, NEW y \in Y, y < x
      PROVE  x - 1 \in Y \/ (x <= s.wanted /\ Samples[x].sync)
  <2>1. x - 1 \in X \/ (x <= s.wanted /\ Samples[x].sync)
    BY <1>2 DEF NoneLost
  <2>2. CASE x - 1 \in D
    <3>1. CASE x \in Y
      <4>1. x < x - 1 /\ x \in Int
        BY <1>1, <2>2, <3>1 DEF Below
      <4> QED
        BY <4>1
    <3>2. CASE x = s.next
      BY <2>2, <3>2
    <3> QED
      BY <3>1, <3>2
  <2> QED
    BY <2>1, <2>2
<1> QED
  BY <1>2 DEF NoneLost

LEMMA NoneLostWanted ==
  ASSUME NEW X \in SUBSET Frames, NEW s, NEW z, NoneLost(X, s), z.next = s.next,
         s.next \in Int, z.wanted \in Int, s.next <= z.wanted
  PROVE  NoneLost(X, z)
<1>1. Frames \subseteq Int
  BY FramesAre
<1>2. \A x \in X \cup {s.next} : x <= z.wanted
  BY <1>1 DEF NoneLost
<1> QED
  BY <1>2 DEF NoneLost

-----------------------------------------------------------------------------
(* How the frames go on.                                                   *)

(* The fields the frames do not depend on.                                 *)
Besides == {"state", "surface", "format", "openedDrmSession", "holder", "reconfigured",
            "reconfiguration", "waitingForKeys"}

LEMMA InsideFrames ==
  ASSUME NEW r, NEW c, RendererTyped(r), CodecTyped(c)
  PROVE  /\ ToSet(r.output.data) \subseteq Frames /\ ToSet(r.input.data) \subseteq Frames
         /\ In(c.outputs) \subseteq Frames /\ In(c.queue) \subseteq Frames
         /\ Ahead(c) \subseteq Frames /\ Inside(r, c) \subseteq Frames
         /\ r.input.data \in Seq(Frames) /\ r.output.data \in Seq(Frames)
<1>1. /\ r.input \in Buffer \cup {NoBuffer} /\ r.output \in Buffer \cup {NoBuffer}
      /\ c.outputs \in Seq(Buffer) /\ c.queue \in Seq(Buffer)
  BY DEF RendererTyped, CodecTyped
<1>2. /\ ToSet(r.output.data) \subseteq Frames /\ ToSet(r.input.data) \subseteq Frames
      /\ In(c.outputs) \subseteq Frames /\ In(c.queue) \subseteq Frames
      /\ r.input.data \in Seq(Frames) /\ r.output.data \in Seq(Frames)
  BY <1>1, BufferIs, InFrames
<1> QED
  BY <1>2 DEF Ahead, Inside

(* What matters stays.                                                     *)
LEMMA Alike ==
  ASSUME NEW r, NEW q, NEW c, NEW s, NEW z, Flowing(r, c, s), RendererTyped(r),
         Changed(r, q, Besides \cup {"input", "failed", "waitingForFirstSyncFrame"}),
         q.input.data = r.input.data, r.failed => q.failed,
         q.waitingForFirstSyncFrame => r.waitingForFirstSyncFrame,
         r.waitingForFirstSyncFrame =>
           q.waitingForFirstSyncFrame \/ q.failed \/ ~r.inputStreamEnded,
         z.next = s.next, z.wanted = s.wanted, z.early = s.early
  PROVE  Flowing(q, c, z)
<1>1. /\ q.output = r.output /\ q.decodeOnly = r.decodeOnly /\ q.shown = r.shown
      /\ q.inputStreamEnded = r.inputStreamEnded
      /\ q.outputStreamEnded = r.outputStreamEnded
  BY FieldsOf DEF Changed, Besides, RendererTyped
<1>2. InOrder(q, c) /\ Inside(q, c) = Inside(r, c)
  BY <1>1 DEF Flowing, InOrder, Inside
<1>3. NoneLost(Inside(q, c), z)
  BY <1>2 DEF Flowing, NoneLost
<1>4. AllDated(q, c, z)
  BY <1>1 DEF Flowing, AllDated, Dated
<1>5. OnlyFrames(q, c) /\ Unfilled(q, c)
  BY <1>1 DEF Flowing, OnlyFrames, Unfilled
<1>6. ShownBefore(q, Inside(q, c), z)
  BY <1>1, <1>2 DEF Flowing, ShownBefore
<1>7. EndComesLast(q, c, z)
  BY <1>1 DEF Flowing, EndComesLast
<1> QED
  BY <1>2, <1>3, <1>4, <1>5, <1>6, <1>7 DEF Flowing

(* Nothing is in the decoder.                                              *)
LEMMA VoidIs ==
  ASSUME NEW r, NEW c, Void(r, c)
  PROVE  /\ Inside(r, c) = {} /\ InOrder(r, c) /\ OnlyFrames(r, c) /\ Unfilled(r, c)
         /\ EndLast(c.outputs) /\ EndLast(c.queue) /\ ~Ends(c.outputs) /\ ~Ends(c.queue)
         /\ r.output # EndOfStream
         /\ \A s : AllDated(r, c, s) /\ Fed(r, s) /\ NoneLost(Inside(r, c), s)
<1>1. /\ r.input.data = <<>> /\ r.output.data = <<>> /\ c.outputs = <<>> /\ c.queue = <<>>
      /\ r.output = NoBuffer /\ DOMAIN c.outputs = {} /\ DOMAIN c.queue = {}
  BY Buffers DEF Void
<1>2. /\ In(c.outputs) = {} /\ In(c.queue) = {} /\ ToSet(r.input.data) = {}
      /\ ToSet(r.output.data) = {} /\ Rising(r.input.data) /\ Rising(r.output.data)
  BY <1>1, InEmpty, NoData
<1>3. Ahead(c) = {} /\ Inside(r, c) = {}
  BY <1>2 DEF Ahead, Inside
<1>4. InOrder(r, c)
  BY <1>1, <1>2, <1>3 DEF InOrder, Sorted, Below
<1>5. OnlyFrames(r, c) /\ Unfilled(r, c)
  BY <1>1, <1>2, <1>3 DEF OnlyFrames, Unfilled
<1>6. /\ EndLast(c.outputs) /\ EndLast(c.queue) /\ ~Ends(c.outputs) /\ ~Ends(c.queue)
      /\ r.output # EndOfStream
  BY <1>1, Buffers DEF EndLast, Ends, ToSet
<1>7. \A s : AllDated(r, c, s) /\ Fed(r, s) /\ NoneLost(Inside(r, c), s)
  BY <1>1, <1>3, NoneOfNone DEF AllDated, Dated, Fed
<1> QED
  BY <1>3, <1>4, <1>5, <1>6, <1>7

(* After a discontinuity all is new.                                       *)
LEMMA Renew ==
  ASSUME NEW r, NEW c, NEW s, Void(r, c), r.shown = 0, ~r.inputStreamEnded,
         ~r.outputStreamEnded, s.next \in Nat \ {0}
  PROVE  Flows(r, c, s)
<1>1. ShownBefore(r, Inside(r, c), s)
  BY VoidIs DEF ShownBefore
<1>2. EndComesLast(r, c, s)
  BY VoidIs DEF EndComesLast
<1> QED
  BY <1>1, <1>2, VoidIs DEF Flows, Flowing

(* A decoder is let go of, or another is made.                             *)
LEMMA Emptied ==
  ASSUME NEW r, NEW q, NEW c, NEW e, NEW s, NEW z, Flowing(r, c, s), RendererTyped(r),
         Void(q, e), q.shown = r.shown, q.inputStreamEnded = r.inputStreamEnded,
         q.outputStreamEnded = r.outputStreamEnded,
         e # NoCodec /\ ~q.failed => q.waitingForFirstSyncFrame,
         s.next \in Nat, z.next \in Nat, s.next <= z.next, z.next \in Frames => s.next \in Frames,
         z.wanted = s.wanted, z.early = s.early
  PROVE  Flows(q, e, z)
<1>1. r.shown \in Int
  BY FramesAre DEF RendererTyped
<1>2. ShownBefore(q, Inside(q, e), z)
  BY <1>1, VoidIs DEF Flowing, ShownBefore
<1>3. EndComesLast(q, e, z)
  <2>1. /\ q.inputStreamEnded => z.next \notin Frames
        /\ q.outputStreamEnded => q.inputStreamEnded
    BY DEF Flowing, EndComesLast
  <2>2. e.outputs = <<>> /\ e.queue = <<>>
    BY DEF Void
  <2> QED
    BY <2>1, <2>2, VoidIs DEF EndComesLast
<1> QED
  BY <1>2, <1>3, VoidIs DEF Flows, Flowing

(* The buffer is cleared.                                                  *)
LEMMA Dropped ==
  ASSUME NEW r, NEW q, NEW c, NEW s, Flowing(r, c, s), RendererTyped(r), CodecTyped(c),
         Changed(r, q, Besides \cup {"input"}), q.input.data = <<>>,
         \/ r.input.data = <<>> \/ r.waitingForFirstSyncFrame
         \/ s.next <= s.wanted /\ Samples[s.next].sync
  PROVE  Flows(q, c, s)
<1> DEFINE D == ToSet(r.input.data)
           Y == ToSet(r.output.data) \cup Ahead(c)
<1>1. /\ q.output = r.output /\ q.decodeOnly = r.decodeOnly /\ q.shown = r.shown
      /\ q.inputStreamEnded = r.inputStreamEnded
      /\ q.outputStreamEnded = r.outputStreamEnded /\ q.failed = r.failed
      /\ q.waitingForFirstSyncFrame = r.waitingForFirstSyncFrame
  BY FieldsOf DEF Changed, Besides, RendererTyped
<1>2. Inside(q, c) = Y /\ Inside(r, c) = Y \cup D
  BY <1>1, NoData DEF Inside
<1>3. InOrder(q, c)
  BY <1>1, NoData DEF Flowing, InOrder, Below
<1>4. NoneLost(Inside(q, c), s)
  <2>1. CASE r.waitingForFirstSyncFrame
    BY <1>2, <2>1, NoneOfNone DEF Flowing, Unfilled
  <2>2. CASE D # {} => s.next <= s.wanted /\ Samples[s.next].sync
    <3>1. Below(Y, D) /\ Y \cup D \in SUBSET Frames
      BY <1>2, InsideFrames DEF Flowing, InOrder
    <3> HIDE DEF D, Y
    <3> QED
      BY <1>2, <2>2, <3>1, NoneLostDropped DEF Flowing
  <2> QED
    BY <2>1, <2>2, NoData
<1>5. AllDated(q, c, s) /\ OnlyFrames(q, c) /\ Unfilled(q, c)
  BY <1>1 DEF Flowing, AllDated, OnlyFrames, Unfilled
<1>6. ShownBefore(q, Inside(q, c), s)
  BY <1>1, <1>2 DEF Flowing, ShownBefore
<1>7. EndComesLast(q, c, s)
  BY <1>1 DEF Flowing, EndComesLast
<1> QED
  BY <1>3, <1>4, <1>5, <1>6, <1>7 DEF Flows, Flowing, Fed

(* A sample is read behind what is in the buffer.                          *)
LEMMA ReadOn ==
  ASSUME NEW r, NEW q, NEW c, NEW s, NEW z, Flowing(r, c, s), RendererTyped(r), CodecTyped(c),
         Changed(r, q, Besides \cup {"input"}), s.next \in Frames, ~r.inputStreamEnded,
         q.input.data = Append(r.input.data, s.next),
         z.next = s.next + 1, z.wanted = s.wanted, z.early = s.early
  PROVE  Flowing(q, c, z)
<1> PICK n \in Frames : n = s.next
  OBVIOUS
<1> DEFINE D == ToSet(r.input.data)
           Y == ToSet(r.output.data) \cup Ahead(c)
           X == Inside(r, c)
<1>1. /\ q.output = r.output /\ q.decodeOnly = r.decodeOnly /\ q.shown = r.shown
      /\ q.inputStreamEnded = r.inputStreamEnded
      /\ q.outputStreamEnded = r.outputStreamEnded /\ q.failed = r.failed
      /\ q.waitingForFirstSyncFrame = r.waitingForFirstSyncFrame
  BY FieldsOf DEF Changed, Besides, RendererTyped
<1>2. X = Y \cup D /\ X \in SUBSET Frames /\ \A x \in X : x < n
  BY InsideFrames DEF Inside, Flowing, NoneLost
<1>3. ToSet(q.input.data) = D \cup {n} /\ Rising(q.input.data)
  <2>1. r.input.data \in Seq(Frames) /\ Rising(r.input.data) /\ \A x \in D : x < n
    BY <1>2, InsideFrames DEF Flowing, InOrder
  <2> QED
    BY <2>1, RisingAppend
<1>4. Inside(q, c) = X \cup {n}
  BY <1>1, <1>3 DEF Inside
<1>5. InOrder(q, c)
  <2>1. Below(Y, D \cup {n})
    BY <1>2 DEF Below, Flowing, InOrder
  <2> QED
    BY <1>1, <1>3, <2>1 DEF Flowing, InOrder
<1>6. NoneLost(Inside(q, c), z)
  <2> HIDE DEF X
  <2> QED
    BY <1>2, <1>4, NoneLostNext DEF Flowing, X
<1>7. AllDated(q, c, z) /\ OnlyFrames(q, c) /\ Unfilled(q, c)
  BY <1>1 DEF Flowing, AllDated, Dated, OnlyFrames, Unfilled
<1>8. ShownBefore(q, Inside(q, c), z)
  <2>1. r.shown \in Int /\ n \in Int
    BY FramesAre DEF RendererTyped
  <2> QED
    BY <1>1, <1>4, <2>1 DEF Flowing, ShownBefore
<1>9. EndComesLast(q, c, z)
  BY <1>1 DEF Flowing, EndComesLast
<1> QED
  BY <1>5, <1>6, <1>7, <1>8, <1>9 DEF Flowing

-----------------------------------------------------------------------------
(* What a queue gets and gives.                                            *)

LEMMA Appended ==
  ASSUME NEW q \in Seq(Buffer), NEW b \in Buffer
  PROVE  /\ \A i \in DOMAIN Append(q, b) :
              Append(q, b)[i] = b \/ \E j \in DOMAIN q : Append(q, b)[i] = q[j]
         /\ Ends(Append(q, b)) <=> Ends(q) \/ b = EndOfStream
         /\ ~Ends(q) => EndLast(Append(q, b))
<1> DEFINE p == Append(q, b)
           n == Len(q)
<1>1. /\ n \in Nat /\ DOMAIN q = 1..n /\ DOMAIN p = 1..n + 1 /\ Len(p) = n + 1
      /\ p[n + 1] = b /\ \A i \in 1..n : p[i] = q[i]
  OBVIOUS
<1> HIDE DEF p, n
<1>2. /\ \A i \in 1..n + 1 : i \in 1..n \/ i = n + 1
      /\ n + 1 \in 1..n + 1 /\ \A i \in 1..n : i \in 1..n + 1
  BY <1>1
<1>3. \A i \in DOMAIN p : p[i] = b \/ \E j \in DOMAIN q : p[i] = q[j]
  BY <1>1, <1>2
<1>4. Ends(p) <=> Ends(q) \/ b = EndOfStream
  <2>1. Ends(p) => Ends(q) \/ b = EndOfStream
    BY <1>1, <1>2 DEF Ends, ToSet
  <2>2. Ends(q) => Ends(p)
    BY <1>1, <1>2 DEF Ends, ToSet
  <2>3. b = EndOfStream => Ends(p)
    BY <1>1, <1>2 DEF Ends, ToSet
  <2> QED
    BY <2>1, <2>2, <2>3
<1>5. ~Ends(q) => EndLast(p)
  BY <1>1, <1>2 DEF Ends, EndLast, ToSet
<1> QED
  BY <1>3, <1>4, <1>5 DEF p

LEMMA Headed ==
  ASSUME NEW q \in Seq(Buffer), q # <<>>
  PROVE  /\ \A i \in DOMAIN Tail(q) : \E j \in DOMAIN q : Tail(q)[i] = q[j]
         /\ \E j \in DOMAIN q : Head(q) = q[j]
         /\ Head(q) \in Buffer /\ Tail(q) \in Seq(Buffer)
         /\ Ends(q) <=> Head(q) = EndOfStream \/ Ends(Tail(q))
         /\ EndLast(q) => EndLast(Tail(q)) /\ (Head(q) = EndOfStream => Tail(q) = <<>>)
<1> DEFINE p == Tail(q)
           b == Head(q)
           n == Len(q)
<1>1. /\ n \in Nat /\ n > 0 /\ DOMAIN q = 1..n /\ DOMAIN p = 1..n - 1 /\ Len(p) = n - 1
      /\ q[1] = b /\ (\A i \in 1..n - 1 : p[i] = q[i + 1]) /\ b \in Buffer
      /\ p \in Seq(Buffer) /\ (n = 1 => p = <<>>)
  OBVIOUS
<1> HIDE DEF p, b, n
<1>2. /\ \A i \in 1..n : i = 1 \/ (i - 1 \in 1..n - 1 /\ i - 1 + 1 = i)
      /\ 1 \in 1..n /\ \A i \in 1..n - 1 : i + 1 \in 1..n
  BY <1>1
<1>3. \A i \in DOMAIN p : \E j \in DOMAIN q : p[i] = q[j]
  BY <1>1, <1>2
<1>4. \E j \in DOMAIN q : b = q[j]
  BY <1>1, <1>2
<1>5. Ends(q) <=> b = EndOfStream \/ Ends(p)
  <2>1. Ends(q) => b = EndOfStream \/ Ends(p)
    <3> SUFFICES ASSUME NEW i \in DOMAIN q, q[i] = EndOfStream
                 PROVE  b = EndOfStream \/ Ends(p)
      BY DEF Ends, ToSet
    <3>1. CASE i = 1
      BY <1>1, <3>1
    <3>2. CASE i # 1
      <4>1. i - 1 \in DOMAIN p /\ p[i - 1] = q[i]
        BY <1>1, <1>2, <3>2
      <4> QED
        BY <4>1 DEF Ends, ToSet
    <3> QED
      BY <3>1, <3>2
  <2>2. Ends(p) => Ends(q)
    BY <1>1, <1>2 DEF Ends, ToSet
  <2>3. b = EndOfStream => Ends(q)
    BY <1>1, <1>2 DEF Ends, ToSet
  <2> QED
    BY <2>1, <2>2, <2>3
<1>6. ASSUME EndLast(q) PROVE EndLast(p) /\ (b = EndOfStream => p = <<>>)
  <2>1. EndLast(p)
    <3> SUFFICES ASSUME NEW i \in DOMAIN p, p[i] = EndOfStream PROVE i = Len(p)
      BY DEF EndLast
    <3>1. i + 1 \in DOMAIN q /\ q[i + 1] = EndOfStream
      BY <1>1, <1>2
    <3>2. i + 1 = n
      BY <1>6, <3>1 DEF EndLast, n
    <3> QED
      BY <1>1, <3>2
  <2>2. b = EndOfStream => p = <<>>
    <3>1. b = EndOfStream => 1 = n
      BY <1>1, <1>2, <1>6 DEF EndLast, n
    <3> QED
      BY <1>1, <3>1
  <2> QED
    BY <2>1, <2>2
<1> QED
  BY <1>1, <1>3, <1>4, <1>5, <1>6 DEF p, b

-----------------------------------------------------------------------------
(* The buffer is queued, or the end is.                                    *)

LEMMA Queued ==
  ASSUME NEW r, NEW q, NEW c, NEW e, NEW s, Flowing(r, c, s), RendererTyped(r),
         CodecTyped(c), NEW b \in Buffer, b.data = r.input.data, b.time \in Frames,
         b.data # <<>> => b.time = Last(b.data),
         e.queue = Append(c.queue, b), e.outputs = c.outputs,
         Changed(r, q, Besides \cup {"input", "decodeOnly", "waitingForFirstSyncFrame"}),
         q.input.data = <<>>, ~q.waitingForFirstSyncFrame, ~r.inputStreamEnded,
         s.wanted \in Int,
         q.decodeOnly = IF b.time < s.wanted THEN r.decodeOnly \cup {b.time} ELSE r.decodeOnly
  PROVE  Flows(q, e, s)
<1> DEFINE D == ToSet(b.data)
           O == ToSet(r.output.data)
<1>1. /\ q.output = r.output /\ q.shown = r.shown /\ ~q.inputStreamEnded
      /\ q.outputStreamEnded = r.outputStreamEnded
  BY FieldsOf DEF Changed, Besides, RendererTyped
<1>2. /\ c.queue \in Seq(Buffer) /\ r.decodeOnly \subseteq q.decodeOnly
      /\ b.time < s.wanted => b.time \in q.decodeOnly
  BY DEF CodecTyped
<1>3. In(e.queue) = In(c.queue) \cup D /\ In(e.outputs) = In(c.outputs)
  BY <1>2, InAppend
<1>4. Ahead(e) = Ahead(c) \cup D /\ Inside(q, e) = Inside(r, c)
  BY <1>1, <1>3, NoData DEF Ahead, Inside
<1>5. /\ Rising(r.output.data) /\ Sorted(c.outputs) /\ Sorted(c.queue) /\ Rising(b.data)
      /\ Below(In(c.outputs), In(c.queue)) /\ Below(O, Ahead(c)) /\ Below(O \cup Ahead(c), D)
  BY DEF Flowing, InOrder
<1>6. InOrder(q, e)
  <2>1. Below(In(c.queue), D) /\ Below(In(c.outputs), D) /\ Below(O, D)
    BY <1>5 DEF Below, Ahead
  <2>2. Sorted(e.queue)
    BY <1>2, <1>5, <2>1, SortedAppend
  <2>3. Below(In(e.outputs), In(e.queue))
    BY <1>3, <1>5, <2>1 DEF Below
  <2>4. Below(O, Ahead(e))
    BY <1>4, <1>5, <2>1 DEF Below
  <2>5. Below(O \cup Ahead(e), ToSet(q.input.data)) /\ Rising(q.input.data)
    BY NoData DEF Below
  <2> QED
    BY <1>1, <1>5, <2>2, <2>3, <2>4, <2>5 DEF InOrder
<1>7. NoneLost(Inside(q, e), s)
  BY <1>4 DEF Flowing
<1>8. AllDated(q, e, s)
  <2>1. Dated(b, q.decodeOnly, s)
    BY <1>2, FramesAre DEF Dated
  <2>2. ASSUME NEW x, Dated(x, r.decodeOnly, s) PROVE Dated(x, q.decodeOnly, s)
    BY <1>2, <2>2 DEF Dated
  <2>3. \A i \in DOMAIN e.queue : e.queue[i] = b \/ \E j \in DOMAIN c.queue : e.queue[i] = c.queue[j]
    BY <1>2, Appended
  <2>4. /\ Dated(r.output, r.decodeOnly, s)
        /\ \A i \in DOMAIN c.outputs : Dated(c.outputs[i], r.decodeOnly, s)
        /\ \A i \in DOMAIN c.queue : Dated(c.queue[i], r.decodeOnly, s)
    BY DEF Flowing, AllDated
  <2>5. \A i \in DOMAIN e.queue : Dated(e.queue[i], q.decodeOnly, s)
    BY <2>1, <2>2, <2>3, <2>4
  <2>6. \A i \in DOMAIN e.outputs : Dated(e.outputs[i], q.decodeOnly, s)
    BY <2>2, <2>4
  <2> QED
    BY <1>1, <2>2, <2>4, <2>5, <2>6 DEF AllDated
<1>9. OnlyFrames(q, e) /\ Unfilled(q, e)
  BY <1>1 DEF Flowing, OnlyFrames, Unfilled
<1>10. ShownBefore(q, Inside(q, e), s)
  BY <1>1, <1>4 DEF Flowing, ShownBefore
<1>11. EndComesLast(q, e, s)
  <2>1. EndLast(c.outputs) /\ ~Ends(c.outputs) /\ ~Ends(c.queue) /\ r.output # EndOfStream
        /\ ~r.outputStreamEnded
    BY DEF Flowing, EndComesLast
  <2>2. b # EndOfStream
    BY Buffers, FramesAre
  <2>3. ~Ends(e.queue) /\ EndLast(e.queue)
    BY <1>2, <2>1, <2>2, Appended
  <2> QED
    BY <1>1, <2>1, <2>3 DEF EndComesLast
<1> QED
  BY <1>6, <1>7, <1>8, <1>9, <1>10, <1>11 DEF Flows, Flowing, Fed

LEMMA EndedFlows ==
  ASSUME NEW r, NEW q, NEW c, NEW e, NEW s, Flowing(r, c, s), RendererTyped(r),
         CodecTyped(c), r.input.data = <<>>, e.queue = Append(c.queue, EndOfStream),
         e.outputs = c.outputs, Changed(r, q, Besides \cup {"input", "inputStreamEnded"}),
         q.input.data = <<>>, q.inputStreamEnded, ~r.inputStreamEnded, s.next \notin Frames
  PROVE  Flows(q, e, s)
<1>1. /\ q.output = r.output /\ q.shown = r.shown /\ q.decodeOnly = r.decodeOnly
      /\ q.outputStreamEnded = r.outputStreamEnded
      /\ q.waitingForFirstSyncFrame = r.waitingForFirstSyncFrame
  BY FieldsOf DEF Changed, Besides, RendererTyped
<1>2. c.queue \in Seq(Buffer) /\ EndOfStream \in Buffer /\ EndOfStream.data = <<>>
  BY Buffers DEF CodecTyped
<1>3. In(e.queue) = In(c.queue) /\ In(e.outputs) = In(c.outputs)
  BY <1>2, InAppend, NoData
<1>4. Ahead(e) = Ahead(c) /\ Inside(q, e) = Inside(r, c)
  BY <1>1, <1>3, NoData DEF Ahead, Inside
<1>5. InOrder(q, e)
  <2>1. Sorted(c.queue) /\ Rising(EndOfStream.data) /\ Below(In(c.queue), ToSet(EndOfStream.data))
    BY <1>2, NoData DEF Flowing, InOrder, Below
  <2>2. Sorted(e.queue)
    BY <1>2, <2>1, SortedAppend
  <2> QED
    BY <1>1, <1>3, <1>4, <2>2 DEF Flowing, InOrder
<1>6. AllDated(q, e, s)
  <2>1. \A i \in DOMAIN e.queue :
          e.queue[i] = EndOfStream \/ \E j \in DOMAIN c.queue : e.queue[i] = c.queue[j]
    BY <1>2, Appended
  <2>2. Dated(EndOfStream, q.decodeOnly, s)
    BY <1>2 DEF Dated
  <2>3. /\ Dated(r.output, q.decodeOnly, s)
        /\ \A i \in DOMAIN c.outputs : Dated(c.outputs[i], q.decodeOnly, s)
        /\ \A i \in DOMAIN c.queue : Dated(c.queue[i], q.decodeOnly, s)
    BY <1>1 DEF Flowing, AllDated
  <2>4. \A i \in DOMAIN e.queue : Dated(e.queue[i], q.decodeOnly, s)
    BY <2>1, <2>2, <2>3
  <2> QED
    BY <1>1, <2>3, <2>4 DEF AllDated
<1>7. OnlyFrames(q, e) /\ Unfilled(q, e) /\ NoneLost(Inside(q, e), s)
  BY <1>1, <1>4 DEF Flowing, OnlyFrames, Unfilled
<1>8. ShownBefore(q, Inside(q, e), s)
  BY <1>1, <1>4 DEF Flowing, ShownBefore
<1>9. EndComesLast(q, e, s)
  <2>1. EndLast(c.outputs) /\ ~Ends(c.outputs) /\ ~Ends(c.queue) /\ r.output # EndOfStream
        /\ ~r.outputStreamEnded
    BY DEF Flowing, EndComesLast
  <2>2. Ends(e.queue) /\ EndLast(e.queue)
    BY <1>2, <2>1, Appended
  <2> QED
    BY <1>1, <2>1, <2>2 DEF EndComesLast
<1> QED
  BY <1>5, <1>6, <1>7, <1>8, <1>9 DEF Flows, Flowing, Fed

-----------------------------------------------------------------------------
(* The player seeks inside what was read.                                  *)

LEMMA SoughtIn ==
  ASSUME NEW r, NEW q, NEW c, NEW s, NEW z, Flowing(r, c, s), RendererTyped(r),
         CodecTyped(c),
         Changed(r, q, Besides \cup {"shown", "inputStreamEnded", "outputStreamEnded"}),
         q.shown = 0, ~q.inputStreamEnded, ~q.outputStreamEnded,
         s.next \in Frames, s.wanted \in Int, z.next = s.next, z.wanted \in Int,
         z.next <= z.wanted, z.early = s.next - 1
  PROVE  Flows(q, c, z)
<1>1. /\ q.output = r.output /\ q.input = r.input /\ q.decodeOnly = r.decodeOnly
      /\ q.waitingForFirstSyncFrame = r.waitingForFirstSyncFrame
  BY FieldsOf DEF Changed, Besides, RendererTyped
<1>2. s.next \in Int /\ s.next > 0 /\ Inside(r, c) \subseteq Frames /\ Frames \subseteq Int
      /\ 0 < s.next /\ \A x \in Inside(r, c) : 0 < x
  BY FramesAre, InsideFrames
<1>3. InOrder(q, c) /\ Inside(q, c) = Inside(r, c) /\ OnlyFrames(q, c) /\ Unfilled(q, c)
  BY <1>1 DEF Flowing, InOrder, Inside, OnlyFrames, Unfilled
<1>4. NoneLost(Inside(q, c), z)
  BY <1>2, <1>3, NoneLostWanted DEF Flowing
<1>5. \A x \in Inside(r, c) : x < s.next
  BY DEF Flowing, NoneLost
<1>6. AllDated(q, c, z)
  <2>1. ASSUME NEW b \in Buffer \cup {NoBuffer}, Dated(b, r.decodeOnly, s), Rising(b.data),
               ToSet(b.data) \subseteq Inside(r, c)
        PROVE  Dated(b, r.decodeOnly, z)
    <3> SUFFICES ASSUME b.data # <<>> PROVE Dated(b, r.decodeOnly, z)
      BY DEF Dated
    <3>1. b.time = Last(b.data) /\ b.time \in Inside(r, c)
      BY <2>1, BufferIs, LastIs DEF Dated
    <3>2. b.time \in Int /\ b.time < s.next /\ s.next \in Int
      BY <1>2, <1>5, <3>1
    <3>3. b.time <= z.early
      BY <3>2
    <3> QED
      BY <3>1, <3>3 DEF Dated
  <2>2. /\ r.output \in Buffer \cup {NoBuffer} /\ c.outputs \in Seq(Buffer)
        /\ c.queue \in Seq(Buffer)
    BY DEF RendererTyped, CodecTyped
  <2>3. Dated(r.output, r.decodeOnly, z)
    BY <2>1, <2>2 DEF Flowing, AllDated, InOrder, Inside
  <2>4. ASSUME NEW i \in DOMAIN c.outputs PROVE Dated(c.outputs[i], r.decodeOnly, z)
    <3>1. c.outputs[i] \in Buffer /\ ToSet(c.outputs[i].data) \subseteq Inside(r, c)
      BY <2>2 DEF Inside, Ahead, In
    <3> QED
      BY <2>1, <3>1 DEF Flowing, AllDated, InOrder, Sorted
  <2>5. ASSUME NEW i \in DOMAIN c.queue PROVE Dated(c.queue[i], r.decodeOnly, z)
    <3>1. c.queue[i] \in Buffer /\ ToSet(c.queue[i].data) \subseteq Inside(r, c)
      BY <2>2 DEF Inside, Ahead, In
    <3> QED
      BY <2>1, <3>1 DEF Flowing, AllDated, InOrder, Sorted
  <2> QED
    BY <1>1, <2>3, <2>4, <2>5 DEF AllDated
<1>7. ShownBefore(q, Inside(q, c), z)
  BY <1>2, <1>3 DEF ShownBefore
<1>8. EndComesLast(q, c, z)
  BY <1>1 DEF Flowing, EndComesLast
<1> QED
  BY <1>3, <1>4, <1>6, <1>7, <1>8 DEF Flows, Flowing, Fed

-----------------------------------------------------------------------------
(* The decoder takes a buffer, and puts out what is a frame or the end.    *)

LEMMA DecodedFlows ==
  ASSUME NEW r, NEW c, NEW e, NEW s, Flowing(r, c, s), RendererTyped(r), CodecTyped(c),
         c.queue # <<>>, e.queue = Tail(c.queue),
         e.outputs = IF Head(c.queue).data # <<>> \/ Head(c.queue) = EndOfStream
                     THEN Append(c.outputs, Head(c.queue)) ELSE c.outputs
  PROVE  Flowing(r, e, s)
<1> DEFINE b == Head(c.queue)
           H == ToSet(b.data)
           T == In(Tail(c.queue))
           O == ToSet(r.output.data)
<1>1. /\ c.queue \in Seq(Buffer) /\ c.outputs \in Seq(Buffer) /\ b \in Buffer
      /\ e.queue \in Seq(Buffer)
  BY Headed DEF CodecTyped
<1>2. /\ In(c.queue) = H \cup T /\ In(e.queue) = T
  BY <1>1, InHead
<1>3. b.data = <<>> => H = {}
  BY NoData
<1>4. In(e.outputs) = In(c.outputs) \cup H
  BY <1>1, <1>3, InAppend
<1>5. /\ Sorted(e.queue) /\ Rising(b.data) /\ Below(H, T)
  BY <1>1, SortedHead DEF Flowing, InOrder
<1>6. /\ Sorted(c.outputs) /\ Below(In(c.outputs), H) /\ Below(In(c.outputs), T)
      /\ Below(O, Ahead(c)) /\ Below(O \cup Ahead(c), ToSet(r.input.data))
      /\ Rising(r.output.data) /\ Rising(r.input.data)
  BY <1>2 DEF Flowing, InOrder, Below
<1>7. Ahead(e) = Ahead(c) /\ Inside(r, e) = Inside(r, c)
  BY <1>2, <1>4 DEF Ahead, Inside
<1> HIDE DEF b, H, T, O
<1>8. InOrder(r, e)
  <2>1. Sorted(e.outputs)
    BY <1>1, <1>5, <1>6, SortedAppend DEF b, H
  <2>2. Below(In(e.outputs), In(e.queue))
    BY <1>2, <1>4, <1>5, <1>6 DEF Below
  <2> QED
    BY <1>5, <1>6, <1>7, <2>1, <2>2 DEF InOrder, O
<1>9. /\ \A i \in DOMAIN e.queue : \E j \in DOMAIN c.queue : e.queue[i] = c.queue[j]
      /\ \E j \in DOMAIN c.queue : b = c.queue[j]
  BY <1>1, Headed DEF b
<1>10. \A i \in DOMAIN e.outputs : \/ e.outputs[i] = b /\ Shows(b)
                                   \/ \E j \in DOMAIN c.outputs : e.outputs[i] = c.outputs[j]
  <2>1. CASE b.data # <<>> \/ b = EndOfStream
    BY <1>1, <2>1, Appended DEF b, Shows
  <2>2. CASE ~(b.data # <<>> \/ b = EndOfStream)
    BY <2>2 DEF b
  <2> QED
    BY <2>1, <2>2
<1>11. AllDated(r, e, s)
  <2>1. Dated(b, r.decodeOnly, s)
    BY <1>9 DEF Flowing, AllDated
  <2>2. \A i \in DOMAIN e.outputs : Dated(e.outputs[i], r.decodeOnly, s)
    BY <1>10, <2>1 DEF Flowing, AllDated
  <2>3. \A i \in DOMAIN e.queue : Dated(e.queue[i], r.decodeOnly, s)
    BY <1>9 DEF Flowing, AllDated
  <2> QED
    BY <2>2, <2>3 DEF Flowing, AllDated
<1>12. OnlyFrames(r, e)
  BY <1>10 DEF Flowing, OnlyFrames
<1>13. Unfilled(r, e) /\ NoneLost(Inside(r, e), s) /\ ShownBefore(r, Inside(r, e), s)
  BY <1>7 DEF Flowing, Unfilled
<1>14. EndComesLast(r, e, s)
  <2>1. /\ EndLast(c.outputs) /\ EndLast(c.queue) /\ ~Ends(c.outputs)
        /\ r.output # EndOfStream /\ ~r.outputStreamEnded
        /\ Ends(c.queue) => r.inputStreamEnded
        /\ r.inputStreamEnded => s.next \notin Frames
        /\ r.inputStreamEnded /\ c # NoCodec /\ ~r.failed =>
             Ends(c.queue) \/ r.waitingForFirstSyncFrame
    BY DEF Flowing, EndComesLast
  <2>2. c # NoCodec
    BY NoCodecIs
  <2>3. /\ Ends(c.queue) <=> b = EndOfStream \/ Ends(e.queue)
        /\ EndLast(e.queue) /\ (b = EndOfStream => e.queue = <<>>)
    BY <1>1, <2>1, Headed DEF b
  <2>4. EndLast(e.outputs) /\ (Ends(e.outputs) <=> b = EndOfStream)
    <3>1. CASE b.data # <<>> \/ b = EndOfStream
      BY <1>1, <2>1, <3>1, Appended DEF b
    <3>2. CASE ~(b.data # <<>> \/ b = EndOfStream)
      BY <2>1, <3>2 DEF b
    <3> QED
      BY <3>1, <3>2
  <2> QED
    BY <2>1, <2>2, <2>3, <2>4 DEF EndComesLast
<1> QED
  BY <1>8, <1>11, <1>12, <1>13, <1>14 DEF Flowing

-----------------------------------------------------------------------------
(* A frame is taken from the decoder, and leaves the renderer.             *)

LEMMA DequeuedFlows ==
  ASSUME NEW r, NEW q, NEW c, NEW e, NEW s, Flowing(r, c, s), RendererTyped(r), CodecTyped(c),
         r.output = NoBuffer, c.outputs # <<>>, Changed(r, q, {"output"}),
         q.output = Head(c.outputs), e.outputs = Tail(c.outputs), e.queue = c.queue
  PROVE  Flowing(q, e, s)
<1> DEFINE b == Head(c.outputs)
           H == ToSet(b.data)
           T == In(Tail(c.outputs))
<1>1. /\ q.input = r.input /\ q.decodeOnly = r.decodeOnly /\ q.shown = r.shown
      /\ q.inputStreamEnded = r.inputStreamEnded /\ q.failed = r.failed
      /\ q.outputStreamEnded = r.outputStreamEnded
      /\ q.waitingForFirstSyncFrame = r.waitingForFirstSyncFrame
  BY FieldsOf DEF Changed, RendererTyped
<1>2. /\ c.queue \in Seq(Buffer) /\ c.outputs \in Seq(Buffer) /\ b \in Buffer
      /\ e.outputs \in Seq(Buffer)
  BY Headed DEF CodecTyped
<1>3. In(c.outputs) = H \cup T /\ In(e.outputs) = T /\ ToSet(r.output.data) = {}
  BY <1>2, InHead, NoData, Buffers
<1>4. Sorted(e.outputs) /\ Rising(b.data) /\ Below(H, T)
  BY <1>2, SortedHead DEF Flowing, InOrder
<1>5. /\ Sorted(c.queue) /\ Below(H, In(c.queue)) /\ Below(T, In(c.queue))
      /\ Below(Ahead(c), ToSet(r.input.data)) /\ Rising(r.input.data)
  BY <1>3 DEF Flowing, InOrder, Below
<1>6. Ahead(e) = T \cup In(c.queue) /\ Ahead(c) = H \cup Ahead(e) /\ Inside(q, e) = Inside(r, c)
  BY <1>1, <1>3 DEF Ahead, Inside
<1> HIDE DEF b, H, T
<1>7. InOrder(q, e)
  <2>1. Below(H, Ahead(e))
    BY <1>4, <1>5, <1>6 DEF Below
  <2> QED
    BY <1>1, <1>3, <1>4, <1>5, <1>6, <2>1 DEF InOrder, b, H
<1>8. /\ \A i \in DOMAIN e.outputs : \E j \in DOMAIN c.outputs : e.outputs[i] = c.outputs[j]
      /\ \E j \in DOMAIN c.outputs : q.output = c.outputs[j]
  BY <1>2, Headed
<1>9. AllDated(q, e, s)
  BY <1>1, <1>8 DEF Flowing, AllDated
<1>10. OnlyFrames(q, e)
  BY <1>8 DEF Flowing, OnlyFrames
<1>11. Unfilled(q, e)
  BY <1>1, <1>3, <1>6 DEF Flowing, Unfilled, b, H
<1>12. NoneLost(Inside(q, e), s) /\ ShownBefore(q, Inside(q, e), s)
  BY <1>1, <1>6 DEF Flowing, ShownBefore
<1>13. EndComesLast(q, e, s)
  <2>1. /\ EndLast(c.outputs) /\ EndLast(c.queue) /\ ~r.outputStreamEnded
        /\ Ends(c.outputs) => c.queue = <<>>
        /\ Ends(c.outputs) \/ Ends(c.queue) => r.inputStreamEnded
        /\ r.inputStreamEnded => s.next \notin Frames
        /\ r.inputStreamEnded /\ c # NoCodec /\ ~r.failed =>
             Ends(c.outputs) \/ Ends(c.queue) \/ r.waitingForFirstSyncFrame
    BY Buffers DEF Flowing, EndComesLast
  <2>2. c # NoCodec
    BY NoCodecIs
  <2>3. /\ Ends(c.outputs) <=> b = EndOfStream \/ Ends(e.outputs)
        /\ EndLast(e.outputs) /\ (b = EndOfStream => e.outputs = <<>>)
    BY <1>2, <2>1, Headed DEF b
  <2> QED
    BY <1>1, <2>1, <2>2, <2>3 DEF EndComesLast, b
<1> QED
  BY <1>7, <1>9, <1>10, <1>11, <1>12, <1>13 DEF Flowing

LEMMA ReleasedFlows ==
  ASSUME NEW r, NEW q, NEW c, NEW s, Flowing(r, c, s), RendererTyped(r), CodecTyped(c),
         s.next \in Nat, s.wanted \in Int, s.early \in Int,
         r.output \notin {NoBuffer, EndOfStream}, q.output = NoBuffer,
         Changed(r, q, {"output", "shown", "decodeOnly"}),
         q.decodeOnly = r.decodeOnly \ {r.output.time},
         \/ q.shown = r.shown
         \/ q.shown = r.output.time /\ r.output.time \notin r.decodeOnly
  PROVE  Flowing(q, c, s)
<1> DEFINE O == ToSet(r.output.data)
           Y == Ahead(c) \cup ToSet(r.input.data)
           t == r.output.time
<1>1. /\ q.input = r.input /\ q.failed = r.failed
      /\ q.inputStreamEnded = r.inputStreamEnded
      /\ q.outputStreamEnded = r.outputStreamEnded
      /\ q.waitingForFirstSyncFrame = r.waitingForFirstSyncFrame
  BY FieldsOf DEF Changed, RendererTyped
<1>2. r.output \in Buffer \cup {NoBuffer} /\ r.output.data # <<>> /\ Rising(r.output.data)
  BY DEF RendererTyped, Flowing, OnlyFrames, Shows, InOrder
<1>3. t \in O /\ t \in Int /\ (t <= s.early \/ t >= s.wanted \/ t \in r.decodeOnly)
  <2>1. Dated(r.output, r.decodeOnly, s)
    BY DEF Flowing, AllDated
  <2> QED
    BY <1>2, <2>1, BufferIs, LastIs, FramesAre DEF Dated
<1>4. /\ Inside(r, c) = O \cup Y /\ Below(O, Y) /\ O \cup Y \subseteq Frames /\ Frames \subseteq Int
  <2>1. Inside(r, c) = O \cup Y /\ Below(O, Y)
    BY DEF Inside, Flowing, InOrder, Below
  <2> QED
    BY <2>1, InsideFrames, FramesAre
<1>5. ToSet(q.output.data) = {} /\ Rising(q.output.data)
  BY Buffers, NoData
<1>6. Inside(q, c) = Y
  BY <1>1, <1>5 DEF Inside
<1>7. InOrder(q, c)
  BY <1>1, <1>5 DEF Flowing, InOrder, Below
<1> HIDE DEF O, Y, t
<1>8. /\ NoneLost(O \cup Y, s) /\ ShownBefore(r, O \cup Y, s)
      /\ \A x \in O \cup Y : x < s.next
  BY <1>4 DEF Flowing, NoneLost
<1>9. NoneLost(Inside(q, c), s)
  BY <1>4, <1>6, <1>8, NoneLostRest
<1>10. AllDated(q, c, s)
  <2>1. ASSUME NEW b \in Buffer, Dated(b, r.decodeOnly, s), Rising(b.data),
               ToSet(b.data) \subseteq Y
        PROVE  Dated(b, q.decodeOnly, s)
    <3> SUFFICES ASSUME b.data # <<>> PROVE Dated(b, q.decodeOnly, s)
      BY DEF Dated
    <3>1. b.time = Last(b.data) /\ b.time \in Y
      BY <2>1, BufferIs, LastIs DEF Dated
    <3>2. b.time # t
      BY <1>3, <1>4, <3>1 DEF Below
    <3> QED
      BY <2>1, <3>1, <3>2 DEF Dated, t
  <2>2. c.outputs \in Seq(Buffer) /\ c.queue \in Seq(Buffer)
    BY DEF CodecTyped
  <2>3. ASSUME NEW i \in DOMAIN c.outputs PROVE Dated(c.outputs[i], q.decodeOnly, s)
    <3>1. c.outputs[i] \in Buffer /\ ToSet(c.outputs[i].data) \subseteq Y
      BY <2>2 DEF Ahead, In, Y
    <3> QED
      BY <2>1, <3>1 DEF Flowing, AllDated, InOrder, Sorted
  <2>4. ASSUME NEW i \in DOMAIN c.queue PROVE Dated(c.queue[i], q.decodeOnly, s)
    <3>1. c.queue[i] \in Buffer /\ ToSet(c.queue[i].data) \subseteq Y
      BY <2>2 DEF Ahead, In, Y
    <3> QED
      BY <2>1, <3>1 DEF Flowing, AllDated, InOrder, Sorted
  <2>5. Dated(q.output, q.decodeOnly, s)
    BY Buffers DEF Dated
  <2> QED
    BY <2>3, <2>4, <2>5 DEF AllDated
<1>11. OnlyFrames(q, c) /\ Unfilled(q, c)
  BY <1>1, <1>5 DEF Flowing, OnlyFrames, Unfilled
<1>12. ShownBefore(q, Y, s)
  <2>1. CASE q.shown = r.shown
    BY <1>8, <2>1 DEF ShownBefore
  <2>2. CASE q.shown = t /\ t \notin r.decodeOnly
    <3>1. t < s.next /\ \A x \in Y : t < x
      BY <1>3, <1>4, <1>8 DEF Below
    <3> QED
      BY <1>3, <2>2, <3>1 DEF ShownBefore
  <2> QED
    BY <2>1, <2>2 DEF t
<1>13. EndComesLast(q, c, s)
  BY <1>1, Buffers DEF Flowing, EndComesLast
<1> QED
  BY <1>6, <1>7, <1>9, <1>10, <1>11, <1>12, <1>13 DEF Flowing

LEMMA EndedOut ==
  ASSUME NEW r, NEW q, NEW c, NEW s, Flowing(r, c, s), RendererTyped(r),
         r.output = EndOfStream, Changed(r, q, {"outputStreamEnded"}), q.outputStreamEnded
  PROVE  Flowing(q, c, s)
<1>1. /\ q.input = r.input /\ q.output = r.output /\ q.decodeOnly = r.decodeOnly
      /\ q.shown = r.shown /\ q.inputStreamEnded = r.inputStreamEnded /\ q.failed = r.failed
      /\ q.waitingForFirstSyncFrame = r.waitingForFirstSyncFrame
  BY FieldsOf DEF Changed, RendererTyped
<1>2. InOrder(q, c) /\ Inside(q, c) = Inside(r, c)
  BY <1>1 DEF Flowing, InOrder, Inside
<1>3. AllDated(q, c, s) /\ OnlyFrames(q, c) /\ Unfilled(q, c)
  BY <1>1 DEF Flowing, AllDated, OnlyFrames, Unfilled
<1>4. NoneLost(Inside(q, c), s) /\ ShownBefore(q, Inside(q, c), s)
  BY <1>1, <1>2 DEF Flowing, ShownBefore
<1>5. EndComesLast(q, c, s)
  BY <1>1 DEF Flowing, EndComesLast
<1> QED
  BY <1>2, <1>3, <1>4, <1>5 DEF Flowing

-----------------------------------------------------------------------------
(* A decoder that is made or flushed is empty.                             *)

Fresh(v) ==
  /\ Void(v.renderer, v.codec)
  /\ v.codec # NoCodec /\ ~v.renderer.failed => v.renderer.waitingForFirstSyncFrame
Without(w) ==
  /\ IsWorld(w) /\ DOMAIN w.renderer = DOMAIN NewRenderer
  /\ w.codec = NoCodec /\ Void(w.renderer, NoCodec)

LEMMA WithoutCodec ==
  ASSUME NEW w, Sane(w), w.codec = NoCodec
  PROVE  Without(w)
<1>1. /\ IsWorld(w) /\ RendererTyped(w.renderer) /\ Empty(w.renderer)
  BY DEF Sane, IsWorld, Works, Owns, SetUp
<1>2. w.renderer.input.data = <<>>
  BY <1>1, Buffers DEF Empty
<1> QED
  BY <1>1, <1>2, NoCodecIs DEF Without, Void, Empty, RendererTyped

LEMMA ThrownFresh ==
  ASSUME NEW w, IsWorld(w), DOMAIN w.renderer = DOMAIN NewRenderer, Void(w.renderer, w.codec)
  PROVE  Fresh(Throws(w))
<1> DEFINE v == Throws(w)
           q == [w.renderer EXCEPT !.failed = TRUE]
<1>1. v.codec = w.codec /\ v.renderer = q
  BY DEF Throws, IsWorld
<1>2. q.input = w.renderer.input /\ q.output = w.renderer.output /\ q.failed
  BY FieldsOf
<1> HIDE DEF v, q
<1>3. Fresh(v)
  BY <1>1, <1>2 DEF Fresh, Void
<1> QED
  BY <1>3 DEF v

LEMMA InitializedFresh ==
  ASSUME NEW w, Without(w), NEW v \in Initialized(w)
  PROVE  Fresh(v)
<1> DEFINE r == w.renderer
           c == NewCodec(r.format, device.protected)
           created == [w EXCEPT !.codec = c]
           q == [r EXCEPT !.input = NoBuffer, !.output = NoBuffer,
                          !.waitingForFirstSyncFrame = TRUE]
           u == [created EXCEPT !.renderer.input = NoBuffer, !.renderer.output = NoBuffer,
                                !.renderer.waitingForFirstSyncFrame = TRUE]
<1>1. v = u \/ v = Throws(w) \/ v = Throws(created)
  BY DEF Initialized
<1>2. DOMAIN created = DOMAIN w /\ created.codec = c /\ created.renderer = r
  BY DEF Without, IsWorld
<1>3. u.codec = c /\ u.renderer = q
  BY DEF Without, IsWorld
<1>4. c.queue = <<>> /\ c.outputs = <<>>
  BY NoCodecIs DEF NewCodec, NoCodec
<1>5. q.input = NoBuffer /\ q.output = NoBuffer /\ q.waitingForFirstSyncFrame
  BY FieldsOf DEF Without
<1> HIDE DEF c, created, u, q
<1>6. CASE v = u
  BY <1>3, <1>4, <1>5, <1>6, Buffers DEF Fresh, Void
<1>7. CASE v = Throws(w)
  BY <1>7, ThrownFresh DEF Without
<1>8. CASE v = Throws(created)
  <2>1. IsWorld(created) /\ DOMAIN created.renderer = DOMAIN NewRenderer
    BY <1>2 DEF Without, IsWorld
  <2>2. Void(created.renderer, created.codec)
    BY <1>2, <1>4 DEF Without, Void
  <2> QED
    BY <1>8, <2>1, <2>2, ThrownFresh
<1> QED
  BY <1>1, <1>6, <1>7, <1>8

LEMMA InitFresh ==
  ASSUME NEW w, Without(w), device.protected \in BOOLEAN, NEW v \in maybeInitCodec(w)
  PROVE  Fresh(v)
<1>1. ASSUME NEW u, Without(u) PROVE Fresh(u)
  BY <1>1 DEF Without, Fresh
<1>2. ASSUME NEW u \in SessionOpened(w) PROVE Without(u)
  <2>1. CASE w.renderer.openedDrmSession
    BY <2>1 DEF SessionOpened
  <2>2. CASE ~w.renderer.openedDrmSession
    <3> DEFINE q == [w.renderer EXCEPT !.openedDrmSession = TRUE]
    <3>1. PICK d \in open(w.drm) : u = [w EXCEPT !.drm = d, !.renderer.openedDrmSession = TRUE]
      BY <2>2 DEF SessionOpened
    <3>2. DOMAIN u = DOMAIN w /\ u.codec = w.codec /\ u.renderer = q
      BY <3>1 DEF Without, IsWorld
    <3>3. q.input = w.renderer.input /\ q.output = w.renderer.output
          /\ DOMAIN q = DOMAIN w.renderer
      BY FieldsOf DEF Without
    <3> HIDE DEF q
    <3> QED
      BY <3>2, <3>3 DEF Without, IsWorld, Void
  <2> QED
    BY <2>1, <2>2
<1>3. CASE ~shouldInitCodec(w)
  BY <1>1, <1>3 DEF maybeInitCodec
<1>4. CASE shouldInitCodec(w) /\ ~device.protected
  <2>1. v \in Initialized(w)
    BY <1>4 DEF maybeInitCodec
  <2> QED
    BY <2>1, InitializedFresh
<1>5. CASE shouldInitCodec(w) /\ device.protected
  <2>1. PICK u \in SessionOpened(w) :
          v \in CASE u.drm.state = "ERROR" -> {Throws(u)}
                  [] IsOpened(u.drm) -> Initialized(u)
                  [] OTHER -> {u}
    BY <1>5 DEF maybeInitCodec
  <2>2. v = Throws(u) \/ v \in Initialized(u) \/ v = u
    BY <2>1 DEF IsOpened
  <2>3. Without(u)
    BY <1>2
  <2>4. Fresh(Throws(u))
    BY <2>3, ThrownFresh DEF Without
  <2> QED
    BY <1>1, <2>2, <2>3, <2>4, InitializedFresh
<1> QED
  BY <1>3, <1>4, <1>5

(* Let go of.                                                              *)
LEMMA ReleasedWithout ==
  ASSUME NEW w, Sane(w)
  PROVE  Without(releaseCodec(w))
<1>1. Owns(w.renderer, w.drm) /\ IsWorld(w) /\ (w.codec = NoCodec => Empty(w.renderer))
  BY DEF Sane, IsWorld, Works, SetUp
<1>2. Sane(releaseCodec(w)) /\ releaseCodec(w).codec = NoCodec
  BY <1>1, ReleasedCodec
<1> QED
  BY <1>2, WithoutCodec

LEMMA RewrittenVoid ==
  ASSUME NEW w, IsWorld(w), DOMAIN w.renderer = DOMAIN NewRenderer, Void(w.renderer, w.codec)
  PROVE  Void(Rewritten(w).renderer, Rewritten(w).codec)
<1>1. CASE w.renderer.reconfigured
  <2> DEFINE v == Rewritten(w)
             q == [w.renderer EXCEPT !.reconfiguration = "WRITE_PENDING"]
  <2>1. v.codec = w.codec /\ v.renderer = q
    BY <1>1 DEF Rewritten, IsWorld
  <2>2. q.input = w.renderer.input /\ q.output = w.renderer.output
    BY FieldsOf
  <2> HIDE DEF v, q
  <2>3. Void(v.renderer, v.codec)
    BY <2>1, <2>2 DEF Void
  <2> QED
    BY <2>3 DEF v
<1>2. CASE ~w.renderer.reconfigured
  BY <1>2 DEF Rewritten
<1> QED
  BY <1>1, <1>2

LEMMA FlushVoid ==
  ASSUME NEW w, Sane(w), w.codec # NoCodec, device.protected \in BOOLEAN,
         NEW v \in flushCodec(w)
  PROVE  Void(v.renderer, v.codec)
<1>1. IsWorld(w) /\ DOMAIN w.renderer = DOMAIN NewRenderer /\ DOMAIN w.codec = DOMAIN NoCodec
  BY DEF Sane, IsWorld, Works, Owns, RendererTyped, CodecTyped
<1>2. CASE device.flushes
  <2>1. PICK u \in Flushed(w) : v = Rewritten(u)
    BY <1>2 DEF flushCodec
  <2>2. PICK f \in {w.codec.current, w.codec.configured} :
          u = [w EXCEPT !.codec = [@ EXCEPT !.current = f, !.begun = FALSE, !.queue = <<>>,
                                            !.outputs = <<>>],
                        !.renderer.input = NoBuffer, !.renderer.output = NoBuffer,
                        !.renderer.decodeOnly = {}]
    BY DEF Flushed
  <2> DEFINE c == [w.codec EXCEPT !.current = f, !.begun = FALSE, !.queue = <<>>,
                                  !.outputs = <<>>]
             q == [w.renderer EXCEPT !.input = NoBuffer, !.output = NoBuffer,
                                     !.decodeOnly = {}]
  <2>3. DOMAIN u = DOMAIN w /\ u.codec = c /\ u.renderer = q
    BY <1>1, <2>2 DEF IsWorld
  <2>4. c.queue = <<>> /\ c.outputs = <<>>
    BY <1>1, NoCodecIs
  <2>5. q.input = NoBuffer /\ q.output = NoBuffer /\ DOMAIN q = DOMAIN NewRenderer
    BY <1>1, FieldsOf
  <2> HIDE DEF c, q
  <2>6. Void(u.renderer, u.codec) /\ IsWorld(u) /\ DOMAIN u.renderer = DOMAIN NewRenderer
    BY <1>1, <2>3, <2>4, <2>5, Buffers DEF Void, IsWorld
  <2> QED
    BY <2>1, <2>6, RewrittenVoid
<1>3. CASE ~device.flushes
  <2>1. PICK u \in maybeInitCodec(releaseCodec(w)) : v = Rewritten(u)
    BY <1>3 DEF flushCodec
  <2>2. Fresh(u)
    BY ReleasedWithout, InitFresh
  <2>3. Sane(releaseCodec(w)) /\ releaseCodec(w).codec = NoCodec
    <3>1. Owns(w.renderer, w.drm) /\ SetUp(w.renderer, w.codec, w.drm)
      BY DEF Sane, Works
    <3> QED
      BY <1>1, <3>1, ReleasedCodec DEF SetUp
  <2>4. Sane(u)
    BY <2>3, InitWorks
  <2>5. IsWorld(u) /\ DOMAIN u.renderer = DOMAIN NewRenderer /\ Void(u.renderer, u.codec)
    BY <2>2, <2>4 DEF Sane, IsWorld, Works, Owns, RendererTyped, Fresh
  <2> QED
    BY <2>1, <2>5, RewrittenVoid
<1> QED
  BY <1>2, <1>3

(* Another format makes another decoder, or changes nothing in this one.   *)
LEMMA FormatFresh ==
  ASSUME NEW w, Sane(w), NEW f \in Formats, w.renderer.state \notin {"DISABLED", "RELEASED"},
         device.protected \in BOOLEAN, NEW v \in onInputFormatChanged(w, f)
  PROVE  \/ Fresh(v)
         \/ /\ w.codec # NoCodec /\ v.codec = w.codec
            /\ Changed(w.renderer, v.renderer, {"format", "reconfigured", "reconfiguration"})
<1> DEFINE r == w.renderer
           q == [r EXCEPT !.format = f]
           p == [q EXCEPT !.reconfigured = TRUE, !.reconfiguration = "WRITE_PENDING"]
           b == [w EXCEPT !.renderer.format = f]
<1>1. Works(r, w.codec, w.drm) /\ DOMAIN w = {"renderer", "codec", "drm"}
  BY DEF Sane
<1>2. /\ RendererTyped(r) /\ Owns(r, w.drm) /\ SetUp(r, w.codec, w.drm)
  BY <1>1 DEF Works, Owns
<1>3. DOMAIN b = DOMAIN w /\ b.codec = w.codec /\ b.drm = w.drm /\ b.renderer = q
  BY <1>1
<1>4. /\ DOMAIN q = DOMAIN r /\ q.format = f
      /\ \A g \in DOMAIN r \ {"format"} : q[g] = r[g]
  BY <1>2, FieldsOf DEF RendererTyped
<1>5. w.codec # NoCodec /\ device.adaptive =>
        v = [b EXCEPT !.renderer.reconfigured = TRUE,
                      !.renderer.reconfiguration = "WRITE_PENDING"]
  BY DEF onInputFormatChanged
<1>6. ~(w.codec # NoCodec /\ device.adaptive) => v \in maybeInitCodec(releaseCodec(b))
  BY DEF onInputFormatChanged
<1> HIDE DEF b, q
<1>7. RendererTyped(q)
  BY <1>2, <1>4, FieldsOf DEF RendererTyped
<1>8. /\ q.state = r.state /\ q.openedDrmSession = r.openedDrmSession
      /\ q.waitingForKeys = r.waitingForKeys /\ q.holder = r.holder
      /\ q.input = r.input /\ q.output = r.output /\ q.reconfigured = r.reconfigured
      /\ q.reconfiguration = r.reconfiguration
  BY <1>2, <1>4, FieldsOf DEF RendererTyped
<1>9. CASE w.codec # NoCodec /\ device.adaptive
  <2>1. /\ DOMAIN p = DOMAIN q
        /\ \A g \in DOMAIN q \ {"reconfigured", "reconfiguration"} : p[g] = q[g]
    BY <1>7, FieldsOf DEF RendererTyped
  <2>2. v.codec = w.codec /\ v.renderer = p
    BY <1>1, <1>3, <1>5, <1>9
  <2> HIDE DEF p
  <2> QED
    BY <1>4, <1>9, <2>1, <2>2 DEF Changed
<1>10. CASE ~(w.codec # NoCodec /\ device.adaptive)
  <2>1. Owns(q, w.drm)
    BY <1>2, <1>7, <1>8 DEF Owns
  <2>2. b.codec = NoCodec => Empty(b.renderer)
    BY <1>2, <1>3, <1>8 DEF SetUp, Empty
  <2>3. Sane(releaseCodec(b)) /\ releaseCodec(b).codec = NoCodec
    BY <1>1, <1>3, <2>1, <2>2, ReleasedCodec DEF IsWorld
  <2> QED
    BY <1>6, <1>10, <2>3, WithoutCodec, InitFresh
<1> QED
  BY <1>9, <1>10

-----------------------------------------------------------------------------
(* What a call leaves.                                                     *)

LEMMA Settles ==
  ASSUME NEW w, NEW then, Leaves(w, then), Streams(w.renderer, w.codec, source', then)
  PROVE  StreamInv'
<1>1. /\ renderer' = w.renderer /\ codec' = w.codec /\ (phase' = "idle" \/ phase' = then)
  BY DEF Leaves
<1>2. Streams(renderer', codec', source', phase')
  BY <1>1 DEF Streams, Awaits
<1> QED
  BY <1>2 DEF StreamInv

LEMMA SourceIs ==
  ASSUME NEW s, SourceTyped(s)
  PROVE  /\ s.next \in Nat \ {0} /\ s.wanted \in Int /\ s.early \in Int /\ s.wanted \in Frames
         /\ s.next \notin Frames => \A n \in Frames : n < s.next
BY FramesAre DEF SourceTyped

(* The renderer's part in what a decoder that is made or flushed leaves.   *)
Kin == Renewed \cup {"format", "holder", "surface", "state"}

LEMMA AwaitsStill ==
  ASSUME NEW r, NEW c, NEW p, NEW q, NEW e, Awaits(r, c, p), RendererTyped(r),
         Changed(r, q, Kin), NEW then, then # "idle" => Void(q, e)
  PROVE  Awaits(q, e, then)
<1>1. /\ q.shown = r.shown /\ q.inputStreamEnded = r.inputStreamEnded
      /\ q.outputStreamEnded = r.outputStreamEnded
  BY FieldsOf DEF Changed, Kin, Renewed, Anew, RendererTyped
<1> QED
  BY <1>1 DEF Awaits

LEMMA AwaitsRenewed ==
  ASSUME NEW r, NEW c, NEW p, NEW q, NEW e, Awaits(r, c, p), RendererTyped(r),
         Changed(r, q, Kin), Void(q, e), NEW z, SourceTyped(z)
  PROVE  Flows(q, e, z)
<1>1. /\ q.shown = 0 /\ ~q.inputStreamEnded /\ ~q.outputStreamEnded
  BY FieldsOf DEF Changed, Kin, Renewed, Anew, RendererTyped, Awaits
<1> QED
  BY <1>1, Renew, SourceIs

LEMMA FreshFlows ==
  ASSUME NEW r, NEW c, NEW s, NEW z, NEW v, Flowing(r, c, s), RendererTyped(r), Fresh(v),
         Changed(r, v.renderer, Kin), SourceTyped(s), SourceTyped(z), s.next <= z.next,
         z.wanted = s.wanted, z.early = s.early
  PROVE  Flows(v.renderer, v.codec, z)
<1> DEFINE q == v.renderer
<1>1. /\ q.shown = r.shown /\ q.inputStreamEnded = r.inputStreamEnded
      /\ q.outputStreamEnded = r.outputStreamEnded
  BY FieldsOf DEF Changed, Kin, Renewed, Anew, RendererTyped
<1>2. z.next \in Frames => s.next \in Frames
  BY SourceIs, FramesAre DEF SourceTyped
<1>3. s.next \in Nat /\ z.next \in Nat
  BY SourceIs
<1> QED
  BY <1>1, <1>2, <1>3, Emptied DEF Fresh

LEMMA FailsStreams ==
  ASSUME NEW w, Sane(w), Fails(w), InSync(source),
         IF source.discontinuity THEN Awaits(w.renderer, w.codec, phase)
                                 ELSE Flowing(w.renderer, w.codec, source)
  PROVE  StreamInv'
<1> DEFINE v == Throws(w)
<1>1. /\ v.codec = w.codec /\ v.renderer.failed /\ Changed(w.renderer, v.renderer, {"failed"})
  BY ThrownWorks
<1>2. UNCHANGED source /\ Leaves(v, "idle")
  BY DEF Fails
<1> HIDE DEF v
<1>3. RendererTyped(w.renderer)
  BY DEF Sane, Works, Owns
<1>4. CASE source.discontinuity
  <2>1. Changed(w.renderer, v.renderer, Kin)
    BY <1>1 DEF Changed, Kin, Renewed, Anew
  <2>2. Awaits(v.renderer, v.codec, "idle")
    BY <1>3, <1>4, <2>1, AwaitsStill
  <2>3. Streams(v.renderer, v.codec, source', "idle")
    BY <1>2, <1>4, <2>2 DEF Streams
  <2> QED
    BY <1>2, <2>3, Settles
<1>5. CASE ~source.discontinuity
  <2>1. Changed(w.renderer, v.renderer, Besides \cup {"input", "failed", "waitingForFirstSyncFrame"})
    BY <1>1 DEF Changed, Besides
  <2>2. /\ v.renderer.input = w.renderer.input
        /\ v.renderer.waitingForFirstSyncFrame = w.renderer.waitingForFirstSyncFrame
    BY <1>1, <1>3, FieldsOf DEF Changed, RendererTyped
  <2>3. Flowing(v.renderer, v.codec, source)
    BY <1>1, <1>3, <1>5, <2>1, <2>2, Alike
  <2>4. Streams(v.renderer, v.codec, source', "idle")
    BY <1>1, <1>2, <1>5, <2>3 DEF Streams, Flows, Fed
  <2> QED
    BY <1>2, <2>4, Settles
<1> QED
  BY <1>4, <1>5

-----------------------------------------------------------------------------
(* doSomeWork.                                                             *)

LEMMA StreamsIs ==
  ASSUME StreamInv
  PROVE  /\ InSync(source)
         /\ source.discontinuity => Awaits(renderer, codec, phase)
         /\ ~source.discontinuity => Flowing(renderer, codec, source) /\ Fed(renderer, source)
BY DEF StreamInv, Streams, Flows

LEMMA EarlierIs ==
  ASSUME SourceTyped(source), DiscontinuityRead \/ FormatRead
  PROVE  source'.wanted = source.wanted /\ source'.early = source.early
BY DEF SourceTyped, DiscontinuityRead, FormatRead

(* The source is as it was, and so is the rest.                            *)
LEMMA NothingStreams ==
  ASSUME StreamInv, UNCHANGED source, NEW then, Leaves(World, then),
         source.discontinuity => then \in {"idle", phase}
  PROVE  StreamInv'
<1>1. Streams(renderer, codec, source', then)
  BY DEF StreamInv, Streams, Awaits
<1> QED
  BY <1>1, WorldIs, Settles

LEMMA FormatStreams ==
  ASSUME IInv, FormatRead, NEW w, Sane(w), Flowing(w.renderer, w.codec, source),
         w.renderer.state \notin {"DISABLED", "RELEASED"},
         \/ w.codec = NoCodec
         \/ ~w.renderer.waitingForKeys /\ w.renderer.reconfiguration # "QUEUE_PENDING",
         Fed(w.renderer, source'),
         NEW v \in onInputFormatChanged(w, source'.announced), NEW then, Leaves(v, then)
  PROVE  StreamInv'
<1>1. SourceTyped(source) /\ device.protected \in BOOLEAN
  BY Begun
<1>2. /\ SourceTyped(source') /\ source'.next = source.next
      /\ ~source'.discontinuity /\ source'.announced \in Formats
  BY <1>1, FormatIs
<1>3. source'.wanted = source.wanted /\ source'.early = source.early
  BY <1>1, EarlierIs
<1>4. InSync(source')
  <2>1. source'.announced = Samples[source.next].format
    BY <1>1 DEF FormatRead, SourceTyped
  <2> QED
    BY <1>2, <2>1 DEF InSync
<1>5. RendererTyped(w.renderer)
  BY DEF Sane, Works, Owns
<1>6. Changed(w.renderer, v.renderer, Renewed \cup {"format"})
  BY <1>1, <1>2, FormatWorks
<1>7. CASE Fresh(v)
  <2>1. Changed(w.renderer, v.renderer, Kin)
    BY <1>6 DEF Changed, Kin
  <2>2. source.next <= source'.next
    BY <1>1, <1>2, SourceIs
  <2>3. Flows(v.renderer, v.codec, source')
    BY <1>1, <1>2, <1>3, <1>5, <1>7, <2>1, <2>2, FreshFlows
  <2> QED
    BY <1>2, <1>4, <2>3, Settles DEF Streams
<1>8. CASE /\ w.codec # NoCodec /\ v.codec = w.codec
           /\ Changed(w.renderer, v.renderer, {"format", "reconfigured", "reconfiguration"})
  <2>1. Changed(w.renderer, v.renderer, Besides \cup {"input", "failed", "waitingForFirstSyncFrame"})
    BY <1>8 DEF Changed, Besides
  <2>2. /\ v.renderer.input = w.renderer.input /\ v.renderer.failed = w.renderer.failed
        /\ v.renderer.waitingForFirstSyncFrame = w.renderer.waitingForFirstSyncFrame
        /\ v.renderer.waitingForKeys = w.renderer.waitingForKeys
    BY <1>5, <1>8, FieldsOf DEF Changed, RendererTyped
  <2>3. Flowing(v.renderer, v.codec, source')
    BY <1>2, <1>3, <1>5, <1>8, <2>1, <2>2, Alike
  <2>4. Fed(v.renderer, source')
    BY <2>2 DEF Fed
  <2>5. Streams(v.renderer, v.codec, source', then)
    BY <1>2, <1>4, <2>3, <2>4 DEF Streams, Flows
  <2> QED
    BY <2>5, Settles
<1> QED
  BY <1>1, <1>2, <1>7, <1>8, FormatFresh

LEMMA FlushStreams ==
  ASSUME IInv, StreamInv, DiscontinuityRead, NEW w, Sane(w), w.codec # NoCodec,
         Changed(renderer, w.renderer, {"input", "reconfiguration"}),
         ~w.renderer.waitingForKeys, NEW v \in flushCodec(w), NEW then, Leaves(v, then)
  PROVE  StreamInv'
<1>1. SourceTyped(source) /\ device.protected \in BOOLEAN /\ RendererTyped(renderer)
  BY Begun
<1>2. /\ SourceTyped(source') /\ source'.next = source.next /\ ~source'.discontinuity
      /\ source'.announced = source.announced /\ source.discontinuity
  BY <1>1, DiscontinuityIs
<1>3. Void(v.renderer, v.codec)
  BY <1>1, FlushVoid
<1>4. Changed(w.renderer, v.renderer, Renewed)
  BY <1>1, FlushWorks
<1>5. Changed(renderer, v.renderer, Kin)
  BY <1>4 DEF Changed, Kin, Renewed, Anew
<1>6. Flows(v.renderer, v.codec, source')
  BY <1>1, <1>2, <1>3, <1>5, StreamsIs, AwaitsRenewed
<1>7. InSync(source')
  BY <1>2, StreamsIs DEF InSync
<1> QED
  BY <1>2, <1>6, <1>7, Settles DEF Streams

(* A discontinuity is read without a decoder.                              *)
LEMMA ReadStreams ==
  ASSUME IInv, StreamInv, DiscontinuityRead, codec = NoCodec, Leaves(World, "idle")
  PROVE  StreamInv'
<1>1. SourceTyped(source) /\ Sane(World) /\ RendererTyped(renderer)
  BY Begun
<1>2. /\ SourceTyped(source') /\ source'.next = source.next /\ ~source'.discontinuity
      /\ source'.announced = source.announced /\ source.discontinuity
  BY <1>1, DiscontinuityIs
<1>3. Void(renderer, codec)
  BY <1>1, WorldIs, WithoutCodec DEF Without
<1>4. Changed(renderer, renderer, Kin)
  BY DEF Changed
<1>5. Flows(renderer, codec, source')
  BY <1>1, <1>2, <1>3, <1>4, StreamsIs, AwaitsRenewed
<1>6. InSync(source')
  BY <1>2, StreamsIs DEF InSync
<1> QED
  BY <1>2, <1>5, <1>6, WorldIs, Settles DEF Streams

-----------------------------------------------------------------------------
LEMMA DiscardStreams ==
  ASSUME IInv, StreamInv, codec = NoCodec, discardSamples,
         renderer.state \notin {"DISABLED", "RELEASED"}
  PROVE  StreamInv'
<1>1. /\ Sane(World) /\ SourceTyped(source) /\ device.protected \in BOOLEAN
      /\ RendererTyped(renderer) /\ DOMAIN renderer = DOMAIN NewRenderer
  BY Begun
<1>2. CASE DiscontinuityRead /\ Leaves(World, "idle")
  BY <1>2, ReadStreams
<1>3. CASE ~(DiscontinuityRead /\ Leaves(World, "idle"))
  <2>1. ~source.discontinuity
    BY <1>3 DEF discardSamples
  <2>2. PICK n \in source.next..Len(Samples) + 1 :
          LET w == [World EXCEPT !.renderer.holder = IF n = source.next THEN @ ELSE n - 1]
          IN  /\ \A m \in source.next..n - 1 : Samples[m].format = source.announced
              /\ \/ /\ source' = [source EXCEPT !.next = n]
                    /\ Leaves(w, "idle")
                 \/ /\ n \in Frames /\ Samples[n].format # source.announced
                    /\ source' = [source EXCEPT !.next = n, !.announced = Samples[n].format]
                    /\ \E v \in onInputFormatChanged(w, Samples[n].format) : Leaves(v, "idle")
    BY <1>3 DEF discardSamples
  <2> DEFINE w == [World EXCEPT !.renderer.holder = IF n = source.next THEN @ ELSE n - 1]
  <2>3. /\ n \in 1..Len(Samples) + 1 /\ source.next \in 1..Len(Samples) + 1
        /\ n # source.next => n - 1 \in Frames /\ n - 1 \in source.next..n - 1
        /\ source.next <= n
    BY <1>1, FramesAre DEF SourceTyped
  <2>4. /\ Sane(w) /\ w.codec = NoCodec /\ Changed(renderer, w.renderer, {"holder"})
    <3> DEFINE m == IF n = source.next THEN renderer.holder ELSE n - 1
    <3>1. w = [World EXCEPT !.renderer.holder = m]
      BY WorldIs
    <3>2. m \in Frames \/ m = renderer.holder
      BY <2>3
    <3> HIDE DEF m, w
    <3> QED
      BY <1>1, <3>1, <3>2, WorldIs, HeldWorks
  <2>5. /\ \A m \in source.next..n - 1 : Samples[m].format = source.announced
        /\ \/ /\ source' = [source EXCEPT !.next = n]
              /\ Leaves(w, "idle")
           \/ /\ n \in Frames
              /\ source' = [source EXCEPT !.next = n, !.announced = Samples[n].format]
              /\ \E v \in onInputFormatChanged(w, Samples[n].format) : Leaves(v, "idle")
    BY <2>2
  <2> HIDE DEF w
  <2>6. Flowing(renderer, codec, source)
    BY <2>1, StreamsIs
  <2>7. Void(w.renderer, w.codec) /\ RendererTyped(w.renderer)
    BY <2>4, WithoutCodec DEF Without, Sane, Works, Owns
  <2>8. CASE source' = [source EXCEPT !.next = n] /\ Leaves(w, "idle")
    <3>1. /\ SourceTyped(source') /\ ~source'.discontinuity /\ source'.next = n
          /\ source'.announced = source.announced /\ source'.wanted = source.wanted
          /\ source'.early = source.early
      BY <1>1, <2>1, <2>3, <2>8 DEF SourceTyped
    <3>2. InSync(source')
      <4> SUFFICES ASSUME n \in Frames, source.announced # Samples[n].format
                   PROVE  Samples[n].sync
        BY <3>1 DEF InSync
      <4>1. CASE n = source.next
        BY <4>1, StreamsIs DEF InSync
      <4>2. CASE n # source.next
        <5>1. n - 1 \in Frames /\ Samples[n - 1].format = source.announced
          BY <2>3, <2>5, <4>2
        <5>2. n # 1
          BY <5>1, FramesAre
        <5> QED
          BY <5>1, <5>2, SamplesAssumption
      <4> QED
        BY <4>1, <4>2
    <3>3. Fresh(w)
      BY <2>4, <2>7 DEF Fresh
    <3>4. Changed(renderer, w.renderer, Kin)
      BY <2>4 DEF Changed, Kin
    <3>5. source.next <= source'.next
      BY <2>3, <3>1
    <3>6. Flows(w.renderer, w.codec, source')
      BY <1>1, <2>6, <3>1, <3>3, <3>4, <3>5, FreshFlows
    <3> QED
      BY <2>8, <3>1, <3>2, <3>6, Settles DEF Streams
  <2>9. ASSUME n \in Frames,
               source' = [source EXCEPT !.next = n, !.announced = Samples[n].format],
               NEW v \in onInputFormatChanged(w, Samples[n].format), Leaves(v, "idle")
        PROVE  StreamInv'
    <3>1. Samples[n].format \in Formats
      BY <2>9, FramesAre
    <3>2. /\ SourceTyped(source') /\ ~source'.discontinuity /\ source'.next = n
          /\ source'.announced = Samples[n].format /\ source'.wanted = source.wanted
          /\ source'.early = source.early
      BY <1>1, <2>1, <2>3, <2>9, <3>1 DEF SourceTyped
    <3>3. InSync(source')
      BY <3>2 DEF InSync
    <3>4. w.renderer.state \notin {"DISABLED", "RELEASED"}
      BY <1>1, <2>4, FieldsOf DEF Changed
    <3>5. Fresh(v)
      BY <1>1, <2>4, <2>9, <3>1, <3>4, FormatFresh
    <3>6. Changed(w.renderer, v.renderer, Renewed \cup {"format"})
      BY <1>1, <2>4, <2>9, <3>1, <3>4, FormatWorks
    <3>7. Changed(renderer, v.renderer, Kin)
      BY <2>4, <3>6 DEF Changed, Kin
    <3>8. source.next <= source'.next
      BY <2>3, <3>2
    <3>9. Flows(v.renderer, v.codec, source')
      BY <1>1, <2>6, <3>2, <3>5, <3>7, <3>8, FreshFlows
    <3> QED
      BY <2>9, <3>2, <3>3, <3>9, Settles DEF Streams
  <2> QED
    BY <2>5, <2>8, <2>9
<1> QED
  BY <1>2, <1>3

LEMMA DoSomeWorkStreams ==
  ASSUME IInv, StreamInv, doSomeWork
  PROVE  StreamInv'
<1>1. /\ phase = "idle" /\ ~renderer.failed
      /\ renderer.state \notin {"DISABLED", "RELEASED"}
  BY DEF doSomeWork, Working, Idle
<1>2. /\ Sane(World) /\ SourceTyped(source) /\ Follows(renderer, codec, source)
      /\ device.protected \in BOOLEAN /\ RendererTyped(renderer)
      /\ DOMAIN renderer = DOMAIN NewRenderer /\ SetUp(renderer, codec, drm)
  BY Begun
<1>3. CASE Fails(World)
  <2>1. IF source.discontinuity THEN Awaits(renderer, codec, phase)
                                ELSE Flowing(renderer, codec, source)
    BY StreamsIs
  <2> QED
    BY <1>2, <1>3, <2>1, WorldIs, StreamsIs, FailsStreams
<1>4. CASE renderer.format = NoFormat /\ readFormat
  <2>1. codec = NoCodec
    BY <1>2, <1>4, Buffers DEF SetUp
  <2>2. CASE NothingRead /\ Leaves(World, "idle")
    BY <2>2, NothingStreams DEF NothingRead
  <2>3. CASE DiscontinuityRead /\ Leaves(World, "idle")
    BY <2>1, <2>3, ReadStreams
  <2>4. ASSUME FormatRead, NEW w \in onInputFormatChanged(World, source'.announced),
               Leaves(w, "idle")
        PROVE  StreamInv'
    <3>1. ~source.discontinuity
      BY <2>4 DEF FormatRead, HasNext
    <3>2. Flowing(renderer, codec, source)
      BY <3>1, StreamsIs
    <3>3. Fed(renderer, source')
      BY <1>2, <2>1, WorldIs, WithoutCodec DEF Without, Void, Fed
    <3> QED
      BY <1>1, <1>2, <2>1, <2>4, <3>2, <3>3, WorldIs, FormatStreams
  <2> QED
    BY <1>4, <2>2, <2>3, <2>4 DEF readFormat
<1>5. CASE codec = NoCodec /\ discardSamples
  BY <1>1, <1>5, DiscardStreams
<1>6. ASSUME codec = NoCodec, UNCHANGED source, NEW w \in maybeInitCodec(World),
             Leaves(w, IF w.codec = NoCodec THEN "idle" ELSE "drain")
      PROVE  StreamInv'
  <2> DEFINE then == IF w.codec = NoCodec THEN "idle" ELSE "drain"
  <2>1. Fresh(w)
    BY <1>2, <1>6, WorldIs, WithoutCodec, InitFresh
  <2>2. Changed(renderer, w.renderer, Anew)
    BY <1>2, <1>6, WorldIs, InitWorks
  <2>3. Changed(renderer, w.renderer, Kin)
    BY <2>2 DEF Changed, Kin, Renewed
  <2>4. Streams(w.renderer, w.codec, source, then)
    <3>1. CASE source.discontinuity
      <4>1. Awaits(w.renderer, w.codec, then)
        BY <1>2, <2>1, <2>3, <3>1, StreamsIs, AwaitsStill DEF Fresh
      <4> QED
        BY <3>1, <4>1, StreamsIs DEF Streams
    <3>2. CASE ~source.discontinuity
      <4>1. Flowing(renderer, codec, source) /\ source.next <= source.next
        BY <1>2, <3>2, StreamsIs, SourceIs
      <4>2. Flows(w.renderer, w.codec, source)
        BY <1>2, <2>1, <2>3, <4>1, FreshFlows
      <4> QED
        BY <3>2, <4>2, StreamsIs DEF Streams
    <3> QED
      BY <3>1, <3>2
  <2>5. source' = source
    BY <1>6
  <2>6. Streams(w.renderer, w.codec, source', then)
    BY <2>4, <2>5
  <2>7. Leaves(w, then)
    BY <1>6
  <2> QED
    BY <2>6, <2>7, Settles
<1>7. CASE codec # NoCodec /\ checkForDiscontinuity
  <2>1. CASE source.discontinuity
    <3>1. ~renderer.waitingForKeys
      BY <1>2, <2>1 DEF Follows
    <3>2. PICK w \in flushCodec(World) : DiscontinuityRead /\ Leaves(w, "drain")
      BY <1>7, <2>1 DEF checkForDiscontinuity
    <3>3. Changed(renderer, renderer, {"input", "reconfiguration"})
      BY DEF Changed
    <3> QED
      BY <1>2, <1>7, <3>1, <3>2, <3>3, WorldIs, FlushStreams
  <2>2. CASE ~source.discontinuity
    <3>1. NothingRead /\ Leaves(World, "drain")
      BY <1>7, <2>2 DEF checkForDiscontinuity
    <3> QED
      BY <2>2, <3>1, NothingStreams DEF NothingRead
  <2> QED
    BY <2>1, <2>2
<1> QED
  BY <1>3, <1>4, <1>5, <1>6, <1>7 DEF doSomeWork

-----------------------------------------------------------------------------
(* drainOutputBuffer.                                                      *)

LEMMA DrainStreams ==
  ASSUME IInv, StreamInv, drainOutputBuffer
  PROVE  StreamInv'
<1> DEFINE w == Dequeued
           r == w.renderer
<1>1. phase = "drain" /\ codec # NoCodec /\ UNCHANGED source
  BY DEF drainOutputBuffer, IInv
<1>2. /\ Sane(World) /\ RendererTyped(renderer) /\ CodecTyped(codec) /\ SourceTyped(source)
  BY Begun
<1>3. /\ Sane(w) /\ w.codec # NoCodec /\ w.codec.queue = codec.queue
      /\ Changed(renderer, w.renderer, {"output"})
  BY <1>1, DequeuedWorks
<1>4. renderer.outputStreamEnded \in BOOLEAN
  BY <1>2 DEF RendererTyped
<1>5. /\ renderer.outputStreamEnded => Leaves(World, "feed")
      /\ ~renderer.outputStreamEnded /\ w.renderer.output = NoBuffer => Leaves(w, "feed")
      /\ ~renderer.outputStreamEnded /\ w.renderer.output = EndOfStream =>
           Leaves([w EXCEPT !.renderer.outputStreamEnded = TRUE], "feed")
      /\ ~renderer.outputStreamEnded /\ w.renderer.output \notin {NoBuffer, EndOfStream} =>
           processOutputBuffer(w)
  BY <1>4, Buffers DEF drainOutputBuffer
<1>6. renderer.output # NoBuffer \/ codec.outputs = <<>> => w = World
  BY DEF Dequeued
<1>7. renderer.output = NoBuffer /\ codec.outputs # <<>> =>
        r.output = Head(codec.outputs) /\ w.codec.outputs = Tail(codec.outputs)
  <2> SUFFICES ASSUME renderer.output = NoBuffer, codec.outputs # <<>>
               PROVE  r.output = Head(codec.outputs) /\ w.codec.outputs = Tail(codec.outputs)
    OBVIOUS
  <2> DEFINE q == [renderer EXCEPT !.output = Head(codec.outputs)]
             e == [codec EXCEPT !.outputs = Tail(@)]
  <2>1. w.codec = e /\ w.renderer = q
    BY DEF Dequeued, World
  <2>2. e.outputs = Tail(codec.outputs)
    BY <1>2, NoCodecIs DEF CodecTyped
  <2>3. q.output = Head(codec.outputs)
    BY <1>2, FieldsOf DEF RendererTyped
  <2> QED
    BY <2>1, <2>2, <2>3
<1> HIDE DEF w
<1>8. CASE source.discontinuity
  <2>1. Awaits(renderer, codec, phase) /\ Void(renderer, codec)
    BY <1>1, <1>8, StreamsIs DEF Awaits
  <2>2. w = World /\ w.renderer.output = NoBuffer /\ ~renderer.outputStreamEnded
    BY <1>6, <2>1, WorldIs DEF Void, Awaits
  <2>3. Leaves(World, "feed")
    BY <1>5, <2>2
  <2>4. Streams(renderer, codec, source, "feed")
    BY <1>8, <2>1, StreamsIs DEF Streams, Awaits
  <2>5. source' = source
    BY <1>1
  <2> QED
    BY <2>3, <2>4, <2>5, WorldIs, Settles
<1>9. CASE ~source.discontinuity
  <2>1. Flowing(renderer, codec, source) /\ Fed(renderer, source) /\ InSync(source)
    BY <1>9, StreamsIs
  <2>2. Flowing(r, w.codec, source)
    <3>1. CASE renderer.output # NoBuffer \/ codec.outputs = <<>>
      BY <1>6, <2>1, <3>1, WorldIs
    <3>2. CASE renderer.output = NoBuffer /\ codec.outputs # <<>>
      BY <1>2, <1>3, <1>7, <2>1, <3>2, DequeuedFlows
    <3> QED
      BY <3>1, <3>2
  <2>3. /\ DOMAIN w = {"renderer", "codec", "drm"} /\ RendererTyped(r) /\ CodecTyped(w.codec)
    BY <1>3 DEF Sane, Works, Owns
  <2>4. ASSUME NEW v, NEW then, Leaves(v, then), Flowing(v.renderer, v.codec, source),
               Changed(renderer, v.renderer, {"output", "shown", "decodeOnly", "outputStreamEnded"})
        PROVE  StreamInv'
    <3>1. /\ v.renderer.input = renderer.input /\ v.renderer.failed = renderer.failed
          /\ v.renderer.waitingForKeys = renderer.waitingForKeys
      BY <1>2, <2>4, FieldsOf DEF Changed, RendererTyped
    <3>2. Fed(v.renderer, source)
      BY <2>1, <3>1 DEF Fed
    <3>3. Streams(v.renderer, v.codec, source, then)
      BY <1>9, <2>1, <2>4, <3>2 DEF Streams, Flows
    <3>4. source' = source
      BY <1>1
    <3> QED
      BY <2>4, <3>3, <3>4, Settles
  <2>5. CASE Leaves(World, "feed")
    <3>1. Changed(renderer, renderer, {"output", "shown", "decodeOnly", "outputStreamEnded"})
      BY DEF Changed
    <3> QED
      BY <2>1, <2>4, <2>5, <3>1, WorldIs
  <2>6. Changed(renderer, r, {"output", "shown", "decodeOnly", "outputStreamEnded"})
    BY <1>3 DEF Changed
  <2>7. CASE Leaves(w, "feed")
    BY <2>2, <2>4, <2>6, <2>7
  <2>8. CASE r.output = EndOfStream /\ Leaves([w EXCEPT !.renderer.outputStreamEnded = TRUE], "feed")
    <3> DEFINE v == [w EXCEPT !.renderer.outputStreamEnded = TRUE]
               q == [r EXCEPT !.outputStreamEnded = TRUE]
    <3>1. v.codec = w.codec /\ v.renderer = q
      BY <2>3
    <3>2. Leaves(v, "feed")
      BY <2>8
    <3> HIDE DEF v
    <3>3. /\ DOMAIN q = DOMAIN r /\ q.outputStreamEnded
          /\ \A g \in DOMAIN r \ {"outputStreamEnded"} : q[g] = r[g]
      BY <2>3, FieldsOf DEF RendererTyped
    <3> HIDE DEF q
    <3>4. Changed(r, q, {"outputStreamEnded"})
      BY <3>3 DEF Changed
    <3>5. Flowing(q, w.codec, source)
      BY <2>2, <2>3, <2>8, <3>3, <3>4, EndedOut
    <3>6. Changed(renderer, q, {"output", "shown", "decodeOnly", "outputStreamEnded"})
      BY <2>6, <3>3 DEF Changed
    <3> QED
      BY <2>4, <3>1, <3>2, <3>5, <3>6
  <2>9. ASSUME NEW shown, Released(w, shown), r.output \notin {NoBuffer, EndOfStream},
               \/ shown = r.shown
               \/ shown = r.output.time /\ r.output.time \notin r.decodeOnly
        PROVE  StreamInv'
    <3> DEFINE left == r.decodeOnly \ {r.output.time}
               q == [r EXCEPT !.output = NoBuffer, !.shown = shown, !.decodeOnly = left]
               v == [w EXCEPT !.renderer.output = NoBuffer, !.renderer.shown = shown,
                              !.renderer.decodeOnly = @ \ {w.renderer.output.time}]
    <3>1. v.codec = w.codec /\ v.renderer = q
      BY <2>3, FieldsOf DEF RendererTyped
    <3>2. Leaves(v, "drain")
      BY <2>9 DEF Released
    <3> HIDE DEF v
    <3>3. /\ DOMAIN q = DOMAIN r /\ q.output = NoBuffer /\ q.shown = shown
          /\ q.decodeOnly = left
          /\ \A g \in DOMAIN r \ {"output", "shown", "decodeOnly"} : q[g] = r[g]
      BY <2>3, FieldsOf DEF RendererTyped
    <3> HIDE DEF q
    <3>4. Changed(r, q, {"output", "shown", "decodeOnly"})
      BY <3>3 DEF Changed
    <3>5. source.next \in Nat /\ source.wanted \in Int /\ source.early \in Int
      BY <1>2, SourceIs
    <3>6. Flowing(q, w.codec, source)
      BY <2>2, <2>3, <2>9, <3>3, <3>4, <3>5, ReleasedFlows
    <3>7. Changed(renderer, q, {"output", "shown", "decodeOnly", "outputStreamEnded"})
      BY <2>6, <3>3 DEF Changed
    <3> QED
      BY <2>4, <3>1, <3>2, <3>6, <3>7
  <2>10. r.shown = renderer.shown /\ r.decodeOnly = renderer.decodeOnly
    BY <1>2, <1>3, FieldsOf DEF Changed, RendererTyped
  <2>11. CASE r.output \notin {NoBuffer, EndOfStream} /\ processOutputBuffer(w)
    <3>1. \/ Released(w, r.shown) \/ Leaves(w, "feed")
          \/ r.output.time \notin r.decodeOnly /\ Released(w, r.output.time)
      BY <2>10, <2>11 DEF processOutputBuffer
    <3> QED
      BY <2>7, <2>9, <2>11, <3>1
  <2> QED
    BY <1>4, <1>5, <2>5, <2>7, <2>8, <2>11
<1> QED
  BY <1>8, <1>9

-----------------------------------------------------------------------------
(* feedInputBuffer: what it queues, and where.                             *)

LEMMA SampleGoes ==
  ASSUME NEW w, Sane(w), NEW n \in Frames, w.renderer.input \in Buffer
  PROVE  LET v == SampleQueued(w, n)
         IN  /\ v.codec.outputs = w.codec.outputs /\ v.renderer.input = NoBuffer
             /\ v.renderer.decodeOnly = IF n < source.wanted THEN w.renderer.decodeOnly \cup {n}
                                        ELSE w.renderer.decodeOnly
<1> DEFINE r == w.renderer
           c == w.codec
           v == SampleQueued(w, n)
           b == [r.input EXCEPT !.time = n]
           e == [c EXCEPT !.queue = Append(@, b)]
           more == IF n < source.wanted THEN r.decodeOnly \cup {n} ELSE r.decodeOnly
           q == [r EXCEPT !.input = NoBuffer, !.reconfiguration = "NONE",
                          !.waitingForKeys = FALSE, !.decodeOnly = more]
           u == [w EXCEPT !.codec.queue = Append(@, b), !.renderer.input = NoBuffer]
<1>1. RendererTyped(r) /\ CodecTyped(c) /\ DOMAIN w = {"renderer", "codec", "drm"}
  BY DEF Sane, Works, Owns
<1>2. /\ DOMAIN u = DOMAIN w /\ u.codec = e /\ u.renderer = [r EXCEPT !.input = NoBuffer]
  BY <1>1
<1>3. v = [u EXCEPT !.renderer.reconfiguration = "NONE",
                    !.renderer.waitingForKeys = FALSE,
                    !.renderer.decodeOnly = IF n < source.wanted THEN @ \cup {n} ELSE @]
  BY DEF SampleQueued, queueInputBuffer
<1> HIDE DEF u
<1>4. /\ v.codec = e
      /\ v.renderer = [u.renderer EXCEPT !.reconfiguration = "NONE",
                         !.waitingForKeys = FALSE,
                         !.decodeOnly = IF n < source.wanted THEN @ \cup {n} ELSE @]
  BY <1>1, <1>2, <1>3
<1>5. v.renderer = q
  BY <1>1, <1>2, <1>4, FieldsOf DEF RendererTyped
<1> HIDE DEF v, b
<1>6. e.outputs = c.outputs
  BY <1>1, NoCodecIs DEF CodecTyped
<1>7. q.input = NoBuffer /\ q.decodeOnly = more
  BY <1>1, FieldsOf DEF RendererTyped
<1> QED
  BY <1>4, <1>5, <1>6, <1>7 DEF v

LEMMA EndGoes ==
  ASSUME NEW w, Sane(w), w.codec # NoCodec, ~w.renderer.waitingForKeys
  PROVE  LET v == EndQueued(w)
         IN  v.codec.outputs = w.codec.outputs /\ v.renderer.input = NoBuffer
<1> DEFINE t == TakenBack(w)
           r == t.renderer
           c == t.codec
           v == EndQueued(w)
           e == [c EXCEPT !.queue = Append(@, EndOfStream)]
           q == [r EXCEPT !.inputStreamEnded = TRUE, !.input = NoBuffer]
           u == [t EXCEPT !.renderer.inputStreamEnded = TRUE]
<1>1. Sane(t) /\ c = w.codec
  BY TakenBackWorks
<1>2. v = [u EXCEPT !.codec.queue = Append(@, EndOfStream), !.renderer.input = NoBuffer]
  BY DEF EndQueued, queueInputBuffer
<1> HIDE DEF t
<1>3. RendererTyped(r) /\ CodecTyped(c) /\ DOMAIN t = {"renderer", "codec", "drm"}
  BY <1>1 DEF Sane, Works, Owns
<1>4. /\ DOMAIN u = DOMAIN t /\ u.codec = c /\ u.renderer = [r EXCEPT !.inputStreamEnded = TRUE]
  BY <1>3
<1> HIDE DEF u
<1>5. v.codec = e /\ v.renderer = [u.renderer EXCEPT !.input = NoBuffer]
  BY <1>2, <1>3, <1>4
<1>6. v.renderer = q
  BY <1>3, <1>4, <1>5, FieldsOf DEF RendererTyped
<1> HIDE DEF v
<1>7. e.outputs = c.outputs
  BY <1>3, NoCodecIs DEF CodecTyped
<1>8. q.input = NoBuffer
  BY <1>3, FieldsOf DEF RendererTyped
<1> QED
  BY <1>1, <1>5, <1>6, <1>7, <1>8 DEF v

(* The buffer loses its samples, or keeps them.                            *)
LEMMA TakenBackData ==
  ASSUME NEW w, Sane(w), w.codec # NoCodec, ~w.renderer.waitingForKeys
  PROVE  \/ TakenBack(w).renderer.input.data = <<>>
         \/ TakenBack(w) = w
<1>1. CASE w.renderer.reconfiguration = "QUEUE_PENDING"
  <2>1. Cleared(w).renderer.input = EmptyBuffer
    BY ClearedWorks
  <2> QED
    BY <1>1, <2>1, Buffers DEF TakenBack
<1>2. CASE w.renderer.reconfiguration # "QUEUE_PENDING"
  BY <1>2 DEF TakenBack
<1> QED
  BY <1>1, <1>2

LEMMA ReadData ==
  ASSUME NEW w, Sane(w), w.renderer.input \in Buffer, NEW n \in Frames
  PROVE  LET v == [w EXCEPT !.renderer.holder = n, !.renderer.input.data = Append(@, n)]
         IN  v.renderer.input.data = Append(w.renderer.input.data, n)
<1> DEFINE r == w.renderer
           b == [r.input EXCEPT !.data = Append(@, n)]
           q == [r EXCEPT !.holder = n, !.input = b]
           v == [w EXCEPT !.renderer.holder = n, !.renderer.input.data = Append(@, n)]
<1>1. DOMAIN w = {"renderer", "codec", "drm"} /\ RendererTyped(r)
  BY DEF Sane, Works, Owns
<1>2. v.renderer = [r EXCEPT !.holder = n, !.input.data = Append(@, n)]
  BY <1>1
<1>3. v.renderer = q
  BY <1>1, <1>2, FieldsOf DEF RendererTyped
<1> HIDE DEF v
<1>4. b.data = Append(r.input.data, n)
  <2>1. r.input.data \in Seq(Frames)
    BY DEF Buffer
  <2>2. Append(r.input.data, n) \in Seq(Frames)
    BY <2>1
  <2> QED
    BY <2>1, <2>2, DataIs
<1> HIDE DEF b
<1>5. q.input = b
  BY <1>1, FieldsOf DEF RendererTyped
<1> QED
  BY <1>3, <1>4, <1>5 DEF v

-----------------------------------------------------------------------------
(* The sample that is held is passed on, or kept, or not.                  *)

LEMMA FeedsStreams ==
  ASSUME IInv, StreamInv, NEW w, Sane(w), w.codec # NoCodec, w.drm = drm,
         w.renderer.input \in Buffer, w.renderer.holder \in Frames,
         w.renderer.reconfiguration # "WRITE_PENDING",
         Len(w.renderer.input.data) = 1 =>
           Samples[w.renderer.input.data[1]].format = w.renderer.format,
         ~w.renderer.inputStreamEnded,
         SourceTyped(source'), ~source'.discontinuity, source'.wanted = source.wanted,
         InSync(source'), Flowing(w.renderer, w.codec, source'), Feeds(w)
  PROVE  StreamInv'
<1> DEFINE r == w.renderer
           n == r.holder
           v == [w EXCEPT !.renderer.waitingForFirstSyncFrame = FALSE]
<1>1. RendererTyped(r) /\ Holds(r) /\ CodecTyped(w.codec) /\ Owns(r, w.drm)
  BY DEF Sane, Works, Owns
<1>2. /\ Sane(v) /\ v.codec = w.codec /\ v.drm = drm
      /\ Changed(r, v.renderer, {"waitingForFirstSyncFrame"})
      /\ ~v.renderer.waitingForFirstSyncFrame
  BY SyncWorks
<1>3. \/ r.waitingForFirstSyncFrame /\ ~Samples[n].sync /\ Leaves(Cleared(w), "feed")
      \/ Leaves(Throws(v), "idle")
      \/ shouldWaitForKeys(v, n) /\ Leaves([v EXCEPT !.renderer.waitingForKeys = TRUE], "idle")
      \/ Leaves(SampleQueued(v, n), "feed")
  BY DEF Feeds
<1> HIDE DEF v
<1>4. /\ v.renderer.input = r.input /\ v.renderer.holder = n /\ v.renderer.format = r.format
      /\ v.renderer.reconfiguration = r.reconfiguration
      /\ v.renderer.openedDrmSession = r.openedDrmSession
      /\ v.renderer.failed = r.failed /\ v.renderer.decodeOnly = r.decodeOnly
  BY <1>1, <1>2, FieldsOf DEF Changed, RendererTyped
<1>5. RendererTyped(v.renderer)
  BY <1>2 DEF Sane, Works, Owns
<1>6. ASSUME NEW q, Changed(v.renderer, q, {"failed", "waitingForKeys"}),
             v.renderer.failed => q.failed
      PROVE  Flowing(q, w.codec, source')
  <2>1. /\ q.input = r.input
        /\ q.waitingForFirstSyncFrame = v.renderer.waitingForFirstSyncFrame
    BY <1>4, <1>5, <1>6, FieldsOf DEF Changed, RendererTyped
  <2>2. Changed(r, q, Besides \cup {"input", "failed", "waitingForFirstSyncFrame"})
    BY <1>2, <1>6 DEF Changed, Besides
  <2>3. r.failed => q.failed
    BY <1>4, <1>6
  <2> QED
    BY <1>1, <1>2, <2>1, <2>2, <2>3, Alike
<1>7. CASE r.waitingForFirstSyncFrame /\ ~Samples[n].sync /\ Leaves(Cleared(w), "feed")
  <2> DEFINE u == Cleared(w)
  <2>1. r.waitingForKeys => r.reconfiguration = "NONE"
    BY <1>1, <1>7 DEF Holds
  <2>2. /\ u.codec = w.codec /\ u.renderer.input = EmptyBuffer
        /\ Changed(r, u.renderer, {"input", "reconfiguration"})
    BY <2>1, ClearedWorks
  <2>3. Leaves(u, "feed")
    BY <1>7
  <2> HIDE DEF u
  <2>4. Changed(r, u.renderer, Besides \cup {"input"})
    BY <2>2 DEF Changed, Besides
  <2>5. Flows(u.renderer, u.codec, source')
    BY <1>1, <1>7, <2>2, <2>4, Buffers, Dropped
  <2> QED
    BY <2>3, <2>5, Settles DEF Streams
<1>8. CASE Leaves(Throws(v), "idle")
  <2> DEFINE u == Throws(v)
  <2>1. u.codec = w.codec /\ u.renderer.failed /\ Changed(v.renderer, u.renderer, {"failed"})
    BY <1>2, ThrownWorks
  <2>2. Leaves(u, "idle")
    BY <1>8
  <2> HIDE DEF u
  <2>3. Changed(v.renderer, u.renderer, {"failed", "waitingForKeys"})
    BY <2>1 DEF Changed
  <2>4. Flowing(u.renderer, u.codec, source')
    BY <1>6, <2>1, <2>3
  <2>5. Flows(u.renderer, u.codec, source')
    BY <2>1, <2>4 DEF Flows, Fed
  <2> QED
    BY <2>2, <2>5, Settles DEF Streams
<1>9. CASE shouldWaitForKeys(v, n) /\ Leaves([v EXCEPT !.renderer.waitingForKeys = TRUE], "idle")
  <2> DEFINE u == [v EXCEPT !.renderer.waitingForKeys = TRUE]
             q == [v.renderer EXCEPT !.waitingForKeys = TRUE]
  <2>1. u.codec = w.codec /\ u.renderer = q
    BY <1>2 DEF Sane
  <2>2. Leaves(u, "idle")
    BY <1>9
  <2> HIDE DEF u
  <2>3. /\ DOMAIN q = DOMAIN v.renderer /\ q.waitingForKeys
        /\ \A g \in DOMAIN v.renderer \ {"waitingForKeys"} : q[g] = v.renderer[g]
    BY <1>5, FieldsOf DEF RendererTyped
  <2> HIDE DEF q
  <2>4. Changed(v.renderer, q, {"failed", "waitingForKeys"})
    BY <2>3 DEF Changed
  <2>5. q.failed = v.renderer.failed
    BY <1>5, <2>3, FieldsOf DEF RendererTyped
  <2>6. Flowing(q, w.codec, source')
    BY <1>6, <2>4, <2>5
  <2>7. Flows(q, w.codec, source')
    BY <2>3, <2>6 DEF Flows, Fed
  <2> QED
    BY <2>1, <2>2, <2>7, Settles DEF Streams
<1>10. CASE Leaves(SampleQueued(v, n), "feed")
  <2> DEFINE u == SampleQueued(v, n)
  <2>1. /\ v.codec # NoCodec /\ v.renderer.input \in Buffer
        /\ v.renderer.reconfiguration # "WRITE_PENDING"
        /\ Len(v.renderer.input.data) = 1 =>
             Samples[v.renderer.input.data[1]].format = v.renderer.format
    BY <1>2, <1>4
  <2>2. n \in Frames
    OBVIOUS
  <2>3. r.input.data # <<>> => Last(r.input.data) = n
    BY <1>1 DEF Holds
  <2> HIDE DEF n
  <2>4. /\ \E b \in Buffer : /\ u.codec.queue = Append(w.codec.queue, b)
                            /\ b.time = n /\ b.data = r.input.data
        /\ Changed(v.renderer, u.renderer, {"input", "reconfiguration", "waitingForKeys",
                                            "decodeOnly"})
    BY <1>2, <1>4, <2>1, <2>2, SampleWorks, SMTT(30)
  <2>5. /\ u.codec.outputs = v.codec.outputs /\ u.renderer.input = NoBuffer
        /\ u.renderer.decodeOnly = IF n < source.wanted THEN v.renderer.decodeOnly \cup {n}
                                   ELSE v.renderer.decodeOnly
    BY <1>2, <2>1, <2>2, SampleGoes, Zenon
  <2>6. Leaves(u, "feed")
    BY <1>10
  <2> HIDE DEF u
  <2> PICK b \in Buffer : /\ u.codec.queue = Append(w.codec.queue, b)
                          /\ b.time = n /\ b.data = r.input.data
    BY <2>4
  <2>7. Changed(r, u.renderer, Besides \cup {"input", "decodeOnly", "waitingForFirstSyncFrame"})
    BY <1>2, <2>4 DEF Changed, Besides
  <2>8. ~u.renderer.waitingForFirstSyncFrame
    BY <1>2, <1>5, <2>4, FieldsOf DEF Changed, RendererTyped
  <2>12. /\ u.codec.outputs = w.codec.outputs
         /\ u.renderer.decodeOnly = IF n < source.wanted THEN r.decodeOnly \cup {n}
                                    ELSE r.decodeOnly
    BY <1>2, <1>4, <2>5
  <2>9. u.renderer.input.data = <<>> /\ source'.wanted \in Int
    BY <2>5, Buffers, SourceIs
  <2>10. /\ b.time \in Frames /\ (b.data # <<>> => b.time = Last(b.data))
         /\ u.renderer.decodeOnly = IF b.time < source'.wanted THEN r.decodeOnly \cup {b.time}
                                    ELSE r.decodeOnly
    BY <2>2, <2>3, <2>12
  <2>11. Flows(u.renderer, u.codec, source')
    BY <1>1, <2>12, <2>7, <2>8, <2>9, <2>10, Queued
  <2> QED
    BY <2>6, <2>11, Settles DEF Streams
<1> QED
  BY <1>3, <1>7, <1>8, <1>9, <1>10

-----------------------------------------------------------------------------
(* Nothing changed but what the buffer is for.                             *)
LEMMA KeptFlowing ==
  ASSUME NEW r, NEW q, NEW c, NEW s, Flowing(r, c, s), RendererTyped(r),
         Changed(r, q, {"input", "reconfiguration"}), q.input.data = r.input.data
  PROVE  Flowing(q, c, s)
<1>1. Changed(r, q, Besides \cup {"input", "failed", "waitingForFirstSyncFrame"})
  BY DEF Changed, Besides
<1>2. /\ q.failed = r.failed /\ q.waitingForFirstSyncFrame = r.waitingForFirstSyncFrame
  BY FieldsOf DEF Changed, RendererTyped
<1> QED
  BY <1>1, <1>2, Alike

(* The buffer as it is, behind a discontinuity.                            *)
LEMMA KeptAwaits ==
  ASSUME NEW r, NEW q, NEW c, NEW p, Awaits(r, c, p), RendererTyped(r),
         Changed(r, q, {"input", "reconfiguration"}), q.input.data = r.input.data
  PROVE  Awaits(q, c, p)
<1>1. /\ q.shown = r.shown /\ q.inputStreamEnded = r.inputStreamEnded
      /\ q.outputStreamEnded = r.outputStreamEnded /\ q.output = r.output
  BY FieldsOf DEF Changed, RendererTyped
<1> QED
  BY <1>1 DEF Awaits, Void

LEMMA SampleInSync ==
  ASSUME SourceTyped(source), SampleRead
  PROVE  InSync(source') /\ source'.wanted = source.wanted /\ source'.early = source.early
<1>1. /\ source'.wanted = source.wanted /\ source'.early = source.early
      /\ source'.next = source.next + 1
      /\ source'.announced = Samples[source.next].format /\ source.next \in Frames
  BY DEF SourceTyped, SampleRead, HasNext
<1>2. ASSUME source'.next \in Frames, source'.announced # Samples[source'.next].format
      PROVE  Samples[source'.next].sync
  <2> PICK n \in Frames : n = source'.next
    BY <1>2
  <2>1. n \in Frames \ {1} /\ n - 1 = source.next
    BY <1>1, FramesAre
  <2>2. Samples[n].format # Samples[n - 1].format
    BY <1>1, <1>2, <2>1
  <2> QED
    BY <2>1, <2>2, SamplesAssumption
<1> QED
  BY <1>1, <1>2 DEF InSync

(* A decoder that has a buffer is given what the source answers.           *)
LEMMA ReadsStreams ==
  ASSUME IInv, StreamInv, phase = "feed", codec # NoCodec, ~renderer.failed,
         ~renderer.waitingForKeys, ~renderer.inputStreamEnded,
         renderer.state \notin {"DISABLED", "RELEASED"},
         NEW w, Sane(w), w.codec = codec, w.drm = drm,
         Changed(renderer, w.renderer, {"input", "reconfiguration"}),
         w.renderer.input \in Buffer, w.renderer.input.data = renderer.input.data,
         w.renderer.reconfiguration # "WRITE_PENDING", Reads(w)
  PROVE  StreamInv'
<1> DEFINE r == w.renderer
<1>1. /\ SourceTyped(source) /\ Follows(renderer, codec, source) /\ RendererTyped(renderer)
      /\ CodecTyped(codec)
  BY Begun
<1>2. /\ r.state = renderer.state /\ r.format = renderer.format /\ r.failed = renderer.failed
      /\ r.waitingForFirstSyncFrame = renderer.waitingForFirstSyncFrame
      /\ r.inputStreamEnded = renderer.inputStreamEnded
      /\ r.waitingForKeys = renderer.waitingForKeys
  BY <1>1, FieldsOf DEF Changed, RendererTyped
<1>3. /\ RendererTyped(r) /\ InSync(source)
      /\ source.discontinuity => Awaits(r, codec, phase)
      /\ ~source.discontinuity => Flowing(r, codec, source)
  BY <1>1, StreamsIs, KeptFlowing, KeptAwaits DEF Sane, Works, Owns
<1>4. ~source.discontinuity => Fed(r, source)
  BY <1>1, <1>2, StreamsIs DEF Fed
<1>5. ~source.discontinuity => r.input.data = <<>> \/ source.next <= source.wanted
  BY <1>1, <1>2, <1>4 DEF Fed
<1>6. CASE NothingRead /\ Leaves(w, "idle")
  <2>1. source' = source
    BY <1>6 DEF NothingRead
  <2>2. Streams(w.renderer, w.codec, source', "idle")
    BY <1>3, <1>4, <2>1 DEF Streams, Flows, Awaits
  <2> QED
    BY <1>6, <2>2, Settles
<1>7. ASSUME DiscontinuityRead, NEW v \in flushCodec(w), Leaves(v, "feed")
      PROVE  StreamInv'
  BY <1>2, <1>7, FlushStreams
<1>8. ASSUME FormatRead, NEW v \in onInputFormatChanged(TakenBack(w), source'.announced),
             Leaves(v, "feed")
      PROVE  StreamInv'
  <2> DEFINE t == TakenBack(w)
  <2>1. /\ Sane(t) /\ t.codec = codec
        /\ Changed(r, t.renderer, {"input", "reconfiguration"})
        /\ t.renderer.reconfiguration # "QUEUE_PENDING"
    BY <1>2, TakenBackWorks
  <2>2. t.renderer.input.data = <<>> \/ t = w
    BY <1>2, TakenBackData
  <2>3. v \in onInputFormatChanged(t, source'.announced)
    BY <1>8
  <2> HIDE DEF t
  <2>4. /\ t.renderer.state = renderer.state /\ ~t.renderer.waitingForKeys
    BY <1>2, <1>3, <2>1, FieldsOf DEF Changed, RendererTyped
  <2>5. /\ ~source.discontinuity /\ source'.next = source.next
        /\ source.next \in Frames /\ source.announced # Samples[source.next].format
        /\ source'.wanted = source.wanted
    BY <1>1, <1>8, FormatIs, EarlierIs DEF FormatRead, HasNext
  <2>6. Samples[source.next].sync
    BY <1>3, <2>5 DEF InSync
  <2>7. Flowing(t.renderer, t.codec, source)
    <3>1. CASE t = w
      BY <1>3, <2>5, <3>1
    <3>2. CASE t.renderer.input.data = <<>>
      <4>1. Changed(r, t.renderer, Besides \cup {"input"})
        BY <2>1 DEF Changed, Besides
      <4> QED
        BY <1>1, <1>3, <1>5, <2>1, <2>5, <2>6, <3>2, <4>1, Dropped DEF Flows
    <3> QED
      BY <2>2, <3>1, <3>2
  <2>8. Fed(t.renderer, source')
    BY <1>5, <2>2, <2>5 DEF Fed
  <2> QED
    BY <1>8, <2>1, <2>3, <2>4, <2>7, <2>8, FormatStreams
<1>9. CASE EndOfStreamRead /\ Leaves(EndQueued(w), "idle")
  <2> DEFINE v == EndQueued(w)
  <2>1. /\ v.codec.queue = Append(codec.queue, EndOfStream)
        /\ v.renderer.inputStreamEnded
        /\ Changed(r, v.renderer, {"input", "reconfiguration", "inputStreamEnded"})
    BY <1>2, EndWorks
  <2>2. v.codec.outputs = codec.outputs /\ v.renderer.input = NoBuffer
    BY <1>2, EndGoes
  <2>3. Leaves(v, "idle")
    BY <1>9
  <2> HIDE DEF v
  <2>4. ~source.discontinuity /\ source.next \notin Frames /\ source' = source
    BY <1>9 DEF EndOfStreamRead
  <2>5. r.input.data = <<>>
    <3>1. source.wanted < source.next /\ source.wanted \in Int /\ source.next \in Int
      BY <1>1, <2>4, SourceIs
    <3> QED
      BY <1>5, <2>4, <3>1
  <2>6. Changed(r, v.renderer, Besides \cup {"input", "inputStreamEnded"})
    BY <2>1 DEF Changed, Besides
  <2>7. v.renderer.input.data = <<>>
    BY <2>2, Buffers
  <2>8. Flows(v.renderer, v.codec, source)
    BY <1>1, <1>2, <1>3, <2>1, <2>2, <2>4, <2>5, <2>6, <2>7, EndedFlows
  <2>9. Streams(v.renderer, v.codec, source', "idle")
    BY <1>3, <2>4, <2>8 DEF Streams
  <2> QED
    BY <2>3, <2>9, Settles
<1>10. CASE /\ SampleRead
            /\ Feeds([w EXCEPT !.renderer.holder = source.next,
                               !.renderer.input.data = Append(@, source.next)])
  <2>1. /\ SourceTyped(source') /\ source.next \in Frames
        /\ source'.next = source.next + 1
        /\ ~source.discontinuity /\ ~source'.discontinuity
        /\ source.announced = Samples[source.next].format
    BY <1>1, <1>10, SampleIs
  <2>2. InSync(source') /\ source'.wanted = source.wanted /\ source'.early = source.early
    BY <1>1, <1>10, SampleInSync
  <2> PICK n \in Frames : n = source.next
    BY <2>1
  <2> DEFINE v == [w EXCEPT !.renderer.holder = n, !.renderer.input.data = Append(@, n)]
  <2>3. /\ Sane(v) /\ v.codec = codec /\ v.drm = drm
        /\ Changed(r, v.renderer, {"holder", "input"})
        /\ v.renderer.input \in Buffer /\ v.renderer.holder = n
        /\ Len(v.renderer.input.data) = 1 => v.renderer.input.data[1] = n
    BY <1>2, ReadWorks, ZenonT(30)
  <2>4. v.renderer.input.data = Append(r.input.data, n)
    BY ReadData, Zenon
  <2>5. Feeds(v)
    BY <1>10
  <2> HIDE DEF v
  <2>6. /\ v.renderer.format = renderer.format
        /\ v.renderer.reconfiguration = r.reconfiguration
        /\ ~v.renderer.inputStreamEnded
    BY <1>2, <1>3, <2>3, FieldsOf DEF Changed, RendererTyped
  <2>7. source.announced = renderer.format
    BY <1>1, <1>2 DEF Follows, RendererTyped
  <2>8. Len(v.renderer.input.data) = 1 =>
          Samples[v.renderer.input.data[1]].format = v.renderer.format
    BY <2>1, <2>3, <2>6, <2>7
  <2>9. Changed(r, v.renderer, Besides \cup {"input"})
    BY <2>3 DEF Changed, Besides
  <2>10. Flowing(v.renderer, codec, source')
    BY <1>1, <1>2, <1>3, <2>1, <2>2, <2>4, <2>9, ReadOn
  <2> QED
    BY <2>1, <2>2, <2>3, <2>5, <2>6, <2>8, <2>10, FeedsStreams
<1>11. CASE Fails(w)
  BY <1>3, <1>11, FailsStreams
<1> QED
  BY <1>6, <1>7, <1>8, <1>9, <1>10, <1>11 DEF Reads

LEMMA FeedStreams ==
  ASSUME IInv, StreamInv, feedInputBuffer
  PROVE  StreamInv'
<1>1. /\ phase = "feed" /\ codec # NoCodec /\ ~renderer.failed
      /\ renderer.state \notin {"DISABLED", "RELEASED"}
  BY DEF feedInputBuffer, IInv
<1>2. /\ Sane(World) /\ SourceTyped(source) /\ Follows(renderer, codec, source)
      /\ RendererTyped(renderer) /\ Owns(renderer, drm) /\ Holds(renderer)
  BY Begun
<1>3. CASE UNCHANGED source /\ Leaves(World, "idle")
  BY <1>3, NothingStreams
<1> DEFINE f == Filling
<1>4. /\ Sane(f) /\ f.codec = codec /\ f.drm = drm
      /\ Changed(renderer, f.renderer, {"input"})
      /\ f.renderer.input \in Buffer /\ f.renderer.input.data = renderer.input.data
  BY <1>1, <1>2, FillingWorks
<1>5. \/ UNCHANGED source /\ Leaves(World, "idle")
      \/ /\ renderer.waitingForKeys /\ ~renderer.inputStreamEnded
         /\ UNCHANGED source /\ Feeds(f)
      \/ ~renderer.waitingForKeys /\ ~renderer.inputStreamEnded /\ Reads(Configured(f))
  BY DEF feedInputBuffer
<1> HIDE DEF f
<1>6. /\ f.renderer.format = renderer.format /\ f.renderer.holder = renderer.holder
      /\ f.renderer.reconfiguration = renderer.reconfiguration
      /\ f.renderer.waitingForKeys = renderer.waitingForKeys
      /\ f.renderer.inputStreamEnded = renderer.inputStreamEnded
  BY <1>2, <1>4, FieldsOf DEF Changed, RendererTyped
<1>7. CASE /\ renderer.waitingForKeys /\ ~renderer.inputStreamEnded
           /\ UNCHANGED source /\ Feeds(f)
  <2>1. /\ renderer.holder \in Frames
        /\ renderer.reconfiguration # "WRITE_PENDING" /\ ~source.discontinuity
        /\ Len(renderer.input.data) = 1 =>
             Samples[renderer.input.data[1]].format = renderer.format
    BY <1>2, <1>7 DEF Owns, Holds, Follows
  <2>2. /\ SourceTyped(source') /\ ~source'.discontinuity /\ source'.wanted = source.wanted
        /\ source' = source
    BY <1>2, <1>7, <2>1
  <2>3. Changed(renderer, f.renderer, {"input", "reconfiguration"})
    BY <1>4 DEF Changed
  <2>4. Len(f.renderer.input.data) = 1 =>
          Samples[f.renderer.input.data[1]].format = f.renderer.format
    BY <1>4, <1>6, <2>1
  <2>5. Flowing(f.renderer, codec, source)
    BY <1>2, <1>4, <2>1, <2>3, StreamsIs, KeptFlowing
  <2>6. InSync(source') /\ Flowing(f.renderer, f.codec, source')
    BY <1>4, <2>2, <2>5, StreamsIs
  <2> QED
    BY <1>1, <1>4, <1>6, <1>7, <2>1, <2>2, <2>4, <2>6, FeedsStreams
<1>8. CASE /\ ~renderer.waitingForKeys /\ ~renderer.inputStreamEnded
           /\ Reads(Configured(f))
  <2> DEFINE w == Configured(f)
  <2>1. /\ Sane(w) /\ w.codec = codec /\ w.drm = drm
        /\ Changed(f.renderer, w.renderer, {"input", "reconfiguration"})
        /\ w.renderer.input \in Buffer /\ w.renderer.reconfiguration # "WRITE_PENDING"
        /\ w.renderer.input.data = f.renderer.input.data
    BY <1>1, <1>4, <1>6, <1>8, ConfiguredWorks
  <2>2. Reads(w)
    BY <1>8
  <2> HIDE DEF w
  <2>3. Changed(renderer, w.renderer, {"input", "reconfiguration"})
    BY <1>4, <2>1 DEF Changed
  <2>4. w.renderer.input.data = renderer.input.data
    BY <1>4, <2>1
  <2> QED
    BY <1>1, <1>8, <2>1, <2>2, <2>3, <2>4, ReadsStreams
<1> QED
  BY <1>3, <1>5, <1>7, <1>8

-----------------------------------------------------------------------------
(* The player's calls.                                                     *)

LEMMA Alight ==
  ASSUME NEW q, NEW e, renderer' = q, codec' = e, phase' = "idle",
         Streams(q, e, source', "idle")
  PROVE  StreamInv'
BY DEF StreamInv

(* The decoder is let go of, or is a new one.                              *)
LEMMA EmptiedStreams ==
  ASSUME IInv, StreamInv, UNCHANGED source, NEW q, NEW e, Changed(renderer, q, Kin),
         Void(q, e), e # NoCodec /\ ~q.failed => q.waitingForFirstSyncFrame
  PROVE  Streams(q, e, source', "idle")
<1>1. RendererTyped(renderer) /\ SourceTyped(source)
  BY Begun
<1>2. CASE source.discontinuity
  <2>1. Awaits(q, e, "idle")
    BY <1>1, <1>2, StreamsIs, AwaitsStill
  <2> QED
    BY <1>2, <2>1, StreamsIs DEF Streams
<1>3. CASE ~source.discontinuity
  <2> DEFINE v == [renderer |-> q, codec |-> e]
  <2>1. Fresh(v) /\ v.renderer = q /\ v.codec = e
    BY DEF Fresh
  <2> HIDE DEF v
  <2>2. Changed(renderer, v.renderer, Kin) /\ source.next <= source.next
    BY <1>1, <2>1, SourceIs
  <2>3. Flows(v.renderer, v.codec, source)
    BY <1>1, <1>3, <2>1, <2>2, StreamsIs, FreshFlows
  <2>4. Flows(q, e, source)
    BY <2>1, <2>3
  <2> QED
    BY <1>3, <2>4, StreamsIs DEF Streams
<1> QED
  BY <1>2, <1>3

(* The renderer goes on with what it had.                                  *)
LEMMA KeptStreams ==
  ASSUME IInv, StreamInv, UNCHANGED source, NEW q,
         Changed(renderer, q, {"state", "surface"})
  PROVE  Streams(q, codec, source', phase)
<1>1. RendererTyped(renderer)
  BY Begun
<1>2. /\ q.input = renderer.input /\ q.output = renderer.output /\ q.failed = renderer.failed
      /\ q.waitingForFirstSyncFrame = renderer.waitingForFirstSyncFrame
      /\ q.waitingForKeys = renderer.waitingForKeys /\ q.shown = renderer.shown
      /\ q.inputStreamEnded = renderer.inputStreamEnded
      /\ q.outputStreamEnded = renderer.outputStreamEnded
  BY <1>1, FieldsOf DEF Changed, RendererTyped
<1>3. CASE source.discontinuity
  <2>1. Awaits(q, codec, phase)
    BY <1>2, <1>3, StreamsIs DEF Awaits, Void
  <2> QED
    BY <1>3, <2>1, StreamsIs DEF Streams
<1>4. CASE ~source.discontinuity
  <2>1. Changed(renderer, q, Besides \cup {"input", "failed", "waitingForFirstSyncFrame"})
    BY DEF Changed, Besides
  <2>2. Flowing(q, codec, source)
    BY <1>1, <1>2, <1>4, <2>1, StreamsIs, Alike
  <2>3. Fed(q, source)
    BY <1>2, <1>4, StreamsIs DEF Fed
  <2> QED
    BY <1>4, <2>2, <2>3, StreamsIs DEF Streams, Flows
<1> QED
  BY <1>3, <1>4

LEMMA EnableStreams ==
  ASSUME IInv, StreamInv, NEW t \in SeekTimes, Enable(t)
  PROVE  StreamInv'
<1> DEFINE q == [renderer EXCEPT !.state = "ENABLED", !.inputStreamEnded = FALSE,
                                 !.outputStreamEnded = FALSE, !.waitingForKeys = FALSE,
                                 !.shown = 0]
<1>1. /\ Sane(World) /\ RendererTyped(renderer) /\ DOMAIN renderer = DOMAIN NewRenderer
  BY Begun
<1>2. codec = NoCodec
  BY DisabledIs DEF Enable
<1>3. renderer' = q /\ codec' = codec /\ phase' = "idle"
  BY DEF Enable, Idle
<1>4. /\ q.input = renderer.input /\ q.output = renderer.output /\ q.shown = 0
      /\ ~q.inputStreamEnded /\ ~q.outputStreamEnded
  BY <1>1, FieldsOf
<1> HIDE DEF q
<1>5. Void(q, codec)
  BY <1>1, <1>2, <1>4, WorldIs, WithoutCodec DEF Without, Void
<1>6. t \in Frames
  BY RendererAssumption
<1> PICK n \in Frames : n = SyncFrame(t) /\ Samples[n].sync
  BY <1>6, SyncFrameIs
<1> PICK d \in BOOLEAN : source' = [next |-> n, announced |-> NoFormat, discontinuity |-> d,
                                    wanted |-> t, early |-> 0]
  BY DEF Enable
<1>7. InSync(source') /\ source'.next \in Nat \ {0}
  BY FramesAre DEF InSync
<1>8. Awaits(q, codec, "idle") /\ Flows(q, codec, source')
  BY <1>4, <1>5, <1>7, Renew DEF Awaits
<1>9. Streams(q, codec, source', "idle")
  BY <1>7, <1>8 DEF Streams
<1> QED
  BY <1>3, <1>9, Alight

LEMMA SeekStreams ==
  ASSUME IInv, StreamInv, NEW t \in SeekTimes, seekTo(t)
  PROVE  StreamInv'
<1> DEFINE q == [renderer EXCEPT !.inputStreamEnded = FALSE, !.outputStreamEnded = FALSE,
                                 !.waitingForKeys = FALSE, !.shown = 0]
<1>1. /\ RendererTyped(renderer) /\ DOMAIN renderer = DOMAIN NewRenderer
      /\ CodecTyped(codec) /\ SourceTyped(source)
  BY Begun
<1>2. renderer' = q /\ codec' = codec /\ phase' = "idle" /\ phase = "idle" /\ SeekSource(t)
  BY DEF seekTo, Idle
<1>3. /\ DOMAIN q = DOMAIN renderer /\ q.shown = 0
      /\ ~q.inputStreamEnded /\ ~q.outputStreamEnded
      /\ \A g \in DOMAIN renderer \ {"inputStreamEnded", "outputStreamEnded",
                                     "waitingForKeys", "shown"} : q[g] = renderer[g]
  BY <1>1, FieldsOf
<1> HIDE DEF q
<1>4. Awaits(q, codec, "idle")
  BY <1>3 DEF Awaits
<1>5. t \in Frames
  BY RendererAssumption
<1>6. CASE source' = [source EXCEPT !.next = SyncFrame(t), !.discontinuity = TRUE,
                                    !.wanted = t, !.early = 0]
  <2> PICK n \in Frames : n = SyncFrame(t) /\ Samples[n].sync
    BY <1>5, SyncFrameIs
  <2>1. source'.discontinuity /\ source'.next = n
    BY <1>1, <1>6 DEF SourceTyped
  <2>2. Streams(q, codec, source', "idle")
    BY <1>4, <2>1 DEF Streams, InSync
  <2> QED
    BY <1>2, <2>2, Alight
<1>7. CASE /\ SyncFrame(t) <= source.next /\ source.next <= t
           /\ source' = [source EXCEPT !.wanted = t, !.early = source.next - 1]
  <2>1. /\ source'.discontinuity = source.discontinuity /\ source'.next = source.next
        /\ source'.announced = source.announced /\ source'.wanted = t
        /\ source'.early = source.next - 1
    BY <1>1, <1>7 DEF SourceTyped
  <2>2. InSync(source')
    BY <2>1, StreamsIs DEF InSync
  <2>3. CASE source.discontinuity
    <3>1. Streams(q, codec, source', "idle")
      BY <1>4, <2>1, <2>2, <2>3 DEF Streams
    <3> QED
      BY <1>2, <3>1, Alight
  <2>4. CASE ~source.discontinuity
    <3>1. source.next \in Frames /\ t \in Int /\ source.wanted \in Int
      BY <1>1, <1>5, <1>7, FramesAre, SourceIs DEF SourceTyped
    <3>2. Changed(renderer, q,
                  Besides \cup {"shown", "inputStreamEnded", "outputStreamEnded"})
      BY <1>3 DEF Changed, Besides
    <3>3. Flows(q, codec, source')
      BY <1>1, <1>3, <1>7, <2>1, <2>4, <3>1, <3>2, StreamsIs, SoughtIn
    <3>4. Streams(q, codec, source', "idle")
      BY <2>1, <2>2, <2>4, <3>3 DEF Streams
    <3> QED
      BY <1>2, <3>4, Alight
  <2> QED
    BY <2>3, <2>4
<1> QED
  BY <1>2, <1>6, <1>7 DEF SeekSource

(* Start, Stop and Release.                                                *)
LEMMA StateStreams ==
  ASSUME IInv, StreamInv, phase = "idle", NEW s, renderer' = [renderer EXCEPT !.state = s],
         UNCHANGED <<codec, source, phase>>
  PROVE  StreamInv'
<1> DEFINE q == [renderer EXCEPT !.state = s]
<1>1. Changed(renderer, q, {"state", "surface"})
  BY DEF Changed
<1>2. renderer' = q
  OBVIOUS
<1> HIDE DEF q
<1>3. Streams(q, codec, source', phase)
  BY <1>1, KeptStreams
<1> QED
  BY <1>2, <1>3, Alight

LEMMA DisableStreams ==
  ASSUME IInv, StreamInv, Disable
  PROVE  StreamInv'
<1> DEFINE w == releaseCodec(World)
           r == w.renderer
           state == IF renderer.failed THEN "RELEASED" ELSE "DISABLED"
           q == [r EXCEPT !.state = state, !.format = NoFormat, !.openedDrmSession = FALSE]
<1>1. /\ Sane(World) /\ RendererTyped(renderer) /\ DOMAIN renderer = DOMAIN NewRenderer
      /\ SetUp(renderer, codec, drm)
  BY Begun
<1>2. /\ Sane(w) /\ w.codec = NoCodec
      /\ Changed(renderer, r, {"input", "output", "decodeOnly", "reconfigured",
                               "reconfiguration"})
  <2>1. codec = NoCodec => Empty(renderer)
    BY <1>1 DEF SetUp
  <2> QED
    BY <1>1, <2>1, WorldIs, ReleasedCodec, Begun DEF IsWorld
<1>3. Void(r, NoCodec)
  BY <1>1, ReleasedWithout DEF Without
<1>4. /\ phase = "idle" /\ codec' = w.codec /\ renderer' = q /\ UNCHANGED <<source, phase>>
  BY DEF Disable
<1> HIDE DEF w, state
<1>5. RendererTyped(r) /\ DOMAIN r = DOMAIN NewRenderer
  BY <1>2 DEF Sane, Works, Owns, RendererTyped
<1>6. /\ DOMAIN q = DOMAIN r
      /\ \A g \in DOMAIN r \ {"state", "format", "openedDrmSession"} : q[g] = r[g]
  BY <1>5, FieldsOf
<1> HIDE DEF q
<1>7. q.input = r.input /\ q.output = r.output
  BY <1>5, <1>6, FieldsOf
<1>8. Void(q, NoCodec)
  BY <1>3, <1>7 DEF Void
<1>9. Changed(renderer, q, Kin)
  BY <1>2, <1>6 DEF Changed, Kin, Renewed, Anew
<1>10. Streams(q, NoCodec, source', "idle")
  BY <1>4, <1>8, <1>9, EmptiedStreams
<1> QED
  BY <1>2, <1>4, <1>10, Alight

LEMMA SurfaceStreams ==
  ASSUME IInv, StreamInv, NEW surface \in BOOLEAN, setSurface(surface)
  PROVE  StreamInv'
<1> DEFINE w == [World EXCEPT !.renderer.surface = surface]
           q == [renderer EXCEPT !.surface = surface]
<1>1. /\ RendererTyped(renderer) /\ DOMAIN renderer = DOMAIN NewRenderer
      /\ Owns(renderer, drm) /\ SetUp(renderer, codec, drm) /\ device.protected \in BOOLEAN
  BY Begun
<1>2. /\ IsWorld(w) /\ w.codec = codec /\ w.drm = drm /\ w.renderer = q
  BY DEF World, IsWorld
<1>3. /\ source' = source /\ phase = "idle"
      /\ \/ /\ renderer.state \in {"ENABLED", "STARTED"}
            /\ \E v \in maybeInitCodec(releaseCodec(w)) : Leaves(v, "idle")
         \/ renderer.state \notin {"ENABLED", "STARTED"} /\ Leaves(w, "idle")
  BY DEF setSurface, Idle
<1> HIDE DEF w
<1>4. /\ DOMAIN q = DOMAIN renderer /\ q.surface \in BOOLEAN
      /\ \A g \in DOMAIN renderer \ {"surface"} : q[g] = renderer[g]
  BY <1>1, FieldsOf
<1> HIDE DEF q
<1>5. RendererTyped(q)
  BY <1>1, <1>4, FieldsOf DEF RendererTyped
<1>6. /\ q.state = renderer.state /\ q.openedDrmSession = renderer.openedDrmSession
      /\ q.format = renderer.format /\ q.waitingForKeys = renderer.waitingForKeys
      /\ q.holder = renderer.holder /\ q.input = renderer.input
      /\ q.output = renderer.output /\ q.reconfigured = renderer.reconfigured
      /\ q.reconfiguration = renderer.reconfiguration
  BY <1>1, <1>4, FieldsOf
<1>7. Owns(q, drm) /\ (codec = NoCodec => Empty(q))
  BY <1>1, <1>5, <1>6, StillOwns DEF SetUp, Empty
<1>8. ASSUME renderer.state \in {"ENABLED", "STARTED"},
             NEW v \in maybeInitCodec(releaseCodec(w)), Leaves(v, "idle")
      PROVE  StreamInv'
  <2> DEFINE b == releaseCodec(w)
  <2>1. /\ Sane(b) /\ b.codec = NoCodec
        /\ Changed(q, b.renderer, {"input", "output", "decodeOnly", "reconfigured",
                                   "reconfiguration"})
    BY <1>2, <1>7, ReleasedCodec
  <2>2. v \in maybeInitCodec(b)
    BY <1>8
  <2> HIDE DEF b
  <2>3. Without(b)
    BY <2>1, WithoutCodec
  <2>4. Fresh(v)
    BY <1>1, <2>2, <2>3, InitFresh
  <2>5. Changed(b.renderer, v.renderer, Anew)
    BY <1>1, <2>1, <2>2, InitWorks
  <2>6. Changed(renderer, v.renderer, Kin)
    BY <1>4, <2>1, <2>5 DEF Changed, Kin, Renewed, Anew
  <2>7. Streams(v.renderer, v.codec, source', "idle")
    BY <1>3, <2>4, <2>6, EmptiedStreams DEF Fresh
  <2> QED
    BY <1>8, <2>7, Settles
<1>9. ASSUME Leaves(w, "idle")
      PROVE  StreamInv'
  <2>1. Changed(renderer, q, {"state", "surface"})
    BY <1>4 DEF Changed
  <2>2. Streams(q, codec, source', phase)
    BY <1>3, <2>1, KeptStreams
  <2>3. Streams(w.renderer, w.codec, source', "idle")
    BY <1>2, <1>3, <2>2
  <2> QED
    BY <1>9, <2>3, Settles
<1> QED
  BY <1>3, <1>8, <1>9

-----------------------------------------------------------------------------
LEMMA SameStreams ==
  ASSUME StreamInv, UNCHANGED <<renderer, codec, source, phase>>
  PROVE  StreamInv'
BY DEF StreamInv

LEMMA DecodeStreams ==
  ASSUME IInv, StreamInv, Decode
  PROVE  StreamInv'
<1> DEFINE b == Head(codec.queue)
           IsFrame == b.data # <<>>
           e == [codec EXCEPT
                   !.queue = Tail(@),
                   !.current = IF b.config = NoFormat THEN @ ELSE b.config,
                   !.begun = @ \/ b.time > 0,
                   !.outputs = IF IsFrame \/ b = EndOfStream THEN Append(@, b) ELSE @]
<1>1. /\ CodecTyped(codec) /\ RendererTyped(renderer) /\ SourceTyped(source)
      /\ DOMAIN codec = DOMAIN NoCodec
  BY Begun DEF CodecTyped
<1>2. /\ codec.queue # <<>> /\ codec' = e /\ UNCHANGED <<renderer, source, phase>>
  BY DEF Decode
<1>3. /\ e.queue = Tail(codec.queue)
      /\ e.outputs = IF Head(codec.queue).data # <<>> \/ Head(codec.queue) = EndOfStream
                     THEN Append(codec.outputs, Head(codec.queue)) ELSE codec.outputs
  BY <1>1, NoCodecIs
<1> HIDE DEF e, b
<1>4. CASE source.discontinuity
  <2>1. Awaits(renderer, codec, phase)
    BY <1>4, StreamsIs
  <2>2. phase = "idle"
    BY <1>2, <2>1 DEF Awaits, Void
  <2>3. Awaits(renderer, e, phase)
    BY <2>1, <2>2 DEF Awaits
  <2>4. Streams(renderer, e, source, phase)
    BY <1>4, <2>3, StreamsIs DEF Streams
  <2> QED
    BY <1>2, <2>4 DEF StreamInv
<1>5. CASE ~source.discontinuity
  <2>1. Flowing(renderer, codec, source) /\ Fed(renderer, source)
    BY <1>5, StreamsIs
  <2>2. Flowing(renderer, e, source)
    BY <1>1, <1>2, <1>3, <2>1, DecodedFlows
  <2>3. Streams(renderer, e, source, phase)
    BY <1>5, <2>1, <2>2, StreamsIs DEF Streams, Flows
  <2> QED
    BY <1>2, <2>3 DEF StreamInv
<1> QED
  BY <1>4, <1>5

LEMMA NextStreams ==
  ASSUME IInv, StreamInv, [Next]_vars
  PROVE  StreamInv'
<1>1. CASE doSomeWork
  BY <1>1, DoSomeWorkStreams
<1>2. CASE drainOutputBuffer
  BY <1>2, DrainStreams
<1>3. CASE feedInputBuffer
  BY <1>3, FeedStreams
<1>4. ASSUME NEW t \in SeekTimes, Enable(t) \/ seekTo(t)
      PROVE  StreamInv'
  BY <1>4, EnableStreams, SeekStreams
<1>5. CASE Start
  BY <1>5, StateStreams DEF Start, Idle
<1>6. CASE Stop
  BY <1>6, StateStreams DEF Stop, Idle
<1>7. CASE Disable
  BY <1>7, DisableStreams
<1>8. CASE Release
  BY <1>8, StateStreams DEF Release, Idle
<1>9. ASSUME NEW surface \in BOOLEAN, setSurface(surface)
      PROVE  StreamInv'
  BY <1>9, SurfaceStreams
<1>10. CASE OtherOpens \/ OtherCloses
  BY <1>10, SameStreams DEF OtherOpens, OtherCloses
<1>11. CASE Messages \/ Drm
  BY <1>11, SameStreams DEF Messages, Drm
<1>12. CASE Decode
  BY <1>12, DecodeStreams
<1>13. CASE Quiet \/ UNCHANGED vars
  BY <1>13, SameStreams DEF Quiet, vars
<1> QED
  BY <1>1, <1>2, <1>3, <1>4, <1>5, <1>6, <1>7, <1>8, <1>9, <1>10, <1>11, <1>12, <1>13
     DEF Next

LEMMA InitStreams ==
  ASSUME Init
  PROVE  StreamInv
<1>1. renderer = NewRenderer /\ codec = NoCodec /\ source = NewSource /\ phase = "idle"
  BY DEF Init
<1>2. Void(renderer, codec)
  BY <1>1, Buffers, NoCodecIs DEF Void, NewRenderer
<1>3. /\ renderer.shown = 0 /\ ~renderer.inputStreamEnded /\ ~renderer.outputStreamEnded
      /\ source.next \in Nat \ {0}
  BY <1>1 DEF NewRenderer, NewSource
<1>4. Flows(renderer, codec, source)
  BY <1>2, <1>3, Renew
<1>5. InSync(source)
  <2>1. Samples[1].sync
    BY SamplesAssumption
  <2> QED
    BY <1>1, <2>1 DEF InSync, NewSource
<1>6. ~source.discontinuity
  BY <1>1 DEF NewSource
<1> QED
  BY <1>4, <1>5, <1>6 DEF StreamInv, Streams

(* The frames go through in order, whatever the calls and the decoder's    *)
(* threads do between.                                                     *)
LEMMA InductiveStreams == Spec => [](IInv /\ StreamInv)
<1>1. Init => IInv /\ StreamInv
  BY InitIInv, InitStreams
<1>2. IInv /\ StreamInv /\ [Next]_vars => IInv' /\ StreamInv'
  BY NextKeeps, NextStreams
<1> QED
  BY <1>1, <1>2, PTL DEF Spec

-----------------------------------------------------------------------------
(* What is in flight, from all buffers of the pipeline.                    *)

LEMMA Joined ==
  ASSUME NEW T, NEW a \in Seq(T), NEW b \in Seq(T)
  PROVE  /\ a \o b \in Seq(T) /\ ToSet(a \o b) = ToSet(a) \cup ToSet(b)
         /\ Len(a) \in Nat /\ Len(b) \in Nat
         /\ DOMAIN a = 1..Len(a) /\ DOMAIN b = 1..Len(b)
         /\ DOMAIN (a \o b) = 1..Len(a) + Len(b)
         /\ \A i \in 1..Len(a) : (a \o b)[i] = a[i]
         /\ \A i \in 1..Len(b) : (a \o b)[Len(a) + i] = b[i]
         /\ \A i \in 1..Len(a) + Len(b) : i \notin 1..Len(a) =>
              i - Len(a) \in 1..Len(b) /\ (a \o b)[i] = b[i - Len(a)]
<1> DEFINE p == a \o b
           m == Len(a)
           n == Len(b)
<1>1. p \in Seq(T) /\ m \in Nat /\ n \in Nat /\ DOMAIN a = 1..m /\ DOMAIN b = 1..n
  OBVIOUS
<1>2. /\ DOMAIN p = 1..m + n /\ \A i \in 1..m : p[i] = a[i]
      /\ \A i \in 1..m + n : i \notin 1..m => p[i] = b[i - m]
  OBVIOUS
<1> HIDE DEF p, m, n
<1>3. \A i \in 1..m + n : i \notin 1..m => i - m \in 1..n
  BY <1>1
<1>4. \A i \in 1..n : m + i \in 1..m + n /\ m + i \notin 1..m /\ m + i - m = i
  BY <1>1
<1>5. ASSUME NEW i \in 1..n PROVE p[m + i] = b[i]
  <2> PICK j : j = m + i
    OBVIOUS
  <2>1. j \in 1..m + n /\ j \notin 1..m /\ j - m = i
    BY <1>1
  <2>2. p[j] = b[j - m]
    BY <1>2, <2>1
  <2> QED
    BY <2>1, <2>2
<1>6. \A i \in 1..m : i \in 1..m + n
  BY <1>1
<1>7. ToSet(p) = ToSet(a) \cup ToSet(b)
  <2>1. ToSet(p) \subseteq ToSet(a) \cup ToSet(b)
    <3> SUFFICES ASSUME NEW i \in 1..m + n PROVE p[i] \in ToSet(a) \cup ToSet(b)
      BY <1>2 DEF ToSet
    <3>1. CASE i \in 1..m
      BY <1>1, <1>2, <3>1 DEF ToSet
    <3>2. CASE i \notin 1..m
      BY <1>1, <1>2, <1>3, <3>2 DEF ToSet
    <3> QED
      BY <3>1, <3>2
  <2>2. ToSet(a) \subseteq ToSet(p)
    BY <1>1, <1>2, <1>6 DEF ToSet
  <2>3. ToSet(b) \subseteq ToSet(p)
    <3> SUFFICES ASSUME NEW i \in 1..n PROVE b[i] \in ToSet(p)
      BY <1>1 DEF ToSet
    <3> PICK j : j = m + i
      OBVIOUS
    <3>1. j \in 1..m + n /\ p[j] = b[i]
      BY <1>4, <1>5
    <3> QED
      BY <1>2, <3>1 DEF ToSet
  <2> QED
    BY <2>1, <2>2, <2>3
<1> QED
  BY <1>1, <1>2, <1>3, <1>5, <1>7 DEF p, m, n

LEMMA RisingJoined ==
  ASSUME NEW a \in Seq(Frames), NEW b \in Seq(Frames), Rising(a), Rising(b),
         Below(ToSet(a), ToSet(b))
  PROVE  Rising(a \o b)
<1> DEFINE p == a \o b
           m == Len(a)
           n == Len(b)
<1>1. /\ m \in Nat /\ n \in Nat /\ DOMAIN a = 1..m /\ DOMAIN b = 1..n
      /\ DOMAIN p = 1..m + n /\ \A i \in 1..m : p[i] = a[i]
      /\ \A i \in 1..m + n : i \notin 1..m => i - m \in 1..n /\ p[i] = b[i - m]
  BY Joined
<1> HIDE DEF p, m, n
<1>2. /\ \A i \in 1..m : a[i] \in ToSet(a)
      /\ \A i \in 1..n : b[i] \in ToSet(b)
  BY <1>1 DEF ToSet
<1> SUFFICES ASSUME NEW k \in 1..m + n, NEW l \in 1..m + n, k < l
             PROVE  p[k] < p[l]
  BY <1>1 DEF Rising, p
<1>3. CASE l \in 1..m
  <2>1. k \in 1..m
    BY <1>1, <1>3
  <2> QED
    BY <1>1, <1>3, <2>1 DEF Rising
<1>4. CASE k \in 1..m /\ l \notin 1..m
  BY <1>1, <1>2, <1>4 DEF Below
<1>5. CASE k \notin 1..m /\ l \notin 1..m
  <2>1. k - m \in 1..n /\ l - m \in 1..n /\ k - m < l - m
    BY <1>1, <1>5
  <2> QED
    BY <1>1, <1>5, <2>1 DEF Rising
<1> QED
  BY <1>3, <1>4, <1>5

LEMMA SortedJoined ==
  ASSUME NEW a \in Seq(Buffer), NEW b \in Seq(Buffer), Sorted(a), Sorted(b),
         Below(In(a), In(b))
  PROVE  Sorted(a \o b) /\ In(a \o b) = In(a) \cup In(b)
<1> DEFINE p == a \o b
           m == Len(a)
           n == Len(b)
<1>1. /\ m \in Nat /\ n \in Nat /\ DOMAIN a = 1..m /\ DOMAIN b = 1..n
      /\ DOMAIN p = 1..m + n /\ \A i \in 1..m : p[i] = a[i]
      /\ \A i \in 1..n : p[m + i] = b[i]
      /\ \A i \in 1..m + n : i \notin 1..m => i - m \in 1..n /\ p[i] = b[i - m]
  BY Joined
<1> HIDE DEF p, m, n
<1>2. /\ \A i \in 1..m : ToSet(a[i].data) \subseteq In(a)
      /\ \A i \in 1..n : ToSet(b[i].data) \subseteq In(b)
  BY <1>1 DEF In
<1>3. \A i \in 1..m + n : Rising(p[i].data)
  <2> TAKE i \in 1..m + n
  <2>1. CASE i \in 1..m
    BY <1>1, <2>1 DEF Sorted
  <2>2. CASE i \notin 1..m
    BY <1>1, <2>2 DEF Sorted
  <2> QED
    BY <2>1, <2>2
<1>4. ASSUME NEW k \in 1..m + n, NEW l \in 1..m + n, k < l
      PROVE  Below(ToSet(p[k].data), ToSet(p[l].data))
  <2>1. CASE l \in 1..m
    <3>1. k \in 1..m
      BY <1>1, <1>4, <2>1
    <3> QED
      BY <1>1, <1>4, <2>1, <3>1 DEF Sorted
  <2>2. CASE k \in 1..m /\ l \notin 1..m
    <3>1. ToSet(p[k].data) \subseteq In(a) /\ ToSet(p[l].data) \subseteq In(b)
      BY <1>1, <1>2, <2>2
    <3> QED
      BY <3>1 DEF Below
  <2>3. CASE k \notin 1..m /\ l \notin 1..m
    <3>1. /\ k - m \in 1..n /\ l - m \in 1..n /\ k - m < l - m
          /\ p[k] = b[k - m] /\ p[l] = b[l - m]
      BY <1>1, <1>4, <2>3
    <3> QED
      BY <1>1, <3>1 DEF Sorted
  <2> QED
    BY <2>1, <2>2, <2>3
<1>5. Sorted(p)
  BY <1>1, <1>3, <1>4 DEF Sorted
<1>6. In(p) \subseteq In(a) \cup In(b)
  <2> SUFFICES ASSUME NEW i \in 1..m + n, NEW x \in ToSet(p[i].data)
               PROVE  x \in In(a) \cup In(b)
    BY <1>1 DEF In
  <2>1. CASE i \in 1..m
    BY <1>1, <1>2, <2>1
  <2>2. CASE i \notin 1..m
    BY <1>1, <1>2, <2>2
  <2> QED
    BY <2>1, <2>2
<1>7. In(a) \subseteq In(p)
  <2>1. \A i \in 1..m : i \in 1..m + n
    BY <1>1
  <2> QED
    BY <1>1, <2>1 DEF In
<1>8. In(b) \subseteq In(p)
  <2>1. \A i \in 1..n : m + i \in 1..m + n
    BY <1>1
  <2> QED
    BY <1>1, <2>1 DEF In
<1> QED
  BY <1>5, <1>6, <1>7, <1>8 DEF p

LEMMA HeldIs ==
  ASSUME NEW b \in Buffer \cup {NoBuffer}, Rising(b.data)
  PROVE  /\ Held(b) \in Seq(Buffer) /\ Sorted(Held(b)) /\ In(Held(b)) = ToSet(b.data)
         /\ b = EndOfStream => EndOfStream \in ToSet(Held(b))
<1>1. CASE b = NoBuffer
  <2>1. Held(b) = <<>> /\ b.data = <<>> /\ b # EndOfStream /\ DOMAIN <<>> = {}
    BY <1>1, Buffers DEF Held
  <2>2. <<>> \in Seq(Buffer)
    OBVIOUS
  <2> QED
    BY <2>1, <2>2, InEmpty, NoData DEF Sorted
<1>2. CASE b # NoBuffer
  <2> DEFINE q == <<b>>
  <2>1. Held(b) = q /\ q \in Seq(Buffer) /\ DOMAIN q = {1} /\ q[1] = b
    BY <1>2 DEF Held
  <2> HIDE DEF q
  <2>2. In(q) = ToSet(b.data)
    BY <2>1 DEF In
  <2>3. Sorted(q)
    BY <2>1 DEF Sorted
  <2>4. b \in ToSet(q)
    BY <2>1 DEF ToSet
  <2> QED
    BY <2>1, <2>2, <2>3, <2>4
<1> QED
  BY <1>1, <1>2

-----------------------------------------------------------------------------
(* The recursive function that flattens is there.                          *)
IsFlat(g, s) == g = [i \in 1..Len(s) |-> IF i = 1 THEN s[i] ELSE g[i - 1] \o s[i]]

LEMMA FlatExists ==
  ASSUME NEW s, Len(s) \in Nat
  PROVE  \E g : IsFlat(g, s)
<1> DEFINE Step(g, i) == IF i = 1 THEN s[i] ELSE g[i - 1] \o s[i]
           Flats(n) == \E g : g = [i \in 1..n |-> Step(g, i)]
<1>1. Flats(0)
  <2> DEFINE g == [i \in 1..0 |-> s]
  <2>1. \A i \in 1..0 : FALSE
    OBVIOUS
  <2>2. g = [i \in 1..0 |-> Step(g, i)]
    BY <2>1
  <2> QED
    BY <2>2
<1>2. ASSUME NEW n \in Nat, Flats(n) PROVE Flats(n + 1)
  <2>1. PICK g : g = [i \in 1..n |-> Step(g, i)]
    BY <1>2
  <2> DEFINE h == [i \in 1..n + 1 |-> Step(g, i)]
  <2>2. ASSUME NEW i \in 1..n + 1 PROVE Step(h, i) = Step(g, i)
    <3>1. CASE i = 1
      BY <3>1
    <3>2. CASE i # 1
      <4>1. i - 1 \in 1..n /\ i - 1 \in 1..n + 1
        BY <3>2
      <4>2. g[i - 1] = Step(g, i - 1) /\ h[i - 1] = Step(g, i - 1)
        <5> HIDE DEF Step
        <5> QED
          BY <2>1, <4>1
      <4>3. g[i - 1] = h[i - 1]
        <5> HIDE DEF Step, h
        <5> QED
          BY <4>2
      <4> HIDE DEF h
      <4> QED
        BY <3>2, <4>3
    <3> QED
      BY <3>1, <3>2
  <2>3. h = [i \in 1..n + 1 |-> Step(h, i)]
    <3> HIDE DEF Step
    <3> QED
      BY <2>2
  <2> QED
    BY <2>3
<1> HIDE DEF Flats
<1>3. ASSUME NEW n \in Nat PROVE Flats(n)
  <2> DEFINE Bad == {m \in Nat : ~Flats(m)}
  <2>1. SUFFICES ASSUME Bad # {} PROVE FALSE
    OBVIOUS
  <2>2. PICK m \in Bad : \A k \in Bad : m <= k
    BY <2>1, SmallestNumber
  <2>3. m # 0 /\ m - 1 \in Nat
    BY <1>1, <2>2
  <2>4. Flats(m - 1)
    BY <2>2, <2>3
  <2>5. Flats(m - 1 + 1) /\ m - 1 + 1 = m
    BY <1>2, <2>2, <2>3, <2>4
  <2> QED
    BY <2>2, <2>5
<1>4. Flats(Len(s))
  BY <1>3
<1> QED
  BY <1>4 DEF Flats, IsFlat

LEMMA FlatIs ==
  ASSUME NEW s, Len(s) \in Nat, Len(s) # 0
  PROVE  \E g : IsFlat(g, s) /\ FlattenSeq(s) = g[Len(s)]
<1> DEFINE g == CHOOSE h : IsFlat(h, s)
<1>1. IsFlat(g, s)
  BY FlatExists
<1>2. FlattenSeq(s) = g[Len(s)]
  BY DEF FlattenSeq, IsFlat
<1> QED
  BY <1>1, <1>2

(* Sorted buffers flatten to frames that rise.                             *)
LEMMA FlatRises ==
  ASSUME NEW p \in Seq(Buffer), Sorted(p)
  PROVE  LET f == FlattenSeq([i \in DOMAIN p |-> p[i].data])
         IN  f \in Seq(Frames) /\ Rising(f) /\ ToSet(f) = In(p)
<1> DEFINE s == [i \in DOMAIN p |-> p[i].data]
           n == Len(p)
           Upto(i) == UNION {ToSet(p[j].data) : j \in 1..i}
<1>1. /\ n \in Nat /\ DOMAIN p = 1..n /\ DOMAIN s = 1..n /\ Len(s) = n
      /\ \A i \in 1..n : s[i] = p[i].data /\ p[i] \in Buffer
  OBVIOUS
<1>2. \A i \in 1..n : s[i] \in Seq(Frames)
  BY <1>1, BufferIs
<1> HIDE DEF s
<1>3. CASE n = 0
  <2>1. s = <<>> /\ p = <<>> /\ <<>> \in Seq(Frames) /\ DOMAIN <<>> = {}
    BY <1>1, <1>3 DEF s
  <2>2. FlattenSeq(s) = <<>>
    BY <1>1, <1>3, <2>1 DEF FlattenSeq
  <2>3. Rising(<<>>) /\ ToSet(<<>>) = {}
    BY <2>1 DEF Rising, ToSet
  <2> QED
    BY <2>1, <2>2, <2>3, InEmpty DEF s
<1>4. CASE n # 0
  <2>1. PICK g : IsFlat(g, s) /\ FlattenSeq(s) = g[n]
    BY <1>1, <1>4, FlatIs
  <2> HIDE DEF n
  <2>2. \A i \in 1..n : g[i] = IF i = 1 THEN s[i] ELSE g[i - 1] \o s[i]
    BY <1>1, <2>1 DEF IsFlat
  <2> DEFINE Good(i) == g[i] \in Seq(Frames) /\ Rising(g[i]) /\ ToSet(g[i]) = Upto(i)
             Bad == {i \in 1..n : ~Good(i)}
  <2>3. Good(1)
    <3>1. 1 \in 1..n /\ 1..1 = {1}
      BY <1>1, <1>4
    <3>2. g[1] = p[1].data /\ g[1] \in Seq(Frames)
      BY <1>1, <1>2, <2>2, <3>1
    <3>3. Rising(g[1])
      BY <1>1, <3>1, <3>2 DEF Sorted
    <3>4. Upto(1) = ToSet(p[1].data)
      BY <3>1
    <3> QED
      BY <3>2, <3>3, <3>4
  <2>4. ASSUME NEW i \in 1..n, i # 1, Good(i - 1) PROVE Good(i)
    <3> DEFINE a == g[i - 1]
               b == p[i].data
    <3>1. g[i] = a \o b /\ a \in Seq(Frames) /\ b \in Seq(Frames)
      BY <1>1, <1>2, <2>2, <2>4
    <3>2. Rising(a) /\ Rising(b) /\ ToSet(a) = Upto(i - 1)
      BY <1>1, <2>4 DEF Sorted
    <3>3. \A j \in 1..i - 1 : j \in 1..n /\ j < i
      BY <1>1, <2>4
    <3>4. Below(ToSet(a), ToSet(b))
      <4> SUFFICES ASSUME NEW j \in 1..i - 1, NEW x \in ToSet(p[j].data), NEW y \in ToSet(b)
                   PROVE  x < y
        BY <3>2 DEF Below
      <4>1. Below(ToSet(p[j].data), ToSet(p[i].data))
        BY <1>1, <3>3 DEF Sorted
      <4> QED
        BY <4>1 DEF Below
    <3>5. Upto(i) = Upto(i - 1) \cup ToSet(b)
      <4>1. 1..i = (1..i - 1) \cup {i}
        BY <1>1, <2>4
      <4> QED
        BY <4>1
    <3>6. /\ a \o b \in Seq(Frames) /\ Rising(a \o b)
          /\ ToSet(a \o b) = ToSet(a) \cup ToSet(b)
      <4> HIDE DEF a, b
      <4>1. Rising(a \o b)
        BY <3>1, <3>2, <3>4, RisingJoined
      <4>2. a \o b \in Seq(Frames) /\ ToSet(a \o b) = ToSet(a) \cup ToSet(b)
        BY <3>1, Joined
      <4> QED
        BY <4>1, <4>2
    <3> HIDE DEF Upto, a, b
    <3> QED
      BY <3>1, <3>2, <3>5, <3>6
  <2> HIDE DEF Good
  <2>5. Bad = {}
    <3> SUFFICES ASSUME Bad # {} PROVE FALSE
      OBVIOUS
    <3>1. Bad \in SUBSET Nat
      OBVIOUS
    <3>2. PICK m \in Bad : \A k \in Bad : m <= k
      BY <3>1, SmallestNumber
    <3>3. m \in 1..n /\ m # 1 /\ ~Good(m)
      BY <2>3, <3>2
    <3>4. m - 1 \in 1..n /\ ~(m <= m - 1)
      BY <1>1, <3>3
    <3>5. Good(m - 1)
      BY <3>2, <3>4
    <3> QED
      BY <2>4, <3>3, <3>5
  <2>6. Good(n)
    <3>1. n \in 1..n
      BY <1>1, <1>4
    <3> QED
      BY <2>5, <3>1
  <2>7. Upto(n) = In(p)
    BY <1>1 DEF In
  <2> QED
    BY <2>1, <2>6, <2>7 DEF Good, s
<1> QED
  BY <1>3, <1>4

-----------------------------------------------------------------------------
(* In flight is what is inside, in order.                                  *)

LEMMA PipelineIs ==
  ASSUME IInv, InOrder(renderer, codec)
  PROVE  /\ Pipeline \in Seq(Buffer) /\ Sorted(Pipeline)
         /\ In(Pipeline) = Inside(renderer, codec)
         /\ Ends(codec.outputs) \/ Ends(codec.queue) \/ renderer.output = EndOfStream =>
              EndOfStream \in ToSet(Pipeline)
<1> DEFINE o == Held(renderer.output)
           i == Held(renderer.input)
           p == o \o codec.outputs
           q == p \o codec.queue
<1>1. RendererTyped(renderer) /\ CodecTyped(codec)
  BY Begun
<1>2. /\ renderer.output \in Buffer \cup {NoBuffer} /\ renderer.input \in Buffer \cup {NoBuffer}
      /\ codec.outputs \in Seq(Buffer) /\ codec.queue \in Seq(Buffer)
  BY <1>1 DEF RendererTyped, CodecTyped
<1>3. /\ Rising(renderer.output.data) /\ Sorted(codec.outputs) /\ Sorted(codec.queue)
      /\ Rising(renderer.input.data) /\ Below(In(codec.outputs), In(codec.queue))
      /\ Below(ToSet(renderer.output.data), Ahead(codec))
      /\ Below(ToSet(renderer.output.data) \cup Ahead(codec), ToSet(renderer.input.data))
  BY DEF InOrder
<1>4. /\ o \in Seq(Buffer) /\ Sorted(o) /\ In(o) = ToSet(renderer.output.data)
      /\ renderer.output = EndOfStream => EndOfStream \in ToSet(o)
  BY <1>2, <1>3, HeldIs
<1>5. i \in Seq(Buffer) /\ Sorted(i) /\ In(i) = ToSet(renderer.input.data)
  BY <1>2, <1>3, HeldIs
<1>6. Pipeline = q \o i
  BY DEF Pipeline
<1> HIDE DEF o, i
<1>7. /\ Below(In(o), In(codec.outputs))
      /\ Below(In(o) \cup In(codec.outputs), In(codec.queue))
      /\ Below(In(o) \cup In(codec.outputs) \cup In(codec.queue), In(i))
  BY <1>3, <1>4, <1>5 DEF Below, Ahead
<1>8. p \in Seq(Buffer) /\ ToSet(p) = ToSet(o) \cup ToSet(codec.outputs)
  BY <1>2, <1>4, Joined
<1>9. Sorted(p) /\ In(p) = In(o) \cup In(codec.outputs)
  BY <1>2, <1>3, <1>4, <1>7, SortedJoined
<1> HIDE DEF p
<1>10. q \in Seq(Buffer) /\ ToSet(q) = ToSet(p) \cup ToSet(codec.queue)
  BY <1>2, <1>8, Joined
<1>11. Sorted(q) /\ In(q) = In(p) \cup In(codec.queue)
  <2>1. Below(In(p), In(codec.queue))
    BY <1>7, <1>9
  <2> QED
    BY <1>2, <1>3, <1>8, <1>9, <2>1, SortedJoined
<1> HIDE DEF q
<1>12. q \o i \in Seq(Buffer) /\ ToSet(q \o i) = ToSet(q) \cup ToSet(i)
  BY <1>5, <1>10, Joined
<1>13. Sorted(q \o i) /\ In(q \o i) = In(q) \cup In(i)
  <2>1. Below(In(q), In(i))
    BY <1>7, <1>9, <1>11
  <2> QED
    BY <1>5, <1>10, <1>11, <2>1, SortedJoined
<1>14. In(q \o i) = Inside(renderer, codec)
  BY <1>4, <1>5, <1>9, <1>11, <1>13 DEF Inside, Ahead
<1>15. Ends(codec.outputs) \/ Ends(codec.queue) \/ renderer.output = EndOfStream =>
         EndOfStream \in ToSet(q \o i)
  BY <1>4, <1>8, <1>10, <1>12 DEF Ends
<1> QED
  BY <1>6, <1>12, <1>13, <1>14, <1>15

LEMMA InFlightIs ==
  ASSUME IInv, InOrder(renderer, codec)
  PROVE  /\ InFlight \in Seq(Frames) /\ Rising(InFlight)
         /\ ToSet(InFlight) = Inside(renderer, codec)
<1>1. Pipeline \in Seq(Buffer) /\ Sorted(Pipeline) /\ In(Pipeline) = Inside(renderer, codec)
  BY PipelineIs
<1> QED
  BY <1>1, FlatRises DEF InFlight

(* Frames that rise without a gap follow each other.                       *)
LEMMA NoneLostFollows ==
  ASSUME NEW f \in Seq(Frames), Rising(f), SourceTyped(source), NoneLost(ToSet(f), source),
         NEW i \in DOMAIN f
  PROVE  FollowsIn(f[i], Append(f, source.next)[i + 1])
<1> DEFINE n == Len(f)
           t == Append(f, source.next)
           m == f[i]
<1>1. /\ n \in Nat /\ DOMAIN f = 1..n /\ i \in 1..n
      /\ \A k \in 1..n : f[k] \in Frames /\ f[k] \in Int
      /\ \A k \in 1..n : t[k] = f[k]
      /\ t[n + 1] = source.next
  BY FramesAre
<1>2. \A k \in 1..n : f[k] \in ToSet(f)
  BY <1>1 DEF ToSet
<1> PICK x : x = t[i + 1]
  OBVIOUS
<1>3. \A k, l \in 1..n : k < l => f[k] < f[l]
  BY <1>1 DEF Rising
<1> HIDE DEF n
<1>4. i = n \/ (i + 1 \in 1..n)
  BY <1>1
<1>5. CASE i = n
  <2>1. x = source.next /\ x \in Int
    BY <1>1, <1>5, SourceIs
  <2>2. m < x
    BY <1>1, <1>2, <2>1 DEF NoneLost
  <2>3. x - 1 \in ToSet(f) \/ (x <= source.wanted /\ Samples[x].sync)
    BY <1>1, <1>2, <2>1, <2>2 DEF NoneLost
  <2>4. ASSUME x - 1 \in ToSet(f) PROVE x = m + 1
    <3> PICK j \in 1..n : f[j] = x - 1
      BY <1>1, <2>4 DEF ToSet
    <3>1. j = i \/ j < i
      BY <1>1, <1>5
    <3>2. x - 1 <= m
      BY <1>1, <1>3, <3>1
    <3> QED
      BY <1>1, <2>1, <2>2, <3>2
  <2> QED
    BY <2>2, <2>3, <2>4 DEF FollowsIn
<1>6. CASE i + 1 \in 1..n
  <2>1. x = f[i + 1] /\ x \in Int /\ x \in ToSet(f)
    BY <1>1, <1>2, <1>6
  <2>2. m < x
    BY <1>1, <1>6, <2>1 DEF Rising
  <2>3. x - 1 \in ToSet(f) \/ (x <= source.wanted /\ Samples[x].sync)
    BY <1>1, <1>2, <2>1, <2>2 DEF NoneLost
  <2>4. ASSUME x - 1 \in ToSet(f) PROVE x = m + 1
    <3> PICK j \in 1..n : f[j] = x - 1
      BY <1>1, <2>4 DEF ToSet
    <3> PICK k \in 1..n : k = i + 1
      BY <1>6
    <3>1. f[j] < f[k] /\ f[j] \in Int /\ f[k] \in Int
      BY <1>1, <2>1
    <3>2. ~(k < j) /\ j # k
      BY <1>3, <3>1
    <3>3. j = i \/ j < i
      BY <1>1, <3>2
    <3>4. x - 1 <= m
      BY <1>1, <1>3, <3>3
    <3> QED
      BY <1>1, <2>1, <2>2, <3>4
  <2> QED
    BY <2>2, <2>3, <2>4 DEF FollowsIn
<1> QED
  BY <1>4, <1>5, <1>6

LEMMA InOrderFollow ==
  ASSUME IInv, StreamInv
  PROVE  FramesFollowEachOther
<1>1. SourceTyped(source) /\ RendererTyped(renderer)
  BY Begun
<1>2. ASSUME source.discontinuity PROVE FramesFollowEachOther
  <2>1. ~renderer.outputStreamEnded
    BY <1>2, StreamsIs DEF Awaits
  <2> QED
    BY <1>2, <2>1 DEF FramesFollowEachOther, FollowingFrames, EndFollowsLastFrame
<1>3. ASSUME ~source.discontinuity PROVE FramesFollowEachOther
  <2>1. /\ InOrder(renderer, codec) /\ NoneLost(Inside(renderer, codec), source)
        /\ ShownBefore(renderer, Inside(renderer, codec), source)
        /\ EndComesLast(renderer, codec, source)
    BY <1>3, StreamsIs DEF Flowing
  <2>2. /\ InFlight \in Seq(Frames) /\ Rising(InFlight)
        /\ ToSet(InFlight) = Inside(renderer, codec)
    BY <2>1, InFlightIs
  <2>3. \A i \in DOMAIN InFlight :
          FollowsIn(InFlight[i], Append(InFlight, source.next)[i + 1])
    BY <1>1, <2>1, <2>2, NoneLostFollows
  <2>4. InFlight # <<>> => Head(InFlight) \in ToSet(InFlight)
    <3>1. InFlight # <<>> => 1 \in DOMAIN InFlight /\ Head(InFlight) = InFlight[1]
      BY <2>2
    <3> QED
      BY <3>1 DEF ToSet
  <2>5. FollowingFrames
    BY <2>1, <2>2, <2>3, <2>4 DEF FollowingFrames, ShownBefore
  <2>6. Ends(codec.outputs) \/ Ends(codec.queue) \/ renderer.output = EndOfStream =>
          EndOfStream \in ToSet(Pipeline)
    BY <2>1, PipelineIs
  <2>7. EndFollowsLastFrame
    BY <2>1, <2>6 DEF EndFollowsLastFrame, EndComesLast
  <2> QED
    BY <2>5, <2>7 DEF FramesFollowEachOther
<1> QED
  BY <1>2, <1>3

(* Frames are shown one after another, none missing or twice, and the      *)
(* track ends after its last frame, through seeks, flushes, changes of     *)
(* format and of the surface (readData into feedInputBuffer,               *)
(* drainOutputBuffer, processOutputBuffer).                                *)
THEOREM FramesInOrder == Spec => []FramesFollowEachOther
BY InOrderFollow, InductiveStreams, PTL
=============================================================================
