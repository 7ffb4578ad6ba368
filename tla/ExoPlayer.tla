------------------------------ MODULE ExoPlayer ------------------------------
(***************************************************************************)
(* ExoPlayerImpl (the application thread's half) and ExoPlayerImplInternal *)
(* (the playback thread's half), joined by two message queues: the         *)
(* handler of the playback thread and the event handler of the application *)
(* thread.                                                                 *)
(*                                                                         *)
(* The handler's queue is kept in two parts.  inbox holds what the         *)
(* application posted, oldest first.  work and prep hold the player's own  *)
(* DO_SOME_WORK and INCREMENTAL_PREPARE messages, each as the number of    *)
(* inbox messages still ahead of it: 0 is next.  A delayed message is a    *)
(* timer; when it expires it takes the last place in the queue.            *)
(*                                                                         *)
(* A handler is one action.  It posts its own messages and events as its   *)
(* last effects on the queues, so an application step in the middle of it  *)
(* is the same as one right before or right after it.  Media time is left  *)
(* out: which renderers have ended, and whether the others are ready, is   *)
(* chosen by the environment when the player asks.                         *)
(***************************************************************************)
EXTENDS TrackRenderer, Integers, Sequences

CONSTANTS
  HasTimeSource,  \* whether one of the renderers is a time source
  AppCalls,       \* the methods the application uses
  MaxInbox,       \* bound: application messages waiting at a time
  MaxEvents,      \* bound: events waiting when a handler starts
  MaxCustom       \* bound: custom messages sent in a run

CallNames == {"prepare", "setPlayWhenReady", "seekTo", "stop", "release",
              "sendMessage", "blockingSendMessage", "setRendererEnabled"}

ASSUME PlayerAssumption ==
  /\ HasTimeSource \in BOOLEAN
  /\ AppCalls \subseteq CallNames
  /\ MaxInbox \in Nat /\ MaxEvents \in Nat /\ MaxCustom \in Nat

PlayerState == {"IDLE", "PREPARING", "BUFFERING", "READY", "ENDED"}

(* android.os.Message: what, an index (arg1) and a flag (arg2).            *)
Message ==
  [what : {"PREPARE", "SET_PLAY_WHEN_READY", "STOP", "RELEASE", "SEEK_TO",
           "CUSTOM", "SET_RENDERER_ENABLED"},
   index : Idx \cup {0}, flag : BOOLEAN]
Msg(what, index, flag) == [what |-> what, index |-> index, flag |-> flag]
Plain(what) == Msg(what, 0, FALSE)

(* An event is a new playback state, an acknowledgement or an error.       *)
Event == PlayerState \cup {"ACK", "ERROR"}

VARIABLES
  \* ExoPlayerImpl and the application that drives it
  appPc,            \* "run", "blocked", "releasing" or "released"
  appPlayWhenReady, \* ExoPlayerImpl.playWhenReady
  appFlags,         \* ExoPlayerImpl.rendererEnabledFlags, as a set
  pendingAcks,      \* pendingPlayWhenReadyAcks
  playbackState,    \* ExoPlayerImpl.playbackState
  handedOver,       \* prepare() called and not yet followed by stop()
  awaited,          \* the message number blockingSendMessage waits for
  \* the two message queues
  inbox, work, prep, workTimer, prepTimer, events,
  \* ExoPlayerImplInternal
  state, playWhenReady, flags, rebuffering,
  held,             \* renderers # null
  rs,               \* TrackRenderer.state of the last array of renderers
  enabled,          \* enabledRenderers, as a set
  ended,            \* the enabled renderers whose isEnded() holds
  clockRunning,     \* mediaClock.started
  sent, processed,  \* customMessagesSent, customMessagesProcessed
  released,
  illegal           \* a checkState of TrackRenderer or prepareInternal failed

appVars == <<appPc, appPlayWhenReady, appFlags, pendingAcks, playbackState,
             handedOver, awaited, sent>>
selfVars == <<work, prep, workTimer, prepTimer>>
coreVars == <<state, held, rs, enabled, ended, clockRunning, illegal>>
vars == <<appVars, inbox, selfVars, events, coreVars, playWhenReady, flags,
          rebuffering, processed, released>>

Init ==
  /\ appPc = "run" /\ appPlayWhenReady = FALSE /\ appFlags = Idx
  /\ pendingAcks = 0 /\ playbackState = "IDLE"
  /\ handedOver = FALSE /\ awaited = 0
  /\ inbox = <<>> /\ work = {} /\ prep = {}
  /\ workTimer = FALSE /\ prepTimer = FALSE /\ events = <<>>
  /\ state = "IDLE" /\ playWhenReady = FALSE /\ flags = Idx
  /\ rebuffering = FALSE /\ held = FALSE
  /\ rs = [i \in Idx |-> RELEASED]
  /\ enabled = {} /\ ended = {} /\ clockRunning = FALSE
  /\ sent = 0 /\ processed = 0 /\ released = FALSE /\ illegal = FALSE

-----------------------------------------------------------------------------
(* The application thread.                                                 *)

Call(name) == appPc = "run" /\ name \in AppCalls /\ Len(inbox) < MaxInbox
Post(m) == inbox' = Append(inbox, m)
internalVars == <<selfVars, events, coreVars, playWhenReady, flags,
                  rebuffering, processed, released>>

(* An application hands over a new array of renderers only after stop().   *)
Prepare ==
  /\ Call("prepare") /\ ~handedOver
  /\ handedOver' = TRUE
  /\ Post(Plain("PREPARE"))
  /\ UNCHANGED <<appPc, appPlayWhenReady, appFlags, pendingAcks,
                 playbackState, awaited, sent, internalVars>>

Stop ==
  /\ Call("stop")
  /\ handedOver' = FALSE
  /\ Post(Plain("STOP"))
  /\ UNCHANGED <<appPc, appPlayWhenReady, appFlags, pendingAcks,
                 playbackState, awaited, sent, internalVars>>

SetPlayWhenReady(p) ==
  /\ Call("setPlayWhenReady") /\ appPlayWhenReady # p
  /\ appPlayWhenReady' = p
  /\ pendingAcks' = pendingAcks + 1
  /\ Post(Msg("SET_PLAY_WHEN_READY", 0, p))
  /\ UNCHANGED <<appPc, appFlags, playbackState, handedOver, awaited, sent,
                 internalVars>>

SetRendererEnabled(i, b) ==
  /\ Call("setRendererEnabled") /\ (i \in appFlags) # b
  /\ appFlags' = IF b THEN appFlags \cup {i} ELSE appFlags \ {i}
  /\ Post(Msg("SET_RENDERER_ENABLED", i, b))
  /\ UNCHANGED <<appPc, appPlayWhenReady, pendingAcks, playbackState,
                 handedOver, awaited, sent, internalVars>>

SeekTo ==
  /\ Call("seekTo")
  /\ Post(Plain("SEEK_TO"))
  /\ UNCHANGED <<appVars, internalVars>>

SendMessage ==
  /\ Call("sendMessage") /\ sent < MaxCustom
  /\ sent' = sent + 1
  /\ Post(Plain("CUSTOM"))
  /\ UNCHANGED <<appPc, appPlayWhenReady, appFlags, pendingAcks,
                 playbackState, handedOver, awaited, internalVars>>

BlockingSendMessage ==
  /\ Call("blockingSendMessage") /\ sent < MaxCustom
  /\ awaited' = sent
  /\ sent' = sent + 1
  /\ appPc' = "blocked"
  /\ Post(Plain("CUSTOM"))
  /\ UNCHANGED <<appPlayWhenReady, appFlags, pendingAcks, playbackState,
                 handedOver, internalVars>>

BlockingSendReturns ==
  /\ appPc = "blocked" /\ processed > awaited
  /\ appPc' = "run"
  /\ UNCHANGED <<appPlayWhenReady, appFlags, pendingAcks, playbackState,
                 handedOver, awaited, sent, inbox, internalVars>>

Release ==
  /\ Call("release")
  /\ appPc' = "releasing"
  /\ Post(Plain("RELEASE"))
  /\ UNCHANGED <<appPlayWhenReady, appFlags, pendingAcks, playbackState,
                 handedOver, awaited, sent, internalVars>>

(* The wait ends, the playback thread quits and pending events are dropped.*)
ReleaseReturns ==
  /\ appPc = "releasing" /\ released
  /\ appPc' = "released"
  /\ events' = <<>>
  /\ UNCHANGED <<appPlayWhenReady, appFlags, pendingAcks, playbackState,
                 handedOver, awaited, sent, inbox, selfVars, coreVars,
                 playWhenReady, flags, rebuffering, processed, released>>

(* handleEvent: what an event makes of playbackState and of the count of   *)
(* acknowledgements.                                                       *)
ShownAfter_NoBreak(e) == e
ShownAfter(e) == IF e \in PlayerState THEN e ELSE playbackState

AcksAfter(e) == IF e = "ACK" THEN pendingAcks - 1 ELSE pendingAcks

HandleEvent ==
  /\ appPc = "run" /\ events # <<>>
  /\ playbackState' = ShownAfter(Head(events))
  /\ pendingAcks' = AcksAfter(Head(events))
  /\ events' = Tail(events)
  /\ UNCHANGED <<appPc, appPlayWhenReady, appFlags, handedOver, awaited, sent,
                 inbox, selfVars, coreVars, playWhenReady, flags,
                 rebuffering, processed, released>>

-----------------------------------------------------------------------------
(* The playback thread: what its handlers share.                           *)

AppWaits == \/ appPc = "releasing" /\ ~released
            \/ appPc = "blocked" /\ processed <= awaited

(* Bound: a handler starts only with room for events, unless the           *)
(* application thread is waiting for the playback thread.                  *)
EventRoom == AppWaits \/ Len(events) < MaxEvents

(* The next message of the queue is m of the application.                  *)
Receive(m) ==
  /\ EventRoom /\ appPc # "released"
  /\ inbox # <<>> /\ Head(inbox) = m
  /\ 0 \notin work /\ 0 \notin prep
  /\ inbox' = Tail(inbox)

Closer(ks) == {k - 1 : k \in ks}

(* The player's own messages after a received one, with DO_SOME_WORK or    *)
(* INCREMENTAL_PREPARE posted when asked for.                              *)
Requeue(postWork, postPrep) ==
  /\ work' = Closer(work) \cup (IF postWork THEN {Len(inbox')} ELSE {})
  /\ prep' = Closer(prep) \cup (IF postPrep THEN {Len(inbox')} ELSE {})
  /\ UNCHANGED <<workTimer, prepTimer>>

(* setState: an event only when the state changes.                         *)
Reported_NotBuffering(ev, s0, s1) ==
  IF s0 = s1 \/ s1 = "BUFFERING" THEN ev ELSE Append(ev, s1)
Reported_NotIdle(ev, s0, s1) ==
  IF s0 = s1 \/ s1 = "IDLE" THEN ev ELSE Append(ev, s1)
Reported(ev, s0, s1) == IF s0 = s1 THEN ev ELSE Append(ev, s1)

(* The renderers after resetInternal has gone over them all.               *)
CleanedUp(r) ==
  {c \in [Idx -> RendererState] :
     \A i \in Idx : c[i] \in CleanupOutcomes(i, r[i])}

(* removeMessages of both kinds.                                           *)
RemoveMessages_NotDelayed ==
  work' = {} /\ prep' = {} /\ UNCHANGED <<workTimer, prepTimer>>
RemoveMessages ==
  work' = {} /\ prep' = {} /\ workTimer' = FALSE /\ prepTimer' = FALSE

(* resetInternal from renderer states r, player state s and events ev.     *)
Reset_ClockRuns(r, s, ev) ==
  /\ RemoveMessages
  /\ rs' \in CleanedUp(r)
  /\ held' = FALSE /\ enabled' = {} /\ ended' = {}
  /\ state' = "IDLE" /\ events' = Reported(ev, s, "IDLE")
  /\ UNCHANGED clockRunning
Reset_KeepsEnabled(r, s, ev) ==
  /\ RemoveMessages /\ clockRunning' = FALSE
  /\ rs' \in CleanedUp(r)
  /\ held' = FALSE /\ ended' = {} /\ UNCHANGED enabled
  /\ state' = "IDLE" /\ events' = Reported(ev, s, "IDLE")
Reset(r, s, ev) ==
  /\ RemoveMessages /\ clockRunning' = FALSE
  /\ rs' \in CleanedUp(r)
  /\ held' = FALSE /\ enabled' = {} /\ ended' = {}
  /\ state' = "IDLE" /\ events' = Reported(ev, s, "IDLE")

(* resetInternal when no renderers are held: it returns early.             *)
ResetIdle(ev) ==
  /\ RemoveMessages /\ clockRunning' = FALSE /\ events' = ev
  /\ UNCHANGED <<rs, held, enabled, ended, state>>

ResetInternal(ev) == IF held THEN Reset(rs, state, ev) ELSE ResetIdle(ev)

(* A throw leaves the handler in the middle of a loop from r to t, with    *)
(* player state s and events ev; the catch blocks of handleMessage report  *)
(* it and call stopInternal.                                               *)
Throws(r, t, s, ev) ==
  /\ \E q \in MidLoop(r, t) : Reset(q, s, Append(ev, "ERROR"))
  /\ rebuffering' = FALSE

CanThrow(es) == es \cap Faulty # {}

(* Starting each of es from renderer states r passes TrackRenderer.start's *)
(* checkState.                                                             *)
Startable(r, es) == \A i \in es : r[i] = ENABLED_

(* What allRenderersReadyOrEnded may be, given the ended renderers.        *)
ReadyOrEnded(es, e) == IF es \subseteq e THEN {TRUE} ELSE BOOLEAN

Playing == playWhenReady /\ state = "READY"
Started(s) == s \in {"BUFFERING", "READY", "ENDED"}

(* startRenderers from renderer states r with es enabled throws: from a    *)
(* callback, or from a failing checkState.                                 *)
StartThrows(r, es, s, ev) ==
  /\ CanThrow(es) \/ ~Startable(r, es)
  /\ Throws(r, Move(r, es, STARTED), s, ev)
  /\ illegal' = (illegal \/ ~Startable(r, es))

Quiet == UNCHANGED <<appVars, released>>

-----------------------------------------------------------------------------
(* The playback thread: the application's messages.                        *)

(* prepareInternal: checkState fails if a time source is held already.     *)
PrepareInternal ==
  /\ Receive(Plain("PREPARE"))
  /\ rebuffering' = FALSE
  /\ LET fresh == [i \in Idx |-> UNPREPARED] IN
       \/ /\ ~(held /\ HasTimeSource)
          /\ held' = TRUE /\ rs' = fresh /\ state' = "PREPARING"
          /\ events' = Reported(events, state, "PREPARING")
          /\ Requeue(FALSE, TRUE)
          /\ illegal' = (illegal \/ held)
          /\ UNCHANGED <<enabled, ended, clockRunning>>
       \/ /\ held /\ HasTimeSource
          /\ Reset(fresh, state, Append(events, "ERROR"))
          /\ illegal' = TRUE
  /\ UNCHANGED <<playWhenReady, flags, processed>> /\ Quiet

(* The finally block of setPlayWhenReadyInternal acknowledges either way.  *)
Acked_NotIdle == IF state = "IDLE" THEN events ELSE Append(events, "ACK")
Acked == Append(events, "ACK")

(* setPlayWhenReadyInternal.                                               *)
SetPlayWhenReadyInternal(p) ==
  /\ Receive(Msg("SET_PLAY_WHEN_READY", 0, p))
  /\ playWhenReady' = p
  /\ LET running == {i \in enabled : rs[i] = STARTED} IN
       \/ /\ ~p                                     \* stopRenderers
          /\ rs' = Stopped(rs, enabled) /\ clockRunning' = FALSE
          /\ rebuffering' = FALSE /\ events' = Acked
          /\ Requeue(FALSE, FALSE)
          /\ UNCHANGED <<state, held, enabled, ended, illegal>>
       \/ /\ ~p /\ CanThrow(running)
          /\ Throws(rs, Stopped(rs, enabled), state, Acked)
          /\ UNCHANGED illegal
       \/ /\ p /\ state = "READY" /\ Startable(rs, enabled)
          /\ rs' = Move(rs, enabled, STARTED) /\ clockRunning' = TRUE
          /\ rebuffering' = FALSE /\ events' = Acked
          /\ Requeue(TRUE, FALSE)
          /\ UNCHANGED <<state, held, enabled, ended, illegal>>
       \/ /\ p /\ state = "READY"
          /\ StartThrows(rs, enabled, state, Acked)
       \/ /\ p /\ state # "READY"
          /\ rebuffering' = FALSE /\ events' = Acked
          /\ Requeue(state = "BUFFERING", FALSE)
          /\ UNCHANGED coreVars
  /\ UNCHANGED <<flags, processed>> /\ Quiet

(* seekToInternal: every enabled renderer is stopped and sought.           *)
SeekToInternal ==
  /\ Receive(Plain("SEEK_TO"))
  /\ \/ /\ ~Started(state)
        /\ clockRunning' = FALSE /\ rebuffering' = FALSE
        /\ Requeue(FALSE, FALSE)
        /\ UNCHANGED <<state, held, rs, enabled, ended, events, illegal>>
     \/ /\ Started(state)
        /\ rs' = Stopped(rs, enabled) /\ ended' = {}
        /\ clockRunning' = FALSE /\ rebuffering' = FALSE
        /\ state' = "BUFFERING"
        /\ events' = Reported(events, state, "BUFFERING")
        /\ Requeue(TRUE, FALSE)
        /\ UNCHANGED <<held, enabled, illegal>>
     \/ /\ Started(state) /\ CanThrow(enabled)
        /\ Throws(rs, Stopped(rs, enabled), state, events)
        /\ UNCHANGED illegal
  /\ UNCHANGED <<playWhenReady, flags, processed>> /\ Quiet

StopInternal ==
  /\ Receive(Plain("STOP"))
  /\ ResetInternal(events)
  /\ rebuffering' = FALSE
  /\ UNCHANGED <<playWhenReady, flags, processed, illegal>> /\ Quiet

ReleaseInternal ==
  /\ Receive(Plain("RELEASE"))
  /\ ResetInternal(events)
  /\ released' = TRUE
  /\ UNCHANGED <<appVars, playWhenReady, flags, rebuffering, processed,
                 illegal>>

(* sendMessageInternal: the target's handleMessage may throw; the message  *)
(* counts as processed either way.                                         *)
SendMessageInternal_NoFinally ==
  /\ Receive(Plain("CUSTOM"))
  /\ \/ /\ Requeue(Started(state), FALSE)
        /\ processed' = processed + 1
        /\ UNCHANGED <<coreVars, events, rebuffering>>
     \/ /\ Faulty # {}
        /\ ResetInternal(Append(events, "ERROR"))
        /\ rebuffering' = FALSE
        /\ UNCHANGED <<processed, illegal>>
  /\ UNCHANGED <<playWhenReady, flags>> /\ Quiet
SendMessageInternal ==
  /\ Receive(Plain("CUSTOM"))
  /\ processed' = processed + 1
  /\ \/ /\ Requeue(Started(state), FALSE)
        /\ UNCHANGED <<coreVars, events, rebuffering>>
     \/ /\ Faulty # {}
        /\ ResetInternal(Append(events, "ERROR"))
        /\ rebuffering' = FALSE
        /\ UNCHANGED illegal
  /\ UNCHANGED <<playWhenReady, flags>> /\ Quiet

(* setRendererEnabledInternal, enabling: the renderer joins the playback.  *)
Joined == IF Playing THEN STARTED ELSE ENABLED_
EnableInternal(i) ==
  LET r1 == Move(rs, {i}, ENABLED_)
      r2 == Move(rs, {i}, Joined)
  IN
    \/ /\ rs[i] = PREPARED
       /\ rs' = r2 /\ enabled' = enabled \cup {i}
       /\ \E e \in SUBSET {i} : ended' = (ended \ {i}) \cup e
       /\ Requeue(TRUE, FALSE)
       /\ UNCHANGED <<state, held, clockRunning, events, rebuffering, illegal>>
    \/ /\ rs[i] # PREPARED \/ i \in Faulty
       /\ IF rs[i] # PREPARED
          THEN Throws(rs, rs, state, events)
          ELSE \E r \in {r1, r2} : Throws(r, r, state, events)
       /\ illegal' = (illegal \/ rs[i] # PREPARED)

(* setRendererEnabledInternal, disabling.                                  *)
DisableInternal(i) ==
  LET r1 == Stopped(rs, {i})
      r2 == Move(rs, {i}, PREPARED)
  IN
    \/ /\ r1[i] = ENABLED_
       /\ rs' = r2
       /\ enabled' = enabled \ {i} /\ ended' = ended \ {i}
       /\ Requeue(FALSE, FALSE)
       /\ UNCHANGED <<state, held, clockRunning, events, rebuffering, illegal>>
    \/ /\ r1[i] # ENABLED_ \/ i \in Faulty
       /\ IF r1[i] # ENABLED_
          THEN Throws(r1, r1, state, events)
          ELSE \E r \in {r1, r2} : Throws(r, r, state, events)
       /\ illegal' = (illegal \/ r1[i] # ENABLED_)

SetRendererEnabledInternal(i, b) ==
  /\ Receive(Msg("SET_RENDERER_ENABLED", i, b))
  /\ flags' = IF b THEN flags \cup {i} ELSE flags \ {i}
  /\ \/ /\ \/ (i \in flags) = b
           \/ ~Started(state)
           \/ rs[i] \notin {PREPARED, ENABLED_, STARTED}
        /\ Requeue(FALSE, FALSE)
        /\ UNCHANGED <<coreVars, events, rebuffering>>
     \/ /\ (i \in flags) # b
        /\ Started(state)
        /\ rs[i] \in {PREPARED, ENABLED_, STARTED}
        /\ IF b THEN EnableInternal(i) ELSE DisableInternal(i)
  /\ UNCHANGED <<playWhenReady, processed>> /\ Quiet

-----------------------------------------------------------------------------
(* The playback thread: its own messages.                                  *)

(* scheduleNextOperation: at once if the handler took longer than the      *)
(* interval, otherwise after a delay.  Pending DO_SOME_WORK messages have  *)
(* been removed.                                                           *)
ScheduleWork(wanted) ==
  /\ work' \in (IF wanted THEN {{}, {Len(inbox)}} ELSE {{}})
  /\ workTimer' = (wanted /\ work' = {})
  /\ UNCHANGED <<prep, prepTimer>>

SchedulePrepare ==
  \/ prep' = (prep \ {0}) \cup {Len(inbox)} /\ UNCHANGED prepTimer
  \/ prep' = prep \ {0} /\ prepTimer' = TRUE

WorkTimerFires ==
  /\ workTimer /\ workTimer' = FALSE
  /\ work' = work \cup {Len(inbox)}
  /\ UNCHANGED <<appVars, inbox, prep, prepTimer, events, coreVars,
                 playWhenReady, flags, rebuffering, processed, released>>

PrepTimerFires ==
  /\ prepTimer /\ prepTimer' = FALSE
  /\ prep' = prep \cup {Len(inbox)}
  /\ UNCHANGED <<appVars, inbox, work, workTimer, events, coreVars,
                 playWhenReady, flags, rebuffering, processed, released>>

(* The renderers enabled after preparation.                                *)
Chosen(p) == {i \in Idx : i \in flags /\ p[i] = PREPARED}

(* The second half of incrementalPrepareInternal: with every renderer      *)
(* prepared (states p), the flagged ones are enabled and the player leaves *)
(* PREPARING.                                                              *)
FinishPrepare(p) ==
  LET chosen == Chosen(p)
      on == enabled \cup chosen
      r1 == Move(p, chosen, ENABLED_)
  IN
    \E e \in SUBSET chosen :
    \E ready \in ReadyOrEnded(chosen, e) :
      LET s == IF chosen \subseteq e THEN "ENDED"
               ELSE IF ready THEN "READY" ELSE "BUFFERING"
          ev == Reported(events, state, s)
          starts == s = "READY" /\ playWhenReady
      IN
        \/ /\ starts => Startable(r1, on)
           /\ rs' = IF starts THEN Move(r1, on, STARTED) ELSE r1
           /\ clockRunning' = (clockRunning \/ starts)
           /\ rebuffering' = (rebuffering /\ ~starts)
           /\ enabled' = on /\ ended' = (ended \ chosen) \cup e
           /\ state' = s /\ events' = ev
           /\ work' = work \cup {Len(inbox)} /\ prep' = prep \ {0}
           /\ UNCHANGED <<held, workTimer, prepTimer, illegal>>
        \/ starts /\ StartThrows(r1, on, s, ev)
        \/ /\ CanThrow(chosen)                      \* enable throws
           /\ Throws(p, r1, state, events)
           /\ UNCHANGED illegal

IncrementalPrepareInternal ==
  /\ EventRoom /\ 0 \in prep
  /\ \E p \in PrepareOutcomes(rs) :
       \/ /\ UNPREPARED \in {p[i] : i \in Idx}
          /\ rs' = p
          /\ SchedulePrepare
          /\ UNCHANGED <<work, workTimer, state, held, enabled, ended,
                         clockRunning, events, rebuffering, illegal>>
       \/ /\ UNPREPARED \notin {p[i] : i \in Idx}
          /\ FinishPrepare(p)
       \/ /\ \E i \in Faulty : rs[i] = UNPREPARED   \* doPrepare throws
          /\ Throws(rs, p, state, events)
          /\ UNCHANGED illegal
  /\ UNCHANGED <<inbox, playWhenReady, flags, processed>> /\ Quiet

(* doSomeWork when every enabled renderer has ended.                       *)
WorkEnds(e) ==
  LET ev == Reported(events, state, "ENDED") IN
    \/ /\ state' = "ENDED" /\ events' = ev
       /\ rs' = Stopped(rs, enabled) /\ clockRunning' = FALSE
       /\ ended' = e
       /\ ScheduleWork(enabled # {})
       /\ UNCHANGED <<held, enabled, rebuffering, illegal>>
    \/ /\ CanThrow({i \in enabled : rs[i] = STARTED})
       /\ Throws(rs, Stopped(rs, enabled), "ENDED", ev)
       /\ UNCHANGED illegal

(* doSomeWork when a buffering player has become ready.                    *)
WorkGetsReady(e) ==
  LET ev == Reported(events, state, "READY") IN
    \/ /\ playWhenReady => Startable(rs, enabled)
       /\ state' = "READY" /\ events' = ev
       /\ rs' = IF playWhenReady THEN Move(rs, enabled, STARTED) ELSE rs
       /\ clockRunning' = (clockRunning \/ playWhenReady)
       /\ rebuffering' = (rebuffering /\ ~playWhenReady)
       /\ ended' = e
       /\ ScheduleWork(playWhenReady \/ enabled # {})
       /\ UNCHANGED <<held, enabled, illegal>>
    \/ playWhenReady /\ StartThrows(rs, enabled, "READY", ev)

(* doSomeWork when a ready player has run out of data.                     *)
WorkRebuffers_Always(e) ==
  /\ state' = "BUFFERING" /\ events' = Reported(events, state, "BUFFERING")
  /\ rebuffering' = TRUE
  /\ rs' = Stopped(rs, enabled) /\ clockRunning' = FALSE
  /\ ended' = e
  /\ ScheduleWork(TRUE)
  /\ UNCHANGED <<held, enabled, illegal>>
WorkRebuffers(e) ==
  LET ev == Reported(events, state, "BUFFERING") IN
    \/ /\ state' = "BUFFERING" /\ events' = ev
       /\ rebuffering' = playWhenReady
       /\ rs' = Stopped(rs, enabled) /\ clockRunning' = FALSE
       /\ ended' = e
       /\ ScheduleWork(TRUE)
       /\ UNCHANGED <<held, enabled, illegal>>
    \/ /\ CanThrow({i \in enabled : rs[i] = STARTED})
       /\ Throws(rs, Stopped(rs, enabled), "BUFFERING", ev)
       /\ UNCHANGED illegal

WorkGoesOn(e) ==
  /\ ended' = e
  /\ ScheduleWork(Playing \/ state = "BUFFERING" \/ enabled # {})
  /\ UNCHANGED <<state, held, rs, enabled, clockRunning, events, rebuffering,
                 illegal>>

DoSomeWork ==
  /\ EventRoom /\ 0 \in work
  /\ \E more \in SUBSET (enabled \ ended) :
       LET e == ended \cup more IN
         \E ready \in ReadyOrEnded(enabled, e) :
           \/ enabled \subseteq e /\ WorkEnds(e)
           \/ /\ ~(enabled \subseteq e) /\ state = "BUFFERING" /\ ready
              /\ WorkGetsReady(e)
           \/ /\ ~(enabled \subseteq e) /\ state = "READY" /\ ~ready
              /\ WorkRebuffers(e)
           \/ /\ ~(enabled \subseteq e)
              /\ ~(state = "BUFFERING" /\ ready)
              /\ ~(state = "READY" /\ ~ready)
              /\ WorkGoesOn(e)
           \/ /\ CanThrow(enabled)                  \* a renderer throws
              /\ Throws(rs, rs, state, events)
              /\ UNCHANGED illegal
  /\ UNCHANGED <<inbox, playWhenReady, flags, processed>> /\ Quiet

-----------------------------------------------------------------------------
(* The application's calls, the looper that serves the messages, the       *)
(* timers, and the event handler.                                          *)
AppCall ==
  \/ Prepare \/ Stop \/ SeekTo \/ SendMessage \/ BlockingSendMessage
  \/ Release
  \/ \E p \in BOOLEAN : SetPlayWhenReady(p)
  \/ \E i \in Idx, b \in BOOLEAN : SetRendererEnabled(i, b)

AppReturns == BlockingSendReturns \/ ReleaseReturns

PlaybackThread ==
  \/ PrepareInternal \/ SeekToInternal \/ StopInternal \/ ReleaseInternal
  \/ SendMessageInternal \/ IncrementalPrepareInternal \/ DoSomeWork
  \/ \E p \in BOOLEAN : SetPlayWhenReadyInternal(p)
  \/ \E i \in Idx, b \in BOOLEAN : SetRendererEnabledInternal(i, b)

Timers == WorkTimerFires \/ PrepTimerFires

(* A released player is not used again.                                    *)
Finished == appPc = "released" /\ UNCHANGED vars

Next == AppCall \/ AppReturns \/ HandleEvent \/ PlaybackThread \/ Timers
        \/ Finished

(* Both loopers serve their queues and delayed messages become due; nobody *)
(* makes the application call anything.                                    *)
Fairness ==
  /\ WF_vars(PlaybackThread) /\ WF_vars(Timers)
  /\ WF_vars(HandleEvent) /\ WF_vars(AppReturns)

Spec == Init /\ [][Next]_vars
FairSpec == Spec /\ Fairness
-----------------------------------------------------------------------------
(* Properties.                                                             *)

(* Every variable stays within the values its declaration in the code and  *)
(* the bounds of the model allow.                                          *)
TypeOK ==
  /\ appPc \in {"run", "blocked", "releasing", "released"}
  /\ appPlayWhenReady \in BOOLEAN /\ appFlags \subseteq Idx
  /\ pendingAcks \in Int /\ playbackState \in PlayerState
  /\ handedOver \in BOOLEAN /\ awaited \in Nat
  /\ inbox \in Seq(Message) /\ work \subseteq Int /\ prep \subseteq Int
  /\ workTimer \in BOOLEAN /\ prepTimer \in BOOLEAN
  /\ events \in Seq(Event)
  /\ state \in PlayerState /\ playWhenReady \in BOOLEAN
  /\ flags \subseteq Idx /\ rebuffering \in BOOLEAN /\ held \in BOOLEAN
  /\ rs \in [Idx -> RendererState]
  /\ enabled \subseteq Idx /\ ended \subseteq Idx
  /\ clockRunning \in BOOLEAN
  /\ sent \in Nat /\ processed \in Nat
  /\ released \in BOOLEAN /\ illegal \in BOOLEAN

(* No sequence of calls, events, failures and recoveries drives a renderer *)
(* through a transition its life cycle forbids, or hands over an array of  *)
(* renderers while another is held: the checkState calls of TrackRenderer  *)
(* and prepareInternal never fail.                                         *)
NoIllegalTransition == ~illegal

(* The media clock runs, and an enabled renderer is started, exactly while *)
(* the player is ready and asked to play; no other renderer is started,    *)
(* those of an array already let go included (a STARTED renderer keeps     *)
(* writing audio).                                                         *)
PlaysExactlyWhenPlaying ==
  /\ clockRunning <=> Playing
  /\ \A i \in Idx : rs[i] = STARTED <=> (i \in enabled /\ Playing)

(* While the player holds prepared renderers, those it works with are      *)
(* those in an enabled state, and those are the ones asked for, whenever   *)
(* the request arrived (before, during or after preparation).              *)
EnabledAsAsked ==
  /\ enabled = IF held THEN {i \in Idx : rs[i] \in {ENABLED_, STARTED}} ELSE {}
  /\ Started(state) => enabled = {i \in flags : rs[i] # IGNORE}

(* The player never falls asleep: while it prepares, buffers or plays, a   *)
(* message that makes it go on is queued or due.  Nothing else wakes it.   *)
NeverStalls ==
  /\ state = "PREPARING" => prep # {} \/ prepTimer
  /\ state = "BUFFERING" \/ Playing => work # {} \/ workTimer

(* No DO_SOME_WORK or INCREMENTAL_PREPARE outlives the session it belongs  *)
(* to: handled by an idle or newly preparing player, the first would       *)
(* report ENDED and the second would fail on null renderers.               *)
NoStrayWork ==
  /\ work # {} \/ workTimer => Started(state)
  /\ prep # {} \/ prepTimer => state = "PREPARING"

(* Work is queued or due exactly while there is some to do.                *)
WorkIsScheduled == NeverStalls /\ NoStrayWork

(* A player that holds no renderers has released every renderer it was     *)
(* given, although the callbacks of others threw while it was stopped,     *)
(* released or failing.                                                    *)
LetGoMeansReleased ==
  ~held => \A i \in Idx \ Faulty : rs[i] = RELEASED

(* The application's view is late but never wrong: playbackState, once the *)
(* queued events are handled, is the playback thread's state; and what the *)
(* listener is told next after an error (onPlayerError) is IDLE, unless    *)
(* IDLE is what it was told before.                                        *)
LastTold(p, ev, n, s) ==   \* shown p, then handling n of the events ev
  \/ s = p /\ \A j \in 1..n : ev[j] \notin PlayerState
  \/ \E k \in 1..n :
       ev[k] = s /\ \A j \in (k + 1)..n : ev[j] \notin PlayerState
CatchesUp ==
  appPc # "released" => LastTold(playbackState, events, Len(events), state)
ErrorThenIdle ==
  \A k \in 1..Len(events) :
    events[k] = "ERROR" =>
      \/ LastTold(playbackState, events, k, "IDLE")
      \/ k < Len(events) /\ events[k + 1] = "IDLE"
CommittedMeansReflected ==
  pendingAcks = 0 => playWhenReady = appPlayWhenReady
ViewCatchesUp == CatchesUp /\ ErrorThenIdle /\ CommittedMeansReflected

(* The rebuffer threshold is in force only after the data ran out during   *)
(* playback: never while paused, nor for the buffering that a user's own   *)
(* action (prepare, seek, resume) caused.                                  *)
RebufferingMeansDepleted ==
  rebuffering => released \/ (playWhenReady /\ state \in {"BUFFERING", "ENDED"})

(* The states the listeners are told follow the playback state diagram and *)
(* skip none of it.                                                        *)
View == INSTANCE PlaybackStates WITH shown <- playbackState
ViewFollowsDiagram == View!Spec

\* blockingSendMessage does not return before its message was handled, other custom
\* messages in flight or not.
ReturnsAfterDelivery ==
  [][BlockingSendReturns =>
       \A k \in 1..Len(inbox) : inbox[k].what # "CUSTOM"]_vars

(* release() and blockingSendMessage() return, whatever is queued before   *)
(* them and whatever fails, and not before what they ask for is done.      *)
BlockingCallsReturn ==
  /\ appPc = "releasing" ~> appPc = "released"
  /\ appPc = "blocked" ~> appPc # "blocked"
  /\ ReturnsAfterDelivery

(* If the application stops changing playWhenReady, its last value is      *)
(* committed, unless it releases the player.                               *)
LastValueCommitted ==
  <>[][\A p \in BOOLEAN : ~SetPlayWhenReady(p)]_vars
    => []<>(pendingAcks = 0 \/ appPc = "released")
=============================================================================
