--------------------------- MODULE ExoPlayerProofs ---------------------------
(***************************************************************************)
(* What holds of the player for every number of renderers, every set of    *)
(* failing ones, every application and every bound: first of the playback  *)
(* thread (IInv), then of what the application sees of it (ViewInv).       *)
(***************************************************************************)
EXTENDS ExoPlayer, NaturalsInduction, WellFoundedInduction, TLAPS

-----------------------------------------------------------------------------
(* Types.                                                                  *)

(* What resetInternal leaves behind, whatever state it starts from: an     *)
(* idle player with no message of its own, whose renderers are stopped and *)
(* released unless their own callbacks failed.                             *)
LEMMA ResetEffect ==
  ASSUME NEW r \in [Idx -> RendererState], NEW s \in PlayerState,
         NEW ev \in Seq(Event), Reset(r, s, ev)
  PROVE  /\ work' = {} /\ prep' = {} /\ workTimer' = FALSE /\ prepTimer' = FALSE
         /\ clockRunning' = FALSE /\ held' = FALSE
         /\ enabled' = {} /\ ended' = {} /\ state' = "IDLE"
         /\ events' \in Seq(Event)
         /\ rs' \in [Idx -> RendererState]
         /\ \A i \in Idx : rs'[i] # STARTED
         /\ \A i \in Idx \ Faulty : rs'[i] = RELEASED
<1>1. events' \in Seq(Event)
  BY DEF Reset, Reported, Event, PlayerState
<1>2. /\ rs' \in [Idx -> RendererState]
      /\ \A i \in Idx : rs'[i] \in CleanupOutcomes(i, r[i])
  BY DEF Reset, CleanedUp
<1>3. \A i \in Idx : rs'[i] # STARTED
  BY <1>2 DEF CleanupOutcomes, STARTED, RELEASED, PREPARED, ENABLED_
<1>4. \A i \in Idx \ Faulty : rs'[i] = RELEASED
  BY <1>2 DEF CleanupOutcomes
<1> QED
  BY <1>1, <1>2, <1>3, <1>4 DEF Reset, RemoveMessages

(* The same of a handler that throws.                                      *)
LEMMA ThrowsEffect ==
  ASSUME NEW r \in [Idx -> RendererState], NEW t \in [Idx -> RendererState],
         NEW s \in PlayerState, NEW ev \in Seq(Event), Throws(r, t, s, ev)
  PROVE  /\ work' = {} /\ prep' = {} /\ workTimer' = FALSE /\ prepTimer' = FALSE
         /\ clockRunning' = FALSE /\ held' = FALSE
         /\ enabled' = {} /\ ended' = {} /\ state' = "IDLE"
         /\ events' \in Seq(Event)
         /\ rs' \in [Idx -> RendererState]
         /\ \A i \in Idx : rs'[i] # STARTED
         /\ \A i \in Idx \ Faulty : rs'[i] = RELEASED
         /\ rebuffering' = FALSE
<1>1. PICK q \in MidLoop(r, t) : Reset(q, s, Append(ev, "ERROR"))
  BY DEF Throws
<1>2. q \in [Idx -> RendererState] /\ Append(ev, "ERROR") \in Seq(Event)
  BY DEF MidLoop, Event
<1> QED
  BY <1>1, <1>2, ResetEffect DEF Throws

(* And of resetInternal called by a handler of a player that may be idle.  *)
LEMMA ResetInternalEffect ==
  ASSUME TypeOK, NEW ev \in Seq(Event), ResetInternal(ev)
  PROVE  /\ work' = {} /\ prep' = {} /\ workTimer' = FALSE /\ prepTimer' = FALSE
         /\ clockRunning' = FALSE
         /\ events' \in Seq(Event)
         /\ rs' \in [Idx -> RendererState]
         /\ \/ /\ held' = FALSE /\ enabled' = {} /\ ended' = {}
               /\ state' = "IDLE"
               /\ \A i \in Idx : rs'[i] # STARTED
               /\ \A i \in Idx \ Faulty : rs'[i] = RELEASED
            \/ /\ ~held
               /\ UNCHANGED <<rs, held, enabled, ended, state>>
<1>1. CASE held
  BY <1>1, ResetEffect DEF ResetInternal, TypeOK
<1>2. CASE ~held
  BY <1>2 DEF ResetInternal, ResetIdle, RemoveMessages, TypeOK
<1> QED
  BY <1>1, <1>2

(* Renderer operators stay within the renderer states.                     *)
LEMMA RendererTypes ==
  ASSUME NEW r \in [Idx -> RendererState], NEW es
  PROVE  /\ Stopped(r, es) \in [Idx -> RendererState]
         /\ Move(r, es, ENABLED_) \in [Idx -> RendererState]
         /\ Move(r, es, STARTED) \in [Idx -> RendererState]
         /\ Move(r, es, PREPARED) \in [Idx -> RendererState]
         /\ \A p \in PrepareOutcomes(r) : p \in [Idx -> RendererState]
BY DEF Stopped, Move, RendererState, PrepareOutcomes

(* An application step keeps the types.                                    *)
LEMMA AppTypes ==
  ASSUME TypeOK, AppCall \/ AppReturns \/ HandleEvent
  PROVE  TypeOK'
<1> USE DEF TypeOK, internalVars, selfVars, coreVars, appVars
<1>1. ASSUME NEW m \in Message, Post(m) PROVE inbox' \in Seq(Message)
  BY <1>1 DEF Post
<1>2. Plain("PREPARE") \in Message /\ Plain("STOP") \in Message
      /\ Plain("SEEK_TO") \in Message /\ Plain("CUSTOM") \in Message
      /\ Plain("RELEASE") \in Message
  BY DEF Plain, Msg, Message
<1>3. CASE Prepare
  BY <1>1, <1>2, <1>3 DEF Prepare
<1>4. CASE Stop
  BY <1>1, <1>2, <1>4, ZenonT(30) DEF Stop
<1>5. CASE SeekTo
  BY <1>1, <1>2, <1>5 DEF SeekTo
<1>6. CASE SendMessage
  BY <1>1, <1>2, <1>6 DEF SendMessage
<1>7. CASE BlockingSendMessage
  BY <1>1, <1>2, <1>7 DEF BlockingSendMessage
<1>8. CASE Release
  BY <1>1, <1>2, <1>8 DEF Release
<1>9. ASSUME NEW p \in BOOLEAN, SetPlayWhenReady(p) PROVE TypeOK'
  <2>1. Msg("SET_PLAY_WHEN_READY", 0, p) \in Message
    BY DEF Msg, Message
  <2> QED
    BY <1>1, <1>9, <2>1 DEF SetPlayWhenReady
<1>10. ASSUME NEW i \in Idx, NEW b \in BOOLEAN, SetRendererEnabled(i, b)
       PROVE TypeOK'
  <2>1. Msg("SET_RENDERER_ENABLED", i, b) \in Message
    BY DEF Msg, Message
  <2> QED
    BY <1>1, <1>10, <2>1 DEF SetRendererEnabled
<1>11. CASE BlockingSendReturns
  BY <1>11 DEF BlockingSendReturns
<1>12. CASE ReleaseReturns
  BY <1>12 DEF ReleaseReturns
<1>13. CASE HandleEvent
  BY <1>13 DEF HandleEvent, ShownAfter, AcksAfter, Event
<1> QED
  BY <1>3, <1>4, <1>5, <1>6, <1>7, <1>8, <1>9, <1>10, <1>11, <1>12, <1>13
  DEF AppCall, AppReturns

(* What the received message leaves of the queue is still typed.           *)
LEMMA QueueTypes ==
  ASSUME TypeOK, inbox' = Tail(inbox), inbox # <<>>
  PROVE  /\ inbox' \in Seq(Message)
         /\ \A w, p \in BOOLEAN :
              Requeue(w, p) => /\ work' \subseteq Int /\ prep' \subseteq Int
                               /\ workTimer' \in BOOLEAN
                               /\ prepTimer' \in BOOLEAN
<1>1. inbox' \in Seq(Message) /\ Len(inbox') \in Int
  BY DEF TypeOK
<1>2. Closer(work) \subseteq Int /\ Closer(prep) \subseteq Int
  BY DEF Closer, TypeOK
<1> QED
  BY <1>1, <1>2 DEF Requeue, TypeOK

-----------------------------------------------------------------------------
(* The inductive invariant.                                                *)

(* One INCREMENTAL_PREPARE at a time is queued or due, so that none is     *)
(* left when the player has been prepared.                                 *)
PrepareOnce ==
  /\ \A j, k \in prep : j = k
  /\ prep # {} => ~prepTimer

(* The playback thread's own state.  The states of the renderers are known *)
(* in every phase of a session, which is why no checkState can fail.       *)
CoreInv ==
  /\ held <=> state # "IDLE"
  /\ state = "PREPARING" =>
       \A i \in Idx : rs[i] \in {UNPREPARED, PREPARED, IGNORE}
  /\ Started(state) =>
       \A i \in Idx : rs[i] \in {PREPARED, IGNORE, ENABLED_, STARTED}
  /\ NoIllegalTransition
  /\ PlaysExactlyWhenPlaying
  /\ EnabledAsAsked
  /\ NeverStalls
  /\ NoStrayWork
  /\ PrepareOnce
  /\ LetGoMeansReleased

Prepares(k) == inbox[k].what = "PREPARE"
Stops(k) == inbox[k].what = "STOP"

(* The queue of the application's calls: an array of renderers is handed   *)
(* over only after a stop() that lets go of the one before it.  occ[k]     *)
(* says whether the player may hold renderers once k messages are served.  *)
Occupancy(occ) ==
  /\ held => occ[0]
  /\ occ[Len(inbox)] => handedOver
  /\ \A k \in 1..Len(inbox) :
       /\ Prepares(k) => ~occ[k - 1] /\ occ[k]
       /\ ~Prepares(k) /\ ~Stops(k) /\ occ[k - 1] => occ[k]
QueueInv == \E occ \in [0..Len(inbox) -> BOOLEAN] : Occupancy(occ)

Sets(k) == inbox[k].what = "SET_PLAY_WHEN_READY"

(* The values of playWhenReady on their way to the playback thread change  *)
(* each time, from its own value to the application's: setPlayWhenReady    *)
(* drops a call that changes nothing, and this is why a resumed player     *)
(* never starts a renderer twice.  val[k] is the value after k messages.   *)
Alternation(val) ==
  /\ val[0] = playWhenReady
  /\ val[Len(inbox)] = appPlayWhenReady
  /\ \A k \in 1..Len(inbox) :
       /\ Sets(k) => val[k] = inbox[k].flag /\ val[k] # val[k - 1]
       /\ ~Sets(k) => val[k] = val[k - 1]
AlternateInv == \E val \in [0..Len(inbox) -> BOOLEAN] : Alternation(val)

IInv == TypeOK /\ CoreInv /\ QueueInv /\ AlternateInv

(* The types of what the playback thread's handlers change.                *)
PlaybackTypes ==
  /\ inbox \in Seq(Message) /\ work \subseteq Int /\ prep \subseteq Int
  /\ workTimer \in BOOLEAN /\ prepTimer \in BOOLEAN /\ events \in Seq(Event)
  /\ state \in PlayerState /\ playWhenReady \in BOOLEAN /\ flags \subseteq Idx
  /\ rebuffering \in BOOLEAN /\ held \in BOOLEAN
  /\ rs \in [Idx -> RendererState]
  /\ enabled \subseteq Idx /\ ended \subseteq Idx
  /\ clockRunning \in BOOLEAN /\ processed \in Nat
  /\ released \in BOOLEAN /\ illegal \in BOOLEAN

(* resetInternal establishes the invariant of an idle player.              *)
LEMMA ResetCore ==
  ASSUME NEW r \in [Idx -> RendererState], NEW s \in PlayerState,
         NEW ev \in Seq(Event), Reset(r, s, ev), illegal' = FALSE
  PROVE  CoreInv' /\ held' = FALSE
<1>1. /\ work' = {} /\ prep' = {} /\ workTimer' = FALSE /\ prepTimer' = FALSE
      /\ clockRunning' = FALSE /\ held' = FALSE
      /\ enabled' = {} /\ ended' = {} /\ state' = "IDLE"
      /\ \A i \in Idx : rs'[i] # STARTED
      /\ \A i \in Idx \ Faulty : rs'[i] = RELEASED
  BY ResetEffect
<1> QED
  BY <1>1 DEF CoreInv, NoIllegalTransition, PlaysExactlyWhenPlaying, Playing,
              EnabledAsAsked, NeverStalls, NoStrayWork, PrepareOnce,
              LetGoMeansReleased, Started

(* So does a handler that throws.                                          *)
LEMMA ThrowsCore ==
  ASSUME NEW r \in [Idx -> RendererState], NEW t \in [Idx -> RendererState],
         NEW s \in PlayerState, NEW ev \in Seq(Event), Throws(r, t, s, ev),
         illegal' = FALSE
  PROVE  CoreInv' /\ held' = FALSE
<1>1. PICK q \in MidLoop(r, t) : Reset(q, s, Append(ev, "ERROR"))
  BY DEF Throws
<1>2. q \in [Idx -> RendererState] /\ Append(ev, "ERROR") \in Seq(Event)
  BY DEF MidLoop, Event
<1> QED
  BY <1>1, <1>2, ResetCore

(* A handler that throws, with everything it may change.                   *)
LEMMA ThrowsStep ==
  ASSUME TypeOK, CoreInv,
         NEW r \in [Idx -> RendererState], NEW t \in [Idx -> RendererState],
         NEW s \in PlayerState, NEW ev \in Seq(Event), Throws(r, t, s, ev),
         illegal' = illegal, inbox' \in Seq(Message),
         playWhenReady' \in BOOLEAN, flags' \subseteq Idx,
         processed' \in Nat, released' = released
  PROVE  PlaybackTypes' /\ CoreInv' /\ held' = FALSE
<1>1. CoreInv' /\ held' = FALSE
  BY ThrowsCore DEF CoreInv, NoIllegalTransition, TypeOK
<1>2. /\ work' = {} /\ prep' = {} /\ workTimer' = FALSE /\ prepTimer' = FALSE
      /\ clockRunning' = FALSE /\ enabled' = {} /\ ended' = {}
      /\ state' = "IDLE" /\ events' \in Seq(Event)
      /\ rs' \in [Idx -> RendererState] /\ rebuffering' = FALSE
  BY ThrowsEffect
<1> QED
  BY <1>1, <1>2 DEF PlaybackTypes, PlayerState, TypeOK

(* Once every enabled renderer is stopped the others are as they were, and *)
(* none is started.                                                        *)
LEMMA StoppedEffect ==
  ASSUME TypeOK, CoreInv
  PROVE  /\ Stopped(rs, enabled) \in [Idx -> RendererState]
         /\ \A i \in Idx :
              Stopped(rs, enabled)[i] =
                IF rs[i] = STARTED THEN ENABLED_ ELSE rs[i]
         /\ \A i \in Idx : Stopped(rs, enabled)[i] # STARTED
BY DEF Stopped, CoreInv, PlaysExactlyWhenPlaying, TypeOK, RendererState,
       STARTED, ENABLED_

-----------------------------------------------------------------------------
(* The handlers of the application's messages, one lemma each.             *)

(* Receiving a message and requeueing the player's own keeps them, and     *)
(* posts what the handler asks for.                                        *)
LEMMA RequeueEffect ==
  ASSUME TypeOK, CoreInv, NEW m, Receive(m), NEW w \in BOOLEAN, NEW p \in BOOLEAN,
         Requeue(w, p)
  PROVE  /\ inbox' \in Seq(Message)
         /\ work' \subseteq Int /\ prep' \subseteq Int
         /\ workTimer' = workTimer /\ prepTimer' = prepTimer
         /\ work' # {} <=> (work # {} \/ w)
         /\ prep' # {} <=> (prep # {} \/ p)
         /\ (p => prep = {} /\ ~prepTimer) => PrepareOnce'
<1>1. inbox' = Tail(inbox) /\ inbox # <<>>
  BY DEF Receive
<1>2. Closer(work) # {} <=> work # {}
  BY DEF Closer
<1>3. Closer(prep) # {} <=> prep # {}
  BY DEF Closer
<1>4. /\ inbox' \in Seq(Message)
      /\ work' \subseteq Int /\ prep' \subseteq Int
  BY <1>1, QueueTypes
<1>5. \A j, k \in Closer(prep) : j = k
  BY DEF Closer, CoreInv, PrepareOnce, TypeOK
<1>6. (p => prep = {} /\ ~prepTimer) => PrepareOnce'
  BY <1>3, <1>5 DEF Requeue, PrepareOnce, CoreInv, Closer
<1> QED
  BY <1>2, <1>3, <1>4, <1>6 DEF Requeue

LEMMA StepPrepare ==
  ASSUME TypeOK, CoreInv, ~held, PrepareInternal
  PROVE  PlaybackTypes' /\ CoreInv'
<1>1. /\ held' = TRUE /\ rs' = [i \in Idx |-> UNPREPARED]
      /\ state' = "PREPARING" /\ illegal' = illegal
      /\ events' = Reported(events, state, "PREPARING")
      /\ UNCHANGED <<enabled, ended, clockRunning, playWhenReady, flags,
                     processed, released>>
      /\ rebuffering' = FALSE
      /\ Requeue(FALSE, TRUE)
  BY DEF PrepareInternal, Quiet, CoreInv, NoIllegalTransition, TypeOK
<1>2. Receive(Plain("PREPARE"))
  BY DEF PrepareInternal
<1>3. /\ inbox' \in Seq(Message) /\ work' \subseteq Int /\ prep' \subseteq Int
      /\ workTimer' = workTimer /\ prepTimer' = prepTimer /\ PrepareOnce'
      /\ (work' # {} <=> work # {}) /\ prep' # {}
  <2>1. prep = {} /\ ~prepTimer
    BY DEF CoreInv, NoStrayWork
  <2> QED
    BY <1>1, <1>2, <2>1, RequeueEffect
<1>4. events' \in Seq(Event)
  BY <1>1 DEF Reported, TypeOK, Event, PlayerState
<1>5. PlaybackTypes'
  BY <1>1, <1>3, <1>4
  DEF PlaybackTypes, TypeOK, RendererState, PlayerState, UNPREPARED
<1>6. CoreInv'
  BY <1>1, <1>3
  DEF CoreInv, NoIllegalTransition, PlaysExactlyWhenPlaying, Playing,
      EnabledAsAsked, NeverStalls, NoStrayWork, LetGoMeansReleased, Started,
      UNPREPARED, STARTED, ENABLED_, TypeOK
<1> QED
  BY <1>5, <1>6

LEMMA StepStop ==
  ASSUME TypeOK, CoreInv, StopInternal \/ ReleaseInternal
  PROVE  PlaybackTypes' /\ CoreInv' /\ held' = FALSE
<1>1. /\ ResetInternal(events)
      /\ UNCHANGED <<playWhenReady, flags, processed, illegal>>
      /\ rebuffering' \in BOOLEAN /\ released' \in BOOLEAN
      /\ inbox' = Tail(inbox) /\ inbox # <<>>
  BY DEF StopInternal, ReleaseInternal, Receive, Quiet, TypeOK
<1>2. inbox' \in Seq(Message)
  BY <1>1, QueueTypes
<1>3. CASE held
  <2>1. CoreInv' /\ held' = FALSE
    BY <1>1, <1>3, ResetCore DEF ResetInternal, TypeOK, CoreInv,
       NoIllegalTransition
  <2> QED
    BY <1>1, <1>2, <2>1, ResetInternalEffect, <1>3
    DEF PlaybackTypes, TypeOK, PlayerState
<1>4. CASE ~held
  <2>1. /\ RemoveMessages /\ clockRunning' = FALSE /\ events' = events
        /\ UNCHANGED <<rs, held, enabled, ended, state>>
    BY <1>1, <1>4 DEF ResetInternal, ResetIdle
  <2>2. CoreInv'
    BY <1>1, <1>4, <2>1
    DEF CoreInv, NoIllegalTransition, PlaysExactlyWhenPlaying, Playing,
        EnabledAsAsked, NeverStalls, NoStrayWork, LetGoMeansReleased,
        Started, RemoveMessages, PrepareOnce, TypeOK
  <2> QED
    BY <1>1, <1>2, <1>4, <2>1, <2>2 DEF PlaybackTypes, TypeOK, RemoveMessages
<1> QED
  BY <1>3, <1>4 DEF TypeOK

LEMMA StepSeek ==
  ASSUME TypeOK, CoreInv, SeekToInternal
  PROVE  PlaybackTypes' /\ CoreInv' /\ (held' => held)
<1>0. Receive(Plain("SEEK_TO"))
      /\ UNCHANGED <<playWhenReady, flags, processed, released>>
  BY DEF SeekToInternal, Quiet
<1>00. inbox' \in Seq(Message)
  BY <1>0, QueueTypes DEF Receive
<1>1. CASE /\ ~Started(state)
           /\ clockRunning' = FALSE /\ rebuffering' = FALSE
           /\ Requeue(FALSE, FALSE)
           /\ UNCHANGED <<state, held, rs, enabled, ended, events, illegal>>
  <2>1. /\ work' \subseteq Int /\ prep' \subseteq Int
        /\ workTimer' = workTimer /\ prepTimer' = prepTimer /\ PrepareOnce'
        /\ (work' # {} <=> work # {}) /\ (prep' # {} <=> prep # {})
    BY <1>0, <1>1, RequeueEffect
  <2>2. PlaybackTypes'
    BY <1>0, <1>00, <1>1, <2>1 DEF PlaybackTypes, TypeOK
  <2>3. CoreInv'
    BY <1>0, <1>1, <2>1
    DEF CoreInv, NoIllegalTransition, PlaysExactlyWhenPlaying, Playing,
        EnabledAsAsked, NeverStalls, NoStrayWork, LetGoMeansReleased, Started,
        TypeOK, PlayerState
  <2> QED
    BY <1>1, <2>2, <2>3
<1>2. CASE /\ Started(state)
           /\ rs' = Stopped(rs, enabled) /\ ended' = {}
           /\ clockRunning' = FALSE /\ rebuffering' = FALSE
           /\ state' = "BUFFERING"
           /\ events' = Reported(events, state, "BUFFERING")
           /\ Requeue(TRUE, FALSE)
           /\ UNCHANGED <<held, enabled, illegal>>
  <2>1. /\ work' \subseteq Int /\ prep' \subseteq Int
        /\ workTimer' = workTimer /\ prepTimer' = prepTimer /\ PrepareOnce'
        /\ work' # {} /\ (prep' # {} <=> prep # {})
    BY <1>0, <1>2, RequeueEffect
  <2>2. events' \in Seq(Event)
    BY <1>2 DEF Reported, TypeOK, Event, PlayerState
  <2>3. PlaybackTypes'
    BY <1>0, <1>00, <1>2, <2>1, <2>2, RendererTypes
    DEF PlaybackTypes, TypeOK, PlayerState
  <2>4. \A i \in Idx :
          /\ rs'[i] # STARTED
          /\ rs'[i] = IF rs[i] = STARTED THEN ENABLED_ ELSE rs[i]
    BY <1>2, StoppedEffect
  <2>5. \A i \in Idx : rs'[i] \in {PREPARED, IGNORE, ENABLED_, STARTED}
    BY <1>2, <2>4 DEF CoreInv
  <2>6. EnabledAsAsked'
    BY <1>0, <1>2, <2>4
    DEF CoreInv, EnabledAsAsked, Started, STARTED, ENABLED_, IGNORE, TypeOK
  <2>7. CoreInv'
    BY <1>0, <1>2, <2>1, <2>4, <2>5, <2>6
    DEF CoreInv, NoIllegalTransition, PlaysExactlyWhenPlaying, Playing,
        NeverStalls, NoStrayWork, LetGoMeansReleased, Started
  <2> QED
    BY <1>2, <2>3, <2>7
<1>3. CASE /\ Throws(rs, Stopped(rs, enabled), state, events)
           /\ UNCHANGED illegal
  <2> QED
    BY <1>0, <1>00, <1>3, ThrowsStep, RendererTypes DEF TypeOK
<1> QED
  BY <1>1, <1>2, <1>3 DEF SeekToInternal

(* The started renderers of a player that may start them: its enabled ones *)
(* all pass start()'s checkState, and no other renderer is started.        *)
LEMMA StartEffect ==
  ASSUME TypeOK, CoreInv, ~Playing
  PROVE  /\ Startable(rs, enabled)
         /\ Move(rs, enabled, STARTED) \in [Idx -> RendererState]
         /\ \A i \in Idx :
              Move(rs, enabled, STARTED)[i] =
                IF i \in enabled THEN STARTED ELSE rs[i]
         /\ \A i \in Idx : Move(rs, enabled, STARTED)[i] = STARTED
                             <=> i \in enabled
<1>1. \A i \in enabled : i \in Idx /\ rs[i] = ENABLED_
  BY DEF CoreInv, EnabledAsAsked, PlaysExactlyWhenPlaying, TypeOK
<1>2. \A i \in Idx : rs[i] # STARTED
  BY DEF CoreInv, PlaysExactlyWhenPlaying
<1> QED
  BY <1>1, <1>2 DEF Startable, Move, TypeOK, RendererState, STARTED

LEMMA StepSetPlayWhenReady ==
  ASSUME TypeOK, CoreInv, NEW b \in BOOLEAN, SetPlayWhenReadyInternal(b),
         b # playWhenReady
  PROVE  PlaybackTypes' /\ CoreInv' /\ (held' => held)
<1>0. /\ Receive(Msg("SET_PLAY_WHEN_READY", 0, b))
      /\ playWhenReady' = b
      /\ UNCHANGED <<flags, processed, released>>
  BY DEF SetPlayWhenReadyInternal, Quiet
<1>1. inbox' \in Seq(Message)
  BY <1>0, QueueTypes DEF Receive
<1>2. Acked \in Seq(Event)
  BY DEF Acked, TypeOK, Event
<1>3. CASE /\ ~b
           /\ rs' = Stopped(rs, enabled) /\ clockRunning' = FALSE
           /\ rebuffering' = FALSE /\ events' = Acked
           /\ Requeue(FALSE, FALSE)
           /\ UNCHANGED <<state, held, enabled, ended, illegal>>
  <2>1. /\ work' \subseteq Int /\ prep' \subseteq Int
        /\ workTimer' = workTimer /\ prepTimer' = prepTimer /\ PrepareOnce'
        /\ (work' # {} <=> work # {}) /\ (prep' # {} <=> prep # {})
    BY <1>0, <1>3, RequeueEffect
  <2>2. \A i \in Idx :
          /\ rs'[i] # STARTED
          /\ rs'[i] = IF rs[i] = STARTED THEN ENABLED_ ELSE rs[i]
    BY <1>3, StoppedEffect
  <2>3. PlaybackTypes'
    BY <1>0, <1>1, <1>2, <1>3, <2>1, StoppedEffect DEF PlaybackTypes, TypeOK
  <2>4. /\ (state = "PREPARING" =>
              \A i \in Idx : rs'[i] \in {UNPREPARED, PREPARED, IGNORE})
        /\ (Started(state) =>
              \A i \in Idx : rs'[i] \in {PREPARED, IGNORE, ENABLED_, STARTED})
        /\ LetGoMeansReleased'
    BY <1>3, <2>2
    DEF CoreInv, LetGoMeansReleased, STARTED, ENABLED_, RELEASED, PREPARED,
        UNPREPARED, IGNORE
  <2>5. EnabledAsAsked'
    BY <1>0, <1>3, <2>2
    DEF CoreInv, EnabledAsAsked, Started, STARTED, ENABLED_, IGNORE, TypeOK
  <2>6. CoreInv'
    BY <1>0, <1>3, <2>1, <2>2, <2>4, <2>5
    DEF CoreInv, NoIllegalTransition, PlaysExactlyWhenPlaying, Playing,
        NeverStalls, NoStrayWork, Started
  <2> QED
    BY <1>3, <2>3, <2>6
<1>4. CASE /\ Throws(rs, Stopped(rs, enabled), state, Acked)
           /\ UNCHANGED illegal
  BY <1>0, <1>1, <1>2, <1>4, ThrowsStep, StoppedEffect DEF TypeOK
<1>5. CASE b
  <2>0. ~Playing /\ ~playWhenReady
    BY <1>5 DEF Playing, TypeOK
  <2>1. ~StartThrows(rs, enabled, state, Acked)
        \/ /\ Throws(rs, Move(rs, enabled, STARTED), state, Acked)
           /\ illegal' = illegal
    BY <2>0, StartEffect DEF StartThrows, TypeOK
  <2>2. CASE /\ Throws(rs, Move(rs, enabled, STARTED), state, Acked)
             /\ illegal' = illegal
    BY <1>0, <1>1, <1>2, <2>0, <2>2, ThrowsStep, StartEffect DEF TypeOK
  <2>3. CASE /\ state = "READY"
             /\ rs' = Move(rs, enabled, STARTED) /\ clockRunning' = TRUE
             /\ rebuffering' = FALSE /\ events' = Acked
             /\ Requeue(TRUE, FALSE)
             /\ UNCHANGED <<state, held, enabled, ended, illegal>>
    <3>1. /\ work' \subseteq Int /\ prep' \subseteq Int
          /\ workTimer' = workTimer /\ prepTimer' = prepTimer
          /\ PrepareOnce' /\ work' # {} /\ (prep' # {} <=> prep # {})
      BY <1>0, <2>3, RequeueEffect
    <3>2. \A i \in Idx :
            /\ rs'[i] = STARTED <=> i \in enabled
            /\ rs'[i] = IF i \in enabled THEN STARTED ELSE rs[i]
      BY <2>0, <2>3, StartEffect
    <3>3. PlaybackTypes'
      BY <1>0, <1>1, <1>2, <2>0, <2>3, <3>1, StartEffect
      DEF PlaybackTypes, TypeOK
    <3>4. \A i \in Idx : rs'[i] \in {PREPARED, IGNORE, ENABLED_, STARTED}
      BY <2>3, <3>2 DEF CoreInv, Started
    <3>5. EnabledAsAsked'
      BY <1>0, <2>3, <3>2
      DEF CoreInv, EnabledAsAsked, Started, STARTED, ENABLED_, IGNORE, TypeOK
    <3>6. CoreInv'
      BY <1>0, <1>5, <2>3, <3>1, <3>2, <3>4, <3>5
      DEF CoreInv, NoIllegalTransition, PlaysExactlyWhenPlaying, Playing,
          NeverStalls, NoStrayWork, LetGoMeansReleased, Started
    <3> QED
      BY <2>3, <3>3, <3>6
  <2>4. CASE /\ state # "READY"
             /\ rebuffering' = FALSE /\ events' = Acked
             /\ Requeue(state = "BUFFERING", FALSE)
             /\ UNCHANGED coreVars
    <3>1. /\ work' \subseteq Int /\ prep' \subseteq Int
          /\ workTimer' = workTimer /\ prepTimer' = prepTimer /\ PrepareOnce'
          /\ (work' # {} <=> work # {} \/ state = "BUFFERING")
          /\ (prep' # {} <=> prep # {})
      BY <1>0, <2>4, RequeueEffect
    <3>2. PlaybackTypes'
      BY <1>0, <1>1, <1>2, <2>4, <3>1 DEF PlaybackTypes, TypeOK, coreVars
    <3>3. CoreInv'
      BY <1>0, <2>0, <2>4, <3>1
      DEF CoreInv, NoIllegalTransition, PlaysExactlyWhenPlaying, Playing,
          EnabledAsAsked, NeverStalls, NoStrayWork, LetGoMeansReleased,
          Started, coreVars
    <3> QED
      BY <2>4, <3>2, <3>3 DEF coreVars
  <2> QED
    BY <1>5, <2>1, <2>2, <2>3, <2>4 DEF SetPlayWhenReadyInternal
<1> QED
  BY <1>3, <1>4, <1>5 DEF SetPlayWhenReadyInternal, TypeOK

LEMMA StepSendMessage ==
  ASSUME TypeOK, CoreInv, SendMessageInternal
  PROVE  PlaybackTypes' /\ CoreInv' /\ (held' => held)
<1>0. /\ Receive(Plain("CUSTOM"))
      /\ UNCHANGED <<playWhenReady, flags, released>>
      /\ processed' \in Nat
  BY DEF SendMessageInternal, Quiet, TypeOK
<1>1. inbox' \in Seq(Message)
  BY <1>0, QueueTypes DEF Receive
<1>2. CASE /\ Requeue(Started(state), FALSE)
           /\ UNCHANGED <<coreVars, events, rebuffering>>
  <2>1. Started(state) \in BOOLEAN
    BY DEF Started
  <2>2. /\ work' \subseteq Int /\ prep' \subseteq Int
        /\ workTimer' = workTimer /\ prepTimer' = prepTimer /\ PrepareOnce'
        /\ (work' # {} <=> work # {} \/ Started(state))
        /\ (prep' # {} <=> prep # {})
    BY <1>0, <1>2, <2>1, RequeueEffect
  <2>3. PlaybackTypes'
    BY <1>0, <1>1, <1>2, <2>2 DEF PlaybackTypes, TypeOK, coreVars
  <2>4. CoreInv'
    BY <1>0, <1>2, <2>2
    DEF CoreInv, NoIllegalTransition, PlaysExactlyWhenPlaying, Playing,
        EnabledAsAsked, NeverStalls, NoStrayWork, LetGoMeansReleased,
        Started, coreVars
  <2> QED
    BY <1>2, <2>3, <2>4 DEF coreVars
<1>3. CASE /\ ResetInternal(Append(events, "ERROR"))
           /\ rebuffering' = FALSE
           /\ UNCHANGED illegal
  <2>1. Append(events, "ERROR") \in Seq(Event)
    BY DEF TypeOK, Event
  <2>2. CASE held
    <3>1. Reset(rs, state, Append(events, "ERROR"))
      BY <1>3, <2>2 DEF ResetInternal
    <3>2. CoreInv' /\ held' = FALSE
      BY <1>3, <2>1, <3>1, ResetCore DEF TypeOK, CoreInv, NoIllegalTransition
    <3> QED
      BY <1>0, <1>1, <1>3, <2>1, <3>1, <3>2, ResetEffect
      DEF PlaybackTypes, TypeOK, PlayerState
  <2>3. CASE ~held
    <3>1. /\ RemoveMessages /\ clockRunning' = FALSE
          /\ events' = Append(events, "ERROR")
          /\ UNCHANGED <<rs, held, enabled, ended, state>>
      BY <1>3, <2>3 DEF ResetInternal, ResetIdle
    <3>2. PlaybackTypes'
      BY <1>0, <1>1, <1>3, <2>1, <3>1 DEF PlaybackTypes, TypeOK, RemoveMessages
    <3>3. CoreInv'
      BY <1>0, <1>3, <2>3, <3>1
      DEF CoreInv, NoIllegalTransition, PlaysExactlyWhenPlaying, Playing,
          EnabledAsAsked, NeverStalls, NoStrayWork, LetGoMeansReleased,
          Started, RemoveMessages, PrepareOnce
    <3> QED
      BY <3>1, <3>2, <3>3
  <2> QED
    BY <2>2, <2>3 DEF TypeOK
<1> QED
  BY <1>2, <1>3 DEF SendMessageInternal

(* Enabling a renderer that is not enabled: it is prepared, so neither     *)
(* enable() nor start() fails its checkState.                              *)
LEMMA StepEnable ==
  ASSUME TypeOK, CoreInv, NEW i \in Idx,
         Receive(Msg("SET_RENDERER_ENABLED", i, TRUE)),
         i \notin flags, flags' = flags \cup {i}, Started(state),
         rs[i] \in {PREPARED, ENABLED_, STARTED}, EnableInternal(i),
         UNCHANGED <<playWhenReady, processed, released>>
  PROVE  PlaybackTypes' /\ CoreInv' /\ (held' => held)
<1>1. inbox' \in Seq(Message)
  BY QueueTypes DEF Receive
<1>2. i \notin enabled /\ rs[i] = PREPARED
  BY DEF CoreInv, EnabledAsAsked, Started, PREPARED, ENABLED_, STARTED, IGNORE
<1>3. /\ Move(rs, {i}, ENABLED_) \in [Idx -> RendererState]
      /\ Move(rs, {i}, Joined) \in [Idx -> RendererState]
  BY RendererTypes DEF TypeOK, Joined
<1>4. CASE /\ rs' = Move(rs, {i}, Joined) /\ enabled' = enabled \cup {i}
           /\ \E e \in SUBSET {i} : ended' = (ended \ {i}) \cup e
           /\ Requeue(TRUE, FALSE)
           /\ UNCHANGED <<state, held, clockRunning, events, rebuffering,
                          illegal>>
  <2>1. /\ work' \subseteq Int /\ prep' \subseteq Int
        /\ workTimer' = workTimer /\ prepTimer' = prepTimer /\ PrepareOnce'
        /\ work' # {} /\ (prep' # {} <=> prep # {})
    BY <1>4, RequeueEffect
  <2>2. PlaybackTypes'
    BY <1>1, <1>3, <1>4, <2>1 DEF PlaybackTypes, TypeOK
  <2>3. \A j \in Idx :
          rs'[j] = IF j = i THEN (IF Playing THEN STARTED ELSE ENABLED_)
                            ELSE rs[j]
    BY <1>4 DEF Move, Joined
  <2>4. \A j \in Idx : rs'[j] \in {PREPARED, IGNORE, ENABLED_, STARTED}
    BY <2>3 DEF CoreInv
  <2>5. EnabledAsAsked'
    <3>1. held /\ held' /\ Started(state) /\ Started(state')
      BY <1>4 DEF CoreInv, Started
    <3>2. /\ enabled = {j \in Idx : rs[j] \in {ENABLED_, STARTED}}
          /\ enabled = {j \in flags : rs[j] # IGNORE}
      BY <3>1 DEF CoreInv, EnabledAsAsked
    <3>3. enabled' = {j \in Idx : rs'[j] \in {ENABLED_, STARTED}}
      BY <1>4, <2>3, <3>2
    <3>4. enabled' = {j \in flags' : rs'[j] # IGNORE}
      BY <1>4, <2>3, <3>2 DEF TypeOK, STARTED, ENABLED_, IGNORE
    <3> QED
      BY <3>1, <3>3, <3>4 DEF EnabledAsAsked
  <2>6. PlaysExactlyWhenPlaying'
    BY <1>2, <1>4, <2>3
    DEF CoreInv, PlaysExactlyWhenPlaying, Playing, STARTED, ENABLED_
  <2>7. CoreInv'
    BY <1>4, <2>1, <2>4, <2>5, <2>6
    DEF CoreInv, NoIllegalTransition, Playing, NeverStalls, NoStrayWork,
        LetGoMeansReleased, Started
  <2> QED
    BY <1>4, <2>2, <2>7
<1>5. ASSUME NEW r \in {Move(rs, {i}, ENABLED_), Move(rs, {i}, Joined)},
             Throws(r, r, state, events), illegal' = illegal
      PROVE  PlaybackTypes' /\ CoreInv' /\ held' = FALSE
  BY <1>1, <1>3, <1>5, ThrowsStep DEF TypeOK
<1> QED
  BY <1>2, <1>4, <1>5 DEF EnableInternal, TypeOK

(* Disabling a renderer that is enabled.                                   *)
LEMMA StepDisable ==
  ASSUME TypeOK, CoreInv, NEW i \in Idx,
         Receive(Msg("SET_RENDERER_ENABLED", i, FALSE)),
         i \in flags, flags' = flags \ {i}, Started(state),
         rs[i] \in {PREPARED, ENABLED_, STARTED}, DisableInternal(i),
         UNCHANGED <<playWhenReady, processed, released>>
  PROVE  PlaybackTypes' /\ CoreInv' /\ (held' => held)
<1>1. inbox' \in Seq(Message)
  BY QueueTypes DEF Receive
<1>2. i \in enabled /\ rs[i] \in {ENABLED_, STARTED}
  BY DEF CoreInv, EnabledAsAsked, PREPARED, ENABLED_, STARTED, IGNORE
<1>3. Stopped(rs, {i})[i] = ENABLED_
  BY <1>2 DEF Stopped
<1>4. /\ Stopped(rs, {i}) \in [Idx -> RendererState]
      /\ Move(rs, {i}, PREPARED) \in [Idx -> RendererState]
  BY RendererTypes DEF TypeOK
<1>5. CASE /\ rs' = Move(rs, {i}, PREPARED)
           /\ enabled' = enabled \ {i} /\ ended' = ended \ {i}
           /\ Requeue(FALSE, FALSE)
           /\ UNCHANGED <<state, held, clockRunning, events, rebuffering,
                          illegal>>
  <2>1. /\ work' \subseteq Int /\ prep' \subseteq Int
        /\ workTimer' = workTimer /\ prepTimer' = prepTimer /\ PrepareOnce'
        /\ (work' # {} <=> work # {}) /\ (prep' # {} <=> prep # {})
    BY <1>5, RequeueEffect
  <2>2. PlaybackTypes'
    BY <1>1, <1>4, <1>5, <2>1 DEF PlaybackTypes, TypeOK
  <2>3. \A j \in Idx : rs'[j] = IF j = i THEN PREPARED ELSE rs[j]
    BY <1>5 DEF Move
  <2>4. \A j \in Idx : rs'[j] \in {PREPARED, IGNORE, ENABLED_, STARTED}
    BY <2>3 DEF CoreInv
  <2>5. EnabledAsAsked'
    BY <1>2, <1>5, <2>3
    DEF CoreInv, EnabledAsAsked, Started, STARTED, ENABLED_, IGNORE, PREPARED,
        TypeOK
  <2>6. PlaysExactlyWhenPlaying'
    BY <1>2, <1>5, <2>3
    DEF CoreInv, PlaysExactlyWhenPlaying, Playing, STARTED, PREPARED
  <2>7. CoreInv'
    BY <1>5, <2>1, <2>4, <2>5, <2>6
    DEF CoreInv, NoIllegalTransition, Playing, NeverStalls, NoStrayWork,
        LetGoMeansReleased, Started
  <2> QED
    BY <1>5, <2>2, <2>7
<1>6. ASSUME NEW r \in {Stopped(rs, {i}), Move(rs, {i}, PREPARED)},
             Throws(r, r, state, events), illegal' = illegal
      PROVE  PlaybackTypes' /\ CoreInv' /\ held' = FALSE
  BY <1>1, <1>4, <1>6, ThrowsStep DEF TypeOK
<1> QED
  BY <1>3, <1>5, <1>6 DEF DisableInternal, TypeOK

LEMMA StepSetRendererEnabled ==
  ASSUME TypeOK, CoreInv, NEW i \in Idx, NEW b \in BOOLEAN,
         SetRendererEnabledInternal(i, b)
  PROVE  PlaybackTypes' /\ CoreInv' /\ (held' => held)
<1>0. /\ Receive(Msg("SET_RENDERER_ENABLED", i, b))
      /\ flags' = IF b THEN flags \cup {i} ELSE flags \ {i}
      /\ UNCHANGED <<playWhenReady, processed, released>>
  BY DEF SetRendererEnabledInternal, Quiet
<1>1. inbox' \in Seq(Message)
  BY <1>0, QueueTypes DEF Receive
<1>2. CASE /\ \/ (i \in flags) = b
              \/ ~Started(state)
              \/ rs[i] \notin {PREPARED, ENABLED_, STARTED}
           /\ Requeue(FALSE, FALSE)
           /\ UNCHANGED <<coreVars, events, rebuffering>>
  <2>1. /\ work' \subseteq Int /\ prep' \subseteq Int
        /\ workTimer' = workTimer /\ prepTimer' = prepTimer /\ PrepareOnce'
        /\ (work' # {} <=> work # {}) /\ (prep' # {} <=> prep # {})
    BY <1>0, <1>2, RequeueEffect
  <2>2. PlaybackTypes'
    BY <1>0, <1>1, <1>2, <2>1 DEF PlaybackTypes, TypeOK, coreVars
  <2>3. Started(state) => {j \in flags' : rs[j] # IGNORE}
                            = {j \in flags : rs[j] # IGNORE}
    BY <1>0, <1>2 DEF CoreInv
  <2>4. EnabledAsAsked'
    BY <1>2, <2>3 DEF CoreInv, EnabledAsAsked, coreVars
  <2>5. CoreInv'
    BY <1>0, <1>2, <2>1, <2>4
    DEF CoreInv, NoIllegalTransition, PlaysExactlyWhenPlaying, Playing,
        NeverStalls, NoStrayWork, LetGoMeansReleased, Started, coreVars
  <2> QED
    BY <1>2, <2>2, <2>5 DEF coreVars
<1>3. CASE /\ (i \in flags) # b
           /\ Started(state)
           /\ rs[i] \in {PREPARED, ENABLED_, STARTED}
           /\ IF b THEN EnableInternal(i) ELSE DisableInternal(i)
  <2>1. CASE b = TRUE
    <3>1. /\ i \notin flags /\ flags' = flags \cup {i}
          /\ EnableInternal(i)
          /\ Receive(Msg("SET_RENDERER_ENABLED", i, TRUE))
      BY <1>0, <1>3, <2>1
    <3> QED
      BY <1>0, <1>3, <3>1, StepEnable
  <2>2. CASE b = FALSE
    <3>1. i \in flags
      BY <1>3, <2>2
    <3>2. flags' = flags \ {i} /\ DisableInternal(i)
      BY <1>0, <1>3, <2>2
    <3>3. Receive(Msg("SET_RENDERER_ENABLED", i, FALSE))
      BY <1>0, <2>2
    <3> QED
      BY <1>0, <1>3, <3>1, <3>2, <3>3, StepDisable
  <2> QED
    BY <2>1, <2>2
<1> QED
  BY <1>2, <1>3 DEF SetRendererEnabledInternal

-----------------------------------------------------------------------------
(* The handlers of the player's own messages.                              *)

(* The end of preparation: every renderer is PREPARED or IGNORE, the       *)
(* chosen ones are enabled, and they are started only if playing.          *)
LEMMA StepFinishPrepare ==
  ASSUME TypeOK, CoreInv, 0 \in prep, NEW p \in PrepareOutcomes(rs),
         UNPREPARED \notin {p[i] : i \in Idx}, FinishPrepare(p),
         UNCHANGED <<inbox, playWhenReady, flags, processed, released>>
  PROVE  PlaybackTypes' /\ CoreInv' /\ (held' => held)
<1> DEFINE on == enabled \cup Chosen(p)
           r1 == Move(p, Chosen(p), ENABLED_)
<1>1. /\ state = "PREPARING" /\ held /\ enabled = {}
      /\ work = {} /\ ~workTimer /\ prep = {0} /\ ~prepTimer
  BY DEF CoreInv, NoStrayWork, PrepareOnce, EnabledAsAsked, Started,
         UNPREPARED, PREPARED, IGNORE, ENABLED_, STARTED
<1>2. /\ p \in [Idx -> RendererState]
      /\ \A i \in Idx : p[i] \in {PREPARED, IGNORE}
  BY <1>1 DEF PrepareOutcomes, CoreInv, UNPREPARED, PREPARED, IGNORE
<1>3. Chosen(p) = {i \in flags : p[i] # IGNORE} /\ on = Chosen(p)
      /\ Chosen(p) \subseteq Idx
  BY <1>1, <1>2 DEF Chosen, TypeOK, PREPARED, IGNORE
<1>4. /\ r1 \in [Idx -> RendererState]
      /\ \A i \in Idx : r1[i] = IF i \in on THEN ENABLED_ ELSE p[i]
      /\ Startable(r1, on)
      /\ Move(r1, on, STARTED) \in [Idx -> RendererState]
      /\ \A i \in Idx :
           Move(r1, on, STARTED)[i] = IF i \in on THEN STARTED ELSE p[i]
  BY <1>2, <1>3 DEF Move, RendererState, Startable
<1>5. inbox' \in Seq(Message) /\ Len(inbox) \in Int
  BY DEF TypeOK
<1>6. PICK e \in SUBSET Chosen(p) :
        \E ready \in ReadyOrEnded(Chosen(p), e) :
          LET s == IF Chosen(p) \subseteq e THEN "ENDED"
                   ELSE IF ready THEN "READY" ELSE "BUFFERING"
              ev == Reported(events, state, s)
              starts == s = "READY" /\ playWhenReady
          IN
            \/ /\ starts => Startable(r1, on)
               /\ rs' = IF starts THEN Move(r1, on, STARTED) ELSE r1
               /\ clockRunning' = (clockRunning \/ starts)
               /\ rebuffering' = (rebuffering /\ ~starts)
               /\ enabled' = on /\ ended' = (ended \ Chosen(p)) \cup e
               /\ state' = s /\ events' = ev
               /\ work' = work \cup {Len(inbox)} /\ prep' = prep \ {0}
               /\ UNCHANGED <<held, workTimer, prepTimer, illegal>>
            \/ starts /\ StartThrows(r1, on, s, ev)
            \/ /\ CanThrow(Chosen(p))
               /\ Throws(p, r1, state, events)
               /\ UNCHANGED illegal
  BY DEF FinishPrepare
<1>7. PICK s \in {"ENDED", "READY", "BUFFERING"} :
        LET ev == Reported(events, state, s)
            starts == s = "READY" /\ playWhenReady
        IN
          \/ /\ rs' = IF starts THEN Move(r1, on, STARTED) ELSE r1
             /\ clockRunning' = (clockRunning \/ starts)
             /\ rebuffering' = (rebuffering /\ ~starts)
             /\ enabled' = on /\ ended' = (ended \ Chosen(p)) \cup e
             /\ state' = s /\ events' = ev
             /\ work' = work \cup {Len(inbox)} /\ prep' = prep \ {0}
             /\ UNCHANGED <<held, workTimer, prepTimer, illegal>>
          \/ StartThrows(r1, on, s, ev)
          \/ Throws(p, r1, state, events) /\ UNCHANGED illegal
  BY <1>6
<1> DEFINE ev == Reported(events, state, s)
           starts == s = "READY" /\ playWhenReady
<1>8. ev \in Seq(Event) /\ s \in PlayerState
  BY DEF Reported, TypeOK, Event, PlayerState
<1>9. CASE /\ rs' = IF starts THEN Move(r1, on, STARTED) ELSE r1
           /\ clockRunning' = (clockRunning \/ starts)
           /\ rebuffering' = (rebuffering /\ ~starts)
           /\ enabled' = on /\ ended' = (ended \ Chosen(p)) \cup e
           /\ state' = s /\ events' = ev
           /\ work' = work \cup {Len(inbox)} /\ prep' = prep \ {0}
           /\ UNCHANGED <<held, workTimer, prepTimer, illegal>>
  <2> HIDE DEF r1, on, ev
  <2>1. /\ clockRunning' = starts
        /\ work' = {Len(inbox)} /\ prep' = {}
    BY <1>1, <1>9 DEF CoreInv, PlaysExactlyWhenPlaying, Playing, TypeOK
  <2>2. \A i \in Idx : rs'[i] = IF i \in on
                                THEN (IF starts THEN STARTED ELSE ENABLED_)
                                ELSE p[i]
    BY <1>4, <1>9
  <2>3. PlaybackTypes'
    BY <1>3, <1>4, <1>5, <1>8, <1>9, <2>1 DEF PlaybackTypes, TypeOK
  <2>4. \A i \in Idx : rs'[i] \in {PREPARED, IGNORE, ENABLED_, STARTED}
    BY <1>2, <2>2
  <2>5. enabled' = {i \in Idx : rs'[i] \in {ENABLED_, STARTED}}
    BY <1>2, <1>3, <1>9, <2>2 DEF PREPARED, IGNORE, ENABLED_, STARTED
  <2>6. enabled' = {i \in flags' : rs'[i] # IGNORE}
    BY <1>2, <1>3, <1>9, <2>2
    DEF PREPARED, IGNORE, ENABLED_, STARTED, TypeOK
  <2>7. PlaysExactlyWhenPlaying'
    BY <1>2, <1>9, <2>1, <2>2
    DEF PlaysExactlyWhenPlaying, Playing, PREPARED, IGNORE, ENABLED_, STARTED
  <2>8. CoreInv'
    BY <1>1, <1>9, <2>1, <2>4, <2>5, <2>6, <2>7
    DEF CoreInv, NoIllegalTransition, EnabledAsAsked, NeverStalls,
        NoStrayWork, PrepareOnce, LetGoMeansReleased, Started
  <2> QED
    BY <1>9, <2>3, <2>8
<1>10. CASE StartThrows(r1, on, s, ev)
  <2>1. Throws(r1, Move(r1, on, STARTED), s, ev) /\ illegal' = illegal
    BY <1>4, <1>10 DEF StartThrows, TypeOK
  <2> QED
    BY <1>4, <1>5, <1>8, <2>1, ThrowsStep DEF TypeOK
<1>11. CASE Throws(p, r1, state, events) /\ UNCHANGED illegal
  BY <1>2, <1>4, <1>5, <1>11, ThrowsStep DEF TypeOK
<1> QED
  BY <1>7, <1>9, <1>10, <1>11

LEMMA StepIncrementalPrepare ==
  ASSUME TypeOK, CoreInv, IncrementalPrepareInternal
  PROVE  PlaybackTypes' /\ CoreInv' /\ (held' => held)
<1>0. /\ 0 \in prep
      /\ UNCHANGED <<inbox, playWhenReady, flags, processed, released>>
  BY DEF IncrementalPrepareInternal, Quiet
<1>1. /\ state = "PREPARING" /\ held /\ prep = {0} /\ ~prepTimer
  BY <1>0 DEF CoreInv, NoStrayWork, PrepareOnce
<1>2. ASSUME NEW p \in PrepareOutcomes(rs), rs' = p, SchedulePrepare,
             UNCHANGED <<work, workTimer, state, held, enabled, ended,
                         clockRunning, events, rebuffering, illegal>>
      PROVE  PlaybackTypes' /\ CoreInv' /\ (held' => held)
  <2>1. /\ p \in [Idx -> RendererState]
        /\ \A i \in Idx : p[i] \in {UNPREPARED, PREPARED, IGNORE}
    BY <1>1 DEF PrepareOutcomes, CoreInv
  <2>2. \/ prep' = {Len(inbox)} /\ prepTimer' = FALSE
        \/ prep' = {} /\ prepTimer' = TRUE
    BY <1>1, <1>2 DEF SchedulePrepare, TypeOK
  <2>3. Len(inbox) \in Int /\ prep' \subseteq Int /\ prepTimer' \in BOOLEAN
    <3>1. Len(inbox) \in Int
      BY DEF TypeOK
    <3>2. prep' \subseteq Int
      BY <2>2, <3>1
    <3> QED
      BY <2>2, <3>1, <3>2
  <2>6. PlaybackTypes'
    <3>1. rs' \in [Idx -> RendererState]
      BY <1>2, <2>1
    <3>2. UNCHANGED <<work, workTimer, state, held, enabled, ended,
                      clockRunning, events, rebuffering, illegal>>
      BY <1>2
    <3> QED
      BY <1>0, <2>3, <3>1, <3>2 DEF PlaybackTypes, TypeOK
  <2>4. EnabledAsAsked' /\ PlaysExactlyWhenPlaying'
    BY <1>0, <1>1, <1>2, <2>1
    DEF CoreInv, EnabledAsAsked, PlaysExactlyWhenPlaying, Playing, Started,
        UNPREPARED, PREPARED, IGNORE, ENABLED_, STARTED
  <2>5. CoreInv'
    BY <1>0, <1>1, <1>2, <2>1, <2>2, <2>4
    DEF CoreInv, NoIllegalTransition, NeverStalls, NoStrayWork, PrepareOnce,
        LetGoMeansReleased, Started, Playing
  <2> QED
    BY <1>2, <2>6, <2>5
<1>3. ASSUME NEW p \in PrepareOutcomes(rs),
             Throws(rs, p, state, events), illegal' = illegal
      PROVE  PlaybackTypes' /\ CoreInv' /\ (held' => held)
  BY <1>0, <1>3, ThrowsStep, RendererTypes DEF TypeOK
<1> QED
  BY <1>0, <1>2, <1>3, StepFinishPrepare DEF IncrementalPrepareInternal

(* scheduleNextOperation after the pending messages were removed.          *)
LEMMA ScheduleEffect ==
  ASSUME TypeOK, NEW wanted \in BOOLEAN, ScheduleWork(wanted)
  PROVE  /\ work' \subseteq Int /\ workTimer' \in BOOLEAN
         /\ wanted <=> (work' # {} \/ workTimer')
         /\ prep' = prep /\ prepTimer' = prepTimer
<1>1. Len(inbox) \in Int
  BY DEF TypeOK
<1> QED
  BY <1>1 DEF ScheduleWork

(* A step of doSomeWork that stops the enabled renderers and shows state s.*)
LEMMA WorkStops ==
  ASSUME TypeOK, CoreInv, 0 \in work, NEW s \in {"ENDED", "BUFFERING"},
         NEW e \in SUBSET Idx,
         state' = s, events' = Reported(events, state, s),
         rs' = Stopped(rs, enabled), clockRunning' = FALSE, ended' = e,
         rebuffering' \in BOOLEAN, NEW wanted \in BOOLEAN,
         s = "BUFFERING" => wanted, ScheduleWork(wanted),
         UNCHANGED <<held, enabled, illegal, inbox, playWhenReady, flags,
                     processed, released>>
  PROVE  PlaybackTypes' /\ CoreInv'
<1>1. Started(state) /\ held
  BY DEF CoreInv, NoStrayWork, Started
<1>2. \A i \in Idx : /\ rs'[i] # STARTED
                     /\ rs'[i] = IF rs[i] = STARTED THEN ENABLED_ ELSE rs[i]
  BY StoppedEffect
<1>3. events' \in Seq(Event) /\ s \in PlayerState
  BY DEF Reported, TypeOK, Event, PlayerState
<1>4. /\ work' \subseteq Int /\ workTimer' \in BOOLEAN
      /\ wanted <=> (work' # {} \/ workTimer')
      /\ prep' = prep /\ prepTimer' = prepTimer
  BY ScheduleEffect
<1>5. PlaybackTypes'
  BY <1>3, <1>4, StoppedEffect DEF PlaybackTypes, TypeOK
<1>6. \A i \in Idx : rs'[i] \in {PREPARED, IGNORE, ENABLED_, STARTED}
  BY <1>1, <1>2 DEF CoreInv
<1>7. EnabledAsAsked'
  BY <1>1, <1>2
  DEF CoreInv, EnabledAsAsked, STARTED, ENABLED_, IGNORE, TypeOK
<1>8. CoreInv'
  BY <1>1, <1>2, <1>4, <1>6, <1>7
  DEF CoreInv, NoIllegalTransition, PlaysExactlyWhenPlaying, Playing,
      NeverStalls, NoStrayWork, PrepareOnce, LetGoMeansReleased, Started
<1> QED
  BY <1>5, <1>8

LEMMA StepDoSomeWork ==
  ASSUME TypeOK, CoreInv, DoSomeWork
  PROVE  PlaybackTypes' /\ CoreInv' /\ (held' => held)
<1>0. /\ 0 \in work
      /\ UNCHANGED <<inbox, playWhenReady, flags, processed, released>>
  BY DEF DoSomeWork, Quiet
<1>1. Started(state) /\ held /\ inbox' \in Seq(Message)
  BY <1>0 DEF CoreInv, NoStrayWork, Started, TypeOK
<1>2. PICK more \in SUBSET (enabled \ ended) :
        \E ready \in ReadyOrEnded(enabled, ended \cup more) :
          \/ WorkEnds(ended \cup more)
          \/ state = "BUFFERING" /\ WorkGetsReady(ended \cup more)
          \/ state = "READY" /\ WorkRebuffers(ended \cup more)
          \/ WorkGoesOn(ended \cup more)
          \/ Throws(rs, rs, state, events) /\ UNCHANGED illegal
  BY DEF DoSomeWork
<1> DEFINE e == ended \cup more
<1>3. e \in SUBSET Idx
  BY DEF TypeOK
<1> HIDE DEF e
<1>4. ASSUME NEW s \in PlayerState
      PROVE  Reported(events, state, s) \in Seq(Event)
  BY DEF Reported, TypeOK, Event, PlayerState
<1>5. ASSUME NEW t \in [Idx -> RendererState], NEW s \in PlayerState,
             NEW ev \in Seq(Event), Throws(rs, t, s, ev), illegal' = illegal
      PROVE  PlaybackTypes' /\ CoreInv' /\ held' = FALSE
  BY <1>0, <1>1, <1>5, ThrowsStep DEF TypeOK
<1>6. CASE WorkEnds(e)
  <2>1. CASE Throws(rs, Stopped(rs, enabled), "ENDED",
                    Reported(events, state, "ENDED")) /\ illegal' = illegal
    BY <1>4, <1>5, <2>1, StoppedEffect DEF PlayerState
  <2>2. CASE /\ state' = "ENDED"
             /\ events' = Reported(events, state, "ENDED")
             /\ rs' = Stopped(rs, enabled) /\ clockRunning' = FALSE
             /\ ended' = e
             /\ ScheduleWork(enabled # {})
             /\ UNCHANGED <<held, enabled, rebuffering, illegal>>
    <3>1. rebuffering' \in BOOLEAN
      BY <2>2 DEF TypeOK
    <3> QED
      BY <1>0, <1>1, <1>3, <2>2, <3>1, WorkStops
  <2> QED
    BY <1>6, <2>1, <2>2 DEF WorkEnds
<1>7. CASE WorkRebuffers(e)
  <2>1. CASE Throws(rs, Stopped(rs, enabled), "BUFFERING",
                    Reported(events, state, "BUFFERING"))
             /\ illegal' = illegal
    BY <1>4, <1>5, <2>1, StoppedEffect DEF PlayerState
  <2>2. CASE /\ state' = "BUFFERING"
             /\ events' = Reported(events, state, "BUFFERING")
             /\ rebuffering' = playWhenReady
             /\ rs' = Stopped(rs, enabled) /\ clockRunning' = FALSE
             /\ ended' = e
             /\ ScheduleWork(TRUE)
             /\ UNCHANGED <<held, enabled, illegal>>
    <3>1. rebuffering' \in BOOLEAN
      BY <2>2 DEF TypeOK
    <3> QED
      BY <1>0, <1>1, <1>3, <2>2, <3>1, WorkStops
  <2> QED
    BY <1>7, <2>1, <2>2 DEF WorkRebuffers
<1>8. CASE state = "BUFFERING" /\ WorkGetsReady(e)
  <2>0. ~Playing
    BY <1>8 DEF Playing
  <2>1. CASE StartThrows(rs, enabled, "READY",
                         Reported(events, state, "READY"))
    <3>1. Throws(rs, Move(rs, enabled, STARTED), "READY",
                 Reported(events, state, "READY")) /\ illegal' = illegal
      BY <2>0, <2>1, StartEffect DEF StartThrows, TypeOK
    <3> QED
      BY <1>4, <1>5, <2>0, <3>1, StartEffect DEF PlayerState
  <2>2. CASE /\ state' = "READY"
             /\ events' = Reported(events, state, "READY")
             /\ rs' = IF playWhenReady THEN Move(rs, enabled, STARTED) ELSE rs
             /\ clockRunning' = (clockRunning \/ playWhenReady)
             /\ rebuffering' = (rebuffering /\ ~playWhenReady)
             /\ ended' = e
             /\ ScheduleWork(playWhenReady \/ enabled # {})
             /\ UNCHANGED <<held, enabled, illegal>>
    <3>1. \A i \in Idx :
            rs'[i] = IF playWhenReady /\ i \in enabled THEN STARTED ELSE rs[i]
      BY <2>0, <2>2, StartEffect
    <3>2. rs' \in [Idx -> RendererState]
      BY <2>0, <2>2, StartEffect DEF TypeOK
    <3>3. /\ work' \subseteq Int /\ workTimer' \in BOOLEAN
          /\ playWhenReady \/ enabled # {} <=> (work' # {} \/ workTimer')
          /\ prep' = prep /\ prepTimer' = prepTimer
      <4>1. (playWhenReady \/ enabled # {}) \in BOOLEAN
        OBVIOUS
      <4> QED
        BY <2>2, <4>1, ScheduleEffect
    <3>4. PlaybackTypes'
      BY <1>0, <1>1, <1>3, <1>4, <2>2, <3>2, <3>3
      DEF PlaybackTypes, TypeOK, PlayerState
    <3>5. \A i \in Idx : rs'[i] \in {PREPARED, IGNORE, ENABLED_, STARTED}
      BY <1>1, <3>1 DEF CoreInv
    <3>6. EnabledAsAsked'
      BY <1>0, <1>1, <2>2, <3>1
      DEF CoreInv, EnabledAsAsked, STARTED, ENABLED_, IGNORE, TypeOK
    <3>7. PlaysExactlyWhenPlaying'
      BY <1>0, <1>8, <2>2, <3>1
      DEF CoreInv, PlaysExactlyWhenPlaying, Playing, TypeOK
    <3>8. CoreInv'
      BY <1>0, <1>1, <2>2, <3>3, <3>5, <3>6, <3>7
      DEF CoreInv, NoIllegalTransition, Playing, NeverStalls, NoStrayWork,
          PrepareOnce, LetGoMeansReleased, Started
    <3> QED
      BY <2>2, <3>4, <3>8
  <2> QED
    BY <1>8, <2>1, <2>2 DEF WorkGetsReady
<1>9. CASE WorkGoesOn(e)
  <2>1. /\ ended' = e
        /\ ScheduleWork(Playing \/ state = "BUFFERING" \/ enabled # {})
        /\ UNCHANGED <<state, held, rs, enabled, clockRunning, events,
                       rebuffering, illegal>>
    BY <1>9 DEF WorkGoesOn
  <2>2. (Playing \/ state = "BUFFERING" \/ enabled # {}) \in BOOLEAN
    OBVIOUS
  <2>3. /\ work' \subseteq Int /\ workTimer' \in BOOLEAN
        /\ Playing \/ state = "BUFFERING" => work' # {} \/ workTimer'
        /\ prep' = prep /\ prepTimer' = prepTimer
    BY <2>1, <2>2, ScheduleEffect
  <2>4. PlaybackTypes'
    BY <1>0, <1>1, <1>3, <2>1, <2>3 DEF PlaybackTypes, TypeOK
  <2>5. CoreInv'
    BY <1>0, <1>1, <2>1, <2>3
    DEF CoreInv, NoIllegalTransition, PlaysExactlyWhenPlaying, Playing,
        EnabledAsAsked, NeverStalls, NoStrayWork, PrepareOnce,
        LetGoMeansReleased, Started
  <2> QED
    BY <2>1, <2>4, <2>5
<1>10. CASE Throws(rs, rs, state, events) /\ UNCHANGED illegal
  BY <1>5, <1>10 DEF TypeOK
<1> QED
  BY <1>1, <1>2, <1>6, <1>7, <1>8, <1>9, <1>10 DEF e

LEMMA StepTimers ==
  ASSUME TypeOK, CoreInv, Timers
  PROVE  PlaybackTypes' /\ CoreInv' /\ held' = held
<1>1. Len(inbox) \in Int
  BY DEF TypeOK
<1>2. CASE WorkTimerFires
  <2>1. /\ workTimer /\ workTimer' = FALSE
        /\ work' = work \cup {Len(inbox)}
        /\ UNCHANGED <<inbox, prep, prepTimer, events, state, held, rs,
                       enabled, ended, clockRunning, illegal, playWhenReady,
                       flags, rebuffering, processed, released>>
    BY <1>2 DEF WorkTimerFires, coreVars
  <2>2. PlaybackTypes'
    BY <1>1, <2>1 DEF PlaybackTypes, TypeOK
  <2>3. CoreInv'
    BY <2>1
    DEF CoreInv, NoIllegalTransition, PlaysExactlyWhenPlaying, Playing,
        EnabledAsAsked, NeverStalls, NoStrayWork, PrepareOnce,
        LetGoMeansReleased, Started
  <2> QED
    BY <2>1, <2>2, <2>3
<1>3. CASE PrepTimerFires
  <2>1. /\ prepTimer /\ prepTimer' = FALSE
        /\ prep' = prep \cup {Len(inbox)}
        /\ UNCHANGED <<inbox, work, workTimer, events, state, held, rs,
                       enabled, ended, clockRunning, illegal, playWhenReady,
                       flags, rebuffering, processed, released>>
    BY <1>3 DEF PrepTimerFires, coreVars
  <2>2. prep' = {Len(inbox)}
    BY <2>1 DEF CoreInv, PrepareOnce
  <2>3. PlaybackTypes'
    BY <1>1, <2>1, <2>2 DEF PlaybackTypes, TypeOK
  <2>4. CoreInv'
    BY <2>1, <2>2
    DEF CoreInv, NoIllegalTransition, PlaysExactlyWhenPlaying, Playing,
        EnabledAsAsked, NeverStalls, NoStrayWork, PrepareOnce,
        LetGoMeansReleased, Started
  <2> QED
    BY <2>1, <2>3, <2>4
<1> QED
  BY <1>2, <1>3 DEF Timers

-----------------------------------------------------------------------------
(* The queue of the application's calls.                                   *)

LEMMA AppendQueue ==
  ASSUME TypeOK, NEW m \in Message, Post(m)
  PROVE  /\ Len(inbox) \in Nat /\ Len(inbox') = Len(inbox) + 1
         /\ \A k \in 1..Len(inbox) : inbox'[k] = inbox[k]
         /\ inbox'[Len(inbox) + 1] = m
BY DEF TypeOK, Post

LEMMA TailQueue ==
  ASSUME TypeOK, inbox # <<>>, inbox' = Tail(inbox)
  PROVE  /\ Len(inbox) \in Nat /\ Len(inbox) > 0
         /\ Len(inbox') = Len(inbox) - 1
         /\ \A k \in 1..(Len(inbox) - 1) : inbox'[k] = inbox[k + 1]
         /\ Head(inbox) = inbox[1]
BY DEF TypeOK

(* A call of the application: prepare() only when nothing is handed over.  *)
LEMMA QueueCall ==
  ASSUME TypeOK, QueueInv, NEW m \in Message, Post(m), held' = held,
         handedOver' \in BOOLEAN,
         m.what = "PREPARE" => ~handedOver /\ handedOver',
         m.what \notin {"PREPARE", "STOP"} => handedOver' = handedOver
  PROVE  QueueInv'
<1> DEFINE n == Len(inbox)
<1>1. /\ n \in Nat /\ Len(inbox') = n + 1
      /\ \A k \in 1..n : inbox'[k] = inbox[k]
      /\ inbox'[n + 1] = m
  BY AppendQueue
<1>2. PICK occ \in [0..n -> BOOLEAN] : Occupancy(occ)
  BY DEF QueueInv
<1> DEFINE occ1 == [k \in 0..(n + 1) |-> IF k = n + 1 THEN handedOver'
                                                     ELSE occ[k]]
<1>3. /\ occ1 \in [0..Len(inbox') -> BOOLEAN]
      /\ occ1[n + 1] = handedOver' /\ \A k \in 0..n : occ1[k] = occ[k]
  BY <1>1, <1>2
<1> HIDE DEF occ1
<1>4. \A k \in 1..n : /\ Prepares(k)' <=> Prepares(k)
                      /\ Stops(k)' <=> Stops(k)
  BY <1>1 DEF Prepares, Stops
<1>5. \A k \in 1..n :
        /\ Prepares(k)' => ~occ1[k - 1] /\ occ1[k]
        /\ ~Prepares(k)' /\ ~Stops(k)' /\ occ1[k - 1] => occ1[k]
  BY <1>1, <1>2, <1>3, <1>4 DEF Occupancy
<1>6. /\ m.what = "PREPARE" => ~occ1[n] /\ occ1[n + 1]
      /\ m.what \notin {"PREPARE", "STOP"} /\ occ1[n] => occ1[n + 1]
  BY <1>1, <1>2, <1>3 DEF Occupancy
<1>7. \A k \in 1..Len(inbox') :
        /\ Prepares(k)' => ~occ1[k - 1] /\ occ1[k]
        /\ ~Prepares(k)' /\ ~Stops(k)' /\ occ1[k - 1] => occ1[k]
  <2>1. ASSUME NEW k \in 1..Len(inbox'), k = n + 1
        PROVE  /\ Prepares(k)' => ~occ1[k - 1] /\ occ1[k]
               /\ ~Prepares(k)' /\ ~Stops(k)' /\ occ1[k - 1] => occ1[k]
    BY <1>1, <1>6, <2>1 DEF Prepares, Stops
  <2>2. \A k \in 1..Len(inbox') : k \in 1..n \/ k = n + 1
    BY <1>1
  <2> QED
    BY <1>5, <2>1, <2>2
<1>8. held' => occ1[0]
  BY <1>1, <1>2, <1>3 DEF Occupancy
<1>9. occ1[Len(inbox')] => handedOver'
  BY <1>1, <1>3
<1> QED
  BY <1>3, <1>7, <1>8, <1>9 DEF QueueInv, Occupancy

(* Serving the first message: only prepare makes the player hold           *)
(* renderers, and stop makes it let go of them.                            *)
LEMMA QueueServe ==
  ASSUME TypeOK, QueueInv, inbox # <<>>, inbox' = Tail(inbox),
         handedOver' = handedOver,
         held' => Prepares(1) \/ (held /\ ~Stops(1))
  PROVE  QueueInv'
<1> DEFINE n == Len(inbox)
<1>1. /\ n \in Nat /\ n > 0 /\ Len(inbox') = n - 1
      /\ \A k \in 1..(n - 1) : inbox'[k] = inbox[k + 1]
  BY TailQueue
<1>2. PICK occ \in [0..n -> BOOLEAN] : Occupancy(occ)
  BY DEF QueueInv
<1> DEFINE occ1 == [k \in 0..(n - 1) |-> occ[k + 1]]
<1>3. /\ occ1 \in [0..Len(inbox') -> BOOLEAN]
      /\ \A k \in 0..(n - 1) : occ1[k] = occ[k + 1]
  BY <1>1, <1>2
<1> HIDE DEF occ1
<1>4. \A k \in 1..(n - 1) : /\ Prepares(k)' <=> Prepares(k + 1)
                            /\ Stops(k)' <=> Stops(k + 1)
  BY <1>1 DEF Prepares, Stops
<1>5. ASSUME NEW k \in 1..(n - 1)
      PROVE  /\ Prepares(k)' => ~occ1[k - 1] /\ occ1[k]
             /\ ~Prepares(k)' /\ ~Stops(k)' /\ occ1[k - 1] => occ1[k]
  <2>1. /\ k + 1 \in 1..n /\ k - 1 \in 0..(n - 1) /\ k \in 0..(n - 1)
        /\ (k - 1) + 1 = k /\ (k + 1) - 1 = k
    BY <1>1
  <2> QED
    BY <1>2, <1>3, <1>4, <2>1 DEF Occupancy
<1>6. held' => occ1[0]
  <2>1. 1 \in 1..n /\ 0 \in 0..(n - 1) /\ 0 + 1 = 1 /\ 1 - 1 = 0
    BY <1>1
  <2> QED
    BY <1>2, <1>3, <2>1 DEF Occupancy
<1>7. occ1[Len(inbox')] => handedOver'
  BY <1>1, <1>2, <1>3 DEF Occupancy
<1> QED
  BY <1>1, <1>3, <1>5, <1>6, <1>7 DEF QueueInv, Occupancy

(* A step that leaves the queue alone and does not take renderers.         *)
LEMMA QueueKept ==
  ASSUME QueueInv, UNCHANGED <<inbox, handedOver>>, held' => held
  PROVE  QueueInv'
<1>1. PICK occ \in [0..Len(inbox) -> BOOLEAN] : Occupancy(occ)
  BY DEF QueueInv
<1>2. Occupancy(occ)'
  BY <1>1 DEF Occupancy, Prepares, Stops
<1> QED
  BY <1>2 DEF QueueInv

-----------------------------------------------------------------------------
(* The values of playWhenReady in the queue.                               *)

LEMMA AlternateCall ==
  ASSUME TypeOK, AlternateInv, NEW m \in Message, Post(m),
         playWhenReady' = playWhenReady, appPlayWhenReady' \in BOOLEAN,
         m.what = "SET_PLAY_WHEN_READY" =>
           m.flag = appPlayWhenReady' /\ appPlayWhenReady' # appPlayWhenReady,
         m.what # "SET_PLAY_WHEN_READY" => appPlayWhenReady' = appPlayWhenReady
  PROVE  AlternateInv'
<1> DEFINE n == Len(inbox)
<1>1. /\ n \in Nat /\ Len(inbox') = n + 1
      /\ \A k \in 1..n : inbox'[k] = inbox[k]
      /\ inbox'[n + 1] = m
  BY AppendQueue
<1>2. PICK val \in [0..n -> BOOLEAN] : Alternation(val)
  BY DEF AlternateInv
<1> DEFINE val1 == [k \in 0..(n + 1) |-> IF k = n + 1 THEN appPlayWhenReady'
                                                     ELSE val[k]]
<1>3. /\ val1 \in [0..Len(inbox') -> BOOLEAN]
      /\ val1[n + 1] = appPlayWhenReady' /\ \A k \in 0..n : val1[k] = val[k]
  BY <1>1, <1>2
<1> HIDE DEF val1
<1>4. \A k \in 1..n : /\ Sets(k)' <=> Sets(k)
                      /\ inbox'[k].flag = inbox[k].flag
  BY <1>1 DEF Sets
<1>5. \A k \in 1..n :
        /\ Sets(k)' => val1[k] = inbox'[k].flag /\ val1[k] # val1[k - 1]
        /\ ~Sets(k)' => val1[k] = val1[k - 1]
  BY <1>1, <1>2, <1>3, <1>4, SMTT(30) DEF Alternation
<1>6. val1[n] = appPlayWhenReady
  BY <1>1, <1>2, <1>3 DEF Alternation
<1>7. /\ m.what = "SET_PLAY_WHEN_READY" =>
           val1[n + 1] = m.flag /\ val1[n + 1] # val1[n]
      /\ m.what # "SET_PLAY_WHEN_READY" => val1[n + 1] = val1[n]
  BY <1>1, <1>3, <1>6
<1>8. \A k \in 1..Len(inbox') :
        /\ Sets(k)' => val1[k] = inbox'[k].flag /\ val1[k] # val1[k - 1]
        /\ ~Sets(k)' => val1[k] = val1[k - 1]
  <2>1. ASSUME NEW k \in 1..Len(inbox'), k = n + 1
        PROVE  /\ Sets(k)' => val1[k] = inbox'[k].flag /\ val1[k] # val1[k - 1]
               /\ ~Sets(k)' => val1[k] = val1[k - 1]
    BY <1>1, <1>7, <2>1 DEF Sets
  <2>2. \A k \in 1..Len(inbox') : k \in 1..n \/ k = n + 1
    BY <1>1
  <2> QED
    BY <1>5, <2>1, <2>2
<1>9. val1[0] = playWhenReady'
  BY <1>1, <1>2, <1>3 DEF Alternation
<1> QED
  BY <1>1, <1>3, <1>8, <1>9 DEF AlternateInv, Alternation

LEMMA AlternateServe ==
  ASSUME TypeOK, AlternateInv, inbox # <<>>, inbox' = Tail(inbox),
         appPlayWhenReady' = appPlayWhenReady,
         playWhenReady' = IF Sets(1) THEN inbox[1].flag ELSE playWhenReady
  PROVE  AlternateInv'
<1> DEFINE n == Len(inbox)
<1>1. /\ n \in Nat /\ n > 0 /\ Len(inbox') = n - 1
      /\ \A k \in 1..(n - 1) : inbox'[k] = inbox[k + 1]
  BY TailQueue
<1>2. PICK val \in [0..n -> BOOLEAN] : Alternation(val)
  BY DEF AlternateInv
<1> DEFINE val1 == [k \in 0..(n - 1) |-> val[k + 1]]
<1>3. /\ val1 \in [0..Len(inbox') -> BOOLEAN]
      /\ \A k \in 0..(n - 1) : val1[k] = val[k + 1]
  BY <1>1, <1>2
<1> HIDE DEF val1
<1>4. \A k \in 1..(n - 1) : /\ Sets(k)' <=> Sets(k + 1)
                            /\ inbox'[k].flag = inbox[k + 1].flag
  BY <1>1 DEF Sets
<1>5. ASSUME NEW k \in 1..(n - 1)
      PROVE  /\ Sets(k)' => val1[k] = inbox'[k].flag /\ val1[k] # val1[k - 1]
             /\ ~Sets(k)' => val1[k] = val1[k - 1]
  <2>1. /\ k + 1 \in 1..n /\ k - 1 \in 0..(n - 1) /\ k \in 0..(n - 1)
        /\ (k - 1) + 1 = k /\ (k + 1) - 1 = k
    BY <1>1
  <2> QED
    BY <1>2, <1>3, <1>4, <2>1 DEF Alternation
<1>6. val1[0] = playWhenReady'
  <2>1. 1 \in 1..n /\ 0 \in 0..(n - 1) /\ 0 + 1 = 1 /\ 1 - 1 = 0
    BY <1>1
  <2> QED
    BY <1>2, <1>3, <2>1 DEF Alternation
<1>7. val1[Len(inbox')] = appPlayWhenReady'
  BY <1>1, <1>2, <1>3 DEF Alternation
<1> QED
  BY <1>1, <1>3, <1>5, <1>6, <1>7 DEF AlternateInv, Alternation

LEMMA AlternateKept ==
  ASSUME AlternateInv, UNCHANGED <<inbox, playWhenReady, appPlayWhenReady>>
  PROVE  AlternateInv'
<1>1. PICK val \in [0..Len(inbox) -> BOOLEAN] : Alternation(val)
  BY DEF AlternateInv
<1>2. Alternation(val)'
  BY <1>1 DEF Alternation, Sets
<1> QED
  BY <1>2 DEF AlternateInv

-----------------------------------------------------------------------------
(* The steps of the application and of the playback thread.                *)

(* The playback thread's variables that CoreInv speaks of stay the same.   *)
LEMMA CoreKept ==
  ASSUME CoreInv, UNCHANGED <<selfVars, coreVars, playWhenReady, flags>>
  PROVE  CoreInv'
BY DEF CoreInv, NoIllegalTransition, PlaysExactlyWhenPlaying, Playing,
       EnabledAsAsked, NeverStalls, NoStrayWork, PrepareOnce,
       LetGoMeansReleased, Started, selfVars, coreVars

LEMMA AppStep ==
  ASSUME IInv, AppCall \/ AppReturns \/ HandleEvent
  PROVE  IInv'
<1> USE DEF IInv
<1>1. TypeOK'
  BY AppTypes
<1>2. CoreInv'
  <2>1. UNCHANGED <<selfVars, coreVars, playWhenReady, flags>>
    BY DEF AppCall, AppReturns, HandleEvent, Prepare, Stop, SeekTo,
           SendMessage, BlockingSendMessage, Release, SetPlayWhenReady,
           SetRendererEnabled, BlockingSendReturns, ReleaseReturns,
           internalVars
  <2> QED
    BY <2>1, CoreKept
<1>3. CASE BlockingSendReturns \/ ReleaseReturns \/ HandleEvent
  <2>1. UNCHANGED <<inbox, handedOver, held, playWhenReady, appPlayWhenReady>>
    BY <1>3 DEF BlockingSendReturns, ReleaseReturns, HandleEvent,
                internalVars, coreVars
  <2> QED
    BY <1>1, <1>2, <2>1, QueueKept, AlternateKept
<1>4. CASE Prepare
  <2>1. /\ ~handedOver /\ handedOver' = TRUE /\ held' = held
        /\ UNCHANGED <<playWhenReady, appPlayWhenReady>>
        /\ Post(Plain("PREPARE"))
    BY <1>4 DEF Prepare, internalVars, coreVars
  <2>2. Plain("PREPARE") \in Message /\ Plain("PREPARE").what = "PREPARE"
    BY DEF Plain, Msg, Message
  <2>3. QueueInv'
    BY <2>1, <2>2, QueueCall
  <2>4. AlternateInv'
    BY <2>1, <2>2, AlternateCall DEF TypeOK
  <2> QED
    BY <1>1, <1>2, <2>3, <2>4
<1>5. CASE Stop
  <2>1. /\ handedOver' = FALSE /\ held' = held
        /\ UNCHANGED <<playWhenReady, appPlayWhenReady>>
        /\ Post(Plain("STOP"))
    BY <1>5 DEF Stop, internalVars, coreVars
  <2>2. Plain("STOP") \in Message /\ Plain("STOP").what = "STOP"
    BY DEF Plain, Msg, Message
  <2>3. QueueInv'
    BY <2>1, <2>2, QueueCall
  <2>4. AlternateInv'
    BY <2>1, <2>2, AlternateCall DEF TypeOK
  <2> QED
    BY <1>1, <1>2, <2>3, <2>4
<1>6. ASSUME NEW m \in Message, Post(m),
             m.what \notin {"PREPARE", "STOP", "SET_PLAY_WHEN_READY"},
             UNCHANGED <<handedOver, held, playWhenReady, appPlayWhenReady>>
      PROVE  IInv'
  <2>1. QueueInv'
    BY <1>6, QueueCall DEF TypeOK
  <2>2. AlternateInv'
    BY <1>6, AlternateCall DEF TypeOK
  <2> QED
    BY <1>1, <1>2, <2>1, <2>2
<1>7. CASE SeekTo \/ SendMessage \/ BlockingSendMessage \/ Release
  <2>1. UNCHANGED <<handedOver, held, playWhenReady, appPlayWhenReady>>
    BY <1>7 DEF SeekTo, SendMessage, BlockingSendMessage, Release,
                internalVars, coreVars, appVars
  <2>2. \/ Post(Plain("SEEK_TO")) \/ Post(Plain("CUSTOM"))
        \/ Post(Plain("RELEASE"))
    BY <1>7 DEF SeekTo, SendMessage, BlockingSendMessage, Release
  <2>3. \A w \in {"SEEK_TO", "CUSTOM", "RELEASE"} :
          Plain(w) \in Message /\ Plain(w).what = w
    BY DEF Plain, Msg, Message
  <2> QED
    BY <1>6, <2>1, <2>2, <2>3
<1>8. ASSUME NEW i \in Idx, NEW b \in BOOLEAN, SetRendererEnabled(i, b)
      PROVE  IInv'
  <2>1. UNCHANGED <<handedOver, held, playWhenReady, appPlayWhenReady>>
        /\ Post(Msg("SET_RENDERER_ENABLED", i, b))
    BY <1>8 DEF SetRendererEnabled, internalVars, coreVars
  <2>2. /\ Msg("SET_RENDERER_ENABLED", i, b) \in Message
        /\ Msg("SET_RENDERER_ENABLED", i, b).what = "SET_RENDERER_ENABLED"
    BY DEF Msg, Message
  <2> QED
    BY <1>6, <2>1, <2>2
<1>9. ASSUME NEW p \in BOOLEAN, SetPlayWhenReady(p)
      PROVE  IInv'
  <2> DEFINE m == Msg("SET_PLAY_WHEN_READY", 0, p)
  <2>1. /\ UNCHANGED <<handedOver, held, playWhenReady>> /\ Post(m)
        /\ appPlayWhenReady' = p /\ appPlayWhenReady # p
    BY <1>9 DEF SetPlayWhenReady, internalVars, coreVars
  <2>2. m \in Message /\ m.what = "SET_PLAY_WHEN_READY" /\ m.flag = p
    BY DEF Msg, Message
  <2> HIDE DEF m
  <2>3. QueueInv'
    BY <2>1, <2>2, QueueCall DEF TypeOK
  <2>4. AlternateInv'
    BY <2>1, <2>2, AlternateCall
  <2> QED
    BY <1>1, <1>2, <2>3, <2>4
<1> QED
  BY <1>3, <1>4, <1>5, <1>7, <1>8, <1>9 DEF AppCall, AppReturns

(* A message is served: its handler keeps CoreInv and what it leaves of    *)
(* the queue is as it should be.                                           *)
LEMMA ServeStep ==
  ASSUME IInv, PlaybackTypes', CoreInv', inbox # <<>>, inbox' = Tail(inbox),
         UNCHANGED appVars,
         held' => Prepares(1) \/ (held /\ ~Stops(1)),
         playWhenReady' = IF Sets(1) THEN inbox[1].flag ELSE playWhenReady
  PROVE  IInv'
<1>1. UNCHANGED <<appPc, appPlayWhenReady, appFlags, pendingAcks,
                  playbackState, handedOver, awaited, sent>>
  BY DEF appVars
<1>2. TypeOK'
  BY <1>1 DEF IInv, TypeOK, PlaybackTypes
<1>3. QueueInv'
  BY <1>1, QueueServe DEF IInv
<1>4. AlternateInv'
  BY <1>1, AlternateServe DEF IInv
<1> QED
  BY <1>2, <1>3, <1>4 DEF IInv

(* One of the player's own messages is served, or becomes due.             *)
LEMMA OwnStep ==
  ASSUME IInv, PlaybackTypes', CoreInv', held' => held,
         UNCHANGED <<appVars, inbox, playWhenReady>>
  PROVE  IInv'
<1>1. UNCHANGED <<appPc, appPlayWhenReady, appFlags, pendingAcks,
                  playbackState, handedOver, awaited, sent>>
  BY DEF appVars
<1>2. TypeOK'
  BY <1>1 DEF IInv, TypeOK, PlaybackTypes
<1>3. QueueInv'
  BY <1>1, QueueKept DEF IInv
<1>4. AlternateInv'
  BY <1>1, AlternateKept DEF IInv
<1> QED
  BY <1>2, <1>3, <1>4 DEF IInv

(* The message at the head of the queue, for the handler that receives it. *)
LEMMA Received ==
  ASSUME TypeOK, NEW m, Receive(m)
  PROVE  inbox # <<>> /\ inbox' = Tail(inbox) /\ inbox[1] = m
BY TailQueue DEF Receive

(* An array of renderers is received only when none is held.               *)
LEMMA NothingHeld ==
  ASSUME IInv, PrepareInternal
  PROVE  ~held
<1>1. inbox # <<>> /\ Prepares(1) /\ Len(inbox) \in Nat /\ Len(inbox) > 0
  <2>1. TypeOK /\ Receive(Plain("PREPARE"))
    BY DEF IInv, PrepareInternal
  <2> QED
    BY <2>1, Received, TailQueue DEF Plain, Msg, Prepares
<1>2. PICK occ \in [0..Len(inbox) -> BOOLEAN] : Occupancy(occ)
  BY DEF IInv, QueueInv
<1>3. 1 \in 1..Len(inbox) /\ 1 - 1 = 0
  BY <1>1
<1> QED
  BY <1>1, <1>2, <1>3 DEF Occupancy

LEMMA PlaybackStep ==
  ASSUME IInv, PlaybackThread \/ Timers
  PROVE  IInv'
<1>0. TypeOK /\ CoreInv /\ QueueInv /\ AlternateInv
  BY DEF IInv
<1>1. CASE PrepareInternal
  <2>1. Receive(Plain("PREPARE")) /\ UNCHANGED <<playWhenReady, appVars>>
    BY <1>1 DEF PrepareInternal, Quiet
  <2>2. /\ inbox # <<>> /\ inbox' = Tail(inbox)
        /\ Prepares(1) /\ ~Stops(1) /\ ~Sets(1)
    BY <1>0, <2>1, Received DEF Plain, Msg, Prepares, Stops, Sets
  <2>3. ~held
    BY <1>1, NothingHeld
  <2> QED
    BY <1>0, <1>1, <2>1, <2>2, <2>3, StepPrepare, ServeStep
<1>2. CASE StopInternal \/ ReleaseInternal
  <2>1. UNCHANGED <<playWhenReady, appVars>>
    BY <1>2 DEF StopInternal, ReleaseInternal, Quiet
  <2>2. inbox # <<>> /\ inbox' = Tail(inbox) /\ ~Sets(1)
    BY <1>0, <1>2, Received
    DEF StopInternal, ReleaseInternal, Plain, Msg, Sets
  <2> QED
    BY <1>0, <1>2, <2>1, <2>2, StepStop, ServeStep
<1>3. CASE SeekToInternal
  <2>1. Receive(Plain("SEEK_TO")) /\ UNCHANGED <<playWhenReady, appVars>>
    BY <1>3 DEF SeekToInternal, Quiet
  <2>2. inbox # <<>> /\ inbox' = Tail(inbox) /\ ~Stops(1) /\ ~Sets(1)
    BY <1>0, <2>1, Received DEF Plain, Msg, Stops, Sets
  <2> QED
    BY <1>0, <1>3, <2>1, <2>2, StepSeek, ServeStep
<1>4. CASE SendMessageInternal
  <2>1. Receive(Plain("CUSTOM")) /\ UNCHANGED <<playWhenReady, appVars>>
    BY <1>4 DEF SendMessageInternal, Quiet
  <2>2. inbox # <<>> /\ inbox' = Tail(inbox) /\ ~Stops(1) /\ ~Sets(1)
    BY <1>0, <2>1, Received DEF Plain, Msg, Stops, Sets
  <2> QED
    BY <1>0, <1>4, <2>1, <2>2, StepSendMessage, ServeStep
<1>5. ASSUME NEW i \in Idx, NEW b \in BOOLEAN, SetRendererEnabledInternal(i, b)
      PROVE  IInv'
  <2>1. /\ Receive(Msg("SET_RENDERER_ENABLED", i, b))
        /\ UNCHANGED <<playWhenReady, appVars>>
    BY <1>5 DEF SetRendererEnabledInternal, Quiet
  <2>2. inbox # <<>> /\ inbox' = Tail(inbox) /\ ~Stops(1) /\ ~Sets(1)
    BY <1>0, <2>1, Received DEF Msg, Stops, Sets
  <2> QED
    BY <1>0, <1>5, <2>1, <2>2, StepSetRendererEnabled, ServeStep
<1>6. ASSUME NEW b \in BOOLEAN, SetPlayWhenReadyInternal(b)
      PROVE  IInv'
  <2>1. /\ Receive(Msg("SET_PLAY_WHEN_READY", 0, b))
        /\ playWhenReady' = b /\ UNCHANGED appVars
    BY <1>6 DEF SetPlayWhenReadyInternal, Quiet
  <2>2. /\ inbox # <<>> /\ inbox' = Tail(inbox)
        /\ ~Stops(1) /\ Sets(1) /\ inbox[1].flag = b
    BY <1>0, <2>1, Received DEF Msg, Stops, Sets
  <2>3. b # playWhenReady
    <3>1. PICK val \in [0..Len(inbox) -> BOOLEAN] : Alternation(val)
      BY <1>0 DEF AlternateInv
    <3>2. Len(inbox) \in Nat /\ Len(inbox) > 0
      BY <1>0, <2>2, TailQueue
    <3>3. 1 \in 1..Len(inbox) /\ 1 - 1 = 0
      BY <3>2
    <3> QED
      BY <2>2, <3>1, <3>3 DEF Alternation
  <2> QED
    BY <1>0, <1>6, <2>1, <2>2, <2>3, StepSetPlayWhenReady, ServeStep
<1>7. CASE IncrementalPrepareInternal
  <2>1. UNCHANGED <<appVars, inbox, playWhenReady>>
    BY <1>7 DEF IncrementalPrepareInternal, Quiet
  <2> QED
    BY <1>0, <1>7, <2>1, StepIncrementalPrepare, OwnStep
<1>8. CASE DoSomeWork
  <2>1. UNCHANGED <<appVars, inbox, playWhenReady>>
    BY <1>8 DEF DoSomeWork, Quiet
  <2> QED
    BY <1>0, <1>8, <2>1, StepDoSomeWork, OwnStep
<1>9. CASE Timers
  <2>1. UNCHANGED <<appVars, inbox, playWhenReady>>
    BY <1>9 DEF Timers, WorkTimerFires, PrepTimerFires
  <2> QED
    BY <1>0, <1>9, <2>1, StepTimers, OwnStep
<1> QED
  BY <1>1, <1>2, <1>3, <1>4, <1>5, <1>6, <1>7, <1>8, <1>9 DEF PlaybackThread

LEMMA InitIInv == Init => IInv
<1> SUFFICES ASSUME Init PROVE IInv
  OBVIOUS
<1> USE DEF Init
<1>1. TypeOK
  <2>1. inbox \in Seq(Message) /\ events \in Seq(Event)
    OBVIOUS
  <2>2. rs \in [Idx -> RendererState]
    BY DEF RendererState, RELEASED
  <2>3. state \in PlayerState /\ playbackState \in PlayerState
    BY DEF PlayerState
  <2>4. work \subseteq Int /\ prep \subseteq Int
    OBVIOUS
  <2>5. /\ appPc \in {"run", "blocked", "releasing", "released"}
        /\ appFlags \subseteq Idx
    BY Zenon
  <2>8. /\ appPlayWhenReady \in BOOLEAN /\ handedOver \in BOOLEAN
    BY Zenon
  <2>9. pendingAcks \in Int /\ awaited \in Nat
    OBVIOUS
  <2>6. /\ workTimer \in BOOLEAN /\ prepTimer \in BOOLEAN
        /\ playWhenReady \in BOOLEAN /\ flags \subseteq Idx
        /\ rebuffering \in BOOLEAN /\ held \in BOOLEAN
    OBVIOUS
  <2>7. /\ enabled \subseteq Idx /\ ended \subseteq Idx
        /\ clockRunning \in BOOLEAN /\ sent \in Nat /\ processed \in Nat
        /\ released \in BOOLEAN /\ illegal \in BOOLEAN
    OBVIOUS
  <2> HIDE DEF Init
  <2> QED
    BY <2>1, <2>2, <2>3, <2>4, <2>5, <2>6, <2>7, <2>8, <2>9, Zenon DEF TypeOK
<1>2. CoreInv
  BY DEF CoreInv, NoIllegalTransition, PlaysExactlyWhenPlaying, Playing,
         EnabledAsAsked, NeverStalls, NoStrayWork, PrepareOnce,
         LetGoMeansReleased, Started, RELEASED, STARTED, ENABLED_
<1>3. QueueInv
  <2>1. Occupancy([k \in 0..Len(inbox) |-> FALSE])
    BY DEF Occupancy
  <2> QED
    BY <2>1 DEF QueueInv
<1>4. AlternateInv
  <2>1. Alternation([k \in 0..Len(inbox) |-> FALSE])
    <3> DEFINE a == [k \in 0..Len(inbox) |-> FALSE]
    <3>1. Len(inbox) = 0
      OBVIOUS
    <3>2. a \in [0..Len(inbox) -> BOOLEAN]
      OBVIOUS
    <3>3. a[0] = FALSE /\ a[Len(inbox)] = FALSE
      BY <3>1
    <3> HIDE DEF a
    <3>4. Alternation(a)
      BY <3>1, <3>2, <3>3 DEF Alternation
    <3> QED
      BY <3>4 DEF a
  <2> QED
    BY <2>1 DEF AlternateInv
<1> QED
  BY <1>1, <1>2, <1>3, <1>4 DEF IInv

LEMMA NextIInv == IInv /\ [Next]_vars => IInv'
<1> SUFFICES ASSUME IInv, [Next]_vars PROVE IInv'
  OBVIOUS
<1>1. CASE UNCHANGED vars
  <2>1. /\ UNCHANGED <<selfVars, coreVars, playWhenReady, flags>>
        /\ UNCHANGED <<inbox, handedOver, held, appPlayWhenReady>>
    BY <1>1 DEF vars, appVars, coreVars
  <2>2. CoreInv' /\ QueueInv' /\ AlternateInv'
    BY <2>1, CoreKept, QueueKept, AlternateKept DEF IInv
  <2>3. TypeOK'
    BY <1>1 DEF IInv, TypeOK, vars, appVars, selfVars, coreVars
  <2> QED
    BY <2>2, <2>3 DEF IInv
<1>2. CASE AppCall \/ AppReturns \/ HandleEvent
  BY <1>2, AppStep
<1>3. CASE PlaybackThread \/ Timers
  BY <1>3, PlaybackStep
<1> QED
  BY <1>1, <1>2, <1>3 DEF Next, Finished

-----------------------------------------------------------------------------
(* The results.                                                            *)

(* Every reachable state satisfies the inductive invariant.                *)
THEOREM Invariant == Spec => []IInv
BY InitIInv, NextIInv, PTL DEF Spec

(* The types: every variable of the player stays within its declaration,   *)
(* for any number of renderers and any bounds.                             *)
THEOREM TypeCorrect == Spec => []TypeOK
<1>1. IInv => TypeOK
  BY DEF IInv
<1> QED
  BY <1>1, Invariant, PTL

(* No checkState of the renderers' life cycle ever fails, although any     *)
(* callback may throw at any time and calls pile up in the queue.          *)
THEOREM LifeCycleSafe == Spec => []NoIllegalTransition
<1>1. IInv => NoIllegalTransition
  BY DEF IInv, CoreInv
<1> QED
  BY <1>1, Invariant, PTL

(* The clock and the enabled renderers run exactly while the player is     *)
(* ready and asked to play.                                                *)
THEOREM PlaysOnlyWhenPlaying == Spec => []PlaysExactlyWhenPlaying
<1>1. IInv => PlaysExactlyWhenPlaying
  BY DEF IInv, CoreInv
<1> QED
  BY <1>1, Invariant, PTL

(* The enabled renderers are those the application asked for.              *)
THEOREM EnabledCorrect == Spec => []EnabledAsAsked
<1>1. IInv => EnabledAsAsked
  BY DEF IInv, CoreInv
<1> QED
  BY <1>1, Invariant, PTL

(* The player always has the message that makes it go on, and never one    *)
(* from a session that is over.                                            *)
THEOREM NeverAsleep == Spec => []WorkIsScheduled
<1>1. IInv => WorkIsScheduled
  BY DEF IInv, CoreInv, WorkIsScheduled
<1> QED
  BY <1>1, Invariant, PTL

(* A renderer that does not fail is released once the player lets go of    *)
(* it, whatever the others do.                                             *)
THEOREM NoRendererLeaks == Spec => []LetGoMeansReleased
<1>1. IInv => LetGoMeansReleased
  BY DEF IInv, CoreInv
<1> QED
  BY <1>1, Invariant, PTL

-----------------------------------------------------------------------------
(* What the application sees of the player: the states and errors its      *)
(* listeners are told, and the acknowledgements its calls are given.  IInv *)
(* speaks of the playback thread; ViewInv adds the queue of events between *)
(* the two threads.                                                        *)

(* Told the events ev, an application that shows p ends up showing s, and  *)
(* every state on the way is one the diagram leads to from the one before. *)
Follows(p, ev, s) ==
  /\ LastTold(p, ev, Len(ev), s)
  /\ \A k \in 1..Len(ev) :
       ev[k] \in PlayerState =>
         \E t \in PlayerState :
           LastTold(p, ev, k - 1, t) /\ <<t, ev[k]>> \in View!Diagram

(* An error is told to an idle listener, or IDLE comes right after it.     *)
IdleAfterErrors(p, ev) ==
  \A k \in 1..Len(ev) :
    ev[k] = "ERROR" => \/ LastTold(p, ev, k, "IDLE")
                       \/ k < Len(ev) /\ ev[k + 1] = "IDLE"

(* The acknowledgements in ev, counted on from b, come to n.               *)
Tally(e, ev, b, n) ==
  /\ e[0] = b /\ e[Len(ev)] = n
  /\ \A k \in 1..Len(ev) :
       e[k] = e[k - 1] + (IF ev[k] = "ACK" THEN 1 ELSE 0)
  /\ \A k \in 0..Len(ev) : e[k] <= n
Acknowledges(ev, b, n) == \E e \in [0..Len(ev) -> Int] : Tally(e, ev, b, n)

(* What a handler must keep of the events: they are the story of the state *)
(* s and of the acknowledgements up to n.                                  *)
Tells(b, ev, s, n) ==
  /\ ev \in Seq(Event) /\ s \in PlayerState
  /\ Follows(playbackState, ev, s)
  /\ IdleAfterErrors(playbackState, ev)
  /\ Acknowledges(ev, b, n)

-----------------------------------------------------------------------------
(* Events are appended by the playback thread...                           *)

LEMMA AppendEvent ==
  ASSUME NEW ev \in Seq(Event), NEW x \in Event
  PROVE  /\ Append(ev, x) \in Seq(Event)
         /\ Len(ev) \in Nat /\ Len(Append(ev, x)) = Len(ev) + 1
         /\ \A k \in 1..Len(ev) : Append(ev, x)[k] = ev[k]
         /\ Append(ev, x)[Len(ev) + 1] = x
OBVIOUS

(* What was told by the first events stays as it was.                      *)
LEMMA ToldBefore ==
  ASSUME NEW p, NEW ev \in Seq(Event), NEW x \in Event,
         NEW k \in 0..Len(ev), NEW s, LastTold(p, ev, k, s)
  PROVE  LastTold(p, Append(ev, x), k, s)
<1>1. Len(ev) \in Nat /\ \A j \in 1..Len(ev) : Append(ev, x)[j] = ev[j]
  BY AppendEvent
<1>2. \A j \in 1..k : j \in 1..Len(ev)
  BY <1>1
<1>3. \A j \in 1..k : \A i \in (j + 1)..k : i \in 1..k
  BY <1>1
<1> HIDE DEF Event
<1> QED
  BY <1>1, <1>2, <1>3 DEF LastTold

(* A new state is what is told last; anything else leaves it as it was.    *)
LEMMA ToldNow ==
  ASSUME NEW p, NEW ev \in Seq(Event), NEW x \in Event
  PROVE  /\ x \in PlayerState => LastTold(p, Append(ev, x), Len(ev) + 1, x)
         /\ \A s : x \notin PlayerState /\ LastTold(p, ev, Len(ev), s) =>
                     LastTold(p, Append(ev, x), Len(ev) + 1, s)
<1> DEFINE n == Len(ev)
           ev1 == Append(ev, x)
<1>1. /\ n \in Nat /\ ev1[n + 1] = x
      /\ \A j \in 1..n : ev1[j] = ev[j]
  BY AppendEvent
<1> HIDE DEF n, ev1
<1>2. /\ n + 1 \in 1..(n + 1) /\ (n + 1 + 1)..(n + 1) = {}
      /\ \A j \in 1..(n + 1) : j \in 1..n \/ j = n + 1
      /\ \A j \in 1..n : j \in 1..(n + 1)
  BY <1>1
<1>3. x \in PlayerState => LastTold(p, ev1, n + 1, x)
  BY <1>1, <1>2 DEF LastTold
<1>4. ASSUME NEW s, x \notin PlayerState, LastTold(p, ev, n, s)
      PROVE  LastTold(p, ev1, n + 1, s)
  <2>1. CASE s = p /\ \A j \in 1..n : ev[j] \notin PlayerState
    BY <1>1, <1>2, <1>4, <2>1 DEF LastTold
  <2>2. ASSUME NEW k \in 1..n, ev[k] = s,
               \A j \in (k + 1)..n : ev[j] \notin PlayerState
        PROVE  LastTold(p, ev1, n + 1, s)
    <3>1. \A j \in (k + 1)..(n + 1) : j \in (k + 1)..n \/ j = n + 1
      BY <1>1
    <3>2. \A j \in (k + 1)..n : j \in 1..n
      BY <1>1
    <3>3. \A j \in (k + 1)..(n + 1) : ev1[j] \notin PlayerState
      BY <1>1, <1>4, <2>2, <3>1, <3>2
    <3> QED
      BY <1>1, <1>2, <2>2, <3>3 DEF LastTold
  <2> QED
    BY <1>4, <2>1, <2>2 DEF LastTold
<1> QED
  BY <1>3, <1>4 DEF n, ev1

(* Whatever is appended, what was told follows the diagram up to there.    *)
LEMMA FollowsBefore ==
  ASSUME NEW p, NEW ev \in Seq(Event), NEW x \in Event, NEW s \in PlayerState,
         Follows(p, ev, s)
  PROVE  \A k \in 1..Len(ev) :
           Append(ev, x)[k] \in PlayerState =>
             \E t \in PlayerState :
               /\ LastTold(p, Append(ev, x), k - 1, t)
               /\ <<t, Append(ev, x)[k]>> \in View!Diagram
<1> TAKE k \in 1..Len(ev)
<1> HAVE Append(ev, x)[k] \in PlayerState
<1>1. /\ Len(ev) \in Nat /\ Append(ev, x)[k] = ev[k]
      /\ k - 1 \in 0..Len(ev)
  BY AppendEvent
<1>2. PICK t \in PlayerState :
        LastTold(p, ev, k - 1, t) /\ <<t, ev[k]>> \in View!Diagram
  BY <1>1 DEF Follows
<1>3. LastTold(p, Append(ev, x), k - 1, t)
  BY <1>1, <1>2, ToldBefore
<1> QED
  BY <1>1, <1>2, <1>3

(* A state the diagram leads to is appended.                               *)
LEMMA FollowsState ==
  ASSUME NEW p, NEW ev \in Seq(Event), NEW s \in PlayerState,
         NEW x \in PlayerState, Follows(p, ev, s), <<s, x>> \in View!Diagram
  PROVE  Follows(p, Append(ev, x), x)
<1> DEFINE n == Len(ev)
           ev1 == Append(ev, x)
<1>1. x \in Event
  BY DEF Event
<1>2. n \in Nat /\ Len(ev1) = n + 1 /\ ev1[n + 1] = x
  BY <1>1, AppendEvent
<1>3. LastTold(p, ev1, n + 1, x)
  BY <1>1, ToldNow
<1>4. \A k \in 1..n :
        ev1[k] \in PlayerState =>
          \E t \in PlayerState :
            LastTold(p, ev1, k - 1, t) /\ <<t, ev1[k]>> \in View!Diagram
  BY <1>1, FollowsBefore
<1>5. LastTold(p, ev1, n, s)
  <2>1. LastTold(p, ev, n, s) /\ n \in 0..Len(ev)
    BY <1>2 DEF Follows
  <2> QED
    BY <1>1, <2>1, ToldBefore
<1> HIDE DEF n, ev1
<1>6. (n + 1) - 1 = n /\ \A k \in 1..(n + 1) : k \in 1..n \/ k = n + 1
  BY <1>2
<1> QED
  BY <1>2, <1>3, <1>4, <1>5, <1>6 DEF Follows, ev1

(* Something else is appended.                                             *)
LEMMA FollowsOther ==
  ASSUME NEW p, NEW ev \in Seq(Event), NEW s \in PlayerState,
         NEW x \in {"ACK", "ERROR"}, Follows(p, ev, s)
  PROVE  Follows(p, Append(ev, x), s)
<1> DEFINE n == Len(ev)
           ev1 == Append(ev, x)
<1>1. x \in Event /\ x \notin PlayerState
  BY DEF Event, PlayerState
<1>2. n \in Nat /\ Len(ev1) = n + 1 /\ ev1[n + 1] = x
  BY <1>1, AppendEvent
<1>3. LastTold(p, ev1, n + 1, s)
  BY <1>1, ToldNow DEF Follows
<1>4. \A k \in 1..n :
        ev1[k] \in PlayerState =>
          \E t \in PlayerState :
            LastTold(p, ev1, k - 1, t) /\ <<t, ev1[k]>> \in View!Diagram
  BY <1>1, FollowsBefore
<1> HIDE DEF n, ev1
<1>5. \A k \in 1..(n + 1) : k \in 1..n \/ k = n + 1
  BY <1>2
<1> QED
  BY <1>1, <1>2, <1>3, <1>4, <1>5 DEF Follows, ev1

(* The errors already queued keep the IDLE that follows them.              *)
LEMMA ErrorsBefore ==
  ASSUME NEW p, NEW ev \in Seq(Event), NEW x \in Event, IdleAfterErrors(p, ev)
  PROVE  \A k \in 1..Len(ev) :
           Append(ev, x)[k] = "ERROR" =>
             \/ LastTold(p, Append(ev, x), k, "IDLE")
             \/ k < Len(ev) /\ Append(ev, x)[k + 1] = "IDLE"
<1> TAKE k \in 1..Len(ev)
<1> HAVE Append(ev, x)[k] = "ERROR"
<1>1. /\ Len(ev) \in Nat /\ Append(ev, x)[k] = ev[k] /\ k \in 0..Len(ev)
      /\ k < Len(ev) => Append(ev, x)[k + 1] = ev[k + 1]
  BY AppendEvent
<1>2. CASE LastTold(p, ev, k, "IDLE")
  BY <1>1, <1>2, ToldBefore
<1>3. CASE k < Len(ev) /\ ev[k + 1] = "IDLE"
  BY <1>1, <1>3
<1> QED
  BY <1>1, <1>2, <1>3 DEF IdleAfterErrors

LEMMA ErrorsKept ==
  ASSUME NEW p, NEW ev \in Seq(Event), NEW x \in Event,
         x # "ERROR" \/ LastTold(p, ev, Len(ev), "IDLE"),
         IdleAfterErrors(p, ev)
  PROVE  IdleAfterErrors(p, Append(ev, x))
<1> DEFINE n == Len(ev)
           ev1 == Append(ev, x)
<1>1. n \in Nat /\ Len(ev1) = n + 1 /\ ev1[n + 1] = x
  BY AppendEvent
<1>2. \A k \in 1..n : ev1[k] = "ERROR" =>
        LastTold(p, ev1, k, "IDLE") \/ (k < n /\ ev1[k + 1] = "IDLE")
  BY ErrorsBefore
<1>3. x = "ERROR" => LastTold(p, ev1, n + 1, "IDLE")
  BY ToldNow DEF PlayerState
<1> HIDE DEF n, ev1
<1>4. /\ \A k \in 1..(n + 1) : k \in 1..n \/ k = n + 1
      /\ \A k \in 1..n : k < n + 1
  BY <1>1
<1> QED
  BY <1>1, <1>2, <1>3, <1>4 DEF IdleAfterErrors, ev1

(* An error is followed by IDLE.                                           *)
LEMMA ErrorsThrown ==
  ASSUME NEW p, NEW ev \in Seq(Event), IdleAfterErrors(p, ev)
  PROVE  IdleAfterErrors(p, Append(Append(ev, "ERROR"), "IDLE"))
<1> DEFINE n == Len(ev)
           ev1 == Append(ev, "ERROR")
           ev2 == Append(ev1, "IDLE")
<1>0. "ERROR" \in Event /\ "IDLE" \in Event
  BY DEF Event, PlayerState
<1>1. /\ n \in Nat /\ ev1 \in Seq(Event) /\ Len(ev1) = n + 1
      /\ ev1[n + 1] = "ERROR"
      /\ \A k \in 1..n : ev1[k] = ev[k]
  BY <1>0, AppendEvent
<1>2. /\ Len(ev2) = n + 2
      /\ ev2[n + 2] = "IDLE" /\ \A k \in 1..(n + 1) : ev2[k] = ev1[k]
  BY <1>0, <1>1, AppendEvent
<1>3. \A k \in 1..n : ev1[k] = "ERROR" =>
        LastTold(p, ev1, k, "IDLE") \/ (k < n /\ ev1[k + 1] = "IDLE")
  BY <1>0, ErrorsBefore
<1>4. \A k \in 1..n : LastTold(p, ev1, k, "IDLE") =>
                        LastTold(p, ev2, k, "IDLE")
  <2>1. \A k \in 1..n : k \in 0..Len(ev1)
    BY <1>1
  <2> QED
    BY <1>0, <1>1, <2>1, ToldBefore
<1> HIDE DEF n, ev1, ev2
<1>5. ASSUME NEW k \in 1..(n + 2), ev2[k] = "ERROR"
      PROVE  \/ LastTold(p, ev2, k, "IDLE")
             \/ k < n + 2 /\ ev2[k + 1] = "IDLE"
  <2>1. CASE k \in 1..n
    <3>1. /\ k \in 1..(n + 1) /\ k < n + 2
          /\ k < n => k + 1 \in 1..(n + 1)
      BY <1>1, <2>1
    <3> QED
      BY <1>2, <1>3, <1>4, <1>5, <2>1, <3>1
  <2>2. CASE k = n + 1
    <3>1. k < n + 2 /\ k + 1 = n + 2
      BY <1>1, <2>2
    <3> QED
      BY <1>2, <3>1
  <2>3. k \in 1..n \/ k = n + 1 \/ k = n + 2
    BY <1>1
  <2> QED
    BY <1>2, <1>5, <2>1, <2>2, <2>3
<1> QED
  BY <1>2, <1>5 DEF IdleAfterErrors, ev1, ev2

(* An acknowledgement raises the count, nothing else does.                 *)
LEMMA TallyAppend ==
  ASSUME NEW ev \in Seq(Event), NEW x \in Event, NEW b \in Int, NEW n \in Int,
         Acknowledges(ev, b, n)
  PROVE  Acknowledges(Append(ev, x), b, n + (IF x = "ACK" THEN 1 ELSE 0))
<1> DEFINE l == Len(ev)
           ev1 == Append(ev, x)
           m == n + (IF x = "ACK" THEN 1 ELSE 0)
<1>1. /\ l \in Nat /\ Len(ev1) = l + 1 /\ ev1[l + 1] = x
      /\ \A k \in 1..l : ev1[k] = ev[k]
  BY AppendEvent
<1>2. PICK e \in [0..l -> Int] : Tally(e, ev, b, n)
  BY DEF Acknowledges
<1>3. m \in Int /\ n <= m
  OBVIOUS
<1> DEFINE e1 == [k \in 0..(l + 1) |-> IF k = l + 1 THEN m ELSE e[k]]
<1>4. e1 \in [0..(l + 1) -> Int]
  BY <1>1, <1>2, <1>3
<1>5. e1[l + 1] = m /\ \A k \in 0..l : e1[k] = e[k]
  BY <1>1
<1>6. /\ e[0] = b /\ e[l] = n
      /\ \A k \in 1..l : e[k] = e[k - 1] + (IF ev[k] = "ACK" THEN 1 ELSE 0)
      /\ \A k \in 0..l : e[k] <= n /\ e[k] \in Int
  BY <1>2 DEF Tally
<1> HIDE DEF l, ev1, m, e1
<1>7. /\ \A k \in 1..(l + 1) : k \in 1..l \/ k = l + 1
      /\ \A k \in 0..(l + 1) : k \in 0..l \/ k = l + 1
      /\ \A k \in 1..l : k \in 0..l /\ k - 1 \in 0..l
      /\ 0 \in 0..l /\ l \in 0..l /\ (l + 1) - 1 = l
  BY <1>1
<1>8. \A k \in 1..(l + 1) :
        e1[k] = e1[k - 1] + (IF ev1[k] = "ACK" THEN 1 ELSE 0)
  <2>1. \A k \in 1..l :
          e1[k] = e1[k - 1] + (IF ev1[k] = "ACK" THEN 1 ELSE 0)
    BY <1>1, <1>5, <1>6, <1>7
  <2>2. e1[l + 1] = e1[(l + 1) - 1] + (IF ev1[l + 1] = "ACK" THEN 1 ELSE 0)
    BY <1>1, <1>5, <1>6, <1>7 DEF m
  <2> QED
    BY <1>7, <2>1, <2>2
<1>9. \A k \in 0..(l + 1) : e1[k] <= m
  <2>1. \A k \in 0..l : e1[k] <= m
    BY <1>3, <1>5, <1>6
  <2> QED
    BY <1>3, <1>5, <1>7, <2>1
<1>10. Tally(e1, ev1, b, m)
  BY <1>1, <1>5, <1>6, <1>7, <1>8, <1>9 DEF Tally
<1>11. Acknowledges(ev1, b, m)
  BY <1>1, <1>4, <1>10 DEF Acknowledges
<1> QED
  BY <1>11 DEF ev1, m

-----------------------------------------------------------------------------
(* ... in three ways: a state, an acknowledgement, or an error and IDLE.   *)

(* setState.                                                               *)
LEMMA TellState ==
  ASSUME NEW b \in Int, NEW n \in Int, NEW ev, NEW s, NEW x \in PlayerState,
         Tells(b, ev, s, n), s = x \/ <<s, x>> \in View!Diagram
  PROVE  Tells(b, Reported(ev, s, x), x, n)
<1>1. CASE s = x
  BY <1>1 DEF Reported
<1>2. CASE s # x
  <2>1. /\ ev \in Seq(Event) /\ s \in PlayerState /\ x \in Event
        /\ x # "ACK" /\ x # "ERROR"
        /\ Follows(playbackState, ev, s) /\ IdleAfterErrors(playbackState, ev)
        /\ Acknowledges(ev, b, n)
    BY DEF Tells, Event, PlayerState
  <2>2. Append(ev, x) \in Seq(Event)
    BY <2>1, AppendEvent
  <2>3. Follows(playbackState, Append(ev, x), x)
    BY <1>2, <2>1, FollowsState
  <2>4. IdleAfterErrors(playbackState, Append(ev, x))
    BY <2>1, ErrorsKept
  <2>5. Acknowledges(Append(ev, x), b, n + (IF x = "ACK" THEN 1 ELSE 0))
    BY <2>1, TallyAppend
  <2>6. n + (IF x = "ACK" THEN 1 ELSE 0) = n
    BY <2>1
  <2> QED
    BY <1>2, <2>2, <2>3, <2>4, <2>5, <2>6 DEF Tells, Reported
<1> QED
  BY <1>1, <1>2

(* The finally block of setPlayWhenReadyInternal.                          *)
LEMMA TellAck ==
  ASSUME NEW b \in Int, NEW n \in Int, NEW ev, NEW s, Tells(b, ev, s, n)
  PROVE  Tells(b, Append(ev, "ACK"), s, n + 1)
<1>1. /\ ev \in Seq(Event) /\ s \in PlayerState /\ "ACK" \in Event
      /\ Follows(playbackState, ev, s) /\ IdleAfterErrors(playbackState, ev)
      /\ Acknowledges(ev, b, n)
  BY DEF Tells, Event
<1>2. Append(ev, "ACK") \in Seq(Event)
  BY <1>1, AppendEvent
<1>3. Follows(playbackState, Append(ev, "ACK"), s)
  BY <1>1, FollowsOther
<1>4. IdleAfterErrors(playbackState, Append(ev, "ACK"))
  BY <1>1, ErrorsKept
<1>5. Acknowledges(Append(ev, "ACK"), b,
                   n + (IF "ACK" = "ACK" THEN 1 ELSE 0))
  BY <1>1, TallyAppend
<1> QED
  BY <1>1, <1>2, <1>3, <1>4, <1>5 DEF Tells

(* The catch blocks of handleMessage: an error, and the reset after it.    *)
LEMMA TellError ==
  ASSUME NEW b \in Int, NEW n \in Int, NEW ev, NEW s, Tells(b, ev, s, n)
  PROVE  Tells(b, Reported(Append(ev, "ERROR"), s, "IDLE"), "IDLE", n)
<1> DEFINE ev1 == Append(ev, "ERROR")
           ev2 == Append(ev1, "IDLE")
<1>1. /\ ev \in Seq(Event) /\ s \in PlayerState
      /\ "ERROR" \in Event /\ "IDLE" \in Event /\ "IDLE" \in PlayerState
      /\ Follows(playbackState, ev, s) /\ IdleAfterErrors(playbackState, ev)
      /\ Acknowledges(ev, b, n)
  BY DEF Tells, Event, PlayerState
<1>2. ev1 \in Seq(Event) /\ Follows(playbackState, ev1, s)
  BY <1>1, AppendEvent, FollowsOther
<1>3. Acknowledges(ev1, b, n)
  <2>1. Acknowledges(ev1, b, n + (IF "ERROR" = "ACK" THEN 1 ELSE 0))
    BY <1>1, TallyAppend
  <2> QED
    BY <2>1
<1>4. CASE s = "IDLE"
  <2>1. LastTold(playbackState, ev, Len(ev), "IDLE")
    BY <1>1, <1>4 DEF Follows
  <2>2. IdleAfterErrors(playbackState, ev1)
    BY <1>1, <2>1, ErrorsKept
  <2> QED
    BY <1>1, <1>2, <1>3, <1>4, <2>2 DEF Tells, Reported
<1>5. CASE s # "IDLE"
  <2>1. <<s, "IDLE">> \in View!Diagram
    BY <1>1, <1>5 DEF View!Diagram, PlayerState
  <2>2. ev2 \in Seq(Event) /\ Follows(playbackState, ev2, "IDLE")
    BY <1>1, <1>2, <2>1, AppendEvent, FollowsState
  <2>3. IdleAfterErrors(playbackState, ev2)
    BY <1>1, ErrorsThrown
  <2>4. Acknowledges(ev2, b, n)
    <3>1. Acknowledges(ev2, b, n + (IF "IDLE" = "ACK" THEN 1 ELSE 0))
      BY <1>1, <1>2, <1>3, TallyAppend
    <3> QED
      BY <3>1
  <2> QED
    BY <1>1, <1>5, <2>2, <2>3, <2>4 DEF Tells, Reported
<1> QED
  BY <1>4, <1>5

LEMMA TellThrow ==
  ASSUME NEW b \in Int, NEW n \in Int, NEW r, NEW t, NEW ev, NEW s,
         Tells(b, ev, s, n), Throws(r, t, s, ev)
  PROVE  Tells(b, events', state', n)
<1>1. state' = "IDLE" /\ events' = Reported(Append(ev, "ERROR"), s, "IDLE")
  BY DEF Throws, Reset
<1> QED
  BY <1>1, TellError

(* resetInternal tells that the player is idle now, if it was not before.  *)
LEMMA TellReset ==
  ASSUME CoreInv, NEW b \in Int, NEW n \in Int, Tells(b, events, state, n)
  PROVE  /\ ResetInternal(events) => Tells(b, events', state', n)
         /\ ResetInternal(Append(events, "ERROR")) =>
              Tells(b, events', state', n)
<1>1. "IDLE" \in PlayerState /\ state \in PlayerState
      /\ (state = "IDLE" \/ <<state, "IDLE">> \in View!Diagram)
  BY DEF Tells, View!Diagram, PlayerState
<1>2. ASSUME ResetInternal(events) PROVE Tells(b, events', state', n)
  <2>1. CASE held
    <3>1. state' = "IDLE" /\ events' = Reported(events, state, "IDLE")
      BY <1>2, <2>1 DEF ResetInternal, Reset
    <3> QED
      BY <1>1, <3>1, TellState
  <2>2. CASE ~held
    BY <1>2, <2>2 DEF ResetInternal, ResetIdle
  <2> QED
    BY <2>1, <2>2
<1>3. ASSUME ResetInternal(Append(events, "ERROR"))
      PROVE  Tells(b, events', state', n)
  <2>1. CASE held
    <3>1. /\ state' = "IDLE"
          /\ events' = Reported(Append(events, "ERROR"), state, "IDLE")
      BY <1>3, <2>1 DEF ResetInternal, Reset
    <3> QED
      BY <3>1, TellError
  <2>2. CASE ~held
    <3>1. state' = "IDLE" /\ state = "IDLE"
          /\ events' = Append(events, "ERROR")
      BY <1>3, <2>2 DEF ResetInternal, ResetIdle, CoreInv
    <3>2. Reported(Append(events, "ERROR"), state, "IDLE")
            = Append(events, "ERROR")
      BY <3>1 DEF Reported
    <3>3. Tells(b, Reported(Append(events, "ERROR"), state, "IDLE"), "IDLE", n)
      BY TellError
    <3> QED
      BY <3>1, <3>2, <3>3
  <2> QED
    BY <2>1, <2>2
<1> QED
  BY <1>2, <1>3

-----------------------------------------------------------------------------
(* What each handler tells.                                                *)

LEMMA TellPrepare ==
  ASSUME TypeOK, CoreInv, ~held, PrepareInternal, NEW b \in Int, NEW n \in Int,
         Tells(b, events, state, n)
  PROVE  Tells(b, events', state', n)
<1>1. /\ state = "IDLE" /\ state' = "PREPARING"
      /\ events' = Reported(events, state, "PREPARING")
  BY DEF PrepareInternal, CoreInv
<1>2. "PREPARING" \in PlayerState /\ <<state, "PREPARING">> \in View!Diagram
  BY <1>1 DEF PlayerState, View!Diagram
<1> QED
  BY <1>1, <1>2, TellState

LEMMA TellSeek ==
  ASSUME TypeOK, CoreInv, SeekToInternal, NEW b \in Int, NEW n \in Int,
         Tells(b, events, state, n)
  PROVE  Tells(b, events', state', n)
<1>1. CASE UNCHANGED <<state, events>>
  BY <1>1
<1>2. CASE /\ Started(state) /\ state' = "BUFFERING"
           /\ events' = Reported(events, state, "BUFFERING")
  <2>1. /\ "BUFFERING" \in PlayerState
        /\ state = "BUFFERING" \/ <<state, "BUFFERING">> \in View!Diagram
    BY <1>2 DEF PlayerState, View!Diagram, Started
  <2> QED
    BY <1>2, <2>1, TellState
<1>3. CASE Throws(rs, Stopped(rs, enabled), state, events)
  BY <1>3, TellThrow
<1> QED
  BY <1>1, <1>2, <1>3 DEF SeekToInternal

LEMMA TellSetPlayWhenReady ==
  ASSUME TypeOK, CoreInv, NEW p \in BOOLEAN, SetPlayWhenReadyInternal(p),
         NEW b \in Int, NEW n \in Int, Tells(b, events, state, n)
  PROVE  Tells(b, events', state', n + 1)
<1>1. Tells(b, Acked, state, n + 1)
  BY TellAck DEF Acked
<1>2. CASE events' = Acked /\ state' = state
  BY <1>1, <1>2
<1>3. ASSUME NEW r, NEW t, Throws(r, t, state, Acked)
      PROVE  Tells(b, events', state', n + 1)
  <2>1. n + 1 \in Int
    OBVIOUS
  <2> QED
    BY <1>1, <1>3, <2>1, TellThrow
<1> QED
  BY <1>2, <1>3 DEF SetPlayWhenReadyInternal, StartThrows, coreVars

LEMMA TellSendMessage ==
  ASSUME TypeOK, CoreInv, SendMessageInternal, NEW b \in Int, NEW n \in Int,
         Tells(b, events, state, n)
  PROVE  Tells(b, events', state', n)
<1>1. CASE UNCHANGED <<coreVars, events, rebuffering>>
  BY <1>1 DEF coreVars
<1>2. CASE ResetInternal(Append(events, "ERROR"))
  BY <1>2, TellReset
<1> QED
  BY <1>1, <1>2 DEF SendMessageInternal

LEMMA TellSetRendererEnabled ==
  ASSUME TypeOK, CoreInv, NEW i \in Idx, NEW c \in BOOLEAN,
         SetRendererEnabledInternal(i, c),
         NEW b \in Int, NEW n \in Int, Tells(b, events, state, n)
  PROVE  Tells(b, events', state', n)
<1>1. CASE UNCHANGED <<state, events>>
  BY <1>1
<1>2. ASSUME NEW r, Throws(r, r, state, events)
      PROVE  Tells(b, events', state', n)
  BY <1>2, TellThrow
<1>3. EnableInternal(i) => \/ UNCHANGED <<state, events>>
                           \/ \E r : Throws(r, r, state, events)
  BY DEF EnableInternal
<1>4. DisableInternal(i) => \/ UNCHANGED <<state, events>>
                            \/ \E r : Throws(r, r, state, events)
  BY DEF DisableInternal
<1> QED
  BY <1>1, <1>2, <1>3, <1>4 DEF SetRendererEnabledInternal, coreVars

LEMMA TellIncrementalPrepare ==
  ASSUME TypeOK, CoreInv, IncrementalPrepareInternal,
         NEW b \in Int, NEW n \in Int, Tells(b, events, state, n)
  PROVE  Tells(b, events', state', n)
<1>1. state = "PREPARING"
  BY DEF IncrementalPrepareInternal, CoreInv, NoStrayWork
<1>2. CASE UNCHANGED <<state, events>>
  BY <1>2
<1>3. ASSUME NEW r, NEW t, Throws(r, t, state, events)
      PROVE  Tells(b, events', state', n)
  BY <1>3, TellThrow
<1>4. ASSUME NEW p, FinishPrepare(p) PROVE Tells(b, events', state', n)
  <2>1. ASSUME NEW s \in {"ENDED", "READY", "BUFFERING"}
        PROVE  Tells(b, Reported(events, state, s), s, n)
    <3>1. s \in PlayerState /\ <<state, s>> \in View!Diagram
      BY <1>1 DEF PlayerState, View!Diagram
    <3> QED
      BY <3>1, TellState
  <2>2. PICK s \in {"ENDED", "READY", "BUFFERING"} :
          \/ state' = s /\ events' = Reported(events, state, s)
          \/ \E r, t : Throws(r, t, s, Reported(events, state, s))
          \/ \E r, t : Throws(r, t, state, events)
    <3> DEFINE result(ch, e, ready) == IF ch \subseteq e THEN "ENDED"
                                       ELSE IF ready THEN "READY"
                                       ELSE "BUFFERING"
    <3>1. PICK e, ready :
            LET s == result(Chosen(p), e, ready)
            IN  \/ state' = s /\ events' = Reported(events, state, s)
                \/ \E r, t : Throws(r, t, s, Reported(events, state, s))
                \/ \E r, t : Throws(r, t, state, events)
      BY <1>4 DEF FinishPrepare, StartThrows
    <3>2. result(Chosen(p), e, ready) \in {"ENDED", "READY", "BUFFERING"}
      OBVIOUS
    <3> QED
      BY <3>1, <3>2
  <2> QED
    BY <1>3, <2>1, <2>2, TellThrow
<1> QED
  BY <1>2, <1>3, <1>4 DEF IncrementalPrepareInternal

LEMMA TellDoSomeWork ==
  ASSUME TypeOK, CoreInv, DoSomeWork,
         NEW b \in Int, NEW n \in Int, Tells(b, events, state, n)
  PROVE  Tells(b, events', state', n)
<1>1. Started(state)
  BY DEF DoSomeWork, CoreInv, NoStrayWork
<1>2. PICK e :
        \/ WorkEnds(e)
        \/ state = "BUFFERING" /\ WorkGetsReady(e)
        \/ state = "READY" /\ WorkRebuffers(e)
        \/ WorkGoesOn(e)
        \/ Throws(rs, rs, state, events)
  BY DEF DoSomeWork
<1>3. ASSUME NEW s \in PlayerState, s = state \/ <<state, s>> \in View!Diagram,
             \/ state' = s /\ events' = Reported(events, state, s)
             \/ \E r, t : Throws(r, t, s, Reported(events, state, s))
      PROVE  Tells(b, events', state', n)
  <2>1. Tells(b, Reported(events, state, s), s, n)
    BY <1>3, TellState
  <2> QED
    BY <1>3, <2>1, TellThrow
<1>4. CASE WorkEnds(e)
  <2>1. /\ "ENDED" \in PlayerState
        /\ state = "ENDED" \/ <<state, "ENDED">> \in View!Diagram
    BY <1>1 DEF PlayerState, View!Diagram, Started
  <2>2. \/ state' = "ENDED" /\ events' = Reported(events, state, "ENDED")
        \/ \E r, t : Throws(r, t, "ENDED", Reported(events, state, "ENDED"))
    BY <1>4 DEF WorkEnds
  <2> QED
    BY <1>3, <2>1, <2>2
<1>5. CASE state = "BUFFERING" /\ WorkGetsReady(e)
  <2>1. "READY" \in PlayerState /\ <<state, "READY">> \in View!Diagram
    BY <1>5 DEF PlayerState, View!Diagram
  <2>2. \/ state' = "READY" /\ events' = Reported(events, state, "READY")
        \/ \E r, t : Throws(r, t, "READY", Reported(events, state, "READY"))
    BY <1>5 DEF WorkGetsReady, StartThrows
  <2> QED
    BY <1>3, <2>1, <2>2
<1>6. CASE state = "READY" /\ WorkRebuffers(e)
  <2>1. "BUFFERING" \in PlayerState /\ <<state, "BUFFERING">> \in View!Diagram
    BY <1>6 DEF PlayerState, View!Diagram
  <2>2. \/ state' = "BUFFERING"
           /\ events' = Reported(events, state, "BUFFERING")
        \/ \E r, t :
             Throws(r, t, "BUFFERING", Reported(events, state, "BUFFERING"))
    BY <1>6 DEF WorkRebuffers
  <2> QED
    BY <1>3, <2>1, <2>2
<1>7. CASE WorkGoesOn(e)
  BY <1>7 DEF WorkGoesOn
<1>8. CASE Throws(rs, rs, state, events)
  BY <1>8, TellThrow
<1> QED
  BY <1>2, <1>4, <1>5, <1>6, <1>7, <1>8

-----------------------------------------------------------------------------
(* ... and handled by the application thread, oldest first.                *)

LEMMA TailEvents ==
  ASSUME NEW ev \in Seq(Event), ev # <<>>
  PROVE  /\ Tail(ev) \in Seq(Event)
         /\ Len(ev) \in Nat /\ Len(ev) > 0 /\ Len(Tail(ev)) = Len(ev) - 1
         /\ \A k \in 1..(Len(ev) - 1) : Tail(ev)[k] = ev[k + 1]
         /\ Head(ev) = ev[1] /\ ev[1] \in Event
OBVIOUS

(* What the first event shows is where the story goes on from.             *)
LEMMA ToldAfter ==
  ASSUME NEW p, NEW ev \in Seq(Event), ev # <<>>, NEW k \in 0..(Len(ev) - 1),
         NEW s \in PlayerState, LastTold(p, ev, k + 1, s)
  PROVE  LastTold(IF ev[1] \in PlayerState THEN ev[1] ELSE p, Tail(ev), k, s)
<1> DEFINE n == Len(ev)
           ev1 == Tail(ev)
           q == IF ev[1] \in PlayerState THEN ev[1] ELSE p
<1>1. /\ n \in Nat /\ n > 0
      /\ \A j \in 1..(n - 1) : ev1[j] = ev[j + 1]
  BY TailEvents
<1> HIDE DEF n, ev1, q
<1>2. \A j \in 1..k : j \in 1..(n - 1) /\ j + 1 \in 1..(k + 1)
  BY <1>1 DEF n
<1>3. 1 \in 1..(k + 1)
  BY <1>1 DEF n
<1>4. CASE s = p /\ \A j \in 1..(k + 1) : ev[j] \notin PlayerState
  <2>1. q = p
    BY <1>3, <1>4 DEF q
  <2>2. \A j \in 1..k : ev1[j] \notin PlayerState
    BY <1>1, <1>2, <1>4
  <2> QED
    BY <1>4, <2>1, <2>2 DEF LastTold, ev1, q
<1>5. ASSUME NEW i \in 1..(k + 1), ev[i] = s,
             \A j \in (i + 1)..(k + 1) : ev[j] \notin PlayerState
      PROVE  LastTold(q, ev1, k, s)
  <2>1. CASE i = 1
    <3>1. \A j \in 1..k : j + 1 \in (i + 1)..(k + 1)
      BY <2>1 DEF n
    <3>2. \A j \in 1..k : ev1[j] \notin PlayerState
      BY <1>1, <1>2, <1>5, <3>1
    <3>3. q = s
      BY <1>5, <2>1 DEF q
    <3> QED
      BY <3>2, <3>3 DEF LastTold
  <2>2. CASE i # 1
    <3>1. i - 1 \in 1..k /\ (i - 1) + 1 = i
      BY <2>2
    <3>2. \A j \in i..k : j \in 1..k /\ j + 1 \in (i + 1)..(k + 1)
      BY <1>3
    <3>3. \A j \in ((i - 1) + 1)..k : ev1[j] \notin PlayerState
      BY <1>1, <1>2, <1>5, <3>1, <3>2
    <3>4. ev1[i - 1] = s
      BY <1>1, <1>2, <1>5, <3>1
    <3> QED
      BY <3>1, <3>3, <3>4 DEF LastTold
  <2> QED
    BY <2>1, <2>2
<1> QED
  BY <1>4, <1>5 DEF LastTold, ev1, q

LEMMA TellTail ==
  ASSUME NEW p, NEW q, NEW ev \in Seq(Event), NEW s \in PlayerState,
         ev # <<>>, q = IF ev[1] \in PlayerState THEN ev[1] ELSE p
  PROVE  /\ Follows(p, ev, s) => Follows(q, Tail(ev), s)
         /\ IdleAfterErrors(p, ev) => IdleAfterErrors(q, Tail(ev))
<1> DEFINE n == Len(ev)
           ev1 == Tail(ev)
<1>1. /\ n \in Nat /\ n > 0 /\ Len(ev1) = n - 1
      /\ \A k \in 1..(n - 1) : ev1[k] = ev[k + 1]
  BY TailEvents
<1>2. \A k \in 0..(n - 1), t \in PlayerState :
        LastTold(p, ev, k + 1, t) => LastTold(q, ev1, k, t)
  BY ToldAfter
<1> HIDE DEF n, ev1
<1>3. \A k \in 1..(n - 1) :
        /\ k \in 0..(n - 1) /\ k + 1 \in 1..n
        /\ k - 1 \in 0..(n - 1) /\ (k - 1) + 1 = k /\ (k + 1) - 1 = k
        /\ k + 1 < n => k < n - 1 /\ k + 1 \in 1..(n - 1)
  BY <1>1
<1>4. n - 1 \in 0..(n - 1) /\ (n - 1) + 1 = n
  BY <1>1
<1>5. ASSUME Follows(p, ev, s) PROVE Follows(q, ev1, s)
  <2>1. LastTold(q, ev1, n - 1, s)
    BY <1>2, <1>4, <1>5 DEF Follows, n
  <2>2. ASSUME NEW k \in 1..(n - 1), ev1[k] \in PlayerState
        PROVE  \E t \in PlayerState :
                 LastTold(q, ev1, k - 1, t) /\ <<t, ev1[k]>> \in View!Diagram
    <3>1. PICK t \in PlayerState :
            LastTold(p, ev, k, t) /\ <<t, ev[k + 1]>> \in View!Diagram
      BY <1>1, <1>3, <1>5, <2>2 DEF Follows, n
    <3>2. LastTold(q, ev1, k - 1, t)
      BY <1>2, <1>3, <3>1
    <3> QED
      BY <1>1, <3>1, <3>2
  <2> QED
    BY <1>1, <2>1, <2>2 DEF Follows
<1>6. ASSUME IdleAfterErrors(p, ev) PROVE IdleAfterErrors(q, ev1)
  <2>1. "IDLE" \in PlayerState
    BY DEF PlayerState
  <2>2. ASSUME NEW k \in 1..(n - 1), ev1[k] = "ERROR"
        PROVE  LastTold(q, ev1, k, "IDLE") \/ (k < n - 1 /\ ev1[k + 1] = "IDLE")
    <3>1. \/ LastTold(p, ev, k + 1, "IDLE")
          \/ k + 1 < n /\ ev[(k + 1) + 1] = "IDLE"
      BY <1>1, <1>3, <1>6, <2>2 DEF IdleAfterErrors, n
    <3> QED
      BY <1>1, <1>2, <1>3, <2>1, <3>1
  <2> QED
    BY <1>1, <2>2 DEF IdleAfterErrors
<1> QED
  BY <1>5, <1>6 DEF ev1

(* An acknowledgement handled is counted from then on.                     *)
LEMMA TallyTail ==
  ASSUME NEW ev \in Seq(Event), ev # <<>>, NEW b \in Int, NEW n \in Int,
         Acknowledges(ev, b, n)
  PROVE  Acknowledges(Tail(ev), b + (IF ev[1] = "ACK" THEN 1 ELSE 0), n)
<1> DEFINE l == Len(ev)
           ev1 == Tail(ev)
           c == b + (IF ev[1] = "ACK" THEN 1 ELSE 0)
<1>1. /\ l \in Nat /\ l > 0 /\ Len(ev1) = l - 1
      /\ \A k \in 1..(l - 1) : ev1[k] = ev[k + 1]
  BY TailEvents
<1>2. PICK e \in [0..l -> Int] : Tally(e, ev, b, n)
  BY DEF Acknowledges
<1> DEFINE e1 == [k \in 0..(l - 1) |-> e[k + 1]]
<1>3. e1 \in [0..(l - 1) -> Int]
  BY <1>1, <1>2
<1>4. \A k \in 0..(l - 1) : e1[k] = e[k + 1]
  BY <1>1
<1>5. /\ e[0] = b /\ e[l] = n
      /\ \A k \in 1..l : e[k] = e[k - 1] + (IF ev[k] = "ACK" THEN 1 ELSE 0)
      /\ \A k \in 0..l : e[k] <= n
  BY <1>2 DEF Tally
<1> HIDE DEF l, ev1, e1
<1>6. /\ 1 \in 1..l /\ 0 \in 0..(l - 1) /\ 1 - 1 = 0 /\ 0 + 1 = 1
      /\ l - 1 \in 0..(l - 1) /\ (l - 1) + 1 = l
      /\ \A k \in 1..(l - 1) :
           /\ k \in 0..(l - 1) /\ k - 1 \in 0..(l - 1)
           /\ k + 1 \in 1..l /\ (k + 1) - 1 = k /\ (k - 1) + 1 = k
      /\ \A k \in 0..(l - 1) : k + 1 \in 0..l
  BY <1>1
<1>7. e1[0] = c
  BY <1>4, <1>5, <1>6
<1>8. e1[l - 1] = n
  BY <1>4, <1>5, <1>6
<1>9. \A k \in 1..(l - 1) :
        e1[k] = e1[k - 1] + (IF ev1[k] = "ACK" THEN 1 ELSE 0)
  <2> TAKE k \in 1..(l - 1)
  <2>1. e[k + 1] = e[(k + 1) - 1] + (IF ev[k + 1] = "ACK" THEN 1 ELSE 0)
    BY <1>5, <1>6
  <2>2. e1[k] = e[k + 1] /\ e1[k - 1] = e[k] /\ ev1[k] = ev[k + 1]
    BY <1>1, <1>4, <1>6
  <2> QED
    BY <1>6, <2>1, <2>2
<1>10. \A k \in 0..(l - 1) : e1[k] <= n
  BY <1>4, <1>5, <1>6
<1> HIDE DEF c
<1>11. Tally(e1, ev1, c, n)
  BY <1>1, <1>7, <1>8, <1>9, <1>10 DEF Tally
<1>12. Acknowledges(ev1, c, n)
  BY <1>1, <1>3, <1>11 DEF Acknowledges
<1> QED
  BY <1>12 DEF ev1, c

-----------------------------------------------------------------------------
(* The inductive invariant, on top of IInv.                                *)

(* The queued events are the story of the playback thread's state, until   *)
(* release() drops them.                                                   *)
StoryInv ==
  appPc # "released" =>
    /\ Follows(playbackState, events, state)
    /\ IdleAfterErrors(playbackState, events)

(* Each change of playWhenReady on its way to the playback thread, and     *)
(* each acknowledgement on its way back, is one the application waits for. *)
(* c[k] counts those of the first k messages, on from the events.          *)
Owed(c) ==
  /\ \A k \in 1..Len(inbox) : c[k] = c[k - 1] + (IF Sets(k) THEN 1 ELSE 0)
  /\ \A j, k \in 0..Len(inbox) : j <= k => c[j] <= c[k]
AckInv ==
  \E b \in Int : \E c \in [0..Len(inbox) -> Int] :
    /\ Owed(c) /\ Acknowledges(events, b, c[0])
    /\ c[Len(inbox)] <= pendingAcks + b

(* RELEASE is the last message, and after it the player is idle for good.  *)
QuitInv ==
  /\ \A k \in 1..Len(inbox) :
       inbox[k].what = "RELEASE" => k = Len(inbox) /\ appPc = "releasing"
  /\ released => /\ appPc \in {"releasing", "released"}
                 /\ inbox = <<>> /\ state = "IDLE"
  /\ appPc = "released" => released /\ events = <<>>

ViewInv == StoryInv /\ AckInv /\ QuitInv /\ RebufferingMeansDepleted

-----------------------------------------------------------------------------
(* Acknowledgements.                                                       *)

(* A call posts a message; setPlayWhenReady waits for one more.            *)
LEMMA AckCall ==
  ASSUME TypeOK, AckInv, NEW m \in Message, Post(m), events' = events,
         pendingAcks' = pendingAcks
           + (IF m.what = "SET_PLAY_WHEN_READY" THEN 1 ELSE 0)
  PROVE  AckInv'
<1>0. PICK n \in Nat : n = Len(inbox)
  BY DEF TypeOK
<1> DEFINE d == IF m.what = "SET_PLAY_WHEN_READY" THEN 1 ELSE 0
<1>1. /\ Len(inbox') = n + 1
      /\ \A k \in 1..n : inbox'[k] = inbox[k]
      /\ inbox'[n + 1] = m
  BY <1>0, AppendQueue
<1>2. PICK b \in Int, c \in [0..n -> Int] :
        /\ Owed(c) /\ Acknowledges(events, b, c[0])
        /\ c[n] <= pendingAcks + b
  BY <1>0 DEF AckInv
<1>3. d \in {0, 1} /\ c[n] + d \in Int
  BY <1>1, <1>2
<1>4. PICK c1 \in [0..(n + 1) -> Int] :
        c1[n + 1] = c[n] + d /\ \A k \in 0..n : c1[k] = c[k]
  <2> DEFINE f == [k \in 0..(n + 1) |-> IF k = n + 1 THEN c[n] + d ELSE c[k]]
  <2>1. f \in [0..(n + 1) -> Int]
    BY <1>2, <1>3
  <2>2. f[n + 1] = c[n] + d /\ \A k \in 0..n : f[k] = c[k]
    OBVIOUS
  <2> QED
    BY <2>1, <2>2
<1>5. (\A k \in 1..n : Sets(k)' <=> Sets(k))
      /\ (Sets(n + 1)' <=> m.what = "SET_PLAY_WHEN_READY")
  BY <1>1 DEF Sets
<1>6. /\ \A k \in 1..(n + 1) : k \in 1..n \/ k = n + 1
      /\ \A k \in 0..(n + 1) : k \in 0..n \/ k = n + 1
      /\ \A k \in 1..n : k \in 0..n /\ k - 1 \in 0..n
      /\ n \in 0..n /\ 0 \in 0..n /\ (n + 1) - 1 = n
      /\ \A k \in 0..n : k <= n /\ ~(n + 1 <= k)
  BY <1>1
<1>7. \A k \in 1..(n + 1) :
        c1[k] = c1[k - 1] + (IF Sets(k)' THEN 1 ELSE 0)
  <2>1. \A k \in 1..n : c1[k] = c1[k - 1] + (IF Sets(k)' THEN 1 ELSE 0)
    BY <1>0, <1>2, <1>4, <1>5, <1>6 DEF Owed
  <2>2. c1[n + 1] = c1[(n + 1) - 1] + (IF Sets(n + 1)' THEN 1 ELSE 0)
    BY <1>4, <1>5, <1>6
  <2> QED
    BY <1>6, <2>1, <2>2
<1>8. \A j, k \in 0..(n + 1) : j <= k => c1[j] <= c1[k]
  <2>1. \A j, k \in 0..n : j <= k => c1[j] <= c1[k]
    BY <1>0, <1>2, <1>4 DEF Owed
  <2>2. \A j \in 0..n : c1[j] <= c1[n + 1]
    <3>1. \A j \in 0..n : c[j] <= c[n] /\ c[j] \in Int /\ c[n] \in Int
      BY <1>0, <1>2, <1>6 DEF Owed
    <3>2. \A x, y \in Int : x <= y => x <= y + d
      BY <1>3
    <3> QED
      BY <1>4, <3>1, <3>2
  <2>3. c1[n + 1] <= c1[n + 1]
    BY <1>3, <1>4
  <2> QED
    BY <1>6, <2>1, <2>2, <2>3
<1>9. Owed(c1)'
  BY <1>1, <1>7, <1>8 DEF Owed
<1>10. Acknowledges(events', b, c1[0])
  BY <1>2, <1>4, <1>6
<1>11. c1[Len(inbox')] <= pendingAcks' + b
  <2>1. c1[Len(inbox')] = c[n] + d /\ pendingAcks' = pendingAcks + d
    BY <1>1, <1>4
  <2>2. c[n] \in Int /\ pendingAcks \in Int
    BY <1>2, <1>6 DEF TypeOK
  <2> HIDE DEF d
  <2> QED
    BY <1>0, <1>2, <1>3, <2>1, <2>2
<1> QED
  BY <1>1, <1>4, <1>9, <1>10, <1>11 DEF AckInv

(* Serving a message: an acknowledgement takes the place of the change.    *)
LEMMA AckServe ==
  ASSUME TypeOK, AckInv, inbox # <<>>, inbox' = Tail(inbox),
         pendingAcks' = pendingAcks,
         \A b, n \in Int :
           Acknowledges(events, b, n) =>
             Acknowledges(events', b, n + (IF Sets(1) THEN 1 ELSE 0))
  PROVE  AckInv'
<1>0. PICK n \in Nat : n = Len(inbox)
  BY DEF TypeOK
<1>1. /\ n > 0 /\ Len(inbox') = n - 1
      /\ \A k \in 1..(n - 1) : inbox'[k] = inbox[k + 1]
  BY <1>0, TailQueue
<1>2. PICK b \in Int, c \in [0..n -> Int] :
        /\ Owed(c) /\ Acknowledges(events, b, c[0])
        /\ c[n] <= pendingAcks + b
  BY <1>0 DEF AckInv
<1>4. PICK c1 \in [0..(n - 1) -> Int] :
        \A k \in 0..(n - 1) : c1[k] = c[k + 1]
  <2> DEFINE f == [k \in 0..(n - 1) |-> c[k + 1]]
  <2>1. f \in [0..(n - 1) -> Int]
    BY <1>1, <1>2
  <2> QED
    BY <2>1
<1>5. \A k \in 1..(n - 1) : Sets(k)' <=> Sets(k + 1)
  BY <1>1 DEF Sets
<1>6. /\ 1 \in 1..n /\ 0 \in 0..n /\ 0 \in 0..(n - 1)
      /\ 1 - 1 = 0 /\ 0 + 1 = 1
      /\ n - 1 \in 0..(n - 1) /\ (n - 1) + 1 = n
      /\ \A k \in 1..(n - 1) :
           /\ k \in 0..(n - 1) /\ k - 1 \in 0..(n - 1)
           /\ k + 1 \in 1..n /\ (k + 1) - 1 = k /\ (k - 1) + 1 = k
      /\ \A k \in 0..(n - 1) : k + 1 \in 0..n
  BY <1>1
<1>7. \A k \in 1..(n - 1) :
        c1[k] = c1[k - 1] + (IF Sets(k)' THEN 1 ELSE 0)
  <2> TAKE k \in 1..(n - 1)
  <2>1. c[k + 1] = c[(k + 1) - 1] + (IF Sets(k + 1) THEN 1 ELSE 0)
    BY <1>0, <1>2, <1>6 DEF Owed
  <2> QED
    BY <1>4, <1>5, <1>6, <2>1
<1>8. \A j, k \in 0..(n - 1) : j <= k => c1[j] <= c1[k]
  <2> TAKE j, k \in 0..(n - 1)
  <2>1. j <= k => j + 1 <= k + 1
    BY <1>1
  <2> QED
    BY <1>0, <1>2, <1>4, <1>6, <2>1 DEF Owed
<1>9. Owed(c1)'
  BY <1>1, <1>7, <1>8 DEF Owed
<1>10. Acknowledges(events', b, c1[0])
  <2>1. c1[0] = c[0] + (IF Sets(1) THEN 1 ELSE 0) /\ c[0] \in Int
    BY <1>0, <1>2, <1>4, <1>6 DEF Owed
  <2> QED
    BY <1>2, <2>1
<1>11. c1[Len(inbox')] <= pendingAcks' + b
  BY <1>1, <1>2, <1>4, <1>6
<1> QED
  BY <1>1, <1>4, <1>9, <1>10, <1>11 DEF AckInv

(* No message comes or goes: what leaves the events is no longer awaited.  *)
LEMMA AckKept ==
  ASSUME TypeOK, AckInv, inbox' = inbox,
         \A b, n \in Int :
           Acknowledges(events, b, n) =>
             \E b1 \in Int : /\ Acknowledges(events', b1, n)
                             /\ pendingAcks + b <= pendingAcks' + b1
                             /\ pendingAcks' \in Int
  PROVE  AckInv'
<1>1. PICK b \in Int, c \in [0..Len(inbox) -> Int] :
        /\ Owed(c) /\ Acknowledges(events, b, c[0])
        /\ c[Len(inbox)] <= pendingAcks + b
  BY DEF AckInv
<1>2. Len(inbox) \in Nat /\ c[0] \in Int /\ c[Len(inbox)] \in Int
  <2>1. Len(inbox) \in Nat
    BY DEF TypeOK
  <2>2. 0 \in 0..Len(inbox) /\ Len(inbox) \in 0..Len(inbox)
    BY <2>1
  <2> QED
    BY <1>1, <2>1, <2>2
<1>3. PICK b1 \in Int : /\ Acknowledges(events', b1, c[0])
                        /\ pendingAcks + b <= pendingAcks' + b1
                        /\ pendingAcks' \in Int
  BY <1>1, <1>2
<1>4. Owed(c)'
  BY <1>1 DEF Owed, Sets
<1>5. c[Len(inbox)] <= pendingAcks' + b1
  <2>1. pendingAcks \in Int
    BY DEF TypeOK
  <2>2. \A x, q, u, r, v \in Int : x <= q + u /\ q + u <= r + v => x <= r + v
    OBVIOUS
  <2> QED
    BY <1>1, <1>2, <1>3, <2>1, <2>2, Zenon
<1> QED
  BY <1>1, <1>3, <1>4, <1>5 DEF AckInv

(* Every acknowledgement queued is one the application still waits for, so *)
(* with none awaited no change is on its way: what the application set     *)
(* last is what the playback thread has.                                   *)
LEMMA Constant ==
  ASSUME NEW n \in Nat, NEW f, \A k \in 1..n : f[k] = f[k - 1]
  PROVE  f[n] = f[0]
<1> SUFFICES ASSUME f[n] # f[0] PROVE FALSE
  OBVIOUS
<1> DEFINE S == {k \in 0..n : f[k] # f[0]}
           R == OpToRel(<, Nat)
<1>1. IsWellFoundedOn(R, Nat)
  BY NatLessThanWellFounded
<1>2. \A i, j \in Nat : <<i, j>> \in R <=> i < j
  BY DEF OpToRel
<1>3. S \in SUBSET Nat /\ n \in S
  OBVIOUS
<1> HIDE DEF R, S
<1>4. PICK k \in S : \A j \in S : ~(<<j, k>> \in R)
  BY <1>1, <1>3, WFMin
<1>5. k \in 0..n /\ f[k] # f[0]
  BY <1>4 DEF S
<1>6. k \in 1..n /\ k - 1 \in 0..n /\ k - 1 < k /\ k - 1 \in Nat /\ k \in Nat
  <2>1. k # 0
    BY <1>5
  <2> QED
    BY <1>5, <2>1
<1>7. k - 1 \in S
  BY <1>5, <1>6 DEF S
<1> QED
  BY <1>2, <1>4, <1>6, <1>7

LEMMA AckMeans ==
  ASSUME TypeOK, AckInv, AlternateInv, pendingAcks = 0
  PROVE  playWhenReady = appPlayWhenReady
<1>0. PICK n \in Nat : n = Len(inbox)
  BY DEF TypeOK
<1>1. PICK b \in Int, c \in [0..n -> Int] :
        /\ Owed(c) /\ Acknowledges(events, b, c[0])
        /\ c[n] <= pendingAcks + b
  BY <1>0 DEF AckInv
<1>2. PICK val \in [0..n -> BOOLEAN] : Alternation(val)
  BY <1>0 DEF AlternateInv
<1>3. b <= c[0]
  <2>1. PICK e \in [0..Len(events) -> Int] : Tally(e, events, b, c[0])
    BY <1>1 DEF Acknowledges
  <2>2. 0 \in 0..Len(events)
    BY DEF TypeOK
  <2> QED
    BY <2>1, <2>2 DEF Tally
<1>4. \A k \in 0..n : c[k] = c[0]
  <2> TAKE k \in 0..n
  <2>1. 0 \in 0..n /\ n \in 0..n /\ 0 <= k /\ k <= n
    OBVIOUS
  <2>2. c[0] <= c[k] /\ c[k] <= c[n]
    BY <1>0, <1>1, <2>1 DEF Owed
  <2>3. c[0] \in Int /\ c[k] \in Int /\ c[n] \in Int
    BY <1>1, <2>1
  <2> QED
    BY <1>1, <1>3, <2>2, <2>3
<1>5. \A k \in 1..n : ~Sets(k)
  <2> TAKE k \in 1..n
  <2>1. k \in 0..n /\ k - 1 \in 0..n /\ 0 \in 0..n
    OBVIOUS
  <2>2. c[k] = c[k - 1] + (IF Sets(k) THEN 1 ELSE 0)
    BY <1>0, <1>1 DEF Owed
  <2>3. c[k] = c[0] /\ c[k - 1] = c[0] /\ c[0] \in Int
    BY <1>1, <1>4, <2>1
  <2> QED
    BY <2>2, <2>3
<1>6. \A k \in 1..n : val[k] = val[k - 1]
  BY <1>0, <1>2, <1>5 DEF Alternation
<1>7. val[n] = val[0]
  BY <1>6, Constant
<1> QED
  BY <1>0, <1>2, <1>7 DEF Alternation

-----------------------------------------------------------------------------
(* The rebuffering flag.                                                   *)

LEMMA RebufferStep ==
  ASSUME TypeOK, CoreInv, QuitInv, RebufferingMeansDepleted,
         PlaybackThread \/ Timers
  PROVE  RebufferingMeansDepleted'
<1> USE DEF RebufferingMeansDepleted
<1>1. \A r, t, s, ev : Throws(r, t, s, ev) => rebuffering' = FALSE
  BY DEF Throws
<1>2. CASE PrepareInternal \/ SeekToInternal \/ StopInternal
  BY <1>1, <1>2 DEF PrepareInternal, SeekToInternal, StopInternal
<1>3. CASE ReleaseInternal
  BY <1>3 DEF ReleaseInternal
<1>4. CASE SendMessageInternal
  BY <1>4 DEF SendMessageInternal, coreVars, Quiet
<1>5. ASSUME NEW p \in BOOLEAN, SetPlayWhenReadyInternal(p)
      PROVE  rebuffering' = FALSE
  BY <1>1, <1>5 DEF SetPlayWhenReadyInternal, StartThrows
<1>6. ASSUME NEW i \in Idx, NEW b \in BOOLEAN, SetRendererEnabledInternal(i, b)
      PROVE  RebufferingMeansDepleted'
  <2>1. UNCHANGED <<playWhenReady, released>>
    BY <1>6 DEF SetRendererEnabledInternal, Quiet
  <2>2. CASE UNCHANGED <<coreVars, events, rebuffering>>
    BY <2>1, <2>2 DEF coreVars
  <2>3. CASE EnableInternal(i)
    BY <1>1, <2>1, <2>3 DEF EnableInternal
  <2>4. CASE DisableInternal(i)
    BY <1>1, <2>1, <2>4 DEF DisableInternal
  <2> QED
    BY <1>6, <2>2, <2>3, <2>4 DEF SetRendererEnabledInternal
<1>7. CASE IncrementalPrepareInternal
  <2>1. state = "PREPARING"
    BY <1>7 DEF IncrementalPrepareInternal, CoreInv, NoStrayWork
  <2>2. rebuffering = FALSE
    BY <2>1 DEF QuitInv, TypeOK
  <2>3. ASSUME NEW p, FinishPrepare(p) PROVE rebuffering' = FALSE
    BY <1>1, <2>2, <2>3 DEF FinishPrepare, StartThrows
  <2> QED
    BY <1>1, <1>7, <2>2, <2>3 DEF IncrementalPrepareInternal
<1>8. CASE DoSomeWork
  <2>1. Started(state) /\ UNCHANGED <<playWhenReady, released>>
    BY <1>8 DEF DoSomeWork, CoreInv, NoStrayWork, Quiet
  <2>2. PICK e :
          \/ WorkEnds(e)
          \/ state = "BUFFERING" /\ WorkGetsReady(e)
          \/ state = "READY" /\ WorkRebuffers(e)
          \/ WorkGoesOn(e)
          \/ Throws(rs, rs, state, events)
    BY <1>8 DEF DoSomeWork
  <2>3. rebuffering => playWhenReady /\ state \in {"BUFFERING", "ENDED"}
    BY <2>1 DEF QuitInv, Started
  <2>4. CASE WorkEnds(e)
    BY <1>1, <2>1, <2>3, <2>4 DEF WorkEnds
  <2>5. CASE WorkGetsReady(e)
    BY <1>1, <2>1, <2>3, <2>5 DEF WorkGetsReady, StartThrows, TypeOK
  <2>6. CASE WorkRebuffers(e)
    BY <1>1, <2>1, <2>6 DEF WorkRebuffers
  <2>7. CASE WorkGoesOn(e)
    BY <2>1, <2>7 DEF WorkGoesOn
  <2> QED
    BY <1>1, <2>2, <2>4, <2>5, <2>6, <2>7
<1>9. CASE Timers
  BY <1>9 DEF Timers, WorkTimerFires, PrepTimerFires, coreVars
<1> QED
  BY <1>2, <1>3, <1>4, <1>5, <1>6, <1>7, <1>8, <1>9 DEF PlaybackThread

-----------------------------------------------------------------------------
(* The steps of the playback thread.                                       *)

(* A handler that serves a message of the application.                     *)
LEMMA ViewServe ==
  ASSUME IInv, ViewInv, RebufferingMeansDepleted', TypeOK',
         inbox # <<>>, inbox' = Tail(inbox), UNCHANGED appVars,
         inbox[1].what = "RELEASE" => released' /\ state' = "IDLE",
         inbox[1].what # "RELEASE" => released' = released,
         \A b, n \in Int :
           Tells(b, events, state, n) =>
             Tells(b, events', state', n + (IF Sets(1) THEN 1 ELSE 0))
  PROVE  ViewInv'
<1>0. /\ TypeOK /\ StoryInv /\ AckInv /\ QuitInv
      /\ UNCHANGED <<appPc, pendingAcks, playbackState>>
  BY DEF IInv, ViewInv, appVars
<1>1. /\ Len(inbox) \in Nat /\ Len(inbox) > 0
      /\ Len(inbox') = Len(inbox) - 1
      /\ \A k \in 1..(Len(inbox) - 1) : inbox'[k] = inbox[k + 1]
  BY <1>0, TailQueue
<1>2. ~released /\ appPc # "released"
  BY <1>0 DEF QuitInv
<1>3. \A b, n \in Int : Acknowledges(events, b, n) => Tells(b, events, state, n)
  BY <1>0, <1>2 DEF Tells, StoryInv, TypeOK
<1>4. AckInv'
  <2>1. \A b, n \in Int :
          Acknowledges(events, b, n) =>
            Acknowledges(events', b, n + (IF Sets(1) THEN 1 ELSE 0))
    BY <1>3 DEF Tells
  <2> QED
    BY <1>0, <2>1, AckServe
<1>5. StoryInv'
  <2>1. PICK b \in Int, n \in Int : Acknowledges(events, b, n)
    <3>1. PICK b \in Int, c \in [0..Len(inbox) -> Int] :
            Acknowledges(events, b, c[0])
      BY <1>0 DEF AckInv
    <3>2. c[0] \in Int
      BY <1>1, <3>1
    <3> QED
      BY <3>1, <3>2
  <2>2. Tells(b, events', state', n + (IF Sets(1) THEN 1 ELSE 0))
    BY <1>3, <2>1
  <2> QED
    BY <1>0, <2>2 DEF Tells, StoryInv
<1>6. QuitInv'
  <2>1. CASE inbox[1].what = "RELEASE"
    <3>1. 1 \in 1..Len(inbox)
      BY <1>1
    <3>2. 1 = Len(inbox) /\ appPc = "releasing"
      BY <1>0, <2>1, <3>1 DEF QuitInv
    <3>3. inbox' = <<>> /\ Len(inbox') = 0
      BY <1>0, <1>1, <3>2 DEF TypeOK
    <3>4. released' /\ state' = "IDLE"
      BY <2>1
    <3> QED
      BY <1>0, <3>2, <3>3, <3>4 DEF QuitInv
  <2>2. CASE inbox[1].what # "RELEASE"
    <3>1. ~released'
      BY <1>2, <2>2
    <3>2. \A k \in 1..Len(inbox') :
            inbox'[k].what = "RELEASE" =>
              k = Len(inbox') /\ appPc' = "releasing"
      <4> TAKE k \in 1..Len(inbox')
      <4>1. /\ k \in 1..(Len(inbox) - 1) /\ k + 1 \in 1..Len(inbox)
            /\ k + 1 = Len(inbox) => k = Len(inbox')
        BY <1>1
      <4> QED
        BY <1>0, <1>1, <4>1 DEF QuitInv
    <3> QED
      BY <1>0, <1>2, <3>1, <3>2 DEF QuitInv
  <2> QED
    BY <2>1, <2>2
<1> QED
  BY <1>4, <1>5, <1>6 DEF ViewInv

(* A handler of the player's own messages, and its timers.                 *)
LEMMA ViewOwn ==
  ASSUME IInv, ViewInv, RebufferingMeansDepleted', TypeOK',
         UNCHANGED <<appVars, inbox, released>>,
         released => UNCHANGED <<state, events>>,
         \A b, n \in Int :
           Tells(b, events, state, n) => Tells(b, events', state', n)
  PROVE  ViewInv'
<1>0. /\ TypeOK /\ StoryInv /\ AckInv /\ QuitInv
      /\ UNCHANGED <<appPc, pendingAcks, playbackState>>
  BY DEF IInv, ViewInv, appVars
<1>1. QuitInv'
  BY <1>0 DEF QuitInv
<1>2. CASE appPc = "released"
  <2>1. UNCHANGED <<state, events>>
    BY <1>0, <1>2 DEF QuitInv
  <2>2. AckInv'
    <3>1. pendingAcks' \in Int /\ \A b \in Int :
            pendingAcks + b <= pendingAcks' + b
      BY <1>0 DEF TypeOK
    <3> QED
      BY <1>0, <2>1, <3>1, AckKept
  <2> QED
    BY <1>0, <1>1, <1>2, <2>1, <2>2 DEF ViewInv, StoryInv
<1>3. CASE appPc # "released"
  <2>1. \A b, n \in Int :
          Acknowledges(events, b, n) => Tells(b, events, state, n)
    BY <1>0, <1>3 DEF Tells, StoryInv, TypeOK
  <2>2. \A b, n \in Int : Acknowledges(events, b, n) =>
          Acknowledges(events', b, n)
    BY <2>1 DEF Tells
  <2>3. AckInv'
    <3>1. pendingAcks' \in Int /\ \A b \in Int :
            pendingAcks + b <= pendingAcks' + b
      BY <1>0 DEF TypeOK
    <3> QED
      BY <1>0, <2>2, <3>1, AckKept
  <2>4. StoryInv'
    <3>1. PICK b \in Int, n \in Int : Acknowledges(events, b, n)
      <4>1. PICK b \in Int, c \in [0..Len(inbox) -> Int] :
              Acknowledges(events, b, c[0])
        BY <1>0 DEF AckInv
      <4>2. c[0] \in Int
        BY <1>0, <4>1, SMTT(30) DEF TypeOK
      <4> QED
        BY <4>1, <4>2
    <3>2. Tells(b, events', state', n)
      BY <2>1, <3>1
    <3> QED
      BY <1>0, <3>2 DEF Tells, StoryInv
  <2> QED
    BY <1>1, <2>3, <2>4 DEF ViewInv
<1> QED
  BY <1>2, <1>3

LEMMA ViewPlayback ==
  ASSUME IInv, ViewInv, TypeOK', PlaybackThread \/ Timers
  PROVE  ViewInv'
<1>0. TypeOK /\ CoreInv /\ QuitInv /\ RebufferingMeansDepleted
  BY DEF IInv, ViewInv
<1>1. RebufferingMeansDepleted'
  BY <1>0, RebufferStep
<1> DEFINE Told(d) == \A b, n \in Int :
             Tells(b, events, state, n) => Tells(b, events', state', n + d)
<1>2. ASSUME NEW m, Receive(m), UNCHANGED appVars,
             m.what # "RELEASE", released' = released,
             Told(IF m.what = "SET_PLAY_WHEN_READY" THEN 1 ELSE 0)
      PROVE  ViewInv'
  <2>1. inbox # <<>> /\ inbox' = Tail(inbox) /\ inbox[1] = m
    BY <1>0, <1>2, Received
  <2>2. \A b, n \in Int : Tells(b, events, state, n) =>
          Tells(b, events', state', n + (IF Sets(1) THEN 1 ELSE 0))
    BY <1>2, <2>1 DEF Sets
  <2> QED
    BY <1>1, <1>2, <2>1, <2>2, ViewServe
<1>3. Told(0) <=> \A b, n \in Int :
        Tells(b, events, state, n) => Tells(b, events', state', n)
  <2>1. \A n \in Int : n + 0 = n
    OBVIOUS
  <2> QED
    BY <2>1
<1> HIDE DEF Told
<1>4. CASE PrepareInternal
  <2>1. /\ Receive(Plain("PREPARE")) /\ UNCHANGED appVars
        /\ released' = released
    BY <1>4 DEF PrepareInternal, Quiet
  <2>2. ~held
    BY <1>4, NothingHeld
  <2>3. Told(0)
    BY <1>0, <1>3, <1>4, <2>2, TellPrepare
  <2> QED
    BY <1>2, <2>1, <2>3 DEF Plain, Msg
<1>5. CASE StopInternal
  <2>1. /\ Receive(Plain("STOP")) /\ UNCHANGED appVars
        /\ released' = released /\ ResetInternal(events)
    BY <1>5 DEF StopInternal, Quiet
  <2>2. Told(0)
    BY <1>0, <1>3, <2>1, TellReset
  <2> QED
    BY <1>2, <2>1, <2>2 DEF Plain, Msg
<1>6. CASE ReleaseInternal
  <2>1. /\ Receive(Plain("RELEASE")) /\ UNCHANGED appVars
        /\ released' = TRUE /\ ResetInternal(events)
    BY <1>6 DEF ReleaseInternal
  <2>2. /\ inbox # <<>> /\ inbox' = Tail(inbox)
        /\ inbox[1].what = "RELEASE" /\ ~Sets(1)
    BY <1>0, <2>1, Received DEF Plain, Msg, Sets
  <2>3. state' = "IDLE"
    BY <1>0, <2>1 DEF ResetInternal, Reset, ResetIdle, CoreInv
  <2>4. \A b, n \in Int :
          Tells(b, events, state, n) =>
            Tells(b, events', state', n + (IF Sets(1) THEN 1 ELSE 0))
    <3>1. \A n \in Int : n + (IF Sets(1) THEN 1 ELSE 0) = n
      BY <2>2
    <3> QED
      BY <1>0, <2>1, <3>1, TellReset
  <2> QED
    BY <1>1, <2>1, <2>2, <2>3, <2>4, ViewServe
<1>7. CASE SeekToInternal
  <2>1. /\ Receive(Plain("SEEK_TO")) /\ UNCHANGED appVars
        /\ released' = released
    BY <1>7 DEF SeekToInternal, Quiet
  <2>2. Told(0)
    BY <1>0, <1>3, <1>7, TellSeek
  <2> QED
    BY <1>2, <2>1, <2>2 DEF Plain, Msg
<1>8. CASE SendMessageInternal
  <2>1. /\ Receive(Plain("CUSTOM")) /\ UNCHANGED appVars
        /\ released' = released
    BY <1>8 DEF SendMessageInternal, Quiet
  <2>2. Told(0)
    BY <1>0, <1>3, <1>8, TellSendMessage
  <2> QED
    BY <1>2, <2>1, <2>2 DEF Plain, Msg
<1>9. ASSUME NEW p \in BOOLEAN, SetPlayWhenReadyInternal(p) PROVE ViewInv'
  <2>1. /\ Receive(Msg("SET_PLAY_WHEN_READY", 0, p)) /\ UNCHANGED appVars
        /\ released' = released
    BY <1>9 DEF SetPlayWhenReadyInternal, Quiet
  <2>2. Told(1)
    BY <1>0, <1>9, TellSetPlayWhenReady DEF Told
  <2>3. Msg("SET_PLAY_WHEN_READY", 0, p).what = "SET_PLAY_WHEN_READY"
    BY DEF Msg
  <2> QED
    BY <1>2, <2>1, <2>2, <2>3
<1>10. ASSUME NEW i \in Idx, NEW c \in BOOLEAN, SetRendererEnabledInternal(i, c)
       PROVE  ViewInv'
  <2>1. /\ Receive(Msg("SET_RENDERER_ENABLED", i, c)) /\ UNCHANGED appVars
        /\ released' = released
    BY <1>10 DEF SetRendererEnabledInternal, Quiet
  <2>2. Told(0)
    BY <1>0, <1>3, <1>10, TellSetRendererEnabled
  <2>3. Msg("SET_RENDERER_ENABLED", i, c).what = "SET_RENDERER_ENABLED"
    BY DEF Msg
  <2> QED
    BY <1>2, <2>1, <2>2, <2>3
<1>11. CASE IncrementalPrepareInternal
  <2>1. UNCHANGED <<appVars, inbox, released>>
    BY <1>11 DEF IncrementalPrepareInternal, Quiet
  <2>2. ~released
    BY <1>0, <1>11
    DEF IncrementalPrepareInternal, CoreInv, NoStrayWork, QuitInv
  <2>3. \A b, n \in Int :
          Tells(b, events, state, n) => Tells(b, events', state', n)
    BY <1>0, <1>11, TellIncrementalPrepare
  <2> QED
    BY <1>1, <2>1, <2>2, <2>3, ViewOwn
<1>12. CASE DoSomeWork
  <2>1. UNCHANGED <<appVars, inbox, released>>
    BY <1>12 DEF DoSomeWork, Quiet
  <2>2. ~released
    BY <1>0, <1>12 DEF DoSomeWork, CoreInv, NoStrayWork, QuitInv, Started
  <2>3. \A b, n \in Int :
          Tells(b, events, state, n) => Tells(b, events', state', n)
    BY <1>0, <1>12, TellDoSomeWork
  <2> QED
    BY <1>1, <2>1, <2>2, <2>3, ViewOwn
<1>13. CASE Timers
  <2>1. UNCHANGED <<appVars, inbox, released, state, events>>
    BY <1>13 DEF Timers, WorkTimerFires, PrepTimerFires, coreVars
  <2>2. \A b, n \in Int :
          Tells(b, events, state, n) => Tells(b, events', state', n)
    BY <2>1
  <2> QED
    BY <1>1, <2>1, <2>2, ViewOwn
<1> QED
  BY <1>4, <1>5, <1>6, <1>7, <1>8, <1>9, <1>10, <1>11, <1>12, <1>13
  DEF PlaybackThread

-----------------------------------------------------------------------------
(* The steps of the application thread.                                    *)

(* A call posts a message, and RELEASE is the last.                        *)
LEMMA QuitCall ==
  ASSUME TypeOK, QuitInv, NEW m \in Message, Post(m), appPc = "run",
         appPc' # "released", m.what = "RELEASE" => appPc' = "releasing",
         UNCHANGED <<released, events, state>>
  PROVE  QuitInv'
<1>1. /\ Len(inbox) \in Nat /\ Len(inbox') = Len(inbox) + 1
      /\ \A k \in 1..Len(inbox) : inbox'[k] = inbox[k]
      /\ inbox'[Len(inbox) + 1] = m
  BY AppendQueue
<1>2. ~released /\ \A k \in 1..Len(inbox) : inbox[k].what # "RELEASE"
  BY DEF QuitInv
<1>3. \A k \in 1..Len(inbox') : k \in 1..Len(inbox) \/ k = Len(inbox')
  BY <1>1
<1> QED
  BY <1>1, <1>2, <1>3 DEF QuitInv

LEMMA ViewCall ==
  ASSUME TypeOK, ViewInv, NEW m \in Message, Post(m), appPc = "run",
         appPc' # "released", m.what = "RELEASE" => appPc' = "releasing",
         UNCHANGED <<internalVars, playbackState>>,
         pendingAcks' = pendingAcks
           + (IF m.what = "SET_PLAY_WHEN_READY" THEN 1 ELSE 0)
  PROVE  ViewInv'
<1>1. UNCHANGED <<events, state, released, rebuffering, playWhenReady>>
  BY DEF internalVars, coreVars
<1>2. AckInv' /\ QuitInv'
  BY <1>1, AckCall, QuitCall DEF ViewInv
<1>3. StoryInv' /\ RebufferingMeansDepleted'
  BY <1>1 DEF ViewInv, StoryInv, RebufferingMeansDepleted
<1> QED
  BY <1>2, <1>3 DEF ViewInv

LEMMA ViewHandleEvent ==
  ASSUME TypeOK, ViewInv, HandleEvent
  PROVE  ViewInv' /\ (playbackState' = playbackState \/ View!Next)
<1>0. /\ appPc = "run" /\ events # <<>> /\ events' = Tail(events)
      /\ playbackState' = ShownAfter(Head(events))
      /\ pendingAcks' = AcksAfter(Head(events))
      /\ UNCHANGED <<appPc, inbox, state, released, rebuffering, playWhenReady>>
  BY DEF HandleEvent, coreVars
<1>1. /\ events \in Seq(Event) /\ Head(events) = events[1]
      /\ Len(events) \in Nat /\ Len(events) > 0
      /\ events[1] \in Event /\ state \in PlayerState
  BY <1>0, TailEvents DEF TypeOK
<1>2. playbackState' = IF events[1] \in PlayerState THEN events[1]
                                                    ELSE playbackState
  BY <1>0, <1>1 DEF ShownAfter
<1>3. StoryInv'
  <2>1. /\ Follows(playbackState, events, state)
        /\ IdleAfterErrors(playbackState, events)
    BY <1>0 DEF ViewInv, StoryInv
  <2> QED
    BY <1>0, <1>1, <1>2, <2>1, TellTail DEF StoryInv
<1>4. AckInv'
  <2> DEFINE d == IF events[1] = "ACK" THEN 1 ELSE 0
  <2>1. pendingAcks' = pendingAcks - d /\ pendingAcks \in Int /\ d \in Int
    BY <1>0, <1>1 DEF AcksAfter, TypeOK
  <2>2. \A b, n \in Int : Acknowledges(events, b, n) =>
          Acknowledges(events', b + d, n)
    BY <1>0, <1>1, TallyTail
  <2> HIDE DEF d
  <2>3. \A b \in Int : /\ b + d \in Int /\ pendingAcks' \in Int
                       /\ pendingAcks + b <= pendingAcks' + (b + d)
    BY <2>1
  <2>4. \A b, n \in Int :
          Acknowledges(events, b, n) =>
            \E b1 \in Int : /\ Acknowledges(events', b1, n)
                            /\ pendingAcks + b <= pendingAcks' + b1
                            /\ pendingAcks' \in Int
    BY <2>2, <2>3
  <2> QED
    BY <1>0, <2>4, AckKept DEF ViewInv
<1>5. QuitInv' /\ RebufferingMeansDepleted'
  BY <1>0 DEF ViewInv, QuitInv, RebufferingMeansDepleted
<1>6. playbackState' = playbackState \/ View!Next
  <2>1. CASE events[1] \in PlayerState
    <3>1. 1 \in 1..Len(events) /\ 1 - 1 = 0
      BY <1>1
    <3>2. PICK t \in PlayerState :
            /\ LastTold(playbackState, events, 0, t)
            /\ <<t, events[1]>> \in View!Diagram
      BY <1>0, <2>1, <3>1 DEF ViewInv, StoryInv, Follows
    <3>3. t = playbackState
      BY <3>2 DEF LastTold
    <3> QED
      BY <1>2, <2>1, <3>2, <3>3 DEF View!Next
  <2> QED
    BY <1>2, <2>1
<1> QED
  BY <1>3, <1>4, <1>5, <1>6 DEF ViewInv

LEMMA ViewReturns ==
  ASSUME TypeOK, ViewInv, AppReturns
  PROVE  ViewInv'
<1>1. CASE BlockingSendReturns
  <2>1. /\ appPc = "blocked" /\ appPc' = "run"
        /\ UNCHANGED <<pendingAcks, playbackState, inbox, events, state,
                       released, rebuffering, playWhenReady>>
    BY <1>1 DEF BlockingSendReturns, internalVars, coreVars
  <2>2. AckInv'
    <3>1. pendingAcks' \in Int /\ \A b \in Int :
            pendingAcks + b <= pendingAcks' + b
      BY <2>1 DEF TypeOK
    <3> QED
      BY <2>1, <3>1, AckKept DEF ViewInv
  <2>3. StoryInv' /\ RebufferingMeansDepleted'
    BY <2>1 DEF ViewInv, StoryInv, RebufferingMeansDepleted
  <2>4. QuitInv'
    BY <2>1 DEF ViewInv, QuitInv
  <2> QED
    BY <2>2, <2>3, <2>4 DEF ViewInv
<1>2. CASE ReleaseReturns
  <2>1. /\ appPc = "releasing" /\ released /\ appPc' = "released"
        /\ events' = <<>>
        /\ UNCHANGED <<pendingAcks, playbackState, inbox, state,
                       released, rebuffering, playWhenReady>>
    BY <1>2 DEF ReleaseReturns, coreVars
  <2>2. AckInv'
    <3>1. ASSUME NEW b \in Int, NEW n \in Int, Acknowledges(events, b, n)
          PROVE  /\ Acknowledges(events', n, n)
                 /\ pendingAcks + b <= pendingAcks' + n /\ pendingAcks' \in Int
      <4>1. PICK e \in [0..Len(events) -> Int] : Tally(e, events, b, n)
        BY <3>1 DEF Acknowledges
      <4>2. 0 \in 0..Len(events)
        BY DEF TypeOK
      <4>3. b <= n
        BY <4>1, <4>2 DEF Tally
      <4>4. Acknowledges(events', n, n)
        <5>1. Len(events') = 0
          BY <2>1
        <5>2. Tally([k \in 0..0 |-> n], events', n, n)
          BY <5>1 DEF Tally
        <5>3. [k \in 0..0 |-> n] \in [0..Len(events') -> Int]
          BY <5>1
        <5> QED
          BY <5>2, <5>3 DEF Acknowledges
      <4>5. pendingAcks \in Int
        BY DEF TypeOK
      <4> QED
        BY <2>1, <4>3, <4>4, <4>5
    <3> QED
      BY <2>1, <3>1, AckKept DEF ViewInv
  <2>3. StoryInv' /\ RebufferingMeansDepleted'
    BY <2>1 DEF ViewInv, StoryInv, RebufferingMeansDepleted
  <2>4. QuitInv'
    <3>1. inbox = <<>> /\ state = "IDLE" /\ Len(inbox') = 0
      BY <2>1 DEF ViewInv, QuitInv
    <3> QED
      BY <2>1, <3>1 DEF QuitInv
  <2> QED
    BY <2>2, <2>3, <2>4 DEF ViewInv
<1> QED
  BY <1>1, <1>2 DEF AppReturns

LEMMA ViewApp ==
  ASSUME IInv, ViewInv, AppCall \/ AppReturns \/ HandleEvent
  PROVE  ViewInv'
<1>0. TypeOK /\ \A n \in Int : n + 0 = n
  BY DEF IInv
<1>1. pendingAcks \in Int
  BY <1>0 DEF TypeOK
<1>2. ASSUME NEW w \in {"PREPARE", "STOP", "SEEK_TO", "CUSTOM", "RELEASE"}
      PROVE  /\ Plain(w) \in Message /\ Plain(w).what = w
             /\ Plain(w).what # "SET_PLAY_WHEN_READY"
  BY <1>2 DEF Plain, Msg, Message
<1>3. ASSUME NEW w \in {"PREPARE", "STOP", "SEEK_TO", "CUSTOM", "RELEASE"},
             Post(Plain(w)), appPc = "run", appPc' # "released",
             w = "RELEASE" => appPc' = "releasing",
             UNCHANGED <<internalVars, playbackState, pendingAcks>>
      PROVE  ViewInv'
  <2>1. pendingAcks' = pendingAcks
          + (IF Plain(w).what = "SET_PLAY_WHEN_READY" THEN 1 ELSE 0)
    BY <1>1, <1>2, <1>3
  <2> QED
    BY <1>0, <1>2, <1>3, <2>1, ViewCall
<1>4. CASE Prepare
  BY <1>3, <1>4 DEF Prepare, Call
<1>5. CASE Stop
  BY <1>3, <1>5 DEF Stop, Call
<1>6. CASE SeekTo
  BY <1>3, <1>6 DEF SeekTo, Call, appVars
<1>7. CASE SendMessage
  BY <1>3, <1>7 DEF SendMessage, Call
<1>8. CASE BlockingSendMessage
  BY <1>3, <1>8 DEF BlockingSendMessage, Call
<1>9. CASE Release
  BY <1>3, <1>9 DEF Release, Call
<1>10. ASSUME NEW p \in BOOLEAN, SetPlayWhenReady(p) PROVE ViewInv'
  <2>1. /\ Msg("SET_PLAY_WHEN_READY", 0, p) \in Message
        /\ Msg("SET_PLAY_WHEN_READY", 0, p).what = "SET_PLAY_WHEN_READY"
    BY DEF Msg, Message
  <2> QED
    BY <1>0, <1>10, <2>1, ViewCall DEF SetPlayWhenReady, Call
<1>11. ASSUME NEW i \in Idx, NEW b \in BOOLEAN, SetRendererEnabled(i, b)
       PROVE  ViewInv'
  <2> DEFINE m == Msg("SET_RENDERER_ENABLED", i, b)
  <2>1. m \in Message /\ m.what = "SET_RENDERER_ENABLED"
    BY DEF Msg, Message
  <2>2. /\ Post(m) /\ appPc = "run" /\ appPc' = appPc
        /\ UNCHANGED <<internalVars, playbackState, pendingAcks>>
    BY <1>11 DEF SetRendererEnabled, Call
  <2> HIDE DEF m
  <2>3. pendingAcks' = pendingAcks
          + (IF m.what = "SET_PLAY_WHEN_READY" THEN 1 ELSE 0)
    BY <1>1, <2>1, <2>2
  <2> QED
    BY <1>0, <2>1, <2>2, <2>3, ViewCall
<1>12. CASE HandleEvent
  BY <1>0, <1>12, ViewHandleEvent
<1>13. CASE AppReturns
  BY <1>0, <1>13, ViewReturns
<1> QED
  BY <1>4, <1>5, <1>6, <1>7, <1>8, <1>9, <1>10, <1>11, <1>12, <1>13 DEF AppCall

LEMMA InitView == Init => ViewInv
<1> SUFFICES ASSUME Init PROVE ViewInv
  OBVIOUS
<1>1. /\ inbox = <<>> /\ events = <<>> /\ state = "IDLE"
      /\ playbackState = "IDLE" /\ pendingAcks = 0 /\ appPc = "run"
      /\ released = FALSE /\ rebuffering = FALSE
      /\ Len(inbox) = 0 /\ Len(events) = 0
  BY DEF Init
<1>2. StoryInv
  BY <1>1 DEF StoryInv, Follows, LastTold, IdleAfterErrors
<1>3. AckInv
  <2> DEFINE c == [k \in 0..0 |-> 0]
  <2>1. c \in [0..0 -> Int] /\ c[0] = 0
    OBVIOUS
  <2> HIDE DEF c
  <2>2. Tally(c, events, 0, c[0])
    BY <1>1, <2>1 DEF Tally
  <2>3. Acknowledges(events, 0, c[0])
    BY <1>1, <2>1, <2>2 DEF Acknowledges
  <2>4. Owed(c)
    BY <1>1, <2>1 DEF Owed
  <2>5. c[Len(inbox)] <= pendingAcks + 0
    BY <1>1, <2>1
  <2> QED
    BY <1>1, <2>1, <2>3, <2>4, <2>5 DEF AckInv
<1>4. QuitInv /\ RebufferingMeansDepleted
  BY <1>1 DEF QuitInv, RebufferingMeansDepleted
<1> QED
  BY <1>2, <1>3, <1>4 DEF ViewInv

LEMMA NextView == IInv /\ ViewInv /\ [Next]_vars => ViewInv'
<1> SUFFICES ASSUME IInv, ViewInv, [Next]_vars PROVE ViewInv'
  OBVIOUS
<1>0. TypeOK'
  BY NextIInv DEF IInv
<1>1. CASE UNCHANGED vars
  <2>1. UNCHANGED <<appPc, pendingAcks, playbackState, inbox, events, state,
                    released, rebuffering, playWhenReady>>
    BY <1>1 DEF vars, appVars, coreVars
  <2>2. AckInv'
    <3>1. pendingAcks' \in Int /\ \A b \in Int :
            pendingAcks + b <= pendingAcks' + b
      BY <2>1 DEF IInv, TypeOK
    <3> QED
      BY <2>1, <3>1, AckKept DEF IInv, ViewInv
  <2> QED
    BY <2>1, <2>2
    DEF ViewInv, StoryInv, QuitInv, RebufferingMeansDepleted
<1>2. CASE AppCall \/ AppReturns \/ HandleEvent
  BY <1>2, ViewApp
<1>3. CASE PlaybackThread \/ Timers
  BY <1>0, <1>3, ViewPlayback
<1> QED
  BY <1>1, <1>2, <1>3 DEF Next, Finished

(* Only the event handler changes what the application sees.               *)
LEMMA OnlyEventsShow ==
  ASSUME IInv, ViewInv, [Next]_vars
  PROVE  playbackState' = playbackState \/ View!Next
<1>1. CASE HandleEvent
  BY <1>1, ViewHandleEvent DEF IInv
<1>2. CASE AppCall \/ AppReturns
  BY <1>2
  DEF AppCall, AppReturns, Prepare, Stop, SeekTo, SendMessage,
      BlockingSendMessage, Release, SetPlayWhenReady, SetRendererEnabled,
      BlockingSendReturns, ReleaseReturns, appVars
<1>3. CASE PlaybackThread \/ Timers
  <2>1. UNCHANGED appVars
    BY <1>3
    DEF PlaybackThread, Timers, PrepareInternal, SeekToInternal,
        StopInternal, ReleaseInternal, SendMessageInternal,
        IncrementalPrepareInternal, DoSomeWork, SetPlayWhenReadyInternal,
        SetRendererEnabledInternal, WorkTimerFires, PrepTimerFires, Quiet
  <2> QED
    BY <2>1 DEF appVars
<1>4. CASE UNCHANGED vars
  BY <1>4 DEF vars, appVars
<1> QED
  BY <1>1, <1>2, <1>3, <1>4 DEF Next, Finished

-----------------------------------------------------------------------------
(* The results.                                                            *)

(* Every reachable state satisfies both inductive invariants.              *)
THEOREM ViewInvariant == Spec => [](IInv /\ ViewInv)
<1>1. Init => IInv /\ ViewInv
  BY InitIInv, InitView
<1>2. (IInv /\ ViewInv) /\ [Next]_vars => (IInv /\ ViewInv)'
  BY NextIInv, NextView
<1> QED
  BY <1>1, <1>2, PTL DEF Spec

(* The application's view is late but never wrong: once the queued events  *)
(* are handled it shows the playback thread's state, an error leaves it    *)
(* idle, and with no acknowledgement awaited the last value set is the one *)
(* in force - however many calls, events and failures are in flight.       *)
THEOREM ViewNeverWrong == Spec => []ViewCatchesUp
<1>1. IInv /\ ViewInv => CatchesUp
  BY DEF ViewInv, StoryInv, Follows, CatchesUp
<1>2. IInv /\ ViewInv => ErrorThenIdle
  <2> SUFFICES ASSUME IInv, ViewInv PROVE ErrorThenIdle
    OBVIOUS
  <2>1. CASE appPc # "released"
    BY <2>1 DEF ViewInv, StoryInv, IdleAfterErrors, ErrorThenIdle
  <2>2. CASE appPc = "released"
    BY <2>2 DEF ViewInv, QuitInv, ErrorThenIdle
  <2> QED
    BY <2>1, <2>2
<1>3. IInv /\ ViewInv => CommittedMeansReflected
  BY AckMeans DEF IInv, ViewInv, CommittedMeansReflected
<1>4. IInv /\ ViewInv => ViewCatchesUp
  BY <1>1, <1>2, <1>3 DEF ViewCatchesUp
<1> QED
  BY <1>4, ViewInvariant, PTL

(* The rebuffer threshold is in force only after the data ran out while    *)
(* playing.                                                                *)
THEOREM RebufferingJustified == Spec => []RebufferingMeansDepleted
<1>1. IInv /\ ViewInv => RebufferingMeansDepleted
  BY DEF ViewInv
<1> QED
  BY <1>1, ViewInvariant, PTL

(* The player implements the playback state diagram: the states its        *)
(* listeners are told start with IDLE and skip none of the diagram.        *)
THEOREM DiagramImplemented == Spec => ViewFollowsDiagram
<1>1. Init => View!Init
  BY DEF Init, View!Init
<1>2. (IInv /\ ViewInv) /\ [Next]_vars => [View!Next]_playbackState
  BY OnlyEventsShow
<1> QED
  BY <1>1, <1>2, ViewInvariant, PTL DEF Spec, ViewFollowsDiagram, View!Spec
=============================================================================
