----------------------------- MODULE SharedLoading -----------------------------
(***************************************************************************)
(* Several ChunkSampleSources, each with its Loader, that share a          *)
(* DefaultLoadControl and the memory of its allocator, while a download    *)
(* shares the network with them.  What a source does by itself is module   *)
(* ChunkSampleSource; here a source keeps what the control and the other   *)
(* sources depend on, has one format, and its chunks are intervals of      *)
(* time.  The messages of the loaders and the calls of the player are      *)
(* steps of the playback thread.  Initialization data takes no memory.     *)
(***************************************************************************)
EXTENDS DefaultLoadControl

CONSTANTS
  Duration,    \* of the chunks of each loader
  Size,        \* of the chunks of each loader, in memory
  EndTime,     \* of the media
  SeekTimes,   \* where the player seeks
  MaySwitch,   \* whether sources may be disabled, and enabled again
  MayFail,     \* whether loads may fail with an IOException
  MayNotParse, \* whether initialization data may be found unusable
  MayDownload  \* whether there is a download

ASSUME SharedLoadingAssumption ==
  /\ EndTime \in Nat \ {0} /\ SeekTimes \subseteq 0..EndTime - 1
  /\ Duration \in [Loaders -> Nat \ {0}] /\ Size \in [Loaders -> Nat]
  /\ \A l \in Loaders : EndTime % Duration[l] = 0
  /\ {MaySwitch, MayFail, MayNotParse, MayDownload} \subseteq BOOLEAN

VARIABLES
  source,      \* what each source has queued and loads
  position,    \* the player's position
  seeking      \* the sources a seek has still to reach

sharedVars == <<source, control, queue, download, position, seeking>>

Times == 0..EndTime
None == -1

Source ==
  [enabled : BOOLEAN,
   known : BOOLEAN,                \* initialization data has been consumed
   first : Times, next : Times,    \* the chunks in the queue: first..next - 1
   reset : Times \cup {None},      \* pendingResetTime
   read : Times,                   \* the time up to which samples are read
   downstream : Times,             \* downstreamPositionUs
   load : {"idle", "started", "opened"},
   opened : BOOLEAN,               \* the chunk in the holder has its memory
   canceled : BOOLEAN,
   exception : {"none", "error", "fatal"}, count : 0..2]

NewSource ==
  [enabled |-> FALSE, known |-> FALSE, first |-> 0, next |-> 0, reset |-> None,
   read |-> 0, downstream |-> 0, load |-> "idle", opened |-> FALSE,
   canceled |-> FALSE, exception |-> "none", count |-> 0]

Init ==
  /\ LockInit /\ ControlInit
  /\ source = [l \in Loaders |-> NewSource]
  /\ position = 0 /\ seeking = {}

isLoading(s) == s.load # "idle"
IsBackedOff(s) == s.exception = "error"

(* A media chunk in the holder that is being loaded, or has failed, ends   *)
(* the queue.                                                              *)
IsPartial(s) ==
  s.known /\ s.first < s.next /\ (isLoading(s) \/ IsBackedOff(s))

Last(l) == EndTime \div Duration[l]
ChunkAt_NoEnd(l, time) == time \div Duration[l]
ChunkAt(l, time) ==
  IF time = EndTime THEN Last(l) - 1 ELSE time \div Duration[l]
nextLoadPosition(l, s) ==
  IF s.reset # None THEN s.reset
  ELSE IF s.next = Last(l) THEN -1 ELSE s.next * Duration[l]

(* The memory of the chunks in the queue, but for the one not yet opened.  *)
Held(l, s) ==
  Size[l] * (s.next - s.first - (IF IsPartial(s) /\ ~s.opened THEN 1 ELSE 0))
getAllocatedSize(src) == MapThenSumSet(LAMBDA l : Held(l, src[l]), Loaders)

Clear(s) == [s EXCEPT !.first = 0, !.next = 0, !.opened = FALSE,
                      !.exception = "none", !.count = 0]
-----------------------------------------------------------------------------
(* maybeStartLoading: initialization data first, then the next chunk.      *)
maybeStartLoading(l, s) ==
  LET t == [s EXCEPT !.load = "started", !.opened = FALSE, !.canceled = FALSE]
      chunk == ChunkAt(l, s.reset)
  IN  IF ~s.known
      THEN t
      ELSE IF s.reset = None
           THEN [t EXCEPT !.next = @ + 1]
           ELSE [t EXCEPT !.first = chunk, !.next = chunk + 1,
                          !.read = s.reset, !.reset = None]

resumeFromBackOff(s) ==
  [s EXCEPT !.load = "started", !.exception = "none", !.canceled = FALSE]

(* What the source s of l does when the control has answered.              *)
Proceeds(l, s, next, due) ==
  IF IsBackedOff(s)
  THEN IF s.count = 1 \/ due THEN resumeFromBackOff(s) ELSE s
  ELSE IF next /\ s.exception = "none" /\ ~isLoading(s)
       THEN maybeStartLoading(l, s) ELSE s

(* A handler ends with the control c and the source s of l, *)
Rests(c, l, s) == Becomes(c) /\ source' = [source EXCEPT ![l] = s]

(* or with an update, and what follows from its answer.                    *)
updateLoadControl(c, l, s, due) ==
  \E allocated \in {getAllocatedSize([source EXCEPT ![l] = s])},
     nextLoad \in {nextLoadPosition(l, s)} :
    \E d \in {update(c, l, s.downstream, nextLoad,
                     IsBackedOff(s) \/ isLoading(s), s.exception = "fatal",
                     allocated)} :
      Rests(d, l, Proceeds(l, s, mayLoad(d, nextLoad, allocated), due))

restartFrom(c, l, s, time, due) ==
  LET t == [s EXCEPT !.reset = time, !.read = time]
  IN  IF isLoading(t)
      THEN Rests(c, l, [t EXCEPT !.canceled = TRUE])
      ELSE updateLoadControl(c, l, Clear(t), due)

-----------------------------------------------------------------------------
(* The player's calls.  A seek reaches the sources one by one, and nothing *)
(* comes between on the playback thread.                                   *)

Undisturbed == seeking = {} /\ UNCHANGED <<position, seeking>>

Enable(l, due) ==
  /\ Undisturbed /\ ~source[l].enabled
  /\ restartFrom(register(control, l), l,
                 [source[l] EXCEPT !.enabled = TRUE, !.downstream = position],
                 position, due)

Disable(l) ==
  /\ MaySwitch
  /\ Undisturbed /\ source[l].enabled
  /\ LET s == [source[l] EXCEPT !.enabled = FALSE]
     IN  Rests(unregister(control, l), l,
               IF isLoading(s) THEN [s EXCEPT !.canceled = TRUE] ELSE Clear(s))

continueBuffering(l, due) ==
  /\ Undisturbed /\ source[l].enabled
  /\ updateLoadControl(control, l, [source[l] EXCEPT !.downstream = position],
                       due)

Seek(time) ==
  /\ seeking = {} /\ \E l \in Loaders : source[l].enabled
  /\ position' = time
  /\ seeking' = {l \in Loaders : source[l].enabled}
  /\ UNCHANGED <<source, control, lockVars>>

seekToUs(l, due) ==
  /\ l \in seeking /\ seeking' = seeking \ {l}
  /\ LET s == [source[l] EXCEPT !.downstream = position]
         chunk == ChunkAt(l, position)
     IN  IF s.reset = position
         THEN Rests(control, l, s)
         ELSE IF chunk \in s.first..s.next - 1
              THEN updateLoadControl(control, l,
                     [s EXCEPT !.first = chunk, !.read = position], due)
              ELSE restartFrom(control, l, s, position, due)
  /\ UNCHANGED position

(* A codec takes samples one unit of time ahead of the position.  The last *)
(* sample of a chunk can be read when its load has been completed.         *)
Available(l, s) ==
  /\ s.read < (s.next - (IF IsPartial(s) /\ ~s.opened THEN 1 ELSE 0))
                * Duration[l]
  /\ IsPartial(s) => s.read < s.next * Duration[l] - 1

readData(l) ==
  /\ Undisturbed /\ source[l].enabled
  /\ source[l].read <= position
  /\ LET s == [source[l] EXCEPT !.downstream = position]
         t == [s EXCEPT !.first =
                IF s.read = (@ + 1) * Duration[l] /\ s.next > @ + 1
                THEN @ + 1 ELSE @]
     IN  Rests(control, l,
               IF s.reset # None THEN s
               ELSE IF Available(l, t) THEN [t EXCEPT !.read = @ + 1] ELSE t)

(* Playback goes on while every enabled renderer is ahead of it.           *)
Play ==
  /\ seeking = {} /\ position < EndTime
  /\ \E l \in Loaders : source[l].enabled
  /\ \A l \in Loaders : source[l].enabled => source[l].read > position
  /\ position' = position + 1
  /\ UNCHANGED <<source, control, lockVars, seeking>>

-----------------------------------------------------------------------------
(* The loaders: the thread opens the chunk, which takes its memory;  *)
Open(l) ==
  /\ source[l].load = "started" /\ ~source[l].canceled
  /\ source' = [source EXCEPT ![l].load = "opened", ![l].opened = TRUE]
  /\ UNCHANGED <<control, lockVars, position, seeking>>

(* the message that answers it is handled on the playback thread.          *)
onLoaded(l, due) ==
  /\ Undisturbed /\ source[l].load = "opened" /\ ~source[l].canceled
  /\ updateLoadControl(control, l,
       [source[l] EXCEPT !.load = "idle", !.known = TRUE, !.opened = FALSE,
                         !.count = 0], due)

onLoadedNotParsed(l, due) ==
  /\ MayNotParse
  /\ Undisturbed /\ source[l].load = "opened" /\ ~source[l].canceled
  /\ ~source[l].known
  /\ updateLoadControl(control, l,
       [source[l] EXCEPT !.load = "idle", !.opened = FALSE,
                         !.exception = "fatal"], due)

onError(l, due) ==
  /\ MayFail
  /\ Undisturbed /\ isLoading(source[l]) /\ ~source[l].canceled
  /\ updateLoadControl(control, l,
       [source[l] EXCEPT !.load = "idle", !.exception = "error",
                         !.count = IF @ = 0 THEN 1 ELSE 2], due)

onCanceled(l, due) ==
  /\ Undisturbed /\ isLoading(source[l]) /\ source[l].canceled
  /\ LET s == Clear([source[l] EXCEPT !.load = "idle", !.canceled = FALSE])
     IN  IF s.enabled
         THEN restartFrom(control, l, s, s.reset, due)
         ELSE Rests(control, l, s)

LoaderStep(l, due) ==
  \/ Open(l) \/ onLoaded(l, due) \/ onLoadedNotParsed(l, due)
  \/ onError(l, due) \/ onCanceled(l, due)

-----------------------------------------------------------------------------
OthersDownload ==
  MayDownload /\ Download /\ UNCHANGED <<source, control, position, seeking>>

Next ==
  \/ \E l \in Loaders, due \in BOOLEAN :
       \/ Enable(l, due) \/ continueBuffering(l, due) \/ seekToUs(l, due)
       \/ LoaderStep(l, due)
  \/ \E l \in Loaders : Disable(l) \/ readData(l)
  \/ \E time \in SeekTimes : Seek(time)
  \/ Play
  \/ OthersDownload

Spec == Init /\ [][Next]_sharedVars

(* Loads are opened, end and are answered; sources are enabled; a seek     *)
(* reaches them all; the player keeps buffering, reading and playing.      *)
LoadProceeds(l) == Open(l) \/ onLoaded(l, TRUE) \/ onCanceled(l, TRUE)
PlayerCalls(l) == Enable(l, TRUE) \/ seekToUs(l, TRUE)

Fairness ==
  /\ WF_sharedVars(Play)
  /\ \A l \in Loaders :
       /\ WF_sharedVars(LoadProceeds(l)) /\ WF_sharedVars(PlayerCalls(l))
       /\ WF_sharedVars(continueBuffering(l, TRUE))
       /\ WF_sharedVars(readData(l))

FairSpec == Spec /\ Fairness
-----------------------------------------------------------------------------
(* Type invariant.                                                         *)
TypeOK ==
  /\ source \in [Loaders -> Source] /\ control \in Control
  /\ queue \in [Priorities -> 0..1]
  /\ download \in {"absent", "asking", "waiting", "proceeding"}
  /\ position \in Times /\ seeking \subseteq Loaders

(* The control holds the streaming priority while it fills buffers, which  *)
(* some loader that has not finished must want and none have failed, and   *)
(* beyond that only for a load it has been told of: never for nobody, or   *)
(* downloads would wait for ever.                                          *)
PriorityIsExplained ==
  /\ control.fillingBuffers =>
       /\ control.streamingPrioritySet
       /\ NextLoads(control) # {} /\ ~failed(control)
  /\ control.streamingPrioritySet =>
       control.fillingBuffers \/ loading(control)

\* The network lock knows the streaming priority exactly as often as the control
\* has taken it.
PriorityIsRegistered ==
  queue[STREAMING_PRIORITY] = (IF control.streamingPrioritySet THEN 1 ELSE 0)

\* A download that waits in proceed is kept there by the streaming priority: no
\* notification is lost.
NoLostWakeUp ==
  download = "waiting" => control.streamingPrioritySet

(* The streaming priority is held for a reason, known to the lock once, and *)
(* all that a download sleeps for: see above.                              *)
PriorityIsSound == PriorityIsExplained /\ PriorityIsRegistered /\ NoLostWakeUp

(* Loaders share the target: each load is started with less than the       *)
(* target in use, so that what is in use, with the chunks about to be      *)
(* opened, exceeds the target by less than a chunk of each loader.         *)
Promised(l) ==
  Held(l, source[l])
    + (IF IsPartial(source[l]) /\ ~source[l].opened THEN Size[l] ELSE 0)
MemoryIsBounded ==
  MapThenSumSet(Promised, Loaders)
    < MapThenSumSet(LAMBDA l : Contribution[l] + Size[l], Loaders)

(* The loader l starts the load of a chunk it has not tried before.        *)
Starts(l) ==
  /\ source'[l].load = "started" /\ ~source'[l].canceled
  /\ source[l].load # "started" \/ source[l].canceled
  /\ source'[l].count = 0

\* No media chunk is loaded ahead of what another source needs next ("prevents any
\* loader from getting too far ahead or behind any of the other loaders"); but a
\* source that restarts tells the control only when the load it canceled has ended.
IsAhead(l, m) ==
  /\ l # m /\ source[l].known /\ source[m].enabled /\ ~source[m].canceled
  /\ nextLoadPosition(m, source[m]) # -1
  /\ (source'[l].next - 1) * Duration[l] > nextLoadPosition(m, source[m])

(* Turns are taken: a load is started by nobody who is ahead of another    *)
(* source, and while the control drains by nobody at all ("a draining      *)
(* state during which no loads are permitted to start"), but for the       *)
(* retries of failed ones, which do not ask the control.                   *)
LoadsInTurn ==
  [][\A l \in Loaders :
       Starts(l) => /\ \A m \in Loaders : ~IsAhead(l, m)
                    /\ control'.fillingBuffers]_sharedVars

\* A loader that is behind all others is not kept there.
IsBehind(l) ==
  /\ source[l].enabled /\ ~isLoading(source[l])
  /\ nextLoadPosition(l, source[l]) # -1
  /\ \A m \in Loaders \ {l} :
       /\ source[m].enabled /\ source[m].reset = None
       /\ nextLoadPosition(l, source[l]) < source[m].next * Duration[m]
NobodyStaysBehind == \A l \in Loaders : IsBehind(l) ~> ~IsBehind(l)

(* The sources share memory and turns so that all is played in the end,    *)
(* and nobody is kept behind the others on the way.                        *)
PlaysToTheEnd == <>[](position = EndTime) /\ NobodyStaysBehind
=============================================================================
