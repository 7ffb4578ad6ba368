-------------------------- MODULE ChunkSampleSource --------------------------
(***************************************************************************)
(* ChunkSampleSource.java: the queue of media chunks between a Loader that *)
(* fills it at one end and a renderer that reads it at the other.          *)
(*                                                                         *)
(* Two threads act.  The load thread is LoadThread of module Loader; all   *)
(* else runs on the playback thread, which the renderer's calls and the    *)
(* loader's messages share, so a handler is one step.  The renderer calls  *)
(* the source as MediaCodecTrackRenderer does: in the life cycle of        *)
(* module TrackRenderer, and after an exception nothing but disable.       *)
(*                                                                         *)
(* The load control's answer (next), the evaluator's choice (e) and        *)
(* whether a wait is over (due) are parameters of the handlers.            *)
(***************************************************************************)
EXTENDS DashChunkSource, SequencesExt

CONSTANTS
  SeekTimes,      \* the times the player enables and seeks to
  MayNotParse     \* whether consuming initialization data may fail

ASSUME SourceAssumption == SeekTimes \subseteq Times /\ MayNotParse \in BOOLEAN

VARIABLES
  state,          \* UNPREPARED, PREPARED, ENABLED; RELEASED once released
  src,            \* the fields of the source that concern loading, below
  pendingDiscontinuity,
  lastSeek,       \* lastSeekPositionUs
  announced,      \* the format of downstreamMediaFormat
  delivered,      \* the last sample read since the last discontinuity
  thrown          \* readData has thrown

Source ==
  [queue : Seq(MediaChunks),             \* mediaChunks
   holder : Chunks \cup {NoChunk},       \* currentLoadableHolder.chunk
   reset : Times \cup {None},            \* pendingResetTime
   readPos : 0..ChunkSize,               \* samples read of the first chunk
   exception : {"none", "error", "fatal"},   \* currentLoadableException
   count : 0..2,                         \* its count: 2 is "two or more"
   chunkSource : ChunkSource,
   open : SUBSET Chunks,                 \* chunks with a DataSourceStream
   illegal : BOOLEAN]                    \* a checkState of Loader or Chunk
                                         \* failed

readVars == <<pendingDiscontinuity, lastSeek, announced, delivered, thrown>>
vars == <<state, src, task, readVars>>

Init ==
  /\ state = "UNPREPARED" /\ task = NoTask
  /\ src = [queue |-> <<>>, holder |-> NoChunk, reset |-> None, readPos |-> 0,
            exception |-> "none", count |-> 0, chunkSource |-> NewChunkSource,
            open |-> {}, illegal |-> FALSE]
  /\ pendingDiscontinuity = FALSE /\ lastSeek = None
  /\ announced = NoFormat /\ delivered = None
  /\ thrown = FALSE

isPendingReset == src.reset # None
Queued(s) == ToSet(s.queue)

-----------------------------------------------------------------------------
(* Chunks leave the queue at either end, and are released as they do.      *)

Released(s, cs) == [s EXCEPT !.open = @ \ cs]

discardDownstream(s, n) ==      \* the first n chunks
  [Released(s, {s.queue[i] : i \in 1..n})
     EXCEPT !.queue = SubSeq(@, n + 1, Len(@)),
            !.readPos = IF n = 0 THEN @ ELSE 0]

discardUpstream(s, n) ==        \* all but the first n
  [Released(s, {s.queue[i] : i \in n + 1..Len(s.queue)})
     EXCEPT !.queue = SubSeq(@, 1, n)]

clearMediaChunks(s) == discardDownstream(s, Len(s.queue))

(* The holder lets go of its chunk.  Unless it is in the queue, an open    *)
(* chunk is then out of reach with all it has allocated.                   *)
clearCurrentLoadable(s) ==
  LET dropped == s.holder \in s.open /\ s.holder \notin Queued(s)
  IN  [s EXCEPT !.holder = NoChunk, !.exception = "none", !.count = 0,
                !.open = IF dropped THEN @ \ {s.holder} ELSE @]

-----------------------------------------------------------------------------
(* A handler ends with the source s and, of the loader, the task k.        *)

Rests(s, k) == src' = s /\ task' = k

Loads(s, k, loaded) ==
  /\ src' = [s EXCEPT !.illegal = @ \/ isLoading(k)]
  /\ task' = startLoading(loaded, SizeOf(s.holder))

(* The chunk in the holder is opened and loaded.  A media chunk becomes    *)
(* the last of the queue, and starts where a reset asked for.              *)
maybeStartLoading(s, k) ==
  LET c == s.holder
      t == [s EXCEPT !.open = @ \cup {c}, !.illegal = @ \/ c \in s.open]
  IN  IF c = NoChunk
      THEN Rests(s, k)
      ELSE Loads(IF isMediaChunk(c)
                 THEN [t EXCEPT !.queue = Append(@, c), !.reset = None]
                 ELSE t, k, 0)

(* getChunkOperation for the queue q and the holder of s.                  *)
Operated(s, q, e) ==
  [s EXCEPT
     !.holder = getChunkOperation(s.chunkSource, q, s.reset, @, e),
     !.chunkSource = AfterOperation(@, q, s.reset, s.holder, e)]

ResumeNonMedia(s, k, e) ==
  LET o == discardUpstream(Operated(s, s.queue, e), e.queueSize)
  IN  IF LeftUnchanged(s.queue, s.holder, e)
      THEN Loads(o, k, k.loaded)
      ELSE maybeStartLoading(Released(o, {s.holder}), k)

(* The chunk is taken off the queue while the chunk source is asked.       *)
ResumeLast(s, k, e) ==
  LET q == Front(s.queue)
      o == Operated(s, q, e)
  IN  IF LeftUnchanged(q, s.holder, e)
      THEN Loads(o, k, k.loaded)
      ELSE maybeStartLoading(
             clearCurrentLoadable(discardUpstream(o, e.queueSize)), k)

resumeFromBackOff(t, k) ==
  LET s == [t EXCEPT !.exception = "none"]
  IN  \/ /\ ~isMediaChunk(s.holder)
         /\ \E e \in Evaluations(s.chunkSource, s.queue) :
              ResumeNonMedia(s, k, e)
      \/ /\ isMediaChunk(s.holder) /\ s.holder = s.queue[1]
         /\ Loads(s, k, k.loaded)
      \/ /\ isMediaChunk(s.holder) /\ s.holder # s.queue[1]
         /\ \E e \in Evaluations(s.chunkSource, Front(s.queue)) :
              ResumeLast(s, k, e)

(* A chunk that waits to be loaded is reconsidered once a second.          *)
Considers(s, k, next) ==
  \E e \in Evaluations(s.chunkSource, s.queue) :
    LET o == discardUpstream(Operated(s, s.queue, e), e.queueSize)
    IN  IF next THEN maybeStartLoading(o, k) ELSE Rests(o, k)

Waits(s, k, next) ==
  /\ s.holder # NoChunk
  /\ IF next THEN maybeStartLoading(s, k) ELSE Rests(s, k)

(* The first error is retried at once, the later ones after a delay.       *)
updateLoadControl(s, k, next, due) ==
  \/ /\ s.exception = "fatal" \/ (s.exception = "none" /\ isLoading(k))
     /\ Rests(s, k)
  \/ /\ s.exception = "error"
     /\ IF s.count = 1 \/ due THEN resumeFromBackOff(s, k) ELSE Rests(s, k)
  \/ /\ s.exception = "none" /\ ~isLoading(k)
     /\ Considers(s, k, next) \/ Waits(s, k, next)

restartFrom_ClearsAtOnce(s, k, time, next, due) ==
  LET t == clearCurrentLoadable(clearMediaChunks([s EXCEPT !.reset = time]))
  IN  IF isLoading(k)
      THEN Rests(t, cancelLoading(k))
      ELSE updateLoadControl(t, k, next, due)
restartFrom(s, k, time, next, due) ==
  LET t == [s EXCEPT !.reset = time]
  IN  IF isLoading(k)
      THEN Rests(t, cancelLoading(k))
      ELSE updateLoadControl(clearCurrentLoadable(clearMediaChunks(t)), k,
                             next, due)

-----------------------------------------------------------------------------
(* The renderer's calls.                                                   *)

Prepare ==
  /\ state = "UNPREPARED" /\ state' = "PREPARED"
  /\ UNCHANGED <<src, task, readVars>>

Enable(time, next, due) ==
  /\ state = "PREPARED" /\ state' = "ENABLED"
  /\ lastSeek' = time /\ announced' = NoFormat /\ delivered' = None
  /\ restartFrom(src, task, time, next, due)
  /\ UNCHANGED <<pendingDiscontinuity, thrown>>

Disable ==
  /\ state = "ENABLED" /\ state' = "PREPARED"
  /\ pendingDiscontinuity' = FALSE /\ thrown' = FALSE
  /\ IF isLoading(task)
     THEN Rests(src, cancelLoading(task))
     ELSE Rests(clearCurrentLoadable(clearMediaChunks(src)), task)
  /\ UNCHANGED <<lastSeek, announced, delivered>>

Release ==
  /\ state = "PREPARED" /\ state' = "RELEASED"
  /\ task' = IF isLoading(task) THEN cancelLoading(task) ELSE task
  /\ UNCHANGED <<src, readVars>>

Reading == state = "ENABLED" /\ ~thrown

continueBuffering(next, due) ==
  /\ Reading
  /\ updateLoadControl(src, task, next, due)
  /\ UNCHANGED <<state, readVars>>

(* The place in the queue of the chunk with the sample, or 0.              *)
getMediaChunk(time) ==
  SelectInSeq(src.queue, LAMBDA c : c.segment = getSegmentNum(time))

(* MediaChunk.seekTo on the first chunk does nothing if the sample is      *)
(* still ahead and the extractor has parsed the sample table, which it has *)
(* when a sample has been read.                                            *)
MayStay(i, time) == i = 1 /\ src.readPos <= time % ChunkSize
MustSeek(i, time) == src.readPos = 0 \/ ~MayStay(i, time)

SeekOutside(time, next, due) ==
  /\ getMediaChunk(time) = 0
  /\ pendingDiscontinuity' = TRUE
  /\ restartFrom(src, task, time, next, due)

SeekInside_NoDiscontinuity(i, time, next, due) ==
  /\ i > 0
  /\ UNCHANGED pendingDiscontinuity
  /\ updateLoadControl([discardDownstream(src, i - 1) EXCEPT !.readPos = 0],
                       task, next, due)
SeekInside(i, time, next, due) ==
  /\ i > 0
  /\ \/ /\ MayStay(i, time)
        /\ UNCHANGED pendingDiscontinuity
        /\ updateLoadControl(src, task, next, due)
     \/ /\ MustSeek(i, time)
        /\ pendingDiscontinuity' = TRUE
        /\ updateLoadControl(
             [discardDownstream(src, i - 1) EXCEPT !.readPos = 0],
             task, next, due)

seekToUs(time, next, due) ==
  /\ Reading
  /\ lastSeek' = time
  /\ IF src.reset = time
     THEN UNCHANGED <<src, task, pendingDiscontinuity>>
     ELSE \/ SeekOutside(time, next, due)
          \/ SeekInside(getMediaChunk(time), time, next, due)
  /\ UNCHANGED <<state, announced, delivered, thrown>>

ReadDiscontinuity ==
  /\ Reading /\ pendingDiscontinuity
  /\ pendingDiscontinuity' = FALSE /\ delivered' = None
  /\ UNCHANGED <<state, src, task, lastSeek, announced, thrown>>

(* A first chunk that has been read gives way to the next one.             *)
Current_NeverNext == src
Current ==
  IF src.readPos = ChunkSize /\ Len(src.queue) > 1
  THEN discardDownstream(src, 1) ELSE src

(* Only the chunk that is being loaded may run dry.                        *)
SampleAvailable(s) == s.queue[1] # s.holder \/ s.readPos < task.loaded

ReadFormat(s) ==
  /\ announced # s.queue[1].format
  /\ src' = s /\ announced' = s.queue[1].format
  /\ UNCHANGED <<delivered, thrown>>

ReadSample(s) ==
  /\ announced = s.queue[1].format /\ SampleAvailable(s)
  /\ src' = [s EXCEPT !.readPos = @ + 1]
  /\ delivered' = s.queue[1].segment * ChunkSize + s.readPos
  /\ UNCHANGED <<announced, thrown>>

ReadNothing(s) ==
  /\ announced = s.queue[1].format /\ ~SampleAvailable(s)
  /\ src' = s
  /\ thrown' = (s.exception # "none")
  /\ UNCHANGED <<announced, delivered>>

ReadPending ==
  /\ src.exception # "none" /\ thrown' = TRUE
  /\ UNCHANGED <<src, announced, delivered>>

readData ==
  /\ Reading /\ ~pendingDiscontinuity
  /\ \/ isPendingReset /\ ReadPending
     \/ /\ ~isPendingReset /\ Current.readPos < ChunkSize
        /\ \/ ReadFormat(Current)
           \/ ReadSample(Current)
           \/ ReadNothing(Current)
  /\ UNCHANGED <<state, task, lastSeek, pendingDiscontinuity>>

-----------------------------------------------------------------------------
(* The loader's messages.                                                  *)

Answered(message) ==
  /\ task.phase = "posted"
  /\ message = IF task.canceled THEN "CANCELED" ELSE task.message

Failed(s, kind) ==
  [s EXCEPT !.exception = kind, !.count = IF @ = 0 THEN 1 ELSE 2]

(* consume() of initialization data tells the chunk source about a format. *)
Consumed(s) ==
  IF isMediaChunk(s.holder)
  THEN s
  ELSE [Released(s, {s.holder})
          EXCEPT !.chunkSource.known = @ \cup {s.holder.format}]

onLoaded(next, due) ==
  /\ Answered("END_OF_SOURCE")
  /\ updateLoadControl(clearCurrentLoadable(Consumed(src)), onFinished(task),
                       next, due)
  /\ UNCHANGED <<state, readVars>>

onLoadedNotParsed(next, due) ==
  /\ Answered("END_OF_SOURCE") /\ MayNotParse
  /\ ~isMediaChunk(src.holder)
  /\ updateLoadControl(Failed(Released(src, {src.holder}), "fatal"),
                       onFinished(task), next, due)
  /\ UNCHANGED <<state, readVars>>

onCanceled(next, due) ==
  /\ Answered("CANCELED")
  /\ LET c == src.holder
         s == clearCurrentLoadable(
                IF isMediaChunk(c) THEN src ELSE Released(src, {c}))
     IN  IF state = "ENABLED"
         THEN restartFrom(s, onFinished(task), s.reset, next, due)
         ELSE Rests(clearMediaChunks(s), onFinished(task))
  /\ UNCHANGED <<state, readVars>>

onError(next, due) ==
  /\ Answered("ERROR")
  /\ updateLoadControl(Failed(src, "error"), onFinished(task), next, due)
  /\ UNCHANGED <<state, readVars>>

Message(next, due) ==
  \/ onLoaded(next, due) \/ onLoadedNotParsed(next, due)
  \/ onCanceled(next, due) \/ onError(next, due)

-----------------------------------------------------------------------------
Load == LoadThread /\ UNCHANGED <<state, src, readVars>>

(* A released source has nothing left to do.                               *)
Quiet == state = "RELEASED" /\ ~isLoading(task) /\ UNCHANGED vars

Next ==
  \/ Prepare \/ Disable \/ Release \/ ReadDiscontinuity \/ readData
  \/ \E next, due \in BOOLEAN :
       \/ continueBuffering(next, due)
       \/ Message(next, due)
       \/ \E time \in SeekTimes :
            Enable(time, next, due) \/ seekToUs(time, next, due)
  \/ Load
  \/ Quiet

Spec == Init /\ [][Next]_vars

(* The load thread proceeds (a read returns or fails in the end), messages *)
(* are delivered, the player keeps calling continueBuffering and readData  *)
(* of an enabled source, and the load control lets it load again and again.*)
Fairness ==
  /\ WF_vars(Load)
  /\ WF_vars(\E next, due \in BOOLEAN : Message(next, due))
  /\ WF_vars(continueBuffering(TRUE, TRUE))
  /\ WF_vars(ReadDiscontinuity) /\ WF_vars(readData)

FairSpec == Spec /\ Fairness

-----------------------------------------------------------------------------
(* Type invariant.                                                         *)
TypeOK ==
  /\ state \in {"UNPREPARED", "PREPARED", "ENABLED", "RELEASED"}
  /\ src \in Source /\ task \in Task
  /\ pendingDiscontinuity \in BOOLEAN /\ thrown \in BOOLEAN
  /\ lastSeek \in Times \cup {None} /\ delivered \in Times \cup {None}
  /\ announced \in Formats \cup {NoFormat}

(* Loader.startLoading is never called while a load is in progress, and    *)
(* Chunk.init never for a chunk that has a stream: their checkState calls  *)
(* hold in every order of loads, seeks, errors and format switches.        *)
NoIllegalLoad == ~src.illegal

(* readData, updateLoadControl and getBufferedPositionUs take the first or *)
(* the last chunk of an enabled source without asking whether there is     *)
(* one: only a pending reset may leave the queue empty.  And discarding at *)
(* both ends, restarts and changes of format leave it without a gap, a     *)
(* repetition or a chunk after the last.                                   *)
QueueIsSound ==
  /\ state = "ENABLED" /\ ~isPendingReset => src.queue # <<>>
  /\ \A i \in 1..Len(src.queue) - 1 :
       src.queue[i + 1].segment = src.queue[i].segment + 1

(* While a load is under way its chunk is the one in the holder, has its   *)
(* stream, and if it is a media chunk ends the queue: no handler releases  *)
(* or replaces the chunk the load thread writes to (the callbacks and      *)
(* Loader.quit would find null).  A load that goes on although it was      *)
(* canceled will be answered by a restart from a known time, or belongs to *)
(* a source no longer enabled.                                             *)
LoadIsHeld ==
  isLoading(task) =>
    /\ src.holder \in src.open
    /\ isMediaChunk(src.holder) =>
         /\ src.queue # <<>> /\ src.holder = src.queue[Len(src.queue)]
    /\ task.canceled /\ state = "ENABLED" => isPendingReset

(* Only the chunks of the queue and the initialization chunk being loaded  *)
(* or retried have a stream that somebody can still release: chunks are    *)
(* released when they leave the queue, never while they are in it, and all *)
(* of them once a source is not enabled and the load it canceled has ended.*)
OpenIsInUse ==
  /\ src.open = Queued(src) \cup
                (IF ~isMediaChunk(src.holder)
                    /\ (isLoading(task) \/ src.exception = "error")
                 THEN {src.holder} ELSE {})
  /\ state # "ENABLED" /\ ~isLoading(task) => src.queue = <<>> /\ src.open = {}

(* A load in progress and the streams that are open fit the queue and the  *)
(* holder, in every order of loads, seeks, errors and format switches: the *)
(* three claims above.                                                     *)
LoadingIsSound == NoIllegalLoad /\ LoadIsHeld /\ OpenIsInUse

(* The samples a renderer reads follow each other, through chunk           *)
(* boundaries, format switches, retries and seeks that change nothing; a   *)
(* jump is announced by a discontinuity.                                   *)
SamplesFollowEachOther ==
  [][delivered' \in {delivered, None} \/ delivered = None
     \/ delivered' = delivered + 1]_vars

(* The first sample after a jump is of the segment sought ("Seeks to the   *)
(* specified time", SampleSource.seekToUs).                                *)
SeekGoesWhereAsked ==
  [][delivered = None /\ delivered' # None =>
       getSegmentNum(delivered') = getSegmentNum(lastSeek)]_vars

(* A source left enabled, whose loads fail no more, is read to its end.    *)
ReachesTheEnd ==
  <>[](state = "ENABLED" /\ ~pendingDiscontinuity /\ task.message # "ERROR")
    => <>[](delivered = LastSample)
=============================================================================
