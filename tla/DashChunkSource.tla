--------------------------- MODULE DashChunkSource ---------------------------
(***************************************************************************)
(* DashMp4ChunkSource.java with the adaptive FormatEvaluator: which chunk  *)
(* a ChunkSampleSource should load next.  Media time is counted in         *)
(* samples, so that sample t lies in segment t \div ChunkSize.  Bandwidth  *)
(* is left out: the evaluator may want any format at any time.             *)
(***************************************************************************)
EXTENDS Loader, Integers, Sequences

CONSTANTS
  NumSegments,   \* segments of the stream
  NumFormats,    \* representations, by increasing bitrate
  MinRetained    \* chunks a switch to a higher format never discards
                 \* (minDurationToRetainAfterDiscardUs)

ASSUME ChunkSourceAssumption ==
  /\ NumSegments \in Nat \ {0} /\ NumFormats \in Nat \ {0}
  /\ MinRetained \in Nat \ {0}

Formats == 1..NumFormats
Segments == 0..NumSegments - 1
Times == 0..NumSegments * ChunkSize - 1
LastSample == NumSegments * ChunkSize - 1
None == -1
NoFormat == 0

(* evaluation.format, lastChunkWasInitialization, and the formats whose    *)
(* initialization and index data have been consumed.                       *)
ChunkSource == [format : Formats \cup {NoFormat}, lastWasInit : BOOLEAN,
                known : SUBSET Formats]
NewChunkSource == [format |-> NoFormat, lastWasInit |-> FALSE, known |-> {}]

getSegmentNum(time) == time \div ChunkSize

(* A Mp4MediaChunk or an InitializationMp4Loadable; NoChunk is null.       *)
MediaChunk(format, segment) ==
  [kind |-> "media", format |-> format, segment |-> segment]
InitChunk(format) == [kind |-> "init", format |-> format, segment |-> None]
NoChunk == [kind |-> "none", format |-> NoFormat, segment |-> None]
MediaChunks == {MediaChunk(f, g) : f \in Formats, g \in Segments}
Chunks == MediaChunks \cup {InitChunk(f) : f \in Formats}

isMediaChunk(c) == c.kind = "media"
isLastChunk(c) == c.segment = NumSegments - 1
SizeOf(c) == IF isMediaChunk(c) THEN ChunkSize ELSE 1

(* AdaptiveEvaluator.evaluate: a format, and how much of the queue to      *)
(* keep.  Queued chunks are only discarded for a higher format than the    *)
(* one selected so far, from the first one that is lower than it, and      *)
(* never before the retained duration.                                     *)
evaluate(d, queue) ==
  {e \in [format : Formats, queueSize : 0..Len(queue)] :
     \/ e.queueSize = Len(queue)
     \/ /\ d.format # NoFormat /\ e.format > d.format
        /\ e.queueSize >= MinRetained
        /\ queue[e.queueSize + 1].format < e.format}

(* No evaluation between an initialization chunk and what follows it.      *)
Evaluations(d, queue) ==
  IF d.format # NoFormat /\ d.lastWasInit
  THEN {[format |-> d.format, queueSize |-> Len(queue)]}
  ELSE evaluate(d, queue)

(* Whether getChunkOperation leaves the chunk of the holder as it is.      *)
LeftUnchanged(queue, chunk, e) ==
  /\ e.queueSize = Len(queue)
  /\ chunk # NoChunk /\ chunk.format = e.format

(* The chunk that follows the ones kept, or the one at the seek position.  *)
nextChunk_AfterDiscarded(queue, seekTime, e) ==
  IF queue = <<>>
  THEN MediaChunk(e.format, getSegmentNum(seekTime))
  ELSE LET last == queue[Len(queue)]
       IN  IF isLastChunk(last)
           THEN NoChunk
           ELSE MediaChunk(e.format, last.segment + 1)
nextChunk_NoEnd(queue, seekTime, e) ==
  IF queue = <<>>
  THEN MediaChunk(e.format, getSegmentNum(seekTime))
  ELSE MediaChunk(e.format, queue[e.queueSize].segment + 1)
nextChunk(queue, seekTime, e) ==
  IF queue = <<>>
  THEN MediaChunk(e.format, getSegmentNum(seekTime))
  ELSE LET last == queue[e.queueSize]
       IN  IF isLastChunk(last)
           THEN NoChunk
           ELSE MediaChunk(e.format, last.segment + 1)

(* What getChunkOperation leaves in the holder.                            *)
getChunkOperation(d, queue, seekTime, chunk, e) ==
  IF LeftUnchanged(queue, chunk, e) THEN chunk
  ELSE IF e.format \notin d.known THEN InitChunk(e.format)
  ELSE nextChunk(queue, seekTime, e)

(* And in the chunk source: the flag follows the new chunks.               *)
AfterOperation(d, queue, seekTime, chunk, e) ==
  LET c == getChunkOperation(d, queue, seekTime, chunk, e)
  IN  [d EXCEPT
         !.format = e.format,
         !.lastWasInit = IF LeftUnchanged(queue, chunk, e) \/ c = NoChunk
                         THEN @ ELSE ~isMediaChunk(c)]
=============================================================================
