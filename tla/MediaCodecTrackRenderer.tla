------------------------ MODULE MediaCodecTrackRenderer ------------------------
(* A video renderer between its source, its decoder and its DRM session:     *)
(* MediaCodecTrackRenderer with MediaCodecVideoTrackRenderer. The player's   *)
(* calls come one after another on the playback thread; the decoder works    *)
(* beside it, so each call of drainOutputBuffer and feedInputBuffer in       *)
(* doSomeWork's loops is a step. Sample n of the track is its nth frame too. *)
EXTENDS StreamingDrmSessionManager

CONSTANTS Samples,     \* of the track: [format, sync, encrypted]
          SeekTimes,   \* frames the player seeks
          NumInputs,   \* buffers of the decoder
          NumOutputs,
          Devices,     \* on which it may run
          MayFail      \* the source and the decoder's set-up may fail

Frames == DOMAIN Samples
Formats == {Samples[n].format : n \in Frames}
NoFormat == "none"

ASSUME SamplesAssumption ==
  /\ Samples # <<>> /\ NoFormat \notin Formats
  /\ Samples \in Seq([format : Formats, sync : BOOLEAN, encrypted : BOOLEAN])
  /\ Samples[1].sync
  /\ \A n \in Frames \ {1} : Samples[n].format # Samples[n - 1].format => Samples[n].sync
ASSUME RendererAssumption ==
  /\ SeekTimes \subseteq Frames /\ MayFail \in BOOLEAN
  /\ {NumInputs, NumOutputs} \subseteq Nat \ {0}
\* flushes: SDK_INT >= 18; adaptive: the decoder may be reconfigured; protected: the
\* track has drmInitData; playsClear: playClearSamplesWithoutKeys.
ASSUME DevicesAssumption ==
  Devices \subseteq [flushes : BOOLEAN, adaptive : BOOLEAN, protected : BOOLEAN,
                     playsClear : BOOLEAN]

VARIABLES device,
          renderer,
          codec,
          source,
          phase,     \* where the playback thread is: in doSomeWork's loops or in no call
          other      \* another renderer has opened the session

vars == <<device, renderer, codec, source, phase, other, drm>>
-----------------------------------------------------------------------------
\* What goes through the decoder: configuration data, the samples whose bytes are in
\* the buffer, and the time they came with; or the end of the stream.
Buffer == [config : Formats \cup {NoFormat}, data : Seq(Frames), time : Frames \cup {-2, 0}]
EndOfStream == [config |-> NoFormat, data |-> <<>>, time |-> 0]
NoBuffer == [EndOfStream EXCEPT !.time = -1]
EmptyBuffer == [EndOfStream EXCEPT !.time = -2]

\* The decoder (android.media.MediaCodec): what it was configured for, what it takes
\* samples to be, whether it has taken one since it was set up or flushed.
NoCodec == [configured |-> NoFormat, current |-> NoFormat, crypto |-> FALSE,
            begun |-> FALSE, queue |-> <<>>, outputs |-> <<>>]
NewCodec(format, crypto) ==
  [NoCodec EXCEPT !.configured = format, !.current = format, !.crypto = crypto]

\* The renderer: holder is the sample sampleHolder describes, input and output are
\* the buffers behind inputIndex and outputIndex, shown the last frame rendered
\* since renderedFirstFrame was reset.
NewRenderer ==
  [state |-> "DISABLED", failed |-> FALSE, surface |-> FALSE, format |-> NoFormat,
   openedDrmSession |-> FALSE, input |-> NoBuffer, output |-> NoBuffer, holder |-> 0,
   reconfigured |-> FALSE, reconfiguration |-> "NONE", inputStreamEnded |-> FALSE,
   outputStreamEnded |-> FALSE, waitingForKeys |-> FALSE,
   waitingForFirstSyncFrame |-> FALSE, decodeOnly |-> {}, shown |-> 0]

\* The source (SampleSource): what it reads next, from where on frames are wanted, and
\* up to where it had been read when the player last sought within what was read.
NewSource == [next |-> 1, announced |-> NoFormat, discontinuity |-> FALSE, wanted |-> 1,
              early |-> 0]

Init ==
  /\ device \in Devices
  /\ renderer = NewRenderer /\ codec = NoCodec /\ source = NewSource
  /\ phase = "idle" /\ other = FALSE /\ drm = NewManager

\* What a call works on, and what it leaves.
World == [renderer |-> renderer, codec |-> codec, drm |-> drm]
Leaves(w, then) ==
  /\ renderer' = w.renderer /\ codec' = w.codec /\ drm' = w.drm
  /\ phase' = IF w.renderer.failed THEN "idle" ELSE then
Throws(w) == [w EXCEPT !.renderer.failed = TRUE]

\* The playback thread is free for a call. When one throws the player stops at once.
Idle == phase = "idle" /\ ~renderer.failed

IsEncrypted(n) == device.protected /\ Samples[n].encrypted
-----------------------------------------------------------------------------
releaseCodec(w) ==
  IF w.codec = NoCodec THEN w
  ELSE [w EXCEPT !.codec = NoCodec,
                 !.renderer.input = NoBuffer, !.renderer.output = NoBuffer,
                 !.renderer.decodeOnly = {}, !.renderer.reconfigured = FALSE,
                 !.renderer.reconfiguration = "NONE"]

shouldInitCodec(w) ==
  w.codec = NoCodec /\ w.renderer.format # NoFormat /\ w.renderer.surface

\* The decoder that is set up, or fails to be before or after there is one.
Initialized(w) ==
  LET created == [w EXCEPT !.codec = NewCodec(w.renderer.format, device.protected)]
  IN  {[created EXCEPT !.renderer.input = NoBuffer, !.renderer.output = NoBuffer,
                       !.renderer.waitingForFirstSyncFrame = TRUE]}
        \cup (IF MayFail THEN {Throws(w), Throws(created)} ELSE {})

SessionOpened(w) ==
  IF w.renderer.openedDrmSession THEN {w}
  ELSE {[w EXCEPT !.drm = d, !.renderer.openedDrmSession = TRUE] : d \in open(w.drm)}

maybeInitCodec(w) ==
  IF ~shouldInitCodec(w) THEN {w}
  ELSE IF ~device.protected THEN Initialized(w)
  ELSE UNION {CASE v.drm.state = "ERROR" -> {Throws(v)}
                [] IsOpened(v.drm) -> Initialized(v)
                [] OTHER -> {v} : v \in SessionOpened(w)}

\* A flush may lose configuration data the decoder was given.
Flushed(w) ==
  {[w EXCEPT !.codec = [@ EXCEPT !.current = f, !.begun = FALSE, !.queue = <<>>,
                       !.outputs = <<>>],
             !.renderer.input = NoBuffer, !.renderer.output = NoBuffer,
             !.renderer.decodeOnly = {}] : f \in {w.codec.current, w.codec.configured}}

\* Mutant: configuration data given before a flush is not given again.
Rewritten_Never(w) == w
Rewritten(w) ==
  IF w.renderer.reconfigured THEN [w EXCEPT !.renderer.reconfiguration = "WRITE_PENDING"]
  ELSE w
flushCodec(w) ==
  {Rewritten(v) : v \in IF device.flushes THEN Flushed(w)
                        ELSE maybeInitCodec(releaseCodec(w))}

onInputFormatChanged(w, format) ==
  LET v == [w EXCEPT !.renderer.format = format]
  IN  IF w.codec # NoCodec /\ device.adaptive
      THEN {[v EXCEPT !.renderer.reconfigured = TRUE,
                      !.renderer.reconfiguration = "WRITE_PENDING"]}
      ELSE maybeInitCodec(releaseCodec(v))
-----------------------------------------------------------------------------
\* The source answers readData: it has nothing yet, or what is next.
NothingRead == UNCHANGED source
DiscontinuityRead == source.discontinuity /\ source' = [source EXCEPT !.discontinuity = FALSE]
HasNext == ~source.discontinuity /\ source.next \in Frames
FormatRead ==
  /\ HasNext /\ source.announced # Samples[source.next].format
  /\ source' = [source EXCEPT !.announced = Samples[source.next].format]
SampleRead ==
  /\ HasNext /\ source.announced = Samples[source.next].format
  /\ source' = [source EXCEPT !.next = @ + 1]
EndOfStreamRead == ~source.discontinuity /\ source.next \notin Frames /\ UNCHANGED source

\* The last sync frame up to a frame.
SyncFrame(n) == Max({m \in Frames : m <= n /\ Samples[m].sync})

Working == Idle /\ renderer.state \in {"ENABLED", "STARTED"}

\* The source throws, or the decoder does.
Fails(w) == MayFail /\ UNCHANGED source /\ Leaves(Throws(w), "idle")

readFormat ==
  \/ (NothingRead \/ DiscontinuityRead) /\ Leaves(World, "idle")
  \/ FormatRead /\ \E w \in onInputFormatChanged(World, source'.announced) : Leaves(w, "idle")

\* Mutant: the sample discarded last is taken to be the next.
discardSamples_Ahead ==
  \E n \in source.next + 1..Len(Samples) + 1 :
    /\ source' = [source EXCEPT !.next = n]
    /\ Leaves([World EXCEPT !.renderer.holder = n], "idle")
\* Without a surface samples are read and thrown away, to the playback position or
\* as far as there are any of the format.
discardSamples ==
  \/ DiscontinuityRead /\ Leaves(World, "idle")
  \/ /\ ~source.discontinuity
     /\ \E n \in source.next..Len(Samples) + 1 :
          LET w == [World EXCEPT !.renderer.holder =
                                   IF n = source.next THEN @ ELSE n - 1]
          IN  /\ \A m \in source.next..n - 1 : Samples[m].format = source.announced
              /\ \/ /\ source' = [source EXCEPT !.next = n]
                    /\ Leaves(w, "idle")
                 \/ /\ n \in Frames /\ Samples[n].format # source.announced
                    /\ source' = [source EXCEPT !.next = n, !.announced = Samples[n].format]
                    /\ \E v \in onInputFormatChanged(w, Samples[n].format) : Leaves(v, "idle")

\* Mutant: the decoder goes on with what it had.
checkForDiscontinuity_NoFlush ==
  (IF source.discontinuity THEN DiscontinuityRead ELSE NothingRead)
    /\ Leaves(World, "drain")
checkForDiscontinuity ==
  IF source.discontinuity
  THEN DiscontinuityRead /\ \E w \in flushCodec(World) : Leaves(w, "drain")
  ELSE NothingRead /\ Leaves(World, "drain")

doSomeWork ==
  /\ Working
  /\ \/ Fails(World)
     \/ renderer.format = NoFormat /\ readFormat
     \/ /\ renderer.format # NoFormat /\ codec = NoCodec
        /\ IF ~shouldInitCodec(World) /\ renderer.state = "STARTED"
           THEN discardSamples
           ELSE /\ UNCHANGED source
                /\ \E w \in maybeInitCodec(World) :
                     Leaves(w, IF w.codec = NoCodec THEN "idle" ELSE "drain")
     \/ codec # NoCodec /\ checkForDiscontinuity
  /\ UNCHANGED <<device, other>>
-----------------------------------------------------------------------------
\* dequeueOutputBuffer, unless there is a frame left from before.
Dequeued ==
  IF renderer.output # NoBuffer \/ codec.outputs = <<>> THEN World
  ELSE [World EXCEPT !.renderer.output = Head(codec.outputs), !.codec.outputs = Tail(@)]

\* A frame is skipped, dropped when it is late, rendered, or kept until it is time.
Released(w, shown) ==
  Leaves([w EXCEPT !.renderer.output = NoBuffer, !.renderer.shown = shown,
                   !.renderer.decodeOnly = @ \ {w.renderer.output.time}], "drain")
processOutputBuffer(w) ==
  LET time == w.renderer.output.time
  IN  \/ Released(w, renderer.shown)
      \/ /\ time \notin renderer.decodeOnly
         /\ \/ /\ renderer.shown = 0 \/ renderer.state = "STARTED"
               /\ Released(w, time)
            \/ renderer.shown # 0 /\ Leaves(w, "feed")

drainOutputBuffer ==
  /\ phase = "drain"
  /\ LET w == Dequeued
     IN  CASE renderer.outputStreamEnded -> Leaves(World, "feed")
           [] ~renderer.outputStreamEnded /\ w.renderer.output = NoBuffer ->
                Leaves(w, "feed")
           [] ~renderer.outputStreamEnded /\ w.renderer.output = EndOfStream ->
                Leaves([w EXCEPT !.renderer.outputStreamEnded = TRUE], "feed")
           [] OTHER -> processOutputBuffer(w)
  /\ UNCHANGED <<device, source, other>>
-----------------------------------------------------------------------------
\* feedInputBuffer has a buffer, with the configuration data that is due in it.
CanFill == renderer.input # NoBuffer \/ Len(codec.queue) < NumInputs
Filling ==
  [World EXCEPT !.renderer.input = IF @ = NoBuffer THEN EmptyBuffer ELSE @]
Configured(w) ==
  IF w.renderer.reconfiguration = "WRITE_PENDING"
  THEN [w EXCEPT !.renderer.input.config = w.renderer.format,
                 !.renderer.reconfiguration = "QUEUE_PENDING"]
  ELSE w
\* data.clear: configuration data is to be written again.
Cleared(w) ==
  [w EXCEPT !.renderer.input = EmptyBuffer,
            !.renderer.reconfiguration = IF @ = "QUEUE_PENDING" THEN "WRITE_PENDING" ELSE @]
\* A second format, or the end, takes back the configuration data of the first.
TakenBack(w) == IF w.renderer.reconfiguration = "QUEUE_PENDING" THEN Cleared(w) ELSE w

queueInputBuffer(w, buffer) ==
  [w EXCEPT !.codec.queue = Append(@, buffer), !.renderer.input = NoBuffer]

EndQueued(w) ==
  queueInputBuffer([TakenBack(w) EXCEPT !.renderer.inputStreamEnded = TRUE], EndOfStream)

\* Mutant: an open session will do.
shouldWaitForKeys_Open(w, n) ==
  w.renderer.openedDrmSession /\ ~IsOpened(w.drm) /\ (IsEncrypted(n) \/ ~device.playsClear)
shouldWaitForKeys(w, n) ==
  /\ w.renderer.openedDrmSession /\ w.drm.state # "OPENED_WITH_KEYS"
  /\ IsEncrypted(n) \/ ~device.playsClear

SampleQueued(w, n) ==
  [queueInputBuffer(w, [w.renderer.input EXCEPT !.time = n])
     EXCEPT !.renderer.reconfiguration = "NONE", !.renderer.waitingForKeys = FALSE,
            !.renderer.decodeOnly = IF n < source.wanted THEN @ \cup {n} ELSE @]

\* The sample sampleHolder describes is passed on, if it may be.
Feeds(w) ==
  LET n == w.renderer.holder
      v == [w EXCEPT !.renderer.waitingForFirstSyncFrame = FALSE]
  IN  IF w.renderer.waitingForFirstSyncFrame /\ ~Samples[n].sync
      THEN Leaves(Cleared(w), "feed")
      ELSE IF w.renderer.openedDrmSession /\ w.drm.state = "ERROR"
      THEN Leaves(Throws(v), "idle")
      ELSE IF shouldWaitForKeys(v, n)
      THEN Leaves([v EXCEPT !.renderer.waitingForKeys = TRUE], "idle")
      ELSE Leaves(SampleQueued(v, n), "feed") \/ (MayFail /\ Leaves(Throws(v), "idle"))

Reads(w) ==
  \/ NothingRead /\ Leaves(w, "idle")
  \/ DiscontinuityRead /\ \E v \in flushCodec(w) : Leaves(v, "feed")
  \/ /\ FormatRead
     /\ \E v \in onInputFormatChanged(TakenBack(w), source'.announced) : Leaves(v, "feed")
  \/ EndOfStreamRead /\ Leaves(EndQueued(w), "idle")
  \/ /\ SampleRead
     /\ LET n == source.next
        IN  Feeds([w EXCEPT !.renderer.holder = n, !.renderer.input.data = Append(@, n)])
  \/ Fails(w)

feedInputBuffer ==
  /\ phase = "feed" /\ codec # NoCodec
  /\ IF renderer.inputStreamEnded \/ ~CanFill
     THEN UNCHANGED source /\ Leaves(World, "idle")
     ELSE IF renderer.waitingForKeys
     THEN UNCHANGED source /\ Feeds(Filling)
     ELSE Reads(Configured(Filling))
  /\ UNCHANGED <<device, other>>
-----------------------------------------------------------------------------
\* The player's calls.
Enable(t) ==
  /\ Idle /\ renderer.state = "DISABLED"
  /\ \E discontinuity \in BOOLEAN :
       source' = [next |-> SyncFrame(t), announced |-> NoFormat,
                  discontinuity |-> discontinuity, wanted |-> t, early |-> 0]
  /\ renderer' = [renderer EXCEPT !.state = "ENABLED", !.inputStreamEnded = FALSE,
                                  !.outputStreamEnded = FALSE, !.waitingForKeys = FALSE,
                                  !.shown = 0]
  /\ UNCHANGED <<device, codec, phase, other, drm>>

\* Where the source goes on: at a sync frame, or where it is, when that is between
\* the sync frame and the frame sought (ChunkSampleSource, within a chunk).
SeekSource(t) ==
  \/ source' = [source EXCEPT !.next = SyncFrame(t), !.discontinuity = TRUE,
                              !.wanted = t, !.early = 0]
  \/ /\ SyncFrame(t) <= source.next /\ source.next <= t
     /\ source' = [source EXCEPT !.wanted = t, !.early = source.next - 1]

seekTo(t) ==
  /\ Idle /\ renderer.state = "ENABLED"
  /\ SeekSource(t)
  /\ renderer' = [renderer EXCEPT !.inputStreamEnded = FALSE, !.outputStreamEnded = FALSE,
                                  !.waitingForKeys = FALSE, !.shown = 0]
  /\ UNCHANGED <<device, codec, phase, other, drm>>

Start ==
  /\ Idle /\ renderer.state = "ENABLED"
  /\ renderer' = [renderer EXCEPT !.state = "STARTED"]
  /\ UNCHANGED <<device, codec, source, phase, other, drm>>
Stop ==
  /\ Idle /\ renderer.state = "STARTED"
  /\ renderer' = [renderer EXCEPT !.state = "ENABLED"]
  /\ UNCHANGED <<device, codec, source, phase, other, drm>>

\* onDisabled: the decoder goes before the session. A renderer that failed is
\* released with it.
Disable ==
  /\ phase = "idle"
  /\ IF renderer.failed THEN TRUE ELSE renderer.state = "ENABLED"
  /\ LET w == releaseCodec(World)
     IN  /\ codec' = w.codec
         /\ renderer' = [w.renderer EXCEPT
                           !.state = IF renderer.failed THEN "RELEASED" ELSE "DISABLED",
                           !.format = NoFormat, !.openedDrmSession = FALSE]
         /\ drm' \in IF renderer.openedDrmSession THEN close(drm) ELSE {drm}
  /\ UNCHANGED <<device, source, phase, other>>

Release ==
  /\ Idle /\ renderer.state = "DISABLED"
  /\ renderer' = [renderer EXCEPT !.state = "RELEASED"]
  /\ UNCHANGED <<device, codec, source, phase, other, drm>>

\* A surface, another one, or none.
setSurface(surface) ==
  /\ Idle
  /\ LET w == [World EXCEPT !.renderer.surface = surface]
     IN  IF renderer.state \in {"ENABLED", "STARTED"}
         THEN \E v \in maybeInitCodec(releaseCodec(w)) : Leaves(v, "idle")
         ELSE Leaves(w, "idle")
  /\ UNCHANGED <<device, source, other>>
-----------------------------------------------------------------------------
\* Another renderer of the player uses the session.
OtherOpens ==
  /\ Idle /\ device.protected /\ ~other
  /\ other' = TRUE /\ drm' \in open(drm)
  /\ UNCHANGED <<device, renderer, codec, source, phase>>
OtherCloses ==
  /\ Idle /\ other
  /\ other' = FALSE /\ drm' \in close(drm)
  /\ UNCHANGED <<device, renderer, codec, source, phase>>

Messages ==
  /\ Idle /\ handleMessage
  /\ UNCHANGED <<device, renderer, codec, source, phase, other>>
\* The session's threads, and MediaDrm; they only post, so between the calls will do.
Drm ==
  /\ Idle /\ device.protected
  /\ Answer \/ AnswerLate \/ onEvent
  /\ UNCHANGED <<device, renderer, codec, source, phase, other>>

\* The decoder takes a buffer; an empty one gives no frame.
Decode ==
  /\ codec.queue # <<>> /\ Len(codec.outputs) < NumOutputs
  /\ LET buffer == Head(codec.queue)
         IsFrame == buffer.data # <<>>
     IN  codec' = [codec EXCEPT
                     !.queue = Tail(@),
                     !.current = IF buffer.config = NoFormat THEN @ ELSE buffer.config,
                     !.begun = @ \/ buffer.time > 0,
                     !.outputs = IF IsFrame \/ buffer = EndOfStream
                                 THEN Append(@, buffer) ELSE @]
  /\ UNCHANGED <<device, renderer, source, phase, other, drm>>

Quiet == renderer.state = "RELEASED" /\ UNCHANGED vars

Next ==
  \/ doSomeWork \/ drainOutputBuffer \/ feedInputBuffer
  \/ \E t \in SeekTimes : Enable(t) \/ seekTo(t)
  \/ Start \/ Stop \/ Disable \/ Release
  \/ \E surface \in BOOLEAN : setSurface(surface)
  \/ OtherOpens \/ OtherCloses \/ Messages \/ Drm \/ Decode \/ Quiet

Spec == Init /\ [][Next]_vars
-----------------------------------------------------------------------------
(* Type invariant.                                                         *)
TypeOK ==
  /\ device \in Devices /\ IsManager(drm)
  /\ phase \in {"idle", "drain", "feed"} /\ other \in BOOLEAN
  /\ DOMAIN renderer = DOMAIN NewRenderer
  /\ renderer.state \in {"DISABLED", "ENABLED", "STARTED", "RELEASED"}
  /\ {renderer.input, renderer.output} \subseteq Buffer \cup {NoBuffer}
  /\ renderer.reconfiguration \in {"NONE", "WRITE_PENDING", "QUEUE_PENDING"}
  /\ renderer.holder \in Frames \cup {0} /\ renderer.decodeOnly \subseteq Frames
  /\ renderer.shown \in Frames \cup {0} /\ renderer.format \in Formats \cup {NoFormat}
  /\ DOMAIN codec = DOMAIN NoCodec
  /\ codec.queue \in Seq(Buffer) /\ codec.outputs \in Seq(Buffer)
  /\ source \in [next : Nat, announced : Formats \cup {NoFormat},
                 discontinuity : BOOLEAN, wanted : Frames, early : Nat]

\* What is in the decoder and in its buffers, in the order it came in.
Held(buffer) == IF buffer = NoBuffer THEN <<>> ELSE <<buffer>>
Pipeline ==
  Held(renderer.output) \o codec.outputs \o codec.queue \o Held(renderer.input)
InFlight == FlattenSeq([i \in DOMAIN Pipeline |-> Pipeline[i].data])

\* What is in the decoder are the samples last read, none missing or twice - but one
\* held before a sync frame that is not past the frame sought, which a change of
\* format may lose - and what was shown comes before them; since a seek no frame
\* before the position is shown, except those that were read already when the source
\* sought within what it had.
FollowsIn(m, n) ==
  n = m + 1 \/ (m < n /\ n <= source.wanted /\ Samples[n].sync)
FollowingFrames ==
  ~source.discontinuity =>
    /\ \A i \in DOMAIN InFlight :
         FollowsIn(InFlight[i], Append(InFlight, source.next)[i + 1])
    /\ renderer.shown # 0 =>
         /\ InFlight # <<>> => renderer.shown < Head(InFlight)
         /\ renderer.shown >= source.wanted \/ renderer.shown <= source.early

\* When the renderer has ended nothing is left in the decoder. While it has not, the
\* end it read is on its way through the decoder - unless that is a new one, for
\* another surface, which is never told of the end.
EndFollowsLastFrame ==
  /\ renderer.outputStreamEnded =>
       /\ renderer.inputStreamEnded /\ source.next \notin Frames
       /\ codec.queue = <<>> /\ codec.outputs = <<>>
  /\ renderer.inputStreamEnded /\ ~renderer.outputStreamEnded
       /\ codec # NoCodec /\ ~source.discontinuity /\ ~renderer.failed =>
     EndOfStream \in ToSet(Pipeline) \/ renderer.waitingForFirstSyncFrame

(* Frames are shown one after another, none missing or twice, through seeks, *)
(* flushes, changes of format and of the surface, and the track ends after   *)
(* its last frame.                                                           *)
FramesFollowEachOther == FollowingFrames /\ EndFollowsLastFrame

\* What the decoder takes the ith buffer of its queue to be of.
TakenAs(i) ==
  LET configs == {j \in 1..i : codec.queue[j].config # NoFormat}
  IN  IF configs = {} THEN codec.current ELSE codec.queue[Max(configs)].config

(* The decoder is never given a sample of a format it is not set up for,     *)
(* whatever changes of format, seeks, flushes and new decoders came between, *)
(* and the loops of doSomeWork never go on without a decoder. A new or       *)
(* flushed decoder gets a sync frame first. This excepts what waiting for    *)
(* keys may do to the sample held: a seek may have the next one read behind  *)
(* it, another surface may lose it.                                          *)
DecodesInFormat ==
  /\ phase # "idle" => codec # NoCodec
  /\ \A i \in DOMAIN codec.queue :
       Len(codec.queue[i].data) = 1 =>
         Samples[codec.queue[i].data[1]].format = TakenAs(i)
  /\ ~device.protected /\ ~codec.begun /\ codec.queue # <<>> =>
       codec.queue[1] = EndOfStream \/ Samples[codec.queue[1].time].sync

(* An encrypted sample goes to the decoder only when the session has the     *)
(* keys and the decoder was set up with the session, though keys expire, the *)
(* session fails, and it may have been closed and opened by others before.   *)
KeysAreThere ==
  [][Len(codec'.queue) > Len(codec.queue) =>
       \A n \in Frames :
         Last(codec'.queue).data = <<n>> /\ IsEncrypted(n) =>
           drm.state = "OPENED_WITH_KEYS" /\ codec.crypto]_vars

\* Nobody waits for keys that nobody fetches: while the session is being opened or
\* lacks keys, a request or an answer that may change that is on its way.
KeysAreOnTheirWay ==
  LET onTheirWay ==
        ToSet(drm.requests) \cup {drm.inbox[i].what : i \in DOMAIN drm.inbox}
  IN  /\ drm.state = "OPENING" => "PROVISION" \in onTheirWay
      /\ drm.state = "OPENED" => onTheirWay \cap Requests # {}

\* It counts its users, is opened once, and with the last one its requests and
\* answers go, but for what a former thread is at; a decoder set up with it does not
\* outlive it, and a disabled renderer holds neither (TrackRenderer, STATE_PREPARED).
ClosedWhenUnused ==
  /\ drm.openCount =
       (IF renderer.openedDrmSession THEN 1 ELSE 0) + (IF other THEN 1 ELSE 0)
  /\ drm.openCount = 0 =>
       /\ drm.state = "CLOSED" /\ ~drm.hasSession /\ drm.requests = <<>>
       /\ \A i \in DOMAIN drm.inbox : drm.inbox[i].late
  /\ drm.state = "OPENING" => ~drm.hasSession
  /\ codec.crypto => renderer.openedDrmSession /\ drm.hasSession
  /\ renderer.state \in {"DISABLED", "RELEASED"} =>
       codec = NoCodec /\ ~renderer.openedDrmSession

(* The session is open as long as a renderer uses it and no longer, and gets *)
(* them their keys unless it fails, whatever answers come late and events in *)
(* between.                                                                  *)
SessionServesItsUsers == KeysAreOnTheirWay /\ ClosedWhenUnused
=============================================================================
