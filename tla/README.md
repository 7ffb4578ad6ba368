# A TLA+ model of amlexo

amlexo is a media player for Android: ExoPlayer 1.0 (`src/src/com/google/android/exoplayer`), an FFmpeg demuxer
behind JNI that is its own addition (`src/jni`, `FFExtractor.java`, `FFSampleSource.java`), and the applications that
drive it (`src/src/com/mediacodec/demo`, `src/src/com/meson/videoplayer2`). It has no tests. Most of what can go wrong
in it is an order of events between threads: the application's, the player's playback thread, the load threads, the
DRM threads. That is what is modelled here.

## The system

| part | state it keeps | operations | hard behaviour | what makes it correct |
|---|---|---|---|---|
| **Player**: `ExoPlayerImpl` (application thread), `ExoPlayerImplInternal` (playback thread), `TrackRenderer` | playback state, playWhenReady and its pending acknowledgements, enabled flags; the renderers' life cycles, clock, two message queues | prepare, setPlayWhenReady, seekTo, stop, release, sendMessage, blockingSendMessage, setRendererEnabled; incremental preparation, doSomeWork; events back to the listeners | calls queue up behind failures and state changes; a renderer throws in the middle of a loop; messages delayed past the end of their session; two calls block the application | life cycles respected; plays exactly when it should; never falls asleep; the view is late but not wrong; nothing leaks; blocking calls return |
| **Loader** | the load thread's task, the callbacks posted to the owner | startLoading, cancelLoading, release | cancel races completion | one load at a time, exactly one outcome |
| **ChunkSampleSource** | media chunk queue, current load, pending reset, back-off after errors, per-track state | enable, disable, continueBuffering, readData, seekToUs, onLoaded/onCanceled/onError | a seek or disable while a load is in flight; retries; discarding chunks from both ends | a chunk in use is not released; the position after a seek is the one asked for |
| **DefaultLoadControl, NetworkLock** | per-loader buffer states, the priority bar | register, update, unregister | watermarks, a loader failing while others wait | the lock is held exactly while filling; nobody waits for ever |
| **BufferPool, DataSourceStream** | free and allocated fragments; load and read positions | allocate, release, trim; load, read, seek | two threads on one stream | no fragment in two places; reads see only what was loaded |
| **Cache**: `SimpleCache`, evictor, `CacheDataSource`, `CacheDataSink` | spans by position, locks on holes, total space, LRU order, files | startReadWrite, startFile, commitFile, releaseHoleSpan; open, read, close | several readers and writers, eviction under a reader, crash with a half-written file | spans disjoint, one writer per hole, space bounded, a hole is always released |
| **DRM**: `StreamingDrmSessionManager` | reference count, session, state, provisioning and key requests in flight | open, close, responses, events, errors | responses of an old session after close and reopen | keys only for the open session |
| **Codec renderers**: `MediaCodecTrackRenderer` and its audio and video forms | codec, its input and output buffers, format, end-of-stream flags, re-initialisation | enable, disable, seek, doSomeWork, feedInputBuffer, drainOutputBuffer | buffers returned across a flush; format changes; missing keys | each codec buffer is owned once; end of stream follows the last frame |
| **FFmpeg extractor**: `FFDemux`, `FFIO`, `PTSPopulator`, JNI glue, `FFSampleSource` | packet queues, current track, timestamps; per-track states and discontinuities | setDataSource, selectTrack, seekTo, advance, readSampleData | end of file, seeks, several tracks interleaved | every packet delivered once and in order; every call returns |
| **Parsers**: fragmented MP4, WebM/EBML | a stack of open elements, bytes still missing | read, seek | input that runs dry anywhere | parsing is the same however the input is cut |
| **DASH, SmoothStreaming chunk sources, FormatEvaluator** | chosen format, segment index | getChunkOperation | quality switches that discard queued chunks | next segment follows the last one kept |
| **Utilities**: `SlidingPercentile`, `LongArray`, binary searches, `ManifestFetcher` | a weighted window | addSample, getPercentile | boundaries | agrees with the definition of a percentile |
| **DemoPlayer, FullPlayerActivity** | state of the asynchronous renderer building, the surface, the selected tracks, a player; what the user was shown | prepare, onRenderers, setSurface, blockingClearSurface, selectTrack, release; resume, pause, surface callbacks | builders answering late or after a release; a surface destroyed under the decoder; a track selected by five messages | one preparation is played; no decoder outlives its surface; the last word on tracks prevails |
| **Other applications, vendored code** | user interface; FFmpeg and platform headers | | | not modelled |

How the parts meet: the player calls renderers (in its thread), a renderer reads a `SampleSource` (same thread), a
`ChunkSampleSource` starts loads on a `Loader` whose results come back as messages to the playback thread, loads go
through `DataSource`s that a `NetworkLock` orders and a cache may serve, and all loaders share one `DefaultLoadControl`
and one `BufferPool`. Everything the application hears comes back through the event handler of its own thread.

## The project

| module | models | extends | checked by | proofs |
|---|---|---|---|---|
| `TrackRenderer`, `ExoPlayer` | the player | | `player_playback`, `player_messages` | `ExoPlayerProofs` |
| `PlaybackStates` | what a listener may see (abstract) | | as a property of `ExoPlayer` | refinement proved |
| `Loader`, `DashChunkSource`, `ChunkSampleSource` | one adaptive source and its loads | each the one before | `source_loading`, `source_end`, `source_seek` | `ChunkSampleSourceProofs` |
| `NetworkLock`, `DefaultLoadControl`, `SharedLoading` | sources that share memory and network | each the one before | `control_sharing`, `control_seeking`, `control_end` | `SharedLoadingProofs`, `FoldProofs` |
| `AVCFormat`, `PTSPopulator`, `FFIO`, `FFDemux` | the FFmpeg extractor | `FFDemux` the others | `extractor_reading` | `FFDemuxProofs`, `FoldProofs` |
| `Demultiplexer` | what an extractor promises (abstract) | | as a property of `FFDemux` | refinement proved |
| `SimpleCache`, `CacheDataSource` | the cache and its readers | the second the first | `cache_reading` | `CacheProofs`, `FoldProofs` |
| `StreamingDrmSessionManager`, `MediaCodecTrackRenderer` | decoder, source and DRM session of a renderer | the second the first | `codec_rendering` | `CodecProofs`, `FoldProofs` |
| `DemoPlayer` | an application over the player | | `demo_player` | `DemoProofs`, `FoldProofs` |

Twelve runs: eleven pass, and `source_seek` shows where the code differs from its documentation. Every property a passing run
checks is violated by a plausible mistake in one of the modelled definitions, which stands before it in the module (named after
it, as in `Reset_ClockRuns`). Thirty-five theorems are listed in `PROJECT.json`; they hold for every value of the constants.
## The player

`TrackRenderer.tla` has the life cycle of the renderers of one `prepare` call, `ExoPlayer.tla` extends it with both
halves of the player, `PlaybackStates.tla` is the abstract specification of what a listener may see, `MCExoPlayer.tla`
names the sets of calls the instances use.

Correspondence. `state`, `playWhenReady`, `flags`, `rebuffering`, `released` are the fields of `ExoPlayerImplInternal`;
`held` says that its `renderers` field is not null; `rs[i]` is `TrackRenderer.state`; `enabled` is `enabledRenderers`;
`clockRunning` is `mediaClock.started`; `processed`/`sent` are the custom message counters. `appPlayWhenReady`,
`appFlags`, `pendingAcks`, `playbackState` are the fields of `ExoPlayerImpl`. The application's calls are the actions
`Prepare` ... `Release`; each handler of `handleMessage` is one action of the same name, with every branch, early return
and throw; the two blocking calls are split into the call and the return. `handedOver` is the application's own
knowledge that it may not hand over renderers twice without a `stop()`, as `DemoPlayer.prepare` does.

Messages. The handler's queue is `inbox` (what the application posted) together with `work` and `prep`: the places in
it of the player's own DO_SOME_WORK and INCREMENTAL_PREPARE messages, each as the number of application messages still
ahead. The two delayed messages are the timers. A handler is one step: the two threads share nothing but the queues
and the two counters the blocking calls wait on, a handler posts its own messages last, and events are only read by the
other thread, so an application step in its middle equals one before or after it.

Failure. A renderer in `Faulty` may throw at any callback. `Throws` leaves the loop the callback was in with any
part of it done (`MidLoop`), and then does what the catch blocks do: report, `stopInternal`, `resetInternal`, in which
each renderer is cleaned up apart and may throw again. A failing `checkState` is the same, and sets `illegal`.

Abstraction. Media time, durations and buffered positions are left out. Which enabled renderers have ended, and whether
the rest are ready, is chosen by the environment each time the player asks; a renderer that has ended stays so until it
is sought or enabled again. The rebuffer threshold is therefore a flag with no effect on readiness.

### Runs

| run | question | instance | bounds |
|---|---|---|---|
| `player_playback` | sessions, playing, seeking, renderers switched on and off, failing, releasing | two renderers, one faulty, one a time source | 2 calls queued, 2 events waiting |
| `player_messages` | do the blocking calls return, not too early, and is the last value committed | one faulty renderer, fair threads | the same, 2 custom messages |

`MaxInbox = 2` lets a call be queued behind another and behind the player's own messages, which is what the orders differ
in; `MaxEvents = 2` delays acknowledgements and state changes past new calls (a handler starts only with room for
events, and may post several). Two renderers are enough for "one fails, the other must not suffer" and for a proper
subset to be enabled, ended or started. `CHECK_DEADLOCK` is on: the only quiet state is a released player.

Properties. `NoIllegalTransition`: no `checkState` fails. `PlaysExactlyWhenPlaying`: clock and renderers run exactly while
ready and asked to. `EnabledAsAsked`: the enabled renderers are the ones asked for. `WorkIsScheduled`: the
messages that keep the playback thread going exist exactly when needed. `LastValueCommitted`: the last `playWhenReady` is
acknowledged in the end. `LetGoMeansReleased`: no healthy renderer leaks. `ViewCatchesUp`: once the events are served the
view is the player's, an error is followed by IDLE, and `isPlayWhenReadyCommitted` means what it says.
`ViewFollowsDiagram`: what listeners are told, as a refinement of `PlaybackStates`.
`RebufferingMeansDepleted`: the rebuffer threshold applies only after depletion.
`BlockingCallsReturn`: the blocking calls return, and not before what they ask for is done.

Seen while modelling: a renderer enabled in STATE_ENDED starts to buffer, but nothing leaves STATE_ENDED, so the player
reports "has finished playing the media" (`ExoPlayer.java:275`) with a renderer that has media to play and never starts it.
Outside the model, because the applications here do neither: a second `prepare` without `stop` fails a `checkState` or loses
the renderers of the first; a blocking call after `release` waits for ever. `getBufferedPercentage` multiplies by 100 in an
`int` (`ExoPlayerImpl.java:208`), which overflows for media longer than about six hours.

Fairness. `FairSpec` assumes weak fairness of the playback thread's looper, of delayed messages becoming due, of the
application's looper and of a waiting caller being woken (`notifyAll`). Nothing is assumed of the application's calls.

### Proofs

`ExoPlayerProofs.tla` proves, for every number of renderers, every set of failing ones, every subset of calls and all
bounds: `TypeCorrect`, `LifeCycleSafe`, `PlaysOnlyWhenPlaying`, `EnabledCorrect`, `NeverAsleep`, `NoRendererLeaks`. The
assumptions are `RendererAssumption` and `PlayerAssumption` (the constants' types). All follow from one inductive invariant
`IInv`, the conjunction of

- `TypeOK`;
- `CoreInv`: the renderers' states in each phase of a session (before, while and after preparing), the safety properties
  themselves, and that at most one INCREMENTAL_PREPARE is under way (`PrepareOnce`), without which a second one could
  be served after the first has finished the preparation;
- `QueueInv`: there is an assignment of "may hold renderers" to every prefix of the queue in which each PREPARE meets a
  player that holds none. It carries the application's promise (stop before prepare) through the queue;
- `AlternateInv`: the values of playWhenReady in the queue alternate, from the playback thread's to the application's. It
  carries `setPlayWhenReady`'s early return through the queue, and is why `startRenderers` never meets a started renderer.

`PlaybackStep` and `AppStep` show that each action preserves it, action by action; `ResetEffect`, `ThrowsEffect` say once
what a reset and a throw leave behind.

The second half of the module proves on top of it, in the same generality, `ViewCatchesUp`, `RebufferingMeansDepleted` and the
refinement of `PlaybackStates` (`ViewNeverWrong`, `RebufferingJustified`, `DiagramImplemented`). `IInv` says nothing of the
events; its companion `ViewInv` is the conjunction of

- `StoryInv`: the events are the story of the state. Each state told is one the diagram reaches from the state told before
  it, or from the view if it is the first; the last is the player's; and the next state told after an error is IDLE. Without
  the order among the events, what is true of the last would not survive the handling of the first;
- `AckInv`: with the changes of `playWhenReady` still in the application's messages and the acknowledgements still in the
  events counted, backwards from the end of the inbox, there are never more than `pendingAcks`. When none is awaited nothing
  that could change the value is on its way, so the player has the last one;
- `QuitInv`: RELEASE is the last message, and after it the player is idle and no event is handled;
- `RebufferingMeansDepleted` itself.

`OnlyEventsShow` then maps each step to one of the diagram's or to none. `BlockingCallsReturn`, `LastValueCommitted` and all
other liveness is model-checked only.

## Loading

`Loader.tla` has the load thread, `DashChunkSource.tla` extends it with the chunk source (what to load next), and
`ChunkSampleSource.tla` with the source itself: the queue between the loader and a renderer. `MCChunkSampleSource.tla`
names the seek times of the instances.

Correspondence. The load thread's steps are the actions of `Loader`: `Run`, `LoadMore`, `LoadEnds`, `LoadFails`; `task` is
the current `LoadTask` with its stream's `loadCanceled` and load position. Everything else happens on the playback thread,
a handler a step: the calls `Prepare`, `Enable`, `Disable`, `Release`, `continueBuffering`, `seekToUs`, `readData`
(`ReadDiscontinuity` and the disjuncts of `readData` are its results), the loader's messages `onLoaded`
(`onLoadedNotParsed` when `consume` throws), `onCanceled`, `onError`. `src` gathers the fields that `updateLoadControl`
works on, because nearly every handler prepares them and ends with it: an operator on `src` is a private method without
an end (`clearCurrentLoadable`, `discardUpstream`), and `Rests` and `Loads` are the two ends. `src.open` is the set of
chunks whose `dataSourceStream` is not null.

Abstraction. Time is counted in samples, `ChunkSize` to a segment, the first of each its only sync sample. The load
control answers yes or no, the evaluator wants any format and discards what `AdaptiveEvaluator` could, a back-off delay
has passed or not: all three are free choices at each call. Initialization and index data come in one request. A released
source is not prepared again, and a renderer whose `readData` has thrown only disables it, as the player does.

### Runs

| run | question | instance |
|---|---|---|
| `source_loading` | are queue, load, memory and reader always in step | 3 segments of 2 samples, 2 formats, loads fail, data may not parse |
| `source_end` | is an enabled source read to its end | 3 segments of 1 sample, 2 formats, loads fail, fair threads |
| `source_seek` | the finding | the smallest that shows it |

Nothing is bounded but the stream: errors, seeks and sessions recur without limit. Three segments give a queue with a
first, a middle and a last chunk; two samples a chunk that is read or loaded in part; two formats a switch up, a switch
down and a second initialization. `MinRetained` is how many chunks a switch to a better format spares; 1 is the least
the code can spare, and `source_end` has 2, because an evaluator that again and again discards the very next chunk, which
the 25 seconds of `minDurationToRetainAfterDiscardUs` exclude, keeps a reader waiting for ever.

Properties. `QueueIsSound`: the unguarded `getFirst` and
`getLast` never meet an empty queue, and no segment is skipped or repeated. `SamplesFollowEachOther`: nor is a sample.
`LoadingIsSound`: no load is started and no chunk opened twice, what the load thread works on stays until it has answered,
a canceled load is always followed up, and memory is held by chunks in use only.
`ReachesTheEnd`: progress. The code does not have `SeekGoesWhereAsked`: the run of the finding finds it violated.

Finding. `source_seek`: two seeks in quick succession, the second back into what is still queued, play from the first.

Seen while modelling. Initialization data that failed to load twice stays open in the holder while it is backed off; disable
or a seek then forgets it with its memory (`clearCurrentLoadable`, 598-604), which nobody can release any more: `open` is the
chunks somebody still can. Initialization data that does not parse after a switch of format stops loading for good, but
`readData` throws only while a reset is pending or a chunk read in part runs dry (336-372), so a reader that has read its last
chunk to the end waits silently for ever, where `SampleSource.java` documents an `IOException`. And harmless: the chunk that replaces one in back-off is thrown away, and asked for again later.

Fairness. `FairSpec`: the load thread proceeds (a blocked read returns or fails in the end), messages are delivered, the
player's `doSomeWork` keeps calling `continueBuffering` and `readData`, and the load control lets the source load again and
again, as `DefaultLoadControl` does for the only loader below its watermark.

### Proofs

`ChunkSampleSourceProofs.tla` proves, for streams of any length, chunks of any size and all formats and seek times, `TypeOK`,
`LoadingIsSound`, `QueueIsSound` and the action property `SamplesFollowEachOther`. The assumptions are those of the modules
(the constants' types, a stream with at least a segment). None of the properties is inductive; `IInv` is the conjunction of

- `Settled`: what every handler leaves behind. The queue is numbered without a gap, and one of three things holds: the chunk
  held is being loaded or to be loaded again, and is open and the last of the queue (`Held`); nothing is loaded, the open
  chunks are those of the queue, and the chunk held would follow the last of them (`Waiting`); or the data did not parse and
  nothing is loaded any more;
- `Placed`: an enabled source has a chunk or a time to start from;
- `LetsGo`: a source that is not enabled has let go of everything, or is about to, when the load it canceled answers; and an
  enabled one whose load was canceled is to be reset. Together with `Held` this is why `onCanceled` can clear what it clears;
- `Follows`: unless a discontinuity is still to be read, the sample read next is the one after the last delivered.

`updateLoadControl` ends nearly every handler, so what it does to a source in whatever state is proved once and cited by the
lemma of each handler. `ReachesTheEnd` is liveness, `SeekGoesWhereAsked` false.

## Load control

`NetworkLock.tla` has the lock and a download that heeds it, `DefaultLoadControl.tla` extends it with the control, and
`SharedLoading.tla` with the sources that share them: what `ChunkSampleSource.tla` leaves to free choice (may I load next?) is
decided here, by all of them. `MCSharedLoading.tla` gives the instances a video source in long chunks and an audio source
in short ones, each with its contribution to the shared memory.

Correspondence. `control` is the object's fields; `register`, `unregister` and `update` return what they make of it, `mayLoad`
what `update` returns, and `Becomes` installs it with the call of the network lock that `updateControlState` makes on the
way. A source is a record of the fields the control's answers depend on; its handlers have the names of the Java methods and
end in `Rests` or `updateLoadControl`, as in the source's own model. `Open(l)` is the load thread's first step, when
`DataSourceStream.load` takes the chunk's memory from the pool. `download` is where the download is: in `proceed`, asleep in it,
past it; `remove` wakes it. `Seek` and `Play` are the player, which moves on while every enabled renderer has read ahead.

Abstraction. One format a source, so one initialization chunk, which takes no memory, and no discarding from the queue's end;
memory is counted by the chunk; an initialization chunk in back-off that is dropped without its release (see
above) leaks nothing here. Retry delays have passed or not, freely; the retry of a first failure has none. The
download is not in `src/`: it does what the comments of `NetworkLock` ask of a task, and only one of its kind is present.

### Runs

| run | question | instance |
|---|---|---|
| `control_sharing` | are priority, lock and download in step | two sources come and go, a download |
| `control_seeking` | is memory bounded, are turns taken | seeks to 0 and 1 of 4, failures, unusable data, tight memory |
| `control_end` | does everything play to the end | both enabled, room for both |

Bounds. Only the media is finite. With length 4, video chunks of 2 and audio chunks of 1 the positions of the sources never
coincide for long; watermarks of 1 and 2 and pool thresholds of 0.2 and 0.8 put every load position and pool state within reach.
The contributions (6 and 2) are two chunks of each source, and in
`control_seeking` little more than a chunk each (4 and 1), so that the memory in use can exceed the bound if the control lets it.

Properties. `PriorityIsSound`: the streaming priority is held while buffers are filled, and after that for a known load
only; the lock counts it once, and no download sleeps without it. `MemoryIsBounded`: all sources together exceed the target by less
than a chunk each. `LoadsInTurn`: who loads is at or before the next position of every other source that is not
in the middle of a restart, and draining starts nothing but retries. `PlaysToTheEnd`: all is played, and nobody who is
behind is kept there. That a download is served in the end follows from the first, if it is woken and the sources' loads end.

Seen while modelling. With contributions of 5 and 2, less than the sources' overshoot, `NobodyStaysBehind` (in `PlaysToTheEnd`) does not hold: the
source behind is refused for ever and playback stops, because a waiting source needs what the others hold to stay below the
target (`DefaultLoadControl.java:225`). The control learns of a load only at the source's next update, so the last
chunk of a source may be loaded without the streaming priority when another source reports in between; and a retry does
not ask the control (`resumeFromBackOff` ignores `nextLoader`), so it may start while the control drains.

Fairness. `FairSpec`: loads are opened and answered; the player enables its renderers, delivers seeks, keeps calling
`continueBuffering` and `readData` of every source (its `doSomeWork` does, every 10 ms) and moves on when it can. Failing and disabling are not fair, they may happen or not.

### Proofs

`SharedLoadingProofs.tla` proves, for any finite set of loaders, any chunks, contributions, watermarks and length, all that
the runs check of this part but `PlaysToTheEnd`, which is a liveness property.

*`PriorityIsSound`.* The inductive invariant `IInv` adds the shapes of the records (not their bounds, which
the arguments do not need) and `Registered`: a source is registered with the control exactly while it is enabled. That is needed
where a source registers: `register` resets what the control knows of a loader, which keeps the explanation of the
priority only because a source that is not enabled was not among the loaders. One lemma for each of the control's operations
says that what it makes of an explained control is explained; `BecomesKeepsLock` carries that over to the lock and the download;
`UpdateKeeps` and `RestartKeeps` to the endings of the handlers; and each action is one of these.

*`MemoryIsBounded`,* for at least one loader (without any, nothing is less than nothing). What a source has taken or may still
take from the pool without asking again is its queue, the chunk being loaded included, so the invariant `IsBounded` is about
the queues: their sum is less than that of the contributions and a chunk each. A queue becomes longer only where
`maybeStartLoading` answers the control's leave, which it gives below the target; there the sum before, plus a chunk, is less
than the limit, and every other step leaves the queues as long as they were or shorter. A retry starts the load of a chunk that is
queued already. The steps about sums cite `FoldProofs.tla`.

*`LoadsInTurn`.* The control compares what it was *told*, so the invariant `TurnsKept` says what that is worth: `Told`, the
position it was told of a source is at or behind where the source loads next, unless the source waits for a
canceled load to end; `Exact`, the position up to which loads may start is the least of those told; and `Retried`, a failed
load is in its back-off before it is started again, which tells a retry from a load that asked.

*`TypeOK`.* `Typed` says that queues and positions stay within the media, because a load starts only where there is something to
load; that a canceled load of an enabled source has a reset that waits for its end; and that the lock counts each task once.

`FoldProofs.tla` is about the sums that `MapThenSumSet` of the community modules computes by recursion over a set: the sum over
a set is that over the rest and the value of any element, it grows with the values, and it splits. The library's induction
theorems take a predicate as a parameter, which the provers cannot instantiate; these proofs take the smallest set for which the
fact fails instead, which exists because cardinalities are numbers. In the same way it shows that functions defined from a first or a
last position on exist, which the extractor's proofs need.
## FFmpeg extractor

`AVCFormat.tla` has the conversions of H.264 (pure operators on bytes), `PTSPopulator.tla` the time stamps, `FFIO.tla` the
read position over the file, and `FFDemux.tla` the extractor that joins them; `Demultiplexer.tla` is what it promises.
`MCFFDemux.tla` has seven files: plain and length-prefixed H.264, one and two tracks, a subtitle track, a stream without a
track, repeated time stamps, an empty file.

Correspondence. A native call of `FFExtractor` is an action with the name of the C++ method; `result` is what it returned,
`written` what it left in the buffer. `advance`, `readSampleData` and `getSampleTrackIndex` loop over reads of packets, and so
are several steps: `calling` is the call that is under way, `ReadFrame` a read of libavformat, `Returns` the end of the loop.
`demux` is the life of the object. `mPacketQueue`, `mDefersToCreatePacketQueue` and the rest have the names of the fields.
libavformat is external: it delivers the file's packets in order, may fail at any read, knows it is at the end of the file
when at most `ReadAhead` packets are left, and seeks to any packet or fails.

Abstraction. Packets are short: `Capacity` and `Offsets` are the reader's buffer and where in it it wants the sample, and
decide whether a sample fits. Time stamps are small integers or unknown.

### Runs

| run | question | instance |
|---|---|---|
| `extractor_reading` | what do the tracks' readers get | seven files, every order of calls, errors at any read |

Everything is finite but the number of calls, which is not bounded. Two tracks and three packets give queues that hold
packets of one track while the other is read; errors and the end of the file come at each of the packets.

Properties. `Demultiplexes` is the refinement of `Demultiplexer`: of each selected track first the header, then the packets
read while it was selected, in the order of the file, each once, and after a seek nothing from before. `SamplesAreWhole`: the
units of an H.264 packet reach the decoder as they were, behind start codes, if it is a package whose length size can be told
(`IsPackage`, as all of the instance are), and the size reported covers all that was written, or is all the room there was. `DistrustedOnlyIfRepeated`: time stamps are replaced only if one was repeated. `EndIsReported`: a player that reads
and advances is told of the end.

Fairness. `FairSpec`: a call goes on to its end, since the calling thread does nothing else.

### Proofs

`FFDemuxProofs.tla` proves every safety property of the run for all files, capacities and offsets: `TypeOK`, the refinement,
`DistrustedOnlyIfRepeated` and `SamplesAreWhole`. The inductive invariant says
that packets in the queues and the one in hand are the file's, behind the position of the demultiplexer's last read, in the
order of the file within each queue, and after the last one taken of their track; the refinement follows with the
abstract state read off from queues and position (its substitution).

That time stamps are distrusted for a reason needs two facts more: a queue holds packets of its own stream in the order of the file,
all of them read (`Ordered`; only while `seekTo` moves the position does that not hold); and the time stamp the populator
remembers of a stream is that of a packet which comes before all that are queued or still to be read (`Remembered`), or of none
after a seek. So when the next packet taken has the same time stamp, it is another packet.

*`SamplesAreWhole`.* The state's part is `Given`: while the last answer gives a packet, what it wrote and measured is what
the format of the current track makes of it, since every other call gives another answer or forgets the current track. The rest
is about bytes. `check_size_in_buffer` finds lengths exactly when the data can be cut into units behind such
lengths, the last ending with the data (`Cuts`, `CheckIs`), and `Units` are then the parts between the cuts (`UnitsBetween`).
Start codes are at least as long as the lengths they replace, and longer only for 2-byte lengths, the ones
`getPackageSize` counts; so the size it reports covers what `formatPackage` writes for *any* bytes (`SizeCovers`). That the
units are the right ones holds for packages whose length size the code can tell from the bytes, and this is what `IsPackage` asks:
it tries 4, then 3, then 2, and takes a 4-byte length that begins with a byte other than 0 for none. So 4-byte lengths
must be below 2^24, and a package with shorter ones must not be more than 256 times as long as its first unit, for then a
longer number read at its start reaches beyond its end (`NumberWidens`, `NoLength`, `PackageKept`). In some packages
that break this the code finds another length size, and other units. The functions are recursive over positions; as in
`FoldProofs.tla`, which has what they share, each fact is shown at the first or last position where it could fail.

### Seen while modelling

- `getSampleTrackIndex` (571-580) without a current track never returns: it waits for one, and nothing it calls makes one.
- `getSampleTime` always answers 0: JNI passes the status of the call (`ExoPlayerLibJNI.cpp:362-369`).
- `advance` answers the opposite of what `FFExtractor.java:318` says.
- A seek that succeeds never returns: `seekTo` (351-355) calls `advance` until there is a current track, and nothing it
  calls makes one. `seekTo` is modelled with that loop; the packets it reads are queued.
- `readSampleData` looks at the status of the last read first (466): at the end of the file the packets still queued for
  another track are never given out.
- `getPackageSize` tries 2-byte lengths first, `formatPackage` 4-byte lengths: a short unit behind a 4-byte length is reported
  with a size larger than what was written.
- H.264 from a transport stream has its header rejected, and its packets are then delivered empty. With several video
  tracks the header is always the first one's.
- `jniThrowException` throws only when an exception is pending already.
- `release` leaves the `FFDemux` allocated and the Java object's pointer set.
- The variant of `setDataSource` for a file descriptor runs `post_init` twice, and JNI hands it an object; that variant is not
  modelled. The bridge of `DataSource.cpp` is never constructed. The offset of a file is subtracted twice in `FFIO`.

## Cache

`SimpleCache.tla` has the cache with its evictor as operators on a record (every public method holds the monitor to its end),
and `CacheDataSource.tla` extends it with the readers: threads that open, read and close a `CacheDataSource` each, with the
`TeeDataSource`, `CacheDataSink` and `FileDataSource` behind it. `MCCacheDataSource.tla` has the readers of the instances.

Correspondence. `cache` is the files of the directory and the fields of `SimpleCache` and `LeastRecentlyUsedCacheEvictor`;
`lockedSpans` names who holds the hole of a key. A reader's `pc` is where it is between two calls that others can come
between: `next` (before `startReadWrite`), `waiting` in it, `opening` the source, `starting` a file (`startFile`, then the stream),
`open` between reads, `writing` what was read, `committing` a file, `releasing` the hole. The actions that call the cache
have the names of its methods. `initialize` takes one file a step and everybody waits for it (`Monitor`).

Faults. Connections, reads and writes fail at any call (`MayFail`), a write that fails may have written; the platform clears
the directory (`MayClear`); the process dies between any two steps and starts again with the files as they are (`MayCrash`).

Abstraction. Lengths count blocks, a read is one block. The clock shows any of `Times`, so that touches may be older than
what they touch, or the same. What the evictor's loop removes is defined at once (`Evicted`). A file that a reader has
open stays readable when it is deleted, as on Linux.

### Runs

| run | question | instance |
|---|---|---|
| `cache_reading` | memory and disk agree, one writer at a time, waiting ends | 3 blocks of one stream, 1 of another, 3 may be kept, 2 to a file, two readers |

A stream of three blocks in files of two gives a file that is read from its middle, a hole that ends at the next file, and
a write that goes on in a second file; the second stream is what makes the cache too small. One reader waits for holes, the
other bypasses the cache, and ignores it after an error. Two times order the touches.

Properties. `SpansAreDisjoint`: what `isCached` and `getSpan` rely on. `MemoryTellsTheDisk`: sums, sets and files agree, and no
file is forgotten, whatever fails, is cleared or crashes. `OnlyTheHolderWrites`: the `checkState`s of the cache never fail.
`WaitingEnds`: whoever waits in `startReadWrite` goes on.

Seen while modelling. Two readers find the same cached file; the second renames it (`touch`) before the first has opened it, or it
is evicted, and the first fails to open what `startReadWrite` gave it (`CacheDataSource.java:220-256`); it then reads around the
cache if it ignores errors, and fails otherwise.

Fairness. `FairSpec`: threads run, `initialize` ends, and who has opened a source reads on or closes it (`DataSourceStream.load`
closes in a `finally`). Waking up is part of `notifyAll`. Nothing else is fair: calls may fail for ever, or not at all.

### Proofs

`CacheProofs.tla` proves for all streams, requests, readers and bounds: `OnlyTheHolderWrites`, `SpansAreDisjoint`,
`MemoryTellsTheDisk` and `TypeOK`; `WaitingEnds`, which is liveness, is model-checked only.

The inductive invariant comes in two parts. `IInv` says that spans and files, known or not, are apart (`Sound`), that
a name is used once, and of each reader where its hole is and what it has written of it (`Holds`, `Goes`, `Writes`): a commit is
sound because the hole ends where the next span begins, and nobody else writes into it. `Forgotten` and `Shrinks` say
what eviction leaves, so that each handler has to be shown only once, with eviction or without. From it follow the first two,
and that no file is forgotten (`FilesAreKnown`).

`Bounded` adds what is counted. `Fits` says that both sums are those of the spans there are, and not above `MaxBytes`. They are
sums over sets, so the steps cite `FoldProofs.tla`: what is forgotten takes its part of the sum with it (`SizeOfParts`), what is
committed adds its length (`SizeOfMore`), if it was not counted before. That it was not is what `Proper` is for: a file being
written begins before the end of its hole, where `Writes` lets no span be. The limit is kept by eviction (`EvictedFits`):
of the spans that stay, the oldest was kept because with all older ones gone there is room, and all that are older have
gone; there is an oldest, since the order is by numbers. If none stays the sum is 0, and what is asked for is never more than
`MaxBytes` (`SizesAssumption`). `Spanned` and the rest of `Proper` bound positions and lengths by the stream: a block is
only read while there is one left, a hole ends no later than the request. Both theorems assume that there is a key and
a time at all, without which a reader has no value for its fields and there is nothing to read.

### Not in the model

A connection that fails to close: `TeeDataSource.close` (71-75) then skips the sink, whose file stays open while
`closeCurrentSource` gives the hole back; the next close commits that file without a hole, which fails a `checkState`, or, if
somebody else holds the hole, enters a second file of the same place. The set of the key's spans ignores that one, the evictor
does not, and evicting both ends in a `NullPointerException`. From the first step on the code is in states it does not
handle, so no property of it is worth stating. Also left out: a deletion between `exists` and `renameTo` inside one call.

## Codec renderer and DRM session

`StreamingDrmSessionManager.tla` has the DRM session with its messages and threads, and `MediaCodecTrackRenderer.tla` extends
it with a video renderer (`MediaCodecTrackRenderer` and `MediaCodecVideoTrackRenderer`), its sample source and its decoder.
`MCMediaCodecTrackRenderer.tla` has the track and the devices of the instance.

Correspondence. `drm` is the manager: its fields, the playback thread's messages from MediaDrm and from the session's thread
(`inbox`), the requests that thread has still to answer, and those a former session's thread is at (`late`). Its methods are
operators that give every outcome MediaDrm may choose; they are used by the renderer's actions, because all of it
happens on the playback thread. `renderer` holds the fields of the Java class (`input` and `output` are the buffers behind
`inputIndex` and `outputIndex`), `source` what the `SampleSource` would answer next, `codec` the decoder's queues.
`doSomeWork` begins, `drainOutputBuffer` and `feedInputBuffer` are one call each of its loops, with `phase` telling where the
thread is; the player's other calls have their names. Another renderer opens and closes the same session (`OtherOpens`,
`OtherCloses`). External are the decoder (`Decode`), MediaDrm and the sample source.

Abstraction. Time is counted in frames and sample n becomes frame n; sizes, crypto patterns and rendering deadlines are left
out, so a frame is dropped or shown as it comes. A call that throws disables the renderer in the same step, as the player does
next. MediaDrm and the threads post between two calls of the renderer: within one, the playback thread would not look.

### Runs

| run | question | instance |
|---|---|---|
| `codec_rendering` | frames, formats and keys | four frames in two formats, two of them encrypted, seeks to the second and the fourth, two input buffers |

Bounds. The track has a sync frame, one that needs it, and two sync frames, each of another format than the one before; a
seek to the second begins between sync frames, and one to the fourth may find the third in a buffer. One device flushes its decoder, one makes a new one (`SDK_INT` below 18) and cannot be
reconfigured, one has a protected track; a protected track on a device that does neither was run by hand. `MaxMessages = 1` lets an
answer wait when an event comes, `MaxLate = 1` a former thread answer in the time of a new session. Preparing,
seeking, surfaces, sessions and failures recur without limit; about three and a half million states.

Properties. `FramesFollowEachOther`: from a seek on, frames follow one another, none missing or twice but for
the one case below, and the end comes only after the last.
`DecodesInFormat`: a decoder gets samples of the format it was configured for, or whose configuration it got before them, and begins with a
sync frame. `KeysAreThere`: an encrypted sample goes to the decoder only with keys. `SessionServesItsUsers`: who waits for
keys has a request or an answer under way, and the session is open exactly while somebody uses it, whichever answers come late.

### Proofs

`CodecProofs.tla` proves, for any track, seek times and devices, and decoders with any number of buffers, `TypeOK`,
`SessionServesItsUsers`, `DecodesInFormat`, `FramesFollowEachOther` and the action property `KeysAreThere`. The assumptions are those of the modules.
`IInv` is the conjunction of what every call finds and leaves (`Works`) and where the source is against the decoder
(`Follows`):

- `Owns`: the session has its types, its requests are under way (`KeysAreOnTheirWay` alone is inductive only with the
  rest of `Manager`), and it is opened by the renderer just when the renderer says so;
- `SetUp`: a decoder is there only with a format, a surface and, when it was set up with the session, an open session;
- `Holds`: what the buffer held between two calls contains, and when the renderer waits for keys over it. A sample is read once
  and judged again after every message;
- `Formatted`: what the decoder takes the last of its buffers to be of is the renderer's format, unless the configuration is
  still to be written (`WRITE_PENDING`) or in the buffer that comes next (`QUEUE_PENDING`). A reconfigured decoder that is flushed
  may have forgotten, hence the outcome `current` or `configured` of a flush; this is what `DecodesInFormat` needs to be inductive;
- `EndIsLast` and `BeginsInSync`, without protection: the end is the last of the queue, and a decoder with
  nothing in it waits for a sync frame or the source is at one.

The steps of `feedInputBuffer` are proved one by one (`FormatWorks`, `ReadWorks`, `SampleWorks`...) on the record of what the
call works on, and each action composes them.

`FramesFollowEachOther` is not inductive: it says nothing of what is in the decoder while a discontinuity is to be read, nor of
the times buffers are given. `StreamInv`, an invariant beside `IInv`, has

- `InOrder`: the frames rise within each buffer and from the output buffer through the decoder's outputs and its queue to the
  input buffer. It is said of the buffers' contents as sets (`In`), so that a step that moves a buffer changes two sets;
- `NoneLost`: a frame inside, or the next to be read, follows one that is inside or was read first, or is a sync frame no later than
  the one sought, where a change of format may have lost what was held;
- `Dated`: the time on a buffer is its last frame's, and one before the frame sought is marked `decodeOnly` unless it was read before
  the seek: what makes `shown` right when the buffer comes out;
- `EndComesLast`: the end is behind all frames wherever it is, and goes lost only with a decoder that is let go of;
- `Fed`: a sample is kept in the input buffer over a seek only if it is one inside what was read (so that "two formats in a row"
  loses no frame that is to be shown);
- `Awaits`: until a discontinuity is read nothing is shown and no decoder that is fed holds anything; then it is flushed, and
  everything begins anew;
- `InSync`: a sample of another format than the one announced is a sync frame.

Each way a step may change the buffers is a lemma over a renderer and a decoder as values (`ReadOn`, `Queued`, `DecodedFlows`,
`DequeuedFlows`, `ReleasedFlows`, `Dropped`, `Emptied`, `SoughtIn`). In the end `InFlight`, which the library flattens by a
recursive function, has the frames inside in rising order (`FlatExists`, `FlatRises`, by smallest counterexamples), and frames that
rise with `NoneLost` follow one another. The attempt found what `FollowsIn` excepts; see below.

### Seen while modelling

- While the renderer waits for keys it takes the sample in `sampleHolder` as read again (597-602). If the decoder was replaced
  meanwhile (`setSurface`) and that sample is no sync frame, `feedInputBuffer` clears the buffer and returns true (675-685) with
  `waitingForKeys` still set: the loop of `doSomeWork` (482-485) calls it for ever, and the playback thread handles no more
  messages, the keys' neither. `TrackRenderer.java:323` says of doSomeWork that it "should return quickly".
- In the same situation the sample's bytes are in the buffer of the decoder that was released: the new one is given an empty buffer.
- A seek that flushes in place while waiting for keys leaves the sample in the buffer and reads the next one behind it; if that
  one is in the clear, both are queued without keys. `DecodesInFormat` and `FramesFollowEachOther` except these cases.
- A sample that waits for its keys in a buffer with configuration data is lost when a seek inside what was read ends the waiting
  and the next sample has another format: "two formats in a row" (633-640) clears the buffer, sample and all. The loss does not
  show, because the frame sought is not before the one lost and the next is a sync frame; `FollowsIn` says just that.
- A surface that changes after the input has ended gives a decoder that is never told the end: the renderer never ends. Nor
  does one without a surface.
- An answer of a former session's thread is told from a current one by the manager's state alone ("This event is
  stale."): one that comes after the session was opened anew is taken as the new session's.

## Demo player

`DemoPlayer.tla` puts the layers of an application together: `FullPlayerActivity` and `DemoPlayer` on the main thread, a builder
of renderers that answers at once (`DefaultRendererBuilder`) or in a later message (`DashVodRendererBuilder`,
`SmoothStreamingRendererBuilder`), and the player behind them. `MCDemoPlayer.tla` instantiates it.

Correspondence. `demo` has the fields of `DemoPlayer`, `activity` those of the activity and whether its surface is valid,
`app` and `core` are the halves of the player. The methods of the main thread are operators on the three things they work on (`World`),
and each callback of the activity is one action: on the way it only posts messages and reads nothing of the playback
thread. `blockingClearSurface` and `release` are two actions each, the call and its return. Preparations are numbered, and
`core.held` is the one whose renderers the player holds; `surfaces` and `tracks` belong to the renderers of each. `selectTrack`
for an audio track of a `MultiTrackChunkSource` posts its five messages one by one.

Abstraction. The player is the one of `ExoPlayer.tla` with BUFFERING, READY and ENDED taken as one, and of its work only what the
surface is used for. A handler that throws is two steps, because the error is posted before the renderers are let go, and
the activity may hear of it in between. Renderers do not throw when they are stopped or disabled (an `AudioTrack` that
was initialised does not throw in `pause`); text and debug renderers are left out, and so are seeks. A released player is
not used again: the activity makes a new one.

### Runs

| run | question | instance |
|---|---|---|
| `demo_player` | who has the surface, which track, which preparation | both kinds of builder, two audio tracks, two preparations, two messages and two events queued at a call |

Two preparations give a retry after an error, with messages of the failed session behind it; a builder may answer after the
release. Two queued messages let a call come behind an unfinished selection.

Properties. `SurfaceFollows`: no decoder outlives its surface, and when the queue is served the video renderer has the
surface and is enabled as the activity wants. `TracksFollow`: a track is selected only in a disabled source (the comment of
`MultiTrackChunkSource.java:35`), and the last selection and the user's wish to play prevail. `SessionsFollow`: the player
gets the renderers of the last preparation only, once, and the activity has been told the state and offers a retry when nothing
plays.

### Proofs

`DemoProofs.tla` proves, for all bounds, any set of tracks and both kinds of builder, `DemoTyped`, `SurfaceGoesWithActivity`,
`TracksAreSelectedDisabled` and `LastPreparationPlays`, under `DemoAssumption` (the constants' types, and that track 0 exists).
What the properties say of the messages due is about the last of a kind, and a queue changes at both ends: the main thread only
appends (`Extends`), the playback thread takes the first. So the proof reasons about `Latest(q, K, now)`, the latest message of the
kinds K in q or what is there already, which one side moves and the other leaves as it is (`LatestTail`). The inductive invariant
`IInv` is the conjunction of

- the types;
- `Good`: what `ExoPlayerImpl` remembers is what it asked for last (`Asked`), and before each SELECT the audio renderer is
  disabled and not enabled again until then (`Silence`): this is what carries the order in which `selectTrack` posts its
  five messages past everything posted around them;
- `CoreOK`: a decoder has renderers, an enabled video track and a surface, and only a player that holds renderers is not idle;
- `Sessional`: a PREPARE in the queue is for the preparation made last and finds a player without renderers, no RELEASE is before
  it (`Played`), and an error that is still to be told is the only one and left nothing behind that plays (`Reported`);
- `Lively`, until the release: the activity was told the state, and what is built is queued for the player, played by it, or has
  failed with the error on its way (`Staged`). Without the last, a preparation could be lost between the two threads and nobody
  would offer a retry;
- `Ended`: after the release is called, RELEASE is the last message or has been served;
- `Dues`: the surface and track that each preparation will have, what the activity wants of the video, and that nothing has a
  surface while the activity waits for it to be let go.

TLC checked `IInv` on the instance of `demo_player` before it was proved. The main thread's methods are taken apart from the
bottom (`setSurface`, `selectTrack`, `onRenderers`), each lemma saying what is posted and what of the invariant a call restores,
and the handlers of the playback thread one by one.

### Seen while modelling

- `SurfaceFollows` excepts a failing player: after MSG_ERROR is posted and heard, `blockingClearSurface` returns at once, since
  `rendererBuildingState` is IDLE, while `stopInternal` has yet to release the decoder that draws to the surface. The same
  gap is open after `prepare` on a built player, whose `stop` is only posted.
- `getPlaybackState` (395) compares `rendererBuildingState` with two different values where the second should be the player's
  state: listeners are told IDLE between `onRenderers` and the player's PREPARING.
- If stopping a renderer threw, its source would stay enabled, the selection that follows fail, and a second error, by then stale,
  arrive in the next session.

## What is proved and what is only checked

Proved for all values of the constants, by an inductive invariant each: all safety properties of the player, of the
sample source and its loads, and of the load control; that the player implements `PlaybackStates` and the extractor
`Demultiplexer`; all safety properties of the extractor, of the cache, of the codec
renderer with its session, and of the demo player. The assumptions are the named `ASSUME`s of the modules, which are the
types of the constants and what the constructors check; `MemoryBounded` adds that there is a loader, `SpaceIsTold` and
`CacheTyped` that there are a key and a time.

Model-checked on the instances only: the liveness properties (`LastValueCommitted`, `BlockingCallsReturn`, `PlaysToTheEnd`,
`ReachesTheEnd`, `WaitingEnds`, `EndIsReported`), since the provers have nothing for `ENABLED` and so for fairness.

## Not modelled

- *Buffer pool and data source stream.* The pool is a stack behind one monitor; `SharedLoading` has what it counts.
  The stream hands bytes from the load thread to the playback thread through one volatile counter and an array that grows:
  whether that is right is a question of the Java memory model, not of the order of steps.
- *Data sources.* Thin wrappers around sockets and files, without state that outlives a read. The ones the cache puts together
  are part of `CacheDataSource`.
- *Container parsers, manifests, TTML.* Nearly all of them is the layout of data, which these modules abstract from: a model
  would be the parser again. That they run dry anywhere is in `ReadNothing` of `ChunkSampleSource`.
- *DASH and SmoothStreaming sources.* `getChunkOperation` of the MP4 source is modelled; the WebM and SmoothStreaming
  ones answer the same questions from another index. The evaluators' answers are free choices.
- *Audio renderer.* It shares the base class with the video renderer, which is modelled; its own part is the
  position of an `AudioTrack`, measured and smoothed by the clock.
- *Text renderer.* One parser thread that is handed one input at a time and polled; the rest is text.
- *Framework sample source.* One thread that passes calls on. Over `FFExtractor` its `enable` seeks, and a seek that succeeds
  never returns (see the extractor), so there is nothing behind it to check.
- *Utilities.* Pure functions and logging.
- *Simple activities, file browser.* Android user interface: each callback makes a call or two on the platform or on the modelled player.
- *Vendored code.* FFmpeg and the platform's headers, some three quarters of the lines under `src/`.
