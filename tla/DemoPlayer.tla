------------------------------ MODULE DemoPlayer ------------------------------
(* The full demo: FullPlayerActivity and DemoPlayer on the main thread, the  *)
(* builder of renderers that answers there, and the player behind them. Each *)
(* call of the main thread is one action: it only posts to the playback      *)
(* thread and reads nothing of it. The player is that of ExoPlayer.tla, with *)
(* BUFFERING, READY and ENDED taken as one and its work as what the surface  *)
(* is used for; a failing handler is two steps, because the error is posted  *)
(* before the renderers are let go.                                          *)
EXTENDS Integers, SequencesExt

CONSTANTS Tracks,       \* the audio tracks of a builder that names them
          MaxPrepares,  \* bound: preparations
          MaxInbox,     \* bound: messages waiting when the main thread makes a call
          MaxEvents     \* bound: events waiting when the playback thread starts one
ASSUME DemoAssumption ==
  /\ Tracks # {} /\ Tracks \subseteq Nat /\ 0 \in Tracks
  /\ MaxPrepares \in Nat \ {0} /\ {MaxInbox, MaxEvents} \subseteq Nat \ {0}

Sessions == 1..MaxPrepares
Types == {"video", "audio"}
DISABLED == -1

VARIABLES
  builder,   \* later: it answers in a message; multi: it has a MultiTrackChunkSource
  activity,  \* FullPlayerActivity, and whether its surface exists (valid)
  demo,      \* DemoPlayer
  builds,    \* preparations whose renderers are being built
  app,       \* ExoPlayerImpl
  inbox,     \* messages to the playback thread
  events,    \* messages to ExoPlayerImpl
  core,      \* ExoPlayerImplInternal and the renderers it holds
  surfaces,  \* whether the video renderer of a preparation has the surface
  tracks     \* selectedSource of its MultiTrackChunkSource

vars == <<builder, activity, demo, builds, app, inbox, events, core, surfaces, tracks>>
mainVars == <<activity, demo, builds, app>>
playbackVars == <<core, surfaces, tracks>>

\* DefaultRendererBuilder and DashVodRendererBuilder.
Builders == {[later |-> FALSE, multi |-> FALSE], [later |-> TRUE, multi |-> TRUE]}

Init ==
  /\ builder \in Builders
  /\ activity = [thread |-> "free", resumed |-> FALSE, needsPrepare |-> TRUE,
                 autoPlay |-> TRUE, valid |-> FALSE]
  /\ demo = [building |-> "IDLE", prepared |-> 0, waits |-> FALSE, surface |-> FALSE,
             selected |-> [type \in Types |-> 0], named |-> FALSE,
             reported |-> [state |-> "IDLE", playWhenReady |-> FALSE]]
  /\ builds = {}
  /\ app = [state |-> "IDLE", playWhenReady |-> FALSE, flags |-> Types]
  /\ inbox = <<>> /\ events = <<>>
  /\ core = [held |-> 0, state |-> "IDLE", playWhenReady |-> FALSE, flags |-> Types,
             enabled |-> {}, codec |-> FALSE, failing |-> FALSE, released |-> FALSE]
  /\ surfaces = [k \in Sessions |-> FALSE]
  /\ tracks = [k \in Sessions |-> 0]
-----------------------------------------------------------------------------
\* What a call of the main thread works on, and what it leaves.
World == [demo |-> demo, app |-> app, inbox |-> inbox]
Leaves(w) == demo' = w.demo /\ app' = w.app /\ inbox' = w.inbox

Post(w, message) == [w EXCEPT !.inbox = Append(@, message)]

getPlaybackState(w) ==
  IF w.demo.building = "BUILDING" THEN "PREPARING" ELSE w.app.state
maybeReportPlayerState(w) ==
  [w EXCEPT !.demo.reported = [state |-> getPlaybackState(w),
                               playWhenReady |-> w.app.playWhenReady]]

\* ExoPlayerImpl's calls.
setPlayWhenReady(w, play) ==
  IF w.app.playWhenReady = play THEN w
  ELSE maybeReportPlayerState(Post([w EXCEPT !.app.playWhenReady = play],
                                   [what |-> "PLAY", flag |-> play]))
setRendererEnabled(w, type, flag) ==
  IF (type \in w.app.flags) = flag THEN w
  ELSE Post([w EXCEPT !.app.flags = IF flag THEN @ \cup {type} ELSE @ \ {type}],
            [what |-> "ENABLE", type |-> type, flag |-> flag])

\* Mutant: the track is selected while its renderer plays.
SelectTrack_Playing(w, type, allow) ==
  setRendererEnabled(Post(w, [what |-> "SELECT", session |-> w.demo.prepared,
                              track |-> w.demo.selected[type]]), type, allow)
\* Another track is selected between two pauses, with the renderer disabled.
SelectTrack(w, type, allow) ==
  LET disabled == setRendererEnabled(setPlayWhenReady(w, FALSE), type, FALSE)
      selected == Post(disabled, [what |-> "SELECT", session |-> w.demo.prepared,
                                  track |-> w.demo.selected[type]])
  IN  setPlayWhenReady(setRendererEnabled(selected, type, allow), w.app.playWhenReady)

\* Mutant: no track is selected as if it were one.
pushTrackSelection_DisabledToo(w, type, allow) ==
  IF w.demo.building # "BUILT" THEN w
  ELSE IF type = "audio" /\ builder.multi THEN SelectTrack(w, type, allow)
  ELSE setRendererEnabled(w, type, allow /\ w.demo.selected[type] # DISABLED)
\* Only if there are renderers to be told.
pushTrackSelection(w, type, allow) ==
  IF w.demo.building # "BUILT" THEN w
  ELSE IF w.demo.selected[type] = DISABLED THEN setRendererEnabled(w, type, FALSE)
  ELSE IF type = "audio" /\ builder.multi THEN SelectTrack(w, type, allow)
  ELSE setRendererEnabled(w, type, allow)

PushSurface(w) ==
  Post(w, [what |-> "SURFACE", session |-> w.demo.prepared, surface |-> w.demo.surface])
pushSurfaceAndVideoTrack(w, valid) ==
  IF w.demo.building # "BUILT" THEN w
  ELSE pushTrackSelection(PushSurface(w), "video", w.demo.surface /\ valid)

setSurface(w, valid) ==
  pushSurfaceAndVideoTrack([w EXCEPT !.demo.surface = TRUE], valid)

onRenderers(w, valid) ==
  LET built == [w EXCEPT !.demo.building = "BUILT", !.demo.waits = FALSE,
                         !.demo.named = TRUE]
      pushed == pushSurfaceAndVideoTrack(maybeReportPlayerState(built), valid)
  IN  Post(pushTrackSelection(pushed, "audio", TRUE),
           [what |-> "PREPARE", session |-> w.demo.prepared])

onRenderersError(w) ==
  maybeReportPlayerState([w EXCEPT !.demo.building = "IDLE", !.demo.waits = FALSE])

\* A build that has not answered is canceled.
prepare(w, valid) ==
  LET stopped == IF w.demo.building = "BUILT" THEN Post(w, [what |-> "STOP"]) ELSE w
      building == maybeReportPlayerState(
                    [stopped EXCEPT !.demo.building = "BUILDING",
                                    !.demo.prepared = @ + 1, !.demo.waits = TRUE])
  IN  IF builder.later THEN building ELSE onRenderers(building, valid)
-----------------------------------------------------------------------------
(* The main thread.                                                        *)
Free == activity.thread = "free"
MayCall == Free /\ Len(inbox) < MaxInbox

\* The activity begins to play when there is a surface to play on, if video is wanted.
MayStart(w, valid) == valid \/ w.demo.selected["video"] = DISABLED
maybeStartPlayback(w, autoPlay, valid) ==
  IF autoPlay /\ MayStart(w, valid) THEN setPlayWhenReady(w, TRUE) ELSE w

\* When it is resumed, or the user tries again after an error.
preparePlayer(autoPlay) ==
  LET valid == activity.valid
      prepared == IF activity.needsPrepare THEN prepare(World, valid) ELSE World
      w == setSurface(prepared, valid)
  IN  /\ activity.needsPrepare => demo.prepared < MaxPrepares
      /\ Leaves(maybeStartPlayback(w, autoPlay, valid))
      /\ activity' = [activity EXCEPT !.resumed = TRUE, !.needsPrepare = FALSE,
                                      !.autoPlay = autoPlay /\ ~MayStart(w, valid)]
      /\ builds' = IF activity.needsPrepare /\ builder.later
                   THEN builds \cup {prepared.demo.prepared} ELSE builds
onResume == MayCall /\ ~activity.resumed /\ preparePlayer(activity.autoPlay)
Retry == MayCall /\ activity.resumed /\ activity.needsPrepare /\ preparePlayer(TRUE)

surfaceCreated ==
  /\ MayCall /\ activity.resumed /\ ~activity.valid
  /\ LET w == setSurface(World, TRUE)
     IN  /\ Leaves(maybeStartPlayback(w, activity.autoPlay, TRUE))
         /\ activity' = [activity EXCEPT !.valid = TRUE,
                                         !.autoPlay = @ /\ ~MayStart(w, TRUE)]
  /\ UNCHANGED builds

\* Mutant: the message is posted, and not waited for.
blockingClearSurface_NotBlocking(resumed, valid) ==
  LET cleared == [World EXCEPT !.demo.surface = FALSE]
  IN  /\ Leaves(pushSurfaceAndVideoTrack(cleared, FALSE))
      /\ activity' = [activity EXCEPT !.resumed = resumed, !.valid = valid]
\* It waits only if there is a renderer to be told; the surface goes, if it is to,
\* when it returns.
blockingClearSurface(resumed, valid) ==
  LET cleared == [World EXCEPT !.demo.surface = FALSE]
  IN  IF demo.building = "BUILT"
      THEN /\ Leaves(PushSurface(cleared))
           /\ activity' = [activity EXCEPT !.resumed = resumed,
                             !.thread = IF valid = activity.valid THEN "clears" ELSE "destroys"]
      ELSE /\ Leaves(cleared)
           /\ activity' = [activity EXCEPT !.resumed = resumed, !.valid = valid]
surfaceDestroyed ==
  /\ MayCall /\ activity.valid
  /\ blockingClearSurface(activity.resumed, FALSE)
  /\ UNCHANGED builds
\* With background audio.
onPause ==
  /\ MayCall /\ activity.resumed
  /\ blockingClearSurface(FALSE, activity.valid)
  /\ UNCHANGED builds

IsCustom(message) == message.what \in {"SURFACE", "SELECT"}
ClearReturns ==
  /\ activity.thread \in {"clears", "destroys"}
  /\ \A i \in DOMAIN inbox : ~IsCustom(inbox[i])
  /\ Leaves(pushTrackSelection(World, "video", FALSE))
  /\ activity' = [activity EXCEPT !.thread = "free",
                                  !.valid = @ /\ activity.thread = "clears"]
  /\ UNCHANGED builds

selectTrack(type, track) ==
  /\ MayCall /\ activity.resumed /\ demo.named /\ demo.selected[type] # track
  /\ LET w == [World EXCEPT !.demo.selected[type] = track]
     IN  Leaves(IF type = "video" THEN pushSurfaceAndVideoTrack(w, activity.valid)
                ELSE pushTrackSelection(w, type, TRUE))
  /\ UNCHANGED <<activity, builds>>

\* The user's buttons (PlayerControl).
StartOrPause(play) ==
  /\ MayCall /\ activity.resumed /\ app.playWhenReady # play
  /\ Leaves(setPlayWhenReady(World, play))
  /\ UNCHANGED <<activity, builds>>

\* Without background audio, or for good; a build that has not answered is canceled.
release ==
  /\ MayCall /\ demo.prepared > 0
  /\ Leaves(Post([World EXCEPT !.demo.waits = FALSE, !.demo.building = "IDLE",
                               !.demo.surface = FALSE], [what |-> "RELEASE"]))
  /\ activity' = [activity EXCEPT !.thread = "releases", !.resumed = FALSE]
  /\ UNCHANGED builds
ReleaseReturns ==
  /\ activity.thread = "releases" /\ core.released
  /\ activity' = [activity EXCEPT !.thread = "released"]
  /\ events' = <<>>
  /\ UNCHANGED <<demo, builds, app, inbox>>

\* Mutant: a build is not canceled when the player is released.
Canceled_Never(k) == FALSE
Canceled(k) == k # demo.prepared \/ ~demo.waits
Answers(k) ==
  /\ activity.thread \in {"free", "released"}
  /\ k \in builds /\ builds' = builds \ {k}
  /\ \/ Canceled(k) /\ UNCHANGED <<activity, demo, app, inbox>>
     \/ ~Canceled(k) /\ Leaves(onRenderers(World, activity.valid)) /\ UNCHANGED activity
     \/ ~Canceled(k) /\ Leaves(onRenderersError(World))
          /\ activity' = [activity EXCEPT !.needsPrepare = TRUE]

onPlayerError(w) == [w EXCEPT !.demo.building = "IDLE"]
handleEvent ==
  /\ Free /\ events # <<>> /\ events' = Tail(events)
  /\ IF Head(events) = "ERROR"
     THEN /\ Leaves(onPlayerError(World))
          /\ activity' = [activity EXCEPT !.needsPrepare = TRUE]
     ELSE /\ Leaves(maybeReportPlayerState([World EXCEPT !.app.state = Head(events)]))
          /\ UNCHANGED activity
  /\ UNCHANGED builds

Call ==
  \/ onResume \/ Retry \/ surfaceCreated \/ surfaceDestroyed \/ onPause \/ release
  \/ \E track \in Tracks \cup {DISABLED} :
       (track \in {0, DISABLED} \/ builder.multi) /\ selectTrack("audio", track)
  \/ \E track \in {0, DISABLED} : selectTrack("video", track)
  \/ \E play \in BOOLEAN : StartOrPause(play)
  \/ \E k \in Sessions : Answers(k)
Main ==
  /\ \/ (Call \/ ClearReturns) /\ UNCHANGED events
     \/ ReleaseReturns \/ handleEvent
  /\ UNCHANGED <<builder, playbackVars>>
-----------------------------------------------------------------------------
(* The playback thread.                                                    *)
MayRun == ~core.released /\ (~Free \/ Len(events) < MaxEvents)
Receives(what) ==
  /\ MayRun /\ ~core.failing
  /\ inbox # <<>> /\ Head(inbox).what = what
  /\ inbox' = Tail(inbox)
received == Head(inbox)

\* The state is told when it changes.
SetState(c, state) ==
  /\ core' = [c EXCEPT !.state = state]
  /\ events' = IF c.state = state THEN events ELSE Append(events, state)
Stays(c) == core' = c /\ UNCHANGED events
\* An exception: the error is posted first, stopInternal comes behind.
Throws(c) ==
  /\ core' = [c EXCEPT !.failing = TRUE]
  /\ events' = Append(events, "ERROR")

resetInternal(c) ==
  SetState([c EXCEPT !.held = 0, !.enabled = {}, !.codec = FALSE, !.failing = FALSE],
           "IDLE")

HasSurface(c) == "video" \in c.enabled /\ surfaces[c.held]

prepareInternal ==
  /\ Receives("PREPARE")
  /\ LET c == [core EXCEPT !.held = received.session]
     IN  IF core.held = 0 THEN SetState(c, "PREPARING") ELSE Throws(c)
  /\ UNCHANGED <<surfaces, tracks>>

\* Every renderer is enabled that is to be.
incrementalPrepareInternal ==
  /\ MayRun /\ core.state = "PREPARING" /\ ~core.failing
  /\ \/ SetState([core EXCEPT !.enabled = core.flags], "READY")
     \/ Throws(core)
  /\ UNCHANGED <<inbox, surfaces, tracks>>

\* A decoder is set up for the surface; that fails when the surface is gone.
doSomeWork ==
  /\ MayRun /\ core.state = "READY" /\ ~core.failing
  /\ \/ /\ HasSurface(core) /\ activity.valid /\ ~core.codec
        /\ Stays([core EXCEPT !.codec = TRUE])
     \/ Throws(core)
  /\ UNCHANGED <<inbox, surfaces, tracks>>

\* The video renderer releases its decoder and sets up another if it can.
setSurfaceInternal ==
  /\ Receives("SURFACE")
  /\ surfaces' = [surfaces EXCEPT ![received.session] = received.surface]
  /\ LET changes == surfaces[received.session] # received.surface
         uses == received.session = core.held /\ "video" \in core.enabled
     IN  IF changes /\ uses
         THEN \/ Stays([core EXCEPT !.codec = FALSE])
              \/ received.surface /\ activity.valid /\ Stays([core EXCEPT !.codec = TRUE])
              \/ received.surface /\ Throws([core EXCEPT !.codec = FALSE])
         ELSE Stays(core)
  /\ UNCHANGED tracks

\* Not while the source is enabled: its checkState fails.
SelectsEnabled == received.session = core.held /\ "audio" \in core.enabled
selectTrackInternal ==
  /\ Receives("SELECT")
  /\ \/ SelectsEnabled /\ Throws(core) /\ UNCHANGED tracks
     \/ /\ ~SelectsEnabled /\ Stays(core)
        /\ tracks' = [tracks EXCEPT ![received.session] = received.track]
  /\ UNCHANGED surfaces

setRendererEnabledInternal ==
  /\ Receives("ENABLE")
  /\ LET type == received.type
         c == [core EXCEPT !.flags = IF received.flag THEN @ \cup {type} ELSE @ \ {type}]
     IN  IF core.state # "READY" \/ c.flags = core.flags THEN Stays(c)
         ELSE \/ Stays([c EXCEPT !.enabled = c.flags,
                                 !.codec = @ /\ "video" \in c.flags])
              \/ received.flag /\ Throws(c)
  /\ UNCHANGED <<surfaces, tracks>>

setPlayWhenReadyInternal ==
  /\ Receives("PLAY")
  /\ \/ Stays([core EXCEPT !.playWhenReady = received.flag])
     \/ /\ core.state = "READY" /\ received.flag
        /\ Throws([core EXCEPT !.playWhenReady = TRUE])
  /\ UNCHANGED <<surfaces, tracks>>

stopInternal ==
  /\ \/ Receives("STOP")
     \/ MayRun /\ core.failing /\ UNCHANGED inbox
  /\ resetInternal(core)
  /\ UNCHANGED <<surfaces, tracks>>

releaseInternal ==
  /\ Receives("RELEASE")
  /\ resetInternal([core EXCEPT !.released = TRUE])
  /\ UNCHANGED <<surfaces, tracks>>

Playback ==
  /\ \/ prepareInternal \/ incrementalPrepareInternal \/ doSomeWork
     \/ setSurfaceInternal \/ selectTrackInternal \/ setRendererEnabledInternal
     \/ setPlayWhenReadyInternal \/ stopInternal \/ releaseInternal
  /\ UNCHANGED <<builder, mainVars>>

\* A released player is not used again.
Finished == activity.thread = "released" /\ builds = {} /\ UNCHANGED vars

Next == Main \/ Playback \/ Finished
Spec == Init /\ [][Next]_vars
-----------------------------------------------------------------------------
(* Type invariant.                                                         *)
States == {"IDLE", "PREPARING", "READY"}
Message ==
  [what : {"SURFACE"}, session : Sessions, surface : BOOLEAN]
    \cup [what : {"SELECT"}, session : Sessions, track : Tracks]
    \cup [what : {"ENABLE"}, type : Types, flag : BOOLEAN]
    \cup [what : {"PLAY"}, flag : BOOLEAN] \cup [what : {"PREPARE"}, session : Sessions]
    \cup [what : {"STOP", "RELEASE"}]
TypeOK ==
  /\ builder \in Builders /\ builds \subseteq Sessions
  /\ activity \in [thread : {"free", "clears", "destroys", "releases", "released"},
                   resumed : BOOLEAN, needsPrepare : BOOLEAN, autoPlay : BOOLEAN,
                   valid : BOOLEAN]
  /\ demo.building \in {"IDLE", "BUILDING", "BUILT"}
  /\ demo.prepared \in Sessions \cup {0}
  /\ demo.reported \in [state : States, playWhenReady : BOOLEAN]
  /\ app \in [state : States, playWhenReady : BOOLEAN, flags : SUBSET Types]
  /\ inbox \in Seq(Message) /\ events \in Seq(States \cup {"ERROR"})
  /\ core \in [held : Sessions \cup {0}, state : States, playWhenReady : BOOLEAN,
               flags : SUBSET Types, enabled : SUBSET Types, codec : BOOLEAN,
               failing : BOOLEAN, released : BOOLEAN]
  /\ surfaces \in [Sessions -> BOOLEAN] /\ tracks \in [Sessions -> Tracks]

\* What the playback thread will have when it has served the messages due.
SurfaceDue(k) ==
  LET last == SelectLastInSeq(inbox, LAMBDA m : m.what = "SURFACE" /\ m.session = k)
  IN  IF last = 0 THEN surfaces[k] ELSE inbox[last].surface
TrackDue(k) ==
  LET last == SelectLastInSeq(inbox, LAMBDA m : m.what = "SELECT" /\ m.session = k)
  IN  IF last = 0 THEN tracks[k] ELSE inbox[last].track
EnabledDue(type) ==
  LET last == SelectLastInSeq(inbox, LAMBDA m : m.what = "ENABLE" /\ m.type = type)
  IN  IF last = 0 THEN type \in core.flags ELSE inbox[last].flag
PlayDue ==
  LET last == SelectLastInSeq(inbox, LAMBDA m : m.what = "PLAY")
  IN  IF last = 0 THEN core.playWhenReady ELSE inbox[last].flag

(* No decoder outlives the surface it draws to, except while a player that   *)
(* failed lets go of its renderers; and a player that is built will have the *)
(* surface, and its video enabled, as the activity wants at the time.        *)
SurfaceFollows ==
  /\ core.codec /\ ~core.failing => activity.valid
  /\ Free /\ demo.building = "BUILT" =>
       /\ SurfaceDue(demo.prepared) = demo.surface
       /\ EnabledDue("video") =
            (demo.surface /\ activity.valid /\ demo.selected["video"] # DISABLED)

(* A track is never selected in a source that is enabled ("Source selection  *)
(* can only be performed when the source is disabled", MultiTrackChunkSource *)
(* 35), whatever was asked before and whatever fails; a player that is built *)
(* will have the track selected last, and will play when the activity wants  *)
(* it, though each selection pauses it.                                      *)
TracksFollow ==
  /\ inbox # <<>> /\ received.what = "SELECT" => ~SelectsEnabled
  /\ activity.thread # "released" => PlayDue = app.playWhenReady
  /\ Free /\ demo.building = "BUILT" =>
       /\ EnabledDue("audio") = (demo.selected["audio"] # DISABLED)
       /\ builder.multi /\ demo.selected["audio"] # DISABLED =>
            TrackDue(demo.prepared) = demo.selected["audio"]

\* One set of renderers at a time reaches the player, that of the last preparation,
\* and none when it is released, however late a builder answers.
LastBuildIsPlayed ==
  /\ core.held # 0 /\ ~core.failing => core.held = demo.prepared
  /\ \A i \in DOMAIN inbox :
       inbox[i].what = "PREPARE" =>
         /\ inbox[i].session = demo.prepared
         /\ core.held # 0 => core.failing
         /\ \A j \in 1..i - 1 : inbox[j].what \notin {"PREPARE", "RELEASE"}
  /\ core.released => core.held = 0 /\ inbox = <<>>

\* The activity was told what it would be told now; and it offers to try again as
\* soon as nothing plays and nothing is under way.
ActivityIsTold ==
  Free =>
    /\ demo.reported = [state |-> getPlaybackState(World),
                        playWhenReady |-> app.playWhenReady]
    /\ core.held = 0 /\ inbox = <<>> /\ events = <<>> /\ ~demo.waits =>
         activity.needsPrepare
    /\ demo.building = "BUILT" => ~activity.needsPrepare

(* Preparations, answers of builders, errors, retries and the release come   *)
(* in any order: the last preparation is the one that is played, and the     *)
(* activity knows where it stands.                                           *)
SessionsFollow == LastBuildIsPlayed /\ ActivityIsTold
=============================================================================
