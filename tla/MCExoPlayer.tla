---------------------------- MODULE MCExoPlayer ----------------------------
(* Small instances of ExoPlayer: the calls an application makes.           *)
EXTENDS ExoPlayer

PlaybackCalls == {"prepare", "setPlayWhenReady", "seekTo",
                  "setRendererEnabled", "stop", "release"}
TrackCalls == {"prepare", "setPlayWhenReady", "setRendererEnabled", "stop"}
MessageCalls == {"prepare", "sendMessage", "blockingSendMessage",
                 "setPlayWhenReady", "release"}
=============================================================================
