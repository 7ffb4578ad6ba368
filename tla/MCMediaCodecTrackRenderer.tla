---------------------- MODULE MCMediaCodecTrackRenderer ----------------------
(* Four frames: the second needs the first, the third and the fourth begin    *)
(* another format each; clear on a decoder that is flushed and on one that is *)
(* made anew (SDK_INT below 18), or protected, beginning and ending in the    *)
(* clear.                                                                     *)
EXTENDS MediaCodecTrackRenderer

Sample(format, sync, encrypted) ==
  [format |-> format, sync |-> sync, encrypted |-> encrypted]
Track == <<Sample("low", TRUE, FALSE), Sample("low", FALSE, TRUE),
           Sample("high", TRUE, TRUE), Sample("low", TRUE, FALSE)>>

Device(flushes, adaptive, protected, playsClear) ==
  [flushes |-> flushes, adaptive |-> adaptive, protected |-> protected,
   playsClear |-> playsClear]
SomeDevices ==
  {Device(TRUE, TRUE, FALSE, TRUE), Device(FALSE, FALSE, FALSE, TRUE),
   Device(TRUE, TRUE, TRUE, TRUE)}
=============================================================================
