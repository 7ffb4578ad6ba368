--------------------------- MODULE PlaybackStates ---------------------------
(***************************************************************************)
(* What an application may see of a player: the playback state diagram.    *)
(* A player leaves IDLE only by preparing, leaves PREPARING once, and then *)
(* moves between BUFFERING, READY and ENDED until it is idle again.  ENDED *)
(* is left by a seek, which buffers first.                                 *)
(***************************************************************************)

VARIABLE shown   \* the state the player shows

Diagram ==
  ({"IDLE"} \X {"PREPARING"})
    \cup ({"PREPARING"} \X {"BUFFERING", "READY", "ENDED", "IDLE"})
    \cup ({"BUFFERING"} \X {"READY", "ENDED", "IDLE"})
    \cup ({"READY"} \X {"BUFFERING", "ENDED", "IDLE"})
    \cup ({"ENDED"} \X {"BUFFERING", "IDLE"})

Init == shown = "IDLE"
Next == <<shown, shown'>> \in Diagram
Spec == Init /\ [][Next]_shown
=============================================================================
