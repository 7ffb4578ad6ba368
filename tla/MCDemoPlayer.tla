----------------------------- MODULE MCDemoPlayer -----------------------------
(* Two audio tracks. *)
EXTENDS DemoPlayer
=============================================================================
