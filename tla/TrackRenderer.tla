---------------------------- MODULE TrackRenderer ----------------------------
(***************************************************************************)
(* The life cycle of the renderers of one prepare() call, as               *)
(* TrackRenderer.java defines it.  A renderer is a number in Idx, its      *)
(* position in the array handed to ExoPlayer.prepare.  The owning player   *)
(* drives the life cycle; a callback of a renderer in Faulty may throw     *)
(* whenever it is called, and every transition assigns the new state       *)
(* before it runs the callback, so a throwing callback leaves the new      *)
(* state behind.                                                           *)
(***************************************************************************)
EXTENDS Naturals, FiniteSets

CONSTANTS
  NumRenderers,   \* the rendererCount passed to ExoPlayer.Factory.newInstance
  Faulty          \* renderers whose callbacks may throw

Idx == 1..NumRenderers

ASSUME RendererAssumption == /\ NumRenderers \in Nat
                             /\ Faulty \subseteq Idx

UNPREPARED == "UNPREPARED"
PREPARED   == "PREPARED"
IGNORE     == "IGNORE"
ENABLED_   == "ENABLED"
STARTED    == "STARTED"
RELEASED   == "RELEASED"

RendererState ==
  {UNPREPARED, PREPARED, IGNORE, ENABLED_, STARTED, RELEASED}

(* What doPrepare may return for a renderer: prepared ones are not asked.  *)
PrepareOutcomes(r) ==
  {p \in [Idx -> RendererState] :
     \A i \in Idx : IF r[i] = UNPREPARED
                    THEN p[i] \in {UNPREPARED, PREPARED, IGNORE}
                    ELSE p[i] = r[i]}

(* r with the renderers of es moved to state x.                            *)
Move(r, es, x) == [i \in Idx |-> IF i \in es THEN x ELSE r[i]]

(* r with the started renderers of es stopped (ensureStopped on each).     *)
Stopped_Never(r, es) == r
Stopped(r, es) ==
  [i \in Idx |-> IF i \in es /\ r[i] = STARTED THEN ENABLED_ ELSE r[i]]

(* The assignments a loop from r to t may leave when a callback throws:    *)
(* any part of the renderers has been moved.                               *)
MidLoop(r, t) ==
  {q \in [Idx -> RendererState] : \A i \in Idx : q[i] \in {r[i], t[i]}}

(* What ensureStopped, disable (if enabled) and release make of renderer i *)
(* in state x when each is tried and a throw ends the attempt.             *)
CleanupOutcomes_FirstThrowEnds(i, x) ==
  IF Faulty = {} THEN {RELEASED} ELSE {RELEASED, x}
CleanupOutcomes(i, x) ==
  IF i \notin Faulty \/ x \notin {ENABLED_, STARTED}
  THEN {RELEASED}
  ELSE IF x = STARTED THEN {RELEASED, PREPARED, ENABLED_}
                      ELSE {RELEASED, PREPARED}
=============================================================================
