----------------------------- MODULE PTSPopulator -----------------------------
(* The time stamps of a stream (src/jni/PTSPopulator.cpp): a stream whose    *)
(* time stamps repeat is taken to have no usable ones, for good.             *)
EXTENDS Integers

CONSTANT kUnknownPTS
ASSUME UnknownIsTime == kUnknownPTS \in Int

Populators(n) == [mIsPTSReliable : [0..(n - 1) -> BOOLEAN],
                  mLastPTS : [0..(n - 1) -> Int]]

NewPopulator(n) == [mIsPTSReliable |-> [s \in 0..(n - 1) |-> TRUE],
                    mLastPTS |-> [s \in 0..(n - 1) |-> kUnknownPTS]]

Repeats_FirstCountsToo(populator, s, pts) ==
  populator.mIsPTSReliable[s] /\ pts # kUnknownPTS
Repeats(populator, s, pts) ==
  /\ populator.mIsPTSReliable[s]
  /\ pts # kUnknownPTS
  /\ populator.mLastPTS[s] = pts

\* The populator after computePTS of stream s, and what computePTS returns.
Computed(populator, s, pts) ==
  IF Repeats(populator, s, pts)
  THEN [mIsPTSReliable |-> [populator.mIsPTSReliable EXCEPT ![s] = FALSE],
        mLastPTS |-> [populator.mLastPTS EXCEPT ![s] = kUnknownPTS]]
  ELSE IF populator.mIsPTSReliable[s]
  THEN [populator EXCEPT !.mLastPTS[s] = pts]
  ELSE populator

computePTS(populator, s, pts) ==
  IF Computed(populator, s, pts).mIsPTSReliable[s] THEN pts ELSE kUnknownPTS

reset(populator) ==
  [populator EXCEPT !.mLastPTS = [s \in DOMAIN populator.mLastPTS |-> kUnknownPTS]]
=============================================================================
