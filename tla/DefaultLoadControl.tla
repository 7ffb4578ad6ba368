--------------------------- MODULE DefaultLoadControl ---------------------------
(***************************************************************************)
(* DefaultLoadControl.java: who of several loaders that share a pool of    *)
(* memory may load next.  All calls come from the playback thread.         *)
(***************************************************************************)
EXTENDS NetworkLock, FiniteSetsExt

CONSTANTS
  Loaders,
  Contribution,                  \* bufferSizeContribution of each loader
  LowWatermark, HighWatermark,   \* of the time buffered
  LowPoolLoad, HighPoolLoad      \* of the pool in use, in tenths of its size

ASSUME LoadControlAssumption ==
  /\ IsFiniteSet(Loaders)
  /\ Contribution \in [Loaders -> Nat \ {0}]
  /\ LowWatermark \in Nat /\ HighWatermark \in Nat
  /\ LowPoolLoad \in Nat /\ HighPoolLoad \in Nat

VARIABLE control   \* the fields of the control, below

ABOVE_HIGH_WATERMARK == 0
BETWEEN_WATERMARKS == 1
BELOW_LOW_WATERMARK == 2
BufferStates == 0..2

LoaderState ==
  [bufferState : BufferStates, nextLoadPosition : Nat \cup {-1},
   loading : BOOLEAN, failed : BOOLEAN]

Control ==
  [loaders : SUBSET Loaders,
   loaderStates : [Loaders -> LoaderState],
   bufferPoolState : BufferStates,
   fillingBuffers : BOOLEAN, streamingPrioritySet : BOOLEAN,
   maxLoadStartPosition : Nat \cup {-1}]

NewLoaderState ==
  [bufferState |-> ABOVE_HIGH_WATERMARK, nextLoadPosition |-> -1,
   loading |-> FALSE, failed |-> FALSE]

ControlInit ==
  control = [loaders |-> {}, loaderStates |-> [l \in Loaders |-> NewLoaderState],
             bufferPoolState |-> ABOVE_HIGH_WATERMARK,
             fillingBuffers |-> FALSE, streamingPrioritySet |-> FALSE,
             maxLoadStartPosition |-> 0]

targetBufferSize(c) == MapThenSumSet(LAMBDA l : Contribution[l], c.loaders)

getLoaderBufferState(playback, nextLoad) ==
  IF nextLoad = -1 \/ nextLoad - playback > HighWatermark
  THEN ABOVE_HIGH_WATERMARK
  ELSE IF nextLoad - playback < LowWatermark
       THEN BELOW_LOW_WATERMARK ELSE BETWEEN_WATERMARKS

getBufferPoolState(allocated, target) ==
  IF 10 * allocated > HighPoolLoad * target
  THEN ABOVE_HIGH_WATERMARK
  ELSE IF 10 * allocated < LowPoolLoad * target
       THEN BELOW_LOW_WATERMARK ELSE BETWEEN_WATERMARKS

-----------------------------------------------------------------------------
(* updateControlState, for the loader states and the pool state of c.      *)

loading(c) == \E l \in c.loaders : c.loaderStates[l].loading
failed(c) == \E l \in c.loaders : c.loaderStates[l].failed
NextLoads(c) ==
  {c.loaderStates[l].nextLoadPosition : l \in c.loaders} \ {-1}
highestState(c) ==
  Max({c.bufferPoolState} \cup {c.loaderStates[l].bufferState : l \in c.loaders})

(* No loaders, or all of them finished: there is no next load.             *)
IsFilling(c) ==
  /\ NextLoads(c) # {} /\ ~failed(c)
  /\ \/ highestState(c) = BELOW_LOW_WATERMARK
     \/ highestState(c) = BETWEEN_WATERMARKS /\ c.fillingBuffers

HoldsPriority(c, filling) ==
  filling \/ (c.streamingPrioritySet /\ loading(c))

updateControlState_Latest(c) ==
  [c EXCEPT
     !.fillingBuffers = IsFilling(c),
     !.streamingPrioritySet = HoldsPriority(c, IsFilling(c)),
     !.maxLoadStartPosition = IF IsFilling(c) THEN Max(NextLoads(c)) ELSE -1]
updateControlState(c) ==
  [c EXCEPT
     !.fillingBuffers = IsFilling(c),
     !.streamingPrioritySet = HoldsPriority(c, IsFilling(c)),
     !.maxLoadStartPosition = IF IsFilling(c) THEN Min(NextLoads(c)) ELSE -1]

register(c, l) == [c EXCEPT !.loaders = @ \cup {l},
                            !.loaderStates[l] = NewLoaderState]

unregister_NoUpdate(c, l) ==
  [c EXCEPT !.loaders = @ \ {l}, !.loaderStates[l] = NewLoaderState]
unregister(c, l) ==
  updateControlState([c EXCEPT !.loaders = @ \ {l},
                               !.loaderStates[l] = NewLoaderState])

(* What update makes of c.                                                 *)
update(c, l, playback, nextLoad, isLoading, hasFailed, allocated) ==
  LET d == [c EXCEPT
              !.loaderStates[l] =
                [bufferState |-> getLoaderBufferState(playback, nextLoad),
                 nextLoadPosition |-> nextLoad,
                 loading |-> isLoading, failed |-> hasFailed],
              !.bufferPoolState =
                getBufferPoolState(allocated, targetBufferSize(c))]
  IN  IF d = c THEN c ELSE updateControlState(d)

(* What update returns, having made c of the control.                      *)
mayLoad_AnyMemory(c, nextLoad, allocated) ==
  nextLoad # -1 /\ nextLoad <= c.maxLoadStartPosition
mayLoad_Earlier(c, nextLoad, allocated) ==
  /\ allocated < targetBufferSize(c)
  /\ nextLoad # -1 /\ nextLoad < c.maxLoadStartPosition
mayLoad(c, nextLoad, allocated) ==
  /\ allocated < targetBufferSize(c)
  /\ nextLoad # -1 /\ nextLoad <= c.maxLoadStartPosition

(* The control becomes c, and registers with the network lock, or not.     *)
Becomes(c) ==
  /\ control' = c
  /\ CASE c.streamingPrioritySet /\ ~control.streamingPrioritySet ->
            add(STREAMING_PRIORITY)
       [] ~c.streamingPrioritySet /\ control.streamingPrioritySet ->
            remove(STREAMING_PRIORITY)
       [] OTHER -> UNCHANGED lockVars
=============================================================================
