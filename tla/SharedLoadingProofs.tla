-------------------------- MODULE SharedLoadingProofs --------------------------
(***************************************************************************)
(* Proofs about SharedLoading, for any set of loaders: the streaming       *)
(* priority is held for a reason, the network lock knows of it, and no     *)
(* download sleeps without it; the memory in use is bounded; loads are     *)
(* started in turn; and all that is queued and read is within the media.   *)
(***************************************************************************)
EXTENDS SharedLoading, FoldProofs, TLAPS

(* The shape of the state, which is all that the proofs need of its types. *)
Position == Nat \cup {-1}

SourceShape ==
  [enabled : BOOLEAN, known : BOOLEAN, first : Int, next : Nat,
   reset : Position, read : Int, downstream : Nat,
   load : {"idle", "started", "opened"}, opened : BOOLEAN, canceled : BOOLEAN,
   exception : {"none", "error", "fatal"}, count : 0..2]

LoaderShape ==
  [bufferState : BufferStates, nextLoadPosition : Position,
   loading : BOOLEAN, failed : BOOLEAN]

ControlShape(m) ==
  [loaders : SUBSET Loaders, loaderStates : [Loaders -> LoaderShape],
   bufferPoolState : BufferStates,
   fillingBuffers : BOOLEAN, streamingPrioritySet : BOOLEAN,
   maxLoadStartPosition : {m}]
IsControl(c) == c \in ControlShape(c.maxLoadStartPosition)

(* PriorityIsExplained, of any control.                                    *)
Explained(c) ==
  /\ c.fillingBuffers =>
       c.streamingPrioritySet /\ NextLoads(c) # {} /\ ~failed(c)
  /\ c.streamingPrioritySet => c.fillingBuffers \/ loading(c)

(* Who is registered is enabled, and the other way round.                  *)
Registered(c, src) == \A l \in Loaders : l \in c.loaders <=> src[l].enabled

LockIsRight ==
  /\ queue \in [Priorities -> Nat]
  /\ PriorityIsRegistered /\ NoLostWakeUp

IInv ==
  /\ source \in [Loaders -> SourceShape] /\ position \in Nat
  /\ IsControl(control) /\ Explained(control)
  /\ Registered(control, source)
  /\ LockIsRight

-----------------------------------------------------------------------------
(* Operators on the control.                                               *)

LEMMA UpdateStateExplained ==
  ASSUME NEW c, IsControl(c)
  PROVE  /\ IsControl(updateControlState(c)) /\ Explained(updateControlState(c))
         /\ updateControlState(c).loaders = c.loaders
<1> DEFINE u == updateControlState(c)
           f == IsFilling(c)
           p == HoldsPriority(c, f)
           m == IF f THEN Min(NextLoads(c)) ELSE -1
<1>1. f \in BOOLEAN /\ p \in BOOLEAN
  BY DEF IsFilling, HoldsPriority
<1>2. u = [c EXCEPT !.fillingBuffers = f, !.streamingPrioritySet = p,
                    !.maxLoadStartPosition = m]
  BY DEF updateControlState
<1>3. /\ u \in ControlShape(m) /\ u.maxLoadStartPosition = m
      /\ u.loaders = c.loaders /\ u.loaderStates = c.loaderStates
      /\ u.fillingBuffers = f /\ u.streamingPrioritySet = p
  <2> HIDE DEF u, f, p, m
  <2> QED BY <1>1, <1>2 DEF IsControl, ControlShape
<1>4. NextLoads(u) = NextLoads(c) /\ failed(u) = failed(c)
      /\ loading(u) = loading(c)
  BY <1>3 DEF NextLoads, failed, loading
<1>5. Explained(u)
  BY <1>3, <1>4 DEF Explained, IsFilling, HoldsPriority
<1> QED BY <1>3, <1>5 DEF IsControl

(* A loader that is registered has nothing to load yet, and is not loading.*)
LEMMA RegisterExplained ==
  ASSUME NEW c, IsControl(c), Explained(c), NEW l \in Loaders, l \notin c.loaders
  PROVE  /\ IsControl(register(c, l)) /\ Explained(register(c, l))
         /\ register(c, l).loaders = c.loaders \cup {l}
         /\ register(c, l).streamingPrioritySet = c.streamingPrioritySet
<1> DEFINE r == register(c, l)
<1>1. /\ r.loaders = c.loaders \cup {l}
      /\ r.loaderStates = [c.loaderStates EXCEPT ![l] = NewLoaderState]
      /\ r.fillingBuffers = c.fillingBuffers
      /\ r.streamingPrioritySet = c.streamingPrioritySet
  BY DEF IsControl, ControlShape, register
<1>2. NewLoaderState \in LoaderShape
  BY DEF NewLoaderState, LoaderShape, Position, BufferStates,
         ABOVE_HIGH_WATERMARK
<1>3. IsControl(r)
  BY <1>2 DEF IsControl, ControlShape, register
<1>4. /\ \A k \in c.loaders : r.loaderStates[k] = c.loaderStates[k]
      /\ r.loaderStates[l] = NewLoaderState
  BY <1>1 DEF IsControl, ControlShape
<1>5. NextLoads(c) \subseteq NextLoads(r)
  BY <1>1, <1>4 DEF NextLoads
<1>6. failed(r) => failed(c)
  BY <1>1, <1>4 DEF failed, NewLoaderState
<1>7. loading(c) => loading(r)
  BY <1>1, <1>4 DEF loading
<1> QED BY <1>1, <1>3, <1>5, <1>6, <1>7 DEF Explained

LEMMA UnregisterExplained ==
  ASSUME NEW c, IsControl(c), NEW l \in Loaders
  PROVE  /\ IsControl(unregister(c, l)) /\ Explained(unregister(c, l))
         /\ unregister(c, l).loaders = c.loaders \ {l}
<1> DEFINE d == [c EXCEPT !.loaders = @ \ {l},
                          !.loaderStates[l] = NewLoaderState]
<1>1. NewLoaderState \in LoaderShape
  BY DEF NewLoaderState, LoaderShape, Position, BufferStates,
         ABOVE_HIGH_WATERMARK
<1>2. IsControl(d) /\ d.loaders = c.loaders \ {l}
  BY <1>1 DEF IsControl, ControlShape
<1> QED BY <1>2, UpdateStateExplained DEF unregister

LEMMA UpdateExplained ==
  ASSUME NEW c, IsControl(c), Explained(c), NEW l \in Loaders,
         NEW playback \in Nat, NEW nextLoad \in Position,
         NEW isLoad \in BOOLEAN, NEW hasFailed \in BOOLEAN, NEW allocated
  PROVE  LET u == update(c, l, playback, nextLoad, isLoad, hasFailed, allocated)
         IN  IsControl(u) /\ Explained(u) /\ u.loaders = c.loaders
<1> DEFINE n == [bufferState |-> getLoaderBufferState(playback, nextLoad),
                 nextLoadPosition |-> nextLoad,
                 loading |-> isLoad, failed |-> hasFailed]
           d == [c EXCEPT
                   !.loaderStates[l] = n,
                   !.bufferPoolState =
                     getBufferPoolState(allocated, targetBufferSize(c))]
<1>1. n \in LoaderShape
  BY DEF LoaderShape, BufferStates, getLoaderBufferState, ABOVE_HIGH_WATERMARK,
         BELOW_LOW_WATERMARK, BETWEEN_WATERMARKS
<1>2. IsControl(d) /\ d.loaders = c.loaders
  <2>1. getBufferPoolState(allocated, targetBufferSize(c)) \in BufferStates
    BY DEF BufferStates, getBufferPoolState, ABOVE_HIGH_WATERMARK,
           BELOW_LOW_WATERMARK, BETWEEN_WATERMARKS
  <2> HIDE DEF n
  <2> QED BY <1>1, <2>1 DEF IsControl, ControlShape
<1>3. update(c, l, playback, nextLoad, isLoad, hasFailed, allocated)
        = IF d = c THEN c ELSE updateControlState(d)
  BY DEF update
<1> HIDE DEF d
<1> QED BY <1>2, <1>3, UpdateStateExplained

-----------------------------------------------------------------------------
(* Operators on a source.                                                  *)

LEMMA DivisionOfTimes ==
  ASSUME NEW a \in Nat, NEW b \in Nat \ {0}
  PROVE  a \div b \in Nat
OBVIOUS

LEMMA NextLoadIsPosition ==
  ASSUME NEW l \in Loaders, NEW s \in SourceShape
  PROVE  nextLoadPosition(l, s) \in Position
<1>1. s.next \in Nat /\ s.reset \in Position /\ Duration[l] \in Nat
  BY SharedLoadingAssumption DEF SourceShape
<1>2. s.next * Duration[l] \in Nat
  BY <1>1
<1> QED BY <1>1, <1>2 DEF nextLoadPosition, Position

LEMMA ChunkIsThere ==
  ASSUME NEW l \in Loaders, NEW time \in Nat
  PROVE  ChunkAt(l, time) \in Int /\ ChunkAt(l, time) + 1 \in Nat
<1>1. Duration[l] \in Nat \ {0} /\ EndTime \in Nat
  BY SharedLoadingAssumption
<1>2. Last(l) \in Nat
  BY <1>1, DivisionOfTimes DEF Last
<1>3. time \div Duration[l] \in Nat
  BY <1>1, DivisionOfTimes
<1> QED BY <1>2, <1>3 DEF ChunkAt

(* Assignments keep the shape of a source.                                 *)
LEMMA QueueKeepsShape ==
  ASSUME NEW s \in SourceShape, NEW a \in Int, NEW b \in Nat
  PROVE  LET u == [s EXCEPT !.first = a, !.next = b]
         IN  u \in SourceShape /\ u.enabled = s.enabled
BY DEF SourceShape

LEMMA ResetKeepsShape ==
  ASSUME NEW s \in SourceShape, NEW a \in Int, NEW b \in Position
  PROVE  LET u == [s EXCEPT !.read = a, !.reset = b]
         IN  u \in SourceShape /\ u.enabled = s.enabled
BY DEF SourceShape

LEMMA RestartKeepsShape ==
  ASSUME NEW s \in SourceShape, NEW time \in Position
  PROVE  LET u == [s EXCEPT !.reset = time, !.read = time]
         IN  u \in SourceShape /\ u.enabled = s.enabled
<1>1. time \in Int
  BY DEF Position
<1> QED BY <1>1 DEF SourceShape

LEMMA ExceptionKeepsShape ==
  ASSUME NEW s \in SourceShape, NEW a \in BOOLEAN,
         NEW e \in {"none", "error", "fatal"}, NEW n \in 0..2
  PROVE  LET u == [s EXCEPT !.opened = a, !.exception = e, !.count = n]
         IN  u \in SourceShape /\ u.enabled = s.enabled
BY DEF SourceShape

(* The assignments of a few fields, and what they leave alone.             *)
LEMMA EnablingKeepsRest ==
  ASSUME NEW s \in SourceShape, NEW p \in Nat
  PROVE  LET u == [s EXCEPT !.enabled = TRUE, !.downstream = p]
         IN  /\ u \in SourceShape /\ u.enabled /\ u.load = s.load
             /\ u.exception = s.exception /\ u.count = s.count
             /\ u.known = s.known /\ u.first = s.first /\ u.next = s.next
<1> DEFINE u == [s EXCEPT !.enabled = TRUE, !.downstream = p]
<1>1. u \in SourceShape
  BY DEF SourceShape
<1>2. u.enabled
  BY DEF SourceShape
<1>3. /\ u.load = s.load /\ u.exception = s.exception /\ u.count = s.count
      /\ u.known = s.known /\ u.first = s.first /\ u.next = s.next
  BY DEF SourceShape
<1> QED BY <1>1, <1>2, <1>3, Zenon

LEMMA DisablingKeepsRest ==
  ASSUME NEW s \in SourceShape
  PROVE  LET u == [s EXCEPT !.enabled = FALSE]
         IN  /\ u \in SourceShape /\ ~u.enabled /\ u.load = s.load
             /\ u.exception = s.exception /\ u.count = s.count
             /\ u.first = s.first /\ u.next = s.next
<1> DEFINE u == [s EXCEPT !.enabled = FALSE]
<1>1. u \in SourceShape
  BY DEF SourceShape
<1>2. ~u.enabled
  BY DEF SourceShape
<1>3. /\ u.load = s.load /\ u.exception = s.exception /\ u.count = s.count
      /\ u.first = s.first /\ u.next = s.next
  BY DEF SourceShape
<1> QED BY <1>1, <1>2, <1>3, Zenon

LEMMA EndingKeepsRest ==
  ASSUME NEW s \in SourceShape
  PROVE  LET u == [s EXCEPT !.load = "idle", !.canceled = FALSE]
         IN  /\ u \in SourceShape /\ u.load = "idle"
             /\ u.enabled = s.enabled /\ u.known = s.known
<1> DEFINE u == [s EXCEPT !.load = "idle", !.canceled = FALSE]
<1>1. u \in SourceShape
  BY DEF SourceShape
<1>2. u.load = "idle"
  BY DEF SourceShape
<1>3. u.enabled = s.enabled /\ u.known = s.known
  BY DEF SourceShape
<1> QED BY <1>1, <1>2, <1>3, Zenon

LEMMA ProceedsKeepsShape ==
  ASSUME NEW l \in Loaders, NEW s \in SourceShape,
         NEW next \in BOOLEAN, NEW due \in BOOLEAN
  PROVE  /\ Proceeds(l, s, next, due) \in SourceShape
         /\ Proceeds(l, s, next, due).enabled = s.enabled
<1>1. maybeStartLoading(l, s) \in SourceShape
      /\ maybeStartLoading(l, s).enabled = s.enabled
  <2> DEFINE t == [s EXCEPT !.load = "started", !.opened = FALSE,
                            !.canceled = FALSE]
             chunk == ChunkAt(l, s.reset)
  <2>1. t \in SourceShape /\ t.enabled = s.enabled
    BY DEF SourceShape
  <2>2. s.reset # None => chunk \in Int /\ chunk + 1 \in Nat /\ s.reset \in Nat
    BY ChunkIsThere DEF SourceShape, Position, None
  <2>3. maybeStartLoading(l, s) =
          IF ~s.known THEN t
          ELSE IF s.reset = None
               THEN [t EXCEPT !.next = @ + 1]
               ELSE [t EXCEPT !.first = chunk, !.next = chunk + 1,
                              !.read = s.reset, !.reset = None]
    BY DEF maybeStartLoading
  <2> HIDE DEF t, chunk
  <2>4. [t EXCEPT !.next = @ + 1] \in SourceShape
        /\ [t EXCEPT !.next = @ + 1].enabled = s.enabled
    BY <2>1 DEF SourceShape
  <2>5. ASSUME s.reset # None
        PROVE  LET u == [t EXCEPT !.first = chunk, !.next = chunk + 1,
                                  !.read = s.reset, !.reset = None]
               IN  u \in SourceShape /\ u.enabled = s.enabled
    <3> DEFINE v == [t EXCEPT !.first = chunk, !.next = chunk + 1]
               u == [v EXCEPT !.read = s.reset, !.reset = None]
    <3>1. v \in SourceShape /\ v.enabled = s.enabled
      BY <2>1, <2>2, <2>5 DEF SourceShape
    <3>2. u \in SourceShape /\ u.enabled = s.enabled
      <4>1. s.reset \in Int /\ None \in Position
        BY <2>2, <2>5 DEF Position, None
      <4> HIDE DEF v
      <4> QED BY <3>1, <4>1, ResetKeepsShape, Zenon
    <3> QED BY <3>2
  <2> QED BY <2>1, <2>3, <2>4, <2>5
<1>2. resumeFromBackOff(s) \in SourceShape
      /\ resumeFromBackOff(s).enabled = s.enabled
  BY DEF SourceShape, resumeFromBackOff
<1> QED BY <1>1, <1>2 DEF Proceeds

LEMMA ClearKeepsShape ==
  ASSUME NEW s \in SourceShape
  PROVE  Clear(s) \in SourceShape /\ Clear(s).enabled = s.enabled
<1> DEFINE t == [s EXCEPT !.first = 0, !.next = 0]
           u == [t EXCEPT !.opened = FALSE, !.exception = "none", !.count = 0]
<1>1. t \in SourceShape /\ t.enabled = s.enabled
  <2>1. 0 \in Int /\ 0 \in Nat
    OBVIOUS
  <2> QED BY <2>1, QueueKeepsShape, Zenon
<1>2. u \in SourceShape /\ u.enabled = t.enabled
  <2>1. 0 \in 0..2 /\ FALSE \in BOOLEAN /\ "none" \in {"none", "error", "fatal"}
    OBVIOUS
  <2> HIDE DEF t
  <2> QED BY <1>1, <2>1, ExceptionKeepsShape, Zenon
<1>3. Clear(s) = u
  BY DEF Clear
<1> HIDE DEF t, u
<1> QED BY <1>1, <1>2, <1>3

-----------------------------------------------------------------------------
(* What handlers end with.                                                 *)

LEMMA BecomesKeepsLock ==
  ASSUME LockIsRight, IsControl(control), NEW c, IsControl(c), Becomes(c)
  PROVE  control' = c /\ LockIsRight'
<1>1. control' = c
  BY DEF Becomes
<1>2. CASE c.streamingPrioritySet /\ ~control.streamingPrioritySet
  <2>1. queue' = [queue EXCEPT ![STREAMING_PRIORITY] = @ + 1]
        /\ download' = download
    BY <1>2 DEF Becomes, add, Added
  <2> QED BY <1>1, <1>2, <2>1 DEF LockIsRight, PriorityIsRegistered,
            NoLostWakeUp, Priorities, STREAMING_PRIORITY, DOWNLOAD_PRIORITY
<1>3. CASE ~c.streamingPrioritySet /\ control.streamingPrioritySet
  <2>1. /\ queue' = [queue EXCEPT ![STREAMING_PRIORITY] =
                       IF @ > 0 THEN @ - 1 ELSE 0]
        /\ download' = Notified(download)
    BY <1>3 DEF Becomes, remove, Removed
  <2>2. queue[STREAMING_PRIORITY] = 1
    BY <1>3 DEF LockIsRight, PriorityIsRegistered
  <2> QED BY <1>1, <1>3, <2>1, <2>2 DEF LockIsRight, PriorityIsRegistered,
            NoLostWakeUp, Notified, Priorities, STREAMING_PRIORITY,
            DOWNLOAD_PRIORITY
<1>4. CASE c.streamingPrioritySet <=> control.streamingPrioritySet
  <2>1. queue' = queue /\ download' = download
    BY <1>4 DEF Becomes, lockVars
  <2> QED BY <1>1, <1>4, <2>1 DEF LockIsRight, PriorityIsRegistered,
            NoLostWakeUp
<1> QED BY <1>2, <1>3, <1>4 DEF IsControl, ControlShape

LEMMA RestsKeeps ==
  ASSUME IInv, position' \in Nat,
         NEW c, IsControl(c), Explained(c),
         NEW l \in Loaders, NEW s \in SourceShape,
         Registered(c, [source EXCEPT ![l] = s]),
         Rests(c, l, s)
  PROVE  IInv'
<1>1. source' = [source EXCEPT ![l] = s] /\ Becomes(c)
  BY DEF Rests
<1>2. control' = c /\ LockIsRight'
  BY <1>1, BecomesKeepsLock DEF IInv
<1>3. source' \in [Loaders -> SourceShape]
  BY <1>1 DEF IInv
<1>4. IsControl(control)' /\ Explained(control)'
  BY <1>2 DEF IsControl, ControlShape, Explained, NextLoads, failed, loading
<1>5. Registered(control, source)'
  BY <1>1, <1>2 DEF Registered
<1> QED BY <1>2, <1>3, <1>4, <1>5 DEF IInv

LEMMA UpdateKeeps ==
  ASSUME IInv, position' \in Nat,
         NEW c, IsControl(c), Explained(c),
         NEW l \in Loaders, NEW s \in SourceShape, NEW due \in BOOLEAN,
         Registered(c, [source EXCEPT ![l] = s]),
         updateLoadControl(c, l, s, due)
  PROVE  IInv'
<1> DEFINE isLoad == IsBackedOff(s) \/ isLoading(s)
           hasFailed == s.exception = "fatal"
<1>1. PICK allocated \in {getAllocatedSize([source EXCEPT ![l] = s])},
           nextLoad \in {nextLoadPosition(l, s)} :
        \E d \in {update(c, l, s.downstream, nextLoad, isLoad, hasFailed,
                         allocated)} :
          Rests(d, l, Proceeds(l, s, mayLoad(d, nextLoad, allocated), due))
  BY Zenon DEF updateLoadControl
<1>2. PICK d \in {update(c, l, s.downstream, nextLoad, isLoad, hasFailed,
                         allocated)} :
        Rests(d, l, Proceeds(l, s, mayLoad(d, nextLoad, allocated), due))
  BY <1>1, Zenon
<1>3. IsControl(d) /\ Explained(d) /\ d.loaders = c.loaders
  <2>1. /\ nextLoad \in Position /\ s.downstream \in Nat
        /\ isLoad \in BOOLEAN /\ hasFailed \in BOOLEAN
    BY NextLoadIsPosition DEF SourceShape
  <2> HIDE DEF isLoad, hasFailed
  <2> QED BY <2>1, UpdateExplained
<1> DEFINE t == Proceeds(l, s, mayLoad(d, nextLoad, allocated), due)
<1>4. t \in SourceShape /\ t.enabled = s.enabled
  <2>1. mayLoad(d, nextLoad, allocated) \in BOOLEAN
    BY DEF mayLoad
  <2> QED BY <2>1, ProceedsKeepsShape
<1>5. Rests(d, l, t)
  BY <1>2
<1> HIDE DEF t
<1>6. Registered(d, [source EXCEPT ![l] = t])
  BY <1>3, <1>4 DEF Registered, IInv
<1> QED BY <1>3, <1>4, <1>5, <1>6, RestsKeeps

LEMMA RestartKeeps ==
  ASSUME IInv, position' \in Nat,
         NEW c, IsControl(c), Explained(c),
         NEW l \in Loaders, NEW s \in SourceShape, NEW due \in BOOLEAN,
         NEW time \in Position,
         Registered(c, [source EXCEPT ![l] = s]),
         restartFrom(c, l, s, time, due)
  PROVE  IInv'
<1> DEFINE t == [s EXCEPT !.reset = time, !.read = time]
           u == [t EXCEPT !.canceled = TRUE]
<1>1. t \in SourceShape /\ t.enabled = s.enabled
  BY RestartKeepsShape, Zenon
<1>2. CASE isLoading(t)
  <2>1. Rests(c, l, u)
    BY <1>2 DEF restartFrom
  <2> HIDE DEF t
  <2>2. u \in SourceShape /\ u.enabled = s.enabled
    BY <1>1 DEF SourceShape
  <2> HIDE DEF u
  <2>3. Registered(c, [source EXCEPT ![l] = u])
    BY <2>2 DEF Registered, IInv
  <2> QED BY <2>1, <2>2, <2>3, RestsKeeps
<1>3. CASE ~isLoading(t)
  <2>1. updateLoadControl(c, l, Clear(t), due)
    BY <1>3 DEF restartFrom
  <2> HIDE DEF t
  <2>2. Clear(t) \in SourceShape /\ Clear(t).enabled = s.enabled
    BY <1>1, ClearKeepsShape
  <2>3. Registered(c, [source EXCEPT ![l] = Clear(t)])
    BY <2>2 DEF Registered, IInv
  <2> QED BY <2>1, <2>2, <2>3, UpdateKeeps
<1> QED BY <1>2, <1>3

-----------------------------------------------------------------------------
(* The actions.                                                            *)

LEMMA StillRegistered ==
  ASSUME IInv, NEW l \in Loaders, NEW s, s.enabled = source[l].enabled
  PROVE  Registered(control, [source EXCEPT ![l] = s])
BY DEF IInv, Registered

LEMMA MoveKeepsShape ==
  ASSUME NEW s \in SourceShape, NEW p \in Nat
  PROVE  LET u == [s EXCEPT !.downstream = p]
         IN  u \in SourceShape /\ u.enabled = s.enabled
BY DEF SourceShape

LEMMA EnableKeeps ==
  ASSUME IInv, NEW l \in Loaders, NEW due \in BOOLEAN, Enable(l, due)
  PROVE  IInv'
<1> DEFINE s == [source[l] EXCEPT !.enabled = TRUE, !.downstream = position]
           c == register(control, l)
<1>1. position' \in Nat /\ position \in Nat /\ ~source[l].enabled
      /\ restartFrom(c, l, s, position, due)
  BY DEF Enable, Undisturbed, IInv
<1>2. s \in SourceShape /\ s.enabled
  <2>1. source[l] \in SourceShape /\ position \in Nat
    BY DEF IInv
  <2> QED BY <2>1, EnablingKeepsRest, Zenon
<1>3. l \notin control.loaders
  BY <1>1 DEF IInv, Registered
<1>4. IsControl(c) /\ Explained(c) /\ c.loaders = control.loaders \cup {l}
  BY <1>3, RegisterExplained DEF IInv
<1> HIDE DEF s, c
<1>5. Registered(c, [source EXCEPT ![l] = s])
  BY <1>2, <1>4 DEF Registered, IInv
<1>6. position \in Position
  BY <1>1 DEF Position
<1> QED BY <1>1, <1>2, <1>4, <1>5, <1>6, RestartKeeps

LEMMA DisableKeeps ==
  ASSUME IInv, NEW l \in Loaders, Disable(l)
  PROVE  IInv'
<1> DEFINE s == [source[l] EXCEPT !.enabled = FALSE]
           t == IF isLoading(s) THEN [s EXCEPT !.canceled = TRUE] ELSE Clear(s)
           c == unregister(control, l)
<1>1. position' \in Nat /\ Rests(c, l, t)
  BY DEF Disable, Undisturbed, IInv
<1>2. s \in SourceShape /\ ~s.enabled
  BY ZenonT(30) DEF IInv, SourceShape
<1>3. t \in SourceShape /\ ~t.enabled
  <2> HIDE DEF s
  <2>1. [s EXCEPT !.canceled = TRUE] \in SourceShape
        /\ ~[s EXCEPT !.canceled = TRUE].enabled
    BY <1>2 DEF SourceShape
  <2> QED BY <1>2, <2>1, ClearKeepsShape
<1>4. IsControl(c) /\ Explained(c) /\ c.loaders = control.loaders \ {l}
  BY UnregisterExplained DEF IInv
<1> HIDE DEF t, c
<1>5. Registered(c, [source EXCEPT ![l] = t])
  BY <1>3, <1>4 DEF Registered, IInv
<1> QED BY <1>1, <1>3, <1>4, <1>5, RestsKeeps

LEMMA ContinueBufferingKeeps ==
  ASSUME IInv, NEW l \in Loaders, NEW due \in BOOLEAN,
         continueBuffering(l, due)
  PROVE  IInv'
<1> DEFINE s == [source[l] EXCEPT !.downstream = position]
<1>1. position' \in Nat /\ updateLoadControl(control, l, s, due)
  BY DEF continueBuffering, Undisturbed, IInv
<1>2. s \in SourceShape /\ s.enabled = source[l].enabled
  BY MoveKeepsShape DEF IInv
<1> HIDE DEF s
<1>3. Registered(control, [source EXCEPT ![l] = s])
  BY <1>2, StillRegistered
<1>4. IsControl(control) /\ Explained(control)
  BY DEF IInv
<1> QED BY <1>1, <1>2, <1>3, <1>4, UpdateKeeps

LEMMA SeekToKeeps ==
  ASSUME IInv, NEW l \in Loaders, NEW due \in BOOLEAN, seekToUs(l, due)
  PROVE  IInv'
<1> DEFINE s == [source[l] EXCEPT !.downstream = position]
           chunk == ChunkAt(l, position)
           t == [s EXCEPT !.first = chunk, !.read = position]
<1>1. /\ position' \in Nat /\ position \in Nat
      /\ \/ Rests(control, l, s)
         \/ updateLoadControl(control, l, t, due)
         \/ restartFrom(control, l, s, position, due)
  BY DEF seekToUs, IInv
<1>2. s \in SourceShape /\ s.enabled = source[l].enabled
  BY MoveKeepsShape DEF IInv
<1>3. t \in SourceShape /\ t.enabled = source[l].enabled
  <2>1. chunk \in Int /\ position \in Int
    BY <1>1, ChunkIsThere
  <2> HIDE DEF s, chunk
  <2> QED BY <1>2, <2>1 DEF SourceShape
<1> HIDE DEF s, t
<1>4. /\ Registered(control, [source EXCEPT ![l] = s])
      /\ Registered(control, [source EXCEPT ![l] = t])
  BY <1>2, <1>3, StillRegistered
<1>5. IsControl(control) /\ Explained(control)
  BY DEF IInv
<1>6. CASE Rests(control, l, s)
  BY <1>1, <1>2, <1>4, <1>5, <1>6, RestsKeeps
<1>7. CASE updateLoadControl(control, l, t, due)
  BY <1>1, <1>3, <1>4, <1>5, <1>7, UpdateKeeps
<1>8. CASE restartFrom(control, l, s, position, due)
  <2>1. position \in Position
    BY <1>1 DEF Position
  <2> QED BY <1>1, <1>2, <1>4, <1>5, <1>8, <2>1, RestartKeeps
<1> QED BY <1>1, <1>6, <1>7, <1>8

LEMMA ReadDataKeeps ==
  ASSUME IInv, NEW l \in Loaders, readData(l)
  PROVE  IInv'
<1> DEFINE s == [source[l] EXCEPT !.downstream = position]
           t == [s EXCEPT !.first =
                  IF s.read = (@ + 1) * Duration[l] /\ s.next > @ + 1
                  THEN @ + 1 ELSE @]
           u == [t EXCEPT !.read = @ + 1]
           r == IF s.reset # None THEN s
                ELSE IF Available(l, t) THEN u ELSE t
<1>1. position' \in Nat /\ Rests(control, l, r)
  BY DEF readData, Undisturbed, IInv
<1>2. s \in SourceShape /\ s.enabled = source[l].enabled
  BY MoveKeepsShape DEF IInv
<1>3. t \in SourceShape /\ t.enabled = source[l].enabled
  <2> HIDE DEF s
  <2> QED BY <1>2 DEF SourceShape
<1>4. u \in SourceShape /\ u.enabled = source[l].enabled
  <2> HIDE DEF t
  <2> QED BY <1>3 DEF SourceShape
<1>5. r \in SourceShape /\ r.enabled = source[l].enabled
  <2> HIDE DEF s, t, u
  <2> QED BY <1>2, <1>3, <1>4
<1> HIDE DEF r
<1>6. Registered(control, [source EXCEPT ![l] = r])
  BY <1>5, StillRegistered
<1>7. IsControl(control) /\ Explained(control)
  BY DEF IInv
<1> QED BY <1>1, <1>5, <1>6, <1>7, RestsKeeps

(* Messages of the loader end with an update, of a source s, *)
LEMMA AnswerKeeps ==
  ASSUME IInv, NEW l \in Loaders, NEW due \in BOOLEAN, position' = position,
         NEW s \in SourceShape, s.enabled = source[l].enabled,
         updateLoadControl(control, l, s, due)
  PROVE  IInv'
<1>1. Registered(control, [source EXCEPT ![l] = s])
  BY StillRegistered
<1>2. position' \in Nat /\ IsControl(control) /\ Explained(control)
  BY DEF IInv
<1> QED BY <1>1, <1>2, UpdateKeeps

(* unless the load was canceled.                                           *)
LEMMA OnCanceledKeeps ==
  ASSUME IInv, NEW l \in Loaders, NEW due \in BOOLEAN, onCanceled(l, due)
  PROVE  IInv'
<1> DEFINE r == [source[l] EXCEPT !.load = "idle", !.canceled = FALSE]
           s == Clear(r)
<1>1. /\ position' \in Nat
      /\ IF s.enabled THEN restartFrom(control, l, s, s.reset, due)
                      ELSE Rests(control, l, s)
  BY DEF onCanceled, Undisturbed, IInv
<1>2. r \in SourceShape /\ r.enabled = source[l].enabled
  BY ZenonT(30) DEF IInv, SourceShape
<1>3. s \in SourceShape /\ s.enabled = source[l].enabled
  <2> HIDE DEF r
  <2> QED BY <1>2, ClearKeepsShape
<1> HIDE DEF s
<1>4. Registered(control, [source EXCEPT ![l] = s])
  BY <1>3, StillRegistered
<1>5. IsControl(control) /\ Explained(control)
  BY DEF IInv
<1>6. CASE ~s.enabled
  BY <1>1, <1>3, <1>4, <1>5, <1>6, RestsKeeps
<1>7. CASE s.enabled
  <2>1. s.reset \in Position
    BY <1>3 DEF SourceShape
  <2> QED BY <1>1, <1>3, <1>4, <1>5, <1>7, <2>1, RestartKeeps
<1> QED BY <1>6, <1>7

LEMMA LoaderStepKeeps ==
  ASSUME IInv, NEW l \in Loaders, NEW due \in BOOLEAN, LoaderStep(l, due)
  PROVE  IInv'
<1>0. source[l] \in SourceShape
  BY DEF IInv
<1>1. CASE Open(l)
  <2> DEFINE s == [source[l] EXCEPT !.load = "opened", !.opened = TRUE]
  <2>1. source' = [source EXCEPT ![l] = s]
        /\ UNCHANGED <<control, lockVars, position, seeking>>
    BY <1>1 DEF Open, IInv
  <2>2. s \in SourceShape /\ s.enabled = source[l].enabled
    BY <1>0 DEF SourceShape
  <2> HIDE DEF s
  <2>3. Registered(control, [source EXCEPT ![l] = s])
    BY <2>2, StillRegistered
  <2>4. source' \in [Loaders -> SourceShape] /\ Registered(control, source)'
    BY <2>1, <2>2, <2>3 DEF IInv, Registered
  <2> QED BY <2>1, <2>4 DEF IInv, LockIsRight, PriorityIsRegistered,
             NoLostWakeUp, lockVars, IsControl, ControlShape, Explained,
             NextLoads, failed, loading
<1>2. CASE onLoaded(l, due)
  <2> DEFINE s == [source[l] EXCEPT !.load = "idle", !.known = TRUE,
                                    !.opened = FALSE, !.count = 0]
  <2>1. position' = position /\ updateLoadControl(control, l, s, due)
    BY <1>2 DEF onLoaded, Undisturbed
  <2>2. s \in SourceShape /\ s.enabled = source[l].enabled
    <3> DEFINE n == 0
    <3>1. n \in 0..2
      OBVIOUS
    <3> HIDE DEF n
    <3>2. LET u == [source[l] EXCEPT !.load = "idle", !.known = TRUE,
                                     !.opened = FALSE, !.count = n]
          IN  u \in SourceShape /\ u.enabled = source[l].enabled
      BY <1>0, <3>1 DEF SourceShape
    <3> QED BY <3>2 DEF n
  <2> HIDE DEF s
  <2> QED BY <2>1, <2>2, AnswerKeeps
<1>3. CASE onLoadedNotParsed(l, due)
  <2> DEFINE s == [source[l] EXCEPT !.load = "idle", !.opened = FALSE,
                                    !.exception = "fatal"]
  <2>1. position' = position /\ updateLoadControl(control, l, s, due)
    BY <1>3 DEF onLoadedNotParsed, Undisturbed
  <2>2. s \in SourceShape /\ s.enabled = source[l].enabled
    <3> DEFINE e == "fatal"
    <3>1. e \in {"none", "error", "fatal"}
      OBVIOUS
    <3> HIDE DEF e
    <3>2. LET u == [source[l] EXCEPT !.load = "idle", !.opened = FALSE,
                                     !.exception = e]
          IN  u \in SourceShape /\ u.enabled = source[l].enabled
      BY <1>0, <3>1 DEF SourceShape
    <3> QED BY <3>2 DEF e
  <2> HIDE DEF s
  <2> QED BY <2>1, <2>2, AnswerKeeps
<1>4. CASE onError(l, due)
  <2> DEFINE s == [source[l] EXCEPT !.load = "idle", !.exception = "error",
                                    !.count = IF @ = 0 THEN 1 ELSE 2]
  <2>1. position' = position /\ updateLoadControl(control, l, s, due)
    BY <1>4 DEF onError, Undisturbed
  <2>2. s \in SourceShape /\ s.enabled = source[l].enabled
    <3> DEFINE e == "error"
               n == IF source[l].count = 0 THEN 1 ELSE 2
    <3>1. e \in {"none", "error", "fatal"} /\ n \in 0..2
      OBVIOUS
    <3> HIDE DEF e, n
    <3>2. LET u == [source[l] EXCEPT !.load = "idle", !.exception = e,
                                     !.count = n]
          IN  u \in SourceShape /\ u.enabled = source[l].enabled
      BY <1>0, <3>1 DEF SourceShape
    <3> QED BY <3>2 DEF e, n
  <2> HIDE DEF s
  <2> QED BY <2>1, <2>2, AnswerKeeps
<1>5. CASE onCanceled(l, due)
  BY <1>5, OnCanceledKeeps
<1> QED BY <1>1, <1>2, <1>3, <1>4, <1>5 DEF LoaderStep

LEMMA DownloadKeeps ==
  ASSUME IInv, Download, UNCHANGED control
  PROVE  LockIsRight'
<1> USE DEF LockIsRight, PriorityIsRegistered, NoLostWakeUp, IInv, Priorities,
            STREAMING_PRIORITY, DOWNLOAD_PRIORITY
<1>1. CASE DownloadBegins
  BY <1>1 DEF DownloadBegins, Added
<1>2. CASE proceed
  <2>1. queue' = queue
        /\ (download' = "waiting" => \E r \in Priorities : r < 10 /\ queue[r] > 0)
    BY <1>2 DEF proceed, IsBlocked
  <2> QED BY <2>1
<1>3. CASE DownloadGoesOn
  BY <1>3 DEF DownloadGoesOn
<1>4. CASE DownloadEnds
  BY <1>4 DEF DownloadEnds, Removed
<1> QED BY <1>1, <1>2, <1>3, <1>4 DEF Download

LEMMA InitKeeps == Init => IInv
<1> SUFFICES ASSUME Init PROVE IInv
  OBVIOUS
<1>1. NewSource \in SourceShape /\ ~NewSource.enabled
  BY DEF NewSource, SourceShape, Position, None
<1>2. source \in [Loaders -> SourceShape] /\ position \in Nat
      /\ \A l \in Loaders : ~source[l].enabled
  <2> HIDE DEF NewSource, SourceShape
  <2> QED BY <1>1 DEF Init
<1>3. NewLoaderState \in LoaderShape
  BY DEF NewLoaderState, LoaderShape, Position, BufferStates,
         ABOVE_HIGH_WATERMARK
<1>4. /\ control = [loaders |-> {},
                    loaderStates |-> [l \in Loaders |-> NewLoaderState],
                    bufferPoolState |-> ABOVE_HIGH_WATERMARK,
                    fillingBuffers |-> FALSE, streamingPrioritySet |-> FALSE,
                    maxLoadStartPosition |-> 0]
      /\ ABOVE_HIGH_WATERMARK \in BufferStates
  BY DEF Init, ControlInit, ABOVE_HIGH_WATERMARK, BufferStates
<1>5. IsControl(control)
  BY <1>3, <1>4 DEF IsControl, ControlShape
<1>6. Explained(control) /\ Registered(control, source)
  BY <1>2, <1>4 DEF Explained, Registered
<1>7. LockIsRight
  BY <1>4 DEF Init, LockInit, LockIsRight, PriorityIsRegistered, NoLostWakeUp,
     Priorities, STREAMING_PRIORITY, DOWNLOAD_PRIORITY
<1> QED BY <1>2, <1>5, <1>6, <1>7 DEF IInv

(* The invariant is kept by each step of the specification.                *)
LEMMA NextKeeps == IInv /\ [Next]_sharedVars => IInv'
<1> SUFFICES ASSUME IInv, [Next]_sharedVars PROVE IInv'
  OBVIOUS
<1> DEFINE Same == UNCHANGED <<source, control, position>>
<1>1. ASSUME Same, LockIsRight' PROVE IInv'
  BY <1>1 DEF IInv, IsControl, ControlShape, Explained, Registered,
     NextLoads, failed, loading
<1>2. ASSUME NEW l \in Loaders, NEW due \in BOOLEAN,
             \/ Enable(l, due) \/ continueBuffering(l, due)
             \/ seekToUs(l, due) \/ LoaderStep(l, due)
      PROVE  IInv'
  BY <1>2, EnableKeeps, ContinueBufferingKeeps, SeekToKeeps, LoaderStepKeeps
<1>3. ASSUME NEW l \in Loaders, Disable(l) \/ readData(l)
      PROVE  IInv'
  BY <1>3, DisableKeeps, ReadDataKeeps
<1>4. ASSUME Play \/ \E time \in SeekTimes : Seek(time)
      PROVE  IInv'
  <2>1. position' \in Nat /\ UNCHANGED <<source, control, queue, download>>
    BY <1>4, SharedLoadingAssumption DEF Play, Seek, lockVars, IInv
  <2> QED BY <2>1 DEF IInv, IsControl, ControlShape, Explained, Registered,
             NextLoads, failed, loading, LockIsRight, PriorityIsRegistered,
             NoLostWakeUp
<1>5. CASE OthersDownload
  BY <1>1, <1>5, DownloadKeeps DEF OthersDownload
<1>6. CASE UNCHANGED sharedVars
  BY <1>1, <1>6 DEF sharedVars, IInv, LockIsRight, PriorityIsRegistered,
     NoLostWakeUp
<1> QED BY <1>2, <1>3, <1>4, <1>5, <1>6 DEF Next

THEOREM InvariantHolds == Spec => []IInv
BY InitKeeps, NextKeeps, PTL DEF Spec

(* The streaming priority is held while buffers are filled, and beyond     *)
(* that only for a load the control knows of, whatever the loaders do; the *)
(* network lock holds it once while the control says it has taken it, and  *)
(* not at all otherwise; and a download sleeps for nothing else.           *)
THEOREM PrioritySound == Spec => []PriorityIsSound
<1>1. IInv => PriorityIsSound
  BY DEF IInv, Explained, LockIsRight, PriorityIsExplained, PriorityIsSound
<1> QED BY <1>1, InvariantHolds, PTL

-----------------------------------------------------------------------------
(* Memory: a chunk in the queue is paid for when its load starts, whether  *)
(* it has been opened or not, so what is promised is what is queued.       *)
Queued(src) == [l \in Loaders |-> Size[l] * (src[l].next - src[l].first)]
Limit == [l \in Loaders |-> Contribution[l] + Size[l]]

IsBounded(src) ==
  /\ \A l \in Loaders : src[l].first <= src[l].next
  /\ Sum(Queued(src), Loaders) < Sum(Limit, Loaders)

LEMMA MultipleIsInt ==
  ASSUME NEW a \in Nat, NEW b \in Int
  PROVE  a * b \in Int
OBVIOUS

LEMMA MultipleOfLess ==
  ASSUME NEW a \in Nat, NEW b \in Int, NEW c \in Int, b <= c
  PROVE  a * b <= a * c
OBVIOUS

LEMMA MultipleOfOneMore ==
  ASSUME NEW a \in Nat, NEW b \in Int, NEW c \in Int, c <= b + 1
  PROVE  a * c <= a * b + a
OBVIOUS

LEMMA QueuedIsInt ==
  ASSUME NEW src \in [Loaders -> SourceShape], NEW l \in Loaders
  PROVE  /\ Size[l] \in Nat /\ src[l].next \in Int /\ src[l].first \in Int
         /\ Queued(src)[l] = Size[l] * (src[l].next - src[l].first)
         /\ Queued(src)[l] \in Int
<1>1. Size[l] \in Nat /\ src[l].next \in Int /\ src[l].first \in Int
  BY SharedLoadingAssumption DEF SourceShape
<1>2. Queued(src)[l] = Size[l] * (src[l].next - src[l].first)
  BY DEF Queued
<1> QED BY <1>1, <1>2, MultipleIsInt

LEMMA LimitIsNat ==
  ASSUME NEW l \in Loaders
  PROVE  Limit[l] \in Nat /\ Limit[l] = Contribution[l] + Size[l]
BY SharedLoadingAssumption, LoadControlAssumption DEF Limit

(* The sums of the model.                                                  *)
LEMMA PromisedIsQueued ==
  ASSUME source \in [Loaders -> SourceShape]
  PROVE  MapThenSumSet(Promised, Loaders) = Sum(Queued(source), Loaders)
<1> DEFINE f == Queued(source)
           Is(it) == it = [T \in SUBSET Loaders |->
                             IF T = {} THEN 0
                             ELSE Promised(First(T)) + it[T \ {First(T)}]]
<1>1. ASSUME NEW l \in Loaders PROVE Promised(l) = f[l]
  <2>1. /\ Size[l] \in Nat /\ source[l].next \in Int /\ source[l].first \in Int
        /\ f[l] = Size[l] * (source[l].next - source[l].first)
    BY QueuedIsInt
  <2>2. \A a \in Nat, b \in Int : a * (b - 1) + a = a * b
    OBVIOUS
  <2>3. \A a \in Nat, b \in Int : a * (b - 0) + 0 = a * b
    OBVIOUS
  <2>4. CASE IsPartial(source[l]) /\ ~source[l].opened
    BY <2>1, <2>2, <2>4 DEF Promised, Held
  <2>5. CASE ~(IsPartial(source[l]) /\ ~source[l].opened)
    BY <2>1, <2>3, <2>5 DEF Promised, Held
  <2> QED BY <2>4, <2>5
<1>2. ASSUME NEW it PROVE Is(it) <=> IsSum(it, f, Loaders)
  <2>1. ASSUME NEW T \in SUBSET Loaders, T # {}
        PROVE  Promised(First(T)) = f[First(T)]
    BY <1>1, <2>1 DEF First
  <2>2. [T \in SUBSET Loaders |->
           IF T = {} THEN 0 ELSE Promised(First(T)) + it[T \ {First(T)}]]
        = [T \in SUBSET Loaders |->
             IF T = {} THEN 0 ELSE f[First(T)] + it[T \ {First(T)}]]
    <3> HIDE DEF f
    <3> QED BY <2>1
  <2> QED BY <2>2 DEF IsSum
<1>3. \E it : Is(it)
  <2> HIDE DEF Is
  <2> QED BY <1>2, SumExists, LoadControlAssumption
<1>4. Is(CHOOSE it : Is(it))
  BY <1>3
<1>5. (CHOOSE it : Is(it))[Loaders] = Sum(f, Loaders)
  <2> HIDE DEF Is
  <2> QED BY <1>2, <1>4, SumIs, LoadControlAssumption
<1> QED BY <1>5 DEF MapThenSumSet, MapThenFoldSet, First

LEMMA LimitsAdd ==
  MapThenSumSet(LAMBDA l : Contribution[l] + Size[l], Loaders)
    = Sum(Limit, Loaders)
<1> DEFINE Is(it) == it = [T \in SUBSET Loaders |->
                             IF T = {} THEN 0
                             ELSE Contribution[First(T)] + Size[First(T)]
                                    + it[T \ {First(T)}]]
<1>1. ASSUME NEW it PROVE Is(it) <=> IsSum(it, Limit, Loaders)
  <2>1. ASSUME NEW T \in SUBSET Loaders, T # {}
        PROVE  Contribution[First(T)] + Size[First(T)] = Limit[First(T)]
    BY <2>1 DEF First, Limit
  <2>2. [T \in SUBSET Loaders |->
           IF T = {} THEN 0
           ELSE Contribution[First(T)] + Size[First(T)] + it[T \ {First(T)}]]
        = [T \in SUBSET Loaders |->
             IF T = {} THEN 0 ELSE Limit[First(T)] + it[T \ {First(T)}]]
    BY <2>1
  <2> QED BY <2>2 DEF IsSum
<1>2. \E it : Is(it)
  <2> HIDE DEF Is
  <2> QED BY <1>1, SumExists, LoadControlAssumption
<1>3. Is(CHOOSE it : Is(it))
  BY <1>2
<1>4. (CHOOSE it : Is(it))[Loaders] = Sum(Limit, Loaders)
  <2> HIDE DEF Is
  <2> QED BY <1>1, <1>3, SumIs, LoadControlAssumption
<1> QED BY <1>4 DEF MapThenSumSet, MapThenFoldSet, First

LEMMA TargetAdds ==
  ASSUME NEW c, c.loaders \in SUBSET Loaders
  PROVE  targetBufferSize(c) = Sum(Contribution, c.loaders)
<1> DEFINE S == c.loaders
           Is(it) == it = [T \in SUBSET S |->
                             IF T = {} THEN 0
                             ELSE Contribution[First(T)] + it[T \ {First(T)}]]
<1>1. \A it : Is(it) <=> IsSum(it, Contribution, S)
  BY DEF IsSum
<1>2. IsFiniteSet(S)
  BY FS_Subset, LoadControlAssumption
<1>3. Is(CHOOSE it : Is(it))
  <2> HIDE DEF Is
  <2> QED BY <1>1, <1>2, SumExists
<1>4. (CHOOSE it : Is(it))[S] = Sum(Contribution, S)
  <2> HIDE DEF Is, S
  <2> QED BY <1>1, <1>2, <1>3, SumIs
<1> QED BY <1>4 DEF targetBufferSize, MapThenSumSet, MapThenFoldSet, First

LEMMA AllocatedAdds ==
  ASSUME NEW src \in [Loaders -> SourceShape]
  PROVE  getAllocatedSize(src) = Sum([l \in Loaders |-> Held(l, src[l])], Loaders)
<1> DEFINE f == [l \in Loaders |-> Held(l, src[l])]
           Is(it) == it = [T \in SUBSET Loaders |->
                             IF T = {} THEN 0
                             ELSE Held(First(T), src[First(T)]) + it[T \ {First(T)}]]
<1>1. ASSUME NEW it PROVE Is(it) <=> IsSum(it, f, Loaders)
  <2>1. ASSUME NEW T \in SUBSET Loaders, T # {}
        PROVE  Held(First(T), src[First(T)]) = f[First(T)]
    <3>1. First(T) \in Loaders
      BY <2>1 DEF First
    <3> HIDE DEF f
    <3>2. \A l \in Loaders : f[l] = Held(l, src[l])
      BY DEF f
    <3> QED BY <3>1, <3>2
  <2>2. [T \in SUBSET Loaders |->
           IF T = {} THEN 0
           ELSE Held(First(T), src[First(T)]) + it[T \ {First(T)}]]
        = [T \in SUBSET Loaders |->
             IF T = {} THEN 0 ELSE f[First(T)] + it[T \ {First(T)}]]
    <3> HIDE DEF f
    <3> QED BY <2>1
  <2> QED BY <2>2 DEF IsSum
<1>2. \E it : Is(it)
  <2> HIDE DEF Is
  <2> QED BY <1>1, SumExists, LoadControlAssumption
<1>3. Is(CHOOSE it : Is(it))
  BY <1>2
<1>4. (CHOOSE it : Is(it))[Loaders] = Sum(f, Loaders)
  <2> HIDE DEF Is
  <2> QED BY <1>1, <1>3, SumIs, LoadControlAssumption
<1> QED BY <1>4 DEF getAllocatedSize, MapThenSumSet, MapThenFoldSet, First

LEMMA BoundedIsBounded ==
  ASSUME source \in [Loaders -> SourceShape], IsBounded(source)
  PROVE  MemoryIsBounded
<1>1. PICK a : a = Sum(Queued(source), Loaders)
  OBVIOUS
<1>2. PICK b : b = Sum(Limit, Loaders)
  OBVIOUS
<1>3. MapThenSumSet(Promised, Loaders) = a
  BY <1>1, PromisedIsQueued, Zenon
<1>4. MapThenSumSet(LAMBDA l : Contribution[l] + Size[l], Loaders) = b
  BY <1>2, LimitsAdd, Zenon
<1>5. a < b
  BY <1>1, <1>2 DEF IsBounded
<1> QED BY <1>3, <1>4, <1>5, Zenon DEF MemoryIsBounded

(* A source whose queue does not grow leaves room for all.                 *)
LEMMA NoMoreIsBounded ==
  ASSUME NEW src \in [Loaders -> SourceShape], IsBounded(src),
         NEW l \in Loaders, NEW s \in SourceShape,
         s.first <= s.next, s.next - s.first <= src[l].next - src[l].first
  PROVE  IsBounded([src EXCEPT ![l] = s])
<1> DEFINE new == [src EXCEPT ![l] = s]
<1>1. new \in [Loaders -> SourceShape] /\ new[l] = s
      /\ \A m \in Loaders \ {l} : new[m] = src[m]
  BY Zenon
<1> HIDE DEF new
<1>2. ASSUME NEW m \in Loaders
      PROVE  /\ new[m].first <= new[m].next
             /\ new[m].next - new[m].first <= src[m].next - src[m].first
  <2>1. CASE m = l
    BY <1>1, <2>1
  <2>2. CASE m # l
    <3>1. new[m] = src[m] /\ src[m].next \in Int /\ src[m].first \in Int
      BY <1>1, <2>2, QueuedIsInt
    <3> QED BY <3>1 DEF IsBounded
  <2> QED BY <2>1, <2>2
<1>3. ASSUME NEW m \in Loaders
      PROVE  /\ Queued(new)[m] \in Int /\ Queued(src)[m] \in Int
             /\ Queued(new)[m] <= Queued(src)[m]
  <2>1. /\ Size[m] \in Nat
        /\ new[m].next - new[m].first \in Int /\ src[m].next - src[m].first \in Int
        /\ Queued(new)[m] = Size[m] * (new[m].next - new[m].first)
        /\ Queued(src)[m] = Size[m] * (src[m].next - src[m].first)
        /\ Queued(new)[m] \in Int /\ Queued(src)[m] \in Int
    BY <1>1, QueuedIsInt
  <2> QED BY <1>2, <2>1, MultipleOfLess
<1>4. Sum(Queued(new), Loaders) <= Sum(Queued(src), Loaders)
  BY <1>3, SumAtMost, LoadControlAssumption
<1>5. /\ Sum(Queued(new), Loaders) \in Int /\ Sum(Queued(src), Loaders) \in Int
      /\ Sum(Limit, Loaders) \in Int
  BY <1>3, LimitIsNat, SumTyped, LoadControlAssumption
<1>6. IsBounded(new)
  BY <1>2, <1>4, <1>5 DEF IsBounded
<1> QED BY <1>6 DEF new

LEMMA ContributionsAreLess ==
  ASSUME NEW C \in SUBSET Loaders
  PROVE  /\ Sum(Contribution, C) \in Int
         /\ Sum(Contribution, C) + Sum(Size, Loaders) <= Sum(Limit, Loaders)
         /\ Sum(Size, Loaders) \in Int /\ Sum(Limit, Loaders) \in Int
<1>1. \A l \in Loaders : Contribution[l] \in Nat /\ Size[l] \in Nat
  BY SharedLoadingAssumption, LoadControlAssumption
<1>2. IsFiniteSet(Loaders) /\ IsFiniteSet(C) /\ IsFiniteSet(Loaders \ C)
  BY FS_Subset, LoadControlAssumption
<1>3. Sum(Contribution, Loaders)
        = Sum(Contribution, C) + Sum(Contribution, Loaders \ C)
  BY <1>1, <1>2, SumOfParts
<1>4. Sum(Contribution, C) \in Nat /\ Sum(Contribution, Loaders \ C) \in Nat
  BY <1>1, <1>2, SumOfLess
<1>5. Sum(Limit, Loaders) = Sum(Contribution, Loaders) + Sum(Size, Loaders)
  BY <1>1, <1>2, LimitIsNat, SumOfBoth
<1>6. Sum(Size, Loaders) \in Nat
  BY <1>1, <1>2, SumOfLess
<1> QED BY <1>3, <1>4, <1>5, <1>6

(* What is allocated is less than what is queued by a chunk of each loader.*)
LEMMA AllocatedIsAlmostQueued ==
  ASSUME NEW src \in [Loaders -> SourceShape], NEW l \in Loaders
  PROVE  /\ Held(l, src[l]) \in Int
         /\ Queued(src)[l] <= Held(l, src[l]) + Size[l]
         /\ ~IsPartial(src[l]) => Queued(src)[l] = Held(l, src[l])
<1>1. /\ Size[l] \in Nat /\ src[l].next \in Int /\ src[l].first \in Int
      /\ Queued(src)[l] = Size[l] * (src[l].next - src[l].first)
  BY QueuedIsInt
<1>2. \A a \in Nat, b \in Int : a * (b - 1) \in Int /\ a * b = a * (b - 1) + a
  OBVIOUS
<1>3. \A a \in Nat, b \in Int : a * (b - 0) \in Int /\ a * b = a * (b - 0)
  OBVIOUS
<1>4. CASE IsPartial(src[l]) /\ ~src[l].opened
  BY <1>1, <1>2, <1>4 DEF Held
<1>5. CASE ~(IsPartial(src[l]) /\ ~src[l].opened)
  BY <1>1, <1>3, <1>5 DEF Held
<1> QED BY <1>4, <1>5

(* A load that starts adds one chunk at most, and starts only when less    *)
(* than the target of the registered loaders is allocated.                 *)
LEMMA StartIsBounded ==
  ASSUME NEW src \in [Loaders -> SourceShape],
         \A m \in Loaders : src[m].first <= src[m].next,
         NEW l \in Loaders, NEW C \in SUBSET Loaders,
         ~IsPartial(src[l]),
         Sum([m \in Loaders |-> Held(m, src[m])], Loaders) < Sum(Contribution, C),
         NEW s \in SourceShape,
         s.first <= s.next, s.next - s.first <= src[l].next - src[l].first + 1
  PROVE  IsBounded([src EXCEPT ![l] = s])
<1> DEFINE new == [src EXCEPT ![l] = s]
           held == [m \in Loaders |-> Held(m, src[m])]
           most == [m \in Loaders |-> Held(m, src[m]) + Size[m]]
<1>1. new \in [Loaders -> SourceShape] /\ new[l] = s
      /\ \A m \in Loaders \ {l} : new[m] = src[m]
  BY Zenon
<1>2. \A m \in Loaders : /\ held[m] = Held(m, src[m])
                         /\ most[m] = Held(m, src[m]) + Size[m]
  OBVIOUS
<1>3. Sum(held, Loaders) < Sum(Contribution, C)
  OBVIOUS
<1> HIDE DEF new, held, most
<1>4. ASSUME NEW m \in Loaders PROVE new[m].first <= new[m].next
  BY <1>1
<1>5. ASSUME NEW m \in Loaders
      PROVE  /\ Queued(new)[m] \in Int /\ most[m] \in Int /\ held[m] \in Int
             /\ Size[m] \in Int /\ most[m] = held[m] + Size[m]
             /\ Queued(new)[m] <= most[m]
  <2>1. /\ Size[m] \in Nat
        /\ new[m].next - new[m].first \in Int /\ src[m].next - src[m].first \in Int
        /\ Queued(new)[m] = Size[m] * (new[m].next - new[m].first)
        /\ Queued(src)[m] = Size[m] * (src[m].next - src[m].first)
        /\ Queued(new)[m] \in Int /\ Queued(src)[m] \in Int
    BY <1>1, QueuedIsInt
  <2>2. /\ Held(m, src[m]) \in Int
        /\ Queued(src)[m] <= Held(m, src[m]) + Size[m]
        /\ ~IsPartial(src[m]) => Queued(src)[m] = Held(m, src[m])
    BY AllocatedIsAlmostQueued
  <2>3. CASE m = l
    <3>1. Queued(new)[m] <= Queued(src)[m] + Size[m]
      BY <1>1, <2>1, <2>3, MultipleOfOneMore
    <3> QED BY <1>2, <2>1, <2>2, <2>3, <3>1
  <2>4. CASE m # l
    <3>1. Queued(new)[m] = Queued(src)[m]
      BY <1>1, <2>1, <2>4
    <3> QED BY <1>2, <2>1, <2>2, <3>1
  <2> QED BY <2>3, <2>4
<1>6. Sum(Queued(new), Loaders) <= Sum(most, Loaders)
  BY <1>5, SumAtMost, LoadControlAssumption
<1>7. Sum(most, Loaders) = Sum(held, Loaders) + Sum(Size, Loaders)
  BY <1>5, SumOfBoth, LoadControlAssumption
<1>8. /\ Sum(Queued(new), Loaders) \in Int /\ Sum(held, Loaders) \in Int
  BY <1>5, SumTyped, LoadControlAssumption
<1>9. /\ Sum(Contribution, C) \in Int
      /\ Sum(Contribution, C) + Sum(Size, Loaders) <= Sum(Limit, Loaders)
      /\ Sum(Size, Loaders) \in Int /\ Sum(Limit, Loaders) \in Int
  BY ContributionsAreLess
<1>10. IsBounded(new)
  BY <1>3, <1>4, <1>6, <1>7, <1>8, <1>9 DEF IsBounded
<1> QED BY <1>10 DEF new

LEMMA ProceedsQueues ==
  ASSUME NEW l \in Loaders, NEW s \in SourceShape, s.first <= s.next,
         NEW next \in BOOLEAN, NEW due \in BOOLEAN,
         NEW t, t = Proceeds(l, s, next, due)
  PROVE  /\ t.first <= t.next
         /\ \/ t.next - t.first <= s.next - s.first
            \/ /\ next /\ ~IsPartial(s)
               /\ t.next - t.first <= s.next - s.first + 1
<1>1. s.first \in Int /\ s.next \in Int
  BY DEF SourceShape
<1>2. CASE IsBackedOff(s)
  <2>1. t.first = s.first /\ t.next = s.next
    BY <1>2 DEF Proceeds, resumeFromBackOff, SourceShape
  <2> QED BY <1>1, <2>1
<1>3. CASE ~IsBackedOff(s) /\ ~(next /\ s.exception = "none" /\ ~isLoading(s))
  BY <1>1, <1>3 DEF Proceeds
<1>4. CASE ~IsBackedOff(s) /\ next /\ s.exception = "none" /\ ~isLoading(s)
  <2>1. t = maybeStartLoading(l, s) /\ ~IsPartial(s)
    BY <1>4 DEF Proceeds, IsPartial
  <2> DEFINE r == [s EXCEPT !.load = "started", !.opened = FALSE,
                            !.canceled = FALSE]
             chunk == ChunkAt(l, s.reset)
  <2>2. r \in SourceShape /\ r.first = s.first /\ r.next = s.next
    BY DEF SourceShape
  <2>3. s.reset # None => chunk \in Int
    BY ChunkIsThere DEF SourceShape, Position, None
  <2>4. t = IF ~s.known THEN r
            ELSE IF s.reset = None
                 THEN [r EXCEPT !.next = @ + 1]
                 ELSE [r EXCEPT !.first = chunk, !.next = chunk + 1,
                                !.read = s.reset, !.reset = None]
    BY <2>1 DEF maybeStartLoading
  <2> HIDE DEF r, chunk
  <2>5. CASE ~s.known
    BY <1>1, <2>2, <2>4, <2>5
  <2>6. CASE s.known /\ s.reset = None
    <3>1. t = [r EXCEPT !.next = @ + 1]
      BY <2>4, <2>6, Zenon
    <3>2. t.first = s.first /\ t.next = s.next + 1
      BY <2>2, <3>1 DEF SourceShape
    <3>3. t.first <= t.next /\ t.next - t.first <= s.next - s.first + 1
      BY <1>1, <3>2
    <3> QED BY <1>4, <2>1, <3>3, Zenon
  <2>7. CASE s.known /\ s.reset # None
    <3>1. t = [r EXCEPT !.first = chunk, !.next = chunk + 1,
                        !.read = s.reset, !.reset = None]
      BY <2>4, <2>7, Zenon
    <3>2. t.first = chunk /\ t.next = chunk + 1
      BY <2>2, <3>1 DEF SourceShape
    <3>3. t.first <= t.next /\ t.next - t.first <= s.next - s.first + 1
      BY <1>1, <2>3, <2>7, <3>2
    <3> QED BY <1>4, <2>1, <3>3, Zenon
  <2> QED BY <2>5, <2>6, <2>7
<1> QED BY <1>2, <1>3, <1>4

-----------------------------------------------------------------------------
(* What the handlers end with leaves the memory bounded.                   *)

LEMMA UpdateIsBounded ==
  ASSUME IInv, IsBounded(source),
         NEW c, IsControl(c), Explained(c),
         NEW l \in Loaders, NEW s \in SourceShape, NEW due \in BOOLEAN,
         s.first <= s.next,
         s.next - s.first <= source[l].next - source[l].first,
         updateLoadControl(c, l, s, due)
  PROVE  IsBounded(source')
<1> DEFINE isLoad == IsBackedOff(s) \/ isLoading(s)
           hasFailed == s.exception = "fatal"
<1>0. source \in [Loaders -> SourceShape]
  BY DEF IInv
<1>1. PICK allocated \in {getAllocatedSize([source EXCEPT ![l] = s])},
           nextLoad \in {nextLoadPosition(l, s)} :
        \E d \in {update(c, l, s.downstream, nextLoad, isLoad, hasFailed,
                         allocated)} :
          Rests(d, l, Proceeds(l, s, mayLoad(d, nextLoad, allocated), due))
  BY Zenon DEF updateLoadControl
<1>2. PICK d \in {update(c, l, s.downstream, nextLoad, isLoad, hasFailed,
                         allocated)} :
        Rests(d, l, Proceeds(l, s, mayLoad(d, nextLoad, allocated), due))
  BY <1>1, Zenon
<1>3. d.loaders \in SUBSET Loaders
  <2>1. /\ nextLoad \in Position /\ s.downstream \in Nat
        /\ isLoad \in BOOLEAN /\ hasFailed \in BOOLEAN
    BY NextLoadIsPosition DEF SourceShape
  <2> HIDE DEF isLoad, hasFailed
  <2>2. IsControl(d)
    BY <2>1, UpdateExplained
  <2> QED BY <2>2 DEF IsControl, ControlShape
<1>4. PICK next \in BOOLEAN : next = mayLoad(d, nextLoad, allocated)
  BY DEF mayLoad
<1>5. PICK t : t = Proceeds(l, s, next, due)
  OBVIOUS
<1>6. source' = [source EXCEPT ![l] = t]
  BY <1>2, <1>4, <1>5 DEF Rests
<1>7. t \in SourceShape
  BY <1>5, ProceedsKeepsShape
<1>8. /\ t.first <= t.next
      /\ \/ t.next - t.first <= s.next - s.first
         \/ /\ next /\ ~IsPartial(s)
            /\ t.next - t.first <= s.next - s.first + 1
  BY <1>5, ProceedsQueues
<1>9. PICK src : src = [source EXCEPT ![l] = s]
  OBVIOUS
<1>10. /\ src \in [Loaders -> SourceShape] /\ src[l] = s /\ IsBounded(src)
       /\ [source EXCEPT ![l] = t] = [src EXCEPT ![l] = t]
  <2>1. IsBounded(src)
    BY <1>0, <1>9, NoMoreIsBounded
  <2> QED BY <1>0, <1>9, <2>1
<1>11. CASE t.next - t.first <= s.next - s.first
  <2>1. IsBounded([src EXCEPT ![l] = t])
    BY <1>7, <1>8, <1>10, <1>11, NoMoreIsBounded
  <2> QED BY <1>6, <1>10, <2>1
<1>12. CASE /\ next /\ ~IsPartial(s)
            /\ t.next - t.first <= s.next - s.first + 1
  <2>1. allocated < targetBufferSize(d)
    BY <1>4, <1>12 DEF mayLoad
  <2>2. Sum([m \in Loaders |-> Held(m, src[m])], Loaders)
          < Sum(Contribution, d.loaders)
    BY <1>1, <1>3, <1>9, <1>10, <2>1, AllocatedAdds, TargetAdds
  <2>3. \A m \in Loaders : src[m].first <= src[m].next
    BY <1>10 DEF IsBounded
  <2>4. IsBounded([src EXCEPT ![l] = t])
    BY <1>3, <1>7, <1>8, <1>10, <1>12, <2>2, <2>3, StartIsBounded
  <2> QED BY <1>6, <1>10, <2>4
<1> QED BY <1>8, <1>11, <1>12

LEMMA ClearQueues ==
  ASSUME NEW s \in SourceShape
  PROVE  /\ Clear(s) \in SourceShape /\ Clear(s).first = 0 /\ Clear(s).next = 0
         /\ Clear(s).reset = s.reset
BY ClearKeepsShape DEF Clear, SourceShape

LEMMA RestartIsBounded ==
  ASSUME IInv, IsBounded(source),
         NEW c, IsControl(c), Explained(c),
         NEW l \in Loaders, NEW s \in SourceShape, NEW due \in BOOLEAN,
         NEW time \in Position, s.first <= s.next,
         s.next - s.first <= source[l].next - source[l].first,
         restartFrom(c, l, s, time, due)
  PROVE  IsBounded(source')
<1> DEFINE t == [s EXCEPT !.reset = time, !.read = time]
           u == [t EXCEPT !.canceled = TRUE]
<1>0. /\ source \in [Loaders -> SourceShape]
      /\ source[l].first \in Int /\ source[l].next \in Int
      /\ source[l].first <= source[l].next
  BY DEF IInv, SourceShape, IsBounded
<1>1. t \in SourceShape /\ t.first = s.first /\ t.next = s.next
  <2>1. time \in Int
    BY DEF Position
  <2> QED BY <2>1 DEF SourceShape
<1>2. CASE isLoading(t)
  <2>1. source' = [source EXCEPT ![l] = u]
    BY <1>2 DEF restartFrom, Rests
  <2>2. u \in SourceShape /\ u.first = s.first /\ u.next = s.next
    <3> HIDE DEF t
    <3> QED BY <1>1 DEF SourceShape
  <2> HIDE DEF t, u
  <2>3. IsBounded([source EXCEPT ![l] = u])
    BY <1>0, <2>2, NoMoreIsBounded
  <2> QED BY <2>1, <2>3
<1>3. CASE ~isLoading(t)
  <2>1. updateLoadControl(c, l, Clear(t), due)
    BY <1>3 DEF restartFrom
  <2> HIDE DEF t
  <2>2. Clear(t) \in SourceShape /\ Clear(t).first = 0 /\ Clear(t).next = 0
    BY <1>1, ClearQueues
  <2>3. /\ Clear(t).first <= Clear(t).next
        /\ Clear(t).next - Clear(t).first <= source[l].next - source[l].first
    BY <1>0, <2>2
  <2> QED BY <2>1, <2>2, <2>3, UpdateIsBounded
<1> QED BY <1>2, <1>3

(* The actions.                                                            *)

LEMMA SourceQueues ==
  ASSUME IInv, IsBounded(source), NEW l \in Loaders
  PROVE  /\ source \in [Loaders -> SourceShape] /\ source[l] \in SourceShape
         /\ source[l].first \in Int /\ source[l].next \in Int
         /\ source[l].first <= source[l].next
BY DEF IInv, SourceShape, IsBounded

(* A queue that is as it was.                                              *)
LEMMA AsLong ==
  ASSUME IInv, IsBounded(source), NEW l \in Loaders, NEW s,
         s.first = source[l].first, s.next = source[l].next
  PROVE  /\ s.first <= s.next
         /\ s.next - s.first <= source[l].next - source[l].first
BY SourceQueues

LEMMA SameIsBounded ==
  ASSUME IInv, IsBounded(source), source' = source
  PROVE  IsBounded(source')
OBVIOUS

LEMMA EnableIsBounded ==
  ASSUME IInv, IsBounded(source),
         NEW l \in Loaders, NEW due \in BOOLEAN, Enable(l, due)
  PROVE  IsBounded(source')
<1> DEFINE s == [source[l] EXCEPT !.enabled = TRUE, !.downstream = position]
           c == register(control, l)
<1>1. position \in Nat /\ ~source[l].enabled
      /\ restartFrom(c, l, s, position, due)
  BY DEF Enable, Undisturbed, IInv
<1>2. s \in SourceShape /\ s.first = source[l].first /\ s.next = source[l].next
  <2>1. source[l] \in SourceShape /\ position \in Nat
    BY DEF IInv
  <2> QED BY <2>1, EnablingKeepsRest, Zenon
<1>3. l \notin control.loaders
  BY <1>1 DEF IInv, Registered
<1>4. IsControl(c) /\ Explained(c)
  BY <1>3, RegisterExplained DEF IInv
<1> HIDE DEF s, c
<1>5. position \in Position
  BY <1>1 DEF Position
<1>6. /\ s.first <= s.next
      /\ s.next - s.first <= source[l].next - source[l].first
  BY <1>2, AsLong
<1> QED BY <1>1, <1>2, <1>4, <1>5, <1>6, RestartIsBounded

LEMMA DisableIsBounded ==
  ASSUME IInv, IsBounded(source), NEW l \in Loaders, Disable(l)
  PROVE  IsBounded(source')
<1> DEFINE s == [source[l] EXCEPT !.enabled = FALSE]
           r == [s EXCEPT !.canceled = TRUE]
           t == IF isLoading(s) THEN r ELSE Clear(s)
<1>1. source' = [source EXCEPT ![l] = t]
  BY DEF Disable, Rests
<1>2. s \in SourceShape /\ s.first = source[l].first /\ s.next = source[l].next
  <2>1. source[l] \in SourceShape
    BY DEF IInv
  <2> QED BY <2>1, DisablingKeepsRest, Zenon
<1>3. r \in SourceShape /\ r.first = source[l].first /\ r.next = source[l].next
  <2> HIDE DEF s
  <2> QED BY <1>2 DEF SourceShape
<1> HIDE DEF s, r
<1>4. /\ t \in SourceShape /\ t.first <= t.next
      /\ t.next - t.first <= source[l].next - source[l].first
  <2>1. CASE isLoading(s)
    BY <1>3, <2>1, AsLong
  <2>2. CASE ~isLoading(s)
    <3>1. t = Clear(s) /\ t \in SourceShape /\ t.first = 0 /\ t.next = 0
      BY <1>2, <2>2, ClearQueues
    <3> HIDE DEF t
    <3> QED BY <3>1, SourceQueues
  <2> QED BY <2>1, <2>2
<1> HIDE DEF t
<1> QED BY <1>1, <1>4, SourceQueues, NoMoreIsBounded

(* Handlers of the control as it is end with an update of a source s.      *)
LEMMA AnswerIsBounded ==
  ASSUME IInv, IsBounded(source), NEW l \in Loaders, NEW due \in BOOLEAN,
         NEW s \in SourceShape,
         s.first = source[l].first, s.next = source[l].next,
         updateLoadControl(control, l, s, due)
  PROVE  IsBounded(source')
<1>1. IsControl(control) /\ Explained(control)
  BY DEF IInv
<1> QED BY <1>1, AsLong, UpdateIsBounded

LEMMA MoveKeepsQueue ==
  ASSUME NEW s \in SourceShape, NEW p \in Nat
  PROVE  LET u == [s EXCEPT !.downstream = p]
         IN  u \in SourceShape /\ u.first = s.first /\ u.next = s.next
BY DEF SourceShape

LEMMA ContinueBufferingIsBounded ==
  ASSUME IInv, IsBounded(source), NEW l \in Loaders, NEW due \in BOOLEAN,
         continueBuffering(l, due)
  PROVE  IsBounded(source')
<1> DEFINE s == [source[l] EXCEPT !.downstream = position]
<1>1. updateLoadControl(control, l, s, due)
  BY DEF continueBuffering
<1>2. s \in SourceShape /\ s.first = source[l].first /\ s.next = source[l].next
  BY MoveKeepsQueue DEF IInv
<1> HIDE DEF s
<1> QED BY <1>1, <1>2, AnswerIsBounded

LEMMA SeekToIsBounded ==
  ASSUME IInv, IsBounded(source), NEW l \in Loaders, NEW due \in BOOLEAN,
         seekToUs(l, due)
  PROVE  IsBounded(source')
<1> DEFINE s == [source[l] EXCEPT !.downstream = position]
           chunk == ChunkAt(l, position)
           t == [s EXCEPT !.first = chunk, !.read = position]
<1>1. \/ Rests(control, l, s)
      \/ /\ chunk \in s.first..s.next - 1
         /\ updateLoadControl(control, l, t, due)
      \/ restartFrom(control, l, s, position, due)
  BY DEF seekToUs
<1>2. s \in SourceShape /\ s.first = source[l].first /\ s.next = source[l].next
  BY MoveKeepsQueue DEF IInv
<1>3. IsControl(control) /\ Explained(control) /\ position \in Nat
      /\ position \in Position
  BY DEF IInv, Position
<1>4. PICK n : n = chunk
  OBVIOUS
<1>5. CASE Rests(control, l, s)
  <2>1. source' = [source EXCEPT ![l] = s]
    BY <1>5 DEF Rests
  <2> HIDE DEF s
  <2> QED BY <1>2, <2>1, AsLong, SourceQueues, NoMoreIsBounded
<1>6. CASE chunk \in s.first..s.next - 1 /\ updateLoadControl(control, l, t, due)
  <2>1. n \in Int /\ position \in Int
    BY <1>3, <1>4, ChunkIsThere
  <2>2. n \in s.first..s.next - 1
    BY <1>4, <1>6
  <2>3. t = [s EXCEPT !.first = n, !.read = position]
    BY <1>4
  <2> HIDE DEF s, t, chunk
  <2>4. t \in SourceShape /\ t.first = n /\ t.next = s.next
    BY <1>2, <2>1, <2>3 DEF SourceShape
  <2>5. /\ t.first <= t.next
        /\ t.next - t.first <= source[l].next - source[l].first
    BY <1>2, <2>1, <2>2, <2>4, SourceQueues
  <2> QED BY <1>3, <1>6, <2>4, <2>5, UpdateIsBounded
<1>7. CASE restartFrom(control, l, s, position, due)
  <2> HIDE DEF s
  <2> QED BY <1>2, <1>3, <1>7, AsLong, RestartIsBounded
<1> QED BY <1>1, <1>5, <1>6, <1>7

LEMMA ReadDataIsBounded ==
  ASSUME IInv, IsBounded(source), NEW l \in Loaders, readData(l)
  PROVE  IsBounded(source')
<1> DEFINE s == [source[l] EXCEPT !.downstream = position]
           f == IF s.read = (s.first + 1) * Duration[l] /\ s.next > s.first + 1
                THEN s.first + 1 ELSE s.first
           t == [s EXCEPT !.first = f]
           u == [t EXCEPT !.read = @ + 1]
           r == IF s.reset # None THEN s
                ELSE IF Available(l, t) THEN u ELSE t
<1>1. source' = [source EXCEPT ![l] = r]
  BY DEF readData, Rests
<1>2. s \in SourceShape /\ s.first = source[l].first /\ s.next = source[l].next
  BY MoveKeepsQueue DEF IInv
<1> HIDE DEF s
<1>3. f \in Int /\ f <= s.next /\ s.next - f <= s.next - s.first
  BY <1>2, SourceQueues
<1> HIDE DEF f
<1>4. t \in SourceShape /\ t.first = f /\ t.next = s.next
  BY <1>2, <1>3 DEF SourceShape
<1> HIDE DEF t
<1>5. u \in SourceShape /\ u.first = f /\ u.next = s.next
  BY <1>4 DEF SourceShape
<1> HIDE DEF u
<1>6. /\ r \in SourceShape /\ r.first <= r.next
      /\ r.next - r.first <= source[l].next - source[l].first
  BY <1>2, <1>3, <1>4, <1>5, SourceQueues
<1> HIDE DEF r
<1> QED BY <1>1, <1>6, SourceQueues, NoMoreIsBounded

LEMMA OnCanceledIsBounded ==
  ASSUME IInv, IsBounded(source), NEW l \in Loaders, NEW due \in BOOLEAN,
         onCanceled(l, due)
  PROVE  IsBounded(source')
<1> DEFINE r == [source[l] EXCEPT !.load = "idle", !.canceled = FALSE]
           s == Clear(r)
<1>1. IF s.enabled THEN restartFrom(control, l, s, s.reset, due)
                   ELSE Rests(control, l, s)
  BY DEF onCanceled
<1>2. r \in SourceShape
  BY ZenonT(30) DEF IInv, SourceShape
<1> HIDE DEF r
<1>3. s \in SourceShape /\ s.first = 0 /\ s.next = 0 /\ s.reset \in Position
  BY <1>2, ClearQueues DEF SourceShape
<1> HIDE DEF s
<1>4. /\ s.first <= s.next
      /\ s.next - s.first <= source[l].next - source[l].first
  BY <1>3, SourceQueues
<1>5. IsControl(control) /\ Explained(control)
  BY DEF IInv
<1>6. CASE Rests(control, l, s)
  <2>1. source' = [source EXCEPT ![l] = s]
    BY <1>6 DEF Rests
  <2> QED BY <1>3, <1>4, <2>1, SourceQueues, NoMoreIsBounded
<1>7. CASE restartFrom(control, l, s, s.reset, due)
  BY <1>3, <1>4, <1>5, <1>7, RestartIsBounded
<1> QED BY <1>1, <1>6, <1>7

LEMMA LoaderStepIsBounded ==
  ASSUME IInv, IsBounded(source), NEW l \in Loaders, NEW due \in BOOLEAN,
         LoaderStep(l, due)
  PROVE  IsBounded(source')
<1>0. source[l] \in SourceShape
  BY DEF IInv
<1>1. CASE Open(l)
  <2> DEFINE s == [source[l] EXCEPT !.load = "opened", !.opened = TRUE]
  <2>1. source' = [source EXCEPT ![l] = s]
    BY <1>1 DEF Open, IInv
  <2>2. s \in SourceShape /\ s.first = source[l].first /\ s.next = source[l].next
    BY <1>0 DEF SourceShape
  <2> HIDE DEF s
  <2> QED BY <2>1, <2>2, AsLong, SourceQueues, NoMoreIsBounded
<1>2. CASE onLoaded(l, due)
  <2>1. PICK s : /\ s = [source[l] EXCEPT !.load = "idle", !.known = TRUE,
                                          !.opened = FALSE, !.count = 0]
                 /\ updateLoadControl(control, l, s, due)
    BY <1>2 DEF onLoaded
  <2>2. s \in SourceShape /\ s.first = source[l].first /\ s.next = source[l].next
    <3>1. PICK n \in 0..2 : n = 0
      OBVIOUS
    <3>2. s = [source[l] EXCEPT !.load = "idle", !.known = TRUE,
                                !.opened = FALSE, !.count = n]
      BY <2>1, <3>1
    <3> QED BY <1>0, <3>2 DEF SourceShape
  <2> QED BY <2>1, <2>2, AnswerIsBounded
<1>3. CASE onLoadedNotParsed(l, due)
  <2>1. PICK s : /\ s = [source[l] EXCEPT !.load = "idle", !.opened = FALSE,
                                          !.exception = "fatal"]
                 /\ updateLoadControl(control, l, s, due)
    BY <1>3 DEF onLoadedNotParsed
  <2>2. s \in SourceShape /\ s.first = source[l].first /\ s.next = source[l].next
    <3>1. PICK e \in {"none", "error", "fatal"} : e = "fatal"
      OBVIOUS
    <3>2. s = [source[l] EXCEPT !.load = "idle", !.opened = FALSE,
                                !.exception = e]
      BY <2>1, <3>1
    <3> QED BY <1>0, <3>2 DEF SourceShape
  <2> QED BY <2>1, <2>2, AnswerIsBounded
<1>4. CASE onError(l, due)
  <2>1. PICK s : /\ s = [source[l] EXCEPT !.load = "idle", !.exception = "error",
                                          !.count = IF @ = 0 THEN 1 ELSE 2]
                 /\ updateLoadControl(control, l, s, due)
    BY <1>4 DEF onError
  <2>2. s \in SourceShape /\ s.first = source[l].first /\ s.next = source[l].next
    <3>1. PICK e \in {"none", "error", "fatal"}, n \in 0..2 :
            e = "error" /\ n = IF source[l].count = 0 THEN 1 ELSE 2
      OBVIOUS
    <3>2. s = [source[l] EXCEPT !.load = "idle", !.exception = e, !.count = n]
      BY <2>1, <3>1
    <3> QED BY <1>0, <3>2 DEF SourceShape
  <2> QED BY <2>1, <2>2, AnswerIsBounded
<1>5. CASE onCanceled(l, due)
  BY <1>5, OnCanceledIsBounded
<1> QED BY <1>1, <1>2, <1>3, <1>4, <1>5 DEF LoaderStep

LEMMA NextIsBounded ==
  IInv /\ IsBounded(source) /\ [Next]_sharedVars => IsBounded(source)'
<1> SUFFICES ASSUME IInv, IsBounded(source), [Next]_sharedVars
             PROVE  IsBounded(source')
  BY DEF IsBounded, Queued
<1>1. ASSUME NEW l \in Loaders, NEW due \in BOOLEAN,
             \/ Enable(l, due) \/ continueBuffering(l, due)
             \/ seekToUs(l, due) \/ LoaderStep(l, due)
      PROVE  IsBounded(source')
  BY <1>1, EnableIsBounded, ContinueBufferingIsBounded, SeekToIsBounded,
     LoaderStepIsBounded
<1>2. ASSUME NEW l \in Loaders, Disable(l) \/ readData(l)
      PROVE  IsBounded(source')
  BY <1>2, DisableIsBounded, ReadDataIsBounded
<1>3. ASSUME Play \/ OthersDownload \/ UNCHANGED sharedVars
             \/ \E time \in SeekTimes : Seek(time)
      PROVE  IsBounded(source')
  BY <1>3, SameIsBounded DEF Play, OthersDownload, sharedVars, Seek
<1> QED BY <1>1, <1>2, <1>3 DEF Next

LEMMA InitIsBounded ==
  ASSUME Loaders # {}
  PROVE  Init => IsBounded(source)
<1> SUFFICES ASSUME Init PROVE IsBounded(source)
  OBVIOUS
<1>1. \A l \in Loaders : source[l].first = 0 /\ source[l].next = 0
  BY DEF Init, NewSource
<1>2. \A l \in Loaders : Queued(source)[l] = 0
  <2>1. \A a \in Nat : a * (0 - 0) = 0
    OBVIOUS
  <2> QED BY <1>1, <2>1, SharedLoadingAssumption DEF Queued
<1>3. PICK l \in Loaders : TRUE
  OBVIOUS
<1> DEFINE none == [m \in Loaders |-> 0]
           rest == Sum(Limit, Loaders \ {l})
<1>4. \A m \in Loaders : none[m] = 0
  OBVIOUS
<1> HIDE DEF none
<1>5. Sum(Queued(source), Loaders) <= rest
  <2>1. IsFiniteSet(Loaders) /\ IsFiniteSet(Loaders \ {l})
    BY FS_Subset, LoadControlAssumption
  <2>2. Sum(Queued(source), Loaders) = Sum(Queued(source), Loaders \ {l})
    <3>1. /\ Sum(Queued(source), Loaders)
               = Queued(source)[l] + Sum(Queued(source), Loaders \ {l})
          /\ Sum(Queued(source), Loaders \ {l}) \in Int
      BY <1>2, <2>1, SumWithout, SumTyped
    <3> QED BY <1>2, <3>1
  <2>3. Sum(Queued(source), Loaders \ {l}) <= rest
    BY <1>2, <2>1, LimitIsNat, SumAtMost
  <2> QED BY <2>2, <2>3
<1>6. Sum(Limit, Loaders) = Limit[l] + rest /\ rest \in Int
      /\ Sum(Queued(source), Loaders) \in Int
  <2>1. IsFiniteSet(Loaders) /\ IsFiniteSet(Loaders \ {l})
    BY FS_Subset, LoadControlAssumption
  <2>2. \A m \in Loaders : Limit[m] \in Int /\ Queued(source)[m] \in Int
    BY <1>2, LimitIsNat
  <2>3. Sum(Limit, Loaders) = Limit[l] + rest
    BY <2>1, <2>2, SumWithout
  <2>4. rest \in Int /\ Sum(Queued(source), Loaders) \in Int
    BY <2>1, <2>2, SumTyped
  <2> QED BY <2>3, <2>4
<1>7. Limit[l] \in Nat /\ Limit[l] > 0
  BY SharedLoadingAssumption, LoadControlAssumption DEF Limit
<1> HIDE DEF rest
<1>8. Sum(Queued(source), Loaders) < Sum(Limit, Loaders)
  BY <1>5, <1>6, <1>7
<1> QED BY <1>1, <1>8 DEF IsBounded

(* Several loaders that share the target never have more in memory, with   *)
(* the chunks about to be opened, than it allows and a chunk of each: not  *)
(* while loads fail and are tried again, are canceled, or end in another   *)
(* order than they were started, nor while sources leave and others come.  *)
THEOREM MemoryBounded ==
  ASSUME Loaders # {}
  PROVE  Spec => []MemoryIsBounded
<1>1. Init => IInv /\ IsBounded(source)
  BY InitKeeps, InitIsBounded
<1>2. IInv /\ IsBounded(source) /\ [Next]_sharedVars
        => (IInv /\ IsBounded(source))'
  BY NextKeeps, NextIsBounded
<1>3. IInv /\ IsBounded(source) => MemoryIsBounded
  BY BoundedIsBounded DEF IInv
<1> QED BY <1>1, <1>2, <1>3, PTL DEF Spec

-----------------------------------------------------------------------------
(* Turns.  While the control fills buffers, the maximum is the least of    *)
(* the positions it was told; before its first update it has none to tell. *)
Exact(c) ==
  IF c.fillingBuffers
  THEN c.maxLoadStartPosition = Min(NextLoads(c))
  ELSE \/ c.maxLoadStartPosition = -1
       \/ \A l \in Loaders : c.loaderStates[l] = NewLoaderState

(* What the control was told of a source is where it loads next, or is     *)
(* behind that by the chunk whose load its answer has started; a source    *)
(* that restarts tells it when the canceled load has ended.                *)
Told(c, l, s) ==
  s.enabled /\ ~s.canceled /\ nextLoadPosition(l, s) # -1 =>
    /\ c.loaderStates[l].nextLoadPosition # -1
    /\ c.loaderStates[l].nextLoadPosition <= nextLoadPosition(l, s)

(* A load in back-off has failed, and nothing is being loaded.             *)
Retried(s) ==
  /\ isLoading(s) => ~IsBackedOff(s)
  /\ IsBackedOff(s) => s.count # 0

TurnsKept ==
  /\ Exact(control)
  /\ \A l \in Loaders : Retried(source[l]) /\ Told(control, l, source[l])

(* What LoadsInTurn says of a step.                                        *)
InTurn ==
  \A l \in Loaders :
    Starts(l) => (\A m \in Loaders : ~IsAhead(l, m)) /\ control'.fillingBuffers

LEMMA MinIsLeast ==
  ASSUME NEW S \in SUBSET Nat, NEW x \in S
  PROVE  Min(S) \in S /\ Min(S) <= x
<1>1. \E n \in S : \A m \in S : n <= m
  BY SmallestNumber
<1> QED BY <1>1 DEF Min

LEMMA NextLoadsAreNat ==
  ASSUME NEW c, IsControl(c)
  PROVE  /\ NextLoads(c) \in SUBSET Nat
         /\ \A l \in c.loaders :
              /\ l \in Loaders
              /\ c.loaderStates[l].nextLoadPosition \in Position
              /\ c.loaderStates[l].nextLoadPosition # -1 =>
                   c.loaderStates[l].nextLoadPosition \in NextLoads(c)
<1>1. ASSUME NEW l \in c.loaders
      PROVE  l \in Loaders /\ c.loaderStates[l].nextLoadPosition \in Position
  BY DEF IsControl, ControlShape, LoaderShape
<1> QED BY <1>1 DEF NextLoads, Position

LEMMA UpdateStateExact ==
  ASSUME NEW c, IsControl(c)
  PROVE  /\ Exact(updateControlState(c))
         /\ updateControlState(c).loaderStates = c.loaderStates
<1> DEFINE u == updateControlState(c)
           f == IsFilling(c)
           p == HoldsPriority(c, f)
           m == IF f THEN Min(NextLoads(c)) ELSE -1
<1>1. u = [c EXCEPT !.fillingBuffers = f, !.streamingPrioritySet = p,
                    !.maxLoadStartPosition = m]
  BY DEF updateControlState
<1>2. /\ u.maxLoadStartPosition = m /\ u.loaders = c.loaders
      /\ u.loaderStates = c.loaderStates /\ u.fillingBuffers = f
  <2> HIDE DEF u, f, p, m
  <2> QED BY <1>1 DEF IsControl, ControlShape
<1>3. NextLoads(u) = NextLoads(c)
  BY <1>2 DEF NextLoads
<1> HIDE DEF u
<1>4. Exact(u)
  BY <1>2, <1>3 DEF Exact
<1> QED BY <1>2, <1>4 DEF u

LEMMA RegisterExact ==
  ASSUME NEW c, IsControl(c), Exact(c), NEW l \in Loaders, l \notin c.loaders
  PROVE  /\ Exact(register(c, l))
         /\ \A m \in Loaders \ {l} :
              register(c, l).loaderStates[m] = c.loaderStates[m]
<1> DEFINE r == register(c, l)
<1>1. /\ r.loaders = c.loaders \cup {l}
      /\ r.loaderStates = [c.loaderStates EXCEPT ![l] = NewLoaderState]
      /\ r.fillingBuffers = c.fillingBuffers
      /\ r.maxLoadStartPosition = c.maxLoadStartPosition
  BY DEF IsControl, ControlShape, register
<1>2. /\ c.loaders \in SUBSET Loaders /\ DOMAIN c.loaderStates = Loaders
  BY DEF IsControl, ControlShape
<1> HIDE DEF r
<1>3. /\ r.loaderStates[l] = NewLoaderState
      /\ \A m \in Loaders \ {l} : r.loaderStates[m] = c.loaderStates[m]
  BY <1>1, <1>2
<1>4. NextLoads(r) = NextLoads(c)
  <2>1. \A m \in c.loaders : r.loaderStates[m] = c.loaderStates[m]
    BY <1>2, <1>3
  <2>2. NewLoaderState.nextLoadPosition = -1
    BY DEF NewLoaderState
  <2> QED BY <1>1, <1>3, <2>1, <2>2 DEF NextLoads
<1>5. Exact(r)
  BY <1>1, <1>3, <1>4 DEF Exact
<1> QED BY <1>3, <1>5 DEF r

LEMMA UnregisterExact ==
  ASSUME NEW c, IsControl(c), NEW l \in Loaders
  PROVE  /\ Exact(unregister(c, l))
         /\ \A m \in Loaders \ {l} :
              unregister(c, l).loaderStates[m] = c.loaderStates[m]
<1> DEFINE d == [c EXCEPT !.loaders = @ \ {l},
                          !.loaderStates[l] = NewLoaderState]
<1>1. NewLoaderState \in LoaderShape
  BY DEF NewLoaderState, LoaderShape, Position, BufferStates,
         ABOVE_HIGH_WATERMARK
<1>2. /\ IsControl(d)
      /\ \A m \in Loaders \ {l} : d.loaderStates[m] = c.loaderStates[m]
  BY <1>1 DEF IsControl, ControlShape
<1>3. unregister(c, l) = updateControlState(d)
  BY DEF unregister
<1> HIDE DEF d
<1> QED BY <1>2, <1>3, UpdateStateExact

LEMMA UpdateExact ==
  ASSUME NEW c, IsControl(c), Exact(c), NEW l \in Loaders,
         NEW playback \in Nat, NEW nextLoad \in Position,
         NEW isLoad \in BOOLEAN, NEW hasFailed \in BOOLEAN, NEW allocated
  PROVE  LET u == update(c, l, playback, nextLoad, isLoad, hasFailed, allocated)
         IN  /\ Exact(u)
             /\ u.loaderStates[l].nextLoadPosition = nextLoad
             /\ \A m \in Loaders \ {l} : u.loaderStates[m] = c.loaderStates[m]
<1> DEFINE n == [bufferState |-> getLoaderBufferState(playback, nextLoad),
                 nextLoadPosition |-> nextLoad,
                 loading |-> isLoad, failed |-> hasFailed]
           pool == getBufferPoolState(allocated, targetBufferSize(c))
           d == [c EXCEPT !.loaderStates[l] = n, !.bufferPoolState = pool]
<1>1. n \in LoaderShape /\ n.nextLoadPosition = nextLoad
  BY DEF LoaderShape, BufferStates, getLoaderBufferState, ABOVE_HIGH_WATERMARK,
         BELOW_LOW_WATERMARK, BETWEEN_WATERMARKS
<1>2. pool \in BufferStates
  BY DEF BufferStates, getBufferPoolState, ABOVE_HIGH_WATERMARK,
         BELOW_LOW_WATERMARK, BETWEEN_WATERMARKS
<1>3. update(c, l, playback, nextLoad, isLoad, hasFailed, allocated)
        = IF d = c THEN c ELSE updateControlState(d)
  BY DEF update
<1> HIDE DEF n, pool
<1>4. /\ IsControl(d) /\ d.loaderStates[l] = n
      /\ \A m \in Loaders \ {l} : d.loaderStates[m] = c.loaderStates[m]
  BY <1>1, <1>2 DEF IsControl, ControlShape
<1> HIDE DEF d
<1>5. CASE d = c
  BY <1>1, <1>3, <1>4, <1>5
<1>6. CASE d # c
  BY <1>1, <1>3, <1>4, <1>6, UpdateStateExact
<1> QED BY <1>5, <1>6

(* A load that starts is no further than where its source was to load      *)
(* next, and takes that on.                                                *)
LEMMA StartMovesOn ==
  ASSUME NEW l \in Loaders, NEW s \in SourceShape,
         nextLoadPosition(l, s) # -1,
         NEW t, t = maybeStartLoading(l, s)
  PROVE  /\ s.known => (t.next - 1) * Duration[l] <= nextLoadPosition(l, s)
         /\ nextLoadPosition(l, t) # -1 =>
              nextLoadPosition(l, s) <= nextLoadPosition(l, t)
<1> DEFINE r == [s EXCEPT !.load = "started", !.opened = FALSE,
                          !.canceled = FALSE]
           chunk == ChunkAt(l, s.reset)
           D == Duration[l]
<1>0. /\ D \in Nat \ {0} /\ EndTime \in Nat /\ s.next \in Nat
      /\ s.reset \in Nat \/ s.reset = None
  BY SharedLoadingAssumption DEF SourceShape, Position, None
<1>1. r \in SourceShape /\ r.next = s.next /\ r.reset = s.reset
  BY DEF SourceShape
<1>2. t = IF ~s.known THEN r
          ELSE IF s.reset = None
               THEN [r EXCEPT !.next = @ + 1]
               ELSE [r EXCEPT !.first = chunk, !.next = chunk + 1,
                              !.read = s.reset, !.reset = None]
  BY DEF maybeStartLoading
<1>3. nextLoadPosition(l, s) = IF s.reset # None THEN s.reset
                               ELSE IF s.next = Last(l) THEN -1 ELSE s.next * D
  BY DEF nextLoadPosition
<1>4. nextLoadPosition(l, t) = IF t.reset # None THEN t.reset
                               ELSE IF t.next = Last(l) THEN -1 ELSE t.next * D
  BY DEF nextLoadPosition
<1> HIDE DEF r, chunk, D
<1>5. CASE ~s.known
  <2>1. t.next = s.next /\ t.reset = s.reset
    BY <1>1, <1>2, <1>5
  <2>2. nextLoadPosition(l, t) = nextLoadPosition(l, s)
    BY <1>3, <1>4, <2>1
  <2>3. nextLoadPosition(l, s) <= nextLoadPosition(l, s)
    BY NextLoadIsPosition DEF Position
  <2> QED BY <1>5, <2>2, <2>3
<1>6. CASE s.known /\ s.reset = None
  <2>1. t = [r EXCEPT !.next = @ + 1]
    BY <1>2, <1>6, Zenon
  <2>2. t.next = s.next + 1 /\ t.reset = None
    BY <1>1, <1>6, <2>1 DEF SourceShape
  <2>3. nextLoadPosition(l, s) = s.next * D
    BY <1>3, <1>6
  <2>4. s.next * D \in Nat /\ (s.next + 1) * D = s.next * D + D
    BY <1>0
  <2>5. (t.next - 1) * D <= nextLoadPosition(l, s)
    <3>1. t.next - 1 = s.next
      BY <1>0, <2>2
    <3> QED BY <2>3, <2>4, <3>1
  <2>6. nextLoadPosition(l, t) # -1 =>
          nextLoadPosition(l, s) <= nextLoadPosition(l, t)
    BY <1>0, <1>4, <2>2, <2>3, <2>4
  <2> QED BY <2>5, <2>6 DEF D
<1>7. CASE s.known /\ s.reset # None
  <2>1. t = [r EXCEPT !.first = chunk, !.next = chunk + 1,
                      !.read = s.reset, !.reset = None]
    BY <1>2, <1>7, Zenon
  <2>2. t.next = chunk + 1 /\ t.reset = None
    BY <1>1, <2>1 DEF SourceShape
  <2>3. nextLoadPosition(l, s) = s.reset /\ s.reset \in Nat
    BY <1>0, <1>3, <1>7
  <2>4. \A a \in Nat, b \in Nat \ {0} :
          /\ (a \div b) * b <= a /\ a <= (a \div b + 1) * b
          /\ (a \div b - 1) * b <= a
    OBVIOUS
  <2>5. chunk \in Int
    BY <2>3, ChunkIsThere DEF chunk
  <2>6. chunk * D <= s.reset
    BY <1>0, <2>3, <2>4 DEF chunk, ChunkAt, Last, D
  <2>7. \/ s.reset <= (chunk + 1) * D
        \/ chunk + 1 = Last(l)
    <3>1. CASE s.reset = EndTime
      <4>1. chunk = Last(l) - 1 /\ Last(l) \in Nat
        BY <1>0, <3>1, DivisionOfTimes DEF chunk, ChunkAt, Last, D
      <4> QED BY <4>1
    <3>2. CASE s.reset # EndTime
      BY <1>0, <2>3, <2>4, <3>2 DEF chunk, ChunkAt, D
    <3> QED BY <3>1, <3>2
  <2>8. t.next - 1 = chunk
    BY <2>2, <2>5
  <2>9. (t.next - 1) * D <= nextLoadPosition(l, s)
    BY <2>3, <2>6, <2>8
  <2>10. nextLoadPosition(l, t) # -1 =>
           nextLoadPosition(l, s) <= nextLoadPosition(l, t)
    BY <1>4, <2>2, <2>3, <2>7
  <2> QED BY <2>9, <2>10 DEF D
<1> QED BY <1>5, <1>6, <1>7

(* The source l is left as t, with the load of a new chunk started.        *)
Fresh(l, t) ==
  /\ t.load = "started" /\ ~t.canceled /\ t.count = 0
  /\ source[l].load # "started" \/ source[l].canceled

LEMMA RestsInTurn ==
  ASSUME IInv, TurnsKept, NEW l \in Loaders,
         NEW c, Exact(c),
         \A m \in Loaders \ {l} : c.loaderStates[m] = control.loaderStates[m],
         NEW t \in SourceShape, Retried(t), Told(c, l, t),
         Fresh(l, t) =>
           /\ c.fillingBuffers
           /\ \A m \in Loaders \ {l} :
                /\ source[l].known /\ source[m].enabled /\ ~source[m].canceled
                /\ nextLoadPosition(m, source[m]) # -1
                => (t.next - 1) * Duration[l] <= nextLoadPosition(m, source[m]),
         Rests(c, l, t)
  PROVE  TurnsKept' /\ InTurn
<1>1. control' = c /\ source' = [source EXCEPT ![l] = t]
  BY DEF Rests, Becomes
<1>2. /\ source' \in [Loaders -> SourceShape] /\ source'[l] = t
      /\ \A m \in Loaders \ {l} : source'[m] = source[m]
  BY <1>1 DEF IInv
<1>3. PICK src : src = source'
  OBVIOUS
<1>4. ASSUME NEW m \in Loaders PROVE Retried(src[m]) /\ Told(c, m, src[m])
  <2>1. CASE m = l
    BY <1>2, <1>3, <2>1
  <2>2. CASE m # l
    BY <1>2, <1>3, <2>2 DEF TurnsKept, Told
  <2> QED BY <2>1, <2>2
<1>5. TurnsKept'
  <2>1. Exact(control)' <=> Exact(c)
    BY <1>1 DEF Exact, NextLoads
  <2>2. ASSUME NEW m \in Loaders
        PROVE  Retried(source[m])' /\ Told(control, m, source[m])'
    <3>1. Retried(source[m])' <=> Retried(src[m])
      BY <1>3 DEF Retried, isLoading, IsBackedOff
    <3>2. Told(control, m, source[m])' <=> Told(c, m, src[m])
      BY <1>1, <1>3 DEF Told, nextLoadPosition
    <3> QED BY <1>4, <3>1, <3>2
  <2> QED BY <2>1, <2>2 DEF TurnsKept
<1>6. InTurn
  <2>1. ASSUME NEW k \in Loaders, Starts(k) PROVE k = l /\ Fresh(l, t)
    <3>1. source'[k] # source[k]
      BY <2>1 DEF Starts
    <3>2. k = l
      BY <1>2, <3>1
    <3> QED BY <1>2, <2>1, <3>2 DEF Starts, Fresh
  <2>2. ASSUME NEW m \in Loaders, Fresh(l, t), IsAhead(l, m) PROVE FALSE
    <3>1. /\ m # l /\ source[l].known /\ source[m].enabled
          /\ ~source[m].canceled /\ nextLoadPosition(m, source[m]) # -1
      BY <2>2 DEF IsAhead
    <3>2. (t.next - 1) * Duration[l] > nextLoadPosition(m, source[m])
      BY <1>2, <2>2 DEF IsAhead
    <3>3. (t.next - 1) * Duration[l] <= nextLoadPosition(m, source[m])
      BY <2>2, <3>1, Zenon
    <3>4. nextLoadPosition(m, source[m]) \in Int
      BY NextLoadIsPosition DEF Position, IInv
    <3>5. (t.next - 1) * Duration[l] \in Int
      BY SharedLoadingAssumption DEF SourceShape
    <3> QED BY <3>2, <3>3, <3>4, <3>5
  <2> QED BY <1>1, <2>1, <2>2 DEF InTurn
<1> QED BY <1>5, <1>6

(* What a handler makes of a source before the control is asked.           *)
Ready(l, s) ==
  /\ Retried(s)
  /\ source[l].known => s.known
  /\ s.load = "started" /\ ~s.canceled =>
       source[l].load = "started" /\ ~source[l].canceled

LEMMA ProceedsInTurn ==
  ASSUME NEW l \in Loaders, NEW s \in SourceShape, Retried(s),
         NEW next \in BOOLEAN, next => nextLoadPosition(l, s) # -1,
         NEW due \in BOOLEAN,
         NEW t, t = Proceeds(l, s, next, due)
  PROVE  /\ t \in SourceShape /\ Retried(t)
         /\ nextLoadPosition(l, t) # -1 =>
              /\ nextLoadPosition(l, s) # -1
              /\ nextLoadPosition(l, s) <= nextLoadPosition(l, t)
         /\ \/ t = s
            \/ t.count # 0
            \/ next /\ t = maybeStartLoading(l, s)
<1>0. t \in SourceShape
  BY ProceedsKeepsShape
<1>1. nextLoadPosition(l, s) <= nextLoadPosition(l, s)
  BY NextLoadIsPosition DEF Position
<1>2. CASE t = s
  BY <1>0, <1>1, <1>2
<1>3. CASE IsBackedOff(s) /\ t = resumeFromBackOff(s)
  <2>1. /\ t.count = s.count /\ t.next = s.next /\ t.reset = s.reset
        /\ t.exception = "none"
    BY <1>3 DEF resumeFromBackOff, SourceShape
  <2>2. Retried(t) /\ t.count # 0
    BY <1>3, <2>1 DEF Retried, IsBackedOff
  <2>3. nextLoadPosition(l, t) = nextLoadPosition(l, s)
    BY <2>1 DEF nextLoadPosition
  <2> QED BY <1>0, <1>1, <2>2, <2>3
<1>4. CASE /\ ~IsBackedOff(s) /\ next /\ s.exception = "none"
           /\ t = maybeStartLoading(l, s)
  <2>1. t.exception = "none"
    <3> DEFINE r == [s EXCEPT !.load = "started", !.opened = FALSE,
                              !.canceled = FALSE]
               chunk == ChunkAt(l, s.reset)
    <3>1. r \in SourceShape /\ r.exception = "none"
      BY <1>4 DEF SourceShape
    <3>2. t = IF ~s.known THEN r
              ELSE IF s.reset = None
                   THEN [r EXCEPT !.next = @ + 1]
                   ELSE [r EXCEPT !.first = chunk, !.next = chunk + 1,
                                  !.read = s.reset, !.reset = None]
      BY <1>4 DEF maybeStartLoading
    <3> HIDE DEF r, chunk
    <3> QED BY <3>1, <3>2 DEF SourceShape
  <2>2. Retried(t)
    BY <2>1 DEF Retried, IsBackedOff
  <2>3. nextLoadPosition(l, t) # -1 =>
          nextLoadPosition(l, s) <= nextLoadPosition(l, t)
    <3>1. next /\ t = maybeStartLoading(l, s) /\ nextLoadPosition(l, s) # -1
      BY <1>4, Zenon
    <3>2. t = maybeStartLoading(l, s) /\ nextLoadPosition(l, s) # -1
      BY <3>1, Zenon
    <3> QED BY <3>2, StartMovesOn
  <2> QED BY <1>0, <1>4, <2>2, <2>3
<1>5. \/ t = s
      \/ IsBackedOff(s) /\ t = resumeFromBackOff(s)
      \/ /\ ~IsBackedOff(s) /\ next /\ s.exception = "none"
         /\ t = maybeStartLoading(l, s)
  <2>1. CASE IsBackedOff(s)
    BY <2>1 DEF Proceeds
  <2>2. CASE ~IsBackedOff(s)
    BY <2>2 DEF Proceeds
  <2> QED BY <2>1, <2>2
<1> QED BY <1>2, <1>3, <1>4, <1>5

(* Whom the control lets load is first among those it knows of.            *)
LEMMA MayLoadInTurn ==
  ASSUME NEW d, IsControl(d), Exact(d), NEW l \in Loaders,
         NEW nextLoad \in Position,
         d.loaderStates[l].nextLoadPosition = nextLoad,
         NEW allocated, mayLoad(d, nextLoad, allocated)
  PROVE  /\ d.fillingBuffers
         /\ \A m \in d.loaders :
              d.loaderStates[m].nextLoadPosition # -1 =>
                nextLoad <= d.loaderStates[m].nextLoadPosition
<1>1. nextLoad # -1 /\ nextLoad <= d.maxLoadStartPosition /\ nextLoad \in Nat
  BY DEF mayLoad, Position
<1>2. d.fillingBuffers
  <2>1. SUFFICES ASSUME ~d.fillingBuffers PROVE FALSE
    BY Zenon
  <2>2. d.maxLoadStartPosition # -1
    BY <1>1
  <2>3. d.loaderStates[l] = NewLoaderState
    BY <2>1, <2>2 DEF Exact
  <2> QED BY <1>1, <2>3 DEF NewLoaderState
<1>3. d.maxLoadStartPosition = Min(NextLoads(d))
  BY <1>2 DEF Exact
<1>4. ASSUME NEW m \in d.loaders, d.loaderStates[m].nextLoadPosition # -1
      PROVE  nextLoad <= d.loaderStates[m].nextLoadPosition
  <2>1. /\ d.loaderStates[m].nextLoadPosition \in NextLoads(d)
        /\ NextLoads(d) \in SUBSET Nat
    BY <1>4, NextLoadsAreNat
  <2>2. /\ Min(NextLoads(d)) \in NextLoads(d)
        /\ Min(NextLoads(d)) <= d.loaderStates[m].nextLoadPosition
    BY <2>1, MinIsLeast
  <2>3. /\ Min(NextLoads(d)) \in Nat
        /\ d.loaderStates[m].nextLoadPosition \in Nat
    BY <2>1, <2>2
  <2> QED BY <1>1, <1>3, <2>2, <2>3
<1> QED BY <1>2, <1>4

LEMMA UpdateInTurn ==
  ASSUME IInv, TurnsKept, NEW l \in Loaders,
         NEW c, IsControl(c), Explained(c), Exact(c),
         \A m \in Loaders \ {l} : c.loaderStates[m] = control.loaderStates[m],
         NEW s \in SourceShape, Ready(l, s), NEW due \in BOOLEAN,
         Registered(c, [source EXCEPT ![l] = s]),
         updateLoadControl(c, l, s, due)
  PROVE  TurnsKept' /\ InTurn
<1> DEFINE isLoad == IsBackedOff(s) \/ isLoading(s)
           hasFailed == s.exception = "fatal"
<1>1. PICK allocated \in {getAllocatedSize([source EXCEPT ![l] = s])},
           nextLoad \in {nextLoadPosition(l, s)} :
        \E d \in {update(c, l, s.downstream, nextLoad, isLoad, hasFailed,
                         allocated)} :
          Rests(d, l, Proceeds(l, s, mayLoad(d, nextLoad, allocated), due))
  BY Zenon DEF updateLoadControl
<1>2. PICK d \in {update(c, l, s.downstream, nextLoad, isLoad, hasFailed,
                         allocated)} :
        Rests(d, l, Proceeds(l, s, mayLoad(d, nextLoad, allocated), due))
  BY <1>1, Zenon
<1>3. /\ nextLoad \in Position /\ nextLoad = nextLoadPosition(l, s)
      /\ IsControl(d) /\ Exact(d) /\ d.loaders = c.loaders
      /\ d.loaderStates[l].nextLoadPosition = nextLoad
      /\ \A m \in Loaders \ {l} : d.loaderStates[m] = c.loaderStates[m]
  <2>1. /\ nextLoad \in Position /\ s.downstream \in Nat
        /\ isLoad \in BOOLEAN /\ hasFailed \in BOOLEAN
    BY NextLoadIsPosition DEF SourceShape
  <2> HIDE DEF isLoad, hasFailed
  <2>2. IsControl(d) /\ d.loaders = c.loaders
    BY <2>1, UpdateExplained
  <2>3. /\ Exact(d) /\ d.loaderStates[l].nextLoadPosition = nextLoad
        /\ \A m \in Loaders \ {l} : d.loaderStates[m] = c.loaderStates[m]
    BY <2>1, UpdateExact
  <2> QED BY <2>1, <2>2, <2>3
<1>4. PICK next \in BOOLEAN : next <=> mayLoad(d, nextLoad, allocated)
  BY DEF mayLoad
<1>5. PICK t : t = Proceeds(l, s, next, due)
  OBVIOUS
<1>6. Rests(d, l, t)
  <2>1. next = mayLoad(d, nextLoad, allocated)
    BY <1>4 DEF mayLoad
  <2> QED BY <1>2, <1>5, <2>1
<1> HIDE DEF isLoad, hasFailed
<1>7. /\ t \in SourceShape /\ Retried(t)
      /\ nextLoadPosition(l, t) # -1 =>
           nextLoad # -1 /\ nextLoad <= nextLoadPosition(l, t)
      /\ \/ t = s
         \/ t.count # 0
         \/ next /\ t = maybeStartLoading(l, s)
  <2>1. next => nextLoadPosition(l, s) # -1
    BY <1>3, <1>4 DEF mayLoad
  <2>2. Retried(s)
    BY Zenon DEF Ready
  <2> QED BY <1>3, <1>5, <2>1, <2>2, ProceedsInTurn
<1>8. Told(d, l, t)
  <2>1. nextLoadPosition(l, t) # -1 =>
          /\ d.loaderStates[l].nextLoadPosition # -1
          /\ d.loaderStates[l].nextLoadPosition <= nextLoadPosition(l, t)
    BY <1>3, <1>7
  <2> QED BY <2>1, Zenon DEF Told
<1>9. \A m \in Loaders \ {l} : d.loaderStates[m] = control.loaderStates[m]
  BY <1>3
<1>10. ASSUME Fresh(l, t)
       PROVE  next /\ t = maybeStartLoading(l, s)
  BY <1>7, <1>10 DEF Fresh, Ready
<1>11. ASSUME Fresh(l, t)
       PROVE  d.fillingBuffers
  <2>1. mayLoad(d, nextLoad, allocated)
    BY <1>4, <1>10, <1>11, Zenon
  <2> QED BY <1>3, <2>1, MayLoadInTurn
<1>12. ASSUME Fresh(l, t), NEW m \in Loaders \ {l},
              source[l].known, source[m].enabled, ~source[m].canceled,
              nextLoadPosition(m, source[m]) # -1
       PROVE  (t.next - 1) * Duration[l] <= nextLoadPosition(m, source[m])
  <2>1. mayLoad(d, nextLoad, allocated)
    BY <1>4, <1>10, <1>12, Zenon
  <2>2. /\ control.loaderStates[m].nextLoadPosition # -1
        /\ control.loaderStates[m].nextLoadPosition
             <= nextLoadPosition(m, source[m])
    BY <1>12, SMTT(30) DEF TurnsKept, Told
  <2>3. m \in d.loaders
    BY <1>3, <1>12 DEF Registered, IInv
  <2>4. nextLoad <= control.loaderStates[m].nextLoadPosition
    <3>1. /\ d.loaderStates[m] = control.loaderStates[m]
          /\ d.loaderStates[m].nextLoadPosition # -1
      BY <1>9, <2>2
    <3>2. nextLoad <= d.loaderStates[m].nextLoadPosition
      BY <1>3, <2>1, <2>3, <3>1, MayLoadInTurn
    <3> QED BY <3>1, <3>2
  <2>5. (t.next - 1) * Duration[l] <= nextLoad
    <3>1. s.known /\ t = maybeStartLoading(l, s)
      BY <1>10, <1>12, Zenon DEF Ready
    <3>2. nextLoadPosition(l, s) # -1
      BY <1>3, <2>1 DEF mayLoad
    <3> QED BY <1>3, <3>1, <3>2, StartMovesOn
  <2>6. /\ (t.next - 1) * Duration[l] \in Int /\ nextLoad \in Int
        /\ control.loaderStates[m].nextLoadPosition \in Int
        /\ nextLoadPosition(m, source[m]) \in Int
    <3>1. control.loaderStates[m].nextLoadPosition \in Position
      BY DEF IInv, IsControl, ControlShape, LoaderShape
    <3>2. nextLoadPosition(m, source[m]) \in Position
      BY NextLoadIsPosition DEF IInv
    <3>3. t.next - 1 \in Int /\ Duration[l] \in Nat
      BY <1>7, SharedLoadingAssumption DEF SourceShape
    <3>4. (t.next - 1) * Duration[l] \in Int
      BY <3>3
    <3>5. nextLoad \in Position
      BY <1>3
    <3> QED BY <3>1, <3>2, <3>4, <3>5 DEF Position
  <2> QED BY <2>2, <2>4, <2>5, <2>6
<1>13. Fresh(l, t) =>
         /\ d.fillingBuffers
         /\ \A m \in Loaders \ {l} :
              /\ source[l].known /\ source[m].enabled /\ ~source[m].canceled
              /\ nextLoadPosition(m, source[m]) # -1
              => (t.next - 1) * Duration[l] <= nextLoadPosition(m, source[m])
  BY <1>11, <1>12, Zenon
<1> QED BY <1>3, <1>6, <1>7, <1>8, <1>9, <1>13, RestsInTurn

LEMMA RestartInTurn ==
  ASSUME IInv, TurnsKept, NEW l \in Loaders,
         NEW c, IsControl(c), Explained(c), Exact(c),
         \A m \in Loaders \ {l} : c.loaderStates[m] = control.loaderStates[m],
         NEW s \in SourceShape, Retried(s), source[l].known => s.known,
         NEW due \in BOOLEAN, NEW time \in Position,
         Registered(c, [source EXCEPT ![l] = s]),
         restartFrom(c, l, s, time, due)
  PROVE  TurnsKept' /\ InTurn
<1> DEFINE t == [s EXCEPT !.reset = time, !.read = time]
           u == [t EXCEPT !.canceled = TRUE]
<1>1. /\ t \in SourceShape /\ t.load = s.load /\ t.exception = s.exception
      /\ t.count = s.count /\ t.enabled = s.enabled /\ t.known = s.known
  <2>1. time \in Int
    BY DEF Position
  <2> QED BY <2>1 DEF SourceShape
<1>2. CASE isLoading(t)
  <2>1. Rests(c, l, u)
    BY <1>2 DEF restartFrom
  <2> HIDE DEF t
  <2>2. /\ u \in SourceShape /\ u.load = s.load /\ u.exception = s.exception
        /\ u.count = s.count /\ u.canceled
    BY <1>1 DEF SourceShape
  <2> HIDE DEF u
  <2>3. Retried(u) /\ Told(c, l, u) /\ ~Fresh(l, u)
    BY <2>2 DEF Retried, isLoading, IsBackedOff, Told, Fresh
  <2> QED BY <2>1, <2>2, <2>3, RestsInTurn
<1>3. CASE ~isLoading(t)
  <2>1. updateLoadControl(c, l, Clear(t), due)
    BY <1>3 DEF restartFrom
  <2> HIDE DEF t
  <2>2. /\ Clear(t) \in SourceShape /\ Clear(t).load = t.load
        /\ Clear(t).exception = "none" /\ Clear(t).enabled = s.enabled
        /\ Clear(t).known = s.known
    <3>1. Clear(t) \in SourceShape
      BY <1>1, ClearKeepsShape
    <3>2. /\ Clear(t).load = t.load /\ Clear(t).exception = "none"
          /\ Clear(t).enabled = t.enabled /\ Clear(t).known = t.known
      BY <1>1 DEF Clear, SourceShape
    <3> QED BY <1>1, <3>1, <3>2
  <2>3. Ready(l, Clear(t))
    <3>1. Clear(t).load # "started"
      BY <1>3, <2>2 DEF isLoading
    <3>2. Retried(Clear(t))
      BY <2>2 DEF Retried, IsBackedOff
    <3> QED BY <2>2, <3>1, <3>2 DEF Ready
  <2>4. Registered(c, [source EXCEPT ![l] = Clear(t)])
    BY <2>2 DEF Registered, IInv
  <2> QED BY <2>1, <2>2, <2>3, <2>4, UpdateInTurn
<1> QED BY <1>2, <1>3

(* Nothing starts where the state of a source's load is left alone.        *)
LEMMA ReadyAsItWas ==
  ASSUME IInv, TurnsKept, NEW l \in Loaders, NEW s \in SourceShape,
         s.load = source[l].load, s.canceled = source[l].canceled,
         s.exception = source[l].exception, s.count = source[l].count,
         s.known = source[l].known
  PROVE  Ready(l, s) /\ ~Fresh(l, s)
BY DEF TurnsKept, Ready, Retried, Fresh, isLoading, IsBackedOff

LEMMA NothingStarts ==
  ASSUME IInv, TurnsKept, UNCHANGED <<source, control>>
  PROVE  TurnsKept' /\ InTurn
<1>1. TurnsKept'
  BY DEF TurnsKept, Exact, NextLoads, Retried, isLoading, IsBackedOff, Told,
     nextLoadPosition
<1>2. \A l \in Loaders : ~Starts(l)
  BY DEF Starts
<1> QED BY <1>1, <1>2 DEF InTurn

(* Handlers of the control as it is.                                       *)
LEMMA ControlIsExact ==
  ASSUME IInv, TurnsKept
  PROVE  IsControl(control) /\ Explained(control) /\ Exact(control)
BY DEF IInv, TurnsKept

LEMMA AnswerInTurn ==
  ASSUME IInv, TurnsKept, NEW l \in Loaders, NEW due \in BOOLEAN,
         NEW s \in SourceShape, s.enabled = source[l].enabled, Ready(l, s),
         updateLoadControl(control, l, s, due)
  PROVE  TurnsKept' /\ InTurn
BY ControlIsExact, StillRegistered, UpdateInTurn

LEMMA MoveKeepsLoad ==
  ASSUME NEW s \in SourceShape, NEW p \in Nat
  PROVE  LET u == [s EXCEPT !.downstream = p]
         IN  /\ u \in SourceShape /\ u.enabled = s.enabled /\ u.load = s.load
             /\ u.canceled = s.canceled /\ u.exception = s.exception
             /\ u.count = s.count /\ u.known = s.known
             /\ u.next = s.next /\ u.reset = s.reset
BY DEF SourceShape

LEMMA EnableInTurn ==
  ASSUME IInv, TurnsKept, NEW l \in Loaders, NEW due \in BOOLEAN, Enable(l, due)
  PROVE  TurnsKept' /\ InTurn
<1> DEFINE s == [source[l] EXCEPT !.enabled = TRUE, !.downstream = position]
           c == register(control, l)
<1>1. position \in Nat /\ ~source[l].enabled
      /\ restartFrom(c, l, s, position, due)
  BY DEF Enable, Undisturbed, IInv
<1>2. /\ s \in SourceShape /\ s.enabled /\ s.load = source[l].load
      /\ s.exception = source[l].exception /\ s.count = source[l].count
      /\ s.known = source[l].known
  <2>1. source[l] \in SourceShape /\ position \in Nat
    BY DEF IInv
  <2> QED BY <2>1, EnablingKeepsRest, Zenon
<1>3. l \notin control.loaders
  BY <1>1 DEF IInv, Registered
<1>4. IsControl(c) /\ Explained(c) /\ c.loaders = control.loaders \cup {l}
  BY <1>3, RegisterExplained DEF IInv
<1>5. /\ Exact(c)
      /\ \A m \in Loaders \ {l} : c.loaderStates[m] = control.loaderStates[m]
  BY <1>3, ControlIsExact, RegisterExact
<1> HIDE DEF s, c
<1>6. Registered(c, [source EXCEPT ![l] = s])
  BY <1>2, <1>4 DEF Registered, IInv
<1>7. position \in Position
  BY <1>1 DEF Position
<1>8. Retried(s) /\ (source[l].known => s.known)
  BY <1>2 DEF TurnsKept, Retried, isLoading, IsBackedOff
<1> QED BY <1>1, <1>2, <1>4, <1>5, <1>6, <1>7, <1>8, RestartInTurn

LEMMA DisableInTurn ==
  ASSUME IInv, TurnsKept, NEW l \in Loaders, Disable(l)
  PROVE  TurnsKept' /\ InTurn
<1> DEFINE s == [source[l] EXCEPT !.enabled = FALSE]
           r == [s EXCEPT !.canceled = TRUE]
           t == IF isLoading(s) THEN r ELSE Clear(s)
           c == unregister(control, l)
<1>1. Rests(c, l, t)
  BY DEF Disable
<1>2. /\ s \in SourceShape /\ ~s.enabled /\ s.load = source[l].load
      /\ s.exception = source[l].exception /\ s.count = source[l].count
  <2>1. source[l] \in SourceShape
    BY DEF IInv
  <2> QED BY <2>1, DisablingKeepsRest, Zenon
<1> HIDE DEF s
<1>3. /\ r \in SourceShape /\ ~r.enabled /\ r.load = source[l].load /\ r.canceled
      /\ r.exception = source[l].exception /\ r.count = source[l].count
  BY <1>2 DEF SourceShape
<1>4. /\ Clear(s) \in SourceShape /\ ~Clear(s).enabled
      /\ Clear(s).load = source[l].load /\ Clear(s).exception = "none"
  <2>1. Clear(s) \in SourceShape
    BY <1>2, ClearKeepsShape
  <2>2. /\ Clear(s).load = s.load /\ Clear(s).exception = "none"
        /\ Clear(s).enabled = s.enabled
    BY <1>2 DEF Clear, SourceShape
  <2> QED BY <1>2, <2>1, <2>2
<1> HIDE DEF r
<1>5. t \in SourceShape /\ ~t.enabled /\ Retried(t) /\ ~Fresh(l, t)
  <2>1. CASE isLoading(s)
    <3>1. t = r
      BY <2>1
    <3>2. Retried(r)
      BY <1>3 DEF TurnsKept, Retried, isLoading, IsBackedOff
    <3> HIDE DEF t
    <3> QED BY <1>3, <3>1, <3>2 DEF Fresh
  <2>2. CASE ~isLoading(s)
    <3>1. t = Clear(s) /\ Clear(s).load = "idle"
      BY <1>2, <1>4, <2>2 DEF isLoading
    <3> HIDE DEF t
    <3> QED BY <1>4, <3>1 DEF Fresh, Retried, isLoading, IsBackedOff
  <2> QED BY <2>1, <2>2
<1> HIDE DEF t
<1>6. /\ Exact(c)
      /\ \A m \in Loaders \ {l} : c.loaderStates[m] = control.loaderStates[m]
  BY ControlIsExact, UnregisterExact
<1>7. Told(c, l, t)
  BY <1>5, Zenon DEF Told
<1> QED BY <1>1, <1>5, <1>6, <1>7, RestsInTurn

LEMMA ContinueBufferingInTurn ==
  ASSUME IInv, TurnsKept, NEW l \in Loaders, NEW due \in BOOLEAN,
         continueBuffering(l, due)
  PROVE  TurnsKept' /\ InTurn
<1>1. PICK s : /\ s = [source[l] EXCEPT !.downstream = position]
               /\ updateLoadControl(control, l, s, due)
  BY DEF continueBuffering
<1>2. s \in SourceShape /\ s.enabled = source[l].enabled /\ Ready(l, s)
  <2>1. source[l] \in SourceShape /\ position \in Nat
    BY DEF IInv
  <2>2. /\ s \in SourceShape /\ s.enabled = source[l].enabled
        /\ s.load = source[l].load /\ s.canceled = source[l].canceled
        /\ s.exception = source[l].exception /\ s.count = source[l].count
        /\ s.known = source[l].known
    BY <1>1, <2>1, MoveKeepsLoad
  <2> QED BY <2>2, ReadyAsItWas
<1> QED BY <1>1, <1>2, AnswerInTurn

LEMMA SeekToInTurn ==
  ASSUME IInv, TurnsKept, NEW l \in Loaders, NEW due \in BOOLEAN,
         seekToUs(l, due)
  PROVE  TurnsKept' /\ InTurn
<1>1. PICK s : s = [source[l] EXCEPT !.downstream = position]
  OBVIOUS
<1>2. PICK chunk : chunk = ChunkAt(l, position)
  OBVIOUS
<1>3. \/ Rests(control, l, s)
      \/ updateLoadControl(control, l,
           [s EXCEPT !.first = chunk, !.read = position], due)
      \/ restartFrom(control, l, s, position, due)
  BY <1>1, <1>2 DEF seekToUs
<1>4. position \in Nat /\ position \in Position /\ position \in Int
      /\ chunk \in Int
  BY <1>2, ChunkIsThere DEF IInv, Position
<1>5. /\ s \in SourceShape /\ s.enabled = source[l].enabled
      /\ s.load = source[l].load /\ s.canceled = source[l].canceled
      /\ s.exception = source[l].exception /\ s.count = source[l].count
      /\ s.known = source[l].known /\ s.next = source[l].next
      /\ s.reset = source[l].reset
  BY <1>1, <1>4, MoveKeepsLoad DEF IInv
<1>6. Ready(l, s) /\ ~Fresh(l, s) /\ Retried(s)
  BY <1>5, ReadyAsItWas DEF Ready
<1>7. CASE Rests(control, l, s)
  <2>1. Told(control, l, s)
    BY <1>5 DEF TurnsKept, Told, nextLoadPosition
  <2> QED BY <1>5, <1>6, <1>7, <2>1, ControlIsExact, RestsInTurn
<1>8. CASE updateLoadControl(control, l,
             [s EXCEPT !.first = chunk, !.read = position], due)
  <2>1. PICK t : t = [s EXCEPT !.first = chunk, !.read = position]
    OBVIOUS
  <2>2. /\ t \in SourceShape /\ t.enabled = s.enabled
        /\ t.load = s.load /\ t.canceled = s.canceled
        /\ t.exception = s.exception /\ t.count = s.count /\ t.known = s.known
    BY <1>4, <1>5, <2>1 DEF SourceShape
  <2>3. Ready(l, t) /\ t.enabled = source[l].enabled
    BY <1>5, <2>2, ReadyAsItWas
  <2> QED BY <1>8, <2>1, <2>2, <2>3, AnswerInTurn
<1>9. CASE restartFrom(control, l, s, position, due)
  <2>1. Registered(control, [source EXCEPT ![l] = s])
    BY <1>5, StillRegistered
  <2>2. source[l].known => s.known
    BY <1>5
  <2> QED BY <1>4, <1>5, <1>6, <1>9, <2>1, <2>2, ControlIsExact, RestartInTurn
<1> QED BY <1>3, <1>7, <1>8, <1>9

LEMMA ReadDataInTurn ==
  ASSUME IInv, TurnsKept, NEW l \in Loaders, readData(l)
  PROVE  TurnsKept' /\ InTurn
<1> DEFINE s == [source[l] EXCEPT !.downstream = position]
           f == IF s.read = (s.first + 1) * Duration[l] /\ s.next > s.first + 1
                THEN s.first + 1 ELSE s.first
           t == [s EXCEPT !.first = f]
           u == [t EXCEPT !.read = @ + 1]
           r == IF s.reset # None THEN s
                ELSE IF Available(l, t) THEN u ELSE t
           Same(a, b) ==
             /\ a.load = b.load /\ a.canceled = b.canceled
             /\ a.exception = b.exception /\ a.count = b.count
             /\ a.known = b.known /\ a.enabled = b.enabled
             /\ a.next = b.next /\ a.reset = b.reset
<1>1. Rests(control, l, r)
  BY DEF readData
<1>2. s \in SourceShape /\ Same(s, source[l])
  BY MoveKeepsLoad DEF IInv
<1> HIDE DEF s
<1>3. f \in Int
  BY <1>2 DEF SourceShape
<1> HIDE DEF f
<1>4. t \in SourceShape /\ Same(t, s)
  BY <1>2, <1>3 DEF SourceShape
<1> HIDE DEF t
<1>5. u \in SourceShape /\ Same(u, t)
  BY <1>4 DEF SourceShape
<1> HIDE DEF u
<1>6. r \in SourceShape /\ Same(r, source[l])
  BY <1>2, <1>4, <1>5
<1> HIDE DEF r
<1>7. Ready(l, r) /\ ~Fresh(l, r) /\ Retried(r)
  BY <1>6, ReadyAsItWas DEF Ready
<1>8. Told(control, l, r)
  BY <1>6 DEF TurnsKept, Told, nextLoadPosition
<1> QED BY <1>1, <1>6, <1>7, <1>8, ControlIsExact, RestsInTurn

LEMMA OnCanceledInTurn ==
  ASSUME IInv, TurnsKept, NEW l \in Loaders, NEW due \in BOOLEAN,
         onCanceled(l, due)
  PROVE  TurnsKept' /\ InTurn
<1>1. PICK r : r = [source[l] EXCEPT !.load = "idle", !.canceled = FALSE]
  OBVIOUS
<1>2. PICK s : s = Clear(r)
  OBVIOUS
<1>3. IF s.enabled THEN restartFrom(control, l, s, s.reset, due)
                   ELSE Rests(control, l, s)
  BY <1>1, <1>2 DEF onCanceled
<1>4. /\ r \in SourceShape /\ r.enabled = source[l].enabled /\ r.load = "idle"
      /\ r.known = source[l].known
  <2>1. source[l] \in SourceShape
    BY DEF IInv
  <2> QED BY <1>1, <2>1, EndingKeepsRest, Zenon
<1>5. /\ s \in SourceShape /\ s.enabled = source[l].enabled /\ s.load = "idle"
      /\ s.exception = "none" /\ s.known = source[l].known
      /\ s.reset \in Position
  <2>1. s \in SourceShape
    BY <1>2, <1>4, ClearKeepsShape
  <2>2. /\ s.enabled = r.enabled /\ s.load = r.load /\ s.exception = "none"
        /\ s.known = r.known
    BY <1>2, <1>4 DEF Clear, SourceShape
  <2>3. s.reset \in Position
    BY <2>1 DEF SourceShape
  <2> QED BY <1>4, <2>1, <2>2, <2>3
<1>6. Retried(s) /\ ~Fresh(l, s)
  BY <1>5 DEF Retried, Fresh, IsBackedOff
<1>7. CASE ~s.enabled
  <2>1. Rests(control, l, s)
    BY <1>3, <1>7
  <2>2. Told(control, l, s)
    BY <1>7, Zenon DEF Told
  <2> QED BY <1>5, <1>6, <2>1, <2>2, ControlIsExact, RestsInTurn
<1>8. CASE s.enabled
  <2>1. restartFrom(control, l, s, s.reset, due)
    BY <1>3, <1>8
  <2>2. Registered(control, [source EXCEPT ![l] = s])
    BY <1>5, StillRegistered
  <2>3. source[l].known => s.known
    BY <1>5
  <2> QED BY <1>5, <1>6, <2>1, <2>2, <2>3, ControlIsExact, RestartInTurn
<1> QED BY <1>7, <1>8

(* A source whose load has ended asks as one that may start another.       *)
LEMMA IdleInTurn ==
  ASSUME IInv, TurnsKept, NEW l \in Loaders, NEW due \in BOOLEAN,
         NEW s \in SourceShape, s.enabled = source[l].enabled,
         s.load = "idle", s.exception = "error" => s.count # 0,
         source[l].known => s.known,
         updateLoadControl(control, l, s, due)
  PROVE  TurnsKept' /\ InTurn
<1>1. Ready(l, s)
  BY DEF Ready, Retried, isLoading, IsBackedOff
<1> QED BY <1>1, AnswerInTurn

LEMMA LoaderStepInTurn ==
  ASSUME IInv, TurnsKept, NEW l \in Loaders, NEW due \in BOOLEAN,
         LoaderStep(l, due)
  PROVE  TurnsKept' /\ InTurn
<1>0. /\ source[l] \in SourceShape
      /\ isLoading(source[l]) => source[l].exception # "error"
  BY DEF IInv, TurnsKept, Retried, IsBackedOff
<1>1. CASE Open(l)
  <2>1. PICK s : s = [source[l] EXCEPT !.load = "opened", !.opened = TRUE]
    OBVIOUS
  <2>2. source' = [source EXCEPT ![l] = s] /\ control' = control
        /\ isLoading(source[l])
    BY <1>1, <2>1 DEF Open, IInv, isLoading
  <2>3. /\ s \in SourceShape /\ s.enabled = source[l].enabled
        /\ s.load = "opened" /\ s.canceled = source[l].canceled
        /\ s.exception = source[l].exception
        /\ s.next = source[l].next /\ s.reset = source[l].reset
    <3>1. PICK e \in {"idle", "started", "opened"} : e = "opened"
      OBVIOUS
    <3>2. s = [source[l] EXCEPT !.load = e, !.opened = TRUE]
      BY <2>1, <3>1
    <3> QED BY <1>0, <3>1, <3>2 DEF SourceShape
  <2>4. Retried(s) /\ Told(control, l, s)
    BY <1>0, <2>2, <2>3 DEF TurnsKept, Retried, IsBackedOff, Told,
       nextLoadPosition
  <2>5. \A m \in Loaders :
          source'[m] = IF m = l THEN s ELSE source[m]
    BY <2>2 DEF IInv
  <2>6. TurnsKept'
    <3>1. Exact(control')
      BY <2>2 DEF TurnsKept
    <3>2. \A m \in Loaders : Retried(source'[m]) /\ Told(control', m, source'[m])
      BY <2>2, <2>4, <2>5 DEF TurnsKept
    <3> QED BY <3>1, <3>2 DEF TurnsKept, Exact, NextLoads, Retried, isLoading,
               IsBackedOff, Told, nextLoadPosition
  <2>7. \A m \in Loaders : ~Starts(m)
    BY <2>3, <2>5 DEF Starts
  <2> QED BY <2>6, <2>7 DEF InTurn
<1>2. CASE onLoaded(l, due)
  <2>1. PICK s : /\ s = [source[l] EXCEPT !.load = "idle", !.known = TRUE,
                                          !.opened = FALSE, !.count = 0]
                 /\ updateLoadControl(control, l, s, due)
    BY <1>2 DEF onLoaded
  <2>2. /\ s \in SourceShape /\ s.enabled = source[l].enabled /\ s.known
        /\ s.load = "idle" /\ s.exception = source[l].exception
    <3>1. PICK n \in 0..2, e \in {"idle", "started", "opened"} :
            n = 0 /\ e = "idle"
      OBVIOUS
    <3>2. s = [source[l] EXCEPT !.load = e, !.known = TRUE,
                                !.opened = FALSE, !.count = n]
      BY <2>1, <3>1
    <3> QED BY <1>0, <3>1, <3>2 DEF SourceShape
  <2>3. isLoading(source[l])
    BY <1>2 DEF onLoaded, isLoading
  <2> QED BY <1>0, <2>1, <2>2, <2>3, IdleInTurn
<1>3. CASE onLoadedNotParsed(l, due)
  <2>1. PICK s : /\ s = [source[l] EXCEPT !.load = "idle", !.opened = FALSE,
                                          !.exception = "fatal"]
                 /\ updateLoadControl(control, l, s, due)
    BY <1>3 DEF onLoadedNotParsed
  <2>2. /\ s \in SourceShape /\ s.enabled = source[l].enabled
        /\ s.known = source[l].known /\ s.load = "idle" /\ s.exception = "fatal"
    <3>1. PICK x \in {"none", "error", "fatal"},
               e \in {"idle", "started", "opened"} : x = "fatal" /\ e = "idle"
      OBVIOUS
    <3>2. s = [source[l] EXCEPT !.load = e, !.opened = FALSE, !.exception = x]
      BY <2>1, <3>1
    <3> QED BY <1>0, <3>1, <3>2 DEF SourceShape
  <2> QED BY <2>1, <2>2, IdleInTurn
<1>4. CASE onError(l, due)
  <2>1. PICK s : /\ s = [source[l] EXCEPT !.load = "idle", !.exception = "error",
                                          !.count = IF @ = 0 THEN 1 ELSE 2]
                 /\ updateLoadControl(control, l, s, due)
    BY <1>4 DEF onError
  <2>2. /\ s \in SourceShape /\ s.enabled = source[l].enabled
        /\ s.known = source[l].known /\ s.load = "idle" /\ s.count # 0
    <3>1. PICK x \in {"none", "error", "fatal"},
               e \in {"idle", "started", "opened"}, n \in 0..2 :
            /\ x = "error" /\ e = "idle"
            /\ n = IF source[l].count = 0 THEN 1 ELSE 2
      OBVIOUS
    <3>2. s = [source[l] EXCEPT !.load = e, !.exception = x, !.count = n]
      BY <2>1, <3>1
    <3>3. e = "idle" /\ n # 0
      BY <3>1
    <3>4. /\ s \in SourceShape /\ s.enabled = source[l].enabled
          /\ s.known = source[l].known /\ s.load = e /\ s.count = n
      BY <1>0, <3>2 DEF SourceShape
    <3> QED BY <3>3, <3>4
  <2> QED BY <2>1, <2>2, IdleInTurn
<1>5. CASE onCanceled(l, due)
  BY <1>5, OnCanceledInTurn
<1> QED BY <1>1, <1>2, <1>3, <1>4, <1>5 DEF LoaderStep

LEMMA NextInTurn ==
  IInv /\ TurnsKept /\ [Next]_sharedVars => TurnsKept' /\ InTurn
<1> SUFFICES ASSUME IInv, TurnsKept, [Next]_sharedVars
             PROVE  TurnsKept' /\ InTurn
  OBVIOUS
<1>1. ASSUME NEW l \in Loaders, NEW due \in BOOLEAN,
             \/ Enable(l, due) \/ continueBuffering(l, due)
             \/ seekToUs(l, due) \/ LoaderStep(l, due)
      PROVE  TurnsKept' /\ InTurn
  BY <1>1, EnableInTurn, ContinueBufferingInTurn, SeekToInTurn,
     LoaderStepInTurn
<1>2. ASSUME NEW l \in Loaders, Disable(l) \/ readData(l)
      PROVE  TurnsKept' /\ InTurn
  BY <1>2, DisableInTurn, ReadDataInTurn
<1>3. ASSUME \/ Play \/ OthersDownload \/ UNCHANGED sharedVars
             \/ \E time \in SeekTimes : Seek(time)
      PROVE  TurnsKept' /\ InTurn
  <2>1. UNCHANGED <<source, control>>
    BY <1>3 DEF Play, OthersDownload, sharedVars, Seek
  <2> QED BY <2>1, NothingStarts
<1> QED BY <1>1, <1>2, <1>3 DEF Next

LEMMA InitTakesTurns == Init => TurnsKept
<1> SUFFICES ASSUME Init PROVE TurnsKept
  OBVIOUS
<1>1. \A l \in Loaders : source[l] = NewSource
  BY DEF Init
<1>2. Retried(NewSource)
  BY DEF Retried, NewSource, isLoading, IsBackedOff
<1>3. \A l \in Loaders : Told(control, l, NewSource)
  BY DEF Told, NewSource
<1>4. Exact(control)
  BY DEF Init, ControlInit, Exact
<1> QED BY <1>1, <1>2, <1>3, <1>4 DEF TurnsKept

(* Whatever the loaders do, a load is started by nobody who is ahead of    *)
(* where another source needs to go on, and never while the control        *)
(* drains, but for the retries.                                            *)
THEOREM LoadsTakeTurns == Spec => LoadsInTurn
<1>1. Init => IInv /\ TurnsKept
  BY InitKeeps, InitTakesTurns
<1>2. IInv /\ TurnsKept /\ [Next]_sharedVars => (IInv /\ TurnsKept)'
  BY NextKeeps, NextInTurn
<1>3. IInv /\ TurnsKept /\ [Next]_sharedVars
        => [\A l \in Loaders :
              Starts(l) => /\ \A m \in Loaders : ~IsAhead(l, m)
                           /\ control'.fillingBuffers]_sharedVars
  BY NextInTurn DEF InTurn
<1> QED BY <1>1, <1>2, <1>3, PTL DEF Spec, LoadsInTurn

-----------------------------------------------------------------------------
(* Types, with their bounds: queues, restarts and reading stay within the  *)
(* media, because a load starts only where there is something to load.     *)
Within(l, s) ==
  /\ 0 <= s.first /\ s.first <= s.next /\ s.next <= Last(l)
  /\ s.reset \in Times \cup {None} /\ s.read \in Times
  /\ s.downstream \in Times
  /\ s.enabled /\ s.canceled => s.reset # None

LockTyped ==
  /\ queue \in [Priorities -> 0..1]
  /\ download \in {"absent", "asking", "waiting", "proceeding"}
  /\ queue[DOWNLOAD_PRIORITY] = IF download = "absent" THEN 0 ELSE 1

Typed ==
  /\ \A l \in Loaders : Within(l, source[l])
  /\ control.maxLoadStartPosition \in Position
  /\ LockTyped
  /\ position \in Times /\ seeking \subseteq Loaders

LEMMA MediaIsChunks ==
  ASSUME NEW l \in Loaders
  PROVE  /\ Duration[l] \in Nat \ {0} /\ EndTime \in Nat \ {0}
         /\ Last(l) \in Nat /\ 1 <= Last(l) /\ Last(l) <= EndTime
         /\ Last(l) * Duration[l] = EndTime
<1>1. /\ Duration[l] \in Nat \ {0} /\ EndTime \in Nat \ {0}
      /\ EndTime % Duration[l] = 0
  BY SharedLoadingAssumption
<1>2. \A a \in Nat \ {0}, b \in Nat \ {0} : a % b = 0 =>
        /\ a \div b \in Nat /\ (a \div b) * b = a /\ 1 <= a \div b
        /\ a \div b <= a
  <2>1. SUFFICES ASSUME NEW a \in Nat \ {0}, NEW b \in Nat \ {0}, a % b = 0
                 PROVE  /\ a \div b \in Nat /\ (a \div b) * b = a
                        /\ 1 <= a \div b /\ a \div b <= a
    OBVIOUS
  <2>2. PICK q : q = a \div b
    OBVIOUS
  <2>3. q \in Nat /\ q * b = a
    BY <2>1, <2>2
  <2>4. q # 0
    BY <2>3
  <2>5. q <= q * b
    BY <2>3
  <2> QED BY <2>2, <2>3, <2>4, <2>5
<1> QED BY <1>1, <1>2 DEF Last

LEMMA ChunkIsWithin ==
  ASSUME NEW l \in Loaders, NEW time \in Times
  PROVE  /\ ChunkAt(l, time) \in Nat /\ ChunkAt(l, time) + 1 <= Last(l)
<1>1. /\ Duration[l] \in Nat \ {0} /\ EndTime \in Nat \ {0}
      /\ Last(l) \in Nat /\ 1 <= Last(l) /\ Last(l) * Duration[l] = EndTime
  BY MediaIsChunks
<1>2. CASE time = EndTime
  BY <1>1, <1>2 DEF ChunkAt
<1>3. CASE time # EndTime
  <2>1. time \in Nat /\ time < EndTime
    BY <1>1, <1>3 DEF Times
  <2>2. \A a \in Nat, b \in Nat \ {0} : (a \div b) * b <= a /\ a \div b \in Nat
    OBVIOUS
  <2>3. PICK q \in Nat : q = time \div Duration[l] /\ q * Duration[l] <= time
    BY <1>1, <2>1, <2>2
  <2>4. PICK n \in Nat, d \in Nat \ {0} : n = Last(l) /\ d = Duration[l]
    BY <1>1
  <2>5. q * d < n * d
    BY <1>1, <2>1, <2>3, <2>4
  <2>6. \A a \in Nat, b \in Nat, e \in Nat \ {0} : b <= a => b * e <= a * e
    OBVIOUS
  <2>7. ~(n <= q)
    BY <2>5, <2>6
  <2>8. q + 1 <= n
    BY <2>4, <2>7
  <2>9. ChunkAt(l, time) = q
    BY <1>3, <2>3 DEF ChunkAt
  <2> QED BY <2>4, <2>8, <2>9
<1> QED BY <1>2, <1>3

LEMMA ProceedsWithin ==
  ASSUME NEW l \in Loaders, NEW s \in SourceShape, Within(l, s),
         NEW next \in BOOLEAN, next => nextLoadPosition(l, s) # -1,
         NEW due \in BOOLEAN,
         NEW t, t = Proceeds(l, s, next, due)
  PROVE  Within(l, t)
<1>0. s.first \in Int /\ s.next \in Nat /\ Last(l) \in Nat
  BY MediaIsChunks DEF SourceShape
<1>1. CASE t = s
  BY <1>1
<1>2. CASE t = resumeFromBackOff(s)
  <2>1. /\ t.first = s.first /\ t.next = s.next /\ t.reset = s.reset
        /\ t.read = s.read /\ t.downstream = s.downstream /\ ~t.canceled
    BY <1>2 DEF resumeFromBackOff, SourceShape
  <2> QED BY <2>1 DEF Within
<1>3. CASE next /\ t = maybeStartLoading(l, s)
  <2> DEFINE r == [s EXCEPT !.load = "started", !.opened = FALSE,
                            !.canceled = FALSE]
  <2>1. /\ r \in SourceShape /\ r.first = s.first /\ r.next = s.next
        /\ r.reset = s.reset /\ r.read = s.read
        /\ r.downstream = s.downstream /\ ~r.canceled
    BY DEF SourceShape
  <2>2. PICK chunk : chunk = ChunkAt(l, s.reset)
    OBVIOUS
  <2>3. t = IF ~s.known THEN r
            ELSE IF s.reset = None
                 THEN [r EXCEPT !.next = @ + 1]
                 ELSE [r EXCEPT !.first = chunk, !.next = chunk + 1,
                                !.read = s.reset, !.reset = None]
    BY <1>3, <2>2 DEF maybeStartLoading
  <2> HIDE DEF r
  <2>4. CASE ~s.known
    BY <2>1, <2>3, <2>4 DEF Within
  <2>5. CASE s.known /\ s.reset = None
    <3>1. t = [r EXCEPT !.next = @ + 1]
      BY <2>3, <2>5, Zenon
    <3>2. /\ t.first = s.first /\ t.next = s.next + 1 /\ t.reset = s.reset
          /\ t.read = s.read /\ t.downstream = s.downstream /\ ~t.canceled
      BY <2>1, <3>1 DEF SourceShape
    <3>3. nextLoadPosition(l, s) # -1
      BY <1>3, Zenon
    <3>4. s.next # Last(l)
      BY <2>5, <3>3 DEF nextLoadPosition
    <3> QED BY <1>0, <3>2, <3>4 DEF Within
  <2>6. CASE s.known /\ s.reset # None
    <3>1. t = [r EXCEPT !.first = chunk, !.next = chunk + 1,
                        !.read = s.reset, !.reset = None]
      BY <2>3, <2>6, Zenon
    <3>2. /\ t.first = chunk /\ t.next = chunk + 1 /\ t.reset = None
          /\ t.read = s.reset /\ t.downstream = s.downstream /\ ~t.canceled
      BY <2>1, <3>1 DEF SourceShape
    <3>3. s.reset \in Times
      BY <2>6 DEF Within
    <3>4. chunk \in Nat /\ chunk + 1 <= Last(l)
      BY <2>2, <3>3, ChunkIsWithin
    <3> QED BY <3>2, <3>3, <3>4 DEF Within
  <2> QED BY <2>4, <2>5, <2>6
<1>4. \/ t = s \/ t = resumeFromBackOff(s)
      \/ next /\ t = maybeStartLoading(l, s)
  <2>1. CASE IsBackedOff(s)
    BY <2>1 DEF Proceeds
  <2>2. CASE ~IsBackedOff(s)
    BY <2>2 DEF Proceeds
  <2> QED BY <2>1, <2>2
<1> QED BY <1>1, <1>2, <1>3, <1>4

(* The control knows positions only, or none.                              *)
LEMMA UpdateStateTyped ==
  ASSUME NEW c, IsControl(c)
  PROVE  updateControlState(c).maxLoadStartPosition \in Position
<1> DEFINE u == updateControlState(c)
           f == IsFilling(c)
           p == HoldsPriority(c, f)
           m == IF f THEN Min(NextLoads(c)) ELSE -1
<1>1. u = [c EXCEPT !.fillingBuffers = f, !.streamingPrioritySet = p,
                    !.maxLoadStartPosition = m]
  BY DEF updateControlState
<1>2. m \in Position
  <2>1. CASE f
    <3>1. NextLoads(c) # {} /\ NextLoads(c) \in SUBSET Nat
      BY <2>1, NextLoadsAreNat DEF IsFilling
    <3>2. Min(NextLoads(c)) \in Nat
      BY <3>1, MinIsLeast
    <3> QED BY <2>1, <3>2 DEF Position
  <2>2. CASE ~f
    BY <2>2 DEF Position
  <2> QED BY <2>1, <2>2
<1>3. u.maxLoadStartPosition = m
  <2> HIDE DEF u, f, p, m
  <2> QED BY <1>1 DEF IsControl, ControlShape
<1> QED BY <1>2, <1>3

LEMMA UnregisterTyped ==
  ASSUME NEW c, IsControl(c), NEW l \in Loaders
  PROVE  unregister(c, l).maxLoadStartPosition \in Position
<1> DEFINE d == [c EXCEPT !.loaders = @ \ {l},
                          !.loaderStates[l] = NewLoaderState]
<1>1. NewLoaderState \in LoaderShape
  BY DEF NewLoaderState, LoaderShape, Position, BufferStates,
         ABOVE_HIGH_WATERMARK
<1>2. IsControl(d)
  BY <1>1 DEF IsControl, ControlShape
<1>3. unregister(c, l) = updateControlState(d)
  BY DEF unregister
<1> HIDE DEF d
<1> QED BY <1>2, <1>3, UpdateStateTyped

LEMMA UpdateTyped ==
  ASSUME NEW c, IsControl(c), c.maxLoadStartPosition \in Position,
         NEW l \in Loaders, NEW playback \in Nat, NEW nextLoad \in Position,
         NEW isLoad \in BOOLEAN, NEW hasFailed \in BOOLEAN, NEW allocated,
         NEW u, u = update(c, l, playback, nextLoad, isLoad, hasFailed, allocated)
  PROVE  u.maxLoadStartPosition \in Position
<1> DEFINE n == [bufferState |-> getLoaderBufferState(playback, nextLoad),
                 nextLoadPosition |-> nextLoad,
                 loading |-> isLoad, failed |-> hasFailed]
           pool == getBufferPoolState(allocated, targetBufferSize(c))
           d == [c EXCEPT !.loaderStates[l] = n, !.bufferPoolState = pool]
<1>1. n \in LoaderShape
  BY DEF LoaderShape, BufferStates, getLoaderBufferState, ABOVE_HIGH_WATERMARK,
         BELOW_LOW_WATERMARK, BETWEEN_WATERMARKS
<1>2. pool \in BufferStates
  BY DEF BufferStates, getBufferPoolState, ABOVE_HIGH_WATERMARK,
         BELOW_LOW_WATERMARK, BETWEEN_WATERMARKS
<1>3. u = IF d = c THEN c ELSE updateControlState(d)
  BY DEF update
<1> HIDE DEF n, pool
<1>4. IsControl(d)
  BY <1>1, <1>2 DEF IsControl, ControlShape
<1> HIDE DEF d
<1> QED BY <1>3, <1>4, UpdateStateTyped

LEMMA LockStaysTyped ==
  ASSUME IInv, LockTyped, IInv', NEW c, Becomes(c)
  PROVE  LockTyped'
<1>1. queue'[STREAMING_PRIORITY] \in 0..1 /\ queue' \in [Priorities -> Nat]
  BY DEF IInv, LockIsRight, PriorityIsRegistered
<1>2. \/ queue' = Added(queue, STREAMING_PRIORITY) /\ download' = download
      \/ /\ queue' = Removed(queue, STREAMING_PRIORITY)
         /\ download' = Notified(download)
      \/ queue' = queue /\ download' = download
  BY DEF Becomes, add, remove, lockVars
<1>3. /\ queue'[DOWNLOAD_PRIORITY] = queue[DOWNLOAD_PRIORITY]
      /\ \/ download' = download
         \/ download = "waiting" /\ download' = "asking"
  BY <1>2 DEF LockTyped, Added, Removed, Notified, Priorities,
     STREAMING_PRIORITY, DOWNLOAD_PRIORITY
<1>4. /\ queue'[DOWNLOAD_PRIORITY] = IF download' = "absent" THEN 0 ELSE 1
      /\ download' \in {"absent", "asking", "waiting", "proceeding"}
  BY <1>3 DEF LockTyped
<1> QED BY <1>1, <1>4 DEF LockTyped, Priorities

LEMMA RestsTyped ==
  ASSUME IInv, Typed, IInv', position' \in Times, seeking' \subseteq Loaders,
         NEW l \in Loaders, NEW c, c.maxLoadStartPosition \in Position,
         NEW t, Within(l, t), Rests(c, l, t)
  PROVE  Typed'
<1>1. control' = c /\ source' = [source EXCEPT ![l] = t] /\ Becomes(c)
  BY DEF Rests, Becomes
<1>2. LockTyped'
  BY <1>1, LockStaysTyped DEF Typed
<1>3. ASSUME NEW m \in Loaders PROVE Within(m, source'[m])
  BY <1>1, <1>3 DEF IInv, Typed
<1>4. \A m \in Loaders : Within(m, source[m])'
  BY <1>3 DEF Within, Last
<1> QED BY <1>1, <1>2, <1>4 DEF Typed

LEMMA UpdateStaysTyped ==
  ASSUME IInv, Typed, IInv', position' \in Times, seeking' \subseteq Loaders,
         NEW l \in Loaders,
         NEW c, IsControl(c), c.maxLoadStartPosition \in Position,
         NEW s \in SourceShape, Within(l, s), NEW due \in BOOLEAN,
         updateLoadControl(c, l, s, due)
  PROVE  Typed'
<1> DEFINE isLoad == IsBackedOff(s) \/ isLoading(s)
           hasFailed == s.exception = "fatal"
<1>1. PICK allocated \in {getAllocatedSize([source EXCEPT ![l] = s])},
           nextLoad \in {nextLoadPosition(l, s)} :
        \E d \in {update(c, l, s.downstream, nextLoad, isLoad, hasFailed,
                         allocated)} :
          Rests(d, l, Proceeds(l, s, mayLoad(d, nextLoad, allocated), due))
  BY Zenon DEF updateLoadControl
<1>2. PICK d \in {update(c, l, s.downstream, nextLoad, isLoad, hasFailed,
                         allocated)} :
        Rests(d, l, Proceeds(l, s, mayLoad(d, nextLoad, allocated), due))
  BY <1>1, Zenon
<1>3. d.maxLoadStartPosition \in Position
  <2>1. /\ nextLoad \in Position /\ s.downstream \in Nat
        /\ isLoad \in BOOLEAN /\ hasFailed \in BOOLEAN
    BY NextLoadIsPosition DEF SourceShape
  <2> HIDE DEF isLoad, hasFailed
  <2> QED BY <2>1, UpdateTyped
<1>4. PICK next \in BOOLEAN : next = mayLoad(d, nextLoad, allocated)
  BY DEF mayLoad
<1>5. PICK t : t = Proceeds(l, s, next, due)
  OBVIOUS
<1>6. Rests(d, l, t)
  BY <1>2, <1>4, <1>5
<1>7. Within(l, t)
  <2>1. next => nextLoadPosition(l, s) # -1
    BY <1>4 DEF mayLoad
  <2> QED BY <1>5, <2>1, ProceedsWithin
<1> QED BY <1>3, <1>6, <1>7, RestsTyped

LEMMA ClearIsWithin ==
  ASSUME NEW l \in Loaders, NEW s \in SourceShape,
         s.reset \in Times \cup {None}, s.read \in Times, s.downstream \in Times,
         s.enabled /\ s.canceled => s.reset # None
  PROVE  Clear(s) \in SourceShape /\ Within(l, Clear(s))
<1>1. Clear(s) \in SourceShape
  BY ClearKeepsShape
<1>2. /\ Clear(s).first = 0 /\ Clear(s).next = 0 /\ Clear(s).reset = s.reset
      /\ Clear(s).read = s.read /\ Clear(s).downstream = s.downstream
      /\ Clear(s).enabled = s.enabled /\ Clear(s).canceled = s.canceled
  BY DEF Clear, SourceShape
<1>3. 0 <= Last(l)
  BY MediaIsChunks
<1> QED BY <1>1, <1>2, <1>3 DEF Within

LEMMA RestartStaysTyped ==
  ASSUME IInv, Typed, IInv', position' \in Times, seeking' \subseteq Loaders,
         NEW l \in Loaders,
         NEW c, IsControl(c), c.maxLoadStartPosition \in Position,
         NEW s \in SourceShape, NEW time \in Times, NEW due \in BOOLEAN,
         0 <= s.first, s.first <= s.next, s.next <= Last(l),
         s.downstream \in Times,
         restartFrom(c, l, s, time, due)
  PROVE  Typed'
<1> DEFINE t == [s EXCEPT !.reset = time, !.read = time]
           u == [t EXCEPT !.canceled = TRUE]
<1>0. time \in Int /\ time \in Position /\ time # None
  BY SharedLoadingAssumption DEF Times, Position, None
<1>1. /\ t \in SourceShape /\ t.first = s.first /\ t.next = s.next
      /\ t.reset = time /\ t.read = time /\ t.downstream = s.downstream
  BY <1>0 DEF SourceShape
<1>2. CASE isLoading(t)
  <2>1. Rests(c, l, u)
    BY <1>2 DEF restartFrom
  <2> HIDE DEF t
  <2>2. /\ u.first = s.first /\ u.next = s.next
        /\ u.reset = time /\ u.read = time /\ u.downstream = s.downstream
    BY <1>1 DEF SourceShape
  <2> HIDE DEF u
  <2>3. Within(l, u)
    BY <1>0, <2>2 DEF Within
  <2> QED BY <2>1, <2>3, RestsTyped
<1>3. CASE ~isLoading(t)
  <2>1. updateLoadControl(c, l, Clear(t), due)
    BY <1>3 DEF restartFrom
  <2> HIDE DEF t
  <2>2. Clear(t) \in SourceShape /\ Within(l, Clear(t))
    BY <1>0, <1>1, ClearIsWithin
  <2> QED BY <2>1, <2>2, UpdateStaysTyped
<1> QED BY <1>2, <1>3

-----------------------------------------------------------------------------
(* The actions.                                                            *)

LEMMA SourceIsWithin ==
  ASSUME IInv, Typed, NEW l \in Loaders
  PROVE  /\ source[l] \in SourceShape /\ Within(l, source[l])
         /\ source[l].first \in Int /\ source[l].next \in Nat
         /\ IsControl(control) /\ control.maxLoadStartPosition \in Position
         /\ position \in Times /\ position \in Nat /\ position \in Int
         /\ seeking \subseteq Loaders
BY DEF IInv, Typed, SourceShape

LEMMA EnableStaysTyped ==
  ASSUME IInv, Typed, IInv', NEW l \in Loaders, NEW due \in BOOLEAN,
         Enable(l, due)
  PROVE  Typed'
<1>1. PICK s : s = [source[l] EXCEPT !.enabled = TRUE, !.downstream = position]
  OBVIOUS
<1>2. PICK c : c = register(control, l)
  OBVIOUS
<1>3. /\ restartFrom(c, l, s, position, due) /\ ~source[l].enabled
      /\ position' \in Times /\ seeking' \subseteq Loaders
  BY <1>1, <1>2 DEF Enable, Undisturbed, Typed
<1>4. /\ s \in SourceShape /\ s.first = source[l].first
      /\ s.next = source[l].next /\ s.downstream = position
  BY <1>1, SourceIsWithin DEF SourceShape
<1>5. /\ 0 <= s.first /\ s.first <= s.next /\ s.next <= Last(l)
      /\ s.downstream \in Times
  BY <1>4, SourceIsWithin DEF Within
<1>6. IsControl(c)
  <2>1. l \notin control.loaders
    BY <1>3 DEF IInv, Registered
  <2> QED BY <1>2, <2>1, RegisterExplained DEF IInv
<1>7. c.maxLoadStartPosition \in Position
  BY <1>2, SourceIsWithin DEF register, IsControl, ControlShape
<1> QED BY <1>3, <1>4, <1>5, <1>6, <1>7, SourceIsWithin, RestartStaysTyped

LEMMA DisableStaysTyped ==
  ASSUME IInv, Typed, IInv', NEW l \in Loaders, Disable(l)
  PROVE  Typed'
<1>1. PICK s : s = [source[l] EXCEPT !.enabled = FALSE]
  OBVIOUS
<1>2. PICK r : r = [s EXCEPT !.canceled = TRUE]
  OBVIOUS
<1>3. PICK c : c = unregister(control, l)
  OBVIOUS
<1>4. /\ Rests(c, l, IF isLoading(s) THEN r ELSE Clear(s))
      /\ position' \in Times /\ seeking' \subseteq Loaders
  BY <1>1, <1>2, <1>3 DEF Disable, Undisturbed, Typed
<1>5. /\ s \in SourceShape /\ ~s.enabled
      /\ s.first = source[l].first /\ s.next = source[l].next
      /\ s.reset = source[l].reset /\ s.read = source[l].read
      /\ s.downstream = source[l].downstream
  BY <1>1, SourceIsWithin, ZenonT(30) DEF SourceShape
<1>6. Within(l, s)
  BY <1>5, SourceIsWithin DEF Within
<1>7. Within(l, r)
  <2>1. /\ ~r.enabled /\ r.first = s.first /\ r.next = s.next
        /\ r.reset = s.reset /\ r.read = s.read
        /\ r.downstream = s.downstream
    BY <1>2, <1>5 DEF SourceShape
  <2> QED BY <1>6, <2>1 DEF Within
<1>8. Within(l, Clear(s))
  <2>1. /\ s.reset \in Times \cup {None} /\ s.read \in Times
        /\ s.downstream \in Times
    BY <1>6 DEF Within
  <2> QED BY <1>5, <2>1, ClearIsWithin
<1>9. c.maxLoadStartPosition \in Position
  BY <1>3, SourceIsWithin, UnregisterTyped
<1> QED BY <1>4, <1>7, <1>8, <1>9, RestsTyped

LEMMA ContinueBufferingStaysTyped ==
  ASSUME IInv, Typed, IInv', NEW l \in Loaders, NEW due \in BOOLEAN,
         continueBuffering(l, due)
  PROVE  Typed'
<1>1. PICK s : s = [source[l] EXCEPT !.downstream = position]
  OBVIOUS
<1>2. /\ updateLoadControl(control, l, s, due)
      /\ position' \in Times /\ seeking' \subseteq Loaders
  BY <1>1 DEF continueBuffering, Undisturbed, Typed
<1>3. /\ s \in SourceShape /\ s.downstream = position
      /\ s.enabled = source[l].enabled /\ s.canceled = source[l].canceled
      /\ s.first = source[l].first /\ s.next = source[l].next
      /\ s.reset = source[l].reset /\ s.read = source[l].read
  BY <1>1, SourceIsWithin DEF SourceShape
<1>4. Within(l, s)
  BY <1>3, SourceIsWithin DEF Within
<1> QED BY <1>2, <1>3, <1>4, SourceIsWithin, UpdateStaysTyped

LEMMA SeekToStaysTyped ==
  ASSUME IInv, Typed, IInv', NEW l \in Loaders, NEW due \in BOOLEAN,
         seekToUs(l, due)
  PROVE  Typed'
<1>1. PICK s : s = [source[l] EXCEPT !.downstream = position]
  OBVIOUS
<1>2. PICK chunk : chunk = ChunkAt(l, position)
  OBVIOUS
<1>3. /\ \/ Rests(control, l, s)
         \/ /\ chunk \in s.first..s.next - 1
            /\ updateLoadControl(control, l,
                 [s EXCEPT !.first = chunk, !.read = position], due)
         \/ restartFrom(control, l, s, position, due)
      /\ position' \in Times /\ seeking' \subseteq Loaders
  BY <1>1, <1>2 DEF seekToUs, Typed
<1>4. /\ s \in SourceShape /\ s.downstream = position
      /\ s.enabled = source[l].enabled /\ s.canceled = source[l].canceled
      /\ s.first = source[l].first /\ s.next = source[l].next
      /\ s.reset = source[l].reset /\ s.read = source[l].read
  BY <1>1, SourceIsWithin DEF SourceShape
<1>5. Within(l, s)
  BY <1>4, SourceIsWithin DEF Within
<1>6. chunk \in Int
  BY <1>2, SourceIsWithin, ChunkIsThere
<1>7. CASE Rests(control, l, s)
  BY <1>3, <1>5, <1>7, SourceIsWithin, RestsTyped
<1>8. CASE /\ chunk \in s.first..s.next - 1
           /\ updateLoadControl(control, l,
                [s EXCEPT !.first = chunk, !.read = position], due)
  <2>1. PICK t : t = [s EXCEPT !.first = chunk, !.read = position]
    OBVIOUS
  <2>2. /\ t \in SourceShape /\ t.first = chunk /\ t.read = position
        /\ t.enabled = s.enabled /\ t.canceled = s.canceled
        /\ t.next = s.next /\ t.reset = s.reset /\ t.downstream = s.downstream
    BY <1>4, <1>6, <2>1, SourceIsWithin DEF SourceShape
  <2>3. 0 <= t.first /\ t.first <= t.next /\ t.next <= Last(l)
    BY <1>4, <1>5, <1>6, <1>8, <2>2, SourceIsWithin DEF Within
  <2>4. Within(l, t)
    BY <1>5, <2>2, <2>3, SourceIsWithin DEF Within
  <2> QED BY <1>3, <1>8, <2>1, <2>2, <2>4, SourceIsWithin, UpdateStaysTyped
<1>9. CASE restartFrom(control, l, s, position, due)
  <2>1. /\ 0 <= s.first /\ s.first <= s.next /\ s.next <= Last(l)
        /\ s.downstream \in Times
    BY <1>5 DEF Within
  <2> QED BY <1>3, <1>4, <1>9, <2>1, SourceIsWithin, RestartStaysTyped
<1> QED BY <1>3, <1>7, <1>8, <1>9

LEMMA AvailableIsWithin ==
  ASSUME NEW l \in Loaders, NEW s \in SourceShape, Within(l, s), Available(l, s)
  PROVE  s.read + 1 \in Times
<1>1. /\ Duration[l] \in Nat \ {0} /\ EndTime \in Nat
      /\ Last(l) \in Nat /\ Last(l) * Duration[l] = EndTime
      /\ s.next \in Nat /\ s.next <= Last(l) /\ s.read \in 0..EndTime
  BY MediaIsChunks DEF SourceShape, Within, Times
<1>2. PICK x \in 0..1 : s.read < (s.next - x) * Duration[l]
  BY DEF Available
<1>3. PICK n \in Int : n = s.next - x /\ n <= Last(l)
  BY <1>1
<1>4. \A a \in Int, b \in Nat, d \in Nat : a <= b => a * d <= b * d
  OBVIOUS
<1>5. n * Duration[l] <= EndTime /\ s.read < n * Duration[l]
      /\ n * Duration[l] \in Int
  BY <1>1, <1>2, <1>3, <1>4
<1> QED BY <1>1, <1>5 DEF Times

LEMMA ReadDataStaysTyped ==
  ASSUME IInv, Typed, IInv', NEW l \in Loaders, readData(l)
  PROVE  Typed'
<1>1. PICK s : s = [source[l] EXCEPT !.downstream = position]
  OBVIOUS
<1>2. PICK f : f = IF s.read = (s.first + 1) * Duration[l]
                      /\ s.next > s.first + 1
                   THEN s.first + 1 ELSE s.first
  OBVIOUS
<1>3. PICK t : t = [s EXCEPT !.first = f]
  OBVIOUS
<1>4. PICK u : u = [t EXCEPT !.read = @ + 1]
  OBVIOUS
<1>5. /\ Rests(control, l, IF s.reset # None THEN s
                           ELSE IF Available(l, t) THEN u ELSE t)
      /\ position' \in Times /\ seeking' \subseteq Loaders
  BY <1>1, <1>2, <1>3, <1>4 DEF readData, Undisturbed, Typed
<1>6. /\ s \in SourceShape /\ s.downstream = position
      /\ s.enabled = source[l].enabled /\ s.canceled = source[l].canceled
      /\ s.first = source[l].first /\ s.next = source[l].next
      /\ s.reset = source[l].reset /\ s.read = source[l].read
  BY <1>1, SourceIsWithin DEF SourceShape
<1>7. Within(l, s)
  BY <1>6, SourceIsWithin DEF Within
<1>8. f \in Int /\ 0 <= f /\ f <= s.next
  BY <1>2, <1>6, <1>7, SourceIsWithin DEF Within
<1>9. /\ t \in SourceShape /\ t.first = f /\ t.next = s.next
      /\ t.enabled = s.enabled /\ t.canceled = s.canceled
      /\ t.reset = s.reset /\ t.read = s.read /\ t.downstream = s.downstream
  BY <1>3, <1>6, <1>8 DEF SourceShape
<1>10. Within(l, t)
  BY <1>7, <1>8, <1>9 DEF Within
<1>11. /\ u.first = t.first /\ u.next = t.next /\ u.read = t.read + 1
       /\ u.enabled = t.enabled /\ u.canceled = t.canceled
       /\ u.reset = t.reset /\ u.downstream = t.downstream
  BY <1>4, <1>9 DEF SourceShape
<1>12. ASSUME Available(l, t) PROVE Within(l, u)
  <2>1. t.read + 1 \in Times
    BY <1>9, <1>10, <1>12, AvailableIsWithin
  <2> QED BY <1>10, <1>11, <2>1 DEF Within
<1>13. PICK r : /\ r = IF s.reset # None THEN s
                       ELSE IF Available(l, t) THEN u ELSE t
                /\ Within(l, r)
  BY <1>7, <1>10, <1>12
<1> QED BY <1>5, <1>13, SourceIsWithin, RestsTyped

LEMMA OnCanceledStaysTyped ==
  ASSUME IInv, Typed, IInv', NEW l \in Loaders, NEW due \in BOOLEAN,
         onCanceled(l, due)
  PROVE  Typed'
<1>1. PICK r : r = [source[l] EXCEPT !.load = "idle", !.canceled = FALSE]
  OBVIOUS
<1>2. PICK s : s = Clear(r)
  OBVIOUS
<1>3. /\ IF s.enabled THEN restartFrom(control, l, s, s.reset, due)
                      ELSE Rests(control, l, s)
      /\ source[l].canceled /\ position' \in Times /\ seeking' \subseteq Loaders
  BY <1>1, <1>2 DEF onCanceled, Undisturbed, Typed
<1>4. /\ r \in SourceShape /\ r.enabled = source[l].enabled /\ ~r.canceled
      /\ r.reset = source[l].reset /\ r.read = source[l].read
      /\ r.downstream = source[l].downstream
  <2>1. PICK e \in {"idle", "started", "opened"} : e = "idle"
    OBVIOUS
  <2>2. r = [source[l] EXCEPT !.load = e, !.canceled = FALSE]
    BY <1>1, <2>1
  <2>3. source[l] \in SourceShape
    BY SourceIsWithin
  <2>4. /\ r \in SourceShape /\ r.enabled = source[l].enabled
        /\ r.reset = source[l].reset /\ r.read = source[l].read
        /\ r.downstream = source[l].downstream
    BY <2>2, <2>3 DEF SourceShape
  <2>5. ~r.canceled
    BY <2>2, <2>3, ZenonT(30) DEF SourceShape
  <2> QED BY <2>4, <2>5
<1>5. /\ r.reset \in Times \cup {None} /\ r.read \in Times
      /\ r.downstream \in Times /\ (r.enabled => r.reset # None)
  BY <1>3, <1>4, SourceIsWithin DEF Within
<1>6. s \in SourceShape /\ Within(l, s)
  BY <1>2, <1>4, <1>5, ClearIsWithin
<1>7. s.enabled = r.enabled /\ s.reset = r.reset
  BY <1>2, <1>4 DEF Clear, SourceShape
<1>8. CASE ~s.enabled
  <2>1. Rests(control, l, s)
    BY <1>3, <1>8
  <2> QED BY <1>3, <1>6, <2>1, SourceIsWithin, RestsTyped
<1>9. CASE s.enabled
  <2>1. restartFrom(control, l, s, s.reset, due)
    BY <1>3, <1>9
  <2>2. s.reset \in Times
    BY <1>5, <1>7, <1>9
  <2>3. /\ 0 <= s.first /\ s.first <= s.next /\ s.next <= Last(l)
        /\ s.downstream \in Times
    BY <1>6 DEF Within
  <2> QED BY <1>3, <1>6, <2>1, <2>2, <2>3, SourceIsWithin, RestartStaysTyped
<1> QED BY <1>8, <1>9

(* Answers of the loader leave the queue alone.                            *)
LEMMA AnswerStaysTyped ==
  ASSUME IInv, Typed, IInv', NEW l \in Loaders, NEW due \in BOOLEAN,
         NEW s \in SourceShape, Undisturbed,
         s.enabled = source[l].enabled, s.canceled = source[l].canceled,
         s.first = source[l].first, s.next = source[l].next,
         s.reset = source[l].reset, s.read = source[l].read,
         s.downstream = source[l].downstream,
         updateLoadControl(control, l, s, due)
  PROVE  Typed'
<1>1. Within(l, s)
  BY SourceIsWithin DEF Within
<1>2. position' \in Times /\ seeking' \subseteq Loaders
  BY SourceIsWithin DEF Undisturbed
<1> QED BY <1>1, <1>2, SourceIsWithin, UpdateStaysTyped

LEMMA LoaderStepStaysTyped ==
  ASSUME IInv, Typed, IInv', NEW l \in Loaders, NEW due \in BOOLEAN,
         LoaderStep(l, due)
  PROVE  Typed'
<1>0. source[l] \in SourceShape
  BY DEF IInv
<1>1. CASE Open(l)
  <2>1. PICK s : s = [source[l] EXCEPT !.load = "opened", !.opened = TRUE]
    OBVIOUS
  <2>2. /\ source' = [source EXCEPT ![l] = s]
        /\ UNCHANGED <<control, queue, download, position, seeking>>
    BY <1>1, <2>1 DEF Open, IInv, lockVars
  <2>3. /\ s.enabled = source[l].enabled /\ s.canceled = source[l].canceled
        /\ s.first = source[l].first /\ s.next = source[l].next
        /\ s.reset = source[l].reset /\ s.read = source[l].read
        /\ s.downstream = source[l].downstream
    BY <1>0, <2>1 DEF SourceShape
  <2>4. Within(l, s)
    BY <2>3, SourceIsWithin DEF Within
  <2>5. \A m \in Loaders : Within(m, source'[m])
    BY <2>2, <2>4 DEF IInv, Typed
  <2> QED BY <2>2, <2>5 DEF Typed, Within, Last, LockTyped
<1>2. CASE onLoaded(l, due)
  <2>1. PICK s : /\ s = [source[l] EXCEPT !.load = "idle", !.known = TRUE,
                                          !.opened = FALSE, !.count = 0]
                 /\ updateLoadControl(control, l, s, due)
    BY <1>2 DEF onLoaded
  <2>2. /\ s \in SourceShape
        /\ s.enabled = source[l].enabled /\ s.canceled = source[l].canceled
        /\ s.first = source[l].first /\ s.next = source[l].next
        /\ s.reset = source[l].reset /\ s.read = source[l].read
        /\ s.downstream = source[l].downstream
    <3>1. PICK n \in 0..2 : n = 0
      OBVIOUS
    <3>2. s = [source[l] EXCEPT !.load = "idle", !.known = TRUE,
                                !.opened = FALSE, !.count = n]
      BY <2>1, <3>1
    <3> QED BY <1>0, <3>2 DEF SourceShape
  <2>3. Undisturbed
    BY <1>2 DEF onLoaded
  <2> QED BY <2>1, <2>2, <2>3, AnswerStaysTyped
<1>3. CASE onLoadedNotParsed(l, due)
  <2>1. PICK s : /\ s = [source[l] EXCEPT !.load = "idle", !.opened = FALSE,
                                          !.exception = "fatal"]
                 /\ updateLoadControl(control, l, s, due)
    BY <1>3 DEF onLoadedNotParsed
  <2>2. /\ s \in SourceShape
        /\ s.enabled = source[l].enabled /\ s.canceled = source[l].canceled
        /\ s.first = source[l].first /\ s.next = source[l].next
        /\ s.reset = source[l].reset /\ s.read = source[l].read
        /\ s.downstream = source[l].downstream
    <3>1. PICK e \in {"none", "error", "fatal"} : e = "fatal"
      OBVIOUS
    <3>2. s = [source[l] EXCEPT !.load = "idle", !.opened = FALSE,
                                !.exception = e]
      BY <2>1, <3>1
    <3> QED BY <1>0, <3>2 DEF SourceShape
  <2>3. Undisturbed
    BY <1>3 DEF onLoadedNotParsed
  <2> QED BY <2>1, <2>2, <2>3, AnswerStaysTyped
<1>4. CASE onError(l, due)
  <2>1. PICK s : /\ s = [source[l] EXCEPT !.load = "idle", !.exception = "error",
                                          !.count = IF @ = 0 THEN 1 ELSE 2]
                 /\ updateLoadControl(control, l, s, due)
    BY <1>4 DEF onError
  <2>2. /\ s \in SourceShape
        /\ s.enabled = source[l].enabled /\ s.canceled = source[l].canceled
        /\ s.first = source[l].first /\ s.next = source[l].next
        /\ s.reset = source[l].reset /\ s.read = source[l].read
        /\ s.downstream = source[l].downstream
    <3>1. PICK e \in {"none", "error", "fatal"}, n \in 0..2 :
            e = "error" /\ n = IF source[l].count = 0 THEN 1 ELSE 2
      OBVIOUS
    <3>2. s = [source[l] EXCEPT !.load = "idle", !.exception = e, !.count = n]
      BY <2>1, <3>1
    <3> QED BY <1>0, <3>2 DEF SourceShape
  <2>3. Undisturbed
    BY <1>4 DEF onError
  <2> QED BY <2>1, <2>2, <2>3, AnswerStaysTyped
<1>5. CASE onCanceled(l, due)
  BY <1>5, OnCanceledStaysTyped
<1> QED BY <1>1, <1>2, <1>3, <1>4, <1>5 DEF LoaderStep

LEMMA DownloadStaysTyped ==
  ASSUME LockTyped, Download
  PROVE  LockTyped'
<1> USE DEF LockTyped, Priorities, STREAMING_PRIORITY, DOWNLOAD_PRIORITY
<1>1. CASE DownloadBegins
  BY <1>1 DEF DownloadBegins, Added
<1>2. CASE proceed
  <2>1. queue' = queue /\ download = "asking"
        /\ download' \in {"waiting", "proceeding"}
    BY <1>2 DEF proceed
  <2> QED BY <2>1
<1>3. CASE DownloadGoesOn
  BY <1>3 DEF DownloadGoesOn
<1>4. CASE DownloadEnds
  BY <1>4 DEF DownloadEnds, Removed
<1> QED BY <1>1, <1>2, <1>3, <1>4 DEF Download

LEMMA NextStaysTyped == IInv /\ Typed /\ [Next]_sharedVars => Typed'
<1> SUFFICES ASSUME IInv, Typed, [Next]_sharedVars PROVE Typed'
  OBVIOUS
<1>0. IInv'
  BY NextKeeps
<1>1. ASSUME NEW l \in Loaders, NEW due \in BOOLEAN,
             \/ Enable(l, due) \/ continueBuffering(l, due)
             \/ seekToUs(l, due) \/ LoaderStep(l, due)
      PROVE  Typed'
  BY <1>0, <1>1, EnableStaysTyped, ContinueBufferingStaysTyped,
     SeekToStaysTyped, LoaderStepStaysTyped
<1>2. ASSUME NEW l \in Loaders, Disable(l) \/ readData(l)
      PROVE  Typed'
  BY <1>0, <1>2, DisableStaysTyped, ReadDataStaysTyped
<1>3. ASSUME UNCHANGED <<source, control>>, LockTyped',
             position' \in Times, seeking' \subseteq Loaders
      PROVE  Typed'
  BY <1>3 DEF Typed, Within, Last
<1>4. CASE Play
  <2>1. position' \in Times
    BY <1>4, SharedLoadingAssumption DEF Play, Typed, Times
  <2> QED BY <1>3, <1>4, <2>1 DEF Play, Typed, LockTyped, lockVars
<1>5. ASSUME NEW time \in SeekTimes, Seek(time) PROVE Typed'
  <2>1. position' \in Times /\ seeking' \subseteq Loaders
    BY <1>5, SharedLoadingAssumption DEF Seek, Times
  <2> QED BY <1>3, <1>5, <2>1 DEF Seek, Typed, LockTyped, lockVars
<1>6. CASE OthersDownload
  <2>1. LockTyped'
    BY <1>6, DownloadStaysTyped DEF OthersDownload, Typed
  <2> QED BY <1>3, <1>6, <2>1 DEF OthersDownload, Typed
<1>7. CASE UNCHANGED sharedVars
  BY <1>3, <1>7 DEF sharedVars, Typed, LockTyped
<1> QED BY <1>1, <1>2, <1>4, <1>5, <1>6, <1>7 DEF Next

LEMMA InitIsTyped == Init => Typed
<1> SUFFICES ASSUME Init PROVE Typed
  OBVIOUS
<1>1. ASSUME NEW l \in Loaders PROVE Within(l, source[l])
  <2>1. source[l] = NewSource /\ 0 <= Last(l) /\ 0 \in Times
    BY MediaIsChunks DEF Init, Times
  <2> QED BY <2>1 DEF NewSource, Within, None
<1>2. control.maxLoadStartPosition \in Position
  BY DEF Init, ControlInit, Position
<1>3. LockTyped
  BY DEF Init, LockInit, LockTyped, Priorities, STREAMING_PRIORITY,
     DOWNLOAD_PRIORITY
<1>4. position \in Times /\ seeking \subseteq Loaders
  BY SharedLoadingAssumption DEF Init, Times
<1> QED BY <1>1, <1>2, <1>3, <1>4 DEF Typed

(* All variables are of their types: in particular no queue reaches beyond *)
(* the media, no canceled load is started again from nowhere, and the lock *)
(* counts each of its two users at most once.                              *)
THEOREM SharedTyped == Spec => []TypeOK
<1>1. IInv /\ Typed => TypeOK
  <2> SUFFICES ASSUME IInv, Typed PROVE TypeOK
    OBVIOUS
  <2>1. ASSUME NEW l \in Loaders PROVE source[l] \in Source
    <3>1. source[l].first \in Times /\ source[l].next \in Times
      <4>1. /\ source[l].first \in Int /\ source[l].next \in Nat
            /\ Within(l, source[l])
        BY SourceIsWithin
      <4>2. Last(l) \in Nat /\ Last(l) <= EndTime /\ EndTime \in Nat
        BY MediaIsChunks
      <4> QED BY <4>1, <4>2 DEF Within, Times
    <3>2. /\ source[l].reset \in Times \cup {None} /\ source[l].read \in Times
          /\ source[l].downstream \in Times /\ source[l] \in SourceShape
      BY SourceIsWithin DEF Within
    <3> QED BY <3>1, <3>2 DEF SourceShape, Source
  <2>2. source \in [Loaders -> Source]
    BY <2>1 DEF IInv
  <2>3. control \in Control
    BY DEF IInv, Typed, IsControl, ControlShape, LoaderShape, Control,
       LoaderState, Position
  <2> QED BY <2>2, <2>3 DEF TypeOK, Typed, LockTyped
<1> QED BY <1>1, InitKeeps, InitIsTyped, NextKeeps, NextStaysTyped, PTL DEF Spec
=============================================================================
