------------------------------ MODULE DemoProofs ------------------------------
(* Proofs about DemoPlayer.tla: the types, and that surfaces, tracks and     *)
(* preparations follow what the main thread asked for last. The invariants   *)
(* speak of the messages still due; the main thread only appends to them and *)
(* the playback thread only takes the first, so both are reasoned about by   *)
(* the latest message of a kind.                                             *)
EXTENDS DemoPlayer, FoldProofs

\* The latest message of the kinds K in q, or the one that made what is there now.
Latest(q, K, now) ==
  LET at == {i \in DOMAIN q : q[i] \in K}
  IN  IF at = {} THEN now ELSE q[Max(at)]

\* q is p with messages of some sorts behind.
Extends(p, q, sorts) ==
  /\ Len(p) <= Len(q)
  /\ \A i \in 1..Len(p) : q[i] = p[i]
  /\ \A i \in Len(p) + 1..Len(q) : q[i].what \in sorts
-----------------------------------------------------------------------------
(* Sequences.                                                              *)
\* A set of positions has a largest one.
LEMMA LargestPosition ==
  ASSUME NEW n \in Nat, NEW S \in SUBSET (1..n), S # {}
  PROVE  Max(S) \in S /\ \A x \in S : x <= Max(S)
<1> DEFINE Below == {n - x : x \in S}
<1>1. Below \in SUBSET Nat /\ Below # {}
  <2>1. \A x \in S : n - x \in Nat
    OBVIOUS
  <2> QED
    BY <2>1
<1>2. PICK b \in Below : \A y \in Below : b <= y
  BY <1>1, SmallestNumber
<1>3. PICK x \in S : b = n - x
  BY <1>2
<1>4. ASSUME NEW y \in S PROVE x >= y
  <2>1. n - y \in Below /\ x \in Int /\ y \in Int
    OBVIOUS
  <2>2. b <= n - y
    BY <1>2, <2>1
  <2> QED
    BY <1>3, <2>1, <2>2
<1>5. \E z \in S : \A y \in S : z >= y
  BY <1>4
<1>6. Max(S) \in S /\ \A y \in S : Max(S) >= y
  BY <1>5, Zenon DEF Max
<1>7. \A y \in S : y \in Int
  OBVIOUS
<1> QED
  BY <1>6, <1>7

LEMMA LatestNone ==
  ASSUME NEW M, NEW q \in Seq(M), NEW K, NEW now,
         \A i \in DOMAIN q : q[i] \notin K
  PROVE  Latest(q, K, now) = now
<1>1. {i \in DOMAIN q : q[i] \in K} = {}
  OBVIOUS
<1> QED
  BY <1>1, Zenon DEF Latest

LEMMA LatestIs ==
  ASSUME NEW M, NEW q \in Seq(M), NEW K, NEW now,
         NEW i \in DOMAIN q, q[i] \in K,
         \A j \in DOMAIN q : j > i => q[j] \notin K
  PROVE  Latest(q, K, now) = q[i]
<1> DEFINE at == {j \in DOMAIN q : q[j] \in K}
<1>1. at \in SUBSET (1..Len(q)) /\ i \in at /\ Len(q) \in Nat
  OBVIOUS
<1>2. Max(at) \in at /\ i <= Max(at)
  BY <1>1, LargestPosition
<1>3. Max(at) = i
  <2>1. Max(at) \in DOMAIN q /\ q[Max(at)] \in K
    BY <1>2
  <2>2. ~(Max(at) > i)
    BY <2>1
  <2>3. Max(at) \in Int /\ i \in Int
    BY <1>1, <1>2
  <2> QED
    BY <1>2, <2>2, <2>3
<1>4. Latest(q, K, now) = IF at = {} THEN now ELSE q[Max(at)]
  BY Zenon DEF Latest
<1>5. at # {}
  BY <1>1
<1> QED
  BY <1>3, <1>4, <1>5, Zenon

\* Either there is none of the kind or there is a last one.
LEMMA LatestAt ==
  ASSUME NEW M, NEW q \in Seq(M), NEW K, \E i \in DOMAIN q : q[i] \in K
  PROVE  \E i \in DOMAIN q : q[i] \in K /\ \A j \in DOMAIN q : j > i => q[j] \notin K
<1> DEFINE at == {j \in DOMAIN q : q[j] \in K}
<1>1. at \in SUBSET (1..Len(q)) /\ at # {} /\ Len(q) \in Nat
  OBVIOUS
<1>2. Max(at) \in at /\ \A x \in at : x <= Max(at)
  BY <1>1, LargestPosition
<1>3. ASSUME NEW j \in DOMAIN q, j > Max(at) PROVE q[j] \notin K
  <2>1. Max(at) \in DOMAIN q
    BY <1>2
  <2>2. j \in Int /\ Max(at) \in Int
    BY <2>1
  <2>3. ~(j <= Max(at))
    BY <1>3, <2>2
  <2>4. j \notin at
    BY <1>2, <2>3, Zenon
  <2> QED
    BY <2>4
<1> QED
  BY <1>2, <1>3

LEMMA LatestAppend ==
  ASSUME NEW M, NEW q \in Seq(M), NEW m \in M, NEW K, NEW now
  PROVE  Latest(Append(q, m), K, now) = IF m \in K THEN m ELSE Latest(q, K, now)
<1> DEFINE r == Append(q, m)
<1>1. r \in Seq(M) /\ Len(r) = Len(q) + 1 /\ r[Len(q) + 1] = m
      /\ \A i \in DOMAIN q : i \in DOMAIN r /\ r[i] = q[i]
  OBVIOUS
<1>2. \A i \in DOMAIN r : i \in DOMAIN q \/ i = Len(q) + 1
  OBVIOUS
<1>3. DOMAIN q = 1..Len(q) /\ DOMAIN r = 1..Len(q) + 1 /\ Len(q) \in Nat
  OBVIOUS
<1> HIDE DEF r
<1>4. CASE m \in K
  <2>1. Latest(r, K, now) = r[Len(q) + 1]
    <3>1. Len(q) + 1 \in DOMAIN r /\ \A j \in DOMAIN r : ~(j > Len(q) + 1)
      BY <1>3
    <3> QED
      BY <1>1, <1>4, <3>1, LatestIs
  <2> QED
    BY <1>1, <1>4, <2>1 DEF r
<1>5. CASE m \notin K /\ \E i \in DOMAIN q : q[i] \in K
  <2>1. PICK i \in DOMAIN q : q[i] \in K /\ \A j \in DOMAIN q : j > i => q[j] \notin K
    BY <1>5, LatestAt
  <2>2. Latest(q, K, now) = q[i]
    BY <2>1, LatestIs
  <2>3. i \in DOMAIN r /\ r[i] = q[i]
    BY <1>1
  <2>4. ASSUME NEW j \in DOMAIN r, j > i PROVE r[j] \notin K
    BY <1>1, <1>2, <1>5, <2>1, <2>4
  <2>5. Latest(r, K, now) = r[i]
    BY <1>1, <2>1, <2>3, <2>4, LatestIs
  <2> QED
    BY <1>5, <2>2, <2>3, <2>5 DEF r
<1>6. CASE m \notin K /\ \A i \in DOMAIN q : q[i] \notin K
  <2>1. \A i \in DOMAIN r : r[i] \notin K
    BY <1>1, <1>2, <1>6
  <2>2. Latest(r, K, now) = now /\ Latest(q, K, now) = now
    BY <1>1, <1>6, <2>1, LatestNone
  <2> QED
    BY <1>6, <2>2 DEF r
<1> QED
  BY <1>4, <1>5, <1>6

\* Taking the first message leaves what will be there when all have been taken.
LEMMA LatestTail ==
  ASSUME NEW M, NEW q \in Seq(M), q # <<>>, NEW K, NEW now
  PROVE  Latest(Tail(q), K, IF Head(q) \in K THEN Head(q) ELSE now) = Latest(q, K, now)
<1> DEFINE r == Tail(q)  new == IF Head(q) \in K THEN Head(q) ELSE now
<1>1. r \in Seq(M) /\ Len(r) = Len(q) - 1 /\ \A i \in DOMAIN r : r[i] = q[i + 1]
  OBVIOUS
<1>2. DOMAIN q = 1..Len(q) /\ DOMAIN r = 1..Len(q) - 1 /\ Len(q) \in Nat /\ Len(q) > 0
  OBVIOUS
<1>3. Head(q) = q[1]
  OBVIOUS
<1> HIDE DEF r
<1>4. CASE \E i \in DOMAIN r : r[i] \in K
  <2>1. PICK i \in DOMAIN r : r[i] \in K /\ \A j \in DOMAIN r : j > i => r[j] \notin K
    BY <1>1, <1>4, LatestAt
  <2>2. Latest(r, K, new) = r[i]
    BY <1>1, <2>1, LatestIs
  <2>3. i + 1 \in DOMAIN q /\ q[i + 1] = r[i]
    BY <1>1, <1>2
  <2>4. ASSUME NEW j \in DOMAIN q, j > i + 1 PROVE q[j] \notin K
    <3>1. j - 1 \in DOMAIN r /\ j - 1 > i /\ (j - 1) + 1 = j
      BY <1>2, <2>4
    <3>2. r[j - 1] \notin K /\ r[j - 1] = q[(j - 1) + 1]
      BY <1>1, <2>1, <3>1
    <3> QED
      BY <3>1, <3>2
  <2>5. Latest(q, K, now) = q[i + 1]
    BY <2>1, <2>3, <2>4, LatestIs
  <2> QED
    BY <2>2, <2>3, <2>5 DEF r
<1>5. CASE \A i \in DOMAIN r : r[i] \notin K
  <2>1. Latest(r, K, new) = new
    BY <1>1, <1>5, LatestNone
  <2>2. ASSUME NEW j \in DOMAIN q, j > 1 PROVE q[j] \notin K
    <3>1. j - 1 \in DOMAIN r /\ (j - 1) + 1 = j
      BY <1>2, <2>2
    <3> QED
      BY <1>1, <1>5, <3>1
  <2>3. CASE Head(q) \in K
    <3>1. Latest(q, K, now) = q[1]
      BY <1>2, <1>3, <2>2, <2>3, LatestIs
    <3> QED
      BY <1>3, <2>1, <2>3, <3>1 DEF r
  <2>4. CASE Head(q) \notin K
    <3>1. \A j \in DOMAIN q : q[j] \notin K
      <4>1. \A j \in DOMAIN q : j = 1 \/ j > 1
        BY <1>2
      <4> QED
        BY <1>3, <2>2, <2>4, <4>1
    <3>2. Latest(q, K, now) = now
      BY <3>1, LatestNone
    <3> QED
      BY <2>1, <2>4, <3>2 DEF r
  <2> QED
    BY <2>3, <2>4
<1> QED
  BY <1>4, <1>5

LEMMA ExtendsSelf ==
  ASSUME NEW M, NEW q \in Seq(M), NEW sorts
  PROVE  Extends(q, q, sorts)
BY DEF Extends

LEMMA ExtendsAppend ==
  ASSUME NEW M, NEW q \in Seq(M), NEW m \in M, NEW sorts, m.what \in sorts
  PROVE  Extends(q, Append(q, m), sorts)
<1> DEFINE r == Append(q, m)
<1>1. Len(r) = Len(q) + 1 /\ r[Len(q) + 1] = m /\ \A i \in 1..Len(q) : r[i] = q[i]
  OBVIOUS
<1>2. Len(q) \in Nat
  OBVIOUS
<1> HIDE DEF r
<1>3. Extends(q, r, sorts)
  BY <1>1, <1>2 DEF Extends
<1> QED
  BY <1>3 DEF r

LEMMA ExtendsMore ==
  ASSUME NEW p, NEW q, NEW some, NEW sorts, some \subseteq sorts, Extends(p, q, some)
  PROVE  Extends(p, q, sorts)
BY DEF Extends

LEMMA ExtendsTrans ==
  ASSUME NEW M, NEW p \in Seq(M), NEW q \in Seq(M), NEW r \in Seq(M), NEW sorts,
         Extends(p, q, sorts), Extends(q, r, sorts)
  PROVE  Extends(p, r, sorts)
<1>1. Len(p) \in Nat /\ Len(q) \in Nat /\ Len(r) \in Nat
  OBVIOUS
<1>2. Len(p) <= Len(q) /\ Len(q) <= Len(r)
  BY DEF Extends
<1>3. ASSUME NEW i \in 1..Len(p) PROVE r[i] = p[i]
  BY <1>1, <1>2 DEF Extends
<1>4. ASSUME NEW i \in Len(p) + 1..Len(r) PROVE r[i].what \in sorts
  <2>1. CASE i \in Len(p) + 1..Len(q)
    <3>1. i \in 1..Len(q)
      BY <1>1, <2>1
    <3>2. r[i] = q[i] /\ q[i].what \in sorts
      BY <2>1, <3>1 DEF Extends
    <3> QED
      BY <3>2
  <2>2. CASE i \in Len(q) + 1..Len(r)
    BY <2>2 DEF Extends
  <2> QED
    BY <1>1, <1>2, <2>1, <2>2
<1> QED
  BY <1>1, <1>2, <1>3, <1>4 DEF Extends

\* What the sorts behind do not include is as it was.
LEMMA LatestExtends ==
  ASSUME NEW M, NEW p \in Seq(M), NEW q \in Seq(M), NEW sorts, Extends(p, q, sorts),
         NEW K, \A m \in K : m.what \notin sorts, NEW now
  PROVE  Latest(q, K, now) = Latest(p, K, now)
<1>1. DOMAIN p = 1..Len(p) /\ DOMAIN q = 1..Len(q) /\ Len(p) \in Nat /\ Len(q) \in Nat
      /\ Len(p) <= Len(q)
  BY DEF Extends
<1>2. ASSUME NEW j \in DOMAIN q, q[j] \in K PROVE j \in DOMAIN p
  <2>1. q[j].what \notin sorts
    BY <1>2
  <2> QED
    BY <1>1, <2>1 DEF Extends
<1>3. \A j \in DOMAIN p : j \in DOMAIN q /\ q[j] = p[j]
  BY <1>1 DEF Extends
<1>4. CASE \E i \in DOMAIN p : p[i] \in K
  <2>1. PICK i \in DOMAIN p : p[i] \in K /\ \A j \in DOMAIN p : j > i => p[j] \notin K
    BY <1>4, LatestAt
  <2>2. Latest(p, K, now) = p[i]
    BY <2>1, LatestIs
  <2>3. i \in DOMAIN q /\ q[i] = p[i] /\ \A j \in DOMAIN q : j > i => q[j] \notin K
    BY <1>2, <1>3, <2>1
  <2>4. Latest(q, K, now) = q[i]
    BY <2>1, <2>3, LatestIs
  <2> QED
    BY <2>2, <2>3, <2>4
<1>5. CASE \A i \in DOMAIN p : p[i] \notin K
  <2>1. \A i \in DOMAIN q : q[i] \notin K
    BY <1>2, <1>3, <1>5
  <2> QED
    BY <1>5, <2>1, LatestNone
<1> QED
  BY <1>4, <1>5
-----------------------------------------------------------------------------
(* The messages and the main thread's calls.                               *)
Surfacing(k) == [what : {"SURFACE"}, session : {k}, surface : BOOLEAN]
Selecting(k) == [what : {"SELECT"}, session : {k}, track : Tracks]
Enabling(type) == [what : {"ENABLE"}, type : {type}, flag : BOOLEAN]
Playing == [what : {"PLAY"}, flag : BOOLEAN]

\* What is there now, as the message that would set it.
SurfaceNow(k, s) == [what |-> "SURFACE", session |-> k, surface |-> s[k]]
TrackNow(k, t) == [what |-> "SELECT", session |-> k, track |-> t[k]]
EnabledNow(type, c) == [what |-> "ENABLE", type |-> type, flag |-> type \in c.flags]
PlayNow(c) == [what |-> "PLAY", flag |-> c.playWhenReady]

Demos == [building : {"IDLE", "BUILDING", "BUILT"}, prepared : Sessions \cup {0},
          waits : BOOLEAN, surface : BOOLEAN,
          selected : [Types -> Tracks \cup {DISABLED}], named : BOOLEAN,
          reported : [state : States, playWhenReady : BOOLEAN]]
Apps == [state : States, playWhenReady : BOOLEAN, flags : SUBSET Types]
Worlds == [demo : Demos, app : Apps, inbox : Seq(Message)]

\* What ExoPlayerImpl remembers is what it asked for last.
Asked(w, c) ==
  /\ \A type \in Types :
       Latest(w.inbox, Enabling(type), EnabledNow(type, c)).flag <=> type \in w.app.flags
  /\ Latest(w.inbox, Playing, PlayNow(c)).flag <=> w.app.playWhenReady

\* The audio renderer is disabled when a track is selected.
Silence(q, flags) ==
  \A i \in DOMAIN q : q[i].what = "SELECT" =>
    \E j \in 0..i - 1 :
      /\ j = 0 => "audio" \notin flags
      /\ j # 0 => q[j] \in Enabling("audio") /\ ~q[j].flag
      /\ \A n \in j + 1..i - 1 : q[n] \in Enabling("audio") => ~q[n].flag

\* The activity was told what it would be told now.
Told(w) ==
  /\ w.demo.reported.state = getPlaybackState(w)
  /\ w.demo.reported.playWhenReady <=> w.app.playWhenReady

Good(w, c) == w \in Worlds /\ Asked(w, c) /\ Silence(w.inbox, c.flags)

SameDemo(w, v) ==
  /\ v.demo.building = w.demo.building /\ v.demo.prepared = w.demo.prepared
  /\ v.demo.waits <=> w.demo.waits
  /\ v.demo.surface <=> w.demo.surface
  /\ v.demo.selected = w.demo.selected

\* A call of the player posts messages of some sorts, and is told of.
Goes(w, v, c, sorts) ==
  /\ Good(v, c) /\ SameDemo(w, v) /\ v.app.state = w.app.state
  /\ Extends(w.inbox, v.inbox, sorts)
  /\ Told(w) => Told(v)

LEMMA MessageKinds ==
  ASSUME NEW m \in Message
  PROVE  /\ m.what \in {"SURFACE", "SELECT", "ENABLE", "PLAY", "PREPARE", "STOP", "RELEASE"}
         /\ m.what = "SURFACE" => m.session \in Sessions /\ m.surface \in BOOLEAN
                                   /\ m = [what |-> "SURFACE", session |-> m.session,
                                           surface |-> m.surface]
         /\ m.what = "SELECT" => m.session \in Sessions /\ m.track \in Tracks
                                   /\ m = [what |-> "SELECT", session |-> m.session,
                                           track |-> m.track]
         /\ m.what = "ENABLE" => m.type \in Types /\ m.flag \in BOOLEAN
                                   /\ m = [what |-> "ENABLE", type |-> m.type,
                                           flag |-> m.flag]
         /\ m.what = "PLAY" => m.flag \in BOOLEAN /\ m = [what |-> "PLAY", flag |-> m.flag]
         /\ m.what = "PREPARE" => m.session \in Sessions
BY DEF Message

LEMMA KindsAre ==
  ASSUME NEW m \in Message, NEW k, NEW type
  PROVE  /\ m \in Surfacing(k) <=> m.what = "SURFACE" /\ m.session = k
         /\ m \in Selecting(k) <=> m.what = "SELECT" /\ m.session = k
         /\ m \in Enabling(type) <=> m.what = "ENABLE" /\ m.type = type
         /\ m \in Playing <=> m.what = "PLAY"
<1>1. m \in Surfacing(k) <=> m.what = "SURFACE" /\ m.session = k
  BY MessageKinds DEF Surfacing
<1>2. m \in Selecting(k) <=> m.what = "SELECT" /\ m.session = k
  BY MessageKinds DEF Selecting
<1>3. m \in Enabling(type) <=> m.what = "ENABLE" /\ m.type = type
  BY MessageKinds DEF Enabling
<1>4. m \in Playing <=> m.what = "PLAY"
  BY MessageKinds DEF Playing
<1> QED
  BY <1>1, <1>2, <1>3, <1>4

LEMMA KindsSort ==
  ASSUME NEW k, NEW type
  PROVE  /\ \A m \in Surfacing(k) : m.what = "SURFACE"
         /\ \A m \in Selecting(k) : m.what = "SELECT"
         /\ \A m \in Enabling(type) : m.what = "ENABLE"
         /\ \A m \in Playing : m.what = "PLAY"
BY DEF Surfacing, Selecting, Enabling, Playing

LEMMA Posted ==
  /\ \A k \in Sessions : \A b \in BOOLEAN :
       [what |-> "SURFACE", session |-> k, surface |-> b] \in Message
  /\ \A k \in Sessions : \A t \in Tracks :
       [what |-> "SELECT", session |-> k, track |-> t] \in Message
  /\ \A type \in Types : \A b \in BOOLEAN :
       [what |-> "ENABLE", type |-> type, flag |-> b] \in Message
  /\ \A b \in BOOLEAN : [what |-> "PLAY", flag |-> b] \in Message
  /\ \A k \in Sessions : [what |-> "PREPARE", session |-> k] \in Message
  /\ [what |-> "STOP"] \in Message /\ [what |-> "RELEASE"] \in Message
BY DEF Message

LEMMA DueExtends ==
  ASSUME NEW p \in Seq(Message), NEW q \in Seq(Message), NEW sorts, Extends(p, q, sorts),
         NEW K, \A m \in K : m.what \notin sorts, NEW now
  PROVE  Latest(q, K, now) = Latest(p, K, now)
BY LatestExtends

LEMMA SilenceAppend ==
  ASSUME NEW q \in Seq(Message), NEW m \in Message, NEW flags, Silence(q, flags),
         m.what # "SELECT"
  PROVE  Silence(Append(q, m), flags)
<1> DEFINE r == Append(q, m)
<1>1. Len(r) = Len(q) + 1 /\ r[Len(q) + 1] = m /\ \A i \in DOMAIN q : r[i] = q[i]
  OBVIOUS
<1>2. DOMAIN q = 1..Len(q) /\ DOMAIN r = 1..Len(q) + 1 /\ Len(q) \in Nat
  OBVIOUS
<1> HIDE DEF r
<1>3. ASSUME NEW i \in DOMAIN r, r[i].what = "SELECT"
      PROVE  \E j \in 0..i - 1 :
               /\ j = 0 => "audio" \notin flags
               /\ j # 0 => r[j] \in Enabling("audio") /\ ~r[j].flag
               /\ \A n \in j + 1..i - 1 : r[n] \in Enabling("audio") => ~r[n].flag
  <2>1. i \in DOMAIN q /\ q[i].what = "SELECT"
    BY <1>1, <1>2, <1>3
  <2>2. PICK j \in 0..i - 1 :
          /\ j = 0 => "audio" \notin flags
          /\ j # 0 => q[j] \in Enabling("audio") /\ ~q[j].flag
          /\ \A n \in j + 1..i - 1 : q[n] \in Enabling("audio") => ~q[n].flag
    BY <2>1 DEF Silence
  <2>3. \A n \in 1..i - 1 : n \in DOMAIN q /\ r[n] = q[n]
    BY <1>1, <1>2, <2>1
  <2>4. j # 0 => j \in 1..i - 1
    BY <1>2, <2>1
  <2>5. \A n \in j + 1..i - 1 : n \in 1..i - 1
    BY <1>2, <2>1
  <2> QED
    BY <2>2, <2>3, <2>4, <2>5
<1> QED
  BY <1>3 DEF Silence, r

LEMMA SilenceSelect ==
  ASSUME NEW q \in Seq(Message), NEW m \in Message, NEW c, Silence(q, c.flags),
         ~Latest(q, Enabling("audio"), EnabledNow("audio", c)).flag
  PROVE  Silence(Append(q, m), c.flags)
<1> DEFINE r == Append(q, m)
<1>1. Len(r) = Len(q) + 1 /\ r[Len(q) + 1] = m /\ \A i \in DOMAIN q : r[i] = q[i]
  OBVIOUS
<1>2. DOMAIN q = 1..Len(q) /\ DOMAIN r = 1..Len(q) + 1 /\ Len(q) \in Nat
  OBVIOUS
<1> HIDE DEF r
<1>3. ASSUME NEW i \in DOMAIN q, q[i].what = "SELECT"
      PROVE  \E j \in 0..i - 1 :
               /\ j = 0 => "audio" \notin c.flags
               /\ j # 0 => r[j] \in Enabling("audio") /\ ~r[j].flag
               /\ \A n \in j + 1..i - 1 : r[n] \in Enabling("audio") => ~r[n].flag
  <2>2. PICK j \in 0..i - 1 :
          /\ j = 0 => "audio" \notin c.flags
          /\ j # 0 => q[j] \in Enabling("audio") /\ ~q[j].flag
          /\ \A n \in j + 1..i - 1 : q[n] \in Enabling("audio") => ~q[n].flag
    BY <1>3 DEF Silence
  <2>3. \A n \in 1..i - 1 : n \in DOMAIN q /\ r[n] = q[n]
    BY <1>1, <1>2
  <2>4. j # 0 => j \in 1..i - 1
    BY <1>2
  <2>5. \A n \in j + 1..i - 1 : n \in 1..i - 1
    BY <1>2
  <2> QED
    BY <2>2, <2>3, <2>4, <2>5
<1>4. \E j \in 0..Len(q) :
        /\ j = 0 => "audio" \notin c.flags
        /\ j # 0 => r[j] \in Enabling("audio") /\ ~r[j].flag
        /\ \A n \in j + 1..Len(q) : r[n] \in Enabling("audio") => ~r[n].flag
  <2>1. CASE \E i \in DOMAIN q : q[i] \in Enabling("audio")
    <3>1. PICK j \in DOMAIN q : q[j] \in Enabling("audio")
            /\ \A n \in DOMAIN q : n > j => q[n] \notin Enabling("audio")
      BY <2>1, LatestAt
    <3>2. Latest(q, Enabling("audio"), EnabledNow("audio", c)) = q[j]
      BY <3>1, LatestIs
    <3>3. ~q[j].flag /\ r[j] = q[j] /\ j \in 0..Len(q) /\ j # 0
      BY <1>1, <1>2, <3>2
    <3>4. \A n \in j + 1..Len(q) : n \in DOMAIN q /\ n > j /\ r[n] = q[n]
      BY <1>1, <1>2, <3>3
    <3> QED
      BY <3>1, <3>3, <3>4
  <2>2. CASE \A i \in DOMAIN q : q[i] \notin Enabling("audio")
    <3>1. Latest(q, Enabling("audio"), EnabledNow("audio", c)) = EnabledNow("audio", c)
      BY <2>2, LatestNone
    <3>2. "audio" \notin c.flags
      <4>1. ~EnabledNow("audio", c).flag
        BY <3>1
      <4>2. EnabledNow("audio", c).flag <=> "audio" \in c.flags
        BY DEF EnabledNow
      <4> QED
        BY <4>1, <4>2
    <3>3. \A n \in 0 + 1..Len(q) : r[n] \notin Enabling("audio")
      BY <1>1, <1>2, <2>2
    <3>4. 0 \in 0..Len(q)
      <4>1. Len(q) \in Nat
        BY <1>2
      <4> QED
        BY <4>1
    <3> QED
      BY <3>2, <3>3, <3>4
  <2> QED
    BY <2>1, <2>2
<1>5. ASSUME NEW i \in DOMAIN r, r[i].what = "SELECT"
      PROVE  \E j \in 0..i - 1 :
               /\ j = 0 => "audio" \notin c.flags
               /\ j # 0 => r[j] \in Enabling("audio") /\ ~r[j].flag
               /\ \A n \in j + 1..i - 1 : r[n] \in Enabling("audio") => ~r[n].flag
  <2>1. CASE i \in DOMAIN q
    BY <1>1, <1>3, <1>5, <2>1
  <2>2. CASE i = Len(q) + 1
    <3>1. i - 1 = Len(q)
      BY <1>2, <2>2
    <3> QED
      BY <1>4, <3>1
  <2> QED
    BY <1>2, <2>1, <2>2
<1> QED
  BY <1>5 DEF Silence, r
-----------------------------------------------------------------------------
(* Each call, and what it posts.                                           *)
LEMMA WorldTypes ==
  ASSUME NEW w \in Worlds
  PROVE  /\ w.demo \in Demos /\ w.app \in Apps /\ w.inbox \in Seq(Message)
         /\ w.demo.building \in {"IDLE", "BUILDING", "BUILT"}
         /\ w.demo.prepared \in Sessions \cup {0}
         /\ w.demo.waits \in BOOLEAN /\ w.demo.surface \in BOOLEAN
         /\ w.demo.selected \in [Types -> Tracks \cup {DISABLED}]
         /\ w.demo.reported.playWhenReady \in BOOLEAN
         /\ w.app.state \in States /\ w.app.playWhenReady \in BOOLEAN
         /\ w.app.flags \subseteq Types
         /\ getPlaybackState(w) \in States
<1>1. w.demo \in Demos /\ w.app \in Apps /\ w.inbox \in Seq(Message)
  BY DEF Worlds
<1>2. /\ w.demo.building \in {"IDLE", "BUILDING", "BUILT"}
      /\ w.demo.prepared \in Sessions \cup {0}
      /\ w.demo.waits \in BOOLEAN /\ w.demo.surface \in BOOLEAN
      /\ w.demo.selected \in [Types -> Tracks \cup {DISABLED}]
      /\ w.demo.reported \in [state : States, playWhenReady : BOOLEAN]
  BY <1>1 DEF Demos
<1>3. w.app.state \in States /\ w.app.playWhenReady \in BOOLEAN /\ w.app.flags \subseteq Types
  BY <1>1 DEF Apps
<1>4. getPlaybackState(w) \in States
  BY <1>3 DEF getPlaybackState, States
<1> QED
  BY <1>1, <1>2, <1>3, <1>4

LEMMA PostIs ==
  ASSUME NEW w \in Worlds, NEW m \in Message
  PROVE  /\ Post(w, m) \in Worlds
         /\ Post(w, m).demo = w.demo /\ Post(w, m).app = w.app
         /\ Post(w, m).inbox = Append(w.inbox, m)
<1>1. Append(w.inbox, m) \in Seq(Message)
  BY WorldTypes
<1> QED
  BY <1>1 DEF Post, Worlds

LEMMA ReportIs ==
  ASSUME NEW w \in Worlds
  PROVE  LET v == maybeReportPlayerState(w) IN
         /\ v \in Worlds /\ v.app = w.app /\ v.inbox = w.inbox
         /\ SameDemo(w, v) /\ Told(v)
<1> DEFINE told == [state |-> getPlaybackState(w), playWhenReady |-> w.app.playWhenReady]
           v == maybeReportPlayerState(w)
<1>1. told \in [state : States, playWhenReady : BOOLEAN]
  BY WorldTypes
<1>2. told.state = getPlaybackState(w) /\ told.playWhenReady = w.app.playWhenReady
  OBVIOUS
<1>3. v = [w EXCEPT !.demo.reported = told]
  BY DEF maybeReportPlayerState
<1> HIDE DEF told, v
<1>4. v.demo \in Demos /\ v.demo.building = w.demo.building
      /\ v.demo.prepared = w.demo.prepared /\ v.demo.selected = w.demo.selected
      /\ v.demo.reported = told
  BY <1>1, <1>3, WorldTypes DEF Worlds, Demos
<1>5. (v.demo.waits <=> w.demo.waits) /\ (v.demo.surface <=> w.demo.surface)
  BY <1>3, WorldTypes DEF Worlds, Demos
<1>6. v \in Worlds /\ v.app = w.app /\ v.inbox = w.inbox
  BY <1>3, <1>4 DEF Worlds
<1>7. SameDemo(w, v)
  BY <1>4, <1>5 DEF SameDemo
<1>8. getPlaybackState(v) = getPlaybackState(w)
  BY <1>4, <1>6 DEF getPlaybackState
<1>9. Told(v)
  BY <1>2, <1>4, <1>6, <1>8 DEF Told
<1> QED
  BY <1>6, <1>7, <1>9 DEF v

\* A message that is not of the kinds asked for leaves them as they are due.
LEMMA AskedOther ==
  ASSUME NEW c, NEW w \in Worlds, Asked(w, c), NEW m \in Message,
         m.what \notin {"ENABLE", "PLAY"},
         NEW v, v.app = w.app, v.inbox = Append(w.inbox, m)
  PROVE  Asked(v, c)
<1>1. w.inbox \in Seq(Message)
  BY WorldTypes
<1>2. ASSUME NEW type \in Types
      PROVE  Latest(v.inbox, Enabling(type), EnabledNow(type, c))
               = Latest(w.inbox, Enabling(type), EnabledNow(type, c))
  <2>1. m \notin Enabling(type)
    BY KindsAre
  <2> QED
    BY <1>1, <2>1, LatestAppend
<1>3. Latest(v.inbox, Playing, PlayNow(c)) = Latest(w.inbox, Playing, PlayNow(c))
  <2>1. m \notin Playing
    BY KindsAre
  <2> QED
    BY <1>1, <2>1, LatestAppend
<1> QED
  BY <1>2, <1>3, Zenon DEF Asked

LEMMA GoesNowhere ==
  ASSUME NEW c, NEW w, Good(w, c), NEW sorts
  PROVE  Goes(w, w, c, sorts)
<1>1. w.inbox \in Seq(Message)
  BY WorldTypes DEF Good
<1>2. Extends(w.inbox, w.inbox, sorts)
  BY <1>1, ExtendsSelf
<1> QED
  BY <1>2 DEF Goes, SameDemo

LEMMA GoesOn ==
  ASSUME NEW c, NEW w, NEW v, NEW u, Good(w, c), NEW sorts,
         Goes(w, v, c, sorts), Goes(v, u, c, sorts)
  PROVE  Goes(w, u, c, sorts)
<1>1. w.inbox \in Seq(Message) /\ v.inbox \in Seq(Message) /\ u.inbox \in Seq(Message)
  BY WorldTypes DEF Good, Goes
<1>2. Extends(w.inbox, v.inbox, sorts) /\ Extends(v.inbox, u.inbox, sorts)
  BY DEF Goes
<1>3. Extends(w.inbox, u.inbox, sorts)
  BY <1>1, <1>2, ExtendsTrans
<1> QED
  BY <1>3 DEF Goes, SameDemo

\* To play or not, with the renderers as they are.
Plays(w, v, c, play, sorts) ==
  /\ Goes(w, v, c, sorts) /\ v.app.flags = w.app.flags
  /\ v.app.playWhenReady <=> play

LEMMA setPlayWhenReadyGoes ==
  ASSUME NEW c, NEW w, Good(w, c), NEW play \in BOOLEAN,
         NEW sorts, "PLAY" \in sorts,
         NEW v, v = setPlayWhenReady(w, play)
  PROVE  Plays(w, v, c, play, sorts)
<1> DEFINE m == [what |-> "PLAY", flag |-> play]
           x == [w EXCEPT !.app.playWhenReady = play]
           y == Post(x, m)
<1>0. w \in Worlds /\ Asked(w, c) /\ Silence(w.inbox, c.flags)
  BY DEF Good
<1>1. CASE w.app.playWhenReady = play
  <2>1. v = w
    BY <1>1, Zenon DEF setPlayWhenReady
  <2>2. Goes(w, w, c, sorts)
    BY GoesNowhere
  <2> QED
    BY <1>1, <2>1, <2>2, Zenon DEF Plays
<1>2. CASE w.app.playWhenReady # play
  <2>1. v = maybeReportPlayerState(y)
    BY <1>2, Zenon DEF setPlayWhenReady
  <2>2. m \in Message /\ m.what = "PLAY"
    BY Posted
  <2>3. m \in Playing /\ \A type \in Types : m \notin Enabling(type)
    BY <2>2, KindsAre
  <2>4. x.app \in Apps /\ x.app.state = w.app.state /\ x.app.flags = w.app.flags
    BY <1>0, WorldTypes DEF Worlds, Apps
  <2>5. x.app.playWhenReady <=> play
    BY <1>0, WorldTypes DEF Worlds, Apps
  <2>6. x \in Worlds /\ x.demo = w.demo /\ x.inbox = w.inbox
    BY <1>0, <2>4 DEF Worlds
  <2>7. y \in Worlds /\ y.demo = w.demo /\ y.app = x.app /\ y.inbox = Append(w.inbox, m)
    BY <2>2, <2>6, PostIs
  <2>8. m.flag <=> play
    OBVIOUS
  <2> HIDE DEF m, x, y
  <2>9. /\ v \in Worlds /\ v.app = x.app /\ v.inbox = Append(w.inbox, m)
        /\ SameDemo(y, v) /\ Told(v)
    BY <2>1, <2>7, ReportIs
  <2>10. w.inbox \in Seq(Message)
    BY <1>0, WorldTypes
  <2>11. Asked(v, c)
    <3>1. Latest(v.inbox, Playing, PlayNow(c)) = m
      BY <2>2, <2>3, <2>9, <2>10, LatestAppend
    <3>2. ASSUME NEW type \in Types
          PROVE  Latest(v.inbox, Enabling(type), EnabledNow(type, c))
                   = Latest(w.inbox, Enabling(type), EnabledNow(type, c))
      BY <2>2, <2>3, <2>9, <2>10, LatestAppend
    <3>3. \A type \in Types :
            Latest(v.inbox, Enabling(type), EnabledNow(type, c)).flag <=> type \in v.app.flags
      BY <1>0, <2>4, <2>9, <3>2, Zenon DEF Asked
    <3>4. Latest(v.inbox, Playing, PlayNow(c)).flag <=> v.app.playWhenReady
      BY <2>5, <2>8, <2>9, <3>1, Zenon
    <3> QED
      BY <3>3, <3>4 DEF Asked
  <2>12. Silence(v.inbox, c.flags)
    BY <1>0, <2>2, <2>9, <2>10, SilenceAppend
  <2>13. Extends(w.inbox, v.inbox, sorts)
    BY <2>2, <2>9, <2>10, ExtendsAppend
  <2>14. SameDemo(w, v)
    BY <2>7, <2>9 DEF SameDemo
  <2>15. Goes(w, v, c, sorts)
    BY <2>4, <2>9, <2>11, <2>12, <2>13, <2>14, Zenon DEF Goes, Good
  <2> QED
    BY <2>4, <2>5, <2>9, <2>15, Zenon DEF Plays
<1> QED
  BY <1>1, <1>2

Switched(flags, type, flag) == IF flag THEN flags \cup {type} ELSE flags \ {type}

\* One renderer is to be enabled or disabled.
Switches(w, v, c, type, flag, sorts) ==
  /\ Goes(w, v, c, sorts) /\ v.app.flags = Switched(w.app.flags, type, flag)
  /\ v.app.playWhenReady <=> w.app.playWhenReady

LEMMA setRendererEnabledGoes ==
  ASSUME NEW c, NEW w, Good(w, c), NEW type \in Types, NEW flag \in BOOLEAN,
         NEW sorts, "ENABLE" \in sorts,
         NEW v, v = setRendererEnabled(w, type, flag)
  PROVE  Switches(w, v, c, type, flag, sorts)
<1> DEFINE m == [what |-> "ENABLE", type |-> type, flag |-> flag]
           flags == IF flag THEN w.app.flags \cup {type} ELSE w.app.flags \ {type}
           x == [w EXCEPT !.app.flags = flags]
<1>0. w \in Worlds /\ Asked(w, c) /\ Silence(w.inbox, c.flags)
  BY DEF Good
<1>1. CASE (type \in w.app.flags) = flag
  <2>1. v = w
    BY <1>1, Zenon DEF setRendererEnabled
  <2>2. Goes(w, w, c, sorts)
    BY GoesNowhere
  <2>3. Switched(w.app.flags, type, flag) = w.app.flags
    BY <1>1 DEF Switched
  <2> QED
    BY <2>1, <2>2, <2>3, Zenon DEF Switches
<1>2. CASE (type \in w.app.flags) # flag
  <2>1. v = Post(x, m)
    BY <1>2, Zenon DEF setRendererEnabled
  <2>2. m \in Message /\ m.what = "ENABLE" /\ m.type = type
    BY Posted
  <2>3. m \notin Playing /\ \A t \in Types : m \in Enabling(t) <=> t = type
    BY <2>2, KindsAre
  <2>4. flags \subseteq Types /\ \A t \in Types :
          t \in flags <=> IF t = type THEN flag ELSE t \in w.app.flags
    BY <1>0, WorldTypes
  <2>5. m.flag <=> flag
    OBVIOUS
  <2>17. flags = Switched(w.app.flags, type, flag)
    BY DEF Switched
  <2> HIDE DEF flags
  <2>6. x.app \in Apps /\ x.app.state = w.app.state /\ x.app.flags = flags
    BY <1>0, <2>4, WorldTypes DEF Worlds, Apps
  <2>7. x.app.playWhenReady <=> w.app.playWhenReady
    BY <1>0, WorldTypes DEF Worlds, Apps
  <2>8. x \in Worlds /\ x.demo = w.demo /\ x.inbox = w.inbox
    BY <1>0, <2>6 DEF Worlds
  <2> HIDE DEF m, x
  <2>9. /\ v \in Worlds /\ v.demo = w.demo /\ v.app = x.app
        /\ v.inbox = Append(w.inbox, m)
    BY <2>1, <2>2, <2>8, PostIs
  <2>10. w.inbox \in Seq(Message)
    BY <1>0, WorldTypes
  <2>11. Asked(v, c)
    <3>1. ASSUME NEW t \in Types
          PROVE  Latest(v.inbox, Enabling(t), EnabledNow(t, c)).flag <=> t \in v.app.flags
      <4>1. CASE t = type
        <5>1. Latest(v.inbox, Enabling(t), EnabledNow(t, c)) = m
          BY <2>2, <2>3, <2>9, <2>10, <4>1, LatestAppend
        <5>2. t \in v.app.flags <=> flag
          BY <2>4, <2>6, <2>9, <4>1
        <5> QED
          BY <2>5, <5>1, <5>2, Zenon
      <4>2. CASE t # type
        <5>1. Latest(v.inbox, Enabling(t), EnabledNow(t, c))
                = Latest(w.inbox, Enabling(t), EnabledNow(t, c))
          BY <2>2, <2>3, <2>9, <2>10, <4>2, LatestAppend
        <5>2. t \in v.app.flags <=> t \in w.app.flags
          BY <2>4, <2>6, <2>9, <4>2
        <5> QED
          BY <1>0, <5>1, <5>2, Zenon DEF Asked
      <4> QED
        BY <4>1, <4>2
    <3>2. Latest(v.inbox, Playing, PlayNow(c)) = Latest(w.inbox, Playing, PlayNow(c))
      BY <2>2, <2>3, <2>9, <2>10, LatestAppend
    <3>3. Latest(v.inbox, Playing, PlayNow(c)).flag <=> v.app.playWhenReady
      BY <1>0, <2>7, <2>9, <3>2, Zenon DEF Asked
    <3> QED
      BY <3>1, <3>3 DEF Asked
  <2>12. Silence(v.inbox, c.flags)
    BY <1>0, <2>2, <2>9, <2>10, SilenceAppend
  <2>13. Extends(w.inbox, v.inbox, sorts)
    BY <2>2, <2>9, <2>10, ExtendsAppend
  <2>14. SameDemo(w, v)
    BY <2>9 DEF SameDemo
  <2>15. Told(w) => Told(v)
    <3>1. getPlaybackState(v) = getPlaybackState(w)
      BY <2>6, <2>9 DEF getPlaybackState
    <3> QED
      BY <2>7, <2>9, <3>1 DEF Told
  <2>16. Goes(w, v, c, sorts)
    BY <2>6, <2>9, <2>11, <2>12, <2>13, <2>14, <2>15, Zenon DEF Goes, Good
  <2> QED
    BY <2>6, <2>7, <2>9, <2>16, <2>17, Zenon DEF Switches
<1> QED
  BY <1>1, <1>2


\* Audio is disabled when another track is asked for, and has it when all is served.
LEMMA selectionGoes ==
  ASSUME NEW c, NEW w, Good(w, c), "audio" \notin w.app.flags,
         NEW k \in Sessions, NEW track \in Tracks, NEW sorts, "SELECT" \in sorts
  PROVE  LET m == [what |-> "SELECT", session |-> k, track |-> track] IN
         /\ Goes(w, Post(w, m), c, sorts)
         /\ Post(w, m).app = w.app
         /\ \A now : Latest(Post(w, m).inbox, Selecting(k), now) = m
<1> DEFINE m == [what |-> "SELECT", session |-> k, track |-> track]
           v == Post(w, m)
<1>0. w \in Worlds /\ Asked(w, c) /\ Silence(w.inbox, c.flags)
  BY DEF Good
<1>1. m \in Message /\ m.what = "SELECT" /\ m.session = k
  BY Posted
<1>2. m \in Selecting(k)
  BY <1>1, KindsAre
<1> HIDE DEF m
<1>3. v \in Worlds /\ v.demo = w.demo /\ v.app = w.app /\ v.inbox = Append(w.inbox, m)
  BY <1>0, <1>1, PostIs
<1>4. w.inbox \in Seq(Message)
  BY <1>0, WorldTypes
<1>5. Asked(v, c)
  BY <1>0, <1>1, <1>3, AskedOther
<1>6. ~Latest(w.inbox, Enabling("audio"), EnabledNow("audio", c)).flag
  <2>1. "audio" \in Types
    BY DEF Types
  <2> QED
    BY <1>0, <2>1, Zenon DEF Asked
<1>7. Silence(v.inbox, c.flags)
  BY <1>0, <1>1, <1>3, <1>4, <1>6, SilenceSelect
<1>8. Extends(w.inbox, v.inbox, sorts)
  BY <1>1, <1>3, <1>4, ExtendsAppend
<1>9. \A now : Latest(v.inbox, Selecting(k), now) = m
  BY <1>1, <1>2, <1>3, <1>4, LatestAppend
<1>10. Told(w) => Told(v)
  BY <1>3 DEF Told, getPlaybackState
<1>11. SameDemo(w, v)
  BY <1>3 DEF SameDemo
<1>12. Goes(w, v, c, sorts)
  BY <1>3, <1>5, <1>7, <1>8, <1>10, <1>11, Zenon DEF Goes, Good
<1> QED
  BY <1>3, <1>9, <1>12, Zenon DEF m

Quiet == {"ENABLE", "SELECT", "PLAY"}
Switching == {"ENABLE", "PLAY"}

\* The selections due are the same.
SameSelections(p, q) ==
  \A k, now : Latest(q, Selecting(k), now) = Latest(p, Selecting(k), now)

LEMMA SelectionStays ==
  ASSUME NEW c, NEW w, NEW v, Good(w, c), Goes(w, v, c, Switching)
  PROVE  SameSelections(w.inbox, v.inbox)
<1>1. w.inbox \in Seq(Message) /\ v.inbox \in Seq(Message)
  BY WorldTypes DEF Goes, Good
<1>2. Extends(w.inbox, v.inbox, Switching)
  BY DEF Goes
<1>3. ASSUME NEW k, NEW now
      PROVE  Latest(v.inbox, Selecting(k), now) = Latest(w.inbox, Selecting(k), now)
  <2>1. \A x \in Selecting(k) : x.what \notin Switching
    BY KindsSort DEF Switching
  <2> QED
    BY <1>1, <1>2, <2>1, DueExtends
<1> QED
  BY <1>3, Zenon DEF SameSelections

LEMMA SelectTrackGoes ==
  ASSUME NEW c, NEW w, Good(w, c), w.demo.prepared \in Sessions,
         w.demo.selected["audio"] \in Tracks,
         NEW v, v = SelectTrack(w, "audio", TRUE)
  PROVE  /\ Goes(w, v, c, Quiet)
         /\ v.app.flags = w.app.flags \cup {"audio"}
         /\ v.app.playWhenReady <=> w.app.playWhenReady
         /\ \A now : Latest(v.inbox, Selecting(w.demo.prepared), now).track
                       = w.demo.selected["audio"]
<1> DEFINE m == [what |-> "SELECT", session |-> w.demo.prepared,
                 track |-> w.demo.selected["audio"]]
           w1 == setPlayWhenReady(w, FALSE)
           w2 == setRendererEnabled(w1, "audio", FALSE)
           w3 == Post(w2, m)
           w4 == setRendererEnabled(w3, "audio", TRUE)
<1>1. v = setPlayWhenReady(w4, w.app.playWhenReady)
  BY Zenon DEF SelectTrack
<1>2. m.track = w.demo.selected["audio"]
  OBVIOUS
<1>3. "audio" \in Types /\ w.app.playWhenReady \in BOOLEAN /\ w.app.flags \subseteq Types
  BY WorldTypes DEF Types, Good
<1>4. /\ "PLAY" \in Quiet /\ "ENABLE" \in Quiet /\ "SELECT" \in Quiet
      /\ "PLAY" \in Switching /\ "ENABLE" \in Switching
  BY DEF Quiet, Switching
<1>5. Plays(w, w1, c, FALSE, Quiet)
  BY <1>4, setPlayWhenReadyGoes, Zenon
<1> HIDE DEF w1
<1>6. Good(w1, c)
  BY <1>5 DEF Plays, Goes
<1>7. Switches(w1, w2, c, "audio", FALSE, Quiet)
  BY <1>3, <1>4, <1>6, setRendererEnabledGoes, Zenon
<1> HIDE DEF w2
<1>8. Good(w2, c) /\ w2.app.flags = w.app.flags \ {"audio"}
  BY <1>5, <1>7 DEF Plays, Switches, Switched, Goes
<1>9. /\ Goes(w2, w3, c, Quiet) /\ w3.app = w2.app
      /\ \A now : Latest(w3.inbox, Selecting(w.demo.prepared), now) = m
  <2>1. "audio" \notin w2.app.flags
    BY <1>8
  <2> QED
    BY <1>4, <1>8, <2>1, selectionGoes
<1> HIDE DEF w3, m
<1>10. Good(w3, c) /\ w3.app.flags = w.app.flags \ {"audio"}
  BY <1>8, <1>9 DEF Goes
<1>11. Switches(w3, w4, c, "audio", TRUE, Quiet)
       /\ Switches(w3, w4, c, "audio", TRUE, Switching)
  BY <1>3, <1>4, <1>10, setRendererEnabledGoes, Zenon
<1> HIDE DEF w4
<1>12. Good(w4, c) /\ w4.app.flags = w.app.flags \cup {"audio"}
  BY <1>10, <1>11 DEF Switches, Switched, Goes
<1>13. Plays(w4, v, c, w.app.playWhenReady, Quiet)
       /\ Plays(w4, v, c, w.app.playWhenReady, Switching)
  BY <1>1, <1>3, <1>4, <1>12, setPlayWhenReadyGoes, Zenon
<1>14. Goes(w, v, c, Quiet)
  <2>1. Goes(w, w2, c, Quiet)
    BY <1>5, <1>7, GoesOn DEF Plays, Switches
  <2>2. Goes(w, w3, c, Quiet)
    BY <1>9, <2>1, GoesOn
  <2>3. Goes(w, w4, c, Quiet)
    BY <1>11, <2>2, GoesOn DEF Switches
  <2> QED
    BY <1>13, <2>3, GoesOn DEF Plays
<1>15. /\ v.app.flags = w.app.flags \cup {"audio"}
       /\ v.app.playWhenReady <=> w.app.playWhenReady
  BY <1>12, <1>13, Zenon DEF Plays
<1>16. ASSUME NEW now PROVE Latest(v.inbox, Selecting(w.demo.prepared), now) = m
  <2>1. Goes(w3, v, c, Switching)
    BY <1>10, <1>11, <1>13, GoesOn DEF Plays, Switches
  <2>2. SameSelections(w3.inbox, v.inbox)
    BY <1>10, <2>1, SelectionStays, Zenon
  <2>3. Latest(v.inbox, Selecting(w.demo.prepared), now)
          = Latest(w3.inbox, Selecting(w.demo.prepared), now)
    BY <2>2, Zenon DEF SameSelections
  <2> QED
    BY <1>9, <2>3, Zenon
<1> QED
  BY <1>2, <1>14, <1>15, <1>16, Zenon

LEMMA pushAudioGoes ==
  ASSUME NEW c, NEW w, Good(w, c), w.demo.building = "BUILT", w.demo.prepared \in Sessions,
         NEW v, v = pushTrackSelection(w, "audio", TRUE)
  PROVE  /\ Goes(w, v, c, Quiet)
         /\ "audio" \in v.app.flags <=> w.demo.selected["audio"] # DISABLED
         /\ "video" \in v.app.flags <=> "video" \in w.app.flags
         /\ v.app.playWhenReady <=> w.app.playWhenReady
         /\ builder.multi /\ w.demo.selected["audio"] # DISABLED =>
              \A now : Latest(v.inbox, Selecting(w.demo.prepared), now).track
                         = w.demo.selected["audio"]
<1> DEFINE track == w.demo.selected["audio"]
<1>1. "audio" \in Types /\ track \in Tracks \cup {DISABLED} /\ "ENABLE" \in Quiet
  BY WorldTypes DEF Types, Good, Quiet
<1>2. CASE track = DISABLED
  <2>1. v = setRendererEnabled(w, "audio", FALSE)
    BY <1>2, Zenon DEF pushTrackSelection
  <2>2. Switches(w, v, c, "audio", FALSE, Quiet)
    BY <1>1, <2>1, setRendererEnabledGoes, Zenon
  <2>3. v.app.flags = w.app.flags \ {"audio"}
    BY <2>2 DEF Switches, Switched
  <2>4. "audio" \notin v.app.flags /\ ("video" \in v.app.flags <=> "video" \in w.app.flags)
    BY <2>3
  <2> QED
    BY <1>2, <2>2, <2>4, Zenon DEF Switches
<1>3. CASE track # DISABLED /\ builder.multi
  <2>1. v = SelectTrack(w, "audio", TRUE)
    BY <1>3, Zenon DEF pushTrackSelection
  <2>2. track \in Tracks
    BY <1>1, <1>3
  <2>3. /\ Goes(w, v, c, Quiet) /\ v.app.flags = w.app.flags \cup {"audio"}
        /\ v.app.playWhenReady <=> w.app.playWhenReady
        /\ \A now : Latest(v.inbox, Selecting(w.demo.prepared), now).track = track
    BY <2>1, <2>2, SelectTrackGoes
  <2>4. "audio" \in v.app.flags /\ ("video" \in v.app.flags <=> "video" \in w.app.flags)
    BY <2>3
  <2> QED
    BY <1>3, <2>3, <2>4, Zenon
<1>4. CASE track # DISABLED /\ ~builder.multi
  <2>1. v = setRendererEnabled(w, "audio", TRUE)
    BY <1>4, Zenon DEF pushTrackSelection
  <2>2. Switches(w, v, c, "audio", TRUE, Quiet)
    BY <1>1, <2>1, setRendererEnabledGoes, Zenon
  <2>3. v.app.flags = w.app.flags \cup {"audio"}
    BY <2>2 DEF Switches, Switched
  <2>4. "audio" \in v.app.flags /\ ("video" \in v.app.flags <=> "video" \in w.app.flags)
    BY <2>3
  <2> QED
    BY <1>4, <2>2, <2>4, Zenon DEF Switches
<1> QED
  BY <1>2, <1>3, <1>4

LEMMA pushVideoGoes ==
  ASSUME NEW c, NEW w, Good(w, c), w.demo.building = "BUILT", NEW allow \in BOOLEAN,
         NEW sorts, "ENABLE" \in sorts,
         NEW v, v = pushTrackSelection(w, "video", allow)
  PROVE  /\ Goes(w, v, c, sorts)
         /\ "video" \in v.app.flags <=> allow /\ w.demo.selected["video"] # DISABLED
         /\ "audio" \in v.app.flags <=> "audio" \in w.app.flags
         /\ v.app.playWhenReady <=> w.app.playWhenReady
<1> DEFINE flag == allow /\ w.demo.selected["video"] # DISABLED
<1>1. "video" \in Types /\ flag \in BOOLEAN
  BY DEF Types
<1>2. v = setRendererEnabled(w, "video", flag)
  <2>1. CASE w.demo.selected["video"] = DISABLED
    <3>1. v = setRendererEnabled(w, "video", FALSE)
      BY <2>1, Zenon DEF pushTrackSelection
    <3>2. flag = FALSE
      BY <2>1
    <3> QED
      BY <3>1, <3>2, Zenon
  <2>2. CASE w.demo.selected["video"] # DISABLED
    <3>1. "video" # "audio"
      OBVIOUS
    <3>2. v = setRendererEnabled(w, "video", allow)
      BY <2>2, <3>1, Zenon DEF pushTrackSelection
    <3>3. flag = allow
      BY <2>2
    <3> QED
      BY <3>2, <3>3, Zenon
  <2> QED
    BY <2>1, <2>2
<1> HIDE DEF flag
<1>3. Switches(w, v, c, "video", flag, sorts)
  BY <1>1, <1>2, setRendererEnabledGoes, Zenon
<1>4. ("video" \in v.app.flags <=> flag) /\ ("audio" \in v.app.flags <=> "audio" \in w.app.flags)
  BY <1>3 DEF Switches, Switched
<1> QED
  BY <1>3, <1>4, Zenon DEF Switches, flag

LEMMA surfaceGoes ==
  ASSUME NEW c, NEW w, Good(w, c), w.demo.prepared \in Sessions,
         NEW sorts, "SURFACE" \in sorts
  PROVE  /\ Goes(w, PushSurface(w), c, sorts)
         /\ PushSurface(w).app = w.app
         /\ PushSurface(w).demo = w.demo
         /\ \A now : Latest(PushSurface(w).inbox, Surfacing(w.demo.prepared), now).surface
                       <=> w.demo.surface
<1> DEFINE m == [what |-> "SURFACE", session |-> w.demo.prepared, surface |-> w.demo.surface]
           v == PushSurface(w)
<1>0. w \in Worlds /\ Asked(w, c) /\ Silence(w.inbox, c.flags)
  BY DEF Good
<1>1. m \in Message /\ m.what = "SURFACE" /\ m.session = w.demo.prepared
  <2>1. w.demo.surface \in BOOLEAN
    BY <1>0, WorldTypes
  <2> QED
    BY <2>1, Posted
<1>2. m \in Surfacing(w.demo.prepared)
  BY <1>1, KindsAre
<1>3. v = Post(w, m)
  BY DEF PushSurface
<1>4. m.surface <=> w.demo.surface
  OBVIOUS
<1> HIDE DEF m, v
<1>5. v \in Worlds /\ v.demo = w.demo /\ v.app = w.app /\ v.inbox = Append(w.inbox, m)
  BY <1>0, <1>1, <1>3, PostIs
<1>6. w.inbox \in Seq(Message)
  BY <1>0, WorldTypes
<1>7. Asked(v, c)
  BY <1>0, <1>1, <1>5, AskedOther
<1>8. Silence(v.inbox, c.flags)
  BY <1>0, <1>1, <1>5, <1>6, SilenceAppend
<1>9. Extends(w.inbox, v.inbox, sorts)
  BY <1>1, <1>5, <1>6, ExtendsAppend
<1>10. \A now : Latest(v.inbox, Surfacing(w.demo.prepared), now) = m
  BY <1>1, <1>2, <1>5, <1>6, LatestAppend
<1>11. Told(w) => Told(v)
  BY <1>5 DEF Told, getPlaybackState
<1>12. SameDemo(w, v)
  BY <1>5 DEF SameDemo
<1>13. Goes(w, v, c, sorts)
  BY <1>5, <1>7, <1>8, <1>9, <1>11, <1>12, Zenon DEF Goes, Good
<1> QED
  BY <1>4, <1>5, <1>10, <1>13, Zenon DEF v

Shown == {"SURFACE", "ENABLE"}

LEMMA pushSurfaceGoes ==
  ASSUME NEW c, NEW w, Good(w, c), w.demo.building = "BUILT",
         w.demo.prepared \in Sessions, NEW valid \in BOOLEAN,
         NEW v, v = pushSurfaceAndVideoTrack(w, valid)
  PROVE  /\ Goes(w, v, c, Shown)
         /\ \A now : Latest(v.inbox, Surfacing(w.demo.prepared), now).surface
                       <=> w.demo.surface
         /\ "video" \in v.app.flags <=>
              w.demo.surface /\ valid /\ w.demo.selected["video"] # DISABLED
         /\ "audio" \in v.app.flags <=> "audio" \in w.app.flags
         /\ v.app.playWhenReady <=> w.app.playWhenReady
<1> DEFINE x == PushSurface(w)
           allow == w.demo.surface /\ valid
<1>1. v = pushTrackSelection(x, "video", allow)
  BY Zenon DEF pushSurfaceAndVideoTrack
<1>2. /\ allow \in BOOLEAN /\ "SURFACE" \in Shown /\ "ENABLE" \in Shown
      /\ "ENABLE" \in {"ENABLE"}
  BY DEF Shown
<1>3. /\ Goes(w, x, c, Shown) /\ x.app = w.app /\ x.demo = w.demo
      /\ \A now : Latest(x.inbox, Surfacing(w.demo.prepared), now).surface <=> w.demo.surface
  BY <1>2, surfaceGoes
<1> HIDE DEF x
<1>4. Good(x, c) /\ x.demo.building = "BUILT"
  BY <1>3 DEF Goes
<1>5. /\ Goes(x, v, c, Shown) /\ Goes(x, v, c, {"ENABLE"})
      /\ "video" \in v.app.flags <=> allow /\ x.demo.selected["video"] # DISABLED
      /\ "audio" \in v.app.flags <=> "audio" \in x.app.flags
      /\ v.app.playWhenReady <=> x.app.playWhenReady
  BY <1>1, <1>2, <1>4, pushVideoGoes
<1>7. Goes(w, v, c, Shown)
  BY <1>3, <1>5, GoesOn
<1>8. ASSUME NEW now
      PROVE  Latest(v.inbox, Surfacing(w.demo.prepared), now).surface <=> w.demo.surface
  <2>1. x.inbox \in Seq(Message) /\ v.inbox \in Seq(Message)
    BY <1>4, <1>5, WorldTypes DEF Goes, Good
  <2>2. Extends(x.inbox, v.inbox, {"ENABLE"})
    BY <1>5 DEF Goes
  <2>3. \A m \in Surfacing(w.demo.prepared) : m.what \notin {"ENABLE"}
    BY KindsSort
  <2>4. Latest(v.inbox, Surfacing(w.demo.prepared), now)
          = Latest(x.inbox, Surfacing(w.demo.prepared), now)
    BY <2>1, <2>2, <2>3, DueExtends
  <2> QED
    BY <1>3, <2>4, Zenon
<1>9. "video" \in v.app.flags <=> w.demo.surface /\ valid /\ w.demo.selected["video"] # DISABLED
  BY <1>3, <1>5, Zenon
<1> QED
  BY <1>1, <1>3, <1>5, <1>7, <1>8, <1>9, Zenon
-----------------------------------------------------------------------------
(* What is due to renderers that are built, after each call.               *)
Talk == {"SURFACE", "SELECT", "ENABLE", "PLAY"}

\* The video renderer will have the surface.
ShownAs(w, s) ==
  w.demo.building = "BUILT" =>
    (Latest(w.inbox, Surfacing(w.demo.prepared), SurfaceNow(w.demo.prepared, s)).surface
       <=> w.demo.surface)
\* It is enabled as the activity wants.
VideoAs(w, valid) ==
  w.demo.building = "BUILT" =>
    ("video" \in w.app.flags
       <=> w.demo.surface /\ valid /\ w.demo.selected["video"] # DISABLED)
\* The audio renderer is enabled if a track is selected, and will have that track.
HeardAs(w, t, multi) ==
  w.demo.building = "BUILT" =>
    /\ "audio" \in w.app.flags <=> w.demo.selected["audio"] # DISABLED
    /\ multi /\ w.demo.selected["audio"] # DISABLED =>
         Latest(w.inbox, Selecting(w.demo.prepared), TrackNow(w.demo.prepared, t)).track
           = w.demo.selected["audio"]

\* A call that changes nothing of the preparation.
Calm(w, v, c) ==
  /\ Good(v, c)
  /\ v.demo.building = w.demo.building /\ v.demo.prepared = w.demo.prepared
  /\ v.demo.waits <=> w.demo.waits
  /\ v.app.state = w.app.state
  /\ Extends(w.inbox, v.inbox, Talk)
  /\ Told(w) => Told(v)

Named(w) == w.demo.building = "BUILT" => w.demo.prepared \in Sessions

LEMMA GoesCalm ==
  ASSUME NEW c, NEW w, NEW v, NEW sorts, sorts \subseteq Talk, Goes(w, v, c, sorts)
  PROVE  Calm(w, v, c)
<1>1. Extends(w.inbox, v.inbox, Talk)
  BY ExtendsMore DEF Goes
<1> QED
  BY <1>1 DEF Goes, Calm, SameDemo

LEMMA CalmOn ==
  ASSUME NEW c, NEW w, NEW v, NEW u, Good(w, c), Calm(w, v, c), Calm(v, u, c)
  PROVE  Calm(w, u, c)
<1>1. w.inbox \in Seq(Message) /\ v.inbox \in Seq(Message) /\ u.inbox \in Seq(Message)
  BY WorldTypes DEF Good, Calm
<1>2. Extends(w.inbox, v.inbox, Talk) /\ Extends(v.inbox, u.inbox, Talk)
  BY DEF Calm
<1>3. Extends(w.inbox, u.inbox, Talk)
  BY <1>1, <1>2, ExtendsTrans
<1> QED
  BY <1>3 DEF Calm

SortsAre == Quiet \subseteq Talk /\ Shown \subseteq Talk /\ {"PLAY"} \subseteq Talk

LEMMA Sorts == SortsAre
BY DEF SortsAre, Talk, Quiet, Shown

\* The surfaces, or the tracks, due are the same.
SameSurfaces(p, q) ==
  \A k, now : Latest(q, Surfacing(k), now) = Latest(p, Surfacing(k), now)

LEMMA QuietSurfaces ==
  ASSUME NEW c, NEW w, NEW v, Good(w, c), Goes(w, v, c, Quiet)
  PROVE  SameSurfaces(w.inbox, v.inbox)
<1>1. w.inbox \in Seq(Message) /\ v.inbox \in Seq(Message)
  BY WorldTypes DEF Goes, Good
<1>2. Extends(w.inbox, v.inbox, Quiet)
  BY DEF Goes
<1>3. ASSUME NEW k, NEW now
      PROVE  Latest(v.inbox, Surfacing(k), now) = Latest(w.inbox, Surfacing(k), now)
  <2>1. \A x \in Surfacing(k) : x.what \notin Quiet
    BY KindsSort DEF Quiet
  <2> QED
    BY <1>1, <1>2, <2>1, DueExtends
<1> QED
  BY <1>3, Zenon DEF SameSurfaces

LEMMA ShownSelections ==
  ASSUME NEW c, NEW w, NEW v, Good(w, c), Goes(w, v, c, Shown)
  PROVE  SameSelections(w.inbox, v.inbox)
<1>1. w.inbox \in Seq(Message) /\ v.inbox \in Seq(Message)
  BY WorldTypes DEF Goes, Good
<1>2. Extends(w.inbox, v.inbox, Shown)
  BY DEF Goes
<1>3. ASSUME NEW k, NEW now
      PROVE  Latest(v.inbox, Selecting(k), now) = Latest(w.inbox, Selecting(k), now)
  <2>1. \A x \in Selecting(k) : x.what \notin Shown
    BY KindsSort DEF Shown
  <2> QED
    BY <1>1, <1>2, <2>1, DueExtends
<1> QED
  BY <1>3, Zenon DEF SameSelections

\* The surface is pushed, whether or not there are renderers.
Shows(w, v, c, s, valid) ==
  /\ Calm(w, v, c)
  /\ v.demo.surface <=> w.demo.surface
  /\ v.demo.selected = w.demo.selected
  /\ v.app.playWhenReady <=> w.app.playWhenReady
  /\ ShownAs(v, s) /\ VideoAs(v, valid)
  /\ \A t, multi : HeardAs(w, t, multi) => HeardAs(v, t, multi)

LEMMA showSurface ==
  ASSUME NEW c, NEW w, Good(w, c), Named(w), NEW valid \in BOOLEAN, NEW s,
         NEW v, v = pushSurfaceAndVideoTrack(w, valid)
  PROVE  Shows(w, v, c, s, valid)
<1>1. CASE w.demo.building # "BUILT"
  <2>1. v = w
    BY <1>1, Zenon DEF pushSurfaceAndVideoTrack
  <2>2. Calm(w, w, c)
    BY GoesNowhere, Sorts, GoesCalm DEF SortsAre
  <2>3. ShownAs(w, s) /\ VideoAs(w, valid)
    BY <1>1, Zenon DEF ShownAs, VideoAs
  <2> QED
    BY <2>1, <2>2, <2>3, Zenon DEF Shows
<1>2. CASE w.demo.building = "BUILT"
  <2>1. w.demo.prepared \in Sessions
    BY <1>2 DEF Named
  <2>2. /\ Goes(w, v, c, Shown)
        /\ \A now : Latest(v.inbox, Surfacing(w.demo.prepared), now).surface
                      <=> w.demo.surface
        /\ "video" \in v.app.flags <=>
             w.demo.surface /\ valid /\ w.demo.selected["video"] # DISABLED
        /\ "audio" \in v.app.flags <=> "audio" \in w.app.flags
        /\ v.app.playWhenReady <=> w.app.playWhenReady
    BY <1>2, <2>1, pushSurfaceGoes
  <2>3. Calm(w, v, c)
    BY <2>2, Sorts, GoesCalm DEF SortsAre
  <2>4. SameDemo(w, v)
    BY <2>2 DEF Goes
  <2>5. ShownAs(v, s)
    BY <2>2, <2>4, Zenon DEF ShownAs, SameDemo
  <2>6. VideoAs(v, valid)
    BY <2>2, <2>4, Zenon DEF VideoAs, SameDemo
  <2>7. SameSelections(w.inbox, v.inbox)
    BY <2>2, ShownSelections, Zenon
  <2>8. ASSUME NEW t, NEW multi, HeardAs(w, t, multi) PROVE HeardAs(v, t, multi)
    BY <1>2, <2>2, <2>4, <2>7, <2>8, Zenon DEF HeardAs, SameDemo, SameSelections
  <2> QED
    BY <2>2, <2>3, <2>4, <2>5, <2>6, <2>8, Zenon DEF Shows, SameDemo
<1> QED
  BY <1>1, <1>2

\* The audio track is pushed.
Hears(w, v, c, t) ==
  /\ Calm(w, v, c)
  /\ v.demo.surface <=> w.demo.surface
  /\ v.demo.selected = w.demo.selected
  /\ v.app.playWhenReady <=> w.app.playWhenReady
  /\ HeardAs(v, t, builder.multi)
  /\ \A s : ShownAs(w, s) => ShownAs(v, s)
  /\ \A valid : VideoAs(w, valid) => VideoAs(v, valid)

LEMMA hearTrack ==
  ASSUME NEW c, NEW w, Good(w, c), Named(w), NEW t,
         NEW v, v = pushTrackSelection(w, "audio", TRUE)
  PROVE  Hears(w, v, c, t)
<1>1. CASE w.demo.building # "BUILT"
  <2>1. v = w
    BY <1>1, Zenon DEF pushTrackSelection
  <2>2. Calm(w, w, c)
    BY GoesNowhere, Sorts, GoesCalm DEF SortsAre
  <2>3. HeardAs(w, t, builder.multi)
    BY <1>1, Zenon DEF HeardAs
  <2> QED
    BY <2>1, <2>2, <2>3, Zenon DEF Hears
<1>2. CASE w.demo.building = "BUILT"
  <2>1. w.demo.prepared \in Sessions
    BY <1>2 DEF Named
  <2>2. /\ Goes(w, v, c, Quiet)
        /\ "audio" \in v.app.flags <=> w.demo.selected["audio"] # DISABLED
        /\ "video" \in v.app.flags <=> "video" \in w.app.flags
        /\ v.app.playWhenReady <=> w.app.playWhenReady
        /\ builder.multi /\ w.demo.selected["audio"] # DISABLED =>
             \A now : Latest(v.inbox, Selecting(w.demo.prepared), now).track
                        = w.demo.selected["audio"]
    BY <1>2, <2>1, pushAudioGoes
  <2>3. Calm(w, v, c)
    BY <2>2, Sorts, GoesCalm DEF SortsAre
  <2>4. SameDemo(w, v)
    BY <2>2 DEF Goes
  <2>5. HeardAs(v, t, builder.multi)
    BY <2>2, <2>4, Zenon DEF HeardAs, SameDemo
  <2>6. SameSurfaces(w.inbox, v.inbox)
    BY <2>2, QuietSurfaces, Zenon
  <2>7. ASSUME NEW s, ShownAs(w, s) PROVE ShownAs(v, s)
    BY <1>2, <2>4, <2>6, <2>7, Zenon DEF ShownAs, SameDemo, SameSurfaces
  <2>8. ASSUME NEW valid, VideoAs(w, valid) PROVE VideoAs(v, valid)
    BY <1>2, <2>2, <2>4, <2>8, Zenon DEF VideoAs, SameDemo
  <2> QED
    BY <2>2, <2>3, <2>4, <2>5, <2>7, <2>8, Zenon DEF Hears, SameDemo
<1> QED
  BY <1>1, <1>2

\* A call that leaves what is due as it is.
Keeps(w, v, c) ==
  /\ Calm(w, v, c)
  /\ v.demo.surface <=> w.demo.surface
  /\ v.demo.selected = w.demo.selected
  /\ \A s : ShownAs(w, s) => ShownAs(v, s)
  /\ \A valid : VideoAs(w, valid) => VideoAs(v, valid)
  /\ \A t, multi : HeardAs(w, t, multi) => HeardAs(v, t, multi)

LEMMA playKeeps ==
  ASSUME NEW c, NEW w, Good(w, c), NEW play \in BOOLEAN,
         NEW v, v = setPlayWhenReady(w, play)
  PROVE  Keeps(w, v, c) /\ (v.app.playWhenReady <=> play)
<1>1. Plays(w, v, c, play, Quiet) /\ Plays(w, v, c, play, Switching)
  <2>1. "PLAY" \in Quiet /\ "PLAY" \in Switching
    BY DEF Quiet, Switching
  <2> QED
    BY <2>1, setPlayWhenReadyGoes, Zenon
<1>2. Goes(w, v, c, Quiet) /\ Goes(w, v, c, Switching) /\ v.app.flags = w.app.flags
      /\ (v.app.playWhenReady <=> play)
  BY <1>1 DEF Plays
<1>3. SameSurfaces(w.inbox, v.inbox) /\ SameSelections(w.inbox, v.inbox)
  BY <1>2, QuietSurfaces, SelectionStays, Zenon
<1>4. Calm(w, v, c)
  BY <1>2, Sorts, GoesCalm DEF SortsAre
<1>5. SameDemo(w, v)
  BY <1>2 DEF Goes
<1>6. ASSUME NEW s, ShownAs(w, s) PROVE ShownAs(v, s)
  BY <1>3, <1>5, <1>6, Zenon DEF ShownAs, SameDemo, SameSurfaces
<1>7. ASSUME NEW valid, VideoAs(w, valid) PROVE VideoAs(v, valid)
  BY <1>2, <1>5, <1>7, Zenon DEF VideoAs, SameDemo
<1>8. ASSUME NEW t, NEW multi, HeardAs(w, t, multi) PROVE HeardAs(v, t, multi)
  BY <1>2, <1>3, <1>5, <1>8, Zenon DEF HeardAs, SameDemo, SameSelections
<1> QED
  BY <1>2, <1>4, <1>5, <1>6, <1>7, <1>8, Zenon DEF Keeps, SameDemo

LEMMA KeepsSelf ==
  ASSUME NEW c, NEW w, Good(w, c)
  PROVE  Keeps(w, w, c)
<1>1. Calm(w, w, c)
  BY GoesNowhere, Sorts, GoesCalm DEF SortsAre
<1> QED
  BY <1>1, Zenon DEF Keeps

LEMMA startKeeps ==
  ASSUME NEW c, NEW w, Good(w, c), NEW autoPlay, NEW valid,
         NEW v, v = maybeStartPlayback(w, autoPlay, valid)
  PROVE  Keeps(w, v, c)
<1>1. v = w \/ v = setPlayWhenReady(w, TRUE)
  BY Zenon DEF maybeStartPlayback
<1>2. TRUE \in BOOLEAN
  OBVIOUS
<1>3. CASE v = w
  BY <1>3, KeepsSelf, Zenon
<1>4. CASE v = setPlayWhenReady(w, TRUE)
  BY <1>2, <1>4, playKeeps, Zenon
<1> QED
  BY <1>1, <1>3, <1>4, Zenon

\* The surface is set or cleared in the demo player.
WithSurface(w, x, c, surface) ==
  /\ Calm(w, x, c) /\ (x.demo.surface <=> surface)
  /\ x.demo.selected = w.demo.selected
  /\ x.app = w.app /\ x.inbox = w.inbox
  /\ \A t, multi : HeardAs(w, t, multi) => HeardAs(x, t, multi)

LEMMA withSurface ==
  ASSUME NEW c, NEW w, Good(w, c), NEW surface \in BOOLEAN,
         NEW x, x = [w EXCEPT !.demo.surface = surface]
  PROVE  WithSurface(w, x, c, surface)
<1>1. w \in Worlds /\ w.demo \in Demos
  BY WorldTypes DEF Good
<1>2. x.demo \in Demos /\ x.demo.building = w.demo.building
      /\ x.demo.prepared = w.demo.prepared /\ x.demo.selected = w.demo.selected
      /\ x.demo.reported = w.demo.reported
  BY <1>1 DEF Worlds, Demos
<1>3. (x.demo.waits <=> w.demo.waits) /\ (x.demo.surface <=> surface)
  BY <1>1 DEF Worlds, Demos
<1>4. x \in Worlds /\ x.app = w.app /\ x.inbox = w.inbox
  BY <1>1, <1>2 DEF Worlds
<1>5. Asked(x, c) /\ Silence(x.inbox, c.flags)
  BY <1>4, Zenon DEF Good, Asked
<1>6. Told(w) => Told(x)
  BY <1>2, <1>4, Zenon DEF Told, getPlaybackState
<1>7. Extends(w.inbox, x.inbox, Talk)
  <2>1. w.inbox \in Seq(Message)
    BY <1>1, WorldTypes
  <2> QED
    BY <1>4, <2>1, ExtendsSelf
<1>8. \A t, multi : HeardAs(w, t, multi) => HeardAs(x, t, multi)
  BY <1>2, <1>4, Zenon DEF HeardAs
<1>9. Calm(w, x, c)
  BY <1>2, <1>3, <1>4, <1>5, <1>6, <1>7, Zenon DEF Calm, Good
<1> QED
  BY <1>2, <1>3, <1>4, <1>8, <1>9, Zenon DEF WithSurface

\* A track is selected in the demo player.
WithSelected(w, x, c, type) ==
  /\ Calm(w, x, c) /\ (x.demo.surface <=> w.demo.surface)
  /\ \A other \in Types : other # type =>
       x.demo.selected[other] = w.demo.selected[other]
  /\ x.app = w.app /\ x.inbox = w.inbox

LEMMA withSelected ==
  ASSUME NEW c, NEW w, Good(w, c), NEW type \in Types, NEW track \in Tracks \cup {DISABLED},
         NEW x, x = [w EXCEPT !.demo.selected[type] = track]
  PROVE  WithSelected(w, x, c, type)
<1>1. w \in Worlds /\ w.demo \in Demos
  BY WorldTypes DEF Good
<1>2. w.demo.selected \in [Types -> Tracks \cup {DISABLED}]
  BY <1>1 DEF Demos
<1>3. [w.demo.selected EXCEPT ![type] = track] \in [Types -> Tracks \cup {DISABLED}]
      /\ \A other \in Types : other # type =>
           [w.demo.selected EXCEPT ![type] = track][other] = w.demo.selected[other]
  BY <1>2
<1>4. PICK chosen : chosen = [w.demo.selected EXCEPT ![type] = track]
  OBVIOUS
<1>5. x = [w EXCEPT !.demo.selected = chosen]
  BY <1>4
<1>6. x.demo \in Demos /\ x.demo.building = w.demo.building
      /\ x.demo.prepared = w.demo.prepared /\ x.demo.selected = chosen
      /\ x.demo.reported = w.demo.reported
  <2>1. chosen \in [Types -> Tracks \cup {DISABLED}]
    BY <1>3, <1>4
  <2>2. x.demo = [w.demo EXCEPT !.selected = chosen]
    BY <1>1, <1>5 DEF Worlds
  <2>3. [w.demo EXCEPT !.selected = chosen] \in Demos
    BY <1>1, <2>1 DEF Demos
  <2> QED
    BY <1>1, <2>2, <2>3 DEF Demos
<1>7. (x.demo.waits <=> w.demo.waits) /\ (x.demo.surface <=> w.demo.surface)
  BY <1>1, <1>5 DEF Worlds, Demos
<1>8. x \in Worlds /\ x.app = w.app /\ x.inbox = w.inbox
  BY <1>1, <1>5, <1>6 DEF Worlds
<1>9. Asked(x, c) /\ Silence(x.inbox, c.flags)
  BY <1>8, Zenon DEF Good, Asked
<1>10. Told(w) => Told(x)
  BY <1>6, <1>8, Zenon DEF Told, getPlaybackState
<1>11. Extends(w.inbox, x.inbox, Talk)
  <2>1. w.inbox \in Seq(Message)
    BY <1>1, WorldTypes
  <2> QED
    BY <1>8, <2>1, ExtendsSelf
<1>12. Calm(w, x, c)
  BY <1>6, <1>7, <1>8, <1>9, <1>10, <1>11, Zenon DEF Calm, Good
<1>13. \A other \in Types : other # type => x.demo.selected[other] = w.demo.selected[other]
  BY <1>3, <1>4, <1>6
<1> QED
  BY <1>7, <1>8, <1>12, <1>13, Zenon DEF WithSelected

\* There is a surface again.
Surfaced(w, v, c, s, valid) ==
  /\ Calm(w, v, c)
  /\ v.demo.selected = w.demo.selected
  /\ ShownAs(v, s) /\ VideoAs(v, valid)
  /\ \A t, multi : HeardAs(w, t, multi) => HeardAs(v, t, multi)

LEMMA setSurfaceIs ==
  ASSUME NEW c, NEW w, Good(w, c), Named(w), NEW valid \in BOOLEAN, NEW s,
         NEW v, v = setSurface(w, valid)
  PROVE  Surfaced(w, v, c, s, valid)
<1>0. PICK yes \in BOOLEAN : yes = TRUE
  OBVIOUS
<1>1. PICK x : x = [w EXCEPT !.demo.surface = yes]
  OBVIOUS
<1>2. v = pushSurfaceAndVideoTrack(x, valid)
  BY <1>0, <1>1, Zenon DEF setSurface
<1>3. /\ Calm(w, x, c) /\ x.demo.selected = w.demo.selected
      /\ \A t, multi : HeardAs(w, t, multi) => HeardAs(x, t, multi)
  <2>1. WithSurface(w, x, c, yes)
    BY <1>1, withSurface
  <2> QED
    BY <2>1, Zenon DEF WithSurface
<1>4. Good(x, c) /\ Named(x)
  BY <1>3 DEF Calm, Named
<1>5. Shows(x, v, c, s, valid)
  BY <1>2, <1>4, showSurface
<1>6. Calm(w, v, c)
  BY <1>3, <1>5, CalmOn DEF Shows
<1> QED
  BY <1>3, <1>5, <1>6, Zenon DEF Surfaced, Shows

\* The renderers are there, told of the surface and the track, and PREPARE is last.
Built(w, v, c, s, t, valid) ==
  /\ Good(v, c) /\ Told(v)
  /\ v.demo.building = "BUILT" /\ ~v.demo.waits
  /\ v.demo.prepared = w.demo.prepared
  /\ ShownAs(v, s) /\ VideoAs(v, valid) /\ HeardAs(v, t, builder.multi)
  /\ \E q \in Seq(Message) :
       /\ Extends(w.inbox, q, Talk)
       /\ v.inbox = Append(q, [what |-> "PREPARE", session |-> w.demo.prepared])

LEMMA preparePosted ==
  ASSUME NEW c, NEW w, Good(w, c), w.demo.prepared \in Sessions,
         NEW m \in Message, m.what = "PREPARE", NEW v, v = Post(w, m)
  PROVE  /\ Good(v, c) /\ v.demo = w.demo /\ v.app = w.app
         /\ v.inbox = Append(w.inbox, m)
         /\ \A s : ShownAs(w, s) => ShownAs(v, s)
         /\ \A valid : VideoAs(w, valid) => VideoAs(v, valid)
         /\ \A t, multi : HeardAs(w, t, multi) => HeardAs(v, t, multi)
<1>0. w \in Worlds /\ Asked(w, c) /\ Silence(w.inbox, c.flags) /\ w.inbox \in Seq(Message)
  BY WorldTypes DEF Good
<1>2. v \in Worlds /\ v.demo = w.demo /\ v.app = w.app /\ v.inbox = Append(w.inbox, m)
  BY <1>0, PostIs
<1>3. Asked(v, c)
  BY <1>0, <1>2, AskedOther
<1>4. Silence(v.inbox, c.flags)
  BY <1>0, <1>2, SilenceAppend
<1>5. \A k : m \notin Surfacing(k) /\ m \notin Selecting(k)
  BY KindsAre
<1>6. SameSurfaces(w.inbox, v.inbox) /\ SameSelections(w.inbox, v.inbox)
  <2>1. \A K, now : m \notin K => Latest(v.inbox, K, now) = Latest(w.inbox, K, now)
    BY <1>0, <1>2, LatestAppend
  <2> QED
    BY <1>5, <2>1, Zenon DEF SameSurfaces, SameSelections
<1>7. ASSUME NEW s, ShownAs(w, s) PROVE ShownAs(v, s)
  <2>1. v.demo.building = w.demo.building /\ v.demo.prepared = w.demo.prepared
        /\ v.demo.surface = w.demo.surface
    BY <1>2
  <2> QED
    BY <1>6, <1>7, <2>1, Zenon DEF ShownAs, SameSurfaces
<1>8. \A valid : VideoAs(w, valid) => VideoAs(v, valid)
  BY <1>2, Zenon DEF VideoAs
<1>9. \A t, multi : HeardAs(w, t, multi) => HeardAs(v, t, multi)
  BY <1>2, <1>6, Zenon DEF HeardAs, SameSelections
<1> QED
  BY <1>2, <1>3, <1>4, <1>7, <1>8, <1>9, Zenon DEF Good

LEMMA onRenderersIs ==
  ASSUME NEW c, NEW w, Good(w, c), w.demo.prepared \in Sessions, NEW valid \in BOOLEAN,
         NEW s, NEW t, NEW v, v = onRenderers(w, valid)
  PROVE  Built(w, v, c, s, t, valid)
<1>1. PICK built : built = [w EXCEPT !.demo.building = "BUILT", !.demo.waits = FALSE,
                                     !.demo.named = TRUE]
  OBVIOUS
<1>2. PICK told : told = maybeReportPlayerState(built)
  OBVIOUS
<1>3. PICK pushed : pushed = pushSurfaceAndVideoTrack(told, valid)
  OBVIOUS
<1>4. PICK heard : heard = pushTrackSelection(pushed, "audio", TRUE)
  OBVIOUS
<1>5. PICK m : m = [what |-> "PREPARE", session |-> w.demo.prepared]
  OBVIOUS
<1>6. v = Post(heard, m)
  BY <1>1, <1>2, <1>3, <1>4, <1>5, Zenon DEF onRenderers
<1>7. w \in Worlds /\ w.demo \in Demos
  BY WorldTypes DEF Good
<1>8. built.demo \in Demos /\ built.demo.building = "BUILT"
      /\ built.demo.prepared = w.demo.prepared /\ built.demo.selected = w.demo.selected
  BY <1>1, <1>7 DEF Worlds, Demos
<1>9. ~built.demo.waits
  BY <1>1, <1>7 DEF Worlds, Demos
<1>10. built \in Worlds /\ built.app = w.app /\ built.inbox = w.inbox
  BY <1>1, <1>7, <1>8 DEF Worlds
<1>11. /\ told \in Worlds /\ told.app = w.app /\ told.inbox = w.inbox
       /\ SameDemo(built, told) /\ Told(told)
  BY <1>2, <1>10, ReportIs
<1>12. Good(told, c) /\ Named(told)
  <2>1. Asked(told, c) /\ Silence(told.inbox, c.flags)
    BY <1>11, Zenon DEF Good, Asked
  <2>2. told.demo.prepared \in Sessions
    BY <1>8, <1>11 DEF SameDemo
  <2> QED
    BY <1>11, <2>1, <2>2 DEF Good, Named
<1>13. Shows(told, pushed, c, s, valid)
  BY <1>3, <1>12, showSurface
<1>14. Good(pushed, c) /\ Named(pushed)
  BY <1>12, <1>13 DEF Shows, Calm, Named
<1>15. Hears(pushed, heard, c, t)
  BY <1>4, <1>14, hearTrack
<1>16. Calm(told, heard, c)
  BY <1>12, <1>13, <1>15, CalmOn DEF Shows, Hears
<1>17. heard.demo.building = "BUILT" /\ ~heard.demo.waits
       /\ heard.demo.prepared = w.demo.prepared /\ Told(heard) /\ Good(heard, c)
  BY <1>8, <1>9, <1>11, <1>16 DEF Calm, SameDemo
<1>18. ShownAs(heard, s) /\ VideoAs(heard, valid) /\ HeardAs(heard, t, builder.multi)
  BY <1>13, <1>15, Zenon DEF Shows, Hears
<1>19. m \in Message /\ m.what = "PREPARE"
  BY <1>5, Posted
<1>20. /\ Good(v, c) /\ v.demo = heard.demo /\ v.app = heard.app
       /\ v.inbox = Append(heard.inbox, m)
       /\ ShownAs(v, s) /\ VideoAs(v, valid) /\ HeardAs(v, t, builder.multi)
  BY <1>6, <1>17, <1>18, <1>19, preparePosted
<1>21. Told(v)
  BY <1>17, <1>20, Zenon DEF Told, getPlaybackState
<1>22. heard.inbox \in Seq(Message)
  BY <1>17, WorldTypes DEF Good
<1>23. Extends(w.inbox, heard.inbox, Talk)
  BY <1>11, <1>16 DEF Calm
<1> QED
  BY <1>5, <1>17, <1>20, <1>21, <1>22, <1>23, Zenon DEF Built

LEMMA onRenderersErrorIs ==
  ASSUME NEW c, NEW w, Good(w, c), NEW v, v = onRenderersError(w)
  PROVE  /\ Good(v, c) /\ Told(v) /\ v.demo.building = "IDLE" /\ ~v.demo.waits
         /\ v.demo.prepared = w.demo.prepared /\ v.app = w.app /\ v.inbox = w.inbox
<1>1. PICK x : x = [w EXCEPT !.demo.building = "IDLE", !.demo.waits = FALSE]
  OBVIOUS
<1>2. v = maybeReportPlayerState(x)
  BY <1>1, Zenon DEF onRenderersError
<1>3. w \in Worlds /\ w.demo \in Demos
  BY WorldTypes DEF Good
<1>4. x.demo \in Demos /\ x.demo.building = "IDLE" /\ x.demo.prepared = w.demo.prepared
  BY <1>1, <1>3 DEF Worlds, Demos
<1>5. ~x.demo.waits
  BY <1>1, <1>3 DEF Worlds, Demos
<1>6. x \in Worlds /\ x.app = w.app /\ x.inbox = w.inbox
  BY <1>1, <1>3, <1>4 DEF Worlds
<1>7. /\ v \in Worlds /\ v.app = w.app /\ v.inbox = w.inbox
      /\ SameDemo(x, v) /\ Told(v)
  BY <1>2, <1>6, ReportIs
<1>8. Asked(v, c) /\ Silence(v.inbox, c.flags)
  BY <1>7, Zenon DEF Good, Asked
<1> QED
  BY <1>4, <1>5, <1>7, <1>8, Zenon DEF Good, SameDemo

\* A preparation begins: the builder is asked.
LEMMA prepareIs ==
  ASSUME DemoAssumption, NEW c, NEW w, Good(w, c), w.demo.building = "IDLE",
         w.demo.prepared < MaxPrepares, NEW valid \in BOOLEAN,
         NEW s, NEW t, NEW v, v = prepare(w, valid)
  PROVE  /\ v.demo.prepared = w.demo.prepared + 1 /\ v.demo.prepared \in Sessions
         /\ builder.later =>
              /\ Good(v, c) /\ Told(v) /\ v.demo.building = "BUILDING" /\ v.demo.waits
              /\ v.inbox = w.inbox
         /\ ~builder.later =>
              \E x : x.inbox = w.inbox /\ x.demo.prepared = w.demo.prepared + 1
                     /\ Built(x, v, c, s, t, valid)
<1>1. PICK next : next = w.demo.prepared + 1
  OBVIOUS
<1>2. PICK x : x = [w EXCEPT !.demo.building = "BUILDING", !.demo.prepared = next,
                             !.demo.waits = TRUE]
  OBVIOUS
<1>3. PICK told : told = maybeReportPlayerState(x)
  OBVIOUS
<1>4. w \in Worlds /\ w.demo \in Demos /\ w.demo.prepared \in Sessions \cup {0}
  BY WorldTypes DEF Good
<1>5. next \in Sessions /\ 0 \notin Sessions
  BY <1>1, <1>4 DEF Sessions, DemoAssumption
<1>6. v = IF builder.later THEN told ELSE onRenderers(told, valid)
  <2>1. w.demo.building # "BUILT"
    OBVIOUS
  <2>2. [w EXCEPT !.demo.building = "BUILDING", !.demo.prepared = @ + 1,
                  !.demo.waits = TRUE] = x
    BY <1>1, <1>2, <1>4 DEF Worlds, Demos
  <2> QED
    BY <1>3, <2>1, <2>2 DEF prepare
<1>7. x.demo \in Demos /\ x.demo.building = "BUILDING" /\ x.demo.prepared = next
  BY <1>2, <1>4, <1>5 DEF Worlds, Demos
<1>8. x.demo.waits
  BY <1>2, <1>4 DEF Worlds, Demos
<1>9. x \in Worlds /\ x.app = w.app /\ x.inbox = w.inbox
  BY <1>2, <1>4, <1>7 DEF Worlds
<1>10. /\ told \in Worlds /\ told.app = w.app /\ told.inbox = w.inbox
       /\ SameDemo(x, told) /\ Told(told)
  BY <1>3, <1>9, ReportIs
<1>11. Good(told, c)
  <2>1. Asked(told, c) /\ Silence(told.inbox, c.flags)
    BY <1>10, Zenon DEF Good, Asked
  <2> QED
    BY <1>10, <2>1 DEF Good
<1>12. told.demo.building = "BUILDING" /\ told.demo.prepared = next /\ told.demo.waits
  BY <1>7, <1>8, <1>10 DEF SameDemo
<1>13. CASE builder.later
  <2>1. v = told
    BY <1>6, <1>13
  <2> QED
    BY <1>1, <1>5, <1>10, <1>11, <1>12, <1>13, <2>1, Zenon
<1>14. CASE ~builder.later
  <2>1. Built(told, v, c, s, t, valid)
    BY <1>5, <1>6, <1>11, <1>12, <1>14, onRenderersIs
  <2>2. v.demo.prepared = next
    BY <1>12, <2>1 DEF Built
  <2> QED
    BY <1>1, <1>5, <1>10, <1>12, <1>14, <2>1, <2>2, Zenon
<1> QED
  BY <1>13, <1>14
-----------------------------------------------------------------------------
(* Preparations: one is played at a time, an error ends it, the release is  *)
(* the last message.                                                        *)
Preparing(q) == \E i \in DOMAIN q : q[i].what = "PREPARE"
Failed(e) == \E i \in DOMAIN e : e[i] = "ERROR"
HoldsNone(c) == c.held = 0 \/ c.failing

Played(k, q, c) ==
  /\ HoldsNone(c) \/ c.held = k
  /\ \A i \in DOMAIN q : q[i].what = "PREPARE" =>
       /\ q[i].session = k /\ HoldsNone(c)
       /\ \A j \in 1..i - 1 : q[j].what \notin {"PREPARE", "RELEASE"}

Reported(q, c, e) ==
  /\ Failed(e) => HoldsNone(c) /\ ~Preparing(q)
  /\ \A i, j \in DOMAIN e : e[i] = "ERROR" /\ e[j] = "ERROR" => i = j

\* What is built is to be prepared, or played, or has failed.
Staged(b, k, q, c, e) ==
  /\ Failed(e) => b = "BUILT"
  /\ b # "BUILT" => HoldsNone(c) /\ ~Preparing(q)
  /\ b = "BUILT" => Preparing(q) \/ (c.held = k /\ ~c.failing) \/ Failed(e)

Unended(q) == \A i \in DOMAIN q : q[i].what \notin {"STOP", "RELEASE"}
Ending(q) ==
  /\ Len(q) > 0 /\ q[Len(q)].what = "RELEASE"
  /\ \A i \in DOMAIN q : i # Len(q) => q[i].what \notin {"STOP", "RELEASE"}

LEMMA TalkKeeps ==
  ASSUME NEW p \in Seq(Message), NEW q \in Seq(Message), Extends(p, q, Talk)
  PROVE  /\ Preparing(q) <=> Preparing(p)
         /\ Unended(p) => Unended(q)
         /\ \A k, c : Played(k, p, c) => Played(k, q, c)
<1>1. DOMAIN p = 1..Len(p) /\ DOMAIN q = 1..Len(q) /\ Len(p) \in Nat /\ Len(q) \in Nat
      /\ Len(p) <= Len(q)
  BY DEF Extends
<1>2. \A i \in DOMAIN p : i \in DOMAIN q /\ q[i] = p[i]
  BY <1>1 DEF Extends
<1>3. ASSUME NEW i \in DOMAIN q, q[i].what \notin Talk PROVE i \in DOMAIN p
  BY <1>1, <1>3 DEF Extends
<1>4. "PREPARE" \notin Talk /\ "STOP" \notin Talk /\ "RELEASE" \notin Talk
  BY DEF Talk
<1>5. Preparing(q) <=> Preparing(p)
  BY <1>2, <1>3, <1>4 DEF Preparing
<1>6. Unended(p) => Unended(q)
  BY <1>2, <1>3, <1>4 DEF Unended
<1>7. ASSUME NEW k, NEW c, Played(k, p, c) PROVE Played(k, q, c)
  <2>1. ASSUME NEW i \in DOMAIN q, q[i].what = "PREPARE"
        PROVE  /\ q[i].session = k /\ HoldsNone(c)
               /\ \A j \in 1..i - 1 : q[j].what \notin {"PREPARE", "RELEASE"}
    <3>1. i \in DOMAIN p /\ q[i] = p[i]
      BY <1>2, <1>3, <1>4, <2>1
    <3>2. /\ p[i].session = k /\ HoldsNone(c)
          /\ \A j \in 1..i - 1 : p[j].what \notin {"PREPARE", "RELEASE"}
      BY <1>7, <2>1, <3>1 DEF Played
    <3>3. \A j \in 1..i - 1 : j \in DOMAIN p
      BY <1>1, <3>1
    <3> QED
      BY <1>2, <3>1, <3>2, <3>3
  <2> QED
    BY <1>7, <2>1 DEF Played
<1> QED
  BY <1>5, <1>6, <1>7

LEMMA NothingPlayed ==
  ASSUME NEW k, NEW q, NEW c, HoldsNone(c), ~Preparing(q)
  PROVE  Played(k, q, c)
BY DEF Played, Preparing

LEMMA PrepareLast ==
  ASSUME NEW k, NEW q \in Seq(Message), NEW c, HoldsNone(c), ~Preparing(q), Unended(q),
         NEW m \in Message, m.what = "PREPARE", m.session = k
  PROVE  /\ Played(k, Append(q, m), c) /\ Preparing(Append(q, m))
         /\ Unended(Append(q, m))
<1>1. PICK r : r = Append(q, m)
  OBVIOUS
<1>2. Len(r) = Len(q) + 1 /\ r[Len(q) + 1] = m /\ \A i \in DOMAIN q : r[i] = q[i]
  BY <1>1
<1>3. DOMAIN q = 1..Len(q) /\ DOMAIN r = 1..Len(q) + 1 /\ Len(q) \in Nat
  BY <1>1
<1>4. \A i \in DOMAIN r : i \in DOMAIN q \/ i = Len(q) + 1
  BY <1>3
<1>5. \A i \in DOMAIN q : q[i].what \notin {"STOP", "RELEASE", "PREPARE"}
  BY DEF Unended, Preparing
<1>6. Len(q) + 1 \in DOMAIN r
  BY <1>3
<1>7. Preparing(r)
  BY <1>2, <1>6 DEF Preparing
<1>8. Unended(r)
  BY <1>2, <1>4, <1>5 DEF Unended
<1>9. ASSUME NEW i \in DOMAIN r, r[i].what = "PREPARE"
      PROVE  /\ r[i].session = k
             /\ \A j \in 1..i - 1 : r[j].what \notin {"PREPARE", "RELEASE"}
  <2>1. i = Len(q) + 1
    BY <1>2, <1>4, <1>5, <1>9
  <2>2. \A j \in 1..i - 1 : j \in DOMAIN q
    BY <1>3, <2>1
  <2> QED
    BY <1>2, <1>5, <2>1, <2>2
<1>10. Played(k, r, c)
  BY <1>9 DEF Played
<1> QED
  BY <1>1, <1>7, <1>8, <1>10

LEMMA ReleaseLast ==
  ASSUME NEW q \in Seq(Message), Unended(q), NEW m \in Message, m.what = "RELEASE"
  PROVE  /\ Ending(Append(q, m))
         /\ Preparing(Append(q, m)) <=> Preparing(q)
         /\ \A k, c : Played(k, q, c) => Played(k, Append(q, m), c)
<1>1. PICK r : r = Append(q, m)
  OBVIOUS
<1>2. Len(r) = Len(q) + 1 /\ r[Len(q) + 1] = m /\ \A i \in DOMAIN q : r[i] = q[i]
  BY <1>1
<1>3. DOMAIN q = 1..Len(q) /\ DOMAIN r = 1..Len(q) + 1 /\ Len(q) \in Nat
  BY <1>1
<1>4. \A i \in DOMAIN r : i \in DOMAIN q \/ i = Len(q) + 1
  BY <1>3
<1>5. \A i \in DOMAIN q : i \in DOMAIN r
  BY <1>3
<1>6. Ending(r)
  <2>1. Len(r) > 0 /\ r[Len(r)].what = "RELEASE"
    BY <1>2, <1>3
  <2>2. \A i \in DOMAIN r : i # Len(r) => r[i].what \notin {"STOP", "RELEASE"}
    BY <1>2, <1>4 DEF Unended
  <2> QED
    BY <2>1, <2>2 DEF Ending
<1>7. Preparing(r) <=> Preparing(q)
  BY <1>2, <1>4, <1>5 DEF Preparing
<1>8. ASSUME NEW k, NEW c, Played(k, q, c) PROVE Played(k, r, c)
  <2>1. ASSUME NEW i \in DOMAIN r, r[i].what = "PREPARE"
        PROVE  /\ r[i].session = k /\ HoldsNone(c)
               /\ \A j \in 1..i - 1 : r[j].what \notin {"PREPARE", "RELEASE"}
    <3>1. i \in DOMAIN q /\ r[i] = q[i]
      BY <1>2, <1>4, <2>1
    <3>2. /\ q[i].session = k /\ HoldsNone(c)
          /\ \A j \in 1..i - 1 : q[j].what \notin {"PREPARE", "RELEASE"}
      BY <1>8, <2>1, <3>1 DEF Played
    <3>3. \A j \in 1..i - 1 : j \in DOMAIN q
      BY <1>3, <3>1
    <3> QED
      BY <1>2, <3>1, <3>2, <3>3
  <2> QED
    BY <1>8, <2>1 DEF Played
<1> QED
  BY <1>1, <1>6, <1>7, <1>8

\* The first message is taken.
LEMMA TailKeeps ==
  ASSUME NEW q \in Seq(Message), q # <<>>
  PROVE  /\ Preparing(q) <=> Head(q).what = "PREPARE" \/ Preparing(Tail(q))
         /\ Unended(q) => Unended(Tail(q)) /\ Head(q).what \notin {"STOP", "RELEASE"}
         /\ Ending(q) => IF Head(q).what = "RELEASE" THEN Tail(q) = <<>>
                         ELSE Head(q).what # "STOP" /\ Ending(Tail(q))
         /\ \A k, c : Played(k, q, c) => Played(k, Tail(q), c)
         /\ \A k, c : Played(k, q, c) /\ Head(q).what = "PREPARE" =>
              Head(q).session = k /\ HoldsNone(c) /\ ~Preparing(Tail(q))
<1>1. PICK r : r = Tail(q)
  OBVIOUS
<1>2. r \in Seq(Message) /\ Len(r) = Len(q) - 1 /\ \A i \in DOMAIN r : r[i] = q[i + 1]
  BY <1>1
<1>3. DOMAIN q = 1..Len(q) /\ DOMAIN r = 1..Len(q) - 1 /\ Len(q) \in Nat /\ Len(q) > 0
  BY <1>1
<1>4. Head(q) = q[1] /\ 1 \in DOMAIN q
  BY <1>3
<1>5. \A i \in DOMAIN r : i + 1 \in DOMAIN q
  BY <1>3
<1>6. \A i \in DOMAIN q : i = 1 \/ (i - 1 \in DOMAIN r /\ r[i - 1] = q[i])
  <2>1. ASSUME NEW i \in DOMAIN q, i # 1 PROVE i - 1 \in DOMAIN r /\ r[i - 1] = q[i]
    <3>1. i - 1 \in DOMAIN r /\ (i - 1) + 1 = i
      BY <1>3, <2>1
    <3> QED
      BY <1>2, <3>1
  <2> QED
    BY <2>1
<1>7. Preparing(q) <=> Head(q).what = "PREPARE" \/ Preparing(r)
  <2>1. ASSUME Preparing(q) PROVE Head(q).what = "PREPARE" \/ Preparing(r)
    <3>1. PICK i \in DOMAIN q : q[i].what = "PREPARE"
      BY <2>1 DEF Preparing
    <3>2. i = 1 \/ (i - 1 \in DOMAIN r /\ r[i - 1] = q[i])
      BY <1>6
    <3> QED
      BY <1>4, <3>1, <3>2 DEF Preparing
  <2>2. Preparing(r) => Preparing(q)
    BY <1>2, <1>5 DEF Preparing
  <2>3. Head(q).what = "PREPARE" => Preparing(q)
    BY <1>4 DEF Preparing
  <2> QED
    BY <2>1, <2>2, <2>3
<1>8. Unended(q) => Unended(r) /\ Head(q).what \notin {"STOP", "RELEASE"}
  BY <1>2, <1>4, <1>5 DEF Unended
<1>9. ASSUME Ending(q)
      PROVE  IF Head(q).what = "RELEASE" THEN r = <<>>
             ELSE Head(q).what # "STOP" /\ Ending(r)
  <2>1. CASE Len(q) = 1
    <3>1. Head(q).what = "RELEASE"
      BY <1>4, <1>9, <2>1 DEF Ending
    <3>2. r = <<>>
      BY <1>2, <2>1
    <3> QED
      BY <3>1, <3>2
  <2>2. CASE Len(q) # 1
    <3>1. Head(q).what \notin {"STOP", "RELEASE"}
      BY <1>4, <1>9, <2>2 DEF Ending
    <3>2. Len(r) > 0 /\ Len(r) \in DOMAIN r /\ Len(r) + 1 = Len(q)
      BY <1>2, <1>3, <2>2
    <3>3. r[Len(r)].what = "RELEASE"
      BY <1>2, <1>9, <3>2 DEF Ending
    <3>4. ASSUME NEW i \in DOMAIN r, i # Len(r) PROVE r[i].what \notin {"STOP", "RELEASE"}
      <4>1. i + 1 \in DOMAIN q /\ i + 1 # Len(q) /\ r[i] = q[i + 1]
        BY <1>2, <1>3, <3>2, <3>4
      <4> QED
        BY <1>9, <4>1 DEF Ending
    <3>5. Ending(r)
      BY <3>2, <3>3, <3>4 DEF Ending
    <3> QED
      BY <3>1, <3>5
  <2> QED
    BY <2>1, <2>2
<1>10. ASSUME NEW k, NEW c, Played(k, q, c) PROVE Played(k, r, c)
  <2>1. ASSUME NEW i \in DOMAIN r, r[i].what = "PREPARE"
        PROVE  /\ r[i].session = k /\ HoldsNone(c)
               /\ \A j \in 1..i - 1 : r[j].what \notin {"PREPARE", "RELEASE"}
    <3>1. i + 1 \in DOMAIN q /\ r[i] = q[i + 1]
      BY <1>2, <1>5
    <3>2. /\ q[i + 1].session = k /\ HoldsNone(c)
          /\ \A j \in 1..(i + 1) - 1 : q[j].what \notin {"PREPARE", "RELEASE"}
      BY <1>10, <2>1, <3>1 DEF Played
    <3>3. ASSUME NEW j \in 1..i - 1 PROVE r[j].what \notin {"PREPARE", "RELEASE"}
      <4>1. j \in DOMAIN r /\ j + 1 \in 1..(i + 1) - 1
        BY <1>3
      <4> QED
        BY <1>2, <3>2, <4>1
    <3> QED
      BY <3>1, <3>2, <3>3
  <2> QED
    BY <1>10, <2>1 DEF Played
<1>11. ASSUME NEW k, NEW c, Played(k, q, c), Head(q).what = "PREPARE"
       PROVE  Head(q).session = k /\ HoldsNone(c) /\ ~Preparing(r)
  <2>1. Head(q).session = k /\ HoldsNone(c)
    BY <1>4, <1>11 DEF Played
  <2>2. ASSUME NEW i \in DOMAIN r, r[i].what = "PREPARE" PROVE FALSE
    <3>1. i + 1 \in DOMAIN q /\ q[i + 1].what = "PREPARE" /\ 1 \in 1..(i + 1) - 1
      BY <1>2, <1>3, <2>2
    <3>2. q[1].what \notin {"PREPARE", "RELEASE"}
      BY <1>11, <3>1 DEF Played
    <3> QED
      BY <1>4, <1>11, <3>2
  <2> QED
    BY <2>1, <2>2 DEF Preparing
<1> QED
  BY <1>1, <1>7, <1>8, <1>9, <1>10, <1>11, Zenon

LEMMA SilenceTail ==
  ASSUME NEW q \in Seq(Message), q # <<>>, NEW flags, NEW after, Silence(q, flags),
         Head(q) \in Enabling("audio") => ("audio" \in after <=> Head(q).flag),
         Head(q) \notin Enabling("audio") => ("audio" \in after <=> "audio" \in flags)
  PROVE  /\ Silence(Tail(q), after)
         /\ Head(q).what = "SELECT" => "audio" \notin flags
<1>1. PICK r : r = Tail(q)
  OBVIOUS
<1>2. r \in Seq(Message) /\ Len(r) = Len(q) - 1 /\ \A i \in DOMAIN r : r[i] = q[i + 1]
  BY <1>1
<1>3. DOMAIN q = 1..Len(q) /\ DOMAIN r = 1..Len(q) - 1 /\ Len(q) \in Nat /\ Len(q) > 0
  BY <1>1
<1>4. Head(q) = q[1] /\ 1 \in DOMAIN q
  BY <1>3
<1>5. ASSUME NEW i \in DOMAIN r, r[i].what = "SELECT"
      PROVE  \E j \in 0..i - 1 :
               /\ j = 0 => "audio" \notin after
               /\ j # 0 => r[j] \in Enabling("audio") /\ ~r[j].flag
               /\ \A n \in j + 1..i - 1 : r[n] \in Enabling("audio") => ~r[n].flag
  <2>1. i + 1 \in DOMAIN q /\ q[i + 1].what = "SELECT"
    BY <1>2, <1>3, <1>5
  <2>2. PICK j \in 0..(i + 1) - 1 :
          /\ j = 0 => "audio" \notin flags
          /\ j # 0 => q[j] \in Enabling("audio") /\ ~q[j].flag
          /\ \A n \in j + 1..(i + 1) - 1 : q[n] \in Enabling("audio") => ~q[n].flag
    BY <2>1 DEF Silence
  <2>3. ASSUME NEW n \in 1..i - 1, n + 1 >= j + 1
        PROVE  r[n] \in Enabling("audio") => ~r[n].flag
    <3>1. n \in DOMAIN r /\ n + 1 \in j + 1..(i + 1) - 1 /\ r[n] = q[n + 1]
      BY <1>2, <1>3, <2>3
    <3> QED
      BY <2>2, <3>1
  <2>4. CASE j > 1
    <3>1. j - 1 \in 0..i - 1 /\ j - 1 # 0 /\ j - 1 \in DOMAIN r /\ (j - 1) + 1 = j /\ j # 0
      <4>1. i \in Int /\ j \in Int /\ j <= i /\ i <= Len(q) - 1
        BY <1>3
      <4> QED
        BY <1>3, <2>4, <4>1
    <3>2. r[j - 1] = q[j]
      BY <1>2, <3>1
    <3>3. r[j - 1] \in Enabling("audio") /\ ~r[j - 1].flag
      BY <2>2, <3>1, <3>2
    <3>4. \A n \in (j - 1) + 1..i - 1 : n \in 1..i - 1 /\ n + 1 >= j + 1
      BY <2>4
    <3> QED
      BY <2>3, <3>1, <3>3, <3>4
  <2>5. CASE j <= 1
    <3>1. \A n \in 0 + 1..i - 1 : n \in 1..i - 1 /\ n + 1 >= j + 1
      BY <2>5
    <3>2. "audio" \notin after
      <4>1. CASE j = 1
        BY <1>4, <2>2, <4>1
      <4>2. CASE j = 0
        <5>1. 1 \in j + 1..(i + 1) - 1
          BY <1>3, <4>2
        <5>2. Head(q) \in Enabling("audio") => ~Head(q).flag
          BY <1>4, <2>2, <5>1
        <5> QED
          BY <2>2, <4>2, <5>2
      <4> QED
        BY <2>5, <4>1, <4>2
    <3>3. 0 \in 0..i - 1
      BY <1>3
    <3> QED
      BY <2>3, <3>1, <3>2, <3>3
  <2> QED
    BY <2>4, <2>5
<1>6. ASSUME Head(q).what = "SELECT" PROVE "audio" \notin flags
  <2>1. PICK j \in 0..1 - 1 :
          /\ j = 0 => "audio" \notin flags
          /\ j # 0 => q[j] \in Enabling("audio") /\ ~q[j].flag
          /\ \A n \in j + 1..1 - 1 : q[n] \in Enabling("audio") => ~q[n].flag
    BY <1>4, <1>6 DEF Silence
  <2>2. j = 0
    OBVIOUS
  <2> QED
    BY <2>1, <2>2
<1>7. Silence(r, after)
  BY <1>5 DEF Silence
<1> QED
  BY <1>1, <1>6, <1>7
-----------------------------------------------------------------------------
(* The inductive invariant.                                                *)
Live == activity.thread \notin {"releases", "released"}
Clearing == activity.thread \in {"clears", "destroys"}

Activities == [thread : {"free", "clears", "destroys", "releases", "released"},
               resumed : BOOLEAN, needsPrepare : BOOLEAN, autoPlay : BOOLEAN,
               valid : BOOLEAN]
Cores == [held : Sessions \cup {0}, state : States, playWhenReady : BOOLEAN,
          flags : SUBSET Types, enabled : SUBSET Types, codec : BOOLEAN,
          failing : BOOLEAN, released : BOOLEAN]
Events == States \cup {"ERROR"}

Types1 == builder \in Builders /\ builds \subseteq Sessions /\ activity \in Activities
Types2 == /\ core \in Cores /\ events \in Seq(Events)
          /\ surfaces \in [Sessions -> BOOLEAN] /\ tracks \in [Sessions -> Tracks]

\* The renderers: a decoder has a surface, none is enabled that is not to be.
CoreOK(c, s) ==
  /\ c.codec => c.held \in Sessions /\ "video" \in c.enabled /\ s[c.held]
  /\ c.enabled \subseteq c.flags
  /\ c.state # "READY" => c.enabled = {}
  /\ c.held = 0 <=> c.state = "IDLE"
  /\ c.failing => c.held # 0

Sessional(w, c, e) == Played(w.demo.prepared, w.inbox, c) /\ Reported(w.inbox, c, e)

\* While the player is not being released.
Lively(w, c, e, needs) ==
  /\ Told(w) /\ Unended(w.inbox)
  /\ Staged(w.demo.building, w.demo.prepared, w.inbox, c, e)
  /\ w.demo.waits <=> w.demo.building = "BUILDING"
  /\ w.demo.building = "IDLE" <=> needs
  /\ ~needs => w.demo.prepared # 0

Ended ==
  /\ ~Live => demo.building = "IDLE" /\ ~demo.waits
  /\ activity.thread = "releases" => core.released \/ Ending(inbox)
  /\ activity.thread = "released" => core.released
  /\ core.released => ~Live /\ core.held = 0 /\ inbox = <<>>

Dues ==
  /\ ShownAs(World, surfaces) /\ HeardAs(World, tracks, builder.multi)
  /\ Free => VideoAs(World, activity.valid)
  /\ Clearing => demo.building = "BUILT" /\ ~demo.surface
  /\ core.codec /\ ~core.failing => activity.valid

IInv ==
  /\ Types1 /\ Types2 /\ Good(World, core) /\ CoreOK(core, surfaces)
  /\ Sessional(World, core, events)
  /\ Live => Lively(World, core, events, activity.needsPrepare)
  /\ Ended /\ Dues

\* The preparations, as far as they concern the playback thread.
Session(b, k, q, c, e, live) ==
  /\ Played(k, q, c) /\ Reported(q, c, e)
  /\ live => Unended(q) /\ Staged(b, k, q, c, e)

LEMMA PlayedOn ==
  ASSUME NEW k, NEW q, NEW c, NEW d, Played(k, q, c),
         d.held = c.held \/ HoldsNone(d), HoldsNone(c) => HoldsNone(d)
  PROVE  Played(k, q, d)
<1>1. HoldsNone(d) \/ d.held = k
  BY DEF Played
<1> QED
  BY <1>1 DEF Played

LEMMA Told1 ==
  ASSUME NEW e \in Seq(Events), NEW state \in States
  PROVE  /\ Append(e, state) \in Seq(Events)
         /\ Failed(Append(e, state)) <=> Failed(e)
         /\ \A i \in DOMAIN Append(e, state) :
              Append(e, state)[i] = "ERROR" => i \in DOMAIN e /\ e[i] = "ERROR"
<1>1. state \in Events /\ state # "ERROR"
  BY DEF Events, States
<1>2. PICK f : f = Append(e, state)
  OBVIOUS
<1>3. f \in Seq(Events) /\ Len(f) = Len(e) + 1 /\ f[Len(e) + 1] = state
      /\ \A i \in DOMAIN e : i \in DOMAIN f /\ f[i] = e[i]
  BY <1>1, <1>2
<1>4. \A i \in DOMAIN f : i \in DOMAIN e \/ i = Len(e) + 1
  BY <1>2
<1>5. \A i \in DOMAIN f : f[i] = "ERROR" => i \in DOMAIN e /\ e[i] = "ERROR"
  BY <1>1, <1>3, <1>4
<1>6. Failed(f) <=> Failed(e)
  BY <1>3, <1>5 DEF Failed
<1> QED
  BY <1>2, <1>3, <1>5, <1>6

LEMMA ReportedOn ==
  ASSUME NEW q, NEW c, NEW d, NEW e \in Seq(Events), Reported(q, c, e),
         HoldsNone(c) => HoldsNone(d), NEW f, NEW state \in States,
         f = e \/ f = Append(e, state)
  PROVE  /\ Reported(q, d, f) /\ f \in Seq(Events)
         /\ Failed(f) <=> Failed(e)
<1>1. /\ f \in Seq(Events) /\ (Failed(f) <=> Failed(e))
      /\ \A i \in DOMAIN f : f[i] = "ERROR" => i \in DOMAIN e /\ e[i] = "ERROR"
  <2>1. CASE f = e
    BY <2>1
  <2>2. CASE f = Append(e, state)
    BY <2>2, Told1
  <2> QED
    BY <2>1, <2>2
<1>2. Reported(q, d, f)
  BY <1>1 DEF Reported
<1> QED
  BY <1>1, <1>2

\* A message is taken that is not of a preparation.
LEMMA TakenSession ==
  ASSUME NEW b, NEW k, NEW q \in Seq(Message), q # <<>>, Head(q).what # "PREPARE",
         NEW c, NEW e, NEW live, Session(b, k, q, c, e, live)
  PROVE  Session(b, k, Tail(q), c, e, live)
<1>1. /\ Preparing(Tail(q)) <=> Preparing(q)
      /\ Unended(q) => Unended(Tail(q))
      /\ Played(k, Tail(q), c)
  BY TailKeeps DEF Session
<1>2. Reported(Tail(q), c, e)
  BY <1>1 DEF Session, Reported
<1>3. ASSUME live PROVE Unended(Tail(q)) /\ Staged(b, k, Tail(q), c, e)
  BY <1>1, <1>3 DEF Session, Staged
<1> QED
  BY <1>1, <1>2, <1>3 DEF Session

\* The player holds what it held, and tells of its state at most.
LEMMA CalmSession ==
  ASSUME NEW b, NEW k, NEW q, NEW c, NEW e \in Seq(Events), NEW live,
         Session(b, k, q, c, e, live), NEW d, d.held = c.held, d.failing <=> c.failing,
         NEW state \in States, NEW f, f = e \/ f = Append(e, state)
  PROVE  Session(b, k, q, d, f, live) /\ f \in Seq(Events)
<1>1. HoldsNone(d) <=> HoldsNone(c)
  BY DEF HoldsNone
<1>2. Played(k, q, d)
  BY <1>1, PlayedOn DEF Session
<1>3. Reported(q, d, f) /\ f \in Seq(Events) /\ (Failed(f) <=> Failed(e))
  BY <1>1, ReportedOn DEF Session
<1>4. ASSUME live PROVE Unended(q) /\ Staged(b, k, q, d, f)
  BY <1>1, <1>3, <1>4 DEF Session, Staged
<1> QED
  BY <1>2, <1>3, <1>4 DEF Session

\* An exception: nothing else has failed.
LEMMA ThrownSession ==
  ASSUME NEW b, NEW k, NEW q, NEW c, NEW e \in Seq(Events), NEW live,
         Session(b, k, q, c, e, live), c.held # 0, ~c.failing,
         NEW d, d.held = c.held, d.failing, NEW f, f = Append(e, "ERROR")
  PROVE  Session(b, k, q, d, f, live) /\ f \in Seq(Events)
<1>1. ~HoldsNone(c) /\ HoldsNone(d)
  BY DEF HoldsNone
<1>2. Played(k, q, d) /\ ~Preparing(q)
  <2>1. Played(k, q, d)
    BY <1>1, PlayedOn DEF Session
  <2>2. ~Preparing(q)
    BY <1>1 DEF Session, Played, Preparing
  <2> QED
    BY <2>1, <2>2
<1>3. ~Failed(e)
  BY <1>1 DEF Session, Reported
<1>4. "ERROR" \in Events
  BY DEF Events
<1>5. f \in Seq(Events) /\ Len(f) = Len(e) + 1 /\ f[Len(e) + 1] = "ERROR"
      /\ \A i \in DOMAIN e : f[i] = e[i]
  BY <1>4
<1>6. \A i \in DOMAIN f : i \in DOMAIN e \/ i = Len(e) + 1
  OBVIOUS
<1>7. Len(e) + 1 \in DOMAIN f
  OBVIOUS
<1>8. Failed(f)
  BY <1>5, <1>7 DEF Failed
<1>9. Reported(q, d, f)
  BY <1>1, <1>2, <1>3, <1>5, <1>6 DEF Reported, Failed
<1>10. ASSUME live PROVE Unended(q) /\ Staged(b, k, q, d, f)
  BY <1>1, <1>2, <1>8, <1>10 DEF Session, Staged
<1> QED
  BY <1>2, <1>5, <1>9, <1>10 DEF Session

\* The renderers of the last preparation are taken.
LEMMA PreparedSession ==
  ASSUME NEW b, NEW k, NEW q \in Seq(Message), q # <<>>, Head(q).what = "PREPARE",
         NEW c, NEW e \in Seq(Events), NEW live, Session(b, k, q, c, e, live), ~c.failing,
         NEW d, d.held = Head(q).session, ~d.failing,
         NEW state \in States, NEW f, f = e \/ f = Append(e, state)
  PROVE  /\ Session(b, k, Tail(q), d, f, live) /\ f \in Seq(Events)
         /\ c.held = 0 /\ d.held = k
<1>1. /\ Head(q).session = k /\ HoldsNone(c) /\ ~Preparing(Tail(q)) /\ Preparing(q)
      /\ Unended(q) => Unended(Tail(q))
  BY TailKeeps DEF Session
<1>2. c.held = 0 /\ d.held = k
  BY <1>1 DEF HoldsNone
<1>3. Played(k, Tail(q), d)
  BY <1>1, <1>2 DEF Played, Preparing
<1>4. ~Failed(e)
  BY <1>1 DEF Session, Reported
<1>5. /\ f \in Seq(Events) /\ ~Failed(f)
      /\ \A i, j \in DOMAIN f : f[i] = "ERROR" /\ f[j] = "ERROR" => i = j
  <2>1. f \in Seq(Events) /\ ~Failed(f)
    BY <1>4, Told1
  <2> QED
    BY <2>1 DEF Failed
<1>6. Reported(Tail(q), d, f)
  BY <1>5 DEF Reported
<1>7. ASSUME live PROVE Unended(Tail(q)) /\ Staged(b, k, Tail(q), d, f)
  BY <1>1, <1>2, <1>5, <1>7 DEF Session, Staged
<1> QED
  BY <1>2, <1>3, <1>5, <1>6, <1>7 DEF Session

\* What failed is let go of, or everything is.
LEMMA ResetSession ==
  ASSUME NEW b, NEW k, NEW q, NEW c, NEW e \in Seq(Events), NEW live,
         Session(b, k, q, c, e, live), c.failing \/ ~live, NEW d, d.held = 0,
         NEW state \in States, NEW f, f = e \/ f = Append(e, state)
  PROVE  Session(b, k, q, d, f, live) /\ f \in Seq(Events)
<1>1. HoldsNone(d)
  BY DEF HoldsNone
<1>2. Played(k, q, d)
  BY <1>1, PlayedOn DEF Session
<1>3. Reported(q, d, f) /\ f \in Seq(Events) /\ (Failed(f) <=> Failed(e))
  BY <1>1, ReportedOn DEF Session
<1>4. ASSUME live PROVE Unended(q) /\ Staged(b, k, q, d, f)
  BY <1>1, <1>3, <1>4 DEF Session, Staged
<1> QED
  BY <1>2, <1>3, <1>4 DEF Session

-----------------------------------------------------------------------------
(* The playback thread serves a message: what is due stays due.             *)
Serves(m, c, d, s, shown, t, heard) ==
  /\ d.flags = IF m.what = "ENABLE" THEN Switched(c.flags, m.type, m.flag) ELSE c.flags
  /\ d.playWhenReady = IF m.what = "PLAY" THEN m.flag ELSE c.playWhenReady
  /\ shown = IF m.what = "SURFACE" THEN [s EXCEPT ![m.session] = m.surface] ELSE s
  /\ heard = IF m.what = "SELECT" THEN [t EXCEPT ![m.session] = m.track] ELSE t

\* What is there is the message, if it is of the kind, and what was there if not.
Sets(m, c, d, s, shown, t, heard) ==
  /\ \A type \in Types :
       EnabledNow(type, d) = IF m \in Enabling(type) THEN m ELSE EnabledNow(type, c)
  /\ PlayNow(d) = IF m \in Playing THEN m ELSE PlayNow(c)
  /\ \A k \in Sessions :
       SurfaceNow(k, shown) = IF m \in Surfacing(k) THEN m ELSE SurfaceNow(k, s)
  /\ \A k \in Sessions :
       TrackNow(k, heard) = IF m \in Selecting(k) THEN m ELSE TrackNow(k, t)

LEMMA ServesNow ==
  ASSUME NEW m \in Message, NEW c \in Cores, NEW d \in Cores,
         NEW s \in [Sessions -> BOOLEAN], NEW shown, NEW t \in [Sessions -> Tracks], NEW heard,
         Serves(m, c, d, s, shown, t, heard)
  PROVE  Sets(m, c, d, s, shown, t, heard)
<1>1. ASSUME NEW type \in Types
      PROVE  EnabledNow(type, d) = IF m \in Enabling(type) THEN m ELSE EnabledNow(type, c)
  <2>1. CASE m \in Enabling(type)
    <3>1. m.what = "ENABLE" /\ m.type = type /\ m.flag \in BOOLEAN
          /\ m = [what |-> "ENABLE", type |-> type, flag |-> m.flag]
      BY <2>1, KindsAre, MessageKinds
    <3>2. type \in d.flags <=> m.flag
      BY <3>1 DEF Serves, Switched
    <3>3. (type \in d.flags) = m.flag
      BY <3>1, <3>2
    <3> QED
      BY <2>1, <3>1, <3>3, Zenon DEF EnabledNow
  <2>2. CASE m \notin Enabling(type)
    <3>1. m.what = "ENABLE" => m.type # type
      BY <2>2, KindsAre
    <3>2. type \in d.flags <=> type \in c.flags
      BY <3>1 DEF Serves, Switched
    <3>3. (type \in d.flags) = (type \in c.flags)
      BY <3>2
    <3> QED
      BY <2>2, <3>3, Zenon DEF EnabledNow
  <2> QED
    BY <2>1, <2>2
<1>2. PlayNow(d) = IF m \in Playing THEN m ELSE PlayNow(c)
  <2>1. CASE m \in Playing
    <3>1. m.what = "PLAY" /\ m = [what |-> "PLAY", flag |-> m.flag]
      BY <2>1, KindsAre, MessageKinds
    <3>2. d.playWhenReady = m.flag
      BY <3>1, Zenon DEF Serves
    <3> QED
      BY <2>1, <3>1, <3>2, Zenon DEF PlayNow
  <2>2. CASE m \notin Playing
    <3>1. m.what # "PLAY"
      BY <2>2, KindsAre
    <3>2. d.playWhenReady = c.playWhenReady
      BY <3>1, Zenon DEF Serves
    <3> QED
      BY <2>2, <3>2, Zenon DEF PlayNow
  <2> QED
    BY <2>1, <2>2
<1>3. ASSUME NEW k \in Sessions
      PROVE  SurfaceNow(k, shown) = IF m \in Surfacing(k) THEN m ELSE SurfaceNow(k, s)
  <2>1. CASE m \in Surfacing(k)
    <3>1. m.what = "SURFACE" /\ m.session = k
          /\ m = [what |-> "SURFACE", session |-> k, surface |-> m.surface]
      BY <2>1, KindsAre, MessageKinds
    <3>2. shown[k] = m.surface
      BY <3>1 DEF Serves
    <3> QED
      BY <2>1, <3>1, <3>2, Zenon DEF SurfaceNow
  <2>2. CASE m \notin Surfacing(k)
    <3>1. m.what = "SURFACE" => m.session # k
      BY <2>2, KindsAre
    <3>2. shown[k] = s[k]
      BY <3>1 DEF Serves
    <3> QED
      BY <2>2, <3>2, Zenon DEF SurfaceNow
  <2> QED
    BY <2>1, <2>2
<1>4. ASSUME NEW k \in Sessions
      PROVE  TrackNow(k, heard) = IF m \in Selecting(k) THEN m ELSE TrackNow(k, t)
  <2>1. CASE m \in Selecting(k)
    <3>1. m.what = "SELECT" /\ m.session = k
          /\ m = [what |-> "SELECT", session |-> k, track |-> m.track]
      BY <2>1, KindsAre, MessageKinds
    <3>2. heard[k] = m.track
      BY <3>1 DEF Serves
    <3> QED
      BY <2>1, <3>1, <3>2, Zenon DEF TrackNow
  <2>2. CASE m \notin Selecting(k)
    <3>1. m.what = "SELECT" => m.session # k
      BY <2>2, KindsAre
    <3>2. heard[k] = t[k]
      BY <3>1 DEF Serves
    <3> QED
      BY <2>2, <3>2, Zenon DEF TrackNow
  <2> QED
    BY <2>1, <2>2
<1> QED
  BY <1>1, <1>2, <1>3, <1>4, Zenon DEF Sets

\* The first message of w is taken.
Takes(w, v) ==
  /\ w.inbox # <<>> /\ v \in Worlds /\ v.demo = w.demo /\ v.app = w.app
  /\ v.inbox = Tail(w.inbox)

LEMMA Served ==
  ASSUME NEW w, NEW c \in Cores, Good(w, c), Named(w), NEW v, Takes(w, v), NEW d \in Cores,
         NEW s \in [Sessions -> BOOLEAN], NEW shown, NEW t \in [Sessions -> Tracks], NEW heard,
         Serves(Head(w.inbox), c, d, s, shown, t, heard)
  PROVE  /\ Good(v, d)
         /\ ShownAs(w, s) => ShownAs(v, shown)
         /\ \A multi : HeardAs(w, t, multi) => HeardAs(v, heard, multi)
<1>1. PICK m : m = Head(w.inbox)
  OBVIOUS
<1>2. w.inbox \in Seq(Message) /\ w.inbox # <<>> /\ m \in Message
  BY <1>1, WorldTypes DEF Good, Takes
<1>3. /\ \A type \in Types :
           EnabledNow(type, d) = IF m \in Enabling(type) THEN m ELSE EnabledNow(type, c)
      /\ PlayNow(d) = IF m \in Playing THEN m ELSE PlayNow(c)
      /\ \A k \in Sessions :
           SurfaceNow(k, shown) = IF m \in Surfacing(k) THEN m ELSE SurfaceNow(k, s)
      /\ \A k \in Sessions :
           TrackNow(k, heard) = IF m \in Selecting(k) THEN m ELSE TrackNow(k, t)
  <2>1. Serves(m, c, d, s, shown, t, heard)
    BY <1>1, Zenon
  <2>2. Sets(m, c, d, s, shown, t, heard)
    BY <1>2, <2>1, ServesNow
  <2> QED
    BY <2>2, Zenon DEF Sets
<1>4. \A K, now : Latest(v.inbox, K, IF m \in K THEN m ELSE now) = Latest(w.inbox, K, now)
  BY <1>1, <1>2, LatestTail DEF Takes
<1>5. Asked(v, d)
  <2>1. ASSUME NEW type \in Types
        PROVE  Latest(v.inbox, Enabling(type), EnabledNow(type, d)).flag <=> type \in v.app.flags
    <3>1. Latest(v.inbox, Enabling(type), EnabledNow(type, d))
            = Latest(w.inbox, Enabling(type), EnabledNow(type, c))
      BY <1>3, <1>4, Zenon
    <3> QED
      BY <3>1, Zenon DEF Takes, Good, Asked
  <2>2. Latest(v.inbox, Playing, PlayNow(d)) = Latest(w.inbox, Playing, PlayNow(c))
    BY <1>3, <1>4, Zenon
  <2>3. Latest(v.inbox, Playing, PlayNow(d)).flag <=> v.app.playWhenReady
    BY <2>2, Zenon DEF Takes, Good, Asked
  <2> QED
    BY <2>1, <2>3 DEF Asked
<1>6. Silence(v.inbox, d.flags)
  <2>1. ASSUME m \in Enabling("audio") PROVE "audio" \in d.flags <=> m.flag
    <3>1. m.what = "ENABLE" /\ m.type = "audio"
      BY <1>2, <2>1, KindsAre
    <3> QED
      BY <1>1, <3>1 DEF Serves, Switched
  <2>2. ASSUME m \notin Enabling("audio")
        PROVE  "audio" \in d.flags <=> "audio" \in c.flags
    <3>1. m.what = "ENABLE" => m.type # "audio"
      BY <1>2, <2>2, KindsAre
    <3> QED
      BY <1>1, <3>1 DEF Serves, Switched
  <2> QED
    BY <1>1, <1>2, <2>1, <2>2, SilenceTail DEF Good, Takes
<1>7. Good(v, d)
  BY <1>5, <1>6 DEF Good, Takes
<1>8. ASSUME ShownAs(w, s) PROVE ShownAs(v, shown)
  <2>1. ASSUME w.demo.building = "BUILT"
        PROVE  Latest(v.inbox, Surfacing(w.demo.prepared), SurfaceNow(w.demo.prepared, shown))
                 = Latest(w.inbox, Surfacing(w.demo.prepared), SurfaceNow(w.demo.prepared, s))
    <3>1. w.demo.prepared \in Sessions
      BY <2>1 DEF Named
    <3> QED
      BY <1>3, <1>4, <3>1, Zenon
  <2> QED
    BY <1>8, <2>1, Zenon DEF ShownAs, Takes
<1>9. ASSUME NEW multi, HeardAs(w, t, multi) PROVE HeardAs(v, heard, multi)
  <2>1. ASSUME w.demo.building = "BUILT"
        PROVE  Latest(v.inbox, Selecting(w.demo.prepared), TrackNow(w.demo.prepared, heard))
                 = Latest(w.inbox, Selecting(w.demo.prepared), TrackNow(w.demo.prepared, t))
    <3>1. w.demo.prepared \in Sessions
      BY <2>1 DEF Named
    <3> QED
      BY <1>3, <1>4, <3>1, Zenon
  <2> QED
    BY <1>9, <2>1, Zenon DEF HeardAs, Takes
<1> QED
  BY <1>7, <1>8, <1>9

-----------------------------------------------------------------------------
(* The steps of the playback thread.                                       *)
LEMMA WorldIs ==
  ASSUME NEW v \in Worlds, Leaves(v)
  PROVE  World' = v
<1>1. v = [demo |-> v.demo, app |-> v.app, inbox |-> v.inbox]
  BY DEF Worlds
<1> QED
  BY <1>1, Zenon DEF World, Leaves

LEMMA WorldHas == World.demo = demo /\ World.app = app /\ World.inbox = inbox
BY DEF World

LEMMA InvWorld ==
  ASSUME IInv
  PROVE  /\ World \in Worlds /\ Good(World, core) /\ Named(World)
         /\ demo \in Demos /\ app \in Apps /\ inbox \in Seq(Message)
         /\ Session(demo.building, demo.prepared, inbox, core, events, Live)
<1>1. World \in Worlds /\ Good(World, core)
  BY DEF IInv, Good
<1>2. demo \in Demos /\ app \in Apps /\ inbox \in Seq(Message)
  BY <1>1, WorldHas, WorldTypes
<1>3. Session(demo.building, demo.prepared, inbox, core, events, Live)
  BY WorldHas, Zenon DEF IInv, Session, Sessional, Lively
<1>4. Named(World)
  <2>1. CASE Live
    <3>1. demo.building = "BUILT" => demo.prepared # 0
      BY <2>1, WorldHas DEF IInv, Lively
    <3> QED
      BY <1>2, <3>1, WorldHas DEF Named, Demos
  <2>2. CASE ~Live
    BY <2>2, WorldHas DEF IInv, Ended, Named
  <2> QED
    BY <2>1, <2>2
<1> QED
  BY <1>1, <1>2, <1>3, <1>4

PlaybackTypes ==
  /\ core \in Cores /\ events \in Seq(Events)
  /\ surfaces \in [Sessions -> BOOLEAN] /\ tracks \in [Sessions -> Tracks]

LEMMA PlaybackStep ==
  ASSUME IInv, UNCHANGED <<builder, mainVars>>, PlaybackTypes',
         NEW v \in Worlds, Leaves(v), Good(v, core'),
         ShownAs(v, surfaces'), HeardAs(v, tracks', builder.multi), CoreOK(core', surfaces'),
         Session(demo.building, demo.prepared, inbox', core', events', Live),
         activity.thread = "releases" => core'.released \/ Ending(inbox'),
         core.released => core'.released,
         core'.released => ~Live /\ core'.held = 0 /\ inbox' = <<>>,
         core'.codec /\ ~core'.failing => activity.valid
  PROVE  IInv'
<1>1. World' = v
  BY WorldIs
<1>2. /\ builder' = builder /\ activity' = activity /\ demo' = demo /\ builds' = builds
      /\ app' = app /\ v.demo = demo /\ v.app = app /\ v.inbox = inbox'
  BY DEF mainVars, Leaves
<1>3. Live' = Live /\ Clearing' = Clearing /\ Free' = Free
  BY <1>2 DEF Live, Clearing, Free
<1>4. Types1' /\ Types2'
  BY <1>2 DEF IInv, Types1, Types2, PlaybackTypes
<1>5. Good(World, core)' /\ CoreOK(core, surfaces)'
  BY <1>1, Zenon
<1>6. Sessional(World, core, events)'
  BY <1>1, <1>2, Zenon DEF Session, Sessional
<1>7. ASSUME Live PROVE Lively(World, core, events, activity.needsPrepare)'
  <2>1. Lively(World, core, events, activity.needsPrepare)
    BY <1>7 DEF IInv
  <2>2. Told(v)
    BY <1>2, <2>1, WorldHas, Zenon DEF Lively, Told, getPlaybackState
  <2>3. Lively(v, core', events', activity.needsPrepare)
    BY <1>2, <1>7, <2>1, <2>2, WorldHas, Zenon DEF Lively, Session
  <2> QED
    BY <1>1, <1>2, <2>3, Zenon
<1>8. Ended'
  <2>1. activity.thread = "released" => core.released
    BY DEF IInv, Ended
  <2> QED
    BY <1>2, <1>3, <2>1 DEF IInv, Ended
<1>9. Dues'
  <2>1. ShownAs(World, surfaces)' /\ HeardAs(World, tracks, builder.multi)'
    BY <1>1, <1>2, Zenon
  <2>2. ASSUME Free PROVE VideoAs(World, activity.valid)'
    <3>1. VideoAs(World, activity.valid)
      BY <2>2 DEF IInv, Dues
    <3>2. VideoAs(v, activity.valid)
      BY <1>2, <3>1, WorldHas, Zenon DEF VideoAs
    <3> QED
      BY <1>1, <1>2, <3>2, Zenon
  <2>3. Clearing' => demo'.building = "BUILT" /\ ~demo'.surface
    BY <1>2, <1>3 DEF IInv, Dues
  <2>4. core'.codec /\ ~core'.failing => activity'.valid
    BY <1>2
  <2> QED
    BY <1>3, <2>1, <2>2, <2>3, <2>4, Zenon DEF Dues
<1> QED
  BY <1>3, <1>4, <1>5, <1>6, <1>7, <1>8, <1>9, Zenon DEF IInv

\* A message is received.
LEMMA ReceiveGood ==
  ASSUME IInv, UNCHANGED <<builder, mainVars>>, NEW what, Receives(what),
         PlaybackTypes', Serves(received, core, core', surfaces, surfaces', tracks, tracks')
  PROVE  \E v \in Worlds :
           /\ Leaves(v) /\ Good(v, core')
           /\ ShownAs(v, surfaces') /\ HeardAs(v, tracks', builder.multi)
<1>1. inbox # <<>> /\ inbox' = Tail(inbox)
  BY DEF Receives
<1>2. PICK v : v = [demo |-> demo, app |-> app, inbox |-> Tail(inbox)]
  OBVIOUS
<1>3. v.demo = demo /\ v.app = app /\ v.inbox = Tail(inbox)
  BY <1>2
<1>4. v \in Worlds
  <2>1. Tail(inbox) \in Seq(Message) /\ demo \in Demos /\ app \in Apps
    BY <1>1, InvWorld
  <2> QED
    BY <1>2, <2>1 DEF Worlds
<1>5. Leaves(v)
  BY <1>1, <1>3 DEF Leaves, mainVars
<1>6. Takes(World, v)
  BY <1>1, <1>3, <1>4, WorldHas DEF Takes
<1>7. /\ Good(v, core') /\ ShownAs(v, surfaces')
      /\ HeardAs(v, tracks', builder.multi)
  <2>1. /\ core \in Cores /\ surfaces \in [Sessions -> BOOLEAN] /\ tracks \in [Sessions -> Tracks]
        /\ core' \in Cores /\ Good(World, core) /\ Named(World)
    BY InvWorld DEF IInv, Types2, PlaybackTypes
  <2>2. Serves(Head(World.inbox), core, core', surfaces, surfaces', tracks, tracks')
    BY WorldHas, Zenon DEF received
  <2>3. ShownAs(World, surfaces) /\ HeardAs(World, tracks, builder.multi)
    BY DEF IInv, Dues
  <2> QED
    BY <1>6, <2>1, <2>2, <2>3, Served
<1> QED
  BY <1>4, <1>5, <1>7

LEMMA ReceiveStep ==
  ASSUME IInv, UNCHANGED <<builder, mainVars>>, NEW what, Receives(what), what # "RELEASE",
         PlaybackTypes', Serves(received, core, core', surfaces, surfaces', tracks, tracks'),
         CoreOK(core', surfaces'), core'.released <=> core.released,
         Session(demo.building, demo.prepared, Tail(inbox), core', events', Live),
         core'.codec /\ ~core'.failing => activity.valid
  PROVE  IInv'
<1>1. /\ inbox # <<>> /\ inbox' = Tail(inbox) /\ Head(inbox).what # "RELEASE"
      /\ ~core.released
  BY DEF Receives, MayRun
<1>2. PICK v \in Worlds :
        /\ Leaves(v) /\ Good(v, core')
        /\ ShownAs(v, surfaces') /\ HeardAs(v, tracks', builder.multi)
  BY ReceiveGood
<1>3. activity.thread = "releases" => core'.released \/ Ending(inbox')
  BY <1>1, InvWorld, TailKeeps DEF IInv, Ended
<1> QED
  BY <1>1, <1>2, <1>3, PlaybackStep

\* Without a message.
LEMMA WorkStep ==
  ASSUME IInv, UNCHANGED <<builder, mainVars>>, MayRun, UNCHANGED <<inbox, surfaces, tracks>>,
         PlaybackTypes', core'.flags = core.flags, core'.playWhenReady = core.playWhenReady,
         CoreOK(core', surfaces), core'.released <=> core.released,
         Session(demo.building, demo.prepared, inbox, core', events', Live),
         core'.codec /\ ~core'.failing => activity.valid
  PROVE  IInv'
<1>1. Leaves(World) /\ inbox' = inbox /\ surfaces' = surfaces /\ tracks' = tracks
      /\ ~core.released
  BY WorldHas DEF Leaves, mainVars, MayRun
<1>2. World \in Worlds /\ Good(World, core)
  BY InvWorld
<1>3. Good(World, core')
  <2>1. \A type : EnabledNow(type, core') = EnabledNow(type, core)
    BY Zenon DEF EnabledNow
  <2>2. PlayNow(core') = PlayNow(core)
    BY Zenon DEF PlayNow
  <2> QED
    BY <1>2, <2>1, <2>2, Zenon DEF Good, Asked
<1>4. ShownAs(World, surfaces') /\ HeardAs(World, tracks', builder.multi)
  BY <1>1, Zenon DEF IInv, Dues
<1>5. activity.thread = "releases" => core'.released \/ Ending(inbox')
  BY <1>1 DEF IInv, Ended
<1> QED
  BY <1>1, <1>2, <1>3, <1>4, <1>5, PlaybackStep

\* What a handler leaves, and an exception.
Leads(c) == Stays(c) \/ (Throws(c) /\ c.held # 0)

LEMMA LeadsTo ==
  ASSUME IInv, NEW b, NEW k, NEW q, Session(b, k, q, core, events, Live), ~core.failing,
         NEW c \in Cores, c.held = core.held, ~c.failing, Leads(c), NEW s, CoreOK(c, s),
         c.codec => activity.valid
  PROVE  /\ core' \in Cores /\ events' \in Seq(Events)
         /\ Session(b, k, q, core', events', Live) /\ CoreOK(core', s)
         /\ core'.flags = c.flags /\ core'.playWhenReady = c.playWhenReady
         /\ core'.released <=> c.released
         /\ core'.codec /\ ~core'.failing => activity.valid
<1>1. events \in Seq(Events)
  BY DEF IInv, Types2
<1>2. CASE Stays(c)
  <2>1. core' = c /\ events' = events
    BY <1>2 DEF Stays
  <2>2. "IDLE" \in States /\ (c.failing <=> core.failing)
    BY DEF States
  <2>3. Session(b, k, q, c, events, Live)
    BY <1>1, <2>2, CalmSession
  <2> QED
    BY <1>1, <2>1, <2>3
<1>3. CASE Throws(c) /\ c.held # 0
  <2>1. PICK d : d = [c EXCEPT !.failing = TRUE]
    OBVIOUS
  <2>2. core' = d /\ events' = Append(events, "ERROR")
    BY <1>3, <2>1 DEF Throws
  <2>3. /\ d \in Cores /\ d.held = c.held /\ d.flags = c.flags /\ d.state = c.state
        /\ d.enabled = c.enabled /\ d.playWhenReady = c.playWhenReady
    BY <2>1 DEF Cores
  <2>4. d.failing /\ (d.released <=> c.released) /\ (d.codec <=> c.codec)
    BY <2>1 DEF Cores
  <2>5. Session(b, k, q, d, Append(events, "ERROR"), Live)
        /\ Append(events, "ERROR") \in Seq(Events)
    BY <1>1, <1>3, <2>3, <2>4, ThrownSession
  <2>6. CoreOK(d, s)
    BY <1>3, <2>3, <2>4 DEF CoreOK
  <2> QED
    BY <2>2, <2>3, <2>4, <2>5, <2>6
<1> QED
  BY <1>2, <1>3 DEF Leads

LEMMA Received ==
  ASSUME IInv, NEW what, Receives(what), what # "PREPARE"
  PROVE  /\ received \in Message /\ received.what = what /\ ~core.failing /\ ~core.released
         /\ Session(demo.building, demo.prepared, Tail(inbox), core, events, Live)
<1>1. inbox # <<>> /\ received.what = what /\ ~core.failing /\ ~core.released
  BY DEF Receives, received, MayRun
<1>2. inbox \in Seq(Message)
      /\ Session(demo.building, demo.prepared, inbox, core, events, Live)
  BY InvWorld
<1>3. Session(demo.building, demo.prepared, Tail(inbox), core, events, Live)
  BY <1>1, <1>2, TakenSession DEF received
<1> QED
  BY <1>1, <1>2, <1>3 DEF received

LEMMA CoreTypes ==
  ASSUME IInv
  PROVE  /\ core \in Cores /\ events \in Seq(Events) /\ CoreOK(core, surfaces)
         /\ surfaces \in [Sessions -> BOOLEAN] /\ tracks \in [Sessions -> Tracks]
         /\ core.held \in Sessions \cup {0} /\ core.flags \subseteq Types
         /\ core.enabled \subseteq Types
         /\ core.codec \in BOOLEAN /\ core.failing \in BOOLEAN /\ core.released \in BOOLEAN
         /\ core.codec /\ ~core.failing => activity.valid
<1>1. core \in Cores
  BY DEF IInv, Types2
<1>2. /\ core.held \in Sessions \cup {0} /\ core.flags \subseteq Types
      /\ core.enabled \subseteq Types
      /\ core.codec \in BOOLEAN /\ core.failing \in BOOLEAN /\ core.released \in BOOLEAN
  BY <1>1 DEF Cores
<1> QED
  BY <1>1, <1>2 DEF IInv, Types2, Dues

LEMMA setSurfaceInternalInv ==
  ASSUME IInv, setSurfaceInternal, UNCHANGED <<builder, mainVars>>
  PROVE  IInv'
<1>1. /\ Receives("SURFACE") /\ UNCHANGED tracks
      /\ surfaces' = [surfaces EXCEPT ![received.session] = received.surface]
  BY DEF setSurfaceInternal
<1>2. /\ received \in Message /\ received.what = "SURFACE" /\ ~core.failing /\ ~core.released
      /\ Session(demo.building, demo.prepared, Tail(inbox), core, events, Live)
  BY <1>1, Received
<1>3. received.session \in Sessions /\ received.surface \in BOOLEAN
  BY <1>2, MessageKinds
<1>4. surfaces' \in [Sessions -> BOOLEAN]
  BY <1>1, <1>3, CoreTypes
<1>5. PICK none \in BOOLEAN : ~none
  OBVIOUS
<1>6. PICK some \in BOOLEAN : some
  OBVIOUS
<1>7. PICK off : off = [core EXCEPT !.codec = none]
  OBVIOUS
<1>8. PICK on : on = [core EXCEPT !.codec = some]
  OBVIOUS
<1>9. /\ off \in Cores /\ off.held = core.held /\ off.state = core.state
      /\ off.flags = core.flags /\ off.enabled = core.enabled
      /\ off.playWhenReady = core.playWhenReady
  BY <1>5, <1>7, CoreTypes DEF Cores
<1>10. ~off.codec /\ ~off.failing /\ (off.released <=> core.released)
  BY <1>2, <1>5, <1>7, CoreTypes DEF Cores
<1>11. /\ on \in Cores /\ on.held = core.held /\ on.state = core.state
       /\ on.flags = core.flags /\ on.enabled = core.enabled
       /\ on.playWhenReady = core.playWhenReady
  BY <1>6, <1>8, CoreTypes DEF Cores
<1>12. on.codec /\ ~on.failing /\ (on.released <=> core.released)
  BY <1>2, <1>6, <1>8, CoreTypes DEF Cores
<1>13. \E c \in Cores :
         /\ Leads(c) /\ c.held = core.held /\ c.flags = core.flags
         /\ c.playWhenReady = core.playWhenReady /\ (c.released <=> core.released)
         /\ ~c.failing /\ CoreOK(c, surfaces') /\ (c.codec => activity.valid)
  <2>1. CASE ~(/\ surfaces[received.session] # received.surface
               /\ received.session = core.held /\ "video" \in core.enabled)
    <3>1. Stays(core)
      BY <2>1, Zenon DEF setSurfaceInternal
    <3>2. CoreOK(core, surfaces')
      BY <1>1, <1>3, <2>1, CoreTypes DEF CoreOK
    <3> QED
      BY <1>2, <3>1, <3>2, CoreTypes DEF Leads
  <2>2. CASE /\ surfaces[received.session] # received.surface
             /\ received.session = core.held /\ "video" \in core.enabled
    <3>1. \/ Stays([core EXCEPT !.codec = FALSE])
          \/ received.surface /\ activity.valid /\ Stays([core EXCEPT !.codec = TRUE])
          \/ received.surface /\ Throws([core EXCEPT !.codec = FALSE])
      BY <2>2, Zenon DEF setSurfaceInternal
    <3>2. core.held # 0
      BY <1>3, <2>2 DEF Sessions
    <3>3. none = FALSE /\ some = TRUE
      BY <1>5, <1>6
    <3>4. [core EXCEPT !.codec = FALSE] = off /\ [core EXCEPT !.codec = TRUE] = on
      BY <1>7, <1>8, <3>3, Zenon
    <3>5. Stays(off) \/ (received.surface /\ activity.valid /\ Stays(on)) \/ Throws(off)
      BY <3>1, <3>4, Zenon
    <3>6. CoreOK(off, surfaces')
      BY <1>9, <1>10, CoreTypes DEF CoreOK
    <3>7. CASE Stays(off) \/ Throws(off)
      <4>1. Leads(off)
        BY <1>9, <3>2, <3>7 DEF Leads
      <4> QED
        BY <1>9, <1>10, <3>6, <4>1
    <3>8. CASE received.surface /\ activity.valid /\ Stays(on)
      <4>1. surfaces'[on.held]
        BY <1>1, <1>3, <1>11, <2>2, <3>8, CoreTypes
      <4>2. CoreOK(on, surfaces')
        BY <1>3, <1>11, <1>12, <2>2, <4>1, CoreTypes DEF CoreOK
      <4> QED
        BY <1>11, <1>12, <3>8, <4>2 DEF Leads
    <3> QED
      BY <3>5, <3>7, <3>8
  <2> QED
    BY <2>1, <2>2
<1>14. PICK c \in Cores :
         /\ Leads(c) /\ c.held = core.held /\ c.flags = core.flags
         /\ c.playWhenReady = core.playWhenReady /\ (c.released <=> core.released)
         /\ ~c.failing /\ CoreOK(c, surfaces') /\ (c.codec => activity.valid)
  BY <1>13
<1>15. /\ core' \in Cores /\ events' \in Seq(Events)
       /\ Session(demo.building, demo.prepared, Tail(inbox), core', events', Live)
       /\ CoreOK(core', surfaces')
       /\ core'.flags = c.flags /\ core'.playWhenReady = c.playWhenReady
       /\ core'.released <=> c.released
       /\ core'.codec /\ ~core'.failing => activity.valid
  BY <1>2, <1>14, LeadsTo
<1>16. Serves(received, core, core', surfaces, surfaces', tracks, tracks')
  BY <1>1, <1>2, <1>14, <1>15 DEF Serves
<1>17. PlaybackTypes'
  BY <1>1, <1>4, <1>15, CoreTypes DEF PlaybackTypes
<1> QED
  BY <1>1, <1>14, <1>15, <1>16, <1>17, ReceiveStep

LEMMA SilentSelect ==
  ASSUME IInv, inbox # <<>>, received.what = "SELECT"
  PROVE  "audio" \notin core.flags
<1>1. inbox \in Seq(Message) /\ Silence(inbox, core.flags)
  BY InvWorld, WorldHas DEF Good
<1>2. received = inbox[1] /\ 1 \in DOMAIN inbox
  BY <1>1 DEF received
<1>3. PICK j \in 0..1 - 1 : j = 0 => "audio" \notin core.flags
  BY <1>1, <1>2 DEF Silence
<1> QED
  BY <1>3

LEMMA selectTrackInternalInv ==
  ASSUME IInv, selectTrackInternal, UNCHANGED <<builder, mainVars>>
  PROVE  IInv'
<1>1. /\ Receives("SELECT") /\ UNCHANGED surfaces
      /\ \/ SelectsEnabled
         \/ Stays(core) /\ tracks' = [tracks EXCEPT ![received.session] = received.track]
  BY DEF selectTrackInternal
<1>2. /\ received \in Message /\ received.what = "SELECT" /\ ~core.failing /\ ~core.released
      /\ Session(demo.building, demo.prepared, Tail(inbox), core, events, Live)
  BY <1>1, Received
<1>3. received.session \in Sessions /\ received.track \in Tracks
  BY <1>2, MessageKinds
<1>4. "audio" \notin core.enabled
  <2>1. "audio" \notin core.flags
    BY <1>1, <1>2, SilentSelect DEF Receives
  <2> QED
    BY <2>1, CoreTypes DEF CoreOK
<1>5. /\ core' = core /\ events' = events /\ surfaces' = surfaces
      /\ tracks' = [tracks EXCEPT ![received.session] = received.track]
  BY <1>1, <1>4 DEF SelectsEnabled, Stays
<1>6. PlaybackTypes'
  BY <1>3, <1>5, CoreTypes DEF PlaybackTypes
<1>7. Serves(received, core, core', surfaces, surfaces', tracks, tracks')
  BY <1>2, <1>5 DEF Serves
<1> QED
  BY <1>1, <1>2, <1>5, <1>6, <1>7, CoreTypes, ReceiveStep

LEMMA setRendererEnabledInternalInv ==
  ASSUME IInv, setRendererEnabledInternal, UNCHANGED <<builder, mainVars>>
  PROVE  IInv'
<1>1. Receives("ENABLE") /\ UNCHANGED <<surfaces, tracks>>
  BY Zenon DEF setRendererEnabledInternal
<1>2. /\ received \in Message /\ received.what = "ENABLE" /\ ~core.failing /\ ~core.released
      /\ Session(demo.building, demo.prepared, Tail(inbox), core, events, Live)
  BY <1>1, Received
<1>3. received.type \in Types /\ received.flag \in BOOLEAN
  BY <1>2, MessageKinds
<1>4. PICK flags : flags = Switched(core.flags, received.type, received.flag)
  OBVIOUS
<1>5. /\ flags \subseteq Types
      /\ received.flag => core.flags \subseteq flags
  BY <1>3, <1>4, CoreTypes DEF Switched
<1>6. PICK d : d = [core EXCEPT !.flags = flags]
  OBVIOUS
<1>7. PICK decodes \in BOOLEAN : decodes <=> core.codec /\ "video" \in flags
  OBVIOUS
<1>8. PICK c : c = [d EXCEPT !.enabled = flags, !.codec = decodes]
  OBVIOUS
<1>9. /\ d \in Cores /\ d.held = core.held /\ d.state = core.state /\ d.flags = flags
      /\ d.enabled = core.enabled /\ d.playWhenReady = core.playWhenReady
  BY <1>5, <1>6, CoreTypes DEF Cores
<1>10. (d.codec <=> core.codec) /\ ~d.failing /\ (d.released <=> core.released)
  BY <1>2, <1>6, CoreTypes DEF Cores
<1>11. /\ c \in Cores /\ c.held = core.held /\ c.state = core.state /\ c.flags = flags
       /\ c.enabled = flags /\ c.playWhenReady = core.playWhenReady
  BY <1>5, <1>8, <1>9 DEF Cores
<1>12. (c.codec <=> decodes) /\ ~c.failing /\ (c.released <=> core.released)
  BY <1>7, <1>8, <1>9, <1>10 DEF Cores
<1>13. \/ Stays(d) /\ (core.state # "READY" \/ flags = core.flags)
       \/ Stays(c) /\ core.state = "READY"
       \/ Throws(d) /\ core.state = "READY" /\ received.flag
  <2>1. [core EXCEPT !.flags = IF received.flag THEN @ \cup {received.type}
                               ELSE @ \ {received.type}] = d
    BY <1>4, <1>6, Zenon DEF Switched
  <2>2. decodes = (core.codec /\ "video" \in flags)
    BY <1>7
  <2>3. d.codec = core.codec
    BY <1>6, <1>9 DEF Cores
  <2>4. [d EXCEPT !.enabled = d.flags, !.codec = @ /\ "video" \in d.flags] = c
    BY <1>8, <1>9, <2>2, <2>3, Zenon
  <2>5. CASE core.state # "READY" \/ flags = core.flags
    BY <1>9, <2>1, <2>5, Zenon DEF setRendererEnabledInternal
  <2>6. CASE ~(core.state # "READY" \/ flags = core.flags)
    <3>1. Stays(c) \/ (received.flag /\ Throws(d))
      BY <1>9, <2>1, <2>4, <2>6, Zenon DEF setRendererEnabledInternal
    <3> QED
      BY <2>6, <3>1
  <2> QED
    BY <2>5, <2>6
<1>14. \E e \in Cores :
         /\ Leads(e) /\ e.held = core.held /\ e.flags = flags
         /\ e.playWhenReady = core.playWhenReady /\ (e.released <=> core.released)
         /\ ~e.failing /\ CoreOK(e, surfaces) /\ (e.codec => activity.valid)
  <2>1. CASE Stays(d) /\ (core.state # "READY" \/ flags = core.flags)
    <3>1. CoreOK(d, surfaces)
      BY <1>9, <1>10, <2>1, CoreTypes DEF CoreOK
    <3> QED
      BY <1>2, <1>9, <1>10, <2>1, <3>1, CoreTypes DEF Leads
  <2>2. CASE Stays(c) /\ core.state = "READY"
    <3>1. CoreOK(c, surfaces)
      BY <1>7, <1>11, <1>12, <2>2, CoreTypes DEF CoreOK
    <3> QED
      BY <1>2, <1>7, <1>11, <1>12, <2>2, <3>1, CoreTypes DEF Leads
  <2>3. CASE Throws(d) /\ core.state = "READY" /\ received.flag
    <3>1. CoreOK(d, surfaces)
      BY <1>5, <1>9, <1>10, <2>3, CoreTypes DEF CoreOK
    <3>2. d.held # 0
      BY <1>9, <2>3, CoreTypes DEF CoreOK
    <3> QED
      BY <1>2, <1>9, <1>10, <2>3, <3>1, <3>2, CoreTypes DEF Leads
  <2> QED
    BY <1>13, <2>1, <2>2, <2>3
<1>15. PICK e \in Cores :
         /\ Leads(e) /\ e.held = core.held /\ e.flags = flags
         /\ e.playWhenReady = core.playWhenReady /\ (e.released <=> core.released)
         /\ ~e.failing /\ CoreOK(e, surfaces) /\ (e.codec => activity.valid)
  BY <1>14
<1>16. /\ core' \in Cores /\ events' \in Seq(Events)
       /\ Session(demo.building, demo.prepared, Tail(inbox), core', events', Live)
       /\ CoreOK(core', surfaces)
       /\ core'.flags = e.flags /\ core'.playWhenReady = e.playWhenReady
       /\ core'.released <=> e.released
       /\ core'.codec /\ ~core'.failing => activity.valid
  BY <1>2, <1>15, LeadsTo
<1>17. Serves(received, core, core', surfaces, surfaces', tracks, tracks')
  BY <1>1, <1>2, <1>4, <1>15, <1>16 DEF Serves
<1>18. PlaybackTypes'
  BY <1>1, <1>16, CoreTypes DEF PlaybackTypes
<1>19. CoreOK(core', surfaces')
  BY <1>1, <1>16
<1> QED
  BY <1>1, <1>15, <1>16, <1>17, <1>18, <1>19, ReceiveStep

LEMMA setPlayWhenReadyInternalInv ==
  ASSUME IInv, setPlayWhenReadyInternal, UNCHANGED <<builder, mainVars>>
  PROVE  IInv'
<1>1. Receives("PLAY") /\ UNCHANGED <<surfaces, tracks>>
  BY DEF setPlayWhenReadyInternal
<1>2. /\ received \in Message /\ received.what = "PLAY" /\ ~core.failing /\ ~core.released
      /\ Session(demo.building, demo.prepared, Tail(inbox), core, events, Live)
  BY <1>1, Received
<1>3. received.flag \in BOOLEAN
  BY <1>2, MessageKinds
<1>4. PICK play : play = received.flag
  OBVIOUS
<1>5. PICK c : c = [core EXCEPT !.playWhenReady = play]
  OBVIOUS
<1>6. /\ c \in Cores /\ c.held = core.held /\ c.state = core.state /\ c.flags = core.flags
      /\ c.enabled = core.enabled /\ c.playWhenReady = play
  BY <1>3, <1>4, <1>5, CoreTypes DEF Cores
<1>7. (c.codec <=> core.codec) /\ ~c.failing /\ (c.released <=> core.released)
  BY <1>2, <1>5, CoreTypes DEF Cores
<1>8. Stays(c) \/ (core.state = "READY" /\ Throws(c))
  <2>1. \/ Stays([core EXCEPT !.playWhenReady = received.flag])
        \/ /\ core.state = "READY" /\ received.flag
           /\ Throws([core EXCEPT !.playWhenReady = TRUE])
    BY Zenon DEF setPlayWhenReadyInternal
  <2>2. received.flag => play = TRUE
    BY <1>3, <1>4
  <2>3. [core EXCEPT !.playWhenReady = received.flag] = c
    BY <1>4, <1>5, Zenon
  <2>4. received.flag => [core EXCEPT !.playWhenReady = TRUE] = c
    BY <1>5, <2>2, Zenon
  <2> QED
    BY <2>1, <2>3, <2>4, Zenon
<1>9. Leads(c) /\ CoreOK(c, surfaces) /\ (c.codec => activity.valid)
  <2>1. CoreOK(c, surfaces)
    BY <1>6, <1>7, CoreTypes DEF CoreOK
  <2>2. core.state = "READY" => c.held # 0
    BY <1>6, CoreTypes DEF CoreOK
  <2> QED
    BY <1>2, <1>7, <1>8, <2>1, <2>2, CoreTypes DEF Leads
<1>10. /\ core' \in Cores /\ events' \in Seq(Events)
       /\ Session(demo.building, demo.prepared, Tail(inbox), core', events', Live)
       /\ CoreOK(core', surfaces)
       /\ core'.flags = c.flags /\ core'.playWhenReady = c.playWhenReady
       /\ core'.released <=> c.released
       /\ core'.codec /\ ~core'.failing => activity.valid
  BY <1>2, <1>6, <1>7, <1>9, LeadsTo
<1>11. Serves(received, core, core', surfaces, surfaces', tracks, tracks')
  BY <1>1, <1>2, <1>4, <1>6, <1>10 DEF Serves
<1>12. PlaybackTypes'
  BY <1>1, <1>10, CoreTypes DEF PlaybackTypes
<1>13. CoreOK(core', surfaces')
  BY <1>1, <1>10
<1> QED
  BY <1>1, <1>7, <1>10, <1>11, <1>12, <1>13, ReceiveStep

\* A state is told of when it changes.
LEMMA SetStateIs ==
  ASSUME IInv, NEW c, NEW state \in States, SetState(c, state),
         NEW d, d = [c EXCEPT !.state = state]
  PROVE  core' = d /\ (events' = events \/ events' = Append(events, state))
BY DEF SetState

LEMMA prepareInternalInv ==
  ASSUME DemoAssumption, IInv, prepareInternal, UNCHANGED <<builder, mainVars>>
  PROVE  IInv'
<1>1. Receives("PREPARE") /\ UNCHANGED <<surfaces, tracks>>
  BY Zenon DEF prepareInternal
<1>2. /\ inbox # <<>> /\ received = Head(inbox) /\ received.what = "PREPARE"
      /\ ~core.failing /\ ~core.released
      /\ inbox \in Seq(Message) /\ received \in Message
      /\ Session(demo.building, demo.prepared, inbox, core, events, Live)
  BY <1>1, InvWorld DEF Receives, MayRun, received
<1>3. received.session \in Sessions /\ 0 \notin Sessions
  BY <1>2, MessageKinds DEF Sessions
<1>4. PICK k : k = received.session
  OBVIOUS
<1>5. PICK c : c = [core EXCEPT !.held = k]
  OBVIOUS
<1>6. PICK d : d = [c EXCEPT !.state = "PREPARING"]
  OBVIOUS
<1>7. "PREPARING" \in States
  BY DEF States
<1>8. /\ c \in Cores /\ c.held = k /\ c.flags = core.flags /\ c.enabled = core.enabled
      /\ c.playWhenReady = core.playWhenReady
  BY <1>3, <1>4, <1>5, CoreTypes DEF Cores
<1>9. (c.codec <=> core.codec) /\ ~c.failing /\ ~c.released
  BY <1>2, <1>5, CoreTypes DEF Cores
<1>10. /\ d \in Cores /\ d.held = k /\ d.flags = core.flags /\ d.enabled = core.enabled
       /\ d.playWhenReady = core.playWhenReady /\ d.state = "PREPARING"
  BY <1>6, <1>7, <1>8 DEF Cores
<1>11. (d.codec <=> core.codec) /\ ~d.failing /\ ~d.released
  BY <1>6, <1>8, <1>9 DEF Cores
<1>12. core.held = 0
  <2>1. Head(inbox).what = "PREPARE"
    BY <1>2
  <2>2. Session(demo.building, demo.prepared, Tail(inbox), d, events, Live) /\ core.held = 0
    BY <1>2, <1>4, <1>7, <1>10, <1>11, CoreTypes, PreparedSession
  <2> QED
    BY <2>2
<1>13. SetState(c, "PREPARING")
  BY <1>4, <1>5, <1>12, Zenon DEF prepareInternal
<1>14. core' = d /\ (events' = events \/ events' = Append(events, "PREPARING"))
  BY <1>6, <1>7, <1>13, SetStateIs
<1>15. /\ Session(demo.building, demo.prepared, Tail(inbox), d, events', Live)
       /\ events' \in Seq(Events)
  BY <1>2, <1>4, <1>7, <1>10, <1>11, <1>14, CoreTypes, PreparedSession
<1>16. CoreOK(d, surfaces)
  BY <1>3, <1>4, <1>10, <1>11, <1>12, CoreTypes DEF CoreOK
<1>17. Serves(received, core, core', surfaces, surfaces', tracks, tracks')
  BY <1>1, <1>2, <1>10, <1>14 DEF Serves
<1>18. PlaybackTypes'
  BY <1>1, <1>10, <1>14, <1>15, CoreTypes DEF PlaybackTypes
<1>19. /\ CoreOK(core', surfaces') /\ (core'.released <=> core.released)
       /\ core'.codec /\ ~core'.failing => activity.valid
  BY <1>1, <1>2, <1>11, <1>14, <1>16, CoreTypes
<1>20. Session(demo.building, demo.prepared, Tail(inbox), core', events', Live)
  BY <1>14, <1>15
<1> QED
  BY <1>1, <1>17, <1>18, <1>19, <1>20, ReceiveStep

LEMMA incrementalPrepareInternalInv ==
  ASSUME IInv, incrementalPrepareInternal, UNCHANGED <<builder, mainVars>>
  PROVE  IInv'
<1>1. /\ MayRun /\ core.state = "PREPARING" /\ ~core.failing
      /\ UNCHANGED <<inbox, surfaces, tracks>>
      /\ SetState([core EXCEPT !.enabled = core.flags], "READY") \/ Throws(core)
  BY Zenon DEF incrementalPrepareInternal
<1>2. Session(demo.building, demo.prepared, inbox, core, events, Live)
  BY InvWorld
<1>3. ~core.codec /\ core.held # 0
  BY <1>1, CoreTypes DEF CoreOK
<1>4. CASE SetState([core EXCEPT !.enabled = core.flags], "READY")
  <2>1. PICK c : c = [core EXCEPT !.enabled = core.flags]
    OBVIOUS
  <2>2. PICK d : d = [c EXCEPT !.state = "READY"]
    OBVIOUS
  <2>3. "READY" \in States
    BY DEF States
  <2>4. c \in Cores /\ c.held = core.held /\ c.flags = core.flags /\ c.enabled = core.flags
        /\ c.playWhenReady = core.playWhenReady
    BY <2>1, CoreTypes DEF Cores
  <2>5. ~c.codec /\ ~c.failing /\ (c.released <=> core.released)
    BY <1>1, <1>3, <2>1, CoreTypes DEF Cores
  <2>6. d \in Cores /\ d.held = core.held /\ d.flags = core.flags /\ d.enabled = core.flags
        /\ d.playWhenReady = core.playWhenReady /\ d.state = "READY"
    BY <2>2, <2>3, <2>4 DEF Cores
  <2>7. ~d.codec /\ ~d.failing /\ (d.released <=> core.released)
    BY <2>2, <2>4, <2>5 DEF Cores
  <2>8. SetState(c, "READY")
    BY <1>4, <2>1, Zenon
  <2>9. core' = d /\ (events' = events \/ events' = Append(events, "READY"))
    BY <2>2, <2>3, <2>8, SetStateIs
  <2>10. /\ Session(demo.building, demo.prepared, inbox, d, events', Live)
         /\ events' \in Seq(Events)
    <3>1. events \in Seq(Events) /\ (d.failing <=> core.failing)
      BY <1>1, <2>7, CoreTypes
    <3> QED
      BY <1>2, <2>3, <2>6, <2>9, <3>1, CalmSession
  <2>11. CoreOK(d, surfaces)
    BY <1>3, <2>6, <2>7 DEF CoreOK
  <2>12. PlaybackTypes'
    BY <1>1, <2>6, <2>9, <2>10, CoreTypes DEF PlaybackTypes
  <2>13. /\ core'.flags = core.flags /\ core'.playWhenReady = core.playWhenReady
         /\ CoreOK(core', surfaces) /\ (core'.released <=> core.released)
         /\ core'.codec /\ ~core'.failing => activity.valid
    BY <2>6, <2>7, <2>9, <2>11
  <2>14. Session(demo.building, demo.prepared, inbox, core', events', Live)
    BY <2>9, <2>10
  <2> QED
    BY <1>1, <2>12, <2>13, <2>14, WorkStep
<1>5. CASE Throws(core)
  <2>1. Leads(core)
    BY <1>3, <1>5 DEF Leads
  <2>2. /\ core' \in Cores /\ events' \in Seq(Events)
        /\ Session(demo.building, demo.prepared, inbox, core', events', Live)
        /\ CoreOK(core', surfaces)
        /\ core'.flags = core.flags /\ core'.playWhenReady = core.playWhenReady
        /\ core'.released <=> core.released
        /\ core'.codec /\ ~core'.failing => activity.valid
    BY <1>1, <1>2, <2>1, CoreTypes, LeadsTo
  <2>3. PlaybackTypes'
    BY <1>1, <2>2, CoreTypes DEF PlaybackTypes
  <2> QED
    BY <1>1, <2>2, <2>3, WorkStep
<1> QED
  BY <1>1, <1>4, <1>5, Zenon

LEMMA doSomeWorkInv ==
  ASSUME IInv, doSomeWork, UNCHANGED <<builder, mainVars>>
  PROVE  IInv'
<1>1. /\ MayRun /\ core.state = "READY" /\ ~core.failing
      /\ UNCHANGED <<inbox, surfaces, tracks>>
      /\ \/ HasSurface(core) /\ activity.valid /\ Stays([core EXCEPT !.codec = TRUE])
         \/ Throws(core)
  BY Zenon DEF doSomeWork
<1>2. Session(demo.building, demo.prepared, inbox, core, events, Live)
  BY InvWorld
<1>3. core.held # 0 /\ core.held \in Sessions
  BY <1>1, CoreTypes DEF CoreOK
<1>4. PICK yes \in BOOLEAN : yes = TRUE
  OBVIOUS
<1>5. PICK c : c = [core EXCEPT !.codec = yes]
  OBVIOUS
<1>6. c \in Cores /\ c.held = core.held /\ c.flags = core.flags /\ c.enabled = core.enabled
      /\ c.playWhenReady = core.playWhenReady /\ c.state = core.state
  BY <1>4, <1>5, CoreTypes DEF Cores
<1>7. ~c.failing /\ (c.released <=> core.released)
  BY <1>1, <1>5, CoreTypes DEF Cores
<1>8. (HasSurface(core) /\ activity.valid /\ Stays(c)) \/ Throws(core)
  BY <1>1, <1>4, <1>5, Zenon
<1>9. \E e \in Cores :
        /\ Leads(e) /\ e.held = core.held /\ e.flags = core.flags
        /\ e.playWhenReady = core.playWhenReady /\ (e.released <=> core.released)
        /\ ~e.failing /\ CoreOK(e, surfaces) /\ (e.codec => activity.valid)
  <2>1. CASE HasSurface(core) /\ activity.valid /\ Stays(c)
    <3>1. CoreOK(c, surfaces)
      BY <1>3, <1>6, <1>7, <2>1, CoreTypes DEF CoreOK, HasSurface
    <3> QED
      BY <1>6, <1>7, <2>1, <3>1 DEF Leads
  <2>2. CASE Throws(core)
    BY <1>1, <1>3, <2>2, CoreTypes DEF Leads
  <2> QED
    BY <1>8, <2>1, <2>2
<1>10. PICK e \in Cores :
        /\ Leads(e) /\ e.held = core.held /\ e.flags = core.flags
        /\ e.playWhenReady = core.playWhenReady /\ (e.released <=> core.released)
        /\ ~e.failing /\ CoreOK(e, surfaces) /\ (e.codec => activity.valid)
  BY <1>9
<1>11. /\ core' \in Cores /\ events' \in Seq(Events)
       /\ Session(demo.building, demo.prepared, inbox, core', events', Live)
       /\ CoreOK(core', surfaces)
       /\ core'.flags = e.flags /\ core'.playWhenReady = e.playWhenReady
       /\ core'.released <=> e.released
       /\ core'.codec /\ ~core'.failing => activity.valid
  BY <1>1, <1>2, <1>10, LeadsTo
<1>12. PlaybackTypes'
  BY <1>1, <1>11, CoreTypes DEF PlaybackTypes
<1> QED
  BY <1>1, <1>10, <1>11, <1>12, WorkStep

\* What resetInternal leaves.
LEMMA ResetIs ==
  ASSUME NEW c \in Cores, resetInternal(c), NEW s
  PROVE  /\ core' \in Cores /\ core'.held = 0 /\ core'.flags = c.flags
         /\ core'.playWhenReady = c.playWhenReady /\ CoreOK(core', s)
         /\ ~core'.codec /\ (core'.released <=> c.released)
         /\ events' = events \/ events' = Append(events, "IDLE")
<1>1. PICK no \in BOOLEAN : no = FALSE
  OBVIOUS
<1>2. PICK d : d = [c EXCEPT !.held = 0, !.enabled = {}, !.codec = no, !.failing = no]
  OBVIOUS
<1>3. PICK e : e = [d EXCEPT !.state = "IDLE"]
  OBVIOUS
<1>4. SetState(d, "IDLE")
  BY <1>1, <1>2, Zenon DEF resetInternal
<1>5. core' = e /\ (events' = events \/ events' = Append(events, "IDLE"))
  BY <1>3, <1>4 DEF SetState
<1>6. "IDLE" \in States
  BY DEF States
<1>7. d \in Cores /\ d.held = 0 /\ d.flags = c.flags /\ d.enabled = {}
      /\ d.playWhenReady = c.playWhenReady
  BY <1>1, <1>2 DEF Cores
<1>8. ~d.codec /\ ~d.failing /\ (d.released <=> c.released)
  BY <1>1, <1>2 DEF Cores
<1>9. e \in Cores /\ e.held = 0 /\ e.flags = c.flags /\ e.enabled = {}
      /\ e.playWhenReady = c.playWhenReady /\ e.state = "IDLE"
  BY <1>3, <1>6, <1>7 DEF Cores
<1>10. ~e.codec /\ ~e.failing /\ (e.released <=> c.released)
  BY <1>3, <1>7, <1>8 DEF Cores
<1>11. CoreOK(e, s)
  BY <1>9, <1>10 DEF CoreOK
<1> QED
  BY <1>5, <1>9, <1>10, <1>11

LEMMA stopInternalInv ==
  ASSUME IInv, stopInternal, UNCHANGED <<builder, mainVars>>
  PROVE  IInv'
<1>1. /\ Receives("STOP") \/ (MayRun /\ core.failing /\ UNCHANGED inbox)
      /\ resetInternal(core) /\ UNCHANGED <<surfaces, tracks>>
  BY DEF stopInternal
<1>2. ~Receives("STOP")
  <2>1. SUFFICES ASSUME Receives("STOP") PROVE FALSE
    OBVIOUS
  <2>2. inbox \in Seq(Message) /\ inbox # <<>> /\ Head(inbox).what = "STOP" /\ ~core.released
    BY <2>1, InvWorld DEF Receives, MayRun
  <2>3. Unended(inbox) \/ Ending(inbox)
    <3>1. activity.thread \in {"free", "clears", "destroys", "releases", "released"}
      BY DEF IInv, Types1, Activities
    <3> QED
      BY <2>2, <3>1, InvWorld DEF IInv, Ended, Live, Session
  <2> QED
    BY <2>2, <2>3, TailKeeps
<1>3. MayRun /\ core.failing /\ UNCHANGED <<inbox, surfaces, tracks>>
  BY <1>1, <1>2
<1>4. /\ core' \in Cores /\ core'.held = 0 /\ core'.flags = core.flags
      /\ core'.playWhenReady = core.playWhenReady /\ CoreOK(core', surfaces)
      /\ ~core'.codec /\ (core'.released <=> core.released)
      /\ events' = events \/ events' = Append(events, "IDLE")
  BY <1>1, CoreTypes, ResetIs
<1>5. Session(demo.building, demo.prepared, inbox, core, events, Live) /\ "IDLE" \in States
  BY InvWorld DEF States
<1>6. /\ Session(demo.building, demo.prepared, inbox, core', events', Live)
      /\ events' \in Seq(Events)
  <2>1. events \in Seq(Events)
    BY CoreTypes
  <2> QED
    BY <1>3, <1>4, <1>5, <2>1, ResetSession
<1>7. PlaybackTypes'
  BY <1>3, <1>4, <1>6, CoreTypes DEF PlaybackTypes
<1> QED
  BY <1>3, <1>4, <1>6, <1>7, WorkStep

LEMMA releaseInternalInv ==
  ASSUME IInv, releaseInternal, UNCHANGED <<builder, mainVars>>
  PROVE  IInv'
<1>1. /\ Receives("RELEASE") /\ resetInternal([core EXCEPT !.released = TRUE])
      /\ UNCHANGED <<surfaces, tracks>>
  BY DEF releaseInternal
<1>2. /\ received \in Message /\ received.what = "RELEASE" /\ ~core.failing /\ ~core.released
      /\ Session(demo.building, demo.prepared, Tail(inbox), core, events, Live)
  BY <1>1, Received
<1>3. /\ inbox \in Seq(Message) /\ inbox # <<>> /\ Head(inbox).what = "RELEASE"
      /\ inbox' = Tail(inbox)
  BY <1>1, InvWorld DEF Receives
<1>4. ~Live
  BY <1>3, InvWorld, TailKeeps DEF Session
<1>5. Ending(inbox)
  <2>1. activity.thread \in {"free", "clears", "destroys", "releases", "released"}
    BY DEF IInv, Types1, Activities
  <2> QED
    BY <1>2, <1>4, <2>1 DEF IInv, Ended, Live
<1>6. inbox' = <<>>
  BY <1>3, <1>5, TailKeeps
<1>7. PICK yes \in BOOLEAN : yes = TRUE
  OBVIOUS
<1>8. PICK c : c = [core EXCEPT !.released = yes]
  OBVIOUS
<1>9. c \in Cores /\ c.flags = core.flags /\ c.playWhenReady = core.playWhenReady
  BY <1>7, <1>8, CoreTypes DEF Cores
<1>10. c.released
  BY <1>7, <1>8, CoreTypes DEF Cores
<1>11. resetInternal(c)
  BY <1>1, <1>7, <1>8, Zenon
<1>12. /\ core' \in Cores /\ core'.held = 0 /\ core'.flags = core.flags
       /\ core'.playWhenReady = core.playWhenReady /\ CoreOK(core', surfaces)
       /\ ~core'.codec /\ core'.released
       /\ events' = events \/ events' = Append(events, "IDLE")
  BY <1>9, <1>10, <1>11, ResetIs
<1>13. /\ Session(demo.building, demo.prepared, Tail(inbox), core', events', Live)
       /\ events' \in Seq(Events)
  BY <1>2, <1>4, <1>12, CoreTypes, ResetSession DEF States
<1>14. PlaybackTypes'
  BY <1>1, <1>12, <1>13, CoreTypes DEF PlaybackTypes
<1>15. Serves(received, core, core', surfaces, surfaces', tracks, tracks')
  BY <1>1, <1>2, <1>12 DEF Serves
<1>16. PICK v \in Worlds :
         /\ Leaves(v) /\ Good(v, core')
         /\ ShownAs(v, surfaces') /\ HeardAs(v, tracks', builder.multi)
  BY <1>1, <1>14, <1>15, ReceiveGood
<1>17. CoreOK(core', surfaces')
  BY <1>1, <1>12
<1>18. Session(demo.building, demo.prepared, inbox', core', events', Live)
  BY <1>3, <1>13
<1> QED
  BY <1>4, <1>6, <1>12, <1>14, <1>16, <1>17, <1>18, PlaybackStep

-----------------------------------------------------------------------------
(* The steps of the main thread.                                           *)
\* A player that is not being released, and an activity that knows.
Sound(w, c, e, needs) ==
  Good(w, c) /\ Sessional(w, c, e) /\ Lively(w, c, e, needs)

LEMMA SoundNamed ==
  ASSUME NEW w, NEW c, NEW e, NEW needs, Sound(w, c, e, needs)
  PROVE  Named(w)
<1>1. w.demo.prepared \in Sessions \cup {0}
  BY WorldTypes DEF Sound, Good
<1>2. w.demo.building = "BUILT" => w.demo.prepared # 0
  BY DEF Sound, Lively
<1> QED
  BY <1>1, <1>2 DEF Named

LEMMA CalmSound ==
  ASSUME NEW w, NEW c, NEW e, NEW needs, Sound(w, c, e, needs), NEW v, Calm(w, v, c)
  PROVE  Sound(v, c, e, needs)
<1>1. /\ w.inbox \in Seq(Message) /\ v.inbox \in Seq(Message)
      /\ Extends(w.inbox, v.inbox, Talk) /\ Good(v, c)
      /\ v.demo.building = w.demo.building /\ v.demo.prepared = w.demo.prepared
      /\ v.demo.waits <=> w.demo.waits
      /\ Told(w) => Told(v)
  BY WorldTypes DEF Sound, Good, Calm
<1>2. /\ Preparing(v.inbox) <=> Preparing(w.inbox)
      /\ Unended(w.inbox) => Unended(v.inbox)
      /\ \A k : Played(k, w.inbox, c) => Played(k, v.inbox, c)
  BY <1>1, TalkKeeps
<1>3. Sessional(v, c, e)
  <2>1. Played(v.demo.prepared, v.inbox, c)
    BY <1>1, <1>2 DEF Sound, Sessional
  <2>2. Reported(v.inbox, c, e)
    BY <1>2 DEF Sound, Sessional, Reported
  <2> QED
    BY <2>1, <2>2 DEF Sessional
<1>4. Staged(v.demo.building, v.demo.prepared, v.inbox, c, e)
  BY <1>1, <1>2 DEF Sound, Lively, Staged
<1>5. Lively(v, c, e, needs)
  BY <1>1, <1>2, <1>4 DEF Sound, Lively
<1> QED
  BY <1>1, <1>3, <1>5 DEF Sound

\* Renderers are built: nothing was played before.
LEMMA BuiltSound ==
  ASSUME NEW w, NEW c, NEW e, NEW needs, Sound(w, c, e, needs),
         w.demo.building # "BUILT", NEW x, x.inbox = w.inbox, x.demo.prepared \in Sessions,
         NEW v, NEW s, NEW t, NEW valid, Built(x, v, c, s, t, valid)
  PROVE  Sound(v, c, e, FALSE)
<1>1. /\ Good(v, c) /\ Told(v) /\ v.demo.building = "BUILT" /\ ~v.demo.waits
      /\ v.demo.prepared = x.demo.prepared
  BY DEF Built
<1>2. PICK q \in Seq(Message) :
        /\ Extends(w.inbox, q, Talk)
        /\ v.inbox = Append(q, [what |-> "PREPARE", session |-> x.demo.prepared])
  BY DEF Built
<1>3. PICK m : m = [what |-> "PREPARE", session |-> x.demo.prepared]
  OBVIOUS
<1>4. m \in Message /\ m.what = "PREPARE" /\ m.session = x.demo.prepared
  BY <1>3, Posted
<1>5. w.inbox \in Seq(Message)
  BY WorldTypes DEF Sound, Good
<1>6. HoldsNone(c) /\ ~Preparing(w.inbox) /\ Unended(w.inbox) /\ ~Failed(e)
  BY DEF Sound, Lively, Staged
<1>7. ~Preparing(q) /\ Unended(q)
  BY <1>2, <1>5, <1>6, TalkKeeps
<1>8. /\ Played(x.demo.prepared, v.inbox, c) /\ Preparing(v.inbox)
      /\ Unended(v.inbox)
  BY <1>2, <1>3, <1>4, <1>6, <1>7, PrepareLast
<1>9. Sessional(v, c, e)
  BY <1>1, <1>6, <1>8 DEF Sound, Sessional, Reported
<1>10. x.demo.prepared # 0
  BY DEF Sessions
<1>11. Lively(v, c, e, FALSE)
  BY <1>1, <1>6, <1>8, <1>10 DEF Lively, Staged
<1> QED
  BY <1>1, <1>9, <1>11 DEF Sound

\* Nothing is built, for now or because that failed.
LEMMA UnbuiltSound ==
  ASSUME NEW w, NEW c, NEW e, NEW needs, Sound(w, c, e, needs),
         w.demo.building # "BUILT", NEW v, Good(v, c), Told(v), v.inbox = w.inbox,
         NEW after \in BOOLEAN, v.demo.building = IF after THEN "IDLE" ELSE "BUILDING",
         v.demo.waits <=> ~after, ~after => v.demo.prepared # 0
  PROVE  Sound(v, c, e, after)
<1>1. HoldsNone(c) /\ ~Preparing(v.inbox) /\ Unended(v.inbox) /\ ~Failed(e)
  BY DEF Sound, Lively, Staged
<1>2. Sessional(v, c, e)
  BY <1>1, NothingPlayed DEF Sound, Sessional, Reported
<1>3. Lively(v, c, e, after)
  BY <1>1 DEF Lively, Staged
<1> QED
  BY <1>2, <1>3 DEF Sound

LEMMA LiveStep ==
  ASSUME IInv, Live, UNCHANGED <<builder, playbackVars>>, builds' \subseteq Sessions,
         events' \in Seq(Events), activity' \in Activities,
         activity'.thread \in {"free", "clears", "destroys"},
         NEW v, Leaves(v), Sound(v, core, events', activity'.needsPrepare),
         ShownAs(v, surfaces), HeardAs(v, tracks, builder.multi),
         activity'.thread = "free" => VideoAs(v, activity'.valid),
         activity'.thread # "free" => v.demo.building = "BUILT" /\ ~v.demo.surface,
         core.codec /\ ~core.failing => activity'.valid
  PROVE  IInv'
<1>1. Good(v, core) /\ v \in Worlds
  BY DEF Sound, Good
<1>2. World' = v
  BY <1>1, WorldIs
<1>3. /\ builder' = builder /\ core' = core /\ surfaces' = surfaces /\ tracks' = tracks
      /\ demo' = v.demo /\ inbox' = v.inbox
  BY DEF playbackVars, Leaves
<1>4. Live' /\ (Free' <=> activity'.thread = "free") /\ (Clearing' <=> activity'.thread # "free")
  BY DEF Live, Free, Clearing
<1>5. Types1' /\ Types2'
  BY <1>3 DEF IInv, Types1, Types2
<1>6. Good(World, core)' /\ CoreOK(core, surfaces)'
  <2>1. CoreOK(core, surfaces)
    BY DEF IInv
  <2> QED
    BY <1>1, <1>2, <1>3, <2>1, Zenon
<1>7. Sessional(World, core, events)'
  BY <1>2, <1>3, Zenon DEF Sound
<1>8. Lively(World, core, events, activity.needsPrepare)'
  BY <1>2, <1>3, Zenon DEF Sound
<1>9. Ended'
  <2>1. ~core.released
    BY DEF IInv, Ended
  <2> QED
    BY <1>3, <1>4, <2>1 DEF Ended
<1>10. Dues'
  <2>1. ShownAs(World, surfaces)' /\ HeardAs(World, tracks, builder.multi)'
    BY <1>2, <1>3, Zenon
  <2>2. Free' => VideoAs(World, activity.valid)'
    BY <1>2, <1>4, Zenon
  <2>3. Clearing' => demo'.building = "BUILT" /\ ~demo'.surface
    BY <1>3, <1>4, Zenon
  <2>4. core'.codec /\ ~core'.failing => activity'.valid
    BY <1>3, Zenon
  <2> QED
    BY <2>1, <2>2, <2>3, <2>4, Zenon DEF Dues
<1> QED
  BY <1>4, <1>5, <1>6, <1>7, <1>8, <1>9, <1>10, Zenon DEF IInv

\* What the invariant says to the main thread.
LEMMA InvLive ==
  ASSUME IInv, Live
  PROVE  /\ Sound(World, core, events, activity.needsPrepare) /\ activity \in Activities
         /\ ShownAs(World, surfaces) /\ HeardAs(World, tracks, builder.multi)
         /\ builds \subseteq Sessions /\ activity.valid \in BOOLEAN
BY DEF IInv, Sound, Dues, Types1, Activities

\* A builder is asked if one must be.
LEMMA preparedIs ==
  ASSUME DemoAssumption, IInv, Live, activity.needsPrepare => demo.prepared < MaxPrepares,
         NEW p, p = IF activity.needsPrepare THEN prepare(World, activity.valid) ELSE World
  PROVE  /\ Sound(p, core, events, FALSE) /\ HeardAs(p, tracks, builder.multi)
         /\ activity.needsPrepare => p.demo.prepared \in Sessions
<1>1. /\ Sound(World, core, events, activity.needsPrepare)
      /\ HeardAs(World, tracks, builder.multi) /\ activity.valid \in BOOLEAN
      /\ activity.needsPrepare \in BOOLEAN
  BY InvLive DEF Activities
<1>2. CASE ~activity.needsPrepare
  <2>1. p = World
    BY <1>2
  <2>2. activity.needsPrepare = FALSE
    BY <1>1, <1>2
  <2> QED
    BY <1>1, <1>2, <2>1, <2>2, Zenon
<1>3. CASE activity.needsPrepare
  <2>1. p = prepare(World, activity.valid)
    BY <1>3
  <2>2. World.demo.building = "IDLE" /\ Good(World, core) /\ World.demo.prepared < MaxPrepares
    BY <1>1, <1>3, WorldHas DEF Sound, Lively
  <2>3. /\ p.demo.prepared = World.demo.prepared + 1 /\ p.demo.prepared \in Sessions
        /\ builder.later =>
             /\ Good(p, core) /\ Told(p) /\ p.demo.building = "BUILDING" /\ p.demo.waits
             /\ p.inbox = World.inbox
        /\ ~builder.later =>
             \E x : x.inbox = World.inbox /\ x.demo.prepared = World.demo.prepared + 1
                    /\ Built(x, p, core, surfaces, tracks, activity.valid)
    BY <1>1, <2>1, <2>2, prepareIs
  <2>4. CASE builder.later
    <3>1. PICK no \in BOOLEAN : no = FALSE
      OBVIOUS
    <3>2. p.demo.prepared # 0
      BY <2>3 DEF Sessions
    <3>3. Sound(p, core, events, no)
      BY <1>1, <2>2, <2>3, <2>4, <3>1, <3>2, UnbuiltSound
    <3>4. HeardAs(p, tracks, builder.multi)
      BY <2>3, <2>4 DEF HeardAs
    <3> QED
      BY <2>3, <3>1, <3>3, <3>4, Zenon
  <2>5. CASE ~builder.later
    <3>1. PICK x : x.inbox = World.inbox /\ x.demo.prepared = World.demo.prepared + 1
                   /\ Built(x, p, core, surfaces, tracks, activity.valid)
      BY <2>3, <2>5
    <3>2. x.demo.prepared \in Sessions
      BY <2>3, <3>1
    <3>3. Sound(p, core, events, FALSE)
      BY <1>1, <2>2, <3>1, <3>2, BuiltSound
    <3>4. HeardAs(p, tracks, builder.multi)
      BY <3>1 DEF Built
    <3> QED
      BY <2>3, <3>3, <3>4
  <2> QED
    BY <2>4, <2>5
<1> QED
  BY <1>2, <1>3

LEMMA preparePlayerInv ==
  ASSUME DemoAssumption, IInv, Free, NEW autoPlay \in BOOLEAN, preparePlayer(autoPlay),
         UNCHANGED <<builder, playbackVars, events>>
  PROVE  IInv'
<1>1. Live
  BY DEF Free, Live
<1>2. PICK p : p = IF activity.needsPrepare THEN prepare(World, activity.valid) ELSE World
  OBVIOUS
<1>3. PICK w : w = setSurface(p, activity.valid)
  OBVIOUS
<1>4. PICK v : v = maybeStartPlayback(w, autoPlay, activity.valid)
  OBVIOUS
<1>5. PICK later \in BOOLEAN : later <=> autoPlay /\ ~MayStart(w, activity.valid)
  OBVIOUS
<1>6. PICK no \in BOOLEAN : no = FALSE
  OBVIOUS
<1>7. PICK yes \in BOOLEAN : yes = TRUE
  OBVIOUS
<1>8. PICK a : a = [activity EXCEPT !.resumed = yes, !.needsPrepare = no, !.autoPlay = later]
  OBVIOUS
<1>9. /\ activity.needsPrepare => demo.prepared < MaxPrepares
      /\ Leaves(v)
      /\ builds' = builds \/ (activity.needsPrepare /\ builds' = builds \cup {p.demo.prepared})
  BY <1>2, <1>3, <1>4, Zenon DEF preparePlayer
<1>10. activity' = a
  <2>1. later = (autoPlay /\ ~MayStart(w, activity.valid))
    BY <1>5
  <2> QED
    BY <1>2, <1>3, <1>6, <1>7, <1>8, <2>1, Zenon DEF preparePlayer
<1>11. /\ Sound(p, core, events, FALSE) /\ HeardAs(p, tracks, builder.multi)
       /\ activity.needsPrepare => p.demo.prepared \in Sessions
  BY <1>1, <1>2, <1>9, preparedIs
<1>12. activity \in Activities /\ activity.valid \in BOOLEAN /\ builds \subseteq Sessions
  BY <1>1, InvLive
<1>13. a \in Activities /\ a.thread = activity.thread /\ a.needsPrepare = no
       /\ a.valid = activity.valid
  BY <1>8, <1>12 DEF Activities
<1>14. Surfaced(p, w, core, surfaces, activity.valid)
  BY <1>3, <1>11, <1>12, SoundNamed, setSurfaceIs DEF Sound
<1>15. Sound(w, core, events, FALSE)
  BY <1>11, <1>14, CalmSound DEF Surfaced
<1>16. Keeps(w, v, core)
  BY <1>4, <1>15, startKeeps DEF Sound
<1>17. Sound(v, core, events, FALSE)
  BY <1>15, <1>16, CalmSound DEF Keeps
<1>18. /\ ShownAs(v, surfaces) /\ HeardAs(v, tracks, builder.multi)
       /\ VideoAs(v, activity.valid)
  BY <1>11, <1>14, <1>16, Zenon DEF Surfaced, Keeps
<1>19. /\ UNCHANGED <<builder, playbackVars>> /\ events' = events
       /\ events' \in Seq(Events) /\ builds' \subseteq Sessions
  BY <1>9, <1>11, <1>12, CoreTypes
<1>20. activity' \in Activities /\ activity'.thread = "free"
  BY <1>10, <1>13 DEF Free
<1>21. Sound(v, core, events', activity'.needsPrepare) /\ VideoAs(v, activity'.valid)
  BY <1>6, <1>10, <1>13, <1>17, <1>18, <1>19, Zenon
<1>22. core.codec /\ ~core.failing => activity'.valid
  BY <1>10, <1>13, CoreTypes
<1> QED
  BY <1>1, <1>9, <1>18, <1>19, <1>20, <1>21, <1>22, LiveStep

LEMMA surfaceCreatedInv ==
  ASSUME IInv, surfaceCreated, UNCHANGED <<builder, playbackVars, events>>
  PROVE  IInv'
<1>1. Free /\ Live /\ UNCHANGED builds
  BY DEF surfaceCreated, MayCall, Free, Live
<1>2. PICK yes \in BOOLEAN : yes = TRUE
  OBVIOUS
<1>3. PICK w : w = setSurface(World, yes)
  OBVIOUS
<1>4. PICK v : v = maybeStartPlayback(w, activity.autoPlay, yes)
  OBVIOUS
<1>5. PICK later \in BOOLEAN : later <=> activity.autoPlay /\ ~MayStart(w, yes)
  OBVIOUS
<1>6. PICK a : a = [activity EXCEPT !.valid = yes, !.autoPlay = later]
  OBVIOUS
<1>7. Leaves(v)
  BY <1>2, <1>3, <1>4, Zenon DEF surfaceCreated
<1>8. activity' = a
  <2>1. later = (activity.autoPlay /\ ~MayStart(w, yes))
    BY <1>5
  <2> QED
    BY <1>2, <1>3, <1>6, <2>1, Zenon DEF surfaceCreated
<1>9. /\ Sound(World, core, events, activity.needsPrepare) /\ activity \in Activities
      /\ HeardAs(World, tracks, builder.multi) /\ builds \subseteq Sessions
  BY <1>1, InvLive
<1>10. /\ a \in Activities /\ a.thread = activity.thread
       /\ a.needsPrepare = activity.needsPrepare /\ a.valid = yes
  BY <1>6, <1>9 DEF Activities
<1>11. Surfaced(World, w, core, surfaces, yes)
  BY <1>3, <1>9, SoundNamed, setSurfaceIs DEF Sound
<1>12. Sound(w, core, events, activity.needsPrepare)
  BY <1>9, <1>11, CalmSound DEF Surfaced
<1>13. Keeps(w, v, core)
  BY <1>4, <1>12, startKeeps DEF Sound
<1>14. Sound(v, core, events, activity.needsPrepare)
  BY <1>12, <1>13, CalmSound DEF Keeps
<1>15. ShownAs(v, surfaces) /\ HeardAs(v, tracks, builder.multi) /\ VideoAs(v, yes)
  BY <1>9, <1>11, <1>13, Zenon DEF Surfaced, Keeps
<1>16. /\ UNCHANGED <<builder, playbackVars>> /\ events' = events
       /\ events' \in Seq(Events) /\ builds' \subseteq Sessions
  BY <1>1, <1>9, CoreTypes
<1>17. activity' \in Activities /\ activity'.thread = "free"
  BY <1>1, <1>8, <1>10 DEF Free
<1>18. Sound(v, core, events', activity'.needsPrepare) /\ VideoAs(v, activity'.valid)
  BY <1>8, <1>10, <1>14, <1>15, <1>16, Zenon
<1>19. activity'.valid
  BY <1>2, <1>8, <1>10
<1> QED
  BY <1>1, <1>7, <1>15, <1>16, <1>17, <1>18, <1>19, LiveStep

\* Nothing is decoded for renderers that are not built.
LEMMA UnbuiltIdle ==
  ASSUME IInv, Live, demo.building # "BUILT"
  PROVE  core.codec => core.failing
<1>1. HoldsNone(core)
  BY InvWorld DEF Session, Staged
<1> QED
  BY <1>1, CoreTypes DEF CoreOK, HoldsNone, Sessions

LEMMA blockingClearSurfaceInv ==
  ASSUME IInv, Free, NEW resumed \in BOOLEAN, NEW valid \in BOOLEAN,
         blockingClearSurface(resumed, valid), UNCHANGED <<builder, playbackVars, events, builds>>
  PROVE  IInv'
<1>1. Live
  BY DEF Free, Live
<1>2. PICK no \in BOOLEAN : no = FALSE
  OBVIOUS
<1>3. PICK x : x = [World EXCEPT !.demo.surface = no]
  OBVIOUS
<1>4. /\ Sound(World, core, events, activity.needsPrepare) /\ activity \in Activities
      /\ HeardAs(World, tracks, builder.multi) /\ builds \subseteq Sessions
  BY <1>1, InvLive
<1>5. WithSurface(World, x, core, no)
  BY <1>3, <1>4, withSurface DEF Sound
<1>6. /\ Sound(x, core, events, activity.needsPrepare) /\ ~x.demo.surface
      /\ HeardAs(x, tracks, builder.multi) /\ x.demo.building = demo.building
  BY <1>2, <1>4, <1>5, WorldHas, CalmSound DEF WithSurface, Calm
<1>7. /\ UNCHANGED <<builder, playbackVars>> /\ events' = events
      /\ events' \in Seq(Events) /\ builds' \subseteq Sessions
  BY <1>4, CoreTypes
<1>8. CASE demo.building = "BUILT"
  <2>1. PICK v : v = PushSurface(x)
    OBVIOUS
  <2>2. PICK thread : thread = IF valid = activity.valid THEN "clears" ELSE "destroys"
    OBVIOUS
  <2>3. PICK a : a = [activity EXCEPT !.resumed = resumed, !.thread = thread]
    OBVIOUS
  <2>4. Leaves(v) /\ activity' = a
    BY <1>2, <1>3, <1>8, <2>1, <2>2, <2>3, Zenon DEF blockingClearSurface
  <2>5. /\ a \in Activities /\ a.thread \in {"clears", "destroys"}
        /\ a.needsPrepare = activity.needsPrepare /\ a.valid = activity.valid
    BY <1>4, <2>2, <2>3 DEF Activities
  <2>6. /\ Good(x, core) /\ x.demo.building = "BUILT" /\ x.demo.prepared \in Sessions
        /\ "SURFACE" \in Shown /\ Shown \subseteq Talk
    BY <1>6, <1>8, SoundNamed, Sorts DEF Sound, Named, Shown, SortsAre
  <2>7. /\ Goes(x, v, core, Shown) /\ v.app = x.app /\ v.demo = x.demo
        /\ \A now : Latest(v.inbox, Surfacing(x.demo.prepared), now).surface <=> x.demo.surface
    BY <2>1, <2>6, surfaceGoes
  <2>8. Sound(v, core, events, activity.needsPrepare)
    BY <1>6, <2>6, <2>7, GoesCalm, CalmSound
  <2>9. ShownAs(v, surfaces)
    BY <2>7, Zenon DEF ShownAs
  <2>10. HeardAs(v, tracks, builder.multi)
    <3>1. SameSelections(x.inbox, v.inbox)
      BY <2>6, <2>7, ShownSelections, Zenon
    <3> QED
      BY <1>6, <2>7, <3>1, Zenon DEF HeardAs, SameSelections
  <2>11. v.demo.building = "BUILT" /\ ~v.demo.surface
    BY <1>6, <2>6, <2>7
  <2>12. Sound(v, core, events', activity'.needsPrepare)
    BY <1>7, <2>4, <2>5, <2>8, Zenon
  <2>13. core.codec /\ ~core.failing => activity'.valid
    BY <2>4, <2>5, CoreTypes
  <2>14. /\ activity' \in Activities /\ activity'.thread \in {"clears", "destroys"}
    BY <2>4, <2>5
  <2> QED
    BY <1>1, <1>7, <2>4, <2>9, <2>10, <2>11, <2>12, <2>13, <2>14, LiveStep
<1>9. CASE demo.building # "BUILT"
  <2>1. PICK a : a = [activity EXCEPT !.resumed = resumed, !.valid = valid]
    OBVIOUS
  <2>2. Leaves(x) /\ activity' = a
    BY <1>2, <1>3, <1>9, <2>1, Zenon DEF blockingClearSurface
  <2>3. /\ a \in Activities /\ a.thread = "free" /\ a.needsPrepare = activity.needsPrepare
    BY <1>4, <2>1 DEF Activities, Free
  <2>4. ShownAs(x, surfaces) /\ VideoAs(x, activity'.valid)
    BY <1>6, <1>9 DEF ShownAs, VideoAs
  <2>5. Sound(x, core, events', activity'.needsPrepare)
    BY <1>6, <1>7, <2>2, <2>3, Zenon
  <2>6. core.codec /\ ~core.failing => activity'.valid
    BY <1>1, <1>9, UnbuiltIdle
  <2>7. activity' \in Activities /\ activity'.thread = "free"
    BY <2>2, <2>3
  <2> QED
    BY <1>1, <1>6, <1>7, <2>2, <2>4, <2>5, <2>6, <2>7, LiveStep
<1> QED
  BY <1>8, <1>9

LEMMA ClearReturnsInv ==
  ASSUME IInv, ClearReturns, UNCHANGED <<builder, playbackVars, events>>
  PROVE  IInv'
<1>1. /\ Live /\ Clearing /\ builds' = builds
      /\ \A i \in DOMAIN inbox : inbox[i].what \notin {"SURFACE", "SELECT"}
  BY DEF ClearReturns, Live, Clearing, IsCustom
<1>2. PICK no \in BOOLEAN : no = FALSE
  OBVIOUS
<1>3. PICK v : v = pushTrackSelection(World, "video", no)
  OBVIOUS
<1>4. PICK valid \in BOOLEAN : valid <=> activity.valid /\ activity.thread = "clears"
  OBVIOUS
<1>5. PICK a : a = [activity EXCEPT !.thread = "free", !.valid = valid]
  OBVIOUS
<1>6. /\ Sound(World, core, events, activity.needsPrepare) /\ activity \in Activities
      /\ ShownAs(World, surfaces) /\ HeardAs(World, tracks, builder.multi)
      /\ builds \subseteq Sessions /\ activity.valid \in BOOLEAN
  BY <1>1, InvLive
<1>7. Leaves(v)
  BY <1>2, <1>3, Zenon DEF ClearReturns
<1>8. activity' = a
  <2>1. valid = (activity.valid /\ activity.thread = "clears")
    BY <1>4
  <2> QED
    BY <1>5, <2>1, Zenon DEF ClearReturns
<1>9. /\ a \in Activities /\ a.thread = "free" /\ a.needsPrepare = activity.needsPrepare
  BY <1>5, <1>6 DEF Activities
<1>10. /\ Good(World, core) /\ demo.building = "BUILT" /\ ~demo.surface
       /\ demo.prepared \in Sessions
  BY <1>1, InvWorld, WorldHas DEF Named, IInv, Dues
<1>11. "ENABLE" \in Quiet /\ "ENABLE" \in Switching /\ Quiet \subseteq Talk
  BY Sorts DEF Quiet, Switching, SortsAre
<1>12. /\ Goes(World, v, core, Quiet) /\ Goes(World, v, core, Switching)
       /\ "video" \in v.app.flags <=> no /\ World.demo.selected["video"] # DISABLED
       /\ "audio" \in v.app.flags <=> "audio" \in World.app.flags
  <2>1. World.demo.building = "BUILT"
    BY <1>10, WorldHas
  <2> QED
    BY <1>3, <1>10, <1>11, <2>1, pushVideoGoes
<1>13. Sound(v, core, events, activity.needsPrepare)
  BY <1>6, <1>11, <1>12, GoesCalm, CalmSound
<1>14. SameDemo(World, v)
  BY <1>12 DEF Goes
<1>15. ShownAs(v, surfaces)
  <2>1. SameSurfaces(World.inbox, v.inbox)
    BY <1>10, <1>12, QuietSurfaces, Zenon
  <2> QED
    BY <1>6, <1>14, <2>1, Zenon DEF ShownAs, SameDemo, SameSurfaces
<1>16. HeardAs(v, tracks, builder.multi)
  <2>1. SameSelections(World.inbox, v.inbox)
    BY <1>10, <1>12, SelectionStays, Zenon
  <2> QED
    BY <1>6, <1>12, <1>14, <2>1, Zenon DEF HeardAs, SameDemo, SameSelections
<1>17. VideoAs(v, activity'.valid)
  <2>1. "video" \notin v.app.flags /\ ~v.demo.surface
    BY <1>2, <1>10, <1>12, <1>14, WorldHas DEF SameDemo
  <2> QED
    BY <2>1 DEF VideoAs
\* The surface has been taken from the decoder.
<1>18. core.codec => core.failing
  <2>1. Latest(inbox, Surfacing(demo.prepared), SurfaceNow(demo.prepared, surfaces))
          = SurfaceNow(demo.prepared, surfaces)
    <3>1. inbox \in Seq(Message)
      BY InvWorld
    <3>2. \A i \in DOMAIN inbox : inbox[i] \notin Surfacing(demo.prepared)
      BY <1>1, KindsSort
    <3> QED
      BY <3>1, <3>2, LatestNone
  <2>2. ~surfaces[demo.prepared]
    <3>1. ~SurfaceNow(demo.prepared, surfaces).surface
      BY <1>6, <1>10, <2>1, WorldHas, Zenon DEF ShownAs
    <3> QED
      BY <3>1 DEF SurfaceNow
  <2>3. HoldsNone(core) \/ core.held = demo.prepared
    BY InvWorld DEF Session, Played
  <2> QED
    BY <2>2, <2>3, CoreTypes DEF CoreOK, HoldsNone, Sessions
<1>19. /\ UNCHANGED <<builder, playbackVars>> /\ events' = events
       /\ events' \in Seq(Events) /\ builds' \subseteq Sessions
  BY <1>1, <1>6, CoreTypes
<1>20. Sound(v, core, events', activity'.needsPrepare)
  BY <1>8, <1>9, <1>13, <1>19, Zenon
<1>21. activity' \in Activities /\ activity'.thread = "free"
  BY <1>8, <1>9
<1> QED
  BY <1>1, <1>7, <1>15, <1>16, <1>17, <1>18, <1>19, <1>20, <1>21, LiveStep

LEMMA selectTrackInv ==
  ASSUME IInv, NEW type \in Types, NEW track \in Tracks \cup {DISABLED},
         selectTrack(type, track), UNCHANGED <<builder, playbackVars, events>>
  PROVE  IInv'
<1>1. Free /\ Live /\ UNCHANGED <<activity, builds>>
  BY DEF selectTrack, MayCall, Free, Live
<1>2. PICK x : x = [World EXCEPT !.demo.selected[type] = track]
  OBVIOUS
<1>3. PICK v : v = IF type = "video" THEN pushSurfaceAndVideoTrack(x, activity.valid)
                   ELSE pushTrackSelection(x, type, TRUE)
  OBVIOUS
<1>4. Leaves(v)
  BY <1>2, <1>3, Zenon DEF selectTrack
<1>5. /\ Sound(World, core, events, activity.needsPrepare) /\ activity \in Activities
      /\ ShownAs(World, surfaces) /\ HeardAs(World, tracks, builder.multi)
      /\ builds \subseteq Sessions /\ activity.valid \in BOOLEAN
  BY <1>1, InvLive
<1>6. VideoAs(World, activity.valid)
  BY <1>1 DEF IInv, Dues
<1>7. /\ Calm(World, x, core) /\ (x.demo.surface <=> World.demo.surface)
      /\ \A other \in Types : other # type =>
           x.demo.selected[other] = World.demo.selected[other]
      /\ x.app = World.app /\ x.inbox = World.inbox
  <2>1. Good(World, core)
    BY <1>5 DEF Sound
  <2>2. WithSelected(World, x, core, type)
    BY <1>2, <2>1, withSelected
  <2> QED
    BY <2>2, Zenon DEF WithSelected
<1>8. Sound(x, core, events, activity.needsPrepare)
  BY <1>5, <1>7, CalmSound
<1>9. Good(x, core) /\ Named(x)
  BY <1>8, SoundNamed DEF Sound
<1>10. /\ x.demo.building = World.demo.building /\ x.demo.prepared = World.demo.prepared
  BY <1>7 DEF Calm
<1>11. /\ Sound(v, core, events, activity.needsPrepare)
       /\ ShownAs(v, surfaces) /\ HeardAs(v, tracks, builder.multi)
       /\ VideoAs(v, activity.valid)
  <2>1. CASE type = "video"
    <3>1. v = pushSurfaceAndVideoTrack(x, activity.valid)
      BY <1>3, <2>1
    <3>2. Shows(x, v, core, surfaces, activity.valid)
      BY <1>5, <1>9, <3>1, showSurface
    <3>3. x.demo.selected["audio"] = World.demo.selected["audio"]
      BY <1>7, <2>1 DEF Types
    <3>4. HeardAs(x, tracks, builder.multi)
      BY <1>5, <1>7, <1>10, <3>3, Zenon DEF HeardAs
    <3>5. Sound(v, core, events, activity.needsPrepare)
      BY <1>8, <3>2, CalmSound DEF Shows
    <3> QED
      BY <3>2, <3>4, <3>5, Zenon DEF Shows
  <2>2. CASE type = "audio"
    <3>1. v = pushTrackSelection(x, "audio", TRUE)
      BY <1>3, <2>2
    <3>2. Hears(x, v, core, tracks)
      BY <1>9, <3>1, hearTrack
    <3>3. x.demo.selected["video"] = World.demo.selected["video"]
      BY <1>7, <2>2 DEF Types
    <3>4. ShownAs(x, surfaces)
      BY <1>5, <1>7, <1>10, Zenon DEF ShownAs
    <3>5. VideoAs(x, activity.valid)
      BY <1>6, <1>7, <1>10, <3>3, Zenon DEF VideoAs
    <3>6. Sound(v, core, events, activity.needsPrepare)
      BY <1>8, <3>2, CalmSound DEF Hears
    <3> QED
      BY <3>2, <3>4, <3>5, <3>6, Zenon DEF Hears
  <2> QED
    BY <2>1, <2>2 DEF Types
<1>12. /\ UNCHANGED <<builder, playbackVars>> /\ events' = events /\ activity' = activity
       /\ events' \in Seq(Events) /\ builds' \subseteq Sessions
  BY <1>1, <1>5, CoreTypes
<1>13. Sound(v, core, events', activity'.needsPrepare) /\ VideoAs(v, activity'.valid)
  BY <1>11, <1>12, Zenon
<1>14. /\ activity' \in Activities /\ activity'.thread = "free"
       /\ core.codec /\ ~core.failing => activity'.valid
  BY <1>1, <1>5, <1>12, CoreTypes DEF Free
<1> QED
  BY <1>1, <1>4, <1>11, <1>12, <1>13, <1>14, LiveStep

LEMMA StartOrPauseInv ==
  ASSUME IInv, NEW play \in BOOLEAN, StartOrPause(play),
         UNCHANGED <<builder, playbackVars, events>>
  PROVE  IInv'
<1>1. Free /\ Live /\ UNCHANGED <<activity, builds>>
  BY DEF StartOrPause, MayCall, Free, Live
<1>2. PICK v : v = setPlayWhenReady(World, play)
  OBVIOUS
<1>3. Leaves(v)
  BY <1>2, Zenon DEF StartOrPause
<1>4. /\ Sound(World, core, events, activity.needsPrepare) /\ activity \in Activities
      /\ ShownAs(World, surfaces) /\ HeardAs(World, tracks, builder.multi)
      /\ builds \subseteq Sessions
  BY <1>1, InvLive
<1>5. VideoAs(World, activity.valid)
  BY <1>1 DEF IInv, Dues
<1>6. Keeps(World, v, core)
  BY <1>2, <1>4, playKeeps DEF Sound
<1>7. Sound(v, core, events, activity.needsPrepare)
  BY <1>4, <1>6, CalmSound DEF Keeps
<1>8. /\ ShownAs(v, surfaces) /\ HeardAs(v, tracks, builder.multi)
      /\ VideoAs(v, activity.valid)
  BY <1>4, <1>5, <1>6, Zenon DEF Keeps
<1>9. /\ UNCHANGED <<builder, playbackVars>> /\ events' = events /\ activity' = activity
      /\ events' \in Seq(Events) /\ builds' \subseteq Sessions
  BY <1>1, <1>4, CoreTypes
<1>10. Sound(v, core, events', activity'.needsPrepare) /\ VideoAs(v, activity'.valid)
  BY <1>7, <1>8, <1>9, Zenon
<1>11. /\ activity' \in Activities /\ activity'.thread = "free"
       /\ core.codec /\ ~core.failing => activity'.valid
  BY <1>1, <1>4, <1>9, CoreTypes DEF Free
<1> QED
  BY <1>1, <1>3, <1>8, <1>9, <1>10, <1>11, LiveStep

\* Once the player is being released.
LEMMA EndStep ==
  ASSUME IInv, UNCHANGED <<builder, playbackVars>>, builds' \subseteq Sessions,
         events' \in Seq(Events), activity' \in Activities,
         activity'.thread \in {"releases", "released"},
         NEW v, Leaves(v), Good(v, core), Sessional(v, core, events'),
         v.demo.building = "IDLE", ~v.demo.waits,
         activity'.thread = "releases" => core.released \/ Ending(v.inbox),
         activity'.thread = "released" => core.released,
         core.released => core.held = 0 /\ v.inbox = <<>>,
         activity'.valid = activity.valid
  PROVE  IInv'
<1>1. v \in Worlds
  BY DEF Good
<1>2. World' = v
  BY <1>1, WorldIs
<1>3. /\ builder' = builder /\ core' = core /\ surfaces' = surfaces /\ tracks' = tracks
      /\ demo' = v.demo /\ inbox' = v.inbox
  BY DEF playbackVars, Leaves
<1>4. ~Live' /\ ~Free' /\ ~Clearing'
  BY DEF Live, Free, Clearing
<1>5. Types1' /\ Types2'
  BY <1>3 DEF IInv, Types1, Types2
<1>6. Good(World, core)' /\ CoreOK(core, surfaces)'
  <2>1. CoreOK(core, surfaces)
    BY DEF IInv
  <2> QED
    BY <1>2, <1>3, <2>1, Zenon
<1>7. Sessional(World, core, events)'
  BY <1>2, <1>3, Zenon
<1>8. Ended'
  BY <1>3, <1>4 DEF Ended
<1>9. Dues'
  <2>1. ShownAs(v, surfaces) /\ HeardAs(v, tracks, builder.multi)
    BY DEF ShownAs, HeardAs
  <2>2. ShownAs(World, surfaces)' /\ HeardAs(World, tracks, builder.multi)'
    BY <1>2, <1>3, <2>1, Zenon
  <2>3. core'.codec /\ ~core'.failing => activity'.valid
    BY <1>3, CoreTypes
  <2> QED
    BY <1>4, <2>2, <2>3, Zenon DEF Dues
<1> QED
  BY <1>4, <1>5, <1>6, <1>7, <1>8, <1>9, Zenon DEF IInv

LEMMA releaseInv ==
  ASSUME IInv, release, UNCHANGED <<builder, playbackVars, events>>
  PROVE  IInv'
<1>1. Free /\ Live /\ UNCHANGED builds
  BY DEF release, MayCall, Free, Live
<1>2. PICK no \in BOOLEAN : no = FALSE
  OBVIOUS
<1>3. PICK x : x = [World EXCEPT !.demo.waits = no, !.demo.building = "IDLE",
                                 !.demo.surface = no]
  OBVIOUS
<1>4. PICK m : m = [what |-> "RELEASE"]
  OBVIOUS
<1>5. PICK v : v = Post(x, m)
  OBVIOUS
<1>6. PICK a : a = [activity EXCEPT !.thread = "releases", !.resumed = no]
  OBVIOUS
<1>7. Leaves(v) /\ activity' = a
  BY <1>2, <1>3, <1>4, <1>5, <1>6, Zenon DEF release
<1>8. /\ Sound(World, core, events, activity.needsPrepare) /\ activity \in Activities
      /\ builds \subseteq Sessions
  BY <1>1, InvLive
<1>9. /\ a \in Activities /\ a.thread = "releases" /\ a.valid = activity.valid
  BY <1>2, <1>6, <1>8 DEF Activities
<1>10. World \in Worlds /\ World.demo \in Demos /\ Good(World, core)
  BY <1>8, WorldTypes DEF Sound, Good
<1>11. x.demo \in Demos /\ x.demo.building = "IDLE" /\ x.demo.prepared = World.demo.prepared
  BY <1>2, <1>3, <1>10 DEF Worlds, Demos
<1>12. ~x.demo.waits
  BY <1>2, <1>3, <1>10 DEF Worlds, Demos
<1>13. x \in Worlds /\ x.app = World.app /\ x.inbox = World.inbox
  BY <1>3, <1>10, <1>11 DEF Worlds
<1>14. m \in Message /\ m.what = "RELEASE"
  BY <1>4, Posted
<1>15. v \in Worlds /\ v.demo = x.demo /\ v.app = x.app /\ v.inbox = Append(x.inbox, m)
  BY <1>5, <1>13, <1>14, PostIs
<1>16. Good(v, core)
  <2>1. Asked(x, core) /\ Silence(x.inbox, core.flags) /\ x.inbox \in Seq(Message)
    BY <1>10, <1>13, WorldTypes, Zenon DEF Good, Asked
  <2>2. Asked(v, core)
    BY <1>13, <1>14, <1>15, <2>1, AskedOther
  <2>3. Silence(v.inbox, core.flags)
    BY <1>14, <1>15, <2>1, SilenceAppend
  <2> QED
    BY <1>15, <2>2, <2>3 DEF Good
<1>17. /\ Ending(v.inbox) /\ (Preparing(v.inbox) <=> Preparing(World.inbox))
       /\ \A k : Played(k, World.inbox, core) => Played(k, v.inbox, core)
  <2>1. World.inbox \in Seq(Message) /\ Unended(World.inbox)
    BY <1>8, <1>10, WorldTypes DEF Sound, Lively
  <2> QED
    BY <1>13, <1>14, <1>15, <2>1, ReleaseLast
<1>18. Sessional(v, core, events)
  <2>1. Played(v.demo.prepared, v.inbox, core)
    BY <1>8, <1>11, <1>15, <1>17 DEF Sound, Sessional
  <2>2. Reported(v.inbox, core, events)
    BY <1>8, <1>17 DEF Sound, Sessional, Reported
  <2> QED
    BY <2>1, <2>2 DEF Sessional
<1>19. ~core.released
  BY <1>1 DEF IInv, Ended
<1>20. /\ UNCHANGED <<builder, playbackVars>> /\ events' = events
       /\ events' \in Seq(Events) /\ builds' \subseteq Sessions
  BY <1>1, <1>8, CoreTypes
<1>21. Sessional(v, core, events') /\ v.demo.building = "IDLE" /\ ~v.demo.waits
  BY <1>11, <1>12, <1>15, <1>18, <1>20
<1>22. /\ activity' \in Activities /\ activity'.thread = "releases"
       /\ activity'.valid = activity.valid
  BY <1>7, <1>9
<1> QED
  BY <1>7, <1>16, <1>17, <1>19, <1>20, <1>21, <1>22, EndStep

LEMMA ReleaseReturnsInv ==
  ASSUME IInv, ReleaseReturns, UNCHANGED <<builder, playbackVars>>
  PROVE  IInv'
<1>1. /\ activity.thread = "releases" /\ core.released /\ events' = <<>>
      /\ UNCHANGED <<demo, builds, app, inbox>>
  BY DEF ReleaseReturns
<1>2. PICK a : a = [activity EXCEPT !.thread = "released"]
  OBVIOUS
<1>3. activity' = a
  BY <1>2 DEF ReleaseReturns
<1>4. activity \in Activities /\ builds \subseteq Sessions
  BY DEF IInv, Types1
<1>5. a \in Activities /\ a.thread = "released" /\ a.valid = activity.valid
  BY <1>2, <1>4 DEF Activities
<1>6. Leaves(World)
  BY <1>1, WorldHas DEF Leaves
<1>7. /\ Good(World, core) /\ World.demo.building = "IDLE" /\ ~World.demo.waits
      /\ core.held = 0 /\ World.inbox = <<>>
  BY <1>1, InvWorld, WorldHas DEF IInv, Ended, Live
<1>8. Sessional(World, core, <<>>)
  <2>1. Played(World.demo.prepared, World.inbox, core)
    BY DEF IInv, Sessional
  <2>2. Reported(World.inbox, core, <<>>)
    BY DEF Reported, Failed
  <2> QED
    BY <2>1, <2>2 DEF Sessional
<1>9. events' \in Seq(Events) /\ builds' \subseteq Sessions /\ Sessional(World, core, events')
  BY <1>1, <1>4, <1>8
<1> QED
  BY <1>1, <1>3, <1>5, <1>6, <1>7, <1>9, EndStep

\* A build is forgotten at most.
LEMMA ForgetStep ==
  ASSUME IInv, builds' \subseteq builds,
         UNCHANGED <<builder, activity, demo, app, inbox, events, playbackVars>>
  PROVE  IInv'
<1>1. World' = World /\ activity' = activity /\ builder' = builder /\ events' = events
      /\ core' = core /\ surfaces' = surfaces /\ tracks' = tracks
      /\ demo' = demo /\ inbox' = inbox
  BY DEF World, playbackVars
<1>2. Live' = Live /\ Free' = Free /\ Clearing' = Clearing
  BY <1>1 DEF Live, Free, Clearing
<1>3. Types1' /\ Types2'
  BY <1>1 DEF IInv, Types1, Types2
<1>4. Good(World, core)' /\ CoreOK(core, surfaces)' /\ Sessional(World, core, events)'
  <2>1. Good(World, core) /\ CoreOK(core, surfaces) /\ Sessional(World, core, events)
    BY DEF IInv
  <2> QED
    BY <1>1, <2>1, Zenon
<1>5. (Live => Lively(World, core, events, activity.needsPrepare))'
  <2>1. Live => Lively(World, core, events, activity.needsPrepare)
    BY DEF IInv
  <2> QED
    BY <1>1, <1>2, <2>1, Zenon
<1>6. Ended'
  BY <1>1, <1>2, Zenon DEF IInv, Ended
<1>7. Dues'
  <2>1. Dues
    BY DEF IInv
  <2> QED
    BY <1>1, <1>2, <2>1, Zenon DEF Dues
<1> QED
  BY <1>3, <1>4, <1>5, <1>6, <1>7, Zenon DEF IInv

LEMMA AnswersInv ==
  ASSUME IInv, NEW k \in Sessions, Answers(k), UNCHANGED <<builder, playbackVars, events>>
  PROVE  IInv'
<1>1. /\ builds' = builds \ {k} /\ activity.thread \in {"free", "released"}
      /\ \/ UNCHANGED <<activity, demo, app, inbox>>
         \/ /\ ~Canceled(k)
            /\ \/ Leaves(onRenderers(World, activity.valid)) /\ UNCHANGED activity
               \/ /\ Leaves(onRenderersError(World))
                  /\ activity' = [activity EXCEPT !.needsPrepare = TRUE]
  BY Zenon DEF Answers
<1>2. CASE UNCHANGED <<activity, demo, app, inbox>>
  BY <1>1, <1>2, ForgetStep
<1>3. ASSUME ~Canceled(k),
             \/ Leaves(onRenderers(World, activity.valid)) /\ UNCHANGED activity
             \/ /\ Leaves(onRenderersError(World))
                /\ activity' = [activity EXCEPT !.needsPrepare = TRUE]
      PROVE  IInv'
  <2>1. demo.prepared = k /\ demo.waits
    BY <1>3 DEF Canceled
  <2>2. Live /\ activity.thread = "free"
    BY <1>1, <2>1 DEF IInv, Ended, Live
  <2>3. /\ Sound(World, core, events, activity.needsPrepare) /\ activity \in Activities
        /\ builds \subseteq Sessions /\ activity.valid \in BOOLEAN
        /\ activity.needsPrepare \in BOOLEAN /\ Good(World, core)
    BY <2>2, InvLive DEF Activities, Sound
  <2>4. World.demo.building = "BUILDING" /\ ~activity.needsPrepare
        /\ World.demo.prepared \in Sessions
    BY <2>1, <2>3, WorldHas DEF Sound, Lively
  <2>5. /\ UNCHANGED <<builder, playbackVars>> /\ events' = events
        /\ events' \in Seq(Events) /\ builds' \subseteq Sessions
    BY <1>1, <2>3, CoreTypes
  <2>6. CASE Leaves(onRenderers(World, activity.valid)) /\ UNCHANGED activity
    <3>1. PICK v : v = onRenderers(World, activity.valid)
      OBVIOUS
    <3>2. Leaves(v) /\ activity' = activity
      BY <2>6, <3>1, Zenon
    <3>3. Built(World, v, core, surfaces, tracks, activity.valid)
      BY <2>3, <2>4, <3>1, onRenderersIs
    <3>4. Sound(v, core, events, FALSE)
      BY <2>3, <2>4, <3>3, BuiltSound
    <3>5. activity'.needsPrepare = FALSE
      BY <2>3, <2>4, <3>2
    <3>6. Sound(v, core, events', activity'.needsPrepare)
      BY <2>5, <3>4, <3>5, Zenon
    <3>7. /\ ShownAs(v, surfaces) /\ VideoAs(v, activity'.valid)
          /\ HeardAs(v, tracks, builder.multi)
      BY <3>2, <3>3, Zenon DEF Built
    <3>8. /\ activity' \in Activities /\ activity'.thread = "free"
          /\ core.codec /\ ~core.failing => activity'.valid
      BY <2>2, <2>3, <3>2, CoreTypes
    <3> QED
      BY <2>2, <2>5, <3>2, <3>6, <3>7, <3>8, LiveStep
  <2>7. CASE /\ Leaves(onRenderersError(World))
             /\ activity' = [activity EXCEPT !.needsPrepare = TRUE]
    <3>1. PICK v : v = onRenderersError(World)
      OBVIOUS
    <3>2. PICK yes \in BOOLEAN : yes = TRUE
      OBVIOUS
    <3>3. PICK a : a = [activity EXCEPT !.needsPrepare = yes]
      OBVIOUS
    <3>4. Leaves(v) /\ activity' = a
      BY <2>7, <3>1, <3>2, <3>3, Zenon
    <3>5. /\ a \in Activities /\ a.thread = "free" /\ a.needsPrepare = yes
          /\ a.valid = activity.valid
      BY <2>2, <2>3, <3>3 DEF Activities
    <3>6. /\ Good(v, core) /\ Told(v) /\ v.demo.building = "IDLE" /\ ~v.demo.waits
          /\ v.inbox = World.inbox
      BY <2>3, <3>1, onRenderersErrorIs
    <3>7. Sound(v, core, events, yes)
      BY <2>3, <2>4, <3>2, <3>6, UnbuiltSound
    <3>8. Sound(v, core, events', activity'.needsPrepare)
      BY <2>5, <3>4, <3>5, <3>7, Zenon
    <3>9. /\ ShownAs(v, surfaces) /\ VideoAs(v, activity'.valid)
          /\ HeardAs(v, tracks, builder.multi)
      BY <3>6 DEF ShownAs, VideoAs, HeardAs
    <3>10. /\ activity' \in Activities /\ activity'.thread = "free"
           /\ core.codec /\ ~core.failing => activity'.valid
      BY <3>4, <3>5, CoreTypes
    <3> QED
      BY <2>2, <2>5, <3>4, <3>8, <3>9, <3>10, LiveStep
  <2> QED
    BY <1>3, <2>6, <2>7, Zenon
<1> QED
  BY <1>1, <1>2, <1>3, Zenon

\* The first event is taken.
LEMMA EventTaken ==
  ASSUME NEW q, NEW c, NEW e \in Seq(Events), e # <<>>, Reported(q, c, e)
  PROVE  /\ Tail(e) \in Seq(Events) /\ Reported(q, c, Tail(e)) /\ Head(e) \in Events
         /\ Failed(e) <=> Head(e) = "ERROR" \/ Failed(Tail(e))
         /\ Head(e) = "ERROR" => ~Failed(Tail(e))
<1>1. PICK r : r = Tail(e)
  OBVIOUS
<1>2. r \in Seq(Events) /\ Len(r) = Len(e) - 1 /\ \A i \in DOMAIN r : r[i] = e[i + 1]
  BY <1>1
<1>3. DOMAIN e = 1..Len(e) /\ DOMAIN r = 1..Len(e) - 1 /\ Len(e) \in Nat /\ Len(e) > 0
  BY <1>1
<1>4. Head(e) = e[1] /\ 1 \in DOMAIN e /\ Head(e) \in Events
  BY <1>3
<1>5. \A i \in DOMAIN r : i + 1 \in DOMAIN e /\ i + 1 # 1
  BY <1>3
<1>6. \A i \in DOMAIN e : i = 1 \/ (i - 1 \in DOMAIN r /\ r[i - 1] = e[i])
  <2>1. ASSUME NEW i \in DOMAIN e, i # 1 PROVE i - 1 \in DOMAIN r /\ r[i - 1] = e[i]
    <3>1. i - 1 \in DOMAIN r /\ (i - 1) + 1 = i
      BY <1>3, <2>1
    <3> QED
      BY <1>2, <3>1
  <2> QED
    BY <2>1
<1>7. Failed(e) <=> Head(e) = "ERROR" \/ Failed(r)
  <2>1. ASSUME Failed(e) PROVE Head(e) = "ERROR" \/ Failed(r)
    BY <1>4, <1>6, <2>1 DEF Failed
  <2>2. ASSUME Failed(r) PROVE Failed(e)
    BY <1>2, <1>5, <2>2 DEF Failed
  <2>3. ASSUME Head(e) = "ERROR" PROVE Failed(e)
    BY <1>4, <2>3 DEF Failed
  <2> QED
    BY <2>1, <2>2, <2>3
<1>8. Head(e) = "ERROR" => ~Failed(r)
  BY <1>2, <1>4, <1>5 DEF Reported, Failed
<1>9. ASSUME NEW i \in DOMAIN r, NEW j \in DOMAIN r, r[i] = "ERROR", r[j] = "ERROR"
      PROVE  i = j
  <2>1. i + 1 = j + 1
    BY <1>2, <1>5, <1>9 DEF Reported
  <2> QED
    BY <1>3, <1>9, <2>1
<1>10. Reported(q, c, r)
  BY <1>7, <1>9 DEF Reported
<1> QED
  BY <1>1, <1>2, <1>4, <1>7, <1>8, <1>10

LEMMA handleEventInv ==
  ASSUME IInv, handleEvent, UNCHANGED <<builder, playbackVars>>
  PROVE  IInv'
<1>1. /\ Free /\ Live /\ events # <<>> /\ events' = Tail(events) /\ builds' = builds
  BY DEF handleEvent, Free, Live
<1>2. /\ Sound(World, core, events, activity.needsPrepare) /\ activity \in Activities
      /\ ShownAs(World, surfaces) /\ HeardAs(World, tracks, builder.multi)
      /\ builds \subseteq Sessions /\ Good(World, core) /\ World \in Worlds
      /\ World.demo \in Demos /\ World.app \in Apps
  BY <1>1, InvLive, WorldTypes DEF Sound, Good
<1>3. VideoAs(World, activity.valid)
  BY <1>1 DEF IInv, Dues
<1>4. /\ events' \in Seq(Events) /\ Reported(World.inbox, core, events')
      /\ Head(events) \in Events
      /\ Failed(events) <=> Head(events) = "ERROR" \/ Failed(events')
      /\ Head(events) = "ERROR" => ~Failed(events')
  <2>1. Reported(World.inbox, core, events) /\ events \in Seq(Events)
    BY <1>2, CoreTypes DEF Sound, Sessional
  <2> QED
    BY <1>1, <2>1, EventTaken
<1>5. UNCHANGED <<builder, playbackVars>> /\ builds' \subseteq Sessions
  BY <1>1, <1>2
<1>6. CASE Head(events) = "ERROR"
  <2>1. PICK v : v = [World EXCEPT !.demo.building = "IDLE"]
    OBVIOUS
  <2>2. PICK yes \in BOOLEAN : yes = TRUE
    OBVIOUS
  <2>3. PICK a : a = [activity EXCEPT !.needsPrepare = yes]
    OBVIOUS
  <2>4. Leaves(v) /\ activity' = a
    BY <1>6, <2>1, <2>2, <2>3, Zenon DEF handleEvent, onPlayerError
  <2>5. /\ a \in Activities /\ a.thread = activity.thread /\ a.needsPrepare = yes
        /\ a.valid = activity.valid
    BY <1>2, <2>3 DEF Activities
  <2>6. /\ v.demo \in Demos /\ v.demo.building = "IDLE"
        /\ v.demo.prepared = World.demo.prepared /\ v.demo.reported = World.demo.reported
    BY <1>2, <2>1 DEF Worlds, Demos
  <2>7. v.demo.waits <=> World.demo.waits
    BY <1>2, <2>1 DEF Worlds, Demos
  <2>8. v \in Worlds /\ v.app = World.app /\ v.inbox = World.inbox
    BY <1>2, <2>1, <2>6 DEF Worlds
  <2>9. Good(v, core)
    <3>1. Asked(v, core) /\ Silence(v.inbox, core.flags)
      BY <1>2, <2>8, Zenon DEF Good, Asked
    <3> QED
      BY <2>8, <3>1 DEF Good
  <2>10. World.demo.building = "BUILT" /\ HoldsNone(core) /\ ~Preparing(World.inbox)
         /\ Told(World) /\ Unended(World.inbox) /\ ~World.demo.waits
    BY <1>2, <1>4, <1>6 DEF Sound, Lively, Staged, Sessional, Reported
  <2>11. Told(v)
    BY <2>6, <2>8, <2>10, Zenon DEF Told, getPlaybackState
  <2>12. Sessional(v, core, events')
    BY <1>4, <2>8, <2>10, NothingPlayed DEF Sessional
  <2>13. Lively(v, core, events', yes)
    BY <1>4, <1>6, <2>2, <2>6, <2>7, <2>8, <2>10, <2>11 DEF Lively, Staged
  <2>14. Sound(v, core, events', activity'.needsPrepare)
    BY <2>4, <2>5, <2>9, <2>12, <2>13, Zenon DEF Sound
  <2>15. /\ ShownAs(v, surfaces) /\ VideoAs(v, activity'.valid)
         /\ HeardAs(v, tracks, builder.multi)
    BY <2>6 DEF ShownAs, VideoAs, HeardAs
  <2>16. /\ activity' \in Activities /\ activity'.thread = "free"
         /\ core.codec /\ ~core.failing => activity'.valid
    BY <1>1, <2>4, <2>5, CoreTypes DEF Free
  <2> QED
    BY <1>1, <1>4, <1>5, <2>4, <2>14, <2>15, <2>16, LiveStep
<1>7. CASE Head(events) # "ERROR"
  <2>1. PICK state : state = Head(events)
    OBVIOUS
  <2>2. PICK x : x = [World EXCEPT !.app.state = state]
    OBVIOUS
  <2>3. PICK v : v = maybeReportPlayerState(x)
    OBVIOUS
  <2>4. Leaves(v) /\ activity' = activity
    BY <1>7, <2>1, <2>2, <2>3, Zenon DEF handleEvent
  <2>5. state \in States
    BY <1>4, <1>7, <2>1 DEF Events
  <2>6. x.app \in Apps /\ x.app.flags = World.app.flags
    BY <1>2, <2>2, <2>5 DEF Worlds, Apps
  <2>7. x.app.playWhenReady <=> World.app.playWhenReady
    BY <1>2, <2>2 DEF Worlds, Apps
  <2>8. x \in Worlds /\ x.demo = World.demo /\ x.inbox = World.inbox
    BY <1>2, <2>2, <2>6 DEF Worlds
  <2>9. /\ v \in Worlds /\ v.app = x.app /\ v.inbox = World.inbox
        /\ SameDemo(World, v) /\ Told(v)
    BY <2>3, <2>8, ReportIs DEF SameDemo
  <2>10. Good(v, core)
    <3>1. Asked(v, core) /\ Silence(v.inbox, core.flags)
      BY <1>2, <2>6, <2>7, <2>9, Zenon DEF Good, Asked
    <3> QED
      BY <2>9, <3>1 DEF Good
  <2>11. Failed(events') <=> Failed(events)
    BY <1>4, <1>7
  <2>12. Sessional(v, core, events')
    BY <1>2, <1>4, <2>9 DEF Sound, Sessional, SameDemo
  <2>13. Lively(v, core, events', activity.needsPrepare)
    BY <1>2, <2>9, <2>11, Zenon DEF Sound, Lively, Staged, SameDemo
  <2>14. Sound(v, core, events', activity'.needsPrepare)
    BY <2>4, <2>10, <2>12, <2>13, Zenon DEF Sound
  <2>15. /\ ShownAs(v, surfaces) /\ VideoAs(v, activity'.valid)
         /\ HeardAs(v, tracks, builder.multi)
    <3>1. ShownAs(v, surfaces)
      BY <1>2, <2>9, Zenon DEF ShownAs, SameDemo
    <3>2. VideoAs(v, activity'.valid)
      BY <1>3, <2>4, <2>6, <2>9, Zenon DEF VideoAs, SameDemo
    <3>3. HeardAs(v, tracks, builder.multi)
      BY <1>2, <2>6, <2>9, Zenon DEF HeardAs, SameDemo
    <3> QED
      BY <3>1, <3>2, <3>3
  <2>16. /\ activity' \in Activities /\ activity'.thread = "free"
         /\ core.codec /\ ~core.failing => activity'.valid
    BY <1>1, <1>2, <2>4, CoreTypes DEF Free
  <2> QED
    BY <1>1, <1>4, <1>5, <2>4, <2>14, <2>15, <2>16, LiveStep
<1> QED
  BY <1>6, <1>7

-----------------------------------------------------------------------------
(* The specification.                                                      *)
LEMMA InitInv ==
  ASSUME DemoAssumption, Init
  PROVE  IInv
<1>1. PICK no \in BOOLEAN : no = FALSE
  OBVIOUS
<1>2. PICK yes \in BOOLEAN : yes = TRUE
  OBVIOUS
<1>3. PICK none : none = [type \in Types |-> 0]
  OBVIOUS
<1>4. PICK told : told = [state |-> "IDLE", playWhenReady |-> no]
  OBVIOUS
<1>5. /\ builder \in Builders /\ builds = {} /\ inbox = <<>> /\ events = <<>>
      /\ activity = [thread |-> "free", resumed |-> no, needsPrepare |-> yes,
                     autoPlay |-> yes, valid |-> no]
      /\ demo = [building |-> "IDLE", prepared |-> 0, waits |-> no, surface |-> no,
                 selected |-> none, named |-> no, reported |-> told]
      /\ app = [state |-> "IDLE", playWhenReady |-> no, flags |-> Types]
      /\ core = [held |-> 0, state |-> "IDLE", playWhenReady |-> no, flags |-> Types,
                 enabled |-> {}, codec |-> no, failing |-> no, released |-> no]
      /\ surfaces = [k \in Sessions |-> no] /\ tracks = [k \in Sessions |-> 0]
  BY <1>1, <1>2, <1>3, <1>4, Zenon DEF Init
<1>6. "IDLE" \in States /\ 0 \in Tracks /\ none \in [Types -> Tracks \cup {DISABLED}]
  BY <1>3 DEF States, DemoAssumption
<1>7. told \in [state : States, playWhenReady : BOOLEAN]
  BY <1>4, <1>6
<1>8. demo \in Demos /\ app \in Apps /\ core \in Cores /\ activity \in Activities
  <2>1. demo \in Demos
    BY <1>5, <1>6, <1>7 DEF Demos
  <2>2. app \in Apps /\ core \in Cores
    BY <1>5, <1>6 DEF Apps, Cores
  <2>3. activity \in Activities
    BY <1>5 DEF Activities
  <2> QED
    BY <2>1, <2>2, <2>3
<1>9. inbox \in Seq(Message) /\ inbox = <<>> /\ events \in Seq(Events) /\ events = <<>>
  BY <1>5
<1>10. World \in Worlds
  BY <1>8, <1>9 DEF World, Worlds
<1>11. Asked(World, core)
  <2>1. DOMAIN inbox = {}
    BY <1>9
  <2>2. \A K, now : Latest(World.inbox, K, now) = now
    BY <1>9, <2>1, WorldHas, LatestNone
  <2>3. \A type \in Types : EnabledNow(type, core).flag <=> type \in World.app.flags
    <3>1. core.flags = Types /\ World.app.flags = Types
      BY <1>5, WorldHas
    <3> QED
      BY <3>1 DEF EnabledNow
  <2>4. PlayNow(core).flag <=> World.app.playWhenReady
    <3>1. core.playWhenReady = no /\ World.app.playWhenReady = no
      BY <1>5, WorldHas
    <3> QED
      BY <3>1 DEF PlayNow
  <2>5. ASSUME NEW type \in Types
        PROVE  Latest(World.inbox, Enabling(type), EnabledNow(type, core)).flag
                 <=> type \in World.app.flags
    <3>1. Latest(World.inbox, Enabling(type), EnabledNow(type, core)) = EnabledNow(type, core)
      BY <2>2, Zenon
    <3> QED
      BY <2>3, <3>1, Zenon
  <2>6. Latest(World.inbox, Playing, PlayNow(core)).flag <=> World.app.playWhenReady
    <3>1. Latest(World.inbox, Playing, PlayNow(core)) = PlayNow(core)
      BY <2>2, Zenon
    <3> QED
      BY <2>4, <3>1, Zenon
  <2> QED
    BY <2>5, <2>6, Zenon DEF Asked
<1>12. Silence(World.inbox, core.flags)
  BY <1>9, WorldHas DEF Silence
<1>13. Good(World, core)
  BY <1>10, <1>11, <1>12 DEF Good
<1>14. CoreOK(core, surfaces)
  BY <1>1, <1>5 DEF CoreOK
<1>15. HoldsNone(core) /\ ~Preparing(inbox) /\ ~Failed(events) /\ Unended(inbox)
  BY <1>5 DEF HoldsNone, Preparing, Failed, Unended
<1>16. Sessional(World, core, events)
  <2>1. Played(World.demo.prepared, inbox, core)
    BY <1>15, NothingPlayed
  <2>2. Reported(inbox, core, events)
    BY <1>15 DEF Reported, Failed
  <2> QED
    BY <2>1, <2>2, WorldHas, Zenon DEF Sessional
<1>17. Lively(World, core, events, activity.needsPrepare)
  <2>1. Told(World)
    BY <1>1, <1>4, <1>5, WorldHas DEF Told, getPlaybackState
  <2>2. demo.building = "IDLE" /\ ~demo.waits /\ activity.needsPrepare
    BY <1>1, <1>2, <1>5
  <2> QED
    BY <1>15, <2>1, <2>2, WorldHas DEF Lively, Staged
<1>18. activity.thread = "free" /\ ~core.released
  BY <1>1, <1>5
<1>19. Live /\ ~Clearing
  BY <1>18 DEF Live, Clearing
<1>20. Ended
  BY <1>18, <1>19 DEF Ended
<1>21. Dues
  <2>1. demo.building # "BUILT" /\ ~core.codec
    BY <1>1, <1>5
  <2> QED
    BY <1>19, <2>1, WorldHas, Zenon DEF Dues, ShownAs, HeardAs, VideoAs
<1>22. Types1 /\ Types2
  <2>1. surfaces \in [Sessions -> BOOLEAN] /\ tracks \in [Sessions -> Tracks]
    BY <1>5, <1>6
  <2> QED
    BY <1>5, <1>8, <1>9, <2>1 DEF Types1, Types2
<1> QED
  BY <1>13, <1>14, <1>16, <1>17, <1>20, <1>21, <1>22, Zenon DEF IInv

LEMMA CallInv ==
  ASSUME DemoAssumption, IInv, Call, UNCHANGED <<builder, playbackVars, events>>
  PROVE  IInv'
<1>1. CASE onResume
  <2>1. Free /\ preparePlayer(activity.autoPlay)
    BY <1>1, Zenon DEF onResume, MayCall
  <2>2. activity.autoPlay \in BOOLEAN
    BY DEF IInv, Types1, Activities
  <2> QED
    BY <2>1, <2>2, preparePlayerInv
<1>2. CASE Retry
  <2>1. Free /\ preparePlayer(TRUE)
    BY <1>2, Zenon DEF Retry, MayCall
  <2>2. TRUE \in BOOLEAN
    OBVIOUS
  <2> QED
    BY <2>1, <2>2, preparePlayerInv, Zenon
<1>3. CASE surfaceCreated
  BY <1>3, surfaceCreatedInv
<1>4. CASE surfaceDestroyed
  <2>1. /\ Free /\ blockingClearSurface(activity.resumed, FALSE)
        /\ UNCHANGED <<builder, playbackVars, events, builds>>
    BY <1>4, Zenon DEF surfaceDestroyed, MayCall
  <2>2. activity.resumed \in BOOLEAN
    BY DEF IInv, Types1, Activities
  <2>3. FALSE \in BOOLEAN
    OBVIOUS
  <2> QED
    BY <2>1, <2>2, <2>3, blockingClearSurfaceInv, Zenon
<1>5. CASE onPause
  <2>1. /\ Free /\ blockingClearSurface(FALSE, activity.valid)
        /\ UNCHANGED <<builder, playbackVars, events, builds>>
    BY <1>5, Zenon DEF onPause, MayCall
  <2>2. activity.valid \in BOOLEAN
    BY DEF IInv, Types1, Activities
  <2>3. FALSE \in BOOLEAN
    OBVIOUS
  <2> QED
    BY <2>1, <2>2, <2>3, blockingClearSurfaceInv, Zenon
<1>6. CASE release
  BY <1>6, releaseInv
<1>7. ASSUME NEW track \in Tracks \cup {DISABLED}, selectTrack("audio", track) PROVE IInv'
  BY <1>7, selectTrackInv DEF Types
<1>8. ASSUME NEW track \in {0, DISABLED}, selectTrack("video", track) PROVE IInv'
  <2>1. track \in Tracks \cup {DISABLED} /\ "video" \in Types
    BY DEF DemoAssumption, Types
  <2> QED
    BY <1>8, <2>1, selectTrackInv
<1>9. ASSUME NEW play \in BOOLEAN, StartOrPause(play) PROVE IInv'
  BY <1>9, StartOrPauseInv
<1>10. ASSUME NEW k \in Sessions, Answers(k) PROVE IInv'
  BY <1>10, AnswersInv
<1> QED
  BY <1>1, <1>2, <1>3, <1>4, <1>5, <1>6, <1>7, <1>8, <1>9, <1>10, Zenon DEF Call

LEMMA NextInv ==
  ASSUME DemoAssumption, IInv, [Next]_vars
  PROVE  IInv'
<1>1. ASSUME Main PROVE IInv'
  <2>1. CASE Call /\ UNCHANGED events
    <3>1. UNCHANGED <<builder, playbackVars, events>>
      BY <1>1, <2>1, Zenon DEF Main
    <3> QED
      BY <2>1, <3>1, CallInv
  <2>2. CASE ClearReturns /\ UNCHANGED events
    <3>1. UNCHANGED <<builder, playbackVars, events>>
      BY <1>1, <2>2, Zenon DEF Main
    <3> QED
      BY <2>2, <3>1, ClearReturnsInv
  <2>3. CASE ReleaseReturns
    BY <1>1, <2>3, ReleaseReturnsInv DEF Main
  <2>4. CASE handleEvent
    BY <1>1, <2>4, handleEventInv DEF Main
  <2> QED
    BY <1>1, <2>1, <2>2, <2>3, <2>4, Zenon DEF Main
<1>2. ASSUME Playback PROVE IInv'
  <2>1. UNCHANGED <<builder, mainVars>>
    BY <1>2, Zenon DEF Playback
  <2>2. CASE prepareInternal
    BY <2>1, <2>2, prepareInternalInv
  <2>3. CASE incrementalPrepareInternal
    BY <2>1, <2>3, incrementalPrepareInternalInv
  <2>4. CASE doSomeWork
    BY <2>1, <2>4, doSomeWorkInv
  <2>5. CASE setSurfaceInternal
    BY <2>1, <2>5, setSurfaceInternalInv
  <2>6. CASE selectTrackInternal
    BY <2>1, <2>6, selectTrackInternalInv
  <2>7. CASE setRendererEnabledInternal
    BY <2>1, <2>7, setRendererEnabledInternalInv
  <2>8. CASE setPlayWhenReadyInternal
    BY <2>1, <2>8, setPlayWhenReadyInternalInv
  <2>9. CASE stopInternal
    BY <2>1, <2>9, stopInternalInv
  <2>10. CASE releaseInternal
    BY <2>1, <2>10, releaseInternalInv
  <2> QED
    BY <1>2, <2>2, <2>3, <2>4, <2>5, <2>6, <2>7, <2>8, <2>9, <2>10, Zenon DEF Playback
<1>3. ASSUME UNCHANGED vars PROVE IInv'
  BY <1>3, ForgetStep DEF vars, playbackVars
<1> QED
  BY <1>1, <1>2, <1>3, Zenon DEF Next, Finished

LEMMA Invariance == Spec => []IInv
<1>1. Init => IInv
  BY DemoAssumption, InitInv
<1>2. IInv /\ [Next]_vars => IInv'
  BY DemoAssumption, NextInv
<1> QED
  BY <1>1, <1>2, PTL DEF Spec

-----------------------------------------------------------------------------
(* What the invariant says of what is due.                                 *)
LastIs(q, K, now, last) ==
  /\ Latest(q, K, now) = IF last = 0 THEN now ELSE q[last]
  /\ last # 0 => last \in DOMAIN q /\ q[last] \in K

LEMMA LatestLast ==
  ASSUME NEW q \in Seq(Message), NEW K, NEW now,
         NEW I, I = {i \in 1..Len(q) : q[i] \in K},
         NEW last, last = IF I # {} THEN Max(I) ELSE 0
  PROVE  LastIs(q, K, now, last)
<1>1. DOMAIN q = 1..Len(q) /\ Len(q) \in Nat
  OBVIOUS
<1>2. Latest(q, K, now) = IF I = {} THEN now ELSE q[Max(I)]
  BY <1>1, Zenon DEF Latest
<1>3. CASE I = {}
  BY <1>2, <1>3 DEF LastIs
<1>4. CASE I # {}
  <2>1. Max(I) \in I
    BY <1>1, <1>4, LargestPosition
  <2>2. last = Max(I) /\ last # 0
    BY <1>4, <2>1
  <2> QED
    BY <1>1, <1>2, <1>4, <2>1, <2>2 DEF LastIs
<1> QED
  BY <1>3, <1>4

LEMMA SurfaceDueIs ==
  ASSUME IInv, NEW k \in Sessions
  PROVE  /\ SurfaceDue(k) = Latest(inbox, Surfacing(k), SurfaceNow(k, surfaces)).surface
         /\ SurfaceDue(k) \in BOOLEAN
<1>1. inbox \in Seq(Message) /\ surfaces[k] \in BOOLEAN
  BY InvWorld, CoreTypes
<1>2. PICK I : I = {i \in 1..Len(inbox) : inbox[i].what = "SURFACE" /\ inbox[i].session = k}
  OBVIOUS
<1>3. PICK last : last = IF I # {} THEN Max(I) ELSE 0
  OBVIOUS
<1>4. SurfaceDue(k) = IF last = 0 THEN surfaces[k] ELSE inbox[last].surface
  BY <1>2, <1>3, Zenon DEF SurfaceDue, SelectLastInSeq
<1>5. I = {i \in 1..Len(inbox) : inbox[i] \in Surfacing(k)}
  <2>1. \A i \in 1..Len(inbox) :
          inbox[i] \in Surfacing(k) <=> inbox[i].what = "SURFACE" /\ inbox[i].session = k
    <3>1. \A i \in 1..Len(inbox) : inbox[i] \in Message
      BY <1>1
    <3> QED
      BY <3>1, KindsAre
  <2> QED
    BY <1>2, <2>1
<1>6. /\ Latest(inbox, Surfacing(k), SurfaceNow(k, surfaces))
           = IF last = 0 THEN SurfaceNow(k, surfaces) ELSE inbox[last]
      /\ last # 0 => last \in DOMAIN inbox /\ inbox[last] \in Surfacing(k)
  <2>1. LastIs(inbox, Surfacing(k), SurfaceNow(k, surfaces), last)
    BY <1>1, <1>3, <1>5, LatestLast
  <2> QED
    BY <2>1, Zenon DEF LastIs
<1>7. SurfaceNow(k, surfaces).surface = surfaces[k]
  BY DEF SurfaceNow
<1>8. last # 0 => inbox[last].surface \in BOOLEAN
  BY <1>6 DEF Surfacing
<1> QED
  BY <1>1, <1>4, <1>6, <1>7, <1>8

LEMMA TrackDueIs ==
  ASSUME IInv, NEW k \in Sessions
  PROVE  TrackDue(k) = Latest(inbox, Selecting(k), TrackNow(k, tracks)).track
<1>1. inbox \in Seq(Message)
  BY InvWorld
<1>2. PICK I : I = {i \in 1..Len(inbox) : inbox[i].what = "SELECT" /\ inbox[i].session = k}
  OBVIOUS
<1>3. PICK last : last = IF I # {} THEN Max(I) ELSE 0
  OBVIOUS
<1>4. TrackDue(k) = IF last = 0 THEN tracks[k] ELSE inbox[last].track
  BY <1>2, <1>3, Zenon DEF TrackDue, SelectLastInSeq
<1>5. I = {i \in 1..Len(inbox) : inbox[i] \in Selecting(k)}
  <2>1. \A i \in 1..Len(inbox) :
          inbox[i] \in Selecting(k) <=> inbox[i].what = "SELECT" /\ inbox[i].session = k
    <3>1. \A i \in 1..Len(inbox) : inbox[i] \in Message
      BY <1>1
    <3> QED
      BY <3>1, KindsAre
  <2> QED
    BY <1>2, <2>1
<1>6. Latest(inbox, Selecting(k), TrackNow(k, tracks))
        = IF last = 0 THEN TrackNow(k, tracks) ELSE inbox[last]
  <2>1. LastIs(inbox, Selecting(k), TrackNow(k, tracks), last)
    BY <1>1, <1>3, <1>5, LatestLast
  <2> QED
    BY <2>1, Zenon DEF LastIs
<1>7. TrackNow(k, tracks).track = tracks[k]
  BY DEF TrackNow
<1> QED
  BY <1>4, <1>6, <1>7

LEMMA EnabledDueIs ==
  ASSUME IInv, NEW type \in Types
  PROVE  EnabledDue(type) = (type \in app.flags)
<1>1. inbox \in Seq(Message)
      /\ (Latest(inbox, Enabling(type), EnabledNow(type, core)).flag <=> type \in app.flags)
  BY InvWorld, WorldHas DEF Good, Asked
<1>2. PICK I : I = {i \in 1..Len(inbox) : inbox[i].what = "ENABLE" /\ inbox[i].type = type}
  OBVIOUS
<1>3. PICK last : last = IF I # {} THEN Max(I) ELSE 0
  OBVIOUS
<1>4. EnabledDue(type) = IF last = 0 THEN type \in core.flags ELSE inbox[last].flag
  BY <1>2, <1>3, Zenon DEF EnabledDue, SelectLastInSeq
<1>5. I = {i \in 1..Len(inbox) : inbox[i] \in Enabling(type)}
  <2>1. \A i \in 1..Len(inbox) :
          inbox[i] \in Enabling(type) <=> inbox[i].what = "ENABLE" /\ inbox[i].type = type
    <3>1. \A i \in 1..Len(inbox) : inbox[i] \in Message
      BY <1>1
    <3> QED
      BY <3>1, KindsAre
  <2> QED
    BY <1>2, <2>1
<1>6. /\ Latest(inbox, Enabling(type), EnabledNow(type, core))
           = IF last = 0 THEN EnabledNow(type, core) ELSE inbox[last]
      /\ last # 0 => last \in DOMAIN inbox /\ inbox[last] \in Enabling(type)
  <2>1. LastIs(inbox, Enabling(type), EnabledNow(type, core), last)
    BY <1>1, <1>3, <1>5, LatestLast
  <2> QED
    BY <2>1, Zenon DEF LastIs
<1>7. EnabledNow(type, core).flag <=> type \in core.flags
  BY DEF EnabledNow
<1>8. CASE last = 0
  BY <1>1, <1>4, <1>6, <1>7, <1>8
<1>9. CASE last # 0
  <2>1. inbox[last].flag \in BOOLEAN
    BY <1>6, <1>9 DEF Enabling
  <2>2. EnabledDue(type) = inbox[last].flag
    BY <1>4, <1>9
  <2>3. inbox[last].flag <=> type \in app.flags
    BY <1>1, <1>6, <1>9
  <2>4. inbox[last].flag = (type \in app.flags)
    BY <2>1, <2>3
  <2> QED
    BY <2>2, <2>4, Zenon
<1> QED
  BY <1>8, <1>9

LEMMA PlayDueIs ==
  ASSUME IInv
  PROVE  PlayDue = app.playWhenReady
<1>1. /\ inbox \in Seq(Message) /\ app.playWhenReady \in BOOLEAN /\ core.playWhenReady \in BOOLEAN
      /\ Latest(inbox, Playing, PlayNow(core)).flag <=> app.playWhenReady
  BY InvWorld, CoreTypes, WorldHas DEF Good, Asked, Apps, Cores
<1>2. PICK I : I = {i \in 1..Len(inbox) : inbox[i].what = "PLAY"}
  OBVIOUS
<1>3. PICK last : last = IF I # {} THEN Max(I) ELSE 0
  OBVIOUS
<1>4. PlayDue = IF last = 0 THEN core.playWhenReady ELSE inbox[last].flag
  BY <1>2, <1>3, Zenon DEF PlayDue, SelectLastInSeq
<1>5. I = {i \in 1..Len(inbox) : inbox[i] \in Playing}
  <2>1. \A i \in 1..Len(inbox) :
          inbox[i] \in Playing <=> inbox[i].what = "PLAY"
    <3>1. \A i \in 1..Len(inbox) : inbox[i] \in Message
      BY <1>1
    <3> QED
      BY <3>1, KindsAre
  <2> QED
    BY <1>2, <2>1
<1>6. /\ Latest(inbox, Playing, PlayNow(core)) = IF last = 0 THEN PlayNow(core) ELSE inbox[last]
      /\ last # 0 => last \in DOMAIN inbox /\ inbox[last] \in Playing
  <2>1. LastIs(inbox, Playing, PlayNow(core), last)
    BY <1>1, <1>3, <1>5, LatestLast
  <2> QED
    BY <2>1, Zenon DEF LastIs
<1>7. PlayNow(core).flag <=> core.playWhenReady
  BY DEF PlayNow
<1>8. CASE last = 0
  <2>1. PlayDue = core.playWhenReady
    BY <1>4, <1>8
  <2>2. core.playWhenReady <=> app.playWhenReady
    BY <1>1, <1>6, <1>7, <1>8
  <2>3. core.playWhenReady = app.playWhenReady
    BY <1>1, <2>2
  <2> QED
    BY <2>1, <2>3, Zenon
<1>9. CASE last # 0
  <2>1. inbox[last].flag \in BOOLEAN
    BY <1>6, <1>9 DEF Playing
  <2>2. PlayDue = inbox[last].flag
    BY <1>4, <1>9
  <2>3. inbox[last].flag <=> app.playWhenReady
    BY <1>1, <1>6, <1>9
  <2>4. inbox[last].flag = app.playWhenReady
    BY <1>1, <2>1, <2>3
  <2> QED
    BY <2>2, <2>4, Zenon
<1> QED
  BY <1>8, <1>9
-----------------------------------------------------------------------------
(* The theorems.                                                           *)
LEMMA InvTyped ==
  ASSUME IInv
  PROVE  TypeOK
<1>1. demo \in Demos /\ app \in Apps /\ inbox \in Seq(Message)
  BY InvWorld
<1>2. /\ demo.building \in {"IDLE", "BUILDING", "BUILT"}
      /\ demo.prepared \in Sessions \cup {0}
      /\ demo.reported \in [state : States, playWhenReady : BOOLEAN]
  BY <1>1 DEF Demos
<1> QED
  BY <1>1, <1>2 DEF IInv, Types1, Types2, Activities, Apps, Cores, Events, TypeOK

\* The state of every part has its type: what is posted and told are messages and
\* states, preparations are numbered up to the bound, whatever the order of calls.
THEOREM DemoTyped == Spec => []TypeOK
<1>1. IInv => TypeOK
  BY InvTyped
<1> QED
  BY <1>1, Invariance, PTL

LEMMA InvSurface ==
  ASSUME IInv
  PROVE  SurfaceFollows
<1>1. core.codec /\ ~core.failing => activity.valid
  BY CoreTypes
<1>2. ASSUME Free, demo.building = "BUILT"
      PROVE  /\ SurfaceDue(demo.prepared) = demo.surface
             /\ EnabledDue("video") =
                  (demo.surface /\ activity.valid /\ demo.selected["video"] # DISABLED)
  <2>1. demo.prepared \in Sessions /\ "video" \in Types /\ demo.surface \in BOOLEAN
    BY <1>2, InvWorld, WorldHas DEF Named, Types, Demos
  <2>2. Latest(inbox, Surfacing(demo.prepared), SurfaceNow(demo.prepared, surfaces)).surface
          <=> demo.surface
    BY <1>2, WorldHas, Zenon DEF IInv, Dues, ShownAs
  <2>3. SurfaceDue(demo.prepared) \in BOOLEAN /\ (SurfaceDue(demo.prepared) <=> demo.surface)
    BY <2>1, <2>2, SurfaceDueIs
  <2>4. SurfaceDue(demo.prepared) = demo.surface
    BY <2>1, <2>3
  <2>5. "video" \in app.flags <=>
          demo.surface /\ activity.valid /\ demo.selected["video"] # DISABLED
    BY <1>2, WorldHas, Zenon DEF IInv, Dues, VideoAs
  <2>6. EnabledDue("video") = ("video" \in app.flags)
    BY <2>1, EnabledDueIs
  <2>7. ("video" \in app.flags) =
          (demo.surface /\ activity.valid /\ demo.selected["video"] # DISABLED)
    BY <2>5
  <2> QED
    BY <2>4, <2>6, <2>7, Zenon
<1> QED
  BY <1>1, <1>2, Zenon DEF SurfaceFollows

\* Surfaces come and go on the main thread while decoders are set up on the other:
\* no decoder outlives its surface, and when all messages are served the renderers
\* that are built have the surface and the video the activity wants.
THEOREM SurfaceGoesWithActivity == Spec => []SurfaceFollows
<1>1. IInv => SurfaceFollows
  BY InvSurface
<1> QED
  BY <1>1, Invariance, PTL

LEMMA InvTracks ==
  ASSUME IInv
  PROVE  TracksFollow
<1>1. ASSUME inbox # <<>>, received.what = "SELECT" PROVE ~SelectsEnabled
  BY <1>1, SilentSelect, CoreTypes DEF SelectsEnabled, CoreOK
<1>2. activity.thread # "released" => PlayDue = app.playWhenReady
  BY PlayDueIs
<1>3. ASSUME Free, demo.building = "BUILT"
      PROVE  /\ EnabledDue("audio") = (demo.selected["audio"] # DISABLED)
             /\ builder.multi /\ demo.selected["audio"] # DISABLED =>
                  TrackDue(demo.prepared) = demo.selected["audio"]
  <2>1. demo.prepared \in Sessions /\ "audio" \in Types
    BY <1>3, InvWorld, WorldHas DEF Named, Types
  <2>2. /\ "audio" \in app.flags <=> demo.selected["audio"] # DISABLED
        /\ builder.multi /\ demo.selected["audio"] # DISABLED =>
             Latest(inbox, Selecting(demo.prepared), TrackNow(demo.prepared, tracks)).track
               = demo.selected["audio"]
    BY <1>3, WorldHas, Zenon DEF IInv, Dues, HeardAs
  <2>3. EnabledDue("audio") = ("audio" \in app.flags)
    BY <2>1, EnabledDueIs
  <2>4. ("audio" \in app.flags) = (demo.selected["audio"] # DISABLED)
    BY <2>2
  <2>5. TrackDue(demo.prepared)
          = Latest(inbox, Selecting(demo.prepared), TrackNow(demo.prepared, tracks)).track
    BY <2>1, TrackDueIs
  <2> QED
    BY <2>2, <2>3, <2>4, <2>5, Zenon
<1> QED
  BY <1>1, <1>2, <1>3, Zenon DEF TracksFollow

\* A track is selected between a disabling and an enabling that are three messages:
\* whatever is posted around them and whatever fails, the source is never enabled
\* when its selection is received, the track selected last is the one heard, and the
\* player plays when it is asked to.
THEOREM TracksAreSelectedDisabled == Spec => []TracksFollow
<1>1. IInv => TracksFollow
  BY InvTracks
<1> QED
  BY <1>1, Invariance, PTL

LEMMA InvSessions ==
  ASSUME IInv
  PROVE  SessionsFollow
<1>1. LastBuildIsPlayed
  <2>1. Played(demo.prepared, inbox, core)
    BY InvWorld DEF Session
  <2>2. core.released => core.held = 0 /\ inbox = <<>>
    BY DEF IInv, Ended
  <2> QED
    BY <2>1, <2>2 DEF Played, HoldsNone, LastBuildIsPlayed
<1>2. ASSUME Free
      PROVE  /\ demo.reported = [state |-> getPlaybackState(World),
                                 playWhenReady |-> app.playWhenReady]
             /\ core.held = 0 /\ inbox = <<>> /\ events = <<>> /\ ~demo.waits =>
                  activity.needsPrepare
             /\ demo.building = "BUILT" => ~activity.needsPrepare
  <2>1. Lively(World, core, events, activity.needsPrepare)
    BY <1>2 DEF IInv, Free, Live
  <2>2. demo.reported = [state |-> getPlaybackState(World),
                         playWhenReady |-> app.playWhenReady]
    <3>1. demo \in Demos /\ app \in Apps
      BY InvWorld
    <3>2. demo.reported \in [state : States, playWhenReady : BOOLEAN]
          /\ app.playWhenReady \in BOOLEAN
      BY <3>1 DEF Demos, Apps
    <3>3. /\ demo.reported.state = getPlaybackState(World)
          /\ demo.reported.playWhenReady <=> app.playWhenReady
      BY <2>1, WorldHas, Zenon DEF Lively, Told
    <3>4. demo.reported.playWhenReady = app.playWhenReady
      BY <3>2, <3>3
    <3>5. demo.reported = [state |-> demo.reported.state,
                           playWhenReady |-> demo.reported.playWhenReady]
      BY <3>2
    <3> QED
      BY <3>3, <3>4, <3>5, Zenon
  <2>3. ASSUME core.held = 0, inbox = <<>>, events = <<>>, ~demo.waits, ~activity.needsPrepare
        PROVE  FALSE
    <3>1. demo.building = "BUILT" /\ demo.prepared # 0
      BY <2>1, <2>3, InvWorld, WorldHas DEF Lively, Demos
    <3>2. Preparing(inbox) \/ core.held = demo.prepared \/ Failed(events)
      BY <2>1, <3>1, WorldHas DEF Lively, Staged
    <3>3. ~Preparing(inbox) /\ ~Failed(events)
      BY <2>3 DEF Preparing, Failed
    <3> QED
      BY <2>3, <3>1, <3>2, <3>3
  <2>4. demo.building = "BUILT" => ~activity.needsPrepare
    BY <2>1, WorldHas DEF Lively
  <2> QED
    BY <2>2, <2>3, <2>4, Zenon
<1>3. ActivityIsTold
  BY <1>2, Zenon DEF ActivityIsTold
<1> QED
  BY <1>1, <1>3 DEF SessionsFollow

\* Preparations, late answers of builders, errors on their way, retries and the
\* release in any order: one set of renderers at a time, that of the last
\* preparation, and an activity that was told and may always try again.
THEOREM LastPreparationPlays == Spec => []SessionsFollow
<1>1. IInv => SessionsFollow
  BY InvSessions
<1> QED
  BY <1>1, Invariance, PTL
=============================================================================
