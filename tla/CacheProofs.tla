----------------------------- MODULE CacheProofs -----------------------------
(* Who writes holds the hole, no block of a stream is in two spans, every     *)
(* file is known, and the space the spans take is counted and never more than *)
(* may be kept: for all streams, requests and readers.                        *)
EXTENDS CacheDataSource, FoldProofs, TLAPS

Part == [key : Keys \cup {Min(Keys)}, position : Nat,
         time : Times \cup {Min(Times)}, length : Nat]

IsCache(c) ==
  c \in [files : SUBSET Part, dirExists : BOOLEAN,
         cachedSpans : SUBSET Part, totalSpace : {c.totalSpace},
         leastRecentlyUsed : SUBSET Part, currentSize : {c.currentSize}]

Spans(c) == c.files \cup c.cachedSpans
Apart(s, t) == s.key = t.key => End(s) <= t.position \/ End(t) <= s.position

Sound(c) ==
  /\ IsCache(c)
  /\ c.leastRecentlyUsed = c.cachedSpans
  /\ \A s \in c.cachedSpans : s.length > 0
  /\ \A s, t \in Spans(c) : IsNamed(s, t) => s = t
  /\ \A s, t \in Spans(c) : s # t => Apart(s, t)

\* The least of some numbers is one of them.
LEMMA LeastNumber ==
  ASSUME NEW S \in SUBSET Nat, S # {}
  PROVE  Min(S) \in S /\ \A n \in S : Min(S) <= n
BY SmallestNumber DEF Min

\* The fields of a cache that forgot some spans.
LEMMA ForgottenFields ==
  ASSUME NEW c, IsCache(c), NEW S
  PROVE  LET d == Forgotten(c, S)
         IN  /\ IsCache(d)
             /\ d.files = c.files
             /\ d.cachedSpans = {t \in c.cachedSpans : \A s \in S : ~SamePlace(s, t)}
             /\ d.leastRecentlyUsed = c.leastRecentlyUsed \ S
<1> DEFINE d == Forgotten(c, S)
<1>1. d.files = c.files
  BY DEF Forgotten, IsCache
<1>2. d.cachedSpans = {t \in c.cachedSpans : \A s \in S : ~SamePlace(s, t)}
  BY DEF Forgotten, IsCache
<1>3. d.leastRecentlyUsed = c.leastRecentlyUsed \ S
  BY DEF Forgotten, IsCache
<1>4. d.totalSpace = c.totalSpace - SizeOf(S) /\ d.currentSize = c.currentSize - SizeOf(S)
  BY DEF Forgotten, IsCache
<1>5. d \in [files : SUBSET Part, dirExists : BOOLEAN,
         cachedSpans : SUBSET Part, totalSpace : {c.totalSpace - SizeOf(S)},
         leastRecentlyUsed : SUBSET Part, currentSize : {c.currentSize - SizeOf(S)}]
  BY DEF Forgotten, IsCache
<1> QED
  BY <1>1, <1>2, <1>3, <1>4, <1>5 DEF IsCache

\* What a cache becomes that only lets go of spans, and of files with them.
Shrinks(c, d) ==
  /\ IsCache(d)
  /\ d.leastRecentlyUsed = d.cachedSpans
  /\ d.cachedSpans \subseteq c.cachedSpans
  /\ d.files \subseteq c.files
  /\ \A f \in d.files : f \in c.cachedSpans => f \in d.cachedSpans

LEMMA OnePlace ==
  ASSUME NEW c, Sound(c), NEW s \in c.cachedSpans, NEW t \in Spans(c),
         SamePlace(s, t), t.length > 0
  PROVE  s = t
<1> USE DEF Part
<1>1. s \in Part /\ t \in Part
  BY DEF Sound, IsCache, Spans
<1>2. s \in Spans(c) /\ s.length > 0
  BY DEF Sound, Spans
<1>3. s # t => Apart(s, t)
  BY <1>2 DEF Sound
<1> QED
  BY <1>1, <1>2, <1>3 DEF Apart, SamePlace, End

LEMMA ShrinksIsSound ==
  ASSUME NEW c, NEW d, Sound(c), Shrinks(c, d)
  PROVE  Sound(d)
<1>1. Spans(d) \subseteq Spans(c)
  BY DEF Shrinks, Spans
<1> QED
  BY <1>1 DEF Sound, Shrinks

LEMMA ShrinksTwice ==
  ASSUME NEW c, NEW d, NEW e, Shrinks(c, d), Shrinks(d, e)
  PROVE  Shrinks(c, e)
BY DEF Shrinks

LEMMA ShrinksToItself ==
  ASSUME NEW c, Sound(c)
  PROVE  Shrinks(c, c)
BY DEF Shrinks, Sound

\* Some of the spans are forgotten, and just those.
LEMMA ForgottenSpans ==
  ASSUME NEW c, Sound(c), NEW S \in SUBSET c.cachedSpans
  PROVE  LET d == Forgotten(c, S)
         IN  /\ IsCache(d)
             /\ d.files = c.files
             /\ d.cachedSpans = c.cachedSpans \ S
             /\ d.leastRecentlyUsed = d.cachedSpans
<1> DEFINE d == Forgotten(c, S)
<1>1. /\ IsCache(d) /\ d.files = c.files
      /\ d.cachedSpans = {t \in c.cachedSpans : \A s \in S : ~SamePlace(s, t)}
      /\ d.leastRecentlyUsed = c.leastRecentlyUsed \ S
  BY ForgottenFields DEF Sound
<1>2. \A s \in S, t \in c.cachedSpans : SamePlace(s, t) <=> s = t
  BY OnePlace DEF Sound, Spans, SamePlace
<1>3. d.cachedSpans = c.cachedSpans \ S
  BY <1>1, <1>2
<1> QED
  BY <1>1, <1>3 DEF Sound

LEMMA StaleGo ==
  ASSUME NEW c, Sound(c)
  PROVE  Shrinks(c, removeStaleSpans(c))
<1> DEFINE stale == {s \in c.cachedSpans : ~Exists(c, s)}
           d == Forgotten(c, stale)
<1>1. /\ IsCache(d) /\ d.files = c.files
      /\ d.cachedSpans = c.cachedSpans \ stale
      /\ d.leastRecentlyUsed = d.cachedSpans
  BY ForgottenSpans
<1>2. \A f \in c.files : f \notin stale
  BY DEF Exists, IsNamed
<1>3. Shrinks(c, d)
  BY <1>1, <1>2 DEF Shrinks
<1> QED
  BY <1>3, ShrinksToItself DEF removeStaleSpans

LEMMA OldestGo ==
  ASSUME NEW c, Sound(c), NEW n
  PROVE  /\ Shrinks(c, evictCache(c, n))
         /\ c.files \ c.cachedSpans \subseteq evictCache(c, n).files
<1> DEFINE gone == Evicted(c, n)
           kept == {f \in c.files : \A s \in gone : ~IsNamed(f, s)}
           d == Forgotten(c, gone)
           e == [d EXCEPT !.files = kept]
<1>1. gone \in SUBSET c.cachedSpans
  BY DEF Evicted, Sound
<1> HIDE DEF gone
<1>2. /\ IsCache(d) /\ d.files = c.files
      /\ d.cachedSpans = c.cachedSpans \ gone
      /\ d.leastRecentlyUsed = d.cachedSpans
  BY <1>1, ForgottenSpans
<1> HIDE DEF d
<1>3. \A f \in kept : f \notin gone
  BY DEF IsNamed
<1>4. kept \in SUBSET Part
  BY DEF Sound, IsCache
<1>5. /\ IsCache(e) /\ e.files = kept
      /\ e.cachedSpans = c.cachedSpans \ gone
      /\ e.leastRecentlyUsed = e.cachedSpans
  BY <1>2, <1>4 DEF IsCache
<1>6. Shrinks(c, e)
  BY <1>3, <1>5 DEF Shrinks
<1>7. evictCache(c, n) = IF c.currentSize + n <= MaxBytes THEN c ELSE e
  BY DEF evictCache, d, gone
<1>8. c.files \ c.cachedSpans \subseteq kept
  <2> SUFFICES ASSUME NEW f \in c.files \ c.cachedSpans, NEW s \in gone, IsNamed(f, s)
               PROVE  FALSE
    OBVIOUS
  <2>1. f = s
    BY <1>1 DEF Sound, Spans
  <2> QED
    BY <1>1, <2>1
<1> QED
  BY <1>5, <1>6, <1>7, <1>8, ShrinksToItself

\* What a cache becomes in a step: each span it has it had before, by another
\* name perhaps, and so with each file that is not one of a span; but for those
\* of a key.
SameExtent(s, t) == s.key = t.key /\ s.position = t.position /\ s.length = t.length
Follows(c, d, K) ==
  /\ Sound(d)
  /\ \A t \in d.cachedSpans :
       t.key \in K \/ \E s \in c.cachedSpans : SameExtent(s, t)
  /\ \A f \in d.files :
       f.key \in K \/ f \in d.cachedSpans \/ f \in c.files \ c.cachedSpans

LEMMA ShrinksFollows ==
  ASSUME NEW c, NEW d, NEW K, Sound(c), Shrinks(c, d)
  PROVE  Follows(c, d, K)
<1>1. Sound(d)
  BY ShrinksIsSound
<1> QED
  BY <1>1 DEF Follows, Shrinks, SameExtent

LEMMA FollowsShrinks ==
  ASSUME NEW c, NEW d, NEW e, NEW K, Follows(c, d, K), Shrinks(d, e)
  PROVE  Follows(c, e, K)
<1>1. Sound(e)
  BY ShrinksIsSound DEF Follows
<1> QED
  BY <1>1 DEF Follows, Shrinks

LEMMA ShrinksThenFollows ==
  ASSUME NEW c, NEW d, NEW e, NEW K, Shrinks(c, d), Follows(d, e, K)
  PROVE  Follows(c, e, K)
<1>1. \A t \in e.cachedSpans :
        t.key \in K \/ \E s \in c.cachedSpans : SameExtent(s, t)
  BY DEF Follows, Shrinks
<1>2. \A f \in e.files :
        f.key \in K \/ f \in e.cachedSpans \/ f \in c.files \ c.cachedSpans
  BY DEF Follows, Shrinks
<1> QED
  BY <1>1, <1>2 DEF Follows

LEMMA LookedShrinks ==
  ASSUME NEW c, Sound(c), NEW key, NEW position
  PROVE  Shrinks(c, Looked(c, key, position))
BY StaleGo, ShrinksToItself DEF Looked

LEMMA StartShrinks ==
  ASSUME NEW c, Sound(c), NEW n
  PROVE  Shrinks(c, startFile(c, n))
<1> DEFINE d == IF c.dirExists THEN c ELSE removeStaleSpans(c)
           e == [d EXCEPT !.dirExists = TRUE]
<1>1. Shrinks(c, d)
  BY StaleGo, ShrinksToItself
<1> HIDE DEF d
<1>2. IsCache(e) /\ e.files = d.files /\ e.cachedSpans = d.cachedSpans
      /\ e.leastRecentlyUsed = d.leastRecentlyUsed
  BY <1>1 DEF Shrinks, IsCache
<1> HIDE DEF e
<1>3. Shrinks(c, e)
  BY <1>1, <1>2 DEF Shrinks
<1>4. Sound(e)
  BY <1>3, ShrinksIsSound
<1>5. Shrinks(e, evictCache(e, n))
  BY <1>4, OldestGo
<1>6. startFile(c, n) = evictCache(e, n)
  BY DEF startFile, e, d
<1> QED
  BY <1>3, <1>5, <1>6, ShrinksTwice

\* A file that becomes a span.
LEMMA AddedFollows ==
  ASSUME NEW c, Sound(c), NEW f \in c.files, f.length > 0
  PROVE  LET d == addSpan(c, f)
         IN  /\ Follows(c, d, {f.key})
             /\ d.files \subseteq c.files
             /\ d.cachedSpans \subseteq c.cachedSpans \cup {f}
             /\ \A g \in d.files : g \in c.cachedSpans \cup {f} => g \in d.cachedSpans
             /\ \A g \in c.files : g \notin c.cachedSpans \cup {f} => g \in d.files
<1> DEFINE C == IF \E t \in c.cachedSpans : SamePlace(f, t)
                THEN c.cachedSpans ELSE c.cachedSpans \cup {f}
           L == c.leastRecentlyUsed \cup {f}
           m == c.totalSpace + f.length
           n == c.currentSize + f.length
           e == [c EXCEPT !.cachedSpans = C, !.totalSpace = m,
                          !.leastRecentlyUsed = L, !.currentSize = n]
           d == evictCache(e, 0)
<1>1. C = c.cachedSpans \cup {f}
  <2>1. \A t \in c.cachedSpans : SamePlace(f, t) => t = f
    BY OnePlace DEF Spans, SamePlace
  <2> QED
    BY <2>1
<1>2. L = C
  BY <1>1 DEF Sound
<1>3. C \in SUBSET Part
  BY <1>1 DEF Sound, IsCache
<1> HIDE DEF C, L, m, n
<1>4. IsCache(e) /\ e.files = c.files /\ e.cachedSpans = C /\ e.leastRecentlyUsed = C
  BY <1>2, <1>3 DEF Sound, IsCache
<1> HIDE DEF e
<1>5. Spans(e) = Spans(c)
  BY <1>1, <1>4 DEF Spans
<1>6. Sound(e)
  BY <1>1, <1>4, <1>5 DEF Sound
<1>7. Follows(c, e, {f.key})
  BY <1>1, <1>4, <1>6 DEF Follows, SameExtent
<1>8. Shrinks(e, d) /\ e.files \ e.cachedSpans \subseteq d.files
  BY <1>6, OldestGo
<1> HIDE DEF d
<1>9. /\ Follows(c, d, {f.key})
      /\ d.files \subseteq c.files
      /\ d.cachedSpans \subseteq c.cachedSpans \cup {f}
      /\ \A g \in d.files : g \in c.cachedSpans \cup {f} => g \in d.cachedSpans
      /\ \A g \in c.files : g \notin c.cachedSpans \cup {f} => g \in d.files
  BY <1>1, <1>4, <1>7, <1>8, FollowsShrinks DEF Shrinks
<1>10. addSpan(c, f) = d
  BY DEF addSpan, d, e, C, L, m, n, SamePlace
<1> QED
  BY <1>9, <1>10

\* The file of a name.
LEMMA TheFile ==
  ASSUME NEW c, Sound(c), NEW s, Exists(c, s)
  PROVE  /\ FileOf(c, s) \in c.files
         /\ IsNamed(FileOf(c, s), s)
         /\ \A f \in c.files : IsNamed(f, s) => f = FileOf(c, s)
<1>1. FileOf(c, s) \in c.files /\ IsNamed(FileOf(c, s), s)
  BY DEF Exists, FileOf
<1>2. \A f \in c.files : IsNamed(f, s) => IsNamed(f, FileOf(c, s))
  BY <1>1 DEF IsNamed
<1> QED
  BY <1>1, <1>2 DEF Sound, Spans

LEMMA DeletedShrinks ==
  ASSUME NEW c, Sound(c), NEW s
  PROVE  /\ Shrinks(c, Deleted(c, s))
         /\ Deleted(c, s).files = {f \in c.files : ~IsNamed(f, s)}
         /\ Deleted(c, s).cachedSpans = c.cachedSpans
<1>1. {f \in c.files : ~IsNamed(f, s)} \in SUBSET Part
  BY DEF Sound, IsCache
<1>2. /\ IsCache(Deleted(c, s))
      /\ Deleted(c, s).files = {f \in c.files : ~IsNamed(f, s)}
      /\ Deleted(c, s).cachedSpans = c.cachedSpans
      /\ Deleted(c, s).leastRecentlyUsed = c.leastRecentlyUsed
  BY <1>1 DEF Sound, IsCache, Deleted
<1> QED
  BY <1>2 DEF Shrinks, Sound

\* A span that is found stays where it is.
LEMMA TouchFollows ==
  ASSUME NEW c, Sound(c), NEW s \in c.cachedSpans, Exists(c, s), NEW now \in Times
  PROVE  /\ Follows(c, touch(c, s, now), {})
         /\ Touched(c, s, now) \in Part
<1> DEFINE new == Touched(c, s, now)
           F == {f \in c.files : ~IsNamed(f, s) /\ ~IsNamed(f, new)} \cup {new}
           C == (c.cachedSpans \ {s}) \cup {new}
           L == (c.leastRecentlyUsed \ {s}) \cup {new}
           n == c.currentSize - s.length + new.length
           e == [c EXCEPT !.files = F, !.cachedSpans = C, !.leastRecentlyUsed = L,
                          !.currentSize = n]
<1>1. FileOf(c, s) = s
  BY TheFile DEF Sound, Spans, IsNamed
<1>2. s \in Part /\ s \in Spans(c) /\ s.length > 0
  BY DEF Sound, IsCache, Spans
<1>3. /\ new \in Part
      /\ new.key = s.key /\ new.position = s.position /\ new.length = s.length
  BY <1>1, <1>2 DEF Touched, Part
<1> HIDE DEF new
<1>4. L = C
  BY DEF Sound
<1>5. F \in SUBSET Part /\ C \in SUBSET Part
  BY <1>3 DEF Sound, IsCache
<1>6. F \cup C \subseteq (Spans(c) \ {s}) \cup {new}
  <2>1. IsNamed(s, s)
    BY DEF IsNamed
  <2> QED
    BY <2>1 DEF Spans
<1>7. \A t \in C : t.length > 0
  BY <1>2, <1>3 DEF Sound
<1>8. \A t \in F \cup C : t # new => ~IsNamed(t, new)
  <2> SUFFICES ASSUME NEW t \in C, t # new, IsNamed(t, new)
               PROVE  FALSE
    OBVIOUS
  <2>1. t \in c.cachedSpans /\ t # s
    OBVIOUS
  <2>2. SamePlace(s, t) /\ t \in Spans(c) /\ t.length > 0
    BY <1>3, <1>7, <2>1 DEF SamePlace, IsNamed, Spans
  <2> QED
    BY <2>1, <2>2, OnePlace
<1>9. \A t \in F \cup C : t # new => Apart(new, t) /\ Apart(t, new)
  <2> SUFFICES ASSUME NEW t \in F \cup C, t # new
               PROVE  Apart(new, t) /\ Apart(t, new)
    OBVIOUS
  <2>1. t \in Spans(c) /\ t # s
    BY <1>6
  <2>2. Apart(s, t) /\ Apart(t, s)
    BY <1>2, <2>1 DEF Sound
  <2> QED
    BY <2>2, <1>3 DEF Apart, End
<1>10. \A t, u \in F \cup C : t # u => Apart(t, u)
  BY <1>6, <1>9 DEF Sound
<1>11. \A t, u \in F \cup C : IsNamed(t, u) => t = u
  <2>1. \A t, u \in F \cup C : IsNamed(t, u) => IsNamed(u, t)
    BY DEF IsNamed
  <2> QED
    BY <1>6, <1>8, <2>1 DEF Sound
<1> HIDE DEF F, C, L, n
<1>12. IsCache(e) /\ e.files = F /\ e.cachedSpans = C /\ e.leastRecentlyUsed = C
  BY <1>4, <1>5 DEF Sound, IsCache
<1> HIDE DEF e
<1>13. Spans(e) = F \cup C
  BY <1>12 DEF Spans
<1>14. Sound(e)
  BY <1>7, <1>10, <1>11, <1>12, <1>13 DEF Sound
<1>15. Follows(c, e, {})
  <2>1. \A t \in C : \E u \in c.cachedSpans : SameExtent(u, t)
    BY <1>3 DEF C, SameExtent
  <2>2. \A f \in F : f \in C \/ f \in c.files \ c.cachedSpans
    <3> SUFFICES ASSUME NEW f \in F, f \in c.cachedSpans, f # new
                 PROVE  f \in C
      BY DEF F, C
    <3>1. f # s
      BY DEF F, IsNamed
    <3> QED
      BY <3>1 DEF C
  <2> QED
    BY <1>12, <1>14, <2>1, <2>2 DEF Follows
<1>16. touch(c, s, now) = evictCache(e, 0)
  BY DEF touch, e, F, C, L, n, new
<1> QED
  BY <1>3, <1>14, <1>15, <1>16, OldestGo, FollowsShrinks DEF new

\* No cached span of a key is in a piece of its stream.
Free(c, key, from, to) ==
  \A s \in c.cachedSpans : s.key = key => End(s) <= from \/ to <= s.position

\* A file among the spans: f for what had its name.
LEMMA RenewedIsSound ==
  ASSUME NEW c, Sound(c), NEW f \in Part,
         \A s \in Spans(c) : ~IsNamed(s, f) => Apart(f, s) /\ Apart(s, f),
         \A s \in c.cachedSpans : ~IsNamed(s, f)
  PROVE  LET d == [Deleted(c, f) EXCEPT !.files = @ \cup {f}]
         IN  /\ Sound(d)
             /\ d.files = {g \in c.files : ~IsNamed(g, f)} \cup {f}
             /\ d.cachedSpans = c.cachedSpans
<1> DEFINE F == {g \in c.files : ~IsNamed(g, f)} \cup {f}
           d == [Deleted(c, f) EXCEPT !.files = @ \cup {f}]
<1>1. F \in SUBSET Part
  BY DEF Sound, IsCache
<1>2. /\ IsCache(d) /\ d.files = F /\ d.cachedSpans = c.cachedSpans
      /\ d.leastRecentlyUsed = c.leastRecentlyUsed
  BY <1>1 DEF Sound, IsCache, Deleted
<1> HIDE DEF d
<1>3. Spans(d) \subseteq {s \in Spans(c) : ~IsNamed(s, f)} \cup {f}
  BY <1>2 DEF Spans
<1>4. \A s, t \in Spans(d) : IsNamed(s, t) => s = t
  <2>1. \A s \in Spans(d) : s # f => ~IsNamed(s, f) /\ ~IsNamed(f, s)
    BY <1>3 DEF IsNamed
  <2> QED
    BY <1>3, <2>1 DEF Sound
<1>5. \A s, t \in Spans(d) : s # t => Apart(s, t)
  <2>1. \A s \in Spans(d) : s # f => Apart(s, f) /\ Apart(f, s)
    BY <1>3
  <2> QED
    BY <1>3, <2>1 DEF Sound
<1>6. \A s \in d.cachedSpans : s.length > 0
  BY <1>2 DEF Sound
<1>7. Sound(d)
  BY <1>2, <1>4, <1>5, <1>6 DEF Sound
<1> QED
  BY <1>2, <1>7 DEF d

\* An empty file where a hole begins.
LEMMA CreatedFollows ==
  ASSUME NEW c, Sound(c), NEW f \in Part, f.length = 0,
         NEW to \in Int, f.position < to, Free(c, f.key, f.position, to),
         \A g \in c.files : g.key = f.key => g \in c.cachedSpans
  PROVE  LET d == Created(c, f)
         IN  /\ Follows(c, d, {f.key})
             /\ d.cachedSpans = c.cachedSpans
             /\ \A g \in d.files : g.key = f.key => g \in d.cachedSpans \/ g = f
<1> DEFINE d == [Deleted(c, f) EXCEPT !.files = @ \cup {f}]
<1>1. \A s \in Spans(c) : s.key = f.key => s \in c.cachedSpans
  BY DEF Spans
<1>2. \A s \in c.cachedSpans : s \in Part /\ s.length > 0
  BY DEF Sound, IsCache
<1>3. \A s \in c.cachedSpans : ~IsNamed(s, f)
  BY <1>2 DEF IsNamed, Free, End, Part
<1>4. \A s \in Spans(c) : Apart(f, s) /\ Apart(s, f)
  BY <1>1, <1>2 DEF Apart, Free, End, Part
<1>5. /\ Sound(d)
      /\ d.files = {g \in c.files : ~IsNamed(g, f)} \cup {f}
      /\ d.cachedSpans = c.cachedSpans
  BY <1>3, <1>4, RenewedIsSound
<1> HIDE DEF d
<1>6. Follows(c, d, {f.key})
  BY <1>5 DEF Follows, SameExtent
<1>7. d = Created(c, f)
  BY DEF Created, d
<1> QED
  BY <1>5, <1>6, <1>7

\* A file that grows in a hole.
LEMMA GrownFollows ==
  ASSUME NEW c, Sound(c), NEW file \in Part, NEW n \in Int, NEW to \in Int,
         file.position <= n, n < to, Free(c, file.key, file.position, to),
         \A g \in c.files :
           IsNamed(file, g) => End(g) <= n,
         \A g \in c.files :
           g.key = file.key => g \in c.cachedSpans \/ IsNamed(file, g)
  PROVE  LET d == Grown(c, file)
         IN  /\ Follows(c, d, {file.key})
             /\ d.cachedSpans = c.cachedSpans
             /\ \A g \in d.files : IsNamed(file, g) => End(g) <= n + 1
             /\ \A g \in d.files :
                  g.key = file.key => g \in d.cachedSpans \/ IsNamed(file, g)
<1>1. CASE ~Exists(c, file)
  <2>1. Grown(c, file) = c
    BY <1>1 DEF Grown
  <2>2. Follows(c, c, {file.key})
    BY ShrinksToItself, ShrinksFollows
  <2>3. \A g \in c.files : ~IsNamed(file, g)
    BY <1>1 DEF Exists, IsNamed
  <2> QED
    BY <2>1, <2>2, <2>3
<1>2. CASE Exists(c, file)
  <2> DEFINE f == FileOf(c, file)
             g == [f EXCEPT !.length = @ + 1]
             d == [Deleted(c, g) EXCEPT !.files = @ \cup {g}]
  <2>1. f \in c.files /\ IsNamed(f, file)
        /\ \A h \in c.files : IsNamed(h, file) => h = f
    BY <1>2, TheFile
  <2> HIDE DEF f
  <2>2. f \in Part
    BY <2>1 DEF Sound, IsCache
  <2>3. /\ g \in Part
        /\ g.key = file.key /\ g.position = file.position /\ g.time = file.time
        /\ g.length = f.length + 1
    BY <2>1, <2>2 DEF Part, IsNamed
  <2>4. f.position = file.position /\ f.position + f.length <= n
    BY <2>1 DEF IsNamed, End
  <2> HIDE DEF g
  <2>5. \A s \in c.cachedSpans : s \in Part /\ s.length > 0
    BY DEF Sound, IsCache
  <2>6. \A s \in c.cachedSpans : ~IsNamed(s, g)
    BY <2>3, <2>5 DEF IsNamed, Free, End, Part
  <2>7. \A s \in Spans(c) : ~IsNamed(s, g) /\ s.key = g.key => s \in c.cachedSpans
    BY <2>3 DEF Spans, IsNamed
  <2>8. \A s \in Spans(c) : ~IsNamed(s, g) => Apart(g, s) /\ Apart(s, g)
    <3> SUFFICES ASSUME NEW s \in c.cachedSpans, s.key = g.key
                 PROVE  End(g) <= s.position \/ End(s) <= g.position
      BY <2>7 DEF Apart
    <3>1. End(s) <= file.position \/ to <= s.position
      BY <2>3 DEF Free
    <3> QED
      BY <2>2, <2>3, <2>4, <2>5, <3>1 DEF End, Part
  <2>9. /\ Sound(d)
        /\ d.files = {h \in c.files : ~IsNamed(h, g)} \cup {g}
        /\ d.cachedSpans = c.cachedSpans
    BY <2>3, <2>6, <2>8, RenewedIsSound
  <2>10. d = Grown(c, file)
    <3>1. Deleted(c, g) = Deleted(c, file)
      BY <2>3 DEF Deleted, IsNamed
    <3> QED
      BY <1>2, <3>1 DEF Grown, d, g, f
  <2> HIDE DEF d
  <2>11. Follows(c, d, {file.key})
    BY <2>3, <2>9 DEF Follows, SameExtent
  <2>12. \A h \in d.files : IsNamed(file, h) => h = g
    BY <2>3, <2>9 DEF IsNamed
  <2>13. End(g) <= n + 1
    BY <2>2, <2>3, <2>4 DEF End, Part
  <2>14. IsNamed(file, g)
    BY <2>3 DEF IsNamed
  <2> QED
    BY <2>9, <2>10, <2>11, <2>12, <2>13, <2>14
<1> QED
  BY <1>1, <1>2

\* What of a file and its name there is after a commit is a span.
LEMMA CommitFollows ==
  ASSUME NEW c, Sound(c), NEW file
  PROVE  LET d == commitFile(c, file)
         IN  /\ Follows(c, d, {file.key})
             /\ d.files \subseteq c.files
             /\ \A g \in d.files : g \in c.cachedSpans => g \in d.cachedSpans
             /\ \A g \in d.files : IsNamed(file, g) => g \in d.cachedSpans
             /\ \A g \in d.cachedSpans :
                  g \in c.cachedSpans \/ (g \in c.files /\ IsNamed(file, g))
<1>1. CASE ~Exists(c, file)
  <2>1. commitFile(c, file) = c
    BY <1>1 DEF commitFile
  <2>2. Follows(c, c, {file.key})
    BY ShrinksToItself, ShrinksFollows
  <2>3. \A g \in c.files : ~IsNamed(file, g)
    BY <1>1 DEF Exists, IsNamed
  <2> QED
    BY <2>1, <2>2, <2>3
<1>2. CASE Exists(c, file) /\ FileOf(c, file).length = 0
  <2>1. commitFile(c, file) = Deleted(c, file)
    BY <1>2 DEF commitFile
  <2>2. /\ Shrinks(c, Deleted(c, file))
        /\ Deleted(c, file).files = {f \in c.files : ~IsNamed(f, file)}
    BY DeletedShrinks
  <2>3. \A g : IsNamed(file, g) <=> IsNamed(g, file)
    BY DEF IsNamed
  <2> QED
    BY <2>1, <2>2, <2>3, ShrinksFollows DEF Shrinks
<1>3. CASE Exists(c, file) /\ FileOf(c, file).length # 0
  <2> DEFINE f == FileOf(c, file)
  <2>1. f \in c.files /\ IsNamed(f, file)
        /\ \A g \in c.files : IsNamed(g, file) => g = f
    BY <1>3, TheFile
  <2>2. f \in Part /\ f.length # 0
    BY <1>3, <2>1 DEF Sound, IsCache
  <2> HIDE DEF f
  <2>3. f.length > 0
    BY <2>2 DEF Part
  <2>4. f.key = file.key
    BY <2>1 DEF IsNamed
  <2> DEFINE d == addSpan(c, f)
  <2>5. /\ Follows(c, d, {f.key})
        /\ d.files \subseteq c.files
        /\ d.cachedSpans \subseteq c.cachedSpans \cup {f}
        /\ \A g \in d.files : g \in c.cachedSpans \cup {f} => g \in d.cachedSpans
    BY <2>1, <2>3, AddedFollows
  <2>6. commitFile(c, file) = d
    BY <1>3 DEF commitFile, f
  <2> HIDE DEF d
  <2>7. \A g \in d.files : IsNamed(file, g) => g = f
    BY <2>1, <2>5 DEF IsNamed
  <2>8. IsNamed(file, f)
    BY <2>1 DEF IsNamed
  <2> QED
    BY <2>1, <2>4, <2>5, <2>6, <2>7, <2>8
<1> QED
  BY <1>1, <1>2, <1>3

\* A file that initialize finds.
LEMMA InitializedFollows ==
  ASSUME NEW c, Sound(c), NEW f \in c.files
  PROVE  LET d == initialized(c, f)
         IN  /\ Sound(d)
             /\ d.files \subseteq c.files
             /\ d.cachedSpans \subseteq c.cachedSpans \cup {f}
             /\ \A g \in d.files : g \in c.cachedSpans \cup {f} => g \in d.cachedSpans
             /\ \A g \in c.files : g \notin c.cachedSpans \cup {f} => g \in d.files
<1>1. f \in Part
  BY DEF Sound, IsCache
<1>2. CASE f.length = 0
  <2>1. initialized(c, f) = Deleted(c, f)
    BY <1>2 DEF initialized
  <2>2. \A g \in c.files : IsNamed(g, f) <=> g = f
    BY DEF IsNamed, Sound, Spans
  <2> QED
    BY <2>1, <2>2, DeletedShrinks, ShrinksIsSound DEF Shrinks
<1>3. CASE f.length > 0
  <2>1. initialized(c, f) = addSpan(c, f)
    BY <1>1, <1>3 DEF initialized, Part
  <2> QED
    BY <1>3, <2>1, AddedFollows DEF Follows
<1> QED
  BY <1>1, <1>2, <1>3 DEF Part

\* Where no span covers a position, there is none up to the hole's end.
LEMMA HoleIsFree ==
  ASSUME NEW c, Sound(c), NEW key, NEW position \in Nat,
         Covering(c, key, position) = {}
  PROVE  LET hole == HoleLength(c, key, position)
         IN  /\ hole = -1 => \A to \in Int : Free(c, key, position, to)
             /\ hole # -1 => /\ hole \in Nat /\ hole > 0
                             /\ Free(c, key, position, position + hole)
<1> DEFINE behind == {s.position : s \in {t \in c.cachedSpans :
                                            t.key = key /\ t.position > position}}
<1>1. \A s \in c.cachedSpans : s \in Part /\ s.position \in Nat /\ s.length \in Nat
                               /\ s.length > 0
  BY DEF Sound, IsCache, Part
<1>2. \A s \in c.cachedSpans : s.key = key /\ s.position <= position => End(s) <= position
  <2> SUFFICES ASSUME NEW s \in c.cachedSpans, s.key = key, s.position <= position,
                      ~(End(s) <= position)
               PROVE  FALSE
    OBVIOUS
  <2>1. position < End(s)
    BY <1>1 DEF End
  <2>2. \A t \in c.cachedSpans :
          t.key = key /\ t.position <= position => t.position <= s.position
    <3> SUFFICES ASSUME NEW t \in c.cachedSpans, t.key = key, t.position <= position,
                        t # s
                 PROVE  t.position <= s.position
      BY <1>1
    <3>1. Apart(s, t)
      BY DEF Sound, Spans
    <3> QED
      BY <1>1, <2>1, <3>1 DEF Apart, End
  <2>3. s \in Covering(c, key, position)
    BY <2>1, <2>2 DEF Covering, FloorSpan
  <2> QED
    BY <2>3
<1>3. behind \in SUBSET Nat
  BY <1>1
<1>4. \A s \in c.cachedSpans : s.key = key => End(s) <= position \/ s.position \in behind
  BY <1>1, <1>2
<1>5. \A n \in behind : n > position
  BY <1>1
<1>6. HoleLength(c, key, position) = IF behind = {} THEN -1 ELSE Min(behind) - position
  BY DEF HoleLength
<1> HIDE DEF behind
<1>7. CASE behind = {}
  BY <1>4, <1>6, <1>7 DEF Free
<1>8. CASE behind # {}
  <2>1. Min(behind) \in behind /\ \A n \in behind : Min(behind) <= n
    BY <1>3, <1>8, LeastNumber
  <2>2. Min(behind) \in Nat /\ Min(behind) > position
    BY <1>3, <1>5, <2>1
  <2>3. position + (Min(behind) - position) = Min(behind)
    BY <2>2
  <2> QED
    BY <1>4, <1>6, <1>8, <2>1, <2>2, <2>3 DEF Free
<1> QED
  BY <1>7, <1>8
-----------------------------------------------------------------------------
ReaderLike ==
  [pc : {"closed", "next", "waiting", "opening", "starting", "open", "writing",
         "committing", "releasing", "failed"},
   key : Keys \cup {Min(Keys)}, readPosition : Nat, bytesRemaining : Int,
   source : {"none", "cache", "upstream", "tee"}, left : Int,
   found : Part, lockedSpan : BOOLEAN, ignoreCache : BOOLEAN,
   file : Part, outputStream : BOOLEAN, after : {"read", "write", "close"}]

Typed == /\ lockedSpans \in [Keys -> Readers \cup {"nobody"}]
         /\ reader \in [Readers -> ReaderLike]

\* initialize has left alone what it has not come to.
Unread == /\ unread \in SUBSET cache.files
          /\ unread \cap cache.cachedSpans = {}

\* The hole that a reader holds.
Holds(r, s, locks, rest) ==
  /\ s.lockedSpan => s.key \in Keys /\ locks[s.key] = r /\ rest = {}
  /\ s.pc \in {"starting", "writing", "committing", "releasing"} => s.lockedSpan
  /\ s.source = "tee" \/ s.outputStream => s.lockedSpan
  /\ s.pc \in {"closed", "next", "waiting"} => ~s.lockedSpan
  /\ s.pc \in {"opening", "starting", "committing", "releasing"} => ~s.outputStream

\* How far it has to go.
Goes(s) ==
  /\ s.pc # "closed" => s.key \in Keys
  /\ s.pc \in {"next", "waiting"} => s.bytesRemaining > 0
  /\ s.pc \in {"starting", "writing"} => s.left > 0
  /\ s.pc = "opening" /\ s.source = "tee" => s.left > 0
  /\ s.pc = "writing" => s.outputStream
  /\ s.pc = "open" /\ s.source = "tee" => s.outputStream
  /\ s.after = "write" => s.pc \in {"starting", "committing"} /\ s.left > 0
  /\ s.after = "close" => s.pc \in {"committing", "releasing"}

\* What it writes is where no span is, and not ahead of what it read.
HasFile(s) == s.outputStream \/ s.pc = "committing"
Base(s) == IF HasFile(s) THEN s.file.position ELSE s.readPosition
Writes(s, c) ==
  /\ s.lockedSpan /\ s.pc # "releasing"
       => Free(c, s.key, Base(s), s.readPosition + s.left)
  /\ HasFile(s) => s.file.key = s.key /\ s.file.position <= s.readPosition
  /\ HasFile(s) /\ s.left > 0 /\ (s.pc \in {"open", "writing"} \/ s.after = "write") =>
       \A f \in c.files : IsNamed(s.file, f) => End(f) <= s.readPosition

IInv ==
  /\ Typed
  /\ Sound(cache)
  /\ Unread
  /\ FilesAreKnown
  /\ \A r \in Readers : /\ Holds(r, reader[r], lockedSpans, unread)
                        /\ Goes(reader[r])
                        /\ Writes(reader[r], cache)

\* A reader that does not move, or is woken.
Woke(s, t) == t = s \/ (s.pc = "waiting" /\ t = [s EXCEPT !.pc = "next"])

LEMMA WokeFields ==
  ASSUME NEW s \in ReaderLike, NEW t, Woke(s, t)
  PROVE  /\ t \in ReaderLike
         /\ t.pc = s.pc \/ (s.pc = "waiting" /\ t.pc = "next")
         /\ t.key = s.key /\ t.readPosition = s.readPosition
         /\ t.bytesRemaining = s.bytesRemaining /\ t.left = s.left
         /\ t.source = s.source /\ t.lockedSpan = s.lockedSpan
         /\ t.file = s.file /\ t.outputStream = s.outputStream /\ t.after = s.after
<1>1. CASE t = s
  BY <1>1
<1>2. CASE s.pc = "waiting" /\ t = [s EXCEPT !.pc = "next"]
  <2>1. t \in ReaderLike
    BY <1>2 DEF ReaderLike
  <2>2. t.pc = "next"
    BY <1>2 DEF ReaderLike
  <2> QED
    BY <1>2, <2>1, <2>2 DEF ReaderLike
<1> QED
  BY <1>1, <1>2 DEF Woke

LEMMA FreeFollows ==
  ASSUME NEW c, NEW d, NEW K, Follows(c, d, K), NEW key, key \notin K,
         NEW from, NEW to, Free(c, key, from, to)
  PROVE  Free(d, key, from, to)
<1> SUFFICES ASSUME NEW t \in d.cachedSpans, t.key = key
             PROVE  End(t) <= from \/ to <= t.position
  BY DEF Free
<1>1. PICK s \in c.cachedSpans : SameExtent(s, t)
  BY DEF Follows
<1>2. s.key = key /\ End(t) = End(s) /\ t.position = s.position
  BY <1>1 DEF SameExtent, End
<1> QED
  BY <1>2 DEF Free

\* The others write as before.
LEMMA OtherWrites ==
  ASSUME NEW c, NEW d, NEW K, Sound(c), Follows(c, d, K),
         NEW s \in ReaderLike, NEW t, Woke(s, t), Writes(s, c), Goes(s),
         s.lockedSpan => s.key \notin K,
         HasFile(s) => s.lockedSpan /\ s.pc # "releasing"
  PROVE  Writes(t, d)
<1>1. /\ t \in ReaderLike
      /\ t.pc = s.pc \/ (s.pc = "waiting" /\ t.pc = "next")
      /\ t.key = s.key /\ t.readPosition = s.readPosition
      /\ t.bytesRemaining = s.bytesRemaining /\ t.left = s.left
      /\ t.source = s.source /\ t.lockedSpan = s.lockedSpan
      /\ t.file = s.file /\ t.outputStream = s.outputStream /\ t.after = s.after
  BY WokeFields
<1>2. HasFile(t) = HasFile(s)
  BY <1>1 DEF HasFile
<1>3. Base(t) = Base(s)
  BY <1>1, <1>2 DEF Base
<1>4. s.lockedSpan /\ s.pc # "releasing"
        => Free(d, s.key, Base(s), s.readPosition + s.left)
  BY FreeFollows DEF Writes
<1>5. HasFile(s) /\ s.left > 0 /\ (s.pc \in {"open", "writing"} \/ s.after = "write") =>
        \A f \in d.files : IsNamed(s.file, f) => End(f) <= s.readPosition
  <2> SUFFICES ASSUME HasFile(s), s.left > 0, s.pc \in {"open", "writing"} \/ s.after = "write",
                      NEW f \in d.files, IsNamed(s.file, f)
               PROVE  End(f) <= s.readPosition
    OBVIOUS
  <2>1. /\ Free(d, s.key, s.file.position, s.readPosition + s.left)
        /\ s.file.key = s.key /\ s.file.position <= s.readPosition
    BY <1>4 DEF Writes, Base
  <2>2. f.key = s.key /\ f.position = s.file.position
    BY <2>1 DEF IsNamed
  <2>3. f.key \notin K
    BY <2>2
  <2>4. f \notin d.cachedSpans
    <3> SUFFICES ASSUME f \in d.cachedSpans
                 PROVE  FALSE
      OBVIOUS
    <3>1. f \in Part /\ f.length > 0
      BY DEF Follows, Sound, IsCache
    <3>2. End(f) <= s.file.position \/ s.readPosition + s.left <= f.position
      BY <2>1, <2>2 DEF Free
    <3> QED
      BY <2>1, <2>2, <3>1, <3>2 DEF End, Part, ReaderLike
  <2>5. f \in c.files
    BY <2>3, <2>4 DEF Follows
  <2> QED
    BY <2>5 DEF Writes
<1>6. t.after = "write" => t.pc = s.pc
  BY <1>1 DEF Goes
<1>7. t.pc \in {"open", "writing"} => s.pc \in {"open", "writing"}
  BY <1>1
<1>8. t.pc # "releasing" => s.pc # "releasing"
  BY <1>1
<1> QED
  BY <1>1, <1>2, <1>3, <1>4, <1>5, <1>6, <1>7, <1>8 DEF Writes

\* The file that a reader writes.
Owns(r, s, locks, f) == HasFile(s) /\ IsNamed(s.file, f) /\ locks[f.key] = r

LEMMA Known ==
  FilesAreKnown <=> \A f \in cache.files :
                      f \in cache.cachedSpans \cup unread
                      \/ \E r \in Readers : Owns(r, reader[r], lockedSpans, f)
BY DEF FilesAreKnown, IsWriting, Owns, HasFile, At

\* What a step of a reader needs to keep the invariant.
LEMMA ReaderSteps ==
  ASSUME IInv, NEW r \in Readers, NEW K,
         lockedSpans' \in [Keys -> Readers \cup {"nobody"}],
         reader' \in [Readers -> ReaderLike],
         \A x \in Readers \ {r} : Woke(reader[x], reader'[x]),
         \A k \in Keys : lockedSpans[k] \notin {r, "nobody"}
                           => lockedSpans'[k] = lockedSpans[k],
         unread' = unread,
         cache' = cache \/ unread = {},
         Follows(cache, cache', K),
         K = {} \/ (reader[r].lockedSpan /\ K = {reader[r].key}),
         \A f \in cache'.files \ cache'.cachedSpans :
           f.key \in K \/ Owns(r, reader[r], lockedSpans, f)
             => Owns(r, reader'[r], lockedSpans', f),
         Holds(r, reader'[r], lockedSpans', unread), Goes(reader'[r]),
         Writes(reader'[r], cache')
  PROVE  IInv'
<1>1. \A x \in Readers : /\ reader[x] \in ReaderLike
                         /\ Holds(x, reader[x], lockedSpans, unread)
                         /\ Goes(reader[x]) /\ Writes(reader[x], cache)
  BY DEF IInv, Typed
<1>2. \A x \in Readers \ {r} :
        /\ reader[x].lockedSpan => /\ reader[x].key \in Keys
                                   /\ lockedSpans[reader[x].key] = x
                                   /\ lockedSpans'[reader[x].key] = x
                                   /\ reader[x].key \notin K
        /\ HasFile(reader[x]) => reader[x].lockedSpan /\ reader[x].pc # "releasing"
  <2> SUFFICES ASSUME NEW x \in Readers \ {r}
               PROVE  /\ reader[x].lockedSpan => /\ reader[x].key \in Keys
                                                 /\ lockedSpans[reader[x].key] = x
                                                 /\ lockedSpans'[reader[x].key] = x
                                                 /\ reader[x].key \notin K
                      /\ HasFile(reader[x])
                           => reader[x].lockedSpan /\ reader[x].pc # "releasing"
    OBVIOUS
  <2>1. reader[x].lockedSpan => reader[x].key \in Keys /\ lockedSpans[reader[x].key] = x
    BY <1>1 DEF Holds
  <2>2. x # "nobody"
    BY NobodyIsNoReader
  <2>3. reader[x].lockedSpan => lockedSpans'[reader[x].key] = x
    BY <2>1, <2>2
  <2>4. reader[r].lockedSpan => lockedSpans[reader[r].key] = r
    BY <1>1 DEF Holds
  <2>5. reader[x].lockedSpan => reader[x].key \notin K
    BY <2>1, <2>4
  <2>6. HasFile(reader[x]) => reader[x].lockedSpan /\ reader[x].pc # "releasing"
    BY <1>1 DEF Holds, HasFile
  <2> QED
    BY <2>1, <2>3, <2>5, <2>6
<1>3. \A x \in Readers \ {r} : /\ Holds(x, reader'[x], lockedSpans', unread)
                               /\ Goes(reader'[x])
                               /\ Writes(reader'[x], cache')
                               /\ HasFile(reader'[x]) <=> HasFile(reader[x])
                               /\ reader'[x].file = reader[x].file
  <2> SUFFICES ASSUME NEW x \in Readers \ {r}
               PROVE  /\ Holds(x, reader'[x], lockedSpans', unread)
                      /\ Goes(reader'[x])
                      /\ Writes(reader'[x], cache')
                      /\ HasFile(reader'[x]) <=> HasFile(reader[x])
                      /\ reader'[x].file = reader[x].file
    OBVIOUS
  <2> DEFINE s == reader[x]
             t == reader'[x]
  <2>1. s \in ReaderLike /\ Woke(s, t)
    BY <1>1
  <2>2. /\ t \in ReaderLike
        /\ t.pc = s.pc \/ (s.pc = "waiting" /\ t.pc = "next")
        /\ t.key = s.key /\ t.readPosition = s.readPosition
        /\ t.bytesRemaining = s.bytesRemaining /\ t.left = s.left
        /\ t.source = s.source /\ t.lockedSpan = s.lockedSpan
        /\ t.file = s.file /\ t.outputStream = s.outputStream /\ t.after = s.after
    BY <2>1, WokeFields
  <2>3. Holds(x, s, lockedSpans, unread) /\ Goes(s) /\ Writes(s, cache)
    BY <1>1
  <2>4. /\ s.lockedSpan => lockedSpans'[s.key] = x /\ s.key \notin K
        /\ HasFile(s) => s.lockedSpan /\ s.pc # "releasing"
    BY <1>2
  <2>5. Sound(cache)
    BY DEF IInv
  <2> HIDE DEF s, t
  <2>6. Holds(x, t, lockedSpans', unread)
    BY <2>2, <2>3, <2>4 DEF Holds
  <2>7. Goes(t)
    BY <2>2, <2>3 DEF Goes
  <2>8. Writes(t, cache')
    BY <2>1, <2>3, <2>4, <2>5, OtherWrites
  <2>9. HasFile(t) <=> HasFile(s)
    BY <2>2 DEF HasFile
  <2> QED
    BY <2>2, <2>6, <2>7, <2>8, <2>9 DEF s, t
<1>4. Typed'
  BY DEF Typed
<1>5. Sound(cache')
  BY DEF Follows
<1>6. Unread'
  BY DEF IInv, Unread
<1>7. FilesAreKnown'
  <2> SUFFICES ASSUME NEW f \in cache'.files,
                      f \notin cache'.cachedSpans, f \notin unread
               PROVE  \E x \in Readers : Owns(x, reader'[x], lockedSpans', f)
    BY DEF FilesAreKnown, IsWriting, Owns, HasFile, At
  <2>1. CASE f.key \in K
    BY <2>1
  <2>2. CASE f.key \notin K
    <3>1. f \in cache.files /\ f \notin cache.cachedSpans
      BY <2>2 DEF Follows
    <3>2. PICK x \in Readers : Owns(x, reader[x], lockedSpans, f)
      BY <3>1, Known DEF IInv
    <3>3. CASE x = r
      BY <3>2, <3>3
    <3>4. CASE x # r
      <4>1. HasFile(reader[x]) /\ IsNamed(reader[x].file, f)
        BY <3>2 DEF Owns
      <4>2. reader[x].file.key = reader[x].key
        BY <1>1, <4>1 DEF Writes
      <4>3. f.key = reader[x].key
        BY <4>1, <4>2 DEF IsNamed
      <4>4. lockedSpans'[f.key] = x
        BY <1>2, <3>4, <4>1, <4>3
      <4>5. Owns(x, reader'[x], lockedSpans', f)
        BY <1>3, <3>4, <4>1, <4>4 DEF Owns
      <4> QED
        BY <4>5
    <3> QED
      BY <3>3, <3>4
  <2> QED
    BY <2>1, <2>2
<1>8. \A x \in Readers : /\ Holds(x, reader'[x], lockedSpans', unread')
                         /\ Goes(reader'[x])
                         /\ Writes(reader'[x], cache')
  BY <1>3
<1> QED
  BY <1>4, <1>5, <1>6, <1>7, <1>8 DEF IInv

LEMMA ReaderFacts ==
  ASSUME IInv, NEW r \in Readers
  PROVE  /\ reader[r] \in ReaderLike
         /\ Holds(r, reader[r], lockedSpans, unread)
         /\ Goes(reader[r])
         /\ Writes(reader[r], cache)
         /\ HasFile(reader[r]) => reader[r].lockedSpan
<1>1. /\ reader[r] \in ReaderLike
      /\ Holds(r, reader[r], lockedSpans, unread)
      /\ Goes(reader[r])
      /\ Writes(reader[r], cache)
  BY DEF IInv, Typed
<1> QED
  BY <1>1 DEF Holds, HasFile

\* A step of one reader alone.
LEMMA GoesOnSteps ==
  ASSUME IInv, NEW r \in Readers, NEW t \in ReaderLike, GoesOn(r, t),
         lockedSpans' \in [Keys -> Readers \cup {"nobody"}],
         \A k \in Keys : lockedSpans[k] \notin {r, "nobody"}
                           => lockedSpans'[k] = lockedSpans[k],
         unread' = unread, cache' = cache \/ unread = {},
         NEW K, Follows(cache, cache', K),
         K = {} \/ (reader[r].lockedSpan /\ K = {reader[r].key}),
         \A f \in cache'.files \ cache'.cachedSpans :
           f.key \in K \/ Owns(r, reader[r], lockedSpans, f)
             => Owns(r, t, lockedSpans', f),
         Holds(r, t, lockedSpans', unread), Goes(t), Writes(t, cache')
  PROVE  IInv'
<1>1. reader \in [Readers -> ReaderLike]
  BY DEF IInv, Typed
<1>2. reader' \in [Readers -> ReaderLike]
  BY <1>1 DEF GoesOn
<1>3. reader'[r] = t /\ \A x \in Readers \ {r} : reader'[x] = reader[x]
  BY <1>1 DEF GoesOn
<1>4. \A x \in Readers \ {r} : Woke(reader[x], reader'[x])
  <2>1. \A u : Woke(u, u)
    BY DEF Woke
  <2> QED
    BY <1>3, <2>1
<1> QED
  BY <1>2, <1>3, <1>4, ReaderSteps

\* And of nothing else.
LEMMA QuietSteps ==
  ASSUME IInv, NEW r \in Readers, NEW t \in ReaderLike, GoesOn(r, t),
         UNCHANGED <<cache, lockedSpans, unread>>,
         Holds(r, t, lockedSpans, unread), Goes(t), Writes(t, cache),
         HasFile(reader[r]) => HasFile(t) /\ t.file = reader[r].file
  PROVE  IInv'
<1>1. Follows(cache, cache', {})
  <2>1. Follows(cache, cache, {})
    BY ShrinksToItself, ShrinksFollows DEF IInv
  <2> QED
    BY <2>1
<1>2. \A f \in cache'.files \ cache'.cachedSpans :
        f.key \in {} \/ Owns(r, reader[r], lockedSpans, f)
          => Owns(r, t, lockedSpans', f)
  <2>1. lockedSpans' = lockedSpans
    OBVIOUS
  <2>2. \A f : Owns(r, reader[r], lockedSpans, f) => Owns(r, t, lockedSpans, f)
    BY DEF Owns
  <2> QED
    BY <2>1, <2>2
<1>3. lockedSpans' \in [Keys -> Readers \cup {"nobody"}]
  BY DEF IInv, Typed
<1> QED
  BY <1>1, <1>2, <1>3, GoesOnSteps

LEMMA OpenSteps ==
  ASSUME IInv, NEW r \in Readers, Open(r)
  PROVE  IInv'
<1>1. PICK q \in Requests[r] :
        GoesOn(r, [reader[r] EXCEPT !.pc = "next", !.key = q.key,
                                    !.readPosition = q.position,
                                    !.bytesRemaining = q.length])
  BY DEF Open
<1> DEFINE s == reader[r]
           k == q.key
           p == q.position
           n == q.length
           t == [s EXCEPT !.pc = "next", !.key = k, !.readPosition = p,
                          !.bytesRemaining = n]
<1>2. /\ s \in ReaderLike /\ s.pc = "closed"
      /\ Holds(r, s, lockedSpans, unread) /\ Goes(s) /\ Writes(s, cache)
  BY ReaderFacts DEF Open, At
<1>3. k \in Keys /\ p \in Nat /\ n \in Int /\ n > 0
  BY RequestsAssumption
<1>4. GoesOn(r, t) /\ UNCHANGED <<cache, lockedSpans, unread>>
  BY <1>1 DEF Open
<1> HIDE DEF s, k, p, n
<1>5. t \in ReaderLike
  BY <1>2, <1>3 DEF ReaderLike
<1>6. /\ t.pc = "next" /\ t.key = k /\ t.bytesRemaining = n
      /\ t.source = s.source /\ t.lockedSpan = s.lockedSpan
      /\ t.outputStream = s.outputStream /\ t.after = s.after
  BY <1>2 DEF ReaderLike
<1> HIDE DEF t
<1>7. ~s.lockedSpan /\ ~s.outputStream /\ s.source # "tee" /\ s.after = "read"
  BY <1>2 DEF Holds, Goes, ReaderLike
<1>8. Holds(r, t, lockedSpans, unread) /\ Goes(t) /\ Writes(t, cache)
  BY <1>3, <1>6, <1>7 DEF Holds, Goes, Writes, HasFile
<1>9. ~HasFile(reader[r])
  BY <1>2, <1>7 DEF HasFile, s
<1> QED
  BY <1>4, <1>5, <1>8, <1>9, QuietSteps

\* A reader that holds no hole.
LEMMA WithoutHole ==
  ASSUME NEW t \in ReaderLike,
         ~t.lockedSpan, ~t.outputStream, t.source # "tee", t.after = "read",
         t.pc \notin {"starting", "writing", "committing", "releasing"},
         t.pc # "closed" => t.key \in Keys,
         t.pc \in {"next", "waiting"} => t.bytesRemaining > 0,
         NEW r, NEW locks, NEW rest, NEW c
  PROVE  Holds(r, t, locks, rest) /\ Goes(t) /\ Writes(t, c) /\ ~HasFile(t)
BY DEF Holds, Goes, Writes, HasFile

LEMMA AtNext ==
  ASSUME IInv, NEW r \in Readers, At(r, "next")
  PROVE  LET s == reader[r]
         IN  /\ s \in ReaderLike /\ s.pc = "next"
             /\ ~s.lockedSpan /\ ~s.outputStream /\ s.source # "tee"
             /\ s.after = "read" /\ ~HasFile(s)
             /\ s.bytesRemaining > 0 /\ s.key \in Keys
<1> DEFINE s == reader[r]
<1>1. s \in ReaderLike /\ s.pc = "next" /\ Holds(r, s, lockedSpans, unread) /\ Goes(s)
  BY ReaderFacts DEF At
<1> HIDE DEF s
<1>2. /\ ~s.lockedSpan /\ ~s.outputStream /\ s.source # "tee"
      /\ s.after = "read" /\ ~HasFile(s)
      /\ s.bytesRemaining > 0 /\ s.key \in Keys
  BY <1>1 DEF Holds, Goes, HasFile, ReaderLike
<1> QED
  BY <1>1, <1>2 DEF s

\* The next source is found, without a hole.
LEMMA NextSteps ==
  ASSUME IInv, NEW r \in Readers, At(r, "next"), NEW t \in ReaderLike, GoesOn(r, t),
         Follows(cache, cache', {}), cache' = cache \/ unread = {},
         UNCHANGED <<lockedSpans, unread>>,
         ~t.lockedSpan, ~t.outputStream, t.source # "tee", t.after = "read",
         t.pc = "opening" \/ (t.pc = "waiting" /\ t.bytesRemaining > 0), t.key \in Keys
  PROVE  IInv'
<1>1. /\ Holds(r, t, lockedSpans', unread) /\ Goes(t) /\ Writes(t, cache')
      /\ ~HasFile(t)
  BY WithoutHole
<1>2. ~HasFile(reader[r])
  BY AtNext
<1>3. \A f : ~Owns(r, reader[r], lockedSpans, f)
  BY <1>2 DEF Owns
<1>4. lockedSpans' \in [Keys -> Readers \cup {"nobody"}]
  BY DEF IInv, Typed
<1>5. \A f \in cache'.files \ cache'.cachedSpans :
        f.key \in {} \/ Owns(r, reader[r], lockedSpans, f)
          => Owns(r, t, lockedSpans', f)
  BY <1>3
<1> QED
  BY <1>1, <1>4, <1>5, GoesOnSteps

LEMMA BypassesLike ==
  ASSUME NEW s \in ReaderLike
  PROVE  LET t == [s EXCEPT !.pc = "opening", !.source = "upstream",
                            !.left = s.bytesRemaining]
         IN  /\ t \in ReaderLike /\ t.pc = "opening" /\ t.source = "upstream"
             /\ t.lockedSpan = s.lockedSpan /\ t.outputStream = s.outputStream
             /\ t.after = s.after /\ t.key = s.key
BY DEF ReaderLike

LEMMA BypassesSteps ==
  ASSUME IInv, NEW r \in Readers, At(r, "next"), Bypasses(r, reader[r]),
         Follows(cache, cache', {}), cache' = cache \/ unread = {},
         UNCHANGED <<lockedSpans, unread>>
  PROVE  IInv'
<1> DEFINE s == reader[r]
           t == [s EXCEPT !.pc = "opening", !.source = "upstream",
                          !.left = s.bytesRemaining]
<1>1. s \in ReaderLike /\ ~s.lockedSpan /\ ~s.outputStream /\ s.after = "read"
      /\ s.key \in Keys
  BY AtNext
<1>2. GoesOn(r, t)
  BY DEF Bypasses
<1> HIDE DEF s
<1>3. /\ t \in ReaderLike /\ t.pc = "opening" /\ t.source = "upstream"
      /\ t.lockedSpan = s.lockedSpan /\ t.outputStream = s.outputStream
      /\ t.after = s.after /\ t.key = s.key
  BY <1>1, BypassesLike
<1> HIDE DEF t
<1> QED
  BY <1>1, <1>2, <1>3, NextSteps

\* What getSpan finds is there.
LEMMA LookedExists ==
  ASSUME NEW c, Sound(c), NEW key, NEW position,
         NEW s \in Covering(Looked(c, key, position), key, position)
  PROVE  Exists(Looked(c, key, position), s)
<1> DEFINE d == Looked(c, key, position)
<1>1. CASE \E t \in Covering(c, key, position) : ~Exists(c, t)
  <2> DEFINE stale == {t \in c.cachedSpans : ~Exists(c, t)}
             e == Forgotten(c, stale)
  <2>1. e.files = c.files /\ e.cachedSpans = c.cachedSpans \ stale
    BY ForgottenSpans
  <2>2. stale # {}
    BY <1>1 DEF Covering, FloorSpan
  <2>3. d = e
    BY <1>1, <2>2 DEF Looked, removeStaleSpans
  <2>4. s \in d.cachedSpans
    BY DEF Covering, FloorSpan
  <2>5. Exists(c, s)
    BY <2>1, <2>3, <2>4
  <2>6. Exists(e, s)
    BY <2>1, <2>5 DEF Exists
  <2> QED
    BY <2>3, <2>6
<1>2. CASE ~\E t \in Covering(c, key, position) : ~Exists(c, t)
  <2>1. d = c
    BY <1>2 DEF Looked
  <2> QED
    BY <1>2, <2>1
<1> QED
  BY <1>1, <1>2

LEMMA FindsSteps ==
  ASSUME IInv, NEW r \in Readers, At(r, "next"), unread = {}, unread' = unread,
         Finds(r, reader[r], Looked(cache, reader[r].key, reader[r].readPosition))
  PROVE  IInv'
<1> DEFINE s == reader[r]
           c == Looked(cache, s.key, s.readPosition)
<1>1. PICK span \in Covering(c, s.key, s.readPosition), now \in Times :
        LET new == Touched(c, span, now)
        IN  /\ cache' = touch(c, span, now)
            /\ GoesOn(r, [s EXCEPT !.pc = "opening", !.source = "cache", !.found = new,
                                   !.left = Least(End(new) - s.readPosition,
                                                  s.bytesRemaining)])
            /\ UNCHANGED lockedSpans
  BY DEF Finds
<1> DEFINE new == Touched(c, span, now)
           n == Least(End(new) - s.readPosition, s.bytesRemaining)
           t == [s EXCEPT !.pc = "opening", !.source = "cache", !.found = new,
                          !.left = n]
<1>2. /\ s \in ReaderLike /\ ~s.lockedSpan /\ ~s.outputStream /\ s.after = "read"
      /\ s.key \in Keys
  BY AtNext
<1>3. Shrinks(cache, c) /\ Sound(c)
  BY LookedShrinks, ShrinksIsSound DEF IInv
<1>4. cache' = touch(c, span, now) /\ GoesOn(r, t) /\ UNCHANGED lockedSpans
  BY <1>1
<1>5. span \in c.cachedSpans
  BY DEF Covering, FloorSpan
<1>6. Exists(c, span)
  <2>1. Sound(cache)
    BY DEF IInv
  <2> QED
    BY <2>1, LookedExists
<1> HIDE DEF c
<1>7. Follows(c, cache', {}) /\ new \in Part
  BY <1>3, <1>4, <1>5, <1>6, TouchFollows
<1>8. Follows(cache, cache', {})
  BY <1>3, <1>7, ShrinksThenFollows
<1> HIDE DEF s, new
<1>9. n \in Int
  BY <1>2, <1>7 DEF Least, End, Part, ReaderLike
<1> HIDE DEF n
<1>10. /\ t \in ReaderLike /\ t.pc = "opening" /\ t.source = "cache"
       /\ t.lockedSpan = s.lockedSpan /\ t.outputStream = s.outputStream
       /\ t.after = s.after /\ t.key = s.key
  BY <1>2, <1>7, <1>9 DEF ReaderLike
<1> HIDE DEF t
<1> QED
  BY <1>2, <1>4, <1>8, <1>10, NextSteps

LEMMA IsLockedSteps ==
  ASSUME IInv, NEW r \in Readers, At(r, "next"), unread = {}, unread' = unread,
         IsLocked(r, reader[r], Looked(cache, reader[r].key, reader[r].readPosition))
  PROVE  IInv'
<1> DEFINE s == reader[r]
           c == Looked(cache, s.key, s.readPosition)
           t == [s EXCEPT !.pc = "waiting"]
<1>1. Shrinks(cache, c)
  BY LookedShrinks DEF IInv
<1>2. cache' = c /\ UNCHANGED lockedSpans
  BY DEF IsLocked
<1> HIDE DEF c
<1>3. Follows(cache, cache', {})
  BY <1>1, <1>2, ShrinksFollows DEF IInv
<1>4. CASE GoesOn(r, t)
  <2>1. /\ s \in ReaderLike /\ ~s.lockedSpan /\ ~s.outputStream /\ s.source # "tee"
        /\ s.after = "read" /\ s.bytesRemaining > 0 /\ s.key \in Keys
    BY AtNext
  <2> HIDE DEF s
  <2>2. /\ t \in ReaderLike /\ t.pc = "waiting" /\ t.source = s.source
        /\ t.lockedSpan = s.lockedSpan /\ t.outputStream = s.outputStream
        /\ t.after = s.after /\ t.bytesRemaining = s.bytesRemaining /\ t.key = s.key
    BY <2>1 DEF ReaderLike
  <2> HIDE DEF t
  <2> QED
    BY <1>2, <1>3, <1>4, <2>1, <2>2, NextSteps
<1>5. CASE Bypasses(r, s)
  BY <1>2, <1>3, <1>5, BypassesSteps
<1> QED
  BY <1>4, <1>5 DEF IsLocked

LEMMA LocksSteps ==
  ASSUME IInv, NEW r \in Readers, At(r, "next"), unread = {}, unread' = unread,
         Locks(r, reader[r], Looked(cache, reader[r].key, reader[r].readPosition))
  PROVE  IInv'
<1> DEFINE s == reader[r]
           c == Looked(cache, s.key, s.readPosition)
           hole == HoleLength(c, s.key, s.readPosition)
           n == IF hole = -1 THEN s.bytesRemaining ELSE Least(hole, s.bytesRemaining)
           t == [s EXCEPT !.pc = "opening", !.source = "tee", !.lockedSpan = TRUE,
                          !.left = n]
<1>1. Shrinks(cache, c) /\ Sound(c)
  BY LookedShrinks, ShrinksIsSound DEF IInv
<1>2. /\ Covering(c, s.key, s.readPosition) = {}
      /\ lockedSpans[s.key] = "nobody"
      /\ cache' = c
      /\ lockedSpans' = [lockedSpans EXCEPT ![s.key] = r]
      /\ GoesOn(r, t)
  BY DEF Locks
<1>3. /\ s \in ReaderLike /\ ~s.outputStream
      /\ s.after = "read" /\ ~HasFile(s) /\ s.bytesRemaining > 0 /\ s.key \in Keys
  BY AtNext
<1>4. ~HasFile(reader[r])
  BY <1>3
<1> HIDE DEF s, c
<1>5. s.readPosition \in Nat /\ s.bytesRemaining \in Int
  BY <1>3 DEF ReaderLike
<1>6. /\ hole = -1 => \A to \in Int : Free(c, s.key, s.readPosition, to)
      /\ hole # -1 => /\ hole \in Nat /\ hole > 0
                      /\ Free(c, s.key, s.readPosition, s.readPosition + hole)
  BY <1>1, <1>2, <1>5, HoleIsFree
<1> HIDE DEF hole
<1>7. n \in Int /\ n > 0
  BY <1>3, <1>5, <1>6 DEF Least
<1>8. Free(c, s.key, s.readPosition, s.readPosition + n)
  <2>1. CASE hole = -1
    BY <1>5, <1>6, <1>7, <2>1
  <2>2. CASE hole # -1
    <3>1. n <= hole
      BY <1>5, <1>6, <2>2 DEF Least
    <3>2. \A u \in c.cachedSpans : u.position \in Nat
      BY <1>1 DEF Sound, IsCache, Part
    <3> HIDE DEF n
    <3> QED
      BY <1>5, <1>6, <1>7, <2>2, <3>1, <3>2 DEF Free
  <2> QED
    BY <2>1, <2>2
<1> HIDE DEF n
<1>9. /\ t \in ReaderLike /\ t.pc = "opening" /\ t.source = "tee" /\ t.lockedSpan
      /\ t.key = s.key /\ t.readPosition = s.readPosition /\ t.left = n
      /\ t.outputStream = s.outputStream /\ t.after = s.after
  BY <1>3, <1>7 DEF ReaderLike
<1> HIDE DEF t
<1>10. lockedSpans \in [Keys -> Readers \cup {"nobody"}]
  BY DEF IInv, Typed
<1>11. lockedSpans' \in [Keys -> Readers \cup {"nobody"}] /\ lockedSpans'[s.key] = r
  BY <1>2, <1>3, <1>10
<1>12. \A k \in Keys : lockedSpans[k] \notin {r, "nobody"}
                         => lockedSpans'[k] = lockedSpans[k]
  BY <1>2, <1>10
<1>13. Holds(r, t, lockedSpans', unread)
  BY <1>3, <1>9, <1>11 DEF Holds
<1>14. Goes(t)
  BY <1>3, <1>7, <1>9 DEF Goes
<1>15. ~HasFile(t) /\ Base(t) = t.readPosition
  BY <1>3, <1>9 DEF HasFile, Base
<1>16. Writes(t, cache')
  BY <1>2, <1>8, <1>9, <1>15 DEF Writes
<1>17. Follows(cache, cache', {})
  BY <1>1, <1>2, ShrinksFollows DEF IInv
<1>18. \A f \in cache'.files \ cache'.cachedSpans :
         f.key \in {} \/ Owns(r, reader[r], lockedSpans, f)
           => Owns(r, t, lockedSpans', f)
  BY <1>4 DEF Owns
<1> QED
  BY <1>2, <1>9, <1>11, <1>12, <1>13, <1>14, <1>16, <1>17, <1>18, GoesOnSteps

LEMMA startReadWriteSteps ==
  ASSUME IInv, NEW r \in Readers, startReadWrite(r)
  PROVE  IInv'
<1> DEFINE s == reader[r]
           c == Looked(cache, s.key, s.readPosition)
<1>1. At(r, "next") /\ unread' = unread
  BY DEF startReadWrite
<1>2. CASE s.ignoreCache /\ Bypasses(r, s) /\ UNCHANGED <<cache, lockedSpans>>
  <2>1. Follows(cache, cache', {})
    <3>1. Follows(cache, cache, {})
      BY ShrinksToItself, ShrinksFollows DEF IInv
    <3> QED
      BY <1>2, <3>1
  <2> QED
    BY <1>1, <1>2, <2>1, BypassesSteps
<1>3. CASE unread = {} /\ Finds(r, s, c)
  BY <1>1, <1>3, FindsSteps
<1>4. CASE unread = {} /\ Locks(r, s, c)
  BY <1>1, <1>4, LocksSteps
<1>5. CASE unread = {} /\ IsLocked(r, s, c)
  BY <1>1, <1>5, IsLockedSteps
<1> HIDE DEF c
<1> QED
  BY <1>2, <1>3, <1>4, <1>5 DEF startReadWrite, Monitor, c

LEMMA InterruptedSteps ==
  ASSUME IInv, NEW r \in Readers, Interrupted(r)
  PROVE  IInv'
<1> DEFINE s == reader[r]
           t == [s EXCEPT !.pc = "failed"]
<1>1. /\ s \in ReaderLike /\ s.pc = "waiting"
      /\ Holds(r, s, lockedSpans, unread) /\ Goes(s)
  BY ReaderFacts DEF Interrupted, At
<1>2. GoesOn(r, t) /\ UNCHANGED <<cache, lockedSpans, unread>>
  BY DEF Interrupted
<1> HIDE DEF s
<1>3. /\ ~s.lockedSpan /\ ~s.outputStream /\ s.source # "tee" /\ s.after = "read"
      /\ ~HasFile(s) /\ s.key \in Keys
  BY <1>1 DEF Holds, Goes, HasFile, ReaderLike
<1>4. /\ t \in ReaderLike /\ t.pc = "failed"
      /\ t.lockedSpan = s.lockedSpan /\ t.outputStream = s.outputStream
      /\ t.source = s.source /\ t.after = s.after /\ t.key = s.key
  BY <1>1 DEF ReaderLike
<1> HIDE DEF t
<1>5. Holds(r, t, lockedSpans, unread) /\ Goes(t) /\ Writes(t, cache)
  BY <1>3, <1>4, WithoutHole
<1> QED
  BY <1>2, <1>3, <1>4, <1>5, QuietSteps DEF s

\* A reader elsewhere with the same source, hole and file.
SameHole(s, t) ==
  /\ t.key = s.key /\ t.readPosition = s.readPosition /\ t.left = s.left
  /\ t.source = s.source /\ t.lockedSpan = s.lockedSpan
  /\ t.file = s.file /\ t.outputStream = s.outputStream /\ t.after = s.after

LEMMA HoleIsKept ==
  ASSUME NEW s \in ReaderLike, NEW t \in ReaderLike, SameHole(s, t),
         NEW r, NEW locks, NEW rest, NEW c,
         Holds(r, s, locks, rest), Goes(s), Writes(s, c),
         s.pc \in {"opening", "open", "writing"},
         \/ t.pc = "failed"
         \/ t.pc = "open" /\ s.pc = "opening" /\ s.source # "tee"
         \/ t.pc = "starting" /\ s.pc = "opening" /\ s.source = "tee"
         \/ t.pc = "writing" /\ s.pc = "open" /\ s.outputStream /\ s.left > 0
  PROVE  /\ Holds(r, t, locks, rest) /\ Goes(t) /\ Writes(t, c)
         /\ HasFile(s) => HasFile(t) /\ t.file = s.file
<1>1. s.after = "read"
  BY DEF Goes, ReaderLike
<1>2. Holds(r, t, locks, rest)
  BY DEF Holds, SameHole
<1>3. Goes(t)
  BY <1>1 DEF Goes, SameHole
<1>4. /\ HasFile(s) <=> HasFile(t)
      /\ Base(s) = Base(t)
  BY DEF HasFile, Base, SameHole
<1>5. Writes(t, c)
  <2>1. t.lockedSpan /\ t.pc # "releasing"
          => Free(c, t.key, Base(t), t.readPosition + t.left)
    BY <1>4 DEF Writes, SameHole
  <2>2. HasFile(t) => t.file.key = t.key /\ t.file.position <= t.readPosition
    BY <1>4 DEF Writes, SameHole
  <2>3. HasFile(t) => s.pc \in {"open", "writing"}
    BY <1>4 DEF Holds, HasFile
  <2>4. HasFile(t) /\ t.left > 0 =>
          \A f \in c.files : IsNamed(t.file, f) => End(f) <= t.readPosition
    BY <1>4, <2>3 DEF Writes, SameHole
  <2> QED
    BY <2>1, <2>2, <2>4 DEF Writes
<1> QED
  BY <1>2, <1>3, <1>4, <1>5 DEF SameHole

\* A step with no effect on the hole.
LEMMA KeepingSteps ==
  ASSUME IInv, NEW r \in Readers, NEW t \in ReaderLike, GoesOn(r, t),
         UNCHANGED <<cache, lockedSpans, unread>>, SameHole(reader[r], t),
         reader[r].pc \in {"opening", "open", "writing"},
         \/ t.pc = "failed"
         \/ t.pc = "open" /\ reader[r].pc = "opening" /\ reader[r].source # "tee"
         \/ t.pc = "starting" /\ reader[r].pc = "opening" /\ reader[r].source = "tee"
         \/ t.pc = "writing" /\ reader[r].pc = "open" /\ reader[r].outputStream
              /\ reader[r].left > 0
  PROVE  IInv'
<1> DEFINE s == reader[r]
<1>1. s \in ReaderLike /\ Holds(r, s, lockedSpans, unread) /\ Goes(s) /\ Writes(s, cache)
  BY ReaderFacts
<1>2. SameHole(s, t)
  OBVIOUS
<1>3. /\ s.pc \in {"opening", "open", "writing"}
      /\ \/ t.pc = "failed"
         \/ t.pc = "open" /\ s.pc = "opening" /\ s.source # "tee"
         \/ t.pc = "starting" /\ s.pc = "opening" /\ s.source = "tee"
         \/ t.pc = "writing" /\ s.pc = "open" /\ s.outputStream /\ s.left > 0
  OBVIOUS
<1> HIDE DEF s
<1>4. /\ Holds(r, t, lockedSpans, unread) /\ Goes(t) /\ Writes(t, cache)
      /\ HasFile(s) => HasFile(t) /\ t.file = s.file
  BY <1>1, <1>2, <1>3, HoleIsKept
<1> QED
  BY <1>4, QuietSteps DEF s

LEMMA FailsLike ==
  ASSUME NEW s \in ReaderLike, NEW b \in BOOLEAN
  PROVE  LET t == [s EXCEPT !.pc = "failed", !.ignoreCache = @ \/ b]
         IN  t \in ReaderLike /\ t.pc = "failed" /\ SameHole(s, t)
BY DEF ReaderLike, SameHole

LEMMA FailsSteps ==
  ASSUME IInv, NEW r \in Readers, NEW b \in BOOLEAN, Fails(r, reader[r], b),
         UNCHANGED <<cache, lockedSpans, unread>>,
         reader[r].pc \in {"opening", "open", "writing"}
  PROVE  IInv'
<1> DEFINE s == reader[r]
           o == ignoreCacheOnError[r] /\ b
           t == [s EXCEPT !.pc = "failed", !.ignoreCache = @ \/ o]
<1>1. s \in ReaderLike
  BY ReaderFacts
<1>2. o \in BOOLEAN
  OBVIOUS
<1>3. GoesOn(r, t)
  BY DEF Fails
<1> HIDE DEF s, o
<1>4. t \in ReaderLike /\ t.pc = "failed" /\ SameHole(s, t)
  BY <1>1, <1>2, FailsLike
<1> HIDE DEF t
<1> QED
  BY <1>3, <1>4, KeepingSteps DEF s

LEMMA OpenSourceSteps ==
  ASSUME IInv, NEW r \in Readers, OpenSource(r)
  PROVE  IInv'
<1> DEFINE s == [reader[r] EXCEPT !.found = NoFile]
           b == reader[r].source = "cache"
           o == ignoreCacheOnError[r] /\ b
           p == IF s.source = "tee" THEN "starting" ELSE "open"
           t == [s EXCEPT !.pc = p]
           u == [s EXCEPT !.pc = "failed", !.ignoreCache = @ \/ o]
<1>1. reader[r] \in ReaderLike /\ reader[r].pc = "opening"
  BY ReaderFacts DEF OpenSource, At
<1>2. NoFile \in Part
  BY CacheAssumption DEF NoFile, Part
<1>3. s \in ReaderLike /\ SameHole(reader[r], s) /\ s.pc = "opening"
  BY <1>1, <1>2 DEF ReaderLike, SameHole
<1>4. UNCHANGED <<cache, lockedSpans, unread>>
  BY DEF OpenSource
<1>5. GoesOn(r, t) \/ GoesOn(r, u)
  BY <1>3 DEF OpenSource, Fails, ReaderLike
<1>6. o \in BOOLEAN
  OBVIOUS
<1> HIDE DEF s, o
<1>7. u \in ReaderLike /\ u.pc = "failed" /\ SameHole(s, u)
  BY <1>3, <1>6, FailsLike
<1>8. t \in ReaderLike /\ t.pc = p /\ SameHole(s, t)
  BY <1>3 DEF ReaderLike, SameHole
<1>9. SameHole(reader[r], u) /\ SameHole(reader[r], t) /\ s.source = reader[r].source
  BY <1>3, <1>7, <1>8 DEF SameHole
<1> HIDE DEF u, t
<1> QED
  BY <1>1, <1>4, <1>5, <1>7, <1>8, <1>9, KeepingSteps

LEMMA GotLike ==
  ASSUME NEW s \in ReaderLike
  PROVE  LET t == Got(s)
         IN  /\ t \in ReaderLike /\ t.pc = "open"
             /\ t.readPosition = s.readPosition + 1 /\ t.left = s.left - 1
             /\ t.key = s.key /\ t.source = s.source /\ t.lockedSpan = s.lockedSpan
             /\ t.file = s.file /\ t.outputStream = s.outputStream /\ t.after = s.after
<1> DEFINE p == s.readPosition + 1
           b == s.bytesRemaining - 1
           l == s.left - 1
           t == [s EXCEPT !.pc = "open", !.readPosition = p, !.bytesRemaining = b,
                          !.left = l]
<1>1. p \in Nat /\ b \in Int /\ l \in Int
  BY DEF ReaderLike
<1>2. t = Got(s)
  BY DEF Got
<1> HIDE DEF p, b, l
<1>3. /\ t \in ReaderLike /\ t.pc = "open"
      /\ t.readPosition = p /\ t.left = l
      /\ t.key = s.key /\ t.source = s.source /\ t.lockedSpan = s.lockedSpan
      /\ t.file = s.file /\ t.outputStream = s.outputStream /\ t.after = s.after
  BY <1>1 DEF ReaderLike
<1> QED
  BY <1>2, <1>3 DEF p, l

LEMMA GotIsKept ==
  ASSUME NEW s \in ReaderLike, s.pc \in {"open", "writing"}, s.left > 0,
         NEW c, NEW d, Sound(c), d.cachedSpans = c.cachedSpans,
         NEW r, NEW locks, NEW rest,
         Holds(r, s, locks, rest), Goes(s), Writes(s, c),
         HasFile(s) => \A f \in d.files :
                         IsNamed(s.file, f) => End(f) <= s.readPosition + 1
  PROVE  /\ Holds(r, Got(s), locks, rest) /\ Goes(Got(s)) /\ Writes(Got(s), d)
         /\ HasFile(s) => HasFile(Got(s)) /\ Got(s).file = s.file
<1> DEFINE t == Got(s)
<1>1. /\ t \in ReaderLike /\ t.pc = "open"
      /\ t.readPosition = s.readPosition + 1 /\ t.left = s.left - 1
      /\ t.key = s.key /\ t.source = s.source /\ t.lockedSpan = s.lockedSpan
      /\ t.file = s.file /\ t.outputStream = s.outputStream /\ t.after = s.after
  BY GotLike
<1> HIDE DEF t
<1>2. s.after = "read"
  BY DEF Goes, ReaderLike
<1>3. Holds(r, t, locks, rest)
  BY <1>1 DEF Holds
<1>4. Goes(t)
  BY <1>1, <1>2 DEF Goes
<1>5. HasFile(s) <=> HasFile(t)
  BY <1>1 DEF HasFile
<1>6. s.readPosition \in Nat /\ s.left \in Int /\ s.file.position \in Nat
  BY DEF ReaderLike, Part
<1>7. t.readPosition + t.left = s.readPosition + s.left
  BY <1>1, <1>6
<1>8. \A x \in c.cachedSpans : End(x) \in Nat
  BY DEF Sound, IsCache, Part, End
<1>9. t.lockedSpan => Free(d, t.key, Base(t), t.readPosition + t.left)
  <2> SUFFICES ASSUME t.lockedSpan
               PROVE  Free(d, s.key, Base(t), s.readPosition + s.left)
    BY <1>1, <1>7
  <2>1. Free(c, s.key, Base(s), s.readPosition + s.left)
    BY <1>1 DEF Writes
  <2>2. Base(s) \in Nat /\ Base(t) \in Nat /\ Base(s) <= Base(t)
    BY <1>1, <1>5, <1>6 DEF Base
  <2> QED
    BY <1>8, <2>1, <2>2 DEF Free
<1>10. HasFile(t) => t.file.key = t.key /\ t.file.position <= t.readPosition
  BY <1>1, <1>5, <1>6 DEF Writes
<1>11. Writes(t, d)
  BY <1>1, <1>5, <1>9, <1>10 DEF Writes
<1> QED
  BY <1>1, <1>3, <1>4, <1>5, <1>11 DEF t

LEMMA ReadBlockSteps ==
  ASSUME IInv, NEW r \in Readers, ReadBlock(r)
  PROVE  IInv'
<1> DEFINE s == reader[r]
           t == [s EXCEPT !.pc = "writing"]
           b == s.source = "cache"
<1>1. /\ s \in ReaderLike /\ s.pc = "open" /\ s.left > 0
      /\ Holds(r, s, lockedSpans, unread) /\ Goes(s) /\ Writes(s, cache)
  BY ReaderFacts DEF ReadBlock, At
<1>2. UNCHANGED <<cache, lockedSpans, unread>>
  BY DEF ReadBlock
<1>3. CASE GoesOn(r, Got(s))
  <2>1. Sound(cache) /\ s.readPosition \in Nat
    BY <1>1 DEF IInv, ReaderLike
  <2>2. \A f \in cache.files : f \in Part
    BY <2>1 DEF Sound, IsCache
  <2>3. HasFile(s) => \A f \in cache.files :
                        IsNamed(s.file, f) => End(f) <= s.readPosition + 1
    BY <1>1, <2>1, <2>2 DEF Writes, End, Part
  <2> HIDE DEF s
  <2>4. /\ Holds(r, Got(s), lockedSpans, unread) /\ Goes(Got(s)) /\ Writes(Got(s), cache)
        /\ HasFile(s) => HasFile(Got(s)) /\ Got(s).file = s.file
    BY <1>1, <2>1, <2>3, GotIsKept
  <2>5. Got(s) \in ReaderLike
    BY <1>1, GotLike
  <2> QED
    BY <1>2, <1>3, <2>4, <2>5, QuietSteps DEF s
<1>4. CASE s.source = "tee" /\ GoesOn(r, t)
  <2>1. s.outputStream
    BY <1>1, <1>4 DEF Goes
  <2>2. t \in ReaderLike /\ t.pc = "writing" /\ SameHole(s, t)
    BY <1>1 DEF ReaderLike, SameHole
  <2> HIDE DEF t
  <2> QED
    BY <1>1, <1>2, <1>4, <2>1, <2>2, KeepingSteps
<1>5. CASE Fails(r, s, b)
  <2>1. b \in BOOLEAN
    OBVIOUS
  <2> HIDE DEF b
  <2> QED
    BY <1>1, <1>2, <1>5, <2>1, FailsSteps
<1> QED
  BY <1>3, <1>4, <1>5 DEF ReadBlock

\* The files of a stream with a hole that is held.
LEMMA FilesOfHole ==
  ASSUME IInv, NEW r \in Readers, reader[r].lockedSpan,
         NEW f \in cache.files, f.key = reader[r].key
  PROVE  \/ f \in cache.cachedSpans
         \/ HasFile(reader[r]) /\ IsNamed(reader[r].file, f)
<1>1. unread = {} /\ lockedSpans[f.key] = r
  BY ReaderFacts DEF Holds
<1>2. f \in cache.cachedSpans \cup unread
      \/ \E x \in Readers : Owns(x, reader[x], lockedSpans, f)
  BY Known DEF IInv
<1> QED
  BY <1>1, <1>2 DEF Owns

\* A block is put behind the file.
LEMMA GrownInHole ==
  ASSUME IInv, NEW r \in Readers, At(r, "writing")
  PROVE  LET s == reader[r]
             d == Grown(cache, s.file)
         IN  /\ Follows(cache, d, {s.key})
             /\ d.cachedSpans = cache.cachedSpans
             /\ \A f \in d.files : IsNamed(s.file, f) => End(f) <= s.readPosition + 1
             /\ \A f \in d.files \ d.cachedSpans : f.key = s.key => IsNamed(s.file, f)
             /\ unread = {}
<1> DEFINE s == reader[r]
           file == s.file
           n == s.readPosition
           to == n + s.left
<1>1. /\ s \in ReaderLike /\ s.pc = "writing"
      /\ Holds(r, s, lockedSpans, unread) /\ Goes(s) /\ Writes(s, cache)
  BY ReaderFacts DEF At
<1>2. s.left > 0 /\ s.outputStream /\ s.lockedSpan /\ HasFile(s) /\ unread = {}
  BY <1>1 DEF Goes, Holds, HasFile
<1>3. \A f \in cache.files :
        f.key = s.key => f \in cache.cachedSpans \/ IsNamed(file, f)
  BY <1>2, FilesOfHole
<1> HIDE DEF s
<1>4. file \in Part /\ n \in Int /\ to \in Int /\ n < to
  BY <1>1, <1>2 DEF ReaderLike
<1>5. /\ file.key = s.key /\ file.position <= n
      /\ Free(cache, file.key, file.position, to)
      /\ \A f \in cache.files : IsNamed(file, f) => End(f) <= n
  BY <1>1, <1>2 DEF Writes, Base
<1> HIDE DEF file, n, to
<1>6. Sound(cache)
  BY DEF IInv
<1> DEFINE d == Grown(cache, file)
<1>7. /\ Follows(cache, d, {file.key})
      /\ d.cachedSpans = cache.cachedSpans
      /\ \A f \in d.files : IsNamed(file, f) => End(f) <= n + 1
      /\ \A f \in d.files : f.key = file.key => f \in d.cachedSpans \/ IsNamed(file, f)
  BY <1>3, <1>4, <1>5, <1>6, GrownFollows
<1> HIDE DEF d
<1>8. \A f \in d.files \ d.cachedSpans : f.key = s.key => IsNamed(file, f)
  BY <1>5, <1>7
<1> QED
  BY <1>2, <1>5, <1>7, <1>8 DEF d, n, file, s

\* Its steps.
LEMMA GrownSteps ==
  ASSUME IInv, NEW r \in Readers, At(r, "writing"), NEW t \in ReaderLike, GoesOn(r, t),
         UNCHANGED <<lockedSpans, unread>>,
         cache' = Grown(cache, reader[r].file),
         Holds(r, t, lockedSpans, unread), Goes(t), Writes(t, cache'),
         t.outputStream, t.file = reader[r].file
  PROVE  IInv'
<1> DEFINE s == reader[r]
           K == {s.key}
<1>1. /\ Follows(cache, cache', K)
      /\ \A f \in cache'.files \ cache'.cachedSpans : f.key = s.key => IsNamed(s.file, f)
      /\ unread = {}
  BY GrownInHole
<1>2. /\ s.pc = "writing" /\ Holds(r, s, lockedSpans, unread) /\ Writes(s, cache)
      /\ Goes(s)
  BY ReaderFacts DEF At
<1>3. s.lockedSpan /\ lockedSpans[s.key] = r
  BY <1>2 DEF Holds
<1>4. \A f \in cache'.files \ cache'.cachedSpans :
        f.key \in K \/ Owns(r, reader[r], lockedSpans, f) => Owns(r, t, lockedSpans', f)
  <2> SUFFICES ASSUME NEW f \in cache'.files \ cache'.cachedSpans,
                      f.key \in K \/ Owns(r, s, lockedSpans, f)
               PROVE  Owns(r, t, lockedSpans', f)
    OBVIOUS
  <2>1. IsNamed(s.file, f)
    BY <1>1 DEF Owns
  <2>2. lockedSpans[f.key] = r
    BY <1>3 DEF Owns
  <2>3. HasFile(t)
    BY DEF HasFile
  <2> QED
    BY <2>1, <2>2, <2>3 DEF Owns
<1>5. lockedSpans' \in [Keys -> Readers \cup {"nobody"}]
  BY DEF IInv, Typed
<1> HIDE DEF K
<1>6. K = {} \/ (reader[r].lockedSpan /\ K = {reader[r].key})
  BY <1>3 DEF K
<1> QED
  BY <1>1, <1>4, <1>5, <1>6, GoesOnSteps

LEMMA WriteSteps ==
  ASSUME IInv, NEW r \in Readers, Write(r)
  PROVE  IInv'
<1> DEFINE s == reader[r]
           t == [s EXCEPT !.pc = "committing", !.outputStream = FALSE, !.after = "write"]
           o == ignoreCacheOnError[r] /\ TRUE
           u == [s EXCEPT !.pc = "failed", !.ignoreCache = @ \/ o]
<1>1. /\ s \in ReaderLike /\ s.pc = "writing"
      /\ Holds(r, s, lockedSpans, unread) /\ Goes(s) /\ Writes(s, cache)
  BY ReaderFacts DEF Write, At
<1>2. UNCHANGED <<lockedSpans, unread>> /\ At(r, "writing")
  BY DEF Write
<1>3. s.left > 0 /\ s.outputStream /\ s.lockedSpan /\ s.after = "read"
  BY <1>1 DEF Goes, Holds, ReaderLike
<1>4. CASE GoesOn(r, t) /\ UNCHANGED cache
  <2>1. s = reader[r]
    OBVIOUS
  <2> HIDE DEF s
  <2>2. /\ t \in ReaderLike /\ t.pc = "committing" /\ ~t.outputStream /\ t.after = "write"
        /\ t.key = s.key /\ t.readPosition = s.readPosition /\ t.left = s.left
        /\ t.lockedSpan = s.lockedSpan /\ t.file = s.file /\ t.source = s.source
    BY <1>1 DEF ReaderLike
  <2> HIDE DEF t
  <2>3. HasFile(s) /\ HasFile(t) /\ Base(s) = Base(t)
    BY <1>3, <2>2 DEF HasFile, Base
  <2>4. Holds(r, t, lockedSpans, unread)
    BY <1>1, <1>3, <2>2 DEF Holds
  <2>5. Goes(t)
    BY <1>1, <1>3, <2>2 DEF Goes
  <2>6. Writes(t, cache)
    BY <1>1, <1>3, <2>2, <2>3 DEF Writes
  <2> QED
    BY <1>2, <1>4, <2>1, <2>2, <2>3, <2>4, <2>5, <2>6, QuietSteps
<1>5. CASE GoesOn(r, Got(s)) /\ cache' = Grown(cache, s.file)
  <2> DEFINE v == Got(s)
  <2>1. /\ Sound(cache)
        /\ cache'.cachedSpans = cache.cachedSpans
        /\ \A f \in cache'.files : IsNamed(s.file, f) => End(f) <= s.readPosition + 1
    BY <1>2, <1>5, GrownInHole DEF IInv
  <2>2. s = reader[r]
    OBVIOUS
  <2> HIDE DEF s
  <2>3. Holds(r, v, lockedSpans, unread) /\ Goes(v) /\ Writes(v, cache')
    BY <1>1, <1>3, <2>1, GotIsKept
  <2>4. v \in ReaderLike /\ v.outputStream /\ v.file = s.file
    BY <1>1, <1>3, GotLike
  <2> HIDE DEF v
  <2>5. GoesOn(r, v)
    BY <1>5 DEF v
  <2> QED
    BY <1>2, <1>5, <2>2, <2>3, <2>4, <2>5, GrownSteps
<1>6. CASE Fails(r, s, TRUE) /\ cache' \in {cache, Grown(cache, s.file)}
  <2>1. GoesOn(r, u)
    BY <1>6 DEF Fails
  <2>2. o \in BOOLEAN
    OBVIOUS
  <2>3. Sound(cache) /\ s = reader[r]
    BY DEF IInv
  <2>4. CASE cache' = cache
    BY <1>1, <1>2, <1>6, <2>4, FailsSteps
  <2>5. CASE cache' = Grown(cache, s.file)
    <3>1. Follows(cache, cache', {s.key}) /\ cache'.cachedSpans = cache.cachedSpans
      BY <1>2, <2>5, GrownInHole
    <3> HIDE DEF s, o
    <3>2. u \in ReaderLike /\ u.pc = "failed" /\ SameHole(s, u)
      BY <1>1, <2>2, FailsLike
    <3> HIDE DEF u
    <3>3. Holds(r, u, lockedSpans, unread) /\ Goes(u) /\ Writes(u, cache)
      BY <1>1, <3>2, HoleIsKept
    <3>4. u.after = "read" /\ u.outputStream /\ u.file = s.file
      BY <1>3, <3>2 DEF SameHole
    <3>5. Writes(u, cache')
      BY <3>1, <3>2, <3>3, <3>4 DEF Writes, Free
    <3> QED
      BY <1>2, <2>1, <2>3, <2>5, <3>2, <3>3, <3>4, <3>5, GrownSteps
  <2> QED
    BY <1>6, <2>4, <2>5
<1> QED
  BY <1>4, <1>5, <1>6 DEF Write

LEMMA openNextOutputStreamSteps ==
  ASSUME IInv, NEW r \in Readers, openNextOutputStream(r)
  PROVE  IInv'
<1> DEFINE s == reader[r]
           size == Least(s.left, MaxCacheFileSize)
           c == startFile(cache, size)
           to == s.readPosition + s.left
           K == {s.key}
<1>1. /\ s \in ReaderLike /\ s.pc = "starting"
      /\ Holds(r, s, lockedSpans, unread) /\ Goes(s) /\ Writes(s, cache)
  BY ReaderFacts DEF openNextOutputStream, At
<1>2. UNCHANGED <<lockedSpans, unread>> /\ s = reader[r]
  BY DEF openNextOutputStream
<1>3. /\ s.left > 0 /\ s.lockedSpan /\ ~s.outputStream /\ ~HasFile(s)
      /\ unread = {} /\ s.key \in Keys /\ lockedSpans[s.key] = r
  BY <1>1 DEF Goes, Holds, HasFile
<1>4. Shrinks(cache, c) /\ Sound(c) /\ Sound(cache)
  BY StartShrinks, ShrinksIsSound DEF IInv
<1>5. \A f \in cache.files : f.key = s.key => f \in cache.cachedSpans
  BY <1>3, FilesOfHole
<1>6. Typed /\ lockedSpans' \in [Keys -> Readers \cup {"nobody"}]
  BY <1>2 DEF IInv, Typed
<1>7. \/ \E now \in Times :
           LET f == NewFile(s.key, s.readPosition, now)
           IN  /\ cache' = Created(c, f)
               /\ GoesOn(r, [s EXCEPT !.file = f, !.outputStream = TRUE, !.after = "read",
                             !.pc = IF s.after = "write" THEN "writing" ELSE "open"])
      \/ cache' = c /\ Fails(r, [s EXCEPT !.after = "read"], TRUE)
  BY DEF openNextOutputStream
<1> HIDE DEF s, c
<1>8. s.readPosition \in Nat /\ to \in Int /\ s.readPosition < to
  BY <1>1, <1>3 DEF ReaderLike
<1>9. Free(cache, s.key, s.readPosition, to)
  BY <1>1, <1>3 DEF Writes, Base
<1> HIDE DEF to
<1>10. CASE \E now \in Times :
              LET f == NewFile(s.key, s.readPosition, now)
              IN  /\ cache' = Created(c, f)
                  /\ GoesOn(r, [s EXCEPT !.file = f, !.outputStream = TRUE,
                                !.after = "read",
                                !.pc = IF s.after = "write" THEN "writing" ELSE "open"])
  <2>1. PICK now \in Times :
          LET f == NewFile(s.key, s.readPosition, now)
          IN  /\ cache' = Created(c, f)
              /\ GoesOn(r, [s EXCEPT !.file = f, !.outputStream = TRUE, !.after = "read",
                            !.pc = IF s.after = "write" THEN "writing" ELSE "open"])
    BY <1>10
  <2> DEFINE f == NewFile(s.key, s.readPosition, now)
             p == IF s.after = "write" THEN "writing" ELSE "open"
             t == [s EXCEPT !.file = f, !.outputStream = TRUE, !.after = "read", !.pc = p]
             d == Created(c, f)
  <2>2. cache' = d /\ GoesOn(r, t)
    BY <2>1
  <2>3. f \in Part /\ f.length = 0 /\ f.key = s.key /\ f.position = s.readPosition
    BY <1>3, <1>8 DEF NewFile, Part
  <2> HIDE DEF f
  <2>4. p \in {"writing", "open"}
    OBVIOUS
  <2> HIDE DEF p
  <2>5. /\ t \in ReaderLike /\ t.pc = p /\ t.file = f /\ t.outputStream
        /\ t.after = "read" /\ t.key = s.key /\ t.readPosition = s.readPosition
        /\ t.left = s.left /\ t.lockedSpan = s.lockedSpan /\ t.source = s.source
    BY <1>1, <2>3, <2>4 DEF ReaderLike
  <2> HIDE DEF t
  <2>6. Free(c, f.key, f.position, to)
    BY <1>4, <1>9, <2>3 DEF Free, Shrinks
  <2>7. \A g \in c.files : g.key = f.key => g \in c.cachedSpans
    BY <1>4, <1>5, <2>3 DEF Shrinks
  <2>8. /\ Follows(c, d, {f.key})
        /\ d.cachedSpans = c.cachedSpans
        /\ \A g \in d.files : g.key = f.key => g \in d.cachedSpans \/ g = f
    BY <1>4, <1>8, <2>3, <2>6, <2>7, CreatedFollows
  <2> HIDE DEF d
  <2>9. Follows(cache, d, K)
    BY <1>4, <2>3, <2>8, ShrinksThenFollows
  <2>10. \A g \in d.files : IsNamed(f, g) => End(g) <= s.readPosition
    <3> SUFFICES ASSUME NEW g \in d.files, IsNamed(f, g), g # f
                 PROVE  End(g) <= s.readPosition
      BY <1>8, <2>3 DEF End
    <3>1. g \in c.cachedSpans /\ g.key = f.key /\ g.position = f.position
      BY <2>8 DEF IsNamed
    <3>2. End(g) <= f.position \/ to <= g.position
      BY <2>6, <3>1 DEF Free
    <3> QED
      BY <1>8, <2>3, <3>1, <3>2
  <2>11. HasFile(t) /\ Base(t) = s.readPosition
    BY <2>3, <2>5 DEF HasFile, Base
  <2>12. Holds(r, t, lockedSpans, unread)
    BY <1>1, <1>3, <2>4, <2>5 DEF Holds
  <2>13. Goes(t)
    BY <1>3, <2>4, <2>5 DEF Goes
  <2>14. Free(d, s.key, s.readPosition, s.readPosition + s.left)
    BY <2>3, <2>6, <2>8 DEF Free, to
  <2>15. s.readPosition <= s.readPosition
    BY <1>8
  <2>16. Writes(t, d)
    BY <2>3, <2>5, <2>10, <2>11, <2>14, <2>15 DEF Writes
  <2>17. \A g \in cache'.files \ cache'.cachedSpans :
           g.key \in K \/ Owns(r, reader[r], lockedSpans, g) => Owns(r, t, lockedSpans', g)
    <3> SUFFICES ASSUME NEW g \in d.files \ d.cachedSpans,
                        g.key \in K \/ Owns(r, s, lockedSpans, g)
                 PROVE  Owns(r, t, lockedSpans, g)
      BY <1>2, <2>2
    <3>1. g.key = s.key
      BY <1>3 DEF Owns
    <3>2. g = f
      BY <2>3, <2>8, <3>1
    <3> QED
      BY <1>3, <2>5, <2>11, <3>1, <3>2 DEF Owns, IsNamed
  <2> HIDE DEF K
  <2>18. K = {} \/ (reader[r].lockedSpan /\ K = {reader[r].key})
    BY <1>2, <1>3 DEF K
  <2> QED
    BY <1>2, <1>3, <1>6, <2>2, <2>5, <2>9, <2>12, <2>13, <2>16, <2>17, <2>18, GoesOnSteps
<1>11. CASE cache' = c /\ Fails(r, [s EXCEPT !.after = "read"], TRUE)
  <2> DEFINE u == [s EXCEPT !.after = "read"]
             o == ignoreCacheOnError[r] /\ TRUE
             t == [u EXCEPT !.pc = "failed", !.ignoreCache = @ \/ o]
  <2>1. u \in ReaderLike /\ u.after = "read" /\ u.key = s.key
        /\ u.readPosition = s.readPosition /\ u.left = s.left
        /\ u.source = s.source /\ u.lockedSpan = s.lockedSpan /\ u.file = s.file
        /\ u.outputStream = s.outputStream
    BY <1>1 DEF ReaderLike
  <2>2. GoesOn(r, t)
    BY <1>11 DEF Fails
  <2>3. o \in BOOLEAN
    OBVIOUS
  <2> HIDE DEF u, o
  <2>4. t \in ReaderLike /\ t.pc = "failed" /\ SameHole(u, t)
    BY <2>1, <2>3, FailsLike
  <2> HIDE DEF t
  <2>5. /\ t.after = "read" /\ t.key = s.key
        /\ t.readPosition = s.readPosition /\ t.left = s.left
        /\ t.source = s.source /\ t.lockedSpan = s.lockedSpan
        /\ t.outputStream = s.outputStream
    BY <2>1, <2>4 DEF SameHole
  <2>6. ~HasFile(t) /\ Base(t) = s.readPosition
    BY <1>3, <2>4, <2>5 DEF HasFile, Base
  <2>7. Holds(r, t, lockedSpans, unread) /\ Goes(t)
    BY <1>3, <2>4, <2>5 DEF Holds, Goes
  <2>8. Follows(cache, c, {})
    BY <1>4, ShrinksFollows
  <2>9. Free(c, s.key, s.readPosition, s.readPosition + s.left)
    BY <1>4, <1>9 DEF Free, Shrinks, to
  <2>10. Writes(t, c)
    BY <2>5, <2>6, <2>9 DEF Writes
  <2>11. \A f \in cache'.files \ cache'.cachedSpans :
           f.key \in {} \/ Owns(r, reader[r], lockedSpans, f) => Owns(r, t, lockedSpans', f)
    BY <1>2, <1>3 DEF Owns
  <2> QED
    BY <1>2, <1>3, <1>6, <1>11, <2>2, <2>4, <2>7, <2>8, <2>10, <2>11, GoesOnSteps
<1> QED
  BY <1>7, <1>10, <1>11

LEMMA NewReaderLike ==
  ASSUME NEW b \in BOOLEAN
  PROVE  LET t == [NewReader EXCEPT !.ignoreCache = b]
         IN  /\ t \in ReaderLike
             /\ t.pc = "closed" /\ t.source = "none" /\ t.after = "read"
             /\ ~t.lockedSpan /\ ~t.outputStream
<1>1. NoFile \in Part
  BY CacheAssumption DEF NoFile, Part
<1> HIDE DEF NoFile
<1>2. /\ NewReader \in ReaderLike /\ NewReader.pc = "closed"
      /\ NewReader.source = "none" /\ NewReader.after = "read"
      /\ ~NewReader.lockedSpan /\ ~NewReader.outputStream
  BY <1>1 DEF NewReader, ReaderLike
<1> QED
  BY <1>2 DEF ReaderLike

\* A reader that goes on without a source holds nothing.
LEMMA ResumedHoldsNothing ==
  ASSUME NEW s \in ReaderLike, ~s.outputStream, s.key \in Keys,
         s.after \in {"read", "close"},
         NEW r, NEW locks, NEW rest, NEW c
  PROVE  LET t == Resumed(s)
         IN  t \in ReaderLike /\ ~t.lockedSpan /\ ~HasFile(t) /\ t.pc # "waiting"
             /\ Holds(r, t, locks, rest) /\ Goes(t) /\ Writes(t, c)
<1> DEFINE t == Resumed(s)
<1>1. CASE s.after = "close"
  <2>1. t = [NewReader EXCEPT !.ignoreCache = s.ignoreCache]
    BY <1>1 DEF Resumed, Closed
  <2>2. s.ignoreCache \in BOOLEAN
    BY DEF ReaderLike
  <2> HIDE DEF t
  <2>3. /\ t \in ReaderLike
        /\ t.pc = "closed" /\ t.source = "none" /\ t.after = "read"
        /\ ~t.lockedSpan /\ ~t.outputStream
    BY <2>1, <2>2, NewReaderLike
  <2>4. Holds(r, t, locks, rest) /\ Goes(t) /\ Writes(t, c) /\ ~HasFile(t)
    BY <2>3, WithoutHole
  <2> QED
    BY <2>3, <2>4 DEF t
<1>2. CASE s.after = "read"
  <2> DEFINE p == IF s.bytesRemaining > 0 THEN "next" ELSE "open"
  <2>1. t = [s EXCEPT !.pc = p, !.source = "none", !.left = 0, !.lockedSpan = FALSE,
                      !.file = NoFile]
    BY <1>2 DEF Resumed
  <2>2. NoFile \in Part
    BY CacheAssumption DEF NoFile, Part
  <2>3. p \in {"next", "open"} /\ (p = "next" => s.bytesRemaining > 0)
    OBVIOUS
  <2> HIDE DEF t, p
  <2> DEFINE u == [s EXCEPT !.pc = p, !.source = "none", !.left = 0, !.lockedSpan = FALSE,
                            !.file = NoFile]
  <2>6. u \in ReaderLike
    <3> DEFINE z == 0
               v == [s EXCEPT !.pc = p, !.source = "none", !.left = z]
               w == [v EXCEPT !.lockedSpan = FALSE, !.file = NoFile]
    <3>0. u = w
      OBVIOUS
    <3>2. z \in Int /\ p \in {"next", "open"}
      BY <2>3
    <3> HIDE DEF z
    <3>1. v \in ReaderLike
      BY <3>2 DEF ReaderLike
    <3> HIDE DEF v
    <3>3. w \in ReaderLike
      BY <2>2, <3>1 DEF ReaderLike
    <3> QED
      BY <3>0, <3>3
  <2>7. u.pc = p /\ u.source = "none" /\ ~u.lockedSpan
    BY DEF ReaderLike
  <2>8. /\ u.after = s.after /\ u.outputStream = s.outputStream /\ u.key = s.key
        /\ u.bytesRemaining = s.bytesRemaining
    BY DEF ReaderLike
  <2>4. /\ t \in ReaderLike /\ t.pc = p /\ t.source = "none" /\ t.after = "read"
        /\ ~t.lockedSpan /\ ~t.outputStream /\ t.key = s.key
        /\ t.bytesRemaining = s.bytesRemaining
    BY <1>2, <2>1, <2>6, <2>7, <2>8
  <2>5. Holds(r, t, locks, rest) /\ Goes(t) /\ Writes(t, c) /\ ~HasFile(t)
    BY <2>3, <2>4, WithoutHole
  <2> QED
    BY <2>3, <2>4, <2>5 DEF t
<1> QED
  BY <1>1, <1>2

LEMMA closeCurrentSourceSteps ==
  ASSUME IInv, NEW r \in Readers, NEW s \in ReaderLike, closeCurrentSource(r, s),
         s.pc \in {"open", "failed"}, s.after \in {"read", "close"}, s.key \in Keys,
         Holds(r, s, lockedSpans, unread), Writes(s, cache),
         HasFile(reader[r]) => HasFile(s) /\ s.file = reader[r].file
  PROVE  IInv'
<1>1. UNCHANGED <<cache, lockedSpans, unread>>
  BY DEF closeCurrentSource
<1>2. HasFile(s) <=> s.outputStream
  BY DEF HasFile
<1>3. CASE s.outputStream /\ GoesOn(r, [s EXCEPT !.pc = "committing", !.outputStream = FALSE])
  <2> DEFINE t == [s EXCEPT !.pc = "committing", !.outputStream = FALSE]
  <2>1. /\ t \in ReaderLike /\ t.pc = "committing" /\ ~t.outputStream
        /\ t.after = s.after /\ t.key = s.key /\ t.readPosition = s.readPosition
        /\ t.left = s.left /\ t.lockedSpan = s.lockedSpan /\ t.file = s.file
        /\ t.source = s.source
    BY DEF ReaderLike
  <2> HIDE DEF t
  <2>2. HasFile(t) /\ Base(s) = Base(t)
    BY <1>2, <1>3, <2>1 DEF HasFile, Base
  <2>3. Holds(r, t, lockedSpans, unread)
    BY <1>3, <2>1 DEF Holds
  <2>4. Goes(t)
    BY <2>1 DEF Goes
  <2>5. Writes(t, cache)
    BY <1>2, <1>3, <2>1, <2>2 DEF Writes
  <2>6. GoesOn(r, t)
    BY <1>3 DEF t
  <2> QED
    BY <1>1, <2>1, <2>2, <2>3, <2>4, <2>5, <2>6, QuietSteps
<1>4. CASE ~s.outputStream /\ s.lockedSpan /\ GoesOn(r, [s EXCEPT !.pc = "releasing"])
  <2> DEFINE t == [s EXCEPT !.pc = "releasing"]
  <2>1. /\ t \in ReaderLike /\ t.pc = "releasing" /\ ~t.outputStream
        /\ t.after = s.after /\ t.key = s.key /\ t.lockedSpan = s.lockedSpan
        /\ t.source = s.source
    BY <1>4 DEF ReaderLike
  <2> HIDE DEF t
  <2>2. Holds(r, t, lockedSpans, unread)
    BY <1>4, <2>1 DEF Holds
  <2>3. Goes(t)
    BY <2>1 DEF Goes
  <2>4. Writes(t, cache)
    BY <2>1 DEF Writes, HasFile
  <2>5. GoesOn(r, t)
    BY <1>4 DEF t
  <2> QED
    BY <1>1, <1>2, <1>4, <2>1, <2>2, <2>3, <2>4, <2>5, QuietSteps
<1>5. CASE ~s.outputStream /\ GoesOn(r, Resumed(s))
  <2> DEFINE t == Resumed(s)
  <2>1. t \in ReaderLike /\ Holds(r, t, lockedSpans, unread) /\ Goes(t) /\ Writes(t, cache)
    BY <1>5, ResumedHoldsNothing
  <2> HIDE DEF t
  <2>2. GoesOn(r, t)
    BY <1>5 DEF t
  <2> QED
    BY <1>1, <1>2, <1>5, <2>1, <2>2, QuietSteps
<1> QED
  BY <1>3, <1>4, <1>5 DEF closeCurrentSource

LEMMA ClosingSteps ==
  ASSUME IInv, NEW r \in Readers, ReadEnd(r) \/ Close(r)
  PROVE  IInv'
<1> DEFINE s == reader[r]
           t == [s EXCEPT !.after = "close"]
<1>1. /\ s \in ReaderLike /\ s.pc \in {"open", "failed"}
      /\ Holds(r, s, lockedSpans, unread) /\ Goes(s) /\ Writes(s, cache)
  BY ReaderFacts DEF ReadEnd, Close, At
<1>2. s.after = "read" /\ s.key \in Keys
  BY <1>1 DEF Goes, ReaderLike
<1>3. CASE closeCurrentSource(r, s)
  BY <1>1, <1>2, <1>3, closeCurrentSourceSteps
<1>4. CASE closeCurrentSource(r, t)
  <2>1. s = reader[r]
    OBVIOUS
  <2> HIDE DEF s
  <2>2. /\ t \in ReaderLike /\ t.after = "close"
        /\ t.pc = s.pc /\ t.key = s.key /\ t.readPosition = s.readPosition
        /\ t.left = s.left /\ t.lockedSpan = s.lockedSpan /\ t.file = s.file
        /\ t.source = s.source /\ t.outputStream = s.outputStream
    BY <1>1 DEF ReaderLike
  <2> HIDE DEF t
  <2>3. (HasFile(t) <=> HasFile(s)) /\ Base(t) = Base(s)
    BY <2>2 DEF HasFile, Base
  <2>4. Holds(r, t, lockedSpans, unread)
    BY <1>1, <2>2 DEF Holds
  <2>5. Writes(t, cache)
    BY <1>1, <1>2, <2>2, <2>3 DEF Writes
  <2> QED
    BY <1>1, <1>2, <1>4, <2>1, <2>2, <2>3, <2>4, <2>5, closeCurrentSourceSteps
<1> QED
  BY <1>3, <1>4 DEF ReadEnd, Close

\* Those who wait are woken.
LEMMA WokenReaders ==
  ASSUME IInv, NEW r \in Readers, NEW t \in ReaderLike, t.pc # "waiting",
         NEW S, S = [reader EXCEPT ![r] = t], reader' \in {S, Woken(S)}
  PROVE  /\ reader' \in [Readers -> ReaderLike]
         /\ reader'[r] = t
         /\ \A x \in Readers \ {r} : Woke(reader[x], reader'[x])
<1>1. reader \in [Readers -> ReaderLike]
  BY DEF IInv, Typed
<1>2. S \in [Readers -> ReaderLike] /\ S[r] = t
      /\ \A x \in Readers \ {r} : S[x] = reader[x]
  BY <1>1
<1>3. \A s \in ReaderLike : [s EXCEPT !.pc = "next"] \in ReaderLike
  BY DEF ReaderLike
<1>4. CASE reader' = S
  <2>1. \A s : Woke(s, s)
    BY DEF Woke
  <2> QED
    BY <1>2, <1>4, <2>1
<1>5. CASE reader' = Woken(S)
  <2>1. reader' = [x \in Readers |-> IF S[x].pc = "waiting" THEN [S[x] EXCEPT !.pc = "next"]
                                     ELSE S[x]]
    BY <1>5 DEF Woken
  <2>2. \A x \in Readers : reader'[x] = IF S[x].pc = "waiting"
                                        THEN [S[x] EXCEPT !.pc = "next"] ELSE S[x]
    BY <2>1
  <2>3. \A x \in Readers : reader'[x] \in ReaderLike
    BY <1>2, <1>3, <2>2
  <2>4. reader' \in [Readers -> ReaderLike]
    BY <2>1, <2>2, <2>3
  <2>5. \A x \in Readers \ {r} : Woke(reader[x], reader'[x])
    BY <1>2, <2>2 DEF Woke
  <2> QED
    BY <1>2, <2>2, <2>4, <2>5
<1> QED
  BY <1>4, <1>5

LEMMA commitFile_Steps ==
  ASSUME IInv, NEW r \in Readers, commitFile_(r)
  PROVE  IInv'
<1> DEFINE s == reader[r]
           file == s.file
           p == IF s.after = "write" THEN "starting" ELSE "releasing"
           t == [s EXCEPT !.pc = p]
           S == [reader EXCEPT ![r] = t]
           K == {s.key}
<1>1. /\ s \in ReaderLike /\ s.pc = "committing"
      /\ Holds(r, s, lockedSpans, unread) /\ Goes(s) /\ Writes(s, cache)
  BY ReaderFacts DEF commitFile_, At
<1>2. UNCHANGED <<lockedSpans, unread>> /\ cache' = commitFile(cache, file)
  BY DEF commitFile_
<1>3. reader' \in {S, Woken(S)}
  <2>1. [reader EXCEPT ![r].pc = p] = S
    OBVIOUS
  <2> QED
    BY <2>1 DEF commitFile_
<1>4. /\ HasFile(s) /\ s.lockedSpan /\ ~s.outputStream /\ file.key = s.key
      /\ unread = {} /\ s.key \in Keys /\ lockedSpans[s.key] = r
  BY <1>1 DEF HasFile, Holds, Writes
<1>5. Sound(cache)
  BY DEF IInv
<1>6. \A f \in cache.files : f.key = s.key => f \in cache.cachedSpans \/ IsNamed(file, f)
  BY <1>4, FilesOfHole
<1>7. s = reader[r]
  OBVIOUS
<1> HIDE DEF s
<1>8. p \in {"starting", "releasing"} /\ (p = "starting" <=> s.after = "write")
  OBVIOUS
<1> HIDE DEF p
<1>9. /\ t \in ReaderLike /\ t.pc = p /\ ~t.outputStream
      /\ t.after = s.after /\ t.key = s.key /\ t.readPosition = s.readPosition
      /\ t.left = s.left /\ t.lockedSpan = s.lockedSpan /\ t.source = s.source
  BY <1>1, <1>4, <1>8 DEF ReaderLike
<1> HIDE DEF t
<1>10. /\ reader' \in [Readers -> ReaderLike]
       /\ reader'[r] = t
       /\ \A x \in Readers \ {r} : Woke(reader[x], reader'[x])
  BY <1>3, <1>8, <1>9, WokenReaders
<1>11. ~HasFile(t)
  BY <1>8, <1>9 DEF HasFile
<1>12. Holds(r, t, lockedSpans, unread)
  BY <1>1, <1>4, <1>8, <1>9 DEF Holds
<1>13. Goes(t)
  BY <1>1, <1>8, <1>9 DEF Goes
<1> DEFINE d == commitFile(cache, file)
<1>14. /\ Follows(cache, d, {file.key})
       /\ d.files \subseteq cache.files
       /\ \A g \in d.files : g \in cache.cachedSpans => g \in d.cachedSpans
       /\ \A g \in d.files : IsNamed(file, g) => g \in d.cachedSpans
       /\ \A g \in d.cachedSpans :
            g \in cache.cachedSpans \/ (g \in cache.files /\ IsNamed(file, g))
  BY <1>5, CommitFollows
<1> HIDE DEF d
<1>15. cache' = d /\ Follows(cache, d, K)
  BY <1>2, <1>4, <1>14 DEF d
<1>16. p = "starting" => Free(d, s.key, s.readPosition, s.readPosition + s.left)
  <2> SUFFICES ASSUME p = "starting", NEW g \in d.cachedSpans, g.key = s.key
               PROVE  End(g) <= s.readPosition \/ s.readPosition + s.left <= g.position
    BY DEF Free
  <2>1. s.left > 0 /\ s.after = "write"
    BY <1>1, <1>8 DEF Goes
  <2>2. CASE g \in cache.cachedSpans
    <3>1. Free(cache, s.key, file.position, s.readPosition + s.left)
      BY <1>1, <1>4 DEF Writes, Base
    <3>2. End(g) <= file.position \/ s.readPosition + s.left <= g.position
      BY <2>2, <3>1 DEF Free
    <3>3. file.position <= s.readPosition
      BY <1>1, <1>4 DEF Writes
    <3>4. End(g) \in Nat
      BY <1>5, <2>2 DEF Sound, IsCache, Part, End
    <3>5. file.position \in Nat /\ s.readPosition \in Nat
      BY <1>1 DEF ReaderLike, Part
    <3> QED
      BY <3>2, <3>3, <3>4, <3>5
  <2>3. CASE g \in cache.files /\ IsNamed(file, g)
    BY <1>1, <1>4, <2>1, <2>3 DEF Writes
  <2> QED
    BY <1>14, <2>2, <2>3
<1>17. Writes(t, d)
  BY <1>8, <1>9, <1>11, <1>16 DEF Writes, Base
<1>18. \A f \in cache'.files \ cache'.cachedSpans :
         f.key \in K \/ Owns(r, reader[r], lockedSpans, f) => Owns(r, reader'[r], lockedSpans', f)
  <2> SUFFICES ASSUME NEW f \in d.files \ d.cachedSpans,
                      f.key = s.key \/ IsNamed(file, f)
               PROVE  FALSE
    BY <1>7, <1>15 DEF Owns
  <2>1. f \in cache.files \ cache.cachedSpans
    BY <1>14
  <2> QED
    BY <1>6, <1>14, <2>1
<1> HIDE DEF K
<1>19. K = {} \/ (reader[r].lockedSpan /\ K = {reader[r].key})
  BY <1>4, <1>7 DEF K
<1>20. lockedSpans' \in [Keys -> Readers \cup {"nobody"}]
  BY <1>2 DEF IInv, Typed
<1> HIDE DEF S
<1> QED
  BY <1>2, <1>4, <1>10, <1>12, <1>13, <1>15, <1>17, <1>18, <1>19, <1>20, ReaderSteps

LEMMA releaseHoleSpanSteps ==
  ASSUME IInv, NEW r \in Readers, releaseHoleSpan(r)
  PROVE  IInv'
<1> DEFINE s == reader[r]
           t == Resumed(s)
           S == [reader EXCEPT ![r] = t]
<1>1. /\ s \in ReaderLike /\ s.pc = "releasing"
      /\ Holds(r, s, lockedSpans, unread) /\ Goes(s)
  BY ReaderFacts DEF releaseHoleSpan, At
<1>2. /\ UNCHANGED <<cache, unread>>
      /\ lockedSpans[s.key] = r
      /\ lockedSpans' = [lockedSpans EXCEPT ![s.key] = "nobody"]
      /\ reader' = Woken(S)
  BY DEF releaseHoleSpan
<1>3. /\ ~s.outputStream /\ s.after \in {"read", "close"} /\ s.key \in Keys /\ ~HasFile(s)
  BY <1>1 DEF Holds, Goes, HasFile, ReaderLike
<1>4. /\ t \in ReaderLike /\ t.pc # "waiting"
      /\ Holds(r, t, lockedSpans', unread) /\ Goes(t) /\ Writes(t, cache')
  BY <1>1, <1>3, ResumedHoldsNothing
<1>5. S = [reader EXCEPT ![r] = t]
  OBVIOUS
<1>6. ~HasFile(reader[r])
  BY <1>3
<1> HIDE DEF t, S
<1>7. /\ reader' \in [Readers -> ReaderLike]
      /\ reader'[r] = t
      /\ \A x \in Readers \ {r} : Woke(reader[x], reader'[x])
  BY <1>2, <1>4, <1>5, WokenReaders
<1>8. lockedSpans \in [Keys -> Readers \cup {"nobody"}]
  BY DEF IInv, Typed
<1>9. /\ lockedSpans' \in [Keys -> Readers \cup {"nobody"}]
      /\ \A k \in Keys : lockedSpans[k] \notin {r, "nobody"}
                           => lockedSpans'[k] = lockedSpans[k]
  BY <1>2, <1>8
<1>10. Follows(cache, cache', {})
  <2>1. Follows(cache, cache, {})
    BY ShrinksToItself, ShrinksFollows DEF IInv
  <2> QED
    BY <1>2, <2>1
<1>11. \A f \in cache'.files \ cache'.cachedSpans :
         f.key \in {} \/ Owns(r, reader[r], lockedSpans, f)
           => Owns(r, reader'[r], lockedSpans', f)
  BY <1>6 DEF Owns
<1> QED
  BY <1>2, <1>4, <1>7, <1>9, <1>10, <1>11, ReaderSteps

LEMMA ClearSteps ==
  ASSUME IInv, Clear
  PROVE  IInv'
<1> DEFINE d == [cache EXCEPT !.files = {}, !.dirExists = FALSE]
<1>1. unread = {} /\ UNCHANGED <<lockedSpans, unread, reader>> /\ cache' = d
  BY DEF Clear, Monitor
<1>2. Sound(cache)
  BY DEF IInv
<1>3. /\ IsCache(d) /\ d.files = {} /\ d.cachedSpans = cache.cachedSpans
      /\ d.leastRecentlyUsed = cache.leastRecentlyUsed
  BY <1>2 DEF Sound, IsCache
<1> HIDE DEF d
<1>4. Sound(d)
  BY <1>2, <1>3 DEF Sound, Spans
<1>5. \A s : Writes(s, cache) => Writes(s, d)
  BY <1>3 DEF Writes, Free
<1>6. \A r \in Readers : /\ Holds(r, reader'[r], lockedSpans', unread')
                         /\ Goes(reader'[r]) /\ Writes(reader'[r], cache')
  BY <1>1, <1>5, ReaderFacts
<1>7. Unread' /\ FilesAreKnown' /\ Sound(cache')
  BY <1>1, <1>3, <1>4 DEF Unread, FilesAreKnown
<1>8. Typed'
  BY <1>1 DEF IInv, Typed
<1> QED
  BY <1>6, <1>7, <1>8 DEF IInv

\* A process that begins, with the files that there are.
LEMMA NewProcess ==
  ASSUME NEW files \in SUBSET Part,
         \A s, t \in files : IsNamed(s, t) => s = t,
         \A s, t \in files : s # t => Apart(s, t)
  PROVE  /\ Sound(NewCache(files))
         /\ NewCache(files).files = files /\ NewCache(files).cachedSpans = {}
         /\ NewReader \in ReaderLike
         /\ \A r, locks, rest, c : Holds(r, NewReader, locks, rest) /\ Goes(NewReader)
                                   /\ Writes(NewReader, c)
<1> DEFINE c == NewCache(files)
<1>1. /\ IsCache(c) /\ c.files = files /\ c.cachedSpans = {} /\ c.leastRecentlyUsed = {}
  BY DEF NewCache, IsCache
<1> HIDE DEF c
<1>2. Sound(c)
  BY <1>1 DEF Sound, Spans
<1>3. NoFile \in Part
  BY CacheAssumption DEF NoFile, Part
<1> HIDE DEF NoFile
<1>4. /\ NewReader \in ReaderLike /\ NewReader.pc = "closed"
      /\ NewReader.source = "none" /\ NewReader.after = "read"
      /\ ~NewReader.lockedSpan /\ ~NewReader.outputStream
  BY <1>3 DEF NewReader, ReaderLike
<1>5. \A r, locks, rest, d : Holds(r, NewReader, locks, rest) /\ Goes(NewReader)
                             /\ Writes(NewReader, d)
  BY <1>4, WithoutHole
<1> QED
  BY <1>1, <1>2, <1>4, <1>5 DEF c

LEMMA CrashSteps ==
  ASSUME IInv, Crash
  PROVE  IInv'
<1>1. /\ cache' = NewCache(cache.files)
      /\ lockedSpans' = [k \in Keys |-> "nobody"]
      /\ unread' = cache.files
      /\ reader' = [r \in Readers |-> NewReader]
  BY DEF Crash
<1>2. /\ cache.files \in SUBSET Part
      /\ \A s, t \in cache.files : IsNamed(s, t) => s = t
      /\ \A s, t \in cache.files : s # t => Apart(s, t)
  BY DEF IInv, Sound, IsCache, Spans
<1>3. /\ Sound(NewCache(cache.files))
      /\ NewCache(cache.files).files = cache.files
      /\ NewCache(cache.files).cachedSpans = {}
      /\ NewReader \in ReaderLike
      /\ \A r, locks, rest, c : Holds(r, NewReader, locks, rest) /\ Goes(NewReader)
                                /\ Writes(NewReader, c)
  BY <1>2, NewProcess
<1>4. Typed' /\ Sound(cache') /\ Unread' /\ FilesAreKnown'
  BY <1>1, <1>3 DEF Typed, Unread, FilesAreKnown
<1>5. \A r \in Readers : /\ Holds(r, reader'[r], lockedSpans', unread')
                         /\ Goes(reader'[r]) /\ Writes(reader'[r], cache')
  BY <1>1, <1>3
<1> QED
  BY <1>4, <1>5 DEF IInv

LEMMA initializeSteps ==
  ASSUME IInv, initialize
  PROVE  IInv'
<1>1. PICK f \in unread : /\ cache' = initialized(cache, f)
                          /\ unread' = unread \ {f}
                          /\ UNCHANGED <<lockedSpans, reader>>
  BY DEF initialize
<1>2. f \in cache.files /\ Sound(cache) /\ Unread
  BY DEF IInv, Unread
<1> DEFINE d == initialized(cache, f)
<1>3. /\ Sound(d)
      /\ d.files \subseteq cache.files
      /\ d.cachedSpans \subseteq cache.cachedSpans \cup {f}
      /\ \A g \in d.files : g \in cache.cachedSpans \cup {f} => g \in d.cachedSpans
      /\ \A g \in cache.files : g \notin cache.cachedSpans \cup {f} => g \in d.files
  BY <1>2, InitializedFollows
<1>4. cache' = d
  BY <1>1
<1> HIDE DEF d
<1>5. \A r \in Readers : ~reader[r].lockedSpan /\ ~HasFile(reader[r])
  BY ReaderFacts DEF Holds
<1>6. \A r \in Readers : /\ Holds(r, reader'[r], lockedSpans', unread')
                         /\ Goes(reader'[r]) /\ Writes(reader'[r], cache')
  <2> SUFFICES ASSUME NEW r \in Readers
               PROVE  /\ Holds(r, reader[r], lockedSpans, unread')
                      /\ Goes(reader[r]) /\ Writes(reader[r], cache')
    BY <1>1
  <2>1. ~reader[r].lockedSpan /\ ~HasFile(reader[r])
    BY <1>5
  <2>2. Holds(r, reader[r], lockedSpans, unread) /\ Goes(reader[r])
    BY ReaderFacts
  <2> QED
    BY <2>1, <2>2 DEF Holds, Writes
<1>7. Unread'
  BY <1>1, <1>2, <1>3, <1>4 DEF Unread
<1>8. FilesAreKnown'
  <2> SUFFICES ASSUME NEW g \in d.files
               PROVE  g \in d.cachedSpans \/ g \in unread'
    BY <1>4 DEF FilesAreKnown
  <2>1. g \in cache.cachedSpans \cup unread \/ \E r \in Readers : Owns(r, reader[r], lockedSpans, g)
    BY <1>3, Known DEF IInv
  <2>2. g \in cache.cachedSpans \cup unread
    BY <1>5, <2>1 DEF Owns
  <2> QED
    BY <1>1, <1>3, <2>2
<1>9. Typed'
  BY <1>1 DEF IInv, Typed
<1> QED
  BY <1>3, <1>4, <1>6, <1>7, <1>8, <1>9 DEF IInv
-----------------------------------------------------------------------------
LEMMA Initially ==
  ASSUME Init
  PROVE  IInv
<1>1. /\ Sound(NewCache({})) /\ NewCache({}).files = {}
      /\ NewCache({}).cachedSpans = {}
      /\ NewReader \in ReaderLike
      /\ \A r, locks, rest, c : Holds(r, NewReader, locks, rest) /\ Goes(NewReader)
                                /\ Writes(NewReader, c)
  BY NewProcess
<1>2. Typed /\ Sound(cache) /\ Unread /\ FilesAreKnown
  BY <1>1 DEF Init, Typed, Unread, FilesAreKnown
<1>3. \A r \in Readers : /\ Holds(r, reader[r], lockedSpans, unread)
                         /\ Goes(reader[r]) /\ Writes(reader[r], cache)
  BY <1>1 DEF Init
<1> QED
  BY <1>2, <1>3 DEF IInv

\* Every step keeps the invariant.
LEMMA EveryStep ==
  ASSUME IInv, [Next]_vars
  PROVE  IInv'
<1>1. CASE \E r \in Readers : Open(r) \/ Proceeds(r) \/ Interrupted(r)
  <2>1. PICK r \in Readers : Open(r) \/ Proceeds(r) \/ Interrupted(r)
    BY <1>1
  <2>2. CASE Open(r)
    BY <2>2, OpenSteps
  <2>3. CASE Interrupted(r)
    BY <2>3, InterruptedSteps
  <2>4. CASE startReadWrite(r)
    BY <2>4, startReadWriteSteps
  <2>5. CASE OpenSource(r)
    BY <2>5, OpenSourceSteps
  <2>6. CASE openNextOutputStream(r)
    BY <2>6, openNextOutputStreamSteps
  <2>7. CASE ReadBlock(r)
    BY <2>7, ReadBlockSteps
  <2>8. CASE Write(r)
    BY <2>8, WriteSteps
  <2>9. CASE ReadEnd(r) \/ Close(r)
    BY <2>9, ClosingSteps
  <2>10. CASE commitFile_(r)
    BY <2>10, commitFile_Steps
  <2>11. CASE releaseHoleSpan(r)
    BY <2>11, releaseHoleSpanSteps
  <2> QED
    BY <2>1, <2>2, <2>3, <2>4, <2>5, <2>6, <2>7, <2>8, <2>9, <2>10, <2>11 DEF Proceeds
<1>2. CASE Clear
  BY <1>2, ClearSteps
<1>3. CASE Crash
  BY <1>3, CrashSteps
<1>4. CASE initialize
  BY <1>4, initializeSteps
<1>5. CASE UNCHANGED vars
  <2>1. UNCHANGED <<cache, lockedSpans, unread, reader>>
    BY <1>5 DEF vars
  <2> QED
    BY <2>1 DEF IInv, Typed, Unread, FilesAreKnown, IsWriting, At
<1> QED
  BY <1>1, <1>2, <1>3, <1>4, <1>5 DEF Next

LEMMA Invariance == Spec => []IInv
BY Initially, EveryStep, PTL DEF Spec

\* Whoever writes to the cache holds the hole it writes to, and nobody else
\* believes to: the checkStates of startFile and releaseHoleSpan never fail.
THEOREM HoldersWrite == Spec => []OnlyTheHolderWrites
<1>1. IInv => OnlyTheHolderWrites
  BY ReaderFacts DEF OnlyTheHolderWrites, Holds, At
<1> QED
  BY <1>1, Invariance, PTL

\* No block of a stream is in two spans: isCached and the holes count on that.
THEOREM SpansStayDisjoint == Spec => []SpansAreDisjoint
<1>1. IInv => SpansAreDisjoint
  BY DEF SpansAreDisjoint, IInv, Sound, Spans, Apart
<1> QED
  BY <1>1, Invariance, PTL

\* Every file in the directory is a span in memory, or being written by who holds
\* its key, or not come to by initialize: none is left that nobody will delete.
THEOREM NoFileIsLost == Spec => []FilesAreKnown
<1>1. IInv => FilesAreKnown
  BY DEF IInv
<1> QED
  BY <1>1, Invariance, PTL
-----------------------------------------------------------------------------
(* What cache and evictor count.                                             *)
Length == [s \in Part |-> s.length]

LEMMA SizeIsSum ==
  ASSUME NEW S \in SUBSET Part, IsFiniteSet(S)
  PROVE  SizeOf(S) = Sum(Length, S)
<1> DEFINE Is(it) == it = [T \in SUBSET S |->
                             IF T = {} THEN 0
                             ELSE First(T).length + it[T \ {First(T)}]]
<1>1. ASSUME NEW it PROVE Is(it) <=> IsSum(it, Length, S)
  <2>1. ASSUME NEW T \in SUBSET S, T # {}
        PROVE  First(T).length = Length[First(T)]
    <3>1. First(T) \in T
      BY <2>1 DEF First
    <3>2. First(T) \in Part
      BY <3>1
    <3> HIDE DEF First
    <3> QED BY <3>2 DEF Length
  <2>2. [T \in SUBSET S |->
           IF T = {} THEN 0 ELSE First(T).length + it[T \ {First(T)}]]
        = [T \in SUBSET S |->
             IF T = {} THEN 0 ELSE Length[First(T)] + it[T \ {First(T)}]]
    BY <2>1
  <2> QED BY <2>2 DEF IsSum
<1>2. \E it : Is(it)
  <2> HIDE DEF Is
  <2> QED BY <1>1, SumExists
<1>3. Is(CHOOSE it : Is(it))
  BY <1>2
<1>4. (CHOOSE it : Is(it))[S] = Sum(Length, S)
  <2> HIDE DEF Is
  <2> QED BY <1>1, <1>3, SumIs
<1> QED BY <1>4 DEF SizeOf, MapThenSumSet, MapThenFoldSet, First

LEMMA LengthIs == \A s \in Part : Length[s] = s.length /\ Length[s] \in Nat
BY DEF Length, Part

LEMMA SizeOfParts ==
  ASSUME NEW S \in SUBSET Part, IsFiniteSet(S), NEW P \in SUBSET S
  PROVE  /\ SizeOf(P) \in Nat /\ SizeOf(S \ P) \in Nat
         /\ SizeOf(S) = SizeOf(P) + SizeOf(S \ P)
<1>1. /\ P \in SUBSET Part /\ IsFiniteSet(P)
      /\ S \ P \in SUBSET Part /\ IsFiniteSet(S \ P)
  BY FS_Subset
<1>2. \A s \in S : Length[s] \in Int
  BY LengthIs
<1>3. Sum(Length, S) = Sum(Length, P) + Sum(Length, S \ P)
  BY <1>2, SumOfParts
<1>4. Sum(Length, P) \in Nat /\ Sum(Length, S \ P) \in Nat
  <2>1. \A s \in P : Length[s] \in Nat
    BY LengthIs
  <2>2. \A s \in S \ P : Length[s] \in Nat
    BY LengthIs
  <2> QED BY <1>1, <2>1, <2>2, SumOfLess
<1> QED BY <1>1, <1>3, <1>4, SizeIsSum

LEMMA SizeOfMore ==
  ASSUME NEW S \in SUBSET Part, IsFiniteSet(S), NEW e \in Part, e \notin S
  PROVE  /\ IsFiniteSet(S \cup {e})
         /\ SizeOf(S \cup {e}) = SizeOf(S) + e.length /\ SizeOf(S) \in Nat
<1> DEFINE R == S \cup {e}
<1>1. IsFiniteSet(R) /\ R \in SUBSET Part /\ R \ {e} = S /\ e \in R
  BY FS_AddElement
<1> HIDE DEF R
<1>2. \A s \in R : Length[s] \in Int
  BY <1>1, LengthIs
<1>3. Sum(Length, R) = Length[e] + Sum(Length, R \ {e})
  BY <1>1, <1>2, SumWithout
<1>4. SizeOf(R) = SizeOf(S) + e.length
  <2>1. SizeOf(R) = Sum(Length, R) /\ SizeOf(S) = Sum(Length, S) /\ Length[e] = e.length
    BY <1>1, SizeIsSum, LengthIs
  <2>2. \A s \in S : Length[s] \in Nat
    BY LengthIs
  <2>3. Sum(Length, S) \in Nat
    BY <2>2, SumOfLess
  <2>4. e.length \in Nat
    BY DEF Part
  <2>5. PICK m \in Nat, n \in Nat : m = Sum(Length, S) /\ n = e.length
    BY <2>3, <2>4
  <2>6. SizeOf(R) = n + m /\ SizeOf(S) = m
    BY <1>1, <1>3, <2>1, <2>5, Zenon
  <2> QED BY <2>5, <2>6
<1>5. SizeOf(S) \in Nat
  BY SizeOfParts
<1> QED BY <1>1, <1>4, <1>5 DEF R

\* Both count what is cached; beyond that, it fits.
Counted(c) ==
  /\ IsFiniteSet(c.cachedSpans)
  /\ c.totalSpace = SizeOf(c.cachedSpans)
  /\ c.currentSize = SizeOf(c.cachedSpans)
Fits(c) == Counted(c) /\ c.totalSpace <= MaxBytes

\* Nothing that is counted changed.
LEMMA FitsAsItWas ==
  ASSUME NEW c, NEW d, Fits(c), d.cachedSpans = c.cachedSpans,
         d.totalSpace = c.totalSpace, d.currentSize = c.currentSize
  PROVE  Fits(d)
BY DEF Fits, Counted

LEMMA ForgottenCounted ==
  ASSUME NEW c, Sound(c), Counted(c), NEW S \in SUBSET c.cachedSpans
  PROVE  /\ Counted(Forgotten(c, S))
         /\ Forgotten(c, S).totalSpace = c.totalSpace - SizeOf(S)
         /\ SizeOf(S) \in Nat /\ c.totalSpace \in Nat
<1> DEFINE d == Forgotten(c, S)
<1>1. d.cachedSpans = c.cachedSpans \ S
  BY ForgottenSpans
<1>2. IsCache(c) /\ c.cachedSpans \in SUBSET Part
  BY DEF Sound, IsCache
<1>3. d.totalSpace = c.totalSpace - SizeOf(S) /\ d.currentSize = c.currentSize - SizeOf(S)
  BY <1>2 DEF Forgotten, IsCache
<1> HIDE DEF d
<1>4. /\ SizeOf(S) \in Nat /\ SizeOf(c.cachedSpans \ S) \in Nat
      /\ SizeOf(c.cachedSpans) = SizeOf(S) + SizeOf(c.cachedSpans \ S)
  BY <1>2, SizeOfParts DEF Counted
<1>5. IsFiniteSet(d.cachedSpans)
  BY <1>1, FS_Subset DEF Counted
<1>6. /\ d.totalSpace = SizeOf(d.cachedSpans) /\ d.currentSize = SizeOf(d.cachedSpans)
      /\ c.totalSpace \in Nat
  BY <1>1, <1>3, <1>4 DEF Counted
<1>7. Counted(d)
  BY <1>5, <1>6 DEF Counted
<1> USE DEF d
<1> QED BY <1>3, <1>4, <1>6, <1>7

LEMMA StaleFits ==
  ASSUME NEW c, Sound(c), Fits(c)
  PROVE  Fits(removeStaleSpans(c))
<1> DEFINE stale == {s \in c.cachedSpans : ~Exists(c, s)}
<1>1. stale \in SUBSET c.cachedSpans
  OBVIOUS
<1>2. removeStaleSpans(c) = c \/ removeStaleSpans(c) = Forgotten(c, stale)
  BY DEF removeStaleSpans
<1> HIDE DEF stale
<1>3. Fits(Forgotten(c, stale))
  <2>1. /\ Counted(Forgotten(c, stale))
        /\ Forgotten(c, stale).totalSpace = c.totalSpace - SizeOf(stale)
        /\ SizeOf(stale) \in Nat /\ c.totalSpace \in Nat
    BY <1>1, ForgottenCounted DEF Fits
  <2>2. MaxBytes \in Nat /\ c.totalSpace <= MaxBytes
    BY CacheAssumption DEF Fits
  <2>3. c.totalSpace - SizeOf(stale) <= MaxBytes
    BY <2>1, <2>2
  <2> QED BY <2>1, <2>3 DEF Fits
<1> QED BY <1>2, <1>3

\* Spans are in an order as long as there is a key and a time.
Somewhere == Keys # {} /\ Times # {}

LEMMA PartIsNumbers ==
  ASSUME Somewhere, NEW s \in Part
  PROVE  /\ s.key \in Keys /\ s.time \in Times
         /\ s.key \in Nat /\ s.time \in Nat /\ s.position \in Nat /\ s.length \in Nat
<1>1. Min(Keys) \in Keys /\ Min(Times) \in Times
  BY CacheAssumption, LeastNumber DEF Somewhere
<1> QED BY <1>1, CacheAssumption DEF Part

LEMMA OldestIsThere ==
  ASSUME Somewhere, NEW S \in SUBSET Part, S # {}
  PROVE  \E s \in S : \A t \in S : ~Older(t, s)
<1>1. \A s \in S : s.key \in Nat /\ s.time \in Nat /\ s.position \in Nat
  BY PartIsNumbers
<1>2. PICK a \in S : \A t \in S : a.time <= t.time
  <2> DEFINE N == {t.time : t \in S}
  <2>1. N \in SUBSET Nat /\ N # {}
    BY <1>1
  <2>2. PICK n \in N : \A m \in N : n <= m
    BY <2>1, SmallestNumber
  <2>3. PICK s \in S : s.time = n
    BY <2>2
  <2> QED BY <2>2, <2>3
<1> DEFINE A == {t \in S : t.time = a.time}
<1>3. PICK b \in A : \A t \in A : b.key <= t.key
  <2> DEFINE N == {t.key : t \in A}
  <2>1. N \in SUBSET Nat /\ N # {}
    BY <1>1
  <2>2. PICK n \in N : \A m \in N : n <= m
    BY <2>1, SmallestNumber
  <2>3. PICK s \in A : s.key = n
    BY <2>2
  <2> QED BY <2>2, <2>3
<1> DEFINE B == {t \in A : t.key = b.key}
<1>4. PICK e \in B : \A t \in B : e.position <= t.position
  <2> DEFINE N == {t.position : t \in B}
  <2>1. N \in SUBSET Nat /\ N # {}
    BY <1>1
  <2>2. PICK n \in N : \A m \in N : n <= m
    BY <2>1, SmallestNumber
  <2>3. PICK s \in B : s.position = n
    BY <2>2
  <2> QED BY <2>2, <2>3
<1>5. ASSUME NEW t \in S PROVE ~Older(t, e)
  <2>1. e.time = a.time /\ e.key = b.key /\ e \in S
    BY <1>4
  <2>2. ~(t.time < e.time)
    BY <1>1, <1>2, <2>1
  <2>3. t.time = e.time => ~(t.key < e.key)
    BY <1>1, <1>3, <2>1
  <2>4. t.time = e.time /\ t.key = e.key => ~(t.position < e.position)
    BY <1>1, <1>4, <2>1
  <2> QED BY <2>2, <2>3, <2>4 DEF Older
<1> QED BY <1>4, <1>5

\* Eviction makes room: what goes is at least what is older than the oldest
\* that stays, and with that gone there is room.
LEMMA EvictedFits ==
  ASSUME Somewhere, NEW c, Sound(c), Counted(c), NEW n \in Nat, n <= MaxBytes
  PROVE  Fits(evictCache(c, n))
<1> DEFINE gone == Evicted(c, n)
           kept == {f \in c.files : \A s \in gone : ~IsNamed(f, s)}
           d == Forgotten(c, gone)
           e == [d EXCEPT !.files = kept]
<1>1. gone \in SUBSET c.cachedSpans
  BY DEF Evicted, Sound
<1>2. \A s \in c.cachedSpans \ gone :
        c.currentSize - SizeOf({t \in c.cachedSpans : Older(t, s)}) + n <= MaxBytes
  <2> SUFFICES ASSUME NEW s \in c.cachedSpans \ gone
               PROVE  c.currentSize - SizeOf({t \in c.cachedSpans : Older(t, s)}) + n
                        <= MaxBytes
    OBVIOUS
  <2>1. PICK older : older = {t \in c.cachedSpans : Older(t, s)}
    OBVIOUS
  <2>2. ~(c.currentSize - SizeOf(older) + n > MaxBytes)
    BY <2>1 DEF Evicted, Sound
  <2>3. SizeOf(older) \in Nat /\ c.currentSize \in Nat
    <3>1. older \in SUBSET c.cachedSpans
      BY <2>1
    <3> QED BY <3>1, ForgottenCounted DEF Counted
  <2>4. c.currentSize - SizeOf(older) + n <= MaxBytes
    BY <2>2, <2>3, CacheAssumption
  <2> QED BY <2>1, <2>4
<1>3. evictCache(c, n) = IF c.currentSize + n <= MaxBytes THEN c ELSE e
  BY DEF evictCache
<1> HIDE DEF gone, kept
<1>4. /\ Counted(d) /\ d.totalSpace = c.totalSpace - SizeOf(gone)
      /\ SizeOf(gone) \in Nat /\ c.totalSpace \in Nat
  BY <1>1, ForgottenCounted
<1>5. IsCache(d)
  BY <1>1, ForgottenSpans
<1> HIDE DEF d
<1>6. /\ e.cachedSpans = d.cachedSpans /\ e.totalSpace = d.totalSpace
      /\ e.currentSize = d.currentSize
  BY <1>5 DEF IsCache
<1> HIDE DEF e
<1>7. c.currentSize = c.totalSpace /\ c.totalSpace = SizeOf(c.cachedSpans)
      /\ IsFiniteSet(c.cachedSpans)
  BY DEF Counted
<1>8. c.totalSpace - SizeOf(gone) <= MaxBytes
  <2>1. CASE gone = c.cachedSpans
    BY <1>4, <1>7, <2>1, CacheAssumption
  <2>2. CASE gone # c.cachedSpans
    <3>1. c.cachedSpans \ gone \in SUBSET Part /\ c.cachedSpans \ gone # {}
      BY <1>1, <2>2 DEF Sound, IsCache
    <3>2. PICK s \in c.cachedSpans \ gone :
            \A t \in c.cachedSpans \ gone : ~Older(t, s)
      BY <3>1, OldestIsThere
    <3>3. PICK older : older = {t \in c.cachedSpans : Older(t, s)}
      OBVIOUS
    <3>4. older \in SUBSET gone
      BY <3>2, <3>3
    <3>5. gone \in SUBSET Part /\ IsFiniteSet(gone)
      BY <1>1, <1>7, FS_Subset DEF Sound, IsCache
    <3>6. /\ SizeOf(older) \in Nat /\ SizeOf(gone \ older) \in Nat
          /\ SizeOf(gone) = SizeOf(older) + SizeOf(gone \ older)
      BY <3>4, <3>5, SizeOfParts
    <3>7. c.currentSize - SizeOf(older) + n <= MaxBytes
      BY <1>2, <3>2, <3>3
    <3> QED BY <1>4, <1>7, <3>6, <3>7, CacheAssumption
  <2> QED BY <2>1, <2>2
<1>9. Fits(e)
  <2>1. e.totalSpace <= MaxBytes
    BY <1>4, <1>6, <1>8
  <2> QED BY <1>4, <1>6, <2>1 DEF Fits, Counted
<1>10. CASE c.currentSize + n <= MaxBytes
  <2>1. c.totalSpace <= MaxBytes
    BY <1>4, <1>7, <1>10, CacheAssumption
  <2> QED BY <1>3, <1>10, <2>1 DEF Fits
<1> QED BY <1>3, <1>9, <1>10

LEMMA AddedFits ==
  ASSUME Somewhere, NEW c, Sound(c), Fits(c),
         NEW f \in c.files, f \notin c.cachedSpans, f.length > 0
  PROVE  Fits(addSpan(c, f))
<1> DEFINE C == IF \E t \in c.cachedSpans : SamePlace(f, t)
                THEN c.cachedSpans ELSE c.cachedSpans \cup {f}
           L == c.leastRecentlyUsed \cup {f}
           m == c.totalSpace + f.length
           n == c.currentSize + f.length
           e == [c EXCEPT !.cachedSpans = C, !.totalSpace = m,
                          !.leastRecentlyUsed = L, !.currentSize = n]
<1>1. C = c.cachedSpans \cup {f}
  <2>1. \A t \in c.cachedSpans : SamePlace(f, t) => t = f
    BY OnePlace DEF Spans, SamePlace
  <2> QED
    BY <2>1
<1>2. L = C
  BY <1>1 DEF Sound
<1>3. C \in SUBSET Part
  BY <1>1 DEF Sound, IsCache
<1>4. addSpan(c, f) = evictCache(e, 0)
  BY DEF addSpan, SamePlace
<1>5. m = SizeOf(C) /\ n = SizeOf(C) /\ IsFiniteSet(C)
  <2>1. f \in Part /\ c.cachedSpans \in SUBSET Part
    BY DEF Sound, IsCache
  <2>2. /\ IsFiniteSet(C) /\ SizeOf(C) = SizeOf(c.cachedSpans) + f.length
    BY <1>1, <2>1, SizeOfMore DEF Fits, Counted
  <2> QED BY <2>2 DEF Fits, Counted
<1> HIDE DEF C, L, m, n
<1>6. IsCache(e) /\ e.files = c.files /\ e.cachedSpans = C /\ e.leastRecentlyUsed = C
  BY <1>2, <1>3 DEF Sound, IsCache
<1>7. e.totalSpace = m /\ e.currentSize = n
  BY DEF Sound, IsCache
<1> HIDE DEF e
<1>8. Spans(e) = Spans(c)
  BY <1>1, <1>6 DEF Spans
<1>9. Sound(e)
  BY <1>1, <1>6, <1>8 DEF Sound
<1>10. Counted(e)
  BY <1>5, <1>6, <1>7 DEF Counted
<1> QED BY <1>4, <1>9, <1>10, EvictedFits, CacheAssumption

\* A span that is touched is counted as before, so that nothing is evicted.
LEMMA TouchedFits ==
  ASSUME NEW c, Sound(c), Fits(c), NEW s \in c.cachedSpans, Exists(c, s),
         NEW now \in Times
  PROVE  LET new == Touched(c, s, now)
             d == touch(c, s, now)
         IN  /\ Fits(d)
             /\ new \in Part /\ new.key = s.key /\ new.position = s.position
             /\ new.length = s.length /\ new.time = now
             /\ Spans(d) \subseteq Spans(c) \cup {new}
<1> DEFINE new == Touched(c, s, now)
           F == {f \in c.files : ~IsNamed(f, s) /\ ~IsNamed(f, new)} \cup {new}
           C == (c.cachedSpans \ {s}) \cup {new}
           L == (c.leastRecentlyUsed \ {s}) \cup {new}
           n == c.currentSize - s.length + new.length
           e == [c EXCEPT !.files = F, !.cachedSpans = C, !.leastRecentlyUsed = L,
                          !.currentSize = n]
<1>1. FileOf(c, s) = s
  BY TheFile DEF Sound, Spans, IsNamed
<1>2. s \in Part /\ s \in Spans(c) /\ s.length > 0
  BY DEF Sound, IsCache, Spans
<1>3. /\ new \in Part
      /\ new.key = s.key /\ new.position = s.position /\ new.length = s.length
      /\ new.time = now
  BY <1>1, <1>2 DEF Touched, Part
<1>4. touch(c, s, now) = evictCache(e, 0)
  BY DEF touch
<1> HIDE DEF new
<1>5. new \notin c.cachedSpans \ {s}
  <2> SUFFICES ASSUME new \in c.cachedSpans PROVE new = s
    OBVIOUS
  <2>1. SamePlace(new, s)
    BY <1>3 DEF SamePlace
  <2> QED BY <1>2, <2>1, OnePlace
<1>6. IsFiniteSet(C) /\ SizeOf(C) = SizeOf(c.cachedSpans)
  <2> DEFINE R == c.cachedSpans \ {s}
  <2>1. c.cachedSpans \in SUBSET Part /\ IsFiniteSet(c.cachedSpans)
    BY DEF Sound, IsCache, Fits, Counted
  <2>2. IsFiniteSet(R) /\ R \in SUBSET Part /\ s \notin R /\ c.cachedSpans = R \cup {s}
    BY <2>1, FS_Subset
  <2>3. new \notin R /\ C = R \cup {new}
    BY <1>5
  <2> HIDE DEF R
  <2>4. IsFiniteSet(C) /\ SizeOf(C) = SizeOf(R) + new.length
    BY <1>3, <2>2, <2>3, SizeOfMore
  <2>5. SizeOf(c.cachedSpans) = SizeOf(R) + s.length
    BY <1>2, <2>2, SizeOfMore
  <2> QED BY <1>3, <2>4, <2>5
<1>7. c.totalSpace = SizeOf(c.cachedSpans) /\ c.currentSize = SizeOf(c.cachedSpans)
      /\ c.totalSpace \in Nat /\ c.totalSpace <= MaxBytes
  <2>1. {} \in SUBSET c.cachedSpans
    OBVIOUS
  <2> QED BY <2>1, ForgottenCounted DEF Fits, Counted
<1>8. n = c.currentSize
  BY <1>2, <1>3, <1>7 DEF Part
<1> HIDE DEF F, C, L, n
<1>9. /\ e.files = F /\ e.cachedSpans = C /\ e.currentSize = n
      /\ e.totalSpace = c.totalSpace
  BY DEF Sound, IsCache
<1> HIDE DEF e
<1>10. evictCache(e, 0) = e
  BY <1>7, <1>8, <1>9, CacheAssumption DEF evictCache
<1>11. Fits(e)
  BY <1>6, <1>7, <1>8, <1>9 DEF Fits, Counted
<1>12. Spans(e) \subseteq Spans(c) \cup {new}
  BY <1>9 DEF Spans, F, C
<1> QED BY <1>3, <1>4, <1>10, <1>11, <1>12 DEF new

LEMMA StartedFits ==
  ASSUME Somewhere, NEW c, Sound(c), Fits(c), NEW n \in Nat, n <= MaxBytes
  PROVE  Fits(startFile(c, n))
<1> DEFINE d == IF c.dirExists THEN c ELSE removeStaleSpans(c)
           e == [d EXCEPT !.dirExists = TRUE]
<1>1. Shrinks(c, d)
  BY StaleGo, ShrinksToItself
<1>2. Fits(d)
  BY StaleFits
<1>3. startFile(c, n) = evictCache(e, n)
  BY DEF startFile
<1> HIDE DEF d
<1>4. /\ IsCache(e) /\ e.files = d.files /\ e.cachedSpans = d.cachedSpans
      /\ e.leastRecentlyUsed = d.leastRecentlyUsed
  BY <1>1 DEF Shrinks, IsCache
<1>5. e.totalSpace = d.totalSpace /\ e.currentSize = d.currentSize
  BY <1>1 DEF Shrinks, IsCache
<1> HIDE DEF e
<1>6. Sound(e)
  <2>1. Shrinks(c, e)
    BY <1>1, <1>4 DEF Shrinks
  <2> QED BY <2>1, ShrinksIsSound
<1>7. Counted(e)
  BY <1>2, <1>4, <1>5 DEF Fits, Counted
<1> QED BY <1>3, <1>6, <1>7, EvictedFits

LEMMA DeletedFits ==
  ASSUME NEW c, Sound(c), Fits(c), NEW s
  PROVE  Fits(Deleted(c, s))
<1>1. /\ Deleted(c, s).cachedSpans = c.cachedSpans
      /\ Deleted(c, s).totalSpace = c.totalSpace
      /\ Deleted(c, s).currentSize = c.currentSize
  BY DEF Sound, IsCache, Deleted
<1> QED BY <1>1, FitsAsItWas

\* A file that takes the place of one of its name.
LEMMA RenewedFits ==
  ASSUME NEW c, Sound(c), Fits(c), NEW f, NEW g
  PROVE  Fits([Deleted(c, f) EXCEPT !.files = @ \cup {g}])
<1> DEFINE F == {h \in c.files : ~IsNamed(h, f)} \cup {g}
           d == [Deleted(c, f) EXCEPT !.files = @ \cup {g}]
<1>1. Deleted(c, f).files = {h \in c.files : ~IsNamed(h, f)}
  BY DEF Sound, IsCache, Deleted
<1>2. d = [c EXCEPT !.files = F]
  BY <1>1 DEF Sound, IsCache, Deleted
<1> HIDE DEF F, d
<1>3. /\ d.cachedSpans = c.cachedSpans /\ d.totalSpace = c.totalSpace
      /\ d.currentSize = c.currentSize
  BY <1>2 DEF Sound, IsCache
<1> USE DEF d
<1> QED BY <1>3, FitsAsItWas

LEMMA CommittedFits ==
  ASSUME Somewhere, NEW c, Sound(c), Fits(c), NEW file,
         \A g \in c.files : IsNamed(g, file) => g \notin c.cachedSpans
  PROVE  Fits(commitFile(c, file))
<1>1. CASE ~Exists(c, file)
  BY <1>1 DEF commitFile
<1>2. CASE Exists(c, file) /\ FileOf(c, file).length = 0
  BY <1>2, DeletedFits DEF commitFile
<1>3. CASE Exists(c, file) /\ FileOf(c, file).length # 0
  <2>1. PICK f : f = FileOf(c, file)
    OBVIOUS
  <2>2. f \in c.files /\ IsNamed(f, file)
    BY <1>3, <2>1, TheFile
  <2>3. f \in Part /\ f.length # 0
    BY <1>3, <2>1, <2>2 DEF Sound, IsCache
  <2>4. f.length > 0 /\ f \notin c.cachedSpans
    BY <2>2, <2>3 DEF Part
  <2>5. commitFile(c, file) = addSpan(c, f)
    BY <1>3, <2>1 DEF commitFile
  <2> QED BY <2>2, <2>4, <2>5, AddedFits
<1> QED BY <1>1, <1>2, <1>3

LEMMA InitializedFits ==
  ASSUME Somewhere, NEW c, Sound(c), Fits(c), NEW f \in c.files, f \notin c.cachedSpans
  PROVE  Fits(initialized(c, f))
<1>1. f \in Part
  BY DEF Sound, IsCache
<1>2. CASE f.length = 0
  BY <1>2, DeletedFits DEF initialized
<1>3. CASE f.length > 0
  <2>1. initialized(c, f) = addSpan(c, f)
    BY <1>1, <1>3 DEF initialized, Part
  <2> QED BY <1>3, <2>1, AddedFits
<1> QED BY <1>1, <1>2, <1>3 DEF Part
-----------------------------------------------------------------------------
(* Types, with their bounds: spans, files and readers stay within a stream.  *)
InStream(f) == f \in Span /\ End(f) <= StreamLength
Spanned(c) == \A f \in Spans(c) : InStream(f)

\* Who has a file has more to write to it, unless the file has something.
Proper(s) ==
  /\ s.key \in Keys /\ InStream(s.file) /\ InStream(s.found)
  /\ 0 <= s.left /\ s.left <= s.bytesRemaining
  /\ s.readPosition + s.bytesRemaining <= StreamLength
  /\ HasFile(s) => s.file.position < s.readPosition + s.left
  /\ s.pc = "closed" => s.left = 0

Bounded == Fits(cache) /\ Spanned(cache) /\ \A r \in Readers : Proper(reader[r])

LEMMA NoFileInStream ==
  ASSUME Somewhere
  PROVE  InStream(NoFile)
<1>1. Min(Keys) \in Keys /\ Min(Times) \in Times
  BY CacheAssumption, LeastNumber DEF Somewhere
<1>2. 0 \in 0..StreamLength /\ 0 + 0 <= StreamLength
  BY CacheAssumption
<1> QED BY <1>1, <1>2 DEF InStream, NoFile, Span, End

\* What only lets go of spans lets none in.
LEMMA ShrinksIsSpanned ==
  ASSUME NEW c, NEW d, Spanned(c), Shrinks(c, d)
  PROVE  Spanned(d)
BY DEF Shrinks, Spans, Spanned

\* A reader as far as it was.
SameExtentRead(s, t) ==
  /\ t.key = s.key /\ t.readPosition = s.readPosition
  /\ t.bytesRemaining = s.bytesRemaining /\ t.left = s.left
  /\ t.file = s.file /\ t.found \in {s.found, NoFile}
  /\ HasFile(t) => HasFile(s)
  /\ t.pc # "closed"

LEMMA SameIsProper ==
  ASSUME Somewhere, NEW s, NEW t, Proper(s), SameExtentRead(s, t)
  PROVE  Proper(t)
BY NoFileInStream DEF Proper, SameExtentRead

\* A step of one reader that leaves the cache alone.
LEMMA GoesOnBounded ==
  ASSUME IInv, Bounded, NEW r \in Readers, NEW t, GoesOn(r, t), Proper(t),
         Fits(cache'), Spanned(cache')
  PROVE  Bounded'
<1>1. reader \in [Readers -> ReaderLike]
  BY DEF IInv, Typed
<1>2. \A x \in Readers : reader'[x] = IF x = r THEN t ELSE reader[x]
  BY <1>1 DEF GoesOn
<1>3. \A x \in Readers : Proper(reader'[x])
  BY <1>2 DEF Bounded
<1> QED BY <1>3 DEF Bounded

LEMMA QuietBounded ==
  ASSUME IInv, Bounded, NEW r \in Readers, NEW t, GoesOn(r, t), Proper(t),
         UNCHANGED cache
  PROVE  Bounded'
<1>1. Fits(cache') /\ Spanned(cache')
  BY DEF Bounded
<1> QED BY <1>1, GoesOnBounded

LEMMA OpenBounded ==
  ASSUME IInv, Bounded, NEW r \in Readers, Open(r)
  PROVE  Bounded'
<1>1. PICK q \in Requests[r] :
        GoesOn(r, [reader[r] EXCEPT !.pc = "next", !.key = q.key,
                                    !.readPosition = q.position,
                                    !.bytesRemaining = q.length])
  BY Zenon DEF Open
<1>2. PICK s, k, p, n : s = reader[r] /\ k = q.key /\ p = q.position /\ n = q.length
  OBVIOUS
<1>3. PICK t : t = [s EXCEPT !.pc = "next", !.key = k, !.readPosition = p,
                             !.bytesRemaining = n]
  OBVIOUS
<1>4. GoesOn(r, t)
  BY <1>1, <1>2, <1>3, Zenon
<1>0. UNCHANGED cache
  BY DEF Open
<1>5. /\ s \in ReaderLike /\ s.pc = "closed"
      /\ Holds(r, s, lockedSpans, unread) /\ Proper(s)
  BY <1>2, ReaderFacts DEF Open, At, Bounded
<1>6. k \in Keys /\ p \in Nat /\ n \in Nat /\ p + n <= StreamLength
  BY <1>2, RequestsAssumption
<1>7. /\ t.pc = "next" /\ t.key = k /\ t.readPosition = p /\ t.bytesRemaining = n
      /\ t.left = s.left /\ t.file = s.file /\ t.found = s.found
      /\ t.outputStream = s.outputStream
  BY <1>3, <1>5 DEF ReaderLike
<1>8. ~s.outputStream /\ s.left = 0
  BY <1>5 DEF Holds, Proper
<1>9. Proper(t)
  BY <1>5, <1>6, <1>7, <1>8 DEF Proper, HasFile
<1> QED BY <1>0, <1>4, <1>9, QuietBounded, Zenon

LEMMA InterruptedBounded ==
  ASSUME Somewhere, IInv, Bounded, NEW r \in Readers, Interrupted(r)
  PROVE  Bounded'
<1>1. PICK s : s = reader[r]
  OBVIOUS
<1>2. PICK t : t = [s EXCEPT !.pc = "failed"]
  OBVIOUS
<1>3. GoesOn(r, t) /\ UNCHANGED cache
  BY <1>1, <1>2 DEF Interrupted
<1>4. s \in ReaderLike /\ Proper(s)
  BY <1>1, ReaderFacts DEF Bounded
<1>5. SameExtentRead(s, t)
  BY <1>2, <1>4 DEF ReaderLike, SameExtentRead, HasFile
<1> QED BY <1>3, <1>4, <1>5, SameIsProper, QuietBounded

LEMMA FailsBounded ==
  ASSUME Somewhere, IInv, Bounded, NEW r \in Readers, NEW s \in ReaderLike, Proper(s),
         NEW b \in BOOLEAN, Fails(r, s, b), Fits(cache'), Spanned(cache')
  PROVE  Bounded'
<1>1. PICK o \in BOOLEAN : o = (ignoreCacheOnError[r] /\ b)
  OBVIOUS
<1>2. PICK t : t = [s EXCEPT !.pc = "failed", !.ignoreCache = @ \/ o]
  OBVIOUS
<1>3. GoesOn(r, t)
  BY <1>1, <1>2 DEF Fails
<1>4. SameExtentRead(s, t)
  BY <1>2 DEF ReaderLike, SameExtentRead, HasFile
<1> QED BY <1>3, <1>4, SameIsProper, GoesOnBounded

\* What is looked up.
LEMMA LookedBounded ==
  ASSUME IInv, Bounded, NEW key, NEW position
  PROVE  LET c == Looked(cache, key, position)
         IN  Sound(c) /\ Shrinks(cache, c) /\ Fits(c) /\ Spanned(c)
<1> DEFINE c == Looked(cache, key, position)
<1>1. Sound(cache)
  BY DEF IInv
<1>2. Shrinks(cache, c) /\ Sound(c)
  BY <1>1, LookedShrinks, ShrinksIsSound
<1>3. Fits(c)
  BY <1>1, StaleFits DEF Looked, Bounded
<1> HIDE DEF c
<1>4. Spanned(c)
  BY <1>2, ShrinksIsSpanned DEF Bounded
<1> USE DEF c
<1> QED BY <1>2, <1>3, <1>4

LEMMA BypassesBounded ==
  ASSUME IInv, Bounded, NEW r \in Readers, At(r, "next"), Bypasses(r, reader[r]),
         Fits(cache'), Spanned(cache')
  PROVE  Bounded'
<1>1. PICK s : s = reader[r]
  OBVIOUS
<1>2. PICK n : n = s.bytesRemaining
  OBVIOUS
<1>3. PICK t : t = [s EXCEPT !.pc = "opening", !.source = "upstream", !.left = n]
  OBVIOUS
<1>4. GoesOn(r, t)
  BY <1>1, <1>2, <1>3, Zenon DEF Bypasses
<1>5. /\ s \in ReaderLike /\ ~s.outputStream /\ s.bytesRemaining > 0 /\ Proper(s)
  BY <1>1, AtNext DEF Bounded
<1>6. n \in Int /\ n > 0
  BY <1>2, <1>5 DEF ReaderLike
<1>7. /\ t.pc = "opening" /\ t.key = s.key /\ t.readPosition = s.readPosition
      /\ t.bytesRemaining = s.bytesRemaining
      /\ t.left = n /\ t.file = s.file /\ t.found = s.found
      /\ t.outputStream = s.outputStream
  BY <1>3, <1>5 DEF ReaderLike
<1>8. Proper(t)
  BY <1>2, <1>5, <1>6, <1>7 DEF Proper, HasFile
<1> QED BY <1>4, <1>8, GoesOnBounded

LEMMA FindsBounded ==
  ASSUME Somewhere, IInv, Bounded, NEW r \in Readers, At(r, "next"),
         Finds(r, reader[r], Looked(cache, reader[r].key, reader[r].readPosition))
  PROVE  Bounded'
<1>1. PICK s : s = reader[r]
  OBVIOUS
<1>2. PICK c : c = Looked(cache, s.key, s.readPosition)
  OBVIOUS
<1>3. PICK span \in Covering(c, s.key, s.readPosition), now \in Times :
        LET new == Touched(c, span, now)
        IN  /\ cache' = touch(c, span, now)
            /\ GoesOn(r, [s EXCEPT !.pc = "opening", !.source = "cache", !.found = new,
                                   !.left = Least(End(new) - s.readPosition,
                                                  s.bytesRemaining)])
  BY <1>1, <1>2, Zenon DEF Finds
<1>4. PICK new : new = Touched(c, span, now)
  OBVIOUS
<1>5. PICK n : n = Least(End(new) - s.readPosition, s.bytesRemaining)
  OBVIOUS
<1>6. PICK t : t = [s EXCEPT !.pc = "opening", !.source = "cache", !.found = new,
                             !.left = n]
  OBVIOUS
<1>7. cache' = touch(c, span, now) /\ GoesOn(r, t)
  BY <1>3, <1>4, <1>5, <1>6, Zenon
<1>8. /\ s \in ReaderLike /\ ~s.outputStream /\ s.bytesRemaining > 0 /\ Proper(s)
  BY <1>1, AtNext DEF Bounded
<1>9. Sound(c) /\ Fits(c) /\ Spanned(c) /\ Sound(cache)
  BY <1>2, LookedBounded DEF IInv
<1>10. span \in c.cachedSpans /\ s.readPosition < End(span)
  BY DEF Covering, FloorSpan
<1>11. Exists(c, span)
  BY <1>2, <1>9, LookedExists
<1>12. /\ Fits(cache')
       /\ new \in Part /\ new.key = span.key /\ new.position = span.position
       /\ new.length = span.length /\ new.time = now
       /\ Spans(cache') \subseteq Spans(c) \cup {new}
  BY <1>4, <1>7, <1>9, <1>10, <1>11, TouchedFits
<1>13. InStream(span)
  BY <1>9, <1>10 DEF Spanned, Spans
<1>14. InStream(new) /\ End(new) = End(span)
  <2>1. End(new) = End(span)
    BY <1>12 DEF End
  <2>2. new \in Span
    BY <1>12, <1>13 DEF InStream, Span, Part
  <2> QED BY <1>13, <2>1, <2>2 DEF InStream
<1>15. Spanned(cache')
  BY <1>9, <1>12, <1>14 DEF Spanned
<1>16. /\ n \in Int /\ n > 0 /\ n <= s.bytesRemaining
  <2>1. End(new) \in Int /\ s.readPosition \in Int /\ s.bytesRemaining \in Int
    BY <1>8, <1>12 DEF ReaderLike, Part, End
  <2> QED BY <1>5, <1>8, <1>10, <1>14, <2>1 DEF Least
<1>17. /\ t.pc = "opening" /\ t.key = s.key /\ t.readPosition = s.readPosition
       /\ t.bytesRemaining = s.bytesRemaining
       /\ t.left = n /\ t.file = s.file /\ t.found = new
       /\ t.outputStream = s.outputStream
  BY <1>6, <1>8 DEF ReaderLike
<1>18. Proper(t)
  BY <1>8, <1>14, <1>16, <1>17 DEF Proper, HasFile
<1> QED BY <1>7, <1>12, <1>15, <1>18, GoesOnBounded

LEMMA LocksBounded ==
  ASSUME IInv, Bounded, NEW r \in Readers, At(r, "next"),
         Locks(r, reader[r], Looked(cache, reader[r].key, reader[r].readPosition))
  PROVE  Bounded'
<1>1. PICK s : s = reader[r]
  OBVIOUS
<1>2. PICK c : c = Looked(cache, s.key, s.readPosition)
  OBVIOUS
<1>3. PICK hole : hole = HoleLength(c, s.key, s.readPosition)
  OBVIOUS
<1>4. PICK n : n = IF hole = -1 THEN s.bytesRemaining ELSE Least(hole, s.bytesRemaining)
  OBVIOUS
<1>5. PICK t : t = [s EXCEPT !.pc = "opening", !.source = "tee", !.lockedSpan = TRUE,
                             !.left = n]
  OBVIOUS
<1>6. /\ Covering(c, s.key, s.readPosition) = {}
      /\ cache' = c
      /\ GoesOn(r, t)
  BY <1>1, <1>2, <1>3, <1>4, <1>5, Zenon DEF Locks
<1>7. s \in ReaderLike /\ ~s.outputStream /\ s.bytesRemaining > 0 /\ Proper(s)
  BY <1>1, AtNext DEF Bounded
<1>8. Sound(c) /\ Fits(c) /\ Spanned(c)
  BY <1>2, LookedBounded
<1>9. s.readPosition \in Nat /\ s.bytesRemaining \in Int
  BY <1>7 DEF ReaderLike
<1>10. hole # -1 => hole \in Nat /\ hole > 0
  BY <1>3, <1>6, <1>8, <1>9, HoleIsFree
<1>11. n \in Int /\ n > 0 /\ n <= s.bytesRemaining
  BY <1>4, <1>7, <1>9, <1>10 DEF Least
<1>12. /\ t.pc = "opening" /\ t.key = s.key /\ t.readPosition = s.readPosition
       /\ t.bytesRemaining = s.bytesRemaining
       /\ t.left = n /\ t.file = s.file /\ t.found = s.found
       /\ t.outputStream = s.outputStream
  BY <1>5, <1>7 DEF ReaderLike
<1>13. Proper(t)
  BY <1>7, <1>9, <1>11, <1>12 DEF Proper, HasFile
<1> QED BY <1>6, <1>8, <1>13, GoesOnBounded

LEMMA IsLockedBounded ==
  ASSUME Somewhere, IInv, Bounded, NEW r \in Readers, At(r, "next"),
         IsLocked(r, reader[r], Looked(cache, reader[r].key, reader[r].readPosition))
  PROVE  Bounded'
<1>1. PICK s : s = reader[r]
  OBVIOUS
<1>2. PICK t : t = [s EXCEPT !.pc = "waiting"]
  OBVIOUS
<1>3. Fits(cache') /\ Spanned(cache')
  BY LookedBounded DEF IsLocked
<1>4. s \in ReaderLike /\ Proper(s)
  BY <1>1, AtNext DEF Bounded
<1>5. CASE GoesOn(r, t)
  <2>1. SameExtentRead(s, t)
    BY <1>2, <1>4 DEF ReaderLike, SameExtentRead, HasFile
  <2> QED BY <1>3, <1>4, <1>5, <2>1, SameIsProper, GoesOnBounded
<1>6. CASE Bypasses(r, reader[r])
  BY <1>3, <1>6, BypassesBounded
<1>7. GoesOn(r, t) \/ Bypasses(r, reader[r])
  BY <1>1, <1>2, Zenon DEF IsLocked
<1> QED BY <1>5, <1>6, <1>7

LEMMA startReadWriteBounded ==
  ASSUME Somewhere, IInv, Bounded, NEW r \in Readers, startReadWrite(r)
  PROVE  Bounded'
<1> DEFINE c == Looked(cache, reader[r].key, reader[r].readPosition)
<1>1. At(r, "next")
  BY DEF startReadWrite
<1>2. CASE Bypasses(r, reader[r]) /\ cache' = cache
  <2>1. Fits(cache') /\ Spanned(cache')
    BY <1>2 DEF Bounded
  <2> QED BY <1>1, <1>2, <2>1, BypassesBounded
<1>3. CASE Finds(r, reader[r], c)
  BY <1>1, <1>3, FindsBounded
<1>4. CASE Locks(r, reader[r], c)
  BY <1>1, <1>4, LocksBounded
<1>5. CASE IsLocked(r, reader[r], c)
  BY <1>1, <1>5, IsLockedBounded
<1> HIDE DEF c
<1> QED BY <1>2, <1>3, <1>4, <1>5 DEF startReadWrite, c

LEMMA OpenSourceBounded ==
  ASSUME Somewhere, IInv, Bounded, NEW r \in Readers, OpenSource(r)
  PROVE  Bounded'
<1>1. PICK q : q = reader[r]
  OBVIOUS
<1>2. PICK s : s = [q EXCEPT !.found = NoFile]
  OBVIOUS
<1>3. q \in ReaderLike /\ Proper(q) /\ q.pc = "opening"
  BY <1>1, ReaderFacts DEF Bounded, OpenSource, At
<1>4. NoFile \in Part
  BY CacheAssumption DEF NoFile, Part
<1>5. s \in ReaderLike /\ SameExtentRead(q, s)
  BY <1>2, <1>3, <1>4 DEF ReaderLike, SameExtentRead, HasFile
<1>6. Proper(s)
  BY <1>3, <1>5, SameIsProper
<1>7. PICK p \in {"starting", "open"} : p = IF s.source = "tee" THEN "starting" ELSE "open"
  OBVIOUS
<1>8. PICK t : t = [s EXCEPT !.pc = p]
  OBVIOUS
<1>9. PICK u : u = [s EXCEPT !.pc = "open"]
  OBVIOUS
<1>10. /\ GoesOn(r, t) \/ GoesOn(r, u) \/ Fails(r, s, TRUE) \/ Fails(r, s, FALSE)
       /\ UNCHANGED cache
  BY <1>1, <1>2, <1>7, <1>8, <1>9, Zenon DEF OpenSource
<1>11. Fits(cache') /\ Spanned(cache')
  BY <1>10 DEF Bounded
<1>12. SameExtentRead(s, t) /\ SameExtentRead(s, u)
  BY <1>5, <1>7, <1>8, <1>9 DEF ReaderLike, SameExtentRead, HasFile
<1>13. Proper(t) /\ Proper(u)
  BY <1>6, <1>12, SameIsProper
<1>14. CASE GoesOn(r, t) \/ GoesOn(r, u)
  BY <1>11, <1>13, <1>14, GoesOnBounded
<1>15. CASE Fails(r, s, TRUE) \/ Fails(r, s, FALSE)
  <2>1. PICK b \in BOOLEAN : Fails(r, s, b)
    BY <1>15
  <2> QED BY <1>5, <1>6, <1>11, <2>1, FailsBounded
<1> QED BY <1>10, <1>14, <1>15

LEMMA GotIsProper ==
  ASSUME NEW s \in ReaderLike, Proper(s), s.left > 0
  PROVE  Proper(Got(s))
<1>1. PICK p, b, l : p = s.readPosition + 1 /\ b = s.bytesRemaining - 1 /\ l = s.left - 1
  OBVIOUS
<1>2. PICK t : t = [s EXCEPT !.pc = "open", !.readPosition = p, !.bytesRemaining = b,
                             !.left = l]
  OBVIOUS
<1>3. t = Got(s)
  BY <1>1, <1>2 DEF Got
<1>4. /\ t.pc = "open" /\ t.key = s.key /\ t.readPosition = p /\ t.bytesRemaining = b
      /\ t.left = l /\ t.file = s.file /\ t.found = s.found
      /\ t.outputStream = s.outputStream
  BY <1>2 DEF ReaderLike
<1>5. s.readPosition \in Int /\ s.bytesRemaining \in Int /\ s.left \in Int
  BY DEF ReaderLike
<1>6. p + b = s.readPosition + s.bytesRemaining /\ p + l = s.readPosition + s.left
      /\ 0 <= l /\ (s.left <= s.bytesRemaining => l <= b)
  BY <1>1, <1>5
<1>7. HasFile(t) => HasFile(s)
  BY <1>4 DEF HasFile
<1>8. Proper(t)
  BY <1>4, <1>6, <1>7 DEF Proper
<1> QED BY <1>3, <1>8

LEMMA ReadBlockBounded ==
  ASSUME Somewhere, IInv, Bounded, NEW r \in Readers, ReadBlock(r)
  PROVE  Bounded'
<1>1. PICK s : s = reader[r]
  OBVIOUS
<1>2. PICK t : t = [s EXCEPT !.pc = "writing"]
  OBVIOUS
<1>3. PICK b \in BOOLEAN : b = (s.source = "cache")
  OBVIOUS
<1>4. /\ GoesOn(r, Got(s)) \/ GoesOn(r, t) \/ Fails(r, s, b)
      /\ UNCHANGED cache
  BY <1>1, <1>2, <1>3, Zenon DEF ReadBlock
<1>5. s \in ReaderLike /\ Proper(s) /\ s.left > 0
  BY <1>1, ReaderFacts DEF Bounded, ReadBlock
<1>6. Fits(cache') /\ Spanned(cache')
  BY <1>4 DEF Bounded
<1>7. CASE GoesOn(r, Got(s))
  BY <1>5, <1>6, <1>7, GotIsProper, GoesOnBounded
<1>8. CASE GoesOn(r, t)
  <2>1. SameExtentRead(s, t)
    BY <1>2, <1>5 DEF ReaderLike, SameExtentRead, HasFile
  <2> QED BY <1>5, <1>6, <1>8, <2>1, SameIsProper, GoesOnBounded
<1>9. CASE Fails(r, s, b)
  BY <1>5, <1>6, <1>9, FailsBounded
<1> QED BY <1>4, <1>7, <1>8, <1>9

LEMMA GrownBounded ==
  ASSUME IInv, Bounded, NEW r \in Readers, At(r, "writing")
  PROVE  Fits(Grown(cache, reader[r].file)) /\ Spanned(Grown(cache, reader[r].file))
<1>1. PICK s, file : s = reader[r] /\ file = s.file
  OBVIOUS
<1>2. PICK d : d = Grown(cache, file)
  OBVIOUS
<1>3. s \in ReaderLike /\ Proper(s) /\ s.left > 0 /\ Sound(cache)
  <2>1. s.pc = "writing" /\ s \in ReaderLike /\ Goes(s) /\ Proper(s)
    BY <1>1, ReaderFacts DEF At, Bounded
  <2> QED BY <2>1 DEF Goes, IInv
<1>4. /\ d.cachedSpans = cache.cachedSpans
      /\ \A f \in d.files : IsNamed(file, f) => End(f) <= s.readPosition + 1
  BY <1>1, <1>2, GrownInHole
<1>5. CASE ~Exists(cache, file)
  <2>1. d = cache
    BY <1>2, <1>5 DEF Grown
  <2> QED BY <1>1, <1>2, <2>1 DEF Bounded
<1>6. CASE Exists(cache, file)
  <2>1. PICK f : f = FileOf(cache, file)
    OBVIOUS
  <2>2. f \in cache.files /\ IsNamed(f, file)
    BY <1>3, <1>6, <2>1, TheFile
  <2>3. PICK n : n = f.length + 1
    OBVIOUS
  <2>4. PICK g : g = [f EXCEPT !.length = n]
    OBVIOUS
  <2>5. d = [Deleted(cache, file) EXCEPT !.files = @ \cup {g}]
    BY <1>2, <1>6, <2>1, <2>3, <2>4 DEF Grown
  <2>6. Fits(d)
    BY <1>3, <2>5, RenewedFits DEF Bounded
  <2>7. f \in Span
    BY <2>2 DEF Bounded, Spanned, Spans, InStream
  <2>8. g.key = f.key /\ g.position = f.position /\ g.time = f.time /\ g.length = n
    BY <2>4, <2>7 DEF Span
  <2>9. /\ d.files = {h \in cache.files : ~IsNamed(h, file)} \cup {g}
    <3>1. /\ IsCache(Deleted(cache, file))
          /\ Deleted(cache, file).files = {h \in cache.files : ~IsNamed(h, file)}
      BY <1>3, DeletedShrinks DEF Shrinks
    <3>2. PICK e : e = Deleted(cache, file)
      OBVIOUS
    <3>3. d = [e EXCEPT !.files = @ \cup {g}] /\ IsCache(e)
      BY <2>5, <3>1, <3>2
    <3>4. d.files = e.files \cup {g}
      BY <3>3 DEF IsCache
    <3> QED BY <3>1, <3>2, <3>4
  <2>10. End(g) <= StreamLength
    <3>1. IsNamed(file, g)
      BY <2>2, <2>8 DEF IsNamed
    <3>2. End(g) <= s.readPosition + 1
      BY <1>4, <2>9, <3>1
    <3>3. /\ s.readPosition \in Nat /\ s.left \in Int /\ s.bytesRemaining \in Int
          /\ f.length \in Int /\ f.position \in Int
      BY <1>3, <2>7 DEF ReaderLike, Span
    <3>4. End(g) \in Int
      BY <2>3, <2>8, <3>3 DEF End
    <3>5. s.left <= s.bytesRemaining /\ s.readPosition + s.bytesRemaining <= StreamLength
      BY <1>3 DEF Proper
    <3> QED BY <1>3, <3>2, <3>3, <3>4, <3>5, CacheAssumption
  <2>11. g \in Span
    <3>1. n \in 0..StreamLength
      BY <2>3, <2>7, <2>8, <2>10, CacheAssumption DEF Span, End
    <3> QED BY <2>4, <2>7, <3>1 DEF Span
  <2>12. Spanned(d)
    BY <1>4, <2>9, <2>10, <2>11 DEF Spanned, Spans, InStream, Bounded
  <2> QED BY <1>1, <1>2, <2>6, <2>12
<1> QED BY <1>5, <1>6

LEMMA WriteBounded ==
  ASSUME Somewhere, IInv, Bounded, NEW r \in Readers, Write(r)
  PROVE  Bounded'
<1>1. PICK s : s = reader[r]
  OBVIOUS
<1>2. PICK t : t = [s EXCEPT !.pc = "committing", !.outputStream = FALSE,
                             !.after = "write"]
  OBVIOUS
<1>3. /\ \/ GoesOn(r, t) /\ UNCHANGED cache
         \/ GoesOn(r, Got(s)) /\ cache' = Grown(cache, s.file)
         \/ Fails(r, s, TRUE) /\ cache' \in {cache, Grown(cache, s.file)}
      /\ At(r, "writing")
  BY <1>1, <1>2, Zenon DEF Write
<1>4. s \in ReaderLike /\ Proper(s) /\ s.left > 0 /\ s.outputStream
  <2>1. s.pc = "writing" /\ s \in ReaderLike /\ Goes(s) /\ Proper(s)
    BY <1>1, <1>3, ReaderFacts DEF At, Bounded
  <2> QED BY <2>1 DEF Goes
<1>5. Fits(Grown(cache, s.file)) /\ Spanned(Grown(cache, s.file))
  BY <1>1, <1>3, GrownBounded
<1>6. Fits(cache) /\ Spanned(cache)
  BY DEF Bounded
<1>7. CASE GoesOn(r, t) /\ UNCHANGED cache
  <2>1. SameExtentRead(s, t)
    BY <1>2, <1>4 DEF ReaderLike, SameExtentRead, HasFile
  <2> QED BY <1>4, <1>7, <2>1, SameIsProper, QuietBounded
<1>8. CASE GoesOn(r, Got(s)) /\ cache' = Grown(cache, s.file)
  BY <1>4, <1>5, <1>8, GotIsProper, GoesOnBounded
<1>9. CASE Fails(r, s, TRUE) /\ cache' \in {cache, Grown(cache, s.file)}
  <2>1. Fits(cache') /\ Spanned(cache')
    BY <1>5, <1>6, <1>9
  <2>2. PICK b \in BOOLEAN : Fails(r, s, b)
    BY <1>9
  <2> QED BY <1>4, <2>1, <2>2, FailsBounded
<1> QED BY <1>3, <1>7, <1>8, <1>9

LEMMA openNextOutputStreamBounded ==
  ASSUME Somewhere, IInv, Bounded, NEW r \in Readers, openNextOutputStream(r)
  PROVE  Bounded'
<1>1. PICK s : s = reader[r]
  OBVIOUS
<1>2. PICK n : n = Least(s.left, MaxCacheFileSize)
  OBVIOUS
<1>3. PICK c : c = startFile(cache, n)
  OBVIOUS
<1>4. PICK p \in {"writing", "open"} : p = IF s.after = "write" THEN "writing" ELSE "open"
  OBVIOUS
<1>5. PICK u : u = [s EXCEPT !.after = "read"]
  OBVIOUS
<1>6. \/ \E now \in Times :
           LET f == NewFile(s.key, s.readPosition, now)
           IN  /\ cache' = Created(c, f)
               /\ GoesOn(r, [s EXCEPT !.file = f, !.outputStream = TRUE,
                                      !.after = "read", !.pc = p])
      \/ cache' = c /\ Fails(r, u, TRUE)
  BY <1>1, <1>2, <1>3, <1>4, <1>5, Zenon DEF openNextOutputStream
<1>7. /\ s \in ReaderLike /\ s.pc = "starting" /\ Proper(s)
      /\ s.left > 0 /\ ~HasFile(s)
  <2>1. s.pc = "starting"
    BY <1>1, Zenon DEF openNextOutputStream, At
  <2>2. /\ s.pc = "starting" /\ s \in ReaderLike /\ Goes(s) /\ Proper(s)
        /\ Holds(r, s, lockedSpans, unread)
    BY <1>1, <2>1, ReaderFacts DEF Bounded
  <2>3. s.left > 0
    BY <2>2 DEF Goes
  <2>4. ~HasFile(s)
    BY <2>2 DEF Holds, HasFile
  <2> QED BY <2>2, <2>3, <2>4
<1>8. s.left \in Int /\ s.readPosition \in Nat /\ s.bytesRemaining \in Int
  BY <1>7 DEF ReaderLike
<1>9. n \in Nat /\ n <= MaxBytes
  BY <1>2, <1>7, <1>8, SizesAssumption, CacheAssumption DEF Least
<1>10. Sound(cache) /\ Shrinks(cache, c) /\ Sound(c) /\ Fits(c)
  BY <1>3, <1>9, StartShrinks, ShrinksIsSound, StartedFits DEF IInv, Bounded
<1>11. Spanned(c)
  BY <1>10, ShrinksIsSpanned DEF Bounded
<1>12. CASE \E now \in Times :
              LET f == NewFile(s.key, s.readPosition, now)
              IN  /\ cache' = Created(c, f)
                  /\ GoesOn(r, [s EXCEPT !.file = f, !.outputStream = TRUE,
                                         !.after = "read", !.pc = p])
  <2>1. PICK now \in Times :
          LET f == NewFile(s.key, s.readPosition, now)
          IN  /\ cache' = Created(c, f)
              /\ GoesOn(r, [s EXCEPT !.file = f, !.outputStream = TRUE,
                                     !.after = "read", !.pc = p])
    BY <1>12, Zenon
  <2>2. PICK f : f = NewFile(s.key, s.readPosition, now)
    OBVIOUS
  <2>3. PICK t : t = [s EXCEPT !.file = f, !.outputStream = TRUE,
                               !.after = "read", !.pc = p]
    OBVIOUS
  <2>4. cache' = Created(c, f) /\ GoesOn(r, t)
    BY <2>1, <2>2, <2>3, Zenon
  <2>5. s.key \in Keys /\ s.readPosition \in 0..StreamLength
        /\ s.readPosition < s.readPosition + s.left /\ 0 <= StreamLength
    BY <1>7, <1>8, CacheAssumption DEF Proper
  <2>6. f.key = s.key /\ f.position = s.readPosition /\ f.length = 0 /\ f \in Span
    BY <2>2, <2>5 DEF NewFile, Span
  <2>7. InStream(f)
    BY <2>5, <2>6 DEF InStream, End
  <2>8. Fits(cache')
    BY <1>10, <2>4, RenewedFits DEF Created
  <2>9. Spanned(cache')
    <3>1. PICK d : d = Deleted(c, f)
      OBVIOUS
    <3>2. IsCache(d) /\ d.files \subseteq c.files /\ d.cachedSpans = c.cachedSpans
      BY <1>10, <3>1, DeletedShrinks DEF Shrinks
    <3>3. cache' = [d EXCEPT !.files = @ \cup {f}]
      BY <2>4, <3>1 DEF Created
    <3>4. cache'.files = d.files \cup {f} /\ cache'.cachedSpans = d.cachedSpans
      BY <3>2, <3>3 DEF IsCache
    <3> QED BY <1>11, <2>7, <3>2, <3>4 DEF Spanned, Spans
  <2>10. /\ t.key = s.key /\ t.readPosition = s.readPosition /\ t.left = s.left
         /\ t.bytesRemaining = s.bytesRemaining /\ t.file = f /\ t.found = s.found
         /\ t.pc = p
    BY <1>7, <2>3 DEF ReaderLike
  <2>11. Proper(t)
    BY <1>4, <1>7, <2>5, <2>6, <2>7, <2>10 DEF Proper
  <2> QED BY <2>4, <2>8, <2>9, <2>11, GoesOnBounded, Zenon
<1>13. CASE cache' = c /\ Fails(r, u, TRUE)
  <2>1. u \in ReaderLike /\ SameExtentRead(s, u)
    BY <1>5, <1>7 DEF ReaderLike, SameExtentRead, HasFile
  <2>2. Proper(u)
    BY <1>7, <2>1, SameIsProper
  <2>3. PICK b \in BOOLEAN : Fails(r, u, b)
    BY <1>13
  <2> QED BY <1>10, <1>11, <1>13, <2>1, <2>2, <2>3, FailsBounded
<1> QED BY <1>6, <1>12, <1>13, Zenon

LEMMA NewIsProper ==
  ASSUME Somewhere, NEW b \in BOOLEAN
  PROVE  Proper([NewReader EXCEPT !.ignoreCache = b]) /\ Proper(NewReader)
<1>1. PICK f : f = NoFile
  OBVIOUS
<1>2. InStream(f)
  BY <1>1, NoFileInStream
<1>3. Min(Keys) \in Keys /\ 0 + 0 <= StreamLength /\ 0 <= 0
  BY CacheAssumption, LeastNumber DEF Somewhere
<1>4. PICK s : s = NewReader
  OBVIOUS
<1>5. /\ s.key = Min(Keys) /\ s.file = f /\ s.found = f /\ s.left = 0
      /\ s.bytesRemaining = 0 /\ s.readPosition = 0 /\ s.pc = "closed" /\ ~s.outputStream
  BY <1>1, <1>4 DEF NewReader
<1>6. PICK t : t = [s EXCEPT !.ignoreCache = b]
  OBVIOUS
<1>7. /\ t.key = s.key /\ t.file = s.file /\ t.found = s.found /\ t.left = s.left
      /\ t.bytesRemaining = s.bytesRemaining /\ t.readPosition = s.readPosition
      /\ t.pc = s.pc /\ (t.outputStream <=> s.outputStream)
  BY <1>4, <1>6 DEF NewReader
<1>8. ~HasFile(s) /\ ~HasFile(t)
  BY <1>5, <1>7 DEF HasFile
<1>9. Proper(s) /\ Proper(t)
  BY <1>2, <1>3, <1>5, <1>7, <1>8 DEF Proper
<1> QED BY <1>4, <1>6, <1>9

LEMMA ResumedIsProper ==
  ASSUME Somewhere, NEW s \in ReaderLike, Proper(s), ~s.outputStream
  PROVE  Proper(Resumed(s))
<1>1. CASE s.after = "close"
  BY <1>1, NewIsProper DEF Resumed, Closed, ReaderLike
<1>2. CASE s.after # "close"
  <2>1. PICK p \in {"next", "open"} : p = IF s.bytesRemaining > 0 THEN "next" ELSE "open"
    OBVIOUS
  <2>2. PICK f : f = NoFile
    OBVIOUS
  <2>3. PICK t : t = [s EXCEPT !.pc = p, !.source = "none", !.left = 0,
                               !.lockedSpan = FALSE, !.file = f]
    OBVIOUS
  <2>4. t = Resumed(s)
    BY <1>2, <2>1, <2>2, <2>3 DEF Resumed
  <2>5. /\ t.key = s.key /\ t.readPosition = s.readPosition /\ t.left = 0
        /\ t.bytesRemaining = s.bytesRemaining /\ t.file = f /\ t.found = s.found
        /\ t.pc = p
    BY <2>3 DEF ReaderLike
  <2>6. t.outputStream = s.outputStream
    BY <2>3 DEF ReaderLike
  <2>7. ~HasFile(t) /\ InStream(f)
    BY <2>1, <2>2, <2>5, <2>6, NoFileInStream DEF HasFile
  <2>8. 0 <= 0 /\ 0 <= s.bytesRemaining
    BY DEF Proper, ReaderLike
  <2>9. Proper(t)
    BY <2>5, <2>7, <2>8 DEF Proper
  <2> QED BY <2>4, <2>9
<1> QED BY <1>1, <1>2

LEMMA closeCurrentSourceBounded ==
  ASSUME Somewhere, IInv, Bounded, NEW r \in Readers, NEW s \in ReaderLike, Proper(s),
         closeCurrentSource(r, s)
  PROVE  Bounded'
<1>1. PICK t : t = [s EXCEPT !.pc = "committing", !.outputStream = FALSE]
  OBVIOUS
<1>2. PICK u : u = [s EXCEPT !.pc = "releasing"]
  OBVIOUS
<1>3. /\ \/ s.outputStream /\ GoesOn(r, t)
         \/ ~s.outputStream /\ GoesOn(r, u)
         \/ ~s.outputStream /\ GoesOn(r, Resumed(s))
      /\ UNCHANGED cache
  BY <1>1, <1>2, Zenon DEF closeCurrentSource
<1>4. CASE s.outputStream /\ GoesOn(r, t)
  <2>1. SameExtentRead(s, t)
    BY <1>1, <1>4 DEF ReaderLike, SameExtentRead, HasFile
  <2> QED BY <1>3, <1>4, <2>1, SameIsProper, QuietBounded
<1>5. CASE ~s.outputStream /\ GoesOn(r, u)
  <2>1. SameExtentRead(s, u)
    BY <1>2, <1>5 DEF ReaderLike, SameExtentRead, HasFile
  <2> QED BY <1>3, <1>5, <2>1, SameIsProper, QuietBounded
<1>6. CASE ~s.outputStream /\ GoesOn(r, Resumed(s))
  BY <1>3, <1>6, ResumedIsProper, QuietBounded
<1> QED BY <1>3, <1>4, <1>5, <1>6

LEMMA ClosingBounded ==
  ASSUME Somewhere, IInv, Bounded, NEW r \in Readers, ReadEnd(r) \/ Close(r)
  PROVE  Bounded'
<1>1. PICK s : s = reader[r]
  OBVIOUS
<1>2. PICK t : t = [s EXCEPT !.after = "close"]
  OBVIOUS
<1>3. /\ closeCurrentSource(r, s) \/ closeCurrentSource(r, t)
      /\ s.pc \in {"open", "failed"}
  BY <1>1, <1>2, Zenon DEF ReadEnd, Close, At
<1>4. s \in ReaderLike /\ Proper(s)
  BY <1>1, ReaderFacts DEF Bounded
<1>5. t \in ReaderLike
  BY <1>2, <1>4 DEF ReaderLike
<1>6. SameExtentRead(s, t)
  BY <1>2, <1>3, <1>4 DEF ReaderLike, SameExtentRead, HasFile
<1> QED BY <1>3, <1>4, <1>5, <1>6, SameIsProper, closeCurrentSourceBounded

\* The others do not move, or are woken.
LEMMA WokenBounded ==
  ASSUME Somewhere, IInv, Bounded, NEW r \in Readers,
         NEW t \in ReaderLike, t.pc # "waiting", Proper(t),
         NEW S, S = [reader EXCEPT ![r] = t], reader' \in {S, Woken(S)},
         Fits(cache'), Spanned(cache')
  PROVE  Bounded'
<1>1. /\ reader'[r] = t
      /\ \A x \in Readers \ {r} : Woke(reader[x], reader'[x])
  BY WokenReaders
<1>2. ASSUME NEW x \in Readers \ {r}
      PROVE  Proper(reader'[x])
  <2>1. PICK s, u : s = reader[x] /\ u = reader'[x]
    OBVIOUS
  <2>2. s \in ReaderLike /\ Proper(s) /\ Woke(s, u)
    BY <1>1, <2>1, ReaderFacts DEF Bounded
  <2>3. CASE s.pc = "waiting" /\ u = [s EXCEPT !.pc = "next"]
    <3>1. SameExtentRead(s, u)
      BY <2>2, <2>3 DEF ReaderLike, SameExtentRead, HasFile
    <3> QED BY <2>1, <2>2, <3>1, SameIsProper
  <2> QED BY <2>1, <2>2, <2>3 DEF Woke
<1> QED BY <1>1, <1>2 DEF Bounded

LEMMA commitFile_Bounded ==
  ASSUME Somewhere, IInv, Bounded, NEW r \in Readers, commitFile_(r)
  PROVE  Bounded'
<1>1. PICK s, file : s = reader[r] /\ file = s.file
  OBVIOUS
<1>2. PICK p \in {"starting", "releasing"} : p = IF s.after = "write" THEN "starting"
                                                 ELSE "releasing"
  OBVIOUS
<1>3. PICK t : t = [s EXCEPT !.pc = p]
  OBVIOUS
<1>4. PICK S : S = [reader EXCEPT ![r] = t]
  OBVIOUS
<1>5. reader' \in {S, Woken(S)} /\ cache' = commitFile(cache, file)
  <2>1. [reader EXCEPT ![r].pc = p] = S
    BY <1>1, <1>3, <1>4
  <2> QED BY <1>1, <1>2, <2>1 DEF commitFile_
<1>6. /\ s.pc = "committing" /\ s \in ReaderLike /\ Proper(s)
      /\ Holds(r, s, lockedSpans, unread) /\ Writes(s, cache)
  BY <1>1, ReaderFacts DEF commitFile_, At, Bounded
<1>7. HasFile(s) /\ s.lockedSpan /\ ~s.outputStream
  BY <1>6 DEF Holds, HasFile
<1>8. t \in ReaderLike /\ t.pc = p /\ t.pc # "waiting"
  BY <1>2, <1>3, <1>6 DEF ReaderLike
<1>9. SameExtentRead(s, t)
  BY <1>2, <1>3, <1>6, <1>7 DEF ReaderLike, SameExtentRead, HasFile
<1>10. Proper(t)
  BY <1>6, <1>9, SameIsProper
<1>11. Sound(cache) /\ Fits(cache) /\ Spanned(cache)
  BY DEF IInv, Bounded
<1>12. \A g \in cache.files : IsNamed(g, file) => g \notin cache.cachedSpans
  <2> SUFFICES ASSUME NEW g \in cache.cachedSpans, IsNamed(g, file)
               PROVE  FALSE
    OBVIOUS
  <2>1. /\ Free(cache, s.key, file.position, s.readPosition + s.left)
        /\ file.key = s.key /\ file.position < s.readPosition + s.left
    BY <1>1, <1>6, <1>7 DEF Writes, Base, Proper
  <2>2. g.key = s.key /\ g.position = file.position
    BY <2>1 DEF IsNamed
  <2>3. g \in Part /\ g.length > 0
    BY <1>11 DEF Sound, IsCache
  <2>4. End(g) <= file.position \/ s.readPosition + s.left <= g.position
    BY <2>1, <2>2 DEF Free
  <2>5. s.readPosition + s.left \in Int /\ file.position \in Int
    BY <1>1, <1>6 DEF ReaderLike, Part
  <2> QED BY <2>1, <2>2, <2>3, <2>4, <2>5 DEF End, Part
<1>13. Fits(cache')
  BY <1>5, <1>11, <1>12, CommittedFits
<1>14. Spanned(cache')
  BY <1>5, <1>11, CommitFollows DEF Spanned, Spans
<1> QED BY <1>4, <1>5, <1>8, <1>10, <1>13, <1>14, WokenBounded, Zenon

LEMMA releaseHoleSpanBounded ==
  ASSUME Somewhere, IInv, Bounded, NEW r \in Readers, releaseHoleSpan(r)
  PROVE  Bounded'
<1>1. PICK s : s = reader[r]
  OBVIOUS
<1>2. PICK t : t = Resumed(s)
  OBVIOUS
<1>3. PICK S : S = [reader EXCEPT ![r] = t]
  OBVIOUS
<1>4. reader' = Woken(S) /\ UNCHANGED cache
  BY <1>1, <1>2, <1>3 DEF releaseHoleSpan
<1>5. /\ s.pc = "releasing" /\ s \in ReaderLike /\ Proper(s)
      /\ Holds(r, s, lockedSpans, unread) /\ Goes(s)
  BY <1>1, ReaderFacts DEF releaseHoleSpan, At, Bounded
<1>6. ~s.outputStream /\ s.after \in {"read", "close"} /\ s.key \in Keys
  BY <1>5 DEF Holds, Goes, ReaderLike
<1>7. t \in ReaderLike /\ t.pc # "waiting"
  BY <1>2, <1>5, <1>6, ResumedHoldsNothing
<1>8. Proper(t)
  BY <1>2, <1>5, <1>6, ResumedIsProper
<1>9. Fits(cache') /\ Spanned(cache')
  BY <1>4 DEF Bounded
<1> QED BY <1>3, <1>4, <1>7, <1>8, <1>9, WokenBounded, Zenon

LEMMA ClearBounded ==
  ASSUME IInv, Bounded, Clear
  PROVE  Bounded'
<1>1. PICK c : c = cache
  OBVIOUS
<1>2. PICK d : d = [c EXCEPT !.files = {}, !.dirExists = FALSE]
  OBVIOUS
<1>3. IsCache(c) /\ Fits(c) /\ Spanned(c)
  BY <1>1 DEF IInv, Sound, Bounded
<1>4. cache' = d /\ UNCHANGED reader
  BY <1>1, <1>2 DEF Clear
<1>5. /\ d.files = {} /\ d.cachedSpans = c.cachedSpans /\ d.totalSpace = c.totalSpace
      /\ d.currentSize = c.currentSize
  BY <1>2, <1>3 DEF IsCache
<1>6. Fits(d) /\ Spanned(d)
  BY <1>3, <1>5, FitsAsItWas DEF Spanned, Spans
<1>7. Fits(cache') /\ Spanned(cache') /\ \A r \in Readers : Proper(reader'[r])
  BY <1>4, <1>6 DEF Bounded
<1> QED BY <1>7 DEF Bounded

LEMMA NewProcessFits ==
  ASSUME NEW files, \A f \in files : InStream(f)
  PROVE  Fits(NewCache(files)) /\ Spanned(NewCache(files))
<1>1. PICK c : c = NewCache(files)
  OBVIOUS
<1>2. /\ c.files = files /\ c.cachedSpans = {}
      /\ c.totalSpace = 0 /\ c.currentSize = 0
  BY <1>1 DEF NewCache
<1>3. IsFiniteSet({}) /\ SizeOf({}) = 0
  BY FS_EmptySet, SizeIsSum, SumOfNone
<1>4. Fits(c) /\ Spanned(c)
  BY <1>2, <1>3, CacheAssumption DEF Fits, Counted, Spanned, Spans
<1> QED BY <1>1, <1>4

LEMMA CrashBounded ==
  ASSUME Somewhere, IInv, Bounded, Crash
  PROVE  Bounded'
<1>1. /\ cache' = NewCache(cache.files)
      /\ \A r \in Readers : reader'[r] = NewReader
  BY DEF Crash
<1>2. \A f \in cache.files : InStream(f)
  BY DEF Bounded, Spanned, Spans
<1>3. Fits(cache') /\ Spanned(cache')
  BY <1>1, <1>2, NewProcessFits
<1> QED BY <1>1, <1>3, NewIsProper DEF Bounded

LEMMA initializeBounded ==
  ASSUME Somewhere, IInv, Bounded, initialize
  PROVE  Bounded'
<1>1. PICK f \in unread : cache' = initialized(cache, f) /\ UNCHANGED reader
  BY DEF initialize
<1>2. /\ f \in cache.files /\ f \notin cache.cachedSpans
      /\ Sound(cache) /\ Fits(cache) /\ Spanned(cache)
  BY DEF IInv, Unread, Bounded
<1>3. Fits(cache')
  BY <1>1, <1>2, InitializedFits
<1>4. Spanned(cache')
  BY <1>1, <1>2, InitializedFollows DEF Spanned, Spans
<1> QED BY <1>1, <1>3, <1>4 DEF Bounded

LEMMA InitiallyBounded ==
  ASSUME Somewhere, Init
  PROVE  Bounded
<1>1. cache = NewCache({}) /\ \A r \in Readers : reader[r] = NewReader
  BY DEF Init
<1>2. Fits(cache) /\ Spanned(cache)
  BY <1>1, NewProcessFits
<1> QED BY <1>1, <1>2, NewIsProper DEF Bounded

LEMMA EveryStepBounded ==
  ASSUME Somewhere, IInv, Bounded, [Next]_vars
  PROVE  Bounded'
<1>1. CASE \E r \in Readers : Open(r) \/ Proceeds(r) \/ Interrupted(r)
  <2>1. PICK r \in Readers : Open(r) \/ Proceeds(r) \/ Interrupted(r)
    BY <1>1
  <2>2. CASE Open(r)
    BY <2>2, OpenBounded
  <2>3. CASE Interrupted(r)
    BY <2>3, InterruptedBounded
  <2>4. CASE startReadWrite(r)
    BY <2>4, startReadWriteBounded
  <2>5. CASE OpenSource(r)
    BY <2>5, OpenSourceBounded
  <2>6. CASE openNextOutputStream(r)
    BY <2>6, openNextOutputStreamBounded
  <2>7. CASE ReadBlock(r)
    BY <2>7, ReadBlockBounded
  <2>8. CASE Write(r)
    BY <2>8, WriteBounded
  <2>9. CASE ReadEnd(r) \/ Close(r)
    BY <2>9, ClosingBounded
  <2>10. CASE commitFile_(r)
    BY <2>10, commitFile_Bounded
  <2>11. CASE releaseHoleSpan(r)
    BY <2>11, releaseHoleSpanBounded
  <2> QED
    BY <2>1, <2>2, <2>3, <2>4, <2>5, <2>6, <2>7, <2>8, <2>9, <2>10, <2>11 DEF Proceeds
<1>2. CASE Clear
  BY <1>2, ClearBounded
<1>3. CASE Crash
  BY <1>3, CrashBounded
<1>4. CASE initialize
  BY <1>4, initializeBounded
<1>5. CASE UNCHANGED vars
  <2>1. UNCHANGED <<cache, reader>>
    BY <1>5 DEF vars
  <2> QED BY <2>1 DEF Bounded
<1> QED
  BY <1>1, <1>2, <1>3, <1>4, <1>5 DEF Next

LEMMA BoundedInvariance ==
  ASSUME Somewhere
  PROVE  Spec => [](IInv /\ Bounded)
<1>1. Init => IInv /\ Bounded
  BY Initially, InitiallyBounded
<1>2. (IInv /\ Bounded) /\ [Next]_vars => (IInv /\ Bounded)'
  BY EveryStep, EveryStepBounded
<1> QED BY <1>1, <1>2, PTL DEF Spec

\* What cache and evictor count is what is on the disk, and never more than they
\* may keep: the spans of the memory are summed right, whatever is evicted,
\* committed, touched, found gone or read again after a crash.
THEOREM SpaceIsTold ==
  ASSUME Keys # {}, Times # {}
  PROVE  Spec => []MemoryTellsTheDisk
<1>1. Somewhere
  BY DEF Somewhere
<1>2. IInv /\ Bounded => MemoryTellsTheDisk
  BY DEF IInv, Bounded, Sound, Fits, Counted, MemoryTellsTheDisk, SpaceIsCounted
<1> QED BY <1>1, <1>2, BoundedInvariance, PTL

\* Positions, lengths and what a reader has left stay within its stream, and the
\* spans in memory and on the disk with them.
THEOREM CacheTyped ==
  ASSUME Keys # {}, Times # {}
  PROVE  Spec => []TypeOK
<1>1. Somewhere
  BY DEF Somewhere
<1>2. ASSUME IInv, Bounded PROVE TypeOK
  <2>1. cache \in Cache
    <3>1. PICK c : c = cache
      OBVIOUS
    <3>2. IsCache(c) /\ c.leastRecentlyUsed = c.cachedSpans /\ Fits(c)
      BY <1>2, <3>1 DEF IInv, Sound, Bounded
    <3>3. c.files \in SUBSET Span /\ c.cachedSpans \in SUBSET Span
      BY <1>2, <3>1 DEF Bounded, Spanned, Spans, InStream
    <3>4. c.totalSpace \in Int /\ c.currentSize \in Int
      <4>1. c.cachedSpans \in SUBSET Part /\ IsFiniteSet(c.cachedSpans)
        BY <3>2 DEF IsCache, Fits, Counted
      <4>2. SizeOf(c.cachedSpans) \in Nat
        BY <4>1, SizeOfParts
      <4> QED BY <3>2, <4>2 DEF Fits, Counted
    <3> QED BY <3>1, <3>2, <3>3, <3>4 DEF IsCache, Cache
  <2>2. reader \in [Readers -> Reader]
    <3>1. ASSUME NEW r \in Readers PROVE reader[r] \in Reader
      <4>1. PICK s : s = reader[r]
        OBVIOUS
      <4>2. s \in ReaderLike /\ Proper(s)
        BY <1>2, <4>1, ReaderFacts DEF Bounded
      <4>3. /\ s.key \in Keys /\ s.file \in Span /\ s.found \in Span
        BY <4>2 DEF Proper, InStream
      <4>4. /\ s.readPosition \in 0..StreamLength /\ s.bytesRemaining \in 0..StreamLength
            /\ s.left \in 0..StreamLength
        BY <4>2, CacheAssumption DEF Proper, ReaderLike
      <4>5. s \in Reader
        BY <4>2, <4>3, <4>4 DEF ReaderLike, Reader
      <4> QED BY <4>1, <4>5
    <3>2. reader \in [Readers -> ReaderLike]
      BY <1>2 DEF IInv, Typed
    <3> QED BY <3>1, <3>2
  <2>3. lockedSpans \in [Keys -> Readers \cup {"nobody"}]
    BY <1>2 DEF IInv, Typed
  <2>4. unread \in SUBSET Span
    BY <1>2 DEF IInv, Unread, Bounded, Spanned, Spans, InStream
  <2> QED BY <2>1, <2>2, <2>3, <2>4 DEF TypeOK
<1> QED BY <1>1, <1>2, BoundedInvariance, PTL
=============================================================================
