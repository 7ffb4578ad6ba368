----------------------------- MODULE SimpleCache -----------------------------
(* A cache of pieces of streams in files: SimpleCache, CacheSpan and         *)
(* LeastRecentlyUsedCacheEvictor. Every operation holds the cache's monitor  *)
(* to its end, so one is an operator on the cache. Lengths count blocks.     *)
EXTENDS Integers, FiniteSetsExt

CONSTANTS Keys,                 \* of streams, numbers for their order
          Times,                \* that the clock may show, forwards or not
          StreamLength,         \* of every stream
          MaxBytes              \* the evictor keeps
ASSUME CacheAssumption ==
  Keys \subseteq Nat /\ Times \subseteq Nat /\ {StreamLength, MaxBytes} \subseteq Nat

\* A file is named by its key, position and time, and a cached span is the
\* record in memory of such a file.
Span == [key : Keys, position : 0..StreamLength, time : Times, length : 0..StreamLength]
IsNamed(f, s) == f.key = s.key /\ f.position = s.position /\ f.time = s.time

\* The set of spans of a key and its order know them by their position alone.
SamePlace(s, t) == s.key = t.key /\ s.position = t.position
End(s) == s.position + s.length

\* The directory's files, whether it exists, and what is kept in memory by the
\* cache and by the evictor.
Cache == [files : SUBSET Span, dirExists : BOOLEAN,
          cachedSpans : SUBSET Span, totalSpace : Int,
          leastRecentlyUsed : SUBSET Span, currentSize : Int]

\* Before initialize has looked at the files there are.
NewCache(files) ==
  [files |-> files, dirExists |-> TRUE, cachedSpans |-> {}, totalSpace |-> 0,
   leastRecentlyUsed |-> {}, currentSize |-> 0]

SizeOf(spans) == MapThenSumSet(LAMBDA s : s.length, spans)

Exists(c, s) == \E f \in c.files : IsNamed(f, s)
FileOf(c, s) == CHOOSE f \in c.files : IsNamed(f, s)
Deleted(c, s) == [c EXCEPT !.files = {f \in @ : ~IsNamed(f, s)}]
-----------------------------------------------------------------------------
\* Spans leave the memory of cache and evictor.
Forgotten_SpaceStays(c, spans) ==
  [c EXCEPT !.cachedSpans = {t \in @ : \A s \in spans : ~SamePlace(s, t)},
            !.leastRecentlyUsed = @ \ spans,
            !.currentSize = @ - SizeOf(spans)]
Forgotten(c, spans) ==
  [c EXCEPT !.cachedSpans = {t \in @ : \A s \in spans : ~SamePlace(s, t)},
            !.totalSpace = @ - SizeOf(spans),
            !.leastRecentlyUsed = @ \ spans,
            !.currentSize = @ - SizeOf(spans)]

removeStaleSpans(c) ==
  LET stale == {s \in c.cachedSpans : ~Exists(c, s)}
  IN  IF stale = {} THEN c ELSE Forgotten(c, stale)

\* The evictor's order: by time, then by key and position.
Older(s, t) ==
  \/ s.time < t.time
  \/ s.time = t.time /\ s.key < t.key
  \/ s.time = t.time /\ s.key = t.key /\ s.position < t.position

\* The oldest span is removed while the rest with the required space is too
\* much: a span goes if, with all older ones gone, there still is.
Evicted(c, requiredSpace) ==
  {s \in c.leastRecentlyUsed :
     c.currentSize - SizeOf({t \in c.leastRecentlyUsed : Older(t, s)}) + requiredSpace
       > MaxBytes}
evictCache(c, requiredSpace) ==
  IF c.currentSize + requiredSpace <= MaxBytes THEN c
  ELSE LET gone == Evicted(c, requiredSpace)
           kept == {f \in c.files : \A s \in gone : ~IsNamed(f, s)}
       IN  [Forgotten(c, gone) EXCEPT !.files = kept]

addSpan(c, s) ==
  evictCache([c EXCEPT !.cachedSpans = IF \E t \in @ : SamePlace(s, t)
                                       THEN @ ELSE @ \cup {s},
                       !.totalSpace = @ + s.length,
                       !.leastRecentlyUsed = @ \cup {s},
                       !.currentSize = @ + s.length], 0)

\* A file initialize finds: an empty one is deleted.
initialized(c, f) == IF f.length = 0 THEN Deleted(c, f) ELSE addSpan(c, f)
-----------------------------------------------------------------------------
\* The span at a position, by looking at the last one that does not begin
\* behind it.
FloorSpan(c, key, position) ==
  {s \in c.cachedSpans :
     /\ s.key = key /\ s.position <= position
     /\ \A t \in c.cachedSpans :
          t.key = key /\ t.position <= position => t.position <= s.position}
Covering(c, key, position) == {s \in FloorSpan(c, key, position) : position < End(s)}

\* getSpan looks again when the file of what it found is gone.
Looked(c, key, position) ==
  IF \E s \in Covering(c, key, position) : ~Exists(c, s) THEN removeStaleSpans(c) ELSE c

\* The length of the hole at a position nobody covers: to the next span, or -1.
HoleLength_Open(c, key, position) == -1
HoleLength(c, key, position) ==
  LET behind == {s.position : s \in {t \in c.cachedSpans :
                                       t.key = key /\ t.position > position}}
  IN  IF behind = {} THEN -1 ELSE Min(behind) - position

\* A span that is found gets a new time, and its file a new name.
Touched(c, s, now) == [FileOf(c, s) EXCEPT !.time = now]
touch(c, s, now) ==
  LET new == Touched(c, s, now)
  IN  evictCache([c EXCEPT !.files = {f \in @ : ~IsNamed(f, s) /\ ~IsNamed(f, new)}
                                       \cup {new},
                           !.cachedSpans = (@ \ {s}) \cup {new},
                           !.leastRecentlyUsed = (@ \ {s}) \cup {new},
                           !.currentSize = @ - s.length + new.length], 0)

\* A file for so many blocks; opening it empties one of its name.
startFile(c, length) ==
  evictCache([(IF c.dirExists THEN c ELSE removeStaleSpans(c)) EXCEPT !.dirExists = TRUE],
             length)
NewFile(key, position, now) ==
  [key |-> key, position |-> position, time |-> now, length |-> 0]
Created(c, f) == [Deleted(c, f) EXCEPT !.files = @ \cup {f}]

\* One more block behind a file, unless it was deleted.
Grown(c, f) ==
  IF ~Exists(c, f) THEN c
  ELSE [Deleted(c, f) EXCEPT
          !.files = @ \cup {[FileOf(c, f) EXCEPT !.length = @ + 1]}]

IsCommitted(c, f) == Exists(c, f) /\ FileOf(c, f).length > 0
commitFile(c, f) ==
  IF ~Exists(c, f) THEN c
  ELSE IF FileOf(c, f).length = 0 THEN Deleted(c, f)
  ELSE addSpan(c, FileOf(c, f))
=============================================================================
