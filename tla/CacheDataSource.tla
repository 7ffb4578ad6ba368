--------------------------- MODULE CacheDataSource ---------------------------
(* Readers of streams through one cache: CacheDataSource with its            *)
(* TeeDataSource, CacheDataSink and FileDataSource. Each reader is a thread  *)
(* that opens, reads and closes (DataSourceStream.load); between two steps   *)
(* of one, where it does not hold the cache's monitor, others take theirs. A *)
(* read gets one block.                                                      *)
EXTENDS SimpleCache

CONSTANTS Readers,
          Requests,             \* of each reader: pieces of streams
          MaxCacheFileSize,     \* that the sink cuts at
          blockOnCache,         \* of each reader
          ignoreCacheOnError,   \* of each reader
          MayFail,              \* reads and writes may fail
          MayClear,             \* the user may delete the directory
          MayCrash              \* the process may die
ASSUME ReadersAssumption ==
  /\ {blockOnCache, ignoreCacheOnError} \subseteq [Readers -> BOOLEAN]
  /\ {MayFail, MayClear, MayCrash} \subseteq BOOLEAN
ASSUME RequestsAssumption ==
  \A r \in Readers : \A q \in Requests[r] :
    /\ q.key \in Keys /\ q.position \in Nat /\ q.length \in Nat \ {0}
    /\ q.position + q.length <= StreamLength
ASSUME SizesAssumption ==
  MaxCacheFileSize \in Nat \ {0} /\ MaxCacheFileSize <= MaxBytes
ASSUME NobodyIsNoReader == "nobody" \notin Readers

VARIABLES cache,
          lockedSpans,          \* of each key: who holds its hole, or "nobody"
          unread,               \* files initialize has not come to
          reader

vars == <<cache, lockedSpans, unread, reader>>

\* A reader: where it is in the code, its request, the source it reads from with
\* the blocks left in that, the cached file it is to open, the hole it holds, its
\* sink's file, and what it goes on with when it has closed something.
Reader ==
  [pc : {"closed", "next", "waiting", "opening", "starting", "open", "writing",
         "committing", "releasing", "failed"},
   key : Keys, readPosition : 0..StreamLength, bytesRemaining : 0..StreamLength,
   source : {"none", "cache", "upstream", "tee"}, left : 0..StreamLength,
   found : Span, lockedSpan : BOOLEAN, ignoreCache : BOOLEAN,
   file : Span, outputStream : BOOLEAN, after : {"read", "write", "close"}]

NoFile == [key |-> Min(Keys), position |-> 0, time |-> Min(Times), length |-> 0]
NewReader ==
  [pc |-> "closed", key |-> Min(Keys), readPosition |-> 0, bytesRemaining |-> 0,
   source |-> "none", left |-> 0, found |-> NoFile, lockedSpan |-> FALSE,
   ignoreCache |-> FALSE, file |-> NoFile, outputStream |-> FALSE, after |-> "read"]

Init == /\ cache = NewCache({})
        /\ lockedSpans = [k \in Keys |-> "nobody"]
        /\ unread = {}
        /\ reader = [r \in Readers |-> NewReader]

Least(a, b) == IF a < b THEN a ELSE b

\* r is at pc, and goes on as s. A call of the cache waits for initialize.
At(r, pc) == reader[r].pc = pc
GoesOn(r, s) == reader' = [reader EXCEPT ![r] = s]
Monitor == unread = {}

\* An exception leaves open or read; handleBeforeThrow has seen it.
Fails(r, s, ofCache) ==
  GoesOn(r, [s EXCEPT !.pc = "failed",
                      !.ignoreCache = @ \/ (ignoreCacheOnError[r] /\ ofCache)])
-----------------------------------------------------------------------------
\* open begins, for blocks of a stream.
Open(r) ==
  /\ At(r, "closed")
  /\ \E q \in Requests[r] :
       GoesOn(r, [reader[r] EXCEPT !.pc = "next", !.key = q.key,
                                   !.readPosition = q.position,
                                   !.bytesRemaining = q.length])
  /\ UNCHANGED <<cache, lockedSpans, unread>>

\* The upstream source as the next source, without the cache.
Bypasses(r, s) ==
  GoesOn(r, [s EXCEPT !.pc = "opening", !.source = "upstream",
                      !.left = s.bytesRemaining])

\* startReadWrite or its form that does not block: what was looked up is read from
\* its file, a hole nobody writes is written, one that is locked waited for.
Finds(r, s, c) ==
  \E span \in Covering(c, s.key, s.readPosition), now \in Times :
    LET new == Touched(c, span, now)
    IN  /\ cache' = touch(c, span, now)
        /\ GoesOn(r, [s EXCEPT !.pc = "opening", !.source = "cache", !.found = new,
                               !.left = Least(End(new) - s.readPosition,
                                              s.bytesRemaining)])
        /\ UNCHANGED lockedSpans

Locks_Anyway(r, s, c) ==
  /\ Covering(c, s.key, s.readPosition) = {}
  /\ cache' = c
  /\ lockedSpans' = [lockedSpans EXCEPT ![s.key] = r]
  /\ LET hole == HoleLength(c, s.key, s.readPosition)
     IN  GoesOn(r, [s EXCEPT !.pc = "opening", !.source = "tee", !.lockedSpan = TRUE,
                             !.left = IF hole = -1 THEN s.bytesRemaining
                                      ELSE Least(hole, s.bytesRemaining)])
Locks(r, s, c) ==
  /\ Covering(c, s.key, s.readPosition) = {}
  /\ lockedSpans[s.key] = "nobody"
  /\ cache' = c
  /\ lockedSpans' = [lockedSpans EXCEPT ![s.key] = r]
  /\ LET hole == HoleLength(c, s.key, s.readPosition)
     IN  GoesOn(r, [s EXCEPT !.pc = "opening", !.source = "tee", !.lockedSpan = TRUE,
                             !.left = IF hole = -1 THEN s.bytesRemaining
                                      ELSE Least(hole, s.bytesRemaining)])

IsLocked(r, s, c) ==
  /\ Covering(c, s.key, s.readPosition) = {}
  /\ lockedSpans[s.key] # "nobody"
  /\ cache' = c
  /\ UNCHANGED lockedSpans
  /\ IF blockOnCache[r] THEN GoesOn(r, [s EXCEPT !.pc = "waiting"]) ELSE Bypasses(r, s)

startReadWrite(r) ==
  /\ At(r, "next")
  /\ LET s == reader[r]
         c == Looked(cache, s.key, s.readPosition)
     IN  IF s.ignoreCache
         THEN Bypasses(r, s) /\ UNCHANGED <<cache, lockedSpans>>
         ELSE Monitor /\ (Finds(r, s, c) \/ Locks(r, s, c) \/ IsLocked(r, s, c))
  /\ UNCHANGED unread

\* cancelLoading interrupts who waits, and that is thrown on.
Interrupted(r) ==
  /\ At(r, "waiting")
  /\ GoesOn(r, [reader[r] EXCEPT !.pc = "failed"])
  /\ UNCHANGED <<cache, lockedSpans, unread>>
-----------------------------------------------------------------------------
\* The source is opened: a cached file if it still has its name, a connection if
\* there is one, and behind that a sink.
OpenSource(r) ==
  /\ At(r, "opening")
  /\ LET s == [reader[r] EXCEPT !.found = NoFile]
     IN  IF s.source = "cache"
         THEN IF Exists(cache, reader[r].found)
              THEN GoesOn(r, [s EXCEPT !.pc = "open"])
              ELSE Fails(r, s, TRUE)
         ELSE \/ GoesOn(r, [s EXCEPT !.pc = IF s.source = "tee" THEN "starting"
                                            ELSE "open"])
              \/ MayFail /\ Fails(r, s, FALSE)
  /\ UNCHANGED <<cache, lockedSpans, unread>>

\* openNextOutputStream, for open or in the middle of write: the cache makes room
\* and names the file, which is created or not.
openNextOutputStream(r) ==
  /\ At(r, "starting") /\ Monitor
  /\ LET s == reader[r]
         c == startFile(cache, Least(s.left, MaxCacheFileSize))
     IN  /\ lockedSpans[s.key] # "nobody"
         /\ \/ \E now \in Times :
                 LET f == NewFile(s.key, s.readPosition, now)
                 IN  /\ cache' = Created(c, f)
                     /\ GoesOn(r, [s EXCEPT !.file = f, !.outputStream = TRUE,
                                   !.after = "read",
                                   !.pc = IF s.after = "write" THEN "writing" ELSE "open"])
            \/ MayFail /\ cache' = c /\ Fails(r, [s EXCEPT !.after = "read"], TRUE)
  /\ UNCHANGED <<lockedSpans, unread>>

\* A block is through.
Got_LeftStays(s) == [s EXCEPT !.pc = "open", !.readPosition = @ + 1,
                              !.bytesRemaining = @ - 1]
Got(s) == [s EXCEPT !.pc = "open", !.readPosition = @ + 1, !.bytesRemaining = @ - 1,
                    !.left = @ - 1]

\* read from a file or upstream.
ReadBlock(r) ==
  LET s == reader[r]
  IN  /\ At(r, "open") /\ s.left > 0
      /\ \/ s.source # "tee" /\ GoesOn(r, Got(s))
         \/ s.source = "tee" /\ GoesOn(r, [s EXCEPT !.pc = "writing"])
         \/ MayFail /\ Fails(r, s, s.source = "cache")
      /\ UNCHANGED <<cache, lockedSpans, unread>>

\* write of what was read: a full file is closed and another begun first. A write
\* that fails may have written.
IsFull(s) == s.readPosition - s.file.position = MaxCacheFileSize
Write(r) ==
  LET s == reader[r]
  IN  /\ At(r, "writing")
      /\ \/ /\ IsFull(s)
            /\ GoesOn(r, [s EXCEPT !.pc = "committing", !.outputStream = FALSE,
                                   !.after = "write"])
            /\ UNCHANGED cache
         \/ /\ ~IsFull(s)
            /\ GoesOn(r, Got(s))
            /\ cache' = Grown(cache, s.file)
         \/ /\ ~IsFull(s) /\ MayFail
            /\ Fails(r, s, TRUE)
            /\ cache' \in {cache, Grown(cache, s.file)}
      /\ UNCHANGED <<lockedSpans, unread>>

\* The source is closed: the caller goes on with the next one, or has read all, or
\* is done. It keeps whether it ignores the cache.
Closed(s) == [NewReader EXCEPT !.ignoreCache = s.ignoreCache]
Resumed(s) ==
  IF s.after = "close" THEN Closed(s)
  ELSE [s EXCEPT !.pc = IF s.bytesRemaining > 0 THEN "next" ELSE "open",
                 !.source = "none", !.left = 0, !.lockedSpan = FALSE, !.file = NoFile]

\* closeCurrentSource: the sink commits its file, and a hole is given back.
closeCurrentSource_OfStreamsOnly(r, s) ==
  /\ GoesOn(r, IF s.outputStream
               THEN [s EXCEPT !.pc = "committing", !.outputStream = FALSE]
               ELSE Resumed(s))
  /\ UNCHANGED <<cache, lockedSpans, unread>>
closeCurrentSource(r, s) ==
  /\ GoesOn(r, IF s.outputStream
               THEN [s EXCEPT !.pc = "committing", !.outputStream = FALSE]
               ELSE IF s.lockedSpan THEN [s EXCEPT !.pc = "releasing"]
               ELSE Resumed(s))
  /\ UNCHANGED <<cache, lockedSpans, unread>>

ReadEnd(r) == /\ At(r, "open")
              /\ reader[r].source # "none" /\ reader[r].left = 0
              /\ closeCurrentSource(r, reader[r])

Close(r) == /\ At(r, "open") \/ At(r, "failed")
            /\ closeCurrentSource(r, [reader[r] EXCEPT !.after = "close"])
-----------------------------------------------------------------------------
\* Those who wait in startReadWrite look again.
Woken(S) ==
  [r \in Readers |-> IF S[r].pc = "waiting" THEN [S[r] EXCEPT !.pc = "next"] ELSE S[r]]

commitFile_(r) ==
  /\ At(r, "committing") /\ Monitor
  /\ LET s == reader[r]
         others == [reader EXCEPT ![r].pc = IF s.after = "write" THEN "starting"
                                            ELSE "releasing"]
     IN  /\ lockedSpans[s.file.key] # "nobody"
         /\ cache' = commitFile(cache, s.file)
         /\ reader' = IF IsCommitted(cache, s.file) THEN Woken(others) ELSE others
  /\ UNCHANGED <<lockedSpans, unread>>

releaseHoleSpan(r) ==
  /\ At(r, "releasing") /\ Monitor
  /\ lockedSpans[reader[r].key] = r
  /\ lockedSpans' = [lockedSpans EXCEPT ![reader[r].key] = "nobody"]
  /\ reader' = Woken([reader EXCEPT ![r] = Resumed(reader[r])])
  /\ UNCHANGED <<cache, unread>>
-----------------------------------------------------------------------------
\* The user clears the directory. The process dies, and the next one finds the
\* files as they are and puts them in memory one by one.
Clear == /\ MayClear /\ Monitor
         /\ cache.dirExists
         /\ cache' = [cache EXCEPT !.files = {}, !.dirExists = FALSE]
         /\ UNCHANGED <<lockedSpans, unread, reader>>

Crash == /\ MayCrash
         /\ cache' = NewCache(cache.files)
         /\ lockedSpans' = [k \in Keys |-> "nobody"]
         /\ unread' = cache.files
         /\ reader' = [r \in Readers |-> NewReader]

initialize == \E f \in unread :
                /\ cache' = initialized(cache, f)
                /\ unread' = unread \ {f}
                /\ UNCHANGED <<lockedSpans, reader>>

\* What a reader does once it was asked to read.
Proceeds(r) ==
  \/ startReadWrite(r) \/ OpenSource(r) \/ openNextOutputStream(r) \/ ReadBlock(r)
  \/ Write(r) \/ ReadEnd(r) \/ Close(r) \/ commitFile_(r) \/ releaseHoleSpan(r)

Next == \/ \E r \in Readers : Open(r) \/ Proceeds(r) \/ Interrupted(r)
        \/ Clear \/ Crash \/ initialize

Spec == Init /\ [][Next]_vars

\* Whoever reads does so to the end or closes, and initialize ends.
FairSpec == Spec /\ WF_vars(initialize) /\ \A r \in Readers : WF_vars(Proceeds(r))
-----------------------------------------------------------------------------
TypeOK == /\ cache \in Cache
          /\ lockedSpans \in [Keys -> Readers \cup {"nobody"}]
          /\ unread \in SUBSET Span
          /\ reader \in [Readers -> Reader]

\* No block of a stream is in two spans, as isCached expects: holes are written by
\* one at a time, to where the next span begins (getSpan, startReadWrite).
SpansAreDisjoint ==
  \A s, t \in cache.cachedSpans :
    s # t /\ s.key = t.key => End(s) <= t.position \/ End(t) <= s.position

\* The memory of cache and evictor tells what is on the disk: both count the same
\* spans, no more than they may, and every file is one of those, or being written
\* by who holds its key, or not come to by initialize yet.
SpaceIsCounted ==
  /\ cache.totalSpace = SizeOf(cache.cachedSpans)
  /\ cache.currentSize = cache.totalSpace
  /\ cache.leastRecentlyUsed = cache.cachedSpans
  /\ cache.totalSpace <= MaxBytes
IsWriting(r, f) == /\ reader[r].outputStream \/ At(r, "committing")
                   /\ IsNamed(reader[r].file, f)
                   /\ lockedSpans[f.key] = r
FilesAreKnown ==
  \A f \in cache.files : f \in cache.cachedSpans \cup unread
                         \/ \E r \in Readers : IsWriting(r, f)
MemoryTellsTheDisk == SpaceIsCounted /\ FilesAreKnown

\* The checkStates of startFile, commitFile and releaseHoleSpan: whoever writes
\* holds the hole of its key, and nobody else believes to.
OnlyTheHolderWrites ==
  \A r \in Readers :
    At(r, "starting") \/ At(r, "committing") \/ At(r, "releasing") \/ reader[r].outputStream
      => reader[r].lockedSpan /\ lockedSpans[reader[r].key] = r

\* Nobody waits for ever: whoever holds a hole gives it back whatever fails
\* (closeCurrentSource), and those who wait for it are woken.
WaitingEnds ==
  \A r \in {x \in Readers : blockOnCache[x]} : At(r, "waiting") ~> ~At(r, "waiting")
=============================================================================
