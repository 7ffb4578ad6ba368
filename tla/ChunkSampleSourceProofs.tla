------------------------ MODULE ChunkSampleSourceProofs ------------------------
(***************************************************************************)
(* Proofs about ChunkSampleSource, for any stream, formats and sizes: the  *)
(* queue has no gaps, a load in progress and the open streams fit the      *)
(* queue and the holder, and the samples read follow each other.           *)
(***************************************************************************)
EXTENDS ChunkSampleSource, SequenceTheorems, WellFoundedInduction, TLAPS

(* The chunks of a queue are numbered without a gap: QueueIsSound's second *)
(* half, for chunks at any distance.                                       *)
Numbered(q) ==
  \A i, j \in 1..Len(q) : q[j].segment = q[i].segment + (j - i)

Sound(s) == s \in Source /\ Numbered(s.queue) /\ ~s.illegal

(* The chunk of the holder is being loaded, or is to be loaded again.      *)
Held(s) ==
  /\ s.holder \in s.open
  /\ isMediaChunk(s.holder) => s.queue # <<>> /\ s.holder = Last(s.queue)
  /\ s.open = Queued(s) \cup (IF isMediaChunk(s.holder) THEN {} ELSE {s.holder})

(* The chunk of the holder, if there is one, has not been opened.          *)
Waiting(s) ==
  /\ s.open = Queued(s)
  /\ isMediaChunk(s.holder) /\ s.queue # <<>> =>
       s.holder.segment = Last(s.queue).segment + 1

(* What every handler leaves, of a source and its loader.                  *)
Settled(s, k) ==
  /\ Sound(s) /\ k \in Task
  /\ isLoading(k) => s.exception = "none"
  /\ isLoading(k) \/ s.exception = "error" => Held(s)
  /\ ~isLoading(k) /\ s.exception = "none" => Waiting(s)
  /\ s.exception = "fatal" => s.open = Queued(s) /\ ~isMediaChunk(s.holder)

(* There is a chunk to read, or a time to start from.                      *)
Placed(s) == s.queue # <<>> \/ s.reset # None

(* Whoever is not enabled has let go of everything, or will when the load  *)
(* it canceled ends.                                                       *)
LetsGo ==
  /\ state # "ENABLED" /\ ~isLoading(task) =>
       src.queue = <<>> /\ src.holder = NoChunk /\ src.exception = "none"
  /\ isLoading(task) => state = "ENABLED" \/ task.canceled
  /\ isLoading(task) /\ task.canceled /\ state = "ENABLED" => isPendingReset

(* The sample that is read next.                                           *)
NextSample(s) == s.queue[1].segment * ChunkSize + s.readPos

(* A reset waits for a discontinuity to be read, or for nothing to follow; *)
(* else the next sample is the one that follows.                           *)
Follows ==
  state = "ENABLED" /\ ~pendingDiscontinuity /\ delivered # None =>
    ~isPendingReset /\ NextSample(src) = delivered + 1

Others ==
  /\ state \in {"UNPREPARED", "PREPARED", "ENABLED", "RELEASED"}
  /\ pendingDiscontinuity \in BOOLEAN /\ thrown \in BOOLEAN
  /\ lastSeek \in Times \cup {None} /\ delivered \in Times \cup {None}
  /\ announced \in Formats \cup {NoFormat}

IInv ==
  /\ Others
  /\ Settled(src, task)
  /\ state = "ENABLED" => Placed(src)
  /\ LetsGo
  /\ Follows

-----------------------------------------------------------------------------
(* Numbers.                                                                *)

(* A least number is one of them.                                          *)
LEMMA LeastPlace ==
  ASSUME NEW S \in SUBSET Nat, S # {}
  PROVE  Min(S) \in S
<1> DEFINE R == OpToRel(<, Nat)
<1>1. IsWellFoundedOn(R, Nat)
  BY NatLessThanWellFounded
<1>2. \A m, n \in Nat : <<m, n>> \in R <=> m < n
  BY DEF OpToRel
<1> HIDE DEF R
<1>3. PICK m \in S : \A n \in S : ~(<<n, m>> \in R)
  BY <1>1, WFMin
<1>4. \A n \in S : ~(n < m)
  BY <1>2, <1>3
<1>5. \A n \in S : m <= n
  BY <1>4
<1> QED
  BY <1>5 DEF Min

(* The segment of a sample and the samples of a segment.                   *)
LEMMA SegmentOfTime ==
  ASSUME NEW time \in Times
  PROVE  getSegmentNum(time) \in Segments
<1> DEFINE q == time \div ChunkSize
           N == NumSegments
<1>1. ChunkSize \in Nat \ {0} /\ N \in Nat \ {0}
  BY LoaderAssumption, ChunkSourceAssumption
<1>2. /\ time \in Nat /\ time < N * ChunkSize
      /\ N * ChunkSize \in Nat
  BY <1>1 DEF Times
<1>3. q \in Nat /\ ChunkSize * q <= time
  BY <1>1, <1>2
<1>4. q < N
  <2>1. SUFFICES ASSUME q >= N PROVE FALSE
    BY <1>1, <1>3
  <2>2. PICK d \in Nat : q = N + d
    <3>1. q - N \in Nat /\ q = N + (q - N)
      BY <1>1, <1>3, <2>1
    <3> QED
      BY <3>1
  <2>3. ChunkSize * q = N * ChunkSize + ChunkSize * d /\ ChunkSize * d \in Nat
    BY <1>1, <2>2
  <2> QED
    BY <1>1, <1>2, <1>3, <2>3
<1> QED
  BY <1>1, <1>3, <1>4 DEF getSegmentNum, Segments

LEMMA TimeOfSample ==
  ASSUME NEW segment \in Segments, NEW r \in 0..ChunkSize - 1
  PROVE  segment * ChunkSize + r \in Times
<1>1. ChunkSize \in Nat \ {0} /\ NumSegments \in Nat \ {0}
  BY LoaderAssumption, ChunkSourceAssumption
<1>2. PICK d \in Nat : NumSegments = segment + 1 + d
  <2>1. NumSegments - segment - 1 \in Nat
        /\ NumSegments = segment + 1 + (NumSegments - segment - 1)
    BY <1>1 DEF Segments
  <2> QED
    BY <2>1
<1>3. segment \in Nat
  BY DEF Segments
<1>4. /\ NumSegments * ChunkSize = segment * ChunkSize + ChunkSize + d * ChunkSize
      /\ d * ChunkSize \in Nat /\ segment * ChunkSize \in Nat
  BY <1>1, <1>2, <1>3
<1> QED
  BY <1>1, <1>4 DEF Times

-----------------------------------------------------------------------------
(* Chunks.                                                                 *)

LEMMA ChunkKinds ==
  /\ NoChunk \notin Chunks /\ ~isMediaChunk(NoChunk)
  /\ \A c \in Chunks \cup {NoChunk} :
       isMediaChunk(c) <=> c \in MediaChunks
  /\ \A c \in MediaChunks : c.segment \in Segments /\ c.format \in Formats
  /\ \A c \in Chunks : c.format \in Formats /\ SizeOf(c) \in 1..ChunkSize
  /\ \A f \in Formats : InitChunk(f) \in Chunks /\ ~isMediaChunk(InitChunk(f))
  /\ \A f \in Formats, g \in Segments :
       MediaChunk(f, g) \in MediaChunks /\ MediaChunk(f, g).segment = g
  /\ MediaChunks \subseteq Chunks
<1>1. /\ \A c \in MediaChunks : /\ c.kind = "media" /\ c.segment \in Segments
                                /\ c.format \in Formats
      /\ \A f \in Formats, g \in Segments :
           MediaChunk(f, g) \in MediaChunks /\ MediaChunk(f, g).segment = g
      /\ MediaChunks \subseteq Chunks
  BY DEF MediaChunks, MediaChunk, Chunks
<1>2. /\ \A f \in Formats : InitChunk(f) \in Chunks /\ InitChunk(f).kind = "init"
      /\ \A c \in Chunks : c \in MediaChunks \/ \E f \in Formats : c = InitChunk(f)
      /\ \A f \in Formats : InitChunk(f).format = f
  BY DEF Chunks, InitChunk
<1>3. NoChunk.kind = "none"
  BY DEF NoChunk
<1>4. ChunkSize \in 1..ChunkSize /\ 1 \in 1..ChunkSize
  BY LoaderAssumption
<1> QED
  BY <1>1, <1>2, <1>3, <1>4 DEF isMediaChunk, SizeOf

(* A queue is what its places hold; no two hold the same chunk.            *)
LEMMA QueueOf ==
  ASSUME NEW s \in Source
  PROVE  /\ s.queue \in Seq(MediaChunks) /\ Len(s.queue) \in Nat
         /\ \A i \in 1..Len(s.queue) : s.queue[i] \in MediaChunks
         /\ Queued(s) = {s.queue[i] : i \in 1..Len(s.queue)}
         /\ Queued(s) \subseteq MediaChunks
         /\ s.queue = <<>> <=> Len(s.queue) = 0
<1>1. s.queue \in Seq(MediaChunks)
  BY DEF Source
<1>2. DOMAIN s.queue = 1..Len(s.queue) /\ Len(s.queue) \in Nat
  BY <1>1, LenProperties
<1>3. \A i \in 1..Len(s.queue) : s.queue[i] \in MediaChunks
  BY <1>1, ElementOfSeq
<1>4. s.queue = <<>> <=> Len(s.queue) = 0
  BY <1>1, EmptySeq
<1> QED
  BY <1>1, <1>2, <1>3, <1>4 DEF Queued, ToSet

LEMMA AllDifferent ==
  ASSUME NEW s \in Source, Numbered(s.queue)
  PROVE  \A i, j \in 1..Len(s.queue) : s.queue[i] = s.queue[j] => i = j
<1>1. \A i \in 1..Len(s.queue) : s.queue[i].segment \in Int
  BY QueueOf, ChunkKinds DEF Segments
<1>2. SUFFICES ASSUME NEW i \in 1..Len(s.queue), NEW j \in 1..Len(s.queue),
                      s.queue[i] = s.queue[j]
               PROVE  i = j
  OBVIOUS
<1>3. s.queue[j].segment = s.queue[i].segment + (j - i)
  BY DEF Numbered
<1>4. i \in Int /\ j \in Int
  BY QueueOf
<1> QED
  BY <1>1, <1>2, <1>3, <1>4

(* The chunk behind the last is not in the queue.                          *)
LEMMA NewLast ==
  ASSUME NEW s \in Source, Numbered(s.queue), NEW c \in MediaChunks,
         s.queue # <<>> => c.segment = Last(s.queue).segment + 1
  PROVE  c \notin Queued(s)
<1>1. \A i \in 1..Len(s.queue) : s.queue[i].segment \in Int
  BY QueueOf, ChunkKinds DEF Segments
<1>2. SUFFICES ASSUME NEW i \in 1..Len(s.queue), c = s.queue[i]
               PROVE  FALSE
  BY QueueOf
<1>3. Len(s.queue) \in 1..Len(s.queue) /\ s.queue # <<>>
  BY QueueOf
<1>4. c.segment = s.queue[Len(s.queue)].segment + 1
  BY <1>3 DEF Last
<1>5. s.queue[Len(s.queue)].segment = s.queue[i].segment + (Len(s.queue) - i)
  BY <1>3 DEF Numbered
<1> QED
  BY <1>1, <1>2, <1>3, <1>4, <1>5, QueueOf

-----------------------------------------------------------------------------
(* Chunks leave the queue.                                                 *)

Kept(s, d) ==
  /\ d.holder = s.holder /\ d.reset = s.reset /\ d.exception = s.exception
  /\ d.count = s.count /\ d.chunkSource = s.chunkSource /\ d.illegal = s.illegal

LEMMA DownstreamFields ==
  ASSUME NEW s \in Source, NEW n \in 0..Len(s.queue)
  PROVE  LET d == discardDownstream(s, n)
         IN  /\ d \in Source /\ Kept(s, d)
             /\ d.readPos = IF n = 0 THEN s.readPos ELSE 0
             /\ Len(d.queue) = Len(s.queue) - n
             /\ \A i \in 1..Len(d.queue) : d.queue[i] = s.queue[i + n]
             /\ d.open = s.open \ {s.queue[i] : i \in 1..n}
<1> DEFINE q == SubSeq(s.queue, n + 1, Len(s.queue))
           d == discardDownstream(s, n)
<1>1. n \in Nat /\ Len(s.queue) \in Nat /\ n <= Len(s.queue)
  BY QueueOf
<1>2. \A i \in n + 1..Len(s.queue) : s.queue[i] \in MediaChunks
  BY <1>1, QueueOf
<1>3. /\ q \in Seq(MediaChunks)
      /\ Len(q) = Len(s.queue) - n
      /\ \A i \in 1..Len(q) : q[i] = s.queue[i + n]
  <2>1. /\ q \in Seq(MediaChunks)
        /\ Len(q) = IF n + 1 <= Len(s.queue) THEN Len(s.queue) - (n + 1) + 1 ELSE 0
        /\ \A i \in 1..Len(s.queue) - (n + 1) + 1 : q[i] = s.queue[n + 1 + i - 1]
    BY <1>1, <1>2, SubSeqProperties
  <2>2. Len(q) = Len(s.queue) - n
    BY <1>1, <2>1
  <2>3. \A i \in 1..Len(q) : n + 1 + i - 1 = i + n
    BY <1>1, <2>2
  <2> QED
    BY <1>1, <2>1, <2>2, <2>3
<1>4. 0 \in 0..ChunkSize
  BY LoaderAssumption
<1> HIDE DEF q
<1>5. d = [s EXCEPT !.open = @ \ {s.queue[i] : i \in 1..n}, !.queue = q,
                    !.readPos = IF n = 0 THEN @ ELSE 0]
  BY DEF discardDownstream, Released, q, Source
<1> HIDE DEF d
<1>6. d \in Source /\ Kept(s, d) /\ d.queue = q
      /\ d.open = s.open \ {s.queue[i] : i \in 1..n}
      /\ d.readPos = IF n = 0 THEN s.readPos ELSE 0
  BY <1>3, <1>4, <1>5 DEF Source, Kept
<1> QED
  BY <1>3, <1>6 DEF d

LEMMA UpstreamFields ==
  ASSUME NEW s \in Source, NEW n \in 0..Len(s.queue)
  PROVE  LET d == discardUpstream(s, n)
         IN  /\ d \in Source /\ Kept(s, d)
             /\ d.readPos = s.readPos
             /\ Len(d.queue) = n
             /\ \A i \in 1..n : d.queue[i] = s.queue[i]
             /\ d.open = s.open \ {s.queue[i] : i \in n + 1..Len(s.queue)}
<1> DEFINE q == SubSeq(s.queue, 1, n)
           d == discardUpstream(s, n)
<1>1. n \in Nat /\ Len(s.queue) \in Nat /\ n <= Len(s.queue)
  BY QueueOf
<1>2. \A i \in 1..n : s.queue[i] \in MediaChunks
  BY <1>1, QueueOf
<1>3. /\ q \in Seq(MediaChunks)
      /\ Len(q) = n
      /\ \A i \in 1..n : q[i] = s.queue[i]
  <2>1. /\ q \in Seq(MediaChunks)
        /\ Len(q) = IF 1 <= n THEN n - 1 + 1 ELSE 0
        /\ \A i \in 1..n - 1 + 1 : q[i] = s.queue[1 + i - 1]
    BY <1>1, <1>2, SubSeqProperties
  <2>2. Len(q) = n
    BY <1>1, <2>1
  <2>3. \A i \in 1..n : 1 + i - 1 = i
    BY <1>1
  <2> QED
    BY <1>1, <2>1, <2>2, <2>3
<1> HIDE DEF q
<1>4. d = [s EXCEPT !.open = @ \ {s.queue[i] : i \in n + 1..Len(s.queue)},
                    !.queue = q]
  BY DEF discardUpstream, Released, q, Source
<1> HIDE DEF d
<1>5. d \in Source /\ Kept(s, d) /\ d.queue = q /\ d.readPos = s.readPos
      /\ d.open = s.open \ {s.queue[i] : i \in n + 1..Len(s.queue)}
  BY <1>3, <1>4 DEF Source, Kept
<1> QED
  BY <1>3, <1>5 DEF d

(* What is left has no gaps either, and what was released has left it.     *)
LEMMA DownstreamQueue ==
  ASSUME NEW s \in Source, Numbered(s.queue), NEW n \in 0..Len(s.queue)
  PROVE  LET d == discardDownstream(s, n)
         IN  /\ Numbered(d.queue)
             /\ Queued(d) = Queued(s) \ {s.queue[i] : i \in 1..n}
             /\ d.queue # <<>> => Last(d.queue) = Last(s.queue)
             /\ d.queue = <<>> <=> n = Len(s.queue)
<1> DEFINE d == discardDownstream(s, n)
<1> HIDE DEF d
<1>1. /\ d \in Source /\ Len(d.queue) = Len(s.queue) - n
      /\ \A i \in 1..Len(d.queue) : d.queue[i] = s.queue[i + n]
  BY DownstreamFields DEF d
<1>2. n \in Nat /\ Len(s.queue) \in Nat /\ Len(d.queue) \in Nat
  BY <1>1, QueueOf
<1>3. \A i \in 1..Len(d.queue) : i \in Int /\ i + n \in 1..Len(s.queue)
  BY <1>1, <1>2
<1>4. Numbered(d.queue)
  <2>1. SUFFICES ASSUME NEW i \in 1..Len(d.queue), NEW j \in 1..Len(d.queue)
                 PROVE  d.queue[j].segment = d.queue[i].segment + (j - i)
    BY DEF Numbered
  <2>2. s.queue[j + n].segment = s.queue[i + n].segment + ((j + n) - (i + n))
    BY <1>3 DEF Numbered
  <2>3. (j + n) - (i + n) = j - i
    BY <1>2, <1>3
  <2> QED
    BY <1>1, <2>2, <2>3
<1>5. Queued(d) = Queued(s) \ {s.queue[i] : i \in 1..n}
  <2>1. \A c \in Queued(d) : \E i \in 1..Len(d.queue) : c = s.queue[i + n]
    BY <1>1, QueueOf
  <2>2. \A i \in 1..Len(d.queue), j \in 1..n : s.queue[i + n] # s.queue[j]
    <3>1. \A j \in 1..n : j \in 1..Len(s.queue)
      BY <1>2
    <3>2. \A i \in 1..Len(d.queue), j \in 1..n : i + n # j
      BY <1>2
    <3> QED
      BY <1>3, <3>1, <3>2, AllDifferent
  <2>3. Queued(d) \subseteq Queued(s) \ {s.queue[i] : i \in 1..n}
    BY <1>3, <2>1, <2>2, QueueOf
  <2>4. ASSUME NEW i \in 1..Len(s.queue), s.queue[i] \notin {s.queue[j] : j \in 1..n}
        PROVE  s.queue[i] \in Queued(d)
    <3>1. i \notin 1..n
      BY <2>4
    <3>2. i - n \in 1..Len(d.queue) /\ (i - n) + n = i
      BY <1>1, <1>2, <3>1
    <3>3. PICK j \in 1..Len(d.queue) : j + n = i
      BY <3>2
    <3>4. d.queue[j] = s.queue[i]
      BY <1>1, <3>3
    <3>5. Queued(d) = {d.queue[j_1] : j_1 \in 1..Len(d.queue)}
      BY <1>1, QueueOf
    <3> QED
      BY <3>4, <3>5
  <2> QED
    BY <2>3, <2>4, QueueOf
<1>6. d.queue = <<>> <=> n = Len(s.queue)
  BY <1>1, <1>2, QueueOf
<1>7. d.queue # <<>> => Last(d.queue) = Last(s.queue)
  <2>1. d.queue # <<>> => Len(d.queue) \in 1..Len(d.queue)
    BY <1>1, <1>2, QueueOf
  <2>2. Len(d.queue) + n = Len(s.queue)
    BY <1>1, <1>2
  <2> QED
    BY <1>1, <2>1, <2>2 DEF Last
<1> QED
  BY <1>4, <1>5, <1>6, <1>7 DEF d

LEMMA UpstreamQueue ==
  ASSUME NEW s \in Source, Numbered(s.queue), NEW n \in 0..Len(s.queue)
  PROVE  LET d == discardUpstream(s, n)
         IN  /\ Numbered(d.queue)
             /\ Queued(d) = Queued(s) \ {s.queue[i] : i \in n + 1..Len(s.queue)}
             /\ d.queue # <<>> => n > 0 /\ Last(d.queue) = s.queue[n]
                                        /\ d.queue[1] = s.queue[1]
             /\ d.queue = <<>> <=> n = 0
<1> DEFINE d == discardUpstream(s, n)
<1> HIDE DEF d
<1>1. /\ d \in Source /\ Len(d.queue) = n
      /\ \A i \in 1..n : d.queue[i] = s.queue[i]
  BY UpstreamFields DEF d
<1>2. n \in Nat /\ Len(s.queue) \in Nat /\ n <= Len(s.queue)
  BY QueueOf
<1>3. \A i \in 1..n : i \in 1..Len(s.queue)
  BY <1>2
<1>4. Numbered(d.queue)
  BY <1>1, <1>3 DEF Numbered
<1>5. Queued(d) = Queued(s) \ {s.queue[i] : i \in n + 1..Len(s.queue)}
  <2>1. \A i \in 1..n, j \in n + 1..Len(s.queue) : s.queue[i] # s.queue[j]
    <3>1. \A j \in n + 1..Len(s.queue) : j \in 1..Len(s.queue)
      BY <1>2
    <3>2. \A i \in 1..n, j \in n + 1..Len(s.queue) : i # j
      BY <1>2
    <3> QED
      BY <1>3, <3>1, <3>2, AllDifferent
  <2>2. \A c \in Queued(d) : \E i \in 1..n : c = s.queue[i]
    BY <1>1, QueueOf
  <2>3. Queued(d) \subseteq Queued(s) \ {s.queue[i] : i \in n + 1..Len(s.queue)}
    BY <1>3, <2>1, <2>2, QueueOf
  <2>4. ASSUME NEW i \in 1..Len(s.queue),
               s.queue[i] \notin {s.queue[j] : j \in n + 1..Len(s.queue)}
        PROVE  s.queue[i] \in Queued(d)
    <3>1. i \notin n + 1..Len(s.queue)
      BY <2>4
    <3>2. i \in 1..n
      BY <1>2, <3>1
    <3> QED
      BY <1>1, <3>2, QueueOf
  <2> QED
    BY <2>3, <2>4, QueueOf
<1>6. d.queue = <<>> <=> n = 0
  BY <1>1, <1>2, QueueOf
<1>7. n > 0 => 1 \in 1..n /\ n \in 1..n
  BY <1>2
<1> QED
  BY <1>1, <1>2, <1>4, <1>5, <1>6, <1>7 DEF d, Last

(* Nothing stays in the queue, nor in the holder.                          *)
LEMMA Cleared ==
  ASSUME NEW s \in Source, Numbered(s.queue), NEW time \in Times \cup {None}
  PROVE  LET c == clearMediaChunks([s EXCEPT !.reset = time])
         IN  /\ c \in Source /\ Kept([s EXCEPT !.reset = time], c)
             /\ c.queue = <<>> /\ Queued(c) = {}
             /\ c.open = s.open \ Queued(s)
<1> DEFINE r == [s EXCEPT !.reset = time]
           c == clearMediaChunks(r)
<1>1. s \in Source /\ Numbered(s.queue)
  OBVIOUS
<1>2. r \in Source /\ r.queue = s.queue /\ r.open = s.open
  BY DEF Source
<1> HIDE DEF r
<1>3. Len(r.queue) \in 0..Len(r.queue)
  BY <1>2, QueueOf
<1>4. /\ c \in Source /\ Kept(r, c) /\ c.queue = <<>>
      /\ c.open = s.open \ {s.queue[i] : i \in 1..Len(s.queue)}
  <2>1. c = discardDownstream(r, Len(r.queue))
    BY DEF clearMediaChunks
  <2> HIDE DEF c
  <2>2. /\ c \in Source /\ Kept(r, c)
        /\ c.open = r.open \ {r.queue[i] : i \in 1..Len(r.queue)}
    BY <1>2, <1>3, <2>1, DownstreamFields
  <2>3. c.queue = <<>>
    BY <1>1, <1>2, <1>3, <2>1, DownstreamQueue
  <2> QED
    BY <1>2, <2>2, <2>3
<1>5. Queued(c) = {}
  BY <1>4 DEF Queued, ToSet
<1> QED
  BY <1>1, <1>4, <1>5, QueueOf DEF r

LEMMA Unheld ==
  ASSUME NEW s \in Source
  PROVE  LET c == clearCurrentLoadable(s)
         IN  /\ c \in Source /\ c.queue = s.queue /\ c.reset = s.reset
             /\ c.readPos = s.readPos /\ c.chunkSource = s.chunkSource
             /\ c.illegal = s.illegal
             /\ c.holder = NoChunk /\ c.exception = "none"
             /\ c.open = IF s.holder \in Queued(s) THEN s.open
                                                  ELSE s.open \ {s.holder}
<1> DEFINE dropped == s.holder \in s.open /\ s.holder \notin Queued(s)
           c == clearCurrentLoadable(s)
           left == IF dropped THEN s.open \ {s.holder} ELSE s.open
<1>1. c = [s EXCEPT !.holder = NoChunk, !.exception = "none", !.count = 0,
                    !.open = left]
  BY DEF clearCurrentLoadable, Source
<1>2. left \in SUBSET Chunks
  BY DEF Source
<1>3. left = IF s.holder \in Queued(s) THEN s.open ELSE s.open \ {s.holder}
  OBVIOUS
<1> HIDE DEF dropped, left, c
<1>4. c \in Source
  <2> DEFINE e == [s EXCEPT !.holder = NoChunk]
             f == [e EXCEPT !.exception = "none"]
             g == [f EXCEPT !.count = 0]
  <2>1. e \in Source
    BY DEF Source
  <2> HIDE DEF e
  <2>2. f \in Source
    BY <2>1 DEF Source
  <2> HIDE DEF f
  <2>3. g \in Source
    BY <2>2, SMTT(60) DEF Source
  <2> HIDE DEF g
  <2>4. [g EXCEPT !.open = left] \in Source
    BY <1>2, <2>3 DEF Source
  <2>5. c = [g EXCEPT !.open = left]
    BY <1>1 DEF e, f, g, Source
  <2> QED
    BY <2>4, <2>5
<1>5. /\ c.queue = s.queue /\ c.reset = s.reset
      /\ c.readPos = s.readPos /\ c.chunkSource = s.chunkSource
      /\ c.illegal = s.illegal
      /\ c.holder = NoChunk /\ c.exception = "none" /\ c.open = left
  BY <1>1 DEF Source
<1> QED
  BY <1>3, <1>4, <1>5 DEF c

(* A restart begins from nothing.                                          *)
LEMMA Restarted ==
  ASSUME NEW s, NEW k, Settled(s, k), ~isLoading(k),
         NEW time \in Times \cup {None}
  PROVE  LET c == clearCurrentLoadable(clearMediaChunks([s EXCEPT !.reset = time]))
         IN  /\ Settled(c, k) /\ c.reset = time
             /\ c.queue = <<>> /\ c.holder = NoChunk /\ c.exception = "none"
<1> DEFINE r == [s EXCEPT !.reset = time]
           m == clearMediaChunks(r)
           c == clearCurrentLoadable(m)
<1>1. s \in Source /\ Numbered(s.queue) /\ ~s.illegal /\ k \in Task
  BY DEF Settled, Sound
<1>2. /\ m \in Source /\ m.queue = <<>> /\ Queued(m) = {}
      /\ m.holder = s.holder /\ m.reset = time /\ ~m.illegal
      /\ m.open = s.open \ Queued(s)
  BY <1>1, Cleared DEF Kept, Source
<1>3. s.open \ Queued(s) \subseteq {s.holder}
  <2>1. s.exception \in {"none", "error", "fatal"}
    BY <1>1 DEF Source
  <2> QED
    BY <2>1 DEF Settled, Waiting, Held
<1> HIDE DEF m
<1>4. /\ c \in Source /\ c.queue = <<>> /\ c.reset = time /\ ~c.illegal
      /\ c.holder = NoChunk /\ c.exception = "none" /\ c.open = {}
  BY <1>2, <1>3, Unheld
<1> HIDE DEF c
<1>5. Queued(c) = {} /\ Numbered(c.queue)
  BY <1>4 DEF Queued, ToSet, Numbered
<1> QED
  BY <1>1, <1>4, <1>5 DEF Settled, Sound, Waiting, c, m

-----------------------------------------------------------------------------
(* The chunk source's answers.                                             *)

LEMMA Evaluated ==
  ASSUME NEW d \in ChunkSource, NEW q \in Seq(MediaChunks),
         NEW e \in Evaluations(d, q)
  PROVE  /\ e.format \in Formats /\ e.queueSize \in 0..Len(q)
         /\ q # <<>> => e.queueSize \in 1..Len(q)
<1>1. Len(q) \in Nat /\ (q # <<>> => Len(q) > 0)
  BY LenProperties, EmptySeq
<1>2. CASE d.format # NoFormat /\ d.lastWasInit
  BY <1>1, <1>2 DEF Evaluations, ChunkSource
<1>3. CASE ~(d.format # NoFormat /\ d.lastWasInit)
  <2>1. /\ e \in [format : Formats, queueSize : 0..Len(q)]
        /\ e.queueSize = Len(q) \/ e.queueSize >= MinRetained
    BY <1>3 DEF Evaluations, evaluate
  <2> QED
    BY <1>1, <2>1, ChunkSourceAssumption
<1> QED
  BY <1>2, <1>3

(* A new chunk follows those that are kept.                                *)
LEMMA Next_Follows ==
  ASSUME NEW q \in Seq(MediaChunks), NEW time \in Times \cup {None},
         q # <<>> \/ time # None,
         NEW e, e.format \in Formats, q # <<>> => e.queueSize \in 1..Len(q)
  PROVE  LET c == nextChunk(q, time, e)
         IN  /\ c \in MediaChunks \cup {NoChunk}
             /\ isMediaChunk(c) /\ q # <<>> =>
                  c.segment = q[e.queueSize].segment + 1
<1>1. CASE q = <<>>
  <2>1. getSegmentNum(time) \in Segments
    BY <1>1, SegmentOfTime
  <2> QED
    BY <1>1, <2>1, ChunkKinds DEF nextChunk
<1>2. CASE q # <<>>
  <2> DEFINE last == q[e.queueSize]
  <2>1. last \in MediaChunks /\ last.segment \in Segments
    BY <1>2, ElementOfSeq, ChunkKinds
  <2>2. CASE isLastChunk(last)
    BY <1>2, <2>2, ChunkKinds DEF nextChunk
  <2>3. CASE ~isLastChunk(last)
    <3>1. last.segment + 1 \in Segments
      BY <2>1, <2>3, ChunkSourceAssumption DEF Segments, isLastChunk
    <3> QED
      BY <1>2, <2>3, <3>1, ChunkKinds DEF nextChunk
  <2> QED
    BY <2>2, <2>3
<1> QED
  BY <1>1, <1>2

LEMMA OperatedFields ==
  ASSUME NEW s \in Source, NEW q \in Seq(MediaChunks),
         NEW e \in Evaluations(s.chunkSource, q), q # <<>> \/ s.reset # None
  PROVE  LET o == Operated(s, q, e)
         IN  /\ o \in Source
             /\ o.queue = s.queue /\ o.open = s.open /\ o.reset = s.reset
             /\ o.readPos = s.readPos /\ o.exception = s.exception
             /\ o.illegal = s.illegal
             /\ LeftUnchanged(q, s.holder, e) => o.holder = s.holder
             /\ ~LeftUnchanged(q, s.holder, e) =>
                  (isMediaChunk(o.holder) /\ q # <<>> =>
                     o.holder.segment = q[e.queueSize].segment + 1)
<1> DEFINE d == s.chunkSource
           h == getChunkOperation(d, q, s.reset, s.holder, e)
           f == AfterOperation(d, q, s.reset, s.holder, e)
           o == Operated(s, q, e)
<1>1. /\ e.format \in Formats /\ (q # <<>> => e.queueSize \in 1..Len(q))
      /\ d \in ChunkSource /\ s.reset \in Times \cup {None}
      /\ s.holder \in Chunks \cup {NoChunk}
  BY Evaluated DEF Source
<1>2. /\ h \in Chunks \cup {NoChunk}
      /\ LeftUnchanged(q, s.holder, e) => h = s.holder
      /\ ~LeftUnchanged(q, s.holder, e) =>
           (isMediaChunk(h) /\ q # <<>> => h.segment = q[e.queueSize].segment + 1)
  <2> DEFINE n == nextChunk(q, s.reset, e)
  <2>1. /\ n \in MediaChunks \cup {NoChunk}
        /\ isMediaChunk(n) /\ q # <<>> => n.segment = q[e.queueSize].segment + 1
    BY <1>1, Next_Follows
  <2> HIDE DEF n
  <2>2. InitChunk(e.format) \in Chunks /\ ~isMediaChunk(InitChunk(e.format))
    BY <1>1, ChunkKinds
  <2>3. h = IF LeftUnchanged(q, s.holder, e) THEN s.holder
            ELSE IF e.format \notin d.known THEN InitChunk(e.format) ELSE n
    BY DEF getChunkOperation, n
  <2> HIDE DEF h
  <2> QED
    BY <1>1, <2>1, <2>2, <2>3, ChunkKinds
<1>3. f \in ChunkSource
  <2>1. f = [d EXCEPT !.format = e.format,
                      !.lastWasInit = IF LeftUnchanged(q, s.holder, e) \/ h = NoChunk
                                      THEN @ ELSE ~isMediaChunk(h)]
    BY DEF AfterOperation
  <2> HIDE DEF h, f
  <2>2. (~isMediaChunk(h)) \in BOOLEAN
    BY DEF isMediaChunk
  <2> QED
    BY <1>1, <2>1, <2>2 DEF ChunkSource
<1>4. o = [s EXCEPT !.holder = h, !.chunkSource = f]
  BY DEF Operated, Source
<1> HIDE DEF h, f, o
<1>5. /\ o \in Source /\ o.holder = h
      /\ o.queue = s.queue /\ o.open = s.open /\ o.reset = s.reset
      /\ o.readPos = s.readPos /\ o.exception = s.exception
      /\ o.illegal = s.illegal
  BY <1>2, <1>3, <1>4 DEF Source
<1> QED
  BY <1>2, <1>5 DEF o

-----------------------------------------------------------------------------
(* A load begins, or nothing does.  It changes the front of the queue only *)
(* where there is none, and leaves a reset only with a chunk to read.      *)

Goes(s, k, t, l) ==
  /\ \/ l = k /\ (isLoading(k) => t = s)
     \/ isLoading(l) /\ ~l.canceled
  /\ t.readPos = s.readPos
  /\ s.queue # <<>> => t.queue # <<>> /\ t.queue[1] = s.queue[1]
  /\ t.reset = s.reset \/ (t.reset = None /\ t.queue # <<>>)

LEMMA TaskStarted ==
  ASSUME NEW c \in Chunks, NEW loaded \in 0..ChunkSize
  PROVE  LET l == startLoading(loaded, SizeOf(c))
         IN  l \in Task /\ isLoading(l) /\ ~l.canceled
BY ChunkKinds DEF startLoading, Task, isLoading

(* A chunk that was held is loaded again.                                  *)
LEMMA LoadsAgain ==
  ASSUME NEW s, NEW k, Sound(s), Held(s), s.exception = "none",
         k \in Task, ~isLoading(k), Loads(s, k, k.loaded)
  PROVE  Settled(src', task') /\ Goes(s, k, src', task')
<1>1. s.holder \in Chunks /\ k.loaded \in 0..ChunkSize
  BY DEF Sound, Source, Held, Task
<1>2. task' \in Task /\ isLoading(task') /\ ~task'.canceled
  BY <1>1, TaskStarted DEF Loads
<1>3. src' = s
  <2>1. src' = [s EXCEPT !.illegal = FALSE]
    BY DEF Loads, Sound
  <2>2. s.illegal = FALSE
    BY DEF Sound, Source
  <2> QED
    BY <2>1, <2>2 DEF Sound, Source
<1> QED
  BY <1>2, <1>3 DEF Settled, Goes

LEMMA Appended ==
  ASSUME NEW s \in Source, Numbered(s.queue), NEW c \in MediaChunks,
         s.queue # <<>> => c.segment = Last(s.queue).segment + 1
  PROVE  LET q == Append(s.queue, c)
         IN  /\ q \in Seq(MediaChunks) /\ q # <<>> /\ Numbered(q)
             /\ ToSet(q) = Queued(s) \cup {c} /\ Last(q) = c
             /\ s.queue # <<>> => q[1] = s.queue[1]
<1> DEFINE q == Append(s.queue, c)
           n == Len(s.queue)
<1>1. /\ q \in Seq(MediaChunks) /\ q # <<>> /\ Len(q) = n + 1
      /\ \A i \in 1..n : q[i] = s.queue[i]
      /\ q[n + 1] = c
  BY QueueOf, AppendProperties
<1>2. n \in Nat /\ (s.queue # <<>> => n > 0) /\ (s.queue = <<>> => n = 0)
  BY QueueOf
<1>3. DOMAIN q = 1..n + 1
  BY <1>1, LenProperties
<1> HIDE DEF q
<1>4. ToSet(q) = Queued(s) \cup {c}
  <2>1. \A x : x \in ToSet(q) <=> \E i \in 1..n + 1 : x = q[i]
    BY <1>3 DEF ToSet
  <2>2. \A i \in 1..n + 1 : i \in 1..n \/ i = n + 1
    BY <1>2
  <2>3. n + 1 \in 1..n + 1 /\ \A i \in 1..n : i \in 1..n + 1
    BY <1>2
  <2> QED
    BY <1>1, <2>1, <2>2, <2>3, QueueOf
<1>5. Last(q) = c
  BY <1>1 DEF Last
<1>6. s.queue # <<>> => q[1] = s.queue[1]
  BY <1>1, <1>2
<1>7. \A i \in 1..n : c.segment = s.queue[i].segment + (n + 1 - i)
  <2>1. SUFFICES ASSUME NEW i \in 1..n
                 PROVE  c.segment = s.queue[i].segment + (n + 1 - i)
    OBVIOUS
  <2>2. n \in 1..n /\ s.queue # <<>>
    BY <1>2
  <2>3. s.queue[n].segment = s.queue[i].segment + (n - i)
    BY <2>2 DEF Numbered
  <2>4. c.segment = s.queue[n].segment + 1
    BY <2>2 DEF Last
  <2>5. s.queue[i].segment \in Int /\ i \in Int
    BY <1>2, QueueOf, ChunkKinds DEF Segments
  <2>6. \A x, m, h \in Int : (x + (m - h)) + 1 = x + (m + 1 - h)
    OBVIOUS
  <2>7. (s.queue[i].segment + (n - i)) + 1 = s.queue[i].segment + (n + 1 - i)
    BY <1>2, <2>5, <2>6, SMTT(30)
  <2> QED
    BY <2>3, <2>4, <2>7
<1>8. Numbered(q)
  <2>1. SUFFICES ASSUME NEW i \in 1..n + 1, NEW j \in 1..n + 1
                 PROVE  q[j].segment = q[i].segment + (j - i)
    BY <1>1 DEF Numbered
  <2>2. c.segment \in Int /\ \A m \in 1..n : s.queue[m].segment \in Int
    BY QueueOf, ChunkKinds DEF Segments
  <2>3. CASE i \in 1..n /\ j \in 1..n
    BY <1>1, <2>3 DEF Numbered
  <2>4. CASE i \in 1..n /\ j = n + 1
    BY <1>1, <1>7, <2>4
  <2>5. CASE i = n + 1 /\ j \in 1..n
    <3>1. q[j] = s.queue[j] /\ q[i] = c /\ j \in Int
      BY <1>1, <1>2, <2>5
    <3>2. c.segment = s.queue[j].segment + (n + 1 - j)
      BY <1>7, <2>5
    <3>3. s.queue[j].segment \in Int
      BY <2>2, <2>5
    <3>4. \A x, m, h \in Int : x = (x + (m - h)) + (h - m)
      OBVIOUS
    <3>5. s.queue[j].segment = c.segment + (j - (n + 1))
      BY <1>2, <3>1, <3>2, <3>3, <3>4
    <3> QED
      BY <2>5, <3>1, <3>5
  <2>6. CASE i = n + 1 /\ j = n + 1
    BY <1>1, <1>2, <2>2, <2>6
  <2> QED
    BY <1>2, <2>3, <2>4, <2>5, <2>6
<1> QED
  BY <1>1, <1>4, <1>5, <1>6, <1>8 DEF q

(* A chunk that waited is loaded, if there is one.                         *)
LEMMA StartsLoading ==
  ASSUME NEW s, NEW k, Sound(s), Waiting(s), s.exception = "none",
         k \in Task, ~isLoading(k), maybeStartLoading(s, k)
  PROVE  Settled(src', task') /\ Goes(s, k, src', task')
<1> DEFINE c == s.holder
           t == [s EXCEPT !.open = @ \cup {c}, !.illegal = @ \/ c \in s.open]
           u == IF isMediaChunk(c) THEN [t EXCEPT !.queue = Append(@, c), !.reset = None]
                ELSE t
<1>1. s \in Source /\ Numbered(s.queue) /\ s.illegal = FALSE
  BY DEF Sound, Source
<1>2. CASE c = NoChunk
  BY <1>2 DEF maybeStartLoading, Rests, Settled, Goes
<1>3. CASE c # NoChunk
  <2>1. c \in Chunks /\ (isMediaChunk(c) => c \in MediaChunks)
    BY <1>1, <1>3, ChunkKinds DEF Source
  <2>2. c \notin s.open
    BY <1>1, <2>1, NewLast, QueueOf, ChunkKinds DEF Waiting
  <2>3. t = [s EXCEPT !.open = @ \cup {c}]
    BY <1>1, <2>2 DEF Source
  <2> HIDE DEF t
  <2>4. /\ t \in Source /\ t.open = s.open \cup {c} /\ t.queue = s.queue
        /\ t.holder = c /\ t.exception = "none" /\ t.illegal = FALSE
        /\ t.reset = s.reset /\ t.readPos = s.readPos
    BY <1>1, <2>1, <2>3 DEF Source
  <2>5. /\ u \in Source /\ u.open = s.open \cup {c} /\ u.holder = c
        /\ u.exception = "none" /\ u.illegal = FALSE /\ u.readPos = s.readPos
        /\ u.queue = IF isMediaChunk(c) THEN Append(s.queue, c) ELSE s.queue
        /\ u.reset = IF isMediaChunk(c) THEN None ELSE s.reset
    <3>1. CASE isMediaChunk(c)
      <4>1. Append(s.queue, c) \in Seq(MediaChunks)
        BY <1>1, <2>1, <3>1, QueueOf, AppendProperties
      <4>2. u = [t EXCEPT !.queue = Append(s.queue, c), !.reset = None]
        BY <2>4, <3>1 DEF Source
      <4> QED
        BY <2>4, <3>1, <4>1, <4>2 DEF Source
    <3>2. CASE ~isMediaChunk(c)
      BY <2>4, <3>2
    <3> QED
      BY <3>1, <3>2
  <2> HIDE DEF u
  <2>6. Loads(u, k, 0)
    BY <1>3 DEF maybeStartLoading, u, t
  <2>7. src' = u
    <3>1. src' = [u EXCEPT !.illegal = FALSE]
      BY <2>5, <2>6 DEF Loads
    <3> QED
      BY <2>5, <3>1 DEF Source
  <2>8. task' \in Task /\ isLoading(task') /\ ~task'.canceled
    <3>1. 0 \in 0..ChunkSize
      BY LoaderAssumption
    <3> QED
      BY <2>1, <2>5, <2>6, <3>1, TaskStarted DEF Loads
  <2>9. Sound(u) /\ Held(u) /\ Goes(s, k, u, task')
    <3>1. CASE isMediaChunk(c)
      <4>1. /\ Numbered(u.queue) /\ u.queue # <<>>
            /\ Queued(u) = Queued(s) \cup {c} /\ Last(u.queue) = c
            /\ s.queue # <<>> => u.queue[1] = s.queue[1]
        BY <1>1, <2>1, <2>5, <3>1, Appended, ZenonT(30) DEF Waiting, Queued
      <4> QED
        BY <2>5, <2>8, <3>1, <4>1 DEF Sound, Held, Goes, Waiting
    <3>2. CASE ~isMediaChunk(c)
      <4>1. Queued(u) = Queued(s)
        BY <2>5, <3>2 DEF Queued
      <4> QED
        BY <1>1, <2>5, <2>8, <3>2, <4>1 DEF Sound, Held, Goes, Waiting
    <3> QED
      BY <3>1, <3>2
  <2> QED
    BY <2>5, <2>7, <2>8, <2>9 DEF Settled
<1> QED
  BY <1>2, <1>3

(* The chunk source is asked, and chunks are discarded as it says.         *)
LEMMA Discards ==
  ASSUME NEW s, Sound(s), Placed(s), NEW e \in Evaluations(s.chunkSource, s.queue)
  PROVE  LET d == discardUpstream(Operated(s, s.queue, e), e.queueSize)
         IN  /\ Sound(d)
             /\ d.reset = s.reset /\ d.readPos = s.readPos
             /\ d.exception = s.exception
             /\ Queued(d) \subseteq Queued(s)
             /\ d.open = s.open \ (Queued(s) \ Queued(d))
             /\ s.queue # <<>> => d.queue # <<>> /\ d.queue[1] = s.queue[1]
             /\ LeftUnchanged(s.queue, s.holder, e) =>
                  /\ d.holder = s.holder /\ Queued(d) = Queued(s)
                  /\ d.queue # <<>> => s.queue # <<>> /\ Last(d.queue) = Last(s.queue)
             /\ ~LeftUnchanged(s.queue, s.holder, e) =>
                  (isMediaChunk(d.holder) /\ d.queue # <<>> =>
                     d.holder.segment = Last(d.queue).segment + 1)
<1> DEFINE o == Operated(s, s.queue, e)
           n == e.queueSize
           d == discardUpstream(o, n)
           gone == {s.queue[i] : i \in n + 1..Len(s.queue)}
<1>1. /\ s \in Source /\ Numbered(s.queue) /\ ~s.illegal
      /\ s.queue # <<>> \/ s.reset # None
      /\ s.queue \in Seq(MediaChunks) /\ Len(s.queue) \in Nat
      /\ s.queue = <<>> <=> Len(s.queue) = 0
      /\ s.chunkSource \in ChunkSource
  BY QueueOf DEF Sound, Placed, Source
<1>2. n \in 0..Len(s.queue) /\ (s.queue # <<>> => n \in 1..Len(s.queue))
  BY <1>1, Evaluated
<1>3. /\ o \in Source
      /\ o.queue = s.queue /\ o.open = s.open /\ o.reset = s.reset
      /\ o.readPos = s.readPos /\ o.exception = s.exception
      /\ o.illegal = s.illegal
      /\ LeftUnchanged(s.queue, s.holder, e) => o.holder = s.holder
      /\ ~LeftUnchanged(s.queue, s.holder, e) =>
           (isMediaChunk(o.holder) /\ s.queue # <<>> =>
              o.holder.segment = s.queue[n].segment + 1)
  BY <1>1, OperatedFields
<1> HIDE DEF o
<1>4. /\ d \in Source /\ Kept(o, d) /\ d.readPos = s.readPos
      /\ d.open = s.open \ gone
  BY <1>2, <1>3, UpstreamFields
<1>5. /\ Numbered(d.queue) /\ Queued(d) = Queued(s) \ gone
      /\ d.queue # <<>> => n > 0 /\ Last(d.queue) = s.queue[n]
                                 /\ d.queue[1] = s.queue[1]
      /\ d.queue = <<>> <=> n = 0
  <2>1. Queued(o) = Queued(s)
    BY <1>3 DEF Queued
  <2> QED
    BY <1>1, <1>2, <1>3, <2>1, UpstreamQueue, SMTT(30)
<1> HIDE DEF d
<1>6. Sound(d) /\ d.reset = s.reset /\ d.exception = s.exception
      /\ d.holder = o.holder
  BY <1>1, <1>3, <1>4, <1>5 DEF Sound, Kept
<1>7. s.queue # <<>> => d.queue # <<>> /\ d.queue[1] = s.queue[1]
  BY <1>2, <1>5
<1>8. /\ n = Len(s.queue) => gone = {}
      /\ gone \subseteq Queued(s)
  BY <1>1, <1>2, QueueOf
<1>9. n > 0 => s.queue # <<>>
  BY <1>1, <1>2
<1> HIDE DEF gone
<1>10. LeftUnchanged(s.queue, s.holder, e) =>
         /\ d.holder = s.holder /\ Queued(d) = Queued(s)
         /\ d.queue # <<>> => s.queue # <<>> /\ Last(d.queue) = Last(s.queue)
  BY <1>3, <1>5, <1>6, <1>8, <1>9 DEF LeftUnchanged, Last
<1>11. ~LeftUnchanged(s.queue, s.holder, e) =>
         (isMediaChunk(d.holder) /\ d.queue # <<>> =>
            d.holder.segment = Last(d.queue).segment + 1)
  BY <1>3, <1>5, <1>6, <1>9
<1> QED
  BY <1>4, <1>5, <1>6, <1>7, <1>8, <1>10, <1>11 DEF d, o

(* The chunk that waits is reconsidered; what it becomes waits as well.    *)
LEMMA Considered ==
  ASSUME NEW s, NEW k, NEW next, Sound(s), Waiting(s), Placed(s),
         s.exception = "none", k \in Task, ~isLoading(k), Considers(s, k, next)
  PROVE  Settled(src', task') /\ Goes(s, k, src', task')
<1>1. PICK e \in Evaluations(s.chunkSource, s.queue) :
        LET o == discardUpstream(Operated(s, s.queue, e), e.queueSize)
        IN  IF next THEN maybeStartLoading(o, k) ELSE Rests(o, k)
  BY DEF Considers
<1> DEFINE o == discardUpstream(Operated(s, s.queue, e), e.queueSize)
<1>2. /\ Sound(o) /\ o.reset = s.reset /\ o.readPos = s.readPos
      /\ o.exception = "none" /\ o.open = Queued(o)
      /\ s.queue # <<>> => o.queue # <<>> /\ o.queue[1] = s.queue[1]
      /\ isMediaChunk(o.holder) /\ o.queue # <<>> =>
           o.holder.segment = Last(o.queue).segment + 1
  <2>1. /\ Sound(o) /\ o.reset = s.reset /\ o.readPos = s.readPos
        /\ o.exception = "none" /\ Queued(o) \subseteq Queued(s)
        /\ o.open = s.open \ (Queued(s) \ Queued(o))
        /\ s.queue # <<>> => o.queue # <<>> /\ o.queue[1] = s.queue[1]
        /\ LeftUnchanged(s.queue, s.holder, e) =>
             /\ o.holder = s.holder
             /\ o.queue # <<>> => s.queue # <<>> /\ Last(o.queue) = Last(s.queue)
        /\ ~LeftUnchanged(s.queue, s.holder, e) =>
             (isMediaChunk(o.holder) /\ o.queue # <<>> =>
                o.holder.segment = Last(o.queue).segment + 1)
    BY Discards
  <2> HIDE DEF o
  <2> QED
    BY <2>1 DEF Waiting
<1>3. IF next THEN maybeStartLoading(o, k) ELSE Rests(o, k)
  BY <1>1
<1> HIDE DEF o
<1>4. Waiting(o)
  BY <1>2 DEF Waiting
<1>5. CASE next
  BY <1>2, <1>3, <1>4, <1>5, StartsLoading DEF Goes
<1>6. CASE ~next
  BY <1>2, <1>3, <1>4, <1>6 DEF Rests, Settled, Goes
<1> QED
  BY <1>5, <1>6

-----------------------------------------------------------------------------
(* After an error, a chunk is loaded again or given up.                    *)

LEMMA ReleasedFields ==
  ASSUME NEW s \in Source, NEW cs
  PROVE  LET r == Released(s, cs)
         IN  /\ r \in Source /\ Kept(s, r) /\ r.open = s.open \ cs
             /\ r.queue = s.queue /\ r.readPos = s.readPos
<1>1. Released(s, cs) = [s EXCEPT !.open = @ \ cs]
  BY DEF Released
<1> QED
  BY <1>1 DEF Source, Kept

LEMMA ResumesNonMedia ==
  ASSUME NEW s, NEW k, Sound(s), Held(s), Placed(s), s.exception = "none",
         k \in Task, ~isLoading(k), ~isMediaChunk(s.holder),
         NEW e \in Evaluations(s.chunkSource, s.queue), ResumeNonMedia(s, k, e)
  PROVE  Settled(src', task') /\ Goes(s, k, src', task')
<1> DEFINE o == discardUpstream(Operated(s, s.queue, e), e.queueSize)
           r == Released(o, {s.holder})
<1>1. /\ Sound(o) /\ o.reset = s.reset /\ o.readPos = s.readPos
      /\ o.exception = "none" /\ Queued(o) \subseteq Queued(s)
      /\ o.open = s.open \ (Queued(s) \ Queued(o))
      /\ s.queue # <<>> => o.queue # <<>> /\ o.queue[1] = s.queue[1]
      /\ LeftUnchanged(s.queue, s.holder, e) =>
           o.holder = s.holder /\ Queued(o) = Queued(s)
      /\ ~LeftUnchanged(s.queue, s.holder, e) =>
           (isMediaChunk(o.holder) /\ o.queue # <<>> =>
              o.holder.segment = Last(o.queue).segment + 1)
  BY Discards
<1>2. IF LeftUnchanged(s.queue, s.holder, e) THEN Loads(o, k, k.loaded)
      ELSE maybeStartLoading(r, k)
  BY DEF ResumeNonMedia
<1> HIDE DEF o
<1>3. s.open = Queued(s) \cup {s.holder} /\ s.holder \notin Queued(s)
  BY ChunkKinds, QueueOf DEF Sound, Held
<1>4. CASE LeftUnchanged(s.queue, s.holder, e)
  <2>1. Held(o)
    BY <1>1, <1>3, <1>4 DEF Held
  <2>2. Settled(src', task') /\ Goes(o, k, src', task')
    BY <1>1, <1>2, <1>4, <2>1, LoadsAgain
  <2> QED
    BY <1>1, <2>2 DEF Goes
<1>5. CASE ~LeftUnchanged(s.queue, s.holder, e)
  <2>1. /\ r \in Source /\ Kept(o, r) /\ r.open = o.open \ {s.holder}
        /\ r.queue = o.queue /\ r.readPos = o.readPos
    BY <1>1, ReleasedFields DEF Sound
  <2> HIDE DEF r
  <2>2. /\ Queued(r) = Queued(o) /\ r.open = Queued(o)
    BY <1>1, <1>3, <2>1 DEF Queued
  <2>3. Sound(r) /\ r.exception = "none" /\ r.reset = s.reset
    BY <1>1, <2>1 DEF Sound, Kept
  <2>4. Waiting(r)
    BY <1>1, <1>5, <2>1, <2>2 DEF Waiting, Kept
  <2>5. Settled(src', task') /\ Goes(r, k, src', task')
    BY <1>2, <1>5, <2>3, <2>4, StartsLoading
  <2> QED
    BY <1>1, <2>1, <2>3, <2>5 DEF Goes
<1> QED
  BY <1>4, <1>5

(* All but the last of a queue of two or more.                             *)
LEMMA FrontOf ==
  ASSUME NEW s \in Source, s.queue # <<>>, Last(s.queue) # s.queue[1]
  PROVE  LET q == Front(s.queue)
         IN  /\ q \in Seq(MediaChunks) /\ q # <<>>
             /\ Len(q) = Len(s.queue) - 1
             /\ \A i \in 1..Len(q) : q[i] = s.queue[i]
<1> DEFINE q == SubSeq(s.queue, 1, Len(s.queue) - 1)
           n == Len(s.queue) - 1
<1>1. Len(s.queue) \in Nat /\ Len(s.queue) # 0 /\ Len(s.queue) # 1
  BY QueueOf DEF Last
<1>2. n \in Nat \ {0}
  BY <1>1
<1>3. \A i \in 1..n : s.queue[i] \in MediaChunks
  BY <1>1, QueueOf
<1>4. /\ q \in Seq(MediaChunks)
      /\ Len(q) = IF 1 <= n THEN n - 1 + 1 ELSE 0
      /\ \A i \in 1..n - 1 + 1 : q[i] = s.queue[1 + i - 1]
  BY <1>2, <1>3, SubSeqProperties
<1> HIDE DEF q
<1>5. Len(q) = n /\ \A i \in 1..n : 1 + i - 1 = i
  BY <1>2, <1>4
<1>6. \A i \in 1..Len(q) : q[i] = s.queue[i]
  BY <1>2, <1>4, <1>5
<1>7. q # <<>>
  BY <1>2, <1>4, <1>5, EmptySeq
<1> QED
  BY <1>4, <1>5, <1>6, <1>7 DEF q, Front

LEMMA ResumesLast ==
  ASSUME NEW s, NEW k, Sound(s), Held(s), s.exception = "none",
         k \in Task, ~isLoading(k),
         isMediaChunk(s.holder), s.holder # s.queue[1],
         NEW e \in Evaluations(s.chunkSource, Front(s.queue)),
         ResumeLast(s, k, e)
  PROVE  Settled(src', task') /\ Goes(s, k, src', task')
<1> DEFINE q == Front(s.queue)
           o == Operated(s, q, e)
           n == e.queueSize
           d == discardUpstream(o, n)
           c == clearCurrentLoadable(d)
<1>1. /\ s \in Source /\ Numbered(s.queue) /\ ~s.illegal
      /\ s.queue # <<>> /\ s.holder = Last(s.queue) /\ s.open = Queued(s)
  BY DEF Sound, Held
<1>2. /\ q \in Seq(MediaChunks) /\ q # <<>>
      /\ Len(q) = Len(s.queue) - 1
      /\ \A i \in 1..Len(q) : q[i] = s.queue[i]
  BY <1>1, FrontOf
<1> HIDE DEF q
<1>3. n \in 1..Len(q) /\ n \in 1..Len(s.queue) /\ n \in 0..Len(s.queue)
  <2>1. s.chunkSource \in ChunkSource /\ Len(s.queue) \in Nat
    BY <1>1, QueueOf DEF Source
  <2>2. n \in 1..Len(q)
    BY <1>2, <2>1, Evaluated DEF q
  <2> QED
    BY <1>2, <2>1, <2>2
<1>4. /\ o \in Source
      /\ o.queue = s.queue /\ o.open = s.open /\ o.reset = s.reset
      /\ o.readPos = s.readPos /\ o.exception = "none" /\ ~o.illegal
      /\ LeftUnchanged(q, s.holder, e) => o.holder = s.holder
  BY <1>1, <1>2, OperatedFields DEF q
<1>5. IF LeftUnchanged(q, s.holder, e) THEN Loads(o, k, k.loaded)
      ELSE maybeStartLoading(c, k)
  BY DEF ResumeLast, q
<1> HIDE DEF o, n
<1>6. CASE LeftUnchanged(q, s.holder, e)
  <2>1. Sound(o) /\ Held(o)
    BY <1>1, <1>4, <1>6 DEF Sound, Held, Queued
  <2>2. Settled(src', task') /\ Goes(o, k, src', task')
    BY <1>4, <1>5, <1>6, <2>1, LoadsAgain
  <2> QED
    BY <1>4, <2>2 DEF Goes
<1>7. CASE ~LeftUnchanged(q, s.holder, e)
  <2>1. /\ d \in Source /\ Kept(o, d) /\ d.readPos = s.readPos
        /\ d.open = s.open \ {s.queue[i] : i \in n + 1..Len(s.queue)}
    BY <1>3, <1>4, UpstreamFields
  <2>2. /\ Numbered(d.queue)
        /\ Queued(d) = Queued(s) \ {s.queue[i] : i \in n + 1..Len(s.queue)}
        /\ d.queue # <<>> => d.queue[1] = s.queue[1]
        /\ d.queue # <<>>
    <3>1. Queued(o) = Queued(s)
      BY <1>4 DEF Queued
    <3>2. n # 0
      BY <1>3
    <3> QED
      BY <1>1, <1>3, <1>4, <3>1, <3>2, UpstreamQueue
  <2>3. d.open = Queued(d)
    BY <1>1, <2>1, <2>2
  <2> HIDE DEF d
  <2>4. /\ c \in Source /\ c.queue = d.queue /\ c.reset = s.reset
        /\ c.readPos = s.readPos /\ ~c.illegal
        /\ c.holder = NoChunk /\ c.exception = "none"
        /\ c.open = Queued(d)
    <3>1. /\ c \in Source /\ c.queue = d.queue /\ c.reset = d.reset
          /\ c.readPos = d.readPos /\ c.illegal = d.illegal
          /\ c.holder = NoChunk /\ c.exception = "none"
          /\ c.open = IF d.holder \in Queued(d) THEN d.open
                                               ELSE d.open \ {d.holder}
      BY <2>1, Unheld
    <3> HIDE DEF c
    <3> QED
      BY <1>4, <2>1, <2>3, <3>1 DEF Kept
  <2> HIDE DEF c
  <2>5. src' = c /\ task' = k
    BY <1>5, <1>7, <2>4 DEF maybeStartLoading, Rests
  <2>6. Sound(c) /\ Waiting(c)
    BY <2>2, <2>4, ChunkKinds DEF Sound, Waiting, Queued
  <2> QED
    BY <2>2, <2>4, <2>5, <2>6 DEF Settled, Goes
<1> QED
  BY <1>6, <1>7

LEMMA Resumes ==
  ASSUME NEW s, NEW k, Sound(s), Held(s), Placed(s), k \in Task, ~isLoading(k),
         resumeFromBackOff(s, k)
  PROVE  Settled(src', task') /\ Goes(s, k, src', task')
<1> DEFINE r == [s EXCEPT !.exception = "none"]
<1>1. /\ r \in Source /\ r.exception = "none"
      /\ r.queue = s.queue /\ r.holder = s.holder /\ r.open = s.open
      /\ r.reset = s.reset /\ r.readPos = s.readPos /\ r.illegal = s.illegal
      /\ r.chunkSource = s.chunkSource
  BY DEF Sound, Source
<1>2. \/ /\ ~isMediaChunk(r.holder)
         /\ \E e \in Evaluations(r.chunkSource, r.queue) :
              ResumeNonMedia(r, k, e)
      \/ /\ isMediaChunk(r.holder) /\ r.holder = r.queue[1]
         /\ Loads(r, k, k.loaded)
      \/ /\ isMediaChunk(r.holder) /\ r.holder # r.queue[1]
         /\ \E e \in Evaluations(r.chunkSource, Front(r.queue)) :
              ResumeLast(r, k, e)
  BY DEF resumeFromBackOff
<1> HIDE DEF r
<1>3. Sound(r) /\ Held(r) /\ Placed(r)
  BY <1>1 DEF Sound, Held, Placed, Queued
<1>4. Settled(src', task') /\ Goes(r, k, src', task')
  BY <1>1, <1>2, <1>3, ResumesNonMedia, ResumesLast, LoadsAgain
<1> QED
  BY <1>1, <1>4 DEF Goes

(* updateLoadControl keeps a source and its loader in order.               *)
LEMMA UpdatesLoadControl ==
  ASSUME NEW s, NEW k, NEW next, NEW due, Settled(s, k), Placed(s),
         updateLoadControl(s, k, next, due)
  PROVE  Settled(src', task') /\ Goes(s, k, src', task')
<1>1. CASE Rests(s, k)
  BY <1>1 DEF Rests, Goes
<1>2. CASE s.exception = "error" /\ resumeFromBackOff(s, k)
  BY <1>2, Resumes DEF Settled
<1>3. CASE s.exception = "none" /\ ~isLoading(k) /\ Considers(s, k, next)
  BY <1>3, Considered DEF Settled
<1>4. CASE s.exception = "none" /\ ~isLoading(k) /\ maybeStartLoading(s, k)
  BY <1>4, StartsLoading DEF Settled
<1> QED
  BY <1>1, <1>2, <1>3, <1>4 DEF updateLoadControl, Waits

(* A restart cancels the load, or begins anew at once.                     *)
LEMMA Restarts ==
  ASSUME NEW s, NEW k, NEW time \in Times, NEW next, NEW due, Settled(s, k),
         restartFrom(s, k, time, next, due)
  PROVE  /\ Settled(src', task') /\ Placed(src')
         /\ isLoading(task') /\ task'.canceled => src'.reset # None
<1>1. time # None
  BY DEF Times, None
<1>2. s \in Source /\ k \in Task
  BY DEF Settled, Sound
<1>3. CASE isLoading(k)
  <2> DEFINE r == [s EXCEPT !.reset = time]
  <2>1. /\ r \in Source /\ r.reset = time
        /\ r.queue = s.queue /\ r.holder = s.holder /\ r.open = s.open
        /\ r.exception = s.exception /\ r.illegal = s.illegal
    BY <1>2 DEF Source
  <2>2. src' = r /\ task' = cancelLoading(k)
    BY <1>3 DEF restartFrom, Rests
  <2> HIDE DEF r
  <2>3. task' \in Task /\ (isLoading(task') <=> isLoading(k))
    BY <1>2, <2>2 DEF cancelLoading, Task, isLoading
  <2> QED
    BY <1>1, <1>2, <1>3, <2>1, <2>2, <2>3
       DEF Settled, Sound, Held, Queued, Placed
<1>4. CASE ~isLoading(k)
  <2> DEFINE c == clearCurrentLoadable(clearMediaChunks([s EXCEPT !.reset = time]))
  <2>1. Settled(c, k) /\ c.reset = time
    BY <1>4, Restarted
  <2>2. updateLoadControl(c, k, next, due)
    BY <1>4 DEF restartFrom
  <2> HIDE DEF c
  <2>3. Settled(src', task') /\ Goes(c, k, src', task')
    BY <1>1, <2>1, <2>2, UpdatesLoadControl DEF Placed
  <2> QED
    BY <1>1, <1>4, <2>1, <2>3 DEF Goes, Placed
<1> QED
  BY <1>3, <1>4

-----------------------------------------------------------------------------
(* Chunks that have been read or are skipped leave the queue.              *)

LEMMA Rewound ==
  ASSUME NEW s, NEW k, Settled(s, k), NEW r \in 0..ChunkSize
  PROVE  LET t == [s EXCEPT !.readPos = r]
         IN  /\ Settled(t, k) /\ t.queue = s.queue /\ t.reset = s.reset
             /\ t.readPos = r /\ t.exception = s.exception
<1> DEFINE t == [s EXCEPT !.readPos = r]
<1>1. /\ t \in Source /\ t.queue = s.queue /\ t.reset = s.reset
      /\ t.holder = s.holder /\ t.open = s.open /\ t.readPos = r
      /\ t.exception = s.exception /\ t.illegal = s.illegal
  BY DEF Settled, Sound, Source
<1> HIDE DEF t
<1>2. Settled(t, k)
  BY <1>1 DEF Settled, Sound, Held, Waiting, Queued
<1> QED
  BY <1>1, <1>2 DEF t

LEMMA ReadsOn ==
  ASSUME NEW s, NEW k, Settled(s, k), NEW n \in 0..Len(s.queue), n # Len(s.queue)
  PROVE  LET d == discardDownstream(s, n)
         IN  /\ Settled(d, k) /\ d.reset = s.reset /\ d.queue # <<>>
             /\ d.queue[1] = s.queue[n + 1] /\ d.exception = s.exception
             /\ d.readPos = IF n = 0 THEN s.readPos ELSE 0
<1> DEFINE d == discardDownstream(s, n)
           gone == {s.queue[i] : i \in 1..n}
<1>1. s \in Source /\ Numbered(s.queue) /\ Len(s.queue) \in Nat
  BY QueueOf DEF Settled, Sound
<1>2. /\ d \in Source /\ Kept(s, d)
      /\ d.readPos = IF n = 0 THEN s.readPos ELSE 0
      /\ Len(d.queue) = Len(s.queue) - n
      /\ \A i \in 1..Len(d.queue) : d.queue[i] = s.queue[i + n]
      /\ d.open = s.open \ gone
  BY <1>1, DownstreamFields
<1>3. /\ Numbered(d.queue) /\ Queued(d) = Queued(s) \ gone
      /\ d.queue # <<>> /\ Last(d.queue) = Last(s.queue)
  BY <1>1, DownstreamQueue
<1>4. gone \subseteq Queued(s) /\ s.queue # <<>>
  <2>1. \A i \in 1..n : i \in 1..Len(s.queue)
    BY <1>1
  <2> QED
    BY <1>1, <2>1, QueueOf
<1>5. d.queue[1] = s.queue[n + 1]
  <2>1. 1 \in 1..Len(d.queue) /\ 1 + n = n + 1
    BY <1>1, <1>2
  <2> QED
    BY <1>2, <2>1
<1>6. ~isMediaChunk(s.holder) => s.holder \notin gone
  BY <1>1, <1>4, QueueOf, ChunkKinds DEF Source
<1> HIDE DEF d, gone
<1>7. Held(s) => Held(d)
  <2>1. SUFFICES ASSUME Held(s) PROVE Held(d)
    OBVIOUS
  <2>2. d.holder = s.holder
    BY <1>2 DEF Kept
  <2>3. CASE isMediaChunk(s.holder)
    <3>1. s.holder = Last(d.queue) /\ s.open = Queued(s)
      BY <1>3, <2>1, <2>3 DEF Held
    <3>2. Last(d.queue) \in Queued(d)
      <4>1. Len(d.queue) \in 1..Len(d.queue)
        BY <1>2, <1>3, QueueOf
      <4> QED
        BY <1>2, <4>1, QueueOf DEF Last
    <3> QED
      BY <1>2, <1>3, <2>2, <2>3, <3>1, <3>2 DEF Held
  <2>4. CASE ~isMediaChunk(s.holder)
    BY <1>2, <1>3, <1>6, <2>1, <2>2, <2>4 DEF Held
  <2> QED
    BY <2>3, <2>4
<1>8. Waiting(s) => Waiting(d)
  BY <1>2, <1>3, <1>4 DEF Waiting, Kept
<1>9. s.open = Queued(s) => d.open = Queued(d)
  BY <1>2, <1>3
<1>10. Settled(d, k)
  BY <1>2, <1>3, <1>7, <1>8, <1>9 DEF Settled, Sound, Kept
<1> QED
  BY <1>2, <1>3, <1>5, <1>10 DEF d, Kept

(* A place that getMediaChunk finds is one of the queue.                   *)
LEMMA PlaceFound ==
  ASSUME src \in Source, NEW time \in Times, getMediaChunk(time) > 0
  PROVE  /\ getMediaChunk(time) \in 1..Len(src.queue)
         /\ getMediaChunk(time) - 1 \in 0..Len(src.queue)
         /\ getMediaChunk(time) - 1 # Len(src.queue)
<1> DEFINE I == {i \in 1..Len(src.queue) : src.queue[i].segment = getSegmentNum(time)}
<1>1. getMediaChunk(time) = IF I # {} THEN Min(I) ELSE 0
  BY DEF getMediaChunk, SelectInSeq
<1>2. Len(src.queue) \in Nat
  BY QueueOf
<1>3. I \in SUBSET Nat /\ I \subseteq 1..Len(src.queue)
  BY <1>2
<1> HIDE DEF I
<1>4. I # {}
  <2>1. I = {} => getMediaChunk(time) = 0
    BY <1>1
  <2>2. ~(0 > 0)
    OBVIOUS
  <2> QED
    BY <2>1, <2>2
<1>5. Min(I) \in I
  BY <1>3, <1>4, LeastPlace
<1>6. getMediaChunk(time) \in 1..Len(src.queue)
  BY <1>1, <1>3, <1>4, <1>5
<1> QED
  BY <1>2, <1>6

-----------------------------------------------------------------------------
(* A load has ended, and the holder lets go of its chunk.                  *)

LEMMA TaskEnded ==
  ASSUME NEW k \in Task
  PROVE  onFinished(k) \in Task /\ ~isLoading(onFinished(k))
BY DEF onFinished, Task, isLoading

LEMMA Ended ==
  ASSUME NEW s, NEW k, Settled(s, k), isLoading(k), NEW r \in Source,
         r.queue = s.queue, r.holder = s.holder, r.reset = s.reset,
         r.readPos = s.readPos, r.illegal = s.illegal,
         r.open = IF isMediaChunk(s.holder) THEN s.open
                                            ELSE s.open \ {s.holder}
  PROVE  LET c == clearCurrentLoadable(r)
         IN  /\ Settled(c, onFinished(k)) /\ c.queue = s.queue
             /\ c.reset = s.reset /\ c.readPos = s.readPos
             /\ c.holder = NoChunk /\ c.exception = "none"
<1> DEFINE c == clearCurrentLoadable(r)
<1>1. /\ s \in Source /\ Numbered(s.queue) /\ ~s.illegal /\ k \in Task
      /\ Held(s)
  BY DEF Settled, Sound
<1>2. /\ c \in Source /\ c.queue = r.queue /\ c.reset = r.reset
      /\ c.readPos = r.readPos /\ c.illegal = r.illegal
      /\ c.holder = NoChunk /\ c.exception = "none"
      /\ c.open = IF r.holder \in Queued(r) THEN r.open ELSE r.open \ {r.holder}
  BY Unheld
<1>3. Queued(c) = Queued(s) /\ Queued(r) = Queued(s)
  BY <1>2 DEF Queued
<1>4. r.open = Queued(s)
  <2>1. ~isMediaChunk(s.holder) => s.holder \notin Queued(s)
    BY <1>1, QueueOf, ChunkKinds
  <2> QED
    BY <1>1, <2>1 DEF Held
<1> HIDE DEF c
<1>5. c.open = Queued(c)
  BY <1>2, <1>3, <1>4
<1>6. Sound(c) /\ Waiting(c)
  BY <1>1, <1>2, <1>5, ChunkKinds DEF Sound, Waiting
<1>7. Settled(c, onFinished(k))
  BY <1>1, <1>2, <1>6, TaskEnded DEF Settled
<1> QED
  BY <1>2, <1>7 DEF c

-----------------------------------------------------------------------------
(* Every step keeps the invariant.                                         *)

(* What updateLoadControl leaves of an enabled source, s with the loader k.*)
LEMMA BuffersOn ==
  ASSUME IInv, state = "ENABLED", state' = state,
         NEW s, NEW k, NEW next, NEW due, Settled(s, k), Placed(s),
         s.reset = src.reset, k = task \/ ~isLoading(k),
         updateLoadControl(s, k, next, due)
  PROVE  Settled(src', task') /\ Placed(src') /\ LetsGo'
<1>1. Settled(src', task') /\ Goes(s, k, src', task')
  BY UpdatesLoadControl
<1>2. Placed(src')
  BY <1>1 DEF Placed, Goes
<1>3. LetsGo'
  BY <1>1 DEF LetsGo, Goes, IInv, isPendingReset
<1> QED
  BY <1>1, <1>2, <1>3

(* The sample that is read next remains what it was.                       *)
LEMMA StillFollows ==
  ASSUME IInv, state = "ENABLED", state' = state,
         pendingDiscontinuity' = pendingDiscontinuity, delivered' = delivered,
         NEW s, NEW k, NEW next, NEW due, Settled(s, k),
         s.queue = src.queue, s.reset = src.reset, s.readPos = src.readPos,
         updateLoadControl(s, k, next, due)
  PROVE  Follows'
<1>1. Placed(s) /\ (src.reset = None => s.queue # <<>>)
  BY DEF Placed, IInv
<1>2. Goes(s, k, src', task')
  BY <1>1, UpdatesLoadControl
<1>3. SUFFICES ASSUME ~pendingDiscontinuity, delivered # None
               PROVE  ~isPendingReset' /\ NextSample(src') = delivered + 1
  BY DEF Follows
<1>4. src.reset = None /\ NextSample(src) = delivered + 1
  BY <1>3 DEF IInv, Follows, isPendingReset
<1> QED
  BY <1>1, <1>2, <1>4 DEF Goes, isPendingReset, NextSample

LEMMA InitIInv == Init => IInv
<1>1. SUFFICES ASSUME Init PROVE IInv
  OBVIOUS
<1>2. task \in Task /\ ~isLoading(task)
  BY <1>1, LoaderAssumption DEF Init, Task, NoTask, isLoading
<1>3. src \in Source
  <2>1. /\ <<>> \in Seq(MediaChunks) /\ 0 \in 0..ChunkSize
        /\ NewChunkSource \in ChunkSource
    BY LoaderAssumption DEF NewChunkSource, ChunkSource
  <2> QED
    BY <1>1, <2>1 DEF Init, Source
<1>4. /\ src.queue = <<>> /\ src.holder = NoChunk /\ src.exception = "none"
      /\ src.open = {} /\ ~src.illegal /\ src.reset = None
  BY <1>1 DEF Init
<1>5. Numbered(src.queue) /\ Queued(src) = {}
  BY <1>4 DEF Numbered, Queued, ToSet
<1>6. Settled(src, task)
  BY <1>2, <1>3, <1>4, <1>5 DEF Settled, Sound, Waiting
<1> QED
  BY <1>1, <1>2, <1>4, <1>6 DEF IInv, Others, LetsGo, Follows, Init

LEMMA IdleSteps ==
  ASSUME IInv, Prepare \/ Release \/ ReadDiscontinuity \/ UNCHANGED vars
  PROVE  IInv'
<1>1. CASE Prepare
  BY <1>1 DEF Prepare, readVars, IInv, Others, LetsGo, Follows, isPendingReset,
              Placed
<1>2. CASE Release
  <2>1. /\ src' = src /\ state = "PREPARED" /\ state' = "RELEASED"
        /\ UNCHANGED readVars
        /\ task' = IF isLoading(task) THEN cancelLoading(task) ELSE task
    BY <1>2 DEF Release
  <2>2. Settled(src', task') /\ (isLoading(task') <=> isLoading(task))
        /\ (isLoading(task') => task'.canceled)
    <3>1. task \in Task
      BY DEF IInv, Settled
    <3>2. CASE isLoading(task)
      <4>1. task' \in Task /\ isLoading(task') /\ task'.canceled
        BY <2>1, <3>1, <3>2 DEF cancelLoading, Task, isLoading
      <4> QED
        BY <2>1, <3>2, <4>1 DEF IInv, Settled
    <3>3. CASE ~isLoading(task)
      BY <2>1, <3>3 DEF IInv
    <3> QED
      BY <3>2, <3>3
  <2> QED
    BY <2>1, <2>2 DEF readVars, IInv, Others, LetsGo, Follows, isPendingReset
<1>3. CASE ReadDiscontinuity
  BY <1>3 DEF ReadDiscontinuity, IInv, Others, LetsGo, Follows, isPendingReset,
              Placed
<1>4. CASE UNCHANGED vars
  BY <1>4 DEF vars, readVars, IInv, Others, LetsGo, Follows, isPendingReset,
              Placed
<1> QED
  BY <1>1, <1>2, <1>3, <1>4

LEMMA DisableStep ==
  ASSUME IInv, Disable
  PROVE  IInv'
<1>1. src \in Source /\ task \in Task
  BY DEF IInv, Settled, Sound
<1>2. Others'
  BY DEF Disable, IInv, Others
<1>3. CASE isLoading(task)
  <2>1. src' = src /\ task' = cancelLoading(task)
    BY <1>3 DEF Disable, Rests
  <2>2. task' \in Task /\ isLoading(task') /\ task'.canceled
    BY <1>1, <1>3, <2>1 DEF cancelLoading, Task, isLoading
  <2>3. Settled(src', task')
    BY <1>3, <2>1, <2>2 DEF IInv, Settled
  <2> QED
    BY <1>2, <2>1, <2>2, <2>3 DEF Disable, IInv, LetsGo, Follows
<1>4. CASE ~isLoading(task)
  <2> DEFINE c == clearCurrentLoadable(clearMediaChunks([src EXCEPT !.reset = src.reset]))
  <2>1. [src EXCEPT !.reset = src.reset] = src /\ src.reset \in Times \cup {None}
    BY <1>1 DEF Source
  <2>2. /\ Settled(c, task) /\ c.queue = <<>> /\ c.holder = NoChunk
        /\ c.exception = "none"
    BY <1>4, <2>1, Restarted DEF IInv
  <2>3. src' = c /\ task' = task
    BY <1>4, <2>1 DEF Disable, Rests
  <2> HIDE DEF c
  <2> QED
    BY <1>2, <1>4, <2>2, <2>3 DEF Disable, IInv, LetsGo, Follows
<1> QED
  BY <1>3, <1>4

LEMMA EnableStep ==
  ASSUME IInv, NEW time \in SeekTimes, NEW next, NEW due, Enable(time, next, due)
  PROVE  IInv'
<1>1. time \in Times
  BY SourceAssumption
<1>2. /\ Settled(src', task') /\ Placed(src')
      /\ isLoading(task') /\ task'.canceled => src'.reset # None
  BY <1>1, Restarts DEF Enable, IInv
<1> QED
  BY <1>1, <1>2 DEF Enable, IInv, Others, LetsGo, Follows, isPendingReset

LEMMA BufferStep ==
  ASSUME IInv, NEW next, NEW due, continueBuffering(next, due)
  PROVE  IInv'
<1>1. /\ state = "ENABLED" /\ state' = state /\ UNCHANGED readVars
      /\ updateLoadControl(src, task, next, due)
  BY DEF continueBuffering, Reading
<1>2. Settled(src, task) /\ Placed(src)
  BY <1>1 DEF IInv
<1>3. Settled(src', task') /\ Placed(src') /\ LetsGo'
  BY <1>1, <1>2, BuffersOn
<1>4. Follows'
  BY <1>1, <1>2, StillFollows DEF readVars
<1> QED
  BY <1>1, <1>3, <1>4 DEF readVars, IInv, Others

LEMMA SeekStep ==
  ASSUME IInv, NEW time \in SeekTimes, NEW next, NEW due, seekToUs(time, next, due)
  PROVE  IInv'
<1> DEFINE i == getMediaChunk(time)
           d == [discardDownstream(src, i - 1) EXCEPT !.readPos = 0]
<1>1. /\ time \in Times /\ state = "ENABLED" /\ state' = state
      /\ lastSeek' = time
      /\ UNCHANGED <<announced, delivered, thrown>>
  BY SourceAssumption DEF seekToUs, Reading
<1>2. Settled(src, task) /\ Placed(src) /\ src \in Source
  BY <1>1 DEF IInv, Settled, Sound
<1>3. CASE UNCHANGED <<src, task, pendingDiscontinuity>>
  BY <1>1, <1>3 DEF IInv, Others, LetsGo, Follows, isPendingReset, Placed
<1>4. CASE SeekOutside(time, next, due)
  <2>1. /\ Settled(src', task') /\ Placed(src')
        /\ isLoading(task') /\ task'.canceled => src'.reset # None
    BY <1>1, <1>2, <1>4, Restarts DEF SeekOutside
  <2> QED
    BY <1>1, <1>4, <2>1
       DEF SeekOutside, IInv, Others, LetsGo, Follows, isPendingReset
<1>5. CASE /\ UNCHANGED pendingDiscontinuity
           /\ updateLoadControl(src, task, next, due)
  <2>1. Settled(src', task') /\ Placed(src') /\ LetsGo'
    BY <1>1, <1>2, <1>5, BuffersOn
  <2>2. Follows'
    BY <1>1, <1>2, <1>5, StillFollows
  <2> QED
    BY <1>1, <1>5, <2>1, <2>2 DEF IInv, Others
<1>6. CASE /\ i > 0 /\ pendingDiscontinuity' = TRUE
           /\ updateLoadControl(d, task, next, due)
  <2>1. i - 1 \in 0..Len(src.queue) /\ i - 1 # Len(src.queue)
    BY <1>1, <1>2, <1>6, PlaceFound
  <2> DEFINE e == discardDownstream(src, i - 1)
  <2>2. Settled(e, task) /\ e.reset = src.reset /\ e.queue # <<>>
    BY <1>2, <2>1, ReadsOn
  <2>3. d = [e EXCEPT !.readPos = 0] /\ 0 \in 0..ChunkSize
    BY LoaderAssumption
  <2> HIDE DEF e, d
  <2>4. Settled(d, task) /\ d.reset = src.reset /\ d.queue # <<>>
    BY <2>2, <2>3, Rewound
  <2>5. Placed(d)
    BY <2>4 DEF Placed
  <2>6. Settled(src', task') /\ Placed(src') /\ LetsGo'
    BY <1>1, <1>6, <2>4, <2>5, BuffersOn
  <2> QED
    BY <1>1, <1>6, <2>6 DEF IInv, Others, Follows
<1> QED
  BY <1>3, <1>4, <1>5, <1>6 DEF seekToUs, SeekInside

(* The chunk that is read, when there is one.                              *)
LEMMA CurrentChunk ==
  ASSUME IInv, state = "ENABLED", ~isPendingReset
  PROVE  /\ Settled(Current, task) /\ Current.reset = None
         /\ Current.queue # <<>> /\ NextSample(Current) = NextSample(src)
         /\ Current.queue[1] \in MediaChunks
<1>1. /\ Settled(src, task) /\ src \in Source /\ Numbered(src.queue)
      /\ src.queue # <<>> /\ src.reset = None /\ Len(src.queue) \in Nat
      /\ Len(src.queue) > 0
  BY QueueOf DEF IInv, Settled, Sound, Placed, isPendingReset
<1>2. CASE Current = src
  <2>1. src.queue[1] \in MediaChunks
    BY <1>1, QueueOf
  <2> QED
    BY <1>1, <1>2, <2>1
<1>3. CASE src.readPos = ChunkSize /\ Len(src.queue) > 1
  <2> DEFINE d == discardDownstream(src, 1)
  <2>1. Current = d
    BY <1>3 DEF Current
  <2>2. 1 \in 0..Len(src.queue) /\ 1 # Len(src.queue)
    <3>1. \A m \in Nat : m > 1 => 1 \in 0..m /\ 1 # m
      OBVIOUS
    <3> QED
      BY <1>1, <1>3, <3>1
  <2>3. /\ Settled(d, task) /\ d.reset = src.reset /\ d.queue # <<>>
        /\ d.queue[1] = src.queue[1 + 1] /\ d.readPos = 0
    <3>1. ASSUME NEW n \in 0..Len(src.queue), n # Len(src.queue)
          PROVE  LET c == discardDownstream(src, n)
                 IN  /\ Settled(c, task) /\ c.reset = src.reset
                     /\ c.queue # <<>> /\ c.queue[1] = src.queue[n + 1]
                     /\ n = 1 => c.readPos = 0
      BY <1>1, <3>1, ReadsOn
    <3> QED
      BY <2>2, <3>1, Zenon
  <2> HIDE DEF d
  <2>4. 2 \in 1..Len(src.queue) /\ 1 \in 1..Len(src.queue) /\ 1 + 1 = 2
    <3>1. \A m \in Nat : m > 1 => 2 \in 1..m /\ 1 \in 1..m
      OBVIOUS
    <3> QED
      BY <1>1, <1>3, <3>1
  <2>5. src.queue[2] \in MediaChunks /\ src.queue[1].segment \in Int
    BY <1>1, <2>4, QueueOf, ChunkKinds DEF Segments
  <2>6. src.queue[2].segment = src.queue[1].segment + (2 - 1)
    BY <1>1, <2>4 DEF Numbered
  <2>7. ChunkSize \in Int
    BY LoaderAssumption
  <2>8. \A x, z \in Int : (x + (2 - 1)) * z + 0 = x * z + z
    OBVIOUS
  <2>9. NextSample(d) = NextSample(src)
    <3>1. d.queue[1].segment = src.queue[1].segment + (2 - 1)
      BY <2>3, <2>4, <2>6
    <3>2. NextSample(d) = (src.queue[1].segment + (2 - 1)) * ChunkSize + 0
      BY <2>3, <3>1 DEF NextSample
    <3>3. NextSample(src) = src.queue[1].segment * ChunkSize + ChunkSize
      BY <1>3 DEF NextSample
    <3> QED
      BY <2>5, <2>7, <2>8, <3>2, <3>3
  <2> QED
    BY <1>1, <2>1, <2>3, <2>4, <2>5, <2>9
<1> QED
  BY <1>2, <1>3 DEF Current

LEMMA SampleRead ==
  ASSUME IInv, state = "ENABLED", ~isPendingReset, Current.readPos < ChunkSize
  PROVE  /\ Current.readPos + 1 \in 0..ChunkSize
         /\ Current.queue[1].segment * ChunkSize + Current.readPos = NextSample(src)
         /\ NextSample(src) \in Times
<1>1. /\ Settled(Current, task) /\ NextSample(Current) = NextSample(src)
      /\ Current.queue[1] \in MediaChunks
  BY CurrentChunk
<1>2. Current.queue[1].segment \in Segments
  BY <1>1, ChunkKinds
<1>3. Current.readPos \in 0..ChunkSize /\ ChunkSize \in Nat
  BY <1>1, LoaderAssumption DEF Settled, Sound, Source
<1>4. Current.readPos + 1 \in 0..ChunkSize /\ Current.readPos \in 0..ChunkSize - 1
  BY <1>3
<1> QED
  BY <1>1, <1>2, <1>4, TimeOfSample DEF NextSample

LEMMA ReadStep ==
  ASSUME IInv, readData
  PROVE  IInv'
<1>1. /\ state = "ENABLED" /\ state' = state /\ task' = task
      /\ lastSeek' = lastSeek /\ pendingDiscontinuity' = pendingDiscontinuity
      /\ ~pendingDiscontinuity
  BY DEF readData, Reading
<1>2. CASE ReadPending
  BY <1>1, <1>2
     DEF ReadPending, IInv, Others, LetsGo, Follows, isPendingReset, Placed
<1>3. CASE /\ ~isPendingReset /\ Current.readPos < ChunkSize
           /\ ReadFormat(Current) \/ ReadSample(Current) \/ ReadNothing(Current)
  <2> DEFINE s == Current
  <2>1. /\ Settled(s, task) /\ s.reset = None /\ s.queue # <<>>
        /\ NextSample(s) = NextSample(src) /\ s.queue[1] \in MediaChunks
    BY <1>1, <1>3, CurrentChunk
  <2>2. /\ s.readPos + 1 \in 0..ChunkSize
        /\ s.queue[1].segment * ChunkSize + s.readPos = NextSample(src)
        /\ NextSample(src) \in Times
    BY <1>1, <1>3, SampleRead
  <2>3. delivered # None => NextSample(src) = delivered + 1
    BY <1>1 DEF IInv, Follows
  <2>4. isLoading(task) => ~task.canceled
    BY <1>1, <1>3 DEF IInv, LetsGo
  <2>5. s.queue[1].format \in Formats
    BY <2>1, ChunkKinds
  <2> HIDE DEF s
  <2>6. CASE ReadFormat(s)
    <3>1. /\ src' = s /\ announced' = s.queue[1].format
          /\ delivered' = delivered /\ thrown' = thrown
      BY <2>6 DEF ReadFormat
    <3> QED
      BY <1>1, <2>1, <2>3, <2>4, <2>5, <3>1
         DEF IInv, Others, LetsGo, Follows, isPendingReset, Placed
  <2>7. CASE ReadSample(s)
    <3> DEFINE t == [s EXCEPT !.readPos = s.readPos + 1]
    <3>1. /\ src' = t /\ delivered' = NextSample(src)
          /\ announced' = announced /\ thrown' = thrown
      BY <2>2, <2>7 DEF ReadSample
    <3>2. /\ Settled(t, task) /\ t.queue = s.queue /\ t.reset = None
          /\ t.readPos = s.readPos + 1
      BY <2>1, <2>2, Rewound
    <3> HIDE DEF t
    <3>3. NextSample(t) = NextSample(src) + 1
      <4>1. /\ s.queue[1].segment \in Int /\ ChunkSize \in Int
            /\ s.readPos \in Int
        BY <2>1, ChunkKinds, LoaderAssumption
           DEF Segments, Settled, Sound, Source
      <4>2. \A x, y, z \in Int : x * y + (z + 1) = (x * y + z) + 1
        OBVIOUS
      <4>3. /\ NextSample(t) = s.queue[1].segment * ChunkSize + (s.readPos + 1)
            /\ NextSample(src) = s.queue[1].segment * ChunkSize + s.readPos
        BY <2>2, <3>2 DEF NextSample
      <4> QED
        BY <4>1, <4>2, <4>3
    <3> QED
      BY <1>1, <2>1, <2>2, <2>4, <3>1, <3>2, <3>3
         DEF IInv, Others, LetsGo, Follows, isPendingReset, Placed
  <2>8. CASE ReadNothing(s)
    <3>1. /\ src' = s /\ thrown' \in BOOLEAN
          /\ delivered' = delivered /\ announced' = announced
      BY <2>8 DEF ReadNothing
    <3> QED
      BY <1>1, <2>1, <2>3, <2>4, <3>1
         DEF IInv, Others, LetsGo, Follows, isPendingReset, Placed
  <2> QED
    BY <1>3, <2>6, <2>7, <2>8 DEF s
<1> QED
  BY <1>2, <1>3 DEF readData

(* A load that answers, unless it was canceled, is one of an enabled       *)
(* source, whose exceptions are over.                                      *)
LEMMA Answers ==
  ASSUME IInv, task.phase = "posted"
  PROVE  /\ isLoading(task) /\ Settled(src, task) /\ src \in Source
         /\ src.exception = "none" /\ Held(src)
         /\ ~task.canceled => state = "ENABLED"
         /\ task.canceled /\ state = "ENABLED" => src.reset # None
         /\ onFinished(task) \in Task /\ ~isLoading(onFinished(task))
<1>1. isLoading(task) /\ task \in Task
  BY DEF isLoading, IInv, Settled
<1> QED
  BY <1>1, TaskEnded DEF IInv, Settled, Sound, LetsGo, isPendingReset

(* What is left to do after an answer of an enabled source.                *)
LEMMA Answered_BuffersOn ==
  ASSUME IInv, state = "ENABLED", state' = state, UNCHANGED readVars,
         NEW s, NEW k, NEW next, NEW due, Settled(s, k), ~isLoading(k),
         s.queue = src.queue, s.reset = src.reset, s.readPos = src.readPos,
         updateLoadControl(s, k, next, due)
  PROVE  IInv'
<1>1. Placed(s)
  BY DEF IInv, Placed
<1>2. Settled(src', task') /\ Placed(src') /\ LetsGo'
  BY <1>1, BuffersOn
<1>3. Follows'
  BY StillFollows DEF readVars
<1> QED
  BY <1>2, <1>3 DEF readVars, IInv, Others

LEMMA LoadedStep ==
  ASSUME IInv, NEW next, NEW due, onLoaded(next, due)
  PROVE  IInv'
<1> DEFINE r == Consumed(src)
           c == clearCurrentLoadable(r)
<1>1. /\ task.phase = "posted" /\ ~task.canceled
      /\ state' = state /\ UNCHANGED readVars
      /\ updateLoadControl(c, onFinished(task), next, due)
  BY DEF onLoaded, Answered
<1>2. /\ isLoading(task) /\ Settled(src, task) /\ src \in Source
      /\ Held(src) /\ state = "ENABLED" /\ ~isLoading(onFinished(task))
  BY <1>1, Answers
<1>3. /\ r \in Source /\ r.queue = src.queue /\ r.holder = src.holder
      /\ r.reset = src.reset /\ r.readPos = src.readPos
      /\ r.illegal = src.illegal
      /\ r.open = IF isMediaChunk(src.holder) THEN src.open
                                              ELSE src.open \ {src.holder}
  <2>1. CASE isMediaChunk(src.holder)
    BY <1>2, <2>1 DEF Consumed
  <2>2. CASE ~isMediaChunk(src.holder)
    <3> DEFINE u == Released(src, {src.holder})
               d == [src.chunkSource EXCEPT !.known = @ \cup {src.holder.format}]
    <3>1. /\ u \in Source /\ Kept(src, u) /\ u.open = src.open \ {src.holder}
          /\ u.queue = src.queue /\ u.readPos = src.readPos
      BY <1>2, ReleasedFields
    <3>2. src.holder \in Chunks /\ src.holder.format \in Formats
      BY <1>2, ChunkKinds DEF Held, Source
    <3>3. d \in ChunkSource
      BY <1>2, <3>2 DEF Source, ChunkSource
    <3>4. r = [u EXCEPT !.chunkSource = d]
      <4>1. r = [u EXCEPT !.chunkSource =
                   [u.chunkSource EXCEPT !.known = @ \cup {src.holder.format}]]
        BY <2>2 DEF Consumed
      <4>2. u.chunkSource = src.chunkSource
        BY <3>1 DEF Kept
      <4> HIDE DEF u, r
      <4> QED
        BY <4>1, <4>2
    <3> HIDE DEF u, d, r
    <3> QED
      BY <2>2, <3>1, <3>3, <3>4 DEF Source, Kept
  <2> QED
    BY <2>1, <2>2
<1> HIDE DEF r
<1>4. /\ Settled(c, onFinished(task)) /\ c.queue = src.queue
      /\ c.reset = src.reset /\ c.readPos = src.readPos
  BY <1>2, <1>3, Ended
<1> HIDE DEF c
<1> QED
  BY <1>1, <1>2, <1>4, Answered_BuffersOn

LEMMA FailedFields ==
  ASSUME NEW s \in Source, NEW kind \in {"error", "fatal"}
  PROVE  LET f == Failed(s, kind)
         IN  /\ f \in Source /\ f.exception = kind /\ f.open = s.open
             /\ f.queue = s.queue /\ f.holder = s.holder /\ f.reset = s.reset
             /\ f.readPos = s.readPos /\ f.illegal = s.illegal
<1> DEFINE n == IF s.count = 0 THEN 1 ELSE 2
           e == [s EXCEPT !.exception = kind]
           f == Failed(s, kind)
<1>1. f = [e EXCEPT !.count = n] /\ n \in 0..2
  BY DEF Failed, Source
<1>2. /\ e \in Source /\ e.exception = kind /\ e.open = s.open
      /\ e.queue = s.queue /\ e.holder = s.holder /\ e.reset = s.reset
      /\ e.readPos = s.readPos /\ e.illegal = s.illegal
  BY DEF Source
<1> HIDE DEF n, e, f
<1>3. /\ f \in Source /\ f.exception = kind /\ f.open = s.open
      /\ f.queue = s.queue /\ f.holder = s.holder /\ f.reset = s.reset
      /\ f.readPos = s.readPos /\ f.illegal = s.illegal
  BY <1>1, <1>2 DEF Source
<1> QED
  BY <1>3 DEF f

LEMMA NotParsedStep ==
  ASSUME IInv, NEW next, NEW due, onLoadedNotParsed(next, due)
  PROVE  IInv'
<1> DEFINE r == Released(src, {src.holder})
           f == Failed(r, "fatal")
<1>1. /\ task.phase = "posted" /\ ~task.canceled /\ ~isMediaChunk(src.holder)
      /\ state' = state /\ UNCHANGED readVars
      /\ updateLoadControl(f, onFinished(task), next, due)
  BY DEF onLoadedNotParsed, Answered
<1>2. /\ isLoading(task) /\ Settled(src, task) /\ src \in Source
      /\ Held(src) /\ state = "ENABLED" /\ ~isLoading(onFinished(task))
      /\ onFinished(task) \in Task
  BY <1>1, Answers
<1>3. /\ r \in Source /\ Kept(src, r) /\ r.open = src.open \ {src.holder}
      /\ r.queue = src.queue /\ r.readPos = src.readPos
  BY <1>2, ReleasedFields
<1> HIDE DEF r
<1>4. /\ f \in Source /\ f.exception = "fatal" /\ f.open = r.open
      /\ f.queue = r.queue /\ f.holder = r.holder /\ f.reset = r.reset
      /\ f.readPos = r.readPos /\ f.illegal = r.illegal
  BY <1>3, FailedFields
<1> HIDE DEF f
<1>5. f.open = Queued(f)
  <2>1. src.holder \notin Queued(src)
    BY <1>1, <1>2, QueueOf, ChunkKinds
  <2> QED
    BY <1>1, <1>2, <1>3, <1>4, <2>1 DEF Held, Queued
<1>6. Settled(f, onFinished(task))
  BY <1>1, <1>2, <1>3, <1>4, <1>5 DEF Settled, Sound, Kept
<1>7. f.queue = src.queue /\ f.reset = src.reset /\ f.readPos = src.readPos
  BY <1>3, <1>4 DEF Kept
<1> QED
  BY <1>1, <1>2, <1>6, <1>7, Answered_BuffersOn

LEMMA ErrorStep ==
  ASSUME IInv, NEW next, NEW due, onError(next, due)
  PROVE  IInv'
<1> DEFINE f == Failed(src, "error")
<1>1. /\ task.phase = "posted" /\ ~task.canceled
      /\ state' = state /\ UNCHANGED readVars
      /\ updateLoadControl(f, onFinished(task), next, due)
  BY DEF onError, Answered
<1>2. /\ isLoading(task) /\ Settled(src, task) /\ src \in Source
      /\ Held(src) /\ state = "ENABLED" /\ ~isLoading(onFinished(task))
      /\ onFinished(task) \in Task
  BY <1>1, Answers
<1>3. /\ f \in Source /\ f.exception = "error" /\ f.open = src.open
      /\ f.queue = src.queue /\ f.holder = src.holder /\ f.reset = src.reset
      /\ f.readPos = src.readPos /\ f.illegal = src.illegal
  BY <1>2, FailedFields
<1> HIDE DEF f
<1>4. Settled(f, onFinished(task))
  BY <1>2, <1>3 DEF Settled, Sound, Held, Queued
<1> QED
  BY <1>1, <1>2, <1>3, <1>4, Answered_BuffersOn

LEMMA CanceledStep ==
  ASSUME IInv, NEW next, NEW due, onCanceled(next, due)
  PROVE  IInv'
<1> DEFINE r == IF isMediaChunk(src.holder) THEN src
                ELSE Released(src, {src.holder})
           c == clearCurrentLoadable(r)
<1>1. /\ task.phase = "posted" /\ task.canceled
      /\ state' = state /\ UNCHANGED readVars
      /\ IF state = "ENABLED"
         THEN restartFrom(c, onFinished(task), c.reset, next, due)
         ELSE Rests(clearMediaChunks(c), onFinished(task))
  <2>1. task.message # "CANCELED"
    BY DEF IInv, Settled, Task
  <2> QED
    BY <2>1 DEF onCanceled, Answered
<1>2. /\ isLoading(task) /\ Settled(src, task) /\ src \in Source
      /\ Held(src) /\ ~isLoading(onFinished(task)) /\ onFinished(task) \in Task
      /\ state = "ENABLED" => src.reset # None
  BY <1>1, Answers
<1>3. /\ r \in Source /\ r.queue = src.queue /\ r.holder = src.holder
      /\ r.reset = src.reset /\ r.readPos = src.readPos
      /\ r.illegal = src.illegal
      /\ r.open = IF isMediaChunk(src.holder) THEN src.open
                                              ELSE src.open \ {src.holder}
  BY <1>2, ReleasedFields, ZenonT(30) DEF Kept
<1> HIDE DEF r
<1>4. /\ Settled(c, onFinished(task)) /\ c.queue = src.queue
      /\ c.reset = src.reset /\ c.holder = NoChunk /\ c.exception = "none"
  BY <1>2, <1>3, Ended
<1> HIDE DEF c
<1>5. CASE state = "ENABLED"
  <2>1. c.reset \in Times /\ src.reset # None
    BY <1>2, <1>4, <1>5 DEF Source
  <2>2. /\ Settled(src', task') /\ Placed(src')
        /\ isLoading(task') /\ task'.canceled => src'.reset # None
    BY <1>1, <1>4, <1>5, <2>1, Restarts
  <2>3. Follows'
    <3>1. state = "ENABLED" /\ ~pendingDiscontinuity => delivered = None
      BY <2>1 DEF IInv, Follows, isPendingReset
    <3> QED
      BY <1>1, <3>1 DEF Follows, readVars
  <2> QED
    BY <1>1, <1>5, <2>2, <2>3
       DEF readVars, IInv, Others, LetsGo, isPendingReset
<1>6. CASE state # "ENABLED"
  <2> DEFINE d == clearMediaChunks(c)
  <2>1. c \in Source /\ Numbered(c.queue) /\ ~c.illegal /\ c.open = Queued(c)
        /\ c.reset \in Times \cup {None}
    BY <1>2, <1>4 DEF Settled, Sound, Waiting, Source
  <2>2. [c EXCEPT !.reset = c.reset] = c
    BY <2>1 DEF Source
  <2>3. /\ d \in Source /\ Kept(c, d) /\ d.queue = <<>> /\ Queued(d) = {}
        /\ d.open = c.open \ Queued(c)
    BY <2>1, <2>2, Cleared
  <2>4. src' = d /\ task' = onFinished(task)
    BY <1>1, <1>6 DEF Rests
  <2> HIDE DEF d
  <2>5. Settled(d, onFinished(task)) /\ d.holder = NoChunk /\ d.exception = "none"
    BY <1>2, <1>4, <2>1, <2>3
       DEF Settled, Sound, Waiting, Kept, Numbered
  <2> QED
    BY <1>1, <1>2, <1>6, <2>3, <2>4, <2>5
       DEF readVars, IInv, Others, LetsGo, Follows
<1> QED
  BY <1>5, <1>6

(* The load thread leaves the source alone, and its task loading.          *)
LEMMA LoadStep ==
  ASSUME IInv, Load
  PROVE  IInv'
<1>1. task \in Task /\ UNCHANGED <<state, src, readVars>>
  BY DEF IInv, Settled, Load
<1>2. task' \in Task /\ isLoading(task) /\ isLoading(task')
      /\ task'.canceled = task.canceled
  <2>1. CASE Run
    BY <1>1, <2>1 DEF Run, Posts, Task, isLoading
  <2>2. CASE LoadMore
    <3>1. task.loaded + 1 \in 0..ChunkSize
      BY <1>1, <2>2, LoaderAssumption DEF LoadMore, Task
    <3> QED
      BY <1>1, <2>2, <3>1 DEF LoadMore, Task, isLoading
  <2>3. CASE LoadEnds
    BY <1>1, <2>3 DEF LoadEnds, Posts, Task, isLoading
  <2>4. CASE LoadFails
    BY <1>1, <2>4 DEF LoadFails, Posts, Task, isLoading
  <2> QED
    BY <2>1, <2>2, <2>3, <2>4 DEF Load, LoadThread
<1>3. Settled(src', task')
  BY <1>1, <1>2 DEF IInv, Settled
<1> QED
  BY <1>1, <1>2, <1>3
     DEF readVars, IInv, Others, LetsGo, Follows, isPendingReset, Placed

LEMMA NextIInv == IInv /\ [Next]_vars => IInv'
<1>1. SUFFICES ASSUME IInv, [Next]_vars PROVE IInv'
  OBVIOUS
<1>2. CASE Prepare \/ Release \/ ReadDiscontinuity \/ UNCHANGED vars \/ Quiet
  BY <1>1, <1>2, IdleSteps DEF Quiet
<1>3. CASE Disable \/ readData \/ Load
  BY <1>1, <1>3, DisableStep, ReadStep, LoadStep
<1>4. CASE \E next, due \in BOOLEAN :
             \/ continueBuffering(next, due)
             \/ Message(next, due)
             \/ \E time \in SeekTimes :
                  Enable(time, next, due) \/ seekToUs(time, next, due)
  BY <1>1, <1>4, BufferStep, LoadedStep, NotParsedStep, CanceledStep, ErrorStep,
     EnableStep, SeekStep DEF Message
<1> QED
  BY <1>1, <1>2, <1>3, <1>4 DEF Next

(* Every state of the source and its loader satisfies the invariant.       *)
THEOREM SourceInvariant == Spec => []IInv
<1> QED
  BY InitIInv, NextIInv, PTL DEF Spec

-----------------------------------------------------------------------------
(* What the invariant says.                                                *)

LEMMA TypedByIInv == IInv => TypeOK
BY DEF IInv, Others, Settled, Sound, TypeOK

LEMMA LoadingByIInv == IInv => LoadingIsSound
<1>1. SUFFICES ASSUME IInv PROVE LoadingIsSound
  OBVIOUS
<1>2. Settled(src, task) /\ src \in Source /\ NoIllegalLoad
  BY <1>1 DEF IInv, Settled, Sound, NoIllegalLoad
<1>3. LoadIsHeld
  BY <1>1, <1>2 DEF IInv, LetsGo, Settled, Held, LoadIsHeld, Last
<1>4. src.exception \in {"none", "error", "fatal"}
  BY <1>2 DEF Source
<1>5. src.open = Queued(src) \cup
                 (IF ~isMediaChunk(src.holder)
                     /\ (isLoading(task) \/ src.exception = "error")
                  THEN {src.holder} ELSE {})
  <2>1. CASE isLoading(task) \/ src.exception = "error"
    BY <1>2, <2>1 DEF Settled, Held
  <2>2. CASE ~isLoading(task) /\ src.exception # "error"
    BY <1>2, <1>4, <2>2 DEF Settled, Waiting
  <2> QED
    BY <2>1, <2>2
<1>6. state # "ENABLED" /\ ~isLoading(task) => src.queue = <<>> /\ src.open = {}
  <2>1. SUFFICES ASSUME state # "ENABLED", ~isLoading(task)
                 PROVE  src.queue = <<>> /\ src.open = {}
    OBVIOUS
  <2>2. src.queue = <<>> /\ src.exception = "none"
    BY <1>1, <2>1 DEF IInv, LetsGo
  <2>3. Queued(src) = {}
    BY <2>2 DEF Queued, ToSet
  <2> QED
    BY <1>2, <2>1, <2>2, <2>3 DEF Settled, Waiting
<1> QED
  BY <1>2, <1>3, <1>5, <1>6 DEF LoadingIsSound, OpenIsInUse

LEMMA QueueByIInv == IInv => QueueIsSound
<1>1. SUFFICES ASSUME IInv PROVE QueueIsSound
  OBVIOUS
<1>2. src \in Source /\ Numbered(src.queue) /\ Len(src.queue) \in Nat
  BY <1>1, QueueOf DEF IInv, Settled, Sound
<1>3. state = "ENABLED" /\ ~isPendingReset => src.queue # <<>>
  BY <1>1 DEF IInv, Placed, isPendingReset
<1>4. ASSUME NEW i \in 1..Len(src.queue) - 1
      PROVE  src.queue[i + 1].segment = src.queue[i].segment + 1
  <2>1. i \in 1..Len(src.queue) /\ i + 1 \in 1..Len(src.queue)
        /\ (i + 1) - i = 1
    BY <1>2
  <2>2. src.queue[i + 1].segment = src.queue[i].segment + ((i + 1) - i)
    BY <1>2, <2>1 DEF Numbered
  <2> QED
    BY <2>1, <2>2
<1> QED
  BY <1>3, <1>4 DEF QueueIsSound

(* A sample is delivered by ReadSample alone, the one that is read next.   *)
LEMMA StepsFollow ==
  ASSUME IInv, [Next]_vars
  PROVE  \/ delivered' \in {delivered, None} \/ delivered = None
         \/ delivered' = delivered + 1
<1>1. CASE UNCHANGED delivered
  BY <1>1
<1>2. CASE delivered' = None
  BY <1>2
<1>3. CASE readData /\ ~isPendingReset /\ ReadSample(Current)
           /\ Current.readPos < ChunkSize
  <2>1. state = "ENABLED" /\ ~pendingDiscontinuity
    BY <1>3 DEF readData, Reading
  <2>2. delivered' = NextSample(src)
    BY <1>3, <2>1, SampleRead DEF ReadSample
  <2> QED
    BY <2>1, <2>2 DEF IInv, Follows
<1>4. Prepare \/ Release \/ Disable \/ Load \/ Quiet => UNCHANGED delivered
  BY DEF Prepare, Release, Disable, Load, Quiet, vars, readVars
<1>5. ReadDiscontinuity => delivered' = None
  BY DEF ReadDiscontinuity
<1>6. readData /\ ~(~isPendingReset /\ ReadSample(Current)
                    /\ Current.readPos < ChunkSize) => UNCHANGED delivered
  BY DEF readData, ReadPending, ReadFormat, ReadNothing
<1>7. ASSUME NEW next, NEW due, continueBuffering(next, due) \/ Message(next, due)
      PROVE  UNCHANGED delivered
  BY <1>7 DEF continueBuffering, Message, onLoaded, onLoadedNotParsed, onCanceled,
              onError, readVars
<1>8. ASSUME NEW next, NEW due, NEW time, Enable(time, next, due)
      PROVE  delivered' = None
  BY <1>8 DEF Enable
<1>9. ASSUME NEW next, NEW due, NEW time, seekToUs(time, next, due)
      PROVE  UNCHANGED delivered
  BY <1>9 DEF seekToUs
<1>10. UNCHANGED vars => UNCHANGED delivered
  BY DEF vars, readVars
<1> QED
  BY <1>1, <1>2, <1>3, <1>4, <1>5, <1>6, <1>7, <1>8, <1>9, <1>10 DEF Next

(* Every variable of a source, its queue, its chunk source and its loader  *)
(* keeps its type.                                                         *)
THEOREM SourceTyped == Spec => []TypeOK
<1> QED
  BY SourceInvariant, TypedByIInv, PTL

(* No load is started while another goes on, nor a chunk opened that is    *)
(* open; the chunk that is loaded is held, open and the last of the queue; *)
(* and no stream is open that nobody will release: whatever the order of   *)
(* loads, answers, errors, seeks, changes of format and calls of the       *)
(* renderer, however long the stream and however large its chunks.         *)
THEOREM LoadingSound == Spec => []LoadingIsSound
<1> QED
  BY SourceInvariant, LoadingByIInv, PTL

(* An enabled source has a chunk to read or a time to start from, and its  *)
(* queue has no gap, in the same generality.                               *)
THEOREM QueueSound == Spec => []QueueIsSound
<1> QED
  BY SourceInvariant, QueueByIInv, PTL

(* The samples read follow each other, but where a discontinuity has been  *)
(* announced and read.                                                     *)
THEOREM SamplesFollow == Spec => SamplesFollowEachOther
<1>1. IInv /\ [Next]_vars =>
        [\/ delivered' \in {delivered, None} \/ delivered = None
         \/ delivered' = delivered + 1]_vars
  BY StepsFollow
<1> QED
  BY <1>1, SourceInvariant, PTL DEF Spec, SamplesFollowEachOther
=============================================================================
