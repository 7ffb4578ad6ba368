---------------------------- MODULE FFDemuxProofs ----------------------------
(* The extractor is a Demultiplexer, for all files and buffers; its types;    *)
(* that time stamps are distrusted for a reason; and that samples come out    *)
(* whole, by what the length fields of a package say.                         *)
EXTENDS FFDemux, SequenceTheorems, FoldProofs, TLAPS

\* What holds of a file, of its packet p.
LEMMA FileFacts ==
  ASSUME NEW f \in Files
  PROVE  /\ f.best \in [Kinds -> Int]
         /\ f.startTime \in Int
         /\ f.packets \in Seq(Packets)
         /\ Len(f.packets) \in Nat
         /\ DOMAIN f.packets = 1..Len(f.packets)
BY FilesAssumption

LEMMA PacketFacts ==
  ASSUME NEW f \in Files, NEW p \in 1..Len(f.packets)
  PROVE  /\ f.packets[p].stream \in Nat
         /\ f.packets[p].pts \in Int
         /\ f.packets[p].dts \in Int
<1>1. f.packets[p] \in Packets
  BY FileFacts
<1> QED
  BY <1>1 DEF Packets

\* The best streams of two kinds differ.
LEMMA OneKind ==
  ASSUME NEW f \in Files, NEW j \in Kinds, NEW k \in Kinds,
         f.best[j] >= 0, f.best[j] = f.best[k]
  PROVE  j = k
BY FilesAssumption

\* The first of a set of kinds is one of them.
LEMMA FirstIsOne ==
  ASSUME NEW S \in SUBSET Kinds, S # {}
  PROVE  FirstOf(S) \in S
<1>1. \E k \in S : \A j \in S : Rank(k) <= Rank(j)
  <2>1. CASE "video" \in S
    <3>1. "video" \in S
      BY <2>1 DEF Kinds
    <3>2. \A j \in S : Rank("video") <= Rank(j)
      BY <2>1 DEF Kinds, Rank
    <3> QED
      BY <3>1, <3>2
  <2>2. CASE "video" \notin S /\ "audio" \in S
    <3>1. "audio" \in S
      BY <2>2 DEF Kinds
    <3>2. \A j \in S : Rank("audio") <= Rank(j)
      BY <2>2 DEF Kinds, Rank
    <3> QED
      BY <3>1, <3>2
  <2>3. CASE "video" \notin S /\ "audio" \notin S
    <3>1. "subtitle" \in S
      BY <2>3 DEF Kinds
    <3>2. \A j \in S : Rank("subtitle") <= Rank(j)
      BY <2>3 DEF Kinds, Rank
    <3> QED
      BY <3>1, <3>2
  <2> QED
    BY <2>1, <2>2, <2>3
<1> QED
  BY <1>1 DEF FirstOf

\* A read that gives something gives one block, before the end of the file.
LEMMA ReadGivesOne ==
  ASSUME NEW fd, NEW length \in Nat, NEW pos \in Nat,
         NEW n \in readAt(fd, length, pos, 1), n > 0, fd \in {-1, 3}
  PROVE  fd = 3 /\ pos < length /\ n = 1
BY DEF readAt, Least, NO_INIT, UNKNOWN_ERROR

LEMMA Results ==
  ASSUME NEW fd \in {-1, 3}, NEW length \in Int, NEW pos \in Nat
  PROVE  readAt(fd, length, pos, 1) \subseteq Int
BY DEF readAt, Least, NO_INIT, UNKNOWN_ERROR

\* Subsequences to the end, of a sequence that grows or begins at its head.
LEMMA GrownTail ==
  ASSUME NEW T, NEW q \in Seq(T), NEW p \in T, NEW n \in 0..Len(q)
  PROVE  SubSeq(Append(q, p), n + 1, Len(Append(q, p)))
           = Append(SubSeq(q, n + 1, Len(q)), p)
<1> DEFINE left == SubSeq(Append(q, p), n + 1, Len(Append(q, p)))
           right == Append(SubSeq(q, n + 1, Len(q)), p)
<1>1. left \in Seq(T) /\ right \in Seq(T)
  OBVIOUS
<1>2. Len(left) = Len(q) - n + 1 /\ Len(right) = Len(q) - n + 1
  OBVIOUS
<1>3. ASSUME NEW i \in 1..Len(left) PROVE left[i] = right[i]
  <2>1. CASE i <= Len(q) - n
    <3>1. left[i] = Append(q, p)[n + i] /\ n + i \in 1..Len(q)
      BY <2>1, <1>2
    <3>2. right[i] = SubSeq(q, n + 1, Len(q))[i]
      BY <2>1
    <3> QED
      BY <3>1, <3>2, <2>1
  <2>2. CASE i > Len(q) - n
    <3>1. left[i] = p
      BY <2>2, <1>2
    <3>2. right[i] = p
      BY <2>2, <1>2
    <3> QED
      BY <3>1, <3>2
  <2> QED
    BY <2>1, <2>2, <1>2
<1> HIDE DEF left, right
<1>4. left = right
  BY <1>1, <1>2, <1>3, SeqEqual
<1> QED
  BY <1>4 DEF left, right

LEMMA WholeSeq ==
  ASSUME NEW T, NEW q \in Seq(T)
  PROVE  SubSeq(q, 1, Len(q)) = q /\ SubSeq(q, Len(q) + 1, Len(q)) = <<>>
BY SubSeqFull, SubSeqEmpty, Len(q) \in Int, Len(q) + 1 \in Int
-----------------------------------------------------------------------------
\* Where the file is, by what the extractor has of it; and a seek that is still
\* under way, which is the only time there is something stale.
Opened ==
  /\ demux = "new" => mNextReadPos = 0
  /\ demux # "open" => calling = "none"
  /\ demux = "open" => /\ mFd = 3
                       /\ mLength = Len(file.packets) + 1
                       /\ mNextReadPos >= 1
Seeking ==
  /\ calling = "seekTo" => currentTrack = "none"
  /\ calling # "seekTo" => \A k \in Kinds : stale[k] = 0
  /\ \A k \in Kinds : stale[k] <= Len(mPacketQueue[k])
IInv == TypeOK /\ Opened /\ Seeking

\* A packet is queued for the one kind whose stream it is of.
LEMMA WantedByOne ==
  ASSUME TypeOK, NEW p \in 1..Len(file.packets), Wanting(p) # {}
  PROVE  /\ FirstOf(Wanting(p)) \in Kinds
         /\ streamIndex[FirstOf(Wanting(p))] = file.packets[p].stream
         /\ file.best[FirstOf(Wanting(p))] = file.packets[p].stream
         /\ file.packets[p].stream \in Nat
<1> DEFINE k == FirstOf(Wanting(p))
<1>1. k \in Wanting(p)
  BY FirstIsOne DEF Wanting
<1>2. k \in Kinds /\ streamIndex[k] = file.packets[p].stream
  BY <1>1 DEF Wanting
<1>3. file \in Files
  BY DEF TypeOK
<1>4. file.packets[p].stream \in Nat
  BY <1>3, PacketFacts
<1>5. streamIndex[k] \in {-1, file.best[k]}
  BY <1>2 DEF TypeOK
<1> QED
  BY <1>2, <1>4, <1>5

\* The track of the next sample is selected, and has a packet if no header.
LEMMA CurrentIsSelected ==
  ASSUME NEW k \in Kinds, k = select_current_track
  PROVE  /\ streamIndex[k] >= 0
         /\ mExtraPushed[k] # 0 => mPacketQueue[k] # <<>>
<1>1. CASE HeaderDue # {}
  <2>1. FirstOf(HeaderDue) \in HeaderDue
    BY <1>1, FirstIsOne DEF HeaderDue
  <2>2. k = FirstOf(HeaderDue)
    BY <1>1 DEF select_current_track
  <2> QED
    BY <2>1, <2>2 DEF HeaderDue
<1>2. CASE HeaderDue = {}
  <2>1. Filled # {}
    BY <1>2 DEF select_current_track, Kinds
  <2>2. FirstOf(Filled) \in Filled
    BY <2>1, FirstIsOne DEF Filled
  <2>3. k = FirstOf(Filled)
    BY <1>2, <2>1 DEF select_current_track
  <2> QED
    BY <2>2, <2>3 DEF Filled
<1> QED
  BY <1>1, <1>2

\* The three ways a turn of the loop in advance may go.
Queues == /\ mNextReadPos \in 1..Len(file.packets)
          /\ mNextReadPos' = mNextReadPos + 1
          /\ Wanting(mNextReadPos) # {}
          /\ file.packets[mNextReadPos].data # <<>>
          /\ Queue(mNextReadPos)
          /\ UNCHANGED currentTrack
Passes == /\ mNextReadPos \in 1..Len(file.packets)
          /\ mNextReadPos' = mNextReadPos + 1
          /\ Wanting(mNextReadPos) = {} \/ file.packets[mNextReadPos].data = <<>>
          /\ UNCHANGED <<mPacketQueue, currentTrack, calling>>
Stops == /\ \/ /\ mNextReadPos \in 1..Len(file.packets)
               /\ mNextReadPos' = mNextReadPos + 1
               /\ MayHaveEnded(mNextReadPos)
            \/ UNCHANGED mNextReadPos
         /\ currentTrack' = "none"
         /\ UNCHANGED mPacketQueue
ReadsOn == /\ demux = "open"
           /\ mStatus' \in {-1, 0}
           /\ calling' \in {"none", calling}
           /\ (calling = "seekTo" /\ currentTrack' = "none") => calling' = "seekTo"
           /\ Queues \/ Passes \/ Stops
           /\ UNCHANGED <<mFd, mLength, mInitCheck, file, demux, streamIndex,
                          mExtraPushed, mSampleTimeUs, mPTSPopulator, delivered, stale>>

LEMMA TurnsOfTheLoop ==
  ASSUME IInv, ReadFrame
  PROVE  ReadsOn
<1> USE DEF IInv
<1>1. demux = "open"
  BY DEF ReadFrame, Opened
<1>2. /\ mNextReadPos \in Nat /\ mNextReadPos >= 1
      /\ mFd = 3 /\ mLength = Len(file.packets) + 1 /\ Len(file.packets) \in Nat
  BY <1>1, FileFacts DEF Opened, TypeOK
<1>3. PICK n \in read(mNextReadPos) :
       /\ mNextReadPos' = Moved(mNextReadPos, n)
       /\ mStatus' = Status(n)
       /\ \/ /\ n > 0
             /\ IF Wanting(mNextReadPos) # {} /\ file.packets[mNextReadPos].data # <<>>
                THEN Queue(mNextReadPos) /\ UNCHANGED currentTrack /\ Returns(0)
                ELSE GoesOn /\ UNCHANGED <<mPacketQueue, currentTrack>>
          \/ /\ n > 0 => MayHaveEnded(mNextReadPos)
             /\ currentTrack' = "none"
             /\ UNCHANGED mPacketQueue
             /\ Returns(mStatus')
  BY DEF ReadFrame
<1>4. n \in Int
  BY <1>2, Results DEF read
<1>5. n > 0 => /\ mNextReadPos \in 1..Len(file.packets)
               /\ mNextReadPos' = mNextReadPos + 1
  <2> SUFFICES ASSUME n > 0
               PROVE  /\ mNextReadPos \in 1..Len(file.packets)
                      /\ mNextReadPos' = mNextReadPos + 1
    OBVIOUS
  <2>1. n \in readAt(mFd, mLength, mNextReadPos, 1)
    BY <1>3 DEF read
  <2>2. mNextReadPos < mLength /\ n = 1
    BY <1>2, <2>1, ReadGivesOne
  <2> QED
    BY <1>2, <1>3, <2>2 DEF Moved
<1>6. ~(n > 0) => UNCHANGED mNextReadPos
  BY <1>3 DEF Moved
<1>7. mStatus' \in {-1, 0}
  BY <1>3 DEF Status
<1>8. /\ calling' \in {"none", calling}
      /\ (calling = "seekTo" /\ currentTrack' = "none") => calling' = "seekTo"
  BY <1>3 DEF Returns, GoesOn
<1>9. Queues \/ Passes \/ Stops
  <2>1. CASE /\ n > 0
             /\ Wanting(mNextReadPos) # {} /\ file.packets[mNextReadPos].data # <<>>
             /\ Queue(mNextReadPos) /\ UNCHANGED currentTrack
    BY <2>1, <1>5 DEF Queues
  <2>2. CASE /\ n > 0
             /\ ~(Wanting(mNextReadPos) # {} /\ file.packets[mNextReadPos].data # <<>>)
             /\ GoesOn /\ UNCHANGED <<mPacketQueue, currentTrack>>
    BY <2>2, <1>5 DEF Passes, GoesOn
  <2>3. CASE /\ n > 0 => MayHaveEnded(mNextReadPos)
             /\ currentTrack' = "none" /\ UNCHANGED mPacketQueue
    BY <2>3, <1>5, <1>6 DEF Stops
  <2> QED
    BY <1>3, <2>1, <2>2, <2>3
<1> QED
  BY <1>1, <1>7, <1>8, <1>9 DEF ReadFrame, ReadsOn
-----------------------------------------------------------------------------
LEMMA PopulatorTypes ==
  ASSUME NEW n, NEW P \in Populators(n), NEW pts \in Int,
         NEW s \in DOMAIN P.mLastPTS
  PROVE  /\ Computed(P, s, pts) \in Populators(n)
         /\ computePTS(P, s, pts) \in Int
BY UnknownIsTime DEF Populators, Computed, computePTS, Repeats

LEMMA PopulatorIsReset ==
  ASSUME NEW n, NEW P \in Populators(n)
  PROVE  reset(P) \in Populators(n)
BY UnknownIsTime DEF Populators, reset

LEMMA PopulatorStarts ==
  ASSUME NEW n
  PROVE  NewPopulator(n) \in Populators(n)
BY UnknownIsTime DEF Populators, NewPopulator

LEMMA InitTyped == Init => IInv
<1> SUFFICES ASSUME Init PROVE IInv
  OBVIOUS
<1>1. file \in Files /\ Len(file.packets) \in Nat
  BY FileFacts DEF Init
<1>2. NewPopulator(0) \in Populators(0)
  BY PopulatorStarts
<1>3. TypeOK
  <2>1. IoTypeOK
    BY DEF Init, IoInit, IoTypeOK
  <2>6. mNextReadPos \in 0..(Len(file.packets) + 1)
    BY <1>1 DEF Init, IoInit
  <2>2. /\ streamIndex \in [Kinds -> Int]
        /\ \A k \in Kinds : streamIndex[k] \in {-1, file.best[k]}
    BY DEF Init
  <2>3. mExtraPushed \in [Kinds -> 0..2]
    BY DEF Init
  <2>4. /\ mPacketQueue \in [Kinds -> Seq(1..Len(file.packets))]
        /\ delivered \in [Kinds -> Seq(Nat)]
        /\ stale \in [Kinds -> Nat]
    BY DEF Init
  <2>5. mPTSPopulator \in Populators(0)
    BY <1>2 DEF Init
  <2> QED
    BY <1>1, <2>1, <2>2, <2>3, <2>4, <2>5, <2>6 DEF Init, TypeOK
<1>4. Opened /\ Seeking
  BY <1>1 DEF Init, IoInit, Opened, Seeking
<1> QED
  BY <1>3, <1>4 DEF IInv

\* The read of the file may do this and that to the types.
LEMMA LoopTyped ==
  ASSUME IInv, ReadsOn
  PROVE  IInv'
<1> USE DEF IInv, ReadsOn
<1>1. file \in Files /\ Len(file.packets) \in Nat
  BY FileFacts DEF TypeOK
<1>2. mNextReadPos' \in 0..(Len(file.packets) + 1) /\ mNextReadPos' >= 1
  BY <1>1 DEF TypeOK, Opened, Queues, Passes, Stops
<1>3. currentTrack' \in {currentTrack, "none"}
  BY DEF Queues, Passes, Stops
<1>4. /\ mPacketQueue' \in [Kinds -> Seq(1..Len(file.packets))]
      /\ \A k \in Kinds : Len(mPacketQueue[k]) <= Len(mPacketQueue'[k])
  <2>1. CASE UNCHANGED mPacketQueue
    BY <2>1 DEF TypeOK
  <2>2. CASE Queues
    <3> DEFINE j == FirstOf(Wanting(mNextReadPos))
    <3>1. j \in Kinds
      BY <2>2, WantedByOne DEF Queues
    <3>2. mPacketQueue' = [mPacketQueue EXCEPT ![j] = Append(@, mNextReadPos)]
      BY <2>2 DEF Queues, Queue
    <3> HIDE DEF j
    <3>3. mNextReadPos \in 1..Len(file.packets)
      BY <2>2 DEF Queues
    <3>4. mPacketQueue \in [Kinds -> Seq(1..Len(file.packets))]
      BY DEF TypeOK
    <3>5. /\ Append(mPacketQueue[j], mNextReadPos) \in Seq(1..Len(file.packets))
          /\ Len(Append(mPacketQueue[j], mNextReadPos)) = Len(mPacketQueue[j]) + 1
      BY <3>1, <3>3, <3>4
    <3> QED
      BY <3>1, <3>2, <3>4, <3>5
  <2> QED
    BY <2>1, <2>2 DEF Passes, Stops
<1>5. TypeOK'
  BY <1>2, <1>3, <1>4 DEF TypeOK, IoTypeOK
<1>6. Opened'
  BY <1>2 DEF Opened
<1>7. Seeking'
  <2>1. calling' = "seekTo" => currentTrack' = "none"
    BY <1>3 DEF Seeking
  <2>2. calling' # "seekTo" => \A k \in Kinds : stale'[k] = 0
    BY <1>3 DEF Seeking
  <2>3. ASSUME NEW k \in Kinds PROVE stale'[k] <= Len(mPacketQueue'[k])
    <3>1. stale[k] <= Len(mPacketQueue[k]) /\ stale[k] \in Nat
      BY DEF Seeking, TypeOK
    <3>2. Len(mPacketQueue[k]) \in Nat /\ Len(mPacketQueue'[k]) \in Nat
      BY <1>4 DEF TypeOK
    <3> QED
      BY <1>4, <3>1, <3>2
  <2> QED
    BY <2>1, <2>2, <2>3 DEF Seeking
<1> QED
  BY <1>5, <1>6, <1>7

\* Where av_seek_frame may go.
LEMMA SeekGoes ==
  ASSUME NEW p \in Int, seek(p) >= 0
  PROVE  seek(p) = p
BY DEF seek

\* What setDataSource finds when it opens a file.
LEMMA OpensBlockOne ==
  ASSUME NEW fd \in {-1, 3}, NEW length \in Int, TRUE \in openAVFormatContext(fd, length)
  PROVE  fd = 3
<1>1. PICK n \in readAt(fd, length, 0, 1) : n > 0
  BY DEF openAVFormatContext
<1> QED
  BY <1>1 DEF readAt, NO_INIT

\* Time stamps are numbers, and so are times.
LEMMA TimesTyped ==
  ASSUME TypeOK, NEW p \in 1..Len(file.packets), Timed(file.packets[p])
  PROVE  /\ mSampleTimeUs' \in Int
         /\ mPTSPopulator' \in Populators(0) \cup Populators(TrackCount(file))
<1> DEFINE packet == file.packets[p]
<1>1. file \in Files /\ file.startTime \in Int
  BY FileFacts DEF TypeOK
<1>2. packet.stream \in Nat /\ packet.pts \in Int /\ packet.dts \in Int
  BY <1>1, PacketFacts
<1> HIDE DEF packet
<1>3. Timed(packet)
  BY DEF packet
<1>4. ASSUME NEW pts \in Int PROVE Normalized(file, pts, packet.dts) \in Int
  BY <1>1, <1>2, SMTT(30) DEF Normalized, mStartTimeUs
<1>5. PICK n \in {0, TrackCount(file)} : mPTSPopulator \in Populators(n)
  BY DEF TypeOK
<1>6. CASE packet.stream \in DOMAIN mPTSPopulator.mLastPTS
  <2>1. /\ mPTSPopulator' = Computed(mPTSPopulator, packet.stream, packet.pts)
        /\ mSampleTimeUs' =
             Normalized(file, computePTS(mPTSPopulator, packet.stream, packet.pts),
                        packet.dts)
    BY <1>3, <1>6 DEF Timed
  <2>2. /\ Computed(mPTSPopulator, packet.stream, packet.pts) \in Populators(n)
        /\ computePTS(mPTSPopulator, packet.stream, packet.pts) \in Int
    BY <1>2, <1>5, <1>6, PopulatorTypes
  <2> QED
    BY <1>4, <1>5, <2>1, <2>2
<1>7. CASE packet.stream \notin DOMAIN mPTSPopulator.mLastPTS
  <2>1. PICK pts \in {packet.pts, kUnknownPTS} :
          mSampleTimeUs' = Normalized(file, pts, packet.dts)
    BY <1>3, <1>7 DEF Timed
  <2>2. mPTSPopulator' = mPTSPopulator
    BY <1>3, <1>7 DEF Timed
  <2>3. pts \in Int
    BY <1>2, UnknownIsTime
  <2> QED
    BY <1>4, <2>1, <2>2, <2>3 DEF TypeOK
<1> QED
  BY <1>6, <1>7

\* A sample is taken: the header, or the packet at the head of the queue.
Takes(k) == /\ k \in Kinds
            /\ demux = "open" /\ calling = "none"
            /\ streamIndex[k] >= 0
            /\ mExtraPushed[k] # 0
            /\ mPacketQueue[k] # <<>>
            /\ mPacketQueue' = [mPacketQueue EXCEPT ![k] = Tail(@)]
            /\ delivered' = [delivered EXCEPT ![k] = Append(@, Head(mPacketQueue[k]))]
            /\ currentTrack' = k
            /\ Timed(file.packets[Head(mPacketQueue[k])])
            /\ UNCHANGED <<ioVars, file, demux, streamIndex, mExtraPushed, mStatus,
                           stale, calling>>
TakesHeader(k) == /\ k \in Kinds
                  /\ demux = "open" /\ calling = "none"
                  /\ streamIndex[k] >= 0
                  /\ mExtraPushed[k] = 0
                  /\ mExtraPushed' = [mExtraPushed EXCEPT ![k] = 1]
                  /\ delivered' = [delivered EXCEPT ![k] = Append(@, 0)]
                  /\ currentTrack' = k
                  /\ UNCHANGED <<ioVars, file, demux, streamIndex, mPacketQueue, mStatus,
                                 mSampleTimeUs, mPTSPopulator, stale, calling>>
TakesNothing == /\ currentTrack' \in {currentTrack, "none"}
                /\ calling = "none"
                /\ UNCHANGED <<ioVars, file, demux, streamIndex, mExtraPushed,
                               mPacketQueue, mStatus, mSampleTimeUs, mPTSPopulator,
                               delivered, stale, calling>>

LEMMA WhatIsRead ==
  ASSUME NEW offset, readSampleData(offset)
  PROVE  TakesNothing \/ \E k \in Kinds : Takes(k) \/ TakesHeader(k)
<1>1. demux = "open"
  BY DEF readSampleData
<1>2. CASE ReadRefused(offset)
  BY <1>2 DEF ReadRefused, Answer, TakesNothing, demuxVars
<1>3. CASE ReadNothing
  BY <1>3 DEF ReadNothing, Answer, TakesNothing
<1>4. ASSUME NEW k \in Kinds, ReadHeader(k, offset) PROVE TakesHeader(k)
  <2>1. k = select_current_track
    BY <1>4 DEF ReadHeader
  <2>2. streamIndex[k] >= 0
    BY <2>1, CurrentIsSelected
  <2> QED
    BY <1>1, <1>4, <2>2 DEF ReadHeader, Answer, TakesHeader
<1>5. ASSUME NEW k \in Kinds, ReadPacket(k, offset) PROVE Takes(k)
  <2>1. k = select_current_track /\ mExtraPushed[k] # 0
    BY <1>5 DEF ReadPacket
  <2>2. streamIndex[k] >= 0 /\ mPacketQueue[k] # <<>>
    BY <2>1, CurrentIsSelected
  <2> QED
    BY <1>1, <1>5, <2>1, <2>2 DEF ReadPacket, Answer, Takes
<1> QED
  BY <1>2, <1>3, <1>4, <1>5 DEF readSampleData
-----------------------------------------------------------------------------
LEMMA OpenTyped == ASSUME IInv, setDataSource PROVE IInv'
<1> USE DEF IInv
<1>1. file \in Files /\ Len(file.packets) \in Nat
  BY FileFacts DEF TypeOK
<1>2. /\ demux = "new" /\ mNextReadPos = 0 /\ calling = "none"
      /\ calling' = calling /\ mInitCheck' = TRUE
      /\ UNCHANGED <<file, streamIndex, mExtraPushed, mPacketQueue, currentTrack,
                     mStatus, mSampleTimeUs, delivered, stale>>
  BY DEF setDataSource, Answer, init, Opened
<1>3. \/ mFd' = 3 /\ mLength' = Len(file.packets) + 1
      \/ mFd' = -1 /\ mLength' = -1
  BY DEF setDataSource, FileSource
<1>4. PICK opens \in openAVFormatContext(mFd', mLength') :
        IF opens /\ post_init(file)
        THEN /\ demux' = "open"
             /\ mNextReadPos' = 1
             /\ mPTSPopulator' = NewPopulator(TrackCount(file))
        ELSE demux' = "failed" /\ UNCHANGED <<mNextReadPos, mPTSPopulator>>
  BY DEF setDataSource
<1>5. /\ mFd' \in {-1, 3} /\ mLength' \in Int /\ mLength' \in Nat \cup {-1}
      /\ mNextReadPos' \in {0, 1} /\ demux' \in {"open", "failed"}
  BY <1>1, <1>2, <1>3, <1>4
<1>6. mPTSPopulator' \in Populators(0) \cup Populators(TrackCount(file))
  <2>1. NewPopulator(TrackCount(file)) \in Populators(TrackCount(file))
    BY PopulatorStarts
  <2>2. mPTSPopulator' \in {mPTSPopulator, NewPopulator(TrackCount(file))}
    BY <1>4
  <2> QED
    BY <2>1, <2>2 DEF TypeOK
<1>7. TypeOK'
  <2>1. mNextReadPos' \in 0..(Len(file'.packets) + 1)
    BY <1>1, <1>2, <1>5
  <2>2. IoTypeOK'
    BY <1>2, <1>5 DEF IoTypeOK
  <2> QED
    BY <1>2, <1>5, <1>6, <2>1, <2>2 DEF TypeOK
<1>8. ASSUME demux' = "open"
      PROVE  mFd' = 3 /\ mLength' = Len(file.packets) + 1 /\ mNextReadPos' = 1
  <2>1. opens /\ mNextReadPos' = 1
    BY <1>4, <1>8
  <2>2. opens = TRUE
    BY <2>1, <1>4 DEF openAVFormatContext
  <2>3. mFd' = 3
    BY <1>5, <2>2, <1>4, OpensBlockOne
  <2> QED
    BY <1>3, <2>1, <2>3
<1>9. Opened'
  BY <1>2, <1>5, <1>8 DEF Opened
<1>10. Seeking'
  BY <1>2 DEF Seeking
<1> QED
  BY <1>7, <1>9, <1>10

LEMMA SelectTyped ==
  ASSUME IInv, NEW k \in Kinds, selectTrack(k) \/ unselectTrack(k)
  PROVE  IInv'
<1> USE DEF IInv
<1>1. /\ demux = "open"
      /\ \/ streamIndex' = [streamIndex EXCEPT ![k] = file.best[k]]
         \/ streamIndex' = [streamIndex EXCEPT ![k] = -1]
      /\ UNCHANGED <<ioVars, file, demux, mExtraPushed, mPacketQueue, currentTrack,
                     mStatus, mSampleTimeUs, mPTSPopulator, delivered, stale, calling>>
  BY DEF selectTrack, unselectTrack, Answer
<1>2. file.best \in [Kinds -> Int]
  BY FileFacts DEF TypeOK
<1>3. /\ streamIndex' \in [Kinds -> Int]
      /\ \A j \in Kinds : streamIndex'[j] \in {-1, file.best[j]}
  <2>1. PICK s \in {file.best[k], -1} : streamIndex' = [streamIndex EXCEPT ![k] = s]
    BY <1>1
  <2>2. s \in Int
    BY <1>2, <2>1
  <2>3. streamIndex \in [Kinds -> Int]
    BY DEF TypeOK
  <2>4. ASSUME NEW j \in Kinds PROVE streamIndex'[j] \in {-1, file.best[j]}
    <3>1. CASE j = k
      BY <2>1, <2>3, <3>1
    <3>2. CASE j # k
      BY <2>1, <2>3, <3>2 DEF TypeOK
    <3> QED
      BY <3>1, <3>2
  <2> QED
    BY <2>1, <2>2, <2>3, <2>4
<1>4. TypeOK'
  BY <1>1, <1>3 DEF TypeOK, IoTypeOK, ioVars
<1>5. Opened' /\ Seeking'
  BY <1>1 DEF Opened, Seeking, ioVars
<1> QED
  BY <1>4, <1>5

LEMMA CallTyped ==
  ASSUME IInv, advance \/ getSampleTrackIndex \/ getSampleTime \/ release
  PROVE  IInv'
<1> USE DEF IInv
<1>1. CASE advance
  BY <1>1 DEF advance, ioVars, demuxVars, TypeOK, IoTypeOK, Opened, Seeking
<1>2. CASE getSampleTrackIndex
  <2>1. /\ demux = "open" /\ calling' \in {calling, "getSampleTrackIndex"}
        /\ calling = "none"
        /\ UNCHANGED <<ioVars, demuxVars>>
    BY <1>2 DEF getSampleTrackIndex, Answer
  <2> QED
    BY <2>1 DEF ioVars, demuxVars, TypeOK, IoTypeOK, Opened, Seeking
<1>3. CASE getSampleTime
  BY <1>3 DEF getSampleTime, Answer, ioVars, demuxVars, TypeOK, IoTypeOK, Opened, Seeking
<1>4. CASE release
  BY <1>4 DEF release, Answer, ioVars, demuxVars, TypeOK, IoTypeOK, Opened, Seeking
<1> QED
  BY <1>1, <1>2, <1>3, <1>4

LEMMA SeekTyped ==
  ASSUME IInv, SeekFails \/ \E p \in 1..Len(file.packets) : seekTo(p)
  PROVE  IInv'
<1> USE DEF IInv
<1>1. file \in Files /\ Len(file.packets) \in Nat
  BY FileFacts DEF TypeOK
<1>2. reset(mPTSPopulator) \in Populators(0) \cup Populators(TrackCount(file))
  <2>1. PICK n \in {0, TrackCount(file)} : mPTSPopulator \in Populators(n)
    BY DEF TypeOK
  <2> QED
    BY <2>1, PopulatorIsReset
<1>3. CASE SeekFails
  BY <1>2, <1>3 DEF SeekFails, Answer, ioVars, TypeOK, IoTypeOK, Opened, Seeking
<1>4. ASSUME NEW p \in 1..Len(file.packets), seekTo(p) PROVE IInv'
  <2>1. mNextReadPos' = p
    BY <1>4, SeekGoes DEF seekTo
  <2>2. stale' \in [Kinds -> Nat] /\ \A k \in Kinds : stale'[k] = Len(mPacketQueue[k])
    BY <1>4 DEF seekTo, TypeOK
  <2>3. delivered' \in [Kinds -> Seq(Nat)]
    BY <1>4 DEF seekTo
  <2>4. /\ demux = "open" /\ calling' = "seekTo" /\ currentTrack' = "none"
        /\ mPTSPopulator' = reset(mPTSPopulator)
        /\ UNCHANGED <<mFd, mLength, mInitCheck, file, demux, streamIndex, mExtraPushed,
                       mPacketQueue, mStatus, mSampleTimeUs, result>>
    BY <1>4 DEF seekTo
  <2>5. TypeOK'
    <3>1. mNextReadPos' \in 0..(Len(file'.packets) + 1)
      BY <1>1, <2>1, <2>4
    <3>2. IoTypeOK'
      BY <2>1, <2>4 DEF TypeOK, IoTypeOK
    <3> QED
      BY <1>2, <2>2, <2>3, <2>4, <3>1, <3>2 DEF TypeOK
  <2>6. Opened'
    BY <2>1, <2>4 DEF Opened
  <2>7. Seeking'
    BY <2>2, <2>4 DEF Seeking, TypeOK
  <2> QED
    BY <2>5, <2>6, <2>7
<1> QED
  BY <1>3, <1>4

LEMMA ReadTyped ==
  ASSUME IInv, TakesNothing \/ \E k \in Kinds : Takes(k) \/ TakesHeader(k)
  PROVE  IInv'
<1> USE DEF IInv
<1>1. CASE TakesNothing
  BY <1>1 DEF TakesNothing, ioVars, TypeOK, IoTypeOK, Opened, Seeking
<1>2. ASSUME NEW k \in Kinds, streamIndex[k] >= 0 PROVE k \in Found(file)
  <2>1. streamIndex[k] \in {-1, file.best[k]}
    BY DEF TypeOK
  <2> QED
    BY <1>2, <2>1 DEF Found
<1>3. ASSUME NEW k \in Kinds, TakesHeader(k) PROVE IInv'
  <2>1. mExtraPushed' \in [Kinds -> 0..2]
    BY <1>3 DEF TakesHeader, TypeOK
  <2>2. delivered' \in [Kinds -> Seq(Nat)]
    BY <1>3 DEF TakesHeader, TypeOK
  <2>3. currentTrack' \in Found(file)
    BY <1>2, <1>3 DEF TakesHeader
  <2> QED
    BY <1>3, <2>1, <2>2, <2>3
       DEF TakesHeader, ioVars, TypeOK, IoTypeOK, Opened, Seeking
<1>4. ASSUME NEW k \in Kinds, Takes(k) PROVE IInv'
  <2>1. mPacketQueue[k] \in Seq(1..Len(file.packets)) /\ mPacketQueue[k] # <<>>
    BY <1>4 DEF Takes, TypeOK
  <2>2. /\ Head(mPacketQueue[k]) \in 1..Len(file.packets)
        /\ Tail(mPacketQueue[k]) \in Seq(1..Len(file.packets))
    BY <2>1, HeadTailProperties
  <2>3. mPacketQueue' \in [Kinds -> Seq(1..Len(file.packets))]
    BY <1>4, <2>2 DEF Takes, TypeOK
  <2>4. Head(mPacketQueue[k]) \in Nat
    BY <2>2
  <2>5. delivered' \in [Kinds -> Seq(Nat)]
    BY <1>4, <2>4 DEF Takes, TypeOK
  <2>6. currentTrack' \in Found(file)
    BY <1>2, <1>4 DEF Takes
  <2>7. /\ mSampleTimeUs' \in Int
        /\ mPTSPopulator' \in Populators(0) \cup Populators(TrackCount(file))
    BY <1>4, <2>2, TimesTyped DEF Takes
  <2>8. TypeOK'
    BY <1>4, <2>3, <2>5, <2>6, <2>7 DEF Takes, ioVars, TypeOK, IoTypeOK
  <2>9. Opened'
    BY <1>4 DEF Takes, ioVars, Opened
  <2>10. Seeking'
    <3>1. \A j \in Kinds : stale'[j] = 0
      BY <1>4 DEF Takes, Seeking
    <3>2. \A j \in Kinds : Len(mPacketQueue'[j]) \in Nat
      BY <2>3
    <3> QED
      BY <1>4, <3>1, <3>2 DEF Takes, Seeking
  <2> QED
    BY <2>8, <2>9, <2>10
<1> QED
  BY <1>1, <1>3, <1>4

LEMMA StepTyped == IInv /\ [Next]_vars => IInv'
<1> SUFFICES ASSUME IInv, [Next]_vars PROVE IInv'
  OBVIOUS
<1>1. CASE setDataSource
  BY <1>1, OpenTyped
<1>2. CASE advance \/ getSampleTrackIndex \/ getSampleTime \/ release
  BY <1>2, CallTyped
<1>3. CASE \E k \in Kinds : selectTrack(k) \/ unselectTrack(k)
  BY <1>3, SelectTyped
<1>4. CASE SeekFails \/ \E p \in 1..Len(file.packets) : seekTo(p)
  BY <1>4, SeekTyped
<1>5. CASE ReadFrame
  BY <1>5, TurnsOfTheLoop, LoopTyped
<1>6. CASE \E offset \in Offsets : readSampleData(offset)
  BY <1>6, WhatIsRead, ReadTyped
<1>7. CASE UNCHANGED vars
  BY <1>7 DEF vars, ioVars, demuxVars, IInv, TypeOK, IoTypeOK, Opened, Seeking
<1> QED
  BY <1>1, <1>2, <1>3, <1>4, <1>5, <1>6, <1>7 DEF Next

\* The types of the extractor's state, for every file, buffer and failure.
THEOREM ExtractorTyped == Spec => []TypeOK
<1>1. IInv => TypeOK
  BY DEF IInv
<1> QED
  BY <1>1, InitTyped, StepTyped, PTL DEF Spec
-----------------------------------------------------------------------------
\* Each action of the extractor does what an action of the Demultiplexer does,
\* or nothing it can tell.
LEMMA InitMaps == Init => Abstract!Init
<1> SUFFICES ASSUME Init PROVE Abstract!Init
  OBVIOUS
<1>1. mNextReadPos = 0
  BY DEF Init, IoInit
<1>2. Selected = {}
  BY DEF Init, Selected
<1>3. HeaderIsDue = [k \in Kinds |-> k # "subtitle"]
  BY DEF Init, HeaderIsDue
<1>4. Waiting = [k \in Kinds |-> <<>>]
  <2>1. ASSUME NEW k \in Kinds
        PROVE  SubSeq(mPacketQueue[k], stale[k] + 1, Len(mPacketQueue[k])) = <<>>
    <3>1. mPacketQueue[k] = <<>> /\ stale[k] = 0
      BY DEF Init
    <3>2. SubSeq(<<>>, 1, 0) = <<>>
      BY SubSeqEmpty
    <3> QED
      BY <3>1, <3>2
  <2> QED
    BY <2>1 DEF Waiting
<1>5. delivered = [k \in Kinds |-> <<>>]
  BY DEF Init
<1> QED
  BY <1>1, <1>2, <1>3, <1>4, <1>5 DEF Abstract!Init, Abstract!Nothing

\* The kind the Demultiplexer has for a packet.
LEMMA KindOfPacket ==
  ASSUME TypeOK, NEW p \in 1..Len(file.packets)
  PROVE  /\ DOMAIN KindOf(file) = 1..Len(file.packets)
         /\ Len(KindOf(file)) = Len(file.packets)
         /\ (Wanting(p) # {} /\ file.packets[p].data # <<>>)
              => KindOf(file)[p] = FirstOf(Wanting(p))
         /\ (Wanting(p) = {} \/ file.packets[p].data = <<>>)
              => KindOf(file)[p] \notin Selected
<1>1. file \in Files /\ DOMAIN file.packets = 1..Len(file.packets)
      /\ Len(file.packets) \in Nat
  BY FileFacts DEF TypeOK
<1>2. DOMAIN KindOf(file) = 1..Len(file.packets)
  BY <1>1 DEF KindOf
<1>3. Len(KindOf(file)) = Len(file.packets)
  BY <1>1, <1>2
<1>4. file.packets[p].stream \in Nat
  BY <1>1, PacketFacts
<1>5. KindOf(file)[p] =
        IF file.packets[p].data # <<>> /\ \E k \in Kinds : file.best[k] = file.packets[p].stream
        THEN CHOOSE k \in Kinds : file.best[k] = file.packets[p].stream ELSE "other"
  BY <1>1 DEF KindOf
<1>6. ASSUME Wanting(p) # {}, file.packets[p].data # <<>>
      PROVE  KindOf(file)[p] = FirstOf(Wanting(p))
  <2> DEFINE j == FirstOf(Wanting(p))
  <2>1. j \in Kinds /\ file.best[j] = file.packets[p].stream
    BY <1>6, WantedByOne
  <2>2. ASSUME NEW k \in Kinds, file.best[k] = file.packets[p].stream PROVE k = j
    BY <1>1, <1>4, <2>1, <2>2, OneKind
  <2> HIDE DEF j
  <2>3. (CHOOSE k \in Kinds : file.best[k] = file.packets[p].stream) = j
    BY <2>1, <2>2
  <2> QED
    BY <1>5, <1>6, <2>1, <2>3 DEF j
<1>7. ASSUME Wanting(p) = {} \/ file.packets[p].data = <<>>
      PROVE  KindOf(file)[p] \notin Selected
  <2>1. CASE KindOf(file)[p] = "other"
    BY <2>1 DEF Selected, Kinds
  <2>2. CASE KindOf(file)[p] # "other"
    <3> DEFINE k == KindOf(file)[p]
    <3>1. file.packets[p].data # <<>> /\ k \in Kinds /\ file.best[k] = file.packets[p].stream
      BY <1>5, <2>2
    <3>2. streamIndex[k] # file.packets[p].stream
      BY <1>7, <3>1 DEF Wanting
    <3>3. streamIndex[k] = -1
      BY <3>1, <3>2 DEF TypeOK
    <3> QED
      BY <3>3 DEF Selected
  <2> QED
    BY <2>1, <2>2
<1> QED
  BY <1>2, <1>3, <1>6, <1>7

\* What the Demultiplexer sees does not change.
Unseen == UNCHANGED <<file, mNextReadPos, streamIndex, mExtraPushed, mPacketQueue,
                      stale, delivered>>
LEMMA UnseenStutters == ASSUME Unseen PROVE UNCHANGED Abstract!vars
BY DEF Unseen, Abstract!vars, KindOf, Selected, HeaderIsDue, Waiting

LEMMA LoopMaps ==
  ASSUME IInv, ReadsOn
  PROVE  [Abstract!Next]_(Abstract!vars)
<1> DEFINE p == mNextReadPos
<1>1. TypeOK /\ Seeking
  BY DEF IInv
<1>2. /\ UNCHANGED <<file, streamIndex, mExtraPushed, delivered, stale>>
      /\ KindOf(file)' = KindOf(file) /\ Selected' = Selected
      /\ HeaderIsDue' = HeaderIsDue
  BY DEF ReadsOn, KindOf, Selected, HeaderIsDue
<1>3. mPacketQueue' = mPacketQueue => Waiting' = Waiting
  BY <1>2 DEF Waiting
<1>4. CASE Queues
  <2> DEFINE j == FirstOf(Wanting(p))
  <2>1. p \in 1..Len(file.packets) /\ p' = p + 1
    BY <1>4 DEF Queues
  <2>2. /\ j \in Kinds /\ streamIndex[j] = file.packets[p].stream
        /\ file.packets[p].stream \in Nat
    BY <1>1, <1>4, <2>1, WantedByOne DEF Queues
  <2>3. KindOf(file)[p] = j /\ p \in DOMAIN KindOf(file)
    BY <1>1, <1>4, <2>1, KindOfPacket DEF Queues
  <2>4. mPacketQueue' = [mPacketQueue EXCEPT ![j] = Append(@, p)]
    BY <1>4 DEF Queues, Queue
  <2>5. j \in Selected
    BY <2>2 DEF Selected
  <2> HIDE DEF j
  <2>6. mPacketQueue \in [Kinds -> Seq(1..Len(file.packets))]
    BY <1>1 DEF TypeOK
  <2>7. stale[j] \in 0..Len(mPacketQueue[j])
    BY <1>1, <2>2, <2>6 DEF TypeOK, Seeking
  <2>8. SubSeq(Append(mPacketQueue[j], p), stale[j] + 1, Len(Append(mPacketQueue[j], p)))
          = Append(SubSeq(mPacketQueue[j], stale[j] + 1, Len(mPacketQueue[j])), p)
    <3> DEFINE T == 1..Len(file.packets)
               q == mPacketQueue[j]
               n == stale[j]
    <3>1. q \in Seq(T) /\ p \in T /\ n \in 0..Len(q)
      BY <2>1, <2>2, <2>6, <2>7
    <3> HIDE DEF T, q, n, p
    <3>2. SubSeq(Append(q, p), n + 1, Len(Append(q, p)))
            = Append(SubSeq(q, n + 1, Len(q)), p)
      BY <3>1, GrownTail
    <3> QED
      BY <3>2 DEF q, n, p
  <2>9. Waiting' = [Waiting EXCEPT ![j] = Append(@, p)]
    <3>1. ASSUME NEW k \in Kinds
          PROVE  Waiting'[k] = [Waiting EXCEPT ![j] = Append(@, p)][k]
      <4>1. CASE k = j
        BY <1>2, <2>2, <2>4, <2>6, <2>8, <4>1 DEF Waiting
      <4>2. CASE k # j
        BY <1>2, <2>4, <2>6, <4>2 DEF Waiting
      <4> QED
        BY <4>1, <4>2
    <3> QED
      BY <3>1 DEF Waiting
  <2>10. Abstract!Read(j)
    BY <1>2, <2>1, <2>3, <2>5, <2>9 DEF Abstract!Read
  <2> QED
    BY <2>2, <2>10 DEF Abstract!Next
<1>5. CASE Passes
  <2>1. p \in 1..Len(file.packets) /\ p' = p + 1 /\ mPacketQueue' = mPacketQueue
    BY <1>5 DEF Passes
  <2>2. KindOf(file)[p] \notin Selected /\ p \in DOMAIN KindOf(file)
    BY <1>1, <1>5, <2>1, KindOfPacket DEF Passes
  <2> QED
    BY <1>2, <1>3, <2>1, <2>2 DEF Abstract!Pass, Abstract!Next
<1>6. CASE Stops
  <2>1. mPacketQueue' = mPacketQueue
    BY <1>6 DEF Stops
  <2>2. CASE UNCHANGED mNextReadPos
    BY <1>2, <2>1, <2>2, UnseenStutters DEF Unseen
  <2>3. CASE p \in 1..Len(file.packets) /\ p' = p + 1 /\ MayHaveEnded(p)
    <3>1. p + ReadAhead > Len(KindOf(file)) /\ p \in DOMAIN KindOf(file)
      BY <1>1, <2>3, KindOfPacket DEF MayHaveEnded
    <3> QED
      BY <1>2, <1>3, <2>1, <2>3, <3>1 DEF Abstract!Pass, Abstract!Next
  <2> QED
    BY <1>6, <2>2, <2>3 DEF Stops
<1> QED
  BY <1>4, <1>5, <1>6 DEF ReadsOn

LEMMA ReadMaps ==
  ASSUME IInv, TakesNothing \/ \E k \in Kinds : Takes(k) \/ TakesHeader(k)
  PROVE  [Abstract!Next]_(Abstract!vars)
<1>1. CASE TakesNothing
  BY <1>1, UnseenStutters DEF TakesNothing, Unseen, ioVars
<1>2. ASSUME NEW k \in Kinds, TakesHeader(k) PROVE Abstract!TakeHeader(k)
  <2>1. k \in Selected /\ HeaderIsDue[k]
    BY <1>2 DEF TakesHeader, Selected, HeaderIsDue
  <2>2. HeaderIsDue' = [HeaderIsDue EXCEPT ![k] = FALSE]
    <3>1. mExtraPushed \in [Kinds -> 0..2] /\ mExtraPushed' = [mExtraPushed EXCEPT ![k] = 1]
      BY <1>2 DEF TakesHeader, IInv, TypeOK
    <3>2. mExtraPushed'[k] # 0
      BY <3>1
    <3>3. \A j \in Kinds \ {k} : mExtraPushed'[j] = mExtraPushed[j]
      BY <3>1
    <3>4. ASSUME NEW j \in Kinds
          PROVE  (mExtraPushed'[j] = 0) = [HeaderIsDue EXCEPT ![k] = FALSE][j]
      <4>1. CASE j = k
        BY <3>2, <4>1, Zenon DEF HeaderIsDue
      <4>2. CASE j # k
        BY <3>3, <4>2, Zenon DEF HeaderIsDue
      <4> QED
        BY <4>1, <4>2
    <3> QED
      BY <3>4, Zenon DEF HeaderIsDue
  <2>3. UNCHANGED <<KindOf(file), mNextReadPos, Selected, Waiting>>
    BY <1>2 DEF TakesHeader, KindOf, Selected, Waiting, ioVars
  <2>4. delivered' = [delivered EXCEPT ![k] = Append(@, 0)]
    BY <1>2 DEF TakesHeader
  <2> QED
    BY <2>1, <2>2, <2>3, <2>4 DEF Abstract!TakeHeader
<1>3. ASSUME NEW k \in Kinds, Takes(k) PROVE Abstract!Take(k)
  <2>1. k \in Selected /\ ~HeaderIsDue[k]
    BY <1>3 DEF Takes, Selected, HeaderIsDue
  <2>2. mPacketQueue \in [Kinds -> Seq(1..Len(file.packets))]
    BY DEF IInv, TypeOK
  <2>3. \A j \in Kinds : stale[j] = 0 /\ stale'[j] = 0
    BY <1>3 DEF Takes, IInv, Seeking
  <2>4. Waiting = mPacketQueue
    <3>1. ASSUME NEW j \in Kinds
          PROVE  SubSeq(mPacketQueue[j], stale[j] + 1, Len(mPacketQueue[j])) = mPacketQueue[j]
      <4>1. mPacketQueue[j] \in Seq(1..Len(file.packets)) /\ stale[j] + 1 = 1
        BY <2>2, <2>3
      <4> QED
        BY <4>1, WholeSeq
    <3> QED
      BY <2>2, <3>1 DEF Waiting
  <2>5. mPacketQueue' = [mPacketQueue EXCEPT ![k] = Tail(@)]
    BY <1>3 DEF Takes
  <2>6. Tail(mPacketQueue[k]) \in Seq(1..Len(file.packets))
    BY <1>3, <2>2, HeadTailProperties DEF Takes
  <2>7. mPacketQueue' \in [Kinds -> Seq(1..Len(file.packets))]
    BY <2>2, <2>5, <2>6
  <2>8. Waiting' = mPacketQueue'
    <3>1. ASSUME NEW j \in Kinds
          PROVE  SubSeq(mPacketQueue'[j], stale'[j] + 1, Len(mPacketQueue'[j]))
                   = mPacketQueue'[j]
      <4>1. mPacketQueue'[j] \in Seq(1..Len(file.packets)) /\ stale'[j] + 1 = 1
        BY <2>3, <2>7
      <4> QED
        BY <4>1, WholeSeq
    <3> QED
      BY <2>7, <3>1 DEF Waiting
  <2>9. UNCHANGED <<KindOf(file), mNextReadPos, Selected, HeaderIsDue>>
    BY <1>3 DEF Takes, KindOf, Selected, HeaderIsDue, ioVars
  <2>10. /\ mPacketQueue[k] # <<>>
         /\ delivered' = [delivered EXCEPT ![k] = Append(@, Head(mPacketQueue[k]))]
    BY <1>3 DEF Takes
  <2> QED
    BY <2>1, <2>4, <2>5, <2>8, <2>9, <2>10 DEF Abstract!Take
<1> QED
  BY <1>1, <1>2, <1>3 DEF Abstract!Next

LEMMA CallMaps ==
  ASSUME IInv, \/ setDataSource
               \/ \E k \in Kinds : selectTrack(k) \/ unselectTrack(k)
               \/ \E p \in 1..Len(file.packets) : seekTo(p)
  PROVE  [Abstract!Next]_(Abstract!vars)
<1>1. CASE setDataSource
  <2>1. /\ mNextReadPos = 0 /\ mNextReadPos' \in {0, 1}
        /\ UNCHANGED <<file, streamIndex, mExtraPushed, mPacketQueue, stale, delivered>>
    BY <1>1 DEF setDataSource, IInv, Opened
  <2>2. UNCHANGED <<KindOf(file), Selected, HeaderIsDue, Waiting>>
    BY <2>1 DEF KindOf, Selected, HeaderIsDue, Waiting
  <2> QED
    BY <2>1, <2>2 DEF Abstract!Open, Abstract!Next, Abstract!vars
<1>2. ASSUME NEW k \in Kinds, selectTrack(k) \/ unselectTrack(k)
      PROVE  Abstract!Select(k)
  <2>1. UNCHANGED <<ioVars, file, mExtraPushed, mPacketQueue, stale, delivered>>
    BY <1>2 DEF selectTrack, unselectTrack
  <2>2. UNCHANGED <<KindOf(file), mNextReadPos, HeaderIsDue, Waiting, delivered>>
    BY <2>1 DEF KindOf, HeaderIsDue, Waiting, ioVars
  <2>3. streamIndex \in [Kinds -> Int]
    BY DEF IInv, TypeOK
  <2>4. CASE selectTrack(k)
    <3>1. file.best[k] >= 0 /\ streamIndex' = [streamIndex EXCEPT ![k] = file.best[k]]
      BY <2>4 DEF selectTrack, Found
    <3>2. Selected' = Selected \cup {k}
      BY <2>3, <3>1 DEF Selected
    <3> QED
      BY <2>2, <3>2 DEF Abstract!Select
  <2>5. CASE unselectTrack(k)
    <3>1. streamIndex' = [streamIndex EXCEPT ![k] = -1]
      BY <2>5 DEF unselectTrack
    <3>2. Selected' = Selected \ {k}
      BY <2>3, <3>1 DEF Selected
    <3> QED
      BY <2>2, <3>2 DEF Abstract!Select
  <2> QED
    BY <1>2, <2>4, <2>5
<1>3. ASSUME NEW p \in 1..Len(file.packets), seekTo(p)
      PROVE  Abstract!Seek(p) /\ p \in DOMAIN KindOf(file)
  <2>1. mNextReadPos' = p
    BY <1>3, SeekGoes DEF seekTo
  <2>2. /\ UNCHANGED <<file, streamIndex, mExtraPushed, mPacketQueue>>
        /\ delivered' = [k \in Kinds |-> <<>>]
        /\ stale' = [k \in Kinds |-> Len(mPacketQueue[k])]
    BY <1>3 DEF seekTo
  <2>3. UNCHANGED <<KindOf(file), Selected, HeaderIsDue>>
    BY <2>2 DEF KindOf, Selected, HeaderIsDue
  <2>4. Waiting' = [k \in Kinds |-> <<>>]
    <3>1. ASSUME NEW k \in Kinds
          PROVE  SubSeq(mPacketQueue'[k], stale'[k] + 1, Len(mPacketQueue'[k])) = <<>>
      <4>1. mPacketQueue[k] \in Seq(1..Len(file.packets))
        BY DEF IInv, TypeOK
      <4>2. mPacketQueue'[k] = mPacketQueue[k] /\ stale'[k] = Len(mPacketQueue[k])
        BY <2>2
      <4> QED
        BY <4>1, <4>2, WholeSeq
    <3> QED
      BY <3>1 DEF Waiting
  <2>5. p \in DOMAIN KindOf(file)
    BY KindOfPacket DEF IInv
  <2> QED
    BY <2>1, <2>2, <2>3, <2>4, <2>5 DEF Abstract!Seek, Abstract!Nothing
<1> QED
  BY <1>1, <1>2, <1>3 DEF Abstract!Next

LEMMA StepMaps == IInv /\ [Next]_vars => [Abstract!Next]_(Abstract!vars)
<1> SUFFICES ASSUME IInv, [Next]_vars PROVE [Abstract!Next]_(Abstract!vars)
  OBVIOUS
<1>1. CASE \/ setDataSource
           \/ \E k \in Kinds : selectTrack(k) \/ unselectTrack(k)
           \/ \E p \in 1..Len(file.packets) : seekTo(p)
  BY <1>1, CallMaps
<1>2. CASE advance \/ getSampleTrackIndex \/ getSampleTime \/ release \/ SeekFails
  <2>1. Unseen
    BY <1>2 DEF advance, getSampleTrackIndex, getSampleTime, release, SeekFails,
                Unseen, ioVars, demuxVars
  <2> QED
    BY <2>1, UnseenStutters
<1>3. CASE ReadFrame
  BY <1>3, TurnsOfTheLoop, LoopMaps
<1>4. CASE \E offset \in Offsets : readSampleData(offset)
  BY <1>4, WhatIsRead, ReadMaps
<1>5. CASE UNCHANGED vars
  BY <1>5, UnseenStutters DEF vars, ioVars, demuxVars, Unseen
<1> QED
  BY <1>1, <1>2, <1>3, <1>4, <1>5 DEF Next

\* The extractor implements the Demultiplexer, for every file, every order of
\* calls and every failure: of each selected track its header and then the
\* packets read meanwhile come out in the order of the file, each once.
THEOREM ImplementsDemultiplexer == Spec => Demultiplexes
<1>1. Spec => []IInv
  BY InitTyped, StepTyped, PTL DEF Spec
<1> QED
  BY <1>1, InitMaps, StepMaps, PTL DEF Spec, Demultiplexes, Abstract!Spec
-----------------------------------------------------------------------------
\* What is queued of a kind is of its stream and, but for a seek that is under way,
\* was read and in the order of the file.
Ordered ==
  /\ \A k \in Kinds : \A i \in 1..Len(mPacketQueue[k]) :
       file.packets[mPacketQueue[k][i]].stream = file.best[k]
  /\ calling # "seekTo" =>
       \A k \in Kinds :
         /\ \A i \in 1..Len(mPacketQueue[k]) : mPacketQueue[k][i] < mNextReadPos
         /\ \A i, j \in 1..Len(mPacketQueue[k]) :
              i < j => mPacketQueue[k][i] < mPacketQueue[k][j]

\* The time stamp remembered of stream s is of a packet that was taken: it comes
\* before all that are queued of the stream, and those not read yet.
Before(p, s) == \A k \in Kinds :
  file.best[k] = s => \A i \in 1..Len(mPacketQueue[k]) : p < mPacketQueue[k][i]
Remembered(s) ==
  mPTSPopulator.mLastPTS[s] # kUnknownPTS =>
    /\ calling # "seekTo"
    /\ \E p \in 1..Len(file.packets) :
         /\ file.packets[p].stream = s /\ file.packets[p].pts = mPTSPopulator.mLastPTS[s]
         /\ p < mNextReadPos /\ Before(p, s)
Distrust == /\ \A s \in DOMAIN mPTSPopulator.mLastPTS : Remembered(s)
            /\ DistrustedOnlyIfRepeated
DInv == IInv /\ Ordered /\ Distrust

\* The two arrays of the populator are of the same streams.
LEMMA PopulatorIs ==
  ASSUME TypeOK
  PROVE  \E n : mPTSPopulator \in Populators(n)
BY DEF TypeOK

\* What every step but the reads leaves of the order and of the time stamps.
LEMMA SameDistrust ==
  ASSUME Ordered, Distrust,
         UNCHANGED <<file, mPacketQueue, mPTSPopulator, mNextReadPos>>,
         calling' = "seekTo" <=> calling = "seekTo"
  PROVE  Ordered' /\ Distrust'
<1>1. Ordered'
  BY DEF Ordered
<1>2. ASSUME NEW s \in DOMAIN mPTSPopulator'.mLastPTS PROVE Remembered(s)'
  BY DEF Distrust, Remembered, Before
<1>3. DistrustedOnlyIfRepeated'
  BY DEF Distrust, DistrustedOnlyIfRepeated
<1> QED
  BY <1>1, <1>2, <1>3 DEF Distrust

\* A populator that remembers nothing, and distrusts what it did.
LEMMA ForgottenDistrust ==
  ASSUME Distrust, UNCHANGED file,
         \A s \in DOMAIN mPTSPopulator'.mLastPTS :
           mPTSPopulator'.mLastPTS[s] = kUnknownPTS,
         \A s \in DOMAIN mPTSPopulator'.mIsPTSReliable :
           ~mPTSPopulator'.mIsPTSReliable[s] =>
             /\ s \in DOMAIN mPTSPopulator.mIsPTSReliable
             /\ ~mPTSPopulator.mIsPTSReliable[s]
  PROVE  Distrust'
<1>1. ASSUME NEW s \in DOMAIN mPTSPopulator'.mLastPTS PROVE Remembered(s)'
  BY DEF Remembered
<1>2. DistrustedOnlyIfRepeated'
  BY DEF Distrust, DistrustedOnlyIfRepeated
<1> QED
  BY <1>1, <1>2 DEF Distrust

LEMMA NewDistrusts ==
  ASSUME NEW n, mPTSPopulator' = NewPopulator(n)
  PROVE  /\ \A s \in DOMAIN mPTSPopulator'.mLastPTS :
              mPTSPopulator'.mLastPTS[s] = kUnknownPTS
         /\ \A s \in DOMAIN mPTSPopulator'.mIsPTSReliable :
              mPTSPopulator'.mIsPTSReliable[s]
BY DEF NewPopulator

LEMMA InitDistrusts == Init => Ordered /\ Distrust
<1> SUFFICES ASSUME Init PROVE Ordered /\ Distrust
  OBVIOUS
<1>1. \A k \in Kinds : mPacketQueue[k] = <<>>
  BY DEF Init
<1>2. Ordered
  BY <1>1 DEF Ordered
<1>3. Distrust
  BY DEF Init, NewPopulator, Distrust, Remembered, DistrustedOnlyIfRepeated
<1> QED
  BY <1>2, <1>3

LEMMA OpenDistrusts ==
  ASSUME IInv, Ordered, Distrust, setDataSource
  PROVE  Ordered' /\ Distrust'
<1>1. /\ mNextReadPos = 0 /\ calling = "none" /\ calling' = "none"
      /\ UNCHANGED <<file, mPacketQueue>>
  BY DEF IInv, Opened, setDataSource, Answer
<1>2. PICK opens \in openAVFormatContext(mFd', mLength') :
        IF opens /\ post_init(file)
        THEN /\ demux' = "open"
             /\ mNextReadPos' = 1
             /\ mPTSPopulator' = NewPopulator(TrackCount(file))
        ELSE demux' = "failed" /\ UNCHANGED <<mNextReadPos, mPTSPopulator>>
  BY DEF setDataSource
<1>3. CASE UNCHANGED <<mNextReadPos, mPTSPopulator>>
  BY <1>1, <1>3, SameDistrust
<1>4. CASE mNextReadPos' = 1 /\ mPTSPopulator' = NewPopulator(TrackCount(file))
  <2>1. ASSUME NEW k \in Kinds, NEW i \in 1..Len(mPacketQueue'[k])
        PROVE  mPacketQueue'[k][i] < 1
    <3>1. mPacketQueue[k] \in Seq(1..Len(file.packets)) /\ i \in 1..Len(mPacketQueue[k])
      BY <1>1 DEF IInv, TypeOK
    <3>2. mPacketQueue[k][i] < 0
      BY <1>1, <3>1 DEF Ordered
    <3> QED
      BY <1>1, <3>1, <3>2
  <2>2. Ordered'
    BY <1>1, <1>4, <2>1 DEF Ordered
  <2>3. Distrust'
    BY <1>1, <1>4, NewDistrusts, ForgottenDistrust
  <2> QED
    BY <2>2, <2>3
<1> QED
  BY <1>2, <1>3, <1>4

\* A seek, which forgets what was remembered.
LEMMA SeekDistrusts ==
  ASSUME IInv, Ordered, Distrust, SeekFails \/ \E p \in 1..Len(file.packets) : seekTo(p)
  PROVE  Ordered' /\ Distrust'
<1>1. PICK n : mPTSPopulator \in Populators(n)
  BY PopulatorIs DEF IInv
<1>2. /\ mPTSPopulator' = reset(mPTSPopulator) /\ UNCHANGED <<file, mPacketQueue>>
      /\ calling' = "seekTo" \/ (calling' # "seekTo" /\ calling # "seekTo"
                                 /\ UNCHANGED mNextReadPos)
  BY DEF SeekFails, seekTo, Answer, ioVars
<1>3. /\ mPTSPopulator'.mIsPTSReliable = mPTSPopulator.mIsPTSReliable
      /\ \A s \in DOMAIN mPTSPopulator'.mLastPTS :
           mPTSPopulator'.mLastPTS[s] = kUnknownPTS
  BY <1>1, <1>2 DEF reset, Populators
<1>4. Ordered'
  BY <1>2 DEF Ordered
<1>5. Distrust'
  BY <1>2, <1>3, ForgottenDistrust
<1> QED
  BY <1>4, <1>5

\* A packet that is queued comes after all that were read.
LEMMA LoopDistrusts ==
  ASSUME IInv, Ordered, Distrust, ReadsOn
  PROVE  Ordered' /\ Distrust'
<1>1. /\ file \in Files /\ Len(file.packets) \in Nat
      /\ mPacketQueue \in [Kinds -> Seq(1..Len(file.packets))] /\ mNextReadPos \in Nat
  BY FileFacts DEF IInv, TypeOK
<1>2. /\ UNCHANGED <<file, mPTSPopulator>>
      /\ calling = "seekTo" <=> calling' = "seekTo"
      /\ mNextReadPos' \in {mNextReadPos, mNextReadPos + 1}
  BY DEF ReadsOn, IInv, Seeking, Queues, Passes, Stops
<1>3. CASE UNCHANGED mPacketQueue
  <2>1. Ordered'
    <3>1. \A k \in Kinds : \A i \in 1..Len(mPacketQueue[k]) : mPacketQueue[k][i] \in Nat
      BY <1>1
    <3> QED
      BY <1>1, <1>2, <1>3, <3>1 DEF Ordered
  <2>2. ASSUME NEW s \in DOMAIN mPTSPopulator'.mLastPTS PROVE Remembered(s)'
    BY <1>1, <1>2, <1>3 DEF Distrust, Remembered, Before
  <2>3. DistrustedOnlyIfRepeated'
    BY <1>2 DEF Distrust, DistrustedOnlyIfRepeated
  <2> QED
    BY <2>1, <2>2, <2>3 DEF Distrust
<1>4. CASE Queues
  <2> DEFINE j == FirstOf(Wanting(mNextReadPos))
             p == mNextReadPos
  <2>1. /\ j \in Kinds /\ p \in 1..Len(file.packets) /\ mNextReadPos' = p + 1
        /\ file.best[j] = file.packets[p].stream
        /\ mPacketQueue' = [mPacketQueue EXCEPT ![j] = Append(@, p)]
    BY <1>4, WantedByOne DEF IInv, Queues, Queue
  <2> HIDE DEF j
  <2>2. ASSUME NEW k \in Kinds, NEW i \in 1..Len(mPacketQueue'[k])
        PROVE  \/ i \in 1..Len(mPacketQueue[k]) /\ mPacketQueue'[k][i] = mPacketQueue[k][i]
               \/ k = j /\ i = Len(mPacketQueue[k]) + 1 /\ mPacketQueue'[k][i] = p
    <3>1. mPacketQueue[k] \in Seq(1..Len(file.packets))
      BY <1>1
    <3>2. CASE k = j
      <4>1. mPacketQueue'[k] = Append(mPacketQueue[k], p)
        BY <1>1, <2>1, <3>2
      <4> QED
        BY <2>1, <3>1, <3>2, <4>1
    <3>3. CASE k # j
      BY <1>1, <2>1, <3>3
    <3> QED
      BY <3>2, <3>3
  <2>3. Ordered'
    <3>1. ASSUME NEW k \in Kinds, NEW i \in 1..Len(mPacketQueue'[k])
          PROVE  file'.packets[mPacketQueue'[k][i]].stream = file'.best[k]
      BY <1>2, <2>1, <2>2 DEF Ordered
    <3>2. ASSUME calling' # "seekTo", NEW k \in Kinds, NEW i \in 1..Len(mPacketQueue'[k])
          PROVE  mPacketQueue'[k][i] < mNextReadPos'
      <4>1. i \in 1..Len(mPacketQueue[k]) => mPacketQueue[k][i] \in Nat
        BY <1>1
      <4> QED
        BY <1>1, <1>2, <2>1, <2>2, <3>2, <4>1 DEF Ordered
    <3>3. ASSUME calling' # "seekTo", NEW k \in Kinds,
                 NEW i \in 1..Len(mPacketQueue'[k]), NEW l \in 1..Len(mPacketQueue'[k]),
                 i < l
          PROVE  mPacketQueue'[k][i] < mPacketQueue'[k][l]
      <4>1. Len(mPacketQueue[k]) \in Nat
        BY <1>1
      <4>2. i \in 1..Len(mPacketQueue[k]) /\ mPacketQueue'[k][i] = mPacketQueue[k][i]
        <5>1. ASSUME i = Len(mPacketQueue[k]) + 1 PROVE FALSE
          BY <2>2, <3>3, <4>1, <5>1
        <5> QED
          BY <2>2, <5>1
      <4>3. mPacketQueue[k][i] < p
        BY <1>2, <3>3, <4>2 DEF Ordered
      <4> QED
        BY <1>2, <2>2, <3>3, <4>2, <4>3 DEF Ordered
    <3> QED
      BY <3>1, <3>2, <3>3 DEF Ordered
  <2>4. ASSUME NEW s \in DOMAIN mPTSPopulator'.mLastPTS PROVE Remembered(s)'
    <3>1. SUFFICES ASSUME mPTSPopulator.mLastPTS[s] # kUnknownPTS PROVE Remembered(s)'
      BY <1>2 DEF Remembered
    <3>2. PICK q \in 1..Len(file.packets) :
            /\ file.packets[q].stream = s /\ file.packets[q].pts = mPTSPopulator.mLastPTS[s]
            /\ q < mNextReadPos /\ Before(q, s)
      BY <1>2, <3>1 DEF Distrust, Remembered
    <3>3. Before(q, s)'
      BY <1>2, <2>2, <3>2 DEF Before
    <3>4. q < mNextReadPos' /\ calling # "seekTo"
      BY <1>1, <1>2, <2>1, <3>1, <3>2 DEF Distrust, Remembered
    <3> QED
      BY <1>2, <3>2, <3>3, <3>4 DEF Remembered
  <2>5. DistrustedOnlyIfRepeated'
    BY <1>2 DEF Distrust, DistrustedOnlyIfRepeated
  <2> QED
    BY <2>3, <2>4, <2>5 DEF Distrust
<1> QED
  BY <1>3, <1>4 DEF ReadsOn, Passes, Stops

\* A packet is taken: it comes after the one remembered of its stream.
LEMMA TakenDistrusts ==
  ASSUME IInv, Ordered, Distrust, NEW k \in Kinds, Takes(k)
  PROVE  Ordered' /\ Distrust'
<1> DEFINE q == mPacketQueue[k]
<1>1. /\ file \in Files /\ Len(file.packets) \in Nat
      /\ mPacketQueue \in [Kinds -> Seq(1..Len(file.packets))] /\ mNextReadPos \in Nat
      /\ DOMAIN file.packets = 1..Len(file.packets)
  BY FileFacts DEF IInv, TypeOK
<1>0. q # <<>> /\ q \in Seq(1..Len(file.packets))
  BY <1>1 DEF Takes
<1> PICK p \in 1..Len(file.packets) : p = Head(q)
  BY <1>0
<1> PICK packet : packet = file.packets[p]
  OBVIOUS
<1> PICK s : s = packet.stream
  OBVIOUS
<1>2. /\ q # <<>> /\ calling = "none" /\ calling' = "none"
      /\ UNCHANGED <<file, mNextReadPos>> /\ Timed(packet)
      /\ mPacketQueue' = [mPacketQueue EXCEPT ![k] = Tail(q)]
  BY DEF Takes, ioVars
<1>3. q \in Seq(1..Len(file.packets)) /\ 1 \in 1..Len(q) /\ p = q[1]
  BY <1>1, <1>2
<1>4. p \in 1..Len(file.packets) /\ packet = file.packets[p] /\ s = packet.stream
  OBVIOUS
<1>5. /\ packet.stream \in Nat /\ packet.pts \in Int
      /\ file.best[k] = s
  BY <1>1, <1>3, <1>4, PacketFacts DEF Ordered
<1>6. /\ mPacketQueue'[k] = Tail(q) /\ Len(mPacketQueue'[k]) = Len(q) - 1
      /\ \A i \in 1..Len(mPacketQueue'[k]) :
           i + 1 \in 1..Len(q) /\ mPacketQueue'[k][i] = q[i + 1]
  BY <1>1, <1>2, <1>3
<1>7. \A j \in Kinds : j # k => mPacketQueue'[j] = mPacketQueue[j]
  BY <1>1, <1>2
<1>8. PICK n : mPTSPopulator \in Populators(n)
  BY PopulatorIs DEF IInv
<1> HIDE DEF q
<1>9. ASSUME NEW i \in 1..Len(mPacketQueue'[k]) PROVE p < mPacketQueue'[k][i]
  <2>1. i + 1 \in 1..Len(q) /\ mPacketQueue'[k][i] = q[i + 1] /\ 1 < i + 1
    BY <1>6
  <2> QED
    BY <1>2, <1>3, <2>1 DEF Ordered, q
<1>10. Ordered'
  <2>1. ASSUME NEW j \in Kinds, NEW i \in 1..Len(mPacketQueue'[j])
        PROVE  /\ file'.packets[mPacketQueue'[j][i]].stream = file'.best[j]
               /\ mPacketQueue'[j][i] < mNextReadPos'
    <3>1. CASE j = k
      BY <1>2, <1>6, <3>1 DEF Ordered, q
    <3>2. CASE j # k
      BY <1>2, <1>7, <3>2 DEF Ordered
    <3> QED
      BY <3>1, <3>2
  <2>2. ASSUME NEW j \in Kinds, NEW i \in 1..Len(mPacketQueue'[j]),
               NEW l \in 1..Len(mPacketQueue'[j]), i < l
        PROVE  mPacketQueue'[j][i] < mPacketQueue'[j][l]
    <3>1. CASE j = k
      <4>1. /\ i + 1 \in 1..Len(q) /\ l + 1 \in 1..Len(q) /\ i + 1 < l + 1
            /\ mPacketQueue'[k][i] = q[i + 1] /\ mPacketQueue'[k][l] = q[l + 1]
        BY <1>6, <2>2, <3>1
      <4> QED
        BY <1>2, <3>1, <4>1, SMTT(30) DEF Ordered, q
    <3>2. CASE j # k
      BY <1>2, <1>7, <2>2, <3>2 DEF Ordered
    <3> QED
      BY <3>1, <3>2
  <2> QED
    BY <2>1, <2>2 DEF Ordered
\* What was remembered of any stream still comes before what is queued.
<1>11. ASSUME NEW o, NEW t, Before(o, t) PROVE Before(o, t)'
  <2>1. SUFFICES ASSUME NEW j \in Kinds, file.best[j] = t,
                        NEW i \in 1..Len(mPacketQueue'[j])
                 PROVE  o < mPacketQueue'[j][i]
    BY <1>2 DEF Before
  <2>2. CASE j = k
    BY <1>6, <1>11, <2>1, <2>2 DEF Before, q
  <2>3. CASE j # k
    BY <1>7, <1>11, <2>1, <2>3 DEF Before
  <2> QED
    BY <2>2, <2>3
<1>12. ASSUME NEW t \in DOMAIN mPTSPopulator.mLastPTS,
              t \in DOMAIN mPTSPopulator'.mLastPTS,
              mPTSPopulator'.mLastPTS[t] = mPTSPopulator.mLastPTS[t]
       PROVE  Remembered(t)'
  <2>1. SUFFICES ASSUME mPTSPopulator.mLastPTS[t] # kUnknownPTS PROVE Remembered(t)'
    BY <1>12 DEF Remembered
  <2>2. PICK o \in 1..Len(file.packets) :
          /\ file.packets[o].stream = t /\ file.packets[o].pts = mPTSPopulator.mLastPTS[t]
          /\ o < mNextReadPos /\ Before(o, t)
    BY <1>12, <2>1 DEF Distrust, Remembered
  <2> QED
    BY <1>2, <1>11, <1>12, <2>2 DEF Remembered
<1>13. Before(p, s)'
  <2>1. SUFFICES ASSUME NEW j \in Kinds, file.best[j] = s,
                        NEW i \in 1..Len(mPacketQueue'[j])
                 PROVE  p < mPacketQueue'[j][i]
    BY <1>2 DEF Before
  <2>2. j = k
    BY <1>1, <1>5, <2>1, OneKind
  <2> QED
    BY <1>9, <2>1, <2>2
<1>14. CASE s \notin DOMAIN mPTSPopulator.mLastPTS
  <2>1. mPTSPopulator' = mPTSPopulator
    BY <1>2, <1>14 DEF Timed
  <2>2. \A t \in DOMAIN mPTSPopulator'.mLastPTS : Remembered(t)'
    BY <1>12, <2>1
  <2>3. DistrustedOnlyIfRepeated'
    BY <1>2, <2>1 DEF Distrust, DistrustedOnlyIfRepeated
  <2> QED
    BY <1>10, <2>2, <2>3 DEF Distrust
<1>15. CASE s \in DOMAIN mPTSPopulator.mLastPTS
  <2> DEFINE P == mPTSPopulator
  <2>1. mPTSPopulator' = Computed(P, s, packet.pts)
    BY <1>2, <1>15 DEF Timed
  <2>2. /\ DOMAIN P.mLastPTS = 0..n - 1 /\ DOMAIN P.mIsPTSReliable = 0..n - 1
        /\ P = [mIsPTSReliable |-> P.mIsPTSReliable, mLastPTS |-> P.mLastPTS]
    BY <1>8 DEF Populators
  <2>3. CASE Repeats(P, s, packet.pts)
    <3>1. /\ mPTSPopulator'.mIsPTSReliable = [P.mIsPTSReliable EXCEPT ![s] = FALSE]
          /\ mPTSPopulator'.mLastPTS = [P.mLastPTS EXCEPT ![s] = kUnknownPTS]
          /\ packet.pts # kUnknownPTS /\ P.mLastPTS[s] = packet.pts
      BY <2>1, <2>3 DEF Computed, Repeats
    <3>2. PICK o \in 1..Len(file.packets) :
            /\ file.packets[o].stream = s /\ file.packets[o].pts = packet.pts
            /\ Before(o, s)
      BY <1>15, <3>1 DEF Distrust, Remembered
    <3>3. o < p
      BY <1>3, <1>5, <3>2 DEF Before, q
    <3>4. ASSUME NEW t \in DOMAIN mPTSPopulator'.mLastPTS PROVE Remembered(t)'
      <4>1. CASE t = s
        <5>1. mPTSPopulator'.mLastPTS[t] = kUnknownPTS
          BY <1>15, <3>1, <4>1
        <5> QED
          BY <5>1 DEF Remembered
      <4>2. CASE t # s
        BY <1>12, <3>1, <3>4, <4>2
      <4> QED
        BY <4>1, <4>2
    <3>5. ASSUME NEW t \in DOMAIN mPTSPopulator'.mIsPTSReliable,
                 ~mPTSPopulator'.mIsPTSReliable[t]
          PROVE  \E a, b \in DOMAIN file'.packets :
                   /\ a < b
                   /\ file'.packets[a].stream = t /\ file'.packets[b].stream = t
                   /\ file'.packets[a].pts = file'.packets[b].pts
                   /\ file'.packets[a].pts # kUnknownPTS
      <4>1. CASE t = s
        <5>1. /\ o \in DOMAIN file.packets /\ p \in DOMAIN file.packets /\ o < p
              /\ file.packets[o].stream = t /\ file.packets[p].stream = t
              /\ file.packets[o].pts = file.packets[p].pts
              /\ file.packets[o].pts # kUnknownPTS
          BY <1>1, <1>4, <3>1, <3>2, <3>3, <4>1
        <5> QED
          BY <1>2, <5>1
      <4>2. CASE t # s
        <5>1. t \in DOMAIN P.mIsPTSReliable /\ ~P.mIsPTSReliable[t]
          BY <3>1, <3>5, <4>2
        <5> QED
          BY <1>2, <5>1 DEF Distrust, DistrustedOnlyIfRepeated
      <4> QED
        BY <4>1, <4>2
    <3> QED
      BY <1>10, <3>4, <3>5 DEF Distrust, DistrustedOnlyIfRepeated
  <2>4. CASE ~Repeats(P, s, packet.pts)
    <3>1. /\ mPTSPopulator'.mIsPTSReliable = P.mIsPTSReliable
          /\ mPTSPopulator'.mLastPTS \in {P.mLastPTS, [P.mLastPTS EXCEPT ![s] = packet.pts]}
      BY <2>1, <2>2, <2>4 DEF Computed
    <3>2. ASSUME NEW t \in DOMAIN mPTSPopulator'.mLastPTS PROVE Remembered(t)'
      <4>1. CASE mPTSPopulator'.mLastPTS[t] = P.mLastPTS[t]
        BY <1>12, <3>1, <3>2, <4>1
      <4>2. CASE mPTSPopulator'.mLastPTS[t] # P.mLastPTS[t]
        <5>1. t = s /\ mPTSPopulator'.mLastPTS[t] = packet.pts
          BY <3>1, <3>2, <4>2
        <5>2. /\ file.packets[p].stream = t /\ file.packets[p].pts = packet.pts
              /\ p < mNextReadPos
          BY <1>2, <1>3, <5>1 DEF Ordered, q
        <5> QED
          BY <1>2, <1>4, <1>13, <5>1, <5>2 DEF Remembered
      <4> QED
        BY <4>1, <4>2
    <3>3. DistrustedOnlyIfRepeated'
      BY <1>2, <3>1 DEF Distrust, DistrustedOnlyIfRepeated
    <3> QED
      BY <1>10, <3>2, <3>3 DEF Distrust
  <2> QED
    BY <2>3, <2>4
<1> QED
  BY <1>14, <1>15

LEMMA StepDistrusts ==
  IInv /\ Ordered /\ Distrust /\ [Next]_vars => Ordered' /\ Distrust'
<1> SUFFICES ASSUME IInv, Ordered, Distrust, [Next]_vars PROVE Ordered' /\ Distrust'
  OBVIOUS
<1>1. CASE setDataSource
  BY <1>1, OpenDistrusts
<1>2. CASE \/ advance \/ getSampleTrackIndex \/ getSampleTime \/ release
           \/ \E k \in Kinds : selectTrack(k) \/ unselectTrack(k)
  <2>1. /\ UNCHANGED <<file, mPacketQueue, mPTSPopulator, mNextReadPos>>
        /\ calling = "none" /\ calling' # "seekTo"
    BY <1>2 DEF advance, getSampleTrackIndex, getSampleTime, release, selectTrack,
                unselectTrack, Answer, ioVars, demuxVars
  <2> QED
    BY <2>1, SameDistrust
<1>3. CASE SeekFails \/ \E p \in 1..Len(file.packets) : seekTo(p)
  BY <1>3, SeekDistrusts
<1>4. CASE ReadFrame
  BY <1>4, TurnsOfTheLoop, LoopDistrusts
<1>5. CASE \E offset \in Offsets : readSampleData(offset)
  <2>1. TakesNothing \/ \E k \in Kinds : Takes(k) \/ TakesHeader(k)
    BY <1>5, WhatIsRead
  <2>2. CASE TakesNothing \/ \E k \in Kinds : TakesHeader(k)
    <3>1. UNCHANGED <<file, mPacketQueue, mPTSPopulator, mNextReadPos, calling>>
      BY <2>2 DEF TakesNothing, TakesHeader, ioVars
    <3> QED
      BY <3>1, SameDistrust
  <2> QED
    BY <2>1, <2>2, TakenDistrusts
<1>6. CASE UNCHANGED vars
  BY <1>6, SameDistrust DEF vars, ioVars, demuxVars
<1> QED
  BY <1>1, <1>2, <1>3, <1>4, <1>5, <1>6 DEF Next

\* Time stamps are distrusted of a stream that repeats one, whatever seeks fail,
\* tracks change and reads end early (PTSPopulator::computePTS, reset).
THEOREM DistrustIsJustified == Spec => []DistrustedOnlyIfRepeated
<1>1. Init => DInv
  BY InitTyped, InitDistrusts DEF DInv
<1>2. DInv /\ [Next]_vars => DInv'
  BY StepTyped, StepDistrusts DEF DInv
<1>3. DInv => DistrustedOnlyIfRepeated
  BY DEF DInv, Distrust
<1> QED
  BY <1>1, <1>2, <1>3, PTL DEF Spec
-----------------------------------------------------------------------------
\* Bytes of a buffer are numbers.
LEMMA ByteIsNumber ==
  ASSUME NEW p \in Seq(Bytes), NEW i \in 1..Len(p)
  PROVE  p[i] \in Nat
<1>1. \A x \in Bytes : x \in Nat
  BY DEF Bytes
<1>2. p[i] \in Bytes
  OBVIOUS
<1> QED
  BY <1>1, <1>2

\* What a number in n bytes is, byte by byte.
Counts(f, p, q, n) == /\ f \in [0..n -> Nat]
                      /\ f[0] = 0
                      /\ \A i \in 1..n : f[i] = 256 * f[i - 1] + p[q + i]

\* The recursion of NumberAt reaches its value step by step.
LEMMA NumberSteps ==
  ASSUME NEW p \in Seq(Bytes), NEW n \in Nat, NEW q \in Nat, q + n <= Len(p)
  PROVE  \E f : Counts(f, p, q, n) /\ NumberAt(p, q, n) = f[n]
<1> DEFINE g == [i \in 1..n |-> [s \in Nat |-> 256 * s + p[q + i]]]
           Is(f) == f = [i \in 0..n |-> IF i = 0 THEN 0 ELSE 256 * f[i - 1] + p[q + i]]
<1>1. ASSUME NEW i \in 1..n PROVE p[q + i] \in Nat
  <2>1. q + i \in 1..Len(p)
    OBVIOUS
  <2> QED
    BY <2>1, ByteIsNumber
<1>2. g \in [1..n -> [Nat -> Nat]]
  <2>1. ASSUME NEW i \in 1..n, NEW s \in Nat PROVE 256 * s + p[q + i] \in Nat
    <3>1. p[q + i] \in Nat
      BY <1>1
    <3> QED
      BY <3>1
  <2> QED
    BY <2>1
<1> HIDE DEF g
<1>3. PICK f \in [0..n -> Nat] : f[0] = 0 /\ \A i \in 1..n : f[i] = g[i][f[i - 1]]
  <2>1. 0 \in Nat
    OBVIOUS
  <2>2. PICK f : Upwards(f, n, Nat, 0, g)
    BY <1>2, <2>1, UpwardsExists
  <2> QED
    BY <2>2 DEF Upwards
<1>4. Is(f)
  <2>1. ASSUME NEW i \in 0..n, i # 0 PROVE f[i] = 256 * f[i - 1] + p[q + i]
    <3>1. i \in 1..n /\ i - 1 \in 0..n
      BY <2>1
    <3> QED
      BY <1>3, <3>1 DEF g
  <2> QED
    BY <1>3, <2>1
<1> DEFINE u == CHOOSE u : Is(u)
<1>10. \A i \in 1..n : f[i] = 256 * f[i - 1] + p[q + i]
  <2>1. ASSUME NEW i \in 1..n PROVE f[i] = 256 * f[i - 1] + p[q + i]
    <3>1. i - 1 \in 0..n /\ f[i - 1] \in Nat
      <4>1. i - 1 \in 0..n
        OBVIOUS
      <4> QED
        BY <4>1
    <3> QED
      BY <1>3, <3>1 DEF g
  <2> QED
    BY <2>1
<1>5. Is(u)
  BY <1>4, ZenonT(60)
<1>6. NumberAt(p, q, n) = u[n]
  BY DEF NumberAt
<1> HIDE DEF u
<1>7. /\ u[0] = 0
      /\ \A i \in 1..n : u[i] = 256 * u[i - 1] + p[q + i]
  <2>1. \A i \in 0..n : u[i] = IF i = 0 THEN 0 ELSE 256 * u[i - 1] + p[q + i]
    BY <1>5
  <2> QED
    BY <2>1
<1>8. \A i \in 0..n : u[i] = f[i]
  <2> DEFINE Bad == {i \in 0..n : u[i] # f[i]}
  <2>1. SUFFICES ASSUME Bad # {} PROVE FALSE
    OBVIOUS
  <2>2. PICK i \in Bad : \A k \in Bad : i <= k
    <3>1. Bad \in SUBSET Nat
      OBVIOUS
    <3> HIDE DEF Bad
    <3> QED
      BY <2>1, <3>1, SmallestNumber
  <2>3. i # 0
    BY <1>3, <1>7, <2>2
  <2>4. i \in 1..n /\ i - 1 \in 0..n /\ u[i - 1] = f[i - 1]
    BY <2>2, <2>3
  <2>5. f[i] = 256 * f[i - 1] + p[q + i]
    BY <1>10, <2>4
  <2> QED
    BY <1>7, <2>2, <2>4, <2>5, SMTT(30)
<1>9. NumberAt(p, q, n) = f[n]
  BY <1>6, <1>8
<1> QED
  BY <1>3, <1>9, <1>10 DEF Counts

\* What a number in two, three or four bytes is.
LEMMA NumberIs ==
  ASSUME NEW p \in Seq(Bytes), NEW n \in 2..4, NEW q \in Nat, q + n <= Len(p)
  PROVE  /\ \A i \in 1..n : p[q + i] \in Nat
         /\ NumberAt(p, q, n) \in Nat
         /\ n = 2 => NumberAt(p, q, n) = 256 * p[q + 1] + p[q + 2]
         /\ n = 3 => NumberAt(p, q, n) = 256 * (256 * p[q + 1] + p[q + 2]) + p[q + 3]
         /\ n = 4 => NumberAt(p, q, n)
                       = 256 * (256 * (256 * p[q + 1] + p[q + 2]) + p[q + 3]) + p[q + 4]
<1>1. ASSUME NEW i \in 1..n PROVE p[q + i] \in Nat
  <2>1. q + i \in 1..Len(p)
    OBVIOUS
  <2> QED
    BY <2>1, ByteIsNumber
<1>2. n \in Nat
  OBVIOUS
<1>3. PICK f : Counts(f, p, q, n) /\ NumberAt(p, q, n) = f[n]
  BY <1>2, NumberSteps
<1>4. f[1] = p[q + 1] /\ f[2] = 256 * p[q + 1] + p[q + 2]
  <2>1. 1 \in 1..n /\ 2 \in 1..n /\ 1 - 1 = 0 /\ 2 - 1 = 1
    OBVIOUS
  <2>2. f[1] = 256 * f[1 - 1] + p[q + 1] /\ f[2] = 256 * f[2 - 1] + p[q + 2] /\ f[0] = 0
    BY <1>3, <2>1 DEF Counts
  <2> QED
    <3>1. p[q + 1] \in Nat /\ p[q + 2] \in Nat
      BY <1>1, <2>1
    <3> QED
      BY <2>2, <3>1
<1>5. n >= 3 => f[3] = 256 * f[2] + p[q + 3]
  <2>1. n >= 3 => 3 \in 1..n /\ 3 - 1 = 2
    OBVIOUS
  <2>2. n >= 3 => f[3] = 256 * f[3 - 1] + p[q + 3]
    BY <1>3, <2>1 DEF Counts
  <2> QED
    BY <2>2
<1>6. n = 4 => f[4] = 256 * f[3] + p[q + 4]
  <2>1. n = 4 => 4 \in 1..n /\ 4 - 1 = 3
    OBVIOUS
  <2>2. n = 4 => f[4] = 256 * f[4 - 1] + p[q + 4]
    BY <1>3, <2>1 DEF Counts
  <2> QED
    BY <2>2
<1>7. NumberAt(p, q, n) \in Nat /\ NumberAt(p, q, n) = f[n]
  BY <1>2, <1>3 DEF Counts
<1> QED
  BY <1>1, <1>4, <1>5, <1>6, <1>7
-----------------------------------------------------------------------------
\* A package is cut into units: where they begin, from position q to the end of p.
After(p, n, q) == q + n + NumberAt(p, q, n)
BeginsUnit(p, n, q) == q + n < Len(p) /\ (n = 4 => p[q + 1] = 0)
Cuts(p, n, q, b) ==
  /\ b \in Seq(0..Len(p))
  /\ Len(b) >= 2 /\ b[1] = q /\ b[Len(b)] = Len(p)
  /\ \A i \in 1..(Len(b) - 1) : BeginsUnit(p, n, b[i]) /\ b[i + 1] = After(p, n, b[i])

\* A unit ends behind where it begins.
LEMMA AfterIsNumber ==
  ASSUME NEW p \in Seq(Bytes), NEW n \in 2..4, NEW q \in Nat, q + n <= Len(p)
  PROVE  After(p, n, q) \in Nat /\ After(p, n, q) >= q + n
<1>1. NumberAt(p, q, n) \in Nat
  BY NumberIs
<1> QED
  BY <1>1 DEF After

\* A unit before what is cut.
LEMMA CutBefore ==
  ASSUME NEW p, NEW n \in 2..4, NEW q \in 0..Len(p), BeginsUnit(p, n, q),
         NEW b, Cuts(p, n, After(p, n, q), b)
  PROVE  Cuts(p, n, q, <<q>> \o b)
<1> DEFINE c == <<q>> \o b
<1>1. b \in Seq(0..Len(p)) /\ <<q>> \in Seq(0..Len(p)) /\ Len(<<q>>) = 1 /\ Len(b) \in Nat
  BY DEF Cuts
<1>2. c \in Seq(0..Len(p)) /\ Len(c) = Len(b) + 1 /\ c[1] = q
  BY <1>1
<1>3. ASSUME NEW i \in 1..Len(b) PROVE c[i + 1] = b[i]
  BY <1>1
<1> HIDE DEF c
<1>4. Len(c) >= 2 /\ c[Len(c)] = Len(p)
  <2>1. Len(b) >= 2 /\ b[Len(b)] = Len(p)
    BY DEF Cuts
  <2>2. Len(b) \in 1..Len(b)
    BY <1>1, <2>1
  <2>3. c[Len(b) + 1] = b[Len(b)]
    BY <1>3, <2>2
  <2> QED
    BY <1>1, <1>2, <2>1, <2>3
<1>5. ASSUME NEW i \in 1..(Len(c) - 1)
      PROVE  BeginsUnit(p, n, c[i]) /\ c[i + 1] = After(p, n, c[i])
  <2>1. CASE i = 1
    <3>1. c[i] = q /\ c[i + 1] = b[1] /\ b[1] = After(p, n, q)
      BY <1>1, <1>2, <1>3, <2>1, SMTT(30) DEF Cuts
    <3> QED
      BY <3>1
  <2>2. CASE i # 1
    <3> DEFINE j == i - 1
    <3>1. j \in 1..(Len(b) - 1) /\ j + 1 = i /\ i \in 1..Len(b)
      BY <1>1, <1>2, <2>2
    <3>2. c[i] = b[j] /\ c[i + 1] = b[j + 1]
      BY <1>3, <3>1
    <3>3. BeginsUnit(p, n, b[j]) /\ b[j + 1] = After(p, n, b[j])
      BY <3>1 DEF Cuts
    <3> QED
      BY <3>2, <3>3
  <2> QED
    BY <2>1, <2>2
<1> QED
  BY <1>2, <1>4, <1>5 DEF Cuts, c

\* The last unit of what is cut.
LEMMA LastCut ==
  ASSUME NEW p, NEW n \in 2..4, NEW q \in 0..Len(p), BeginsUnit(p, n, q), Len(p) \in Nat,
         After(p, n, q) = Len(p)
  PROVE  Cuts(p, n, q, <<q, Len(p)>>)
<1> DEFINE b == <<q, Len(p)>>
<1>1. b \in Seq(0..Len(p)) /\ Len(b) = 2 /\ b[1] = q /\ b[2] = Len(p)
  OBVIOUS
<1> HIDE DEF b
<1>2. ASSUME NEW i \in 1..(Len(b) - 1) PROVE i = 1 /\ i + 1 = 2
  BY <1>1
<1> QED
  BY <1>1, <1>2 DEF Cuts, b

\* The first unit of what is cut, and the rest.
LEMMA CutAfter ==
  ASSUME NEW p, Len(p) \in Nat, NEW n \in 2..4, NEW q, NEW b, Cuts(p, n, q, b)
  PROVE  /\ BeginsUnit(p, n, q) /\ b[2] = After(p, n, q) /\ After(p, n, q) \in 0..Len(p)
         /\ \/ Len(b) = 2 /\ After(p, n, q) = Len(p)
            \/ After(p, n, q) < Len(p) /\ Cuts(p, n, After(p, n, q), Tail(b))
<1>1. b \in Seq(0..Len(p)) /\ Len(b) \in Nat /\ Len(b) >= 2
  BY DEF Cuts
<1>2. 1 \in 1..(Len(b) - 1) /\ 1 + 1 = 2 /\ 2 \in 1..Len(b)
  BY <1>1
<1>3. BeginsUnit(p, n, b[1]) /\ b[1 + 1] = After(p, n, b[1])
  BY <1>2 DEF Cuts
<1>4. BeginsUnit(p, n, q) /\ b[2] = After(p, n, q) /\ b[2] \in 0..Len(p)
  BY <1>1, <1>2, <1>3 DEF Cuts
<1>5. CASE Len(b) = 2
  BY <1>4, <1>5 DEF Cuts
<1>6. CASE Len(b) # 2
  <2> DEFINE c == Tail(b)
  <2>1. c \in Seq(0..Len(p)) /\ Len(c) = Len(b) - 1 /\ Len(c) >= 2
    <3>1. b # <<>>
      BY <1>1
    <3>2. c \in Seq(0..Len(p)) /\ Len(c) = Len(b) - 1
      BY <1>1, <3>1, HeadTailProperties
    <3> QED
      BY <1>1, <1>6, <3>2
  <2>2. ASSUME NEW i \in 1..Len(c) PROVE c[i] = b[i + 1]
    BY <1>1, <2>1
  <2> HIDE DEF c
  <2>3. c[1] = After(p, n, q) /\ c[Len(c)] = Len(p)
    <3>1. 1 \in 1..Len(c) /\ Len(c) \in 1..Len(c) /\ Len(c) + 1 = Len(b)
      BY <1>1, <2>1
    <3>2. c[1] = b[1 + 1] /\ c[Len(c)] = b[Len(c) + 1]
      BY <2>2, <3>1
    <3> QED
      BY <1>4, <3>1, <3>2 DEF Cuts
  <2>4. ASSUME NEW i \in 1..(Len(c) - 1)
        PROVE  BeginsUnit(p, n, c[i]) /\ c[i + 1] = After(p, n, c[i])
    <3>1. i \in 1..Len(c) /\ i + 1 \in 1..Len(c) /\ i + 1 \in 1..(Len(b) - 1)
      BY <1>1, <2>1
    <3>2. c[i] = b[i + 1] /\ c[i + 1] = b[i + 1 + 1]
      BY <2>2, <3>1
    <3>3. BeginsUnit(p, n, b[i + 1]) /\ b[i + 1 + 1] = After(p, n, b[i + 1])
      BY <3>1 DEF Cuts
    <3> QED
      BY <3>2, <3>3
  <2>5. Cuts(p, n, After(p, n, q), c)
    BY <2>1, <2>3, <2>4 DEF Cuts
  <2>6. After(p, n, q) < Len(p)
    <3>1. 1 \in 1..(Len(c) - 1)
      BY <1>1, <2>1
    <3>2. BeginsUnit(p, n, c[1])
      BY <2>4, <3>1
    <3> QED
      BY <1>4, <2>3, <3>2 DEF BeginsUnit
  <2> QED
    BY <1>4, <2>5, <2>6 DEF c
<1> QED
  BY <1>5, <1>6
-----------------------------------------------------------------------------
\* What check_size_in_buffer looks for.
LEMMA CheckStep ==
  ASSUME NEW p \in Seq(Bytes), NEW n \in 2..4, NEW q \in 0..Len(p)
  PROVE  (\E b : Cuts(p, n, q, b))
           <=> /\ BeginsUnit(p, n, q)
               /\ \/ After(p, n, q) = Len(p)
                  \/ After(p, n, q) < Len(p) /\ \E b : Cuts(p, n, After(p, n, q), b)
<1>0. Len(p) \in Nat
  OBVIOUS
<1>1. ASSUME NEW b, Cuts(p, n, q, b)
      PROVE  /\ BeginsUnit(p, n, q)
             /\ \/ After(p, n, q) = Len(p)
                \/ After(p, n, q) < Len(p) /\ \E c : Cuts(p, n, After(p, n, q), c)
  BY <1>0, <1>1, CutAfter
<1>2. ASSUME BeginsUnit(p, n, q), After(p, n, q) = Len(p)
      PROVE  \E b : Cuts(p, n, q, b)
  BY <1>0, <1>2, LastCut
<1>3. ASSUME BeginsUnit(p, n, q), NEW b, Cuts(p, n, After(p, n, q), b)
      PROVE  \E c : Cuts(p, n, q, c)
  BY <1>3, CutBefore
<1> QED
  BY <1>1, <1>2, <1>3

\* check_size_in_buffer says whether there are such units.
LEMMA CheckIs ==
  ASSUME NEW p \in Seq(Bytes), NEW n \in 2..4
  PROVE  check_size_in_buffer(p, n) <=> \E b : Cuts(p, n, 0, b)
<1> DEFINE Is(f) == f = [q \in 0..Len(p) |->
                           /\ q + n < Len(p)
                           /\ n = 4 => p[q + 1] = 0
                           /\ LET end == q + n + NumberAt(p, q, n)
                              IN  end = Len(p) \/ (end < Len(p) /\ f[end])]
           u == CHOOSE u : Is(u)
           w == [q \in 0..Len(p) |-> \E b : Cuts(p, n, q, b)]
<1>0. Len(p) \in Nat
  OBVIOUS
<1>1. Is(w)
  <2>1. ASSUME NEW q \in 0..Len(p), BeginsUnit(p, n, q), After(p, n, q) < Len(p)
        PROVE  w[After(p, n, q)] = \E b : Cuts(p, n, After(p, n, q), b)
    <3>1. After(p, n, q) \in 0..Len(p)
      BY <1>0, <2>1, AfterIsNumber DEF BeginsUnit
    <3> QED
      BY <3>1
  <2>2. ASSUME NEW q \in 0..Len(p)
        PROVE  (\E b : Cuts(p, n, q, b))
                 = (/\ q + n < Len(p)
                    /\ n = 4 => p[q + 1] = 0
                    /\ LET end == q + n + NumberAt(p, q, n)
                       IN  end = Len(p) \/ (end < Len(p) /\ w[end]))
    <3> HIDE DEF w
    <3> QED
      BY <2>1, CheckStep DEF BeginsUnit, After
  <2> QED
    BY <2>2
<1>2. Is(u)
  <2> HIDE DEF Is, w
  <2> QED
    BY <1>1
<1>3. check_size_in_buffer(p, n) = u[0]
  BY DEF check_size_in_buffer
<1> HIDE DEF u, w
<1>4. ASSUME NEW q \in 0..Len(p)
      PROVE  u[q] = (/\ BeginsUnit(p, n, q)
                     /\ \/ After(p, n, q) = Len(p)
                        \/ After(p, n, q) < Len(p) /\ u[After(p, n, q)])
  BY <1>2 DEF BeginsUnit, After
<1> HIDE DEF Is
<1> DEFINE Bad == {q \in 0..Len(p) : ~(u[q] <=> \E b : Cuts(p, n, q, b))}
<1>5. ASSUME Bad # {} PROVE FALSE
  <2>1. PICK q \in Bad : \A k \in Bad : k <= q
    <3>1. Bad \in SUBSET (0..Len(p))
      OBVIOUS
    <3> HIDE DEF Bad
    <3> QED
      BY <1>0, <1>5, <3>1, GreatestNumber
  <2>2. q \in 0..Len(p)
    BY <2>1
  <2>3. ASSUME BeginsUnit(p, n, q), After(p, n, q) < Len(p)
        PROVE  u[After(p, n, q)] <=> \E b : Cuts(p, n, After(p, n, q), b)
    <3>1. After(p, n, q) \in 0..Len(p) /\ After(p, n, q) > q
      BY <1>0, <2>2, <2>3, AfterIsNumber, SMTT(30) DEF BeginsUnit
    <3>2. After(p, n, q) \notin Bad
      <4> HIDE DEF Bad
      <4> QED
        BY <2>1, <2>2, <3>1
    <3> QED
      BY <3>1, <3>2
  <2> QED
    BY <1>4, <2>1, <2>2, <2>3, CheckStep
<1>6. 0 \in 0..Len(p)
  BY <1>0
<1> QED
  BY <1>3, <1>5, <1>6
-----------------------------------------------------------------------------
\* The units there are between the cuts of a package.
Between(p, n, b) == [i \in 1..(Len(b) - 1) |-> SubSeq(p, b[i] + n + 1, b[i + 1])]

\* A part of a buffer is a buffer, as long as the part.
LEMMA UnitTyped ==
  ASSUME NEW p \in Seq(Bytes), NEW i \in Nat, NEW e \in 0..Len(p), i + 1 <= e + 1
  PROVE  SubSeq(p, i + 1, e) \in Seq(Bytes) /\ Len(SubSeq(p, i + 1, e)) = e - i
<1> DEFINE s == SubSeq(p, i + 1, e)
<1>1. s = [k \in 1..(e - i) |-> p[i + k]]
  OBVIOUS
<1>2. ASSUME NEW k \in 1..(e - i) PROVE p[i + k] \in Bytes
  <2>1. i + k \in 1..Len(p)
    OBVIOUS
  <2> QED
    BY <2>1
<1>3. e - i \in Nat
  OBVIOUS
<1> HIDE DEF s
<1> QED
  BY <1>1, <1>2, <1>3 DEF s

\* The recursion of Units, unit by unit.
LEMMA UnitsSteps ==
  ASSUME NEW p \in Seq(Bytes), NEW n \in 2..4
  PROVE  \E u : /\ Units(p, n) = u[0]
                /\ \A q \in 0..Len(p) :
                     u[q] = IF q + n >= Len(p) \/ After(p, n, q) > Len(p) THEN <<>>
                            ELSE <<SubSeq(p, q + n + 1, After(p, n, q))>>
                                   \o u[After(p, n, q)]
<1> DEFINE T == Seq(Seq(Bytes))
           D == [0..Len(p) -> T]
           Step(q, f) == IF q + n >= Len(p) \/ After(p, n, q) > Len(p) THEN <<>>
                         ELSE <<SubSeq(p, q + n + 1, After(p, n, q))>>
                                \o f[After(p, n, q)]
           g == [q \in 0..Len(p) |-> [f \in D |-> Step(q, f)]]
           Is(f) == f = [q \in 0..Len(p) |->
                           LET end == q + n + NumberAt(p, q, n)
                           IN  IF q + n >= Len(p) \/ end > Len(p) THEN <<>>
                               ELSE <<SubSeq(p, q + n + 1, end)>> \o f[end]]
<1>0. Len(p) \in Nat
  OBVIOUS
<1>1. ASSUME NEW q \in 0..Len(p), ~(q + n >= Len(p)), ~(After(p, n, q) > Len(p))
      PROVE  /\ After(p, n, q) \in (q + 1)..Len(p)
             /\ SubSeq(p, q + n + 1, After(p, n, q)) \in Seq(Bytes)
  <2>1. After(p, n, q) \in Nat /\ After(p, n, q) >= q + n
    BY <1>0, <1>1, AfterIsNumber
  <2>2. After(p, n, q) \in (q + 1)..Len(p) /\ After(p, n, q) \in 0..Len(p)
    BY <1>0, <1>1, <2>1
  <2>3. q + n \in Nat /\ q + n + 1 <= After(p, n, q) + 1
    BY <1>0, <2>1
  <2> QED
    BY <2>2, <2>3, UnitTyped
<1>2. ASSUME NEW q \in 0..Len(p), NEW f \in D PROVE Step(q, f) \in T
  <2>1. CASE q + n >= Len(p) \/ After(p, n, q) > Len(p)
    BY <2>1
  <2>2. CASE ~(q + n >= Len(p)) /\ ~(After(p, n, q) > Len(p))
    <3>1. After(p, n, q) \in 0..Len(p)
      BY <1>0, <1>1, <2>2
    <3>2. f[After(p, n, q)] \in T
      BY <3>1
    <3>3. SubSeq(p, q + n + 1, After(p, n, q)) \in Seq(Bytes)
      BY <1>1, <2>2
    <3> QED
      BY <2>2, <3>2, <3>3
  <2> QED
    BY <2>1, <2>2
<1>3. g \in [0..Len(p) -> [D -> T]]
  BY <1>2
<1>4. ASSUME NEW q \in 0..Len(p), NEW e \in D, NEW f \in D,
             \A r \in (q + 1)..Len(p) : e[r] = f[r]
      PROVE  g[q][e] = g[q][f]
  <2>1. Step(q, e) = Step(q, f)
    BY <1>1, <1>4
  <2> QED
    BY <2>1
<1>5. <<>> \in T
  OBVIOUS
<1>6. \E f : Downwards(f, Len(p), T, g)
  <2>1. \A q \in 0..Len(p) : \A e, f \in [0..Len(p) -> T] :
          (\A r \in (q + 1)..Len(p) : e[r] = f[r]) => g[q][e] = g[q][f]
    <3> HIDE DEF g, T, Step
    <3> QED
      BY <1>4
  <2> HIDE DEF g, T, Step
  <2> QED
    BY <1>0, <1>3, <1>5, <2>1, DownwardsExists
<1>7. PICK f : f \in D /\ \A q \in 0..Len(p) : f[q] = Step(q, f)
  <2>1. PICK f : f \in D /\ \A q \in 0..Len(p) : f[q] = g[q][f]
    <3> HIDE DEF g, T
    <3> QED
      BY <1>6 DEF Downwards
  <2>2. ASSUME NEW q \in 0..Len(p) PROVE f[q] = Step(q, f)
    <3>1. g[q][f] = Step(q, f)
      BY <2>1
    <3> HIDE DEF g, Step
    <3> QED
      BY <2>1, <3>1
  <2> QED
    BY <2>1, <2>2
<1>8. Is(f)
  BY <1>7 DEF After
<1> DEFINE u == CHOOSE u : Is(u)
<1>9. Is(u)
  <2> HIDE DEF Is
  <2> QED
    BY <1>8
<1>10. Units(p, n) = u[0]
  BY DEF Units
<1> HIDE DEF u
<1> QED
  BY <1>9, <1>10 DEF After

\* The units between the cuts of a package, and how long they are.
LEMMA CutTyped ==
  ASSUME NEW p \in Seq(Bytes), NEW n \in 2..4, NEW q, NEW b, Cuts(p, n, q, b)
  PROVE  /\ Between(p, n, b) \in Seq(Seq(Bytes))
         /\ Len(Between(p, n, b)) = Len(b) - 1 /\ Len(b) - 1 \in Nat
         /\ \A i \in 1..(Len(b) - 1) :
              /\ b[i] \in Nat /\ b[i + 1] \in Nat
              /\ Between(p, n, b)[i] \in Seq(Bytes)
              /\ Len(Between(p, n, b)[i]) = b[i + 1] - b[i] - n
<1>1. b \in Seq(0..Len(p)) /\ Len(b) \in Nat /\ Len(b) >= 2 /\ Len(p) \in Nat
  BY DEF Cuts
<1>2. ASSUME NEW i \in 1..(Len(b) - 1)
      PROVE  /\ b[i] \in Nat /\ b[i + 1] \in Nat
             /\ SubSeq(p, b[i] + n + 1, b[i + 1]) \in Seq(Bytes)
             /\ Len(SubSeq(p, b[i] + n + 1, b[i + 1])) = b[i + 1] - b[i] - n
  <2>1. i \in 1..Len(b) /\ i + 1 \in 1..Len(b)
    BY <1>1
  <2>2. b[i] \in 0..Len(p) /\ b[i + 1] \in 0..Len(p)
    BY <1>1, <2>1
  <2>3. b[i] + n < Len(p) /\ b[i + 1] = After(p, n, b[i])
    BY DEF Cuts, BeginsUnit
  <2>4. b[i + 1] >= b[i] + n
    <3>1. b[i] \in Nat /\ b[i] + n <= Len(p)
      BY <1>1, <2>2, <2>3
    <3> QED
      BY <2>3, <3>1, AfterIsNumber
  <2>5. b[i] + n \in Nat /\ b[i] + n + 1 <= b[i + 1] + 1
    BY <2>2, <2>4
  <2>6. /\ SubSeq(p, b[i] + n + 1, b[i + 1]) \in Seq(Bytes)
        /\ Len(SubSeq(p, b[i] + n + 1, b[i + 1])) = b[i + 1] - (b[i] + n)
    BY <2>2, <2>5, UnitTyped
  <2> QED
    BY <2>2, <2>6, SMTT(30)
<1>3. Len(b) - 1 \in Nat
  BY <1>1
<1>4. ASSUME NEW i \in 1..(Len(b) - 1)
      PROVE  Between(p, n, b)[i] = SubSeq(p, b[i] + n + 1, b[i + 1])
  BY DEF Between
<1>5. Between(p, n, b) \in [1..(Len(b) - 1) -> Seq(Bytes)]
  BY <1>2 DEF Between
<1>6. Between(p, n, b) \in Seq(Seq(Bytes)) /\ Len(Between(p, n, b)) = Len(b) - 1
  BY <1>3, <1>5
<1> QED
  BY <1>2, <1>3, <1>4, <1>6

\* The units of a package are those between its cuts.
LEMMA UnitsBetween ==
  ASSUME NEW p \in Seq(Bytes), NEW n \in 2..4, NEW b, Cuts(p, n, 0, b)
  PROVE  Units(p, n) = Between(p, n, b)
<1>0. Len(p) \in Nat
  OBVIOUS
<1>1. PICK u : /\ Units(p, n) = u[0]
               /\ \A q \in 0..Len(p) :
                    u[q] = IF q + n >= Len(p) \/ After(p, n, q) > Len(p) THEN <<>>
                           ELSE <<SubSeq(p, q + n + 1, After(p, n, q))>>
                                  \o u[After(p, n, q)]
  BY UnitsSteps
<1> DEFINE Bad == {q \in 0..Len(p) : \E c : Cuts(p, n, q, c) /\ u[q] # Between(p, n, c)}
<1>2. ASSUME Bad # {} PROVE FALSE
  <2>1. PICK q \in Bad : \A k \in Bad : k <= q
    <3>1. Bad \in SUBSET (0..Len(p))
      OBVIOUS
    <3> HIDE DEF Bad
    <3> QED
      BY <1>0, <1>2, <3>1, GreatestNumber
  <2>2. q \in 0..Len(p)
    BY <2>1
  <2>3. PICK c : Cuts(p, n, q, c) /\ u[q] # Between(p, n, c)
    BY <2>1
  <2>4. PICK e : e = After(p, n, q)
    OBVIOUS
  <2>5. PICK unit : unit = SubSeq(p, q + n + 1, e)
    OBVIOUS
  <2>6. \A k \in 0..Len(p) : k > q => \A d : Cuts(p, n, k, d) => u[k] = Between(p, n, d)
    <3> SUFFICES ASSUME NEW k \in 0..Len(p), k > q PROVE k \notin Bad
      OBVIOUS
    <3> HIDE DEF Bad
    <3> QED
      BY <2>1, <2>2
  <2> HIDE DEF Bad
  <2>7. /\ BeginsUnit(p, n, q) /\ c[2] = e /\ e \in 0..Len(p)
        /\ \/ Len(c) = 2 /\ e = Len(p)
           \/ e < Len(p) /\ Cuts(p, n, e, Tail(c))
    <3>1. /\ BeginsUnit(p, n, q) /\ c[2] = After(p, n, q) /\ After(p, n, q) \in 0..Len(p)
          /\ \/ Len(c) = 2 /\ After(p, n, q) = Len(p)
             \/ After(p, n, q) < Len(p) /\ Cuts(p, n, After(p, n, q), Tail(c))
      <4>1. Cuts(p, n, q, c)
        BY <2>3
      <4> QED
        BY <1>0, <4>1, CutAfter
    <3> QED
      BY <2>4, <3>1
  <2>8. q \in Nat /\ q + n < Len(p)
    BY <1>0, <2>2, <2>7 DEF BeginsUnit
  <2>9. e > q
    <3>1. e >= q + n
      BY <1>0, <2>4, <2>8, AfterIsNumber
    <3> QED
      BY <2>7, <2>8, <3>1
  <2>10. u[q] = <<unit>> \o u[e]
    <3>1. u[q] = IF q + n >= Len(p) \/ After(p, n, q) > Len(p) THEN <<>>
                 ELSE <<SubSeq(p, q + n + 1, After(p, n, q))>> \o u[After(p, n, q)]
      BY <1>1, <2>2
    <3>2. ~(q + n >= Len(p) \/ e > Len(p))
      BY <1>0, <2>7, <2>8
    <3> QED
      BY <2>4, <2>5, <3>1, <3>2
  <2>11. c \in Seq(0..Len(p)) /\ Len(c) \in Nat /\ Len(c) >= 2 /\ c[1] = q
    BY <2>3 DEF Cuts
  <2> DEFINE w == Between(p, n, c)
  <2>12. w \in Seq(Seq(Bytes)) /\ Len(w) = Len(c) - 1
    BY <2>3, CutTyped
  <2>13. w[1] = unit
    <3>1. 1 \in 1..(Len(c) - 1)
      BY <2>11
    <3> QED
      <4>1. w[1] = SubSeq(p, c[1] + n + 1, c[1 + 1])
        BY <3>1 DEF Between
      <4>2. 1 + 1 = 2
        OBVIOUS
      <4> QED
        BY <2>5, <2>7, <2>11, <4>1, <4>2
  <2> HIDE DEF w
  <2>14. CASE Len(c) = 2 /\ e = Len(p)
    <3>1. u[e] = <<>>
      <4>1. e + n >= Len(p)
        BY <1>0, <2>14
      <4> QED
        BY <1>1, <2>7, <4>1
    <3>2. w = <<unit>>
      BY <2>12, <2>13, <2>14
    <3>3. u[q] = <<unit>>
      BY <2>10, <3>1
    <3> QED
      BY <2>3, <3>2, <3>3 DEF w
  <2>15. CASE e < Len(p) /\ Cuts(p, n, e, Tail(c))
    <3>1. u[e] = Between(p, n, Tail(c))
      BY <2>6, <2>7, <2>9, <2>15
    <3>2. /\ c # <<>> /\ Len(Tail(c)) = Len(c) - 1
          /\ \A i \in 1..Len(Tail(c)) : Tail(c)[i] = c[i + 1]
      <4>1. c # <<>>
        BY <2>11
      <4> QED
        BY <2>11, <4>1, HeadTailProperties
    <3> DEFINE v == Between(p, n, Tail(c))
    <3>3. v \in Seq(Seq(Bytes)) /\ Len(v) = Len(c) - 2
      <4>1. Cuts(p, n, e, Tail(c))
        BY <2>15
      <4>2. v \in Seq(Seq(Bytes)) /\ Len(v) = Len(Tail(c)) - 1
        BY <4>1, CutTyped, ZenonT(60)
      <4> HIDE DEF v
      <4> QED
        BY <2>11, <3>2, <4>2
    <3>4. ASSUME NEW i \in 1..(Len(c) - 2) PROVE w[i + 1] = v[i]
      <4>1. /\ i \in 1..(Len(Tail(c)) - 1) /\ i + 1 \in 1..(Len(c) - 1)
            /\ i \in 1..Len(Tail(c)) /\ i + 1 \in 1..Len(Tail(c))
        BY <2>11, <3>2
      <4>2. Tail(c)[i] = c[i + 1] /\ Tail(c)[i + 1] = c[i + 1 + 1]
        BY <3>2, <4>1
      <4>3. /\ v[i] = SubSeq(p, Tail(c)[i] + n + 1, Tail(c)[i + 1])
            /\ w[i + 1] = SubSeq(p, c[i + 1] + n + 1, c[i + 1 + 1])
        BY <4>1 DEF Between, w
      <4> QED
        BY <4>2, <4>3
    <3> HIDE DEF v
    <3>5. w = <<unit>> \o v
      <4>1. w[1] \in Seq(Bytes)
        BY <2>11, <2>12
      <4>2. <<unit>> \in Seq(Seq(Bytes)) /\ Len(<<unit>>) = 1 /\ <<unit>>[1] = unit
        BY <2>13, <4>1
      <4> PICK x : x = <<unit>> \o v
        OBVIOUS
      <4>3. x \in Seq(Seq(Bytes)) /\ Len(x) = Len(c) - 1 /\ x[1] = unit
            /\ \A i \in 1..(Len(c) - 2) : x[i + 1] = v[i]
        BY <2>11, <3>3, <4>2
      <4>4. ASSUME NEW i \in 1..Len(w) PROVE w[i] = x[i]
        <5>1. CASE i = 1
          BY <2>13, <4>3, <5>1
        <5>2. CASE i # 1
          <6>1. i - 1 \in 1..(Len(c) - 2) /\ i - 1 + 1 = i
            BY <2>11, <2>12, <5>2
          <6> QED
            BY <3>4, <4>3, <6>1
        <5> QED
          BY <5>1, <5>2
      <4>5. Len(w) = Len(x)
        BY <2>12, <4>3
      <4> QED
        BY <2>12, <4>3, <4>4, <4>5, SeqEqual
    <3> QED
      BY <2>3, <2>10, <3>1, <3>5 DEF v, w
  <2> QED
    BY <2>7, <2>14, <2>15
<1>3. 0 \in 0..Len(p)
  BY <1>0
<1> QED
  BY <1>1, <1>2, <1>3
-----------------------------------------------------------------------------
\* What comes of one sequence after the other.
LEMMA FlattenSteps ==
  ASSUME NEW T, NEW seqs \in Seq(Seq(T)), Len(seqs) > 0
  PROVE  \E u : /\ FlattenSeq(seqs) = u[Len(seqs)]
                /\ u[1] = seqs[1]
                /\ \A i \in 2..Len(seqs) : u[i] = u[i - 1] \o seqs[i]
<1> PICK n : n = Len(seqs)
  OBVIOUS
<1> DEFINE g == [i \in 1..n |-> [s \in Seq(T) |-> s \o seqs[i]]]
           Is(f) == f = [i \in 1..n |-> IF i = 1 THEN seqs[i] ELSE f[i - 1] \o seqs[i]]
           u == CHOOSE u : Is(u)
<1>1. n \in Nat /\ n >= 1 /\ \A i \in 1..n : seqs[i] \in Seq(T)
  OBVIOUS
<1>2. g \in [1..n -> [Seq(T) -> Seq(T)]]
  <2>1. ASSUME NEW i \in 1..n, NEW s \in Seq(T) PROVE s \o seqs[i] \in Seq(T)
    BY <1>1
  <2> QED
    BY <2>1
<1>3. <<>> \in Seq(T)
  OBVIOUS
<1>4. PICK f : Upwards(f, n, Seq(T), <<>>, g)
  <2> HIDE DEF g
  <2> QED
    BY <1>1, <1>2, <1>3, UpwardsExists
<1>5. f \in [0..n -> Seq(T)] /\ f[0] = <<>>
  <2> HIDE DEF g
  <2> QED
    BY <1>4 DEF Upwards
<1>6. ASSUME NEW i \in 1..n PROVE i - 1 \in 0..n /\ f[i] = f[i - 1] \o seqs[i]
  <2>1. i - 1 \in 0..n /\ f[i - 1] \in Seq(T)
    <3>1. i - 1 \in 0..n
      BY <1>1
    <3> QED
      BY <1>5, <3>1
  <2>2. f[i] = g[i][f[i - 1]]
    <3> HIDE DEF g
    <3> QED
      BY <1>4 DEF Upwards
  <2> QED
    BY <2>1, <2>2
<1> DEFINE w == [i \in 1..n |-> f[i]]
<1>7. ASSUME NEW i \in 1..n
      PROVE  f[i] = IF i = 1 THEN seqs[i] ELSE w[i - 1] \o seqs[i]
  <2>1. CASE i = 1
    <3>1. f[i] = f[i - 1] \o seqs[i] /\ i - 1 = 0
      <4>1. f[i] = f[i - 1] \o seqs[i]
        BY <1>6
      <4>2. i - 1 = 0
        BY <2>1
      <4> QED
        BY <4>1, <4>2
    <3>2. f[i] = <<>> \o seqs[i] /\ seqs[i] \in Seq(T)
      BY <1>1, <1>5, <3>1
    <3> QED
      BY <2>1, <3>2
  <2>2. CASE i # 1
    <3>1. i - 1 \in 1..n
      BY <1>1, <2>2
    <3>2. w[i - 1] = f[i - 1]
      BY <3>1
    <3> QED
      BY <1>6, <2>2, <3>2
  <2> QED
    BY <2>1, <2>2
<1>8. Is(w)
  <2> PICK v : v = w
    OBVIOUS
  <2>1. \A i \in 1..n : f[i] = IF i = 1 THEN seqs[i] ELSE v[i - 1] \o seqs[i]
    BY <1>7
  <2>2. Is(v)
    <3>1. v = [i \in 1..n |-> f[i]]
      OBVIOUS
    <3> HIDE DEF w
    <3> QED
      BY <2>1, <3>1
  <2> QED
    BY <2>2
<1>9. Is(u)
  <2> HIDE DEF Is
  <2> QED
    BY <1>8
<1>10. FlattenSeq(seqs) = u[n]
  <2>1. Len(seqs) # 0
    BY <1>1
  <2> QED
    BY <2>1 DEF FlattenSeq
<1> HIDE DEF u
<1>11. \A i \in 1..n : u[i] = IF i = 1 THEN seqs[i] ELSE u[i - 1] \o seqs[i]
  BY <1>9
<1>12. u[1] = seqs[1] /\ \A i \in 2..n : u[i] = u[i - 1] \o seqs[i]
  <2>1. 1 \in 1..n /\ \A i \in 2..n : i \in 1..n /\ i # 1
    BY <1>1
  <2> QED
    BY <1>11, <2>1
<1> QED
  BY <1>10, <1>12

\* A start code is as long as the length field, or longer.
LEMMA StartCodeLength ==
  ASSUME NEW n \in 2..4
  PROVE  \E l \in Int : /\ StartCode(n) \in Seq(Bytes) /\ Len(StartCode(n)) = l
                       /\ l >= n /\ (n # 2 => l = n)
<1>1. 0 \in Bytes /\ 1 \in Bytes
  BY DEF Bytes
<1>2. CASE n = 3
  <2>1. <<0, 0, 1>> \in Seq(Bytes) /\ Len(<<0, 0, 1>>) = 3
    BY <1>1
  <2>2. StartCode(n) = <<0, 0, 1>>
    BY <1>2 DEF StartCode
  <2>3. StartCode(n) \in Seq(Bytes) /\ Len(StartCode(n)) = 3
    BY <2>1, <2>2
  <2>4. 3 \in Int /\ 3 >= n /\ (n # 2 => 3 = n)
    BY <1>2
  <2> QED
    BY <2>3, <2>4
<1>3. CASE n # 3
  <2>1. <<0, 0, 0, 1>> \in Seq(Bytes) /\ Len(<<0, 0, 0, 1>>) = 4
    BY <1>1
  <2>2. StartCode(n) = <<0, 0, 0, 1>>
    BY <1>3 DEF StartCode
  <2> QED
    BY <1>3, <2>1, <2>2
<1> QED
  BY <1>2, <1>3

LEMMA Longer ==
  \A l, n, x, y, z \in Int :
    /\ z = y - x - n => l + z = y - x + (l - n)
    /\ (z >= x /\ l >= n) => z + (y - x + (l - n)) >= y
    /\ (z = x /\ l = n) => z + (y - x + (l - n)) = y
OBVIOUS

\* Start codes take at least the place of the lengths.
LEMMA PackageLength ==
  ASSUME NEW p \in Seq(Bytes), NEW n \in 2..4, NEW q, q = 0, NEW b, Cuts(p, n, q, b)
  PROVE  /\ Len(AnnexB(Between(p, n, b), n)) \in Nat
         /\ Len(AnnexB(Between(p, n, b), n)) >= Len(p)
         /\ n # 2 => Len(AnnexB(Between(p, n, b), n)) = Len(p)
<1>0. /\ Between(p, n, b) \in Seq(Seq(Bytes))
      /\ Len(Between(p, n, b)) = Len(b) - 1 /\ Len(b) - 1 \in Nat
      /\ \A i \in 1..(Len(b) - 1) :
           /\ b[i] \in Nat /\ b[i + 1] \in Nat
           /\ Between(p, n, b)[i] \in Seq(Bytes)
           /\ Len(Between(p, n, b)[i]) = b[i + 1] - b[i] - n
  BY CutTyped, SMTT(30)
<1> PICK m : m = Len(b) - 1
  OBVIOUS
<1> DEFINE units == Between(p, n, b)
           seqs == [i \in DOMAIN units |-> StartCode(n) \o units[i]]
<1>1. b \in Seq(0..Len(p)) /\ Len(b) \in Nat /\ Len(b) >= 2 /\ Len(p) \in Nat
      /\ b[1] = 0 /\ b[Len(b)] = Len(p)
  BY DEF Cuts
<1>2. m \in Nat /\ m >= 1
  BY <1>1
<1>3. /\ units \in Seq(Seq(Bytes)) /\ Len(units) = m
      /\ \A i \in 1..m : /\ b[i] \in Nat /\ b[i + 1] \in Nat
                         /\ units[i] \in Seq(Bytes) /\ Len(units[i]) = b[i + 1] - b[i] - n
  BY <1>0
<1>4. PICK l \in Int : /\ StartCode(n) \in Seq(Bytes) /\ Len(StartCode(n)) = l
                       /\ l >= n /\ (n # 2 => l = n)
  BY StartCodeLength
<1> HIDE DEF units
<1>5. ASSUME NEW i \in 1..m
      PROVE  seqs[i] \in Seq(Bytes) /\ Len(seqs[i]) = b[i + 1] - b[i] + (l - n)
  <2>1. DOMAIN units = 1..m
    BY <1>3
  <2>2. seqs[i] = StartCode(n) \o units[i]
    BY <2>1
  <2>3. units[i] \in Seq(Bytes) /\ Len(units[i]) = b[i + 1] - b[i] - n
    BY <1>3
  <2> HIDE DEF seqs
  <2>4. seqs[i] \in Seq(Bytes) /\ Len(seqs[i]) = Len(StartCode(n)) + Len(units[i])
    <3>1. StartCode(n) \in Seq(Bytes)
      BY <1>4
    <3>2. \A s, t \in Seq(Bytes) : s \o t \in Seq(Bytes) /\ Len(s \o t) = Len(s) + Len(t)
      OBVIOUS
    <3> QED
      BY <2>2, <2>3, <3>1, <3>2
  <2>5. b[i] \in Nat /\ b[i + 1] \in Nat
    BY <1>3
  <2>6. l = Len(StartCode(n)) /\ l \in Int
    BY <1>4
  <2>7. Len(seqs[i]) = b[i + 1] - b[i] + (l - n)
    <3> PICK x, y, z : x = b[i] /\ y = b[i + 1] /\ z = Len(units[i])
      OBVIOUS
    <3>1. x \in Int /\ y \in Int /\ z \in Int /\ n \in Int /\ l \in Int
          /\ z = y - x - n
      BY <2>3, <2>5, <2>6
    <3>2. l + z = y - x + (l - n)
      BY <3>1, Longer, SMTT(30)
    <3> QED
      BY <2>4, <2>6, <3>2
  <2> QED
    BY <2>4, <2>7
<1>6. seqs \in Seq(Seq(Bytes)) /\ Len(seqs) = m
  <2>1. DOMAIN units = 1..m
    BY <1>3
  <2>2. seqs \in [1..m -> Seq(Bytes)]
    BY <1>5, <2>1
  <2> HIDE DEF seqs
  <2> QED
    BY <1>2, <2>2
<1>7. AnnexB(units, n) = FlattenSeq(seqs)
  BY DEF AnnexB
<1> HIDE DEF seqs
<1>8. PICK u : /\ FlattenSeq(seqs) = u[m]
               /\ u[1] = seqs[1]
               /\ \A i \in 2..m : u[i] = u[i - 1] \o seqs[i]
  <2>1. Len(seqs) > 0
    BY <1>2, <1>6
  <2>2. PICK u : /\ FlattenSeq(seqs) = u[Len(seqs)]
                 /\ u[1] = seqs[1]
                 /\ \A i \in 2..Len(seqs) : u[i] = u[i - 1] \o seqs[i]
    BY <1>6, <2>1, FlattenSteps
  <2> QED
    BY <1>6, <2>2
<1> DEFINE Good(i) == /\ u[i] \in Seq(Bytes)
                      /\ Len(u[i]) >= b[i + 1]
                      /\ n # 2 => Len(u[i]) = b[i + 1]
           Bad == {i \in 1..m : ~Good(i)}
<1>9. ASSUME Bad # {} PROVE FALSE
  <2>1. PICK i \in Bad : \A k \in Bad : i <= k
    <3>1. Bad \in SUBSET Nat
      OBVIOUS
    <3> HIDE DEF Bad
    <3> QED
      BY <1>9, <3>1, SmallestNumber
  <2>2. i \in 1..m /\ ~Good(i)
    BY <2>1
  <2>3. seqs[i] \in Seq(Bytes) /\ Len(seqs[i]) = b[i + 1] - b[i] + (l - n)
        /\ b[i] \in Nat /\ b[i + 1] \in Nat
    BY <1>3, <1>5, <2>2
  <2>4. CASE i = 1
    <3>1. u[i] = seqs[i] /\ b[i] = 0
      BY <1>1, <1>8, <2>4
    <3>2. Len(seqs[i]) >= b[i + 1] /\ (n # 2 => Len(seqs[i]) = b[i + 1])
      BY <1>4, <2>3, <3>1
    <3>3. Good(i)
      BY <2>3, <3>1, <3>2
    <3> QED
      BY <2>2, <3>3
  <2>5. CASE i # 1
    <3>1. i - 1 \in 1..m /\ i \in 2..m /\ i - 1 + 1 = i
      BY <1>2, <2>2, <2>5
    <3>2. Good(i - 1)
      <4>1. i - 1 \notin Bad
        <5> HIDE DEF Bad
        <5> QED
          BY <2>1, <2>2, <3>1
      <4> HIDE DEF Good
      <4> QED
        BY <3>1, <4>1
    <3>3. u[i] = u[i - 1] \o seqs[i]
      BY <1>8, <3>1
    <3>4. u[i] \in Seq(Bytes) /\ Len(u[i]) = Len(u[i - 1]) + Len(seqs[i])
          /\ Len(u[i - 1]) \in Nat
      <4>1. \A s, t \in Seq(Bytes) : /\ s \o t \in Seq(Bytes) /\ Len(s) \in Nat
                                    /\ Len(s \o t) = Len(s) + Len(t)
        OBVIOUS
      <4> QED
        BY <2>3, <3>2, <3>3, <4>1
    <3>5. /\ Len(u[i - 1]) >= b[i]
          /\ n # 2 => Len(u[i - 1]) = b[i]
      BY <3>1, <3>2
    <3>6. Good(i)
      <4>1. Len(u[i]) = Len(u[i - 1]) + (b[i + 1] - b[i] + (l - n))
        BY <2>3, <3>4
      <4>2. Len(u[i]) >= b[i + 1] /\ (n # 2 => Len(u[i]) = b[i + 1])
        <5> PICK x, y, z : x = b[i] /\ y = b[i + 1] /\ z = Len(u[i - 1])
          OBVIOUS
        <5>1. /\ x \in Int /\ y \in Int /\ z \in Int /\ l \in Int /\ n \in Int
              /\ z >= x /\ (n # 2 => z = x)
          BY <1>4, <2>3, <3>4, <3>5
        <5>2. z + (y - x + (l - n)) >= y /\ (n # 2 => z + (y - x + (l - n)) = y)
          BY <1>4, <5>1, Longer, SMTT(30)
        <5> QED
          BY <4>1, <5>2
      <4> QED
        BY <3>4, <4>2
    <3> QED
      BY <2>2, <3>6
  <2> QED
    BY <2>4, <2>5
<1>10. Good(m)
  <2>1. m \in 1..m
    BY <1>2
  <2> QED
    BY <1>9, <2>1
<1>11. b[m + 1] = Len(p)
  BY <1>1
<1> QED
  BY <1>7, <1>8, <1>10, <1>11 DEF units
-----------------------------------------------------------------------------
\* What the reader is told covers what is written, for any bytes at all.
LEMMA SizeCovers ==
  ASSUME NEW p \in Seq(Bytes), NEW format
  PROVE  /\ getPackageSize(format, p) \in Nat
         /\ Len(formatPackage(format, p)) \in Nat
         /\ Len(formatPackage(format, p)) <= getPackageSize(format, p)
<1>1. Len(p) \in Nat /\ Len(<<>>) = 0
  OBVIOUS
<1>2. ASSUME NEW n \in 2..4, check_size_in_buffer(p, n)
      PROVE  /\ Len(AnnexB(Units(p, n), n)) \in Nat
             /\ Len(AnnexB(Units(p, n), n)) >= Len(p)
             /\ n # 2 => Len(AnnexB(Units(p, n), n)) = Len(p)
  <2>1. PICK b : Cuts(p, n, 0, b)
    BY <1>2, CheckIs
  <2>2. Units(p, n) = Between(p, n, b)
    BY <2>1, UnitsBetween
  <2>3. /\ Len(AnnexB(Between(p, n, b), n)) \in Nat
        /\ Len(AnnexB(Between(p, n, b), n)) >= Len(p)
        /\ n # 2 => Len(AnnexB(Between(p, n, b), n)) = Len(p)
    BY <2>1, PackageLength
  <2> QED
    BY <2>2, <2>3
<1>3. CASE ~format.isAVC
  BY <1>1, <1>3 DEF getPackageSize, formatPackage
<1>4. CASE format.isAVC /\ ~format.mAVCCFound
  BY <1>1, <1>4 DEF getPackageSize, formatPackage
<1>5. CASE format.isAVC /\ format.mAVCCFound
  <2>1. CASE check_size_in_buffer(p, 2)
    <3>1. getPackageSize(format, p) = Len(AnnexB(Units(p, 2), 2))
      BY <1>5, <2>1 DEF getPackageSize
    <3>2. getPackageSize(format, p) \in Nat /\ getPackageSize(format, p) >= Len(p)
      BY <1>2, <2>1, <3>1
    <3>3. LengthSize(p) \in 2..4 /\ check_size_in_buffer(p, LengthSize(p))
      BY <2>1 DEF LengthSize
    <3>4. formatPackage(format, p) = AnnexB(Units(p, LengthSize(p)), LengthSize(p))
      BY <1>5, <3>3 DEF formatPackage
    <3>5. CASE LengthSize(p) = 2
      BY <3>1, <3>2, <3>4, <3>5
    <3>6. CASE LengthSize(p) # 2
      <4>1. Len(formatPackage(format, p)) = Len(p)
        BY <1>2, <3>3, <3>4, <3>6
      <4> QED
        BY <1>1, <3>2, <4>1
    <3> QED
      BY <3>5, <3>6
  <2>2. CASE ~check_size_in_buffer(p, 2)
    <3>1. getPackageSize(format, p) = Len(p)
      BY <1>5, <2>2 DEF getPackageSize
    <3>2. CASE LengthSize(p) = 0
      BY <1>1, <3>1, <3>2 DEF formatPackage
    <3>3. CASE LengthSize(p) # 0
      <4>1. LengthSize(p) \in 3..4 /\ check_size_in_buffer(p, LengthSize(p))
        BY <2>2, <3>3 DEF LengthSize
      <4>2. formatPackage(format, p) = AnnexB(Units(p, LengthSize(p)), LengthSize(p))
        BY <1>5, <3>3 DEF formatPackage
      <4>3. Len(formatPackage(format, p)) = Len(p)
        BY <1>2, <4>1, <4>2
      <4> QED
        BY <1>1, <3>1, <4>3
    <3> QED
      BY <3>2, <3>3
  <2> QED
    BY <2>1, <2>2
<1> QED
  BY <1>3, <1>4, <1>5
-----------------------------------------------------------------------------
\* Where the units of a package end.
Ends(end, packet) ==
  /\ end \in [0..Len(packet.units) -> Nat]
  /\ end[0] = 0
  /\ \A i \in 1..Len(packet.units) :
       end[i] = end[i - 1] + packet.lengthSize + Len(packet.units[i])

\* A package, with where its units end as a function by itself.
LEMMA PackageFacts ==
  ASSUME NEW packet \in Packets, IsPackage(packet)
  PROVE  \E end :
           /\ Ends(end, packet)
           /\ packet.lengthSize \in 2..4 /\ Len(packet.units) >= 1
           /\ Len(packet.data) = end[Len(packet.units)]
           /\ \A i \in 1..Len(packet.units) :
                /\ packet.units[i] # <<>>
                /\ NumberAt(packet.data, end[i - 1], packet.lengthSize) = Len(packet.units[i])
                /\ SubSeq(packet.data, end[i - 1] + packet.lengthSize + 1, end[i])
                     = packet.units[i]
                /\ packet.lengthSize = 4 => Len(packet.units[i]) < 256 * 256 * 256
           /\ packet.lengthSize # 4 => Len(packet.data) <= 256 * Len(packet.units[1])
<1> PICK units : units = packet.units
  OBVIOUS
<1> PICK n : n = packet.lengthSize
  OBVIOUS
<1> PICK m : m = Len(units)
  OBVIOUS
<1> DEFINE g == [i \in 1..m |-> [s \in Nat |-> s + n + Len(units[i])]]
           Is(f) == f = [i \in 0..Len(packet.units) |->
                           IF i = 0 THEN 0
                           ELSE f[i - 1] + packet.lengthSize + Len(packet.units[i])]
           end == CHOOSE end : Is(end)
<1>1. units \in Seq(Seq(Bytes)) /\ n \in Nat /\ m \in Nat /\ DOMAIN units = 1..m
  BY DEF Packets
<1>2. \A i \in 1..m : units[i] \in Seq(Bytes) /\ Len(units[i]) \in Nat
  BY <1>1
<1>3. g \in [1..m -> [Nat -> Nat]]
  <2>1. ASSUME NEW i \in 1..m, NEW s \in Nat PROVE s + n + Len(units[i]) \in Nat
    BY <1>1, <1>2
  <2> QED
    BY <2>1
<1>4. 0 \in Nat
  OBVIOUS
<1>5. PICK f : Upwards(f, m, Nat, 0, g)
  <2> HIDE DEF g
  <2> QED
    BY <1>1, <1>3, <1>4, UpwardsExists
<1>6. f \in [0..m -> Nat] /\ f[0] = 0
  <2> HIDE DEF g
  <2> QED
    BY <1>5 DEF Upwards
<1>7. ASSUME NEW i \in 1..m PROVE i - 1 \in 0..m /\ f[i] = f[i - 1] + n + Len(units[i])
  <2>1. i - 1 \in 0..m
    BY <1>1
  <2>2. f[i - 1] \in Nat
    BY <1>6, <2>1
  <2>3. f[i] = g[i][f[i - 1]]
    <3> HIDE DEF g
    <3> QED
      BY <1>5 DEF Upwards
  <2> QED
    BY <2>1, <2>2, <2>3
<1>8. Is(f)
  <2>1. ASSUME NEW i \in 0..m
        PROVE  f[i] = IF i = 0 THEN 0 ELSE f[i - 1] + n + Len(units[i])
    <3>1. i = 0 \/ i \in 1..m
      BY <1>1
    <3> QED
      BY <1>6, <1>7, <3>1
  <2> HIDE DEF g
  <2> QED
    BY <1>6, <2>1
<1>9. Is(end)
  <2> HIDE DEF Is
  <2> QED
    BY <1>8
<1>10. /\ n \in 2..4
       /\ units # <<>>
       /\ \A i \in DOMAIN units : units[i] # <<>>
       /\ Len(packet.data) = end[Len(units)]
       /\ \A i \in DOMAIN units : /\ NumberAt(packet.data, end[i - 1], n) = Len(units[i])
                                 /\ SubSeq(packet.data, end[i - 1] + n + 1, end[i]) = units[i]
       /\ n = 4 => \A i \in DOMAIN units : Len(units[i]) < 256 * 256 * 256
       /\ n # 4 => Len(packet.data) <= 256 * Len(units[1])
  BY ZenonT(60) DEF IsPackage
<1> HIDE DEF end, g
<1>11. end[0] = 0 /\ \A i \in 1..m : end[i] = end[i - 1] + n + Len(units[i])
  <2>1. \A i \in 0..m : end[i] = IF i = 0 THEN 0 ELSE end[i - 1] + n + Len(units[i])
    BY <1>9
  <2>2. 0 \in 0..m /\ \A i \in 1..m : i \in 0..m /\ i # 0
    BY <1>1
  <2> QED
    BY <2>1, <2>2
<1>12. end \in [0..m -> Nat]
  <2> DEFINE Bad == {i \in 0..m : end[i] \notin Nat}
  <2>1. ASSUME Bad # {} PROVE FALSE
    <3>1. PICK i \in Bad : \A k \in Bad : i <= k
      <4>1. Bad \in SUBSET Nat
        BY <1>1
      <4> HIDE DEF Bad
      <4> QED
        BY <2>1, <4>1, SmallestNumber
    <3>2. i \in 0..m /\ end[i] \notin Nat
      BY <3>1
    <3>3. i # 0
      BY <1>11, <3>2
    <3>4. i \in 1..m /\ i - 1 \in 0..m /\ i - 1 < i
      BY <1>1, <3>2, <3>3
    <3>5. end[i - 1] \in Nat
      <4>1. i - 1 \notin Bad
        <5> HIDE DEF Bad
        <5> QED
          BY <3>1, <3>2, <3>4
      <4> QED
        BY <3>4, <4>1
    <3>6. end[i] = end[i - 1] + n + Len(units[i])
      BY <1>11, <3>4
    <3> HIDE DEF Bad
    <3> QED
      BY <1>1, <1>2, <3>2, <3>4, <3>5, <3>6, SMTT(30)
  <2>2. end = [i \in 0..m |-> end[i]]
    BY <1>9
  <2> QED
    BY <2>1, <2>2
<1> HIDE DEF Is
<1>13. Ends(end, packet)
  BY <1>11, <1>12 DEF Ends
<1>14. m >= 1 /\ m = Len(units)
  BY <1>1, <1>10
<1> QED
  BY <1>1, <1>10, <1>13, <1>14, ZenonT(60)
-----------------------------------------------------------------------------
\* A longer number that begins with another is at least 256 times it.
LEMMA NumberWidens ==
  ASSUME NEW p \in Seq(Bytes), NEW n \in 2..3, NEW q \in Nat, q + n < Len(p)
  PROVE  NumberAt(p, q, n + 1) >= 256 * NumberAt(p, q, n)
<1>1. n \in 2..4 /\ n + 1 \in 2..4 /\ q + n <= Len(p) /\ q + (n + 1) <= Len(p)
  OBVIOUS
<1>2. /\ n = 2 => NumberAt(p, q, n) = 256 * p[q + 1] + p[q + 2]
      /\ n = 3 => NumberAt(p, q, n) = 256 * (256 * p[q + 1] + p[q + 2]) + p[q + 3]
  BY <1>1, NumberIs
<1> PICK k : k = n + 1
  OBVIOUS
<1>3. k \in 2..4 /\ q + k <= Len(p)
  BY <1>1
<1>4. /\ \A i \in 1..k : p[q + i] \in Nat
      /\ k = 3 => NumberAt(p, q, k) = 256 * (256 * p[q + 1] + p[q + 2]) + p[q + 3]
      /\ k = 4 => NumberAt(p, q, k)
                     = 256 * (256 * (256 * p[q + 1] + p[q + 2]) + p[q + 3]) + p[q + 4]
  <2>1. \A i \in 1..k : p[q + i] \in Nat
    BY <1>3, NumberIs, ZenonT(60)
  <2>2. k = 3 => NumberAt(p, q, k) = 256 * (256 * p[q + 1] + p[q + 2]) + p[q + 3]
    BY <1>3, NumberIs
  <2>3. k = 4 => NumberAt(p, q, k)
                   = 256 * (256 * (256 * p[q + 1] + p[q + 2]) + p[q + 3]) + p[q + 4]
    BY <1>3, NumberIs
  <2> QED
    BY <2>1, <2>2, <2>3
<1>5. CASE n = 2
  <2>1. k = 3 /\ 1 \in 1..k /\ 2 \in 1..k /\ 3 \in 1..k
    BY <1>5
  <2>2. p[q + 1] \in Nat /\ p[q + 2] \in Nat /\ p[q + 3] \in Nat
    BY <1>4, <2>1
  <2> QED
    BY <1>2, <1>4, <1>5, <2>1, <2>2, SMTT(30)
<1>6. CASE n = 3
  <2>1. k = 4 /\ 1 \in 1..k /\ 2 \in 1..k /\ 3 \in 1..k /\ 4 \in 1..k
    BY <1>6
  <2>2. p[q + 1] \in Nat /\ p[q + 2] \in Nat /\ p[q + 3] \in Nat /\ p[q + 4] \in Nat
    BY <1>4, <2>1
  <2>3. NumberAt(p, q, n) = 256 * (256 * p[q + 1] + p[q + 2]) + p[q + 3]
    BY <1>2, <1>6
  <2>4. NumberAt(p, q, n + 1)
          = 256 * (256 * (256 * p[q + 1] + p[q + 2]) + p[q + 3]) + p[q + 4]
    BY <1>4, <2>1
  <2>5. PICK w \in Nat : w = p[q + 1]
    BY <2>2
  <2>6. PICK x \in Nat : x = p[q + 2]
    BY <2>2
  <2>7. PICK y \in Nat : y = p[q + 3]
    BY <2>2
  <2>8. PICK z \in Nat : z = p[q + 4]
    BY <2>2
  <2>9. 256 * (256 * (256 * w + x) + y) + z >= 256 * (256 * (256 * w + x) + y)
    OBVIOUS
  <2> QED
    BY <2>3, <2>4, <2>5, <2>6, <2>7, <2>8, <2>9
<1> QED
  BY <1>5, <1>6

\* A number in four bytes that is small begins with a zero.
LEMMA FirstByte ==
  ASSUME NEW p \in Seq(Bytes), NEW q \in Nat, NEW n, n = 4, q + n <= Len(p),
         NumberAt(p, q, n) < 256 * 256 * 256
  PROVE  p[q + 1] = 0
<1>1. n \in 2..4 /\ 1 \in 1..n /\ 2 \in 1..n /\ 3 \in 1..n /\ 4 \in 1..n
  OBVIOUS
<1>2. \A k \in 1..n : p[q + k] \in Nat
  BY <1>1, NumberIs, SMTT(30)
<1>3. n = 4 => NumberAt(p, q, n)
                 = 256 * (256 * (256 * p[q + 1] + p[q + 2]) + p[q + 3]) + p[q + 4]
  BY <1>1, NumberIs
<1>4. p[q + 1] \in Nat /\ p[q + 2] \in Nat /\ p[q + 3] \in Nat /\ p[q + 4] \in Nat
  BY <1>1, <1>2
<1>5. PICK w \in Nat : w = p[q + 1]
  BY <1>4
<1>6. PICK x \in Nat : x = p[q + 2]
  BY <1>4
<1>7. PICK y \in Nat : y = p[q + 3]
  BY <1>4
<1>8. PICK z \in Nat : z = p[q + 4]
  BY <1>4
<1>9. 256 * (256 * (256 * w + x) + y) + z < 256 * 256 * 256
  BY <1>3, <1>5, <1>6, <1>7, <1>8
<1>10. w = 0
  BY <1>9
<1> QED
  BY <1>5, <1>10

\* The lengths of a package are found, and its units between them.
LEMMA PackageIsCut ==
  ASSUME NEW packet \in Packets, IsPackage(packet)
  PROVE  \E b : /\ Cuts(packet.data, packet.lengthSize, 0, b)
                /\ Between(packet.data, packet.lengthSize, b) = packet.units
<1> PICK units : units = packet.units
  OBVIOUS
<1> PICK n : n = packet.lengthSize
  OBVIOUS
<1> PICK data : data = packet.data
  OBVIOUS
<1> PICK m : m = Len(units)
  OBVIOUS
<1>1. PICK end :
        /\ Ends(end, packet)
        /\ packet.lengthSize \in 2..4 /\ Len(packet.units) >= 1
        /\ Len(packet.data) = end[Len(packet.units)]
        /\ \A i \in 1..Len(packet.units) :
             /\ packet.units[i] # <<>>
             /\ NumberAt(packet.data, end[i - 1], packet.lengthSize) = Len(packet.units[i])
             /\ SubSeq(packet.data, end[i - 1] + packet.lengthSize + 1, end[i])
                  = packet.units[i]
             /\ packet.lengthSize = 4 => Len(packet.units[i]) < 256 * 256 * 256
        /\ packet.lengthSize # 4 => Len(packet.data) <= 256 * Len(packet.units[1])
  BY PackageFacts, Zenon
<1>2. /\ end \in [0..m -> Nat] /\ end[0] = 0
      /\ \A i \in 1..m : end[i] = end[i - 1] + n + Len(units[i])
  BY <1>1 DEF Ends
<1>3. /\ units \in Seq(Seq(Bytes)) /\ data \in Seq(Bytes) /\ m \in Nat /\ Len(data) \in Nat
      /\ n \in Nat
  BY DEF Packets
<1>4. ASSUME NEW i \in 1..m
      PROVE  /\ units[i] \in Seq(Bytes) /\ Len(units[i]) \in Nat /\ Len(units[i]) >= 1
             /\ i - 1 \in 0..m /\ i \in 0..m
             /\ end[i - 1] \in Nat /\ end[i] \in Nat
             /\ end[i - 1] + n < end[i]
  <2>1. units[i] \in Seq(Bytes) /\ units[i] # <<>>
    BY <1>1, <1>3
  <2>2. Len(units[i]) \in Nat /\ Len(units[i]) >= 1
    BY <2>1
  <2>3. i - 1 \in 0..m /\ i \in 0..m
    BY <1>3
  <2>4. end[i - 1] \in Nat /\ end[i] \in Nat
    BY <1>2, <2>3
  <2>5. end[i] = end[i - 1] + n + Len(units[i])
    BY <1>2
  <2> QED
    BY <1>3, <2>1, <2>2, <2>3, <2>4, <2>5, SMTT(30)
<1> DEFINE Bad == {i \in 0..m : ~(end[i] <= Len(data))}
<1>5. ASSUME Bad # {} PROVE FALSE
  <2>1. PICK i \in Bad : \A k \in Bad : k <= i
    <3>1. Bad \in SUBSET (0..m)
      OBVIOUS
    <3> HIDE DEF Bad
    <3> QED
      BY <1>3, <1>5, <3>1, GreatestNumber
  <2>2. i \in 0..m /\ ~(end[i] <= Len(data)) /\ end[i] \in Nat
    BY <1>2, <2>1
  <2>3. i # m
    BY <1>1, <1>3, <2>2
  <2>4. i + 1 \in 1..m /\ i + 1 \in 0..m /\ i + 1 - 1 = i /\ i < i + 1
    BY <1>3, <2>2, <2>3
  <2>5. end[i] + n < end[i + 1] /\ end[i + 1] \in Nat
    BY <1>4, <2>4
  <2>6. end[i + 1] <= Len(data)
    <3>1. i + 1 \notin Bad
      <4> HIDE DEF Bad
      <4> QED
        BY <2>1, <2>2, <2>4
    <3> QED
      BY <2>4, <3>1
  <2> HIDE DEF Bad
  <2> QED
    BY <1>3, <2>2, <2>5, <2>6
<1>6. \A i \in 0..m : end[i] <= Len(data)
  BY <1>5
<1> HIDE DEF Bad
<1>7. ASSUME NEW i \in 1..m
      PROVE  BeginsUnit(data, n, end[i - 1]) /\ end[i] = After(data, n, end[i - 1])
  <2>1. end[i - 1] + n < Len(data) /\ end[i - 1] \in Nat
    <3>1. end[i] <= Len(data)
      BY <1>4, <1>6
    <3>2. end[i - 1] + n < end[i] /\ end[i] \in Nat /\ end[i - 1] \in Nat
      BY <1>4
    <3> QED
      BY <1>3, <3>1, <3>2
  <2>2. end[i] = After(data, n, end[i - 1])
    BY <1>1, <1>2 DEF After
  <2>3. CASE n = 4
    <3> PICK q : q = end[i - 1]
      OBVIOUS
    <3>1. q \in Nat /\ q + n <= Len(data)
      BY <1>3, <2>1
    <3>2. data[q + 1] = 0
      <4>1. Len(units[i]) < 256 * 256 * 256 /\ NumberAt(data, q, n) = Len(units[i])
        BY <1>1, <2>3
      <4> QED
        BY <1>3, <2>3, <3>1, <4>1, FirstByte
    <3> QED
      BY <2>1, <2>2, <3>2 DEF BeginsUnit
  <2> QED
    BY <2>1, <2>2, <2>3 DEF BeginsUnit
<1> DEFINE b == [i \in 1..(m + 1) |-> end[i - 1]]
<1>8. b \in Seq(0..Len(data)) /\ Len(b) = m + 1
  <2>1. ASSUME NEW i \in 1..(m + 1) PROVE end[i - 1] \in 0..Len(data)
    <3>1. i - 1 \in 0..m
      BY <1>3
    <3>2. end[i - 1] \in Nat /\ end[i - 1] <= Len(data)
      BY <1>2, <1>6, <3>1
    <3> QED
      BY <1>3, <3>2
  <2>2. b \in [1..(m + 1) -> 0..Len(data)] /\ m + 1 \in Nat
    BY <1>3, <2>1
  <2> HIDE DEF b
  <2> QED
    BY <2>2
<1>9. ASSUME NEW i \in 1..m PROVE b[i] = end[i - 1] /\ b[i + 1] = end[i]
  <2>1. i \in 1..(m + 1) /\ i + 1 \in 1..(m + 1) /\ i + 1 - 1 = i
    BY <1>3
  <2> QED
    BY <2>1
<1>10. b[1] = 0 /\ b[Len(b)] = Len(data)
  <2>1. 1 \in 1..m /\ m \in 1..m /\ 1 - 1 = 0
    BY <1>1, <1>3
  <2>2. b[1] = end[1 - 1] /\ b[m + 1] = end[m]
    BY <1>9, <2>1
  <2> HIDE DEF b
  <2> QED
    BY <1>1, <1>2, <1>8, <2>1, <2>2
<1> HIDE DEF b
<1>11. 1..(Len(b) - 1) = 1..m
  BY <1>3, <1>8
<1>12. Cuts(data, n, 0, b)
  <2>1. Len(b) >= 2
    BY <1>1, <1>3, <1>8
  <2>2. \A i \in 1..(Len(b) - 1) : BeginsUnit(data, n, b[i]) /\ b[i + 1] = After(data, n, b[i])
    BY <1>7, <1>9, <1>11
  <2> QED
    BY <1>8, <1>10, <2>1, <2>2 DEF Cuts
<1>13. Between(data, n, b) = units
  <2>1. \A i \in 1..m : SubSeq(data, b[i] + n + 1, b[i + 1]) = units[i]
    BY <1>1, <1>9, ZenonT(60)
  <2>2. Between(data, n, b) = [i \in 1..m |-> SubSeq(data, b[i] + n + 1, b[i + 1])]
    BY <1>11 DEF Between
  <2>3. Between(data, n, b) = [i \in 1..m |-> units[i]]
    BY <2>1, <2>2
  <2> QED
    BY <1>3, <2>3
<1> QED
  BY <1>12, <1>13

\* Too long a number is no length.
LEMMA NoLength ==
  ASSUME NEW p \in Seq(Bytes), NEW n \in 2..4,
         n < Len(p) => NumberAt(p, 0, n) >= Len(p)
  PROVE  ~check_size_in_buffer(p, n)
<1>1. SUFFICES ASSUME NEW b, Cuts(p, n, 0, b) PROVE FALSE
  BY CheckIs
<1>2. Len(p) \in Nat
  OBVIOUS
<1> PICK q : q = 0
  OBVIOUS
<1>3. Cuts(p, n, q, b)
  BY <1>1
<1>4. BeginsUnit(p, n, q) /\ After(p, n, q) \in 0..Len(p)
  BY <1>2, <1>3, CutAfter
<1>5. n < Len(p)
  BY <1>4 DEF BeginsUnit
<1>6. NumberAt(p, 0, n) >= Len(p) /\ After(p, n, 0) = n + NumberAt(p, 0, n)
  <2>1. NumberAt(p, 0, n) \in Nat
    BY <1>2, <1>5, NumberIs
  <2> QED
    BY <1>5, <2>1 DEF After
<1>7. NumberAt(p, 0, n) \in Nat
  BY <1>2, <1>5, NumberIs
<1> QED
  BY <1>2, <1>4, <1>6, <1>7

\* The length fields of a package are found for what they are, and its units.
LEMMA PackageKept ==
  ASSUME NEW packet \in Packets, IsPackage(packet)
  PROVE  /\ LengthSize(packet.data) = packet.lengthSize
         /\ packet.lengthSize # 0
         /\ Units(packet.data, packet.lengthSize) = packet.units
<1> PICK n : n = packet.lengthSize
  OBVIOUS
<1> PICK data : data = packet.data
  OBVIOUS
<1> PICK first : first = Len(packet.units[1])
  OBVIOUS
<1>1. data \in Seq(Bytes) /\ Len(data) \in Nat
  BY DEF Packets
<1>2. /\ n \in 2..4 /\ first \in Nat /\ first >= 1
      /\ NumberAt(data, 0, n) = first
      /\ n # 4 => Len(data) <= 256 * first
  <2>1. PICK end :
           /\ Ends(end, packet)
           /\ packet.lengthSize \in 2..4 /\ Len(packet.units) >= 1
           /\ \A i \in 1..Len(packet.units) :
                /\ packet.units[i] # <<>>
                /\ NumberAt(packet.data, end[i - 1], packet.lengthSize) = Len(packet.units[i])
           /\ packet.lengthSize # 4 => Len(packet.data) <= 256 * Len(packet.units[1])
    BY PackageFacts, ZenonT(60)
  <2>2. packet.units \in Seq(Seq(Bytes))
    BY DEF Packets
  <2>3. 1 \in 1..Len(packet.units) /\ 1 - 1 = 0
    BY <2>1, <2>2
  <2>4. packet.units[1] \in Seq(Bytes) /\ packet.units[1] # <<>>
    BY <2>1, <2>2, <2>3
  <2>5. Len(packet.units[1]) \in Nat /\ Len(packet.units[1]) >= 1
    BY <2>4
  <2>6. end[0] = 0
    BY <2>1 DEF Ends
  <2>7. NumberAt(packet.data, 0, packet.lengthSize) = Len(packet.units[1])
    <3>1. NumberAt(packet.data, end[1 - 1], packet.lengthSize) = Len(packet.units[1])
      BY <2>1, <2>3
    <3> QED
      BY <2>3, <2>6, <3>1
  <2> QED
    BY <2>1, <2>5, <2>7
<1>3. PICK b : Cuts(data, n, 0, b) /\ Between(data, n, b) = packet.units
  BY PackageIsCut
<1>4. check_size_in_buffer(data, n) /\ Units(data, n) = packet.units
  BY <1>1, <1>2, <1>3, CheckIs, UnitsBetween
<1>5. n + 0 <= Len(data) /\ n < Len(data)
  <2> PICK q : q = 0
    OBVIOUS
  <2>1. BeginsUnit(data, n, q)
    BY <1>1, <1>2, <1>3, CutAfter
  <2> QED
    BY <1>1, <1>2, <2>1 DEF BeginsUnit
<1>9. ASSUME NEW k \in 2..3, k < Len(data)
      PROVE  /\ NumberAt(data, 0, k + 1) >= 256 * NumberAt(data, 0, k)
             /\ NumberAt(data, 0, k + 1) \in Nat
  <2> PICK q : q = 0
    OBVIOUS
  <2>1. q \in Nat /\ q + k < Len(data) /\ q + (k + 1) <= Len(data) /\ k + 1 \in 2..4
    BY <1>1, <1>9
  <2>2. NumberAt(data, q, k + 1) >= 256 * NumberAt(data, q, k)
    BY <1>1, <2>1, NumberWidens
  <2>3. NumberAt(data, q, k + 1) \in Nat
    BY <1>1, <2>1, NumberIs
  <2> QED
    BY <2>2, <2>3
<1>6. CASE n = 4
  <2>1. LengthSize(data) = 4
    BY <1>4, <1>6 DEF LengthSize
  <2> QED
    BY <1>4, <1>6, <2>1
<1>7. CASE n = 3
  <2>1. ~check_size_in_buffer(data, 4)
    <3>1. NumberAt(data, 0, 4) >= Len(data)
      BY <1>1, <1>2, <1>5, <1>7, <1>9
    <3> QED
      BY <1>1, <3>1, NoLength
  <2>2. LengthSize(data) = 3
    BY <1>4, <1>7, <2>1 DEF LengthSize
  <2> QED
    BY <1>4, <1>7, <2>2
<1>8. CASE n = 2
  <2>1. ~check_size_in_buffer(data, 4)
    <3>1. ASSUME 4 < Len(data) PROVE NumberAt(data, 0, 4) >= Len(data)
      <4>1. 3 < Len(data)
        BY <1>1, <3>1
      <4>2. NumberAt(data, 0, 3) >= Len(data) /\ NumberAt(data, 0, 3) \in Nat
        BY <1>1, <1>2, <1>5, <1>8, <1>9, <4>1
      <4>3. NumberAt(data, 0, 4) >= 256 * NumberAt(data, 0, 3)
            /\ NumberAt(data, 0, 4) \in Nat
        BY <1>9, <4>1
      <4> QED
        BY <1>1, <4>2, <4>3
    <3> QED
      BY <1>1, <3>1, NoLength
  <2>2. ~check_size_in_buffer(data, 3)
    <3>1. NumberAt(data, 0, 3) >= Len(data)
      BY <1>1, <1>2, <1>5, <1>8, <1>9
    <3> QED
      BY <1>1, <3>1, NoLength
  <2>3. LengthSize(data) = 2
    BY <1>4, <1>8, <2>1, <2>2 DEF LengthSize
  <2> QED
    BY <1>4, <1>8, <2>3
<1> QED
  BY <1>2, <1>6, <1>7, <1>8
-----------------------------------------------------------------------------
\* The last packet given out is one of the file's, written and measured by the
\* format of its track, in a buffer with some room.
Written(format, data, offset) ==
  /\ result.written = formatPackage(format, data)
  /\ result.value = Least(Room(offset), getPackageSize(format, data))
Given ==
  GivesPacket =>
    /\ delivered[currentTrack][Len(delivered[currentTrack])] \in 1..Len(file.packets)
    /\ \E offset \in Offsets : Written(selectFormat(file, currentTrack), Sample.data, offset)

\* What a package gives when it is read is what it should.
LEMMA WholeWhenGiven == ASSUME TypeOK, Given PROVE SamplesAreWhole
<1> SUFFICES ASSUME GivesPacket PROVE SamplesAreWhole
  BY DEF SamplesAreWhole, UnitsSurvive, NothingCut
<1> PICK packet : packet = Sample
  OBVIOUS
<1> PICK format : format = selectFormat(file, currentTrack)
  OBVIOUS
<1>1. packet \in Packets
  <2>1. delivered[currentTrack][Len(delivered[currentTrack])] \in 1..Len(file.packets)
    BY DEF Given
  <2> QED
    BY <2>1, FileFacts DEF TypeOK, Sample
<1>2. packet.data \in Seq(Bytes)
  BY <1>1 DEF Packets
<1>3. PICK offset \in Offsets : Written(format, packet.data, offset)
  BY DEF Given
<1>4. UnitsSurvive
  <2> SUFFICES ASSUME format.mAVCCFound, IsPackage(packet)
               PROVE  result.written = AnnexB(packet.units, packet.lengthSize)
    BY DEF UnitsSurvive
  <2>1. format.isAVC
    BY DEF selectFormat, AVCCodecMeta, PlainCodecMeta, NoFormat
  <2>2. /\ LengthSize(packet.data) = packet.lengthSize
        /\ packet.lengthSize # 0
        /\ Units(packet.data, packet.lengthSize) = packet.units
    BY <1>1, PackageKept
  <2> QED
    BY <1>3, <2>1, <2>2 DEF Written, formatPackage
<1>5. NothingCut
  <2>1. /\ getPackageSize(format, packet.data) \in Nat
        /\ Len(formatPackage(format, packet.data)) \in Nat
        /\ Len(formatPackage(format, packet.data)) <= getPackageSize(format, packet.data)
    BY <1>2, SizeCovers
  <2>2. \/ result.value = Room(offset)
        \/ result.value = getPackageSize(format, packet.data)
    BY <1>3 DEF Written, Least
  <2>3. result.written = formatPackage(format, packet.data)
    BY <1>3 DEF Written
  <2>4. CASE result.value = Room(offset)
    BY <2>4 DEF NothingCut
  <2>5. CASE result.value = getPackageSize(format, packet.data)
    BY <2>1, <2>3, <2>5 DEF NothingCut
  <2> QED
    BY <2>2, <2>4, <2>5
<1> QED
  BY <1>4, <1>5 DEF SamplesAreWhole

\* A step after which no packet has just been given, or the same one still.
LEMMA SameGiven ==
  ASSUME Given, UNCHANGED <<file, currentTrack, delivered, result>>
  PROVE  Given'
BY DEF Given, GivesPacket, Sample, Written

\* The loop in advance gives out nothing, it may only forget the current track.
LEMMA LoopGiven ==
  ASSUME Given, ReadFrame, calling # "readSampleData"
  PROVE  Given'
<1>1. CASE UNCHANGED <<file, currentTrack, delivered, result>>
  BY <1>1, SameGiven
<1>2. CASE currentTrack' = "none"
  BY <1>2 DEF Given, GivesPacket
<1>3. CASE result'.call # "readSampleData"
  BY <1>3 DEF Given, GivesPacket
<1>4. UNCHANGED <<file, delivered>>
  BY DEF ReadFrame
<1>5. currentTrack' = currentTrack \/ currentTrack' = "none"
  BY DEF ReadFrame
<1>6. result' = result \/ result'.call \in {"advance", calling}
  BY DEF ReadFrame, Returns, GoesOn
<1> QED
  BY <1>1, <1>2, <1>3, <1>4, <1>5, <1>6

\* A packet that is read is written by the format of its track.
LEMMA ReadGiven ==
  ASSUME IInv, Given, NEW offset \in Offsets, readSampleData(offset)
  PROVE  Given'
<1>1. CASE ReadRefused(offset)
  BY <1>1 DEF ReadRefused, Answer, Given, GivesPacket
<1>2. CASE ReadNothing
  BY <1>2 DEF ReadNothing, Given, GivesPacket
<1>3. /\ delivered \in [Kinds -> Seq(Nat)]
      /\ mPacketQueue \in [Kinds -> Seq(1..Len(file.packets))]
  BY DEF IInv, TypeOK
<1>4. ASSUME NEW k \in Kinds, ReadHeader(k, offset) PROVE Given'
  <2>1. delivered'[k] = Append(delivered[k], 0) /\ currentTrack' = k
    BY <1>3, <1>4 DEF ReadHeader
  <2>2. delivered[k] \in Seq(Nat)
    BY <1>3
  <2>3. delivered'[k][Len(delivered'[k])] = 0
    BY <2>1, <2>2
  <2> QED
    BY <2>1, <2>3 DEF Given, GivesPacket
<1>5. ASSUME NEW k \in Kinds, ReadPacket(k, offset) PROVE Given'
  <2> PICK p : p = Head(mPacketQueue[k])
    OBVIOUS
  <2>1. p \in 1..Len(file.packets)
    <3>1. mPacketQueue[k] # <<>>
      BY <1>5, CurrentIsSelected DEF ReadPacket
    <3>2. mPacketQueue[k] \in Seq(1..Len(file.packets))
      BY <1>3
    <3> QED
      BY <3>1, <3>2, HeadTailProperties
  <2>2. delivered'[k] = Append(delivered[k], p) /\ currentTrack' = k /\ file' = file
    BY <1>3, <1>5 DEF ReadPacket
  <2>3. delivered[k] \in Seq(Nat) /\ p \in Nat
    BY <1>3, <2>1
  <2>4. delivered'[k][Len(delivered'[k])] = p
    BY <2>2, <2>3
  <2>5. Sample' = file.packets[p]
    BY <2>2, <2>4 DEF Sample
  <2>6. Written(selectFormat(file, k), file.packets[p].data, offset)'
    BY <1>5, <2>2 DEF ReadPacket, Answer, Written, Room
  <2> QED
    BY <2>1, <2>2, <2>4, <2>5, <2>6 DEF Given
<1> QED
  BY <1>1, <1>2, <1>4, <1>5 DEF readSampleData

\* No call but readSampleData answers with a packet.
LEMMA StepGiven == IInv /\ Given /\ [Next]_vars => Given'
<1> SUFFICES ASSUME IInv, Given, [Next]_vars PROVE Given'
  OBVIOUS
<1>1. CASE \/ setDataSource \/ release \/ getSampleTime \/ SeekFails
           \/ \E k \in Kinds : selectTrack(k) \/ unselectTrack(k)
  <2>1. result'.call # "readSampleData"
    BY <1>1 DEF setDataSource, release, getSampleTime, SeekFails, selectTrack,
                unselectTrack, Answer
  <2> QED
    BY <2>1 DEF Given, GivesPacket
<1>2. CASE advance
  BY <1>2, SameGiven DEF advance, demuxVars
<1>3. CASE getSampleTrackIndex
  <2>1. UNCHANGED <<file, currentTrack, delivered>>
    BY <1>3 DEF getSampleTrackIndex, demuxVars
  <2>2. result' = result \/ result'.call # "readSampleData"
    BY <1>3 DEF getSampleTrackIndex, Answer
  <2>3. CASE result' = result
    BY <2>1, <2>3, SameGiven
  <2>4. CASE result'.call # "readSampleData"
    BY <2>4 DEF Given, GivesPacket
  <2> QED
    BY <2>2, <2>3, <2>4
<1>4. CASE \E p \in 1..Len(file.packets) : seekTo(p)
  <2>1. currentTrack' = "none"
    BY <1>4 DEF seekTo
  <2> QED
    BY <2>1 DEF Given, GivesPacket
<1>5. CASE ReadFrame
  <2>1. calling # "readSampleData"
    BY DEF IInv, TypeOK
  <2> QED
    BY <1>5, <2>1, LoopGiven
<1>6. CASE \E offset \in Offsets : readSampleData(offset)
  BY <1>6, ReadGiven
<1>7. CASE UNCHANGED vars
  BY <1>7, SameGiven DEF vars, demuxVars
<1> QED
  BY <1>1, <1>2, <1>3, <1>4, <1>5, <1>6, <1>7 DEF Next

\* A reader with room for a sample gets all of it: the units of a package as they
\* are, and a size that covers what was written, whatever the bytes, the room and
\* the order of calls (AVCFormat::formatPackage, getPackageSize).
THEOREM SamplesReachTheReader == Spec => []SamplesAreWhole
<1>1. Init => Given
  BY DEF Init, Given, GivesPacket
<1>2. IInv /\ Given => SamplesAreWhole
  BY WholeWhenGiven DEF IInv
<1> QED
  BY <1>1, <1>2, InitTyped, StepTyped, StepGiven, PTL DEF Spec
=============================================================================
