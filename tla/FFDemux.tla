------------------------------- MODULE FFDemux -------------------------------
(* The extractor that demultiplexes with libavformat: src/jni/FFDemux.cpp    *)
(* and the natives of FFExtractor that call it (ExoPlayerLibJNI.cpp). One    *)
(* thread calls, and no call runs beside another. A track is named by its    *)
(* kind. The file is its header, block 0, and one block per packet.          *)
EXTENDS FFIO, PTSPopulator, AVCFormat, FiniteSets

CONSTANTS Files,                \* the files there are
          Capacity,             \* of the buffer samples are read into
          Offsets,              \* where in it the caller wants a sample
          ReadAhead             \* packets left when libavformat may have met
                                \* the end of the file already

Kinds == {"video", "audio", "subtitle"}
Bytes == 0..255

\* A packet also tells what its data are: units behind lengths of so many bytes.
Packets == [stream : Nat, pts : Int, dts : Int, data : Seq(Bytes),
            units : Seq(Seq(Bytes)), lengthSize : Nat]
ASSUME FilesAssumption ==
  \A f \in Files :
    /\ f.best \in [Kinds -> Int]
    /\ \A j, k \in Kinds : (f.best[j] >= 0 /\ f.best[j] = f.best[k]) => j = k
    /\ f.startTime \in Int
    /\ f.packets \in Seq(Packets)
ASSUME ReaderAssumption ==
  Capacity \in Nat /\ Offsets \subseteq Nat /\ ReadAhead \in Nat

Rank(k) == IF k = "video" THEN 0 ELSE IF k = "audio" THEN 1 ELSE 2

VARIABLES file,                 \* what is to be read
          demux,                \* "new", "open", "failed" or "released"
          streamIndex,          \* of each kind: its stream, -1 not selected
          mExtraPushed,         \* of each kind: 0 while its header is due
          mPacketQueue,         \* of each kind: packets read and not taken
          currentTrack,         \* a kind or "none"
          mStatus,              \* of the last av_read_frame
          mSampleTimeUs,
          mPTSPopulator,
          calling,              \* the call that has not returned
          result,               \* of the last call, as Java sees it
          delivered,            \* of each kind: what was taken, 0 a header
          stale                 \* of each kind: queued since before a seek

demuxVars == <<file, demux, streamIndex, mExtraPushed, mPacketQueue, currentTrack,
               mStatus, mSampleTimeUs, mPTSPopulator, delivered, stale>>
vars == <<ioVars, demuxVars, calling, result>>
-----------------------------------------------------------------------------
\* What post_init makes of the file: a track for the best stream of each kind.
Found(f) == {k \in Kinds : f.best[k] >= 0}
TrackIndex(f, k) == Cardinality({j \in Found(f) : Rank(j) < Rank(k)})
TrackCount(f) == Cardinality(Found(f))
FirstOf(S) == CHOOSE k \in S : \A j \in S : Rank(k) <= Rank(j)

selectFormat(f, k) == IF f.codec[k] = "h264" THEN AVCCodecMeta(f.extradata[k])
                      ELSE PlainCodecMeta(f.extradata[k])

\* The header is there to be read. post_init gets to its end: there is a track
\* to play, and a mime type for every track.
openAVFormatContext(fd, length) == {n > 0 : n \in readAt(fd, length, 0, 1)}
convertCodecIdToMimeType(codec) == IF codec = "unknown" THEN "none" ELSE codec
post_init(f) == /\ Found(f) \cap {"video", "audio"} # {}
                /\ \A k \in Found(f) : convertCodecIdToMimeType(f.codec[k]) # "none"

mStartTimeUs(f) == IF f.startTime = kUnknownPTS THEN 0 ELSE f.startTime

\* native_setup, of an extractor for some file.
Init == /\ file \in Files
        /\ demux = "new"
        /\ IoInit
        /\ streamIndex = [k \in Kinds |-> -1]
        /\ mExtraPushed = [k \in Kinds |-> IF k = "subtitle" THEN 2 ELSE 0]
        /\ mPacketQueue = [k \in Kinds |-> <<>>]
        /\ currentTrack = "none"
        /\ mStatus = 0
        /\ mSampleTimeUs = 0
        /\ mPTSPopulator = NewPopulator(0)
        /\ delivered = [k \in Kinds |-> <<>>]
        /\ stale = [k \in Kinds |-> 0]
        /\ calling = "none"
        /\ result = [call |-> "native_setup", value |-> 0, written |-> <<>>]

Answer(call, value, written) ==
  /\ calling = "none"
  /\ result' = [call |-> call, value |-> value, written |-> written]
  /\ UNCHANGED calling
-----------------------------------------------------------------------------
\* setDataSource(path): the file is opened, its header read. The natives do not
\* look at the outcome.
setDataSource ==
  /\ demux = "new"
  /\ Answer("setDataSource", 0, <<>>)
  /\ FileSource(Len(file.packets) + 1)
  /\ init
  /\ \E opens \in openAVFormatContext(mFd', mLength') :
       IF opens /\ post_init(file)
       THEN /\ demux' = "open"
            /\ mNextReadPos' = 1
            /\ mPTSPopulator' = NewPopulator(TrackCount(file))
       ELSE demux' = "failed" /\ UNCHANGED <<mNextReadPos, mPTSPopulator>>
  /\ UNCHANGED <<file, streamIndex, mExtraPushed, mPacketQueue, currentTrack,
                 mStatus, mSampleTimeUs, delivered, stale>>

\* selectTrack and unselectTrack. What is queued stays queued.
selectTrack(k) ==
  /\ demux = "open"
  /\ k \in Found(file)
  /\ Answer("selectTrack", 0, <<>>)
  /\ streamIndex' = [streamIndex EXCEPT ![k] = file.best[k]]
  /\ UNCHANGED <<ioVars, file, demux, mExtraPushed, mPacketQueue, currentTrack,
                 mStatus, mSampleTimeUs, mPTSPopulator, delivered, stale>>

unselectTrack(k) ==
  /\ demux = "open"
  /\ k \in Found(file)
  /\ Answer("unselectTrack", 0, <<>>)
  /\ streamIndex' = [streamIndex EXCEPT ![k] = -1]
  /\ UNCHANGED <<ioVars, file, demux, mExtraPushed, mPacketQueue, currentTrack,
                 mStatus, mSampleTimeUs, mPTSPopulator, delivered, stale>>
-----------------------------------------------------------------------------
\* The calls that read the file: advance once; getSampleTrackIndex and seekTo
\* again and again while there is no current track.
advance ==
  /\ demux = "open"
  /\ calling = "none"
  /\ calling' = "advance"
  /\ UNCHANGED <<ioVars, demuxVars, result>>

getSampleTrackIndex ==
  /\ demux = "open"
  /\ IF currentTrack = "none"
     THEN /\ calling = "none"
          /\ calling' = "getSampleTrackIndex"
          /\ UNCHANGED result
     ELSE Answer("getSampleTrackIndex", TrackIndex(file, currentTrack), <<>>)
  /\ UNCHANGED <<ioVars, demuxVars>>

\* av_seek_frame goes to a packet, or fails and goes nowhere.
SeekFails ==
  /\ demux = "open"
  /\ Answer("seekTo", 0, <<>>)
  /\ mPTSPopulator' = reset(mPTSPopulator)
  /\ UNCHANGED <<ioVars, file, demux, streamIndex, mExtraPushed, mPacketQueue,
                 currentTrack, mStatus, mSampleTimeUs, delivered, stale>>

seekTo(p) ==
  /\ demux = "open"
  /\ calling = "none"
  /\ seek(p) >= 0
  /\ mNextReadPos' = seek(p)
  /\ mPTSPopulator' = reset(mPTSPopulator)
  /\ currentTrack' = "none"
  /\ calling' = "seekTo"
  /\ stale' = [k \in Kinds |-> Len(mPacketQueue[k])]
  /\ delivered' = [k \in Kinds |-> <<>>]
  /\ UNCHANGED <<mFd, mLength, mInitCheck, file, demux, streamIndex, mExtraPushed,
                 mPacketQueue, mStatus, mSampleTimeUs, result>>

\* One turn of the loop in advance. It goes on after a packet nobody wants; when
\* it ends, so does the call, unless that waits for a current track.
GoesOn == UNCHANGED <<calling, result>>
Returns(status) ==
  IF calling = "advance"
  THEN /\ calling' = "none"
       /\ result' = [call |-> "advance", value |-> IF status = 0 THEN 0 ELSE 1,
                     written |-> <<>>]
  ELSE IF currentTrack' = "none" THEN GoesOn
  ELSE /\ calling' = "none"
       /\ result' = [call |-> calling, written |-> <<>>,
                     value |-> IF calling = "seekTo" THEN 0
                               ELSE TrackIndex(file, currentTrack')]

\* The kinds a packet is queued for: the first whose selected stream it is of.
Wanting(p) == {k \in Kinds : streamIndex[k] = file.packets[p].stream}
MayHaveEnded(p) == p + ReadAhead > Len(file.packets)

\* The status of av_read_frame, by what reading the file gave.
Status_EndIsNoError(n) == IF n >= 0 THEN 0 ELSE -1
Status(n) == IF n > 0 THEN 0 ELSE -1

Queue(p) == LET k == FirstOf(Wanting(p))
            IN  mPacketQueue' = [mPacketQueue EXCEPT ![k] = Append(@, p)]

ReadFrame ==
  /\ calling # "none"
  /\ \E n \in read(mNextReadPos) :
       /\ mNextReadPos' = Moved(mNextReadPos, n)
       /\ mStatus' = Status(n)
       /\ \/ /\ n > 0
             /\ IF Wanting(mNextReadPos) # {} /\ file.packets[mNextReadPos].data # <<>>
                THEN Queue(mNextReadPos) /\ UNCHANGED currentTrack /\ Returns(0)
                ELSE GoesOn /\ UNCHANGED <<mPacketQueue, currentTrack>>
          \/ /\ n > 0 => MayHaveEnded(mNextReadPos)
             /\ currentTrack' = "none"
             /\ UNCHANGED mPacketQueue
             /\ Returns(mStatus')
  /\ UNCHANGED <<mFd, mLength, mInitCheck, file, demux, streamIndex, mExtraPushed,
                 mSampleTimeUs, mPTSPopulator, delivered, stale>>
-----------------------------------------------------------------------------
\* The track a sample is taken of next: one whose header is due, else one with
\* a packet.
HeaderDue == {k \in Kinds : streamIndex[k] >= 0 /\ mExtraPushed[k] = 0}
Filled == {k \in Kinds : streamIndex[k] >= 0 /\ mPacketQueue[k] # <<>>}
select_current_track_IgnoresSelection ==
  IF HeaderDue # {} THEN FirstOf(HeaderDue)
  ELSE LET queued == {k \in Kinds : mPacketQueue[k] # <<>>}
       IN  IF queued # {} THEN FirstOf(queued) ELSE "none"
select_current_track ==
  IF HeaderDue # {} THEN FirstOf(HeaderDue)
  ELSE IF Filled # {} THEN FirstOf(Filled)
  ELSE "none"

\* The size of the buffer behind offset, as the natives pass it, from which
\* readSampleData takes the offset once more.
Room(offset) == Capacity - 2 * offset

ReadRefused(offset) ==
  /\ Room(offset) < 0 \/ mStatus < 0
  /\ Answer("readSampleData", -1, <<>>)
  /\ UNCHANGED <<ioVars, demuxVars>>

ReadNothing ==
  /\ select_current_track = "none"
  /\ Answer("readSampleData", 0, <<>>)
  /\ currentTrack' = "none"
  /\ UNCHANGED <<ioVars, file, demux, streamIndex, mExtraPushed, mPacketQueue,
                 mStatus, mSampleTimeUs, mPTSPopulator, delivered, stale>>

\* Whichever track a header is due for, it is the first one's that is given.
ReadHeader(k, offset) ==
  LET meta == selectFormat(file, FirstOf(Found(file))).mcodecMeta
      given == Least(Room(offset), Len(meta))
  IN  /\ k = select_current_track
      /\ mExtraPushed[k] = 0
      /\ Answer("readSampleData", given, SubSeq(meta, 1, given))
      /\ currentTrack' = k
      /\ mExtraPushed' = [mExtraPushed EXCEPT ![k] = 1]
      /\ delivered' = [delivered EXCEPT ![k] = Append(@, 0)]
      /\ UNCHANGED <<ioVars, file, demux, streamIndex, mPacketQueue, mStatus,
                     mSampleTimeUs, mPTSPopulator, stale>>

\* The time of a sample, from its own stamps or what the populator predicts. The
\* populator has room for the tracks and is asked about streams: beyond them
\* it may say either.
Normalized(f, pts, dts) ==
  IF pts = kUnknownPTS THEN dts - mStartTimeUs(f)
  ELSE IF pts - mStartTimeUs(f) \in -9..-1 THEN 0
  ELSE pts - mStartTimeUs(f)

Timed(packet) ==
  IF packet.stream \in DOMAIN mPTSPopulator.mLastPTS
  THEN /\ mPTSPopulator' = Computed(mPTSPopulator, packet.stream, packet.pts)
       /\ mSampleTimeUs' =
            Normalized(file, computePTS(mPTSPopulator, packet.stream, packet.pts),
                       packet.dts)
  ELSE /\ UNCHANGED mPTSPopulator
       /\ \E pts \in {packet.pts, kUnknownPTS} :
            mSampleTimeUs' = Normalized(file, pts, packet.dts)

ReadPacket(k, offset) ==
  LET p == Head(mPacketQueue[k])
      data == file.packets[p].data
      format == selectFormat(file, k)
  IN  /\ k = select_current_track
      /\ mExtraPushed[k] # 0
      /\ Answer("readSampleData", Least(Room(offset), getPackageSize(format, data)),
                formatPackage(format, data))
      /\ currentTrack' = k
      /\ mPacketQueue' = [mPacketQueue EXCEPT ![k] = Tail(@)]
      /\ delivered' = [delivered EXCEPT ![k] = Append(@, p)]
      /\ Timed(file.packets[p])
      /\ UNCHANGED <<ioVars, file, demux, streamIndex, mExtraPushed, mStatus, stale>>

readSampleData(offset) ==
  /\ demux = "open"
  /\ \/ ReadRefused(offset)
     \/ /\ mStatus >= 0
        /\ Room(offset) >= 0
        /\ \/ ReadNothing
           \/ \E k \in Kinds : ReadHeader(k, offset) \/ ReadPacket(k, offset)

\* getSampleTime returns the status of the call, not the time it puts aside.
getSampleTime ==
  /\ demux = "open"
  /\ Answer("getSampleTime", 0, <<>>)
  /\ UNCHANGED <<ioVars, demuxVars>>

\* release deletes the wrapper, and what it wraps is left as it is. Nothing is
\* called any more: the Java object keeps a pointer to what was deleted.
release ==
  /\ demux \in {"open", "failed"}
  /\ Answer("release", 0, <<>>)
  /\ demux' = "released"
  /\ UNCHANGED <<ioVars, file, streamIndex, mExtraPushed, mPacketQueue, currentTrack,
                 mStatus, mSampleTimeUs, mPTSPopulator, delivered, stale>>

Next ==
  \/ setDataSource \/ release
  \/ \E k \in Kinds : selectTrack(k) \/ unselectTrack(k)
  \/ advance \/ getSampleTrackIndex \/ getSampleTime
  \/ SeekFails \/ \E p \in 1..Len(file.packets) : seekTo(p)
  \/ ReadFrame
  \/ \E offset \in Offsets : readSampleData(offset)

Spec == Init /\ [][Next]_vars

\* A call that was made runs on, and a player's loop advances again and again.
FairSpec == Spec /\ WF_vars(ReadFrame) /\ SF_vars(advance)
-----------------------------------------------------------------------------
TypeOK ==
  /\ IoTypeOK
  /\ mNextReadPos \in 0..(Len(file.packets) + 1)
  /\ file \in Files
  /\ demux \in {"new", "open", "failed", "released"}
  /\ streamIndex \in [Kinds -> Int]
  /\ \A k \in Kinds : streamIndex[k] \in {-1, file.best[k]}
  /\ mExtraPushed \in [Kinds -> 0..2]
  /\ mPacketQueue \in [Kinds -> Seq(1..Len(file.packets))]
  /\ currentTrack \in Found(file) \cup {"none"}
  /\ mStatus \in {-1, 0}
  /\ mSampleTimeUs \in Int
  /\ mPTSPopulator \in Populators(0) \cup Populators(TrackCount(file))
  /\ delivered \in [Kinds -> Seq(Nat)]
  /\ stale \in [Kinds -> Nat]
  /\ calling \in {"none", "advance", "getSampleTrackIndex", "seekTo"}

\* The extractor is a Demultiplexer: what was queued before a seek does not
\* count, since after it nothing may be taken.
KindOf(f) ==
  [p \in DOMAIN f.packets |->
     IF f.packets[p].data # <<>> /\ \E k \in Kinds : f.best[k] = f.packets[p].stream
     THEN CHOOSE k \in Kinds : f.best[k] = f.packets[p].stream ELSE "other"]
Selected == {k \in Kinds : streamIndex[k] >= 0}
HeaderIsDue == [k \in Kinds |-> mExtraPushed[k] = 0]
Waiting == [k \in Kinds |->
              SubSeq(mPacketQueue[k], stale[k] + 1, Len(mPacketQueue[k]))]
Abstract == INSTANCE Demultiplexer
              WITH kindOf <- KindOf(file), position <- mNextReadPos,
                   selected <- Selected, headerDue <- HeaderIsDue,
                   waiting <- Waiting, taken <- delivered
\* What is taken of a track is its header and then the packets read while it
\* was selected, in the order of the file, each once (advance, readSampleData).
Demultiplexes == Abstract!Spec

\* The last packet given out, of the current track.
Sample == file.packets[delivered[currentTrack][Len(delivered[currentTrack])]]
GivesPacket == /\ result.call = "readSampleData"
               /\ result.value >= 0
               /\ currentTrack # "none"
               /\ delivered[currentTrack] # <<>>
               /\ delivered[currentTrack][Len(delivered[currentTrack])] # 0

\* The data of a packet are its units behind their lengths, of which no other
\* size can be read into them: 4-byte lengths begin with a zero, and a package
\* with shorter ones is at most 256 times as long as its first unit.
IsPackage(packet) ==
  LET data == packet.data
      units == packet.units
      n == packet.lengthSize
      end[i \in 0..Len(units)] == IF i = 0 THEN 0 ELSE end[i - 1] + n + Len(units[i])
  IN  /\ n \in 2..4
      /\ units # <<>>
      /\ \A i \in DOMAIN units : units[i] # <<>>
      /\ Len(data) = end[Len(units)]
      /\ \A i \in DOMAIN units : /\ NumberAt(data, end[i - 1], n) = Len(units[i])
                                /\ SubSeq(data, end[i - 1] + n + 1, end[i]) = units[i]
      /\ n = 4 => \A i \in DOMAIN units : Len(units[i]) < 256 * 256 * 256
      /\ n # 4 => Len(data) <= 256 * Len(units[1])

\* The units of an H.264 package reach the decoder whole, each behind a start
\* code, for a stream whose header was understood (AVCFormat::formatPackage).
UnitsSurvive ==
  /\ GivesPacket
  /\ selectFormat(file, currentTrack).mAVCCFound
  /\ IsPackage(Sample)
  => result.written = AnnexB(Sample.units, Sample.lengthSize)

\* The size readSampleData returns covers all that was written, whatever the data
\* are, unless it is all the room there was (AVCFormat::getPackageSize against
\* formatPackage).
NothingCut ==
  GivesPacket => \/ result.value >= Len(result.written)
                 \/ result.value \in {Room(offset) : offset \in Offsets}

\* Both of the above: what a reader with room for a sample gets is all of it.
SamplesAreWhole == UnitsSurvive /\ NothingCut

\* A stream whose time stamps are distrusted has, or had, two packets after one
\* another with the same one (PTSPopulator::computePTS).
DistrustedOnlyIfRepeated ==
  \A s \in DOMAIN mPTSPopulator.mIsPTSReliable :
    ~mPTSPopulator.mIsPTSReliable[s] =>
      \E p, q \in DOMAIN file.packets :
        /\ p < q
        /\ file.packets[p].stream = s /\ file.packets[q].stream = s
        /\ file.packets[p].pts = file.packets[q].pts
        /\ file.packets[p].pts # kUnknownPTS

\* A player that reads and advances until it is told that there is no more is
\* told so, as long as its calls return (VideoPlayer.run).
EndIsReported ==
  /\ <>[](demux = "open" /\ calling \in {"none", "advance"})
  /\ []<><<readSampleData(0)>>_vars
  => <>(result.call = "readSampleData" /\ result.value = -1)
=============================================================================
