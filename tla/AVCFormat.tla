------------------------------ MODULE AVCFormat ------------------------------
(* The conversion of samples (src/jni/formats): H.264 packages come out of  *)
(* an MP4 file as NAL units behind length fields of 2, 3 or 4 bytes, and     *)
(* the decoder wants each unit behind a start code. Bytes are numbers, a     *)
(* buffer is a sequence of them, and q counts the bytes before a position.   *)
EXTENDS Integers, SequencesExt

HDR_BUF_SIZE == 1024

\* The big-endian number in the n bytes of p after position q.
NumberAt(p, q, n) ==
  LET upTo[i \in 0..n] == IF i = 0 THEN 0 ELSE 256 * upTo[i - 1] + p[q + i]
  IN  upTo[n]

\* p is made of units behind n-byte lengths, the last ending where p does. A
\* 4-byte length whose first byte is set is taken for no length at all.
check_size_in_buffer(p, n) ==
  LET from[q \in 0..Len(p)] ==
        /\ q + n < Len(p)
        /\ n = 4 => p[q + 1] = 0
        /\ LET end == q + n + NumberAt(p, q, n)
           IN  end = Len(p) \/ (end < Len(p) /\ from[end])
  IN  from[0]

\* The units of such a p.
Units(p, n) ==
  LET from[q \in 0..Len(p)] ==
        LET end == q + n + NumberAt(p, q, n)
        IN  IF q + n >= Len(p) \/ end > Len(p) THEN <<>>
            ELSE <<SubSeq(p, q + n + 1, end)>> \o from[end]
  IN  from[0]

StartCode(n) == IF n = 3 THEN <<0, 0, 1>> ELSE <<0, 0, 0, 1>>

\* The units one after the other, each behind its start code.
AnnexB(units, n) == FlattenSeq([i \in DOMAIN units |-> StartCode(n) \o units[i]])

\* The length fields formatPackage finds in a package, 0 when it finds none.
LengthSize_SwappedOrder(in) ==
  IF check_size_in_buffer(in, 2) THEN 2
  ELSE IF check_size_in_buffer(in, 3) THEN 3
  ELSE IF check_size_in_buffer(in, 4) THEN 4 ELSE 0
LengthSize(in) ==
  IF check_size_in_buffer(in, 4) THEN 4
  ELSE IF check_size_in_buffer(in, 3) THEN 3
  ELSE IF check_size_in_buffer(in, 2) THEN 2 ELSE 0
-----------------------------------------------------------------------------
\* A formatter: whether it is an AVCFormat, whether that has found its header,
\* and the bytes to send before the first sample (mcodecMeta with its size).
NoFormat == [isAVC |-> FALSE, mAVCCFound |-> FALSE, mcodecMeta |-> <<>>]

\* k units behind 2-byte lengths, from position q of the header on.
ParameterSets(p, q, k) ==
  LET first[i \in 0..k] ==
        IF i = 0 THEN [units |-> <<>>, end |-> q]
        ELSE LET prev == first[i - 1]
                 end == prev.end + 2 + NumberAt(p, prev.end, 2)
             IN  [units |-> Append(prev.units, SubSeq(p, prev.end + 3, end)),
                  end |-> end]
  IN  first[k]

\* AVCFormat::formatCodecMeta. Only configurationVersion 1 is accepted, so the
\* branch for extra data that begins with a start code, which alone would set
\* mAVCFormatted, is never taken.
AVCCodecMeta(in) ==
  IF Len(in) \notin 10..HDR_BUF_SIZE THEN [NoFormat EXCEPT !.isAVC = TRUE]
  ELSE IF in[1] # 1 THEN [NoFormat EXCEPT !.isAVC = TRUE]
  ELSE LET sps == ParameterSets(in, 6, in[6] % 32)
           pps == ParameterSets(in, sps.end + 1, in[sps.end + 1])
           meta == AnnexB(sps.units \o pps.units, 4)
       IN  [isAVC |-> TRUE, mAVCCFound |-> Len(meta) < HDR_BUF_SIZE,
            mcodecMeta |-> meta]

\* StreamFormats::formatCodecMeta: the extra data as they are.
PlainCodecMeta(in) == [NoFormat EXCEPT !.mcodecMeta = in]

\* How many bytes a package will have, as the reader is told. Unlike
\* formatPackage it looks for 2-byte lengths first, and for no others.
getPackageSize(format, in) ==
  IF ~format.isAVC THEN Len(in)
  ELSE IF ~format.mAVCCFound THEN 0
  ELSE IF check_size_in_buffer(in, 2) THEN Len(AnnexB(Units(in, 2), 2))
  ELSE Len(in)

\* What is written to the reader's buffer: nothing for a package whose lengths
\* are not found.
formatPackage(format, in) ==
  IF ~format.isAVC THEN in
  ELSE IF ~format.mAVCCFound \/ LengthSize(in) = 0 THEN <<>>
  ELSE AnnexB(Units(in, LengthSize(in)), LengthSize(in))
=============================================================================
