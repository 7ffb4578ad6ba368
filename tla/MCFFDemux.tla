------------------------------ MODULE MCFFDemux ------------------------------
(* Files of a few packets for the extractor. A unit is a sequence of bytes,  *)
(* a package its units behind their lengths, and byte values are made up.    *)
EXTENDS FFDemux

Unknown == -100

\* A number in n bytes; units behind lengths of n bytes.
Number(number, n) == [i \in 1..n |-> IF i < n THEN 0 ELSE number]
Behind(units, n) ==
  LET upTo[i \in 0..Len(units)] ==
        IF i = 0 THEN <<>>
        ELSE upTo[i - 1] \o Number(Len(units[i]), n) \o units[i]
  IN  upTo[Len(units)]

\* Packets: of H.264 with n-byte lengths, of anything else as it is.
AVC(stream, pts, units, n) ==
  [stream |-> stream, pts |-> pts, dts |-> pts - 1, data |-> Behind(units, n),
   units |-> units, lengthSize |-> n]
Plain(stream, pts, data) ==
  [stream |-> stream, pts |-> pts, dts |-> pts, data |-> data,
   units |-> <<>>, lengthSize |-> 0]

\* The header of an H.264 stream in a file: version 1, one unit of each kind.
Sps == <<103, 66>>
Pps == <<104>>
Avcc == <<1, 66, 0, 30, 255, 225>> \o Number(2, 2) \o Sps \o <<1>> \o Number(1, 2) \o Pps
Asc == <<18, 16>>

\* A film in one track.
Film(n) ==
  [best |-> [video |-> 0, audio |-> -1, subtitle |-> -1],
   codec |-> [video |-> "h264", audio |-> "unknown", subtitle |-> "unknown"],
   extradata |-> [video |-> Avcc, audio |-> <<>>, subtitle |-> <<>>],
   startTime |-> Unknown,
   packets |-> <<AVC(0, 0, <<<<101, 136>>, <<6>>>>, n), AVC(0, 2, <<<<65, 1, 2>>>>, n),
                 AVC(0, 2, <<<<65, 3>>>>, n), AVC(0, 4, <<<<65>>>>, n)>>]
\* Video, sound and text, with a stream nobody wants and an empty packet.
Movie ==
  [best |-> [video |-> 0, audio |-> 2, subtitle |-> 3],
   codec |-> [video |-> "h264", audio |-> "aac", subtitle |-> "text"],
   extradata |-> [video |-> Avcc, audio |-> Asc, subtitle |-> <<>>],
   startTime |-> 3,
   packets |-> <<AVC(0, 2, <<<<101, 9>>>>, 4), Plain(2, 3, <<7>>), Plain(1, 3, <<8>>),
                 Plain(3, 4, <<>>), Plain(2, 5, <<5, 5>>)>>]
\* Two streams of sound, one without times, and one whose codec has no type.
Sound ==
  [best |-> [video |-> -1, audio |-> 0, subtitle |-> -1],
   codec |-> [video |-> "unknown", audio |-> "aac", subtitle |-> "unknown"],
   extradata |-> [video |-> <<>>, audio |-> Asc, subtitle |-> <<>>],
   startTime |-> 0,
   packets |-> <<Plain(0, Unknown, <<1>>), Plain(1, 0, <<2>>), Plain(0, Unknown, <<3>>)>>]
\* H.264 as a transport stream has it, behind start codes already.
Transport ==
  [best |-> [video |-> 0, audio |-> -1, subtitle |-> -1],
   codec |-> [video |-> "h264", audio |-> "unknown", subtitle |-> "unknown"],
   extradata |-> [video |-> AnnexB(<<Sps, Sps, Pps>>, 4), audio |-> <<>>, subtitle |-> <<>>],
   startTime |-> 0,
   packets |-> <<Plain(0, 0, AnnexB(<<<<101>>>>, 4))>>]
Odd == [Sound EXCEPT !.codec["audio"] = "unknown"]

AllFiles == {Film(2), Film(3), Film(4), Movie, Sound, Transport, Odd}
AtOffsets == {0, 1, 40}
=============================================================================
