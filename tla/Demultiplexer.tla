---------------------------- MODULE Demultiplexer ----------------------------
(* What an extractor promises: of each selected kind its header first, if it *)
(* has one, and then the packets read while it was selected, in the order of *)
(* the file, each once. Only packets that libavformat meets together with    *)
(* the end of the file may be missing.                                       *)
EXTENDS Integers, Sequences

CONSTANTS Kinds,                \* of tracks
          ReadAhead             \* packets left when the end may have been met

VARIABLES kindOf,               \* of each packet of the file, "other" for none
          position,             \* the packet to be read next
          selected,             \* the kinds samples are wanted of
          headerDue,            \* of each kind: its header was not taken yet
          waiting,              \* of each kind: packets read and not taken
          taken                 \* of each kind: packets taken, 0 its header

vars == <<kindOf, position, selected, headerDue, waiting, taken>>

Nothing == [k \in Kinds |-> <<>>]

Init ==
  /\ position = 0
  /\ selected = {}
  /\ headerDue = [k \in Kinds |-> k # "subtitle"]
  /\ waiting = Nothing
  /\ taken = Nothing

\* The file is opened.
Open == position = 0 /\ position' = 1
        /\ UNCHANGED <<kindOf, selected, headerDue, waiting, taken>>

Select(k) == /\ \/ selected' = selected \cup {k}
                \/ selected' = selected \ {k}
             /\ UNCHANGED <<kindOf, position, headerDue, waiting, taken>>

Read(k) == /\ position \in DOMAIN kindOf
           /\ kindOf[position] = k
           /\ k \in selected
           /\ position' = position + 1
           /\ waiting' = [waiting EXCEPT ![k] = Append(@, position)]
           /\ UNCHANGED <<kindOf, selected, headerDue, taken>>

Pass == /\ position \in DOMAIN kindOf
        /\ \/ kindOf[position] \notin selected
           \/ position + ReadAhead > Len(kindOf)
        /\ position' = position + 1
        /\ UNCHANGED <<kindOf, selected, headerDue, waiting, taken>>

TakeHeader(k) == /\ k \in selected
                 /\ headerDue[k]
                 /\ headerDue' = [headerDue EXCEPT ![k] = FALSE]
                 /\ taken' = [taken EXCEPT ![k] = Append(@, 0)]
                 /\ UNCHANGED <<kindOf, position, selected, waiting>>

Take(k) == /\ k \in selected
           /\ ~headerDue[k]
           /\ waiting[k] # <<>>
           /\ waiting' = [waiting EXCEPT ![k] = Tail(@)]
           /\ taken' = [taken EXCEPT ![k] = Append(@, Head(waiting[k]))]
           /\ UNCHANGED <<kindOf, position, selected, headerDue>>

\* Nothing of before a seek is taken after it.
Seek(p) == /\ position' = p
           /\ waiting' = Nothing
           /\ taken' = Nothing
           /\ UNCHANGED <<kindOf, selected, headerDue>>

Next == \/ Open \/ Pass
        \/ \E k \in Kinds : Select(k) \/ Read(k) \/ TakeHeader(k) \/ Take(k)
        \/ \E p \in DOMAIN kindOf : Seek(p)

Spec == Init /\ [][Next]_vars
=============================================================================
