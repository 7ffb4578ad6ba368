---------------------------- MODULE MCSharedLoading ----------------------------
(* Small instances of SharedLoading: video in long chunks, audio in short. *)
EXTENDS SharedLoading

Both == {"video", "audio"}
Durations == [video |-> 2, audio |-> 1]
Sizes == [video |-> 3, audio |-> 1]
Budgets == [video |-> 6, audio |-> 2]
TightBudgets == [video |-> 4, audio |-> 1]
=============================================================================
