-------------------------- MODULE MCCacheDataSource --------------------------
(* Two readers: one of a whole stream or the begin of another, which waits   *)
(* for holes, and one of the middle of the first, which does not and leaves  *)
(* the cache alone once it failed.                                           *)
EXTENDS CacheDataSource

TwoReaders == {"r1", "r2"}
Piece(k, p, n) == [key |-> k, position |-> p, length |-> n]
WholeAndMiddle == [r1 |-> {Piece(1, 0, 3), Piece(2, 0, 1)}, r2 |-> {Piece(1, 1, 1)}]
OneBlocks == [r1 |-> TRUE, r2 |-> FALSE]
OtherIgnores == [r1 |-> FALSE, r2 |-> TRUE]
=============================================================================
