-------------------------- MODULE MCChunkSampleSource --------------------------
(* Small instances of ChunkSampleSource: where the player seeks.           *)
EXTENDS ChunkSampleSource

Start == {0}
StartAndEnd == {0, LastSample}
MiddleAndEnd == {1, LastSample}
=============================================================================
