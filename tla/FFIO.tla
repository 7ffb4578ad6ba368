--------------------------------- MODULE FFIO ---------------------------------
(* The file below the demultiplexer: FileSource and the adapter FFIO through *)
(* which libavformat reads it (src/jni/FileSource.cpp, src/jni/FFIO.cpp).    *)
(* Lengths and positions count blocks.                                       *)
EXTENDS Integers

CONSTANT MayFail                \* a read of the file may return an error
ASSUME MayFailAssumption == MayFail \in BOOLEAN

NO_INIT == -19
UNKNOWN_ERROR == -1

VARIABLES mFd,                  \* -1 when the file could not be opened
          mLength,              \* the length of the file, -1 if not open
          mInitCheck,           \* the adapter has a source
          mNextReadPos          \* where the next read begins

ioVars == <<mFd, mLength, mInitCheck, mNextReadPos>>

IoTypeOK ==
  /\ mFd \in {-1, 3}
  /\ mLength \in Nat \cup {-1}
  /\ mInitCheck \in BOOLEAN
  /\ mNextReadPos \in Nat

\* The adapter before init; FileSource of a file of so many blocks, which may not
\* open; and init with that source.
IoInit == mFd = -1 /\ mLength = -1 /\ mInitCheck = FALSE /\ mNextReadPos = 0

FileSource(length) == \/ mFd' = 3 /\ mLength' = length
                      \/ mFd' = -1 /\ mLength' = -1
init == ~mInitCheck /\ mInitCheck' = TRUE

Least(a, b) == IF a < b THEN a ELSE b

\* FileSource::readAt of up to size blocks: the results it may have.
readAt(fd, length, offset, size) ==
  IF fd < 0 THEN {NO_INIT}
  ELSE IF length >= 0 /\ offset >= length THEN {0}
  ELSE LET available == IF length >= 0 THEN Least(size, length - offset) ELSE size
       IN  1..available \cup (IF MayFail THEN {UNKNOWN_ERROR} ELSE {})

\* FFIO::read when its source reads one block from position pos.
read(pos) == IF mInitCheck THEN readAt(mFd, mLength, pos, 1) ELSE {-1}

\* Where FFIO::read leaves the position after a result.
Moved_AlsoOnError(pos, result) == pos + 1
Moved(pos, result) == IF result > 0 THEN pos + result ELSE pos

\* FFIO::seek from the start of the file: the new position, or -1.
size == IF mFd < 0 THEN 0 ELSE mLength
seek(offset) == IF ~mInitCheck \/ offset < 0 \/ offset > size THEN -1 ELSE offset
=============================================================================
