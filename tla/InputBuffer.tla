---------------------------- MODULE InputBuffer ----------------------------
(***************************************************************************)
(* The input side of ConnectionHandler (connectionhandler.cpp) with its    *)
(* Buffer (buffer.cpp): bytes go from the socket through a temporary       *)
(* buffer into the input buffer, the AMQP parser takes whole frames from   *)
(* its front, and the rest is moved to the front.  A buffer that is full   *)
(* grows once; the second time the connection is closed.                   *)
(*                                                                         *)
(* The bytes are counted, not named.  One iteration of the loop of         *)
(* handleReadyRead() is one step.  The model starts when the first AMQP    *)
(* connection is attached: before that the server has nothing to say.      *)
(***************************************************************************)
EXTENDS Naturals

CONSTANTS
    InBufferSize,     \* IN_BUFFER_SIZE
    TempBufferSize,   \* TEMP_BUFFER_SIZE
    ArrivalSizes,     \* how many bytes the network may bring at once
    MaxPending        \* bound: bytes waiting in the socket

ASSUME BufferAssumption ==
    /\ InBufferSize \in Nat \ {0}
    /\ TempBufferSize \in Nat \ {0}
    /\ ArrivalSizes \subseteq Nat \ {0}
    /\ MaxPending \in Nat

VARIABLES
    size,      \* _inputBuffer.size()
    use,       \* _inputBuffer.dataSize()
    resized,   \* _isInputBufferResized
    pending,   \* _socket.bytesAvailable()
    gap,       \* were bytes read from the socket that the parser will never see?
    closed     \* handleReadyRead() has given this connection up

vars == <<size, use, resized, pending, gap, closed>>

TypeOK ==
    /\ size \in Nat
    /\ use \in Nat
    /\ resized \in BOOLEAN
    /\ pending \in Nat
    /\ gap \in BOOLEAN
    /\ closed \in BOOLEAN

Init ==
    /\ size = InBufferSize
    /\ use = 0
    /\ resized = FALSE
    /\ pending = 0
    /\ gap = FALSE
    /\ closed = FALSE

Smaller(a, b) == IF a < b THEN a ELSE b

BytesToRead == Smaller(pending, TempBufferSize)

Available == size - use

\* Mutant: a chunk that does not fit always ends the connection.
OverflowsAtOnce == Available < BytesToRead

\* The chunk does not fit, and the buffer has grown before.
Overflows == Available < BytesToRead /\ resized

\* Mutant: the buffer grows by the chunk, without what is used already.
GrownSizeOfChunk ==
    IF Available < BytesToRead THEN InBufferSize + BytesToRead - use ELSE size

\* Mutant: the buffer doubles.
GrownSizeDoubled ==
    IF Available < BytesToRead THEN 2 * InBufferSize ELSE size

\* The size in which the chunk is stored.
GrownSize ==
    IF Available < BytesToRead THEN InBufferSize + BytesToRead - Available ELSE size

\* After the parser took count bytes from a buffer of size stored.
Shrink(stored, grown, count) ==
    IF grown /\ count > 0
    THEN /\ size' = IF stored - count > InBufferSize THEN stored - count ELSE InBufferSize
         /\ resized' = (stored - count > InBufferSize)
    ELSE /\ size' = stored
         /\ resized' = grown

-----------------------------------------------------------------------------
Arrive(n) ==
    /\ pending + n <= MaxPending
    /\ pending' = pending + n
    /\ UNCHANGED <<size, use, resized, gap, closed>>

\* Mutant: shiftLeft() takes a byte more than was processed.
ReadChunkShifted(count) ==
    /\ pending > 0
    /\ ~Overflows
    /\ LET written == Smaller(BytesToRead, GrownSize - use)
       IN  /\ count <= use + written
           /\ use' = use + written - (IF count > 0 THEN count + 1 ELSE 0)
           /\ gap' = (gap \/ written < BytesToRead)
    /\ pending' = pending - BytesToRead
    /\ Shrink(GrownSize, resized \/ Available < BytesToRead, count)
    /\ UNCHANGED closed

\* Buffer::write() stores what fits; parse() takes count bytes, all of them
\* in whole frames, and shiftLeft(count) keeps the rest.
ReadChunk(count) ==
    /\ pending > 0
    /\ ~Overflows
    /\ LET written == Smaller(BytesToRead, GrownSize - use)
       IN  /\ count <= use + written
           /\ use' = use + written - count
           /\ gap' = (gap \/ written < BytesToRead)
    /\ pending' = pending - BytesToRead
    /\ Shrink(GrownSize, resized \/ Available < BytesToRead, count)
    /\ UNCHANGED closed

\* close() and setConnected(false); the chunk that was read is dropped.
Overflow ==
    /\ pending > 0
    /\ Overflows
    /\ pending' = pending - BytesToRead
    /\ gap' = TRUE
    /\ closed' = TRUE
    /\ UNCHANGED <<size, use, resized>>

\* The first data of another AMQP connection drains the buffer; its size and
\* the flag stay what they are.
NewConnection ==
    /\ use' = 0
    /\ pending' = 0
    /\ gap' = FALSE
    /\ closed' = FALSE
    /\ UNCHANGED <<size, resized>>

Next ==
    \/ \E n \in ArrivalSizes : Arrive(n)
    \/ \E count \in 0 .. use + TempBufferSize : ReadChunk(count)
    \/ Overflow
    \/ NewConnection

Spec == Init /\ [][Next]_vars

-----------------------------------------------------------------------------
(***************************************************************************)
(* Properties.                                                             *)
(***************************************************************************)

\* Until the connection is given up, the parser sees every byte of the stream:
\* the room made by resize() is never smaller than the chunk that write()
\* stores, whatever was left in the buffer, and no shrink cuts stored bytes.
NoByteMissing == ~closed => ~gap /\ use <= size

\* The flag "resized" and the size agree: growing once really means once, and
\* a buffer that is back to its first size may grow again.
FlagMatchesSize ==
    /\ size >= InBufferSize
    /\ resized <=> size > InBufferSize

\* The buffer never takes more than one chunk above its first size.
MemoryBounded == size <= InBufferSize + TempBufferSize

\* What the header's comment says of TEMP_BUFFER_SIZE: up to 1Mb of what the
\* socket holds is taken from it at once.
ReadsMegabyteChunks ==
    [][pending' < pending /\ pending' # 0 => pending - pending' >= 1024 * 1024]_vars
=============================================================================
