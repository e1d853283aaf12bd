------------------------- MODULE InputBuffer_proofs -------------------------
(***************************************************************************)
(* Safety of the input buffer for every pair of buffer sizes and every     *)
(* behaviour of network and parser.  The three safety properties hold each *)
(* other up, so they are one inductive invariant: that a chunk fits after  *)
(* resize() needs size = InBufferSize whenever the flag is not set, since  *)
(* the new size is computed from InBufferSize; that the flag is right      *)
(* after a shrink needs the bound on the size.                             *)
(***************************************************************************)
EXTENDS InputBuffer, TLAPS

Inv ==
    /\ TypeOK
    /\ use <= size
    /\ NoByteMissing
    /\ FlagMatchesSize
    /\ MemoryBounded

\* Initially the buffer is empty and has its first size.
LEMMA InitInv == Init => Inv
  <1> SUFFICES ASSUME Init PROVE Inv
    OBVIOUS
  <1>1. ~resized /\ ~gap /\ ~closed
    BY Zenon DEF Init
  <1>2. resized \in BOOLEAN /\ gap \in BOOLEAN /\ closed \in BOOLEAN
    BY Zenon DEF Init
  <1>3. size = InBufferSize /\ use = 0 /\ pending = 0
    BY DEF Init
  <1>4. TypeOK
    BY <1>2, <1>3, BufferAssumption DEF TypeOK
  <1>5. NoByteMissing
    BY <1>1, <1>3, BufferAssumption DEF NoByteMissing
  <1>6. FlagMatchesSize
    BY <1>1, <1>3, BufferAssumption DEF FlagMatchesSize
  <1> QED
    BY <1>3, <1>4, <1>5, <1>6, BufferAssumption DEF Inv, MemoryBounded

\* What is stored of a chunk: all of it, in a buffer large enough.
LEMMA ChunkFits ==
    ASSUME Inv, ~Overflows
    PROVE  /\ BytesToRead \in Nat
           /\ BytesToRead <= pending
           /\ GrownSize \in Nat
           /\ GrownSize - use >= BytesToRead
           /\ Smaller(BytesToRead, GrownSize - use) = BytesToRead
           /\ GrownSize <= InBufferSize + TempBufferSize
           /\ (resized \/ Available < BytesToRead) <=> GrownSize > InBufferSize
           /\ GrownSize >= InBufferSize
  BY BufferAssumption
     DEF Inv, TypeOK, Overflows, Available, BytesToRead, GrownSize, Smaller,
         FlagMatchesSize, MemoryBounded

\* A round of handleReadyRead() that stores its chunk keeps the invariant.
LEMMA ReadChunkInv ==
    ASSUME Inv, NEW count \in Nat, ReadChunk(count)
    PROVE  Inv'
  <1>1. ~Overflows
    BY DEF ReadChunk
  <1>2. count <= use + BytesToRead /\ use' = use + BytesToRead - count
    BY <1>1, ChunkFits DEF ReadChunk
  <1>3. gap' <=> gap
    <2>1. gap' = (gap \/ Smaller(BytesToRead, GrownSize - use) < BytesToRead)
      BY DEF ReadChunk
    <2>2. ~(Smaller(BytesToRead, GrownSize - use) < BytesToRead)
      BY <1>1, ChunkFits
    <2> QED
      BY <2>1, <2>2, Zenon
  <1>4. Shrink(GrownSize, resized \/ Available < BytesToRead, count)
    BY DEF ReadChunk
  <1>5. /\ size' \in Nat
        /\ use' <= size'
        /\ size' >= InBufferSize
        /\ size' <= InBufferSize + TempBufferSize
        /\ resized' <=> size' > InBufferSize
    <2>1. CASE (resized \/ Available < BytesToRead) /\ count > 0
      <3>1. size' = IF GrownSize - count > InBufferSize THEN GrownSize - count ELSE InBufferSize
        BY <1>4, <2>1, Zenon DEF Shrink
      <3>2. resized' <=> GrownSize - count > InBufferSize
        BY <1>4, <2>1, Zenon DEF Shrink
      <3> QED
        BY <1>1, <1>2, <3>1, <3>2, ChunkFits, BufferAssumption DEF Inv, TypeOK
    <2>2. CASE ~((resized \/ Available < BytesToRead) /\ count > 0)
      <3>1. size' = GrownSize
        BY <1>4, <2>2, Zenon DEF Shrink
      <3>2. resized' <=> (resized \/ Available < BytesToRead)
        BY <1>4, <2>2, Zenon DEF Shrink
      <3> QED
        BY <1>1, <1>2, <3>1, <3>2, ChunkFits, BufferAssumption DEF Inv, TypeOK
    <2> QED
      BY <2>1, <2>2
  <1>6. resized' \in BOOLEAN /\ gap' \in BOOLEAN
    <2>1. resized' \in BOOLEAN
      <3>1. \/ resized' = (GrownSize - count > InBufferSize)
            \/ resized' = (resized \/ Available < BytesToRead)
        BY <1>4, Zenon DEF Shrink
      <3>2. CASE resized' = (GrownSize - count > InBufferSize)
        BY <3>2, SMT
      <3>3. CASE resized' = (resized \/ Available < BytesToRead)
        BY <3>3, Zenon
      <3> QED
        BY <3>1, <3>2, <3>3, Zenon
    <2>2. gap' \in BOOLEAN
      <3>1. gap' = (gap \/ Smaller(BytesToRead, GrownSize - use) < BytesToRead)
        BY DEF ReadChunk
      <3> QED
        BY <3>1, Zenon
    <2> QED
      BY <2>1, <2>2
  <1>7. pending' \in Nat
    BY <1>1, ChunkFits DEF ReadChunk, Inv, TypeOK
  <1>8. closed' = closed
    BY DEF ReadChunk
  <1>9. TypeOK'
    BY <1>2, <1>1, ChunkFits, <1>5, <1>6, <1>7, <1>8 DEF Inv, TypeOK
  <1>10. NoByteMissing'
    BY <1>3, <1>5, <1>8 DEF Inv, NoByteMissing
  <1> QED
    BY <1>5, <1>9, <1>10 DEF Inv, FlagMatchesSize, MemoryBounded

\* Every step keeps the invariant.
LEMMA NextInv == Inv /\ [Next]_vars => Inv'
  <1> SUFFICES ASSUME Inv, [Next]_vars PROVE Inv'
    OBVIOUS
  <1> USE BufferAssumption
  <1>1. ASSUME NEW n \in ArrivalSizes, Arrive(n) PROVE Inv'
    BY <1>1 DEF Arrive, Inv, TypeOK, NoByteMissing, FlagMatchesSize, MemoryBounded
  <1>2. ASSUME NEW count \in 0 .. use + TempBufferSize, ReadChunk(count) PROVE Inv'
    BY <1>2, ReadChunkInv DEF Inv, TypeOK
  <1>3. CASE Overflow
    <2>1. closed' /\ closed' \in BOOLEAN /\ gap' \in BOOLEAN
      BY <1>3, Zenon DEF Overflow
    <2>2. UNCHANGED <<size, use, resized>> /\ pending' \in Nat
      BY <1>3 DEF Overflow, BytesToRead, Smaller, Inv, TypeOK
    <2> QED
      BY <2>1, <2>2 DEF Inv, TypeOK, NoByteMissing, FlagMatchesSize, MemoryBounded
  <1>4. CASE NewConnection
    <2>1. ~gap' /\ closed' \in BOOLEAN /\ gap' \in BOOLEAN
      BY <1>4, Zenon DEF NewConnection
    <2>2. UNCHANGED <<size, resized>> /\ use' = 0 /\ pending' = 0
      BY <1>4 DEF NewConnection
    <2> QED
      BY <2>1, <2>2 DEF Inv, TypeOK, NoByteMissing, FlagMatchesSize, MemoryBounded
  <1>5. CASE UNCHANGED vars
    BY <1>5 DEF vars, Inv, TypeOK, NoByteMissing, FlagMatchesSize, MemoryBounded
  <1> QED
    BY <1>1, <1>2, <1>3, <1>4, <1>5 DEF Next

\* The buffer's state has its types, and the flag agrees with the size.
THEOREM BufferTyped == Spec => [](TypeOK /\ FlagMatchesSize)
  <1>1. Inv => TypeOK /\ FlagMatchesSize
    BY DEF Inv
  <1> QED
    BY InitInv, NextInv, <1>1, PTL DEF Spec

\* Until the connection is given up the parser sees every byte, for all buffer
\* sizes: resize() always makes enough room.
THEOREM EveryByteParsed == Spec => []NoByteMissing
  <1>1. Inv => NoByteMissing
    BY DEF Inv
  <1> QED
    BY InitInv, NextInv, <1>1, PTL DEF Spec

\* However much arrives, the buffer's memory is bounded.
THEOREM BufferBounded == Spec => []MemoryBounded
  <1>1. Inv => MemoryBounded
    BY DEF Inv
  <1> QED
    BY InitInv, NextInv, <1>1, PTL DEF Spec
=============================================================================
