------------------------ MODULE CircularBufferProofs ------------------------
(***************************************************************************)
(* The circular buffer is a bounded FIFO, for every size and content.      *)
(***************************************************************************)
EXTENDS CircularBuffer, TLAPS

(***************************************************************************)
(* The fields of a buffer: as many slots as OSQSize says.                  *)
(***************************************************************************)
Storage(size) == [0..(size - 1) -> Data \cup {NoData}]

BufferFields(b) ==
  /\ b \in [OSQSize : 0..(UINT16 - 1), OSQEntries : Nat, OSQIn : Nat,
            OSQOut : Nat, slots : UNION {Storage(n) : n \in Nat}]
  /\ b.slots \in Storage(b.OSQSize)

IsBuffer(b) == BufferFields(b) /\ WellFormed(b)

\* What the arithmetic below rests on.
LEMMA BufferFacts ==
  ASSUME NEW b, IsBuffer(b)
  PROVE  /\ b.OSQSize \in Nat /\ b.OSQSize < UINT16
         /\ b.OSQEntries \in Nat /\ b.OSQEntries <= b.OSQSize
         /\ b.OSQIn \in Nat /\ b.OSQIn <= b.OSQSize
         /\ b.OSQOut \in Nat /\ b.OSQOut <= b.OSQSize
         /\ \/ b.OSQIn = b.OSQOut + b.OSQEntries
            \/ b.OSQIn = b.OSQOut + b.OSQEntries - b.OSQSize
         /\ \A i \in 1..b.OSQEntries : b.slots[Slot(b, i)] \in Data
<1>1. b.OSQSize \in 0..(UINT16 - 1)
  BY DEF IsBuffer, BufferFields
<1>2. UINT16 \in Nat
  BY DEF UINT16
<1>3. WellFormed(b)
  BY DEF IsBuffer
<1>. QED  BY <1>1, <1>2, <1>3 DEF WellFormed

(***************************************************************************)
(* The slots of the entries, and the slot a write uses, are all different. *)
(***************************************************************************)
LEMMA SlotFacts ==
  ASSUME NEW b, IsBuffer(b)
  PROVE  /\ \A i \in 1..b.OSQSize : Slot(b, i) \in 0..(b.OSQSize - 1)
         /\ \A i, j \in 1..b.OSQSize : Slot(b, i) = Slot(b, j) => i = j
         /\ b.OSQEntries < b.OSQSize =>
              Slot(b, b.OSQEntries + 1) = Wrapped(b, b.OSQIn)
         /\ b.OSQEntries > 0 => Slot(b, 1) = Wrapped(b, b.OSQOut)
<1>1. /\ b.OSQSize \in Nat /\ b.OSQEntries \in Nat /\ b.OSQEntries <= b.OSQSize
      /\ b.OSQIn \in Nat /\ b.OSQIn <= b.OSQSize
      /\ b.OSQOut \in Nat /\ b.OSQOut <= b.OSQSize
      /\ \/ b.OSQIn = b.OSQOut + b.OSQEntries
         \/ b.OSQIn = b.OSQOut + b.OSQEntries - b.OSQSize
  BY BufferFacts
<1>2. \A i \in 1..b.OSQSize : Slot(b, i) \in 0..(b.OSQSize - 1)
  BY <1>1 DEF Slot
<1>3. \A i, j \in 1..b.OSQSize : Slot(b, i) = Slot(b, j) => i = j
  BY <1>1 DEF Slot
<1>4. b.OSQEntries < b.OSQSize =>
        Slot(b, b.OSQEntries + 1) = Wrapped(b, b.OSQIn)
  BY <1>1 DEF Slot, Wrapped
<1>5. b.OSQEntries > 0 => Slot(b, 1) = Wrapped(b, b.OSQOut)
  BY <1>1 DEF Slot, Wrapped
<1>. QED  BY <1>2, <1>3, <1>4, <1>5

(***************************************************************************)
(* A new or a cleaned buffer is empty.                                     *)
(***************************************************************************)
LEMMA EmptyIsBuffer ==
  ASSUME NEW b, BufferFields(b), b.OSQEntries = 0, b.OSQIn = 0, b.OSQOut = 0
  PROVE  IsBuffer(b) /\ Contents(b) = <<>>
<1>1. b.OSQSize \in Nat
  <2>1. b.OSQSize \in 0..(UINT16 - 1)
    BY DEF BufferFields
  <2>2. UINT16 \in Nat
    BY DEF UINT16
  <2>. QED  BY <2>1, <2>2
<1>2. 1..0 = {}
  OBVIOUS
<1>3. WellFormed(b)
  BY <1>1, <1>2 DEF WellFormed
<1>4. Contents(b) = <<>>
  BY <1>2 DEF Contents
<1>. QED  BY <1>3, <1>4 DEF IsBuffer

\* A new buffer is well formed and holds nothing.
LEMMA EmptyBufferIsEmpty ==
  ASSUME NEW size \in Nat, size < UINT16
  PROVE  /\ IsBuffer(EmptyBuffer(size)) /\ Contents(EmptyBuffer(size)) = <<>>
         /\ EmptyBuffer(size).OSQSize = size /\ EmptyBuffer(size).OSQEntries = 0
<1>1. size \in 0..(UINT16 - 1)
  <2>1. UINT16 \in Nat
    BY DEF UINT16
  <2>. QED  BY <2>1
<1>2. [i \in 0..(size - 1) |-> NoData] \in Storage(size)
  BY DEF Storage
<1>3. BufferFields(EmptyBuffer(size))
  BY <1>1, <1>2 DEF BufferFields, EmptyBuffer
<1>. QED  BY <1>3, EmptyIsBuffer DEF EmptyBuffer

\* Cleaning empties a buffer and leaves its size.
LEMMA CleanEmpties ==
  ASSUME NEW b, IsBuffer(b)
  PROVE  /\ IsBuffer(Clean(b)) /\ Contents(Clean(b)) = <<>>
         /\ Clean(b).OSQSize = b.OSQSize /\ Clean(b).OSQEntries = 0
<1>1. BufferFields(Clean(b)) /\ Clean(b).OSQSize = b.OSQSize
      /\ Clean(b).OSQEntries = 0 /\ Clean(b).OSQIn = 0 /\ Clean(b).OSQOut = 0
  BY DEF IsBuffer, BufferFields, Clean
<1>. QED  BY <1>1, EmptyIsBuffer

(***************************************************************************)
(* A write to a buffer that is not full appends, and changes nothing of    *)
(* what is there.                                                          *)
(***************************************************************************)
THEOREM WriteAppends ==
  ASSUME NEW b, IsBuffer(b), ~Full(b), NEW d \in Data
  PROVE  /\ IsBuffer(Write(b, d))
         /\ Contents(Write(b, d)) = Append(Contents(b), d)
         /\ Write(b, d).OSQSize = b.OSQSize
         /\ Write(b, d).OSQEntries = b.OSQEntries + 1
<1>. DEFINE w == Write(b, d)
            n == b.OSQEntries
            k == Wrapped(b, b.OSQIn)
<1>1. /\ b.OSQSize \in Nat /\ b.OSQSize < UINT16 /\ n \in Nat /\ n < b.OSQSize
      /\ b.OSQIn \in 0..b.OSQSize /\ b.OSQOut \in 0..b.OSQSize
  BY BufferFacts DEF Full
<1>2. k \in 0..(b.OSQSize - 1)
  BY <1>1 DEF Wrapped
<1>3. /\ w.OSQSize = b.OSQSize /\ w.OSQEntries = n + 1 /\ w.OSQIn = k + 1
      /\ w.OSQOut = b.OSQOut /\ w.slots = [b.slots EXCEPT ![k] = d]
  BY DEF IsBuffer, BufferFields, Write
<1>4. BufferFields(w)
  <2>1. [b.slots EXCEPT ![k] = d] \in Storage(b.OSQSize)
    BY <1>2 DEF IsBuffer, BufferFields, Storage
  <2>2. n + 1 \in Nat /\ k + 1 \in Nat
    BY <1>1, <1>2
  <2>. QED  BY <1>1, <2>1, <2>2 DEF IsBuffer, BufferFields, Write
<1>5. \A i \in 1..(n + 1) : Slot(w, i) = Slot(b, i)
  BY <1>3 DEF Slot
<1>6. \A i \in 1..(n + 1) : w.slots[Slot(w, i)] = IF i = n + 1 THEN d ELSE b.slots[Slot(b, i)]
  <2>1. Slot(b, n + 1) = k
    BY <1>1, SlotFacts
  <2>2. \A i \in 1..n : Slot(b, i) # k /\ Slot(b, i) \in 0..(b.OSQSize - 1)
    BY <1>1, <2>1, SlotFacts
  <2>3. Slot(w, n + 1) = k /\ \A i \in 1..n : Slot(w, i) = Slot(b, i)
    BY <1>1, <1>5, <2>1
  <2>4. DOMAIN b.slots = 0..(b.OSQSize - 1) /\ w.slots = [b.slots EXCEPT ![k] = d]
    BY <1>3 DEF IsBuffer, BufferFields, Storage
  <2>5. w.slots[k] = d /\ \A i \in 1..n : w.slots[Slot(b, i)] = b.slots[Slot(b, i)]
    BY <1>2, <2>2, <2>4
  <2>. QED  BY <1>1, <2>3, <2>5
<1>7. WellFormed(w)
  <2>1. \A i \in 1..n : b.slots[Slot(b, i)] \in Data
    BY DEF IsBuffer, WellFormed
  <2>2. \A i \in 1..w.OSQEntries : w.slots[Slot(w, i)] \in Data
    BY <1>1, <1>3, <1>6, <2>1
  <2>3. k = b.OSQIn \/ (b.OSQIn = b.OSQSize /\ k = 0)
    BY DEF Wrapped
  <2>. QED  BY <1>1, <1>2, <1>3, <2>2, <2>3 DEF IsBuffer, WellFormed
<1>8. Contents(w) = Append(Contents(b), d)
  <2>1. Contents(b) \in Seq(Data) /\ Len(Contents(b)) = n
    BY <1>1 DEF Contents, IsBuffer, WellFormed
  <2>2. Contents(w) \in Seq(Data) /\ Len(Contents(w)) = n + 1
    BY <1>1, <1>3, <1>7 DEF Contents, WellFormed
  <2>3. \A i \in 1..(n + 1) :
          Contents(w)[i] = IF i = n + 1 THEN d ELSE Contents(b)[i]
    BY <1>1, <1>3, <1>6 DEF Contents
  <2>4. /\ Append(Contents(b), d) \in Seq(Data)
        /\ Len(Append(Contents(b), d)) = n + 1
        /\ \A i \in 1..n : Append(Contents(b), d)[i] = Contents(b)[i]
        /\ Append(Contents(b), d)[n + 1] = d
    BY <2>1
  <2>5. \A i \in 1..(n + 1) : Contents(w)[i] = Append(Contents(b), d)[i]
    BY <1>1, <2>3, <2>4
  <2>. QED  BY <2>2, <2>4, <2>5
<1>. QED  BY <1>3, <1>4, <1>7, <1>8 DEF IsBuffer

(***************************************************************************)
(* A read of a buffer that is not empty takes out the oldest entry.        *)
(***************************************************************************)
THEOREM ReadTakesOldest ==
  ASSUME NEW b, IsBuffer(b), b.OSQEntries > 0
  PROVE  /\ IsBuffer(Read(b))
         /\ Contents(b) \in Seq(Data) /\ Contents(b) # <<>>
         /\ Front(b) = Head(Contents(b)) /\ Front(b) \in Data
         /\ Contents(Read(b)) = Tail(Contents(b))
         /\ Read(b).OSQSize = b.OSQSize
         /\ Read(b).OSQEntries = b.OSQEntries - 1
<1>. DEFINE r == Read(b)
            n == b.OSQEntries
            k == Wrapped(b, b.OSQOut)
<1>1. /\ b.OSQSize \in Nat /\ b.OSQSize < UINT16 /\ n \in Nat /\ n <= b.OSQSize /\ n > 0
      /\ b.OSQIn \in 0..b.OSQSize /\ b.OSQOut \in 0..b.OSQSize
  BY BufferFacts
<1>2. k \in 0..(b.OSQSize - 1) /\ (k = b.OSQOut \/ (b.OSQOut = b.OSQSize /\ k = 0))
  BY <1>1 DEF Wrapped
<1>3. /\ r.OSQSize = b.OSQSize /\ r.OSQEntries = n - 1 /\ r.OSQIn = b.OSQIn
      /\ r.OSQOut = k + 1 /\ r.slots = b.slots
  <2>1. (n - 1) % UINT16 = n - 1
    BY <1>1 DEF UINT16
  <2>. QED  BY <2>1 DEF IsBuffer, BufferFields, Read
<1>4. BufferFields(r)
  <2>1. (n - 1) % UINT16 \in Nat /\ k + 1 \in Nat
    BY <1>1, <1>2 DEF UINT16
  <2>. QED  BY <2>1 DEF IsBuffer, BufferFields, Read
<1>5. \A i \in 1..(n - 1) : Slot(r, i) = Slot(b, i + 1)
  BY <1>1, <1>2, <1>3 DEF Slot
<1>6. \A i \in 1..n : b.slots[Slot(b, i)] \in Data
  BY DEF IsBuffer, WellFormed
<1>7. WellFormed(r)
  <2>1. \A i \in 1..(n - 1) : r.slots[Slot(r, i)] \in Data
    BY <1>1, <1>3, <1>5, <1>6
  <2>. QED  BY <1>1, <1>2, <1>3, <2>1 DEF IsBuffer, WellFormed
<1>8. Contents(b) \in Seq(Data) /\ Len(Contents(b)) = n
  BY <1>1, <1>6 DEF Contents
<1>9. Head(Contents(b)) = Front(b) /\ Front(b) \in Data
  <2>1. Slot(b, 1) = k
    BY <1>1, SlotFacts
  <2>2. Contents(b)[1] = b.slots[k] /\ b.slots[k] \in Data
    BY <1>1, <1>6, <2>1 DEF Contents
  <2>. QED  BY <1>1, <1>8, <2>2 DEF Front
<1>10. Contents(r) = Tail(Contents(b))
  <2>1. /\ Tail(Contents(b)) \in Seq(Data) /\ Len(Tail(Contents(b))) = n - 1
        /\ \A i \in 1..(n - 1) : Tail(Contents(b))[i] = Contents(b)[i + 1]
    <3>1. Contents(b) # <<>>
      BY <1>1, <1>8
    <3>. QED  BY <1>8, <3>1
  <2>2. Contents(r) \in Seq(Data) /\ Len(Contents(r)) = n - 1
    BY <1>1, <1>3, <1>7 DEF Contents, WellFormed
  <2>3. \A i \in 1..(n - 1) : Contents(r)[i] = Contents(b)[i + 1]
    BY <1>1, <1>3, <1>5 DEF Contents
  <2>. QED  BY <2>1, <2>2, <2>3
<1>. QED  BY <1>1, <1>3, <1>4, <1>7, <1>8, <1>9, <1>10 DEF IsBuffer

=============================================================================
