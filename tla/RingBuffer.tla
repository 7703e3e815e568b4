----------------------------- MODULE RingBuffer -----------------------------
(***************************************************************************)
(* lib/Buffer: the outgoing buffer of a control or proxy connection, a     *)
(* ring that grows up to a largest capacity.  WriteToBuffer first makes    *)
(* room (MustInsert, with its growth loop, and resize) and then copies;    *)
(* WriteToSocket drains the ring one write() at a time.                    *)
(***************************************************************************)
EXTENDS Naturals, Sequences, FiniteSets

CONSTANTS
    Byte,              \* the bytes callers write
    Garbage,           \* content of memory nobody has written
    InitCapacity,      \* first argument of the constructor
    MaxCapacityArg,    \* second argument of the constructor
    DoubleBorderLine,  \* DOUBLE_BORDER_LINE
    MaxInsert,         \* bound: longest message a caller writes
    SizeMax            \* largest size_t (2^64 - 1 in the code)

ASSUME BufferAssumption ==
    /\ Garbage \notin Byte
    /\ InitCapacity \in Nat \ {0}
    /\ MaxCapacityArg \in Nat
    /\ DoubleBorderLine \in Nat /\ DoubleBorderLine >= 4
    /\ MaxInsert \in Nat
    /\ SizeMax \in Nat

\* max_capacity_
MaxCapacity ==
    IF MaxCapacityArg > InitCapacity THEN MaxCapacityArg ELSE InitCapacity

VARIABLES
    data,        \* data_[0 .. data_size_ - 1]
    capacity,    \* capacity_
    readIndex,   \* read_index_
    writeIndex,  \* write_index_
    pc,          \* where WriteToBuffer is
    insert,      \* the bytes WriteToBuffer was called with
    newcap,      \* newcap of MustInsert
    out,         \* the bytes the last read or write() took
    failed       \* whether a write() has returned -1 (history)

vars == <<data, capacity, readIndex, writeIndex, pc, insert, newcap, out,
          failed>>

-----------------------------------------------------------------------------
(* Mistakes: wrong versions of operators below.  Each breaks a property that *)
(* the right version satisfies; the specification uses none of them.         *)

\* One cell too many is addressed.
dataSizeOffByOne == capacity + 2

\* A message that wraps comes to the start of the array one byte early.
AheadWrapsEarly(i) ==
    IF i >= writeIndex THEN i - writeIndex ELSE (i + capacity) - writeIndex

\* The stored bytes are forgotten when the need is computed.
MinCapNeedInsertOnly(n) == n

-----------------------------------------------------------------------------
(* The ring *)

dataSize == capacity + 1

TypeOK ==
    /\ capacity \in Nat
    /\ data \in [0 .. capacity -> Byte \cup {Garbage}]
    /\ readIndex \in 0 .. capacity
    /\ writeIndex \in 0 .. capacity
    /\ pc \in {"ready", "grow", "resize", "copy"}
    /\ insert \in Seq(Byte)
    /\ newcap \in Nat
    /\ out \in Seq(Byte \cup {Garbage})
    /\ failed \in BOOLEAN

Init ==
    /\ data = [i \in 0 .. InitCapacity |-> Garbage]
    /\ capacity = InitCapacity
    /\ readIndex = 0
    /\ writeIndex = 0
    /\ pc = "ready"
    /\ insert = <<>>
    /\ newcap = 0
    /\ out = <<>>
    /\ failed = FALSE

\* getunused: how many bytes are stored.
GetUnused ==
    IF writeIndex >= readIndex THEN writeIndex - readIndex
    ELSE (dataSize - readIndex) + writeIndex

GetFreeSize == capacity - GetUnused

\* The byte at distance i from read_index_.
Stored(i) == data[(readIndex + i) % dataSize]

\* The stored bytes, oldest first.
Contents == [i \in 1 .. GetUnused |-> Stored(i - 1)]

-----------------------------------------------------------------------------
MinCapNeed(n) == capacity + n

\* MustInsert throws, WriteToBuffer catches and returns 0.
OutOfCapacity(n) == GetFreeSize < n /\ MinCapNeed(n) > MaxCapacity

\* WriteToBuffer(s) up to the point where MustInsert has chosen how to grow.
WriteToBuffer(s) ==
    /\ pc = "ready"
    /\ s # <<>>
    /\ ~OutOfCapacity(Len(s))
    /\ insert' = s
    /\ \/ /\ GetFreeSize >= Len(s)
          /\ pc' = "copy" /\ newcap' = capacity
       \/ /\ GetFreeSize < Len(s)
          /\ MinCapNeed(Len(s)) > 2 * capacity
          /\ pc' = "resize" /\ newcap' = MinCapNeed(Len(s))
       \/ /\ GetFreeSize < Len(s)
          /\ MinCapNeed(Len(s)) <= 2 * capacity
          /\ capacity < DoubleBorderLine
          /\ pc' = "resize"
          /\ newcap' = IF 2 * capacity <= MaxCapacity THEN 2 * capacity
                       ELSE MaxCapacity
       \/ /\ GetFreeSize < Len(s)
          /\ MinCapNeed(Len(s)) <= 2 * capacity
          /\ capacity >= DoubleBorderLine
          /\ pc' = "grow" /\ newcap' = capacity
    /\ UNCHANGED <<data, capacity, readIndex, writeIndex, out, failed>>

\* newcap += newcap / 4
Grown(n) == n + n \div 4

\* One turn of the growth loop, or its exit.
GrowLoop ==
    /\ pc = "grow"
    /\ \/ /\ newcap >= MinCapNeed(Len(insert))
          /\ pc' = "resize" /\ UNCHANGED newcap
       \/ /\ newcap < MinCapNeed(Len(insert)) /\ Grown(newcap) <= MaxCapacity
          /\ newcap' = Grown(newcap) /\ UNCHANGED pc
       \/ /\ newcap < MinCapNeed(Len(insert)) /\ Grown(newcap) > MaxCapacity
          /\ newcap' = MaxCapacity /\ pc' = "resize"
    /\ UNCHANGED <<data, capacity, readIndex, writeIndex, insert, out, failed>>

\* resize(newcap): the stored bytes move to the start of a new array.
Resize ==
    /\ pc = "resize"
    /\ pc' = "copy"
    /\ IF GetUnused > newcap \/ newcap = capacity
       THEN UNCHANGED <<data, capacity, readIndex, writeIndex>>
       ELSE /\ data' = [i \in 0 .. newcap |->
                          IF i < GetUnused THEN Stored(i) ELSE Garbage]
            /\ capacity' = newcap
            /\ readIndex' = 0
            /\ writeIndex' = GetUnused
    /\ UNCHANGED <<insert, newcap, out, failed>>

\* How far index i lies past write_index_ in the ring.
Ahead(i) ==
    IF i >= writeIndex THEN i - writeIndex ELSE (i + dataSize) - writeIndex

\* The copy loop of WriteToBuffer.  An insert longer than the ring would wrap
\* over itself; RoomToCopy says that it never is.
Copy ==
    /\ pc = "copy"
    /\ data' = [i \in 0 .. capacity |->
                  IF Ahead(i) < Len(insert) THEN insert[Ahead(i) + 1]
                  ELSE data[i]]
    /\ writeIndex' = (writeIndex + Len(insert)) % dataSize
    /\ pc' = "ready"
    /\ insert' = <<>>
    /\ newcap' = 0
    /\ out' = <<>>
    /\ UNCHANGED <<capacity, readIndex, failed>>

\* read(data, n): refused when fewer than n bytes are stored.
Read(n) ==
    /\ pc = "ready"
    /\ n <= GetUnused
    /\ out' = [i \in 1 .. n |-> Stored(i - 1)]
    /\ readIndex' = (readIndex + n) % dataSize
    /\ UNCHANGED <<data, capacity, writeIndex, pc, insert, newcap, failed>>

\* cur_send_len of WriteToSocket: the stored bytes up to the end of the array.
CurSendLen ==
    IF readIndex > writeIndex THEN dataSize - readIndex
    ELSE writeIndex - readIndex

\* One turn of WriteToSocket's loop in which write() accepts n bytes.
WriteToSocket(n) ==
    /\ pc = "ready"
    /\ GetUnused > 0 /\ n <= CurSendLen
    /\ out' = [i \in 1 .. n |-> data[readIndex + i - 1]]
    /\ readIndex' = (readIndex + n) % dataSize
    /\ UNCHANGED <<data, capacity, writeIndex, pc, insert, newcap, failed>>

\* write() returns -1 (EAGAIN on the nonblocking fd, or an error), which as a
\* size_t is not 0: the loop does not end and read_index_ is advanced by it.
WriteToSocketError ==
    /\ pc = "ready"
    /\ GetUnused > 0
    /\ readIndex' = ((readIndex + SizeMax) % (SizeMax + 1)) % dataSize
    /\ out' = <<>>
    /\ failed' = TRUE
    /\ UNCHANGED <<data, capacity, writeIndex, pc, insert, newcap>>

Messages == UNION {[1 .. n -> Byte] : n \in 1 .. MaxInsert}

Next ==
    \/ \E s \in Messages : WriteToBuffer(s)
    \/ GrowLoop
    \/ Resize
    \/ Copy
    \/ \E n \in 1 .. MaxCapacity : Read(n) \/ WriteToSocket(n)
    \/ WriteToSocketError

Spec == Init /\ [][Next]_vars

-----------------------------------------------------------------------------
(* Properties *)

\* When the copy loop starts there is room for the whole message, so it never
\* overwrites a byte that has not been read: every way MustInsert grows the
\* ring grows it enough.
RoomToCopy == pc = "copy" => Len(insert) <= GetFreeSize

\* Until a write() fails the buffer is a FIFO of bytes of bounded length: a
\* message WriteToBuffer accepts goes in whole, byte for byte, behind what is
\* stored, and resize, wrap-around and partial writes neither lose nor reorder
\* nor invent bytes.
Queue == INSTANCE BoundedQueue
           WITH queue <- Contents, message <- insert, MaxLength <- MaxCapacity
IsBoundedQueue == Queue!Spec

\* "The buffer is full or the write failed, leave at once" (WriteToSocket): a
\* write() that fails takes nothing from the buffer.
FailedWriteTakesNothing == [][failed' # failed => Contents' = Contents]_vars
=============================================================================
