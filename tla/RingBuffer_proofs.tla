-------------------------- MODULE RingBuffer_proofs --------------------------
(***************************************************************************)
(* For every initial and largest capacity and every message length:         *)
(* MustInsert makes enough room, before and after a failed write(), so the  *)
(* copy loop of WriteToBuffer never overwrites an unread byte (IInv); until *)
(* the first failed write() the ring is a FIFO of bytes into which each     *)
(* accepted message goes whole: it implements BoundedQueue (QInv).          *)
(***************************************************************************)
EXTENDS RingBuffer, Integers, TLAPS

\* The remainder by data_size_ is an index of the array.
LEMMA ModIsIndex ==
    ASSUME NEW a \in Nat, NEW d \in Nat
    PROVE  a % (d + 1) \in 0 .. d
OBVIOUS

\* The indices alone bound the number of stored bytes by capacity_.
LEMMA UnusedBounded ==
    ASSUME NEW c \in Nat, NEW r \in 0 .. c, NEW w \in 0 .. c
    PROVE  (IF w >= r THEN w - r ELSE ((c + 1) - r) + w) \in 0 .. c
OBVIOUS

\* One turn of the growth loop does not shrink newcap.
LEMMA QuarterIsNat ==
    ASSUME NEW n \in Nat
    PROVE  n + n \div 4 \in Nat /\ n + n \div 4 >= n
OBVIOUS

\* What each point of WriteToBuffer may rely on: the room that is needed fits
\* in max_capacity_, the capacity chosen suffices, and after resize there is
\* room.
Growth ==
    /\ capacity <= MaxCapacity
    /\ pc \in {"grow", "resize"} =>
         /\ MinCapNeed(Len(insert)) <= MaxCapacity
         /\ newcap <= MaxCapacity
         /\ newcap >= capacity
    /\ pc = "resize" => newcap >= MinCapNeed(Len(insert))
    /\ RoomToCopy

IInv == TypeOK /\ Growth

LEMMA MaxCapacityType ==
    MaxCapacity \in Nat /\ InitCapacity <= MaxCapacity
BY BufferAssumption DEF MaxCapacity

LEMMA UnusedType == TypeOK => GetUnused \in 0 .. capacity
BY UnusedBounded DEF TypeOK, GetUnused, dataSize

\* Every message is a sequence of bytes.
LEMMA MessageType ==
    ASSUME NEW s \in Messages
    PROVE  s \in Seq(Byte) /\ Len(s) \in Nat
BY BufferAssumption DEF Messages

LEMMA InitIInv == Init => IInv
<1> SUFFICES ASSUME Init PROVE IInv
  OBVIOUS
<1>1. TypeOK
  BY BufferAssumption DEF Init, TypeOK
<1>2. Growth
  BY MaxCapacityType DEF Init, Growth, RoomToCopy
<1> QED
  BY <1>1, <1>2 DEF IInv

LEMMA NextIInv == IInv /\ [Next]_vars => IInv'
<1> SUFFICES ASSUME TypeOK, Growth, [Next]_vars PROVE TypeOK' /\ Growth'
  BY DEF IInv
<1> USE MaxCapacityType, UnusedType
<1>1. ASSUME NEW s \in Messages, WriteToBuffer(s) PROVE TypeOK' /\ Growth'
  <2>1. s \in Seq(Byte) /\ Len(s) \in Nat
    BY MessageType
  <2>2. TypeOK'
    BY <1>1, <2>1 DEF WriteToBuffer, TypeOK, MinCapNeed
  <2>3. GetUnused' = GetUnused /\ GetFreeSize' = GetFreeSize
    BY <1>1 DEF WriteToBuffer, GetUnused, GetFreeSize, dataSize
  <2>4. Growth'
    BY <1>1, <2>1, <2>3
    DEF WriteToBuffer, TypeOK, Growth, MinCapNeed, OutOfCapacity, RoomToCopy,
        GetFreeSize
  <2> QED BY <2>2, <2>4
<1>2. ASSUME GrowLoop PROVE TypeOK' /\ Growth'
  <2>1. newcap + newcap \div 4 \in Nat /\ newcap + newcap \div 4 >= newcap
    BY QuarterIsNat DEF TypeOK
  <2>2. TypeOK'
    BY <1>2, <2>1 DEF GrowLoop, Grown, TypeOK
  <2>3. Len(insert) \in Nat
    BY DEF TypeOK
  <2>4. Growth'
    BY <1>2, <2>1, <2>3
    DEF GrowLoop, Grown, TypeOK, Growth, MinCapNeed, RoomToCopy
  <2> QED BY <2>2, <2>4
<1>3. ASSUME Resize PROVE TypeOK' /\ Growth'
  <2>1. Len(insert) \in Nat
    BY DEF TypeOK
  <2>2. GetUnused <= newcap /\ newcap >= capacity + Len(insert)
    BY <1>3, <2>1 DEF Resize, Growth, TypeOK, MinCapNeed
  <2>3. \A i \in 0 .. capacity : Stored(i) \in Byte \cup {Garbage}
    BY ModIsIndex DEF Stored, TypeOK, dataSize
  <2>4. TypeOK'
    <3>1. CASE UNCHANGED <<data, capacity, readIndex, writeIndex>>
      BY <1>3, <3>1 DEF Resize, TypeOK
    <3>2. CASE ~(UNCHANGED <<data, capacity, readIndex, writeIndex>>)
      <4>1. /\ data' = [i \in 0 .. newcap |->
                          IF i < GetUnused THEN Stored(i) ELSE Garbage]
            /\ capacity' = newcap /\ readIndex' = 0 /\ writeIndex' = GetUnused
            /\ newcap \in Nat
        BY <1>3, <3>2 DEF Resize, TypeOK
      <4>2. GetUnused \in 0 .. capacity /\ capacity \in Nat
        BY DEF TypeOK, GetUnused, dataSize
      <4>3. \A i \in 0 .. newcap : i < GetUnused => Stored(i) \in Byte \cup {Garbage}
        BY <2>3, <4>1, <4>2
      <4>4. data' \in [0 .. capacity' -> Byte \cup {Garbage}]
        BY <4>1, <4>3
      <4> QED
        BY <1>3, <2>2, <4>1, <4>2, <4>4 DEF Resize, TypeOK
    <3> QED
      BY <3>1, <3>2
  <2>5. GetUnused' = GetUnused
    BY <1>3, <2>2 DEF Resize, TypeOK, GetUnused, dataSize
  <2>6. Growth'
    BY <1>3, <2>1, <2>2, <2>5
    DEF Resize, TypeOK, Growth, MinCapNeed, RoomToCopy, GetFreeSize
  <2> QED BY <2>4, <2>6
<1>4. ASSUME Copy PROVE TypeOK' /\ Growth'
  <2>1. Len(insert) \in Nat
    BY DEF TypeOK
  <2>2. (writeIndex + Len(insert)) % dataSize \in 0 .. capacity
    BY <2>1, ModIsIndex DEF TypeOK, dataSize
  <2>3. \A i \in 0 .. capacity : Ahead(i) \in Nat
    BY DEF Ahead, TypeOK, dataSize
  <2>4. \A i \in 0 .. capacity :
          Ahead(i) < Len(insert) => insert[Ahead(i) + 1] \in Byte
    BY <2>1, <2>3 DEF TypeOK
  <2>5. TypeOK'
    BY <1>4, <2>2, <2>4 DEF Copy, TypeOK
  <2>6. Growth'
    BY <1>4 DEF Copy, TypeOK, Growth, RoomToCopy
  <2> QED BY <2>5, <2>6
<1>5. ASSUME NEW n \in 1 .. MaxCapacity, Read(n) PROVE TypeOK' /\ Growth'
  <2>1. (readIndex + n) % dataSize \in 0 .. capacity
    BY ModIsIndex DEF TypeOK, dataSize
  <2>2. \A i \in 1 .. n : Stored(i - 1) \in Byte \cup {Garbage}
    BY ModIsIndex DEF Stored, TypeOK, dataSize
  <2>3. TypeOK'
    BY <1>5, <2>1, <2>2 DEF Read, TypeOK
  <2>4. Growth'
    BY <1>5 DEF Read, TypeOK, Growth, RoomToCopy, MinCapNeed
  <2> QED BY <2>3, <2>4
<1>6. ASSUME NEW n \in 1 .. MaxCapacity, WriteToSocket(n)
      PROVE  TypeOK' /\ Growth'
  <2>1. (readIndex + n) % dataSize \in 0 .. capacity
    BY ModIsIndex DEF TypeOK, dataSize
  <2>2. \A i \in 1 .. n : data[readIndex + i - 1] \in Byte \cup {Garbage}
    BY <1>6 DEF WriteToSocket, CurSendLen, TypeOK, dataSize
  <2>3. TypeOK'
    BY <1>6, <2>1, <2>2 DEF WriteToSocket, TypeOK
  <2>4. Growth'
    BY <1>6 DEF WriteToSocket, TypeOK, Growth, RoomToCopy, MinCapNeed
  <2> QED BY <2>3, <2>4
<1>7. ASSUME WriteToSocketError PROVE TypeOK' /\ Growth'
  <2>1. (readIndex + SizeMax) % (SizeMax + 1) \in Nat
    BY BufferAssumption, ModIsIndex DEF TypeOK
  <2>2. ((readIndex + SizeMax) % (SizeMax + 1)) % dataSize \in 0 .. capacity
    BY <2>1, ModIsIndex DEF TypeOK, dataSize
  <2>3. TypeOK'
    BY <1>7, <2>2 DEF WriteToSocketError, TypeOK
  <2>4. Growth'
    BY <1>7 DEF WriteToSocketError, TypeOK, Growth, RoomToCopy, MinCapNeed
  <2> QED BY <2>3, <2>4
<1>8. CASE UNCHANGED vars
  BY <1>8
  DEF vars, TypeOK, Growth, RoomToCopy, MinCapNeed, GetFreeSize, GetUnused,
      dataSize
<1> QED
  BY <1>1, <1>2, <1>3, <1>4, <1>5, <1>6, <1>7, <1>8 DEF Next

\* The indices stay in the array and the contents stay bytes.
THEOREM TypeCorrect == Spec => []TypeOK
<1>1. IInv => TypeOK
  BY DEF IInv
<1> QED BY <1>1, InitIInv, NextIInv, PTL DEF Spec

\* Whatever MustInsert did, the copy loop of WriteToBuffer has room for the
\* whole message.
THEOREM CopyHasRoom == Spec => []RoomToCopy
<1>1. IInv => RoomToCopy
  BY DEF IInv, Growth
<1> QED BY <1>1, InitIInv, NextIInv, PTL DEF Spec
-----------------------------------------------------------------------------
(* The ring is a queue, until a write() returns -1 *)

\* An index that has come past the end of the ring once.
LEMMA WrapOnce ==
    ASSUME NEW c \in Nat, NEW r \in 0 .. c, NEW i \in 0 .. c
    PROVE  (r + i) % (c + 1) = IF r + i <= c THEN r + i ELSE r + i - (c + 1)
OBVIOUS

LEMMA WrapNone ==
    ASSUME NEW c \in Nat, NEW i \in 0 .. c
    PROVE  i % (c + 1) = i
OBVIOUS

\* The bytes from read_index_ up to write_index_ have been written.
Written == \A i \in 0 .. GetUnused - 1 : Stored(i) \in Byte

\* Where the byte at distance i from read_index_ is, without the division.
LEMMA StoredAt ==
    ASSUME TypeOK, NEW i \in 0 .. capacity
    PROVE  Stored(i) = data[IF readIndex + i <= capacity THEN readIndex + i
                            ELSE readIndex + i - dataSize]
BY WrapOnce DEF TypeOK, Stored, dataSize

\* Written bytes make a sequence.
LEMMA ContentsType ==
    ASSUME TypeOK, Written
    PROVE  /\ Contents \in Seq(Byte) /\ Len(Contents) = GetUnused
           /\ \A i \in 1 .. GetUnused : Contents[i] = Stored(i - 1)
<1>1. GetUnused \in 0 .. capacity /\ capacity \in Nat
  BY UnusedType DEF TypeOK
<1>2. \A i \in 1 .. GetUnused : Stored(i - 1) \in Byte
  BY <1>1 DEF Written
<1> QED
  BY <1>1, <1>2 DEF Contents

\* WriteToBuffer, until it copies, does not touch what is stored.
LEMMA SameRing ==
    ASSUME UNCHANGED <<data, capacity, readIndex, writeIndex>>
    PROVE  /\ GetUnused' = GetUnused /\ Contents' = Contents
           /\ Written => Written'
BY DEF GetUnused, dataSize, Contents, Stored, Written

\* resize moves the stored bytes and does not change them.
LEMMA ResizeKeeps ==
    ASSUME IInv, Written, Resize
    PROVE  Contents' = Contents /\ Written'
<1>1. TypeOK /\ TypeOK'
  BY NextIInv DEF IInv, Next
<1>2. CASE UNCHANGED <<data, capacity, readIndex, writeIndex>>
  BY <1>2, SameRing
<1>3. CASE ~(GetUnused > newcap \/ newcap = capacity)
  <2>1. /\ GetUnused \in 0 .. capacity /\ GetUnused <= newcap /\ newcap \in Nat
        /\ data' = [i \in 0 .. newcap |-> IF i < GetUnused THEN Stored(i) ELSE Garbage]
        /\ capacity' = newcap /\ readIndex' = 0 /\ writeIndex' = GetUnused
    BY <1>1, <1>3, UnusedType DEF Resize, TypeOK
  <2>2. GetUnused' = GetUnused
    BY <2>1 DEF GetUnused
  <2>3. \A i \in 0 .. GetUnused - 1 : Stored(i)' = Stored(i)
    <3> SUFFICES ASSUME NEW i \in 0 .. GetUnused - 1 PROVE Stored(i)' = Stored(i)
      OBVIOUS
    <3>1. 0 \in 0 .. newcap /\ i \in 0 .. newcap /\ i < GetUnused
      BY <2>1
    <3>2. i % (newcap + 1) = i /\ 0 + i = i
      BY <2>1, <3>1, WrapNone
    <3>3. data'[i] = Stored(i)
      BY <2>1, <3>1
    <3> QED
      BY <2>1, <3>2, <3>3 DEF Stored, dataSize
  <2> QED
    BY <1>1, <2>1, <2>2, <2>3 DEF Contents, Written, TypeOK
<1> QED
  BY <1>2, <1>3 DEF Resize

\* The copy loop appends the message.
LEMMA CopyAppends ==
    ASSUME IInv, Written, Copy
    PROVE  /\ GetUnused' = GetUnused + Len(insert)
           /\ \A i \in 0 .. GetUnused - 1 : Stored(i)' = Stored(i)
           /\ \A i \in GetUnused .. GetUnused' - 1 : Stored(i)' = insert[i - GetUnused + 1]
<1>1. /\ TypeOK /\ TypeOK' /\ capacity \in Nat /\ GetUnused \in 0 .. capacity
      /\ readIndex \in 0 .. capacity /\ writeIndex \in 0 .. capacity
      /\ Len(insert) \in Nat
  BY NextIInv, UnusedType DEF IInv, Next, TypeOK
<1>2. Len(insert) + GetUnused <= capacity
  BY <1>1 DEF IInv, Growth, RoomToCopy, GetFreeSize, Copy
<1>3. /\ capacity' = capacity /\ readIndex' = readIndex
      /\ data' = [i \in 0 .. capacity |->
                    IF Ahead(i) < Len(insert) THEN insert[Ahead(i) + 1] ELSE data[i]]
      /\ writeIndex' = IF writeIndex + Len(insert) <= capacity
                       THEN writeIndex + Len(insert)
                       ELSE writeIndex + Len(insert) - (capacity + 1)
  <2>1. Len(insert) \in 0 .. capacity
    BY <1>1, <1>2
  <2>2. (writeIndex + Len(insert)) % (capacity + 1) =
          IF writeIndex + Len(insert) <= capacity THEN writeIndex + Len(insert)
          ELSE writeIndex + Len(insert) - (capacity + 1)
    BY <1>1, <2>1, WrapOnce
  <2> QED
    BY <2>2 DEF Copy, dataSize
<1>4. GetUnused' = GetUnused + Len(insert)
  <2>1. GetUnused = IF writeIndex >= readIndex THEN writeIndex - readIndex
                    ELSE ((capacity + 1) - readIndex) + writeIndex
    BY DEF GetUnused, dataSize
  <2>2. GetUnused' = IF writeIndex' >= readIndex THEN writeIndex' - readIndex
                     ELSE ((capacity + 1) - readIndex) + writeIndex'
    BY <1>3 DEF GetUnused, dataSize
  <2>3. /\ Len(insert) + GetUnused <= capacity
        /\ writeIndex' = (IF writeIndex + Len(insert) <= capacity
                          THEN writeIndex + Len(insert)
                          ELSE writeIndex + Len(insert) - (capacity + 1))
    BY <1>2, <1>3
  <2> DEFINE l == Len(insert)
  <2>4. CASE writeIndex >= readIndex /\ writeIndex + l <= capacity
    BY <1>1, <2>1, <2>2, <2>3, <2>4
  <2>5. CASE writeIndex >= readIndex /\ ~(writeIndex + l <= capacity)
    <3>1. GetUnused = writeIndex - readIndex /\ writeIndex' = writeIndex + l - (capacity + 1)
      BY <2>1, <2>3, <2>5
    <3>2. ~(writeIndex' >= readIndex)
      BY <1>1, <2>3, <3>1
    <3> QED
      BY <1>1, <2>2, <3>1, <3>2
  <2>6. CASE ~(writeIndex >= readIndex)
    <3>1. GetUnused = ((capacity + 1) - readIndex) + writeIndex
      BY <2>1, <2>6
    <3>2. writeIndex + l < readIndex /\ writeIndex + l <= capacity
      BY <1>1, <2>3, <3>1
    <3>3. writeIndex' = writeIndex + l /\ ~(writeIndex' >= readIndex)
      BY <1>1, <2>3, <3>2
    <3> QED
      BY <1>1, <2>2, <3>1, <3>3
  <2> QED
    BY <2>4, <2>5, <2>6
<1> DEFINE at(i) == IF readIndex + i <= capacity THEN readIndex + i
                    ELSE readIndex + i - dataSize
<1>5. ASSUME NEW i \in 0 .. GetUnused' - 1
      PROVE  /\ Stored(i) = data[at(i)] /\ Stored(i)' = data'[at(i)]
             /\ at(i) \in 0 .. capacity
             /\ Ahead(at(i)) = IF i < GetUnused THEN i - GetUnused + capacity + 1
                               ELSE i - GetUnused
  <2>1. i \in 0 .. capacity /\ i \in 0 .. capacity'
    BY <1>1, <1>2, <1>3, <1>4
  <2>2. Stored(i) = data[at(i)]
    BY <1>1, <2>1, StoredAt
  <2>3. Stored(i)' = data'[at(i)]
    <3>1. (readIndex + i) % (capacity + 1) = at(i)
      BY <1>1, <2>1, WrapOnce DEF dataSize
    <3> QED
      BY <1>3, <3>1 DEF Stored, dataSize
  <2>4. at(i) \in 0 .. capacity
    BY <1>1, <2>1 DEF dataSize
  <2>5. Ahead(at(i)) = IF i < GetUnused THEN i - GetUnused + capacity + 1
                       ELSE i - GetUnused
    BY <1>1, <1>2, <1>4, <2>1 DEF Ahead, GetUnused, dataSize
  <2> QED
    BY <2>2, <2>3, <2>4, <2>5
<1>6. ASSUME NEW i \in 0 .. GetUnused - 1 PROVE Stored(i)' = Stored(i)
  <2>1. i \in 0 .. GetUnused' - 1 /\ i < GetUnused
    BY <1>1, <1>4
  <2>2. ~(Ahead(at(i)) < Len(insert))
    BY <1>1, <1>2, <1>5, <2>1
  <2> HIDE DEF at
  <2> QED
    BY <1>3, <1>5, <2>1, <2>2
<1>7. ASSUME NEW i \in GetUnused .. GetUnused' - 1
      PROVE  Stored(i)' = insert[i - GetUnused + 1]
  <2>1. i \in 0 .. GetUnused' - 1 /\ ~(i < GetUnused)
    BY <1>1, <1>4
  <2>2. Ahead(at(i)) = i - GetUnused /\ i - GetUnused < Len(insert)
    BY <1>1, <1>4, <1>5, <2>1
  <2> HIDE DEF at
  <2> QED
    BY <1>3, <1>5, <2>1, <2>2
<1> QED
  BY <1>4, <1>6, <1>7

\* What leaves the ring is what was stored first.
LEMMA TakeLeaves ==
    ASSUME TypeOK, NEW n \in 1 .. GetUnused,
           readIndex' = (readIndex + n) % dataSize,
           UNCHANGED <<data, capacity, writeIndex>>
    PROVE  /\ GetUnused' = GetUnused - n
           /\ \A i \in 0 .. GetUnused' - 1 : Stored(i)' = Stored(n + i)
<1>1. /\ capacity \in Nat /\ GetUnused \in 0 .. capacity
      /\ readIndex \in 0 .. capacity /\ writeIndex \in 0 .. capacity
  BY UnusedType DEF TypeOK
<1>2. readIndex' = IF readIndex + n <= capacity THEN readIndex + n
                   ELSE readIndex + n - (capacity + 1)
  BY <1>1, WrapOnce DEF dataSize
<1>3. GetUnused' = GetUnused - n
  BY <1>1, <1>2 DEF GetUnused, dataSize
<1>4. ASSUME NEW i \in 0 .. GetUnused' - 1 PROVE Stored(i)' = Stored(n + i)
  <2>1. n + i \in 0 .. capacity /\ i \in 0 .. capacity /\ readIndex' \in 0 .. capacity
    BY <1>1, <1>2, <1>3
  <2>2. (readIndex' + i) % (capacity + 1) = (readIndex + (n + i)) % (capacity + 1)
    <3>1. (readIndex + (n + i)) % (capacity + 1) =
             IF readIndex + (n + i) <= capacity THEN readIndex + (n + i)
             ELSE readIndex + (n + i) - (capacity + 1)
      BY <1>1, <2>1, WrapOnce
    <3>2. (readIndex' + i) % (capacity + 1) =
             IF readIndex' + i <= capacity THEN readIndex' + i
             ELSE readIndex' + i - (capacity + 1)
      BY <1>1, <2>1, WrapOnce
    <3> QED
      BY <1>1, <1>2, <2>1, <3>1, <3>2
  <2> QED
    BY <2>2 DEF Stored, dataSize
<1> QED
  BY <1>3, <1>4

\* A message is being written in every place of WriteToBuffer but "ready".
Busy == pc # "ready" <=> insert # <<>>

\* What the refinement rests on; nothing is said of the bytes once a write()
\* has failed.
QInv == IInv /\ Busy /\ (~failed => Written)

\* Nothing is stored at first.
LEMMA InitQueue == Init => QInv /\ Queue!Init
<1> SUFFICES ASSUME Init PROVE QInv /\ Queue!Init
  OBVIOUS
<1>1. GetUnused = 0
  BY DEF Init, GetUnused
<1>2. Written /\ Contents = <<>>
  BY <1>1 DEF Written, Contents
<1> QED
  BY <1>2, InitIInv DEF QInv, Busy, Queue!Init, Init

LEMMA NextBusy == IInv /\ Busy /\ [Next]_vars => Busy'
<1> SUFFICES ASSUME IInv, Busy, [Next]_vars PROVE Busy'
  OBVIOUS
<1>1. ASSUME NEW s \in Messages, WriteToBuffer(s) PROVE Busy'
  BY <1>1 DEF WriteToBuffer, Busy
<1>2. CASE GrowLoop \/ Resize \/ Copy \/ WriteToSocketError \/ UNCHANGED vars
  BY <1>2 DEF GrowLoop, Resize, Copy, WriteToSocketError, vars, Busy
<1>3. ASSUME NEW n \in 1 .. MaxCapacity, Read(n) \/ WriteToSocket(n) PROVE Busy'
  BY <1>3 DEF Read, WriteToSocket, Busy
<1> QED
  BY <1>1, <1>2, <1>3 DEF Next

\* A step of the ring is a step of the queue or changes nothing in it.
LEMMA NextQueue ==
    ASSUME QInv, ~failed, ~failed', [Next]_vars
    PROVE  QInv' /\ [Queue!Next]_<<Contents, insert, out, failed>>
<1>1. /\ IInv /\ IInv' /\ Written /\ TypeOK /\ TypeOK' /\ Busy /\ Busy'
      /\ failed = FALSE /\ failed' = FALSE
  BY NextIInv, NextBusy DEF QInv, IInv, TypeOK
<1>2. /\ Contents \in Seq(Byte) /\ Len(Contents) = GetUnused
      /\ \A i \in 1 .. GetUnused : Contents[i] = Stored(i - 1)
      /\ GetUnused \in 0 .. capacity /\ capacity \in Nat
      /\ readIndex \in 0 .. capacity /\ writeIndex \in 0 .. capacity
  BY <1>1, ContentsType, UnusedType DEF TypeOK
\* Bytes that leave, in order, are a Take.
<1>3. ASSUME NEW n \in 1 .. GetUnused, readIndex' = (readIndex + n) % dataSize,
             UNCHANGED <<data, capacity, writeIndex, insert>>, insert = <<>>,
             out' \in Seq(Byte), Len(out') = n,
             \A i \in 1 .. n : out'[i] = Stored(i - 1)
      PROVE  QInv' /\ Queue!Take
  <2>1. /\ GetUnused' = GetUnused - n
        /\ \A i \in 0 .. GetUnused' - 1 : Stored(i)' = Stored(n + i)
    BY <1>1, <1>3, TakeLeaves
  <2>2. Written'
    <3>1. \A i \in 0 .. GetUnused' - 1 : n + i \in 0 .. GetUnused - 1
      BY <1>2, <2>1
    <3> QED
      BY <1>1, <2>1, <3>1 DEF Written
  <2>3. /\ Contents' \in Seq(Byte) /\ Len(Contents') = GetUnused'
        /\ \A i \in 1 .. GetUnused' : Contents'[i] = Stored(i - 1)'
    <3>1. GetUnused' \in Nat /\ \A i \in 1 .. GetUnused' : Stored(i - 1)' \in Byte
      BY <1>2, <2>1, <2>2 DEF Written
    <3>2. Contents' = [i \in 1 .. GetUnused' |-> Stored(i - 1)']
      BY DEF Contents
    <3> QED
      BY <3>1, <3>2
  <2>4. \A i \in 1 .. GetUnused - n : Contents'[i] = Contents[n + i]
    <3> SUFFICES ASSUME NEW i \in 1 .. GetUnused - n
                 PROVE  Contents'[i] = Contents[n + i]
      OBVIOUS
    <3>1. i - 1 \in 0 .. GetUnused' - 1 /\ i \in 1 .. GetUnused'
          /\ n + i \in 1 .. GetUnused /\ n + (i - 1) = (n + i) - 1
      BY <1>2, <2>1
    <3>2. Stored(i - 1)' = Stored(n + (i - 1))
      BY <2>1, <3>1
    <3> QED
      BY <1>2, <2>3, <3>1, <3>2
  <2>5. out' = SubSeq(Contents, 1, n)
    BY <1>2, <1>3
  <2>6. Contents' = SubSeq(Contents, n + 1, Len(Contents))
    BY <1>2, <2>1, <2>3, <2>4
  <2> QED
    BY <1>1, <1>2, <1>3, <2>2, <2>5, <2>6 DEF QInv, Queue!Take
<1>4. CASE Copy
  <2>1. /\ GetUnused' = GetUnused + Len(insert)
        /\ \A i \in 0 .. GetUnused - 1 : Stored(i)' = Stored(i)
        /\ \A i \in GetUnused .. GetUnused' - 1 : Stored(i)' = insert[i - GetUnused + 1]
    BY <1>1, <1>4, CopyAppends
  <2>2. insert \in Seq(Byte) /\ Len(insert) \in Nat
    BY <1>1 DEF TypeOK
  <2>3. Written'
    <3> SUFFICES ASSUME NEW i \in 0 .. GetUnused' - 1 PROVE Stored(i)' \in Byte
      BY DEF Written
    <3>1. CASE i \in 0 .. GetUnused - 1
      BY <1>1, <2>1, <3>1 DEF Written
    <3>2. CASE i \in GetUnused .. GetUnused' - 1
      <4>1. i - GetUnused + 1 \in 1 .. Len(insert)
        BY <1>2, <2>1, <2>2, <3>2
      <4> QED
        BY <2>1, <2>2, <3>2, <4>1
    <3> QED
      BY <1>2, <3>1, <3>2
  <2>4. /\ Contents' \in Seq(Byte) /\ Len(Contents') = GetUnused'
        /\ \A i \in 1 .. GetUnused' : Contents'[i] = Stored(i - 1)'
    <3>1. GetUnused' \in Nat /\ \A i \in 1 .. GetUnused' : Stored(i - 1)' \in Byte
      BY <1>2, <2>1, <2>2, <2>3 DEF Written
    <3>2. Contents' = [i \in 1 .. GetUnused' |-> Stored(i - 1)']
      BY DEF Contents
    <3> QED
      BY <3>1, <3>2
  <2>5. \A i \in Len(Contents) + 1 .. GetUnused' :
          Contents'[i] = insert[i - Len(Contents)]
    <3> SUFFICES ASSUME NEW i \in GetUnused + 1 .. GetUnused'
                 PROVE  Contents'[i] = insert[i - GetUnused]
      BY <1>2
    <3>1. /\ i - 1 \in GetUnused .. GetUnused' - 1 /\ i \in 1 .. GetUnused'
          /\ (i - 1) - GetUnused + 1 = i - GetUnused
      BY <1>2, <2>1, <2>2
    <3>2. Stored(i - 1)' = insert[i - GetUnused]
      BY <2>1, <3>1
    <3> QED
      BY <2>4, <3>1, <3>2
  <2>6. \A i \in 1 .. Len(Contents) : Contents'[i] = Contents[i]
    <3> SUFFICES ASSUME NEW i \in 1 .. GetUnused PROVE Contents'[i] = Contents[i]
      BY <1>2
    <3>1. i - 1 \in 0 .. GetUnused - 1 /\ i \in 1 .. GetUnused'
      BY <1>2, <2>1, <2>2
    <3> QED
      BY <1>2, <2>1, <2>4, <3>1
  <2>7. Contents' = Contents \o insert
    <3>1. /\ Contents \o insert \in Seq(Byte)
          /\ Len(Contents \o insert) = Len(Contents) + Len(insert)
      BY <1>2, <2>2
    <3>2. /\ Contents' \in Seq(Byte) /\ Len(Contents') = Len(Contents) + Len(insert)
          /\ Len(Contents) \in Nat
      BY <1>2, <2>1, <2>4
    <3>3. ASSUME NEW i \in 1 .. Len(Contents) + Len(insert)
          PROVE  Contents'[i] = (Contents \o insert)[i]
      <4>1. CASE i \in 1 .. Len(Contents)
        BY <1>2, <2>2, <2>6, <4>1
      <4>2. CASE i - Len(Contents) \in 1 .. Len(insert)
        <5>1. Contents'[i] = insert[i - Len(Contents)]
          BY <1>2, <2>1, <2>2, <2>5, <3>2, <4>2
        <5> QED
          BY <1>2, <2>2, <3>2, <4>2, <5>1
      <4> QED
        BY <2>2, <3>2, <4>1, <4>2
    <3> DEFINE n == Len(Contents) + Len(insert)
               u == Contents \o insert
    <3>4. /\ n \in Nat /\ u \in [1 .. n -> Byte] /\ Contents' \in [1 .. n -> Byte]
      <4>1. \A q \in Seq(Byte) : q \in [1 .. Len(q) -> Byte] /\ Len(q) \in Nat
        OBVIOUS
      <4> HIDE DEF u
      <4> QED
        BY <3>1, <3>2, <4>1 DEF u
    <3>5. \A i \in 1 .. n : Contents'[i] = u[i]
      BY <3>3
    <3> HIDE DEF n, u
    <3>6. Contents' = u
      BY <3>4, <3>5
    <3> QED
      BY <3>6 DEF u
  <2>8. insert # <<>> /\ insert' = <<>> /\ out' = <<>>
    BY <1>1, <1>4 DEF Copy, Busy
  <2> QED
    BY <1>1, <2>3, <2>7, <2>8 DEF QInv, Queue!Put, Queue!Next
<1>5. CASE GrowLoop \/ UNCHANGED vars
  <2>1. UNCHANGED <<data, capacity, readIndex, writeIndex, insert, out, failed>>
    BY <1>5 DEF GrowLoop, vars
  <2> QED
    BY <1>1, <2>1, SameRing DEF QInv
<1>10. ASSUME NEW s \in Messages, WriteToBuffer(s)
       PROVE  QInv' /\ Queue!Next
  <2>1. s \in Seq(Byte) /\ Len(s) \in Nat
    BY MessageType
  <2>2. /\ UNCHANGED <<data, capacity, readIndex, writeIndex, out, failed>>
        /\ insert' = s /\ s # <<>> /\ insert = <<>>
    BY <1>1, <1>10 DEF WriteToBuffer, Busy
  <2>3. GetUnused + Len(s) <= MaxCapacity
    BY <1>1, <1>2, <1>10, <2>1, MaxCapacityType
    DEF WriteToBuffer, OutOfCapacity, GetFreeSize, MinCapNeed, IInv, Growth
  <2>4. Queue!Accept
    BY <1>1, <1>2, <2>1, <2>2, <2>3, SameRing DEF Queue!Accept
  <2> QED
    BY <1>1, <2>2, <2>4, SameRing DEF QInv, Queue!Next
<1>6. CASE Resize
  <2>1. UNCHANGED <<insert, out, failed>>
    BY <1>6 DEF Resize
  <2> QED
    BY <1>1, <1>6, <2>1, ResizeKeeps DEF QInv
<1>7. ASSUME NEW n \in 1 .. MaxCapacity, Read(n)
      PROVE  QInv' /\ Queue!Next
  <2>1. n \in 1 .. GetUnused
    BY <1>2, <1>7 DEF Read
  <2>2. \A i \in 1 .. n : Stored(i - 1) \in Byte
    BY <1>1, <1>2, <2>1 DEF Written
  <2>3. /\ out' = [i \in 1 .. n |-> Stored(i - 1)]
        /\ readIndex' = (readIndex + n) % dataSize
        /\ UNCHANGED <<data, capacity, writeIndex, insert>> /\ insert = <<>>
    BY <1>1, <1>7 DEF Read, Busy
  <2>4. /\ out' \in Seq(Byte) /\ Len(out') = n
        /\ \A i \in 1 .. n : out'[i] = Stored(i - 1)
    BY <2>1, <2>2, <2>3
  <2> QED
    BY <1>3, <2>1, <2>3, <2>4 DEF Queue!Next
<1>8. ASSUME NEW n \in 1 .. MaxCapacity, WriteToSocket(n)
      PROVE  QInv' /\ Queue!Next
  <2>1. n \in 1 .. GetUnused /\ readIndex + n <= capacity + 1
    BY <1>2, <1>8 DEF WriteToSocket, CurSendLen, GetUnused, dataSize
  <2>2. \A i \in 1 .. n : Stored(i - 1) = data[readIndex + i - 1] /\ Stored(i - 1) \in Byte
    <3> SUFFICES ASSUME NEW i \in 1 .. n
                 PROVE  Stored(i - 1) = data[readIndex + i - 1] /\ Stored(i - 1) \in Byte
      OBVIOUS
    <3>1. /\ i - 1 \in 0 .. GetUnused - 1 /\ i - 1 \in 0 .. capacity
          /\ readIndex + (i - 1) <= capacity /\ readIndex + (i - 1) = readIndex + i - 1
      BY <1>2, <2>1
    <3>2. Stored(i - 1) = data[readIndex + (i - 1)]
      BY <1>1, <3>1, StoredAt
    <3> QED
      BY <1>1, <3>1, <3>2 DEF Written
  <2>3. /\ out' = [i \in 1 .. n |-> data[readIndex + i - 1]]
        /\ readIndex' = (readIndex + n) % dataSize
        /\ UNCHANGED <<data, capacity, writeIndex, insert>> /\ insert = <<>>
    BY <1>1, <1>8 DEF WriteToSocket, Busy
  <2>4. /\ out' \in Seq(Byte) /\ Len(out') = n
        /\ \A i \in 1 .. n : out'[i] = Stored(i - 1)
    BY <2>1, <2>2, <2>3
  <2> QED
    BY <1>3, <2>1, <2>3, <2>4 DEF Queue!Next
<1>9. ~WriteToSocketError
  BY <1>1 DEF WriteToSocketError
<1> QED
  BY <1>4, <1>5, <1>6, <1>7, <1>8, <1>9, <1>10 DEF Next

\* Once a write() has failed, every step is one the abstract queue allows.
LEMMA NextAfterFailure ==
    ASSUME QInv, failed \/ failed', [Next]_vars
    PROVE  QInv' /\ [Queue!Next]_<<Contents, insert, out, failed>>
<1>1. IInv' /\ Busy' /\ failed \in BOOLEAN /\ failed' \in BOOLEAN
  BY NextIInv, NextBusy DEF QInv, IInv, TypeOK
<1>2. failed => failed'
  BY DEF Next, WriteToBuffer, GrowLoop, Resize, Copy, Read, WriteToSocket,
         WriteToSocketError, vars
<1>3. failed' = TRUE
  BY <1>1, <1>2
<1> QED
  BY <1>1, <1>3 DEF QInv, Queue!Next, Queue!Fail

\* Until a write() fails the ring is a FIFO of bytes of bounded length, through
\* every resize, wrap-around and partial write: a message WriteToBuffer accepts
\* is appended whole, and what read and write() take are the oldest bytes.
\* (A write() that returns -1 ends this: read_index_ then moves over bytes that
\* were not sent.)
THEOREM RingIsQueue == Spec => IsBoundedQueue
<1>1. Init => QInv /\ Queue!Init
  BY InitQueue DEF Init
<1>2. QInv /\ [Next]_vars => QInv' /\ [Queue!Next]_<<Contents, insert, out, failed>>
  BY NextQueue, NextAfterFailure
<1> QED
  BY <1>1, <1>2, PTL DEF Spec, IsBoundedQueue, Queue!Spec
=============================================================================
