-------------------------- MODULE ClientPool_proofs --------------------------
(***************************************************************************)
(* For any number of clients, ThreadClients and ticks, and buffers of any   *)
(* size: the ObjectPool gives every ThreadClient to one client at a time;   *)
(* a client that got one with empty buffers finds all its messages, in      *)
(* order, on the way, in RecvBuf or in SendBuf, and no whole message waits  *)
(* in RecvBuf; and the time it does nothing is counted.                     *)
(***************************************************************************)
EXTENDS ClientPool, FiniteSetTheorems, SequenceTheorems, TLAPS

-----------------------------------------------------------------------------
(* The pool *)

Owners == {f \in Fd : client[f] # None}
Given == {client[f] : f \in Owners}
Pooled == {free[i] : i \in 1 .. Len(free)}

\* The ThreadClients that were made are those in the pool and those given out;
\* none is in the pool twice and none is given to two clients.
PoolShape ==
    /\ \E k \in 0 .. NumObj : made = 1 .. k
    /\ made = Pooled \cup Given
    /\ Pooled \cap Given = {}
    /\ \A i, j \in 1 .. Len(free) : free[i] = free[j] => i = j
    /\ \A f, g \in Owners : client[f] = client[g] => f = g
    /\ used = Cardinality(Owners)

\* The fds in use are those that have a ThreadClient.
Placed ==
    \A f \in Fd : IF place[f] = "none"
                  THEN client[f] = None /\ peer[f] = "none" /\ wire[f] = <<>>
                  ELSE client[f] # None

\* Whether r is what messages look like from the start of one on.
Aligned(r) == \A i \in 1 .. Len(r) : r[i] = IF i % 2 = 1 THEN "header" ELSE "rest"

\* The ThreadClient of the client that is watched.
Mine == obj[client[Watched]]

\* What is in RecvBuf and on the way is aligned, and what is owed is counted in
\* SendBuf, among the dropped, or there, two units to a message.  Nothing was
\* dropped while no more was owed than SendBuf holds.
Answers ==
    /\ clean => /\ place[Watched] # "none" /\ Len(Mine.recv) < 2
                /\ Aligned(Mine.recv \o wire[Watched])
    /\ ~clean => owed = 0 /\ dropped = 0
    /\ clean /\ peer[Watched] = "open" =>
         /\ 2 * (owed - Mine.send - dropped) = Len(Mine.recv) + Len(wire[Watched])
         /\ ~crowded => dropped = 0 /\ owed <= SendSize

\* The clock of the client that is watched runs only while it is served.
Idle ==
    /\ Watched \notin Served \/ skipped => idle = 0
    /\ IdleIsCounted

CInv == TypeOK /\ PoolShape /\ Placed /\ Answers /\ Idle

-----------------------------------------------------------------------------
(* Operators *)

LEMMA MinOfTwo ==
    ASSUME NEW a \in Int, NEW b \in Int
    PROVE  Min({a, b}) = IF a <= b THEN a ELSE b
BY DEF Min

LEMMA SatIs ==
    ASSUME NEW t \in Nat
    PROVE  /\ Sat(t) = (IF t <= ExpireTime THEN t ELSE ExpireTime)
           /\ Sat(t) \in 0 .. ExpireTime
BY ClientPoolAssumption, MinOfTwo DEF Sat

LEMMA FdFinite == \A S \in SUBSET Fd : IsFiniteSet(S) /\ Cardinality(S) \in Nat
                                       /\ Cardinality(S) <= MaxFd
<1>1. IsFiniteSet(Fd) /\ Cardinality(Fd) = MaxFd
  BY ClientPoolAssumption, FS_Interval DEF Fd
<1> QED
  BY <1>1, FS_Subset, FS_CardinalityType

LEMMA Halves ==
    ASSUME NEW n \in Nat
    PROVE  /\ n \div 2 \in Nat /\ n - 2 * (n \div 2) \in {0, 1}
           /\ n % 2 = n - 2 * (n \div 2)
OBVIOUS

\* The end of a sequence.
LEMMA Suffix ==
    ASSUME NEW s \in Seq(Unit), NEW m \in Nat, m <= Len(s)
    PROVE  /\ SubSeq(s, m + 1, Len(s)) \in Seq(Unit)
           /\ Len(SubSeq(s, m + 1, Len(s))) = Len(s) - m
           /\ \A i \in 1 .. Len(s) - m : SubSeq(s, m + 1, Len(s))[i] = s[m + i]
OBVIOUS

LEMMA Joined ==
    ASSUME NEW S, NEW s \in Seq(S), NEW t \in Seq(S)
    PROVE  /\ s \o t \in Seq(S)
           /\ Len(s \o t) = Len(s) + Len(t)
           /\ \A i \in 1 .. Len(s) + Len(t) :
                (s \o t)[i] = IF i <= Len(s) THEN s[i] ELSE t[i - Len(s)]
OBVIOUS

\* Requests counts the headers.
LEMMA RequestsType ==
    ASSUME NEW r \in Seq(Unit)
    PROVE  Requests(r) \in Nat
<1>1. IsFiniteSet(1 .. Len(r))
  BY FS_Interval
<1>2. IsFiniteSet({i \in 1 .. Len(r) : r[i] = "header"})
  BY <1>1, FS_Subset
<1> QED
  BY <1>2, FS_CardinalityType DEF Requests

\* As many as there are messages, if they are aligned.
LEMMA RequestsAligned ==
    ASSUME NEW r \in Seq(Unit), NEW k \in Int, Aligned(r), Len(r) = 2 * k
    PROVE  Requests(r) = k
<1> DEFINE H == {i \in 1 .. Len(r) : r[i] = "header"}
           b == [j \in 1 .. k |-> 2 * j - 1]
<1>1. k \in Nat
  OBVIOUS
<1>2. \A i \in 1 .. Len(r) : i \in H <=> i % 2 = 1
  BY DEF Aligned
<1>3. \A j \in 1 .. k : 2 * j - 1 \in H
  <2>1. \A j \in 1 .. k : 2 * j - 1 \in 1 .. Len(r) /\ (2 * j - 1) % 2 = 1
    BY <1>1
  <2> QED
    BY <1>2, <2>1
<1>4. \A i \in H : \E j \in 1 .. k : i = 2 * j - 1
  <2> SUFFICES ASSUME NEW i \in H PROVE \E j \in 1 .. k : i = 2 * j - 1
    OBVIOUS
  <2>1. i \in 1 .. 2 * k /\ i % 2 = 1
    BY <1>2
  <2>2. i \div 2 \in Nat /\ i = 2 * ((i \div 2) + 1) - 1
    BY <2>1, Halves
  <2>3. PICK j \in Int : j = (i \div 2) + 1
    BY <2>2
  <2>4. i = 2 * j - 1
    BY <2>2, <2>3
  <2> QED
    BY <1>1, <2>1, <2>4
<1> HIDE DEF H
<1>5. b \in Bijection(1 .. k, H)
  <2>1. b \in [1 .. k -> H]
    BY <1>3
  <2>2. \A i, j \in 1 .. k : b[i] = b[j] => i = j
    BY <1>1
  <2>3. \A i \in H : \E j \in 1 .. k : b[j] = i
    BY <1>4
  <2> QED
    BY <2>1, <2>2, <2>3 DEF Bijection, Injection, Surjection, IsInjective
<1>6. Cardinality(H) = k
  BY <1>1, <1>5, FS_CountingElements DEF ExistsBijection
<1> QED
  BY <1>6 DEF H, Requests

\* What RecvData leaves is less than a message.
LEMMA HandledType ==
    ASSUME NEW r \in Seq(Unit), Len(r) >= 1, NEW h \in Handled(r)
    PROVE  /\ h.left \in Seq(Unit) /\ Len(h.left) <= 1 /\ h.messages \in Nat
<1>1. CASE Misread(r)
  <2>1. h \in [left : {<<>>, <<"rest">>, <<r[Len(r)]>>}, messages : 0 .. Requests(r)]
    BY <1>1 DEF Handled
  <2>2. h.left \in {<<>>, <<"rest">>, <<r[Len(r)]>>} /\ h.messages \in 0 .. Requests(r)
    BY <2>1
  <2>3. PICK u \in Unit : u = r[Len(r)]
    BY DEF Unit
  <2>4. h.left \in {<<>>, <<"rest">>, <<u>>} /\ "rest" \in Unit
    BY <2>2, <2>3 DEF Unit
  <2>5. h.left \in Seq(Unit) /\ Len(h.left) <= 1
    <3>1. <<>> \in Seq(Unit) /\ Len(<<>>) = 0
      OBVIOUS
    <3>2. \A t \in Unit : <<t>> \in Seq(Unit) /\ Len(<<t>>) = 1
      OBVIOUS
    <3>3. CASE h.left = <<>>
      BY <3>1, <3>3
    <3>4. CASE \E t \in Unit : h.left = <<t>>
      BY <3>2, <3>4
    <3> QED
      BY <2>4, <3>3, <3>4
  <2> QED
    BY <2>2, <2>5, RequestsType
<1>2. CASE ~Misread(r)
  <2>1. /\ h.left = SubSeq(r, 2 * (Len(r) \div 2) + 1, Len(r))
        /\ h.messages = Len(r) \div 2
    BY <1>2 DEF Handled, Whole
  <2>2. PICK m \in Nat : m = Len(r) \div 2 /\ Len(r) - 2 * m \in {0, 1}
    BY Halves
  <2>3. h.left \in Seq(Unit) /\ Len(h.left) = Len(r) - 2 * m
    <3>1. PICK p \in Nat : p = 2 * m /\ p <= Len(r)
      BY <2>2
    <3>2. h.left = SubSeq(r, p + 1, Len(r))
      BY <2>1, <2>2, <3>1
    <3>3. h.left \in Seq(Unit) /\ Len(h.left) = Len(r) - p
      BY <3>1, <3>2, Suffix, Zenon
    <3> QED
      BY <3>1, <3>3
  <2>4. Len(r) - 2 * m <= 1
    BY <2>2
  <2>5. h.messages = m
    BY <2>1, <2>2
  <2>6. Len(h.left) <= 1
    BY <2>3, <2>4
  <2> QED
    BY <2>3, <2>5, <2>6
<1> QED
  BY <1>1, <1>2

\* x and v are what is left of c and w: x goes up to the n-th of w and is
\* without the first p, v begins after the n-th of w.
Remain(x, v, c, w, n, p) ==
    /\ Len(x) = Len(c) + n - p /\ \A i \in 1 .. Len(x) : x[i] = (c \o w)[p + i]
    /\ Len(v) = Len(w) - n /\ \A i \in 1 .. Len(v) : v[i] = w[n + i]

\* Taking two units a message off the front leaves the rest aligned.
LEMMA JoinAligned ==
    ASSUME NEW c \in Seq(Unit), NEW w \in Seq(Unit), NEW x \in Seq(Unit),
           NEW v \in Seq(Unit), NEW n \in Nat, NEW p \in Nat, p % 2 = 0,
           Remain(x, v, c, w, n, p), Aligned(c \o w)
    PROVE  Aligned(x \o v)
<1>1. /\ Len(x \o v) = Len(x) + Len(v)
      /\ \A i \in 1 .. Len(x) + Len(v) :
           (x \o v)[i] = IF i <= Len(x) THEN x[i] ELSE v[i - Len(x)]
  BY Joined
<1>2. /\ Len(c \o w) = Len(c) + Len(w)
      /\ \A i \in 1 .. Len(c) + Len(w) :
           (c \o w)[i] = IF i <= Len(c) THEN c[i] ELSE w[i - Len(c)]
  BY Joined
<1>3. Len(x) \in Nat /\ Len(v) \in Nat /\ Len(c) \in Nat /\ Len(w) \in Nat
  OBVIOUS
<1>4. Len(x) = Len(c) + n - p /\ Len(v) = Len(w) - n
  BY DEF Remain
<1>5. ASSUME NEW i \in 1 .. Len(x) + Len(v)
      PROVE  (x \o v)[i] = IF i % 2 = 1 THEN "header" ELSE "rest"
  <2>1. p + i \in 1 .. Len(c) + Len(w)
    BY <1>3, <1>4
  <2>2. (p + i) % 2 = i % 2
    <3>1. PICK m \in Nat : p = 2 * m
      BY Halves
    <3>2. (2 * m + i) % 2 = i % 2
      OBVIOUS
    <3> QED
      BY <3>1, <3>2
  <2>3. (x \o v)[i] = (c \o w)[p + i]
    <3>1. CASE i <= Len(x)
      <4>1. i \in 1 .. Len(x)
        BY <1>3, <3>1
      <4>2. (x \o v)[i] = x[i]
        BY <1>1, <3>1
      <4> QED
        BY <4>1, <4>2 DEF Remain
    <3>2. CASE ~(i <= Len(x))
      <4>1. i - Len(x) \in 1 .. Len(v)
        BY <1>3, <3>2
      <4>2. (x \o v)[i] = v[i - Len(x)]
        BY <1>1, <3>2
      <4>3. v[i - Len(x)] = w[n + (i - Len(x))]
        BY <4>1 DEF Remain
      <4>4. n + (i - Len(x)) = (p + i) - Len(c) /\ ~(p + i <= Len(c))
        BY <1>3, <1>4, <3>2
      <4>5. (c \o w)[p + i] = w[(p + i) - Len(c)]
        BY <1>2, <2>1, <4>4
      <4> QED
        BY <4>2, <4>3, <4>4, <4>5
    <3> QED
      BY <3>1, <3>2
  <2> QED
    BY <1>2, <2>1, <2>2, <2>3 DEF Aligned
<1> QED
  BY <1>1, <1>5 DEF Aligned

\* From aligned units RecvData takes the whole messages and leaves the rest:
\* what stays in RecvBuf and what is still on the way (v) is aligned again.
LEMMA HandledAligned ==
    ASSUME NEW c \in Seq(Unit), NEW w \in Seq(Unit), NEW r \in Seq(Unit),
           NEW v \in Seq(Unit), NEW n \in Nat,
           Remain(r, v, c, w, n, 0), Aligned(c \o w), NEW h \in Handled(r)
    PROVE  Aligned(h.left \o v) /\ Len(h.left) = Len(r) - 2 * h.messages
<1>1. /\ Len(r) \in Nat /\ Len(c) \in Nat /\ Len(w) \in Nat /\ Len(v) \in Nat
  OBVIOUS
<1>2. /\ Len(r) = Len(c) + n /\ Len(v) = Len(w) - n /\ Len(c \o w) = Len(c) + Len(w)
      /\ \A i \in 1 .. Len(r) : r[i] = (c \o w)[i]
  BY <1>1, Joined DEF Remain
<1>3. ~Misread(r)
  <2>1. \A i \in 1 .. Len(r) : i \in 1 .. Len(c \o w)
    BY <1>1, <1>2
  <2> QED
    BY <1>2, <2>1 DEF Misread, Odd, Aligned
<1>4. PICK m \in Nat : m = Len(r) \div 2 /\ Len(r) - 2 * m \in {0, 1}
  BY <1>1, Halves
<1>5. PICK x : x = h.left
  OBVIOUS
<1>6. x = SubSeq(r, 2 * m + 1, Len(r)) /\ h.messages = m
  BY <1>3, <1>4, <1>5 DEF Handled, Whole
<1>7. PICK p \in Nat : p = 2 * m /\ p <= Len(r) /\ p % 2 = 0
  BY <1>1, <1>4
<1>8. x = SubSeq(r, p + 1, Len(r))
  BY <1>6, <1>7
<1>9. /\ x \in Seq(Unit) /\ Len(x) = Len(r) - p
      /\ \A i \in 1 .. Len(r) - p : x[i] = r[p + i]
  BY <1>1, <1>7, <1>8, Suffix, Zenon
<1>10. Remain(x, v, c, w, n, p)
  <2>1. \A i \in 1 .. Len(r) - p : p + i \in 1 .. Len(r)
    BY <1>1, <1>7
  <2>2. \A i \in 1 .. Len(x) : x[i] = (c \o w)[p + i]
    BY <1>2, <1>9, <2>1
  <2>3. Len(x) = Len(c) + n - p
    BY <1>2, <1>9
  <2> QED
    BY <2>2, <2>3 DEF Remain
<1>11. Aligned(x \o v)
  BY <1>7, <1>9, <1>10, JoinAligned
<1> QED
  BY <1>5, <1>6, <1>7, <1>9, <1>11
-----------------------------------------------------------------------------
(* ObjectPool *)

PoolType ==
    /\ free \in Seq(Obj)
    /\ made \in SUBSET Obj
    /\ used \in 0 .. NumObj
    /\ client \in [Fd -> Obj \cup {None}]

\* used is as large as it is because every fd has at most one ThreadClient.
LEMMA UsedType ==
    ASSUME used = Cardinality(Owners)
    PROVE  used \in 0 .. NumObj
<1>1. Owners \in SUBSET Fd
  BY DEF Owners
<1> QED
  BY <1>1, FdFinite, ClientPoolAssumption

\* alloc() gives out an object that nobody has.
LEMMA AllocKeeps ==
    ASSUME PoolType, PoolShape, NEW f \in Fd, client[f] = None, NEW o \in Obj, Alloc(o),
           client' = [client EXCEPT ![f] = o]
    PROVE  PoolType' /\ PoolShape' /\ o \notin Given
<1> USE DEF PoolType
<1>0. None \notin Obj /\ o # None
  BY ClientPoolAssumption DEF Obj
<1>1. client' \in [Fd -> Obj \cup {None}]
  OBVIOUS
<1>2. /\ Owners' = Owners \cup {f} /\ f \notin Owners /\ client'[f] = o
      /\ \A g \in Owners : client'[g] = client[g]
  BY <1>0 DEF Owners
<1>3. Given' = Given \cup {o}
  BY <1>2 DEF Given
<1>4. used' = Cardinality(Owners') /\ used' \in 0 .. NumObj
  <2>1. Owners \in SUBSET Fd /\ Owners' \in SUBSET Fd
    BY DEF Owners
  <2>2. used' = Cardinality(Owners')
    BY <1>2, <2>1, FdFinite, FS_AddElement DEF Alloc, PoolShape
  <2>3. Cardinality(Owners') \in Nat /\ Cardinality(Owners') <= MaxFd
    BY <2>1, FdFinite
  <2> QED
    BY <2>2, <2>3, ClientPoolAssumption
<1>5. /\ o \notin Given /\ made' = made \cup {o}
      /\ free' \in Seq(Obj) /\ Pooled' = Pooled \ {o} /\ made' = Pooled' \cup Given'
      /\ \A i, j \in 1 .. Len(free)' : free'[i] = free'[j] => i = j
      /\ \E k \in 0 .. NumObj : made' = 1 .. k
  <2>0. PICK k \in 0 .. NumObj : made = 1 .. k
    BY DEF PoolShape
  <2>1. CASE free # <<>>
    <3>1. /\ o = free[1] /\ free' = Tail(free) /\ made' = made \cup {o}
          /\ 1 \in 1 .. Len(free)
      BY <2>1 DEF Alloc, Stocked, PopFront
    <3>2. o \in Pooled /\ o \notin Given /\ made' = made
      BY <3>1 DEF Pooled, PoolShape
    <3>3. /\ free' \in Seq(Obj) /\ Len(free') = Len(free) - 1
          /\ \A i \in 1 .. Len(free) - 1 : free'[i] = free[i + 1]
      BY <2>1, <3>1
    <3>4. \A i, j \in 1 .. Len(free') : free'[i] = free'[j] => i = j
      <4>1. \A i \in 1 .. Len(free') : i + 1 \in 1 .. Len(free) /\ free'[i] = free[i + 1]
        BY <3>3
      <4> QED
        BY <4>1 DEF PoolShape
    <3>5. Pooled' = Pooled \ {o}
      <4>1. ASSUME NEW i \in 1 .. Len(free') PROVE free'[i] \in Pooled \ {o}
        <5>1. i + 1 \in 1 .. Len(free) /\ i + 1 # 1 /\ free'[i] = free[i + 1]
          BY <3>3
        <5> QED
          BY <3>1, <5>1 DEF Pooled, PoolShape
      <4>2. ASSUME NEW i \in 1 .. Len(free), free[i] # o PROVE free[i] \in Pooled'
        <5>1. i # 1
          BY <3>1, <4>2
        <5>2. i - 1 \in 1 .. Len(free') /\ free'[i - 1] = free[(i - 1) + 1] /\ (i - 1) + 1 = i
          BY <3>3, <5>1
        <5> QED
          BY <5>2 DEF Pooled
      <4> QED
        BY <4>1, <4>2 DEF Pooled
    <3> QED
      BY <1>3, <2>0, <3>2, <3>3, <3>4, <3>5 DEF PoolShape
  <2>2. CASE free = <<>>
    <3>1. Cardinality(made) = k
      BY <2>0, FS_Interval
    <3>2. o = k + 1 /\ free' = <<>> /\ made' = made \cup {o}
      BY <2>2, <3>1 DEF Alloc, Stocked, PopFront
    <3>3. k + 1 \in 0 .. NumObj /\ made' = 1 .. (k + 1) /\ o \notin made
      BY <2>0, <3>2 DEF Obj
    <3>4. Pooled = {} /\ Pooled' = {}
      BY <2>2, <3>2 DEF Pooled
    <3> QED
      BY <1>3, <3>2, <3>3, <3>4 DEF PoolShape
  <2> QED
    BY <2>1, <2>2
<1>6. \A g, h \in Owners' : client'[g] = client'[h] => g = h
  BY <1>2, <1>5 DEF Given, PoolShape
<1>7. Pooled' \cap Given' = {}
  BY <1>3, <1>5 DEF PoolShape
<1>8. made' \in SUBSET Obj
  BY <1>5
<1> QED
  BY <1>1, <1>4, <1>5, <1>6, <1>7, <1>8 DEF PoolShape

\* The ThreadClients of the clients F go back to the pool, each of them once.
LEMMA RecycleKeeps ==
    ASSUME PoolType, PoolShape, NEW F \in SUBSET Owners, Recycle(F),
           client' = [f \in Fd |-> IF f \in F THEN None ELSE client[f]]
    PROVE  PoolType' /\ PoolShape'
<1> USE DEF PoolType
<1> DEFINE G == {client[f] : f \in F}
           n == Cardinality(F)
<1>0. None \notin Obj
  BY ClientPoolAssumption DEF Obj
<1>1. /\ F \in SUBSET Fd /\ Owners \in SUBSET Fd /\ IsFiniteSet(F) /\ n \in Nat
      /\ IsFiniteSet(1 .. n) /\ Cardinality(1 .. n) = n
  <2>1. F \in SUBSET Fd /\ Owners \in SUBSET Fd
    BY DEF Owners
  <2>2. IsFiniteSet(F) /\ n \in Nat
    BY <2>1, FdFinite
  <2>3. \A m \in Nat : IsFiniteSet(1 .. m) /\ Cardinality(1 .. m) = m
    BY FS_Interval
  <2> QED
    BY <2>1, <2>2, <2>3
<1>2. IsFiniteSet(G) /\ Cardinality(G) = n
  <2> DEFINE b == [f \in F |-> client[f]]
  <2>1. b \in Bijection(F, G)
    <3>1. \A f, g \in F : client[f] = client[g] => f = g
      BY DEF PoolShape
    <3> QED
      BY <3>1 DEF Bijection, Injection, Surjection, IsInjective
  <2> QED
    BY <1>1, <2>1, FS_Bijection DEF ExistsBijection
<1>3. PICK q \in [1 .. n -> G] : {q[i] : i \in DOMAIN q} = G /\ free' = free \o q
  BY DEF Recycle
<1> HIDE DEF n
<1>4. \A i, j \in 1 .. n : q[i] = q[j] => i = j
  <2>1. q \in Surjection(1 .. n, G)
    BY <1>3 DEF Surjection
  <2>2. q \in Injection(1 .. n, G)
    BY <1>1, <1>2, <2>1, FS_SurjSameCardinalityImpliesInj
  <2> QED
    BY <2>2 DEF Injection, IsInjective
<1>5. /\ G \subseteq Given /\ G \cap Pooled = {} /\ G \subseteq Obj
      /\ \A f \in Owners : client[f] \in Obj
  BY DEF Given, Owners, PoolShape
<1>6. /\ q \in Seq(Obj) /\ Len(q) = n
  <2>1. n \in Nat
    BY <1>1
  <2>2. q \in [1 .. n -> Obj]
    <3> HIDE DEF G
    <3> QED
      BY <1>3, <1>5
  <2> QED
    BY <2>1, <2>2
<1>7. /\ free' \in Seq(Obj) /\ Len(free') = Len(free) + n /\ Len(free) \in Nat
      /\ \A i \in 1 .. Len(free) + n :
           free'[i] = IF i <= Len(free) THEN free[i] ELSE q[i - Len(free)]
  <2>1. free \in Seq(Obj) /\ Len(free) \in Nat
    OBVIOUS
  <2>2. PICK r : r = free \o q
    OBVIOUS
  <2>3. /\ r \in Seq(Obj) /\ Len(r) = Len(free) + Len(q)
        /\ \A i \in 1 .. Len(free) + Len(q) :
             r[i] = IF i <= Len(free) THEN free[i] ELSE q[i - Len(free)]
    BY <1>6, <2>1, <2>2, Joined
  <2>4. free' = r
    BY <1>3, <2>2
  <2> QED
    BY <1>6, <2>1, <2>3, <2>4
<1>8. \A i \in 1 .. Len(free) + n :
        IF i <= Len(free) THEN i \in 1 .. Len(free) ELSE i - Len(free) \in 1 .. n
  BY <1>1, <1>7
<1>9. \A i, j \in 1 .. Len(free') : free'[i] = free'[j] => i = j
  <2> SUFFICES ASSUME NEW i \in 1 .. Len(free) + n, NEW j \in 1 .. Len(free) + n,
                      free'[i] = free'[j]
               PROVE  i = j
    BY <1>7
  <2>1. CASE i <= Len(free) /\ j <= Len(free)
    BY <1>7, <1>8, <2>1 DEF PoolShape
  <2>2. CASE ~(i <= Len(free)) /\ ~(j <= Len(free))
    <3>1. i - Len(free) = j - Len(free)
      BY <1>4, <1>7, <1>8, <2>2
    <3> QED
      BY <1>7, <3>1
  <2>3. \A a, b \in 1 .. Len(free) + n : a <= Len(free) /\ ~(b <= Len(free)) => free'[a] # free'[b]
    <3>1. \A a \in 1 .. Len(free) + n : a <= Len(free) => free'[a] \in Pooled
      BY <1>7, <1>8 DEF Pooled
    <3>2. \A b \in 1 .. Len(free) + n : ~(b <= Len(free)) => free'[b] \in G
      <4>1. \A k \in 1 .. n : q[k] \in G
        BY <1>3
      <4> QED
        BY <1>7, <1>8, <4>1
    <3> QED
      BY <1>5, <3>1, <3>2
  <2> QED
    BY <2>1, <2>2, <2>3
<1>10. Pooled' = Pooled \cup G
  <2>1. \A i \in 1 .. Len(free) + n : free'[i] \in Pooled \cup G
    BY <1>3, <1>7, <1>8 DEF Pooled
  <2>2. \A i \in 1 .. Len(free) : i \in 1 .. Len(free) + n /\ free'[i] = free[i]
    BY <1>1, <1>7
  <2>3. \A i \in 1 .. n : i + Len(free) \in 1 .. Len(free) + n /\ free'[i + Len(free)] = q[i]
    <3> SUFFICES ASSUME NEW i \in 1 .. n
                 PROVE  i + Len(free) \in 1 .. Len(free) + n /\ free'[i + Len(free)] = q[i]
      OBVIOUS
    <3>1. /\ i + Len(free) \in 1 .. Len(free) + n /\ ~(i + Len(free) <= Len(free))
          /\ (i + Len(free)) - Len(free) = i
      BY <1>1, <1>7
    <3> QED
      BY <1>7, <3>1
  <2>4. Pooled \subseteq Pooled'
    BY <1>7, <2>2 DEF Pooled
  <2>5. G \subseteq Pooled'
    <3> SUFFICES ASSUME NEW g \in G PROVE g \in Pooled'
      OBVIOUS
    <3>1. PICK i \in 1 .. n : q[i] = g
      BY <1>3
    <3>2. PICK a \in 1 .. Len(free) + n : free'[a] = g
      BY <2>3, <3>1
    <3> QED
      BY <1>7, <3>2 DEF Pooled
  <2>6. Pooled' \subseteq Pooled \cup G
    BY <1>7, <2>1 DEF Pooled
  <2> QED
    BY <2>4, <2>5, <2>6
<1>11. /\ Owners' = Owners \ F /\ \A f \in Owners' : client'[f] = client[f]
       /\ client' \in [Fd -> Obj \cup {None}]
  BY DEF Owners
<1>12. Given' = Given \ G
  <2>1. Given' = {client[f] : f \in Owners \ F}
    BY <1>11 DEF Given
  <2>2. \A f \in Owners, g \in F : client[f] = client[g] => f = g
    BY DEF PoolShape
  <2> QED
    BY <2>1, <2>2 DEF Given
<1>13. used' = Cardinality(Owners') /\ used' \in 0 .. NumObj
  <2>1. Cardinality(Owners \ F) = Cardinality(Owners) - Cardinality(Owners \cap F)
    BY <1>1, FdFinite, FS_Difference
  <2>2. Owners \cap F = F
    OBVIOUS
  <2>3. used' = Cardinality(Owners')
    BY <1>11, <2>1, <2>2 DEF Recycle, PoolShape
  <2>4. Owners' \in SUBSET Fd
    BY <1>1, <1>11
  <2>5. Cardinality(Owners') \in Nat /\ Cardinality(Owners') <= MaxFd
    BY <2>4, FdFinite
  <2> QED
    BY <2>3, <2>5, ClientPoolAssumption
<1>14. made' = made
  BY DEF Recycle
<1>15. Pooled' \cap Given' = {} /\ made' = Pooled' \cup Given'
  BY <1>5, <1>10, <1>12, <1>14 DEF PoolShape
<1>16. \A f, g \in Owners' : client'[f] = client'[g] => f = g
  BY <1>11 DEF PoolShape
<1> QED
  BY <1>7, <1>9, <1>11, <1>13, <1>14, <1>15, <1>16 DEF PoolShape
-----------------------------------------------------------------------------
(* The steps *)

ObjType ==
    /\ obj \in [Obj -> [recv : Seq(Unit), send : 0 .. SendSize, dead : 0 .. ExpireTime]]
    /\ \A o \in Obj : Len(obj[o].recv) <= RecvSize

\* What is in the buffers of o stays there.
Buffered(o) == obj'[o].recv = obj[o].recv /\ obj'[o].send = obj[o].send

\* A client that is placed has a ThreadClient of its own.
LEMMA Owned ==
    ASSUME CInv, NEW f \in Fd, place[f] # "none"
    PROVE  /\ f \in Owners /\ client[f] \in Obj
           /\ \A g \in Fd : place[g] # "none" /\ g # f => client[g] # client[f]
<1>1. \A g \in Fd : place[g] # "none" => g \in Owners
  BY DEF CInv, Placed, Owners
<1>2. client[f] \in Obj
  BY <1>1 DEF CInv, TypeOK, Owners
<1> QED
  BY <1>1, <1>2 DEF CInv, PoolShape

\* The clients F leave and the clients Over are passed over: the others keep
\* what is on the way to them and what is in their buffers.
LEMMA LeaveKeeps ==
    ASSUME CInv, NEW F \in SUBSET Served, NEW Over \in SUBSET Served, Leave(F, Over),
           ObjType', elapsed' \in 0 .. ExpireTime, hung' \in BOOLEAN,
           place[Watched] # "none" /\ Watched \notin F => Buffered(client[Watched]),
           Watched \in Served /\ Watched \notin F \cup Over /\ ~skipped
             => Sat(obj'[client[Watched]].dead + elapsed') >= idle
    PROVE  CInv'
<1> USE DEF Leave
<1>1. Watched \in Fd
  BY ClientPoolAssumption DEF Fd
<1>2. F \in SUBSET Owners /\ F \in SUBSET Fd
  BY DEF Served, CInv, Placed, Owners
<1>3. PoolType' /\ PoolShape'
  <2>1. PoolType /\ PoolShape
    BY DEF CInv, TypeOK, PoolType
  <2> QED
    BY <1>2, <2>1, RecycleKeeps
<1>4. \A f \in Fd : IF f \in F
                    THEN /\ client'[f] = None /\ place'[f] = "none" /\ peer'[f] = "none"
                         /\ wire'[f] = <<>>
                    ELSE /\ client'[f] = client[f] /\ place'[f] = place[f]
                         /\ peer'[f] = peer[f] /\ wire'[f] = wire[f]
  OBVIOUS
<1>5. TypeOK'
  <2>1. place' \in [Fd -> Place] /\ peer' \in [Fd -> Peer] /\ wire' \in [Fd -> Seq(Unit)]
    BY DEF CInv, TypeOK, Place, Peer
  <2>2. /\ idle' \in 0 .. ExpireTime /\ owed' \in Int /\ clean' \in BOOLEAN
        /\ dropped' \in 0 .. MaxDropped /\ crowded' \in BOOLEAN
    <3>1. /\ idle \in 0 .. ExpireTime /\ owed \in Int /\ clean \in BOOLEAN
          /\ dropped \in 0 .. MaxDropped /\ crowded \in BOOLEAN
      BY DEF CInv, TypeOK
    <3>2. idle' = 0 \/ idle' = idle
      OBVIOUS
    <3>3. (owed' = 0 \/ owed' = owed) /\ (dropped' = 0 \/ dropped' = dropped)
      OBVIOUS
    <3>4. clean' \in BOOLEAN /\ crowded' \in BOOLEAN
      BY <3>1, Zenon
    <3>5. 0 \in 0 .. ExpireTime /\ 0 \in 0 .. MaxDropped
      BY ClientPoolAssumption
    <3> QED
      BY <3>1, <3>2, <3>3, <3>4, <3>5
  <2>3. skipped' \in BOOLEAN
    BY Zenon
  <2> QED
    BY <1>3, <2>1, <2>2, <2>3 DEF TypeOK, PoolType, ObjType
<1>6. Placed'
  BY <1>4 DEF Placed, CInv
<1>7. Answers'
  <2>1. CASE Watched \in F
    BY <2>1 DEF Answers
  <2>2. CASE Watched \notin F
    <3>1. /\ client'[Watched] = client[Watched] /\ place'[Watched] = place[Watched]
          /\ peer'[Watched] = peer[Watched] /\ wire'[Watched] = wire[Watched]
          /\ owed' = owed /\ clean' = clean /\ dropped' = dropped /\ crowded' = crowded
      BY <1>1, <1>4, <2>2
    <3>2. clean => Mine'.recv = Mine.recv /\ Mine'.send = Mine.send
      BY <2>2, <3>1 DEF Buffered, Mine, CInv, Answers
    <3> QED
      BY <3>1, <3>2 DEF CInv, Answers, Aligned
  <2> QED
    BY <2>1, <2>2
<1>8. Idle'
  <2>1. CASE Watched \in F \cup Over
    <3>1. idle' = 0 /\ (Watched \in F \/ skipped')
      BY <2>1
    <3>2. Watched \in F => Watched \notin Served'
      BY <1>1, <1>4 DEF Served
    <3> QED
      BY <3>1, <3>2 DEF Idle, IdleIsCounted
  <2>2. CASE Watched \notin F \cup Over
    <3>1. /\ idle' = idle /\ skipped' = skipped /\ client'[Watched] = client[Watched]
          /\ place'[Watched] = place[Watched]
      BY <1>1, <1>4, <2>2 DEF CInv, TypeOK
    <3>2. Watched \in Served' <=> Watched \in Served
      BY <1>1, <3>1 DEF Served
    <3> QED
      BY <2>2, <3>1, <3>2 DEF Idle, IdleIsCounted, CInv
  <2> QED
    BY <2>1, <2>2
<1> QED
  BY <1>3, <1>5, <1>6, <1>7, <1>8 DEF CInv

LEMMA AcceptKeeps ==
    ASSUME CInv, NEW f \in Fd, Accept(f)
    PROVE  CInv'
<1>1. Watched \in Fd
  BY ClientPoolAssumption DEF Fd
<1>2. PICK o \in Obj : /\ Alloc(o) /\ client' = [client EXCEPT ![f] = o]
                       /\ clean' = IF f = Watched
                                   THEN obj[o].recv = <<>> /\ obj[o].send = 0 ELSE clean
  BY DEF Accept
<1>3. /\ place' = [place EXCEPT ![f] = "queued"] /\ peer' = [peer EXCEPT ![f] = "open"]
      /\ obj' = obj /\ wire' = wire /\ elapsed' = elapsed /\ hung' = hung
      /\ idle' = idle /\ owed' = owed /\ skipped' = skipped
      /\ dropped' = dropped /\ crowded' = crowded
  BY DEF Accept
<1>4. place[f] = "none" /\ client[f] = None /\ wire[f] = <<>>
  BY DEF Accept, CInv, Placed
<1>5. PoolType' /\ PoolShape'
  <2>1. PoolType /\ PoolShape
    BY DEF CInv, TypeOK, PoolType
  <2> QED
    BY <1>2, <1>4, <2>1, AllocKeeps
<1>6. /\ client'[f] = o /\ place'[f] = "queued" /\ peer'[f] = "open"
      /\ \A g \in Fd : g # f => /\ client'[g] = client[g] /\ place'[g] = place[g]
                                /\ peer'[g] = peer[g]
  BY <1>2, <1>3 DEF CInv, TypeOK
<1>7. TypeOK'
  <2>1. place' \in [Fd -> Place] /\ peer' \in [Fd -> Peer]
    BY <1>3 DEF CInv, TypeOK, Place, Peer
  <2>2. clean' \in BOOLEAN
    <3>1. clean \in BOOLEAN
      BY DEF CInv, TypeOK
    <3> QED
      BY <1>2, <3>1, Zenon
  <2> QED
    BY <1>3, <1>5, <2>1, <2>2 DEF CInv, TypeOK, PoolType
<1>8. Placed'
  <2>1. o # None
    BY ClientPoolAssumption DEF Obj
  <2> QED
    BY <1>3, <1>6, <2>1 DEF Placed, CInv
<1>9. Answers'
  <2>1. CASE f = Watched
    <3>1. owed' = 0 /\ dropped' = 0
      BY <1>3, <1>4, <2>1 DEF CInv, Answers
    <3>2. clean' => Mine'.recv = <<>> /\ Mine'.send = 0
      <4>1. clean' => obj[o].recv = <<>> /\ obj[o].send = 0
        BY <1>2, <2>1, Zenon
      <4>2. Mine' = obj[o]
        BY <1>3, <1>6, <2>1 DEF Mine
      <4> QED
        BY <4>1, <4>2
    <3>3. wire'[Watched] = <<>> /\ place'[Watched] # "none"
      BY <1>3, <1>4, <1>6, <2>1
    <3>4. PICK e \in Seq(Unit) : e = <<>> /\ Len(e) = 0
      <4>1. <<>> \in Seq(Unit) /\ Len(<<>>) = 0
        OBVIOUS
      <4> QED
        BY <4>1, Zenon
    <3>5. Aligned(e \o e)
      BY <3>4, Joined DEF Aligned
    <3>6. clean' => Mine'.recv = e /\ Mine'.send = 0 /\ wire'[Watched] = e
      BY <3>2, <3>3, <3>4
    <3>7. clean' => Len(Mine'.recv) < 2 /\ Len(Mine'.recv) + Len(wire'[Watched]) = 0
      <4>1. Len(e) < 2 /\ Len(e) + Len(e) = 0
        BY <3>4
      <4> QED
        BY <3>6, <4>1, Zenon
    <3>8. clean' => 2 * (owed' - Mine'.send - dropped')
                      = Len(Mine'.recv) + Len(wire'[Watched])
      <4>1. 2 * (0 - 0 - 0) = 0
        OBVIOUS
      <4> QED
        BY <3>1, <3>6, <3>7, <4>1, Zenon
    <3>9. 0 <= SendSize
      BY ClientPoolAssumption
    <3> QED
      BY <3>1, <3>3, <3>5, <3>6, <3>7, <3>8, <3>9 DEF Answers, Aligned
  <2>2. CASE f # Watched
    <3>1. Mine' = Mine /\ place'[Watched] = place[Watched] /\ peer'[Watched] = peer[Watched]
      BY <1>1, <1>3, <1>6, <2>2 DEF Mine
    <3> QED
      BY <1>2, <1>3, <2>2, <3>1 DEF CInv, Answers, Aligned
  <2> QED
    BY <2>1, <2>2
<1>10. Idle'
  <2>1. CASE f = Watched
    <3>1. Watched \notin Served /\ Watched \notin Served'
      BY <1>1, <1>4, <1>6, <2>1 DEF Served
    <3> QED
      BY <1>3, <3>1 DEF CInv, Idle, IdleIsCounted
  <2>2. CASE f # Watched
    <3>1. client'[Watched] = client[Watched] /\ (Watched \in Served' <=> Watched \in Served)
      BY <1>1, <1>6, <2>2 DEF Served
    <3> QED
      BY <1>3, <3>1 DEF CInv, Idle, IdleIsCounted
  <2> QED
    BY <2>1, <2>2
<1> QED
  BY <1>5, <1>7, <1>8, <1>9, <1>10 DEF CInv
LEMMA PoolStays ==
    ASSUME CInv, UNCHANGED <<free, made, used, client>>
    PROVE  PoolType' /\ PoolShape'
<1>1. Owners' = Owners /\ Pooled' = Pooled
  BY DEF Owners, Pooled
<1>2. Given' = Given
  BY <1>1 DEF Given
<1>3. PoolType'
  BY DEF CInv, TypeOK, PoolType
<1>4. \A f, g \in Owners' : client'[f] = client'[g] => f = g
  BY <1>1 DEF CInv, PoolShape
<1>5. \A i, j \in 1 .. Len(free') : free'[i] = free'[j] => i = j
  BY DEF CInv, PoolShape
<1> QED
  BY <1>1, <1>2, <1>3, <1>4, <1>5 DEF CInv, PoolShape

LEMMA TakeKeeps ==
    ASSUME CInv, Take
    PROVE  CInv'
<1> USE DEF Take, pool, history
<1>1. Watched \in Fd
  BY ClientPoolAssumption DEF Fd
<1>2. \A f \in Fd : /\ place'[f] = "none" <=> place[f] = "none"
                    /\ place[f] = "served" => place'[f] = "served"
  BY DEF Queued
<1>3. TypeOK'
  <2>1. place' \in [Fd -> Place]
    BY DEF CInv, TypeOK, Place
  <2> QED
    BY <2>1 DEF CInv, TypeOK
<1>4. PoolShape'
  BY PoolStays
<1>5. Placed'
  BY <1>2 DEF CInv, Placed
<1>6. Answers'
  BY <1>1, <1>2 DEF CInv, Answers, Mine, Aligned
<1>7. Idle'
  <2>1. CASE Watched \in Served
    <3>1. Watched \in Served'
      BY <1>1, <1>2, <2>1 DEF Served
    <3> QED
      BY <2>1, <3>1 DEF CInv, Idle, IdleIsCounted
  <2>2. CASE Watched \notin Served
    <3>1. idle' = 0 /\ idle = 0
      BY <2>2 DEF CInv, Idle
    <3>2. Watched \in Served' => obj'[client'[Watched]].dead \in Nat /\ elapsed' \in Nat
      <4>1. Watched \in Served' => place[Watched] # "none"
        BY <1>1, <1>2 DEF Served
      <4>2. place[Watched] # "none" => client[Watched] \in Obj
        BY <1>1, Owned
      <4> QED
        BY ClientPoolAssumption, <4>1, <4>2 DEF CInv, TypeOK
    <3>3. \A t \in Nat : Sat(t) >= 0
      BY ClientPoolAssumption, SatIs
    <3> QED
      BY <3>1, <3>2, <3>3 DEF Idle, IdleIsCounted
  <2> QED
    BY <2>1, <2>2
<1> QED
  BY <1>3, <1>4, <1>5, <1>6, <1>7 DEF CInv

\* A step that changes neither the pool nor who is where.
Stays == free' = free /\ made' = made /\ used' = used /\ client' = client /\ place' = place

LEMMA StaysKeeps ==
    ASSUME CInv, Stays
    PROVE  PoolType' /\ PoolShape' /\ Served' = Served
BY PoolStays DEF Stays, Served

\* The same, and a client that is gone has nothing on the way and no other end.
LEMMA StaysPlaced ==
    ASSUME CInv, Stays,
           \A f \in Fd : place[f] = "none" => peer'[f] = peer[f] /\ wire'[f] = wire[f]
    PROVE  Placed'
BY DEF CInv, Placed, Stays

\* The clock of the client that is watched when neither buffers nor clocks change.
LEMMA ClockStays ==
    ASSUME CInv, Stays, elapsed' = elapsed, skipped' = skipped,
           Watched \in Served /\ ~skipped
             => \/ idle' = 0
                \/ idle' = idle /\ obj'[client[Watched]].dead = obj[client[Watched]].dead,
           idle' \in {0, idle}, ObjType'
    PROVE  Idle'
<1>1. Watched \in Fd
  BY ClientPoolAssumption DEF Fd
<1>2. Served' = Served /\ client' = client
  BY StaysKeeps DEF Stays
<1>3. Watched \notin Served' \/ skipped' => idle' = 0
  BY <1>2 DEF CInv, Idle
<1>4. ASSUME Watched \in Served', ~skipped'
      PROVE  Sat(obj'[client'[Watched]].dead + elapsed') >= idle'
  <2>1. client[Watched] \in Obj
    BY <1>1, <1>2, <1>4, Owned DEF Served
  <2>2. obj'[client[Watched]].dead \in Nat /\ elapsed' \in Nat
    BY ClientPoolAssumption, <2>1 DEF ObjType, CInv, TypeOK
  <2>3. Sat(obj'[client[Watched]].dead + elapsed') >= 0
    BY ClientPoolAssumption, <2>2, SatIs
  <2> QED
    BY <1>2, <1>4, <2>3 DEF CInv, Idle, IdleIsCounted
<1> QED
  BY <1>3, <1>4 DEF Idle, IdleIsCounted

\* A ThreadClient with SendBuf empty.
LEMMA ObjWith ==
    ASSUME NEW ob \in [Obj -> [recv : Seq(Unit), send : 0 .. SendSize,
                               dead : 0 .. ExpireTime]],
           NEW o \in Obj
    PROVE  [ob EXCEPT ![o].send = 0] \in [Obj -> [recv : Seq(Unit), send : 0 .. SendSize,
                                                  dead : 0 .. ExpireTime]]
<1>1. 0 \in 0 .. SendSize
  BY ClientPoolAssumption
<1> DEFINE R == [recv : Seq(Unit), send : 0 .. SendSize, dead : 0 .. ExpireTime]
<1>2. \A r \in R : [r EXCEPT !.send = 0] \in R
  BY <1>1
<1>3. [ob EXCEPT ![o].send = 0] = [ob EXCEPT ![o] = [ob[o] EXCEPT !.send = 0]]
  OBVIOUS
<1> HIDE DEF R
<1>4. ob \in [Obj -> R]
  BY DEF R
<1>5. [ob EXCEPT ![o] = [ob[o] EXCEPT !.send = 0]] \in [Obj -> R]
  BY <1>2, <1>4
<1> QED
  BY <1>3, <1>5 DEF R

LEMMA WriteKeeps ==
    ASSUME CInv, NEW f \in Fd, Write(f)
    PROVE  CInv'
<1>1. Watched \in Fd
  BY ClientPoolAssumption DEF Fd
<1>2. /\ Stays /\ peer' = peer /\ wire' = wire /\ elapsed' = elapsed /\ hung' = hung
      /\ idle' = idle /\ clean' = clean /\ skipped' = skipped
      /\ dropped' = dropped /\ crowded' = crowded
  BY DEF Write, Stays, pool
<1>3. place[f] # "none" /\ client[f] \in Obj
  BY Owned DEF Write
<1>4. PICK o \in Obj : o = client[f]
  BY <1>3
<1>5. /\ obj' = [obj EXCEPT ![o].send = 0]
      /\ owed' = IF Tracked(f) THEN owed - obj[o].send ELSE owed
  BY <1>4 DEF Write, AfterSend
<1>6. ObjType'
  <2>1. obj' \in [Obj -> [recv : Seq(Unit), send : 0 .. SendSize, dead : 0 .. ExpireTime]]
    BY <1>5, ObjWith DEF CInv, TypeOK
  <2>2. \A p \in Obj : obj'[p].recv = obj[p].recv
    BY <1>5 DEF CInv, TypeOK
  <2> QED
    BY <2>1, <2>2 DEF CInv, TypeOK, ObjType
<1>7. /\ obj'[o].recv = obj[o].recv /\ obj'[o].send = 0 /\ obj'[o].dead = obj[o].dead
      /\ \A p \in Obj : p # o => obj'[p] = obj[p]
      /\ \A p \in Obj : obj[p].send \in Int /\ obj'[p].dead = obj[p].dead
  BY <1>5 DEF CInv, TypeOK
<1>8. TypeOK'
  <2>1. PoolType'
    BY <1>2, StaysKeeps
  <2>2. owed' \in Int
    BY <1>5, <1>7 DEF CInv, TypeOK
  <2> QED
    BY <1>2, <1>6, <2>1, <2>2 DEF CInv, TypeOK, PoolType, ObjType, Stays
<1>9. Answers'
  <2>1. CASE f = Watched
    <3>1. Mine'.recv = Mine.recv /\ Mine'.send = 0 /\ Mine.send \in Nat /\ Mine = obj[o]
      <4>1. Mine'.recv = Mine.recv /\ Mine'.send = 0 /\ Mine = obj[o]
        BY <1>2, <1>4, <1>7, <2>1 DEF Mine, Stays
      <4>2. obj[o].send \in Nat
        BY ClientPoolAssumption DEF CInv, TypeOK
      <4> QED
        BY <4>1, <4>2
    <3>2. owed' = IF clean THEN owed - Mine.send ELSE owed
      BY <1>5, <2>1, <3>1 DEF Tracked
    <3>3. /\ clean => owed' - Mine'.send - dropped' = owed - Mine.send - dropped
          /\ clean /\ owed <= SendSize => owed' <= SendSize
      <4>1. owed \in Int /\ dropped \in Int /\ dropped' = dropped /\ SendSize \in Int
        BY <1>2, ClientPoolAssumption DEF CInv, TypeOK
      <4> QED
        BY <3>1, <3>2, <4>1
    <3> QED
      BY <1>2, <3>1, <3>2, <3>3 DEF CInv, Answers, Aligned, Stays
  <2>2. CASE f # Watched
    <3>1. owed' = owed
      BY <1>5, <2>2 DEF Tracked
    <3>2. clean => Mine' = Mine
      <4>1. clean => client[Watched] # client[f] /\ client[Watched] \in Obj
        BY <1>1, <1>3, <2>2, Owned DEF CInv, Answers
      <4> QED
        BY <1>2, <1>4, <1>7, <4>1 DEF Mine, Stays
    <3> QED
      BY <1>2, <3>1, <3>2 DEF CInv, Answers, Aligned, Stays
  <2> QED
    BY <2>1, <2>2
<1>10. Idle'
  <2>1. Watched \in Served => client[Watched] \in Obj
    BY <1>1, Owned DEF Served
  <2> QED
    BY <1>2, <1>6, <1>7, <2>1, ClockStays
<1>11. Placed'
  BY <1>2, StaysPlaced
<1>12. PoolShape'
  BY <1>2, StaysKeeps
<1> QED
  BY <1>8, <1>9, <1>10, <1>11, <1>12 DEF CInv
\* WriteError, ReadLeave and ReadError: the client leaves.
LEMMA LeavesKeeps ==
    ASSUME CInv, NEW f \in Fd, ReadLeave(f) \/ ReadError(f) \/ WriteError(f)
    PROVE  CInv'
<1>1. Watched \in Fd
  BY ClientPoolAssumption DEF Fd
<1>2. Leave({f}, {}) /\ elapsed' = elapsed /\ hung' = hung /\ place[f] = "served"
  BY DEF ReadLeave, ReadError, WriteError
<1>3. {f} \in SUBSET Served /\ {} \in SUBSET Served
  BY <1>2 DEF Served
<1>4. PICK o \in Obj : o = client[f]
  BY <1>2, Owned
<1>5. \/ obj' = obj
      \/ obj' = [obj EXCEPT ![o].send = 0]
  BY <1>4 DEF ReadLeave, ReadError, WriteError, AfterSend
<1>6. ObjType /\ \A p \in Obj : /\ p # o => obj'[p] = obj[p]
                                /\ obj'[p].recv = obj[p].recv /\ obj'[p].dead = obj[p].dead
  BY <1>5 DEF CInv, TypeOK, ObjType
<1>7. ObjType'
  <2>1. obj' \in [Obj -> [recv : Seq(Unit), send : 0 .. SendSize, dead : 0 .. ExpireTime]]
    <3>1. CASE obj' = obj
      BY <3>1 DEF CInv, TypeOK
    <3>2. CASE obj' = [obj EXCEPT ![o].send = 0]
      BY <3>2, ObjWith DEF CInv, TypeOK
    <3> QED
      BY <1>5, <3>1, <3>2
  <2> QED
    BY <1>6, <2>1 DEF ObjType
<1>8. ASSUME place[Watched] # "none", Watched \notin {f}
      PROVE  client[Watched] \in Obj /\ obj'[client[Watched]] = obj[client[Watched]]
  <2>1. client[Watched] \in Obj /\ client[Watched] # client[f]
    BY <1>1, <1>2, <1>8, Owned
  <2> QED
    BY <1>4, <1>6, <2>1
<1>9. place[Watched] # "none" /\ Watched \notin {f} => Buffered(client[Watched])
  BY <1>8 DEF Buffered
<1>10. Watched \in Served /\ Watched \notin {f} \cup {} /\ ~skipped
         => Sat(obj'[client[Watched]].dead + elapsed') >= idle
  <2>1. Watched \in Served => place[Watched] # "none"
    BY DEF Served
  <2> QED
    BY <1>2, <1>8, <2>1 DEF CInv, Idle, IdleIsCounted
<1>11. elapsed' \in 0 .. ExpireTime /\ hung' \in BOOLEAN
  BY <1>2 DEF CInv, TypeOK
<1> QED
  BY <1>2, <1>3, <1>7, <1>9, <1>10, <1>11, LeaveKeeps

LEMMA CheckTimeKeeps ==
    ASSUME CInv, CheckTime
    PROVE  CInv'
<1>1. Watched \in Fd
  BY ClientPoolAssumption DEF Fd
<1>2. PICK V \in SUBSET Served, F \in SUBSET Served :
         /\ F \subseteq V
         /\ obj' = [o \in Obj |-> IF \E f \in V : client[f] = o
                                  THEN [obj[o] EXCEPT !.dead = Sat(@ + elapsed)]
                                  ELSE obj[o]]
         /\ Leave(F, Served \ V)
  BY DEF CheckTime, Aged, Passby
<1>3. elapsed' = 0 /\ hung' = hung
  BY DEF CheckTime
<1>4. F \in SUBSET Served /\ Served \ V \in SUBSET Served
  OBVIOUS
<1>5. elapsed \in Nat /\ \A o \in Obj : obj[o].dead \in Nat
  BY ClientPoolAssumption DEF CInv, TypeOK
<1>6. \A o \in Obj : Sat(obj[o].dead + elapsed) \in 0 .. ExpireTime
  BY <1>5, SatIs
<1>7. ObjType'
  <2> DEFINE R == [recv : Seq(Unit), send : 0 .. SendSize, dead : 0 .. ExpireTime]
  <2>1. \A o \in Obj : obj[o] \in R /\ obj'[o] = IF \E f \in V : client[f] = o
                                    THEN [obj[o] EXCEPT !.dead = Sat(@ + elapsed)]
                                    ELSE obj[o]
    BY <1>2 DEF CInv, TypeOK
  <2>2. \A r \in R, d \in 0 .. ExpireTime : [r EXCEPT !.dead = d] \in R
    OBVIOUS
  <2>3. \A o \in Obj : obj'[o] \in R
    <3> SUFFICES ASSUME NEW o \in Obj PROVE obj'[o] \in R
      OBVIOUS
    <3>1. PICK d \in 0 .. ExpireTime : d = Sat(obj[o].dead + elapsed)
      BY <1>6
    <3>2. PICK r \in R : r = obj[o]
      BY <2>1
    <3>3. obj'[o] = [r EXCEPT !.dead = d] \/ obj'[o] = r
      BY <2>1, <3>1, <3>2
    <3>4. [r EXCEPT !.dead = d] \in R
      BY <2>2
    <3> HIDE DEF R
    <3> QED
      BY <3>3, <3>4
  <2>4. \A o \in Obj : obj'[o].recv = obj[o].recv
    BY <2>1
  <2>5. obj' \in [Obj -> R]
    <3> HIDE DEF R
    <3> QED
      BY <1>2, <2>3
  <2> QED
    BY <2>4, <2>5 DEF ObjType, CInv, TypeOK
<1>8. \A o \in Obj : Buffered(o)
  BY <1>2 DEF Buffered, CInv, TypeOK
<1>9. place[Watched] # "none" => client[Watched] \in Obj
  BY <1>1, Owned
<1>10. ASSUME Watched \in Served, Watched \notin F \cup (Served \ V), ~skipped
       PROVE  Sat(obj'[client[Watched]].dead + elapsed') >= idle
  <2>1. Watched \in V /\ client[Watched] \in Obj
    BY <1>9, <1>10 DEF Served
  <2>2. obj'[client[Watched]].dead = Sat(obj[client[Watched]].dead + elapsed)
    <3>1. obj'[client[Watched]] = [obj[client[Watched]] EXCEPT !.dead = Sat(@ + elapsed)]
      BY <1>2, <2>1
    <3> QED
      BY <2>1, <3>1 DEF CInv, TypeOK
  <2>3. PICK d \in 0 .. ExpireTime : d = Sat(obj[client[Watched]].dead + elapsed) /\ d >= idle
    BY <1>6, <1>10, <2>1 DEF CInv, Idle, IdleIsCounted
  <2>4. Sat(d + 0) = d
    BY ClientPoolAssumption, <2>3, SatIs
  <2> QED
    BY <1>3, <2>2, <2>3, <2>4
<1>11. elapsed' \in 0 .. ExpireTime /\ hung' \in BOOLEAN
  BY <1>3, ClientPoolAssumption DEF CInv, TypeOK
<1>12. place[Watched] # "none" /\ Watched \notin F => Buffered(client[Watched])
  BY <1>8, <1>9
<1> QED
  BY <1>2, <1>4, <1>7, <1>10, <1>11, <1>12, LeaveKeeps

LEMMA TickKeeps ==
    ASSUME CInv, Tick
    PROVE  CInv'
<1>1. Watched \in Fd
  BY ClientPoolAssumption DEF Fd
<1>2. /\ Stays /\ obj' = obj /\ peer' = peer /\ wire' = wire /\ hung' = hung
      /\ owed' = owed /\ dropped' = dropped /\ crowded' = crowded /\ clean' = clean /\ skipped' = skipped
      /\ elapsed' = Sat(elapsed + 1)
      /\ idle' = IF Watched \in Served /\ ~skipped THEN Sat(idle + 1) ELSE idle
  BY DEF Tick, Stays, pool
<1>3. elapsed \in 0 .. ExpireTime /\ idle \in 0 .. ExpireTime /\ ExpireTime \in Nat
  BY ClientPoolAssumption DEF CInv, TypeOK
<1>4. \A t \in 0 .. ExpireTime :
         Sat(t + 1) \in 0 .. ExpireTime /\ Sat(t + 1) = IF t = ExpireTime THEN t ELSE t + 1
  BY <1>3, SatIs
<1>5. TypeOK'
  <2>1. elapsed' \in 0 .. ExpireTime /\ idle' \in 0 .. ExpireTime
    BY <1>2, <1>3, <1>4
  <2> QED
    BY <1>2, <2>1 DEF CInv, TypeOK, Stays
<1>6. Idle'
  <2>1. Served' = Served /\ client' = client
    BY <1>2, StaysKeeps DEF Stays
  <2>2. Watched \notin Served' \/ skipped' => idle' = 0
    BY <1>2, <2>1 DEF CInv, Idle
  <2>3. ASSUME Watched \in Served, ~skipped
        PROVE  Sat(obj[client[Watched]].dead + elapsed') >= idle'
    <3>1. client[Watched] \in Obj
      BY <1>1, <2>3, Owned DEF Served
    <3>2. PICK d \in 0 .. ExpireTime : d = obj[client[Watched]].dead
      BY <3>1 DEF CInv, TypeOK
    <3>3. Sat(d + elapsed) >= idle
      BY <2>3, <3>2 DEF CInv, Idle, IdleIsCounted
    <3>4. idle' = Sat(idle + 1)
      BY <1>2, <2>3
    <3>5. \A t \in Nat : Sat(t) = IF t <= ExpireTime THEN t ELSE ExpireTime
      BY SatIs
    <3>6. elapsed' = (IF elapsed = ExpireTime THEN elapsed ELSE elapsed + 1)
      BY <1>2, <1>3, <1>4
    <3>7. idle' = (IF idle = ExpireTime THEN idle ELSE idle + 1)
      BY <1>3, <1>4, <3>4
    <3>8. Sat(d + elapsed') >= idle'
      BY <1>3, <3>3, <3>5, <3>6, <3>7
    <3> QED
      BY <3>2, <3>8
  <2> QED
    BY <1>2, <2>1, <2>2, <2>3 DEF Idle, IdleIsCounted
<1>7. Answers'
  BY <1>2 DEF CInv, Answers, Mine, Aligned, Stays
<1> QED
  BY <1>2, <1>5, <1>6, <1>7, StaysKeeps, StaysPlaced DEF CInv
LEMMA ReadHangsKeeps ==
    ASSUME CInv, NEW f \in Fd, ReadHangs(f)
    PROVE  CInv'
<1> USE DEF ReadHangs, pool, history
<1>1. Stays /\ hung' = TRUE
  BY DEF Stays
<1>2. TypeOK'
  BY DEF CInv, TypeOK
<1>3. Answers'
  BY DEF CInv, Answers, Mine, Aligned
<1>4. Idle'
  <2>1. Served' = Served
    BY DEF Served
  <2> QED
    BY <2>1 DEF CInv, Idle, IdleIsCounted
<1> QED
  BY <1>1, <1>2, <1>3, <1>4, StaysKeeps, StaysPlaced DEF CInv

\* The client closes: what it has sent is still read, but for the last unit.
LEMMA PeerClosesKeeps ==
    ASSUME CInv, NEW f \in Fd, PeerCloses(f)
    PROVE  CInv'
<1>1. Watched \in Fd
  BY ClientPoolAssumption DEF Fd
<1>2. /\ Stays /\ obj' = obj /\ elapsed' = elapsed /\ hung' = hung /\ idle' = idle
      /\ owed' = owed /\ dropped' = dropped /\ crowded' = crowded /\ clean' = clean /\ skipped' = skipped
      /\ peer' = [peer EXCEPT ![f] = "closed"] /\ peer[f] = "open"
  BY DEF PeerCloses, Stays, pool, history
<1>3. PICK v : v = wire[f]
  OBVIOUS
<1>4. v \in Seq(Unit) /\ Len(v) \in Nat
  BY <1>3 DEF CInv, TypeOK
<1>5. PICK n \in {0, 1} : n <= Len(v) /\ wire' = [wire EXCEPT ![f] = SubSeq(v, 1, Len(v) - n)]
  BY <1>3 DEF PeerCloses
<1>6. PICK x : x = SubSeq(v, 1, Len(v) - n)
  OBVIOUS
<1>7. /\ x \in Seq(Unit) /\ Len(x) = Len(v) - n
      /\ \A i \in 1 .. Len(v) - n : x[i] = v[i]
  BY <1>4, <1>5, <1>6
<1>8. wire' = [wire EXCEPT ![f] = x]
  BY <1>5, <1>6
<1>9. TypeOK'
  <2>1. wire' \in [Fd -> Seq(Unit)] /\ peer' \in [Fd -> Peer]
    BY <1>2, <1>7, <1>8 DEF CInv, TypeOK, Peer
  <2> QED
    BY <1>2, <2>1 DEF CInv, TypeOK, Stays
<1>10. Placed'
  <2>1. \A g \in Fd : place[g] = "none" => g # f
    BY <1>2 DEF CInv, Placed
  <2>2. \A g \in Fd : place[g] = "none" => peer'[g] = peer[g] /\ wire'[g] = wire[g]
    BY <1>2, <1>8, <2>1 DEF CInv, TypeOK
  <2> QED
    BY <1>2, <2>2, StaysPlaced
<1>11. Answers'
  <2>1. CASE f = Watched
    <3>1. Mine' = Mine /\ wire'[Watched] = x /\ wire[Watched] = v /\ peer'[Watched] = "closed"
      BY <1>1, <1>2, <1>3, <1>8, <2>1 DEF Mine, Stays, CInv, TypeOK
    <3>2. ASSUME clean PROVE Aligned(Mine.recv \o x)
      <4>1. client[Watched] \in Obj
        BY <1>1, <3>2, Owned DEF CInv, Answers
      <4>2. PICK c \in Seq(Unit) : c = Mine.recv
        BY <4>1 DEF Mine, CInv, TypeOK
      <4>3. Aligned(c \o v)
        BY <3>1, <3>2, <4>2 DEF CInv, Answers
      <4>4. Len(c) \in Nat
        BY <4>2
      <4> DEFINE s == c \o v
                 t == c \o x
      <4>5. /\ Len(s) = Len(c) + Len(v) /\ Len(t) = Len(c) + Len(x)
            /\ \A i \in 1 .. Len(c) + Len(v) :
                 s[i] = IF i <= Len(c) THEN c[i] ELSE v[i - Len(c)]
            /\ \A i \in 1 .. Len(c) + Len(x) :
                 t[i] = IF i <= Len(c) THEN c[i] ELSE x[i - Len(c)]
        BY <1>4, <1>7, Joined
      <4>6. Aligned(s)
        BY <4>3
      <4> HIDE DEF s, t
      <4>7. Len(x) <= Len(v) /\ Len(x) \in Nat /\ \A i \in 1 .. Len(x) : x[i] = v[i]
        BY <1>4, <1>5, <1>7
      <4>8. \A i \in 1 .. Len(t) : i \in 1 .. Len(s) /\ t[i] = s[i]
        <5> SUFFICES ASSUME NEW i \in 1 .. Len(c) + Len(x)
                     PROVE  i \in 1 .. Len(s) /\ t[i] = s[i]
          BY <4>5
        <5>1. i \in 1 .. Len(c) + Len(v) /\ (~(i <= Len(c)) => i - Len(c) \in 1 .. Len(x))
          BY <1>4, <4>4, <4>7
        <5> QED
          BY <4>5, <4>7, <5>1
      <4>9. Aligned(t)
        BY <4>6, <4>8 DEF Aligned
      <4> QED
        BY <4>2, <4>9 DEF t
    <3> QED
      BY <1>2, <3>1, <3>2 DEF CInv, Answers, Aligned, Stays
  <2>2. CASE f # Watched
    <3>1. Mine' = Mine /\ wire'[Watched] = wire[Watched] /\ peer'[Watched] = peer[Watched]
      BY <1>1, <1>2, <1>8, <2>2 DEF Mine, Stays, CInv, TypeOK
    <3> QED
      BY <1>2, <3>1 DEF CInv, Answers, Aligned, Stays
  <2> QED
    BY <2>1, <2>2
<1>12. Idle'
  <2>1. Served' = Served /\ client' = client
    BY <1>2, StaysKeeps DEF Stays
  <2> QED
    BY <1>2, <2>1 DEF CInv, Idle, IdleIsCounted
<1> QED
  BY <1>2, <1>9, <1>10, <1>11, <1>12, StaysKeeps DEF CInv
\* Two units more.
LEMMA AlignedMore ==
    ASSUME NEW s \in Seq(Unit), NEW t, NEW p \in Nat, Aligned(s), Len(s) = p,
           p % 2 = 0, Len(t) = p + 2, \A i \in 1 .. p : t[i] = s[i],
           t[p + 1] = "header", t[p + 2] = "rest"
    PROVE  Aligned(t)
<1>1. (p + 1) % 2 = 1 /\ (p + 2) % 2 = 0
  OBVIOUS
<1>2. ASSUME NEW i \in 1 .. p + 2
      PROVE  t[i] = IF i % 2 = 1 THEN "header" ELSE "rest"
  <2>1. CASE i \in 1 .. p
    BY <2>1 DEF Aligned
  <2>2. CASE i = p + 1
    BY <1>1, <2>2
  <2>3. CASE i = p + 2
    BY <1>1, <2>3
  <2> QED
    BY <2>1, <2>2, <2>3
<1> QED
  BY <1>2 DEF Aligned

LEMMA Associated ==
    \A c, v, m \in Seq(Unit) : c \o (v \o m) = (c \o v) \o m
BY ConcatAssociative

LEMMA LastTwo ==
    \A p \in Nat : /\ ~(p + 1 <= p) /\ (p + 1) - p = 1 /\ p + 1 \in 1 .. p + 2
                   /\ ~(p + 2 <= p) /\ (p + 2) - p = 2 /\ p + 2 \in 1 .. p + 2
                   /\ \A i \in 1 .. p : i \in 1 .. p + 2 /\ i <= p
OBVIOUS

\* A message more on the way.
LEMMA SentAligned ==
    ASSUME NEW c \in Seq(Unit), NEW v \in Seq(Unit), NEW m \in Seq(Unit),
           Len(m) = 2, m[1] = "header", m[2] = "rest",
           NEW p \in Nat, p = Len(c) + Len(v), p % 2 = 0, Aligned(c \o v)
    PROVE  Aligned(c \o (v \o m))
<1>1. PICK s \in Seq(Unit) : s = c \o v
  BY Joined
<1>2. PICK t : t = s \o m
  OBVIOUS
<1>3. Len(s) = p /\ Aligned(s)
  BY <1>1, Joined
<1>4. /\ Len(t) = Len(s) + Len(m)
      /\ \A i \in 1 .. Len(s) + Len(m) :
           t[i] = IF i <= Len(s) THEN s[i] ELSE m[i - Len(s)]
  BY <1>2, Joined
<1>5. /\ Len(t) = p + 2 /\ \A i \in 1 .. p : t[i] = s[i]
      /\ t[p + 1] = "header" /\ t[p + 2] = "rest"
  <2>1. \A i \in 1 .. p + 2 : t[i] = IF i <= p THEN s[i] ELSE m[i - p]
    BY <1>3, <1>4
  <2>2. t[p + 1] = m[1] /\ t[p + 2] = m[2]
    <3>1. /\ ~(p + 1 <= p) /\ (p + 1) - p = 1 /\ p + 1 \in 1 .. p + 2
          /\ ~(p + 2 <= p) /\ (p + 2) - p = 2 /\ p + 2 \in 1 .. p + 2
      BY LastTwo, Zenon
    <3>2. t[p + 1] = m[(p + 1) - p]
      BY <2>1, <3>1, Zenon
    <3>3. t[p + 2] = m[(p + 2) - p]
      BY <2>1, <3>1, Zenon
    <3> QED
      BY <3>1, <3>2, <3>3, Zenon
  <2>3. \A i \in 1 .. p : t[i] = s[i]
    BY <2>1, LastTwo, Zenon
  <2> QED
    BY <1>3, <1>4, <2>2, <2>3
<1>6. Aligned(t)
  BY <1>3, <1>5, AlignedMore
<1>7. c \o (v \o m) = t
  BY <1>1, <1>2, Associated, ZenonT(60)
<1> QED
  BY <1>6, <1>7

LEMMA Even ==
    ASSUME NEW k \in Int, NEW p \in Nat, p = 2 * k
    PROVE  p % 2 = 0
OBVIOUS

LEMMA PeerSendsKeeps ==
    ASSUME CInv, NEW f \in Fd, PeerSends(f)
    PROVE  CInv'
<1>1. Watched \in Fd
  BY ClientPoolAssumption DEF Fd
<1>2. /\ Stays /\ obj' = obj /\ elapsed' = elapsed /\ hung' = hung /\ idle' = idle
      /\ peer' = peer /\ clean' = clean /\ skipped' = skipped
      /\ dropped' = dropped /\ peer[f] = "open"
      /\ IF Tracked(f) THEN owed' = owed + 1 /\ crowded' = (crowded \/ owed' > SendSize)
                       ELSE owed' = owed /\ crowded' = crowded
  BY DEF PeerSends, Stays, pool
<1>3. PICK v \in Seq(Unit) : v = wire[f]
  BY DEF CInv, TypeOK
<1>4. PICK m : m = <<"header", "rest">>
  OBVIOUS
<1>5. wire' = [wire EXCEPT ![f] = v \o m]
  BY <1>3, <1>4 DEF PeerSends
<1>6. m \in Seq(Unit) /\ Len(m) = 2 /\ m[1] = "header" /\ m[2] = "rest"
  <2>1. "header" \in Unit /\ "rest" \in Unit
    BY DEF Unit
  <2> QED
    BY <1>4, <2>1
<1>7. PICK x : x = v \o m
  OBVIOUS
<1>8. x \in Seq(Unit) /\ Len(x) = Len(v) + 2 /\ wire' = [wire EXCEPT ![f] = x]
  <2>1. v \o m \in Seq(Unit) /\ Len(v \o m) = Len(v) + Len(m)
    BY <1>6, Joined
  <2> QED
    BY <1>5, <1>6, <1>7, <2>1
<1>9. TypeOK'
  <2>1. wire' \in [Fd -> Seq(Unit)]
    BY <1>8 DEF CInv, TypeOK
  <2>2. owed' \in Int
    BY <1>2 DEF CInv, TypeOK
  <2>3. crowded' \in BOOLEAN
    <3>1. crowded \in BOOLEAN
      BY DEF CInv, TypeOK
    <3>2. crowded' = crowded \/ crowded' = (crowded \/ owed' > SendSize)
      BY <1>2, Zenon
    <3> QED
      BY <3>1, <3>2, Zenon
  <2> QED
    BY <1>2, <2>1, <2>2, <2>3 DEF CInv, TypeOK, Stays
<1>10. Placed'
  <2>1. \A g \in Fd : place[g] = "none" => g # f
    BY <1>2 DEF CInv, Placed
  <2>2. \A g \in Fd : place[g] = "none" => peer'[g] = peer[g] /\ wire'[g] = wire[g]
    BY <1>2, <1>8, <2>1 DEF CInv, TypeOK
  <2> QED
    BY <1>2, <2>2, StaysPlaced
<1>11. Answers'
  <2>1. CASE f = Watched /\ clean
    <3>1. Mine' = Mine /\ wire'[Watched] = x /\ wire[Watched] = v /\ place' = place
      BY <1>1, <1>2, <1>3, <1>8, <2>1 DEF Mine, Stays, CInv, TypeOK
    <3>2. client[Watched] \in Obj
      BY <1>1, <2>1, Owned DEF CInv, Answers
    <3>3. PICK c \in Seq(Unit), k \in Nat : c = Mine.recv /\ k = Mine.send
      BY <3>2, ClientPoolAssumption DEF Mine, CInv, TypeOK
    <3>4. /\ Aligned(c \o v) /\ 2 * (owed - k - dropped) = Len(c) + Len(v) /\ Len(c) < 2
          /\ ~crowded => dropped = 0
          /\ place[Watched] # "none"
      BY <1>2, <2>1, <3>1, <3>3 DEF CInv, Answers
    <3>5. /\ owed \in Int /\ dropped \in Int /\ SendSize \in Int
          /\ Len(v) \in Nat /\ Len(c) \in Nat
      BY ClientPoolAssumption DEF CInv, TypeOK
    <3>6. Len(x) = Len(v) + 2 /\ Aligned(c \o x)
      <4>1. PICK j \in Int : j = owed - k - dropped
        BY <3>5
      <4>2. PICK p \in Nat : p = Len(c) + Len(v) /\ p = 2 * j
        BY <3>4, <3>5, <4>1
      <4>3. p % 2 = 0
        BY <4>2, Even
      <4>4. Aligned(c \o (v \o m))
        BY <1>6, <3>4, <4>2, <4>3, SentAligned
      <4> QED
        BY <1>7, <1>8, <4>4
    <3>7. owed' = owed + 1 /\ crowded' = (crowded \/ owed' > SendSize)
      BY <1>2, <2>1 DEF Tracked
    <3>8. 2 * (owed' - k - dropped') = Len(c) + Len(x)
      BY <1>2, <3>4, <3>5, <3>6, <3>7
    <3>9. ~crowded' => dropped' = 0 /\ owed' <= SendSize
      <4>1. owed' > SendSize \/ owed' <= SendSize
        BY <3>5, <3>7
      <4> QED
        BY <1>2, <3>4, <3>7, <4>1, Zenon
    <3> QED
      BY <1>2, <2>1, <3>1, <3>3, <3>4, <3>6, <3>8, <3>9 DEF Answers, Aligned
  <2>2. CASE ~(f = Watched /\ clean)
    <3>1. owed' = owed /\ crowded' = crowded
      BY <1>2, <2>2 DEF Tracked
    <3>2. clean => Mine' = Mine /\ wire'[Watched] = wire[Watched]
      BY <1>1, <1>2, <1>8, <2>2 DEF Mine, Stays, CInv, TypeOK
    <3> QED
      BY <1>2, <3>1, <3>2 DEF CInv, Answers, Aligned, Stays
  <2> QED
    BY <2>1, <2>2
<1>12. Idle'
  <2>1. Served' = Served /\ client' = client
    BY <1>2, StaysKeeps DEF Stays
  <2> QED
    BY <1>2, <2>1 DEF CInv, Idle, IdleIsCounted
<1> QED
  BY <1>2, <1>9, <1>10, <1>11, <1>12, StaysKeeps DEF CInv
\* push() takes what fits.
LEMMA FittingIs ==
    ASSUME NEW n \in 0 .. SendSize, NEW k \in Nat
    PROVE  /\ Fitting(n, k) \in 0 .. k /\ n + Fitting(n, k) \in 0 .. SendSize
           /\ n + k <= SendSize => Fitting(n, k) = k
<1>1. SendSize \in Nat /\ n \in Nat /\ n <= SendSize
  BY ClientPoolAssumption
<1>2. PICK t \in Nat : t = IF n + k <= SendSize THEN k ELSE SendSize - n
  <2>1. CASE n + k <= SendSize
    BY <2>1
  <2>2. CASE ~(n + k <= SendSize)
    <3>1. SendSize - n \in Nat
      BY <1>1
    <3> QED
      BY <2>2, <3>1
  <2> QED
    BY <2>1, <2>2
<1>3. t <= k /\ n + t <= SendSize
  BY <1>1, <1>2
<1>4. {i \in 1 .. k : HasRoom(n + i - 1)} = 1 .. t
  <2>1. \A i \in 1 .. k : n + i - 1 < SendSize <=> i <= t
    BY <1>1, <1>2
  <2>2. \A i \in 1 .. t : i \in 1 .. k
    BY <1>3
  <2> QED
    BY <2>1, <2>2 DEF HasRoom
<1>5. Fitting(n, k) = t
  <2>1. Cardinality(1 .. t) = t
    BY FS_Interval
  <2> QED
    BY <1>4, <2>1 DEF Fitting
<1> QED
  BY <1>1, <1>2, <1>3, <1>5

\* The first units of w read into a buffer that holds c, which has room for them.
LEMMA Received ==
    ASSUME NEW c \in Seq(Unit), NEW w \in Seq(Unit), NEW n \in 1 .. Len(w)
    PROVE  /\ c \o SubSeq(w, 1, n) \in Seq(Unit)
           /\ Len(c \o SubSeq(w, 1, n)) = Len(c) + n
           /\ SubSeq(w, n + 1, Len(w)) \in Seq(Unit)
           /\ Len(SubSeq(w, n + 1, Len(w))) = Len(w) - n
           /\ Remain(c \o SubSeq(w, 1, n), SubSeq(w, n + 1, Len(w)), c, w, n, 0)
<1>1. PICK u : u = SubSeq(w, 1, n)
  OBVIOUS
<1>2. u \in Seq(Unit) /\ Len(u) = n /\ \A i \in 1 .. n : u[i] = w[i]
  BY <1>1
<1>3. PICK r : r = c \o u
  OBVIOUS
<1>4. /\ r \in Seq(Unit) /\ Len(r) = Len(c) + n
      /\ \A i \in 1 .. Len(c) + n : r[i] = IF i <= Len(c) THEN c[i] ELSE u[i - Len(c)]
  <2>1. /\ c \o u \in Seq(Unit) /\ Len(c \o u) = Len(c) + Len(u)
        /\ \A i \in 1 .. Len(c) + Len(u) :
             (c \o u)[i] = IF i <= Len(c) THEN c[i] ELSE u[i - Len(c)]
    BY <1>2, Joined
  <2> QED
    BY <1>2, <1>3, <2>1, Zenon
<1>5. PICK t : t = c \o w
  OBVIOUS
<1>6. \A i \in 1 .. Len(c) + Len(w) : t[i] = IF i <= Len(c) THEN c[i] ELSE w[i - Len(c)]
  BY <1>5, Joined
<1>7. PICK v : v = SubSeq(w, n + 1, Len(w))
  OBVIOUS
<1>8. /\ v \in Seq(Unit) /\ Len(v) = Len(w) - n /\ \A i \in 1 .. Len(w) - n : v[i] = w[n + i]
  <2>1. n \in Nat /\ n <= Len(w)
    OBVIOUS
  <2> QED
    BY <1>7, <2>1, Suffix, Zenon
<1>9. Len(c) \in Nat /\ Len(w) \in Nat /\ n \in Nat /\ n <= Len(w)
  OBVIOUS
<1>10. \A i \in 1 .. Len(r) : r[i] = t[0 + i]
  <2> SUFFICES ASSUME NEW i \in 1 .. Len(c) + n PROVE r[i] = t[0 + i]
    BY <1>4
  <2>1. /\ 0 + i = i /\ i \in 1 .. Len(c) + Len(w)
        /\ ~(i <= Len(c)) => i - Len(c) \in 1 .. n
    BY <1>9
  <2> QED
    BY <1>2, <1>4, <1>6, <2>1
<1>11. Len(r) = Len(c) + n - 0
  BY <1>4, <1>9
<1>12. \A i \in 1 .. Len(v) : v[i] = w[n + i]
  BY <1>8
<1>13. Remain(r, v, c, w, n, 0)
  BY <1>5, <1>8, <1>10, <1>11, <1>12, Zenon DEF Remain
<1> QED
  BY <1>1, <1>3, <1>4, <1>7, <1>8, <1>13, Zenon

LEMMA Balance ==
    ASSUME NEW a \in Int, NEW b \in Int, NEW s \in Int, NEW m \in Int, NEW n \in Int,
           NEW k \in Int, NEW d \in Int, NEW lc \in Int, NEW lw \in Int,
           2 * (b - a - d) = lc + lw
    PROVE  2 * ((b - (m - k)) - (a + s) - (d + (k - s))) = (lc + n - 2 * m) + (lw - n)
OBVIOUS

\* While no more is owed than SendBuf holds, it has room for the answers to all
\* the messages that are read.
LEMMA RoomForAll ==
    ASSUME NEW a \in Nat, NEW b \in Int, NEW m \in Nat, NEW n \in Int, NEW k \in Nat,
           NEW lc \in Nat, NEW lw \in Nat, 2 * (b - a - 0) = lc + lw, b <= SendSize,
           k <= m, n <= lw, 2 * m <= lc + n
    PROVE  a + k <= SendSize /\ b - (m - k) <= SendSize
BY ClientPoolAssumption

\* What is read is handled, answered and taken out of RecvBuf.
LEMMA ReadKeeps ==
    ASSUME CInv, NEW f \in Fd, Read(f)
    PROVE  CInv'
<1>1. Watched \in Fd
  BY ClientPoolAssumption DEF Fd
<1>2. /\ Stays /\ peer' = peer /\ elapsed' = elapsed /\ hung' = hung
      /\ clean' = clean /\ skipped' = skipped /\ place[f] = "served"
      /\ crowded' = crowded
  BY DEF Read, Stays, pool
<1>3. PICK o \in Obj, c \in Seq(Unit), w \in Seq(Unit) :
         o = client[f] /\ c = obj[o].recv /\ w = wire[f]
  <2>1. client[f] \in Obj
    BY <1>2, Owned
  <2> QED
    BY <2>1 DEF CInv, TypeOK
<1>4. PICK n \in 1 .. Min({Len(wire[f]), Room(client[f])}) :
         LET r == obj[client[f]].recv \o SubSeq(wire[f], 1, n)
         IN  /\ wire' = [wire EXCEPT ![f] = SubSeq(@, n + 1, Len(@))]
             /\ \E h \in Handled(r) : \E answers \in 0 .. h.messages :
                   LET fit == Fitting(obj[client[f]].send, answers)
                   IN  /\ obj' = [obj EXCEPT ![client[f]] =
                                    [recv |-> h.left, send |-> @.send + fit,
                                     dead |-> IF answers > 0 THEN 0 ELSE @.dead]]
                       /\ IF Tracked(f)
                          THEN /\ owed' = owed - (h.messages - answers)
                               /\ dropped' = dropped + (answers - fit)
                               /\ dropped' <= MaxDropped
                          ELSE UNCHANGED <<owed, dropped>>
                       /\ idle' = IF f = Watched /\ answers > 0 THEN 0 ELSE idle
  BY DEF Read
<1>5. Len(c) \in Nat /\ Len(w) \in Nat /\ n \in 1 .. Len(w)
  <2>1. Len(c) \in Nat /\ Len(w) \in Nat
    OBVIOUS
  <2>2. Len(w) \in Int /\ RecvSize - Len(c) \in Int
    BY <2>1, ClientPoolAssumption
  <2>3. n \in 1 .. Min({Len(w), RecvSize - Len(c)})
    BY <1>3, <1>4 DEF Room
  <2> QED
    BY <2>1, <2>2, <2>3, MinOfTwo
<1>6. PICK r, v : r = c \o SubSeq(w, 1, n) /\ v = SubSeq(w, n + 1, Len(w))
  OBVIOUS
<1>7. /\ r \in Seq(Unit) /\ v \in Seq(Unit) /\ Len(r) = Len(c) + n /\ Len(v) = Len(w) - n
      /\ Remain(r, v, c, w, n, 0)
  BY <1>5, <1>6, Received, Zenon
<1>8. wire' = [wire EXCEPT ![f] = v]
  BY <1>3, <1>4, <1>6, Zenon
<1>9. PICK h \in Handled(r) : \E answers \in 0 .. h.messages :
         LET fit == Fitting(obj[o].send, answers)
         IN  /\ obj' = [obj EXCEPT ![o] = [recv |-> h.left, send |-> obj[o].send + fit,
                                          dead |-> IF answers > 0 THEN 0 ELSE obj[o].dead]]
             /\ IF Tracked(f)
                THEN /\ owed' = owed - (h.messages - answers)
                     /\ dropped' = dropped + (answers - fit)
                     /\ dropped' <= MaxDropped
                ELSE UNCHANGED <<owed, dropped>>
             /\ idle' = IF f = Watched /\ answers > 0 THEN 0 ELSE idle
  BY <1>3, <1>4, <1>6
<1>10. /\ h.left \in Seq(Unit) /\ Len(h.left) <= 1 /\ h.messages \in Nat
  <2>1. Len(r) >= 1
    BY <1>5, <1>7
  <2> QED
    BY <1>7, <2>1, HandledType
<1>11. PICK answers \in 0 .. h.messages, fit \in Nat, s \in 0 .. SendSize :
         /\ fit = Fitting(obj[o].send, answers) /\ s = obj[o].send + fit
         /\ obj' = [obj EXCEPT ![o] = [recv |-> h.left, send |-> s,
                                      dead |-> IF answers > 0 THEN 0 ELSE obj[o].dead]]
         /\ IF Tracked(f)
            THEN /\ owed' = owed - (h.messages - answers)
                 /\ dropped' = dropped + (answers - fit)
                 /\ dropped' <= MaxDropped
            ELSE owed' = owed /\ dropped' = dropped
         /\ idle' = IF f = Watched /\ answers > 0 THEN 0 ELSE idle
         /\ fit <= answers
         /\ obj[o].send + answers <= SendSize => fit = answers
  <2>1. PICK a \in 0 .. h.messages :
         LET fit == Fitting(obj[o].send, a)
         IN  /\ obj' = [obj EXCEPT ![o] = [recv |-> h.left, send |-> obj[o].send + fit,
                                          dead |-> IF a > 0 THEN 0 ELSE obj[o].dead]]
             /\ IF Tracked(f)
                THEN /\ owed' = owed - (h.messages - a)
                     /\ dropped' = dropped + (a - fit)
                     /\ dropped' <= MaxDropped
                ELSE UNCHANGED <<owed, dropped>>
             /\ idle' = IF f = Watched /\ a > 0 THEN 0 ELSE idle
    BY <1>9
  <2>2. a \in Nat
    BY <1>10
  <2>3. obj[o].send \in 0 .. SendSize
    BY DEF CInv, TypeOK
  <2>4. PICK t : t = Fitting(obj[o].send, a)
    OBVIOUS
  <2>5. /\ t \in 0 .. a /\ obj[o].send + t \in 0 .. SendSize
        /\ obj[o].send + a <= SendSize => t = a
    BY <2>2, <2>3, <2>4, FittingIs
  <2>6. t \in Nat /\ t <= a
    BY <2>2, <2>5
  <2>7. PICK u \in 0 .. SendSize : u = obj[o].send + t
    BY <2>5
  <2> QED
    BY <2>1, <2>4, <2>5, <2>6, <2>7
<1>12. /\ obj'[o].recv = h.left /\ obj'[o].send = s
       /\ obj'[o].dead = IF answers > 0 THEN 0 ELSE obj[o].dead
       /\ \A p \in Obj : p # o => obj'[p] = obj[p]
  BY <1>11 DEF CInv, TypeOK
<1>13. obj[o].send \in 0 .. SendSize /\ obj[o].dead \in 0 .. ExpireTime /\ owed \in Int
       /\ idle \in 0 .. ExpireTime /\ dropped \in 0 .. MaxDropped
       /\ answers \in Nat /\ answers <= h.messages
  <2>1. obj[o].send \in 0 .. SendSize /\ obj[o].dead \in 0 .. ExpireTime
    BY DEF CInv, TypeOK
  <2>2. owed \in Int /\ idle \in 0 .. ExpireTime /\ dropped \in 0 .. MaxDropped
    BY DEF CInv, TypeOK
  <2>3. answers \in Nat /\ answers <= h.messages
    <3>1. h.messages \in Nat
      BY <1>10
    <3> QED
      BY <3>1
  <2> QED
    BY <2>1, <2>2, <2>3
<1>14. ObjType'
  <2> DEFINE R == [recv : Seq(Unit), send : 0 .. SendSize, dead : 0 .. ExpireTime]
  <2>1. PICK d \in 0 .. ExpireTime : d = IF answers > 0 THEN 0 ELSE obj[o].dead
    BY ClientPoolAssumption, <1>13
  <2>2. [recv |-> h.left, send |-> s, dead |-> d] \in R
    BY <1>10
  <2>3. obj' = [obj EXCEPT ![o] = [recv |-> h.left, send |-> s, dead |-> d]]
    BY <1>11, <2>1
  <2>4. obj' \in [Obj -> R]
    <3>1. obj \in [Obj -> R]
      BY DEF CInv, TypeOK
    <3> HIDE DEF R
    <3> QED
      BY <2>2, <2>3, <3>1
  <2>5. \A p \in Obj : Len(obj'[p].recv) <= RecvSize
    <3>1. 1 <= RecvSize /\ Len(h.left) \in Nat /\ RecvSize \in Nat
      BY ClientPoolAssumption, <1>10
    <3>2. Len(obj'[o].recv) <= RecvSize
      BY <1>10, <1>12, <3>1
    <3> QED
      BY <1>12, <3>2 DEF CInv, TypeOK
  <2> QED
    BY <2>4, <2>5 DEF ObjType
<1>15. TypeOK'
  <2>1. PoolType'
    BY <1>2, StaysKeeps
  <2>2. wire' \in [Fd -> Seq(Unit)]
    BY <1>7, <1>8 DEF CInv, TypeOK
  <2>3. owed' \in Int /\ dropped' \in 0 .. MaxDropped
    <3>1. CASE Tracked(f)
      <4>1. /\ owed' = owed - (h.messages - answers) /\ dropped' = dropped + (answers - fit)
            /\ dropped' <= MaxDropped /\ fit <= answers /\ fit \in Nat
        BY <1>11, <3>1
      <4>2. answers - fit \in Nat /\ dropped \in Nat /\ MaxDropped \in Nat
        <5>1. MaxDropped \in Nat
          BY ClientPoolAssumption
        <5>2. answers \in Nat /\ dropped \in 0 .. MaxDropped
          BY <1>13
        <5> QED
          BY <4>1, <5>1, <5>2
      <4>3. owed' \in Int
        <5>1. h.messages \in Nat
          BY <1>10
        <5> QED
          BY <1>13, <4>1, <5>1
      <4>4. dropped' \in 0 .. MaxDropped
        BY <4>1, <4>2
      <4> QED
        BY <4>3, <4>4
    <3>2. CASE ~Tracked(f)
      BY <1>11, <1>13, <3>2
    <3> QED
      BY <3>1, <3>2
  <2>4. idle' \in 0 .. ExpireTime
    BY ClientPoolAssumption, <1>11, <1>13
  <2> QED
    BY <1>2, <1>14, <2>1, <2>2, <2>3, <2>4 DEF CInv, TypeOK, PoolType, ObjType, Stays
<1>16. Placed'
  <2>1. \A g \in Fd : place[g] = "none" => g # f
    BY <1>2
  <2>2. \A g \in Fd : place[g] = "none" => peer'[g] = peer[g] /\ wire'[g] = wire[g]
    BY <1>2, <1>8, <2>1 DEF CInv, TypeOK
  <2> QED
    BY <1>2, <2>2, StaysPlaced
<1>17. f # Watched /\ place[Watched] # "none"
         => client[Watched] \in Obj /\ obj'[client[Watched]] = obj[client[Watched]]
  <2>1. f # Watched /\ place[Watched] # "none"
          => client[Watched] \in Obj /\ client[Watched] # client[f]
    BY <1>1, <1>2, Owned
  <2> QED
    BY <1>3, <1>12, <2>1
<1>18. Answers'
  <2>1. CASE f = Watched
    <3>1. /\ Mine = obj[o] /\ Mine' = obj'[o] /\ wire[Watched] = w /\ wire'[Watched] = v
          /\ place' = place
      BY <1>1, <1>2, <1>3, <1>8, <2>1 DEF Mine, Stays, CInv, TypeOK
    <3>2. IF clean THEN /\ owed' = owed - (h.messages - answers)
                        /\ dropped' = dropped + (answers - fit)
                   ELSE owed' = owed /\ dropped' = dropped
      BY <1>11, <2>1 DEF Tracked
    <3>3. ASSUME clean
          PROVE  Aligned(h.left \o v) /\ Len(h.left) = Len(r) - 2 * h.messages
      <4>1. Aligned(c \o w)
        BY <1>3, <3>1, <3>3 DEF CInv, Answers
      <4>2. n \in Nat
        BY <1>5
      <4>3. r \in Seq(Unit) /\ v \in Seq(Unit) /\ Remain(r, v, c, w, n, 0)
        BY <1>7
      <4>4. h \in Handled(r)
        OBVIOUS
      <4> QED
        BY <4>1, <4>2, <4>3, <4>4, HandledAligned
    <3>4. ASSUME clean, peer[Watched] = "open"
          PROVE  /\ 2 * (owed' - s - dropped') = Len(h.left) + Len(v)
                 /\ ~crowded => dropped' = 0 /\ owed' <= SendSize
      <4>1. /\ 2 * (owed - obj[o].send - dropped) = Len(c) + Len(w)
            /\ ~crowded => dropped = 0 /\ owed <= SendSize
        BY <1>3, <3>1, <3>4 DEF CInv, Answers
      <4>2. owed' = owed - (h.messages - answers) /\ dropped' = dropped + (answers - fit)
        BY <3>2, <3>4
      <4>3. Len(h.left) = Len(r) - 2 * h.messages /\ Len(h.left) \in Nat
        BY <1>10, <3>3, <3>4
      <4>4. PICK a \in Nat, m \in Nat, b \in Int, d \in Int :
              a = obj[o].send /\ m = h.messages /\ b = owed /\ d = dropped
        BY <1>10, <1>13, ClientPoolAssumption
      <4>5. /\ Len(h.left) = Len(c) + n - 2 * m /\ 2 * (b - a - d) = Len(c) + Len(w)
            /\ owed' = b - (m - answers) /\ s = a + fit /\ dropped' = d + (answers - fit)
        <5>1. s = a + fit
          BY <1>11, <4>4
        <5>2. Len(h.left) = Len(c) + n - 2 * m
          <6>1. Len(h.left) = Len(r) - 2 * m
            BY <4>3, <4>4
          <6>2. Len(r) = Len(c) + n
            BY <1>7
          <6> QED
            BY <6>1, <6>2
        <5>3. 2 * (b - a - d) = Len(c) + Len(w)
          BY <4>1, <4>4
        <5>4. owed' = b - (m - answers) /\ dropped' = d + (answers - fit)
          BY <4>2, <4>4
        <5> QED
          BY <5>1, <5>2, <5>3, <5>4
      <4>6. 2 * ((b - (m - answers)) - (a + fit) - (d + (answers - fit)))
              = (Len(c) + n - 2 * m) + (Len(w) - n)
        <5>1. n \in Int /\ answers \in Int /\ fit \in Int /\ Len(c) \in Int /\ Len(w) \in Int
          BY <1>5, <1>13
        <5>2. m \in Int /\ a \in Int /\ 2 * (b - a - d) = Len(c) + Len(w)
          BY <4>5
        <5> QED
          BY <5>1, <5>2, Balance
      <4>7. ASSUME ~crowded
            PROVE  dropped' = 0 /\ owed' <= SendSize
        <5>1. d = 0 /\ b <= SendSize
          BY <4>1, <4>4, <4>7
        <5>2. n \in Int /\ n <= Len(w) /\ 2 * m <= Len(c) + n /\ answers <= m
          <6>1. n \in Int /\ n <= Len(w)
            BY <1>5
          <6>2. answers <= m
            BY <1>13, <4>4
          <6>3. PICK l \in Nat : l = Len(h.left)
            BY <4>3
          <6>4. l = Len(c) + n - 2 * m
            BY <4>5, <6>3
          <6>5. 2 * m <= Len(c) + n
            BY <1>5, <6>1, <6>4
          <6> QED
            BY <6>1, <6>2, <6>5
        <5>3. 2 * (b - a - 0) = Len(c) + Len(w)
          BY <4>5, <5>1
        <5>4. a + answers <= SendSize /\ b - (m - answers) <= SendSize
          BY <1>5, <1>13, <5>1, <5>2, <5>3, RoomForAll
        <5>5. fit = answers
          BY <1>11, <4>4, <5>4
        <5> QED
          BY <1>13, <4>5, <5>1, <5>4, <5>5
      <4> QED
        BY <1>7, <4>5, <4>6, <4>7
    <3>5. Mine'.recv = h.left /\ Mine'.send = s
      BY <1>12, <3>1
    <3>6. clean => place[Watched] # "none"
      BY DEF CInv, Answers
    <3>7. clean' => /\ place'[Watched] # "none" /\ Len(Mine'.recv) < 2
                    /\ Aligned(h.left \o v)
      BY <1>2, <1>10, <3>1, <3>3, <3>5, <3>6
    <3>8. ~clean' => owed' = 0 /\ dropped' = 0
      BY <1>2, <3>2 DEF CInv, Answers
    <3>9. clean' /\ peer'[Watched] = "open" =>
            /\ 2 * (owed' - s - dropped') = Len(h.left) + Len(v)
            /\ ~crowded' => dropped' = 0 /\ owed' <= SendSize
      BY <1>2, <3>4
    <3> QED
      BY <3>1, <3>5, <3>7, <3>8, <3>9 DEF Answers, Aligned
  <2>2. CASE f # Watched
    <3>1. owed' = owed /\ dropped' = dropped
      BY <1>11, <2>2 DEF Tracked
    <3>2. clean => Mine' = Mine
      BY <1>2, <1>17, <2>2 DEF Mine, Stays, CInv, Answers
    <3>3. wire'[Watched] = wire[Watched]
      BY <1>1, <1>8, <2>2 DEF CInv, TypeOK
    <3> QED
      BY <1>2, <3>1, <3>2, <3>3 DEF CInv, Answers, Aligned, Stays
  <2> QED
    BY <2>1, <2>2
<1>19. Idle'
  <2>1. Watched \in Served => place[Watched] # "none"
    BY DEF Served
  <2>2. Watched \in Served /\ ~skipped
          => \/ idle' = 0
             \/ idle' = idle /\ obj'[client[Watched]].dead = obj[client[Watched]].dead
    <3>1. CASE f = Watched /\ answers > 0
      BY <1>11, <3>1
    <3>2. CASE f = Watched /\ ~(answers > 0)
      BY <1>3, <1>11, <1>12, <3>2
    <3>3. CASE f # Watched
      BY <1>11, <1>17, <2>1, <3>3
    <3> QED
      BY <3>1, <3>2, <3>3
  <2>3. idle' \in {0, idle}
    BY <1>11
  <2> QED
    BY <1>2, <1>14, <2>2, <2>3, ClockStays
<1> QED
  BY <1>2, <1>15, <1>16, <1>18, <1>19, StaysKeeps DEF CInv
-----------------------------------------------------------------------------
(* The specification *)

LEMMA InitCInv == Init => CInv
<1> SUFFICES ASSUME Init PROVE CInv
  OBVIOUS
<1> USE ClientPoolAssumption DEF Init
<1>1. TypeOK
  <2>1. InitNum \in Nat /\ NumObj \in Nat /\ InitNum <= NumObj
    OBVIOUS
  <2>2. free \in Seq(Obj)
    <3>1. \A i \in 1 .. InitNum : InitNum + 1 - i \in Obj
      BY <2>1 DEF Obj
    <3> QED
      BY <2>1, <3>1
  <2>3. made \in SUBSET Obj /\ used \in 0 .. NumObj
    BY <2>1 DEF Obj
  <2>4. obj \in [Obj -> [recv : Seq(Unit), send : 0 .. SendSize, dead : 0 .. ExpireTime]]
    <3>1. <<>> \in Seq(Unit) /\ 0 \in 0 .. SendSize /\ 0 \in 0 .. ExpireTime
      OBVIOUS
    <3>2. NewObj \in [recv : Seq(Unit), send : 0 .. SendSize, dead : 0 .. ExpireTime]
      BY <3>1 DEF NewObj
    <3> QED
      BY <3>2
  <2>5. \A o \in Obj : Len(obj[o].recv) <= RecvSize
    BY DEF NewObj
  <2>6. /\ client \in [Fd -> Obj \cup {None}] /\ place \in [Fd -> Place]
        /\ peer \in [Fd -> Peer] /\ wire \in [Fd -> Seq(Unit)]
    BY DEF Place, Peer
  <2>7. elapsed \in 0 .. ExpireTime /\ idle \in 0 .. ExpireTime /\ owed \in Int
        /\ dropped \in 0 .. MaxDropped
    OBVIOUS
  <2>8. hung \in BOOLEAN /\ clean \in BOOLEAN /\ skipped \in BOOLEAN /\ crowded \in BOOLEAN
    BY Zenon
  <2> QED
    BY <2>2, <2>3, <2>4, <2>5, <2>6, <2>7, <2>8 DEF TypeOK
<1>2. PoolShape
  <2>1. Owners = {} /\ Given = {}
    BY DEF Owners, Given
  <2>2. InitNum \in 0 .. NumObj /\ made = 1 .. InitNum /\ InitNum \in Nat
    OBVIOUS
  <2>3. Len(free) = InitNum /\ \A i \in 1 .. InitNum : free[i] = InitNum + 1 - i
    BY <2>2
  <2>4. Pooled = 1 .. InitNum
    <3>1. ASSUME NEW i \in 1 .. InitNum
          PROVE  free[i] \in 1 .. InitNum /\ i \in Pooled
      <4>1. InitNum + 1 - i \in 1 .. Len(free) /\ free[InitNum + 1 - i] = i
        BY <2>2, <2>3
      <4>2. free[i] = InitNum + 1 - i
        BY <2>3
      <4> QED
        BY <2>3, <4>1, <4>2 DEF Pooled
    <3> QED
      BY <2>3, <3>1 DEF Pooled
  <2>5. \A i, j \in 1 .. Len(free) : free[i] = free[j] => i = j
    BY <2>2, <2>3
  <2>6. used = Cardinality(Owners)
    BY <2>1, FS_EmptySet
  <2> QED
    BY <2>1, <2>2, <2>4, <2>5, <2>6 DEF PoolShape
<1>3. Placed
  BY DEF Placed
<1>4. Answers
  BY DEF Answers
<1>5. Idle
  BY DEF Idle, IdleIsCounted, Served, Fd
<1> QED
  BY <1>1, <1>2, <1>3, <1>4, <1>5 DEF CInv

LEMMA NextCInv == CInv /\ [Next]_vars => CInv'
<1> SUFFICES ASSUME CInv, [Next]_vars PROVE CInv'
  OBVIOUS
<1>1. ASSUME NEW f \in Fd, Accept(f) PROVE CInv'
  BY <1>1, AcceptKeeps
<1>2. ASSUME NEW f \in Fd, ReadLeave(f) \/ ReadError(f) \/ WriteError(f) PROVE CInv'
  BY <1>2, LeavesKeeps
<1>3. ASSUME NEW f \in Fd, Read(f) PROVE CInv'
  BY <1>3, ReadKeeps
<1>4. ASSUME NEW f \in Fd, ReadHangs(f) PROVE CInv'
  BY <1>4, ReadHangsKeeps
<1>5. ASSUME NEW f \in Fd, Write(f) PROVE CInv'
  BY <1>5, WriteKeeps
<1>6. ASSUME NEW f \in Fd, PeerSends(f) PROVE CInv'
  BY <1>6, PeerSendsKeeps
<1>7. ASSUME NEW f \in Fd, PeerCloses(f) PROVE CInv'
  BY <1>7, PeerClosesKeeps
<1>8. CASE Take
  BY <1>8, TakeKeeps
<1>9. CASE CheckTime
  BY <1>9, CheckTimeKeeps
<1>10. CASE Tick
  BY <1>10, TickKeeps
<1>11. CASE UNCHANGED vars
  <2> USE <1>11 DEF vars
  <2>1. PoolShape'
    BY PoolStays
  <2>2. TypeOK'
    BY DEF CInv, TypeOK
  <2>3. Placed'
    BY DEF CInv, Placed
  <2>4. Answers'
    BY DEF CInv, Answers, Mine, Aligned
  <2>5. Idle'
    <3>1. Served' = Served
      BY DEF Served
    <3> QED
      BY <3>1 DEF CInv, Idle, IdleIsCounted
  <2> QED
    BY <2>1, <2>2, <2>3, <2>4, <2>5 DEF CInv
<1> QED
  BY <1>1, <1>2, <1>3, <1>4, <1>5, <1>6, <1>7, <1>8, <1>9, <1>10, <1>11 DEF Next

LEMMA AlwaysCInv == Spec => []CInv
BY InitCInv, NextCInv, PTL DEF Spec

\* Every variable keeps its type; in particular no ThreadClient's RecvBuf or
\* SendBuf ever holds more than it has room for, and _UseNum stays in range.
THEOREM TypeCorrect == Spec => []TypeOK
<1>1. CInv => TypeOK
  BY DEF CInv
<1> QED
  BY <1>1, AlwaysCInv, PTL

-----------------------------------------------------------------------------
(* The pool is exact *)

LEMMA OneHolder ==
    ASSUME CInv, NEW o \in Obj
    PROVE  /\ Cardinality(Holders(o)) = IF o \in Given THEN 1 ELSE 0
           /\ o \notin Given => Holders(o) = {}
<1>1. o # None
  BY ClientPoolAssumption DEF Obj
<1>2. Holders(o) \subseteq Owners /\ \A f \in Owners : f \in Holders(o) <=> client[f] = o
  BY <1>1 DEF Holders, Owners
<1>3. CASE o \in Given
  <2>1. PICK f \in Owners : client[f] = o
    BY <1>3 DEF Given
  <2>2. Holders(o) = {f}
    BY <1>2, <2>1 DEF CInv, PoolShape
  <2> QED
    BY <1>3, <2>2, FS_Singleton
<1>4. CASE o \notin Given
  <2>1. Holders(o) = {}
    BY <1>2, <1>4 DEF Given
  <2> QED
    BY <1>4, <2>1, FS_EmptySet
<1> QED
  BY <1>3, <1>4

LEMMA OncePooled ==
    ASSUME CInv, NEW o \in Obj
    PROVE  /\ Cardinality(InFree(o)) = IF o \in Pooled THEN 1 ELSE 0
           /\ o \notin Pooled => InFree(o) = {}
<1>1. DOMAIN free = 1 .. Len(free)
  BY DEF CInv, TypeOK
<1>2. InFree(o) = {i \in 1 .. Len(free) : free[i] = o}
  BY <1>1 DEF InFree
<1>3. CASE o \in Pooled
  <2>1. PICK i \in 1 .. Len(free) : free[i] = o
    BY <1>3 DEF Pooled
  <2>2. \A j \in 1 .. Len(free) : free[j] = free[i] => j = i
    BY DEF CInv, PoolShape
  <2>3. InFree(o) = {i}
    BY <1>2, <2>1, <2>2
  <2> QED
    BY <1>3, <2>3, FS_Singleton
<1>4. CASE o \notin Pooled
  <2>1. InFree(o) = {}
    BY <1>2, <1>4 DEF Pooled
  <2> QED
    BY <1>4, <2>1, FS_EmptySet
<1> QED
  BY <1>3, <1>4

\* ObjectPool::alloc and _ObjDeleter: whatever the order in which clients come
\* and leave, every ThreadClient that was made is in _free_list once or belongs
\* to one client, and _UseNum is the number of those that belong to one.
THEOREM PoolIsExact == Spec => []PoolExact
<1>1. CInv => PoolExact
  <2> SUFFICES ASSUME CInv PROVE PoolExact
    OBVIOUS
  <2>1. made = Pooled \cup Given /\ Pooled \cap Given = {} /\ made \subseteq Obj
    BY DEF CInv, PoolShape, TypeOK
  <2>2. ASSUME NEW o \in made
        PROVE  Cardinality(Holders(o)) + Cardinality(InFree(o)) = 1
    <3>1. \/ o \in Given /\ o \notin Pooled
          \/ o \in Pooled /\ o \notin Given
      BY <2>1
    <3> QED
      BY <2>1, <3>1, OneHolder, OncePooled
  <2>3. ASSUME NEW o \in Obj \ made
        PROVE  Holders(o) = {} /\ InFree(o) = {}
    BY <2>1, OneHolder, OncePooled
  <2>4. used = Cardinality({f \in Fd : client[f] # None})
    BY DEF CInv, PoolShape, Owners
  <2> QED
    BY <2>2, <2>3, <2>4 DEF PoolExact
<1> QED
  BY <1>1, AlwaysCInv, PTL

-----------------------------------------------------------------------------
(* Buffers and clocks *)

\* ReadData: what one recv() brings in is handled to the last whole message, so
\* that RecvBuf never keeps one for the next time.
THEOREM NoneWaits == Spec => []NoMessageWaits
<1>1. CInv => NoMessageWaits
  BY DEF CInv, Answers, Mine, NoMessageWaits
<1> QED
  BY <1>1, AlwaysCInv, PTL

\* However recv() cuts the stream into pieces and whatever other clients do: the
\* messages of a client that are owed an answer are on the way, in RecvBuf or in
\* SendBuf, each of them once, or had it dropped by push(); and push() drops none
\* for a client that was never owed more than SendBuf holds.
THEOREM AnswersAreExact == Spec => []AnswersExact
<1>1. CInv => AnswersExact
  <2> SUFFICES ASSUME CInv, clean, peer[Watched] = "open"
               PROVE  /\ owed = Requests(Mine.recv \o wire[Watched]) + Mine.send + dropped
                      /\ dropped > 0 => crowded
    BY DEF AnswersExact, Mine
  <2>1. Watched \in Fd
    BY ClientPoolAssumption DEF Fd
  <2>2. client[Watched] \in Obj
    BY <2>1, Owned DEF CInv, Answers
  <2>3. PICK c \in Seq(Unit), w \in Seq(Unit), a \in Int, b \in Int, d \in Int :
           /\ c = Mine.recv /\ w = wire[Watched] /\ a = Mine.send /\ b = owed
           /\ d = dropped
    BY <2>1, <2>2 DEF Mine, CInv, TypeOK
  <2>4. /\ Aligned(c \o w) /\ 2 * (b - a - d) = Len(c) + Len(w)
        /\ ~crowded => d = 0
    BY <2>3 DEF CInv, Answers
  <2>5. PICK k \in Int : k = b - a - d
    BY <2>3
  <2>6. c \o w \in Seq(Unit) /\ Len(c \o w) = 2 * k
    BY <2>4, <2>5, Joined
  <2>7. Requests(c \o w) = k
    BY <2>4, <2>6, RequestsAligned
  <2> QED
    BY <2>3, <2>4, <2>5, <2>7
<1> QED
  BY <1>1, AlwaysCInv, PTL

\* checkTime: the time that a client does nothing is all in its _deadtime or will
\* be added to it by the next checkTime, however long the thread slept between
\* two of them.
THEOREM IdleCounted == Spec => []IdleIsCounted
<1>1. CInv => IdleIsCounted
  BY DEF CInv, Idle
<1> QED
  BY <1>1, AlwaysCInv, PTL
=============================================================================
