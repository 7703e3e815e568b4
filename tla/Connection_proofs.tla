-------------------------- MODULE Connection_proofs --------------------------
(***************************************************************************)
(* Proofs about one message connection, for any number of senders, any     *)
(* buffer capacity and any number of messages: types; messages leave once  *)
(* and in order although HandlerWrite takes no lock; the close handler     *)
(* runs after everything has been read, unless raw memory says otherwise;  *)
(* and nothing unsent or unread is unknown to epoll unless the named race  *)
(* has happened.                                                           *)
(***************************************************************************)
EXTENDS Connection, SequenceTheorems, TLAPS

USE ConstantsAssumption

-----------------------------------------------------------------------------
(* The inductive invariant *)

\* Types of everything but the outgoing buffer.
Types ==
    /\ adder \in {"add", "map", "done"}
    /\ interest \in SUBSET Event
    /\ ready \in BOOLEAN
    /\ inbox \in Nat
    /\ sentIn \in 0 .. 2 * MaxIn
    /\ inbox <= sentIn
    /\ fin \in BOOLEAN
    /\ mapped \in BOOLEAN
    /\ pc \in LoopPc
    /\ report \in SUBSET Event
    /\ events \in SUBSET Event
    /\ local \in [Thread -> SUBSET Event]
    /\ closed \in BOOLEAN
    /\ eof \in BOOLEAN
    /\ mutex \in Thread \cup {None}
    /\ send \in [Thread -> SendPc]
    /\ calls \in [Thread -> 0 .. MaxSend]
    /\ gone \in BOOLEAN
    /\ raced \in BOOLEAN
    /\ dropped \in BOOLEAN
    /\ raw \in SUBSET {"closed", "eof"}

\* The buffer: HandlerWrite may move rd at any time, SendMsg moves wr.
Outbox ==
    /\ data \in Seq(Message)
    /\ rd \in Nat
    /\ wr \in Nat
    /\ rd <= wr
    /\ wr <= Len(data)
    /\ wr <= rd + Capacity
    /\ start \in [Thread -> Nat]
    /\ wire \in Seq(Message)
    /\ accepted \in Seq(Message)

\* A thread inside SendMsg has the lock.
Locked == \A t \in Thread : send[t] # "idle" => mutex = t

\* Between the copy and the move of wr the message stands behind wr.
Copied ==
    \A t \in Thread : send[t] = "advance" =>
        /\ wr < rd + Capacity
        /\ start[t] = wr
        /\ Len(data) = wr + 1
        /\ data[wr + 1] = <<t, calls[t]>>
        /\ calls[t] > 0

\* Nothing is handled or sent before PollAdd has finished, and the loop thread
\* sends from a handler.
SetUp ==
    /\ mapped <=> adder = "done"
    /\ ~mapped => /\ pc \in {"wait", "ready"}
                  /\ rd = wr
                  /\ events = InitialEvents
                  /\ \A t \in Thread : send[t] = "idle"
    /\ send[Loop] # "idle" => pc = "reply"

\* The flags that HandlerEvery looks at tell the truth, or were true before
\* the constructor.
Flags ==
    /\ "RDHUP" \in report => fin
    /\ closed => fin \/ "closed" \in raw
    /\ eof => (fin /\ inbox = 0) \/ "eof" \in raw
    /\ gone => closed /\ eof

\* A thread has put a message in the buffer and has yet to call epoll_ctl.
WillArm(t) == send[t] \in {"load", "store", "get", "mod"}

\* While nobody has raced, what SendMsg has read of events_ is up to date.
Fresh ==
    ~raced => \A t \in Thread :
                  /\ send[t] \in {"store", "mod"} => local[t] = events
                  /\ send[t] \in {"get", "mod"} => "OUT" \in events

\* The chain that keeps EPOLLOUT asked for while the buffer is not empty.
OutArmed ==
    ~raced /\ rd < wr /\ (\A t \in Thread : ~WillArm(t)) =>
        /\ pc = "wait" => fin \/ gone \/ ("OUT" \in interest /\ ready)
        /\ pc = "get" => "OUT" \in events
        /\ pc = "mod" => "OUT" \in local[Loop]

\* The chain that keeps EPOLLIN asked for.
InArmed ==
    ~raced /\ ~gone =>
        /\ pc \in {"wait", "ready", "handle", "check", "get", "mod"} => "IN" \in events
        /\ pc = "mod" => "IN" \in local[Loop]
        /\ adder # "add" /\ pc \in {"wait", "ready"} => "IN" \in interest
        /\ adder # "add" /\ pc = "wait" /\ inbox > 0 /\ ~dropped => ready

IInv ==
    /\ Types /\ Outbox /\ Locked /\ Copied /\ InOrder
    /\ SetUp /\ Flags /\ Fresh /\ OutArmed /\ InArmed

-----------------------------------------------------------------------------
(* Sequences *)

\* A message copied behind wr does not change what is queued.
LEMMA QueuedAfterCopy ==
    ASSUME Outbox, NEW m \in Message
    PROVE  LET d == Append(SubSeq(data, 1, wr), m)
           IN  /\ d \in Seq(Message)
               /\ Len(d) = wr + 1
               /\ d[wr + 1] = m
               /\ SubSeq(d, rd + 1, wr) = SubSeq(data, rd + 1, wr)
<1> DEFINE s == SubSeq(data, 1, wr)
           d == Append(s, m)
<1>1. \A i \in 1 .. wr : data[i] \in Message
  BY ElementOfSeq DEF Outbox
<1>2. s \in Seq(Message) /\ Len(s) = wr /\ \A i \in 1 .. wr : s[i] = data[i]
  BY <1>1, SubSeqProperties DEF Outbox
<1>3. /\ d \in Seq(Message) /\ Len(d) = wr + 1 /\ d[wr + 1] = m
      /\ \A i \in 1 .. wr : d[i] = data[i]
  BY <1>2, AppendProperties DEF Outbox
<1> HIDE DEF d
<1>4. \A i \in rd + 1 .. wr : data[i] \in Message /\ d[i] \in Message
  BY <1>1, <1>3 DEF Outbox
<1> DEFINE a == SubSeq(d, rd + 1, wr)
           b == SubSeq(data, rd + 1, wr)
<1>5. /\ a \in Seq(Message) /\ Len(a) = (IF rd + 1 <= wr THEN wr - (rd + 1) + 1 ELSE 0)
      /\ \A i \in 1 .. wr - (rd + 1) + 1 : a[i] = d[rd + 1 + i - 1]
  BY <1>4, SubSeqProperties DEF Outbox
<1>6. /\ b \in Seq(Message) /\ Len(b) = (IF rd + 1 <= wr THEN wr - (rd + 1) + 1 ELSE 0)
      /\ \A i \in 1 .. wr - (rd + 1) + 1 : b[i] = data[rd + 1 + i - 1]
  BY <1>4, SubSeqProperties DEF Outbox
<1>7. \A i \in 1 .. Len(a) : a[i] = b[i]
  BY <1>3, <1>5, <1>6 DEF Outbox
<1>8. a = b
  <2> HIDE DEF a, b
  <2> QED BY <1>5, <1>6, <1>7, SeqEqual
<1> QED
  BY <1>3, <1>8 DEF d

\* Moving wr past a message appends it to what is queued.
LEMMA QueuedAfterAdvance ==
    ASSUME Outbox, wr < Len(data)
    PROVE  /\ Queued \in Seq(Message)
           /\ data[wr + 1] \in Message
           /\ SubSeq(data, rd + 1, wr + 1) = Append(Queued, data[wr + 1])
<1> DEFINE a == SubSeq(data, rd + 1, wr + 1)
           b == SubSeq(data, rd + 1, wr)
           c == Append(b, data[wr + 1])
<1>1. \A i \in 1 .. wr + 1 : data[i] \in Message
  BY ElementOfSeq DEF Outbox
<1>2. /\ a \in Seq(Message) /\ Len(a) = wr - rd + 1
      /\ \A i \in 1 .. wr - rd + 1 : a[i] = data[rd + i]
  <2>1. \A i \in rd + 1 .. wr + 1 : data[i] \in Message
    BY <1>1 DEF Outbox
  <2>2. /\ rd + 1 \in Int /\ wr + 1 \in Int
        /\ (wr + 1) - (rd + 1) + 1 = wr - rd + 1
        /\ \A i \in Int : ((rd + 1) + i) - 1 = rd + i
    BY DEF Outbox
  <2> QED BY <2>1, <2>2, SubSeqProperties DEF Outbox
<1>3. /\ b \in Seq(Message) /\ Len(b) = wr - rd
      /\ \A i \in 1 .. wr - rd : b[i] = data[rd + i]
  <2>1. \A i \in rd + 1 .. wr : data[i] \in Message
    BY <1>1 DEF Outbox
  <2> QED BY <2>1, SubSeqProperties DEF Outbox
<1>4. data[wr + 1] \in Message
  BY <1>1 DEF Outbox
<1>5. /\ c \in Seq(Message) /\ Len(c) = wr - rd + 1
      /\ \A i \in 1 .. wr - rd : c[i] = b[i]
      /\ c[wr - rd + 1] = data[wr + 1]
  BY <1>3, <1>4, AppendProperties DEF Outbox
<1>6. \A i \in 1 .. Len(a) : a[i] = c[i]
  BY <1>2, <1>3, <1>5 DEF Outbox
<1>7. a = c
  <2> HIDE DEF a, b, c
  <2> QED BY <1>2, <1>5, <1>6, SeqEqual
<1> QED
  BY <1>3, <1>4, <1>7 DEF Queued

LEMMA ConcatAppend ==
    ASSUME NEW S, NEW p \in Seq(S), NEW q \in Seq(S), NEW x \in S
    PROVE  p \o Append(q, x) = Append(p \o q, x)
<1>1. <<x>> \in Seq(S)
  OBVIOUS
<1>2. p \o (q \o <<x>>) = (p \o q) \o <<x>>
  BY <1>1, ConcatAssociative
<1>3. p \o q \in Seq(S)
  BY ConcatProperties
<1> QED
  BY <1>2, <1>3, AppendIsConcat

-----------------------------------------------------------------------------
(* The initial state *)

LEMMA InitIInv == Init => IInv
<1> SUFFICES ASSUME Init PROVE IInv
  OBVIOUS
<1>1. Types
  <2>1. interest \in SUBSET Event /\ events \in SUBSET Event
    BY DEF Init, InitialEvents, Event
  <2>2. /\ local \in [Thread -> SUBSET Event]
        /\ send \in [Thread -> SendPc]
        /\ calls \in [Thread -> 0 .. MaxSend]
    BY DEF Init, SendPc
  <2>3. /\ adder \in {"add", "map", "done"} /\ ready \in BOOLEAN /\ mapped \in BOOLEAN
        /\ inbox = 0 /\ sentIn = 0
    BY DEF Init
  <2>4. /\ report = {} /\ pc = "wait" /\ mutex = None
        /\ fin = FALSE /\ closed \in BOOLEAN /\ eof \in BOOLEAN
        /\ raw \in SUBSET {"closed", "eof"}
        /\ gone = FALSE /\ raced = FALSE /\ dropped = FALSE
    BY DEF Init
  <2>5. /\ inbox \in Nat /\ sentIn \in 0 .. 2 * MaxIn /\ inbox <= sentIn
    BY <2>3
  <2> HIDE DEF Init
  <2> QED BY <2>1, <2>2, <2>3, <2>4, <2>5 DEF Types, LoopPc
<1>2. Outbox /\ Locked /\ Copied
  BY DEF Init, Outbox, Locked, Copied
<1>3. InOrder
  <2>1. Queued = <<>>
    BY SubSeqEmpty DEF Init, Queued
  <2> QED BY <2>1 DEF Init, InOrder
<1>4. SetUp /\ Flags
  BY DEF Init, SetUp, Flags, Thread
<1>5. Fresh /\ OutArmed
  BY DEF Init, Fresh, OutArmed
<1>6. InArmed
  BY DEF Init, InArmed, InitialEvents
<1> QED
  BY <1>1, <1>2, <1>3, <1>4, <1>5, <1>6 DEF IInv

-----------------------------------------------------------------------------
(* Types *)

LEMMA EpollCtlType ==
    ASSUME NEW ev \in SUBSET Event, EpollCtl(ev)
    PROVE  interest' \in SUBSET Event /\ ready' \in BOOLEAN
BY DEF EpollCtl

LEMMA PollType == Poll \in SUBSET Event
BY DEF Poll, Event

LEMMA LoopTypes ==
    ASSUME Types, LoopStep PROVE Types'
<1> USE DEF Types, LoopPc
<1>1. CASE WaitChannels
  BY <1>1, PollType DEF WaitChannels, sending, outbox, history
<1>2. CASE GetReadyChannels
  BY <1>2 DEF GetReadyChannels, kernel, sending, outbox
<1>9. CASE HandleEvents
  BY <1>9 DEF HandleEvents, FirstHandler, NoteRace, kernel, sending, outbox
<1>3. CASE HandlerReadLen
  <2>1. /\ inbox' \in Nat /\ inbox' <= inbox
        /\ eof' \in BOOLEAN /\ pc' \in {"body", "write"}
    <3>1. CASE inbox > 0
      BY <1>3, <3>1 DEF HandlerReadLen
    <3>2. CASE ~(inbox > 0)
      BY <1>3, <3>2 DEF HandlerReadLen
    <3> QED BY <3>1, <3>2
  <2> QED BY <1>3, <2>1 DEF HandlerReadLen, sending, history
<1>7. CASE HandlerReadBody
  <2>1. /\ inbox' \in Nat /\ inbox' <= inbox
        /\ eof' \in BOOLEAN /\ pc' \in {"reply", "write"}
    <3>1. CASE inbox > 0
      BY <1>7, <3>1 DEF HandlerReadBody
    <3>2. CASE ~(inbox > 0)
      BY <1>7, <3>2 DEF HandlerReadBody
    <3> QED BY <3>1, <3>2
  <2> QED BY <1>7, <2>1 DEF HandlerReadBody, sending, history
<1>4. CASE HandlerWrite
  BY <1>4 DEF HandlerWrite, kernel, sending, history
<1>8. CASE HandlerWriteRest
  <2>1. events' \in SUBSET Event
    BY <1>8 DEF HandlerWriteRest, Event
  <2> QED BY <1>8, <2>1 DEF HandlerWriteRest, NoteRace, kernel, sending
<1>5. CASE HandlerEvery
  <2>1. events' \in SUBSET Event /\ gone' \in BOOLEAN /\ pc' \in {"wait", "check"}
    BY <1>5 DEF HandlerEvery, RearmedEvents, Event
  <2> QED BY <1>5, <2>1 DEF HandlerEvery, NoteRace, kernel, sending
<1>10. CASE HandlerEveryCheck
  BY <1>10 DEF HandlerEveryCheck, NoteRace, RearmOut, kernel, sending, Event
<1>6. CASE HandlerEveryGet
  <2>1. local' \in [Thread -> SUBSET Event]
    BY <1>6 DEF HandlerEveryGet
  <2> QED BY <1>6, <2>1 DEF HandlerEveryGet, NoteRace, kernel, sending
<1>11. CASE HandlerEveryMod
  <2>1. local' \in [Thread -> SUBSET Event]
    BY <1>11 DEF HandlerEveryMod
  <2>2. interest' \in SUBSET Event /\ ready' \in BOOLEAN
    BY <1>11, EpollCtlType DEF HandlerEveryMod, Thread
  <2> QED BY <1>11, <2>1, <2>2 DEF HandlerEveryMod, NoteRace, sending
<1> QED
  BY <1>1, <1>2, <1>3, <1>4, <1>5, <1>6, <1>7, <1>8, <1>9, <1>10, <1>11
     DEF LoopStep

LEMMA SendTypes ==
    ASSUME Types, NEW t \in Thread, SendMsg(t) PROVE Types'
<1> USE DEF Types, SendPc
<1>1. CASE SendMsgCopy(t)
  <2>1. calls' \in [Thread -> 0 .. MaxSend]
    BY <1>1 DEF SendMsgCopy
  <2>2. /\ pc' \in LoopPc /\ mutex' \in Thread \cup {None}
        /\ send' \in [Thread -> SendPc]
    BY <1>1 DEF SendMsgCopy, Return, LoopPc
  <2> QED BY <1>1, <2>1, <2>2 DEF SendMsgCopy, kernel, history
<1>2. CASE SendMsgAdvance(t) \/ SendMsgLoad(t)
  <2>1. CASE SendMsgAdvance(t)
    BY <2>1 DEF SendMsgAdvance, kernel, history
  <2>2. CASE SendMsgLoad(t)
    <3>1. local' \in [Thread -> SUBSET Event] /\ send' \in [Thread -> SendPc]
      BY <2>2 DEF SendMsgLoad
    <3> QED BY <2>2, <3>1 DEF SendMsgLoad, kernel, history
  <2> QED BY <1>2, <2>1, <2>2
<1>3. CASE SendMsgStore(t)
  <2>1. events' \in SUBSET Event
    BY <1>3 DEF SendMsgStore, Event
  <2> QED BY <1>3, <2>1 DEF SendMsgStore, kernel, history
<1>5. CASE SendMsgGet(t)
  BY <1>5 DEF SendMsgGet, kernel, history
<1>4. CASE SendMsgMod(t)
  BY <1>4, EpollCtlType DEF SendMsgMod, Return, LoopPc, outbox
<1> QED
  BY <1>1, <1>2, <1>3, <1>4, <1>5 DEF SendMsg, InsideSendMsg

LEMMA OtherTypes ==
    ASSUME Types, Peer \/ Adder PROVE Types'
<1> USE DEF Types
<1>1. CASE PeerSends
  <2>1. sentIn' = sentIn + 1 /\ inbox' = inbox + 1 /\ sentIn < 2 * MaxIn
    BY <1>1 DEF PeerSends
  <2>2. sentIn' \in 0 .. 2 * MaxIn /\ inbox' \in Nat /\ inbox' <= sentIn'
    BY <2>1
  <2> QED BY <1>1, <2>2 DEF PeerSends, Wake, sending, history
<1>4. CASE PeerCloses
  BY <1>4 DEF PeerCloses, Wake, sending, history
<1>2. CASE PollAdd
  BY <1>2, EpollCtlType DEF PollAdd, sending, history
<1>3. CASE PollAddMap
  BY <1>3 DEF PollAddMap, kernel, sending, history
<1> QED BY <1>1, <1>2, <1>3, <1>4 DEF Adder, Peer

-----------------------------------------------------------------------------
(* The buffer *)

Order == Outbox /\ Locked /\ Copied /\ InOrder

\* Most steps have nothing to do with the buffer.
LEMMA OrderFrame ==
    ASSUME Order, UNCHANGED <<sending, outbox>> PROVE Order'
<1> USE DEF Order, sending, outbox
<1>1. Outbox'
  BY DEF Outbox
<1>2. Locked' /\ Copied'
  BY DEF Locked, Copied
<1>3. InOrder'
  BY DEF InOrder, Queued
<1> QED BY <1>1, <1>2, <1>3

\* WriteToSocket writes what is queued, while SendMsg may be anywhere.
LEMMA WriteOrder ==
    ASSUME Types, Order, HandlerWrite PROVE Order'
<1> USE DEF Order
<1>1. CASE ~(MayWrite /\ Unused > 0)
  <2>1. UNCHANGED <<sending, outbox>>
    BY <1>1 DEF HandlerWrite, sending, outbox
  <2> QED BY <2>1, OrderFrame
<1>2. CASE MayWrite /\ Unused > 0
  <2>1. /\ wire' = wire \o Queued /\ rd' = wr
        /\ UNCHANGED <<mutex, send, calls, data, wr, start, accepted>>
    BY <1>2 DEF HandlerWrite, sending
  <2>2. Queued \in Seq(Message)
    <3>1. \A i \in rd + 1 .. wr : data[i] \in Message
      BY ElementOfSeq DEF Outbox
    <3> QED BY <3>1, SubSeqProperties DEF Queued, Outbox
  <2>3. wire' \in Seq(Message)
    BY <2>1, <2>2, ConcatProperties DEF Outbox
  <2>4. Outbox'
    BY <2>1, <2>3 DEF Outbox
  <2>5. Locked'
    BY <2>1 DEF Locked
  <2>6. Copied'
    BY <2>1 DEF Copied, Outbox
  <2>7. Queued' = <<>>
    BY <2>1, SubSeqEmpty DEF Queued, Outbox
  <2>8. wire' \o <<>> = wire'
    BY <2>3, ConcatEmptySeq
  <2>9. InOrder'
    BY <2>1, <2>7, <2>8 DEF InOrder
  <2> QED BY <2>4, <2>5, <2>6, <2>9
<1> QED BY <1>1, <1>2

\* WriteToBuffer copies its message behind wr; nobody else is inside SendMsg.
LEMMA CopyOrder ==
    ASSUME Types, Order, NEW t \in Thread, SendMsgCopy(t) PROVE Order'
<1> USE DEF Order
<1> DEFINE m == <<t, calls[t] + 1>>
<1>1. /\ calls[t] \in Nat /\ calls[t] < MaxSend
      /\ calls' = [calls EXCEPT ![t] = @ + 1]
      /\ UNCHANGED <<rd, wr, wire, accepted>>
      /\ \A u \in Thread : send[u] = "idle"
  BY DEF SendMsgCopy, MutexFree, Types, Locked, Thread
<1>2. m \in Message
  BY <1>1 DEF Message
<1>3. CASE ~HasRoom
  <2>1. UNCHANGED <<data, start, mutex, send>>
    BY <1>3 DEF SendMsgCopy
  <2>2. Outbox' /\ Locked'
    BY <1>1, <2>1 DEF Outbox, Locked
  <2>3. Copied'
    BY <1>1, <2>1 DEF Copied
  <2>4. InOrder'
    BY <1>1, <2>1 DEF InOrder, Queued
  <2> QED BY <2>2, <2>3, <2>4
<1>4. CASE HasRoom
  <2>1. /\ data' = Append(SubSeq(data, 1, wr), m)
        /\ start' = [start EXCEPT ![t] = wr]
        /\ mutex' = t
        /\ send' = [send EXCEPT ![t] = "advance"]
        /\ wr < rd + Capacity
    BY <1>4 DEF SendMsgCopy, HasRoom, Unused, Outbox
  <2>2. /\ data' \in Seq(Message) /\ Len(data') = wr + 1 /\ data'[wr + 1] = m
        /\ SubSeq(data', rd + 1, wr) = SubSeq(data, rd + 1, wr)
    BY <1>2, <2>1, QueuedAfterCopy
  <2>3. Outbox'
    BY <1>1, <2>1, <2>2 DEF Outbox
  <2>4. Locked'
    BY <1>1, <2>1 DEF Locked, Types
  <2>5. Copied'
    <3>1. \A u \in Thread : send'[u] = "advance" => u = t
      BY <1>1, <2>1 DEF Types
    <3>2. start'[t] = wr /\ calls'[t] = calls[t] + 1
      BY <1>1, <2>1 DEF Types, Outbox
    <3> QED BY <1>1, <2>1, <2>2, <3>1, <3>2 DEF Copied
  <2>6. InOrder'
    BY <1>1, <2>2 DEF InOrder, Queued
  <2> QED BY <2>3, <2>4, <2>5, <2>6
<1> QED BY <1>3, <1>4

\* The write index moves past the message that stands behind it.
LEMMA AdvanceOrder ==
    ASSUME Types, Order, NEW t \in Thread, SendMsgAdvance(t) PROVE Order'
<1> USE DEF Order
<1>1. /\ send[t] = "advance" /\ send' = [send EXCEPT ![t] = "load"]
      /\ wr' = start[t] + 1 /\ start' = [start EXCEPT ![t] = 0]
      /\ accepted' = Append(accepted, <<t, calls[t]>>)
      /\ UNCHANGED <<mutex, calls, data, rd, wire>>
  BY DEF SendMsgAdvance
<1>2. /\ wr' = wr + 1 /\ wr < rd + Capacity
      /\ Len(data) = wr + 1 /\ data[wr + 1] = <<t, calls[t]>>
  BY <1>1 DEF Copied
<1>3. /\ Queued \in Seq(Message) /\ <<t, calls[t]>> \in Message
      /\ Queued' = Append(Queued, <<t, calls[t]>>)
  <2>1. wr < Len(data)
    BY <1>2 DEF Outbox
  <2> QED BY <1>1, <1>2, <2>1, QueuedAfterAdvance DEF Queued
<1>4. accepted' \in Seq(Message)
  BY <1>1, <1>3, AppendProperties DEF Outbox
<1>5. Outbox'
  BY <1>1, <1>2, <1>4 DEF Outbox
<1>6. Locked'
  BY <1>1 DEF Locked, Types
<1>7. Copied'
  <2>1. \A u \in Thread : send'[u] # "advance"
    BY <1>1 DEF Locked, Types
  <2> QED BY <2>1 DEF Copied
<1>8. wire \o Append(Queued, <<t, calls[t]>>) = Append(wire \o Queued, <<t, calls[t]>>)
  <2>1. wire \in Seq(Message)
    BY DEF Outbox
  <2> QED BY <1>3, <2>1, ConcatAppend
<1>9. InOrder'
  BY <1>1, <1>3, <1>8 DEF InOrder
<1> QED BY <1>5, <1>6, <1>7, <1>9

\* The rest of SendMsg.
LEMMA ArmOrder ==
    ASSUME Types, Order, NEW t \in Thread,
           SendMsgLoad(t) \/ SendMsgStore(t) \/ SendMsgGet(t) \/ SendMsgMod(t)
    PROVE  Order'
<1> USE DEF Order
<1>1. PICK p \in SendPc \ {"advance"} :
        /\ send[t] # "idle"
        /\ send' = [send EXCEPT ![t] = p]
        /\ IF p = "idle" THEN mutex' = None ELSE mutex' = mutex
        /\ UNCHANGED <<outbox, calls>>
  BY DEF SendMsgLoad, SendMsgStore, SendMsgGet, SendMsgMod, SendPc
<1>2. Outbox'
  BY <1>1 DEF Outbox, outbox
<1>3. \A u \in Thread : send'[u] # "idle" /\ u # t => send[u] # "idle" /\ mutex = u
  BY <1>1 DEF Types, Locked
<1>4. mutex = t
  BY <1>1 DEF Locked
<1>5. Locked'
  BY <1>1, <1>3, <1>4 DEF Locked, Types
<1>6. Copied'
  BY <1>1 DEF Copied, Types, outbox
<1>7. InOrder'
  BY <1>1 DEF InOrder, Queued, outbox
<1> QED BY <1>2, <1>5, <1>6, <1>7

LEMMA NextOrder ==
    ASSUME Types, Order, [Next]_vars PROVE Order'
<1>1. CASE UNCHANGED vars
  BY <1>1, OrderFrame DEF vars
<1>2. CASE Peer \/ Adder
  BY <1>2, OrderFrame DEF Peer, PeerSends, PeerCloses, Adder, PollAdd, PollAddMap
<1>3. CASE HandlerWrite
  BY <1>3, WriteOrder
<1>4. CASE LoopStep /\ ~HandlerWrite
  BY <1>4, OrderFrame
     DEF LoopStep, WaitChannels, GetReadyChannels, HandleEvents, HandlerReadLen,
         HandlerReadBody, HandlerWriteRest, HandlerEvery, HandlerEveryCheck,
         HandlerEveryGet, HandlerEveryMod
<1>5. ASSUME NEW t \in Thread, SendMsg(t) PROVE Order'
  BY <1>5, CopyOrder, AdvanceOrder, ArmOrder DEF SendMsg, InsideSendMsg
<1> QED
  BY <1>1, <1>2, <1>3, <1>4, <1>5 DEF Next
-----------------------------------------------------------------------------
(* Types and the setting up *)

LEMMA NextTypes ==
    ASSUME Types, [Next]_vars PROVE Types'
<1>1. CASE UNCHANGED vars
  BY <1>1 DEF vars, kernel, sending, history, Types
<1>2. CASE Next
  BY <1>2, OtherTypes, LoopTypes, SendTypes DEF Next
<1> QED BY <1>1, <1>2

\* No other thread is inside SendMsg.
LEMMA Alone ==
    ASSUME Locked, NEW t \in Thread, send[t] # "idle"
    PROVE  \A u \in Thread : u # t => send[u] = "idle"
BY DEF Locked

\* While the loop thread is in a handler of its own it is not inside SendMsg.
LEMMA LoopIdle ==
    ASSUME SetUp, LoopStep PROVE send[Loop] = "idle"
BY DEF SetUp, LoopStep, WaitChannels, GetReadyChannels, HandleEvents,
       HandlerReadLen, HandlerReadBody, HandlerWrite, HandlerWriteRest,
       HandlerEvery, HandlerEveryCheck, HandlerEveryGet, HandlerEveryMod

\* The steps of the loop thread on an event.
Handling ==
    \/ HandleEvents \/ HandlerReadLen \/ HandlerReadBody
    \/ HandlerWrite \/ HandlerWriteRest
    \/ HandlerEvery \/ HandlerEveryCheck \/ HandlerEveryGet \/ HandlerEveryMod

LEMMA HandlingFrame ==
    ASSUME SetUp, Handling
    PROVE  mapped /\ UNCHANGED <<mapped, adder, send>>
BY DEF SetUp, Handling, HandleEvents, HandlerReadLen, HandlerReadBody,
       HandlerWrite, HandlerWriteRest, HandlerEvery, HandlerEveryCheck,
       HandlerEveryGet, HandlerEveryMod, sending

LEMMA NextSetUp ==
    ASSUME Types, SetUp, [Next]_vars PROVE SetUp'
<1>1. CASE UNCHANGED vars
  BY <1>1 DEF vars, sending, outbox, SetUp
<1>2. CASE Peer
  BY <1>2 DEF Peer, PeerSends, PeerCloses, sending, outbox, SetUp
<1>3. CASE Adder
  BY <1>3 DEF Adder, PollAdd, PollAddMap, sending, outbox, SetUp
<1>4. CASE WaitChannels
  BY <1>4 DEF WaitChannels, sending, outbox, SetUp
<1>5. CASE GetReadyChannels
  BY <1>5 DEF GetReadyChannels, sending, outbox, SetUp
<1>6. CASE Handling
  <2>1. LoopStep
    BY <1>6 DEF Handling, LoopStep
  <2> QED BY <1>6, <2>1, HandlingFrame, LoopIdle DEF SetUp
<1>7. ASSUME NEW t \in Thread, SendMsg(t) PROVE SetUp'
  <2>1. mapped /\ UNCHANGED <<mapped, adder>>
    BY <1>7 DEF SendMsg, SendMsgCopy, MayCall, InsideSendMsg, SendMsgAdvance,
                SendMsgLoad, SendMsgStore, SendMsgGet, SendMsgMod, SetUp
  <2>2. send'[Loop] # "idle" => pc' = "reply"
    <3>1. CASE t = Loop
      BY <1>7, <3>1 DEF SendMsg, SendMsgCopy, MayCall, Return, InsideSendMsg,
             SendMsgAdvance, SendMsgLoad, SendMsgStore, SendMsgGet, SendMsgMod,
             SetUp, Types
    <3>2. CASE t # Loop
      <4>1. pc' = pc
        BY <1>7, <3>2 DEF SendMsg, SendMsgCopy, Return, InsideSendMsg,
             SendMsgAdvance, SendMsgLoad, SendMsgStore, SendMsgGet, SendMsgMod
      <4>2. send'[Loop] = send[Loop]
        BY <1>7, <3>2 DEF SendMsg, SendMsgCopy, InsideSendMsg, Thread,
             SendMsgAdvance, SendMsgLoad, SendMsgStore, SendMsgGet, SendMsgMod,
             Types
      <4> QED BY <4>1, <4>2 DEF SetUp
    <3> QED BY <3>1, <3>2
  <2> QED BY <2>1, <2>2 DEF SetUp
<1> QED
  BY <1>1, <1>2, <1>3, <1>4, <1>5, <1>6, <1>7 DEF Next, LoopStep, Handling

-----------------------------------------------------------------------------
(* The flags *)

LEMMA RawKept ==
    ASSUME [Next]_vars PROVE raw' = raw
BY DEF Next, Peer, PeerSends, PeerCloses, Adder, PollAdd, PollAddMap, LoopStep,
       WaitChannels, GetReadyChannels, HandleEvents, HandlerReadLen,
       HandlerReadBody, HandlerWrite, HandlerWriteRest, HandlerEvery,
       HandlerEveryCheck, HandlerEveryGet, HandlerEveryMod, SendMsg,
       SendMsgCopy, InsideSendMsg, SendMsgAdvance, SendMsgLoad, SendMsgStore,
       SendMsgGet, SendMsgMod, vars, history

LEMMA NextFlags ==
    ASSUME Types, Flags, [Next]_vars PROVE Flags'
<1>0. raw' = raw
  BY RawKept
<1>1. CASE UNCHANGED <<report, fin, closed, eof, inbox, gone>>
  BY <1>0, <1>1 DEF Flags
<1>2. CASE PeerSends \/ PeerCloses
  BY <1>0, <1>2 DEF PeerSends, PeerCloses, Flags
<1>3. CASE WaitChannels
  <2>1. "RDHUP" \in Poll => fin
    BY DEF Poll
  <2> QED BY <1>0, <1>3, <2>1 DEF WaitChannels, Flags
<1>4. CASE HandleEvents
  BY <1>0, <1>4 DEF HandleEvents, Hangup, kernel, Flags
<1>5. CASE HandlerReadLen
  <2>1. CASE inbox > 0
    BY <1>0, <1>5, <2>1 DEF HandlerReadLen, Flags, Types
  <2>2. CASE ~(inbox > 0)
    BY <1>0, <1>5, <2>2 DEF HandlerReadLen, Readn, Flags, Types
  <2> QED BY <2>1, <2>2
<1>6. CASE HandlerReadBody
  <2>1. CASE inbox > 0
    BY <1>0, <1>6, <2>1 DEF HandlerReadBody, Flags, Types
  <2>2. CASE ~(inbox > 0)
    BY <1>0, <1>6, <2>2 DEF HandlerReadBody, Readn, Flags, Types
  <2> QED BY <2>1, <2>2
<1>7. CASE HandlerWriteRest
  BY <1>0, <1>7 DEF HandlerWriteRest, kernel, Flags
<1>8. CASE HandlerEvery
  BY <1>0, <1>8 DEF HandlerEvery, Finished, kernel, Flags
<1>9. CASE PollAdd \/ PollAddMap
  BY <1>1, <1>9 DEF PollAdd, PollAddMap, kernel
<1>10. CASE GetReadyChannels \/ HandlerWrite \/ HandlerEveryCheck
              \/ HandlerEveryGet \/ HandlerEveryMod
  BY <1>1, <1>10 DEF GetReadyChannels, HandlerWrite, HandlerEveryCheck,
                     HandlerEveryGet, HandlerEveryMod, kernel
<1>11. ASSUME NEW t \in Thread, SendMsg(t) PROVE Flags'
  BY <1>1, <1>11 DEF SendMsg, SendMsgCopy, InsideSendMsg, SendMsgAdvance,
         SendMsgLoad, SendMsgStore, SendMsgGet, SendMsgMod, kernel
<1>12. CASE UNCHANGED vars
  BY <1>1, <1>12 DEF vars, kernel
<1> QED
  BY <1>2, <1>3, <1>4, <1>5, <1>6, <1>7, <1>8, <1>9, <1>10, <1>11, <1>12
     DEF Next, Peer, Adder, LoopStep
-----------------------------------------------------------------------------
(* The registration *)

Interest == Types /\ Locked /\ SetUp /\ Flags /\ Outbox /\ Fresh

\* The steps of the loop thread that look at events_ or epoll while another
\* thread is between Addevents and epoll_ctl are noted.
LEMMA Noted ==
    ASSUME Types, SetUp, LoopStep, NoteRace, ~raced'
    PROVE  ~raced /\ \A t \in Thread : send[t] \notin {"store", "get", "mod"}
<1>1. send[Loop] = "idle"
  BY LoopIdle
<1>2. ~raced /\ \A t \in Sender : send[t] \notin {"store", "get", "mod"}
  BY DEF NoteRace, Arming, Types
<1> QED BY <1>1, <1>2 DEF Thread

LEMMA NextFresh ==
    ASSUME Types, Locked, SetUp, Fresh, [Next]_vars PROVE Fresh'
<1>1. CASE UNCHANGED <<raced, send, local, events>>
  BY <1>1 DEF Fresh
<1>2. CASE UNCHANGED vars \/ Peer \/ Adder
  BY <1>1, <1>2 DEF vars, sending, history, Peer, PeerSends, PeerCloses, Adder,
                    PollAdd, PollAddMap
<1>3. CASE WaitChannels \/ GetReadyChannels \/ HandlerReadLen
              \/ HandlerReadBody \/ HandlerWrite
  BY <1>1, <1>3 DEF WaitChannels, GetReadyChannels, HandlerReadLen,
                    HandlerReadBody, HandlerWrite, sending, history
<1>4. CASE LoopStep /\ NoteRace /\ send' = send
  <2> SUFFICES ASSUME ~raced' PROVE Fresh'
    BY DEF Fresh
  <2>1. \A t \in Thread : send'[t] \notin {"store", "get", "mod"}
    BY <1>4, Noted
  <2> QED BY <2>1 DEF Fresh
<1>5. CASE HandleEvents \/ HandlerWriteRest \/ HandlerEvery
              \/ HandlerEveryCheck \/ HandlerEveryGet \/ HandlerEveryMod
  BY <1>4, <1>5 DEF LoopStep, HandleEvents, HandlerWriteRest, HandlerEvery,
                    HandlerEveryCheck, HandlerEveryGet, HandlerEveryMod, sending
<1>6. ASSUME NEW t \in Thread, SendMsgCopy(t) PROVE Fresh'
  <2>1. \A u \in Thread : send'[u] \in {"store", "get", "mod"} => send[u] = send'[u]
    BY <1>6 DEF SendMsgCopy, Types
  <2>2. UNCHANGED <<raced, local, events>>
    BY <1>6 DEF SendMsgCopy, history
  <2> QED BY <2>1, <2>2 DEF Fresh
<1>7. ASSUME NEW t \in Thread, InsideSendMsg(t) PROVE Fresh'
  <2> SUFFICES ASSUME ~raced' PROVE Fresh'
    BY DEF Fresh
  <2>1. send[t] # "idle" /\ ~raced
    BY <1>7 DEF InsideSendMsg, SendMsgAdvance, SendMsgLoad, SendMsgStore,
                SendMsgGet, SendMsgMod, history, Types
  <2>2. \A u \in Thread : u # t => send[u] = "idle"
    BY <2>1, Alone
  <2>3. \A u \in Thread : u # t => send'[u] = "idle"
    BY <1>7, <2>2 DEF InsideSendMsg, SendMsgAdvance, SendMsgLoad, SendMsgStore,
                SendMsgGet, SendMsgMod, Types
  <2>4. /\ send'[t] \in {"store", "mod"} => local'[t] = events'
        /\ send'[t] \in {"get", "mod"} => "OUT" \in events'
    <3>1. CASE SendMsgAdvance(t) \/ SendMsgMod(t)
      BY <3>1 DEF SendMsgAdvance, SendMsgMod, Types
    <3>2. CASE SendMsgLoad(t)
      BY <3>2 DEF SendMsgLoad, Types
    <3>3. CASE SendMsgStore(t)
      BY <3>3 DEF SendMsgStore, Types
    <3>4. CASE SendMsgGet(t)
      BY <2>1, <3>4 DEF SendMsgGet, Types, Fresh
    <3> QED BY <1>7, <3>1, <3>2, <3>3, <3>4 DEF InsideSendMsg
  <2> QED BY <2>3, <2>4 DEF Fresh
<1> QED
  BY <1>2, <1>3, <1>5, <1>6, <1>7 DEF Next, LoopStep, SendMsg

\* What is unsent stays known to epoll, or to the thread that is about to tell
\* it.
LEMMA NextOutArmed ==
    ASSUME Interest, OutArmed, [Next]_vars PROVE OutArmed'
<1> USE DEF Interest
<1>1. CASE /\ UNCHANGED <<rd, wr>>
           /\ raced => raced'
           /\ \A t \in Thread : WillArm(t) => WillArm(t)'
           /\ pc' = "wait" => /\ pc = "wait" /\ (fin => fin') /\ (gone => gone')
                              /\ "OUT" \in interest => "OUT" \in interest'
                              /\ ready => ready'
           /\ pc' = "get" => pc = "get" /\ ("OUT" \in events => "OUT" \in events')
           /\ pc' = "mod" => /\ pc = "mod"
                             /\ "OUT" \in local[Loop] => "OUT" \in local'[Loop]
  BY <1>1 DEF OutArmed
<1>2. CASE UNCHANGED vars
  <2>1. UNCHANGED <<rd, wr, raced, send, pc, fin, gone, interest, ready, events,
                    local>>
    BY <1>2 DEF vars, outbox, history, sending, kernel
  <2> QED BY <1>1, <2>1 DEF WillArm
<1>3. CASE Peer
  <2>1. /\ UNCHANGED <<rd, wr, raced, send, pc, gone, interest, events, local>>
        /\ (fin => fin') /\ (ready => ready')
    BY <1>3 DEF Peer, PeerSends, PeerCloses, Wake, outbox, history, sending, Types
  <2> QED BY <1>1, <2>1 DEF WillArm
<1>4. CASE Adder \/ (GetReadyChannels /\ ~mapped)
  <2>1. rd = wr /\ UNCHANGED <<rd, wr>>
    BY <1>4 DEF Adder, PollAdd, PollAddMap, GetReadyChannels, outbox, SetUp
  <2> QED BY <2>1 DEF OutArmed, Outbox
<1>5. CASE WaitChannels
  <2>1. /\ UNCHANGED <<rd, wr, raced, send, fin, gone, interest>>
        /\ pc = "wait" /\ pc' \in {"wait", "ready"}
        /\ "OUT" \in interest => pc' = "ready"
    BY <1>5 DEF WaitChannels, outbox, history, sending, Poll
  <2> QED BY <2>1 DEF OutArmed, WillArm
<1>6. CASE (GetReadyChannels /\ mapped) \/ HandleEvents
  <2>1. pc' \notin {"wait", "get", "mod"}
    BY <1>6 DEF GetReadyChannels, HandleEvents, FirstHandler
  <2> QED BY <2>1 DEF OutArmed
<1>7. CASE HandlerReadLen \/ HandlerReadBody \/ HandlerWriteRest
  <2>1. pc' \notin {"wait", "get", "mod"}
    BY <1>7 DEF HandlerReadLen, HandlerReadBody, HandlerWriteRest
  <2> QED BY <2>1 DEF OutArmed
<1>8. CASE HandlerWrite
  <2>1. pc' \in {"write", "rest"}
    BY <1>8 DEF HandlerWrite
  <2> QED BY <2>1 DEF OutArmed
<1>9. CASE HandlerEvery
  <2>1. pc' = "check" \/ (pc' = "wait" /\ gone')
    BY <1>9 DEF HandlerEvery
  <2> QED BY <2>1 DEF OutArmed
<1>10. CASE HandlerEveryCheck
  <2>1. /\ UNCHANGED <<rd, wr>> /\ pc' = "get" /\ events' = RearmOut(events)
    BY <1>10 DEF HandlerEveryCheck, outbox
  <2>2. rd < wr => "OUT" \in events'
    BY <2>1 DEF RearmOut, Unused, Outbox
  <2> QED BY <2>1, <2>2 DEF OutArmed
<1>11. CASE HandlerEveryGet
  <2>1. /\ UNCHANGED <<rd, wr, send>> /\ pc = "get" /\ pc' = "mod"
        /\ local'[Loop] = events /\ (raced => raced')
    BY <1>11 DEF HandlerEveryGet, outbox, sending, NoteRace, Types, Thread
  <2> QED BY <2>1 DEF OutArmed, WillArm
<1>12. CASE HandlerEveryMod
  <2>1. /\ UNCHANGED <<rd, wr, send>> /\ pc = "mod" /\ pc' = "wait"
        /\ EpollCtl(local[Loop]) /\ (raced => raced')
    BY <1>12 DEF HandlerEveryMod, outbox, sending, NoteRace
  <2>2. "OUT" \in local[Loop] => "OUT" \in interest' /\ ready'
    BY <2>1 DEF EpollCtl, Poll
  <2> QED BY <2>1, <2>2 DEF OutArmed, WillArm
<1>13. ASSUME NEW t \in Thread, SendMsgCopy(t) PROVE OutArmed'
  <2>1. /\ UNCHANGED <<rd, wr, raced, fin, gone, interest, ready, events, local>>
        /\ pc' \in {pc, "write"}
        /\ \A u \in Thread : WillArm(u) => WillArm(u)'
    <3>1. pc' \in {pc, "write"}
      BY <1>13 DEF SendMsgCopy, Return
    <3>2. \A u \in Thread : WillArm(u) => WillArm(u)'
      BY <1>13 DEF SendMsgCopy, WillArm, Types
    <3> QED BY <1>13, <3>1, <3>2 DEF SendMsgCopy, kernel, history
  <2> QED BY <1>1, <2>1
<1>14. ASSUME NEW t \in Thread,
              SendMsgAdvance(t) \/ SendMsgLoad(t) \/ SendMsgStore(t) \/ SendMsgGet(t)
       PROVE  OutArmed'
  <2>1. WillArm(t)'
    BY <1>14 DEF SendMsgAdvance, SendMsgLoad, SendMsgStore, SendMsgGet, WillArm, Types
  <2> QED BY <2>1 DEF OutArmed
<1>15. ASSUME NEW t \in Thread, SendMsgMod(t) PROVE OutArmed'
  <2> SUFFICES ASSUME ~raced' PROVE OutArmed'
    BY DEF OutArmed
  <2>1. /\ send[t] = "mod" /\ EpollCtl(local[t]) /\ UNCHANGED events
        /\ pc' \in {pc, "write"} /\ pc # "mod" /\ ~raced
    BY <1>15 DEF SendMsgMod, Return, Types
  <2>2. "OUT" \in local[t] /\ "OUT" \in events
    BY <2>1 DEF Fresh
  <2>3. "OUT" \in interest' /\ ready'
    BY <2>1, <2>2 DEF EpollCtl, Poll
  <2> QED BY <2>1, <2>2, <2>3 DEF OutArmed
<1> QED
  BY <1>2, <1>3, <1>4, <1>5, <1>6, <1>7, <1>8, <1>9, <1>10, <1>11, <1>12,
     <1>13, <1>14, <1>15
     DEF Next, LoopStep, SendMsg, InsideSendMsg
\* What is unread stays known to epoll.
LEMMA NextInArmed ==
    ASSUME Interest, InArmed, [Next]_vars PROVE InArmed'
<1> USE DEF Interest
<1> DEFINE Early == {"wait", "ready", "handle", "check", "get", "mod"}
<1>1. CASE /\ (raced => raced') /\ (gone => gone') /\ (dropped => dropped')
           /\ UNCHANGED <<adder, interest, events>>
           /\ pc' \in Early => pc = pc'
           /\ pc = "mod" => local'[Loop] = local[Loop]
           /\ ready => ready'
           /\ inbox' = inbox \/ ("IN" \in interest => ready')
  BY <1>1 DEF InArmed, Types
<1>2. CASE UNCHANGED vars
  <2>1. UNCHANGED <<raced, gone, dropped, adder, interest, events, pc, local,
                    ready, inbox>>
    BY <1>2 DEF vars, history, kernel
  <2> QED BY <1>1, <2>1
<1>3. CASE Peer
  BY <1>1, <1>3 DEF Peer, PeerSends, PeerCloses, Wake, history, Types
<1>4. CASE PollAdd
  <2>1. /\ EpollCtl(InitialEvents) /\ pc \in {"wait", "ready"}
        /\ UNCHANGED <<events, pc, raced, gone, dropped, inbox>>
    BY <1>4 DEF PollAdd, SetUp, history
  <2>2. "IN" \in interest' /\ (inbox > 0 => ready')
    BY <2>1 DEF EpollCtl, Poll, InitialEvents
  <2> QED BY <2>1, <2>2 DEF InArmed
<1>5. CASE PollAddMap
  <2>1. /\ adder = "map" /\ adder' = "done"
        /\ UNCHANGED <<raced, gone, dropped, interest, events, pc, local,
                    ready, inbox>>
    BY <1>5 DEF PollAddMap, history, kernel
  <2> QED BY <2>1 DEF InArmed
<1>6. CASE WaitChannels
  <2>1. /\ pc = "wait" /\ pc' \in {"wait", "ready"}
        /\ UNCHANGED <<raced, gone, dropped, adder, interest, events, local, inbox>>
        /\ pc' = "wait" => Poll \cap interest = {}
    BY <1>6 DEF WaitChannels, history
  <2>2. "IN" \in interest /\ inbox > 0 => Poll \cap interest # {}
    BY DEF Poll
  <2> QED BY <2>1, <2>2 DEF InArmed
<1>7. CASE GetReadyChannels
  <2>1. /\ pc = "ready" /\ pc' = (IF mapped THEN "handle" ELSE "wait")
        /\ dropped' = (dropped \/ ~mapped)
        /\ UNCHANGED <<raced, gone, adder, interest, events, local, inbox>>
    BY <1>7 DEF GetReadyChannels, kernel
  <2>2. pc' = "wait" => dropped'
    BY <2>1
  <2> QED BY <2>1, <2>2 DEF InArmed
<1>8. CASE HandleEvents
  BY <1>8 DEF HandleEvents, FirstHandler, InArmed
<1>9. CASE HandlerReadLen \/ HandlerReadBody \/ HandlerWriteRest
  <2>1. pc' \notin Early
    BY <1>9 DEF HandlerReadLen, HandlerReadBody, HandlerWriteRest
  <2> QED BY <2>1 DEF InArmed
<1>10. CASE HandlerWrite
  <2>1. pc' \notin Early
    BY <1>10 DEF HandlerWrite
  <2> QED BY <2>1 DEF InArmed
<1>11. CASE HandlerEvery
  <2>1. gone' \/ (pc' = "check" /\ "IN" \in events')
    BY <1>11 DEF HandlerEvery, RearmedEvents
  <2> QED BY <2>1 DEF InArmed
<1>12. CASE HandlerEveryCheck
  <2>1. /\ pc = "check" /\ pc' = "get" /\ events' = RearmOut(events)
        /\ UNCHANGED gone /\ (raced => raced')
    BY <1>12 DEF HandlerEveryCheck, NoteRace
  <2>2. "IN" \in events => "IN" \in events'
    BY <2>1 DEF RearmOut
  <2> QED BY <2>1, <2>2 DEF InArmed
<1>13. CASE HandlerEveryGet
  <2>1. /\ pc = "get" /\ pc' = "mod" /\ local'[Loop] = events
        /\ UNCHANGED <<gone, events>> /\ (raced => raced')
    BY <1>13 DEF HandlerEveryGet, NoteRace, Types, Thread
  <2> QED BY <2>1 DEF InArmed
<1>14. CASE HandlerEveryMod
  <2>1. /\ pc = "mod" /\ pc' = "wait" /\ EpollCtl(local[Loop])
        /\ UNCHANGED <<gone, events, inbox>> /\ (raced => raced')
    BY <1>14 DEF HandlerEveryMod, NoteRace
  <2>2. "IN" \in local[Loop] => "IN" \in interest' /\ (inbox > 0 => ready')
    BY <2>1 DEF EpollCtl, Poll
  <2> QED BY <2>1, <2>2 DEF InArmed
<1>15. ASSUME NEW t \in Thread,
              SendMsgCopy(t) \/ SendMsgAdvance(t) \/ SendMsgLoad(t)
                \/ SendMsgStore(t) \/ SendMsgGet(t)
       PROVE  InArmed'
  <2> SUFFICES ASSUME ~raced' PROVE InArmed'
    BY DEF InArmed
  <2>1. ~raced /\ UNCHANGED <<gone, dropped, adder, interest, ready, inbox>>
    BY <1>15 DEF SendMsgCopy, SendMsgAdvance, SendMsgLoad, SendMsgStore,
                 SendMsgGet, history, kernel, Types
  <2>2. pc' \in {pc, "write"}
    BY <1>15 DEF SendMsgCopy, Return, SendMsgAdvance, SendMsgLoad, SendMsgStore,
                 SendMsgGet
  <2>3. "IN" \in events => "IN" \in events'
    BY <1>15, <2>1 DEF SendMsgCopy, SendMsgAdvance, SendMsgLoad, SendMsgStore,
                       SendMsgGet, Fresh
  <2>4. pc' = "mod" => local'[Loop] = local[Loop]
    <3> SUFFICES ASSUME pc' = "mod" PROVE local'[Loop] = local[Loop]
      OBVIOUS
    <3>1. pc = "mod" /\ send[Loop] = "idle"
      BY <2>2 DEF SetUp
    <3>2. t = Loop => local' = local
      BY <1>15, <3>1 DEF SendMsgCopy, SendMsgAdvance, SendMsgLoad, SendMsgStore,
                         SendMsgGet
    <3>3. t # Loop => local'[Loop] = local[Loop]
      BY <1>15 DEF SendMsgCopy, SendMsgAdvance, SendMsgLoad, SendMsgStore,
                   SendMsgGet, Types, Thread
    <3> QED BY <3>2, <3>3
  <2> QED BY <2>1, <2>2, <2>3, <2>4 DEF InArmed
<1>16. ASSUME NEW t \in Thread, SendMsgMod(t) PROVE InArmed'
  <2> SUFFICES ASSUME ~raced' PROVE InArmed'
    BY DEF InArmed
  <2>1. /\ send[t] = "mod" /\ EpollCtl(local[t])
        /\ UNCHANGED <<events, gone, dropped, adder, inbox>>
        /\ pc' \in {pc, "write"} /\ pc # "mod" /\ ~raced
    BY <1>16 DEF SendMsgMod, Return, Types
  <2>2. local[t] = events
    BY <2>1 DEF Fresh
  <2>3. "IN" \in events => "IN" \in interest'
    BY <2>1, <2>2 DEF EpollCtl
  <2>4. ready => ready'
    BY <2>1 DEF EpollCtl
  <2> QED BY <2>1, <2>3, <2>4 DEF InArmed
<1> QED
  BY <1>2, <1>3, <1>4, <1>5, <1>6, <1>7, <1>8, <1>9, <1>10, <1>11, <1>12,
     <1>13, <1>14, <1>15, <1>16
     DEF Next, Adder, LoopStep, SendMsg, InsideSendMsg
-----------------------------------------------------------------------------
(* The theorems *)

LEMMA IInvInductive == Spec => []IInv
<1>1. IInv /\ [Next]_vars => IInv'
  BY NextTypes, NextOrder, NextSetUp, NextFlags, NextFresh, NextOutArmed,
     NextInArmed
     DEF IInv, Order, Interest
<1> QED
  BY <1>1, InitIInv, PTL DEF Spec

\* Every variable keeps its type, and the outgoing buffer never holds more than
\* it has room for, although WriteToBuffer measures it before it moves the
\* write index and HandlerWrite moves the read index meanwhile.
THEOREM TypeCorrect == Spec => []TypeOK
<1>1. IInv => TypeOK
  <2> SUFFICES ASSUME IInv PROVE TypeOK
    OBVIOUS
  <2>1. Unused \in 0 .. Capacity
    BY DEF IInv, Outbox, Unused
  <2>2. inbox \in 0 .. 2 * MaxIn
    BY DEF IInv, Types
  <2> QED BY <2>1, <2>2 DEF IInv, Types, Outbox, TypeOK
<1> QED
  BY <1>1, IInvInductive, PTL

\* For any number of threads in SendMsg: what WriteToBuffer took is on the wire
\* or in the buffer, once and in order, while HandlerWrite drains the buffer
\* without mutex_.
THEOREM MessagesInOrder == Spec => []InOrder
<1>1. IInv => InOrder
  BY DEF IInv
<1> QED
  BY <1>1, IInvInductive, PTL

\* HandlerEvery calls close_handler_ only when the peer has closed and nothing
\* it sent is left unread, whatever closed_ and in_buffer_empty_ were in raw
\* memory: only a true in_buffer_empty_ leaves something unread, and only the
\* two of them together close the connection of a living peer.
THEOREM ClosedAfterReading == Spec => []CloseAfterDrainedUnlessRaw
<1>1. IInv => CloseAfterDrainedUnlessRaw
  BY DEF IInv, Types, Flags, CloseAfterDrainedUnlessRaw
<1> QED
  BY <1>1, IInvInductive, PTL

\* SendMsg and HandlerEvery leave EPOLLOUT armed for what is queued, unless
\* they met between GetEvents and epoll_ctl: that window is the only way to
\* lose the wakeup.
THEOREM UnsentIsKnown == Spec => []UnsentArmedUnlessRaced
<1>1. IInv => UnsentArmedUnlessRaced
  <2> SUFFICES ASSUME IInv, ~raced, Quiet, Queued # <<>>, ~fin, ~gone
               PROVE  "OUT" \in interest /\ ready
    BY DEF UnsentArmedUnlessRaced, UnsentIsArmed
  <2>1. rd < wr
    <3>1. CASE rd = wr
      <4>1. Queued = <<>>
        BY <3>1, SubSeqEmpty DEF Queued, IInv, Outbox
      <4> QED BY <4>1
    <3> QED BY <3>1 DEF IInv, Outbox
  <2>2. \A t \in Thread : ~WillArm(t)
    BY DEF Quiet, WillArm
  <2> QED BY <2>1, <2>2 DEF IInv, OutArmed, Quiet
<1> QED
  BY <1>1, IInvInductive, PTL

\* HandlerRead takes one message of an edge-triggered socket; PollMod puts the
\* socket back on the ready list when there are more.
THEOREM UnreadIsKnown == Spec => []UnreadArmedUnlessRaced
<1>1. IInv => UnreadArmedUnlessRaced
  BY DEF UnreadArmedUnlessRaced, IInv, InArmed, Quiet
<1> QED
  BY <1>1, IInvInductive, PTL
=============================================================================
