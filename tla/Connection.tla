----------------------------- MODULE Connection -----------------------------
(***************************************************************************)
(* One CtlConnect on an event loop: the epoll registration, the Channel,   *)
(* the loop thread that runs its handlers, and other threads that call     *)
(* SendMsg on it.                                                          *)
(*                                                                         *)
(* The loop thread calls WaitChannels, getReadyChannels and, for the       *)
(* channel it was given, HandleEvents, which runs the read handler, the    *)
(* write handler and the handler that re-arms the registration.  Every     *)
(* handler shares events_, the outgoing buffer and the epoll registration  *)
(* with the threads inside SendMsg; mutex_ is taken by SendMsg only.  A    *)
(* step is what a thread does up to its next access to one of the three.   *)
(*                                                                         *)
(* A message of the peer arrives in two parts, its length and its body.    *)
(* The socket can always be written and the peer ends the connection with  *)
(* FIN, never with RST: a failing write is the subject of RingBuffer.      *)
(***************************************************************************)
EXTENDS Naturals, Sequences

CONSTANTS
    Sender,      \* the other threads that call SendMsg
    Loop,        \* the loop thread, which calls it too, from its handlers
    None,        \* no thread
    Capacity,    \* messages the outgoing buffer holds
    MaxSend,     \* bound: calls of SendMsg of one thread
    MaxIn,       \* bound: messages of the peer
    AddedByLoop  \* PollAdd is called on the loop thread

ASSUME ConstantsAssumption ==
    /\ Loop \notin Sender
    /\ None \notin Sender \cup {Loop}
    /\ Capacity \in Nat \ {0}
    /\ MaxSend \in Nat
    /\ MaxIn \in Nat
    /\ AddedByLoop \in BOOLEAN

Thread == Sender \cup {Loop}
Event == {"IN", "OUT", "RDHUP", "ET"}

\* What the constructor of CtlConnect and of ProxyConnect asks for.
InitialEvents == {"ET", "IN", "OUT", "RDHUP"}

\* The i-th message of thread t.
Message == Thread \X (1 .. MaxSend)

LoopPc == {"wait", "ready", "handle", "read", "body", "reply", "write",
           "rest", "every", "check", "get", "mod"}
SendPc == {"idle", "advance", "load", "store", "get", "mod"}

VARIABLES
    adder,     \* AddConnect: "add", then "map", then "done"
    interest,  \* the events epoll watches the fd for (external)
    ready,     \* the fd is on epoll's ready list (external)
    inbox,     \* parts the peer has sent that are not read (external)
    sentIn,    \* parts the peer has sent, to bound them
    fin,       \* the peer has closed its end (external)
    mapped,    \* fd_channel_[fd] holds the channel
    pc,        \* where the loop thread is
    report,    \* what epoll_wait returned for the fd: revents_
    events,    \* events_
    local,     \* local[t]: the copy of events_ thread t is about to use, or {}
    closed,    \* closed_
    eof,       \* in_buffer_empty_
    mutex,     \* mutex_: the thread inside SendMsg
    send,      \* send[t]: where thread t is in SendMsg
    calls,     \* calls[t]: how often t has called SendMsg
    data,      \* what was stored in the buffer, from its first use on
    rd,        \* read_index_, as a position in data
    wr,        \* write_index_, as a position in data
    start,     \* start[t]: the position WriteToBuffer of t began at, or 0
    wire,      \* the messages written to the socket (external)
    accepted,  \* the messages WriteToBuffer took, in order (history)
    gone,      \* the close handler has run
    raced,     \* the loop thread and SendMsg met half way (history)
    dropped,   \* getReadyChannels dropped an event (history)
    raw        \* which of closed_ and in_buffer_empty_, which nothing
               \* initialises, were true in raw memory (history)

kernel == <<interest, ready, inbox, sentIn, fin>>
outbox == <<data, rd, wr, start, wire, accepted>>
sending == <<mutex, send, calls>>
history == <<raced, dropped, raw>>
vars == <<adder, kernel, mapped, pc, report, events, local, closed, eof,
          sending, outbox, gone, history>>

\* What getunused() counts.
Queued == SubSeq(data, rd + 1, wr)
Unused == wr - rd

TypeOK ==
    /\ adder \in {"add", "map", "done"}
    /\ interest \in SUBSET Event
    /\ ready \in BOOLEAN
    /\ inbox \in 0 .. 2 * MaxIn
    /\ sentIn \in 0 .. 2 * MaxIn
    /\ fin \in BOOLEAN
    /\ mapped \in BOOLEAN
    /\ pc \in LoopPc
    /\ report \in SUBSET Event
    /\ events \in SUBSET Event
    /\ local \in [Thread -> SUBSET Event]
    /\ closed \in BOOLEAN
    /\ eof \in BOOLEAN
    /\ mutex \in Thread \cup {None}
    /\ send \in [Thread -> SendPc]
    /\ calls \in [Thread -> 0 .. MaxSend]
    /\ data \in Seq(Message)
    /\ rd \in Nat
    /\ wr \in Nat
    /\ Unused \in 0 .. Capacity
    /\ start \in [Thread -> Nat]
    /\ wire \in Seq(Message)
    /\ accepted \in Seq(Message)
    /\ gone \in BOOLEAN
    /\ raced \in BOOLEAN
    /\ dropped \in BOOLEAN
    /\ raw \in SUBSET {"closed", "eof"}

-----------------------------------------------------------------------------
(* epoll, as the code uses it: the fd is put on the ready list when an event *)
(* it is watched for happens, and when ADD or MOD finds one; epoll_wait      *)
(* takes it off and reports it, and leaves it on if ET is not asked for.     *)

Poll ==
         (IF inbox > 0 \/ fin THEN {"IN"} ELSE {})
    \cup {"OUT"}
    \cup (IF fin THEN {"RDHUP"} ELSE {})

\* epoll_ctl ADD or MOD with events ev.
EpollCtl(ev) ==
    /\ interest' = ev
    /\ ready' = (ready \/ Poll \cap ev # {})

\* The socket has something new to read.
Wake == ready' = (ready \/ "IN" \in interest)

-----------------------------------------------------------------------------
(* Mistakes: wrong versions of operators below.  Each breaks a property that *)
(* the right version satisfies; the specification uses none of them.         *)

\* SendMsg does not wait for mutex_.
MutexFreeAlways == TRUE

\* HandleEvents calls the read handler whatever the event is, writes when the
\* peer has closed instead of when it has not, or knows EPOLLHUP only.
FirstHandlerReads(ev) == "read"
MayWriteIfClosed == "OUT" \in report /\ closed
HangupIgnored(ev) == FALSE

\* HandlerEvery closes as soon as the peer has closed, forgets EPOLLIN or
\* does not look at the buffer.
FinishedOnHangup == closed
RearmedWithoutIn == {"ET", "RDHUP"}
RearmOutNever(ev) == ev

-----------------------------------------------------------------------------
\* A sender has read events_ and has yet to pass it to epoll.
Arming == \E t \in Sender : send[t] \in {"store", "get", "mod"}

\* Noted by every step of the loop thread that changes events_ or epoll.
NoteRace == raced' = (raced \/ Arming)

Init ==
    /\ adder = IF AddedByLoop THEN "done" ELSE "add"
    /\ interest = IF AddedByLoop THEN InitialEvents ELSE {}
    /\ ready = AddedByLoop
    /\ inbox = 0
    /\ sentIn = 0
    /\ fin = FALSE
    /\ mapped = AddedByLoop
    /\ pc = "wait"
    /\ report = {}
    /\ events = InitialEvents
    /\ local = [t \in Thread |-> {}]
    /\ raw \in SUBSET {"closed", "eof"}
    /\ closed = ("closed" \in raw)
    /\ eof = ("eof" \in raw)
    /\ mutex = None
    /\ send = [t \in Thread |-> "idle"]
    /\ calls = [t \in Thread |-> 0]
    /\ data = <<>>
    /\ rd = 0
    /\ wr = 0
    /\ start = [t \in Thread |-> 0]
    /\ wire = <<>>
    /\ accepted = <<>>
    /\ gone = FALSE
    /\ raced = FALSE
    /\ dropped = FALSE

-----------------------------------------------------------------------------
(* The peer *)

PeerSends ==
    /\ ~fin /\ sentIn < 2 * MaxIn
    /\ inbox' = inbox + 1
    /\ sentIn' = sentIn + 1
    /\ Wake
    /\ UNCHANGED <<adder, interest, fin, mapped, pc, report, events, local,
                   closed, eof, sending, outbox, gone, history>>

\* The peer may go in the middle of a message.
PeerCloses ==
    /\ ~fin
    /\ fin' = TRUE
    /\ Wake
    /\ UNCHANGED <<adder, interest, inbox, sentIn, mapped, pc, report, events,
                   local, closed, eof, sending, outbox, gone, history>>

-----------------------------------------------------------------------------
(* ThreadEventLoop::AddConnect on another thread: Epoll::PollAdd *)

\* epoll_ctl comes first, and the loop thread may be waiting in epoll_wait.
PollAdd ==
    /\ adder = "add"
    /\ adder' = "map"
    /\ EpollCtl(events)
    /\ UNCHANGED <<inbox, sentIn, fin, mapped, pc, report, events, local,
                   closed, eof, sending, outbox, gone, history>>

PollAddMap ==
    /\ adder = "map"
    /\ adder' = "done"
    /\ mapped' = TRUE
    /\ UNCHANGED <<kernel, pc, report, events, local, closed, eof, sending,
                   outbox, gone, history>>

-----------------------------------------------------------------------------
(* The loop thread: EventLoop::Loop *)

\* epoll_wait.  An entry of the ready list that has nothing to report is
\* taken off it.
WaitChannels ==
    /\ pc = "wait" /\ ready
    /\ LET ev == Poll \cap interest IN
         /\ ready' = (ev # {} /\ "ET" \notin interest)
         /\ report' = ev
         /\ pc' = IF ev = {} THEN "wait" ELSE "ready"
    /\ UNCHANGED <<adder, interest, inbox, sentIn, fin, mapped, events, local,
                   closed, eof, sending, outbox, gone, history>>

\* An event for an fd that fd_channel_ does not know is dropped.
GetReadyChannels ==
    /\ pc = "ready"
    /\ pc' = IF mapped THEN "handle" ELSE "wait"
    /\ dropped' = (dropped \/ ~mapped)
    /\ UNCHANGED <<adder, kernel, mapped, report, events, local, closed, eof,
                   sending, outbox, gone, raced, raw>>

\* Which handler of HandleEvents runs first.
FirstHandler(ev) == IF "IN" \in ev THEN "read" ELSE "write"

\* The peer has closed its end.
Hangup(ev) == "RDHUP" \in ev

HandleEvents ==
    /\ pc = "handle"
    /\ events' = {}
    /\ closed' = (closed \/ Hangup(report))
    /\ pc' = FirstHandler(report)
    /\ NoteRace
    /\ UNCHANGED <<adder, kernel, mapped, report, local, eof, sending, outbox,
                   gone, dropped, raw>>

\* readn: spins until there is something to read.
Readn == inbox > 0 \/ fin

\* HandlerRead, the length; at the end of the stream it returns.
HandlerReadLen ==
    /\ pc = "read" /\ Readn
    /\ IF inbox > 0
       THEN inbox' = inbox - 1 /\ pc' = "body" /\ UNCHANGED eof
       ELSE eof' = TRUE /\ pc' = "write" /\ UNCHANGED inbox
    /\ UNCHANGED <<adder, interest, ready, sentIn, fin, mapped, report, events,
                   local, closed, sending, outbox, gone, history>>

\* HandlerRead, the body and the handler of the message, which may answer.
HandlerReadBody ==
    /\ pc = "body" /\ Readn
    /\ IF inbox > 0
       THEN /\ inbox' = inbox - 1
            /\ \/ pc' = "write"
               \/ pc' = "reply" /\ calls[Loop] < MaxSend
            /\ UNCHANGED eof
       ELSE eof' = TRUE /\ pc' = "write" /\ UNCHANGED inbox
    /\ UNCHANGED <<adder, interest, ready, sentIn, fin, mapped, report, events,
                   local, closed, sending, outbox, gone, history>>

\* HandleEvents calls the write handler.
MayWrite == "OUT" \in report /\ ~closed

\* HandlerWrite and Buffer::WriteToSocket, which goes on until the buffer is
\* empty; SendMsg may fill it meanwhile.
HandlerWrite ==
    /\ pc = "write"
    /\ IF MayWrite /\ Unused > 0
       THEN wire' = wire \o Queued /\ rd' = wr /\ UNCHANGED pc
       ELSE pc' = "rest" /\ UNCHANGED <<wire, rd>>
    /\ UNCHANGED <<adder, kernel, mapped, report, events, local, closed, eof,
                   sending, data, wr, start, accepted, gone, history>>

\* The last lines of HandlerWrite.
HandlerWriteRest ==
    /\ pc = "rest"
    /\ pc' = "every"
    /\ report' = {}
    /\ events' = IF MayWrite /\ Unused > 0 THEN events \cup {"OUT"} ELSE events
    /\ NoteRace
    /\ UNCHANGED <<adder, kernel, mapped, local, closed, eof, sending,
                   outbox, gone, dropped, raw>>

\* Nothing more will come from the peer and everything has been read.
Finished == eof /\ closed

\* What HandlerEvery asks epoll for.
RearmedEvents == {"ET", "IN", "RDHUP"}

\* HandlerEvery: the close handler, after which nothing is re-armed, or
\* SetEvents.
HandlerEvery ==
    /\ pc = "every"
    /\ IF Finished
       THEN gone' = TRUE /\ pc' = "wait" /\ UNCHANGED events
       ELSE events' = RearmedEvents /\ pc' = "check" /\ UNCHANGED gone
    /\ NoteRace
    /\ UNCHANGED <<adder, kernel, mapped, report, local, closed, eof, sending,
                   outbox, dropped, raw>>

\* Something is left to send.
RearmOut(ev) == IF Unused > 0 THEN ev \cup {"OUT"} ELSE ev

HandlerEveryCheck ==
    /\ pc = "check"
    /\ pc' = "get"
    /\ events' = RearmOut(events)
    /\ NoteRace
    /\ UNCHANGED <<adder, kernel, mapped, report, local, closed, eof, sending,
                   outbox, gone, dropped, raw>>

\* Epoll::PollMod of the loop thread: GetEvents ...
HandlerEveryGet ==
    /\ pc = "get"
    /\ pc' = "mod"
    /\ local' = [local EXCEPT ![Loop] = events]
    /\ NoteRace
    /\ UNCHANGED <<adder, kernel, mapped, report, events, closed, eof, sending,
                   outbox, gone, dropped, raw>>

\* ... and epoll_ctl.
HandlerEveryMod ==
    /\ pc = "mod"
    /\ pc' = "wait"
    /\ EpollCtl(local[Loop])
    /\ local' = [local EXCEPT ![Loop] = {}]
    /\ NoteRace
    /\ UNCHANGED <<adder, inbox, sentIn, fin, mapped, report, events, closed,
                   eof, sending, outbox, gone, dropped, raw>>

-----------------------------------------------------------------------------
(* SendMsg, on any thread.  Other threads call it once the connection is set *)
(* up, the loop thread from a handler.                                       *)

MutexFree == mutex = None

\* Buffer::MustInsert does not throw.
HasRoom == Unused < Capacity

MayCall(t) == IF t = Loop THEN pc = "reply" ELSE mapped

\* Where the loop thread goes when its SendMsg returns.
Return(t) == pc' = IF t = Loop THEN "write" ELSE pc

\* WriteToBuffer: the message is copied behind the write index, or refused,
\* in which case SendMsg returns.
SendMsgCopy(t) ==
    /\ send[t] = "idle" /\ MayCall(t) /\ MutexFree
    /\ calls[t] < MaxSend
    /\ calls' = [calls EXCEPT ![t] = @ + 1]
    /\ IF HasRoom
       THEN /\ data' = Append(SubSeq(data, 1, wr), <<t, calls[t] + 1>>)
            /\ start' = [start EXCEPT ![t] = wr]
            /\ mutex' = t
            /\ send' = [send EXCEPT ![t] = "advance"]
            /\ UNCHANGED pc
       ELSE Return(t) /\ UNCHANGED <<data, start, mutex, send>>
    /\ UNCHANGED <<adder, kernel, mapped, report, events, local, closed, eof,
                   rd, wr, wire, accepted, gone, history>>

\* WriteToBuffer: the write index moves.
SendMsgAdvance(t) ==
    /\ send[t] = "advance"
    /\ send' = [send EXCEPT ![t] = "load"]
    /\ wr' = start[t] + 1
    /\ start' = [start EXCEPT ![t] = 0]
    /\ accepted' = Append(accepted, <<t, calls[t]>>)
    /\ UNCHANGED <<adder, kernel, mapped, pc, report, events, local, closed,
                   eof, mutex, calls, data, rd, wire, gone, history>>

\* Addevents(EPOLLOUT): events_ is read ...
SendMsgLoad(t) ==
    /\ send[t] = "load"
    /\ send' = [send EXCEPT ![t] = "store"]
    /\ local' = [local EXCEPT ![t] = events]
    /\ UNCHANGED <<adder, kernel, mapped, pc, report, events, closed, eof,
                   mutex, calls, outbox, gone, history>>

\* ... and written.
SendMsgStore(t) ==
    /\ send[t] = "store"
    /\ send' = [send EXCEPT ![t] = "get"]
    /\ events' = local[t] \cup {"OUT"}
    /\ local' = [local EXCEPT ![t] = {}]
    /\ UNCHANGED <<adder, kernel, mapped, pc, report, closed, eof, mutex,
                   calls, outbox, gone, history>>

\* PollMod: GetEvents ...
SendMsgGet(t) ==
    /\ send[t] = "get"
    /\ send' = [send EXCEPT ![t] = "mod"]
    /\ local' = [local EXCEPT ![t] = events]
    /\ UNCHANGED <<adder, kernel, mapped, pc, report, events, closed, eof,
                   mutex, calls, outbox, gone, history>>

\* ... and epoll_ctl; SendMsg returns and the lock is released.
SendMsgMod(t) ==
    /\ send[t] = "mod"
    /\ send' = [send EXCEPT ![t] = "idle"]
    /\ EpollCtl(local[t])
    /\ mutex' = None
    /\ Return(t)
    /\ raced' = (raced \/ pc = "mod")
    /\ local' = [local EXCEPT ![t] = {}]
    /\ UNCHANGED <<adder, inbox, sentIn, fin, mapped, report, events, closed,
                   eof, calls, outbox, gone, dropped, raw>>

-----------------------------------------------------------------------------
Peer == PeerSends \/ PeerCloses

Adder == PollAdd \/ PollAddMap

LoopStep ==
    \/ WaitChannels \/ GetReadyChannels \/ HandleEvents
    \/ HandlerReadLen \/ HandlerReadBody
    \/ HandlerWrite \/ HandlerWriteRest
    \/ HandlerEvery \/ HandlerEveryCheck \/ HandlerEveryGet \/ HandlerEveryMod

InsideSendMsg(t) ==
    \/ SendMsgAdvance(t) \/ SendMsgLoad(t) \/ SendMsgStore(t)
    \/ SendMsgGet(t) \/ SendMsgMod(t)

SendMsg(t) == SendMsgCopy(t) \/ InsideSendMsg(t)

Next == Peer \/ Adder \/ LoopStep \/ \E t \in Thread : SendMsg(t)

Spec == Init /\ [][Next]_vars

\* Threads inside a function go on, the loop thread handles what epoll
\* reports, and the peer, which sends messages whole, finishes the one it has
\* begun.  A thread waiting for mutex_ may be overtaken; it gets it in the end.
Fairness ==
    /\ WF_vars(Adder)
    /\ WF_vars(LoopStep)
    /\ \A t \in Thread : WF_vars(InsideSendMsg(t))
    /\ SF_vars(SendMsgCopy(Loop))
    /\ WF_vars(sentIn % 2 = 1 /\ Peer)

FairSpec == Spec /\ Fairness

-----------------------------------------------------------------------------
(* Properties *)

\* Every message that WriteToBuffer took is on the wire or in the buffer, once
\* and in the order of the calls, whatever threads called SendMsg and whenever
\* HandlerWrite, which does not take mutex_, drained the buffer.
InOrder == wire \o Queued = accepted

\* close_handler_ runs only after the peer has closed and everything it sent
\* has been read: a hangup that is reported while messages are waiting does
\* not lose them.  A true in_buffer_empty_ in raw memory lets it run at the
\* hangup, with messages unread; together with a true closed_ it runs after the
\* first event of a living peer.
CloseAfterDrainedUnlessRaw ==
    gone => /\ fin \/ raw = {"closed", "eof"}
            /\ inbox = 0 \/ "eof" \in raw

\* No thread is inside SendMsg or inside a handler.
Quiet == pc = "wait" /\ \A t \in Thread : send[t] = "idle"

\* When every thread has finished and a message is left in the buffer of a
\* connection that neither end has closed, epoll watches for EPOLLOUT and has
\* the connection on its ready list.
UnsentIsArmed ==
    Quiet /\ Queued # <<>> /\ ~fin /\ ~gone => "OUT" \in interest /\ ready

\* That holds as long as the loop thread never touched events_ or epoll while
\* another thread was between Addevents and epoll_ctl, and no other thread
\* called epoll_ctl while the loop thread was about to.
UnsentArmedUnlessRaced == ~raced => UnsentIsArmed

\* The same for reading: what has arrived and is not read is on epoll's ready
\* list until close_handler_ runs, although HandlerRead takes one message from
\* an edge-triggered fd.
UnreadArmedUnlessRaced ==
    Quiet /\ adder = "done" /\ inbox > 0 /\ ~gone /\ ~raced /\ ~dropped
      => "IN" \in interest /\ ready

\* The loop thread always gets back to epoll_wait: it never spins in readn
\* for a message that is not coming, nor waits for mutex_ for ever.
LoopReturns == []<>(pc = "wait")

\* A queued message is sent, unless the peer has closed or the race above has
\* happened.  A closed_ that was true in raw memory keeps HandleEvents from
\* ever calling HandlerWrite.
QueuedIsSent ==
    (Queued # <<>>) ~> (Queued = <<>> \/ fin \/ raced \/ "closed" \in raw)

\* When the peer has closed, close_handler_ runs and everything the peer sent
\* has been read by then, unless an event was lost; what a true
\* in_buffer_empty_ in raw memory leaves unread is excepted.
CloseIsHandled ==
    fin ~> \/ gone /\ (inbox = 0 \/ "eof" \in raw)
           \/ raced \/ dropped
=============================================================================
