---------------------------- MODULE ThreadQueue ----------------------------
(***************************************************************************)
(* The bounded packet/frame queue that connects two scheduler tasks        *)
(* (FFmpegKit/src/thread_queue.c).  One mutex and one condition variable   *)
(* protect the queue, so each critical section is one action; a thread     *)
(* blocked in pthread_cond_wait is a member of `waiting' until the next    *)
(* pthread_cond_broadcast (or a spurious wake-up) removes it.              *)
(*                                                                         *)
(* The callers are those of ffmpeg_sched.c: every sender feeds one stream; *)
(* the owners of a stream end with tq_send_finish, the other senders       *)
(* (subtitle heartbeats, filter commands) only send; one task receives;    *)
(* the scheduler chokes the queue, and unchokes it for good when it stops. *)
(***************************************************************************)
EXTENDS Integers, Sequences

CONSTANTS
    NbStreams,      \* nb_streams of tq_alloc
    QueueSize,      \* queue_size of tq_alloc
    Senders,        \* the threads that call tq_send
    Owners,         \* the senders that call tq_send_finish when they end
    StreamOf,       \* the stream each sender feeds
    Receiver,       \* the thread that calls tq_receive
    MaxSends,       \* bound on the packets one sender offers
    MaxChokes       \* bound on the changes of mind of the scheduler

Streams == 0 .. NbStreams - 1

ASSUME SizesAssumption ==
    /\ NbStreams \in Nat \ {0}
    /\ QueueSize \in Nat \ {0}
    /\ MaxSends \in Nat
    /\ MaxChokes \in Nat

ASSUME ThreadsAssumption ==
    /\ StreamOf \in [Senders -> Streams]
    /\ Owners \subseteq Senders
    /\ Receiver \notin Senders

Threads == Senders \cup {Receiver}

\* The bits of ThreadQueue.finished[].
FINISHED_SEND == "FINISHED_SEND"
FINISHED_RECV == "FINISHED_RECV"

VARIABLES
    choked,         \* ThreadQueue.choked
    finished,       \* ThreadQueue.finished, a set of bits for each stream
    fifo,           \* ThreadQueue.fifo together with fifo_stream_index
    waiting,        \* the threads blocked in pthread_cond_wait(&tq->cond)
    op,             \* what every thread is doing
    offered,        \* packets each sender has called tq_send with
    accepted,       \* packets of each stream that tq_send has stored
    delivered,      \* number of the last packet tq_receive returned for it
    eofs,           \* how often tq_receive returned the stream's EOF
    chokes          \* changes of mind left to the scheduler; 0 once it stopped

queue   == <<choked, finished, fifo>>
history == <<accepted, delivered, eofs>>
vars    == <<queue, waiting, op, offered, history, chokes>>

\* A stored packet: its stream and its number among the stream's packets.
Packets == [stream : Streams, n : Nat]

\* "run": outside the queue; "call": inside tq_send or tq_receive; "eof" and
\* "failed": an owner whose tq_send returned AVERROR_EOF or AVERROR(EINVAL) and
\* which has only tq_send_finish left to call; "done": the thread is gone.
Ops == {"run", "call", "eof", "failed", "done"}

\* Mutant of AfterSend: the caller forgets that its destination is finished.
AfterSendForgetful(p, outcome) ==
    IF p \in Owners /\ outcome # "eof" THEN outcome ELSE "run"

\* The owner of a stream stops at the first error of tq_send; the other
\* senders (sch_mux_sub_heartbeat) ignore its result and carry on.
AfterSend(p, outcome) == IF p \in Owners THEN outcome ELSE "run"

TypeOK ==
    /\ choked \in BOOLEAN
    /\ finished \in [Streams -> SUBSET {FINISHED_SEND, FINISHED_RECV}]
    /\ fifo \in Seq(Packets)
    /\ waiting \subseteq Threads
    /\ op \in [Threads -> Ops]
    /\ offered \in [Senders -> Nat]
    /\ accepted \in [Streams -> Nat]
    /\ delivered \in [Streams -> Nat]
    /\ eofs \in [Streams -> Nat]
    /\ chokes \in Nat

----------------------------------------------------------------------------
\* tq_alloc: an empty queue.  The scheduler chokes nothing before sch_start.
Init ==
    /\ choked = FALSE
    /\ finished = [s \in Streams |-> {}]
    /\ fifo = <<>>
    /\ waiting = {}
    /\ op = [t \in Threads |-> "run"]
    /\ offered = [p \in Senders |-> 0]
    /\ accepted = [s \in Streams |-> 0]
    /\ delivered = [s \in Streams |-> 0]
    /\ eofs = [s \in Streams |-> 0]
    /\ chokes = MaxChokes

CanWrite == Len(fifo) < QueueSize
SendDone(s) == FINISHED_SEND \in finished[s]
RecvDone(s) == FINISHED_RECV \in finished[s]

----------------------------------------------------------------------------
(* tq_send.  The FINISHED_SEND test is made once, before the wait loop.    *)

\* The thread finds no room and the stream open: it waits for the condition.
SendBlock(p) ==
    /\ ~RecvDone(StreamOf[p])
    /\ ~CanWrite
    /\ waiting' = waiting \cup {p}
    /\ op' = [op EXCEPT ![p] = "call"]
    /\ UNCHANGED <<queue, history>>

\* The consumer closed the stream: AVERROR_EOF, and the sender is finished too.
SendEof(p) ==
    /\ RecvDone(StreamOf[p])
    /\ finished' = [finished EXCEPT ![StreamOf[p]] = @ \cup {FINISHED_SEND}]
    /\ op' = [op EXCEPT ![p] = AfterSend(p, "eof")]
    /\ UNCHANGED <<choked, fifo, waiting, history>>

\* Mutant of SendWrite: the stream index is stored one too high.
SendWriteOffByOne(p) ==
    LET s == StreamOf[p] IN
    /\ ~RecvDone(s)
    /\ CanWrite
    /\ accepted' = [accepted EXCEPT ![s] = @ + 1]
    /\ fifo' = Append(fifo, [stream |-> s + 1, n |-> accepted[s] + 1])
    /\ waiting' = {}
    /\ op' = [op EXCEPT ![p] = "run"]
    /\ UNCHANGED <<choked, finished, delivered, eofs>>

\* The packet is stored and every waiting thread is woken.
SendWrite(p) ==
    LET s == StreamOf[p] IN
    /\ ~RecvDone(s)
    /\ CanWrite
    /\ accepted' = [accepted EXCEPT ![s] = @ + 1]
    /\ fifo' = Append(fifo, [stream |-> s, n |-> accepted[s] + 1])
    /\ waiting' = {}
    /\ op' = [op EXCEPT ![p] = "run"]
    /\ UNCHANGED <<choked, finished, delivered, eofs>>

SendLoop(p) == SendBlock(p) \/ SendEof(p) \/ SendWrite(p)

\* A first tq_send on a stream already send-finished is refused (EINVAL).
SendRefuse(p) ==
    /\ SendDone(StreamOf[p])
    /\ op' = [op EXCEPT ![p] = AfterSend(p, "failed")]
    /\ UNCHANGED <<queue, waiting, history>>

TqSend(p) ==
    /\ op[p] = "run"
    /\ offered[p] < MaxSends
    /\ offered' = [offered EXCEPT ![p] = @ + 1]
    /\ \/ SendRefuse(p)
       \/ ~SendDone(StreamOf[p]) /\ SendLoop(p)
    /\ UNCHANGED chokes

\* A woken sender re-tests the loop condition, but not FINISHED_SEND.
TqSendResume(p) ==
    /\ op[p] = "call"
    /\ p \notin waiting
    /\ SendLoop(p)
    /\ UNCHANGED <<offered, chokes>>

\* Mutant of TqSendFinish: the flag is set and nobody is told.
TqSendFinishSilent(p) ==
    /\ p \in Owners
    /\ op[p] \in {"run", "eof", "failed"}
    /\ finished' = [finished EXCEPT ![StreamOf[p]] = @ \cup {FINISHED_SEND}]
    /\ op' = [op EXCEPT ![p] = "done"]
    /\ UNCHANGED <<choked, fifo, waiting, offered, history, chokes>>

\* tq_send_finish: always unchokes the queue and wakes everybody.
TqSendFinish(p) ==
    /\ p \in Owners
    /\ op[p] \in {"run", "eof", "failed"}
    /\ finished' = [finished EXCEPT ![StreamOf[p]] = @ \cup {FINISHED_SEND}]
    /\ choked' = FALSE
    /\ waiting' = {}
    /\ op' = [op EXCEPT ![p] = "done"]
    /\ UNCHANGED <<fifo, offered, history, chokes>>

\* A sender that owns no stream simply stops sending.
SenderLeave(p) ==
    /\ p \in Senders \ Owners
    /\ op[p] = "run"
    /\ op' = [op EXCEPT ![p] = "done"]
    /\ UNCHANGED <<queue, waiting, offered, history, chokes>>

----------------------------------------------------------------------------
(* receive_locked and tq_receive.                                          *)

Live(i) == i \in 1 .. Len(fifo) /\ ~RecvDone(fifo[i].stream)
NoneLive == \A i \in 1 .. Len(fifo) : ~Live(i)

HalfFinished(s) == SendDone(s) /\ ~RecvDone(s)

\* Packets of recv-finished streams are unreferenced on the way to the first
\* packet of an open stream, which is returned.
ReceivePacket ==
    \E i \in 1 .. Len(fifo) :
        LET pkt == fifo[i] IN
        /\ Live(i)
        /\ \A j \in 1 .. i - 1 : ~Live(j)
        /\ fifo' = SubSeq(fifo, i + 1, Len(fifo))
        /\ delivered' = [delivered EXCEPT ![pkt.stream] = pkt.n]
        /\ waiting' = {}
        /\ op' = [op EXCEPT ![Receiver] = "run"]
        /\ UNCHANGED <<finished, accepted, eofs>>

\* tq_receive broadcasts when receive_locked has taken anything from the fifo.
WokenByDrain == IF fifo = <<>> THEN waiting ELSE {}

\* Mutant of ReceiveEof: the EOF is looked for before the packets.
ReceiveEofEarly ==
    /\ \E s \in Streams :
        /\ HalfFinished(s)
        /\ finished' = [finished EXCEPT ![s] = @ \cup {FINISHED_RECV}]
        /\ eofs' = [eofs EXCEPT ![s] = @ + 1]
    /\ op' = [op EXCEPT ![Receiver] = "run"]
    /\ UNCHANGED <<fifo, waiting, accepted, delivered>>

\* With no packet left, the first half-finished stream gives its only EOF.
ReceiveEof ==
    /\ NoneLive
    /\ \E s \in Streams :
        /\ HalfFinished(s)
        /\ \A r \in Streams : r < s => ~HalfFinished(r)
        /\ finished' = [finished EXCEPT ![s] = @ \cup {FINISHED_RECV}]
        /\ eofs' = [eofs EXCEPT ![s] = @ + 1]
    /\ fifo' = <<>>
    /\ waiting' = WokenByDrain
    /\ op' = [op EXCEPT ![Receiver] = "run"]
    /\ UNCHANGED <<accepted, delivered>>

\* Every stream is recv-finished: EOF without a stream, and the task ends.
ReceiveEnd ==
    /\ NoneLive
    /\ \A s \in Streams : RecvDone(s)
    /\ fifo' = <<>>
    /\ waiting' = WokenByDrain
    /\ op' = [op EXCEPT ![Receiver] = "done"]
    /\ UNCHANGED <<finished, history>>

\* receive_locked answers EAGAIN because there is nothing to return yet.
NothingYet ==
    /\ NoneLive
    /\ \A s \in Streams : ~HalfFinished(s)
    /\ \E s \in Streams : ~RecvDone(s)

\* The wait of a blocking tq_receive; with THREAD_QUEUE_FLAG_NO_BLOCK the
\* EAGAIN is the caller's answer instead.
ReceiveAgain(noBlock) ==
    /\ \/ choked /\ UNCHANGED <<fifo, waiting>>
       \/ ~choked /\ NothingYet /\ fifo' = <<>> /\ waiting' = WokenByDrain
    /\ op' = [op EXCEPT ![Receiver] = "run"]
    /\ noBlock
    /\ UNCHANGED <<finished, history>>

ReceiveWait ==
    /\ \/ choked /\ fifo' = fifo /\ waiting' = waiting \cup {Receiver}
       \/ ~choked /\ NothingYet /\ fifo' = <<>>
                  /\ waiting' = WokenByDrain \cup {Receiver}
    /\ op' = [op EXCEPT ![Receiver] = "call"]
    /\ UNCHANGED <<finished, history>>

ReceiveReturns == ~choked /\ (ReceivePacket \/ ReceiveEof \/ ReceiveEnd)

TqReceive(noBlock) ==
    /\ op[Receiver] = "run"
    /\ \/ ReceiveReturns
       \/ ReceiveAgain(noBlock)
       \/ ~noBlock /\ ReceiveWait
    /\ UNCHANGED <<choked, offered, chokes>>

TqReceiveResume ==
    /\ op[Receiver] = "call"
    /\ Receiver \notin waiting
    /\ ReceiveReturns \/ ReceiveWait
    /\ UNCHANGED <<choked, offered, chokes>>

\* tq_receive_finish: the receiver closes one stream.
TqReceiveFinish(s) ==
    /\ op[Receiver] = "run"
    /\ ~RecvDone(s)
    /\ finished' = [finished EXCEPT ![s] = @ \cup {FINISHED_RECV}]
    /\ waiting' = {}
    /\ UNCHANGED <<choked, fifo, op, offered, history, chokes>>

\* A receiver that closed every stream leaves without draining the queue.
ReceiverLeave ==
    /\ op[Receiver] = "run"
    /\ \A s \in Streams : RecvDone(s)
    /\ op' = [op EXCEPT ![Receiver] = "done"]
    /\ UNCHANGED <<queue, waiting, offered, history, chokes>>

----------------------------------------------------------------------------
\* Mutant of TqChoke: unchoking wakes nobody.
TqChokeSilent(c) ==
    /\ choked' = c
    /\ UNCHANGED <<finished, fifo, waiting, op, offered, history>>

\* tq_choke: the broadcast is sent only when the value changes.
TqChoke(c) ==
    /\ choked' = c
    /\ waiting' = IF c # choked THEN {} ELSE waiting
    /\ UNCHANGED <<finished, fifo, op, offered, history>>

\* schedule_update_locked changes its mind through choke_demux.
Schedule ==
    /\ chokes > 1
    /\ chokes' = chokes - 1
    /\ TqChoke(~choked)

\* sch_stop unfreezes the queue to allow draining; nobody chokes it again.
Unfreeze ==
    /\ chokes > 0
    /\ chokes' = 0
    /\ TqChoke(FALSE)

\* POSIX lets pthread_cond_wait return without a broadcast.
SpuriousWakeup(t) ==
    /\ t \in waiting
    /\ waiting' = waiting \ {t}
    /\ UNCHANGED <<queue, op, offered, history, chokes>>

Terminated ==
    /\ \A t \in Threads : op[t] = "done"
    /\ UNCHANGED vars

Next ==
    \/ \E p \in Senders : TqSend(p) \/ TqSendResume(p) \/ TqSendFinish(p)
                          \/ SenderLeave(p)
    \/ \E noBlock \in BOOLEAN : TqReceive(noBlock)
    \/ TqReceiveResume
    \/ \E s \in Streams : TqReceiveFinish(s)
    \/ ReceiverLeave
    \/ Schedule \/ Unfreeze
    \/ \E t \in Threads : SpuriousWakeup(t)
    \/ Terminated

Spec == Init /\ [][Next]_vars

\* Every task thread keeps running, and sch_stop unfreezes the queue in the
\* end.  Nothing is assumed of the wake-ups but what the broadcasts give.
Fairness ==
    /\ \A p \in Senders :
          /\ WF_vars(TqSend(p)) /\ WF_vars(TqSendResume(p))
          /\ WF_vars(TqSendFinish(p)) /\ WF_vars(SenderLeave(p))
    /\ WF_vars(TqReceive(FALSE)) /\ WF_vars(TqReceiveResume)
    /\ WF_vars(Unfreeze)

FairSpec == Spec /\ Fairness

----------------------------------------------------------------------------
(* Properties.                                                             *)

\* No wake-up is lost: a thread sleeps in pthread_cond_wait only while the
\* call it made cannot return, whatever the other threads did meanwhile.
NoLostWakeup ==
    /\ \A p \in waiting \cap Senders : ~RecvDone(StreamOf[p]) /\ ~CanWrite
    /\ Receiver \in waiting => choked \/ (fifo = <<>> /\ NothingYet)

\* The packets of an open stream are queued once each, in order and without a
\* gap between the last one received and the last one accepted.
QueueIsContiguous ==
    \A s \in Streams : ~RecvDone(s) =>
        /\ \A n \in delivered[s] + 1 .. accepted[s] :
              \E i \in 1 .. Len(fifo) : fifo[i] = [stream |-> s, n |-> n]
        /\ \A i \in 1 .. Len(fifo) : fifo[i].stream = s =>
              fifo[i].n \in delivered[s] + 1 .. accepted[s]
        /\ \A i, j \in 1 .. Len(fifo) :
              i < j /\ fifo[i].stream = s /\ fifo[j].stream = s
                => fifo[i].n < fifo[j].n

\* The receiver is told EOF at most once for each stream (thread_queue.h), and
\* only when it has received every packet tq_send accepted for it, even one
\* accepted after the stream was marked send-finished.
EofOnceAfterLastPacket ==
    \A s \in Streams :
        /\ eofs[s] <= 1
        /\ eofs[s] = 1 => delivered[s] = accepted[s] /\ RecvDone(s)

\* Whatever senders, receiver and scheduler do, packets of a stream come out
\* in the order they went in, none skipped and none twice.
InOrder ==
    [][\A s \in Streams : delivered'[s] # delivered[s]
          => delivered'[s] = delivered[s] + 1]_vars

\* tq_receive_finish: "next time the producer thread tries to send for this
\* stream, it will get an EOF": an owner that has its stream to itself is told
\* EOF and never refused with EINVAL.  Another sender of the stream would take
\* the EOF first.
Alone(p) == \A q \in Senders : StreamOf[q] = StreamOf[p] => q = p
OwnerNeverRefused == \A p \in Owners : Alone(p) => op[p] # "failed"

\* Every task comes to its end: no sender is left waiting for room and the
\* receiver is not left waiting for a packet or an EOF.
Termination == <>(\A t \in Threads : op[t] = "done")

----------------------------------------------------------------------------
\* The queue implements the abstract channel of PacketChannel.
Phase == [s \in Streams |-> IF eofs[s] > 0 THEN "ended"
                            ELSE IF RecvDone(s) THEN "closed" ELSE "open"]

Channel == INSTANCE PacketChannel WITH
    sent <- accepted, got <- delivered, phase <- Phase,
    over <- {s \in Streams : SendDone(s)}

\* Every behaviour of the queue is one of the channel: nothing is taken or
\* handed over after the end, which comes once and behind the last packet.
ImplementsChannel == Channel!Spec
=============================================================================
