------------------------- MODULE ThreadQueueProofs -------------------------
(***************************************************************************)
(* Machine-checked properties of ThreadQueue for every number of streams,  *)
(* queue size, set of senders and bound.                                   *)
(***************************************************************************)
EXTENDS ThreadQueue, SequenceTheorems, TLAPS

\* A step seen from the queue: the bodies that the entry and the resumption
\* of tq_send and of tq_receive share, and the other operations.
SenderStep(p) ==
    SendBlock(p) \/ SendEof(p) \/ SendWrite(p) \/ SendRefuse(p)
      \/ TqSendFinish(p) \/ SenderLeave(p)

ReceiverStep ==
    /\ choked' = choked
    /\ \/ ~choked /\ (ReceivePacket \/ ReceiveEof \/ ReceiveEnd)
       \/ ReceiveAgain(TRUE)
       \/ ReceiveWait

OtherStep ==
    \/ \E s \in Streams : TqReceiveFinish(s)
    \/ ReceiverLeave
    \/ \E c \in BOOLEAN : TqChoke(c)
    \/ \E t \in Threads : SpuriousWakeup(t)
    \/ UNCHANGED vars

\* Every step is one of these (the split used by the proofs below).
LEMMA StepCases ==
    ASSUME Next
    PROVE  (\E p \in Senders : SenderStep(p)) \/ ReceiverStep \/ OtherStep
BY DEF Next, TqSend, TqSendResume, SendLoop, TqReceive, TqReceiveResume,
       ReceiveAgain, ReceiveReturns, Schedule, Unfreeze, Terminated,
       SenderStep, ReceiverStep, OtherStep

----------------------------------------------------------------------------
(* Type correctness.                                                       *)

\* The counters of the senders and of the scheduler, which no other part of
\* the invariant depends on.
LEMMA CountersTyped ==
    ASSUME TypeOK, Next
    PROVE  offered' \in [Senders -> Nat] /\ chokes' \in Nat
<1> USE DEF TypeOK, vars
<1>1. ASSUME NEW p \in Senders,
             TqSend(p) \/ TqSendResume(p) \/ TqSendFinish(p) \/ SenderLeave(p)
      PROVE  offered' \in [Senders -> Nat] /\ chokes' = chokes
  <2>1. CASE TqSend(p)
    BY <2>1 DEF TqSend
  <2>2. CASE TqSendResume(p) \/ TqSendFinish(p) \/ SenderLeave(p)
    BY <2>2 DEF TqSendResume, TqSendFinish, SenderLeave
  <2> QED
    BY <1>1, <2>1, <2>2
<1>2. CASE Schedule \/ Unfreeze
  <2>1. CASE Schedule
    <3>1. offered' = offered /\ chokes > 1 /\ chokes' = chokes - 1
      BY <2>1, Zenon DEF Schedule, TqChoke
    <3> QED
      BY <3>1
  <2>2. CASE Unfreeze
    <3>1. offered' = offered /\ chokes' = 0
      BY <2>2, Zenon DEF Unfreeze, TqChoke
    <3> QED
      BY <3>1
  <2> QED
    BY <1>2, <2>1, <2>2
<1>3. ASSUME \/ \E noBlock \in BOOLEAN : TqReceive(noBlock)
             \/ TqReceiveResume \/ ReceiverLeave \/ Terminated
             \/ \E s \in Streams : TqReceiveFinish(s)
             \/ \E t \in Threads : SpuriousWakeup(t)
      PROVE  offered' = offered /\ chokes' = chokes
  BY <1>3 DEF TqReceive, TqReceiveResume, TqReceiveFinish, ReceiverLeave,
              SpuriousWakeup, Terminated
<1> QED
  BY <1>1, <1>2, <1>3 DEF Next

\* One step keeps every variable in its type.
LEMMA TypeOKStep ==
    ASSUME TypeOK, [Next]_vars
    PROVE  TypeOK'
<1> USE SizesAssumption, ThreadsAssumption
      DEF TypeOK, queue, history, Ops, FINISHED_SEND, FINISHED_RECV
<1>1. CASE UNCHANGED vars
  BY <1>1 DEF vars
<1>2. CASE Next
  <2>0. offered' \in [Senders -> Nat] /\ chokes' \in Nat
    BY <1>2, CountersTyped
  <2>1. ASSUME NEW p \in Senders, SenderStep(p)
        PROVE  TypeOK'
    <3> p \in Threads /\ StreamOf[p] \in Streams
      BY DEF Threads
    <3>1. CASE SendBlock(p)
      BY <2>0, <3>1 DEF SendBlock
    <3>2. CASE SendEof(p)
      BY <2>0, <3>2 DEF SendEof, AfterSend
    <3>3. CASE SendWrite(p)
      <4>1. [stream |-> StreamOf[p], n |-> accepted[StreamOf[p]] + 1]
              \in Packets
        BY DEF Packets
      <4>2. fifo' \in Seq(Packets)
        BY <3>3, <4>1, AppendProperties DEF SendWrite
      <4> QED
        BY <2>0, <3>3, <4>2 DEF SendWrite
    <3>4. CASE SendRefuse(p)
      BY <2>0, <3>4 DEF SendRefuse, AfterSend
    <3>5. CASE TqSendFinish(p)
      BY <2>0, <3>5 DEF TqSendFinish
    <3>6. CASE SenderLeave(p)
      BY <2>0, <3>6 DEF SenderLeave
    <3> QED
      BY <2>1, <3>1, <3>2, <3>3, <3>4, <3>5, <3>6 DEF SenderStep
  <2>2. ASSUME ReceiverStep
        PROVE  TypeOK'
    <3> Receiver \in Threads /\ <<>> \in Seq(Packets)
      BY DEF Threads
    <3>1. CASE ReceivePacket
      <4>1. PICK i \in 1 .. Len(fifo) :
              /\ fifo' = SubSeq(fifo, i + 1, Len(fifo))
              /\ delivered' = [delivered EXCEPT ![fifo[i].stream] = fifo[i].n]
              /\ waiting' = {}
              /\ op' = [op EXCEPT ![Receiver] = "run"]
              /\ UNCHANGED <<finished, accepted, eofs>>
        BY <3>1 DEF ReceivePacket
      <4>2. fifo[i].n \in Nat
        <5>1. fifo[i] \in Packets
          BY <4>1, ElementOfSeq
        <5> QED
          BY <5>1 DEF Packets
      <4>3. fifo' \in Seq(Packets)
        BY <4>1, SubSeqProperties, ElementOfSeq
      <4> QED
        BY <2>0, <2>2, <4>1, <4>2, <4>3 DEF ReceiverStep
    <3>2. CASE ReceiveEof
      BY <2>0, <2>2, <3>2 DEF ReceiverStep, ReceiveEof, WokenByDrain
    <3>3. CASE ReceiveEnd
      BY <2>0, <2>2, <3>3 DEF ReceiverStep, ReceiveEnd, WokenByDrain
    <3>4. CASE ReceiveAgain(TRUE)
      BY <2>0, <2>2, <3>4 DEF ReceiverStep, ReceiveAgain, WokenByDrain
    <3>5. CASE ReceiveWait
      BY <2>0, <2>2, <3>5 DEF ReceiverStep, ReceiveWait, WokenByDrain
    <3> QED
      BY <2>2, <3>1, <3>2, <3>3, <3>4, <3>5 DEF ReceiverStep
  <2>3. ASSUME OtherStep
        PROVE  TypeOK'
    <3>1. ASSUME NEW s \in Streams, TqReceiveFinish(s)
          PROVE  TypeOK'
      BY <2>0, <3>1 DEF TqReceiveFinish
    <3>2. CASE ReceiverLeave
      BY <2>0, <3>2 DEF ReceiverLeave, Threads
    <3>3. ASSUME NEW c \in BOOLEAN, TqChoke(c)
          PROVE  TypeOK'
      <4>1. choked' \in BOOLEAN /\ waiting' \subseteq Threads
        BY <3>3, Zenon DEF TqChoke
      <4>2. UNCHANGED <<finished, fifo, op, history>>
        BY <3>3, Zenon DEF TqChoke
      <4> QED
        BY <2>0, <4>1, <4>2
    <3>4. ASSUME NEW t \in Threads, SpuriousWakeup(t)
          PROVE  TypeOK'
      BY <2>0, <3>4 DEF SpuriousWakeup
    <3> QED
      BY <1>1, <2>3, <3>1, <3>2, <3>3, <3>4 DEF OtherStep
  <2> QED
    BY <1>2, <2>1, <2>2, <2>3, StepCases
<1> QED
  BY <1>1, <1>2

\* Type correctness of the queue, whatever its callers do.
THEOREM TypeCorrect == Spec => []TypeOK
<1>1. Init => TypeOK
  <2> SUFFICES ASSUME Init
               PROVE  TypeOK
    OBVIOUS
  <2>1. choked \in BOOLEAN
    BY Zenon DEF Init
  <2>2. /\ finished \in [Streams -> SUBSET {FINISHED_SEND, FINISHED_RECV}]
        /\ fifo \in Seq(Packets)
        /\ waiting \subseteq Threads
        /\ op \in [Threads -> Ops]
    BY DEF Init, Ops
  <2>3. /\ offered \in [Senders -> Nat]
        /\ accepted \in [Streams -> Nat]
        /\ delivered \in [Streams -> Nat]
        /\ eofs \in [Streams -> Nat]
        /\ chokes \in Nat
    BY SizesAssumption DEF Init
  <2> QED
    BY <2>1, <2>2, <2>3 DEF TypeOK
<1> QED
  BY <1>1, TypeOKStep, PTL DEF Spec

----------------------------------------------------------------------------
(* No lost wake-up.                                                        *)

\* A step of any thread leaves no thread asleep whose call could return.
LEMMA WakeupStep ==
    ASSUME TypeOK, NoLostWakeup, [Next]_vars
    PROVE  NoLostWakeup'
<1> USE SizesAssumption, ThreadsAssumption
      DEF TypeOK, NoLostWakeup, NothingYet, NoneLive, Live, HalfFinished,
          SendDone, RecvDone, CanWrite, queue, history, FINISHED_SEND,
          FINISHED_RECV
<1>1. CASE UNCHANGED vars
  BY <1>1 DEF vars
<1>2. CASE Next
  <2>1. ASSUME NEW p \in Senders, SenderStep(p)
        PROVE  NoLostWakeup'
    <3> StreamOf[p] \in Streams
      OBVIOUS
    <3>1. CASE SendBlock(p)
      BY <3>1 DEF SendBlock
    <3>2. CASE SendEof(p)
      BY <3>2 DEF SendEof
    <3>3. CASE SendWrite(p)
      BY <3>3 DEF SendWrite
    <3>4. CASE SendRefuse(p)
      BY <3>4 DEF SendRefuse
    <3>5. CASE TqSendFinish(p)
      BY <3>5 DEF TqSendFinish
    <3>6. CASE SenderLeave(p)
      BY <3>6 DEF SenderLeave
    <3> QED
      BY <2>1, <3>1, <3>2, <3>3, <3>4, <3>5, <3>6 DEF SenderStep
  <2>2. ASSUME ReceiverStep
        PROVE  NoLostWakeup'
    <3>0. fifo = <<>> => waiting \cap Senders = {}
      OBVIOUS
    <3>1. CASE ReceivePacket
      BY <2>2, <3>1 DEF ReceiverStep, ReceivePacket
    <3>2. CASE ~choked /\ ReceiveEof
      BY <2>2, <3>0, <3>2 DEF ReceiverStep, ReceiveEof, WokenByDrain
    <3>3. CASE ~choked /\ ReceiveEnd
      BY <2>2, <3>0, <3>3 DEF ReceiverStep, ReceiveEnd, WokenByDrain
    <3>4. CASE ReceiveAgain(TRUE)
      BY <2>2, <3>0, <3>4 DEF ReceiverStep, ReceiveAgain, WokenByDrain
    <3>5. CASE ReceiveWait
      BY <2>2, <3>0, <3>5 DEF ReceiverStep, ReceiveWait, WokenByDrain
    <3> QED
      BY <2>2, <3>1, <3>2, <3>3, <3>4, <3>5 DEF ReceiverStep
  <2>3. ASSUME OtherStep
        PROVE  NoLostWakeup'
    <3>1. ASSUME NEW s \in Streams, TqReceiveFinish(s)
          PROVE  NoLostWakeup'
      BY <3>1 DEF TqReceiveFinish
    <3>2. CASE ReceiverLeave
      BY <3>2 DEF ReceiverLeave
    <3>3. ASSUME NEW c \in BOOLEAN, TqChoke(c)
          PROVE  NoLostWakeup'
      <4>1. waiting' = {} \/ (waiting' = waiting /\ (choked' = choked))
        BY <3>3, Zenon DEF TqChoke
      <4>2. UNCHANGED <<finished, fifo>>
        BY <3>3, Zenon DEF TqChoke
      <4> QED
        BY <4>1, <4>2
    <3>4. ASSUME NEW t \in Threads, SpuriousWakeup(t)
          PROVE  NoLostWakeup'
      BY <3>4 DEF SpuriousWakeup
    <3> QED
      BY <1>1, <2>3, <3>1, <3>2, <3>3, <3>4 DEF OtherStep
  <2> QED
    BY <1>2, <2>1, <2>2, <2>3, StepCases
<1> QED
  BY <1>1, <1>2

\* No wake-up is ever lost: a thread sleeps on the condition variable only
\* while the tq_send or tq_receive it called cannot return.
THEOREM WakeupSafety == Spec => []NoLostWakeup
<1>1. Init => NoLostWakeup
  BY DEF Init, NoLostWakeup
<1> QED
  BY <1>1, TypeCorrect, WakeupStep, PTL DEF Spec

----------------------------------------------------------------------------
(* Delivery: nothing lost, nothing reordered, one EOF behind the last      *)
(* packet.  The inductive invariant adds to the checked properties that no *)
(* stream is ahead of what was accepted for it.                            *)

DeliveryInv ==
    /\ QueueIsContiguous
    /\ EofOnceAfterLastPacket
    /\ \A s \in Streams : delivered[s] <= accepted[s]

\* The packet tq_receive returns is the next one of its stream, and what stays
\* queued is what stood behind it.
LEMMA NextPacket ==
    ASSUME TypeOK, DeliveryInv, NEW i \in 1 .. Len(fifo), Live(i),
           \A j \in 1 .. i - 1 : ~Live(j)
    PROVE  /\ fifo[i] \in Packets
           /\ fifo[i].n = delivered[fifo[i].stream] + 1
           /\ fifo[i].n <= accepted[fifo[i].stream]
<1> DEFINE s == fifo[i].stream
<1>1. fifo[i] \in Packets
  BY ElementOfSeq DEF TypeOK
<1>2. s \in Streams /\ fifo[i].n \in Nat /\ ~RecvDone(s)
  BY <1>1 DEF Packets, Live
<1>3. fifo[i].n \in delivered[s] + 1 .. accepted[s]
  BY <1>2 DEF DeliveryInv, QueueIsContiguous
<1>4. delivered[s] + 1 \in delivered[s] + 1 .. accepted[s]
  BY <1>2, <1>3 DEF TypeOK
<1>5. PICK k \in 1 .. Len(fifo) :
        fifo[k] = [stream |-> s, n |-> delivered[s] + 1]
  BY <1>2, <1>4 DEF DeliveryInv, QueueIsContiguous
<1>6. ~(k < i)
  <2>1. Live(k)
    BY <1>2, <1>5 DEF Live
  <2> QED
    BY <2>1, <1>5
<1>7. ~(i < k)
  <2> SUFFICES ASSUME i < k
               PROVE  FALSE
    OBVIOUS
  <2>1. fifo[i].n < fifo[k].n
    BY <1>2, <1>5 DEF DeliveryInv, QueueIsContiguous
  <2> QED
    BY <1>2, <1>3, <1>5, <2>1 DEF TypeOK
<1> QED
  BY <1>1, <1>2, <1>3, <1>5, <1>6, <1>7

\* A step that leaves the fifo, the counters and the EOFs alone, and reopens no
\* stream, keeps the invariant.
LEMMA DeliveryFrame ==
    ASSUME TypeOK, DeliveryInv, UNCHANGED <<fifo, history>>,
           \A s \in Streams : RecvDone(s) => RecvDone(s)'
    PROVE  DeliveryInv'
BY DEF DeliveryInv, QueueIsContiguous, EofOnceAfterLastPacket, history

\* Emptying the fifo of packets nobody will read keeps the invariant.
LEMMA DeliveryDrain ==
    ASSUME TypeOK, DeliveryInv, NoneLive, fifo' = <<>>,
           UNCHANGED <<finished, history>>
    PROVE  DeliveryInv'
<1>1. ASSUME NEW s \in Streams, ~RecvDone(s),
             NEW n \in delivered[s] + 1 .. accepted[s]
      PROVE  FALSE
  <2>1. PICK i \in 1 .. Len(fifo) : fifo[i] = [stream |-> s, n |-> n]
    BY <1>1 DEF DeliveryInv, QueueIsContiguous
  <2> QED
    BY <1>1, <2>1 DEF NoneLive, Live
<1> QED
  BY <1>1 DEF DeliveryInv, QueueIsContiguous, EofOnceAfterLastPacket, history,
              RecvDone

\* One step keeps the delivery invariant.
LEMMA DeliveryStep ==
    ASSUME TypeOK, DeliveryInv, [Next]_vars
    PROVE  DeliveryInv'
<1> USE DEF queue, history
<1>1. CASE UNCHANGED vars
  BY <1>1, DeliveryFrame DEF vars, RecvDone
<1>2. CASE Next
  <2>1. ASSUME NEW p \in Senders, SenderStep(p)
        PROVE  DeliveryInv'
    <3>0. StreamOf[p] \in Streams
      BY ThreadsAssumption
    <3>1. CASE SendBlock(p)
      BY <3>1, DeliveryFrame DEF SendBlock, RecvDone
    <3>2. CASE SendEof(p)
      BY <3>0, <3>2, DeliveryFrame DEF SendEof, RecvDone, TypeOK
    <3>3. CASE SendWrite(p)
      <4> DEFINE s == StreamOf[p]
                 pkt == [stream |-> s, n |-> accepted[s] + 1]
      <4>1. /\ ~RecvDone(s) /\ fifo' = Append(fifo, pkt)
            /\ accepted' = [accepted EXCEPT ![s] = @ + 1]
            /\ UNCHANGED <<finished, delivered, eofs>>
        BY <3>3 DEF SendWrite
      <4>2. pkt \in Packets /\ fifo \in Seq(Packets)
        BY <3>0 DEF Packets, TypeOK
      <4>3. /\ Len(fifo') = Len(fifo) + 1
            /\ \A i \in 1 .. Len(fifo) : fifo'[i] = fifo[i]
            /\ fifo'[Len(fifo) + 1] = pkt
            /\ Len(fifo) \in Nat
        BY <4>1, <4>2, AppendProperties, LenProperties
      <4>4. ASSUME NEW r \in Streams, ~RecvDone(r)
            PROVE  /\ \A n \in delivered[r] + 1 .. accepted'[r] :
                         \E i \in 1 .. Len(fifo') :
                            fifo'[i] = [stream |-> r, n |-> n]
                   /\ \A i \in 1 .. Len(fifo') : fifo'[i].stream = r =>
                         fifo'[i].n \in delivered[r] + 1 .. accepted'[r]
                   /\ \A i, j \in 1 .. Len(fifo') :
                         i < j /\ fifo'[i].stream = r /\ fifo'[j].stream = r
                           => fifo'[i].n < fifo'[j].n
        <5>1. /\ delivered[r] \in Nat /\ accepted[r] \in Nat
              /\ delivered[r] <= accepted[r]
              /\ accepted'[r] = IF r = s THEN accepted[r] + 1 ELSE accepted[r]
          BY <4>1 DEF TypeOK, DeliveryInv
        <5>2. /\ \A n \in delivered[r] + 1 .. accepted[r] :
                    \E i \in 1 .. Len(fifo) : fifo[i] = [stream |-> r, n |-> n]
              /\ \A i \in 1 .. Len(fifo) : fifo[i].stream = r =>
                    fifo[i].n \in delivered[r] + 1 .. accepted[r]
              /\ \A i, j \in 1 .. Len(fifo) :
                    i < j /\ fifo[i].stream = r /\ fifo[j].stream = r
                      => fifo[i].n < fifo[j].n
          BY <4>4 DEF DeliveryInv, QueueIsContiguous
        <5>3. ASSUME NEW n \in delivered[r] + 1 .. accepted'[r]
              PROVE  \E i \in 1 .. Len(fifo') :
                        fifo'[i] = [stream |-> r, n |-> n]
          <6>1. CASE n \in delivered[r] + 1 .. accepted[r]
            BY <4>3, <5>2, <6>1
          <6>2. CASE r = s /\ n = accepted[r] + 1
            BY <4>3, <6>2
          <6> QED
            BY <5>1, <6>1, <6>2
        <5>4. ASSUME NEW i \in 1 .. Len(fifo'), fifo'[i].stream = r
              PROVE  fifo'[i].n \in delivered[r] + 1 .. accepted'[r]
          BY <4>3, <5>1, <5>2, <5>4
        <5>5. ASSUME NEW i \in 1 .. Len(fifo'), NEW j \in 1 .. Len(fifo'),
                     i < j, fifo'[i].stream = r, fifo'[j].stream = r
              PROVE  fifo'[i].n < fifo'[j].n
          <6>1. i \in 1 .. Len(fifo) /\ fifo'[i] = fifo[i]
            BY <4>3, <5>5
          <6>2. CASE j \in 1 .. Len(fifo)
            BY <4>3, <5>2, <5>5, <6>1, <6>2
          <6>3. CASE j = Len(fifo) + 1
            BY <4>3, <5>1, <5>2, <5>5, <6>1, <6>3
          <6> QED
            BY <4>3, <6>2, <6>3
        <5> QED
          BY <5>3, <5>4, <5>5
      <4>5. QueueIsContiguous'
        BY <4>1, <4>4 DEF QueueIsContiguous, RecvDone
      <4>6. EofOnceAfterLastPacket'
        BY <3>0, <4>1 DEF DeliveryInv, EofOnceAfterLastPacket, RecvDone, TypeOK
      <4> QED
        BY <3>0, <4>1, <4>5, <4>6 DEF DeliveryInv, TypeOK
    <3>4. CASE SendRefuse(p)
      BY <3>4, DeliveryFrame DEF SendRefuse, RecvDone
    <3>5. CASE TqSendFinish(p)
      BY <3>0, <3>5, DeliveryFrame DEF TqSendFinish, RecvDone, TypeOK
    <3>6. CASE SenderLeave(p)
      BY <3>6, DeliveryFrame DEF SenderLeave, RecvDone
    <3> QED
      BY <2>1, <3>1, <3>2, <3>3, <3>4, <3>5, <3>6 DEF SenderStep
  <2>2. ASSUME ReceiverStep
        PROVE  DeliveryInv'
    <3>1. CASE ReceivePacket
      <4>1. PICK i \in 1 .. Len(fifo) :
              /\ Live(i) /\ \A j \in 1 .. i - 1 : ~Live(j)
              /\ fifo' = SubSeq(fifo, i + 1, Len(fifo))
              /\ delivered' = [delivered EXCEPT ![fifo[i].stream] = fifo[i].n]
              /\ UNCHANGED <<finished, accepted, eofs>>
        BY <3>1 DEF ReceivePacket
      <4> DEFINE s == fifo[i].stream
      <4>2. /\ fifo[i] \in Packets /\ fifo[i].n = delivered[s] + 1
            /\ fifo[i].n <= accepted[s]
        BY <4>1, NextPacket
      <4>3. s \in Streams /\ ~RecvDone(s)
        BY <4>1, <4>2 DEF Packets, Live
      <4>4. fifo \in Seq(Packets) /\ Len(fifo) \in Nat
        BY LenProperties DEF TypeOK
      <4>5. /\ Len(fifo') = Len(fifo) - i
            /\ \A k \in 1 .. Len(fifo') : fifo'[k] = fifo[i + k]
        BY <4>1, <4>4, SubSeqProperties, ElementOfSeq
      <4>6. ASSUME NEW r \in Streams, ~RecvDone(r)
            PROVE  /\ \A n \in delivered'[r] + 1 .. accepted[r] :
                         \E k \in 1 .. Len(fifo') :
                            fifo'[k] = [stream |-> r, n |-> n]
                   /\ \A k \in 1 .. Len(fifo') : fifo'[k].stream = r =>
                         fifo'[k].n \in delivered'[r] + 1 .. accepted[r]
                   /\ \A k, l \in 1 .. Len(fifo') :
                         k < l /\ fifo'[k].stream = r /\ fifo'[l].stream = r
                           => fifo'[k].n < fifo'[l].n
        <5>1. /\ delivered[r] \in Nat /\ accepted[r] \in Nat
              /\ delivered'[r] = IF r = s THEN delivered[r] + 1 ELSE delivered[r]
          BY <4>1, <4>2, <4>3 DEF TypeOK
        <5>2. /\ \A n \in delivered[r] + 1 .. accepted[r] :
                    \E k \in 1 .. Len(fifo) : fifo[k] = [stream |-> r, n |-> n]
              /\ \A k \in 1 .. Len(fifo) : fifo[k].stream = r =>
                    fifo[k].n \in delivered[r] + 1 .. accepted[r]
              /\ \A k, l \in 1 .. Len(fifo) :
                    k < l /\ fifo[k].stream = r /\ fifo[l].stream = r
                      => fifo[k].n < fifo[l].n
          BY <4>6 DEF DeliveryInv, QueueIsContiguous
        <5>3. ASSUME NEW n \in delivered'[r] + 1 .. accepted[r]
              PROVE  \E k \in 1 .. Len(fifo') :
                        fifo'[k] = [stream |-> r, n |-> n]
          <6>1. PICK k \in 1 .. Len(fifo) : fifo[k] = [stream |-> r, n |-> n]
            BY <5>1, <5>2
          <6>2. ~(k < i)
            BY <4>1, <4>6, <6>1 DEF Live
          <6>3. k # i
            BY <4>2, <5>1, <6>1
          <6>4. k - i \in 1 .. Len(fifo') /\ fifo'[k - i] = fifo[k]
            BY <4>4, <4>5, <6>1, <6>2, <6>3
          <6> QED
            BY <6>1, <6>4
        <5>4. ASSUME NEW k \in 1 .. Len(fifo'), fifo'[k].stream = r
              PROVE  fifo'[k].n \in delivered'[r] + 1 .. accepted[r]
          <6>1. i + k \in 1 .. Len(fifo) /\ fifo'[k] = fifo[i + k] /\ i < i + k
            BY <4>4, <4>5
          <6>2. fifo[i + k].n \in delivered[r] + 1 .. accepted[r]
            BY <5>2, <5>4, <6>1
          <6>3. r = s => fifo[i].n < fifo[i + k].n
            BY <5>2, <5>4, <6>1
          <6> QED
            BY <4>2, <5>1, <6>1, <6>2, <6>3
        <5>5. ASSUME NEW k \in 1 .. Len(fifo'), NEW l \in 1 .. Len(fifo'),
                     k < l, fifo'[k].stream = r, fifo'[l].stream = r
              PROVE  fifo'[k].n < fifo'[l].n
          <6>1. /\ i + k \in 1 .. Len(fifo) /\ fifo'[k] = fifo[i + k]
                /\ i + l \in 1 .. Len(fifo) /\ fifo'[l] = fifo[i + l]
                /\ i + k < i + l
            BY <4>4, <4>5, <5>5
          <6> QED
            BY <5>2, <5>5, <6>1
        <5> QED
          BY <5>3, <5>4, <5>5
      <4>7. QueueIsContiguous'
        BY <4>1, <4>6 DEF QueueIsContiguous, RecvDone
      <4>8. EofOnceAfterLastPacket'
        BY <4>1, <4>3 DEF DeliveryInv, EofOnceAfterLastPacket, RecvDone, TypeOK
      <4> QED
        BY <4>1, <4>2, <4>3, <4>7, <4>8 DEF DeliveryInv, TypeOK
    <3>2. CASE ReceiveEof
      <4>1. PICK s \in Streams :
              /\ HalfFinished(s)
              /\ finished' = [finished EXCEPT ![s] = @ \cup {FINISHED_RECV}]
              /\ eofs' = [eofs EXCEPT ![s] = @ + 1]
        BY <3>2 DEF ReceiveEof
      <4>2. NoneLive /\ fifo' = <<>> /\ UNCHANGED <<accepted, delivered>>
        BY <3>2 DEF ReceiveEof
      <4>3. \A r \in Streams : ~RecvDone(r) => delivered[r] = accepted[r]
        <5> SUFFICES ASSUME NEW r \in Streams, ~RecvDone(r),
                            delivered[r] # accepted[r]
                     PROVE  FALSE
          OBVIOUS
        <5>1. accepted[r] \in delivered[r] + 1 .. accepted[r]
          BY DEF DeliveryInv, TypeOK
        <5>2. \E i \in 1 .. Len(fifo) :
                fifo[i] = [stream |-> r, n |-> accepted[r]]
          BY <5>1 DEF DeliveryInv, QueueIsContiguous
        <5> QED
          BY <4>2, <5>2 DEF NoneLive, Live
      <4>4. \A r \in Streams : RecvDone(r)' <=> (RecvDone(r) \/ r = s)
        BY <4>1 DEF RecvDone, TypeOK, FINISHED_RECV
      <4>5. eofs[s] = 0
        BY <4>1 DEF HalfFinished, DeliveryInv, EofOnceAfterLastPacket, TypeOK
      <4>6. QueueIsContiguous'
        BY <4>2, <4>3, <4>4 DEF QueueIsContiguous, TypeOK
      <4>7. EofOnceAfterLastPacket'
        BY <4>1, <4>2, <4>3, <4>4, <4>5
        DEF EofOnceAfterLastPacket, HalfFinished, DeliveryInv, TypeOK
      <4> QED
        BY <4>2, <4>6, <4>7 DEF DeliveryInv
    <3>3. CASE ReceiveEnd
      BY <3>3, DeliveryDrain DEF ReceiveEnd
    <3>4. CASE ReceiveAgain(TRUE)
      BY <3>4, DeliveryDrain, DeliveryFrame
      DEF ReceiveAgain, NothingYet, RecvDone
    <3>5. CASE ReceiveWait
      BY <3>5, DeliveryDrain, DeliveryFrame
      DEF ReceiveWait, NothingYet, RecvDone
    <3> QED
      BY <2>2, <3>1, <3>2, <3>3, <3>4, <3>5 DEF ReceiverStep
  <2>3. ASSUME OtherStep
        PROVE  DeliveryInv'
    <3>1. ASSUME NEW s \in Streams, TqReceiveFinish(s)
          PROVE  DeliveryInv'
      BY <3>1, DeliveryFrame DEF TqReceiveFinish, RecvDone, TypeOK
    <3>2. CASE ReceiverLeave
      BY <3>2, DeliveryFrame DEF ReceiverLeave, RecvDone
    <3>3. ASSUME NEW c \in BOOLEAN, TqChoke(c)
          PROVE  DeliveryInv'
      <4>1. UNCHANGED <<finished, fifo, history>>
        BY <3>3, Zenon DEF TqChoke
      <4> QED
        BY <4>1, DeliveryFrame DEF RecvDone
    <3>4. ASSUME NEW t \in Threads, SpuriousWakeup(t)
          PROVE  DeliveryInv'
      BY <3>4, DeliveryFrame DEF SpuriousWakeup, RecvDone
    <3> QED
      BY <1>1, <2>3, <3>1, <3>2, <3>3, <3>4 DEF OtherStep
  <2> QED
    BY <1>2, <2>1, <2>2, <2>3, StepCases
<1> QED
  BY <1>1, <1>2

LEMMA DeliveryInvariant == Spec => []DeliveryInv
<1>1. Init => DeliveryInv
  BY DEF Init, DeliveryInv, QueueIsContiguous, EofOnceAfterLastPacket
<1> QED
  BY <1>1, TypeCorrect, DeliveryStep, PTL DEF Spec

\* The packets of an open stream are queued once each, in order, without a gap.
THEOREM Contiguity == Spec => []QueueIsContiguous
BY DeliveryInvariant, PTL DEF DeliveryInv

\* EOF reaches the receiver at most once for each stream, and never before a
\* packet the queue has accepted.
THEOREM EofSafety == Spec => []EofOnceAfterLastPacket
BY DeliveryInvariant, PTL DEF DeliveryInv

\* What tq_receive returns for a stream is the packet after the last one.
LEMMA InOrderStep ==
    ASSUME TypeOK, DeliveryInv, [Next]_vars
    PROVE  \A s \in Streams :
              delivered'[s] # delivered[s] => delivered'[s] = delivered[s] + 1
<1>1. CASE UNCHANGED delivered
  BY <1>1
<1>2. CASE ReceivePacket
  <2>1. PICK i \in 1 .. Len(fifo) :
          /\ Live(i) /\ \A j \in 1 .. i - 1 : ~Live(j)
          /\ delivered' = [delivered EXCEPT ![fifo[i].stream] = fifo[i].n]
    BY <1>2 DEF ReceivePacket
  <2>2. fifo[i].n = delivered[fifo[i].stream] + 1
    BY <2>1, NextPacket
  <2> QED
    BY <2>1, <2>2 DEF TypeOK
<1>3. [Next]_vars => UNCHANGED delivered \/ ReceivePacket
  BY StepCases
  DEF SenderStep, ReceiverStep, OtherStep, SendBlock, SendEof, SendWrite,
      SendRefuse, TqSendFinish, SenderLeave, ReceiveEof, ReceiveEnd,
      ReceiveAgain, ReceiveWait, TqReceiveFinish, ReceiverLeave, TqChoke,
      SpuriousWakeup, vars, history
<1> QED
  BY <1>1, <1>2, <1>3

\* Packets come out in the order they went in, none skipped and none twice.
THEOREM Order == Spec => InOrder
BY TypeCorrect, DeliveryInvariant, InOrderStep, PTL DEF Spec, InOrder

----------------------------------------------------------------------------
(* The queue implements the abstract channel.                              *)

\* The phase a stream is in, seen through the refinement mapping.
LEMMA PhaseOpen ==
    ASSUME TypeOK, DeliveryInv, NEW s \in Streams
    PROVE  /\ Phase[s] = "open" <=> ~RecvDone(s)
           /\ Phase[s] = "ended" <=> eofs[s] > 0
BY DEF Phase, DeliveryInv, EofOnceAfterLastPacket, TypeOK

\* A step that changes neither the counters, the EOFs nor the bits of the
\* streams is invisible to the channel.
LEMMA ChannelFrame ==
    ASSUME UNCHANGED <<finished, history>>
    PROVE  UNCHANGED Channel!vars
BY DEF Channel!vars, history, Phase, SendDone, RecvDone

\* Setting FINISHED_SEND is the channel's FinishSending.
LEMMA ChannelFinish ==
    ASSUME TypeOK, NEW s \in Streams,
           finished' = [finished EXCEPT ![s] = @ \cup {FINISHED_SEND}],
           UNCHANGED history
    PROVE  Channel!FinishSending(s)
BY DEF Channel!FinishSending, history, Phase, SendDone, RecvDone, TypeOK,
       FINISHED_SEND, FINISHED_RECV

\* Every step of the queue is a step of the channel or leaves it unchanged.
LEMMA ChannelStep ==
    ASSUME TypeOK, DeliveryInv, [Next]_vars
    PROVE  [Channel!Next]_(Channel!vars)
<1> USE DEF history, queue
<1>1. CASE UNCHANGED vars
  BY <1>1, ChannelFrame DEF vars
<1>2. CASE Next
  <2>1. ASSUME NEW p \in Senders, SenderStep(p)
        PROVE  [Channel!Next]_(Channel!vars)
    <3>0. StreamOf[p] \in Streams
      BY ThreadsAssumption
    <3>1. CASE SendBlock(p) \/ SendRefuse(p) \/ SenderLeave(p)
      BY <3>1, ChannelFrame DEF SendBlock, SendRefuse, SenderLeave
    <3>2. CASE SendEof(p) \/ TqSendFinish(p)
      <4>1. Channel!FinishSending(StreamOf[p])
        BY <3>0, <3>2, ChannelFinish DEF SendEof, TqSendFinish
      <4> QED
        BY <3>0, <4>1 DEF Channel!Next
    <3>3. CASE SendWrite(p)
      <4>1. Phase[StreamOf[p]] = "open"
        BY <3>0, <3>3, PhaseOpen DEF SendWrite
      <4>2. Channel!Take(StreamOf[p])
        BY <3>0, <3>3, <4>1
        DEF SendWrite, Channel!Take, Phase, SendDone, RecvDone
      <4> QED
        BY <3>0, <4>2 DEF Channel!Next
    <3> QED
      BY <2>1, <3>1, <3>2, <3>3 DEF SenderStep
  <2>2. ASSUME ReceiverStep
        PROVE  [Channel!Next]_(Channel!vars)
    <3>1. CASE ReceivePacket
      <4>1. PICK i \in 1 .. Len(fifo) :
              /\ Live(i) /\ \A j \in 1 .. i - 1 : ~Live(j)
              /\ delivered' = [delivered EXCEPT ![fifo[i].stream] = fifo[i].n]
              /\ UNCHANGED <<finished, accepted, eofs>>
        BY <3>1 DEF ReceivePacket
      <4> DEFINE s == fifo[i].stream
      <4>2. /\ fifo[i] \in Packets /\ fifo[i].n = delivered[s] + 1
            /\ fifo[i].n <= accepted[s]
        BY <4>1, NextPacket
      <4>3. s \in Streams /\ ~RecvDone(s)
        BY <4>1, <4>2 DEF Packets, Live
      <4>4. Phase[s] = "open" /\ delivered[s] < accepted[s]
        BY <4>2, <4>3, PhaseOpen DEF TypeOK
      <4>5. Channel!Hand(s)
        BY <4>1, <4>2, <4>3, <4>4 DEF Channel!Hand, Phase, SendDone, RecvDone
      <4> QED
        BY <4>3, <4>5 DEF Channel!Next
    <3>2. CASE ReceiveEof
      <4>1. PICK s \in Streams :
              /\ HalfFinished(s)
              /\ finished' = [finished EXCEPT ![s] = @ \cup {FINISHED_RECV}]
              /\ eofs' = [eofs EXCEPT ![s] = @ + 1]
        BY <3>2 DEF ReceiveEof
      <4>2. UNCHANGED <<accepted, delivered>>
        BY <3>2 DEF ReceiveEof
      <4>3. Phase[s] = "open" /\ SendDone(s)
        BY <4>1, PhaseOpen DEF HalfFinished
      <4>4. /\ eofs'[s] > 0
            /\ \A r \in Streams \ {s} : /\ eofs'[r] = eofs[r]
                                        /\ RecvDone(r)' <=> RecvDone(r)
            /\ \A r \in Streams : SendDone(r)' <=> SendDone(r)
        BY <4>1 DEF TypeOK, RecvDone, SendDone, FINISHED_SEND, FINISHED_RECV
      <4>5. delivered[s] = accepted[s]
        <5>1. DeliveryInv'
          BY <1>2, DeliveryStep
        <5>2. eofs'[s] = 1
          <6>1. eofs[s] \in Nat /\ eofs'[s] = eofs[s] + 1 /\ ~(eofs[s] > 0)
            BY <4>1, <4>3, PhaseOpen DEF TypeOK
          <6> QED
            BY <6>1
        <5> QED
          BY <4>2, <5>1, <5>2 DEF DeliveryInv, EofOnceAfterLastPacket
      <4>6. Phase' = [Phase EXCEPT ![s] = "ended"]
        BY <4>4 DEF Phase
      <4>7. Channel!End(s)
        BY <4>2, <4>3, <4>4, <4>5, <4>6 DEF Channel!End
      <4> QED
        BY <4>7 DEF Channel!Next
    <3>3. CASE ReceiveEnd \/ ReceiveAgain(TRUE) \/ ReceiveWait
      BY <3>3, ChannelFrame DEF ReceiveEnd, ReceiveAgain, ReceiveWait
    <3> QED
      BY <2>2, <3>1, <3>2, <3>3 DEF ReceiverStep
  <2>3. ASSUME OtherStep
        PROVE  [Channel!Next]_(Channel!vars)
    <3>1. ASSUME NEW s \in Streams, TqReceiveFinish(s)
          PROVE  [Channel!Next]_(Channel!vars)
      <4>1. /\ ~RecvDone(s)
            /\ finished' = [finished EXCEPT ![s] = @ \cup {FINISHED_RECV}]
            /\ UNCHANGED history
        BY <3>1 DEF TqReceiveFinish
      <4>2. Phase[s] = "open" /\ ~(eofs[s] > 0)
        BY <4>1, PhaseOpen
      <4>3. /\ RecvDone(s)'
            /\ \A r \in Streams \ {s} : RecvDone(r)' <=> RecvDone(r)
            /\ \A r \in Streams : SendDone(r)' <=> SendDone(r)
        BY <4>1 DEF TypeOK, RecvDone, SendDone, FINISHED_SEND, FINISHED_RECV
      <4>4. Phase' = [Phase EXCEPT ![s] = "closed"]
        BY <4>1, <4>2, <4>3 DEF Phase
      <4>5. Channel!Close(s)
        BY <4>1, <4>2, <4>3, <4>4 DEF Channel!Close
      <4> QED
        BY <4>5 DEF Channel!Next
    <3>2. CASE ReceiverLeave
      BY <3>2, ChannelFrame DEF ReceiverLeave
    <3>3. ASSUME NEW c \in BOOLEAN, TqChoke(c)
          PROVE  UNCHANGED Channel!vars
      <4>1. UNCHANGED <<finished, history>>
        BY <3>3, Zenon DEF TqChoke
      <4> QED
        BY <4>1, ChannelFrame
    <3>4. ASSUME NEW t \in Threads, SpuriousWakeup(t)
          PROVE  UNCHANGED Channel!vars
      BY <3>4, ChannelFrame DEF SpuriousWakeup
    <3> QED
      BY <1>1, <2>3, <3>1, <3>2, <3>3, <3>4 DEF OtherStep
  <2> QED
    BY <1>2, <2>1, <2>2, <2>3, StepCases
<1> QED
  BY <1>1, <1>2

\* The queue is a set of reliable FIFO channels, each of which ends once.
THEOREM Refinement == Spec => ImplementsChannel
<1>1. Init => Channel!Init
  BY DEF Init, Channel!Init, Phase, SendDone, RecvDone
<1> QED
  BY <1>1, TypeCorrect, DeliveryInvariant, ChannelStep, PTL
  DEF Spec, ImplementsChannel, Channel!Spec

----------------------------------------------------------------------------
(* A sender that has its stream to itself is never refused.                *)

\* A stream is send-finished only if an owner that is alone on it knows it.
OwnerKnows ==
    \A p \in Owners : Alone(p) =>
        /\ op[p] # "failed"
        /\ SendDone(StreamOf[p]) => op[p] \in {"eof", "done"}

LEMMA OwnerKnowsStep ==
    ASSUME TypeOK, OwnerKnows, [Next]_vars
    PROVE  OwnerKnows'
<1> USE ThreadsAssumption
      DEF TypeOK, OwnerKnows, Alone, SendDone, queue, history,
          FINISHED_SEND, FINISHED_RECV, Threads
<1>1. ASSUME NEW p \in Senders, TqSend(p) \/ TqSendResume(p)
      PROVE  OwnerKnows'
  <2>0. op[p] \in {"run", "call"}
    <3>1. op[p] = "run" \/ op[p] = "call"
      BY <1>1, Zenon DEF TqSend, TqSendResume
    <3> QED
      BY <3>1
  <2>1. CASE SendBlock(p)
    BY <2>0, <2>1 DEF SendBlock
  <2>2. CASE SendEof(p)
    BY <2>0, <2>2 DEF SendEof, AfterSend
  <2>3. CASE SendWrite(p)
    BY <2>0, <2>3 DEF SendWrite
  <2>4. CASE SendRefuse(p)
    BY <2>0, <2>4 DEF SendRefuse, AfterSend
  <2> QED
    BY <1>1, <2>1, <2>2, <2>3, <2>4 DEF TqSend, TqSendResume, SendLoop
<1>2. ASSUME NEW p \in Senders, TqSendFinish(p)
      PROVE  OwnerKnows'
  BY <1>2 DEF TqSendFinish
<1>3. ASSUME NEW p \in Senders, SenderLeave(p)
      PROVE  OwnerKnows'
  BY <1>3 DEF SenderLeave
<1>4. ASSUME ReceiverStep
      PROVE  OwnerKnows'
  <2>1. op' = [op EXCEPT ![Receiver] = op'[Receiver]]
    BY <1>4 DEF ReceiverStep, ReceivePacket, ReceiveEof, ReceiveEnd,
                ReceiveAgain, ReceiveWait
  <2>2. \/ finished' = finished
        \/ \E s \in Streams :
              finished' = [finished EXCEPT ![s] = @ \cup {FINISHED_RECV}]
    BY <1>4 DEF ReceiverStep, ReceivePacket, ReceiveEof, ReceiveEnd,
                ReceiveAgain, ReceiveWait
  <2>3. \A p \in Senders : op'[p] = op[p]
    BY <2>1
  <2>4. \A s \in Streams :
          FINISHED_SEND \in finished'[s] => FINISHED_SEND \in finished[s]
    <3>1. CASE finished' = finished
      BY <3>1
    <3>2. ASSUME NEW s \in Streams,
                 finished' = [finished EXCEPT ![s] = @ \cup {FINISHED_RECV}]
          PROVE  \A r \in Streams :
                   FINISHED_SEND \in finished'[r] => FINISHED_SEND \in finished[r]
      <4>1. FINISHED_SEND # FINISHED_RECV
        OBVIOUS
      <4> HIDE DEF FINISHED_SEND, FINISHED_RECV
      <4> QED
        BY <3>2, <4>1
    <3> QED
      BY <2>2, <3>1, <3>2
  <2> QED
    BY <2>3, <2>4
<1>5. ASSUME OtherStep
      PROVE  OwnerKnows'
  <2>1. ASSUME NEW s \in Streams, TqReceiveFinish(s)
        PROVE  OwnerKnows'
    BY <2>1 DEF TqReceiveFinish
  <2>2. ASSUME NEW c \in BOOLEAN, TqChoke(c)
        PROVE  UNCHANGED <<finished, op>>
    BY <2>2, Zenon DEF TqChoke
  <2>3. CASE ReceiverLeave
    BY <2>3 DEF ReceiverLeave
  <2> QED
    BY <1>5, <2>1, <2>2, <2>3 DEF OtherStep, SpuriousWakeup, vars
<1>6. [Next]_vars => \/ \E p \in Senders :
                           \/ TqSend(p) \/ TqSendResume(p)
                           \/ TqSendFinish(p) \/ SenderLeave(p)
                     \/ ReceiverStep \/ OtherStep
  BY DEF Next, TqReceive, TqReceiveResume, ReceiveReturns, ReceiveAgain,
         ReceiverStep, OtherStep, Schedule, Unfreeze, Terminated
<1> QED
  BY <1>1, <1>2, <1>3, <1>4, <1>5, <1>6

\* A sender that has its stream to itself is told EOF, never EINVAL, by a queue
\* whose receiver has left.
THEOREM ExclusiveOwnerNeverRefused == Spec => []OwnerNeverRefused
<1>1. Init => OwnerKnows
  BY ThreadsAssumption DEF Init, OwnerKnows, SendDone, Threads
<1>2. TypeOK /\ OwnerKnows /\ [Next]_vars => OwnerKnows'
  BY OwnerKnowsStep
<1>3. OwnerKnows => OwnerNeverRefused
  BY DEF OwnerKnows, OwnerNeverRefused
<1> QED
  BY <1>1, <1>2, <1>3, TypeCorrect, PTL DEF Spec

=============================================================================
