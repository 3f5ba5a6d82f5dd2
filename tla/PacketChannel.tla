--------------------------- MODULE PacketChannel ---------------------------
(***************************************************************************)
(* What a ThreadQueue promises the two tasks it connects, as thread_queue.h *)
(* documents it: a set of streams, each a reliable FIFO channel that ends   *)
(* once, by the sender after its last packet or by the receiver at will.    *)
(* Packets are numbered, so a channel is the pair of its two counters.      *)
(***************************************************************************)
EXTENDS Integers

CONSTANT Streams

VARIABLES
    sent,       \* packets the channel has taken, for each stream
    got,        \* packets it has handed over
    over,       \* the streams whose sending side is finished
    phase       \* "open", "ended" (EOF given) or "closed" (by the receiver)

vars == <<sent, got, over, phase>>

Init ==
    /\ sent = [s \in Streams |-> 0]
    /\ got = [s \in Streams |-> 0]
    /\ over = {}
    /\ phase = [s \in Streams |-> "open"]

Take(s) ==
    /\ phase[s] = "open"
    /\ sent' = [sent EXCEPT ![s] = @ + 1]
    /\ UNCHANGED <<got, over, phase>>

Hand(s) ==
    /\ phase[s] = "open"
    /\ got[s] < sent[s]
    /\ got' = [got EXCEPT ![s] = @ + 1]
    /\ UNCHANGED <<sent, over, phase>>

FinishSending(s) ==
    /\ over' = over \cup {s}
    /\ UNCHANGED <<sent, got, phase>>

\* EOF: once, and only behind the last packet.
End(s) ==
    /\ phase[s] = "open"
    /\ s \in over
    /\ got[s] = sent[s]
    /\ phase' = [phase EXCEPT ![s] = "ended"]
    /\ UNCHANGED <<sent, got, over>>

Close(s) ==
    /\ phase[s] = "open"
    /\ phase' = [phase EXCEPT ![s] = "closed"]
    /\ UNCHANGED <<sent, got, over>>

Next == \E s \in Streams :
    Take(s) \/ Hand(s) \/ FinishSending(s) \/ End(s) \/ Close(s)

Spec == Init /\ [][Next]_vars
=============================================================================
