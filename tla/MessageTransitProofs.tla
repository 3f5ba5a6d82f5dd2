------------------------ MODULE MessageTransitProofs ------------------------
(***************************************************************************)
(* Machine-checked properties of MessageTransit for every set of sessions, *)
(* counter array size and bound.                                           *)
(***************************************************************************)
EXTENDS MessageTransit, FiniteSetTheorems, SequenceTheorems, TLAPS

\* Every id has a slot.
LEMMA SlotOfType ==
    ASSUME NEW i \in Ids
    PROVE  SlotOf(i) \in Slots
BY SessionsAssumption, SizeAssumption DEF SlotOf, Slots, Ids

USE DEF context

\* A message is counted for some id, whoever logs.
LEMMA CountsFor ==
    ASSUME TypeOK
    PROVE  /\ \A s \in Sessions : CountMessage(s) =>
                  s \in Ids /\ \E fine \in BOOLEAN : Counts(s, fine)
           /\ \A t \in Strangers : CountForeign(t) =>
                  /\ borrowed[t] \in Ids
                  /\ \E fine \in BOOLEAN : Counts(borrowed[t], fine)
BY DEF TypeOK, CountMessage, CountForeign, Ids

-----------------------------------------------------------------------------
(* Type correctness.                                                       *)

\* What a wait may become.
WaitStates ==
    {"idle", "checking", "blocking", "asleep", "drained", "timedout"}

LEMMA NotifiedType ==
    ASSUME wait \in [Sessions -> [Waiters -> WaitStates]]
    PROVE  Notified \in [Sessions -> [Waiters -> WaitStates]]
BY DEF Notified, WaitStates

LEMMA WaitStepType ==
    ASSUME wait \in [Sessions -> [Waiters -> WaitStates]],
           NEW s \in Sessions, NEW w \in Waiters, WaitStep(s, w)
    PROVE  /\ wait' \in [Sessions -> [Waiters -> WaitStates]]
           /\ UNCHANGED <<state, pc, sent, unpushed, queue, cb, held, transit,
                          history, logs, done, context>>
<1>1. \E v \in WaitStates : WaitBecomes(s, w, v)
  <2>1. CASE WaitStart(s, w)
    BY <2>1, Zenon DEF WaitStart, WaitStates
  <2>2. CASE WaitCheck(s, w)
    BY <2>2, Zenon DEF WaitCheck, WaitStates
  <2>3. CASE WaitBlock(s, w)
    BY <2>3 DEF WaitBlock, WaitStates
  <2>4. CASE WaitTimeout(s, w)
    BY <2>4, Zenon DEF WaitTimeout, WaitStates
  <2> QED
    BY <2>1, <2>2, <2>3, <2>4 DEF WaitStep
<1>2. PICK v \in WaitStates : WaitBecomes(s, w, v)
  BY <1>1
<1> QED
  BY <1>2 DEF WaitBecomes

LEMMA TypeOKStep ==
    ASSUME TypeOK, [Next]_vars
    PROVE  TypeOK'
<1> USE DEF TypeOK
<1>1. ASSUME NEW i \in Ids, NEW fine \in BOOLEAN, Counts(i, fine),
             foreign' \subseteq foreign \cup {<<i, sent[i] + 1>>},
             borrowed' \in [Strangers -> Ids \cup {Nobody}]
      PROVE  TypeOK'
  <2>1. SlotOf(i) \in Slots
    BY SlotOfType
  <2>2. <<i, sent[i] + 1>> \in Messages
    BY DEF Messages
  <2>3. /\ sent' = [sent EXCEPT ![i] = @ + 1]
        /\ transit' = [transit EXCEPT ![SlotOf(i)] = @ + 1]
        /\ unpushed' = unpushed \cup {<<i, sent[i] + 1>>}
        /\ verbose' \subseteq verbose \cup {<<i, sent[i] + 1>>}
        /\ UNCHANGED <<state, pc, wait, queue, cb, held, history, logs, done,
                       level, configured, atRisk, player>>
    BY <1>1 DEF Counts
  <2>4. sent' \in [Ids -> Nat]
    BY <2>3
  <2>5. transit' \in [Slots -> Int]
    BY <2>1, <2>3
  <2>6. unpushed' \cup verbose' \cup foreign' \subseteq Messages
    BY <1>1, <2>2, <2>3
  <2> QED
    BY <1>1, <2>3, <2>4, <2>5, <2>6
<1>11. ASSUME NEW s \in Sessions, CountMessage(s)
       PROVE  TypeOK'
  BY <1>1, <1>11, CountsFor DEF CountMessage
<1>12. ASSUME NEW t \in Strangers, CountForeign(t)
       PROVE  TypeOK'
  BY <1>1, <1>12, CountsFor DEF CountForeign
<1>13. ASSUME NEW t \in Strangers, ReadPlayer(t)
       PROVE  TypeOK'
  BY <1>13 DEF ReadPlayer
<1>14. ASSUME NEW v \in Levels, LevelBecomes(v)
       PROVE  level' \in Levels /\ atRisk' \subseteq Messages
  BY <1>14 DEF LevelBecomes
<1>15. CASE SetLogLevel
  BY <1>14, <1>15 DEF SetLogLevel
<1>16. ASSUME NEW s \in Sessions, OptLogLevel(s)
       PROVE  TypeOK'
  BY <1>14, <1>16 DEF OptLogLevel
<1>2. ASSUME NEW m \in unpushed, PushMessage(m)
      PROVE  TypeOK'
  <2>1. queue' \in Seq(Messages)
    BY <1>2, AppendProperties DEF PushMessage
  <2> QED
    BY <1>2, <2>1 DEF PushMessage
<1>3. CASE PopMessage
  <2>1. held' \in Messages /\ queue' \in Seq(Messages)
    BY <1>3, HeadTailProperties DEF PopMessage
  <2> QED
    BY <1>3, <2>1 DEF PopMessage
<1>4. CASE ProcessMessage
  <2>1. logs' \in [Sessions -> Seq(Messages)]
    <3>1. CASE (held \in verbose => level = "high") /\ held[1] \in history
      <4>1. Append(logs[held[1]], held) \in Seq(Messages)
        BY <1>4, <3>1, AppendProperties DEF ProcessMessage
      <4> QED
        BY <1>4, <3>1, <4>1 DEF ProcessMessage
    <3>2. CASE ~((held \in verbose => level = "high") /\ held[1] \in history)
      BY <1>4, <3>2 DEF ProcessMessage
    <3> QED
      BY <3>1, <3>2
  <2>2. atRisk' \subseteq atRisk /\ verbose' \subseteq verbose
    BY <1>4, Zenon DEF ProcessMessage
  <2> QED
    BY <1>4, <2>1, <2>2 DEF ProcessMessage
<1>5. CASE DrainHeld
  <2>1. held \in Messages /\ SlotOf(held[1]) \in Slots
    BY <1>5, SlotOfType DEF DrainHeld, Messages
  <2>2. wait' \in [Sessions -> [Waiters -> WaitStates]]
    BY <1>5, NotifiedType DEF DrainHeld, WaitStates
  <2> QED
    BY <1>5, <2>1, <2>2 DEF DrainHeld, WaitStates
<1>6. ASSUME NEW s \in Sessions, SessionStep(s)
      PROVE  TypeOK'
  <2>1. CASE StartRunning(s)
    BY <2>1 DEF StartRunning, Ids
  <2>2. CASE ResetMessagesInTransmit(s)
    <3>1. wait' \in [Sessions -> [Waiters -> WaitStates]]
          /\ transit' \in [Slots -> Int]
      <4>1. CASE ResetsCounter
        <5>1. SlotOf(s) \in Slots
          BY SlotOfType DEF Ids
        <5>2. transit' = [transit EXCEPT ![SlotOf(s)] = 0] /\ wait' = Notified
          BY <2>2, <4>1, Zenon DEF ResetMessagesInTransmit
        <5> QED
          BY <5>1, <5>2, NotifiedType DEF WaitStates
      <4>2. CASE ~ResetsCounter
        <5>1. transit' = transit /\ wait' = wait
          BY <2>2, <4>2, Zenon DEF ResetMessagesInTransmit
        <5> QED
          BY <5>1 DEF WaitStates
      <4> QED
        BY <4>1, <4>2
    <3>2. level' \in Levels /\ atRisk' \subseteq Messages
      BY <2>2, <1>14 DEF ResetMessagesInTransmit
    <3> QED
      BY <2>2, <3>1, <3>2 DEF ResetMessagesInTransmit, WaitStates
  <2>3. CASE RunReturns(s)
    <3>1. level' \in Levels /\ atRisk' \subseteq Messages
      BY <2>3, <1>14 DEF RunReturns
    <3> QED
      BY <2>3, <3>1 DEF RunReturns, Ids
  <2>4. CASE Complete(s)
    BY <2>4 DEF Complete
  <2> QED
    BY <1>6, <2>1, <2>2, <2>3, <2>4 DEF SessionStep
<1>7. ASSUME NEW s \in Sessions, NEW w \in Waiters, WaitStep(s, w)
      PROVE  TypeOK'
  BY <1>7, WaitStepType DEF WaitStates
<1>8. ASSUME NEW s \in Sessions, Expire(s)
      PROVE  TypeOK'
  BY <1>8 DEF Expire
<1>9. CASE ClearSessions
  BY <1>9 DEF ClearSessions
<1>10. CASE UNCHANGED vars
  BY <1>10 DEF vars
<1> QED
  BY <1>11, <1>12, <1>13, <1>15, <1>16, <1>2, <1>3, <1>4, <1>5, <1>6, <1>7,
     <1>8, <1>9, <1>10
  DEF Next, CallbackStep, Finished

(* The variables keep their types. *)
THEOREM TypeCorrect == Spec => []TypeOK
<1>1. Init => TypeOK
  BY DEF Init, TypeOK, Ids, Slots, Waiters, Messages
<1> QED
  BY <1>1, TypeOKStep, PTL DEF Spec

-----------------------------------------------------------------------------
(* Where a message is: about to be pushed, in the list, in the hands of    *)
(* the callback thread or done, and never at two of these places.          *)

PlacesInv ==
    /\ unpushed \cup done \subseteq Counted
    /\ unpushed \cap done = {}
    /\ \A a \in 1..Len(queue) : queue[a] \in Counted \ (done \cup unpushed)
    /\ \A a, b \in 1..Len(queue) : queue[a] = queue[b] => a = b
    /\ cb # "idle" =>
          /\ held \in Counted \ (done \cup unpushed)
          /\ \A a \in 1..Len(queue) : queue[a] # held

LEMMA CountedMembers ==
    ASSUME sent \in [Ids -> Nat]
    PROVE  \A m : m \in Counted <=> m \in Messages /\ m[2] \in 1..sent[m[1]]
<1>1. ASSUME NEW m \in Counted
      PROVE  m \in Messages /\ m[2] \in 1..sent[m[1]]
  <2>1. PICK i \in Ids : m \in Sent(i)
    BY DEF Counted
  <2>2. PICK n \in 1..sent[i] : m = <<i, n>>
    BY <2>1 DEF Sent
  <2> QED
    BY <2>2 DEF Messages
<1>2. ASSUME NEW m \in Messages, m[2] \in 1..sent[m[1]]
      PROVE  m \in Counted
  <2>1. m[1] \in Ids /\ m = <<m[1], m[2]>>
    BY DEF Messages
  <2>2. m \in Sent(m[1])
    BY <1>2, <2>1, Zenon DEF Sent
  <2> QED
    BY <2>1, <2>2 DEF Counted
<1> QED
  BY <1>1, <1>2

\* The next message of an id is new.
LEMMA NextMessageIsNew ==
    ASSUME TypeOK, NEW i \in Ids, NEW fine \in BOOLEAN, Counts(i, fine)
    PROVE  /\ Counted' = Counted \cup {<<i, sent[i] + 1>>}
           /\ <<i, sent[i] + 1>> \notin Counted
<1>1. sent \in [Ids -> Nat] /\ sent' = [sent EXCEPT ![i] = @ + 1]
  BY DEF TypeOK, Counts
<1>2. sent' \in [Ids -> Nat]
  BY <1>1
<1>3. \A m : m \in Counted' <=> m \in Messages /\ m[2] \in 1..sent'[m[1]]
  <2>1. ASSUME NEW m \in Counted'
        PROVE  m \in Messages /\ m[2] \in 1..sent'[m[1]]
    <3>1. PICK j \in Ids : m \in Sent(j)'
      BY DEF Counted
    <3>2. PICK n \in 1..sent'[j] : m = <<j, n>>
      BY <3>1 DEF Sent
    <3> QED
      BY <1>2, <3>2 DEF Messages
  <2>2. ASSUME NEW m \in Messages, m[2] \in 1..sent'[m[1]]
        PROVE  m \in Counted'
    <3>1. m[1] \in Ids /\ m = <<m[1], m[2]>>
      BY DEF Messages
    <3>2. m \in Sent(m[1])'
      BY <2>2, <3>1, Zenon DEF Sent
    <3> QED
      BY <3>1, <3>2 DEF Counted
  <2> QED
    BY <2>1, <2>2
<1>4. \A m \in Messages : m[2] \in 1..sent'[m[1]] <=>
          m[2] \in 1..sent[m[1]] \/ m = <<i, sent[i] + 1>>
  BY <1>1 DEF Messages
<1>5. <<i, sent[i] + 1>> \in Messages
  BY <1>1 DEF Messages
<1> QED
  BY <1>1, <1>3, <1>4, <1>5, CountedMembers

LEMMA CountedUnchanged ==
    ASSUME sent' = sent
    PROVE  Counted' = Counted
BY DEF Counted, Sent

\* A step that is not of a thread that logs or of the callback thread.
QuietStep ==
    UNCHANGED <<sent, unpushed, queue, cb, held, done, logs>>

\* Every step is one of these (the split used by the proofs below).
LEMMA StepCases ==
    ASSUME TypeOK, [Next]_vars
    PROVE  \/ \E i \in Ids, fine \in BOOLEAN : Counts(i, fine)
           \/ \E m \in unpushed : PushMessage(m)
           \/ PopMessage
           \/ ProcessMessage
           \/ DrainHeld
           \/ QuietStep
<1>1. ASSUME NEW s \in Sessions, SessionStep(s)
      PROVE  QuietStep
  BY <1>1 DEF SessionStep, StartRunning, ResetMessagesInTransmit, RunReturns,
              Complete, QuietStep
<1>2. ASSUME NEW s \in Sessions, NEW w \in Waiters, WaitStep(s, w)
      PROVE  QuietStep
  BY <1>2, WaitStepType DEF QuietStep, TypeOK, WaitStates
<1>3. \A t \in Strangers : ReadPlayer(t) => QuietStep
  BY DEF ReadPlayer, QuietStep
<1>4. SetLogLevel \/ (\E s \in Sessions : OptLogLevel(s)) => QuietStep
  BY DEF SetLogLevel, OptLogLevel, QuietStep
<1> QED
  BY <1>1, <1>2, <1>3, <1>4, CountsFor
  DEF Next, CallbackStep, Expire, ClearSessions, Finished, QuietStep, vars

LEMMA PlacesStep ==
    ASSUME TypeOK, PlacesInv, [Next]_vars
    PROVE  PlacesInv'
<1> USE DEF PlacesInv
<1>1. ASSUME NEW i \in Ids, NEW fine \in BOOLEAN, Counts(i, fine)
      PROVE  PlacesInv'
  <2> DEFINE new == <<i, sent[i] + 1>>
  <2>1. Counted' = Counted \cup {new} /\ new \notin Counted
    BY <1>1, NextMessageIsNew
  <2>2. /\ unpushed' = unpushed \cup {new}
        /\ UNCHANGED <<queue, cb, held, done>>
    BY <1>1 DEF Counts
  <2> HIDE DEF new
  <2>3. /\ new \notin done
        /\ \A a \in 1..Len(queue) : queue[a] # new
        /\ cb # "idle" => held # new
    BY <2>1
  <2>4. \A a \in 1..Len(queue) : queue[a] \in Counted' \ (done \cup unpushed')
    BY <2>1, <2>2, <2>3
  <2>5. cb # "idle" => held \in Counted' \ (done \cup unpushed')
    BY <2>1, <2>2, <2>3
  <2>6. unpushed' \cup done \subseteq Counted' /\ unpushed' \cap done = {}
    BY <2>1, <2>2, <2>3
  <2> QED
    BY <2>2, <2>4, <2>5, <2>6
<1>2. ASSUME NEW m \in unpushed, PushMessage(m)
      PROVE  PlacesInv'
  <2>1. /\ unpushed' = unpushed \ {m}
        /\ UNCHANGED <<cb, held, done>>
        /\ Counted' = Counted
    BY <1>2, CountedUnchanged DEF PushMessage
  <2>2. /\ Len(queue') = Len(queue) + 1
        /\ \A a \in 1..Len(queue) : queue'[a] = queue[a]
        /\ queue'[Len(queue) + 1] = m
        /\ Len(queue) \in Nat
    BY <1>2, AppendProperties, LenProperties DEF PushMessage, TypeOK
  <2> QED
    BY <2>1, <2>2
<1>3. CASE PopMessage
  <2>1. /\ held' = queue[1]
        /\ cb' = "popped"
        /\ UNCHANGED <<unpushed, done>>
        /\ Counted' = Counted
        /\ queue # <<>>
    BY <1>3, CountedUnchanged DEF PopMessage
  <2>2. /\ Len(queue) \in Nat /\ Len(queue) > 0
        /\ Len(queue') = Len(queue) - 1
        /\ \A a \in 1..Len(queue') : queue'[a] = queue[a + 1]
    BY <1>3, HeadTailProperties, LenProperties, EmptySeq DEF PopMessage, TypeOK
  <2>3. \A a \in 1..Len(queue') : a + 1 \in 1..Len(queue) /\ a + 1 # 1
    BY <2>2
  <2>4. 1 \in 1..Len(queue)
    BY <2>2
  <2>5. held' \in Counted' \ (done' \cup unpushed')
    BY <2>1, <2>4
  <2>6. \A a \in 1..Len(queue') :
            queue'[a] \in Counted' \ (done' \cup unpushed') /\ queue'[a] # held'
    BY <2>1, <2>2, <2>3, <2>4
  <2>7. \A a, b \in 1..Len(queue') : queue'[a] = queue'[b] => a = b
    <3>1. \A a, b \in 1..Len(queue') : a + 1 = b + 1 => a = b
      BY <2>2
    <3> QED
      BY <2>2, <2>3, <3>1
  <2> QED
    BY <2>1, <2>5, <2>6, <2>7
<1>4. CASE ProcessMessage
  BY <1>4, CountedUnchanged DEF ProcessMessage
<1>5. CASE DrainHeld
  <2>1. /\ done' = done \cup {held}
        /\ cb = "processed" /\ cb' = "idle"
        /\ UNCHANGED <<unpushed, queue>>
        /\ Counted' = Counted
    BY <1>5, CountedUnchanged DEF DrainHeld
  <2> QED
    BY <2>1
<1>6. CASE QuietStep
  BY <1>6, CountedUnchanged DEF QuietStep
<1> QED
  BY <1>1, <1>2, <1>3, <1>4, <1>5, <1>6, StepCases

(* A message is at one place at a time. *)
THEOREM Places == Spec => []PlacesInv
<1>1. Init => PlacesInv
  BY EmptySeq DEF Init, PlacesInv
<1>2. TypeOK /\ PlacesInv /\ [Next]_vars => PlacesInv'
  BY PlacesStep
<1> QED
  BY <1>1, <1>2, TypeCorrect, PTL DEF Spec

-----------------------------------------------------------------------------
(* The counters, in a build that does not reset them.                      *)

ExactInv ==
    /\ IsFiniteSet(InFlight)
    /\ CounterIsExact

\* Who touches a counter, or moves a message from counted to done.
LEMMA TransitSteps ==
    ASSUME TypeOK, ResetsCounter = FALSE, [Next]_vars
    PROVE  \/ \E i \in Ids, fine \in BOOLEAN : Counts(i, fine)
           \/ DrainHeld
           \/ UNCHANGED <<transit, sent, done>>
<1>1. ASSUME NEW s \in Sessions, SessionStep(s)
      PROVE  UNCHANGED <<transit, sent, done>>
  <2>1. CASE ResetMessagesInTransmit(s)
    <3>1. transit' = transit
      BY <2>1, Zenon DEF ResetMessagesInTransmit
    <3> QED
      BY <2>1, <3>1 DEF ResetMessagesInTransmit
  <2> QED
    BY <1>1, <2>1 DEF SessionStep, StartRunning, RunReturns, Complete
<1>2. ASSUME NEW s \in Sessions, NEW w \in Waiters, WaitStep(s, w)
      PROVE  UNCHANGED <<transit, sent, done>>
  BY <1>2, WaitStepType DEF TypeOK, WaitStates
<1>3. (\E t \in Strangers : ReadPlayer(t)) \/ SetLogLevel
      \/ (\E s \in Sessions : OptLogLevel(s))
      => UNCHANGED <<transit, sent, done>>
  BY DEF ReadPlayer, SetLogLevel, OptLogLevel
<1> QED
  BY <1>1, <1>2, <1>3, CountsFor
  DEF Next, CallbackStep, PushMessage, PopMessage, ProcessMessage, Expire,
      ClearSessions, Finished, vars

LEMMA InFlightOfFinite ==
    ASSUME IsFiniteSet(InFlight), NEW k
    PROVE  IsFiniteSet(InFlightOf(k))
<1>1. InFlightOf(k) \in SUBSET InFlight
  BY DEF InFlightOf
<1> QED
  BY <1>1, FS_Subset

LEMMA ExactStep ==
    ASSUME TypeOK, PlacesInv, ExactInv, ResetsCounter = FALSE, [Next]_vars
    PROVE  ExactInv'
<1>1. ASSUME NEW i \in Ids, NEW fine \in BOOLEAN, Counts(i, fine)
      PROVE  ExactInv'
  <2> DEFINE new == <<i, sent[i] + 1>>
  <2>1. InFlight' = InFlight \cup {new} /\ new \notin InFlight
    <3>1. Counted' = Counted \cup {new} /\ new \notin Counted
      BY <1>1, NextMessageIsNew
    <3>2. done' = done /\ done \subseteq Counted
      BY <1>1 DEF Counts, PlacesInv
    <3>3. InFlight' = Counted' \ done'
      BY DEF InFlight
    <3> QED
      BY <3>1, <3>2, <3>3 DEF InFlight
  <2>2. new[1] = i
    OBVIOUS
  <2>3. transit' = [transit EXCEPT ![SlotOf(i)] = @ + 1]
    BY <1>1 DEF Counts
  <2> HIDE DEF new
  <2>4. IsFiniteSet(InFlight')
    BY <2>1, FS_AddElement DEF ExactInv
  <2>5. ASSUME NEW k \in Slots
        PROVE  transit'[k] = Cardinality(InFlightOf(k)')
    <3>1. /\ IsFiniteSet(InFlightOf(k))
          /\ transit[k] = Cardinality(InFlightOf(k))
      BY InFlightOfFinite DEF ExactInv, CounterIsExact
    <3>2. CASE k = SlotOf(i)
      <4>1. InFlightOf(k)' = InFlightOf(k) \cup {new}
            /\ new \notin InFlightOf(k)
        BY <2>1, <2>2, <3>2 DEF InFlightOf
      <4>2. Cardinality(InFlightOf(k)') = Cardinality(InFlightOf(k)) + 1
        BY <3>1, <4>1, FS_AddElement
      <4>3. transit'[k] = transit[k] + 1
        BY <2>3, <3>2 DEF TypeOK
      <4> QED
        BY <3>1, <4>2, <4>3
    <3>3. CASE k # SlotOf(i)
      <4>1. InFlightOf(k)' = InFlightOf(k)
        BY <2>1, <2>2, <3>3 DEF InFlightOf
      <4> QED
        BY <2>3, <3>1, <3>3, <4>1 DEF TypeOK
    <3> QED
      BY <3>2, <3>3
  <2> QED
    BY <2>4, <2>5 DEF ExactInv, CounterIsExact
<1>2. CASE DrainHeld
  <2>1. InFlight' = InFlight \ {held} /\ held \in InFlight
    <3>1. Counted' = Counted /\ done' = done \cup {held}
      BY <1>2, CountedUnchanged DEF DrainHeld
    <3>2. held \in Counted \ done
      BY <1>2 DEF DrainHeld, PlacesInv
    <3>3. InFlight' = Counted' \ done'
      BY DEF InFlight
    <3> QED
      BY <3>1, <3>2, <3>3 DEF InFlight
  <2>2. transit' = [transit EXCEPT ![SlotOf(held[1])] = @ - 1]
    BY <1>2 DEF DrainHeld
  <2>3. IsFiniteSet(InFlight')
    BY <2>1, FS_RemoveElement DEF ExactInv
  <2>4. ASSUME NEW k \in Slots
        PROVE  transit'[k] = Cardinality(InFlightOf(k)')
    <3>1. /\ IsFiniteSet(InFlightOf(k))
          /\ transit[k] = Cardinality(InFlightOf(k))
      BY InFlightOfFinite DEF ExactInv, CounterIsExact
    <3>2. CASE k = SlotOf(held[1])
      <4>1. InFlightOf(k)' = InFlightOf(k) \ {held} /\ held \in InFlightOf(k)
        BY <2>1, <3>2 DEF InFlightOf
      <4>2. Cardinality(InFlightOf(k)') = Cardinality(InFlightOf(k)) - 1
        BY <3>1, <4>1, FS_RemoveElement
      <4>3. transit'[k] = transit[k] - 1
        BY <2>2, <3>2 DEF TypeOK
      <4> QED
        BY <3>1, <4>2, <4>3
    <3>3. CASE k # SlotOf(held[1])
      <4>1. InFlightOf(k)' = InFlightOf(k)
        BY <2>1, <3>3 DEF InFlightOf
      <4> QED
        BY <2>2, <3>1, <3>3, <4>1 DEF TypeOK
    <3> QED
      BY <3>2, <3>3
  <2> QED
    BY <2>3, <2>4 DEF ExactInv, CounterIsExact
<1>3. CASE UNCHANGED <<transit, sent, done>>
  <2>1. InFlight' = InFlight
    BY <1>3 DEF InFlight, Counted, Sent
  <2>2. \A k \in Slots : InFlightOf(k)' = InFlightOf(k)
    BY <2>1 DEF InFlightOf
  <2> QED
    BY <1>3, <2>1, <2>2 DEF ExactInv, CounterIsExact
<1> QED
  BY <1>1, <1>2, <1>3, TransitSteps

(* In a build that does not reset the counters, a counter is the number of *)
(* messages of its sessions that are on their way: nothing is lost, and    *)
(* nothing is taken back twice, however many sessions share it.            *)
THEOREM CountersAreExact ==
    ASSUME ResetsCounter = FALSE
    PROVE  Spec => []CounterIsExact
<1>1. Init => ExactInv
  <2> SUFFICES ASSUME Init
               PROVE  ExactInv
    OBVIOUS
  <2>1. InFlight = {}
    BY DEF Init, InFlight, Counted, Sent
  <2>2. \A k \in Slots : InFlightOf(k) = {} /\ transit[k] = 0
    BY <2>1 DEF Init, InFlightOf
  <2> QED
    BY <2>1, <2>2, FS_EmptySet DEF ExactInv, CounterIsExact
<1>2. TypeOK /\ PlacesInv /\ ExactInv /\ [Next]_vars => ExactInv'
  BY ExactStep
<1>3. ExactInv => CounterIsExact
  BY DEF ExactInv
<1> QED
  BY <1>1, <1>2, <1>3, TypeCorrect, Places, PTL DEF Spec

-----------------------------------------------------------------------------
(* The log level: what does not pass it now and is on its way, was on its  *)
(* way when the level was lowered.                                         *)

RiskInv == level = "low" => verbose \subseteq atRisk

\* Who sets the level, and when a message is no longer tested against it.
LEMMA LevelSteps ==
    ASSUME TypeOK, [Next]_vars
    PROVE  \/ (\E v \in Levels : LevelBecomes(v)) /\ UNCHANGED verbose
           \/ /\ UNCHANGED <<level, atRisk>>
              /\ \/ UNCHANGED verbose
                 \/ \E i \in Ids, fine \in BOOLEAN : Counts(i, fine)
           \/ ProcessMessage
<1>1. ASSUME NEW s \in Sessions, SessionStep(s)
      PROVE  \/ (\E v \in Levels : LevelBecomes(v)) /\ UNCHANGED verbose
             \/ UNCHANGED <<level, atRisk, verbose>>
  <2>1. {level, configured} \subseteq Levels
    BY DEF TypeOK
  <2>2. CASE ResetMessagesInTransmit(s)
    BY <2>1, <2>2 DEF ResetMessagesInTransmit
  <2>3. CASE RunReturns(s)
    BY <2>1, <2>3 DEF RunReturns
  <2> QED
    BY <1>1, <2>2, <2>3 DEF SessionStep, StartRunning, Complete
<1>2. ASSUME NEW s \in Sessions, NEW w \in Waiters, WaitStep(s, w)
      PROVE  UNCHANGED <<level, atRisk, verbose>>
  BY <1>2, WaitStepType DEF TypeOK, WaitStates
<1>3. SetLogLevel \/ (\E s \in Sessions : OptLogLevel(s)) =>
          (\E v \in Levels : LevelBecomes(v)) /\ UNCHANGED verbose
  BY DEF SetLogLevel, OptLogLevel
<1>4. \A i \in Ids, fine \in BOOLEAN : Counts(i, fine) =>
          UNCHANGED <<level, atRisk>>
  BY DEF Counts
<1>5. (\E t \in Strangers : ReadPlayer(t)) => UNCHANGED <<level, atRisk, verbose>>
  BY DEF ReadPlayer
<1>6. (\E m \in unpushed : PushMessage(m)) \/ PopMessage \/ DrainHeld
      \/ ClearSessions \/ (\E s \in Sessions : Expire(s)) \/ Finished
      \/ UNCHANGED vars
      => UNCHANGED <<level, atRisk, verbose>>
  BY DEF PushMessage, PopMessage, DrainHeld, ClearSessions, Expire, Finished,
         vars
<1> QED
  BY <1>1, <1>2, <1>3, <1>4, <1>5, <1>6, CountsFor DEF Next, CallbackStep

LEMMA RiskStep ==
    ASSUME TypeOK, RiskInv, [Next]_vars
    PROVE  RiskInv' /\ (ProcessMessage \/ atRisk \subseteq atRisk')
<1>1. ASSUME NEW i \in Ids, NEW fine \in BOOLEAN, Counts(i, fine)
      PROVE  RiskInv' /\ atRisk \subseteq atRisk'
  BY <1>1 DEF Counts, RiskInv
<1>2. ASSUME NEW v \in Levels, LevelBecomes(v), UNCHANGED verbose
      PROVE  RiskInv' /\ atRisk \subseteq atRisk'
  BY <1>2 DEF LevelBecomes, RiskInv
<1>3. CASE UNCHANGED <<level, atRisk, verbose>>
  BY <1>3 DEF RiskInv
<1>4. CASE ProcessMessage
  <2>1. /\ level' = level /\ verbose' = verbose \ {held}
        /\ atRisk' = atRisk \/ atRisk' = atRisk \ {held}
    BY <1>4, Zenon DEF ProcessMessage
  <2> QED
    BY <1>4, <2>1 DEF RiskInv
<1> QED
  BY <1>1, <1>2, <1>3, <1>4, LevelSteps

-----------------------------------------------------------------------------
(* The log lists: what is done is in the list of its session, once, but    *)
(* for what the level may have cost.                                       *)

LogsInv ==
    \A s \in Sessions :
        /\ \A a \in 1..Len(logs[s]) :
              /\ logs[s][a] \in Sent(s)
              /\ \/ logs[s][a] \in done
                 \/ cb = "processed" /\ logs[s][a] = held
        /\ \A a, b \in 1..Len(logs[s]) : logs[s][a] = logs[s][b] => a = b
        /\ s \in history => \A m \in Sent(s) \ atRisk :
              m \in done \/ (cb = "processed" /\ m = held) =>
                  \E a \in 1..Len(logs[s]) : logs[s][a] = m

LEMMA SentMembers ==
    ASSUME TypeOK, NEW m \in Counted, NEW i \in Ids
    PROVE  m \in Sent(i) <=> m[1] = i
<1>1. m \in Messages /\ m[2] \in 1..sent[m[1]]
  BY CountedMembers DEF TypeOK
<1>2. m = <<m[1], m[2]>>
  BY <1>1 DEF Messages
<1>3. ASSUME m[1] = i
      PROVE  m \in Sent(i)
  BY <1>1, <1>2, <1>3, Zenon DEF Sent
<1>4. ASSUME m \in Sent(i)
      PROVE  m[1] = i
  BY <1>4 DEF Sent
<1> QED
  BY <1>3, <1>4

LEMMA LogsStep ==
    ASSUME TypeOK, PlacesInv, RiskInv, LogsInv, [Next]_vars
    PROVE  LogsInv'
<1>0. ProcessMessage \/ atRisk \subseteq atRisk'
  BY RiskStep
<1>1. history' \subseteq history
  <2>1. ASSUME NEW s \in Sessions, NEW w \in Waiters, WaitStep(s, w)
        PROVE  history' = history
    BY <2>1, WaitStepType DEF TypeOK, WaitStates
  <2> QED
    BY <2>1, CountsFor
    DEF Next, Counts, ReadPlayer, SetLogLevel, OptLogLevel, PushMessage,
        CallbackStep, PopMessage, ProcessMessage, DrainHeld, SessionStep,
        StartRunning, ResetMessagesInTransmit, RunReturns, Complete, Expire,
        ClearSessions, Finished, vars
<1>2. ASSUME NEW i \in Ids, NEW fine \in BOOLEAN, Counts(i, fine)
      PROVE  LogsInv'
  <2> DEFINE new == <<i, sent[i] + 1>>
  <2>1. UNCHANGED <<cb, held, done, logs, history, atRisk>>
    BY <1>2 DEF Counts
  <2>2. \A s \in Sessions : Sent(s)' = IF s = i THEN Sent(s) \cup {new}
                                                ELSE Sent(s)
    <3>1. sent' = [sent EXCEPT ![i] = @ + 1] /\ sent \in [Ids -> Nat]
      BY <1>2 DEF Counts, TypeOK
    <3> QED
      BY <3>1 DEF Sent, Ids
  <2>3. new \notin done /\ (cb # "idle" => held # new)
    <3>1. new \notin Counted
      BY <1>2, NextMessageIsNew
    <3> QED
      BY <3>1 DEF PlacesInv
  <2> HIDE DEF new
  <2> QED
    BY <2>1, <2>2, <2>3 DEF LogsInv
<1>3. CASE (\E m \in unpushed : PushMessage(m)) \/ PopMessage
  <2>1. UNCHANGED <<sent, done, logs, history, atRisk>>
        /\ (cb' # cb => cb = "idle" /\ cb' = "popped")
        /\ (cb' = cb => held' = held)
    BY <1>3 DEF PushMessage, PopMessage
  <2>2. \A s \in Sessions : Sent(s)' = Sent(s)
    BY <2>1 DEF Sent
  <2> QED
    BY <2>1, <2>2 DEF LogsInv
<1>4. CASE ProcessMessage
  <2> DEFINE Gets(s) == /\ held \in verbose => level = "high"
                        /\ held[1] = s /\ s \in history
  <2>1. /\ cb = "popped" /\ cb' = "processed"
        /\ UNCHANGED <<sent, done, history, held>>
    BY <1>4 DEF ProcessMessage
  <2>2. held \in Counted \ done /\ held[1] \in Ids
    <3>1. held \in Counted \ done
      BY <2>1 DEF PlacesInv
    <3> QED
      BY <3>1, CountedMembers DEF TypeOK, Messages
  <2>3. ASSUME NEW s \in Sessions
        PROVE  Sent(s)' = Sent(s) /\ (held \in Sent(s) <=> held[1] = s)
    BY <2>1, <2>2, SentMembers DEF Sent, Ids
  <2>4. ASSUME NEW s \in Sessions,
               Gets(s)
        PROVE  /\ Len(logs'[s]) = Len(logs[s]) + 1
               /\ \A a \in 1..Len(logs[s]) : logs'[s][a] = logs[s][a]
               /\ logs'[s][Len(logs[s]) + 1] = held
               /\ Len(logs[s]) \in Nat
    <3>1. logs'[s] = Append(logs[s], held)
      BY <1>4, <2>4, Zenon DEF ProcessMessage, TypeOK
    <3>2. logs[s] \in Seq(Messages) /\ held \in Messages
      BY <2>1 DEF TypeOK
    <3> QED
      BY <3>1, <3>2, AppendProperties, LenProperties
  <2>5. ASSUME NEW s \in Sessions,
               ~Gets(s)
        PROVE  /\ logs'[s] = logs[s]
               /\ held[1] = s /\ s \in history => atRisk' = atRisk
    BY <1>4, <2>5 DEF ProcessMessage, TypeOK
  <2>6. ASSUME NEW s \in Sessions
        PROVE  \A a \in 1..Len(logs[s]) : logs[s][a] # held
    BY <2>1, <2>2 DEF LogsInv
  <2>7. ASSUME NEW s \in Sessions, Gets(s)
        PROVE  /\ \A a \in 1..Len(logs'[s]) :
                     /\ logs'[s][a] \in Sent(s)
                     /\ logs'[s][a] \in done \/ logs'[s][a] = held
               /\ \A a, b \in 1..Len(logs'[s]) :
                     logs'[s][a] = logs'[s][b] => a = b
               /\ \A m \in Sent(s) : m \in done \ atRisk \/ m = held =>
                     \E a \in 1..Len(logs'[s]) : logs'[s][a] = m
    <3> DEFINE n == Len(logs[s])
    <3>1. /\ n \in Nat /\ Len(logs'[s]) = n + 1
          /\ \A a \in 1..n : logs'[s][a] = logs[s][a] /\ logs[s][a] # held
          /\ logs'[s][n + 1] = held
      BY <2>4, <2>6, <2>7
    <3>2. \A a \in 1..n : logs[s][a] \in Sent(s) /\ logs[s][a] \in done
      BY <2>1 DEF LogsInv
    <3>3. \A a, b \in 1..n : logs[s][a] = logs[s][b] => a = b
      BY DEF LogsInv
    <3>4. \A m \in Sent(s) : m \in done \ atRisk =>
              \E a \in 1..n : logs[s][a] = m
      BY <2>7 DEF LogsInv
    <3>5. held \in Sent(s)
      BY <2>3, <2>7
    <3> HIDE DEF n
    <3>6. \A a \in 1..(n + 1) : a \in 1..n \/ a = n + 1
      BY <3>1
    <3>7. 1..n \subseteq 1..(n + 1) /\ n + 1 \in 1..(n + 1)
      BY <3>1
    <3>8. \A a \in 1..(n + 1) :
              /\ logs'[s][a] \in Sent(s)
              /\ logs'[s][a] \in done \/ logs'[s][a] = held
      BY <3>1, <3>2, <3>5, <3>6
    <3>9. \A a, b \in 1..(n + 1) : logs'[s][a] = logs'[s][b] => a = b
      BY <3>1, <3>3, <3>6
    <3>10. \A m \in Sent(s) : m \in done \ atRisk \/ m = held =>
              \E a \in 1..(n + 1) : logs'[s][a] = m
      BY <3>1, <3>4, <3>7
    <3> QED
      BY <3>1, <3>8, <3>9, <3>10
  <2>8. atRisk \ {held} \subseteq atRisk'
    BY <1>4, Zenon DEF ProcessMessage
  <2>9. ASSUME NEW s \in Sessions, ~Gets(s)
        PROVE  /\ \A a \in 1..Len(logs'[s]) :
                     /\ logs'[s][a] \in Sent(s)
                     /\ logs'[s][a] \in done
               /\ \A a, b \in 1..Len(logs'[s]) :
                     logs'[s][a] = logs'[s][b] => a = b
               /\ s \in history =>
                    \A m \in Sent(s) \ atRisk' : m \in done \/ m = held =>
                     \E a \in 1..Len(logs'[s]) : logs'[s][a] = m
    <3>1. s \in history /\ held[1] = s => held \in atRisk
      <4>1. level = "low" /\ held \in verbose => held \in atRisk
        BY DEF RiskInv
      <4>2. level \in {"low", "high"}
        BY DEF TypeOK, Levels
      <4> QED
        BY <2>9, <4>1, <4>2
    <3>2. \A m \in Sent(s) : m = held => held[1] = s
      BY <2>3
    <3>3. s \in history => \A m \in Sent(s) \ atRisk' : m \notin atRisk
      BY <2>5, <2>9, <2>8, <3>2
    <3> HIDE DEF Gets
    <3> QED
      BY <2>1, <2>5, <2>9, <3>1, <3>2, <3>3 DEF LogsInv
  <2> HIDE DEF Gets
  <2> QED
    BY <2>1, <2>3, <2>7, <2>9, <2>8 DEF LogsInv
<1>5. CASE DrainHeld
  <2>1. /\ cb = "processed" /\ cb' = "idle"
        /\ done' = done \cup {held}
        /\ UNCHANGED <<sent, logs, history, atRisk>>
    BY <1>5 DEF DrainHeld
  <2>2. \A s \in Sessions : Sent(s)' = Sent(s)
    BY <2>1 DEF Sent
  <2> QED
    BY <2>1, <2>2 DEF LogsInv
<1>6. CASE QuietStep
  <2>1. \A s \in Sessions : Sent(s)' = Sent(s)
    BY <1>6 DEF QuietStep, Sent
  <2>2. atRisk \subseteq atRisk'
    BY <1>0, <1>6 DEF QuietStep, ProcessMessage
  <2> QED
    BY <1>1, <1>6, <2>1, <2>2 DEF QuietStep, LogsInv
<1> QED
  BY <1>2, <1>3, <1>4, <1>5, <1>6, StepCases

THEOREM LogLists == Spec => []LogsInv
<1>1. Init => RiskInv /\ LogsInv
  BY DEF Init, RiskInv, LogsInv, Sent
<1>2. /\ TypeOK /\ PlacesInv /\ RiskInv /\ LogsInv
      /\ [Next]_vars
      => (RiskInv /\ LogsInv)'
  BY RiskStep, LogsStep
<1> QED
  BY <1>1, <1>2, TypeCorrect, Places, PTL DEF Spec

-----------------------------------------------------------------------------
(* The waits.                                                              *)

WaitInv ==
    /\ \A s \in Sessions : state[s] = "completed" => pc[s] = "end"
    /\ \A s \in Sessions, w \in Waiters :
           wait[s][w] # "idle" => pc[s] \in {"ran", "end"}
    /\ \A s \in DrainFirst : pc[s] = "end" => Returned(s, "owner")

\* What a step may do to one wait.
LEMMA WaitChanges ==
    ASSUME TypeOK, [Next]_vars, NEW s \in Sessions, NEW w \in Waiters
    PROVE  \/ /\ wait'[s][w] = wait[s][w]
           \/ /\ wait[s][w] = "asleep" /\ wait'[s][w] = "checking"
              /\ pc'[s] = pc[s] \/ pc[s] = "register"
           \/ /\ wait[s][w] # "idle" \/ MayWait(s, w)
              /\ wait'[s][w] = "drained" => Drained(s)
              /\ ~Returned(s, w)
              /\ UNCHANGED <<state, pc, sent, done, history, logs>>
<1> USE DEF TypeOK
<1>1. ASSUME wait' = Notified
      PROVE  \/ wait'[s][w] = wait[s][w]
             \/ wait[s][w] = "asleep" /\ wait'[s][w] = "checking"
  <2>1. wait'[s][w] = IF wait[s][w] = "asleep" THEN "checking" ELSE wait[s][w]
    BY <1>1 DEF Notified
  <2> QED
    BY <2>1
<1>2. CASE DrainHeld
  BY <1>1, <1>2 DEF DrainHeld
<1>3. ASSUME NEW t \in Sessions, SessionStep(t)
      PROVE  \/ wait'[s][w] = wait[s][w]
             \/ /\ wait[s][w] = "asleep" /\ wait'[s][w] = "checking"
                /\ pc'[s] = pc[s] \/ pc[s] = "register"
  <2>1. CASE ResetMessagesInTransmit(t)
    <3>1. wait' = Notified \/ wait' = wait
      BY <2>1, Zenon DEF ResetMessagesInTransmit
    <3>2. pc'[s] = pc[s] \/ pc[s] = "register"
      BY <2>1 DEF ResetMessagesInTransmit
    <3> QED
      BY <1>1, <3>1, <3>2
  <2> QED
    BY <1>3, <2>1 DEF SessionStep, StartRunning, RunReturns, Complete
<1>4. ASSUME NEW t \in Sessions, NEW v \in Waiters, WaitStep(t, v)
      PROVE  \/ wait'[s][w] = wait[s][w]
             \/ /\ wait[s][w] # "idle" \/ MayWait(s, w)
                /\ wait'[s][w] = "drained" => Drained(s)
                /\ ~Returned(s, w)
                /\ UNCHANGED <<state, pc, sent, done, history, logs>>
  <2>1. UNCHANGED <<state, pc, sent, done, history, logs>>
    BY <1>4, WaitStepType DEF WaitStates
  <2>2. PICK x \in WaitStates :
           /\ WaitBecomes(t, v, x)
           /\ wait[t][v] # "idle" \/ MayWait(t, v)
           /\ x = "drained" => Drained(t)
           /\ ~Returned(t, v)
    <3>1. CASE WaitStart(t, v)
      <4>1. CASE Drained(t)
        BY <3>1, <4>1 DEF WaitStart, WaitStates, Returned
      <4>2. CASE ~Drained(t)
        BY <3>1, <4>2 DEF WaitStart, WaitStates, Returned
      <4> QED
        BY <4>1, <4>2
    <3>2. CASE WaitCheck(t, v)
      <4>1. CASE Drained(t)
        BY <3>2, <4>1 DEF WaitCheck, WaitStates, Returned
      <4>2. CASE ~Drained(t)
        BY <3>2, <4>2 DEF WaitCheck, WaitStates, Returned
      <4> QED
        BY <4>1, <4>2
    <3>3. CASE WaitBlock(t, v)
      BY <3>3 DEF WaitBlock, WaitStates, Returned
    <3>4. CASE WaitTimeout(t, v)
      <4>1. CASE Drained(t)
        BY <3>4, <4>1 DEF WaitTimeout, WaitStates, Returned
      <4>2. CASE ~Drained(t)
        BY <3>4, <4>2 DEF WaitTimeout, WaitStates, Returned
      <4> QED
        BY <4>1, <4>2
    <3> QED
      BY <1>4, <3>1, <3>2, <3>3, <3>4 DEF WaitStep
  <2>3. CASE s = t /\ w = v
    <3>1. wait'[s][w] = x
      BY <2>2, <2>3 DEF WaitBecomes
    <3> QED
      BY <2>1, <2>2, <2>3, <3>1
  <2>4. CASE ~(s = t /\ w = v)
    BY <2>2, <2>4 DEF WaitBecomes
  <2> QED
    BY <2>3, <2>4
<1>5. ASSUME NEW i \in Ids, NEW fine \in BOOLEAN, Counts(i, fine)
      PROVE  wait' = wait
  BY <1>5 DEF Counts
<1> QED
  BY <1>2, <1>3, <1>4, <1>5, CountsFor
  DEF Next, ReadPlayer, SetLogLevel, OptLogLevel, PushMessage, CallbackStep,
      PopMessage, ProcessMessage, Expire, ClearSessions, Finished, vars

\* What a step may do to the program counter of one session.
LEMMA PcChanges ==
    ASSUME TypeOK, [Next]_vars, NEW s \in Sessions
    PROVE  \/ pc'[s] = pc[s] /\ state'[s] = state[s]
           \/ pc[s] = "new" /\ pc'[s] = "register" /\ state'[s] = "running"
           \/ pc[s] = "register" /\ pc'[s] = "run" /\ state'[s] = state[s]
           \/ pc[s] = "run" /\ pc'[s] = "ran" /\ state'[s] = state[s]
           \/ MayComplete(s) /\ pc'[s] = "end" /\ wait' = wait
<1> USE DEF TypeOK
<1>1. ASSUME NEW t \in Sessions, StartRunning(t) \/ RunReturns(t)
      PROVE  \/ pc'[s] = pc[s] /\ state'[s] = state[s]
             \/ pc[s] = "new" /\ pc'[s] = "register" /\ state'[s] = "running"
             \/ pc[s] = "run" /\ pc'[s] = "ran" /\ state'[s] = state[s]
  BY <1>1 DEF StartRunning, RunReturns
<1>2. ASSUME NEW t \in Sessions, ResetMessagesInTransmit(t)
      PROVE  \/ pc'[s] = pc[s] /\ state'[s] = state[s]
             \/ pc[s] = "register" /\ pc'[s] = "run" /\ state'[s] = state[s]
  BY <1>2 DEF ResetMessagesInTransmit
<1>3. ASSUME NEW t \in Sessions, Complete(t)
      PROVE  \/ pc'[s] = pc[s] /\ state'[s] = state[s]
             \/ MayComplete(s) /\ pc'[s] = "end" /\ wait' = wait
  BY <1>3 DEF Complete
<1>4. ASSUME NEW t \in Sessions, NEW w \in Waiters, WaitStep(t, w)
      PROVE  UNCHANGED <<pc, state>>
  BY <1>4, WaitStepType DEF WaitStates
<1>5. ASSUME NEW i \in Ids, NEW fine \in BOOLEAN, Counts(i, fine)
      PROVE  UNCHANGED <<pc, state>>
  BY <1>5 DEF Counts
<1> QED
  BY <1>1, <1>2, <1>3, <1>4, <1>5, CountsFor
  DEF Next, ReadPlayer, SetLogLevel, OptLogLevel, SessionStep, PushMessage,
      CallbackStep, PopMessage, ProcessMessage, DrainHeld, Expire,
      ClearSessions, Finished, vars

LEMMA WaitInvStep ==
    ASSUME TypeOK, WaitInv, [Next]_vars
    PROVE  WaitInv'
<1>1. ASSUME NEW s \in Sessions
      PROVE  state'[s] = "completed" => pc'[s] = "end"
  BY PcChanges DEF WaitInv
<1>2. ASSUME NEW s \in Sessions, NEW w \in Waiters, wait'[s][w] # "idle"
      PROVE  pc'[s] \in {"ran", "end"}
  <2>1. CASE wait[s][w] # "idle"
    BY <2>1, PcChanges DEF WaitInv, MayComplete
  <2>2. CASE wait[s][w] = "idle"
    <3>1. MayWait(s, w) /\ pc' = pc
      BY <1>2, <2>2, WaitChanges
    <3> QED
      BY <3>1 DEF MayWait, WaitInv
  <2> QED
    BY <2>1, <2>2
<1>3. ASSUME NEW s \in DrainFirst, pc'[s] = "end"
      PROVE  Returned(s, "owner")'
  <2>1. s \in Sessions /\ "owner" \in Waiters
    BY DrainFirstAssumption DEF Waiters
  <2>2. CASE pc[s] = "end"
    <3>1. Returned(s, "owner")
      BY <2>2 DEF WaitInv
    <3>2. wait'[s]["owner"] = wait[s]["owner"]
      BY <2>1, <3>1, WaitChanges DEF Returned
    <3> QED
      BY <3>1, <3>2 DEF Returned
  <2>3. CASE pc[s] # "end"
    <3>1. MayComplete(s) /\ wait' = wait
      BY <1>3, <2>1, <2>3, PcChanges
    <3> QED
      BY <3>1 DEF MayComplete, Returned
  <2> QED
    BY <2>2, <2>3
<1> QED
  BY <1>1, <1>2, <1>3 DEF WaitInv

THEOREM Waits == Spec => []WaitInv
<1>1. Init => WaitInv
  BY DrainFirstAssumption DEF Init, WaitInv
<1>2. TypeOK /\ WaitInv /\ [Next]_vars => WaitInv'
  BY WaitInvStep
<1> QED
  BY <1>1, <1>2, TypeCorrect, PTL DEF Spec

-----------------------------------------------------------------------------
(* What a wait that was not given up tells.                                *)

DrainedInv ==
    \A s \in Sessions, w \in Waiters :
        wait[s][w] = "drained" => Own(s) \subseteq done

\* A counter that is zero means that nothing of its sessions is on its way.
LEMMA ZeroMeansDone ==
    ASSUME TypeOK, ExactInv, NEW s \in Sessions, Drained(s)
    PROVE  Sent(s) \subseteq done
<1>1. SlotOf(s) \in Slots
  BY SlotOfType DEF Ids
<1>2. Cardinality(InFlightOf(SlotOf(s))) = 0
  BY <1>1 DEF ExactInv, CounterIsExact, Drained
<1>3. InFlightOf(SlotOf(s)) = {}
  <2>1. IsFiniteSet(InFlightOf(SlotOf(s)))
    BY InFlightOfFinite DEF ExactInv
  <2> QED
    BY <1>2, <2>1, FS_EmptySet
<1>4. ASSUME NEW m \in Sent(s)
      PROVE  m \in done
  <2>1. m \in Counted /\ m[1] = s
    BY DEF Counted, Sent, Ids
  <2> QED
    BY <1>3, <2>1 DEF InFlight, InFlightOf
<1> QED
  BY <1>4

\* After the run of a session its threads add nothing to what they sent, and
\* what is done stays done.
LEMMA SentIsFinal ==
    ASSUME TypeOK, [Next]_vars, NEW s \in Sessions, pc[s] \in {"ran", "end"}
    PROVE  Own(s)' \subseteq Own(s) /\ done \subseteq done'
<1>1. ASSUME NEW i \in Sessions, CountMessage(i)
      PROVE  Own(s)' \subseteq Own(s) /\ done' = done
  <2>1. i # s /\ s \in Ids
    BY <1>1 DEF CountMessage, MayLog, Ids
  <2>2. sent'[s] = sent[s] /\ foreign' = foreign /\ done' = done
    BY <1>1, <2>1 DEF CountMessage, Counts, TypeOK
  <2> QED
    BY <2>2 DEF Own, Sent
<1>2. ASSUME NEW t \in Strangers, CountForeign(t)
      PROVE  Own(s)' \subseteq Own(s) /\ done' = done
  <2>1. PICK fine \in BOOLEAN : Counts(borrowed[t], fine)
    BY <1>2 DEF CountForeign
  <2> DEFINE i == borrowed[t]
             new == <<i, sent[i] + 1>>
  <2>2. i \in Ids /\ s \in Ids
    BY <1>2, CountsFor DEF Ids
  <2>3. done' = done /\ foreign' = foreign \cup {new}
    BY <1>2, <2>1 DEF CountForeign, Counts
  <2>4. sent \in [Ids -> Nat] /\ sent' = [sent EXCEPT ![i] = @ + 1]
    BY <2>1 DEF Counts, TypeOK
  <2> HIDE DEF i
  <2>5. Sent(s)' \subseteq Sent(s) \cup {new}
    BY <2>2, <2>4 DEF Sent
  <2> HIDE DEF new
  <2> QED
    BY <2>3, <2>5 DEF Own
<1>3. ASSUME UNCHANGED <<sent, foreign>>, done \subseteq done'
      PROVE  Own(s)' \subseteq Own(s) /\ done \subseteq done'
  BY <1>3 DEF Own, Sent
<1>4. ASSUME NEW t \in Sessions, NEW w \in Waiters, WaitStep(t, w)
      PROVE  UNCHANGED <<sent, foreign, done>>
  BY <1>4, WaitStepType DEF TypeOK, WaitStates
<1> QED
  BY <1>1, <1>2, <1>3, <1>4
  DEF Next, ReadPlayer, SetLogLevel, OptLogLevel, PushMessage, CallbackStep,
      PopMessage, ProcessMessage, DrainHeld, SessionStep, StartRunning,
      ResetMessagesInTransmit, RunReturns, Complete, Expire, ClearSessions,
      Finished, vars

LEMMA DrainedStep ==
    ASSUME TypeOK, ExactInv, WaitInv, DrainedInv, [Next]_vars
    PROVE  DrainedInv'
<1> SUFFICES ASSUME NEW s \in Sessions, NEW w \in Waiters,
                    wait'[s][w] = "drained"
             PROVE  Own(s)' \subseteq done'
  BY DEF DrainedInv
<1>1. CASE wait[s][w] = "drained"
  <2>1. pc[s] \in {"ran", "end"}
    BY <1>1 DEF WaitInv
  <2> QED
    BY <1>1, <2>1, SentIsFinal DEF DrainedInv
<1>2. CASE wait[s][w] # "drained"
  <2>1. Drained(s) /\ UNCHANGED <<sent, done>>
    BY <1>2, WaitChanges
  <2> QED
    BY <2>1, ZeroMeansDone DEF Own, Sent
<1> QED
  BY <1>1, <1>2

\* What is done is in the log list of a session that was not forgotten.
LEMMA DoneIsWhole ==
    ASSUME TypeOK, LogsInv, NEW s \in Sessions, s \in history,
           Own(s) \subseteq done
    PROVE  Whole(s)
<1>1. DOMAIN logs[s] = 1..Len(logs[s])
  BY LenProperties DEF TypeOK
<1>2. Own(s) \subseteq Sent(s)
  BY DEF Own
<1> QED
  BY <1>1, <1>2 DEF LogsInv, Whole, Logged

(* getAllLogs returns everything the session logged and a lowered level    *)
(* did not cost, when it did not give up waiting and the session was not   *)
(* forgotten (builds that do not reset the counters).                      *)
THEOREM DrainedOutput ==
    ASSUME ResetsCounter = FALSE
    PROVE  Spec => []DrainedOutputIsWhole
<1>1. Init => ExactInv /\ DrainedInv
  <2> SUFFICES ASSUME Init
               PROVE  ExactInv /\ DrainedInv
    OBVIOUS
  <2>1. InFlight = {}
    BY DEF Init, InFlight, Counted, Sent
  <2>2. \A k \in Slots : InFlightOf(k) = {} /\ transit[k] = 0
    BY <2>1 DEF Init, InFlightOf
  <2>3. DrainedInv
    BY DEF Init, DrainedInv
  <2> QED
    BY <2>1, <2>2, <2>3, FS_EmptySet DEF ExactInv, CounterIsExact
<1>2. /\ TypeOK /\ PlacesInv /\ WaitInv /\ ExactInv /\ DrainedInv
      /\ [Next]_vars
      => (ExactInv /\ DrainedInv)'
  BY ExactStep, DrainedStep
<1>3. TypeOK /\ LogsInv /\ DrainedInv => DrainedOutputIsWhole
  BY DoneIsWhole DEF DrainedInv, DrainedOutputIsWhole
<1> QED
  BY <1>1, <1>2, <1>3, TypeCorrect, Places, LogLists, Waits, PTL DEF Spec

(* The final output of a session that drains first is ready when it is     *)
(* COMPLETED (FFmpegKitConfig.cpp ffmpegExecute), but for a lowered level, *)
(* in a build that does not reset the counters.                            *)
THEOREM FinalOutput ==
    ASSUME ResetsCounter = FALSE
    PROVE  Spec => []FinalOutputIsReady
<1>1. WaitInv /\ DrainedOutputIsWhole => FinalOutputIsReady
  BY DrainFirstAssumption
  DEF WaitInv, DrainedOutputIsWhole, FinalOutputIsReady, Returned, Waiters
<1> QED
  BY <1>1, DrainedOutput, Waits, PTL

(* Both: whoever saw a counter at zero has the whole output, but for the   *)
(* messages that were on their way when the log level was lowered below    *)
(* them.                                                                   *)
THEOREM WholeOutput ==
    ASSUME ResetsCounter = FALSE
    PROVE  Spec => []OutputIsWhole
<1>1. DrainedOutputIsWhole /\ FinalOutputIsReady => OutputIsWhole
  BY DEF OutputIsWhole
<1> QED
  BY <1>1, DrainedOutput, FinalOutput, PTL
=============================================================================
