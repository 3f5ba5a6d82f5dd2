--------------------------- MODULE SessionProofs ---------------------------
(***************************************************************************)
(* Proofs about sessions: the history of those that clients can still find *)
(* (SessionHistory), for every set of threads, every size the clients ask  *)
(* for and any number of sessions; and whose turn it is to play            *)
(* (FFplayHandoff), for any number of sessions.                            *)
(***************************************************************************)
EXTENDS SessionHistory, FFplayHandoff, TLAPS


-----------------------------------------------------------------------------
(* Type correctness.                                                       *)

\* The first session can be deleted: the history is not empty.
LEMMA ExpiredType ==
    ASSUME HistoryTypeOK, Expired
    PROVE  list # <<>> /\ Head(list) \in Ids /\ Tail(list) \in Seq(Ids)
<1>1. Len(list) > 0
  BY DEF HistoryTypeOK, Expired
<1> QED
  BY <1>1 DEF HistoryTypeOK

LEMMA HistoryTypeOKStep ==
    ASSUME HistoryTypeOK, [HistoryNext]_historyVars
    PROVE  HistoryTypeOK'
<1> USE SizesAssumption DEF HistoryTypeOK, Moves
<1>1. ASSUME NEW t \in Threads, CreateSession(t)
      PROVE  HistoryTypeOK'
  <2>1. nextId' \in 1..(MaxSessions + 1)
    BY <1>1 DEF CreateSession, Ids
  <2> QED
    BY <1>1, <2>1 DEF CreateSession
<1>2. ASSUME NEW t \in Threads, AddSession(t)
      PROVE  HistoryTypeOK'
  <2>1. new[t] \in Ids
    BY <1>2 DEF AddSession
  <2> QED
    BY <1>2, <2>1 DEF AddSession
<1>3. ASSUME NEW t \in Threads, NEW n \in Sizes, WriteSize(t, n)
      PROVE  HistoryTypeOK'
  <2>1. historySize' \in Nat \ {0}
    BY <1>3 DEF WriteSize
  <2> QED
    BY <1>3, <2>1 DEF WriteSize
<1>4. ASSUME NEW t \in Threads, StartTrim(t) \/ EndTrim(t)
      PROVE  HistoryTypeOK'
  BY <1>4 DEF StartTrim, EndTrim
<1>9. ASSUME NEW t \in Threads, ClearSessions(t)
      PROVE  HistoryTypeOK'
  <2>1. list' \in Seq(Ids)
    BY <1>9 DEF ClearSessions
  <2> QED
    BY <1>9, <2>1 DEF ClearSessions
<1>5. ASSUME NEW t \in Threads, DeleteExpired(t)
      PROVE  HistoryTypeOK'
  BY <1>5, ExpiredType DEF DeleteExpired
<1>6. ASSUME NEW s \in Ids, StartRunning(s)
      PROVE  HistoryTypeOK'
  BY <1>6 DEF StartRunning
<1>7. ASSUME NEW s \in Ids, NEW how \in {"completed", "failed"},
             EndSession(s, how)
      PROVE  HistoryTypeOK'
  BY <1>7 DEF EndSession
<1>8. CASE UNCHANGED historyVars
  BY <1>8 DEF historyVars
<1> QED
  BY <1>1, <1>2, <1>3, <1>4, <1>5, <1>6, <1>7, <1>8, <1>9 DEF HistoryNext

(* The variables keep their types. *)
THEOREM HistoryTypeCorrect == HistorySpec => []HistoryTypeOK
<1>1. HistoryInit => HistoryTypeOK
  <2>1. 1 \in 1..(MaxSessions + 1) /\ <<>> \in Seq(Ids)
    BY SizesAssumption
  <2> QED
    BY <2>1, SizesAssumption DEF HistoryInit, HistoryTypeOK
<1> QED
  BY <1>1, HistoryTypeOKStep, PTL DEF HistorySpec

-----------------------------------------------------------------------------
(* The inductive invariant.                                                *)

\* The thread that trims holds the mutex.
MutexInv ==
    /\ \A t \in Threads : at[t] = "trim" => mutex = t
    /\ mutex # NoThread => at[mutex] = "trim"

\* A session is in exactly one place: about to be added, found, or gone.
FreshInv ==
    /\ \A s \in Ids : state[s] = "none" <=> s >= nextId
    /\ \A s \in map \cup cleared : s < nextId
    /\ \A t \in Threads : at[t] = "add" =>
          /\ new[t] < nextId /\ new[t] \notin map
          /\ \A u \in Threads : at[u] = "add" /\ u # t => new[u] # new[t]

IInv == MutexInv /\ FreshInv /\ ListMatchesMap /\ LiveSessionsAreKept
        /\ ExcessIsBlocked

LEMMA MutexInvStep ==
    ASSUME HistoryTypeOK, MutexInv, [HistoryNext]_historyVars
    PROVE  MutexInv'
<1> USE ThreadsAssumption DEF HistoryTypeOK, MutexInv, Moves
<1>1. ASSUME NEW t \in Threads, CreateSession(t) \/ AddSession(t)
      PROVE  MutexInv'
  BY <1>1 DEF CreateSession, AddSession
<1>2. ASSUME NEW t \in Threads, NEW n \in Sizes, WriteSize(t, n)
      PROVE  MutexInv'
  BY <1>2 DEF WriteSize
<1>3. ASSUME NEW t \in Threads, StartTrim(t) \/ EndTrim(t)
      PROVE  MutexInv'
  BY <1>3 DEF StartTrim, EndTrim
<1>4. ASSUME UNCHANGED <<at, mutex>>
      PROVE  MutexInv'
  BY <1>4
<1> QED
  BY <1>1, <1>2, <1>3, <1>4
  DEF HistoryNext, DeleteExpired, ClearSessions, StartRunning, EndSession, historyVars

LEMMA FreshInvStep ==
    ASSUME HistoryTypeOK, FreshInv, [HistoryNext]_historyVars
    PROVE  FreshInv'
<1> USE DEF HistoryTypeOK, FreshInv, Moves, Ids
<1>1. ASSUME NEW t \in Threads, CreateSession(t)
      PROVE  FreshInv'
  BY <1>1 DEF CreateSession
<1>2. ASSUME NEW t \in Threads, AddSession(t)
      PROVE  FreshInv'
  BY <1>2 DEF AddSession
<1>3. ASSUME NEW t \in Threads, NEW n \in Sizes, WriteSize(t, n)
      PROVE  FreshInv'
  BY <1>3 DEF WriteSize
<1>4. ASSUME NEW t \in Threads,
             StartTrim(t) \/ EndTrim(t) \/ ClearSessions(t)
      PROVE  FreshInv'
  BY <1>4 DEF StartTrim, EndTrim, ClearSessions
<1>5. ASSUME NEW t \in Threads, DeleteExpired(t)
      PROVE  FreshInv'
  BY <1>5 DEF DeleteExpired
<1>6. ASSUME NEW s \in Ids, StartRunning(s)
      PROVE  FreshInv'
  BY <1>6 DEF StartRunning
<1>7. ASSUME NEW s \in Ids, NEW how \in {"completed", "failed"},
             EndSession(s, how)
      PROVE  FreshInv'
  BY <1>7 DEF EndSession
<1>8. CASE UNCHANGED historyVars
  BY <1>8 DEF historyVars
<1> QED
  BY <1>1, <1>2, <1>3, <1>4, <1>5, <1>6, <1>7, <1>8 DEF HistoryNext

LEMMA ListMatchesMapStep ==
    ASSUME HistoryTypeOK, FreshInv, ListMatchesMap, [HistoryNext]_historyVars
    PROVE  ListMatchesMap'
<1> USE DEF HistoryTypeOK, ListMatchesMap
<1>1. ASSUME NEW t \in Threads, AddSession(t)
      PROVE  ListMatchesMap'
  <2>1. new[t] \in Ids /\ new[t] \notin map
        /\ list' = Append(list, new[t]) /\ map' = map \cup {new[t]}
    BY <1>1 DEF AddSession, Moves, FreshInv
  <2> QED
    BY <2>1
<1>2. ASSUME NEW t \in Threads, DeleteExpired(t)
      PROVE  ListMatchesMap'
  <2>1. list # <<>> /\ list' = Tail(list) /\ map' = map \ {Head(list)}
    BY <1>2, ExpiredType DEF DeleteExpired
  <2>2. /\ Len(list') = Len(list) - 1
        /\ \A i \in 1..Len(list') : list'[i] = list[i + 1]
        /\ Head(list) = list[1]
    BY <2>1
  <2>3. \A i, j \in 1..Len(list') : list'[i] = list'[j] => i = j
    <3> SUFFICES ASSUME NEW i \in 1..Len(list'), NEW j \in 1..Len(list'), list'[i] = list'[j]
                 PROVE  i = j
      OBVIOUS
    <3>0. Len(list) \in Nat
      OBVIOUS
    <3>1. i \in Nat /\ j \in Nat /\ i + 1 \in 1..Len(list) /\ j + 1 \in 1..Len(list)
      BY <2>2, <3>0
    <3>2. list[i + 1] = list[j + 1]
      BY <2>2
    <3>3. i + 1 = j + 1
      BY <3>1, <3>2
    <3> QED
      BY <3>1, <3>3
  <2>4. \A s \in Ids : s \in map' => \E i \in 1..Len(list') : list'[i] = s
    <3> SUFFICES ASSUME NEW s \in Ids, s \in map'
                 PROVE  \E i \in 1..Len(list') : list'[i] = s
      OBVIOUS
    <3>0. s \in map
      BY <2>1
    <3>3. s \in map <=> \E i \in 1..Len(list) : list[i] = s
      OBVIOUS
    <3>1. PICK i \in 1..Len(list) : list[i] = s
      BY <3>0, <3>3
    <3>2. i # 1
      BY <2>1, <2>2, <3>1
    <3>4. i - 1 \in 1..Len(list') /\ list[i - 1 + 1] = s
      BY <2>2, <3>1, <3>2
    <3> QED
      BY <2>2, <3>4
  <2>5. \A s \in Ids : (\E i \in 1..Len(list') : list'[i] = s) => s \in map'
    <3> SUFFICES ASSUME NEW s \in Ids, NEW i \in 1..Len(list'), list'[i] = s
                 PROVE  s \in map'
      OBVIOUS
    <3>1. list[i + 1] = s /\ i + 1 \in 1..Len(list) /\ 1 \in 1..Len(list)
      BY <2>1, <2>2
    <3>2. s # Head(list)
      BY <2>2, <3>1
    <3> QED
      BY <2>1, <3>1, <3>2
  <2> QED
    BY <2>3, <2>4, <2>5
<1>3. ASSUME NEW t \in Threads, ClearSessions(t)
      PROVE  ListMatchesMap'
  BY <1>3 DEF ClearSessions
<1>4. ASSUME UNCHANGED <<list, map>>
      PROVE  ListMatchesMap'
  BY <1>4
<1> QED
  BY <1>1, <1>2, <1>3, <1>4
  DEF HistoryNext, CreateSession, WriteSize, StartTrim, EndTrim, StartRunning,
      EndSession, historyVars

LEMMA LiveSessionsAreKeptStep ==
    ASSUME HistoryTypeOK, FreshInv, LiveSessionsAreKept, [HistoryNext]_historyVars
    PROVE  LiveSessionsAreKept'
<1> USE DEF HistoryTypeOK, LiveSessionsAreKept, Moves, Live
<1>1. ASSUME NEW t \in Threads, CreateSession(t)
      PROVE  LiveSessionsAreKept'
  <2>1. \A u \in Threads : at[u] = "add" =>
           at'[u] = "add" /\ new'[u] = new[u]
    BY <1>1 DEF CreateSession
  <2>2. at'[t] = "add" /\ new'[t] = nextId
    BY <1>1 DEF CreateSession
  <2> QED
    BY <1>1, <2>1, <2>2 DEF CreateSession
<1>2. ASSUME NEW t \in Threads, AddSession(t)
      PROVE  LiveSessionsAreKept'
  <2>1. \A u \in Threads : at[u] = "add" /\ u # t =>
           at'[u] = "add" /\ new'[u] = new[u]
    BY <1>2 DEF AddSession
  <2>2. map' = map \cup {new[t]} /\ state' = state /\ cleared' = cleared
    BY <1>2 DEF AddSession
  <2> SUFFICES ASSUME NEW s \in Ids, Live(s)
               PROVE  \/ s \in map' \cup cleared'
                      \/ \E u \in Threads : at'[u] = "add" /\ new'[u] = s
    BY <2>2
  <2>3. CASE s \in map \cup cleared
    BY <2>2, <2>3
  <2>4. ASSUME NEW u \in Threads, at[u] = "add", new[u] = s
        PROVE  \/ s \in map' \cup cleared'
               \/ \E v \in Threads : at'[v] = "add" /\ new'[v] = s
    BY <2>1, <2>2, <2>4
  <2> QED
    BY <2>3, <2>4
<1>3. ASSUME NEW t \in Threads, NEW n \in Sizes, WriteSize(t, n)
      PROVE  LiveSessionsAreKept'
  BY <1>3 DEF WriteSize
<1>4. ASSUME NEW t \in Threads,
             StartTrim(t) \/ EndTrim(t) \/ ClearSessions(t)
      PROVE  LiveSessionsAreKept'
  BY <1>4 DEF StartTrim, EndTrim, ClearSessions
<1>5. ASSUME NEW t \in Threads, DeleteExpired(t)
      PROVE  LiveSessionsAreKept'
  BY <1>5 DEF DeleteExpired, Expired
<1>6. ASSUME NEW s \in Ids, StartRunning(s)
      PROVE  LiveSessionsAreKept'
  BY <1>6 DEF StartRunning
<1>7. ASSUME NEW s \in Ids, NEW how \in {"completed", "failed"},
             EndSession(s, how)
      PROVE  LiveSessionsAreKept'
  BY <1>7 DEF EndSession
<1>8. CASE UNCHANGED historyVars
  BY <1>8 DEF historyVars
<1> QED
  BY <1>1, <1>2, <1>3, <1>4, <1>5, <1>6, <1>7, <1>8 DEF HistoryNext

LEMMA ExcessIsBlockedStep ==
    ASSUME HistoryTypeOK, ExcessIsBlocked, [HistoryNext]_historyVars
    PROVE  ExcessIsBlocked'
<1> USE DEF HistoryTypeOK, ExcessIsBlocked, Moves, Live
<1>1. ASSUME NEW t \in Threads, at'[t] \in {"resize", "trim"}
      PROVE  ExcessIsBlocked'
  BY <1>1
<1>2. ASSUME NEW t \in Threads,
             \/ AddSession(t) \/ StartTrim(t) \/ DeleteExpired(t)
             \/ \E n \in Sizes : WriteSize(t, n)
      PROVE  ExcessIsBlocked'
  <2>1. at'[t] \in {"resize", "trim"}
    BY <1>2 DEF AddSession, WriteSize, StartTrim, DeleteExpired
  <2> QED
    BY <1>1, <2>1
<1>3. ASSUME NEW t \in Threads, CreateSession(t)
      PROVE  ExcessIsBlocked'
  <2>1. \A u \in Threads : at[u] \in {"resize", "trim"} => at'[u] = at[u]
    BY <1>3 DEF CreateSession
  <2>2. \A s \in Ids : state[s] \in {"created", "running"} =>
                        state'[s] \in {"created", "running"}
    BY <1>3 DEF CreateSession
  <2>3. Len(list) > historySize => Head(list) \in Ids
    OBVIOUS
  <2> QED
    BY <1>3, <2>1, <2>2, <2>3 DEF CreateSession
<1>4. ASSUME NEW t \in Threads, EndTrim(t)
      PROVE  ExcessIsBlocked'
  BY <1>4 DEF EndTrim, Expired
<1>5. ASSUME NEW t \in Threads, ClearSessions(t)
      PROVE  ExcessIsBlocked'
  BY <1>5 DEF ClearSessions
<1>6. ASSUME NEW s \in Ids, StartRunning(s)
      PROVE  ExcessIsBlocked'
  BY <1>6 DEF StartRunning
<1>7. ASSUME NEW s \in Ids, NEW how \in {"completed", "failed"},
             EndSession(s, how)
      PROVE  ExcessIsBlocked'
  <2>1. late' = late \cup {s} /\ UNCHANGED <<list, historySize, at>>
    BY <1>7 DEF EndSession
  <2>2. \A r \in Ids : r # s => state'[r] = state[r]
    BY <1>7 DEF EndSession
  <2>3. Len(list) > historySize => Head(list) \in Ids
    OBVIOUS
  <2> QED
    BY <2>1, <2>2, <2>3
<1>8. CASE UNCHANGED historyVars
  BY <1>8 DEF historyVars
<1> QED
  BY <1>2, <1>3, <1>4, <1>5, <1>6, <1>7, <1>8 DEF HistoryNext

-----------------------------------------------------------------------------
LEMMA Inductive == HistorySpec => [](HistoryTypeOK /\ IInv)
<1>1. HistoryInit => IInv
  BY SizesAssumption
  DEF HistoryInit, IInv, MutexInv, FreshInv, ListMatchesMap, LiveSessionsAreKept,
      ExcessIsBlocked, Live, Ids
<1>2. HistoryTypeOK /\ IInv /\ [HistoryNext]_historyVars => IInv'
  BY MutexInvStep, FreshInvStep, ListMatchesMapStep, LiveSessionsAreKeptStep,
     ExcessIsBlockedStep DEF IInv
<1> QED
  BY <1>1, <1>2, HistoryTypeCorrect, PTL DEF HistorySpec

(* The list and the map always hold the same sessions, each once. *)
THEOREM ListAndMapAgree == HistorySpec => []ListMatchesMap
<1>1. IInv => ListMatchesMap
  BY DEF IInv
<1> QED
  BY <1>1, Inductive, PTL

(* No CREATED or RUNNING session ever expires. *)
THEOREM LiveSessionsStay == HistorySpec => []LiveSessionsAreKept
<1>1. IInv => LiveSessionsAreKept
  BY DEF IInv
<1> QED
  BY <1>1, Inductive, PTL

(* The history exceeds its size only behind a session that was live when   *)
(* it was last trimmed, or until a pending trim is done.                   *)
THEOREM ExcessHasACause == HistorySpec => []ExcessIsBlocked
<1>1. IInv => ExcessIsBlocked
  BY DEF IInv
<1> QED
  BY <1>1, Inductive, PTL

-----------------------------------------------------------------------------
(* Whose turn it is to play.                                               *)

LEMMA InitTypeOK == Init => TypeOK
<1> SUFFICES ASSUME Init PROVE TypeOK
    OBVIOUS
<1>1. attached \in [Sessions -> BOOLEAN] /\ quit \in BOOLEAN /\ gaveUp \in BOOLEAN
    BY Zenon DEF Init
<1>2. pc \in [Sessions -> {"created"}]
    BY DEF Init
<1>3. word \in [Sessions -> 0..2] /\ ticket \in [Sessions -> Nat]
    BY DEF Init
<1>4. QED
    BY <1>1, <1>2, <1>3 DEF Init, TypeOK

LEMMA StepTypeOK == TypeOK /\ [Next]_vars => TypeOK'
<1> SUFFICES ASSUME TypeOK, [Next]_vars PROVE TypeOK'
    OBVIOUS
<1> USE SessionsAssumption DEF TypeOK, Goes, ghosts
<1>1. ASSUME NEW s \in Sessions, ExchangeActive(s) PROVE TypeOK'
    BY <1>1 DEF ExchangeActive
<1>2. ASSUME NEW s \in Sessions, CancelPrevious(s) PROVE TypeOK'
    BY <1>2 DEF CancelPrevious
<1>3. ASSUME NEW s \in Sessions, PreviousCompletes(s) PROVE TypeOK'
    <2>1. gaveUp' \in BOOLEAN
        BY <1>3, Zenon DEF PreviousCompletes
    <2>2. QED
        BY <1>3, <2>1 DEF PreviousCompletes
<1>16. ASSUME NEW s \in Sessions, WaitTimesOut(s) PROVE TypeOK'
    BY <1>16 DEF WaitTimesOut, Release
<1>4. ASSUME NEW s \in Sessions, RegisterSessionId(s) \/ InitFindsNone(s)
      PROVE  TypeOK'
    BY <1>4 DEF RegisterSessionId, InitFindsNone
<1>5. ASSUME NEW s \in Sessions, InitFindsActive(s) PROVE TypeOK'
    <2>1. quit' \in BOOLEAN
        BY <1>5, Zenon DEF InitFindsActive
    <2>2. QED
        BY <1>5, <2>1 DEF InitFindsActive
<1>6. ASSUME NEW s \in Sessions, InitFails(s) PROVE TypeOK'
    <2>1. quit' \in BOOLEAN
        BY <1>6, Zenon DEF InitFails
    <2>2. word' \in [Sessions -> 0..2]
        BY <1>6 DEF InitFails
    <2>3. QED
        BY <1>6, <2>1, <2>2 DEF InitFails
<1>12. ASSUME NEW s \in Sessions, Publish(s) PROVE TypeOK'
    BY <1>12 DEF Publish
<1>15. ASSUME NEW s \in Sessions, Attach(s) PROVE TypeOK'
    <2>1. attached' \in [Sessions -> BOOLEAN]
        BY <1>15, Zenon DEF Attach
    <2>2. QED
        BY <1>15, <2>1 DEF Attach
<1>13. ASSUME NEW s \in Sessions, PlayEnds(s) PROVE TypeOK'
    <2>1. quit' \in BOOLEAN
        BY <1>13, Zenon DEF PlayEnds
    <2>2. word' \in [Sessions -> 0..2]
        BY <1>13 DEF PlayEnds
    <2>3. attached' \in [Sessions -> BOOLEAN]
        BY <1>13, Zenon DEF PlayEnds
    <2>4. QED
        BY <1>13, <2>1, <2>2, <2>3 DEF PlayEnds
<1>7. ASSUME NEW s \in Sessions, FreeContext(s) \/ QuitSDL(s) PROVE TypeOK'
    BY <1>7 DEF FreeContext, QuitSDL
<1>8. ASSUME NEW s \in Sessions, ReleaseActive(s) \/ Complete(s)
      PROVE  TypeOK'
    BY <1>8 DEF ReleaseActive, Complete, Release
<1>9. ASSUME NEW s \in Sessions, Close(s) PROVE TypeOK'
    <2>1. attached' \in [Sessions -> BOOLEAN]
        BY <1>9, Zenon DEF Close
    <2>2. QED
        BY <1>9, <2>1 DEF Close
<1>14. ASSUME NEW s \in Sessions, CancelById(s) PROVE TypeOK'
    BY <1>14 DEF CancelById
<1>10. CASE Rest \/ UNCHANGED vars
    BY <1>10 DEF Rest, vars
<1>11. QED
    BY <1>1, <1>2, <1>3, <1>4, <1>5, <1>6, <1>7, <1>8, <1>9, <1>10,
       <1>12, <1>13, <1>14, <1>15, <1>16 DEF Next, SessionStep

(* The variables of FFplayHandoff keep their types, and a session that     *)
(* waits (FFmpegKitConfig.cpp ffplayExecute) has someone to wait for.      *)
THEOREM TypeCorrect == Spec => []TypeOK
<1>1. QED
    BY InitTypeOK, StepTypeOK, PTL DEF Spec

-----------------------------------------------------------------------------
(* activeFFplaySessionId and active_ffplay_ctx, whatever times out.        *)

(* The sessions past their compare_exchange.                               *)
Past(s) == pc[s] \in {"complete", "completed", "fail", "failed"}
ActiveIsNotPast == active # 0 => ~Past(active)

PointersInv == TypeOK /\ ActiveIsNotPast /\ PlayingContextIsAlive

LEMMA StepPointers == PointersInv /\ [Next]_vars => PointersInv'
<1> SUFFICES ASSUME PointersInv, [Next]_vars PROVE PointersInv'
    OBVIOUS
<1>t. TypeOK'
    BY StepTypeOK DEF PointersInv
<1> USE SessionsAssumption DEF PointersInv, TypeOK, ActiveIsNotPast, Past,
        PlayingContextIsAlive, Goes, ghosts
<1>1. ASSUME NEW s \in Sessions, ExchangeActive(s) PROVE PointersInv'
    BY <1>t, <1>1 DEF ExchangeActive
<1>2. ASSUME NEW s \in Sessions,
             \/ CancelPrevious(s) \/ PreviousCompletes(s)
             \/ RegisterSessionId(s)
      PROVE  PointersInv'
    BY <1>t, <1>2 DEF CancelPrevious, PreviousCompletes, RegisterSessionId
<1>10. ASSUME NEW s \in Sessions, InitFindsActive(s) PROVE PointersInv'
    BY <1>t, <1>10 DEF InitFindsActive
<1>11. ASSUME NEW s \in Sessions, InitFindsNone(s) \/ InitFails(s)
      PROVE  PointersInv'
    BY <1>t, <1>11 DEF InitFindsNone, InitFails
<1>3. ASSUME NEW s \in Sessions, WaitTimesOut(s) \/ ReleaseActive(s)
      PROVE  PointersInv'
    BY <1>t, <1>3 DEF WaitTimesOut, ReleaseActive, Release
<1>4. ASSUME NEW s \in Sessions, Publish(s) \/ Attach(s) \/ PlayEnds(s)
      PROVE  PointersInv'
    BY <1>t, <1>4 DEF Publish, Attach, PlayEnds
<1>5. ASSUME NEW s \in Sessions, FreeContext(s) \/ QuitSDL(s)
      PROVE  PointersInv'
    BY <1>t, <1>5 DEF FreeContext, QuitSDL
<1>6. ASSUME NEW s \in Sessions, Complete(s) PROVE PointersInv'
    BY <1>t, <1>6 DEF Complete
<1>7. ASSUME NEW s \in Sessions, Close(s) \/ CancelById(s)
      PROVE  PointersInv'
    BY <1>t, <1>7 DEF Close, CancelById
<1>8. CASE Rest \/ UNCHANGED vars
    BY <1>t, <1>8 DEF Rest, vars
<1>9. QED
    BY <1>1, <1>2, <1>3, <1>4, <1>5, <1>6, <1>7, <1>8, <1>10, <1>11
       DEF Next, SessionStep

LEMMA PointersHold == Spec => []PointersInv
<1>1. Init => PointersInv
    BY InitTypeOK
       DEF Init, PointersInv, ActiveIsNotPast, PlayingContextIsAlive
<1>2. QED
    BY <1>1, StepPointers, PTL DEF Spec

(* getActiveFFplaySession (FFmpegKitConfig.cpp) never answers with a       *)
(* session that has ended: every way out of ffplayExecute gives the id     *)
(* back before the state becomes terminal.                                 *)
THEOREM ActiveIsLive == Spec => []ActiveHasNotEnded
<1>1. PointersInv => ActiveHasNotEnded
    BY DEF PointersInv, ActiveIsNotPast, ActiveHasNotEnded, Past, Terminal
<1>2. QED
    BY <1>1, PointersHold, PTL

(* active_ffplay_ctx (ffplay_lib.c) never points to a freed context, even  *)
(* when two sessions play and the second overwrites it.                    *)
THEOREM PlayingIsAlive == Spec => []PlayingContextIsAlive
<1>1. PointersInv => PlayingContextIsAlive
    BY DEF PointersInv
<1>2. QED
    BY <1>1, PointersHold, PTL

-----------------------------------------------------------------------------
(* One session plays at a time, when no wait gives up.                     *)

(* The phases of a session: to start, to wait, in its turn, past it.       *)
Phase(p) == CASE p = "created" -> 0
              [] p \in {"cancel", "wait"} -> 1
              [] p \in {"complete", "completed", "fail", "failed"} -> 3
              [] OTHER -> 2

Started(s) == Phase(pc[s]) # 0
Waits(s) == Phase(pc[s]) = 1
Moved(s) == Phase(pc[s]) \in {2, 3}
Gone(s) == Phase(pc[s]) = 3

(* Tickets number the sessions in the order of their exchanges.            *)
TicketsInv ==
    /\ \A s \in Sessions : Started(s) => ticket[s] \in 1..tickets
    /\ \A s, t \in Sessions :
           Started(s) /\ Started(t) /\ ticket[s] = ticket[t] => s = t

(* The active session is the last to have started; when there is none,     *)
(* everyone is past.                                                       *)
ActiveInv ==
    /\ active = 0 => \A s \in Sessions : Started(s) => Gone(s)
    /\ active # 0 => Started(active) /\ ticket[active] = tickets

(* A session waits for the one that started just before it.                *)
WaitInv ==
    \A s \in Sessions :
        Waits(s) =>
            /\ previous[s] \in Sessions /\ Started(previous[s])
            /\ ticket[previous[s]] + 1 = ticket[s]

(* Who has passed its wait has everyone who started before it behind it.   *)
TurnInv ==
    \A s, t \in Sessions :
        Moved(s) /\ Started(t) /\ ticket[t] < ticket[s] => Gone(t)

QueueInv == TypeOK /\ TicketsInv /\ ActiveInv /\ WaitInv /\ TurnInv

(* A step that moves no session from one of these phases to another and    *)
(* leaves active alone.                                                    *)
SamePhases ==
    /\ UNCHANGED <<active, previous, ticket, tickets>>
    /\ \A t \in Sessions : Phase(pc'[t]) = Phase(pc[t])

LEMMA PhasesSuffice == QueueInv /\ TypeOK' /\ SamePhases => QueueInv'
<1> SUFFICES ASSUME QueueInv, TypeOK', SamePhases PROVE QueueInv'
    OBVIOUS
<1>u. /\ active' = active /\ previous' = previous
      /\ ticket' = ticket /\ tickets' = tickets
    BY DEF SamePhases
<1>p. \A t \in Sessions : Phase(pc'[t]) = Phase(pc[t])
    BY DEF SamePhases
<1>1. TicketsInv'
    BY <1>u, <1>p
       DEF QueueInv, TicketsInv, Started, Moved, Waits, Gone
<1>2. ActiveInv'
    BY <1>u, <1>p
       DEF QueueInv, TypeOK, ActiveInv, Started, Moved, Waits, Gone
<1>3. WaitInv'
    BY <1>u, <1>p
       DEF QueueInv, WaitInv, Started, Moved, Waits, Gone
<1>4. TurnInv'
    BY <1>u, <1>p
       DEF QueueInv, TurnInv, Started, Moved, Waits, Gone
<1>5. QED
    BY <1>1, <1>2, <1>3, <1>4 DEF QueueInv

(* The steps of a session between its wait and the release of active.      *)
LEMMA StepWithinTurn ==
    ASSUME NEW s \in Sessions, QueueInv, TypeOK',
           \/ RegisterSessionId(s) \/ InitFindsActive(s) \/ InitFindsNone(s)
           \/ InitFails(s) \/ Publish(s) \/ Attach(s) \/ PlayEnds(s)
           \/ FreeContext(s) \/ QuitSDL(s)
    PROVE  QueueInv'
<1> DEFINE Turn == {"register", "init", "clear", "open", "attach", "play",
                    "free", "sdlquit", "release"}
<1>1. /\ pc[s] \in Turn
      /\ \E p \in Turn : pc' = [pc EXCEPT ![s] = p]
      /\ UNCHANGED <<active, previous, ticket, tickets>>
    <2>1. CASE RegisterSessionId(s) \/ InitFindsNone(s)
        BY <2>1 DEF RegisterSessionId, InitFindsNone, Goes, ghosts
    <2>2. CASE InitFindsActive(s)
        BY <2>2 DEF InitFindsActive, Goes, ghosts
    <2>3. CASE InitFails(s)
        BY <2>3 DEF InitFails, Goes, ghosts
    <2>4. CASE Publish(s) \/ Attach(s)
        BY <2>4 DEF Publish, Attach, Goes, ghosts
    <2>5. CASE PlayEnds(s)
        BY <2>5 DEF PlayEnds, Goes, ghosts
    <2>6. CASE FreeContext(s) \/ QuitSDL(s)
        BY <2>6 DEF FreeContext, QuitSDL, Goes, ghosts
    <2>7. QED
        BY <2>1, <2>2, <2>3, <2>4, <2>5, <2>6
<1>2. SamePhases
    BY <1>1 DEF SamePhases, Phase, QueueInv, TypeOK
<1>3. QED
    BY <1>2, PhasesSuffice

LEMMA StepExchange ==
    ASSUME NEW s \in Sessions, QueueInv, TypeOK', ExchangeActive(s)
    PROVE  QueueInv'
<1> DEFINE to == IF active = 0 THEN "register" ELSE "cancel"
<1>1. /\ Phase(pc[s]) = 0 /\ pc' = [pc EXCEPT ![s] = to]
      /\ Phase(to) = IF active = 0 THEN 2 ELSE 1
      /\ active' = s /\ s # 0
      /\ previous' = [previous EXCEPT ![s] = active]
      /\ ticket' = [ticket EXCEPT ![s] = tickets + 1]
      /\ tickets' = tickets + 1
    BY SessionsAssumption DEF ExchangeActive, Goes, Phase
<1> USE DEF QueueInv, TypeOK
<1>2. /\ Phase(pc'[s]) = Phase(to) /\ ticket'[s] = tickets + 1
      /\ \A t \in Sessions \ {s} :
             /\ pc'[t] = pc[t] /\ ticket'[t] = ticket[t]
             /\ previous'[t] = previous[t]
    BY <1>1
<1>3. \A t \in Sessions \ {s} : Phase(pc[t]) # 0 => ticket[t] \in 1..tickets
    BY DEF TicketsInv, Started
<1>4. TicketsInv'
    BY <1>1, <1>2, <1>3 DEF TicketsInv, Started
<1>5. ActiveInv'
    BY <1>1, <1>2 DEF ActiveInv, Started, Gone
<1>6. WaitInv'
    <2> SUFFICES ASSUME NEW t \in Sessions, Phase(pc'[t]) = 1
                 PROVE  /\ previous'[t] \in Sessions
                        /\ Phase(pc'[previous'[t]]) # 0
                        /\ ticket'[previous'[t]] + 1 = ticket'[t]
        BY DEF WaitInv, Waits, Started
    <2>1. CASE t = s
        <3>1. active # 0 /\ previous'[s] = active
            BY <1>1, <1>2, <2>1
        <3>2. active # s /\ Started(active) /\ ticket[active] = tickets
            BY <1>1, <3>1 DEF ActiveInv, Started
        <3>3. QED
            BY <1>2, <2>1, <3>1, <3>2 DEF Started
    <2>2. CASE t # s
        <3>1. /\ previous[t] \in Sessions /\ Started(previous[t])
              /\ ticket[previous[t]] + 1 = ticket[t]
            BY <1>2, <2>2 DEF WaitInv, Waits
        <3>2. previous[t] # s
            BY <1>1, <3>1 DEF Started
        <3>3. QED
            BY <1>2, <2>2, <3>1, <3>2 DEF Started
    <2>3. QED
        BY <2>1, <2>2
<1>7. TurnInv'
    <2> SUFFICES ASSUME NEW r \in Sessions, NEW t \in Sessions,
                        Phase(pc'[r]) \in {2, 3}, Phase(pc'[t]) # 0,
                        ticket'[t] < ticket'[r]
                 PROVE  Phase(pc'[t]) = 3
        BY DEF TurnInv, Moved, Started, Gone
    <2>1. t # s
        BY <1>2, <1>3
    <2>2. CASE r = s
        BY <1>1, <1>2, <2>1, <2>2 DEF ActiveInv, Started, Gone
    <2>3. CASE r # s
        BY <1>2, <2>1, <2>3 DEF TurnInv, Moved, Started, Gone
    <2>4. QED
        BY <2>2, <2>3
<1>8. QED
    BY <1>4, <1>5, <1>6, <1>7

LEMMA StepTurnComes ==
    ASSUME NEW s \in Sessions, QueueInv, TypeOK', ~gaveUp',
           PreviousCompletes(s)
    PROVE  QueueInv'
<1>1. /\ pc[s] = "wait" /\ pc' = [pc EXCEPT ![s] = "register"]
      /\ UNCHANGED <<active, previous, ticket, tickets>>
      /\ pc[previous[s]] \in {"completed", "failed"}
    BY DEF PreviousCompletes, PreviousIsTerminal, Terminal, Goes
<1> USE DEF QueueInv, TypeOK
<1>3. /\ Phase(pc[s]) = 1 /\ Phase(pc'[s]) = 2
      /\ \A t \in Sessions \ {s} : Phase(pc'[t]) = Phase(pc[t])
    BY <1>1 DEF Phase
<1>4. /\ previous[s] \in Sessions /\ Started(previous[s])
      /\ Moved(previous[s]) /\ Gone(previous[s])
      /\ ticket[previous[s]] + 1 = ticket[s]
    BY <1>1, <1>3 DEF WaitInv, Waits, Moved, Gone, Phase
<1>5. TicketsInv'
    BY <1>1, <1>3 DEF TicketsInv, Started
<1>6. ActiveInv'
    BY <1>1, <1>3 DEF ActiveInv, Started, Gone
<1>7. WaitInv'
    BY <1>1, <1>3 DEF WaitInv, Waits, Started
<1>8. \A t \in Sessions : Started(t) /\ ticket[t] < ticket[s] => Gone(t)
    <2> SUFFICES ASSUME NEW t \in Sessions, Started(t),
                        ticket[t] < ticket[s]
                 PROVE  Gone(t)
        OBVIOUS
    <2>1. CASE ticket[t] = ticket[previous[s]]
        BY <1>4, <2>1 DEF TicketsInv
    <2>2. CASE ticket[t] < ticket[previous[s]]
        BY <1>4, <2>2 DEF TurnInv
    <2>3. QED
        BY <1>4, <2>1, <2>2
<1>9. TurnInv'
    BY <1>1, <1>3, <1>8 DEF TurnInv, Moved, Started, Gone
<1>10. QED
    BY <1>5, <1>6, <1>7, <1>9

LEMMA StepRelease ==
    ASSUME NEW s \in Sessions, QueueInv, TypeOK', ReleaseActive(s)
    PROVE  QueueInv'
<1>1. /\ pc[s] = "release" /\ pc' = [pc EXCEPT ![s] = "complete"]
      /\ active' = IF active = s THEN 0 ELSE active
      /\ UNCHANGED <<previous, ticket, tickets>>
    BY DEF ReleaseActive, Release, Goes, ghosts
<1> USE DEF QueueInv, TypeOK
<1>3. /\ Phase(pc[s]) = 2 /\ Phase(pc'[s]) = 3
      /\ \A t \in Sessions \ {s} : Phase(pc'[t]) = Phase(pc[t])
    BY <1>1 DEF Phase
<1>4. Moved(s) /\ Started(s)
    BY <1>3 DEF Moved, Started
<1>5. TicketsInv'
    BY <1>1, <1>3 DEF TicketsInv, Started
<1>6. ActiveInv'
    <2>1. CASE active = s
        <3>1. active' = 0 /\ ticket[s] = tickets
            BY <1>1, <2>1, SessionsAssumption DEF ActiveInv
        <3>2. \A t \in Sessions \ {s} : Started(t) => Gone(t)
            <4> SUFFICES ASSUME NEW t \in Sessions \ {s}, Started(t)
                         PROVE  Gone(t)
                OBVIOUS
            <4>1. ticket[t] < ticket[s]
                BY <1>4, <3>1 DEF TicketsInv
            <4>2. QED
                BY <1>4, <4>1 DEF TurnInv
        <3>3. QED
            BY <1>3, <3>1, <3>2 DEF ActiveInv, Started, Gone
    <2>2. CASE active # s
        BY <1>1, <1>3, <2>2 DEF ActiveInv, Started, Gone
    <2>3. QED
        BY <2>1, <2>2
<1>7. WaitInv'
    BY <1>1, <1>3 DEF WaitInv, Waits, Started
<1>8. TurnInv'
    BY <1>1, <1>3 DEF TurnInv, Moved, Started, Gone
<1>9. QED
    BY <1>5, <1>6, <1>7, <1>8

LEMMA StepQueue ==
    ASSUME QueueInv, ~gaveUp', [Next]_vars
    PROVE  QueueInv'
<1>t. TypeOK'
    BY StepTypeOK DEF QueueInv
<1>1. ASSUME NEW s \in Sessions, CancelPrevious(s) \/ Complete(s)
      PROVE  QueueInv'
    <2>1. /\ UNCHANGED <<active, previous, ticket, tickets>>
          /\ \/ pc[s] = "cancel" /\ pc' = [pc EXCEPT ![s] = "wait"]
             \/ pc[s] = "complete" /\ pc' = [pc EXCEPT ![s] = "completed"]
             \/ pc[s] = "fail" /\ pc' = [pc EXCEPT ![s] = "failed"]
        BY <1>1 DEF CancelPrevious, Complete, Goes, ghosts
    <2>2. SamePhases
        BY <2>1 DEF SamePhases, Phase, QueueInv, TypeOK
    <2>3. QED
        BY <1>t, <2>2, PhasesSuffice
<1>2. ASSUME NEW s \in Sessions, WaitTimesOut(s) PROVE QueueInv'
    BY <1>2 DEF WaitTimesOut
<1>3. CASE UNCHANGED <<pc, active, previous, ticket, tickets>>
    <2>1. SamePhases
        BY <1>3 DEF SamePhases
    <2>2. QED
        BY <1>t, <2>1, PhasesSuffice
<1>4. ASSUME NEW s \in Sessions, Close(s) \/ CancelById(s)
      PROVE  QueueInv'
    BY <1>3, <1>4 DEF Close, CancelById, ghosts
<1>5. CASE Rest \/ UNCHANGED vars
    BY <1>3, <1>5 DEF Rest, vars, ghosts
<1>6. QED
    BY <1>t, <1>1, <1>2, <1>4, <1>5, StepWithinTurn, StepExchange,
       StepTurnComes, StepRelease DEF Next, SessionStep

\* Having given up is for good.
LEMMA GaveUpStays == gaveUp /\ [Next]_vars => gaveUp'
BY DEF Next, SessionStep, ExchangeActive, CancelPrevious, PreviousCompletes,
       WaitTimesOut, RegisterSessionId, InitFindsActive, InitFindsNone,
       InitFails, Publish, Attach, PlayEnds, FreeContext, QuitSDL,
       ReleaseActive, Complete, Close, CancelById, Rest, vars, ghosts

(* "Only one FFplay session can be active at a time"                       *)
(* (src/FFmpegKit/README.md): as long as every session has waited for the  *)
(* end of its predecessor, SDL belongs to one session at a time, in the    *)
(* order of the exchanges of activeFFplaySessionId, for any number of      *)
(* sessions.                                                               *)
THEOREM OnePlays == Spec => []OnePlaysUnlessGivenUp
<1> DEFINE Inv == ~gaveUp => QueueInv
<1>1. Init => QueueInv
    <2> SUFFICES ASSUME Init PROVE QueueInv
        OBVIOUS
    <2>1. active = 0 /\ \A s \in Sessions : pc[s] = "created"
        BY DEF Init
    <2>2. QED
        BY <2>1, InitTypeOK DEF QueueInv, TicketsInv, ActiveInv, WaitInv,
                                TurnInv, Started, Waits, Moved,
                                Phase
<1>2. QueueInv => AtMostOnePlays
    <2> SUFFICES ASSUME QueueInv, NEW s \in Sessions, NEW t \in Sessions,
                        HasSDL(s), HasSDL(t), s # t
                 PROVE  FALSE
        BY DEF AtMostOnePlays
    <2>1. /\ Started(s) /\ Moved(s) /\ ~Gone(s)
          /\ Started(t) /\ Moved(t) /\ ~Gone(t)
        BY DEF HasSDL, Started, Moved, Gone, Phase
    <2>2. ticket[s] # ticket[t] /\ ticket[s] \in Nat /\ ticket[t] \in Nat
        BY <2>1 DEF QueueInv, TicketsInv, TypeOK
    <2>3. ticket[s] < ticket[t] \/ ticket[t] < ticket[s]
        BY <2>2
    <2>4. QED
        BY <2>1, <2>3 DEF QueueInv, TurnInv
<1>3. Inv /\ [Next]_vars => Inv'
    BY StepQueue, GaveUpStays
<1>4. Inv => OnePlaysUnlessGivenUp
    BY <1>2 DEF OnePlaysUnlessGivenUp
<1>5. Spec => []Inv
    <2> HIDE DEF Inv
    <2>1. Init => Inv
        BY <1>1 DEF Inv
    <2>2. QED
        BY <1>3, <2>1, PTL DEF Spec
<1>6. QED
    BY <1>4, <1>5, PTL
=============================================================================
