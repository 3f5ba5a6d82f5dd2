---------------------------- MODULE HttpFetchProofs ----------------------------
(* Proofs about HttpFetch.                                                 *)
EXTENDS HttpFetch, FiniteSetTheorems, TLAPS

(* The streams that hold a request, and those that have not proxied it yet.*)
Uses(r) == \E s \in Streams : io[s].of = r
Early(s) == io[s].at \in {"admission", "proxy"}
Busy(s) == io[s].at \in {"admission", "proxy", "wait", "abandon", "retry", "answer", "release"}

(* Threads have a request when, and only when, they are at work, and no two*)
(* streams have the same one.                                              *)
PlacesInv ==
  /\ \A s \in Streams : io[s].of \in Requests <=> Busy(s)
  /\ \A s \in Streams : io[s].at = "admission" => io[s].want \in Sizes
  /\ main.of \in Requests <=> main.at # "idle"
  /\ callback.of \in Requests <=> callback.at # "idle"
  /\ \A s, t \in Streams : io[s].of \in Requests /\ io[s].of = io[t].of => s = t

(* What has happened to the fetch of a request when the main thread is at  *)
(* some place in its life.                                                 *)
FetchOf(r) ==
  /\ callback.of = r => req[r].fetch \in {"live", "ended"}
  /\ req[r].fetch \in {"live", "ended"} => req[r].fetchHeld
  /\ \A s \in Streams : io[s].of = r /\ Early(s) =>
       req[r].refs = 1 /\ req[r].fetch = "none" /\ ~req[r].closeEnqueued
  /\ "start" \in tasks[r] => req[r].fetch = "none" /\ ~req[r].fetchHeld /\ main.of # r
  /\ "close" \in tasks[r] => req[r].closeEnqueued
  /\ main = [at |-> "fetch", of |-> r] => req[r].fetch = "none" /\ req[r].fetchHeld
  /\ main = [at |-> "issued", of |-> r] => req[r].fetch \in {"live", "ended"}
  /\ main = [at |-> "destroy", of |-> r] =>
       req[r].fetch \in {"live", "ended"} /\ req[r].fetchClosed
  /\ main = [at |-> "cleanup", of |-> r] => req[r].fetch \in {"none", "closed"}
  /\ req[r].fetchClosed => req[r].fetch = "closed" \/ main = [at |-> "destroy", of |-> r]
  /\ req[r].fetch = "closed" => req[r].fetchClosed

FetchInv == \A r \in Requests : FetchOf(r)

(* The references of a session are its owner's and one of each request.    *)
RequestsOf(x) == {r \in Requests : req[r].session = x}
SessionsInv ==
  /\ \A r \in Requests : req[r].session \in Sessions <=> req[r].refs > 0
  /\ \A x \in Sessions :
       session[x].refs = Cardinality(RequestsOf(x)) + One(session[x].state = "installed")
  /\ \A x \in Sessions : session[x].state = "new" => RequestsOf(x) = {}
  /\ \A s \in Streams : io[s].at \notin {"new", "shut"} => session[SessionOf[s]].state = "installed"

Inv == TypeOK /\ ReferencesAreExact /\ PlacesInv /\ FetchInv /\ SessionsInv

-----------------------------------------------------------------------------
(* A set of bounded numbers has a largest: of the intervals above its      *)
(* elements one has no other inside it.                                    *)
LEMMA MaxOfBounded ==
  ASSUME NEW N \in Nat, NEW S \in SUBSET (0 .. N), S # {}
  PROVE  Max(S) \in S
<1> DEFINE Above == {(x + 1) .. N : x \in S}
           Order == StrictSubsetOrdering(0 .. N)
<1>1. IsWellFoundedOn(Order, FiniteSubsetsOf(0 .. N))
    BY FS_StrictSubsetOrderingWellFounded
<1>2. Above \subseteq FiniteSubsetsOf(0 .. N)
    <2>1. SUFFICES ASSUME NEW x \in S PROVE (x + 1) .. N \in FiniteSubsetsOf(0 .. N)
        OBVIOUS
    <2>2. IsFiniteSet((x + 1) .. N)
        BY FS_Interval
    <2>3. (x + 1) .. N \subseteq 0 .. N
        OBVIOUS
    <2>4. QED
        BY <2>2, <2>3 DEF FiniteSubsetsOf
<1>3. PICK T \in Above : \A U \in Above : ~ (<<U, T>> \in Order)
    <2> HIDE DEF Order
    <2>1. Above # {}
        OBVIOUS
    <2> HIDE DEF Above
    <2>2. QED
        BY <1>1, <1>2, <2>1, WFMin
<1>4. PICK x \in S : T = (x + 1) .. N
    BY <1>3
<1>5. ASSUME NEW y \in S PROVE x >= y
    <2>1. SUFFICES ASSUME y > x PROVE FALSE
        OBVIOUS
    <2>2. (y + 1) .. N \in Above
        OBVIOUS
    <2>3. (y + 1) .. N \subseteq T /\ (y + 1) .. N # T
        BY <1>4, <2>1
    <2>4. <<(y + 1) .. N, T>> \in Order
        BY <1>4, <2>3 DEF StrictSubsetOrdering
    <2>5. QED
        BY <1>3, <2>2, <2>4
<1>6. QED
    BY <1>5 DEF Max

(* What is admitted is a size.                                             *)
LEMMA AdmittedIsSize ==
  ASSUME budget \in [refs : Nat, active : Nat, open : Nat, pending : Nat, buffered : Nat],
         NEW size \in Sizes
  PROVE  Admitted(size) \in Nat
<1> DEFINE streams == Max({budget.open, 1})
           Fits(n) == \/ n <= InitialSize
                      \/ n <= RangeMax \div streams /\ n <= Available \div 2
           S == {n \in Sizes : n <= size /\ Fits(n)}
<1>1. InitialSize \in Sizes
    <2>1. InitialSize = InitialSize * 2^0
        BY SizesAssumption
    <2>2. 0 \in 0 .. RangeMax /\ InitialSize \in InitialSize .. RangeMax
        BY SizesAssumption
    <2>3. QED
        BY <2>1, <2>2, Zenon DEF Sizes
<1>2. Sizes \subseteq 0 .. RangeMax
    BY SizesAssumption DEF Sizes
<1>3. InitialSize \in S
    BY <1>1, SizesAssumption DEF Sizes
<1>4. S \in SUBSET (0 .. RangeMax) /\ S # {}
    BY <1>2, <1>3
<1>5. Max(S) \in Nat
    <2> HIDE DEF S
    <2>1. RangeMax \in Nat
        BY SizesAssumption
    <2>2. Max(S) \in S
        BY <1>4, <2>1, MaxOfBounded, Zenon
    <2>3. 0 .. RangeMax \subseteq Nat
        BY <2>1
    <2>4. QED
        BY <1>4, <2>2, <2>3, Zenon
<1>6. Admitted(size) = Max(S)
    BY Zenon DEF Admitted
<1>7. QED
    BY <1>5, <1>6

-----------------------------------------------------------------------------
(* Types.                                                                  *)

Budgets == [refs : Nat, active : Nat, open : Nat, pending : Nat, buffered : Nat]
StreamRecords ==
  [at : {"new", "idle", "admission", "proxy", "wait", "abandon", "retry", "answer", "release",
         "shut"},
   of : Requests \cup {NoRequest}, want : Nat, cache : Nat, loads : Nat]
SessionRecords == [refs : Nat, state : {"new", "installed", "freed"}]

LEMMA FreedIsRequest == Freed \in Request
BY DEF Freed, Request, Reasons, Headers

LEMMA InitInv == Init => Inv
<1> SUFFICES ASSUME Init PROVE Inv
    OBVIOUS
<1> USE NamesAssumption DEF Init, NewStream, Nowhere
<1>1. TypeOK
    BY FreedIsRequest DEF TypeOK
<1>2. ReferencesAreExact
    BY DEF ReferencesAreExact, One, Freed
<1>3. PlacesInv
    BY DEF PlacesInv, Busy
<1>4. FetchInv
    BY DEF FetchInv, FetchOf, Freed, Early
<1>5. SessionsInv
    <2>1. \A x \in Sessions : RequestsOf(x) = {}
        BY DEF RequestsOf, Freed
    <2>2. \A x \in Sessions : session[x].refs = 0 /\ session[x].state = "new"
        OBVIOUS
    <2>3. \A x \in Sessions : Cardinality(RequestsOf(x)) = 0
        BY <2>1, FS_EmptySet, Zenon
    <2>4. \A r \in Requests : req[r].session \in Sessions <=> req[r].refs > 0
        BY DEF Freed
    <2>5. QED
        BY <2>1, <2>2, <2>3, <2>4 DEF SessionsInv, One
<1>6. QED
    BY <1>1, <1>2, <1>3, <1>4, <1>5 DEF Inv

(* Who holds a request owns one of its references.                         *)
LEMMA HolderHasReference ==
  ASSUME TypeOK, ReferencesAreExact, NEW r \in Requests,
         \/ Uses(r) \/ main.of = r \/ callback.of = r \/ req[r].fetchHeld
         \/ "start" \in tasks[r] \/ "close" \in tasks[r]
  PROVE  req[r].refs >= 1
BY DEF ReferencesAreExact, One, Uses

(* A session that a request keeps is there.                                *)
LEMMA KeptSession ==
  ASSUME TypeOK, SessionsInv, NEW r \in Requests, req[r].refs >= 1
  PROVE  req[r].session \in Sessions /\ session[req[r].session].refs >= 1
<1>1. req[r].session \in Sessions
    BY DEF SessionsInv, TypeOK, Request
<1> DEFINE x == req[r].session
<1>2. IsFiniteSet(RequestsOf(x)) /\ r \in RequestsOf(x)
    BY FiniteAssumption, FS_Subset DEF RequestsOf
<1>3. Cardinality(RequestsOf(x)) \in Nat /\ Cardinality(RequestsOf(x)) # 0
    <2> HIDE DEF x
    <2>1. Cardinality(RequestsOf(x)) \in Nat
        BY <1>2, FS_CardinalityType
    <2>2. RequestsOf(x) # {}
        BY <1>2
    <2>3. QED
        BY <1>2, <2>1, <2>2, FS_EmptySet
<1>4. session[x].refs = Cardinality(RequestsOf(x)) + One(session[x].state = "installed")
    BY <1>1, Zenon DEF SessionsInv
<1> HIDE DEF x
<1>5. One(session[x].state = "installed") \in Nat
    BY DEF One
<1>6. session[x].refs >= 1
    BY <1>3, <1>4, <1>5
<1>7. QED
    BY <1>1, <1>6 DEF x

LEMMA LessType == ASSUME NEW total \in Nat, NEW size \in Nat PROVE Less(total, size) \in Nat
BY DEF Less

LEMMA LetGoTypes ==
  ASSUME TypeOK, NEW x \in Sessions, session[x].refs >= 1, NEW b \in Budgets, LetGo(x, b)
  PROVE  budget' \in Budgets /\ session' \in [Sessions -> SessionRecords]
BY DEF TypeOK, LetGo, Less, Budgets, SessionRecords

LEMMA RefundedTypes ==
  ASSUME NEW q \in Request, NEW b \in Budgets
  PROVE  Refunded(q, b) \in Budgets
<1>2. q.pending \in Nat /\ q.buffer \in Nat
    BY DEF Request
<1>3. /\ Less(Less(b.pending, q.pending), q.buffer) \in Nat
      /\ Less(b.active, 1) \in Nat
    BY LessType, <1>2 DEF Budgets
<1>4. QED
    BY <1>3 DEF Refunded, Budgets

LEMMA DropTypes ==
  ASSUME TypeOK, SessionsInv, NEW r \in Requests, req[r].refs >= 1,
         NEW q \in Request, q.refs = req[r].refs, q.session = req[r].session,
         NEW b \in Budgets, Drop(r, q, b)
  PROVE  /\ req' \in [Requests -> Request]
         /\ budget' \in Budgets
         /\ session' \in [Sessions -> SessionRecords]
<1>1. CASE q.refs = 1
    <2>1. Refunded(q, b) \in Budgets
        BY RefundedTypes
    <2>2. q.session \in Sessions /\ session[q.session].refs >= 1
        BY KeptSession
    <2>3. LetGo(q.session, Refunded(q, b)) /\ req' = [req EXCEPT ![r] = Freed]
        BY <1>1 DEF Drop
    <2>4. budget' \in Budgets /\ session' \in [Sessions -> SessionRecords]
        BY <2>1, <2>2, <2>3, LetGoTypes
    <2>5. QED
        BY <2>3, <2>4, FreedIsRequest DEF TypeOK
<1>2. CASE q.refs # 1
    <2>1. [q EXCEPT !.refs = @ - 1] \in Request
        BY <1>2 DEF Request
    <2>2. QED
        BY <1>2, <2>1 DEF Drop, TypeOK, SessionRecords
<1>3. QED
    BY <1>1, <1>2

-----------------------------------------------------------------------------
LEMMA BecomesTypes ==
  ASSUME TypeOK, NEW r \in Requests, NEW q \in Request, Becomes(r, q)
  PROVE  /\ req' \in [Requests -> Request]
         /\ budget' \in Budgets
         /\ session' \in [Sessions -> SessionRecords]
BY DEF TypeOK, Becomes, Budgets, SessionRecords

LEMMA StreamTypes ==
  ASSUME Inv, NEW s \in Streams,
         \/ Open(s) \/ Close(s) \/ AdmissionFails(s) \/ ProxyFails(s) \/ WaitEnds(s)
         \/ WaitSeesFailure(s) \/ Fails(s)
  PROVE  TypeOK'
<1> USE DEF Inv, TypeOK
<1>1. CASE Open(s)
    BY <1>1 DEF Open
<1>2. CASE Close(s)
    <2>1. Less(budget.buffered, io[s].cache) \in Nat /\ Less(budget.open, 1) \in Nat
        BY LessType
    <2>2. QED
        BY <1>2, <2>1 DEF Close, NewStream
<1>3. CASE AdmissionFails(s) \/ ProxyFails(s)
    BY <1>3 DEF AdmissionFails, ProxyFails
<1>4. CASE WaitEnds(s) \/ WaitSeesFailure(s) \/ Fails(s)
    BY <1>4 DEF WaitEnds, WaitSeesFailure, Fails
<1>5. QED
    BY <1>1, <1>2, <1>3, <1>4

LEMMA LoadTypes ==
  ASSUME Inv, NEW s \in Streams, NEW r \in Requests, NEW size \in Sizes, Load(s, r, size)
  PROVE  TypeOK'
<1>1. size \in Nat
    BY SizesAssumption DEF Sizes
<1>2. [Freed EXCEPT !.refs = 1, !.session = SessionOf[s]] \in Request
    BY FreedIsRequest, NamesAssumption DEF Request
<1>3. req' \in [Requests -> Request]
    BY <1>2 DEF Inv, TypeOK, Load
<1>4. budget' \in Budgets
    <2>1. Less(budget.buffered, io[s].cache) \in Nat
        BY LessType DEF Inv, TypeOK
    <2>2. QED
        BY <2>1 DEF Inv, TypeOK, Load, Budgets
<1>5. session' \in [Sessions -> SessionRecords]
    <2>1. session' = [session EXCEPT ![SessionOf[s]].refs = @ + 1]
        BY DEF Load
    <2>2. QED
        BY <2>1, NamesAssumption DEF Inv, TypeOK, SessionRecords
<1>6. QED
    BY <1>1, <1>3, <1>4, <1>5 DEF Inv, TypeOK, Load, Budgets, SessionRecords

LEMMA AdmitTypes ==
  ASSUME Inv, NEW s \in Streams, Admit(s)
  PROVE  TypeOK'
<1> DEFINE r == io[s].of
           n == Admitted(io[s].want)
<1>1. r \in Requests
    BY DEF Inv, PlacesInv, Busy, Admit
<1>2. n \in Nat
    BY AdmittedIsSize DEF Inv, TypeOK, PlacesInv, Admit
<1> HIDE DEF n
<1>3. [req[r] EXCEPT !.acquired = TRUE, !.limit = n, !.pending = n, !.buffer = n] \in Request
    <2>1. req[r] \in Request
        BY <1>1 DEF Inv, TypeOK
    <2>2. QED
        BY <1>2, <2>1 DEF Request
<1>4. req' \in [Requests -> Request]
    BY <1>1, <1>3 DEF Inv, TypeOK, Admit, n
<1>5. budget' \in Budgets
    <2>1. budget' = [budget EXCEPT !.active = @ + 1, !.pending = @ + 2 * n]
        BY DEF Admit, n
    <2>2. budget \in Budgets
        BY DEF Inv, TypeOK, Budgets
    <2>3. budget.active + 1 \in Nat /\ budget.pending + 2 * n \in Nat
        BY <1>2, <2>2 DEF Budgets
    <2>4. QED
        BY <2>1, <2>2, <2>3 DEF Budgets
<1>6. io' \in [Streams -> StreamRecords]
    <2>1. io \in [Streams -> StreamRecords]
        BY DEF Inv, TypeOK, StreamRecords
    <2>2. io' = [io EXCEPT ![s] = [@ EXCEPT !.at = "proxy", !.want = 0]]
        BY <2>1 DEF Admit, StreamRecords
    <2>3. [io[s] EXCEPT !.at = "proxy", !.want = 0] \in StreamRecords
        BY <2>1 DEF StreamRecords
    <2>4. QED
        BY <2>1, <2>2, <2>3
<1>7. UNCHANGED <<tasks, main, callback, session>>
    BY DEF Admit
<1>8. QED
    BY <1>4, <1>5, <1>6, <1>7 DEF Inv, TypeOK, Budgets, StreamRecords

LEMMA RequestEdits ==
  ASSUME NEW q \in Request
  PROVE  /\ [q EXCEPT !.refs = @ + 1] \in Request
         /\ [q EXCEPT !.closeRequested = TRUE] \in Request
         /\ [q EXCEPT !.closeRequested = TRUE, !.closeEnqueued = TRUE, !.refs = @ + 1] \in Request
         /\ [q EXCEPT !.done = TRUE, !.success = FALSE, !.startComplete = TRUE] \in Request
         /\ [q EXCEPT !.refs = @ + 1, !.fetchHeld = TRUE] \in Request
         /\ [q EXCEPT !.startComplete = TRUE] \in Request
         /\ [q EXCEPT !.done = TRUE, !.success = FALSE] \in Request
<1>0. q.refs + 1 \in Nat
    BY DEF Request
<1>1. [q EXCEPT !.refs = @ + 1] \in Request
    BY <1>0 DEF Request
<1>2. [q EXCEPT !.closeRequested = TRUE] \in Request
    BY DEF Request
<1>3. [q EXCEPT !.closeRequested = TRUE, !.closeEnqueued = TRUE, !.refs = @ + 1] \in Request
    BY <1>0 DEF Request
<1>4. [q EXCEPT !.done = TRUE, !.success = FALSE, !.startComplete = TRUE] \in Request
    BY DEF Request
<1>5. [q EXCEPT !.refs = @ + 1, !.fetchHeld = TRUE] \in Request
    BY <1>0 DEF Request
<1>6. [q EXCEPT !.startComplete = TRUE] \in Request
    BY DEF Request
<1>7. [q EXCEPT !.done = TRUE, !.success = FALSE] \in Request
    BY DEF Request
<1>8. QED
    BY <1>1, <1>2, <1>3, <1>4, <1>5, <1>6, <1>7

(* The request a stream works on.                                          *)
LEMMA StreamRequest ==
  ASSUME Inv, NEW s \in Streams, Busy(s)
  PROVE  io[s].of \in Requests /\ req[io[s].of] \in Request /\ Uses(io[s].of)
<1>1. io[s].of \in Requests
    BY DEF Inv, PlacesInv
<1>2. Uses(io[s].of)
    BY DEF Uses
<1>3. QED
    BY <1>1, <1>2 DEF Inv, TypeOK

LEMMA ScheduledCloseType == ASSUME NEW q \in Request PROVE ScheduledClose(q) \in Request
BY RequestEdits DEF ScheduledClose

LEMMA CapturedType == ASSUME NEW q \in Request, NEW h \in Headers PROVE Captured(q, h) \in Request
<1>1. [q EXCEPT !.headers = h] \in Request
    BY DEF Request
<1>2. QED
    BY <1>1 DEF Captured

LEMMA ScheduleCloseTypes ==
  ASSUME TypeOK, NEW r \in Requests, ScheduleClose(r) \/ ScheduleCloseFails(r)
  PROVE  /\ req' \in [Requests -> Request] /\ budget' \in Budgets
         /\ session' \in [Sessions -> SessionRecords]
         /\ tasks' \in [Requests -> SUBSET {"start", "close"}]
<1>1. req[r] \in Request
    BY DEF TypeOK
<1>2. CASE ScheduleClose(r)
    <2>1. ScheduledClose(req[r]) \in Request
        BY <1>1, ScheduledCloseType
    <2>2. Becomes(r, ScheduledClose(req[r]))
        BY <1>2 DEF ScheduleClose
    <2>3. tasks' \in [Requests -> SUBSET {"start", "close"}]
        BY <1>2 DEF ScheduleClose, TypeOK
    <2>4. QED
        BY <2>1, <2>2, <2>3, BecomesTypes
<1>3. CASE ScheduleCloseFails(r)
    <2>1. [req[r] EXCEPT !.closeRequested = TRUE] \in Request
        BY <1>1, RequestEdits
    <2>2. Becomes(r, [req[r] EXCEPT !.closeRequested = TRUE]) /\ UNCHANGED tasks
        BY <1>3 DEF ScheduleCloseFails
    <2>3. QED
        BY <2>1, <2>2, BecomesTypes DEF TypeOK
<1>4. QED
    BY <1>2, <1>3

LEMMA WaitTypes ==
  ASSUME Inv, NEW s \in Streams, Proxy(s) \/ WaitAborts(s) \/ WorkerCloses(s)
  PROVE  TypeOK'
<1> DEFINE r == io[s].of
<1>1. r \in Requests /\ req[r] \in Request
    BY StreamRequest DEF Busy, Proxy, WaitAborts, WorkerCloses
<1>2. io' \in [Streams -> StreamRecords]
    BY DEF Inv, TypeOK, StreamRecords, Proxy, WaitAborts, WorkerCloses
<1>3. CASE Proxy(s)
    <2>1. [req[r] EXCEPT !.refs = @ + 1] \in Request
        BY <1>1, RequestEdits
    <2>2. Becomes(r, [req[r] EXCEPT !.refs = @ + 1])
        BY <1>3 DEF Proxy
    <2>3. tasks' \in [Requests -> SUBSET {"start", "close"}] /\ UNCHANGED <<main, callback>>
        BY <1>1, <1>3 DEF Proxy, Inv, TypeOK
    <2>4. QED
        BY <1>1, <1>2, <2>1, <2>2, <2>3, BecomesTypes DEF Inv, TypeOK, StreamRecords, Budgets, SessionRecords
<1>4. CASE WaitAborts(s)
    <2>1. [req[r] EXCEPT !.abort = "timeout", !.success = FALSE, !.done = TRUE] \in Request
        BY <1>1 DEF Request, Reasons
    <2>2. Becomes(r, [req[r] EXCEPT !.abort = "timeout", !.success = FALSE, !.done = TRUE])
        BY <1>4 DEF WaitAborts
    <2>3. UNCHANGED <<tasks, main, callback>>
        BY <1>4 DEF WaitAborts
    <2>4. QED
        BY <1>1, <1>2, <2>1, <2>2, <2>3, BecomesTypes DEF Inv, TypeOK, StreamRecords, Budgets, SessionRecords
<1>5. CASE WorkerCloses(s)
    <2>1. ScheduleClose(r) \/ ScheduleCloseFails(r)
        BY <1>5 DEF WorkerCloses
    <2>2. UNCHANGED <<main, callback>>
        BY <1>5 DEF WorkerCloses
    <2>3. QED
        BY <1>1, <1>2, <2>1, <2>2, ScheduleCloseTypes DEF Inv, TypeOK, StreamRecords, Budgets, SessionRecords
<1>6. QED
    BY <1>3, <1>4, <1>5

LEMMA InstallResponseTypes ==
  ASSUME Inv, NEW s \in Streams, InstallResponse(s)
  PROVE  TypeOK'
<1> DEFINE r == io[s].of
           n == req[r].data
<1>1. r \in Requests /\ req[r] \in Request
    BY StreamRequest DEF Busy, InstallResponse
<1>2. n \in Nat
    BY <1>1 DEF Request
<1>3. budget.pending - n \in Nat /\ budget.buffered + n \in Nat
    BY <1>2 DEF InstallResponse, Inv, TypeOK
<1>4. budget' \in Budgets
    <2>1. budget' = [budget EXCEPT !.pending = @ - n, !.buffered = @ + n]
        BY DEF InstallResponse
    <2>2. QED
        BY <1>3, <2>1 DEF Inv, TypeOK, Budgets
<1>5. req' \in [Requests -> Request]
    <2> DEFINE kept == IF n > 0 THEN 0 ELSE req[r].pending
    <2>0. kept \in Nat
        BY <1>1 DEF Request
    <2>1. req \in [Requests -> Request]
        BY DEF Inv, TypeOK
    <2>6. req' = [req EXCEPT ![r] = [req[r] EXCEPT !.data = 0, !.pending = kept]]
        BY DEF InstallResponse
    <2> HIDE DEF kept
    <2>2. [req[r] EXCEPT !.data = 0, !.pending = kept] \in Request
        BY <1>1, <2>0 DEF Request
    <2>3. QED
        BY <1>1, <2>1, <2>2, <2>6
<1>6. io' \in [Streams -> StreamRecords]
    <2>0. io[s] \in StreamRecords
        BY DEF Inv, TypeOK, StreamRecords
    <2>1. [io[s] EXCEPT !.at = "release", !.cache = n] \in StreamRecords
        BY <1>2, <2>0 DEF StreamRecords
    <2>2. QED
        BY <2>1 DEF InstallResponse, Inv, TypeOK, StreamRecords
<1>7. UNCHANGED <<tasks, main, callback, session>>
    BY DEF InstallResponse
<1>8. QED
    BY <1>4, <1>5, <1>6, <1>7 DEF Inv, TypeOK, StreamRecords, Budgets

LEMMA ReleaseTypes ==
  ASSUME Inv, NEW s \in Streams, Release(s)
  PROVE  TypeOK'
<1> DEFINE r == io[s].of
<1>1. r \in Requests /\ req[r] \in Request /\ req[r].refs >= 1
    BY StreamRequest, HolderHasReference DEF Busy, Release, Inv
<1>2. budget \in Budgets /\ Drop(r, req[r], budget)
    BY DEF Inv, TypeOK, Budgets, Release
<1>3. io' \in [Streams -> StreamRecords]
    <2>0. io[s] \in StreamRecords
        BY DEF Inv, TypeOK, StreamRecords
    <2>1. [io[s] EXCEPT !.at = "idle", !.of = NoRequest, !.want = 0] \in StreamRecords
        BY <2>0 DEF StreamRecords
    <2>2. QED
        BY <2>1 DEF Release, Inv, TypeOK, StreamRecords
<1>4. UNCHANGED <<tasks, main, callback>>
    BY DEF Release
<1>5. QED
    BY <1>1, <1>2, <1>3, <1>4, DropTypes DEF Inv, TypeOK, StreamRecords, Budgets, SessionRecords

(* A section of the main thread that changes one request.                  *)
LEMMA MainSection ==
  ASSUME Inv, NEW r \in Requests, NEW q \in Request, Becomes(r, q),
         tasks' \in [Requests -> SUBSET {"start", "close"}], UNCHANGED io,
         main' = main \/ \E at \in {"fetch", "issued", "close", "destroy", "cleanup", "return"} :
                          main' = [at |-> at, of |-> r],
         callback' = callback \/ callback' = [at |-> "close", of |-> r]
                             \/ callback' = [at |-> "return", of |-> r]
  PROVE  TypeOK'
<1>1. /\ req' \in [Requests -> Request] /\ budget' \in Budgets
      /\ session' \in [Sessions -> SessionRecords]
    BY BecomesTypes DEF Inv
<1>2. QED
    BY <1>1 DEF Inv, TypeOK, Budgets, SessionRecords

LEMMA TasksLose ==
  ASSUME TypeOK, NEW r \in Requests, NEW t, tasks' = [tasks EXCEPT ![r] = @ \ {t}]
  PROVE  tasks' \in [Requests -> SUBSET {"start", "close"}]
BY DEF TypeOK

LEMMA MainTypes ==
  ASSUME Inv, NEW r \in Requests,
         \/ StartFetch(r) \/ IssueFetch(r) \/ FetchIssued(r) \/ IssueFails(r) \/ CloseTakes(r)
         \/ CloseAborts(r) \/ CloseDestroys(r)
  PROVE  TypeOK'
<1> DEFINE q == req[r]
<1>q. q \in Request /\ tasks \in [Requests -> SUBSET {"start", "close"}]
    BY DEF Inv, TypeOK
<1> HIDE DEF q
<1>1. CASE StartFetch(r)
    <2>1. tasks' \in [Requests -> SUBSET {"start", "close"}]
        BY <1>1, TasksLose DEF StartFetch, Inv
    <2>2. /\ [q EXCEPT !.done = TRUE, !.success = FALSE, !.startComplete = TRUE] \in Request
          /\ [q EXCEPT !.refs = @ + 1, !.fetchHeld = TRUE] \in Request
        BY <1>q, RequestEdits
    <2>3. \/ /\ Becomes(r, [q EXCEPT !.done = TRUE, !.success = FALSE, !.startComplete = TRUE])
             /\ main' = [at |-> "close", of |-> r]
          \/ /\ Becomes(r, [q EXCEPT !.refs = @ + 1, !.fetchHeld = TRUE])
             /\ main' = [at |-> "fetch", of |-> r]
        BY <1>1 DEF StartFetch, q
    <2>4. UNCHANGED <<io, callback>>
        BY <1>1 DEF StartFetch
    <2>5. QED
        BY <2>1, <2>2, <2>3, <2>4, MainSection
<1>2. CASE IssueFetch(r)
    <2>1. [q EXCEPT !.fetch = "live"] \in Request
        BY <1>q DEF Request
    <2>2. Becomes(r, [q EXCEPT !.fetch = "live"]) /\ UNCHANGED <<tasks, io, callback>>
          /\ main' = [at |-> "issued", of |-> r]
        BY <1>2 DEF IssueFetch, q
    <2>3. QED
        BY <1>q, <2>1, <2>2, MainSection
<1>3. CASE FetchIssued(r)
    <2>1. [q EXCEPT !.startComplete = TRUE] \in Request
        BY <1>q DEF Request
    <2>2. Becomes(r, [q EXCEPT !.startComplete = TRUE]) /\ UNCHANGED <<tasks, io, callback>>
        BY <1>3 DEF FetchIssued, q
    <2>3. main' = [at |-> "close", of |-> r] \/ main' = [at |-> "return", of |-> r]
        BY <1>3 DEF FetchIssued
    <2>4. QED
        BY <1>q, <2>1, <2>2, <2>3, MainSection
<1>4. CASE IssueFails(r)
    <2>1. PICK a \in Reasons :
            Becomes(r, [q EXCEPT !.startComplete = TRUE, !.success = FALSE, !.done = TRUE, !.abort = a])
        <3>1. q.abort \in Reasons
            BY <1>q DEF Request
        <3>2. CASE q.abort = "none"
            BY <1>4, <3>2 DEF IssueFails, q, Reasons
        <3>3. CASE q.abort # "none"
            BY <1>4, <3>1, <3>3 DEF IssueFails, q
        <3>4. QED
            BY <3>2, <3>3
    <2>2. [q EXCEPT !.startComplete = TRUE, !.success = FALSE, !.done = TRUE, !.abort = a] \in Request
        BY <1>q DEF Request
    <2>3. main' = [at |-> "close", of |-> r] /\ UNCHANGED <<tasks, io, callback>>
        BY <1>4 DEF IssueFails
    <2>4. QED
        BY <1>q, <2>1, <2>2, <2>3, MainSection
<1>5. CASE CloseTakes(r)
    <2>1. PICK p \in Request : Becomes(r, p)
        <3> DEFINE ended == IF q.done THEN q ELSE [q EXCEPT !.done = TRUE, !.success = FALSE]
                   takes == q.fetch # "none" /\ ~q.fetchClosed
        <3>1. ended \in Request
            BY <1>q, RequestEdits
        <3>2. (ended.fetchClosed \/ takes) \in BOOLEAN
            BY Zenon
        <3>3. [ended EXCEPT !.fetchClosed = @ \/ takes] \in Request
            <4> HIDE DEF ended, takes
            <4>1. QED
                BY <3>1, <3>2 DEF Request
        <3>4. Becomes(r, CASE q.closeComplete -> q
                      [] ~q.closeComplete /\ ~q.startComplete -> ended
                      [] OTHER -> [ended EXCEPT !.fetchClosed = @ \/ takes])
            BY <1>5, Zenon DEF CloseTakes, q
        <3> HIDE DEF ended, takes
        <3>5. QED
            BY <1>q, <3>1, <3>3, <3>4
    <2>2. PICK at \in {"return", "destroy", "cleanup"} : main' = [at |-> at, of |-> r]
        BY <1>5 DEF CloseTakes
    <2>3. UNCHANGED <<tasks, io, callback>>
        BY <1>5 DEF CloseTakes
    <2>4. QED
        BY <1>q, <2>1, <2>2, <2>3, MainSection
<1>6. CASE CloseAborts(r)
    <2>1. [q EXCEPT !.refs = @ + 1, !.success = FALSE, !.done = TRUE, !.fetch = "ended"] \in Request
        <3>1. q.refs + 1 \in Nat
            BY <1>q DEF Request
        <3>2. QED
            BY <1>q, <3>1 DEF Request
    <2>2. /\ Becomes(r, [q EXCEPT !.refs = @ + 1, !.success = FALSE, !.done = TRUE, !.fetch = "ended"])
          /\ callback' = [at |-> "close", of |-> r] /\ UNCHANGED <<tasks, io, main>>
        BY <1>6 DEF CloseAborts, q
    <2>3. QED
        BY <1>q, <2>1, <2>2, MainSection
<1>7. CASE CloseDestroys(r)
    <2>1. [q EXCEPT !.fetch = "closed"] \in Request
        BY <1>q DEF Request
    <2>2. Becomes(r, [q EXCEPT !.fetch = "closed"]) /\ UNCHANGED <<tasks, io, callback>>
          /\ main' = [at |-> "cleanup", of |-> r]
        BY <1>7 DEF CloseDestroys, q
    <2>3. QED
        BY <1>q, <2>1, <2>2, MainSection
<1>8. QED
    BY <1>1, <1>2, <1>3, <1>4, <1>5, <1>6, <1>7

LEMMA DropSection ==
  ASSUME Inv, NEW r \in Requests, req[r].refs >= 1, NEW q \in Request, q.refs = req[r].refs,
         q.session = req[r].session, NEW b \in Budgets, Drop(r, q, b), UNCHANGED <<tasks, io>>,
         main' = main \/ main' = Nowhere \/ main' = [at |-> "return", of |-> r],
         callback' = callback \/ callback' = Nowhere
  PROVE  TypeOK'
<1>1. /\ req' \in [Requests -> Request] /\ budget' \in Budgets
      /\ session' \in [Sessions -> SessionRecords]
    BY DropTypes DEF Inv
<1>2. QED
    BY <1>1 DEF Inv, TypeOK, Budgets, SessionRecords, Nowhere

LEMMA CloseCleansTypes ==
  ASSUME Inv, NEW r \in Requests, CloseCleans(r)
  PROVE  TypeOK'
<1> DEFINE q == [req[r] EXCEPT !.buffer = 0, !.acquired = FALSE, !.closeComplete = TRUE,
                               !.fetchHeld = FALSE]
           b == [budget EXCEPT !.pending = Less(@, req[r].buffer),
                               !.active = IF req[r].acquired THEN Less(@, 1) ELSE @]
<1>1. req[r] \in Request /\ budget \in Budgets
    BY DEF Inv, TypeOK, Budgets
<1>2. q \in Request /\ q.refs = req[r].refs /\ q.session = req[r].session
    BY <1>1 DEF Request
<1>3. b \in Budgets
    <2>1. req[r].buffer \in Nat
        BY <1>1 DEF Request
    <2>2. Less(budget.pending, req[r].buffer) \in Nat /\ Less(budget.active, 1) \in Nat
        BY <1>1, <2>1, LessType DEF Budgets
    <2>3. QED
        BY <1>1, <2>2 DEF Budgets
<1>4. req[r].refs >= 1
    BY HolderHasReference DEF CloseCleans, Inv
<1>5. main' = [at |-> "return", of |-> r] /\ UNCHANGED <<tasks, io, callback>>
    BY DEF CloseCleans
<1>6. Drop(r, q, b) \/ (req' = [req EXCEPT ![r] = q] /\ budget' = b /\ UNCHANGED session)
    BY Zenon DEF CloseCleans
<1> HIDE DEF q, b
<1>7. CASE Drop(r, q, b)
    BY <1>2, <1>3, <1>4, <1>5, <1>7, DropSection
<1>8. CASE req' = [req EXCEPT ![r] = q] /\ budget' = b /\ UNCHANGED session
    BY <1>2, <1>3, <1>5, <1>8 DEF Inv, TypeOK, Budgets
<1>9. QED
    BY <1>6, <1>7, <1>8

LEMMA ReturnTypes ==
  ASSUME Inv, NEW r \in Requests, TaskReturns(r) \/ CallbackReturns(r)
  PROVE  TypeOK'
<1>1. req[r] \in Request /\ budget \in Budgets
    BY DEF Inv, TypeOK, Budgets
<1>2. req[r].refs >= 1
    BY HolderHasReference DEF TaskReturns, CallbackReturns, Inv
<1>3. Drop(r, req[r], budget) /\ UNCHANGED <<tasks, io>>
    BY DEF TaskReturns, CallbackReturns
<1>4. /\ main' = main \/ main' = Nowhere
      /\ callback' = callback \/ callback' = Nowhere
    BY DEF TaskReturns, CallbackReturns
<1>5. QED
    BY <1>1, <1>2, <1>3, <1>4, DropSection

LEMMA CallbackTypes ==
  ASSUME Inv, NEW r \in Requests, NEW h \in Headers, NEW tooMuch \in BOOLEAN,
         OnPartial(r, h, tooMuch) \/ OnError(r, h)
  PROVE  TypeOK'
<1> DEFINE q == Captured(req[r], h)
<1>1. q \in Request /\ tasks \in [Requests -> SUBSET {"start", "close"}]
    BY CapturedType DEF Inv, TypeOK
<1>2. q.refs + 1 \in Nat /\ q.abort \in Reasons
    BY <1>1 DEF Request
<1>3. CASE OnPartial(r, h, tooMuch)
    <2>1. PICK a \in Reasons : Becomes(r, [q EXCEPT !.refs = @ + 1, !.abort = a])
        <3>1. Becomes(r, [q EXCEPT !.refs = @ + 1, !.abort = "refused"])
              \/ Becomes(r, [q EXCEPT !.refs = @ + 1, !.abort = q.abort])
            BY <1>3 DEF OnPartial
        <3>2. QED
            BY <1>2, <3>1 DEF Reasons
    <2>2. [q EXCEPT !.refs = @ + 1, !.abort = a] \in Request
        <3> HIDE DEF q
        <3>1. QED
            BY <1>1, <1>2 DEF Request
    <2>3. callback' = [at |-> "close", of |-> r] \/ callback' = [at |-> "return", of |-> r]
        BY <1>3 DEF OnPartial
    <2>4. UNCHANGED <<tasks, io, main>>
        BY <1>3 DEF OnPartial
    <2> HIDE DEF q
    <2>5. QED
        BY <1>1, <2>1, <2>2, <2>3, <2>4, MainSection
<1>4. CASE OnError(r, h)
    <2>1. Becomes(r, [q EXCEPT !.refs = @ + 1, !.fetch = "ended", !.success = FALSE, !.done = TRUE])
        BY <1>4 DEF OnError
    <2>2. [q EXCEPT !.refs = @ + 1, !.fetch = "ended", !.success = FALSE, !.done = TRUE] \in Request
        <3> HIDE DEF q
        <3>1. QED
            BY <1>1, <1>2 DEF Request
    <2>3. callback' = [at |-> "close", of |-> r] /\ UNCHANGED <<tasks, io, main>>
        BY <1>4 DEF OnError
    <2> HIDE DEF q
    <2>4. QED
        BY <1>1, <2>1, <2>2, <2>3, MainSection
<1>5. QED
    BY <1>3, <1>4

LEMMA OtherTypes ==
  ASSUME Inv,
         \/ \E r \in Requests : CloseTask(r) \/ CallbackCloses(r)
         \/ \E x \in Sessions : Install(x) \/ Uninstall(x)
  PROVE  TypeOK'
<1>1. ASSUME NEW r \in Requests, CloseTask(r) PROVE TypeOK'
    BY <1>1 DEF CloseTask, Inv, TypeOK
<1>2. ASSUME NEW r \in Requests, CallbackCloses(r) PROVE TypeOK'
    <2>1. ScheduleClose(r) /\ UNCHANGED <<io, main>>
        BY <1>2 DEF CallbackCloses
    <2>2. callback' = [callback EXCEPT !.at = "return"]
        BY <1>2 DEF CallbackCloses
    <2>3. QED
        BY <2>1, <2>2, ScheduleCloseTypes DEF Inv, TypeOK, Budgets, SessionRecords
<1>3. ASSUME NEW x \in Sessions, Install(x) PROVE TypeOK'
    BY <1>3 DEF Install, Inv, TypeOK
<1>4. ASSUME NEW x \in Sessions, Uninstall(x) PROVE TypeOK'
    <2>1. session[x].refs - 1 \in Nat
        <3>1. session[x].refs = Cardinality(RequestsOf(x)) + 1
            BY <1>4 DEF Uninstall, Inv, SessionsInv, One
        <3>2. Cardinality(RequestsOf(x)) \in Nat
            BY FiniteAssumption, FS_Subset, FS_CardinalityType DEF RequestsOf
        <3>3. QED
            BY <3>1, <3>2
    <2>2. Less(budget.refs, 1) \in Nat
        BY LessType DEF Inv, TypeOK
    <2>3. QED
        BY <1>4, <2>1, <2>2 DEF Uninstall, Inv, TypeOK
<1>5. QED
    BY <1>1, <1>2, <1>3, <1>4

(* What references, fetches and sessions depend on.                        *)
Same(p, q) ==
  /\ p.session = q.session /\ p.fetchHeld = q.fetchHeld
  /\ p.fetchClosed = q.fetchClosed /\ p.closeEnqueued = q.closeEnqueued

LEMMA CapturedSame ==
  ASSUME NEW q \in Request, NEW h \in Headers
  PROVE  LET p == Captured(q, h) IN Same(p, q) /\ p.refs = q.refs /\ p.fetch = q.fetch
BY DEF Captured, Same, Request

(* What request_onsuccess leaves of the request, whatever it decides.      *)
LEMMA OnSuccessLeaves ==
  ASSUME TypeOK, NEW r \in Requests, NEW h \in Headers, NEW n \in Nat, NEW copied \in BOOLEAN,
         OnSuccess(r, h, n, copied)
  PROVE  /\ \E p \in Request :
              /\ req' = [req EXCEPT ![r] = p]
              /\ p.refs = req[r].refs + 1 /\ p.fetch = "ended" /\ Same(p, req[r])
         /\ budget' \in Budgets
<1> DEFINE q     == Captured(req[r], h)
           valid == q.abort = "none" /\ ~q.closeRequested
           over  == q.headers = "long" \/ (valid /\ (n > q.limit \/ n > q.pending \/ n > q.buffer))
           takes == valid /\ ~over /\ n > 0
           kept  == IF copied THEN n ELSE 0
           good  == valid /\ ~over /\ (n > 0 => copied)
           a     == IF over \/ (takes /\ ~copied) THEN "refused" ELSE q.abort
           pending == IF takes THEN kept ELSE q.pending
           buffer  == IF takes THEN n ELSE q.buffer
           data    == IF takes THEN kept ELSE 0
           p     == [q EXCEPT !.refs = @ + 1, !.fetch = "ended", !.done = TRUE, !.success = good,
                              !.abort = a, !.pending = pending, !.buffer = buffer, !.data = data]
<1>1. q \in Request /\ Same(q, req[r]) /\ q.refs = req[r].refs
    BY CapturedType, CapturedSame DEF TypeOK
<1>2. /\ req' = [req EXCEPT ![r] = p]
      /\ budget' = [budget EXCEPT !.pending = Less(Less(@, q.pending - p.pending),
                                                   q.buffer - p.buffer)]
    BY Zenon DEF OnSuccess
<1> HIDE DEF q
<1>3. q.pending \in Nat /\ q.buffer \in Nat /\ q.abort \in Reasons /\ q.refs + 1 \in Nat
    BY <1>1 DEF Request
<1>4. good \in BOOLEAN
    BY Zenon
<1>5. a \in Reasons
    BY <1>3 DEF Reasons
<1>6. pending \in Nat /\ buffer \in Nat /\ data \in Nat
    BY <1>3
<1>7. q.pending - pending \in Nat /\ q.buffer - buffer \in Nat
    BY <1>3
<1> HIDE DEF good, a, pending, buffer, data
<1>8. p \in Request
    BY <1>1, <1>3, <1>4, <1>5, <1>6 DEF Request
<1>9. /\ p.pending = pending /\ p.buffer = buffer /\ p.refs = req[r].refs + 1
      /\ p.fetch = "ended" /\ Same(p, req[r])
    BY <1>1 DEF Request, Same
<1> HIDE DEF p
<1>10. Less(Less(budget.pending, q.pending - p.pending), q.buffer - p.buffer) \in Nat
    BY <1>7, <1>9, LessType DEF TypeOK
<1>11. budget' \in Budgets
    BY <1>2, <1>10 DEF TypeOK, Budgets
<1>12. QED
    BY <1>2, <1>8, <1>9, <1>11

LEMMA OnSuccessTypes ==
  ASSUME Inv, NEW r \in Requests, NEW h \in Headers, NEW n \in Nat, NEW copied \in BOOLEAN,
         OnSuccess(r, h, n, copied)
  PROVE  TypeOK'
<1>1. req' \in [Requests -> Request] /\ budget' \in Budgets
    <2>1. PICK p \in Request : req' = [req EXCEPT ![r] = p]
        BY OnSuccessLeaves DEF Inv
    <2>2. QED
        BY <2>1, OnSuccessLeaves DEF Inv, TypeOK
<1>2. callback' = [at |-> "close", of |-> r] /\ UNCHANGED <<tasks, io, main, session>>
    BY DEF OnSuccess
<1>3. QED
    BY <1>1, <1>2 DEF Inv, TypeOK, Budgets

LEMMA StepTypeOK == Inv /\ [Next]_vars => TypeOK'
<1> SUFFICES ASSUME Inv, [Next]_vars PROVE TypeOK'
    OBVIOUS
<1>1. CASE \E x \in Sessions : Install(x) \/ Uninstall(x)
    BY <1>1, OtherTypes
<1>2. ASSUME NEW s \in Streams, Open(s) \/ Close(s) \/ Worker(s) PROVE TypeOK'
    BY <1>2, StreamTypes, AdmitTypes, WaitTypes, InstallResponseTypes, ReleaseTypes DEF Worker
<1>3. CASE \E s \in Streams, r \in Requests, size \in Sizes : Load(s, r, size)
    BY <1>3, LoadTypes
<1>4. CASE MainThread
    BY <1>4, MainTypes, OtherTypes, CloseCleansTypes, ReturnTypes DEF MainThread
<1>5. CASE Browser
    <2>1. ASSUME NEW r \in Requests, NEW h \in Headers, NEW n \in 0 .. RangeMax + 1,
                 NEW copied \in BOOLEAN, OnSuccess(r, h, n, copied)
          PROVE  TypeOK'
        <3>1. n \in Nat
            BY SizesAssumption
        <3>2. QED
            BY <2>1, <3>1, OnSuccessTypes
    <2>2. QED
        BY <1>5, <2>1, CallbackTypes DEF Browser, Ends
<1>6. CASE UNCHANGED vars
    BY <1>6 DEF vars, Inv, TypeOK
<1>7. QED
    BY <1>1, <1>2, <1>3, <1>4, <1>5, <1>6 DEF Next, Finished

-----------------------------------------------------------------------------
(* References.                                                             *)

Owners(r) ==
  One(Uses(r)) + One("start" \in tasks[r]) + One("close" \in tasks[r])
  + One(main.of = r) + One(callback.of = r) + One(req[r].fetchHeld)

LEMMA ExactMeansOwners == ReferencesAreExact <=> \A r \in Requests : req[r].refs = Owners(r)
BY DEF ReferencesAreExact, Owners, Uses

LEMMA OwnersUnchanged ==
  ASSUME TypeOK, NEW r \in Requests, Uses(r)' <=> Uses(r), tasks'[r] = tasks[r], main'.of = r <=> main.of = r,
         callback'.of = r <=> callback.of = r, req'[r].fetchHeld = req[r].fetchHeld
  PROVE  Owners(r)' = Owners(r)
BY DEF Owners, One

LEMMA UsesUnchanged ==
  ASSUME TypeOK, NEW s \in Streams, NEW i, io' = [io EXCEPT ![s] = i], i.of = io[s].of
  PROVE  \A r \in Requests : Uses(r)' <=> Uses(r)
BY DEF TypeOK, Uses

LEMMA StreamRefs ==
  ASSUME Inv, NEW s \in Streams,
         \/ Open(s) \/ Close(s) \/ AdmissionFails(s) \/ ProxyFails(s) \/ WaitEnds(s)
         \/ WaitSeesFailure(s) \/ Fails(s) \/ Admit(s) \/ Proxy(s) \/ WaitAborts(s)
         \/ WorkerCloses(s) \/ InstallResponse(s)
  PROVE  \A r \in Requests : Uses(r)' <=> Uses(r)
<1>1. CASE Close(s)
    BY <1>1 DEF Close, Inv, PlacesInv, Busy, TypeOK, NewStream, Uses
<1>2. CASE \/ Open(s) \/ AdmissionFails(s) \/ ProxyFails(s) \/ WaitEnds(s)
           \/ WaitSeesFailure(s) \/ Fails(s)
    BY <1>2 DEF Uses, Inv, TypeOK, Open, AdmissionFails, ProxyFails, WaitEnds, WaitSeesFailure, Fails
<1>3. CASE Admit(s) \/ Proxy(s) \/ WaitAborts(s)
    BY <1>3 DEF Uses, Inv, TypeOK, Admit, Proxy, WaitAborts
<1>4. CASE WorkerCloses(s)
    <2>1. io' = [io EXCEPT ![s].at = IF @ = "retry" THEN "wait" ELSE "answer"]
        BY <1>4 DEF WorkerCloses
    <2>2. QED
        BY <2>1 DEF Uses, Inv, TypeOK
<1>5. CASE InstallResponse(s)
    <2>1. io' = [io EXCEPT ![s] = [@ EXCEPT !.at = "release", !.cache = req[io[s].of].data]]
        BY <1>5 DEF InstallResponse
    <2>2. QED
        BY <2>1 DEF Uses, Inv, TypeOK
<1>6. QED
    BY <1>1, <1>2, <1>3, <1>4, <1>5

(* Sections that leave the references of a request r and its owners as     *)
(* they are, or change both by the same.                                   *)
LEMMA RefsSection ==
  ASSUME Inv, TypeOK', NEW r \in Requests,
         \A x \in Requests \ {r} : Owners(x)' = Owners(x) /\ req'[x].refs = req[x].refs,
         req'[r].refs - req[r].refs = Owners(r)' - Owners(r)
  PROVE  ReferencesAreExact'
<1>1. \A x \in Requests : req[x].refs = Owners(x)
    BY ExactMeansOwners DEF Inv
<1>2. \A x \in Requests : Owners(x) \in Nat /\ Owners(x)' \in Nat
    BY DEF Owners, One
<1>3. \A x \in Requests : req'[x].refs \in Nat
    BY DEF TypeOK, Request
<1>4. req'[r].refs = Owners(r)'
    BY <1>1, <1>2, <1>3
<1>5. \A x \in Requests : req'[x].refs = Owners(x)'
    BY <1>1, <1>4
<1>6. QED
    BY <1>5 DEF ReferencesAreExact, Owners, Uses

LEMMA WorkerRefs ==
  ASSUME Inv, TypeOK', NEW s \in Streams,
         \/ Open(s) \/ Close(s) \/ AdmissionFails(s) \/ ProxyFails(s) \/ WaitEnds(s)
         \/ WaitSeesFailure(s) \/ Fails(s) \/ Admit(s) \/ WaitAborts(s) \/ InstallResponse(s)
  PROVE  ReferencesAreExact'
<1>1. \A r \in Requests : Uses(r)' <=> Uses(r)
    BY StreamRefs
<1>2. UNCHANGED <<tasks, main, callback>>
    BY DEF Open, Close, AdmissionFails, ProxyFails, WaitEnds, WaitSeesFailure, Fails, Admit,
           WaitAborts, InstallResponse
<1>3. \A r \in Requests : req'[r].refs = req[r].refs /\ req'[r].fetchHeld = req[r].fetchHeld
    <2>0. req \in [Requests -> Request]
        BY DEF Inv, TypeOK
    <2>1. CASE \/ Open(s) \/ Close(s) \/ AdmissionFails(s) \/ ProxyFails(s) \/ WaitEnds(s)
               \/ WaitSeesFailure(s) \/ Fails(s)
        BY <2>1 DEF Open, Close, AdmissionFails, ProxyFails, WaitEnds, WaitSeesFailure, Fails
    <2>2. CASE Admit(s)
        BY <2>0, <2>2 DEF Admit, Request
    <2>3. CASE WaitAborts(s)
        BY <2>0, <2>3 DEF WaitAborts, Becomes, Request
    <2>4. CASE InstallResponse(s)
        <3>1. PICK r \in Requests, p \in Nat :
                req' = [req EXCEPT ![r] = [req[r] EXCEPT !.data = 0, !.pending = p]]
            BY <2>0, <2>4, StreamRequest DEF InstallResponse, Busy, Inv, Request
        <3>2. QED
            BY <2>0, <3>1 DEF Request
    <2>5. QED
        BY <2>1, <2>2, <2>3, <2>4
<1>4. \A r \in Requests : Owners(r)' = Owners(r)
    BY <1>1, <1>2, <1>3 DEF Owners, One
<1>5. \A r \in Requests : req[r].refs = Owners(r)
    BY ExactMeansOwners DEF Inv
<1>6. \A r \in Requests : req'[r].refs = Owners(r)'
    BY <1>3, <1>4, <1>5
<1>7. QED
    BY <1>6 DEF ReferencesAreExact, Owners, Uses

LEMMA ProxyRefs ==
  ASSUME Inv, TypeOK', NEW s \in Streams, Proxy(s)
  PROVE  ReferencesAreExact'
<1>0. PICK r \in Requests : r = io[s].of
    BY DEF Inv, PlacesInv, Busy, Proxy
<1>1. \A x \in Requests : Uses(x)' <=> Uses(x)
    BY StreamRefs
<1>2. "start" \notin tasks[r]
    <2>1. req[r].refs = 1 /\ Uses(r)
        BY <1>0 DEF Inv, FetchInv, FetchOf, Early, Proxy, Uses
    <2>2. QED
        BY <1>1, <2>1 DEF Inv, ReferencesAreExact, One, Uses
<1>3. /\ req' = [req EXCEPT ![r] = [req[r] EXCEPT !.refs = @ + 1]]
      /\ tasks' = [tasks EXCEPT ![r] = @ \cup {"start"}] /\ UNCHANGED <<main, callback>>
    BY <1>0 DEF Proxy, Becomes
<1>4. /\ req'[r].refs = req[r].refs + 1
      /\ \A x \in Requests : req'[x].fetchHeld = req[x].fetchHeld
      /\ \A x \in Requests \ {r} : req'[x].refs = req[x].refs
    BY <1>1, <1>3 DEF Inv, TypeOK, Request
<1>5. /\ "start" \in tasks'[r] /\ ("close" \in tasks'[r] <=> "close" \in tasks[r])
      /\ \A x \in Requests \ {r} : tasks'[x] = tasks[x]
    BY <1>1, <1>3 DEF Inv, TypeOK
<1>6. Owners(r)' = Owners(r) + 1
    BY <1>1, <1>2, <1>3, <1>4, <1>5 DEF Owners, One
<1>7. \A x \in Requests \ {r} : Owners(x)' = Owners(x)
    BY <1>1, <1>3, <1>4, <1>5 DEF Owners, One
<1>8. req[r].refs \in Nat /\ Owners(r) \in Nat
    BY DEF Inv, TypeOK, Request, Owners, One
<1>9. QED
    BY <1>4, <1>6, <1>7, <1>8, RefsSection

LEMMA ScheduleRefs ==
  ASSUME Inv, NEW r \in Requests, ScheduleClose(r)
  PROVE  /\ \A x \in Requests : req'[x].fetchHeld = req[x].fetchHeld
         /\ \A x \in Requests \ {r} : tasks'[x] = tasks[x] /\ req'[x].refs = req[x].refs
         /\ "start" \in tasks'[r] <=> "start" \in tasks[r]
         /\ req'[r].refs - req[r].refs = One("close" \in tasks'[r]) - One("close" \in tasks[r])
<1>1. CASE NeedsClose(req[r])
    <2>1. "close" \notin tasks[r]
        BY <1>1 DEF NeedsClose, Inv, FetchInv, FetchOf
    <2>2. /\ req' = [req EXCEPT ![r] = [req[r] EXCEPT !.closeRequested = TRUE, !.closeEnqueued = TRUE,
                                                      !.refs = @ + 1]]
          /\ tasks' = [tasks EXCEPT ![r] = @ \cup {"close"}]
        BY <1>1 DEF ScheduleClose, Becomes, ScheduledClose, Inv, TypeOK
    <2>3. /\ req'[r].refs = req[r].refs + 1
          /\ \A x \in Requests : req'[x].fetchHeld = req[x].fetchHeld
          /\ \A x \in Requests \ {r} : req'[x].refs = req[x].refs
        BY <2>2 DEF Inv, TypeOK, Request
    <2>4. req[r].refs \in Nat
        BY DEF Inv, TypeOK, Request
    <2>5. QED
        BY <2>1, <2>2, <2>3, <2>4 DEF One, Inv, TypeOK
<1>2. CASE ~NeedsClose(req[r])
    <2>1. /\ req' = [req EXCEPT ![r] = [req[r] EXCEPT !.closeRequested = TRUE]]
          /\ tasks' = tasks
        BY <1>2 DEF ScheduleClose, Becomes, ScheduledClose, Inv, TypeOK
    <2>2. \A x \in Requests : req'[x].refs = req[x].refs /\ req'[x].fetchHeld = req[x].fetchHeld
        BY <2>1 DEF Inv, TypeOK, Request
    <2>3. req[r].refs \in Nat
        BY DEF Inv, TypeOK, Request
    <2>4. QED
        BY <2>1, <2>2, <2>3 DEF One
<1>3. QED
    BY <1>1, <1>2

LEMMA DropRefs ==
  ASSUME Inv, NEW r \in Requests, NEW q \in Request, q.refs = req[r].refs, req[r].refs >= 1,
         NEW b, Drop(r, q, b)
  PROVE  /\ req'[r].refs = req[r].refs - 1
         /\ req'[r].fetchHeld = IF q.refs = 1 THEN FALSE ELSE q.fetchHeld
         /\ \A x \in Requests \ {r} : req'[x] = req[x]
<1>1. CASE q.refs = 1
    <2>1. req' = [req EXCEPT ![r] = Freed]
        BY <1>1 DEF Drop
    <2>2. req'[r] = Freed /\ \A x \in Requests \ {r} : req'[x] = req[x]
        BY <2>1 DEF Inv, TypeOK
    <2>3. QED
        BY <1>1, <2>2 DEF Freed
<1>2. CASE q.refs # 1
    BY <1>2 DEF Drop, Inv, TypeOK, Request
<1>3. QED
    BY <1>1, <1>2

(* The number of owners, and who is among them.                            *)
LEMMA OwnersCount ==
  ASSUME Inv, NEW r \in Requests
  PROVE  /\ req[r].refs = Owners(r) /\ req[r].refs \in Nat
         /\ req[r].refs <= 1 =>
              /\ Uses(r) => ~req[r].fetchHeld
              /\ main.of = r => ~req[r].fetchHeld
              /\ callback.of = r => ~req[r].fetchHeld
<1>1. req[r].refs = Owners(r) /\ req[r].refs \in Nat
    BY ExactMeansOwners DEF Inv, TypeOK, Request
<1>2. QED
    BY <1>1 DEF Owners, One

LEMMA WorkerClosesRefs ==
  ASSUME Inv, TypeOK', NEW s \in Streams, WorkerCloses(s)
  PROVE  ReferencesAreExact'
<1>0. PICK r \in Requests : r = io[s].of
    BY DEF Inv, PlacesInv, Busy, WorkerCloses
<1>1. (\A x \in Requests : Uses(x)' <=> Uses(x)) /\ UNCHANGED <<main, callback>>
    BY StreamRefs DEF WorkerCloses
<1>2. /\ \A x \in Requests : req'[x].fetchHeld = req[x].fetchHeld
      /\ \A x \in Requests \ {r} : tasks'[x] = tasks[x] /\ req'[x].refs = req[x].refs
      /\ "start" \in tasks'[r] <=> "start" \in tasks[r]
      /\ req'[r].refs - req[r].refs = One("close" \in tasks'[r]) - One("close" \in tasks[r])
    <2>1. CASE ScheduleClose(r)
        BY <2>1, ScheduleRefs
    <2>2. CASE ScheduleCloseFails(r)
        <3>1. \A x \in Requests : req'[x].refs = req[x].refs /\ req'[x].fetchHeld = req[x].fetchHeld
            BY <2>2 DEF ScheduleCloseFails, Becomes, Inv, TypeOK, Request
        <3>2. req[r].refs \in Nat /\ UNCHANGED tasks
            BY <2>2 DEF ScheduleCloseFails, Inv, TypeOK, Request
        <3>3. QED
            BY <3>1, <3>2 DEF One
    <2>3. QED
        BY <1>0, <2>1, <2>2 DEF WorkerCloses
<1>3. Owners(r)' - Owners(r) = One("close" \in tasks'[r]) - One("close" \in tasks[r])
    BY <1>1, <1>2 DEF Owners, One
<1>4. \A x \in Requests \ {r} : Owners(x)' = Owners(x)
    BY <1>1, <1>2 DEF Owners, One
<1>5. QED
    BY <1>2, <1>3, <1>4, RefsSection

LEMMA LoadRefs ==
  ASSUME Inv, TypeOK', NEW s \in Streams, NEW r \in Requests, NEW size \in Sizes, Load(s, r, size)
  PROVE  ReferencesAreExact'
<1>1. /\ io' = [io EXCEPT ![s] = [at |-> "admission", of |-> r, want |-> size, cache |-> 0,
                                  loads |-> io[s].loads + 1]]
      /\ req' = [req EXCEPT ![r] = [Freed EXCEPT !.refs = 1, !.session = SessionOf[s]]]
      /\ UNCHANGED <<tasks, main, callback>> /\ io[s].at = "idle" /\ req[r].refs = 0
    BY DEF Load
<1>2. io[s].of \notin Requests
    BY <1>1 DEF Inv, PlacesInv, Busy
<1>3. Uses(r)' /\ \A x \in Requests \ {r} : Uses(x)' <=> Uses(x)
    BY <1>1, <1>2 DEF Uses, Inv, TypeOK
<1>4. req'[r].refs = 1 /\ ~req'[r].fetchHeld /\ \A x \in Requests \ {r} : req'[x] = req[x]
    BY <1>1 DEF Inv, TypeOK, Freed
<1>5. Owners(r) = 0 /\ ~Uses(r)
    BY <1>1, OwnersCount DEF Owners, One
<1>6. Owners(r)' = 1
    BY <1>1, <1>3, <1>4, <1>5 DEF Owners, One
<1>7. \A x \in Requests \ {r} : Owners(x)' = Owners(x)
    BY <1>1, <1>3, <1>4 DEF Owners, One
<1>8. QED
    BY <1>1, <1>4, <1>5, <1>6, <1>7, RefsSection

LEMMA ReleaseRefs ==
  ASSUME Inv, TypeOK', NEW s \in Streams, Release(s)
  PROVE  ReferencesAreExact'
<1>0. PICK r \in Requests : r = io[s].of
    BY DEF Inv, PlacesInv, Busy, Release
<1>1. /\ io' = [io EXCEPT ![s] = [@ EXCEPT !.at = "idle", !.of = NoRequest, !.want = 0]]
      /\ Drop(r, req[r], budget) /\ UNCHANGED <<tasks, main, callback>>
    BY <1>0 DEF Release
<1>2. Uses(r) /\ req[r].refs >= 1 /\ req[r] \in Request
    BY <1>0, HolderHasReference DEF Uses, Inv, TypeOK
<1>3. ~Uses(r)' /\ \A x \in Requests \ {r} : Uses(x)' <=> Uses(x)
    BY <1>0, <1>1, NamesAssumption DEF Uses, Inv, TypeOK, PlacesInv
<1>4. /\ req'[r].refs = req[r].refs - 1 /\ req'[r].fetchHeld = req[r].fetchHeld
      /\ \A x \in Requests \ {r} : req'[x] = req[x]
    <2>1. /\ req'[r].refs = req[r].refs - 1
          /\ req'[r].fetchHeld = IF req[r].refs = 1 THEN FALSE ELSE req[r].fetchHeld
          /\ \A x \in Requests \ {r} : req'[x] = req[x]
        BY <1>1, <1>2, DropRefs
    <2>2. req[r].refs = 1 => req[r].fetchHeld = FALSE
        BY <1>2, OwnersCount DEF Request
    <2>3. QED
        BY <2>1, <2>2
<1>5. Owners(r)' = Owners(r) - 1
    BY <1>1, <1>2, <1>3, <1>4 DEF Owners, One
<1>6. \A x \in Requests \ {r} : Owners(x)' = Owners(x)
    BY <1>1, <1>3, <1>4 DEF Owners, One
<1>7. req[r].refs \in Nat /\ req[r].refs = Owners(r)
    BY OwnersCount
<1>8. QED
    BY <1>4, <1>5, <1>6, <1>7, RefsSection

(* Who has the place of a thread in Nowhere owns nothing.                  *)
LEMMA NowhereOwns == \A r \in Requests : Nowhere.of # r
BY NamesAssumption DEF Nowhere

LEMMA MainWorksRefs ==
  ASSUME Inv, TypeOK', NEW r \in Requests,
         IssueFetch(r) \/ FetchIssued(r) \/ IssueFails(r) \/ CloseTakes(r) \/ CloseDestroys(r)
  PROVE  ReferencesAreExact'
<1>1. main.of = r /\ main'.of = r /\ UNCHANGED <<tasks, io, callback>>
    BY DEF IssueFetch, FetchIssued, IssueFails, CloseTakes, CloseDestroys, Inv, TypeOK
<1>2. \A x \in Requests : req'[x].refs = req[x].refs /\ req'[x].fetchHeld = req[x].fetchHeld
    <2>1. CASE IssueFetch(r) \/ FetchIssued(r) \/ CloseDestroys(r)
        BY <2>1 DEF IssueFetch, FetchIssued, CloseDestroys, Becomes, Inv, TypeOK, Request
    <2>2. CASE IssueFails(r)
        BY <2>2 DEF IssueFails, Becomes, Inv, TypeOK, Request
    <2>3. CASE CloseTakes(r)
        BY <2>3 DEF CloseTakes, Becomes, Inv, TypeOK, Request
    <2>4. QED
        BY <2>1, <2>2, <2>3
<1>3. \A x \in Requests : Owners(x)' = Owners(x)
    BY <1>1, <1>2 DEF Owners, One, Uses
<1>4. req[r].refs \in Nat /\ Owners(r) \in Nat
    BY OwnersCount
<1>5. QED
    BY <1>2, <1>3, <1>4, RefsSection

LEMMA StartFetchRefs ==
  ASSUME Inv, TypeOK', NEW r \in Requests, StartFetch(r)
  PROVE  ReferencesAreExact'
<1>1. /\ main = Nowhere /\ main'.of = r /\ UNCHANGED <<io, callback>>
      /\ "start" \in tasks[r] /\ tasks' = [tasks EXCEPT ![r] = @ \ {"start"}]
    BY DEF StartFetch
<1>2. /\ "start" \notin tasks'[r] /\ ("close" \in tasks'[r] <=> "close" \in tasks[r])
      /\ \A x \in Requests \ {r} : tasks'[x] = tasks[x]
    BY <1>1 DEF Inv, TypeOK
<1>3. ~req[r].fetchHeld
    BY <1>1 DEF Inv, FetchInv, FetchOf
<1>4. /\ \A x \in Requests \ {r} : req'[x] = req[x]
      /\ \/ req'[r].refs = req[r].refs /\ req'[r].fetchHeld = req[r].fetchHeld
         \/ req'[r].refs = req[r].refs + 1 /\ req'[r].fetchHeld
    <2>1. \/ req' = [req EXCEPT ![r] = [req[r] EXCEPT !.done = TRUE, !.success = FALSE,
                                                      !.startComplete = TRUE]]
          \/ req' = [req EXCEPT ![r] = [req[r] EXCEPT !.refs = @ + 1, !.fetchHeld = TRUE]]
        BY DEF StartFetch, Becomes
    <2>0. req \in [Requests -> Request]
        BY DEF Inv, TypeOK
    <2>2. CASE req' = [req EXCEPT ![r] = [req[r] EXCEPT !.done = TRUE, !.success = FALSE,
                                                      !.startComplete = TRUE]]
        BY <2>0, <2>2 DEF Request
    <2>3. CASE req' = [req EXCEPT ![r] = [req[r] EXCEPT !.refs = @ + 1, !.fetchHeld = TRUE]]
        BY <2>0, <2>3 DEF Request
    <2>4. QED
        BY <2>1, <2>2, <2>3
<1>5. Owners(r)' - Owners(r) = req'[r].refs - req[r].refs
    <2>1. req[r].refs \in Nat
        BY OwnersCount
    <2>2. QED
        BY <1>1, <1>2, <1>3, <1>4, <2>1, NowhereOwns DEF Owners, One, Uses
<1>6. \A x \in Requests \ {r} : Owners(x)' = Owners(x)
    BY <1>1, <1>2, <1>4, NowhereOwns DEF Owners, One, Uses
<1>7. QED
    BY <1>4, <1>5, <1>6, RefsSection

LEMMA CloseTaskRefs ==
  ASSUME Inv, TypeOK', NEW r \in Requests, CloseTask(r)
  PROVE  ReferencesAreExact'
<1>1. /\ main = Nowhere /\ main'.of = r /\ UNCHANGED <<io, callback, req>>
      /\ tasks[r] = {"close"} /\ tasks' = [tasks EXCEPT ![r] = {}]
    BY DEF CloseTask
<1>2. tasks'[r] = {} /\ \A x \in Requests \ {r} : tasks'[x] = tasks[x]
    BY <1>1 DEF Inv, TypeOK
<1>3. Owners(r)' = Owners(r)
    BY <1>1, <1>2, NowhereOwns DEF Owners, One, Uses
<1>4. \A x \in Requests \ {r} : Owners(x)' = Owners(x)
    BY <1>1, <1>2, NowhereOwns DEF Owners, One, Uses
<1>5. req[r].refs \in Nat /\ Owners(r) \in Nat
    BY OwnersCount
<1>6. QED
    BY <1>1, <1>3, <1>4, <1>5, RefsSection

LEMMA CloseCleansRefs ==
  ASSUME Inv, TypeOK', NEW r \in Requests, CloseCleans(r)
  PROVE  ReferencesAreExact'
<1> DEFINE q == [req[r] EXCEPT !.buffer = 0, !.acquired = FALSE, !.closeComplete = TRUE,
                               !.fetchHeld = FALSE]
           b == [budget EXCEPT !.pending = Less(@, req[r].buffer),
                               !.active = IF req[r].acquired THEN Less(@, 1) ELSE @]
<1>1. main.of = r /\ main'.of = r /\ UNCHANGED <<tasks, io, callback>>
    BY DEF CloseCleans, Inv, TypeOK
<1>2. q \in Request /\ q.refs = req[r].refs /\ ~q.fetchHeld
    <2>1. req[r] \in Request
        BY DEF Inv, TypeOK
    <2>2. QED
        BY <2>1 DEF Request
<1>3. IF req[r].fetchHeld THEN Drop(r, q, b) ELSE req' = [req EXCEPT ![r] = q]
    BY Zenon DEF CloseCleans
<1> HIDE DEF q, b
<1>4. req[r].refs >= 1
    BY <1>1, HolderHasReference DEF Inv
<1>5. /\ \A x \in Requests \ {r} : req'[x] = req[x]
      /\ ~req'[r].fetchHeld
      /\ req'[r].refs = IF req[r].fetchHeld THEN req[r].refs - 1 ELSE req[r].refs
    <2>1. CASE req[r].fetchHeld
        BY <1>2, <1>3, <1>4, <2>1, DropRefs
    <2>2. CASE ~req[r].fetchHeld
        BY <1>2, <1>3, <2>2 DEF Inv, TypeOK
    <2>3. QED
        BY <2>1, <2>2
<1>6. req[r].refs \in Nat
    BY OwnersCount
<1>7. Owners(r)' - Owners(r) = req'[r].refs - req[r].refs
    BY <1>1, <1>5, <1>6 DEF Owners, One, Uses
<1>8. \A x \in Requests \ {r} : Owners(x)' = Owners(x)
    BY <1>1, <1>5 DEF Owners, One, Uses
<1>9. QED
    BY <1>5, <1>7, <1>8, RefsSection

LEMMA ReturnRefs ==
  ASSUME Inv, TypeOK', NEW r \in Requests, TaskReturns(r) \/ CallbackReturns(r)
  PROVE  ReferencesAreExact'
<1>1. /\ UNCHANGED <<tasks, io>> /\ Drop(r, req[r], budget)
      /\ \/ main.of = r /\ main' = Nowhere /\ UNCHANGED callback
         \/ callback.of = r /\ callback' = Nowhere /\ UNCHANGED main
    BY DEF TaskReturns, CallbackReturns
<1>2. req[r].refs >= 1 /\ req[r] \in Request
    BY <1>1, HolderHasReference DEF Inv, TypeOK
<1>3. /\ req'[r].refs = req[r].refs - 1 /\ req'[r].fetchHeld = req[r].fetchHeld
      /\ \A x \in Requests \ {r} : req'[x] = req[x]
    <2>1. /\ req'[r].refs = req[r].refs - 1
          /\ req'[r].fetchHeld = IF req[r].refs = 1 THEN FALSE ELSE req[r].fetchHeld
          /\ \A x \in Requests \ {r} : req'[x] = req[x]
        BY <1>1, <1>2, DropRefs
    <2>2. req[r].refs = 1 => req[r].fetchHeld = FALSE
        BY <1>1, <1>2, OwnersCount DEF Request
    <2>3. QED
        BY <2>1, <2>2
<1>4. req[r].refs \in Nat
    BY OwnersCount
<1>5. Owners(r)' - Owners(r) = req'[r].refs - req[r].refs
    BY <1>1, <1>3, <1>4, NowhereOwns DEF Owners, One, Uses
<1>6. \A x \in Requests \ {r} : Owners(x)' = Owners(x)
    BY <1>1, <1>3, NowhereOwns DEF Owners, One, Uses
<1>7. QED
    BY <1>3, <1>5, <1>6, RefsSection

(* A callback begins: it takes a reference.                                *)
LEMMA CallbackBegins ==
  ASSUME Inv, TypeOK', NEW r \in Requests, callback = Nowhere, callback'.of = r,
         UNCHANGED <<tasks, io, main>>,
         \A x \in Requests \ {r} : req'[x] = req[x],
         req'[r].refs = req[r].refs + 1, req'[r].fetchHeld = req[r].fetchHeld
  PROVE  ReferencesAreExact'
<1>1. req[r].refs \in Nat
    BY OwnersCount
<1>2. Owners(r)' - Owners(r) = req'[r].refs - req[r].refs
    BY <1>1, NowhereOwns DEF Owners, One, Uses
<1>3. \A x \in Requests \ {r} : Owners(x)' = Owners(x)
    BY NowhereOwns DEF Owners, One, Uses
<1>4. QED
    BY <1>2, <1>3, RefsSection

LEMMA CallbackRefs ==
  ASSUME Inv, TypeOK', NEW r \in Requests,
         \/ CloseAborts(r) \/ CallbackCloses(r)
         \/ \E h \in Headers, tooMuch \in BOOLEAN : OnPartial(r, h, tooMuch) \/ OnError(r, h)
         \/ \E h \in Headers, n \in Nat, copied \in BOOLEAN : OnSuccess(r, h, n, copied)
  PROVE  ReferencesAreExact'
<1>0. req \in [Requests -> Request]
    BY DEF Inv, TypeOK
<1>1. CASE CloseAborts(r)
    <2>1. /\ callback = Nowhere /\ callback'.of = r /\ UNCHANGED <<tasks, io, main>>
          /\ req' = [req EXCEPT ![r] = [req[r] EXCEPT !.refs = @ + 1, !.success = FALSE,
                                                      !.done = TRUE, !.fetch = "ended"]]
        BY <1>1 DEF CloseAborts, Becomes
    <2>2. /\ \A x \in Requests \ {r} : req'[x] = req[x]
          /\ req'[r].refs = req[r].refs + 1 /\ req'[r].fetchHeld = req[r].fetchHeld
        BY <1>0, <2>1 DEF Request
    <2>3. QED
        BY <2>1, <2>2, CallbackBegins
<1>2. CASE CallbackCloses(r)
    <2>1. /\ ScheduleClose(r) /\ UNCHANGED <<io, main>>
          /\ callback.of = r /\ callback'.of = r
        BY <1>2 DEF CallbackCloses, Inv, TypeOK
    <2>2. /\ \A x \in Requests : req'[x].fetchHeld = req[x].fetchHeld
          /\ \A x \in Requests \ {r} : tasks'[x] = tasks[x] /\ req'[x].refs = req[x].refs
          /\ "start" \in tasks'[r] <=> "start" \in tasks[r]
          /\ req'[r].refs - req[r].refs = One("close" \in tasks'[r]) - One("close" \in tasks[r])
        BY <2>1, ScheduleRefs
    <2>3. Owners(r)' - Owners(r) = One("close" \in tasks'[r]) - One("close" \in tasks[r])
        BY <2>1, <2>2 DEF Owners, One, Uses
    <2>4. \A x \in Requests \ {r} : Owners(x)' = Owners(x)
        BY <2>1, <2>2 DEF Owners, One, Uses
    <2>5. QED
        BY <2>2, <2>3, <2>4, RefsSection
<1>3. ASSUME NEW h \in Headers, NEW tooMuch \in BOOLEAN, OnPartial(r, h, tooMuch) \/ OnError(r, h)
      PROVE  ReferencesAreExact'
    <2>1. PICK q \in Request : q = Captured(req[r], h)
        BY <1>0, CapturedType
    <2>2. Same(q, req[r]) /\ q.refs = req[r].refs
        BY <1>0, <2>1, CapturedSame
    <2>3. callback = Nowhere /\ callback'.of = r /\ UNCHANGED <<tasks, io, main>>
        <3>1. CASE OnPartial(r, h, tooMuch)
            BY <3>1 DEF OnPartial, CallsBack
        <3>2. CASE OnError(r, h)
            BY <3>2 DEF OnError, CallsBack
        <3>3. QED
            BY <1>3, <3>1, <3>2
    <2>4. /\ \A x \in Requests \ {r} : req'[x] = req[x]
          /\ req'[r].refs = req[r].refs + 1 /\ req'[r].fetchHeld = req[r].fetchHeld
        <3>1. CASE OnPartial(r, h, tooMuch)
            <4>1. PICK a : req' = [req EXCEPT ![r] = [q EXCEPT !.refs = @ + 1, !.abort = a]]
                BY <2>1, <3>1 DEF OnPartial, Becomes
            <4>2. QED
                BY <1>0, <2>2, <4>1 DEF Request, Same
        <3>2. CASE OnError(r, h)
            <4>1. req' = [req EXCEPT ![r] = [q EXCEPT !.refs = @ + 1, !.fetch = "ended",
                                                      !.success = FALSE, !.done = TRUE]]
                BY <2>1, <3>2 DEF OnError, Becomes
            <4>2. QED
                BY <1>0, <2>2, <4>1 DEF Request, Same
        <3>3. QED
            BY <1>3, <3>1, <3>2
    <2>5. QED
        BY <2>3, <2>4, CallbackBegins
<1>4. ASSUME NEW h \in Headers, NEW n \in Nat, NEW copied \in BOOLEAN, OnSuccess(r, h, n, copied)
      PROVE  ReferencesAreExact'
    <2>1. PICK p \in Request :
            /\ req' = [req EXCEPT ![r] = p]
            /\ p.refs = req[r].refs + 1 /\ p.fetch = "ended" /\ Same(p, req[r])
        BY <1>4, OnSuccessLeaves DEF Inv
    <2>2. callback = Nowhere /\ callback'.of = r /\ UNCHANGED <<tasks, io, main>>
        BY <1>4 DEF OnSuccess, CallsBack
    <2>3. QED
        BY <1>0, <2>1, <2>2, CallbackBegins DEF Same
<1>5. QED
    BY <1>1, <1>2, <1>3, <1>4

LEMMA StepReferences == Inv /\ [Next]_vars => ReferencesAreExact'
<1> SUFFICES ASSUME Inv, [Next]_vars PROVE ReferencesAreExact'
    OBVIOUS
<1>0. TypeOK'
    BY StepTypeOK
<1>1. ASSUME NEW x \in Sessions, Install(x) \/ Uninstall(x) PROVE ReferencesAreExact'
    <2>1. UNCHANGED <<req, tasks, io, main, callback>>
        BY <1>1 DEF Install, Uninstall
    <2>2. QED
        BY <2>1 DEF Inv, ReferencesAreExact, One
<1>2. ASSUME NEW s \in Streams, Open(s) \/ Close(s) \/ Worker(s) PROVE ReferencesAreExact'
    BY <1>0, <1>2, WorkerRefs, ProxyRefs, WorkerClosesRefs, ReleaseRefs DEF Worker
<1>3. ASSUME NEW s \in Streams, NEW r \in Requests, NEW size \in Sizes, Load(s, r, size)
      PROVE  ReferencesAreExact'
    BY <1>0, <1>3, LoadRefs
<1>4. ASSUME NEW r \in Requests,
             \/ StartFetch(r) \/ IssueFetch(r) \/ IssueFails(r) \/ FetchIssued(r)
             \/ CloseTask(r) \/ CloseTakes(r) \/ CloseAborts(r) \/ CloseDestroys(r)
             \/ CloseCleans(r) \/ TaskReturns(r) \/ CallbackCloses(r) \/ CallbackReturns(r)
      PROVE  ReferencesAreExact'
    BY <1>0, <1>4, MainWorksRefs, StartFetchRefs, CloseTaskRefs, CloseCleansRefs, ReturnRefs,
       CallbackRefs
<1>5. CASE Browser
    <2>1. 0 .. RangeMax + 1 \subseteq Nat
        BY SizesAssumption
    <2>2. QED
        BY <1>0, <1>5, <2>1, CallbackRefs DEF Browser, Ends
<1>6. CASE UNCHANGED vars
    <2>1. UNCHANGED <<req, tasks, io, main, callback>>
        BY <1>6 DEF vars
    <2>2. QED
        BY <2>1 DEF Inv, ReferencesAreExact, One
<1>7. QED
    BY <1>1, <1>2, <1>3, <1>4, <1>5, <1>6 DEF Next, MainThread, Finished

-----------------------------------------------------------------------------
(* Places.                                                                 *)

LEMMA PlacesSection ==
  ASSUME Inv, NEW s \in Streams, \A t \in Streams \ {s} : io'[t] = io[t],
         io'[s].of = io[s].of \/ io'[s].of \notin Requests,
         io'[s].of \in Requests <=> Busy(s)', io'[s].at # "admission",
         UNCHANGED <<main, callback>>
  PROVE  PlacesInv'
BY DEF Inv, PlacesInv, Busy

LEMMA StreamPlaces ==
  ASSUME Inv, NEW s \in Streams, Open(s) \/ Close(s) \/ Worker(s)
  PROVE  PlacesInv'
<1>0. /\ io \in [Streams -> StreamRecords] /\ (io[s].of \in Requests <=> Busy(s))
    BY DEF Inv, TypeOK, StreamRecords, PlacesInv
<1> USE DEF Busy, StreamRecords
<1>1. CASE Open(s)
    BY <1>0, <1>1, NamesAssumption, PlacesSection DEF Open
<1>2. CASE Close(s)
    BY <1>0, <1>2, NamesAssumption, PlacesSection DEF Close, NewStream
<1>3. CASE AdmissionFails(s)
    BY <1>0, <1>3, NamesAssumption, PlacesSection DEF AdmissionFails
<1>4. CASE ProxyFails(s)
    BY <1>0, <1>4, NamesAssumption, PlacesSection DEF ProxyFails
<1>5. CASE WaitEnds(s)
    BY <1>0, <1>5, NamesAssumption, PlacesSection DEF WaitEnds
<1>6. CASE WaitSeesFailure(s)
    BY <1>0, <1>6, NamesAssumption, PlacesSection DEF WaitSeesFailure
<1>7. CASE Fails(s)
    BY <1>0, <1>7, NamesAssumption, PlacesSection DEF Fails
<1>8. CASE Admit(s)
    BY <1>0, <1>8, NamesAssumption, PlacesSection DEF Admit
<1>9. CASE Proxy(s)
    BY <1>0, <1>9, NamesAssumption, PlacesSection DEF Proxy
<1>10. CASE WaitAborts(s)
    BY <1>0, <1>10, NamesAssumption, PlacesSection DEF WaitAborts
<1>11. CASE WorkerCloses(s)
    <2>1. /\ io' = [io EXCEPT ![s].at = IF @ = "retry" THEN "wait" ELSE "answer"]
          /\ UNCHANGED <<main, callback>> /\ io[s].at \in {"abandon", "retry"}
        BY <1>11 DEF WorkerCloses
    <2>2. QED
        BY <1>0, <2>1, PlacesSection
<1>12. CASE InstallResponse(s)
    <2>1. /\ io' = [io EXCEPT ![s] = [@ EXCEPT !.at = "release", !.cache = req[io[s].of].data]]
          /\ UNCHANGED <<main, callback>> /\ io[s].at = "answer"
        BY <1>12 DEF InstallResponse
    <2>2. QED
        BY <1>0, <2>1, PlacesSection
<1>13. CASE Release(s)
    <2>1. /\ io' = [io EXCEPT ![s] = [@ EXCEPT !.at = "idle", !.of = NoRequest, !.want = 0]]
          /\ UNCHANGED <<main, callback>>
        BY <1>13 DEF Release
    <2>2. QED
        BY <1>0, <2>1, NamesAssumption, PlacesSection
<1>14. QED
    BY <1>1, <1>2, <1>3, <1>4, <1>5, <1>6, <1>7, <1>8, <1>9, <1>10, <1>11, <1>12, <1>13 DEF Worker

LEMMA LoadPlaces ==
  ASSUME Inv, NEW s \in Streams, NEW r \in Requests, NEW size \in Sizes, Load(s, r, size)
  PROVE  PlacesInv'
<1>1. \A t \in Streams : io[t].of # r
    BY DEF Load, Inv, ReferencesAreExact, One
<1>2. /\ io' = [io EXCEPT ![s] = [at |-> "admission", of |-> r, want |-> size, cache |-> 0,
                                  loads |-> io[s].loads + 1]]
      /\ UNCHANGED <<main, callback>>
    BY DEF Load
<1>3. QED
    BY <1>1, <1>2 DEF Inv, TypeOK, PlacesInv, Busy

LEMMA StepPlaces == Inv /\ [Next]_vars => PlacesInv'
<1> SUFFICES ASSUME Inv, [Next]_vars PROVE PlacesInv'
    OBVIOUS
<1>1. CASE \E x \in Sessions : Install(x) \/ Uninstall(x)
    BY <1>1 DEF Install, Uninstall, Inv, PlacesInv, Busy
<1>2. ASSUME NEW s \in Streams, Open(s) \/ Close(s) \/ Worker(s) PROVE PlacesInv'
    BY <1>2, StreamPlaces
<1>3. ASSUME NEW s \in Streams, NEW r \in Requests, NEW size \in Sizes, Load(s, r, size)
      PROVE  PlacesInv'
    BY <1>3, LoadPlaces
<1>4. ASSUME NEW r \in Requests,
             \/ StartFetch(r) \/ IssueFetch(r) \/ IssueFails(r) \/ FetchIssued(r)
             \/ CloseTask(r) \/ CloseTakes(r) \/ CloseDestroys(r)
             \/ CloseCleans(r) \/ TaskReturns(r)
      PROVE  PlacesInv'
    <2>1. UNCHANGED <<io, callback>>
        BY <1>4 DEF StartFetch, IssueFetch, IssueFails, FetchIssued, CloseTask, CloseTakes,
                    CloseDestroys, CloseCleans, TaskReturns
    <2>2. main' = Nowhere \/ (main'.of = r /\ main'.at # "idle")
        BY <1>4 DEF StartFetch, IssueFetch, IssueFails, FetchIssued, CloseTask, CloseTakes,
                    CloseDestroys, CloseCleans, TaskReturns, Inv, TypeOK
    <2>3. QED
        BY <2>1, <2>2, NamesAssumption DEF Inv, PlacesInv, Busy, Nowhere
<1>5. ASSUME NEW r \in Requests,
             \/ CloseAborts(r) \/ CallbackCloses(r) \/ CallbackReturns(r)
             \/ \E h \in Headers, tooMuch \in BOOLEAN : OnPartial(r, h, tooMuch)
             \/ Ends(r)
      PROVE  PlacesInv'
    <2>1. UNCHANGED <<io, main>> /\ (callback' = Nowhere \/ (callback'.of = r /\ callback'.at # "idle"))
        <3>1. CASE CloseAborts(r) \/ CallbackReturns(r)
            BY <3>1 DEF CloseAborts, CallbackReturns
        <3>2. CASE CallbackCloses(r)
            BY <3>2 DEF CallbackCloses, Inv, TypeOK
        <3>3. ASSUME NEW h \in Headers, NEW tooMuch \in BOOLEAN, OnPartial(r, h, tooMuch)
              PROVE  UNCHANGED <<io, main>> /\ callback'.of = r /\ callback'.at # "idle"
            BY <3>3 DEF OnPartial
        <3>4. ASSUME NEW h \in Headers, OnError(r, h)
              PROVE  UNCHANGED <<io, main>> /\ callback'.of = r /\ callback'.at # "idle"
            BY <3>4 DEF OnError
        <3>5. ASSUME NEW h \in Headers, NEW n, NEW copied \in BOOLEAN, OnSuccess(r, h, n, copied)
              PROVE  UNCHANGED <<io, main>> /\ callback'.of = r /\ callback'.at # "idle"
            BY <3>5 DEF OnSuccess
        <3>6. QED
            BY <1>5, <3>1, <3>2, <3>3, <3>4, <3>5 DEF Ends
    <2>3. QED
        BY <2>1, NamesAssumption DEF Inv, PlacesInv, Busy, Nowhere
<1>6. CASE UNCHANGED vars
    BY <1>6 DEF vars, Inv, PlacesInv, Busy
<1>7. QED
    BY <1>1, <1>2, <1>3, <1>4, <1>5, <1>6 DEF Next, MainThread, Browser, Finished

-----------------------------------------------------------------------------
(* Fetches.                                                                *)

(* A stream that has not proxied its request is alone with it.             *)
LEMMA EarlyIsAlone ==
  ASSUME Inv, NEW r \in Requests, NEW s \in Streams, io[s].of = r, Early(s)
  PROVE  main.of # r /\ callback.of # r /\ tasks[r] = {} /\ ~req[r].fetchHeld
<1>1. req[r].refs = 1 /\ req[r].refs = Owners(r) /\ Uses(r)
    BY OwnersCount DEF Inv, FetchInv, FetchOf, Uses
<1>2. "start" \notin tasks[r] /\ "close" \notin tasks[r]
    BY <1>1 DEF Owners, One
<1>3. tasks[r] = {}
    BY <1>2 DEF Inv, TypeOK
<1>4. QED
    BY <1>1, <1>3 DEF Owners, One

(* The streams with a request that they have not proxied.                  *)
EarlyUses(r) == \E s \in Streams : io[s].of = r /\ Early(s)

LEMMA FetchOfAgain ==
  ASSUME NEW r, FetchOf(r), EarlyUses(r)' => EarlyUses(r), main' = main, callback'.of = callback.of, tasks'[r] \subseteq tasks[r],
         req'[r].refs = req[r].refs \/ ~EarlyUses(r), Same(req'[r], req[r]), req'[r].fetch = req[r].fetch
  PROVE  FetchOf(r)'
<1>1. EarlyUses(r) => req[r].refs = 1 /\ req[r].fetch = "none" /\ ~req[r].closeEnqueued
    BY DEF FetchOf, EarlyUses
<1>2. \A s \in Streams : io'[s].of = r /\ Early(s)' => EarlyUses(r)
    BY DEF EarlyUses
<1>3. QED
    BY <1>1, <1>2 DEF FetchOf, Same

(* Sections about one request leave the others as they are.                *)
LEMMA FetchOfOther ==
  ASSUME NEW x, FetchOf(x), EarlyUses(x)' => EarlyUses(x), tasks'[x] = tasks[x], req'[x] = req[x],
         main' = main \/ (main.of # x /\ main'.of # x), callback' = callback \/ callback'.of # x
  PROVE  FetchOf(x)'
<1>1. EarlyUses(x) => req[x].refs = 1 /\ req[x].fetch = "none" /\ ~req[x].closeEnqueued
    BY DEF FetchOf, EarlyUses
<1>2. \A s \in Streams : io'[s].of = x /\ Early(s)' => EarlyUses(x)
    BY DEF EarlyUses
<1>3. QED
    BY <1>1, <1>2 DEF FetchOf

(* Only one stream has a request, so that it knows whether it is early.    *)
LEMMA EarlyOnlyIf ==
  ASSUME Inv, NEW s \in Streams, io[s].of \in Requests, ~Early(s)
  PROVE  ~EarlyUses(io[s].of)
BY DEF EarlyUses, Inv, PlacesInv

LEMMA StreamEarly ==
  ASSUME Inv, NEW s \in Streams, NEW i, io' = [io EXCEPT ![s] = i],
         i.of \notin Requests \/ (i.of = io[s].of /\ (i.at \in {"admission", "proxy"} => Early(s)))
  PROVE  \A r \in Requests : EarlyUses(r)' => EarlyUses(r)
BY DEF EarlyUses, Early, Inv, TypeOK

LEMMA StreamFetch ==
  ASSUME Inv, NEW s \in Streams,
         \/ Open(s) \/ Close(s) \/ AdmissionFails(s) \/ ProxyFails(s) \/ WaitEnds(s)
         \/ WaitSeesFailure(s) \/ Fails(s) \/ Admit(s) \/ WaitAborts(s) \/ InstallResponse(s)
  PROVE  FetchInv'
<1>0. io \in [Streams -> StreamRecords] /\ \A r \in Requests : FetchOf(r)
    BY DEF Inv, TypeOK, StreamRecords, FetchInv
<1>1. \A r \in Requests : EarlyUses(r)' => EarlyUses(r)
    <2> USE DEF Early, EarlyUses
    <2>1. CASE Open(s)
        BY <1>0, <2>1 DEF Open, StreamRecords
    <2>2. CASE Close(s)
        BY <1>0, <2>2, NamesAssumption DEF Close, NewStream, StreamRecords
    <2>3. CASE AdmissionFails(s) \/ ProxyFails(s) \/ WaitEnds(s)
        BY <1>0, <2>3 DEF AdmissionFails, ProxyFails, WaitEnds, StreamRecords
    <2>4. CASE WaitSeesFailure(s) \/ Fails(s)
        BY <1>0, <2>4 DEF WaitSeesFailure, Fails, StreamRecords
    <2>5. CASE Admit(s) \/ WaitAborts(s)
        BY <1>0, <2>5 DEF Admit, WaitAborts, StreamRecords
    <2>6. CASE InstallResponse(s)
        <3>1. /\ io' = [io EXCEPT ![s] = [@ EXCEPT !.at = "release", !.cache = req[io[s].of].data]]
            BY <2>6 DEF InstallResponse
        <3>2. QED
            BY <1>0, <3>1 DEF StreamRecords
    <2>7. QED
        BY <2>1, <2>2, <2>3, <2>4, <2>5, <2>6
<1>2. UNCHANGED <<tasks, main, callback>>
    BY DEF Open, Close, AdmissionFails, ProxyFails, WaitEnds, WaitSeesFailure, Fails, Admit,
           WaitAborts, InstallResponse
<1>3. \A r \in Requests : /\ req'[r].refs = req[r].refs /\ req'[r].fetch = req[r].fetch
                          /\ Same(req'[r], req[r])
    <2> USE DEF Same
    <2>1. CASE \/ Open(s) \/ Close(s) \/ AdmissionFails(s) \/ ProxyFails(s) \/ WaitEnds(s)
               \/ WaitSeesFailure(s) \/ Fails(s)
        BY <2>1 DEF Open, Close, AdmissionFails, ProxyFails, WaitEnds, WaitSeesFailure, Fails
    <2>2. CASE Admit(s)
        BY <2>2 DEF Admit, Inv, TypeOK, Request
    <2>3. CASE WaitAborts(s)
        BY <2>3 DEF WaitAborts, Becomes, Inv, TypeOK, Request
    <2>4. CASE InstallResponse(s)
        BY <2>4 DEF InstallResponse, Inv, TypeOK, Request
    <2>5. QED
        BY <2>1, <2>2, <2>3, <2>4
<1>4. \A r \in Requests : FetchOf(r)'
    BY <1>0, <1>1, <1>2, <1>3, FetchOfAgain
<1>5. QED
    BY <1>4 DEF FetchInv

LEMMA LoadFetch ==
  ASSUME Inv, NEW s \in Streams, NEW r \in Requests, NEW size \in Sizes, Load(s, r, size)
  PROVE  FetchInv'
<1>1. /\ io' = [io EXCEPT ![s] = [at |-> "admission", of |-> r, want |-> size, cache |-> 0,
                                  loads |-> io[s].loads + 1]]
      /\ req' = [req EXCEPT ![r] = [Freed EXCEPT !.refs = 1, !.session = SessionOf[s]]]
      /\ UNCHANGED <<tasks, main, callback>> /\ req[r].refs = 0
    BY DEF Load
<1>2. /\ "start" \notin tasks[r] /\ "close" \notin tasks[r] /\ main.of # r /\ callback.of # r
    BY <1>1, OwnersCount DEF Owners, One
<1>3. /\ req'[r].refs = 1 /\ req'[r].fetch = "none" /\ ~req'[r].closeEnqueued
      /\ ~req'[r].fetchClosed
    BY <1>1 DEF Inv, TypeOK, Freed
<1>4. FetchOf(r)'
    BY <1>1, <1>2, <1>3 DEF FetchOf
<1>5. ASSUME NEW x \in Requests \ {r} PROVE FetchOf(x)'
    <2>1. EarlyUses(x)' => EarlyUses(x)
        BY <1>1 DEF EarlyUses, Early, Inv, TypeOK
    <2>2. req'[x] = req[x] /\ FetchOf(x)
        BY <1>1 DEF Inv, TypeOK, FetchInv
    <2>3. QED
        BY <1>1, <2>1, <2>2, FetchOfOther
<1>6. QED
    BY <1>4, <1>5 DEF FetchInv

LEMMA ProxyFetch ==
  ASSUME Inv, NEW s \in Streams, Proxy(s)
  PROVE  FetchInv'
<1>0. PICK r \in Requests : r = io[s].of /\ Early(s)
    BY DEF Inv, PlacesInv, Busy, Proxy, Early
<1>1. /\ req' = [req EXCEPT ![r] = [req[r] EXCEPT !.refs = @ + 1]]
      /\ tasks' = [tasks EXCEPT ![r] = @ \cup {"start"}] /\ UNCHANGED <<main, callback>>
      /\ io' = [io EXCEPT ![s].at = "wait"]
    BY <1>0 DEF Proxy, Becomes
<1>2. /\ req[r].fetch = "none" /\ main.of # r /\ callback.of # r /\ tasks[r] = {}
      /\ ~req[r].fetchHeld /\ FetchOf(r)
    BY <1>0, EarlyIsAlone DEF Inv, FetchInv, FetchOf
<1>3. /\ req'[r].fetch = "none" /\ ~req'[r].fetchHeld /\ req'[r].fetchClosed = req[r].fetchClosed
      /\ tasks'[r] = {"start"}
    BY <1>1, <1>2 DEF Inv, TypeOK, Request
<1>4. ~EarlyUses(r)' /\ \A x \in Requests : EarlyUses(x)' => EarlyUses(x)
    BY <1>0, <1>1 DEF EarlyUses, Early, Inv, TypeOK, PlacesInv
<1>5. FetchOf(r)'
    <2>1. \A t \in Streams : ~(io'[t].of = r /\ Early(t)')
        BY <1>4 DEF EarlyUses
    <2>2. QED
        BY <1>1, <1>2, <1>3, <2>1 DEF FetchOf
<1>6. ASSUME NEW x \in Requests \ {r} PROVE FetchOf(x)'
    <2>1. req'[x] = req[x] /\ tasks'[x] = tasks[x] /\ FetchOf(x)
        BY <1>1 DEF Inv, TypeOK, FetchInv
    <2>2. QED
        BY <1>1, <1>4, <2>1, FetchOfOther
<1>7. QED
    BY <1>5, <1>6 DEF FetchInv

(* Whoever is at work on a request has had it proxied.                     *)
LEMMA AtWorkIsLate ==
  ASSUME Inv, NEW r \in Requests,
         main.of = r \/ callback.of = r \/ tasks[r] # {} \/ req[r].fetchHeld
  PROVE  ~EarlyUses(r)
BY EarlyIsAlone DEF EarlyUses

(* Sections about one request.                                             *)
LEMMA FetchSection ==
  ASSUME Inv, NEW r \in Requests, FetchOf(r)',
         \A x \in Requests : EarlyUses(x)' => EarlyUses(x),
         \A x \in Requests \ {r} : req'[x] = req[x] /\ tasks'[x] = tasks[x],
         main' = main \/ (main.of \notin Requests \ {r} /\ main'.of \notin Requests \ {r}),
         callback' = callback \/ callback'.of \notin Requests \ {r}
  PROVE  FetchInv'
<1>1. ASSUME NEW x \in Requests \ {r} PROVE FetchOf(x)'
    <2>1. FetchOf(x)
        BY DEF Inv, FetchInv
    <2>2. QED
        BY <2>1, FetchOfOther
<1>2. QED
    BY <1>1 DEF FetchInv

(* Nobody is left to work on a request that was freed.                     *)
LEMMA FreedFetch ==
  ASSUME TypeOK', ReferencesAreExact', NEW r \in Requests, req'[r] = Freed
  PROVE  FetchOf(r)'
<1>1. /\ req'[r].refs = 0 /\ req'[r].fetch = "none" /\ ~req'[r].fetchClosed
      /\ ~req'[r].fetchHeld
    BY DEF Freed
<1>2. /\ main'.of # r /\ callback'.of # r /\ "start" \notin tasks'[r] /\ "close" \notin tasks'[r]
      /\ ~ Uses(r)'
    BY <1>1 DEF ReferencesAreExact, One, Uses
<1>3. QED
    BY <1>1, <1>2 DEF FetchOf, Uses

LEMMA DropLeaves ==
  ASSUME Inv, NEW r \in Requests, NEW q \in Request, NEW b, Drop(r, q, b)
  PROVE  /\ req'[r] = Freed \/ (Same(req'[r], q) /\ req'[r].fetch = q.fetch)
         /\ \A x \in Requests \ {r} : req'[x] = req[x]
<1>1. CASE q.refs = 1
    BY <1>1 DEF Drop, Inv, TypeOK
<1>2. CASE q.refs # 1
    BY <1>2 DEF Drop, Inv, TypeOK, Request, Same
<1>3. QED
    BY <1>1, <1>2

LEMMA ScheduleFetch ==
  ASSUME Inv, NEW r \in Requests, ScheduleClose(r) \/ ScheduleCloseFails(r), ~EarlyUses(r),
         EarlyUses(r)' => EarlyUses(r), main' = main, callback'.of = callback.of
  PROVE  /\ FetchOf(r)'
         /\ \A x \in Requests \ {r} : req'[x] = req[x] /\ tasks'[x] = tasks[x]
<1>1. FetchOf(r) /\ req \in [Requests -> Request]
    BY DEF Inv, FetchInv, TypeOK
<1>2. /\ req'[r].fetch = req[r].fetch /\ req'[r].fetchHeld = req[r].fetchHeld
      /\ req'[r].fetchClosed = req[r].fetchClosed
      /\ "start" \in tasks'[r] => "start" \in tasks[r]
      /\ "close" \in tasks'[r] => req'[r].closeEnqueued
      /\ \A x \in Requests \ {r} : req'[x] = req[x] /\ tasks'[x] = tasks[x]
    <2>1. CASE ScheduleClose(r) /\ NeedsClose(req[r])
        <3>1. /\ req' = [req EXCEPT ![r] = [req[r] EXCEPT !.closeRequested = TRUE,
                                            !.closeEnqueued = TRUE, !.refs = @ + 1]]
              /\ tasks' = [tasks EXCEPT ![r] = @ \cup {"close"}]
            BY <2>1 DEF ScheduleClose, Becomes, ScheduledClose, Inv, TypeOK
        <3>2. QED
            BY <1>1, <3>1 DEF Inv, TypeOK, Request
    <2>2. CASE \/ ScheduleClose(r) /\ ~NeedsClose(req[r])
               \/ ScheduleCloseFails(r)
        <3>1. /\ req' = [req EXCEPT ![r] = [req[r] EXCEPT !.closeRequested = TRUE]]
              /\ tasks' = tasks
            BY <2>2 DEF ScheduleClose, ScheduleCloseFails, Becomes, ScheduledClose, Inv, TypeOK
        <3>2. "close" \in tasks[r] => req[r].closeEnqueued
            BY <1>1 DEF FetchOf
        <3>3. QED
            BY <1>1, <3>1, <3>2 DEF Request
    <2>3. QED
        BY <2>1, <2>2
<1>3. \A s \in Streams : ~ (io'[s].of = r /\ Early(s)')
    BY DEF EarlyUses
<1>4. QED
    BY <1>1, <1>2, <1>3 DEF FetchOf

LEMMA WorkerClosesFetch ==
  ASSUME Inv, NEW s \in Streams, WorkerCloses(s)
  PROVE  FetchInv'
<1>0. PICK r \in Requests : r = io[s].of
    BY DEF Inv, PlacesInv, Busy, WorkerCloses
<1>1. /\ io' = [io EXCEPT ![s].at = IF @ = "retry" THEN "wait" ELSE "answer"]
      /\ io[s].at \in {"abandon", "retry"} /\ UNCHANGED <<main, callback>>
      /\ ScheduleClose(r) \/ ScheduleCloseFails(r)
    BY <1>0 DEF WorkerCloses
<1>2. ~EarlyUses(r)
    BY <1>0, <1>1, EarlyOnlyIf DEF Early
<1>3. \A x \in Requests : EarlyUses(x)' => EarlyUses(x)
    BY <1>1 DEF EarlyUses, Early, Inv, TypeOK
<1>4. /\ FetchOf(r)'
      /\ \A x \in Requests \ {r} : req'[x] = req[x] /\ tasks'[x] = tasks[x]
    BY <1>1, <1>2, <1>3, ScheduleFetch
<1>5. QED
    BY <1>1, <1>3, <1>4, FetchSection

LEMMA ReleaseFetch ==
  ASSUME Inv, TypeOK', ReferencesAreExact', NEW s \in Streams, Release(s)
  PROVE  FetchInv'
<1>0. PICK r \in Requests : r = io[s].of
    BY DEF Inv, PlacesInv, Busy, Release
<1>1. /\ io' = [io EXCEPT ![s] = [@ EXCEPT !.at = "idle", !.of = NoRequest, !.want = 0]]
      /\ Drop(r, req[r], budget) /\ UNCHANGED <<tasks, main, callback>> /\ io[s].at = "release"
    BY <1>0 DEF Release
<1>2. ~EarlyUses(r)
    BY <1>0, <1>1, EarlyOnlyIf DEF Early
<1>3. \A x \in Requests : EarlyUses(x)' => EarlyUses(x)
    BY <1>1 DEF EarlyUses, Early, Inv, TypeOK
<1>4. /\ req'[r] = Freed \/ (Same(req'[r], req[r]) /\ req'[r].fetch = req[r].fetch)
      /\ \A x \in Requests \ {r} : req'[x] = req[x]
    BY <1>1, DropLeaves DEF Inv, TypeOK
<1>5. FetchOf(r)'
    <2>1. FetchOf(r)
        BY DEF Inv, FetchInv
    <2>2. QED
        BY <1>1, <1>2, <1>3, <1>4, <2>1, FreedFetch, FetchOfAgain
<1>6. QED
    BY <1>1, <1>3, <1>4, <1>5, FetchSection

LEMMA NowhereIsNoRequest == Nowhere.of \notin Requests
BY NamesAssumption DEF Nowhere

(* Sections of the main thread on a request that is no longer early.       *)
LEMMA LateFetch ==
  ASSUME Inv, NEW r \in Requests, UNCHANGED io, ~EarlyUses(r),
         /\ callback'.of = r => req'[r].fetch \in {"live", "ended"}
         /\ req'[r].fetch \in {"live", "ended"} => req'[r].fetchHeld
         /\ "start" \in tasks'[r] => req'[r].fetch = "none" /\ ~req'[r].fetchHeld /\ main'.of # r
         /\ "close" \in tasks'[r] => req'[r].closeEnqueued
         /\ main' = [at |-> "fetch", of |-> r] => req'[r].fetch = "none" /\ req'[r].fetchHeld
         /\ main' = [at |-> "issued", of |-> r] => req'[r].fetch \in {"live", "ended"}
         /\ main' = [at |-> "destroy", of |-> r] =>
              req'[r].fetch \in {"live", "ended"} /\ req'[r].fetchClosed
         /\ main' = [at |-> "cleanup", of |-> r] => req'[r].fetch \in {"none", "closed"}
         /\ req'[r].fetchClosed => req'[r].fetch = "closed" \/ main' = [at |-> "destroy", of |-> r]
         /\ req'[r].fetch = "closed" => req'[r].fetchClosed
  PROVE  FetchOf(r)'
<1>1. \A s \in Streams : ~ (io'[s].of = r /\ Early(s)')
    BY DEF EarlyUses, Early
<1>2. QED
    BY <1>1 DEF FetchOf

LEMMA EarlyKept == UNCHANGED io => \A x \in Requests : EarlyUses(x)' => EarlyUses(x)
BY DEF EarlyUses, Early

LEMMA StartFetchFetch ==
  ASSUME Inv, NEW r \in Requests, StartFetch(r)
  PROVE  FetchInv'
<1>0. FetchOf(r) /\ req \in [Requests -> Request] /\ ~EarlyUses(r)
    BY AtWorkIsLate DEF Inv, FetchInv, TypeOK, StartFetch
<1>1. /\ main = Nowhere /\ callback = Nowhere /\ UNCHANGED <<io, callback>>
      /\ "start" \in tasks[r] /\ tasks' = [tasks EXCEPT ![r] = @ \ {"start"}]
      /\ \/ /\ req' = [req EXCEPT ![r] = [req[r] EXCEPT !.done = TRUE, !.success = FALSE,
                                                      !.startComplete = TRUE]]
            /\ main' = [at |-> "close", of |-> r]
         \/ /\ req' = [req EXCEPT ![r] = [req[r] EXCEPT !.refs = @ + 1, !.fetchHeld = TRUE]]
            /\ main' = [at |-> "fetch", of |-> r]
    BY DEF StartFetch, Becomes
<1>2. /\ "start" \notin tasks'[r]
      /\ "close" \in tasks'[r] => "close" \in tasks[r]
      /\ \A x \in Requests \ {r} : tasks'[x] = tasks[x] /\ req'[x] = req[x]
    BY <1>0, <1>1 DEF Inv, TypeOK
<1>3. /\ req'[r].fetch = "none" /\ req'[r].fetchClosed = req[r].fetchClosed
      /\ req'[r].closeEnqueued = req[r].closeEnqueued
      /\ main'.at = "fetch" => req'[r].fetchHeld
    <2>0. req[r].fetch = "none" /\ req[r] \in Request
        BY <1>0, <1>1 DEF FetchOf
    <2>1. CASE /\ req' = [req EXCEPT ![r] = [req[r] EXCEPT !.done = TRUE, !.success = FALSE,
                                                      !.startComplete = TRUE]]
               /\ main' = [at |-> "close", of |-> r]
        BY <1>0, <2>0, <2>1 DEF Request
    <2>2. CASE /\ req' = [req EXCEPT ![r] = [req[r] EXCEPT !.refs = @ + 1, !.fetchHeld = TRUE]]
               /\ main' = [at |-> "fetch", of |-> r]
        BY <1>0, <2>0, <2>2 DEF Request
    <2>3. QED
        BY <1>1, <2>1, <2>2
<1>4. ~req[r].fetchClosed
    BY <1>0, <1>1, NowhereIsNoRequest DEF FetchOf
<1>5. FetchOf(r)'
    <2>1. callback'.of # r
        BY <1>1, NowhereIsNoRequest
    <2>2. "close" \in tasks[r] => req[r].closeEnqueued
        BY <1>0 DEF FetchOf
    <2>3. main'.at \in {"close", "fetch"} /\ UNCHANGED io
        BY <1>1
    <2>4. /\ main' # [at |-> "issued", of |-> r] /\ main' # [at |-> "destroy", of |-> r]
          /\ main' # [at |-> "cleanup", of |-> r]
        BY <2>3
    <2>5. "close" \in tasks'[r] => req'[r].closeEnqueued
        BY <1>2, <1>3, <2>2
    <2>6. main' = [at |-> "fetch", of |-> r] => req'[r].fetchHeld
        BY <1>3
    <2>7. QED
        BY <1>0, <1>2, <1>3, <1>4, <2>1, <2>3, <2>4, <2>5, <2>6, LateFetch
<1>6. QED
    BY <1>1, <1>2, <1>5, NowhereIsNoRequest, EarlyKept, FetchSection

(* Sections of the running task.                                           *)
LEMMA MainWorksFetch ==
  ASSUME Inv, NEW r \in Requests,
         IssueFetch(r) \/ FetchIssued(r) \/ IssueFails(r) \/ CloseTakes(r) \/ CloseDestroys(r)
  PROVE  FetchInv'
<1>0. FetchOf(r) /\ req \in [Requests -> Request]
    BY DEF Inv, FetchInv, TypeOK
<1>1. main.of = r /\ main'.of = r /\ UNCHANGED <<tasks, io, callback>>
    BY DEF IssueFetch, FetchIssued, IssueFails, CloseTakes, CloseDestroys, Inv, TypeOK
<1>2. ~EarlyUses(r) /\ "start" \notin tasks[r]
    BY <1>0, <1>1, AtWorkIsLate DEF FetchOf
<1>3. req'[r].fetchHeld = req[r].fetchHeld /\ req'[r].closeEnqueued = req[r].closeEnqueued
    <2>1. CASE IssueFetch(r) \/ FetchIssued(r) \/ CloseDestroys(r)
        BY <1>0, <2>1 DEF IssueFetch, FetchIssued, CloseDestroys, Becomes, Request
    <2>2. CASE IssueFails(r)
        BY <1>0, <2>2 DEF IssueFails, Becomes, Request
    <2>3. CASE CloseTakes(r)
        BY <1>0, <2>3 DEF CloseTakes, Becomes, Request
    <2>4. QED
        BY <2>1, <2>2, <2>3
<1>4. \A x \in Requests \ {r} : req'[x] = req[x]
    BY <1>0 DEF IssueFetch, FetchIssued, IssueFails, CloseTakes, CloseDestroys, Becomes
<1>5. FetchOf(r)'
    <2>0. req[r] \in Request /\ req'[r].fetchHeld = req[r].fetchHeld
          /\ req'[r].closeEnqueued = req[r].closeEnqueued
        BY <1>0, <1>3
    <2>1. CASE IssueFetch(r)
        <3>1. /\ req'[r].fetch = "live" /\ req'[r].fetchClosed = req[r].fetchClosed
              /\ main = [at |-> "fetch", of |-> r] /\ main' = [at |-> "issued", of |-> r]
            BY <1>0, <2>0, <2>1 DEF IssueFetch, Becomes, Request
        <3>2. QED
            BY <1>0, <1>1, <1>2, <2>0, <3>1, LateFetch DEF FetchOf
    <2>2. CASE FetchIssued(r)
        <3>1. /\ req'[r].fetch = req[r].fetch /\ req'[r].fetchClosed = req[r].fetchClosed
              /\ main = [at |-> "issued", of |-> r]
              /\ main' = [at |-> "close", of |-> r] \/ main' = [at |-> "return", of |-> r]
            BY <1>0, <2>0, <2>2 DEF FetchIssued, Becomes, Request
        <3>2. QED
            BY <1>0, <1>1, <1>2, <2>0, <3>1, LateFetch DEF FetchOf
    <2>3. CASE IssueFails(r)
        <3>1. /\ req'[r].fetch = req[r].fetch /\ req'[r].fetchClosed = req[r].fetchClosed
              /\ main = [at |-> "fetch", of |-> r] /\ main' = [at |-> "close", of |-> r]
            BY <1>0, <2>0, <2>3 DEF IssueFails, Becomes, Request
        <3>2. QED
            BY <1>0, <1>1, <1>2, <2>0, <3>1, LateFetch DEF FetchOf
    <2>4. CASE CloseTakes(r)
        <3> DEFINE takes == req[r].fetch # "none" /\ ~req[r].fetchClosed
        <3>1. main = [at |-> "close", of |-> r] /\ req'[r].fetch = req[r].fetch
            BY <1>0, <2>0, <2>4 DEF CloseTakes, Becomes, Request
        <3>2. \/ /\ main' = [at |-> "return", of |-> r]
                 /\ req'[r].fetchClosed = req[r].fetchClosed
              \/ /\ main' = [at |-> IF takes THEN "destroy" ELSE "cleanup", of |-> r]
                 /\ req'[r].fetchClosed <=> (req[r].fetchClosed \/ takes)
            BY <1>0, <2>0, <2>4 DEF CloseTakes, Becomes, Request
        <3>3. req[r].fetch \in {"none", "live", "ended", "closed"}
            BY <2>0 DEF Request
        <3>4. QED
            BY <1>0, <1>1, <1>2, <2>0, <3>1, <3>2, <3>3, LateFetch DEF FetchOf
    <2>5. CASE CloseDestroys(r)
        <3>1. /\ req'[r].fetch = "closed" /\ req'[r].fetchClosed = req[r].fetchClosed
              /\ main = [at |-> "destroy", of |-> r] /\ main' = [at |-> "cleanup", of |-> r]
              /\ callback' = Nowhere
            BY <1>0, <2>0, <2>5 DEF CloseDestroys, Becomes, Request
        <3>2. QED
            BY <1>0, <1>1, <1>2, <2>0, <3>1, LateFetch, NowhereIsNoRequest DEF FetchOf
    <2>6. QED
        BY <2>1, <2>2, <2>3, <2>4, <2>5
<1>6. QED
    BY <1>1, <1>4, <1>5, EarlyKept, FetchSection

LEMMA CloseTaskFetch ==
  ASSUME Inv, NEW r \in Requests, CloseTask(r)
  PROVE  FetchInv'
<1>1. /\ main = Nowhere /\ main' = [at |-> "close", of |-> r] /\ UNCHANGED <<io, callback, req>>
      /\ tasks[r] = {"close"} /\ tasks' = [tasks EXCEPT ![r] = {}] /\ FetchOf(r)
    BY DEF CloseTask, Inv, FetchInv
<1>2. tasks'[r] = {} /\ \A x \in Requests \ {r} : tasks'[x] = tasks[x]
    BY <1>1 DEF Inv, TypeOK
<1>3. ~EarlyUses(r)
    BY <1>1, AtWorkIsLate
<1>4. FetchOf(r)'
    BY <1>1, <1>2, <1>3, NowhereIsNoRequest, LateFetch DEF FetchOf
<1>5. QED
    BY <1>1, <1>2, <1>4, NowhereIsNoRequest, EarlyKept, FetchSection

LEMMA CloseCleansFetch ==
  ASSUME Inv, TypeOK', ReferencesAreExact', NEW r \in Requests, CloseCleans(r)
  PROVE  FetchInv'
<1> DEFINE q == [req[r] EXCEPT !.buffer = 0, !.acquired = FALSE, !.closeComplete = TRUE,
                               !.fetchHeld = FALSE]
           b == [budget EXCEPT !.pending = Less(@, req[r].buffer),
                               !.active = IF req[r].acquired THEN Less(@, 1) ELSE @]
<1>1. /\ main = [at |-> "cleanup", of |-> r] /\ main' = [at |-> "return", of |-> r]
      /\ UNCHANGED <<tasks, io, callback>>
    BY DEF CloseCleans
<1>2. q \in Request /\ q.fetch = req[r].fetch /\ q.fetchClosed = req[r].fetchClosed
      /\ q.closeEnqueued = req[r].closeEnqueued
    <2>1. req[r] \in Request
        BY DEF Inv, TypeOK
    <2>2. QED
        BY <2>1 DEF Request
<1>3. IF req[r].fetchHeld THEN Drop(r, q, b) ELSE req' = [req EXCEPT ![r] = q]
    BY Zenon DEF CloseCleans
<1> HIDE DEF q, b
<1>4. /\ req'[r] = Freed \/ (Same(req'[r], q) /\ req'[r].fetch = q.fetch)
      /\ \A x \in Requests \ {r} : req'[x] = req[x]
    <2>1. CASE req[r].fetchHeld
        BY <1>2, <1>3, <2>1, DropLeaves
    <2>2. CASE ~req[r].fetchHeld
        BY <1>2, <1>3, <2>2 DEF Inv, TypeOK, Same
    <2>3. QED
        BY <2>1, <2>2
<1>5. FetchOf(r) /\ ~EarlyUses(r)
    BY <1>1, AtWorkIsLate DEF Inv, FetchInv
<1>6. FetchOf(r)'
    <2>1. CASE req'[r] = Freed
        BY <2>1, FreedFetch
    <2>2. CASE Same(req'[r], q) /\ req'[r].fetch = q.fetch
        BY <1>1, <1>2, <1>5, <2>2, LateFetch DEF FetchOf, Same
    <2>3. QED
        BY <1>4, <2>1, <2>2
<1>7. QED
    BY <1>1, <1>4, <1>6, EarlyKept, FetchSection

LEMMA ReturnFetch ==
  ASSUME Inv, TypeOK', ReferencesAreExact', NEW r \in Requests, TaskReturns(r) \/ CallbackReturns(r)
  PROVE  FetchInv'
<1>1. /\ UNCHANGED <<tasks, io>> /\ Drop(r, req[r], budget)
      /\ \/ main = [at |-> "return", of |-> r] /\ main' = Nowhere /\ UNCHANGED callback
         \/ callback.of = r /\ callback' = Nowhere /\ UNCHANGED main
    BY DEF TaskReturns, CallbackReturns
<1>2. FetchOf(r) /\ ~EarlyUses(r)
    BY <1>1, AtWorkIsLate DEF Inv, FetchInv
<1>3. /\ req'[r] = Freed \/ (Same(req'[r], req[r]) /\ req'[r].fetch = req[r].fetch)
      /\ \A x \in Requests \ {r} : req'[x] = req[x]
    BY <1>1, DropLeaves DEF Inv, TypeOK
<1>4. FetchOf(r)'
    <2>1. CASE req'[r] = Freed
        BY <2>1, FreedFetch
    <2>2. CASE Same(req'[r], req[r]) /\ req'[r].fetch = req[r].fetch
        BY <1>1, <1>2, <2>2, LateFetch, NowhereIsNoRequest DEF FetchOf, Same
    <2>3. QED
        BY <1>3, <2>1, <2>2
<1>5. QED
    BY <1>1, <1>3, <1>4, NowhereIsNoRequest, EarlyKept, FetchSection

(* Callbacks.                                                              *)
LEMMA CallbackFetch ==
  ASSUME Inv, NEW r \in Requests,
         \/ CloseAborts(r)
         \/ \E h \in Headers, tooMuch \in BOOLEAN : OnPartial(r, h, tooMuch) \/ OnError(r, h)
         \/ \E h \in Headers, n \in Nat, copied \in BOOLEAN : OnSuccess(r, h, n, copied)
  PROVE  FetchInv'
<1>0. FetchOf(r) /\ req \in [Requests -> Request]
    BY DEF Inv, FetchInv, TypeOK
<1>1. /\ callback'.of = r /\ UNCHANGED <<tasks, io, main>> /\ req[r].fetch = "live"
    <2>1. CASE CloseAborts(r)
        BY <2>1 DEF CloseAborts
    <2>2. ASSUME NEW h \in Headers, NEW tooMuch \in BOOLEAN, OnPartial(r, h, tooMuch)
          PROVE  callback'.of = r /\ UNCHANGED <<tasks, io, main>> /\ req[r].fetch = "live"
        BY <2>2 DEF OnPartial, CallsBack
    <2>3. ASSUME NEW h \in Headers, OnError(r, h)
          PROVE  callback'.of = r /\ UNCHANGED <<tasks, io, main>> /\ req[r].fetch = "live"
        <3>1. Captured(req[r], h).fetch = req[r].fetch
            BY <1>0, CapturedSame
        <3>2. QED
            BY <2>3, <3>1 DEF OnError, CallsBack
    <2>4. ASSUME NEW h \in Headers, NEW n \in Nat, NEW copied \in BOOLEAN, OnSuccess(r, h, n, copied)
          PROVE  callback'.of = r /\ UNCHANGED <<tasks, io, main>> /\ req[r].fetch = "live"
        BY <2>4 DEF OnSuccess, CallsBack
    <2>5. QED
        BY <2>1, <2>2, <2>3, <2>4
<1>2. PICK p \in Request : /\ req' = [req EXCEPT ![r] = p]
                           /\ Same(p, req[r]) /\ p.fetch \in {"live", "ended"}
    <2>1. CASE CloseAborts(r)
        <3> DEFINE p == [req[r] EXCEPT !.refs = @ + 1, !.success = FALSE, !.done = TRUE,
                                       !.fetch = "ended"]
        <3>1. req' = [req EXCEPT ![r] = p]
            BY <2>1 DEF CloseAborts, Becomes
        <3>2. req[r].refs + 1 \in Nat /\ req[r] \in Request
            BY <1>0 DEF Request
        <3>3. p \in Request /\ Same(p, req[r]) /\ p.fetch = "ended"
            BY <3>2 DEF Request, Same
        <3>4. QED
            BY <3>1, <3>3
    <2>2. ASSUME NEW h \in Headers, NEW tooMuch \in BOOLEAN, OnPartial(r, h, tooMuch) \/ OnError(r, h)
          PROVE  \E p \in Request : /\ req' = [req EXCEPT ![r] = p]
                                    /\ Same(p, req[r]) /\ p.fetch \in {"live", "ended"}
        <3>1. PICK q \in Request : q = Captured(req[r], h)
            BY <1>0, CapturedType
        <3>2. Same(q, req[r]) /\ q.fetch = "live" /\ q.refs + 1 \in Nat /\ q.abort \in Reasons
            BY <1>0, <1>1, <3>1, CapturedSame DEF Request
        <3>3. CASE OnPartial(r, h, tooMuch)
            <4>1. PICK a \in Reasons : Becomes(r, [q EXCEPT !.refs = @ + 1, !.abort = a])
                BY <3>1, <3>2, <3>3 DEF OnPartial, Reasons
            <4> DEFINE p == [q EXCEPT !.refs = @ + 1, !.abort = a]
            <4>2. p \in Request /\ Same(p, req[r]) /\ p.fetch = "live"
                BY <3>1, <3>2 DEF Request, Same
            <4>3. QED
                BY <4>1, <4>2 DEF Becomes
        <3>4. CASE OnError(r, h)
            <4> DEFINE p == [q EXCEPT !.refs = @ + 1, !.fetch = "ended", !.success = FALSE,
                                      !.done = TRUE]
            <4>1. Becomes(r, p)
                BY <3>1, <3>4 DEF OnError
            <4>2. p \in Request /\ Same(p, req[r]) /\ p.fetch = "ended"
                BY <3>1, <3>2 DEF Request, Same
            <4>3. QED
                BY <4>1, <4>2 DEF Becomes
        <3>5. QED
            BY <2>2, <3>3, <3>4
    <2>3. ASSUME NEW h \in Headers, NEW n \in Nat, NEW copied \in BOOLEAN, OnSuccess(r, h, n, copied)
          PROVE  \E p \in Request : /\ req' = [req EXCEPT ![r] = p]
                                    /\ Same(p, req[r]) /\ p.fetch \in {"live", "ended"}
        BY <2>3, OnSuccessLeaves DEF Inv
    <2>4. QED
        BY <2>1, <2>2, <2>3
<1>3. req'[r] = p /\ \A x \in Requests \ {r} : req'[x] = req[x]
    BY <1>0, <1>2
<1>4. ~EarlyUses(r)
    BY <1>0, <1>1, AtWorkIsLate DEF FetchOf
<1>5. FetchOf(r)'
    BY <1>0, <1>1, <1>2, <1>3, <1>4, LateFetch DEF FetchOf, Same
<1>6. QED
    BY <1>1, <1>3, <1>5, EarlyKept, FetchSection

LEMMA StepFetch == Inv /\ [Next]_vars => FetchInv'
<1> SUFFICES ASSUME Inv, [Next]_vars PROVE FetchInv'
    OBVIOUS
<1>0. TypeOK' /\ ReferencesAreExact'
    BY StepTypeOK, StepReferences
<1>1. CASE \/ \E x \in Sessions : Install(x) \/ Uninstall(x)
           \/ UNCHANGED vars
    <2>1. UNCHANGED <<req, tasks, io, main, callback>>
        BY <1>1 DEF Install, Uninstall, vars
    <2>2. QED
        BY <2>1 DEF Inv, FetchInv, FetchOf, Early
<1>2. ASSUME NEW s \in Streams, Open(s) \/ Close(s) \/ Worker(s) PROVE FetchInv'
    BY <1>0, <1>2, StreamFetch, ProxyFetch, WorkerClosesFetch, ReleaseFetch DEF Worker
<1>3. ASSUME NEW s \in Streams, NEW r \in Requests, NEW size \in Sizes, Load(s, r, size)
      PROVE  FetchInv'
    BY <1>3, LoadFetch
<1>4. ASSUME NEW r \in Requests,
             \/ StartFetch(r) \/ IssueFetch(r) \/ IssueFails(r) \/ FetchIssued(r)
             \/ CloseTask(r) \/ CloseTakes(r) \/ CloseAborts(r) \/ CloseDestroys(r)
             \/ CloseCleans(r) \/ TaskReturns(r) \/ CallbackCloses(r) \/ CallbackReturns(r)
      PROVE  FetchInv'
    <2>1. CASE CallbackCloses(r)
        <3>1. /\ callback = [at |-> "close", of |-> r] /\ callback' = [at |-> "return", of |-> r]
              /\ ScheduleClose(r) /\ UNCHANGED <<io, main>>
            BY <2>1 DEF CallbackCloses
        <3>2. ~EarlyUses(r) /\ \A x \in Requests : EarlyUses(x)' => EarlyUses(x)
            BY <3>1, AtWorkIsLate, EarlyKept
        <3>3. /\ FetchOf(r)'
              /\ \A x \in Requests \ {r} : req'[x] = req[x] /\ tasks'[x] = tasks[x]
            BY <3>1, <3>2, ScheduleFetch
        <3>4. QED
            BY <3>1, <3>2, <3>3, FetchSection
    <2>2. QED
        BY <1>0, <1>4, <2>1, StartFetchFetch, MainWorksFetch, CloseTaskFetch, CloseCleansFetch,
           ReturnFetch, CallbackFetch
<1>5. CASE Browser
    <2>1. 0 .. RangeMax + 1 \subseteq Nat
        BY SizesAssumption
    <2>2. QED
        BY <1>5, <2>1, CallbackFetch DEF Browser, Ends
<1>6. QED
    BY <1>1, <1>2, <1>3, <1>4, <1>5 DEF Next, MainThread, Finished

-----------------------------------------------------------------------------
(* Sessions.                                                               *)

(* A request that stays with its session, with no fewer references.        *)
Stays(x) ==
  /\ req'[x].session = req[x].session
  /\ \/ req'[x].refs = req[x].refs
     \/ req[x].refs >= 1 /\ req'[x].refs = req[x].refs + 1

(* Streams at work have their session installed.                           *)
Hosted == \A s \in Streams : io[s].at \notin {"new", "shut"} => session[SessionOf[s]].state = "installed"

LEMMA SessionsKept ==
  ASSUME Inv, UNCHANGED session, \A x \in Requests : Stays(x), Hosted'
  PROVE  SessionsInv'
<1>1. \A x \in Sessions : RequestsOf(x)' = RequestsOf(x)
    BY DEF RequestsOf, Stays
<1>2. \A r \in Requests : req'[r].session \in Sessions <=> req'[r].refs > 0
    <2>1. \A r \in Requests : req[r].refs \in Nat /\ (req[r].session \in Sessions <=> req[r].refs > 0)
        BY DEF Inv, SessionsInv, TypeOK, Request
    <2>2. QED
        BY <2>1 DEF Stays
<1>3. QED
    BY <1>1, <1>2 DEF Inv, SessionsInv, Hosted

(* One request goes.                                                       *)
LEMMA DropSessions ==
  ASSUME Inv, NEW r \in Requests, req[r].refs >= 1, NEW q \in Request, q.refs = req[r].refs,
         q.session = req[r].session, NEW b, Drop(r, q, b), UNCHANGED io \/ Hosted'
  PROVE  SessionsInv'
<1>p. PICK x \in Sessions : x = req[r].session
    BY KeptSession DEF Inv
<1>0. req \in [Requests -> Request]
      /\ session \in [Sessions -> [refs : Nat, state : {"new", "installed", "freed"}]]
    BY DEF Inv, TypeOK
<1>1. CASE q.refs = 1
    <2>1. req' = [req EXCEPT ![r] = Freed] /\ session' = [session EXCEPT ![x].refs = @ - 1]
        BY <1>p, <1>1 DEF Drop, LetGo
    <2>2. /\ req'[r].session = NoSession /\ req'[r].refs = 0
          /\ \A y \in Requests \ {r} : req'[y] = req[y]
        BY <1>0, <2>1 DEF Freed
    <2>3. RequestsOf(x)' = RequestsOf(x) \ {r} /\ r \in RequestsOf(x) /\ IsFiniteSet(RequestsOf(x))
        BY <1>p, <1>0, <2>2, NamesAssumption, FiniteAssumption, FS_Subset DEF RequestsOf
    <2>4. Cardinality(RequestsOf(x)') = Cardinality(RequestsOf(x)) - 1
        BY <2>3, FS_RemoveElement
    <2>5. \A y \in Sessions \ {x} : RequestsOf(y)' = RequestsOf(y)
        BY <1>p, <2>2, NamesAssumption DEF RequestsOf
    <2>6. /\ \A y \in Sessions : session'[y].state = session[y].state
          /\ session'[x].refs = session[x].refs - 1
          /\ \A y \in Sessions \ {x} : session'[y].refs = session[y].refs
        BY <1>0, <2>1
    <2>7. session[x].refs = Cardinality(RequestsOf(x)) + One(session[x].state = "installed")
        BY <1>0 DEF Inv, SessionsInv
    <2>8. Cardinality(RequestsOf(x)) \in Nat /\ One(session[x].state = "installed") \in Nat
        BY <2>3, FS_CardinalityType DEF One
    <2>9. session'[x].refs = Cardinality(RequestsOf(x)') + One(session'[x].state = "installed")
        BY <1>0, <2>4, <2>6, <2>7, <2>8
    <2>10. ASSUME NEW y \in Sessions
           PROVE  session'[y].refs = Cardinality(RequestsOf(y)') + One(session'[y].state = "installed")
        <3>1. CASE y = x
            BY <2>9, <3>1
        <3>2. CASE y # x
            BY <2>5, <2>6, <3>2 DEF Inv, SessionsInv
        <3>3. QED
            BY <3>1, <3>2
    <2>11. \A y \in Sessions : session'[y].state = "new" => RequestsOf(y)' = {}
        BY <1>0, <2>3, <2>5, <2>6 DEF Inv, SessionsInv
    <2>12. \A y \in Requests : req'[y].session \in Sessions <=> req'[y].refs > 0
        BY <2>2, NamesAssumption DEF Inv, SessionsInv
    <2>13. Hosted'
        BY <2>6, NamesAssumption DEF Hosted, Inv, SessionsInv
    <2>14. QED
        BY <2>10, <2>11, <2>12, <2>13 DEF SessionsInv, Hosted
<1>2. CASE q.refs # 1
    <2>1. req' = [req EXCEPT ![r] = [q EXCEPT !.refs = @ - 1]] /\ UNCHANGED session
        BY <1>2 DEF Drop
    <2>2. /\ req'[r].session = req[r].session /\ req'[r].refs = req[r].refs - 1
          /\ \A y \in Requests \ {r} : req'[y] = req[y]
        BY <1>0, <2>1 DEF Request
    <2>3. req[r].refs \in Nat /\ req[r].refs > 1
        BY <1>0, <1>2 DEF Request
    <2>4. \A y \in Sessions : RequestsOf(y)' = RequestsOf(y)
        BY <2>2 DEF RequestsOf
    <2>5. \A y \in Requests : req'[y].session \in Sessions <=> req'[y].refs > 0
        BY <1>0, <2>2, <2>3 DEF Inv, SessionsInv
    <2>6. Hosted'
        BY <2>1 DEF Hosted, Inv, SessionsInv
    <2>7. QED
        BY <2>1, <2>4, <2>5, <2>6 DEF SessionsInv, Hosted, Inv
<1>3. QED
    BY <1>1, <1>2

LEMMA LoadSessions ==
  ASSUME Inv, NEW s \in Streams, NEW r \in Requests, NEW size \in Sizes, Load(s, r, size)
  PROVE  SessionsInv'
<1> DEFINE x == SessionOf[s]
<1>0. x \in Sessions /\ req \in [Requests -> Request] /\ session[x].state = "installed"
      /\ session \in [Sessions -> [refs : Nat, state : {"new", "installed", "freed"}]]
    BY NamesAssumption DEF Inv, TypeOK, SessionsInv, Load
<1>1. /\ req' = [req EXCEPT ![r] = [Freed EXCEPT !.refs = 1, !.session = x]]
      /\ session' = [session EXCEPT ![x].refs = @ + 1] /\ req[r].refs = 0
      /\ io' = [io EXCEPT ![s] = [at |-> "admission", of |-> r, want |-> size, cache |-> 0,
                                  loads |-> io[s].loads + 1]]
    BY DEF Load
<1>2. /\ req'[r].session = x /\ req'[r].refs = 1 /\ req[r].session \notin Sessions
      /\ \A y \in Requests \ {r} : req'[y] = req[y]
    BY <1>0, <1>1 DEF Freed, Inv, SessionsInv
<1>3. RequestsOf(x)' = RequestsOf(x) \cup {r} /\ r \notin RequestsOf(x) /\ IsFiniteSet(RequestsOf(x))
    BY <1>0, <1>2, FiniteAssumption, FS_Subset DEF RequestsOf
<1>4. Cardinality(RequestsOf(x)') = Cardinality(RequestsOf(x)) + 1
    BY <1>3, FS_AddElement
<1>5. \A y \in Sessions \ {x} : RequestsOf(y)' = RequestsOf(y)
    BY <1>2 DEF RequestsOf
<1>6. /\ \A y \in Sessions : session'[y].state = session[y].state
      /\ session'[x].refs = session[x].refs + 1
      /\ \A y \in Sessions \ {x} : session'[y].refs = session[y].refs
    BY <1>0, <1>1
<1>7. session[x].refs = Cardinality(RequestsOf(x)) + One(session[x].state = "installed")
    BY <1>0 DEF Inv, SessionsInv
<1>8. Cardinality(RequestsOf(x)) \in Nat /\ One(session[x].state = "installed") \in Nat
    BY <1>3, FS_CardinalityType DEF One
<1>13. Hosted'
    BY <1>0, <1>1, <1>6, NamesAssumption DEF Hosted, Inv, SessionsInv, TypeOK
<1> HIDE DEF x
<1>9. session'[x].refs = Cardinality(RequestsOf(x)') + One(session'[x].state = "installed")
    BY <1>0, <1>4, <1>6, <1>7, <1>8
<1>10. ASSUME NEW y \in Sessions
       PROVE  session'[y].refs = Cardinality(RequestsOf(y)') + One(session'[y].state = "installed")
    <2>1. CASE y = x
        BY <1>9, <2>1
    <2>2. CASE y # x
        BY <1>5, <1>6, <2>2 DEF Inv, SessionsInv
    <2>3. QED
        BY <2>1, <2>2
<1>11. \A y \in Sessions : session'[y].state = "new" => RequestsOf(y)' = {}
    BY <1>0, <1>5, <1>6 DEF Inv, SessionsInv
<1>12. \A y \in Requests : req'[y].session \in Sessions <=> req'[y].refs > 0
    BY <1>0, <1>2 DEF Inv, SessionsInv
<1>14. QED
    BY <1>10, <1>11, <1>12, <1>13 DEF SessionsInv, Hosted

LEMMA OwnerSessions ==
  ASSUME Inv, NEW x \in Sessions, Install(x) \/ Uninstall(x)
  PROVE  SessionsInv'
<1>0. session \in [Sessions -> [refs : Nat, state : {"new", "installed", "freed"}]]
      /\ UNCHANGED <<req, io>>
    BY DEF Inv, TypeOK, Install, Uninstall
<1>1. \A y \in Sessions : RequestsOf(y)' = RequestsOf(y)
    BY <1>0 DEF RequestsOf
<1>2. Cardinality(RequestsOf(x)) \in Nat
    BY FiniteAssumption, FS_Subset, FS_CardinalityType DEF RequestsOf
<1>3. session[x].refs = Cardinality(RequestsOf(x)) + One(session[x].state = "installed")
    BY DEF Inv, SessionsInv
<1>4. \A y \in Sessions \ {x} : session'[y] = session[y]
    BY <1>0 DEF Install, Uninstall
<1>5. /\ session'[x].refs = Cardinality(RequestsOf(x)) + One(session'[x].state = "installed")
      /\ session'[x].state \in {"installed", "freed"}
    <2>1. CASE Install(x)
        <3>1. RequestsOf(x) = {}
            BY <2>1 DEF Install, Inv, SessionsInv
        <3>2. Cardinality(RequestsOf(x)) = 0
            BY <3>1, FS_EmptySet, Zenon
        <3>3. session'[x].refs = 1 /\ session'[x].state = "installed"
            BY <1>0, <2>1 DEF Install
        <3>4. QED
            BY <3>2, <3>3 DEF One
    <2>2. CASE Uninstall(x)
        <3>1. session'[x].refs = session[x].refs - 1 /\ session'[x].state = "freed"
              /\ session[x].state = "installed"
            BY <1>0, <2>2 DEF Uninstall
        <3>2. QED
            BY <1>2, <1>3, <3>1 DEF One
    <2>3. QED
        BY <2>1, <2>2
<1>6. Hosted'
    <2>1. CASE Install(x)
        BY <1>0, <2>1, NamesAssumption DEF Install, Hosted, Inv, SessionsInv
    <2>2. CASE Uninstall(x)
        BY <1>0, <1>4, <2>2, NamesAssumption DEF Uninstall, Hosted, Inv, SessionsInv
    <2>3. QED
        BY <2>1, <2>2
<1>7. ASSUME NEW y \in Sessions
      PROVE  session'[y].refs = Cardinality(RequestsOf(y)') + One(session'[y].state = "installed")
    BY <1>1, <1>4, <1>5 DEF Inv, SessionsInv
<1>8. QED
    BY <1>0, <1>1, <1>4, <1>5, <1>6, <1>7 DEF SessionsInv, Hosted, Inv

LEMMA HostedUnlessMoved == Inv /\ UNCHANGED <<io, session>> => Hosted'
BY DEF Hosted, Inv, SessionsInv

LEMMA StaysWith ==
  ASSUME Inv, NEW r \in Requests, NEW p, req' = [req EXCEPT ![r] = p],
         p.session = req[r].session,
         p.refs = req[r].refs \/ (p.refs = req[r].refs + 1 /\ req[r].refs >= 1)
  PROVE  \A x \in Requests : Stays(x)
BY DEF Inv, TypeOK, Stays

LEMMA ScheduleStays ==
  ASSUME Inv, NEW r \in Requests, ScheduleClose(r) \/ ScheduleCloseFails(r), req[r].refs >= 1
  PROVE  (\A x \in Requests : Stays(x)) /\ UNCHANGED session
<1>0. req[r] \in Request
    BY DEF Inv, TypeOK
<1>1. \/ Becomes(r, [req[r] EXCEPT !.closeRequested = TRUE])
      \/ Becomes(r, [req[r] EXCEPT !.closeRequested = TRUE, !.closeEnqueued = TRUE,
                                   !.refs = @ + 1])
    BY DEF ScheduleClose, ScheduleCloseFails, ScheduledClose
<1>2. CASE Becomes(r, [req[r] EXCEPT !.closeRequested = TRUE])
    <2> DEFINE p == [req[r] EXCEPT !.closeRequested = TRUE]
    <2>1. p.session = req[r].session /\ p.refs = req[r].refs
        BY <1>0 DEF Request
    <2>2. req' = [req EXCEPT ![r] = p] /\ UNCHANGED session
        BY <1>2 DEF Becomes
    <2> HIDE DEF p
    <2>3. QED
        BY <2>1, <2>2, StaysWith
<1>3. CASE Becomes(r, [req[r] EXCEPT !.closeRequested = TRUE, !.closeEnqueued = TRUE,
                                     !.refs = @ + 1])
    <2> DEFINE p == [req[r] EXCEPT !.closeRequested = TRUE, !.closeEnqueued = TRUE,
                                   !.refs = @ + 1]
    <2>1. p.session = req[r].session /\ p.refs = req[r].refs + 1
        BY <1>0 DEF Request
    <2>2. req' = [req EXCEPT ![r] = p] /\ UNCHANGED session
        BY <1>3 DEF Becomes
    <2> HIDE DEF p
    <2>3. QED
        BY <2>1, <2>2, StaysWith
<1>4. QED
    BY <1>1, <1>2, <1>3

LEMMA StreamSessions ==
  ASSUME Inv, NEW s \in Streams, Open(s) \/ Close(s) \/ Worker(s)
  PROVE  SessionsInv'
<1> USE DEF Inv, TypeOK
<1>1. Hosted' \/ Release(s)
    <2>1. ASSUME UNCHANGED session, NEW i, io' = [io EXCEPT ![s] = i],
                 \/ i.at \in {"new", "shut"} \/ session[SessionOf[s]].state = "installed"
          PROVE  Hosted'
        BY <2>1 DEF Hosted, SessionsInv
    <2>2. io[s].at \notin {"new", "shut"} => session[SessionOf[s]].state = "installed"
        BY DEF SessionsInv
    <2>3. CASE Open(s)
        BY <2>1, <2>3 DEF Open
    <2>4. CASE Close(s)
        BY <2>1, <2>4 DEF Close, NewStream
    <2>5. CASE AdmissionFails(s) \/ ProxyFails(s)
        BY <2>1, <2>2, <2>5 DEF AdmissionFails, ProxyFails
    <2>6. CASE WaitEnds(s) \/ WaitSeesFailure(s) \/ Fails(s)
        BY <2>1, <2>2, <2>6 DEF WaitEnds, WaitSeesFailure, Fails
    <2>7. CASE Admit(s)
        BY <2>2, <2>7 DEF Admit, Hosted, SessionsInv
    <2>8. CASE Proxy(s) \/ WaitAborts(s)
        BY <2>1, <2>2, <2>8 DEF Proxy, WaitAborts, Becomes
    <2>9. CASE WorkerCloses(s)
        <3>1. UNCHANGED session /\ io[s].at \in {"abandon", "retry"}
            BY <2>9 DEF WorkerCloses, ScheduleClose, ScheduleCloseFails, Becomes
        <3>2. io' = [io EXCEPT ![s].at = IF @ = "retry" THEN "wait" ELSE "answer"]
            BY <2>9 DEF WorkerCloses
        <3>3. QED
            BY <2>1, <2>2, <3>1, <3>2
    <2>10. CASE InstallResponse(s)
        <3>1. UNCHANGED session /\ io[s].at = "answer"
            BY <2>10 DEF InstallResponse
        <3>2. io' = [io EXCEPT ![s] = [@ EXCEPT !.at = "release", !.cache = req[io[s].of].data]]
            BY <2>10 DEF InstallResponse
        <3>3. QED
            BY <2>1, <2>2, <3>1, <3>2
    <2>11. QED
        BY <2>3, <2>4, <2>5, <2>6, <2>7, <2>8, <2>9, <2>10 DEF Worker
<1>2. CASE \/ Open(s) \/ Close(s) \/ AdmissionFails(s) \/ ProxyFails(s) \/ WaitEnds(s)
           \/ WaitSeesFailure(s) \/ Fails(s)
    <2>1. UNCHANGED <<req, session>>
        BY <1>2 DEF Open, Close, AdmissionFails, ProxyFails, WaitEnds, WaitSeesFailure, Fails
    <2>2. Hosted'
        BY <1>1, <1>2 DEF Open, Close, AdmissionFails, ProxyFails, WaitEnds, WaitSeesFailure,
                          Fails, Release
    <2>3. QED
        BY <2>1, <2>2, SessionsKept DEF Stays
<1>3. CASE Admit(s) \/ Proxy(s) \/ WaitAborts(s) \/ WorkerCloses(s) \/ InstallResponse(s)
    <2>0. Hosted' /\ Busy(s)
        BY <1>1, <1>3 DEF Admit, Proxy, WaitAborts, WorkerCloses, InstallResponse, Release, Busy
    <2>1. PICK r \in Requests : r = io[s].of /\ req[r] \in Request /\ req[r].refs >= 1
        BY <2>0, StreamRequest, HolderHasReference
    <2>2. (\A x \in Requests : Stays(x)) /\ UNCHANGED session
        <3>1. CASE Admit(s)
            BY <2>1, <3>1 DEF Admit, Stays, Request
        <3>2. CASE Proxy(s)
            BY <2>1, <3>2 DEF Proxy, Becomes, Stays, Request
        <3>3. CASE WaitAborts(s)
            BY <2>1, <3>3 DEF WaitAborts, Becomes, Stays, Request
        <3>4. CASE WorkerCloses(s)
            BY <2>1, <3>4, ScheduleStays DEF WorkerCloses
        <3>5. CASE InstallResponse(s)
            BY <2>1, <3>5 DEF InstallResponse, Stays, Request
        <3>6. QED
            BY <1>3, <3>1, <3>2, <3>3, <3>4, <3>5
    <2>3. QED
        BY <2>0, <2>2, SessionsKept
<1>4. CASE Release(s)
    <2>1. PICK r \in Requests : r = io[s].of /\ req[r] \in Request /\ req[r].refs >= 1
        BY <1>4, StreamRequest, HolderHasReference DEF Busy, Release
    <2>2. Drop(r, req[r], budget) /\ io[s].at = "release"
        BY <1>4, <2>1 DEF Release
    <2>3. io' = [io EXCEPT ![s] = [@ EXCEPT !.at = "idle", !.of = NoRequest, !.want = 0]]
        BY <1>4 DEF Release
    <2>4. \A x \in Sessions : session'[x].state = session[x].state
        BY <2>2 DEF Drop, LetGo
    <2>5. Hosted'
        BY <2>2, <2>3, <2>4, NamesAssumption DEF Hosted, SessionsInv
    <2>6. QED
        BY <2>1, <2>2, <2>5, DropSessions
<1>5. QED
    BY <1>2, <1>3, <1>4 DEF Worker

LEMMA MainSessions ==
  ASSUME Inv, NEW r \in Requests,
         \/ StartFetch(r) \/ IssueFetch(r) \/ IssueFails(r) \/ FetchIssued(r)
         \/ CloseTask(r) \/ CloseTakes(r) \/ CloseDestroys(r) \/ CloseAborts(r)
         \/ CallbackCloses(r)
         \/ \E h \in Headers, tooMuch \in BOOLEAN : OnPartial(r, h, tooMuch) \/ OnError(r, h)
         \/ \E h \in Headers, n \in Nat, copied \in BOOLEAN : OnSuccess(r, h, n, copied)
  PROVE  SessionsInv'
<1>0. req \in [Requests -> Request] /\ req[r] \in Request
    BY DEF Inv, TypeOK
<1>1. (\A x \in Requests : Stays(x)) /\ UNCHANGED <<io, session>>
    <2>1. CASE StartFetch(r)
        <3>1. req[r].refs >= 1
            BY <2>1, HolderHasReference DEF StartFetch, Inv
        <3>2. \/ Becomes(r, [req[r] EXCEPT !.done = TRUE, !.success = FALSE, !.startComplete = TRUE])
              \/ Becomes(r, [req[r] EXCEPT !.refs = @ + 1, !.fetchHeld = TRUE])
            BY <2>1 DEF StartFetch
        <3>3. PICK p : req' = [req EXCEPT ![r] = p] /\ UNCHANGED session /\ p.session = req[r].session
                        /\ (p.refs = req[r].refs \/ p.refs = req[r].refs + 1)
            BY <1>0, <3>2 DEF Becomes, Request
        <3>4. UNCHANGED io
            BY <2>1 DEF StartFetch
        <3>5. QED
            BY <3>1, <3>3, <3>4, StaysWith
    <2>2. CASE IssueFetch(r) \/ FetchIssued(r) \/ CloseDestroys(r)
        BY <1>0, <2>2 DEF IssueFetch, FetchIssued, CloseDestroys, Becomes, Stays, Request
    <2>3. CASE IssueFails(r)
        BY <1>0, <2>3 DEF IssueFails, Becomes, Stays, Request
    <2>4. CASE CloseTask(r)
        BY <2>4 DEF CloseTask, Stays
    <2>5. CASE CloseTakes(r)
        BY <1>0, <2>5 DEF CloseTakes, Becomes, Stays, Request
    <2>6. CASE CloseAborts(r)
        <3>1. req[r].refs >= 1
            BY <2>6, HolderHasReference DEF CloseAborts, Inv
        <3>2. QED
            BY <1>0, <2>6, <3>1 DEF CloseAborts, Becomes, Stays, Request
    <2>7. CASE CallbackCloses(r)
        <3>1. req[r].refs >= 1
            BY <2>7, HolderHasReference DEF CallbackCloses, Inv
        <3>2. QED
            BY <2>7, <3>1, ScheduleStays DEF CallbackCloses
    <2>8. ASSUME req[r].fetch = "live" PROVE req[r].refs >= 1
        BY <2>8, HolderHasReference DEF Inv, FetchInv, FetchOf
    <2>9. ASSUME NEW h \in Headers, NEW tooMuch \in BOOLEAN, OnPartial(r, h, tooMuch)
          PROVE  (\A x \in Requests : Stays(x)) /\ UNCHANGED <<io, session>>
        <3>1. PICK q \in Request : q = Captured(req[r], h)
            BY <1>0, CapturedType
        <3>2. Same(q, req[r]) /\ q.refs = req[r].refs /\ q.abort \in Reasons /\ req[r].refs >= 1
            BY <1>0, <2>8, <2>9, <3>1, CapturedSame DEF Request, OnPartial, CallsBack
        <3>3. PICK a \in Reasons : Becomes(r, [q EXCEPT !.refs = @ + 1, !.abort = a])
            BY <2>9, <3>1, <3>2 DEF OnPartial, Reasons
        <3> DEFINE p == [q EXCEPT !.refs = @ + 1, !.abort = a]
        <3>4. p.session = req[r].session /\ p.refs = req[r].refs + 1
            BY <3>1, <3>2 DEF Request, Same
        <3>5. req' = [req EXCEPT ![r] = p] /\ UNCHANGED <<io, session>>
            BY <2>9, <3>3 DEF OnPartial, Becomes
        <3> HIDE DEF p
        <3>6. QED
            BY <3>2, <3>4, <3>5, StaysWith
    <2>10. ASSUME NEW h \in Headers, OnError(r, h)
           PROVE  (\A x \in Requests : Stays(x)) /\ UNCHANGED <<io, session>>
        <3>1. PICK q \in Request : q = Captured(req[r], h)
            BY <1>0, CapturedType
        <3>2. Same(q, req[r]) /\ q.refs = req[r].refs /\ q.fetch = req[r].fetch
            BY <1>0, <3>1, CapturedSame
        <3>3. req[r].refs >= 1
            BY <2>8, <2>10, <3>1, <3>2 DEF OnError, CallsBack
        <3> DEFINE p == [q EXCEPT !.refs = @ + 1, !.fetch = "ended", !.success = FALSE,
                                   !.done = TRUE]
        <3>4. p.session = req[r].session /\ p.refs = req[r].refs + 1
            BY <3>1, <3>2 DEF Request, Same
        <3>5. req' = [req EXCEPT ![r] = p] /\ UNCHANGED <<io, session>>
            BY <2>10, <3>1 DEF OnError, Becomes
        <3> HIDE DEF p
        <3>6. QED
            BY <3>3, <3>4, <3>5, StaysWith
    <2>11. ASSUME NEW h \in Headers, NEW n \in Nat, NEW copied \in BOOLEAN, OnSuccess(r, h, n, copied)
           PROVE  (\A x \in Requests : Stays(x)) /\ UNCHANGED <<io, session>>
        <3>1. PICK p \in Request :
                /\ req' = [req EXCEPT ![r] = p]
                /\ p.refs = req[r].refs + 1 /\ p.fetch = "ended" /\ Same(p, req[r])
            BY <2>11, OnSuccessLeaves DEF Inv
        <3>2. UNCHANGED <<io, session>> /\ req[r].refs >= 1
            BY <2>8, <2>11 DEF OnSuccess, CallsBack
        <3>3. QED
            BY <3>1, <3>2, StaysWith DEF Same
    <2>12. QED
        BY <2>1, <2>2, <2>3, <2>4, <2>5, <2>6, <2>7, <2>9, <2>10, <2>11
<1>2. QED
    BY <1>1, HostedUnlessMoved, SessionsKept

LEMMA EndSessions ==
  ASSUME Inv, NEW r \in Requests, CloseCleans(r) \/ TaskReturns(r) \/ CallbackReturns(r)
  PROVE  SessionsInv'
<1>0. req \in [Requests -> Request] /\ req[r] \in Request /\ req[r].refs >= 1 /\ UNCHANGED io
    BY HolderHasReference DEF Inv, TypeOK, CloseCleans, TaskReturns, CallbackReturns
<1>1. CASE CloseCleans(r)
    <2> DEFINE q == [req[r] EXCEPT !.buffer = 0, !.acquired = FALSE, !.closeComplete = TRUE,
                                   !.fetchHeld = FALSE]
               b == [budget EXCEPT !.pending = Less(@, req[r].buffer),
                                   !.active = IF req[r].acquired THEN Less(@, 1) ELSE @]
    <2>1. q \in Request /\ q.refs = req[r].refs /\ q.session = req[r].session
        BY <1>0 DEF Request
    <2>2. Drop(r, q, b) \/ (req' = [req EXCEPT ![r] = q] /\ UNCHANGED session)
        BY <1>1, Zenon DEF CloseCleans
    <2> HIDE DEF q, b
    <2>3. CASE Drop(r, q, b)
        BY <1>0, <2>1, <2>3, DropSessions
    <2>4. CASE req' = [req EXCEPT ![r] = q] /\ UNCHANGED session
        BY <1>0, <2>1, <2>4, StaysWith, HostedUnlessMoved, SessionsKept
    <2>5. QED
        BY <2>2, <2>3, <2>4
<1>2. CASE TaskReturns(r) \/ CallbackReturns(r)
    <2>1. Drop(r, req[r], budget)
        BY <1>2 DEF TaskReturns, CallbackReturns
    <2>2. QED
        BY <1>0, <2>1, DropSessions
<1>3. QED
    BY <1>1, <1>2

LEMMA StepSessions == Inv /\ [Next]_vars => SessionsInv'
<1> SUFFICES ASSUME Inv, [Next]_vars PROVE SessionsInv'
    OBVIOUS
<1>1. CASE \E x \in Sessions : Install(x) \/ Uninstall(x)
    BY <1>1, OwnerSessions
<1>2. CASE \E s \in Streams : Open(s) \/ Close(s) \/ Worker(s)
    BY <1>2, StreamSessions
<1>3. CASE \E s \in Streams, r \in Requests, size \in Sizes : Load(s, r, size)
    BY <1>3, LoadSessions
<1>4. CASE MainThread
    BY <1>4, MainSessions, EndSessions DEF MainThread
<1>5. CASE Browser
    <2>1. 0 .. RangeMax + 1 \subseteq Nat
        BY SizesAssumption
    <2>2. QED
        BY <1>5, <2>1, MainSessions DEF Browser, Ends
<1>6. CASE UNCHANGED vars
    BY <1>6 DEF vars, Inv, SessionsInv, RequestsOf
<1>7. QED
    BY <1>1, <1>2, <1>3, <1>4, <1>5, <1>6 DEF Next, Finished

-----------------------------------------------------------------------------
(* Results.                                                                *)

LEMMA InvHolds == Spec => []Inv
<1>1. Inv /\ [Next]_vars => Inv'
    BY StepTypeOK, StepReferences, StepPlaces, StepFetch, StepSessions DEF Inv
<1>2. QED
    BY InitInv, <1>1, PTL DEF Spec

(* The state of requests, streams and sessions stays within its types: no  *)
(* counter of references goes below zero.                                  *)
THEOREM TypeCorrect == Spec => []TypeOK
<1>1. Inv => TypeOK
    BY DEF Inv
<1>2. QED
    BY InvHolds, <1>1, PTL

(* A request has as many references as there are holders of it, however    *)
(* its stream, its tasks and its callbacks interleave (request_retain,     *)
(* request_release).                                                       *)
THEOREM References == Spec => []ReferencesAreExact
<1>1. Inv => ReferencesAreExact
    BY DEF Inv
<1>2. QED
    BY InvHolds, <1>1, PTL

(* No callback runs on a fetch that was destroyed, and no fetch outlives   *)
(* its request (request_schedule_close, request_close_fetch).              *)
THEOREM FetchLives == Spec => []FetchOutlivesItsCallback
<1>1. Inv => FetchOutlivesItsCallback
    BY DEF Inv, FetchInv, FetchOf, FetchOutlivesItsCallback
<1>2. QED
    BY InvHolds, <1>1, PTL

(* The session of a request, and of a stream that is open, is not freed    *)
(* (session_retain in load_range, ffmpegkit_wasm_http_session_free).       *)
THEOREM SessionsLive == Spec => []SessionsOutliveRequests
<1>1. Inv => SessionsOutliveRequests
    <2> SUFFICES ASSUME Inv PROVE SessionsOutliveRequests
        OBVIOUS
    <2>1. \A r \in Requests : req[r].refs > 0 => req[r].refs >= 1
        BY DEF Inv, TypeOK, Request
    <2>2. \A r \in Requests : req[r].refs > 0 =>
            req[r].session \in Sessions /\ session[req[r].session].refs > 0
        BY <2>1, KeptSession DEF Inv, TypeOK
    <2>3. ASSUME NEW s \in Streams, io[s].at \notin {"new", "shut"}
          PROVE  session[SessionOf[s]].refs > 0
        <3> DEFINE x == SessionOf[s]
        <3>1. x \in Sessions /\ session[x].state = "installed"
            BY <2>3, NamesAssumption DEF Inv, SessionsInv
        <3>2. session[x].refs = Cardinality(RequestsOf(x)) + 1
            BY <3>1 DEF Inv, SessionsInv, One
        <3>3. Cardinality(RequestsOf(x)) \in Nat
            BY FiniteAssumption, FS_Subset, FS_CardinalityType DEF RequestsOf
        <3>4. QED
            BY <3>2, <3>3
    <2>4. QED
        BY <2>2, <2>3 DEF SessionsOutliveRequests
<1>2. QED
    BY InvHolds, <1>1, PTL

-----------------------------------------------------------------------------
(* Sums over finite sets.                                                  *)

(* The sum of the weights w[x] of the elements x of a finite set T is the  *)
(* number of the units <<x, i>> with i in 1 .. w[x].                       *)
Column(w, x) == {x} \X (1 .. w[x])
Units(w, T) == UNION {Column(w, x) : x \in T}
Total(w, T) == Cardinality(Units(w, T))

LEMMA ColumnSize ==
  ASSUME NEW x, NEW w, w[x] \in Nat
  PROVE  IsFiniteSet(Column(w, x)) /\ Cardinality(Column(w, x)) = w[x]
<1>1. IsFiniteSet({x}) /\ Cardinality({x}) = 1
    BY FS_Singleton
<1>2. IsFiniteSet(1 .. w[x]) /\ Cardinality(1 .. w[x]) = w[x]
    BY FS_Interval
<1>3. QED
    <2>1. IsFiniteSet(Column(w, x)) /\ Cardinality(Column(w, x)) = 1 * w[x]
        BY <1>1, <1>2, FS_Product DEF Column
    <2>2. QED
        BY <2>1

LEMMA UnitsFinite ==
  ASSUME NEW S, IsFiniteSet(S), NEW w, \A x \in S : w[x] \in Nat, NEW T \in SUBSET S
  PROVE  IsFiniteSet(Units(w, T)) /\ Total(w, T) \in Nat
<1> DEFINE C == {Column(w, x) : x \in T}
<1>1. IsFiniteSet(T)
    BY FS_Subset
<1>2. IsFiniteSet(C)
    <2> DEFINE f == [x \in T |-> Column(w, x)]
    <2>1. f \in Surjection(T, C)
        BY DEF Surjection
    <2>2. QED
        BY <1>1, <2>1, FS_Surjection, Zenon
<1>3. \A D \in C : IsFiniteSet(D)
    BY ColumnSize
<1>4. IsFiniteSet(Units(w, T))
    <2> HIDE DEF C
    <2>1. IsFiniteSet(UNION C)
        BY <1>2, <1>3, FS_UNION
    <2>2. QED
        BY <2>1 DEF Units, C
<1>5. QED
    BY <1>4, FS_CardinalityType DEF Total

LEMMA TotalOfNone == \A w : Total(w, {}) = 0
<1>1. \A w : Units(w, {}) = {}
    BY DEF Units
<1>2. QED
    BY <1>1, FS_EmptySet DEF Total

LEMMA TotalWithout ==
  ASSUME NEW S, IsFiniteSet(S), NEW w, \A x \in S : w[x] \in Nat, NEW T \in SUBSET S, NEW x \in T
  PROVE  Total(w, T) = w[x] + Total(w, T \ {x})
<1>1. IsFiniteSet(Units(w, T \ {x})) /\ Total(w, T \ {x}) \in Nat
    <2>1. T \ {x} \in SUBSET S
        OBVIOUS
    <2>2. QED
        BY <2>1, UnitsFinite
<1>2. IsFiniteSet(Column(w, x)) /\ Cardinality(Column(w, x)) = w[x] /\ w[x] \in Nat
    BY ColumnSize
<1>3. Units(w, T) = Column(w, x) \cup Units(w, T \ {x})
    BY DEF Units
<1>4. Column(w, x) \cap Units(w, T \ {x}) = {}
    BY DEF Units, Column
<1>5. Cardinality(Column(w, x) \cup Units(w, T \ {x}))
        = Cardinality(Column(w, x)) + Cardinality(Units(w, T \ {x})) - Cardinality({})
    BY <1>1, <1>2, <1>4, FS_Union
<1>6. QED
    BY <1>1, <1>2, <1>3, <1>5, FS_EmptySet DEF Total

(* The folds of the community modules, which take the elements one by one  *)
(* in an order of their own, come to the same.                             *)
AnyOf(T) == CHOOSE x \in T : TRUE
Folded(w, S, h) ==
  [T \in SUBSET S |-> IF T = {} THEN 0 ELSE w[AnyOf(T)] + h[T \ {AnyOf(T)}]]

LEMMA TotalIsFolded ==
  ASSUME NEW S, IsFiniteSet(S), NEW w, \A x \in S : w[x] \in Nat,
         NEW h, h = [T \in SUBSET S |-> Total(w, T)]
  PROVE  h = Folded(w, S, h)
<1>1. ASSUME NEW T \in SUBSET S
      PROVE  h[T] = IF T = {} THEN 0 ELSE w[AnyOf(T)] + h[T \ {AnyOf(T)}]
    <2>1. CASE T = {}
        BY <2>1, TotalOfNone
    <2>2. CASE T # {}
        <3>1. AnyOf(T) \in T
            BY <2>2 DEF AnyOf
        <3>2. h[T] = Total(w, T) /\ h[T \ {AnyOf(T)}] = Total(w, T \ {AnyOf(T)})
            OBVIOUS
        <3>3. Total(w, T) = w[AnyOf(T)] + Total(w, T \ {AnyOf(T)})
            BY <3>1, TotalWithout
        <3>4. QED
            BY <2>2, <3>2, <3>3
    <2>3. QED
        BY <2>1, <2>2
<1>2. h = Folded(w, S, h)
    <2>1. \A T \in SUBSET S : h[T] = Folded(w, S, h)[T]
        BY <1>1 DEF Folded
    <2>2. QED
        BY <2>1 DEF Folded
<1>3. QED
    BY <1>2

LEMMA FoldedExists ==
  ASSUME NEW S, IsFiniteSet(S), NEW w, \A x \in S : w[x] \in Nat
  PROVE  \E h : h = Folded(w, S, h)
<1> DEFINE t == [T \in SUBSET S |-> Total(w, T)]
<1>1. PICK g : g = t
    OBVIOUS
<1>2. g = Folded(w, S, g)
    BY <1>1, TotalIsFolded
<1>3. QED
    BY <1>2

LEMMA FoldedIsUnique ==
  ASSUME NEW S, IsFiniteSet(S), NEW w, NEW g, g = Folded(w, S, g), NEW h, h = Folded(w, S, h)
  PROVE  g[S] = h[S]
<1> DEFINE P == {T \in SUBSET S : g[T] # h[T]}
           Order == StrictSubsetOrdering(S)
<1>1. SUFFICES ASSUME P # {} PROVE FALSE
    OBVIOUS
<1>2. IsWellFoundedOn(Order, SUBSET S)
    BY FS_StrictSubsetOrderingWellFounded, FS_FiniteSubsetsOfFinite
<1>3. PICK T \in P : \A U \in P : ~ (<<U, T>> \in Order)
    <2> HIDE DEF P, Order
    <2>1. P \subseteq SUBSET S
        BY DEF P
    <2>2. QED
        BY <1>1, <1>2, <2>1, WFMin
<1>4. T # {}
    BY DEF Folded
<1>5. AnyOf(T) \in T
    BY <1>4 DEF AnyOf
<1> DEFINE U == T \ {AnyOf(T)}
<1>6. <<U, T>> \in Order
    BY <1>5 DEF StrictSubsetOrdering
<1>7. g[U] = h[U]
    BY <1>3, <1>6
<1>8. g[T] = w[AnyOf(T)] + g[U] /\ h[T] = w[AnyOf(T)] + h[U]
    BY <1>4 DEF Folded
<1>9. QED
    BY <1>7, <1>8

LEMMA SumIsTotal ==
  ASSUME NEW S, IsFiniteSet(S), NEW w, \A x \in S : w[x] \in Nat, NEW h, h = Folded(w, S, h)
  PROVE  h[S] = Total(w, S)
<1> DEFINE t == [T \in SUBSET S |-> Total(w, T)]
<1>0. PICK g : g = t
    OBVIOUS
<1>1. g = Folded(w, S, g)
    BY <1>0, TotalIsFolded
<1>2. g[S] = Total(w, S)
    BY <1>0
<1> HIDE DEF t
<1>3. QED
    BY <1>1, <1>2, FoldedIsUnique

LEMMA TotalChanges ==
  ASSUME NEW S, IsFiniteSet(S), NEW w, \A x \in S : w[x] \in Nat, NEW v, NEW r \in S, v[r] \in Nat,
         \A x \in S \ {r} : v[x] = w[x]
  PROVE  /\ Total(v, S) = Total(w, S) - w[r] + v[r]
         /\ Total(w, S) \in Nat /\ Total(v, S) \in Nat /\ w[r] <= Total(w, S)
<1>1. \A x \in S : v[x] \in Nat
    OBVIOUS
<1>2. Total(w, S) = w[r] + Total(w, S \ {r})
    BY TotalWithout
<1>3. Total(v, S) = v[r] + Total(v, S \ {r})
    BY <1>1, TotalWithout
<1>4. Total(v, S \ {r}) = Total(w, S \ {r})
    <2>1. Units(v, S \ {r}) = Units(w, S \ {r})
        BY DEF Units, Column
    <2>2. QED
        BY <2>1 DEF Total
<1>5. Total(w, S \ {r}) \in Nat
    BY UnitsFinite
<1>6. QED
    BY <1>2, <1>3, <1>4, <1>5

LEMMA TotalOfZeros ==
  ASSUME NEW S, NEW w, \A x \in S : w[x] = 0
  PROVE  Total(w, S) = 0
<1>1. Units(w, S) = {}
    BY DEF Units, Column
<1>2. QED
    BY <1>1, FS_EmptySet DEF Total

LEMMA TotalAgrees ==
  ASSUME NEW S, NEW w, NEW v, \A x \in S : v[x] = w[x]
  PROVE  Total(v, S) = Total(w, S)
<1>1. Units(v, S) = Units(w, S)
    BY DEF Units, Column
<1>2. QED
    BY <1>1 DEF Total

-----------------------------------------------------------------------------
(* The budget.                                                             *)

(* The bytes that the requests f have reserved, and the slots they have.   *)
Weight(q) == q.pending + q.buffer
Reserved(f) == Total([r \in Requests |-> Weight(f[r])], Requests)
Slots(f) == Cardinality({r \in Requests : f[r].acquired})

(* The bytes in the caches of the streams g, and those that are open.      *)
Cached(g) == Total([s \in Streams |-> g[s].cache], Streams)
Opened(g) == Cardinality({s \in Streams : g[s].at \notin {"new", "shut"}})

(* The sessions that use the budget.                                       *)
Users(h) == Cardinality({x \in Sessions : h[x].refs > 0})

Counters ==
  /\ budget.pending = Reserved(req) /\ budget.active = Slots(req)
  /\ budget.buffered = Cached(io) /\ budget.open = Opened(io)
  /\ budget.refs = Users(session)

Limits ==
  /\ budget.buffered + budget.pending <= MaxBuffered
  /\ budget.active <= MaxInflight

(* What is given back is reset: who takes a request or opens a stream      *)
(* starts from nothing.                                                    *)
Admitting(r) == \E s \in Streams : io[s].of = r /\ io[s].at = "admission"
Clean(q) == q.pending = 0 /\ q.buffer = 0 /\ ~q.acquired /\ ~q.success
CachesFresh == \A s \in Streams : io[s].at \notin {"idle", "release"} => io[s].cache = 0
Fresh ==
  /\ \A r \in Requests : req[r].refs = 0 => req[r] = Freed
  /\ \A r \in Requests : Admitting(r) => Clean(req[r])
  /\ CachesFresh

(* A success is final: the fetch is over, nobody has given it up, and its  *)
(* bytes are as many as were captured.                                     *)
Whole(q) ==
  q.success => /\ q.fetch \in {"ended", "closed"} /\ q.done /\ q.abort = "none"
               /\ q.data <= q.limit
               /\ q.data > 0 => q.pending = q.data

Wholes == \A r \in Requests : Whole(req[r])

BudgetInv == Counters /\ Limits /\ Fresh /\ Wholes

(* What one request, stream or session more or less means for the counters.*)
LEMMA ReservedChangesOf ==
  ASSUME NEW f \in [Requests -> Request], NEW r \in Requests, NEW q \in Request,
         NEW g, g = [f EXCEPT ![r] = q]
  PROVE  /\ Reserved(g) = Reserved(f) - Weight(f[r]) + Weight(q)
         /\ Reserved(f) \in Nat /\ Reserved(g) \in Nat
         /\ Weight(f[r]) <= Reserved(f)
<1> DEFINE w == [x \in Requests |-> Weight(f[x])]
           v == [x \in Requests |-> Weight(g[x])]
<1>1. \A x \in Requests : f[x] \in Request /\ g[x] \in Request
    OBVIOUS
<1>2. \A p \in Request : Weight(p) \in Nat
    BY DEF Weight, Request
<1>3. /\ \A x \in Requests : w[x] \in Nat
      /\ v[r] \in Nat /\ \A x \in Requests \ {r} : v[x] = w[x]
    BY <1>1, <1>2
<1>4. w[r] = Weight(f[r]) /\ v[r] = Weight(q)
    OBVIOUS
<1> HIDE DEF w, v
<1>5. /\ Total(v, Requests) = Total(w, Requests) - w[r] + v[r]
      /\ Total(w, Requests) \in Nat /\ Total(v, Requests) \in Nat /\ w[r] <= Total(w, Requests)
    BY <1>3, FiniteAssumption, TotalChanges
<1>6. QED
    BY <1>4, <1>5 DEF Reserved, w, v

LEMMA SlotsChangeOf ==
  ASSUME NEW f \in [Requests -> Request], NEW r \in Requests, NEW q \in Request,
         NEW g, g = [f EXCEPT ![r] = q]
  PROVE  /\ Slots(g) = Slots(f) - One(f[r].acquired) + One(q.acquired)
         /\ Slots(f) \in Nat /\ One(f[r].acquired) <= Slots(f)
<1> DEFINE F == {x \in Requests : f[x].acquired}
           G == {x \in Requests : g[x].acquired}
<1>1. IsFiniteSet(F) /\ Cardinality(F) \in Nat
    BY FiniteAssumption, FS_Subset, FS_CardinalityType
<1>2. IsFiniteSet(F \ {r}) /\ Cardinality(F \ {r}) = IF r \in F THEN Cardinality(F) - 1 ELSE Cardinality(F)
    BY <1>1, FS_RemoveElement
<1>3. G = IF q.acquired THEN (F \ {r}) \cup {r} ELSE F \ {r}
    OBVIOUS
<1>4. Cardinality(G) = IF q.acquired THEN Cardinality(F \ {r}) + 1 ELSE Cardinality(F \ {r})
    BY <1>2, <1>3, FS_AddElement
<1>5. r \in F => Cardinality(F) # 0
    BY <1>1, FS_EmptySet
<1>6. r \in F <=> f[r].acquired
    OBVIOUS
<1> HIDE DEF F, G
<1>7. QED
    BY <1>1, <1>2, <1>4, <1>5, <1>6 DEF Slots, One, F, G

LEMMA CachedChangesOf ==
  ASSUME NEW f \in [Streams -> StreamRecords], NEW s \in Streams, NEW i \in StreamRecords,
         NEW g, g = [f EXCEPT ![s] = i]
  PROVE  /\ Cached(g) = Cached(f) - f[s].cache + i.cache
         /\ Cached(f) \in Nat /\ Cached(g) \in Nat /\ f[s].cache <= Cached(f)
<1> DEFINE w == [x \in Streams |-> f[x].cache]
           v == [x \in Streams |-> g[x].cache]
<1>1. \A x \in Streams : f[x] \in StreamRecords /\ g[x] \in StreamRecords
    OBVIOUS
<1>2. \A p \in StreamRecords : p.cache \in Nat
    BY DEF StreamRecords
<1>3. /\ \A x \in Streams : w[x] \in Nat
      /\ v[s] \in Nat /\ \A x \in Streams \ {s} : v[x] = w[x]
    BY <1>1, <1>2
<1>4. w[s] = f[s].cache /\ v[s] = i.cache
    OBVIOUS
<1> HIDE DEF w, v
<1>5. /\ Total(v, Streams) = Total(w, Streams) - w[s] + v[s]
      /\ Total(w, Streams) \in Nat /\ Total(v, Streams) \in Nat /\ w[s] <= Total(w, Streams)
    BY <1>3, FiniteAssumption, TotalChanges
<1>6. QED
    BY <1>4, <1>5 DEF Cached, w, v

IsOpen(i) == i.at \notin {"new", "shut"}

LEMMA OpenedChangesOf ==
  ASSUME NEW f \in [Streams -> StreamRecords], NEW s \in Streams, NEW i \in StreamRecords,
         NEW g, g = [f EXCEPT ![s] = i]
  PROVE  /\ Opened(g) = Opened(f) - One(IsOpen(f[s])) + One(IsOpen(i))
         /\ Opened(f) \in Nat /\ One(IsOpen(f[s])) <= Opened(f)
<1> DEFINE F == {x \in Streams : f[x].at \notin {"new", "shut"}}
           G == {x \in Streams : g[x].at \notin {"new", "shut"}}
<1>1. IsFiniteSet(F) /\ Cardinality(F) \in Nat
    BY FiniteAssumption, FS_Subset, FS_CardinalityType
<1>2. IsFiniteSet(F \ {s}) /\ Cardinality(F \ {s}) = IF s \in F THEN Cardinality(F) - 1 ELSE Cardinality(F)
    BY <1>1, FS_RemoveElement
<1>3. G = IF IsOpen(i) THEN (F \ {s}) \cup {s} ELSE F \ {s}
    BY DEF IsOpen
<1>4. Cardinality(G) = IF IsOpen(i) THEN Cardinality(F \ {s}) + 1 ELSE Cardinality(F \ {s})
    BY <1>2, <1>3, FS_AddElement
<1>5. s \in F => Cardinality(F) # 0
    BY <1>1, FS_EmptySet
<1>6. s \in F <=> IsOpen(f[s])
    BY DEF IsOpen
<1> HIDE DEF F, G
<1>7. QED
    BY <1>1, <1>2, <1>4, <1>5, <1>6 DEF Opened, One, F, G

LEMMA UsersChange ==
  ASSUME NEW f \in [Sessions -> SessionRecords], NEW x \in Sessions, NEW y \in SessionRecords,
         NEW g, g = [f EXCEPT ![x] = y]
  PROVE  /\ Users(g) = Users(f) - One(f[x].refs > 0) + One(y.refs > 0)
         /\ Users(f) \in Nat /\ One(f[x].refs > 0) <= Users(f)
<1> DEFINE F == {z \in Sessions : f[z].refs > 0}
           G == {z \in Sessions : g[z].refs > 0}
<1>1. IsFiniteSet(F) /\ Cardinality(F) \in Nat
    BY FiniteAssumption, FS_Subset, FS_CardinalityType
<1>2. IsFiniteSet(F \ {x}) /\ Cardinality(F \ {x}) = IF x \in F THEN Cardinality(F) - 1 ELSE Cardinality(F)
    BY <1>1, FS_RemoveElement
<1>3. G = IF y.refs > 0 THEN (F \ {x}) \cup {x} ELSE F \ {x}
    OBVIOUS
<1>4. Cardinality(G) = IF y.refs > 0 THEN Cardinality(F \ {x}) + 1 ELSE Cardinality(F \ {x})
    BY <1>2, <1>3, FS_AddElement
<1>5. x \in F => Cardinality(F) # 0
    BY <1>1, FS_EmptySet
<1>6. x \in F <=> f[x].refs > 0
    OBVIOUS
<1> HIDE DEF F, G
<1>7. QED
    BY <1>1, <1>2, <1>4, <1>5, <1>6 DEF Users, One, F, G

(* The same, of the step that is being taken.                               *)
LEMMA ReservedChanges ==
  ASSUME req \in [Requests -> Request], NEW r \in Requests, NEW q \in Request,
         req' = [req EXCEPT ![r] = q]
  PROVE  /\ Reserved(req') = Reserved(req) - Weight(req[r]) + Weight(q)
         /\ Reserved(req) \in Nat /\ Reserved(req') \in Nat
         /\ Weight(req[r]) <= Reserved(req)
BY ReservedChangesOf

LEMMA SlotsChange ==
  ASSUME req \in [Requests -> Request], NEW r \in Requests, NEW q \in Request,
         req' = [req EXCEPT ![r] = q]
  PROVE  /\ Slots(req') = Slots(req) - One(req[r].acquired) + One(q.acquired)
         /\ Slots(req) \in Nat /\ One(req[r].acquired) <= Slots(req)
BY SlotsChangeOf

LEMMA CachedChanges ==
  ASSUME io \in [Streams -> StreamRecords], NEW s \in Streams, NEW i \in StreamRecords,
         io' = [io EXCEPT ![s] = i]
  PROVE  /\ Cached(io') = Cached(io) - io[s].cache + i.cache
         /\ Cached(io) \in Nat /\ Cached(io') \in Nat /\ io[s].cache <= Cached(io)
BY CachedChangesOf

LEMMA OpenedChanges ==
  ASSUME io \in [Streams -> StreamRecords], NEW s \in Streams, NEW i \in StreamRecords,
         io' = [io EXCEPT ![s] = i]
  PROVE  /\ Opened(io') = Opened(io) - One(IsOpen(io[s])) + One(IsOpen(i))
         /\ Opened(io) \in Nat /\ One(IsOpen(io[s])) <= Opened(io)
BY OpenedChangesOf

(* A section that changes one request and gives nothing up.                *)
LEMMA RequestSection ==
  ASSUME Inv, BudgetInv, NEW r \in Requests, NEW q \in Request, Becomes(r, q),
         q.pending = req[r].pending, q.buffer = req[r].buffer, q.acquired = req[r].acquired,
         q.refs >= 1, Whole(q), ~Admitting(r)', \A x \in Requests : Admitting(x)' => Admitting(x),
         CachesFresh', Cached(io') = Cached(io), Opened(io') = Opened(io)
  PROVE  BudgetInv'
<1>0. /\ req \in [Requests -> Request] /\ req' = [req EXCEPT ![r] = q]
      /\ UNCHANGED <<budget, session>>
    BY DEF Inv, TypeOK, Becomes
<1>1. Reserved(req') = Reserved(req)
    <2>1. Weight(q) = Weight(req[r]) /\ Weight(q) \in Nat
        BY DEF Weight, Request
    <2>2. /\ Reserved(req') = Reserved(req) - Weight(req[r]) + Weight(q)
          /\ Reserved(req) \in Nat
        BY <1>0, ReservedChanges
    <2>3. QED
        BY <2>1, <2>2
<1>2. Slots(req') = Slots(req)
    <2>1. /\ Slots(req') = Slots(req) - One(req[r].acquired) + One(q.acquired)
          /\ Slots(req) \in Nat
        BY <1>0, SlotsChange
    <2>2. QED
        BY <2>1 DEF One
<1>3. Counters' /\ Limits'
    BY <1>0, <1>1, <1>2 DEF BudgetInv, Counters, Limits
<1>4. Fresh'
    <2>1. \A x \in Requests \ {r} : req'[x] = req[x]
        BY <1>0
    <2>2. req'[r] = q /\ q.refs # 0
        BY <1>0
    <2>3. QED
        BY <2>1, <2>2 DEF BudgetInv, Fresh
<1>5. Wholes'
    BY <1>0 DEF BudgetInv, Wholes, Whole
<1>6. QED
    BY <1>3, <1>4, <1>5 DEF BudgetInv

(* A stream goes on with the cache it has.                                 *)
LEMMA StreamGoesOn ==
  ASSUME Inv, BudgetInv, NEW s \in Streams, Busy(s),
         NEW at \in {"proxy", "wait", "abandon", "retry", "answer", "release"},
         io' = [io EXCEPT ![s].at = at], io[s].at # "release"
  PROVE  /\ CachesFresh' /\ Cached(io') = Cached(io) /\ Opened(io') = Opened(io)
         /\ \A x \in Requests : Admitting(x)' => Admitting(x) /\ x # io[s].of
<1> DEFINE i == [io[s] EXCEPT !.at = at]
<1>0. io \in [Streams -> StreamRecords] /\ i \in StreamRecords
    BY DEF Inv, TypeOK, StreamRecords
<1>1. io' = [io EXCEPT ![s] = i]
    BY <1>0 DEF StreamRecords
<1>2. i.cache = io[s].cache /\ i.at = at /\ i.of = io[s].of /\ io[s].cache = 0
    BY <1>0 DEF StreamRecords, BudgetInv, Fresh, CachesFresh, Busy
<1> HIDE DEF i
<1>3. Cached(io') = Cached(io)
    <2>1. Cached(io') = Cached(io) - io[s].cache + i.cache /\ Cached(io) \in Nat
        BY <1>0, <1>1, CachedChanges
    <2>2. io[s].cache = 0 /\ i.cache = 0
        BY <1>2
    <2>3. QED
        BY <2>1, <2>2
<1>4. Opened(io') = Opened(io)
    <2>1. IsOpen(i) /\ IsOpen(io[s])
        BY <1>2 DEF IsOpen, Busy
    <2>2. /\ Opened(io') = Opened(io) - One(IsOpen(io[s])) + One(IsOpen(i))
          /\ Opened(io) \in Nat
        BY <1>0, <1>1, OpenedChanges
    <2>3. One(IsOpen(i)) = 1 /\ One(IsOpen(io[s])) = 1
        BY <2>1 DEF One
    <2>4. QED
        BY <2>2, <2>3
<1>5. CachesFresh'
    BY <1>0, <1>1, <1>2 DEF CachesFresh, BudgetInv, Fresh
<1>6. ASSUME NEW x \in Requests, Admitting(x)'
      PROVE  Admitting(x) /\ x # io[s].of
    <2>1. PICK t \in Streams : io'[t].of = x /\ io'[t].at = "admission"
        BY <1>6 DEF Admitting
    <2>2. t # s
        BY <1>0, <1>1, <1>2, <2>1
    <2>3. io[t].of = x /\ io[t].at = "admission"
        BY <1>0, <1>1, <2>1, <2>2
    <2>4. io[s].of # io[t].of
        BY <2>2, <2>3 DEF Inv, PlacesInv
    <2>5. QED
        BY <2>3, <2>4 DEF Admitting
<1>7. QED
    BY <1>3, <1>4, <1>5, <1>6

(* Sections of the main thread leave the streams alone, and an admitted    *)
(* request.                                                                *)
LEMMA StreamsStay ==
  ASSUME Inv, BudgetInv, UNCHANGED io
  PROVE  /\ CachesFresh' /\ Cached(io') = Cached(io) /\ Opened(io') = Opened(io)
         /\ \A x \in Requests : Admitting(x)' => Admitting(x)
BY DEF CachesFresh, BudgetInv, Fresh, Admitting

LEMMA AdmittingIsEarly == \A r \in Requests : Admitting(r) => EarlyUses(r)
BY DEF Admitting, EarlyUses, Early

LEMMA MainSectionBudget ==
  ASSUME Inv, BudgetInv, NEW r \in Requests, NEW q \in Request, Becomes(r, q), UNCHANGED io,
         main.of = r \/ callback.of = r \/ tasks[r] # {} \/ req[r].fetchHeld,
         q.pending = req[r].pending, q.buffer = req[r].buffer, q.acquired = req[r].acquired,
         q.refs >= req[r].refs, Whole(q)
  PROVE  BudgetInv'
<1>1. /\ CachesFresh' /\ Cached(io') = Cached(io) /\ Opened(io') = Opened(io)
      /\ \A x \in Requests : Admitting(x)' => Admitting(x)
    BY StreamsStay
<1>2. ~Admitting(r)'
    BY <1>1, AtWorkIsLate, AdmittingIsEarly
<1>3. req[r].refs >= 1
    <2>1. "start" \in tasks[r] \/ "close" \in tasks[r] \/ tasks[r] = {}
        BY DEF Inv, TypeOK
    <2>2. QED
        BY <2>1, HolderHasReference DEF Inv
<1>4. q.refs >= 1
    BY <1>3 DEF Request, Inv, TypeOK
<1>5. QED
    BY <1>1, <1>2, <1>4, RequestSection

LEMMA ScheduleKeeps ==
  ASSUME NEW r, req[r] \in Request, Whole(req[r]), ScheduleClose(r) \/ ScheduleCloseFails(r)
  PROVE  \E q \in Request :
           /\ Becomes(r, q)
           /\ q.pending = req[r].pending /\ q.buffer = req[r].buffer
           /\ q.acquired = req[r].acquired /\ q.refs >= req[r].refs /\ Whole(q)
<1> DEFINE p == [req[r] EXCEPT !.closeRequested = TRUE]
           t == [req[r] EXCEPT !.closeRequested = TRUE, !.closeEnqueued = TRUE, !.refs = @ + 1]
<1>1. /\ p \in Request /\ t \in Request
    BY RequestEdits
<1>2. Becomes(r, p) \/ Becomes(r, t)
    BY Zenon DEF ScheduleClose, ScheduleCloseFails, ScheduledClose
<1>3. /\ p.pending = req[r].pending /\ p.buffer = req[r].buffer
      /\ p.acquired = req[r].acquired /\ p.refs >= req[r].refs /\ Whole(p)
    BY DEF Request, Whole
<1>4. /\ t.pending = req[r].pending /\ t.buffer = req[r].buffer
      /\ t.acquired = req[r].acquired /\ t.refs >= req[r].refs /\ Whole(t)
    BY DEF Request, Whole
<1> HIDE DEF p, t
<1>5. QED
    BY <1>1, <1>2, <1>3, <1>4

LEMMA UnchangedSection ==
  ASSUME Inv, BudgetInv, UNCHANGED <<req, budget, session>>,
         CachesFresh', Cached(io') = Cached(io), Opened(io') = Opened(io),
         \A x \in Requests : Admitting(x)' => Admitting(x)
  PROVE  BudgetInv'
<1>1. Counters' /\ Limits' /\ Wholes'
    BY DEF BudgetInv, Counters, Limits, Wholes
<1>2. Fresh'
    BY DEF BudgetInv, Fresh
<1>3. QED
    BY <1>1, <1>2 DEF BudgetInv

LEMMA WaitingBudget ==
  ASSUME Inv, BudgetInv, NEW s \in Streams,
         AdmissionFails(s) \/ ProxyFails(s) \/ WaitEnds(s) \/ WaitSeesFailure(s) \/ Fails(s)
  PROVE  BudgetInv'
<1>1. PICK at \in {"proxy", "wait", "abandon", "retry", "answer", "release"} :
        io' = [io EXCEPT ![s].at = at]
    BY DEF AdmissionFails, ProxyFails, WaitEnds, WaitSeesFailure, Fails
<1>2. Busy(s) /\ io[s].at # "release" /\ UNCHANGED <<req, budget, session>>
    BY DEF AdmissionFails, ProxyFails, WaitEnds, WaitSeesFailure, Fails, Busy
<1>3. QED
    BY <1>1, <1>2, StreamGoesOn, UnchangedSection

LEMMA WorkerBudget ==
  ASSUME Inv, BudgetInv, NEW s \in Streams, Proxy(s) \/ WaitAborts(s) \/ WorkerCloses(s)
  PROVE  BudgetInv'
<1>0. PICK r \in Requests : r = io[s].of
    BY StreamRequest DEF Busy, Proxy, WaitAborts, WorkerCloses, Inv
<1>1. req[r] \in Request /\ req[r].refs >= 1
    BY <1>0, StreamRequest, HolderHasReference DEF Busy, Proxy, WaitAborts, WorkerCloses, Inv
<1>2. PICK at \in {"proxy", "wait", "abandon", "retry", "answer", "release"} :
        io' = [io EXCEPT ![s].at = at]
    <2>1. CASE Proxy(s) \/ WaitAborts(s)
        BY <2>1 DEF Proxy, WaitAborts
    <2>2. CASE WorkerCloses(s)
        <3>1. io' = [io EXCEPT ![s].at = IF io[s].at = "retry" THEN "wait" ELSE "answer"]
            BY <2>2 DEF WorkerCloses, Inv, TypeOK
        <3>2. QED
            BY <3>1
    <2>3. QED
        BY <2>1, <2>2
<1>3. Busy(s) /\ io[s].at # "release"
    BY DEF Proxy, WaitAborts, WorkerCloses, Busy
<1>4. /\ CachesFresh' /\ Cached(io') = Cached(io) /\ Opened(io') = Opened(io)
      /\ \A x \in Requests : Admitting(x)' => Admitting(x)
      /\ ~Admitting(r)'
    BY <1>0, <1>2, <1>3, StreamGoesOn
<1>5. Whole(req[r])
    BY <1>1 DEF BudgetInv, Wholes
<1>6. CASE Proxy(s)
    <2> DEFINE q == [req[r] EXCEPT !.refs = @ + 1]
    <2>1. q \in Request /\ Becomes(r, q)
        BY <1>0, <1>1, <1>6, RequestEdits DEF Proxy
    <2>2. /\ q.pending = req[r].pending /\ q.buffer = req[r].buffer
          /\ q.acquired = req[r].acquired /\ q.refs >= 1 /\ Whole(q)
        BY <1>1, <1>5 DEF Request, Whole
    <2> HIDE DEF q
    <2>3. QED
        BY <1>1, <1>4, <2>1, <2>2, RequestSection
<1>7. CASE WaitAborts(s)
    <2> DEFINE q == [req[r] EXCEPT !.abort = "timeout", !.success = FALSE, !.done = TRUE]
    <2>1. q \in Request /\ Becomes(r, q)
        BY <1>0, <1>1, <1>7 DEF WaitAborts, Request, Reasons
    <2>2. /\ q.pending = req[r].pending /\ q.buffer = req[r].buffer
          /\ q.acquired = req[r].acquired /\ q.refs >= 1 /\ Whole(q)
        BY <1>1 DEF Request, Whole
    <2> HIDE DEF q
    <2>3. QED
        BY <1>1, <1>4, <2>1, <2>2, RequestSection
<1>8. CASE WorkerCloses(s)
    <2>1. PICK q \in Request :
            /\ Becomes(r, q)
            /\ q.pending = req[r].pending /\ q.buffer = req[r].buffer
            /\ q.acquired = req[r].acquired /\ q.refs >= req[r].refs /\ Whole(q)
        BY <1>0, <1>1, <1>5, <1>8, ScheduleKeeps DEF WorkerCloses
    <2>2. q.refs >= 1
        BY <1>1, <2>1 DEF Request
    <2>3. QED
        BY <1>1, <1>4, <2>1, <2>2, RequestSection
<1>9. QED
    BY <1>6, <1>7, <1>8

(* Sections of the running task.                                           *)
LEMMA MainWorksBudget ==
  ASSUME Inv, BudgetInv, NEW r \in Requests,
         \/ StartFetch(r) \/ IssueFetch(r) \/ FetchIssued(r) \/ IssueFails(r)
         \/ CloseAborts(r) \/ CloseDestroys(r)
  PROVE  BudgetInv'
<1> DEFINE q == req[r]
<1>q. q \in Request /\ Whole(q) /\ FetchOf(r)
    BY DEF Inv, TypeOK, BudgetInv, Wholes, FetchInv
<1>w. UNCHANGED io /\ (main.of = r \/ tasks[r] # {})
    BY DEF StartFetch, IssueFetch, FetchIssued, IssueFails, CloseAborts, CloseDestroys
<1>1. CASE StartFetch(r)
    <2> DEFINE p == [q EXCEPT !.done = TRUE, !.success = FALSE, !.startComplete = TRUE]
               t == [q EXCEPT !.refs = @ + 1, !.fetchHeld = TRUE]
    <2>1. p \in Request /\ t \in Request
        BY <1>q, RequestEdits
    <2>2. Becomes(r, p) \/ Becomes(r, t)
        BY <1>1 DEF StartFetch
    <2>3. /\ p.pending = q.pending /\ p.buffer = q.buffer /\ p.acquired = q.acquired
          /\ p.refs >= q.refs /\ Whole(p)
        BY <1>q DEF Request, Whole
    <2>4. /\ t.pending = q.pending /\ t.buffer = q.buffer /\ t.acquired = q.acquired
          /\ t.refs >= q.refs /\ Whole(t)
        BY <1>q DEF Request, Whole
    <2> HIDE DEF p, t
    <2>5. CASE Becomes(r, p)
        BY <1>w, <2>1, <2>3, <2>5, MainSectionBudget
    <2>6. CASE Becomes(r, t)
        BY <1>w, <2>1, <2>4, <2>6, MainSectionBudget
    <2>7. QED
        BY <2>2, <2>5, <2>6
<1>2. CASE IssueFetch(r)
    <2> DEFINE p == [q EXCEPT !.fetch = "live"]
    <2>1. p \in Request /\ Becomes(r, p)
        BY <1>q, <1>2 DEF IssueFetch, Request
    <2>2. q.fetch = "none"
        BY <1>q, <1>2 DEF IssueFetch, FetchOf
    <2>3. /\ p.pending = q.pending /\ p.buffer = q.buffer /\ p.acquired = q.acquired
          /\ p.refs >= q.refs /\ Whole(p)
        BY <1>q, <2>2 DEF Request, Whole
    <2> HIDE DEF p
    <2>4. QED
        BY <1>w, <2>1, <2>3, MainSectionBudget
<1>3. CASE FetchIssued(r)
    <2> DEFINE p == [q EXCEPT !.startComplete = TRUE]
    <2>1. p \in Request /\ Becomes(r, p)
        BY <1>q, <1>3 DEF FetchIssued, Request
    <2>2. /\ p.pending = q.pending /\ p.buffer = q.buffer /\ p.acquired = q.acquired
          /\ p.refs >= q.refs /\ Whole(p)
        BY <1>q DEF Request, Whole
    <2> HIDE DEF p
    <2>3. QED
        BY <1>w, <2>1, <2>2, MainSectionBudget
<1>4. CASE IssueFails(r)
    <2>1. PICK a \in Reasons :
            Becomes(r, [q EXCEPT !.startComplete = TRUE, !.success = FALSE, !.done = TRUE, !.abort = a])
        <3>1. q.abort \in Reasons
            BY <1>q DEF Request
        <3>2. CASE q.abort = "none"
            BY <1>4, <3>2 DEF IssueFails, Reasons
        <3>3. CASE q.abort # "none"
            BY <1>4, <3>1, <3>3 DEF IssueFails
        <3>4. QED
            BY <3>2, <3>3
    <2> DEFINE p == [q EXCEPT !.startComplete = TRUE, !.success = FALSE, !.done = TRUE, !.abort = a]
    <2>2. p \in Request /\ Becomes(r, p)
        BY <1>q, <2>1 DEF Request
    <2>3. /\ p.pending = q.pending /\ p.buffer = q.buffer /\ p.acquired = q.acquired
          /\ p.refs >= q.refs /\ Whole(p)
        BY <1>q DEF Request, Whole
    <2> HIDE DEF p
    <2>4. QED
        BY <1>w, <2>2, <2>3, MainSectionBudget
<1>5. CASE CloseAborts(r)
    <2> DEFINE p == [q EXCEPT !.refs = @ + 1, !.success = FALSE, !.done = TRUE, !.fetch = "ended"]
    <2>1. p \in Request /\ Becomes(r, p)
        <3>1. q.refs + 1 \in Nat
            BY <1>q DEF Request
        <3>2. QED
            BY <1>q, <1>5, <3>1 DEF CloseAborts, Request
    <2>2. /\ p.pending = q.pending /\ p.buffer = q.buffer /\ p.acquired = q.acquired
          /\ p.refs >= q.refs /\ Whole(p)
        BY <1>q DEF Request, Whole
    <2> HIDE DEF p
    <2>3. QED
        BY <1>w, <2>1, <2>2, MainSectionBudget
<1>6. CASE CloseDestroys(r)
    <2> DEFINE p == [q EXCEPT !.fetch = "closed"]
    <2>1. p \in Request /\ Becomes(r, p)
        BY <1>q, <1>6 DEF CloseDestroys, Request
    <2>2. /\ p.pending = q.pending /\ p.buffer = q.buffer /\ p.acquired = q.acquired
          /\ p.refs >= q.refs /\ Whole(p)
        BY <1>q DEF Request, Whole
    <2> HIDE DEF p
    <2>3. QED
        BY <1>w, <2>1, <2>2, MainSectionBudget
<1>7. QED
    BY <1>1, <1>2, <1>3, <1>4, <1>5, <1>6

LEMMA CloseTakesBudget ==
  ASSUME Inv, BudgetInv, NEW r \in Requests, CloseTakes(r)
  PROVE  BudgetInv'
<1> DEFINE q == req[r]
           e == [q EXCEPT !.done = TRUE, !.success = FALSE]
<1>q. q \in Request /\ Whole(q)
    BY DEF Inv, TypeOK, BudgetInv, Wholes
<1>w. UNCHANGED io /\ main.of = r
    BY DEF CloseTakes
<1>1. PICK p \in {q, e}, c \in BOOLEAN : Becomes(r, p) \/ Becomes(r, [p EXCEPT !.fetchClosed = c])
    <2> DEFINE ended == IF q.done THEN q ELSE e
               takes == q.fetch # "none" /\ ~q.fetchClosed
    <2>1. Becomes(r, CASE q.closeComplete -> q
                      [] ~q.closeComplete /\ ~q.startComplete -> ended
                      [] OTHER -> [ended EXCEPT !.fetchClosed = @ \/ takes])
        BY Zenon DEF CloseTakes
    <2>2. (ended.fetchClosed \/ takes) \in BOOLEAN
        BY Zenon
    <2>3. ended \in {q, e}
        OBVIOUS
    <2>4. PICK c \in BOOLEAN : c = (ended.fetchClosed \/ takes)
        BY <2>2
    <2> HIDE DEF ended, takes, q, e
    <2>5. CASE q.closeComplete
        <3>1. Becomes(r, q)
            BY <2>1, <2>5
        <3>2. QED
            BY <2>4, <3>1
    <2>6. CASE ~q.closeComplete /\ ~q.startComplete
        BY <2>1, <2>3, <2>4, <2>6
    <2>7. CASE ~q.closeComplete /\ q.startComplete
        <3>1. Becomes(r, [ended EXCEPT !.fetchClosed = ended.fetchClosed \/ takes])
            BY <2>1, <2>7
        <3>2. QED
            BY <2>3, <2>4, <3>1
    <2>8. QED
        BY <2>5, <2>6, <2>7
<1>2. /\ p \in Request /\ p.pending = q.pending /\ p.buffer = q.buffer
      /\ p.acquired = q.acquired /\ p.refs = q.refs /\ Whole(p)
    <2>1. e \in Request
        BY <1>q, RequestEdits
    <2>2. e.pending = q.pending /\ e.buffer = q.buffer /\ e.acquired = q.acquired /\ e.refs = q.refs
          /\ Whole(e)
        BY <1>q DEF Request, Whole
    <2> HIDE DEF q, e
    <2>3. QED
        BY <1>q, <2>1, <2>2
<1> DEFINE t == [p EXCEPT !.fetchClosed = c]
<1>3. /\ t \in Request /\ t.pending = q.pending /\ t.buffer = q.buffer
      /\ t.acquired = q.acquired /\ t.refs = q.refs /\ Whole(t)
    <2> HIDE DEF q, e
    <2>1. QED
        BY <1>2 DEF Request, Whole
<1>4. p.refs >= q.refs /\ t.refs >= q.refs
    BY <1>2, <1>3, <1>q DEF Request
<1> HIDE DEF e, t
<1>5. CASE Becomes(r, p)
    BY <1>w, <1>2, <1>4, <1>5, MainSectionBudget
<1>6. CASE Becomes(r, t)
    BY <1>w, <1>3, <1>4, <1>6, MainSectionBudget
<1>7. QED
    BY <1>1, <1>5, <1>6 DEF t

LEMMA SchedulingBudget ==
  ASSUME Inv, BudgetInv, NEW r \in Requests, CloseTask(r) \/ CallbackCloses(r)
  PROVE  BudgetInv'
<1>1. CASE CloseTask(r)
    <2>1. UNCHANGED <<req, io, budget, session>>
        BY <1>1 DEF CloseTask
    <2>2. QED
        BY <2>1, StreamsStay, UnchangedSection
<1>2. CASE CallbackCloses(r)
    <2>1. UNCHANGED io /\ callback.of = r /\ ScheduleClose(r)
        BY <1>2 DEF CallbackCloses
    <2>2. req[r] \in Request /\ Whole(req[r])
        BY DEF Inv, TypeOK, BudgetInv, Wholes
    <2>3. PICK q \in Request :
            /\ Becomes(r, q)
            /\ q.pending = req[r].pending /\ q.buffer = req[r].buffer
            /\ q.acquired = req[r].acquired /\ q.refs >= req[r].refs /\ Whole(q)
        BY <2>1, <2>2, ScheduleKeeps
    <2>4. QED
        BY <2>1, <2>3, MainSectionBudget
<1>3. QED
    BY <1>1, <1>2

LEMMA CallbackBudget ==
  ASSUME Inv, BudgetInv, NEW r \in Requests, NEW h \in Headers, NEW tooMuch \in BOOLEAN,
         OnPartial(r, h, tooMuch) \/ OnError(r, h)
  PROVE  BudgetInv'
<1> DEFINE q == Captured(req[r], h)
<1>q. /\ q \in Request /\ FetchOf(r) /\ q.fetch = req[r].fetch /\ q.refs = req[r].refs
      /\ req[r] \in Request /\ Whole(req[r])
    BY CapturedType, CapturedSame DEF Inv, TypeOK, FetchInv, BudgetInv, Wholes
<1>s. /\ q.pending = req[r].pending /\ q.buffer = req[r].buffer /\ q.acquired = req[r].acquired
      /\ q.success = req[r].success
    BY <1>q DEF Captured, Request
<1> HIDE DEF q
<1>1. UNCHANGED io /\ req[r].fetch = "live" /\ req[r].fetchHeld
    BY <1>q DEF OnPartial, OnError, CallsBack, FetchOf, q, Captured
<1>n. ~q.success
    BY <1>q, <1>s, <1>1 DEF Whole
<1>t. q.refs + 1 \in Nat /\ q.refs + 1 >= req[r].refs /\ q.abort \in Reasons
    BY <1>q DEF Request
<1>2. CASE OnPartial(r, h, tooMuch)
    <2> DEFINE stop == q.abort # "none" \/ q.closeRequested \/ q.headers = "error"
               over == ~stop /\ (tooMuch \/ q.headers = "long")
               a == IF over THEN "refused" ELSE q.abort
               p == [q EXCEPT !.refs = @ + 1, !.abort = a]
    <2>1. Becomes(r, p)
        BY <1>2, Zenon DEF OnPartial, q
    <2>2. a \in Reasons
        BY <1>t DEF Reasons
    <2> HIDE DEF a, stop, over
    <2>3. p \in Request
        BY <1>q, <1>t, <2>2 DEF Request
    <2>4. /\ p.pending = req[r].pending /\ p.buffer = req[r].buffer /\ p.acquired = req[r].acquired
          /\ p.refs >= req[r].refs /\ Whole(p)
        BY <1>q, <1>s, <1>t, <1>n DEF Request, Whole
    <2> HIDE DEF p
    <2>5. QED
        BY <1>1, <2>1, <2>3, <2>4, MainSectionBudget
<1>3. CASE OnError(r, h)
    <2> DEFINE p == [q EXCEPT !.refs = @ + 1, !.fetch = "ended", !.success = FALSE, !.done = TRUE]
    <2>1. Becomes(r, p)
        BY <1>3, Zenon DEF OnError, q
    <2>2. p \in Request
        BY <1>q, <1>t DEF Request
    <2>3. /\ p.pending = req[r].pending /\ p.buffer = req[r].buffer /\ p.acquired = req[r].acquired
          /\ p.refs >= req[r].refs /\ Whole(p)
        BY <1>q, <1>s, <1>t DEF Request, Whole
    <2> HIDE DEF p
    <2>4. QED
        BY <1>1, <2>1, <2>2, <2>3, MainSectionBudget
<1>4. QED
    BY <1>2, <1>3

(* A section that also moves what one request holds of the budget.         *)
LEMMA FreshAgain ==
  ASSUME Inv, BudgetInv, NEW r \in Requests, NEW q \in Request, req' = [req EXCEPT ![r] = q],
         q.refs >= 1 \/ q = Freed, Whole(q), Admitting(r)' => Clean(q),
         \A x \in Requests \ {r} : Admitting(x)' => Admitting(x), CachesFresh'
  PROVE  Fresh' /\ Wholes'
<1>1. req \in [Requests -> Request]
    BY DEF Inv, TypeOK
<1>2. req'[r] = q /\ \A x \in Requests \ {r} : req'[x] = req[x]
    BY <1>1
<1>3. Wholes'
    BY <1>2 DEF BudgetInv, Wholes, Whole
<1>4. \A x \in Requests : req'[x].refs = 0 => req'[x] = Freed
    <2>1. q.refs = 0 => q = Freed
        BY DEF Request
    <2>2. QED
        BY <1>2, <2>1 DEF BudgetInv, Fresh
<1>5. \A x \in Requests : Admitting(x)' => Clean(req'[x])
    BY <1>2 DEF BudgetInv, Fresh
<1>6. QED
    BY <1>3, <1>4, <1>5 DEF Fresh

LEMMA OnSuccessBudget ==
  ASSUME Inv, BudgetInv, NEW r \in Requests, NEW h \in Headers, NEW n \in Nat,
         NEW copied \in BOOLEAN, OnSuccess(r, h, n, copied)
  PROVE  BudgetInv'
<1> DEFINE q     == Captured(req[r], h)
           valid == q.abort = "none" /\ ~q.closeRequested
           over  == q.headers = "long" \/ (valid /\ (n > q.limit \/ n > q.pending \/ n > q.buffer))
           takes == valid /\ ~over /\ n > 0
           kept  == IF copied THEN n ELSE 0
           good  == valid /\ ~over /\ (n > 0 => copied)
           a     == IF over \/ (takes /\ ~copied) THEN "refused" ELSE q.abort
           pending == IF takes THEN kept ELSE q.pending
           buffer  == IF takes THEN n ELSE q.buffer
           data    == IF takes THEN kept ELSE 0
           p     == [q EXCEPT !.refs = @ + 1, !.fetch = "ended", !.done = TRUE, !.success = good,
                              !.abort = a, !.pending = pending, !.buffer = buffer, !.data = data]
<1>0. /\ req \in [Requests -> Request] /\ budget \in Budgets /\ req[r] \in Request
      /\ FetchOf(r)
    BY DEF Inv, TypeOK, Budgets, FetchInv
<1>1. /\ q \in Request /\ q.pending = req[r].pending /\ q.buffer = req[r].buffer
      /\ q.acquired = req[r].acquired
    BY <1>0, CapturedType DEF Captured, Request
<1>2. /\ req' = [req EXCEPT ![r] = p]
      /\ budget' = [budget EXCEPT !.pending = Less(Less(@, q.pending - p.pending),
                                                   q.buffer - p.buffer)]
    BY Zenon DEF OnSuccess
<1>f. UNCHANGED <<io, session>> /\ req[r].fetch = "live"
    BY DEF OnSuccess, CallsBack
<1> HIDE DEF q
<1>3. /\ q.pending \in Nat /\ q.buffer \in Nat /\ q.abort \in Reasons /\ q.refs + 1 \in Nat
      /\ q.refs + 1 >= 1 /\ q.limit \in Nat
    BY <1>1 DEF Request
<1>4. good \in BOOLEAN
    BY Zenon
<1>5. a \in Reasons
    BY <1>3 DEF Reasons
<1>6. pending \in Nat /\ buffer \in Nat /\ data \in Nat
    BY <1>3
<1>7. pending <= q.pending /\ buffer <= q.buffer
    BY <1>3
<1>8. good => a = "none" /\ data <= q.limit /\ (data > 0 => pending = data)
    BY <1>3
<1> HIDE DEF good, a, pending, buffer, data
<1>9. p \in Request
    BY <1>1, <1>3, <1>4, <1>5, <1>6 DEF Request
<1>10. /\ p.pending = pending /\ p.buffer = buffer /\ p.refs >= 1 /\ p.fetch = "ended" /\ p.done
       /\ p.success = good /\ p.abort = a /\ p.data = data /\ p.limit = q.limit
       /\ p.acquired = req[r].acquired
    BY <1>1, <1>3 DEF Request
<1> HIDE DEF p
<1>11. Whole(p)
    BY <1>8, <1>10 DEF Whole
<1>12. /\ Reserved(req') = Reserved(req) - Weight(req[r]) + Weight(p)
       /\ Reserved(req) \in Nat /\ Weight(req[r]) <= Reserved(req)
    BY <1>0, <1>2, <1>9, ReservedChanges
<1>13. Slots(req') = Slots(req)
    <2>1. /\ Slots(req') = Slots(req) - One(req[r].acquired) + One(p.acquired)
          /\ Slots(req) \in Nat
        BY <1>0, <1>2, <1>9, SlotsChange
    <2>2. QED
        BY <1>10, <2>1 DEF One
<1>14. budget.pending = Reserved(req) /\ q.pending + q.buffer <= budget.pending
    BY <1>1, <1>12 DEF BudgetInv, Counters, Weight
<1>15. Less(Less(budget.pending, q.pending - pending), q.buffer - buffer)
         = budget.pending - (q.pending - pending) - (q.buffer - buffer)
    BY <1>0, <1>3, <1>6, <1>7, <1>14 DEF Less, Budgets
<1>16. /\ budget'.pending = budget.pending - (q.pending - pending) - (q.buffer - buffer)
       /\ budget'.active = budget.active /\ budget'.open = budget.open
       /\ budget'.buffered = budget.buffered /\ budget'.refs = budget.refs
    BY <1>0, <1>2, <1>10, <1>15 DEF Budgets
<1>17. Counters'
    <2>1. Weight(p) = pending + buffer /\ Weight(req[r]) = q.pending + q.buffer
        BY <1>1, <1>10 DEF Weight
    <2>2. budget'.pending = Reserved(req')
        BY <1>0, <1>3, <1>6, <1>12, <1>14, <1>16, <2>1 DEF Budgets
    <2>3. QED
        BY <1>f, <1>13, <1>16, <2>2 DEF BudgetInv, Counters
<1>18. Limits'
    <2>1. budget'.pending <= budget.pending
        BY <1>0, <1>3, <1>6, <1>7, <1>16 DEF Budgets
    <2>2. MaxBuffered \in Nat /\ MaxInflight \in Nat
        BY SizesAssumption, LimitsAssumption
    <2>3. budget'.pending \in Int /\ budget.pending \in Nat /\ budget.buffered \in Nat
        BY <1>0, <1>3, <1>6, <1>16 DEF Budgets
    <2>4. QED
        BY <1>16, <2>1, <2>2, <2>3 DEF BudgetInv, Limits
<1>19. /\ CachesFresh' /\ \A x \in Requests : Admitting(x)' => Admitting(x)
    BY <1>f, StreamsStay
<1>20. ~Admitting(r)'
    <2>1. req[r].fetchHeld
        BY <1>0, <1>f DEF FetchOf
    <2>2. QED
        BY <1>19, <2>1, AtWorkIsLate, AdmittingIsEarly
<1>21. Fresh' /\ Wholes'
    BY <1>2, <1>9, <1>10, <1>11, <1>19, <1>20, FreshAgain
<1>22. QED
    BY <1>17, <1>18, <1>21 DEF BudgetInv

(* Whoever drops a reference has left the request as q, and the budget as  *)
(* b, where the two still agree; the last one gives back what q has.       *)
LEMMA DropBudget ==
  ASSUME Inv, BudgetInv, NEW r \in Requests, req[r].refs >= 1,
         NEW q \in Request, q.refs = req[r].refs, q.session = req[r].session, Whole(q),
         Weight(q) <= Weight(req[r]), One(q.acquired) <= One(req[r].acquired),
         NEW b \in Budgets, b.refs = budget.refs, b.open = budget.open, b.buffered = budget.buffered,
         b.pending = budget.pending - Weight(req[r]) + Weight(q),
         b.active = budget.active - One(req[r].acquired) + One(q.acquired),
         Drop(r, q, b), CachesFresh', Cached(io') = Cached(io), Opened(io') = Opened(io),
         \A x \in Requests : Admitting(x)' => Admitting(x), ~Admitting(r)'
  PROVE  BudgetInv'
<1>0. /\ req \in [Requests -> Request] /\ budget \in Budgets /\ req[r] \in Request
      /\ session \in [Sessions -> SessionRecords]
    BY DEF Inv, TypeOK, Budgets, SessionRecords
<1>1. /\ Weight(q) \in Nat /\ Weight(req[r]) \in Nat /\ q.pending \in Nat /\ q.buffer \in Nat
      /\ Weight(q) = q.pending + q.buffer
      /\ One(q.acquired) \in {0, 1} /\ One(req[r].acquired) \in {0, 1}
    BY <1>0 DEF Weight, Request, One
<1>2. /\ budget.pending = Reserved(req) /\ budget.active = Slots(req)
      /\ budget.buffered = Cached(io) /\ budget.open = Opened(io) /\ budget.refs = Users(session)
      /\ budget.buffered + budget.pending <= MaxBuffered /\ budget.active <= MaxInflight
      /\ MaxBuffered \in Nat /\ MaxInflight \in Nat
    BY SizesAssumption, LimitsAssumption DEF BudgetInv, Counters, Limits
<1>3. /\ budget.pending \in Nat /\ budget.buffered \in Nat /\ budget.active \in Nat
      /\ budget.refs \in Nat /\ budget.open \in Nat
      /\ b.pending \in Nat /\ b.active \in Nat
    BY <1>0 DEF Budgets
<1>4. CASE q.refs = 1
    <2> DEFINE x == q.session
               e == Refunded(q, b)
    <2>1. x \in Sessions /\ session[x].refs >= 1 /\ session[x] \in SessionRecords
        BY <1>0, KeptSession DEF Inv
    <2>2. req' = [req EXCEPT ![r] = Freed] /\ LetGo(x, e)
        BY <1>4 DEF Drop
    <2>3. e = [b EXCEPT !.pending = Less(Less(b.pending, q.pending), q.buffer),
                        !.active = IF q.acquired THEN Less(b.active, 1) ELSE b.active]
        BY DEF Refunded
    <2> HIDE DEF x, e
    <2>4. Weight(Freed) = 0 /\ ~Freed.acquired /\ One(Freed.acquired) = 0 /\ Whole(Freed)
        BY DEF Weight, Freed, One, Whole
    <2>5. /\ Reserved(req') = Reserved(req) - Weight(req[r])
          /\ Reserved(req) \in Nat /\ Weight(req[r]) <= Reserved(req)
        <3>1. /\ Reserved(req') = Reserved(req) - Weight(req[r]) + Weight(Freed)
              /\ Reserved(req) \in Nat /\ Weight(req[r]) <= Reserved(req)
            BY <1>0, <2>2, FreedIsRequest, ReservedChanges
        <3>2. QED
            BY <1>1, <2>4, <3>1
    <2>6. /\ Slots(req') = Slots(req) - One(req[r].acquired)
          /\ Slots(req) \in Nat /\ One(req[r].acquired) <= Slots(req)
        <3>1. /\ Slots(req') = Slots(req) - One(req[r].acquired) + One(Freed.acquired)
              /\ Slots(req) \in Nat /\ One(req[r].acquired) <= Slots(req)
            BY <1>0, <2>2, FreedIsRequest, SlotsChange
        <3>2. QED
            BY <1>1, <2>4, <3>1
    <2>7. Less(Less(b.pending, q.pending), q.buffer) = Reserved(req')
        BY <1>1, <1>2, <1>3, <2>5 DEF Less
    <2>8. (IF q.acquired THEN Less(b.active, 1) ELSE b.active) = Slots(req')
        BY <1>1, <1>2, <1>3, <2>6 DEF Less, One
    <2>9. /\ e.pending = Reserved(req') /\ e.active = Slots(req') /\ e.refs = budget.refs
          /\ e.open = budget.open /\ e.buffered = budget.buffered /\ e \in Budgets
        <3>1. Reserved(req') \in Nat /\ Slots(req') \in Nat
            BY <1>1, <2>5, <2>6
        <3>2. QED
            BY <2>3, <2>7, <2>8, <3>1 DEF Budgets
    <2>10. /\ session' = [session EXCEPT ![x].refs = @ - 1]
           /\ budget' = IF session[x].refs = 1 THEN [e EXCEPT !.refs = Less(e.refs, 1)] ELSE e
        BY <2>2 DEF LetGo
    <2>11. budget'.refs = Users(session')
        <3> DEFINE y == [session[x] EXCEPT !.refs = @ - 1]
        <3>1. session' = [session EXCEPT ![x] = y]
            BY <1>0, <2>1, <2>10 DEF SessionRecords
        <3>2. y \in SessionRecords /\ y.refs = session[x].refs - 1 /\ session[x].refs \in Nat
            BY <2>1 DEF SessionRecords
        <3> HIDE DEF y
        <3>3. /\ Users(session') = Users(session) - One(session[x].refs > 0) + One(y.refs > 0)
              /\ Users(session) \in Nat /\ One(session[x].refs > 0) <= Users(session)
            BY <1>0, <2>1, <3>1, <3>2, UsersChange
        <3>4. One(session[x].refs > 0) = 1
            BY <2>1, <3>2 DEF One
        <3>5. CASE session[x].refs = 1
            <4>1. budget'.refs = Less(budget.refs, 1)
                BY <2>9, <2>10, <3>5 DEF Budgets
            <4>2. One(y.refs > 0) = 0
                BY <3>2, <3>5 DEF One
            <4>3. QED
                BY <1>2, <3>3, <3>4, <4>1, <4>2 DEF Less
        <3>6. CASE session[x].refs # 1
            <4>1. budget'.refs = budget.refs
                BY <2>9, <2>10, <3>6
            <4>2. One(y.refs > 0) = 1
                BY <2>1, <3>2, <3>6 DEF One
            <4>3. QED
                BY <1>2, <3>3, <3>4, <4>1, <4>2
        <3>7. QED
            BY <3>5, <3>6
    <2>12. /\ budget'.pending = e.pending /\ budget'.active = e.active
           /\ budget'.open = e.open /\ budget'.buffered = e.buffered
        BY <2>9, <2>10 DEF Budgets
    <2>13. Counters'
        BY <1>2, <2>9, <2>11, <2>12 DEF Counters
    <2>14. Limits'
        <3>1. budget'.pending <= budget.pending /\ budget'.active <= budget.active
            BY <1>1, <1>2, <2>5, <2>6, <2>9, <2>12
        <3>2. budget'.pending \in Int /\ budget'.active \in Int
            BY <1>1, <2>5, <2>6, <2>9, <2>12
        <3>3. QED
            BY <1>2, <1>3, <2>9, <2>12, <3>1, <3>2 DEF Limits
    <2>15. Fresh' /\ Wholes'
        BY <2>2, <2>4, FreedIsRequest, FreshAgain
    <2>16. QED
        BY <2>13, <2>14, <2>15 DEF BudgetInv
<1>5. CASE q.refs # 1
    <2> DEFINE p == [q EXCEPT !.refs = @ - 1]
    <2>1. req' = [req EXCEPT ![r] = p] /\ budget' = b /\ UNCHANGED session
        BY <1>5 DEF Drop
    <2>2. /\ p \in Request /\ p.refs >= 1 /\ Weight(p) = Weight(q) /\ p.acquired = q.acquired
          /\ Whole(p)
        BY <1>5 DEF Request, Weight, Whole
    <2> HIDE DEF p
    <2>3. /\ Reserved(req') = Reserved(req) - Weight(req[r]) + Weight(p)
          /\ Reserved(req) \in Nat
        BY <1>0, <2>1, <2>2, ReservedChanges
    <2>4. /\ Slots(req') = Slots(req) - One(req[r].acquired) + One(p.acquired)
          /\ Slots(req) \in Nat
        BY <1>0, <2>1, <2>2, SlotsChange
    <2>5. Counters'
        BY <1>2, <2>1, <2>2, <2>3, <2>4 DEF Counters
    <2>6. Limits'
        <3>1. b.pending <= budget.pending /\ b.active <= budget.active
            BY <1>1, <1>3
        <3>2. QED
            BY <1>2, <1>3, <2>1, <3>1 DEF Limits
    <2>7. Fresh' /\ Wholes'
        BY <2>1, <2>2, FreshAgain
    <2>8. QED
        BY <2>5, <2>6, <2>7 DEF BudgetInv
<1>6. QED
    BY <1>4, <1>5

LEMMA EndBudget ==
  ASSUME Inv, BudgetInv, NEW r \in Requests, CloseCleans(r) \/ TaskReturns(r) \/ CallbackReturns(r)
  PROVE  BudgetInv'
<1>0. /\ req \in [Requests -> Request] /\ req[r] \in Request /\ req[r].refs >= 1 /\ UNCHANGED io
      /\ budget \in Budgets /\ Whole(req[r])
    BY HolderHasReference DEF Inv, TypeOK, CloseCleans, TaskReturns, CallbackReturns, Budgets,
                              BudgetInv, Wholes
<1>1. /\ CachesFresh' /\ Cached(io') = Cached(io) /\ Opened(io') = Opened(io)
      /\ \A x \in Requests : Admitting(x)' => Admitting(x)
    BY <1>0, StreamsStay
<1>2. ~Admitting(r)'
    <2>1. main.of = r \/ callback.of = r
        BY DEF CloseCleans, TaskReturns, CallbackReturns
    <2>2. QED
        BY <1>1, <2>1, AtWorkIsLate, AdmittingIsEarly
<1>3. CASE CloseCleans(r)
    <2> DEFINE q == [req[r] EXCEPT !.buffer = 0, !.acquired = FALSE, !.closeComplete = TRUE,
                                   !.fetchHeld = FALSE]
               b == [budget EXCEPT !.pending = Less(@, req[r].buffer),
                                   !.active = IF req[r].acquired THEN Less(@, 1) ELSE @]
    <2>1. /\ q \in Request /\ q.refs = req[r].refs /\ q.session = req[r].session
          /\ q.pending = req[r].pending /\ q.buffer = 0 /\ ~q.acquired /\ Whole(q)
        BY <1>0 DEF Request, Whole
    <2>2. /\ Drop(r, q, b) \/ (req' = [req EXCEPT ![r] = q] /\ budget' = b /\ UNCHANGED session)
        BY <1>3, Zenon DEF CloseCleans
    <2> HIDE DEF q
    <2>3. /\ req[r].pending \in Nat /\ req[r].buffer \in Nat
          /\ Weight(req[r]) = req[r].pending + req[r].buffer /\ Weight(q) = req[r].pending
        BY <1>0, <2>1 DEF Request, Weight
    <2>4. /\ Reserved(req) \in Nat /\ Weight(req[r]) <= Reserved(req)
        <3>1. req = [req EXCEPT ![r] = req[r]]
            BY <1>0
        <3>2. QED
            BY <1>0, <3>1, ReservedChangesOf
    <2>5. Slots(req) \in Nat /\ One(req[r].acquired) <= Slots(req)
        <3>1. req = [req EXCEPT ![r] = req[r]]
            BY <1>0
        <3>2. QED
            BY <1>0, <3>1, SlotsChangeOf
    <2>6. budget.pending = Reserved(req) /\ budget.active = Slots(req)
        BY DEF BudgetInv, Counters
    <2>7. Less(budget.pending, req[r].buffer) = budget.pending - Weight(req[r]) + Weight(q)
        BY <2>3, <2>4, <2>6 DEF Less
    <2>8. (IF req[r].acquired THEN Less(budget.active, 1) ELSE budget.active)
            = budget.active - One(req[r].acquired) + One(q.acquired)
        BY <2>1, <2>5, <2>6 DEF Less, One
    <2>9. /\ b \in Budgets /\ b.refs = budget.refs /\ b.open = budget.open
          /\ b.buffered = budget.buffered
          /\ b.pending = budget.pending - Weight(req[r]) + Weight(q)
          /\ b.active = budget.active - One(req[r].acquired) + One(q.acquired)
        <3>1. /\ Less(budget.pending, req[r].buffer) \in Nat
              /\ (IF req[r].acquired THEN Less(budget.active, 1) ELSE budget.active) \in Nat
            BY <1>0, <2>3, LessType DEF Budgets
        <3>2. QED
            BY <1>0, <2>7, <2>8, <3>1 DEF Budgets
    <2>10. Weight(q) <= Weight(req[r]) /\ One(q.acquired) <= One(req[r].acquired)
        BY <2>1, <2>3 DEF One
    <2> HIDE DEF b
    <2>11. CASE Drop(r, q, b)
        BY <1>0, <1>1, <1>2, <2>1, <2>9, <2>10, <2>11, DropBudget
    <2>12. CASE req' = [req EXCEPT ![r] = q] /\ budget' = b /\ UNCHANGED session
        <3>1. Reserved(req') = Reserved(req) - Weight(req[r]) + Weight(q)
            BY <1>0, <2>1, <2>12, ReservedChanges
        <3>2. Slots(req') = Slots(req) - One(req[r].acquired) + One(q.acquired)
            BY <1>0, <2>1, <2>12, SlotsChange
        <3>3. Counters'
            BY <1>0, <2>6, <2>9, <2>12, <3>1, <3>2 DEF BudgetInv, Counters
        <3>4. Limits'
            <4>1. b.pending <= budget.pending /\ b.active <= budget.active
                BY <2>1, <2>3, <2>4, <2>5, <2>6, <2>9 DEF One
            <4>2. b \in Budgets /\ MaxBuffered \in Nat /\ MaxInflight \in Nat
                BY <2>9, SizesAssumption, LimitsAssumption
            <4>3. QED
                BY <1>0, <2>9, <2>12, <4>1, <4>2 DEF BudgetInv, Limits, Budgets
        <3>5. q.refs >= 1
            BY <1>0, <2>1
        <3>6. Fresh' /\ Wholes'
            BY <1>1, <1>2, <2>1, <2>12, <3>5, FreshAgain
        <3>7. QED
            BY <3>3, <3>4, <3>6 DEF BudgetInv
    <2>13. QED
        BY <2>2, <2>11, <2>12
<1>4. CASE TaskReturns(r) \/ CallbackReturns(r)
    <2>1. Drop(r, req[r], budget)
        BY <1>4 DEF TaskReturns, CallbackReturns
    <2>2. /\ budget.pending = budget.pending - Weight(req[r]) + Weight(req[r])
          /\ budget.active = budget.active - One(req[r].acquired) + One(req[r].acquired)
          /\ Weight(req[r]) <= Weight(req[r]) /\ One(req[r].acquired) <= One(req[r].acquired)
        <3>1. Weight(req[r]) \in Nat /\ One(req[r].acquired) \in Nat
            BY <1>0 DEF Weight, Request, One
        <3>2. budget.pending \in Nat /\ budget.active \in Nat
            BY <1>0 DEF Budgets
        <3>3. QED
            BY <3>1, <3>2
    <2>3. QED
        BY <1>0, <1>1, <1>2, <2>1, <2>2, DropBudget
<1>5. QED
    BY <1>3, <1>4

(* A stream goes to another place.                                         *)
LEMMA StreamTurns ==
  ASSUME Inv, BudgetInv, NEW s \in Streams, NEW i \in StreamRecords, io' = [io EXCEPT ![s] = i],
         i.at \notin {"idle", "release"} => i.cache = 0
  PROVE  /\ CachesFresh'
         /\ Cached(io') = Cached(io) - io[s].cache + i.cache
         /\ Cached(io) \in Nat /\ io[s].cache \in Nat /\ io[s].cache <= Cached(io)
         /\ Opened(io') = Opened(io) - One(IsOpen(io[s])) + One(IsOpen(i))
         /\ Opened(io) \in Nat /\ One(IsOpen(io[s])) <= Opened(io)
         /\ \A x \in Requests : Admitting(x)' => \/ Admitting(x) /\ x # io[s].of
                                                 \/ i.at = "admission" /\ i.of = x
<1>0. io \in [Streams -> StreamRecords]
    BY DEF Inv, TypeOK, StreamRecords
<1>1. /\ Cached(io') = Cached(io) - io[s].cache + i.cache
      /\ Cached(io) \in Nat /\ io[s].cache <= Cached(io)
    BY <1>0, CachedChanges
<1>2. /\ Opened(io') = Opened(io) - One(IsOpen(io[s])) + One(IsOpen(i))
      /\ Opened(io) \in Nat /\ One(IsOpen(io[s])) <= Opened(io)
    BY <1>0, OpenedChanges
<1>3. CachesFresh'
    BY <1>0 DEF CachesFresh, BudgetInv, Fresh
<1>4. ASSUME NEW x \in Requests, Admitting(x)'
      PROVE  \/ Admitting(x) /\ x # io[s].of
             \/ i.at = "admission" /\ i.of = x
    <2>1. PICK t \in Streams : io'[t].of = x /\ io'[t].at = "admission"
        BY <1>4 DEF Admitting
    <2>2. CASE t = s
        BY <1>0, <2>1, <2>2
    <2>3. CASE t # s
        <3>1. io[t].of = x /\ io[t].at = "admission"
            BY <1>0, <2>1, <2>3
        <3>2. io[s].of # io[t].of
            BY <2>3, <3>1 DEF Inv, PlacesInv
        <3>3. QED
            BY <3>1, <3>2 DEF Admitting
    <2>4. QED
        BY <2>2, <2>3
<1>5. io[s].cache \in Nat
    BY <1>0 DEF StreamRecords
<1>6. QED
    BY <1>1, <1>2, <1>3, <1>4, <1>5

LEMMA FreshStays ==
  ASSUME Inv, BudgetInv, UNCHANGED req, CachesFresh', \A x \in Requests : Admitting(x)' => Admitting(x)
  PROVE  Fresh' /\ Wholes'
BY DEF BudgetInv, Fresh, Wholes

LEMMA OpenBudget ==
  ASSUME Inv, BudgetInv, NEW s \in Streams, Open(s)
  PROVE  BudgetInv'
<1> DEFINE i == [io[s] EXCEPT !.at = "idle"]
<1>0. io[s] \in StreamRecords /\ io[s].at = "new" /\ budget \in Budgets
    BY DEF Inv, TypeOK, StreamRecords, Budgets, Open
<1>1. /\ i \in StreamRecords /\ io' = [io EXCEPT ![s] = i] /\ i.cache = io[s].cache
      /\ i.at = "idle"
    BY <1>0 DEF Open, StreamRecords
<1> HIDE DEF i
<1>2. /\ CachesFresh'
      /\ Cached(io') = Cached(io) - io[s].cache + i.cache
      /\ Cached(io) \in Nat /\ io[s].cache \in Nat
      /\ Opened(io') = Opened(io) - One(IsOpen(io[s])) + One(IsOpen(i))
      /\ Opened(io) \in Nat
      /\ \A x \in Requests : Admitting(x)' => Admitting(x)
    BY <1>1, StreamTurns
<1>3. One(IsOpen(io[s])) = 0 /\ One(IsOpen(i)) = 1
    BY <1>0, <1>1 DEF One, IsOpen
<1>4. /\ budget'.open = budget.open + 1 /\ budget'.pending = budget.pending
      /\ budget'.active = budget.active /\ budget'.buffered = budget.buffered
      /\ budget'.refs = budget.refs /\ UNCHANGED <<req, session>>
    BY <1>0 DEF Open, Budgets
<1>5. Counters'
    BY <1>1, <1>2, <1>3, <1>4 DEF BudgetInv, Counters
<1>6. Limits'
    BY <1>4 DEF BudgetInv, Limits
<1>7. Fresh' /\ Wholes'
    BY <1>2, <1>4, FreshStays
<1>8. QED
    BY <1>5, <1>6, <1>7 DEF BudgetInv

LEMMA CloseBudget ==
  ASSUME Inv, BudgetInv, NEW s \in Streams, Close(s)
  PROVE  BudgetInv'
<1> DEFINE i == [NewStream EXCEPT !.at = "shut"]
<1>0. io[s] \in StreamRecords /\ io[s].at = "idle" /\ budget \in Budgets
    BY DEF Inv, TypeOK, StreamRecords, Budgets, Close
<1>1. i \in StreamRecords /\ io' = [io EXCEPT ![s] = i] /\ i.cache = 0 /\ i.at = "shut"
    BY DEF Close, StreamRecords, NewStream
<1> HIDE DEF i
<1>2. /\ CachesFresh'
      /\ Cached(io') = Cached(io) - io[s].cache + i.cache
      /\ Cached(io) \in Nat /\ io[s].cache \in Nat /\ io[s].cache <= Cached(io)
      /\ Opened(io') = Opened(io) - One(IsOpen(io[s])) + One(IsOpen(i))
      /\ Opened(io) \in Nat /\ One(IsOpen(io[s])) <= Opened(io)
      /\ \A x \in Requests : Admitting(x)' => Admitting(x)
    BY <1>1, StreamTurns
<1>3. One(IsOpen(io[s])) = 1 /\ One(IsOpen(i)) = 0
    BY <1>0, <1>1 DEF One, IsOpen
<1>4. /\ budget'.open = Less(budget.open, 1) /\ budget'.pending = budget.pending
      /\ budget'.active = budget.active /\ budget'.buffered = Less(budget.buffered, io[s].cache)
      /\ budget'.refs = budget.refs /\ UNCHANGED <<req, session>>
    BY <1>0 DEF Close, Budgets
<1>5. budget.buffered = Cached(io) /\ budget.open = Opened(io)
    BY DEF BudgetInv, Counters
<1>6. budget'.open = Opened(io') /\ budget'.buffered = Cached(io')
    BY <1>1, <1>2, <1>3, <1>4, <1>5 DEF Less
<1>7. Counters'
    BY <1>4, <1>6 DEF BudgetInv, Counters
<1>8. Limits'
    <2>1. budget'.buffered <= budget.buffered /\ budget'.buffered \in Int
        BY <1>1, <1>2, <1>5, <1>6
    <2>2. MaxBuffered \in Nat /\ budget.pending \in Nat /\ budget.buffered \in Nat
        BY <1>0, SizesAssumption DEF Budgets
    <2>3. QED
        BY <1>4, <2>1, <2>2 DEF BudgetInv, Limits
<1>9. Fresh' /\ Wholes'
    BY <1>2, <1>4, FreshStays
<1>10. QED
    BY <1>7, <1>8, <1>9 DEF BudgetInv

LEMMA ReleaseBudget ==
  ASSUME Inv, BudgetInv, NEW s \in Streams, Release(s)
  PROVE  BudgetInv'
<1> DEFINE i == [io[s] EXCEPT !.at = "idle", !.of = NoRequest, !.want = 0]
<1>0. io[s] \in StreamRecords /\ io[s].at = "release" /\ budget \in Budgets
    BY DEF Inv, TypeOK, StreamRecords, Budgets, Release
<1>1. /\ i \in StreamRecords /\ io' = [io EXCEPT ![s] = i] /\ i.cache = io[s].cache
      /\ i.at = "idle" /\ io[s].cache \in Nat
    BY <1>0 DEF Release, StreamRecords
<1> HIDE DEF i
<1>r. PICK r \in Requests : r = io[s].of
    BY <1>0, StreamRequest DEF Busy, Inv
<1>2. req[r] \in Request /\ req[r].refs >= 1 /\ Whole(req[r])
    BY <1>0, <1>r, StreamRequest, HolderHasReference DEF Busy, Inv, BudgetInv, Wholes
<1>3. /\ CachesFresh'
      /\ Cached(io') = Cached(io) - io[s].cache + i.cache /\ Cached(io) \in Nat
      /\ Opened(io') = Opened(io) - One(IsOpen(io[s])) + One(IsOpen(i)) /\ Opened(io) \in Nat
      /\ \A x \in Requests : Admitting(x)' => Admitting(x) /\ x # r
    BY <1>1, <1>r, StreamTurns
<1>4. One(IsOpen(io[s])) = 1 /\ One(IsOpen(i)) = 1
    BY <1>0, <1>1 DEF One, IsOpen
<1>5. Cached(io') = Cached(io) /\ Opened(io') = Opened(io) /\ ~Admitting(r)'
    BY <1>1, <1>2, <1>3, <1>4
<1>6. Drop(r, req[r], budget)
    BY <1>r DEF Release
<1>7. /\ budget.pending = budget.pending - Weight(req[r]) + Weight(req[r])
      /\ budget.active = budget.active - One(req[r].acquired) + One(req[r].acquired)
      /\ Weight(req[r]) <= Weight(req[r]) /\ One(req[r].acquired) <= One(req[r].acquired)
    <2>1. Weight(req[r]) \in Nat /\ One(req[r].acquired) \in Nat
        BY <1>2 DEF Weight, Request, One
    <2>2. budget.pending \in Nat /\ budget.active \in Nat
        BY <1>0 DEF Budgets
    <2>3. QED
        BY <2>1, <2>2
<1>8. QED
    BY <1>0, <1>2, <1>3, <1>5, <1>6, <1>7, DropBudget

LEMMA InstalledIsUser ==
  ASSUME Inv, NEW x \in Sessions, session[x].state = "installed"
  PROVE  session[x].refs >= 1 /\ session[x] \in SessionRecords
<1>1. session[x].refs = Cardinality(RequestsOf(x)) + 1
    BY DEF Inv, SessionsInv, One
<1>2. Cardinality(RequestsOf(x)) \in Nat
    BY FiniteAssumption, FS_Subset, FS_CardinalityType DEF RequestsOf
<1>3. QED
    BY <1>1, <1>2 DEF Inv, TypeOK, SessionRecords

LEMMA LoadBudget ==
  ASSUME Inv, BudgetInv, NEW s \in Streams, NEW r \in Requests, NEW size \in Sizes, Load(s, r, size)
  PROVE  BudgetInv'
<1> DEFINE x == SessionOf[s]
           i == [at |-> "admission", of |-> r, want |-> size, cache |-> 0, loads |-> io[s].loads + 1]
           q == [Freed EXCEPT !.refs = 1, !.session = x]
<1>0. /\ io[s] \in StreamRecords /\ io[s].at = "idle" /\ budget \in Budgets /\ req[r] = Freed
      /\ x \in Sessions /\ session[x].state = "installed" /\ req \in [Requests -> Request]
      /\ session \in [Sessions -> SessionRecords]
    BY NamesAssumption DEF Inv, TypeOK, StreamRecords, Budgets, Load, BudgetInv, Fresh, SessionsInv,
                           SessionRecords
<1>1. i \in StreamRecords /\ io' = [io EXCEPT ![s] = i] /\ i.cache = 0 /\ i.at = "admission" /\ i.of = r
    BY <1>0, SizesAssumption DEF Load, StreamRecords, Sizes
<1>2. /\ q \in Request /\ q.refs >= 1 /\ Clean(q) /\ Weight(q) = 0 /\ ~q.acquired /\ Whole(q)
    <2>1. q \in Request
        BY <1>0, FreedIsRequest DEF Request
    <2>2. /\ q.refs = 1 /\ q.pending = 0 /\ q.buffer = 0
          /\ q.acquired = FALSE /\ q.success = FALSE
        BY DEF Freed
    <2>3. QED
        BY <2>1, <2>2 DEF Clean, Weight, Whole
<1>3. Weight(Freed) = 0 /\ ~Freed.acquired
    BY DEF Weight, Freed
<1>4. /\ req' = [req EXCEPT ![r] = q]
      /\ session' = [session EXCEPT ![x].refs = @ + 1]
      /\ budget' = [budget EXCEPT !.buffered = Less(@, io[s].cache)]
    BY DEF Load
<1> HIDE DEF i, q, x
<1>5. /\ CachesFresh'
      /\ Cached(io') = Cached(io) - io[s].cache + i.cache
      /\ Cached(io) \in Nat /\ io[s].cache \in Nat /\ io[s].cache <= Cached(io)
      /\ Opened(io') = Opened(io) - One(IsOpen(io[s])) + One(IsOpen(i))
      /\ Opened(io) \in Nat
      /\ \A y \in Requests : Admitting(y)' => Admitting(y) \/ y = r
    BY <1>1, StreamTurns
<1>6. One(IsOpen(io[s])) = 1 /\ One(IsOpen(i)) = 1
    BY <1>0, <1>1 DEF One, IsOpen
<1>7. Reserved(req') = Reserved(req)
    <2>1. /\ Reserved(req') = Reserved(req) - Weight(req[r]) + Weight(q)
          /\ Reserved(req) \in Nat
        BY <1>0, <1>2, <1>4, ReservedChanges
    <2>2. QED
        BY <1>0, <1>2, <1>3, <2>1
<1>8. Slots(req') = Slots(req)
    <2>1. /\ Slots(req') = Slots(req) - One(req[r].acquired) + One(q.acquired)
          /\ Slots(req) \in Nat
        BY <1>0, <1>2, <1>4, SlotsChange
    <2>2. QED
        BY <1>0, <1>2, <1>3, <2>1 DEF One
<1>9. Users(session') = Users(session)
    <2> DEFINE y == [session[x] EXCEPT !.refs = @ + 1]
    <2>1. session[x].refs >= 1 /\ session[x] \in SessionRecords
        BY <1>0, InstalledIsUser
    <2>2. session' = [session EXCEPT ![x] = y]
        BY <1>0, <1>4
    <2>3. y \in SessionRecords /\ y.refs > 0
        BY <2>1 DEF SessionRecords
    <2> HIDE DEF y
    <2>4. /\ Users(session') = Users(session) - One(session[x].refs > 0) + One(y.refs > 0)
          /\ Users(session) \in Nat
        BY <1>0, <2>2, <2>3, UsersChange
    <2>5. session[x].refs > 0
        BY <2>1 DEF SessionRecords
    <2>6. QED
        BY <2>3, <2>4, <2>5 DEF One
<1>10. /\ budget'.pending = budget.pending /\ budget'.active = budget.active
       /\ budget'.open = budget.open /\ budget'.refs = budget.refs
       /\ budget'.buffered = Less(budget.buffered, io[s].cache)
    BY <1>0, <1>4 DEF Budgets
<1>11. budget.buffered = Cached(io) /\ budget.open = Opened(io)
    BY DEF BudgetInv, Counters
<1>12. budget'.buffered = Cached(io') /\ budget'.open = Opened(io')
    BY <1>1, <1>5, <1>6, <1>10, <1>11 DEF Less
<1>13. Counters'
    BY <1>7, <1>8, <1>9, <1>10, <1>12 DEF BudgetInv, Counters
<1>14. Limits'
    <2>1. budget'.buffered <= budget.buffered /\ budget'.buffered \in Int
        BY <1>1, <1>5, <1>11, <1>12
    <2>2. MaxBuffered \in Nat /\ budget.pending \in Nat /\ budget.buffered \in Nat
        BY <1>0, SizesAssumption DEF Budgets
    <2>3. QED
        BY <1>10, <2>1, <2>2 DEF BudgetInv, Limits
<1>15. Fresh' /\ Wholes'
    BY <1>2, <1>4, <1>5, FreshAgain
<1>16. QED
    BY <1>13, <1>14, <1>15 DEF BudgetInv

LEMMA AdmitBudget ==
  ASSUME Inv, BudgetInv, NEW s \in Streams, Admit(s)
  PROVE  BudgetInv'
<1> DEFINE r == io[s].of
           n == Admitted(io[s].want)
           i == [io[s] EXCEPT !.at = "proxy", !.want = 0]
           q == [req[r] EXCEPT !.acquired = TRUE, !.limit = n, !.pending = n, !.buffer = n]
<1>0. /\ io[s] \in StreamRecords /\ io[s].at = "admission" /\ budget \in Budgets
      /\ req \in [Requests -> Request]
    BY DEF Inv, TypeOK, StreamRecords, Budgets, Admit
<1>1. r \in Requests /\ req[r] \in Request /\ req[r].refs >= 1
    BY <1>0, StreamRequest, HolderHasReference DEF Busy, Inv
<1>2. n \in Nat
    BY AdmittedIsSize DEF Inv, TypeOK, PlacesInv, Admit
<1>3. /\ req' = [req EXCEPT ![r] = q] /\ io' = [io EXCEPT ![s] = i]
      /\ budget' = [budget EXCEPT !.active = @ + 1, !.pending = @ + 2 * n]
      /\ UNCHANGED session
      /\ budget.active < MaxInflight /\ n <= Available \div 2
    BY <1>0 DEF Admit, StreamRecords, MayAdmit
<1>4. /\ i \in StreamRecords /\ i.cache = io[s].cache /\ i.at = "proxy" /\ io[s].cache = 0
    BY <1>0 DEF StreamRecords, BudgetInv, Fresh, CachesFresh
<1> HIDE DEF n, i
<1>5. Clean(req[r])
    BY <1>0, <1>1 DEF BudgetInv, Fresh, Admitting
<1>6. /\ q \in Request /\ q.refs >= 1 /\ q.pending = n /\ q.buffer = n /\ q.acquired /\ ~q.success
    BY <1>1, <1>2, <1>5 DEF Request, Clean
<1> HIDE DEF q
<1>7. Whole(q) /\ Weight(q) = 2 * n /\ Weight(req[r]) = 0 /\ ~req[r].acquired
    BY <1>2, <1>5, <1>6 DEF Whole, Weight, Clean
<1>8. /\ CachesFresh'
      /\ Cached(io') = Cached(io) - io[s].cache + i.cache /\ Cached(io) \in Nat
      /\ Opened(io') = Opened(io) - One(IsOpen(io[s])) + One(IsOpen(i)) /\ Opened(io) \in Nat
      /\ \A x \in Requests : Admitting(x)' => Admitting(x) /\ x # r
    BY <1>4, <1>3, StreamTurns
<1>9. One(IsOpen(io[s])) = 1 /\ One(IsOpen(i)) = 1
    BY <1>0, <1>4 DEF One, IsOpen
<1>10. /\ Reserved(req') = Reserved(req) - Weight(req[r]) + Weight(q) /\ Reserved(req) \in Nat
    BY <1>0, <1>1, <1>3, <1>6, ReservedChanges
<1>11. /\ Slots(req') = Slots(req) - One(req[r].acquired) + One(q.acquired) /\ Slots(req) \in Nat
    BY <1>0, <1>1, <1>3, <1>6, SlotsChange
<1>12. One(req[r].acquired) = 0 /\ One(q.acquired) = 1
    BY <1>6, <1>7 DEF One
<1>13. /\ budget'.pending = budget.pending + 2 * n /\ budget'.active = budget.active + 1
       /\ budget'.open = budget.open /\ budget'.refs = budget.refs
       /\ budget'.buffered = budget.buffered
    BY <1>0, <1>3 DEF Budgets
<1>14. Counters'
    <2>1. budget'.pending = Reserved(req')
        BY <1>2, <1>7, <1>10, <1>13 DEF BudgetInv, Counters
    <2>2. budget'.active = Slots(req')
        BY <1>11, <1>12, <1>13 DEF BudgetInv, Counters
    <2>3. budget'.buffered = Cached(io') /\ budget'.open = Opened(io')
        BY <1>4, <1>8, <1>9, <1>13 DEF BudgetInv, Counters
    <2>4. QED
        BY <1>3, <1>13, <2>1, <2>2, <2>3 DEF BudgetInv, Counters
<1>15. Limits'
    <2>1. MaxBuffered \in Nat /\ MaxInflight \in Nat
        BY SizesAssumption, LimitsAssumption
    <2>2. budget.pending \in Nat /\ budget.buffered \in Nat /\ budget.active \in Nat
        BY <1>0 DEF Budgets
    <2>3. 2 * n <= MaxBuffered - budget.buffered - budget.pending
        BY <1>2, <1>3, <2>1, <2>2 DEF Available
    <2>4. budget'.buffered + budget'.pending <= MaxBuffered
        BY <1>2, <1>13, <2>1, <2>2, <2>3
    <2>5. budget'.active <= MaxInflight
        BY <1>3, <1>13, <2>1, <2>2
    <2>6. QED
        BY <2>4, <2>5 DEF Limits
<1>16. Fresh' /\ Wholes'
    BY <1>1, <1>3, <1>6, <1>7, <1>8, FreshAgain
<1>17. QED
    BY <1>14, <1>15, <1>16 DEF BudgetInv

LEMMA InstallResponseBudget ==
  ASSUME Inv, BudgetInv, NEW s \in Streams, InstallResponse(s)
  PROVE  BudgetInv'
<1>r. PICK r \in Requests : r = io[s].of
    BY StreamRequest DEF Busy, InstallResponse, Inv
<1> DEFINE n == req[r].data
           kept == IF n > 0 THEN 0 ELSE req[r].pending
           i == [io[s] EXCEPT !.at = "release", !.cache = n]
           q == [req[r] EXCEPT !.data = 0, !.pending = kept]
<1>0. /\ io[s] \in StreamRecords /\ io[s].at = "answer" /\ budget \in Budgets
      /\ req \in [Requests -> Request]
    BY DEF Inv, TypeOK, StreamRecords, Budgets, InstallResponse
<1>1. req[r] \in Request /\ req[r].refs >= 1 /\ Whole(req[r])
    BY <1>0, <1>r, StreamRequest, HolderHasReference DEF Busy, Inv, BudgetInv, Wholes
<1>2. /\ n \in Nat /\ req[r].pending \in Nat /\ kept \in Nat /\ req[r].buffer \in Nat
      /\ req[r].limit \in Nat
    BY <1>1 DEF Request
<1>3. /\ req' = [req EXCEPT ![r] = q] /\ io' = [io EXCEPT ![s] = i]
      /\ budget' = [budget EXCEPT !.pending = @ - n, !.buffered = @ + n]
      /\ UNCHANGED session
      /\ n > 0 => req[r].pending = n /\ n <= budget.pending /\ n <= MaxBuffered - budget.buffered
    BY <1>0, <1>r DEF InstallResponse, StreamRecords
<1>4. /\ i \in StreamRecords /\ i.cache = n /\ i.at = "release" /\ io[s].cache = 0
    BY <1>0, <1>2 DEF StreamRecords, BudgetInv, Fresh, CachesFresh
<1>5. kept = req[r].pending - n
    BY <1>2, <1>3
<1> HIDE DEF n, i, kept
<1>6. /\ q \in Request /\ q.refs >= 1 /\ q.pending = kept /\ q.buffer = req[r].buffer
      /\ q.acquired = req[r].acquired /\ Whole(q)
    <2>1. q \in Request
        BY <1>1, <1>2 DEF Request
    <2>2. /\ q.refs = req[r].refs /\ q.pending = kept /\ q.buffer = req[r].buffer
          /\ q.acquired = req[r].acquired /\ q.success = req[r].success /\ q.fetch = req[r].fetch
          /\ q.done = req[r].done /\ q.abort = req[r].abort /\ q.data = 0 /\ q.limit = req[r].limit
        BY <1>1 DEF Request
    <2>3. QED
        BY <1>1, <1>2, <2>1, <2>2 DEF Whole
<1> HIDE DEF q
<1>7. Weight(q) = Weight(req[r]) - n
    BY <1>2, <1>5, <1>6 DEF Weight
<1>8. /\ CachesFresh'
      /\ Cached(io') = Cached(io) - io[s].cache + i.cache /\ Cached(io) \in Nat
      /\ Opened(io') = Opened(io) - One(IsOpen(io[s])) + One(IsOpen(i)) /\ Opened(io) \in Nat
      /\ \A x \in Requests : Admitting(x)' => Admitting(x) /\ x # r
    BY <1>r, <1>4, <1>3, StreamTurns
<1>9. One(IsOpen(io[s])) = 1 /\ One(IsOpen(i)) = 1
    BY <1>0, <1>4 DEF One, IsOpen
<1>10. /\ Reserved(req') = Reserved(req) - Weight(req[r]) + Weight(q) /\ Reserved(req) \in Nat
       /\ Weight(req[r]) <= Reserved(req) /\ Weight(req[r]) \in Nat
    <2>1. Weight(req[r]) \in Nat
        BY <1>2 DEF Weight
    <2>2. QED
        BY <1>0, <1>1, <1>3, <1>6, <2>1, ReservedChanges
<1>11. /\ Slots(req') = Slots(req) - One(req[r].acquired) + One(q.acquired) /\ Slots(req) \in Nat
    BY <1>0, <1>1, <1>3, <1>6, SlotsChange
<1>12. One(q.acquired) = One(req[r].acquired) /\ One(req[r].acquired) \in Nat
    BY <1>6 DEF One
<1>13. /\ budget'.pending = budget.pending - n /\ budget'.active = budget.active
       /\ budget'.open = budget.open /\ budget'.refs = budget.refs
       /\ budget'.buffered = budget.buffered + n
    BY <1>0, <1>3 DEF Budgets
<1>14. Counters'
    <2>1. budget'.pending = Reserved(req')
        BY <1>2, <1>7, <1>10, <1>13 DEF BudgetInv, Counters
    <2>2. budget'.active = Slots(req')
        BY <1>11, <1>12, <1>13 DEF BudgetInv, Counters
    <2>3. budget'.buffered = Cached(io') /\ budget'.open = Opened(io')
        BY <1>2, <1>4, <1>8, <1>9, <1>13 DEF BudgetInv, Counters
    <2>4. QED
        BY <1>3, <1>13, <2>1, <2>2, <2>3 DEF BudgetInv, Counters
<1>15. Limits'
    <2>1. budget.pending \in Nat /\ budget.buffered \in Nat /\ budget.active \in Nat
        BY <1>0 DEF Budgets
    <2>2. budget'.buffered + budget'.pending = budget.buffered + budget.pending
        BY <1>2, <1>13, <2>1
    <2>3. QED
        BY <1>13, <2>2 DEF BudgetInv, Limits
<1>16. Fresh' /\ Wholes'
    BY <1>1, <1>3, <1>6, <1>8, FreshAgain
<1>17. QED
    BY <1>14, <1>15, <1>16 DEF BudgetInv

(* When the last session has left the budget, nobody holds anything of it. *)
LEMMA NobodyLeft ==
  ASSUME Inv, BudgetInv, budget.refs = 0
  PROVE  Reserved(req) = 0 /\ Slots(req) = 0 /\ Cached(io) = 0 /\ Opened(io) = 0
<1>1. \A x \in Sessions : ~ (session[x].refs > 0)
    <2> DEFINE U == {x \in Sessions : session[x].refs > 0}
    <2>1. IsFiniteSet(U)
        BY FiniteAssumption, FS_Subset
    <2>2. Cardinality(U) = 0
        BY DEF BudgetInv, Counters, Users
    <2>3. U = {}
        <3> HIDE DEF U
        <3>1. QED
            BY <2>1, <2>2, FS_EmptySet
    <2>4. QED
        BY <2>3
<1>2. \A r \in Requests : req[r] = Freed
    <2> SUFFICES ASSUME NEW r \in Requests PROVE req[r] = Freed
        OBVIOUS
    <2>1. req[r].refs \in Nat
        BY DEF Inv, TypeOK, Request
    <2>2. ~ (req[r].refs >= 1)
        <3>1. SUFFICES ASSUME req[r].refs >= 1 PROVE FALSE
            OBVIOUS
        <3>2. req[r].session \in Sessions /\ session[req[r].session].refs >= 1
            BY <3>1, KeptSession DEF Inv
        <3>3. session[req[r].session].refs \in Nat
            BY <3>2 DEF Inv, TypeOK
        <3>4. QED
            BY <1>1, <3>2, <3>3
    <2>3. QED
        BY <2>1, <2>2 DEF BudgetInv, Fresh
<1>3. \A s \in Streams : io[s].at \in {"new", "shut"} /\ io[s].cache = 0
    <2> SUFFICES ASSUME NEW s \in Streams PROVE io[s].at \in {"new", "shut"} /\ io[s].cache = 0
        OBVIOUS
    <2>1. io[s].at \in {"new", "shut"}
        <3>1. SUFFICES ASSUME io[s].at \notin {"new", "shut"} PROVE FALSE
            OBVIOUS
        <3>2. SessionOf[s] \in Sessions /\ session[SessionOf[s]].state = "installed"
            BY <3>1, NamesAssumption DEF Inv, SessionsInv
        <3>3. session[SessionOf[s]].refs >= 1 /\ session[SessionOf[s]].refs \in Nat
            BY <3>2, InstalledIsUser DEF SessionRecords
        <3>4. QED
            BY <1>1, <3>2, <3>3
    <2>2. QED
        BY <2>1 DEF BudgetInv, Fresh, CachesFresh
<1>4. Reserved(req) = 0
    <2>1. \A r \in Requests : [x \in Requests |-> Weight(req[x])][r] = 0
        BY <1>2 DEF Weight, Freed
    <2>2. QED
        BY <2>1, TotalOfZeros DEF Reserved
<1>5. Slots(req) = 0
    <2>1. {r \in Requests : req[r].acquired} = {}
        BY <1>2 DEF Freed
    <2>2. QED
        BY <2>1, FS_EmptySet DEF Slots
<1>6. Cached(io) = 0
    <2>1. \A s \in Streams : [x \in Streams |-> io[x].cache][s] = 0
        BY <1>3
    <2>2. QED
        BY <2>1, TotalOfZeros DEF Cached
<1>7. Opened(io) = 0
    <2>1. {s \in Streams : io[s].at \notin {"new", "shut"}} = {}
        BY <1>3
    <2>2. QED
        BY <2>1, FS_EmptySet DEF Opened
<1>8. QED
    BY <1>4, <1>5, <1>6, <1>7

LEMMA OwnerBudget ==
  ASSUME Inv, BudgetInv, NEW x \in Sessions, Install(x) \/ Uninstall(x)
  PROVE  BudgetInv'
<1>0. /\ session \in [Sessions -> SessionRecords] /\ budget \in Budgets
      /\ session[x] \in SessionRecords /\ UNCHANGED <<req, io>>
    BY DEF Inv, TypeOK, SessionRecords, Budgets, Install, Uninstall
<1>1. /\ CachesFresh' /\ Cached(io') = Cached(io) /\ Opened(io') = Opened(io)
      /\ \A y \in Requests : Admitting(y)' => Admitting(y)
    BY <1>0, StreamsStay
<1>2. Fresh' /\ Wholes'
    BY <1>0, <1>1, FreshStays
<1>3. budget.refs = Users(session) /\ budget.refs \in Nat
    BY <1>0 DEF BudgetInv, Counters, Budgets
<1>4. CASE Install(x)
    <2> DEFINE y == [refs |-> 1, state |-> "installed"]
    <2>1. session' = [session EXCEPT ![x] = y] /\ y \in SessionRecords /\ y.refs > 0
        BY <1>4 DEF Install, SessionRecords
    <2> HIDE DEF y
    <2>2. session[x].refs = 0
        <3>1. session[x].state = "new" /\ RequestsOf(x) = {}
            BY <1>4 DEF Install, Inv, SessionsInv
        <3>2. session[x].refs = Cardinality(RequestsOf(x)) + One(session[x].state = "installed")
            BY DEF Inv, SessionsInv
        <3>3. QED
            BY <3>1, <3>2, FS_EmptySet DEF One
    <2>3. Users(session') = Users(session) + 1
        <3>1. /\ Users(session') = Users(session) - One(session[x].refs > 0) + One(y.refs > 0)
              /\ Users(session) \in Nat
            BY <1>0, <2>1, UsersChange
        <3>2. QED
            BY <2>1, <2>2, <3>1 DEF One
    <2>4. CASE budget.refs > 0
        <3>1. budget' = [budget EXCEPT !.refs = @ + 1]
            BY <1>4, <2>4 DEF Install
        <3>2. /\ budget'.refs = budget.refs + 1 /\ budget'.pending = budget.pending
              /\ budget'.active = budget.active /\ budget'.buffered = budget.buffered
              /\ budget'.open = budget.open
            BY <1>0, <3>1 DEF Budgets
        <3>3. Counters' /\ Limits'
            BY <1>0, <1>1, <1>3, <2>3, <3>2 DEF BudgetInv, Counters, Limits
        <3>4. QED
            BY <1>2, <3>3 DEF BudgetInv
    <2>5. CASE budget.refs = 0
        <3>1. budget' = [refs |-> 1, active |-> 0, open |-> 0, pending |-> 0, buffered |-> 0]
            BY <1>4, <2>5 DEF Install
        <3>2. Reserved(req) = 0 /\ Slots(req) = 0 /\ Cached(io) = 0 /\ Opened(io) = 0
            BY <2>5, NobodyLeft
        <3>3. Counters'
            BY <1>0, <1>1, <1>3, <2>3, <2>5, <3>1, <3>2 DEF Counters
        <3>4. Limits'
            BY <3>1, SizesAssumption, LimitsAssumption DEF Limits
        <3>5. QED
            BY <1>2, <3>3, <3>4 DEF BudgetInv
    <2>6. QED
        BY <1>3, <2>4, <2>5
<1>5. CASE Uninstall(x)
    <2> DEFINE y == [refs |-> session[x].refs - 1, state |-> "freed"]
    <2>1. session[x].refs >= 1 /\ session[x].refs \in Nat
        BY <1>0, <1>5, InstalledIsUser DEF Uninstall, SessionRecords
    <2>2. session' = [session EXCEPT ![x] = y] /\ y \in SessionRecords /\ y.refs = session[x].refs - 1
        BY <1>0, <1>5, <2>1 DEF Uninstall, SessionRecords
    <2> HIDE DEF y
    <2>3. /\ Users(session') = Users(session) - One(session[x].refs > 0) + One(y.refs > 0)
          /\ Users(session) \in Nat /\ One(session[x].refs > 0) <= Users(session)
        BY <1>0, <2>2, UsersChange
    <2>4. One(session[x].refs > 0) = 1 /\ One(y.refs > 0) = One(session[x].refs # 1)
        BY <2>1, <2>2 DEF One
    <2>5. budget' = IF session[x].refs = 1 THEN [budget EXCEPT !.refs = Less(budget.refs, 1)] ELSE budget
        BY <1>5 DEF Uninstall
    <2>6. /\ budget'.pending = budget.pending /\ budget'.active = budget.active
          /\ budget'.buffered = budget.buffered /\ budget'.open = budget.open
          /\ budget'.refs = IF session[x].refs = 1 THEN Less(budget.refs, 1) ELSE budget.refs
        BY <1>0, <2>5 DEF Budgets
    <2>7. budget'.refs = Users(session')
        BY <1>3, <2>3, <2>4, <2>6 DEF Less, One
    <2>8. Counters' /\ Limits'
        BY <1>0, <1>1, <2>6, <2>7 DEF BudgetInv, Counters, Limits
    <2>9. QED
        BY <1>2, <2>8 DEF BudgetInv
<1>6. QED
    BY <1>4, <1>5

LEMMA BudgetInit == Init => BudgetInv
<1> SUFFICES ASSUME Init PROVE BudgetInv
    OBVIOUS
<1> USE DEF Init
<1>1. /\ req = [r \in Requests |-> Freed] /\ io = [s \in Streams |-> NewStream]
      /\ budget = [refs |-> 0, active |-> 0, open |-> 0, pending |-> 0, buffered |-> 0]
      /\ session = [x \in Sessions |-> [refs |-> 0, state |-> "new"]]
    OBVIOUS
<1>2. Reserved(req) = 0
    <2>1. \A r \in Requests : [x \in Requests |-> Weight(req[x])][r] = 0
        BY <1>1 DEF Weight, Freed
    <2>2. QED
        BY <2>1, TotalOfZeros DEF Reserved
<1>3. Slots(req) = 0
    <2>1. {r \in Requests : req[r].acquired} = {}
        BY <1>1 DEF Freed
    <2>2. QED
        BY <2>1, FS_EmptySet DEF Slots
<1>4. Cached(io) = 0
    <2>1. \A s \in Streams : [x \in Streams |-> io[x].cache][s] = 0
        BY <1>1 DEF NewStream
    <2>2. QED
        BY <2>1, TotalOfZeros DEF Cached
<1>5. Opened(io) = 0
    <2>1. {s \in Streams : io[s].at \notin {"new", "shut"}} = {}
        BY <1>1 DEF NewStream
    <2>2. QED
        BY <2>1, FS_EmptySet DEF Opened
<1>6. Users(session) = 0
    <2>1. {x \in Sessions : session[x].refs > 0} = {}
        BY <1>1
    <2>2. QED
        BY <2>1, FS_EmptySet DEF Users
<1>7. Counters /\ Limits
    BY <1>1, <1>2, <1>3, <1>4, <1>5, <1>6, SizesAssumption, LimitsAssumption DEF Counters, Limits
<1>8. Fresh /\ Wholes
    BY <1>1 DEF Fresh, Wholes, Whole, Freed, Admitting, NewStream, CachesFresh, Clean
<1>9. QED
    BY <1>7, <1>8 DEF BudgetInv

LEMMA BudgetStep == Inv /\ BudgetInv /\ [Next]_vars => BudgetInv'
<1> SUFFICES ASSUME Inv, BudgetInv, [Next]_vars PROVE BudgetInv'
    OBVIOUS
<1>1. CASE \E x \in Sessions : Install(x) \/ Uninstall(x)
    BY <1>1, OwnerBudget
<1>2. ASSUME NEW s \in Streams, Open(s) \/ Close(s) \/ Worker(s) PROVE BudgetInv'
    BY <1>2, OpenBudget, CloseBudget, AdmitBudget, WaitingBudget, WorkerBudget,
       InstallResponseBudget, ReleaseBudget DEF Worker
<1>3. CASE \E s \in Streams, r \in Requests, size \in Sizes : Load(s, r, size)
    BY <1>3, LoadBudget
<1>4. CASE MainThread
    BY <1>4, MainWorksBudget, CloseTakesBudget, SchedulingBudget, EndBudget DEF MainThread
<1>5. CASE Browser
    <2>1. ASSUME NEW r \in Requests, NEW h \in Headers, NEW n \in 0 .. RangeMax + 1,
                 NEW copied \in BOOLEAN, OnSuccess(r, h, n, copied)
          PROVE  BudgetInv'
        <3>1. n \in Nat
            BY SizesAssumption
        <3>2. QED
            BY <2>1, <3>1, OnSuccessBudget
    <2>2. QED
        BY <1>5, <2>1, CallbackBudget DEF Browser, Ends
<1>6. CASE UNCHANGED vars
    <2>1. UNCHANGED <<req, io, budget, session>>
        BY <1>6 DEF vars
    <2>2. QED
        BY <2>1, StreamsStay, UnchangedSection
<1>7. QED
    BY <1>1, <1>2, <1>3, <1>4, <1>5, <1>6 DEF Next, Finished

LEMMA BudgetInvHolds == Spec => [](Inv /\ BudgetInv)
<1>1. Init => Inv /\ BudgetInv
    BY InitInv, BudgetInit
<1>2. Inv /\ BudgetInv /\ [Next]_vars => (Inv /\ BudgetInv)'
    BY StepTypeOK, StepReferences, StepPlaces, StepFetch, StepSessions, BudgetStep DEF Inv
<1>3. QED
    BY <1>1, <1>2, PTL DEF Spec

(* The sums of the budget are those of the model.                          *)
LEMMA SumOfReservations ==
  ASSUME TypeOK
  PROVE  MapThenSumSet(LAMBDA r : req[r].pending + req[r].buffer, Requests) = Reserved(req)
<1> DEFINE w == [r \in Requests |-> Weight(req[r])]
           F(h) == [T \in SUBSET Requests |->
                      IF T = {} THEN 0
                      ELSE req[AnyOf(T)].pending + req[AnyOf(T)].buffer + h[T \ {AnyOf(T)}]]
           it == CHOOSE h : h = F(h)
<1>1. \A h : F(h) = Folded(w, Requests, h)
    <2> SUFFICES ASSUME NEW h PROVE F(h) = Folded(w, Requests, h)
        OBVIOUS
    <2>1. \A T \in SUBSET Requests : T # {} => AnyOf(T) \in Requests
        BY DEF AnyOf
    <2>2. \A T \in SUBSET Requests :
            T # {} => w[AnyOf(T)] = req[AnyOf(T)].pending + req[AnyOf(T)].buffer
        BY <2>1 DEF Weight
    <2> HIDE DEF w
    <2>3. QED
        BY <2>2 DEF Folded
<1>2. MapThenSumSet(LAMBDA r : req[r].pending + req[r].buffer, Requests) = it[Requests]
    BY Zenon DEF MapThenSumSet, MapThenFoldSet, AnyOf
<1>3. \A r \in Requests : w[r] \in Nat
    BY DEF TypeOK, Request, Weight
<1> HIDE DEF w, F, it
<1>4. \E h : h = F(h)
    <2>1. \E h : h = Folded(w, Requests, h)
        BY FiniteAssumption, <1>3, FoldedExists, Zenon
    <2>2. QED
        BY <1>1, <2>1, Zenon
<1>5. it = F(it)
    BY <1>4, Zenon DEF it
<1>6. it = Folded(w, Requests, it)
    BY <1>1, <1>5
<1>7. it[Requests] = Total(w, Requests)
    BY FiniteAssumption, <1>3, <1>6, SumIsTotal, Zenon
<1>8. QED
    BY <1>2, <1>7 DEF w, Reserved

LEMMA SumOfCaches ==
  ASSUME TypeOK
  PROVE  MapThenSumSet(LAMBDA s : io[s].cache, Streams) = Cached(io)
<1> DEFINE w == [s \in Streams |-> io[s].cache]
           F(h) == [T \in SUBSET Streams |->
                      IF T = {} THEN 0 ELSE io[AnyOf(T)].cache + h[T \ {AnyOf(T)}]]
           it == CHOOSE h : h = F(h)
<1>1. \A h : F(h) = Folded(w, Streams, h)
    <2> SUFFICES ASSUME NEW h PROVE F(h) = Folded(w, Streams, h)
        OBVIOUS
    <2>1. \A T \in SUBSET Streams : T # {} => AnyOf(T) \in Streams
        BY DEF AnyOf
    <2>2. \A T \in SUBSET Streams : T # {} => w[AnyOf(T)] = io[AnyOf(T)].cache
        BY <2>1
    <2> HIDE DEF w
    <2>3. QED
        BY <2>2 DEF Folded
<1>2. MapThenSumSet(LAMBDA s : io[s].cache, Streams) = it[Streams]
    BY Zenon DEF MapThenSumSet, MapThenFoldSet, AnyOf
<1>3. \A s \in Streams : w[s] \in Nat
    BY DEF TypeOK
<1> HIDE DEF w, F, it
<1>4. \E h : h = F(h)
    <2>1. \E h : h = Folded(w, Streams, h)
        BY FiniteAssumption, <1>3, FoldedExists, Zenon
    <2>2. QED
        BY <1>1, <2>1, Zenon
<1>5. it = F(it)
    BY <1>4, Zenon DEF it
<1>6. it = Folded(w, Streams, it)
    BY <1>1, <1>5
<1>7. it[Streams] = Total(w, Streams)
    BY FiniteAssumption, <1>3, <1>6, SumIsTotal, Zenon
<1>8. QED
    BY <1>2, <1>7 DEF w, Cached

(* The counters that all inputs of a session id share are exactly what     *)
(* their requests and streams hold, whatever was admitted, answered, given *)
(* up or freed in between, and they stay within the limits of memory and   *)
(* of fetches: nothing is given back twice, nothing is forgotten, and no   *)
(* clamp ever hides a difference (session_acquire_request,                 *)
(* session_release_pending, session_release_request, install_response).    *)
THEOREM BudgetExact == Spec => []BudgetIsExact
<1>1. Inv /\ BudgetInv => BudgetIsExact
    BY SumOfReservations, SumOfCaches DEF Inv, BudgetInv, Counters, Limits, Slots, Opened, BudgetIsExact
<1>2. QED
    BY BudgetInvHolds, <1>1, PTL

(* A success that a stream finds can be taken over: nobody gave it up, its *)
(* bytes are reserved still, and there is room for them in the cache       *)
(* (request_onsuccess, fetch_range, install_response).                     *)
THEOREM SuccessesAreWhole == Spec => []SuccessIsWhole
<1>1. Inv /\ BudgetInv => SuccessIsWhole
    <2> SUFFICES ASSUME Inv, BudgetInv, NEW s \in Streams, io[s].at = "answer", req[io[s].of].success
                 PROVE  LET q == req[io[s].of]
                        IN  /\ q.abort = "none" /\ q.data <= q.limit
                            /\ q.data > 0 => q.pending = q.data /\ budget.buffered + q.data <= MaxBuffered
        BY DEF SuccessIsWhole
    <2> DEFINE r == io[s].of
               q == req[r]
    <2>1. r \in Requests /\ q \in Request /\ req \in [Requests -> Request] /\ budget \in Budgets
        BY StreamRequest DEF Busy, Inv, TypeOK, Budgets
    <2>2. Whole(q)
        BY <2>1 DEF BudgetInv, Wholes
    <2>3. Weight(q) <= Reserved(req) /\ Reserved(req) \in Nat
        <3>1. req = [req EXCEPT ![r] = q]
            BY <2>1
        <3>2. QED
            BY <2>1, <3>1, ReservedChangesOf
    <2>4. q.data > 0 => budget.buffered + q.data <= MaxBuffered
        <3>1. q.data \in Nat /\ q.pending \in Nat /\ q.buffer \in Nat
            BY <2>1 DEF Request
        <3>2. q.data > 0 => q.data <= budget.pending
            BY <2>2, <2>3, <3>1 DEF Whole, Weight, BudgetInv, Counters
        <3>3. budget.buffered + budget.pending <= MaxBuffered
            BY DEF BudgetInv, Limits
        <3>4. budget.buffered \in Nat /\ budget.pending \in Nat /\ MaxBuffered \in Nat
            BY <2>1, SizesAssumption DEF Budgets
        <3>5. QED
            BY <3>1, <3>2, <3>3, <3>4
    <2>5. QED
        BY <2>2, <2>4 DEF Whole
<1>2. QED
    BY BudgetInvHolds, <1>1, PTL

=============================================================================
