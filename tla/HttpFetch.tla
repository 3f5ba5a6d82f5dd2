------------------------------ MODULE HttpFetch ------------------------------
(***************************************************************************)
(* A range of a file over HTTP in the Wasm build, from the thread that     *)
(* needs it to the browser's fetch and back (ffmpegkit_wasm_http_io.c).    *)
(*                                                                         *)
(* A stream (WasmHttpIO) allocates a request, is admitted to the budget    *)
(* that all inputs of a session share, asks the main runtime thread to     *)
(* start a fetch and waits, no longer than its timeout.  Only the main     *)
(* thread touches the fetch: the callbacks of the fetch and the tasks      *)
(* proxied to it run there, one at a time.  A stream that gives up leaves  *)
(* the request behind; it is freed by whoever drops the last reference.    *)
(*                                                                         *)
(* One action is one critical section of the mutex of a request, with the  *)
(* sections of the mutex of the budget nested in it.                       *)
(***************************************************************************)
EXTENDS Integers, FiniteSets, FiniteSetsExt

CONSTANTS
  Sessions,      \* FFmpegKitWasmHttpSession objects: the inputs of one session
  Streams,       \* WasmHttpIO objects, each used by one thread
  SessionOf,     \* the session a stream belongs to
  Requests,      \* addresses of FetchRequest objects
  NoRequest, NoSession,
  InitialSize,   \* WASM_HTTP_RANGE_INITIAL_SIZE
  RangeMax,      \* WASM_HTTP_RANGE_MAX_SIZE
  MaxBuffered,   \* WASM_HTTP_MAX_BUFFERED_BYTES
  MaxInflight,   \* WASM_HTTP_MAX_INFLIGHT
  MaxStreams,    \* WASM_HTTP_MAX_OPEN_STREAMS
  MaxLoads       \* bound: how many ranges a stream loads

ASSUME SizesAssumption ==
  /\ InitialSize \in Nat \ {0} /\ RangeMax \in Nat /\ MaxBuffered \in Nat
  /\ InitialSize <= RangeMax
  /\ 2 * RangeMax <= MaxBuffered          \* the _Static_assert
ASSUME LimitsAssumption == MaxInflight \in Nat \ {0} /\ MaxStreams \in Nat \ {0}
                            /\ MaxLoads \in Nat
ASSUME NamesAssumption == /\ NoRequest \notin Requests /\ NoSession \notin Sessions
                          /\ SessionOf \in [Streams -> Sessions]
ASSUME FiniteAssumption == IsFiniteSet(Requests) /\ IsFiniteSet(Sessions) /\ IsFiniteSet(Streams)

VARIABLES
  req,      \* the FetchRequest at each address
  tasks,    \* what is queued for the main thread, per request
  io,       \* the streams, and where their threads are
  main,     \* the task that runs on the main thread
  callback, \* the callback of a fetch that runs on the main thread
  budget,   \* WasmHttpBudget, shared by all sessions of one session id
  session   \* the FFmpegKitWasmHttpSession objects

vars == <<req, tasks, io, main, callback, budget, session>>

-----------------------------------------------------------------------------
(* enum FetchAbortReason: out of time (or interrupted), or the response is *)
(* refused (its size, its headers, no memory for it, no fetch).            *)
Reasons == {"none", "timeout", "refused"}

(* What has been captured of the response: an error is a status of 400 or  *)
(* more, a long one announces more than was asked for.                     *)
Headers == {"unseen", "good", "long", "error"}

Request ==
  [refs : Nat, session : Sessions \cup {NoSession},
   done : BOOLEAN, success : BOOLEAN, startComplete : BOOLEAN,
   closeRequested : BOOLEAN, closeEnqueued : BOOLEAN, closeComplete : BOOLEAN,
   fetchClosed : BOOLEAN, fetchHeld : BOOLEAN, acquired : BOOLEAN,
   headers : Headers, abort : Reasons,
   limit : Nat, pending : Nat, buffer : Nat, data : Nat,
   fetch : {"none", "live", "ended", "closed"}]

(* Nothing is at the address: no references, nothing reserved.             *)
Freed ==
  [refs |-> 0, session |-> NoSession,
   done |-> FALSE, success |-> FALSE, startComplete |-> FALSE,
   closeRequested |-> FALSE, closeEnqueued |-> FALSE, closeComplete |-> FALSE,
   fetchClosed |-> FALSE, fetchHeld |-> FALSE, acquired |-> FALSE,
   headers |-> "unseen", abort |-> "none",
   limit |-> 0, pending |-> 0, buffer |-> 0, data |-> 0, fetch |-> "none"]

(* The main thread, or its callback, is at no place.                       *)
Nowhere == [at |-> "idle", of |-> NoRequest]

NewStream == [at |-> "new", of |-> NoRequest, want |-> 0, cache |-> 0, loads |-> 0]

Init ==
  /\ req = [r \in Requests |-> Freed]
  /\ tasks = [r \in Requests |-> {}]
  /\ io = [s \in Streams |-> NewStream]
  /\ main = Nowhere
  /\ callback = Nowhere
  /\ budget = [refs |-> 0, active |-> 0, open |-> 0, pending |-> 0, buffered |-> 0]
  /\ session = [x \in Sessions |-> [refs |-> 0, state |-> "new"]]

-----------------------------------------------------------------------------
(* The budget. *)

Less(total, size) == IF size <= total THEN total - size ELSE 0

(* A range starts at the smallest size and doubles.                        *)
Sizes == {n \in InitialSize .. RangeMax : \E k \in 0 .. RangeMax : n = InitialSize * 2^k}

Available == MaxBuffered - budget.buffered - budget.pending

(* The loop of session_acquire_request: halve the range until it leaves    *)
(* room for the other streams and for the copy of the response.            *)
Admitted(size) ==
  LET streams == Max({budget.open, 1})
      Fits(n) == \/ n <= InitialSize
                 \/ n <= RangeMax \div streams /\ n <= Available \div 2
  IN  Max({n \in Sizes : n <= size /\ Fits(n)})

MayAdmit(size) ==
  /\ budget.active < MaxInflight
  /\ Admitted(size) <= Available \div 2

(* session_release_pending and session_release_request for all that the    *)
(* request still holds of the budget b.                                    *)
Refunded(q, b) ==
  [b EXCEPT !.pending = Less(Less(@, q.pending), q.buffer),
            !.active = IF q.acquired THEN Less(@, 1) ELSE @]

(* ffmpegkit_wasm_http_session_free: one reference of a session less; the  *)
(* last one gives up its share of the budget b.                            *)
LetGo(x, b) ==
  /\ session' = [session EXCEPT ![x].refs = @ - 1]
  /\ budget' = IF session[x].refs = 1 THEN [b EXCEPT !.refs = Less(@, 1)] ELSE b

(* request_release by someone who leaves the request as q and the budget   *)
(* as b.  The last one frees it.                                           *)
Drop(r, q, b) ==
  IF q.refs = 1
  THEN req' = [req EXCEPT ![r] = Freed] /\ LetGo(q.session, Refunded(q, b))
  ELSE /\ req' = [req EXCEPT ![r] = [q EXCEPT !.refs = @ - 1]]
       /\ budget' = b
       /\ UNCHANGED session

(* Sections that change a request without giving anything up.              *)
Becomes(r, q) == req' = [req EXCEPT ![r] = q] /\ UNCHANGED <<budget, session>>

-----------------------------------------------------------------------------
(* Sessions and streams. *)

(* ffmpegkit_wasm_http_install: takes the budget of its session id, or     *)
(* makes one.                                                              *)
Install(x) ==
  /\ session[x].state = "new"
  /\ session' = [session EXCEPT ![x] = [refs |-> 1, state |-> "installed"]]
  /\ budget' = IF budget.refs > 0 THEN [budget EXCEPT !.refs = @ + 1]
               ELSE [refs |-> 1, active |-> 0, open |-> 0, pending |-> 0, buffered |-> 0]
  /\ UNCHANGED <<req, tasks, io, main, callback>>

(* The owner of the input closed its streams and frees the session.        *)
Uninstall(x) ==
  /\ session[x].state = "installed"
  /\ \A s \in Streams : SessionOf[s] = x => io[s].at \in {"new", "shut"}
  /\ session' = [session EXCEPT ![x] = [refs |-> @.refs - 1, state |-> "freed"]]
  /\ budget' = IF session[x].refs = 1 THEN [budget EXCEPT !.refs = Less(@, 1)] ELSE budget
  /\ UNCHANGED <<req, tasks, io, main, callback>>

(* wasm_http_io_open as far as session_open_stream.                        *)
Open(s) ==
  /\ io[s].at = "new" /\ session[SessionOf[s]].state = "installed"
  /\ budget.open < MaxStreams
  /\ budget' = [budget EXCEPT !.open = @ + 1]
  /\ io' = [io EXCEPT ![s].at = "idle"]
  /\ UNCHANGED <<req, tasks, main, callback, session>>

(* wasm_http_io_free, when the stream is closed or could not be opened.    *)
Close(s) ==
  /\ io[s].at = "idle"
  /\ budget' = [budget EXCEPT !.buffered = Less(@, io[s].cache), !.open = Less(@, 1)]
  /\ io' = [io EXCEPT ![s] = [NewStream EXCEPT !.at = "shut"]]
  /\ UNCHANGED <<req, tasks, main, callback, session>>

(* Mutant of Load: the request does not keep its session.                  *)
LoadWithoutSession(s, r, size) ==
  /\ io[s].at = "idle" /\ req[r].refs = 0 /\ io[s].loads < MaxLoads
  /\ io' = [io EXCEPT ![s] = [at |-> "admission", of |-> r, want |-> size, cache |-> 0,
                                loads |-> io[s].loads + 1]]
  /\ budget' = [budget EXCEPT !.buffered = Less(@, io[s].cache)]
  /\ req' = [req EXCEPT ![r] = [Freed EXCEPT !.refs = 1, !.session = SessionOf[s]]]
  /\ UNCHANGED <<tasks, main, callback, session>>

(* wasm_http_read misses its cache: cache_clear, then load_range with a    *)
(* new request that keeps the session.                                     *)
Load(s, r, size) ==
  /\ io[s].at = "idle" /\ req[r].refs = 0 /\ io[s].loads < MaxLoads
  /\ io' = [io EXCEPT ![s] = [at |-> "admission", of |-> r, want |-> size, cache |-> 0,
                                loads |-> io[s].loads + 1]]
  /\ budget' = [budget EXCEPT !.buffered = Less(@, io[s].cache)]
  /\ req' = [req EXCEPT ![r] = [Freed EXCEPT !.refs = 1, !.session = SessionOf[s]]]
  /\ session' = [session EXCEPT ![SessionOf[s]].refs = @ + 1]
  /\ UNCHANGED <<tasks, main, callback>>

(* session_acquire_request, and what fetch_range notes of it.  Each byte   *)
(* is reserved twice, for the response and for its copy.                   *)
Admit(s) ==
  LET r == io[s].of
      n == Admitted(io[s].want)
  IN  /\ io[s].at = "admission" /\ MayAdmit(io[s].want)
      /\ budget' = [budget EXCEPT !.active = @ + 1, !.pending = @ + 2 * n]
      /\ req' = [req EXCEPT ![r] = [@ EXCEPT !.acquired = TRUE, !.limit = n,
                                             !.pending = n, !.buffer = n]]
      /\ io' = [io EXCEPT ![s].at = "proxy", ![s].want = 0]
      /\ UNCHANGED <<tasks, main, callback, session>>

(* Interrupted, or the deadline of the admission passes.                   *)
AdmissionFails(s) ==
  /\ io[s].at = "admission"
  /\ io' = [io EXCEPT ![s].at = "release"]
  /\ UNCHANGED <<req, tasks, main, callback, budget, session>>

(* request_proxy of request_start_fetch_on_main; the task has a reference. *)
Proxy(s) ==
  LET r == io[s].of
  IN  /\ io[s].at = "proxy"
      /\ Becomes(r, [req[r] EXCEPT !.refs = @ + 1])
      /\ tasks' = [tasks EXCEPT ![r] = @ \cup {"start"}]
      /\ io' = [io EXCEPT ![s].at = "wait"]
      /\ UNCHANGED <<main, callback>>

ProxyFails(s) ==
  /\ io[s].at = "proxy"
  /\ io' = [io EXCEPT ![s].at = "release"]
  /\ UNCHANGED <<req, tasks, main, callback, budget, session>>

-----------------------------------------------------------------------------
(* request_schedule_close leaves the request as ScheduledClose and, unless *)
(* one is there, queues a task with a reference of its own.  On the main   *)
(* thread a task that cannot be proxied becomes a timer.                   *)

NeedsClose(q) == ~q.closeEnqueued /\ ~q.fetchClosed /\ ~q.closeComplete

ScheduledClose(q) ==
  IF NeedsClose(q) THEN [q EXCEPT !.closeRequested = TRUE, !.closeEnqueued = TRUE,
                                  !.refs = @ + 1]
  ELSE [q EXCEPT !.closeRequested = TRUE]

(* Mutant of ScheduleClose: the fetch is closed on the spot.               *)
ScheduleCloseInline(r) ==
  /\ Becomes(r, [req[r] EXCEPT !.closeRequested = TRUE, !.fetchClosed = TRUE,
                                !.fetch = IF @ = "none" THEN @ ELSE "closed"])
  /\ UNCHANGED tasks

(* Mutant of ScheduleClose: the task that cannot be proxied is given up on *)
(* the main thread, too.                                                   *)
ScheduleCloseOrNot(r) ==
  \/ /\ Becomes(r, ScheduledClose(req[r]))
     /\ tasks' = [tasks EXCEPT ![r] = IF NeedsClose(req[r]) THEN @ \cup {"close"} ELSE @]
  \/ Becomes(r, [req[r] EXCEPT !.closeRequested = TRUE]) /\ UNCHANGED tasks

ScheduleClose(r) ==
  /\ Becomes(r, ScheduledClose(req[r]))
  /\ tasks' = [tasks EXCEPT ![r] = IF NeedsClose(req[r]) THEN @ \cup {"close"} ELSE @]

(* The same on a worker that cannot proxy: no task, whoever comes later    *)
(* sees the request for it.                                                *)
ScheduleCloseFails(r) ==
  /\ NeedsClose(req[r])
  /\ Becomes(r, [req[r] EXCEPT !.closeRequested = TRUE])
  /\ UNCHANGED tasks

-----------------------------------------------------------------------------
(* The wait of fetch_range.  The thread looks at least every 100 ms, so    *)
(* that it needs no notification to go on.                                 *)

Complete(q) == q.done /\ q.startComplete /\ q.closeComplete
Answered(q) == q.done /\ q.success

(* The loop ends: all is over, or the bytes are there.                     *)
WaitEnds(s) ==
  LET q == req[io[s].of]
  IN  /\ io[s].at = "wait" /\ (Complete(q) \/ Answered(q))
      /\ io' = [io EXCEPT ![s].at = "answer"]
      /\ UNCHANGED <<req, tasks, main, callback, budget, session>>

(* Interrupted or out of time: the reason is noted, the mutex released.    *)
WaitAborts(s) ==
  LET r == io[s].of
  IN  /\ io[s].at = "wait" /\ ~Complete(req[r]) /\ ~Answered(req[r])
      /\ Becomes(r, [req[r] EXCEPT !.abort = "timeout", !.success = FALSE, !.done = TRUE])
      /\ io' = [io EXCEPT ![s].at = "abandon"]
      /\ UNCHANGED <<tasks, main, callback>>

(* Done without success, and nobody has asked for the close yet.           *)
WaitSeesFailure(s) ==
  LET q == req[io[s].of]
  IN  /\ io[s].at = "wait" /\ ~Complete(q) /\ ~Answered(q)
      /\ q.done /\ ~q.closeRequested
      /\ io' = [io EXCEPT ![s].at = "retry"]
      /\ UNCHANGED <<req, tasks, main, callback, budget, session>>

WorkerCloses(s) ==
  LET r == io[s].of
  IN  /\ io[s].at \in {"abandon", "retry"}
      /\ ScheduleClose(r) \/ ScheduleCloseFails(r)
      /\ io' = [io EXCEPT ![s].at = IF @ = "retry" THEN "wait" ELSE "answer"]
      /\ UNCHANGED <<main, callback>>

(* The result of fetch_range; install_response rejects what does not fit   *)
(* the file or the request.                                                *)
Fails(s) ==
  /\ io[s].at = "answer"
  /\ io' = [io EXCEPT ![s].at = "release"]
  /\ UNCHANGED <<req, tasks, main, callback, budget, session>>

(* install_response takes the bytes over: from pending to the cache.       *)
InstallResponse(s) ==
  LET r == io[s].of
      n == req[r].data
  IN  /\ io[s].at = "answer" /\ req[r].success
      /\ n > 0 => /\ req[r].pending = n
                  /\ n <= budget.pending /\ n <= MaxBuffered - budget.buffered
      /\ budget' = [budget EXCEPT !.pending = @ - n, !.buffered = @ + n]
      /\ req' = [req EXCEPT ![r] = [req[r] EXCEPT !.data = 0, !.pending = IF n > 0 THEN 0 ELSE @]]
      /\ io' = [io EXCEPT ![s] = [@ EXCEPT !.at = "release", !.cache = n]]
      /\ UNCHANGED <<tasks, main, callback, session>>

(* request_release at the end of load_range.                               *)
Release(s) ==
  LET r == io[s].of
  IN  /\ io[s].at = "release"
      /\ Drop(r, req[r], budget)
      /\ io' = [io EXCEPT ![s] = [@ EXCEPT !.at = "idle", !.of = NoRequest, !.want = 0]]
      /\ UNCHANGED <<tasks, main, callback>>

-----------------------------------------------------------------------------
(* Tasks on the main thread. *)

(* Mutant of StartFetch: the fetch uses the reference of the task.         *)
StartFetchOnTaskReference(r) ==
  LET q == req[r]
  IN  /\ main = Nowhere /\ callback = Nowhere /\ "start" \in tasks[r]
      /\ tasks' = [tasks EXCEPT ![r] = @ \ {"start"}]
      /\ IF q.closeRequested
         THEN /\ Becomes(r, [q EXCEPT !.done = TRUE, !.success = FALSE, !.startComplete = TRUE])
              /\ main' = [at |-> "close", of |-> r]
         ELSE /\ Becomes(r, [q EXCEPT !.fetchHeld = TRUE])
              /\ main' = [at |-> "fetch", of |-> r]
      /\ UNCHANGED <<io, callback>>

(* request_start_fetch_on_main, first section: if the stream has given up  *)
(* there is nothing to start; otherwise the fetch gets a reference.        *)
StartFetch(r) ==
  LET q == req[r]
  IN  /\ main = Nowhere /\ callback = Nowhere /\ "start" \in tasks[r]
      /\ tasks' = [tasks EXCEPT ![r] = @ \ {"start"}]
      /\ IF q.closeRequested
         THEN /\ Becomes(r, [q EXCEPT !.done = TRUE, !.success = FALSE, !.startComplete = TRUE])
              /\ main' = [at |-> "close", of |-> r]
         ELSE /\ Becomes(r, [q EXCEPT !.refs = @ + 1, !.fetchHeld = TRUE])
              /\ main' = [at |-> "fetch", of |-> r]
      /\ UNCHANGED <<io, callback>>

(* emscripten_fetch, not yet returned.                                     *)
IssueFetch(r) ==
  /\ main = [at |-> "fetch", of |-> r]
  /\ Becomes(r, [req[r] EXCEPT !.fetch = "live"])
  /\ main' = [main EXCEPT !.at = "issued"]
  /\ UNCHANGED <<tasks, io, callback>>

(* Second section.  A close that was asked for in between is done now.     *)
FetchIssued(r) ==
  /\ main = [at |-> "issued", of |-> r] /\ callback = Nowhere
  /\ Becomes(r, [req[r] EXCEPT !.startComplete = TRUE])
  /\ main' = [main EXCEPT !.at = IF req[r].closeRequested THEN "close" ELSE "return"]
  /\ UNCHANGED <<tasks, io, callback>>

(* There is no fetch.  Its reference is dropped with the close.            *)
IssueFails(r) ==
  /\ main = [at |-> "fetch", of |-> r]
  /\ Becomes(r, [req[r] EXCEPT !.startComplete = TRUE, !.success = FALSE, !.done = TRUE,
                               !.abort = IF @ = "none" THEN "refused" ELSE @])
  /\ main' = [main EXCEPT !.at = "close"]
  /\ UNCHANGED <<tasks, io, callback>>

(* request_close_fetch_on_main; the queue is first in, first out.          *)
CloseTask(r) ==
  /\ main = Nowhere /\ callback = Nowhere /\ tasks[r] = {"close"}
  /\ tasks' = [tasks EXCEPT ![r] = {}]
  /\ main' = [at |-> "close", of |-> r]
  /\ UNCHANGED <<req, io, callback, budget, session>>

(* request_close_fetch, first section: take the fetch, once.               *)
CloseTakes(r) ==
  LET q == req[r]
      ended == IF q.done THEN q ELSE [q EXCEPT !.done = TRUE, !.success = FALSE]
      takes == q.fetch # "none" /\ ~q.fetchClosed
      at == CASE q.closeComplete \/ ~q.startComplete -> "return"
              [] OTHER -> IF takes THEN "destroy" ELSE "cleanup"
  IN  /\ main = [at |-> "close", of |-> r]
      /\ Becomes(r, CASE q.closeComplete -> q
                      [] ~q.closeComplete /\ ~q.startComplete -> ended
                      [] OTHER -> [ended EXCEPT !.fetchClosed = @ \/ takes])
      /\ main' = [main EXCEPT !.at = at]
      /\ UNCHANGED <<tasks, io, callback>>

(* emscripten_fetch_close calls onerror if the fetch was in flight.        *)
CloseAborts(r) ==
  LET q == req[r]
  IN  /\ main = [at |-> "destroy", of |-> r] /\ callback = Nowhere /\ q.fetch = "live"
      /\ Becomes(r, [q EXCEPT !.refs = @ + 1, !.success = FALSE, !.done = TRUE,
                              !.fetch = "ended"])
      /\ callback' = [at |-> "close", of |-> r]
      /\ UNCHANGED <<tasks, io, main>>

CloseDestroys(r) ==
  /\ main = [at |-> "destroy", of |-> r] /\ callback = Nowhere
  /\ Becomes(r, [req[r] EXCEPT !.fetch = "closed"])
  /\ main' = [main EXCEPT !.at = "cleanup"]
  /\ UNCHANGED <<tasks, io, callback>>

(* Mutant of CloseCleans: the reservation is given back but not forgotten. *)
CloseCleansButKeeps(r) ==
  LET q == [req[r] EXCEPT !.acquired = FALSE, !.closeComplete = TRUE, !.fetchHeld = FALSE]
      b == [budget EXCEPT !.pending = Less(@, req[r].buffer),
                          !.active = IF req[r].acquired THEN Less(@, 1) ELSE @]
  IN  /\ main = [at |-> "cleanup", of |-> r]
      /\ IF req[r].fetchHeld
         THEN Drop(r, q, b)
         ELSE req' = [req EXCEPT ![r] = q] /\ budget' = b /\ UNCHANGED session
      /\ main' = [main EXCEPT !.at = "return"]
      /\ UNCHANGED <<tasks, io, callback>>

(* Second section: the response and the slot are given back, and then the  *)
(* reference of the fetch.                                                 *)
CloseCleans(r) ==
  LET q == [req[r] EXCEPT !.buffer = 0, !.acquired = FALSE, !.closeComplete = TRUE,
                          !.fetchHeld = FALSE]
      b == [budget EXCEPT !.pending = Less(@, req[r].buffer),
                          !.active = IF req[r].acquired THEN Less(@, 1) ELSE @]
  IN  /\ main = [at |-> "cleanup", of |-> r]
      /\ IF req[r].fetchHeld
         THEN Drop(r, q, b)
         ELSE req' = [req EXCEPT ![r] = q] /\ budget' = b /\ UNCHANGED session
      /\ main' = [main EXCEPT !.at = "return"]
      /\ UNCHANGED <<tasks, io, callback>>

TaskReturns(r) ==
  /\ main = [at |-> "return", of |-> r]
  /\ Drop(r, req[r], budget)
  /\ main' = Nowhere
  /\ UNCHANGED <<tasks, io, callback>>

-----------------------------------------------------------------------------
(* Callbacks of the fetch: a section, perhaps a request to close, and the  *)
(* end; for all of it the callback has a reference.                        *)

(* request_capture_headers, when the browser shows h of the response.      *)
Captured(q, h) ==
  IF q.closeRequested \/ q.headers # "unseen" THEN q ELSE [q EXCEPT !.headers = h]

CallsBack(r) == main = Nowhere /\ callback = Nowhere /\ req[r].fetch = "live"

(* What makes a callback in between matter; the others change nothing.     *)
HasNews(q, h, tooMuch) ==
  \/ Captured(q, h) # q
  \/ tooMuch /\ q.abort = "none" /\ q.headers # "error" /\ ~q.closeRequested
  \/ q.closeRequested /\ NeedsClose(q)

(* request_onreadystatechange and request_onprogress.                      *)
OnPartial(r, h, tooMuch) ==
  LET q    == Captured(req[r], h)
      stop == q.abort # "none" \/ q.closeRequested \/ q.headers = "error"
      over == ~stop /\ (tooMuch \/ q.headers = "long")
  IN  /\ CallsBack(r) /\ HasNews(req[r], h, tooMuch)
      /\ Becomes(r, [q EXCEPT !.refs = @ + 1, !.abort = IF over THEN "refused" ELSE @])
      /\ callback' = [at |-> IF stop \/ over THEN "close" ELSE "return", of |-> r]
      /\ UNCHANGED <<tasks, io, main>>

(* Mutant of OnSuccess: does not look whether the stream has given up.     *)
OnSuccessAnyway(r, h, n, copied) ==
  LET q == Captured(req[r], h)
  IN  /\ CallsBack(r) /\ h # "error" /\ q.headers # "error"
      /\ Becomes(r, [q EXCEPT !.refs = @ + 1, !.fetch = "ended", !.done = TRUE,
                              !.success = TRUE])
      /\ callback' = [at |-> "close", of |-> r]
      /\ UNCHANGED <<tasks, io, main>>

(* request_onsuccess with a response of n units: what was reserved beyond  *)
(* it is given back; the copy may fail for want of memory.                 *)
OnSuccess(r, h, n, copied) ==
  LET q     == Captured(req[r], h)
      valid == q.abort = "none" /\ ~q.closeRequested
      over  == q.headers = "long" \/ (valid /\ (n > q.limit \/ n > q.pending \/ n > q.buffer))
      takes == valid /\ ~over /\ n > 0
      kept  == IF copied THEN n ELSE 0
      good  == valid /\ ~over /\ (n > 0 => copied)
      q2    == [q EXCEPT !.refs = @ + 1, !.fetch = "ended", !.done = TRUE, !.success = good,
                         !.abort = IF over \/ (takes /\ ~copied) THEN "refused" ELSE @,
                         !.pending = IF takes THEN kept ELSE @,
                         !.buffer = IF takes THEN n ELSE @,
                         !.data = IF takes THEN kept ELSE 0]
  IN  /\ CallsBack(r) /\ h # "error" /\ q.headers # "error"
      /\ req' = [req EXCEPT ![r] = q2]
      /\ budget' = [budget EXCEPT !.pending = Less(Less(@, q.pending - q2.pending),
                                                   q.buffer - q2.buffer)]
      /\ callback' = [at |-> "close", of |-> r]
      /\ UNCHANGED <<tasks, io, main, session>>

(* request_onerror for anything but a close of our own; the browser may    *)
(* also refuse the fetch before emscripten_fetch returns.                  *)
OnError(r, h) ==
  LET q == Captured(req[r], h)
  IN  /\ \/ CallsBack(r)
         \/ main = [at |-> "issued", of |-> r] /\ callback = Nowhere /\ q.fetch = "live"
      /\ Becomes(r, [q EXCEPT !.refs = @ + 1, !.fetch = "ended", !.success = FALSE,
                              !.done = TRUE])
      /\ callback' = [at |-> "close", of |-> r]
      /\ UNCHANGED <<tasks, io, main>>

CallbackCloses(r) ==
  /\ callback = [at |-> "close", of |-> r]
  /\ ScheduleClose(r)
  /\ callback' = [callback EXCEPT !.at = "return"]
  /\ UNCHANGED <<io, main>>

CallbackReturns(r) ==
  /\ callback = [at |-> "return", of |-> r]
  /\ Drop(r, req[r], budget)
  /\ callback' = Nowhere
  /\ UNCHANGED <<tasks, io, main>>

-----------------------------------------------------------------------------
(* A load that has begun ends without anyone's help but the clock's.       *)
Worker(s) ==
  \/ Admit(s) \/ AdmissionFails(s) \/ Proxy(s) \/ ProxyFails(s)
  \/ WaitEnds(s) \/ WaitAborts(s) \/ WaitSeesFailure(s) \/ WorkerCloses(s)
  \/ InstallResponse(s) \/ Fails(s) \/ Release(s)

MainThread ==
  \E r \in Requests :
    \/ StartFetch(r) \/ IssueFetch(r) \/ IssueFails(r) \/ FetchIssued(r)
    \/ CloseTask(r) \/ CloseTakes(r) \/ CloseAborts(r) \/ CloseDestroys(r) \/ CloseCleans(r)
    \/ TaskReturns(r) \/ CallbackCloses(r) \/ CallbackReturns(r)

Ends(r) ==
  \/ \E h \in Headers, n \in 0 .. RangeMax + 1, copied \in BOOLEAN : OnSuccess(r, h, n, copied)
  \/ \E h \in Headers : OnError(r, h)

Browser ==
  \E r \in Requests :
    \/ \E h \in Headers, tooMuch \in BOOLEAN : OnPartial(r, h, tooMuch)
    \/ Ends(r)

(* Every input has been closed; the rest is up to the main thread.         *)
Finished ==
  /\ \A x \in Sessions : session[x].state = "freed"
  /\ UNCHANGED vars

Next ==
  \/ \E x \in Sessions : Install(x) \/ Uninstall(x)
  \/ \E s \in Streams : Open(s) \/ Close(s) \/ Worker(s)
  \/ \E s \in Streams, r \in Requests, size \in Sizes : Load(s, r, size)
  \/ MainThread
  \/ Browser
  \/ Finished

(* Threads go on.  Nothing is assumed here of the main thread, which the   *)
(* page may keep busy as long as it likes.                                 *)
Spec == Init /\ [][Next]_vars /\ \A s \in Streams : WF_vars(Worker(s))

MainGoesOn == WF_vars(MainThread) /\ \A r \in Requests : WF_vars(Ends(r))

-----------------------------------------------------------------------------
(* Properties. *)

One(p) == IF p THEN 1 ELSE 0

TypeOK ==
  /\ req \in [Requests -> Request]
  /\ tasks \in [Requests -> SUBSET {"start", "close"}]
  /\ io \in [Streams -> [at : {"new", "idle", "admission", "proxy", "wait", "abandon", "retry",
                               "answer", "release", "shut"},
                         of : Requests \cup {NoRequest}, want : Nat, cache : Nat, loads : Nat]]
  /\ main \in [at : {"idle", "fetch", "issued", "close", "destroy", "cleanup", "return"},
               of : Requests \cup {NoRequest}]
  /\ callback \in [at : {"idle", "close", "return"}, of : Requests \cup {NoRequest}]
  /\ budget \in [refs : Nat, active : Nat, open : Nat, pending : Nat, buffered : Nat]
  /\ session \in [Sessions -> [refs : Nat, state : {"new", "installed", "freed"}]]

(* The worker, every queued task, the task that runs, the live fetch and a *)
(* running callback each own one reference of a request, and nobody else   *)
(* does: nobody touches a request that was freed, and none is forgotten    *)
(* (request_retain and request_release in all their places).               *)
ReferencesAreExact ==
  \A r \in Requests :
    req[r].refs = One(\E s \in Streams : io[s].of = r)
                  + One("start" \in tasks[r]) + One("close" \in tasks[r])
                  + One(main.of = r) + One(callback.of = r) + One(req[r].fetchHeld)

(* A fetch is not destroyed under its own callback, nor does it outlive    *)
(* the request its callbacks use (the deferred request_schedule_close).    *)
FetchOutlivesItsCallback ==
  \A r \in Requests :
    /\ callback.of = r => req[r].fetch \in {"live", "ended"}
    /\ req[r].fetch \in {"live", "ended"} => req[r].fetchHeld

(* The counters of the budget are the sums of what requests and streams    *)
(* hold, at all times; no clamp ever hides a difference.  The memory and   *)
(* the slots stay within their limits.                                     *)
BudgetIsExact ==
  /\ budget.pending = MapThenSumSet(LAMBDA r : req[r].pending + req[r].buffer, Requests)
  /\ budget.active = Cardinality({r \in Requests : req[r].acquired})
  /\ budget.buffered = MapThenSumSet(LAMBDA s : io[s].cache, Streams)
  /\ budget.open = Cardinality({s \in Streams : io[s].at \notin {"new", "shut"}})
  /\ budget.buffered + budget.pending <= MaxBuffered
  /\ budget.active <= MaxInflight

(* A response that counts as a success is one the stream can take over:    *)
(* nobody has given it up, its bytes are there and still paid for          *)
(* (request_onsuccess against the waiting stream's timeout).               *)
SuccessIsWhole ==
  \A s \in Streams :
    LET q == req[io[s].of]
    IN  io[s].at = "answer" /\ q.success =>
          /\ q.abort = "none" /\ q.data <= q.limit
          /\ q.data > 0 => q.pending = q.data /\ budget.buffered + q.data <= MaxBuffered

(* A session is there as long as an open stream or a request that was left *)
(* behind needs it.                                                        *)
SessionsOutliveRequests ==
  /\ \A r \in Requests : req[r].refs > 0 => req[r].session \in Sessions
                                            /\ session[req[r].session].refs > 0
  /\ \A s \in Streams : io[s].at \notin {"new", "shut"} => session[SessionOf[s]].refs > 0

(* A load ends even if the main thread never answers.                      *)
LoadsEnd == \A s \in Streams : io[s].at = "admission" ~> io[s].at = "idle"

(* Whatever a stream leaves behind is reclaimed once the main thread goes  *)
(* on and the browser ends its fetches.                                    *)
Reclaimed == MainGoesOn => \A r \in Requests : req[r].refs > 0 ~> req[r].refs = 0

(* Both together: a timeout ends the wait of the stream at once, and the   *)
(* close it leaves to others is still carried out.                         *)
LoadsEndAndAreReclaimed == LoadsEnd /\ Reclaimed

=============================================================================
