--------------------------- MODULE MessageTransit ---------------------------
(***************************************************************************)
(* Log and statistics messages on their way from the threads of a session  *)
(* to the session's log list (FFmpegKitConfig.cpp).                        *)
(*                                                                         *)
(* A thread that logs first increments the in-transit counter of its       *)
(* session, then appends the message to the callback data list under a     *)
(* lock.  The callback thread removes the head, hands it to process_log,   *)
(* decrements the counter and notifies.  A session that has run waits, at  *)
(* most a few seconds, for its counter to be zero: FFmpeg and media        *)
(* information sessions before they become COMPLETED, FFprobe and FFplay   *)
(* sessions after.  A client that sees a COMPLETED session asks for its    *)
(* output, which waits in the same way.                                    *)
(*                                                                         *)
(* The counters are an array indexed by the session id modulo its size, so *)
(* two sessions can share one.  Every session starts by registering its    *)
(* id, which may log; the native build then stores 0 in the counter, the   *)
(* Wasm build does not.                                                    *)
(*                                                                         *)
(* The log level is one for the process.  A message is counted only if it  *)
(* passes the level, and the callback thread tests the level again: what   *)
(* passed no longer is dropped.  Runs set the level when they begin, by    *)
(* their options, and back when they end.                                  *)
(*                                                                         *)
(* A thread that has no session logs for the FFplay session that plays, or *)
(* for nobody.                                                             *)
(*                                                                         *)
(* A message is <<session id, number>>; id 0 stands for nobody.  Log and   *)
(* statistics messages differ only in what they carry, and in that         *)
(* statistics pass every level.                                            *)
(***************************************************************************)
EXTENDS Integers, Sequences, FiniteSets

CONSTANTS
    Sessions,        \* the session ids, positive integers
    SESSION_MAP_SIZE,
    DrainFirst,      \* the sessions that drain before they complete
    ResetsCounter,   \* the native build: resetMessagesInTransmit exists
    MayClear,        \* a client may call clearSessions
    Clients,         \* the sessions whose output a client asks for
    Players,         \* the FFplay sessions
    Strangers,       \* the threads that have no session
    ChangesLevel,    \* options and clients change the log level
    MaxMessages,     \* bound: messages of the threads of a session
    MaxStray,        \* bound: messages of threads that have no session
    MaxThreads       \* bound: threads that log at the same time

ASSUME SessionsAssumption == Sessions \subseteq Nat \ {0}
ASSUME SizeAssumption == SESSION_MAP_SIZE \in Nat \ {0}
ASSUME DrainFirstAssumption == DrainFirst \subseteq Sessions
ASSUME ClientsAssumption == Clients \subseteq Sessions
ASSUME PlayersAssumption == Players \subseteq Sessions
ASSUME FlagsAssumption ==
    {ResetsCounter, MayClear, ChangesLevel} \subseteq BOOLEAN
ASSUME BoundsAssumption ==
    MaxMessages \in Nat /\ MaxStray \in Nat /\ MaxThreads \in Nat

Ids == Sessions \cup {0}
Waiters == {"owner", "client"}

\* Where the counter of an id is: slot SESSION_MAP_SIZE stands for
\* unattributedMessagesInTransitCount.
Slots == 0..SESSION_MAP_SIZE
SlotOf(i) == IF i = 0 THEN SESSION_MAP_SIZE ELSE i % SESSION_MAP_SIZE

Messages == Ids \X Nat
None == <<>>
Nobody == -1

\* Of the levels only this is kept: whether the messages pass that do not
\* pass always.
Levels == {"low", "high"}

VARIABLES
    state,      \* SessionState of each session
    pc,         \* where the session's own thread is
    wait,       \* waitForSessionMessagesInTransmit, per session and waiter
    sent,       \* number of messages counted, per id
    unpushed,   \* messages counted but not yet in the list
    queue,      \* the callback data list
    cb,         \* what the callback thread is doing
    held,       \* the message it holds, or None
    transit,    \* sessionInTransitMessageCountMap
    history,    \* the sessions getSession finds
    logs,       \* AbstractSession::_logs
    done,       \* history variable: the messages whose count was taken back
    verbose,    \* the messages on their way that need a high log level
    foreign,    \* history variable: those of threads that have no session
    level,      \* av_log_get_level
    configured, \* configuredLogLevel
    atRisk,     \* history variable: those that were on their way when the
                \* level was lowered, and have not reached the log
    player,     \* globalFFplaySessionId
    borrowed    \* the id a thread without a session has read from it

context == <<verbose, foreign, level, configured, atRisk, player, borrowed>>
vars == <<state, pc, wait, sent, unpushed, queue, cb, held, transit, history,
          logs, done, context>>

Init ==
    /\ state = [s \in Sessions |-> "created"]
    /\ pc = [s \in Sessions |-> "new"]
    /\ wait = [s \in Sessions |-> [w \in Waiters |-> "idle"]]
    /\ sent = [i \in Ids |-> 0]
    /\ unpushed = {}
    /\ queue = <<>>
    /\ cb = "idle"
    /\ held = None
    /\ transit = [k \in Slots |-> 0]
    /\ history = Sessions
    /\ logs = [s \in Sessions |-> <<>>]
    /\ done = {}
    /\ verbose = {} /\ foreign = {} /\ atRisk = {}
    /\ configured \in Levels /\ level = configured
    /\ player = 0
    /\ borrowed = [t \in Strangers |-> Nobody]

Sent(i) == {<<i, n>> : n \in 1..sent[i]}
Own(i) == Sent(i) \ foreign      \* those of the threads of the session
Counted == UNION {Sent(i) : i \in Ids}
InFlight == Counted \ done
InFlightOf(k) == {m \in InFlight : SlotOf(m[1]) = k}

-----------------------------------------------------------------------------
(* A thread that logs. *)

\* ffmpegkit_log_callback_function and logCallbackDataAdd, up to the
\* increment of the counter.  A level lowered between the test and the
\* increment is like one lowered after.
Counts(i, fine) ==
    /\ fine => level = "high"
    /\ Cardinality(unpushed) < MaxThreads
    /\ sent' = [sent EXCEPT ![i] = @ + 1]
    /\ transit' = [transit EXCEPT ![SlotOf(i)] = @ + 1]
    /\ unpushed' = unpushed \cup {<<i, sent[i] + 1>>}
    /\ verbose' = IF fine THEN verbose \cup {<<i, sent[i] + 1>>} ELSE verbose
    /\ UNCHANGED <<state, pc, wait, queue, cb, held, history, logs, done,
                   level, configured, atRisk, player>>

\* The session's thread logs while it registers its id, once, at level
\* debug; its threads log while it runs.
MayLog(i, fine) ==
    \/ pc[i] = "register" /\ fine /\ Own(i) = {} /\ MaxMessages > 0
    \/ pc[i] = "run" /\ Cardinality(Own(i)) < MaxMessages

CountMessage(i) ==
    /\ \E fine \in BOOLEAN : MayLog(i, fine) /\ Counts(i, fine)
    /\ UNCHANGED <<foreign, borrowed>>

\* A thread without a session asks which one plays, at any time ...
ReadPlayer(t) ==
    /\ borrowed[t] = Nobody /\ Cardinality(foreign) < MaxStray
    /\ borrowed' = [borrowed EXCEPT ![t] = player]
    /\ UNCHANGED <<state, pc, wait, sent, unpushed, queue, cb, held, transit,
                   history, logs, done, verbose, foreign, level, configured,
                   atRisk, player>>

\* ... and counts the message for it, though it may have ended by then.
CountForeign(t) ==
    LET i == borrowed[t]
    IN  /\ i # Nobody
        /\ \E fine \in BOOLEAN : Counts(i, fine)
        /\ borrowed' = [borrowed EXCEPT ![t] = Nobody]
        /\ foreign' = foreign \cup {<<i, sent[i] + 1>>}

\* ... and the append, under the lock of the list.
PushMessage(m) ==
    /\ m \in unpushed
    /\ unpushed' = unpushed \ {m}
    /\ queue' = Append(queue, m)
    /\ UNCHANGED <<state, pc, wait, sent, cb, held, transit, history, logs,
                   done, context>>

-----------------------------------------------------------------------------
(* The log level, av_log_set_level. *)

LevelBecomes(v) ==
    /\ level' = v
    /\ atRisk' = IF v = "low" THEN atRisk \cup verbose ELSE atRisk

\* FFmpegKitConfig::setLogLevel, by a client.
SetLogLevel ==
    /\ ChangesLevel
    /\ \E v \in Levels : configured' = v /\ LevelBecomes(v)
    /\ UNCHANGED <<state, pc, wait, sent, unpushed, queue, cb, held, transit,
                   history, logs, done, verbose, foreign, player, borrowed>>

\* opt_loglevel: the option -v of a session that runs.
OptLogLevel(s) ==
    /\ ChangesLevel /\ pc[s] = "run"
    /\ \E v \in Levels : LevelBecomes(v)
    /\ UNCHANGED <<state, pc, wait, sent, unpushed, queue, cb, held, transit,
                   history, logs, done, verbose, foreign, configured, player,
                   borrowed>>

-----------------------------------------------------------------------------
(* The callback thread. *)

\* notifySessionMessageDrain: only waiters that are asleep hear it, and it
\* is called without the drain mutex.
Notified == [s \in Sessions |-> [w \in Waiters |->
                IF wait[s][w] = "asleep" THEN "checking" ELSE wait[s][w]]]

\* callbackDataRemove
PopMessage ==
    /\ cb = "idle" /\ queue # <<>>
    /\ held' = Head(queue)
    /\ queue' = Tail(queue)
    /\ cb' = "popped"
    /\ UNCHANGED <<state, pc, wait, sent, unpushed, transit, history, logs,
                   done, context>>

\* process_log: a message that does not pass the level now is dropped, and
\* a session that is no longer in the history gets nothing.
ProcessMessage ==
    /\ cb = "popped"
    /\ IF (held \in verbose => level = "high") /\ held[1] \in history
         THEN /\ logs' = [logs EXCEPT ![held[1]] = Append(@, held)]
              /\ atRisk' = atRisk \ {held}
         ELSE UNCHANGED <<logs, atRisk>>
    /\ verbose' = verbose \ {held}
    /\ cb' = "processed"
    /\ UNCHANGED <<state, pc, wait, sent, unpushed, queue, held, transit,
                   history, done, foreign, level, configured, player,
                   borrowed>>

\* Mutant of DrainHeld: the count of a message whose session is gone is kept.
DrainHeldIfFound ==
    /\ cb = "processed"
    /\ transit' = IF held[1] \in history \cup {0}
                    THEN [transit EXCEPT ![SlotOf(held[1])] = @ - 1]
                    ELSE transit
    /\ done' = done \cup {held}
    /\ wait' = Notified
    /\ cb' = "idle" /\ held' = None
    /\ UNCHANGED <<state, pc, sent, unpushed, queue, history, logs, context>>

\* Mutant of DrainHeld: the callback data is not released.
DrainHeldLeaked ==
    /\ cb = "processed"
    /\ transit' = [transit EXCEPT ![SlotOf(held[1])] = @ - 1]
    /\ done' = done \cup {held}
    /\ wait' = Notified
    /\ cb' = "idle"
    /\ UNCHANGED <<state, pc, sent, unpushed, queue, held, history, logs,
                   context>>

\* ~CallbackDrainGuard
DrainHeld ==
    /\ cb = "processed"
    /\ transit' = [transit EXCEPT ![SlotOf(held[1])] = @ - 1]
    /\ done' = done \cup {held}
    /\ wait' = Notified
    /\ cb' = "idle" /\ held' = None
    /\ UNCHANGED <<state, pc, sent, unpushed, queue, history, logs, context>>

-----------------------------------------------------------------------------
(* waitForSessionMessagesInTransmit *)

Drained(s) == transit[SlotOf(s)] = 0

Returned(s, w) == wait[s][w] \in {"drained", "timedout"}

\* The owner waits where its kind of session does, the client once it saw
\* the session COMPLETED.
MayWait(s, w) ==
    \/ w = "owner" /\ pc[s] = "ran" /\ s \in DrainFirst
    \/ w = "owner" /\ pc[s] = "end" /\ s \notin DrainFirst
    \/ w = "client" /\ state[s] = "completed" /\ s \in Clients

WaitBecomes(s, w, v) ==
    /\ wait' = [wait EXCEPT ![s] = [@ EXCEPT ![w] = v]]
    /\ UNCHANGED <<state, pc, sent, unpushed, queue, cb, held, transit,
                   history, logs, done, context>>

\* The first look at the counter, without the drain mutex.
WaitStart(s, w) ==
    /\ wait[s][w] = "idle" /\ MayWait(s, w)
    /\ WaitBecomes(s, w, IF Drained(s) THEN "drained" ELSE "checking")

\* wait_for evaluates its predicate ...
WaitCheck(s, w) ==
    /\ wait[s][w] = "checking"
    /\ WaitBecomes(s, w, IF Drained(s) THEN "drained" ELSE "blocking")

\* ... and then blocks; a notification in between is not heard.
WaitBlock(s, w) ==
    /\ wait[s][w] = "blocking"
    /\ WaitBecomes(s, w, "asleep")

\* Mutant of WaitTimeout: the wait starts again after a timeout.
WaitTimeoutRepeats(s, w) ==
    /\ wait[s][w] = "asleep"
    /\ WaitBecomes(s, w, IF Drained(s) THEN "drained" ELSE "checking")

\* At the timeout the predicate decides what wait_for returns.
WaitTimeout(s, w) ==
    /\ wait[s][w] = "asleep"
    /\ WaitBecomes(s, w, IF Drained(s) THEN "drained" ELSE "timedout")

-----------------------------------------------------------------------------
(* The thread that executes a session. *)

\* No thread of the session is inside logCallbackDataAdd: the session's own
\* thread is one of them and the workers are joined before ffmpeg_run returns.
Quiet(s) == \A m \in unpushed \ foreign : m[1] # s

\* startRunning; an FFplay session then becomes the one that plays (when it
\* may is in FFplayHandoff).
StartRunning(s) ==
    /\ pc[s] = "new"
    /\ state' = [state EXCEPT ![s] = "running"]
    /\ pc' = [pc EXCEPT ![s] = "register"]
    /\ player' = IF s \in Players THEN s ELSE player
    /\ UNCHANGED <<wait, sent, unpushed, queue, cb, held, transit, history,
                   logs, done, verbose, foreign, level, configured, atRisk,
                   borrowed>>

\* registerSessionId has returned; the native build resets the counter.
\* Then installSharedLogState sets the level.
ResetMessagesInTransmit(s) ==
    /\ pc[s] = "register" /\ Quiet(s)
    /\ pc' = [pc EXCEPT ![s] = "run"]
    /\ IF ResetsCounter
         THEN /\ transit' = [transit EXCEPT ![SlotOf(s)] = 0]
              /\ wait' = Notified
         ELSE UNCHANGED <<transit, wait>>
    /\ LevelBecomes(configured)
    /\ UNCHANGED <<state, sent, unpushed, queue, cb, held, history, logs,
                   done, verbose, foreign, configured, player, borrowed>>

\* ffmpeg_run, ffprobe_run or the playback loop has returned, and
\* restoreConfiguredLogState sets the level back; a session whose arguments
\* cannot be used returns without.  Nobody plays now.
RunReturns(s) ==
    /\ pc[s] = "run" /\ Quiet(s)
    /\ pc' = [pc EXCEPT ![s] = "ran"]
    /\ \E v \in {configured, level} : LevelBecomes(v)
    /\ player' = IF s \in Players THEN 0 ELSE player
    /\ UNCHANGED <<state, wait, sent, unpushed, queue, cb, held, transit,
                   history, logs, done, verbose, foreign, configured,
                   borrowed>>

\* Mutant of MayComplete: every session completes before it drains.
MayCompleteAtOnce(s) == pc[s] = "ran"

MayComplete(s) ==
    /\ pc[s] = "ran"
    /\ s \in DrainFirst => Returned(s, "owner")

\* AbstractSession::complete
Complete(s) ==
    /\ MayComplete(s)
    /\ state' = [state EXCEPT ![s] = "completed"]
    /\ pc' = [pc EXCEPT ![s] = "end"]
    /\ UNCHANGED <<wait, sent, unpushed, queue, cb, held, transit, history,
                   logs, done, context>>

-----------------------------------------------------------------------------
(* The session history. *)

\* deleteExpiredSessions, when a newer session is created: a session that is
\* neither CREATED nor RUNNING may go.
Expire(s) ==
    /\ s \in history /\ state[s] = "completed"
    /\ history' = history \ {s}
    /\ UNCHANGED <<state, pc, wait, sent, unpushed, queue, cb, held, transit,
                   logs, done, context>>

\* clearSessions forgets running sessions too.
ClearSessions ==
    /\ MayClear /\ history # {}
    /\ history' = {}
    /\ UNCHANGED <<state, pc, wait, sent, unpushed, queue, cb, held, transit,
                   logs, done, context>>

-----------------------------------------------------------------------------
Finished ==
    /\ \A s \in Sessions : pc[s] = "end" /\ Returned(s, "owner")
    /\ \A s \in Clients : Returned(s, "client")
    /\ unpushed = {} /\ queue = <<>> /\ cb = "idle"
    /\ UNCHANGED vars

SessionStep(s) ==
    \/ StartRunning(s) \/ ResetMessagesInTransmit(s)
    \/ RunReturns(s) \/ Complete(s)

WaitStep(s, w) ==
    \/ WaitStart(s, w) \/ WaitCheck(s, w)
    \/ WaitBlock(s, w) \/ WaitTimeout(s, w)

CallbackStep == PopMessage \/ ProcessMessage \/ DrainHeld

Next ==
    \/ \E s \in Sessions : CountMessage(s) \/ OptLogLevel(s)
    \/ \E t \in Strangers : ReadPlayer(t) \/ CountForeign(t)
    \/ SetLogLevel
    \/ \E m \in unpushed : PushMessage(m)
    \/ CallbackStep
    \/ \E s \in Sessions : SessionStep(s)
    \/ \E s \in Sessions, w \in Waiters : WaitStep(s, w)
    \/ \E s \in Sessions : Expire(s)
    \/ ClearSessions
    \/ Finished

Spec == Init /\ [][Next]_vars

(* Every thread keeps running, and every wait has a timeout.  Nobody has   *)
(* to log.                                                                 *)
Fairness ==
    /\ WF_vars(CallbackStep)
    /\ WF_vars(\E m \in unpushed : PushMessage(m))
    /\ \A s \in Sessions : WF_vars(SessionStep(s))
    /\ \A s \in Sessions, w \in Waiters : WF_vars(WaitStep(s, w))

FairSpec == Spec /\ Fairness

-----------------------------------------------------------------------------
(* The values the variables take. *)
TypeOK ==
    /\ state \in [Sessions -> {"created", "running", "completed"}]
    /\ pc \in [Sessions -> {"new", "register", "run", "ran", "end"}]
    /\ wait \in [Sessions -> [Waiters ->
            {"idle", "checking", "blocking", "asleep", "drained", "timedout"}]]
    /\ sent \in [Ids -> Nat]
    /\ unpushed \subseteq Messages
    /\ queue \in Seq(Messages)
    /\ cb \in {"idle", "popped", "processed"}
    /\ cb = "idle" => held = None
    /\ cb # "idle" => held \in Messages
    /\ transit \in [Slots -> Int]
    /\ history \subseteq Sessions
    /\ logs \in [Sessions -> Seq(Messages)]
    /\ done \subseteq Messages
    /\ verbose \cup foreign \cup atRisk \subseteq Messages
    /\ {level, configured} \subseteq Levels
    /\ player \in Ids
    /\ borrowed \in [Strangers -> Ids \cup {Nobody}]

(* A counter is the number of messages of its sessions that were counted   *)
(* and are not yet delivered, wherever they are: about to be appended, in  *)
(* the list or in the hands of the callback thread.  Sessions that share a *)
(* counter do not disturb one another.  This is what the wait relies on;   *)
(* it needs a build that does not reset the counters.                      *)
CounterIsExact ==
    \A k \in Slots : transit[k] = Cardinality(InFlightOf(k))

\* What the log list of a session has.
Logged(s) == {logs[s][a] : a \in DOMAIN logs[s]}

\* The log list of a session has its messages, each once; those that are
\* missing were on their way when the log level was lowered below them.
Whole(s) ==
    /\ Own(s) \ atRisk \subseteq Logged(s) /\ Logged(s) \subseteq Sent(s)
    /\ \A a, b \in DOMAIN logs[s] : logs[s][a] = logs[s][b] => a = b

(* getAllLogs: when its wait ends because the counter is zero, the log     *)
(* list of a session that was not forgotten has every message of the run   *)
(* that a lowered log level did not cost.                                  *)
DrainedOutputIsWhole ==
    \A s \in Sessions : \A w \in Waiters :
        wait[s][w] = "drained" /\ s \in history => Whole(s)

(* "Wait BEFORE completing so that the final output is ready when complete *)
(* callbacks fire": a session that drains first and is COMPLETED has its   *)
(* whole output but for a lowered log level, unless the wait gave up or    *)
(* the history lost the session.                                           *)
FinalOutputIsReady ==
    \A s \in DrainFirst :
        state[s] = "completed" /\ s \in history =>
            wait[s]["owner"] = "timedout" \/ Whole(s)

(* Whoever saw a counter at zero has the whole output, but for what was on *)
(* its way when the log level was lowered below it.  It needs a build that *)
(* does not reset the counters.                                            *)
OutputIsWhole == DrainedOutputIsWhole /\ FinalOutputIsReady

(* A session that runs becomes COMPLETED, and a client that asks for its   *)
(* output gets an answer, though a notification may be missed.             *)
Completes ==
    /\ \A s \in Sessions : state[s] = "running" ~> state[s] = "completed"
    /\ \A s \in Sessions : \A w \in Waiters :
           wait[s][w] = "checking" ~> Returned(s, w)
=============================================================================
