---------------------------- MODULE Cancellation ----------------------------
(***************************************************************************)
(* How a session is cancelled (FFmpegKit.cpp, FFmpegKitConfig.cpp,         *)
(* FFmpegSession.cpp, FFprobeSession.cpp, ffmpeg_lib.c, ffmpeg.c).         *)
(*                                                                         *)
(* Three mechanisms meet.  sessionMap has one word per session id modulo   *)
(* its size: 0, 1 while a session is registered, 2 when it is to stop; a   *)
(* session that starts overwrites it.  The native context of a session has *)
(* a cancelled flag and, while it runs, a scheduler that can be told to    *)
(* stop; an FFmpeg session also remembers the request itself, and passes   *)
(* it on when its context is attached.  cancel() without an id raises a    *)
(* process-wide signal counter, which every FFmpeg run resets when it      *)
(* starts and polls afterwards.                                            *)
(*                                                                         *)
(* Sessions execute on their own threads; clients call cancel at any time. *)
(* An FFprobe session stands for a media information session too, which    *)
(* differs in that no context is attached.                                 *)
(***************************************************************************)
EXTENDS Naturals, FiniteSets

CONSTANTS
    Sessions,         \* the session ids, positive integers
    FFmpegIds,        \* those of FFmpeg sessions, the others are FFprobe's
    Clients,          \* the threads that cancel
    SESSION_MAP_SIZE,
    Endless,          \* the sessions whose run does not end by itself
    MaxCalls,         \* bound: cancel calls of one client
    NoClient

ASSUME SessionsAssumption ==
    Sessions \subseteq Nat \ {0} /\ FFmpegIds \subseteq Sessions
ASSUME SizeAssumption == SESSION_MAP_SIZE \in Nat \ {0}
ASSUME ClientsAssumption == NoClient \notin Clients
ASSUME BoundsAssumption == MaxCalls \in Nat /\ Endless \subseteq Sessions

Slots == 0..(SESSION_MAP_SIZE - 1)
SlotOf(s) == s % SESSION_MAP_SIZE

VARIABLES
    pc,           \* where the thread of a session is
    sessionMap,   \* the words: 0, 1 registered, 2 to be cancelled
    requested,    \* FFmpegSession::_cancelRequested
    context,      \* the native context: "none", "alive", "freed"
    attached,     \* whether _context points to it
    cancelled,    \* the context's cancelled flag
    scheduler,    \* whether the context has a scheduler
    terminate,    \* Scheduler::terminate
    contextMutex, \* FFmpegSession::_contextMutex, when a client keeps it
    signals,      \* received_nb_signals
    ended,        \* how the run ended: "not", "finished", "cancelled"
    history,      \* the sessions getSession finds
    call,         \* what a client is doing: [at, id, live, left]
    \* History variables.
    named,        \* a client called cancel with this id
    asked,        \* requestCancel on a session that was not terminal, or a
                  \* cancel of a RUNNING FFprobe session, has returned
    swept         \* cancel() was called during the run

sessionVars == <<pc, requested, context, attached, ended>>
nativeVars  == <<cancelled, scheduler, terminate>>
ghosts      == <<named, asked, swept>>
vars == <<sessionVars, nativeVars, sessionMap, contextMutex, signals, history,
          call, ghosts>>

Idle(n) == [at |-> "idle", id |-> 0, live |-> FALSE, left |-> n]

Init ==
    /\ pc = [s \in Sessions |-> "created"]
    /\ sessionMap = [k \in Slots |-> 0]
    /\ requested = [s \in Sessions |-> FALSE]
    /\ context = [s \in Sessions |-> "none"]
    /\ attached = [s \in Sessions |-> FALSE]
    /\ cancelled = [s \in Sessions |-> FALSE]
    /\ scheduler = [s \in Sessions |-> FALSE]
    /\ terminate = [s \in Sessions |-> FALSE]
    /\ contextMutex = [s \in Sessions |-> NoClient]
    /\ signals = 0
    /\ ended = [s \in Sessions |-> "not"]
    /\ history = Sessions
    /\ call = [c \in Clients |-> Idle(MaxCalls)]
    /\ named = [s \in Sessions |-> FALSE]
    /\ asked = [s \in Sessions |-> FALSE]
    /\ swept = [s \in Sessions |-> FALSE]

IsFFmpeg(s) == s \in FFmpegIds
Terminal(s) == pc[s] = "completed"
Running(s) == pc[s] \notin {"created", "completed"}

\* cancelRequested
MapSays(s) == sessionMap[SlotOf(s)] = 2

Goes(s, from, to) == pc[s] = from /\ pc' = [pc EXCEPT ![s] = to]

-----------------------------------------------------------------------------
(* The thread that executes a session. *)

StartRunning(s) ==
    /\ Goes(s, "created", "register")
    /\ UNCHANGED <<requested, context, attached, ended, nativeVars, sessionMap,
                   contextMutex, signals, history, call, ghosts>>

\* Mutant of RegisterSessionId: the word is incremented.
RegisterSessionIdAdds(s) ==
    /\ Goes(s, "register", "init")
    /\ sessionMap' = [sessionMap EXCEPT ![SlotOf(s)] = @ + 1]
    /\ UNCHANGED <<requested, context, attached, ended, nativeVars,
                   contextMutex, signals, history, call, ghosts>>

RegisterSessionId(s) ==
    /\ Goes(s, "register", "init")
    /\ sessionMap' = [sessionMap EXCEPT ![SlotOf(s)] = 1]
    /\ UNCHANGED <<requested, context, attached, ended, nativeVars,
                   contextMutex, signals, history, call, ghosts>>

\* ffmpeg_init_argv, ffprobe_init_argv
InitContext(s) ==
    /\ Goes(s, "init", "attach")
    /\ context' = [context EXCEPT ![s] = "alive"]
    /\ UNCHANGED <<requested, attached, ended, nativeVars, sessionMap,
                   contextMutex, signals, history, call, ghosts>>

\* ... or it fails: the session is removed and execution returns.
InitContextFails(s) ==
    /\ Goes(s, "init", "complete")
    /\ sessionMap' = [sessionMap EXCEPT ![SlotOf(s)] = 0]
    /\ ended' = [ended EXCEPT ![s] = "finished"]
    /\ UNCHANGED <<requested, context, attached, nativeVars, contextMutex,
                   signals, history, call, ghosts>>

\* Mutant of SetContext: the request is not looked at.
SetContextForgets(s) ==
    /\ Goes(s, "attach", "reset")
    /\ contextMutex[s] = NoClient
    /\ attached' = [attached EXCEPT ![s] = TRUE]
    /\ UNCHANGED <<requested, context, ended, nativeVars, sessionMap,
                   contextMutex, signals, history, call, ghosts>>

\* FFmpegSession::setContext passes a request on, FFprobeSession's does not.
SetContext(s) ==
    /\ Goes(s, "attach", "reset")
    /\ contextMutex[s] = NoClient
    /\ attached' = [attached EXCEPT ![s] = TRUE]
    /\ cancelled' = [cancelled EXCEPT ![s] = IsFFmpeg(s) /\ requested[s]]
    /\ UNCHANGED <<requested, context, ended, scheduler, terminate,
                   sessionMap, contextMutex, signals, history, call, ghosts>>

\* Mutant of ResetState: the signals of earlier runs stay.
ResetStateKeepsSignals(s) ==
    /\ Goes(s, "reset", "schedule")
    /\ UNCHANGED <<requested, context, attached, ended, nativeVars, sessionMap,
                   contextMutex, signals, history, call, ghosts>>

\* ffmpeg_reset_internal_state; FFprobe has no signals.
ResetState(s) ==
    /\ Goes(s, "reset", "schedule")
    /\ signals' = IF IsFFmpeg(s) THEN 0 ELSE signals
    /\ UNCHANGED <<requested, context, attached, ended, nativeVars, sessionMap,
                   contextMutex, history, call, ghosts>>

\* Mutant of SetScheduler: only sessionMap is looked at.
SetSchedulerMapOnly(s) ==
    /\ Goes(s, "schedule", "run")
    /\ scheduler' = [scheduler EXCEPT ![s] = IsFFmpeg(s)]
    /\ terminate' = [terminate EXCEPT ![s] = IsFFmpeg(s) /\ MapSays(s)]
    /\ UNCHANGED <<requested, context, attached, ended, cancelled, sessionMap,
                   contextMutex, signals, history, call, ghosts>>

\* ffmpeg_set_scheduler, under the scheduler mutex of the context.
SetScheduler(s) ==
    /\ Goes(s, "schedule", "run")
    /\ scheduler' = [scheduler EXCEPT ![s] = IsFFmpeg(s)]
    /\ terminate' = [terminate EXCEPT ![s] =
                        IsFFmpeg(s) /\ (cancelled[s] \/ MapSays(s))]
    /\ UNCHANGED <<requested, context, attached, ended, cancelled, sessionMap,
                   contextMutex, signals, history, call, ghosts>>

\* What ends a run from outside: the scheduler's terminate flag and the
\* signals, polled by transcode, and the interrupt callback of the I/O.
Interrupted(s) ==
    \/ cancelled[s] \/ MapSays(s)
    \/ IsFFmpeg(s) /\ (terminate[s] \/ signals > 0)

RunInterrupted(s) ==
    /\ Interrupted(s)
    /\ Goes(s, "run", "unschedule")
    /\ ended' = [ended EXCEPT ![s] = "cancelled"]
    /\ UNCHANGED <<requested, context, attached, nativeVars, sessionMap,
                   contextMutex, signals, history, call, ghosts>>

RunFinishes(s) ==
    /\ s \notin Endless
    /\ Goes(s, "run", "unschedule")
    /\ ended' = [ended EXCEPT ![s] = "finished"]
    /\ UNCHANGED <<requested, context, attached, nativeVars, sessionMap,
                   contextMutex, signals, history, call, ghosts>>

\* ffmpeg_set_scheduler(NULL), sch_free
Unschedule(s) ==
    /\ Goes(s, "unschedule", "remove")
    /\ scheduler' = [scheduler EXCEPT ![s] = FALSE]
    /\ UNCHANGED <<requested, context, attached, ended, cancelled, terminate,
                   sessionMap, contextMutex, signals, history, call, ghosts>>

RemoveSession(s) ==
    /\ Goes(s, "remove", "detach")
    /\ sessionMap' = [sessionMap EXCEPT ![SlotOf(s)] = 0]
    /\ UNCHANGED <<requested, context, attached, ended, nativeVars,
                   contextMutex, signals, history, call, ghosts>>

\* Mutant of DetachContext: the context mutex is not taken.
DetachContextUnlocked(s) ==
    /\ Goes(s, "detach", "free")
    /\ attached' = [attached EXCEPT ![s] = FALSE]
    /\ UNCHANGED <<requested, context, ended, nativeVars, sessionMap,
                   contextMutex, signals, history, call, ghosts>>

\* FFmpegSession::detachContext, FFprobeSession::setContext(nullptr)
DetachContext(s) ==
    /\ Goes(s, "detach", "free")
    /\ contextMutex[s] = NoClient
    /\ attached' = [attached EXCEPT ![s] = FALSE]
    /\ UNCHANGED <<requested, context, ended, nativeVars, sessionMap,
                   contextMutex, signals, history, call, ghosts>>

FreeContext(s) ==
    /\ Goes(s, "free", "complete")
    /\ context' = [context EXCEPT ![s] = "freed"]
    /\ UNCHANGED <<requested, attached, ended, nativeVars, sessionMap,
                   contextMutex, signals, history, call, ghosts>>

Complete(s) ==
    /\ Goes(s, "complete", "completed")
    /\ UNCHANGED <<requested, context, attached, ended, nativeVars, sessionMap,
                   contextMutex, signals, history, call, ghosts>>

\* A terminal session may leave the history when others are created.
Expire(s) ==
    /\ s \in history /\ Terminal(s)
    /\ history' = history \ {s}
    /\ UNCHANGED <<sessionVars, nativeVars, sessionMap, contextMutex, signals,
                   call, ghosts>>

\* clearSessions forgets the ongoing ones too.
ClearSessions ==
    /\ history # {}
    /\ history' = {}
    /\ UNCHANGED <<sessionVars, nativeVars, sessionMap, contextMutex, signals,
                   call, ghosts>>

-----------------------------------------------------------------------------
(* A client. *)

Moves(c, to) == call' = [call EXCEPT ![c].at = to]

Returns(c, accepted) ==
    /\ call' = [call EXCEPT ![c] = Idle(@.left)]
    /\ asked' = IF accepted THEN [asked EXCEPT ![call[c].id] = TRUE] ELSE asked
    /\ UNCHANGED <<named, swept>>

Calls(c, s, at) ==
    /\ call[c].at = "idle" /\ call[c].left > 0
    /\ call' = [call EXCEPT ![c] = [at |-> at, id |-> s,
                                    live |-> Running(s) /\ ~IsFFmpeg(s),
                                    left |-> call[c].left - 1]]
    /\ named' = [named EXCEPT ![s] = TRUE]
    /\ UNCHANGED <<sessionVars, nativeVars, sessionMap, contextMutex, signals,
                   history, asked, swept>>

\* FFmpegKit::cancel(id)
CancelById(c, s) ==
    Calls(c, s, IF s \in history /\ IsFFmpeg(s) THEN "state" ELSE "markOnly")

\* FFmpegSession::cancel, FFprobeSession::cancel
CancelSession(c, s) ==
    Calls(c, s, IF IsFFmpeg(s) THEN "state" ELSE "peek")

\* FFmpegKit::cancel(), sigterm_handler
CancelAll(c) ==
    /\ call[c].at = "idle" /\ call[c].left > 0
    /\ call' = [call EXCEPT ![c].left = @ - 1]
    /\ signals' = signals + 1
    /\ swept' = [s \in Sessions |->
                    swept[s] \/ (IsFFmpeg(s) /\ pc[s] \in {"schedule", "run"})]
    /\ UNCHANGED <<sessionVars, nativeVars, sessionMap, contextMutex, history,
                   named, asked>>

\* requestCancel looks at the state ...
CheckState(c) ==
    /\ call[c].at = "state"
    /\ IF Terminal(call[c].id)
         THEN Returns(c, FALSE)
         ELSE /\ call' = [call EXCEPT ![c] = [@ EXCEPT !.at = "request",
                                                  !.live = TRUE]]
              /\ UNCHANGED ghosts
    /\ UNCHANGED <<sessionVars, nativeVars, sessionMap, contextMutex, signals,
                   history>>

\* ... sets _cancelRequested ...
StoreRequest(c) ==
    /\ call[c].at = "request"
    /\ requested' = [requested EXCEPT ![call[c].id] = TRUE]
    /\ Moves(c, "mark")
    /\ UNCHANGED <<pc, context, attached, ended, nativeVars, sessionMap,
                   contextMutex, signals, history, ghosts>>

\* ... and the word in sessionMap (cancel_operation, cancelSession), which is
\* all that a call for a session of another kind does.
MarkSession(c) ==
    /\ call[c].at \in {"mark", "markOnly"}
    /\ sessionMap' = [sessionMap EXCEPT ![SlotOf(call[c].id)] = 2]
    /\ \/ call[c].at = "mark" /\ Moves(c, "lock") /\ UNCHANGED ghosts
       \/ call[c].at = "markOnly" /\ Returns(c, call[c].live)
    /\ UNCHANGED <<sessionVars, nativeVars, contextMutex, signals, history>>

\* requestCancel takes the context mutex; ffmpeg_cancel sets the flag ...
CancelContext(c) ==
    LET s == call[c].id IN
    /\ call[c].at = "lock"
    /\ contextMutex[s] = NoClient
    /\ IF attached[s]
         THEN /\ cancelled' = [cancelled EXCEPT ![s] = TRUE]
              /\ contextMutex' = [contextMutex EXCEPT ![s] = c]
              /\ Moves(c, "stop")
              /\ UNCHANGED ghosts
         ELSE /\ Returns(c, TRUE)
              /\ UNCHANGED <<cancelled, contextMutex>>
    /\ UNCHANGED <<sessionVars, scheduler, terminate, sessionMap, signals,
                   history>>

\* ... and under the scheduler mutex tells the scheduler (sch_request_stop).
StopScheduler(c) ==
    LET s == call[c].id IN
    /\ call[c].at = "stop"
    /\ terminate' = [terminate EXCEPT ![s] = @ \/ scheduler[s]]
    /\ contextMutex' = [contextMutex EXCEPT ![s] = NoClient]
    /\ Returns(c, TRUE)
    /\ UNCHANGED <<sessionVars, cancelled, scheduler, sessionMap, signals,
                   history>>

\* FFprobeSession::cancel copies the context pointer ...
PeekContext(c) ==
    /\ call[c].at = "peek"
    /\ Moves(c, IF attached[call[c].id] THEN "poke" ELSE "running")
    /\ UNCHANGED <<sessionVars, nativeVars, sessionMap, contextMutex, signals,
                   history, ghosts>>

\* ... sets the flag through it, whatever became of it ...
PokeContext(c) ==
    /\ call[c].at = "poke"
    /\ cancelled' = [cancelled EXCEPT ![call[c].id] =
                        @ \/ context[call[c].id] = "alive"]
    /\ Moves(c, "running")
    /\ UNCHANGED <<sessionVars, scheduler, terminate, sessionMap, contextMutex,
                   signals, history, ghosts>>

\* ... and, if the session is RUNNING, cancels by id.
CheckRunning(c) ==
    /\ call[c].at = "running"
    /\ IF Running(call[c].id)
         THEN Moves(c, "markOnly") /\ UNCHANGED ghosts
         ELSE Returns(c, FALSE)
    /\ UNCHANGED <<sessionVars, nativeVars, sessionMap, contextMutex, signals,
                   history>>

-----------------------------------------------------------------------------
SessionStep(s) ==
    \/ StartRunning(s) \/ RegisterSessionId(s) \/ InitContext(s)
    \/ InitContextFails(s) \/ SetContext(s) \/ ResetState(s)
    \/ SetScheduler(s) \/ RunInterrupted(s) \/ RunFinishes(s)
    \/ Unschedule(s) \/ RemoveSession(s) \/ DetachContext(s)
    \/ FreeContext(s) \/ Complete(s)

Request(c) ==
    \/ \E s \in Sessions : CancelById(c, s) \/ CancelSession(c, s)
    \/ CancelAll(c)

ClientStep(c) ==
    \/ CheckState(c) \/ StoreRequest(c) \/ MarkSession(c)
    \/ CancelContext(c) \/ StopScheduler(c)
    \/ PeekContext(c) \/ PokeContext(c) \/ CheckRunning(c)

\* Nothing is left to do, or an endless run goes on undisturbed.
Rest ==
    /\ \A s \in Sessions : Terminal(s) \/ (s \in Endless /\ pc[s] = "run")
    /\ \A c \in Clients : call[c].at = "idle"
    /\ UNCHANGED vars

Next ==
    \/ \E s \in Sessions : SessionStep(s) \/ Expire(s)
    \/ \E c \in Clients : Request(c) \/ ClientStep(c)
    \/ ClearSessions
    \/ Rest

Spec == Init /\ [][Next]_vars

(* Threads keep running; nobody has to cancel or to create sessions.       *)
FairSpec ==
    /\ Spec
    /\ \A s \in Sessions : WF_vars(SessionStep(s))
    /\ \A c \in Clients : WF_vars(ClientStep(c))

-----------------------------------------------------------------------------
(* The values the variables take. *)
TypeOK ==
    /\ pc \in [Sessions -> {"created", "register", "init", "attach", "reset",
                            "schedule", "run", "unschedule", "remove",
                            "detach", "free", "complete", "completed"}]
    /\ sessionMap \in [Slots -> 0..2]
    /\ requested \in [Sessions -> BOOLEAN]
    /\ context \in [Sessions -> {"none", "alive", "freed"}]
    /\ attached \in [Sessions -> BOOLEAN]
    /\ cancelled \in [Sessions -> BOOLEAN]
    /\ scheduler \in [Sessions -> BOOLEAN]
    /\ terminate \in [Sessions -> BOOLEAN]
    /\ contextMutex \in [Sessions -> Clients \cup {NoClient}]
    /\ signals \in Nat
    /\ ended \in [Sessions -> {"not", "finished", "cancelled"}]
    /\ history \subseteq Sessions
    /\ call \in [Clients -> [at : {"idle", "state", "request", "mark",
                                   "markOnly", "lock", "stop", "peek", "poke", "running"},
                             id : Sessions \cup {0},
                             live : BOOLEAN,
                             left : Nat]]
    /\ \A c \in Clients : call[c].at # "idle" => call[c].id # 0
    /\ named \in [Sessions -> BOOLEAN]
    /\ asked \in [Sessions -> BOOLEAN]
    /\ swept \in [Sessions -> BOOLEAN]

(* "Requests cancellation safely before, during, or after context          *)
(* attachment": when requestCancel has returned to its caller, the run of  *)
(* the session, begun or not, meets a scheduler that was told to stop.     *)
RequestReachesScheduler ==
    \A s \in FFmpegIds : asked[s] /\ pc[s] = "run" => terminate[s]

(* requestCancel works on the context only while it exists: the thread     *)
(* that executes the session does not free it in between.                  *)
CancelUsesLiveContext ==
    \A c \in Clients : call[c].at = "stop" => context[call[c].id] = "alive"

(* A run ends cancelled only if a client named its session or cancelled    *)
(* all sessions while it was running.                                      *)
OnlyTheNamedIsCancelled ==
    \A s \in Sessions : ended[s] = "cancelled" => named[s] \/ swept[s]

(* A session that was asked to stop becomes COMPLETED, even if its input   *)
(* never ends.                                                             *)
CancelledSessionCompletes ==
    \A s \in FFmpegIds :
        asked[s] /\ pc[s] # "created" ~> pc[s] = "completed"
=============================================================================
