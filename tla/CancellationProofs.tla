------------------------- MODULE CancellationProofs -------------------------
(***************************************************************************)
(* Machine-checked properties of Cancellation for every set of sessions    *)
(* and clients, every size of sessionMap and any number of calls.          *)
(***************************************************************************)
EXTENDS Cancellation, Integers, TLAPS

LEMMA SlotOfType ==
    ASSUME NEW s \in Sessions
    PROVE  SlotOf(s) \in Slots
BY SessionsAssumption, SizeAssumption DEF SlotOf, Slots

-----------------------------------------------------------------------------
(* Type correctness.                                                       *)

LEMMA TypeOKSessionStep ==
    ASSUME TypeOK, NEW s \in Sessions, SessionStep(s)
    PROVE  TypeOK'
<1> USE DEF TypeOK, Goes, ghosts, nativeVars
<1>1. CASE StartRunning(s)
  BY <1>1 DEF StartRunning
<1>2. CASE RegisterSessionId(s)
  BY <1>2, SlotOfType DEF RegisterSessionId
<1>3. CASE InitContext(s)
  BY <1>3 DEF InitContext
<1>4. CASE InitContextFails(s)
  BY <1>4, SlotOfType DEF InitContextFails
<1>5. CASE SetContext(s)
  <2>1. (IsFFmpeg(s) /\ requested[s]) \in BOOLEAN
    BY DEF IsFFmpeg
  <2> QED
    BY <1>5, <2>1 DEF SetContext
<1>6. CASE ResetState(s)
  <2>1. signals' \in Nat
    BY <1>6 DEF ResetState
  <2> QED
    BY <1>6, <2>1 DEF ResetState
<1>7. CASE SetScheduler(s)
  <2>1. IsFFmpeg(s) \in BOOLEAN
        /\ (IsFFmpeg(s) /\ (cancelled[s] \/ MapSays(s))) \in BOOLEAN
    BY DEF IsFFmpeg
  <2> QED
    BY <1>7, <2>1 DEF SetScheduler
<1>8. CASE RunInterrupted(s) \/ RunFinishes(s)
  BY <1>8 DEF RunInterrupted, RunFinishes
<1>9. CASE Unschedule(s)
  BY <1>9 DEF Unschedule
<1>10. CASE RemoveSession(s)
  BY <1>10, SlotOfType DEF RemoveSession
<1>11. CASE DetachContext(s)
  BY <1>11 DEF DetachContext
<1>12. CASE FreeContext(s) \/ Complete(s)
  BY <1>12 DEF FreeContext, Complete
<1> QED
  BY <1>1, <1>2, <1>3, <1>4, <1>5, <1>6, <1>7, <1>8, <1>9, <1>10, <1>11,
     <1>12 DEF SessionStep

\* The call of a client after one of its steps.
LEMMA ReturnsType ==
    ASSUME TypeOK, NEW c \in Clients, NEW accepted \in BOOLEAN,
           Returns(c, accepted), call[c].at # "idle"
    PROVE  /\ call' \in [Clients -> [at : {"idle", "state", "request", "mark",
                              "markOnly", "lock", "stop", "peek", "poke",
                              "running"},
                             id : Sessions \cup {0}, live : BOOLEAN,
                             left : Nat]]
           /\ \A d \in Clients : call'[d].at # "idle" => call'[d].id # 0
           /\ asked' \in [Sessions -> BOOLEAN]
           /\ named' = named /\ swept' = swept
<1>1. call[c].id \in Sessions
  BY DEF TypeOK
<1> QED
  BY <1>1 DEF Returns, TypeOK, Idle

LEMMA TypeOKClientStep ==
    ASSUME TypeOK, NEW c \in Clients, Request(c) \/ ClientStep(c)
    PROVE  TypeOK'
<1> USE DEF TypeOK
<1>1. ASSUME NEW s \in Sessions, NEW at \in {"state", "markOnly", "peek"},
             Calls(c, s, at)
      PROVE  TypeOK'
  <2>1. s # 0 /\ (Running(s) /\ ~IsFFmpeg(s)) \in BOOLEAN
    BY SessionsAssumption DEF Running, IsFFmpeg
  <2>2. call[c].left - 1 \in Nat
    BY <1>1 DEF Calls
  <2> QED
    BY <1>1, <2>1, <2>2 DEF Calls, sessionVars, nativeVars
<1>2. ASSUME NEW s \in Sessions, CancelById(c, s) \/ CancelSession(c, s)
      PROVE  TypeOK'
  <2>1. \E at \in {"state", "markOnly", "peek"} : Calls(c, s, at)
    BY <1>2, Zenon DEF CancelById, CancelSession
  <2> QED
    BY <1>1, <2>1
<1>3. CASE CancelAll(c)
  <2>1. call' = [call EXCEPT ![c].left = @ - 1] /\ call[c].left - 1 \in Nat
    BY <1>3 DEF CancelAll
  <2>2. swept' \in [Sessions -> BOOLEAN] /\ signals' \in Nat
    BY <1>3 DEF CancelAll
  <2> QED
    BY <1>3, <2>1, <2>2 DEF CancelAll, sessionVars, nativeVars
<1>4. CASE CheckState(c)
  <2>1. CASE Terminal(call[c].id)
    <3>1. Returns(c, FALSE)
      BY <1>4, <2>1, Zenon DEF CheckState
    <3> QED
      BY <1>4, <3>1, ReturnsType DEF CheckState, sessionVars, nativeVars
  <2>2. CASE ~Terminal(call[c].id)
    <3>1. /\ call' = [call EXCEPT ![c] = [@ EXCEPT !.at = "request",
                                                   !.live = TRUE]]
          /\ UNCHANGED ghosts
      BY <1>4, <2>2, Zenon DEF CheckState
    <3> QED
      BY <1>4, <3>1 DEF CheckState, sessionVars, nativeVars, ghosts
  <2> QED
    BY <2>1, <2>2
<1>5. CASE StoreRequest(c)
  BY <1>5 DEF StoreRequest, Moves, nativeVars, ghosts
<1>6. CASE MarkSession(c)
  <2>1. call[c].id \in Sessions
    BY <1>6 DEF MarkSession
  <2>2. sessionMap' \in [Slots -> 0..2]
    <3>1. sessionMap' = [sessionMap EXCEPT ![SlotOf(call[c].id)] = 2]
      BY <1>6 DEF MarkSession
    <3> QED
      BY <2>1, <3>1, SlotOfType
  <2>3. CASE call[c].at = "mark"
    <3>1. Moves(c, "lock") /\ UNCHANGED ghosts
      BY <1>6, <2>3 DEF MarkSession
    <3> QED
      BY <1>6, <2>2, <3>1 DEF MarkSession, Moves, sessionVars, nativeVars, ghosts
  <2>4. CASE call[c].at = "markOnly"
    <3>1. Returns(c, call[c].live)
      BY <1>6, <2>4 DEF MarkSession
    <3> QED
      BY <1>6, <2>2, <2>4, <3>1, ReturnsType
      DEF MarkSession, sessionVars, nativeVars
  <2> QED
    BY <1>6, <2>3, <2>4 DEF MarkSession
<1>7. CASE CancelContext(c)
  <2>1. CASE attached[call[c].id]
    <3>1. /\ cancelled' = [cancelled EXCEPT ![call[c].id] = TRUE]
          /\ contextMutex' = [contextMutex EXCEPT ![call[c].id] = c]
          /\ Moves(c, "stop")
          /\ UNCHANGED ghosts
      BY <1>7, <2>1, Zenon DEF CancelContext
    <3> QED
      BY <1>7, <3>1 DEF CancelContext, Moves, sessionVars, ghosts
  <2>2. CASE ~attached[call[c].id]
    <3>1. Returns(c, TRUE) /\ UNCHANGED <<cancelled, contextMutex>>
      BY <1>7, <2>2, Zenon DEF CancelContext
    <3> QED
      BY <1>7, <3>1, ReturnsType DEF CancelContext, sessionVars
  <2> QED
    BY <2>1, <2>2
<1>8. CASE StopScheduler(c)
  <2>1. terminate' \in [Sessions -> BOOLEAN]
    BY <1>8 DEF StopScheduler
  <2> QED
    BY <1>8, <2>1, ReturnsType DEF StopScheduler, sessionVars
<1>9. CASE PeekContext(c)
  <2>1. \E to \in {"poke", "running"} : Moves(c, to)
    BY <1>9, Zenon DEF PeekContext
  <2> QED
    BY <1>9, <2>1 DEF PeekContext, Moves, sessionVars, nativeVars, ghosts
<1>10. CASE PokeContext(c)
  <2>1. cancelled' \in [Sessions -> BOOLEAN]
    BY <1>10 DEF PokeContext
  <2> QED
    BY <1>10, <2>1 DEF PokeContext, Moves, sessionVars, ghosts
<1>11. CASE CheckRunning(c)
  <2>1. CASE Running(call[c].id)
    <3>1. Moves(c, "markOnly") /\ UNCHANGED ghosts
      BY <1>11, <2>1, Zenon DEF CheckRunning
    <3> QED
      BY <1>11, <3>1 DEF CheckRunning, Moves, sessionVars, nativeVars, ghosts
  <2>2. CASE ~Running(call[c].id)
    <3>1. Returns(c, FALSE)
      BY <1>11, <2>2, Zenon DEF CheckRunning
    <3> QED
      BY <1>11, <3>1, ReturnsType DEF CheckRunning, sessionVars, nativeVars
  <2> QED
    BY <2>1, <2>2
<1> QED
  BY <1>2, <1>3, <1>4, <1>5, <1>6, <1>7, <1>8, <1>9, <1>10, <1>11
  DEF Request, ClientStep

LEMMA TypeOKStep ==
    ASSUME TypeOK, [Next]_vars
    PROVE  TypeOK'
<1>1. ASSUME NEW s \in Sessions, Expire(s)
      PROVE  TypeOK'
  BY <1>1 DEF Expire, TypeOK, sessionVars, nativeVars, ghosts
<1>2. CASE UNCHANGED vars
  BY <1>2 DEF vars, TypeOK, sessionVars, nativeVars, ghosts
<1>3. CASE ClearSessions
  BY <1>3 DEF ClearSessions, TypeOK, sessionVars, nativeVars, ghosts
<1> QED
  BY <1>1, <1>2, <1>3, TypeOKSessionStep, TypeOKClientStep DEF Next, Rest

(* The variables keep their types. *)
THEOREM TypeCorrect == Spec => []TypeOK
<1>1. Init => TypeOK
  BY SizeAssumption, BoundsAssumption DEF Init, TypeOK, Idle, Slots
<1> QED
  BY <1>1, TypeOKStep, PTL DEF Spec
-----------------------------------------------------------------------------
(* The inductive invariant.                                                *)

\* What the thread of a session has done so far.
RunInv ==
    \A s \in Sessions :
        /\ attached[s] <=> pc[s] \in {"reset", "schedule", "run", "unschedule",
                                      "remove", "detach"}
        /\ attached[s] => context[s] = "alive"
        /\ pc[s] = "attach" => context[s] = "alive"
        /\ pc[s] = "run" => (scheduler[s] <=> IsFFmpeg(s))

\* A client in requestCancel keeps the mutex of an attached context.
MutexInv ==
    /\ \A c \in Clients : call[c].at = "stop" =>
          /\ contextMutex[call[c].id] = c
          /\ attached[call[c].id] /\ cancelled[call[c].id]
    /\ \A s \in Sessions : contextMutex[s] # NoClient =>
          /\ call[contextMutex[s]].at = "stop"
          /\ call[contextMutex[s]].id = s

\* The request is remembered before the mutex is waited for ...
CallInv ==
    \A c \in Clients :
        /\ call[c].at \in {"state", "request", "mark", "lock", "stop"} =>
              call[c].id \in FFmpegIds
        /\ call[c].at \in {"mark", "lock", "stop"} => requested[call[c].id]
        /\ call[c].at \in {"peek", "poke", "running"} =>
              call[c].id \notin FFmpegIds
        /\ call[c].at = "markOnly" /\ call[c].live =>
              call[c].id \notin FFmpegIds

\* ... and whoever comes later, the context or the scheduler, finds it.
AskedInv ==
    \A s \in FFmpegIds :
        asked[s] =>
            /\ pc[s] \in {"created", "register", "init", "attach"} =>
                  requested[s]
            /\ pc[s] \in {"reset", "schedule"} => cancelled[s]
            /\ pc[s] = "run" => terminate[s]

IInv == RunInv /\ MutexInv /\ CallInv /\ AskedInv

-----------------------------------------------------------------------------
(* A step of a session's thread leaves the clients' calls and what they    *)
(* were told alone.                                                        *)

LEMMA SessionStepFrame ==
    ASSUME NEW s \in Sessions, SessionStep(s)
    PROVE  UNCHANGED <<call, requested, contextMutex, ghosts>>
BY DEF SessionStep, Goes, ghosts, nativeVars, StartRunning, RegisterSessionId,
       InitContext, InitContextFails, SetContext, ResetState, SetScheduler,
       RunInterrupted, RunFinishes, Unschedule, RemoveSession, DetachContext,
       FreeContext, Complete

(* A client leaves the session's own progress alone.                       *)
LEMMA ClientStepFrame ==
    ASSUME NEW c \in Clients, Request(c) \/ ClientStep(c)
    PROVE  UNCHANGED <<pc, context, attached, ended, scheduler>>
BY Zenon
   DEF Request, ClientStep, CancelById, CancelSession, Calls, CancelAll,
       CheckState, StoreRequest, MarkSession, CancelContext, StopScheduler,
       PeekContext, PokeContext, CheckRunning, sessionVars, nativeVars

LEMMA RunInvSessionStep ==
    ASSUME TypeOK, RunInv, NEW s \in Sessions, SessionStep(s)
    PROVE  RunInv'
<1> USE DEF TypeOK, RunInv, Goes, ghosts, nativeVars
<1>1. CASE StartRunning(s) \/ RegisterSessionId(s) \/ InitContextFails(s)
           \/ ResetState(s) \/ RunInterrupted(s) \/ RunFinishes(s)
           \/ RemoveSession(s) \/ Complete(s)
  BY <1>1 DEF StartRunning, RegisterSessionId, InitContextFails, ResetState,
              RunInterrupted, RunFinishes, RemoveSession, Complete
<1>2. CASE InitContext(s)
  BY <1>2 DEF InitContext
<1>3. CASE SetContext(s)
  BY <1>3 DEF SetContext
<1>4. CASE SetScheduler(s)
  <2>1. scheduler' = [scheduler EXCEPT ![s] = IsFFmpeg(s)]
    BY <1>4 DEF SetScheduler
  <2> QED
    BY <1>4, <2>1 DEF SetScheduler, IsFFmpeg
<1>5. CASE Unschedule(s)
  BY <1>5 DEF Unschedule
<1>6. CASE DetachContext(s)
  BY <1>6 DEF DetachContext
<1>7. CASE FreeContext(s)
  BY <1>7 DEF FreeContext
<1> QED
  BY <1>1, <1>2, <1>3, <1>4, <1>5, <1>6, <1>7 DEF SessionStep

LEMMA RunInvStep ==
    ASSUME TypeOK, RunInv, [Next]_vars
    PROVE  RunInv'
<1>1. ASSUME NEW c \in Clients, Request(c) \/ ClientStep(c)
      PROVE  RunInv'
  BY <1>1, ClientStepFrame DEF RunInv, IsFFmpeg
<1>2. ASSUME NEW s \in Sessions, Expire(s)
      PROVE  RunInv'
  BY <1>2 DEF Expire, RunInv, IsFFmpeg, sessionVars, nativeVars
<1>3. CASE UNCHANGED vars \/ ClearSessions
  BY <1>3
  DEF RunInv, IsFFmpeg, vars, ClearSessions, sessionVars, nativeVars
<1> QED
  BY <1>1, <1>2, <1>3, RunInvSessionStep DEF Next, Rest

LEMMA MutexInvSessionStep ==
    ASSUME TypeOK, RunInv, MutexInv, NEW s \in Sessions, SessionStep(s)
    PROVE  MutexInv'
<1>1. UNCHANGED <<call, contextMutex>>
  BY SessionStepFrame
<1>2. \A t \in Sessions : attached[t] /\ contextMutex[t] # NoClient =>
                           attached'[t] /\ cancelled'[t] = cancelled[t]
  <2>1. CASE SetContext(s)
    BY <2>1 DEF SetContext, Goes, TypeOK, RunInv
  <2>2. CASE DetachContext(s)
    BY <2>2 DEF DetachContext, TypeOK, nativeVars
  <2>3. CASE UNCHANGED <<attached, cancelled>>
    BY <2>3
  <2> QED
    BY <2>1, <2>2, <2>3
    DEF SessionStep, nativeVars, StartRunning, RegisterSessionId, InitContext,
        InitContextFails, ResetState, SetScheduler, RunInterrupted,
        RunFinishes, Unschedule, RemoveSession, FreeContext, Complete
<1>3. \A c \in Clients : call[c].at = "stop" =>
          call[c].id \in Sessions /\ contextMutex[call[c].id] # NoClient
  BY ClientsAssumption DEF TypeOK, MutexInv
<1> QED
  BY <1>1, <1>2, <1>3 DEF MutexInv

LEMMA MutexInvClientStep ==
    ASSUME TypeOK, MutexInv, NEW c \in Clients, Request(c) \/ ClientStep(c)
    PROVE  MutexInv'
<1> USE ClientsAssumption DEF TypeOK, MutexInv
<1>1. attached' = attached
  BY ClientStepFrame
<1>2. ASSUME call[c].at # "stop", call'[c].at # "stop",
             \A d \in Clients \ {c} : call'[d] = call[d],
             contextMutex' = contextMutex,
             \A s \in Sessions : cancelled[s] => cancelled'[s]
      PROVE  MutexInv'
  BY <1>1, <1>2
<1>3. CASE Request(c)
  <2>1. ASSUME NEW s, NEW at \in {"state", "markOnly", "peek"},
               Calls(c, s, at)
        PROVE  MutexInv'
    BY <1>2, <2>1 DEF Calls, nativeVars
  <2>2. ASSUME NEW s, CancelById(c, s) \/ CancelSession(c, s)
        PROVE  MutexInv'
    <3>1. \E at \in {"state", "markOnly", "peek"} : Calls(c, s, at)
      BY <2>2, Zenon DEF CancelById, CancelSession
    <3> QED
      BY <2>1, <3>1
  <2>3. CASE CancelAll(c)
    BY <1>2, <2>3 DEF CancelAll, nativeVars
  <2> QED
    BY <1>3, <2>2, <2>3 DEF Request
<1>4. CASE CheckState(c) \/ StoreRequest(c) \/ MarkSession(c)
           \/ PeekContext(c) \/ CheckRunning(c)
  <2>1. UNCHANGED <<contextMutex, cancelled>>
    BY <1>4, Zenon
    DEF CheckState, StoreRequest, MarkSession, PeekContext, CheckRunning,
        nativeVars
  <2>2. /\ call[c].at # "stop"
        /\ \/ \E accepted : Returns(c, accepted)
           \/ call' = [call EXCEPT ![c] = [@ EXCEPT !.at = "request",
                                                    !.live = TRUE]]
           \/ \E to \in {"mark", "lock", "poke", "running", "markOnly"} :
                 Moves(c, to)
    <3>1. CASE CheckState(c)
      BY <3>1, Zenon DEF CheckState
    <3>2. CASE StoreRequest(c) \/ PeekContext(c) \/ CheckRunning(c)
      BY <3>2, Zenon DEF StoreRequest, PeekContext, CheckRunning
    <3>3. CASE MarkSession(c)
      BY <3>3, Zenon DEF MarkSession
    <3> QED
      BY <1>4, <3>1, <3>2, <3>3
  <2>3. call'[c].at # "stop"
        /\ \A d \in Clients \ {c} : call'[d] = call[d]
    <3>1. CASE \E accepted : Returns(c, accepted)
      <4>1. call' = [call EXCEPT ![c] = Idle(@.left)]
        BY <3>1, Zenon DEF Returns
      <4> QED
        BY <4>1 DEF Idle
    <3>2. CASE call' = [call EXCEPT ![c] = [@ EXCEPT !.at = "request",
                                                     !.live = TRUE]]
      BY <3>2
    <3>3. CASE \E to \in {"mark", "lock", "poke", "running", "markOnly"} :
                  Moves(c, to)
      BY <3>3 DEF Moves
    <3> QED
      BY <2>2, <3>1, <3>2, <3>3
  <2> QED
    BY <1>2, <2>1, <2>2, <2>3
<1>5. CASE PokeContext(c)
  BY <1>2, <1>5 DEF PokeContext, Moves
<1>6. CASE CancelContext(c)
  <2>1. CASE attached[call[c].id]
    <3>1. /\ cancelled' = [cancelled EXCEPT ![call[c].id] = TRUE]
          /\ contextMutex' = [contextMutex EXCEPT ![call[c].id] = c]
          /\ Moves(c, "stop")
      BY <1>6, <2>1, Zenon DEF CancelContext
    <3>2. call[c].at = "lock" /\ contextMutex[call[c].id] = NoClient
          /\ call[c].id \in Sessions
      BY <1>6 DEF CancelContext
    <3> QED
      BY <1>1, <2>1, <3>1, <3>2 DEF Moves
  <2>2. CASE ~attached[call[c].id]
    <3>1. Returns(c, TRUE) /\ UNCHANGED <<cancelled, contextMutex>>
      BY <1>6, <2>2, Zenon DEF CancelContext
    <3> QED
      BY <1>2, <1>6, <3>1 DEF CancelContext, Returns, Idle
  <2> QED
    BY <2>1, <2>2
<1>7. CASE StopScheduler(c)
  <2>1. /\ call' = [call EXCEPT ![c] = Idle(@.left)]
        /\ contextMutex' = [contextMutex EXCEPT ![call[c].id] = NoClient]
        /\ cancelled' = cancelled
        /\ call[c].at = "stop" /\ call[c].id \in Sessions
    BY <1>7, Zenon DEF StopScheduler, Returns
  <2> QED
    BY <1>1, <2>1 DEF Idle
<1> QED
  BY <1>3, <1>4, <1>5, <1>6, <1>7 DEF ClientStep

LEMMA MutexInvStep ==
    ASSUME TypeOK, RunInv, MutexInv, [Next]_vars
    PROVE  MutexInv'
<1>1. ASSUME NEW s \in Sessions, Expire(s)
      PROVE  MutexInv'
  BY <1>1 DEF Expire, MutexInv, sessionVars, nativeVars
<1>3. CASE ClearSessions
  BY <1>3 DEF ClearSessions, MutexInv, sessionVars, nativeVars
<1>2. CASE UNCHANGED vars
  BY <1>2 DEF MutexInv, vars, sessionVars, nativeVars
<1> QED
  BY <1>1, <1>2, <1>3, MutexInvSessionStep, MutexInvClientStep DEF Next, Rest

LEMMA CallInvStep ==
    ASSUME TypeOK, CallInv, [Next]_vars
    PROVE  CallInv'
<1> USE DEF TypeOK, CallInv
<1>1. ASSUME NEW c \in Clients,
             \A d \in Clients \ {c} : call'[d] = call[d],
             \A s \in Sessions : requested[s] => requested'[s],
             \/ call'[c].at = "idle"
             \/ call'[c].at \in {"state", "request"}
                   /\ call'[c].id \in FFmpegIds
             \/ call'[c].at \in {"mark", "lock", "stop"}
                   /\ call'[c].id \in FFmpegIds /\ requested'[call'[c].id]
             \/ call'[c].at \in {"peek", "poke", "running"}
                   /\ call'[c].id \notin FFmpegIds
             \/ call'[c].at = "markOnly"
                   /\ (call'[c].live => call'[c].id \notin FFmpegIds)
      PROVE  CallInv'
  BY <1>1, SessionsAssumption
<1>2. ASSUME NEW c \in Clients, NEW s \in Sessions,
             CancelById(c, s) \/ CancelSession(c, s)
      PROVE  CallInv'
  <2>1. requested' = requested
    BY <1>2, Zenon DEF CancelById, CancelSession, Calls, sessionVars
  <2>2. ASSUME NEW at \in {"state", "markOnly", "peek"}, Calls(c, s, at)
        PROVE  call' = [call EXCEPT ![c] =
                   [at |-> at, id |-> s,
                    live |-> Running(s) /\ ~IsFFmpeg(s),
                    left |-> call[c].left - 1]]
    BY <2>2 DEF Calls
  <2>3. CASE \/ CancelById(c, s) /\ s \in history /\ IsFFmpeg(s)
             \/ CancelSession(c, s) /\ IsFFmpeg(s)
    <3>1. Calls(c, s, "state") /\ s \in FFmpegIds
      BY <2>3, Zenon DEF CancelById, CancelSession, IsFFmpeg
    <3> QED
      BY <1>1, <2>1, <2>2, <3>1
  <2>4. CASE CancelById(c, s) /\ ~(s \in history /\ IsFFmpeg(s))
    <3>1. Calls(c, s, "markOnly")
      BY <2>4, Zenon DEF CancelById
    <3>2. call' = [call EXCEPT ![c] =
                      [at |-> "markOnly", id |-> s,
                       live |-> Running(s) /\ ~IsFFmpeg(s),
                       left |-> call[c].left - 1]]
      BY <2>2, <3>1
    <3>3. /\ call'[c].at = "markOnly" /\ call'[c].id = s
          /\ call'[c].live = (Running(s) /\ ~IsFFmpeg(s))
          /\ \A d \in Clients \ {c} : call'[d] = call[d]
      BY <3>2
    <3>4. call'[c].live => s \notin FFmpegIds
      BY <3>3, Zenon DEF IsFFmpeg
    <3> QED
      BY <1>1, <2>1, <3>3, <3>4
  <2>5. CASE CancelSession(c, s) /\ ~IsFFmpeg(s)
    <3>1. Calls(c, s, "peek") /\ s \notin FFmpegIds
      BY <2>5, Zenon DEF CancelSession, IsFFmpeg
    <3> QED
      BY <1>1, <2>1, <2>2, <3>1
  <2> QED
    BY <1>2, <2>3, <2>4, <2>5
<1>3. ASSUME NEW c \in Clients, CancelAll(c)
      PROVE  CallInv'
  BY <1>3 DEF CancelAll, sessionVars
<1>4. ASSUME NEW c \in Clients, CheckState(c)
      PROVE  CallInv'
  <2>1. CASE Terminal(call[c].id)
    <3>1. Returns(c, FALSE) /\ requested' = requested
      BY <1>4, <2>1, Zenon DEF CheckState, sessionVars
    <3> QED
      BY <1>1, <3>1 DEF Returns, Idle
  <2>2. CASE ~Terminal(call[c].id)
    <3>1. /\ call' = [call EXCEPT ![c] = [@ EXCEPT !.at = "request",
                                                   !.live = TRUE]]
          /\ requested' = requested /\ call[c].at = "state"
      BY <1>4, <2>2, Zenon DEF CheckState, sessionVars
    <3> QED
      BY <1>1, <3>1
  <2> QED
    BY <2>1, <2>2
<1>5. ASSUME NEW c \in Clients, StoreRequest(c)
      PROVE  CallInv'
  <2>1. call[c].id \in Sessions
    BY <1>5 DEF StoreRequest
  <2> QED
    BY <1>1, <1>5, <2>1 DEF StoreRequest, Moves
<1>6. ASSUME NEW c \in Clients,
             MarkSession(c) \/ CancelContext(c) \/ StopScheduler(c)
      PROVE  CallInv'
  <2>1. requested' = requested
    BY <1>6, Zenon DEF MarkSession, CancelContext, StopScheduler, sessionVars
  <2>2. \/ \E accepted : Returns(c, accepted)
        \/ call[c].at = "mark" /\ Moves(c, "lock")
        \/ call[c].at = "lock" /\ Moves(c, "stop")
    <3>1. CASE CancelContext(c)
      <4>1. Returns(c, TRUE) \/ (call[c].at = "lock" /\ Moves(c, "stop"))
        BY <3>1, Zenon DEF CancelContext
      <4> QED
        BY <4>1
    <3>2. CASE MarkSession(c) \/ StopScheduler(c)
      BY <3>2, Zenon DEF MarkSession, StopScheduler
    <3> QED
      BY <1>6, <3>1, <3>2
  <2> QED
    BY <1>1, <2>1, <2>2 DEF Returns, Idle, Moves
<1>7. ASSUME NEW c \in Clients,
             PeekContext(c) \/ PokeContext(c) \/ CheckRunning(c)
      PROVE  CallInv'
  <2>1. requested' = requested
    BY <1>7, Zenon DEF PeekContext, PokeContext, CheckRunning, sessionVars
  <2>2. /\ call[c].at \in {"peek", "poke", "running"}
        /\ \/ \E accepted \in BOOLEAN : Returns(c, accepted)
           \/ \E to \in {"poke", "running", "markOnly"} : Moves(c, to)
    BY <1>7, Zenon DEF PeekContext, PokeContext, CheckRunning
  <2>3. CASE \E accepted : Returns(c, accepted)
    BY <1>1, <2>1, <2>3 DEF Returns, Idle
  <2>4. CASE \E to \in {"poke", "running", "markOnly"} : Moves(c, to)
    <3>1. /\ call'[c].at \in {"poke", "running", "markOnly"}
          /\ call'[c].id \notin FFmpegIds
          /\ \A d \in Clients \ {c} : call'[d] = call[d]
      BY <2>2, <2>4 DEF Moves
    <3> QED
      BY <1>1, <2>1, <3>1
  <2> QED
    BY <2>2, <2>3, <2>4
<1>8. ASSUME NEW s \in Sessions, SessionStep(s) \/ Expire(s)
      PROVE  CallInv'
  <2>1. UNCHANGED <<call, requested>>
    BY <1>8, SessionStepFrame DEF Expire, sessionVars
  <2> QED
    BY <2>1
<1>9. CASE UNCHANGED vars \/ ClearSessions
  BY <1>9 DEF vars, ClearSessions, sessionVars
<1> QED
  BY <1>2, <1>3, <1>4, <1>5, <1>6, <1>7, <1>8, <1>9
  DEF Next, Rest, Request, ClientStep

-----------------------------------------------------------------------------
LEMMA AskedInvSessionStep ==
    ASSUME TypeOK, RunInv, AskedInv, NEW s \in Sessions, SessionStep(s)
    PROVE  AskedInv'
<1> USE SessionsAssumption DEF TypeOK, AskedInv, Goes, ghosts, nativeVars
<1>1. UNCHANGED <<asked, requested>>
  BY SessionStepFrame DEF ghosts
<1>2. CASE SetContext(s)
  <2>1. cancelled' = [cancelled EXCEPT ![s] = IsFFmpeg(s) /\ requested[s]]
    BY <1>2 DEF SetContext
  <2> QED
    BY <1>1, <1>2, <2>1 DEF SetContext, IsFFmpeg
<1>3. CASE SetScheduler(s)
  <2>1. terminate' = [terminate EXCEPT ![s] =
                         IsFFmpeg(s) /\ (cancelled[s] \/ MapSays(s))]
    BY <1>3 DEF SetScheduler
  <2> QED
    BY <1>1, <1>3, <2>1 DEF SetScheduler, IsFFmpeg
<1>4. CASE StartRunning(s) \/ RegisterSessionId(s) \/ InitContext(s)
           \/ InitContextFails(s)
  BY <1>1, <1>4
  DEF StartRunning, RegisterSessionId, InitContext, InitContextFails
<1>5. CASE ResetState(s)
  BY <1>1, <1>5 DEF ResetState
<1>6. CASE RunInterrupted(s) \/ RunFinishes(s) \/ RemoveSession(s)
           \/ Unschedule(s) \/ Complete(s)
  BY <1>1, <1>6
  DEF RunInterrupted, RunFinishes, RemoveSession, Unschedule, Complete
<1>7. CASE DetachContext(s) \/ FreeContext(s)
  BY <1>1, <1>7 DEF DetachContext, FreeContext
<1> QED
  BY <1>2, <1>3, <1>4, <1>5, <1>6, <1>7 DEF SessionStep

\* What a client changes, it sets to TRUE; it returns when the request is in
\* place.
LEMMA AskedInvClientStep ==
    ASSUME TypeOK, RunInv, MutexInv, CallInv, AskedInv,
           NEW c \in Clients, Request(c) \/ ClientStep(c)
    PROVE  AskedInv'
<1> USE SessionsAssumption DEF TypeOK
<1>1. UNCHANGED <<pc, attached>>
  BY ClientStepFrame
<1>2. ASSUME \A s \in FFmpegIds :
                 /\ requested[s] => requested'[s]
                 /\ cancelled[s] => cancelled'[s]
                 /\ terminate[s] => terminate'[s],
             \A s \in FFmpegIds : asked'[s] =>
                 \/ asked[s]
                 \/ /\ requested'[s]
                    /\ attached[s] => cancelled'[s]
                    /\ pc[s] = "run" => terminate'[s]
      PROVE  AskedInv'
  <2> SUFFICES ASSUME NEW s \in FFmpegIds, asked'[s]
               PROVE  /\ pc[s] \in {"created", "register", "init",
                                      "attach"} => requested'[s]
                      /\ pc[s] \in {"reset", "schedule"} => cancelled'[s]
                      /\ pc[s] = "run" => terminate'[s]
    BY <1>1 DEF AskedInv
  <2> QED
    BY <1>2 DEF AskedInv, RunInv
<1>3. ASSUME UNCHANGED <<requested, cancelled, terminate, asked>>
      PROVE  AskedInv'
  BY <1>2, <1>3
<1>4. CASE Request(c)
  BY <1>3, <1>4, Zenon
  DEF Request, CancelById, CancelSession, Calls, CancelAll, sessionVars,
      nativeVars
<1>5. ASSUME Returns(c, FALSE), UNCHANGED <<requested, cancelled, terminate>>
      PROVE  AskedInv'
  BY <1>3, <1>5 DEF Returns
<1>6. CASE CheckState(c) \/ CheckRunning(c)
  <2>1. /\ Returns(c, FALSE) \/ UNCHANGED ghosts
        /\ UNCHANGED <<requested, cancelled, terminate>>
    BY <1>6, Zenon DEF CheckState, CheckRunning, sessionVars, nativeVars
  <2> QED
    BY <1>3, <1>5, <2>1 DEF ghosts
<1>7. CASE StoreRequest(c)
  <2>1. UNCHANGED <<cancelled, terminate, asked>>
    BY <1>7 DEF StoreRequest, nativeVars, ghosts
  <2>2. \A s \in FFmpegIds : requested[s] => requested'[s]
    BY <1>7 DEF StoreRequest
  <2> QED
    BY <1>2, <2>1, <2>2
<1>8. CASE MarkSession(c)
  <2>1. UNCHANGED <<requested, cancelled, terminate>>
    BY <1>8 DEF MarkSession, sessionVars, nativeVars
  <2>2. CASE call[c].at = "mark"
    BY <1>3, <1>8, <2>1, <2>2 DEF MarkSession, ghosts
  <2>3. CASE call[c].at = "markOnly"
    <3>1. Returns(c, call[c].live)
      BY <1>8, <2>3 DEF MarkSession
    <3>2. call[c].live => call[c].id \notin FFmpegIds
      BY <2>3 DEF CallInv
    <3> QED
      BY <1>2, <2>1, <3>1, <3>2 DEF Returns
  <2> QED
    BY <1>8, <2>2, <2>3 DEF MarkSession
<1>9. CASE CancelContext(c)
  <2>1. UNCHANGED <<requested, terminate>>
    BY <1>9 DEF CancelContext, sessionVars
  <2>2. CASE attached[call[c].id]
    <3>1. /\ cancelled' = [cancelled EXCEPT ![call[c].id] = TRUE]
          /\ asked' = asked
      BY <1>9, <2>2, Zenon DEF CancelContext, ghosts
    <3> QED
      BY <1>2, <2>1, <3>1
  <2>3. CASE ~attached[call[c].id]
    <3>1. asked' = [asked EXCEPT ![call[c].id] = TRUE]
          /\ cancelled' = cancelled
      BY <1>9, <2>3, Zenon DEF CancelContext, Returns
    <3>2. /\ call[c].id \in FFmpegIds /\ requested[call[c].id]
          /\ pc[call[c].id] # "run"
      BY <1>9, <2>3 DEF CancelContext, CallInv, RunInv
    <3> QED
      BY <1>2, <2>1, <2>3, <3>1, <3>2
  <2> QED
    BY <2>2, <2>3
<1>10. CASE StopScheduler(c)
  <2>1. /\ terminate' = [terminate EXCEPT ![call[c].id] =
                            @ \/ scheduler[call[c].id]]
        /\ asked' = [asked EXCEPT ![call[c].id] = TRUE]
        /\ UNCHANGED <<requested, cancelled>>
    BY <1>10, Zenon DEF StopScheduler, Returns, sessionVars
  <2>2. /\ call[c].id \in FFmpegIds /\ requested[call[c].id]
        /\ cancelled[call[c].id]
        /\ pc[call[c].id] = "run" => scheduler[call[c].id]
    BY <1>10 DEF StopScheduler, CallInv, MutexInv, RunInv, IsFFmpeg
  <2> QED
    BY <1>2, <2>1, <2>2
<1>11. CASE PeekContext(c)
  BY <1>3, <1>11, Zenon DEF PeekContext, sessionVars, nativeVars, ghosts
<1>12. CASE PokeContext(c)
  <2>1. UNCHANGED <<requested, terminate, asked>>
    BY <1>12 DEF PokeContext, sessionVars, ghosts
  <2>2. \A s \in FFmpegIds : cancelled[s] => cancelled'[s]
    BY <1>12 DEF PokeContext
  <2> QED
    BY <1>2, <2>1, <2>2
<1> QED
  BY <1>4, <1>6, <1>7, <1>8, <1>9, <1>10, <1>11, <1>12 DEF ClientStep

LEMMA AskedInvStep ==
    ASSUME TypeOK, RunInv, MutexInv, CallInv, AskedInv, [Next]_vars
    PROVE  AskedInv'
<1>1. ASSUME NEW s \in Sessions, Expire(s)
      PROVE  AskedInv'
  BY <1>1 DEF Expire, AskedInv, sessionVars, nativeVars, ghosts
<1>3. CASE ClearSessions
  BY <1>3 DEF ClearSessions, AskedInv, sessionVars, nativeVars, ghosts
<1>2. CASE UNCHANGED vars
  BY <1>2 DEF AskedInv, vars, sessionVars, nativeVars, ghosts
<1> QED
  BY <1>1, <1>2, <1>3, AskedInvSessionStep, AskedInvClientStep DEF Next, Rest

-----------------------------------------------------------------------------
LEMMA Inductive == Spec => [](TypeOK /\ IInv)
<1>1. Init => TypeOK /\ IInv
  <2>1. Init => TypeOK
    BY SizeAssumption, BoundsAssumption DEF Init, TypeOK, Idle, Slots
  <2>2. Init => IInv
    BY SessionsAssumption, ClientsAssumption
    DEF Init, IInv, RunInv, MutexInv, CallInv, AskedInv, Idle
  <2> QED
    BY <2>1, <2>2
<1>2. TypeOK /\ IInv /\ [Next]_vars => TypeOK' /\ IInv'
  BY TypeOKStep, RunInvStep, MutexInvStep, CallInvStep, AskedInvStep DEF IInv
<1> QED
  BY <1>1, <1>2, PTL DEF Spec

(* When requestCancel has returned, a run of the session that began before *)
(* or begins after it has a scheduler that was told to stop.               *)
THEOREM RequestsReachTheScheduler == Spec => []RequestReachesScheduler
<1>1. IInv => RequestReachesScheduler
  BY DEF IInv, AskedInv, RequestReachesScheduler
<1> QED
  BY <1>1, Inductive, PTL

(* requestCancel never uses the context after ffmpeg_free.                 *)
THEOREM ContextsInUseAreAlive == Spec => []CancelUsesLiveContext
<1>1. TypeOK /\ IInv => CancelUsesLiveContext
  <2> SUFFICES ASSUME TypeOK, IInv, NEW c \in Clients, call[c].at = "stop"
               PROVE  context[call[c].id] = "alive"
    BY DEF CancelUsesLiveContext
  <2>1. call[c].id \in Sessions /\ attached[call[c].id]
    BY SessionsAssumption DEF IInv, CallInv, MutexInv
  <2> QED
    BY <2>1 DEF IInv, RunInv
<1> QED
  BY <1>1, Inductive, PTL

-----------------------------------------------------------------------------
(* Who may be cancelled.                                                   *)

\* A client named a session whose word in sessionMap is number k.
Touched(k) == \E t \in Sessions : SlotOf(t) = k /\ named[t]

\* Whatever can interrupt a run goes back to a client that named the session,
\* or one that shares its word, or to a cancel() during the run.
CallsName == \A c \in Clients : call[c].at # "idle" => named[call[c].id]
FlagsName ==
    \A s \in Sessions : /\ requested[s] \/ cancelled[s] => named[s]
                        /\ terminate[s] => Touched(SlotOf(s))
WordsName == \A k \in Slots : sessionMap[k] = 2 => Touched(k)
SignalsSweep ==
    \A s \in Sessions :
        IsFFmpeg(s) /\ pc[s] \in {"schedule", "run"} /\ signals > 0 => swept[s]
CancelledName ==
    \A s \in Sessions :
        ended[s] = "cancelled" => swept[s] \/ Touched(SlotOf(s))

NamedInv ==
    CallsName /\ FlagsName /\ WordsName /\ SignalsSweep /\ CancelledName

LEMMA TouchedStays ==
    ASSUME NEW k, Touched(k), \A t \in Sessions : named[t] => named'[t]
    PROVE  Touched(k)'
BY DEF Touched

LEMMA NamedTouches ==
    ASSUME NEW s \in Sessions, named[s]
    PROVE  Touched(SlotOf(s))
BY DEF Touched

LEMMA NamedInvSessionStep ==
    ASSUME TypeOK, NamedInv, NEW s \in Sessions, SessionStep(s)
    PROVE  NamedInv'
<1> USE DEF TypeOK, Goes
<1>1. UNCHANGED <<call, requested, named, swept>>
  BY SessionStepFrame DEF ghosts
<1>2. \A k : Touched(k)' <=> Touched(k)
  BY <1>1 DEF Touched
<1>3. CallsName'
  BY <1>1 DEF NamedInv, CallsName
<1>4. FlagsName'
  <2> USE DEF NamedInv, FlagsName
  <2>1. CASE SetContext(s)
    <3>1. cancelled' = [cancelled EXCEPT ![s] = IsFFmpeg(s) /\ requested[s]]
          /\ UNCHANGED terminate
      BY <2>1 DEF SetContext
    <3>2. \A t \in Sessions : cancelled'[t] => cancelled[t] \/ requested[t]
      BY <3>1
    <3> QED
      BY <1>1, <1>2, <3>1, <3>2
  <2>2. CASE SetScheduler(s)
    <3>1. terminate' = [terminate EXCEPT ![s] =
                           IsFFmpeg(s) /\ (cancelled[s] \/ MapSays(s))]
          /\ UNCHANGED cancelled
      BY <2>2 DEF SetScheduler
    <3>2. \A t \in Sessions : terminate'[t] =>
              terminate[t] \/ (t = s /\ (cancelled[s] \/ MapSays(s)))
      BY <3>1
    <3>3. MapSays(s) => Touched(SlotOf(s))
      BY SlotOfType DEF MapSays, NamedInv, WordsName
    <3>4. cancelled[s] => Touched(SlotOf(s))
      BY NamedTouches
    <3> QED
      BY <1>1, <1>2, <3>1, <3>2, <3>3, <3>4
  <2>3. CASE UNCHANGED <<cancelled, terminate>>
    BY <1>1, <1>2, <2>3
  <2> QED
    BY <2>1, <2>2, <2>3
    DEF SessionStep, nativeVars, StartRunning, RegisterSessionId, InitContext,
        InitContextFails, ResetState, RunInterrupted, RunFinishes, Unschedule,
        RemoveSession, DetachContext, FreeContext, Complete
<1>5. WordsName'
  <2>1. CASE RegisterSessionId(s) \/ InitContextFails(s) \/ RemoveSession(s)
    <3>1. \A k \in Slots : sessionMap'[k] = 2 => sessionMap[k] = 2
      BY <2>1 DEF RegisterSessionId, InitContextFails, RemoveSession
    <3> QED
      BY <1>2, <3>1 DEF NamedInv, WordsName
  <2>2. CASE UNCHANGED sessionMap
    BY <1>2, <2>2 DEF NamedInv, WordsName
  <2> QED
    BY <2>1, <2>2
    DEF SessionStep, StartRunning, InitContext, SetContext, ResetState,
        SetScheduler, RunInterrupted, RunFinishes, Unschedule, DetachContext,
        FreeContext, Complete
<1>6. SignalsSweep'
  <2> USE DEF NamedInv, SignalsSweep, IsFFmpeg
  <2>1. CASE ResetState(s)
    <3>1. CASE s \in FFmpegIds
      BY <2>1, <3>1 DEF ResetState
    <3>2. CASE s \notin FFmpegIds
      BY <1>1, <2>1, <3>2 DEF ResetState
    <3> QED
      BY <3>1, <3>2
  <2>2. CASE /\ signals' = signals
             /\ \A t \in Sessions : pc'[t] \in {"schedule", "run"} =>
                                       pc[t] \in {"schedule", "run"}
    BY <1>1, <2>2
  <2> QED
    BY <2>1, <2>2
    DEF SessionStep, StartRunning, RegisterSessionId, InitContext,
        InitContextFails, SetContext, SetScheduler, RunInterrupted,
        RunFinishes, Unschedule, RemoveSession, DetachContext, FreeContext,
        Complete
<1>7. CancelledName'
  <2> USE DEF NamedInv, CancelledName
  <2>1. CASE RunInterrupted(s)
    <3>1. swept[s] \/ Touched(SlotOf(s))
      <4>1. CASE cancelled[s]
        BY <4>1, NamedTouches DEF FlagsName
      <4>2. CASE MapSays(s)
        BY <4>2, SlotOfType DEF MapSays, WordsName
      <4>3. CASE IsFFmpeg(s) /\ terminate[s]
        BY <4>3 DEF FlagsName
      <4>4. CASE IsFFmpeg(s) /\ signals > 0
        BY <2>1, <4>4 DEF SignalsSweep, RunInterrupted
      <4> QED
        BY <2>1, <4>1, <4>2, <4>3, <4>4 DEF RunInterrupted, Interrupted
    <3> QED
      BY <1>1, <1>2, <2>1, <3>1 DEF RunInterrupted
  <2>2. CASE \A t \in Sessions : ended'[t] = "cancelled" =>
                                     ended[t] = "cancelled"
    BY <1>1, <1>2, <2>2
  <2> QED
    BY <2>1, <2>2
    DEF SessionStep, StartRunning, RegisterSessionId, InitContext,
        InitContextFails, SetContext, ResetState, SetScheduler, RunFinishes,
        Unschedule, RemoveSession, DetachContext, FreeContext, Complete
<1> QED
  BY <1>3, <1>4, <1>5, <1>6, <1>7 DEF NamedInv

\* A client changes named and swept in one direction only, and after the call
\* it only works for the session that it named.
LEMMA ClientNames ==
    ASSUME TypeOK, NEW c \in Clients, Request(c) \/ ClientStep(c)
    PROVE  /\ \A t \in Sessions : named[t] => named'[t]
           /\ \A t \in Sessions : swept[t] => swept'[t]
           /\ \A d \in Clients \ {c} : call'[d] = call[d]
<1> USE DEF TypeOK
<1>1. ASSUME NEW s \in Sessions, NEW at, Calls(c, s, at)
      PROVE  /\ \A t \in Sessions : named[t] => named'[t]
             /\ \A t \in Sessions : swept[t] => swept'[t]
             /\ \A d \in Clients \ {c} : call'[d] = call[d]
  BY <1>1 DEF Calls
<1>2. ASSUME NEW s \in Sessions, CancelById(c, s) \/ CancelSession(c, s)
      PROVE  \E at : Calls(c, s, at)
  BY <1>2, Zenon DEF CancelById, CancelSession
<1>3. CASE CancelAll(c)
  BY <1>3 DEF CancelAll
<1>4. ASSUME NEW accepted, Returns(c, accepted)
      PROVE  /\ UNCHANGED <<named, swept>>
             /\ \A d \in Clients \ {c} : call'[d] = call[d]
  BY <1>4 DEF Returns, Idle
<1>5. ASSUME NEW to, Moves(c, to)
      PROVE  \A d \in Clients \ {c} : call'[d] = call[d]
  BY <1>5 DEF Moves
<1>6. CASE CheckState(c)
  <2>1. CASE Terminal(call[c].id)
    BY <1>4, <1>6, <2>1 DEF CheckState
  <2>2. CASE ~Terminal(call[c].id)
    BY <1>6, <2>2 DEF CheckState, ghosts
  <2> QED
    BY <2>1, <2>2
<1>7. CASE StoreRequest(c) \/ PeekContext(c) \/ PokeContext(c)
  <2>1. UNCHANGED <<named, swept>> /\ \E to : Moves(c, to)
    BY <1>7, Zenon DEF StoreRequest, PeekContext, PokeContext, ghosts
  <2> QED
    BY <1>5, <2>1
<1>8. CASE MarkSession(c) \/ CancelContext(c) \/ StopScheduler(c)
           \/ CheckRunning(c)
  <2>1. \/ \E accepted : Returns(c, accepted)
        \/ UNCHANGED <<named, swept>> /\ \E to : Moves(c, to)
    BY <1>8, Zenon
    DEF MarkSession, CancelContext, StopScheduler, CheckRunning, ghosts
  <2> QED
    BY <1>4, <1>5, <2>1
<1> QED
  BY <1>1, <1>2, <1>3, <1>6, <1>7, <1>8 DEF Request, ClientStep

\* What a client's step adds to the flags and words that stop a run.
LEMMA ClientStops ==
    ASSUME TypeOK, NEW c \in Clients, Request(c) \/ ClientStep(c)
    PROVE  /\ call'[c].at # "idle" =>
                 \/ call[c].at # "idle" /\ call'[c].id = call[c].id
                 \/ call'[c].id \in Sessions /\ named'[call'[c].id]
           /\ \A s \in Sessions :
                 \/ requested'[s] = requested[s] /\ cancelled'[s] = cancelled[s]
                 \/ call[c].at # "idle" /\ s = call[c].id
           /\ \A s \in Sessions : terminate'[s] =>
                 \/ terminate[s]
                 \/ call[c].at # "idle" /\ s = call[c].id
           /\ \A k \in Slots : sessionMap'[k] = 2 =>
                 \/ sessionMap[k] = 2
                 \/ call[c].at # "idle" /\ k = SlotOf(call[c].id)
<1> USE DEF TypeOK
<1>1. ASSUME NEW accepted, Returns(c, accepted)
      PROVE  call'[c].at = "idle"
  BY <1>1 DEF Returns, Idle
<1>2. ASSUME NEW to, Moves(c, to)
      PROVE  call'[c].id = call[c].id
  BY <1>2 DEF Moves
<1>3. ASSUME NEW s \in Sessions, NEW at, Calls(c, s, at)
      PROVE  /\ call'[c].id = s /\ named'[s]
             /\ UNCHANGED <<requested, cancelled, terminate, sessionMap>>
  BY <1>3 DEF Calls, sessionVars, nativeVars
<1>4. CASE Request(c)
  <2>1. ASSUME NEW s \in Sessions, CancelById(c, s) \/ CancelSession(c, s)
        PROVE  \E at : Calls(c, s, at)
    BY <2>1, Zenon DEF CancelById, CancelSession
  <2>2. CASE CancelAll(c)
    BY <2>2 DEF CancelAll, sessionVars, nativeVars
  <2> QED
    BY <1>3, <1>4, <2>1, <2>2 DEF Request
<1>5. CASE CheckState(c)
  <2>1. UNCHANGED <<requested, cancelled, terminate, sessionMap>>
    BY <1>5 DEF CheckState, sessionVars, nativeVars
  <2>2. CASE Terminal(call[c].id)
    <3>1. Returns(c, FALSE)
      BY <1>5, <2>2, Zenon DEF CheckState
    <3> QED
      BY <1>1, <2>1, <3>1
  <2>3. CASE ~Terminal(call[c].id)
    <3>1. /\ call[c].at = "state"
          /\ call' = [call EXCEPT ![c] = [@ EXCEPT !.at = "request",
                                                   !.live = TRUE]]
      BY <1>5, <2>3, Zenon DEF CheckState
    <3>2. call'[c].id = call[c].id
      BY <3>1
    <3> QED
      BY <2>1, <3>1, <3>2
  <2> QED
    BY <2>2, <2>3
<1>6. CASE StoreRequest(c)
  BY <1>2, <1>6 DEF StoreRequest, nativeVars
<1>7. CASE MarkSession(c)
  <2>1. UNCHANGED <<requested, cancelled, terminate>>
    BY <1>7 DEF MarkSession, sessionVars, nativeVars
  <2>2. call[c].at # "idle" /\ call[c].id \in Sessions
    BY <1>7 DEF MarkSession
  <2>3. sessionMap' = [sessionMap EXCEPT ![SlotOf(call[c].id)] = 2]
    BY <1>7 DEF MarkSession
  <2>4. (\E accepted : Returns(c, accepted)) \/ (\E to : Moves(c, to))
    BY <1>7, Zenon DEF MarkSession
  <2> QED
    BY <1>1, <1>2, <2>1, <2>2, <2>3, <2>4
<1>8. CASE CancelContext(c)
  <2>1. UNCHANGED <<requested, terminate, sessionMap>>
    BY <1>8 DEF CancelContext, sessionVars
  <2>2. \/ cancelled' = [cancelled EXCEPT ![call[c].id] = TRUE]
        \/ cancelled' = cancelled
    BY <1>8, Zenon DEF CancelContext
  <2>3. (\E accepted : Returns(c, accepted)) \/ (\E to : Moves(c, to))
    BY <1>8, Zenon DEF CancelContext
  <2>4. call[c].at # "idle" /\ call[c].id \in Sessions
    BY <1>8 DEF CancelContext
  <2> QED
    BY <1>1, <1>2, <2>1, <2>2, <2>3, <2>4
<1>9. CASE StopScheduler(c)
  <2>1. UNCHANGED <<requested, cancelled, sessionMap>>
    BY <1>9 DEF StopScheduler, sessionVars
  <2>2. terminate' = [terminate EXCEPT ![call[c].id] =
                          @ \/ scheduler[call[c].id]]
    BY <1>9, Zenon DEF StopScheduler
  <2>3. Returns(c, TRUE) /\ call[c].at # "idle"
    BY <1>9, Zenon DEF StopScheduler
  <2> QED
    BY <1>1, <2>1, <2>2, <2>3
<1>10. CASE PeekContext(c)
  <2>1. UNCHANGED <<requested, cancelled, terminate, sessionMap>>
    BY <1>10 DEF PeekContext, sessionVars, nativeVars
  <2>2. call[c].at = "peek" /\ \E to : Moves(c, to)
    BY <1>10, Zenon DEF PeekContext
  <2> QED
    BY <1>2, <2>1, <2>2
<1>11. CASE PokeContext(c)
  <2>1. UNCHANGED <<requested, terminate, sessionMap>>
    BY <1>11 DEF PokeContext, sessionVars
  <2>2. \A s \in Sessions : s # call[c].id => cancelled'[s] = cancelled[s]
    BY <1>11 DEF PokeContext
  <2>3. call[c].at = "poke" /\ \E to : Moves(c, to)
    BY <1>11, Zenon DEF PokeContext
  <2> QED
    BY <1>2, <2>1, <2>2, <2>3
<1>12. CASE CheckRunning(c)
  <2>1. UNCHANGED <<requested, cancelled, terminate, sessionMap>>
    BY <1>12 DEF CheckRunning, sessionVars, nativeVars
  <2>2. call[c].at = "running"
        /\ ((\E accepted : Returns(c, accepted)) \/ (\E to : Moves(c, to)))
    BY <1>12, Zenon DEF CheckRunning
  <2> QED
    BY <1>1, <1>2, <2>1, <2>2
<1> QED
  BY <1>4, <1>5, <1>6, <1>7, <1>8, <1>9, <1>10, <1>11, <1>12 DEF ClientStep

LEMMA NamedInvClientStep ==
    ASSUME TypeOK, NamedInv, NEW c \in Clients, Request(c) \/ ClientStep(c)
    PROVE  NamedInv'
<1> USE DEF NamedInv
<1>1. /\ \A t \in Sessions : named[t] => named'[t]
      /\ \A t \in Sessions : swept[t] => swept'[t]
      /\ \A d \in Clients \ {c} : call'[d] = call[d]
  BY ClientNames
<1>2. UNCHANGED <<pc, ended>>
  BY ClientStepFrame
<1>3. \A k : Touched(k) => Touched(k)'
  BY <1>1 DEF Touched
<1>4. /\ \A d \in Clients : call[d].at # "idle" => call[d].id \in Sessions
      /\ call[c].at # "idle" => named[call[c].id] /\ Touched(SlotOf(call[c].id))
  BY NamedTouches DEF TypeOK, CallsName
<1>5. CallsName'
  BY <1>1, <1>4, ClientStops DEF CallsName
<1>6. FlagsName'
  <2> SUFFICES ASSUME NEW s \in Sessions
               PROVE  /\ requested'[s] \/ cancelled'[s] => named'[s]
                      /\ terminate'[s] => Touched(SlotOf(s))'
    BY DEF FlagsName, SlotOf
  <2>1. requested'[s] \/ cancelled'[s] => named'[s]
    BY <1>1, <1>4, ClientStops DEF FlagsName
  <2>2. terminate'[s] => Touched(SlotOf(s))'
    BY <1>3, <1>4, ClientStops DEF FlagsName
  <2> QED
    BY <2>1, <2>2
<1>7. WordsName'
  BY <1>3, <1>4, ClientStops DEF WordsName
<1>8. SignalsSweep'
  <2>1. CASE CancelAll(c)
    <3>1. swept' = [s \in Sessions |->
                swept[s] \/ (IsFFmpeg(s) /\ pc[s] \in {"schedule", "run"})]
      BY <2>1 DEF CancelAll
    <3>2. ASSUME NEW s \in Sessions, IsFFmpeg(s), pc[s] \in {"schedule", "run"}
          PROVE  swept'[s]
      BY <3>1, <3>2
    <3> QED
      BY <1>2, <3>2 DEF SignalsSweep, IsFFmpeg
  <2>2. CASE ~CancelAll(c)
    <3>1. signals' = signals
      BY <2>2, Zenon
      DEF Request, ClientStep, CancelById, CancelSession, Calls, CheckState,
          StoreRequest, MarkSession, CancelContext, StopScheduler,
          PeekContext, PokeContext, CheckRunning
    <3> QED
      BY <1>1, <1>2, <3>1 DEF SignalsSweep, IsFFmpeg
  <2> QED
    BY <2>1, <2>2
<1>9. CancelledName'
  BY <1>1, <1>2, <1>3 DEF CancelledName, SlotOf
<1> QED
  BY <1>5, <1>6, <1>7, <1>8, <1>9

LEMMA NamedInvStep ==
    ASSUME TypeOK, NamedInv, [Next]_vars
    PROVE  NamedInv'
<1>1. ASSUME UNCHANGED <<sessionVars, nativeVars, sessionMap, signals, call,
                         ghosts>>
      PROVE  NamedInv'
  BY <1>1
  DEF NamedInv, CallsName, FlagsName, WordsName, SignalsSweep, CancelledName,
      Touched, IsFFmpeg, sessionVars, nativeVars, ghosts
<1>2. ASSUME NEW s \in Sessions, Expire(s)
      PROVE  NamedInv'
  BY <1>1, <1>2 DEF Expire
<1>3. CASE ClearSessions
  BY <1>1, <1>3 DEF ClearSessions
<1>4. CASE UNCHANGED vars
  BY <1>1, <1>4 DEF vars
<1> QED
  BY <1>2, <1>3, <1>4, NamedInvSessionStep, NamedInvClientStep DEF Next, Rest

LEMMA NamedInductive == Spec => [](TypeOK /\ NamedInv)
<1>1. Init => NamedInv
  BY SessionsAssumption, ClientsAssumption
  DEF Init, NamedInv, CallsName, FlagsName, WordsName, SignalsSweep,
      CancelledName, Idle
<1>2. TypeOK /\ NamedInv /\ [Next]_vars => NamedInv'
  BY NamedInvStep
<1> QED
  BY <1>1, <1>2, TypeCorrect, PTL DEF Spec

\* A run ends cancelled only if cancel() was called during it or a client
\* called cancel with an id that shares the session's word.
CancelledHasACause ==
    \A s \in Sessions : ended[s] = "cancelled" =>
        swept[s] \/ \E t \in Sessions : SlotOf(t) = SlotOf(s) /\ named[t]

(* Whatever the ids: no run is cancelled that nobody asked to cancel, but  *)
(* the request may have been for another session with the same word.       *)
THEOREM CancellationHasACause == Spec => []CancelledHasACause
<1>1. NamedInv => CancelledHasACause
  BY DEF NamedInv, CancelledName, CancelledHasACause, Touched
<1> QED
  BY <1>1, NamedInductive, PTL

\* Ids that lie within one turn of sessionMap do not share a word.
LEMMA NoMultipleBetween ==
    ASSUME NEW n \in Nat \ {0}, NEW d \in Int, n * d < n, n * d > -n
    PROVE  d = 0
<1>1. ASSUME d >= 1 PROVE n * d >= n
  BY <1>1, SMT
<1>2. ASSUME d <= -1 PROVE n * d <= -n
  BY <1>2, SMT
<1> QED
  BY <1>1, <1>2

LEMMA OneTurn ==
    ASSUME NEW n \in Nat \ {0}, NEW first \in Nat,
           NEW s \in first..(first + n - 1), NEW t \in first..(first + n - 1),
           s % n = t % n
    PROVE  s = t
<1>1. s = n * (s \div n) + (s % n) /\ t = n * (t \div n) + (t % n)
  OBVIOUS
<1>2. s \div n \in Int /\ t \div n \in Int
  OBVIOUS
<1> DEFINE d == (s \div n) - (t \div n)
<1>3. d \in Int
  BY <1>2
<1>4. s - t = n * d
  <2>1. \A p, q \in Int : n * p - n * q = n * (p - q)
    BY SMT
  <2>2. s - t = n * (s \div n) - n * (t \div n)
    BY <1>1
  <2> QED
    BY <1>2, <2>1, <2>2
<1> HIDE DEF d
<1>5. d = 0
  BY <1>3, <1>4, NoMultipleBetween
<1> QED
  BY <1>4, <1>5

(* The ids are numbered in sequence: while those in use lie within one     *)
(* turn of sessionMap, a run ends cancelled only if its own session was    *)
(* named or all sessions were cancelled during it.                         *)
THEOREM OnlyTheNamedAreCancelled ==
    ASSUME NEW first \in Nat,
           Sessions \subseteq first..(first + SESSION_MAP_SIZE - 1)
    PROVE  Spec => []OnlyTheNamedIsCancelled
<1>1. \A s, t \in Sessions : SlotOf(s) = SlotOf(t) => s = t
  BY SizeAssumption, OneTurn DEF SlotOf
<1>2. NamedInv => OnlyTheNamedIsCancelled
  <2>1. \A s \in Sessions : Touched(SlotOf(s)) => named[s]
    BY <1>1 DEF Touched
  <2> QED
    BY <2>1 DEF NamedInv, CancelledName, OnlyTheNamedIsCancelled
<1> QED
  BY <1>2, NamedInductive, PTL

=============================================================================
