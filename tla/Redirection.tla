----------------------------- MODULE Redirection -----------------------------
(***************************************************************************)
(* Turning the redirection of logs on and off (FFmpegKitConfig.cpp).       *)
(*                                                                         *)
(* enableRedirection creates the callback thread and then installs the log *)
(* callback; disableRedirection stops the thread, waits five seconds for   *)
(* it, detaches it when it has not ended by then, because a callback of    *)
(* the application takes long, and removes the log callback.  Only the     *)
(* flag is tested and set under a lock; several clients may be anywhere    *)
(* between.  Messages that are in the list when the thread stops stay      *)
(* there and are delivered when redirection is turned on again.            *)
(*                                                                         *)
(* pthread_timedjoin_np is the one of the C library, or (fallback) that of *)
(* FFmpegKitConfig.cpp for systems without it: a helper thread joins, and  *)
(* of the helper and its caller the last to leave frees what they share.   *)
(*                                                                         *)
(* What a message is, whom it belongs to, its counter, which an execution  *)
(* may set back, and who waits for it is in MessageTransit.                *)
(***************************************************************************)
EXTENDS Integers, Sequences

CONSTANTS
  Clients,      \* threads of the application
  Fallbacks,    \* whether builds are meant whose C library has no pthread_timedjoin_np
  MayFail,      \* pthread_create and calloc may fail
  MayExecute,   \* sessions are executed meanwhile
  MaxCalls,     \* bound: calls of a client
  Turns,        \* bound: the calls that are made, each a client and a number
  MaxThreads,   \* bound: callback threads
  MaxMessages   \* bound: messages logged

ASSUME FlagsAssumption == Fallbacks \cup {MayFail, MayExecute} \subseteq BOOLEAN
ASSUME BoundsAssumption == {MaxCalls, MaxMessages} \subseteq Nat /\ MaxThreads \in Nat \ {0}

Threads == 1 .. MaxThreads
Joins == Clients \X (1 .. MaxCalls)
ASSUME TurnsAssumption == Turns \subseteq Joins
None == 0

VARIABLES
  fallback,   \* the build has a pthread_timedjoin_np of its own
  enabled,    \* redirectionEnabled
  thread,     \* callbackThread, 0 for none
  at,         \* where each callback thread is
  held,       \* the message it delivers
  kept,       \* what the system knows of it: joinable, being joined, joined or detached
  list,       \* the callback data list
  unpushed,   \* messages counted but not yet in the list
  sent,       \* number of messages counted
  delivered,  \* the messages that process_log has dealt with
  installed,  \* the log callback of FFmpegKit is the one of libavutil
  client,     \* where each client is, how often it called, and the thread it joins
  args        \* timedjoin_args, by the call of disableRedirection

vars == <<fallback, enabled, thread, at, held, kept, list, unpushed, sent, delivered, installed,
          client, args>>
threadVars == <<at, held, kept>>
messages == <<list, unpushed, sent, delivered>>

(* ffmpegKitInitialize has turned redirection on when the library loaded.  *)
Init ==
  /\ fallback \in Fallbacks /\ enabled = TRUE /\ thread = 1 /\ installed = TRUE
  /\ at = [t \in Threads |-> IF t = 1 THEN "loop" ELSE "none"]
  /\ held = [t \in Threads |-> None]
  /\ kept = [t \in Threads |-> IF t = 1 THEN "joinable" ELSE "none"]
  /\ list = <<>> /\ unpushed = {} /\ sent = 0 /\ delivered = {}
  /\ client = [c \in Clients |-> [at |-> "idle", calls |-> 0, td |-> None]]
  /\ args = [j \in Joins |-> [td |-> None, helper |-> "none", rc |-> TRUE, joined |-> FALSE,
                              detached |-> FALSE, frees |-> 0]]

Goes(c, from, to) ==
  /\ client[c].at = from
  /\ client' = [client EXCEPT ![c].at = to]

-----------------------------------------------------------------------------
(* Messages and the callback threads.                                      *)

(* logCallbackDataAdd, up to the counting ...                              *)
Count ==
  /\ installed /\ sent < MaxMessages
  /\ sent' = sent + 1
  /\ unpushed' = unpushed \cup {sent + 1}
  /\ UNCHANGED <<fallback, enabled, thread, threadVars, list, delivered, installed, client, args>>

(* ... and the rest.                                                       *)
Push(m) ==
  /\ m \in unpushed
  /\ unpushed' = unpushed \ {m} /\ list' = Append(list, m)
  /\ UNCHANGED <<fallback, enabled, thread, threadVars, sent, delivered, installed, client, args>>

(* The loop of callbackThreadFunction tests the flag, ...                  *)
Look(t) ==
  /\ at[t] = "loop"
  /\ at' = [at EXCEPT ![t] = IF enabled THEN "take" ELSE "ended"]
  /\ UNCHANGED <<fallback, enabled, thread, held, kept, messages, installed, client, args>>

(* Mutant of Take: the head is copied, and removed only when delivered.    *)
TakeAndLeave(t) ==
  /\ at[t] = "take"
  /\ IF list = <<>>
       THEN at' = [at EXCEPT ![t] = "loop"] /\ UNCHANGED held
       ELSE at' = [at EXCEPT ![t] = "busy"] /\ held' = [held EXCEPT ![t] = Head(list)]
  /\ UNCHANGED <<fallback, enabled, thread, kept, messages, installed, client, args>>

(* ... takes a message or waits a moment, ...                              *)
Take(t) ==
  /\ at[t] = "take"
  /\ IF list = <<>>
       THEN at' = [at EXCEPT ![t] = "loop"] /\ UNCHANGED <<held, list>>
       ELSE /\ at' = [at EXCEPT ![t] = "busy"]
            /\ held' = [held EXCEPT ![t] = Head(list)]
            /\ list' = Tail(list)
  /\ UNCHANGED <<fallback, enabled, thread, kept, unpushed, sent, delivered, installed, client,
                 args>>

(* ... and delivers it, which calls the application's callbacks.           *)
Deliver(t) ==
  /\ at[t] = "busy"
  /\ at' = [at EXCEPT ![t] = "loop"] /\ held' = [held EXCEPT ![t] = None]
  /\ delivered' = delivered \cup {held[t]}
  /\ UNCHANGED <<fallback, enabled, thread, kept, list, unpushed, sent, installed, client, args>>

(* A session is executed: installSharedLogState, restoreConfiguredLogState *)
(* (what it does to the counters is in MessageTransit).                    *)
Execute ==
  /\ MayExecute /\ ~installed
  /\ installed' = TRUE
  /\ UNCHANGED <<fallback, enabled, thread, threadVars, messages, client, args>>

-----------------------------------------------------------------------------
(* enableRedirection.                                                      *)

Calls(c, returns, next) ==
  /\ client[c].at = "idle" /\ <<c, client[c].calls + 1>> \in Turns
  /\ client' = [client EXCEPT ![c].at = IF returns THEN "idle" ELSE next, ![c].calls = @ + 1]

Enable(c) ==
  /\ Calls(c, enabled, "create")
  /\ enabled' = TRUE
  /\ UNCHANGED <<fallback, thread, threadVars, messages, installed, args>>

(* pthread_create; t is the next thread.                                   *)
Create(c, t) ==
  /\ Goes(c, "create", "install")
  /\ at[t] = "none" /\ \A s \in 1 .. t - 1 : at[s] # "none"
  /\ thread' = t
  /\ at' = [at EXCEPT ![t] = "loop"] /\ kept' = [kept EXCEPT ![t] = "joinable"]
  /\ UNCHANGED <<fallback, enabled, held, messages, installed, args>>

CreateFails(c) ==
  /\ MayFail
  /\ Goes(c, "create", "undo")
  /\ UNCHANGED <<fallback, enabled, thread, threadVars, messages, installed, args>>

Undo(c) ==
  /\ Goes(c, "undo", "remove")
  /\ enabled' = FALSE /\ thread' = None
  /\ UNCHANGED <<fallback, threadVars, messages, installed, args>>

Install(c) ==
  /\ Goes(c, "install", "idle")
  /\ installed' = TRUE
  /\ UNCHANGED <<fallback, enabled, thread, threadVars, messages, args>>

-----------------------------------------------------------------------------
(* disableRedirection.                                                     *)

(* Mutant of Disable: the list is emptied.                                 *)
DisableAndDrop(c) ==
  /\ Calls(c, ~enabled, "stop")
  /\ enabled' = FALSE
  /\ list' = IF enabled THEN <<>> ELSE list
  /\ UNCHANGED <<fallback, thread, threadVars, unpushed, sent, delivered, installed, args>>

Disable(c) ==
  /\ Calls(c, ~enabled, "stop")
  /\ enabled' = FALSE
  /\ UNCHANGED <<fallback, thread, threadVars, messages, installed, args>>

(* Whether there is a thread is asked first; the notification only ends    *)
(* the thread's wait, which ends anyway.                                   *)
Stop(c) ==
  /\ Goes(c, "stop", IF thread = None THEN "remove" ELSE "read")
  /\ UNCHANGED <<fallback, enabled, thread, threadVars, messages, installed, args>>

(* The thread that is joined is the one callbackThread names now, or none  *)
(* when another client has forgotten it meanwhile.                         *)
ReadThread(c) ==
  /\ client[c].at = "read"
  /\ client' = [client EXCEPT ![c].at = "join", ![c].td = thread]
  /\ UNCHANGED <<fallback, enabled, thread, threadVars, messages, installed, args>>

(* pthread_timedjoin_np of the C library.  What the join of no thread does *)
(* is undefined; here it fails.                                            *)
Ended(t) == t # None /\ at[t] = "ended" /\ kept[t] = "joinable"

Join(c) ==
  /\ ~fallback /\ Goes(c, "join", "forget")
  /\ Ended(client[c].td)
  /\ kept' = [kept EXCEPT ![client[c].td] = "joined"]
  /\ UNCHANGED <<fallback, enabled, thread, at, held, messages, installed, args>>

JoinFails(c) ==
  /\ ~fallback /\ Goes(c, "join", "detach")
  /\ ~Ended(client[c].td)
  /\ UNCHANGED <<fallback, enabled, thread, threadVars, messages, installed, args>>

(* pthread_detach refuses a thread that somebody joins.  callbackThread is *)
(* read again.                                                             *)
Detach(c) ==
  /\ Goes(c, "detach", "forget")
  /\ kept' = [t \in Threads |-> IF t = thread /\ kept[t] = "joinable" THEN "detached" ELSE kept[t]]
  /\ UNCHANGED <<fallback, enabled, thread, at, held, messages, installed, args>>

Forget(c) ==
  /\ Goes(c, "forget", "remove")
  /\ thread' = None
  /\ UNCHANGED <<fallback, enabled, threadVars, messages, installed, args>>

Remove(c) ==
  /\ Goes(c, "remove", "idle")
  /\ installed' = FALSE
  /\ UNCHANGED <<fallback, enabled, thread, threadVars, messages, args>>

-----------------------------------------------------------------------------
(* pthread_timedjoin_np of FFmpegKitConfig.cpp: the caller ...             *)

JoinOf(c) == <<c, client[c].calls>>

StartHelper(c) ==
  /\ fallback /\ Goes(c, "join", "waiting")
  /\ args' = [args EXCEPT ![JoinOf(c)] = [@ EXCEPT !.td = client[c].td, !.helper = "started"]]
  /\ UNCHANGED <<fallback, enabled, thread, threadVars, messages, installed>>

StartFails(c) ==
  /\ fallback /\ MayFail /\ Goes(c, "join", "detach")
  /\ UNCHANGED <<fallback, enabled, thread, threadVars, messages, installed, args>>

WaitEnds(c) ==
  /\ Goes(c, "waiting", "reap")
  /\ args[JoinOf(c)].joined
  /\ UNCHANGED <<fallback, enabled, thread, threadVars, messages, installed, args>>

(* Whoever joined while the caller was waking up is not overlooked.        *)
WaitTimesOut(c) ==
  /\ Goes(c, "waiting", "detach")
  /\ ~args[JoinOf(c)].joined
  /\ args' = [args EXCEPT ![JoinOf(c)] = [@ EXCEPT !.detached = TRUE]]
  /\ UNCHANGED <<fallback, enabled, thread, threadVars, messages, installed>>

(* The helper is joined, and then nobody else has the arguments.           *)
Reap(c) ==
  LET j == JoinOf(c)
  IN  /\ Goes(c, "reap", IF args[j].rc THEN "forget" ELSE "detach")
      /\ args[j].helper = "done"
      /\ args' = [args EXCEPT ![j] = [@ EXCEPT !.frees = args[j].frees + 1]]
      /\ UNCHANGED <<fallback, enabled, thread, threadVars, messages, installed>>

(* ... and the helper, waiter_routine.                                     *)
HelperJoins(j) ==
  LET free == args[j].td # None /\ kept[args[j].td] = "joinable"
  IN  /\ args[j].helper = "started"
      /\ args' = [args EXCEPT ![j] = [@ EXCEPT !.helper = IF free THEN "joining" ELSE "joined",
                                               !.rc = free]]
      /\ kept' = IF free THEN [kept EXCEPT ![args[j].td] = "claimed"] ELSE kept
      /\ UNCHANGED <<fallback, enabled, thread, at, held, messages, installed, client>>

HelperHasJoined(j) ==
  /\ args[j].helper = "joining" /\ at[args[j].td] = "ended"
  /\ args' = [args EXCEPT ![j] = [@ EXCEPT !.helper = "joined"]]
  /\ kept' = [kept EXCEPT ![args[j].td] = "joined"]
  /\ UNCHANGED <<fallback, enabled, thread, at, held, messages, installed, client>>

(* Mutant of HelperReports: whether the caller has left is not asked.      *)
HelperLeaves(j) ==
  /\ args[j].helper = "joined"
  /\ args' = [args EXCEPT ![j] = [@ EXCEPT !.joined = TRUE, !.helper = "free"]]
  /\ UNCHANGED <<fallback, enabled, thread, threadVars, messages, installed, client>>

HelperReports(j) ==
  /\ args[j].helper = "joined"
  /\ args' = [args EXCEPT ![j] = [@ EXCEPT !.joined = TRUE,
                                           !.helper = IF args[j].detached THEN "free" ELSE "done"]]
  /\ UNCHANGED <<fallback, enabled, thread, threadVars, messages, installed, client>>

HelperFrees(j) ==
  /\ args[j].helper = "free"
  /\ args' = [args EXCEPT ![j] = [@ EXCEPT !.helper = "done", !.frees = args[j].frees + 1]]
  /\ UNCHANGED <<fallback, enabled, thread, threadVars, messages, installed, client>>

-----------------------------------------------------------------------------
Loop(t) == Look(t) \/ Take(t)
CallStep(c) ==
  \/ (\E t \in Threads : Create(c, t)) \/ CreateFails(c) \/ Undo(c) \/ Install(c)
  \/ Stop(c) \/ ReadThread(c) \/ Join(c) \/ JoinFails(c) \/ Detach(c) \/ Forget(c) \/ Remove(c)
  \/ StartHelper(c) \/ StartFails(c) \/ WaitEnds(c) \/ WaitTimesOut(c) \/ Reap(c)
Helper(j) == HelperJoins(j) \/ HelperHasJoined(j) \/ HelperReports(j) \/ HelperFrees(j)

(* Everyone has called as often as it wanted.                              *)
Rest ==
  /\ \A c \in Clients : client[c].at = "idle" /\ <<c, client[c].calls + 1>> \notin Turns
  /\ UNCHANGED vars

Next ==
  \/ Count \/ (\E m \in unpushed : Push(m))
  \/ (\E t \in Threads : Loop(t) \/ Deliver(t))
  \/ Execute
  \/ (\E c \in Clients : Enable(c) \/ Disable(c) \/ CallStep(c))
  \/ (\E j \in Joins : Helper(j))
  \/ Rest

Spec == Init /\ [][Next]_vars

(* Threads go on, but for those that are in a callback of the application. *)
Fairness ==
  /\ \A m \in 1 .. MaxMessages : WF_vars(Push(m))
  /\ \A t \in Threads : WF_vars(Loop(t))
  /\ \A c \in Clients : WF_vars(CallStep(c))
  /\ \A j \in Joins : WF_vars(Helper(j))

FairSpec == Spec /\ Fairness

-----------------------------------------------------------------------------
(* Type correctness; a thread has a message exactly while it delivers one. *)
TypeOK ==
  /\ {enabled, installed} \subseteq BOOLEAN /\ thread \in Threads \cup {None}
  /\ \A t \in Threads :
       /\ at[t] \in {"none", "loop", "take", "busy", "ended"}
       /\ held[t] \in Nat /\ (held[t] # None <=> at[t] = "busy")
       /\ kept[t] \in {"none", "joinable", "claimed", "joined", "detached"}
       /\ kept[t] = "none" <=> at[t] = "none"
  /\ sent \in Nat /\ list \in Seq(Nat) /\ unpushed \cup delivered \subseteq Nat
  /\ \A c \in Clients :
       /\ client[c].at \in {"idle", "create", "undo", "install", "stop", "read", "join", "waiting",
                            "reap", "detach", "forget", "remove"}
       /\ client[c].calls \in 0 .. MaxCalls /\ client[c].td \in Threads \cup {None}
  /\ \A j \in Joins : args[j].helper \in {"none", "started", "joining", "joined", "free", "done"}

Held == {held[t] : t \in Threads} \ {None}
Listed == {list[i] : i \in DOMAIN list}

(* Every message that was counted is at one place, about to be appended,   *)
(* in the list or in the hands of one callback thread, until it has been   *)
(* delivered, and it is delivered once, whoever turns redirection on and   *)
(* off and however many callback threads that makes.                       *)
NothingLostOrTwice ==
  /\ 1 .. sent = unpushed \cup Listed \cup Held \cup delivered
  /\ unpushed \cap (Listed \cup Held \cup delivered) = {}
  /\ Listed \cap (Held \cup delivered) = {} /\ Held \cap delivered = {}
  /\ \A i, j \in DOMAIN list : list[i] = list[j] => i = j
  /\ \A s, t \in Threads : held[s] = held[t] => s = t \/ held[s] = None

(* timedjoin_args: the arguments are freed once, by the last to use them.  *)
Waiting(j) == JoinOf(j[1]) = j /\ client[j[1]].at \in {"waiting", "reap"}

ArgsAreFreedLast ==
  \A j \in Joins :
    args[j].frees = IF args[j].helper = "done" /\ ~Waiting(j) THEN 1 ELSE 0

(* What was left in the list when redirection was turned off is delivered  *)
(* after it is turned on for good, if callbacks return.                    *)
LeftoversAreDelivered ==
  (\A t \in Threads : []<>(at[t] # "busy")) /\ <>[]enabled
    => []<>(delivered = 1 .. sent)

=============================================================================
