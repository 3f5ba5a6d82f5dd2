--------------------------- MODULE SessionHistory ---------------------------
(***************************************************************************)
(* The session history of FFmpegKitConfig.cpp: a list and a map of the     *)
(* sessions that clients can still find.  Every session is created into    *)
(* it; the oldest leave when it is longer than sessionHistorySize, unless  *)
(* they are CREATED or RUNNING.                                            *)
(*                                                                         *)
(* All but one access is under the session mutex, so what a thread does    *)
(* there is one step; the loop of deleteExpiredSessions is one step per    *)
(* session, because the states it reads and sessionHistorySize change      *)
(* without the mutex meanwhile.                                            *)
(***************************************************************************)
EXTENDS Integers, Sequences, FiniteSets

CONSTANTS
    Threads,          \* the threads of the client
    SESSION_MAP_SIZE,
    DefaultSize,      \* the initial sessionHistorySize
    Sizes,            \* the sizes clients ask for
    MaxSessions,      \* bound: sessions that are created
    NoThread

ASSUME SizesAssumption ==
    /\ SESSION_MAP_SIZE \in Nat \ {0} /\ DefaultSize \in Nat \ {0}
    /\ Sizes \subseteq Int /\ MaxSessions \in Nat
ASSUME ThreadsAssumption == NoThread \notin Threads

VARIABLES
    nextId,      \* sessionIdGenerator
    state,       \* the SessionState of every session
    list,        \* the session history list, oldest first
    map,         \* the ids in the session history map
    historySize, \* sessionHistorySize
    mutex,       \* the thread that holds the session mutex across steps
    at,          \* what a thread does: "idle", "add", "resize", "trim"
    new,         \* the session a thread creates
    \* History variables.
    cleared,     \* sessions removed by clearSessions
    late         \* sessions that ended since the last trim

historyVars == <<nextId, state, list, map, historySize, mutex, at, new, cleared,
                late>>

Ids == 1..MaxSessions
Live(s) == state[s] \in {"created", "running"}

HistoryInit ==
    /\ nextId = 1
    /\ state = [s \in Ids |-> "none"]
    /\ list = <<>> /\ map = {}
    /\ historySize = DefaultSize
    /\ mutex = NoThread
    /\ at = [t \in Threads |-> "idle"]
    /\ new = [t \in Threads |-> 0]
    /\ cleared = {} /\ late = {}

Moves(t, from, to) == at[t] = from /\ at' = [at EXCEPT ![t] = to]

\* The constructor takes an id ...
CreateSession(t) ==
    /\ nextId \in Ids
    /\ Moves(t, "idle", "add")
    /\ nextId' = nextId + 1
    /\ state' = [state EXCEPT ![nextId] = "created"]
    /\ new' = [new EXCEPT ![t] = nextId]
    /\ UNCHANGED <<list, map, historySize, mutex, cleared, late>>

\* Mutant of AddSession: nothing is deleted.
AddSessionOnly(t) ==
    /\ mutex = NoThread
    /\ Moves(t, "add", "idle")
    /\ map' = map \cup {new[t]}
    /\ list' = Append(list, new[t])
    /\ UNCHANGED <<nextId, state, historySize, mutex, new, cleared, late>>

\* ... and create adds the session, once.
AddSession(t) ==
    /\ mutex = NoThread /\ mutex' = t
    /\ Moves(t, "add", "trim")
    /\ map' = map \cup {new[t]}
    /\ list' = Append(list, new[t])
    /\ UNCHANGED <<nextId, state, historySize, new, cleared, late>>

\* Mutant of WriteSize: the size need not be positive.
WriteAnySize(t, n) ==
    /\ Moves(t, "idle", "resize")
    /\ historySize' = IF n >= SESSION_MAP_SIZE THEN SESSION_MAP_SIZE ELSE n
    /\ UNCHANGED <<nextId, state, list, map, mutex, new, cleared, late>>

\* setSessionHistorySize writes the size before it takes the mutex.
WriteSize(t, n) ==
    /\ Moves(t, "idle", "resize")
    /\ historySize' = IF n >= SESSION_MAP_SIZE THEN SESSION_MAP_SIZE
                      ELSE IF n > 0 THEN n ELSE historySize
    /\ UNCHANGED <<nextId, state, list, map, mutex, new, cleared, late>>

StartTrim(t) ==
    /\ mutex = NoThread /\ mutex' = t
    /\ Moves(t, "resize", "trim")
    /\ UNCHANGED <<nextId, state, list, map, historySize, new, cleared, late>>

\* Mutant of Expired: a RUNNING session may be deleted.
ExpiredIfStarted == Len(list) > historySize /\ state[Head(list)] # "created"

\* What deleteExpiredSessions looks at before it deletes the first session.
Expired == Len(list) > historySize /\ ~Live(Head(list))

DeleteExpired(t) ==
    /\ at[t] = "trim" /\ Expired
    /\ list' = Tail(list)
    /\ map' = map \ {Head(list)}
    /\ UNCHANGED <<nextId, state, historySize, mutex, at, new, cleared,
                   late>>

EndTrim(t) ==
    /\ ~Expired
    /\ Moves(t, "trim", "idle")
    /\ mutex' = NoThread
    /\ late' = {}
    /\ UNCHANGED <<nextId, state, list, map, historySize, new, cleared>>

ClearSessions(t) ==
    /\ at[t] = "idle" /\ mutex = NoThread
    /\ list' = <<>> /\ map' = {}
    /\ cleared' = cleared \cup map
    /\ UNCHANGED <<nextId, state, historySize, mutex, at, new, late>>

\* The execution of a session; it begins after create has returned.
StartRunning(s) ==
    /\ state[s] = "created"
    /\ \A t \in Threads : ~(at[t] = "add" /\ new[t] = s)
    /\ state' = [state EXCEPT ![s] = "running"]
    /\ UNCHANGED <<nextId, list, map, historySize, mutex, at, new, cleared,
                   late>>

\* complete or fail
EndSession(s, how) ==
    /\ state[s] = "running"
    /\ state' = [state EXCEPT ![s] = how]
    /\ late' = late \cup {s}
    /\ UNCHANGED <<nextId, list, map, historySize, mutex, at, new, cleared>>

HistoryNext ==
    \/ \E t \in Threads :
          \/ CreateSession(t) \/ AddSession(t)
          \/ \E n \in Sizes : WriteSize(t, n)
          \/ StartTrim(t) \/ DeleteExpired(t) \/ EndTrim(t)
          \/ ClearSessions(t)
    \/ \E s \in Ids :
          \/ StartRunning(s)
          \/ \E how \in {"completed", "failed"} : EndSession(s, how)

HistorySpec == HistoryInit /\ [][HistoryNext]_historyVars

-----------------------------------------------------------------------------
(* The values the variables take. *)
HistoryTypeOK ==
    /\ nextId \in 1..(MaxSessions + 1)
    /\ state \in [Ids -> {"none", "created", "running", "completed", "failed"}]
    /\ list \in Seq(Ids)
    /\ map \subseteq Ids
    /\ historySize \in Nat \ {0}
    /\ mutex \in Threads \cup {NoThread}
    /\ at \in [Threads -> {"idle", "add", "resize", "trim"}]
    /\ new \in [Threads -> Ids \cup {0}]
    /\ \A t \in Threads : at[t] = "add" => new[t] # 0
    /\ cleared \subseteq Ids
    /\ late \subseteq Ids

(* The list and the map hold the same sessions, and the list holds each    *)
(* once.                                                                   *)
ListMatchesMap ==
    /\ \A s \in Ids : s \in map <=> \E i \in 1..Len(list) : list[i] = s
    /\ \A i, j \in 1..Len(list) : list[i] = list[j] => i = j

(* A session that is CREATED or RUNNING can be found from when it was      *)
(* added until clearSessions: it is never the one that expires, however    *)
(* completions, additions and changes of the size interleave.              *)
LiveSessionsAreKept ==
    \A s \in Ids :
        Live(s) =>
            \/ s \in map \cup cleared
            \/ \E t \in Threads : at[t] = "add" /\ new[t] = s

(* The history is longer than its size only while a thread is about to     *)
(* trim it, or its first session is live or has ended since the last trim. *)
ExcessIsBlocked ==
    Len(list) > historySize =>
        \/ \E t \in Threads : at[t] \in {"resize", "trim"}
        \/ Live(Head(list)) \/ Head(list) \in late
=============================================================================
