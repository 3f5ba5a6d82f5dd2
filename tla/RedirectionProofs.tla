-------------------------- MODULE RedirectionProofs --------------------------
(* Proofs about Redirection: types, where messages are, and who frees the  *)
(* arguments of the timed join.                                            *)
EXTENDS Redirection, TLAPS

-----------------------------------------------------------------------------
(* The invariant.                                                          *)

ThreadTypes ==
  /\ at \in [Threads -> {"none", "loop", "take", "busy", "ended"}]
  /\ kept \in [Threads -> {"none", "joinable", "claimed", "joined", "detached"}]
  /\ \A t \in Threads : kept[t] = "none" <=> at[t] = "none"

Args ==
  [td : Threads \cup {None}, helper : {"none", "started", "joining", "joined", "free", "done"},
   rc : BOOLEAN, joined : BOOLEAN, detached : BOOLEAN, frees : Nat]
Client ==
  [at : {"idle", "create", "undo", "install", "stop", "read", "join", "waiting", "reap", "detach",
         "forget", "remove"},
   calls : 0 .. MaxCalls, td : Threads \cup {None}]

CallTypes ==
  /\ enabled \in BOOLEAN /\ installed \in BOOLEAN /\ thread \in Threads \cup {None}
  /\ client \in [Clients -> Client] /\ args \in [Joins -> Args]
  /\ \A c \in Clients : client[c].at # "idle" => client[c].calls >= 1

(* A message that is held is being delivered.                              *)
MessageTypes ==
  /\ sent \in Nat
  /\ held \in [Threads -> Nat] /\ list \in Seq(Nat)
  /\ \A t \in Threads : held[t] # None <=> at[t] = "busy"

Types == ThreadTypes /\ CallTypes /\ MessageTypes

(* The life of the arguments of a timed join: the caller leaves them to    *)
(* the helper as long as that has not joined, and waits for it otherwise.  *)
ArgsOf(j) ==
  LET a == args[j]
  IN  /\ a.helper = "none" => a.frees = 0 /\ ~a.joined /\ ~a.detached /\ ~Waiting(j)
      /\ a.helper \in {"started", "joining", "joined"} =>
           a.frees = 0 /\ ~a.joined /\ (a.detached <=> ~Waiting(j))
      /\ a.helper = "free" => a.frees = 0 /\ a.joined /\ a.detached /\ ~Waiting(j)
      /\ a.helper = "done" => a.joined /\ a.frees = IF Waiting(j) THEN 0 ELSE 1

(* A call has its arguments to itself.                                     *)
Fresh ==
  \A c \in Clients, n \in 1 .. MaxCalls :
    \/ n > client[c].calls
    \/ n = client[c].calls /\ client[c].at \in {"stop", "read", "join"}
    => args[<<c, n>>].helper = "none"

Inv == Types /\ NothingLostOrTwice /\ Fresh /\ \A j \in Joins : ArgsOf(j)

-----------------------------------------------------------------------------
LEMMA InitInv == Init => Inv
<1> SUFFICES ASSUME Init PROVE Inv
    OBVIOUS
<1>0. 1 \in Threads /\ 1 .. sent = {}
    BY BoundsAssumption DEF Init, Threads
<1>1. ThreadTypes
    BY DEF Init, ThreadTypes
<1>2. CallTypes
    BY <1>0, BoundsAssumption DEF Init, CallTypes, Client, Args
<1>3. MessageTypes
    BY <1>0 DEF Init, MessageTypes, None
<1>4. NothingLostOrTwice
    BY <1>0 DEF Init, NothingLostOrTwice, Held, Listed
<1>5. Fresh
    BY DEF Init, Fresh, Joins
<1>6. ASSUME NEW j \in Joins PROVE ArgsOf(j)
    BY <1>6 DEF Init, ArgsOf, Waiting, Joins
<1>7. QED
    BY <1>1, <1>2, <1>3, <1>4, <1>5, <1>6 DEF Inv, Types

-----------------------------------------------------------------------------
LEMMA StepThreadTypes == Types /\ [Next]_vars => ThreadTypes'
<1> SUFFICES ASSUME Types, [Next]_vars PROVE ThreadTypes'
    OBVIOUS
<1>0. ThreadTypes
    BY DEF Types
<1>1. ASSUME UNCHANGED <<at, kept>> PROVE ThreadTypes'
    BY <1>0, <1>1 DEF ThreadTypes
<1>2. ASSUME NEW t \in Threads, Look(t) PROVE ThreadTypes'
    BY <1>0, <1>2 DEF ThreadTypes, Look
<1>3. ASSUME NEW t \in Threads, Take(t) PROVE ThreadTypes'
    BY <1>0, <1>3 DEF ThreadTypes, Take
<1>4. ASSUME NEW t \in Threads, Deliver(t) PROVE ThreadTypes'
    BY <1>0, <1>4 DEF ThreadTypes, Deliver
<1>5. ASSUME NEW c \in Clients, NEW t \in Threads, Create(c, t) PROVE ThreadTypes'
    BY <1>0, <1>5 DEF ThreadTypes, Create
<1>6. ASSUME NEW c \in Clients, Join(c) PROVE ThreadTypes'
    BY <1>0, <1>6 DEF ThreadTypes, Join, Ended
<1>7. ASSUME NEW c \in Clients, Detach(c) PROVE ThreadTypes'
    BY <1>0, <1>7 DEF ThreadTypes, Detach
<1>8. ASSUME NEW j \in Joins, HelperJoins(j) PROVE ThreadTypes'
    BY <1>0, <1>8 DEF ThreadTypes, HelperJoins
<1>9. ASSUME NEW j \in Joins, HelperHasJoined(j) PROVE ThreadTypes'
    BY <1>0, <1>9 DEF ThreadTypes, HelperHasJoined
<1>10. ASSUME NEW c \in Clients, Enable(c) \/ Disable(c) \/ CallStep(c) PROVE ThreadTypes'
    BY <1>1, <1>5, <1>6, <1>7, <1>10
       DEF Enable, Disable, CallStep, CreateFails, Undo, Install, Stop, ReadThread, JoinFails,
           Forget, Remove, StartHelper, StartFails, WaitEnds, WaitTimesOut, Reap, threadVars
<1>11. ASSUME NEW j \in Joins, Helper(j) PROVE ThreadTypes'
    BY <1>1, <1>8, <1>9, <1>11 DEF Helper, HelperReports, HelperFrees, threadVars
<1>12. CASE UNCHANGED vars
    BY <1>1, <1>12 DEF vars
<1>13. QED
    BY <1>1, <1>2, <1>3, <1>4, <1>10, <1>11, <1>12
       DEF Next, Loop, Count, Push, Execute, Rest, threadVars

(* A client goes on in its call.                                           *)
LEMMA GoesOn ==
  ASSUME CallTypes, NEW c \in Clients, client[c].at # "idle",
         NEW p \in {"idle", "undo", "install", "waiting", "reap", "detach", "forget", "remove"},
         client' = [client EXCEPT ![c].at = p]
  PROVE  /\ client' \in [Clients -> Client]
         /\ \A d \in Clients : client'[d].at # "idle" => client'[d].calls >= 1
<1>1. /\ client[c] \in Client /\ client'[c] = [client[c] EXCEPT !.at = p]
      /\ \A d \in Clients \ {c} : client'[d] = client[d]
    BY DEF CallTypes
<1>2. /\ client'[c].at = p /\ client'[c].calls = client[c].calls /\ client'[c].td = client[c].td
      /\ client'[c] \in Client
    BY <1>1 DEF Client
<1>3. client' \in [Clients -> Client]
    BY <1>2 DEF CallTypes
<1>4. QED
    BY <1>1, <1>2, <1>3 DEF CallTypes

(* What a step of a client does to it.                                     *)
LEMMA StepClientTypes ==
  ASSUME CallTypes, NEW c \in Clients, Enable(c) \/ Disable(c) \/ CallStep(c)
  PROVE  /\ client' \in [Clients -> Client]
         /\ \A d \in Clients : client'[d].at # "idle" => client'[d].calls >= 1
         /\ thread' \in Threads \cup {None} /\ enabled' \in BOOLEAN /\ installed' \in BOOLEAN
<1> USE DEF CallTypes, Client
<1>1. CASE Enable(c)
    BY <1>1, BoundsAssumption DEF Enable, Calls
<1>2. CASE Disable(c)
    BY <1>2, BoundsAssumption DEF Disable, Calls
<1>3. ASSUME NEW t \in Threads, Create(c, t)
      PROVE client' = [client EXCEPT ![c].at = "install"] /\ client[c].at = "create"
            /\ UNCHANGED <<enabled, installed>> /\ thread' = t
    BY <1>3 DEF Create, Goes
<1>4. CASE \E t \in Threads : Create(c, t)
    BY <1>3, <1>4, GoesOn
<1>5. CASE CreateFails(c) \/ Undo(c) \/ Install(c)
    BY <1>5, GoesOn DEF CreateFails, Undo, Install, Goes
<1>6. CASE Stop(c) \/ ReadThread(c)
    BY <1>6 DEF Stop, Goes, ReadThread
<1>7. CASE Join(c) \/ JoinFails(c) \/ Detach(c)
    BY <1>7, GoesOn DEF Join, JoinFails, Detach, Goes
<1>8. CASE Forget(c) \/ Remove(c)
    BY <1>8, GoesOn DEF Forget, Remove, Goes
<1>9. CASE StartHelper(c) \/ StartFails(c)
    BY <1>9, GoesOn DEF StartHelper, StartFails, Goes
<1>10. CASE WaitEnds(c) \/ WaitTimesOut(c)
    BY <1>10, GoesOn DEF WaitEnds, WaitTimesOut, Goes
<1>11. CASE Reap(c)
    BY <1>11, GoesOn DEF Reap, Goes
<1>12. QED
    BY <1>1, <1>2, <1>4, <1>5, <1>6, <1>7, <1>8, <1>9, <1>10, <1>11 DEF CallStep

LEMMA CallOfClient ==
  ASSUME CallTypes, NEW c \in Clients, client[c].at # "idle"
  PROVE  JoinOf(c) \in Joins /\ args[JoinOf(c)] \in Args
BY BoundsAssumption DEF CallTypes, Client, JoinOf, Joins
LEMMA NewArgs ==
  ASSUME CallTypes, NEW j \in Joins, NEW r \in Args, args' = [args EXCEPT ![j] = r]
  PROVE  args' \in [Joins -> Args] /\ args'[j] = r /\ \A i \in Joins \ {j} : args'[i] = args[i]
BY DEF CallTypes

(* What a helper does to the arguments.                                    *)
HelperMoves(j) ==
  LET a == args[j]
      b == args'[j]
  IN  /\ b.td = a.td /\ b.detached = a.detached
      /\ \/ a.helper = "started" /\ b.helper \in {"joining", "joined"} /\ b.frees = a.frees
            /\ b.joined = a.joined
         \/ a.helper = "joining" /\ b.helper = "joined" /\ b.frees = a.frees /\ b.joined = a.joined
         \/ a.helper = "joined" /\ b.helper = (IF a.detached THEN "free" ELSE "done")
            /\ b.frees = a.frees /\ b.joined
         \/ a.helper = "free" /\ b.helper = "done" /\ b.frees = a.frees + 1 /\ b.joined = a.joined

LEMMA StepHelper ==
  ASSUME CallTypes, NEW j \in Joins, Helper(j)
  PROVE  /\ args' \in [Joins -> Args] /\ \A i \in Joins \ {j} : args'[i] = args[i]
         /\ HelperMoves(j) /\ client' = client
<1> DEFINE a == args[j]
<1>0. a \in Args
    BY DEF CallTypes
<1>1. CASE HelperJoins(j)
    <2> DEFINE free == a.td # None /\ kept[a.td] = "joinable"
               r == [a EXCEPT !.helper = IF free THEN "joining" ELSE "joined", !.rc = free]
    <2>1. /\ r \in Args /\ r.td = a.td /\ r.detached = a.detached /\ r.frees = a.frees
          /\ r.joined = a.joined /\ r.helper \in {"joining", "joined"}
        BY <1>0 DEF Args
    <2>2. args' = [args EXCEPT ![j] = r] /\ a.helper = "started" /\ client' = client
        BY <1>1 DEF HelperJoins
    <2> HIDE DEF r
    <2>3. QED
        BY <2>1, <2>2, NewArgs DEF HelperMoves
<1>2. CASE HelperHasJoined(j)
    <2> DEFINE r == [a EXCEPT !.helper = "joined"]
    <2>1. /\ r \in Args /\ r.td = a.td /\ r.detached = a.detached /\ r.frees = a.frees
          /\ r.joined = a.joined /\ r.helper = "joined"
        BY <1>0 DEF Args
    <2>2. args' = [args EXCEPT ![j] = r] /\ a.helper = "joining" /\ client' = client
        BY <1>2 DEF HelperHasJoined
    <2> HIDE DEF r
    <2>3. QED
        BY <2>1, <2>2, NewArgs DEF HelperMoves
<1>3. CASE HelperReports(j)
    <2> DEFINE r == [a EXCEPT !.joined = TRUE, !.helper = IF a.detached THEN "free" ELSE "done"]
    <2>1. /\ r \in Args /\ r.td = a.td /\ r.detached = a.detached /\ r.frees = a.frees
          /\ r.joined /\ r.helper = IF a.detached THEN "free" ELSE "done"
        BY <1>0 DEF Args
    <2>2. args' = [args EXCEPT ![j] = r] /\ a.helper = "joined" /\ client' = client
        BY <1>3 DEF HelperReports
    <2> HIDE DEF r
    <2>3. QED
        BY <2>1, <2>2, NewArgs DEF HelperMoves
<1>4. CASE HelperFrees(j)
    <2> DEFINE r == [a EXCEPT !.helper = "done", !.frees = a.frees + 1]
    <2>1. /\ r \in Args /\ r.td = a.td /\ r.detached = a.detached /\ r.frees = a.frees + 1
          /\ r.joined = a.joined /\ r.helper = "done"
        <3> DEFINE f == a.frees + 1
        <3>1. f \in Nat /\ r = [a EXCEPT !.helper = "done", !.frees = f]
            BY <1>0 DEF Args
        <3> HIDE DEF f
        <3>2. /\ [a EXCEPT !.helper = "done", !.frees = f] \in Args
              /\ [a EXCEPT !.helper = "done", !.frees = f].frees = f
            BY <1>0, <3>1 DEF Args
        <3>3. QED
            BY <1>0, <3>1, <3>2 DEF Args, f
    <2>2. args' = [args EXCEPT ![j] = r] /\ a.helper = "free" /\ client' = client
        BY <1>4 DEF HelperFrees
    <2> HIDE DEF r
    <2>3. QED
        BY <2>1, <2>2, NewArgs DEF HelperMoves
<1>5. QED
    BY <1>1, <1>2, <1>3, <1>4 DEF Helper

(* What a client does to the arguments of its call.                        *)
ClientMoves(c) ==
  LET p == client[c]
      n == client'[c]
      a == args[JoinOf(c)]
      b == args'[JoinOf(c)]
  IN  \/ /\ p.at = "idle" /\ n.calls = p.calls + 1 /\ n.at \in {"idle", "create", "stop"}
         /\ args' = args
      \/ /\ n.calls = p.calls
         /\ \/ /\ p.at \in {"stop", "read"} /\ args' = args
               /\ n.at \in {"remove", "read", "join"}
            \/ /\ p.at \notin {"idle", "stop", "read", "waiting", "reap"} /\ args' = args
               /\ n.at \notin {"stop", "read", "join", "waiting", "reap"}
            \/ p.at = "waiting" /\ n.at = "reap" /\ a.joined /\ args' = args
            \/ /\ p.at = "join" /\ n.at = "waiting" /\ b.helper = "started" /\ b.td = p.td
               /\ b.frees = a.frees /\ b.joined = a.joined /\ b.detached = a.detached
            \/ /\ p.at = "waiting" /\ n.at = "detach" /\ ~a.joined /\ b.detached
               /\ b.helper = a.helper /\ b.td = a.td /\ b.frees = a.frees /\ b.joined = a.joined
            \/ /\ p.at = "reap" /\ n.at \in {"forget", "detach"} /\ a.helper = "done"
               /\ b.helper = "done" /\ b.td = a.td /\ b.frees = a.frees + 1 /\ b.joined = a.joined

ClientStep(c) == Enable(c) \/ Disable(c) \/ CallStep(c)

(* How places change: the client keeps the number of its call.             *)
LEMMA PlaceChanges ==
  ASSUME CallTypes, NEW c \in Clients, NEW from, NEW to, Goes(c, from, to)
  PROVE  /\ client[c].at = from /\ client'[c].at = to /\ client'[c].calls = client[c].calls
         /\ \A d \in Clients \ {c} : client'[d] = client[d]
BY DEF CallTypes, Client, Goes

LEMMA StepClient ==
  ASSUME CallTypes, NEW c \in Clients, ClientStep(c)
  PROVE  /\ args' \in [Joins -> Args] /\ \A i \in Joins \ {JoinOf(c)} : args'[i] = args[i]
         /\ ClientMoves(c) /\ \A d \in Clients \ {c} : client'[d] = client[d]
<1> DEFINE j == JoinOf(c)
           a == args[j]
<1>0. args \in [Joins -> Args]
    BY DEF CallTypes
<1>1. CASE Enable(c) \/ Disable(c)
    BY <1>0, <1>1 DEF Enable, Disable, Calls, ClientMoves, CallTypes, Client
<1>2. CASE Stop(c) \/ ReadThread(c)
    BY <1>0, <1>2 DEF Stop, Goes, ReadThread, ClientMoves, CallTypes, Client
<1>3. CASE \/ (\E t \in Threads : Create(c, t)) \/ CreateFails(c) \/ Undo(c) \/ Install(c)
           \/ Join(c) \/ JoinFails(c) \/ Detach(c) \/ Forget(c) \/ Remove(c) \/ StartFails(c)
    <2>1. /\ args' = args
          /\ \E from \in {"create", "undo", "install", "join", "detach", "forget", "remove"},
                to \in {"install", "undo", "remove", "idle", "forget", "detach"} : Goes(c, from, to)
        BY <1>3 DEF Create, CreateFails, Undo, Install, Join, JoinFails, Detach, Forget, Remove, StartFails
    <2>2. QED
        BY <1>0, <2>1, PlaceChanges DEF ClientMoves
<1>4. CASE WaitEnds(c)
    BY <1>0, <1>4, PlaceChanges DEF WaitEnds, ClientMoves
<1>5. CASE StartHelper(c)
    <2> DEFINE r == [a EXCEPT !.td = client[c].td, !.helper = "started"]
    <2>1. client[c].at = "join" /\ client[c].td \in Threads \cup {None}
        BY <1>5 DEF StartHelper, Goes, CallTypes, Client
    <2>2. j \in Joins /\ a \in Args
        BY <2>1, CallOfClient
    <2>3. /\ r \in Args /\ r.td = client[c].td /\ r.detached = a.detached /\ r.frees = a.frees
          /\ r.joined = a.joined /\ r.helper = "started"
        BY <2>1, <2>2 DEF Args
    <2>4. args' = [args EXCEPT ![j] = r] /\ Goes(c, "join", "waiting")
        BY <1>5 DEF StartHelper
    <2> HIDE DEF r, j
    <2>5. args' \in [Joins -> Args] /\ args'[j] = r /\ \A i \in Joins \ {j} : args'[i] = args[i]
        BY <2>2, <2>3, <2>4, NewArgs
    <2>6. QED
        BY <2>3, <2>4, <2>5, PlaceChanges DEF ClientMoves, j
<1>6. CASE WaitTimesOut(c)
    <2> DEFINE r == [a EXCEPT !.detached = TRUE]
    <2>1. client[c].at = "waiting"
        BY <1>6 DEF WaitTimesOut, Goes
    <2>2. j \in Joins /\ a \in Args
        BY <2>1, CallOfClient
    <2>3. /\ r \in Args /\ r.td = a.td /\ r.detached /\ r.frees = a.frees
          /\ r.joined = a.joined /\ r.helper = a.helper
        BY <2>2 DEF Args
    <2>4. args' = [args EXCEPT ![j] = r] /\ Goes(c, "waiting", "detach") /\ ~a.joined
        BY <1>6 DEF WaitTimesOut
    <2> HIDE DEF r, j
    <2>5. args' \in [Joins -> Args] /\ args'[j] = r /\ \A i \in Joins \ {j} : args'[i] = args[i]
        BY <2>2, <2>3, <2>4, NewArgs
    <2>6. QED
        BY <2>3, <2>4, <2>5, PlaceChanges DEF ClientMoves, j
<1>7. CASE Reap(c)
    <2> DEFINE r == [a EXCEPT !.frees = a.frees + 1]
    <2>1. client[c].at = "reap"
        BY <1>7 DEF Reap, Goes
    <2>2. j \in Joins /\ a \in Args
        BY <2>1, CallOfClient
    <2>3. /\ r \in Args /\ r.td = a.td /\ r.frees = a.frees + 1
          /\ r.joined = a.joined /\ r.helper = a.helper
        BY <2>2 DEF Args
    <2>4. /\ args' = [args EXCEPT ![j] = r] /\ a.helper = "done"
          /\ \E to \in {"forget", "detach"} : Goes(c, "reap", to)
        BY <1>7 DEF Reap
    <2> HIDE DEF r, j
    <2>5. args' \in [Joins -> Args] /\ args'[j] = r /\ \A i \in Joins \ {j} : args'[i] = args[i]
        BY <2>2, <2>3, <2>4, NewArgs
    <2>6. QED
        BY <2>3, <2>4, <2>5, PlaceChanges DEF ClientMoves, j
<1>8. QED
    BY <1>1, <1>2, <1>3, <1>4, <1>5, <1>6, <1>7 DEF ClientStep, CallStep

-----------------------------------------------------------------------------
LEMMA StepCallTypes == Types /\ [Next]_vars => CallTypes'
<1> SUFFICES ASSUME Types, [Next]_vars PROVE CallTypes'
    OBVIOUS
<1>0. CallTypes
    BY DEF Types
<1>1. ASSUME NEW c \in Clients, ClientStep(c) PROVE CallTypes'
    <2>1. /\ client' \in [Clients -> Client]
          /\ \A d \in Clients : client'[d].at # "idle" => client'[d].calls >= 1
          /\ thread' \in Threads \cup {None} /\ enabled' \in BOOLEAN /\ installed' \in BOOLEAN
        BY <1>0, <1>1, StepClientTypes DEF ClientStep
    <2>2. /\ args' \in [Joins -> Args] /\ \A i \in Joins \ {JoinOf(c)} : args'[i] = args[i]
          /\ ClientMoves(c)
        BY <1>0, <1>1, StepClient
    <2>3. QED
        BY <2>1, <2>2, Client' = Client, Args' = Args DEF CallTypes
<1>2. ASSUME NEW j \in Joins, Helper(j) PROVE CallTypes'
    <2>1. /\ args' \in [Joins -> Args] /\ \A i \in Joins \ {j} : args'[i] = args[i]
          /\ HelperMoves(j) /\ client' = client
        BY <1>0, <1>2, StepHelper
    <2>2. UNCHANGED <<enabled, installed, thread>>
        BY <1>2 DEF Helper, HelperJoins, HelperHasJoined, HelperReports, HelperFrees
    <2>3. QED
        BY <1>0, <2>1, <2>2, Client' = Client, Args' = Args DEF CallTypes
<1>3. ASSUME UNCHANGED <<enabled, thread, client, args>>, installed' \in BOOLEAN PROVE CallTypes'
    BY <1>0, <1>3, Client' = Client, Args' = Args DEF CallTypes
<1>4. QED
    BY <1>0, <1>1, <1>2, <1>3
       DEF Next, ClientStep, vars, Loop, Count, Push, Look, Take, Deliver, Execute, Rest, CallTypes

(* Who has the arguments.                                                  *)
LEMMA StepFresh == CallTypes /\ Fresh /\ [Next]_vars => Fresh'
<1> SUFFICES ASSUME CallTypes, Fresh, [Next]_vars PROVE Fresh'
    OBVIOUS
<1>1. ASSUME NEW c \in Clients, ClientStep(c) PROVE Fresh'
    <2>1. /\ \A i \in Joins \ {JoinOf(c)} : args'[i] = args[i]
          /\ ClientMoves(c) /\ \A d \in Clients \ {c} : client'[d] = client[d]
        BY <1>1, StepClient
    <2>2. client[c].calls \in Nat
        BY BoundsAssumption DEF CallTypes, Client
    <2>3. ASSUME NEW d \in Clients, NEW n \in 1 .. MaxCalls,
                 \/ n > client'[d].calls
                 \/ n = client'[d].calls /\ client'[d].at \in {"stop", "read", "join"}
          PROVE args'[<<d, n>>].helper = "none"
        <3>0. <<d, n>> \in Joins
            BY DEF Joins
        <3>1. CASE d # c
            BY <2>1, <2>3, <3>0, <3>1 DEF Fresh, JoinOf
        <3>2. CASE d = c
            <4>1. CASE args' = args
                BY <2>1, <2>2, <2>3, <3>2, <4>1 DEF ClientMoves, Fresh
            <4>2. CASE args' # args
                <5>1. /\ client'[c].calls = client[c].calls
                      /\ client'[c].at \notin {"stop", "read", "join"}
                    BY <2>1, <4>2 DEF ClientMoves
                <5>2. n > client[c].calls /\ <<d, n>> # JoinOf(c)
                    BY <2>2, <2>3, <3>2, <5>1 DEF JoinOf
                <5>3. QED
                    BY <2>1, <3>0, <3>2, <5>2 DEF Fresh
            <4>3. QED
                BY <4>1, <4>2
        <3>3. QED
            BY <3>1, <3>2
    <2>4. QED
        BY <2>3 DEF Fresh
<1>2. ASSUME NEW j \in Joins, Helper(j) PROVE Fresh'
    <2>1. /\ \A i \in Joins \ {j} : args'[i] = args[i]
          /\ HelperMoves(j) /\ client' = client
        BY <1>2, StepHelper
    <2>2. args[j].helper # "none"
        BY <2>1 DEF HelperMoves
    <2>3. QED
        BY <2>1, <2>2 DEF Fresh, Joins
<1>3. ASSUME UNCHANGED <<client, args>> PROVE Fresh'
    BY <1>3 DEF Fresh
<1>4. QED
    BY <1>1, <1>2, <1>3
       DEF Next, ClientStep, vars, Loop, Count, Push, Look, Take, Deliver, Execute, Rest

LEMMA StepArgs ==
  CallTypes /\ Fresh /\ (\A j \in Joins : ArgsOf(j)) /\ [Next]_vars => \A j \in Joins : ArgsOf(j)'
<1> SUFFICES ASSUME CallTypes, Fresh, \A i \in Joins : ArgsOf(i), [Next]_vars, NEW j \in Joins
             PROVE ArgsOf(j)'
    OBVIOUS
<1>0. ArgsOf(j) /\ args[j] \in Args
    BY DEF CallTypes
<1>1. ASSUME NEW c \in Clients, ClientStep(c) PROVE ArgsOf(j)'
    <2>1. /\ \A i \in Joins \ {JoinOf(c)} : args'[i] = args[i]
          /\ ClientMoves(c) /\ \A d \in Clients \ {c} : client'[d] = client[d]
        BY <1>1, StepClient
    <2>2. client[c].calls \in Nat
        BY BoundsAssumption DEF CallTypes, Client
    <2>3. j[1] \in Clients /\ (j[1] # c => j # JoinOf(c))
        BY DEF Joins, JoinOf
    <2>4. CASE j[1] # c
        BY <1>0, <2>1, <2>3, <2>4 DEF ArgsOf, Waiting, JoinOf
    <2>5. CASE j[1] = c /\ j # JoinOf(c)
        <3>1. args'[j] = args[j] /\ ~Waiting(j)
            BY <2>1, <2>5 DEF Waiting
        <3>2. ~Waiting(j)'
            BY <2>1, <2>2, <2>5 DEF Waiting, JoinOf, ClientMoves
        <3>3. QED
            BY <1>0, <3>1, <3>2 DEF ArgsOf
    <2>6. CASE j = JoinOf(c)
        <3>0. j[1] = c /\ (Waiting(j) <=> client[c].at \in {"waiting", "reap"})
              /\ (client'[c].calls = client[c].calls =>
                    (Waiting(j)' <=> client'[c].at \in {"waiting", "reap"}))
              /\ (client'[c].calls # client[c].calls => ~Waiting(j)')
            BY <2>2, <2>6 DEF Waiting, JoinOf
        <3>1. CASE client'[c].calls = client[c].calls + 1
            BY <1>0, <2>1, <2>2, <2>6, <3>0, <3>1 DEF ArgsOf, ClientMoves
        <3>2. CASE client'[c].calls = client[c].calls
            <4>1. CASE /\ ~(client[c].at = "join" /\ client'[c].at = "waiting")
                       /\ ~(client[c].at = "waiting" /\ client'[c].at = "detach")
                       /\ client[c].at # "reap"
                <5>1. args' = args /\ (Waiting(j)' <=> Waiting(j))
                    BY <2>1, <2>2, <3>0, <3>2, <4>1 DEF ClientMoves
                <5>2. QED
                    BY <1>0, <5>1 DEF ArgsOf
            <4>2. CASE client[c].at = "join" /\ client'[c].at = "waiting"
                <5>1. args[j].helper = "none"
                    BY <2>6, <4>2 DEF Fresh, JoinOf, Joins
                <5>2. QED
                    BY <1>0, <2>1, <2>2, <2>6, <3>0, <3>2, <4>2, <5>1 DEF ArgsOf, ClientMoves
            <4>3. CASE client[c].at = "waiting" /\ client'[c].at = "detach"
                BY <1>0, <2>1, <2>2, <2>6, <3>0, <3>2, <4>3 DEF ArgsOf, ClientMoves, Args
            <4>4. CASE client[c].at = "reap"
                BY <1>0, <2>1, <2>2, <2>6, <3>0, <3>2, <4>4 DEF ArgsOf, ClientMoves, Args
            <4>5. QED
                BY <4>1, <4>2, <4>3, <4>4
        <3>3. QED
            BY <2>1, <3>1, <3>2 DEF ClientMoves
    <2>7. QED
        BY <2>4, <2>5, <2>6
<1>2. ASSUME NEW i \in Joins, Helper(i) PROVE ArgsOf(j)'
    <2>1. /\ \A k \in Joins \ {i} : args'[k] = args[k]
          /\ HelperMoves(i) /\ client' = client
        BY <1>2, StepHelper
    <2>2. Waiting(j)' <=> Waiting(j)
        BY <2>1 DEF Waiting, JoinOf
    <2>3. CASE j # i
        BY <1>0, <2>1, <2>2, <2>3 DEF ArgsOf
    <2>4. CASE j = i
        BY <1>0, <2>1, <2>2, <2>4 DEF ArgsOf, HelperMoves, Args
    <2>5. QED
        BY <2>3, <2>4
<1>3. ASSUME UNCHANGED <<client, args>> PROVE ArgsOf(j)'
    BY <1>0, <1>3 DEF ArgsOf, Waiting, JoinOf
<1>4. QED
    BY <1>1, <1>2, <1>3
       DEF Next, ClientStep, vars, Loop, Count, Push, Look, Take, Deliver, Execute, Rest

-----------------------------------------------------------------------------
(* Where messages are.                                                     *)

LEMMA Push1 ==
  ASSUME NEW S, NEW l \in Seq(S), NEW m \in S, \A i, j \in DOMAIN l : l[i] = l[j] => i = j,
         m \notin {l[i] : i \in DOMAIN l}
  PROVE  LET r == Append(l, m)
         IN  /\ r \in Seq(S) /\ {r[i] : i \in DOMAIN r} = {l[i] : i \in DOMAIN l} \cup {m}
             /\ \A i, j \in DOMAIN r : r[i] = r[j] => i = j
<1> DEFINE r == Append(l, m)
<1>1. /\ r \in Seq(S) /\ DOMAIN l = 1 .. Len(l) /\ DOMAIN r = 1 .. Len(l) + 1 /\ Len(l) \in Nat
      /\ \A i \in 1 .. Len(l) : r[i] = l[i]
      /\ r[Len(l) + 1] = m
    OBVIOUS
<1> HIDE DEF r
<1>2. {r[i] : i \in DOMAIN r} = {l[i] : i \in DOMAIN l} \cup {m}
    <2>1. \A i \in DOMAIN r : i \in DOMAIN l \/ i = Len(l) + 1
        BY <1>1
    <2>2. \A i \in DOMAIN l : i \in DOMAIN r
        BY <1>1
    <2>3. Len(l) + 1 \in DOMAIN r
        BY <1>1
    <2>4. QED
        BY <1>1, <2>1, <2>2, <2>3
<1>3. ASSUME NEW i \in DOMAIN r, NEW j \in DOMAIN r, r[i] = r[j]
      PROVE  i = j
    <2>1. CASE i \in DOMAIN l /\ j \in DOMAIN l
        BY <1>1, <1>3, <2>1
    <2>2. CASE i \in DOMAIN l /\ j = Len(l) + 1
        BY <1>1, <1>3, <2>2
    <2>3. CASE j \in DOMAIN l /\ i = Len(l) + 1
        BY <1>1, <1>3, <2>3
    <2>4. QED
        BY <1>1, <2>1, <2>2, <2>3
<1>4. QED
    BY <1>1, <1>2, <1>3 DEF r

LEMMA Pop1 ==
  ASSUME NEW S, NEW l \in Seq(S), l # <<>>, \A i, j \in DOMAIN l : l[i] = l[j] => i = j
  PROVE  LET r == Tail(l)
         IN  /\ r \in Seq(S) /\ Head(l) \in S
             /\ {l[i] : i \in DOMAIN l} = {r[i] : i \in DOMAIN r} \cup {Head(l)}
             /\ Head(l) \notin {r[i] : i \in DOMAIN r}
             /\ \A i, j \in DOMAIN r : r[i] = r[j] => i = j
<1> DEFINE r == Tail(l)
           h == Head(l)
<1>1. /\ r \in Seq(S) /\ DOMAIN l = 1 .. Len(l) /\ DOMAIN r = 1 .. Len(l) - 1
      /\ Len(l) \in Nat /\ Len(l) >= 1
      /\ \A i \in 1 .. Len(l) - 1 : r[i] = l[i + 1]
      /\ h = l[1] /\ h \in S
    OBVIOUS
<1> HIDE DEF r, h
<1>2. \A i \in DOMAIN r : i + 1 \in DOMAIN l /\ r[i] = l[i + 1]
    BY <1>1
<1>3. \A i \in DOMAIN l : i = 1 \/ (i - 1 \in DOMAIN r /\ l[i] = r[i - 1])
    BY <1>1
<1>4. 1 \in DOMAIN l
    BY <1>1
<1>5. {l[i] : i \in DOMAIN l} = {r[i] : i \in DOMAIN r} \cup {h}
    <2>1. ASSUME NEW i \in DOMAIN l PROVE l[i] \in {r[k] : k \in DOMAIN r} \cup {h}
        BY <1>1, <1>3
    <2>2. ASSUME NEW k \in DOMAIN r PROVE r[k] \in {l[i] : i \in DOMAIN l}
        BY <1>2
    <2>3. h \in {l[i] : i \in DOMAIN l}
        BY <1>1, <1>4
    <2>4. QED
        BY <2>1, <2>2, <2>3
<1>6. h \notin {r[i] : i \in DOMAIN r}
    BY <1>1, <1>2, <1>4
<1>7. \A i, j \in DOMAIN r : r[i] = r[j] => i = j
    BY <1>1, <1>2
<1>8. QED
    BY <1>1, <1>5, <1>6, <1>7 DEF r, h

LEMMA StepMessages ==
  Types /\ NothingLostOrTwice /\ [Next]_vars => MessageTypes' /\ NothingLostOrTwice'
<1> SUFFICES ASSUME Types, NothingLostOrTwice, [Next]_vars
             PROVE  MessageTypes' /\ NothingLostOrTwice'
    OBVIOUS
<1>0. MessageTypes /\ ThreadTypes
    BY DEF Types
<1>1. /\ unpushed \cup Listed \cup Held \cup delivered \subseteq 1 .. sent
      /\ 0 \notin 1 .. sent /\ 1 .. sent \subseteq Nat
    BY <1>0 DEF NothingLostOrTwice, MessageTypes
<1>2. ASSUME UNCHANGED <<held, messages>>, \A t \in Threads : at'[t] = "busy" <=> at[t] = "busy"
      PROVE  MessageTypes' /\ NothingLostOrTwice'
    <2>1. UNCHANGED <<held, list, unpushed, sent, delivered>>
        BY <1>2 DEF messages
    <2>2. MessageTypes'
        BY <1>0, <1>2, <2>1 DEF MessageTypes
    <2>3. Held' = Held /\ Listed' = Listed
        BY <2>1 DEF Held, Listed
    <2>4. NothingLostOrTwice'
        BY <1>0, <2>1, <2>3 DEF NothingLostOrTwice
    <2>5. QED
        BY <2>2, <2>4
<1>3. CASE Count
    <2>1. /\ sent' = sent + 1 /\ unpushed' = unpushed \cup {sent + 1}
          /\ UNCHANGED <<at, held, list, delivered>>
        BY <1>3 DEF Count, threadVars
    <2>2. 1 .. sent' = (1 .. sent) \cup {sent + 1} /\ sent + 1 \notin 1 .. sent /\ sent' \in Nat
        BY <1>0, <2>1 DEF MessageTypes
    <2>3. Held' = Held /\ Listed' = Listed
        BY <2>1 DEF Held, Listed
    <2>4. MessageTypes'
        BY <1>0, <2>1, <2>2 DEF MessageTypes
    <2>5. 1 .. sent' = unpushed' \cup Listed' \cup Held' \cup delivered'
        BY <1>0, <2>1, <2>2, <2>3 DEF NothingLostOrTwice
    <2>6. NothingLostOrTwice'
        BY <1>0, <1>1, <2>1, <2>2, <2>3, <2>5 DEF NothingLostOrTwice
    <2>7. QED
        BY <2>4, <2>6
<1>4. ASSUME NEW m \in unpushed, Push(m) PROVE MessageTypes' /\ NothingLostOrTwice'
    <2>1. /\ unpushed' = unpushed \ {m} /\ list' = Append(list, m) /\ m \in Nat
          /\ UNCHANGED <<at, held, sent, delivered>> /\ list \in Seq(Nat)
        BY <1>0, <1>1, <1>4 DEF Push, threadVars, MessageTypes
    <2>2. /\ list' \in Seq(Nat) /\ Listed' = Listed \cup {m}
          /\ \A i, j \in DOMAIN list' : list'[i] = list'[j] => i = j
        <3> DEFINE r == Append(list, m)
        <3>1. (\A i, j \in DOMAIN list : list[i] = list[j] => i = j)
              /\ m \notin {list[i] : i \in DOMAIN list}
            BY <1>0 DEF NothingLostOrTwice, Listed
        <3>2. /\ r \in Seq(Nat) /\ {r[i] : i \in DOMAIN r} = {list[i] : i \in DOMAIN list} \cup {m}
              /\ \A i, j \in DOMAIN r : r[i] = r[j] => i = j
            BY <2>1, <3>1, Push1, Zenon
        <3>3. list' = r
            BY <2>1
        <3> HIDE DEF r
        <3>4. QED
            BY <3>2, <3>3 DEF Listed
    <2>3. Held' = Held
        BY <2>1 DEF Held
    <2>4. MessageTypes'
        BY <1>0, <2>1, <2>2 DEF MessageTypes
    <2>5. NothingLostOrTwice'
        BY <1>0, <2>1, <2>2, <2>3 DEF NothingLostOrTwice
    <2>6. QED
        BY <2>4, <2>5
<1>5. ASSUME NEW t \in Threads, Look(t) PROVE MessageTypes' /\ NothingLostOrTwice'
    BY <1>0, <1>2, <1>5 DEF Look, ThreadTypes
<1>6. ASSUME NEW t \in Threads, Take(t), list # <<>> PROVE MessageTypes' /\ NothingLostOrTwice'
    <2> DEFINE h == Head(list)
    <2>1. /\ at' = [at EXCEPT ![t] = "busy"] /\ held' = [held EXCEPT ![t] = h]
          /\ list' = Tail(list) /\ UNCHANGED <<unpushed, sent, delivered>>
          /\ at[t] = "take" /\ list \in Seq(Nat)
        BY <1>0, <1>6 DEF Take, MessageTypes
    <2>2. /\ list' \in Seq(Nat) /\ Listed = Listed' \cup {h} /\ h \notin Listed' /\ h \in Nat
          /\ \A i, j \in DOMAIN list' : list'[i] = list'[j] => i = j
        <3> DEFINE r == Tail(list)
        <3>1. \A i, j \in DOMAIN list : list[i] = list[j] => i = j
            BY <1>0 DEF NothingLostOrTwice
        <3>2. /\ r \in Seq(Nat) /\ h \in Nat
              /\ {list[i] : i \in DOMAIN list} = {r[i] : i \in DOMAIN r} \cup {h}
              /\ h \notin {r[i] : i \in DOMAIN r}
              /\ \A i, j \in DOMAIN r : r[i] = r[j] => i = j
            BY <1>6, <2>1, <3>1, Pop1, Zenon
        <3>3. list' = r
            BY <2>1
        <3> HIDE DEF r, h
        <3>4. QED
            BY <3>2, <3>3 DEF Listed
    <2> HIDE DEF h
    <2>3. h # None /\ held[t] = None /\ h \notin Held
        BY <1>0, <1>1, <2>1, <2>2 DEF MessageTypes, NothingLostOrTwice, None
    <2>4. held'[t] = h /\ \A s \in Threads \ {t} : held'[s] = held[s]
        BY <1>0, <2>1 DEF MessageTypes
    <2>5. Held' = Held \cup {h}
        BY <2>3, <2>4 DEF Held
    <2>6. MessageTypes'
        BY <1>0, <2>1, <2>2, <2>3 DEF MessageTypes, ThreadTypes
    <2>7. \A r, s \in Threads : held'[r] = held'[s] => r = s \/ held'[r] = None
        BY <1>0, <2>3, <2>4 DEF NothingLostOrTwice, Held
    <2>8. NothingLostOrTwice'
        BY <1>0, <2>1, <2>2, <2>3, <2>5, <2>7 DEF NothingLostOrTwice
    <2>9. QED
        BY <2>6, <2>8
<1>7. ASSUME NEW t \in Threads, Take(t), list = <<>> PROVE MessageTypes' /\ NothingLostOrTwice'
    BY <1>0, <1>2, <1>7 DEF Take, ThreadTypes, messages
<1>8. ASSUME NEW t \in Threads, Deliver(t) PROVE MessageTypes' /\ NothingLostOrTwice'
    <2> DEFINE h == held[t]
    <2>1. /\ at' = [at EXCEPT ![t] = "loop"] /\ held' = [held EXCEPT ![t] = None]
          /\ delivered' = delivered \cup {h}
          /\ UNCHANGED <<list, unpushed, sent>> /\ at[t] = "busy"
        BY <1>8 DEF Deliver
    <2>2. h # None /\ h \in Held
        BY <1>0, <2>1 DEF MessageTypes, Held
    <2>3. held'[t] = None /\ \A s \in Threads \ {t} : held'[s] = held[s]
        BY <1>0, <2>1 DEF MessageTypes
    <2>4. Held' = Held \ {h} /\ Listed' = Listed
        BY <1>0, <2>1, <2>2, <2>3 DEF Held, Listed, NothingLostOrTwice
    <2>5. MessageTypes'
        BY <1>0, <2>1 DEF MessageTypes, ThreadTypes, None
    <2>6. \A r, s \in Threads : held'[r] = held'[s] => r = s \/ held'[r] = None
        BY <1>0, <2>3 DEF NothingLostOrTwice
    <2> HIDE DEF h
    <2>7. NothingLostOrTwice'
        BY <1>0, <2>1, <2>2, <2>4, <2>6 DEF NothingLostOrTwice
    <2>8. QED
        BY <2>5, <2>7
<1>9. ASSUME NEW c \in Clients, NEW t \in Threads, Create(c, t)
       PROVE  MessageTypes' /\ NothingLostOrTwice'
    BY <1>0, <1>2, <1>9 DEF Create, ThreadTypes
<1>10. ASSUME NEW c \in Clients, ClientStep(c) PROVE MessageTypes' /\ NothingLostOrTwice'
    BY <1>2, <1>9, <1>10
       DEF ClientStep, Enable, Disable, CallStep, CreateFails, Undo, Install, Stop, ReadThread,
           Join, JoinFails, Detach, Forget, Remove, StartHelper, StartFails, WaitEnds, WaitTimesOut,
           Reap, threadVars
<1>11. ASSUME NEW j \in Joins, Helper(j) PROVE MessageTypes' /\ NothingLostOrTwice'
    BY <1>2, <1>11
       DEF Helper, HelperJoins, HelperHasJoined, HelperReports, HelperFrees, threadVars
<1>12. CASE Execute \/ Rest \/ UNCHANGED vars
    BY <1>2, <1>12 DEF Execute, Rest, vars, threadVars, messages
<1>13. QED
    BY <1>3, <1>4, <1>5, <1>6, <1>7, <1>8, <1>10, <1>11, <1>12 DEF Next, ClientStep, Loop

-----------------------------------------------------------------------------
LEMMA StepInv == Inv /\ [Next]_vars => Inv'
<1>1. Inv /\ [Next]_vars => ThreadTypes' /\ CallTypes' /\ Fresh' /\ (\A j \in Joins : ArgsOf(j))'
    BY StepThreadTypes, StepCallTypes, StepFresh, StepArgs DEF Inv, Types
<1>2. Inv /\ [Next]_vars => MessageTypes' /\ NothingLostOrTwice'
    BY StepMessages DEF Inv
<1>3. QED
    BY <1>1, <1>2 DEF Inv, Types

LEMMA InvHolds == Spec => []Inv
BY InitInv, StepInv, PTL DEF Spec

(* Type correctness.                                                       *)
THEOREM TypeCorrect == Spec => []TypeOK
<1>1. ASSUME Inv PROVE TypeOK
    <2>1. /\ enabled \in BOOLEAN /\ installed \in BOOLEAN /\ thread \in Threads \cup {None}
        BY <1>1 DEF Inv, Types, CallTypes
    <2>2. ASSUME NEW t \in Threads
          PROVE  /\ at[t] \in {"none", "loop", "take", "busy", "ended"}
                 /\ held[t] \in Nat /\ (held[t] # None <=> at[t] = "busy")
                 /\ kept[t] \in {"none", "joinable", "claimed", "joined", "detached"}
                 /\ kept[t] = "none" <=> at[t] = "none"
        BY <1>1 DEF Inv, Types, ThreadTypes, MessageTypes
    <2>3. sent \in Nat /\ list \in Seq(Nat)
        BY <1>1 DEF Inv, Types, MessageTypes
    <2>4. unpushed \cup delivered \subseteq Nat
        BY <1>1, <2>3 DEF Inv, NothingLostOrTwice
    <2>5. ASSUME NEW c \in Clients
          PROVE  /\ client[c].at \in {"idle", "create", "undo", "install", "stop", "read", "join",
                                     "waiting", "reap", "detach", "forget", "remove"}
                 /\ client[c].calls \in 0 .. MaxCalls /\ client[c].td \in Threads \cup {None}
        BY <1>1 DEF Inv, Types, CallTypes, Client
    <2>6. ASSUME NEW j \in Joins
          PROVE  args[j].helper \in {"none", "started", "joining", "joined", "free", "done"}
        BY <1>1 DEF Inv, Types, CallTypes, Args
    <2>7. QED
        BY <2>1, <2>2, <2>3, <2>4, <2>5, <2>6 DEF TypeOK
<1>2. QED
    BY InvHolds, <1>1, PTL

(* A message is at one place until it has been delivered, and delivered    *)
(* once, with every number of clients, callback threads and messages.      *)
THEOREM MessagesKept == Spec => []NothingLostOrTwice
<1>1. Inv => NothingLostOrTwice
    BY DEF Inv
<1>2. QED
    BY InvHolds, <1>1, PTL

(* The arguments of a timed join are freed once, by the last to use them.  *)
THEOREM ArgsFreed == Spec => []ArgsAreFreedLast
<1>1. ASSUME Inv PROVE ArgsAreFreedLast
    <2>1. ASSUME NEW j \in Joins
          PROVE  args[j].frees = IF args[j].helper = "done" /\ ~Waiting(j) THEN 1 ELSE 0
        <3>1. args[j].helper \in {"none", "started", "joining", "joined", "free", "done"} /\ ArgsOf(j)
            BY <1>1 DEF Inv, Types, CallTypes, Args
        <3>2. QED
            BY <3>1 DEF ArgsOf
    <2>2. QED
        BY <2>1 DEF ArgsAreFreedLast
<1>2. QED
    BY InvHolds, <1>1, PTL

=============================================================================
