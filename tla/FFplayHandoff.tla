---------------------------- MODULE FFplayHandoff ---------------------------
(***************************************************************************)
(* How FFplay sessions follow one another (ffplayExecute and executeFFplay *)
(* in FFmpegKitConfig.cpp, FFplaySession.cpp, ffplay_lib.c).               *)
(*                                                                         *)
(* A session that starts puts its id into activeFFplaySessionId; if it     *)
(* finds the id of another there, it marks that session's word of          *)
(* sessionMap and waits until the session is terminal, or for waitTimeout. *)
(* ffplay_init_argv has a second barrier: while active_ffplay_ctx is set   *)
(* it pushes a quit event and waits, up to five seconds, for it to clear.  *)
(* SDL's event queue is one for all sessions; ffplay_step of whoever plays *)
(* takes the event.                                                        *)
(***************************************************************************)
EXTENDS Naturals

CONSTANTS
    Sessions,    \* the ids of FFplay sessions, no two on one word
    MayForget    \* whether the history may lose a session that is waited for

ASSUME SessionsAssumption == Sessions \subseteq Nat \ {0}
ASSUME MayForgetAssumption == MayForget \in BOOLEAN

VARIABLES
    pc,       \* where the thread of a session is
    active,   \* activeFFplaySessionId, 0 when none
    previous, \* the id a session found there
    word,     \* its word of sessionMap: 0, 1 registered, 2 to be cancelled
    attached, \* whether FFplaySession::_context is set
    playing,  \* active_ffplay_ctx, by its session; 0 when NULL
    quit,     \* whether a quit event is in SDL's queue
    \* History variables.
    ticket,   \* the order in which the sessions exchanged active
    tickets,  \* how many have
    gaveUp    \* whether a session did not wait for the end of the previous one

ghosts == <<ticket, tickets, gaveUp>>
vars == <<pc, active, previous, word, attached, playing, quit, ghosts>>

Init ==
    /\ pc = [s \in Sessions |-> "created"]
    /\ active = 0
    /\ previous = [s \in Sessions |-> 0]
    /\ word = [s \in Sessions |-> 0]
    /\ attached = [s \in Sessions |-> FALSE]
    /\ playing = 0
    /\ quit = FALSE
    /\ ticket = [s \in Sessions |-> 0] /\ tickets = 0 /\ gaveUp = FALSE

Goes(s, from, to) == pc[s] = from /\ pc' = [pc EXCEPT ![s] = to]
Terminal(s) == pc[s] \in {"completed", "failed"}

-----------------------------------------------------------------------------
(* ffplayExecute: the hand-off. *)

\* Mutant of ExchangeActive: 0 is taken for a session.
ExchangeActiveUntested(s) ==
    /\ Goes(s, "created", "cancel")
    /\ active' = s
    /\ previous' = [previous EXCEPT ![s] = active]
    /\ ticket' = [ticket EXCEPT ![s] = tickets + 1]
    /\ tickets' = tickets + 1
    /\ UNCHANGED <<word, attached, playing, quit, gaveUp>>

ExchangeActive(s) ==
    /\ Goes(s, "created", IF active = 0 THEN "register" ELSE "cancel")
    /\ active' = s
    /\ previous' = [previous EXCEPT ![s] = active]
    /\ ticket' = [ticket EXCEPT ![s] = tickets + 1]
    /\ tickets' = tickets + 1
    /\ UNCHANGED <<word, attached, playing, quit, gaveUp>>

CancelPrevious(s) ==
    /\ Goes(s, "cancel", "wait")
    /\ word' = [word EXCEPT ![previous[s]] = 2]
    /\ UNCHANGED <<active, previous, attached, playing, quit, ghosts>>

\* Mutant of PreviousIsTerminal: its context has been detached.
PreviousIsDetached(s) ==
    Terminal(previous[s]) \/ pc[previous[s]] \in {"free", "sdlquit"}

PreviousIsTerminal(s) == Terminal(previous[s])

\* waitFor returns true, or the session is no longer there to wait for.
PreviousCompletes(s) ==
    /\ Goes(s, "wait", "register")
    /\ PreviousIsTerminal(s) \/ MayForget
    /\ gaveUp' = (gaveUp \/ ~PreviousIsTerminal(s))
    /\ UNCHANGED <<active, previous, word, attached, playing, quit, ticket,
                   tickets>>

Release(s) == active' = IF active = s THEN 0 ELSE active

\* waitFor returns false: the session fails.
WaitTimesOut(s) ==
    /\ Goes(s, "wait", "fail")
    /\ ~Terminal(previous[s])
    /\ Release(s)
    /\ gaveUp' = TRUE
    /\ UNCHANGED <<previous, word, attached, playing, quit, ticket, tickets>>

-----------------------------------------------------------------------------
(* executeFFplay. *)

RegisterSessionId(s) ==
    /\ Goes(s, "register", "init")
    /\ word' = [word EXCEPT ![s] = 1]
    /\ UNCHANGED <<active, previous, attached, playing, quit, ghosts>>

\* ffplay_init_common looks at active_ffplay_ctx, stops it (a context that
\* has taken a quit event has nothing left to stop) ...
InitFindsActive(s) ==
    /\ playing # 0
    /\ Goes(s, "init", "clear")
    /\ quit' \in {TRUE, quit \/ pc[playing] # "free"}
    /\ UNCHANGED <<active, previous, word, attached, playing, ghosts>>

InitFindsNone(s) ==
    /\ playing = 0
    /\ pc[s] \in {"init", "clear"} /\ pc' = [pc EXCEPT ![s] = "open"]
    /\ UNCHANGED <<active, previous, word, attached, playing, quit, ghosts>>

\* ... or gives up, or fails to open its input: the session ends.
InitFails(s) ==
    /\ \/ pc[s] = "clear" /\ playing # 0
       \/ pc[s] = "open"
    /\ pc' = [pc EXCEPT ![s] = "release"]
    /\ word' = [word EXCEPT ![s] = 0]
    /\ quit' = (quit /\ pc[s] = "clear")
    /\ UNCHANGED <<active, previous, attached, playing, ghosts>>

\* The input is open: the context goes to active_ffplay_ctx ...
Publish(s) ==
    /\ Goes(s, "open", "attach")
    /\ playing' = s
    /\ UNCHANGED <<active, previous, word, attached, quit, ghosts>>

\* ... and to the session.
Attach(s) ==
    /\ Goes(s, "attach", "play")
    /\ attached' = [attached EXCEPT ![s] = TRUE]
    /\ UNCHANGED <<active, previous, word, playing, quit, ghosts>>

\* The loop over ffplay_step ends: the event, the word, or the playback.
PlayEnds(s) ==
    /\ Goes(s, "play", "free")
    /\ \/ quit /\ quit' = FALSE
       \/ word[s] = 2 /\ quit' = TRUE
       \/ UNCHANGED quit
    /\ attached' = [attached EXCEPT ![s] = FALSE]
    /\ word' = [word EXCEPT ![s] = 0]
    /\ UNCHANGED <<active, previous, playing, ghosts>>

\* Mutant of FreeContext: active_ffplay_ctx stays.
FreeContextOnly(s) ==
    /\ Goes(s, "free", "sdlquit")
    /\ UNCHANGED <<active, previous, word, attached, playing, quit, ghosts>>

\* ffplay_free: the context leaves active_ffplay_ctx ...
FreeContext(s) ==
    /\ Goes(s, "free", "sdlquit")
    /\ playing' = IF playing = s THEN 0 ELSE playing
    /\ UNCHANGED <<active, previous, word, attached, quit, ghosts>>

\* ... and SDL is shut down with its queue.
QuitSDL(s) ==
    /\ Goes(s, "sdlquit", "release")
    /\ quit' = FALSE
    /\ UNCHANGED <<active, previous, word, attached, playing, ghosts>>

\* "RESET ACTIVE SESSION ID IF IT'S STILL US"
ReleaseActive(s) ==
    /\ Goes(s, "release", "complete")
    /\ Release(s)
    /\ UNCHANGED <<previous, word, attached, playing, quit, ghosts>>

Complete(s) ==
    /\ \/ Goes(s, "complete", "completed")
       \/ Goes(s, "fail", "failed")
    /\ UNCHANGED <<active, previous, word, attached, playing, quit, ghosts>>

\* A client: FFplaySession::close, which cancel and the start of an
\* asynchronous session call too.
Close(s) ==
    /\ attached[s]
    /\ attached' = [attached EXCEPT ![s] = FALSE]
    /\ quit' = TRUE
    /\ UNCHANGED <<pc, active, previous, word, playing, ghosts>>

\* A client: FFmpegKit::cancel with the id of an FFplay session.
CancelById(s) ==
    /\ pc[s] # "created"
    /\ word' = [word EXCEPT ![s] = 2]
    /\ UNCHANGED <<pc, active, previous, attached, playing, quit, ghosts>>

Rest == (\A s \in Sessions : Terminal(s)) /\ UNCHANGED vars

SessionStep(s) ==
    \/ ExchangeActive(s) \/ CancelPrevious(s) \/ PreviousCompletes(s)
    \/ WaitTimesOut(s) \/ RegisterSessionId(s) \/ InitFindsActive(s)
    \/ InitFindsNone(s) \/ InitFails(s) \/ Publish(s) \/ Attach(s)
    \/ PlayEnds(s) \/ FreeContext(s) \/ QuitSDL(s) \/ ReleaseActive(s) \/ Complete(s)

Next == (\E s \in Sessions : SessionStep(s) \/ Close(s) \/ CancelById(s))
        \/ Rest

Spec == Init /\ [][Next]_vars

-----------------------------------------------------------------------------
(* The values the variables take. *)
TypeOK ==
    /\ pc \in [Sessions -> {"created", "cancel", "wait", "register", "init",
                            "clear", "open", "attach", "play", "free",
                            "sdlquit", "release", "complete", "fail",
                            "completed", "failed"}]
    /\ active \in Sessions \cup {0}
    /\ previous \in [Sessions -> Sessions \cup {0}]
    /\ word \in [Sessions -> 0..2]
    /\ attached \in [Sessions -> BOOLEAN]
    /\ playing \in Sessions \cup {0}
    /\ quit \in BOOLEAN
    /\ ticket \in [Sessions -> Nat]
    /\ tickets \in Nat
    /\ gaveUp \in BOOLEAN
    /\ \A s \in Sessions : pc[s] \in {"cancel", "wait"} => previous[s] # 0

(* "Only one FFplay session can be active at a time": from the opening of  *)
(* the input until SDL is shut down.                                       *)
HasSDL(s) == pc[s] \in {"open", "attach", "play", "free", "sdlquit"}
AtMostOnePlays ==
    \A s, t \in Sessions : HasSDL(s) /\ HasSDL(t) => s = t

(* The same, as long as every session has waited for the end of the one    *)
(* before it: the hand-off of ffplayExecute keeps the sessions in order.   *)
OnePlaysUnlessGivenUp == ~gaveUp => AtMostOnePlays

(* getActiveFFplaySession never answers with a session that has ended.     *)
ActiveHasNotEnded == active # 0 => ~Terminal(active)

(* active_ffplay_ctx, which the controls and the next ffplay_init use, is  *)
(* never a context that has been freed.                                    *)
PlayingContextIsAlive == playing # 0 => pc[playing] \in {"attach", "play", "free"}
=============================================================================
