----------------------------- MODULE PirateScene -----------------------------
(***************************************************************************)
(* The captain's state, shared by the scene (components/scene/PirateContext*)
(* and PirateStage).  Every asynchronous flow of the chat and the cards --  *)
(* sealing, arming, checking in, cancelling, revealing -- awaits runWhile,  *)
(* which comes back only when its clip has reached a boundary: what the    *)
(* timers and the clips do here decides whether those flows ever go on.    *)
(***************************************************************************)
EXTENDS Integers

CONSTANTS
    Calls,      \* the calls of runWhile and pulse
    Clips,      \* the clips they show
    None        \* no clip, no pending clip

PirateState == {"idle", "waiting", "thinking", "talking", "encrypting",
                "decrypting"}

Pending == [token : Nat, state : Clips, done : BOOLEAN]

ASSUME ClipsAssumption == Clips \subseteq PirateState
ASSUME NoneAssumption == None \notin PirateState \cup Pending

VARIABLES
    resting,    \* what the captain returns to
    transient,  \* the clip of an action, over everything else
    blink,      \* the occasional glance, over the resting state
    seen,       \* transientRef: the transient of the last render
    shown,      \* the state of the last render, whose clip is played
    token,      \* tokenRef: the number of the latest call
    pending,    \* pendingRef: the clip that is to reach a boundary
    timers,     \* the calls whose fallback timer runs
    blinkTimer, \* the fallback timer of the glance runs
    released,   \* the calls whose boundary is reached
    call,       \* how far each call is, and its number
    mounted

vars == <<resting, transient, blink, seen, shown, token, pending, timers,
          blinkTimer, released, call, mounted>>

Call == [phase : {"new", "working", "worked", "returned"}, token : Nat]

TypeOK ==
    /\ resting \in {"idle", "thinking"}
    /\ transient \in Clips \cup {None}
    /\ blink \in {"waiting", None}
    /\ seen \in Clips \cup {None}
    /\ shown \in PirateState
    /\ token \in Nat
    /\ pending = None \/ pending \in Pending
    /\ timers \in SUBSET Nat
    /\ blinkTimer \in BOOLEAN
    /\ released \in SUBSET Nat
    /\ call \in [Calls -> Call]
    /\ mounted \in BOOLEAN

Init ==
    /\ resting = "idle"
    /\ transient = None
    /\ blink = None
    /\ seen = None
    /\ shown = "idle"
    /\ token = 0
    /\ pending = None
    /\ timers = {}
    /\ blinkTimer = FALSE
    /\ released = {}
    /\ call = [c \in Calls |-> [phase |-> "new", token |-> 0]]
    /\ mounted = TRUE

\* The visible state.
Visible_NoFallback == IF transient # None THEN transient ELSE blink
Visible ==
    IF transient # None THEN transient
    ELSE IF blink # None THEN blink
    ELSE resting

-----------------------------------------------------------------------------
(* Pending clips.                                                          *)

PendingTokens == IF pending = None THEN {} ELSE {pending.token}

\* The clip before is released, the new one gets a timer of its own.
StartPending_Forgotten(s, done) ==
    /\ token' = token + 1
    /\ pending' = [token |-> token + 1, state |-> s, done |-> done]
    /\ timers' = (timers \ PendingTokens) \cup {token + 1}
    /\ transient' = s
    /\ blink' = None
    /\ blinkTimer' = FALSE
    /\ UNCHANGED released
StartPending(s, done) ==
    /\ token' = token + 1
    /\ pending' = [token |-> token + 1, state |-> s, done |-> done]
    /\ released' = released \cup PendingTokens
    /\ timers' = (timers \ PendingTokens) \cup {token + 1}
    /\ transient' = s
    /\ blink' = None
    /\ blinkTimer' = FALSE

\* The clip may be taken off: its work is done.
Ready_Always(t) == pending # None /\ pending.token = t
Ready(t) == pending # None /\ pending.token = t /\ pending.done

ClearPending(t) ==
    /\ pending' = None
    /\ transient' = IF token = t THEN None ELSE transient
    /\ timers' = timers \ {t}
    /\ released' = released \cup {t}

\* pulse() returns at once.
Pulse(c, s) ==
    /\ call[c].phase = "new"
    /\ call' = [call EXCEPT ![c] = [phase |-> "returned", token |-> token + 1]]
    /\ StartPending(s, TRUE)
    /\ UNCHANGED <<resting, seen, shown, mounted>>

\* runWhile() starts its work, and waits for its boundary after it.
RunWhile(c, s) ==
    /\ call[c].phase = "new"
    /\ call' = [call EXCEPT ![c] = [phase |-> "working", token |-> token + 1]]
    /\ StartPending(s, FALSE)
    /\ UNCHANGED <<resting, seen, shown, mounted>>

\* The work ends or throws: its clip may go, if it is still the pending one.
MarkDone_Never(c) == UNCHANGED pending
MarkDone(c) ==
    pending' = IF pending # None /\ pending.token = call[c].token
               THEN [pending EXCEPT !.done = TRUE] ELSE pending

FinishWork(c) ==
    /\ call[c].phase = "working"
    /\ call' = [call EXCEPT ![c].phase = "worked"]
    /\ MarkDone(c)
    /\ UNCHANGED <<resting, transient, blink, seen, shown, token, timers,
                   blinkTimer, released, mounted>>

Return(c) ==
    /\ call[c].phase = "worked"
    /\ call[c].token \in released
    /\ call' = [call EXCEPT ![c].phase = "returned"]
    /\ UNCHANGED <<resting, transient, blink, seen, shown, token, pending,
                   timers, blinkTimer, released, mounted>>

\* The fallback timer.  A clip whose work goes on gets a new one: no change.
Fallback(t) ==
    /\ t \in timers
    /\ \/ Ready(t) /\ ClearPending(t)
       \/ /\ t \notin PendingTokens
          /\ timers' = timers \ {t}
          /\ UNCHANGED <<pending, transient, released>>
    /\ UNCHANGED <<resting, blink, seen, shown, token, blinkTimer, call,
                   mounted>>

-----------------------------------------------------------------------------
(* The stage and the glance.                                               *)

\* A render, with the effect that mirrors the transient.
Render ==
    /\ mounted
    /\ shown' = Visible /\ seen' = transient
    /\ UNCHANGED <<resting, transient, blink, token, pending, timers,
                   blinkTimer, released, call, mounted>>

\* The active video completes a loop.
CompleteCycle ==
    /\ mounted
    /\ IF pending # None /\ pending.state = shown
       THEN /\ Ready(pending.token)
            /\ ClearPending(pending.token)
            /\ UNCHANGED <<blink, blinkTimer>>
       ELSE /\ blinkTimer' = FALSE
            /\ blink' = IF blink = shown THEN None ELSE blink
            /\ UNCHANGED <<transient, pending, timers, released>>
    /\ UNCHANGED <<resting, seen, shown, token, call, mounted>>

\* Every now and then, when no action was on screen at the last render.
Glance ==
    /\ mounted
    /\ seen = None
    /\ blink' = "waiting"
    /\ blinkTimer' = TRUE
    /\ UNCHANGED <<resting, transient, seen, shown, token, pending, timers,
                   released, call, mounted>>

GlanceOver ==
    /\ blinkTimer
    /\ blink' = None
    /\ blinkTimer' = FALSE
    /\ UNCHANGED <<resting, transient, seen, shown, token, pending, timers,
                   released, call, mounted>>

SetResting(s) ==
    /\ mounted
    /\ resting' = s
    /\ UNCHANGED <<transient, blink, seen, shown, token, pending, timers,
                   blinkTimer, released, call, mounted>>

\* The page is left; flows that are under way may still call and return.
Unmount ==
    /\ mounted
    /\ mounted' = FALSE
    /\ released' = released \cup PendingTokens
    /\ timers' = timers \ PendingTokens
    /\ blinkTimer' = FALSE
    /\ UNCHANGED <<resting, transient, blink, seen, shown, token, pending,
                   call>>

Next ==
    \/ \E c \in Calls, s \in Clips : Pulse(c, s) \/ RunWhile(c, s)
    \/ \E c \in Calls : FinishWork(c) \/ Return(c)
    \/ \E t \in timers : Fallback(t)
    \/ Render \/ CompleteCycle \/ Glance \/ GlanceOver
    \/ \E s \in {"idle", "thinking"} : SetResting(s)
    \/ Unmount

Spec == Init /\ [][Next]_vars

\* Timers go off and promises go on.  Nothing is assumed of the videos, which
\* may never play, nor of the work that the calls wait for.
Fairness ==
    /\ WF_vars(\E t \in timers : Fallback(t))
    /\ \A c \in Calls : WF_vars(Return(c))

FairSpec == Spec /\ Fairness

-----------------------------------------------------------------------------
(* Properties.                                                             *)

\* "Overlapping transients never clear each other early": while the work of
\* the latest call goes on, its clip is the override, whatever calls, timers
\* and loop boundaries came in between.
LatestIsShown ==
    \A c \in Calls :
        call[c].phase = "working" /\ call[c].token = token =>
            pending # None /\ pending.token = token /\ transient = pending.state

\* A call whose work is done and that has not been let go still owns the
\* pending clip, marked done, with a timer that will end it.
NobodyIsForgotten ==
    \A c \in Calls :
        call[c].phase = "worked" /\ call[c].token \notin released =>
            /\ pending # None
            /\ pending.token = call[c].token /\ pending.done
            /\ pending.token \in timers

\* No flow hangs in its animation: a call whose work is done returns.
WorkReturns ==
    \A c \in Calls : call[c].phase = "worked" ~> call[c].phase = "returned"

\* "Nothing has to be restored by the caller": once no work is under way, the
\* override is gone for good or another call has started.
SceneSettles ==
    (\A c \in Calls : call[c].phase # "working") ~>
        \/ transient = None
        \/ ~mounted
        \/ \E c \in Calls : call[c].phase = "working"
=============================================================================
