-------------------------- MODULE PirateScene_proof --------------------------
(***************************************************************************)
(* The scene never forgets a call and never clears the latest one's clip   *)
(* early, for any number of calls of any clips, whatever the videos do.    *)
(***************************************************************************)
EXTENDS PirateScene, TLAPS

\* Calls are numbered in the order they are made, and the pending clip is the
\* latest call's.
NumberInv ==
    /\ \A c \in Calls : call[c].token <= token
    /\ \A c, d \in Calls :
          /\ call[c].phase # "new" /\ call[d].phase # "new"
          /\ call[c].token = call[d].token
          => c = d
    /\ pending # None => pending.token = token
    /\ \A t \in released : t <= token

\* Work that goes on and was not let go owns the pending clip and its timer;
\* the latest call's work is on screen, and not done.
WorkInv ==
    \A c \in Calls :
        call[c].phase = "working" =>
            /\ call[c].token \notin released =>
                  /\ pending # None
                  /\ pending.token = call[c].token
                  /\ pending.token \in timers
            /\ call[c].token = token =>
                  /\ pending # None
                  /\ transient = pending.state
                  /\ ~pending.done

SceneInv == TypeOK /\ NumberInv /\ WorkInv /\ NobodyIsForgotten

\* What the invariant says of the clips and the calls.
clipVars == <<transient, token, pending, timers, released, call>>

LEMMA QuietStep ==
    ASSUME SceneInv, UNCHANGED clipVars
    PROVE  NumberInv' /\ WorkInv' /\ NobodyIsForgotten'
BY DEF SceneInv, NumberInv, WorkInv, NobodyIsForgotten, clipVars

\* The pending clip of a state that satisfies the type invariant.
LEMMA PendingType ==
    ASSUME TypeOK, pending # None
    PROVE  /\ pending \in Pending /\ pending.token \in Nat
           /\ pending.state \in Clips /\ pending.done \in BOOLEAN
           /\ PendingTokens = {pending.token}
BY DEF TypeOK, Pending, PendingTokens

-----------------------------------------------------------------------------
(* A new call.                                                             *)

LEMMA StartStep ==
    ASSUME SceneInv, NEW c \in Calls, NEW s \in Clips,
           NEW done \in BOOLEAN, NEW ph \in {"working", "returned"},
           ph = "working" => ~done,
           call[c].phase = "new", StartPending(s, done),
           call' = [call EXCEPT ![c] = [phase |-> ph, token |-> token + 1]],
           UNCHANGED <<resting, seen, shown, mounted>>
    PROVE  SceneInv'
<1> DEFINE P == [token |-> token + 1, state |-> s, done |-> done]
<1>1. /\ token \in Nat /\ token + 1 \in Nat /\ timers \in SUBSET Nat
      /\ released \in SUBSET Nat /\ call \in [Calls -> Call]
  BY DEF SceneInv, TypeOK
<1>2. /\ P \in Pending /\ P # None /\ P.token = token + 1 /\ P.state = s
      /\ P.done = done
  BY <1>1, NoneAssumption DEF Pending
<1>3. /\ pending' = P /\ token' = token + 1 /\ transient' = s
      /\ released' = released \cup PendingTokens
      /\ timers' = (timers \ PendingTokens) \cup {token + 1}
      /\ blink' = None /\ blinkTimer' = FALSE
  BY DEF StartPending
<1>4. PendingTokens \in SUBSET Nat /\ (pending # None => token \in PendingTokens)
  BY PendingType, <1>1 DEF PendingTokens, SceneInv, NumberInv
<1>5. /\ call' \in [Calls -> Call]
      /\ call'[c].phase = ph /\ call'[c].token = token + 1
      /\ \A d \in Calls \ {c} : call'[d] = call[d]
  BY <1>1 DEF Call
<1>6. \A d \in Calls : call[d].token \in Nat /\ call[d].token <= token
  BY <1>1 DEF SceneInv, NumberInv, Call
<1>7. TypeOK'
  <2>1. timers' \in SUBSET Nat /\ released' \in SUBSET Nat
    BY <1>1, <1>3, <1>4
  <2>2. pending' \in Pending /\ token' \in Nat
    BY <1>1, <1>2, <1>3
  <2> QED BY <2>1, <2>2, <1>3, <1>5 DEF TypeOK, SceneInv
<1>8. NumberInv'
  <2>1. \A d \in Calls : call'[d].token <= token'
    BY <1>1, <1>3, <1>5, <1>6
  <2>2. \A d, e \in Calls :
           /\ call'[d].phase # "new" /\ call'[e].phase # "new"
           /\ call'[d].token = call'[e].token
           => d = e
    BY <1>1, <1>5, <1>6 DEF SceneInv, NumberInv
  <2>3. \A t \in released' : t <= token'
    BY <1>1, <1>3, <1>4, PendingType DEF SceneInv, NumberInv, PendingTokens
  <2> QED BY <2>1, <2>2, <2>3, <1>2, <1>3 DEF NumberInv
<1>9. \A d \in Calls \ {c} :
         call[d].phase \in {"working", "worked"} => call[d].token \in released'
  BY <1>3, <1>4, PendingType DEF SceneInv, WorkInv, NobodyIsForgotten
<1>10. WorkInv'
  <2> SUFFICES ASSUME NEW d \in Calls, call'[d].phase = "working"
               PROVE  /\ call'[d].token \notin released' =>
                          /\ pending' # None
                          /\ pending'.token = call'[d].token
                          /\ pending'.token \in timers'
                      /\ call'[d].token = token' =>
                          /\ pending' # None
                          /\ transient' = pending'.state
                          /\ ~pending'.done
    BY DEF WorkInv
  <2>1. CASE d = c
    BY <2>1, <1>2, <1>3, <1>5
  <2>2. CASE d # c
    <3>1. call'[d] = call[d] /\ call[d].token # token'
      BY <2>2, <1>1, <1>3, <1>5, <1>6
    <3> QED BY <3>1, <2>2, <1>9
  <2> QED BY <2>1, <2>2
<1>11. NobodyIsForgotten'
  BY <1>5, <1>9 DEF NobodyIsForgotten
<1> QED BY <1>7, <1>8, <1>10, <1>11 DEF SceneInv

-----------------------------------------------------------------------------
(* The end of work, and of a clip.                                         *)

LEMMA FinishStep ==
    ASSUME SceneInv, NEW c \in Calls, FinishWork(c)
    PROVE  SceneInv'
<1>1. /\ call \in [Calls -> Call] /\ call[c].phase = "working"
      /\ call' = [call EXCEPT ![c].phase = "worked"]
      /\ UNCHANGED <<resting, transient, blink, seen, shown, token, timers,
                     blinkTimer, released, mounted>>
  BY DEF FinishWork, SceneInv, TypeOK
<1>2. /\ call' \in [Calls -> Call]
      /\ call'[c].phase = "worked" /\ call'[c].token = call[c].token
      /\ \A d \in Calls \ {c} : call'[d] = call[d]
  BY <1>1 DEF Call
<1>3. CASE pending # None /\ pending.token = call[c].token
  <2>1. pending' = [pending EXCEPT !.done = TRUE]
    BY <1>3 DEF FinishWork, MarkDone
  <2>2. /\ pending' \in Pending /\ pending'.token = pending.token
        /\ pending'.state = pending.state /\ pending'.done
    BY <2>1, <1>3, PendingType DEF SceneInv, Pending
  <2>3. pending' # None
    BY <2>2, NoneAssumption
  <2>4. TypeOK'
    BY <1>1, <1>2, <2>2 DEF TypeOK, SceneInv
  <2>5. NumberInv'
    BY <1>1, <1>2, <1>3, <2>2 DEF NumberInv, SceneInv
  <2>6. \A d \in Calls \ {c} : call[d].phase = "working" =>
           call[d].token # call[c].token
    BY <1>1 DEF SceneInv, NumberInv
  <2>7. \A d \in Calls \ {c} : call[d].phase = "working" =>
           call[d].token \in released /\ call[d].token # token
    BY <1>3, <2>6 DEF SceneInv, WorkInv, NumberInv
  <2>8. WorkInv'
    BY <1>1, <1>2, <2>7 DEF WorkInv
  <2>9. NobodyIsForgotten'
    <3> SUFFICES ASSUME NEW d \in Calls, call'[d].phase = "worked",
                        call'[d].token \notin released'
                 PROVE  /\ pending' # None
                        /\ pending'.token = call'[d].token /\ pending'.done
                        /\ pending'.token \in timers'
      BY DEF NobodyIsForgotten
    <3>1. CASE d = c
      BY <3>1, <1>1, <1>2, <1>3, <2>2, <2>3 DEF SceneInv, WorkInv
    <3>2. CASE d # c
      BY <3>2, <1>1, <1>2, <2>2, <2>3 DEF SceneInv, NobodyIsForgotten
    <3> QED BY <3>1, <3>2
  <2> QED BY <2>4, <2>5, <2>8, <2>9 DEF SceneInv
<1>4. CASE ~(pending # None /\ pending.token = call[c].token)
  <2>1. UNCHANGED pending
    BY <1>4 DEF FinishWork, MarkDone
  <2>2. TypeOK'
    BY <1>1, <1>2, <2>1 DEF TypeOK, SceneInv
  <2>3. NumberInv'
    BY <1>1, <1>2, <2>1 DEF NumberInv, SceneInv
  <2>4. WorkInv'
    BY <1>1, <1>2, <2>1 DEF WorkInv, SceneInv
  <2>5. call[c].token \in released
    BY <1>1, <1>4 DEF SceneInv, WorkInv
  <2>6. NobodyIsForgotten'
    BY <1>1, <1>2, <2>1, <2>5 DEF NobodyIsForgotten, SceneInv
  <2> QED BY <2>2, <2>3, <2>4, <2>6 DEF SceneInv
<1> QED BY <1>3, <1>4

LEMMA ReturnStep ==
    ASSUME SceneInv, NEW c \in Calls, Return(c)
    PROVE  SceneInv'
<1>1. /\ call \in [Calls -> Call] /\ call[c].phase = "worked"
      /\ call' = [call EXCEPT ![c].phase = "returned"]
      /\ UNCHANGED <<resting, transient, blink, seen, shown, token, pending,
                     timers, blinkTimer, released, mounted>>
  BY DEF Return, SceneInv, TypeOK
<1>2. /\ call' \in [Calls -> Call]
      /\ call'[c].phase = "returned" /\ call'[c].token = call[c].token
      /\ \A d \in Calls \ {c} : call'[d] = call[d]
  BY <1>1 DEF Call
<1>3. TypeOK'
  BY <1>1, <1>2 DEF TypeOK, SceneInv
<1>4. NumberInv'
  BY <1>1, <1>2 DEF NumberInv, SceneInv
<1>5. WorkInv'
  BY <1>1, <1>2 DEF WorkInv, SceneInv
<1>6. NobodyIsForgotten'
  BY <1>1, <1>2 DEF NobodyIsForgotten, SceneInv
<1> QED BY <1>3, <1>4, <1>5, <1>6 DEF SceneInv

\* A clip is taken off only when its work is done.
LEMMA ClearStep ==
    ASSUME SceneInv, NEW t, Ready(t), ClearPending(t),
           UNCHANGED <<resting, seen, shown, token, call, mounted>>,
           blink' \in {"waiting", None}, blinkTimer' \in BOOLEAN
    PROVE  SceneInv'
<1>1. /\ pending # None /\ pending.token = t /\ pending.done /\ t \in Nat
      /\ t = token
  BY PendingType DEF Ready, SceneInv, NumberInv
<1>2. /\ pending' = None /\ transient' = None /\ timers' = timers \ {t}
      /\ released' = released \cup {t}
  BY <1>1 DEF ClearPending
<1>3. TypeOK'
  BY <1>1, <1>2 DEF TypeOK, SceneInv
<1>4. NumberInv'
  BY <1>1, <1>2 DEF NumberInv, SceneInv, TypeOK
<1>5. \A c \in Calls : call[c].phase = "working" => call[c].token # token
  BY <1>1 DEF SceneInv, WorkInv
<1>6. WorkInv'
  BY <1>1, <1>2, <1>5 DEF WorkInv, SceneInv
<1>7. NobodyIsForgotten'
  BY <1>1, <1>2 DEF NobodyIsForgotten, SceneInv
<1> QED BY <1>3, <1>4, <1>6, <1>7 DEF SceneInv

LEMMA FallbackStep ==
    ASSUME SceneInv, NEW t \in timers, Fallback(t)
    PROVE  SceneInv'
<1>1. CASE Ready(t) /\ ClearPending(t)
  BY <1>1, ClearStep DEF Fallback, SceneInv, TypeOK
<1>2. CASE /\ t \notin PendingTokens /\ timers' = timers \ {t}
           /\ UNCHANGED <<pending, transient, released>>
  <2>1. UNCHANGED <<resting, blink, seen, shown, token, blinkTimer, call,
                    mounted>>
    BY DEF Fallback
  <2>2. pending # None => pending.token # t
    BY <1>2 DEF PendingTokens
  <2>3. TypeOK'
    BY <1>2, <2>1 DEF TypeOK, SceneInv
  <2>4. NumberInv'
    BY <1>2, <2>1 DEF NumberInv, SceneInv
  <2>5. WorkInv'
    BY <1>2, <2>1, <2>2 DEF WorkInv, SceneInv
  <2>6. NobodyIsForgotten'
    BY <1>2, <2>1, <2>2 DEF NobodyIsForgotten, SceneInv
  <2> QED BY <2>3, <2>4, <2>5, <2>6 DEF SceneInv
<1> QED BY <1>1, <1>2 DEF Fallback

LEMMA CycleStep ==
    ASSUME SceneInv, CompleteCycle
    PROVE  SceneInv'
<1>1. UNCHANGED <<resting, seen, shown, token, call, mounted>>
  BY DEF CompleteCycle
<1>2. CASE pending # None /\ pending.state = shown
  BY <1>1, <1>2, ClearStep DEF CompleteCycle, SceneInv, TypeOK
<1>3. CASE ~(pending # None /\ pending.state = shown)
  <2>1. /\ UNCHANGED clipVars /\ blinkTimer' = FALSE
        /\ blink' \in {blink, None}
    BY <1>1, <1>3 DEF CompleteCycle, clipVars
  <2>2. TypeOK'
    BY <1>1, <2>1 DEF clipVars, TypeOK, SceneInv
  <2> QED BY <2>1, <2>2, QuietStep DEF SceneInv
<1> QED BY <1>2, <1>3

\* Leaving the page lets the pending call go.
LEMMA UnmountStep ==
    ASSUME SceneInv, Unmount
    PROVE  SceneInv'
<1>1. /\ released' = released \cup PendingTokens
      /\ timers' = timers \ PendingTokens
      /\ blinkTimer' = FALSE /\ mounted' = FALSE
      /\ UNCHANGED <<resting, transient, blink, seen, shown, token, pending,
                     call>>
  BY DEF Unmount
<1>2. /\ PendingTokens \in SUBSET Nat
      /\ \A t \in PendingTokens : pending # None /\ t = pending.token
      /\ pending # None => PendingTokens = {pending.token}
  BY PendingType DEF PendingTokens, SceneInv
<1>3. TypeOK'
  BY <1>1, <1>2 DEF TypeOK, SceneInv
<1>4. NumberInv'
  BY <1>1, <1>2 DEF NumberInv, SceneInv, TypeOK
<1>5. WorkInv'
  BY <1>1, <1>2 DEF WorkInv, SceneInv
<1>6. NobodyIsForgotten'
  BY <1>1, <1>2 DEF NobodyIsForgotten, SceneInv
<1> QED BY <1>3, <1>4, <1>5, <1>6 DEF SceneInv

-----------------------------------------------------------------------------

LEMMA SceneInitially == Init => SceneInv
<1> SUFFICES ASSUME Init PROVE SceneInv
  OBVIOUS
<1>1. TypeOK
  BY DEF Init, TypeOK, PirateState, Call
<1>2. \A c \in Calls : call[c].phase = "new" /\ call[c].token = 0
  BY DEF Init
<1>3. NumberInv /\ WorkInv /\ NobodyIsForgotten
  BY <1>2 DEF Init, NumberInv, WorkInv, NobodyIsForgotten
<1> QED BY <1>1, <1>3 DEF SceneInv

LEMMA SceneInductive == SceneInv /\ [Next]_vars => SceneInv'
<1> SUFFICES ASSUME SceneInv, [Next]_vars PROVE SceneInv'
  OBVIOUS
<1>1. ASSUME NEW c \in Calls, NEW s \in Clips, Pulse(c, s) PROVE SceneInv'
  BY <1>1, StartStep DEF Pulse
<1>2. ASSUME NEW c \in Calls, NEW s \in Clips, RunWhile(c, s) PROVE SceneInv'
  BY <1>2, StartStep DEF RunWhile
<1>3. CASE Render
  <2>1. UNCHANGED clipVars
    BY <1>3 DEF Render, clipVars
  <2>2. Visible \in PirateState
    BY ClipsAssumption DEF Visible, SceneInv, TypeOK, PirateState
  <2>3. TypeOK'
    BY <1>3, <2>2 DEF Render, SceneInv, TypeOK
  <2> QED BY <2>1, <2>3, QuietStep DEF SceneInv
<1>4. CASE Glance \/ GlanceOver \/ \E s \in {"idle", "thinking"} : SetResting(s)
  <2>1. UNCHANGED clipVars
    BY <1>4 DEF Glance, GlanceOver, SetResting, clipVars
  <2>2. TypeOK'
    BY <1>4 DEF Glance, GlanceOver, SetResting, SceneInv, TypeOK
  <2> QED BY <2>1, <2>2, QuietStep DEF SceneInv
<1>5. CASE UNCHANGED vars
  <2>1. UNCHANGED clipVars /\ TypeOK'
    BY <1>5 DEF vars, clipVars, SceneInv, TypeOK
  <2> QED BY <2>1, QuietStep DEF SceneInv
<1> QED BY <1>1, <1>2, <1>3, <1>4, <1>5, FinishStep, ReturnStep,
           FallbackStep, CycleStep, UnmountStep DEF Next

\* The types, the numbering of the calls, and who owns the pending clip.
THEOREM SceneInvariant == Spec => []SceneInv
BY SceneInitially, SceneInductive, PTL DEF Spec

\* Every variable keeps its type: what is shown is always a clip of the stage.
THEOREM SceneTypes == Spec => []TypeOK
<1>1. SceneInv => TypeOK
  BY DEF SceneInv
<1> QED BY <1>1, SceneInvariant, PTL

\* No call is forgotten: one whose work is done either may return or owns a
\* clip that its timer will take off (PirateContext's runWhile and
\* startPending).  This is what WorkReturns needs of every state.
THEOREM NobodyForgotten == Spec => []NobodyIsForgotten
<1>1. SceneInv => NobodyIsForgotten
  BY DEF SceneInv
<1> QED BY <1>1, SceneInvariant, PTL

\* "Overlapping transients never clear each other early" (PirateContext): the
\* latest call's clip stays on screen while its work goes on.
THEOREM LatestShown == Spec => []LatestIsShown
<1>1. SceneInv => LatestIsShown
  BY DEF SceneInv, WorkInv, NumberInv, LatestIsShown
<1> QED BY <1>1, SceneInvariant, PTL

-----------------------------------------------------------------------------
(* The safety half of SceneSettles.                                        *)

\* While the stage is there, an override is that of the pending clip, which has
\* a timer to take it off and is done or somebody works on it.
OverrideIsTemporary ==
    mounted /\ transient # None =>
        /\ pending # None /\ transient = pending.state
        /\ pending.token \in timers
        /\ pending.done \/ \E c \in Calls : /\ call[c].phase = "working"
                                            /\ call[c].token = pending.token

LEMMA OverrideStep ==
    ASSUME SceneInv, OverrideIsTemporary, Next
    PROVE  OverrideIsTemporary'
<1> USE DEF SceneInv, TypeOK
<1>1. pending # None => pending \in Pending
  OBVIOUS
<1>2. ASSUME NEW c \in Calls, NEW s \in Clips, Pulse(c, s) \/ RunWhile(c, s)
      PROVE  OverrideIsTemporary'
  <2>1. /\ pending' # None /\ pending'.state = transient'
        /\ pending'.token = token + 1 /\ token + 1 \in timers'
    <3>1. PICK done \in BOOLEAN : StartPending(s, done)
      BY <1>2 DEF Pulse, RunWhile
    <3>2. pending' \in Pending
      BY <3>1, ClipsAssumption DEF StartPending, Pending
    <3> QED BY <3>1, <3>2, NoneAssumption DEF StartPending
  <2>2. Pulse(c, s) => pending'.done
    BY DEF Pulse, StartPending
  <2>3. RunWhile(c, s) => /\ call'[c].phase = "working"
                          /\ call'[c].token = token + 1
    BY DEF RunWhile
  <2> QED BY <1>2, <2>1, <2>2, <2>3 DEF OverrideIsTemporary
<1>3. ASSUME NEW c \in Calls, FinishWork(c) PROVE OverrideIsTemporary'
  <2>1. /\ call[c].phase = "working"
        /\ \A d \in Calls : d # c => call'[d] = call[d]
        /\ UNCHANGED <<transient, timers, mounted>>
    BY <1>3 DEF FinishWork
  <2>2. CASE pending # None /\ pending.token = call[c].token
    <3>1. pending' = [pending EXCEPT !.done = TRUE]
      BY <1>3, <2>2 DEF FinishWork, MarkDone
    <3>2. /\ pending' # None /\ pending'.done
          /\ pending'.state = pending.state /\ pending'.token = pending.token
      BY <1>1, <2>2, <3>1, NoneAssumption DEF Pending
    <3> QED BY <2>1, <2>2, <3>2 DEF OverrideIsTemporary
  <2>3. CASE ~(pending # None /\ pending.token = call[c].token)
    <3>1. pending' = pending
      BY <1>3, <2>3 DEF FinishWork, MarkDone
    <3> QED BY <2>1, <2>3, <3>1 DEF OverrideIsTemporary
  <2> QED BY <2>2, <2>3
<1>4. ASSUME NEW c \in Calls, Return(c) PROVE OverrideIsTemporary'
  <2>1. /\ call[c].phase = "worked"
        /\ \A d \in Calls : d # c => call'[d] = call[d]
        /\ UNCHANGED <<transient, pending, timers, mounted>>
    BY <1>4 DEF Return
  <2> QED BY <2>1 DEF OverrideIsTemporary
<1>5. ASSUME NEW t \in timers, Fallback(t) PROVE OverrideIsTemporary'
  <2>1. CASE Ready(t) /\ ClearPending(t)
    BY <2>1 DEF Ready, ClearPending, NumberInv, OverrideIsTemporary
  <2>2. CASE /\ t \notin PendingTokens /\ timers' = timers \ {t}
             /\ UNCHANGED <<pending, transient, released>>
    BY <1>5, <2>2 DEF Fallback, PendingTokens, OverrideIsTemporary
  <2> QED BY <1>5, <2>1, <2>2 DEF Fallback
<1>6. CASE CompleteCycle
  <2>1. CASE pending # None /\ ClearPending(pending.token)
    BY <2>1 DEF ClearPending, NumberInv, OverrideIsTemporary
  <2>2. CASE UNCHANGED <<transient, pending, timers, call, mounted>>
    BY <2>2 DEF OverrideIsTemporary
  <2> QED BY <1>6, <2>1, <2>2 DEF CompleteCycle
<1>7. CASE Render \/ Glance \/ GlanceOver
           \/ \E s \in {"idle", "thinking"} : SetResting(s)
  <2>1. UNCHANGED <<transient, pending, timers, call, mounted>>
    BY <1>7 DEF Render, Glance, GlanceOver, SetResting
  <2> QED BY <2>1 DEF OverrideIsTemporary
<1>8. CASE Unmount
  BY <1>8 DEF Unmount, OverrideIsTemporary
<1> QED BY <1>2, <1>3, <1>4, <1>5, <1>6, <1>7, <1>8 DEF Next

\* "Nothing has to be restored by the caller" (PirateContext): an override that
\* nobody works on any more has a clip that is done and a timer that ends it.
THEOREM OverrideEnds == Spec => []OverrideIsTemporary
<1>1. Init => OverrideIsTemporary
  BY DEF Init, OverrideIsTemporary
<1>2. SceneInv /\ OverrideIsTemporary /\ [Next]_vars => OverrideIsTemporary'
  <2>1. UNCHANGED vars /\ OverrideIsTemporary => OverrideIsTemporary'
    BY DEF vars, OverrideIsTemporary
  <2> QED BY <2>1, OverrideStep
<1> QED BY <1>1, <1>2, SceneInvariant, PTL DEF Spec
=============================================================================
