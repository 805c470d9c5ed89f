----------------------------- MODULE SwitchPage -----------------------------
(***************************************************************************)
(* A browser tab on a live switch -- the chat's live panel (Chat.tsx) or    *)
(* the page of the switch (SwitchScene.tsx) -- with its check-in and cancel *)
(* cards, the fetches that keep its view up to date, and the requests it    *)
(* posts, against the store of the web process and the saves of the watcher *)
(* process, which has a chain of its own on the same file.                  *)
(***************************************************************************)
EXTENDS SwitchStore, WorldGate, Naturals

CONSTANTS
    N,          \* rungs of the ladder: terms.n
    Checkins,   \* the check-ins the tab may post
    Cancels,    \* the cancels, posted by the tab or made by the watcher
    MaxFaults   \* bound: failures, lost answers, crashes and reloads

\* A released switch is to the tab what a cancelled one is.
Record == [status : {"ACTIVE", "CANCELLED"}, seq : 0..N-1]

\* What the executor of c may make of a record: it rejects, or an active switch
\* is advanced by a rung or stood down.
MayMake(c, r, s) ==
    \/ s = r
    \/ /\ r # NoRecord /\ s # NoRecord /\ r.status = "ACTIVE"
       /\ s = IF c \in Checkins THEN [r EXCEPT !.seq = @ + 1]
                                ELSE [r EXCEPT !.status = "CANCELLED"]

PageSteps ==
    [c \in Calls |->
        {p \in Contents \X Contents : MayMake(c, p[1], p[2])}]

ASSUME BoundsAssumption == N \in Nat \ {0} /\ MaxFaults \in Nat
ASSUME RecordsAssumption == Records = Record
ASSUME CallsAssumption ==
    Calls = Checkins \cup Cancels /\ Checkins \cap Cancels = {}
ASSUME ExecutorsAssumption == Steps = PageSteps

VARIABLES
    mode,       \* "chat", or "scene" for the page of the switch
    view,       \* the polled SwitchView
    initial,    \* initialView: what the page of the switch was loaded with
    panel,      \* livePanel: the card the chat shows
    card,       \* the status of the check-in card; an error counts as idle
    gate,       \* the World gate of that card
    alive,      \* which of the components a check-in started in still live
    busy,       \* the cancel card awaits its request
    slow,       \* the answer of a fetch on its way to the tab, if any
    asked,      \* a refresh or a restoring fetch has not been read yet
    stage,      \* how far a request is for the tab
    sent,       \* the seq a check-in carries
    result,     \* the record a request was accepted with
    copy,       \* what an executor of the watcher has loaded, if one is at work
    other,      \* history: the watcher has saved, one has saved over the other
    faults

diskVars == <<storeVars, copy, other>>
tabVars == <<mode, view, initial, panel, card, gate, alive, busy, slow,
             asked, stage, sent>>
vars == <<diskVars, tabVars, result, faults>>

TabTypes ==
    /\ mode \in {"chat", "scene"}
    /\ view \in Contents /\ initial \in Contents
    /\ panel \in {"none", "checkin", "cancel"}
    /\ card \in {"idle", "submitting", "success"}
    /\ gate \in Gate
    /\ alive \in [Calls -> {"no", "card", "gate"}]
    /\ busy \in BOOLEAN
    /\ slow \in SUBSET Contents
    /\ asked \in BOOLEAN
    /\ stage \in [Calls -> {"none", "verifying", "posted", "told", "over"}]
    /\ sent \in [Calls -> 0..N-1]

TypeOK ==
    /\ StoreTypes
    /\ TabTypes
    /\ result \in [Calls -> Contents]
    /\ copy \in SUBSET Record
    /\ other \in {"none", "saved", "clash"}
    /\ faults \in 0..MaxFaults

Armed == [status |-> "ACTIVE", seq |-> 0]

Init ==
    /\ StoreInit /\ file \in {Armed, NoRecord}
    /\ mode \in {"chat", "scene"}
    /\ view = NoRecord
    /\ initial = IF mode = "scene" THEN file ELSE NoRecord
    /\ panel = "none" /\ card = "idle" /\ gate = FreshGate
    /\ alive = [c \in Calls |-> "no"]
    /\ busy = FALSE
    /\ slow = {} /\ asked = (mode = "chat")
    /\ stage = [c \in Calls |-> "none"]
    /\ sent = [c \in Calls |-> 0]
    /\ result = [c \in Calls |-> NoRecord]
    /\ copy = {} /\ other = "none"
    /\ faults = 0

Fault == faults < MaxFaults /\ faults' = faults + 1

-----------------------------------------------------------------------------
(* What the tab shows.                                                      *)

Active(r) == r # NoRecord /\ r.status = "ACTIVE"

\* buildCheckinRequest has no rung to advance to.
Exhausted(r) == ~Active(r) \/ r.seq + 1 >= N

\* The seq is taken for one that counts from 1.
Offered_FromOne(r) == r.seq - 1

\* The seq a check-in carries: that of the view it is built from.
Offered(r) == r.seq

\* The view the cards act on: the page of a switch keeps the one it loaded.
Acted(v) == IF mode = "chat" THEN v ELSE initial

CardShown(v, p) == Active(Acted(v)) /\ (mode = "scene" \/ p = "checkin")
CancelShown(v, p) == Active(Acted(v)) /\ (mode = "scene" \/ p = "cancel")
GateShown(v, p, s) == CardShown(v, p) /\ ~Exhausted(Acted(v)) /\ s = "idle"

\* React renders a changed view, panel or status: what is not shown any more
\* is unmounted with its state.
Render(v, p, s, g, b) ==
    /\ view' = v
    /\ panel' = p
    /\ card' = IF CardShown(v, p) THEN s ELSE "idle"
    /\ gate' = IF GateShown(v, p, s) THEN g ELSE FreshGate
    /\ busy' = (b /\ CancelShown(v, p))
    /\ alive' = [c \in Calls |->
          IF c \in Cancels THEN IF CancelShown(v, p) THEN alive[c] ELSE "no"
          ELSE IF ~CardShown(v, p) THEN "no"
          ELSE IF alive[c] = "gate" /\ ~GateShown(v, p, s) THEN "card"
          ELSE alive[c]]
    /\ UNCHANGED <<mode, initial>>

\* The tab is loaded anew: nothing of it is left but what it has posted.
Loads(m) ==
    /\ mode' = m
    /\ view' = NoRecord
    /\ initial' = IF m = "scene" /\ file # Torn THEN file ELSE NoRecord
    /\ panel' = "none" /\ card' = "idle" /\ gate' = FreshGate
    /\ alive' = [c \in Calls |-> "no"]
    /\ busy' = FALSE
    /\ slow' = {} /\ asked' = (m = "chat")

Unheard(s) == [c \in Calls |-> IF s[c] \in {"verifying", "posted"}
                              THEN "over" ELSE s[c]]

Reload(m) ==
    /\ Fault
    /\ Loads(m)
    /\ stage' = Unheard(stage)
    /\ UNCHANGED <<diskVars, sent, result>>

-----------------------------------------------------------------------------
(* The view: the poll, and the fetch that restores or refreshes it.         *)

\* An answer of 404 leaves the chat's view as it is.
Applied(r) == IF r = NoRecord /\ mode = "chat" THEN view ELSE r

\* Polling stops once there is something to show.
PollDue_Once == view = NoRecord

\* setInterval: a poll is always due.
PollDue == TRUE

\* A poll that is answered before anything else happens.
Poll ==
    /\ PollDue
    /\ file # Torn
    /\ Render(Applied(file), panel, card, gate, busy)
    /\ UNCHANGED <<diskVars, slow, asked, stage, sent, result, faults>>

\* A refresh, a restoring fetch, or a poll while a call is under way, whose
\* answer is slow: the polls go on meanwhile.  One such fetch at a time is the
\* bound on their overlaps.
Reads ==
    /\ slow = {}
    /\ asked \/ PollDue
    /\ file # Torn
    /\ slow' = {file}
    /\ asked' = FALSE
    /\ UNCHANGED <<diskVars, mode, view, initial, panel, card, gate, alive,
                   busy, stage, sent, result, faults>>

Arrives ==
    /\ \E r \in slow : Render(Applied(r), panel, card, gate, busy)
    /\ slow' = {}
    /\ UNCHANGED <<diskVars, asked, stage, sent, result, faults>>

FetchFails ==
    /\ slow # {}
    /\ slow' = {}
    /\ UNCHANGED <<diskVars, mode, view, initial, panel, card, gate, alive,
                   busy, asked, stage, sent, result, faults>>

-----------------------------------------------------------------------------
(* The cards.                                                               *)

\* The action bar of an active switch.
Toggle(p) ==
    /\ mode = "chat" /\ Active(view)
    /\ Render(view, IF panel = p THEN "none" ELSE p, card, gate, busy)
    /\ UNCHANGED <<diskVars, slow, asked, stage, sent, result, faults>>

GateEvent(g) ==
    /\ GateShown(view, panel, card)
    /\ gate' = g
    /\ UNCHANGED <<diskVars, mode, view, initial, panel, card, busy, slow, asked, result>>

Press == ~gate.busy /\ GateEvent(Pressed(gate))
         /\ UNCHANGED <<alive, stage, sent, faults>>

ContextArrives == gate.fetching /\ GateEvent(Opened(gate))
                  /\ UNCHANGED <<alive, stage, sent, faults>>

ContextFails == gate.fetching /\ GateEvent(Refused(gate))
                /\ UNCHANGED <<alive, stage, sent, faults>>

Dismiss == gate.open /\ GateEvent(Closed(gate))
           /\ UNCHANGED <<alive, stage, sent, faults>>

\* The user proves to be human in the dialog, with the view then shown.
Prove(c) ==
    /\ gate.open /\ ~gate.handled
    /\ GateEvent(Proved(gate))
    /\ IF Latched(gate) THEN UNCHANGED <<alive, stage, sent>>
       ELSE /\ stage[c] = "none"
            /\ c = CHOOSE d \in Checkins : stage[d] = "none"
            /\ stage' = [stage EXCEPT ![c] = "verifying"]
            /\ alive' = [alive EXCEPT ![c] = "gate"]
            /\ sent' = [sent EXCEPT ![c] = Offered(Acted(view))]
    /\ UNCHANGED faults

\* The proof is good: handleVerified posts the check-in.
Verified(c) ==
    /\ stage[c] = "verifying"
    /\ WithLock(c)
    /\ stage' = [stage EXCEPT ![c] = "posted"]
    /\ Render(view, panel, IF alive[c] = "no" THEN card ELSE "submitting",
              gate, busy)
    /\ UNCHANGED <<copy, other, slow, asked, sent, result, faults>>

\* It is not, or the verify route cannot be reached.
NotVerified(c) ==
    /\ stage[c] = "verifying"
    /\ Fault
    /\ stage' = [stage EXCEPT ![c] = "over"]
    /\ gate' = IF alive[c] = "gate" THEN Failed(gate) ELSE gate
    /\ UNCHANGED <<diskVars, mode, view, initial, panel, card, alive, busy,
                   slow, asked, sent, result>>

PostCancel(k) ==
    /\ stage[k] = "none"
    /\ CancelShown(view, panel) /\ ~busy
    /\ WithLock(k)
    /\ stage' = [stage EXCEPT ![k] = "posted"]
    /\ busy' = TRUE
    /\ alive' = [alive EXCEPT ![k] = "card"]
    /\ UNCHANGED <<copy, other, mode, view, initial, panel, card, gate, slow,
                   asked, sent, result, faults>>

-----------------------------------------------------------------------------
(* The watcher.                                                             *)

\* A save replaces another record than the one its executor had loaded: of a
\* call of this process, since the watcher has saved, or of the watcher.
Overwrites ==
    \/ /\ other # "none"
       /\ \E c \in Calls : /\ call[c] \in {"running", "flushed"}
                          /\ call'[c] = "saved"
                          /\ seen[c] # file
    \/ copy # {} /\ copy' = {} /\ file \notin copy

\* An executor of the watcher loads an active switch, whatever call of this
\* process is in its critical section: nothing locks the file itself.
WatcherLoads(k) ==
    /\ stage[k] = "none" /\ copy = {}
    /\ Active(file)
    /\ copy' = {file}
    /\ stage' = [stage EXCEPT ![k] = "over"]
    /\ UNCHANGED <<storeVars, other, mode, view, initial, panel, card, gate,
                   alive, busy, slow, asked, sent, result, faults>>

\* It saves the switch as stood down, or as it had loaded it.
WatcherSaves(k) ==
    /\ stage[k] = "over" /\ call[k] = "new"
    /\ \E r \in copy : file' \in {r, [r EXCEPT !.status = "CANCELLED"]}
    /\ copy' = {}
    /\ call' = [call EXCEPT ![k] = "saved"]
    /\ other' = IF Overwrites \/ other = "clash" THEN "clash" ELSE "saved"
    /\ UNCHANGED <<temp, chain, seen, next, tabVars, result, faults>>

-----------------------------------------------------------------------------
(* The server.                                                              *)

\* A check-in is taken whatever view it was proved on.
Fresh_AnySeq(c) == seen[c].seq + 1 < N

\* A check-in advances the rung its user was shown, if there is a next one.
Fresh(c) == seen[c].seq = sent[c] /\ seen[c].seq + 1 < N

\* What the executor of c makes of the record it is given, when it accepts.
Made(c) == IF c \in Checkins THEN [seen[c] EXCEPT !.seq = @ + 1]
           ELSE [seen[c] EXCEPT !.status = "CANCELLED"]

Accepts(c) == Active(seen[c]) /\ (c \in Checkins => Fresh(c))

\* The executor of c returns what it accepts.
Accept(c) ==
    /\ Accepts(c)
    /\ Return(c, Made(c))
    /\ result' = [result EXCEPT ![c] = Made(c)]
    /\ UNCHANGED <<tabVars, faults>>

\* What it rejects it returns as it was, for the record or for another reason:
\* the period, the proof, the mirror.
Reject(c) ==
    /\ Return(c, seen[c])
    /\ IF Accepts(c) THEN Fault ELSE UNCHANGED faults
    /\ UNCHANGED <<tabVars, result>>

StoreStep(c) ==
    /\ Load(c) \/ Flush(c) \/ Rename(c)
    /\ UNCHANGED <<tabVars, result, faults>>

StoreFails(c) ==
    /\ Throws(c) \/ SaveFails(c)
    /\ Fault
    /\ result' = [result EXCEPT ![c] = NoRecord]
    /\ UNCHANGED <<copy, other, tabVars>>

ServerStep(c) ==
    /\ Accept(c) \/ Reject(c) \/ StoreStep(c)
    /\ UNCHANGED copy
    /\ other' = IF Overwrites THEN "clash" ELSE other

\* The web process stops: what it has not answered it never answers.
ServerCrash ==
    /\ Crash
    /\ Fault
    /\ result' = [c \in Calls |->
          IF stage[c] = "posted" THEN NoRecord ELSE result[c]]
    /\ slow' = {} /\ asked' = FALSE
    /\ UNCHANGED <<copy, other, mode, view, initial, panel, card, gate, alive,
                   busy, stage, sent>>

-----------------------------------------------------------------------------
(* The answers.                                                             *)

Answered_Early(c) == call[c] \in {"opened", "flushed", "saved", "failed"}

\* withLock has returned.
Answered(c) == call[c] \in {"saved", "failed"}

\* The check-in is told to the user: the chat closes the panel, whichever it
\* shows, and fetches the view; the page shows it until it is loaded again.
CheckedIn(c) ==
    /\ Render(view, IF mode = "chat" THEN "none" ELSE panel,
              IF alive[c] = "no" THEN card ELSE "success", gate, busy)
    /\ asked' = (asked \/ mode = "chat")
    /\ UNCHANGED <<slow>>

\* So does a cancel, after which the page is loaded again.
Cancelled == IF mode = "scene" THEN Loads("scene")
             ELSE /\ Render(view, "none", card, gate, FALSE)
                  /\ asked' = TRUE
                  /\ UNCHANGED <<slow>>

\* The refresh that another request asked for is under way by then.
Succeeds(c) ==
    /\ stage[c] = "posted" /\ Answered(c) /\ result[c] # NoRecord
    /\ ~asked
    /\ stage' = IF c \in Cancels /\ mode = "scene"
                THEN [Unheard(stage) EXCEPT ![c] = "told"]
                ELSE [stage EXCEPT ![c] = "told"]
    /\ IF c \in Cancels THEN Cancelled ELSE CheckedIn(c)
    /\ UNCHANGED <<diskVars, sent, result, faults>>

\* The error is shown in the card it belongs to, if that is still there.
Errs(c) ==
    /\ stage' = [stage EXCEPT ![c] = "over"]
    /\ Render(view, panel,
              IF c \in Checkins /\ alive[c] # "no" THEN "idle" ELSE card, gate,
              busy /\ ~(c \in Cancels /\ alive[c] # "no"))
    /\ UNCHANGED <<diskVars, slow, asked, sent, result>>

Fails(c) ==
    /\ stage[c] = "posted" /\ Answered(c) /\ result[c] = NoRecord
    /\ Errs(c)
    /\ UNCHANGED faults

\* The answer is lost on its way, before or after the server has made it.
AnswerLost(c) == stage[c] = "posted" /\ Fault /\ Errs(c)

\* "Refresh status": the page is loaded again.
Acknowledge ==
    /\ mode = "scene" /\ card = "success"
    /\ Loads("scene")
    /\ stage' = Unheard(stage)
    /\ UNCHANGED <<diskVars, sent, result, faults>>

-----------------------------------------------------------------------------
Fetch == Poll \/ Reads \/ Arrives

User ==
    \/ \E p \in {"checkin", "cancel"} : Toggle(p)
    \/ Press \/ Dismiss \/ Acknowledge
    \/ \E c \in Checkins : Prove(c)
    \/ \E k \in Cancels : PostCancel(k)
    \/ \E m \in {"chat", "scene"} : Reload(m)

Reply(c) == Verified(c) \/ NotVerified(c) \/ Succeeds(c) \/ Fails(c)

Next ==
    \/ User
    \/ Fetch \/ FetchFails
    \/ ContextArrives \/ ContextFails
    \/ \E c \in Calls : \/ ServerStep(c) \/ StoreFails(c)
                       \/ Reply(c) \/ AnswerLost(c)
    \/ \E k \in Cancels : WatcherLoads(k) \/ WatcherSaves(k)
    \/ ServerCrash

Fairness ==
    /\ WF_vars(Poll)
    /\ WF_vars(Arrives \/ (asked /\ Reads))
    /\ \A c \in Calls : WF_vars(ServerStep(c) \/ Reply(c))

Spec == Init /\ [][Next]_vars /\ Fairness

-----------------------------------------------------------------------------
(* Properties.                                                              *)

\* What the tab has told its user stays true of the file, whatever crashes
\* after it: the answer of a route comes after the rename (store.ts:64-85).  So
\* it does as long as neither process saves over what the other has saved after
\* it had loaded: the chains of promises are no lock between the two.
ToldIsDurable ==
    other # "clash" =>
        \A c \in Calls : stage[c] = "told" =>
            /\ file \in Records
            /\ c \in Checkins => file.seq >= result[c].seq
            /\ c \in Cancels => file.status = "CANCELLED"

\* The calls of both processes take effect one at a time, each on what the one
\* before left, all of it or nothing, but for such an overwrite: neither a crash,
\* a failed save nor a rejected promise loses or mixes updates (withLock, store.ts:
\* 108-130, and its "read-modify-write" comment, line 10).
OneAtATime ==
    Atomic!Init /\ [][Atomic!Next \/ Overwrites]_<<file, Outcome>>

\* The postponement a user is told of is the one the card offered when they
\* proved themselves, though the switch may have moved on since then, and the
\* view they saw may have been old (CheckinCard.tsx:103-162).
ShownIsDone ==
    \A c \in Checkins : stage[c] = "told" => result[c].seq = sent[c] + 1

\* Of the proofs given at one gate one at a time is verified, and none after
\* one has been posted (verifyingRef, WorldVerifyCard.tsx:221-224, 250-254).
OneProofAtATime ==
    \A c, d \in Checkins :
        (c # d /\ stage[c] = "verifying" /\ stage[d] = "verifying")
            => ~(alive[c] = "gate" /\ alive[d] = "gate")

\* In the end the tab shows what the store holds, in whatever order the polls,
\* the restoring fetch and the refresh after a request are answered (Chat.tsx:
\* 306-314, 454-477, 487-500), and no card stays at "hold fast": every call of
\* the chain is answered, whatever became of those before it (store.ts:121).
TabSettles ==
    <>[](file # Torn => view = file /\ card # "submitting" /\ ~busy)
=============================================================================
