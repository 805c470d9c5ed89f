------------------------------ MODULE ArmingChat ------------------------------
(***************************************************************************)
(* The chat in one browser tab (components/Chat.tsx and its cards), from   *)
(* the memo to an armed switch, and the two servers that answer it.        *)
(*                                                                         *)
(* Sealing a memo, proving to be human, signing on the device and arming   *)
(* are asynchronous: each attempt is a job that ends some time after it    *)
(* was started, whatever the chat shows by then.  A card allows one job at *)
(* a time, but a card is forgotten when the chat is collapsed or moves on, *)
(* and the job goes on without it.                                         *)
(***************************************************************************)
EXTENDS Integers

CONSTANTS
    Seals,      \* attempts to seal a memo, also the memos they seal
    Terms,      \* the terms a user may choose
    Proofs,     \* attempts to prove to be human
    Person,     \* the nullifier of the tab's user
    Signings,   \* attempts to sign, also the transfers they sign
    Arms,       \* attempts to arm, also the topics they create
    None,       \* an absent value
    MaxFaults   \* bound on failed or lost calls and reloads

CardJobs == Seals \cup Proofs \cup Signings
Jobs     == CardJobs \cup Arms

ASSUME NamesAssumption ==
    /\ Seals \cap Proofs = {} /\ Seals \cap Signings = {}
    /\ Proofs \cap Signings = {} /\ CardJobs \cap Arms = {}
    /\ None \notin Jobs \cup Terms \cup {Person}
ASSUME BoundAssumption == MaxFaults \in Nat

VARIABLES
    ctx,        \* context and ctxRef
    memo,       \* the sealed memo with its key, in React memory
    terms,      \* the chosen terms
    world,      \* the verified nullifier
    signed,     \* the signed arm transfer
    url,        \* the topic in the address bar
    pc,         \* where each job stands
    held,       \* the jobs whose card is still on screen
    taken,      \* what each job read when it was started
    transfer,   \* the arm transfers on chain: the policy in the memo field
    asked,      \* the arm requests the server is to answer
    switches,   \* the switches it armed, by the request
    failed,     \* attempts the chat told the user to have failed
    faults

tabVars  == <<memo, terms, world, signed>>
jobVars  == <<pc, taken>>
vars == <<ctx, memo, terms, world, signed, url, pc, held, taken, transfer,
          asked, switches, failed, faults>>

Machine == INSTANCE ChatMachine WITH
    Memos <- Seals, Nullifiers <- {Person}, ArmTxs <- Signings,
    Topics <- Arms

Optional(S) == S \cup {None}

\* The nonce is fixed for a tab, in which a memo is sealed once: left out.
Policy(m, t, w) == [memo |-> m, terms |-> t, nullifier |-> w]
Policies == [memo : Optional(Seals), terms : Optional(Terms),
             nullifier : Optional({Person})]

\* The policy the cards are given: an empty hash while an artifact is missing.
CurrentPolicy ==
    IF None \in {memo, terms, world} THEN Policy(None, None, None)
    ELSE Policy(memo, terms, world)

\* ArmInput and ArmArtifacts: storage and ladder name the memo they are of.
Request == [policy : Policies, stored : Optional(Seals),
            ladder : Optional(Seals), rungs : Optional(Terms),
            armTx : Optional(Signings)]

NoRequest == [policy |-> Policy(None, None, None), stored |-> None,
              ladder |-> None, rungs |-> None, armTx |-> None]

PCs == {"idle", "running", "user", "submit", "upload", "mint", "sent", "done"}

TypeOK ==
    /\ ctx \in Machine!Context
    /\ memo \in Optional(Seals)
    /\ terms \in Optional(Terms)
    /\ world \in Optional({Person})
    /\ signed \in Optional(Signings)
    /\ url \in Optional(Arms)
    /\ pc \in [Jobs -> PCs]
    /\ held \in SUBSET CardJobs
    /\ taken \in [Jobs -> Request]
    /\ transfer \in [Signings -> Policies]
    /\ asked \in SUBSET Arms
    /\ switches \in [Arms -> Request]
    /\ failed \in SUBSET Arms
    /\ faults \in Nat

Init ==
    /\ ctx = Machine!WasReset
    /\ memo = None /\ terms = None /\ world = None /\ signed = None
    /\ url = None
    /\ pc = [j \in Jobs |-> "idle"]
    /\ held = {}
    /\ taken = [j \in Jobs |-> NoRequest]
    /\ transfer = [g \in Signings |-> Policy(None, None, None)]
    /\ asked = {}
    /\ switches = [a \in Arms |-> NoRequest]
    /\ failed = {}
    /\ faults = 0

-----------------------------------------------------------------------------
(* Cards and jobs.                                                         *)

Healthy == UNCHANGED faults
Fault == faults < MaxFaults /\ faults' = faults + 1

\* The step whose card is shown; another step takes the card off the screen.
Step(c) == IF c.state = "IDLE" THEN "MEMO" ELSE c.state

\* dispatch: the context moves on, with what is left of the cards' jobs.
Dispatch(c, left) ==
    /\ ctx' = c
    /\ held' = IF Step(c) = Step(ctx) THEN left ELSE {}

\* The button of the card is not disabled.
CardIsFree(kind) == held \cap kind = {}

Begin(j, next) ==
    /\ pc[j] = "idle"
    /\ pc' = [pc EXCEPT ![j] = next]
    /\ held' = held \cup {j}

End(j) == pc' = [pc EXCEPT ![j] = "done"]

\* A job ends with an error shown by its card, which may be used again.
CardError(j) ==
    /\ End(j)
    /\ held' = held \ {j}
    /\ UNCHANGED <<ctx, tabVars, url, taken, transfer, asked, switches, failed>>

\* Collapsing the chat forgets the card, expanding it shows a new one.
Remount ==
    /\ held # {}
    /\ held' = {}
    /\ UNCHANGED <<ctx, tabVars, url, jobVars, transfer, asked, switches,
                   failed, faults>>

-----------------------------------------------------------------------------
(* MemoCard: encrypt the memo in the browser.                              *)

StartSeal(s) ==
    /\ Step(ctx) = "MEMO"
    /\ CardIsFree(Seals)
    /\ Begin(s, "running")
    /\ UNCHANGED <<ctx, tabVars, url, taken, transfer, asked, switches,
                   failed, faults>>

\* An empty or too large memo is refused; a sealed one is captured.
EndSeal(s) ==
    /\ pc[s] = "running"
    /\ \/ /\ End(s)
          /\ memo' = s
          /\ Dispatch(Machine!MemoCaptured(ctx, s), held \ {s})
          /\ UNCHANGED <<terms, world, signed, url, taken, transfer, asked,
                         switches, failed>>
       \/ CardError(s)
    /\ Healthy

\* TermsChips: the user confirms the terms, nothing is awaited.
ChooseTerms(t) ==
    /\ Step(ctx) = "TERMS"
    /\ terms' = t
    /\ Dispatch(Machine!TermsSet(ctx, t), held)
    /\ UNCHANGED <<memo, world, signed, url, jobVars, transfer, asked,
                   switches, failed, faults>>

-----------------------------------------------------------------------------
(* WorldVerifyCard: an IDKit request, then the server verifies its result. *)

StartProof(p) ==
    /\ Step(ctx) = "WORLD"
    /\ CardIsFree(Proofs)
    /\ Begin(p, "user")
    /\ UNCHANGED <<ctx, tabVars, url, taken, transfer, asked, switches,
                   failed, faults>>

\* The user approves on the phone or on the Ledger, or does not.  The dialog
\* and the session with the device are gone with the card.
Approve(j) ==
    /\ pc[j] = "user"
    /\ \/ /\ j \in held
          /\ pc' = [pc EXCEPT ![j] = "submit"]
          /\ UNCHANGED <<ctx, tabVars, url, held, taken, transfer, asked,
                         switches, failed>>
       \/ CardError(j)
    /\ Healthy

\* The server verifies the result.  After a success the card stays latched.
EndProof(p) ==
    /\ pc[p] = "submit"
    /\ \/ /\ End(p)
          /\ world' = Person
          /\ Dispatch(Machine!WorldVerified(ctx, Person), held)
          /\ UNCHANGED <<memo, terms, signed, url, taken, transfer, asked,
                         switches, failed>>
       \/ CardError(p)
    /\ Healthy

-----------------------------------------------------------------------------
(* LedgerSignCard: the device signs a transfer whose memo field holds the  *)
(* hash of the policy shown when the button was pressed.                   *)

StartSigning(g) ==
    /\ Step(ctx) = "SIGN"
    /\ CardIsFree(Signings)
    /\ Begin(g, "user")
    /\ taken' = [taken EXCEPT ![g].policy = CurrentPolicy]
    /\ UNCHANGED <<ctx, tabVars, url, transfer, asked, switches, failed,
                   faults>>

\* The transfer is submitted, and its id handed to the chat.
EndSigning(g) ==
    /\ pc[g] = "submit"
    /\ \/ /\ transfer' = [transfer EXCEPT ![g] = taken[g].policy]
          /\ \/ /\ End(g)
                /\ signed' = g
                /\ Dispatch(Machine!Signed(ctx, g), held)
                /\ Healthy
                /\ UNCHANGED <<memo, terms, world>>
             \/ /\ End(g)
                /\ held' = held \ {g}
                /\ Fault
                /\ UNCHANGED <<ctx, tabVars>>
          /\ UNCHANGED <<url, taken, asked, switches, failed>>
       \/ CardError(g) /\ Healthy

-----------------------------------------------------------------------------
(* arm(): upload the ciphertext, mint the ladder, post the request.        *)

Arming == \E a \in Arms : pc[a] \in {"upload", "mint", "sent"}

\* The click reads the artifacts of the last render, the awaits do not.
ClickArm(a) ==
    /\ Step(ctx) = "SIGN"
    /\ None \notin {memo, terms, world, signed}
    /\ ~Arming
    /\ pc[a] = "idle"
    /\ pc' = [pc EXCEPT ![a] = "upload"]
    /\ taken' = [taken EXCEPT ![a] =
          [policy |-> CurrentPolicy, stored |-> memo, ladder |-> memo,
           rungs |-> terms, armTx |-> signed]]
    /\ UNCHANGED <<ctx, tabVars, url, held, transfer, asked, switches, failed,
                   faults>>

\* The user is told "Nothin' lost -- try again".
ArmFails(a) ==
    /\ End(a)
    /\ failed' = failed \cup {a}
    /\ Fault
    /\ UNCHANGED <<ctx, tabVars, url, held, taken, transfer, switches>>

Upload(a) ==
    /\ pc[a] = "upload"
    /\ \/ /\ pc' = [pc EXCEPT ![a] = "mint"]
          /\ Healthy
          /\ UNCHANGED <<ctx, tabVars, url, held, taken, transfer, switches,
                         failed>>
       \/ ArmFails(a)
    /\ UNCHANGED asked

\* The request that is built after the upload.
Built_Latest(a) == [taken[a] EXCEPT !.ladder = memo, !.rungs = terms]
Built(a) == taken[a]

MintAndPost(a) ==
    /\ pc[a] = "mint"
    /\ \/ /\ pc' = [pc EXCEPT ![a] = "sent"]
          /\ taken' = [taken EXCEPT ![a] = Built(a)]
          /\ asked' = asked \cup {a}
          /\ Healthy
          /\ UNCHANGED <<ctx, tabVars, url, held, transfer, switches, failed>>
       \/ ArmFails(a) /\ UNCHANGED asked

\* The server accepts a transfer whose memo field is the policy it was sent.
Accepts_Any(a) == TRUE
Accepts(a) == transfer[taken[a].armTx] = taken[a].policy

ServerArms(a) ==
    /\ a \in asked
    /\ Accepts(a)
    /\ switches[a] = NoRequest
    /\ switches' = [switches EXCEPT ![a] = taken[a]]
    /\ UNCHANGED <<ctx, tabVars, url, jobVars, held, transfer, asked, failed,
                   faults>>

\* enterLive: the topic goes to the address bar.
EnterLive_OldTopic(a) == ctx.topic
EnterLive(a) == a

\* The context is set to ARMED by hand, not through reduce.
ArmedByHand_AtClick(a) ==
    [state |-> "ARMED", memo |-> taken[a].stored, terms |-> taken[a].rungs,
     nullifier |-> Person, armTx |-> taken[a].armTx, topic |-> a,
     error |-> FALSE]
ArmedByHand(a) ==
    [ctx EXCEPT !.state = "ARMED", !.topic = a, !.error = FALSE]

\* The answer arrives; a refusal or a broken connection is an error, and the
\* request may still be served after the connection broke.
Answer(a) ==
    /\ pc[a] = "sent"
    /\ \/ /\ switches[a] # NoRequest
          /\ End(a)
          /\ Dispatch(ArmedByHand(a), held)
          /\ url' = EnterLive(a)
          /\ asked' = asked \ {a}
          /\ Healthy
          /\ UNCHANGED <<tabVars, taken, transfer, switches, failed>>
       \/ /\ ~Accepts(a)
          /\ End(a)
          /\ failed' = failed \cup {a}
          /\ asked' = asked \ {a}
          /\ Healthy
          /\ UNCHANGED <<ctx, tabVars, url, held, taken, transfer, switches>>
       \/ ArmFails(a) /\ UNCHANGED asked

-----------------------------------------------------------------------------
(* The tab is reloaded: what it had in memory is gone, what it had sent is *)
(* not.  A topic in the address bar restores that switch.                  *)

Reload ==
    /\ Fault
    /\ ctx' = IF url = None THEN Machine!WasReset ELSE Machine!LoadedSwitch(url)
    /\ memo' = None /\ terms' = None /\ world' = None /\ signed' = None
    /\ pc' = [j \in Jobs |-> IF pc[j] = "idle" THEN "idle" ELSE "done"]
    /\ held' = {}
    /\ UNCHANGED <<url, taken, transfer, asked, switches, failed>>

Next ==
    \/ \E s \in Seals : StartSeal(s) \/ EndSeal(s)
    \/ \E t \in Terms : ChooseTerms(t)
    \/ \E p \in Proofs : StartProof(p) \/ EndProof(p)
    \/ \E g \in Signings : StartSigning(g) \/ EndSigning(g)
    \/ \E j \in Proofs \cup Signings : Approve(j)
    \/ \E a \in Arms : ClickArm(a) \/ Upload(a) \/ MintAndPost(a)
                         \/ ServerArms(a) \/ Answer(a)
    \/ Remount \/ Reload

Spec == Init /\ [][Next]_vars

-----------------------------------------------------------------------------
(* Properties.                                                             *)

\* "This module is the SINGLE mutating surface": every change of the chat's
\* context is one that reduce makes, the two places where the chat sets it by
\* hand included.  In particular the chat is ARMED only with all artifacts.
KeepsToMachine == Machine!Spec

\* However late a card's job ends and whatever changes while the switch is
\* being armed, the armed switch is the one the device signed: its policy is
\* the one in the transfer's memo field, and the stored ciphertext and the
\* ladder belong to that policy's memo and terms.
SwitchIsWhatWasSigned ==
    \A a \in Arms :
        LET s == switches[a]
        IN s # NoRequest =>
              /\ s.policy = transfer[s.armTx]
              /\ s.stored = s.policy.memo
              /\ s.ladder = s.policy.memo
              /\ s.rungs = s.policy.terms

\* "So a reload restores this chat": the address bar names the switch the
\* context watches.  A context that was not restored mirrors the artifacts in
\* memory, so the machine's gate and the chat's own guards say the same.
TabIsConsistent ==
    /\ ctx.topic = url
    /\ ctx.memo = memo /\ ctx.terms = terms
    /\ ctx.nullifier = world /\ ctx.armTx = signed

-----------------------------------------------------------------------------
(* What the code's comments and texts say and the code does not keep.      *)

\* "Order is fixed; reduce() never reorders it": an armed chat never falls
\* back to a setup step, short of a reload.
ArmedStaysArmed ==
    [][ctx.state = "ARMED" => ctx'.state = "ARMED"]_vars

\* "Nothin' lost -- try again": an attempt that was told to have failed has
\* not armed a switch.
NothingLost == \A a \in failed : switches[a] = NoRequest
=============================================================================
