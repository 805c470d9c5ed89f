-------------------------- MODULE ArmingChat_proof --------------------------
(***************************************************************************)
(* The chat keeps to its machine, and the switch it arms is the one that   *)
(* was signed, for any number of attempts of each kind, ended in any order *)
(* and at any time, with any number of failures and reloads.               *)
(***************************************************************************)
EXTENDS ArmingChat, TLAPS

InFlight(a) == pc[a] \in {"upload", "mint", "sent"}

\* A request that is about one memo and its terms, signed by then.
Coherent(r) ==
    /\ r.armTx \in Signings
    /\ pc[r.armTx] = "done"
    /\ r.policy.memo = r.stored
    /\ r.ladder = r.stored
    /\ r.policy.terms = r.rungs

SignedInv == signed # None => pc[signed] = "done"

\* Artifacts are never taken back while a switch is being armed.
GatedInv ==
    \A a \in Arms : InFlight(a) => None \notin {memo, terms, world, signed}

RequestInv ==
    \A a \in Arms : InFlight(a) \/ a \in asked => Coherent(taken[a])

SwitchInv ==
    \A a \in Arms : switches[a] # NoRequest =>
        /\ Coherent(switches[a])
        /\ transfer[switches[a].armTx] = switches[a].policy

ChatInv ==
    /\ TypeOK
    /\ TabIsConsistent
    /\ SignedInv
    /\ GatedInv
    /\ RequestInv
    /\ SwitchInv

USE DEF Jobs, CardJobs

-----------------------------------------------------------------------------
(* Types.                                                                  *)

LEMMA NoneApart ==
    /\ None \notin Seals /\ None \notin Terms /\ None \notin Signings
    /\ None \notin Arms /\ None # Person
    /\ Arms \cap Seals = {} /\ Arms \cap Proofs = {} /\ Arms \cap Signings = {}
BY NamesAssumption

\* What the machine makes of a context is a context.
LEMMA MachineTypes ==
    ASSUME ctx \in Machine!Context
    PROVE  /\ \A s \in Seals : Machine!MemoCaptured(ctx, s) \in Machine!Context
           /\ \A t \in Terms : Machine!TermsSet(ctx, t) \in Machine!Context
           /\ Machine!WorldVerified(ctx, Person) \in Machine!Context
           /\ \A g \in Signings : Machine!Signed(ctx, g) \in Machine!Context
           /\ \A a \in Arms : ArmedByHand(a) \in Machine!Context
           /\ \A a \in Arms : Machine!LoadedSwitch(a) \in Machine!Context
           /\ Machine!WasReset \in Machine!Context
BY DEF Machine!Context, Machine!States, Machine!Optional, Machine!MemoCaptured,
       Machine!TermsSet, Machine!WorldVerified, Machine!Signed, ArmedByHand,
       Machine!LoadedSwitch, Machine!WasReset, Machine!Fresh

LEMMA RequestTypes ==
    ASSUME TypeOK
    PROVE  /\ CurrentPolicy \in Policies
           /\ NoRequest \in Request
           /\ [policy |-> CurrentPolicy, stored |-> memo, ladder |-> memo,
               rungs |-> terms, armTx |-> signed] \in Request
<1>1. CurrentPolicy \in Policies
  BY DEF TypeOK, CurrentPolicy, Policy, Policies, Optional
<1> QED BY <1>1 DEF TypeOK, NoRequest, Request, Policy, Policies, Optional

LEMMA TypeStep ==
    ASSUME TypeOK, [Next]_vars
    PROVE  TypeOK'
<1> USE DEF Optional
<1>1. ASSUME NEW s \in Seals, StartSeal(s) \/ EndSeal(s) PROVE TypeOK'
  BY <1>1, MachineTypes DEF StartSeal, EndSeal, Begin, End, CardError, Dispatch,
     Healthy, TypeOK, PCs, tabVars, jobVars
<1>2. ASSUME NEW t \in Terms, ChooseTerms(t) PROVE TypeOK'
  BY <1>2, MachineTypes DEF ChooseTerms, Dispatch, TypeOK, jobVars
<1>3. ASSUME NEW p \in Proofs, StartProof(p) \/ EndProof(p) PROVE TypeOK'
  BY <1>3, MachineTypes DEF StartProof, EndProof, Begin, End, CardError,
     Dispatch, Healthy, TypeOK, PCs, tabVars, jobVars
<1>4. ASSUME NEW j \in Proofs \cup Signings, Approve(j) PROVE TypeOK'
  BY <1>4 DEF Approve, End, CardError, Healthy, TypeOK, PCs, tabVars
<1>5. ASSUME NEW g \in Signings, StartSigning(g) PROVE TypeOK'
  <2>1. taken' \in [Jobs -> Request]
    BY <1>5, RequestTypes DEF StartSigning, TypeOK, Request
  <2> QED BY <1>5, <2>1 DEF StartSigning, Begin, TypeOK, PCs, tabVars
<1>6. ASSUME NEW g \in Signings, EndSigning(g) PROVE TypeOK'
  <2>1. taken[g].policy \in Policies
    BY DEF TypeOK, Request
  <2>2. faults' \in Nat
    BY <1>6 DEF EndSigning, Healthy, Fault, TypeOK
  <2>3. transfer' \in [Signings -> Policies]
    BY <1>6, <2>1 DEF EndSigning, CardError, TypeOK
  <2>4. /\ ctx' \in Machine!Context /\ signed' \in Optional(Signings)
        /\ held' \in SUBSET CardJobs
        /\ UNCHANGED <<memo, terms, world>>
    BY <1>6, MachineTypes DEF EndSigning, Dispatch, CardError, TypeOK, tabVars
  <2>5. pc' \in [Jobs -> PCs]
    BY <1>6 DEF EndSigning, End, CardError, TypeOK, PCs
  <2>6. UNCHANGED <<url, taken, asked, switches, failed>>
    BY <1>6 DEF EndSigning, CardError
  <2> QED BY <2>2, <2>3, <2>4, <2>5, <2>6 DEF TypeOK
<1>7. ASSUME NEW a \in Arms, ClickArm(a) PROVE TypeOK'
  <2>1. taken' \in [Jobs -> Request]
    BY <1>7, RequestTypes DEF ClickArm, TypeOK
  <2> QED BY <1>7, <2>1 DEF ClickArm, TypeOK, PCs, tabVars
<1>8. ASSUME NEW a \in Arms, Upload(a) PROVE TypeOK'
  BY <1>8 DEF Upload, ArmFails, End, Healthy, Fault, TypeOK, PCs, tabVars
<1>9. ASSUME NEW a \in Arms, MintAndPost(a) PROVE TypeOK'
  BY <1>9 DEF MintAndPost, Built, ArmFails, End, Healthy, Fault, TypeOK, PCs,
     tabVars
<1>10. ASSUME NEW a \in Arms, ServerArms(a) PROVE TypeOK'
  BY <1>10 DEF ServerArms, TypeOK, tabVars, jobVars
<1>11. ASSUME NEW a \in Arms, Answer(a) PROVE TypeOK'
  BY <1>11, MachineTypes DEF Answer, ArmFails, End, Dispatch, EnterLive, Healthy,
     Fault, TypeOK, PCs, tabVars
<1>12. CASE Remount
  BY <1>12 DEF Remount, TypeOK, tabVars, jobVars
<1>13. CASE Reload
  <2>1. ctx' \in Machine!Context
    BY <1>13, MachineTypes DEF Reload, TypeOK
  <2>2. pc' \in [Jobs -> PCs]
    BY <1>13 DEF Reload, PCs
  <2> QED BY <1>13, <2>1, <2>2 DEF Reload, Fault, TypeOK
<1>14. CASE UNCHANGED vars
  BY <1>14 DEF vars, TypeOK
<1> QED BY <1>1, <1>2, <1>3, <1>4, <1>5, <1>6, <1>7, <1>8, <1>9, <1>10, <1>11,
           <1>12, <1>13, <1>14 DEF Next

-----------------------------------------------------------------------------
(* Jobs end for good, and the context mirrors the artifacts.               *)

LEMMA DoneStays ==
    ASSUME TypeOK, Next, NEW j \in Jobs, pc[j] = "done"
    PROVE  pc'[j] = "done"
BY DEF TypeOK, Next, StartSeal, EndSeal, ChooseTerms, StartProof, EndProof,
   Approve, StartSigning, EndSigning, ClickArm, Upload, MintAndPost, ServerArms,
   Answer, Remount, Reload, ArmFails, CardError, Begin, End, jobVars

LEMMA ConsistentStep ==
    ASSUME ChatInv, [Next]_vars
    PROVE  TabIsConsistent'
<1> USE DEF ChatInv, TabIsConsistent, TypeOK, Machine!Context
<1>1. ASSUME NEW s \in Seals, StartSeal(s) \/ EndSeal(s) PROVE TabIsConsistent'
  BY <1>1 DEF StartSeal, EndSeal, CardError, Dispatch, Machine!MemoCaptured,
     tabVars
<1>2. ASSUME NEW t \in Terms, ChooseTerms(t) PROVE TabIsConsistent'
  BY <1>2 DEF ChooseTerms, Dispatch, Machine!TermsSet
<1>3. ASSUME NEW p \in Proofs, StartProof(p) \/ EndProof(p)
      PROVE TabIsConsistent'
  BY <1>3 DEF StartProof, EndProof, CardError, Dispatch, Machine!WorldVerified,
     tabVars
<1>4. ASSUME NEW g \in Signings, EndSigning(g) PROVE TabIsConsistent'
  BY <1>4 DEF EndSigning, CardError, Dispatch, Machine!Signed, tabVars
<1>5. ASSUME NEW a \in Arms, Answer(a) PROVE TabIsConsistent'
  BY <1>5 DEF Answer, ArmFails, Dispatch, ArmedByHand, EnterLive, tabVars
<1>6. CASE Reload
  BY <1>6 DEF Reload, Machine!WasReset, Machine!LoadedSwitch, Machine!Fresh
<1>7. ASSUME UNCHANGED <<ctx, tabVars, url>> PROVE TabIsConsistent'
  BY <1>7 DEF tabVars
<1>8. ASSUME NEW j \in Proofs \cup Signings, Approve(j) PROVE TabIsConsistent'
  BY <1>8, <1>7 DEF Approve, CardError
<1>9. ASSUME NEW g \in Signings, StartSigning(g) PROVE TabIsConsistent'
  BY <1>9, <1>7 DEF StartSigning
<1>10. ASSUME NEW a \in Arms,
              ClickArm(a) \/ Upload(a) \/ MintAndPost(a) \/ ServerArms(a)
       PROVE TabIsConsistent'
  BY <1>10, <1>7 DEF ClickArm, Upload, MintAndPost, ServerArms, ArmFails
<1>11. CASE Remount \/ UNCHANGED vars
  BY <1>11, <1>7 DEF Remount, vars, tabVars
<1> QED BY <1>1, <1>2, <1>3, <1>4, <1>5, <1>6, <1>8, <1>9, <1>10, <1>11 DEF Next

LEMMA SignedStep ==
    ASSUME ChatInv, Next
    PROVE  SignedInv'
<1>1. signed' \in {signed, None} => SignedInv'
  BY DoneStays, NoneApart DEF ChatInv, SignedInv, TypeOK, Optional
<1>2. ASSUME NEW g \in Signings, EndSigning(g) PROVE SignedInv'
  BY <1>1, <1>2 DEF EndSigning, CardError, End, tabVars, SignedInv, ChatInv,
     TypeOK
<1>3. signed' \in {signed, None} \/ \E g \in Signings : EndSigning(g)
  BY DEF Next, StartSeal, EndSeal, ChooseTerms, StartProof, EndProof, Approve,
     StartSigning, ClickArm, Upload, MintAndPost, ServerArms, Answer, Remount,
     Reload, ArmFails, CardError, tabVars
<1> QED BY <1>1, <1>2, <1>3

-----------------------------------------------------------------------------
(* Requests and switches.                                                  *)

\* A coherent request stays so.
LEMMA CoherentStays ==
    ASSUME TypeOK, Next, NEW r \in Request, Coherent(r)
    PROVE  Coherent(r)'
BY DoneStays DEF Coherent

\* What a step that starts no arming and builds no request has to show.
LEMMA GatedStep ==
    ASSUME ChatInv, Next,
           \A a \in Arms : InFlight(a)' => InFlight(a),
           /\ \E a \in Arms : InFlight(a)'
           /\ None \notin {memo, terms, world, signed}
           => None \notin {memo', terms', world', signed'}
    PROVE  GatedInv'
BY DEF ChatInv, GatedInv

LEMMA RequestStep ==
    ASSUME ChatInv, Next, TypeOK',
           \A a \in Arms : InFlight(a)' \/ a \in asked' =>
                             InFlight(a) \/ a \in asked,
           \A a \in Arms : taken'[a] = taken[a]
    PROVE  RequestInv'
<1> SUFFICES ASSUME NEW a \in Arms, InFlight(a)' \/ a \in asked'
             PROVE  Coherent(taken[a])'
  BY DEF RequestInv, Coherent
<1>1. Coherent(taken[a]) /\ taken[a] \in Request
  BY DEF ChatInv, RequestInv, TypeOK
<1>2. \A r \in Request : Coherent(r) => Coherent(r)'
  BY CoherentStays DEF ChatInv
<1>3. taken[a]' = taken[a]
  OBVIOUS
<1> QED BY <1>1, <1>2, <1>3 DEF Coherent

LEMMA SwitchStep ==
    ASSUME ChatInv, Next, UNCHANGED <<transfer, switches>>
    PROVE  SwitchInv'
<1> SUFFICES ASSUME NEW a \in Arms, switches[a] # NoRequest
             PROVE  Coherent(switches[a])'
  BY DEF ChatInv, SwitchInv, Coherent
<1>1. Coherent(switches[a]) /\ switches[a] \in Request
  BY DEF ChatInv, SwitchInv, TypeOK
<1> QED BY <1>1, DoneStays DEF Coherent, ChatInv

-----------------------------------------------------------------------------
(* The inductive invariant.                                                *)

\* The cards' steps, reloads and remounts: no request is touched.
CardStep ==
    \/ \E s \in Seals : StartSeal(s) \/ EndSeal(s)
    \/ \E t \in Terms : ChooseTerms(t)
    \/ \E p \in Proofs : StartProof(p) \/ EndProof(p)
    \/ \E g \in Signings : StartSigning(g)
    \/ \E j \in Proofs \cup Signings : Approve(j)
    \/ Remount \/ Reload

LEMMA CardFrame ==
    ASSUME TypeOK, CardStep
    PROVE  /\ \A a \in Arms : InFlight(a)' => InFlight(a)
           /\ \A a \in Arms : taken'[a] = taken[a]
           /\ UNCHANGED <<transfer, asked, switches>>
           /\ /\ \E a \in Arms : InFlight(a)'
              /\ None \notin {memo, terms, world, signed}
              => None \notin {memo', terms', world', signed'}
<1> USE NoneApart DEF InFlight, TypeOK
<1>1. ASSUME NEW s \in Seals, StartSeal(s) \/ EndSeal(s)
      PROVE  /\ \A a \in Arms : InFlight(a)' => InFlight(a)
             /\ UNCHANGED <<taken, transfer, asked, switches>>
             /\ memo' \in {memo, s} /\ UNCHANGED <<terms, world, signed>>
  BY <1>1 DEF StartSeal, EndSeal, CardError, Begin, End, tabVars
<1>2. ASSUME NEW t \in Terms, ChooseTerms(t)
      PROVE  /\ UNCHANGED <<pc, taken, transfer, asked, switches>>
             /\ terms' = t /\ UNCHANGED <<memo, world, signed>>
  BY <1>2 DEF ChooseTerms, jobVars
<1>3. ASSUME NEW p \in Proofs, StartProof(p) \/ EndProof(p)
      PROVE  /\ \A a \in Arms : InFlight(a)' => InFlight(a)
             /\ UNCHANGED <<taken, transfer, asked, switches>>
             /\ world' \in {world, Person} /\ UNCHANGED <<memo, terms, signed>>
  BY <1>3 DEF StartProof, EndProof, CardError, Begin, End, tabVars
<1>4. ASSUME NEW g \in Signings, StartSigning(g)
      PROVE  /\ \A a \in Arms : InFlight(a)' => InFlight(a)
             /\ \A a \in Arms : taken'[a] = taken[a]
             /\ UNCHANGED <<transfer, asked, switches, tabVars>>
  BY <1>4 DEF StartSigning, Begin, tabVars
<1>5. ASSUME NEW j \in Proofs \cup Signings, Approve(j)
      PROVE  /\ \A a \in Arms : InFlight(a)' => InFlight(a)
             /\ UNCHANGED <<taken, transfer, asked, switches, tabVars>>
  BY <1>5 DEF Approve, CardError, End
<1>6. CASE Remount
  BY <1>6 DEF Remount, jobVars, tabVars
<1>7. CASE Reload
  BY <1>7 DEF Reload
<1> QED BY <1>1, <1>2, <1>3, <1>4, <1>5, <1>6, <1>7 DEF CardStep, tabVars

\* The artifacts the click takes are those of the tab, signed by then.
LEMMA ClickIsCoherent ==
    ASSUME ChatInv, NEW a \in Arms, ClickArm(a)
    PROVE  /\ taken'[a] \in Request /\ Coherent(taken'[a])
           /\ \A b \in Arms \ {a} : taken'[b] = taken[b]
<1>1. CurrentPolicy.memo = memo /\ CurrentPolicy.terms = terms
  BY DEF ClickArm, CurrentPolicy, Policy
<1>2. signed \in Signings /\ pc[signed] = "done"
  BY DEF ClickArm, ChatInv, SignedInv, TypeOK, Optional
<1>3. taken'[a] = [policy |-> CurrentPolicy, stored |-> memo, ladder |-> memo,
                   rungs |-> terms, armTx |-> signed]
  BY DEF ClickArm, ChatInv, TypeOK
<1>4. \A b \in Arms \ {a} : taken'[b] = taken[b]
  BY DEF ClickArm, ChatInv, TypeOK
<1>5. taken'[a] \in Request
  BY <1>3, RequestTypes DEF ChatInv
<1> QED BY <1>1, <1>2, <1>3, <1>4, <1>5 DEF Coherent

LEMMA ChatStep ==
    ASSUME ChatInv, Next, TypeOK', TabIsConsistent', SignedInv'
    PROVE  GatedInv' /\ RequestInv' /\ SwitchInv'
<1>1. CASE CardStep
  BY <1>1, CardFrame, GatedStep, RequestStep, SwitchStep DEF ChatInv
<1>2. ASSUME NEW g \in Signings, EndSigning(g)
      PROVE  GatedInv' /\ RequestInv' /\ SwitchInv'
  <2>1. /\ pc[g] = "submit" /\ UNCHANGED <<taken, asked, switches>>
        /\ UNCHANGED <<memo, terms, world>> /\ signed' \in {signed, g}
        /\ \A h \in Signings \ {g} : transfer'[h] = transfer[h]
    BY <1>2 DEF EndSigning, CardError, tabVars, ChatInv, TypeOK
  <2>2. \A a \in Arms : InFlight(a)' => InFlight(a)
    BY <1>2 DEF EndSigning, CardError, End, InFlight, ChatInv, TypeOK
  <2>3. GatedInv'
    BY <2>1, <2>2, NoneApart, GatedStep
  <2>4. RequestInv'
    BY <2>1, <2>2, RequestStep
  <2>5. SwitchInv'
    <3> SUFFICES ASSUME NEW a \in Arms, switches[a] # NoRequest
                 PROVE  /\ Coherent(switches[a])'
                        /\ transfer'[switches[a].armTx] = switches[a].policy
      BY <2>1 DEF SwitchInv, Coherent
    <3>1. /\ Coherent(switches[a]) /\ switches[a] \in Request
          /\ transfer[switches[a].armTx] = switches[a].policy
      BY DEF ChatInv, SwitchInv, TypeOK
    <3>2. switches[a].armTx \in Signings \ {g}
      BY <3>1, <2>1 DEF Coherent
    <3> QED BY <3>1, <3>2, <2>1, DoneStays DEF Coherent, ChatInv
  <2> QED BY <2>3, <2>4, <2>5
<1>3. ASSUME NEW a \in Arms, ClickArm(a)
      PROVE  GatedInv' /\ RequestInv' /\ SwitchInv'
  <2>1. /\ UNCHANGED <<transfer, asked, switches, tabVars>>
        /\ None \notin {memo, terms, world, signed}
        /\ \A b \in Arms \ {a} : InFlight(b)' => InFlight(b)
    BY <1>3 DEF ClickArm, InFlight, ChatInv, TypeOK
  <2>2. GatedInv'
    BY <2>1 DEF GatedInv, tabVars
  <2>3. RequestInv'
    <3> SUFFICES ASSUME NEW b \in Arms, InFlight(b)' \/ b \in asked'
                 PROVE  Coherent(taken[b])'
      BY DEF RequestInv
    <3>1. Coherent(taken'[b])
      <4>1. CASE b = a
        BY <4>1, <1>3, ClickIsCoherent
      <4>2. CASE b # a
        BY <4>2, <2>1, <1>3, ClickIsCoherent DEF ChatInv, RequestInv
      <4> QED BY <4>1, <4>2
    <3>2. pc'[taken'[b].armTx] = "done"
      BY <3>1, DoneStays DEF Coherent, ChatInv
    <3> QED BY <3>1, <3>2 DEF Coherent
  <2> QED BY <2>1, <2>2, <2>3, SwitchStep
<1>4. ASSUME NEW a \in Arms, Upload(a) \/ MintAndPost(a) \/ Answer(a)
      PROVE  GatedInv' /\ RequestInv' /\ SwitchInv'
  <2>1. /\ taken' = taken /\ UNCHANGED <<transfer, switches, tabVars>>
        /\ asked' \in SUBSET (asked \cup {a}) /\ InFlight(a)
    BY <1>4 DEF Upload, MintAndPost, Answer, ArmFails, Built, InFlight, tabVars,
       ChatInv, TypeOK
  <2>2. \A b \in Arms : InFlight(b)' => InFlight(b)
    BY <1>4, <2>1 DEF Upload, MintAndPost, Answer, ArmFails, End, InFlight,
       ChatInv, TypeOK
  <2> QED BY <2>1, <2>2, GatedStep, RequestStep, SwitchStep DEF tabVars
<1>5. ASSUME NEW a \in Arms, ServerArms(a)
      PROVE  GatedInv' /\ RequestInv' /\ SwitchInv'
  <2>1. /\ UNCHANGED <<pc, taken, transfer, asked, tabVars>>
        /\ a \in asked /\ Accepts(a)
        /\ switches' = [switches EXCEPT ![a] = taken[a]]
    BY <1>5 DEF ServerArms, jobVars
  <2>2. GatedInv' /\ RequestInv'
    BY <2>1, GatedStep, RequestStep DEF InFlight, tabVars
  <2>3. Coherent(taken[a])
    BY <2>1 DEF ChatInv, RequestInv
  <2>4. SwitchInv'
    BY <2>1, <2>3 DEF ChatInv, SwitchInv, TypeOK, Accepts, Coherent
  <2> QED BY <2>2, <2>4
<1> QED BY <1>1, <1>2, <1>3, <1>4, <1>5 DEF Next, CardStep

LEMMA ChatInitially == Init => ChatInv
<1> SUFFICES ASSUME Init PROVE ChatInv
  OBVIOUS
<1>1. TypeOK
  BY DEF Init, TypeOK, Optional, PCs, Request, Policies, Policy, NoRequest,
     Machine!WasReset, Machine!Fresh, Machine!Context, Machine!States,
     Machine!Optional
<1>2. TabIsConsistent
  BY DEF Init, TabIsConsistent, Machine!WasReset, Machine!Fresh
<1>3. SignedInv /\ GatedInv /\ RequestInv /\ SwitchInv
  BY DEF Init, SignedInv, GatedInv, RequestInv, SwitchInv, InFlight
<1> QED BY <1>1, <1>2, <1>3 DEF ChatInv

LEMMA ChatInductive == ChatInv /\ [Next]_vars => ChatInv'
<1> SUFFICES ASSUME ChatInv, [Next]_vars PROVE ChatInv'
  OBVIOUS
<1>1. TypeOK' /\ TabIsConsistent'
  BY TypeStep, ConsistentStep DEF ChatInv
<1>2. CASE Next
  BY <1>1, <1>2, SignedStep, ChatStep DEF ChatInv
<1>3. CASE UNCHANGED vars
  BY <1>1, <1>3 DEF vars, ChatInv, SignedInv, GatedInv, RequestInv, SwitchInv,
     InFlight, Coherent
<1> QED BY <1>2, <1>3

\* Types, the two copies of the artifacts, and what the requests are about.
THEOREM ChatInvariant == Spec => []ChatInv
BY ChatInitially, ChatInductive, PTL DEF Spec

\* Every variable of the chat keeps its type.
THEOREM ChatTypes == Spec => []TypeOK
<1>1. ChatInv => TypeOK
  BY DEF ChatInv
<1> QED BY <1>1, ChatInvariant, PTL

\* The switch that is armed is the one the device signed, of one memo and its
\* terms, however late the cards' jobs end (arm() of Chat.tsx).
THEOREM SwitchIsSigned == Spec => []SwitchIsWhatWasSigned
<1>1. ChatInv => SwitchIsWhatWasSigned
  BY DEF ChatInv, SwitchInv, Coherent, SwitchIsWhatWasSigned
<1> QED BY <1>1, ChatInvariant, PTL

\* The chat's context and the artifacts in memory say the same, and a reload
\* restores the switch the context watches.
THEOREM TabConsistent == Spec => []TabIsConsistent
<1>1. ChatInv => TabIsConsistent
  BY DEF ChatInv
<1> QED BY <1>1, ChatInvariant, PTL

-----------------------------------------------------------------------------
(* The refinement.                                                         *)

LEMMA MachineStep ==
    ASSUME ChatInv, [Next]_vars
    PROVE  [Machine!Next]_ctx
<1> USE DEF Machine!Next
<1>1. ASSUME NEW s \in Seals, EndSeal(s) PROVE Machine!Next \/ UNCHANGED ctx
  BY <1>1 DEF EndSeal, CardError, Dispatch, Machine!CaptureMemo
<1>2. ASSUME NEW t \in Terms, ChooseTerms(t) PROVE Machine!Next
  BY <1>2 DEF ChooseTerms, Dispatch, Machine!SetTerms
<1>3. ASSUME NEW p \in Proofs, EndProof(p) PROVE Machine!Next \/ UNCHANGED ctx
  BY <1>3 DEF EndProof, CardError, Dispatch, Machine!VerifyWorld
<1>4. ASSUME NEW g \in Signings, EndSigning(g)
      PROVE Machine!Next \/ UNCHANGED ctx
  BY <1>4 DEF EndSigning, CardError, Dispatch, Machine!Sign, tabVars
<1>5. ASSUME NEW a \in Arms, Answer(a) PROVE Machine!Next \/ UNCHANGED ctx
  <2>1. CASE ctx' = ArmedByHand(a)
    <3>1. Machine!CanArm(ctx)
      BY <1>5 DEF Answer, ChatInv, GatedInv, InFlight, TabIsConsistent,
         Machine!CanArm
    <3>2. ctx' = Machine!Armed(ctx, a)
      BY <2>1, NoneApart DEF ArmedByHand, Machine!Armed
    <3> QED BY <3>1, <3>2 DEF Machine!Arm, Machine!Optional
  <2>2. CASE UNCHANGED ctx
    BY <2>2
  <2> QED BY <1>5, <2>1, <2>2 DEF Answer, ArmFails, Dispatch
<1>6. CASE Reload
  BY <1>6 DEF Reload, ChatInv, TypeOK, Optional, Machine!LoadSwitch,
     Machine!Reset
<1>7. ASSUME NEW s \in Seals, StartSeal(s) PROVE UNCHANGED ctx
  BY <1>7 DEF StartSeal
<1>8. ASSUME NEW p \in Proofs, StartProof(p) PROVE UNCHANGED ctx
  BY <1>8 DEF StartProof
<1>9. ASSUME NEW j \in Proofs \cup Signings, Approve(j) PROVE UNCHANGED ctx
  BY <1>9 DEF Approve, CardError
<1>10. ASSUME NEW g \in Signings, StartSigning(g) PROVE UNCHANGED ctx
  BY <1>10 DEF StartSigning
<1>11. ASSUME NEW a \in Arms,
              ClickArm(a) \/ Upload(a) \/ MintAndPost(a) \/ ServerArms(a)
       PROVE UNCHANGED ctx
  BY <1>11 DEF ClickArm, Upload, MintAndPost, ServerArms, ArmFails
<1>12. CASE Remount \/ UNCHANGED vars
  BY <1>12 DEF Remount, vars
<1> QED BY <1>1, <1>2, <1>3, <1>4, <1>5, <1>6, <1>7, <1>8, <1>9, <1>10, <1>11,
           <1>12 DEF Next

\* Every change of the chat's context is a transition of reduce, and the two
\* contexts set by hand are as well: the chat arms only past the machine's gate.
THEOREM KeptToMachine == Spec => KeepsToMachine
<1>1. Init => Machine!Init
  BY DEF Init, Machine!Init
<1>2. ChatInv /\ [Next]_vars => [Machine!Next]_ctx
  BY MachineStep
<1> QED BY <1>1, <1>2, ChatInvariant, PTL DEF Spec, KeepsToMachine, Machine!Spec
=============================================================================
