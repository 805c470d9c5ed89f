----------------------------- MODULE SwitchWatch -----------------------------
(***************************************************************************)
(* The cancel of a switch from the device to the watcher: the ceremony on   *)
(* the cancel card of one switch puts a transfer on chain, which the page   *)
(* posts or does not, beside the transfers of others and the releases.      *)
(***************************************************************************)
EXTENDS WatcherPasses, LedgerCeremony

CONSTANTS
    Mine,       \* the switch whose cancel card is open
    Others,     \* transfers that others make to the agent
    MaxTransfers \* bound on the transactions of the agent's account

ASSUME MineAssumption ==
    Mine \in Topics /\ Others \subseteq Transfer(Topics, NoTopic)

vars == <<watchVars, cardVars>>

TypeOK == WatchTypes /\ CeremonyTypes

Init == WatchInit /\ CeremonyInit

Puts(tx) == Len(txs) < MaxTransfers /\ txs' = Append(txs, tx)

\* Someone else's transfer: a funding, a failed one, a cancel.
OtherTransfer(tx) ==
    /\ tx.topic \in Topics => rec[tx.topic] # "NONE"
    /\ \A i \in DOMAIN txs : txs[i] # tx
    /\ Puts(tx)
    /\ UNCHANGED <<rec, sched, rows, passVars, held, faults, cardVars>>

\* What the connected Ledger signed: the card never compares its account with
\* the one that armed the switch (SwitchActions.tsx:69-72).
Relayed(ok) ==
    [topic |-> Mine, success |-> ok, debited |-> account = "armed"]

\* submitSignedLedgerTransfer puts the signed transfer on chain; its receipt may
\* say that it failed, and its answer may be lost.
Submit ==
    /\ waits = "submit"
    /\ \/ Puts(Relayed(TRUE)) /\ SubmitAnswered(TRUE) /\ Healthy
       \/ \E ok \in BOOLEAN :
             Puts(Relayed(ok)) /\ SubmitAnswered(FALSE) /\ Fault
       \/ UNCHANGED txs /\ SubmitAnswered(FALSE) /\ Fault
    /\ UNCHANGED <<rec, sched, rows, passVars, held>>

\* The card is shown for an active switch.  No ceremony is begun that the bound
\* on the transactions would not let end.
Card ==
    \/ Connect /\ rec[Mine] = "ACTIVE" /\ Len(txs) < MaxTransfers /\ Healthy
    \/ Sign /\ Len(txs) < MaxTransfers /\ Healthy
    \/ (Picked \/ Identified \/ ConnectFails \/ Approved) /\ Healthy
    \/ (BehindOpens \/ BehindFails) /\ Healthy
    \/ waits # "submit" /\ SignFails /\ Healthy
    \/ /\ waits # "submit" /\ Unmount
       /\ IF waits = "picker" THEN Fault ELSE Healthy
    \/ Unplug /\ Fault

Next ==
    \/ (World \/ PassStep \/ PassFails) /\ UNCHANGED cardVars
    \/ Submit
    \/ Card /\ UNCHANGED <<netVars, passVars, held>>
    \/ \E tx \in Others : OtherTransfer(tx)

Spec == Init /\ [][Next]_vars /\ WF_vars(PassStep /\ UNCHANGED cardVars)

\* What the ceremony reports as done is on chain: a transfer with the switch's
\* memo that debits the account the card shows and posts, which the executor will
\* confirm, and the watcher too if that account armed the switch
\* (useLedgerHedera.ts:157-175).
DoneIsOnChain ==
    phase = "done" =>
        \E i \in DOMAIN txs :
            Carries(txs[i], Mine) /\ txs[i].debited = (account = "armed")
=============================================================================
