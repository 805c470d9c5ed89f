--------------------------- MODULE LedgerCeremony ---------------------------
(***************************************************************************)
(* useLedgerHedera.ts and ledgerDmkHedera.ts: the ceremony by which a card  *)
(* connects to the Ledger, finds its account, and has a transfer built,     *)
(* signed on the device and submitted.                                      *)
(*                                                                         *)
(* "probe" is the opening of the Hedera app, the reading of its key and the *)
(* lookup of the account, "review" the building of the transfer and its     *)
(* approval on the device: between the calls of each nothing is kept.       *)
(***************************************************************************)
EXTENDS Naturals

VARIABLES
    phase,      \* what the card shows
    waits,      \* the call the ceremony awaits
    session,    \* sessionRef of the card: "dead" once the device is unplugged
    account,    \* the account identified: the one that armed, or another one
    behind,     \* a connect that outlived its card, at the picker or past it
    sessions    \* device sessions that nobody has disconnected

cardVars == <<phase, waits, session, account, behind, sessions>>

CeremonyTypes ==
    /\ phase \in {"idle", "connecting", "identified", "signing", "done"}
    /\ waits \in {"-", "picker", "probe", "review", "submit"}
    /\ session \in {"none", "open", "dead"}
    /\ account \in {"none", "armed", "other"}
    /\ behind \in {"none", "picker", "opened"}
    /\ sessions \in 0..2

CeremonyInit ==
    /\ phase = "idle" /\ waits = "-" /\ session = "none" /\ account = "none"
    /\ behind = "none" /\ sessions = 0

-----------------------------------------------------------------------------
(* connect.                                                                 *)

Connect ==
    /\ phase = "idle"
    /\ phase' = "connecting" /\ waits' = "picker"
    /\ UNCHANGED <<session, account, behind, sessions>>

\* The device is picked, and its session opened.
Picked ==
    /\ waits = "picker"
    /\ waits' = "probe" /\ session' = "open" /\ sessions' = sessions + 1
    /\ UNCHANGED <<phase, account, behind>>

\* The account of whatever Ledger is connected; it may be unplugged again.
Identified ==
    /\ waits = "probe"
    /\ phase' = "identified" /\ waits' = "-"
    /\ account' \in {"armed", "other"}
    /\ UNCHANGED <<session, behind, sessions>>

\* The session the card holds is disconnected.
Disconnect ==
    /\ session' = "none"
    /\ sessions' = IF session = "none" THEN sessions ELSE sessions - 1

Released_Kept == session' = "none" /\ UNCHANGED sessions

\* What a failed connect leaves of the session.
Released == Disconnect

\* The picker is dismissed, the app is not opened in time, is missing or is
\* refused, the device is locked or gone, or no account has its key.
ConnectFails ==
    /\ phase = "connecting"
    /\ phase' = "idle" /\ waits' = "-"
    /\ Released
    /\ UNCHANGED <<account, behind>>

-----------------------------------------------------------------------------
(* signTransfer.                                                            *)

\* The cancel card offers it again when it is done: the post of the transfer
\* may have failed.
Sign ==
    /\ phase \in {"identified", "done"}
    /\ phase' = "signing" /\ waits' = "review"
    /\ UNCHANGED <<session, account, behind, sessions>>

\* The transfer is built, and approved on the device.
Approved ==
    /\ waits = "review" /\ session = "open"
    /\ waits' = "submit"
    /\ UNCHANGED <<phase, session, account, behind, sessions>>

\* A call fails, the user rejects the transfer, or the device is gone: the
\* card is back where it was, with the session it had.
SignFails ==
    /\ phase = "signing"
    /\ phase' = "identified" /\ waits' = "-"
    /\ UNCHANGED <<session, account, behind, sessions>>

Submitted_Unchecked(ok) == "done"

\* Only a submission whose receipt says SUCCESS is done.
Submitted(ok) == IF ok THEN "done" ELSE "identified"

\* The submission is answered.
SubmitAnswered(ok) ==
    /\ waits = "submit"
    /\ phase' = Submitted(ok)
    /\ waits' = "-"
    /\ UNCHANGED <<session, account, behind, sessions>>

-----------------------------------------------------------------------------
Unplug ==
    /\ session = "open"
    /\ session' = "dead"
    /\ UNCHANGED <<phase, waits, account, behind, sessions>>

\* The card is unmounted, and mounted again some day.  The cleanup disconnects
\* the session it finds; a connect at the picker has none yet, and goes on.  One
\* such connect at a time is a bound.
Unmount ==
    /\ phase # "idle"
    /\ phase' = "idle" /\ waits' = "-" /\ account' = "none"
    /\ Disconnect
    /\ IF waits = "picker" THEN behind = "none" /\ behind' = "picker"
       ELSE UNCHANGED behind

\* It opens a session for a card that is gone.
BehindOpens ==
    /\ behind = "picker"
    /\ behind' = "opened" /\ sessions' = sessions + 1
    /\ UNCHANGED <<phase, waits, session, account>>

\* It fails: a session it has opened is disconnected.  One that does not fail
\* is never heard of again.
BehindFails ==
    /\ behind # "none"
    /\ behind' = "none"
    /\ sessions' = IF behind = "opened" THEN sessions - 1 ELSE sessions
    /\ UNCHANGED <<phase, waits, session, account>>

\* A card that offers to connect has released the device, so that it can be
\* opened again by this card or by another, but for the session of a connect
\* that an unmount left at the picker (connect's catch, useLedgerHedera.ts:
\* 119-124, and its cleanup, 69-75).
DeviceIsReleased ==
    phase = "idle" => sessions = IF behind = "opened" THEN 1 ELSE 0
=============================================================================
