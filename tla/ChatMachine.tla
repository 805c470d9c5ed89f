----------------------------- MODULE ChatMachine -----------------------------
(***************************************************************************)
(* The fixed state machine behind the chat: the pure function reduce of    *)
(* lib/chat-machine.ts.  The context changes by one event at a time; there *)
(* is an operator for what reduce returns for each type of event, and an   *)
(* action that takes any event of that type.                               *)
(*                                                                         *)
(* The transient suggestion of PARSE_TEXT is left out: nothing reads it    *)
(* but a card that shows it.                                               *)
(***************************************************************************)

CONSTANTS
    Memos,      \* sealed memos: their ciphertextHash
    Terms,      \* the terms a user may choose
    Nullifiers, \* what a World proof yields
    ArmTxs,     \* signed arm transfers
    Topics,     \* audit topics of armed switches
    None        \* an optional field that is absent

VARIABLE
    ctx         \* the ChatContext

Optional(S) == S \cup {None}

States == {"IDLE", "MEMO", "TERMS", "WORLD", "SIGN", "ARMED", "CHECKIN",
           "CANCEL"}

Context ==
    [state : States, memo : Optional(Memos), terms : Optional(Terms),
     nullifier : Optional(Nullifiers), armTx : Optional(ArmTxs),
     topic : Optional(Topics), error : BOOLEAN]

\* A context without artifacts.
Fresh(state, t) ==
    [state |-> state, memo |-> None, terms |-> None, nullifier |-> None,
     armTx |-> None, topic |-> t, error |-> FALSE]

\* The arm gate.
CanArm(c) ==
    /\ c.memo # None
    /\ c.terms # None
    /\ c.nullifier # None
    /\ c.armTx # None

-----------------------------------------------------------------------------
(* What reduce makes of the context c.                                     *)

MemoCaptured(c, m) ==
    [c EXCEPT !.state = "TERMS", !.memo = m, !.error = FALSE]

TermsSet(c, t) ==
    [c EXCEPT !.state = "WORLD", !.terms = t, !.error = FALSE]

WorldVerified(c, n) ==
    [c EXCEPT !.state = "SIGN", !.nullifier = n, !.error = FALSE]

\* The signature is recorded in whatever state the machine is.
Signed_WrongField(c, x) == [c EXCEPT !.nullifier = x, !.error = FALSE]
Signed(c, x) == [c EXCEPT !.armTx = x, !.error = FALSE]

Armed(c, t) ==
    [c EXCEPT !.state = "ARMED", !.topic = IF t = None THEN @ ELSE t,
              !.error = FALSE]

ArmRejected(c) == [c EXCEPT !.error = TRUE]

LoadedSwitch(t) == Fresh("ARMED", t)

TextParsed(c) == [c EXCEPT !.error = FALSE]

WasReset == Fresh("IDLE", None)

-----------------------------------------------------------------------------

Init == ctx = WasReset

CaptureMemo == \E m \in Memos : ctx' = MemoCaptured(ctx, m)
SetTerms    == \E t \in Terms : ctx' = TermsSet(ctx, t)
VerifyWorld == \E n \in Nullifiers : ctx' = WorldVerified(ctx, n)
Sign        == \E x \in ArmTxs : ctx' = Signed(ctx, x)

Arm ==
    \/ CanArm(ctx) /\ \E t \in Optional(Topics) : ctx' = Armed(ctx, t)
    \/ ~CanArm(ctx) /\ ctx' = ArmRejected(ctx)

LoadSwitch == \E t \in Topics : ctx' = LoadedSwitch(t)
ParseText  == ctx' = TextParsed(ctx)
Reset      == ctx' = WasReset

Next ==
    \/ CaptureMemo \/ SetTerms \/ VerifyWorld \/ Sign
    \/ Arm \/ LoadSwitch \/ ParseText \/ Reset

Spec == Init /\ [][Next]_ctx
=============================================================================
