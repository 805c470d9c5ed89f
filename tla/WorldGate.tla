----------------------------- MODULE WorldGate -----------------------------
(***************************************************************************)
(* components/WorldVerifyCard.tsx: the World ID gate of one card, as what   *)
(* each of its events does to its state.  A press of the button fetches a   *)
(* signed context and opens the dialog; a proof in the dialog is sent to    *)
(* the verify route, and the answer of that to the card.  The dialog only   *)
(* covers the button: the keyboard still presses it while it is enabled.    *)
(***************************************************************************)

Gate == [fetching : BOOLEAN,    \* startVerify awaits the signed context
         open : BOOLEAN,        \* the dialog is open
         busy : BOOLEAN,        \* the button is disabled
         handled : BOOLEAN,     \* handledResultRef holds the dialog's result
         latch : BOOLEAN]       \* verifyingRef

\* The state of a card that has just been mounted.
FreshGate == [fetching |-> FALSE, open |-> FALSE, busy |-> FALSE,
              handled |-> FALSE, latch |-> FALSE]

Pressed(g) == [g EXCEPT !.fetching = TRUE, !.busy = TRUE]

\* The context arrives: setOpen(true), and finally setBusy(false).
Opened(g) == [g EXCEPT !.fetching = FALSE, !.open = TRUE, !.busy = FALSE]

\* It does not.
Refused(g) == [g EXCEPT !.fetching = FALSE, !.busy = FALSE]

\* Closing the dialog resets its request.
Closed(g) == [g EXCEPT !.open = FALSE, !.handled = FALSE]

\* No latch: the dialog's memory of the result it has handled is all there is.
Latched_Never(g) == FALSE

Latched(g) == g.latch

\* handleSuccess: a proof that comes while one is verified is dropped, and its
\* dialog stays; else the dialog closes and the verification starts.
Proved(g) ==
    IF Latched(g) THEN [g EXCEPT !.handled = TRUE]
    ELSE [Closed(g) EXCEPT !.latch = TRUE, !.busy = TRUE]

\* The verification fails: another attempt is allowed.
Failed(g) == [g EXCEPT !.latch = FALSE, !.busy = FALSE]
=============================================================================
