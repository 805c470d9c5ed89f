----------------------------- MODULE MirrorNode -----------------------------
(***************************************************************************)
(* The reads of the mirror in lib/hedera.ts: pages of a list that only      *)
(* grows, in consensus order, and the recipe that verifies a device-signed  *)
(* transfer.  An element is named by its position, which stands for the     *)
(* sequence number of a topic message and the timestamp of a transaction.   *)
(***************************************************************************)
EXTENDS Integers, Sequences

CONSTANTS
    PageLimit,  \* limit=100
    Attempts    \* how often a verification asks the mirror: 12

ASSUME MirrorAssumption == PageLimit \in Nat \ {0} /\ Attempts \in Nat \ {0}

\* No sequencenumber=gt or timestamp=gt clause is sent.
Page_NoCursor(visible, after) ==
    [i \in 1..(IF visible < PageLimit THEN visible ELSE PageLimit) |-> i]

\* The positions answered to a request for those after a cursor.
Page(visible, after) ==
    [i \in 1..(IF visible - after < PageLimit
               THEN visible - after ELSE PageLimit) |-> after + i]

-----------------------------------------------------------------------------
(* A transfer to the agent's account: the topic its memo names, if any,     *)
(* whether its result is SUCCESS, and whether it debits the account in the  *)
(* record of that topic, whose device signed the arming.                    *)

Transfer(Topics, None) ==
    [topic : Topics \cup {None}, success : BOOLEAN, debited : BOOLEAN]

\* mirrorVerifyTransfer checks the result, the memo and the debit of an account
\* that its caller names.  A request to /api/cancel names the account itself, and
\* nothing compares it with the record's (executors.ts:317-320): whoever paid, it
\* can be named.
Carries(tx, t) == tx.topic = t /\ tx.success

\* The debit is not looked at.
Confirms_AnyPayer(tx, t) == Carries(tx, t)

\* The watcher names the account of the record (cancel-backstop.ts:74).
Confirms(tx, t) == Carries(tx, t) /\ tx.debited

\* Only a transfer the mirror does not answer for is asked for again.
ShouldRetry(answer) == answer = "missing"

\* One attempt too many.
Verdict_OneMore(tx, t, answer, k) ==
    IF ShouldRetry(answer)
    THEN IF k <= Attempts THEN "retry" ELSE "missing"
    ELSE IF Confirms(tx, t) THEN "ok" ELSE "no"

\* What a verification answers after its k-th attempt, if it ends there.
Verdict(tx, t, answer, k) ==
    IF ShouldRetry(answer)
    THEN IF k < Attempts THEN "retry" ELSE "missing"
    ELSE IF Confirms(tx, t) THEN "ok" ELSE "no"
=============================================================================
