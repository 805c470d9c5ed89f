---------------------------- MODULE WatcherPasses ----------------------------
(***************************************************************************)
(* The watcher process over several switches: release.ts (pollOnce and the  *)
(* reaction), cancel-backstop.ts (scanCancels) and index.ts (tick, the two  *)
(* cursors), reading the mirror page by page.                               *)
(*                                                                         *)
(* DeadMansSwitch has one switch in every detail.  Here a switch is its     *)
(* status and its one schedule, the executors' calls are one step with the  *)
(* points at which it may stop, and the watcher has several topics, pages   *)
(* of messages and transfers, and transfers that are nobody's cancel.       *)
(***************************************************************************)
EXTENDS MirrorNode

CONSTANTS
    Topics,     \* the switches' topics
    Posted,     \* bound: those whose cancel is posted to /api/cancel, at any time
    NoTopic,    \* what parseCancelMemo makes of other memos
    MaxFaults   \* bound: failed calls, late mirror answers, restarts, devices
                \* unplugged, cards closed at the picker

ASSUME TopicsAssumption ==
    NoTopic \notin Topics /\ Posted \subseteq Topics /\ MaxFaults \in Nat

VARIABLES
    rec,        \* the status in the record of a topic; "NONE" before it
    sched,      \* its schedule
    rows,       \* its messages
    txs,        \* the transactions of the agent's account
    at,         \* what the pass is at
    todo,       \* the topics it has still to poll
    polled,     \* the topic it polls
    page,       \* the positions fetched and not handled yet
    cursor,     \* of each topic
    txCursor,   \* cancelCursor
    tries,      \* attempts at verifying the transfer at hand
    lost,       \* transfers a restart or an outage of the mirror skipped
    held,       \* the switch whose record a web cancel has loaded, if any
    faults

netVars   == <<rec, sched, rows, txs>>
passVars  == <<at, todo, polled, page, cursor, txCursor, tries, lost>>
watchVars == <<netVars, passVars, held, faults>>

\* A message by what the readers of a topic make of it.  An ARMED event is more
\* than 1 KB and comes in chunks, none of which parses; BULLETIN stands for the
\* capsule and the bulletin of a reaction.
Row == {"CHUNK", "RELEASE_AUTHORIZED", "BULLETIN", "CANCELLED"}

Has(s, e) == \E i \in DOMAIN s : s[i] = e

WatchTypes ==
    /\ rec \in [Topics -> {"NONE", "ACTIVE", "RELEASED", "CANCELLED"}]
    /\ sched \in [Topics -> {"none", "pending", "fired", "deleted"}]
    /\ rows \in [Topics -> Seq(Row)]
    /\ txs \in Seq(Transfer(Topics, NoTopic))
    /\ at \in {"idle", "poll", "react", "keep", "transfers", "verify",
              "teardown"}
    /\ todo \subseteq Topics
    /\ polled \in Topics \cup {NoTopic}
    /\ page \in Seq(Nat)
    /\ cursor \in [Topics -> Nat] /\ \A t \in Topics : cursor[t] <= Len(rows[t])
    /\ txCursor \in 0..Len(txs)
    /\ tries \in 0..Attempts - 1
    /\ lost \subseteq 1..Len(txs)
    /\ held \in Topics \cup {NoTopic}
    /\ faults \in 0..MaxFaults

WatchInit ==
    /\ rec = [t \in Topics |-> "NONE"]
    /\ sched = [t \in Topics |-> "none"]
    /\ rows = [t \in Topics |-> <<>>]
    /\ txs = <<>>
    /\ at = "idle" /\ todo = {} /\ polled = NoTopic /\ page = <<>>
    /\ cursor = [t \in Topics |-> 0]
    /\ txCursor = 0 /\ tries = 0 /\ lost = {}
    /\ held = NoTopic
    /\ faults = 0

Healthy == UNCHANGED faults
Fault == faults < MaxFaults /\ faults' = faults + 1

-----------------------------------------------------------------------------
(* What happens to the switches meanwhile.                                  *)

\* arm: the event in chunks, the schedule and the record.
ArmSwitch(t) ==
    /\ rec[t] = "NONE"
    /\ rec' = [rec EXCEPT ![t] = "ACTIVE"]
    /\ sched' = [sched EXCEPT ![t] = "pending"]
    /\ rows' = [rows EXCEPT ![t] = <<"CHUNK", "CHUNK">>]
    /\ UNCHANGED <<txs, passVars, held, faults>>

Fire(t) ==
    /\ sched[t] = "pending"
    /\ sched' = [sched EXCEPT ![t] = "fired"]
    /\ rows' = [rows EXCEPT ![t] = Append(@, "RELEASE_AUTHORIZED")]
    /\ UNCHANGED <<rec, txs, passVars, held, faults>>

\* cancel, from deleteSchedule to the save.
TearsDown(t) ==
    /\ sched[t] = "pending"
    /\ sched' = [sched EXCEPT ![t] = "deleted"]
    /\ rows' = [rows EXCEPT ![t] = Append(@, "CANCELLED")]
    /\ rec' = [rec EXCEPT ![t] = "CANCELLED"]

\* It stops: the schedule is gone already, or a call fails on the way.
StopsHalfway(t) ==
    /\ \/ sched[t] # "pending" /\ Healthy /\ UNCHANGED <<sched, rows>>
       \/ Fault /\ UNCHANGED <<sched, rows>>
       \/ /\ Fault
          /\ sched[t] = "pending"
          /\ sched' = [sched EXCEPT ![t] = "deleted"]
          /\ rows' \in {rows, [rows EXCEPT ![t] = Append(@, "CANCELLED")]}
    /\ UNCHANGED rec

\* Someone posts a transaction to /api/cancel: the executor loads the record and
\* asks the mirror for up to a minute.  One request at a time is a bound.
WebLoads(t) ==
    /\ held = NoTopic
    /\ rec[t] = "ACTIVE"
    /\ held' = t
    /\ UNCHANGED <<netVars, passVars, faults>>

\* The record it loaded is saved by an executor that rejects, whatever the other
\* process has saved by now (store.ts:112-118).
SavesBack(t) ==
    /\ rec' = [rec EXCEPT ![t] = "ACTIVE"]
    /\ UNCHANGED <<sched, rows>>

\* The mirror does not confirm what was posted, or it confirms a transfer with
\* the switch's memo.
WebEnds ==
    /\ held # NoTopic
    /\ \/ SavesBack(held) /\ Healthy
       \/ /\ \E i \in DOMAIN txs : Carries(txs[i], held)
          /\ \/ TearsDown(held) /\ Healthy
             \/ StopsHalfway(held)
    /\ held' = NoTopic
    /\ UNCHANGED <<txs, passVars>>

-----------------------------------------------------------------------------
(* tick: poll, then scan, each with a guard of its own.                     *)

Listed(t) == rec[t] # "NONE"

\* list() names the records in the order of the directory, whatever that is.
FirstOf(S) == CHOOSE t \in S : TRUE

Tick ==
    /\ at = "idle"
    /\ at' = "poll"
    /\ todo' = {t \in Topics : Listed(t)}
    /\ UNCHANGED <<netVars, polled, page, cursor, txCursor, tries, lost, held,
                   faults>>

\* Nothing is left to poll: the scan is next.
PollDone == at = "poll" /\ page = <<>> /\ todo = {}

EndPoll == at' = "poll" /\ todo' = {} /\ polled' = NoTopic /\ page' = <<>>

FetchMessages ==
    /\ at = "poll" /\ page = <<>> /\ todo # {}
    /\ LET t == FirstOf(todo)
       IN /\ \E last \in cursor[t]..Len(rows[t]) :
                /\ IF last = Len(rows[t]) THEN Healthy ELSE Fault
                /\ page' = Page(last, cursor[t])
          /\ polled' = IF page' = <<>> THEN NoTopic ELSE t
          /\ todo' = todo \ {t}
    /\ UNCHANGED <<netVars, at, cursor, txCursor, tries, lost, held>>

\* The fetch throws: the topics after this one are not polled in this pass.
FetchThrows ==
    /\ at = "poll" /\ page = <<>> /\ todo # {}
    /\ Fault
    /\ EndPoll
    /\ UNCHANGED <<netVars, cursor, txCursor, tries, lost, held>>

Reached_WholePage(p) == p[Len(p)]

\* How far a cursor is set once the head of a page is handled.
Reached(p) == Head(p)

\* A restarted watcher reacts to what it finds again.
Answered_Never(t) == FALSE

\* The record is RELEASED, for the one seq there is here.
Answered(t) == rec[t] = "RELEASED"

\* The head of the page is done with.
Handled ==
    /\ cursor' = [cursor EXCEPT ![polled] = Reached(page)]
    /\ page' = Tail(page)
    /\ polled' = IF page' = <<>> THEN NoTopic ELSE polled
    /\ at' = "poll"

\* The record is loaded for a release.  Any other message, and any that does not
\* parse, is passed over.
HandleMessage ==
    /\ at = "poll" /\ page # <<>>
    /\ IF rows[polled][Head(page)] = "RELEASE_AUTHORIZED"
       THEN /\ at' = IF Answered(polled) THEN "keep" ELSE "react"
            /\ UNCHANGED <<polled, page, cursor>>
       ELSE Handled
    /\ UNCHANGED <<netVars, todo, txCursor, tries, lost, held, faults>>

Announce == rows' = [rows EXCEPT ![polled] = Append(@, "BULLETIN")]

\* handleReleaseAuthorized, whatever else the status was, saves RELEASED: anew,
\* or the record as it was loaded.
React ==
    /\ \/ at = "react" /\ Announce
       \/ at = "keep" /\ UNCHANGED rows
    /\ rec' = [rec EXCEPT ![polled] = "RELEASED"]
    /\ Handled
    /\ UNCHANGED <<sched, txs, todo, txCursor, tries, lost, held, faults>>

\* The reaction throws, before or after the bulletin: the pass ends here.
ReactionThrows ==
    /\ \/ at = "react" /\ Announce
       \/ at \in {"react", "keep"} /\ UNCHANGED rows
    /\ Fault
    /\ EndPoll
    /\ UNCHANGED <<rec, sched, txs, cursor, txCursor, tries, lost, held>>

-----------------------------------------------------------------------------
(* scanCancels.                                                             *)

EndScan == at' = "idle" /\ page' = <<>> /\ tries' = 0

FetchTransfers ==
    /\ PollDone
    /\ \E last \in txCursor..Len(txs) :
          /\ IF last = Len(txs) THEN Healthy ELSE Fault
          /\ page' = Page(last, txCursor)
          /\ at' = IF page' = <<>> THEN "idle" ELSE "transfers"
    /\ UNCHANGED <<netVars, todo, polled, cursor, txCursor, tries, lost, held>>

\* The transfer at hand is done with.
Past ==
    /\ txCursor' = Reached(page)
    /\ page' = Tail(page)
    /\ at' = IF page' = <<>> THEN "idle" ELSE "transfers"
    /\ tries' = 0

\* Failed transfers, other memos and topics that are not ACTIVE are passed over.
\* The executor loads the record again: what it finds then decides.  One it finds
\* over it saves as it is, with no call in between, and that is no step here.
InspectTransfer ==
    /\ at = "transfers"
    /\ LET tx == txs[Head(page)]
       IN IF tx.success /\ tx.topic # NoTopic /\ rec[tx.topic] = "ACTIVE"
          THEN at' = "verify" /\ UNCHANGED <<page, txCursor, tries>>
          ELSE Past
    /\ UNCHANGED <<netVars, todo, polled, cursor, lost, held, faults>>

\* The executor asks the mirror again for what it has just listed: only an
\* outage, short or long, makes it answer nothing.  Confirmed or not, it goes on
\* with the ACTIVE record it loaded.
Verify ==
    /\ at = "verify"
    /\ LET tx == txs[Head(page)]
       IN \E answer \in {"row", "missing"} :
          LET v == Verdict(tx, tx.topic, answer, tries + 1)
          IN /\ IF answer = "missing" /\ tries = 0 THEN Fault ELSE Healthy
             /\ \/ /\ v = "retry" /\ tries' = tries + 1
                   /\ UNCHANGED <<at, page, txCursor, rec, sched, rows>>
                \/ /\ v = "ok" /\ at' = "teardown"
                   /\ UNCHANGED <<page, txCursor, tries, rec, sched, rows>>
                \/ v \in {"no", "missing"} /\ SavesBack(tx.topic) /\ Past
             /\ lost' = IF v = "missing" THEN lost \cup {Head(page)} ELSE lost
    /\ UNCHANGED <<txs, todo, polled, cursor, held>>

\* The executor answers, or throws: the cursor stays before the transfer.
Teardown ==
    /\ at = "teardown"
    /\ LET t == txs[Head(page)].topic
       IN \/ TearsDown(t) /\ Past /\ Healthy
          \/ StopsHalfway(t) /\ EndScan /\ UNCHANGED txCursor
    /\ UNCHANGED <<txs, todo, polled, cursor, lost, held>>

\* listAccountTransactions, or load, throws.
ScanThrows ==
    /\ PollDone \/ at = "transfers"
    /\ Fault
    /\ EndScan
    /\ UNCHANGED <<netVars, todo, polled, cursor, txCursor, lost, held>>

\* cancelCursor is seeded with the time the process starts.
SeededAt == Len(txs)

Restart ==
    /\ Fault
    /\ EndScan /\ todo' = {} /\ polled' = NoTopic
    /\ cursor' = [t \in Topics |-> 0]
    /\ txCursor' = SeededAt
    /\ lost' = lost \cup txCursor+1..SeededAt
    /\ UNCHANGED <<netVars, held>>

-----------------------------------------------------------------------------
PassStep ==
    \/ Tick \/ FetchMessages \/ HandleMessage \/ React
    \/ FetchTransfers \/ InspectTransfer \/ Verify \/ Teardown

PassFails == FetchThrows \/ ReactionThrows \/ ScanThrows \/ Restart

World ==
    \/ \E t \in Topics : ArmSwitch(t) \/ Fire(t)
    \/ \E t \in Posted : WebLoads(t)
    \/ WebEnds

-----------------------------------------------------------------------------
(* Properties.                                                              *)

\* What a cursor has passed has been answered, page after page, whatever failed,
\* restarted or was saved by the other process in between: the releases of a
\* topic are announced, and a cancel that no restart and no outage made the
\* watcher skip has stood the switch down, or came too late (release.ts:172-173,
\* cancel-backstop.ts:79-81).
NothingIsSkipped ==
    /\ \A t \in Topics : \A n \in 1..cursor[t] :
          rows[t][n] = "RELEASE_AUTHORIZED" => Has(rows[t], "BULLETIN")
    /\ \A i \in 1..txCursor \ lost, t \in Topics :
          Confirms(txs[i], t) => Has(rows[t], "CANCELLED") \/ sched[t] = "fired"

StoodDown(t) ==
    rec[t] = "CANCELLED" \/ sched[t] = "deleted" \/ Has(rows[t], "CANCELLED")

\* No switch is stood down without a successful transfer on chain that carries
\* its memo, and the watcher stands none down but for a transfer that debits the
\* account whose device armed it.  Who paid for what is posted to /api/cancel is
\* anyone's choice (mirrorVerifyTransfer, hedera.ts:120-175).
CancelIsOnChain ==
    /\ \A t \in Topics :
          StoodDown(t) => \E i \in DOMAIN txs : Carries(txs[i], t)
    /\ at = "teardown" => txs[Head(page)].debited

\* The release of a switch one of whose schedules has fired is final: a watcher
\* that starts over from message 0 announces it no second time, and a cancel that
\* comes after it changes nothing.  What takes the record back is the save of a
\* web cancel that had loaded it before (release.ts:66-76, store.ts:112-118).
\* Where two have fired, as in DeadMansSwitch, a watcher that starts over announces
\* both again: the record names the last seq alone.
ReleaseIsFinal ==
    [][\A t \in Topics : rec[t] = "RELEASED" =>
          /\ rows'[t] = rows[t]
          /\ rec'[t] = "RELEASED" \/ held = t]_watchVars

\* Every switch whose schedule fires is announced, however the pages of its
\* topic fall and whatever topic before it fails (pollOnce, release.ts:155-178).
AllAreReleased ==
    <>[](\A t \in Topics : sched[t] = "fired" => Has(rows[t], "BULLETIN"))

\* A teardown can only fail: the record is ACTIVE, its schedule is gone.
HalfTorn(t) == rec[t] = "ACTIVE" /\ sched[t] \in {"deleted", "fired"}

AllHonored ==
    \A t \in Topics : \A i \in DOMAIN txs \ lost :
        Confirms(txs[i], t) => sched[t] # "pending"

\* A signed cancel takes its switch's schedule away though nobody posts it, as
\* long as no teardown is stuck before it (scanCancels, cancel-backstop.ts:63-85).
SignedIsHonored == <>[]AllHonored \/ []<>(\E t \in Topics : HalfTorn(t))

\* "Leaving the cursor before the failed tx so the next pass retries it (errs
\* toward honoring the user's cancel)": in the end no switch with a signed cancel
\* is still to fire.
CancelsAreHonored == <>[]AllHonored
=============================================================================
