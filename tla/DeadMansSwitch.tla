--------------------------- MODULE DeadMansSwitch ---------------------------
(***************************************************************************)
(* One switch of the dead man's switch service, end to end: the arm,       *)
(* check-in and cancel executors that serve HTTP requests in the web       *)
(* process, the watcher process that reacts to a fired schedule and to     *)
(* device-signed cancels, the record the two processes share on disk, and  *)
(* the Hedera network that holds the schedules and the audit topic.        *)
(*                                                                         *)
(* Every await of the code is a point where the other process, a request,  *)
(* the network or the clock may move, so every external call is an action  *)
(* of its own.  What the code does between two awaits is one action.       *)
(*                                                                         *)
(* Time is counted in the unit of the deadlines, the millisecond; the      *)
(* network expires schedules on whole seconds.  The flags that gate the    *)
(* mirror and World verification are on, their default.                    *)
(***************************************************************************)
EXTENDS Integers, Sequences, FiniteSets

CONSTANTS
    N,          \* policy.terms.n, the number of rungs of the ladder
    Deadline,   \* Deadline[i] is ladder[i-1].deadline, as minted at arm time
    Second,     \* the network's second, in the unit of the deadlines
    Requests,   \* check-in and cancel HTTP requests, a retry is a new request
    Arm,        \* the arm HTTP request
    Watcher,    \* the one pass the watcher process runs at a time
    NoSchedule, \* a null scheduleId
    MaxNow,     \* bound on the clock
    MaxFaults   \* bound on failed calls, lost answers and process crashes

Makers == Requests \cup {Arm}     \* each creates at most one schedule
Jobs   == Makers \cup {Watcher}
Rungs  == 1..N
Seqs   == 0..N-1

ASSUME BoundsAssumption ==
    /\ N \in Nat \ {0}
    /\ MaxNow \in Nat /\ MaxFaults \in Nat
    /\ Second \in Nat \ {0}
ASSUME DeadlineAssumption ==
    /\ Deadline \in [Rungs -> Nat \ {0}]
    /\ \A i, j \in Rungs : i < j => Deadline[i] < Deadline[j]
ASSUME NamesAssumption ==
    /\ Arm \notin Requests
    /\ Watcher \notin Makers
    /\ NoSchedule \notin Jobs

VARIABLES
    \* Hedera and its clock.
    now,        \* consensus time, also what Date.now() returns
    sched,      \* the state of the schedule each maker created, if any
    schedSeq,   \* the seq of the RELEASE_AUTHORIZED message it carries
    expiry,     \* when it expires and executes
    log,        \* the messages of the audit topic, in consensus order
    cancelTx,   \* a device-signed transfer with the cancel memo is on chain
    paid,       \* bounties paid out
    \* The file data/switches/{topicId}.json.
    disk,
    \* The web process and the watcher process.
    pc,         \* where each job stands
    req,        \* what it was asked to do
    mem,        \* the record withLock loaded for it
    chain,      \* the web process's promise chain for this topic
    cursor,     \* the watcher's last handled topic message
    scanned,    \* the watcher's cancel cursor is past the cancel transfer
    \* What the environment did to them so far.
    faults

chainVars   == <<sched, schedSeq, expiry, log, paid>>
netVars     == <<now, cancelTx>>
procVars    == <<pc, req, mem, chain>>
watcherVars == <<cursor, scanned>>
vars == <<now, sched, schedSeq, expiry, log, cancelTx, paid, disk, pc, req,
          mem, chain, cursor, scanned, faults>>

-----------------------------------------------------------------------------
(* The record, the topic messages and the requests.                        *)

\* The fields of Switch that steer the executors.  capsules holds the rungs
\* whose capsuleB64 is not shredded; releasedSeq and published stand for the
\* optional field "released".  releaseNonce is never read: left out.
SwitchRecord ==
    [status : {"NONE", "ACTIVE", "RELEASED", "CANCELLED"},
     liveIdx : 0..N, seq : Seqs, currentDeadline : Nat,
     scheduleId : Makers \cup {NoSchedule}, capsules : SUBSET Rungs,
     releasedSeq : Seqs \cup {-1}, published : BOOLEAN]

\* load() of a topic without a file.
NoSwitch ==
    [status |-> "NONE", liveIdx |-> 0, seq |-> 0, currentDeadline |-> 0,
     scheduleId |-> NoSchedule, capsules |-> {}, releasedSeq |-> -1,
     published |-> FALSE]

\* The record arm persists.
Armed ==
    [status |-> "ACTIVE", liveIdx |-> 1, seq |-> 0,
     currentDeadline |-> Deadline[1], scheduleId |-> Arm, capsules |-> Rungs,
     releasedSeq |-> -1, published |-> FALSE]

\* The deadline a check-in from the record r moves to: that of the next rung.
NewDeadline_Current(r) == Deadline[r.liveIdx]
NewDeadline(r) == Deadline[r.liveIdx + 1]

\* What a successful check-in, run by job j, makes of the record r.
CheckedIn_SeqAdded(r, j) ==
    [r EXCEPT !.capsules = @ \ {r.liveIdx}, !.liveIdx = r.liveIdx + 1,
              !.seq = @ + r.liveIdx, !.currentDeadline = NewDeadline(r),
              !.scheduleId = j]
CheckedIn_OldSchedule(r, j) ==
    [r EXCEPT !.capsules = @ \ {r.liveIdx}, !.liveIdx = r.liveIdx + 1,
              !.seq = r.liveIdx, !.currentDeadline = NewDeadline(r)]
CheckedIn(r, j) ==
    [r EXCEPT !.capsules = @ \ {r.liveIdx}, !.liveIdx = r.liveIdx + 1,
              !.seq = r.liveIdx, !.currentDeadline = NewDeadline(r),
              !.scheduleId = j]

\* What a successful cancel makes of it: the whole ladder is shredded.
Cancelled_StillActive(r) ==
    [r EXCEPT !.scheduleId = NoSchedule, !.capsules = {}]
Cancelled(r) ==
    [r EXCEPT !.status = "CANCELLED", !.scheduleId = NoSchedule,
              !.capsules = {}]

\* What the release reaction to RELEASE_AUTHORIZED{q} makes of it.
Released(r, q) ==
    [r EXCEPT !.status = "RELEASED", !.scheduleId = NoSchedule,
              !.releasedSeq = q, !.published = (q + 1 \in r.capsules)]

EventTypes == {"ARMED", "CHECKIN_VERIFIED", "CANCELLED", "RELEASE_AUTHORIZED",
               "CAPSULE_PUBLISHED", "BULLETIN"}
Event == [type : EventTypes, seq : Seqs]
Msg(t, q) == [type |-> t, seq |-> q]
Posted(t, q) == \E p \in 1..Len(log) : log[p] = Msg(t, q)

\* A check-in carries the seq its sender saw and the signal its World proof is
\* bound to.  A signal commits to the seq it advances to, and is modelled by
\* that seq; a replayed or mistaken proof carries another one.
Request == [kind : {"none", "checkin", "cancel", "release"},
            seq : Seqs, signal : 0..N]
NoRequest == [kind |-> "none", seq |-> 0, signal |-> 0]

PCs == {"idle", "queued", "verify", "schedule", "delete", "submit", "commit",
        "reject", "publish", "bounty", "bulletin", "ok", "rejected", "threw"}
Finished == {"ok", "rejected", "threw"}

TypeOK ==
    /\ now \in Nat
    /\ sched \in [Makers -> {"none", "pending", "deleted", "executed"}]
    /\ schedSeq \in [Makers -> Seqs]
    /\ expiry \in [Makers -> Nat]
    /\ log \in Seq(Event)
    /\ cancelTx \in BOOLEAN
    /\ paid \in Nat
    /\ disk \in SwitchRecord
    /\ pc \in [Jobs -> PCs]
    /\ req \in [Jobs -> Request]
    /\ mem \in [Jobs -> SwitchRecord]
    /\ chain \in Seq(Makers)
    /\ cursor \in Nat
    /\ scanned \in BOOLEAN
    /\ faults \in Nat

Init ==
    /\ now = 0
    /\ sched = [m \in Makers |-> "none"]
    /\ schedSeq = [m \in Makers |-> 0]
    /\ expiry = [m \in Makers |-> 0]
    /\ log = <<>>
    /\ cancelTx = FALSE
    /\ paid = 0
    /\ disk = NoSwitch
    /\ pc = [j \in Jobs |-> "idle"]
    /\ req = [j \in Jobs |-> NoRequest]
    /\ mem = [j \in Jobs |-> NoSwitch]
    /\ chain = <<>>
    /\ cursor = 0
    /\ scanned = FALSE
    /\ faults = 0

-----------------------------------------------------------------------------
(* How a step of a job ends.                                               *)

\* An external call that answers, and one that fails or loses its answer.
Healthy == UNCHANGED faults
Fault == faults < MaxFaults /\ faults' = faults + 1

GoTo(j, next) ==
    /\ pc' = [pc EXCEPT ![j] = next]
    /\ UNCHANGED <<req, mem, chain>>

\* The promise of withLock settles: the web process runs the next request
\* queued on the topic, the watcher goes on with its pass.
Leave(j, result) ==
    /\ mem' = [mem EXCEPT ![j] = NoSwitch]
    /\ \/ /\ j = Watcher
          /\ pc' = [pc EXCEPT ![j] = "idle"]
          /\ req' = [req EXCEPT ![j] = NoRequest]
          /\ UNCHANGED chain
       \/ /\ j # Watcher
          /\ pc' = [pc EXCEPT ![j] = result]
          /\ chain' = Tail(chain)
          /\ UNCHANGED req

\* The mutator throws: nothing is saved, what was done on chain stays.
Throw(j) == Fault /\ Leave(j, "threw")

\* A job whose withLock callback may run now.
Runs(j) == j = Watcher \/ (chain # <<>> /\ Head(chain) = j)

Emit(t, q) == log' = Append(log, Msg(t, q))

\* The deadline in whole seconds, rounded down.
WholeSecond(t) == t - (t % Second)

\* scheduleRelease: the network refuses an expiry that is not in the future.
ScheduleRelease(m, q, deadline) ==
    /\ now < WholeSecond(deadline)
    /\ sched' = [sched EXCEPT ![m] = "pending"]
    /\ schedSeq' = [schedSeq EXCEPT ![m] = q]
    /\ expiry' = [expiry EXCEPT ![m] = WholeSecond(deadline)]

-----------------------------------------------------------------------------
(* arm: createTopic, ARMED and the first schedule, all outside the lock,   *)
(* then one save inside it.                                                *)

\* The policy hash and the arm transfer are checked, the topic is created.
ArmBegin ==
    /\ pc[Arm] = "idle"
    /\ \/ GoTo(Arm, "submit") /\ Healthy
       \/ GoTo(Arm, "rejected") /\ Healthy
       \/ GoTo(Arm, "threw") /\ Fault
    /\ UNCHANGED <<chainVars, netVars, disk, watcherVars>>

ArmSubmit ==
    /\ pc[Arm] = "submit"
    /\ \/ /\ Emit("ARMED", 0)
          /\ \/ GoTo(Arm, "schedule") /\ Healthy
             \/ GoTo(Arm, "threw") /\ Fault
       \/ UNCHANGED log /\ GoTo(Arm, "threw") /\ Fault
    /\ UNCHANGED <<sched, schedSeq, expiry, paid, netVars, disk, watcherVars>>

ArmSchedule ==
    /\ pc[Arm] = "schedule"
    /\ \/ /\ ScheduleRelease(Arm, 0, Deadline[1])
          /\ \/ /\ pc' = [pc EXCEPT ![Arm] = "queued"]
                /\ chain' = Append(chain, Arm)
                /\ Healthy
                /\ UNCHANGED <<req, mem>>
             \/ GoTo(Arm, "threw") /\ Fault
       \/ /\ UNCHANGED <<sched, schedSeq, expiry>>
          /\ GoTo(Arm, "threw")
          /\ \/ now >= WholeSecond(Deadline[1]) /\ Healthy
             \/ Fault
    /\ UNCHANGED <<log, paid, netVars, disk, watcherVars>>

ArmPersist ==
    /\ pc[Arm] = "queued" /\ Runs(Arm)
    /\ \/ disk' = Armed /\ Leave(Arm, "ok") /\ Healthy
       \/ UNCHANGED disk /\ Throw(Arm)
    /\ UNCHANGED <<chainVars, netVars, watcherVars>>

-----------------------------------------------------------------------------
(* checkin and cancel: everything runs inside withLock.                    *)

\* The seq comes from a view that may be stale, the signal from a proof that
\* may be another one's.
Inputs ==
    {[kind |-> "cancel", seq |-> 0, signal |-> 0]} \cup
    {[kind |-> "checkin", seq |-> q, signal |-> s] : q \in Seqs, s \in 0..N}

\* A client posts to /api/checkin or /api/cancel once the arm has answered;
\* withLock queues it on the topic's chain.
Post(j) ==
    /\ pc[j] = "idle"
    /\ pc[Arm] \in Finished
    /\ pc' = [pc EXCEPT ![j] = "queued"]
    /\ \E i \in Inputs :
          /\ i.signal \in {0, i.seq + 1}
          /\ req' = [req EXCEPT ![j] = i]
    /\ chain' = Append(chain, j)
    /\ UNCHANGED <<mem, chainVars, netVars, disk, watcherVars, faults>>

\* NOT_FOUND, NOT_ACTIVE, STALE_SEQ, LADDER_EXHAUSTED and the one check-in per
\* period rule.
CheckinAllowed_AnyTime(r, q) ==
    r.status = "ACTIVE" /\ q = r.seq /\ r.liveIdx < N
CheckinAllowed(r, q) ==
    /\ r.status = "ACTIVE"
    /\ q = r.seq
    /\ r.liveIdx < N
    /\ r.liveIdx > 1 => now >= Deadline[r.liveIdx - 1]

CancelAllowed(r) == r.status = "ACTIVE"

\* load() and the guards up to the first await of the executor.
Load(j) ==
    /\ pc[j] = "queued" /\ Runs(j)
    /\ mem' = [mem EXCEPT ![j] = disk]
    /\ \E passes \in BOOLEAN :
          /\ \/ /\ req[j].kind = "checkin"
                /\ passes = CheckinAllowed(disk, req[j].seq)
             \/ /\ req[j].kind = "cancel"
                /\ passes = CancelAllowed(disk)
          /\ pc' = [pc EXCEPT ![j] = IF passes THEN "verify" ELSE "reject"]
    /\ UNCHANGED <<req, chain, chainVars, netVars, disk, watcherVars,
                   faults>>

\* World accepts the proof or not; the signal must bind the next rung.
VerifyCheckin(j) ==
    /\ pc[j] = "verify" /\ req[j].kind = "checkin"
    /\ \/ /\ req[j].signal = mem[j].liveIdx
          /\ GoTo(j, "schedule") /\ Healthy
       \/ GoTo(j, "reject") /\ Healthy
       \/ Throw(j)
    /\ UNCHANGED <<chainVars, netVars, disk, watcherVars>>

\* The mirror confirms the cancel transfer, which it can do only when there is
\* one.  A client may post the id of another transaction; the watcher names the
\* transfer it saw, and only an outage outlasting the retries rejects it.
VerifyCancel(j) ==
    /\ pc[j] = "verify" /\ req[j].kind = "cancel"
    /\ \/ cancelTx /\ GoTo(j, "delete") /\ Healthy
       \/ j # Watcher /\ GoTo(j, "reject") /\ Healthy
       \/ GoTo(j, "reject") /\ Fault
    /\ UNCHANGED <<chainVars, netVars, disk, watcherVars>>

\* A refused schedule and an old schedule that is gone end the executor.
ScheduleRefused_Ignored(j) == Healthy /\ GoTo(j, "delete")
ScheduleRefused(j) == Healthy /\ Leave(j, "threw")

AfterCreate_KeepOld(r) == "submit"
AfterCreate(r) == IF r.scheduleId = NoSchedule THEN "submit" ELSE "delete"

\* The check-in creates the new schedule before it deletes the old one.
CreateSchedule(j) ==
    /\ pc[j] = "schedule"
    /\ j \in Requests
    /\ LET deadline == NewDeadline(mem[j])
       IN \/ /\ ScheduleRelease(j, mem[j].liveIdx, deadline)
             /\ \/ GoTo(j, AfterCreate(mem[j])) /\ Healthy
                \/ Throw(j)
          \/ /\ UNCHANGED <<sched, schedSeq, expiry>>
             /\ \/ now >= WholeSecond(deadline) /\ ScheduleRefused(j)
                \/ Throw(j)
    /\ UNCHANGED <<log, paid, netVars, disk, watcherVars>>

\* deleteSchedule throws when the schedule was executed or deleted before.
ScheduleGone_Ignored(j) == Healthy /\ GoTo(j, "submit")
ScheduleGone(j) == Healthy /\ Leave(j, "threw")

DeleteSchedule(j) ==
    /\ pc[j] = "delete"
    /\ LET old == mem[j].scheduleId
       IN \/ /\ sched[old] = "pending"
             /\ sched' = [sched EXCEPT ![old] = "deleted"]
             /\ \/ GoTo(j, "submit") /\ Healthy
                \/ Throw(j)
          \/ /\ UNCHANGED sched
             /\ \/ sched[old] # "pending" /\ ScheduleGone(j)
                \/ Throw(j)
    /\ UNCHANGED <<schedSeq, expiry, log, paid, netVars, disk, watcherVars>>

SubmitEvent(j) ==
    /\ pc[j] = "submit" /\ j # Arm
    /\ \/ /\ \/ req[j].kind = "checkin"
                /\ Emit("CHECKIN_VERIFIED", mem[j].liveIdx)
             \/ req[j].kind = "cancel"
                /\ Emit("CANCELLED", 0)
          /\ \/ GoTo(j, "commit") /\ Healthy
             \/ Throw(j)
       \/ UNCHANGED log /\ Throw(j)
    /\ UNCHANGED <<sched, schedSeq, expiry, paid, netVars, disk, watcherVars>>

-----------------------------------------------------------------------------
(* withLock's save of the mutator's next, the same for every job.          *)

Updated(j) ==
    CASE req[j].kind = "checkin" -> CheckedIn(mem[j], j)
      [] req[j].kind = "cancel"  -> Cancelled(mem[j])
      [] req[j].kind = "release" -> Released(mem[j], req[j].seq)

\* The watcher is done with the message or the cancel transfer it handled.
Advance(j) ==
    /\ cursor' = IF j = Watcher /\ req[j].kind = "release"
                 THEN cursor + 1 ELSE cursor
    /\ scanned' = (scanned \/ (j = Watcher /\ req[j].kind = "cancel"))

\* An executor that went through saves the updated record.
Commit(j) ==
    /\ pc[j] = "commit"
    /\ \/ disk' = Updated(j) /\ Leave(j, "ok") /\ Advance(j) /\ Healthy
       \/ UNCHANGED <<disk, watcherVars>> /\ Throw(j)
    /\ UNCHANGED <<chainVars, netVars>>

\* One that rejected returns next: current, which withLock saves as well: the
\* record it loaded replaces whatever the file holds by now.
Reject(j) ==
    /\ pc[j] = "reject"
    /\ \/ disk' = mem[j] /\ Leave(j, "rejected") /\ Advance(j) /\ Healthy
       \/ UNCHANGED <<disk, watcherVars>> /\ Throw(j)
    /\ UNCHANGED <<chainVars, netVars>>

-----------------------------------------------------------------------------
(* The watcher: each tick first polls the topics, then scans for cancels.  *)

\* A topic message the mirror shows: any but RELEASE_AUTHORIZED is passed over.
PollSkip ==
    /\ pc[Watcher] = "idle"
    /\ disk # NoSwitch
    /\ cursor < Len(log)
    /\ log[cursor + 1].type # "RELEASE_AUTHORIZED"
    /\ cursor' = cursor + 1
    /\ UNCHANGED <<chainVars, netVars, disk, procVars, scanned, faults>>

\* Released for this very seq already: nothing is posted, the record loaded is
\* saved back.  Otherwise rung seq+1 is released, whatever the status.
PollRelease ==
    /\ pc[Watcher] = "idle"
    /\ disk # NoSwitch
    /\ cursor < Len(log)
    /\ LET m == log[cursor + 1]
       IN /\ m.type = "RELEASE_AUTHORIZED"
          /\ req' = [req EXCEPT ![Watcher] =
                        [kind |-> "release", seq |-> m.seq, signal |-> 0]]
          /\ pc' = [pc EXCEPT ![Watcher] =
                IF disk.status = "RELEASED" /\ disk.releasedSeq = m.seq
                THEN "reject"
                ELSE IF m.seq + 1 \in disk.capsules THEN "publish"
                ELSE "bounty"]
    /\ mem' = [mem EXCEPT ![Watcher] = disk]
    /\ UNCHANGED <<chain, chainVars, netVars, disk, watcherVars, faults>>

\* The rung that is published is the one that fired, not the live one.
FiredSeq_Live == mem[Watcher].seq
FiredSeq == req[Watcher].seq

PublishCapsule ==
    /\ pc[Watcher] = "publish"
    /\ \/ /\ Emit("CAPSULE_PUBLISHED", FiredSeq)
          /\ \/ GoTo(Watcher, "bounty") /\ Healthy
             \/ Throw(Watcher)
       \/ UNCHANGED log /\ Throw(Watcher)
    /\ UNCHANGED <<sched, schedSeq, expiry, paid, netVars, disk, watcherVars>>

\* Best effort: a failed payout is swallowed.
PayBounty ==
    /\ pc[Watcher] = "bounty"
    /\ GoTo(Watcher, "bulletin")
    /\ \/ paid' = paid + 1 /\ Healthy
       \/ paid' \in {paid, paid + 1} /\ Fault
    /\ UNCHANGED <<sched, schedSeq, expiry, log, netVars, disk, watcherVars>>

\* A bulletin that cannot be posted fails the release: the message is polled
\* again in the next tick.
BulletinFailed_Ignored == Fault /\ GoTo(Watcher, "commit")
BulletinFailed == Throw(Watcher)

PostBulletin ==
    /\ pc[Watcher] = "bulletin"
    /\ \/ /\ Emit("BULLETIN", req[Watcher].seq)
          /\ \/ GoTo(Watcher, "commit") /\ Healthy
             \/ BulletinFailed
       \/ UNCHANGED log /\ BulletinFailed
    /\ UNCHANGED <<sched, schedSeq, expiry, paid, netVars, disk, watcherVars>>

\* The backstop loads the record outside the lock; only for an ACTIVE switch
\* does it run the cancel executor, which loads it again.
ScanCancel ==
    /\ pc[Watcher] = "idle"
    /\ cancelTx /\ ~scanned
    /\ \/ /\ disk.status = "ACTIVE"
          /\ pc' = [pc EXCEPT ![Watcher] = "queued"]
          /\ req' = [req EXCEPT ![Watcher].kind = "cancel"]
          /\ UNCHANGED scanned
       \/ /\ disk.status # "ACTIVE"
          /\ scanned' = TRUE
          /\ UNCHANGED <<pc, req>>
    /\ UNCHANGED <<mem, chain, chainVars, netVars, disk, cursor, faults>>

-----------------------------------------------------------------------------
(* The network, the user and the crashes.                                  *)

Tick ==
    /\ now < MaxNow
    /\ now' = now + 1
    /\ UNCHANGED <<cancelTx, chainVars, disk, procVars, watcherVars,
                   faults>>

\* A schedule that waits for its expiry executes then, unattended.
Fire(m) ==
    /\ sched[m] = "pending"
    /\ now >= expiry[m]
    /\ sched' = [sched EXCEPT ![m] = "executed"]
    /\ Emit("RELEASE_AUTHORIZED", schedSeq[m])
    /\ UNCHANGED <<schedSeq, expiry, paid, netVars, disk, procVars,
                   watcherVars, faults>>

\* The user signs the cancel transfer on the device.
SignCancel ==
    /\ pc[Arm] \in Finished
    /\ ~cancelTx
    /\ cancelTx' = TRUE
    /\ UNCHANGED <<now, chainVars, disk, procVars, watcherVars, faults>>

\* The web process dies: its promise chains are gone, its clients get no
\* answer.
CrashWeb ==
    /\ Fault
    /\ pc' = [j \in Jobs |-> IF j = Watcher \/ pc[j] = "idle"
                                \/ pc[j] \in Finished
                             THEN pc[j] ELSE "threw"]
    /\ mem' = [j \in Jobs |-> IF j = Watcher THEN mem[j] ELSE NoSwitch]
    /\ chain' = <<>>
    /\ UNCHANGED <<req, chainVars, netVars, disk, watcherVars>>

\* The watcher dies and is started again: its topic cursor starts over, its
\* cancel cursor starts at the present.
CrashWatcher ==
    /\ Fault
    /\ pc' = [pc EXCEPT ![Watcher] = "idle"]
    /\ req' = [req EXCEPT ![Watcher] = NoRequest]
    /\ mem' = [mem EXCEPT ![Watcher] = NoSwitch]
    /\ cursor' = 0
    /\ scanned' = cancelTx
    /\ UNCHANGED <<chain, chainVars, netVars, disk>>

-----------------------------------------------------------------------------

Executor(j) ==
    \/ Load(j) \/ VerifyCheckin(j) \/ VerifyCancel(j)
    \/ CreateSchedule(j) \/ DeleteSchedule(j) \/ SubmitEvent(j)
    \/ Commit(j) \/ Reject(j)

ArmStep == ArmBegin \/ ArmSubmit \/ ArmSchedule \/ ArmPersist

Poll == PollSkip \/ PollRelease

WatcherStep ==
    \/ Poll \/ PublishCapsule \/ PayBounty \/ PostBulletin
    \/ ScanCancel \/ Executor(Watcher)

Next ==
    \/ ArmStep
    \/ \E j \in Requests : Post(j) \/ Executor(j)
    \/ WatcherStep
    \/ \E m \in Makers : Fire(m)
    \/ Tick \/ SignCancel
    \/ CrashWeb \/ CrashWatcher

Spec == Init /\ [][Next]_vars

\* The clock advances, an expired schedule executes, and the watcher, which
\* runs forever and polls first in every tick, goes on.  Nothing is assumed of
\* the web process or its clients.
Fairness ==
    /\ WF_vars(Tick)
    /\ \A m \in Makers : WF_vars(Fire(m))
    /\ WF_vars(WatcherStep)
    /\ SF_vars(Poll)
    /\ SF_vars(ScanCancel)

FairSpec == Spec /\ Fairness

-----------------------------------------------------------------------------
(* Properties of every run, with faults, crashes and both processes.       *)

\* An ACTIVE record names its live rung, the capsules from that rung on and no
\* others, the deadline shown to the user, and a schedule that was once created
\* for that very rung and the second of its deadline.
Consistent(r) ==
    r.status = "ACTIVE" =>
        /\ r.liveIdx = r.seq + 1
        /\ r.capsules = r.liveIdx..N
        /\ r.currentDeadline = Deadline[r.liveIdx]
        /\ r.scheduleId # NoSchedule
        /\ sched[r.scheduleId] # "none"
        /\ schedSeq[r.scheduleId] = r.seq
        /\ expiry[r.scheduleId] = WholeSecond(r.currentDeadline)

\* A schedule that will release its rung, or has.
Live(m) == sched[m] \in {"pending", "executed"}

\* An ACTIVE record is consistent, and what it names still counts, whichever
\* executor saved it last, from however old a copy, and whatever failed before:
\* its schedule will fire or has fired, or was deleted by a check-in that had
\* scheduled a later rung (executors.ts:261-291).  Only a signed cancel takes
\* all of them away.
RecordMatchesNetwork ==
    /\ Consistent(disk)
    /\ disk.status = "ACTIVE" /\ ~cancelTx =>
          \/ Live(disk.scheduleId)
          \/ \E m \in Makers : Live(m) /\ schedSeq[m] > disk.seq

\* No rung's capsule and no bulletin is public a whole second before that rung's
\* deadline, or earlier.  The fraction of the deadline's last second is lost: a
\* schedule expires on a whole second (hedera.ts:472).
NoEarlyRelease ==
    \A q \in Seqs :
        Posted("CAPSULE_PUBLISHED", q) \/ Posted("BULLETIN", q) =>
            Deadline[q + 1] - now < Second

\* "A leftover schedule fires; a missing one cannot": as long as the user has
\* not signed a cancel, an ACTIVE record always has a schedule that will fire
\* or one that has fired, whatever failed or crashed on the way.
NeverDisarmed ==
    disk.status = "ACTIVE" /\ ~cancelTx =>
        \/ \E m \in Makers : sched[m] = "pending"
        \/ \E q \in Seqs : Posted("RELEASE_AUTHORIZED", q)

\* The watcher never leaves a fired schedule behind: what its cursor has passed
\* has been announced, and a record marked RELEASED has been announced.
PassedIsAnnounced ==
    /\ \A p \in 1..cursor :
          log[p].type = "RELEASE_AUTHORIZED" => Posted("BULLETIN", log[p].seq)
    /\ disk.status = "RELEASED" => Posted("BULLETIN", disk.releasedSeq)

\* The audit topic keeps the promise of TimelockPromise: check-ins make the
\* rungs live in order, each once, and only fired rungs are opened or announced.
PostedRungs(t) == {q + 1 : q \in {q \in Seqs : Posted(t, q)}}

CheckinCount ==
    Cardinality({p \in 1..Len(log) : log[p].type = "CHECKIN_VERIFIED"})

Promise == INSTANCE TimelockPromise WITH
    live      <- 1 + CheckinCount,
    fired     <- PostedRungs("RELEASE_AUTHORIZED"),
    opened    <- PostedRungs("CAPSULE_PUBLISHED"),
    announced <- PostedRungs("BULLETIN")

KeepsPromise == Promise!Spec

\* At most one check-in per ladder period, whatever fails: with k check-ins on
\* the topic, the first k-1 periods are over.
OneCheckinPerPeriod ==
    CheckinCount <= 1 + Cardinality({i \in Rungs : Deadline[i] <= now})

\* The check-ins that were answered ok.
Accepted(j) == pc[j] = "ok" /\ req[j].kind = "checkin"

\* A check-in that is sent again, because its answer was lost or because it
\* failed half way, is never accepted twice, even from a record that a late
\* save has taken back: each accepted one moved the switch from another rung.
AcceptedOnce ==
    \A i, j \in Requests :
        Accepted(i) /\ Accepted(j) /\ req[i].seq = req[j].seq => i = j

-----------------------------------------------------------------------------
(* Properties as long as no call has failed and no process has crashed: the  *)
(* window between a create and a failed delete leaves an older schedule.    *)

\* What a check-in burned stays secret: no capsule of an earlier rung is public
\* once the check-in is on the topic.
BurnedIsSealed ==
    \A q, b \in Seqs :
        Posted("CHECKIN_VERIFIED", q) /\ Posted("CAPSULE_PUBLISHED", b) =>
            b >= q

\* That holds as long as nothing has failed.
BurnedStaysSecret == faults = 0 => BurnedIsSealed

\* A check-in answered ok has moved the deadline: nothing that could release an
\* earlier rung is left on the network.
ReleaseIsPostponed ==
    \A j \in Requests : Accepted(j) =>
        \A m \in Makers :
            sched[m] \in {"pending", "executed"} => schedSeq[m] > req[j].seq

\* So does that.
AcceptedCheckinPostpones == faults = 0 => ReleaseIsPostponed

-----------------------------------------------------------------------------
(* Liveness, under FairSpec.                                               *)

\* Silence is answered: an armed switch nobody cancels is announced.
SilenceReleases ==
    disk.status = "ACTIVE" ~>
        (cancelTx \/ \E q \in Seqs : Posted("BULLETIN", q))

-----------------------------------------------------------------------------
(* What the code's documents say and the code does not keep.               *)

\* "Publishes EXACTLY the one fired rung": at most one capsule per switch.
ExactlyOneRung ==
    \A p, r \in 1..Len(log) :
        log[p].type = "CAPSULE_PUBLISHED" /\ log[r].type = "CAPSULE_PUBLISHED"
            => p = r

\* A rejected input "must leave the store unchanged".
RejectLeavesStore ==
    [][\A j \in Jobs :
          pc[j] = "reject" /\ pc'[j] # "reject" => disk' = disk]_vars
=============================================================================
