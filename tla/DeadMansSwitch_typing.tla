----------------------- MODULE DeadMansSwitch_typing -----------------------
(***************************************************************************)
(* The type invariant of DeadMansSwitch, proved for every number of rungs, *)
(* every ladder of strictly increasing deadlines, every set of requests    *)
(* and any number of failed calls and crashes.  It is inductive together   *)
(* with where each job can stand (PlaceInv) and with what the guards of a  *)
(* check-in established (AdmittedInv): the executors index the ladder with *)
(* what they loaded, and the web process pops a promise chain.             *)
(***************************************************************************)
EXTENDS DeadMansSwitch, SequenceTheorems, TLAPS

(* The inductive invariant, in named parts.                                *)

\* Where the callback of withLock can stand.
InLock == {"verify", "schedule", "delete", "submit", "commit", "reject"}

\* Which job can stand where, with what request, and that the request that runs
\* is the head of its promise chain.
PlaceInv ==
    /\ pc[Arm] \in {"idle", "submit", "schedule", "queued"} \cup Finished
    /\ \A j \in Requests :
          /\ pc[j] \in {"idle", "queued"} \cup InLock \cup Finished
          /\ pc[j] # "idle" => req[j].kind \in {"checkin", "cancel"}
          /\ pc[j] = "schedule" => req[j].kind = "checkin"
          /\ pc[j] \in InLock => chain # <<>> /\ Head(chain) = j
    /\ pc[Watcher] \in {"idle", "queued", "verify", "delete", "submit",
                        "commit", "reject", "publish", "bounty", "bulletin"}
    /\ pc[Watcher] = "idle" => req[Watcher] = NoRequest
    /\ pc[Watcher] \in {"queued", "verify", "delete", "submit"}
          => req[Watcher].kind = "cancel"
    /\ pc[Watcher] \in {"publish", "bounty", "bulletin"}
          => req[Watcher].kind = "release"
    /\ pc[Watcher] \in {"commit", "reject"}
          => req[Watcher].kind \in {"cancel", "release"}

\* A check-in past its guards loaded an ACTIVE record with a rung to go to.
AdmittedInv ==
    \A j \in Requests :
        req[j].kind = "checkin"
        /\ pc[j] \in {"verify", "schedule", "delete", "submit", "commit"}
            => mem[j].status = "ACTIVE" /\ mem[j].liveIdx < N

TypeInv == TypeOK /\ PlaceInv /\ AdmittedInv

-----------------------------------------------------------------------------
(* Typing, and where the jobs can stand.                                   *)

USE DEF Makers, Jobs, Rungs, Seqs

LEMMA Constants ==
    /\ N \in Nat \ {0} /\ 0 \in Seqs
    /\ Deadline \in [Rungs -> Nat \ {0}]
    /\ Arm \in Makers /\ Watcher \in Jobs /\ Makers \subseteq Jobs
    /\ Arm \notin Requests /\ Watcher \notin Requests /\ Watcher # Arm
    /\ NoSchedule \notin Makers
BY BoundsAssumption, DeadlineAssumption, NamesAssumption

\* Rounding a deadline down loses less than a second.
LEMMA SecondsRoundDown ==
    ASSUME NEW t \in Nat
    PROVE  /\ WholeSecond(t) \in Nat
           /\ WholeSecond(t) <= t /\ t < WholeSecond(t) + Second
<1>1. Second \in Nat \ {0}
  BY BoundsAssumption
<1>2. t % Second \in 0..Second - 1
  BY <1>1
<1>3. t % Second <= t
  BY <1>1
<1> QED BY <1>1, <1>2, <1>3 DEF WholeSecond

LEMMA RecordTypes ==
    /\ NoSwitch \in SwitchRecord /\ Armed \in SwitchRecord
    /\ NoRequest \in Request
    /\ \A r \in SwitchRecord, j \in Makers, q \in Seqs :
          /\ r.liveIdx < N => CheckedIn(r, j) \in SwitchRecord
          /\ Cancelled(r) \in SwitchRecord
          /\ Released(r, q) \in SwitchRecord
    /\ \A t \in EventTypes, q \in Seqs : Msg(t, q) \in Event
<1>1. NoSwitch \in SwitchRecord /\ NoRequest \in Request
  BY Constants DEF NoSwitch, SwitchRecord, NoRequest, Request
<1>2. Armed \in SwitchRecord
  BY Constants DEF Armed, SwitchRecord
<1>3. ASSUME NEW r \in SwitchRecord, NEW j \in Makers, r.liveIdx < N
      PROVE  CheckedIn(r, j) \in SwitchRecord
  <2>1. r.liveIdx \in Seqs /\ r.liveIdx + 1 \in 0..N
        /\ Deadline[r.liveIdx + 1] \in Nat
    BY <1>3, Constants DEF SwitchRecord
  <2> DEFINE a == [r EXCEPT !.capsules = @ \ {r.liveIdx}]
             b == [a EXCEPT !.liveIdx = r.liveIdx + 1]
             c == [b EXCEPT !.seq = r.liveIdx]
             d == [c EXCEPT !.currentDeadline = Deadline[r.liveIdx + 1]]
             e == [d EXCEPT !.scheduleId = j]
  <2>2. a \in SwitchRecord
    BY DEF SwitchRecord
  <2>3. b \in SwitchRecord
    <3> HIDE DEF a
    <3> QED BY <2>1, <2>2, Constants DEF SwitchRecord
  <2>4. c \in SwitchRecord
    <3> HIDE DEF b
    <3> QED BY <2>1, <2>3 DEF SwitchRecord
  <2>5. d \in SwitchRecord
    <3> HIDE DEF c
    <3> QED BY <2>1, <2>4 DEF SwitchRecord
  <2>6. e \in SwitchRecord
    <3> HIDE DEF d
    <3> QED BY <2>5 DEF SwitchRecord
  <2> QED BY <2>6 DEF CheckedIn, NewDeadline
<1>4. ASSUME NEW r \in SwitchRecord
      PROVE  Cancelled(r) \in SwitchRecord
  BY Constants DEF Cancelled, SwitchRecord
<1>5. ASSUME NEW r \in SwitchRecord, NEW q \in Seqs
      PROVE  Released(r, q) \in SwitchRecord
  <2> DEFINE a == [r EXCEPT !.status = "RELEASED"]
             b == [a EXCEPT !.scheduleId = NoSchedule]
             c == [b EXCEPT !.releasedSeq = q]
             p == (q + 1 \in r.capsules)
             d == [c EXCEPT !.published = p]
  <2>1. a \in SwitchRecord
    BY DEF SwitchRecord
  <2>2. b \in SwitchRecord
    <3> HIDE DEF a
    <3> QED BY <2>1 DEF SwitchRecord
  <2>3. c \in SwitchRecord
    <3> HIDE DEF b
    <3> QED BY <2>2 DEF SwitchRecord
  <2>4. d \in SwitchRecord
    <3>1. p \in BOOLEAN
      OBVIOUS
    <3> HIDE DEF c, p
    <3> QED BY <2>3, <3>1 DEF SwitchRecord
  <2> QED BY <2>4 DEF Released
<1>6. \A t \in EventTypes, q \in Seqs : Msg(t, q) \in Event
  BY DEF Msg, Event
<1> QED BY <1>1, <1>2, <1>3, <1>4, <1>5, <1>6

\* The log only grows.
LEMMA EmitAppends ==
    ASSUME log \in Seq(Event), NEW t \in EventTypes, NEW s \in Seqs, Emit(t, s)
    PROVE  /\ log' \in Seq(Event)
           /\ Len(log') = Len(log) + 1
           /\ \A p \in 1..Len(log) : log'[p] = log[p]
           /\ log'[Len(log) + 1] = Msg(t, s)
<1>1. Msg(t, s) \in Event
  BY RecordTypes
<1> QED BY <1>1, AppendProperties DEF Emit

LEMMA TypeInvInit == Init => TypeInv
<1> SUFFICES ASSUME Init PROVE TypeInv
  OBVIOUS
<1>1. TypeOK
  <2>1. log \in Seq(Event) /\ chain \in Seq(Makers)
    BY DEF Init
  <2>2. disk \in SwitchRecord /\ mem \in [Jobs -> SwitchRecord]
        /\ req \in [Jobs -> Request]
    BY RecordTypes DEF Init
  <2> QED BY <2>1, <2>2, Constants DEF Init, TypeOK, PCs
<1>2. PlaceInv
  BY Constants, RecordTypes DEF Init, PlaceInv, InLock
<1>3. AdmittedInv
  BY Constants, RecordTypes DEF Init, AdmittedInv
<1> QED BY <1>1, <1>2, <1>3 DEF TypeInv

\* TypeOK, split into what the jobs hold and the rest.
ProcTypeOK ==
    /\ pc \in [Jobs -> PCs]
    /\ req \in [Jobs -> Request]
    /\ mem \in [Jobs -> SwitchRecord]
    /\ chain \in Seq(Makers)
NetTypeOK ==
    /\ now \in Nat
    /\ sched \in [Makers -> {"none", "pending", "deleted", "executed"}]
    /\ schedSeq \in [Makers -> Seqs]
    /\ expiry \in [Makers -> Nat]
    /\ log \in Seq(Event)
    /\ cancelTx \in BOOLEAN
    /\ paid \in Nat
    /\ disk \in SwitchRecord
    /\ cursor \in Nat
    /\ scanned \in BOOLEAN
    /\ faults \in Nat

LEMMA TypeParts == TypeOK <=> ProcTypeOK /\ NetTypeOK
BY DEF TypeOK, ProcTypeOK, NetTypeOK

LEMMA GoToKeepsTypes ==
    ASSUME ProcTypeOK, NEW j \in Jobs, NEW next \in PCs, GoTo(j, next)
    PROVE  ProcTypeOK'
BY DEF ProcTypeOK, GoTo

LEMMA LeaveKeepsTypes ==
    ASSUME ProcTypeOK, NEW j \in Jobs, NEW result \in Finished,
           Leave(j, result), j # Watcher => chain # <<>>
    PROVE  ProcTypeOK'
<1>1. chain # <<>> => Tail(chain) \in Seq(Makers)
  BY HeadTailProperties DEF ProcTypeOK
<1> QED
  BY <1>1, RecordTypes DEF ProcTypeOK, Leave, Finished, PCs

\* A request that queues up does not change whose turn it is.
LEMMA QueueKeepsHead ==
    ASSUME chain \in Seq(Makers), NEW j \in Makers, chain' = Append(chain, j)
    PROVE  /\ chain' \in Seq(Makers)
           /\ chain # <<>> => chain' # <<>> /\ Head(chain') = Head(chain)
<1>1. chain' \in Seq(Makers) /\ Len(chain') = Len(chain) + 1
      /\ \A i \in 1..Len(chain) : chain'[i] = chain[i]
  BY AppendProperties
<1>2. chain # <<>> => Len(chain) > 0
  BY EmptySeq
<1>3. chain' # <<>>
  BY <1>1
<1> QED BY <1>1, <1>2, <1>3

LEMMA AdvanceTypes ==
    ASSUME cursor \in Nat, scanned \in BOOLEAN, NEW j, Advance(j)
    PROVE  cursor' \in Nat /\ scanned' \in BOOLEAN
<1>1. cursor' \in Nat
  BY DEF Advance
<1>2. scanned' \in BOOLEAN
  BY Zenon DEF Advance
<1> QED BY <1>1, <1>2

LEMMA ReleaseTypes ==
    ASSUME NetTypeOK, NEW m \in Makers, NEW q \in Seqs, NEW d \in Nat,
           ScheduleRelease(m, q, d)
    PROVE  /\ sched' \in [Makers -> {"none", "pending", "deleted", "executed"}]
           /\ schedSeq' \in [Makers -> Seqs]
           /\ expiry' \in [Makers -> Nat]
BY SecondsRoundDown DEF NetTypeOK, ScheduleRelease

LEMMA ArmKeepsType ==
    ASSUME TypeInv, ArmStep
    PROVE  TypeInv'
<1> USE Constants, TypeParts DEF TypeInv, GoTo, Healthy, Fault, chainVars,
        netVars, procVars, watcherVars, InLock, Finished
<1>1. CASE ArmBegin
  <2>1. NetTypeOK'
    BY <1>1 DEF ArmBegin, NetTypeOK
  <2>2. ProcTypeOK'
    BY <1>1, GoToKeepsTypes DEF ArmBegin, PCs
  <2>3. PlaceInv'
    BY <1>1 DEF ArmBegin, ProcTypeOK, PlaceInv
  <2>4. AdmittedInv'
    BY <1>1 DEF ArmBegin, ProcTypeOK, PlaceInv, AdmittedInv
  <2> QED BY <2>1, <2>2, <2>3, <2>4 DEF TypeOK, ProcTypeOK, NetTypeOK
<1>2. CASE ArmSubmit
  <2>1. NetTypeOK'
    BY <1>2, EmitAppends, SMTT(30) DEF ArmSubmit, EventTypes, NetTypeOK
  <2>2. ProcTypeOK'
    BY <1>2, GoToKeepsTypes DEF ArmSubmit, PCs
  <2>3. PlaceInv'
    BY <1>2 DEF ArmSubmit, ProcTypeOK, PlaceInv
  <2>4. AdmittedInv'
    BY <1>2 DEF ArmSubmit, ProcTypeOK, PlaceInv, AdmittedInv
  <2> QED BY <2>1, <2>2, <2>3, <2>4 DEF TypeOK, ProcTypeOK, NetTypeOK
<1>3. CASE ArmSchedule
  <2>1. NetTypeOK'
    <3>1. CASE ScheduleRelease(Arm, 0, Deadline[1])
      <4>1. Deadline[1] \in Nat
        OBVIOUS
      <4>2. UNCHANGED <<log, paid, now, cancelTx, disk, cursor, scanned>>
            /\ (Healthy \/ Fault)
        BY <1>3 DEF ArmSchedule
      <4>3. /\ sched' \in [Makers -> {"none", "pending", "deleted", "executed"}]
            /\ schedSeq' \in [Makers -> Seqs] /\ expiry' \in [Makers -> Nat]
        <5> HIDE DEF TypeInv
        <5> QED BY <3>1, <4>1, ReleaseTypes DEF TypeInv
      <4> QED BY <4>2, <4>3 DEF NetTypeOK
    <3>2. CASE UNCHANGED <<sched, schedSeq, expiry>>
      BY <1>3, <3>2 DEF ArmSchedule, NetTypeOK
    <3> QED BY <1>3, <3>1, <3>2 DEF ArmSchedule
  <2>2. ProcTypeOK'
    BY <1>3, GoToKeepsTypes, QueueKeepsHead DEF ArmSchedule, ProcTypeOK, PCs
  <2>3. PlaceInv'
    BY <1>3, QueueKeepsHead DEF ArmSchedule, ScheduleRelease, ProcTypeOK,
       PlaceInv
  <2>4. AdmittedInv'
    BY <1>3 DEF ArmSchedule, ScheduleRelease, ProcTypeOK, PlaceInv, AdmittedInv
  <2> QED BY <2>1, <2>2, <2>3, <2>4 DEF TypeOK, ProcTypeOK, NetTypeOK
<1>4. CASE ArmPersist
  <2>1. NetTypeOK'
    BY <1>4, RecordTypes DEF ArmPersist, Leave, Throw, Runs, NetTypeOK
  <2>2. ProcTypeOK'
    BY <1>4, LeaveKeepsTypes DEF ArmPersist, Throw, Runs
  <2>3. PlaceInv'
    BY <1>4 DEF ArmPersist, Leave, Throw, Runs, ProcTypeOK, PlaceInv
  <2>4. AdmittedInv'
    BY <1>4 DEF ArmPersist, Leave, Throw, Runs, ProcTypeOK, PlaceInv,
       AdmittedInv
  <2> QED BY <2>1, <2>2, <2>3, <2>4 DEF TypeOK, ProcTypeOK, NetTypeOK
<1> QED BY <1>1, <1>2, <1>3, <1>4 DEF ArmStep

LEMMA PostKeepsType ==
    ASSUME TypeInv, NEW j \in Requests, Post(j)
    PROVE  TypeInv'
<1> USE Constants, TypeParts DEF TypeInv, GoTo, Healthy, Fault, chainVars,
        netVars, procVars, watcherVars, InLock, Finished
<1>1. CASE Post(j)
  <2>1. NetTypeOK'
    BY <1>1 DEF Post, NetTypeOK
  <2>2. ProcTypeOK'
    BY <1>1, QueueKeepsHead, SMTT(30) DEF Post, Inputs, Request, ProcTypeOK, PCs
  <2>3. PlaceInv'
    BY <1>1, QueueKeepsHead DEF Post, Inputs, ProcTypeOK, PlaceInv
  <2>4. AdmittedInv'
    BY <1>1 DEF Post, Inputs, ProcTypeOK, PlaceInv, AdmittedInv
  <2> QED BY <2>1, <2>2, <2>3, <2>4 DEF TypeOK, ProcTypeOK, NetTypeOK
<1> QED BY <1>1 DEF Post

LEMMA ExecutorKeepsType ==
    ASSUME TypeInv, NEW j \in Requests \cup {Watcher}, Executor(j)
    PROVE  TypeInv'
<1> USE Constants, TypeParts DEF TypeInv, GoTo, Healthy, Fault, chainVars,
        netVars, procVars, watcherVars, InLock, Finished
<1>1. CASE Load(j)
  <2>1. NetTypeOK'
    BY <1>1 DEF Load, Runs, NetTypeOK
  <2>2. ProcTypeOK'
    BY <1>1 DEF Load, ProcTypeOK, NetTypeOK, PCs
  <2>3. PlaceInv'
    BY <1>1 DEF Load, Runs, ProcTypeOK, PlaceInv
  <2>4. AdmittedInv'
    BY <1>1 DEF Load, Runs, CheckinAllowed, ProcTypeOK, PlaceInv, AdmittedInv
  <2> QED BY <2>1, <2>2, <2>3, <2>4 DEF TypeOK, ProcTypeOK, NetTypeOK
<1>2. CASE VerifyCheckin(j)
  <2>1. NetTypeOK'
    BY <1>2 DEF VerifyCheckin, Throw, Leave, NetTypeOK
  <2>2. ProcTypeOK'
    BY <1>2, GoToKeepsTypes, LeaveKeepsTypes DEF VerifyCheckin, Throw,
       PlaceInv, PCs
  <2>3. PlaceInv'
    BY <1>2 DEF VerifyCheckin, Throw, Leave, ProcTypeOK, PlaceInv
  <2>4. AdmittedInv'
    BY <1>2 DEF VerifyCheckin, Throw, Leave, ProcTypeOK, PlaceInv, AdmittedInv
  <2> QED BY <2>1, <2>2, <2>3, <2>4 DEF TypeOK, ProcTypeOK, NetTypeOK
<1>3. CASE VerifyCancel(j)
  <2>1. NetTypeOK'
    BY <1>3 DEF VerifyCancel, NetTypeOK
  <2>2. ProcTypeOK'
    BY <1>3, GoToKeepsTypes DEF VerifyCancel, PCs
  <2>3. PlaceInv'
    BY <1>3 DEF VerifyCancel, ProcTypeOK, PlaceInv
  <2>4. AdmittedInv'
    BY <1>3 DEF VerifyCancel, ProcTypeOK, PlaceInv, AdmittedInv
  <2> QED BY <2>1, <2>2, <2>3, <2>4 DEF TypeOK, ProcTypeOK, NetTypeOK
<1>4. CASE CreateSchedule(j)
  <2>0. mem[j].liveIdx \in Seqs /\ NewDeadline(mem[j]) \in Nat
    BY <1>4 DEF CreateSchedule, NewDeadline, ProcTypeOK, SwitchRecord,
       PlaceInv,
                AdmittedInv
  <2>1. NetTypeOK'
    <3>1. CASE ScheduleRelease(j, mem[j].liveIdx, NewDeadline(mem[j]))
      <4>1. j \in Makers
        BY <1>4 DEF CreateSchedule
      <4>2. UNCHANGED <<log, paid, now, cancelTx, disk, cursor, scanned>>
            /\ (Healthy \/ Fault)
        BY <1>4 DEF CreateSchedule, ScheduleRefused, Throw
      <4>3. sched' \in [Makers -> {"none", "pending", "deleted", "executed"}]
            /\ schedSeq' \in [Makers -> Seqs] /\ expiry' \in [Makers -> Nat]
        BY <2>0, <3>1, <4>1, ReleaseTypes
      <4> QED BY <4>2, <4>3, SMTT(30) DEF NetTypeOK
    <3>2. CASE UNCHANGED <<sched, schedSeq, expiry>>
      BY <1>4, <3>2, SMTT(30)
         DEF CreateSchedule, ScheduleRefused, Throw, NetTypeOK
    <3> QED BY <1>4, <3>1, <3>2 DEF CreateSchedule
  <2>2. ProcTypeOK'
    BY <1>4, GoToKeepsTypes, LeaveKeepsTypes DEF CreateSchedule,
       ScheduleRefused, AfterCreate, Throw, PlaceInv, PCs
  <2>3. PlaceInv'
    BY <1>4, SMTT(30)
       DEF CreateSchedule, ScheduleRelease, ScheduleRefused, AfterCreate,
       Throw, Leave, ProcTypeOK, PlaceInv
  <2>4. AdmittedInv'
    BY <1>4 DEF CreateSchedule, ScheduleRelease, ScheduleRefused, AfterCreate,
       Throw, Leave, ProcTypeOK, PlaceInv, AdmittedInv
  <2> QED BY <2>1, <2>2, <2>3, <2>4 DEF TypeOK, ProcTypeOK, NetTypeOK
<1>5. CASE DeleteSchedule(j)
  <2>1. NetTypeOK'
    BY <1>5, SMTT(30) DEF DeleteSchedule, ScheduleGone, Throw, Leave, NetTypeOK
  <2>2. ProcTypeOK'
    BY <1>5, GoToKeepsTypes, LeaveKeepsTypes DEF DeleteSchedule, ScheduleGone,
       Throw, PlaceInv, PCs
  <2>3. PlaceInv'
    BY <1>5 DEF DeleteSchedule, ScheduleGone, Throw, Leave, ProcTypeOK,
       PlaceInv
  <2>4. AdmittedInv'
    BY <1>5 DEF DeleteSchedule, ScheduleGone, Throw, Leave, ProcTypeOK,
       PlaceInv, AdmittedInv
  <2> QED BY <2>1, <2>2, <2>3, <2>4 DEF TypeOK, ProcTypeOK, NetTypeOK
<1>6. CASE SubmitEvent(j)
  <2>0. req[j].kind = "checkin" => mem[j].liveIdx \in Seqs
    BY <1>6 DEF SubmitEvent, ProcTypeOK, SwitchRecord, PlaceInv, AdmittedInv
  <2>1. NetTypeOK'
    <3>1. log' \in Seq(Event)
      BY <1>6, <2>0, EmitAppends DEF SubmitEvent, NetTypeOK, EventTypes
    <3> QED BY <1>6, <3>1, SMTT(30) DEF SubmitEvent, Throw, NetTypeOK
  <2>2. ProcTypeOK'
    BY <1>6, GoToKeepsTypes, LeaveKeepsTypes DEF SubmitEvent, Throw, PlaceInv,
       PCs
  <2>3. PlaceInv'
    BY <1>6 DEF SubmitEvent, Throw, Leave, ProcTypeOK, PlaceInv
  <2>4. AdmittedInv'
    BY <1>6 DEF SubmitEvent, Throw, Leave, ProcTypeOK, PlaceInv, AdmittedInv
  <2> QED BY <2>1, <2>2, <2>3, <2>4 DEF TypeOK, ProcTypeOK, NetTypeOK
<1>7. CASE Commit(j)
  <2>0. Updated(j) \in SwitchRecord
    <3>1. mem[j] \in SwitchRecord /\ req[j].seq \in Seqs
      BY DEF ProcTypeOK, Request
    <3>2. CASE req[j].kind = "checkin"
      <4>1. j \in Makers /\ mem[j].liveIdx < N
        BY <1>7, <3>2 DEF Commit, PlaceInv, AdmittedInv
      <4> QED BY <3>1, <3>2, <4>1, RecordTypes DEF Updated
    <3>3. CASE req[j].kind = "cancel"
      BY <3>1, <3>3, RecordTypes DEF Updated
    <3>4. CASE req[j].kind = "release"
      BY <3>1, <3>4, RecordTypes DEF Updated
    <3> QED BY <1>7, <3>2, <3>3, <3>4 DEF Commit, PlaceInv
  <2>1. NetTypeOK'
    <3> HIDE DEF Updated
    <3> QED BY <1>7, <2>0, AdvanceTypes, SMTT(30) DEF Commit, Throw, NetTypeOK
  <2>2. ProcTypeOK'
    BY <1>7, LeaveKeepsTypes DEF Commit, Throw, PlaceInv
  <2>3. PlaceInv'
    <3>1. pc[j] = "commit" /\ (Leave(j, "ok") \/ Leave(j, "threw"))
      BY <1>7 DEF Commit, Throw
    <3> QED BY <3>1 DEF Leave, ProcTypeOK, PlaceInv
  <2>4. AdmittedInv'
    BY <1>7 DEF Commit, Throw, Leave, ProcTypeOK, PlaceInv, AdmittedInv
  <2> QED BY <2>1, <2>2, <2>3, <2>4 DEF TypeOK, ProcTypeOK, NetTypeOK
<1>8. CASE Reject(j)
  <2>1. NetTypeOK'
    BY <1>8, AdvanceTypes, SMTT(30) DEF Reject, Throw, ProcTypeOK, NetTypeOK
  <2>2. ProcTypeOK'
    BY <1>8, LeaveKeepsTypes DEF Reject, Throw, PlaceInv
  <2>3. PlaceInv'
    BY <1>8, SMTT(30) DEF Reject, Throw, Leave, ProcTypeOK, PlaceInv
  <2>4. AdmittedInv'
    BY <1>8 DEF Reject, Throw, Leave, ProcTypeOK, PlaceInv, AdmittedInv
  <2> QED BY <2>1, <2>2, <2>3, <2>4 DEF TypeOK, ProcTypeOK, NetTypeOK
<1> QED BY <1>1, <1>2, <1>3, <1>4, <1>5, <1>6, <1>7, <1>8 DEF Executor

LEMMA WatcherKeepsType ==
    ASSUME TypeInv, \/ Poll \/ PublishCapsule \/ PayBounty
                    \/ PostBulletin \/ ScanCancel
    PROVE  TypeInv'
<1> USE Constants, TypeParts DEF TypeInv, GoTo, Healthy, Fault, chainVars,
        netVars, procVars, watcherVars, InLock, Finished
<1>1. CASE PollSkip
  <2>1. NetTypeOK'
    BY <1>1 DEF PollSkip, NetTypeOK
  <2>2. ProcTypeOK'
    BY <1>1 DEF PollSkip, ProcTypeOK
  <2>3. PlaceInv'
    BY <1>1 DEF PollSkip, ProcTypeOK, PlaceInv
  <2>4. AdmittedInv'
    BY <1>1 DEF PollSkip, ProcTypeOK, PlaceInv, AdmittedInv
  <2> QED BY <2>1, <2>2, <2>3, <2>4 DEF TypeOK, ProcTypeOK, NetTypeOK
<1>2. CASE PollRelease
  <2>1. NetTypeOK'
    BY <1>2 DEF PollRelease, NetTypeOK
  <2>2. ProcTypeOK'
    <3>1. log[cursor + 1] \in Event
      BY <1>2, ElementOfSeq DEF PollRelease, NetTypeOK
    <3>2. log[cursor + 1].seq \in Seqs
      BY <3>1 DEF Event
    <3> QED BY <1>2, <3>2, SMTT(30)
               DEF PollRelease, ProcTypeOK, NetTypeOK, PCs, Request
  <2>3. PlaceInv'
    BY <1>2 DEF PollRelease, ProcTypeOK, PlaceInv
  <2>4. AdmittedInv'
    BY <1>2 DEF PollRelease, ProcTypeOK, PlaceInv, AdmittedInv
  <2> QED BY <2>1, <2>2, <2>3, <2>4 DEF TypeOK, ProcTypeOK, NetTypeOK
<1>3. CASE PublishCapsule
  <2>1. NetTypeOK'
    <3>1. req[Watcher].seq \in Seqs
      BY DEF ProcTypeOK, Request
    <3>2. Emit("CAPSULE_PUBLISHED", req[Watcher].seq) => log' \in Seq(Event)
      BY <3>1, EmitAppends DEF NetTypeOK, EventTypes
    <3> QED BY <1>3, <3>2 DEF PublishCapsule, Throw, FiredSeq, NetTypeOK
  <2>2. ProcTypeOK'
    BY <1>3, GoToKeepsTypes, LeaveKeepsTypes DEF PublishCapsule, Throw, PCs
  <2>3. PlaceInv'
    BY <1>3 DEF PublishCapsule, Throw, Leave, ProcTypeOK, PlaceInv
  <2>4. AdmittedInv'
    BY <1>3 DEF PublishCapsule, Throw, Leave, ProcTypeOK, PlaceInv, AdmittedInv
  <2> QED BY <2>1, <2>2, <2>3, <2>4 DEF TypeOK, ProcTypeOK, NetTypeOK
<1>4. CASE PayBounty
  <2>1. NetTypeOK'
    BY <1>4, SMTT(30) DEF PayBounty, NetTypeOK
  <2>2. ProcTypeOK'
    BY <1>4, GoToKeepsTypes DEF PayBounty, PCs
  <2>3. PlaceInv'
    BY <1>4 DEF PayBounty, ProcTypeOK, PlaceInv
  <2>4. AdmittedInv'
    BY <1>4 DEF PayBounty, ProcTypeOK, PlaceInv, AdmittedInv
  <2> QED BY <2>1, <2>2, <2>3, <2>4 DEF TypeOK, ProcTypeOK, NetTypeOK
<1>5. CASE PostBulletin
  <2>1. NetTypeOK'
    <3>1. req[Watcher].seq \in Seqs
      BY DEF ProcTypeOK, Request
    <3>2. Emit("BULLETIN", req[Watcher].seq) => log' \in Seq(Event)
      BY <3>1, EmitAppends DEF NetTypeOK, EventTypes
    <3> QED BY <1>5, <3>2 DEF PostBulletin, BulletinFailed, Throw, NetTypeOK
  <2>2. ProcTypeOK'
    BY <1>5, GoToKeepsTypes, LeaveKeepsTypes DEF PostBulletin, BulletinFailed,
       Throw, PCs
  <2>3. PlaceInv'
    BY <1>5 DEF PostBulletin, BulletinFailed, Throw, Leave, ProcTypeOK,
       PlaceInv
  <2>4. AdmittedInv'
    BY <1>5 DEF PostBulletin, BulletinFailed, Throw, Leave, ProcTypeOK,
       PlaceInv, AdmittedInv
  <2> QED BY <2>1, <2>2, <2>3, <2>4 DEF TypeOK, ProcTypeOK, NetTypeOK
<1>6. CASE ScanCancel
  <2>1. NetTypeOK'
    BY <1>6 DEF ScanCancel, NetTypeOK
  <2>2. ProcTypeOK'
    BY <1>6 DEF ScanCancel, ProcTypeOK, PCs, Request
  <2>3. PlaceInv'
    <3>1. \/ pc' = [pc EXCEPT ![Watcher] = "queued"]
             /\ req'[Watcher].kind = "cancel"
          \/ UNCHANGED <<pc, req>>
      BY <1>6 DEF ScanCancel, ProcTypeOK, Request
    <3>2. \A j \in Jobs : j # Watcher => req'[j] = req[j]
      BY <1>6 DEF ScanCancel, ProcTypeOK
    <3>3. UNCHANGED chain
      BY <1>6 DEF ScanCancel
    <3> QED BY <3>1, <3>2, <3>3 DEF ProcTypeOK, PlaceInv
  <2>4. AdmittedInv'
    BY <1>6 DEF ScanCancel, ProcTypeOK, PlaceInv, AdmittedInv
  <2> QED BY <2>1, <2>2, <2>3, <2>4 DEF TypeOK, ProcTypeOK, NetTypeOK
<1> QED BY <1>1, <1>2, <1>3, <1>4, <1>5, <1>6 DEF Poll

LEMMA NetworkKeepsType ==
    ASSUME TypeInv, (\E m \in Makers : Fire(m)) \/ Tick \/ SignCancel
                     \/ CrashWeb \/ CrashWatcher
    PROVE  TypeInv'
<1> USE Constants, TypeParts DEF TypeInv, GoTo, Healthy, Fault, chainVars,
        netVars, procVars, watcherVars, InLock, Finished
<1>1. CASE \E m \in Makers : Fire(m)
  <2>1. NetTypeOK'
    BY <1>1, EmitAppends DEF Fire, EventTypes, NetTypeOK
  <2>2. ProcTypeOK'
    BY <1>1 DEF Fire, ProcTypeOK
  <2>3. PlaceInv'
    BY <1>1 DEF Fire, ProcTypeOK, PlaceInv
  <2>4. AdmittedInv'
    BY <1>1 DEF Fire, ProcTypeOK, PlaceInv, AdmittedInv
  <2> QED BY <2>1, <2>2, <2>3, <2>4 DEF TypeOK, ProcTypeOK, NetTypeOK
<1>2. CASE Tick
  <2>1. NetTypeOK'
    BY <1>2 DEF Tick, NetTypeOK
  <2>2. ProcTypeOK'
    BY <1>2 DEF Tick, ProcTypeOK
  <2>3. PlaceInv'
    BY <1>2 DEF Tick, ProcTypeOK, PlaceInv
  <2>4. AdmittedInv'
    BY <1>2 DEF Tick, ProcTypeOK, PlaceInv, AdmittedInv
  <2> QED BY <2>1, <2>2, <2>3, <2>4 DEF TypeOK, ProcTypeOK, NetTypeOK
<1>3. CASE SignCancel
  <2>1. NetTypeOK'
    BY <1>3 DEF SignCancel, NetTypeOK
  <2>2. ProcTypeOK'
    BY <1>3 DEF SignCancel, ProcTypeOK
  <2>3. PlaceInv'
    BY <1>3 DEF SignCancel, ProcTypeOK, PlaceInv
  <2>4. AdmittedInv'
    BY <1>3 DEF SignCancel, ProcTypeOK, PlaceInv, AdmittedInv
  <2> QED BY <2>1, <2>2, <2>3, <2>4 DEF TypeOK, ProcTypeOK, NetTypeOK
<1>4. CASE CrashWeb
  <2>1. NetTypeOK'
    BY <1>4 DEF CrashWeb, NetTypeOK
  <2>2. ProcTypeOK'
    BY <1>4, RecordTypes DEF CrashWeb, ProcTypeOK, PCs
  <2>3. PlaceInv'
    BY <1>4 DEF CrashWeb, ProcTypeOK, PlaceInv
  <2>4. AdmittedInv'
    BY <1>4 DEF CrashWeb, ProcTypeOK, PlaceInv, AdmittedInv
  <2> QED BY <2>1, <2>2, <2>3, <2>4 DEF TypeOK, ProcTypeOK, NetTypeOK
<1>5. CASE CrashWatcher
  <2>1. NetTypeOK'
    BY <1>5 DEF CrashWatcher, NetTypeOK
  <2>2. ProcTypeOK'
    BY <1>5, RecordTypes DEF CrashWatcher, ProcTypeOK, PCs
  <2>3. PlaceInv'
    BY <1>5 DEF CrashWatcher, ProcTypeOK, PlaceInv
  <2>4. AdmittedInv'
    BY <1>5 DEF CrashWatcher, ProcTypeOK, PlaceInv, AdmittedInv
  <2> QED BY <2>1, <2>2, <2>3, <2>4 DEF TypeOK, ProcTypeOK, NetTypeOK
<1> QED BY <1>1, <1>2, <1>3, <1>4, <1>5

\* Every variable keeps its type, every job stands where its request can be,
\* and only an admitted check-in gets to the network.
THEOREM TypeCorrect == Spec => []TypeInv
<1>1. TypeInv /\ [Next]_vars => TypeInv'
  <2> SUFFICES ASSUME TypeInv, [Next]_vars PROVE TypeInv'
    OBVIOUS
  <2>1. CASE UNCHANGED vars
    BY <2>1 DEF vars, TypeInv, TypeOK, PlaceInv, AdmittedInv
  <2>2. CASE Next
    BY <2>2, ArmKeepsType, PostKeepsType, ExecutorKeepsType, WatcherKeepsType,
       NetworkKeepsType DEF Next, WatcherStep
  <2> QED BY <2>1, <2>2
<1> QED BY <1>1, TypeInvInit, PTL DEF Spec

\* The type invariant of the runs holds for every value of the constants.
THEOREM Typing == Spec => []TypeOK
BY TypeCorrect, PTL DEF TypeInv


=============================================================================
