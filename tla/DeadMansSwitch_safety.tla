----------------------- MODULE DeadMansSwitch_safety -----------------------
(***************************************************************************)
(* Safety of DeadMansSwitch, proved for every number of rungs, every       *)
(* ladder, every set of requests and any number of failures and crashes.   *)
(***************************************************************************)
EXTENDS DeadMansSwitch_typing

USE DEF Makers, Jobs, Rungs, Seqs

-----------------------------------------------------------------------------
(* Which steps write which variables.                                      *)

LEMMA ScheduleWriters ==
    ASSUME Next
    PROVE  \/ UNCHANGED <<sched, schedSeq, expiry>>
           \/ ArmSchedule
           \/ \E j \in Requests : CreateSchedule(j)
           \/ \E j \in Requests \cup {Watcher} : DeleteSchedule(j)
           \/ \E m \in Makers : Fire(m)
<1> USE DEF chainVars, netVars
<1>1. CASE ArmStep
  BY <1>1 DEF ArmStep, ArmBegin, ArmSubmit, ArmPersist
<1>2. ASSUME NEW j \in Requests, Post(j) PROVE UNCHANGED chainVars
  BY <1>2 DEF Post
<1>3. ASSUME NEW j \in Requests \cup {Watcher}, Executor(j)
      PROVE  \/ UNCHANGED <<sched, schedSeq, expiry>>
             \/ j \in Requests /\ CreateSchedule(j)
             \/ DeleteSchedule(j)
  BY <1>3 DEF Executor, Load, VerifyCheckin, VerifyCancel, CreateSchedule,
              SubmitEvent, Commit, Reject
<1>4. CASE Poll \/ PublishCapsule \/ PayBounty \/ PostBulletin \/ ScanCancel
  BY <1>4 DEF Poll, PollSkip, PollRelease, PublishCapsule, PayBounty,
              PostBulletin, ScanCancel
<1>5. CASE Tick \/ SignCancel \/ CrashWeb \/ CrashWatcher
  BY <1>5 DEF Tick, SignCancel, CrashWeb, CrashWatcher
<1> QED BY <1>1, <1>2, <1>3, <1>4, <1>5 DEF Next, WatcherStep

LEMMA DiskWriters ==
    ASSUME Next
    PROVE  \/ UNCHANGED disk
           \/ disk' = Armed /\ pc[Arm] = "queued" /\ Leave(Arm, "ok")
           \/ \E j \in Requests \cup {Watcher} :
                 Commit(j) /\ disk' = Updated(j) /\ Leave(j, "ok")
           \/ \E j \in Jobs : disk' = mem[j]
<1>1. CASE ArmStep
  BY <1>1 DEF ArmStep, ArmBegin, ArmSubmit, ArmSchedule, ArmPersist
<1>2. ASSUME NEW j \in Requests, Post(j) PROVE UNCHANGED disk
  BY <1>2 DEF Post
<1>3. ASSUME NEW j \in Requests \cup {Watcher}, Executor(j)
      PROVE  \/ UNCHANGED disk
             \/ Commit(j) /\ disk' = Updated(j) /\ Leave(j, "ok")
             \/ disk' = mem[j]
  BY <1>3 DEF Executor, Load, VerifyCheckin, VerifyCancel, CreateSchedule,
              DeleteSchedule, SubmitEvent, Commit, Reject
<1>4. CASE Poll \/ PublishCapsule \/ PayBounty \/ PostBulletin \/ ScanCancel
  BY <1>4 DEF Poll, PollSkip, PollRelease, PublishCapsule, PayBounty,
              PostBulletin, ScanCancel
<1>5. CASE Tick \/ SignCancel \/ CrashWeb \/ CrashWatcher
           \/ \E m \in Makers : Fire(m)
  BY <1>5 DEF Tick, SignCancel, CrashWeb, CrashWatcher, Fire
<1> QED BY <1>1, <1>2, <1>3, <1>4, <1>5 DEF Next, WatcherStep

\* What a job holds in memory is what it held, the file, or nothing.
MemFrom == \A i \in Jobs : mem'[i] \in {mem[i], disk, NoSwitch}

LEMMA MemWriters ==
    ASSUME TypeInv, Next
    PROVE  MemFrom
<1> USE DEF TypeInv, TypeOK, MemFrom, procVars, GoTo, Leave, Throw
<1>1. CASE ArmStep
  BY <1>1 DEF ArmStep, ArmBegin, ArmSubmit, ArmSchedule, ArmPersist
<1>2. ASSUME NEW j \in Requests, Post(j) PROVE UNCHANGED mem
  BY <1>2 DEF Post
<1>3. ASSUME NEW j \in Requests \cup {Watcher}, Executor(j)
      PROVE  MemFrom
  <2>1. \/ UNCHANGED mem \/ mem' = [mem EXCEPT ![j] = NoSwitch]
        \/ mem' = [mem EXCEPT ![j] = disk]
    BY <1>3 DEF Executor, Load, VerifyCheckin, VerifyCancel, CreateSchedule,
              DeleteSchedule, SubmitEvent, Commit, Reject, ScheduleGone,
              ScheduleRefused
  <2> QED BY <2>1
<1>4. CASE Poll \/ PublishCapsule \/ PayBounty \/ PostBulletin \/ ScanCancel
  BY <1>4 DEF Poll, PollSkip, PollRelease, PublishCapsule, PayBounty,
              PostBulletin, ScanCancel, BulletinFailed
<1>5. CASE Tick \/ SignCancel \/ CrashWeb \/ CrashWatcher
           \/ \E m \in Makers : Fire(m)
  BY <1>5 DEF Tick, SignCancel, CrashWeb, CrashWatcher, Fire
<1> QED BY <1>1, <1>2, <1>3, <1>4, <1>5 DEF Next, WatcherStep

-----------------------------------------------------------------------------
(* The record matches the network.                                         *)

\* What the schedules are, and which job has created its own by when.
ScheduleInv ==
    /\ \A m \in Makers :
          sched[m] # "none" => expiry[m] = WholeSecond(Deadline[schedSeq[m] + 1])
    /\ pc[Arm] \in {"idle", "submit", "schedule"} => sched[Arm] = "none"
    /\ pc[Arm] = "queued" => sched[Arm] # "none" /\ schedSeq[Arm] = 0
    /\ \A j \in Requests :
          /\ pc[j] \in {"idle", "queued", "verify", "schedule"}
                => sched[j] = "none"
          /\ req[j].kind = "checkin" /\ pc[j] \in {"delete", "submit", "commit"}
                => sched[j] # "none" /\ schedSeq[j] = mem[j].liveIdx

\* The records in memory are as consistent as the one on disk.
RecordInv == Consistent(disk) /\ \A j \in Jobs : Consistent(mem[j])

\* A schedule, once created, keeps its message and its expiry.
SchedulesKept ==
    \A m \in Makers :
        sched[m] # "none" => /\ sched'[m] # "none"
                             /\ schedSeq'[m] = schedSeq[m]
                             /\ expiry'[m] = expiry[m]

LEMMA SchedulesAreKept ==
    ASSUME TypeInv, ScheduleInv, Next
    PROVE  SchedulesKept
<1> USE DEF TypeInv, TypeOK, SchedulesKept, ScheduleInv
<1>1. CASE UNCHANGED <<sched, schedSeq, expiry>>
  BY <1>1
<1>2. CASE ArmSchedule
  BY <1>2, Constants DEF ArmSchedule, ScheduleRelease
<1>3. ASSUME NEW j \in Requests, CreateSchedule(j) PROVE SchedulesKept
  BY <1>3 DEF CreateSchedule, ScheduleRelease
<1>4. ASSUME NEW j \in Requests \cup {Watcher}, DeleteSchedule(j)
      PROVE  SchedulesKept
  BY <1>4 DEF DeleteSchedule
<1>5. ASSUME NEW m \in Makers, Fire(m) PROVE SchedulesKept
  BY <1>5 DEF Fire
<1> QED BY <1>1, <1>2, <1>3, <1>4, <1>5, ScheduleWriters

\* So a consistent record stays consistent until another one is saved.
LEMMA ConsistentKept ==
    ASSUME SchedulesKept, NEW r \in SwitchRecord, Consistent(r)
    PROVE  r.status = "ACTIVE" =>
              /\ r.liveIdx = r.seq + 1
              /\ r.capsules = r.liveIdx..N
              /\ r.currentDeadline = Deadline[r.liveIdx]
              /\ r.scheduleId # NoSchedule
              /\ sched'[r.scheduleId] # "none"
              /\ schedSeq'[r.scheduleId] = r.seq
              /\ expiry'[r.scheduleId] = WholeSecond(r.currentDeadline)
<1> SUFFICES ASSUME r.status = "ACTIVE"
             PROVE  /\ sched'[r.scheduleId] # "none"
                    /\ schedSeq'[r.scheduleId] = r.seq
                    /\ expiry'[r.scheduleId] = WholeSecond(r.currentDeadline)
  BY DEF Consistent
<1>1. r.scheduleId \in Makers
  BY DEF Consistent, SwitchRecord
<1> QED BY <1>1 DEF Consistent, SchedulesKept

LEMMA ScheduleInvInit == Init => ScheduleInv /\ RecordInv
BY Constants DEF Init, ScheduleInv, RecordInv, Consistent, NoSwitch

LEMMA ScheduleInvStep ==
    ASSUME TypeInv, ScheduleInv, Next
    PROVE  ScheduleInv'
<1> USE Constants DEF TypeInv, TypeOK, ScheduleInv, PlaceInv, GoTo, Leave,
        Throw, chainVars, procVars, InLock, Finished, PCs
<1>1. CASE ArmBegin
  BY <1>1 DEF ArmBegin
<1>2. CASE ArmSubmit
  BY <1>2 DEF ArmSubmit
<1>3. CASE ArmSchedule
  <2>1. pc[Arm] = "schedule" /\ sched[Arm] = "none"
    BY <1>3 DEF ArmSchedule
  <2>2. UNCHANGED <<req, mem>> /\ \E next \in {"queued", "threw"} :
           /\ pc' = [pc EXCEPT ![Arm] = next]
           /\ next = "queued" => ScheduleRelease(Arm, 0, Deadline[1])
    BY <1>3 DEF ArmSchedule
  <2>3. CASE UNCHANGED <<sched, schedSeq, expiry>>
    BY <2>1, <2>2, <2>3 DEF ScheduleRelease
  <2>4. CASE ScheduleRelease(Arm, 0, Deadline[1])
    <3>1. /\ sched' = [sched EXCEPT ![Arm] = "pending"]
          /\ schedSeq' = [schedSeq EXCEPT ![Arm] = 0]
          /\ expiry' = [expiry EXCEPT ![Arm] = WholeSecond(Deadline[1])]
      BY <2>4 DEF ScheduleRelease
    <3> QED BY <2>1, <2>2, <3>1
  <2> QED BY <1>3, <2>3, <2>4 DEF ArmSchedule
<1>4. CASE ArmPersist
  BY <1>4 DEF ArmPersist
<1>5. ASSUME NEW j \in Requests, Post(j) PROVE ScheduleInv'
  BY <1>5 DEF Post
<1>6. ASSUME NEW j \in Requests \cup {Watcher}, Executor(j)
      PROVE  ScheduleInv'
  <2>1. CASE Load(j)
    BY <1>6, <2>1 DEF Load
  <2>2. CASE VerifyCheckin(j)
    BY <1>6, <2>2 DEF VerifyCheckin
  <2>3. CASE VerifyCancel(j)
    BY <1>6, <2>3 DEF VerifyCancel
  <2>4. CASE CreateSchedule(j)
    <3>1. j \in Requests /\ pc[j] = "schedule" /\ sched[j] = "none"
          /\ mem[j].liveIdx \in Nat
      BY <2>4 DEF CreateSchedule, SwitchRecord
    <3>2. UNCHANGED req /\ \E next \in {"delete", "submit", "threw"} :
             /\ pc' = [pc EXCEPT ![j] = next]
             /\ next # "threw" => UNCHANGED mem
                    /\ ScheduleRelease(j, mem[j].liveIdx, NewDeadline(mem[j]))
      BY <2>4, <3>1 DEF CreateSchedule, ScheduleRefused, AfterCreate
    <3>3. \A i \in Jobs : i # j => mem'[i] = mem[i]
      BY <2>4, <3>1 DEF CreateSchedule, ScheduleRefused
    <3>4. CASE UNCHANGED <<sched, schedSeq, expiry>>
      BY <3>1, <3>2, <3>3, <3>4 DEF ScheduleRelease
    <3>5. CASE ScheduleRelease(j, mem[j].liveIdx, NewDeadline(mem[j]))
      <4>1. /\ sched' = [sched EXCEPT ![j] = "pending"]
            /\ schedSeq' = [schedSeq EXCEPT ![j] = mem[j].liveIdx]
            /\ expiry' = [expiry EXCEPT
                  ![j] = WholeSecond(Deadline[mem[j].liveIdx + 1])]
        BY <3>5 DEF ScheduleRelease, NewDeadline
      <4> QED BY <3>1, <3>2, <3>3, <4>1, SMTT(30)
    <3> QED BY <2>4, <3>4, <3>5 DEF CreateSchedule
  <2>5. CASE DeleteSchedule(j)
    BY <1>6, <2>5, SMTT(30) DEF DeleteSchedule, ScheduleGone
  <2>6. CASE SubmitEvent(j)
    BY <1>6, <2>6 DEF SubmitEvent
  <2>7. CASE Commit(j)
    BY <1>6, <2>7, SMTT(30) DEF Commit
  <2>8. CASE Reject(j)
    BY <1>6, <2>8, SMTT(30) DEF Reject
  <2> QED BY <1>6, <2>1, <2>2, <2>3, <2>4, <2>5, <2>6, <2>7, <2>8 DEF Executor
<1>7. CASE PollSkip
  BY <1>7 DEF PollSkip
<1>8. CASE PollRelease
  BY <1>8 DEF PollRelease
<1>9. CASE PublishCapsule
  BY <1>9 DEF PublishCapsule
<1>10. CASE PayBounty
  BY <1>10 DEF PayBounty
<1>11. CASE PostBulletin
  BY <1>11 DEF PostBulletin, BulletinFailed
<1>12. CASE ScanCancel
  BY <1>12 DEF ScanCancel
<1>13. ASSUME NEW m \in Makers, Fire(m) PROVE ScheduleInv'
  BY <1>13 DEF Fire
<1>14. CASE Tick \/ SignCancel
  BY <1>14, SMTT(30) DEF Tick, SignCancel
<1>15. CASE CrashWeb
  BY <1>15 DEF CrashWeb
<1>16. CASE CrashWatcher
  BY <1>16 DEF CrashWatcher
<1> QED
  BY <1>1, <1>2, <1>3, <1>4, <1>5, <1>6, <1>7, <1>8, <1>9, <1>10, <1>11,
     <1>12, <1>13, <1>14, <1>15, <1>16
     DEF Next, ArmStep, WatcherStep, Poll

LEMMA RecordInvStep ==
    ASSUME TypeInv, TypeInv', ScheduleInv, ScheduleInv', RecordInv, Next
    PROVE  RecordInv'
<1>1. SchedulesKept /\ MemFrom
  BY SchedulesAreKept, MemWriters
<1>2. disk \in SwitchRecord /\ \A i \in Jobs : mem[i] \in SwitchRecord
  BY DEF TypeInv, TypeOK
<1>3. ASSUME NEW i \in Jobs PROVE Consistent(mem[i])'
  <2>1. CASE mem'[i] = NoSwitch
    BY <2>1 DEF Consistent, NoSwitch
  <2>2. CASE mem'[i] = mem[i]
    BY <1>1, <1>2, <2>2, ConsistentKept DEF RecordInv, Consistent
  <2>3. CASE mem'[i] = disk
    BY <1>1, <1>2, <2>3, ConsistentKept DEF RecordInv, Consistent
  <2> QED BY <1>1, <2>1, <2>2, <2>3 DEF MemFrom
<1>4. Consistent(disk)'
  <2>1. CASE UNCHANGED disk
    BY <1>1, <1>2, <2>1, ConsistentKept DEF RecordInv, Consistent
  <2>2. CASE disk' = Armed /\ pc[Arm] = "queued"
    BY <1>1, <2>2, Constants
       DEF SchedulesKept, ScheduleInv, Armed, Consistent
  <2>3. ASSUME NEW j \in Requests \cup {Watcher}, Commit(j),
               disk' = Updated(j)
        PROVE  Consistent(disk)'
    <3>1. CASE req[j].kind = "checkin"
      <4>1. j \in Requests /\ pc[j] = "commit" /\ j \in Makers
        BY <2>3, <3>1 DEF Commit, TypeInv, PlaceInv
      <4>2. sched'[j] # "none" /\ schedSeq'[j] = mem[j].liveIdx
            /\ expiry'[j] = WholeSecond(Deadline[mem[j].liveIdx + 1])
        BY <1>1, <3>1, <4>1 DEF SchedulesKept, ScheduleInv
      <4>3. mem[j].status = "ACTIVE" /\ mem[j].liveIdx < N
            /\ mem[j].capsules = mem[j].liveIdx..N
            /\ mem[j].liveIdx \in 0..N
        BY <1>2, <3>1, <4>1 DEF TypeInv, AdmittedInv, RecordInv, Consistent,
                               SwitchRecord
      <4>4. /\ disk'.liveIdx = mem[j].liveIdx + 1
            /\ disk'.seq = mem[j].liveIdx
            /\ disk'.capsules = mem[j].capsules \ {mem[j].liveIdx}
            /\ disk'.currentDeadline = Deadline[mem[j].liveIdx + 1]
            /\ disk'.scheduleId = j
        BY <1>2, <2>3, <3>1 DEF Updated, CheckedIn, NewDeadline, SwitchRecord
      <4>5. disk'.capsules = disk'.liveIdx..N
        BY <4>3, <4>4, Constants
      <4> QED BY <4>1, <4>2, <4>4, <4>5, Constants DEF Consistent
    <3>2. CASE req[j].kind = "cancel"
      <4>1. mem[j] \in SwitchRecord
        BY <1>2
      <4>2. Cancelled(mem[j]).status = "CANCELLED"
        BY <4>1 DEF Cancelled, SwitchRecord
      <4> QED BY <2>3, <3>2, <4>2 DEF Updated, Consistent
    <3>3. CASE req[j].kind = "release"
      <4>1. mem[j] \in SwitchRecord
        BY <1>2
      <4>2. Released(mem[j], req[j].seq).status = "RELEASED"
        BY <4>1 DEF Released, SwitchRecord
      <4> QED BY <2>3, <3>3, <4>2 DEF Updated, Consistent
    <3> QED BY <2>3, <3>1, <3>2, <3>3 DEF TypeInv, PlaceInv, Commit
  <2>4. CASE \E j \in Jobs : disk' = mem[j]
    BY <1>1, <1>2, <2>4, ConsistentKept DEF RecordInv, Consistent
  <2> QED BY <2>1, <2>2, <2>3, <2>4, DiskWriters
<1> QED BY <1>3, <1>4, Constants DEF RecordInv

NetworkInv == TypeInv /\ ScheduleInv /\ RecordInv

\* What the record and every loaded copy say of the schedules is true of the
\* network, whoever saves when.
THEOREM NetworkInvariant == Spec => []NetworkInv
<1>1. Init => NetworkInv
  BY TypeInvInit, ScheduleInvInit DEF NetworkInv
<1>2. TypeInv' /\ NetworkInv /\ [Next]_vars => NetworkInv'
  <2> SUFFICES ASSUME TypeInv', NetworkInv, [Next]_vars PROVE NetworkInv'
    OBVIOUS
  <2>1. CASE UNCHANGED vars
    BY <2>1 DEF vars, NetworkInv, ScheduleInv, RecordInv, Consistent
  <2>2. CASE Next
    BY <2>2, ScheduleInvStep, RecordInvStep DEF NetworkInv
  <2> QED BY <2>1, <2>2
<1> QED BY <1>1, <1>2, TypeCorrect, PTL DEF Spec

-----------------------------------------------------------------------------
(* The switch is never disarmed.                                           *)

\* Only a verified cancel gets as far as the teardown.
CancelInv ==
    \A j \in Requests \cup {Watcher} :
        req[j].kind = "cancel" /\ pc[j] \in {"delete", "submit", "commit"}
            => cancelTx

\* A schedule that no request answered ok has recorded is in nobody's hands.
OwnInv ==
    \A m \in Makers :
        pc[m] # "ok" =>
            /\ sched[m] # "deleted"
            /\ disk.scheduleId # m
            /\ \A i \in Jobs : mem[i].scheduleId # m

\* As long as no cancel is signed, a schedule is deleted only for a later rung's.
KeptInv ==
    ~cancelTx =>
        \A m \in Makers : sched[m] = "deleted" =>
            \E i \in Makers : Live(i) /\ schedSeq[i] > schedSeq[m]

LEMMA CancelInvStep ==
    ASSUME TypeInv, CancelInv, Next
    PROVE  CancelInv'
<1> USE Constants DEF TypeInv, TypeOK, CancelInv, PlaceInv, GoTo, Leave,
        Throw, chainVars, netVars, procVars, InLock, Finished, PCs
<1>1. CASE ArmBegin
  BY <1>1 DEF ArmBegin
<1>2. CASE ArmSubmit
  BY <1>2 DEF ArmSubmit
<1>3. CASE ArmSchedule
  BY <1>3 DEF ArmSchedule
<1>4. CASE ArmPersist
  BY <1>4 DEF ArmPersist
<1>5. ASSUME NEW j \in Requests, Post(j) PROVE CancelInv'
  BY <1>5 DEF Post
<1>6. ASSUME NEW j \in Requests \cup {Watcher}, Executor(j)
      PROVE  CancelInv'
  <2>1. CASE Load(j)
    BY <1>6, <2>1 DEF Load
  <2>2. CASE VerifyCheckin(j)
    BY <1>6, <2>2 DEF VerifyCheckin
  <2>3. CASE VerifyCancel(j)
    BY <1>6, <2>3 DEF VerifyCancel
  <2>4. CASE CreateSchedule(j)
    BY <1>6, <2>4 DEF CreateSchedule, ScheduleRefused
  <2>5. CASE DeleteSchedule(j)
    BY <1>6, <2>5 DEF DeleteSchedule, ScheduleGone
  <2>6. CASE SubmitEvent(j)
    BY <1>6, <2>6 DEF SubmitEvent
  <2>7. CASE Commit(j)
    BY <1>6, <2>7 DEF Commit
  <2>8. CASE Reject(j)
    BY <1>6, <2>8, SMTT(30) DEF Reject
  <2> QED BY <1>6, <2>1, <2>2, <2>3, <2>4, <2>5, <2>6, <2>7, <2>8 DEF Executor
<1>7. CASE PollSkip
  BY <1>7 DEF PollSkip
<1>8. CASE PollRelease
  BY <1>8 DEF PollRelease
<1>9. CASE PublishCapsule
  BY <1>9 DEF PublishCapsule
<1>10. CASE PayBounty
  BY <1>10 DEF PayBounty
<1>11. CASE PostBulletin
  BY <1>11 DEF PostBulletin, BulletinFailed
<1>12. CASE ScanCancel
  BY <1>12 DEF ScanCancel
<1>13. ASSUME NEW m \in Makers, Fire(m) PROVE CancelInv'
  BY <1>13 DEF Fire
<1>14. CASE Tick \/ SignCancel
  BY <1>14 DEF Tick, SignCancel
<1>15. CASE CrashWeb
  BY <1>15 DEF CrashWeb
<1>16. CASE CrashWatcher
  BY <1>16 DEF CrashWatcher
<1> QED
  BY <1>1, <1>2, <1>3, <1>4, <1>5, <1>6, <1>7, <1>8, <1>9, <1>10, <1>11,
     <1>12, <1>13, <1>14, <1>15, <1>16
     DEF Next, ArmStep, WatcherStep, Poll

\* A request that was answered ok stays answered.
LEMMA OkStays ==
    ASSUME TypeInv, Next, NEW m \in Makers, pc[m] = "ok"
    PROVE  pc'[m] = "ok"
<1> USE Constants DEF TypeInv, TypeOK, GoTo, Leave, Throw, procVars
<1>1. CASE ArmStep
  BY <1>1 DEF ArmStep, ArmBegin, ArmSubmit, ArmSchedule, ArmPersist
<1>2. ASSUME NEW j \in Requests, Post(j) PROVE pc'[m] = "ok"
  BY <1>2 DEF Post
<1>3. ASSUME NEW j \in Requests \cup {Watcher}, Executor(j)
      PROVE  pc'[m] = "ok"
  <2>1. pc[j] # "ok" /\ \A i \in Jobs : i # j => pc'[i] = pc[i]
    BY <1>3 DEF Executor, Load, VerifyCheckin, VerifyCancel, CreateSchedule,
                DeleteSchedule, SubmitEvent, Commit, Reject, ScheduleGone,
                ScheduleRefused
  <2> QED BY <2>1
<1>4. CASE Poll \/ PublishCapsule \/ PayBounty \/ PostBulletin \/ ScanCancel
  BY <1>4 DEF Poll, PollSkip, PollRelease, PublishCapsule, PayBounty,
              PostBulletin, ScanCancel, BulletinFailed
<1>5. CASE Tick \/ SignCancel \/ CrashWeb \/ CrashWatcher
           \/ \E i \in Makers : Fire(i)
  BY <1>5 DEF Tick, SignCancel, CrashWeb, CrashWatcher, Fire, Finished
<1> QED BY <1>1, <1>2, <1>3, <1>4, <1>5 DEF Next, WatcherStep

LEMMA OwnInvStep ==
    ASSUME NetworkInv, OwnInv, Next
    PROVE  OwnInv'
<1> USE Constants DEF NetworkInv, TypeInv, TypeOK
<1> SUFFICES ASSUME NEW m \in Makers, pc'[m] # "ok"
             PROVE  /\ sched'[m] # "deleted"
                    /\ disk'.scheduleId # m
                    /\ \A i \in Jobs : mem'[i].scheduleId # m
  BY DEF OwnInv
<1>1. /\ sched[m] # "deleted" /\ disk.scheduleId # m
      /\ \A i \in Jobs : mem[i].scheduleId # m
  BY OkStays DEF OwnInv
<1>2. sched'[m] # "deleted"
  <2>1. CASE ArmSchedule \/ \E j \in Requests : CreateSchedule(j)
    BY <1>1, <2>1 DEF ArmSchedule, CreateSchedule, ScheduleRelease
  <2>2. ASSUME NEW j \in Requests \cup {Watcher}, DeleteSchedule(j)
        PROVE  sched'[m] # "deleted"
    BY <1>1, <2>2 DEF DeleteSchedule
  <2>3. CASE \E i \in Makers : Fire(i)
    BY <1>1, <2>3 DEF Fire
  <2> QED BY <1>1, <2>1, <2>2, <2>3, ScheduleWriters
<1>3. ASSUME NEW i \in Jobs PROVE mem'[i].scheduleId # m
  <2>1. NoSwitch.scheduleId # m
    BY DEF NoSwitch
  <2>2. mem'[i] = mem[i] \/ mem'[i] = disk \/ mem'[i] = NoSwitch
    BY MemWriters DEF MemFrom
  <2> QED BY <1>1, <2>1, <2>2
<1>4. disk'.scheduleId # m
  <2>1. CASE disk' = Armed /\ Leave(Arm, "ok")
    BY <2>1 DEF Leave, Armed
  <2>2. ASSUME NEW j \in Requests \cup {Watcher}, Commit(j),
               disk' = Updated(j), Leave(j, "ok")
        PROVE  disk'.scheduleId # m
    <3>1. mem[j] \in SwitchRecord
      OBVIOUS
    <3>2. CASE req[j].kind = "checkin"
      <4>1. j \in Requests
        BY <2>2, <3>2 DEF Commit, PlaceInv
      <4>2. disk'.scheduleId = j
        BY <2>2, <3>1, <3>2 DEF Updated, CheckedIn, SwitchRecord
      <4> QED BY <2>2, <4>1, <4>2 DEF Leave
    <3>3. CASE req[j].kind \in {"cancel", "release"}
      BY <2>2, <3>1, <3>3 DEF Updated, Cancelled, Released, SwitchRecord
    <3> QED BY <2>2, <3>2, <3>3 DEF Commit, PlaceInv
  <2> QED BY <1>1, <2>1, <2>2, DiskWriters
<1> QED BY <1>2, <1>3, <1>4

\* The check-in that deletes a schedule has created one for a later rung.
LEMMA ReplacedByLater ==
    ASSUME NetworkInv, CancelInv, OwnInv, ~cancelTx,
           NEW j \in Requests \cup {Watcher}, DeleteSchedule(j)
    PROVE  /\ j \in Makers /\ sched'[j] \in {"pending", "executed"}
           /\ schedSeq'[j] \in Nat
           /\ schedSeq'[j] > schedSeq[mem[j].scheduleId]
<1> USE Constants DEF NetworkInv, TypeInv, TypeOK
<1>1. pc[j] = "delete" /\ req[j].kind = "checkin" /\ j \in Requests
  BY DEF DeleteSchedule, CancelInv, PlaceInv
<1>2. /\ sched[j] \in {"pending", "executed"} /\ mem[j].scheduleId # j
      /\ schedSeq[j] = mem[j].liveIdx
  BY <1>1 DEF ScheduleInv, OwnInv
<1>3. sched'[j] = sched[j] /\ schedSeq' = schedSeq
  BY <1>1, <1>2 DEF DeleteSchedule
<1>4. mem[j].status = "ACTIVE" /\ mem[j] \in SwitchRecord
  BY <1>1 DEF AdmittedInv
<1>5. /\ mem[j].liveIdx = mem[j].seq + 1 /\ mem[j].seq \in Nat
      /\ schedSeq[mem[j].scheduleId] = mem[j].seq
  <2>1. Consistent(mem[j])
    BY <1>1 DEF RecordInv
  <2> HIDE DEF NetworkInv
  <2> QED BY <1>4, <2>1 DEF Consistent, SwitchRecord
<1> QED BY <1>1, <1>2, <1>3, <1>5

LEMMA KeptInvStep ==
    ASSUME NetworkInv, CancelInv, OwnInv, KeptInv, Next
    PROVE  KeptInv'
<1> USE Constants DEF NetworkInv, TypeInv, TypeOK
<1> SUFFICES ASSUME ~cancelTx', NEW m \in Makers, sched'[m] = "deleted"
             PROVE  \E i \in Makers :
                       /\ sched'[i] \in {"pending", "executed"}
                       /\ schedSeq'[i] > schedSeq'[m]
  BY DEF KeptInv, Live
<1>1. ~cancelTx
  <2>1. CASE SignCancel
    BY <2>1 DEF SignCancel
  <2>2. CASE UNCHANGED cancelTx
    BY <2>2
  <2>3. UNCHANGED cancelTx \/ SignCancel
    BY DEF Next, ArmStep, ArmBegin, ArmSubmit, ArmSchedule, ArmPersist, Post,
           Executor, Load, VerifyCheckin, VerifyCancel, CreateSchedule,
           DeleteSchedule, SubmitEvent, Commit, Reject, WatcherStep, Poll,
           PollSkip, PollRelease, PublishCapsule, PayBounty, PostBulletin,
           ScanCancel, Tick, Fire, CrashWeb, CrashWatcher, netVars
  <2> QED BY <2>1, <2>2, <2>3
<1>2. SchedulesKept
  BY SchedulesAreKept
<1>3. CASE sched[m] = "deleted"
  <2>1. PICK i \in Makers : Live(i) /\ schedSeq[i] > schedSeq[m]
    BY <1>1, <1>3 DEF KeptInv
  <2>2. schedSeq'[i] = schedSeq[i] /\ schedSeq'[m] = schedSeq[m]
    BY <1>2, <1>3, <2>1 DEF SchedulesKept, Live
  <2>3. CASE sched'[i] \in {"pending", "executed"}
    BY <2>1, <2>2, <2>3
  <2>4. ASSUME NEW j \in Requests \cup {Watcher}, DeleteSchedule(j),
               mem[j].scheduleId = i
        PROVE  /\ sched'[j] \in {"pending", "executed"} /\ j \in Makers
               /\ schedSeq'[j] \in Nat /\ schedSeq'[j] > schedSeq[i]
    BY <1>1, <2>4, ReplacedByLater
  <2>5. sched'[i] \in {"pending", "executed"}
        \/ \E j \in Requests \cup {Watcher} :
              DeleteSchedule(j) /\ mem[j].scheduleId = i
    BY <2>1, ScheduleWriters
       DEF Live, ArmSchedule, CreateSchedule, ScheduleRelease, Fire,
           DeleteSchedule
  <2>6. schedSeq[i] \in Nat /\ schedSeq[m] \in Nat
    OBVIOUS
  <2>7. ASSUME NEW j \in Requests \cup {Watcher}, DeleteSchedule(j),
               mem[j].scheduleId = i
        PROVE  schedSeq'[j] > schedSeq'[m]
    BY <2>1, <2>2, <2>4, <2>6, <2>7
  <2> QED BY <2>3, <2>4, <2>5, <2>7
<1>4. CASE sched[m] # "deleted"
  <2>1. PICK j \in Requests \cup {Watcher} :
           DeleteSchedule(j) /\ mem[j].scheduleId = m
    BY <1>4, ScheduleWriters
       DEF ArmSchedule, CreateSchedule, ScheduleRelease, Fire, DeleteSchedule
  <2>2. /\ sched'[j] \in {"pending", "executed"} /\ j \in Makers
        /\ schedSeq'[j] > schedSeq[m]
    BY <1>1, <2>1, ReplacedByLater
  <2>3. schedSeq'[m] = schedSeq[m]
    BY <2>1 DEF DeleteSchedule
  <2> QED BY <2>2, <2>3
<1> QED BY <1>3, <1>4

TeardownInv == CancelInv /\ OwnInv /\ KeptInv

\* Only a verified cancel tears a switch down, no check-in deletes its own new
\* schedule, and what a check-in deletes it has replaced by a later rung's.
THEOREM TeardownInvariant == Spec => []TeardownInv
<1>1. Init => TeardownInv
  BY Constants DEF Init, TeardownInv, CancelInv, OwnInv, KeptInv, NoSwitch,
                   NoRequest
<1>2. NetworkInv /\ TeardownInv /\ [Next]_vars => TeardownInv'
  <2> SUFFICES ASSUME NetworkInv, TeardownInv, [Next]_vars PROVE TeardownInv'
    OBVIOUS
  <2>1. CASE UNCHANGED vars
    BY <2>1 DEF vars, TeardownInv, CancelInv, OwnInv, KeptInv, Live
  <2>2. CASE Next
    BY <2>2, CancelInvStep, OwnInvStep, KeptInvStep DEF TeardownInv, NetworkInv
  <2> QED BY <2>1, <2>2
<1> QED BY <1>1, <1>2, NetworkInvariant, PTL DEF Spec

-----------------------------------------------------------------------------
(* What the topic says.                                                    *)

\* The message that a step adds, and what it answers to.
LogStep(t, s) ==
    /\ Emit(t, s)
    /\ t = "RELEASE_AUTHORIZED" =>
          \E m \in Makers : Fire(m) /\ s = schedSeq[m]
    /\ t \in {"CAPSULE_PUBLISHED", "BULLETIN"} =>
          /\ pc[Watcher] \in {"publish", "bulletin"}
          /\ s = req[Watcher].seq
    /\ t = "CHECKIN_VERIFIED" =>
          \E j \in Requests : SubmitEvent(j) /\ req[j].kind = "checkin"

LEMMA LogWriters ==
    ASSUME TypeInv, Next
    PROVE  UNCHANGED log \/ \E t \in EventTypes, s \in Seqs : LogStep(t, s)
<1> USE Constants DEF EventTypes, LogStep, chainVars
<1>1. CASE ArmStep
  BY <1>1 DEF ArmStep, ArmBegin, ArmSubmit, ArmSchedule, ArmPersist
<1>2. ASSUME NEW j \in Requests, Post(j) PROVE UNCHANGED log
  BY <1>2 DEF Post
<1>3. ASSUME NEW j \in Requests \cup {Watcher}, Executor(j)
      PROVE  UNCHANGED log \/ \E t \in EventTypes, s \in Seqs : LogStep(t, s)
  <2>1. CASE SubmitEvent(j)
    <3>1. req[j].kind = "checkin" => mem[j].liveIdx \in Seqs
      BY <2>1 DEF SubmitEvent, TypeInv, TypeOK, SwitchRecord, PlaceInv,
                  AdmittedInv
    <3>2. req[j].kind = "checkin" => j \in Requests
      BY <2>1 DEF SubmitEvent, TypeInv, PlaceInv
    <3>3. \/ UNCHANGED log
          \/ req[j].kind = "checkin" /\ Emit("CHECKIN_VERIFIED", mem[j].liveIdx)
          \/ Emit("CANCELLED", 0)
      BY <2>1 DEF SubmitEvent
    <3> QED BY <2>1, <3>1, <3>2, <3>3
  <2>2. CASE UNCHANGED log
    BY <2>2
  <2> QED
    BY <1>3, <2>1, <2>2
       DEF Executor, Load, VerifyCheckin, VerifyCancel, CreateSchedule,
           DeleteSchedule, Commit, Reject
<1>4. ASSUME Poll \/ PublishCapsule \/ PayBounty \/ PostBulletin \/ ScanCancel
      PROVE  UNCHANGED log \/ \E t \in EventTypes, s \in Seqs : LogStep(t, s)
  <2>1. req[Watcher].seq \in Seqs
    BY DEF TypeInv, TypeOK, Request
  <2> QED
    BY <1>4, <2>1 DEF Poll, PollSkip, PollRelease, PublishCapsule, PayBounty,
                      PostBulletin, ScanCancel, FiredSeq
<1>5. ASSUME NEW m \in Makers, Fire(m)
      PROVE  \E t \in EventTypes, s \in Seqs : LogStep(t, s)
  <2>1. schedSeq[m] \in Seqs
    BY DEF TypeInv, TypeOK
  <2> QED BY <1>5, <2>1 DEF Fire
<1>6. CASE Tick \/ SignCancel \/ CrashWeb \/ CrashWatcher
  BY <1>6 DEF Tick, SignCancel, CrashWeb, CrashWatcher
<1> QED BY <1>1, <1>2, <1>3, <1>4, <1>5, <1>6 DEF Next, WatcherStep

\* The topic only grows, by at most the message of the step.
LEMMA LogGrows ==
    ASSUME TypeInv, Next
    PROVE  /\ Len(log) <= Len(log') /\ Len(log) \in Nat /\ Len(log') \in Nat
           /\ \A p \in 1..Len(log) : log'[p] = log[p]
           /\ \A p \in 1..Len(log') :
                 \/ p \in 1..Len(log)
                 \/ \E t \in EventTypes, s \in Seqs :
                       LogStep(t, s) /\ log'[p] = Msg(t, s)
<1>1. log \in Seq(Event) /\ Len(log) \in Nat
  BY LenProperties DEF TypeInv, TypeOK
<1>2. CASE UNCHANGED log
  BY <1>1, <1>2
<1>3. ASSUME NEW t \in EventTypes, NEW s \in Seqs, LogStep(t, s)
      PROVE  /\ Len(log') = Len(log) + 1
             /\ \A p \in 1..Len(log) : log'[p] = log[p]
             /\ log'[Len(log) + 1] = Msg(t, s)
  BY <1>1, <1>3, EmitAppends DEF LogStep
<1> QED BY <1>1, <1>2, <1>3, LogWriters

\* So what was posted stays posted.
LEMMA PostedStays ==
    ASSUME TypeInv, Next
    PROVE  \A t, s : Posted(t, s) => \E p \in 1..Len(log') : log'[p] = Msg(t, s)
BY LogGrows DEF Posted

LEMMA PostedNew ==
    ASSUME TypeInv, Next, NEW t \in EventTypes, NEW s \in Seqs,
           \E p \in 1..Len(log') : log'[p] = Msg(t, s)
    PROVE  Posted(t, s) \/ LogStep(t, s)
<1>1. \A u, v : Msg(t, s) = Msg(u, v) => t = u /\ s = v
  BY DEF Msg
<1> QED BY <1>1, LogGrows DEF Posted

\* Only an expired schedule has posted, and an executed one has.
FiredInv ==
    /\ \A m \in Makers :
          sched[m] = "executed" => Posted("RELEASE_AUTHORIZED", schedSeq[m])
    /\ \A q \in Seqs :
          Posted("RELEASE_AUTHORIZED", q) => Deadline[q + 1] - now < Second

\* The release in progress reacts to the message after the cursor.
ReactionInv ==
    /\ cursor <= Len(log)
    /\ req[Watcher].kind = "release" =>
          /\ cursor < Len(log)
          /\ log[cursor + 1] = Msg("RELEASE_AUTHORIZED", req[Watcher].seq)
          /\ pc[Watcher] = "commit" => Posted("BULLETIN", req[Watcher].seq)
          /\ pc[Watcher] = "reject" =>
                /\ mem[Watcher].status = "RELEASED"
                /\ mem[Watcher].releasedSeq = req[Watcher].seq

\* Only what fired is opened or announced, and RELEASED means announced.
AnnouncedInv ==
    /\ \A q \in Seqs :
          Posted("CAPSULE_PUBLISHED", q) \/ Posted("BULLETIN", q)
             => Posted("RELEASE_AUTHORIZED", q)
    /\ PassedIsAnnounced
    /\ \A j \in Jobs : mem[j].status = "RELEASED"
                         => Posted("BULLETIN", mem[j].releasedSeq)

LEMMA ClockAdvances ==
    ASSUME TypeInv, Next
    PROVE  now' \in Nat /\ now <= now'
<1> USE DEF TypeInv, TypeOK
<1>1. CASE Tick
  BY <1>1 DEF Tick
<1>2. UNCHANGED now \/ Tick
  BY DEF Next, ArmStep, ArmBegin, ArmSubmit, ArmSchedule, ArmPersist, Post,
         Executor, Load, VerifyCheckin, VerifyCancel, CreateSchedule,
         DeleteSchedule, SubmitEvent, Commit, Reject, WatcherStep, Poll,
         PollSkip, PollRelease, PublishCapsule, PayBounty, PostBulletin,
         ScanCancel, SignCancel, Fire, CrashWeb, CrashWatcher, netVars
<1> QED BY <1>1, <1>2

LEMMA FiredInvStep ==
    ASSUME NetworkInv, FiredInv, Next
    PROVE  FiredInv'
<1> USE Constants DEF NetworkInv
<1>1. ASSUME NEW m \in Makers, sched'[m] = "executed"
      PROVE  \E p \in 1..Len(log') :
                log'[p] = Msg("RELEASE_AUTHORIZED", schedSeq'[m])
  <2>1. CASE sched[m] = "executed"
    <3>1. /\ Posted("RELEASE_AUTHORIZED", schedSeq[m])
          /\ schedSeq'[m] = schedSeq[m]
      BY <2>1, SchedulesAreKept DEF FiredInv, SchedulesKept
    <3> QED BY <3>1, PostedStays
  <2>2. CASE sched[m] # "executed"
    <3>1. Fire(m)
      BY <1>1, <2>2, ScheduleWriters
         DEF ArmSchedule, CreateSchedule, DeleteSchedule, ScheduleRelease, Fire,
             TypeInv, TypeOK
    <3>2. log \in Seq(Event) /\ schedSeq[m] \in Seqs /\ schedSeq' = schedSeq
          /\ Emit("RELEASE_AUTHORIZED", schedSeq[m])
      BY <3>1 DEF TypeInv, TypeOK, Fire
    <3>3. /\ Len(log') = Len(log) + 1 /\ Len(log) \in Nat
          /\ log'[Len(log) + 1] = Msg("RELEASE_AUTHORIZED", schedSeq[m])
      BY <3>2, EmitAppends, LenProperties DEF EventTypes
    <3> QED BY <3>2, <3>3
  <2> QED BY <2>1, <2>2
<1>2. ASSUME NEW q \in Seqs,
             \E p \in 1..Len(log') : log'[p] = Msg("RELEASE_AUTHORIZED", q)
      PROVE  Deadline[q + 1] - now' < Second
  <2>1. now \in Nat /\ now' \in Nat /\ now <= now' /\ Deadline[q + 1] \in Nat
    BY ClockAdvances DEF TypeInv, TypeOK
  <2>2. CASE Posted("RELEASE_AUTHORIZED", q)
    BY <2>1, <2>2, BoundsAssumption DEF FiredInv
  <2>3. CASE LogStep("RELEASE_AUTHORIZED", q)
    <3>1. PICK m \in Makers :
             sched[m] = "pending" /\ q = schedSeq[m] /\ now >= expiry[m]
      BY <2>3 DEF LogStep, Fire
    <3>2. expiry[m] = WholeSecond(Deadline[q + 1])
      BY <3>1 DEF ScheduleInv
    <3>3. Deadline[q + 1] < WholeSecond(Deadline[q + 1]) + Second
          /\ WholeSecond(Deadline[q + 1]) \in Nat
      BY <2>1, SecondsRoundDown
    <3> QED BY <2>1, <3>1, <3>2, <3>3, BoundsAssumption
  <2> QED BY <1>2, <2>2, <2>3, PostedNew DEF EventTypes
<1> QED BY <1>1, <1>2 DEF FiredInv, Posted

\* The steps that are not the watcher's leave its job and its cursor alone.
LEMMA WatcherAlone ==
    ASSUME TypeInv, Next
    PROVE  \/ WatcherStep \/ CrashWatcher
           \/ /\ pc'[Watcher] = pc[Watcher] /\ req'[Watcher] = req[Watcher]
              /\ mem'[Watcher] = mem[Watcher] /\ UNCHANGED cursor
<1> USE Constants DEF TypeInv, TypeOK, GoTo, Leave, Throw, procVars, watcherVars
<1>1. CASE ArmStep
  BY <1>1 DEF ArmStep, ArmBegin, ArmSubmit, ArmSchedule, ArmPersist
<1>2. ASSUME NEW j \in Requests, Post(j)
      PROVE  /\ pc'[Watcher] = pc[Watcher] /\ req'[Watcher] = req[Watcher]
             /\ mem'[Watcher] = mem[Watcher] /\ UNCHANGED cursor
  BY <1>2 DEF Post
<1>3. ASSUME NEW j \in Requests, Executor(j)
      PROVE  /\ pc'[Watcher] = pc[Watcher] /\ req'[Watcher] = req[Watcher]
             /\ mem'[Watcher] = mem[Watcher] /\ UNCHANGED cursor
  BY <1>3 DEF Executor, Load, VerifyCheckin, VerifyCancel, CreateSchedule,
              DeleteSchedule, SubmitEvent, Commit, Reject, ScheduleGone,
              ScheduleRefused, Advance
<1>4. CASE Tick \/ SignCancel \/ CrashWeb \/ \E m \in Makers : Fire(m)
  BY <1>4 DEF Tick, SignCancel, CrashWeb, Fire
<1> QED BY <1>1, <1>2, <1>3, <1>4 DEF Next

\* What the watcher's steps do to its reaction.
LEMMA ReactionInvStep ==
    ASSUME NetworkInv, ReactionInv, AnnouncedInv, Next
    PROVE  ReactionInv'
<1> USE Constants DEF NetworkInv, TypeInv
<1>1. /\ Len(log) <= Len(log') /\ Len(log) \in Nat /\ Len(log') \in Nat
      /\ \A p \in 1..Len(log) : log'[p] = log[p]
  BY LogGrows
<1>2. cursor \in Nat /\ req[Watcher].seq \in Seqs
  BY DEF TypeOK, Request
<1>3. CASE /\ pc'[Watcher] = pc[Watcher] /\ req'[Watcher] = req[Watcher]
           /\ mem'[Watcher] = mem[Watcher] /\ UNCHANGED cursor
  BY <1>1, <1>2, <1>3, PostedStays DEF ReactionInv, Posted
<1>4. CASE CrashWatcher
  BY <1>1, <1>2, <1>4 DEF CrashWatcher, ReactionInv, NoRequest, TypeOK
<1>5. CASE WatcherStep
  <2> USE DEF TypeOK, PlaceInv, GoTo, Leave, Throw, procVars, watcherVars
  <2>1. CASE PollSkip
    BY <1>1, <1>2, <2>1 DEF PollSkip, ReactionInv, NoRequest
  <2>2. CASE PollRelease
    <3>1. log[cursor + 1] \in Event
      BY <1>2, <2>2, ElementOfSeq DEF PollRelease
    <3>2. log[cursor + 1] = Msg("RELEASE_AUTHORIZED", log[cursor + 1].seq)
      BY <2>2, <3>1 DEF PollRelease, Msg, Event
    <3> QED BY <1>1, <1>2, <2>2, <3>2 DEF PollRelease, ReactionInv
  <2>3. CASE PublishCapsule \/ PayBounty
    <3>1. UNCHANGED cursor
          /\ \/ req' = req /\ pc'[Watcher] \in {"bounty", "bulletin"}
             \/ req'[Watcher] = NoRequest
      BY <2>3 DEF PublishCapsule, PayBounty
    <3>2. CASE req'[Watcher] = NoRequest
      BY <1>1, <1>2, <3>1, <3>2 DEF ReactionInv, NoRequest
    <3>3. CASE req' = req /\ pc'[Watcher] \in {"bounty", "bulletin"}
      <4>1. CASE req[Watcher].kind = "release"
        <5>1. cursor + 1 \in 1..Len(log) /\ cursor < Len(log')
          BY <1>1, <1>2, <4>1 DEF ReactionInv
        <5> QED BY <1>1, <3>1, <3>3, <4>1, <5>1 DEF ReactionInv
      <4>2. CASE req[Watcher].kind # "release"
        BY <1>1, <1>2, <3>1, <3>3, <4>2 DEF ReactionInv
      <4> QED BY <4>1, <4>2
    <3> QED BY <3>1, <3>2, <3>3
  <2>4. CASE PostBulletin
    <3>1. CASE Emit("BULLETIN", req[Watcher].seq) /\ GoTo(Watcher, "commit")
      <4>1. \E p \in 1..Len(log') : log'[p] = Msg("BULLETIN", req[Watcher].seq)
        BY <1>1, <1>2, <3>1, EmitAppends DEF EventTypes
      <4> QED BY <1>1, <1>2, <2>4, <3>1, <4>1
              DEF PostBulletin, ReactionInv, Posted
    <3>2. CASE Leave(Watcher, "threw")
      BY <1>1, <1>2, <2>4, <3>2 DEF PostBulletin, ReactionInv, NoRequest
    <3> QED BY <2>4, <3>1, <3>2 DEF PostBulletin, BulletinFailed
  <2>5. CASE ScanCancel
    BY <1>1, <1>2, <2>5 DEF ScanCancel, ReactionInv, NoRequest
  <2>6. CASE Executor(Watcher)
    <3>1. CASE Commit(Watcher) \/ Reject(Watcher)
      BY <1>1, <1>2, <3>1 DEF Commit, Reject, Advance, ReactionInv, NoRequest
    <3>2. CASE ~(Commit(Watcher) \/ Reject(Watcher))
      <4>1. req[Watcher].kind = "cancel"
        BY <2>6, <3>2 DEF Executor, Load, VerifyCheckin, VerifyCancel,
                          CreateSchedule, DeleteSchedule, SubmitEvent
      <4>2. UNCHANGED cursor /\ req'[Watcher].kind # "release"
        BY <2>6, <3>2, <4>1
           DEF Executor, Load, VerifyCheckin, VerifyCancel, CreateSchedule,
               DeleteSchedule, SubmitEvent, ScheduleGone, NoRequest
      <4> QED BY <1>1, <1>2, <4>2 DEF ReactionInv
    <3> QED BY <3>1, <3>2
  <2> QED BY <1>5, <2>1, <2>2, <2>3, <2>4, <2>5, <2>6 DEF WatcherStep, Poll
<1> QED BY <1>3, <1>4, <1>5, WatcherAlone

LEMMA AnnouncedInvStep ==
    ASSUME NetworkInv, NetworkInv', ReactionInv, AnnouncedInv, Next
    PROVE  AnnouncedInv'
<1> USE Constants DEF NetworkInv, TypeInv
<1>1. /\ Len(log) <= Len(log') /\ Len(log) \in Nat /\ Len(log') \in Nat
      /\ \A p \in 1..Len(log) : log'[p] = log[p]
  BY LogGrows
<1>2. /\ cursor \in Nat /\ req[Watcher].seq \in Seqs /\ cursor <= Len(log)
      /\ \A j \in Jobs : mem[j] \in SwitchRecord
  BY DEF TypeOK, Request, ReactionInv
<1>3. ASSUME NEW q \in Seqs, NEW t \in {"CAPSULE_PUBLISHED", "BULLETIN"},
             \E p \in 1..Len(log') : log'[p] = Msg(t, q)
      PROVE  \E p \in 1..Len(log') : log'[p] = Msg("RELEASE_AUTHORIZED", q)
  <2>1. CASE Posted(t, q)
    BY <2>1, PostedStays DEF AnnouncedInv
  <2>2. CASE LogStep(t, q)
    <3>1. req[Watcher].kind = "release" /\ q = req[Watcher].seq
      BY <2>2 DEF LogStep, PlaceInv
    <3>2. Posted("RELEASE_AUTHORIZED", q)
      BY <1>2, <3>1 DEF ReactionInv, Posted
    <3> QED BY <3>2, PostedStays
  <2> QED BY <1>3, <2>1, <2>2, PostedNew DEF EventTypes
<1>4. \/ cursor' \in 0..cursor
      \/ /\ cursor' = cursor + 1 /\ cursor < Len(log)
         /\ \/ log[cursor + 1].type # "RELEASE_AUTHORIZED"
            \/ /\ log[cursor + 1] = Msg("RELEASE_AUTHORIZED", req[Watcher].seq)
               /\ Posted("BULLETIN", req[Watcher].seq)
  <2>1. CASE WatcherStep
    <3>1. CASE PollSkip
      BY <3>1 DEF PollSkip
    <3>2. CASE Commit(Watcher) \/ Reject(Watcher)
      <4>1. CASE req[Watcher].kind = "release" /\ cursor' = cursor + 1
        BY <3>2, <4>1 DEF Commit, Reject, ReactionInv, AnnouncedInv
      <4> QED BY <1>2, <3>2, <4>1 DEF Commit, Reject, Advance, watcherVars
    <3>3. CASE ~PollSkip /\ ~Commit(Watcher) /\ ~Reject(Watcher)
      BY <1>2, <2>1, <3>3
         DEF WatcherStep, Poll, PollRelease, PublishCapsule, PayBounty,
             PostBulletin, ScanCancel, Executor, Load, VerifyCheckin,
             VerifyCancel, CreateSchedule, DeleteSchedule, SubmitEvent,
             watcherVars
    <3> QED BY <3>1, <3>2, <3>3
  <2>2. CASE CrashWatcher
    BY <1>2, <2>2 DEF CrashWatcher
  <2> QED BY <1>2, <2>1, <2>2, WatcherAlone
<1>5. ASSUME NEW p \in 1..cursor', log'[p].type = "RELEASE_AUTHORIZED"
      PROVE  \E k \in 1..Len(log') : log'[k] = Msg("BULLETIN", log'[p].seq)
  <2>1. p \in 1..Len(log) /\ log'[p] = log[p]
    BY <1>1, <1>2, <1>4
  <2>2. CASE p \in 1..cursor
    BY <1>5, <2>1, <2>2, PostedStays DEF AnnouncedInv, PassedIsAnnounced
  <2>3. CASE p = cursor + 1
    <3>1. log[p].seq = req[Watcher].seq /\ Posted("BULLETIN", req[Watcher].seq)
      BY <1>2, <1>4, <1>5, <2>1, <2>3 DEF Msg
    <3> QED BY <2>1, <3>1, PostedStays
  <2> QED BY <1>2, <1>4, <2>2, <2>3
<1>6. ASSUME disk'.status = "RELEASED"
      PROVE  \E k \in 1..Len(log') :
                log'[k] = Msg("BULLETIN", disk'.releasedSeq)
  <2>1. CASE UNCHANGED disk
    BY <1>6, <2>1, PostedStays DEF AnnouncedInv, PassedIsAnnounced
  <2>2. CASE disk' = Armed
    BY <1>6, <2>2 DEF Armed
  <2>3. ASSUME NEW j \in Requests \cup {Watcher}, Commit(j),
               disk' = Updated(j)
        PROVE  \E k \in 1..Len(log') :
                  log'[k] = Msg("BULLETIN", disk'.releasedSeq)
    <3>1. CASE req[j].kind = "checkin"
      <4>1. mem[j].status = "ACTIVE"
        BY <2>3, <3>1 DEF Commit, PlaceInv, AdmittedInv
      <4>2. mem[j] \in SwitchRecord
        BY <1>2
      <4>3. CheckedIn(mem[j], j).status = mem[j].status
        BY <4>2 DEF CheckedIn, NewDeadline, SwitchRecord
      <4> QED BY <1>6, <2>3, <3>1, <4>1, <4>3 DEF Updated
    <3>2. CASE req[j].kind = "cancel"
      <4>1. mem[j] \in SwitchRecord
        BY <1>2
      <4>2. Cancelled(mem[j]).status = "CANCELLED"
        BY <4>1 DEF Cancelled, SwitchRecord
      <4> QED BY <1>6, <2>3, <3>2, <4>2 DEF Updated
    <3>3. CASE req[j].kind = "release"
      <4>1. j = Watcher /\ pc[Watcher] = "commit"
        BY <2>3, <3>3 DEF Commit, PlaceInv
      <4>2. Posted("BULLETIN", req[Watcher].seq)
        BY <3>3, <4>1 DEF ReactionInv
      <4>3. disk'.releasedSeq = req[Watcher].seq
        BY <1>2, <2>3, <3>3, <4>1 DEF Updated, Released, SwitchRecord
      <4> QED BY <4>2, <4>3, PostedStays
    <3> QED BY <2>3, <3>1, <3>2, <3>3 DEF Commit, PlaceInv
  <2>4. CASE \E j \in Jobs : disk' = mem[j]
    BY <1>6, <2>4, PostedStays DEF AnnouncedInv
  <2> QED BY <2>1, <2>2, <2>3, <2>4, DiskWriters
<1>7. ASSUME NEW j \in Jobs, mem'[j].status = "RELEASED"
      PROVE  \E k \in 1..Len(log') :
                log'[k] = Msg("BULLETIN", mem'[j].releasedSeq)
  <2>1. NoSwitch.status # "RELEASED"
    BY DEF NoSwitch
  <2>2. mem'[j] = mem[j] \/ mem'[j] = disk \/ mem'[j] = NoSwitch
    BY MemWriters DEF MemFrom
  <2> QED BY <1>7, <2>1, <2>2, PostedStays DEF AnnouncedInv, PassedIsAnnounced
<1> QED BY <1>3, <1>5, <1>6, <1>7 DEF AnnouncedInv, PassedIsAnnounced, Posted

TopicInv == FiredInv /\ ReactionInv /\ AnnouncedInv

\* What is opened or announced was fired, and what the watcher has passed was
\* announced.
THEOREM TopicInvariant == Spec => []TopicInv
<1>1. Init => TopicInv
  <2> SUFFICES ASSUME Init PROVE TopicInv
    OBVIOUS
  <2>1. Len(log) = 0 /\ cursor = 0 /\ \A t, s : ~Posted(t, s)
    BY DEF Init, Posted
  <2>2. FiredInv
    BY <2>1 DEF Init, FiredInv
  <2>3. ReactionInv
    BY <2>1, Constants DEF Init, ReactionInv, NoRequest
  <2>4. AnnouncedInv
    BY <2>1 DEF Init, AnnouncedInv, PassedIsAnnounced, NoSwitch
  <2> QED BY <2>2, <2>3, <2>4 DEF TopicInv
<1>2. NetworkInv /\ NetworkInv' /\ TopicInv /\ [Next]_vars => TopicInv'
  <2> SUFFICES ASSUME NetworkInv, NetworkInv', TopicInv, [Next]_vars
               PROVE  TopicInv'
    OBVIOUS
  <2>1. CASE UNCHANGED vars
    BY <2>1 DEF vars, TopicInv, FiredInv, ReactionInv, AnnouncedInv,
                PassedIsAnnounced, Posted
  <2>2. CASE Next
    BY <2>2, FiredInvStep, ReactionInvStep, AnnouncedInvStep DEF TopicInv
  <2> QED BY <2>1, <2>2
<1> QED BY <1>1, <1>2, NetworkInvariant, PTL DEF Spec

-----------------------------------------------------------------------------
(* The safety properties of the runs.                                      *)

\* Nothing of a rung is public a whole second before its deadline, no capsule
\* and no bulletin: what the round-down of the expiry (hedera.ts:472) can lose.
THEOREM NothingIsEarly == Spec => []NoEarlyRelease
<1>1. TopicInv => NoEarlyRelease
  BY DEF TopicInv, FiredInv, AnnouncedInv, NoEarlyRelease
<1> QED BY <1>1, TopicInvariant, PTL

\* Whatever ran, failed or crashed, an ACTIVE record names the live rung, its
\* capsules and a schedule created for that rung and deadline, which will fire or
\* has fired, unless a check-in has replaced it by one of a later rung.
THEOREM RecordIsTrue == Spec => []RecordMatchesNetwork
<1>1. NetworkInv /\ TeardownInv => RecordMatchesNetwork
  <2> SUFFICES ASSUME NetworkInv, TeardownInv,
                      disk.status = "ACTIVE", ~cancelTx, ~Live(disk.scheduleId)
               PROVE  \E m \in Makers : Live(m) /\ schedSeq[m] > disk.seq
    BY DEF RecordMatchesNetwork, NetworkInv, RecordInv
  <2>1. /\ disk.scheduleId \in Makers /\ sched[disk.scheduleId] # "none"
        /\ schedSeq[disk.scheduleId] = disk.seq
    BY DEF NetworkInv, RecordInv, Consistent, TypeInv, TypeOK, SwitchRecord
  <2>2. sched[disk.scheduleId] = "deleted"
    BY <2>1 DEF Live, NetworkInv, TypeInv, TypeOK
  <2> QED BY <2>1, <2>2 DEF TeardownInv, KeptInv
<1> QED BY <1>1, NetworkInvariant, TeardownInvariant, PTL

\* While no cancel is signed, an ACTIVE record always has a schedule that will
\* fire or one that has fired: the create-before-delete order of the check-in.
THEOREM SwitchStaysArmed == Spec => []NeverDisarmed
<1>1. RecordMatchesNetwork /\ NetworkInv /\ TopicInv => NeverDisarmed
  <2> SUFFICES ASSUME RecordMatchesNetwork, NetworkInv, TopicInv,
                      disk.status = "ACTIVE", ~cancelTx
               PROVE  \/ \E m \in Makers : sched[m] = "pending"
                      \/ \E q \in Seqs : Posted("RELEASE_AUTHORIZED", q)
    BY DEF NeverDisarmed
  <2>1. disk.scheduleId \in Makers
    BY DEF NetworkInv, RecordInv, Consistent, TypeInv, TypeOK, SwitchRecord
  <2>2. PICK m \in Makers : Live(m)
    BY <2>1 DEF RecordMatchesNetwork
  <2>3. schedSeq[m] \in Seqs
    BY DEF NetworkInv, TypeInv, TypeOK
  <2> QED BY <2>2, <2>3 DEF TopicInv, FiredInv, Live
<1> QED BY <1>1, RecordIsTrue, NetworkInvariant, TopicInvariant, PTL

\* The watcher leaves no fired schedule behind, and RELEASED means announced.
THEOREM NothingIsSkipped == Spec => []PassedIsAnnounced
BY TopicInvariant, PTL DEF TopicInv, AnnouncedInv

-----------------------------------------------------------------------------
(* Who waits for whom: the promise chain of the web process.               *)

\* A request whose withLock callback has not settled yet.
Waits(j) == pc[j] = "queued" \/ (j \in Requests /\ pc[j] \in InLock)

\* The chain holds exactly these, each once.
WaitInv ==
    /\ \A p \in 1..Len(chain) : Waits(chain[p])
    /\ \A p, q \in 1..Len(chain) : chain[p] = chain[q] => p = q
    /\ \A j \in Makers : Waits(j) => \E p \in 1..Len(chain) : chain[p] = j

\* Nobody is forgotten: who is queued is behind a request that may run.
QueueIsServed ==
    \A j \in Makers : pc[j] = "queued" => chain # <<>> /\ Waits(Head(chain))

\* A step of the chain: one is queued at its end, or its head settles and
\* leaves it, or the process dies.
Joins(j) ==
    /\ chain' = Append(chain, j) /\ ~Waits(j) /\ pc'[j] = "queued"
    /\ \A i \in Makers : i # j => pc'[i] = pc[i]
Settles(j) ==
    /\ chain # <<>> /\ Head(chain) = j /\ chain' = Tail(chain)
    /\ pc'[j] \in Finished
    /\ \A i \in Makers : i # j => pc'[i] = pc[i]
ChainStep ==
    \/ /\ UNCHANGED chain
       /\ \A j \in Makers :
             \/ pc'[j] = pc[j]
             \/ j \in Requests /\ pc[j] \in InLock /\ pc'[j] \in InLock
             \/ j \in Requests /\ pc[j] = "queued" /\ pc'[j] \in InLock
             \/ j = Arm /\ pc[j] # "queued" /\ pc'[j] # "queued"
    \/ \E j \in Makers : Joins(j) \/ Settles(j)
    \/ chain' = <<>> /\ \A j \in Makers : pc'[j] \in Finished \cup {"idle"}

LEMMA ChainSteps ==
    ASSUME TypeInv, Next
    PROVE  ChainStep
<1> USE Constants DEF TypeInv, TypeOK, PlaceInv, GoTo, Leave, Throw, procVars,
                      ChainStep
<1>1. CASE ArmBegin \/ ArmSubmit
  BY <1>1 DEF ArmBegin, ArmSubmit
<1>2. CASE ArmSchedule
  BY <1>2 DEF ArmSchedule, Joins, Waits
<1>3. CASE ArmPersist
  BY <1>3 DEF ArmPersist, Settles, Runs, Finished
<1>4. ASSUME NEW j \in Requests, Post(j) PROVE Joins(j)
  BY <1>4 DEF Post, Joins, Waits, InLock
<1>5. ASSUME NEW j \in Requests, Executor(j) PROVE ChainStep
  <2>1. CASE Settles(j)
    BY <2>1
  <2>2. CASE \/ UNCHANGED chain /\ pc' = [pc EXCEPT ![j] = "verify"]
             \/ UNCHANGED chain /\ pc' = [pc EXCEPT ![j] = "reject"]
             \/ UNCHANGED chain /\ pc' = [pc EXCEPT ![j] = "schedule"]
             \/ UNCHANGED chain /\ pc' = [pc EXCEPT ![j] = "delete"]
             \/ UNCHANGED chain /\ pc' = [pc EXCEPT ![j] = "submit"]
             \/ UNCHANGED chain /\ pc' = [pc EXCEPT ![j] = "commit"]
    <3>1. pc[j] \in InLock \cup {"queued"}
      BY <1>5 DEF Executor, Load, VerifyCheckin, VerifyCancel, CreateSchedule,
                  DeleteSchedule, SubmitEvent, Commit, Reject, InLock
    <3> QED BY <2>2, <3>1 DEF InLock
  <2>3. pc[j] \in InLock /\ (\E res \in Finished : Leave(j, res)) => Settles(j)
    BY DEF Settles, Finished
  <2>4. CASE Load(j) \/ VerifyCheckin(j) \/ VerifyCancel(j)
    BY <2>1, <2>2, <2>3, <2>4
       DEF Load, VerifyCheckin, VerifyCancel, InLock, Finished
  <2>5. CASE CreateSchedule(j)
    BY <2>1, <2>2, <2>3, <2>5
       DEF CreateSchedule, ScheduleRefused, AfterCreate, InLock, Finished
  <2>6. CASE DeleteSchedule(j)
    BY <2>1, <2>2, <2>3, <2>6
       DEF DeleteSchedule, ScheduleGone, InLock, Finished
  <2>7. CASE SubmitEvent(j) \/ Commit(j) \/ Reject(j)
    BY <2>1, <2>2, <2>3, <2>7 DEF SubmitEvent, Commit, Reject, InLock, Finished
  <2> QED BY <1>5, <2>4, <2>5, <2>6, <2>7 DEF Executor
<1>6. CASE WatcherStep
  BY <1>6 DEF WatcherStep, Poll, PollSkip, PollRelease, PublishCapsule,
              PayBounty, PostBulletin, ScanCancel, BulletinFailed, Executor,
              Load, VerifyCheckin, VerifyCancel, CreateSchedule,
              DeleteSchedule, SubmitEvent, Commit, Reject, ScheduleGone,
              ScheduleRefused
<1>7. CASE Tick \/ SignCancel \/ CrashWatcher \/ \E m \in Makers : Fire(m)
  BY <1>7 DEF Tick, SignCancel, CrashWatcher, Fire
<1>8. CASE CrashWeb
  BY <1>8 DEF CrashWeb, Finished
<1> QED BY <1>1, <1>2, <1>3, <1>4, <1>5, <1>6, <1>7, <1>8 DEF Next, ArmStep

LEMMA WaitInvStep ==
    ASSUME TypeInv, WaitInv, ChainStep
    PROVE  WaitInv'
<1>1. /\ chain \in Seq(Makers) /\ Len(chain) \in Nat
      /\ \A p \in 1..Len(chain) : chain[p] \in Makers
  BY ElementOfSeq, LenProperties DEF TypeInv, TypeOK
<1>2. CASE /\ UNCHANGED chain
           /\ \A j \in Makers : Waits(j)' <=> Waits(j)
  BY <1>1, <1>2 DEF WaitInv
<1>3. ASSUME NEW j \in Makers, Joins(j) PROVE WaitInv'
  <2>1. /\ Len(chain') = Len(chain) + 1 /\ chain'[Len(chain) + 1] = j
        /\ \A p \in 1..Len(chain) : chain'[p] = chain[p] /\ chain[p] # j
    BY <1>1, <1>3, AppendProperties DEF Joins, WaitInv
  <2>2. \A i \in Makers : i # j => (Waits(i)' <=> Waits(i))
    BY <1>3 DEF Joins, Waits
  <2>3. Waits(j)'
    BY <1>3 DEF Joins, Waits
  <2>4. \A p \in 1..Len(chain') : p \in 1..Len(chain) \/ p = Len(chain) + 1
    BY <1>1, <2>1
  <2>5. \A p \in 1..Len(chain') : Waits(chain[p])'
    BY <1>1, <2>1, <2>2, <2>3, <2>4 DEF WaitInv, Waits
  <2>6. \A i \in Makers : Waits(i)' => \E p \in 1..Len(chain') : chain'[p] = i
    BY <1>1, <2>1, <2>2 DEF WaitInv
  <2>7. \A p, q \in 1..Len(chain') : chain'[p] = chain'[q] => p = q
    BY <1>1, <2>1, <2>4 DEF WaitInv
  <2> QED BY <2>1, <2>5, <2>6, <2>7 DEF WaitInv
<1>4. ASSUME NEW j \in Makers, Settles(j) PROVE WaitInv'
  <2>1. /\ chain # <<>> /\ chain[1] = j /\ Len(chain) >= 1
        /\ Len(chain') = Len(chain) - 1
        /\ \A p \in 1..Len(chain) - 1 : chain'[p] = chain[p + 1]
    BY <1>1, <1>4, HeadTailProperties, EmptySeq DEF Settles
  <2>2. \A i \in Makers : i # j => (Waits(i)' <=> Waits(i))
    BY <1>4 DEF Settles, Waits
  <2>3. ~Waits(j)'
    BY <1>4 DEF Settles, Waits, Finished, InLock
  <2>4. \A p \in 1..Len(chain') :
           /\ p + 1 \in 1..Len(chain) /\ chain'[p] = chain[p + 1]
           /\ chain[p + 1] \in Makers /\ chain[p + 1] # j
    <3> SUFFICES ASSUME NEW p \in 1..Len(chain')
                 PROVE  /\ p + 1 \in 1..Len(chain) /\ chain'[p] = chain[p + 1]
                        /\ chain[p + 1] \in Makers /\ chain[p + 1] # j
      OBVIOUS
    <3>1. /\ p + 1 \in 1..Len(chain) /\ 1 \in 1..Len(chain) /\ p + 1 # 1
          /\ chain'[p] = chain[p + 1]
      BY <1>1, <2>1
    <3>2. chain[p + 1] # chain[1]
      BY <3>1 DEF WaitInv
    <3> QED BY <1>1, <2>1, <3>1, <3>2
  <2>5. \A p \in 1..Len(chain') : Waits(chain[p])'
    BY <2>2, <2>4 DEF WaitInv, Waits
  <2>6. \A i \in Makers : Waits(i)' => \E p \in 1..Len(chain') : chain'[p] = i
    <3> SUFFICES ASSUME NEW i \in Makers, Waits(i)'
                 PROVE  \E p \in 1..Len(chain') : chain'[p] = i
      OBVIOUS
    <3>1. i # j /\ Waits(i)
      BY <2>2, <2>3
    <3>2. PICK q \in 1..Len(chain) : chain[q] = i
      BY <3>1 DEF WaitInv
    <3>3. q # 1
      BY <2>1, <3>1, <3>2
    <3>4. q - 1 \in 1..Len(chain') /\ chain'[q - 1] = chain[q]
      BY <1>1, <2>1, <3>2, <3>3
    <3> QED BY <3>2, <3>4
  <2>7. \A p, q \in 1..Len(chain') : chain'[p] = chain'[q] => p = q
    <3> SUFFICES ASSUME NEW p \in 1..Len(chain'), NEW q \in 1..Len(chain'),
                        chain'[p] = chain'[q]
                 PROVE  p = q
      OBVIOUS
    <3>1. p + 1 = q + 1
      BY <2>4 DEF WaitInv
    <3> QED BY <1>1, <2>1, <3>1
  <2> QED BY <2>5, <2>6, <2>7 DEF WaitInv
<1>5. CASE chain' = <<>> /\ \A j \in Makers : pc'[j] \in Finished \cup {"idle"}
  <2>1. 1..Len(chain') = {}
    BY <1>5, LenProperties
  <2>2. \A j \in Makers : ~Waits(j)'
    BY <1>5 DEF Waits, Finished, InLock
  <2> QED BY <2>1, <2>2 DEF WaitInv
<1>6. CASE /\ UNCHANGED chain
           /\ \A j \in Makers :
                 \/ pc'[j] = pc[j]
                 \/ j \in Requests /\ pc[j] \in InLock /\ pc'[j] \in InLock
                 \/ j \in Requests /\ pc[j] = "queued" /\ pc'[j] \in InLock
                 \/ j = Arm /\ pc[j] # "queued" /\ pc'[j] # "queued"
  <2>1. \A j \in Makers : Waits(j)' <=> Waits(j)
    BY <1>6, Constants DEF Waits
  <2> QED BY <1>2, <1>6, <2>1
<1> QED BY <1>3, <1>4, <1>5, <1>6 DEF ChainStep

\* No request of the web process waits for a promise that nobody settles:
\* whoever is queued, the head of the chain is one that has not settled.
THEOREM NobodyIsStranded == Spec => []QueueIsServed
<1>1. Init => WaitInv
  BY Constants, LenProperties DEF Init, WaitInv, Waits, InLock
<1>2. TypeInv /\ WaitInv /\ [Next]_vars => WaitInv'
  <2>1. WaitInv /\ UNCHANGED vars => WaitInv'
    BY DEF vars, WaitInv, Waits
  <2> QED BY <2>1, ChainSteps, WaitInvStep
<1>3. TypeInv /\ WaitInv => QueueIsServed
  <2> SUFFICES ASSUME TypeInv, WaitInv, NEW j \in Makers, pc[j] = "queued"
               PROVE  chain # <<>> /\ Waits(Head(chain))
    BY DEF QueueIsServed
  <2>1. chain \in Seq(Makers)
    BY DEF TypeInv, TypeOK
  <2>2. PICK p \in 1..Len(chain) : chain[p] = j
    BY DEF WaitInv, Waits
  <2>3. chain # <<>> /\ Head(chain) = chain[1] /\ 1 \in 1..Len(chain)
    BY <2>1, <2>2, EmptySeq, LenProperties, HeadTailProperties
  <2> QED BY <2>3 DEF WaitInv
<1> QED BY <1>1, <1>2, <1>3, TypeCorrect, PTL DEF Spec

-----------------------------------------------------------------------------
(* The safety half of SilenceReleases.                                     *)

\* While the user is silent there is a schedule that waits, or a fired one that
\* the watcher has before it, or an announced one.
SilenceIsPending ==
    disk.status = "ACTIVE" /\ ~cancelTx =>
        \/ \E m \in Makers : sched[m] = "pending"
        \/ \E p \in cursor + 1..Len(log) : log[p].type = "RELEASE_AUTHORIZED"
        \/ \E q \in Seqs : Posted("BULLETIN", q)

\* Silence is never without consequence: the next thing to happen to an ACTIVE
\* switch nobody cancels is always on its way, whatever failed or crashed.
THEOREM SilenceIsAnswered == Spec => []SilenceIsPending
<1>1. TypeInv /\ NeverDisarmed /\ PassedIsAnnounced => SilenceIsPending
  <2> SUFFICES ASSUME TypeInv, NeverDisarmed, PassedIsAnnounced,
                      disk.status = "ACTIVE", ~cancelTx,
                      NEW q \in Seqs, Posted("RELEASE_AUTHORIZED", q)
               PROVE  \/ \E p \in cursor + 1..Len(log) :
                            log[p].type = "RELEASE_AUTHORIZED"
                      \/ \E s \in Seqs : Posted("BULLETIN", s)
    BY DEF SilenceIsPending, NeverDisarmed
  <2>1. PICK p \in 1..Len(log) : log[p] = Msg("RELEASE_AUTHORIZED", q)
    BY DEF Posted
  <2>2. cursor \in Nat /\ Len(log) \in Nat
    BY LenProperties DEF TypeInv, TypeOK
  <2>3. CASE p <= cursor
    BY <2>1, <2>2, <2>3 DEF PassedIsAnnounced, Msg
  <2>4. CASE p > cursor
    BY <2>1, <2>2, <2>4 DEF Msg
  <2> QED BY <2>2, <2>3, <2>4
<1> QED BY <1>1, TypeCorrect, SwitchStaysArmed, NothingIsSkipped, PTL

-----------------------------------------------------------------------------
(* What the executors make of a record, as the browser's side counts on it: *)
(* ExecutorsAssumption of SwitchPage.                                       *)

\* The part of a record that the tab's cards look at, and the moves of it.
Tab(r) == [status |-> IF r.status = "ACTIVE" THEN "ACTIVE" ELSE "CANCELLED",
           seq |-> r.seq]
Move(kind, r, s) ==
    \/ Tab(s) = Tab(r)
    \/ /\ r.status = "ACTIVE"
       /\ Tab(s) = IF kind = "checkin"
                   THEN [Tab(r) EXCEPT !.seq = @ + 1]
                   ELSE [Tab(r) EXCEPT !.status = "CANCELLED"]

\* Every save but the first is what a job made of the record it had loaded.
SavesAreMoves ==
    [][disk' # disk /\ disk' # Armed =>
          \E j \in Requests \cup {Watcher} :
              pc[j] \in {"commit", "reject"}
              /\ Move(req[j].kind, mem[j], disk')]_vars

\* A cancel past its guard holds a record that was ACTIVE.
StandsDownInv ==
    \A j \in Requests \cup {Watcher} :
        req[j].kind = "cancel"
        /\ pc[j] \in {"verify", "delete", "submit", "commit"}
            => mem[j].status = "ACTIVE"

LEMMA StandsDownInvStep ==
    ASSUME TypeInv, StandsDownInv, Next
    PROVE  StandsDownInv'
<1> USE Constants DEF TypeInv, TypeOK, StandsDownInv, PlaceInv, GoTo, Leave,
        Throw, chainVars, netVars, procVars, InLock, Finished, PCs
<1>1. CASE ArmBegin \/ ArmSubmit
  BY <1>1 DEF ArmBegin, ArmSubmit
<1>2. CASE ArmSchedule
  BY <1>2 DEF ArmSchedule
<1>3. CASE ArmPersist
  BY <1>3 DEF ArmPersist
<1>4. ASSUME NEW j \in Requests, Post(j) PROVE StandsDownInv'
  BY <1>4 DEF Post
<1>5. ASSUME NEW j \in Requests \cup {Watcher}, Executor(j)
      PROVE  StandsDownInv'
  <2>1. CASE Load(j)
    BY <1>5, <2>1 DEF Load, CancelAllowed
  <2>2. CASE \E r \in {"ok", "rejected", "threw"} : Leave(j, r)
    BY <1>5, <2>2
  <2>3. ASSUME NEW next \in PCs, GoTo(j, next),
               req[j].kind = "cancel" =>
                  next = "reject" \/ pc[j] \in {"verify", "delete", "submit"}
        PROVE  StandsDownInv'
    BY <1>5, <2>3
  <2>4. CASE ~Load(j) /\ \A r \in {"ok", "rejected", "threw"} : ~Leave(j, r)
    <3>1. PICK next \in PCs :
             /\ GoTo(j, next)
             /\ next = "reject" \/ pc[j] \in {"verify", "delete", "submit"}
                  \/ pc[j] = "schedule"
      <4> USE <2>4 DEF AfterCreate, ScheduleRefused, ScheduleGone
      <4>1. CASE VerifyCheckin(j) \/ VerifyCancel(j)
        BY <4>1 DEF VerifyCheckin, VerifyCancel
      <4>2. CASE CreateSchedule(j)
        BY <4>2 DEF CreateSchedule
      <4>3. CASE DeleteSchedule(j)
        BY <4>3 DEF DeleteSchedule
      <4>4. CASE SubmitEvent(j)
        BY <4>4 DEF SubmitEvent
      <4>5. CASE Commit(j) \/ Reject(j)
        BY <4>5 DEF Commit, Reject
      <4> QED BY <1>5, <2>4, <4>1, <4>2, <4>3, <4>4, <4>5 DEF Executor
    <3>2. pc[j] = "schedule" => req[j].kind # "cancel"
      BY DEF PlaceInv
    <3> QED BY <2>3, <3>1, <3>2
  <2> QED BY <2>1, <2>2, <2>4
<1>6. CASE PollSkip
  BY <1>6 DEF PollSkip
<1>7. CASE PollRelease
  BY <1>7 DEF PollRelease
<1>8. CASE PublishCapsule
  BY <1>8 DEF PublishCapsule
<1>9. CASE PayBounty
  BY <1>9 DEF PayBounty
<1>10. CASE PostBulletin
  BY <1>10 DEF PostBulletin, BulletinFailed
<1>11. CASE ScanCancel
  BY <1>11 DEF ScanCancel
<1>12. CASE Tick \/ SignCancel \/ \E m \in Makers : Fire(m)
  BY <1>12 DEF Tick, SignCancel, Fire
<1>13. CASE CrashWeb \/ CrashWatcher
  BY <1>13 DEF CrashWeb, CrashWatcher, NoRequest
<1> QED
  BY <1>1, <1>2, <1>3, <1>4, <1>5, <1>6, <1>7, <1>8, <1>9, <1>10, <1>11,
     <1>12, <1>13
     DEF Next, ArmStep, WatcherStep, Poll

\* An executor's updated record is a move of the one it loaded.
LEMMA UpdatesAreMoves ==
    ASSUME TypeInv, RecordInv, StandsDownInv,
           NEW j \in Requests \cup {Watcher}, pc[j] = "commit"
    PROVE  Move(req[j].kind, mem[j], Updated(j))
<1> USE Constants DEF TypeInv, TypeOK
<1>1. mem[j] \in SwitchRecord /\ Consistent(mem[j])
  BY DEF RecordInv
<1>2. CASE req[j].kind = "checkin"
  <2>1. j \in Requests /\ mem[j].status = "ACTIVE"
    BY <1>2 DEF PlaceInv, AdmittedInv
  <2>2. mem[j].liveIdx = mem[j].seq + 1
    BY <1>1, <2>1 DEF Consistent
  <2>3. /\ Updated(j).status = mem[j].status
        /\ Updated(j).seq = mem[j].liveIdx
    BY <1>1, <1>2 DEF Updated, CheckedIn, SwitchRecord
  <2> QED BY <1>2, <2>1, <2>2, <2>3 DEF Move, Tab
<1>3. CASE req[j].kind = "cancel"
  <2>1. mem[j].status = "ACTIVE"
    BY <1>3 DEF StandsDownInv
  <2>2. Updated(j).status = "CANCELLED" /\ Updated(j).seq = mem[j].seq
    BY <1>1, <1>3 DEF Updated, Cancelled, SwitchRecord
  <2> QED BY <1>3, <2>1, <2>2 DEF Move, Tab
<1>4. CASE req[j].kind = "release"
  <2>1. Updated(j).status = "RELEASED" /\ Updated(j).seq = mem[j].seq
    BY <1>1, <1>4 DEF Updated, Released, SwitchRecord
  <2> QED BY <1>4, <2>1 DEF Move, Tab
<1> QED BY <1>2, <1>3, <1>4 DEF PlaceInv

\* Who writes the file after it was first written.
LEMMA SavesOf ==
    ASSUME Next, disk' # disk, disk' # Armed
    PROVE  \E j \in Requests \cup {Watcher} :
              \/ Commit(j) /\ disk' = Updated(j)
              \/ Reject(j) /\ disk' = mem[j]
<1>1. ASSUME NEW j \in Requests \cup {Watcher}, Executor(j)
      PROVE  \/ Commit(j) /\ disk' = Updated(j)
             \/ Reject(j) /\ disk' = mem[j]
  BY <1>1 DEF Executor, Load, VerifyCheckin, VerifyCancel, CreateSchedule,
              DeleteSchedule, SubmitEvent, Commit, Reject
<1>2. ArmStep => FALSE
  BY DEF ArmStep, ArmBegin, ArmSubmit, ArmSchedule, ArmPersist
<1>3. \A j \in Requests : Post(j) => FALSE
  BY DEF Post
<1>4. Poll \/ PublishCapsule \/ PayBounty \/ PostBulletin \/ ScanCancel => FALSE
  BY DEF Poll, PollSkip, PollRelease, PublishCapsule, PayBounty, PostBulletin,
         ScanCancel
<1>5. Tick \/ SignCancel \/ CrashWeb \/ CrashWatcher
         \/ (\E m \in Makers : Fire(m)) => FALSE
  BY DEF Tick, SignCancel, CrashWeb, CrashWatcher, Fire
<1> QED BY <1>1, <1>2, <1>3, <1>4, <1>5 DEF Next, WatcherStep

\* The web executors and the watcher, with any stale save: a record is only ever
\* replaced by what one of them made of the record it had loaded, and that is
\* the same to the tab, an ACTIVE switch one rung on, or one stood down.
THEOREM ExecutorsMakeMoves == Spec => SavesAreMoves
<1>1. Init => StandsDownInv
  BY Constants DEF Init, StandsDownInv, NoRequest
<1>2. TypeInv /\ StandsDownInv /\ [Next]_vars => StandsDownInv'
  <2>1. UNCHANGED vars /\ StandsDownInv => StandsDownInv'
    BY DEF vars, StandsDownInv
  <2> QED BY <2>1, StandsDownInvStep
<1>3. NetworkInv /\ StandsDownInv /\ [Next]_vars =>
        [disk' # disk /\ disk' # Armed =>
            \E j \in Requests \cup {Watcher} :
                pc[j] \in {"commit", "reject"}
                /\ Move(req[j].kind, mem[j], disk')]_vars
  <2> SUFFICES ASSUME NetworkInv, StandsDownInv, Next,
                      disk' # disk, disk' # Armed
               PROVE  \E j \in Requests \cup {Watcher} :
                          pc[j] \in {"commit", "reject"}
                          /\ Move(req[j].kind, mem[j], disk')
    OBVIOUS
  <2>1. PICK j \in Requests \cup {Watcher} :
           \/ Commit(j) /\ disk' = Updated(j)
           \/ Reject(j) /\ disk' = mem[j]
    BY SavesOf
  <2>2. CASE Commit(j) /\ disk' = Updated(j)
    BY <2>2, UpdatesAreMoves DEF Commit, NetworkInv
  <2>3. CASE Reject(j) /\ disk' = mem[j]
    BY <2>3 DEF Reject, Move
  <2> QED BY <2>1, <2>2, <2>3
<1> QED
  BY <1>1, <1>2, <1>3, TypeCorrect, NetworkInvariant, PTL
     DEF Spec, SavesAreMoves

=============================================================================
