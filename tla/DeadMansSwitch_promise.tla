----------------------- MODULE DeadMansSwitch_promise -----------------------
(***************************************************************************)
(* DeadMansSwitch implements TimelockPromise: every step of the executors, *)
(* the watcher, the network and the crashes is a step of the promise or    *)
(* leaves the public trail alone.  The part that needs an invariant of its *)
(* own is the check-in: however many attempts failed half way, the topic   *)
(* counts exactly the rungs that the one recorded schedule has moved.      *)
(*                                                                         *)
(* On top of it: no check-in is accepted twice, and which failures can let *)
(* a burned rung out (Undisturbed names them), none as long as nothing has *)
(* failed.                                                                 *)
(***************************************************************************)
EXTENDS DeadMansSwitch_safety, FiniteSetTheorems

USE DEF Makers, Jobs, Rungs, Seqs

\* The schedule of an answered request, still waiting: the recorded one.
Recorded(m) == pc[m] = "ok" /\ sched[m] = "pending"

\* At most one recorded schedule waits, and it carries the number of check-ins
\* on the topic; a check-in that reached the topic has deleted it before.
CountInv ==
    /\ pc[Arm] \notin Finished =>
          CheckinCount = 0 /\ \A j \in Requests : pc[j] = "idle"
    /\ \A m \in Makers : Recorded(m) =>
          /\ schedSeq[m] = CheckinCount
          /\ \A i \in Makers : Recorded(i) => i = m
    /\ \A j \in Requests :
          /\ req[j].kind = "cancel" => sched[j] = "none"
          /\ req[j].kind = "checkin" =>
                /\ pc[j] = "submit" => CheckinCount = mem[j].seq
                /\ pc[j] = "commit" => CheckinCount = mem[j].liveIdx
                /\ pc[j] \in {"submit", "commit"} =>
                      \A m \in Makers : ~Recorded(m)

\* An admitted check-in has waited for the end of the period before.
PeriodInv ==
    \A j \in Requests :
        req[j].kind = "checkin"
        /\ pc[j] \in {"verify", "schedule", "delete", "submit"}
            => (mem[j].liveIdx > 1 => now >= Deadline[mem[j].liveIdx - 1])

-----------------------------------------------------------------------------
(* Counting the check-ins on the topic.                                    *)

Checkins == {p \in 1..Len(log) : log[p].type = "CHECKIN_VERIFIED"}

LEMMA CheckinsFinite ==
    ASSUME TypeInv
    PROVE  /\ IsFiniteSet(Checkins) /\ CheckinCount = Cardinality(Checkins)
           /\ CheckinCount \in Nat /\ Len(log) + 1 \notin Checkins
<1>1. Len(log) \in Nat
  BY LenProperties DEF TypeInv, TypeOK
<1>2. IsFiniteSet(1..Len(log))
  BY <1>1, FS_Interval
<1>3. IsFiniteSet(Checkins)
  BY <1>2, FS_Subset DEF Checkins
<1> QED BY <1>1, <1>3, FS_CardinalityType DEF Checkins, CheckinCount

LEMMA QuietCount ==
    UNCHANGED log => CheckinCount' = CheckinCount
<1> SUFFICES ASSUME UNCHANGED log PROVE CheckinCount' = CheckinCount
  OBVIOUS
<1>1. {p \in 1..Len(log') : log'[p].type = "CHECKIN_VERIFIED"}
        = {p \in 1..Len(log) : log[p].type = "CHECKIN_VERIFIED"}
  OBVIOUS
<1> QED BY <1>1 DEF CheckinCount

\* Only a check-in's event changes the count, by one.
LEMMA EmitCount ==
    ASSUME TypeInv, NEW t \in EventTypes, NEW s \in Seqs, Emit(t, s)
    PROVE  /\ t = "CHECKIN_VERIFIED" => CheckinCount' = CheckinCount + 1
           /\ t # "CHECKIN_VERIFIED" => CheckinCount' = CheckinCount
<1>1. log \in Seq(Event) /\ Len(log) \in Nat
  BY LenProperties DEF TypeInv, TypeOK
<1>2. /\ Len(log') = Len(log) + 1
      /\ \A p \in 1..Len(log) : log'[p] = log[p]
      /\ log'[Len(log) + 1] = Msg(t, s)
  BY <1>1, EmitAppends
<1>3. CheckinCount' =
        Cardinality({p \in 1..Len(log') : log'[p].type = "CHECKIN_VERIFIED"})
  BY DEF CheckinCount
<1>4. CASE t = "CHECKIN_VERIFIED"
  <2>1. {p \in 1..Len(log') : log'[p].type = "CHECKIN_VERIFIED"}
          = Checkins \cup {Len(log) + 1}
    BY <1>1, <1>2, <1>4 DEF Checkins, Msg
  <2> QED BY <1>3, <1>4, <2>1, CheckinsFinite, FS_AddElement
<1>5. CASE t # "CHECKIN_VERIFIED"
  <2>1. {p \in 1..Len(log') : log'[p].type = "CHECKIN_VERIFIED"} = Checkins
    BY <1>1, <1>2, <1>5 DEF Checkins, Msg
  <2> QED BY <1>3, <1>5, <2>1, CheckinsFinite
<1> QED BY <1>4, <1>5

-----------------------------------------------------------------------------
(* The count is right.                                                     *)

\* A job that moves on without touching the network and without an answer.
LEMMA QuietMove ==
    ASSUME TypeInv, CountInv, NEW j \in Requests \cup {Watcher},
           UNCHANGED <<sched, schedSeq, log>>, pc[j] # "idle",
           j \in Makers => pc'[j] \notin {"idle", "ok", "submit", "commit"},
           \A i \in Makers : i # j => pc'[i] = pc[i] /\ mem'[i] = mem[i],
           \A i \in Makers : req'[i] = req[i]
    PROVE  CountInv'
<1>1. CheckinCount' = CheckinCount
  BY QuietCount
<1>2. \A m \in Makers : Recorded(m)' => Recorded(m)
  BY DEF Recorded
<1>3. \A m \in Makers :
         Recorded(m)' <=> (pc'[m] = "ok" /\ sched'[m] = "pending")
  BY DEF Recorded
<1> QED BY <1>1, <1>2, <1>3, Constants DEF CountInv, Recorded, Finished

\* CountInv' from its parts, for a step that leaves the requests' inputs.
LEMMA CountParts ==
    ASSUME pc'[Arm] \notin Finished =>
              CheckinCount' = 0 /\ \A i \in Requests : pc'[i] = "idle",
           \A m \in Makers : pc'[m] = "ok" /\ sched'[m] = "pending" =>
              /\ schedSeq'[m] = CheckinCount'
              /\ \A i \in Makers :
                    pc'[i] = "ok" /\ sched'[i] = "pending" => i = m,
           \A i \in Requests :
              req'[i].kind = "cancel" => sched'[i] = "none",
           \A i \in Requests : req'[i].kind = "checkin" =>
              /\ pc'[i] = "submit" => CheckinCount' = mem'[i].seq
              /\ pc'[i] = "commit" => CheckinCount' = mem'[i].liveIdx
              /\ pc'[i] \in {"submit", "commit"} =>
                    \A m \in Makers : ~(pc'[m] = "ok" /\ sched'[m] = "pending")
    PROVE  CountInv'
BY DEF CountInv, Recorded

LEMMA CountInvStep ==
    ASSUME NetworkInv, OwnInv, CountInv, Next
    PROVE  CountInv'
<1> USE Constants, QuietCount DEF NetworkInv, TypeInv, TypeOK, PlaceInv,
        CountInv, Recorded, GoTo, Leave, Throw, chainVars, procVars, InLock,
        Finished, PCs
<1>0. /\ \A t \in EventTypes, s \in Seqs :
            Emit(t, s) => /\ t = "CHECKIN_VERIFIED"
                                => CheckinCount' = CheckinCount + 1
                          /\ t # "CHECKIN_VERIFIED"
                                => CheckinCount' = CheckinCount
      /\ CheckinCount \in Nat
  BY EmitCount, CheckinsFinite
<1>1. CASE ArmBegin
  BY <1>1 DEF ArmBegin
<1>2. CASE ArmSubmit
  <2>1. CheckinCount' = CheckinCount
    BY <1>0, <1>2 DEF ArmSubmit, EventTypes
  <2> QED BY <1>2, <2>1 DEF ArmSubmit
<1>3. CASE ArmSchedule
  BY <1>3 DEF ArmSchedule, ScheduleRelease
<1>4. CASE ArmPersist
  BY <1>4 DEF ArmPersist, ScheduleInv
<1>5. ASSUME NEW j \in Requests, Post(j) PROVE CountInv'
  BY <1>5 DEF Post, ScheduleInv
<1>6. ASSUME NEW j \in Requests \cup {Watcher}, Executor(j)
      PROVE  CountInv'
  <2>1. CASE Load(j)
    BY <1>6, <2>1 DEF Load
  <2>2. CASE VerifyCheckin(j)
    <3>1. /\ UNCHANGED <<sched, schedSeq, log>> /\ pc[j] = "verify"
          /\ j \in Makers => pc'[j] \in {"schedule", "reject", "threw"}
          /\ \A i \in Makers : i # j => pc'[i] = pc[i] /\ mem'[i] = mem[i]
          /\ \A i \in Makers : req'[i] = req[i]
      BY <1>6, <2>2 DEF VerifyCheckin
    <3> QED BY <3>1, QuietMove
  <2>3. CASE VerifyCancel(j)
    BY <1>6, <2>3 DEF VerifyCancel
  <2>4. CASE CreateSchedule(j)
    <3>1. j \in Requests /\ pc[j] = "schedule" /\ UNCHANGED <<req, log>>
          /\ \A i \in Makers : i # j => pc'[i] = pc[i] /\ mem'[i] = mem[i]
      BY <2>4 DEF CreateSchedule, ScheduleRefused
    <3>2. \A i \in Makers : i # j => sched'[i] = sched[i]
                                   /\ schedSeq'[i] = schedSeq[i]
      BY <2>4 DEF CreateSchedule, ScheduleRelease
    <3>3. mem[j].scheduleId # NoSchedule
      BY <3>1 DEF AdmittedInv, RecordInv, Consistent
    <3>4. pc'[j] \in {"delete", "threw"}
      BY <2>4, <3>1, <3>3 DEF CreateSchedule, ScheduleRefused, AfterCreate
    <3>5. CheckinCount' = CheckinCount /\ req[j].kind = "checkin"
          /\ pc[Arm] \in Finished /\ pc'[Arm] \in Finished
      BY <3>1
    <3>6. \A m \in Makers : pc'[m] = "ok" /\ sched'[m] = "pending" =>
                                 m # j /\ Recorded(m)
      BY <3>1, <3>2, <3>4
    <3>7. \A m \in Makers : pc'[m] = "ok" /\ sched'[m] = "pending" =>
             /\ schedSeq'[m] = CheckinCount'
             /\ \A i \in Makers :
                   pc'[i] = "ok" /\ sched'[i] = "pending" => i = m
      BY <3>2, <3>5, <3>6
    <3>8. \A i \in Requests :
             /\ req'[i].kind = "cancel" => sched'[i] = "none"
             /\ pc'[i] \in {"submit", "commit"} =>
                   i # j /\ pc'[i] = pc[i] /\ mem'[i] = mem[i]
      BY <3>1, <3>2, <3>4, <3>5
    <3>9. \A i \in Requests : req'[i].kind = "checkin" =>
             /\ pc'[i] = "submit" => CheckinCount' = mem'[i].seq
             /\ pc'[i] = "commit" => CheckinCount' = mem'[i].liveIdx
             /\ pc'[i] \in {"submit", "commit"} =>
                   \A m \in Makers : ~(pc'[m] = "ok" /\ sched'[m] = "pending")
      BY <3>1, <3>5, <3>6, <3>8
    <3> QED BY <3>5, <3>7, <3>8, <3>9, CountParts
  <2>5. CASE DeleteSchedule(j)
    <3> DEFINE old == mem[j].scheduleId
    <3>1. /\ pc[j] = "delete" /\ CheckinCount' = CheckinCount
          /\ UNCHANGED <<schedSeq, log>>
          /\ \A i \in Makers : i # j => pc'[i] = pc[i] /\ mem'[i] = mem[i]
          /\ \A i \in Makers : req'[i] = req[i]
      BY <1>6, <2>5 DEF DeleteSchedule, ScheduleGone
    <3>2. CASE /\ UNCHANGED sched
               /\ j \in Makers => pc'[j] = "threw"
      BY <3>1, <3>2, QuietMove
    <3>3. CASE /\ sched[old] = "pending"
               /\ sched' = [sched EXCEPT ![old] = "deleted"]
               /\ j \in Makers => pc'[j] \in {"submit", "threw"}
               /\ pc'[j] = "submit" => mem'[j] = mem[j]
      <4>1. \A m \in Makers :
               (pc'[m] = "ok" /\ sched'[m] = "pending") => Recorded(m)
        BY <3>1, <3>3
      <4>2. CASE j \in Requests /\ req[j].kind = "checkin"
        <5>1. mem[j].status = "ACTIVE" /\ Consistent(mem[j])
              /\ mem[j] \in SwitchRecord
          BY <3>1, <4>2 DEF AdmittedInv, RecordInv
        <5>2. old \in Makers /\ schedSeq[old] = mem[j].seq
          BY <5>1 DEF Consistent, SwitchRecord
        <5>3. Recorded(old)
          BY <3>3, <5>2 DEF OwnInv
        <5>4. CheckinCount = mem[j].seq
          BY <5>2, <5>3
        <5>5. \A m \in Makers : ~(pc'[m] = "ok" /\ sched'[m] = "pending")
          BY <3>3, <4>1, <5>2, <5>3
        <5> HIDE DEF NetworkInv, TypeInv, TypeOK, PlaceInv
        <5> QED BY <3>1, <3>3, <4>2, <5>4, <5>5
      <4>3. CASE ~(j \in Requests /\ req[j].kind = "checkin")
        <5>1. j \in Requests => req[j].kind = "cancel"
          BY <3>1, <4>3
        <5>2. \A m \in Makers : (pc'[m] = "ok" /\ sched'[m] = "pending")
                 => /\ schedSeq'[m] = CheckinCount'
                    /\ \A i \in Makers : Recorded(i) => i = m
          BY <3>1, <4>1
        <5>3. \A i \in Requests :
                 /\ req'[i] = req[i]
                 /\ sched[i] = "none" => sched'[i] = "none"
                 /\ req[i].kind = "checkin" =>
                       pc'[i] = pc[i] /\ mem'[i] = mem[i]
          BY <3>1, <3>3, <4>3
        <5> HIDE DEF NetworkInv, TypeInv, TypeOK, PlaceInv
        <5>4. pc'[Arm] \notin Finished =>
                 CheckinCount' = 0 /\ \A i \in Requests : pc'[i] = "idle"
          <6>1. j # Arm /\ pc'[Arm] = pc[Arm]
            BY <3>1
          <6>2. pc[Arm] \notin Finished => \A i \in Requests : i # j
            BY <3>1
          <6> QED BY <3>1, <6>1, <6>2
        <5>5. \A i \in Requests : req'[i].kind = "cancel" => sched'[i] = "none"
          BY <5>3
        <5>6. \A i \in Requests : req'[i].kind = "checkin" =>
                /\ pc'[i] = "submit" => CheckinCount' = mem'[i].seq
                /\ pc'[i] = "commit" => CheckinCount' = mem'[i].liveIdx
                /\ pc'[i] \in {"submit", "commit"} =>
                     \A m \in Makers : ~(pc'[m] = "ok" /\ sched'[m] = "pending")
          BY <3>1, <4>1, <5>3
        <5> QED BY <4>1, <5>2, <5>4, <5>5, <5>6, CountParts
      <4> QED BY <4>2, <4>3
    <3> QED BY <1>6, <2>5, <3>2, <3>3 DEF DeleteSchedule, ScheduleGone
  <2>6. CASE SubmitEvent(j)
    <3>1. /\ pc[j] = "submit" /\ UNCHANGED <<sched, schedSeq>>
          /\ j \in Makers => pc'[j] \in {"commit", "threw"}
          /\ pc'[j] = "commit" => mem'[j] = mem[j]
          /\ \A i \in Makers : i # j => pc'[i] = pc[i] /\ mem'[i] = mem[i]
          /\ \A i \in Makers : req'[i] = req[i]
      BY <1>6, <2>6 DEF SubmitEvent
    <3>2. CASE j \in Requests /\ req[j].kind = "checkin"
      <4>1. /\ mem[j].liveIdx = mem[j].seq + 1 /\ mem[j].liveIdx \in Seqs
            /\ CheckinCount = mem[j].seq
        BY <3>1, <3>2, SMTT(30)
           DEF AdmittedInv, RecordInv, Consistent, SwitchRecord
      <4>2. \/ CheckinCount' = mem[j].liveIdx
            \/ CheckinCount' = CheckinCount /\ pc'[j] = "threw"
        BY <1>0, <2>6, <3>2, <4>1 DEF SubmitEvent, EventTypes
      <4>3. /\ \A m \in Makers : (pc'[m] = "ok" /\ sched'[m] = "pending")
                                   <=> Recorded(m)
            /\ \A m \in Makers : ~Recorded(m)
        BY <3>1, <3>2
      <4>4. \A i \in Requests : i # j => pc[i] \notin {"submit", "commit"}
        BY <3>1, <3>2
      <4>5. pc[Arm] \in Finished /\ pc'[Arm] = pc[Arm]
        BY <3>1, <3>2
      <4> HIDE DEF NetworkInv, TypeInv, TypeOK, PlaceInv
      <4>6. \A i \in Requests : req'[i].kind = "checkin" =>
              /\ pc'[i] = "submit" => CheckinCount' = mem'[i].seq
              /\ pc'[i] = "commit" => CheckinCount' = mem'[i].liveIdx
        BY <3>1, <4>2, <4>4
      <4> QED BY <3>1, <4>3, <4>5, <4>6, CountParts
    <3>3. CASE ~(j \in Requests /\ req[j].kind = "checkin")
      <4>1. CheckinCount' = CheckinCount
        BY <1>0, <2>6, <3>3 DEF SubmitEvent, EventTypes
      <4>2. j \in Requests => req[j].kind = "cancel"
        BY <3>1, <3>3
      <4> HIDE DEF NetworkInv, TypeInv, TypeOK, PlaceInv
      <4> QED BY <3>1, <3>3, <4>1, <4>2, SMTT(30)
    <3> QED BY <3>2, <3>3
  <2>7. CASE Commit(j)
    <3>1. /\ UNCHANGED <<sched, schedSeq, log>> /\ pc[j] = "commit"
          /\ j \in Makers => pc'[j] \in {"ok", "threw"}
          /\ \A i \in Makers : i # j => pc'[i] = pc[i] /\ mem'[i] = mem[i]
          /\ \A i \in Makers : req'[i] = req[i]
      BY <1>6, <2>7 DEF Commit
    <3>2. CASE j \in Makers => pc'[j] = "threw"
      BY <3>1, <3>2, QuietMove
    <3>3. CASE j \in Requests /\ req[j].kind = "checkin" /\ pc'[j] = "ok"
      <4>1. schedSeq[j] = mem[j].liveIdx
        BY <3>1, <3>3 DEF ScheduleInv
      <4>2. CheckinCount' = CheckinCount /\ CheckinCount = mem[j].liveIdx
        BY <3>1, <3>3
      <4>3. \A m \in Makers : ~Recorded(m)
        BY <3>1, <3>3
      <4>4. \A i \in Requests : pc'[i] \notin {"submit", "commit"}
        BY <3>1, <3>3
      <4>5. pc[Arm] \in Finished /\ pc'[Arm] = pc[Arm]
        BY <3>1, <3>3
      <4>6. \A m \in Makers :
               pc'[m] = "ok" /\ sched'[m] = "pending" => m = j
        BY <3>1, <4>3
      <4> HIDE DEF NetworkInv, TypeInv, TypeOK, PlaceInv
      <4>7. \A i \in Requests : req'[i].kind = "cancel" => sched'[i] = "none"
        BY <3>1
      <4> QED BY <3>1, <4>1, <4>2, <4>4, <4>5, <4>6, <4>7, CountParts
    <3>4. CASE j \in Requests /\ req[j].kind = "cancel" /\ pc'[j] = "ok"
      <4>1. CheckinCount' = CheckinCount
        BY <3>1
      <4> HIDE DEF NetworkInv, TypeInv, TypeOK, PlaceInv
      <4> QED BY <3>1, <3>4, <4>1
    <3> QED BY <3>1, <3>2, <3>3, <3>4
  <2>8. CASE Reject(j)
    <3>1. /\ UNCHANGED <<sched, schedSeq, log>> /\ pc[j] = "reject"
          /\ j \in Makers => pc'[j] \in {"rejected", "threw"}
          /\ \A i \in Makers : i # j => pc'[i] = pc[i] /\ mem'[i] = mem[i]
          /\ \A i \in Makers : req'[i] = req[i]
      BY <1>6, <2>8 DEF Reject
    <3> QED BY <3>1, QuietMove
  <2> QED BY <1>6, <2>1, <2>2, <2>3, <2>4, <2>5, <2>6, <2>7, <2>8 DEF Executor
<1>7. CASE PollSkip
  BY <1>7 DEF PollSkip
<1>8. CASE PollRelease
  BY <1>8 DEF PollRelease
<1>9. CASE PublishCapsule
  <2>1. CheckinCount' = CheckinCount
    BY <1>0, <1>9 DEF PublishCapsule, FiredSeq, EventTypes, Request
  <2> QED BY <1>9, <2>1 DEF PublishCapsule
<1>10. CASE PayBounty
  BY <1>10 DEF PayBounty
<1>11. CASE PostBulletin
  <2>1. CheckinCount' = CheckinCount
    BY <1>0, <1>11 DEF PostBulletin, EventTypes, Request
  <2> QED BY <1>11, <2>1 DEF PostBulletin, BulletinFailed
<1>12. CASE ScanCancel
  BY <1>12, SMTT(30) DEF ScanCancel
<1>13. ASSUME NEW m \in Makers, Fire(m) PROVE CountInv'
  <2>1. CheckinCount' = CheckinCount
    BY <1>0, <1>13 DEF Fire, EventTypes
  <2> QED BY <1>13, <2>1 DEF Fire
<1>14. CASE Tick \/ SignCancel
  BY <1>14 DEF Tick, SignCancel
<1>15. CASE CrashWeb
  BY <1>15 DEF CrashWeb
<1>16. CASE CrashWatcher
  BY <1>16 DEF CrashWatcher
<1> QED
  BY <1>1, <1>2, <1>3, <1>4, <1>5, <1>6, <1>7, <1>8, <1>9, <1>10, <1>11,
     <1>12, <1>13, <1>14, <1>15, <1>16
     DEF Next, ArmStep, WatcherStep, Poll

-----------------------------------------------------------------------------
(* The period rule, and both invariants together.                          *)

\* A check-in that is past its guards has just loaded, or was there before.
LEMMA Admission ==
    ASSUME TypeInv, Next, NEW j \in Requests, req'[j].kind = "checkin",
           pc'[j] \in {"verify", "schedule", "delete", "submit"}
    PROVE  \/ Load(j) /\ pc'[j] = "verify"
           \/ /\ pc[j] \in {"verify", "schedule", "delete", "submit"}
              /\ req[j].kind = "checkin" /\ mem'[j] = mem[j]
<1> USE Constants DEF TypeInv, TypeOK, GoTo, Leave, Throw, procVars, Finished
<1>1. CASE ArmStep
  BY <1>1 DEF ArmStep, ArmBegin, ArmSubmit, ArmSchedule, ArmPersist
<1>2. ASSUME NEW i \in Requests, Post(i)
      PROVE  /\ pc[j] \in {"verify", "schedule", "delete", "submit"}
             /\ req[j].kind = "checkin" /\ mem'[j] = mem[j]
  BY <1>2 DEF Post
<1>3. ASSUME NEW i \in Requests \cup {Watcher}, Executor(i), i # j
      PROVE  /\ pc[j] \in {"verify", "schedule", "delete", "submit"}
             /\ req[j].kind = "checkin" /\ mem'[j] = mem[j]
  BY <1>3 DEF Executor, Load, VerifyCheckin, VerifyCancel, CreateSchedule,
              DeleteSchedule, SubmitEvent, Commit, Reject, ScheduleGone,
              ScheduleRefused
<1>4. CASE Executor(j)
  <2>1. CASE Load(j)
    BY <2>1 DEF Load
  <2>2. CASE VerifyCheckin(j) \/ VerifyCancel(j)
    BY <2>2 DEF VerifyCheckin, VerifyCancel
  <2>3. CASE CreateSchedule(j) \/ DeleteSchedule(j)
    <3>1. req' = req /\ pc[j] \in {"schedule", "delete"}
          /\ (mem' = mem \/ pc'[j] = "threw")
      BY <2>3 DEF CreateSchedule, DeleteSchedule, ScheduleGone,
                  ScheduleRefused
    <3> QED BY <3>1
  <2>4. CASE SubmitEvent(j) \/ Commit(j) \/ Reject(j)
    BY <2>4 DEF SubmitEvent, Commit, Reject
  <2> QED BY <1>4, <2>1, <2>2, <2>3, <2>4 DEF Executor
<1>5. CASE Poll \/ PublishCapsule \/ PayBounty \/ PostBulletin \/ ScanCancel
  BY <1>5 DEF Poll, PollSkip, PollRelease, PublishCapsule, PayBounty,
              PostBulletin, ScanCancel, BulletinFailed
<1>6. CASE Tick \/ SignCancel \/ CrashWatcher
           \/ \E m \in Makers : Fire(m)
  BY <1>6 DEF Tick, SignCancel, CrashWatcher, Fire
<1>7. CASE CrashWeb
  <2>1. \/ pc'[j] = pc[j] /\ pc[j] \in Finished \cup {"idle"}
        \/ pc'[j] = "threw"
    BY <1>7 DEF CrashWeb
  <2> QED BY <2>1
<1> QED BY <1>1, <1>2, <1>3, <1>4, <1>5, <1>6, <1>7 DEF Next, WatcherStep

LEMMA PeriodInvStep ==
    ASSUME TypeInv, PeriodInv, Next
    PROVE  PeriodInv'
<1> SUFFICES ASSUME NEW j \in Requests, req'[j].kind = "checkin",
                    pc'[j] \in {"verify", "schedule", "delete", "submit"},
                    mem'[j].liveIdx > 1
             PROVE  now' >= Deadline[mem'[j].liveIdx - 1]
  BY DEF PeriodInv
<1>1. now \in Nat /\ now' \in Nat /\ now <= now'
  BY ClockAdvances DEF TypeInv, TypeOK
<1>2. mem[j].liveIdx \in 0..N /\ disk.liveIdx \in 0..N
  BY DEF TypeInv, TypeOK, SwitchRecord
<1>3. \A i \in Rungs : Deadline[i] \in Nat
  BY Constants
<1>4. CASE Load(j) /\ pc'[j] = "verify"
  <2>1. mem'[j] = disk
    BY <1>4 DEF Load, TypeInv, TypeOK
  <2>2. CheckinAllowed(disk, req[j].seq)
    BY <1>4 DEF Load, TypeInv, TypeOK
  <2>3. now >= Deadline[disk.liveIdx - 1]
    BY <2>1, <2>2 DEF CheckinAllowed
  <2> QED BY <1>1, <1>2, <1>3, <2>1, <2>3, Constants
<1>5. CASE /\ pc[j] \in {"verify", "schedule", "delete", "submit"}
           /\ req[j].kind = "checkin" /\ mem'[j] = mem[j]
  <2>1. now >= Deadline[mem[j].liveIdx - 1]
    BY <1>5 DEF PeriodInv
  <2> QED BY <1>1, <1>2, <1>3, <1>5, <2>1, Constants
<1> QED BY <1>4, <1>5, Admission

CheckinInv == CountInv /\ PeriodInv

\* However many attempts failed half way, the recorded schedule carries the
\* number of check-ins on the topic, and each of them waited out its period.
THEOREM CheckinInvariant == Spec => []CheckinInv
<1>1. Init => CheckinInv
  <2> SUFFICES ASSUME Init PROVE CheckinInv
    OBVIOUS
  <2>1. {p \in 1..Len(log) : log[p].type = "CHECKIN_VERIFIED"} = {}
    BY DEF Init
  <2>2. CheckinCount = 0
    BY <2>1, FS_EmptySet DEF CheckinCount
  <2> QED BY <2>2, Constants
          DEF Init, CheckinInv, CountInv, PeriodInv, Recorded, NoRequest
<1>2. NetworkInv /\ TeardownInv /\ CheckinInv /\ [Next]_vars => CheckinInv'
  <2> SUFFICES ASSUME NetworkInv, TeardownInv, CheckinInv, [Next]_vars
               PROVE  CheckinInv'
    OBVIOUS
  <2>1. CASE UNCHANGED vars
    BY <2>1, QuietCount DEF vars, CheckinInv, CountInv, PeriodInv, Recorded
  <2>2. CASE Next
    BY <2>2, CountInvStep, PeriodInvStep
       DEF CheckinInv, NetworkInv, TeardownInv
  <2> QED BY <2>1, <2>2
<1> QED BY <1>1, <1>2, NetworkInvariant, TeardownInvariant, PTL DEF Spec

-----------------------------------------------------------------------------
(* The refinement.                                                         *)

\* What a step shows on the topic.
LEMMA QuietRungs ==
    ASSUME UNCHANGED log, NEW t \in EventTypes
    PROVE  PostedRungs(t)' = PostedRungs(t)
BY DEF PostedRungs, Posted

LEMMA EmitRungs ==
    ASSUME TypeInv, NEW t \in EventTypes, NEW u \in EventTypes,
           NEW s \in Seqs, Emit(u, s)
    PROVE  /\ u = t => PostedRungs(t)' = PostedRungs(t) \cup {s + 1}
           /\ u # t => PostedRungs(t)' = PostedRungs(t)
<1>1. log \in Seq(Event) /\ Len(log) \in Nat
  BY LenProperties DEF TypeInv, TypeOK
<1>2. /\ Len(log') = Len(log) + 1
      /\ \A p \in 1..Len(log) : log'[p] = log[p]
      /\ log'[Len(log) + 1] = Msg(u, s)
  BY <1>1, EmitAppends
<1>3. \A q : Msg(t, q) = Msg(u, s) <=> t = u /\ q = s
  BY DEF Msg
<1>4. \A q : (\E p \in 1..Len(log') : log'[p] = Msg(t, q))
                <=> Posted(t, q) \/ (t = u /\ q = s)
  BY <1>1, <1>2, <1>3 DEF Posted
<1>5. PostedRungs(t)' = {q + 1 : q \in {q \in Seqs :
                             \E p \in 1..Len(log') : log'[p] = Msg(t, q)}}
  BY DEF PostedRungs, Posted
<1>6. PostedRungs(t)' = {q + 1 : q \in {q \in Seqs :
                             Posted(t, q) \/ (t = u /\ q = s)}}
  BY <1>4, <1>5
<1> QED BY <1>6 DEF PostedRungs

LEMMA InitRefines == Init => Promise!Init
<1> SUFFICES ASSUME Init PROVE Promise!Init
  OBVIOUS
<1>1. log = <<>> /\ Len(log) = 0 /\ now = 0
  BY DEF Init
<1>2. {p \in 1..Len(log) : log[p].type = "CHECKIN_VERIFIED"} = {}
  BY <1>1
<1>3. CheckinCount = 0
  BY <1>2, FS_EmptySet DEF CheckinCount
<1>4. \A t : PostedRungs(t) = {}
  BY <1>1 DEF PostedRungs, Posted
<1> QED BY <1>1, <1>3, <1>4 DEF Promise!Init

\* A step of the system is a step of the promise, or the topic stays.
LEMMA StepRefines ==
    ASSUME NetworkInv, TopicInv, CheckinInv, Next
    PROVE  [Promise!Next]_(Promise!vars)
<1> USE DEF NetworkInv, TypeInv
<1>1. UNCHANGED now \/ Tick
  BY DEF Next, ArmStep, ArmBegin, ArmSubmit, ArmSchedule, ArmPersist, Post,
         Executor, Load, VerifyCheckin, VerifyCancel, CreateSchedule,
         DeleteSchedule, SubmitEvent, Commit, Reject, WatcherStep, Poll,
         PollSkip, PollRelease, PublishCapsule, PayBounty, PostBulletin,
         ScanCancel, SignCancel, Fire, CrashWeb, CrashWatcher, netVars
<1>2. /\ "RELEASE_AUTHORIZED" \in EventTypes
      /\ "CAPSULE_PUBLISHED" \in EventTypes /\ "BULLETIN" \in EventTypes
  BY DEF EventTypes
<1>3. CASE UNCHANGED log
  <2>1. /\ CheckinCount' = CheckinCount
        /\ \A t \in EventTypes : PostedRungs(t)' = PostedRungs(t)
    BY <1>3, QuietCount, QuietRungs
  <2>2. CASE Tick
    BY <1>2, <2>1, <2>2 DEF Tick, Promise!Next, Promise!Elapse
  <2>3. CASE UNCHANGED now
    BY <1>2, <2>1, <2>3 DEF Promise!vars
  <2> QED BY <1>1, <2>2, <2>3
<1>4. ASSUME NEW u \in EventTypes, NEW s \in Seqs, LogStep(u, s)
      PROVE  [Promise!Next]_(Promise!vars)
  <2>1. Emit(u, s)
    BY <1>4 DEF LogStep
  <2>2. UNCHANGED now
    <3>1. log' # log
      BY <2>1, EmitAppends, LenProperties DEF TypeOK
    <3> QED BY <1>1, <3>1 DEF Tick, chainVars
  <2>3. /\ u = "CHECKIN_VERIFIED" => CheckinCount' = CheckinCount + 1
        /\ u # "CHECKIN_VERIFIED" => CheckinCount' = CheckinCount
        /\ CheckinCount \in Nat
    BY <2>1, EmitCount, CheckinsFinite
  <2>4. /\ PostedRungs(u)' = PostedRungs(u) \cup {s + 1}
        /\ \A t \in EventTypes :
              t # u => PostedRungs(t)' = PostedRungs(t)
    BY <2>1, EmitRungs
  <2>5. s + 1 \in 1..N
    BY Constants
  <2>6. CASE u = "RELEASE_AUTHORIZED"
    <3>1. PICK m \in Makers :
             sched[m] = "pending" /\ s = schedSeq[m] /\ now >= expiry[m]
      BY <1>4, <2>6 DEF LogStep, Fire
    <3>2. Deadline[s + 1] - now < Second
      <4>1. expiry[m] = WholeSecond(Deadline[s + 1])
        BY <3>1 DEF ScheduleInv
      <4>2. Deadline[s + 1] \in Nat /\ now \in Nat
        BY <2>5, Constants DEF TypeOK
      <4>3. Deadline[s + 1] < WholeSecond(Deadline[s + 1]) + Second
            /\ WholeSecond(Deadline[s + 1]) \in Nat
        BY <4>2, SecondsRoundDown
      <4> QED BY <3>1, <4>1, <4>2, <4>3, BoundsAssumption
    <3>3. Promise!Expire(s + 1)
      BY <1>2, <2>2, <2>3, <2>4, <2>6, <3>2 DEF Promise!Expire
    <3> QED BY <2>5, <3>3 DEF Promise!Next
  <2>7. ASSUME u \in {"CAPSULE_PUBLISHED", "BULLETIN"}
        PROVE  s + 1 \in PostedRungs("RELEASE_AUTHORIZED")
    <3>1. req[Watcher].kind = "release" /\ s = req[Watcher].seq
      BY <1>4, <2>7 DEF LogStep, PlaceInv
    <3>2. /\ cursor \in Nat /\ cursor < Len(log) /\ Len(log) \in Nat
          /\ log[cursor + 1] = Msg("RELEASE_AUTHORIZED", s)
      BY <3>1, LenProperties DEF TopicInv, ReactionInv, TypeOK
    <3> QED BY <3>2 DEF PostedRungs, Posted
  <2>8. CASE u = "CAPSULE_PUBLISHED"
    <3>1. Promise!Open(s + 1)
      BY <1>2, <2>2, <2>3, <2>4, <2>7, <2>8 DEF Promise!Open
    <3> QED BY <2>5, <3>1 DEF Promise!Next
  <2>9. CASE u = "BULLETIN"
    <3>1. Promise!Announce(s + 1)
      BY <1>2, <2>2, <2>3, <2>4, <2>7, <2>9 DEF Promise!Announce
    <3> QED BY <2>5, <3>1 DEF Promise!Next
  <2>10. CASE u = "CHECKIN_VERIFIED"
    <3>1. PICK j \in Requests : SubmitEvent(j) /\ req[j].kind = "checkin"
      BY <1>4, <2>10 DEF LogStep
    <3>2. /\ mem[j].liveIdx = mem[j].seq + 1 /\ mem[j].liveIdx < N
          /\ CheckinCount = mem[j].seq /\ mem[j].seq \in Nat
      BY <3>1 DEF SubmitEvent, AdmittedInv, RecordInv, Consistent, CheckinInv,
                  CountInv, TypeOK, SwitchRecord
    <3>3. mem[j].liveIdx > 1 => now >= Deadline[mem[j].liveIdx - 1]
      BY <3>1 DEF SubmitEvent, CheckinInv, PeriodInv
    <3>4. 1 + CheckinCount = mem[j].liveIdx
      BY <3>2
    <3>5. Promise!Postpone
      BY <1>2, <2>2, <2>3, <2>4, <2>10, <3>2, <3>3, <3>4 DEF Promise!Postpone
    <3> QED BY <3>5 DEF Promise!Next
  <2>11. CASE u \in {"ARMED", "CANCELLED"}
    BY <1>2, <2>2, <2>3, <2>4, <2>11 DEF Promise!vars
  <2> QED BY <2>6, <2>8, <2>9, <2>10, <2>11 DEF EventTypes
<1> QED BY <1>3, <1>4, LogWriters

\* What everyone can read on the audit topic is what TimelockPromise allows:
\* check-ins move the live rung one by one and once per period, a rung fires
\* less than a second before its deadline at the earliest, and what is opened or
\* announced has fired.
THEOREM PromiseKept == Spec => KeepsPromise
<1>1. NetworkInv /\ TopicInv /\ CheckinInv /\ [Next]_vars
        => [Promise!Next]_(Promise!vars)
  <2> SUFFICES ASSUME NetworkInv, TopicInv, CheckinInv, [Next]_vars
               PROVE  [Promise!Next]_(Promise!vars)
    OBVIOUS
  <2>1. CASE UNCHANGED vars
    <3>1. CheckinCount' = CheckinCount /\ UNCHANGED <<log, now>>
      BY <2>1, QuietCount DEF vars
    <3>2. \A t \in EventTypes : PostedRungs(t)' = PostedRungs(t)
      BY <3>1, QuietRungs
    <3> QED BY <3>1, <3>2 DEF Promise!vars, EventTypes
  <2>2. CASE Next
    BY <2>2, StepRefines
  <2> QED BY <2>1, <2>2
<1> QED
  BY <1>1, InitRefines, NetworkInvariant, TopicInvariant, CheckinInvariant,
     PTL DEF Spec, KeepsPromise, Promise!Spec

-----------------------------------------------------------------------------
(* One check-in per period.                                                *)

\* The period before the last public check-in's is over.
PaceInv ==
    /\ CheckinCount < N
    /\ CheckinCount > 1 => now >= Deadline[CheckinCount - 1]

LEMMA PaceInvStep ==
    ASSUME NetworkInv, CheckinInv, PaceInv, Next
    PROVE  PaceInv'
<1> USE DEF NetworkInv, TypeInv, TypeOK
<1>1. now \in Nat /\ now' \in Nat /\ now <= now'
  BY ClockAdvances
<1>2. CheckinCount \in Nat /\ N \in Nat /\ \A i \in Rungs : Deadline[i] \in Nat
  BY CheckinsFinite, Constants
<1>3. CASE CheckinCount' = CheckinCount
  <2>1. CheckinCount > 1 => CheckinCount - 1 \in Rungs
    BY <1>2 DEF PaceInv
  <2> QED BY <1>1, <1>2, <1>3, <2>1 DEF PaceInv
<1>4. ASSUME NEW s \in Seqs, LogStep("CHECKIN_VERIFIED", s)
      PROVE  PaceInv'
  <2>1. PICK j \in Requests : SubmitEvent(j) /\ req[j].kind = "checkin"
    BY <1>4 DEF LogStep
  <2>2. /\ mem[j].liveIdx = mem[j].seq + 1 /\ mem[j].liveIdx < N
        /\ CheckinCount = mem[j].seq /\ mem[j].seq \in Nat
    BY <2>1 DEF SubmitEvent, AdmittedInv, RecordInv, Consistent, CheckinInv,
                CountInv, SwitchRecord
  <2>3. mem[j].liveIdx > 1 => now >= Deadline[mem[j].liveIdx - 1]
    BY <2>1 DEF SubmitEvent, CheckinInv, PeriodInv
  <2>4. CheckinCount' = mem[j].liveIdx
    BY <1>4, <2>2, EmitCount DEF LogStep, EventTypes
  <2> QED BY <1>1, <1>2, <2>2, <2>3, <2>4 DEF PaceInv
<1>5. \/ CheckinCount' = CheckinCount
      \/ \E s \in Seqs : LogStep("CHECKIN_VERIFIED", s)
  BY LogWriters, QuietCount, EmitCount DEF LogStep
<1> QED BY <1>3, <1>4, <1>5

\* With k check-ins on the topic, k-1 periods are over: the period guard holds
\* whatever failed or crashed between the attempts.
THEOREM CheckinsArePaced == Spec => []OneCheckinPerPeriod
<1>1. Init => PaceInv
  <2> SUFFICES ASSUME Init PROVE PaceInv
    OBVIOUS
  <2>1. {p \in 1..Len(log) : log[p].type = "CHECKIN_VERIFIED"} = {}
    BY DEF Init
  <2>2. CheckinCount = 0
    BY <2>1, FS_EmptySet DEF CheckinCount
  <2> QED BY <2>2, Constants DEF PaceInv
<1>2. NetworkInv /\ CheckinInv /\ PaceInv /\ [Next]_vars => PaceInv'
  <2> SUFFICES ASSUME NetworkInv, CheckinInv, PaceInv, [Next]_vars
               PROVE  PaceInv'
    OBVIOUS
  <2>1. CASE UNCHANGED vars
    BY <2>1, QuietCount DEF vars, PaceInv
  <2>2. CASE Next
    BY <2>2, PaceInvStep
  <2> QED BY <2>1, <2>2
<1>3. NetworkInv /\ PaceInv => OneCheckinPerPeriod
  <2> SUFFICES ASSUME NetworkInv, PaceInv PROVE OneCheckinPerPeriod
    OBVIOUS
  <2> DEFINE over == {i \in Rungs : Deadline[i] <= now}
             paced == 1..(CheckinCount - 1)
  <2>1. /\ CheckinCount \in Nat /\ now \in Nat /\ N \in Nat
        /\ \A i \in Rungs : Deadline[i] \in Nat
    BY CheckinsFinite, Constants DEF NetworkInv, TypeInv, TypeOK
  <2>2. \A i, k \in Rungs : i < k => Deadline[i] < Deadline[k]
    BY DeadlineAssumption
  <2>3. paced \subseteq over
    <3>1. ASSUME NEW i \in paced PROVE i \in over
      <4>1. i \in Rungs /\ CheckinCount - 1 \in Rungs /\ i <= CheckinCount - 1
            /\ Deadline[CheckinCount - 1] <= now
        BY <2>1, <3>1 DEF PaceInv
      <4>2. Deadline[i] <= Deadline[CheckinCount - 1]
        BY <2>1, <2>2, <4>1
      <4> QED BY <2>1, <4>1, <4>2
    <3> QED BY <3>1
  <2>4. IsFiniteSet(over)
    <3>1. IsFiniteSet(1..N)
      BY <2>1, FS_Interval
    <3> QED BY <3>1, FS_Subset
  <2>5. Cardinality(paced) <= Cardinality(over)
    BY <2>3, <2>4, FS_Subset
  <2>6. Cardinality(paced) = IF 1 > CheckinCount - 1 THEN 0
                             ELSE CheckinCount - 1
    <3>1. CheckinCount - 1 \in Int
      BY <2>1
    <3> QED BY <2>1, <3>1, FS_Interval
  <2>7. Cardinality(over) \in Nat
    BY <2>4, FS_CardinalityType
  <2> QED BY <2>1, <2>5, <2>6, <2>7 DEF OneCheckinPerPeriod
<1> QED
  BY <1>1, <1>2, <1>3, NetworkInvariant, CheckinInvariant, PTL DEF Spec

-----------------------------------------------------------------------------
(* What the topic, the schedules and the answers tell of each other.       *)

\* No check-in event is ahead of the count, every release event was posted by
\* a schedule that has executed, and an answered check-in is on the topic.
HistoryInv ==
    /\ \A q \in Seqs : Posted("CHECKIN_VERIFIED", q) => q <= CheckinCount
    /\ \A q \in Seqs : Posted("RELEASE_AUTHORIZED", q) =>
          \E m \in Makers : sched[m] = "executed" /\ schedSeq[m] = q
    /\ \A j \in Requests :
          /\ pc[j] \in {"reject", "rejected"} => sched[j] = "none"
          /\ req[j].kind = "checkin" =>
                /\ pc[j] \in {"verify", "schedule", "delete", "submit",
                              "commit"} => req[j].seq = mem[j].seq
                /\ pc[j] = "ok" => req[j].seq < CheckinCount

\* The count never falls.
LEMMA CountGrows ==
    ASSUME TypeInv, Next
    PROVE  /\ CheckinCount \in Nat /\ CheckinCount' \in Nat
           /\ CheckinCount <= CheckinCount'
<1>1. CheckinCount \in Nat
  BY CheckinsFinite
<1>2. \/ UNCHANGED log
      \/ \E t \in EventTypes, s \in Seqs : Emit(t, s)
  BY LogWriters DEF LogStep
<1>3. CheckinCount' \in {CheckinCount, CheckinCount + 1}
  BY <1>2, QuietCount, EmitCount
<1> QED BY <1>1, <1>3

\* An executed schedule stays executed.
LEMMA ExecutedStays ==
    ASSUME TypeInv, ScheduleInv, Next, NEW m \in Makers, sched[m] = "executed"
    PROVE  sched'[m] = "executed" /\ schedSeq'[m] = schedSeq[m]
<1> USE Constants DEF TypeInv, TypeOK, ScheduleInv
<1>1. schedSeq'[m] = schedSeq[m]
  BY SchedulesAreKept DEF SchedulesKept
<1>2. sched'[m] = "executed"
  BY ScheduleWriters DEF ArmSchedule, CreateSchedule, DeleteSchedule, Fire,
                         ScheduleRelease
<1> QED BY <1>1, <1>2

LEMMA HistoryInvStep ==
    ASSUME NetworkInv, CheckinInv, HistoryInv, Next
    PROVE  HistoryInv'
<1> USE Constants DEF NetworkInv, TypeInv, TypeOK
<1>1. CheckinCount \in Nat /\ CheckinCount' \in Nat
      /\ CheckinCount <= CheckinCount'
  BY CountGrows
<1>2. ASSUME NEW q \in Seqs,
             \E p \in 1..Len(log') : log'[p] = Msg("CHECKIN_VERIFIED", q)
      PROVE  q <= CheckinCount'
  <2>1. CASE Posted("CHECKIN_VERIFIED", q)
    BY <1>1, <2>1 DEF HistoryInv
  <2>2. CASE LogStep("CHECKIN_VERIFIED", q)
    <3>1. PICK j \in Requests : SubmitEvent(j) /\ req[j].kind = "checkin"
      BY <2>2 DEF LogStep
    <3>2. /\ mem[j].liveIdx = mem[j].seq + 1 /\ CheckinCount = mem[j].seq
          /\ mem[j].liveIdx \in Seqs
      BY <3>1 DEF SubmitEvent, AdmittedInv, RecordInv, Consistent, CheckinInv,
                  CountInv, SwitchRecord
    <3>3. /\ log' # log /\ Emit("CHECKIN_VERIFIED", q)
          /\ log'[Len(log) + 1] = Msg("CHECKIN_VERIFIED", q)
      BY <2>2, EmitAppends, LenProperties DEF LogStep, EventTypes
    <3>4. Emit("CHECKIN_VERIFIED", mem[j].liveIdx)
      BY <3>1, <3>3 DEF SubmitEvent
    <3>5. log'[Len(log) + 1] = Msg("CHECKIN_VERIFIED", mem[j].liveIdx)
      BY <3>2, <3>4, EmitAppends DEF EventTypes
    <3>6. q = mem[j].liveIdx
      BY <3>3, <3>5 DEF Msg
    <3>7. CheckinCount' = CheckinCount + 1
      BY <3>3, EmitCount DEF EventTypes
    <3> QED BY <3>2, <3>6, <3>7
  <2> QED BY <1>2, <2>1, <2>2, PostedNew DEF EventTypes
<1>3. ASSUME NEW q \in Seqs,
             \E p \in 1..Len(log') : log'[p] = Msg("RELEASE_AUTHORIZED", q)
      PROVE  \E m \in Makers : sched'[m] = "executed" /\ schedSeq'[m] = q
  <2>1. CASE Posted("RELEASE_AUTHORIZED", q)
    BY <2>1, ExecutedStays DEF HistoryInv
  <2>2. CASE LogStep("RELEASE_AUTHORIZED", q)
    BY <2>2 DEF LogStep, Fire
  <2> QED BY <1>3, <2>1, <2>2, PostedNew DEF EventTypes
<1>4. ASSUME NEW j \in Requests
      PROVE  /\ pc'[j] \in {"reject", "rejected"} => sched'[j] = "none"
             /\ req'[j].kind = "checkin" =>
                   /\ pc'[j] \in {"verify", "schedule", "delete", "submit",
                                  "commit"} => req'[j].seq = mem'[j].seq
                   /\ pc'[j] = "ok" => req'[j].seq < CheckinCount'
  <2>1. /\ pc[j] \in {"reject", "rejected"} => sched[j] = "none"
        /\ req[j].kind = "checkin" =>
              /\ pc[j] \in {"verify", "schedule", "delete", "submit",
                            "commit"} => req[j].seq = mem[j].seq
              /\ pc[j] = "ok" => req[j].seq < CheckinCount
        /\ req[j].seq \in Nat
    BY DEF HistoryInv, Request
  <2> USE DEF GoTo, Leave, Throw, chainVars, procVars, Finished
  <2>2. CASE ArmStep
    <3>1. req' = req /\ pc'[j] = pc[j] /\ mem'[j] = mem[j]
      BY <2>2 DEF ArmStep, ArmBegin, ArmSubmit, ArmSchedule, ArmPersist
    <3>2. sched'[j] = sched[j]
      BY <2>2 DEF ArmStep, ArmBegin, ArmSubmit, ArmSchedule, ArmPersist,
                  ScheduleRelease
    <3> QED BY <1>1, <2>1, <3>1, <3>2
  <2>3. ASSUME NEW i \in Requests, Post(i)
        PROVE  /\ sched' = sched /\ mem' = mem
               /\ \/ pc'[j] = pc[j] /\ req'[j] = req[j]
                  \/ pc'[j] = "queued"
    BY <2>3 DEF Post
  <2>4. ASSUME NEW i \in Requests \cup {Watcher}, Executor(i), i # j
        PROVE  /\ pc'[j] = pc[j] /\ req'[j] = req[j] /\ mem'[j] = mem[j]
               /\ sched[j] = "none" => sched'[j] = "none"
    <3>1. pc'[j] = pc[j] /\ req'[j] = req[j] /\ mem'[j] = mem[j]
      BY <2>4 DEF Executor, Load, VerifyCheckin, VerifyCancel, CreateSchedule,
              DeleteSchedule, SubmitEvent, Commit, Reject, ScheduleGone,
              ScheduleRefused
    <3>2. sched[j] = "none" => sched'[j] = "none"
      BY <2>4 DEF Executor, Load, VerifyCheckin, VerifyCancel, CreateSchedule,
              DeleteSchedule, SubmitEvent, Commit, Reject, ScheduleRelease
    <3> QED BY <3>1, <3>2
  <2>5. CASE Executor(j)
    <3>1. CASE Load(j)
      BY <2>1, <3>1 DEF Load, CheckinAllowed, ScheduleInv
    <3>2. CASE VerifyCheckin(j) \/ VerifyCancel(j)
      BY <2>1, <3>2 DEF VerifyCheckin, VerifyCancel, ScheduleInv
    <3>3. CASE CreateSchedule(j)
      <4>1. /\ req' = req /\ pc[j] = "schedule"
            /\ \/ mem' = mem /\ pc'[j] \in {"delete", "submit"}
               \/ pc'[j] = "threw"
        BY <3>3 DEF CreateSchedule, ScheduleRefused, AfterCreate
      <4> QED BY <2>1, <4>1
    <3>4. CASE DeleteSchedule(j)
      <4>1. /\ req' = req /\ pc[j] = "delete"
            /\ \/ mem' = mem /\ pc'[j] = "submit"
               \/ pc'[j] = "threw"
        BY <3>4 DEF DeleteSchedule, ScheduleGone
      <4> QED BY <2>1, <4>1
    <3>5. CASE SubmitEvent(j)
      BY <2>1, <3>5 DEF SubmitEvent
    <3>6. CASE Commit(j)
      <4>1. /\ req' = req /\ pc[j] = "commit" /\ pc'[j] \in {"ok", "threw"}
        BY <3>6 DEF Commit
      <4>2. req[j].kind = "checkin" => req[j].seq < CheckinCount
        BY <2>1, <4>1 DEF CheckinInv, CountInv, RecordInv, AdmittedInv,
                          Consistent, SwitchRecord
      <4> QED BY <1>1, <2>1, <4>1, <4>2
    <3>7. CASE Reject(j)
      BY <2>1, <3>7 DEF Reject
    <3> QED BY <2>5, <3>1, <3>2, <3>3, <3>4, <3>5, <3>6, <3>7 DEF Executor
  <2>6. ASSUME Poll \/ PublishCapsule \/ PayBounty \/ PostBulletin \/ ScanCancel
        PROVE  /\ pc'[j] = pc[j] /\ req'[j] = req[j] /\ mem'[j] = mem[j]
               /\ sched' = sched
    BY <2>6 DEF Poll, PollSkip, PollRelease, PublishCapsule, PayBounty,
                PostBulletin, ScanCancel, BulletinFailed
  <2>7. ASSUME \/ Tick \/ SignCancel \/ CrashWeb \/ CrashWatcher
               \/ \E m \in Makers : Fire(m)
        PROVE  /\ sched[j] = "none" => sched'[j] = "none"
               /\ req'[j] = req[j]
               /\ \/ pc'[j] = pc[j] /\ mem'[j] = mem[j]
                  \/ pc'[j] = pc[j] /\ pc[j] \in Finished \cup {"idle"}
                  \/ pc'[j] = "threw"
    <3>1. CASE Tick \/ SignCancel \/ \E m \in Makers : Fire(m)
      BY <3>1 DEF Tick, SignCancel, Fire
    <3>2. CASE CrashWeb \/ CrashWatcher
      BY <3>2 DEF CrashWeb, CrashWatcher
    <3> QED BY <2>7, <3>1, <3>2
  <2> HIDE DEF NetworkInv, TypeInv, TypeOK, GoTo, Leave, Throw, chainVars,
               procVars
  <2> QED BY <1>1, <2>1, <2>2, <2>3, <2>4, <2>5, <2>6, <2>7
          DEF Next, WatcherStep
<1> QED BY <1>2, <1>3, <1>4 DEF HistoryInv, Posted

-----------------------------------------------------------------------------
(* The schedules in step with the topic.                                   *)

\* The one an answered request recorded, and the one that a request left when
\* it failed.
Answered(m) == pc[m] = "ok" /\ Live(m)
LeftOver(m) == pc[m] = "threw" /\ Live(m)

\* A check-in that has deleted the recorded schedule.
Advances(j) == req[j].kind = "checkin" /\ pc[j] \in {"submit", "commit"}

\* A record that is up to date with the topic and the network, and one that a
\* posted check-in was not saved in: the schedule it names is gone.
Current(r) ==
    /\ r.seq = CheckinCount
    /\ \A i \in Makers : Recorded(i) => i = r.scheduleId
Stranded(r) ==
    /\ r.seq + 1 = CheckinCount
    /\ \A i \in Makers : ~Recorded(i)

UpToDate(r) == Current(r) \/ Stranded(r)

\* The two accidents that matter, out of all that may fail or crash: a failed
\* check-in leaves its schedule beside the recorded one, or the watcher is about
\* to save back a record that it loaded as ACTIVE.
Undisturbed ==
    /\ \A m, i \in Makers : LeftOver(m) => ~Recorded(i)
    /\ pc[Watcher] = "reject" => mem[Watcher].status # "ACTIVE"

\* No live schedule releases a rung that a check-in on the topic has burned.
FloorInv == \A m \in Makers : Live(m) => schedSeq[m] >= CheckinCount

\* A check-in goes on only when it leaves no schedule but its own behind.
LiveInv ==
    /\ \A m, i \in Makers : Answered(m) /\ Answered(i) => i = m
    /\ \A j \in Requests :
          Advances(j) => \A m \in Makers : ~Answered(m) /\ ~LeftOver(m)
    /\ pc[Arm] = "rejected" => sched[Arm] = "none"

\* The record and what a request has loaded of it are up to date or lead
\* nowhere.
FreshInv ==
    /\ disk.status = "ACTIVE" => UpToDate(disk)
    /\ \A j \in Requests : pc[j] \in InLock =>
          /\ pc[j] # "commit" /\ mem[j].status = "ACTIVE"
                => UpToDate(mem[j])
          /\ disk.status = "ACTIVE" => mem[j] = disk

InStep == FloorInv /\ LiveInv /\ FreshInv

\* What is up to date stays so unless a check-in is posted or recorded.
LEMMA StaysUpToDate ==
    ASSUME CheckinCount' = CheckinCount,
           \A i \in Makers : pc'[i] = "ok" /\ sched'[i] = "pending"
              => Recorded(i)
    PROVE  \A r : UpToDate(r) =>
              \/ /\ r.seq = CheckinCount'
                 /\ \A i \in Makers : pc'[i] = "ok" /\ sched'[i] = "pending"
                       => i = r.scheduleId
              \/ /\ r.seq + 1 = CheckinCount'
                 /\ \A i \in Makers : ~(pc'[i] = "ok" /\ sched'[i] = "pending")
BY DEF UpToDate, Current, Stranded

\* A step that leaves the jobs of the web process, or crashes them, and adds no
\* schedule.
QuietStep ==
    /\ CheckinCount' = CheckinCount /\ schedSeq' = schedSeq
    /\ \A m \in Makers :
          /\ req'[m] = req[m]
          /\ \/ pc'[m] = pc[m] /\ mem'[m] = mem[m]
             \/ pc'[m] = pc[m] /\ pc[m] \in Finished \cup {"idle"}
             \/ pc'[m] = "threw"
          /\ \/ sched'[m] = sched[m]
             \/ sched[m] = "pending" /\ sched'[m] \in {"deleted", "executed"}
    /\ \/ \A m \in Makers : pc'[m] = pc[m]
       \/ Fault /\ \A m \in Makers : pc'[m] \in Finished \cup {"idle"}
    /\ disk' = disk \/ disk'.status # "ACTIVE"

LEMMA QuietInStep ==
    ASSUME InStep, QuietStep
    PROVE  InStep'
<1> USE Constants DEF InStep, QuietStep
<1>1. FloorInv'
  BY DEF FloorInv, Live
<1>2. \A m \in Makers :
         /\ pc'[m] = "ok" /\ sched'[m] \in {"pending", "executed"}
               => Answered(m)
         /\ pc'[m] = "ok" /\ sched'[m] = "pending" => Recorded(m)
         /\ pc'[m] \in {"ok", "rejected"} => pc'[m] = pc[m]
  BY DEF Answered, Recorded, Live
<1>3. LiveInv'
  <2>1. ASSUME NEW j \in Requests, req'[j].kind = "checkin",
               pc'[j] \in {"submit", "commit"}
        PROVE  /\ Advances(j)
               /\ \A m \in Makers : pc'[m] = pc[m]
    BY <2>1 DEF Advances, Finished
  <2>2. pc'[Arm] = "rejected" => sched'[Arm] = "none"
    BY <1>2 DEF LiveInv
  <2>3. \A m \in Makers : sched'[m] \in {"pending", "executed"} => Live(m)
    BY DEF Live
  <2> HIDE DEF QuietStep
  <2> QED BY <1>2, <2>1, <2>2, <2>3
          DEF LiveInv, Answered, LeftOver, Advances, Live
<1>4. FreshInv'
  <2>1. \A j \in Requests :
           pc'[j] \in InLock => pc'[j] = pc[j] /\ mem'[j] = mem[j]
    BY DEF InLock, Finished
  <2> QED BY <1>2, <2>1, StaysUpToDate
          DEF FreshInv, UpToDate, Current, Stranded, Recorded
<1> QED BY <1>1, <1>3, <1>4

\* The steps of the watcher, the network, the clock and the crashes are quiet.
LEMMA OthersAreQuiet ==
    ASSUME NetworkInv, Undisturbed, Next
    PROVE  \/ QuietStep
           \/ ArmStep
           \/ \E j \in Requests : Post(j) \/ Executor(j)
<1> USE Constants DEF NetworkInv, TypeInv, TypeOK, QuietStep, GoTo, Leave,
        Throw, chainVars, procVars
<1>0. \A t \in EventTypes, s \in Seqs :
         Emit(t, s) /\ t # "CHECKIN_VERIFIED" => CheckinCount' = CheckinCount
  BY EmitCount
<1>1. CASE Executor(Watcher)
  <2>1. CASE Load(Watcher) \/ VerifyCancel(Watcher)
    BY <2>1, QuietCount DEF Load, VerifyCancel
  <2>2. CASE DeleteSchedule(Watcher)
    BY <2>2, QuietCount DEF DeleteSchedule, ScheduleGone
  <2>3. CASE SubmitEvent(Watcher)
    BY <1>0, <2>3, QuietCount DEF SubmitEvent, PlaceInv, EventTypes
  <2>4. CASE Commit(Watcher)
    <3>1. CASE req[Watcher].kind = "cancel"
      <4>1. Cancelled(mem[Watcher]).status = "CANCELLED"
        BY DEF Cancelled, SwitchRecord
      <4> QED BY <2>4, <3>1, <4>1, QuietCount DEF Commit, Updated
    <3>2. CASE req[Watcher].kind = "release"
      <4>1. Released(mem[Watcher], req[Watcher].seq).status = "RELEASED"
        BY DEF Released, SwitchRecord
      <4> QED BY <2>4, <3>2, <4>1, QuietCount DEF Commit, Updated
    <3> QED BY <2>4, <3>1, <3>2 DEF Commit, PlaceInv
  <2>5. CASE Reject(Watcher)
    BY <2>5, QuietCount DEF Reject, Undisturbed
  <2> QED BY <1>1, <2>1, <2>2, <2>3, <2>4, <2>5
          DEF Executor, VerifyCheckin, CreateSchedule, PlaceInv
<1>2. CASE Poll \/ PayBounty \/ ScanCancel
  BY <1>2, QuietCount DEF Poll, PollSkip, PollRelease, PayBounty, ScanCancel
<1>3. CASE PublishCapsule \/ PostBulletin
  <2>1. CheckinCount' = CheckinCount
    BY <1>0, <1>3, QuietCount
       DEF PublishCapsule, PostBulletin, FiredSeq, EventTypes, Request
  <2> QED BY <1>3, <2>1 DEF PublishCapsule, PostBulletin, BulletinFailed
<1>4. ASSUME NEW m \in Makers, Fire(m) PROVE QuietStep
  <2>1. CheckinCount' = CheckinCount
    BY <1>0, <1>4 DEF Fire, EventTypes
  <2> QED BY <1>4, <2>1 DEF Fire
<1>5. CASE Tick \/ SignCancel \/ CrashWatcher
  BY <1>5, QuietCount DEF Tick, SignCancel, CrashWatcher
<1>6. CASE CrashWeb
  BY <1>6, QuietCount DEF CrashWeb, Finished
<1> QED BY <1>1, <1>2, <1>3, <1>4, <1>5, <1>6 DEF Next, WatcherStep

\* The rest are the steps of one request, which leaves the other jobs alone.
Alone(j) ==
    \A i \in Jobs :
        i # j => pc'[i] = pc[i] /\ mem'[i] = mem[i] /\ req'[i] = req[i]

LEMMA OneRequest ==
    ASSUME TypeInv, NEW j \in Requests, Post(j) \/ Executor(j)
    PROVE  /\ Alone(j)
           /\ pc[j] \notin {"idle", "ok", "threw", "rejected"} \/ Post(j)
           /\ pc[j] \notin {"idle", "queued"} \/ Load(j) =>
                 \A i \in Requests : i # j => pc[i] \notin InLock
<1> USE Constants DEF TypeInv, TypeOK, Alone, GoTo, Leave, Throw, procVars
<1>1. CASE Post(j)
  BY <1>1 DEF Post, Load
<1>2. CASE Executor(j)
  <2>1. Alone(j)
    BY <1>2 DEF Executor, Load, VerifyCheckin, VerifyCancel, CreateSchedule,
                DeleteSchedule, SubmitEvent, Commit, Reject, ScheduleGone,
                ScheduleRefused
  <2>2. \/ pc[j] \in InLock
        \/ pc[j] = "queued" /\ Load(j) /\ chain # <<>> /\ Head(chain) = j
    BY <1>2 DEF Executor, Load, VerifyCheckin, VerifyCancel, CreateSchedule,
                DeleteSchedule, SubmitEvent, Commit, Reject, InLock, Runs
  <2>3. \A i \in Requests : i # j => pc[i] \notin InLock
    BY <2>2 DEF PlaceInv
  <2> QED BY <2>1, <2>2, <2>3 DEF InLock
<1> QED BY <1>1, <1>2

\* A request that moves on, or fails, without a new answer and without the
\* network.
MoveStep(j) ==
    /\ CheckinCount' = CheckinCount /\ UNCHANGED <<sched, schedSeq>>
    /\ pc[j] \notin {"ok", "threw"} /\ pc'[j] # "ok"
    /\ pc'[j] \in {"submit", "commit"} => req'[j].kind = "cancel"
    /\ pc'[j] = "threw" => \A i \in Requests : i # j => pc[i] \notin InLock
    /\ pc'[j] \in InLock =>
          /\ pc'[j] # "commit" /\ mem'[j].status = "ACTIVE"
                => UpToDate(mem'[j])
          /\ disk.status = "ACTIVE" => mem'[j] = disk
    /\ \/ disk' = disk
       \/ /\ disk' = mem[j] /\ (mem[j].status = "ACTIVE" => UpToDate(mem[j]))
          /\ pc'[j] \notin InLock
          /\ \A i \in Requests : i # j => pc[i] \notin InLock

LEMMA MoveInStep ==
    ASSUME InStep, TypeInv, NEW j \in Requests, Alone(j), MoveStep(j)
    PROVE  InStep'
<1> USE Constants DEF InStep, MoveStep, Alone
<1>1. FloorInv'
  BY DEF FloorInv, Live
<1>2. \A m \in Makers :
         /\ (pc'[m] = "ok" /\ Live(m)) => Answered(m)
         /\ (pc'[m] = "ok" /\ sched'[m] = "pending") => Recorded(m)
         /\ m # j => (LeftOver(m) <=> (pc'[m] = "threw" /\ Live(m)))
         /\ sched'[m] \in {"pending", "executed"} <=> Live(m)
  BY DEF Answered, LeftOver, Recorded, Live, TypeInv, TypeOK
<1>3. LiveInv'
  <2>1. \A i \in Requests :
           req'[i].kind = "checkin" /\ pc'[i] \in {"submit", "commit"} =>
              i # j /\ Advances(i) /\ pc[i] \in InLock
    BY DEF Advances, InLock
  <2>2. pc'[Arm] = pc[Arm] /\ sched'[Arm] = sched[Arm]
    OBVIOUS
  <2>3. pc'[j] = "threw" => \A i \in Requests : i # j => pc[i] \notin InLock
    OBVIOUS
  <2> HIDE DEF MoveStep, Alone
  <2> QED BY <1>2, <2>1, <2>2, <2>3
          DEF LiveInv, Answered, LeftOver, Advances, Live
<1>4. FreshInv'
  <2>1. ASSUME NEW i \in Requests, pc'[i] \in InLock, i # j
        PROVE  disk' = disk /\ pc'[i] = pc[i] /\ mem'[i] = mem[i]
    BY <2>1
  <2>2. pc'[j] \in InLock => disk' = disk
    OBVIOUS
  <2>3. disk'.status = "ACTIVE" => UpToDate(disk')
    BY DEF FreshInv
  <2>4. \A i \in Requests : pc'[i] \in InLock =>
           /\ pc'[i] # "commit" /\ mem'[i].status = "ACTIVE"
                 => UpToDate(mem'[i])
           /\ disk'.status = "ACTIVE" => mem'[i] = disk'
    BY <2>1, <2>2 DEF FreshInv
  <2> HIDE DEF MoveStep, Alone
  <2> QED BY <1>2, <2>3, <2>4, StaysUpToDate
          DEF FreshInv, UpToDate, Current, Stranded, Recorded, MoveStep
<1> QED BY <1>1, <1>3, <1>4

\* Posting, loading, verifying, rejecting, and whatever fails before it reaches
\* the network are such moves.
LEMMA MovesOf ==
    ASSUME NetworkInv, FreshInv, NEW j \in Requests,
           \/ Post(j) \/ Load(j) \/ VerifyCheckin(j) \/ VerifyCancel(j)
           \/ CreateSchedule(j) /\ UNCHANGED sched
           \/ DeleteSchedule(j) /\ UNCHANGED sched /\ pc'[j] = "threw"
           \/ SubmitEvent(j) /\ (req[j].kind = "cancel" \/ UNCHANGED log)
           \/ Commit(j) /\ pc'[j] = "threw"
           \/ Reject(j)
    PROVE  MoveStep(j)
<1> USE Constants DEF NetworkInv, TypeInv, TypeOK, MoveStep, GoTo, Leave,
        Throw, chainVars, procVars, InLock
<1>0. pc[j] \in InLock => \A i \in Requests : i # j => pc[i] \notin InLock
  BY DEF PlaceInv
<1>1. CASE Post(j)
  BY <1>1, QuietCount DEF Post
<1>2. CASE Load(j)
  <2>1. /\ pc[j] = "queued" /\ pc'[j] \in {"verify", "reject"}
        /\ mem'[j] = disk /\ disk' = disk /\ UNCHANGED <<sched, schedSeq, log>>
    BY <1>2 DEF Load
  <2>2. disk.status = "ACTIVE" => UpToDate(disk)
    BY DEF FreshInv
  <2> HIDE DEF NetworkInv, TypeInv, TypeOK
  <2> QED BY <2>1, <2>2, QuietCount
<1>3. CASE VerifyCheckin(j) \/ VerifyCancel(j)
  BY <1>0, <1>3, QuietCount DEF VerifyCheckin, VerifyCancel, FreshInv
<1>4. CASE CreateSchedule(j) /\ UNCHANGED sched
  <2>1. sched[j] = "none"
    BY <1>4 DEF CreateSchedule, ScheduleInv
  <2>2. /\ pc[j] = "schedule" /\ pc'[j] = "threw" /\ disk' = disk
        /\ UNCHANGED <<sched, schedSeq, log>>
    BY <1>4, <2>1 DEF CreateSchedule, ScheduleRelease, ScheduleRefused
  <2> QED BY <1>0, <2>2, QuietCount
<1>5. CASE DeleteSchedule(j) /\ UNCHANGED sched /\ pc'[j] = "threw"
  BY <1>0, <1>5, QuietCount DEF DeleteSchedule
<1>6. CASE Reject(j)
  <2>1. /\ pc[j] = "reject" /\ pc'[j] \in {"rejected", "threw"}
        /\ disk' \in {disk, mem[j]} /\ UNCHANGED <<sched, schedSeq, log>>
    BY <1>6 DEF Reject
  <2>2. mem[j].status = "ACTIVE" => UpToDate(mem[j])
    BY <2>1 DEF FreshInv
  <2> QED BY <1>0, <2>1, <2>2, QuietCount
<1>7. CASE SubmitEvent(j) /\ (req[j].kind = "cancel" \/ UNCHANGED log)
  <2>1. CheckinCount' = CheckinCount
    BY <1>7, QuietCount, EmitCount DEF SubmitEvent, EventTypes
  <2>2. /\ pc[j] = "submit" /\ UNCHANGED <<sched, schedSeq, disk, req>>
        /\ \/ pc'[j] = "threw"
           \/ pc'[j] = "commit" /\ mem' = mem /\ req[j].kind = "cancel"
    <3>1. CASE UNCHANGED log
      BY <1>7, <3>1, EmitAppends, LenProperties
         DEF SubmitEvent, PlaceInv, EventTypes, AdmittedInv, RecordInv,
             Consistent, SwitchRecord
    <3>2. CASE req[j].kind = "cancel"
      BY <1>7, <3>2 DEF SubmitEvent
    <3> QED BY <1>7, <3>1, <3>2
  <2> QED BY <1>0, <2>1, <2>2 DEF FreshInv
<1>8. CASE Commit(j) /\ pc'[j] = "threw"
  BY <1>0, <1>8, QuietCount DEF Commit
<1> QED BY <1>1, <1>2, <1>3, <1>4, <1>5, <1>6, <1>7, <1>8

\* The check-in's own schedule is for a rung that no check-in has burned yet.
LEMMA CreateInStep ==
    ASSUME NetworkInv, InStep, NEW j \in Requests, Alone(j),
           CreateSchedule(j), ~UNCHANGED sched,
           \A i \in Requests : i # j => pc[i] \notin InLock
    PROVE  InStep'
<1> USE Constants DEF NetworkInv, TypeInv, TypeOK
<1>1. /\ pc[j] = "schedule" /\ req[j].kind = "checkin" /\ sched[j] = "none"
      /\ mem[j].status = "ACTIVE" /\ mem[j].liveIdx = mem[j].seq + 1
      /\ mem[j].seq \in Nat /\ mem[j].scheduleId # NoSchedule
      /\ UpToDate(mem[j])
  BY DEF CreateSchedule, PlaceInv, ScheduleInv, AdmittedInv, RecordInv,
         Consistent, InStep, FreshInv, InLock, SwitchRecord
<1>2. /\ sched' = [sched EXCEPT ![j] = "pending"]
      /\ schedSeq' = [schedSeq EXCEPT ![j] = mem[j].liveIdx]
      /\ \/ pc'[j] = "delete" /\ mem'[j] = mem[j]
         \/ pc'[j] = "threw"
      /\ req' = req /\ UNCHANGED <<log, disk>>
  BY <1>1 DEF CreateSchedule, ScheduleRelease, ScheduleRefused, Throw, GoTo,
              Leave, AfterCreate
<1>3. CheckinCount' = CheckinCount /\ mem[j].liveIdx >= CheckinCount
      /\ CheckinCount \in Nat
  BY <1>1, <1>2, QuietCount, CheckinsFinite DEF UpToDate, Current, Stranded
<1>4. \A m \in Makers :
         /\ pc'[m] = "ok" /\ sched'[m] = "pending" => Recorded(m)
         /\ pc'[m] = "ok" /\ sched'[m] \in {"pending", "executed"}
               => Answered(m)
  BY <1>1, <1>2 DEF Alone, Recorded, Answered, Live
<1>5. FloorInv'
  <2> SUFFICES ASSUME NEW m \in Makers, sched'[m] \in {"pending", "executed"}
               PROVE  schedSeq'[m] >= CheckinCount'
    BY DEF FloorInv, Live
  <2>1. CASE m = j
    BY <1>2, <1>3, <2>1
  <2>2. CASE m # j
    BY <1>2, <1>3, <2>2 DEF InStep, FloorInv, Live
  <2> QED BY <2>1, <2>2
<1>6. \A i \in Requests : pc'[i] \in InLock => i = j /\ pc'[i] = "delete"
                                              /\ mem'[i] = mem[i]
  BY <1>1, <1>2 DEF Alone, InLock
<1>7. LiveInv'
  <2>1. sched'[Arm] = sched[Arm] /\ pc'[Arm] = pc[Arm]
    BY <1>2 DEF Alone
  <2> HIDE DEF NetworkInv, TypeInv, TypeOK
  <2> QED BY <1>4, <1>6, <2>1
          DEF InStep, LiveInv, Answered, LeftOver, Live, Advances, InLock
<1>8. FreshInv'
  <2>1. /\ disk'.status = "ACTIVE" => UpToDate(disk')
        /\ disk.status = "ACTIVE" => mem[j] = disk
    BY <1>1, <1>2 DEF InStep, FreshInv, InLock
  <2> HIDE DEF NetworkInv, TypeInv, TypeOK
  <2> QED BY <1>1, <1>2, <1>3, <1>4, <1>6, <2>1, StaysUpToDate
          DEF FreshInv, UpToDate, Current, Stranded, Recorded
<1> QED BY <1>5, <1>7, <1>8 DEF InStep

\* Deleting the recorded schedule leaves none that was answered, and by the
\* assumption none that a failed check-in has left.
LEMMA DeleteInStep ==
    ASSUME NetworkInv, OwnInv, Undisturbed, InStep, NEW j \in Requests,
           Alone(j), DeleteSchedule(j), ~(UNCHANGED sched /\ pc'[j] = "threw"),
           \A i \in Requests : i # j => pc[i] \notin InLock
    PROVE  InStep'
<1> USE Constants DEF NetworkInv, TypeInv, TypeOK
<1> DEFINE old == mem[j].scheduleId
<1>1. /\ sched[old] = "pending" /\ pc[j] = "delete"
      /\ sched' = [sched EXCEPT ![old] = "deleted"]
      /\ \/ pc'[j] = "submit" /\ mem'[j] = mem[j]
         \/ pc'[j] = "threw"
      /\ req' = req /\ UNCHANGED <<log, disk, schedSeq>>
  BY DEF DeleteSchedule, ScheduleGone, Throw, GoTo, Leave
<1>2. CheckinCount' = CheckinCount
  BY <1>1, QuietCount
<1>3. \A m \in Makers :
         /\ pc'[m] = "ok" /\ sched'[m] = "pending" => Recorded(m)
         /\ pc'[m] = "ok" /\ sched'[m] \in {"pending", "executed"}
               => Answered(m) /\ m # old
         /\ m # j /\ pc'[m] = "threw" /\ sched'[m] \in {"pending", "executed"}
               => LeftOver(m)
         /\ sched'[m] \in {"pending", "executed"} => Live(m)
         /\ sched[m] = "none" => sched'[m] = "none"
  BY <1>1 DEF Alone, Recorded, Answered, LeftOver, Live
<1>4. ASSUME req[j].kind = "checkin"
      PROVE  \A m \in Makers :
                /\ ~(pc'[m] = "ok" /\ sched'[m] \in {"pending", "executed"})
                /\ ~LeftOver(m)
  <2>1. old \in Makers
    BY <1>1, <1>4 DEF AdmittedInv, RecordInv, Consistent, SwitchRecord
  <2>2. pc[old] = "ok"
    BY <2>1 DEF OwnInv
  <2>3. Recorded(old) /\ Answered(old)
    BY <1>1, <2>2 DEF Recorded, Answered, Live
  <2> QED BY <1>3, <2>1, <2>3 DEF InStep, LiveInv, Undisturbed
<1>5. FloorInv'
  BY <1>1, <1>2, <1>3 DEF InStep, FloorInv, Live
<1>6. \A i \in Requests : pc'[i] \in InLock => i = j /\ pc'[i] = "submit"
                                              /\ mem'[i] = mem[i]
  BY <1>1 DEF Alone, InLock
<1>7. LiveInv'
  <2>1. \A i \in Requests :
           req'[i].kind = "checkin" /\ pc'[i] \in {"submit", "commit"}
              => i = j /\ req[j].kind = "checkin" /\ pc'[j] = "submit"
    BY <1>1, <1>6 DEF InLock
  <2>2. pc'[Arm] = pc[Arm]
    BY DEF Alone
  <2> HIDE DEF NetworkInv, TypeInv, TypeOK, old
  <2> QED BY <1>3, <1>4, <2>1, <2>2
          DEF InStep, LiveInv, Answered, LeftOver, Live, Advances
<1>8. FreshInv'
  <2>1. /\ disk'.status = "ACTIVE" => UpToDate(disk')
        /\ disk.status = "ACTIVE" => mem[j] = disk
        /\ mem[j].status = "ACTIVE" => UpToDate(mem[j])
    BY <1>1 DEF InStep, FreshInv, InLock
  <2> HIDE DEF NetworkInv, TypeInv, TypeOK, old
  <2> QED BY <1>1, <1>2, <1>3, <1>6, <2>1, StaysUpToDate
          DEF FreshInv, UpToDate, Current, Stranded, Recorded
<1> QED BY <1>5, <1>7, <1>8 DEF InStep

\* When a check-in is posted the only live schedule is its own; should its save
\* fail, the record that stays behind names a schedule that is gone.
LEMMA SubmitInStep ==
    ASSUME NetworkInv, CountInv, HistoryInv, InStep, NEW j \in Requests,
           Alone(j), SubmitEvent(j), req[j].kind = "checkin", ~UNCHANGED log,
           \A i \in Requests : i # j => pc[i] \notin InLock
    PROVE  InStep'
<1> USE Constants DEF NetworkInv, TypeInv, TypeOK
<1>1. /\ pc[j] = "submit" /\ UNCHANGED <<req, sched, schedSeq, disk>>
      /\ \/ pc'[j] = "commit" /\ mem'[j] = mem[j]
         \/ pc'[j] = "threw"
      /\ Emit("CHECKIN_VERIFIED", mem[j].liveIdx)
  BY DEF SubmitEvent, Throw, GoTo, Leave
<1>2. /\ mem[j].liveIdx = mem[j].seq + 1 /\ mem[j].liveIdx \in Seqs
      /\ CheckinCount = mem[j].seq /\ schedSeq[j] = mem[j].liveIdx
      /\ \A m \in Makers : ~Recorded(m)
  BY <1>1 DEF CountInv, ScheduleInv, AdmittedInv, RecordInv, Consistent,
              SwitchRecord
<1>3. CheckinCount' = mem[j].liveIdx
  BY <1>1, <1>2, EmitCount DEF EventTypes
<1>4. \A m \in Makers : ~Answered(m) /\ ~LeftOver(m)
  BY <1>1 DEF InStep, LiveInv, Advances
<1>5. ASSUME NEW m \in Makers, Live(m) PROVE m = j
  <2>1. CASE m = Arm
    BY <1>1, <1>4, <1>5, <2>1
       DEF CountInv, Finished, InStep, LiveInv, Live, Answered, LeftOver
  <2>2. CASE m \in Requests /\ m # j
    <3>1. pc[m] \in {"idle", "queued", "ok", "rejected", "threw"}
      BY <2>2 DEF PlaceInv, Finished
    <3> QED BY <1>4, <1>5, <2>2, <3>1
            DEF ScheduleInv, HistoryInv, Answered, LeftOver, Live
  <2> QED BY <2>1, <2>2
<1>6. FloorInv'
  BY <1>1, <1>2, <1>3, <1>5 DEF FloorInv, Live
<1>7. \A i \in Requests : pc'[i] \in InLock => i = j /\ pc'[i] = "commit"
                                              /\ mem'[i] = mem[i]
  BY <1>1 DEF Alone, InLock
<1>8. LiveInv'
  <2>1. \A m \in Makers :
           /\ ~(pc'[m] = "ok" /\ Live(m))
           /\ pc'[m] = "threw" /\ Live(m) => m = j
    BY <1>1, <1>4, <1>5 DEF Alone, Answered, LeftOver
  <2>2. pc'[Arm] = pc[Arm]
    BY DEF Alone
  <2> HIDE DEF NetworkInv, TypeInv, TypeOK
  <2> QED BY <1>1, <1>7, <2>1, <2>2
          DEF InStep, LiveInv, Answered, LeftOver, Live, Advances, InLock
<1>9. FreshInv'
  <2>1. disk.status = "ACTIVE" => mem[j] = disk
    BY <1>1 DEF InStep, FreshInv, InLock
  <2>2. \A m \in Makers : ~(pc'[m] = "ok" /\ sched'[m] = "pending")
    BY <1>1, <1>2 DEF Alone, Recorded
  <2> HIDE DEF NetworkInv, TypeInv, TypeOK
  <2> QED BY <1>1, <1>2, <1>3, <1>7, <2>1, <2>2
          DEF FreshInv, UpToDate, Stranded, Recorded
<1> QED BY <1>6, <1>8, <1>9 DEF InStep

\* Its commit makes it the recorded schedule, the only one.
LEMMA CommitInStep ==
    ASSUME NetworkInv, CountInv, InStep, NEW j \in Requests, Alone(j),
           Commit(j), pc'[j] # "threw",
           \A i \in Requests : i # j => pc[i] \notin InLock
    PROVE  InStep'
<1> USE Constants DEF NetworkInv, TypeInv, TypeOK
<1>1. /\ pc[j] = "commit" /\ pc' = [pc EXCEPT ![j] = "ok"]
      /\ UNCHANGED <<req, sched, schedSeq, log>> /\ disk' = Updated(j)
      /\ req[j].kind \in {"checkin", "cancel"}
  BY DEF Commit, Throw, Leave, chainVars, PlaceInv
<1>2. CheckinCount' = CheckinCount
  BY <1>1, QuietCount
<1>3. FloorInv'
  BY <1>1, <1>2 DEF InStep, FloorInv, Live
<1>4. \A i \in Requests : pc'[i] \notin InLock
  BY <1>1 DEF InLock
<1>5. \A i \in Requests : pc'[i] \notin {"submit", "commit"}
  BY <1>4 DEF InLock
<1>6. pc'[Arm] = pc[Arm] /\ sched'[Arm] = sched[Arm]
  BY <1>1
<1>7. CASE req[j].kind = "checkin"
  <2>1. \A m \in Makers : pc'[m] = "ok" /\ Live(m) => m = j
    BY <1>1, <1>7 DEF InStep, LiveInv, Advances, Answered
  <2>2. CheckinCount = mem[j].liveIdx /\ mem[j] \in SwitchRecord
    BY <1>1, <1>7 DEF CountInv
  <2>3. disk'.seq = CheckinCount /\ disk'.scheduleId = j
    BY <1>1, <1>7, <2>2 DEF Updated, CheckedIn, NewDeadline, SwitchRecord
  <2>4. LiveInv'
    BY <1>1, <1>5, <1>6, <2>1 DEF InStep, LiveInv, Answered, Live, Advances
  <2>5. \A m \in Makers : pc'[m] = "ok" /\ sched'[m] = "pending" => m = j
    BY <1>1, <2>1 DEF Live
  <2>6. FreshInv'
    BY <1>2, <1>4, <2>3, <2>5 DEF FreshInv, UpToDate, Current, Recorded
  <2> QED BY <1>3, <2>4, <2>6 DEF InStep
<1>8. CASE req[j].kind = "cancel"
  <2>1. sched[j] = "none"
    BY <1>8 DEF CountInv
  <2>2. Cancelled(mem[j]).status = "CANCELLED"
    BY DEF Cancelled, SwitchRecord
  <2>3. disk'.status # "ACTIVE"
    BY <1>1, <1>8, <2>2 DEF Updated
  <2>4. \A m \in Makers : pc'[m] = "ok" /\ Live(m) => Answered(m)
    BY <1>1, <2>1 DEF Live, Answered
  <2>5. LiveInv'
    BY <1>1, <1>5, <1>6, <2>4 DEF InStep, LiveInv, Answered, Live, Advances
  <2>6. FreshInv'
    BY <1>4, <2>3 DEF FreshInv
  <2> QED BY <1>3, <2>5, <2>6 DEF InStep
<1> QED BY <1>1, <1>7, <1>8

\* Until the arm is over there is no other schedule and no check-in.
LEMMA ArmInStep ==
    ASSUME NetworkInv, CountInv, InStep, ArmStep
    PROVE  InStep'
<1> USE Constants DEF NetworkInv, TypeInv, TypeOK
<1>1. /\ pc[Arm] \in {"idle", "submit", "schedule", "queued"}
      /\ \A i \in Requests : pc[i] = "idle" /\ sched[i] = "none"
      /\ CheckinCount = 0
  <2>1. pc[Arm] \in {"idle", "submit", "schedule", "queued"}
    BY DEF ArmStep, ArmBegin, ArmSubmit, ArmSchedule, ArmPersist
  <2> QED BY <2>1 DEF CountInv, ScheduleInv, Finished
<1>2. CheckinCount' = 0
  <2>1. UNCHANGED log \/ Emit("ARMED", 0)
    BY DEF ArmStep, ArmBegin, ArmSubmit, ArmSchedule, ArmPersist, chainVars
  <2> QED BY <1>1, <2>1, QuietCount, EmitCount DEF EventTypes
<1>3. \A i \in Requests : pc'[i] = "idle" /\ sched'[i] = "none"
  BY <1>1 DEF ArmStep, ArmBegin, ArmSubmit, ArmSchedule, ArmPersist, GoTo,
              Leave, Throw, ScheduleRelease, chainVars
<1>4. schedSeq'[Arm] \in Nat
  BY DEF ArmStep, ArmBegin, ArmSubmit, ArmSchedule, ArmPersist,
         ScheduleRelease, chainVars
<1>5. /\ pc'[Arm] = "rejected" => sched'[Arm] = "none"
      /\ \/ disk' = disk /\ pc'[Arm] # "ok"
         \/ disk' = Armed
  BY <1>1 DEF ArmStep, ArmBegin, ArmSubmit, ArmSchedule, ArmPersist, GoTo,
              Leave, Throw, ScheduleRelease, chainVars, ScheduleInv
<1>6. FloorInv'
  BY <1>2, <1>3, <1>4 DEF FloorInv, Live
<1>7. LiveInv'
  BY <1>3, <1>5 DEF LiveInv, Answered, LeftOver, Live, Recorded, Advances
<1>8. FreshInv'
  <2>1. \A m \in Makers : pc'[m] = "ok" => m = Arm
    BY <1>3
  <2>2. disk'.status = "ACTIVE" => UpToDate(disk)'
    <3>1. CASE disk' = disk /\ pc'[Arm] # "ok"
      BY <1>1, <1>2, <2>1, <3>1
         DEF InStep, FreshInv, UpToDate, Current, Stranded, Recorded
    <3>2. CASE disk' = Armed
      BY <1>2, <2>1, <3>2 DEF UpToDate, Current, Recorded, Armed
    <3> QED BY <1>5, <3>1, <3>2
  <2> QED BY <1>3, <2>2 DEF FreshInv, InLock
<1> QED BY <1>6, <1>7, <1>8 DEF InStep

\* Whatever fails or crashes, as long as it is none of the two accidents.
LEMMA InStepStep ==
    ASSUME NetworkInv, TeardownInv, CheckinInv, HistoryInv, Undisturbed,
           InStep, Next
    PROVE  InStep'
<1>1. TypeInv /\ CountInv /\ OwnInv /\ FreshInv
  BY DEF NetworkInv, CheckinInv, TeardownInv, InStep
<1>2. ASSUME NEW j \in Requests, Post(j) \/ Executor(j)
      PROVE  InStep'
  <2>1. Alone(j)
    BY <1>1, <1>2, OneRequest
  <2>2. CASE MoveStep(j)
    BY <1>1, <2>1, <2>2, MoveInStep
  <2>3. CASE \/ CreateSchedule(j) \/ DeleteSchedule(j) \/ SubmitEvent(j)
             \/ Commit(j)
    <3>1. \A i \in Requests : i # j => pc[i] \notin InLock
      BY <1>1, <1>2, <2>3, OneRequest
         DEF CreateSchedule, DeleteSchedule, SubmitEvent, Commit
    <3>2. CASE CreateSchedule(j) /\ ~UNCHANGED sched
      BY <2>1, <3>1, <3>2, CreateInStep
    <3>3. CASE DeleteSchedule(j) /\ ~(UNCHANGED sched /\ pc'[j] = "threw")
      BY <1>1, <2>1, <3>1, <3>3, DeleteInStep
    <3>4. CASE /\ SubmitEvent(j) /\ req[j].kind = "checkin"
               /\ ~UNCHANGED log
      BY <1>1, <2>1, <3>1, <3>4, SubmitInStep
    <3>5. CASE Commit(j) /\ pc'[j] # "threw"
      BY <1>1, <2>1, <3>1, <3>5, CommitInStep
    <3>6. SubmitEvent(j) =>
             UNCHANGED log \/ req[j].kind \in {"checkin", "cancel"}
      BY DEF SubmitEvent, Throw
    <3> QED BY <1>1, <2>2, <2>3, <3>2, <3>3, <3>4, <3>5, <3>6, MovesOf
  <2>4. CASE \/ Post(j) \/ Load(j) \/ VerifyCheckin(j) \/ VerifyCancel(j)
             \/ Reject(j)
    BY <1>1, <2>2, <2>4, MovesOf
  <2> QED BY <1>2, <2>3, <2>4 DEF Executor
<1> QED BY <1>1, <1>2, OthersAreQuiet, QuietInStep, ArmInStep

-----------------------------------------------------------------------------
(* Neither accident happens before something fails.                        *)

\* The watcher never rejects a confirmed cancel of a switch that is ACTIVE, nor
\* passes over a release before the record says so.
LEMMA WatcherSaves ==
    ASSUME TypeInv, Undisturbed, Next, ~Fault
    PROVE  pc'[Watcher] = "reject" => mem'[Watcher].status # "ACTIVE"
<1> USE Constants DEF TypeInv, TypeOK, GoTo, Leave, Throw, procVars
<1>1. CASE /\ pc'[Watcher] = pc[Watcher] /\ mem'[Watcher] = mem[Watcher]
  BY <1>1 DEF Undisturbed
<1>2. CASE WatcherStep
  <2>1. CASE Load(Watcher)
    BY <2>1 DEF Load, CancelAllowed, PlaceInv
  <2>2. CASE VerifyCancel(Watcher)
    BY <2>2 DEF VerifyCancel
  <2>3. CASE PollRelease
    BY <2>3 DEF PollRelease
  <2>4. CASE ~Load(Watcher) /\ ~VerifyCancel(Watcher) /\ ~PollRelease
    <3>1. pc'[Watcher] # "reject" \/ UNCHANGED <<pc, mem>>
      BY <1>2, <2>4
         DEF WatcherStep, Poll, PollSkip, PublishCapsule, PayBounty,
             PostBulletin, ScanCancel, BulletinFailed, Executor, VerifyCheckin,
             CreateSchedule, DeleteSchedule, SubmitEvent, Commit, Reject,
             ScheduleGone, PlaceInv
    <3> QED BY <3>1 DEF Undisturbed
  <2> QED BY <2>1, <2>2, <2>3, <2>4
<1>3. CASE CrashWatcher
  BY <1>3 DEF CrashWatcher
<1> QED BY <1>1, <1>2, <1>3, WatcherAlone

\* A healthy check-in that cannot delete leaves its schedule only where the
\* recorded one has fired.
LEMMA NoneLeftBeside ==
    ASSUME NetworkInv, TeardownInv, CheckinInv, Undisturbed, InStep, Next,
           ~Fault
    PROVE  \A m, i \in Makers :
              pc'[m] = "threw" /\ sched'[m] \in {"pending", "executed"}
                 => ~(pc'[i] = "ok" /\ sched'[i] = "pending")
<1> USE Constants DEF NetworkInv, TypeInv, TypeOK, GoTo, Leave, Throw,
        chainVars, procVars
<1>1. CASE \A m \in Makers :
              /\ pc'[m] = "threw" /\ sched'[m] \in {"pending", "executed"}
                    => LeftOver(m)
              /\ pc'[m] = "ok" /\ sched'[m] = "pending" => Recorded(m)
  BY <1>1 DEF Undisturbed
<1>2. CASE QuietStep
  BY <1>1, <1>2 DEF QuietStep, LeftOver, Recorded, Live
<1>3. CASE ArmStep
  <2>1. pc[Arm] \in {"idle", "submit", "schedule", "queued"}
    BY <1>3 DEF ArmStep, ArmBegin, ArmSubmit, ArmSchedule, ArmPersist
  <2>2. \A i \in Requests : pc[i] = "idle"
    BY <2>1 DEF CheckinInv, CountInv, Finished
  <2>3. \A i \in Requests : pc'[i] = "idle"
    BY <1>3, <2>2 DEF ArmStep, ArmBegin, ArmSubmit, ArmSchedule, ArmPersist
  <2>4. pc'[Arm] = "threw" => sched'[Arm] = "none"
    BY <1>3 DEF ArmStep, ArmBegin, ArmSubmit, ArmSchedule, ArmPersist,
                ScheduleRelease, ScheduleInv
  <2> QED BY <2>3, <2>4
<1>4. ASSUME NEW j \in Requests, Post(j) \/ Executor(j)
      PROVE  \A m, i \in Makers :
                pc'[m] = "threw" /\ sched'[m] \in {"pending", "executed"}
                   => ~(pc'[i] = "ok" /\ sched'[i] = "pending")
  <2>1. Alone(j)
    BY <1>4, OneRequest
  <2>2. CASE CreateSchedule(j)
    <3>1. /\ pc'[j] # "ok"
          /\ pc'[j] = "threw" => sched'[j] = "none"
          /\ \A m \in Makers : m # j => sched'[m] = sched[m]
      BY <2>2 DEF CreateSchedule, ScheduleRelease, ScheduleRefused,
                  ScheduleInv, AfterCreate
    <3> QED BY <1>1, <2>1, <3>1 DEF Alone, LeftOver, Recorded, Live
  <2>3. CASE DeleteSchedule(j) /\ pc'[j] = "threw"
    <3>1. /\ pc[j] = "delete" /\ sched[mem[j].scheduleId] # "pending"
          /\ UNCHANGED sched
      BY <2>3 DEF DeleteSchedule, ScheduleGone
    <3>2. ASSUME Live(j) PROVE \A i \in Makers : ~Recorded(i)
      <4>1. req[j].kind = "checkin"
        BY <3>1, <3>2 DEF PlaceInv, CheckinInv, CountInv, Live
      <4>2. UpToDate(mem[j])
        BY <3>1, <4>1 DEF InStep, FreshInv, AdmittedInv, InLock
      <4> QED BY <3>1, <4>2 DEF UpToDate, Current, Stranded, Recorded
    <3>3. \A m \in Makers :
             /\ m # j /\ pc'[m] = "threw" /\ Live(m) => LeftOver(m)
             /\ pc'[m] = "ok" /\ sched'[m] = "pending" => Recorded(m)
      BY <2>1, <2>3, <3>1 DEF Alone, LeftOver, Recorded, Live
    <3> QED BY <3>1, <3>2, <3>3 DEF Undisturbed, Live
  <2>4. CASE DeleteSchedule(j) /\ pc'[j] # "threw"
    <3>1. /\ pc'[j] = "submit"
          /\ \A m \in Makers : sched'[m] \in {sched[m], "deleted"}
      BY <2>4 DEF DeleteSchedule, ScheduleGone
    <3> QED BY <1>1, <2>1, <3>1 DEF Alone, LeftOver, Recorded, Live
  <2>5. CASE Commit(j)
    <3>1. pc[j] = "commit" /\ pc'[j] = "ok" /\ UNCHANGED sched
      BY <2>5 DEF Commit
    <3>2. CASE req[j].kind = "checkin"
      <4>1. \A m \in Makers : ~LeftOver(m)
        BY <3>1, <3>2 DEF InStep, LiveInv, Advances
      <4> QED BY <2>1, <3>1, <4>1 DEF Alone, LeftOver, Live
    <3>3. CASE req[j].kind = "cancel"
      <4>1. sched[j] = "none"
        BY <3>3 DEF CheckinInv, CountInv
      <4> QED BY <1>1, <2>1, <3>1, <4>1 DEF Alone, LeftOver, Recorded, Live
    <3> QED BY <3>1, <3>2, <3>3 DEF PlaceInv
  <2>6. CASE \/ Post(j) \/ Load(j) \/ VerifyCheckin(j) \/ VerifyCancel(j)
             \/ SubmitEvent(j) \/ Reject(j)
    <3>1. UNCHANGED sched /\ pc'[j] \notin {"ok", "threw"}
      BY <2>6 DEF Post, Load, VerifyCheckin, VerifyCancel, SubmitEvent, Reject
    <3> QED BY <1>1, <2>1, <3>1 DEF Alone, LeftOver, Recorded, Live
  <2> QED BY <1>4, <2>2, <2>3, <2>4, <2>5, <2>6 DEF Executor
<1> QED BY <1>2, <1>3, <1>4, OthersAreQuiet

LEMMA FaultsWriters ==
    ASSUME Next
    PROVE  Healthy \/ Fault
<1> USE DEF Healthy, Throw
<1>1. CASE ArmStep
  BY <1>1 DEF ArmStep, ArmBegin, ArmSubmit, ArmSchedule, ArmPersist
<1>2. ASSUME NEW j \in Requests, Post(j) PROVE Healthy
  BY <1>2 DEF Post
<1>3. ASSUME NEW j \in Requests \cup {Watcher}, Executor(j)
      PROVE  Healthy \/ Fault
  BY <1>3 DEF Executor, Load, VerifyCheckin, VerifyCancel, CreateSchedule,
              DeleteSchedule, SubmitEvent, Commit, Reject, ScheduleGone,
              ScheduleRefused
<1>4. CASE Poll \/ PublishCapsule \/ PayBounty \/ PostBulletin \/ ScanCancel
  BY <1>4 DEF Poll, PollSkip, PollRelease, PublishCapsule, PayBounty,
              PostBulletin, ScanCancel, BulletinFailed
<1>5. CASE Tick \/ SignCancel \/ CrashWeb \/ CrashWatcher
           \/ \E m \in Makers : Fire(m)
  BY <1>5 DEF Tick, SignCancel, CrashWeb, CrashWatcher, Fire
<1> QED BY <1>1, <1>2, <1>3, <1>4, <1>5 DEF Next, WatcherStep

\* A run without a fault so far has had none before.
LEMMA StillFaultless ==
    ASSUME TypeInv, Next, faults' = 0
    PROVE  faults = 0 /\ ~Fault
BY FaultsWriters DEF Healthy, Fault, TypeInv, TypeOK

\* The part of the invariant that faults may break: it holds until the first.
FaultlessInv == faults = 0 => Undisturbed /\ InStep

LEMMA FaultlessInvStep ==
    ASSUME NetworkInv, TeardownInv, CheckinInv, HistoryInv, FaultlessInv, Next
    PROVE  FaultlessInv'
<1> SUFFICES ASSUME faults' = 0
             PROVE  Undisturbed' /\ InStep'
  BY DEF FaultlessInv
<1>1. ~Fault /\ Undisturbed /\ InStep
  BY StillFaultless DEF FaultlessInv, NetworkInv
<1>2. InStep'
  BY <1>1, InStepStep
<1>3. Undisturbed'
  BY <1>1, WatcherSaves, NoneLeftBeside
     DEF Undisturbed, LeftOver, Recorded, Live, NetworkInv
<1> QED BY <1>2, <1>3

LEMMA InitInStep ==
    ASSUME Init
    PROVE  HistoryInv /\ InStep /\ Undisturbed
<1>1. {p \in 1..Len(log) : log[p].type = "CHECKIN_VERIFIED"} = {}
  BY DEF Init
<1>2. CheckinCount = 0
  BY <1>1, FS_EmptySet DEF CheckinCount
<1>3. \A t, q : ~Posted(t, q)
  BY DEF Init, Posted
<1>4. HistoryInv
  BY <1>3 DEF Init, HistoryInv, NoRequest
<1>5. FloorInv /\ LiveInv
  BY Constants DEF Init, FloorInv, LiveInv, Live, Answered, LeftOver, Advances
<1>6. FreshInv
  BY Constants DEF Init, FreshInv, InLock, NoSwitch
<1>7. Undisturbed
  BY Constants DEF Init, Undisturbed, LeftOver
<1> QED BY <1>4, <1>5, <1>6, <1>7 DEF InStep

LEMMA StutterInStep ==
    ASSUME UNCHANGED vars
    PROVE  /\ HistoryInv => HistoryInv'
           /\ InStep => InStep'
           /\ Undisturbed => Undisturbed'
<1>1. CheckinCount' = CheckinCount
  BY QuietCount DEF vars
<1>2. HistoryInv => HistoryInv'
  BY <1>1 DEF vars, HistoryInv, Posted
<1>3. InStep => InStep'
  BY <1>1, QuietInStep DEF vars, QuietStep
<1>4. Undisturbed => Undisturbed'
  BY DEF vars, Undisturbed, LeftOver, Recorded, Live
<1> QED BY <1>2, <1>3, <1>4

\* The topic, the schedules and the answers agree on what has happened, in
\* every run.
THEOREM HistoryInvariant == Spec => []HistoryInv
<1>1. Init => HistoryInv
  BY InitInStep
<1>2. NetworkInv /\ CheckinInv /\ HistoryInv /\ [Next]_vars => HistoryInv'
  BY HistoryInvStep, StutterInStep
<1> QED BY <1>1, <1>2, NetworkInvariant, CheckinInvariant, PTL DEF Spec

\* In every run without one of the two accidents, whatever else fails, no live
\* schedule is behind the topic and no record that counts is out of date.
THEOREM UndisturbedInvariant == Spec /\ []Undisturbed => []InStep
<1>1. Init => InStep
  BY InitInStep
<1>2. NetworkInv /\ TeardownInv /\ CheckinInv /\ HistoryInv /\ Undisturbed
        /\ InStep /\ [Next]_vars => InStep'
  BY InStepStep, StutterInStep
<1> QED
  BY <1>1, <1>2, NetworkInvariant, TeardownInvariant, CheckinInvariant,
     HistoryInvariant, PTL DEF Spec

\* Neither of the accidents happens before a first call fails, a first answer
\* is lost or a first process dies.
THEOREM FaultlessInvariant == Spec => []FaultlessInv
<1>1. Init => FaultlessInv
  BY InitInStep DEF FaultlessInv
<1>2. NetworkInv /\ TeardownInv /\ CheckinInv /\ HistoryInv /\ FaultlessInv
        /\ [Next]_vars => FaultlessInv'
  <2>1. UNCHANGED vars /\ FaultlessInv => FaultlessInv'
    BY StutterInStep DEF FaultlessInv, vars
  <2> QED BY <2>1, FaultlessInvStep
<1> QED
  BY <1>1, <1>2, NetworkInvariant, TeardownInvariant, CheckinInvariant,
     HistoryInvariant, PTL DEF Spec

\* What the invariant is for.
LEMMA InStepIsSafe ==
    ASSUME NetworkInv, TopicInv, HistoryInv, InStep
    PROVE  BurnedIsSealed /\ ReleaseIsPostponed
<1>1. CheckinCount \in Nat
  BY CheckinsFinite DEF NetworkInv
<1>2. ASSUME NEW q \in Seqs, NEW b \in Seqs, Posted("CHECKIN_VERIFIED", q),
             Posted("CAPSULE_PUBLISHED", b)
      PROVE  b >= q
  <2>1. q <= CheckinCount
    BY <1>2 DEF HistoryInv
  <2>2. Posted("RELEASE_AUTHORIZED", b)
    BY <1>2 DEF TopicInv, AnnouncedInv
  <2>3. PICK m \in Makers : sched[m] = "executed" /\ schedSeq[m] = b
    BY <2>2 DEF HistoryInv
  <2>4. b >= CheckinCount
    BY <2>3 DEF InStep, FloorInv, Live
  <2> QED BY <1>1, <2>1, <2>4, Constants
<1>3. ASSUME NEW j \in Requests, Accepted(j), NEW m \in Makers,
             sched[m] \in {"pending", "executed"}
      PROVE  schedSeq[m] > req[j].seq
  <2>1. req[j].seq < CheckinCount /\ schedSeq[m] >= CheckinCount
    BY <1>3 DEF Accepted, HistoryInv, InStep, FloorInv, Live
  <2>2. schedSeq[m] \in Int /\ req[j].seq \in Int
    BY Constants DEF NetworkInv, TypeInv, TypeOK, Request
  <2> QED BY <1>1, <2>1, <2>2
<1> QED BY <1>2, <1>3 DEF BurnedIsSealed, ReleaseIsPostponed

\* As long as nothing has failed, what a check-in burned stays secret: a rung
\* below a check-in on the topic has no capsule there.
THEOREM BurnedIsSecret == Spec => []BurnedStaysSecret
<1>1. NetworkInv /\ TopicInv /\ HistoryInv /\ FaultlessInv
        => BurnedStaysSecret
  BY InStepIsSafe DEF FaultlessInv, BurnedStaysSecret
<1> QED
  BY <1>1, NetworkInvariant, TopicInvariant, HistoryInvariant,
     FaultlessInvariant, PTL

\* As long as nothing has failed, an accepted check-in has postponed the
\* release: no schedule that could open its rung or an earlier one is left.
THEOREM CheckinPostpones == Spec => []AcceptedCheckinPostpones
<1>1. NetworkInv /\ TopicInv /\ HistoryInv /\ FaultlessInv
        => AcceptedCheckinPostpones
  BY InStepIsSafe DEF FaultlessInv, AcceptedCheckinPostpones
<1> QED
  BY <1>1, NetworkInvariant, TopicInvariant, HistoryInvariant,
     FaultlessInvariant, PTL

\* And of all that can fail, only the two accidents matter: with any number of
\* crashes, lost answers and failed calls, as long as no failed check-in leaves
\* its schedule beside the recorded one and the watcher does not save back an
\* ACTIVE record, burned rungs stay secret and accepted check-ins postpone.
THEOREM OnlyAccidentsMatter ==
    Spec /\ []Undisturbed => [](BurnedIsSealed /\ ReleaseIsPostponed)
<1>1. NetworkInv /\ TopicInv /\ HistoryInv /\ InStep
        => BurnedIsSealed /\ ReleaseIsPostponed
  BY InStepIsSafe
<1> QED
  BY <1>1, NetworkInvariant, TopicInvariant, HistoryInvariant,
     UndisturbedInvariant, PTL

-----------------------------------------------------------------------------
(* Retried check-ins.                                                      *)

\* A check-in that is about to be recorded is ahead of all accepted ones, and
\* no two were accepted for the same rung.
OnceInv ==
    \A i, j \in Requests : Accepted(i) /\ req[j].kind = "checkin" =>
        /\ pc[j] = "commit" => req[i].seq < req[j].seq
        /\ pc[j] = "ok" /\ i # j => req[i].seq # req[j].seq

\* Only a request's own steps answer it.
LEMMA OthersAnswerNothing ==
    ASSUME TypeInv, Next
    PROVE  \/ \E i \in Requests : Post(i) \/ Executor(i)
           \/ \A j \in Requests :
                 req'[j] = req[j] /\ pc'[j] \in {pc[j], "threw"}
<1> USE Constants DEF TypeInv, TypeOK, GoTo, Leave, Throw, procVars
<1>1. CASE ArmStep
  BY <1>1 DEF ArmStep, ArmBegin, ArmSubmit, ArmSchedule, ArmPersist
<1>2. CASE WatcherStep
  BY <1>2 DEF WatcherStep, Poll, PollSkip, PollRelease, PublishCapsule,
              PayBounty, PostBulletin, ScanCancel, BulletinFailed, Executor,
              Load, VerifyCheckin, VerifyCancel, CreateSchedule,
              DeleteSchedule, SubmitEvent, Commit, Reject, ScheduleGone,
              ScheduleRefused
<1>3. CASE \/ Tick \/ SignCancel \/ CrashWeb \/ CrashWatcher
           \/ \E m \in Makers : Fire(m)
  BY <1>3 DEF Tick, SignCancel, CrashWeb, CrashWatcher, Fire
<1> QED BY <1>1, <1>2, <1>3 DEF Next

LEMMA OnceInvStep ==
    ASSUME NetworkInv, CheckinInv, HistoryInv, OnceInv, Next
    PROVE  OnceInv'
<1>1. CASE \A j \in Requests :
              req'[j] = req[j] /\ pc'[j] \in {pc[j], "threw"}
  BY <1>1 DEF OnceInv, Accepted
<1>2. ASSUME NEW j \in Requests, Post(j) \/ Executor(j)
      PROVE  OnceInv'
  <2>1. Alone(j)
    BY <1>2, OneRequest DEF NetworkInv
  <2> USE Constants
  <2>2. CASE pc'[j] \notin {"ok", "commit"}
    <3>1. \A i \in Requests :
             /\ i # j => pc'[i] = pc[i] /\ req'[i] = req[i]
             /\ pc'[i] = "ok" /\ req'[i].kind = "checkin" => Accepted(i)
      BY <2>1, <2>2 DEF Alone, Accepted
    <3> QED BY <2>2, <3>1 DEF OnceInv, Accepted
  <2>3. CASE SubmitEvent(j) /\ pc'[j] = "commit" /\ req[j].kind = "checkin"
    <3>1. CheckinCount = req[j].seq /\ req' = req
      <4>1. pc[j] = "submit" /\ req' = req
        BY <2>3 DEF SubmitEvent, GoTo, Leave, Throw
      <4> QED BY <2>3, <4>1 DEF HistoryInv, CheckinInv, CountInv
    <3>2. \A i \in Requests : Accepted(i) => req[i].seq < req[j].seq
      BY <3>1 DEF Accepted, HistoryInv
    <3>3. \A i \in Requests :
             pc'[i] = "ok" /\ req'[i].kind = "checkin" => Accepted(i)
      BY <2>1, <2>3, <3>1 DEF Alone, Accepted
    <3> QED BY <2>1, <2>3, <3>1, <3>2, <3>3 DEF Alone, OnceInv, Accepted
  <2>4. CASE Commit(j) /\ pc'[j] = "ok" /\ req[j].kind = "checkin"
    <3>1. pc[j] = "commit" /\ req' = req
      BY <2>4 DEF Commit, Leave, Throw
    <3>2. \A i \in Requests : i # j => pc'[i] # "commit"
      BY <2>1, <3>1 DEF Alone, NetworkInv, TypeInv, PlaceInv, InLock
    <3>3. \A i \in Requests : Accepted(i) => req[i].seq < req[j].seq
      BY <2>4, <3>1 DEF OnceInv
    <3>4. \A i \in Requests : i # j /\ pc'[i] = "ok" => pc[i] = "ok"
      BY <2>1 DEF Alone
    <3>5. \A i \in Requests : req[i].seq \in Int
      BY DEF NetworkInv, TypeInv, TypeOK, Request
    <3> QED
      <4>1. \A i \in Requests :
               i # j /\ pc'[i] = "ok" /\ req'[i].kind = "checkin"
                  => Accepted(i) /\ req[i].seq # req[j].seq
        BY <3>1, <3>3, <3>4, <3>5 DEF Accepted
      <4> QED BY <2>4, <3>1, <3>2, <4>1 DEF OnceInv, Accepted
  <2>5. CASE /\ SubmitEvent(j) \/ Commit(j)
             /\ req[j].kind = "cancel"
    <3>1. req' = req
      BY <2>5 DEF SubmitEvent, Commit, GoTo, Leave, Throw
    <3>2. \A i \in Requests : i # j => pc'[i] = pc[i]
      BY <2>1 DEF Alone
    <3> QED BY <2>5, <3>1, <3>2 DEF OnceInv, Accepted
  <2>6. pc'[j] \in {"ok", "commit"} => SubmitEvent(j) \/ Commit(j)
    BY <1>2 DEF Post, Executor, Load, VerifyCheckin, VerifyCancel,
                CreateSchedule, DeleteSchedule, Reject, ScheduleGone,
                ScheduleRefused, AfterCreate, GoTo, Leave, Throw,
                NetworkInv, TypeInv, TypeOK
  <2>7. /\ SubmitEvent(j) \/ Commit(j) => req[j].kind \in {"checkin", "cancel"}
        /\ SubmitEvent(j) => pc'[j] # "ok"
        /\ Commit(j) => pc'[j] # "commit"
    BY DEF SubmitEvent, Commit, PlaceInv, InLock, GoTo, Leave, Throw,
           NetworkInv, TypeInv, TypeOK
  <2> QED BY <2>2, <2>3, <2>4, <2>5, <2>6, <2>7
<1> QED BY <1>1, <1>2, OthersAnswerNothing DEF NetworkInv

\* Whatever fails, crashes or is saved late, no two check-ins are accepted for
\* the same rung: a retry of one that was answered, or whose answer was lost, is
\* turned down by its stale seq or by the recorded schedule that is gone.
THEOREM NeverAcceptedTwice == Spec => []AcceptedOnce
<1>1. Init => OnceInv
  BY DEF Init, OnceInv, Accepted
<1>2. NetworkInv /\ CheckinInv /\ HistoryInv /\ OnceInv /\ [Next]_vars
        => OnceInv'
  <2>1. OnceInv /\ UNCHANGED vars => OnceInv'
    BY DEF vars, OnceInv, Accepted
  <2> QED BY <2>1, OnceInvStep
<1>3. OnceInv => AcceptedOnce
  BY DEF OnceInv, AcceptedOnce, Accepted
<1> QED
  BY <1>1, <1>2, <1>3, NetworkInvariant, CheckinInvariant, HistoryInvariant,
     PTL DEF Spec

=============================================================================
