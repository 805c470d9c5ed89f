-------------------------- MODULE SwitchPage_proof --------------------------
(***************************************************************************)
(* The store of one process, for any number of calls on a topic, whatever   *)
(* their mutators do: the chain of promises makes the calls exclusive, and  *)
(* with the temp file and the rename each is one step of the record.  Then  *)
(* the tab, the server and the watcher's saves, for any ladder, requests    *)
(* and faults: what the tab tells its user is so, and stays so until one of *)
(* the two processes saves over the other.                                  *)
(***************************************************************************)
EXTENDS SwitchPage, SequenceTheorems, TLAPS

-----------------------------------------------------------------------------
(* The inductive invariant.                                                 *)

Settled == {"new", "saved", "failed"}

\* A call is in the chain as long as it is not settled, once, and only the head
\* of the chain has got further than to wait.
ChainInv ==
    /\ \A i \in DOMAIN chain : call[chain[i]] \notin Settled
    /\ \A i, j \in DOMAIN chain : chain[i] = chain[j] => i = j
    /\ \A i \in DOMAIN chain : i > 1 => call[chain[i]] = "queued"
    /\ \A c \in Calls :
          call[c] \notin Settled => \E i \in DOMAIN chain : chain[i] = c

\* What the mutator of the call in its critical section made of what it had
\* loaded is a step it may make, and what the call has flushed is all of that.
SectionInv ==
    \A c \in Calls :
        /\ call[c] \in {"opened", "flushed"} =>
              <<seen[c], next[c]>> \in Steps[c]
        /\ call[c] = "flushed" => temp[c] = next[c]

\* What it had loaded is still so, as long as no other process saves.
SeenInv ==
    \A c \in Calls :
        call[c] \in {"running", "opened", "flushed"} => seen[c] = file

StoreInv == StoreTypes /\ FilesAreWhole /\ ChainInv /\ SectionInv

USE ContentsAssumption, StepsAssumption

LEMMA StoreInitially == StoreInit => StoreInv /\ SeenInv
<1> SUFFICES ASSUME StoreInit PROVE StoreInv /\ SeenInv
  OBVIOUS
<1>1. <<>> \in Seq(Calls) /\ DOMAIN <<>> = {}
  OBVIOUS
<1>2. StoreTypes /\ FilesAreWhole
  BY <1>1 DEF StoreInit, StoreTypes, FilesAreWhole, Phases, Contents
<1>3. ChainInv /\ SectionInv /\ SeenInv
  BY <1>1 DEF StoreInit, ChainInv, SectionInv, SeenInv, Settled
<1> QED
  BY <1>2, <1>3 DEF StoreInv

\* No two calls are in the critical section.
LEMMA Exclusive ==
    ASSUME StoreInv, NEW c \in Calls, NEW d \in Calls, c # d, Runs(c)
    PROVE  call[d] \in Settled \cup {"queued"}
<1>1. chain # <<>> /\ chain[1] = c /\ chain \in Seq(Calls)
  BY DEF Runs, StoreInv, StoreTypes
<1>2. CASE call[d] \notin Settled
  <2>1. PICK i \in DOMAIN chain : chain[i] = d
    BY <1>2 DEF StoreInv, ChainInv
  <2>2. i \in Nat /\ i > 1
    <3>1. i \in 1..Len(chain) /\ Len(chain) \in Nat
      BY <1>1, LenProperties
    <3>2. i # 1
      BY <1>1, <2>1
    <3> QED
      BY <3>1, <3>2
  <2> QED
    BY <2>1, <2>2 DEF StoreInv, ChainInv
<1> QED
  BY <1>2

\* The head of the chain is settled and leaves it.
LEMMA SettleStep ==
    ASSUME StoreInv, NEW c \in Calls, Runs(c), NEW o \in {"saved", "failed"},
           Settle(c, o)
    PROVE  /\ ChainInv'
           /\ chain' \in Seq(Calls) /\ call' \in [Calls -> Phases]
           /\ seen' \in [Calls -> Contents] /\ next' \in [Calls -> Contents]
           /\ \A d \in Calls : call'[d] \in Settled \cup {"queued"}
<1> USE DEF StoreInv
<1>1. chain # <<>> /\ chain[1] = c /\ chain \in Seq(Calls) /\ chain' = Tail(chain)
  BY DEF Runs, StoreTypes, Settle, Passed
<1>2. /\ Tail(chain) \in Seq(Calls)
      /\ Len(Tail(chain)) = Len(chain) - 1
      /\ \A i \in 1..Len(chain) - 1 : Tail(chain)[i] = chain[i + 1]
      /\ Len(chain) \in Nat /\ DOMAIN chain = 1..Len(chain)
      /\ DOMAIN Tail(chain) = 1..Len(chain) - 1
  BY <1>1, HeadTailProperties, LenProperties
<1>3. call' = [call EXCEPT ![c] = o] /\ call \in [Calls -> Phases]
  BY DEF Settle, StoreTypes
<1>4. \A i \in DOMAIN chain' :
         /\ i + 1 \in DOMAIN chain /\ chain'[i] = chain[i + 1]
         /\ chain'[i] \in Calls /\ chain'[i] # c
         /\ call'[chain'[i]] = "queued"
  <2> SUFFICES ASSUME NEW i \in DOMAIN chain'
               PROVE  /\ i + 1 \in DOMAIN chain /\ chain'[i] = chain[i + 1]
                      /\ chain'[i] \in Calls /\ chain'[i] # c
                      /\ call'[chain'[i]] = "queued"
    OBVIOUS
  <2>1. i + 1 \in DOMAIN chain /\ chain'[i] = chain[i + 1] /\ i + 1 > 1 /\ 1 \in DOMAIN chain
    BY <1>1, <1>2
  <2>2. chain'[i] \in Calls
    BY <1>1, <2>1, ElementOfSeq, <1>2
  <2>3. chain'[i] # c
    BY <1>1, <1>2, <2>1 DEF ChainInv
  <2>4. call[chain[i + 1]] = "queued"
    BY <2>1, <1>2 DEF ChainInv
  <2> QED
    BY <1>3, <2>1, <2>2, <2>3, <2>4
<1>5. \A d \in Calls : call'[d] \in Settled \cup {"queued"}
  <2> SUFFICES ASSUME NEW d \in Calls
               PROVE  call'[d] \in Settled \cup {"queued"}
    OBVIOUS
  <2>1. CASE d = c
    BY <1>3, <2>1 DEF Settled
  <2>2. CASE d # c
    BY <1>3, <2>2, Exclusive
  <2> QED
    BY <2>1, <2>2
<1>6. \A d \in Calls :
         call'[d] \notin Settled => \E i \in DOMAIN chain' : chain'[i] = d
  <2> SUFFICES ASSUME NEW d \in Calls, call'[d] \notin Settled
               PROVE  \E i \in DOMAIN chain' : chain'[i] = d
    OBVIOUS
  <2>1. d # c /\ call[d] \notin Settled
    BY <1>3 DEF Settled
  <2>2. PICK i \in DOMAIN chain : chain[i] = d
    BY <2>1 DEF ChainInv
  <2>3. i # 1
    BY <1>1, <2>1, <2>2
  <2>4. i - 1 \in DOMAIN chain' /\ chain'[i - 1] = chain[i]
    BY <1>1, <1>2, <2>3
  <2> QED
    BY <2>2, <2>4
<1>7. \A i, j \in DOMAIN chain' : chain'[i] = chain'[j] => i = j
  <2> SUFFICES ASSUME NEW i \in DOMAIN chain', NEW j \in DOMAIN chain',
                      chain'[i] = chain'[j]
               PROVE  i = j
    OBVIOUS
  <2>1. i + 1 = j + 1
    BY <1>4 DEF ChainInv
  <2> QED
    BY <1>1, <1>2, <2>1
<1>8. ChainInv'
  BY <1>4, <1>6, <1>7 DEF ChainInv, Settled
<1>9. call' \in [Calls -> Phases]
  BY <1>3 DEF Phases
<1>10. seen' \in [Calls -> Contents] /\ next' \in [Calls -> Contents]
  BY DEF Settle, StoreTypes, Contents
<1> QED
  BY <1>1, <1>2, <1>5, <1>8, <1>9, <1>10

-----------------------------------------------------------------------------
(* The steps.                                                               *)

LEMMA WithLockStep ==
    ASSUME StoreInv, NEW c \in Calls, WithLock(c)
    PROVE  StoreInv'
<1> USE DEF StoreInv, WithLock
<1> DEFINE n == Len(chain) + 1
<1>1. /\ chain \in Seq(Calls) /\ call \in [Calls -> Phases]
      /\ call' = [call EXCEPT ![c] = "queued"]
  BY DEF StoreTypes
<1>2. /\ chain' \in Seq(Calls) /\ Len(chain') = n
      /\ \A i \in 1..Len(chain) : chain'[i] = chain[i]
      /\ chain'[n] = c
      /\ DOMAIN chain = 1..Len(chain) /\ DOMAIN chain' = 1..n
      /\ Len(chain) \in Nat
  BY <1>1, AppendProperties, LenProperties
<1>3. \A i \in DOMAIN chain : chain[i] # c /\ chain[i] \in Calls
  BY <1>1, <1>2, ElementOfSeq DEF ChainInv, Settled
<1>4. \A i \in DOMAIN chain' : i \in DOMAIN chain \/ i = n
  BY <1>2
<1>5. \A i \in DOMAIN chain : call'[chain'[i]] = call[chain[i]]
  BY <1>1, <1>2, <1>3
<1>6. StoreTypes' /\ FilesAreWhole'
  BY <1>1, <1>2 DEF StoreTypes, FilesAreWhole, Phases
<1>7. ChainInv'
  <2>1. \A i \in DOMAIN chain' : call'[chain'[i]] \notin Settled
    BY <1>1, <1>2, <1>4, <1>5 DEF ChainInv, Settled
  <2>2. \A i, j \in DOMAIN chain' : chain'[i] = chain'[j] => i = j
    BY <1>2, <1>3, <1>4 DEF ChainInv
  <2>3. \A i \in DOMAIN chain' : i > 1 => call'[chain'[i]] = "queued"
    BY <1>1, <1>2, <1>4, <1>5 DEF ChainInv
  <2>4. ASSUME NEW d \in Calls, call'[d] \notin Settled
        PROVE  \E i \in DOMAIN chain' : chain'[i] = d
    <3>1. CASE d = c
      BY <1>2, <3>1
    <3>2. CASE d # c
      <4>1. PICK i \in DOMAIN chain : chain[i] = d
        BY <1>1, <2>4, <3>2 DEF ChainInv
      <4> QED
        BY <1>2, <4>1
    <3> QED
      BY <3>1, <3>2
  <2> QED
    BY <2>1, <2>2, <2>3, <2>4 DEF ChainInv
<1>8. SectionInv'
  BY <1>1 DEF SectionInv
<1> QED
  BY <1>6, <1>7, <1>8

\* A step of the call at the head of the chain that leaves it there.
LEMMA ChainKept ==
    ASSUME StoreInv, NEW c \in Calls, Runs(c), UNCHANGED chain,
           NEW p \in Phases \ Settled, call' = [call EXCEPT ![c] = p],
           call[c] \notin Settled
    PROVE  ChainInv' /\ chain' \in Seq(Calls) /\ call' \in [Calls -> Phases]
<1> USE DEF StoreInv
<1>1. /\ chain # <<>> /\ chain[1] = c /\ chain \in Seq(Calls)
      /\ call \in [Calls -> Phases]
  BY DEF Runs, StoreTypes
<1>2. DOMAIN chain = 1..Len(chain) /\ Len(chain) \in Nat
  BY <1>1, LenProperties
<1>3. \A i \in DOMAIN chain : chain[i] \in Calls /\ (i > 1 => chain[i] # c)
  BY <1>1, <1>2, ElementOfSeq DEF ChainInv
<1>4. \A i \in DOMAIN chain' : call'[chain'[i]] \notin Settled
  BY <1>1, <1>3 DEF ChainInv
<1>5. \A i \in DOMAIN chain' : i > 1 => call'[chain'[i]] = "queued"
  BY <1>1, <1>3 DEF ChainInv
<1>6. \A d \in Calls :
         call'[d] \notin Settled => \E i \in DOMAIN chain' : chain'[i] = d
  BY <1>1 DEF ChainInv
<1>7. \A i, j \in DOMAIN chain' : chain'[i] = chain'[j] => i = j
  BY DEF ChainInv
<1> QED
  BY <1>1, <1>4, <1>5, <1>6, <1>7 DEF ChainInv

LEMMA CallStepKeeps ==
    ASSUME StoreInv, NEW c \in Calls, CallStep(c)
    PROVE  StoreInv'
<1> USE DEF StoreInv
<1>1. Runs(c)
  BY DEF CallStep, Load, Throws, Return, Flush, Rename, SaveFails
<1>2. /\ file \in Contents /\ file # Torn /\ call \in [Calls -> Phases]
      /\ temp \in [Calls -> Contents \cup {Torn}]
      /\ seen \in [Calls -> Contents] /\ next \in [Calls -> Contents]
  BY DEF StoreTypes, FilesAreWhole
<1>3. \A d \in Calls : d # c => call[d] \in Settled \cup {"queued"}
  BY <1>1, Exclusive
<1>4. CASE Load(c)
  <2> USE <1>4 DEF Load
  <2>1. ChainInv' /\ chain' \in Seq(Calls) /\ call' \in [Calls -> Phases]
    BY <1>1, ChainKept DEF Phases, Settled
  <2>2. StoreTypes' /\ FilesAreWhole'
    BY <1>2, <2>1 DEF StoreTypes, FilesAreWhole
  <2>3. SectionInv'
    BY <1>2, <1>3 DEF SectionInv, Settled
  <2> QED
    BY <2>1, <2>2, <2>3
<1>5. CASE Throws(c)
  <2> USE <1>5 DEF Throws
  <2>1. /\ ChainInv'
        /\ chain' \in Seq(Calls) /\ call' \in [Calls -> Phases]
        /\ seen' \in [Calls -> Contents] /\ next' \in [Calls -> Contents]
        /\ \A d \in Calls : call'[d] \in Settled \cup {"queued"}
    BY <1>1, SettleStep
  <2>2. StoreTypes' /\ FilesAreWhole'
    BY <1>2, <2>1 DEF StoreTypes, FilesAreWhole
  <2>3. SectionInv'
    BY <2>1 DEF SectionInv, Settled
  <2> QED
    BY <2>1, <2>2, <2>3
<1>6. ASSUME NEW r \in Contents, Return(c, r)
      PROVE  StoreInv'
  <2> USE <1>6 DEF Return
  <2>1. CASE r = NoRecord
    <3>1. /\ ChainInv'
          /\ chain' \in Seq(Calls) /\ call' \in [Calls -> Phases]
          /\ seen' \in [Calls -> Contents] /\ next' \in [Calls -> Contents]
          /\ \A d \in Calls : call'[d] \in Settled \cup {"queued"}
      BY <1>1, <2>1, SettleStep
    <3>2. StoreTypes' /\ FilesAreWhole'
      BY <1>2, <2>1, <3>1 DEF StoreTypes, FilesAreWhole
    <3>3. SectionInv'
      BY <3>1 DEF SectionInv, Settled
    <3> QED
      BY <3>1, <3>2, <3>3
  <2>2. CASE r # NoRecord
    <3>1. ChainInv' /\ chain' \in Seq(Calls) /\ call' \in [Calls -> Phases]
      BY <1>1, <2>2, ChainKept DEF Phases, Settled
    <3>2. StoreTypes' /\ FilesAreWhole'
      BY <1>2, <2>2, <3>1 DEF StoreTypes, FilesAreWhole
    <3>3. SectionInv'
      BY <1>2, <1>3, <2>2 DEF SectionInv, Settled
    <3> QED
      BY <3>1, <3>2, <3>3
  <2> QED
    BY <2>1, <2>2
<1>7. CASE Flush(c)
  <2> USE <1>7 DEF Flush
  <2>1. ChainInv' /\ chain' \in Seq(Calls) /\ call' \in [Calls -> Phases]
    BY <1>1, ChainKept DEF Phases, Settled
  <2>2. StoreTypes' /\ FilesAreWhole'
    BY <1>2, <2>1 DEF StoreTypes, FilesAreWhole
  <2>3. SectionInv'
    BY <1>2, <1>3 DEF SectionInv, Settled
  <2> QED
    BY <2>1, <2>2, <2>3
<1>8. CASE Rename(c)
  <2> USE <1>8 DEF Rename, Flushed
  <2>1. /\ ChainInv'
        /\ chain' \in Seq(Calls) /\ call' \in [Calls -> Phases]
        /\ seen' \in [Calls -> Contents] /\ next' \in [Calls -> Contents]
        /\ \A d \in Calls : call'[d] \in Settled \cup {"queued"}
    BY <1>1, SettleStep
  <2>2. file' = next[c] /\ next[c] \in Contents
    BY <1>2 DEF SectionInv
  <2>3. StoreTypes' /\ FilesAreWhole'
    BY <1>2, <2>1, <2>2 DEF StoreTypes, FilesAreWhole, Contents
  <2>4. SectionInv'
    BY <2>1 DEF SectionInv, Settled
  <2> QED
    BY <2>1, <2>3, <2>4
<1>9. CASE SaveFails(c)
  <2> USE <1>9 DEF SaveFails
  <2>1. /\ ChainInv'
        /\ chain' \in Seq(Calls) /\ call' \in [Calls -> Phases]
        /\ seen' \in [Calls -> Contents] /\ next' \in [Calls -> Contents]
        /\ \A d \in Calls : call'[d] \in Settled \cup {"queued"}
    BY <1>1, SettleStep
  <2>2. StoreTypes' /\ FilesAreWhole'
    BY <1>2, <2>1 DEF StoreTypes, FilesAreWhole, Contents
  <2>3. SectionInv'
    BY <2>1 DEF SectionInv, Settled
  <2> QED
    BY <2>1, <2>2, <2>3
<1> QED
  BY <1>4, <1>5, <1>6, <1>7, <1>8, <1>9 DEF CallStep

LEMMA CrashStep ==
    ASSUME StoreInv, Crash
    PROVE  StoreInv'
<1> USE DEF StoreInv, Crash
<1>1. \A c \in Calls : call'[c] \in Settled
  BY DEF Settled, StoreTypes
<1>2. <<>> \in Seq(Calls) /\ DOMAIN <<>> = {} /\ chain' = <<>>
  OBVIOUS
<1>3. StoreTypes' /\ FilesAreWhole'
  BY <1>1, <1>2 DEF StoreTypes, FilesAreWhole, Contents, Phases, Settled
<1>4. ChainInv' /\ SectionInv'
  BY <1>1, <1>2 DEF ChainInv, SectionInv, Settled
<1> QED
  BY <1>3, <1>4

LEMMA StoreKeeps == StoreInv /\ [StoreNext]_storeVars => StoreInv'
<1> SUFFICES ASSUME StoreInv, [StoreNext]_storeVars PROVE StoreInv'
  OBVIOUS
<1>1. CASE StoreNext
  BY <1>1, CrashStep, WithLockStep, CallStepKeeps DEF StoreNext
<1>2. CASE UNCHANGED storeVars
  BY <1>2 DEF storeVars, StoreInv, StoreTypes, FilesAreWhole, ChainInv, SectionInv
<1> QED
  BY <1>1, <1>2

\* The file changes only when the one call in its critical section leaves it.
LEMMA SeenKept == StoreInv /\ SeenInv /\ [StoreNext]_storeVars => SeenInv'
<1> SUFFICES ASSUME StoreInv, SeenInv, [StoreNext]_storeVars PROVE SeenInv'
  OBVIOUS
<1>1. call \in [Calls -> Phases] /\ seen \in [Calls -> Contents]
  BY DEF StoreInv, StoreTypes
<1>2. CASE Crash
  BY <1>1, <1>2 DEF Crash, SeenInv
<1>3. ASSUME NEW c \in Calls, WithLock(c) PROVE SeenInv'
  BY <1>1, <1>3 DEF WithLock, SeenInv
<1>4. ASSUME NEW c \in Calls, CallStep(c) PROVE SeenInv'
  <2>1. /\ Runs(c)
        /\ \A d \in Calls : d # c => call'[d] = call[d] /\ seen'[d] = seen[d]
    BY <1>1, <1>4
       DEF CallStep, Load, Throws, Return, Flush, Rename, SaveFails, Settle
  <2>2. \A d \in Calls : d # c => call'[d] \in Settled \cup {"queued"}
    BY <2>1, Exclusive
  <2>3. call'[c] \in {"running", "opened", "flushed"} => seen'[c] = file'
    BY <1>1, <1>4
       DEF CallStep, Load, Throws, Return, Flush, Rename, SaveFails, Settle,
           SeenInv
  <2> QED
    BY <2>2, <2>3 DEF SeenInv, Settled
<1>5. CASE UNCHANGED storeVars
  BY <1>5 DEF storeVars, SeenInv
<1> QED
  BY <1>2, <1>3, <1>4, <1>5 DEF StoreNext

\* Only the head of the chain is in its critical section, and what it loaded is
\* what the file still holds.
THEOREM StoreInvariant == StoreSpec => [](StoreInv /\ SeenInv)
<1> QED
  BY StoreInitially, StoreKeeps, SeenKept, PTL DEF StoreSpec

\* No crash and no failed write leaves a half-written record (save).
THEOREM RecordsAreWhole == StoreSpec => []FilesAreWhole
<1>1. StoreInv => FilesAreWhole
  BY DEF StoreInv
<1> QED
  BY <1>1, StoreInvariant, PTL

-----------------------------------------------------------------------------
(* The refinement.                                                          *)

LEMMA AtomicInitially == StoreInit => Atomic!Init
<1> QED
  BY DEF StoreInit, Atomic!Init, Outcome, Contents

\* A call that settles as saved commits, one that fails is abandoned.
LEMMA SettledIs ==
    ASSUME StoreInv, NEW c \in Calls, call[c] \notin Settled,
           NEW o \in {"saved", "failed"}, call' = [call EXCEPT ![c] = o]
    PROVE  /\ Outcome[c] = "pending"
           /\ Outcome' = [Outcome EXCEPT ![c] = o]
<1>1. call \in [Calls -> Phases]
  BY DEF StoreInv, StoreTypes
<1> QED
  BY <1>1 DEF Outcome, Settled

LEMMA Abandoned ==
    ASSUME StoreInv, NEW c \in Calls, call[c] \notin Settled,
           call' = [call EXCEPT ![c] = "failed"], UNCHANGED file
    PROVE  Atomic!Next
<1>1. Outcome[c] = "pending" /\ Outcome' = [Outcome EXCEPT ![c] = "failed"]
  BY SettledIs
<1>2. Atomic!Abandon({c})
  <2>1. Outcome' = [d \in Calls |-> IF d \in {c} THEN "failed" ELSE Outcome[d]]
    BY <1>1 DEF Outcome
  <2> QED
    BY <1>1, <2>1 DEF Atomic!Abandon
<1> QED
  BY <1>2 DEF Atomic!Next

LEMMA Committed ==
    ASSUME StoreInv, NEW c \in Calls, call[c] \notin Settled,
           call' = [call EXCEPT ![c] = "saved"],
           file' \in Contents, <<file, file'>> \in Steps[c]
    PROVE  Atomic!Next
<1>1. Outcome[c] = "pending" /\ Outcome' = [Outcome EXCEPT ![c] = "saved"]
  BY SettledIs
<1>2. Atomic!Commit(c)
  BY <1>1 DEF Atomic!Commit, Contents
<1> QED
  BY <1>2 DEF Atomic!Next

\* A call that takes effect finds the record it had loaded.
SavesSeen ==
    \A c \in Calls :
        call[c] \in {"running", "flushed"} /\ call'[c] = "saved"
            => seen[c] = file

LEMMA AtomicStep ==
    StoreInv /\ SavesSeen /\ [StoreNext]_storeVars
        => [Atomic!Next]_<<file, Outcome>>
<1> SUFFICES ASSUME StoreInv, SavesSeen, [StoreNext]_storeVars
             PROVE  Atomic!Next \/ UNCHANGED <<file, Outcome>>
  OBVIOUS
<1>1. call \in [Calls -> Phases]
  BY DEF StoreInv, StoreTypes
<1>2. CASE Crash
  <2> DEFINE S == {c \in Calls : call[c] \notin Settled}
  <2>1. \A c \in S : Outcome[c] = "pending"
    BY DEF Outcome, Settled
  <2>2. Outcome' = [c \in Calls |-> IF c \in S THEN "failed" ELSE Outcome[c]]
    BY <1>1, <1>2 DEF Crash, Outcome, Settled
  <2>3. Atomic!Abandon(S)
    BY <1>2, <2>1, <2>2 DEF Crash, Atomic!Abandon
  <2> QED
    BY <2>3 DEF Atomic!Next
<1>3. ASSUME NEW c \in Calls, WithLock(c) \/ Load(c) \/ Flush(c)
      PROVE  UNCHANGED <<file, Outcome>>
  BY <1>1, <1>3 DEF WithLock, Load, Flush, Outcome
<1>4. ASSUME NEW c \in Calls, Throws(c) \/ SaveFails(c)
      PROVE  Atomic!Next
  BY <1>4, Abandoned DEF Throws, SaveFails, Settle, Settled
<1>5. ASSUME NEW c \in Calls, NEW r \in Contents, Return(c, r)
      PROVE  Atomic!Next \/ UNCHANGED <<file, Outcome>>
  <2>1. CASE r = NoRecord
    <3>1. file' = r /\ seen[c] = file
      BY <1>1, <1>5, <2>1 DEF Return, Settle, SavesSeen
    <3> QED
      BY <1>5, <2>1, <3>1, Committed DEF Return, Settle, Settled
  <2>2. CASE r # NoRecord
    BY <1>1, <1>5, <2>2 DEF Return, Outcome
  <2> QED
    BY <2>1, <2>2
<1>6. ASSUME NEW c \in Calls, Rename(c)
      PROVE  Atomic!Next
  <2>1. /\ seen[c] = file /\ file' = next[c] /\ next[c] \in Contents
        /\ <<seen[c], next[c]>> \in Steps[c]
    BY <1>1, <1>6 DEF Rename, Flushed, Settle, SavesSeen, StoreInv, SectionInv,
       StoreTypes
  <2> QED
    BY <1>6, <2>1, Committed DEF Rename, Flushed, Settle, Settled
<1>7. CASE UNCHANGED storeVars
  BY <1>7 DEF storeVars, Outcome
<1> QED
  BY <1>2, <1>3, <1>4, <1>5, <1>6, <1>7 DEF StoreNext, CallStep

\* The calls on a topic take effect one at a time, each on what the one before
\* left, all of it or nothing (withLock and save).
THEOREM StoreIsAtomic == StoreSpec => IsAtomic
<1>1. SeenInv => SavesSeen
  BY DEF SeenInv, SavesSeen
<1> QED
  BY <1>1, AtomicInitially, AtomicStep, StoreInvariant, PTL
     DEF StoreSpec, IsAtomic, Atomic!Spec

-----------------------------------------------------------------------------
(* The tab and the server: the inductive invariant.                         *)

\* The proof that is verified for the gate on screen holds its latch.
GateInv ==
    /\ \A c \in Checkins :
          stage[c] = "verifying" /\ alive[c] = "gate" => gate.latch
    /\ OneProofAtATime

\* How far a request is for the tab and for the store, and what it was accepted
\* with: nothing before its executor runs, then what is being saved.
JobInv(c) ==
    /\ stage[c] \in {"none", "verifying"} => call[c] = "new"
    /\ stage[c] = "verifying" => c \in Checkins
    /\ stage[c] = "told" => call[c] = "saved" /\ result[c] # NoRecord
    /\ stage[c] = "posted" /\ call[c] = "failed" => result[c] = NoRecord
    /\ call[c] \in {"new", "queued", "running"} => result[c] = NoRecord
    /\ call[c] \in {"opened", "flushed"} /\ result[c] # NoRecord
          => next[c] = result[c]
    /\ c \in Checkins /\ result[c] # NoRecord => result[c].seq = sent[c] + 1
    /\ c \in Cancels /\ result[c] # NoRecord => result[c].status = "CANCELLED"

\* A switch never goes back.
After(r, s) ==
    /\ s \in Record
    /\ r.seq <= s.seq
    /\ r.status = "CANCELLED" => s.status = "CANCELLED"

\* What a saved request was accepted with is in the file, or was before others,
\* unless one process has saved over the other.
DurableInv(c) ==
    /\ other # "clash"
    /\ call[c] = "saved" /\ result[c] # NoRecord
    => After(result[c], file)

\* An executor of the watcher is at work on one active switch, and until the
\* first of them has saved the chain is the only way to the file.
WatcherInv ==
    /\ copy = {} \/ \E r \in Record : r.status = "ACTIVE" /\ copy = {r}
    /\ other = "none" => SeenInv

WholeInv ==
    /\ TypeOK
    /\ StoreInv
    /\ GateInv
    /\ WatcherInv
    /\ \A c \in Calls : JobInv(c) /\ DurableInv(c)

USE BoundsAssumption, RecordsAssumption, CallsAssumption

LEMMA PageInitially == Init => WholeInv
<1> SUFFICES ASSUME Init PROVE WholeInv
  OBVIOUS
<1>1. StoreInv /\ WatcherInv
  BY StoreInitially DEF Init, WatcherInv
<1>2. FreshGate \in Gate
  BY DEF FreshGate, Gate
<1>3. TypeOK
  <2>1. initial \in Contents /\ view \in Contents
    BY DEF Init, StoreInit, Contents
  <2>2. asked \in BOOLEAN
    BY DEF Init
  <2>3. 0 \in 0..N-1 /\ 0 \in 0..MaxFaults /\ NoRecord \in Contents
    BY DEF Contents
  <2>4. TabTypes
    BY <1>2, <2>1, <2>2, <2>3 DEF Init, TabTypes
  <2> QED
    BY <1>1, <2>3, <2>4 DEF Init, TypeOK, StoreInv
<1>4. GateInv
  BY DEF Init, GateInv, OneProofAtATime
<1>5. \A c \in Calls : JobInv(c) /\ DurableInv(c)
  BY DEF Init, StoreInit, JobInv, DurableInv
<1> QED
  BY <1>1, <1>3, <1>4, <1>5 DEF WholeInv

-----------------------------------------------------------------------------
(* Steps of the tab alone.                                                  *)

\* A request moves on for the tab: it is built, told, or not waited for.
Moves(c) ==
    \/ stage'[c] \in {stage[c], "over"}
    \/ stage[c] = "none" /\ stage'[c] = "verifying" /\ c \in Checkins
    \/ /\ stage[c] = "posted" /\ stage'[c] = "told"
       /\ Answered(c) /\ result[c] # NoRecord

LEMMA TabStep ==
    ASSUME WholeInv, UNCHANGED <<diskVars, result>>,
           TabTypes', faults' \in 0..MaxFaults, GateInv',
           \A c \in Calls : Moves(c) /\ (sent'[c] = sent[c] \/ stage[c] = "none")
    PROVE  WholeInv'
<1> USE DEF diskVars
<1>1. StoreInv' /\ WatcherInv'
  BY StoreKeeps, SeenKept DEF WholeInv, WatcherInv
<1>2. TypeOK'
  BY <1>1 DEF WholeInv, TypeOK, StoreInv
<1>3. ASSUME NEW c \in Calls PROVE JobInv(c)' /\ DurableInv(c)'
  <2>1. JobInv(c) /\ DurableInv(c)
    BY DEF WholeInv
  <2>2. UNCHANGED <<file, call, next, result>>
    BY DEF storeVars
  <2>3. Moves(c) /\ (sent'[c] = sent[c] \/ result[c] = NoRecord)
    BY <2>1 DEF JobInv
  <2> QED
    BY <2>1, <2>2, <2>3 DEF JobInv, DurableInv, Moves, Answered
<1> QED
  BY <1>1, <1>2, <1>3 DEF WholeInv

\* What is rendered has its type, and keeps a verification only with its gate.
LEMMA Rendered ==
    ASSUME WholeInv, NEW v \in Contents, NEW p \in {"none", "checkin", "cancel"},
           NEW s \in {"idle", "submitting", "success"}, NEW b \in BOOLEAN,
           Render(v, p, s, gate, b),
           slow' \in SUBSET Contents, asked' \in BOOLEAN,
           stage' \in [Calls -> {"none", "verifying", "posted", "told", "over"}],
           sent' \in [Calls -> 0..N-1],
           \A c \in Calls : stage'[c] = "verifying" => stage[c] = "verifying"
    PROVE  TabTypes' /\ GateInv'
<1> USE DEF WholeInv
<1>1. TabTypes
  BY DEF TypeOK
<1>2. FreshGate \in Gate
  BY DEF FreshGate, Gate
<1>3. busy' \in BOOLEAN
  BY DEF Render
<1>4. alive' \in [Calls -> {"no", "card", "gate"}]
  BY <1>1 DEF Render, TabTypes
<1>5. TabTypes'
  BY <1>1, <1>2, <1>3, <1>4 DEF Render, TabTypes
<1>6. \A c \in Checkins : alive'[c] = "gate" => alive[c] = "gate" /\ gate' = gate
  BY DEF Render, GateShown
<1>7. GateInv'
  BY <1>6 DEF GateInv, OneProofAtATime
<1> QED
  BY <1>5, <1>7

\* Nothing on a page that has just been loaded waits for anything.
LEMMA Loaded ==
    ASSUME WholeInv, NEW m \in {"chat", "scene"}, Loads(m),
           stage' \in [Calls -> {"none", "verifying", "posted", "told", "over"}],
           sent' \in [Calls -> 0..N-1]
    PROVE  TabTypes' /\ GateInv'
<1>1. FreshGate \in Gate
  BY DEF FreshGate, Gate
<1>2. file \in Contents
  BY DEF WholeInv, StoreInv, StoreTypes, FilesAreWhole
<1>3. TabTypes'
  BY <1>1, <1>2 DEF Loads, TabTypes, Contents
<1>4. GateInv'
  BY DEF Loads, GateInv, OneProofAtATime
<1> QED
  BY <1>3, <1>4

LEMMA FaultTyped ==
    WholeInv /\ (Fault \/ UNCHANGED faults) => faults' \in 0..MaxFaults
<1> QED
  BY DEF WholeInv, TypeOK, Fault

LEMMA FetchStep == WholeInv /\ (Fetch \/ FetchFails) => WholeInv'
<1> SUFFICES ASSUME WholeInv, Fetch \/ FetchFails PROVE WholeInv'
  OBVIOUS
<1>1. TabTypes /\ GateInv /\ file \in Contents /\ faults \in 0..MaxFaults
  BY DEF WholeInv, TypeOK, StoreInv, StoreTypes, FilesAreWhole
<1>2. \A r \in Contents : Applied(r) \in Contents
  BY <1>1 DEF Applied, TabTypes
<1>3. CASE Poll
  <2>1. TabTypes' /\ GateInv'
    BY <1>1, <1>2, <1>3, Rendered DEF Poll, TabTypes
  <2> QED
    BY <1>1, <1>3, <2>1, TabStep DEF Poll, Moves
<1>4. CASE Reads
  <2>1. TabTypes' /\ GateInv'
    BY <1>1, <1>4 DEF Reads, TabTypes, GateInv, OneProofAtATime
  <2> QED
    BY <1>1, <1>4, <2>1, TabStep DEF Reads, Moves
<1>5. CASE Arrives
  <2>1. PICK r \in slow : Render(Applied(r), panel, card, gate, busy)
    BY <1>5 DEF Arrives
  <2>2. Applied(r) \in Contents
    BY <1>1, <1>2 DEF TabTypes
  <2>3. TabTypes' /\ GateInv'
    BY <1>1, <1>5, <2>1, <2>2, Rendered DEF Arrives, TabTypes
  <2> QED
    BY <1>1, <1>5, <2>3, TabStep DEF Arrives, Moves
<1>6. CASE FetchFails
  <2>1. TabTypes' /\ GateInv'
    BY <1>1, <1>6 DEF FetchFails, TabTypes, GateInv, OneProofAtATime
  <2> QED
    BY <1>1, <1>6, <2>1, TabStep DEF FetchFails, Moves
<1> QED
  BY <1>3, <1>4, <1>5, <1>6 DEF Fetch

\* An event of the gate that leaves its latch alone.
LEMMA GateStep ==
    ASSUME WholeInv, NEW g \in Gate, g.latch = gate.latch, GateEvent(g),
           UNCHANGED <<alive, stage, sent>>, Fault \/ UNCHANGED faults
    PROVE  WholeInv'
<1>1. TabTypes /\ GateInv
  BY DEF WholeInv, TypeOK
<1>2. TabTypes' /\ GateInv'
  BY <1>1 DEF GateEvent, TabTypes, GateInv, OneProofAtATime
<1> QED
  BY <1>2, TabStep, FaultTyped DEF GateEvent, Moves

LEMMA DialogStep ==
    WholeInv /\ (Press \/ ContextArrives \/ ContextFails \/ Dismiss) => WholeInv'
<1> SUFFICES ASSUME WholeInv, Press \/ ContextArrives \/ ContextFails \/ Dismiss
             PROVE  WholeInv'
  OBVIOUS
<1>1. gate \in Gate
  BY DEF WholeInv, TypeOK, TabTypes
<1>2. \A g \in {Pressed(gate), Opened(gate), Refused(gate), Closed(gate)} :
         g \in Gate /\ g.latch = gate.latch
  BY <1>1 DEF Gate, Pressed, Opened, Refused, Closed
<1> QED
  BY <1>2, GateStep DEF Press, ContextArrives, ContextFails, Dismiss

\* The latch admits a proof only while none is verified at this gate.
LEMMA ProveStep ==
    ASSUME WholeInv, NEW c \in Checkins, Prove(c)
    PROVE  WholeInv'
<1>1. TabTypes /\ GateInv /\ gate \in Gate
  BY DEF WholeInv, TypeOK, TabTypes
<1>2. CASE Latched(gate)
  <2>1. Proved(gate) \in Gate /\ Proved(gate).latch = gate.latch
    BY <1>1, <1>2 DEF Gate, Proved
  <2> QED
    BY <1>2, <2>1, GateStep DEF Prove
<1>3. CASE ~Latched(gate)
  <2> USE <1>3 DEF Prove, GateEvent
  <2>1. gate' \in Gate /\ gate'.latch
    BY <1>1 DEF Gate, Proved, Closed
  <2>2. Offered(Acted(view)) \in 0..N-1
    <3>1. Active(Acted(view)) /\ Acted(view) \in Contents
      BY <1>1 DEF GateShown, CardShown, Acted, TabTypes
    <3> QED
      BY <3>1 DEF Active, Offered, Contents, Record
  <2>3. TabTypes'
    BY <1>1, <2>1, <2>2 DEF TabTypes
  <2>4. GateInv'
    <3>1. \A d \in Checkins :
             d # c => ~(stage'[d] = "verifying" /\ alive'[d] = "gate")
      BY <1>1 DEF GateInv, Latched, TabTypes
    <3> QED
      BY <2>1, <3>1 DEF GateInv, OneProofAtATime
  <2>5. \A d \in Calls : Moves(d) /\ (sent'[d] = sent[d] \/ stage[d] = "none")
    BY <1>1 DEF TabTypes, Moves
  <2> QED
    BY <2>3, <2>4, <2>5, TabStep, FaultTyped
<1> QED
  BY <1>2, <1>3

LEMMA ToggleStep ==
    ASSUME WholeInv, NEW p \in {"checkin", "cancel"}, Toggle(p)
    PROVE  WholeInv'
<1>1. TabTypes
  BY DEF WholeInv, TypeOK
<1>2. TabTypes' /\ GateInv'
  <2> DEFINE q == IF panel = p THEN "none" ELSE p
  <2>1. q \in {"none", "checkin", "cancel"}
    OBVIOUS
  <2>2. Render(view, q, card, gate, busy)
    BY DEF Toggle
  <2> HIDE DEF q
  <2> QED
    BY <1>1, <2>1, <2>2, Rendered DEF Toggle, TabTypes
<1> QED
  BY <1>2, TabStep, FaultTyped DEF Toggle, Moves

\* Whoever waited for an answer does not hear it.
LEMMA UnheardTyped ==
    ASSUME WholeInv
    PROVE  /\ Unheard(stage)
                \in [Calls -> {"none", "verifying", "posted", "told", "over"}]
           /\ \A c \in Calls : Unheard(stage)[c] \in {stage[c], "over"}
<1>1. stage \in [Calls -> {"none", "verifying", "posted", "told", "over"}]
  BY DEF WholeInv, TypeOK, TabTypes
<1> QED
  BY <1>1 DEF Unheard

LEMMA LeaveStep ==
    ASSUME WholeInv,
           (\E m \in {"chat", "scene"} : Reload(m)) \/ Acknowledge
    PROVE  WholeInv'
<1>1. PICK m \in {"chat", "scene"} : Loads(m)
  BY DEF Reload, Acknowledge
<1>2. /\ stage' = Unheard(stage) /\ UNCHANGED <<diskVars, sent, result>>
      /\ Fault \/ UNCHANGED faults
  BY DEF Reload, Acknowledge
<1>3. TabTypes' /\ GateInv'
  BY <1>1, <1>2, UnheardTyped, Loaded DEF WholeInv, TypeOK, TabTypes
<1>4. \A c \in Calls : Moves(c)
  BY <1>2, UnheardTyped DEF Moves
<1> QED
  BY <1>2, <1>3, <1>4, TabStep, FaultTyped

-----------------------------------------------------------------------------
(* The answers.                                                             *)

LEMMA NotVerifiedStep ==
    ASSUME WholeInv, NEW c \in Calls, NotVerified(c)
    PROVE  WholeInv'
<1> USE DEF NotVerified
<1>1. TabTypes /\ GateInv /\ gate \in Gate /\ Failed(gate) \in Gate
  BY DEF WholeInv, TypeOK, TabTypes, Gate, Failed
<1>2. TabTypes'
  BY <1>1 DEF TabTypes
<1>3. \A d \in Checkins : stage'[d] = "verifying" => d # c /\ stage[d] = "verifying"
  BY <1>1 DEF TabTypes
<1>4. c \in Checkins
  BY DEF WholeInv, JobInv
<1>5. GateInv'
  <2>1. CASE alive[c] = "gate"
    <3>1. \A d \in Checkins : ~(stage'[d] = "verifying" /\ alive'[d] = "gate")
      BY <1>1, <1>3, <1>4, <2>1 DEF GateInv, OneProofAtATime
    <3> QED
      BY <3>1 DEF GateInv, OneProofAtATime
  <2>2. CASE alive[c] # "gate"
    BY <1>1, <1>3, <2>2 DEF GateInv, OneProofAtATime
  <2> QED
    BY <2>1, <2>2
<1>6. \A d \in Calls : Moves(d)
  BY <1>1 DEF Moves, TabTypes
<1> QED
  BY <1>2, <1>5, <1>6, TabStep, FaultTyped

\* The error of a request, shown or not.
LEMMA ErrsStep ==
    ASSUME WholeInv, NEW c \in Calls, Errs(c), Fault \/ UNCHANGED faults
    PROVE  WholeInv'
<1> DEFINE s == IF c \in Checkins /\ alive[c] # "no" THEN "idle" ELSE card
           b == busy /\ ~(c \in Cancels /\ alive[c] # "no")
<1>1. TabTypes
  BY DEF WholeInv, TypeOK
<1>2. s \in {"idle", "submitting", "success"} /\ b \in BOOLEAN
  BY <1>1 DEF TabTypes
<1>3. Render(view, panel, s, gate, b)
  BY DEF Errs
<1> HIDE DEF s, b
<1>4. /\ stage' \in [Calls -> {"none", "verifying", "posted", "told", "over"}]
      /\ \A d \in Calls : stage'[d] \in {stage[d], "over"}
  BY <1>1 DEF Errs, TabTypes
<1>5. TabTypes' /\ GateInv'
  BY <1>1, <1>2, <1>3, <1>4, Rendered DEF Errs, TabTypes
<1> QED
  BY <1>4, <1>5, TabStep, FaultTyped DEF Errs, Moves

LEMMA SucceedsStep ==
    ASSUME WholeInv, NEW c \in Calls, Succeeds(c)
    PROVE  WholeInv'
<1> USE DEF Succeeds
<1>1. TabTypes
  BY DEF WholeInv, TypeOK
<1>2. /\ stage' \in [Calls -> {"none", "verifying", "posted", "told", "over"}]
      /\ stage'[c] = "told"
      /\ \A d \in Calls : d # c => stage'[d] \in {stage[d], "over"}
  BY <1>1, UnheardTyped DEF TabTypes
<1>3. TabTypes' /\ GateInv'
  <2>1. CASE c \in Cancels /\ mode = "scene"
    BY <1>1, <1>2, <2>1, Loaded DEF Cancelled, TabTypes
  <2>2. CASE c \in Cancels /\ mode # "scene"
    BY <1>1, <1>2, <2>2, Rendered DEF Cancelled, TabTypes
  <2>3. CASE c \notin Cancels
    <3> DEFINE s == IF alive[c] = "no" THEN card ELSE "success"
               q == IF mode = "chat" THEN "none" ELSE panel
    <3>1. /\ s \in {"idle", "submitting", "success"}
          /\ q \in {"none", "checkin", "cancel"}
      BY <1>1 DEF TabTypes
    <3>2. Render(view, q, s, gate, busy)
      BY <2>3 DEF CheckedIn
    <3>3. slow' \in SUBSET Contents /\ asked' \in BOOLEAN
      BY <1>1, <2>3 DEF CheckedIn, TabTypes
    <3>4. view \in Contents /\ busy \in BOOLEAN /\ sent' \in [Calls -> 0..N-1]
      BY <1>1 DEF TabTypes
    <3>5. \A d \in Calls : stage'[d] = "verifying" => stage[d] = "verifying"
      BY <1>2
    <3> HIDE DEF s, q, Succeeds
    <3> QED
      BY <1>2, <3>1, <3>2, <3>3, <3>4, <3>5, Rendered
  <2> QED
    BY <2>1, <2>2, <2>3
<1>4. \A d \in Calls : Moves(d)
  BY <1>2 DEF Moves
<1> QED
  BY <1>3, <1>4, TabStep, FaultTyped

-----------------------------------------------------------------------------
(* The requests.                                                            *)

LEMMA PostedStep ==
    ASSUME WholeInv, NEW c \in Calls, WithLock(c),
           stage' = [stage EXCEPT ![c] = "posted"],
           UNCHANGED <<copy, other, sent, result, faults>>, TabTypes', GateInv'
    PROVE  WholeInv'
<1>1. StoreInv' /\ WatcherInv'
  BY WithLockStep, SeenKept DEF WholeInv, WatcherInv, StoreNext
<1>2. TypeOK'
  BY <1>1 DEF WholeInv, TypeOK, StoreInv
<1>3. ASSUME NEW d \in Calls PROVE JobInv(d)' /\ DurableInv(d)'
  <2>1. JobInv(d) /\ DurableInv(d)
    BY DEF WholeInv
  <2>2. call \in [Calls -> Phases] /\ stage \in [Calls ->
            {"none", "verifying", "posted", "told", "over"}]
    BY DEF WholeInv, TypeOK, StoreTypes, TabTypes
  <2> QED
    BY <2>1, <2>2 DEF WithLock, JobInv, DurableInv
<1> QED
  BY <1>1, <1>2, <1>3 DEF WholeInv

LEMMA PostStep ==
    ASSUME WholeInv,
           \/ \E c \in Calls : Verified(c)
           \/ \E k \in Cancels : PostCancel(k)
    PROVE  WholeInv'
<1>1. TabTypes /\ GateInv
  BY DEF WholeInv, TypeOK
<1>2. ASSUME NEW c \in Calls, Verified(c) PROVE WholeInv'
  <2> DEFINE s == IF alive[c] = "no" THEN card ELSE "submitting"
  <2>1. s \in {"idle", "submitting", "success"}
    BY <1>1 DEF TabTypes
  <2>2. Render(view, panel, s, gate, busy)
    BY <1>2 DEF Verified
  <2> HIDE DEF s
  <2>3. TabTypes' /\ GateInv'
    BY <1>1, <1>2, <2>1, <2>2, Rendered DEF Verified, TabTypes
  <2> QED
    BY <1>2, <2>3, PostedStep DEF Verified
<1>3. ASSUME NEW k \in Cancels, PostCancel(k) PROVE WholeInv'
  <2>1. TabTypes' /\ GateInv'
    BY <1>1, <1>3 DEF PostCancel, TabTypes, GateInv, OneProofAtATime
  <2> QED
    BY <1>3, <2>1, PostedStep DEF PostCancel
<1> QED
  BY <1>2, <1>3

-----------------------------------------------------------------------------
(* The server.                                                              *)

LEMMA GoesForward ==
    ASSUME NEW c \in Calls, NEW r, NEW s, <<r, s>> \in Steps[c]
    PROVE  /\ r = NoRecord => s = NoRecord
           /\ r # NoRecord => r \in Record /\ After(r, s)
<1>1. r \in Contents /\ s \in Contents /\ MayMake(c, r, s)
  BY ExecutorsAssumption DEF PageSteps
<1>2. r = NoRecord => s = NoRecord
  BY <1>1 DEF MayMake
<1>3. ASSUME r # NoRecord PROVE r \in Record /\ After(r, s)
  <2>1. r \in Record
    BY <1>1, <1>3 DEF Contents
  <2>2. CASE s = r
    BY <2>1, <2>2 DEF After, Record
  <2>3. CASE s # NoRecord /\ s = [r EXCEPT !.seq = @ + 1] /\ r.status = "ACTIVE"
    BY <1>1, <2>1, <2>3 DEF After, Record, Contents
  <2>4. CASE s = [r EXCEPT !.status = "CANCELLED"] /\ r.status = "ACTIVE"
    BY <2>1, <2>4 DEF After, Record
  <2> QED
    BY <1>1, <1>3, <2>1, <2>2, <2>3, <2>4 DEF MayMake
<1> QED
  BY <1>2, <1>3

LEMMA AfterTwo ==
    ASSUME NEW r \in Record, NEW s \in Record, NEW u, After(r, s), After(s, u)
    PROVE  After(r, u)
<1> QED
  BY DEF After, Record

\* The file only goes forward, but for such a save.
Forward ==
    /\ other' # "clash" => other # "clash"
    /\ \/ other' = "clash"
       \/ file' = file
       \/ file # NoRecord => After(file, file')

\* What the server does, the watcher takes no notice of.
Unwatched ==
    /\ UNCHANGED copy
    /\ other' = IF Overwrites THEN "clash" ELSE other

\* A call of this process replaces what it had loaded, or the watcher's save.
LEMMA SavesOver ==
    ASSUME WholeInv, Unwatched, NEW c \in Calls,
           call[c] \in {"running", "flushed"}, call'[c] = "saved"
    PROVE  seen[c] = file \/ other' = "clash"
<1>1. CASE other = "none"
  BY <1>1 DEF WholeInv, WatcherInv, SeenInv
<1>2. CASE other # "none"
  BY <1>2 DEF Unwatched, Overwrites
<1> QED
  BY <1>1, <1>2

LEMMA StaysDurable ==
    ASSUME WholeInv, NEW d \in Calls, call'[d] = call[d], result'[d] = result[d],
           Forward
    PROVE  DurableInv(d)'
<1> SUFFICES ASSUME call[d] = "saved", result[d] # NoRecord, other' # "clash"
             PROVE  After(result[d], file')
  BY DEF DurableInv
<1>1. After(result[d], file) /\ result[d] \in Record /\ file \in Record
  BY DEF WholeInv, DurableInv, TypeOK, Contents, After, Forward
<1>2. file # NoRecord
  BY <1>1
<1> QED
  BY <1>1, <1>2, AfterTwo DEF Forward

LEMMA TabKept ==
    WholeInv /\ UNCHANGED tabVars => TabTypes' /\ GateInv'
<1> QED
  BY DEF WholeInv, TypeOK, tabVars, TabTypes, GateInv, OneProofAtATime

\* A step of one call's critical section.
LEMMA SectionStep ==
    ASSUME WholeInv, NEW c \in Calls, CallStep(c), UNCHANGED <<copy, tabVars>>,
           other' \in {other, "clash"},
           result' \in [Calls -> Contents], faults' \in 0..MaxFaults,
           \A d \in Calls : d # c => result'[d] = result[d],
           Forward, JobInv(c)', DurableInv(c)'
    PROVE  WholeInv'
<1>1. StoreInv' /\ WatcherInv'
  BY CallStepKeeps, SeenKept DEF WholeInv, WatcherInv, StoreNext
<1>2. TypeOK' /\ GateInv'
  <2>1. TabTypes' /\ GateInv'
    BY TabKept
  <2> QED
    BY <1>1, <2>1 DEF WholeInv, TypeOK, StoreInv
<1>3. call \in [Calls -> Phases] /\ next \in [Calls -> Contents]
  BY DEF WholeInv, TypeOK, StoreTypes
<1>4. \A d \in Calls : d # c => call'[d] = call[d] /\ next'[d] = next[d]
  BY <1>3 DEF CallStep, Load, Throws, Return, Flush, Rename, SaveFails, Settle
<1>5. ASSUME NEW d \in Calls, d # c PROVE JobInv(d)' /\ DurableInv(d)'
  <2>1. JobInv(d)
    BY DEF WholeInv
  <2>2. JobInv(d)'
    BY <1>4, <1>5, <2>1 DEF JobInv, tabVars
  <2> QED
    BY <1>4, <1>5, <2>2, StaysDurable
<1> QED
  BY <1>1, <1>2, <1>5 DEF WholeInv

\* What a check-in is accepted with is what its user was shown, plus one.
LEMMA MadeIs ==
    ASSUME WholeInv, NEW c \in Calls, Accepts(c), call[c] = "running"
    PROVE  /\ Made(c) \in Record
           /\ c \in Checkins => Made(c).seq = sent[c] + 1
           /\ c \in Cancels => Made(c).status = "CANCELLED"
<1>1. seen[c] \in Record /\ sent[c] \in 0..N-1
  BY DEF WholeInv, TypeOK, StoreTypes, TabTypes, Accepts, Active, Contents
<1>2. CASE c \in Checkins
  <2>1. seen[c].seq = sent[c] /\ seen[c].seq + 1 < N
    BY <1>2 DEF Accepts, Fresh
  <2>2. Made(c) = [seen[c] EXCEPT !.seq = @ + 1]
    BY <1>2 DEF Made
  <2> QED
    BY <1>1, <1>2, <2>1, <2>2 DEF Record
<1>3. CASE c \in Cancels
  BY <1>1, <1>3 DEF Made, Record
<1> QED
  BY <1>2, <1>3

LEMMA AcceptStep ==
    ASSUME WholeInv, NEW c \in Calls, Accept(c), Unwatched
    PROVE  WholeInv'
<1>1. Accepts(c) /\ Return(c, Made(c)) /\ call[c] = "running"
  BY DEF Accept, Return
<1>2. Made(c) \in Contents /\ Made(c) # NoRecord
  BY <1>1, MadeIs DEF Contents
<1>3. CallStep(c) /\ Forward /\ other' \in {other, "clash"}
  BY <1>1, <1>2 DEF CallStep, Return, Forward, Unwatched
<1>4. /\ call \in [Calls -> Phases] /\ next \in [Calls -> Contents]
      /\ result \in [Calls -> Contents] /\ faults \in 0..MaxFaults
  BY DEF WholeInv, TypeOK, StoreTypes
<1>5. call'[c] = "opened" /\ next'[c] = Made(c) /\ result'[c] = Made(c)
  BY <1>1, <1>2, <1>4 DEF Accept, Return
<1>6. JobInv(c)
  BY DEF WholeInv
<1>7. JobInv(c)' /\ DurableInv(c)'
  BY <1>1, <1>5, <1>6, MadeIs DEF JobInv, DurableInv, Accept, tabVars
<1>8. /\ result' \in [Calls -> Contents]
      /\ \A d \in Calls : d # c => result'[d] = result[d]
  BY <1>2, <1>4 DEF Accept
<1> QED
  BY <1>3, <1>4, <1>7, <1>8, SectionStep DEF Accept, Unwatched

LEMMA RejectStep ==
    ASSUME WholeInv, NEW c \in Calls, Reject(c), Unwatched
    PROVE  WholeInv'
<1>1. Return(c, seen[c]) /\ call[c] = "running"
  BY DEF Reject, Return
<1>2. /\ call \in [Calls -> Phases] /\ seen[c] \in Contents
      /\ result \in [Calls -> Contents]
  BY DEF WholeInv, TypeOK, StoreTypes
<1>3. CallStep(c) /\ Forward /\ other' \in {other, "clash"}
  <2>1. CallStep(c) /\ other' \in {other, "clash"}
    BY <1>1, <1>2 DEF CallStep, Unwatched
  <2>2. CASE seen[c] = NoRecord
    <3>1. file' = seen[c] /\ call'[c] = "saved"
      BY <1>1, <1>2, <2>2 DEF Return, Settle
    <3> QED
      BY <1>1, <2>1, <3>1, SavesOver DEF Forward
  <2>3. CASE seen[c] # NoRecord
    BY <1>1, <2>1, <2>3 DEF Return, Forward
  <2> QED
    BY <2>1, <2>2, <2>3
<1>4. JobInv(c)
  BY DEF WholeInv
<1>5. result[c] = NoRecord /\ result' = result
  BY <1>1, <1>4 DEF JobInv, Reject
<1>6. call'[c] \in {"opened", "saved"}
  BY <1>1, <1>2 DEF Return, Settle
<1>7. JobInv(c)' /\ DurableInv(c)'
  BY <1>1, <1>4, <1>5, <1>6 DEF JobInv, DurableInv, Reject, tabVars
<1>8. faults' \in 0..MaxFaults
  BY FaultTyped DEF Reject
<1> QED
  BY <1>2, <1>3, <1>5, <1>7, <1>8, SectionStep DEF Reject, Unwatched

LEMMA SaveStep ==
    ASSUME WholeInv, NEW c \in Calls, StoreStep(c), Unwatched
    PROVE  WholeInv'
<1>1. /\ CallStep(c) /\ result' = result
      /\ UNCHANGED copy /\ other' \in {other, "clash"}
  BY DEF StoreStep, CallStep, Unwatched
<1>2. /\ call \in [Calls -> Phases] /\ next \in [Calls -> Contents]
      /\ temp \in [Calls -> Contents \cup {Torn}]
      /\ result \in [Calls -> Contents] /\ faults \in 0..MaxFaults
  BY DEF WholeInv, TypeOK, StoreTypes
<1>3. JobInv(c)
  BY DEF WholeInv
<1>4. CASE Load(c) \/ Flush(c)
  <2>1. /\ UNCHANGED <<file, next>>
        /\ \/ call[c] = "queued" /\ call'[c] = "running"
           \/ call[c] = "opened" /\ call'[c] = "flushed"
    BY <1>2, <1>4 DEF Load, Flush
  <2>2. JobInv(c)' /\ DurableInv(c)'
    BY <1>1, <1>3, <2>1 DEF JobInv, DurableInv, StoreStep, tabVars
  <2> QED
    BY <1>1, <1>2, <2>1, <2>2, SectionStep DEF StoreStep, Forward
<1>5. CASE Rename(c)
  <2>1. /\ call[c] = "flushed" /\ call'[c] = "saved"
        /\ file' = next[c] /\ <<seen[c], next[c]>> \in Steps[c]
    BY <1>2, <1>5 DEF Rename, Flushed, Settle, WholeInv, StoreInv, SectionInv
  <2>2. Forward
    <3>1. seen[c] = file \/ other' = "clash"
      BY <2>1, SavesOver
    <3> QED
      BY <1>1, <2>1, <3>1, GoesForward DEF Forward
  <2>3. JobInv(c)'
    BY <1>1, <1>3, <2>1 DEF JobInv, StoreStep, tabVars
  <2>4. DurableInv(c)'
    <3> SUFFICES ASSUME result[c] # NoRecord PROVE After(result[c], file')
      BY <1>1 DEF DurableInv
    <3>1. file' = result[c] /\ result[c] \in Record
      BY <1>2, <1>3, <2>1 DEF JobInv, Contents
    <3> QED
      BY <3>1 DEF After, Record
  <2> QED
    BY <1>1, <1>2, <2>2, <2>3, <2>4, SectionStep DEF StoreStep
<1> QED
  BY <1>4, <1>5 DEF StoreStep

LEMMA StoreFailsStep ==
    ASSUME WholeInv, NEW c \in Calls, StoreFails(c)
    PROVE  WholeInv'
<1>1. CallStep(c) /\ UNCHANGED file
  BY DEF StoreFails, CallStep, Throws, SaveFails
<1>2. call \in [Calls -> Phases] /\ result \in [Calls -> Contents]
  BY DEF WholeInv, TypeOK, StoreTypes
<1>3. call[c] \notin Settled /\ call'[c] = "failed" /\ result'[c] = NoRecord
  BY <1>2 DEF StoreFails, Throws, SaveFails, Settle, Settled
<1>4. JobInv(c)
  BY DEF WholeInv
<1>5. JobInv(c)' /\ DurableInv(c)'
  BY <1>3, <1>4 DEF JobInv, DurableInv, StoreFails, tabVars, Settled
<1>6. /\ result' \in [Calls -> Contents]
      /\ \A d \in Calls : d # c => result'[d] = result[d]
  BY <1>2 DEF StoreFails, Contents
<1>7. faults' \in 0..MaxFaults
  BY FaultTyped DEF StoreFails
<1> QED
  BY <1>1, <1>5, <1>6, <1>7, SectionStep DEF StoreFails, Forward

\* An executor of the watcher has loaded the switch.
LEMMA WatcherLoadsStep ==
    ASSUME WholeInv, NEW k \in Cancels, WatcherLoads(k)
    PROVE  WholeInv'
<1> USE DEF WatcherLoads
<1>1. /\ file \in Record /\ file.status = "ACTIVE"
      /\ stage \in [Calls -> {"none", "verifying", "posted", "told", "over"}]
  BY DEF WholeInv, TypeOK, StoreTypes, TabTypes, StoreInv, FilesAreWhole, Active,
         Contents
<1>2. StoreInv' /\ WatcherInv'
  BY <1>1, StoreKeeps, SeenKept DEF WholeInv, WatcherInv
<1>3. TypeOK'
  BY <1>1, <1>2 DEF WholeInv, TypeOK, TabTypes, StoreInv
<1>4. GateInv'
  BY <1>1 DEF WholeInv, GateInv, OneProofAtATime
<1>5. ASSUME NEW c \in Calls PROVE JobInv(c)' /\ DurableInv(c)'
  <2>1. JobInv(c) /\ DurableInv(c)
    BY DEF WholeInv
  <2>2. UNCHANGED <<file, call, next>>
    BY DEF storeVars
  <2>3. stage'[c] \in {stage[c], "over"}
    BY <1>1
  <2> QED
    BY <2>1, <2>2, <2>3 DEF JobInv, DurableInv
<1> QED
  BY <1>2, <1>3, <1>4, <1>5 DEF WholeInv

\* What the watcher saves: what it had loaded, or that stood down.
LEMMA SavedIs ==
    ASSUME WholeInv, NEW k \in Cancels, WatcherSaves(k)
    PROVE  /\ k \in Calls /\ result[k] = NoRecord
           /\ file' \in Record
           /\ Overwrites \/ (After(file, file') /\ MayMake(k, file, file'))
<1> USE DEF WatcherSaves
<1>1. k \in Calls /\ k \notin Checkins /\ result[k] = NoRecord
  BY DEF WholeInv, JobInv
<1>2. PICK r \in Record : r.status = "ACTIVE" /\ copy = {r}
  BY DEF WholeInv, WatcherInv
<1>3. file' \in {r, [r EXCEPT !.status = "CANCELLED"]}
  BY <1>2
<1>4. file' \in Record /\ After(r, file') /\ r # NoRecord /\ file' # NoRecord
  BY <1>2, <1>3 DEF Record, After
<1>5. MayMake(k, r, file')
  BY <1>1, <1>2, <1>3, <1>4 DEF MayMake
<1>6. Overwrites \/ r = file
  BY <1>2 DEF Overwrites
<1>7. r = file => After(file, file') /\ MayMake(k, file, file')
  BY <1>4, <1>5
<1> HIDE DEF WatcherSaves
<1> QED
  BY <1>1, <1>4, <1>6, <1>7

LEMMA WatcherSavesStep ==
    ASSUME WholeInv, NEW k \in Cancels, WatcherSaves(k)
    PROVE  WholeInv'
<1> USE DEF WatcherSaves
<1>1. call \in [Calls -> Phases] /\ call[k] = "new" /\ chain \in Seq(Calls)
  BY DEF WholeInv, TypeOK, StoreTypes
<1>2. /\ k \in Calls /\ result[k] = NoRecord /\ file' \in Record
      /\ call' = [call EXCEPT ![k] = "saved"]
  BY SavedIs
<1>3. Forward /\ other' \in {"saved", "clash"}
  BY SavedIs DEF Forward
<1>4. StoreInv'
  <2>1. StoreTypes' /\ FilesAreWhole'
    BY <1>1, <1>2
       DEF WholeInv, TypeOK, StoreTypes, FilesAreWhole, Contents, Phases
  <2>2. ChainInv'
    <3>1. \A i \in DOMAIN chain : chain[i] # k
      BY <1>1 DEF WholeInv, StoreInv, ChainInv, Settled
    <3>2. \A i \in DOMAIN chain : chain[i] \in Calls
      BY <1>1, LenProperties, ElementOfSeq
    <3>3. \A i \in DOMAIN chain : call'[chain[i]] = call[chain[i]]
      BY <1>1, <1>2, <3>1, <3>2
    <3>4. \A d \in Calls : call'[d] \notin Settled => call[d] \notin Settled
      BY <1>1, <1>2 DEF Settled
    <3> QED
      BY <3>3, <3>4 DEF WholeInv, StoreInv, ChainInv
  <2>3. SectionInv'
    BY <1>1, <1>2 DEF WholeInv, StoreInv, SectionInv
  <2> QED
    BY <2>1, <2>2, <2>3 DEF StoreInv
<1>5. TypeOK' /\ WatcherInv'
  BY <1>3, <1>4 DEF WholeInv, TypeOK, TabTypes, tabVars, StoreInv, WatcherInv
<1>6. GateInv'
  BY TabKept
<1>7. ASSUME NEW c \in Calls PROVE JobInv(c)' /\ DurableInv(c)'
  <2>1. JobInv(c)
    BY DEF WholeInv
  <2>2. CASE c = k
    BY <1>1, <1>2, <2>1, <2>2 DEF JobInv, DurableInv, tabVars
  <2>3. CASE c # k
    <3>1. call'[c] = call[c] /\ result'[c] = result[c]
      BY <1>1, <1>2, <2>3
    <3>2. JobInv(c)'
      BY <2>1, <3>1 DEF JobInv, tabVars
    <3> QED
      BY <1>3, <3>1, <3>2, StaysDurable
  <2> QED
    BY <2>2, <2>3
<1> QED
  BY <1>4, <1>5, <1>6, <1>7 DEF WholeInv

LEMMA ServerCrashStep == WholeInv /\ ServerCrash => WholeInv'
<1> SUFFICES ASSUME WholeInv, ServerCrash PROVE WholeInv'
  OBVIOUS
<1> USE DEF ServerCrash
<1>1. StoreInv' /\ WatcherInv'
  BY CrashStep, SeenKept DEF WholeInv, WatcherInv, StoreNext
<1>2. result' \in [Calls -> Contents] /\ faults' \in 0..MaxFaults
  BY FaultTyped DEF WholeInv, TypeOK, Contents
<1>3. TypeOK'
  BY <1>1, <1>2 DEF WholeInv, TypeOK, TabTypes, StoreInv
<1>4. GateInv'
  BY DEF WholeInv, GateInv, OneProofAtATime
<1>5. ASSUME NEW c \in Calls PROVE JobInv(c)' /\ DurableInv(c)'
  <2>1. JobInv(c) /\ DurableInv(c)
    BY DEF WholeInv
  <2>2. /\ call'[c] = (IF call[c] \in {"new", "saved"} THEN call[c] ELSE "failed")
        /\ result'[c] = (IF stage[c] = "posted" THEN NoRecord ELSE result[c])
        /\ UNCHANGED <<file, other, stage, sent>>
    BY DEF Crash
  <2> QED
    BY <2>1, <2>2 DEF JobInv, DurableInv
<1> QED
  BY <1>1, <1>3, <1>4, <1>5 DEF WholeInv

-----------------------------------------------------------------------------
(* The theorems.                                                            *)

LEMMA PageKept == WholeInv /\ [Next]_vars => WholeInv'
<1> SUFFICES ASSUME WholeInv, [Next]_vars PROVE WholeInv'
  OBVIOUS
<1>1. CASE User
  BY <1>1, ToggleStep, DialogStep, LeaveStep, ProveStep, PostStep DEF User
<1>2. CASE Fetch \/ FetchFails
  BY <1>2, FetchStep
<1>3. CASE ContextArrives \/ ContextFails
  BY <1>3, DialogStep
<1>4. ASSUME NEW c \in Calls, ServerStep(c) \/ StoreFails(c)
      PROVE  WholeInv'
  BY <1>4, AcceptStep, RejectStep, SaveStep, StoreFailsStep
     DEF ServerStep, Unwatched
<1>5. ASSUME NEW c \in Calls, Reply(c) \/ AnswerLost(c)
      PROVE  WholeInv'
  BY <1>5, PostStep, NotVerifiedStep, SucceedsStep, ErrsStep
     DEF Reply, Fails, AnswerLost
<1>6. ASSUME NEW k \in Cancels, WatcherLoads(k) \/ WatcherSaves(k)
      PROVE  WholeInv'
  BY <1>6, WatcherLoadsStep, WatcherSavesStep
<1>7. CASE ServerCrash
  BY <1>7, ServerCrashStep
<1>8. CASE UNCHANGED vars
  <2>1. UNCHANGED <<diskVars, tabVars, result, faults>>
    BY <1>8 DEF vars
  <2>2. TabTypes' /\ GateInv' /\ UNCHANGED <<stage, sent>>
    BY <2>1, TabKept DEF tabVars
  <2> QED
    BY <2>1, <2>2, TabStep, FaultTyped DEF Moves
<1> QED
  BY <1>1, <1>2, <1>3, <1>4, <1>5, <1>6, <1>7, <1>8 DEF Next

LEMMA AlwaysPageInv == Spec => []WholeInv
<1> QED
  BY PageInitially, PageKept, PTL DEF Spec

\* Every variable of the tab and the server keeps its type: in particular no
\* check-in is built for a rung the ladder does not have (buildCheckinRequest).
THEOREM TabTyped == Spec => []TypeOK
<1>1. WholeInv => TypeOK
  BY DEF WholeInv
<1> QED
  BY <1>1, AlwaysPageInv, PTL

\* With the watcher's saves and the tab around it the store still leaves no
\* half-written record (save).
THEOREM PageFilesWhole == Spec => []FilesAreWhole
<1>1. WholeInv => FilesAreWhole
  BY DEF WholeInv, StoreInv
<1> QED
  BY <1>1, AlwaysPageInv, PTL

\* What a user was told stays true of the file, whatever crashes after it and
\* whatever either process saves on what the other left (the routes answer after
\* withLock has saved); only a save over the other process's can undo it.
THEOREM ToldDurable == Spec => []ToldIsDurable
<1>1. WholeInv => ToldIsDurable
  <2> SUFFICES ASSUME WholeInv, other # "clash",
                      NEW c \in Calls, stage[c] = "told"
               PROVE  /\ file \in Records
                      /\ c \in Checkins => file.seq >= result[c].seq
                      /\ c \in Cancels => file.status = "CANCELLED"
    BY DEF ToldIsDurable
  <2>1. JobInv(c) /\ DurableInv(c) /\ result[c] \in Contents
    BY DEF WholeInv, TypeOK
  <2>2. result[c] \in Record /\ After(result[c], file)
    BY <2>1 DEF JobInv, DurableInv, Contents
  <2>3. file.seq >= result[c].seq
    BY <2>2 DEF After, Record
  <2> QED
    BY <2>1, <2>2, <2>3 DEF JobInv, After
<1> QED
  BY <1>1, AlwaysPageInv, PTL

\* The check-in a user is told of is the one the card offered (CheckinCard).
THEOREM ShownDone == Spec => []ShownIsDone
<1>1. WholeInv => ShownIsDone
  BY DEF WholeInv, JobInv, ShownIsDone
<1> QED
  BY <1>1, AlwaysPageInv, PTL

\* The latch of a gate admits one proof at a time (verifyingRef).
THEOREM OneProof == Spec => []OneProofAtATime
<1>1. WholeInv => OneProofAtATime
  BY DEF WholeInv, GateInv
<1> QED
  BY <1>1, AlwaysPageInv, PTL

-----------------------------------------------------------------------------
(* The safety half of TabSettles: who says "hold fast" waits for an answer. *)

\* A request whose card still listens, and that the server owes an answer: its
\* call is in the chain or over.
Heard(c) == stage[c] = "posted" /\ alive[c] # "no"
Owed(c) == Heard(c) /\ (Answered(c) \/ \E i \in DOMAIN chain : chain[i] = c)

\* A card that is busy is so for such a request of its own.
NobodyHangs ==
    /\ card = "submitting" => \E c \in Checkins : Owed(c)
    /\ busy => \E k \in Cancels : Owed(k)

HeardInv ==
    /\ card = "submitting" => \E c \in Checkins : Heard(c)
    /\ busy => \E k \in Cancels : Heard(k)
    /\ \A c \in Calls : stage[c] = "posted" => call[c] # "new"

\* A card goes on listening as long as it is shown.
LEMMA RenderListens ==
    ASSUME NEW v, NEW p, NEW s, NEW b, Render(v, p, s, gate, b),
           s = "submitting" =>
              \E c \in Checkins : stage'[c] = "posted" /\ alive[c] # "no",
           b => \E k \in Cancels : stage'[k] = "posted" /\ alive[k] # "no",
           \A c \in Calls : stage'[c] = "posted" => call'[c] # "new"
    PROVE  HeardInv'
<1>1. ASSUME card' = "submitting" PROVE \E c \in Checkins : Heard(c)'
  <2>1. CardShown(v, p) /\ s = "submitting"
    BY <1>1 DEF Render
  <2>2. PICK c \in Checkins : stage'[c] = "posted" /\ alive[c] # "no"
    BY <2>1
  <2>3. alive'[c] # "no"
    BY <2>1, <2>2 DEF Render
  <2> QED
    BY <2>2, <2>3 DEF Heard
<1>2. ASSUME busy' PROVE \E k \in Cancels : Heard(k)'
  <2>1. CancelShown(v, p) /\ b
    BY <1>2 DEF Render
  <2>2. PICK k \in Cancels : stage'[k] = "posted" /\ alive[k] # "no"
    BY <2>1
  <2>3. alive'[k] # "no"
    BY <2>1, <2>2 DEF Render
  <2> QED
    BY <2>2, <2>3 DEF Heard
<1> QED
  BY <1>1, <1>2 DEF HeardInv

\* A page that has just been loaded waits for nothing.
LEMMA LoadListens ==
    ASSUME NEW m, Loads(m),
           \A c \in Calls : stage'[c] = "posted" => call'[c] # "new"
    PROVE  HeardInv'
BY DEF Loads, HeardInv

\* The tab and its requests as they are, whatever the server does.
LEMMA ServerListens ==
    ASSUME HeardInv, UNCHANGED <<card, busy, alive>>,
           \A c \in Calls :
              /\ stage[c] = "posted" => stage'[c] = "posted"
              /\ stage'[c] = "posted" => stage[c] = "posted"
              /\ call[c] # "new" => call'[c] # "new"
    PROVE  HeardInv'
BY DEF HeardInv, Heard

LEMMA UserListens == WholeInv /\ HeardInv /\ User => HeardInv'
<1> SUFFICES ASSUME WholeInv, HeardInv, User PROVE HeardInv'
  OBVIOUS
<1>1. TabTypes /\ call \in [Calls -> Phases]
  BY DEF WholeInv, TypeOK, StoreTypes
<1>2. ASSUME NEW p \in {"checkin", "cancel"}, Toggle(p) PROVE HeardInv'
  BY <1>2, RenderListens DEF Toggle, HeardInv, Heard, diskVars, storeVars
<1>3. CASE Press \/ Dismiss
  BY <1>3, ServerListens DEF Press, Dismiss, GateEvent, diskVars, storeVars
<1>4. CASE Acknowledge \/ \E m \in {"chat", "scene"} : Reload(m)
  <2>1. \A c \in Calls : stage'[c] # "posted"
    BY <1>1, <1>4 DEF Acknowledge, Reload, Unheard
  <2> QED
    BY <1>4, <2>1, LoadListens DEF Acknowledge, Reload
<1>5. ASSUME NEW c \in Checkins, Prove(c) PROVE HeardInv'
  <2>1. CASE UNCHANGED <<alive, stage>>
    BY <1>5, <2>1, ServerListens DEF Prove, GateEvent, diskVars, storeVars
  <2>2. CASE ~Latched(gate)
    <3>1. /\ stage[c] = "none" /\ stage' = [stage EXCEPT ![c] = "verifying"]
          /\ alive' = [alive EXCEPT ![c] = "gate"]
          /\ UNCHANGED <<card, busy, call>>
      BY <1>5, <2>2 DEF Prove, GateEvent, diskVars, storeVars
    <3> QED
      BY <1>1, <3>1 DEF HeardInv, Heard, TabTypes
  <2> QED
    BY <1>5, <2>1, <2>2 DEF Prove
<1>6. ASSUME NEW k \in Cancels, PostCancel(k) PROVE HeardInv'
  <2>1. /\ stage' = [stage EXCEPT ![k] = "posted"]
        /\ alive' = [alive EXCEPT ![k] = "card"]
        /\ call' = [call EXCEPT ![k] = "queued"] /\ UNCHANGED card
    BY <1>6 DEF PostCancel, WithLock
  <2> QED
    BY <1>1, <2>1 DEF HeardInv, Heard, TabTypes
<1> QED
  BY <1>2, <1>3, <1>4, <1>5, <1>6 DEF User

\* The answers: the error is shown where the request was made, a success ends
\* the card, and neither touches a request of another card.
LEMMA AnswersListen ==
    ASSUME WholeInv, HeardInv, NEW c \in Calls, Reply(c) \/ AnswerLost(c)
    PROVE  HeardInv'
<1>1. TabTypes /\ call \in [Calls -> Phases]
  BY DEF WholeInv, TypeOK, StoreTypes
<1>2. CASE Verified(c)
  <2>1. stage[c] = "verifying" /\ c \in Checkins
    BY <1>2 DEF Verified, WholeInv, JobInv
  <2>2. /\ stage' = [stage EXCEPT ![c] = "posted"]
        /\ call' = [call EXCEPT ![c] = "queued"]
    BY <1>2 DEF Verified, WithLock
  <2>3. PICK s : /\ s = (IF alive[c] = "no" THEN card ELSE "submitting")
                 /\ Render(view, panel, s, gate, busy)
    BY <1>2 DEF Verified
  <2>4. s = "submitting" =>
           \E d \in Checkins : stage'[d] = "posted" /\ alive[d] # "no"
    BY <1>1, <2>1, <2>2, <2>3 DEF HeardInv, Heard, TabTypes
  <2>5. busy => \E k \in Cancels : stage'[k] = "posted" /\ alive[k] # "no"
    BY <1>1, <2>2 DEF HeardInv, Heard, TabTypes
  <2>6. \A d \in Calls : stage'[d] = "posted" => call'[d] # "new"
    BY <1>1, <2>2 DEF HeardInv, TabTypes
  <2> QED
    BY <2>3, <2>4, <2>5, <2>6, RenderListens
<1>3. CASE NotVerified(c)
  <2>1. /\ stage[c] = "verifying" /\ stage' = [stage EXCEPT ![c] = "over"]
        /\ UNCHANGED <<card, busy, alive, call>>
    BY <1>3 DEF NotVerified, diskVars, storeVars
  <2> QED
    BY <1>1, <2>1, ServerListens DEF TabTypes
<1>4. CASE Errs(c)
  <2>1. stage' = [stage EXCEPT ![c] = "over"] /\ UNCHANGED call
    BY <1>4 DEF Errs, diskVars, storeVars
  <2>2. PICK s, b :
           /\ s = (IF c \in Checkins /\ alive[c] # "no" THEN "idle" ELSE card)
           /\ b = (busy /\ ~(c \in Cancels /\ alive[c] # "no"))
           /\ Render(view, panel, s, gate, b)
    BY <1>4 DEF Errs
  <2>3. s = "submitting" =>
           \E d \in Checkins : stage'[d] = "posted" /\ alive[d] # "no"
    BY <1>1, <2>1, <2>2 DEF HeardInv, Heard, TabTypes
  <2>4. b => \E k \in Cancels : stage'[k] = "posted" /\ alive[k] # "no"
    BY <1>1, <2>1, <2>2 DEF HeardInv, Heard, TabTypes
  <2>5. \A d \in Calls : stage'[d] = "posted" => call'[d] # "new"
    BY <1>1, <2>1 DEF HeardInv, TabTypes
  <2> QED
    BY <2>2, <2>3, <2>4, <2>5, RenderListens
<1>5. CASE Succeeds(c)
  <2>1. \A d \in Calls : stage'[d] = "posted" => d # c /\ stage[d] = "posted"
    BY <1>1, <1>5 DEF Succeeds, Unheard, TabTypes
  <2>2. UNCHANGED call
    BY <1>5 DEF Succeeds, diskVars, storeVars
  <2>3. \A d \in Calls : stage'[d] = "posted" => call'[d] # "new"
    BY <2>1, <2>2 DEF HeardInv
  <2>4. CASE c \in Cancels /\ mode = "scene"
    BY <1>5, <2>3, <2>4, LoadListens DEF Succeeds, Cancelled
  <2>5. CASE c \in Cancels /\ mode # "scene"
    <3>1. Render(view, "none", card, gate, FALSE)
      BY <1>5, <2>5 DEF Succeeds, Cancelled
    <3>2. ~CardShown(view, "none")
      BY <2>5 DEF CardShown
    <3> QED
      BY <2>3, <3>1, <3>2 DEF Render, HeardInv
  <2>6. CASE c \notin Cancels
    <3>1. stage' = [stage EXCEPT ![c] = "told"]
      BY <1>5, <2>6 DEF Succeeds
    <3>2. PICK s : /\ s = (IF alive[c] = "no" THEN card ELSE "success")
                   /\ Render(view, IF mode = "chat" THEN "none" ELSE panel, s,
                             gate, busy)
      BY <1>5, <2>6 DEF Succeeds, CheckedIn
    <3>3. s = "submitting" =>
             \E d \in Checkins : stage'[d] = "posted" /\ alive[d] # "no"
      BY <1>1, <3>1, <3>2 DEF HeardInv, Heard, TabTypes
    <3>4. busy => \E k \in Cancels : stage'[k] = "posted" /\ alive[k] # "no"
      BY <1>1, <2>6, <3>1 DEF HeardInv, Heard, TabTypes
    <3> QED
      BY <2>3, <3>2, <3>3, <3>4, RenderListens
  <2> QED
    BY <2>4, <2>5, <2>6
<1> QED
  BY <1>2, <1>3, <1>4, <1>5 DEF Reply, Fails, AnswerLost

LEMMA HeardKept == WholeInv /\ HeardInv /\ [Next]_vars => HeardInv'
<1> SUFFICES ASSUME WholeInv, HeardInv, [Next]_vars PROVE HeardInv'
  OBVIOUS
<1>1. TabTypes /\ call \in [Calls -> Phases]
  BY DEF WholeInv, TypeOK, StoreTypes
<1>2. CASE Fetch \/ FetchFails
  <2>1. CASE Reads \/ FetchFails
    BY <2>1, ServerListens DEF Reads, FetchFails, diskVars, storeVars
  <2>2. CASE Poll \/ Arrives
    <3>1. PICK v : Render(v, panel, card, gate, busy)
      BY <2>2 DEF Poll, Arrives
    <3>2. UNCHANGED <<stage, call>>
      BY <2>2 DEF Poll, Arrives, diskVars, storeVars
    <3> QED
      BY <3>1, <3>2, RenderListens DEF HeardInv, Heard
  <2> QED
    BY <1>2, <2>1, <2>2 DEF Fetch
<1>3. CASE ContextArrives \/ ContextFails
  BY <1>3, ServerListens DEF ContextArrives, ContextFails, GateEvent, diskVars, storeVars
<1>4. ASSUME NEW c \in Calls, ServerStep(c) \/ StoreFails(c)
      PROVE  HeardInv'
  <2>1. UNCHANGED tabVars
    BY <1>4 DEF ServerStep, Accept, Reject, StoreStep, StoreFails
  <2>2. \A d \in Calls : call[d] # "new" => call'[d] # "new"
    BY <1>1, <1>4 DEF ServerStep, Accept, Reject, StoreStep, StoreFails, Load,
       Return, Flush, Rename, Throws, SaveFails, Settle
  <2> QED
    BY <2>1, <2>2, ServerListens DEF tabVars
<1>5. ASSUME NEW k \in Cancels, WatcherLoads(k) \/ WatcherSaves(k)
      PROVE  HeardInv'
  <2>1. /\ UNCHANGED <<card, busy, alive>>
        /\ \/ /\ stage[k] = "none" /\ stage' = [stage EXCEPT ![k] = "over"]
              /\ UNCHANGED call
           \/ call' = [call EXCEPT ![k] = "saved"] /\ UNCHANGED stage
    BY <1>5 DEF WatcherLoads, WatcherSaves, storeVars, tabVars
  <2> QED
    BY <1>1, <2>1, ServerListens DEF TabTypes
<1>6. CASE ServerCrash
  BY <1>1, <1>6, ServerListens DEF ServerCrash, Crash
<1>7. CASE UNCHANGED vars
  BY <1>7, ServerListens DEF vars, tabVars, diskVars, storeVars
<1> QED
  BY <1>2, <1>3, <1>4, <1>5, <1>6, <1>7, UserListens, AnswersListen DEF Next

\* No card stays at "hold fast" for nothing: while it does, a request it posted
\* is in the chain of the store or answered, through crashes and lost answers
\* (CheckinCard, SwitchActions, withLock).
THEOREM NobodyWaitsInVain == Spec => []NobodyHangs
<1>1. Init => HeardInv
  BY DEF Init, HeardInv
<1>2. WholeInv /\ HeardInv => NobodyHangs
  <2> SUFFICES ASSUME WholeInv, HeardInv, NEW c \in Calls, Heard(c)
               PROVE  Owed(c)
    BY DEF HeardInv, NobodyHangs
  <2>1. call[c] # "new"
    BY DEF HeardInv, Heard
  <2> QED
    BY <2>1 DEF Owed, Answered, WholeInv, StoreInv, ChainInv, Settled
<1> QED
  BY <1>1, <1>2, HeardKept, AlwaysPageInv, PTL DEF Spec

-----------------------------------------------------------------------------
(* The refinement, with the watcher and the tab around the store.           *)

\* The store's part of a step, but for the watcher's save.
LEMMA StorePart ==
    ASSUME WholeInv, [Next]_vars, ~\E k \in Cancels : WatcherSaves(k)
    PROVE  [StoreNext]_storeVars
<1> USE DEF diskVars
<1>1. CASE User
  BY <1>1 DEF User, Toggle, Press, Dismiss, Acknowledge, Prove, GateEvent,
              PostCancel, Reload, StoreNext
<1>2. CASE Fetch \/ FetchFails \/ ContextArrives \/ ContextFails
  BY <1>2 DEF Fetch, Poll, Reads, Arrives, FetchFails, ContextArrives,
              ContextFails, GateEvent
<1>3. ASSUME NEW c \in Calls, ServerStep(c) \/ StoreFails(c)
      PROVE  CallStep(c)
  <2>1. CASE Accept(c)
    BY <2>1, MadeIs DEF Accept, Return, CallStep, Contents
  <2>2. CASE Reject(c)
    <3>1. seen[c] \in Contents
      BY DEF WholeInv, TypeOK, StoreTypes
    <3> QED
      BY <2>2, <3>1 DEF Reject, CallStep
  <2>3. CASE StoreStep(c) \/ StoreFails(c)
    BY <2>3 DEF StoreStep, StoreFails, CallStep
  <2> QED
    BY <1>3, <2>1, <2>2, <2>3 DEF ServerStep
<1>4. ASSUME NEW c \in Calls, Reply(c) \/ AnswerLost(c)
      PROVE  WithLock(c) \/ UNCHANGED storeVars
  BY <1>4 DEF Reply, Verified, NotVerified, Succeeds, Fails, AnswerLost, Errs
<1>5. CASE ServerCrash
  BY <1>5 DEF ServerCrash, StoreNext
<1>6. CASE \E k \in Cancels : WatcherLoads(k)
  BY <1>6 DEF WatcherLoads
<1>7. CASE UNCHANGED vars
  BY <1>7 DEF vars
<1> QED
  BY <1>1, <1>2, <1>3, <1>4, <1>5, <1>6, <1>7 DEF Next, StoreNext

\* A save of the watcher is a commit of its own, if the file stood still since
\* its executor loaded it.
LEMMA WatcherCommits ==
    ASSUME WholeInv, NEW k \in Cancels, WatcherSaves(k)
    PROVE  Atomic!Next \/ Overwrites
<1> SUFFICES ASSUME ~Overwrites PROVE Atomic!Next
  OBVIOUS
<1>1. /\ k \in Calls /\ call[k] = "new" /\ call \in [Calls -> Phases]
      /\ file \in Contents
  BY SavedIs DEF WatcherSaves, WholeInv, TypeOK, StoreInv, StoreTypes,
     FilesAreWhole
<1>2. file' \in Contents /\ MayMake(k, file, file')
  BY SavedIs DEF Contents
<1>3. <<file, file'>> \in Steps[k]
  BY <1>1, <1>2, ExecutorsAssumption DEF PageSteps
<1>4. Outcome[k] = "pending" /\ Outcome' = [Outcome EXCEPT ![k] = "saved"]
  BY <1>1 DEF WatcherSaves, Outcome
<1>5. Atomic!Commit(k)
  BY <1>2, <1>3, <1>4 DEF Atomic!Commit, Contents
<1> QED
  BY <1>1, <1>5 DEF Atomic!Next

\* A call of this process saves what it had loaded made one better, or over the
\* watcher.
LEMMA SavesSeenOr ==
    ASSUME WholeInv
    PROVE  SavesSeen \/ Overwrites
<1>1. CASE other = "none"
  BY <1>1 DEF WholeInv, WatcherInv, SeenInv, SavesSeen
<1>2. CASE other # "none"
  BY <1>2 DEF SavesSeen, Overwrites
<1> QED
  BY <1>1, <1>2

\* Whatever the tab asks and the watcher does meanwhile, each request is one step
\* of the record or none (withLock and save), but for a save of one process over
\* the other's.
THEOREM PageIsAtomic == Spec => OneAtATime
<1>1. Init => Atomic!Init
  BY AtomicInitially DEF Init
<1>2. WholeInv /\ [Next]_vars => [Atomic!Next \/ Overwrites]_<<file, Outcome>>
  <2> SUFFICES ASSUME WholeInv, [Next]_vars
               PROVE  [Atomic!Next \/ Overwrites]_<<file, Outcome>>
    OBVIOUS
  <2>1. CASE \E k \in Cancels : WatcherSaves(k)
    BY <2>1, WatcherCommits
  <2>2. CASE ~\E k \in Cancels : WatcherSaves(k)
    <3>1. [StoreNext]_storeVars
      BY <2>2, StorePart
    <3>2. SavesSeen \/ Overwrites
      BY SavesSeenOr
    <3> QED
      BY <3>1, <3>2, AtomicStep DEF WholeInv
  <2> QED
    BY <2>1, <2>2
<1> QED
  BY <1>1, <1>2, AlwaysPageInv, PTL DEF Spec, OneAtATime
=============================================================================
