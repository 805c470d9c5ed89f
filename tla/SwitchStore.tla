---------------------------- MODULE SwitchStore ----------------------------
(***************************************************************************)
(* lib/store.ts: the record of one topic, a JSON file, and the calls of     *)
(* withLock on it in one process.  A call waits for its turn in the chain   *)
(* of promises of its topic, loads the file, awaits its mutator, and saves  *)
(* what that returns: a temp file is opened, written and synced, and then   *)
(* renamed over the target.  A crash may come between any two of these.     *)
(* The other process (the watcher's) has a chain of its own: its saves are  *)
(* SwitchPage's and DeadMansSwitch's.                                       *)
(***************************************************************************)
EXTENDS Sequences

CONSTANTS
    Calls,      \* the calls of withLock on the topic
    Records,    \* what a switch can be
    NoRecord,   \* there is no file
    Torn,       \* a file whose bytes are not all written: JSON.parse throws
    Steps       \* Steps[c]: the <<current, next>> the mutator of c may make

Contents == Records \cup {NoRecord}

ASSUME ContentsAssumption ==
    NoRecord \notin Records /\ Torn \notin Contents
ASSUME StepsAssumption == Steps \in [Calls -> SUBSET (Contents \X Contents)]

VARIABLES
    file,       \* what pathFor(topicId) holds
    temp,       \* what the temp file of a call holds
    chain,      \* chains: the calls whose promise is not settled, in order
    call,       \* how far each call is
    seen,       \* what a call in its critical section loaded: current
    next        \* what its mutator returned

storeVars == <<file, temp, chain, call, seen, next>>

Phases == {"new", "queued", "running", "opened", "flushed", "saved", "failed"}

StoreTypes ==
    /\ file \in Contents \cup {Torn}
    /\ temp \in [Calls -> Contents \cup {Torn}]
    /\ chain \in Seq(Calls)
    /\ call \in [Calls -> Phases]
    /\ seen \in [Calls -> Contents]
    /\ next \in [Calls -> Contents]

StoreInit ==
    /\ file \in Contents
    /\ temp = [c \in Calls |-> NoRecord]
    /\ chain = <<>>
    /\ call = [c \in Calls |-> "new"]
    /\ seen = [c \in Calls |-> NoRecord]
    /\ next = [c \in Calls |-> NoRecord]

-----------------------------------------------------------------------------
(* The chain of promises.                                                   *)

WithLock(c) ==
    /\ call[c] = "new"
    /\ call' = [call EXCEPT ![c] = "queued"]
    /\ chain' = Append(chain, c)
    /\ UNCHANGED <<file, temp, seen, next>>

Runs_NoChain(c) == call[c] \notin {"new", "saved", "failed"}

\* The promises before c in the chain have settled.
Runs(c) == chain # <<>> /\ Head(chain) = c

\* A rejected promise never lets the next call of the chain run.
Passed_Resolved(outcome) == IF outcome = "saved" THEN Tail(chain) ELSE chain

\* The chain goes on whether the promise is resolved or rejected.
Passed(outcome) == Tail(chain)

Settle(c, outcome) ==
    /\ call' = [call EXCEPT ![c] = outcome]
    /\ chain' = Passed(outcome)
    /\ seen' = [seen EXCEPT ![c] = NoRecord]
    /\ next' = [next EXCEPT ![c] = NoRecord]

-----------------------------------------------------------------------------
(* The critical section.                                                    *)

Load(c) ==
    /\ Runs(c)
    /\ call[c] = "queued"
    /\ file # Torn
    /\ call' = [call EXCEPT ![c] = "running"]
    /\ seen' = [seen EXCEPT ![c] = file]
    /\ UNCHANGED <<file, temp, chain, next>>

\* The file cannot be read, or the mutator throws: nothing is saved.
Throws(c) ==
    /\ Runs(c)
    /\ call[c] \in {"queued", "running"}
    /\ Settle(c, "failed")
    /\ UNCHANGED <<file, temp>>

\* The mutator returns: next = null removes the file, else save opens a temp.
Return(c, r) ==
    /\ Runs(c)
    /\ call[c] = "running"
    /\ <<seen[c], r>> \in Steps[c]
    /\ IF r = NoRecord
       THEN /\ file' = NoRecord
            /\ Settle(c, "saved")
            /\ UNCHANGED temp
       ELSE /\ temp' = [temp EXCEPT ![c] = Torn]
            /\ next' = [next EXCEPT ![c] = r]
            /\ call' = [call EXCEPT ![c] = "opened"]
            /\ UNCHANGED <<file, chain, seen>>

\* writeFile and sync have both returned.
Flush(c) ==
    /\ Runs(c)
    /\ call[c] = "opened"
    /\ temp' = [temp EXCEPT ![c] = next[c]]
    /\ call' = [call EXCEPT ![c] = "flushed"]
    /\ UNCHANGED <<file, chain, seen, next>>

\* The write is not awaited.
Flushed_NotAwaited(c) == call[c] \in {"opened", "flushed"}

Flushed(c) == call[c] = "flushed"

Rename(c) ==
    /\ Runs(c)
    /\ Flushed(c)
    /\ file' = temp[c]
    /\ temp' = [temp EXCEPT ![c] = NoRecord]
    /\ Settle(c, "saved")

\* The temp file stays when it cannot be written, and goes when the rename
\* fails.
SaveFails(c) ==
    /\ Runs(c)
    /\ \/ call[c] = "opened" /\ UNCHANGED temp
       \/ call[c] = "flushed" /\ temp' = [temp EXCEPT ![c] = NoRecord]
    /\ Settle(c, "failed")
    /\ UNCHANGED file

\* The process stops: the promises are gone, the files stay as they are.
Crash ==
    /\ chain' = <<>>
    /\ call' = [c \in Calls |-> IF call[c] \in {"new", "saved"}
                                THEN call[c] ELSE "failed"]
    /\ seen' = [c \in Calls |-> NoRecord]
    /\ next' = [c \in Calls |-> NoRecord]
    /\ UNCHANGED <<file, temp>>

CallStep(c) ==
    \/ Load(c)
    \/ Throws(c)
    \/ \E r \in Contents : Return(c, r)
    \/ Flush(c)
    \/ Rename(c)
    \/ SaveFails(c)

StoreNext == Crash \/ \E c \in Calls : WithLock(c) \/ CallStep(c)

StoreSpec == StoreInit /\ [][StoreNext]_storeVars

-----------------------------------------------------------------------------
(* What the executors rely on.                                              *)

\* How far a call is for its caller.
Outcome == [c \in Calls |-> IF call[c] \in {"saved", "failed"}
                            THEN call[c] ELSE "pending"]

Atomic == INSTANCE AtomicRecord WITH record <- file, outcome <- Outcome

\* The calls on a topic take effect one at a time, each on what the one before
\* left, all of it or nothing, and a rejected or abandoned call leaves no trace
\* (withLock, store.ts:108-130, and its "read-modify-write" comment, line 10).
IsAtomic == Atomic!Spec

\* What list() names can be loaded: a crash or a failed write never leaves a
\* half-written record (save, store.ts:64-85).
FilesAreWhole == file # Torn
=============================================================================
