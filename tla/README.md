# A TLA+ model of the dead man's switch

The program keeps an encrypted message secret for as long as its owner checks
in. The owner *arms* a switch; N time-locked capsules (the *rungs* of a ladder)
with increasing deadlines are held by an agent. Each *check-in* moves the switch
to the next rung and shreds the one before; a *cancel* signed on a hardware
wallet ends it; silence lets a schedule on the Hedera network fire, and a watcher
process publishes the fired rung's capsule and a bulletin on the switch's audit
topic.

This directory holds the specifications, their TLC configurations and the
machine-checked proofs.

## Inventory

| part | source | state | operations | interacts with |
|---|---|---|---|---|
| executors | `lib/executors.ts` | none of their own | `arm`, `checkin`, `cancel` | store (`withLock`), Hedera, World, mirror |
| switch store | `lib/store.ts` | a JSON file per topic; a promise chain per topic *and process* | `load`, `save`, `list`, `withLock` | both processes write the same files |
| release reaction | `watcher/release.ts` | per-process cursor | `pollOnce`, `handleReleaseAuthorized` | mirror, store, Hedera |
| cancel backstop | `watcher/cancel-backstop.ts` | per-process timestamp cursor | `scanCancels` | mirror, store, the cancel executor |
| watcher process | `watcher/index.ts` | both cursors, `running` | `tick`, `honorCancel`, `payBounty` | the two above |
| Hedera client | `lib/hedera.ts` | none | schedules, topics, files, transfers, mirror reads | the network |
| check-in client | `lib/checkin-client.ts` | none | `buildCheckinRequest` from a public view | HTTP |
| chat state machine | `lib/chat-machine.ts` | the `ChatContext` | `reduce`, `canArm` | the chat |
| arming chat | `components/Chat.tsx` | context, artifacts in React memory, the watched topic and its view | capture handlers, `arm`, `enterLive`, restore, poll, `refresh` | HTTP, the cards, the address bar |
| capture cards | `MemoCard.tsx`, `TermsChips.tsx`, `WorldVerifyCard.tsx`, `LedgerSignCard.tsx`, `useLedgerHedera.ts` | a busy flag, a latch, the session with the device | seal, choose, verify, sign | the chat's handlers, World, Ledger, HTTP |
| ladder | `lib/crypto.ts` | none | `mintLadder`, hashes, time lock | executors assume its increasing deadlines |
| ciphertext and reveal | `lib/hedera.ts` (`storeCiphertext`), `lib/reveal.ts`, `RevealCard.tsx` | the card's phase | upload in chunks; open a capsule, fetch, decrypt | HTTP, the mirror, drand |
| live view and page of a switch | `Chat.tsx` (live panel), `SwitchScene.tsx`, `CheckinCard.tsx`, `SwitchActions.tsx`, `StatusCard.tsx`, `app/s/[topicId]` | the polled view, the open panel, each card's status | poll, refresh, check in, cancel | HTTP, the World gate, the device |
| World gate | `WorldVerifyCard.tsx`, `app/api/world/*` | `busy`, `open`, two latches | fetch a context, prove, verify | the card it is in, World |
| Ledger ceremony | `useLedgerHedera.ts`, `ledgerDmkHedera.ts`, `app/api/ledger/*` | the phase, the session with the device | connect, sign | the device, Hedera |
| scene | `components/scene/PirateContext.tsx`, `PirateStage.tsx` | the captain's resting, transient and glance clips, one pending clip with its timer | `runWhile`, `pulse`, `completeCycle`, the glance | every asynchronous flow of the chat and cards awaits `runWhile` |
| LLM texts, layout | `lib/pirate.ts`, `components/*` | none | wording, rendering | HTTP |

What makes it hard:

* two processes (web and watcher) read, wait on the network for seconds, and
  write the same record, each serialized only within itself;
* every executor is a chain of network calls, each of which may fail or succeed
  and lose its answer, with nothing undone and one save at the end;
* the network acts on its own: an expired schedule fires between any two calls;
* either process may die at any point; cursors are in memory only;
* in the browser, every card is an asynchronous function that goes on after its
  card is gone and then changes the chat, whatever the chat shows by then; the
  arm flow reads the artifacts before its awaits; a tab may be reloaded anywhere;
* a live view is fetched by three parties at once, and a card built on an old view
  acts on a switch that has moved on;
* the mirror answers late, in pages, and does not say what it has not got yet;
* every such flow waits for an animation to reach a boundary before it returns;
* nothing but the deadlines, the `seq` guard and the record's `status` keeps the
  three executors and the release reaction in step.

Correct means, per part: the record never lies about the network (executors and
store); nothing of a rung is public before its deadline and silence always ends in a
bulletin (schedules and watcher); a check-in that was accepted postpones, and one
per period (executors); a cancel is honored and final (cancel, backstop); readers of
the public topic see an orderly story (all of them); the chat moves only as its
machine allows and arms what the device signed (chat, cards); what a user is told is
so and stays so (live view, store) up to the saves of two processes; a reader gets
the memo and nothing else, once it is due (ladder, reveal); no flow hangs in an
animation and no clip is cut by another's (scene).

## The modules

### DeadMansSwitch

One switch, end to end: the arm request, any number of check-in and cancel
requests, the watcher, the record on disk, the schedules and the audit topic.
Every `await` is a point where others may move, so every external call is an
action; what runs between two awaits is one action.

| variable | what it is in the code |
|---|---|
| `disk` | `data/switches/{topicId}.json` |
| `pc`, `req`, `mem` | where each job stands, what it was asked, the `current` that `withLock` loaded for it |
| `chain` | the promise chain of this topic in the web process (`chains` in `store.ts`) |
| `cursor`, `scanned` | the watcher's topic cursor; its cancel cursor is past the transfer |
| `sched`, `schedSeq`, `expiry` | the schedule each job created, by its creator |
| `log` | the topic's messages in consensus order |
| `cancelTx`, `paid`, `now` | the cancel transfer, the bounties paid, the clock |
| `faults` | failed calls, lost answers and crashes so far, bounded by `MaxFaults` |

Actions and code:

* `ArmBegin`, `ArmSubmit`, `ArmSchedule`, `ArmPersist` are `arm`. Its calls run
  outside the lock, its save inside.
* `Post` puts a request on the chain. `Load` is `load()` with all guards up to
  the first await; `VerifyCheckin`, `VerifyCancel`, `CreateSchedule`,
  `DeleteSchedule`, `SubmitEvent` are the calls of `checkin` and `cancel`;
  `Commit` saves `updated`, `Reject` saves the unchanged `current`, as `withLock`
  does for both. `Throw` is any call that throws: nothing is saved, and what was
  done on chain stays, with or without its effect.
* `PollSkip` and `PollRelease` handle the message after the cursor,
  `PublishCapsule`, `PayBounty`, `PostBulletin` and `Commit` are the rest of
  `handleReleaseAuthorized`; `ScanCancel` is the backstop's look at the record
  outside the lock, after which it runs the cancel executor like a request.
* `Tick`, `Fire`, `SignCancel` are the clock, the network and the owner.
  `CrashWeb` drops the promise chains; `CrashWatcher` restarts the watcher with
  its topic cursor at 0 and its cancel cursor at the present.

Abstracted: a signal is the `seq` it commits to and a proof, a signature or a
mirror answer is its verdict; capsules are a set of rung numbers; the release
nonce, which nothing reads, and the time stamps no guard reads are left out. The
verification flags are on. The clock counts in the unit of the deadlines, and
several events may share an instant. A schedule expires on a whole second: the
network is given the deadline rounded down (`WholeSecond`, `lib/hedera.ts:472`),
while the guards compare the deadline itself, so that a schedule may fire up to a
second before the deadline it stands for.

### TimelockPromise

What the public topic promises, with no processes and no failures: rungs go live one
by one, at most one per period; a rung fires less than a second before its deadline
at the earliest; only what fired is opened or announced. `DeadMansSwitch` implements
it under the mapping `Promise` (live rung = 1 + check-ins on the topic; the sets of
rungs with a `RELEASE_AUTHORIZED`, `CAPSULE_PUBLISHED`, `BULLETIN`). `KeepsPromise`
is checked by TLC and proved.

### MCDeadMansSwitch

Gives TLC a ladder of `Ladder!Mint` and the symmetry of the requests (used in the
safety runs only). Two ticks of the clock are a second, and a check-in interval; the
switch is armed on an odd tick, so no deadline is on a whole second and every
schedule fires half a second early.

### SwitchStore, AtomicRecord, WorldGate and SwitchPage

`SwitchStore` is `lib/store.ts` for one topic in one process: the chain of promises,
and a call of `withLock` from its place in it through `load`, the mutator, the
opening, writing and syncing of the temp file, to the rename. `Crash` may come
between any two. The mutator of a call is a set of steps `Steps[c]` of the record.
In `SwitchPage` these are what the executors may make of a record (`MayMake`).
`AtomicRecord` is what the executors rely on: a call is one step of the record or
none. `IsAtomic` says that the first implements the second.

`WorldGate` has the events of `WorldVerifyCard` as functions of its five flags.
`SwitchPage` puts both together: a browser tab on a live switch, in the chat or on
the page `/s/{topicId}`, its check-in and cancel requests, the server that runs
them through the store, and an executor of the watcher, which loads and saves the
same file from another process.

| variable | what it is in the code |
|---|---|
| `file`, `temp`, `chain`, `call`, `seen`, `next` | the store (`SwitchStore`) |
| `mode`, `view`, `initial`, `panel` | which page the tab is; the polled view; the view the page was loaded with; `livePanel` |
| `card`, `gate`, `busy` | the check-in card's status, its World gate, the cancel card's request |
| `alive` | whether the card, or the gate, a request was begun in is still mounted |
| `slow`, `asked` | a fetch whose answer is on its way; a refresh that was called for |
| `stage`, `sent`, `result` | how far a request is for the tab, the seq it carries, what it was accepted with |
| `copy` | what the watcher's executor has loaded, between its load and its save |
| `other` | history: whether the watcher has saved, and whether one process saved over what the other had saved since its load |

`Poll`, `Reads`, `Arrives` and `FetchFails` are the fetches of `/api/switch/{topicId}`
in `Chat.tsx` (`refresh`, the restoring effect, `poll`), the poll of `StatusCard`, and
`loadView` of `app/s/[topicId]/page.tsx`;
`Toggle` is the action bar; `Press`, `ContextArrives`, `Prove`, `Verified`,
`NotVerified` the gate with the check-in card around it; `PostCancel` the cancel
card once the device has signed; `Succeeds`, `Fails`, `AnswerLost` the answers.
`Render` is what React does on every change: a card that is not shown any more
loses its state, its requests go on. The server's executors are reduced to what
they make of the record (`Accept`) and that they may reject.

The promise chains of `store.ts` order the calls of one process only. `WatcherLoads`
and `WatcherSaves` are therefore two steps, with any step of the web process between
them, and either process may save over the other (`Overwrites`). What the tab was
told is then lost, as `switch_reject` shows, so `ToldIsDurable` is conditional on
no such overwrite (`other # "clash"`), and `OneAtATime`, which says of the calls of
both processes what `IsAtomic` says of one, takes `Overwrites` for the only other
thing that may happen to the file.

### MirrorNode, LedgerCeremony, WatcherPasses and SwitchWatch

`MirrorNode` has the pages of the mirror and the verification recipe with its
retries. The recipe compares the debit with an account its caller names: the
watcher names the account of the record (`Confirms`), a request to `/api/cancel`
names one itself (`Carries`).

`LedgerCeremony` is the card's session with the device and the calls a ceremony
awaits: the `picker`, the `probe` of the Hedera app and its account, the `review` of
the transfer on the device, its `submit`. The account found is that of whatever
Ledger is connected, the one that armed the switch or another. `Unmount` disconnects
the session the card holds; a `connect` still at the picker goes on without its
card (`behind`), opens a session, and keeps it unless it fails.

`WatcherPasses` is the watcher over several topics: `Tick`, `FetchMessages`,
`HandleMessage` and `React` are `pollOnce`, `FetchTransfers`, `InspectTransfer`,
`Verify`, `Teardown` are `scanCancels`, and each call that can throw has an action in
which it does. `rec`, `sched`, `rows`, `txs` are what the network and the files hold,
the rest is the state of the pass: `todo`, `polled` and `page` what is left of it
(`list` names the topics in the order of the directory, which is some order:
`FirstOf`), `cursor` and `txCursor` the cursors, `tries` the attempts made at a
verification, and `lost` the transfers a restart or an outage made it skip, which only
the properties read. `SwitchWatch` composes the watcher with one cancel card and with
other people's transfers.

An executor loads the record, waits for the mirror, and then decides on the copy it
loaded and saves it, on rejection too. `WebLoads` and `WebEnds` are the two ends of
a cancel posted to the web process, with `held` between them; `InspectTransfer` and
`Verify` those of the watcher's own, `HandleMessage` and `React` those of a release.
Each may save back what it had loaded (`SavesBack`) over what the other has saved
since.

What `DeadMansSwitch` splits at each await after that is one step here
(`TearsDown`), with the points at which it may stop (`StopsHalfway`,
`ReactionThrows`); a switch has one schedule. A mirror that lags is a page that ends
early, and counts as a fault. The watcher's executor that finds the switch over
saves what it just loaded with no call in between, which is no step.

### Ladder and Reveal

`Ladder` is `mintLadder`, the round arithmetic of drand, and the deadline as the
check-in client computes it. `Reveal` is the way of a memo: `Store`, `SendChunk`,
`ChunkFails` are `storeCiphertext`; `MirrorShows`, `Tick`, `Publish` the mirror, the
clock and a watcher that publishes a capsule some time after its deadline;
`PressReveal` to `Decrypt` are `RevealCard` and `revealMemo`. A ciphertext is the
sequence of its chunks, and the tag of AES-GCM fits only the whole of it.

### ChatMachine and ArmingChat

`ChatMachine` is `reduce`: one operator for what it returns for each event, and
an action that takes any such event. It is the abstract specification of the
chat's context; `PARSE_TEXT` keeps its place but its suggestion is left out.

`ArmingChat` is one browser tab, from the memo to the armed switch. Every attempt
to seal, to verify, to sign and to arm is a *job* with a `pc`. A card allows one
at a time, but only while it is on screen: `held` is the set of jobs whose card is
still there, and `Remount` (the chat is collapsed and expanded) or a step of the
machine empties it, while the jobs go on.

| variable | what it is in the code |
|---|---|
| `ctx` | `context` and `ctxRef`, which every dispatch keeps equal |
| `memo`, `terms`, `world`, `signed` | the artifacts in React memory |
| `url` | the topic in the address bar, which is also the watched `topicId` |
| `pc`, `held`, `taken` | the pending async functions, the cards' busy latches, what their closures captured |
| `transfer` | the memo field of each transfer on chain |
| `asked`, `switches` | the arm requests on their way and what the server armed |
| `failed` | the attempts that were reported as failed |

`StartSeal`/`EndSeal` are `capture` of MemoCard with `onMemo`; `ChooseTerms` is
the confirm button with `onTermsSet`; `StartProof`, `Approve`, `EndProof` are
`startVerify`, the dialog and `handleSuccess` with `onWorld`; `StartSigning`,
`Approve`, `EndSigning` are `sign` with `signTransfer` and `onSigned`;
`ClickArm`, `Upload`, `MintAndPost`, `Answer` are the parts of `arm` between its
awaits; `ServerArms` is the arm route (its inside is `DeadMansSwitch`); `Reload`
is the mount effect. The dialog and the session with the device close when the
card unmounts, which is why `Approve` needs `held`; the fetches after them do
not, which is why `EndProof` and `EndSigning` do not. The device's connection
is part of the signing attempt, and the development stand-ins are left out.

Abstracted: a policy is the memo, terms and nullifier it is of, so its hash is
itself; a ladder and a stored ciphertext are the memo they were made of. The
tab has one user, whose nullifier is always the same.

### PirateScene

The scene's state: the resting, transient and glance clips, the one pending clip
with its number, and the timers. `RunWhile`, `FinishWork`, `Return` are
`runWhile` at its start, at the end of its work and after its boundary;
`Pulse` is `pulse`; `Fallback` is a timer with its rescheduling; `CompleteCycle`
is what the stage reports at a loop boundary of the clip it last rendered
(`shown`), which may be behind the state, as `seen` is for the glance
(`transientRef`). `Unmount` is the page being left while flows are under way.

## Runs

| run | instance | shows |
|---|---|---|
| `switch_faults` | 3 rungs, 2 requests, 1 fault, clock to 6 | types, the schedule an `ACTIVE` record names still counts or gave way to a later rung's, nothing a whole second early, never disarmed, nothing skipped, one check-in per period and none accepted twice, refinement of the promise; while nothing has failed, burned rungs stay secret and an accepted check-in postpones |
| `switch_liveness` | 2 rungs, 1 request, 2 faults, clock to 5, fairness | silence is answered by a bulletin |
| `switch_one_rung` | 2 rungs, 1 request, no fault | counterexample: two rungs of one switch published |
| `switch_reject` | 2 rungs, 1 request, no fault | counterexample: a rejection overwrites the record |
| `chat_arm` | 2 memos, terms, proofs, signatures, arm attempts, 1 failure or reload | types, the chat keeps to `ChatMachine`, what is armed is what was signed, context, memory and address bar agree |
| `chat_order` | 2 proofs, one of everything else, no failure | counterexample: a late verification takes an armed chat back |
| `chat_lost` | one of everything, 1 failure | counterexample: an armed switch nobody knows the topic of |
| `scene` | 3 calls, 3 clips, fairness | overlapping clips do not cut each other, no call is forgotten, all come back, the scene settles |
| `page` | 3 rungs, 2 check-ins, 1 cancel by the tab or the watcher, 1 failure, crash or reload, fairness | files are whole; the calls of both processes take effect one at a time and what the tab tells is durable, up to a save of one over the other's; what it tells is what the card offered, one proof at a time, the tab settles on what the store holds |
| `watch` | 2 topics, pages of 2, 2 attempts, 2 transfers, 1 web cancel at a time of one topic, 1 fault, fairness | the cursors skip nothing; no switch is stood down without a transfer of its memo, nor by the watcher without one from its own device; done is on chain; the device is released but by a connect its card left at the picker; a release is final but for the save of a web cancel begun before it; all releases and all signed cancels are answered in the end |
| `watch_honored` | as `watch`, no web cancel | counterexample: a half-failed cancel blocks every later one |
| `reveal` | 3 rungs, up to 5 chunks in pages of 2, 2 faults, fairness | a stored ciphertext is whole, a published capsule opens, a reader is shown the memo or nothing, and in the end the memo |

Bounds. Two requests are what it takes for a check-in to race a cancel, a retry to
race the original, or two check-ins to race each other, each against the watcher and
the firing schedules. Three rungs let a check-in burn a rung, a second one burn
another after a period, and both exhaust the ladder. A second of two ticks is the
shortest that has a fraction to lose, and the clock runs to the second of the last
schedule at least: past it nothing new opens. One fault at any point already covers
"the call after the one that mattered failed", and any crash; two are allowed in the
liveness run, which has to survive them one after the other. In the chat, two
attempts of each kind are an orphan of a forgotten card and the one that replaced
it, and two memos and terms let the artifacts change under an arming; the scene
needs a call that is overtaken, the one that overtakes it and a late third, which
may share a clip or not, and `waiting` among the clips is the one the glance also
shows.

On the page, two check-ins are a stale one behind the one that made it stale, and
the third rung lets both be accepted; the cancel, by the tab or by the watcher,
unmounts the cards under them. The watcher has one executor at work at a time, as
`tick` does not overlap itself, and it saves once in the run: over a check-in, or
under one. A cancel of the tab under a save of the watcher takes two cancels, which
only the theorems cover. Three calls fill the chain with one running and two
waiting. One slow fetch at a time, while polls go on, is an old view against any
number of newer ones. For the watcher, two topics are one that fails and one behind
it; with pages of two the chunks of an `ARMED` event fill the first page and the
release is on the next one; the two transfers are one of the card's switch, which
may have failed or be paid by another Ledger, beside a cancel of the other switch or
before a second one of its own, in either order, and the page may end between them;
two attempts are one that is repeated and a last one. A cancel is posted for one of
the topics, one at a time, with or without a transfer to post; a card closed at the
picker counts as a fault. For the reveal, five chunks are three pages, one chunk is
a file, and an interval of 4 on a period of 3 puts the deadlines before, on and
after a round.

The safety properties proved below hold for every bound.

`BurnedStaysSecret` and `AcceptedCheckinPostpones` are stated for as long as nothing
has failed: after a failure between two calls of a check-in its new schedule may be
left behind beside the recorded one, which the code accepts ("crash window errs
toward release"). What they say without that condition has names of its own,
`BurnedIsSealed` and `ReleaseIsPostponed`, and `OnlyAccidentsMatter` proves that of
all that may fail only two accidents can break them (`Undisturbed`): a failed
check-in leaves its schedule beside a recorded one that still waits, or the watcher
is about to save back a record that it loaded as `ACTIVE`. Every other crash, lost
answer or failed call is harmless to them, in any number.

`CHECK_DEADLOCK FALSE`: the clock, the faults and the attempts are bounded, a
switch ends, a page is left, a memo is shown.

Fairness (`FairSpec`). The clock advances and the network executes expired
schedules. The watcher is a `setInterval` loop that never ends, polls first and
then scans in each tick, each under its own `try`: weak fairness of its steps,
and strong fairness of `Poll` and `ScanCancel`, since a tick gets to both again
and again while the other is also enabled. Nothing is assumed of the web process
or its clients. In the scene (`PirateScene!FairSpec`) timers go off and a resolved
promise is continued; the videos may never play (reduced motion, a blocked
autoplay) and the work a call waits for may never end, so neither is fair.

On the page the poll is a `setInterval`, a fetch that was sent is answered or
fails, and the server goes on with a call whose turn it is; nothing is assumed of
the user. In `SwitchWatch` only the steps of the pass are fair, for the same reason
as above: `setInterval` and a `finally` that clears `running`. In `Reveal` the mirror
shows a message some time, and the reader presses the button again: liveness there
is about what a patient reader gets.

## Proofs

Of the switch, three modules prove, for every N, every increasing ladder, every set
of requests and any number of faults (from `BoundsAssumption`, `DeadlineAssumption`,
`NamesAssumption`):

* `DeadMansSwitch_typing`: `Spec => []TypeOK`. `TypeOK` alone is not inductive:
  a check-in writes `Deadline[liveIdx + 1]` and `liveIdx + 1`, which is in range
  only because its guards saw `liveIdx < N` (`AdmittedInv`), and `Leave` pops a
  chain that is not empty only because the running request is its head
  (`PlaceInv`, which also says which job can stand where).
* `DeadMansSwitch_safety`:
  * `RecordMatchesNetwork`. A schedule's expiry is its seq's deadline, rounded down,
    and its creator has made it by the time it commits (`ScheduleInv`); schedules
    are never changed back (`SchedulesAreKept`); so every record that was consistent
    stays so, in memory as on disk (`RecordInv`), however stale the save. And a
    schedule that somebody has recorded waits, has fired, or was deleted by a
    check-in that had made a later rung's, which waits or has fired in its turn
    (`KeptInv`): the schedule of an `ACTIVE` record may be gone, after a check-in
    that failed at its save or a stale save, but never without a later one, unless a
    cancel is signed.
  * `NeverDisarmed`. Only a verified cancel tears down (`CancelInv`); a schedule
    nobody has recorded is in no other job's hands, so a check-in's own new
    schedule outlives its delete of the old one (`OwnInv`, `ArmedInv`).
  * `NoEarlyRelease`, `PassedIsAnnounced`. Only an expired schedule posts, which is
    less than a second before its deadline (`SecondsRoundDown`, `FiredInv`), the
    release in progress answers the message after the cursor and saves only after
    its bulletin (`ReactionInv`), so what is opened or passed was fired, and
    announced (`AnnouncedInv`).
  * `SilenceIsAnswered`, from the last two: an `ACTIVE` switch nobody cancels has a
    schedule that waits, a fired one before the watcher's cursor, or a bulletin. It is
    what the fairness of `SilenceReleases` works on.
  * `NobodyIsStranded`: the promise chain holds exactly the requests whose
    `withLock` has not settled, each once (`WaitInv`), so whoever is queued is
    behind one that may run; a `Throw` takes its request out of the chain as a
    return does. It is the counterpart of `ChainInv` in `SwitchPage_proof`, with the
    executors' own calls in place of one mutator.
  * `ExecutorsMakeMoves`: every save after the first is what a job made of the
    record it had loaded, which is the same record to the tab, an `ACTIVE` one
    advanced by a rung, or one stood down. That is what `MayMake` and
    `ExecutorsAssumption` of `SwitchPage` say of the mutators; it needs that a
    check-in and a cancel past their guards hold an `ACTIVE` record (`AdmittedInv`,
    `StandsDownInv`) and that `liveIdx = seq + 1` in every loaded copy
    (`RecordInv`). The two modules have different records, so the link is by the
    same relation stated in both, not by `INSTANCE`.
* `DeadMansSwitch_promise`: `Spec => KeepsPromise`, the refinement, and
  `OneCheckinPerPeriod`. Its own invariant counts the check-ins on the topic: the
  one recorded schedule that is still pending carries exactly that number, and a
  check-in gets past its delete only by deleting that one (`CountInv`), so a
  stale or half-failed attempt never posts a second event for the same seq; and
  an admitted check-in has waited out the period before (`PeriodInv`). On top of it:
  * `NeverAcceptedTwice`, with any number of faults: an accepted check-in is on the
    topic, so it is behind the count (`HistoryInv`), and one about to be saved is
    ahead of all accepted ones (`OnceInv`).
  * `OnlyAccidentsMatter`. The topic and the live schedules are kept in step
    (`InStep`): no schedule that has fired or will is below the number of check-ins
    (`FloorInv`); a check-in past its delete has left no schedule but its own
    (`LiveInv`); and the record, with every copy loaded of it, is up to date, or names
    a schedule that is gone, on which every further check-in fails (`FreshInv`, with
    `Current` and `Stranded`). Every step without an accident preserves it, failed or
    not; what is published was fired (`HistoryInv`), hence not below the check-ins.
  * `BurnedIsSecret` and `CheckinPostpones`: neither accident comes before the first
    fault (`FaultlessInv`), so the two properties of the run follow.

Of the browser, the store and the reveal, for any number of attempts and calls:

* `ArmingChat_proof`: `KeptToMachine`, the refinement of `ChatMachine`. Its only
  hard step is the context set to ARMED by hand: it is an `ARM` of the machine
  because artifacts are never taken back while a switch is being armed
  (`GatedInv`, with `TabIsConsistent`). `SwitchIsSigned`: a request in flight is
  of one memo and its terms, and names a transfer that was submitted by then
  (`Coherent`, `RequestInv`); a signing job is never submitted twice, so the
  policy the server compared stays the one on chain (`SwitchInv`). `ChatTypes` is the
  type invariant.
* `PirateScene_proof`: `NobodyForgotten` and `LatestShown`. Calls have different
  numbers, up to `token` (`NumberInv`), and whoever is not released owns the pending
  clip (`WorkInv`). `WorkReturns` itself is liveness and stays with TLC; what is
  proved is the state half of it, and with `OverrideEnds` that of `SceneSettles`: an
  override is the pending clip's, with a timer, and is done or somebody works on it.
* `SwitchPage_proof`: of `SwitchStore` alone, `RecordsAreWhole` and `StoreIsAtomic`,
  for any number of calls and any mutators. A call that is not settled is in the
  chain, once, and only the head of the chain is past waiting (`ChainInv`), so what
  the call in its critical section has loaded is still what the file holds, and what
  its temp file holds after the sync is what its mutator returned (`SectionInv`):
  the rename is the step of `AtomicRecord`, everything before it a stutter. This is
  the store with one process; in `SwitchPage` the watcher saves in between. Of the
  whole of `SwitchPage`, for any ladder, requests and faults, all its safety
  properties and `OneAtATime` (`TabTyped`, `PageFilesWhole`, `PageIsAtomic`,
  `ToldDurable`, `ShownDone`, `OneProof`). What a call has in its hands is what it
  loaded, as a whole record (`SeenInv`); while the watcher has not saved, it is what
  the file holds, and afterwards a save that finds another record is an `Overwrites`
  (`SavesOver`); what the watcher has in its hands is an active record, and the call
  it acts for is nobody else's (`WatcherInv`). `WholeInv` ties the three views of a
  request together: how far it is for the tab, for the store, and what it was
  accepted with (`JobInv`); what a saved one was accepted with is in the file or was
  before others (`DurableInv`), since the executors only take a switch forward
  (`GoesForward`); a verification for the gate on screen holds its latch
  (`GateInv`). `NobodyWaitsInVain` is the state half of `TabSettles`: a card goes on
  listening to its request as long as it is shown (`HeardInv`), and a posted request
  is in the chain or answered (`ChainInv`). All from `ExecutorsAssumption`: the
  mutators make what `MayMake` says, as `ExecutorsMakeMoves` proves of the
  executors.
* `Reveal_proof`: `DeadlinesIncrease` is the assumption `DeadlineAssumption` of
  `DeadMansSwitch`, discharged for the ladder the code mints; `ClientAgrees` says
  that the check-in client's deadline is the minted one; `SealedUntilDue` and
  `RoundsIncrease` bound the round of a rung for every genesis, period and cadence.
  `RefWhole`, `Openable`, `ShownMemo`, `RevealTypes` rest on what an upload under
  way has sent (`Uploading`) and on a reader never having more than the mirror
  shows (`ReadsWhatIsThere`).
* `SwitchWatch_proof`, for any topics, page limit, number of attempts, transfers of
  others and faults, one web cancel at a time. The inductive invariant `WInv` says
  that record, schedule and messages of a topic agree, stale saves included, and
  that a deleted schedule has a transfer with the switch's memo (`TopicInv`,
  `OnChain`); that no transfer names a topic and no web cancel holds a record before
  it is armed (`KnownInv`, `HeldInv`); that a page holds what comes right after the
  cursor (`PageInv`); that the message at hand is a release nobody has answered, or
  one that is announced (`ReactInv`); and that the transfer at hand is the one after
  the cursor, torn down only for a topic it confirms (`AtHandInv`). Each action is
  first shown to be a `NetStep`: messages and transfers are only added and a topic
  stays armed; that carries `NothingIsSkipped` (`CursorsSkipNothing`) and
  `CancelIsOnChain` (`CancelOnChain`) through every step, and gives `ReleaseIsFinal`
  (`ReleaseFinal`): a web cancel that holds the record is the only one that can take
  a `RELEASED` one back. `DoneOnChain` and `DeviceReleased` are of the card and its
  device (`CardInv`): of the two connects there may be, the card's and one it left
  behind, each has the session it opened.

Every invariant was checked by TLC before it was proved.

Every safety property of the passing runs, every action property and the three
refinements are theorems. Not provable here, and model-checked only, is liveness
under fairness: `SilenceReleases`, `WorkReturns`, `SceneSettles`, `TabSettles`,
`AllAreReleased`, `SignedIsHonored` and `MemoIsRevealed`. Of the first five a theorem
says that no state is a dead end (`SilenceIsAnswered`, `NobodyForgotten`,
`OverrideEnds`, `NobodyWaitsInVain`, `CursorsSkipNothing`); that somebody then
acts is the fairness.

One statement was tried and is false: that no more rungs can be published below the
check-ins than faults have happened. With three requests and two faults, the watcher
saves back an old record, and the attempts that follow on it each leave a schedule
below the count. This is why `OnlyAccidentsMatter` names the accidents and does not
count them.

## Findings

* `switch_one_rung`: after a schedule fired and before the watcher polls, a
  check-in creates its new schedule and fails at the delete of the old one. Both
  schedules fire and two rungs are published, where `docs/CONTRACTS.md` speaks of
  the one `CAPSULE_PUBLISHED` of a switch.
* `switch_reject`: a rejected request saves the record it loaded before its
  verification, and undoes what the other process saved in between.
* `watch_honored`: when `CANCELLED` cannot be posted, or its answer is lost, after
  the schedule was deleted, nothing is saved and every retry of the cancel throws at
  the deleted schedule; the switch stays `ACTIVE`, with nothing left that could
  fire. And the watcher's cursor stays before that transfer, so a cancel that
  another owner signs later is never reached: that switch is released.
* `chat_order`: a verification whose card was forgotten answers after a second
  one was verified, signed and armed: `reduce` takes the armed chat back to the
  signing step, where `lib/chat-machine.ts` says the order is fixed. The controls
  of the live switch are gone until a reload, which restores it from the address
  bar.
* `chat_lost`: the answer of the arm request is lost. The chat says "Nothin' lost
  — try again", the server has armed a switch, and its topic, without which no
  check-in and no cancel can be made, was in the answer.

Met while modelling, at places where a comment promises more than the code does, or
the code does less than it seems to; no run of their own, but what the properties
say is cut to it:

* `cancel-backstop.ts:12` and the head of `SwitchActions.tsx` speak of the debit of
  the Ledger. The watcher compares the debit with the record's account; the executor
  of `/api/cancel` compares it with the account named in the request
  (`executors.ts:317-320`), not with the record's, nor does the card compare the
  connected Ledger with it. So `CancelIsOnChain` says that a transfer with the
  switch's memo is on chain, and whose it is only where the watcher stands down.
* The cleanup of `useLedgerHedera.ts:69-75` disconnects the session it finds. A
  `connect` at the picker has none yet; it goes on (83-124) and keeps the one it
  opens, which `DeviceIsReleased` excepts.
* A schedule expires up to a second before the deadline in the record
  (`lib/hedera.ts:472`); `NoEarlyRelease` and `TimelockPromise` allow that second.
* After two rungs of a switch have fired, a watcher that starts over announces both
  again: `release.ts:67-71` compares with the one seq the record names.
  `ReleaseIsFinal` is about switches with one fired schedule.

## Plan

Done: the switch, the chat, the scene, the store, the page, the watcher's passes,
the ceremony, the ladder and the reveal, with the proofs above. Next:

1. The state halves of `MemoIsRevealed` and `SignedIsHonored`, as `SilenceIsAnswered`
   is one of `SilenceReleases`.
2. A cancel and a check-in that pass each other in the two processes while the
   ceremony of a second device is under way: `SwitchWatch` with the executors call by
   call.

## Not modelled

* An arming that fails before its record is saved leaves a schedule without a record.
  It is in `DeadMansSwitch` and nothing follows its firing, but `NeverDisarmed` and
  `KeepsPromise` speak of switches with a record, and nothing says that the chat has
  told its user of a failure while a schedule runs.
* A `RELEASE_AUTHORIZED` that reaches the watcher late. After a check-in that failed half
  way, `BurnedStaysSecret` and `AcceptedCheckinPostpones` do not see it, since both stop
  at the first fault; after a cancel, no property forbids the release it causes.
* In `WatcherPasses` a switch has one schedule and its executors are steps; the many
  schedules of one switch are `DeadMansSwitch`'s. A mirror that fails for longer
  than the retries of a verification loses a cancel, which the model does and counts
  as `lost`: the code promises a retry for errors only.
* `Reveal` takes the capsule the reader opens for the one that was published: the
  view reads the first 100 messages of the audit topic, and a ladder has at most the
  20 rungs the terms card offers.
* A ciphertext over 1 MB, which the route refuses; `readCiphertext`, which only the
  integration script calls; the account lookup by public key; operator keys.
* An unmount while a transfer is being submitted, which differs from one after it only
  in a message nobody sees; a device that is unplugged while nothing awaits it leaves
  the card `identified` with a dead session until the next attempt (in the model).
* The development stand-ins (`simulate`, `mock`), the validation of request bodies,
  free text in the terms, the words of the captain and the model that writes them,
  layout, rendering, APDU framing, the cryptographic libraries, configuration,
  fixtures, tests and spikes: no state the properties above could tell apart.
