------------------------------- MODULE Reveal -------------------------------
(***************************************************************************)
(* The way of a memo through a switch: its ciphertext is stored (hedera.ts  *)
(* storeCiphertext, behind /api/storage), its key sealed into the ladder,   *)
(* and once the watcher has published a capsule a reader's RevealCard opens *)
(* that, fetches the ciphertext back and decrypts it (reveal.ts).  When a   *)
(* rung is published is DeadMansSwitch's; here it is some rung whose        *)
(* deadline has passed.                                                     *)
(***************************************************************************)
EXTENDS Ladder, Sequences

CONSTANTS
    MaxChunks,  \* bound on the chunks of a ciphertext: 1 MB in chunks of 1000
    FastPath,   \* the chunks FAST_PATH_MAX_BYTES amounts to
    PageLimit,  \* messages on a page of the mirror
    MaxNow,     \* bound on the clock
    MaxFaults   \* bound on failed calls

ASSUME StorageAssumption ==
    /\ FastPath \in Nat /\ MaxChunks \in Nat \ {0} /\ PageLimit \in Nat \ {0}
    /\ MaxNow \in Nat /\ MaxNow >= ArmTime /\ MaxFaults \in Nat

\* Nothing is verified here.
Mirror == INSTANCE MirrorNode WITH Attempts <- 1

VARIABLES
    size,       \* the chunks of the ciphertext
    stores,     \* the files and the storage topics: the chunks in them
    upload,     \* storeCiphertext sends chunks to the last of them
    sent,       \* how many it is done with
    ref,        \* the StorageRef of the armed switch; 0 before
    visible,    \* how many messages of the ref's topic the mirror shows
    now,        \* the time
    fired,      \* the rung published in CAPSULE_PUBLISHED; 0 before
    card,       \* what the RevealCard awaits
    got,        \* what it has fetched
    text,       \* what it shows
    faults

storageVars == <<size, stores, upload, sent, ref>>
readerVars == <<card, got, text>>
vars == <<storageVars, visible, now, fired, readerVars, faults>>

TypeOK ==
    /\ size \in 1..MaxChunks
    /\ stores \in Seq(Seq(1..size))
    /\ upload \in BOOLEAN
    /\ sent \in 0..size
    /\ ref \in 0..Len(stores)
    /\ visible \in 0..size
    /\ now \in ArmTime..MaxNow
    /\ fired \in 0..N
    /\ card \in {"idle", "opening", "fetching", "decrypting", "shown"}
    /\ got \in Seq(1..size)
    /\ text \in Seq(1..size)
    /\ faults \in 0..MaxFaults

Init ==
    /\ size \in 1..MaxChunks
    /\ stores = <<>> /\ upload = FALSE /\ sent = 0 /\ ref = 0
    /\ visible = 0
    /\ now = ArmTime /\ fired = 0
    /\ card = "idle" /\ got = <<>> /\ text = <<>>
    /\ faults = 0

Fault == faults < MaxFaults /\ faults' = faults + 1

-----------------------------------------------------------------------------
(* Storing.                                                                 *)

\* splitChunks: the chunks of the ciphertext, in order.
Whole == [i \in 1..size |-> i]

Medium(n) == IF n <= FastPath THEN "hfs" ELSE "hcs"

\* A file is created with its contents, a topic is created empty.  A create that
\* fails leaves nothing.
Store ==
    /\ ref = 0 /\ ~upload
    /\ sent' = 0
    /\ IF Medium(size) = "hfs"
       THEN /\ stores' = Append(stores, Whole)
            /\ ref' = Len(stores')
            /\ UNCHANGED upload
       ELSE /\ stores' = Append(stores, <<>>)
            /\ upload' = TRUE
            /\ UNCHANGED ref
    /\ UNCHANGED <<size, visible, now, fired, readerVars, faults>>

Sent(k) == stores' = [stores EXCEPT ![Len(stores)] = Append(@, k)]

\* Nothing is left to send after the k-th chunk.
Last_OneMore(k) == k > size

Last(k) == k = size

\* A chunk is on the topic before the next one is sent; after the last one the
\* arming commits to the topic.
SendChunk ==
    /\ upload
    /\ Sent(sent + 1)
    /\ sent' = sent + 1
    /\ upload' = ~Last(sent + 1)
    /\ ref' = IF Last(sent + 1) THEN Len(stores) ELSE 0
    /\ UNCHANGED <<size, visible, now, fired, readerVars, faults>>

\* The chunk is skipped.
GoesOn_NextChunk == sent + 1 < size

\* Whether the upload goes on after a chunk that failed.
GoesOn == FALSE

\* A chunk is refused, or its receipt is lost: the route answers 500, and
\* another attempt starts with another topic.
ChunkFails ==
    /\ upload
    /\ Fault
    /\ Sent(sent + 1) \/ UNCHANGED stores
    /\ upload' = GoesOn
    /\ sent' = IF GoesOn THEN sent + 1 ELSE sent
    /\ UNCHANGED <<size, ref, visible, now, fired, readerVars>>

-----------------------------------------------------------------------------
(* The network and the watcher.                                             *)

MirrorShows ==
    /\ ref # 0
    /\ visible < Len(stores[ref])
    /\ visible' = visible + 1
    /\ UNCHANGED <<storageVars, now, fired, readerVars, faults>>

\* The ladder is minted once the ciphertext is stored.
Tick ==
    /\ ref # 0
    /\ now < MaxNow
    /\ now' = now + 1
    /\ UNCHANGED <<storageVars, visible, fired, readerVars, faults>>

Publish ==
    /\ ref # 0 /\ fired = 0
    /\ \E i \in Rungs : now >= DeadlineOf(i) /\ fired' = i
    /\ UNCHANGED <<storageVars, visible, now, readerVars, faults>>

-----------------------------------------------------------------------------
(* RevealCard and revealMemo.                                               *)

\* The round a capsule of the ladder waits for has a signature.
Opens(i) == now >= RoundTime(Mint("K")[i].round)

PressReveal ==
    /\ fired # 0 /\ card = "idle"
    /\ card' = "opening" /\ got' = <<>>
    /\ UNCHANGED <<storageVars, visible, now, fired, text, faults>>

OpenCapsule ==
    /\ card = "opening"
    /\ card' = IF Opens(fired) THEN "fetching" ELSE "idle"
    /\ UNCHANGED <<storageVars, visible, now, fired, got, text, faults>>

\* /api/file proxies the whole file.
FetchFile ==
    /\ card = "fetching" /\ Medium(size) = "hfs"
    /\ got' = stores[ref]
    /\ card' = "decrypting"
    /\ UNCHANGED <<storageVars, visible, now, fired, text, faults>>

\* The first page is all that is read.
Follows_Never(page, all) == FALSE

\* The mirror gives a link to the next page after a full one; it is followed
\* until the chunks of the ref are there.
Follows(page, all) == Len(page) = PageLimit /\ Len(all) < size

FetchPage ==
    /\ card = "fetching" /\ Medium(size) = "hcs"
    /\ LET page == Mirror!Page(visible, Len(got))
       IN /\ got' = got \o [i \in DOMAIN page |-> stores[ref][page[i]]]
          /\ card' = IF Follows(page, got') THEN "fetching" ELSE "decrypting"
    /\ UNCHANGED <<storageVars, visible, now, fired, text, faults>>

\* Whatever comes is taken for the memo.
Authentic_Unchecked(c) == TRUE

\* The tag of AES-GCM fits the ciphertext that was sealed and no other bytes.
Authentic(c) == c = Whole

Decrypt ==
    /\ card = "decrypting"
    /\ IF Authentic(got)
       THEN card' = "shown" /\ text' = got
       ELSE card' = "idle" /\ UNCHANGED text
    /\ UNCHANGED <<storageVars, visible, now, fired, got, faults>>

\* drand, the proxy or the mirror is out of reach: the card shows the error and
\* the button again.
RevealFails ==
    /\ card \in {"opening", "fetching"}
    /\ Fault
    /\ card' = "idle"
    /\ UNCHANGED <<storageVars, visible, now, fired, got, text>>

-----------------------------------------------------------------------------
ReaderStep == PressReveal \/ OpenCapsule \/ FetchFile \/ FetchPage \/ Decrypt

Next ==
    \/ Store \/ SendChunk \/ ChunkFails
    \/ MirrorShows \/ Tick \/ Publish
    \/ ReaderStep \/ RevealFails

\* The mirror shows a message in the end, and the reader tries again.
Fairness == WF_vars(MirrorShows) /\ WF_vars(ReaderStep)

Spec == Init /\ [][Next]_vars /\ Fairness

-----------------------------------------------------------------------------
(* Properties.                                                              *)

\* What an arming commits to holds the ciphertext, all of it and in order,
\* whatever uploads failed before (storeCiphertext, hedera.ts:384-421).
RefIsWhole == ref # 0 => stores[ref] = Whole

\* A published capsule can be opened at once, whatever the cadence and the
\* drand clock: "decryptable now -- its drand round has passed" (RevealCard.tsx:
\* 4-5, roundAt in crypto.ts:191).
PublishedOpens == fired # 0 => Opens(fired)

\* A reader is shown the memo and nothing else, though the mirror may show only
\* part of the storage topic when it is read (reveal.ts:98-127, crypto.ts:143).
ShownIsMemo == card = "shown" => text = Whole

\* A reader who tries again sees the memo of a released switch, on however many
\* pages its ciphertext is (fetchHcsCiphertext, reveal.ts:98-127).
MemoIsRevealed == fired # 0 ~> card = "shown"
=============================================================================
