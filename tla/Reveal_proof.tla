---------------------------- MODULE Reveal_proof ----------------------------
(***************************************************************************)
(* The ladder, for every cadence, length and drand clock, and the way of a  *)
(* memo from its storage to a reader, for every size, page and number of    *)
(* failures.                                                                *)
(***************************************************************************)
EXTENDS Reveal, SequenceTheorems, TLAPS

-----------------------------------------------------------------------------
(* The ladder.                                                              *)

\* The deadlines of a ladder increase strictly: what DeadMansSwitch assumes of
\* its constant Deadline (mintLadder's "deadlines strictly increase").
THEOREM DeadlinesIncrease ==
    /\ \A i \in Rungs : DeadlineOf(i) \in Nat \ {0}
    /\ \A i, j \in Rungs : i < j => DeadlineOf(i) < DeadlineOf(j)
<1>1. ASSUME NEW i \in Rungs PROVE i * Interval \in Nat \ {0}
  BY LadderAssumption DEF Rungs
<1>2. ASSUME NEW i \in Rungs, NEW j \in Rungs, i < j
      PROVE  i * Interval < j * Interval
  BY <1>2, LadderAssumption DEF Rungs
<1> QED
  BY <1>1, <1>2, LadderAssumption DEF DeadlineOf, Rungs

\* The deadline a check-in client computes from a view whose live rung is L is
\* the one that was minted for the next rung (buildCheckinRequest's newDeadline,
\* which Gate-1 compares with the transfer's).
THEOREM ClientAgrees ==
    \A L \in Rungs : L < N => ClientDeadline(L) = Mint("K")[L + 1].deadline
<1> SUFFICES ASSUME NEW L \in Rungs, L < N
             PROVE  ClientDeadline(L) = Mint("K")[L + 1].deadline
  OBVIOUS
<1>1. L + 1 \in Rungs
  BY LadderAssumption DEF Rungs
<1> QED
  BY <1>1 DEF Mint, DeadlineOf, ClientDeadline

\* The round of a time is published by then, and not a period earlier.
LEMMA RoundBounds ==
    ASSUME NEW t \in Nat, t >= Genesis
    PROVE  /\ RoundAt(t) \in Nat \ {0}
           /\ RoundTime(RoundAt(t)) <= t
           /\ t < RoundTime(RoundAt(t)) + DrandPeriod
<1> DEFINE d == t - Genesis
           q == d \div DrandPeriod
<1>1. d \in Nat /\ DrandPeriod \in Nat \ {0}
  BY LadderAssumption
<1>2. q \in Nat /\ q * DrandPeriod <= d /\ d < (q + 1) * DrandPeriod
  BY <1>1, Z3
<1> QED
  BY <1>1, <1>2, LadderAssumption DEF RoundAt, RoundTime

\* A capsule can be opened at its deadline, and at most one drand period before
\* it, for every rung (mintLadder, crypto.ts:189-192).
THEOREM SealedUntilDue ==
    \A i \in Rungs :
        LET r == Mint("K")[i].round
        IN /\ RoundTime(r) <= DeadlineOf(i)
           /\ DeadlineOf(i) < RoundTime(r) + DrandPeriod
<1> SUFFICES ASSUME NEW i \in Rungs
             PROVE  /\ RoundTime(RoundAt(DeadlineOf(i))) <= DeadlineOf(i)
                    /\ DeadlineOf(i)
                         < RoundTime(RoundAt(DeadlineOf(i))) + DrandPeriod
  BY DEF Mint
<1>1. DeadlineOf(i) \in Nat /\ DeadlineOf(i) >= Genesis
  <2>1. i * Interval \in Nat
    BY LadderAssumption DEF Rungs
  <2> QED
    BY <2>1, LadderAssumption DEF DeadlineOf
<1> QED
  BY <1>1, RoundBounds

\* The rounds of a ladder increase strictly, as long as the cadence is not
\* shorter than the drand period: the release of a rung opens no later one
\* ("Rounds are strictly increasing", crypto.ts:181).
THEOREM RoundsIncrease ==
    \A i, j \in Rungs :
        i < j => Mint("K")[i].round < Mint("K")[j].round
<1> SUFFICES ASSUME NEW i \in Rungs, NEW j \in Rungs, i < j
             PROVE  RoundAt(DeadlineOf(i)) < RoundAt(DeadlineOf(j))
  BY DEF Mint
<1> DEFINE di == DeadlineOf(i)
           dj == DeadlineOf(j)
           ri == RoundAt(di)
           rj == RoundAt(dj)
<1>1. di \in Nat /\ di >= Genesis /\ dj \in Nat /\ dj >= di + Interval
  <2>1. i * Interval \in Nat /\ j * Interval \in Nat
    BY LadderAssumption DEF Rungs
  <2>2. j * Interval >= i * Interval + Interval
    BY LadderAssumption DEF Rungs
  <2> QED
    BY <2>1, <2>2, LadderAssumption DEF DeadlineOf
<1>2. ri \in Nat /\ rj \in Nat
  BY <1>1, RoundBounds, LadderAssumption
<1>3. RoundTime(ri) <= di
  BY <1>1, RoundBounds
<1>4. dj < RoundTime(rj) + DrandPeriod
  BY <1>1, RoundBounds, LadderAssumption
<1>5. RoundTime(ri) + DrandPeriod < RoundTime(rj) + DrandPeriod
  <2> RoundTime(ri) \in Int /\ RoundTime(rj) \in Int
    BY <1>2, LadderAssumption DEF RoundTime
  <2> HIDE DEF ri, rj, di, dj
  <2> QED
    BY <1>1, <1>3, <1>4, LadderAssumption, CadenceAssumption
<1>6. (ri - 1) * DrandPeriod < (rj - 1) * DrandPeriod
  <2> HIDE DEF ri, rj, di, dj
  <2> QED
    BY <1>2, <1>5, LadderAssumption DEF RoundTime
<1>7. ri < rj
  <2> HIDE DEF ri, rj, di, dj
  <2> QED
    BY <1>2, <1>6, LadderAssumption
<1> QED
  BY <1>7

-----------------------------------------------------------------------------
(* The inductive invariant.                                                 *)

Prefix(n) == [i \in 1..n |-> i]

\* While an upload goes on, the last store holds the chunks sent so far.
Uploading ==
    upload => /\ ref = 0 /\ stores # <<>> /\ sent < size
              /\ stores[Len(stores)] = Prefix(sent)

\* The mirror shows no more than there is, and a read has no more than that.
ReadsWhatIsThere ==
    card \in {"opening", "fetching"} => Len(got) <= visible

Released == fired # 0 => ref # 0 /\ DeadlineOf(fired) <= now

Reading == card # "idle" => fired # 0

IInv ==
    /\ TypeOK
    /\ Uploading
    /\ RefIsWhole
    /\ ReadsWhatIsThere
    /\ Released
    /\ Reading
    /\ ShownIsMemo

USE LadderAssumption, StorageAssumption

LEMMA WholeIsSeq ==
    ASSUME NEW n \in Nat, n <= size, size \in Nat
    PROVE  Prefix(n) \in Seq(1..size) /\ Len(Prefix(n)) = n
<1>1. \A i \in 1..n : i \in 1..size
  OBVIOUS
<1> QED
  BY <1>1 DEF Prefix

LEMMA Appended ==
    ASSUME NEW S, NEW s \in Seq(S), NEW e \in S
    PROVE  /\ Append(s, e) \in Seq(S) /\ Len(Append(s, e)) = Len(s) + 1
           /\ Append(s, e)[Len(s) + 1] = e /\ Append(s, e) # <<>>
<1>1. Append(s, e) \in Seq(S) /\ Len(Append(s, e)) = Len(s) + 1
      /\ Append(s, e)[Len(s) + 1] = e
  BY AppendProperties
<1>2. Len(s) \in Nat
  BY LenProperties
<1> QED
  BY <1>1, <1>2, EmptySeq

LEMMA InitIInv == Init => IInv
<1> SUFFICES ASSUME Init PROVE IInv
  OBVIOUS
<1>1. <<>> \in Seq(Seq(1..size)) /\ <<>> \in Seq(1..size) /\ Len(<<>>) = 0
  OBVIOUS
<1>2. TypeOK
  <2>1. stores \in Seq(Seq(1..size)) /\ got \in Seq(1..size) /\ text \in Seq(1..size)
    BY <1>1 DEF Init
  <2>2. ref \in 0..Len(stores)
    BY <1>1 DEF Init
  <2>3. size \in 1..MaxChunks /\ visible \in 0..size /\ sent \in 0..size
    BY DEF Init
  <2>4. now \in ArmTime..MaxNow /\ fired \in 0..N /\ faults \in 0..MaxFaults
    BY DEF Init
  <2>5. upload \in BOOLEAN
    BY DEF Init
  <2>6. card \in {"idle", "opening", "fetching", "decrypting", "shown"}
    BY DEF Init
  <2> QED
    BY <2>1, <2>2, <2>3, <2>4, <2>5, <2>6 DEF TypeOK
<1>3. Uploading /\ RefIsWhole /\ ReadsWhatIsThere /\ Released /\ Reading /\ ShownIsMemo
  BY DEF Init, Uploading, RefIsWhole, ReadsWhatIsThere, Released, Reading,
         ShownIsMemo
<1> QED
  BY <1>2, <1>3 DEF IInv

\* What a page of the mirror adds to what a reader has.
LEMMA PageIsRead ==
    ASSUME size \in Nat, visible \in 0..size, got \in Seq(1..size),
           Len(got) <= visible, NEW store, store = Whole
    PROVE  LET page == Mirror!Page(visible, Len(got))
               all == got \o [i \in DOMAIN page |-> store[page[i]]]
           IN all \in Seq(1..size) /\ Len(all) <= visible
<1> DEFINE rest == visible - Len(got)
           k == IF rest < PageLimit THEN rest ELSE PageLimit
           page == Mirror!Page(visible, Len(got))
           add == [i \in DOMAIN page |-> store[page[i]]]
<1>1. rest \in Nat /\ k \in Nat /\ k <= rest
  BY LenProperties
<1>2. page = [i \in 1..k |-> Len(got) + i]
  BY DEF Mirror!Page
<1>3. \A i \in 1..k : Len(got) + i \in 1..size
  BY <1>1, LenProperties
<1> HIDE DEF rest, page, k
<1>4. add = [i \in 1..k |-> Len(got) + i]
  BY <1>2, <1>3 DEF Whole
<1>5. add \in Seq(1..size) /\ Len(add) = k
  BY <1>1, <1>3, <1>4
<1> HIDE DEF add
<1>6. Len(got \o add) = Len(got) + k /\ got \o add \in Seq(1..size)
  BY <1>5, ConcatProperties
<1>7. Len(got \o add) <= visible
  BY <1>1, <1>6, LenProperties DEF rest
<1> QED
  BY <1>6, <1>7 DEF add, page

LEMMA StoringStep ==
    ASSUME IInv, Store \/ SendChunk \/ ChunkFails
    PROVE  IInv'
<1> USE DEF IInv
<1>1. CASE Store
  <2> USE <1>1 DEF Store, readerVars
  <2>1. CASE Medium(size) = "hfs"
    <3>1. Whole \in Seq(1..size) /\ Len(Whole) = size
      BY WholeIsSeq DEF TypeOK, Prefix, Whole
    <3>2. /\ stores' = Append(stores, Whole) /\ ref' = Len(stores')
          /\ stores' \in Seq(Seq(1..size)) /\ Len(stores') = Len(stores) + 1
          /\ stores'[Len(stores')] = Whole
      <4>1. stores \in Seq(Seq(1..size))
        BY DEF TypeOK
      <4>2. stores' = Append(stores, Whole) /\ ref' = Len(stores')
        BY <2>1
      <4>3. /\ Append(stores, Whole) \in Seq(Seq(1..size))
            /\ Len(Append(stores, Whole)) = Len(stores) + 1
            /\ Append(stores, Whole)[Len(stores) + 1] = Whole
        BY ONLY <3>1, <4>1, Appended
      <4> QED
        BY ONLY <4>2, <4>3
    <3>3. TypeOK'
      BY <2>1, <3>2, LenProperties DEF TypeOK
    <3>4. RefIsWhole'
      BY <2>1, <3>2 DEF RefIsWhole, Whole
    <3>5. Uploading' /\ ReadsWhatIsThere' /\ Released' /\ Reading' /\ ShownIsMemo'
      BY <2>1 DEF Uploading, ReadsWhatIsThere, Released, Reading, ShownIsMemo,
                  Whole
    <3> QED
      BY <3>3, <3>4, <3>5
  <2>2. CASE Medium(size) # "hfs"
    <3>1. <<>> \in Seq(1..size) /\ Prefix(0) = <<>>
      BY DEF Prefix
    <3>2. /\ stores' = Append(stores, <<>>)
          /\ stores' \in Seq(Seq(1..size)) /\ Len(stores') = Len(stores) + 1
          /\ stores'[Len(stores')] = <<>> /\ stores' # <<>>
      <4>1. stores \in Seq(Seq(1..size))
        BY DEF TypeOK
      <4>2. stores' = Append(stores, <<>>)
        BY <2>2
      <4>3. /\ Append(stores, <<>>) \in Seq(Seq(1..size))
            /\ Len(Append(stores, <<>>)) = Len(stores) + 1
            /\ Append(stores, <<>>)[Len(stores) + 1] = <<>>
            /\ Append(stores, <<>>) # <<>>
        BY ONLY <3>1, <4>1, Appended
      <4> QED
        BY ONLY <4>2, <4>3
    <3>3. TypeOK'
      BY <2>2, <3>2, LenProperties DEF TypeOK
    <3>4. Uploading'
      BY <2>2, <3>1, <3>2 DEF Uploading, TypeOK, Prefix
    <3>5. RefIsWhole' /\ ReadsWhatIsThere' /\ Released' /\ Reading' /\ ShownIsMemo'
      BY <2>2 DEF RefIsWhole, ReadsWhatIsThere, Released, Reading, ShownIsMemo,
                  Whole
    <3> QED
      BY <3>3, <3>4, <3>5
  <2> QED
    BY <2>1, <2>2
<1> DEFINE last == Len(stores)
<1>2. ASSUME upload, Sent(sent + 1), UNCHANGED size
      PROVE  /\ stores' \in Seq(Seq(1..size)) /\ Len(stores') = last
             /\ last \in DOMAIN stores /\ stores' # <<>>
             /\ stores'[last] = Prefix(sent + 1)
             /\ sent + 1 \in 1..size
  <2>1. /\ stores # <<>> /\ sent + 1 \in 1..size
        /\ stores[last] = Prefix(sent) /\ sent \in Nat /\ size \in Nat
    BY <1>2 DEF Uploading, TypeOK
  <2>2. last \in 1..last /\ last \in Nat /\ DOMAIN stores = 1..last
    BY <2>1, LenProperties, EmptySeq DEF TypeOK
  <2>3. /\ Prefix(sent) \in Seq(1..size) /\ Len(Prefix(sent)) = sent
        /\ Prefix(sent + 1) \in Seq(1..size) /\ Len(Prefix(sent + 1)) = sent + 1
    BY <2>1, WholeIsSeq
  <2>4. Append(Prefix(sent), sent + 1) = Prefix(sent + 1)
    BY <2>1, <2>3, AppendProperties DEF Prefix
  <2>5. stores' = [stores EXCEPT ![last] = Prefix(sent + 1)]
    BY <1>2, <2>1, <2>2, <2>4 DEF Sent
  <2>6. stores' \in Seq(Seq(1..size)) /\ Len(stores') = last
    BY <2>2, <2>3, <2>5, ExceptSeq DEF TypeOK
  <2>7. stores'[last] = Prefix(sent + 1)
    BY <2>2, <2>5
  <2>8. stores' # <<>>
    BY <2>2, <2>6, EmptySeq
  <2> QED
    BY <2>1, <2>2, <2>6, <2>7, <2>8
<1>3. CASE SendChunk
  <2> USE <1>3 DEF SendChunk, readerVars
  <2>1. /\ stores' \in Seq(Seq(1..size)) /\ Len(stores') = last
        /\ last \in DOMAIN stores /\ stores' # <<>>
        /\ stores'[last] = Prefix(sent + 1) /\ sent + 1 \in 1..size
    BY <1>2
  <2>2. TypeOK'
    BY <2>1, LenProperties DEF TypeOK
  <2>3. Uploading'
    <3> HIDE DEF IInv
    <3>1. CASE Last(sent + 1)
      BY <3>1 DEF Uploading
    <3>2. CASE ~Last(sent + 1)
      <4>1. sent + 1 < size
        <5>1. size \in Nat
          BY DEF IInv, TypeOK
        <5> QED
          BY <2>1, <3>2, <5>1 DEF Last
      <4> QED
        BY <2>1, <3>2, <4>1 DEF Uploading
    <3> QED
      BY <3>1, <3>2
  <2>4. RefIsWhole'
    BY <2>1 DEF RefIsWhole, Last, Whole, Prefix, TypeOK
  <2>5. ref = 0 /\ fired = 0
    BY DEF Uploading, Released
  <2>6. ReadsWhatIsThere' /\ Released' /\ Reading' /\ ShownIsMemo'
    BY <2>5 DEF ReadsWhatIsThere, Released, Reading, ShownIsMemo, Whole
  <2> QED
    BY <2>2, <2>3, <2>4, <2>6
<1>4. CASE ChunkFails
  <2> USE <1>4 DEF ChunkFails, GoesOn, readerVars
  <2>1. stores' \in Seq(Seq(1..size)) /\ Len(stores') = Len(stores)
    BY <1>2 DEF TypeOK
  <2>2. TypeOK'
    <3>1. faults' \in 0..MaxFaults
      BY DEF Fault, TypeOK
    <3>2. sent' = sent /\ upload' = FALSE /\ ref' \in 0..Len(stores')
      BY <2>1 DEF TypeOK
    <3> QED
      BY <2>1, <3>1, <3>2 DEF TypeOK
  <2>3. ref = 0
    BY DEF Uploading
  <2>4. /\ Uploading' /\ RefIsWhole' /\ ReadsWhatIsThere' /\ Released'
        /\ Reading' /\ ShownIsMemo'
    BY <2>3 DEF Uploading, RefIsWhole, ReadsWhatIsThere, Released, Reading,
                ShownIsMemo, Whole
  <2> QED
    BY <2>2, <2>4
<1> QED
  BY <1>1, <1>3, <1>4

LEMMA OutsideStep ==
    ASSUME IInv, MirrorShows \/ Tick \/ Publish
    PROVE  IInv'
<1> USE DEF IInv
<1>1. UNCHANGED <<storageVars, readerVars>> /\ ref # 0
  BY DEF MirrorShows, Tick, Publish, storageVars
<1>2. Uploading' /\ RefIsWhole' /\ ShownIsMemo'
  BY <1>1 DEF Uploading, RefIsWhole, ShownIsMemo, storageVars, readerVars, Whole
<1>3. Len(stores[ref]) = size
  BY <1>1, WholeIsSeq DEF RefIsWhole, Whole, Prefix, TypeOK
<1>4. CASE MirrorShows
  <2>1. TypeOK'
    BY <1>3, <1>4 DEF MirrorShows, TypeOK, storageVars, readerVars
  <2>2. ReadsWhatIsThere' /\ Released' /\ Reading'
    BY <1>4, LenProperties DEF MirrorShows, TypeOK, ReadsWhatIsThere, Released,
                Reading, storageVars, readerVars
  <2> QED
    BY <1>2, <2>1, <2>2
<1>5. CASE Tick
  <2>1. TypeOK'
    BY <1>5 DEF Tick, TypeOK, storageVars, readerVars
  <2>2. Released'
    <3>1. fired # 0 => DeadlineOf(fired) \in Nat
      BY DeadlinesIncrease DEF TypeOK, Rungs
    <3> QED
      BY <1>5, <3>1 DEF Tick, TypeOK, Released, storageVars
  <2>3. ReadsWhatIsThere' /\ Reading'
    BY <1>5 DEF Tick, ReadsWhatIsThere, Reading, storageVars, readerVars
  <2> QED
    BY <1>2, <2>1, <2>2, <2>3
<1>6. CASE Publish
  <2>1. fired' \in Rungs /\ DeadlineOf(fired') <= now
    <3>1. PICK i \in Rungs : now >= DeadlineOf(i) /\ fired' = i
      BY <1>6 DEF Publish
    <3>2. DeadlineOf(i) \in Nat
      BY DeadlinesIncrease
    <3> QED
      BY <3>1, <3>2 DEF TypeOK
  <2>2. TypeOK'
    BY <1>6, <2>1 DEF Publish, TypeOK, storageVars, readerVars, Rungs
  <2>3. Released' /\ Reading' /\ ReadsWhatIsThere'
    BY <1>6, <2>1 DEF Publish, Released, Reading, ReadsWhatIsThere, storageVars,
                      readerVars, Rungs, DeadlineOf
  <2> QED
    BY <1>2, <2>2, <2>3
<1> QED
  BY <1>4, <1>5, <1>6

LEMMA ReadingStep ==
    ASSUME IInv, ReaderStep \/ RevealFails
    PROVE  IInv'
<1> USE DEF IInv
<1>1. UNCHANGED <<storageVars, visible, now, fired>>
  BY DEF ReaderStep, RevealFails, PressReveal, OpenCapsule, FetchFile,
         FetchPage, Decrypt
<1>2. Uploading' /\ RefIsWhole' /\ Released'
  BY <1>1 DEF Uploading, RefIsWhole, Released, storageVars, Whole
<1>3. fired # 0 /\ ref # 0 /\ stores[ref] = Whole /\ Whole \in Seq(1..size)
  <2>1. fired # 0
    BY DEF ReaderStep, RevealFails, PressReveal, OpenCapsule, FetchFile,
           FetchPage, Decrypt, Reading
  <2> QED
    BY <2>1, WholeIsSeq DEF Released, RefIsWhole, TypeOK, Whole, Prefix
<1>4. Reading'
  BY <1>1, <1>3 DEF Reading
<1>5. CASE PressReveal
  <2>1. TypeOK' /\ Len(got') = 0
    BY <1>5 DEF PressReveal, TypeOK, storageVars
  <2>2. ReadsWhatIsThere' /\ ShownIsMemo'
    BY <1>5, <2>1 DEF PressReveal, ReadsWhatIsThere, ShownIsMemo, TypeOK
  <2> QED
    BY <1>2, <1>4, <2>1, <2>2
<1>6. CASE OpenCapsule
  <2>1. TypeOK' /\ ReadsWhatIsThere' /\ ShownIsMemo'
    BY <1>6 DEF OpenCapsule, TypeOK, ReadsWhatIsThere, ShownIsMemo, storageVars
  <2> QED
    BY <1>2, <1>4, <2>1
<1>7. CASE FetchFile
  <2>1. TypeOK' /\ ReadsWhatIsThere' /\ ShownIsMemo'
    BY <1>3, <1>7 DEF FetchFile, TypeOK, ReadsWhatIsThere, ShownIsMemo, storageVars
  <2> QED
    BY <1>2, <1>4, <2>1
<1>8. CASE FetchPage
  <2> DEFINE p == Mirror!Page(visible, Len(got))
  <2>1. /\ got' = got \o [i \in DOMAIN p |-> stores[ref][p[i]]]
        /\ card' \in {"fetching", "decrypting"}
    BY <1>8 DEF FetchPage
  <2>2. got' \in Seq(1..size) /\ Len(got') <= visible
    BY <1>3, <1>8, <2>1, PageIsRead DEF TypeOK, ReadsWhatIsThere, FetchPage
  <2>3. TypeOK' /\ ReadsWhatIsThere' /\ ShownIsMemo'
    BY <1>8, <2>1, <2>2 DEF FetchPage, TypeOK, ReadsWhatIsThere, ShownIsMemo,
                            storageVars
  <2> QED
    BY <1>2, <1>4, <2>3
<1>9. CASE Decrypt
  <2>1. TypeOK' /\ ReadsWhatIsThere'
    BY <1>9 DEF Decrypt, TypeOK, ReadsWhatIsThere, storageVars
  <2>2. ShownIsMemo'
    BY <1>1, <1>9 DEF Decrypt, ShownIsMemo, Authentic, Whole, storageVars
  <2> QED
    BY <1>2, <1>4, <2>1, <2>2
<1>10. CASE RevealFails
  <2>1. TypeOK' /\ ReadsWhatIsThere' /\ ShownIsMemo'
    BY <1>10 DEF RevealFails, Fault, TypeOK, ReadsWhatIsThere, ShownIsMemo,
                 storageVars
  <2> QED
    BY <1>2, <1>4, <2>1
<1> QED
  BY <1>5, <1>6, <1>7, <1>8, <1>9, <1>10 DEF ReaderStep

LEMMA StepIInv == IInv /\ [Next]_vars => IInv'
<1> SUFFICES ASSUME IInv, [Next]_vars PROVE IInv'
  OBVIOUS
<1>1. CASE Next
  BY <1>1, StoringStep, OutsideStep, ReadingStep DEF Next
<1>2. CASE UNCHANGED vars
  BY <1>2 DEF vars, storageVars, readerVars, IInv, TypeOK, Uploading, RefIsWhole,
              ReadsWhatIsThere, Released, Reading, ShownIsMemo, Whole
<1> QED
  BY <1>1, <1>2

\* A published capsule waits for a round that is over.
LEMMA ReleasedOpens == IInv => PublishedOpens
<1> SUFFICES ASSUME IInv, fired # 0 PROVE Opens(fired)
  BY DEF PublishedOpens
<1>1. fired \in Rungs /\ DeadlineOf(fired) <= now /\ now \in Nat
  BY DEF IInv, TypeOK, Released, Rungs
<1>2. RoundTime(Mint("K")[fired].round) <= DeadlineOf(fired)
  BY <1>1, SealedUntilDue
<1>3. DeadlineOf(fired) \in Nat
  BY <1>1, DeadlinesIncrease
<1>4. RoundTime(Mint("K")[fired].round) \in Int
  <2>1. DeadlineOf(fired) >= Genesis
    <3>1. fired * Interval \in Nat
      BY <1>1 DEF Rungs
    <3> QED
      BY <3>1 DEF DeadlineOf
  <2>2. Mint("K")[fired].round \in Nat
    BY <1>1, <1>3, <2>1, RoundBounds DEF Mint
  <2> QED
    BY <2>2 DEF RoundTime
<1> QED
  BY <1>1, <1>2, <1>3, <1>4 DEF Opens

LEMMA AlwaysIInv == Spec => []IInv
<1> QED
  BY InitIInv, StepIInv, PTL DEF Spec

-----------------------------------------------------------------------------
(* The theorems.                                                            *)

\* Every variable keeps its type.
THEOREM RevealTypes == Spec => []TypeOK
<1>1. IInv => TypeOK
  BY DEF IInv
<1> QED
  BY <1>1, AlwaysIInv, PTL

\* An armed switch names a store that holds its ciphertext, for every size and
\* any number of failed uploads before (storeCiphertext).
THEOREM RefWhole == Spec => []RefIsWhole
<1>1. IInv => RefIsWhole
  BY DEF IInv
<1> QED
  BY <1>1, AlwaysIInv, PTL

\* A published capsule can be opened, for every cadence and drand clock.
THEOREM Openable == Spec => []PublishedOpens
<1> QED
  BY ReleasedOpens, AlwaysIInv, PTL

\* What a reader is shown is the memo, for every size, page and mirror lag.
THEOREM ShownMemo == Spec => []ShownIsMemo
<1>1. IInv => ShownIsMemo
  BY DEF IInv
<1> QED
  BY <1>1, AlwaysIInv, PTL
=============================================================================
