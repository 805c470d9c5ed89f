------------------------- MODULE SwitchWatch_proof -------------------------
(***************************************************************************)
(* The watcher's passes and the cancel ceremony, for any topics, pages,     *)
(* number of attempts, transfers of others and faults: what the cursors     *)
(* have passed is answered, a cancel is on chain, a release is final.       *)
(***************************************************************************)
EXTENDS SwitchWatch, SequenceTheorems, TLAPS

-----------------------------------------------------------------------------
(* The inductive invariant.                                                 *)

OnChain(t) == \E i \in DOMAIN txs : Carries(txs[i], t)

\* Record, schedule and messages of a topic agree, stale saves included.
TopicInv(t) ==
    /\ rec[t] = "NONE" => rows[t] = <<>> /\ sched[t] = "none"
    /\ rec[t] = "RELEASED" => sched[t] = "fired" /\ Has(rows[t], "BULLETIN")
    /\ rec[t] = "CANCELLED" => Has(rows[t], "CANCELLED")
    /\ Has(rows[t], "RELEASE_AUTHORIZED") => sched[t] = "fired"
    /\ Has(rows[t], "CANCELLED") => sched[t] = "deleted"
    /\ sched[t] = "deleted" => OnChain(t)

\* Nobody names a topic that is not armed.
KnownInv ==
    \A i \in 1..Len(txs) :
        txs[i].topic \in Topics => rec[txs[i].topic] # "NONE"

HeldInv == held \in Topics => rec[held] # "NONE"

\* A page holds what comes right after the cursor, as far as there is any.
From(s, after, last) ==
    \A i \in 1..Len(s) : s[i] = after + i /\ s[i] <= last

PageInv ==
    /\ at = "idle" => page = <<>>
    /\ at \in {"react", "keep"} => page # <<>>
    /\ at \in {"poll", "react", "keep"} /\ page # <<>> =>
          polled \in Topics /\ From(page, cursor[polled], Len(rows[polled]))
    /\ at \in {"transfers", "verify", "teardown"} =>
          page # <<>> /\ From(page, txCursor, Len(txs))

\* The message at hand is a release, answered or not.
ReactInv ==
    /\ at \in {"react", "keep"} =>
          rows[polled][cursor[polled] + 1] = "RELEASE_AUTHORIZED"
    /\ at = "react" => rec[polled] # "RELEASED"
    /\ at = "keep" => Has(rows[polled], "BULLETIN")

\* The transfer at hand names a switch, which none but the watcher itself could
\* have released meanwhile, and is torn down for one it confirms.
AtHandInv ==
    /\ at \in {"verify", "teardown"} =>
          /\ txs[txCursor + 1].topic \in Topics
          /\ rec[txs[txCursor + 1].topic] # "RELEASED"
    /\ at = "teardown" =>
          Confirms(txs[txCursor + 1], txs[txCursor + 1].topic)

\* The call awaited is one of the phase; of the two connects there may be, each
\* has the session it opened.
CardInv ==
    /\ phase # "idle" => rec[Mine] # "NONE"
    /\ phase = "idle" => session = "none"
    /\ phase \in {"signing", "done"} => account # "none"
    /\ phase = "identified" => account # "none"
    /\ waits = "submit" => phase = "signing"
    /\ waits = "review" => phase = "signing"
    /\ waits = "probe" => phase = "connecting"
    /\ waits = "picker" => phase = "connecting" /\ session = "none"
    /\ sessions = (IF session = "none" THEN 0 ELSE 1) +
                  (IF behind = "opened" THEN 1 ELSE 0)
    /\ DoneIsOnChain

WInv ==
    /\ TypeOK
    /\ \A t \in Topics : TopicInv(t)
    /\ KnownInv
    /\ HeldInv
    /\ PageInv
    /\ ReactInv
    /\ AtHandInv
    /\ NothingIsSkipped
    /\ CardInv

USE MirrorAssumption, TopicsAssumption, MineAssumption

-----------------------------------------------------------------------------
(* What any step may do to the network and the records.                     *)

Extends(s, u) == Len(s) <= Len(u) /\ \A i \in 1..Len(s) : u[i] = s[i]

\* Messages are added, a topic stays armed, and a release is final but for the
\* save of a web cancel that had loaded the record.
Kept(t) ==
    /\ rec[t] # "NONE" => rec'[t] # "NONE"
    /\ rec[t] = "RELEASED" =>
          rows'[t] = rows[t] /\ (rec'[t] = "RELEASED" \/ held = t)
    /\ sched[t] = "fired" => sched'[t] = "fired"
    /\ Extends(rows[t], rows'[t])

NetTypes ==
    /\ rec \in [Topics -> {"NONE", "ACTIVE", "RELEASED", "CANCELLED"}]
    /\ sched \in [Topics -> {"none", "pending", "fired", "deleted"}]
    /\ rows \in [Topics -> Seq(Row)]
    /\ txs \in Seq(Transfer(Topics, NoTopic))

NetStep ==
    /\ NetTypes'
    /\ \A t \in Topics : Kept(t) /\ TopicInv(t)'
    /\ Extends(txs, txs')
    /\ KnownInv'

LEMMA NetTyped == WInv => NetTypes
<1> QED
  BY DEF WInv, TypeOK, WatchTypes, NetTypes

LEMMA SeqExtends ==
    ASSUME NEW S, NEW s \in Seq(S)
    PROVE  Len(s) \in Nat /\ DOMAIN s = 1..Len(s) /\ Extends(s, s)
<1> QED
  BY LenProperties DEF Extends

\* A message is added to a topic.
LEMMA RowAdded ==
    ASSUME NetTypes, NEW t \in Topics, NEW e \in Row,
           rows' = [rows EXCEPT ![t] = Append(@, e)]
    PROVE  /\ rows' \in [Topics -> Seq(Row)]
           /\ \A u \in Topics : u # t => rows'[u] = rows[u]
           /\ Extends(rows[t], rows'[t])
           /\ rows'[t] # <<>>
           /\ Has(rows'[t], e)
           /\ \A x : Has(rows'[t], x) => Has(rows[t], x) \/ x = e
           /\ \A x : Has(rows[t], x) => Has(rows'[t], x)
<1> DEFINE s == rows[t]
           u == Append(s, e)
<1>1. s \in Seq(Row) /\ Len(s) \in Nat /\ DOMAIN s = 1..Len(s)
  BY LenProperties DEF NetTypes
<1>2. /\ u \in Seq(Row) /\ Len(u) = Len(s) + 1
      /\ u[Len(s) + 1] = e /\ \A i \in 1..Len(s) : u[i] = s[i]
      /\ DOMAIN u = 1..Len(s) + 1
  BY <1>1, AppendProperties, LenProperties
<1>3. rows' = [rows EXCEPT ![t] = u] /\ rows'[t] = u
  BY DEF NetTypes
<1>4. rows' \in [Topics -> Seq(Row)] /\ \A v \in Topics : v # t => rows'[v] = rows[v]
  BY <1>2, <1>3 DEF NetTypes
<1> HIDE DEF s, u
<1>5. Extends(s, u) /\ u # <<>>
  BY <1>1, <1>2, EmptySeq DEF Extends
<1>6. /\ Has(u, e)
      /\ \A x : Has(u, x) => Has(s, x) \/ x = e
      /\ \A x : Has(s, x) => Has(u, x)
  BY <1>1, <1>2 DEF Has
<1> QED
  BY <1>3, <1>4, <1>5, <1>6 DEF s

\* A step on one topic.
LEMMA OneTopic ==
    ASSUME WInv, NEW t \in Topics, NetTypes', UNCHANGED txs,
           \A u \in Topics : u # t =>
               rec'[u] = rec[u] /\ sched'[u] = sched[u] /\ rows'[u] = rows[u],
           Kept(t), TopicInv(t)'
    PROVE  NetStep
<1>1. NetTypes
  BY NetTyped
<1>2. ASSUME NEW u \in Topics, u # t
      PROVE  Kept(u) /\ TopicInv(u)'
  <2>1. Extends(rows[u], rows[u])
    BY <1>1, SeqExtends DEF NetTypes
  <2>2. TopicInv(u)
    BY DEF WInv
  <2>3. TopicInv(u)'
    BY <1>2, <2>2 DEF TopicInv, OnChain
  <2> QED
    BY <1>2, <2>1, <2>3 DEF Kept
<1>3. \A u \in Topics : Kept(u) /\ TopicInv(u)'
  BY <1>2
<1>4. Extends(txs, txs')
  BY <1>1, SeqExtends DEF NetTypes
<1>5. KnownInv'
  BY <1>3 DEF WInv, KnownInv, Kept
<1> QED
  BY <1>3, <1>4, <1>5 DEF NetStep

LEMMA SameNet == WInv /\ UNCHANGED netVars => NetStep
<1> SUFFICES ASSUME WInv, UNCHANGED netVars PROVE NetStep
  OBVIOUS
<1>1. NetTypes /\ NetTypes'
  BY NetTyped DEF NetTypes, netVars
<1>2. ASSUME NEW t \in Topics PROVE Kept(t) /\ TopicInv(t)'
  <2>1. Extends(rows[t], rows[t])
    BY <1>1, SeqExtends DEF NetTypes
  <2>2. TopicInv(t)
    BY DEF WInv
  <2> QED
    BY <2>1, <2>2 DEF netVars, Kept, TopicInv, OnChain
<1>3. Extends(txs, txs')
  BY <1>1, SeqExtends DEF NetTypes, netVars
<1>4. KnownInv'
  BY DEF WInv, KnownInv, netVars
<1> QED
  BY <1>1, <1>2, <1>3, <1>4 DEF NetStep

LEMMA ArmNet ==
    ASSUME WInv, NEW t \in Topics, ArmSwitch(t)
    PROVE  NetStep
<1> USE DEF ArmSwitch
<1>1. NetTypes /\ rows[t] = <<>> /\ Len(rows[t]) = 0
  BY NetTyped DEF WInv, TopicInv
<1>2. <<"CHUNK", "CHUNK">> \in Seq(Row) /\ Len(<<"CHUNK", "CHUNK">>) = 2
  BY DEF Row
<1>3. NetTypes'
  BY <1>1, <1>2 DEF NetTypes
<1>4. /\ rec'[t] = "ACTIVE" /\ sched'[t] = "pending"
      /\ rows'[t] = <<"CHUNK", "CHUNK">>
  BY <1>1 DEF NetTypes
<1>5. Kept(t)
  BY <1>1, <1>2, <1>4 DEF Kept, Extends, WInv, TopicInv
<1>6. /\ ~Has(rows'[t], "RELEASE_AUTHORIZED")
      /\ ~Has(rows'[t], "CANCELLED")
  BY <1>4 DEF Has
<1>7. TopicInv(t)'
  BY <1>4, <1>6 DEF TopicInv
<1> QED
  BY <1>1, <1>3, <1>5, <1>7, OneTopic DEF NetTypes

LEMMA FireNet ==
    ASSUME WInv, NEW t \in Topics, Fire(t)
    PROVE  NetStep
<1> USE DEF Fire
<1>1. NetTypes /\ TopicInv(t)
  BY NetTyped DEF WInv
<1>2. /\ rows' \in [Topics -> Seq(Row)]
      /\ \A u \in Topics : u # t => rows'[u] = rows[u]
      /\ Extends(rows[t], rows'[t])
      /\ \A x : Has(rows'[t], x) => Has(rows[t], x) \/ x = "RELEASE_AUTHORIZED"
  BY <1>1, RowAdded DEF Row
<1>3. NetTypes' /\ sched'[t] = "fired"
  BY <1>1, <1>2 DEF NetTypes
<1>4. /\ rec[t] = "ACTIVE" /\ ~Has(rows[t], "CANCELLED")
      /\ ~Has(rows'[t], "CANCELLED")
  BY <1>1, <1>2 DEF NetTypes, TopicInv
<1>5. Kept(t) /\ TopicInv(t)'
  BY <1>2, <1>3, <1>4 DEF Kept, TopicInv
<1> QED
  BY <1>1, <1>2, <1>3, <1>5, OneTopic DEF NetTypes

LEMMA TearsNet ==
    ASSUME WInv, NEW t \in Topics, TearsDown(t), UNCHANGED txs, OnChain(t)
    PROVE  NetStep /\ Has(rows'[t], "CANCELLED")
<1> USE DEF TearsDown
<1>1. NetTypes /\ TopicInv(t)
  BY NetTyped DEF WInv
<1>2. /\ rows' \in [Topics -> Seq(Row)]
      /\ \A u \in Topics : u # t => rows'[u] = rows[u]
      /\ Extends(rows[t], rows'[t]) /\ Has(rows'[t], "CANCELLED")
      /\ \A x : Has(rows'[t], x) => Has(rows[t], x) \/ x = "CANCELLED"
  BY <1>1, RowAdded DEF Row
<1>3. NetTypes' /\ sched'[t] = "deleted" /\ rec'[t] = "CANCELLED"
  BY <1>1, <1>2 DEF NetTypes
<1>4. /\ rec[t] # "RELEASED" /\ ~Has(rows[t], "RELEASE_AUTHORIZED")
      /\ sched[t] # "fired"
  BY <1>1 DEF TopicInv
<1>5. Kept(t) /\ TopicInv(t)'
  BY <1>2, <1>3, <1>4 DEF Kept, TopicInv, OnChain
<1> QED
  BY <1>1, <1>2, <1>3, <1>5, OneTopic DEF NetTypes

LEMMA StopsNet ==
    ASSUME WInv, NEW t \in Topics, StopsHalfway(t), UNCHANGED txs, OnChain(t)
    PROVE  NetStep
<1> USE DEF StopsHalfway
<1>1. NetTypes /\ TopicInv(t)
  BY NetTyped DEF WInv
<1>2. CASE UNCHANGED <<sched, rows>>
  BY <1>2, SameNet DEF netVars
<1>3. CASE /\ sched[t] = "pending"
           /\ sched' = [sched EXCEPT ![t] = "deleted"]
           /\ rows' \in {rows, [rows EXCEPT ![t] = Append(@, "CANCELLED")]}
  <2>1. /\ rows' \in [Topics -> Seq(Row)]
        /\ \A u \in Topics : u # t => rows'[u] = rows[u]
        /\ Extends(rows[t], rows'[t])
        /\ \A x : Has(rows'[t], x) => Has(rows[t], x) \/ x = "CANCELLED"
    <3>1. CASE rows' = rows
      <4>1. Extends(rows[t], rows[t])
        BY <1>1, SeqExtends DEF NetTypes
      <4> QED
        BY <1>1, <3>1, <4>1 DEF NetTypes
    <3>2. CASE rows' = [rows EXCEPT ![t] = Append(@, "CANCELLED")]
      BY <1>1, <3>2, RowAdded DEF Row
    <3> QED
      BY <1>3, <3>1, <3>2
  <2>2. NetTypes' /\ sched'[t] = "deleted"
    BY <1>1, <1>3, <2>1 DEF NetTypes
  <2>3. /\ rec[t] = "ACTIVE" /\ rec' = rec
        /\ sched[t] # "fired" /\ ~Has(rows[t], "RELEASE_AUTHORIZED")
    BY <1>1, <1>3 DEF NetTypes, TopicInv
  <2>4. Kept(t) /\ TopicInv(t)'
    BY <2>1, <2>2, <2>3 DEF Kept, TopicInv, OnChain
  <2> QED
    BY <1>1, <1>3, <2>1, <2>2, <2>4, OneTopic DEF NetTypes
<1> QED
  BY <1>2, <1>3

\* A record loaded before is saved as it was, over one that is not RELEASED
\* unless a web cancel saves it.
LEMMA SavesNet ==
    ASSUME WInv, NEW t \in Topics, SavesBack(t), UNCHANGED txs, rec[t] # "NONE",
           rec[t] # "RELEASED" \/ held = t
    PROVE  NetStep
<1> USE DEF SavesBack
<1>1. NetTypes /\ TopicInv(t)
  BY NetTyped DEF WInv
<1>2. NetTypes' /\ rec'[t] = "ACTIVE" /\ \A u \in Topics : u # t => rec'[u] = rec[u]
  BY <1>1 DEF NetTypes
<1>3. Extends(rows[t], rows[t])
  BY <1>1, SeqExtends DEF NetTypes
<1>4. Kept(t) /\ TopicInv(t)'
  BY <1>1, <1>2, <1>3 DEF Kept, TopicInv, OnChain
<1> QED
  BY <1>2, <1>4, OneTopic

\* A reaction, whole or up to its bulletin.
LEMMA ReactNet ==
    ASSUME WInv, NEW t \in Topics, UNCHANGED <<sched, txs>>,
           Has(rows[t], "RELEASE_AUTHORIZED"), rec[t] # "RELEASED",
           rows' = [rows EXCEPT ![t] = Append(@, "BULLETIN")],
           rec' \in {rec, [rec EXCEPT ![t] = "RELEASED"]}
    PROVE  NetStep /\ Has(rows'[t], "BULLETIN")
<1>1. NetTypes /\ TopicInv(t)
  BY NetTyped DEF WInv
<1>2. /\ rows' \in [Topics -> Seq(Row)]
      /\ \A u \in Topics : u # t => rows'[u] = rows[u]
      /\ Extends(rows[t], rows'[t])
      /\ Has(rows'[t], "BULLETIN")
      /\ \A x : Has(rows'[t], x) => Has(rows[t], x) \/ x = "BULLETIN"
  BY <1>1, RowAdded DEF Row
<1>3. /\ NetTypes' /\ \A u \in Topics : u # t => rec'[u] = rec[u]
      /\ rec'[t] \in {rec[t], "RELEASED"}
  BY <1>1, <1>2 DEF NetTypes
<1>4. /\ sched[t] = "fired" /\ sched' = sched
      /\ rec[t] = "ACTIVE" /\ ~Has(rows'[t], "CANCELLED")
  BY <1>1, <1>2 DEF NetTypes, TopicInv
<1>5. Kept(t) /\ TopicInv(t)'
  BY <1>2, <1>3, <1>4 DEF Kept, TopicInv
<1> QED
  BY <1>2, <1>3, <1>5, OneTopic

\* The record of a release that was answered is saved as it was loaded.
LEMMA KeepNet ==
    ASSUME WInv, NEW t \in Topics, UNCHANGED <<sched, txs, rows>>,
           Has(rows[t], "RELEASE_AUTHORIZED"), Has(rows[t], "BULLETIN"),
           rec' = [rec EXCEPT ![t] = "RELEASED"]
    PROVE  NetStep
<1>1. NetTypes /\ TopicInv(t)
  BY NetTyped DEF WInv
<1>2. NetTypes' /\ rec'[t] = "RELEASED" /\ \A u \in Topics : u # t => rec'[u] = rec[u]
  BY <1>1 DEF NetTypes
<1>3. Extends(rows[t], rows[t])
  BY <1>1, SeqExtends DEF NetTypes
<1>4. Kept(t) /\ TopicInv(t)'
  BY <1>1, <1>2, <1>3 DEF Kept, TopicInv, OnChain
<1> QED
  BY <1>2, <1>4, OneTopic

LEMMA TxNet ==
    ASSUME WInv, NEW tx \in Transfer(Topics, NoTopic), Puts(tx),
           tx.topic \in Topics => rec[tx.topic] # "NONE",
           UNCHANGED <<rec, sched, rows>>
    PROVE  NetStep /\ Len(txs') = Len(txs) + 1 /\ txs'[Len(txs) + 1] = tx
<1>1. NetTypes /\ Len(txs) \in Nat
  BY NetTyped, LenProperties DEF NetTypes
<1>2. /\ txs' \in Seq(Transfer(Topics, NoTopic)) /\ Len(txs') = Len(txs) + 1
      /\ txs'[Len(txs) + 1] = tx /\ \A i \in 1..Len(txs) : txs'[i] = txs[i]
  BY <1>1, AppendProperties DEF NetTypes, Puts
<1>3. NetTypes' /\ Extends(txs, txs')
  BY <1>1, <1>2 DEF NetTypes, Extends
<1>4. ASSUME NEW t \in Topics PROVE Kept(t) /\ TopicInv(t)'
  <2>1. Extends(rows[t], rows[t])
    BY <1>1, SeqExtends DEF NetTypes
  <2>2. OnChain(t) => OnChain(t)'
    <3>1. DOMAIN txs = 1..Len(txs) /\ DOMAIN txs' = 1..Len(txs) + 1
      BY <1>1, <1>2, LenProperties DEF NetTypes
    <3> QED
      BY <1>1, <1>2, <3>1 DEF OnChain, Carries
  <2>3. TopicInv(t)
    BY DEF WInv
  <2> QED
    BY <2>1, <2>2, <2>3 DEF Kept, TopicInv
<1>5. KnownInv'
  <2>1. \A i \in 1..Len(txs') : i \in 1..Len(txs) \/ i = Len(txs) + 1
    BY <1>1, <1>2
  <2> QED
    BY <1>2, <2>1 DEF WInv, KnownInv
<1> QED
  BY <1>2, <1>3, <1>4, <1>5 DEF NetStep

-----------------------------------------------------------------------------
(* Pages.                                                                   *)

LEMMA PageIs ==
    ASSUME NEW visible \in Nat, NEW after \in 0..visible
    PROVE  /\ Page(visible, after) \in Seq(Nat)
           /\ From(Page(visible, after), after, visible)
<1> DEFINE rest == visible - after
           k == IF rest < PageLimit THEN rest ELSE PageLimit
<1>1. k \in Nat /\ k <= rest
  OBVIOUS
<1>2. Page(visible, after) = [i \in 1..k |-> after + i]
  BY DEF Page
<1> HIDE DEF k
<1>3. [i \in 1..k |-> after + i] \in Seq(Nat) /\ Len([i \in 1..k |-> after + i]) = k
  BY <1>1
<1> QED
  BY <1>1, <1>2, <1>3 DEF From

\* The rest of a page comes after its head.
LEMMA RestIs ==
    ASSUME NEW s \in Seq(Nat), s # <<>>, NEW k \in Nat, NEW m \in Nat,
           From(s, k, m)
    PROVE  /\ Head(s) = k + 1 /\ k + 1 <= m
           /\ Tail(s) \in Seq(Nat)
           /\ From(Tail(s), k + 1, m)
<1>1. Len(s) \in Nat /\ Len(s) # 0
  BY LenProperties, EmptySeq
<1>2. Head(s) = s[1] /\ 1 \in 1..Len(s)
  BY <1>1
<1>3. /\ Tail(s) \in Seq(Nat) /\ Len(Tail(s)) = Len(s) - 1
      /\ \A i \in 1..Len(s) - 1 : Tail(s)[i] = s[i + 1]
  BY <1>1, HeadTailProperties
<1>4. From(Tail(s), k + 1, m)
  <2> SUFFICES ASSUME NEW i \in 1..Len(s) - 1
               PROVE  s[i + 1] = (k + 1) + i /\ s[i + 1] <= m
    BY <1>3 DEF From
  <2>1. i + 1 \in 1..Len(s)
    BY <1>1
  <2> QED
    BY <2>1 DEF From
<1> QED
  BY <1>2, <1>3, <1>4 DEF From

\* A page that was fetched stays right as its list grows.
LEMMA FromGrows ==
    ASSUME NEW s, NEW k, NEW m \in Nat, NEW n \in Nat, m <= n, k \in Nat,
           From(s, k, m)
    PROVE  From(s, k, n)
<1> QED
  BY DEF From

-----------------------------------------------------------------------------
(* What the cursors have passed.                                            *)

\* The cancel of a switch was announced, or came too late.
Over(t) == Has(rows[t], "CANCELLED") \/ sched[t] = "fired"

\* Of one topic, and of the transfers.
MessagesAnswered ==
    \A t \in Topics : \A n \in 1..cursor[t] :
        rows[t][n] = "RELEASE_AUTHORIZED" => Has(rows[t], "BULLETIN")

TransfersAnswered ==
    \A i \in 1..txCursor \ lost, t \in Topics :
        Confirms(txs[i], t) => Over(t)

LEMMA Skipped == MessagesAnswered' /\ TransfersAnswered' => NothingIsSkipped'
<1> QED
  BY DEF NothingIsSkipped, MessagesAnswered, TransfersAnswered, Over

LEMMA Counted ==
    ASSUME WInv
    PROVE  /\ txCursor \in Nat /\ txCursor <= Len(txs) /\ Len(txs) \in Nat
           /\ \A t \in Topics : /\ cursor[t] \in Nat /\ Len(rows[t]) \in Nat
                                /\ cursor[t] <= Len(rows[t])
<1>1. NetTypes
  BY NetTyped
<1>2. Len(txs) \in Nat /\ \A t \in Topics : Len(rows[t]) \in Nat
  BY <1>1, LenProperties DEF NetTypes
<1> QED
  BY <1>2 DEF WInv, TypeOK, WatchTypes

LEMMA StillHas ==
    ASSUME WInv, NetStep, NEW t \in Topics, NEW e, Has(rows[t], e)
    PROVE  Has(rows'[t], e)
<1>1. NetTypes /\ NetTypes' /\ Extends(rows[t], rows'[t])
  BY NetTyped DEF NetStep, Kept
<1>2. /\ DOMAIN rows[t] = 1..Len(rows[t]) /\ Len(rows[t]) \in Nat
      /\ DOMAIN rows'[t] = 1..Len(rows'[t]) /\ Len(rows'[t]) \in Nat
  BY <1>1, LenProperties DEF NetTypes
<1>3. PICK i \in 1..Len(rows[t]) : rows[t][i] = e
  BY <1>2 DEF Has
<1>4. i \in 1..Len(rows'[t]) /\ rows'[t][i] = e
  BY <1>1, <1>2, <1>3 DEF Extends
<1> QED
  BY <1>2, <1>4 DEF Has

LEMMA MessagesKept ==
    ASSUME WInv, NetStep, UNCHANGED cursor
    PROVE  MessagesAnswered'
<1> SUFFICES ASSUME NEW t \in Topics, NEW n \in 1..cursor[t],
                    rows'[t][n] = "RELEASE_AUTHORIZED"
             PROVE  Has(rows'[t], "BULLETIN")
  BY DEF MessagesAnswered
<1>1. n \in 1..Len(rows[t]) /\ Extends(rows[t], rows'[t])
  BY Counted DEF NetStep, Kept
<1>2. rows[t][n] = "RELEASE_AUTHORIZED"
  BY <1>1 DEF Extends
<1>3. Has(rows[t], "BULLETIN")
  BY <1>2 DEF WInv, NothingIsSkipped
<1> QED
  BY <1>3, StillHas

\* A switch that is over stays so.
LEMMA AnsweredStays ==
    ASSUME WInv, NetStep, NEW i \in 1..Len(txs), NEW t \in Topics,
           Confirms(txs[i], t) => Over(t), Confirms(txs'[i], t)
    PROVE  Over(t)'
<1>1. txs'[i] = txs[i]
  BY DEF NetStep, Extends
<1>2. CASE Has(rows[t], "CANCELLED")
  BY <1>2, StillHas DEF Over
<1>3. CASE sched[t] = "fired"
  BY <1>3 DEF NetStep, Kept, Over
<1> QED
  BY <1>1, <1>2, <1>3 DEF Over

LEMMA TransfersKept ==
    ASSUME WInv, NetStep, UNCHANGED txCursor, lost \subseteq lost'
    PROVE  TransfersAnswered'
<1> SUFFICES ASSUME NEW i \in 1..txCursor, i \notin lost', NEW t \in Topics,
                    Confirms(txs'[i], t)
             PROVE  Over(t)'
  BY DEF TransfersAnswered
<1>1. i \in 1..Len(txs) /\ i \in 1..txCursor \ lost
  BY Counted
<1>2. Confirms(txs[i], t) => Over(t)
  BY <1>1 DEF WInv, NothingIsSkipped, Over
<1> QED
  BY <1>1, <1>2, AnsweredStays

-----------------------------------------------------------------------------
(* The state of the pass.                                                   *)

PassInv == WatchTypes /\ PageInv /\ ReactInv /\ AtHandInv /\ NothingIsSkipped

Faulty == faults' \in 0..MaxFaults

LEMMA FaultTyped == WInv /\ (Healthy \/ Fault) => Faulty
<1> QED
  BY DEF WInv, TypeOK, WatchTypes, Healthy, Fault, Faulty

LEMMA Grown ==
    ASSUME WInv, NetStep
    PROVE  /\ NetTypes'
           /\ Len(txs') \in Nat /\ Len(txs) <= Len(txs')
           /\ \A i \in 1..Len(txs) : txs'[i] = txs[i]
           /\ \A t \in Topics : /\ Len(rows'[t]) \in Nat
                                /\ Len(rows[t]) <= Len(rows'[t])
<1>1. NetTypes'
  BY DEF NetStep
<1> QED
  BY <1>1, LenProperties DEF NetTypes, NetStep, Extends, Kept

\* The transfer at hand is the one after the cursor.
LEMMA AtHand ==
    ASSUME WInv, at \in {"transfers", "verify", "teardown"}
    PROVE  /\ txCursor + 1 \in 1..Len(txs) /\ Head(page) = txCursor + 1
           /\ Tail(page) \in Seq(Nat)
           /\ From(Tail(page), txCursor + 1, Len(txs))
<1>1. page \in Seq(Nat) /\ page # <<>> /\ From(page, txCursor, Len(txs))
  BY DEF WInv, TypeOK, WatchTypes, PageInv
<1>2. txCursor \in Nat /\ Len(txs) \in Nat
  BY Counted
<1> QED
  BY <1>1, <1>2, RestIs

\* A message at hand is one of its topic.
LEMMA AtMessage ==
    ASSUME WInv, at \in {"poll", "react", "keep"}, page # <<>> \/ at # "poll"
    PROVE  /\ polled \in Topics
           /\ Head(page) = cursor[polled] + 1
           /\ cursor[polled] + 1 \in 1..Len(rows[polled])
           /\ Tail(page) \in Seq(Nat)
           /\ From(Tail(page), cursor[polled] + 1, Len(rows[polled]))
           /\ \A e : rows[polled][Head(page)] = e => Has(rows[polled], e)
<1>1. /\ page \in Seq(Nat) /\ page # <<>> /\ polled \in Topics
      /\ From(page, cursor[polled], Len(rows[polled]))
  BY DEF WInv, TypeOK, WatchTypes, PageInv
<1>2. cursor[polled] \in Nat /\ Len(rows[polled]) \in Nat
  BY <1>1, Counted
<1>3. /\ Head(page) = cursor[polled] + 1
      /\ cursor[polled] + 1 <= Len(rows[polled])
      /\ Tail(page) \in Seq(Nat)
      /\ From(Tail(page), cursor[polled] + 1, Len(rows[polled]))
  BY <1>1, <1>2, RestIs
<1>4. DOMAIN rows[polled] = 1..Len(rows[polled])
  BY <1>1, NetTyped, LenProperties DEF NetTypes
<1> QED
  BY <1>1, <1>2, <1>3, <1>4 DEF Has

\* The others release no switch.
NoneReleased == \A t \in Topics : rec'[t] = "RELEASED" => rec[t] = "RELEASED"

LEMMA PassKept ==
    ASSUME WInv, NetStep, UNCHANGED passVars, held' \in Topics \cup {NoTopic},
           NoneReleased, Faulty
    PROVE  PassInv'
<1> USE DEF passVars
<1>1. WatchTypes'
  <2>1. lost \subseteq 1..Len(txs') /\ txCursor \in 0..Len(txs')
    BY Grown, Counted DEF WInv, TypeOK, WatchTypes
  <2>2. \A t \in Topics : cursor[t] <= Len(rows'[t])
    BY Grown, Counted
  <2> QED
    BY <2>1, <2>2, Grown DEF WInv, TypeOK, WatchTypes, NetTypes, Faulty
<1>2. PageInv'
  <2>1. ASSUME at \in {"poll", "react", "keep"}, page # <<>>
        PROVE  polled \in Topics /\ From(page, cursor[polled], Len(rows'[polled]))
    BY <2>1, Grown, Counted, FromGrows DEF WInv, PageInv
  <2>2. ASSUME at \in {"transfers", "verify", "teardown"}
        PROVE  page # <<>> /\ From(page, txCursor, Len(txs'))
    BY <2>2, Grown, Counted, FromGrows DEF WInv, PageInv
  <2> QED
    BY <2>1, <2>2 DEF WInv, PageInv
<1>3. AtHandInv'
  <2>1. at \in {"verify", "teardown"} => txs'[txCursor + 1] = txs[txCursor + 1]
    BY AtHand, Grown
  <2> QED
    BY <2>1 DEF WInv, AtHandInv, NoneReleased
<1>4. ReactInv'
  <2> SUFFICES ASSUME at \in {"react", "keep"} PROVE ReactInv'
    BY DEF ReactInv
  <2>1. polled \in Topics /\ cursor[polled] + 1 \in 1..Len(rows[polled])
    BY AtMessage
  <2>2. rows'[polled][cursor[polled] + 1] = rows[polled][cursor[polled] + 1]
    BY <2>1 DEF NetStep, Kept, Extends
  <2>3. Has(rows[polled], "BULLETIN") => Has(rows'[polled], "BULLETIN")
    BY <2>1, StillHas
  <2> QED
    BY <2>1, <2>2, <2>3 DEF WInv, ReactInv, NoneReleased
<1>5. NothingIsSkipped'
  BY MessagesKept, TransfersKept, Skipped
<1> QED
  BY <1>1, <1>2, <1>3, <1>4, <1>5 DEF PassInv

\* The transfer at hand is done with.
LEMMA PastStep ==
    ASSUME WInv, NetStep, at \in {"transfers", "verify", "teardown"}, Past,
           UNCHANGED <<todo, polled, cursor, held>>, Faulty,
           lost \subseteq lost', lost' \subseteq 1..Len(txs),
           txCursor + 1 \notin lost' =>
              \A t \in Topics :
                 Confirms(txs[txCursor + 1], t) => Over(t)'
    PROVE  PassInv'
<1>1. /\ txCursor + 1 \in 1..Len(txs) /\ txCursor' = txCursor + 1
      /\ page' = Tail(page) /\ page' \in Seq(Nat)
      /\ From(page', txCursor', Len(txs))
      /\ at' = IF page' = <<>> THEN "idle" ELSE "transfers"
      /\ tries' = 0
  BY AtHand DEF Past, Reached
<1>2. WatchTypes'
  <2>1. lost' \subseteq 1..Len(txs') /\ txCursor' \in 0..Len(txs')
    BY <1>1, Grown, Counted
  <2>2. \A t \in Topics : cursor'[t] <= Len(rows'[t])
    BY Grown, Counted
  <2>3. cursor' \in [Topics -> Nat] /\ todo' \subseteq Topics
        /\ polled' \in Topics \cup {NoTopic} /\ tries' \in 0..Attempts - 1
        /\ held' \in Topics \cup {NoTopic}
    BY <1>1 DEF WInv, TypeOK, WatchTypes
  <2> QED
    BY <1>1, <2>1, <2>2, <2>3, Grown DEF WatchTypes, NetTypes, Faulty
<1>3. PageInv' /\ ReactInv' /\ AtHandInv'
  <2>1. From(page', txCursor', Len(txs'))
    BY <1>1, Grown, Counted, FromGrows
  <2> QED
    BY <1>1, <2>1 DEF PageInv, ReactInv, AtHandInv
<1>4. TransfersAnswered'
  <2> SUFFICES ASSUME NEW i \in 1..txCursor', i \notin lost', NEW t \in Topics,
                      Confirms(txs'[i], t)
               PROVE  Over(t)'
    BY DEF TransfersAnswered
  <2>1. i \in 1..Len(txs) /\ txs'[i] = txs[i]
    BY <1>1, Grown, Counted
  <2>2. CASE i = txCursor + 1
    BY <2>1, <2>2
  <2>3. CASE i # txCursor + 1
    <3>1. i \in 1..txCursor \ lost
      BY <1>1, <2>3, Counted
    <3>2. Confirms(txs[i], t) => Over(t)
      BY <3>1 DEF WInv, NothingIsSkipped, Over
    <3> QED
      BY <2>1, <3>2, AnsweredStays
  <2> QED
    BY <2>2, <2>3
<1> QED
  BY <1>2, <1>3, <1>4, MessagesKept, Skipped DEF PassInv

\* The pass ends, or begins, with nothing at hand.
LEMMA RestStep ==
    ASSUME WInv, NetStep, Faulty, at' \in {"idle", "poll"},
           page' = <<>>, todo' \subseteq Topics,
           polled' \in Topics \cup {NoTopic}, tries' \in 0..Attempts - 1,
           UNCHANGED <<cursor, txCursor, lost, held>>
    PROVE  PassInv'
<1>1. WatchTypes'
  <2>1. lost' \subseteq 1..Len(txs') /\ txCursor' \in 0..Len(txs')
    BY Grown, Counted DEF WInv, TypeOK, WatchTypes
  <2>2. \A t \in Topics : cursor'[t] <= Len(rows'[t])
    BY Grown, Counted
  <2>3. /\ page' \in Seq(Nat) /\ cursor' \in [Topics -> Nat]
        /\ held' \in Topics \cup {NoTopic}
    BY DEF WInv, TypeOK, WatchTypes
  <2> QED
    BY <2>1, <2>2, <2>3, Grown DEF WatchTypes, NetTypes, Faulty
<1>2. PageInv' /\ ReactInv' /\ AtHandInv'
  BY DEF PageInv, ReactInv, AtHandInv
<1> QED
  BY <1>1, <1>2, MessagesKept, TransfersKept, Skipped DEF PassInv

-----------------------------------------------------------------------------
(* What each step does to the network.                                      *)

LEMMA ConfirmedIsOnChain ==
    ASSUME WInv, NEW t \in Topics, NEW i \in 1..Len(txs), Carries(txs[i], t)
    PROVE  OnChain(t)
<1>1. DOMAIN txs = 1..Len(txs)
  BY NetTyped, LenProperties DEF NetTypes
<1> QED
  BY <1>1 DEF OnChain

LEMMA WorldNet == WInv /\ World => NetStep /\ NoneReleased /\ HeldInv'
<1> SUFFICES ASSUME WInv, World PROVE NetStep /\ NoneReleased /\ HeldInv'
  OBVIOUS
<1>1. NetTypes /\ HeldInv
  BY NetTyped DEF WInv
<1>2. ASSUME NEW t \in Topics, ArmSwitch(t)
      PROVE  NetStep /\ NoneReleased /\ held' = held
  <2>1. NoneReleased
    BY <1>1, <1>2 DEF ArmSwitch, NoneReleased, NetTypes
  <2> QED
    BY <1>2, <2>1, ArmNet DEF ArmSwitch
<1>3. ASSUME NEW t \in Topics, Fire(t)
      PROVE  NetStep /\ NoneReleased /\ held' = held
  BY <1>3, FireNet DEF Fire, NoneReleased
<1>4. ASSUME NEW t \in Posted, WebLoads(t)
      PROVE  NetStep /\ NoneReleased /\ held' = t /\ rec[t] # "NONE"
  BY <1>4, SameNet DEF WebLoads, NoneReleased, netVars
<1>5. CASE WebEnds
  <2> USE <1>5 DEF WebEnds
  <2>1. held \in Topics /\ rec[held] # "NONE" /\ UNCHANGED txs
    BY <1>1 DEF HeldInv, WInv, TypeOK, WatchTypes
  <2>2. ASSUME SavesBack(held) PROVE NetStep /\ NoneReleased
    <3>1. NoneReleased
      BY <1>1, <2>1, <2>2 DEF SavesBack, NoneReleased, NetTypes
    <3> QED
      BY <2>1, <2>2, <3>1, SavesNet
  <2>3. ASSUME ~SavesBack(held) PROVE NetStep /\ NoneReleased
    <3>1. /\ OnChain(held)
          /\ TearsDown(held) \/ StopsHalfway(held)
      BY <2>3 DEF OnChain
    <3>2. NoneReleased
      BY <1>1, <2>1, <3>1 DEF TearsDown, StopsHalfway, NoneReleased, NetTypes
    <3> QED
      BY <2>1, <3>1, <3>2, TearsNet, StopsNet
  <2>4. NetStep /\ NoneReleased /\ held' = NoTopic
    BY <2>2, <2>3
  <2> QED
    BY <2>4 DEF HeldInv
<1>6. \/ \E t \in Topics : ArmSwitch(t) \/ Fire(t)
      \/ \E t \in Posted : WebLoads(t)
      \/ WebEnds
  BY DEF World
<1>7. ASSUME NetStep, NoneReleased, held' = held PROVE HeldInv'
  BY <1>1, <1>7 DEF HeldInv, NetStep, Kept
<1>8. ASSUME NEW t \in Posted, NetStep, held' = t, rec[t] # "NONE" PROVE HeldInv'
  BY <1>8 DEF HeldInv, NetStep, Kept
<1> QED
  BY <1>2, <1>3, <1>4, <1>5, <1>6, <1>7, <1>8

\* A step that leaves held alone.
LEMMA HeldKept == WInv /\ NetStep /\ held' = held => HeldInv'
<1> QED
  BY DEF WInv, HeldInv, NetStep, Kept

\* What is at hand of a topic in a reaction.
LEMMA AtReaction ==
    ASSUME WInv, at \in {"react", "keep"}
    PROVE  /\ polled \in Topics /\ Has(rows[polled], "RELEASE_AUTHORIZED")
           /\ at = "react" => rec[polled] # "RELEASED"
           /\ at = "keep" => Has(rows[polled], "BULLETIN")
<1>1. /\ polled \in Topics /\ Head(page) = cursor[polled] + 1
      /\ \A e : rows[polled][Head(page)] = e => Has(rows[polled], e)
  BY AtMessage
<1> QED
  BY <1>1 DEF WInv, ReactInv

LEMMA PassNet == WInv /\ (PassStep \/ PassFails) => NetStep
<1> SUFFICES ASSUME WInv, PassStep \/ PassFails PROVE NetStep
  OBVIOUS
<1>1. CASE UNCHANGED netVars
  BY <1>1, SameNet
<1>2. CASE React
  BY <1>2, AtReaction, ReactNet, KeepNet DEF React, Announce
<1>3. CASE ReactionThrows
  <2> USE <1>3 DEF ReactionThrows
  <2>1. CASE UNCHANGED rows
    BY <2>1, SameNet DEF netVars
  <2>2. CASE at = "react" /\ Announce
    BY <2>2, AtReaction, ReactNet DEF Announce
  <2> QED
    BY <2>1, <2>2
<1>4. CASE Verify
  <2> USE <1>4 DEF Verify
  <2> DEFINE t == txs[Head(page)].topic
  <2>1. t \in Topics /\ rec[t] # "RELEASED" /\ rec[t] # "NONE"
    <3>1. Head(page) \in 1..Len(txs) /\ t \in Topics /\ rec[t] # "RELEASED"
      BY AtHand DEF WInv, AtHandInv
    <3> QED
      BY <3>1 DEF WInv, KnownInv
  <2>2. UNCHANGED txs /\ (UNCHANGED netVars \/ SavesBack(t))
    BY DEF netVars
  <2> QED
    BY <2>1, <2>2, SameNet, SavesNet
<1>5. CASE Teardown
  <2> USE <1>5 DEF Teardown
  <2> DEFINE t == txs[Head(page)].topic
  <2>1. t \in Topics /\ OnChain(t)
    <3>1. /\ Head(page) \in 1..Len(txs) /\ t \in Topics
          /\ Carries(txs[Head(page)], t)
      BY AtHand DEF WInv, AtHandInv, Confirms
    <3> QED
      BY <3>1, ConfirmedIsOnChain
  <2> QED
    BY <2>1, TearsNet, StopsNet
<1>6. UNCHANGED netVars \/ React \/ ReactionThrows \/ Verify \/ Teardown
  BY DEF PassStep, PassFails, Tick, FetchMessages, FetchTransfers,
         HandleMessage, InspectTransfer, FetchThrows, ScanThrows, Restart
<1> QED
  BY <1>1, <1>2, <1>3, <1>4, <1>5, <1>6

\* What the ceremony of the card has put on chain, by the account it shows.
RelayedBy(who) ==
    \E i \in DOMAIN txs : Carries(txs[i], Mine) /\ txs[i].debited = (who = "armed")

LEMMA SubmitNet ==
    ASSUME WInv, Submit
    PROVE  /\ NetStep
           /\ phase' = "done" => RelayedBy(account)'
<1> USE DEF Submit
<1>0. account' = account /\ rec' = rec /\ phase = "signing"
  BY DEF SubmitAnswered, WInv, CardInv
<1>1. CASE UNCHANGED txs /\ SubmitAnswered(FALSE)
  BY <1>1, SameNet DEF netVars, SubmitAnswered, Submitted
<1>2. ASSUME NEW ok \in BOOLEAN, Puts(Relayed(ok))
      PROVE  NetStep /\ (ok => RelayedBy(account)')
  <2>1. Relayed(ok) \in Transfer(Topics, NoTopic) /\ Relayed(ok).topic = Mine
    BY DEF Relayed, Transfer
  <2>2. rec[Mine] # "NONE"
    BY <1>0 DEF WInv, CardInv
  <2>3. /\ NetStep /\ Len(txs') = Len(txs) + 1
        /\ txs'[Len(txs) + 1] = Relayed(ok)
    BY <1>2, <2>1, <2>2, TxNet
  <2>4. Len(txs) + 1 \in DOMAIN txs'
    <3>1. NetTypes'
      BY <2>3 DEF NetStep
    <3> QED
      BY <2>3, <3>1, Counted, LenProperties DEF NetTypes
  <2>5. ok => RelayedBy(account)'
    BY <1>0, <2>3, <2>4 DEF RelayedBy, Carries, Relayed
  <2> QED
    BY <2>3, <2>5
<1>3. CASE Puts(Relayed(TRUE)) /\ SubmitAnswered(TRUE)
  BY <1>2, <1>3
<1>4. CASE \E ok \in BOOLEAN : Puts(Relayed(ok)) /\ SubmitAnswered(FALSE)
  BY <1>2, <1>4 DEF SubmitAnswered, Submitted
<1> QED
  BY <1>1, <1>3, <1>4

-----------------------------------------------------------------------------
(* What each step does to the pass.                                         *)

\* The head of the page is done with.
LEMMA HandledStep ==
    ASSUME WInv, NetStep, at \in {"poll", "react", "keep"},
           page # <<>> \/ at # "poll", Handled,
           UNCHANGED <<todo, txCursor, tries, lost, held, faults>>,
           rows[polled][cursor[polled] + 1] = "RELEASE_AUTHORIZED" =>
              Has(rows'[polled], "BULLETIN")
    PROVE  PassInv'
<1> USE DEF Handled, Reached
<1> DEFINE k == cursor[polled] + 1
<1>2. /\ polled \in Topics /\ Head(page) = k /\ k \in 1..Len(rows[polled])
      /\ page' \in Seq(Nat) /\ From(page', k, Len(rows[polled]))
  BY AtMessage
<1>3. /\ cursor' = [cursor EXCEPT ![polled] = k] /\ k \in Nat
      /\ cursor \in [Topics -> Nat]
      /\ at' = "poll" /\ txCursor' = txCursor /\ lost' = lost
  <2>1. k \in Nat
    BY <1>2, Counted
  <2> QED
    BY <1>2, <2>1 DEF WInv, TypeOK, WatchTypes
<1>4. WatchTypes'
  <2>1. lost' \subseteq 1..Len(txs') /\ txCursor' \in 0..Len(txs')
    BY <1>3, Grown, Counted DEF WInv, TypeOK, WatchTypes
  <2>2. ASSUME NEW t \in Topics PROVE cursor'[t] <= Len(rows'[t])
    <3>1. /\ Len(rows[t]) \in Nat /\ Len(rows'[t]) \in Nat
          /\ Len(rows[t]) <= Len(rows'[t]) /\ cursor[t] <= Len(rows[t])
          /\ cursor[t] \in Nat
      BY Grown, Counted
    <3>2. cursor'[t] = IF t = polled THEN k ELSE cursor[t]
      BY <1>2, <1>3
    <3> QED
      BY <1>2, <1>3, <3>1, <3>2
  <2>3. /\ cursor' \in [Topics -> Nat] /\ todo' \subseteq Topics
        /\ polled' \in Topics \cup {NoTopic} /\ tries' \in 0..Attempts - 1
        /\ faults' \in 0..MaxFaults /\ held' \in Topics \cup {NoTopic}
    BY <1>2, <1>3 DEF WInv, TypeOK, WatchTypes
  <2> QED
    BY <1>2, <1>3, <2>1, <2>2, <2>3, Grown DEF WatchTypes, NetTypes
<1>5. PageInv' /\ ReactInv' /\ AtHandInv'
  <2>1. From(page', k, Len(rows'[polled]))
    BY <1>2, <1>3, Grown, Counted, FromGrows
  <2> QED
    BY <1>2, <1>3, <2>1 DEF PageInv, ReactInv, AtHandInv
<1>6. MessagesAnswered'
  <2>1. ASSUME NEW t \in Topics, NEW n \in 1..cursor[t],
               rows'[t][n] = "RELEASE_AUTHORIZED"
        PROVE  Has(rows'[t], "BULLETIN")
    <3>1. n \in 1..Len(rows[t]) /\ Extends(rows[t], rows'[t])
      BY Counted DEF NetStep, Kept
    <3>2. rows[t][n] = "RELEASE_AUTHORIZED"
      BY <2>1, <3>1 DEF Extends
    <3>3. Has(rows[t], "BULLETIN")
      BY <3>2 DEF WInv, NothingIsSkipped
    <3> QED
      BY <3>1, <3>3, StillHas
  <2>2. rows'[polled][k] = rows[polled][k]
    BY <1>2 DEF NetStep, Kept, Extends
  <2> SUFFICES ASSUME NEW t \in Topics, NEW n \in 1..cursor'[t],
                      rows'[t][n] = "RELEASE_AUTHORIZED"
               PROVE  Has(rows'[t], "BULLETIN")
    BY DEF MessagesAnswered
  <2>3. n \in 1..cursor[t] \/ (t = polled /\ n = k)
    BY <1>2, <1>3
  <2> QED
    BY <2>1, <2>2, <2>3
<1> QED
  BY <1>3, <1>4, <1>5, <1>6, TransfersKept, Skipped DEF PassInv

LEMMA HandleStep ==
    ASSUME WInv, HandleMessage
    PROVE  PassInv'
<1> USE DEF HandleMessage
<1>1. NetStep /\ UNCHANGED netVars
  BY PassNet DEF PassStep
<1>2. /\ polled \in Topics /\ Head(page) = cursor[polled] + 1
  BY AtMessage
<1>3. CASE rows[polled][Head(page)] = "RELEASE_AUTHORIZED"
  <2>1. at' \in {"react", "keep"} /\ UNCHANGED <<polled, page, cursor>>
    BY <1>3
  <2>2. WatchTypes'
    BY <1>1, <2>1 DEF WInv, TypeOK, WatchTypes, netVars
  <2>3. PageInv' /\ AtHandInv'
    BY <1>1, <2>1 DEF WInv, PageInv, AtHandInv, netVars
  <2>4. ReactInv'
    <3>1. TopicInv(polled)
      BY <1>2 DEF WInv
    <3> QED
      BY <1>1, <1>2, <1>3, <2>1, <3>1 DEF ReactInv, Answered, TopicInv, netVars
  <2> QED
    BY <1>1, <2>1, <2>2, <2>3, <2>4, MessagesKept, TransfersKept, Skipped
       DEF PassInv
<1>4. CASE rows[polled][Head(page)] # "RELEASE_AUTHORIZED"
  BY <1>1, <1>2, <1>4, HandledStep
<1> QED
  BY <1>3, <1>4

LEMMA ReactStep ==
    ASSUME WInv, React
    PROVE  PassInv'
<1> USE DEF React
<1>1. NetStep
  BY PassNet DEF PassStep
<1>2. at \in {"react", "keep"} /\ polled \in Topics
  BY AtReaction
<1>3. Has(rows'[polled], "BULLETIN")
  <2>1. CASE at = "keep"
    BY <1>2, <2>1, AtReaction
  <2>2. CASE at = "react" /\ Announce
    BY <1>2, <2>2, NetTyped, RowAdded DEF Announce, Row
  <2> QED
    BY <2>1, <2>2
<1> QED
  BY <1>1, <1>2, <1>3, HandledStep

LEMMA PollStep ==
    ASSUME WInv, \/ Tick \/ FetchThrows \/ ReactionThrows
                 \/ FetchMessages
    PROVE  PassInv'
<1>1. NetStep
  BY PassNet DEF PassStep, PassFails
<1>2. /\ todo \subseteq Topics /\ polled \in Topics \cup {NoTopic}
      /\ tries \in 0..Attempts - 1 /\ faults \in 0..MaxFaults
  BY DEF WInv, TypeOK, WatchTypes
<1>3. CASE Tick
  <2>1. page' = <<>>
    BY <1>3 DEF Tick, WInv, PageInv
  <2> QED
    BY <1>1, <1>2, <1>3, <2>1, RestStep DEF Tick, Faulty
<1>4. CASE FetchThrows
  BY <1>1, <1>2, <1>4, RestStep, FaultTyped DEF FetchThrows, EndPoll
<1>5. CASE ReactionThrows
  BY <1>1, <1>2, <1>5, RestStep, FaultTyped DEF ReactionThrows, EndPoll
<1>6. CASE FetchMessages
  <2> USE <1>6 DEF FetchMessages
  <2> DEFINE t == FirstOf(todo)
  <2>0. t \in Topics
    BY <1>2 DEF FirstOf
  <2>1. PICK last \in cursor[t]..Len(rows[t]) :
           /\ IF last = Len(rows[t]) THEN Healthy ELSE Fault
           /\ page' = Page(last, cursor[t])
    OBVIOUS
  <2> HIDE DEF t
  <2>2. /\ last \in Nat /\ last <= Len(rows[t]) /\ cursor[t] \in 0..last
        /\ Len(rows[t]) \in Nat
    BY <2>0, Counted
  <2>3. page' \in Seq(Nat) /\ From(page', cursor[t], last)
    BY <2>1, <2>2, PageIs
  <2>4. From(page', cursor[t], Len(rows[t]))
    BY <2>2, <2>3, FromGrows
  <2>5. Faulty
    BY <2>1, FaultTyped
  <2>6. CASE page' = <<>>
    BY <1>1, <1>2, <2>5, <2>6, RestStep
  <2>7. CASE page' # <<>>
    <3>1. WatchTypes'
      BY <1>2, <2>0, <2>3, <2>5, <2>7 DEF t, WInv, TypeOK, WatchTypes, netVars, Faulty
    <3>2. PageInv' /\ ReactInv' /\ AtHandInv'
      BY <2>0, <2>4, <2>7 DEF t, PageInv, ReactInv, AtHandInv, netVars
    <3> QED
      BY <1>1, <3>1, <3>2, MessagesKept, TransfersKept, Skipped DEF PassInv
  <2> QED
    BY <2>6, <2>7
<1> QED
  BY <1>3, <1>4, <1>5, <1>6

LEMMA ScanStep ==
    ASSUME WInv, \/ FetchTransfers \/ InspectTransfer \/ Verify \/ Teardown
                 \/ ScanThrows \/ Restart
    PROVE  PassInv'
<1>1. NetStep
  BY PassNet DEF PassStep, PassFails
<1>2. /\ todo \subseteq Topics /\ polled \in Topics \cup {NoTopic}
      /\ tries \in 0..Attempts - 1 /\ 0 \in 0..Attempts - 1
      /\ faults \in 0..MaxFaults /\ lost \subseteq 1..Len(txs)
  BY DEF WInv, TypeOK, WatchTypes
<1>3. CASE FetchTransfers
  <2> USE <1>3 DEF FetchTransfers
  <2>1. PICK last \in txCursor..Len(txs) :
           /\ IF last = Len(txs) THEN Healthy ELSE Fault
           /\ page' = Page(last, txCursor)
           /\ at' = IF page' = <<>> THEN "idle" ELSE "transfers"
    OBVIOUS
  <2>2. /\ last \in Nat /\ last <= Len(txs) /\ txCursor \in 0..last
        /\ Len(txs) \in Nat
    BY Counted
  <2>3. page' \in Seq(Nat) /\ From(page', txCursor, last)
    BY <2>1, <2>2, PageIs
  <2>4. From(page', txCursor, Len(txs))
    BY <2>2, <2>3, FromGrows
  <2>5. Faulty
    BY <2>1, FaultTyped
  <2>6. CASE page' = <<>>
    BY <1>1, <1>2, <2>1, <2>5, <2>6, RestStep
  <2>7. CASE page' # <<>>
    <3>1. WatchTypes'
      BY <1>2, <2>1, <2>3, <2>5, <2>7 DEF WInv, TypeOK, WatchTypes, netVars, Faulty
    <3>2. PageInv' /\ ReactInv' /\ AtHandInv'
      BY <2>1, <2>4, <2>7 DEF PageInv, ReactInv, AtHandInv, netVars
    <3> QED
      BY <1>1, <3>1, <3>2, MessagesKept, TransfersKept, Skipped DEF PassInv
  <2> QED
    BY <2>6, <2>7
<1>4. CASE InspectTransfer
  <2> USE <1>4 DEF InspectTransfer
  <2> DEFINE tx == txs[txCursor + 1]
  <2>1. Head(page) = txCursor + 1 /\ txCursor + 1 \in 1..Len(txs)
    BY AtHand
  <2>2. tx.topic \in Topics \cup {NoTopic}
    <3>1. tx \in Transfer(Topics, NoTopic)
      BY <2>1, NetTyped, ElementOfSeq DEF NetTypes
    <3> QED
      BY <3>1 DEF Transfer
  <2>3. CASE tx.success /\ tx.topic # NoTopic /\ rec[tx.topic] = "ACTIVE"
    <3>1. at' = "verify" /\ UNCHANGED <<page, txCursor, tries>>
      BY <2>1, <2>3
    <3>2. WatchTypes' /\ PageInv' /\ ReactInv'
      BY <3>1 DEF WInv, TypeOK, WatchTypes, PageInv, ReactInv, netVars
    <3>3. AtHandInv'
      BY <2>2, <2>3, <3>1 DEF AtHandInv, netVars
    <3> QED
      BY <1>1, <3>1, <3>2, <3>3, MessagesKept, TransfersKept, Skipped DEF PassInv
  <2>4. CASE ~(tx.success /\ tx.topic # NoTopic /\ rec[tx.topic] = "ACTIVE")
    <3>1. Past
      BY <2>1, <2>4
    <3>2. \A t \in Topics : Confirms(tx, t) => Over(t)'
      <4> SUFFICES ASSUME NEW t \in Topics, Confirms(tx, t) PROVE Over(t)
        BY DEF Over, netVars
      <4>1. rec[t] # "ACTIVE" /\ rec[t] # "NONE"
        BY <2>1, <2>4 DEF Confirms, Carries, WInv, KnownInv
      <4>2. TopicInv(t) /\ rec[t] \in {"NONE", "ACTIVE", "RELEASED", "CANCELLED"}
        BY NetTyped DEF WInv, NetTypes
      <4> QED
        BY <4>1, <4>2 DEF TopicInv, Over
    <3>3. Faulty
      BY <1>2 DEF Faulty
    <3> QED
      BY <1>1, <1>2, <3>1, <3>2, <3>3, PastStep
  <2> QED
    BY <2>3, <2>4
<1>5. CASE Verify
  <2> USE <1>5 DEF Verify
  <2> DEFINE tx == txs[txCursor + 1]
  <2>1. /\ Head(page) = txCursor + 1 /\ txCursor + 1 \in 1..Len(txs)
        /\ tx.topic \in Topics
    BY AtHand DEF WInv, AtHandInv
  <2>2. PICK answer \in {"row", "missing"} :
          LET v == Verdict(tx, tx.topic, answer, tries + 1)
          IN /\ IF answer = "missing" /\ tries = 0 THEN Fault ELSE Healthy
             /\ \/ /\ v = "retry" /\ tries' = tries + 1
                   /\ UNCHANGED <<at, page, txCursor, rec, sched, rows>>
                \/ /\ v = "ok" /\ at' = "teardown"
                   /\ UNCHANGED <<page, txCursor, tries, rec, sched, rows>>
                \/ v \in {"no", "missing"} /\ SavesBack(tx.topic) /\ Past
             /\ lost' = IF v = "missing" THEN lost \cup {Head(page)} ELSE lost
    BY <2>1
  <2> DEFINE v == Verdict(tx, tx.topic, answer, tries + 1)
  <2>3. /\ v = "retry" => tries + 1 < Attempts
        /\ v = "ok" => Confirms(tx, tx.topic)
        /\ v = "no" => ~Confirms(tx, tx.topic)
    BY DEF Verdict, ShouldRetry
  <2>4. Faulty
    BY <2>2, FaultTyped
  <2>5. /\ lost \subseteq lost' /\ lost' \subseteq 1..Len(txs)
        /\ v = "missing" => txCursor + 1 \in lost'
        /\ v # "missing" => lost' = lost
    BY <1>2, <2>1, <2>2
  <2> HIDE DEF v
  <2>6. CASE /\ v = "retry" /\ tries' = tries + 1
             /\ UNCHANGED <<at, page, txCursor, rec, sched, rows>>
    <3>1. tries' \in 0..Attempts - 1
      BY <1>2, <2>3, <2>6
    <3>2. WatchTypes'
      BY <2>4, <2>5, <2>6, <3>1 DEF WInv, TypeOK, WatchTypes, Faulty
    <3>3. PageInv' /\ ReactInv' /\ AtHandInv'
      BY <2>6 DEF WInv, PageInv, ReactInv, AtHandInv
    <3> QED
      BY <1>1, <2>5, <2>6, <3>2, <3>3, MessagesKept, TransfersKept, Skipped
         DEF PassInv
  <2>7. CASE /\ v = "ok" /\ at' = "teardown"
             /\ UNCHANGED <<page, txCursor, tries, rec, sched, rows>>
    <3>1. WatchTypes'
      BY <2>4, <2>5, <2>7 DEF WInv, TypeOK, WatchTypes, Faulty
    <3>2. PageInv' /\ ReactInv'
      BY <2>7 DEF WInv, PageInv, ReactInv
    <3>3. AtHandInv'
      BY <2>1, <2>3, <2>7 DEF WInv, AtHandInv
    <3> QED
      BY <1>1, <2>5, <2>7, <3>1, <3>2, <3>3, MessagesKept, TransfersKept, Skipped
         DEF PassInv
  <2>8. CASE v \in {"no", "missing"} /\ Past
    <3>1. txCursor + 1 \notin lost' =>
             \A t \in Topics : Confirms(tx, t) => Over(t)'
      <4> SUFFICES ASSUME txCursor + 1 \notin lost', NEW t \in Topics,
                          Confirms(tx, t)
                   PROVE  FALSE
        OBVIOUS
      <4>1. t = tx.topic /\ v # "missing"
        BY <2>5 DEF Confirms, Carries
      <4> QED
        BY <2>3, <2>8, <4>1
    <3> QED
      BY <1>1, <2>4, <2>5, <2>8, <3>1, PastStep
  <2> QED
    BY <2>2, <2>6, <2>7, <2>8 DEF v
<1>6. CASE Teardown
  <2> USE <1>6 DEF Teardown
  <2> DEFINE t == txs[txCursor + 1].topic
  <2>1. /\ Head(page) = txCursor + 1 /\ txCursor + 1 \in 1..Len(txs)
        /\ t \in Topics /\ Confirms(txs[txCursor + 1], t)
    BY AtHand DEF WInv, AtHandInv
  <2>2. CASE TearsDown(t) /\ Past /\ Healthy
    <3>1. Has(rows'[t], "CANCELLED")
      BY <2>1, <2>2, ConfirmedIsOnChain, TearsNet DEF Confirms
    <3>2. \A u \in Topics : Confirms(txs[txCursor + 1], u) => Over(u)'
      BY <3>1 DEF Confirms, Carries, Over
    <3> QED
      BY <1>1, <1>2, <2>2, <3>2, FaultTyped, PastStep
  <2>3. CASE StopsHalfway(t) /\ EndScan /\ UNCHANGED txCursor
    BY <1>1, <1>2, <2>3, FaultTyped, RestStep DEF EndScan, StopsHalfway
  <2> QED
    BY <2>1, <2>2, <2>3
<1>7. CASE ScanThrows
  BY <1>1, <1>2, <1>7, RestStep, FaultTyped DEF ScanThrows, EndScan
<1>8. CASE Restart
  <2> USE <1>8 DEF Restart, EndScan, SeededAt
  <2>1. Len(txs) \in Nat /\ txCursor \in Nat
    BY Counted
  <2>2. WatchTypes'
    <3>1. lost' \subseteq 1..Len(txs) /\ txCursor' \in 0..Len(txs)
      <4>1. txCursor + 1..Len(txs) \subseteq 1..Len(txs)
        BY <2>1
      <4>2. lost' = lost \cup txCursor + 1..Len(txs) /\ txCursor' = Len(txs)
        OBVIOUS
      <4>3. txCursor' \in 0..Len(txs)
        BY <2>1, <4>2
      <4>4. lost' \subseteq 1..Len(txs)
        BY <1>2, <4>1, <4>2
      <4> QED
        BY <4>3, <4>4
    <3>2. cursor' \in [Topics -> Nat] /\ \A t \in Topics : cursor'[t] <= Len(rows[t])
      BY Counted
    <3>3. faults' \in 0..MaxFaults
      BY FaultTyped DEF Faulty
    <3> QED
      BY <1>2, <3>1, <3>2, <3>3 DEF WInv, TypeOK, WatchTypes, netVars
  <2>3. PageInv' /\ ReactInv' /\ AtHandInv'
    BY DEF PageInv, ReactInv, AtHandInv
  <2>4. MessagesAnswered'
    BY DEF MessagesAnswered
  <2>5. TransfersAnswered'
    <3> SUFFICES ASSUME NEW i \in 1..Len(txs), i \notin lost', NEW t \in Topics,
                        Confirms(txs[i], t)
                 PROVE  Over(t)
      BY DEF TransfersAnswered, Over, netVars
    <3>1. i \in 1..txCursor \ lost
      BY <2>1
    <3> QED
      BY <3>1 DEF WInv, NothingIsSkipped, Over
  <2> QED
    BY <2>2, <2>3, <2>4, <2>5, Skipped DEF PassInv
<1> QED
  BY <1>3, <1>4, <1>5, <1>6, <1>7, <1>8

-----------------------------------------------------------------------------
(* The whole.                                                               *)

CardPart == CeremonyTypes /\ CardInv

LEMMA CardKept ==
    ASSUME WInv, NetStep, UNCHANGED cardVars
    PROVE  CardPart'
<1>1. NetTypes /\ NetTypes'
  BY NetTyped DEF NetStep
<1>2. /\ DOMAIN txs = 1..Len(txs) /\ Len(txs) \in Nat
      /\ DOMAIN txs' = 1..Len(txs') /\ Len(txs') \in Nat
  BY <1>1, LenProperties DEF NetTypes
<1>3. DoneIsOnChain => DoneIsOnChain'
  BY <1>2 DEF cardVars, DoneIsOnChain, NetStep, Extends, Carries
<1>4. rec[Mine] # "NONE" => rec'[Mine] # "NONE"
  BY DEF NetStep, Kept
<1> QED
  BY <1>3, <1>4 DEF CardPart, WInv, TypeOK, CeremonyTypes, CardInv, cardVars

LEMMA CardStep ==
    ASSUME WInv, Card, UNCHANGED netVars
    PROVE  CardPart'
<1>1. /\ CeremonyTypes /\ CardInv
      /\ rec'[Mine] = rec[Mine] /\ txs' = txs
  BY DEF WInv, TypeOK, netVars
<1> USE <1>1 DEF CardPart, CeremonyTypes, CardInv, DoneIsOnChain
<1>2. CASE Connect /\ rec[Mine] = "ACTIVE"
  BY <1>2 DEF Connect
<1>3. CASE Picked
  BY <1>3 DEF Picked
<1>4. CASE Identified
  BY <1>4 DEF Identified
<1>5. CASE ConnectFails
  BY <1>5 DEF ConnectFails, Released, Disconnect
<1>6. CASE Sign
  BY <1>6 DEF Sign
<1>7. CASE Approved
  BY <1>7 DEF Approved
<1>8. CASE SignFails
  BY <1>8 DEF SignFails
<1>9. CASE Unplug
  BY <1>9 DEF Unplug
<1>10. CASE Unmount
  BY <1>10 DEF Unmount, Disconnect
<1>11. CASE BehindOpens
  BY <1>11 DEF BehindOpens
<1>12. CASE BehindFails
  BY <1>12 DEF BehindFails
<1> QED
  BY <1>2, <1>3, <1>4, <1>5, <1>6, <1>7, <1>8, <1>9, <1>10, <1>11, <1>12
     DEF Card

LEMMA SubmitCard ==
    ASSUME WInv, Submit
    PROVE  CardPart'
<1>1. /\ phase' \in {"done", "identified"} /\ waits' = "-"
      /\ UNCHANGED <<session, account, behind, sessions>>
      /\ phase = "signing" /\ rec' = rec
  BY DEF Submit, SubmitAnswered, Submitted, WInv, CardInv
<1>2. phase' = "done" => RelayedBy(account)'
  BY SubmitNet
<1>3. DoneIsOnChain'
  BY <1>2 DEF DoneIsOnChain, RelayedBy
<1> QED
  BY <1>1, <1>3 DEF CardPart, WInv, TypeOK, CeremonyTypes, CardInv

LEMMA NextKeeps == WInv /\ [Next]_vars => WInv' /\ NetStep
<1> SUFFICES ASSUME WInv, [Next]_vars PROVE WInv' /\ NetStep
  OBVIOUS
<1>1. ASSUME NetStep, PassInv', HeldInv', CardPart' PROVE WInv' /\ NetStep
  BY <1>1 DEF WInv, TypeOK, PassInv, CardPart, NetStep
<1>2. held \in Topics \cup {NoTopic}
  BY DEF WInv, TypeOK, WatchTypes
<1>3. rec' = rec => NoneReleased
  BY DEF NoneReleased
<1>4. CASE World /\ UNCHANGED cardVars
  <2>1. NetStep /\ NoneReleased /\ HeldInv'
    BY <1>4, WorldNet
  <2>2. UNCHANGED passVars /\ Faulty /\ held' \in Topics \cup {NoTopic}
    BY <1>2, <1>4, FaultTyped
       DEF World, ArmSwitch, Fire, WebLoads, WebEnds, StopsHalfway, Healthy
  <2> QED
    BY <1>1, <1>4, <2>1, <2>2, PassKept, CardKept
<1>5. CASE (PassStep \/ PassFails) /\ UNCHANGED cardVars
  <2>1. NetStep
    BY <1>5, PassNet
  <2>2. PassInv'
    BY <1>5, HandleStep, ReactStep, PollStep, ScanStep DEF PassStep, PassFails
  <2>3. held' = held
    BY <1>5 DEF PassStep, PassFails, Tick, FetchMessages, HandleMessage, React,
                FetchTransfers, InspectTransfer, Verify, Teardown, FetchThrows,
                ReactionThrows, ScanThrows, Restart
  <2> QED
    BY <1>1, <1>5, <2>1, <2>2, <2>3, HeldKept, CardKept
<1>6. CASE Submit
  <2>1. NetStep
    BY <1>6, SubmitNet
  <2>2. UNCHANGED passVars /\ Faulty /\ rec' = rec /\ held' = held
    BY <1>6, FaultTyped DEF Submit
  <2> QED
    BY <1>1, <1>2, <1>3, <1>6, <2>1, <2>2, PassKept, HeldKept, SubmitCard
<1>7. CASE Card /\ UNCHANGED <<netVars, passVars, held>>
  <2>1. NetStep
    BY <1>7, SameNet
  <2>2. Faulty /\ rec' = rec
    BY <1>7, FaultTyped DEF Card, netVars
  <2> QED
    BY <1>1, <1>2, <1>3, <1>7, <2>1, <2>2, PassKept, HeldKept, CardStep
<1>8. ASSUME NEW tx \in Others, OtherTransfer(tx) PROVE WInv' /\ NetStep
  <2>1. NetStep
    BY <1>8, TxNet DEF OtherTransfer
  <2>2. /\ UNCHANGED passVars /\ UNCHANGED cardVars /\ Faulty
        /\ rec' = rec /\ held' = held
    BY <1>8 DEF OtherTransfer, Faulty, WInv, TypeOK, WatchTypes
  <2> QED
    BY <1>1, <1>2, <1>3, <2>1, <2>2, PassKept, HeldKept, CardKept
<1>9. CASE UNCHANGED vars
  <2>1. NetStep /\ UNCHANGED passVars /\ UNCHANGED cardVars
    BY <1>9, SameNet DEF vars, watchVars
  <2>2. Faulty /\ rec' = rec /\ held' = held
    BY <1>9 DEF vars, watchVars, netVars, Faulty, WInv, TypeOK, WatchTypes
  <2> QED
    BY <1>1, <1>2, <1>3, <2>1, <2>2, PassKept, HeldKept, CardKept
<1> QED
  BY <1>4, <1>5, <1>6, <1>7, <1>8, <1>9 DEF Next

LEMMA WatchInitially == Init => WInv
<1> SUFFICES ASSUME Init PROVE WInv
  OBVIOUS
<1> USE DEF Init, WatchInit, CeremonyInit
<1>1. /\ <<>> \in Seq(Row) /\ <<>> \in Seq(Nat)
      /\ <<>> \in Seq(Transfer(Topics, NoTopic)) /\ Len(<<>>) = 0
  OBVIOUS
<1>2. ~Has(<<>>, "RELEASE_AUTHORIZED") /\ ~Has(<<>>, "CANCELLED")
  BY DEF Has
<1>3. TypeOK
  BY <1>1 DEF TypeOK, WatchTypes, CeremonyTypes
<1>4. \A t \in Topics : TopicInv(t)
  BY <1>2 DEF TopicInv
<1>5. KnownInv /\ HeldInv /\ PageInv /\ ReactInv /\ AtHandInv
  BY <1>1 DEF KnownInv, HeldInv, PageInv, ReactInv, AtHandInv
<1>6. NothingIsSkipped
  BY DEF NothingIsSkipped
<1>7. CardInv
  BY DEF CardInv, DoneIsOnChain
<1> QED
  BY <1>3, <1>4, <1>5, <1>6, <1>7 DEF WInv

LEMMA AlwaysWInv == Spec => []WInv
<1> QED
  BY WatchInitially, NextKeeps, PTL DEF Spec

-----------------------------------------------------------------------------
(* The theorems.                                                            *)

\* Every variable keeps its type: no page is handled past its list.
THEOREM WatchTyped == Spec => []TypeOK
<1>1. WInv => TypeOK
  BY DEF WInv
<1> QED
  BY <1>1, AlwaysWInv, PTL

\* What the cursors of the watcher have passed has been answered.
THEOREM CursorsSkipNothing == Spec => []NothingIsSkipped
<1>1. WInv => NothingIsSkipped
  BY DEF WInv
<1> QED
  BY <1>1, AlwaysWInv, PTL

\* Nothing but a successful transfer with its memo stands a switch down, and the
\* watcher stands none down but for one that debits the account that armed it.
THEOREM CancelOnChain == Spec => []CancelIsOnChain
<1>1. ASSUME WInv, NEW t \in Topics, StoodDown(t)
      PROVE  \E i \in DOMAIN txs : Carries(txs[i], t)
  BY <1>1 DEF WInv, TopicInv, StoodDown, OnChain
<1>2. ASSUME WInv, at = "teardown" PROVE txs[Head(page)].debited
  BY <1>2, AtHand DEF WInv, AtHandInv, Confirms
<1>3. WInv => CancelIsOnChain
  BY <1>1, <1>2 DEF CancelIsOnChain
<1> QED
  BY <1>3, AlwaysWInv, PTL

\* What the ceremony reports as done is on chain, and debits the account the card
\* shows, which need not be the one that armed the switch.
THEOREM DoneOnChain == Spec => []DoneIsOnChain
<1>1. WInv => DoneIsOnChain
  BY DEF WInv, CardInv
<1> QED
  BY <1>1, AlwaysWInv, PTL

\* A card that offers to connect has released the device, whatever failed, but
\* for the session of a connect that outlived its card.
THEOREM DeviceReleased == Spec => []DeviceIsReleased
<1>1. WInv => DeviceIsReleased
  BY DEF WInv, CardInv, DeviceIsReleased
<1> QED
  BY <1>1, AlwaysWInv, PTL

\* After a release nothing more is written about a switch while its record says
\* RELEASED, and nothing takes that back but a web cancel that had loaded it.
THEOREM ReleaseFinal == Spec => ReleaseIsFinal
<1>1. WInv /\ [Next]_vars =>
        [\A t \in Topics : rec[t] = "RELEASED" =>
            /\ rows'[t] = rows[t]
            /\ rec'[t] = "RELEASED" \/ held = t]_watchVars
  BY NextKeeps DEF NetStep, Kept
<1> QED
  BY <1>1, AlwaysWInv, PTL DEF Spec, ReleaseIsFinal
=============================================================================
