----------------------------- MODULE SyncProofs -----------------------------
(***************************************************************************)
(* What is proved of Sync.tla, for any number of messages, syncers, lives  *)
(* of the folder and changes in it: its type invariant, that a UID is      *)
(* remembered as the message that is there, that the watermark is never    *)
(* ahead of what was absorbed, that what is gone stays gone, that a        *)
(* message is shown with its own body, and that the body that was asked    *)
(* for is there when the task is done.                                     *)
(***************************************************************************)
EXTENDS Sync, TLAPS, WellFoundedInduction

-----------------------------------------------------------------------------
(* The invariant                                                           *)

On(s)    == syncs[s] # None
Began(s) == On(s) /\ syncs[s].step # "loaded"

\* The folder is the one the sync has selected.
Same(s) == syncs[s].saw.validity = box.validity

\* A message that is placed has a row.
MessagesKnown ==
  \A g \in Generation, u \in Uid :
    placements[g][u] # None => facts[placements[g][u].msg] # None

\* UIDs and versions are counted upwards, and lives: the row is not ahead.
Counting ==
  /\ \A u \in Uid : box.at[u] # None => u <= box.uids /\ box.at[u].version <= box.version
  /\ container.validity # None => container.validity <= box.validity

\* Each step has what it needs, and no memory is ahead of the folder.
SawOf(s) ==
  /\ On(s) =>
       /\ syncs[s].mem.validity # None => syncs[s].mem.validity <= box.validity
       /\ syncs[s].step = "loaded" => ~syncs[s].broken
       /\ syncs[s].step # "read" => \A u \in Uid : syncs[s].batch[u] = None
       /\ syncs[s].broken => syncs[s].full
  /\ Began(s) =>
       /\ syncs[s].saw # None
       /\ syncs[s].saw.validity <= box.validity
       /\ IF condstore THEN syncs[s].saw.modseq \in Nat /\ syncs[s].saw.modseq <= box.version
                       ELSE syncs[s].saw.modseq = None
       /\ IF syncs[s].full
          THEN syncs[s].step \in {"selected", "reading", "read", "listed"}
          ELSE condstore /\ syncs[s].step \in {"selected", "read", "absorbed", "listed"}
       /\ syncs[s].full /\ syncs[s].step # "selected" => syncs[s].todo \subseteq syncs[s].present

\* What is under way at a time is what the history says.
HistoryHolds ==
  /\ "overlap" \notin odd => "beside" \notin odd
  /\ "mixed" \notin odd => "overlap" \notin odd
  /\ "beside" \notin odd => \A s, o \in Syncer : On(s) /\ On(o) => s = o

\* A sync that is alone has the row in mind as it is, or as it has broken it.
MindOf(s) ==
  On(s) =>
    /\ ~syncs[s].broken => syncs[s].mem = container
    /\ syncs[s].broken =>
         /\ container.validity # None
         /\ container.validity < syncs[s].saw.validity
         /\ syncs[s].mem.validity = syncs[s].saw.validity
         /\ syncs[s].mem.generation = container.generation + 1
         /\ syncs[s].mem.modseq = None
    /\ Began(s) /\ ~syncs[s].broken =>
         container.validity \in {None, syncs[s].saw.validity}
    /\ Began(s) /\ ~syncs[s].full => syncs[s].mem.modseq # None

\* What is remembered of this life of the folder is of a message it had, and of
\* the one at that UID; what is gone there is gone here.
PlacementsHold ==
  /\ container.validity \in {None, box.validity} =>
       \A u \in Uid : placements[container.generation][u] # None =>
         /\ u <= box.uids
         /\ box.at[u] # None =>
              /\ placements[container.generation][u].msg = box.at[u].msg
              /\ ~placements[container.generation][u].gone
  /\ \A g \in Generation, u \in Uid : g > container.generation => placements[g][u] = None

\* The list the sync has is the one it will end by.
Listed(s) ==
  \/ syncs[s].step \in {"reading", "listed"}
  \/ syncs[s].full /\ syncs[s].step = "read"

\* And so is what a sync is about to remember, or to forget.
BatchOf(s) ==
  Began(s) =>
    /\ container.validity = None => Same(s)
    /\ \A u \in Uid : syncs[s].batch[u] # None =>
         /\ Same(s) =>
              /\ u <= box.uids
              /\ box.at[u] # None => syncs[s].batch[u].msg = box.at[u].msg
         /\ placements[syncs[s].mem.generation][u] # None =>
              ~placements[syncs[s].mem.generation][u].gone
         /\ syncs[s].full => u \in syncs[s].present
    /\ Listed(s) /\ Same(s) => \A u \in Uid :
         /\ u \notin syncs[s].present
         /\ placements[syncs[s].mem.generation][u] # None
         => box.at[u] = None

\* A message as it is.
Right(g, u) ==
  /\ placements[g][u] # None
  /\ ~placements[g][u].gone
  /\ placements[g][u].version = box.at[u].version

\* Unchanged since the sync selected the folder.
Unmoved(s, u) == box.at[u] # None /\ box.at[u].version <= syncs[s].saw.modseq

BatchRight(s, u) == syncs[s].batch[u] # None /\ syncs[s].batch[u].version = box.at[u].version

\* A sync that is alone has whatever has not changed since: still to be read,
\* read, or put down.
ReadingOf(s) ==
  Began(s) /\ Same(s) => \A u \in Uid : Unmoved(s, u) =>
    /\ syncs[s].batch[u] # None => BatchRight(s, u)
    /\ syncs[s].full /\ syncs[s].step # "selected" =>
         /\ u \in syncs[s].present
         /\ \/ syncs[s].step # "listed" /\ u \in syncs[s].todo
            \/ BatchRight(s, u)
            \/ Right(syncs[s].mem.generation, u)

\* The watermark is not ahead,
WatermarkHolds ==
  container.modseq # None =>
    /\ condstore
    /\ container.validity # None
    /\ container.modseq <= box.version
    /\ container.validity = box.validity =>
         \A u \in Uid : box.at[u] # None /\ box.at[u].version <= container.modseq =>
           Right(container.generation, u)

\* nor is the one that it is to be, of a sync that asked for what changed.
AheadOf(s) ==
  Began(s) =>
    /\ container.modseq # None => container.modseq <= syncs[s].saw.modseq
    /\ Same(s) /\ ~syncs[s].full => \A u \in Uid : Unmoved(s, u) =>
         /\ syncs[s].step = "read" =>
              BatchRight(s, u) \/ Right(syncs[s].mem.generation, u)
         /\ syncs[s].step \in {"absorbed", "listed"} =>
              Right(syncs[s].mem.generation, u)
         /\ syncs[s].step = "listed" => u \in syncs[s].present

\* What holds of the rows and the memories whatever happened.
Sound ==
  TypeOK /\ MessagesKnown /\ Counting /\ HistoryHolds /\ \A s \in Syncer : SawOf(s)

Unmixed == odd \cap {"mixed", "early"} = {}

SyncInv ==
  /\ Sound
  /\ "beside" \notin odd => \A s \in Syncer : MindOf(s)
  /\ Unmixed => PlacementsHold /\ \A s \in Syncer : BatchOf(s)
  /\ "beside" \notin odd /\ condstore => \A s \in Syncer : ReadingOf(s)
  /\ "overlap" \notin odd => WatermarkHolds /\ \A s \in Syncer : AheadOf(s)
  /\ BodyIsItsOwn

-----------------------------------------------------------------------------
(* The bodies that are kept                                                *)

LEMMA NothingWeighsNothing == Total(<<>>) = 0
<1> DEFINE op(x, y) == y + Size[x.of]
           step(f, s) == IF s = {} THEN 0
                         ELSE LET x == Max(s) IN op(<<>>[x], f[s \ {x}])
           iter == CHOOSE f : f = [s \in SUBSET {} |-> step(f, s)]
           zero == [s \in SUBSET {} |-> 0]
<1>1. zero = [s \in SUBSET {} |-> step(zero, s)]
  OBVIOUS
<1>2. iter = [s \in SUBSET {} |-> step(iter, s)]
  BY <1>1
<1>3. iter[{}] = 0
  BY <1>2
<1>4. DOMAIN <<>> = {}
  OBVIOUS
<1> QED
  BY <1>3, <1>4 DEF Total, FoldLeft, MapThenFoldSet

LEMMA OneWeighsItsOwn ==
  ASSUME NEW b, Size[b.of] \in Nat
  PROVE  Total(<<b>>) = Size[b.of]
<1> DEFINE one == <<b>>
           op(x, y) == y + Size[x.of]
           step(f, s) == IF s = {} THEN 0
                         ELSE LET x == Max(s) IN op(one[x], f[s \ {x}])
           iter == CHOOSE f : f = [s \in SUBSET {1} |-> step(f, s)]
           weight == [s \in SUBSET {1} |-> IF s = {} THEN 0 ELSE Size[b.of]]
<1>1. \A s \in SUBSET {1} : s # {} => s = {1}
  OBVIOUS
<1>2. Max({1}) = 1
  BY DEF Max
<1>3. one[1] = b /\ DOMAIN one = {1} /\ {1} \ {1} = {}
  OBVIOUS
<1> HIDE DEF one
<1>4. weight = [s \in SUBSET {1} |-> step(weight, s)]
  <2>1. ASSUME NEW s \in SUBSET {1}
        PROVE  (IF s = {} THEN 0 ELSE Size[b.of]) = step(weight, s)
    <3>1. CASE s = {}
      BY <3>1
    <3>2. CASE s = {1}
      <4>1. weight[{}] = 0
        OBVIOUS
      <4>2. step(weight, {1}) = op(b, weight[{}])
        BY <1>2, <1>3
      <4> QED
        BY <3>2, <4>1, <4>2
    <3> QED
      BY <1>1, <3>1, <3>2
  <2> QED
    BY <2>1
<1>5. iter = [s \in SUBSET {1} |-> step(iter, s)]
  BY <1>4
<1> HIDE DEF iter
<1>6. iter[{}] = 0 /\ iter[{1}] = step(iter, {1})
  <2>1. {} \in SUBSET {1} /\ {1} \in SUBSET {1}
    OBVIOUS
  <2> HIDE DEF step
  <2>2. iter[{}] = step(iter, {}) /\ iter[{1}] = step(iter, {1})
    BY <1>5, <2>1
  <2>3. step(iter, {}) = 0
    BY DEF step
  <2> QED
    BY <2>2, <2>3
<1>7. step(iter, {1}) = op(b, iter[{}])
  BY <1>2, <1>3
<1>8. iter[{1}] = Size[b.of]
  BY <1>6, <1>7
<1>9. Total(one) = iter[{1}]
  BY <1>3 DEF Total, FoldLeft, MapThenFoldSet, iter
<1> QED
  BY <1>8, <1>9 DEF one

\* Making room takes rows away and leaves the others.
LEMMA EvictedAreOfThem ==
  ASSUME NEW S, NEW kept \in Seq(S)
  PROVE  /\ Evicted(kept) \in Seq(S)
         /\ \A i \in 1..Len(Evicted(kept)) :
              \E j \in 1..Len(kept) : Evicted(kept)[i] = kept[j]
<1> DEFINE fits(k) == Total(SubSeq(kept, k + 1, Len(kept))) <= Budget
           is(k) == fits(k) /\ \A l \in 0..Len(kept) : l < k => ~fits(l)
           fewest == CHOOSE k \in 0..Len(kept) : is(k)
<1>1. SubSeq(kept, Len(kept) + 1, Len(kept)) = <<>>
  OBVIOUS
<1>2. fits(Len(kept))
  <2>1. Total(SubSeq(kept, Len(kept) + 1, Len(kept))) = 0
    BY <1>1, NothingWeighsNothing
  <2> QED
    BY <2>1, SyncOK
<1> HIDE DEF fits
<1>3. \E k \in 0..Len(kept) : is(k)
  <2> DEFINE T == {k \in 0..Len(kept) : fits(k)}
  <2>1. T \subseteq Nat /\ T # {}
    BY <1>2
  <2>2. PICK k \in T : \A l \in T : ~(<<l, k>> \in OpToRel(<, Nat))
    BY <2>1, NatLessThanWellFounded, WFMin, Zenon
  <2>3. \A l \in T : ~(l < k)
    BY <2>1, <2>2 DEF OpToRel
  <2> QED
    BY <2>3
<1>4. fewest \in 0..Len(kept)
  BY <1>3
<1>5. Evicted(kept) = SubSeq(kept, fewest + 1, Len(kept))
  BY DEF Evicted, fits
<1> HIDE DEF fewest, is
<1>6. Len(kept) \in Nat /\ \A i \in 1..Len(kept) : kept[i] \in S
  OBVIOUS
<1>7. /\ SubSeq(kept, fewest + 1, Len(kept)) \in Seq(S)
      /\ Len(SubSeq(kept, fewest + 1, Len(kept))) = Len(kept) - fewest
      /\ \A i \in 1..(Len(kept) - fewest) :
           SubSeq(kept, fewest + 1, Len(kept))[i] = kept[fewest + i]
  BY <1>4, <1>6
<1>8. \A i \in 1..(Len(kept) - fewest) : fewest + i \in 1..Len(kept)
  BY <1>4, <1>6
<1> QED
  BY <1>5, <1>7, <1>8

\* It stops at the last row if that alone fits.
LEMMA LastIsSpared ==
  ASSUME NEW kept \in Seq(BodyRow), Len(kept) > 0,
         Size[kept[Len(kept)].of] <= Budget
  PROVE  LET left == Evicted(kept)
         IN  Len(left) > 0 /\ left[Len(left)] = kept[Len(kept)]
<1> DEFINE n == Len(kept)
           fits(k) == Total(SubSeq(kept, k + 1, Len(kept))) <= Budget
           is(k) == fits(k) /\ \A l \in 0..Len(kept) : l < k => ~fits(l)
           fewest == CHOOSE k \in 0..Len(kept) : is(k)
<1>1. n \in Nat \ {0} /\ kept[n] \in BodyRow
  OBVIOUS
<1>2. fits(n - 1)
  <2>1. SubSeq(kept, (n - 1) + 1, Len(kept)) = <<kept[n]>>
    <3>1. (n - 1) + 1 = n /\ n \in 1..Len(kept)
      BY <1>1
    <3>2. /\ SubSeq(kept, n, n) \in Seq(BodyRow)
          /\ Len(SubSeq(kept, n, n)) = 1
          /\ SubSeq(kept, n, n)[1] = kept[n]
      BY <1>1, <3>1
    <3>3. \A t \in Seq(BodyRow) : Len(t) = 1 => t = <<t[1]>>
      OBVIOUS
    <3> QED
      BY <3>1, <3>2, <3>3
  <2>2. Size[kept[n].of] \in Nat
    BY <1>1, SyncOK DEF BodyRow
  <2>3. Total(SubSeq(kept, (n - 1) + 1, Len(kept))) = Size[kept[n].of]
    BY <2>1, <2>2, OneWeighsItsOwn
  <2> QED
    BY <2>3
<1> HIDE DEF fits
<1>3. \E k \in 0..Len(kept) : is(k)
  <2> DEFINE T == {k \in 0..Len(kept) : fits(k)}
  <2>1. T \subseteq Nat /\ T # {}
    BY <1>1, <1>2
  <2>2. PICK k \in T : \A l \in T : ~(<<l, k>> \in OpToRel(<, Nat))
    BY <2>1, NatLessThanWellFounded, WFMin, Zenon
  <2>3. \A l \in T : ~(l < k)
    BY <2>1, <2>2 DEF OpToRel
  <2> QED
    BY <2>3
<1>4. fewest \in 0..Len(kept) /\ is(fewest)
  BY <1>3
<1>5. Evicted(kept) = SubSeq(kept, fewest + 1, Len(kept))
  BY DEF Evicted, fits
<1> HIDE DEF fewest
<1>6. fewest <= n - 1
  BY <1>1, <1>2, <1>4
<1> QED
  BY <1>1, <1>4, <1>5, <1>6

\* So does taking one away.
LEMMA RestIsOfThem ==
  ASSUME NEW S, NEW kept \in Seq(S), NEW k \in 1..Len(kept)
  PROVE  /\ RemoveAt(kept, k) \in Seq(S)
         /\ \A i \in 1..Len(RemoveAt(kept, k)) :
              \E j \in 1..Len(kept) : RemoveAt(kept, k)[i] = kept[j]
<1> DEFINE a == SubSeq(kept, 1, k - 1)
           b == SubSeq(kept, k + 1, Len(kept))
<1>1. a \in Seq(S) /\ Len(a) = k - 1 /\ \A i \in 1..(k - 1) : a[i] = kept[i]
  OBVIOUS
<1>2. /\ b \in Seq(S) /\ Len(b) = Len(kept) - k
      /\ \A i \in 1..(Len(kept) - k) : b[i] = kept[k + i]
  OBVIOUS
<1>3. RemoveAt(kept, k) = a \o b
  BY DEF RemoveAt
<1> HIDE DEF a, b
<1>4. RemoveAt(kept, k) \in Seq(S) /\ Len(RemoveAt(kept, k)) = Len(kept) - 1
  BY <1>1, <1>2, <1>3
<1>5. ASSUME NEW i \in 1..(Len(kept) - 1)
      PROVE  \E j \in 1..Len(kept) : RemoveAt(kept, k)[i] = kept[j]
  <2>1. CASE i <= k - 1
    BY <1>1, <1>2, <1>3, <2>1
  <2>2. CASE i > k - 1
    <3>1. RemoveAt(kept, k)[i] = b[i - (k - 1)]
      BY <1>1, <1>2, <1>3, <2>2
    <3>2. b[i - (k - 1)] = kept[i + 1]
      BY <1>2, <2>2
    <3> QED
      BY <3>1, <3>2
  <2> QED
    BY <2>1, <2>2
<1> QED
  BY <1>4, <1>5

\* A body that is put down is a row of its own, and the others stay.
LEMMA RecachedAreOfThem ==
  ASSUME TypeOK, NEW m \in Msg, NEW of \in Msg
  PROVE  /\ Recached(m, of) \in Seq(BodyRow)
         /\ \A i \in 1..Len(Recached(m, of)) :
              \/ Recached(m, of)[i] = [msg |-> m, of |-> of]
              \/ \E j \in 1..Len(bodies) : Recached(m, of)[i] = bodies[j]
<1> DEFINE rows == {i \in 1..Len(bodies) : bodies[i].msg = m}
           rest == IF rows = {} THEN bodies ELSE RemoveAt(bodies, CHOOSE i \in rows : TRUE)
<1>1. bodies \in Seq(BodyRow)
  BY DEF TypeOK
<1>2. /\ rest \in Seq(BodyRow)
      /\ \A i \in 1..Len(rest) : \E j \in 1..Len(bodies) : rest[i] = bodies[j]
  <2>1. CASE rows = {}
    BY <1>1, <2>1
  <2>2. CASE rows # {}
    <3>1. PICK k \in 1..Len(bodies) : rest = RemoveAt(bodies, k)
      BY <2>2
    <3> HIDE DEF rest
    <3>2. /\ RemoveAt(bodies, k) \in Seq(BodyRow)
          /\ \A i \in 1..Len(RemoveAt(bodies, k)) :
               \E j \in 1..Len(bodies) : RemoveAt(bodies, k)[i] = bodies[j]
      BY <1>1, RestIsOfThem
    <3> QED
      BY <3>1, <3>2
  <2> QED
    BY <2>1, <2>2
<1>3. Recached(m, of) = Append(rest, [msg |-> m, of |-> of])
  BY DEF Recached
<1>4. [msg |-> m, of |-> of] \in BodyRow
  BY DEF BodyRow
<1> HIDE DEF rest
<1> QED
  BY <1>2, <1>3, <1>4

\* It counts as the one read last.
LEMMA RecachedIsLast ==
  ASSUME TypeOK, NEW m \in Msg, NEW of \in Msg
  PROVE  /\ Len(Recached(m, of)) > 0
         /\ Recached(m, of)[Len(Recached(m, of))] = [msg |-> m, of |-> of]
<1> DEFINE rows == {i \in 1..Len(bodies) : bodies[i].msg = m}
           rest == IF rows = {} THEN bodies ELSE RemoveAt(bodies, CHOOSE i \in rows : TRUE)
<1>1. bodies \in Seq(BodyRow)
  BY DEF TypeOK
<1>2. rest \in Seq(BodyRow)
  <2>1. CASE rows = {}
    BY <1>1, <2>1
  <2>2. CASE rows # {}
    <3>1. PICK k \in 1..Len(bodies) : rest = RemoveAt(bodies, k)
      BY <2>2
    <3> HIDE DEF rest
    <3>2. RemoveAt(bodies, k) \in Seq(BodyRow)
      BY <1>1, RestIsOfThem
    <3> QED
      BY <3>1, <3>2
  <2> QED
    BY <2>1, <2>2
<1>3. Recached(m, of) = Append(rest, [msg |-> m, of |-> of])
  BY DEF Recached
<1> HIDE DEF rest
<1> QED
  BY <1>2, <1>3

-----------------------------------------------------------------------------
(* The type                                                                *)

LEMMA Apart ==
  /\ \A x \in Held : x # None
  /\ \A x \in Placement : x # None
  /\ \A x \in SyncRow : x # None
  /\ \A x \in FactsRow : x # None
  /\ \A x \in [validity : Validity, modseq : Version \cup {None}] : x # None
  /\ \A x \in Nat : x # None
  /\ \A x \in Syncer : x # None
BY SyncOK, NoneIsNoRow

LEMMA NothingType ==
  /\ Nothing \in [Uid -> Held \cup {None}]
  /\ Nothing \in [Uid -> Placement \cup {None}]
BY DEF Nothing

\* A sync goes on, in memory alone.
InMind(s, row) ==
  /\ syncs' = [syncs EXCEPT ![s] = row]
  /\ UNCHANGED <<server, container, placements, facts, bodies>>

LEMMA InitType == Init => TypeOK
<1> SUFFICES ASSUME Init PROVE TypeOK
  OBVIOUS
<1>1. box \in BoxRow
  BY NothingType, SyncOK DEF Init, BoxRow, Validity, Version
<1>2. container \in ContainerRow
  BY SyncOK DEF Init, ContainerRow, Generation
<1> QED
  BY <1>1, <1>2, NothingType, SyncOK DEF Init, TypeOK

LEMMA MailboxType ==
  ASSUME TypeOK, Mailbox
  PROVE  TypeOK'
<1>1. ASSUME NEW m \in Msg, Deliver(m) PROVE TypeOK'
  <2>1. box.version + 1 \in Version /\ box.uids + 1 \in Uid
    BY <1>1, SyncOK DEF Deliver, Changes, TypeOK, BoxRow, Version, Uid
  <2>2. [msg |-> m, version |-> box.version + 1] \in Held
    BY <2>1 DEF Held
  <2>3. box' \in BoxRow
    <3>1. box' = [validity |-> box.validity, version |-> box.version + 1,
                  uids |-> box.uids + 1,
                  at |-> [box.at EXCEPT ![box.uids + 1] =
                            [msg |-> m, version |-> box.version + 1]]]
      BY <1>1 DEF Deliver, TypeOK, BoxRow
    <3>2. box.uids + 1 \in 0..MaxUid
      BY <2>1, SyncOK DEF Uid
    <3> QED
      BY <3>1, <3>2, <2>1, <2>2 DEF TypeOK, BoxRow
  <2> QED
    BY <1>1, <2>3 DEF Deliver, Cached, TypeOK
<1>2. ASSUME NEW u \in Uid, Touch(u) PROVE TypeOK'
  <2>1. box.version + 1 \in Version
    BY <1>2, SyncOK DEF Touch, Changes, TypeOK, BoxRow, Version
  <2>2. [box.at[u] EXCEPT !.version = box.version + 1] \in Held
    BY <1>2, <2>1 DEF Held, Touch, TypeOK, BoxRow
  <2>3. box' \in BoxRow
    BY <1>2, <2>1, <2>2 DEF Touch, TypeOK, BoxRow
  <2> QED
    BY <1>2, <2>3 DEF Touch, Cached, TypeOK
<1>3. ASSUME NEW u \in Uid, Expunge(u) PROVE TypeOK'
  <2>1. box.version + 1 \in Version
    BY <1>3, SyncOK DEF Expunge, Changes, TypeOK, BoxRow, Version
  <2>2. box' \in BoxRow
    BY <1>3, <2>1 DEF Expunge, TypeOK, BoxRow
  <2> QED
    BY <1>3, <2>2 DEF Expunge, Cached, TypeOK
<1>4. CASE Recreate
  <2>1. box.validity + 1 \in Validity
    BY <1>4, SyncOK DEF Recreate, TypeOK, BoxRow, Validity
  <2>2. box' \in BoxRow
    BY <1>4, <2>1, NothingType, SyncOK DEF Recreate, TypeOK, BoxRow
  <2> QED
    BY <1>4, <2>2 DEF Recreate, Cached, TypeOK
<1> QED
  BY <1>1, <1>2, <1>3, <1>4 DEF Mailbox

\* What is only in a sync's memory.
LEMMA InMindType ==
  ASSUME TypeOK, NEW s \in Syncer, NEW row \in SyncRow,
         InMind(s, row), lock' \in Syncer \cup {None}, UNCHANGED odd
  PROVE  TypeOK'
BY DEF TypeOK, InMind, server

LEMMA StatusType ==
  ASSUME TypeOK
  PROVE  Status \in [validity : Validity, modseq : Version \cup {None}]
BY DEF TypeOK, BoxRow, Status

LEMMA LoadType ==
  ASSUME TypeOK, NEW s \in Syncer, NEW force \in BOOLEAN, Load(s, force)
  PROVE  TypeOK'
<1> DEFINE row == [step |-> "loaded", full |-> force, mem |-> container,
             broken |-> FALSE, saw |-> None, todo |-> {}, present |-> {}, batch |-> Nothing]
<1>1. row \in SyncRow
  BY NothingType DEF SyncRow, TypeOK
<1>2. odd' \subseteq {"beside", "overlap", "mixed", "early", "blind"}
  BY DEF Load, TypeOK
<1>3. syncs' = [syncs EXCEPT ![s] = row]
  BY DEF Load
<1> HIDE DEF row
<1>4. syncs' \in [Syncer -> SyncRow \cup {None}]
  BY <1>1, <1>3 DEF TypeOK
<1> QED
  BY <1>2, <1>4 DEF Load, TypeOK, server

\* The steps of a sync that write nothing, by the row they leave.
LEMMA SelectSameRow ==
  ASSUME TypeOK, NEW s \in Syncer, SelectSame(s)
  PROVE  \E row \in SyncRow :
           /\ InMind(s, row)
           /\ row = [syncs[s] EXCEPT !.step = "selected", !.saw = Status,
                       !.full = @ \/ syncs[s].mem.modseq = None \/ ~condstore]
<1> DEFINE row == [syncs[s] EXCEPT !.step = "selected", !.saw = Status,
                       !.full = @ \/ syncs[s].mem.modseq = None \/ ~condstore]
<1>1. syncs[s] \in SyncRow
  BY DEF SelectSame, TypeOK
<1>2. row \in SyncRow
  BY <1>1, StatusType DEF SyncRow, TypeOK
<1>3. syncs' = [syncs EXCEPT ![s] = row]
  BY <1>1 DEF SelectSame, SyncRow
<1> QED
  BY <1>2, <1>3 DEF InMind, SelectSame, server

LEMMA SelectOtherRow ==
  ASSUME TypeOK, NEW s \in Syncer, SelectOther(s)
  PROVE  \E row \in SyncRow :
           /\ InMind(s, row)
           /\ row = [syncs[s] EXCEPT !.step = "selected", !.saw = Status,
                       !.full = TRUE, !.broken = TRUE, !.mem = Broken(@)]
<1> DEFINE row == [syncs[s] EXCEPT !.step = "selected", !.saw = Status,
                       !.full = TRUE, !.broken = TRUE, !.mem = Broken(@)]
<1>1. syncs[s] \in SyncRow
  BY DEF SelectOther, TypeOK
<1>2. Broken(syncs[s].mem) \in ContainerRow
  <2>1. syncs[s].mem.generation + 1 \in Generation
    BY <1>1, SyncOK DEF SelectOther, SyncRow, ContainerRow, Generation
  <2>2. box.validity \in Validity
    BY DEF TypeOK, BoxRow
  <2> QED
    BY <2>1, <2>2 DEF Broken, ContainerRow
<1>3. row \in SyncRow
  BY <1>1, <1>2, StatusType DEF SyncRow
<1>4. syncs' = [syncs EXCEPT ![s] = row]
  BY <1>1 DEF SelectOther, SyncRow
<1> QED
  BY <1>3, <1>4 DEF InMind, SelectOther, server

\* What changed, as it is read.
ChangedNow(s) ==
  [u \in Uid |-> IF box.at[u] # None /\ box.at[u].version > syncs[s].mem.modseq
                 THEN box.at[u] ELSE None]

LEMMA ReadChangedRow ==
  ASSUME TypeOK, NEW s \in Syncer, ReadChanged(s)
  PROVE  \E row \in SyncRow :
           /\ InMind(s, row)
           /\ row = [syncs[s] EXCEPT !.step = "read", !.batch = ChangedNow(s)]
<1> DEFINE row == [syncs[s] EXCEPT !.step = "read", !.batch = ChangedNow(s)]
<1>1. syncs[s] \in SyncRow
  BY DEF ReadChanged, TypeOK
<1>2. ChangedNow(s) \in [Uid -> Held \cup {None}]
  BY DEF ChangedNow, TypeOK, BoxRow
<1>3. row \in SyncRow
  BY <1>1, <1>2 DEF SyncRow
<1>4. syncs' = [syncs EXCEPT ![s] = row]
  BY <1>1 DEF ReadChanged, SyncRow, ChangedNow
<1> QED
  BY <1>3, <1>4 DEF InMind, ReadChanged, server

LEMMA ListRow ==
  ASSUME TypeOK, NEW s \in Syncer, List(s)
  PROVE  \E row \in SyncRow :
           /\ InMind(s, row)
           /\ row = [syncs[s] EXCEPT
                       !.step = IF There = {} THEN "listed" ELSE "reading",
                       !.todo = There, !.present = There]
<1> DEFINE row == [syncs[s] EXCEPT
                       !.step = IF There = {} THEN "listed" ELSE "reading",
                       !.todo = There, !.present = There]
<1>1. syncs[s] \in SyncRow
  BY DEF List, TypeOK
<1>2. row \in SyncRow
  BY <1>1 DEF SyncRow, There
<1>3. syncs' = [syncs EXCEPT ![s] = row]
  BY <1>1 DEF List, SyncRow
<1> QED
  BY <1>2, <1>3 DEF InMind, List, server

LEMMA ReadBatchRow ==
  ASSUME TypeOK, NEW s \in Syncer, ReadBatch(s)
  PROVE  \E row \in SyncRow, u \in syncs[s].todo :
           /\ InMind(s, row)
           /\ row = [syncs[s] EXCEPT !.step = "read", !.todo = @ \ {u},
                       !.batch = [Nothing EXCEPT ![u] = box.at[u]]]
<1>1. syncs[s] \in SyncRow
  BY DEF ReadBatch, TypeOK
<1>2. PICK u \in syncs[s].todo :
        syncs' = [syncs EXCEPT ![s].step = "read", ![s].todo = @ \ {u},
            ![s].batch = [Nothing EXCEPT ![u] = box.at[u]]]
  BY DEF ReadBatch
<1> DEFINE row == [syncs[s] EXCEPT !.step = "read", !.todo = @ \ {u},
                       !.batch = [Nothing EXCEPT ![u] = box.at[u]]]
<1>3. u \in Uid
  BY <1>1 DEF SyncRow
<1>4. [Nothing EXCEPT ![u] = box.at[u]] \in [Uid -> Held \cup {None}]
  BY <1>3, NothingType DEF TypeOK, BoxRow
<1>5. row \in SyncRow
  BY <1>1, <1>4 DEF SyncRow
<1>6. syncs' = [syncs EXCEPT ![s] = row]
  BY <1>1, <1>2 DEF SyncRow
<1> QED
  BY <1>5, <1>6 DEF InMind, ReadBatch, server

LEMMA ListAgainRow ==
  ASSUME TypeOK, NEW s \in Syncer, ListAgain(s)
  PROVE  \E row \in SyncRow :
           /\ InMind(s, row)
           /\ row = [syncs[s] EXCEPT !.step = "listed", !.present = There]
<1> DEFINE row == [syncs[s] EXCEPT !.step = "listed", !.present = There]
<1>1. syncs[s] \in SyncRow
  BY DEF ListAgain, TypeOK
<1>2. row \in SyncRow
  BY <1>1 DEF SyncRow, There
<1>3. syncs' = [syncs EXCEPT ![s] = row]
  BY <1>1 DEF ListAgain, SyncRow
<1> QED
  BY <1>2, <1>3 DEF InMind, ListAgain, server

\* The steps in memory.
Thinks(s) ==
  \/ SelectSame(s) \/ SelectOther(s) \/ ReadChanged(s) \/ List(s)
  \/ ReadBatch(s) \/ ListAgain(s)

LEMMA ThinksType ==
  ASSUME TypeOK, NEW s \in Syncer, Thinks(s)
  PROVE  TypeOK'
<1>1. lock' \in Syncer \cup {None}
  BY DEF Thinks, SelectSame, SelectOther, ReadChanged, List, ReadBatch, ListAgain, TypeOK
<1>2. UNCHANGED odd
  BY DEF Thinks, SelectSame, SelectOther, ReadChanged, List, ReadBatch, ListAgain
<1>3. \E row \in SyncRow : InMind(s, row)
  BY SelectSameRow, SelectOtherRow, ReadChangedRow, ListRow, ReadBatchRow, ListAgainRow
  DEF Thinks
<1> QED
  BY <1>1, <1>2, <1>3, InMindType

LEMMA FailType ==
  ASSUME TypeOK, NEW s \in Syncer, Fail(s)
  PROVE  TypeOK'
<1>1. syncs' \in [Syncer -> SyncRow \cup {None}]
  BY DEF Fail, TypeOK
<1>2. odd' \subseteq odd
  BY DEF Fail, Ended
<1> QED
  BY <1>1, <1>2 DEF Fail, TypeOK, server

PlacementsType == [Generation -> [Uid -> Placement \cup {None}]]

AsGone(p) == IF p = None THEN None ELSE [p EXCEPT !.gone = TRUE]

LEMMA AsGoneType ==
  ASSUME NEW p \in Placement \cup {None}
  PROVE  /\ AsGone(p) \in Placement \cup {None}
         /\ AsGone(p) = None <=> p = None
         /\ p # None => /\ AsGone(p).msg = p.msg
                        /\ AsGone(p).version = p.version
                        /\ AsGone(p).gone
BY Apart DEF AsGone, Placement

LEMMA KnownType ==
  ASSUME TypeOK, NEW s \in Syncer, syncs[s] # None
  PROVE  /\ Known(s) \in PlacementsType
         /\ \A g \in Generation, u \in Uid :
              /\ Known(s)[g][u] = None <=> placements[g][u] = None
              /\ Known(s)[g][u] # None => Known(s)[g][u].msg = placements[g][u].msg
              /\ Known(s)[g][u] # None /\ placements[g][u].gone => Known(s)[g][u].gone
              /\ ~syncs[s].broken \/ g = syncs[s].mem.generation =>
                   Known(s)[g][u] = placements[g][u]
<1>1. placements \in PlacementsType
  BY DEF TypeOK, PlacementsType
<1> DEFINE old == syncs[s].mem.generation - 1
           marked == [u \in Uid |-> AsGone(placements[old][u])]
<1>2. CASE ~syncs[s].broken
  BY <1>1, <1>2 DEF Known
<1>3. CASE syncs[s].broken
  <2>1. syncs[s].mem.generation \in Generation
    BY DEF TypeOK, SyncRow, ContainerRow
  <2>2. old # syncs[s].mem.generation
    BY <2>1 DEF Generation
  <2>3. Known(s) = [placements EXCEPT ![old] = marked]
    BY <1>3 DEF Known, AsGone
  <2>4. \A g \in Generation : g # old => Known(s)[g] = placements[g]
    BY <1>1, <2>3 DEF PlacementsType
  <2>5. CASE old \notin Generation
    <3>1. Known(s) = placements
      BY <1>1, <2>3, <2>5 DEF PlacementsType
    <3> QED
      BY <1>1, <3>1
  <2>6. CASE old \in Generation
    <3>1. /\ marked \in [Uid -> Placement \cup {None}]
          /\ \A u \in Uid :
               /\ marked[u] = None <=> placements[old][u] = None
               /\ marked[u] # None => marked[u].msg = placements[old][u].msg /\ marked[u].gone
      <4>1. \A u \in Uid : placements[old][u] \in Placement \cup {None}
        BY <1>1, <2>6 DEF PlacementsType
      <4> QED
        BY <4>1, AsGoneType
    <3>2. Known(s)[old] = marked
      BY <1>1, <2>3, <2>6 DEF PlacementsType
    <3> HIDE DEF marked, old
    <3>3. Known(s) \in PlacementsType
      BY <1>1, <2>3, <3>1 DEF PlacementsType
    <3> QED
      BY <1>3, <2>2, <2>4, <3>1, <3>2, <3>3
  <2> QED
    BY <2>5, <2>6
<1> QED
  BY <1>2, <1>3

LEMMA AbsorbedType ==
  ASSUME NEW old \in Placement \cup {None}, NEW held \in Held \cup {None}
  PROVE  /\ Absorbed(old, held) \in Placement \cup {None}
         /\ held = None => Absorbed(old, held) = old
         /\ held # None => /\ Absorbed(old, held) # None
                           /\ Absorbed(old, held).version = held.version
                           /\ ~Absorbed(old, held).gone
                           /\ Absorbed(old, held).msg = IF old = None THEN held.msg ELSE old.msg
BY Apart DEF Absorbed, Held, Placement

\* An absorb leaves the sync with one row and the placements with one change.
LEMMA AbsorbForm ==
  ASSUME TypeOK, NEW s \in Syncer, Absorb(s)
  PROVE  /\ \E row \in SyncRow :
              /\ syncs' = [syncs EXCEPT ![s] = row]
              /\ row = [syncs[s] EXCEPT !.broken = FALSE, !.batch = Nothing,
                    !.step = IF ~syncs[s].full THEN "absorbed"
                             ELSE IF syncs[s].todo = {} THEN "listed" ELSE "reading"]
         /\ placements' \in PlacementsType
         /\ \A g \in Generation, u \in Uid :
              placements'[g][u] = IF g = syncs[s].mem.generation
                                  THEN Absorbed(placements[g][u], syncs[s].batch[u])
                                  ELSE Known(s)[g][u]
<1> DEFINE row == [syncs[s] EXCEPT !.broken = FALSE, !.batch = Nothing,
                    !.step = IF ~syncs[s].full THEN "absorbed"
                             ELSE IF syncs[s].todo = {} THEN "listed" ELSE "reading"]
           gen == syncs[s].mem.generation
           new == [u \in Uid |-> Absorbed(Known(s)[gen][u], syncs[s].batch[u])]
<1>1. syncs[s] \in SyncRow /\ syncs[s] # None
  BY DEF Absorb, TypeOK
<1>2. row \in SyncRow
  BY <1>1, NothingType DEF SyncRow
<1>3. syncs' = [syncs EXCEPT ![s] = row]
  BY <1>1 DEF Absorb, SyncRow
<1>4. gen \in Generation /\ syncs[s].batch \in [Uid -> Held \cup {None}]
  BY <1>1 DEF SyncRow, ContainerRow
<1>5. Known(s) \in PlacementsType /\ \A u \in Uid : Known(s)[gen][u] = placements[gen][u]
  BY <1>1, <1>4, KnownType
<1>6. placements' = [Known(s) EXCEPT ![gen] = new]
  BY DEF Absorb
<1>7. new \in [Uid -> Placement \cup {None}]
  <2>1. \A u \in Uid : /\ Known(s)[gen][u] \in Placement \cup {None}
                       /\ syncs[s].batch[u] \in Held \cup {None}
    BY <1>4, <1>5 DEF PlacementsType
  <2>2. \A u \in Uid :
          Absorbed(Known(s)[gen][u], syncs[s].batch[u]) \in Placement \cup {None}
    BY <2>1, AbsorbedType
  <2> QED
    BY <2>2
<1>8. \A u \in Uid : new[u] = Absorbed(placements[gen][u], syncs[s].batch[u])
  BY <1>5
<1> HIDE DEF row, gen, new
<1>9. placements' \in PlacementsType
  BY <1>4, <1>5, <1>6, <1>7 DEF PlacementsType
<1>10. \A g \in Generation : placements'[g] = IF g = gen THEN new ELSE Known(s)[g]
  BY <1>4, <1>5, <1>6 DEF PlacementsType
<1> QED
  BY <1>2, <1>3, <1>8, <1>9, <1>10 DEF row, gen

LEMMA AbsorbType ==
  ASSUME TypeOK, NEW s \in Syncer, Absorb(s)
  PROVE  TypeOK'
<1>1. syncs' \in [Syncer -> SyncRow \cup {None}]
  BY AbsorbForm DEF TypeOK
<1>2. placements' \in [Generation -> [Uid -> Placement \cup {None}]]
  BY AbsorbForm DEF PlacementsType
<1>3. facts' \in [Msg -> FactsRow \cup {None}]
  <2>1. HeadersOnly \in FactsRow
    BY DEF HeadersOnly, FactsRow
  <2> QED
    BY <2>1 DEF Absorb, TypeOK
<1>4. container' \in ContainerRow
  BY DEF Absorb, TypeOK, SyncRow
<1> QED
  BY <1>1, <1>2, <1>3, <1>4 DEF Absorb, TypeOK, server

LEMMA FinishForm ==
  ASSUME TypeOK, NEW s \in Syncer, Finish(s)
  PROVE  /\ placements' \in PlacementsType
         /\ \A g \in Generation, u \in Uid :
              placements'[g][u] =
                IF g = syncs[s].mem.generation /\ u \notin syncs[s].present
                THEN AsGone(placements[g][u]) ELSE Known(s)[g][u]
<1> DEFINE gen == syncs[s].mem.generation
           new == [u \in Uid |-> IF u \in syncs[s].present THEN Known(s)[gen][u]
                                 ELSE AsGone(Known(s)[gen][u])]
<1>1. syncs[s] \in SyncRow /\ syncs[s] # None
  BY DEF Finish, TypeOK
<1>2. gen \in Generation
  BY <1>1 DEF SyncRow, ContainerRow
<1>3. Known(s) \in PlacementsType /\ \A u \in Uid : Known(s)[gen][u] = placements[gen][u]
  BY <1>1, <1>2, KnownType
<1>4. placements' = [Known(s) EXCEPT ![gen] = new]
  BY DEF Finish, Vanished, AsGone
<1>5. new \in [Uid -> Placement \cup {None}]
  BY <1>2, <1>3, AsGoneType DEF PlacementsType
<1>6. \A u \in Uid : new[u] = IF u \in syncs[s].present THEN Known(s)[gen][u]
                              ELSE AsGone(placements[gen][u])
  BY <1>3
<1> HIDE DEF new, gen
<1>7. placements' \in PlacementsType
  BY <1>2, <1>3, <1>4, <1>5 DEF PlacementsType
<1>8. \A g \in Generation : placements'[g] = IF g = gen THEN new ELSE Known(s)[g]
  BY <1>2, <1>3, <1>4 DEF PlacementsType
<1> QED
  BY <1>6, <1>7, <1>8 DEF gen

LEMMA FinishType ==
  ASSUME TypeOK, NEW s \in Syncer, SawOf(s), Finish(s)
  PROVE  TypeOK'
<1>1. syncs[s] \in SyncRow
  BY DEF Finish, TypeOK
<1>2. syncs' \in [Syncer -> SyncRow \cup {None}]
  BY DEF Finish, TypeOK
<1>3. container' \in ContainerRow
  <2> DEFINE row == IF syncs[s].broken THEN syncs[s].mem ELSE container
  <2>1. row \in ContainerRow
    BY <1>1 DEF SyncRow, TypeOK
  <2>2. syncs[s].saw \in [validity : Validity, modseq : Version \cup {None}]
    BY <1>1 DEF SawOf, Began, On, Finish, SyncRow
  <2> QED
    BY <2>1, <2>2 DEF Finish, ContainerRow, Told, Watermark
<1>4. odd' \subseteq odd
  BY DEF Finish, Mended, Ended
<1> QED
  BY <1>2, <1>3, <1>4, FinishForm DEF Finish, TypeOK, server, PlacementsType

LEMMA FetchBodyType ==
  ASSUME TypeOK, MessagesKnown, NEW m \in Wanted, NEW u \in Uid, FetchBody(m, u)
  PROVE  /\ TypeOK'
         /\ box.at[u].msg \in Msg
         /\ facts' = [facts EXCEPT ![m] = FromBody(facts[m], box.at[u].msg)]
<1> DEFINE of == box.at[u].msg
<1>1. m \in Msg /\ of \in Msg
  BY SyncOK DEF FetchBody, TypeOK, BoxRow, Held
<1>2. facts[m] \in FactsRow
  BY <1>1 DEF FetchBody, Live, MessagesKnown, TypeOK, ContainerRow
<1>3. FromBody(facts[m], of) \in FactsRow
  BY <1>1, <1>2 DEF FromBody, FactsRow
<1>4. Recached(m, of) \in Seq(BodyRow)
  BY <1>1, RecachedAreOfThem
<1>5. Evicted(Recached(m, of)) \in Seq(BodyRow)
  BY <1>4, EvictedAreOfThem
<1>6. facts' = [facts EXCEPT ![m] = FromBody(facts[m], of)]
  BY DEF FetchBody
<1>7. bodies' \in Seq(BodyRow)
  BY <1>5 DEF FetchBody, TypeOK
<1>8. odd' \subseteq {"beside", "overlap", "mixed", "early", "blind"}
  BY DEF FetchBody, TypeOK
<1>9. facts' \in [Msg -> FactsRow \cup {None}]
  BY <1>1, <1>3, <1>6 DEF TypeOK
<1> QED
  BY <1>1, <1>6, <1>7, <1>8, <1>9 DEF FetchBody, TypeOK, server

\* A body that fits by itself is among those left when room has been made.
LEMMA FetchedStays ==
  ASSUME TypeOK, NEW m \in Msg, NEW u \in Uid, FetchBody(m, u),
         keepsBodies, Size[box.at[u].msg] <= Budget
  PROVE  \E i \in 1..Len(bodies') : bodies'[i].msg = m
<1> DEFINE of == box.at[u].msg
           kept == Recached(m, of)
           row == [msg |-> m, of |-> of]
<1>1. of \in Msg
  BY SyncOK DEF FetchBody, TypeOK, BoxRow, Held
<1>2. kept \in Seq(BodyRow) /\ Len(kept) > 0 /\ kept[Len(kept)] = row
  BY <1>1, RecachedAreOfThem, RecachedIsLast
<1>3. bodies' = Evicted(kept)
  BY DEF FetchBody
<1>4. row.of = of /\ row.msg = m
  OBVIOUS
<1> HIDE DEF kept, row
<1>5. Size[kept[Len(kept)].of] <= Budget
  BY <1>2, <1>4
<1>6. /\ Len(Evicted(kept)) > 0
      /\ Evicted(kept)[Len(Evicted(kept))] = row
  BY <1>2, <1>5, LastIsSpared
<1>7. Evicted(kept) \in Seq(BodyRow)
  BY <1>2, EvictedAreOfThem
<1>8. Len(bodies') \in 1..Len(bodies') /\ bodies'[Len(bodies')].msg = m
  BY <1>3, <1>4, <1>6, <1>7
<1> QED
  BY <1>8

-----------------------------------------------------------------------------
(* The invariant, of the steps in memory                                   *)

LEMMA InitInv == Init => SyncInv
<1> SUFFICES ASSUME Init PROVE SyncInv
  OBVIOUS
<1>1. TypeOK
  BY InitType
<1>2. \A s \in Syncer : ~On(s)
  BY DEF Init, On
<1>3. \A g \in Generation, u \in Uid : placements[g][u] = None
  BY DEF Init, Nothing
<1>4. /\ container.validity = None /\ container.modseq = None
      /\ container.generation \in Generation
      /\ \A u \in Uid : box.at[u] = None
  BY <1>1 DEF Init, Nothing, TypeOK, ContainerRow
<1>5. Sound
  <2>1. MessagesKnown /\ Counting
    BY <1>3, <1>4 DEF MessagesKnown, Counting
  <2>2. HistoryHolds
    BY <1>2 DEF Init, HistoryHolds
  <2>3. \A s \in Syncer : SawOf(s)
    BY <1>2 DEF SawOf, Began
  <2> QED
    BY <1>1, <2>1, <2>2, <2>3 DEF Sound
<1>6. PlacementsHold /\ WatermarkHolds
  BY <1>3, <1>4 DEF PlacementsHold, WatermarkHolds
<1>7. \A s \in Syncer : MindOf(s) /\ BatchOf(s) /\ ReadingOf(s) /\ AheadOf(s)
  BY <1>2 DEF MindOf, BatchOf, ReadingOf, AheadOf, Began
<1>8. BodyIsItsOwn
  BY DEF Init, BodyIsItsOwn
<1> QED
  BY <1>5, <1>6, <1>7, <1>8 DEF SyncInv

\* What a sync has in memory is no matter of the others, nor of the rows.
LEMMA InMindKeeps ==
  ASSUME SyncInv, TypeOK', NEW s \in Syncer, On(s), NEW row, row # None,
         InMind(s, row), UNCHANGED odd,
         SawOf(s)',
         "beside" \notin odd => MindOf(s)',
         Unmixed => BatchOf(s)',
         "beside" \notin odd /\ condstore => ReadingOf(s)',
         "overlap" \notin odd => AheadOf(s)'
  PROVE  SyncInv'
<1>1. /\ syncs'[s] = row
      /\ \A o \in Syncer : o # s => syncs'[o] = syncs[o]
      /\ UNCHANGED <<condstore, keepsBodies, box, container, placements, facts, bodies>>
  BY DEF InMind, SyncInv, Sound, TypeOK, server
<1>2. \A o \in Syncer : On(o)' <=> On(o)
  BY <1>1 DEF On
<1>3. ASSUME NEW o \in Syncer, o # s
      PROVE  /\ SawOf(o) => SawOf(o)'
             /\ MindOf(o) => MindOf(o)'
             /\ BatchOf(o) => BatchOf(o)'
             /\ ReadingOf(o) => ReadingOf(o)'
             /\ AheadOf(o) => AheadOf(o)'
  <2>1. syncs'[o] = syncs[o]
    BY <1>1, <1>3
  <2>2. SawOf(o) => SawOf(o)'
    BY <1>1, <2>1 DEF SawOf, On, Began
  <2>3. MindOf(o) => MindOf(o)'
    BY <1>1, <2>1 DEF MindOf, On, Began
  <2>4. BatchOf(o) => BatchOf(o)'
    BY <1>1, <2>1 DEF BatchOf, On, Began, Same, Listed
  <2>5. /\ Began(o)' = Began(o) /\ Same(o)' = Same(o)
        /\ \A u \in Uid : /\ Unmoved(o, u)' = Unmoved(o, u)
                         /\ BatchRight(o, u)' = BatchRight(o, u)
        /\ \A g, u : Right(g, u)' = Right(g, u)
    BY <1>1, <2>1 DEF On, Began, Same, Unmoved, BatchRight, Right
  <2>6. ReadingOf(o) => ReadingOf(o)'
    BY <1>1, <2>1, <2>5 DEF ReadingOf
  <2>7. AheadOf(o) => AheadOf(o)'
    BY <1>1, <2>1, <2>5 DEF AheadOf
  <2> QED
    BY <2>2, <2>3, <2>4, <2>6, <2>7
<1>4. MessagesKnown' /\ Counting' /\ HistoryHolds'
  <2>1. MessagesKnown'
    BY <1>1 DEF SyncInv, Sound, MessagesKnown
  <2>2. Counting'
    BY <1>1 DEF SyncInv, Sound, Counting
  <2>3. HistoryHolds'
    BY <1>2 DEF SyncInv, Sound, HistoryHolds
  <2> QED
    BY <2>1, <2>2, <2>3
<1>5. Sound'
  BY <1>3, <1>4 DEF SyncInv, Sound
<1>6. PlacementsHold => PlacementsHold'
  BY <1>1 DEF PlacementsHold
<1>7. WatermarkHolds => WatermarkHolds'
  BY <1>1 DEF WatermarkHolds, Right
<1>8. BodyIsItsOwn'
  BY <1>1 DEF SyncInv, BodyIsItsOwn
<1>9. Unmixed' <=> Unmixed
  BY DEF Unmixed
<1>10. condstore' = condstore /\ odd' = odd
  BY <1>1
<1> QED
  BY <1>3, <1>5, <1>6, <1>7, <1>8, <1>9, <1>10 DEF SyncInv

\* A sync that has nobody beside it.
LEMMA Histories ==
  ASSUME SyncInv
  PROVE  /\ Unmixed => "overlap" \notin odd
         /\ "overlap" \notin odd => "beside" \notin odd
BY DEF SyncInv, Sound, HistoryHolds, Unmixed

LEMMA SelectSameKeeps ==
  ASSUME SyncInv, NEW s \in Syncer, SelectSame(s)
  PROVE  SyncInv'
<1>1. PICK row \in SyncRow :
        /\ InMind(s, row)
        /\ row = [syncs[s] EXCEPT !.step = "selected", !.saw = Status,
                   !.full = @ \/ syncs[s].mem.modseq = None \/ ~condstore]
  BY SelectSameRow DEF SyncInv, Sound
<1>2. /\ row.step = "selected" /\ row.saw = Status
      /\ row.full = (syncs[s].full \/ syncs[s].mem.modseq = None \/ ~condstore)
      /\ row.mem = syncs[s].mem /\ row.broken = syncs[s].broken
      /\ row.batch = syncs[s].batch
  BY <1>1 DEF SyncInv, Sound, TypeOK, SelectSame, SyncRow
<1>3. /\ syncs'[s] = row /\ row # None /\ On(s)
      /\ UNCHANGED <<condstore, box, container, placements, odd>>
  BY <1>1, Apart DEF InMind, SyncInv, Sound, TypeOK, SelectSame, server, On
<1>4. /\ syncs[s].step = "loaded" /\ ~syncs[s].broken
      /\ \A u \in Uid : syncs[s].batch[u] = None
  BY DEF SyncInv, Sound, SawOf, SelectSame, On
<1>5. /\ Status # None /\ Status.validity = box.validity
      /\ Status.modseq = IF condstore THEN box.version ELSE None
      /\ box.validity \in Nat /\ box.version \in Nat
  BY Apart, StatusType, SyncOK DEF Status, SyncInv, Sound, TypeOK, BoxRow, Validity, Version
<1>6. syncs[s].mem.validity \in {None, box.validity}
  BY DEF SelectSame, IdentityBroken
<1>7. SawOf(s)'
  <2>1. condstore \in BOOLEAN /\ row.full \in BOOLEAN /\ row.broken = FALSE
    BY <1>1, <1>2, <1>4 DEF SyncInv, Sound, TypeOK, SyncRow
  <2>2. /\ row.mem.validity # None => row.mem.validity <= box.validity
        /\ row.saw # None
        /\ row.saw.validity <= box.validity
        /\ IF condstore THEN row.saw.modseq \in Nat /\ row.saw.modseq <= box.version
                        ELSE row.saw.modseq = None
    BY <1>2, <1>5, <1>6
  <2>3. ~row.full => condstore
    BY <1>2
  <2> QED
    BY <2>1, <2>2, <2>3, <1>2, <1>3, <1>4 DEF SawOf, On, Began
<1>8. "beside" \notin odd => MindOf(s)'
  BY <1>2, <1>3, <1>4, <1>5, <1>6 DEF MindOf, On, Began, SyncInv
<1>9. Unmixed => BatchOf(s)'
  BY <1>2, <1>3, <1>4, <1>5, <1>6 DEF BatchOf, On, Began, Same, Listed
<1>10. "beside" \notin odd /\ condstore => ReadingOf(s)'
  BY <1>2, <1>3, <1>4, <1>5 DEF ReadingOf, On, Began, Same, Unmoved, BatchRight
<1>11. "overlap" \notin odd => AheadOf(s)'
  BY <1>2, <1>3, <1>4, <1>5 DEF AheadOf, WatermarkHolds, SyncInv, On, Began, Same, Unmoved
<1>12. UNCHANGED odd /\ TypeOK'
  BY ThinksType DEF SyncInv, Sound, Thinks, SelectSame
<1> QED
  BY <1>1, <1>3, <1>7, <1>8, <1>9, <1>10, <1>11, <1>12, InMindKeeps

LEMMA SelectOtherKeeps ==
  ASSUME SyncInv, NEW s \in Syncer, SelectOther(s)
  PROVE  SyncInv'
<1>1. PICK row \in SyncRow :
        /\ InMind(s, row)
        /\ row = [syncs[s] EXCEPT !.step = "selected", !.saw = Status,
                   !.full = TRUE, !.broken = TRUE, !.mem = Broken(@)]
  BY SelectOtherRow DEF SyncInv, Sound
<1>2. /\ row.step = "selected" /\ row.saw = Status /\ row.full = TRUE /\ row.broken = TRUE
      /\ row.mem = Broken(syncs[s].mem)
      /\ row.batch = syncs[s].batch
  BY <1>1 DEF SyncInv, Sound, TypeOK, SelectOther, SyncRow
<1>3. /\ syncs'[s] = row /\ row # None /\ On(s)
      /\ UNCHANGED <<condstore, box, container, placements, odd>>
  BY <1>1, Apart DEF InMind, SyncInv, Sound, TypeOK, SelectOther, server, On
<1>4. /\ syncs[s].step = "loaded" /\ ~syncs[s].broken
      /\ \A u \in Uid : syncs[s].batch[u] = None
      /\ syncs[s].mem.validity # None => syncs[s].mem.validity <= box.validity
  BY DEF SyncInv, Sound, SawOf, SelectOther, On
<1>5. /\ Status # None /\ Status.validity = box.validity
      /\ Status.modseq = IF condstore THEN box.version ELSE None
      /\ box.validity \in Nat /\ box.version \in Nat
  BY Apart, StatusType, SyncOK DEF Status, SyncInv, Sound, TypeOK, BoxRow, Validity, Version
<1>6. /\ syncs[s].mem.validity # None /\ syncs[s].mem.validity # box.validity
      /\ syncs[s].mem.validity \in Nat
  BY SyncOK DEF SelectOther, IdentityBroken, SyncInv, Sound, TypeOK, SyncRow, ContainerRow, Validity
<1>7. /\ row.mem.validity = box.validity /\ row.mem.modseq = None
      /\ row.mem.generation = syncs[s].mem.generation + 1
  BY <1>2 DEF Broken
<1>8. SawOf(s)'
  <2>1. condstore \in BOOLEAN
    BY DEF SyncInv, Sound, TypeOK
  <2> QED
    BY <2>1, <1>2, <1>3, <1>4, <1>5, <1>7 DEF SawOf, On, Began
<1>9. "beside" \notin odd => MindOf(s)'
  <2>1. "beside" \notin odd => syncs[s].mem = container
    BY <1>3, <1>4 DEF SyncInv, MindOf
  <2> QED
    BY <2>1, <1>2, <1>3, <1>4, <1>5, <1>6, <1>7 DEF MindOf, On, Began
<1>10. Unmixed => BatchOf(s)'
  BY <1>2, <1>3, <1>4, <1>5 DEF BatchOf, On, Began, Same, Listed
<1>11. "beside" \notin odd /\ condstore => ReadingOf(s)'
  BY <1>2, <1>3, <1>4, <1>5 DEF ReadingOf, On, Began, Same, Unmoved, BatchRight
<1>12. "overlap" \notin odd => AheadOf(s)'
  BY <1>2, <1>3, <1>4, <1>5 DEF AheadOf, WatermarkHolds, SyncInv, On, Began, Same, Unmoved
<1>13. UNCHANGED odd /\ TypeOK'
  BY ThinksType DEF SyncInv, Sound, Thinks, SelectOther
<1> QED
  BY <1>1, <1>3, <1>8, <1>9, <1>10, <1>11, <1>12, <1>13, InMindKeeps

LEMMA ReadChangedKeeps ==
  ASSUME SyncInv, NEW s \in Syncer, ReadChanged(s)
  PROVE  SyncInv'
<1>1. PICK row \in SyncRow :
        /\ InMind(s, row)
        /\ row = [syncs[s] EXCEPT !.step = "read", !.batch = ChangedNow(s)]
  BY ReadChangedRow DEF SyncInv, Sound
<1>2. /\ row.step = "read" /\ row.batch = ChangedNow(s)
      /\ row.saw = syncs[s].saw /\ row.full = syncs[s].full /\ row.broken = syncs[s].broken
      /\ row.mem = syncs[s].mem /\ row.present = syncs[s].present
  BY <1>1 DEF SyncInv, Sound, TypeOK, ReadChanged, SyncRow
<1>3. /\ syncs'[s] = row /\ row # None /\ On(s) /\ Began(s)
      /\ syncs[s].step = "selected" /\ ~syncs[s].full /\ Same(s)
      /\ UNCHANGED <<condstore, box, container, placements, odd>>
  BY <1>1, Apart DEF InMind, SyncInv, Sound, TypeOK, ReadChanged, server, On, Began, Same, Answers
<1>4. SawOf(s) /\ ~syncs[s].broken /\ condstore
  BY <1>3 DEF SyncInv, Sound, SawOf
<1>5. "beside" \notin odd =>
        /\ syncs[s].mem = container
        /\ syncs[s].mem.modseq # None
        /\ MindOf(s)
  BY <1>3, <1>4 DEF SyncInv, MindOf
<1>6. \A u \in Uid : row.batch[u] # None =>
        /\ row.batch[u] = box.at[u]
        /\ box.at[u] # None
  BY <1>2 DEF ChangedNow
<1>7. SawOf(s)'
  BY <1>2, <1>3, <1>4 DEF SawOf, On, Began
<1>8. "beside" \notin odd => MindOf(s)'
  BY <1>2, <1>3, <1>4, <1>5 DEF MindOf, On, Began
<1>9. Unmixed => BatchOf(s)'
  <2> SUFFICES ASSUME Unmixed PROVE BatchOf(s)'
    OBVIOUS
  <2>1. PlacementsHold /\ MindOf(s) /\ syncs[s].mem = container
    BY <1>5, Histories DEF SyncInv
  <2>2. box.validity = syncs[s].saw.validity /\ container.validity \in {None, box.validity}
    BY <1>3, <1>4, <2>1 DEF MindOf, Same
  <2>3. \A u \in Uid : box.at[u] # None => u <= box.uids
    BY DEF SyncInv, Sound, Counting
  <2>4. ASSUME NEW u \in Uid, row.batch[u] # None
        PROVE  /\ u <= box.uids
               /\ row.batch[u].msg = box.at[u].msg
               /\ placements[container.generation][u] # None =>
                    ~placements[container.generation][u].gone
    BY <1>6, <2>1, <2>2, <2>3, <2>4 DEF PlacementsHold
  <2> QED
    BY <1>2, <1>3, <2>1, <2>2, <2>4 DEF BatchOf, On, Began, Same, Listed
<1>10. "beside" \notin odd /\ condstore => ReadingOf(s)'
  BY <1>2, <1>3, <1>6 DEF ReadingOf, On, Began, Same, Unmoved, BatchRight
<1>11. "overlap" \notin odd => AheadOf(s)'
  <2> SUFFICES ASSUME "overlap" \notin odd PROVE AheadOf(s)'
    OBVIOUS
  <2>1. WatermarkHolds /\ AheadOf(s) /\ syncs[s].mem = container /\ container.modseq # None
    BY <1>5, Histories DEF SyncInv
  <2>2. container.validity = box.validity
    BY <1>3, <1>4, <1>5, <2>1, Histories DEF MindOf, WatermarkHolds, Same
  <2>3. container.modseq \in Nat /\ \A u \in Uid : box.at[u] # None => box.at[u].version \in Nat
    BY <2>1 DEF SyncInv, Sound, TypeOK, ContainerRow, BoxRow, Held, Version
  <2>4. ASSUME NEW u \in Uid, box.at[u] # None
        PROVE  \/ row.batch[u] = box.at[u]
               \/ Right(container.generation, u)
    BY <1>2, <2>1, <2>2, <2>3, <2>4 DEF ChangedNow, WatermarkHolds
  <2>5. container.modseq # None => container.modseq <= row.saw.modseq
    BY <1>2, <1>3, <2>1 DEF AheadOf
  <2> QED
    BY <1>2, <1>3, <2>1, <2>4, <2>5
    DEF AheadOf, On, Began, Same, Unmoved, BatchRight, Right
<1>12. UNCHANGED odd /\ TypeOK'
  BY ThinksType DEF SyncInv, Sound, Thinks, ReadChanged
<1> QED
  BY <1>1, <1>3, <1>7, <1>8, <1>9, <1>10, <1>11, <1>12, InMindKeeps

LEMMA ListKeeps ==
  ASSUME SyncInv, NEW s \in Syncer, List(s)
  PROVE  SyncInv'
<1>1. PICK row \in SyncRow :
        /\ InMind(s, row)
        /\ row = [syncs[s] EXCEPT !.step = IF There = {} THEN "listed" ELSE "reading",
                   !.todo = There, !.present = There]
  BY ListRow DEF SyncInv, Sound
<1>2. /\ row.step = IF There = {} THEN "listed" ELSE "reading"
      /\ row.todo = There /\ row.present = There
      /\ row.saw = syncs[s].saw /\ row.full = syncs[s].full /\ row.broken = syncs[s].broken
      /\ row.mem = syncs[s].mem /\ row.batch = syncs[s].batch
  BY <1>1 DEF SyncInv, Sound, TypeOK, List, SyncRow
<1>3. /\ syncs'[s] = row /\ row # None /\ On(s) /\ Began(s)
      /\ syncs[s].step = "selected" /\ syncs[s].full
      /\ UNCHANGED <<condstore, box, container, placements, odd>>
  BY <1>1, Apart DEF InMind, SyncInv, Sound, TypeOK, List, server, On, Began
<1>4. SawOf(s) /\ \A u \in Uid : syncs[s].batch[u] = None
  BY <1>3 DEF SyncInv, Sound, SawOf
<1>5. \A u \in Uid : box.at[u] # None => u \in There
  BY DEF There
<1>6. SawOf(s)'
  BY <1>2, <1>3, <1>4 DEF SawOf, On, Began
<1>7. "beside" \notin odd => MindOf(s)'
  <2>1. "beside" \notin odd => MindOf(s)
    BY DEF SyncInv
  <2> QED
    BY <2>1, <1>2, <1>3 DEF MindOf, On, Began
<1>8. Unmixed => BatchOf(s)'
  <2>1. Unmixed => BatchOf(s)
    BY DEF SyncInv
  <2> QED
    BY <2>1, <1>2, <1>3, <1>4, <1>5 DEF BatchOf, On, Began, Same, Listed
<1>9. "beside" \notin odd /\ condstore => ReadingOf(s)'
  BY <1>2, <1>3, <1>4, <1>5 DEF ReadingOf, On, Began, Same, Unmoved, BatchRight
<1>10. "overlap" \notin odd => AheadOf(s)'
  <2>1. "overlap" \notin odd => AheadOf(s)
    BY DEF SyncInv
  <2> QED
    BY <2>1, <1>2, <1>3 DEF AheadOf, On, Began, Same, Unmoved
<1>11. UNCHANGED odd /\ TypeOK'
  BY ThinksType DEF SyncInv, Sound, Thinks, List
<1> QED
  BY <1>1, <1>3, <1>6, <1>7, <1>8, <1>9, <1>10, <1>11, InMindKeeps

\* What is remembered where the sync will put down what it reads, as long as the
\* folder is the one it has selected.
LEMMA WhereItWrites ==
  ASSUME SyncInv, Unmixed, NEW s \in Syncer, Began(s), Same(s), NEW u \in Uid,
         placements[syncs[s].mem.generation][u] # None
  PROVE  /\ ~syncs[s].broken
         /\ syncs[s].mem = container
         /\ u <= box.uids
         /\ box.at[u] # None =>
              /\ placements[syncs[s].mem.generation][u].msg = box.at[u].msg
              /\ ~placements[syncs[s].mem.generation][u].gone
<1>1. PlacementsHold /\ MindOf(s)
  BY Histories DEF SyncInv
<1>2. syncs[s].mem.generation \in Generation /\ container.generation \in Generation
  BY DEF SyncInv, Sound, TypeOK, SyncRow, ContainerRow, Began, On
<1>3. ~syncs[s].broken
  BY <1>1, <1>2 DEF MindOf, PlacementsHold, Began, Generation
<1>4. syncs[s].mem = container /\ container.validity \in {None, box.validity}
  BY <1>1, <1>3 DEF MindOf, Began, Same
<1> QED
  BY <1>1, <1>3, <1>4 DEF PlacementsHold

LEMMA ReadBatchKeeps ==
  ASSUME SyncInv, NEW s \in Syncer, ReadBatch(s)
  PROVE  SyncInv'
<1>1. PICK row \in SyncRow, v \in syncs[s].todo :
        /\ InMind(s, row)
        /\ row = [syncs[s] EXCEPT !.step = "read", !.todo = @ \ {v},
                   !.batch = [Nothing EXCEPT ![v] = box.at[v]]]
  BY ReadBatchRow DEF SyncInv, Sound
<1>2. /\ row.step = "read"
      /\ row.todo = syncs[s].todo \ {v} /\ row.present = syncs[s].present
      /\ row.saw = syncs[s].saw /\ row.full = syncs[s].full /\ row.broken = syncs[s].broken
      /\ row.mem = syncs[s].mem /\ row.batch = [Nothing EXCEPT ![v] = box.at[v]]
  BY <1>1 DEF SyncInv, Sound, TypeOK, ReadBatch, SyncRow
<1>3. /\ syncs'[s] = row /\ row # None /\ On(s) /\ Began(s)
      /\ syncs[s].step = "reading" /\ Same(s)
      /\ UNCHANGED <<condstore, box, container, placements, odd>>
  BY <1>1, Apart DEF InMind, SyncInv, Sound, TypeOK, ReadBatch, server, On, Began, Same, Answers
<1>4. /\ SawOf(s) /\ \A u \in Uid : syncs[s].batch[u] = None
      /\ syncs[s].full /\ v \in syncs[s].present /\ v \in Uid
  BY <1>1, <1>3 DEF SyncInv, Sound, SawOf, TypeOK, SyncRow, On
<1>5. \A u \in Uid : row.batch[u] = IF u = v THEN box.at[v] ELSE None
  BY <1>2, <1>4 DEF Nothing
<1>6. SawOf(s)'
  BY <1>2, <1>3, <1>4 DEF SawOf, On, Began
<1>7. "beside" \notin odd => MindOf(s)'
  <2>1. "beside" \notin odd => MindOf(s)
    BY DEF SyncInv
  <2> QED
    BY <2>1, <1>2, <1>3 DEF MindOf, On, Began
<1>8. Unmixed => BatchOf(s)'
  <2> SUFFICES ASSUME Unmixed PROVE BatchOf(s)'
    OBVIOUS
  <2>1. BatchOf(s) /\ Listed(s)
    BY <1>3 DEF SyncInv, Listed
  <2>2. \A u \in Uid : box.at[u] # None => u <= box.uids
    BY DEF SyncInv, Sound, Counting
  <2>3. \A u \in Uid : row.batch[u] # None /\ placements[syncs[s].mem.generation][u] # None =>
            ~placements[syncs[s].mem.generation][u].gone
    BY <1>3, <1>5, WhereItWrites
  <2>4. \A u \in Uid : row.batch[u] # None =>
          /\ row.batch[u] = box.at[u] /\ u <= box.uids
          /\ u \in row.present
    BY <2>2, <1>2, <1>4, <1>5
  <2>5. \A u \in Uid :
          /\ u \notin row.present
          /\ placements[row.mem.generation][u] # None
          => box.at[u] = None
    BY <2>1, <1>2, <1>3 DEF BatchOf
  <2> QED
    BY <2>3, <2>4, <2>5, <1>2, <1>3, ZenonT(40) DEF BatchOf, On, Began, Same
<1>9. "beside" \notin odd /\ condstore => ReadingOf(s)'
  <2>1. "beside" \notin odd /\ condstore => ReadingOf(s)
    BY DEF SyncInv
  <2>2. ASSUME "beside" \notin odd, condstore, NEW u \in Uid, Unmoved(s, u)
        PROVE  /\ row.batch[u] # None => u = v /\ row.batch[u] = box.at[u]
               /\ u \in row.present
               /\ \/ u \in row.todo
                  \/ u = v /\ row.batch[u] = box.at[u]
                  \/ Right(row.mem.generation, u)
    BY <2>1, <2>2, <1>2, <1>3, <1>4, <1>5 DEF ReadingOf, BatchRight
  <2>3. \A u \in Uid : Unmoved(s, u)' <=> Unmoved(s, u)
    BY <1>2, <1>3 DEF Unmoved
  <2>4. \A u \in Uid : Unmoved(s, u) => box.at[u] # None
    BY DEF Unmoved
  <2>5. ASSUME "beside" \notin odd, condstore, NEW u \in Uid, Unmoved(s, u)'
        PROVE  /\ row.batch[u] # None => BatchRight(s, u)'
               /\ u \in row.present
               /\ \/ u \in row.todo
                  \/ BatchRight(s, u)'
                  \/ Right(syncs[s].mem.generation, u)'
    <3>1. BatchRight(s, u)' <=> row.batch[u] # None /\ row.batch[u].version = box.at[u].version
      BY <1>3 DEF BatchRight
    <3>2. Right(syncs[s].mem.generation, u)' <=> Right(row.mem.generation, u)
      BY <1>3 DEF Right
    <3> QED
      BY <2>2, <2>3, <2>4, <2>5, <3>1, <3>2
  <2> QED
    BY <2>5, <1>2, <1>3 DEF ReadingOf
<1>10. "overlap" \notin odd => AheadOf(s)'
  <2>1. "overlap" \notin odd => AheadOf(s)
    BY DEF SyncInv
  <2> QED
    BY <2>1, <1>2, <1>3, <1>4 DEF AheadOf, On, Began, Same, Unmoved
<1>11. UNCHANGED odd /\ TypeOK'
  BY ThinksType DEF SyncInv, Sound, Thinks, ReadBatch
<1> QED
  BY <1>1, <1>3, <1>6, <1>7, <1>8, <1>9, <1>10, <1>11, InMindKeeps

LEMMA ListAgainKeeps ==
  ASSUME SyncInv, NEW s \in Syncer, ListAgain(s)
  PROVE  SyncInv'
<1>1. PICK row \in SyncRow :
        /\ InMind(s, row)
        /\ row = [syncs[s] EXCEPT !.step = "listed", !.present = There]
  BY ListAgainRow DEF SyncInv, Sound
<1>2. /\ row.step = "listed" /\ row.present = There
      /\ row.saw = syncs[s].saw /\ row.full = syncs[s].full /\ row.broken = syncs[s].broken
      /\ row.mem = syncs[s].mem /\ row.batch = syncs[s].batch
  BY <1>1 DEF SyncInv, Sound, TypeOK, ListAgain, SyncRow
<1>3. /\ syncs'[s] = row /\ row # None /\ On(s) /\ Began(s) /\ Same(s)
      /\ syncs[s].step = "absorbed"
      /\ UNCHANGED <<condstore, box, container, placements, odd>>
  BY <1>1, Apart DEF InMind, SyncInv, Sound, TypeOK, ListAgain, server, On, Began, Same, Answers
<1>4. /\ SawOf(s) /\ ~syncs[s].full
      /\ \A u \in Uid : syncs[s].batch[u] = None
  BY <1>3 DEF SyncInv, Sound, SawOf
<1>5. \A u \in Uid : box.at[u] # None => u \in There
  BY DEF There
<1>6. SawOf(s)'
  BY <1>2, <1>3, <1>4 DEF SawOf, On, Began
<1>7. "beside" \notin odd => MindOf(s)'
  <2>1. "beside" \notin odd => MindOf(s)
    BY DEF SyncInv
  <2> QED
    BY <2>1, <1>2, <1>3 DEF MindOf, On, Began
<1>8. Unmixed => BatchOf(s)'
  <2>1. Unmixed => BatchOf(s)
    BY DEF SyncInv
  <2> QED
    BY <2>1, <1>2, <1>3, <1>4, <1>5 DEF BatchOf, On, Began, Same, Listed
<1>9. "beside" \notin odd /\ condstore => ReadingOf(s)'
  BY <1>2, <1>3, <1>4 DEF ReadingOf, On, Began, Same, Unmoved, BatchRight
<1>10. "overlap" \notin odd => AheadOf(s)'
  <2>1. "overlap" \notin odd => AheadOf(s)
    BY DEF SyncInv
  <2> QED
    BY <2>1, <1>2, <1>3, <1>4, <1>5 DEF AheadOf, On, Began, Same, Unmoved, Right
<1>11. UNCHANGED odd /\ TypeOK'
  BY ThinksType DEF SyncInv, Sound, Thinks, ListAgain
<1> QED
  BY <1>1, <1>3, <1>6, <1>7, <1>8, <1>9, <1>10, <1>11, InMindKeeps

LEMMA ThinksKeeps ==
  ASSUME SyncInv, NEW s \in Syncer, Thinks(s)
  PROVE  SyncInv'
BY SelectSameKeeps, SelectOtherKeeps, ReadChangedKeeps, ListKeeps, ReadBatchKeeps, ListAgainKeeps
DEF Thinks

-----------------------------------------------------------------------------
(* The invariant, as syncs begin and end                                   *)

\* A sync that is as it was, of rows and a folder that are.
LEMMA OtherStays ==
  ASSUME NEW o \in Syncer, syncs'[o] = syncs[o],
         UNCHANGED <<condstore, box, container, placements>>
  PROVE  /\ SawOf(o) => SawOf(o)'
         /\ MindOf(o) => MindOf(o)'
         /\ BatchOf(o) => BatchOf(o)'
         /\ ReadingOf(o) => ReadingOf(o)'
         /\ AheadOf(o) => AheadOf(o)'
<1>2. SawOf(o) => SawOf(o)'
  BY DEF SawOf, On, Began
<1>3. MindOf(o) => MindOf(o)'
  BY DEF MindOf, On, Began
<1>4. BatchOf(o) => BatchOf(o)'
  BY DEF BatchOf, On, Began, Same, Listed
<1>5. ReadingOf(o) => ReadingOf(o)'
  BY DEF ReadingOf, On, Began, Same, Unmoved, BatchRight, Right
<1>6. AheadOf(o) => AheadOf(o)'
  BY DEF AheadOf, On, Began, Same, Unmoved, BatchRight, Right
<1> QED
  BY <1>2, <1>3, <1>4, <1>5, <1>6

LEMMA RowsStay ==
  ASSUME UNCHANGED <<condstore, box, container, placements, facts, bodies>>
  PROVE  /\ MessagesKnown => MessagesKnown'
         /\ Counting => Counting'
         /\ PlacementsHold => PlacementsHold'
         /\ WatermarkHolds => WatermarkHolds'
         /\ BodyIsItsOwn /\ odd \cap {"mixed", "early", "blind"} \subseteq odd' => BodyIsItsOwn'
<1>1. MessagesKnown => MessagesKnown'
  BY DEF MessagesKnown
<1>2. Counting => Counting'
  BY DEF Counting
<1>3. PlacementsHold => PlacementsHold'
  BY DEF PlacementsHold
<1>4. WatermarkHolds => WatermarkHolds'
  BY DEF WatermarkHolds, Right
<1>5. BodyIsItsOwn /\ odd \cap {"mixed", "early", "blind"} \subseteq odd' => BodyIsItsOwn'
  BY DEF BodyIsItsOwn
<1> QED
  BY <1>1, <1>2, <1>3, <1>4, <1>5

\* Nothing at all is under way.
LEMMA OffHolds ==
  ASSUME NEW o \in Syncer, ~On(o)
  PROVE  SawOf(o) /\ MindOf(o) /\ BatchOf(o) /\ ReadingOf(o) /\ AheadOf(o)
BY DEF SawOf, MindOf, BatchOf, ReadingOf, AheadOf, Began

LEMMA LoadKeeps ==
  ASSUME SyncInv, NEW s \in Syncer, NEW force \in BOOLEAN, Load(s, force)
  PROVE  SyncInv'
<1> DEFINE row == [step |-> "loaded", full |-> force, mem |-> container,
             broken |-> FALSE, saw |-> None, todo |-> {}, present |-> {}, batch |-> Nothing]
<1>1. TypeOK /\ TypeOK'
  BY LoadType DEF SyncInv, Sound
<1>2. /\ syncs'[s] = row
      /\ \A o \in Syncer : o # s => syncs'[o] = syncs[o]
      /\ UNCHANGED <<condstore, box, container, placements, facts, bodies>>
  BY <1>1 DEF Load, TypeOK, server
<1>3. /\ On(s)' /\ ~Began(s)'
      /\ \A o \in Syncer : o # s => (On(o)' <=> On(o))
  <2>1. row # None
    BY <1>1, <1>2, Apart, NothingType DEF SyncRow, TypeOK
  <2> QED
    BY <1>2, <2>1 DEF On, Began
<1>4. /\ odd \subseteq odd' /\ odd' \ odd \subseteq {"beside", "overlap", "mixed"}
      /\ "beside" \notin odd' => \A o \in Syncer : o # s => ~On(o)
      /\ "overlap" \notin odd' \/ "mixed" \notin odd' => "beside" \notin odd' \/ "beside" \in odd
  BY DEF Load, Alone, On
<1>5. HistoryHolds'
  <2>1. HistoryHolds
    BY DEF SyncInv, Sound
  <2>2. CASE Alone(s)
    BY <1>3, <1>4, <2>1, <2>2 DEF HistoryHolds, Load, Alone, On
  <2>3. CASE ~Alone(s)
    BY <1>3, <1>4, <2>1, <2>3 DEF HistoryHolds, Load
  <2> QED
    BY <2>2, <2>3
<1>6. SawOf(s)' /\ MindOf(s)' /\ BatchOf(s)' /\ ReadingOf(s)' /\ AheadOf(s)'
  <2>1. SawOf(s)'
    BY <1>1, <1>2, <1>3 DEF SawOf, SyncInv, Sound, Counting, Nothing
  <2>2. MindOf(s)'
    BY <1>2, <1>3 DEF MindOf
  <2>3. BatchOf(s)' /\ ReadingOf(s)' /\ AheadOf(s)'
    BY <1>3 DEF BatchOf, ReadingOf, AheadOf
  <2> QED
    BY <2>1, <2>2, <2>3
<1>7. \A o \in Syncer : o # s =>
        /\ SawOf(o) => SawOf(o)'
        /\ MindOf(o) => MindOf(o)'
        /\ BatchOf(o) => BatchOf(o)'
        /\ ReadingOf(o) => ReadingOf(o)'
        /\ AheadOf(o) => AheadOf(o)'
  BY <1>2, OtherStays
<1>8. /\ MessagesKnown' /\ Counting' /\ BodyIsItsOwn'
      /\ PlacementsHold => PlacementsHold'
      /\ WatermarkHolds => WatermarkHolds'
  BY <1>2, <1>4, RowsStay DEF SyncInv, Sound
<1>9. Unmixed' => Unmixed
  BY <1>4 DEF Unmixed
<1>10. Sound'
  BY <1>1, <1>5, <1>6, <1>7, <1>8 DEF SyncInv, Sound
<1> HIDE DEF row
<1> QED
  BY <1>2, <1>4, <1>6, <1>7, <1>8, <1>9, <1>10 DEF SyncInv

\* What a sync leaves in the history when it ends.
LEMMA HistoryGoesOn ==
  ASSUME SyncInv, NEW s \in Syncer, On(s), ~On(s)',
         \A o \in Syncer : o # s => (On(o)' <=> On(o)),
         odd' = Ended(s) \/ odd' = Mended(s)
  PROVE  /\ HistoryHolds'
         /\ Unmixed' <=> Unmixed
         /\ odd \cap {"mixed", "early", "blind"} \subseteq odd'
         /\ "beside" \notin odd' =>
              "beside" \notin odd \/ \A o \in Syncer : ~On(o)'
<1>1. HistoryHolds
  BY DEF SyncInv, Sound
<1>2. Alone(s) <=> \A o \in Syncer : o # s => ~On(o)
  BY DEF Alone, On
<1>3. CASE odd' = Ended(s)
  BY <1>1, <1>2, <1>3 DEF HistoryHolds, Ended, Unmixed
<1>4. CASE odd' = odd \ {"overlap"} /\ "beside" \notin odd
  BY <1>1, <1>2, <1>4 DEF HistoryHolds, Unmixed
<1> QED
  BY <1>3, <1>4 DEF Mended

LEMMA FailKeeps ==
  ASSUME SyncInv, NEW s \in Syncer, Fail(s)
  PROVE  SyncInv'
<1>1. TypeOK /\ TypeOK'
  BY FailType DEF SyncInv, Sound
<1>2. /\ syncs'[s] = None
      /\ \A o \in Syncer : o # s => syncs'[o] = syncs[o]
      /\ UNCHANGED <<condstore, box, container, placements, facts, bodies>>
  BY <1>1 DEF Fail, TypeOK, server
<1>3. /\ On(s) /\ ~On(s)'
      /\ \A o \in Syncer : o # s => (On(o)' <=> On(o))
  BY <1>2 DEF On, Fail
<1>4. odd' = Ended(s)
  BY DEF Fail
<1>5. /\ HistoryHolds'
      /\ Unmixed' <=> Unmixed
      /\ odd \cap {"mixed", "early", "blind"} \subseteq odd'
      /\ "beside" \notin odd' => "beside" \notin odd \/ \A o \in Syncer : ~On(o)'
  BY <1>3, <1>4, HistoryGoesOn
<1>6. \A o \in Syncer : o # s =>
        /\ SawOf(o) => SawOf(o)'
        /\ MindOf(o) => MindOf(o)'
        /\ BatchOf(o) => BatchOf(o)'
        /\ ReadingOf(o) => ReadingOf(o)'
        /\ AheadOf(o) => AheadOf(o)'
  BY <1>2, OtherStays
<1>7. \A o \in Syncer : ~On(o)' =>
        SawOf(o)' /\ MindOf(o)' /\ BatchOf(o)' /\ ReadingOf(o)' /\ AheadOf(o)'
  BY DEF SawOf, MindOf, BatchOf, ReadingOf, AheadOf, Began
<1>8. /\ MessagesKnown' /\ Counting' /\ BodyIsItsOwn'
      /\ PlacementsHold => PlacementsHold'
      /\ WatermarkHolds => WatermarkHolds'
  BY <1>2, <1>5, RowsStay DEF SyncInv, Sound
<1>9. Sound'
  BY <1>1, <1>3, <1>5, <1>6, <1>7, <1>8 DEF SyncInv, Sound
<1>10. "overlap" \notin odd' => "overlap" \notin odd
  BY <1>4 DEF Ended
<1> QED
  BY <1>2, <1>3, <1>5, <1>6, <1>7, <1>8, <1>9, <1>10 DEF SyncInv

-----------------------------------------------------------------------------
(* The invariant, as the folder changes                                    *)

\* The folder goes on: what is there is as it was, is gone, or is newer than
\* all there was, and what is new there has a UID of its own.
Moves ==
  /\ box'.validity = box.validity
  /\ box.version \in Nat /\ box.uids \in Nat
  /\ box'.version = box.version + 1
  /\ box'.uids \in Nat /\ box.uids <= box'.uids
  /\ \A u \in Uid :
       \/ box'.at[u] = box.at[u]
       \/ box'.at[u] = None
       \/ /\ box'.at[u] # None
          /\ box'.at[u].version = box'.version
          /\ u <= box'.uids
          /\ box.at[u] = None => u > box.uids
          /\ box.at[u] # None => box'.at[u].msg = box.at[u].msg
  /\ UNCHANGED <<condstore, container, placements, facts, bodies, syncs, odd>>

LEMMA ItMoves ==
  ASSUME SyncInv, Mailbox
  PROVE  Moves \/ Recreate
<1>1. /\ box \in BoxRow /\ box.version \in Nat /\ box.uids \in Nat
      /\ \A u \in Uid : box.at[u] # None => u <= box.uids
  BY SyncOK DEF SyncInv, Sound, TypeOK, BoxRow, Version, Counting
<1>2. ASSUME NEW m \in Msg, Deliver(m) PROVE Moves
  <2> DEFINE held == [msg |-> m, version |-> box.version + 1]
  <2>1. held \in Held
    <3>1. box.version + 1 \in Version
      BY <1>1, <1>2, SyncOK DEF Deliver, Changes, Version
    <3> QED
      BY <3>1 DEF Held
  <2>2. /\ box'.validity = box.validity /\ box'.version = box.version + 1
        /\ box'.uids = box.uids + 1
        /\ box'.at = [box.at EXCEPT ![box.uids + 1] = held]
    BY <1>1, <1>2 DEF Deliver, BoxRow
  <2>3. \A u \in Uid : box'.at[u] = IF u = box.uids + 1 THEN held ELSE box.at[u]
    BY <1>1, <2>2 DEF BoxRow
  <2>4. held # None /\ held.version = box.version + 1
    BY <2>1, Apart
  <2> HIDE DEF held
  <2>5. \A u \in Uid : u = box.uids + 1 => box.at[u] = None
    BY <1>1 DEF Uid
  <2> QED
    BY <1>1, <1>2, <2>2, <2>3, <2>4, <2>5 DEF Moves, Deliver, Cached
<1>3. ASSUME NEW v \in Uid, Touch(v) PROVE Moves
  <2> DEFINE held == [box.at[v] EXCEPT !.version = box.version + 1]
  <2>1. box.at[v] \in Held /\ box.version + 1 \in Version
    BY <1>1, <1>3, SyncOK DEF Touch, Changes, BoxRow, Version
  <2>2. /\ box'.validity = box.validity /\ box'.version = box.version + 1
        /\ box'.uids = box.uids
        /\ box'.at = [box.at EXCEPT ![v] = held]
    BY <1>1, <1>3 DEF Touch, BoxRow
  <2>3. \A u \in Uid : box'.at[u] = IF u = v THEN held ELSE box.at[u]
    BY <1>1, <2>2 DEF BoxRow
  <2>4. held \in Held /\ held.version = box.version + 1 /\ held.msg = box.at[v].msg
    BY <2>1 DEF Held
  <2>5. held # None
    BY <2>4, Apart
  <2> HIDE DEF held
  <2> QED
    BY <1>1, <1>3, <2>2, <2>3, <2>4, <2>5 DEF Moves, Touch, Cached
<1>4. ASSUME NEW v \in Uid, Expunge(v) PROVE Moves
  <2>1. /\ box'.validity = box.validity /\ box'.version = box.version + 1
        /\ box'.uids = box.uids
        /\ box'.at = [box.at EXCEPT ![v] = None]
    BY <1>1, <1>4 DEF Expunge, BoxRow
  <2>2. \A u \in Uid : box'.at[u] = IF u = v THEN None ELSE box.at[u]
    BY <1>1, <2>1 DEF BoxRow
  <2> QED
    BY <1>1, <1>4, <2>1, <2>2 DEF Moves, Expunge, Cached
<1> QED
  BY <1>2, <1>3, <1>4 DEF Mailbox

LEMMA MovesKeep ==
  ASSUME SyncInv, TypeOK', Moves
  PROVE  SyncInv'
<1>1. /\ UNCHANGED <<condstore, container, placements, facts, bodies, syncs, odd>>
      /\ box'.validity = box.validity
      /\ box.version \in Nat /\ box'.version = box.version + 1
      /\ box.uids \in Nat /\ box'.uids \in Nat /\ box.uids <= box'.uids
  BY DEF Moves
<1>2. TypeOK /\ Counting /\ \A s \in Syncer : SawOf(s)
  BY DEF SyncInv, Sound
<1>3. ASSUME NEW u \in Uid, NEW v \in Nat, v <= box.version,
             box'.at[u] # None, box'.at[u].version <= v
      PROVE  box'.at[u] = box.at[u]
  BY <1>1, <1>3 DEF Moves
<1>4. Counting'
  <2>1. \A u \in Uid : box'.at[u] # None => u <= box'.uids /\ box'.at[u].version <= box'.version
    <3>1. \A u \in Uid : u \in Nat /\ (box.at[u] # None => box.at[u].version \in Nat)
      BY <1>2, SyncOK DEF Uid, TypeOK, BoxRow, Held, Version
    <3> QED
      BY <3>1, <1>1, <1>2 DEF Counting, Moves
  <2> QED
    BY <2>1, <1>1, <1>2 DEF Counting
<1>5. \A s \in Syncer : SawOf(s)'
  BY <1>1, <1>2 DEF SawOf, On, Began
<1>6. MessagesKnown' /\ HistoryHolds' /\ BodyIsItsOwn'
  <2>1. MessagesKnown'
    BY <1>1 DEF SyncInv, Sound, MessagesKnown
  <2>2. HistoryHolds'
    BY <1>1 DEF SyncInv, Sound, HistoryHolds, On
  <2>3. BodyIsItsOwn'
    BY <1>1 DEF SyncInv, BodyIsItsOwn
  <2> QED
    BY <2>1, <2>2, <2>3
<1>7. \A s \in Syncer : MindOf(s) => MindOf(s)'
  BY <1>1 DEF MindOf, On, Began
<1>8. PlacementsHold => PlacementsHold'
  <2> SUFFICES ASSUME PlacementsHold PROVE PlacementsHold'
    OBVIOUS
  <2>1. ASSUME NEW u \in Uid, container.validity \in {None, box.validity},
               placements[container.generation][u] # None
        PROVE  /\ u <= box'.uids
               /\ box'.at[u] # None =>
                    /\ placements[container.generation][u].msg = box'.at[u].msg
                    /\ ~placements[container.generation][u].gone
    <3>1. /\ u <= box.uids /\ u \in Nat
          /\ box.at[u] # None =>
              /\ placements[container.generation][u].msg = box.at[u].msg
              /\ ~placements[container.generation][u].gone
      BY <2>1 DEF PlacementsHold, Uid
    <3> QED
      BY <3>1, <1>1 DEF Moves
  <2> QED
    BY <2>1, <1>1 DEF PlacementsHold
<1>9. ASSUME Unmixed, NEW s \in Syncer PROVE BatchOf(s)'
  <2>1. BatchOf(s)
    BY <1>9 DEF SyncInv
  <2> SUFFICES ASSUME Began(s) PROVE BatchOf(s)'
    BY <1>1 DEF BatchOf, Began, On
  <2>2. Same(s)' <=> Same(s)
    BY <1>1 DEF Same
  <2>3. ASSUME NEW u \in Uid, Same(s), syncs[s].batch[u] # None
        PROVE  /\ u <= box'.uids
               /\ box'.at[u] # None => syncs[s].batch[u].msg = box'.at[u].msg
    <3>1. /\ u <= box.uids /\ u \in Nat
          /\ box.at[u] # None => syncs[s].batch[u].msg = box.at[u].msg
      BY <2>1, <2>3 DEF BatchOf, Uid
    <3> QED
      BY <3>1, <1>1 DEF Moves
  <2>4. ASSUME NEW u \in Uid, Same(s), Listed(s), u \notin syncs[s].present,
               placements[syncs[s].mem.generation][u] # None
        PROVE  box'.at[u] = None
    <3>1. box.at[u] = None
      BY <2>1, <2>4 DEF BatchOf
    <3>2. u <= box.uids /\ u \in Nat
      BY <1>9, <2>4, WhereItWrites DEF Uid
    <3> QED
      BY <3>1, <3>2, <1>1 DEF Moves
  <2> QED
    BY <2>1, <2>2, <2>3, <2>4, <1>1 DEF BatchOf, Began, On, Listed
<1>10. ASSUME NEW s \in Syncer, Began(s), condstore, NEW u \in Uid, Unmoved(s, u)'
       PROVE  Unmoved(s, u) /\ box'.at[u] = box.at[u]
  <2>1. syncs[s].saw.modseq \in Nat /\ syncs[s].saw.modseq <= box.version
    BY <1>2, <1>10 DEF SawOf
  <2> QED
    BY <2>1, <1>1, <1>3, <1>10 DEF Unmoved
<1>11. ASSUME NEW s \in Syncer, condstore, ReadingOf(s) PROVE ReadingOf(s)'
  <2> SUFFICES ASSUME Began(s), Same(s), NEW u \in Uid, Unmoved(s, u)'
               PROVE  /\ syncs[s].batch[u] # None => BatchRight(s, u)'
                      /\ syncs[s].full /\ syncs[s].step # "selected" =>
                           /\ u \in syncs[s].present
                           /\ \/ syncs[s].step # "listed" /\ u \in syncs[s].todo
                              \/ BatchRight(s, u)'
                              \/ Right(syncs[s].mem.generation, u)'
    BY <1>1 DEF ReadingOf, Began, On, Same
  <2>1. Unmoved(s, u) /\ box'.at[u] = box.at[u]
    BY <1>10, <1>11
  <2>2. /\ BatchRight(s, u)' <=> BatchRight(s, u)
        /\ Right(syncs[s].mem.generation, u)' <=> Right(syncs[s].mem.generation, u)
    BY <2>1, <1>1 DEF BatchRight, Right
  <2> QED
    BY <2>1, <2>2, <1>11 DEF ReadingOf
<1>12. WatermarkHolds => WatermarkHolds'
  <2> SUFFICES ASSUME WatermarkHolds, container.modseq # None PROVE WatermarkHolds'
    BY <1>1 DEF WatermarkHolds
  <2>1. container.modseq \in Nat /\ container.modseq <= box.version
    BY <1>2 DEF WatermarkHolds, TypeOK, ContainerRow, Version
  <2>2. ASSUME container.validity = box.validity, NEW u \in Uid, box'.at[u] # None,
               box'.at[u].version <= container.modseq
        PROVE  Right(container.generation, u)'
    <3>1. box'.at[u] = box.at[u]
      BY <2>1, <2>2, <1>3
    <3> QED
      BY <3>1, <2>2, <1>1 DEF WatermarkHolds, Right
  <2> QED
    BY <2>1, <2>2, <1>1 DEF WatermarkHolds
<1>13. ASSUME NEW s \in Syncer, AheadOf(s) PROVE AheadOf(s)'
  <2> SUFFICES ASSUME Began(s) PROVE AheadOf(s)'
    BY <1>1 DEF AheadOf, Began, On
  <2>1. ASSUME Same(s), ~syncs[s].full, NEW u \in Uid, Unmoved(s, u)'
        PROVE  /\ syncs[s].step = "read" =>
                    BatchRight(s, u)' \/ Right(syncs[s].mem.generation, u)'
               /\ syncs[s].step \in {"absorbed", "listed"} =>
                    Right(syncs[s].mem.generation, u)'
               /\ syncs[s].step = "listed" => u \in syncs[s].present
    <3>1. condstore
      BY <2>1, <1>2 DEF SawOf
    <3>2. Unmoved(s, u) /\ box'.at[u] = box.at[u]
      BY <3>1, <2>1, <1>10
    <3>3. /\ BatchRight(s, u)' <=> BatchRight(s, u)
          /\ Right(syncs[s].mem.generation, u)' <=> Right(syncs[s].mem.generation, u)
      BY <3>2, <1>1 DEF BatchRight, Right
    <3> QED
      BY <3>2, <3>3, <2>1, <1>13 DEF AheadOf
  <2> QED
    BY <2>1, <1>1, <1>13 DEF AheadOf, Began, On, Same
<1>14. Unmixed' <=> Unmixed
  BY <1>1 DEF Unmixed
<1>15. Sound'
  BY <1>4, <1>5, <1>6 DEF Sound
<1> QED
  BY <1>1, <1>6, <1>7, <1>8, <1>9, <1>11, <1>12, <1>13, <1>14, <1>15 DEF SyncInv

LEMMA RecreateKeeps ==
  ASSUME SyncInv, TypeOK', Recreate
  PROVE  SyncInv'
<1>1. /\ UNCHANGED <<condstore, container, placements, facts, bodies, syncs>>
      /\ box'.validity = box.validity + 1 /\ box'.version = box.version
      /\ \A u \in Uid : box'.at[u] = None
  BY DEF Recreate, Cached, Nothing
<1>2. TypeOK /\ Counting /\ \A s \in Syncer : SawOf(s)
  BY DEF SyncInv, Sound
<1>3. box.validity \in Nat
  BY <1>2, SyncOK DEF TypeOK, BoxRow, Validity
<1>4. odd \subseteq odd' /\ odd' \subseteq odd \cup {"early"}
  BY DEF Recreate
<1>5. container.validity # None =>
        container.validity \in Nat /\ container.validity <= box.validity
  BY <1>2 DEF Counting, TypeOK, ContainerRow, Validity
<1>6. Counting'
  BY <1>1, <1>3, <1>5 DEF Counting
<1>7. \A s \in Syncer : SawOf(s)'
  <2> SUFFICES ASSUME NEW s \in Syncer, On(s) PROVE SawOf(s)'
    BY <1>1 DEF SawOf, On, Began
  <2>1. syncs[s] \in SyncRow
    BY <1>2 DEF On, TypeOK
  <2>2. syncs[s].mem.validity # None => syncs[s].mem.validity \in Nat
    BY <2>1 DEF SyncRow, ContainerRow, Validity
  <2>3. Began(s) => syncs[s].saw.validity \in Nat
    BY <2>1, <1>2 DEF SyncRow, SawOf, Validity
  <2> QED
    BY <2>2, <2>3, <1>1, <1>2, <1>3 DEF SawOf, On, Began
<1>8. MessagesKnown' /\ HistoryHolds' /\ BodyIsItsOwn'
  <2>1. MessagesKnown'
    BY <1>1 DEF SyncInv, Sound, MessagesKnown
  <2>2. HistoryHolds'
    BY <1>1, <1>4 DEF SyncInv, Sound, HistoryHolds, On
  <2>3. BodyIsItsOwn'
    BY <1>1, <1>4 DEF SyncInv, BodyIsItsOwn
  <2> QED
    BY <2>1, <2>2, <2>3
<1>9. \A s \in Syncer : MindOf(s) => MindOf(s)'
  BY <1>1 DEF MindOf, On, Began
<1>10. \A s \in Syncer : Began(s) => ~Same(s)'
  <2> SUFFICES ASSUME NEW s \in Syncer, Began(s) PROVE ~Same(s)'
    OBVIOUS
  <2>1. syncs[s].saw.validity \in Nat /\ syncs[s].saw.validity <= box.validity
    BY <1>2 DEF SawOf, Began, On, TypeOK, SyncRow, Validity
  <2> QED
    BY <2>1, <1>1, <1>3 DEF Same
<1>11. "early" \notin odd' => container.validity # None \/
         /\ \A u \in Uid : placements[container.generation][u] = None
         /\ \A s \in Syncer : ~On(s)
  BY DEF Recreate, On
<1>12. Unmixed' /\ PlacementsHold => PlacementsHold'
  BY <1>1, <1>3, <1>5, <1>11 DEF PlacementsHold, Unmixed
<1>13. ASSUME Unmixed', NEW s \in Syncer PROVE BatchOf(s)'
  <2>1. BatchOf(s)
    BY <1>4, <1>13 DEF SyncInv, Unmixed
  <2>2. "early" \notin odd'
    BY <1>13 DEF Unmixed
  <2>3. Began(s) => container.validity # None
    BY <1>11, <2>2 DEF Began
  <2>4. Began(s)' <=> Began(s)
    BY <1>1 DEF Began, On
  <2> QED
    BY <2>1, <2>3, <2>4, <1>1, <1>10 DEF BatchOf
<1>14. \A s \in Syncer : ReadingOf(s)'
  BY <1>1, <1>10 DEF ReadingOf, Began, On
<1>15. WatermarkHolds => WatermarkHolds'
  BY <1>1, <1>3, <1>5 DEF WatermarkHolds
<1>16. \A s \in Syncer : AheadOf(s) => AheadOf(s)'
  BY <1>1, <1>10 DEF AheadOf, Began, On
<1>17. Sound'
  BY <1>6, <1>7, <1>8 DEF Sound
<1> QED
  BY <1>1, <1>4, <1>8, <1>9, <1>12, <1>13, <1>14, <1>15, <1>16, <1>17 DEF SyncInv, Unmixed

LEMMA MailboxKeeps ==
  ASSUME SyncInv, Mailbox
  PROVE  SyncInv'
BY ItMoves, MovesKeep, RecreateKeeps, MailboxType DEF SyncInv, Sound

-----------------------------------------------------------------------------
(* The invariant, as a batch is put down                                   *)

\* What an absorb does, of the sync and of the rows.
AbsorbEffect(s) ==
  /\ On(s) /\ Began(s) /\ syncs[s].step = "read"
  /\ On(s)' /\ Began(s)'
  /\ syncs'[s].mem = syncs[s].mem /\ syncs'[s].saw = syncs[s].saw
  /\ syncs'[s].full = syncs[s].full /\ syncs'[s].broken = FALSE
  /\ syncs'[s].todo = syncs[s].todo /\ syncs'[s].present = syncs[s].present
  /\ \A u \in Uid : syncs'[s].batch[u] = None
  /\ syncs'[s].step = IF ~syncs[s].full THEN "absorbed"
                      ELSE IF syncs[s].todo = {} THEN "listed" ELSE "reading"
  /\ \A o \in Syncer : o # s => syncs'[o] = syncs[o]
  /\ container' = IF syncs[s].broken THEN syncs[s].mem ELSE container
  /\ UNCHANGED <<condstore, box, bodies, odd>>

\* and of what is remembered.
AbsorbPlaces(s) ==
  /\ \A g \in Generation, u \in Uid : g # syncs[s].mem.generation =>
       /\ placements'[g][u] = None <=> placements[g][u] = None
       /\ placements'[g][u] # None => placements'[g][u].msg = placements[g][u].msg
       /\ placements[g][u] # None /\ placements[g][u].gone => placements'[g][u].gone
  /\ \A u \in Uid :
       LET old == placements[syncs[s].mem.generation][u]
           new == placements'[syncs[s].mem.generation][u]
           held == syncs[s].batch[u]
       IN  /\ held = None => new = old
           /\ held # None =>
                /\ new # None /\ ~new.gone /\ new.version = held.version
                /\ new.msg = IF old = None THEN held.msg ELSE old.msg

LEMMA AbsorbDoes ==
  ASSUME TypeOK, NEW s \in Syncer, Absorb(s)
  PROVE  AbsorbEffect(s) /\ AbsorbPlaces(s)
<1>1. PICK row \in SyncRow :
        /\ syncs' = [syncs EXCEPT ![s] = row]
        /\ row = [syncs[s] EXCEPT !.broken = FALSE, !.batch = Nothing,
              !.step = IF ~syncs[s].full THEN "absorbed"
                       ELSE IF syncs[s].todo = {} THEN "listed" ELSE "reading"]
  BY AbsorbForm
<1>2. /\ syncs[s] \in SyncRow /\ syncs[s] # None /\ syncs[s].step = "read"
      /\ syncs[s].mem.generation \in Generation
  BY DEF Absorb, TypeOK, SyncRow, ContainerRow
<1>3. AbsorbEffect(s)
  <2>1. syncs'[s] = row /\ \A o \in Syncer : o # s => syncs'[o] = syncs[o]
    BY <1>1 DEF TypeOK
  <2>2. /\ row.mem = syncs[s].mem /\ row.saw = syncs[s].saw
        /\ row.full = syncs[s].full /\ row.broken = FALSE
        /\ row.todo = syncs[s].todo /\ row.present = syncs[s].present
        /\ row.batch = Nothing
        /\ row.step = IF ~syncs[s].full THEN "absorbed"
                      ELSE IF syncs[s].todo = {} THEN "listed" ELSE "reading"
    BY <1>1, <1>2 DEF SyncRow
  <2>3. row # None /\ \A u \in Uid : row.batch[u] = None
    <3>1. row # None
      BY Apart
    <3> QED
      BY <2>2, <3>1 DEF Nothing
  <2>4. row.step # "loaded"
    BY <2>2
  <2> QED
    BY <1>2, <2>1, <2>2, <2>3, <2>4 DEF AbsorbEffect, On, Began, Absorb, server
<1>4. ASSUME NEW g \in Generation, NEW u \in Uid, g # syncs[s].mem.generation
      PROVE  /\ placements'[g][u] = None <=> placements[g][u] = None
             /\ placements'[g][u] # None => placements'[g][u].msg = placements[g][u].msg
             /\ placements[g][u] # None /\ placements[g][u].gone => placements'[g][u].gone
  <2> DEFINE is(h, v) == placements'[h][v] =
                           IF h = syncs[s].mem.generation
                           THEN Absorbed(placements[h][v], syncs[s].batch[v])
                           ELSE Known(s)[h][v]
  <2>1. \A h \in Generation, v \in Uid : is(h, v)
    BY AbsorbForm
  <2>2. placements'[g][u] = Known(s)[g][u]
    BY <1>4, <2>1
  <2> QED
    BY <2>2, <1>2, KnownType
<1>5. ASSUME NEW u \in Uid
      PROVE  LET old == placements[syncs[s].mem.generation][u]
                 new == placements'[syncs[s].mem.generation][u]
                 held == syncs[s].batch[u]
             IN  /\ held = None => new = old
                 /\ held # None =>
                      /\ new # None /\ ~new.gone /\ new.version = held.version
                      /\ new.msg = IF old = None THEN held.msg ELSE old.msg
  <2>1. /\ placements[syncs[s].mem.generation][u] \in Placement \cup {None}
        /\ syncs[s].batch[u] \in Held \cup {None}
    BY <1>2 DEF TypeOK, SyncRow
  <2>2. placements'[syncs[s].mem.generation][u] =
          Absorbed(placements[syncs[s].mem.generation][u], syncs[s].batch[u])
    BY <1>2, AbsorbForm
  <2> QED
    BY <2>1, <2>2, AbsorbedType
<1>6. AbsorbPlaces(s)
  BY <1>4, <1>5 DEF AbsorbPlaces
<1> QED
  BY <1>3, <1>6

\* The sync that commits alone: the row it leaves is the one it had in mind.
LEMMA AbsorbAlone ==
  ASSUME SyncInv, NEW s \in Syncer, AbsorbEffect(s), "beside" \notin odd
  PROVE  /\ MindOf(s)'
         /\ container'.generation = syncs[s].mem.generation
         /\ syncs[s].broken =>
              /\ container'.validity = syncs[s].saw.validity
              /\ container'.validity # None
              /\ container'.modseq = None
              /\ container.generation < syncs[s].mem.generation
         /\ ~syncs[s].broken =>
              /\ container' = container /\ syncs[s].mem = container
              /\ container.validity \in {None, syncs[s].saw.validity}
         /\ \A o \in Syncer : o # s => ~On(o) /\ ~On(o)'
<1>1. MindOf(s) /\ SawOf(s) /\ HistoryHolds /\ TypeOK
  BY DEF SyncInv, Sound
<1>2. /\ syncs[s].saw.validity \in Validity /\ syncs[s].saw.validity # None
      /\ container.generation \in Nat
  BY <1>1, Apart, SyncOK
  DEF AbsorbEffect, SawOf, TypeOK, SyncRow, Validity, ContainerRow, Generation, On
<1>3. \A o \in Syncer : o # s => ~On(o) /\ ~On(o)'
  BY <1>1 DEF HistoryHolds, AbsorbEffect, On
<1>4. CASE syncs[s].broken
  BY <1>1, <1>2, <1>3, <1>4 DEF AbsorbEffect, MindOf
<1>5. CASE ~syncs[s].broken
  BY <1>1, <1>3, <1>5 DEF AbsorbEffect, MindOf
<1> QED
  BY <1>4, <1>5

\* What was as it is stays so, and what was read as it is comes to be.
LEMMA AbsorbKeepsRight ==
  ASSUME NEW s \in Syncer, AbsorbEffect(s), AbsorbPlaces(s), ReadingOf(s),
         Same(s), NEW u \in Uid, Unmoved(s, u),
         BatchRight(s, u) \/ Right(syncs[s].mem.generation, u)
  PROVE  Right(syncs[s].mem.generation, u)'
<1>1. Began(s) /\ box' = box /\ syncs'[s].mem = syncs[s].mem
  BY DEF AbsorbEffect
<1>2. CASE syncs[s].batch[u] # None
  <2>1. BatchRight(s, u)
    BY <1>1, <1>2 DEF ReadingOf
  <2> QED
    BY <2>1, <1>1, <1>2 DEF AbsorbPlaces, BatchRight, Right
<1>3. CASE syncs[s].batch[u] = None
  BY <1>1, <1>3 DEF AbsorbPlaces, BatchRight, Right
<1> QED
  BY <1>2, <1>3

LEMMA AbsorbKeeps ==
  ASSUME SyncInv, NEW s \in Syncer, Absorb(s)
  PROVE  SyncInv'
<1> DEFINE gen == syncs[s].mem.generation
<1>1. TypeOK /\ TypeOK'
  BY AbsorbType DEF SyncInv, Sound
<1>2. AbsorbEffect(s) /\ AbsorbPlaces(s)
  BY <1>1, AbsorbDoes
<1>3. /\ On(s) /\ Began(s) /\ On(s)' /\ Began(s)' /\ syncs[s].step = "read"
      /\ UNCHANGED <<condstore, box, bodies, odd>>
      /\ Same(s)' <=> Same(s)
      /\ gen' = gen /\ gen \in Generation
      /\ \A u \in Uid : Unmoved(s, u)' <=> Unmoved(s, u)
  BY <1>1, <1>2 DEF AbsorbEffect, Same, Unmoved, TypeOK, SyncRow, ContainerRow, On
<1>4. SawOf(s) /\ Counting
  BY DEF SyncInv, Sound
<1>5. MessagesKnown'
  <2> SUFFICES ASSUME NEW g \in Generation, NEW u \in Uid, placements'[g][u] # None
               PROVE  facts'[placements'[g][u].msg] # None
    BY DEF MessagesKnown
  <2>1. \A m \in Msg :
          facts'[m] = IF \E v \in Uid : syncs[s].batch[v] # None /\ syncs[s].batch[v].msg = m
                      THEN HeadersOnly ELSE facts[m]
    BY DEF Absorb
  <2>2. HeadersOnly # None
    BY Apart DEF HeadersOnly, FactsRow
  <2>3. \A m \in Msg : facts[m] # None => facts'[m] # None
    BY <2>1, <2>2
  <2>4. placements'[g][u].msg \in Msg
    BY <1>1 DEF TypeOK, Placement
  <2>5. placements[g][u] # None =>
          placements'[g][u].msg = placements[g][u].msg /\ facts[placements[g][u].msg] # None
    BY <1>2 DEF AbsorbPlaces, SyncInv, Sound, MessagesKnown
  <2>6. placements[g][u] = None =>
          syncs[s].batch[u] # None /\ placements'[g][u].msg = syncs[s].batch[u].msg
    BY <1>2 DEF AbsorbPlaces
  <2> QED
    BY <2>1, <2>2, <2>3, <2>4, <2>5, <2>6
<1>6. Counting'
  BY <1>2, <1>3, <1>4 DEF Counting, SawOf, AbsorbEffect
<1>7. HistoryHolds'
  <2>1. \A o \in Syncer : On(o)' <=> On(o)
    BY <1>2 DEF AbsorbEffect, On
  <2> QED
    BY <2>1, <1>3 DEF SyncInv, Sound, HistoryHolds
<1>8. \A o \in Syncer : SawOf(o)'
  <2>1. SawOf(s)'
    BY <1>2, <1>3, <1>4 DEF SawOf, AbsorbEffect
  <2>2. ASSUME NEW o \in Syncer, o # s PROVE SawOf(o)'
    <3>1. SawOf(o) /\ syncs'[o] = syncs[o]
      BY <1>2, <2>2 DEF AbsorbEffect, SyncInv, Sound
    <3> QED
      BY <3>1, <1>3 DEF SawOf, On, Began
  <2> QED
    BY <2>1, <2>2
<1>9. BodyIsItsOwn'
  <2>1. \A m \in Msg : facts'[m] = facts[m] \/ facts'[m] = HeadersOnly
    BY DEF Absorb
  <2> QED
    BY <2>1, <1>3 DEF SyncInv, BodyIsItsOwn, HeadersOnly
<1>10. ASSUME "beside" \notin odd
       PROVE  /\ MindOf(s)'
              /\ container'.generation = gen
              /\ syncs[s].broken =>
                   /\ container'.validity = syncs[s].saw.validity
                   /\ container'.validity # None
                   /\ container'.modseq = None
                   /\ container.generation < gen
              /\ ~syncs[s].broken =>
                   /\ container' = container /\ syncs[s].mem = container
                   /\ container.validity \in {None, syncs[s].saw.validity}
              /\ \A o \in Syncer : o # s => ~On(o) /\ ~On(o)'
  BY <1>2, <1>10, AbsorbAlone
<1>11. "beside" \notin odd => \A o \in Syncer : o # s =>
         MindOf(o)' /\ BatchOf(o)' /\ ReadingOf(o)' /\ AheadOf(o)'
  BY <1>10 DEF MindOf, BatchOf, ReadingOf, AheadOf, Began
<1> HIDE DEF gen
<1>12. Unmixed => PlacementsHold'
  <2> SUFFICES ASSUME Unmixed PROVE PlacementsHold'
    OBVIOUS
  <2>1. "beside" \notin odd /\ PlacementsHold /\ BatchOf(s)
    BY Histories DEF SyncInv
  <2>2. ASSUME container'.validity \in {None, box.validity} PROVE Same(s)
    BY <1>3, <1>10, <2>1, <2>2 DEF BatchOf, Same
  <2>3. ASSUME container'.validity \in {None, box.validity},
               NEW u \in Uid, placements'[gen][u] # None
        PROVE  /\ u <= box.uids
               /\ box.at[u] # None =>
                    /\ placements'[gen][u].msg = box.at[u].msg
                    /\ ~placements'[gen][u].gone
    <3>1. Same(s)
      BY <2>2, <2>3
    <3>2. placements[gen][u] # None =>
            /\ u <= box.uids
            /\ box.at[u] # None => /\ placements[gen][u].msg = box.at[u].msg
                                   /\ ~placements[gen][u].gone
      BY <1>3, <3>1, WhereItWrites DEF gen
    <3>3. syncs[s].batch[u] # None =>
            /\ u <= box.uids
            /\ box.at[u] # None => syncs[s].batch[u].msg = box.at[u].msg
      BY <1>3, <2>1, <3>1 DEF BatchOf
    <3>4. /\ syncs[s].batch[u] = None => placements'[gen][u] = placements[gen][u]
          /\ syncs[s].batch[u] # None =>
               /\ ~placements'[gen][u].gone
               /\ placements'[gen][u].msg = IF placements[gen][u] = None
                                           THEN syncs[s].batch[u].msg
                                           ELSE placements[gen][u].msg
      BY <1>2 DEF AbsorbPlaces, gen
    <3>5. CASE syncs[s].batch[u] = None
      BY <2>3, <3>2, <3>4, <3>5
    <3>6. CASE syncs[s].batch[u] # None
      BY <3>2, <3>3, <3>4, <3>6
    <3> QED
      BY <3>5, <3>6
  <2>4. ASSUME NEW g \in Generation, NEW u \in Uid, g > gen PROVE placements'[g][u] = None
    <3>1. g > container.generation /\ g # gen
      BY <1>1, <1>3, <1>10, <2>1, <2>4 DEF TypeOK, ContainerRow, Generation
    <3>2. placements[g][u] = None
      BY <2>1, <3>1 DEF PlacementsHold
    <3> QED
      BY <3>1, <3>2, <1>2 DEF AbsorbPlaces, gen
  <2> QED
    BY <1>3, <1>10, <2>1, <2>3, <2>4 DEF PlacementsHold
<1>13. Unmixed => BatchOf(s)'
  <2> SUFFICES ASSUME Unmixed PROVE BatchOf(s)'
    OBVIOUS
  <2>1. "beside" \notin odd /\ BatchOf(s)
    BY Histories DEF SyncInv
  <2>2. container'.validity = None => Same(s)
    BY <1>3, <1>10, <2>1 DEF BatchOf
  <2>3. ASSUME Listed(s)', Same(s), NEW u \in Uid, u \notin syncs[s].present,
               placements'[gen][u] # None
        PROVE  box.at[u] = None
    <3>1. syncs[s].full /\ Listed(s)
      BY <1>2, <1>3, <2>3 DEF Listed, AbsorbEffect
    <3>2. syncs[s].batch[u] = None
      BY <1>3, <2>1, <2>3, <3>1 DEF BatchOf
    <3>3. placements[gen][u] # None
      BY <1>2, <2>3, <3>2 DEF AbsorbPlaces, gen
    <3> QED
      BY <1>3, <2>1, <2>3, <3>1, <3>3 DEF BatchOf, gen
  <2>4. \A u \in Uid : syncs'[s].batch[u] = None
    BY <1>2 DEF AbsorbEffect
  <2>5. syncs'[s].present = syncs[s].present /\ syncs'[s].mem.generation = gen
    BY <1>2 DEF AbsorbEffect, gen
  <2> QED
    BY <1>3, <2>2, <2>3, <2>4, <2>5 DEF BatchOf
<1>14. "beside" \notin odd /\ condstore => ReadingOf(s)'
  <2> SUFFICES ASSUME "beside" \notin odd, condstore, Same(s),
                      NEW u \in Uid, Unmoved(s, u)
               PROVE  syncs[s].full =>
                        /\ u \in syncs[s].present
                        /\ \/ syncs'[s].step = "reading" /\ u \in syncs[s].todo
                           \/ Right(gen, u)'
    BY <1>2, <1>3 DEF ReadingOf, AbsorbEffect, gen
  <2>1. ReadingOf(s)
    BY DEF SyncInv
  <2>2. syncs[s].full =>
          /\ u \in syncs[s].present
          /\ u \in syncs[s].todo \/ BatchRight(s, u) \/ Right(gen, u)
    BY <1>3, <2>1 DEF ReadingOf, gen
  <2>3. BatchRight(s, u) \/ Right(gen, u) => Right(gen, u)'
    BY <1>2, <1>3, <2>1, AbsorbKeepsRight DEF gen, Right
  <2>4. syncs[s].full /\ u \in syncs[s].todo => syncs'[s].step = "reading"
    BY <1>2 DEF AbsorbEffect
  <2> QED
    BY <2>2, <2>3, <2>4
<1>15. "overlap" \notin odd => WatermarkHolds'
  <2> SUFFICES ASSUME "overlap" \notin odd PROVE WatermarkHolds'
    OBVIOUS
  <2>1. "beside" \notin odd /\ WatermarkHolds /\ AheadOf(s)
    BY Histories DEF SyncInv
  <2>2. CASE syncs[s].broken
    BY <1>10, <2>1, <2>2 DEF WatermarkHolds
  <2>3. CASE ~syncs[s].broken
    <3>1. /\ container' = container /\ gen = container.generation
          /\ container.validity \in {None, syncs[s].saw.validity}
      BY <1>10, <2>1, <2>3
    <3>2. ASSUME container.modseq # None, container.validity = box.validity,
                 NEW u \in Uid, box.at[u] # None, box.at[u].version <= container.modseq
          PROVE  Right(gen, u)'
      <4>1. Same(s) /\ condstore /\ Right(gen, u)
        BY <2>1, <3>1, <3>2 DEF Same, WatermarkHolds
      <4>2. ReadingOf(s)
        BY <2>1, <4>1 DEF SyncInv
      <4>3. Unmoved(s, u)
        <5>1. container.modseq <= syncs[s].saw.modseq
          BY <1>3, <2>1, <3>2 DEF AheadOf
        <5>2. /\ container.modseq \in Nat /\ syncs[s].saw.modseq \in Nat
              /\ box.at[u].version \in Nat
          BY <1>1, <1>3, <1>4, <3>2, <4>1
          DEF TypeOK, ContainerRow, BoxRow, Held, Version, SawOf
        <5> QED
          BY <3>2, <5>1, <5>2 DEF Unmoved
      <4> QED
        BY <1>2, <4>1, <4>2, <4>3, AbsorbKeepsRight DEF gen, Right
    <3> QED
      BY <1>3, <2>1, <3>1, <3>2 DEF WatermarkHolds, Right
  <2> QED
    BY <2>2, <2>3
<1>16. "overlap" \notin odd => AheadOf(s)'
  <2> SUFFICES ASSUME "overlap" \notin odd PROVE AheadOf(s)'
    OBVIOUS
  <2>1. "beside" \notin odd /\ AheadOf(s)
    BY Histories DEF SyncInv
  <2>2. container'.modseq # None => container'.modseq <= syncs[s].saw.modseq
    BY <1>3, <1>10, <2>1 DEF AheadOf
  <2>3. ASSUME Same(s), ~syncs[s].full, NEW u \in Uid, Unmoved(s, u)
        PROVE  Right(gen, u)'
    <3>1. ReadingOf(s)
      BY <1>3, <1>4, <2>1, <2>3 DEF SyncInv, SawOf
    <3>2. BatchRight(s, u) \/ Right(gen, u)
      BY <1>3, <2>1, <2>3 DEF AheadOf, gen
    <3> QED
      BY <1>2, <2>3, <3>1, <3>2, AbsorbKeepsRight DEF gen, Right
  <2> QED
    BY <1>2, <1>3, <2>2, <2>3 DEF AheadOf, AbsorbEffect, gen
<1>17. Sound'
  BY <1>1, <1>5, <1>6, <1>7, <1>8 DEF Sound
<1>18. Unmixed' <=> Unmixed
  BY <1>3 DEF Unmixed
<1> QED
  BY <1>3, <1>9, <1>10, <1>11, <1>12, <1>13, <1>14, <1>15, <1>16, <1>17, <1>18, Histories
  DEF SyncInv

-----------------------------------------------------------------------------
(* The invariant, as a sync comes to its end                               *)

\* What the end of a sync does to what is remembered.
FinishPlaces(s) ==
  /\ \A g \in Generation, u \in Uid :
       /\ placements'[g][u] = None <=> placements[g][u] = None
       /\ placements'[g][u] # None => placements'[g][u].msg = placements[g][u].msg
       /\ placements[g][u] # None /\ placements[g][u].gone => placements'[g][u].gone
  /\ \A u \in syncs[s].present :
       placements'[syncs[s].mem.generation][u] = placements[syncs[s].mem.generation][u]

LEMMA FinishDoes ==
  ASSUME TypeOK, NEW s \in Syncer, Finish(s)
  PROVE  FinishPlaces(s)
<1>1. /\ syncs[s] # None /\ syncs[s].mem.generation \in Generation
      /\ syncs[s].present \subseteq Uid
  BY DEF Finish, TypeOK, SyncRow, ContainerRow
<1> DEFINE is(g, u) == placements'[g][u] =
             IF g = syncs[s].mem.generation /\ u \notin syncs[s].present
             THEN AsGone(placements[g][u]) ELSE Known(s)[g][u]
<1>2. \A g \in Generation, u \in Uid : is(g, u)
  BY FinishForm
<1>3. ASSUME NEW g \in Generation, NEW u \in Uid
      PROVE  /\ placements'[g][u] = None <=> placements[g][u] = None
             /\ placements'[g][u] # None => placements'[g][u].msg = placements[g][u].msg
             /\ placements[g][u] # None /\ placements[g][u].gone => placements'[g][u].gone
  <2>1. placements[g][u] \in Placement \cup {None}
    BY DEF TypeOK
  <2>2. CASE placements'[g][u] = AsGone(placements[g][u])
    BY <2>1, <2>2, AsGoneType
  <2>3. CASE placements'[g][u] = Known(s)[g][u]
    BY <1>1, <2>3, KnownType
  <2> QED
    BY <1>2, <2>2, <2>3
<1>4. ASSUME NEW u \in syncs[s].present
      PROVE  placements'[syncs[s].mem.generation][u] = placements[syncs[s].mem.generation][u]
  <2>1. placements'[syncs[s].mem.generation][u] = Known(s)[syncs[s].mem.generation][u]
    BY <1>1, <1>2
  <2> QED
    BY <1>1, <2>1, KnownType
<1> QED
  BY <1>3, <1>4 DEF FinishPlaces

\* The sync that ends alone: the row has what it saw.
LEMMA FinishAlone ==
  ASSUME SyncInv, NEW s \in Syncer, Finish(s), "beside" \notin odd
  PROVE  /\ container'.generation = syncs[s].mem.generation
         /\ container'.validity = syncs[s].saw.validity
         /\ container'.modseq = syncs[s].saw.modseq
         /\ container'.validity # None
         /\ container.generation <= syncs[s].mem.generation
<1>1. MindOf(s) /\ SawOf(s) /\ TypeOK
  BY DEF SyncInv, Sound
<1>2. On(s) /\ Began(s)
  BY DEF Finish, On, Began
<1>3. /\ syncs[s].saw.validity # None /\ syncs[s].mem \in ContainerRow
      /\ container.generation \in Nat
  BY <1>1, <1>2, Apart, SyncOK
  DEF SawOf, TypeOK, SyncRow, Validity, ContainerRow, Generation, On
<1>4. container' = [syncs[s].mem EXCEPT
        !.validity = Told(@, syncs[s].mem.validity, syncs[s].saw.validity),
        !.modseq = Told(@, syncs[s].mem.modseq, syncs[s].saw.modseq)]
  BY <1>1, <1>2 DEF Finish, MindOf, Watermark
<1>5. syncs[s].mem.generation >= container.generation
  BY <1>1, <1>2, <1>3 DEF MindOf
<1> QED
  BY <1>3, <1>4, <1>5 DEF ContainerRow, Told

LEMMA FinishKeeps ==
  ASSUME SyncInv, NEW s \in Syncer, Finish(s)
  PROVE  SyncInv'
<1> DEFINE gen == syncs[s].mem.generation
<1>1. TypeOK /\ TypeOK' /\ SawOf(s)
  BY FinishType DEF SyncInv, Sound
<1>2. FinishPlaces(s)
  BY <1>1, FinishDoes
<1>3. /\ syncs'[s] = None
      /\ \A o \in Syncer : o # s => syncs'[o] = syncs[o]
      /\ UNCHANGED <<condstore, box, facts, bodies>>
  BY <1>1 DEF Finish, TypeOK, server
<1>4. /\ On(s) /\ Began(s) /\ ~On(s)' /\ syncs[s].step = "listed"
      /\ \A o \in Syncer : o # s => (On(o)' <=> On(o))
      /\ gen \in Generation
  BY <1>1, <1>3, ZenonT(40) DEF On, Began, Finish, TypeOK, SyncRow, ContainerRow
<1>5. odd' = Mended(s)
  BY DEF Finish
<1>6. /\ HistoryHolds'
      /\ Unmixed' <=> Unmixed
      /\ odd \cap {"mixed", "early", "blind"} \subseteq odd'
      /\ "beside" \notin odd' => "beside" \notin odd \/ \A o \in Syncer : ~On(o)'
  BY <1>4, <1>5, HistoryGoesOn
<1>7. MessagesKnown' /\ Counting' /\ BodyIsItsOwn'
  <2>1. MessagesKnown'
    BY <1>2, <1>3 DEF MessagesKnown, FinishPlaces, SyncInv, Sound
  <2>2. Counting'
    <3>1. container'.validity \in {container.validity, syncs[s].mem.validity, syncs[s].saw.validity}
      BY <1>1 DEF Finish, Told, TypeOK, SyncRow, ContainerRow
    <3> QED
      BY <3>1, <1>1, <1>3, <1>4 DEF SyncInv, Sound, Counting, SawOf
  <2>3. BodyIsItsOwn'
    BY <1>3, <1>6 DEF SyncInv, BodyIsItsOwn
  <2> QED
    BY <2>1, <2>2, <2>3
<1>8. \A o \in Syncer : SawOf(o)'
  <2>1. ASSUME NEW o \in Syncer, o # s PROVE SawOf(o)'
    <3>1. SawOf(o) /\ syncs'[o] = syncs[o]
      BY <1>3, <2>1 DEF SyncInv, Sound
    <3> QED
      BY <3>1, <1>3 DEF SawOf, On, Began
  <2>2. SawOf(s)'
    BY <1>4 DEF SawOf, Began
  <2> QED
    BY <2>1, <2>2
<1>9. Sound'
  BY <1>1, <1>6, <1>7, <1>8 DEF Sound
<1>10. "beside" \notin odd \/ "beside" \notin odd' => \A o \in Syncer : ~On(o)'
  BY <1>4, <1>6 DEF SyncInv, Sound, HistoryHolds
<1>11. (\A o \in Syncer : ~On(o)') =>
         \A o \in Syncer : MindOf(o)' /\ BatchOf(o)' /\ ReadingOf(o)' /\ AheadOf(o)'
  BY DEF MindOf, BatchOf, ReadingOf, AheadOf, Began
<1> HIDE DEF gen
<1>12. Unmixed => PlacementsHold'
  <2> SUFFICES ASSUME Unmixed PROVE PlacementsHold'
    OBVIOUS
  <2>1. "beside" \notin odd /\ PlacementsHold /\ BatchOf(s)
    BY Histories DEF SyncInv
  <2>2. /\ container'.generation = gen
        /\ container'.validity = syncs[s].saw.validity
        /\ container'.validity # None
        /\ container.generation <= gen
    BY <2>1, FinishAlone DEF gen
  <2>3. ASSUME container'.validity \in {None, box.validity},
               NEW u \in Uid, placements'[gen][u] # None
        PROVE  /\ u <= box.uids
               /\ box.at[u] # None =>
                    /\ placements'[gen][u].msg = box.at[u].msg
                    /\ ~placements'[gen][u].gone
    <3>1. Same(s)
      BY <2>2, <2>3 DEF Same
    <3>2. placements[gen][u] # None /\ placements'[gen][u].msg = placements[gen][u].msg
      BY <1>2, <1>4, <2>3 DEF FinishPlaces
    <3>3. /\ u <= box.uids
          /\ box.at[u] # None => /\ placements[gen][u].msg = box.at[u].msg
                                 /\ ~placements[gen][u].gone
      BY <1>4, <3>1, <3>2, WhereItWrites DEF gen
    <3>4. box.at[u] # None => u \in syncs[s].present
      BY <1>4, <2>1, <3>1, <3>2 DEF BatchOf, Listed, gen
    <3>5. u \in syncs[s].present => placements'[gen][u] = placements[gen][u]
      BY <1>2 DEF FinishPlaces, gen
    <3> QED
      BY <3>2, <3>3, <3>4, <3>5
  <2>4. ASSUME NEW g \in Generation, NEW u \in Uid, g > gen PROVE placements'[g][u] = None
    <3>1. g > container.generation
      BY <1>1, <1>4, <2>2, <2>4 DEF TypeOK, ContainerRow, Generation
    <3>2. placements[g][u] = None
      BY <2>1, <3>1 DEF PlacementsHold
    <3> QED
      BY <3>2, <1>2 DEF FinishPlaces
  <2> QED
    BY <1>3, <2>2, <2>3, <2>4 DEF PlacementsHold
<1>13. "overlap" \notin odd' => WatermarkHolds'
  <2> SUFFICES ASSUME "overlap" \notin odd' PROVE WatermarkHolds'
    OBVIOUS
  <2>1. /\ "beside" \notin odd
        /\ syncs[s].full \/ "overlap" \notin odd
    BY <1>5, Histories DEF Mended, Ended
  <2>2. /\ container'.generation = gen
        /\ container'.validity = syncs[s].saw.validity
        /\ container'.modseq = syncs[s].saw.modseq
        /\ container'.validity # None
    BY <2>1, FinishAlone DEF gen
  <2> SUFFICES ASSUME syncs[s].saw.modseq # None PROVE WatermarkHolds'
    BY <2>2 DEF WatermarkHolds
  <2>3. condstore /\ syncs[s].saw.modseq <= box.version
    BY <1>1, <1>4 DEF SawOf
  <2>4. ASSUME Same(s), NEW u \in Uid, Unmoved(s, u)
        PROVE  /\ placements'[gen][u] # None
               /\ ~placements'[gen][u].gone
               /\ placements'[gen][u].version = box'.at[u].version
    <3>1. u \in syncs[s].present /\ Right(gen, u)
      <4>1. CASE syncs[s].full
        <5>1. ReadingOf(s) /\ ~BatchRight(s, u)
          BY <1>1, <1>4, <2>1, <2>3 DEF SyncInv, SawOf, BatchRight
        <5> QED
          BY <1>4, <2>4, <4>1, <5>1 DEF ReadingOf, gen
      <4>2. CASE ~syncs[s].full
        <5>1. AheadOf(s)
          BY <2>1, <4>2 DEF SyncInv
        <5> QED
          BY <1>4, <2>4, <4>2, <5>1 DEF AheadOf, gen
      <4> QED
        BY <4>1, <4>2
    <3>2. placements'[gen][u] = placements[gen][u]
      BY <1>2, <3>1 DEF FinishPlaces, gen
    <3> QED
      BY <1>3, <3>1, <3>2 DEF Right
  <2> QED
    BY <1>3, <2>2, <2>3, <2>4 DEF WatermarkHolds, Same, Unmoved, Right
<1>14. "overlap" \notin odd' => "beside" \notin odd'
  BY <1>6 DEF HistoryHolds
<1> QED
  BY <1>6, <1>7, <1>9, <1>10, <1>11, <1>12, <1>13, <1>14, Histories DEF SyncInv

-----------------------------------------------------------------------------
(* The invariant, as a body is fetched                                     *)

LEMMA FetchBodyKeeps ==
  ASSUME SyncInv, NEW m \in Wanted, NEW u \in Uid, FetchBody(m, u)
  PROVE  SyncInv'
<1> DEFINE of == box.at[u].msg
<1>1. /\ TypeOK /\ TypeOK' /\ m \in Msg /\ of \in Msg
      /\ facts' = [facts EXCEPT ![m] = FromBody(facts[m], of)]
  BY FetchBodyType, SyncOK DEF SyncInv, Sound
<1>2. /\ UNCHANGED <<condstore, box, container, placements, syncs>>
      /\ odd \subseteq odd' /\ odd' \subseteq odd \cup {"blind"}
      /\ "blind" \notin odd' => container.validity \in {None, box.validity}
  BY DEF FetchBody, server
<1>3. \A n \in Msg : facts'[n] = IF n = m THEN FromBody(facts[m], of) ELSE facts[n]
  BY <1>1 DEF TypeOK
<1>4. facts[m] \in FactsRow /\ FromBody(facts[m], of) # None
  <2>1. facts[m] # None
    BY <1>1 DEF FetchBody, Live, SyncInv, Sound, MessagesKnown, TypeOK, ContainerRow
  <2>2. facts[m] \in FactsRow
    BY <1>1, <2>1 DEF TypeOK
  <2>3. FromBody(facts[m], of) \in FactsRow
    BY <1>1, <2>2 DEF FromBody, FactsRow
  <2> QED
    BY <2>2, <2>3, Apart
<1>5. MessagesKnown'
  <2>1. \A n \in Msg : facts[n] # None => facts'[n] # None
    BY <1>3, <1>4
  <2>2. \A g \in Generation, v \in Uid :
          placements[g][v] # None => placements[g][v].msg \in Msg
    BY <1>1 DEF TypeOK, Placement
  <2> QED
    BY <2>1, <2>2, <1>2 DEF MessagesKnown, SyncInv, Sound
<1>6. Counting' /\ HistoryHolds'
  BY <1>2 DEF SyncInv, Sound, Counting, HistoryHolds, On
<1>7. \A o \in Syncer :
        /\ SawOf(o) => SawOf(o)'
        /\ MindOf(o) => MindOf(o)'
        /\ BatchOf(o) => BatchOf(o)'
        /\ ReadingOf(o) => ReadingOf(o)'
        /\ AheadOf(o) => AheadOf(o)'
  BY <1>2, OtherStays
<1>8. PlacementsHold => PlacementsHold'
  BY <1>2 DEF PlacementsHold
<1>9. WatermarkHolds => WatermarkHolds'
  BY <1>2 DEF WatermarkHolds, Right
<1>10. BodyIsItsOwn'
  <2> SUFFICES ASSUME odd' \cap {"mixed", "early", "blind"} = {} PROVE BodyIsItsOwn'
    BY DEF BodyIsItsOwn
  <2>1. /\ odd \cap {"mixed", "early", "blind"} = {} /\ Unmixed
        /\ container.validity \in {None, box.validity}
    BY <1>2 DEF Unmixed
  <2>2. of = m
    BY <2>1 DEF FetchBody, Live, SyncInv, PlacementsHold
  <2>3. /\ \A i \in 1..Len(bodies) : bodies[i].of = bodies[i].msg
        /\ \A n \in Msg : facts[n] # None =>
             facts[n].preview \in {n, None} /\ facts[n].findings \in {n, None}
    BY <2>1 DEF SyncInv, BodyIsItsOwn
  <2>4. \A n \in Msg : facts'[n] # None =>
          facts'[n].preview \in {n, None} /\ facts'[n].findings \in {n, None}
    <3>1. /\ FromBody(facts[m], of).preview \in {of, facts[m].preview}
          /\ FromBody(facts[m], of).findings = of
      BY DEF FromBody
    <3>2. facts[m].preview \in {m, None}
      BY <1>1, <1>4, <2>3, Apart
    <3> QED
      BY <1>3, <2>2, <2>3, <3>1, <3>2
  <2>5. \A i \in 1..Len(bodies') : bodies'[i].of = bodies'[i].msg
    <3>1. CASE bodies' = bodies
      BY <2>3, <3>1
    <3>2. CASE bodies' = Evicted(Recached(m, of))
      <4> DEFINE kept == Recached(m, of)
      <4>1. /\ kept \in Seq(BodyRow)
            /\ \A i \in 1..Len(kept) :
                 \/ kept[i] = [msg |-> m, of |-> of]
                 \/ \E j \in 1..Len(bodies) : kept[i] = bodies[j]
        BY <1>1, RecachedAreOfThem
      <4>2. \A i \in 1..Len(kept) : kept[i].of = kept[i].msg
        BY <2>2, <2>3, <4>1
      <4> HIDE DEF kept
      <4>3. \A i \in 1..Len(Evicted(kept)) :
              \E j \in 1..Len(kept) : Evicted(kept)[i] = kept[j]
        BY <4>1, EvictedAreOfThem
      <4>4. bodies' = Evicted(kept)
        BY <3>2 DEF kept
      <4> QED
        BY <4>2, <4>3, <4>4
    <3>3. bodies' \in {bodies, Evicted(Recached(m, of))}
      BY DEF FetchBody
    <3> QED
      BY <3>1, <3>2, <3>3
  <2> QED
    BY <2>4, <2>5 DEF BodyIsItsOwn
<1>11. Sound'
  BY <1>1, <1>5, <1>6, <1>7 DEF SyncInv, Sound
<1>12. Unmixed' <=> Unmixed
  BY <1>2 DEF Unmixed
<1> QED
  BY <1>2, <1>7, <1>8, <1>9, <1>10, <1>11, <1>12 DEF SyncInv

-----------------------------------------------------------------------------
(* The invariant, and what follows from it                                 *)

LEMMA StutterKeeps ==
  ASSUME SyncInv, UNCHANGED vars
  PROVE  SyncInv'
<1>1. UNCHANGED <<condstore, keepsBodies, box, container, placements, facts, bodies,
                  syncs, lock, odd>>
  BY DEF vars
<1>2. TypeOK'
  BY <1>1 DEF SyncInv, Sound, TypeOK
<1>3. \A o \in Syncer :
        /\ SawOf(o) => SawOf(o)'
        /\ MindOf(o) => MindOf(o)'
        /\ BatchOf(o) => BatchOf(o)'
        /\ ReadingOf(o) => ReadingOf(o)'
        /\ AheadOf(o) => AheadOf(o)'
  BY <1>1, OtherStays
<1>4. /\ MessagesKnown' /\ Counting' /\ BodyIsItsOwn'
      /\ PlacementsHold => PlacementsHold'
      /\ WatermarkHolds => WatermarkHolds'
  BY <1>1, RowsStay DEF SyncInv, Sound
<1>5. HistoryHolds' /\ (Unmixed' <=> Unmixed)
  BY <1>1 DEF SyncInv, Sound, HistoryHolds, On, Unmixed
<1>6. Sound'
  BY <1>2, <1>3, <1>4, <1>5 DEF SyncInv, Sound
<1> QED
  BY <1>1, <1>3, <1>4, <1>5, <1>6 DEF SyncInv

\* Whatever a sync does.
LEMMA SyncKeeps ==
  ASSUME SyncInv, NEW s \in Syncer, Starts(s) \/ Step(s) \/ Fail(s)
  PROVE  SyncInv'
<1>1. CASE Starts(s)
  BY <1>1, LoadKeeps DEF Starts
<1>2. CASE Thinks(s)
  BY <1>2, ThinksKeeps
<1>3. CASE Absorb(s)
  BY <1>3, AbsorbKeeps
<1>4. CASE Finish(s)
  BY <1>4, FinishKeeps
<1>5. CASE Fail(s) \/ LoseFolder(s)
  BY <1>5, FailKeeps DEF LoseFolder
<1> QED
  BY <1>1, <1>2, <1>3, <1>4, <1>5 DEF Step, Thinks

LEMMA NextKeeps ==
  ASSUME SyncInv, [Next]_vars
  PROVE  SyncInv'
BY MailboxKeeps, SyncKeeps, FetchBodyKeeps, StutterKeeps DEF Next

\* The strengthening is inductive: whatever the folder's clients, the syncs and
\* the bodies that are asked for do, in any order and any number.
THEOREM SyncInvariant == Spec => []SyncInv
<1>1. Init => SyncInv
  BY InitInv
<1>2. SyncInv /\ [Next]_vars => SyncInv'
  BY NextKeeps
<1> QED
  BY <1>1, <1>2, PTL DEF Spec

\* Every row, every sync's memory and the history stay of their types.
THEOREM TypeCorrect == Spec => []TypeOK
<1>1. SyncInv => TypeOK
  BY DEF SyncInv, Sound
<1> QED
  BY <1>1, SyncInvariant, PTL

\* What is remembered at a UID is the message that is there (sync._absorb,
\* break_identity).
THEOREM RemembersWhatIsThere == Spec => []MessageAtItsUid
<1>1. SyncInv => MessageAtItsUid
  BY DEF SyncInv, Unmixed, PlacementsHold, Live, MessageAtItsUid
<1> QED
  BY <1>1, SyncInvariant, PTL

\* The watermark is never ahead of what was absorbed (sync.sync_container).
THEOREM WatermarkIsNotAhead == Spec => []NothingOverlooked
<1>1. SyncInv => NothingOverlooked
  BY DEF SyncInv, WatermarkHolds, Right, Live, NothingOverlooked
<1> QED
  BY <1>1, SyncInvariant, PTL

\* A message is shown with what its own body says (sync.fetch_and_cache_body).
THEOREM ShownWithItsOwn == Spec => []BodyIsItsOwn
<1>1. SyncInv => BodyIsItsOwn
  BY DEF SyncInv
<1> QED
  BY <1>1, SyncInvariant, PTL

\* What is gone stays so in each step.
LEMMA StepKeepsGone ==
  ASSUME SyncInv, [Next]_vars, Unmixed',
         NEW g \in Generation, NEW u \in Uid,
         placements[g][u] # None, placements[g][u].gone
  PROVE  placements'[g][u].gone
<1>1. TypeOK
  BY DEF SyncInv, Sound
<1>2. CASE UNCHANGED placements
  BY <1>2
<1>3. ASSUME NEW s \in Syncer, Absorb(s) PROVE placements'[g][u].gone
  <2>1. AbsorbEffect(s) /\ AbsorbPlaces(s)
    BY <1>1, <1>3, AbsorbDoes
  <2>2. BatchOf(s) /\ Began(s)
    BY <2>1 DEF AbsorbEffect, SyncInv, Unmixed
  <2>3. g = syncs[s].mem.generation => syncs[s].batch[u] = None
    BY <2>2 DEF BatchOf
  <2> QED
    BY <2>1, <2>3 DEF AbsorbPlaces
<1>4. ASSUME NEW s \in Syncer, Finish(s) PROVE placements'[g][u].gone
  BY <1>1, <1>4, FinishDoes DEF FinishPlaces
<1>5. UNCHANGED placements \/ \E s \in Syncer : Absorb(s) \/ Finish(s)
  <2>1. UNCHANGED vars => UNCHANGED placements
    BY DEF vars
  <2>2. Mailbox => UNCHANGED placements
    BY DEF Mailbox, Deliver, Touch, Expunge, Recreate, Cached
  <2>3. \A s \in Syncer : Starts(s) \/ Fail(s) \/ LoseFolder(s) => UNCHANGED placements
    BY DEF Starts, Load, Fail, LoseFolder
  <2>4. \A s \in Syncer : Thinks(s) => UNCHANGED placements
    BY DEF Thinks, SelectSame, SelectOther, ReadChanged, List, ReadBatch, ListAgain
  <2>5. \A m \in Wanted, v \in Uid : FetchBody(m, v) => UNCHANGED placements
    BY DEF FetchBody
  <2>6. \A s \in Syncer :
          Step(s) => Thinks(s) \/ Absorb(s) \/ Finish(s) \/ LoseFolder(s)
    BY DEF Step, Thinks
  <2> QED
    BY <2>1, <2>2, <2>3, <2>4, <2>5, <2>6 DEF Next
<1> QED
  BY <1>2, <1>3, <1>4, <1>5

\* A message that was seen to be gone is not brought back (sync._absorb,
\* _mark_vanished).
THEOREM WhatIsGoneStaysGone == Spec => GoneStaysGone
<1>1. SyncInv /\ [Next]_vars =>
        [odd' \cap {"mixed", "early"} = {} =>
           \A g \in Generation, u \in Uid :
             placements[g][u] # None /\ placements[g][u].gone => placements'[g][u].gone]_vars
  BY StepKeepsGone DEF Unmixed
<1> QED
  BY <1>1, SyncInvariant, PTL DEF Spec, GoneStaysGone

\* Who asks for a body and fits by it finds it: making room stops short of the
\* row that was put down last (cache.cache_body, evict_bodies).
THEOREM WhatIsFetchedIsKept == Spec => FetchedIsKept
<1> DEFINE Kept ==
             \A m \in Msg, u \in Uid :
               FetchBody(m, u) /\ keepsBodies /\ Size[box.at[u].msg] <= Budget =>
                 \E i \in 1..Len(bodies') : bodies'[i].msg = m
<1>1. SyncInv => Kept
  BY FetchedStays, Zenon DEF SyncInv, Sound
<1>2. Spec => [][Kept]_vars
  <2> HIDE DEF Kept
  <2>1. SyncInv /\ [Next]_vars => [Kept]_vars
    BY <1>1
  <2> QED
    BY <2>1, SyncInvariant, PTL DEF Spec
<1> QED
  BY <1>2 DEF FetchedIsKept

=============================================================================
