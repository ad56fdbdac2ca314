---------------------------- MODULE ReviewProofs ----------------------------
(***************************************************************************)
(* What Review promises for every set of messages, looks, bundles and      *)
(* pages, and every bound.                                                 *)
(***************************************************************************)
EXTENDS Review, TLAPS

\* The parts of TypeOK an action of a given kind leaves alone, and the forms
\* of the values the actions build.
LEMMA MarkedType ==
  ASSUME NEW status \in [Message -> ItemStatus], NEW fresh
  PROVE  Marked(status, fresh) \in [Message -> ItemStatus]
BY DEF Marked, ItemStatus

LEMMA RefreshType ==
  ASSUME TypeOK, NEW b \in Bundle, Refresh(b)
  PROVE  /\ istatus' \in [Bundle -> [Message -> ItemStatus]]
         /\ bstatus' \in [Bundle -> BundleStatus]
<1>1. Refreshed(b) \in [Message -> ItemStatus]
  BY MarkedType DEF TypeOK, Refreshed
<1>. QED
  BY <1>1 DEF TypeOK, Refresh, BundleStatus

LEMMA SettleType ==
  ASSUME TypeOK, NEW b \in Bundle,
         NEW status \in {"withdrawn", "rejected"}, Settle(b, status)
  PROVE  /\ istatus' \in [Bundle -> [Message -> ItemStatus]]
         /\ bstatus' \in [Bundle -> BundleStatus]
BY DEF TypeOK, Settle, BundleStatus, ItemStatus

LEMMA NullsType ==
  /\ NoPage \in [bundle : Bundle \cup {NoBundle}, through : 0..MaxBatch,
                 showed : SUBSET Message, ack : BOOLEAN]
  /\ Idle \in [stage : {"idle", "expired", "sweeping"}, todo : SUBSET Bundle,
               seen : [Bundle -> [Message -> ItemStatus]],
               fresh : [Bundle -> SUBSET Message]]
BY ConstantsOK DEF NoPage, Idle, ItemStatus

\* Only a run of some bundle has items left to do.
LEMMA RunType ==
  ASSUME TypeOK, NEW m \in run.todo
  PROVE  /\ run \in [bundle : Bundle, todo : SUBSET Message,
                      mem : [Message -> ItemStatus], fresh : SUBSET Message]
         /\ m \in Message
BY DEF TypeOK, NoRun

LEMMA ConcludeType ==
  ASSUME TypeOK, NEW m \in run.todo, NEW status \in ItemStatus,
         Conclude(m, status)
  PROVE  /\ istatus' \in [Bundle -> [Message -> ItemStatus]]
         /\ run' \in [bundle : Bundle, todo : SUBSET Message,
                       mem : [Message -> ItemStatus], fresh : SUBSET Message]
BY RunType DEF TypeOK, Conclude

LEMMA TypeStep == TypeOK /\ [Next]_vars => TypeOK'
<1> SUFFICES ASSUME TypeOK, [Next]_vars PROVE TypeOK'
  OBVIOUS
<1> USE DEF ghosts, items
<1>1. ASSUME NEW b \in Bundle, NEW S \in SUBSET Message, Propose(b, S)
      PROVE  TypeOK'
  BY <1>1, ConstantsOK DEF TypeOK, Propose, ItemStatus, BundleStatus
<1>2. ASSUME NEW b \in Bundle, NEW S \in SUBSET Message, Grow(b, S)
      PROVE  TypeOK'
  <2>1. Refreshed(b) \in [Message -> ItemStatus]
    BY MarkedType DEF TypeOK, Refreshed
  <2>2. batches[b] + 1 \in 0..MaxBatch
    BY <1>2, ConstantsOK DEF Grow, TypeOK
  <2>. QED
    BY <1>2, <2>1, <2>2 DEF TypeOK, Grow, ItemStatus
<1>3. ASSUME NEW b \in Bundle, Withdraw(b)
      PROVE  TypeOK'
  BY <1>3, SettleType DEF TypeOK, Withdraw
<1>4. ASSUME NEW t \in Tab, NEW b \in Bundle, OpenPage(t, b)
      PROVE  TypeOK'
  BY <1>4, RefreshType, NullsType DEF TypeOK, OpenPage
<1>5. ASSUME NEW t \in Tab, NEW m \in Message, Exclude(t, m)
      PROVE  TypeOK'
  BY <1>5 DEF TypeOK, Exclude, ItemStatus
<1>6. ASSUME NEW t \in Tab, Accept(t)
      PROVE  TypeOK'
  <2> DEFINE b == page[t].bundle
  <2>1. b \in Bundle
    BY <1>6 DEF Accept, TypeOK
  <2>2. Refreshed(b) \in [Message -> ItemStatus]
    BY <2>1, MarkedType DEF TypeOK, Refreshed
  <2>3. CASE ~Acceptable(Refreshed(b), page[t].ack)
    BY <1>6, <2>1, <2>3, RefreshType DEF TypeOK, Accept
  <2>4. CASE Acceptable(Refreshed(b), page[t].ack)
    <3> DEFINE taken == {m \in Message : Refreshed(b)[m] = "proposed"}
    <3>1. /\ bstatus' = [bstatus EXCEPT ![b] = "accepted"]
          /\ istatus' = [istatus EXCEPT ![b] = [m \in Message |->
               IF m \in taken THEN "accepted" ELSE Refreshed(b)[m]]]
          /\ granted' = granted \cup ({b} \X taken)
          /\ UNCHANGED <<cache, health, items, due, page, sweep, run, effects,
                         takenOut, overtaken>>
      BY <1>6, <2>4 DEF Accept
    <3>2. granted' \subseteq Bundle \X Message
      BY <2>1, <3>1 DEF TypeOK
    <3> HIDE DEF taken, b
    <3>3. [m \in Message |-> IF m \in taken THEN "accepted" ELSE Refreshed(b)[m]]
          \in [Message -> ItemStatus]
      BY <2>2 DEF ItemStatus
    <3>. QED
      BY <2>1, <3>1, <3>2, <3>3 DEF TypeOK, BundleStatus
  <2>. QED
    BY <2>3, <2>4
<1>7. ASSUME NEW t \in Tab, Reject(t)
      PROVE  TypeOK'
  BY <1>7, SettleType DEF TypeOK, Reject
<1>8. CASE Expire
  BY <1>8, ZenonT(40) DEF TypeOK, Expire, ItemStatus, BundleStatus
<1>9. CASE SweepNothing
  BY <1>9, NullsType DEF TypeOK, SweepNothing
<1>10. ASSUME NEW b \in Bundle, SweepFirst(b)
       PROVE  TypeOK'
  <2> DEFINE rest == {c \in Bundle : bstatus[c] = "proposed"} \ {b}
             seen == [c \in Bundle |-> IF c \in rest THEN istatus[c] ELSE Idle.seen[c]]
             fresh == [c \in Bundle |-> IF c \in rest THEN FreshItems(c) ELSE {}]
  <2>1. seen \in [Bundle -> [Message -> ItemStatus]]
    BY DEF TypeOK, Idle, ItemStatus
  <2>2. fresh \in [Bundle -> SUBSET Message]
    BY DEF FreshItems
  <2>3. sweep' = IF rest = {} THEN Idle
                 ELSE [stage |-> "sweeping", todo |-> rest, seen |-> seen, fresh |-> fresh]
    BY <1>10 DEF SweepFirst
  <2>4. rest \subseteq Bundle
    OBVIOUS
  <2> HIDE DEF rest, seen, fresh
  <2>5. sweep' \in [stage : {"idle", "expired", "sweeping"}, todo : SUBSET Bundle,
                    seen : [Bundle -> [Message -> ItemStatus]],
                    fresh : [Bundle -> SUBSET Message]]
    BY <2>1, <2>2, <2>3, <2>4, NullsType
  <2>. QED
    BY <1>10, <2>5, RefreshType DEF TypeOK, SweepFirst
<1>11. ASSUME NEW b \in Bundle, SweepNext(b)
       PROVE  TypeOK'
  <2>1. Marked(sweep.seen[b], sweep.fresh[b]) \in [Message -> ItemStatus]
    BY MarkedType DEF TypeOK
  <2>. QED
    BY <1>11, <2>1, NullsType, ZenonT(40) DEF TypeOK, SweepNext, BundleStatus
<1>12. ASSUME NEW b \in Bundle, ApplyNothing(b)
       PROVE  TypeOK'
  BY <1>12 DEF TypeOK, ApplyNothing, Outcome, BundleStatus
<1>13. ASSUME NEW b \in Bundle, ApplyStart(b)
       PROVE  TypeOK'
  BY <1>13 DEF TypeOK, ApplyStart
<1>14. ASSUME NEW m \in Message, ApplyRefused(m)
       PROVE  TypeOK'
  BY <1>14, ConcludeType DEF TypeOK, ApplyRefused, ItemStatus
<1>15. ASSUME NEW m \in Message, ApplyDone(m)
       PROVE  TypeOK'
  <2>1. m \in run.todo /\ Conclude(m, "applied")
    BY <1>15 DEF ApplyDone
  <2>2. run.bundle \in Bundle
    BY <2>1, RunType
  <2>3. effects' \subseteq Bundle \X Message
    BY <1>15, <2>2 DEF ApplyDone, TypeOK
  <2>4. cache' \in [Message -> SUBSET Look]
    <3>1. PICK looks \in SUBSET Look : cache' = [cache EXCEPT ![m] = looks]
      BY <1>15 DEF ApplyDone, TypeOK
    <3>. QED
      BY <3>1 DEF TypeOK
  <2>. QED
    BY <1>15, <2>1, <2>3, <2>4, ConcludeType DEF TypeOK, ApplyDone, ItemStatus
<1>16. CASE ApplyUnhealthy
  BY <1>16 DEF TypeOK, ApplyUnhealthy, Health
<1>17. CASE ApplyFinish
  BY <1>17 DEF TypeOK, ApplyFinish, Outcome, BundleStatus
<1>18. ASSUME NEW m \in Message, CacheChanges(m)
       PROVE  TypeOK'
  BY <1>18 DEF TypeOK, CacheChanges
<1>19. ASSUME NEW f \in Folder, IdentityBreaks(f)
       PROVE  TypeOK'
  BY <1>19 DEF TypeOK, IdentityBreaks, ItemStatus
<1>20. ASSUME NEW b \in Bundle, FallDue(b)
       PROVE  TypeOK'
  BY <1>20 DEF TypeOK, FallDue
<1>21. CASE HealthChanges
  BY <1>21 DEF TypeOK, HealthChanges
<1>22. CASE ServiceStops
  BY <1>22, NullsType DEF TypeOK, ServiceStops
<1>23. CASE UNCHANGED vars
  BY <1>23 DEF TypeOK, vars
<1>. QED
  BY <1>1, <1>2, <1>3, <1>4, <1>5, <1>6, <1>7, <1>8, <1>9, <1>10, <1>11, <1>12,
     <1>13, <1>14, <1>15, <1>16, <1>17, <1>18, <1>19, <1>20, <1>21, <1>22, <1>23
     DEF Next, Agent, Reviewer, Tick, Runner, World

\* The variables of Review keep to the values its code can give them.
THEOREM TypeCorrect == Spec => []TypeOK
<1>1. Init => TypeOK
  BY NullsType, ConstantsOK
     DEF Init, TypeOK, ItemStatus, BundleStatus, Health
<1>. QED
  BY <1>1, TypeStep, PTL DEF Spec

-----------------------------------------------------------------------------
(* The invariant behind the promise of Consent.tla.  That what is accepted *)
(* was on the page, and only once, needs to be known of every bundle at    *)
(* every moment before the acceptance: what each page has missed, what a   *)
(* bundle that was never decided cannot have, and what is yet to be done.  *)

\* What is known of a page: nothing newer than the page awaits review unseen.
PagesShowAll ==
  \A t \in Tab : page[t].bundle # NoBundle =>
    LET b == page[t].bundle IN
    /\ page[t].through <= batches[b]
    /\ \A m \in Message :
         istatus[b][m] = "proposed" /\ batch[b][m] <= page[t].through
         => m \in page[t].showed

\* A bundle nobody has proposed yet is empty, and nothing holds it.
UnusedIsEmpty ==
  \A b \in Bundle : bstatus[b] = "unused" =>
    /\ \A m \in Message : istatus[b][m] = "absent"
    /\ batches[b] = 0
    /\ b \notin sweep.todo
    /\ b # run.bundle

\* Nothing of a bundle has been accepted before the bundle is.
GrantsAreDecided ==
  \A b \in Bundle, m \in Message : <<b, m>> \in granted =>
    /\ bstatus[b] \notin {"unused", "proposed"}
    /\ istatus[b][m] # "proposed"

\* What may still be applied was accepted, and has not been applied.
PendingIsGranted ==
  \A b \in Bundle, m \in Message :
    istatus[b][m] = "accepted" \/ (run.bundle = b /\ m \in run.todo)
    => <<b, m>> \in granted \ effects

EffectsAreGranted == effects \subseteq granted

\* What was taken out stays excluded, or dies; it is never accepted.
TakenOutIsOut ==
  \A b \in Bundle, m \in Message : <<b, m>> \in takenOut =>
    /\ bstatus[b] # "unused"
    /\ istatus[b][m] \in {"excluded", "stale"}
    /\ <<b, m>> \notin granted

ConsentInv ==
  /\ TypeOK
  /\ PagesShowAll
  /\ UnusedIsEmpty
  /\ GrantsAreDecided
  /\ PendingIsGranted
  /\ EffectsAreGranted
  /\ TakenOutIsOut

\* What most steps do to the rows: nothing becomes proposed or accepted, and
\* an item that comes to an end was live, or is overwritten as dead.
ClosesOnly ==
  /\ UNCHANGED <<items, page, effects, granted, takenOut>>
  /\ \A b \in Bundle :
       \/ bstatus'[b] = bstatus[b]
       \/ bstatus[b] # "unused" /\ bstatus'[b] \notin {"unused", "proposed"}
  /\ \A b \in Bundle, m \in Message :
       \/ istatus'[b][m] = istatus[b][m]
       \/ /\ bstatus[b] # "unused"
          /\ istatus'[b][m] \notin {"absent", "proposed", "accepted"}
          /\ istatus[b][m] \in LiveItem \/ istatus'[b][m] = "stale"
  /\ run'.bundle \in {run.bundle, NoBundle}
  /\ run'.bundle # NoBundle => run'.todo \subseteq run.todo
  /\ \A b \in sweep'.todo : b \in sweep.todo \/ bstatus[b] # "unused"

LEMMA PagesKept ==
  ASSUME ConsentInv, UNCHANGED <<items, page>>,
         \A b \in Bundle, m \in Message :
           istatus'[b][m] = "proposed" => istatus[b][m] = "proposed"
  PROVE  PagesShowAll'
BY DEF ConsentInv, TypeOK, PagesShowAll, items

LEMMA ClosesOnlyKeeps ==
  ASSUME ConsentInv, TypeOK', ClosesOnly
  PROVE  ConsentInv'
<1> USE DEF ClosesOnly, items
<1>1. PagesShowAll'
  BY DEF ConsentInv, TypeOK, PagesShowAll
<1>2. UnusedIsEmpty'
  BY ConstantsOK DEF ConsentInv, TypeOK, UnusedIsEmpty
<1>3. GrantsAreDecided'
  BY DEF ConsentInv, TypeOK, GrantsAreDecided
<1>4. PendingIsGranted'
  BY ConstantsOK DEF ConsentInv, TypeOK, PendingIsGranted
<1>5. EffectsAreGranted'
  BY DEF ConsentInv, EffectsAreGranted
<1>6. TakenOutIsOut'
  <2>1. SUFFICES ASSUME NEW b \in Bundle, NEW m \in Message, <<b, m>> \in takenOut
                 PROVE  /\ bstatus'[b] # "unused"
                        /\ istatus'[b][m] \in {"excluded", "stale"}
                        /\ <<b, m>> \notin granted
    BY DEF TakenOutIsOut
  <2>2. /\ bstatus[b] # "unused"
        /\ istatus[b][m] \in {"excluded", "stale"}
        /\ <<b, m>> \notin granted
    BY <2>1 DEF ConsentInv, TakenOutIsOut
  <2>. QED
    BY <2>2 DEF LiveItem
<1>. QED
  BY <1>1, <1>2, <1>3, <1>4, <1>5, <1>6 DEF ConsentInv

\* A refresh only closes.
LEMMA RefreshCloses ==
  ASSUME TypeOK, NEW b \in Bundle, Refresh(b)
  PROVE  /\ \A c \in Bundle :
              \/ bstatus'[c] = bstatus[c]
              \/ bstatus[c] = "proposed" /\ bstatus'[c] = "stale"
         /\ \A c \in Bundle, m \in Message :
              \/ istatus'[c][m] = istatus[c][m]
              \/ c = b /\ istatus[c][m] \in LiveItem /\ istatus'[c][m] = "stale"
BY DEF TypeOK, Refresh, Refreshed, Marked

LEMMA ConsentStep == ConsentInv /\ [Next]_vars => ConsentInv'
<1> SUFFICES ASSUME ConsentInv, [Next]_vars PROVE ConsentInv'
  OBVIOUS
<1>0. TypeOK /\ TypeOK'
  BY TypeStep DEF ConsentInv
<1> USE DEF ghosts, items
<1>1. ASSUME NEW b \in Bundle, NEW S \in SUBSET Message, Propose(b, S)
      PROVE  ConsentInv'
  <2>1. /\ bstatus[b] = "unused" /\ bstatus'[b] = "proposed"
        /\ \A c \in Bundle \ {b} : /\ bstatus'[c] = bstatus[c]
                                   /\ istatus'[c] = istatus[c]
                                   /\ batch'[c] = batch[c]
                                   /\ batches'[c] = batches[c]
        /\ batches'[b] = 1
        /\ UNCHANGED <<page, sweep, run, effects, granted, takenOut>>
    BY <1>0, <1>1 DEF TypeOK, Propose
  <2>2. \A m \in Message :
          \/ istatus'[b][m] = "proposed" /\ batch'[b][m] = 1
          \/ istatus'[b][m] = istatus[b][m]
    BY <1>0, <1>1 DEF TypeOK, Propose
  <2>3. PagesShowAll'
    <3>1. SUFFICES ASSUME NEW t \in Tab, page[t].bundle # NoBundle
                   PROVE  LET c == page[t].bundle IN
                     /\ page[t].through <= batches'[c]
                     /\ \A m \in Message :
                          istatus'[c][m] = "proposed" /\ batch'[c][m] <= page[t].through
                          => m \in page[t].showed
      BY <2>1 DEF PagesShowAll
    <3>2. page[t].bundle \in Bundle /\ page[t].through \in Nat
      BY <1>0, <3>1 DEF TypeOK
    <3>3. CASE page[t].bundle # b
      BY <2>1, <3>1, <3>2, <3>3 DEF ConsentInv, PagesShowAll
    <3>4. CASE page[t].bundle = b
      <4>1. page[t].through <= 0 /\ \A m \in Message : istatus[b][m] = "absent"
        BY <2>1, <3>1, <3>4 DEF ConsentInv, PagesShowAll, UnusedIsEmpty
      <4>2. \A m \in Message : istatus'[b][m] = "proposed" => batch'[b][m] = 1
        BY <2>2, <4>1
      <4>. QED
        BY <2>1, <3>2, <3>4, <4>1, <4>2
    <3>. QED
      BY <3>3, <3>4
  <2>4. UnusedIsEmpty'
    BY <2>1 DEF ConsentInv, UnusedIsEmpty
  <2>5. GrantsAreDecided'
    BY <2>1 DEF ConsentInv, GrantsAreDecided
  <2>6. PendingIsGranted'
    BY <2>1, <2>2 DEF ConsentInv, PendingIsGranted
  <2>7. TakenOutIsOut'
    BY <2>1 DEF ConsentInv, TakenOutIsOut
  <2>. QED
    BY <1>0, <2>1, <2>3, <2>4, <2>5, <2>6, <2>7 DEF ConsentInv, EffectsAreGranted
<1>2. ASSUME NEW b \in Bundle, NEW S \in SUBSET Message, Grow(b, S)
      PROVE  ConsentInv'
  <2>1. /\ bstatus[b] = "proposed"
        /\ \A c \in Bundle \ {b} : /\ istatus'[c] = istatus[c]
                                   /\ batch'[c] = batch[c]
                                   /\ batches'[c] = batches[c]
        /\ batches'[b] = batches[b] + 1
        /\ UNCHANGED <<bstatus, page, sweep, run, effects, granted, takenOut>>
    BY <1>0, <1>2 DEF TypeOK, Grow
  <2>2. \A m \in S : /\ istatus[b][m] = "absent"
                     /\ istatus'[b][m] = "proposed"
                     /\ batch'[b][m] = batches[b] + 1
    BY <1>0, <1>2 DEF TypeOK, Grow, Holds
  <2>3. \A m \in Message \ S : istatus'[b][m] = Refreshed(b)[m]
                               /\ batch'[b][m] = batch[b][m]
    BY <1>0, <1>2 DEF TypeOK, Grow
  <2>4. \A m \in Message :
          \/ Refreshed(b)[m] = istatus[b][m]
          \/ istatus[b][m] \in LiveItem /\ Refreshed(b)[m] = "stale"
    BY <1>0 DEF TypeOK, Refreshed, Marked
  <2>5. \A m \in Message :
          \/ istatus[b][m] = "absent" /\ istatus'[b][m] = "proposed"
          \/ istatus'[b][m] = istatus[b][m]
          \/ istatus[b][m] \in LiveItem /\ istatus'[b][m] = "stale"
    BY <2>2, <2>3, <2>4
  <2>6. PagesShowAll'
    <3>1. SUFFICES ASSUME NEW t \in Tab, page[t].bundle # NoBundle
                   PROVE  LET c == page[t].bundle IN
                     /\ page[t].through <= batches'[c]
                     /\ \A m \in Message :
                          istatus'[c][m] = "proposed" /\ batch'[c][m] <= page[t].through
                          => m \in page[t].showed
      BY <2>1 DEF PagesShowAll
    <3>2. page[t].bundle \in Bundle /\ page[t].through \in Nat
      BY <1>0, <3>1 DEF TypeOK
    <3>3. CASE page[t].bundle # b
      BY <2>1, <3>1, <3>2, <3>3 DEF ConsentInv, PagesShowAll
    <3>4. CASE page[t].bundle = b
      <4>1. /\ page[t].through <= batches[b]
            /\ \A m \in Message :
                 istatus[b][m] = "proposed" /\ batch[b][m] <= page[t].through
                 => m \in page[t].showed
        BY <3>1, <3>4 DEF ConsentInv, PagesShowAll
      <4>2. batches[b] \in Nat
        BY <1>0 DEF TypeOK
      <4>3. page[t].through <= batches'[b]
        BY <2>1, <3>2, <4>1, <4>2
      <4>4. ASSUME NEW m \in Message, istatus'[b][m] = "proposed",
                   batch'[b][m] <= page[t].through
            PROVE  m \in page[t].showed
        <5>1. m \notin S
          BY <2>2, <3>2, <4>1, <4>2, <4>4
        <5>. QED
          BY <2>3, <2>4, <4>1, <4>4, <5>1
      <4>. QED
        BY <3>4, <4>3, <4>4
    <3>. QED
      BY <3>3, <3>4
  <2>7. UnusedIsEmpty'
    BY <2>1 DEF ConsentInv, UnusedIsEmpty
  <2>8. GrantsAreDecided'
    BY <2>1 DEF ConsentInv, GrantsAreDecided
  <2>9. PendingIsGranted'
    BY <2>1, <2>5 DEF ConsentInv, PendingIsGranted
  <2>10. TakenOutIsOut'
    <3>1. SUFFICES ASSUME NEW c \in Bundle, NEW m \in Message, <<c, m>> \in takenOut
                   PROVE  istatus'[c][m] \in {"excluded", "stale"}
      BY <2>1 DEF ConsentInv, TakenOutIsOut
    <3>2. istatus[c][m] \in {"excluded", "stale"}
      BY <3>1 DEF ConsentInv, TakenOutIsOut
    <3>. QED
      BY <2>1, <2>5, <3>2 DEF LiveItem
  <2>. QED
    BY <1>0, <2>1, <2>6, <2>7, <2>8, <2>9, <2>10 DEF ConsentInv, EffectsAreGranted
<1>3. ASSUME NEW b \in Bundle, Withdraw(b)
      PROVE  ConsentInv'
  <2>1. ClosesOnly
    BY <1>0, <1>3 DEF TypeOK, ClosesOnly, Withdraw, Settle, LiveItem
  <2>. QED
    BY <1>0, <2>1, ClosesOnlyKeeps
<1>4. ASSUME NEW t \in Tab, NEW b \in Bundle, OpenPage(t, b)
      PROVE  ConsentInv'
  <2>1. Refresh(b) /\ bstatus[b] = "proposed"
    BY <1>4 DEF OpenPage
  <2>2. UNCHANGED <<items, sweep, run, effects, granted, takenOut>>
    BY <1>4 DEF OpenPage
  <2>3. PagesShowAll'
    <3>1. SUFFICES ASSUME NEW u \in Tab, page'[u].bundle # NoBundle
                   PROVE  LET c == page'[u].bundle IN
                     /\ page'[u].through <= batches[c]
                     /\ \A m \in Message :
                          istatus'[c][m] = "proposed" /\ batch[c][m] <= page'[u].through
                          => m \in page'[u].showed
      BY <2>2 DEF PagesShowAll
    <3>2. CASE u # t
      <4>1. page'[u] = page[u]
        BY <1>0, <1>4, <3>2 DEF OpenPage, TypeOK
      <4>2. page[u].bundle \in Bundle
        BY <1>0, <3>1, <4>1 DEF TypeOK
      <4>. QED
        BY <1>0, <2>1, <3>1, <4>1, <4>2, RefreshCloses DEF ConsentInv, PagesShowAll
    <3>3. CASE u = t
      <4>1. page'[t] = [bundle  |-> b,
                        through |-> batches[b],
                        showed  |-> {m \in Message : Refreshed(b)[m] = "proposed"},
                        ack     |-> \E m \in Message : Refreshed(b)[m] = "stale"]
        BY <1>0, <1>4, <3>1, <3>3 DEF OpenPage, TypeOK, NoPage
      <4>2. istatus'[b] = Refreshed(b)
        BY <1>0, <2>1 DEF Refresh, TypeOK
      <4>. QED
        BY <1>0, <3>3, <4>1, <4>2 DEF TypeOK
    <3>. QED
      BY <3>2, <3>3
  <2>4. UnusedIsEmpty'
    BY <1>0, <2>1, <2>2, RefreshCloses DEF ConsentInv, UnusedIsEmpty
  <2>5. GrantsAreDecided'
    BY <1>0, <2>1, <2>2, RefreshCloses DEF ConsentInv, GrantsAreDecided
  <2>6. PendingIsGranted'
    BY <1>0, <2>1, <2>2, RefreshCloses DEF ConsentInv, PendingIsGranted
  <2>7. TakenOutIsOut'
    BY <1>0, <2>1, <2>2, RefreshCloses DEF ConsentInv, TakenOutIsOut
  <2>. QED
    BY <1>0, <2>2, <2>3, <2>4, <2>5, <2>6, <2>7 DEF ConsentInv, EffectsAreGranted
<1>5. ASSUME NEW t \in Tab, NEW m \in Message, Exclude(t, m)
      PROVE  ConsentInv'
  <2> DEFINE b == page[t].bundle
  <2>1. /\ b \in Bundle
        /\ istatus[b][m] = "proposed"
        /\ istatus' = [istatus EXCEPT ![b][m] = "excluded"]
        /\ takenOut' = takenOut \cup {<<b, m>>}
        /\ UNCHANGED <<bstatus, items, page, sweep, run, effects, granted>>
    BY <1>0, <1>5 DEF Exclude, TypeOK
  <2> HIDE DEF b
  <2>2. bstatus[b] # "unused"
    BY <2>1 DEF ConsentInv, UnusedIsEmpty
  <2>3. /\ istatus'[b][m] = "excluded"
        /\ \A c \in Bundle, n \in Message :
             istatus'[c][n] = istatus[c][n] \/ (c = b /\ n = m)
    BY <1>0, <2>1 DEF TypeOK
  <2>4. PagesShowAll'
    BY <2>1, <2>3, PagesKept
  <2>5. UnusedIsEmpty'
    BY <2>1, <2>2, <2>3 DEF ConsentInv, UnusedIsEmpty
  <2>6. GrantsAreDecided'
    BY <2>1, <2>3 DEF ConsentInv, GrantsAreDecided
  <2>7. PendingIsGranted'
    BY <2>1, <2>3 DEF ConsentInv, PendingIsGranted
  <2>8. TakenOutIsOut'
    <3>1. <<b, m>> \notin granted
      BY <2>1 DEF ConsentInv, GrantsAreDecided
    <3>. QED
      BY <2>1, <2>2, <2>3, <3>1 DEF ConsentInv, TakenOutIsOut
  <2>. QED
    BY <1>0, <2>1, <2>4, <2>5, <2>6, <2>7, <2>8 DEF ConsentInv, EffectsAreGranted
<1>6. ASSUME NEW t \in Tab, Accept(t)
      PROVE  ConsentInv'
  <2> DEFINE b == page[t].bundle
             taken == {m \in Message : Refreshed(b)[m] = "proposed"}
  <2>1. b \in Bundle /\ bstatus[b] = "proposed"
    BY <1>0, <1>6 DEF Accept, TypeOK
  <2>2. CASE ~Acceptable(Refreshed(b), page[t].ack)
    <3>1. Refresh(b) /\ UNCHANGED <<items, page, sweep, run, effects, granted, takenOut>>
      BY <1>6, <2>2 DEF Accept
    <3>2. ClosesOnly
      BY <1>0, <2>1, <3>1, RefreshCloses DEF ClosesOnly, LiveItem
    <3>. QED
      BY <1>0, <3>2, ClosesOnlyKeeps
  <2>3. CASE Acceptable(Refreshed(b), page[t].ack)
    <3>1. /\ bstatus' = [bstatus EXCEPT ![b] = "accepted"]
          /\ istatus' = [istatus EXCEPT ![b] = [m \in Message |->
               IF m \in taken THEN "accepted" ELSE Refreshed(b)[m]]]
          /\ granted' = granted \cup ({b} \X taken)
          /\ UNCHANGED <<items, page, sweep, run, effects, takenOut>>
      BY <1>6, <2>3 DEF Accept
    <3>2. \A m \in taken : istatus[b][m] = "proposed"
      BY <1>0, <2>1 DEF TypeOK, Refreshed, Marked, LiveItem
    <3>3. \A m \in Message \ taken :
            /\ Refreshed(b)[m] # "proposed"
            /\ \/ Refreshed(b)[m] = istatus[b][m]
               \/ istatus[b][m] \in LiveItem /\ Refreshed(b)[m] = "stale"
      BY <1>0, <2>1 DEF TypeOK, Refreshed, Marked
    <3>4. taken \subseteq Message
      OBVIOUS
    <3> HIDE DEF b, taken
    <3>5. /\ \A m \in taken : istatus'[b][m] = "accepted"
          /\ \A m \in Message \ taken : istatus'[b][m] = Refreshed(b)[m]
          /\ \A c \in Bundle \ {b} : istatus'[c] = istatus[c] /\ bstatus'[c] = bstatus[c]
          /\ bstatus'[b] = "accepted"
      BY <1>0, <2>1, <3>1, <3>4 DEF TypeOK
    <3>6. \A m \in Message : <<b, m>> \notin granted
      BY <2>1 DEF ConsentInv, GrantsAreDecided
    <3>7. PagesShowAll'
      BY <3>1, <3>3, <3>5, PagesKept
    <3>8. UnusedIsEmpty'
      BY <2>1, <3>1, <3>5 DEF ConsentInv, UnusedIsEmpty
    <3>9. GrantsAreDecided'
      <4>1. SUFFICES ASSUME NEW c \in Bundle, NEW m \in Message,
                            <<c, m>> \in granted \/ (c = b /\ m \in taken)
                     PROVE  /\ bstatus'[c] \notin {"unused", "proposed"}
                            /\ istatus'[c][m] # "proposed"
        BY <3>1 DEF GrantsAreDecided
      <4>. QED
        BY <3>5, <3>6, <4>1 DEF ConsentInv, GrantsAreDecided
    <3>10. PendingIsGranted'
      <4>1. SUFFICES ASSUME NEW c \in Bundle, NEW m \in Message,
                            istatus'[c][m] = "accepted" \/ (run.bundle = c /\ m \in run.todo)
                     PROVE  /\ <<c, m>> \in granted \/ (c = b /\ m \in taken)
                            /\ <<c, m>> \notin effects
        BY <3>1 DEF PendingIsGranted
      <4>2. CASE c # b
        BY <3>5, <4>1, <4>2 DEF ConsentInv, PendingIsGranted
      <4>3. CASE c = b
        <5>1. istatus[b][m] # "accepted" /\ ~(run.bundle = b /\ m \in run.todo)
          BY <2>1, <3>6 DEF ConsentInv, PendingIsGranted
        <5>2. m \in taken
          BY <3>3, <3>5, <4>1, <4>3, <5>1
        <5>. QED
          BY <3>6, <4>3, <5>2 DEF ConsentInv, EffectsAreGranted
      <4>. QED
        BY <4>2, <4>3
    <3>11. EffectsAreGranted'
      BY <3>1 DEF ConsentInv, EffectsAreGranted
    <3>12. TakenOutIsOut'
      <4>1. SUFFICES ASSUME NEW c \in Bundle, NEW m \in Message, <<c, m>> \in takenOut
                     PROVE  /\ bstatus'[c] # "unused"
                            /\ istatus'[c][m] \in {"excluded", "stale"}
                            /\ ~(<<c, m>> \in granted \/ (c = b /\ m \in taken))
        BY <3>1 DEF TakenOutIsOut
      <4>2. /\ bstatus[c] # "unused"
            /\ istatus[c][m] \in {"excluded", "stale"}
            /\ <<c, m>> \notin granted
        BY <4>1 DEF ConsentInv, TakenOutIsOut
      <4>. QED
        BY <3>2, <3>3, <3>5, <4>2 DEF LiveItem
    <3>. QED
      BY <1>0, <3>7, <3>8, <3>9, <3>10, <3>11, <3>12 DEF ConsentInv
  <2>. QED
    BY <2>2, <2>3
<1>7. ASSUME NEW t \in Tab, Reject(t)
      PROVE  ConsentInv'
  <2>1. ClosesOnly
    BY <1>0, <1>7 DEF TypeOK, ClosesOnly, Reject, Settle, LiveItem
  <2>. QED
    BY <1>0, <2>1, ClosesOnlyKeeps
<1>8. CASE Expire
  <2>1. ClosesOnly
    BY <1>0, <1>8 DEF TypeOK, ClosesOnly, Expire, LiveItem
  <2>. QED
    BY <1>0, <2>1, ClosesOnlyKeeps
<1>9. CASE SweepNothing
  <2>1. ClosesOnly
    BY <1>0, <1>9 DEF TypeOK, ClosesOnly, SweepNothing, Idle
  <2>. QED
    BY <1>0, <2>1, ClosesOnlyKeeps
<1>10. ASSUME NEW b \in Bundle, SweepFirst(b)
       PROVE  ConsentInv'
  <2>1. Refresh(b)
    BY <1>10 DEF SweepFirst
  <2>2. ClosesOnly
    BY <1>0, <1>10, <2>1, RefreshCloses
       DEF ConsentInv, UnusedIsEmpty, ClosesOnly, SweepFirst, Idle, LiveItem
  <2>. QED
    BY <1>0, <2>2, ClosesOnlyKeeps
<1>11. ASSUME NEW b \in Bundle, SweepNext(b)
       PROVE  ConsentInv'
  <2>1. bstatus[b] # "unused"
    BY <1>11 DEF SweepNext, ConsentInv, UnusedIsEmpty
  <2>2. \A m \in Message : \/ istatus'[b][m] = istatus[b][m]
                           \/ istatus'[b][m] = "stale"
    BY <1>0, <1>11 DEF TypeOK, SweepNext, Marked
  <2>3. \A c \in Bundle \ {b} : istatus'[c] = istatus[c]
    BY <1>0, <1>11 DEF TypeOK, SweepNext
  <2>4. \A c \in Bundle : \/ bstatus'[c] = bstatus[c]
                          \/ c = b /\ bstatus'[c] = "stale"
    BY <1>0, <1>11 DEF TypeOK, SweepNext
  <2>5. sweep'.todo \subseteq sweep.todo
    BY <1>0, <1>11 DEF TypeOK, SweepNext, Idle
  <2>6. ClosesOnly
    BY <1>11, <2>1, <2>2, <2>3, <2>4, <2>5 DEF ClosesOnly, SweepNext
  <2>. QED
    BY <1>0, <2>6, ClosesOnlyKeeps
<1>12. ASSUME NEW b \in Bundle, ApplyNothing(b)
       PROVE  ConsentInv'
  <2>1. ClosesOnly
    BY <1>0, <1>12 DEF TypeOK, ClosesOnly, ApplyNothing, Outcome
  <2>. QED
    BY <1>0, <2>1, ClosesOnlyKeeps
<1>13. ASSUME NEW b \in Bundle, ApplyStart(b)
       PROVE  ConsentInv'
  <2>1. PendingIsGranted'
    BY <1>0, <1>13 DEF ConsentInv, TypeOK, PendingIsGranted, ApplyStart
  <2>. QED
    BY <1>0, <1>13, <2>1 DEF ConsentInv, PagesShowAll, UnusedIsEmpty,
       GrantsAreDecided, EffectsAreGranted, TakenOutIsOut, ApplyStart
<1>14. ASSUME NEW m \in Message, ApplyRefused(m)
       PROVE  ConsentInv'
  <2>1. m \in run.todo /\ Conclude(m, "stale")
    BY <1>14 DEF ApplyRefused
  <2>2. run.bundle \in Bundle /\ bstatus[run.bundle] # "unused"
    BY <1>0, <2>1, RunType DEF ConsentInv, PendingIsGranted, GrantsAreDecided
  <2>3. \A c \in Bundle, n \in Message :
          istatus'[c][n] = istatus[c][n]
          \/ (c = run.bundle /\ istatus'[c][n] = "stale")
    BY <1>0, <2>1, <2>2 DEF TypeOK, Conclude
  <2>4. run'.bundle = run.bundle /\ run'.todo \subseteq run.todo
    BY <1>0, <2>1, RunType DEF Conclude
  <2>5. ClosesOnly
    BY <1>14, <2>2, <2>3, <2>4 DEF ClosesOnly, ApplyRefused
  <2>. QED
    BY <1>0, <2>5, ClosesOnlyKeeps
<1>15. ASSUME NEW m \in Message, ApplyDone(m)
       PROVE  ConsentInv'
  <2> DEFINE b == run.bundle
  <2>1. /\ m \in run.todo
        /\ Conclude(m, "applied")
        /\ effects' = effects \cup {<<b, m>>}
        /\ UNCHANGED <<bstatus, items, page, sweep, granted, takenOut>>
    BY <1>15 DEF ApplyDone
  <2>2. b \in Bundle /\ <<b, m>> \in granted /\ bstatus[b] # "unused"
    BY <1>0, <2>1, RunType DEF ConsentInv, PendingIsGranted, GrantsAreDecided
  <2>3. run'.bundle = b /\ run'.todo = run.todo \ {m}
    BY <1>0, <2>1, RunType DEF Conclude
  <2>4. /\ istatus'[b][m] = "applied"
        /\ \A c \in Bundle, n \in Message :
             istatus'[c][n] = istatus[c][n] \/ (c = b /\ n = m)
    BY <1>0, <2>1, <2>2 DEF TypeOK, Conclude
  <2> HIDE DEF b
  <2>5. PagesShowAll'
    BY <2>1, <2>4, PagesKept
  <2>6. UnusedIsEmpty'
    BY <2>1, <2>2, <2>3, <2>4 DEF ConsentInv, UnusedIsEmpty, b
  <2>7. GrantsAreDecided'
    BY <2>1, <2>4 DEF ConsentInv, GrantsAreDecided
  <2>8. PendingIsGranted'
    <3>1. SUFFICES ASSUME NEW c \in Bundle, NEW n \in Message,
                          istatus'[c][n] = "accepted" \/ (b = c /\ n \in run.todo \ {m})
                   PROVE  <<c, n>> \in granted /\ <<c, n>> # <<b, m>>
                          /\ <<c, n>> \notin effects
      BY <2>1, <2>3 DEF PendingIsGranted
    <3>2. <<c, n>> # <<b, m>>
      BY <2>4, <3>1
    <3>. QED
      BY <2>4, <3>1, <3>2 DEF ConsentInv, PendingIsGranted, b
  <2>9. TakenOutIsOut'
    BY <1>0, <2>1, <2>2, <2>4 DEF ConsentInv, TakenOutIsOut
  <2>. QED
    BY <1>0, <2>1, <2>2, <2>5, <2>6, <2>7, <2>8, <2>9 DEF ConsentInv, EffectsAreGranted
<1>16. CASE ApplyUnhealthy
  <2>1. ClosesOnly
    BY <1>16 DEF ClosesOnly, ApplyUnhealthy, NoRun
  <2>. QED
    BY <1>0, <2>1, ClosesOnlyKeeps
<1>17. CASE ApplyFinish
  <2>1. ClosesOnly
    <3>1. run.bundle \in Bundle /\ bstatus[run.bundle] # "unused"
      BY <1>0, <1>17 DEF TypeOK, ApplyFinish, ConsentInv, UnusedIsEmpty
    <3>. QED
      BY <1>0, <1>17, <3>1 DEF TypeOK, ClosesOnly, ApplyFinish, Outcome, NoRun
  <2>. QED
    BY <1>0, <2>1, ClosesOnlyKeeps
<1>18. ASSUME NEW m \in Message, CacheChanges(m)
       PROVE  ConsentInv'
  <2>1. ClosesOnly
    BY <1>18 DEF ClosesOnly, CacheChanges
  <2>. QED
    BY <1>0, <2>1, ClosesOnlyKeeps
<1>19. ASSUME NEW f \in Folder, IdentityBreaks(f)
       PROVE  ConsentInv'
  <2>1. ClosesOnly
    BY <1>0, <1>19
       DEF TypeOK, ConsentInv, UnusedIsEmpty, ClosesOnly, IdentityBreaks, LiveItem
  <2>. QED
    BY <1>0, <2>1, ClosesOnlyKeeps
<1>20. ASSUME NEW b \in Bundle, FallDue(b)
       PROVE  ConsentInv'
  <2>1. ClosesOnly
    BY <1>20 DEF ClosesOnly, FallDue
  <2>. QED
    BY <1>0, <2>1, ClosesOnlyKeeps
<1>21. CASE HealthChanges
  <2>1. ClosesOnly
    BY <1>21 DEF ClosesOnly, HealthChanges
  <2>. QED
    BY <1>0, <2>1, ClosesOnlyKeeps
<1>22. CASE ServiceStops
  <2>1. ClosesOnly
    BY <1>22 DEF ClosesOnly, ServiceStops, NoRun, Idle
  <2>. QED
    BY <1>0, <2>1, ClosesOnlyKeeps
<1>23. CASE UNCHANGED vars
  <2>1. ClosesOnly
    BY <1>23 DEF ClosesOnly, vars
  <2>. QED
    BY <1>0, <2>1, ClosesOnlyKeeps
<1>. QED
  BY <1>1, <1>2, <1>3, <1>4, <1>5, <1>6, <1>7, <1>8, <1>9, <1>10, <1>11, <1>12,
     <1>13, <1>14, <1>15, <1>16, <1>17, <1>18, <1>19, <1>20, <1>21, <1>22, <1>23
     DEF Next, Agent, Reviewer, Tick, Runner, World

LEMMA ConsentInit == Init => ConsentInv
<1>1. Init => TypeOK
  BY NullsType, ConstantsOK DEF Init, TypeOK, ItemStatus, BundleStatus, Health
<1>. QED
  BY <1>1, ConstantsOK
     DEF Init, ConsentInv, PagesShowAll, UnusedIsEmpty, GrantsAreDecided,
         PendingIsGranted, EffectsAreGranted, TakenOutIsOut, NoPage, NoRun, Idle

\* The invariant behind the acceptance of a page (suggest/model.py accept):
\* it holds throughout.
THEOREM ConsentInvariant == Spec => []ConsentInv
BY ConsentInit, ConsentStep, PTL DEF Spec

\* What the reviewer took out of a bundle is never accepted or applied
\* (suggest/model.py exclude and _add_messages).
THEOREM TakenOutNeverReturns == Spec => []TakenOutStaysOut
<1>1. ConsentInv => TakenOutStaysOut
  BY DEF ConsentInv, TypeOK, TakenOutIsOut, EffectsAreGranted, TakenOutStaysOut
<1>. QED
  BY <1>1, ConsentInvariant, PTL

-----------------------------------------------------------------------------
(* The record: what the rows of a bundle say of each other, of what was    *)
(* done, and of what the application in progress holds in memory.  All of  *)
(* it is known of one bundle at a time, and only while the sweep has not   *)
(* overtaken it; the run's memory is what ties the three together, since   *)
(* a bundle's outcome is computed from it and never from the rows.         *)

\* What the run of a bundle remembers is what the rows say, except of an item
\* a recreated folder killed since; what is left to do is what it remembers
\* as accepted.
RunHasTheRecord(b) ==
  run.bundle = b =>
    /\ bstatus[b] = "accepted"
    /\ \A m \in Message :
         /\ m \in run.todo <=> run.mem[m] = "accepted"
         /\ \/ run.mem[m] = istatus[b][m]
            \/ run.mem[m] = "accepted" /\ istatus[b][m] = "stale"

RecordOf(b) ==
  /\ \A m \in Message : istatus[b][m] \in AllowedItems[bstatus[b]]
  /\ \A m \in Message : istatus[b][m] = "applied" <=> <<b, m>> \in effects
  /\ RunHasTheRecord(b)

RecordInv == ConsentInv /\ \A b \in Bundle \ overtaken : RecordOf(b)

LEMMA Allowed ==
  /\ AllowedItems["unused"] = {"absent"}
  /\ AllowedItems["proposed"] = {"absent", "proposed", "excluded", "stale"}
  /\ AllowedItems["accepted"] = {"absent", "accepted", "excluded", "stale", "applied"}
  /\ AllowedItems["applied"] = {"absent", "excluded", "applied"}
  /\ AllowedItems["partially_applied"] = {"absent", "excluded", "applied", "stale"}
  /\ AllowedItems["rejected"] = {"absent", "excluded", "stale", "rejected"}
  /\ AllowedItems["withdrawn"] = {"absent", "excluded", "stale", "withdrawn"}
  /\ AllowedItems["expired"] = {"absent", "excluded", "stale", "expired"}
  /\ AllowedItems["stale"] = {"absent", "excluded", "stale"}
BY DEF AllowedItems

\* Only a bundle that may still change holds an item that may.
LEMMA LiveItemsAllowed ==
  ASSUME NEW s \in BundleStatus, NEW i \in AllowedItems[s], i \in LiveItem
  PROVE  /\ s = i
         /\ "stale" \in AllowedItems[s]
BY Allowed DEF BundleStatus, LiveItem

\* The run in progress is of an accepted bundle, or of one the sweep overtook.
LEMMA NoRunOf ==
  ASSUME NEW b \in Bundle, RecordOf(b), bstatus[b] # "accepted"
  PROVE  run.bundle # b
BY DEF RecordOf, RunHasTheRecord

\* The record of a bundle survives a step that leaves its rows alone, and
\* goes on with its run if it has one.
LEMMA UntouchedKeeps ==
  ASSUME NEW b \in Bundle, RecordOf(b),
         bstatus'[b] = bstatus[b], istatus'[b] = istatus[b],
         \A m \in Message : <<b, m>> \in effects' <=> <<b, m>> \in effects,
         run'.bundle = b => run' = run
  PROVE  RecordOf(b)'
BY DEF RecordOf, RunHasTheRecord

\* And a step that decides a proposed bundle, whichever way, if the items end
\* as a bundle so decided allows and none is called applied.
LEMMA DecidedKeeps ==
  ASSUME NEW b \in Bundle, RecordOf(b), bstatus[b] = "proposed",
         UNCHANGED <<effects, run>>,
         \A m \in Message : istatus'[b][m] \in AllowedItems[bstatus'[b]] \ {"applied"}
  PROVE  RecordOf(b)'
<1>1. \A m \in Message : istatus[b][m] # "applied"
  BY Allowed DEF RecordOf
<1>2. run.bundle # b
  BY NoRunOf
<1>. QED
  BY <1>1, <1>2 DEF RecordOf, RunHasTheRecord

LEMMA MarkingKeepsRecord ==
  ASSUME TypeOK, NEW b \in Bundle, NEW c \in Bundle, RecordOf(c), NEW fresh,
         bstatus[b] = "proposed", UNCHANGED <<effects, run>>,
         istatus' = [istatus EXCEPT ![b] = Marked(istatus[b], fresh)],
         bstatus' = [bstatus EXCEPT ![b] =
           IF NothingSurvived(Marked(istatus[b], fresh)) THEN "stale" ELSE @]
  PROVE  RecordOf(c)'
<1> DEFINE mem == Marked(istatus[b], fresh)
<1>1. CASE c # b
  <2>1. bstatus'[c] = bstatus[c] /\ istatus'[c] = istatus[c]
    BY <1>1 DEF TypeOK
  <2>. QED
    BY <2>1, UntouchedKeeps
<1>2. CASE c = b
  <2>1. istatus'[b] = mem /\ mem \in [Message -> ItemStatus]
    BY MarkedType DEF TypeOK
  <2>2. \A m \in Message : istatus[b][m] \in {"absent", "proposed", "excluded", "stale"}
    BY <1>2, Allowed DEF RecordOf
  <2>3. \A m \in Message : istatus'[b][m] \in {"absent", "proposed", "excluded", "stale"}
    BY <2>1, <2>2 DEF Marked
  <2>4. CASE NothingSurvived(mem)
    <3>1. bstatus'[b] = "stale"
      BY <2>4 DEF TypeOK
    <3>2. \A m \in Message : istatus'[b][m] # "proposed"
      BY <2>1, <2>4 DEF NothingSurvived, LiveItem
    <3>. QED
      BY <1>2, <2>3, <3>1, <3>2, Allowed, DecidedKeeps
  <2>5. CASE ~NothingSurvived(mem)
    <3>1. bstatus'[b] = "proposed"
      BY <2>5 DEF TypeOK
    <3>. QED
      BY <1>2, <2>3, <3>1, Allowed, DecidedKeeps
  <2>. QED
    BY <2>4, <2>5
<1>. QED
  BY <1>1, <1>2

LEMMA RefreshKeepsRecord ==
  ASSUME TypeOK, NEW b \in Bundle, NEW c \in Bundle, RecordOf(c),
         bstatus[b] = "proposed", Refresh(b), UNCHANGED <<effects, run>>
  PROVE  RecordOf(c)'
<1>1. bstatus' = [bstatus EXCEPT ![b] =
        IF NothingSurvived(Marked(istatus[b], FreshItems(b))) THEN "stale" ELSE @]
  BY DEF Refresh, Refreshed, TypeOK
<1>. QED
  BY <1>1, MarkingKeepsRecord DEF Refresh, Refreshed

LEMMA SettleKeepsRecord ==
  ASSUME TypeOK, NEW b \in Bundle, NEW c \in Bundle, RecordOf(c),
         NEW status \in {"withdrawn", "rejected"},
         bstatus[b] = "proposed", Settle(b, status), UNCHANGED <<effects, run>>
  PROVE  RecordOf(c)'
<1>1. CASE c # b
  <2>1. bstatus'[c] = bstatus[c] /\ istatus'[c] = istatus[c]
    BY <1>1 DEF TypeOK, Settle
  <2>. QED
    BY <2>1, UntouchedKeeps
<1>2. CASE c = b
  <2>1. \A m \in Message : istatus[b][m] \in {"absent", "proposed", "excluded", "stale"}
    BY <1>2, Allowed DEF RecordOf
  <2>2. /\ bstatus'[b] = status
        /\ \A m \in Message : istatus'[b][m] \in {"absent", "excluded", "stale", status}
    BY <2>1 DEF TypeOK, Settle
  <2>. QED
    BY <1>2, <2>2, Allowed, DecidedKeeps
<1>. QED
  BY <1>1, <1>2

\* One item of the run's bundle is concluded: its row, the memory and what is
\* left to do move together, and effects grow by it when it was applied.
LEMMA ConcludeKeepsRecord ==
  ASSUME ConsentInv, NEW c \in Bundle, RecordOf(c),
         NEW m \in run.todo, NEW status \in {"stale", "applied"},
         Conclude(m, status), UNCHANGED bstatus,
         effects' = effects \cup (IF status = "applied" THEN {<<run.bundle, m>>} ELSE {})
  PROVE  RecordOf(c)'
<1> DEFINE b == run.bundle
<1>0. /\ run \in [bundle : Bundle, todo : SUBSET Message,
                  mem : [Message -> ItemStatus], fresh : SUBSET Message]
      /\ m \in Message
      /\ TypeOK
  BY RunType DEF ConsentInv
<1>1. /\ run'.bundle = b
      /\ run'.todo = run.todo \ {m}
      /\ run'.mem = [run.mem EXCEPT ![m] = status]
      /\ istatus' = [istatus EXCEPT ![b][m] = status]
  BY <1>0 DEF Conclude
<1>2. CASE c # b
  <2>1. istatus'[c] = istatus[c]
    BY <1>0, <1>1, <1>2 DEF TypeOK
  <2>. QED
    BY <1>0, <1>1, <1>2, <2>1, UntouchedKeeps
<1>3. CASE c = b
  <2>1. /\ bstatus[c] = "accepted"
        /\ \A n \in Message :
             /\ n \in run.todo <=> run.mem[n] = "accepted"
             /\ \/ run.mem[n] = istatus[c][n]
                \/ run.mem[n] = "accepted" /\ istatus[c][n] = "stale"
    BY <1>3 DEF RecordOf, RunHasTheRecord
  <2>2. <<c, m>> \notin effects
    BY <1>0, <1>3 DEF ConsentInv, PendingIsGranted
  <2>3. /\ istatus'[c][m] = status
        /\ \A n \in Message \ {m} : istatus'[c][n] = istatus[c][n]
    BY <1>0, <1>1, <1>3 DEF TypeOK
  <2>4. /\ run'.mem[m] = status
        /\ \A n \in Message \ {m} : run'.mem[n] = run.mem[n]
    BY <1>0, <1>1
  <2>5. \A n \in Message : istatus'[c][n] \in AllowedItems[bstatus'[c]]
    BY <2>1, <2>3, Allowed DEF RecordOf
  <2>6. \A n \in Message : istatus'[c][n] = "applied" <=> <<c, n>> \in effects'
    BY <1>3, <2>2, <2>3 DEF RecordOf
  <2>7. RunHasTheRecord(c)'
    BY <1>1, <2>1, <2>3, <2>4 DEF RunHasTheRecord
  <2>. QED
    BY <2>5, <2>6, <2>7 DEF RecordOf
<1>. QED
  BY <1>2, <1>3

LEMMA RecordStep ==
  ASSUME RecordInv, [Next]_vars, NEW c \in Bundle \ overtaken'
  PROVE  RecordOf(c)'
<1>0. ConsentInv /\ TypeOK
  BY DEF RecordInv, ConsentInv
<1> USE DEF ghosts, items
<1>a. c \in Bundle /\ c \notin overtaken
  <2>1. \A b \in Bundle : Agent(b) => overtaken' = overtaken
    BY DEF Agent, Propose, Grow, Withdraw
  <2>2. \A t \in Tab : Reviewer(t) => overtaken' = overtaken
    BY DEF Reviewer, OpenPage, Exclude, Accept, Reject
  <2>3. Tick => overtaken \subseteq overtaken'
    BY DEF Tick, Expire, SweepNothing, SweepFirst, SweepNext
  <2>4. Runner => overtaken' = overtaken
    BY DEF Runner, ApplyNothing, ApplyStart, ApplyRefused, ApplyDone,
           ApplyUnhealthy, ApplyFinish
  <2>5. World => overtaken' = overtaken
    BY DEF World, CacheChanges, IdentityBreaks, FallDue, HealthChanges, ServiceStops
  <2> QED
    BY <2>1, <2>2, <2>3, <2>4, <2>5 DEF Next, vars
<1>b. RecordOf(c)
  BY <1>a DEF RecordInv
<1>1. ASSUME NEW b \in Bundle, NEW S \in SUBSET Message, Propose(b, S)
      PROVE  RecordOf(c)'
  <2>1. CASE c # b
    <3>1. bstatus'[c] = bstatus[c] /\ istatus'[c] = istatus[c]
      BY <1>0, <1>1, <2>1 DEF Propose, TypeOK
    <3>. QED
      BY <1>1, <1>a, <1>b, <3>1, UntouchedKeeps DEF Propose
  <2>2. CASE c = b
    <3>1. /\ bstatus[c] = "unused" /\ bstatus'[c] = "proposed"
          /\ UNCHANGED <<run, effects>>
      BY <1>0, <1>1, <2>2 DEF Propose, TypeOK
    <3>2. \A m \in Message : istatus[c][m] = "absent"
      BY <1>a, <1>b, <3>1, Allowed DEF RecordOf
    <3>3. \A m \in Message : istatus'[c][m] \in {"absent", "proposed"}
      BY <1>0, <1>1, <2>2, <3>2 DEF Propose, TypeOK
    <3>4. \A m \in Message : <<c, m>> \notin effects
      BY <1>b, <3>2 DEF RecordOf
    <3>5. run.bundle # c
      BY <1>a, <1>b, <3>1, NoRunOf
    <3>. QED
      BY <3>1, <3>3, <3>4, <3>5, Allowed DEF RecordOf, RunHasTheRecord
  <2>. QED
    BY <2>1, <2>2
<1>2. ASSUME NEW b \in Bundle, NEW S \in SUBSET Message, Grow(b, S)
      PROVE  RecordOf(c)'
  <2>0. bstatus' = bstatus /\ bstatus[b] = "proposed" /\ UNCHANGED <<run, effects>>
    BY <1>2 DEF Grow
  <2>1. CASE c # b
    <3>1. istatus'[c] = istatus[c]
      BY <1>0, <1>2, <2>1 DEF Grow, TypeOK
    <3>. QED
      BY <1>a, <1>b, <2>0, <3>1, UntouchedKeeps
  <2>2. CASE c = b
    <3>1. \A m \in Message : istatus[c][m] \in {"absent", "proposed", "excluded", "stale"}
      BY <1>b, <2>0, <2>2, Allowed DEF RecordOf
    <3>2. \A m \in Message : istatus'[c][m] \in {"proposed", Refreshed(c)[m]}
      BY <1>0, <1>2, <2>2 DEF Grow, TypeOK
    <3>3. \A m \in Message : Refreshed(c)[m] \in {istatus[c][m], "stale"}
      BY DEF Refreshed, Marked
    <3>. QED
      BY <1>a, <1>b, <2>0, <2>2, <3>1, <3>2, <3>3, Allowed, DecidedKeeps
  <2>. QED
    BY <2>1, <2>2
<1>3. ASSUME NEW b \in Bundle, Withdraw(b)
      PROVE  RecordOf(c)'
  BY <1>0, <1>3, <1>a, <1>b, SettleKeepsRecord DEF Withdraw
<1>4. ASSUME NEW t \in Tab, NEW b \in Bundle, OpenPage(t, b)
      PROVE  RecordOf(c)'
  BY <1>0, <1>4, <1>a, <1>b, RefreshKeepsRecord DEF OpenPage
<1>5. ASSUME NEW t \in Tab, NEW m \in Message, Exclude(t, m)
      PROVE  RecordOf(c)'
  <2> DEFINE b == page[t].bundle
  <2>1. /\ b \in Bundle
        /\ istatus[b][m] = "proposed"
        /\ istatus' = [istatus EXCEPT ![b][m] = "excluded"]
        /\ UNCHANGED <<bstatus, run, effects>>
    BY <1>0, <1>5 DEF Exclude, TypeOK
  <2> HIDE DEF b
  <2>2. CASE c # b
    <3>1. istatus'[c] = istatus[c]
      BY <1>0, <2>1, <2>2 DEF TypeOK
    <3>. QED
      BY <1>a, <1>b, <2>1, <3>1, UntouchedKeeps
  <2>3. CASE c = b
    <3>1. bstatus[c] = "proposed"
      BY <1>0, <1>b, <2>1, <2>3, LiveItemsAllowed DEF RecordOf, LiveItem, TypeOK
    <3>2. \A n \in Message : istatus'[c][n] \in {istatus[c][n], "excluded"}
      BY <1>0, <2>1, <2>3 DEF TypeOK
    <3>3. \A n \in Message : istatus[c][n] \in {"absent", "proposed", "excluded", "stale"}
      BY <1>b, <3>1, Allowed DEF RecordOf
    <3>. QED
      BY <1>a, <1>b, <2>1, <3>1, <3>2, <3>3, Allowed, DecidedKeeps
  <2>. QED
    BY <2>2, <2>3
<1>6. ASSUME NEW t \in Tab, Accept(t)
      PROVE  RecordOf(c)'
  <2> DEFINE b == page[t].bundle
             taken == {m \in Message : Refreshed(b)[m] = "proposed"}
  <2>1. /\ b \in Bundle
        /\ bstatus[b] = "proposed"
        /\ UNCHANGED <<run, effects>>
    BY <1>0, <1>6 DEF Accept, TypeOK
  <2>2. CASE ~Acceptable(Refreshed(b), page[t].ack)
    <3>1. Refresh(b)
      BY <1>6, <2>2 DEF Accept
    <3>. QED
      BY <1>0, <1>a, <1>b, <2>1, <3>1, RefreshKeepsRecord
  <2>3. CASE Acceptable(Refreshed(b), page[t].ack)
    <3>1. /\ bstatus' = [bstatus EXCEPT ![b] = "accepted"]
          /\ istatus' = [istatus EXCEPT ![b] = [m \in Message |->
               IF m \in taken THEN "accepted" ELSE Refreshed(b)[m]]]
      BY <1>6, <2>3 DEF Accept
    <3>2. \A m \in Message : m \in taken <=> Refreshed(b)[m] = "proposed"
      OBVIOUS
    <3> HIDE DEF b, taken
    <3>3. CASE c # b
      <4>1. bstatus'[c] = bstatus[c] /\ istatus'[c] = istatus[c]
        BY <1>0, <3>1, <3>3 DEF TypeOK
      <4>. QED
        BY <1>a, <1>b, <2>1, <4>1, UntouchedKeeps
    <3>4. CASE c = b
      <4>1. bstatus'[c] = "accepted"
        BY <1>0, <2>1, <3>1, <3>4 DEF TypeOK
      <4>2. \A m \in Message :
              istatus'[c][m] = IF m \in taken THEN "accepted" ELSE Refreshed(b)[m]
        BY <1>0, <2>1, <3>1, <3>4 DEF TypeOK
      <4>3. \A m \in Message : istatus[c][m] \in {"absent", "proposed", "excluded", "stale"}
        BY <1>b, <2>1, <3>4, Allowed DEF RecordOf
      <4>4. \A m \in Message : Refreshed(b)[m] \in {istatus[c][m], "stale"}
        BY <3>4 DEF Refreshed, Marked
      <4>5. \A m \in Message : istatus'[c][m] \in {"absent", "accepted", "excluded", "stale"}
        BY <3>2, <4>2, <4>3, <4>4
      <4>. QED
        BY <1>a, <1>b, <2>1, <3>4, <4>1, <4>5, Allowed, DecidedKeeps
    <3>. QED
      BY <3>3, <3>4
  <2>. QED
    BY <2>2, <2>3
<1>7. ASSUME NEW t \in Tab, Reject(t)
      PROVE  RecordOf(c)'
  <2>1. page[t].bundle \in Bundle
    BY <1>0, <1>7 DEF Reject, TypeOK
  <2>. QED
    BY <1>0, <1>7, <1>a, <1>b, <2>1, SettleKeepsRecord DEF Reject
<1>8. CASE Expire
  <2>0. UNCHANGED <<run, effects>>
    BY <1>8 DEF Expire
  <2>1. CASE c \in due /\ bstatus[c] = "proposed"
    <3>1. /\ bstatus'[c] = "expired"
          /\ \A m \in Message : istatus'[c][m] =
               IF istatus[c][m] = "proposed" THEN "expired" ELSE istatus[c][m]
      BY <1>8, <1>a, <2>1 DEF Expire
    <3>2. \A m \in Message : istatus[c][m] \in {"absent", "proposed", "excluded", "stale"}
      BY <1>b, <2>1, Allowed DEF RecordOf
    <3>. QED
      BY <1>a, <1>b, <2>0, <2>1, <3>1, <3>2, Allowed, DecidedKeeps
  <2>2. CASE ~(c \in due /\ bstatus[c] = "proposed")
    <3>1. bstatus'[c] = bstatus[c] /\ \A m \in Message : istatus'[c][m] = istatus[c][m]
      BY <1>8, <1>a, <2>2 DEF Expire
    <3>. QED
      BY <1>b, <2>0, <3>1 DEF RecordOf, RunHasTheRecord
  <2>. QED
    BY <2>1, <2>2
<1>9. CASE SweepNothing
  BY <1>9, <1>a, <1>b, UntouchedKeeps DEF SweepNothing
<1>10. ASSUME NEW b \in Bundle, SweepFirst(b)
       PROVE  RecordOf(c)'
  BY <1>0, <1>10, <1>a, <1>b, RefreshKeepsRecord DEF SweepFirst
<1>11. ASSUME NEW b \in Bundle, SweepNext(b)
       PROVE  RecordOf(c)'
  <2>1. CASE c # b
    <3>1. bstatus'[c] = bstatus[c] /\ istatus'[c] = istatus[c]
      BY <1>0, <1>11, <2>1 DEF SweepNext, TypeOK
    <3>. QED
      BY <1>11, <1>a, <1>b, <3>1, UntouchedKeeps DEF SweepNext
  <2>2. CASE c = b
    <3>1. bstatus[b] = "proposed" /\ istatus[b] = sweep.seen[b]
      BY <1>11, <2>2 DEF SweepNext
    <3> DEFINE mem == Marked(istatus[b], sweep.fresh[b])
    <3>2. mem \in [Message -> ItemStatus]
      BY <1>0, MarkedType DEF TypeOK
    <3>3. [m \in Message |-> IF mem[m] # istatus[b][m] THEN mem[m]
                             ELSE istatus[b][m]] = mem
      BY <3>2
    <3>4. /\ bstatus' = [bstatus EXCEPT ![b] =
               IF NothingSurvived(mem) THEN "stale" ELSE @]
          /\ istatus' = [istatus EXCEPT ![b] = mem]
          /\ UNCHANGED <<run, effects>>
      BY <1>0, <1>11, <3>1, <3>3 DEF SweepNext, TypeOK
    <3>. QED
      BY <1>0, <1>a, <1>b, <3>1, <3>4, MarkingKeepsRecord
  <2>. QED
    BY <2>1, <2>2
<1>12. ASSUME NEW b \in Bundle, ApplyNothing(b)
       PROVE  RecordOf(c)'
  <2>1. CASE c # b
    <3>1. bstatus'[c] = bstatus[c]
      BY <1>0, <1>12, <2>1 DEF ApplyNothing, TypeOK
    <3>. QED
      BY <1>12, <1>a, <1>b, <3>1, UntouchedKeeps DEF ApplyNothing
  <2>2. CASE c = b
    <3>1. /\ run.bundle # c
          /\ bstatus[c] = "accepted"
          /\ \A m \in Message : istatus[c][m] # "accepted"
          /\ UNCHANGED <<istatus, run, effects>>
          /\ bstatus'[c] = IF \E m \in Message : istatus[c][m] = "applied"
                           THEN Outcome(istatus[c]) ELSE "stale"
      BY <1>0, <1>12, <1>a, <2>2, ConstantsOK DEF ApplyNothing, NoRun, TypeOK
    <3>2. \A m \in Message : istatus[c][m] \in {"absent", "excluded", "stale", "applied"}
      BY <1>b, <3>1, Allowed DEF RecordOf
    <3>3. \A m \in Message : istatus[c][m] \in AllowedItems[bstatus'[c]]
      BY <3>1, <3>2, Allowed DEF Outcome
    <3>. QED
      BY <1>b, <3>1, <3>3 DEF RecordOf, RunHasTheRecord
  <2>. QED
    BY <2>1, <2>2
<1>13. ASSUME NEW b \in Bundle, ApplyStart(b)
       PROVE  RecordOf(c)'
  <2>1. /\ bstatus[b] = "accepted"
        /\ run'.bundle = b /\ run'.mem = istatus[b]
        /\ run'.todo = {m \in Message : istatus[b][m] = "accepted"}
        /\ UNCHANGED <<bstatus, istatus, effects>>
    BY <1>13 DEF ApplyStart
  <2>. QED
    BY <1>b, <2>1 DEF RecordOf, RunHasTheRecord
<1>14. ASSUME NEW m \in Message, ApplyRefused(m)
       PROVE  RecordOf(c)'
  <2>1. /\ m \in run.todo /\ Conclude(m, "stale")
        /\ UNCHANGED <<bstatus, effects>>
    BY <1>14 DEF ApplyRefused
  <2>. QED
    BY <1>0, <1>a, <1>b, <2>1, ConcludeKeepsRecord
<1>15. ASSUME NEW m \in Message, ApplyDone(m)
       PROVE  RecordOf(c)'
  <2>1. /\ m \in run.todo /\ Conclude(m, "applied")
        /\ effects' = effects \cup {<<run.bundle, m>>}
        /\ UNCHANGED bstatus
    BY <1>15 DEF ApplyDone
  <2>. QED
    BY <1>0, <1>a, <1>b, <2>1, ConcludeKeepsRecord
<1>16. CASE ApplyUnhealthy
  BY <1>16, <1>a, <1>b, ConstantsOK, UntouchedKeeps DEF ApplyUnhealthy, NoRun
<1>17. CASE ApplyFinish
  <2>0. /\ run.todo = {}
        /\ run' = NoRun
        /\ bstatus' = [bstatus EXCEPT ![run.bundle] = Outcome(run.mem)]
        /\ UNCHANGED <<istatus, effects>>
    BY <1>17 DEF ApplyFinish
  <2>a. run'.bundle # c
    BY <1>a, <2>0, ConstantsOK DEF NoRun
  <2>1. CASE c # run.bundle
    <3>1. bstatus'[c] = bstatus[c]
      BY <1>0, <2>0, <2>1 DEF TypeOK
    <3>. QED
      BY <1>a, <1>b, <2>0, <2>a, <3>1, UntouchedKeeps
  <2>2. CASE c = run.bundle
    <3>1. /\ bstatus[c] = "accepted"
          /\ \A m \in Message : run.mem[m] = istatus[c][m] /\ run.mem[m] # "accepted"
      BY <1>b, <2>0, <2>2 DEF RecordOf, RunHasTheRecord
    <3>2. \A m \in Message : run.mem[m] \in {"absent", "excluded", "stale", "applied"}
      BY <1>b, <3>1, Allowed DEF RecordOf
    <3>3. bstatus'[c] = Outcome(run.mem)
      BY <1>0, <1>a, <2>0, <2>2 DEF TypeOK
    <3>4. \A m \in Message : istatus'[c][m] \in AllowedItems[bstatus'[c]]
      BY <2>0, <3>1, <3>2, <3>3, Allowed DEF Outcome
    <3>. QED
      BY <1>b, <2>0, <2>a, <3>4 DEF RecordOf, RunHasTheRecord
  <2>. QED
    BY <2>1, <2>2
<1>18. ASSUME NEW m \in Message, CacheChanges(m)
       PROVE  RecordOf(c)'
  BY <1>18, <1>a, <1>b, UntouchedKeeps DEF CacheChanges
<1>19. ASSUME NEW f \in Folder, IdentityBreaks(f)
       PROVE  RecordOf(c)'
  <2>1. /\ UNCHANGED <<bstatus, run, effects>>
        /\ \A m \in Message :
             \/ istatus'[c][m] = istatus[c][m]
             \/ istatus[c][m] \in LiveItem /\ istatus'[c][m] = "stale"
    BY <1>19, <1>a DEF IdentityBreaks
  <2>2. \A m \in Message : istatus'[c][m] \in AllowedItems[bstatus[c]]
    <3>1. bstatus[c] \in BundleStatus
      BY <1>0, <1>a DEF TypeOK
    <3>. QED
      BY <1>b, <2>1, <3>1, LiveItemsAllowed DEF RecordOf
  <2>3. \A m \in Message : istatus'[c][m] = "applied" <=> istatus[c][m] = "applied"
    BY <2>1 DEF LiveItem
  <2>4. RunHasTheRecord(c)'
    <3>1. SUFFICES ASSUME run.bundle = c, NEW m \in Message
                   PROVE  /\ bstatus[c] = "accepted"
                          /\ m \in run.todo <=> run.mem[m] = "accepted"
                          /\ \/ run.mem[m] = istatus'[c][m]
                             \/ run.mem[m] = "accepted" /\ istatus'[c][m] = "stale"
      BY <1>b, <2>1 DEF RecordOf, RunHasTheRecord
    <3>2. /\ bstatus[c] = "accepted"
          /\ m \in run.todo <=> run.mem[m] = "accepted"
          /\ \/ run.mem[m] = istatus[c][m]
             \/ run.mem[m] = "accepted" /\ istatus[c][m] = "stale"
      BY <1>b, <3>1 DEF RecordOf, RunHasTheRecord
    <3>3. istatus[c][m] # "proposed"
      BY <1>b, <3>2, Allowed DEF RecordOf
    <3>. QED
      BY <2>1, <3>2, <3>3 DEF LiveItem
  <2>. QED
    BY <1>b, <2>1, <2>2, <2>3, <2>4 DEF RecordOf
<1>20. ASSUME NEW b \in Bundle, FallDue(b)
       PROVE  RecordOf(c)'
  BY <1>20, <1>a, <1>b, UntouchedKeeps DEF FallDue
<1>21. CASE HealthChanges
  BY <1>21, <1>a, <1>b, UntouchedKeeps DEF HealthChanges
<1>22. CASE ServiceStops
  BY <1>22, <1>a, <1>b, ConstantsOK, UntouchedKeeps DEF ServiceStops, NoRun
<1>23. CASE UNCHANGED vars
  BY <1>23, <1>a, <1>b, UntouchedKeeps DEF vars
<1>. QED
  BY <1>1, <1>2, <1>3, <1>4, <1>5, <1>6, <1>7, <1>8, <1>9, <1>10, <1>11, <1>12,
     <1>13, <1>14, <1>15, <1>16, <1>17, <1>18, <1>19, <1>20, <1>21, <1>22, <1>23
     DEF Next, Agent, Reviewer, Tick, Runner, World

\* The record is kept: it holds throughout, of every bundle the sweep of the
\* review queue (suggest/staleness.py sweep_queue) has not overtaken.
THEOREM RecordInvariant == Spec => []RecordInv
<1>1. Init => RecordInv
  <2>1. SUFFICES ASSUME Init PROVE RecordInv
    OBVIOUS
  <2>2. ConsentInv
    BY <2>1, ConsentInit
  <2>3. ASSUME NEW b \in Bundle
        PROVE  RecordOf(b)
    <3>1. /\ bstatus[b] = "unused" /\ effects = {} /\ run.bundle # b
          /\ \A m \in Message : istatus[b][m] = "absent"
      BY <2>1, <2>3, ConstantsOK DEF Init, NoRun
    <3>. QED
      BY <3>1, Allowed DEF RecordOf, RunHasTheRecord
  <2>. QED
    BY <2>2, <2>3 DEF RecordInv
<1>2. RecordInv /\ [Next]_vars => RecordInv'
  <2>1. SUFFICES ASSUME RecordInv, [Next]_vars PROVE RecordInv'
    OBVIOUS
  <2>2. ConsentInv'
    BY <2>1, ConsentStep DEF RecordInv
  <2>3. \A b \in Bundle \ overtaken' : RecordOf(b)'
    BY <2>1, RecordStep
  <2>. QED
    BY <2>2, <2>3 DEF RecordInv
<1>. QED
  BY <1>1, <1>2, PTL DEF Spec

\* Closing a bundle settles every item in it (suggest/model.py _settle,
\* expire_due; imap/apply.py _rollup): a bundle that has ended, unless the
\* sweep overtook it, holds no item still waiting for anything.
THEOREM BundlesSettleTheirItems == Spec => []ItemsMatchBundle
<1>1. RecordInv => ItemsMatchBundle
  BY DEF RecordInv, RecordOf, ItemsMatchBundle
<1>. QED
  BY <1>1, RecordInvariant, PTL

\* What the rows call applied is what a change was made for (imap/apply.py
\* _apply_one), through runs that stop half way, folders that are recreated
\* under them and pages that stay open.
THEOREM RecordIsTrue == Spec => []RecordMatchesEffects
<1>1. RecordInv => RecordMatchesEffects
  BY DEF RecordInv, RecordOf, RecordMatchesEffects
<1>. QED
  BY <1>1, RecordInvariant, PTL

\* Of a bundle that has ended nothing is left to refresh, settle or roll up.
LEMMA EndedStays ==
  ASSUME RecordInv, [Next]_vars, NEW c \in Bundle \ overtaken',
         bstatus[c] \in Terminal
  PROVE  bstatus'[c] = bstatus[c]
<1>0. ConsentInv /\ TypeOK
  BY DEF RecordInv, ConsentInv
<1> USE DEF ghosts, items
<1>1. bstatus[c] \notin {"unused", "proposed", "accepted"}
  BY DEF Terminal
<1>2. \A b \in Bundle, S \in SUBSET Message :
        Propose(b, S) \/ Grow(b, S) => bstatus'[c] = bstatus[c]
  BY <1>0, <1>1 DEF Propose, Grow, TypeOK
<1>3. \A b \in Bundle : Withdraw(b) => bstatus'[c] = bstatus[c]
  BY <1>0, <1>1 DEF Withdraw, Settle, TypeOK
<1>4. \A t \in Tab, b \in Bundle : OpenPage(t, b) => bstatus'[c] = bstatus[c]
  BY <1>0, <1>1 DEF OpenPage, Refresh, TypeOK
<1>5. \A t \in Tab : Reject(t) \/ (\E m \in Message : Exclude(t, m))
                     => bstatus'[c] = bstatus[c]
  BY <1>0, <1>1 DEF Reject, Exclude, Settle, TypeOK
<1>6. ASSUME NEW t \in Tab, Accept(t)
      PROVE  bstatus'[c] = bstatus[c]
  <2>1. page[t].bundle # c
    BY <1>1, <1>6 DEF Accept
  <2>2. \/ Refresh(page[t].bundle)
        \/ bstatus' = [bstatus EXCEPT ![page[t].bundle] = "accepted"]
    BY <1>6 DEF Accept
  <2>. QED
    BY <1>0, <2>1, <2>2 DEF Refresh, TypeOK
<1>7. Expire \/ SweepNothing \/ (\E b \in Bundle : SweepFirst(b))
      => bstatus'[c] = bstatus[c]
  BY <1>0, <1>1 DEF Expire, SweepNothing, SweepFirst, Refresh, TypeOK
<1>8. ASSUME NEW b \in Bundle, SweepNext(b)
      PROVE  bstatus'[c] = bstatus[c]
  BY <1>0, <1>1, <1>8 DEF SweepNext, TypeOK
<1>9. \A b \in Bundle : ApplyNothing(b) \/ ApplyStart(b) => bstatus'[c] = bstatus[c]
  BY <1>0, <1>1 DEF ApplyNothing, ApplyStart, TypeOK
<1>10. (\E m \in Message : ApplyRefused(m) \/ ApplyDone(m)) \/ ApplyUnhealthy
       => bstatus'[c] = bstatus[c]
  BY DEF ApplyRefused, ApplyDone, ApplyUnhealthy
<1>11. CASE ApplyFinish
  <2>1. c \notin overtaken
    BY <1>11 DEF ApplyFinish
  <2>2. RecordOf(c)
    BY <2>1 DEF RecordInv
  <2>3. run.bundle # c
    BY <1>1, <2>2, NoRunOf
  <2>. QED
    BY <1>0, <1>11, <2>3 DEF ApplyFinish, TypeOK
<1>12. World \/ UNCHANGED vars => bstatus'[c] = bstatus[c]
  BY DEF World, CacheChanges, IdentityBreaks, FallDue, HealthChanges,
         ServiceStops, vars
<1>. QED
  BY <1>2, <1>3, <1>4, <1>5, <1>6, <1>7, <1>8, <1>9, <1>10, <1>11, <1>12
     DEF Next, Agent, Reviewer, Tick, Runner

\* Unless the sweep overtakes it, a decision or an outcome is never replaced
\* (suggest/model.py, whose every decision asks for a proposed bundle, and
\* imap/apply.py apply_bundle, which asks for an accepted one only once).
THEOREM DecisionsStand == Spec => EndsStand
<1>1. RecordInv /\ [Next]_vars =>
        [\A b \in Bundle \ overtaken' : bstatus[b] \in Terminal
           => bstatus'[b] = bstatus[b]]_vars
  BY EndedStays
<1>. QED
  BY <1>1, RecordInvariant, PTL DEF Spec, EndsStand

\* A bundle that went stale changed nothing in the mailbox, as db/models.py
\* says of BundleStatus.stale, unless it was the sweep that overtook it: the
\* sweep's outdated memory is the only way to the state that breaks it.
StaleUnlessOvertaken ==
  \A b \in Bundle \ overtaken, m \in Message :
    bstatus[b] = "stale" => <<b, m>> \notin effects

THEOREM StaleDidNothing == Spec => []StaleUnlessOvertaken
<1>1. RecordInv => StaleUnlessOvertaken
  BY Allowed DEF RecordInv, RecordOf, StaleUnlessOvertaken
<1>. QED
  BY <1>1, RecordInvariant, PTL

\* Once a bundle has ended, nothing more is done to the mailbox for it: no
\* run goes on with a bundle that was withdrawn, rejected, expired or closed
\* (imap/apply.py apply_bundle, db/models.py BundleStatus).
NothingAfterTheEnd ==
  [][\A b \in Bundle \ overtaken, m \in Message :
       bstatus[b] \in Terminal /\ <<b, m>> \in effects' => <<b, m>> \in effects]_vars

THEOREM EndedIsOver == Spec => NothingAfterTheEnd
<1>1. ASSUME RecordInv, [Next]_vars, NEW b \in Bundle \ overtaken, NEW m \in Message,
             bstatus[b] \in Terminal, <<b, m>> \in effects'
      PROVE  <<b, m>> \in effects
  <2>1. run.bundle # b
    BY <1>1, NoRunOf DEF RecordInv, Terminal
  <2>2. effects' = effects \/ \E n \in Message : effects' = effects \cup {<<run.bundle, n>>}
    BY <1>1 DEF Next, Agent, Reviewer, Tick, Runner, World, Propose, Grow, Withdraw,
       OpenPage, Exclude, Accept, Reject, Expire, SweepNothing, SweepFirst,
       SweepNext, ApplyNothing, ApplyStart, ApplyRefused, ApplyDone,
       ApplyUnhealthy, ApplyFinish, CacheChanges, IdentityBreaks, FallDue,
       HealthChanges, ServiceStops, vars
  <2>. QED
    BY <1>1, <2>1, <2>2
<1>2. RecordInv /\ [Next]_vars =>
        [\A b \in Bundle \ overtaken, m \in Message :
           bstatus[b] \in Terminal /\ <<b, m>> \in effects' => <<b, m>> \in effects]_vars
  BY <1>1
<1>. QED
  BY <1>2, RecordInvariant, PTL DEF Spec, NothingAfterTheEnd

-----------------------------------------------------------------------------
(* The refinement: Review implements Consent.                              *)

reading == [t \in Tab |-> {page[t].bundle} \X page[t].showed]

\* Drawing a page is a Read, of nothing when the bundle turns out dead.
LEMMA OpenPageReads ==
  ASSUME ConsentInv, NEW t \in Tab, NEW b \in Bundle, OpenPage(t, b)
  PROVE  \E S \in SUBSET Message : Promise!Read(t, b, S)
<1> DEFINE S == page'[t].showed
<1>1. /\ page'[t].bundle = b \/ S = {}
      /\ S \subseteq Message
      /\ \A u \in Tab \ {t} : page'[u] = page[u]
  BY DEF ConsentInv, TypeOK, OpenPage, NoPage
<1>2. reading' = [reading EXCEPT ![t] = {b} \X S]
  BY <1>1 DEF reading
<1>3. UNCHANGED <<granted, effects>>
  BY DEF OpenPage, ghosts
<1>. QED
  BY <1>1, <1>2, <1>3 DEF Promise!Read, Promise!ItemsOf, reading

\* Accepting takes only what the page was showing, and the bundle had not
\* been accepted before.
LEMMA AcceptGrants ==
  ASSUME ConsentInv, NEW t \in Tab, Accept(t), granted' # granted
  PROVE  \E b \in Bundle, S \in SUBSET Message : Promise!Grant(t, b, S)
<1> DEFINE b == page[t].bundle
           taken == {m \in Message : Refreshed(b)[m] = "proposed"}
<1>1. /\ b \in Bundle
      /\ bstatus[b] = "proposed"
      /\ IsThePageTheyRead(t, b)
      /\ Acceptable(Refreshed(b), page[t].ack)
      /\ granted' = granted \cup ({b} \X taken)
      /\ UNCHANGED <<page, effects>>
  BY DEF ConsentInv, TypeOK, Accept
<1>2. taken # {}
  BY <1>1 DEF Acceptable
<1>3. taken \subseteq page[t].showed
  <2>1. \A m \in taken : istatus[b][m] = "proposed"
    BY <1>1 DEF ConsentInv, TypeOK, Refreshed, Marked, LiveItem
  <2>2. \A m \in taken : batch[b][m] <= page[t].through
    BY <1>1, <2>1 DEF IsThePageTheyRead, Holds
  <2>. QED
    BY <1>1, <2>1, <2>2, ConstantsOK DEF ConsentInv, PagesShowAll
<1>4. granted \cap ({b} \X Message) = {}
  BY <1>1 DEF ConsentInv, GrantsAreDecided
<1>5. {b} \X taken \subseteq reading[t]
  BY <1>3 DEF reading
<1>6. UNCHANGED <<reading, effects>>
  BY <1>1 DEF reading
<1> HIDE DEF b, taken
<1>7. Promise!Grant(t, b, taken)
  BY <1>1, <1>2, <1>4, <1>5, <1>6 DEF Promise!Grant, Promise!ItemsOf, reading
<1>8. taken \in SUBSET Message
  BY DEF taken
<1>. QED
  BY <1>1, <1>7, <1>8

\* Applying an item performs what was granted and not yet performed.
LEMMA ApplyDonePerforms ==
  ASSUME ConsentInv, NEW m \in Message, ApplyDone(m)
  PROVE  \E x \in Promise!Item : Promise!Perform(x)
<1> DEFINE x == <<run.bundle, m>>
<1>1. m \in run.todo /\ effects' = effects \cup {x} /\ UNCHANGED <<page, granted>>
  BY DEF ApplyDone, ghosts
<1>2. run.bundle \in Bundle
  BY <1>1, RunType DEF ConsentInv
<1>3. x \in granted \ effects
  BY <1>1, <1>2 DEF ConsentInv, PendingIsGranted
<1>. QED
  BY <1>1, <1>2, <1>3 DEF Promise!Perform, Promise!Item, reading

LEMMA StepKeepsConsent ==
  ASSUME ConsentInv, [Next]_vars
  PROVE  [Promise!Next]_(Promise!vars)
<1> DEFINE Quiet == UNCHANGED <<page, granted, effects>>
<1>1. Quiet => UNCHANGED Promise!vars
  BY DEF Promise!vars
<1>2. ASSUME NEW t \in Tab, NEW b \in Bundle, OpenPage(t, b)
      PROVE  Promise!Next
  BY <1>2, OpenPageReads DEF Promise!Next
<1>3. ASSUME NEW t \in Tab, Accept(t)
      PROVE  Promise!Next \/ Quiet
  <2>1. CASE granted' # granted
    BY <1>3, <2>1, AcceptGrants DEF Promise!Next
  <2>2. CASE granted' = granted
    BY <1>3, <2>2 DEF Accept
  <2>. QED
    BY <2>1, <2>2
<1>4. ASSUME NEW m \in Message, ApplyDone(m)
      PROVE  Promise!Next
  BY <1>4, ApplyDonePerforms DEF Promise!Next
<1>5. \A b \in Bundle : Agent(b) => Quiet
  BY DEF Agent, Propose, Grow, Withdraw, ghosts
<1>6. \A t \in Tab : (\E m \in Message : Exclude(t, m)) \/ Reject(t) => Quiet
  BY DEF Exclude, Reject, ghosts
<1>7. Tick => Quiet
  BY DEF Tick, Expire, SweepNothing, SweepFirst, SweepNext, ghosts
<1>8. /\ \A b \in Bundle : ApplyNothing(b) \/ ApplyStart(b) => Quiet
      /\ \A m \in Message : ApplyRefused(m) => Quiet
      /\ ApplyUnhealthy \/ ApplyFinish => Quiet
  BY DEF ApplyNothing, ApplyStart, ApplyRefused, ApplyUnhealthy, ApplyFinish, ghosts
<1>9. World => Quiet
  BY DEF World, CacheChanges, IdentityBreaks, FallDue, HealthChanges,
         ServiceStops, ghosts
<1>10. UNCHANGED vars => Quiet
  BY DEF vars, ghosts
<1> HIDE DEF Quiet
<1>. QED
  BY <1>1, <1>2, <1>3, <1>4, <1>5, <1>6, <1>7, <1>8, <1>9, <1>10
     DEF Next, Reviewer, Runner

\* The service keeps its promise: every behaviour of Review is, seen through
\* what pages show, what was accepted and what was done, one of Consent.
THEOREM ConsentIsKept == Spec => KeepsConsent
<1>1. Init => Promise!Init
  BY DEF Init, NoPage, Promise!Init
<1>2. ConsentInv /\ [Next]_vars => [Promise!Next]_(Promise!vars)
  BY StepKeepsConsent
<1>. QED
  BY <1>1, <1>2, ConsentInvariant, PTL DEF Spec, KeepsConsent, Promise!Spec

=============================================================================
