--------------------------- MODULE FoldersProofs ---------------------------
(***************************************************************************)
(* What is proved of Folders.tla, for any names and however they lie under *)
(* each other: its type invariant, that a folder goes with mail in it or   *)
(* from above others only if these came after the server was asked, that   *)
(* the folder which goes is the one that was proposed as far as the rows   *)
(* tell that the run was loaded with, that a move finds the folder it was  *)
(* told of, and that a run nobody disturbs refuses nothing of a discard.   *)
(***************************************************************************)
EXTENDS Folders, TLAPS

-----------------------------------------------------------------------------
(* The invariant                                                           *)

\* A folder that a bundle is about has a row, and one it would discard was of
\* some generation then, which no row goes back behind.
ItemsHold ==
  \A b \in Bundle, n \in Name : bundles[b] # None /\ bundles[b].items[n] # "none" =>
    /\ rows[n] # None
    /\ b \in Discard => /\ bundles[b].premise[n] \in Generation
                        /\ bundles[b].premise[n] <= rows[n].generation

\* As long as the row is of that generation, it tells of the folder it told of
\* then, or told of none.
PremisesHold ==
  \A b \in Discard, n \in Name :
    /\ bundles[b] # None
    /\ bundles[b].items[n] # "none"
    /\ bundles[b].premise[n] = rows[n].generation
    => bundles[b].saw[n] \in {None, rows[n].life}

\* The item under way is one of the bundle's and was on the run's list, and of a
\* discard it has been seen that the row the run has of it is of the generation
\* that was agreed to, and says that there is a folder to remove.
ItemHolds ==
  run # None =>
    /\ bundles[run.bundle] # None
    /\ run.step \in {"made", "check", "under", "delete", "deleted"} =>
         run.name \in Name /\ bundles[run.bundle].items[run.name] # "none"
    /\ run.step \in {"check", "under", "delete", "deleted"} => run.memory[run.name] # None
    /\ run.step \in {"under", "delete", "deleted"} =>
         run.bundle \in Discard /\ run.memory[run.name].exists
    /\ run.step \in {"check", "under", "delete"} /\ run.bundle \in Discard =>
         bundles[run.bundle].premise[run.name] = run.memory[run.name].generation

\* The rows a run has are of its bundle's items; and one of the generation that
\* was agreed to tells of the folder that was proposed, or that was told of none.
\* This stays so whatever becomes of the row in the cache.
MemoryHolds ==
  run # None => \A n \in Name : run.memory[n] # None =>
    /\ bundles[run.bundle].items[n] # "none"
    /\ run.bundle \in Discard /\ bundles[run.bundle].premise[n] = run.memory[n].generation =>
         bundles[run.bundle].saw[n] \in {None, run.memory[n].life}

\* What the server said of the folder holds until something comes.
LookHolds ==
  run # None =>
    /\ run.step \in {"under", "delete"} /\ "mail" \notin run.since =>
         server[run.name] # "holds"
    /\ run.step = "delete" /\ "folder" \notin run.since =>
         \A m \in Under[run.name] : server[m] = "gone"

\* A folder that is there has come to be.
LivesHold == \A n \in Name : server[n] # "gone" => lives[n] # 0

FoldersInv ==
  /\ TypeOK
  /\ LivesHold
  /\ ItemsHold
  /\ PremisesHold
  /\ ItemHolds
  /\ MemoryHolds
  /\ LookHolds

Accounted(n) == server[n] # "gone" \/ n \in vanished

\* A row that says its folder is there is right, or has not been told.
RowsTell ==
  \A n \in Name : rows[n] # None /\ rows[n].exists => Accounted(n)

\* A bundle that moves mail moves it to one folder, and once its run is past the
\* making of it, that folder is there, or has gone without a row's being told.
MovesHold ==
  /\ \A b \in Move, n, m \in Name :
       /\ bundles[b] # None
       /\ bundles[b].items[n] # "none"
       /\ bundles[b].items[m] # "none"
       => n = m
  /\ run # None /\ run.step \in {"make", "made"} => run.bundle \in Move
  /\ run # None /\ run.bundle \in Move =>
       /\ bundles[run.bundle].status = "accepted"
       /\ run.step = "made" => Accounted(run.name)
       /\ run.step \in {"between", "check"} =>
            \A n \in Name : bundles[run.bundle].items[n] = "accepted" => Accounted(n)

MovesInv == FoldersInv /\ RowsTell /\ MovesHold

-----------------------------------------------------------------------------
(* Types                                                                   *)

LEMMA NewRowType ==
  ASSUME NEW exists \in BOOLEAN
  PROVE  NewRow(exists) \in Row
BY FoldersOK DEF NewRow, Row, Generation

LEMMA OthersType == TypeOK /\ Others => TypeOK'
<1> SUFFICES ASSUME TypeOK, Others PROVE TypeOK'
  OBVIOUS
<1> USE DEF TypeOK
<1>1. ASSUME NEW what \in SUBSET {"mail", "folder"}, NEW steps, Meanwhile(what, steps)
      PROVE  /\ others' \in 0..MaxOthers
             /\ run' \in RunRow \cup {None}
             /\ rows' \in [Name -> Row \cup {None}]
  <2>1. others' \in 0..MaxOthers
    BY <1>1, FoldersOK DEF Meanwhile
  <2>2. run' \in RunRow \cup {None}
    <3>1. CASE run = None
      BY <1>1, <3>1 DEF Meanwhile
    <3>2. CASE run # None
      <4>1. run \in RunRow
        BY <3>2
      <4>2. run' = [run EXCEPT !.clean = FALSE,
                      !.since = IF run.step \in steps THEN @ \cup what ELSE @]
        BY <1>1, <3>2 DEF Meanwhile
      <4> QED
        BY <4>1, <4>2 DEF RunRow
    <3> QED
      BY <3>1, <3>2
  <2> QED
    BY <1>1, <2>1, <2>2 DEF Meanwhile
<1>2. ASSUME NEW n \in Name, MakeFolder(n) PROVE TypeOK'
  <2>1. Meanwhile({"folder"}, {"delete"}) /\ UNCHANGED bundles
    BY <1>2 DEF MakeFolder
  <2>2. /\ server' \in [Name -> {"gone", "empty", "holds"}]
        /\ lives' \in [Name -> 0..MaxLives]
        /\ vanished' \subseteq Name
    BY <1>2, FoldersOK DEF MakeFolder, Comes, Becoming
  <2> QED
    BY <1>1, <2>1, <2>2
<1>3. ASSUME NEW n \in Name, DropFolder(n) PROVE TypeOK'
  <2>1. Meanwhile({}, {}) /\ UNCHANGED <<lives, bundles>>
    BY <1>3 DEF DropFolder
  <2>2. server' \in [Name -> {"gone", "empty", "holds"}] /\ vanished' \subseteq Name
    BY <1>3 DEF DropFolder, Goes, Becoming
  <2> QED
    BY <1>1, <2>1, <2>2
<1>4. ASSUME NEW n \in Name, Arrive(n) \/ TakeOut(n) PROVE TypeOK'
  <2>1. /\ Meanwhile({"mail"}, {"under", "delete"}) \/ Meanwhile({}, {})
        /\ UNCHANGED <<lives, bundles, vanished>>
    BY <1>4 DEF Arrive, TakeOut
  <2>2. server' \in [Name -> {"gone", "empty", "holds"}]
    BY <1>4 DEF Arrive, TakeOut, Becoming
  <2> QED
    BY <1>1, <2>1, <2>2
<1>5. ASSUME NEW b \in Move, Depart(b) PROVE TypeOK'
  <2>1. Meanwhile({}, {}) /\ UNCHANGED <<server, lives, vanished>>
    BY <1>5 DEF Depart
  <2>2. bundles[b] \in BundleRow
    BY <1>5 DEF Depart, Bundle
  <2>3. bundles' = [bundles EXCEPT ![b] = [bundles[b] EXCEPT !.alive = FALSE]]
    BY <1>5 DEF Depart
  <2>4. [bundles[b] EXCEPT !.alive = FALSE] \in BundleRow
    BY <2>2 DEF BundleRow
  <2> QED
    BY <1>1, <2>1, <2>3, <2>4
<1> QED
  BY <1>2, <1>3, <1>4, <1>5 DEF Others

LEMMA SyncsType == TypeOK /\ LivesHold /\ Syncs => TypeOK'
<1> SUFFICES ASSUME TypeOK, LivesHold, Syncs PROVE TypeOK'
  OBVIOUS
<1> USE DEF TypeOK
<1>1. CASE Discover
  <2>1. \A n \in Name : rows[n] # None =>
          [rows[n] EXCEPT !.exists = TRUE, !.discarded = FALSE] \in Row
    BY DEF Row
  <2>2. rows' \in [Name -> Row \cup {None}]
    BY <1>1, <2>1, NewRowType DEF Discover, Known
  <2> QED
    BY <1>1, <2>2 DEF Discover
<1>2. ASSUME NEW n \in Name, SyncFolder(n) PROVE TypeOK'
  <2> DEFINE row == [rows[n] EXCEPT !.held = (server[n] = "holds"), !.life = lives[n],
                       !.generation = IF Broken(n) THEN @ + 1 ELSE @]
  <2>1. rows[n] \in Row /\ lives[n] \in Life
    BY <1>2, FoldersOK DEF SyncFolder, Known, There, LivesHold, Life
  <2>2. (IF Broken(n) THEN rows[n].generation + 1 ELSE rows[n].generation) \in Generation
    BY <1>2, <2>1, FoldersOK DEF SyncFolder, Row, Generation
  <2>3. row \in Row
    BY <2>1, <2>2 DEF Row
  <2>4. rows' = [rows EXCEPT ![n] = row]
    BY <1>2 DEF SyncFolder
  <2>5. rows' \in [Name -> Row \cup {None}]
    BY <2>3, <2>4
  <2>6. Killed(n) \in [Bundle -> BundleRow \cup {None}]
    <3> SUFFICES ASSUME NEW b \in Bundle, bundles[b] # None
                 PROVE  [bundles[b] EXCEPT !.items[n] = "stale"] \in BundleRow
      BY DEF Killed
    <3> QED
      BY DEF BundleRow
  <2> QED
    BY <1>2, <2>5, <2>6 DEF SyncFolder
<1> QED
  BY <1>1, <1>2 DEF Syncs

LEMMA ProposedType ==
  ASSUME TypeOK, NEW b \in Bundle, NEW names \in SUBSET Name, Proposed(b, names),
         b \in Discard => \A n \in names : rows[n] # None
  PROVE  bundles' \in [Bundle -> BundleRow \cup {None}]
<1> DEFINE row ==
     [status |-> "proposed",
      items |-> [n \in Name |-> IF n \in names THEN "proposed" ELSE "none"],
      premise |-> [n \in Name |->
        IF b \in Discard /\ n \in names THEN rows[n].generation ELSE None],
      saw |-> [n \in Name |->
        IF b \in Discard /\ n \in names THEN rows[n].life ELSE None],
      alive |-> TRUE]
<1>1. \A n \in names : b \in Discard => rows[n] \in Row
  BY DEF TypeOK
<1>2. row.premise \in [Name -> Generation \cup {None}]
  BY <1>1 DEF Row
<1>3. row.saw \in [Name -> Life \cup {None}]
  BY <1>1 DEF Row
<1>4. row \in BundleRow
  BY <1>2, <1>3 DEF BundleRow
<1> QED
  BY <1>4 DEF Proposed, TypeOK

LEMMA AgreeType == TypeOK /\ Agree => TypeOK'
<1> SUFFICES ASSUME TypeOK, Agree PROVE TypeOK'
  OBVIOUS
<1>1. ASSUME NEW b \in Move, NEW n \in Name, ProposeMove(b, n) PROVE TypeOK'
  <2>1. Target(n) \in Row
    <3>1. CASE ~Known(n)
      BY <3>1, NewRowType DEF Target
    <3>2. CASE Known(n)
      <4>1. rows[n] \in Row
        BY <3>2 DEF Known, TypeOK
      <4>2. rows[n].discarded => rows[n].generation + 1 \in Generation
        BY <1>1, <3>2, <4>1, FoldersOK DEF ProposeMove, Row, Generation
      <4> QED
        BY <3>2, <4>1, <4>2 DEF Target, Row
    <3> QED
      BY <3>1, <3>2
  <2>2. rows' \in [Name -> Row \cup {None}]
    BY <1>1, <2>1 DEF ProposeMove, TypeOK
  <2>3. b \notin Discard /\ b \in Bundle
    BY FoldersOK DEF Bundle
  <2>4. bundles' \in [Bundle -> BundleRow \cup {None}]
    BY <1>1, <2>3, ProposedType DEF ProposeMove
  <2> QED
    BY <1>1, <2>2, <2>4 DEF ProposeMove, TypeOK
<1>2. ASSUME NEW b \in Discard, NEW names \in SUBSET Name, ProposeDiscard(b, names)
      PROVE  TypeOK'
  <2>1. \A n \in names : rows[n] # None
    BY <1>2 DEF ProposeDiscard, Known
  <2>2. bundles' \in [Bundle -> BundleRow \cup {None}]
    BY <1>2, <2>1, ProposedType DEF ProposeDiscard, Bundle
  <2> QED
    BY <1>2, <2>2 DEF ProposeDiscard, TypeOK
<1>3. ASSUME NEW b \in Bundle, Accept(b) PROVE TypeOK'
  <2> DEFINE row ==
       [bundles[b] EXCEPT
          !.items = [n \in Name |->
             IF @[n] # "proposed" THEN @[n]
             ELSE IF Fresh(b, n) THEN "accepted" ELSE "stale"],
          !.status = IF \E n \in Items(b, "proposed") : Fresh(b, n)
                     THEN "accepted" ELSE "closed"]
  <2>1. bundles[b] \in BundleRow
    BY <1>3 DEF Accept, TypeOK
  <2>2. row \in BundleRow
    BY <2>1 DEF BundleRow
  <2>3. bundles' = [bundles EXCEPT ![b] = row]
    BY <1>3 DEF Accept
  <2> QED
    BY <1>3, <2>2, <2>3, ZenonT(40) DEF Accept, TypeOK
<1> QED
  BY <1>1, <1>2, <1>3 DEF Agree

\* What a step of a run does to the row of its own and to its bundle's items.
LEMMA RunRowType ==
  ASSUME TypeOK, run # None
  PROVE  /\ run \in RunRow
         /\ run.bundle \in Bundle
         /\ \A step \in {"made", "between", "check", "under", "delete", "deleted"},
               n \in Name \cup {None} : GoesOn(step, n) => run' \in RunRow
         /\ bundles[run.bundle] # None =>
              \A n \in Name, status \in {"applied", "stale"} : Becomes(n, status) =>
                bundles' \in [Bundle -> BundleRow \cup {None}]
<1>1. run \in RunRow /\ run.bundle \in Bundle
  BY DEF TypeOK, RunRow
<1>2. ASSUME NEW step \in {"made", "between", "check", "under", "delete", "deleted"},
             NEW n \in Name \cup {None}, GoesOn(step, n)
      PROVE  run' \in RunRow
  BY <1>1, <1>2 DEF GoesOn, RunRow
<1>3. ASSUME bundles[run.bundle] # None, NEW n \in Name, NEW status \in {"applied", "stale"},
             Becomes(n, status)
      PROVE  bundles' \in [Bundle -> BundleRow \cup {None}]
  <2>1. bundles[run.bundle] \in BundleRow
    BY <1>1, <1>3 DEF TypeOK
  <2>2. [bundles[run.bundle] EXCEPT !.items[n] = status] \in BundleRow
    BY <2>1 DEF BundleRow
  <2> QED
    BY <1>1, <1>3, <2>2 DEF Becomes, TypeOK
<1> QED
  BY <1>1, <1>2, <1>3

\* A run's row, once an item is behind it.
LEMMA PastShows ==
  ASSUME TypeOK, run # None, NEW n \in Name, run' = Past(n)
  PROVE  /\ run' \in RunRow
         /\ run'.bundle = run.bundle
         /\ run'.step = "between"
         /\ run'.name = None
         /\ run'.clean = run.clean
         /\ run'.memory = [run.memory EXCEPT ![n] = None]
<1>1. run \in RunRow
  BY DEF TypeOK
<1>2. [run.memory EXCEPT ![n] = None] \in [Name -> Row \cup {None}]
  BY <1>1 DEF RunRow
<1>3. run' = [run EXCEPT !.step = "between", !.name = None, !.since = {},
                         !.memory = [run.memory EXCEPT ![n] = None]]
  BY DEF Past
<1> QED
  BY <1>1, <1>2, <1>3 DEF RunRow

LEMMA RunType == TypeOK /\ ItemsHold /\ ItemHolds /\ (Start \/ Apply \/ CutShort) => TypeOK'
<1> SUFFICES ASSUME TypeOK, ItemsHold, ItemHolds, Start \/ Apply \/ CutShort PROVE TypeOK'
  OBVIOUS
<1> USE DEF TypeOK
<1>1. ASSUME NEW b \in Bundle, StartRun(b) PROVE TypeOK'
  <2>1. [n \in Name |-> IF n \in Items(b, "accepted") THEN rows[n] ELSE None]
          \in [Name -> Row \cup {None}]
    OBVIOUS
  <2>2. run' \in RunRow
    BY <1>1, <2>1 DEF StartRun, RunRow, AsAgreed
  <2> QED
    BY <1>1, <2>2 DEF StartRun
<1>2. CASE NotMade \/ NotDeleted \/ CutShort
  BY <1>2 DEF NotMade, NotDeleted, CutShort
<1>3. CASE Make
  <2>1. /\ server' \in [Name -> {"gone", "empty", "holds"}]
        /\ lives' \in [Name -> 0..MaxLives]
        /\ vanished' \subseteq Name
    BY <1>3, FoldersOK DEF Make, Comes, Becoming, Items
  <2>2. run' \in RunRow
    BY <1>3, RunRowType DEF Make, Items
  <2> QED
    BY <1>3, <2>1, <2>2 DEF Make
\* The item of the step under way, when it is on.
<1>4. ASSUME run # None
      PROVE  /\ run.bundle \in Bundle /\ bundles[run.bundle] # None
             /\ run.step \in {"made", "check", "under", "delete", "deleted"} =>
                  run.name \in Name /\ rows[run.name] \in Row
  BY <1>4, RunRowType DEF ItemHolds, ItemsHold
<1>5. CASE NoteMade
  <2>1. rows' \in [Name -> Row \cup {None}]
    <3>1. rows[run.name] \in Row /\ run.name \in Name
      BY <1>4, <1>5 DEF NoteMade
    <3>2. [rows[run.name] EXCEPT !.exists = TRUE, !.discarded = FALSE] \in Row
      BY <3>1 DEF Row
    <3>3. rows' = [rows EXCEPT ![run.name] =
                     [rows[run.name] EXCEPT !.exists = TRUE, !.discarded = FALSE]]
      BY <1>5 DEF NoteMade
    <3> QED
      BY <3>1, <3>2, <3>3
  <2>2. run' \in RunRow
    BY <1>5, RunRowType DEF NoteMade
  <2> QED
    BY <1>5, <2>1, <2>2 DEF NoteMade
<1>6. ASSUME NEW n \in Name, Check(n) PROVE TypeOK'
  <2>1. run' \in RunRow
    BY <1>6, RunRowType, PastShows DEF Check
  <2>2. bundles' \in [Bundle -> BundleRow \cup {None}]
    BY <1>4, <1>6, RunRowType DEF Check
  <2> QED
    BY <1>6, <2>1, <2>2 DEF Check
<1>7. CASE Put
  <2>1. server' \in [Name -> {"gone", "empty", "holds"}]
    BY <1>7 DEF Put, Becoming
  <2>2. run' \in RunRow /\ bundles' \in [Bundle -> BundleRow \cup {None}]
    BY <1>4, <1>7, RunRowType, PastShows DEF Put
  <2> QED
    BY <1>7, <2>1, <2>2 DEF Put
<1>8. CASE Look \/ LookUnder
  <2>1. /\ run # None /\ run.step \in {"check", "under"}
        /\ \/ UNCHANGED bundles /\ \E step \in {"under", "delete"} : GoesOn(step, run.name)
           \/ Becomes(run.name, "stale") /\ run' = Past(run.name)
        /\ UNCHANGED <<server, lives, rows, vanished, others>>
    BY <1>8 DEF Look, LookUnder
  <2>2. run' \in RunRow
    BY <1>4, <2>1, RunRowType, PastShows
  <2>3. bundles' \in [Bundle -> BundleRow \cup {None}]
    BY <1>4, <2>1, RunRowType
  <2> QED
    BY <2>1, <2>2, <2>3
<1>9. CASE Delete
  <2>1. server' \in [Name -> {"gone", "empty", "holds"}] /\ vanished' \subseteq Name
    BY <1>4, <1>9 DEF Delete, Goes, Becoming
  <2>2. run' \in RunRow
    BY <1>4, <1>9, RunRowType DEF Delete
  <2> QED
    BY <1>9, <2>1, <2>2 DEF Delete
<1>10. CASE DiscardUnmade \/ NoteDeleted
  <2>1. /\ run # None /\ run.step \in {"check", "deleted"}
        /\ rows' = DiscardedRow(run.name)
        /\ Becomes(run.name, "applied")
        /\ run' = Past(run.name)
        /\ vanished' \subseteq Name
        /\ UNCHANGED <<server, lives, others>>
    BY <1>10 DEF DiscardUnmade, NoteDeleted
  <2>2. rows' \in [Name -> Row \cup {None}]
    <3>1. rows[run.name] \in Row /\ run.name \in Name
      BY <1>4, <2>1
    <3>2. (rows[run.name].exists /\ ~run.memory[run.name].exists) \in BOOLEAN
      OBVIOUS
    <3>3. [rows[run.name] EXCEPT !.discarded = TRUE,
                                 !.exists = @ /\ ~run.memory[run.name].exists] \in Row
      BY <3>1, <3>2 DEF Row
    <3>4. rows' = [rows EXCEPT ![run.name] =
                     [rows[run.name] EXCEPT !.discarded = TRUE,
                                            !.exists = @ /\ ~run.memory[run.name].exists]]
      BY <2>1 DEF DiscardedRow
    <3> QED
      BY <3>1, <3>3, <3>4
  <2>3. run' \in RunRow /\ bundles' \in [Bundle -> BundleRow \cup {None}]
    BY <1>4, <2>1, RunRowType, PastShows
  <2> QED
    BY <2>1, <2>2, <2>3
<1>11. CASE Finish
  <2>1. /\ bundles[run.bundle] \in BundleRow
        /\ bundles' = [bundles EXCEPT ![run.bundle] =
             [bundles[run.bundle] EXCEPT !.status = "closed"]]
    BY <1>4, <1>11 DEF Finish
  <2>2. [bundles[run.bundle] EXCEPT !.status = "closed"] \in BundleRow
    BY <2>1 DEF BundleRow
  <2> QED
    BY <1>11, <2>1, <2>2 DEF Finish
<1> QED
  BY <1>1, <1>2, <1>3, <1>5, <1>6, <1>7, <1>8, <1>9, <1>10, <1>11 DEF Start, Apply

-----------------------------------------------------------------------------
(* Steps                                                                   *)

\* No row goes back to an earlier generation, and in one generation it tells of
\* one folder.
RowsGoOn ==
  \A n \in Name : rows[n] # None =>
    /\ rows'[n] # None
    /\ rows[n].generation <= rows'[n].generation
    /\ rows'[n].generation = rows[n].generation => rows[n].life \in {None, rows'[n].life}

\* A bundle rests on what it rested on.
BundlesGoOn ==
  \A b \in Bundle :
    /\ bundles'[b] # None => bundles[b] # None
    /\ bundles[b] # None =>
         /\ bundles'[b] # None
         /\ bundles'[b].premise = bundles[b].premise
         /\ bundles'[b].saw = bundles[b].saw
         /\ \A n \in Name : bundles'[b].items[n] # "none" <=> bundles[b].items[n] # "none"

LEMMA RecordKept ==
  ASSUME TypeOK, TypeOK', ItemsHold, PremisesHold, RowsGoOn, BundlesGoOn
  PROVE  ItemsHold' /\ PremisesHold'
<1>1. ItemsHold'
  <2> SUFFICES ASSUME NEW b \in Bundle, NEW n \in Name,
                      (bundles[b] # None /\ bundles[b].items[n] # "none")'
               PROVE  (/\ rows[n] # None
                       /\ b \in Discard => /\ bundles[b].premise[n] \in Generation
                                           /\ bundles[b].premise[n] <= rows[n].generation)'
    BY DEF ItemsHold
  <2>1. bundles[b] # None /\ bundles[b].items[n] # "none"
        /\ bundles'[b].premise = bundles[b].premise
    BY DEF BundlesGoOn
  <2>2. rows[n] # None /\ rows'[n] # None /\ rows[n].generation <= rows'[n].generation
    BY <2>1 DEF ItemsHold, RowsGoOn
  <2>3. rows[n].generation \in Nat /\ rows'[n].generation \in Nat
    BY <2>2, FoldersOK DEF TypeOK, Row, Generation
  <2> QED
    BY <2>1, <2>2, <2>3 DEF ItemsHold, Generation
<1>2. PremisesHold'
  <2> SUFFICES ASSUME NEW b \in Discard, NEW n \in Name,
                      (/\ bundles[b] # None
                       /\ bundles[b].items[n] # "none"
                       /\ bundles[b].premise[n] = rows[n].generation)'
               PROVE  (bundles[b].saw[n] \in {None, rows[n].life})'
    BY DEF PremisesHold
  <2>1. b \in Bundle
    BY DEF Bundle
  <2>2. /\ bundles[b] # None
        /\ bundles[b].items[n] # "none"
        /\ bundles[b].premise[n] = rows'[n].generation
        /\ bundles'[b].saw = bundles[b].saw
    BY <2>1 DEF BundlesGoOn
  <2>3. rows[n] # None /\ rows'[n] # None /\ rows[n].generation <= rows'[n].generation
        /\ bundles[b].premise[n] <= rows[n].generation
    BY <2>1, <2>2 DEF ItemsHold, RowsGoOn
  <2>4. rows[n].generation \in Nat /\ rows'[n].generation \in Nat
    BY <2>3, FoldersOK DEF TypeOK, Row, Generation
  <2>5. rows'[n].generation = rows[n].generation
    BY <2>2, <2>3, <2>4
  <2>6. bundles[b].saw[n] \in {None, rows[n].life}
    BY <2>2, <2>5 DEF PremisesHold
  <2> QED
    BY <2>2, <2>3, <2>5, <2>6 DEF RowsGoOn
<1> QED
  BY <1>1, <1>2

\* The bundle of the run under way rests on what it rested on.
ItsBundleStays ==
  run # None =>
    /\ bundles'[run.bundle] # None
    /\ bundles'[run.bundle].premise = bundles[run.bundle].premise
    /\ bundles'[run.bundle].saw = bundles[run.bundle].saw
    /\ \A n \in Name : bundles'[run.bundle].items[n] # "none"
                        <=> bundles[run.bundle].items[n] # "none"

LEMMA ItsBundleGoesOn ==
  ASSUME TypeOK, ItemHolds, BundlesGoOn
  PROVE  ItsBundleStays
<1>1. run # None => run.bundle \in Bundle /\ bundles[run.bundle] # None
  BY DEF TypeOK, RunRow, ItemHolds
<1> QED
  BY <1>1 DEF BundlesGoOn, ItsBundleStays

\* A run takes no row into its memory once it is under way.
LEMMA MemoryKept ==
  ASSUME MemoryHolds, ItsBundleStays,
         run' # None => /\ run # None
                       /\ run'.bundle = run.bundle
                       /\ \A n \in Name : run'.memory[n] \in {run.memory[n], None}
  PROVE  MemoryHolds'
<1> SUFFICES ASSUME run' # None, NEW n \in Name, run'.memory[n] # None
             PROVE  /\ bundles'[run'.bundle].items[n] # "none"
                    /\ run'.bundle \in Discard
                       /\ bundles'[run'.bundle].premise[n] = run'.memory[n].generation =>
                         bundles'[run'.bundle].saw[n] \in {None, run'.memory[n].life}
  BY DEF MemoryHolds
<1>1. run # None /\ run'.bundle = run.bundle /\ run'.memory[n] = run.memory[n]
  OBVIOUS
<1> QED
  BY <1>1 DEF MemoryHolds, ItsBundleStays

\* What is done while no item's transaction is open leaves no item under way,
\* and does not reach the rows the run has.
LEMMA FreeKept ==
  ASSUME Free, run' = run, ItemHolds, MemoryHolds, ItsBundleStays
  PROVE  ItemHolds' /\ MemoryHolds' /\ LookHolds'
<1>1. MemoryHolds'
  BY MemoryKept
<1>2. ItemHolds' /\ LookHolds'
  BY DEF Free, ItemHolds, LookHolds, ItsBundleStays
<1> QED
  BY <1>1, <1>2

\* What other clients do.
LEMMA OthersKeep == FoldersInv /\ TypeOK' /\ Others => FoldersInv'
<1> SUFFICES ASSUME FoldersInv, TypeOK', Others PROVE FoldersInv'
  OBVIOUS
<1> USE DEF FoldersInv
\* A run goes on with its item, and knows of what came.
<1>1. ASSUME NEW what \in SUBSET {"mail", "folder"}, NEW steps, Meanwhile(what, steps)
      PROVE  /\ rows' = rows
             /\ run' # None <=> run # None
             /\ run # None => /\ run'.bundle = run.bundle
                              /\ run'.step = run.step
                              /\ run'.name = run.name
                              /\ run'.memory = run.memory
                              /\ run.since \subseteq run'.since
                              /\ run.step \in steps => what \subseteq run'.since
  <2>1. CASE run = None
    BY <1>1, <2>1 DEF Meanwhile
  <2>2. CASE run # None
    <3>1. run \in RunRow
      BY <2>2 DEF TypeOK
    <3>2. run' = [run EXCEPT !.clean = FALSE,
                    !.since = IF run.step \in steps THEN @ \cup what ELSE @]
      BY <1>1, <2>2 DEF Meanwhile
    <3>3. run' \in RunRow
      BY <3>1, <3>2 DEF RunRow
    <3>4. rows' = rows /\ run' # None
      BY <1>1, <3>3, NoneIsNoRow DEF Meanwhile
    <3>5. /\ run'.bundle = run.bundle
          /\ run'.step = run.step
          /\ run'.name = run.name
          /\ run'.memory = run.memory
      BY <3>1, <3>2 DEF RunRow
    <3>6. run'.since = IF run.step \in steps THEN run.since \cup what ELSE run.since
      BY <3>1, <3>2 DEF RunRow
    <3> QED
      BY <2>2, <3>4, <3>5, <3>6
  <2> QED
    BY <2>1, <2>2
<1>2. ASSUME rows' = rows, BundlesGoOn,
             run' # None <=> run # None,
             run # None => /\ run'.bundle = run.bundle
                           /\ run'.step = run.step
                           /\ run'.name = run.name
                           /\ run'.memory = run.memory
      PROVE  ItemsHold' /\ PremisesHold' /\ ItemHolds' /\ MemoryHolds'
  <2>1. RowsGoOn
    <3> SUFFICES ASSUME NEW n \in Name, rows[n] # None
                 PROVE  rows[n].generation <= rows'[n].generation
      BY <1>2 DEF RowsGoOn
    <3>1. rows[n].generation \in Nat
      BY DEF TypeOK, Row, Generation
    <3> QED
      BY <1>2, <3>1
  <2>2. ItemHolds'
    <3> SUFFICES ASSUME run # None
                 PROVE  ItemHolds'
      BY <1>2 DEF ItemHolds
    <3>1. run.bundle \in Bundle
      BY DEF TypeOK, RunRow
    <3> QED
      BY <1>2, <3>1 DEF ItemHolds, BundlesGoOn
  <2>3. MemoryHolds'
    BY <1>2, ItsBundleGoesOn, MemoryKept
  <2> QED
    BY <1>2, <2>1, <2>2, <2>3, RecordKept
<1>3. UNCHANGED bundles => BundlesGoOn
  BY DEF BundlesGoOn
<1>4. ASSUME NEW n \in Name, MakeFolder(n) PROVE FoldersInv'
  <2>1. Meanwhile({"folder"}, {"delete"}) /\ UNCHANGED bundles
    BY <1>4 DEF MakeFolder
  <2>2. /\ server' = [server EXCEPT ![n] = "empty"]
        /\ lives' = [lives EXCEPT ![n] = @ + 1]
    BY <1>4 DEF MakeFolder, Comes, Becoming
  <2>3. LivesHold'
    BY <2>2, FoldersOK DEF LivesHold, TypeOK
  <2>4. LookHolds'
    <3> SUFFICES ASSUME run # None
                 PROVE  LookHolds'
      BY <1>1, <2>1 DEF LookHolds
    <3>1. /\ run'.step = run.step
          /\ run'.name = run.name
          /\ run.since \subseteq run'.since
          /\ run.step = "delete" => "folder" \in run'.since
      BY <1>1, <2>1
    <3>2. run.step \in {"under", "delete"} => run.name \in Name /\ Under[run.name] \subseteq Name
      BY FoldersOK DEF ItemHolds
    <3>3. run.step \in {"under", "delete"} /\ "mail" \notin run'.since =>
            server'[run.name] # "holds"
      BY <2>2, <3>1, <3>2 DEF LookHolds, TypeOK
    <3>4. run.step = "delete" /\ "folder" \notin run'.since =>
            \A m \in Under[run.name] : server'[m] = "gone"
      BY <2>2, <3>1, <3>2 DEF LookHolds, TypeOK
    <3> QED
      BY <3>1, <3>3, <3>4 DEF LookHolds
  <2> QED
    BY <1>1, <1>2, <1>3, <2>1, <2>3, <2>4
<1>5. ASSUME NEW n \in Name, DropFolder(n) PROVE FoldersInv'
  <2>1. Meanwhile({}, {}) /\ UNCHANGED <<lives, bundles>>
    BY <1>5 DEF DropFolder
  <2>2. server' = [server EXCEPT ![n] = "gone"]
    BY <1>5 DEF DropFolder, Goes, Becoming
  <2>3. LivesHold'
    BY <2>1, <2>2 DEF LivesHold, TypeOK
  <2>4. LookHolds'
    <3> SUFFICES ASSUME run # None
                 PROVE  LookHolds'
      BY <1>1, <2>1 DEF LookHolds
    <3>1. /\ run'.step = run.step
          /\ run'.name = run.name
          /\ run.since \subseteq run'.since
      BY <1>1, <2>1
    <3>2. run.step \in {"under", "delete"} => run.name \in Name /\ Under[run.name] \subseteq Name
      BY FoldersOK DEF ItemHolds
    <3>3. run.step \in {"under", "delete"} /\ "mail" \notin run'.since =>
            server'[run.name] # "holds"
      BY <2>2, <3>1, <3>2 DEF LookHolds, TypeOK
    <3>4. run.step = "delete" /\ "folder" \notin run'.since =>
            \A m \in Under[run.name] : server'[m] = "gone"
      BY <2>2, <3>1, <3>2 DEF LookHolds, TypeOK
    <3> QED
      BY <3>1, <3>3, <3>4 DEF LookHolds
  <2> QED
    BY <1>1, <1>2, <1>3, <2>1, <2>3, <2>4
<1>6. ASSUME NEW n \in Name, Arrive(n) PROVE FoldersInv'
  <2>1. Meanwhile({"mail"}, {"under", "delete"}) /\ UNCHANGED <<lives, bundles>>
    BY <1>6 DEF Arrive
  <2>2. server[n] = "empty" /\ server' = [server EXCEPT ![n] = "holds"]
    BY <1>6 DEF Arrive, Becoming
  <2>3. LivesHold'
    BY <2>1, <2>2 DEF LivesHold, TypeOK
  <2>4. LookHolds'
    <3> SUFFICES ASSUME run # None
                 PROVE  LookHolds'
      BY <1>1, <2>1 DEF LookHolds
    <3>1. /\ run'.step = run.step
          /\ run'.name = run.name
          /\ run.since \subseteq run'.since
          /\ run.step \in {"under", "delete"} => "mail" \in run'.since
      BY <1>1, <2>1
    <3>2. run.step \in {"under", "delete"} => run.name \in Name /\ Under[run.name] \subseteq Name
      BY FoldersOK DEF ItemHolds
    <3>3. run.step \in {"under", "delete"} /\ "mail" \notin run'.since =>
            server'[run.name] # "holds"
      BY <2>2, <3>1, <3>2 DEF LookHolds, TypeOK
    <3>4. run.step = "delete" /\ "folder" \notin run'.since =>
            \A m \in Under[run.name] : server'[m] = "gone"
      BY <2>2, <3>1, <3>2 DEF LookHolds, TypeOK
    <3> QED
      BY <3>1, <3>3, <3>4 DEF LookHolds
  <2> QED
    BY <1>1, <1>2, <1>3, <2>1, <2>3, <2>4
<1>7. ASSUME NEW n \in Name, TakeOut(n) PROVE FoldersInv'
  <2>1. Meanwhile({}, {}) /\ UNCHANGED <<lives, bundles>>
    BY <1>7 DEF TakeOut
  <2>2. server[n] = "holds" /\ server' = [server EXCEPT ![n] = "empty"]
    BY <1>7 DEF TakeOut, Becoming
  <2>3. LivesHold'
    BY <2>1, <2>2 DEF LivesHold, TypeOK
  <2>4. LookHolds'
    <3> SUFFICES ASSUME run # None
                 PROVE  LookHolds'
      BY <1>1, <2>1 DEF LookHolds
    <3>1. /\ run'.step = run.step
          /\ run'.name = run.name
          /\ run.since \subseteq run'.since
      BY <1>1, <2>1
    <3>2. run.step \in {"under", "delete"} => run.name \in Name /\ Under[run.name] \subseteq Name
      BY FoldersOK DEF ItemHolds
    <3>3. run.step \in {"under", "delete"} /\ "mail" \notin run'.since =>
            server'[run.name] # "holds"
      BY <2>2, <3>1, <3>2 DEF LookHolds, TypeOK
    <3>4. run.step = "delete" /\ "folder" \notin run'.since =>
            \A m \in Under[run.name] : server'[m] = "gone"
      BY <2>2, <3>1, <3>2 DEF LookHolds, TypeOK
    <3> QED
      BY <3>1, <3>3, <3>4 DEF LookHolds
  <2> QED
    BY <1>1, <1>2, <1>3, <2>1, <2>3, <2>4
<1>8. ASSUME NEW b \in Move, Depart(b) PROVE FoldersInv'
  <2>1. Meanwhile({}, {}) /\ UNCHANGED <<server, lives>>
    BY <1>8 DEF Depart
  <2>2. BundlesGoOn
    <3>1. b \in Bundle /\ bundles[b] \in BundleRow
      BY <1>8 DEF Depart, TypeOK, Bundle
    <3>2. bundles' = [bundles EXCEPT ![b] = [bundles[b] EXCEPT !.alive = FALSE]]
      BY <1>8 DEF Depart
    <3>3. [bundles[b] EXCEPT !.alive = FALSE] # None
      BY <3>1, NoneIsNoRow DEF BundleRow
    <3> QED
      BY <1>8, <3>1, <3>2, <3>3 DEF BundlesGoOn, TypeOK, BundleRow, Depart
  <2>3. LivesHold'
    BY <2>1 DEF LivesHold
  <2>4. LookHolds'
    BY <1>1, <2>1 DEF LookHolds
  <2> QED
    BY <1>1, <1>2, <2>1, <2>2, <2>3, <2>4
<1> QED
  BY <1>4, <1>5, <1>6, <1>7, <1>8 DEF Others

\* What discovery and syncs do.
LEMMA SyncsKeep == FoldersInv /\ TypeOK' /\ Syncs => FoldersInv'
<1> SUFFICES ASSUME FoldersInv, TypeOK', Syncs PROVE FoldersInv'
  OBVIOUS
<1> USE DEF FoldersInv
<1>2. \A n \in Name : rows[n] # None => rows[n] \in Row /\ rows[n].generation \in Nat
  BY DEF TypeOK, Row, Generation
<1>3. CASE Discover
  <2>1. RowsGoOn
    <3> SUFFICES ASSUME NEW n \in Name, rows[n] # None
                 PROVE  /\ rows'[n] # None
                        /\ rows[n].generation <= rows'[n].generation
                        /\ rows'[n].life = rows[n].life
      BY DEF RowsGoOn
    <3>1. rows'[n] = IF ~There(n) THEN rows[n]
                     ELSE [rows[n] EXCEPT !.exists = TRUE, !.discarded = FALSE]
      BY <1>3 DEF Discover, Known
    <3>2. rows'[n] \in Row /\ rows'[n].generation = rows[n].generation
                           /\ rows'[n].life = rows[n].life
      BY <1>2, <3>1 DEF Row
    <3> QED
      BY <1>2, <3>2, NoneIsNoRow
  <2>2. BundlesGoOn
    BY <1>3 DEF Discover, BundlesGoOn
  <2>3. LivesHold'
    BY <1>3 DEF Discover, LivesHold
  <2> QED
    BY <1>3, <2>1, <2>2, <2>3, RecordKept, ItsBundleGoesOn, FreeKept DEF Discover
<1>4. ASSUME NEW n \in Name, SyncFolder(n) PROVE FoldersInv'
  <2>1. RowsGoOn
    <3> DEFINE row == [rows[n] EXCEPT !.held = (server[n] = "holds"), !.life = lives[n],
                         !.generation = IF Broken(n) THEN @ + 1 ELSE @]
    <3>1. rows' = [rows EXCEPT ![n] = row] /\ rows[n] # None
      BY <1>4 DEF SyncFolder, Known
    <3>2. rows'[n] = row
      BY <3>1 DEF TypeOK
    <3>3. /\ row.life = lives[n]
          /\ row.generation = IF Broken(n) THEN rows[n].generation + 1 ELSE rows[n].generation
      BY <1>2, <3>1 DEF Row
    <3>4. row \in Row
      <4>1. lives[n] \in Life
        BY <1>4, FoldersOK DEF SyncFolder, There, LivesHold, Life, TypeOK
      <4>2. (IF Broken(n) THEN rows[n].generation + 1 ELSE rows[n].generation) \in Generation
        BY <1>2, <1>4, <3>1, FoldersOK DEF SyncFolder, Row, Generation
      <4> QED
        BY <1>2, <3>1, <4>1, <4>2 DEF Row
    <3> HIDE DEF row
    <3>5. /\ rows'[n] # None
          /\ rows[n].generation <= rows'[n].generation
          /\ rows'[n].generation = rows[n].generation => rows[n].life \in {None, rows'[n].life}
      BY <1>2, <3>1, <3>2, <3>3, <3>4, NoneIsNoRow DEF Broken
    <3>6. \A m \in Name \ {n} : rows'[m] = rows[m]
      BY <3>1 DEF TypeOK
    <3>7. ASSUME NEW m \in Name, rows[m] # None
          PROVE  /\ rows'[m] # None
                 /\ rows[m].generation <= rows'[m].generation
                 /\ rows'[m].generation = rows[m].generation => rows[m].life \in {None, rows'[m].life}
      BY <1>2, <3>5, <3>6, <3>7
    <3> QED
      BY <3>7 DEF RowsGoOn
  <2>2. BundlesGoOn
    <3>1. CASE ~Broken(n)
      BY <1>4, <3>1 DEF SyncFolder, BundlesGoOn
    <3>2. CASE Broken(n)
      <4> SUFFICES ASSUME NEW b \in Bundle, bundles[b] # None
                   PROVE  /\ bundles'[b] # None
                          /\ bundles'[b].premise = bundles[b].premise
                          /\ bundles'[b].saw = bundles[b].saw
                          /\ \A k \in Name : bundles'[b].items[k] # "none"
                                              <=> bundles[b].items[k] # "none"
        BY <1>4, <3>2 DEF SyncFolder, Killed, BundlesGoOn
      <4>1. bundles[b] \in BundleRow
        BY DEF TypeOK
      <4>2. CASE bundles'[b] = bundles[b]
        BY <4>2
      <4>3. CASE /\ bundles[b].items[n] \in {"proposed", "accepted"}
                 /\ bundles'[b] = [bundles[b] EXCEPT !.items[n] = "stale"]
        <5>1. bundles'[b] \in BundleRow
          BY <4>1, <4>3 DEF BundleRow
        <5> QED
          BY <4>1, <4>3, <5>1, NoneIsNoRow DEF BundleRow
      <4> QED
        BY <1>4, <3>2, <4>2, <4>3 DEF SyncFolder, Killed
    <3> QED
      BY <3>1, <3>2
  <2>3. LivesHold'
    BY <1>4 DEF SyncFolder, LivesHold
  <2> QED
    BY <1>4, <2>1, <2>2, <2>3, RecordKept, ItsBundleGoesOn, FreeKept DEF SyncFolder
<1> QED
  BY <1>3, <1>4 DEF Syncs

\* What is proposed and agreed to.
LEMMA AgreeKeeps == FoldersInv /\ TypeOK' /\ Agree => FoldersInv'
<1> SUFFICES ASSUME FoldersInv, TypeOK', Agree PROVE FoldersInv'
  OBVIOUS
<1> USE DEF FoldersInv
<1>1. run # None => run.bundle \in Bundle /\ bundles[run.bundle] # None
  BY DEF TypeOK, RunRow, ItemHolds
<1>2. \A n \in Name : rows[n] # None => rows[n] \in Row /\ rows[n].generation \in Nat
  BY DEF TypeOK, Row, Generation
<1>3. rows' = rows => RowsGoOn
  BY <1>2 DEF RowsGoOn
\* A new bundle rests on the rows of its folders.
<1>4. ASSUME NEW b \in Bundle, bundles[b] = None, NEW names \in SUBSET Name,
             Proposed(b, names), RowsGoOn,
             \A n \in names : /\ rows'[n] # None
                              /\ b \in Discard => rows[n] # None /\ rows'[n] = rows[n]
      PROVE  /\ ItemsHold' /\ PremisesHold'
             /\ ItsBundleStays
  <2>1. /\ \A o \in Bundle \ {b} : bundles'[o] = bundles[o]
        /\ \A n \in Name :
             /\ bundles'[b].items[n] # "none" <=> n \in names
             /\ b \in Discard /\ n \in names =>
                  /\ bundles'[b].premise[n] = rows[n].generation
                  /\ bundles'[b].saw[n] = rows[n].life
    BY <1>4 DEF Proposed, TypeOK
  <2>2. \A n \in Name : rows[n] # None => rows[n].generation \in Generation
                                         /\ rows'[n].generation \in Nat
    BY <1>4 DEF RowsGoOn, TypeOK, Row, Generation
  <2>3. ItemsHold'
    <3> SUFFICES ASSUME NEW o \in Bundle, NEW n \in Name,
                        (bundles[o] # None /\ bundles[o].items[n] # "none")'
                 PROVE  (/\ rows[n] # None
                         /\ o \in Discard => /\ bundles[o].premise[n] \in Generation
                                             /\ bundles[o].premise[n] <= rows[n].generation)'
      BY DEF ItemsHold
    <3>1. CASE o = b
      <4>1. n \in names
        BY <2>1, <3>1
      <4> QED
        BY <1>2, <1>4, <2>1, <2>2, <3>1, <4>1
    <3>2. CASE o # b
      <4>1. /\ bundles'[o] = bundles[o] /\ bundles[o] # None /\ bundles[o].items[n] # "none"
        BY <2>1, <3>2
      <4>2. rows[n] # None /\ rows'[n] # None /\ rows[n].generation <= rows'[n].generation
        BY <1>4, <4>1 DEF ItemsHold, RowsGoOn
      <4> QED
        BY <2>2, <4>1, <4>2 DEF ItemsHold, Generation
    <3> QED
      BY <3>1, <3>2
  <2>4. PremisesHold'
    <3> SUFFICES ASSUME NEW o \in Discard, NEW n \in Name,
                        (/\ bundles[o] # None
                         /\ bundles[o].items[n] # "none"
                         /\ bundles[o].premise[n] = rows[n].generation)'
                 PROVE  (bundles[o].saw[n] \in {None, rows[n].life})'
      BY DEF PremisesHold
    <3>1. CASE o = b
      <4>1. n \in names
        BY <2>1, <3>1
      <4> QED
        BY <1>4, <2>1, <3>1, <4>1
    <3>2. CASE o # b
      <4>1. o \in Bundle /\ bundles'[o] = bundles[o]
        BY <2>1, <3>2 DEF Bundle
      <4>2. /\ rows[n] # None /\ rows[n].generation <= rows'[n].generation
            /\ bundles[o].premise[n] <= rows[n].generation
        BY <1>4, <4>1 DEF ItemsHold, RowsGoOn
      <4>3. rows'[n].generation = rows[n].generation
        BY <1>2, <2>2, <4>1, <4>2
      <4>4. bundles[o].saw[n] \in {None, rows[n].life}
        BY <4>1, <4>3 DEF PremisesHold
      <4> QED
        BY <1>4, <4>1, <4>2, <4>3, <4>4 DEF RowsGoOn
    <3> QED
      BY <3>1, <3>2
  <2>5. ItsBundleStays
    BY <1>1, <1>4, <2>1 DEF ItsBundleStays
  <2> QED
    BY <2>3, <2>4, <2>5
<1>5. ASSUME NEW b \in Move, NEW n \in Name, ProposeMove(b, n) PROVE FoldersInv'
  <2>1. rows' = [rows EXCEPT ![n] = Target(n)]
    BY <1>5 DEF ProposeMove
  <2>2. rows'[n] = Target(n) /\ \A m \in Name \ {n} : rows'[m] = rows[m]
    BY <2>1 DEF TypeOK
  <2>3. rows[n] = None => Target(n) # None
    <3>1. NewRow(FALSE) \in Row
      BY NewRowType
    <3> QED
      BY <3>1, NoneIsNoRow DEF Target, Known
  <2>4. rows[n] # None =>
          /\ Target(n) # None
          /\ rows[n].generation <= Target(n).generation
          /\ Target(n).life = rows[n].life
    <3> SUFFICES ASSUME rows[n] # None
                 PROVE  /\ Target(n) # None
                        /\ rows[n].generation <= Target(n).generation
                        /\ Target(n).life = rows[n].life
      OBVIOUS
    <3>1. CASE ~rows[n].discarded
      BY <1>2, <3>1 DEF Target, Known
    <3>2. CASE rows[n].discarded
      <4>1. Target(n) = [rows[n] EXCEPT !.discarded = FALSE, !.exists = FALSE, !.held = FALSE,
                                        !.generation = @ + 1]
        BY <3>2 DEF Target, Known
      <4>2. rows[n].generation + 1 \in Generation
        BY <1>2, <1>5, <3>2, FoldersOK DEF ProposeMove, Known, Row, Generation
      <4>3. Target(n) \in Row
        BY <1>2, <4>1, <4>2 DEF Row
      <4>4. Target(n).generation = rows[n].generation + 1 /\ Target(n).life = rows[n].life
        BY <1>2, <4>1 DEF Row
      <4> QED
        BY <1>2, <4>3, <4>4, NoneIsNoRow
    <3> QED
      BY <3>1, <3>2
  <2>5. RowsGoOn
    BY <1>2, <2>2, <2>4 DEF RowsGoOn
  <2>6. b \in Bundle /\ b \notin Discard /\ bundles[b] = None /\ Proposed(b, {n})
    BY <1>5, FoldersOK DEF ProposeMove, Bundle
  <2>7. rows'[n] # None
    BY <2>2, <2>3, <2>4
  <2>8. /\ ItemsHold' /\ PremisesHold'
        /\ ItsBundleStays
    BY <1>4, <2>5, <2>6, <2>7
  <2>9. LivesHold' /\ Free /\ run' = run
    BY <1>5 DEF ProposeMove, LivesHold
  <2> QED
    BY <2>8, <2>9, FreeKept
<1>6. ASSUME NEW b \in Discard, NEW names \in SUBSET Name, ProposeDiscard(b, names)
      PROVE  FoldersInv'
  <2>1. /\ b \in Bundle /\ bundles[b] = None /\ Proposed(b, names) /\ rows' = rows
        /\ \A n \in names : rows[n] # None
    BY <1>6 DEF ProposeDiscard, Bundle, Known
  <2>2. /\ ItemsHold' /\ PremisesHold'
        /\ ItsBundleStays
    BY <1>3, <1>4, <2>1
  <2>3. LivesHold' /\ Free /\ run' = run
    BY <1>6 DEF ProposeDiscard, LivesHold
  <2> QED
    BY <2>2, <2>3, FreeKept
<1>7. ASSUME NEW b \in Bundle, Accept(b) PROVE FoldersInv'
  <2> DEFINE row ==
       [bundles[b] EXCEPT
          !.items = [n \in Name |->
             IF @[n] # "proposed" THEN @[n]
             ELSE IF Fresh(b, n) THEN "accepted" ELSE "stale"],
          !.status = IF \E n \in Items(b, "proposed") : Fresh(b, n)
                     THEN "accepted" ELSE "closed"]
  <2>1. bundles[b] \in BundleRow /\ bundles' = [bundles EXCEPT ![b] = row]
    BY <1>7 DEF Accept, TypeOK
  <2>2. /\ row \in BundleRow
        /\ row.premise = bundles[b].premise
        /\ row.saw = bundles[b].saw
        /\ \A n \in Name : row.items[n] # "none" <=> bundles[b].items[n] # "none"
    BY <2>1 DEF BundleRow
  <2> HIDE DEF row
  <2>3. bundles'[b] = row /\ \A o \in Bundle \ {b} : bundles'[o] = bundles[o]
    BY <2>1 DEF TypeOK
  <2>4. BundlesGoOn
    BY <1>7, <2>2, <2>3, NoneIsNoRow DEF BundlesGoOn, Accept
  <2>5. LivesHold' /\ Free /\ run' = run /\ rows' = rows
    BY <1>7 DEF Accept, LivesHold
  <2> QED
    BY <1>3, <2>4, <2>5, RecordKept, ItsBundleGoesOn, FreeKept
<1> QED
  BY <1>5, <1>6, <1>7 DEF Agree

\* An item that is done, or will not be, is still its bundle's.
LEMMA BecomesKeeps ==
  ASSUME TypeOK, run # None, bundles[run.bundle] # None,
         NEW n \in Name, bundles[run.bundle].items[n] # "none",
         NEW status \in {"applied", "stale"}, Becomes(n, status)
  PROVE  BundlesGoOn
<1> DEFINE row == [bundles[run.bundle] EXCEPT !.items[n] = status]
<1>1. run.bundle \in Bundle /\ bundles[run.bundle] \in BundleRow
  BY DEF TypeOK, RunRow
<1>2. /\ row \in BundleRow
      /\ row.premise = bundles[run.bundle].premise
      /\ row.saw = bundles[run.bundle].saw
      /\ \A k \in Name : row.items[k] # "none" <=> bundles[run.bundle].items[k] # "none"
  BY <1>1 DEF BundleRow
<1>3. bundles' = [bundles EXCEPT ![run.bundle] = row]
  BY DEF Becomes
<1> HIDE DEF row
<1>4. bundles'[run.bundle] = row /\ \A o \in Bundle \ {run.bundle} : bundles'[o] = bundles[o]
  BY <1>1, <1>3 DEF TypeOK
<1> QED
  BY <1>1, <1>2, <1>4, NoneIsNoRow DEF BundlesGoOn

\* And so is a folder that is noted to be there, or to be gone.
LEMMA NoteKeeps ==
  ASSUME TypeOK, NEW n \in Name, rows[n] # None, NEW there \in BOOLEAN, NEW gone \in BOOLEAN,
         rows' = [rows EXCEPT ![n] = [rows[n] EXCEPT !.exists = there, !.discarded = gone]]
  PROVE  RowsGoOn
<1> DEFINE row == [rows[n] EXCEPT !.exists = there, !.discarded = gone]
<1>1. rows[n] \in Row
  BY DEF TypeOK
<1>2. /\ row \in Row
      /\ row.generation = rows[n].generation
      /\ row.life = rows[n].life
  BY <1>1 DEF Row
<1> HIDE DEF row
<1>3. rows'[n] = row /\ \A m \in Name \ {n} : rows'[m] = rows[m]
  BY DEF row, TypeOK
<1>4. \A m \in Name : rows[m] # None => rows[m].generation \in Nat
  BY DEF TypeOK, Row, Generation
<1>5. rows'[n] # None /\ rows'[n].generation = rows[n].generation /\ rows'[n].life = rows[n].life
  BY <1>2, <1>3, NoneIsNoRow
<1>6. ASSUME NEW m \in Name, rows[m] # None
      PROVE  /\ rows'[m] # None
             /\ rows[m].generation <= rows'[m].generation
             /\ rows'[m].generation = rows[m].generation => rows[m].life \in {None, rows'[m].life}
  <2>1. rows'[m].generation = rows[m].generation /\ rows'[m].life = rows[m].life /\ rows'[m] # None
    BY <1>3, <1>5, <1>6
  <2>2. rows[m].generation \in Nat
    BY <1>4, <1>6
  <2> QED
    BY <2>1, <2>2
<1> QED
  BY <1>6 DEF RowsGoOn

\* A run's row, once it goes on.
LEMMA GoesOnShows ==
  ASSUME TypeOK, run # None, NEW step, NEW n, GoesOn(step, n)
  PROVE  /\ run'.bundle = run.bundle
         /\ run'.step = step
         /\ run'.name = n
         /\ run'.clean = run.clean
         /\ run'.memory = run.memory
         /\ run'.since = IF step = "delete" THEN run.since ELSE {}
<1>1. run \in RunRow
  BY DEF TypeOK
<1> QED
  BY <1>1 DEF GoesOn, RunRow

\* What a run does.
LEMMA RunKeeps == FoldersInv /\ TypeOK' /\ (Start \/ Apply \/ CutShort) => FoldersInv'
<1> SUFFICES ASSUME FoldersInv, TypeOK', Start \/ Apply \/ CutShort PROVE FoldersInv'
  OBVIOUS
<1> USE DEF FoldersInv
<1>1. run # None => /\ run.bundle \in Bundle
                    /\ bundles[run.bundle] # None
                    /\ run.step \in {"made", "check", "under", "delete", "deleted"} =>
                         /\ run.name \in Name
                         /\ bundles[run.bundle].items[run.name] # "none"
                         /\ rows[run.name] # None
                    /\ run.memory \in [Name -> Row \cup {None}]
  BY DEF TypeOK, RunRow, ItemHolds, ItemsHold
<1>2. rows' = rows => RowsGoOn
  <2>1. \A n \in Name : rows[n] # None => rows[n].generation \in Nat
    BY DEF TypeOK, Row, Generation
  <2> QED
    BY <2>1 DEF RowsGoOn
<1>3. bundles' = bundles => BundlesGoOn
  BY DEF BundlesGoOn
<1>4. server' = server /\ lives' = lives => LivesHold'
  BY DEF LivesHold
\* Between two items, or with no run left, nothing is under way.
<1>5. ASSUME BundlesGoOn,
             \/ run' = None
             \/ run # None /\ GoesOn("between", None)
             \/ run # None /\ \E n \in Name : run' = Past(n)
      PROVE  ItemHolds' /\ MemoryHolds' /\ LookHolds'
  <2>1. ItsBundleStays
    BY <1>5, ItsBundleGoesOn
  <2>2. CASE run' = None
    BY <2>2 DEF ItemHolds, MemoryHolds, LookHolds
  <2>3. ASSUME run # None,
               run'.bundle = run.bundle, run'.step = "between",
               \A n \in Name : run'.memory[n] \in {run.memory[n], None}
        PROVE  ItemHolds' /\ MemoryHolds' /\ LookHolds'
    <3>1. MemoryHolds'
      BY <2>1, <2>3, MemoryKept
    <3>2. ItemHolds' /\ LookHolds'
      BY <2>1, <2>3 DEF ItsBundleStays, ItemHolds, LookHolds
    <3> QED
      BY <3>1, <3>2
  <2>4. CASE run # None /\ GoesOn("between", None)
    BY <2>3, <2>4, GoesOnShows
  <2>5. ASSUME run # None, NEW n \in Name, run' = Past(n)
        PROVE  ItemHolds' /\ MemoryHolds' /\ LookHolds'
    <3>1. run'.memory = [run.memory EXCEPT ![n] = None]
      BY <2>5, PastShows
    <3>2. \A m \in Name : run'.memory[m] \in {run.memory[m], None}
      BY <1>1, <2>5, <3>1
    <3> QED
      BY <2>3, <2>5, <3>2, PastShows
  <2> QED
    BY <1>5, <2>2, <2>4, <2>5
\* A step of an item leaves the rows the run has as they are.
<1>6. ASSUME run # None, bundles' = bundles, NEW step, NEW n, GoesOn(step, n)
       PROVE  MemoryHolds'
  BY <1>3, <1>6, ItsBundleGoesOn, GoesOnShows, MemoryKept
<1>7. ASSUME NEW b \in Bundle, StartRun(b) PROVE FoldersInv'
  <2>1. /\ run'.bundle = b /\ run'.step \in {"make", "between"} /\ bundles'[b] # None
        /\ UNCHANGED <<server, lives, rows, bundles>>
    BY <1>7 DEF StartRun
  <2>2. ItemHolds' /\ LookHolds'
    BY <2>1 DEF ItemHolds, LookHolds
  <2>3. MemoryHolds'
    <3> SUFFICES ASSUME NEW n \in Name, run'.memory[n] # None
                 PROVE  /\ bundles[b].items[n] # "none"
                        /\ b \in Discard /\ bundles[b].premise[n] = run'.memory[n].generation =>
                             bundles[b].saw[n] \in {None, run'.memory[n].life}
      BY <2>1 DEF MemoryHolds
    <3>1. run'.memory = [m \in Name |-> IF m \in Items(b, "accepted") THEN rows[m] ELSE None]
      BY <1>7 DEF StartRun
    <3>2. bundles[b].items[n] = "accepted" /\ run'.memory[n] = rows[n]
      BY <3>1 DEF Items
    <3> QED
      BY <2>1, <3>2 DEF PremisesHold
  <2> QED
    BY <1>2, <1>3, <1>4, <2>1, <2>2, <2>3, RecordKept
<1>8. CASE NotMade \/ NotDeleted \/ CutShort
  <2>1. run' = None /\ UNCHANGED <<server, lives, rows, bundles>>
    BY <1>8 DEF NotMade, NotDeleted, CutShort
  <2> QED
    BY <1>2, <1>3, <1>4, <1>5, <2>1, RecordKept
<1>9. CASE Make
  <2>1. PICK n \in Items(run.bundle, "accepted") :
          /\ \/ UNCHANGED <<server, lives>>
             \/ server' = [server EXCEPT ![n] = "empty"] /\ lives' = [lives EXCEPT ![n] = @ + 1]
          /\ GoesOn("made", n)
          /\ run # None
          /\ UNCHANGED <<rows, bundles>>
    BY <1>9 DEF Make, Comes, Becoming
  <2>2. n \in Name /\ bundles[run.bundle].items[n] # "none"
    BY DEF Items
  <2>3. LivesHold'
    BY <2>1, <2>2, FoldersOK DEF LivesHold, TypeOK
  <2>4. ItemHolds' /\ LookHolds'
    BY <1>1, <2>1, <2>2, GoesOnShows DEF ItemHolds, LookHolds
  <2> QED
    BY <1>2, <1>3, <1>6, <2>1, <2>3, <2>4, RecordKept
<1>10. CASE NoteMade
  <2>1. /\ run # None /\ run.step = "made" /\ GoesOn("between", None)
        /\ rows' = [rows EXCEPT ![run.name] =
                      [rows[run.name] EXCEPT !.exists = TRUE, !.discarded = FALSE]]
        /\ UNCHANGED <<server, lives, bundles>>
    BY <1>10 DEF NoteMade
  <2>2. RowsGoOn
    BY <1>1, <2>1, NoteKeeps
  <2> QED
    BY <1>3, <1>4, <1>5, <2>1, <2>2, RecordKept
<1>11. ASSUME NEW n \in Name, Check(n) PROVE FoldersInv'
  <2>1. /\ run # None /\ run.step = "between" /\ run.memory[n] # None
        /\ bundles[run.bundle].items[n] # "none"
        /\ UNCHANGED <<server, lives, rows>>
    BY <1>11 DEF Check, Todo, MemoryHolds
  <2>2. CASE /\ run.bundle \in Move \/ StillFresh(n)
             /\ GoesOn("check", n) /\ UNCHANGED bundles
    <3>1. run.bundle \in Discard =>
            bundles[run.bundle].premise[n] = run.memory[n].generation
      BY <2>2, FoldersOK DEF StillFresh
    <3>2. ItemHolds' /\ LookHolds'
      BY <1>1, <2>1, <2>2, <3>1, GoesOnShows DEF ItemHolds, LookHolds
    <3> QED
      BY <1>2, <1>3, <1>4, <1>6, <2>1, <2>2, <3>2, RecordKept
  <2>3. CASE Becomes(n, "stale") /\ run' = Past(n)
    <3>1. BundlesGoOn
      BY <1>1, <2>1, <2>3, BecomesKeeps
    <3> QED
      BY <1>2, <1>4, <1>5, <2>1, <2>3, <3>1, RecordKept
  <2> QED
    BY <1>11, <2>2, <2>3 DEF Check
<1>12. CASE Put
  <2>1. /\ run # None /\ run.step = "check" /\ run' = Past(run.name)
        /\ Becomes(run.name, "stale") \/ Becomes(run.name, "applied")
        /\ \/ UNCHANGED server
           \/ server[run.name] # "gone" /\ server' = [server EXCEPT ![run.name] = "holds"]
        /\ UNCHANGED <<lives, rows>>
    BY <1>12 DEF Put, Becoming, There
  <2>2. LivesHold'
    BY <1>1, <2>1 DEF LivesHold, TypeOK
  <2>3. BundlesGoOn
    BY <1>1, <2>1, BecomesKeeps
  <2> QED
    BY <1>1, <1>2, <1>5, <2>1, <2>2, <2>3, RecordKept
<1>13. CASE DiscardUnmade \/ NoteDeleted
  <2> DEFINE there == rows[run.name].exists /\ ~run.memory[run.name].exists
  <2>1. /\ run # None /\ run.step \in {"check", "deleted"} /\ run' = Past(run.name)
        /\ rows' = DiscardedRow(run.name)
        /\ Becomes(run.name, "applied")
        /\ UNCHANGED <<server, lives>>
    BY <1>13 DEF DiscardUnmade, NoteDeleted
  <2>2. rows' = [rows EXCEPT ![run.name] =
                   [rows[run.name] EXCEPT !.exists = there, !.discarded = TRUE]]
    <3>1. rows[run.name] \in Row
      BY <1>1, <2>1 DEF TypeOK
    <3>2. [rows[run.name] EXCEPT !.discarded = TRUE, !.exists = there]
            = [rows[run.name] EXCEPT !.exists = there, !.discarded = TRUE]
      BY <3>1 DEF Row
    <3> QED
      BY <2>1, <3>2 DEF DiscardedRow
  <2>3. there \in BOOLEAN
    OBVIOUS
  <2> HIDE DEF there
  <2>4. RowsGoOn
    BY <1>1, <2>1, <2>2, <2>3, NoteKeeps
  <2>5. BundlesGoOn
    BY <1>1, <2>1, BecomesKeeps
  <2> QED
    BY <1>1, <1>4, <1>5, <2>1, <2>4, <2>5, RecordKept
\* What was asked of the server, and the item given up for the answer.
<1>14. ASSUME run # None, run.step \in {"check", "under"}, UNCHANGED <<server, lives, rows>>,
              Becomes(run.name, "stale"), run' = Past(run.name)
       PROVE  FoldersInv'
  <2>1. BundlesGoOn
    BY <1>1, <1>14, BecomesKeeps
  <2> QED
    BY <1>1, <1>2, <1>4, <1>5, <1>14, <2>1, RecordKept
<1>15. CASE Look
  <2>1. /\ run # None /\ run.step = "check" /\ run.bundle \in Discard
        /\ run.memory[run.name].exists
        /\ UNCHANGED <<server, lives, rows>>
    BY <1>15 DEF Look
  <2>2. CASE Empty(run.name) /\ GoesOn("under", run.name) /\ UNCHANGED bundles
    <3>1. ItemHolds' /\ LookHolds'
      BY <1>1, <2>1, <2>2, GoesOnShows DEF ItemHolds, LookHolds, Empty
    <3> QED
      BY <1>2, <1>3, <1>4, <1>6, <2>1, <2>2, <3>1, RecordKept
  <2> QED
    BY <1>14, <1>15, <2>1, <2>2 DEF Look
<1>16. CASE LookUnder
  <2>1. /\ run # None /\ run.step = "under" /\ UNCHANGED <<server, lives, rows>>
    BY <1>16 DEF LookUnder
  <2>2. CASE Children(run.name) = {} /\ GoesOn("delete", run.name) /\ UNCHANGED bundles
    <3>1. ItemHolds' /\ LookHolds'
      BY <1>1, <2>1, <2>2, GoesOnShows DEF ItemHolds, LookHolds, Children, There
    <3> QED
      BY <1>2, <1>3, <1>4, <1>6, <2>1, <2>2, <3>1, RecordKept
  <2> QED
    BY <1>14, <1>16, <2>1, <2>2 DEF LookUnder
<1>17. CASE Delete
  <2>1. /\ run # None /\ run.step = "delete" /\ GoesOn("deleted", run.name)
        /\ server' = [server EXCEPT ![run.name] = "gone"]
        /\ UNCHANGED <<lives, rows, bundles>>
    BY <1>17 DEF Delete, Goes, Becoming
  <2>2. LivesHold'
    BY <1>1, <2>1 DEF LivesHold, TypeOK
  <2>3. ItemHolds' /\ LookHolds'
    BY <1>1, <2>1, GoesOnShows DEF ItemHolds, LookHolds
  <2> QED
    BY <1>2, <1>3, <1>6, <2>1, <2>2, <2>3, RecordKept
<1>18. CASE Finish
  <2> DEFINE row == [bundles[run.bundle] EXCEPT !.status = "closed"]
  <2>1. /\ run # None /\ run' = None
        /\ bundles' = [bundles EXCEPT ![run.bundle] = row]
        /\ UNCHANGED <<server, lives, rows>>
    BY <1>18 DEF Finish
  <2>2. bundles[run.bundle] \in BundleRow
    BY <1>1, <2>1 DEF TypeOK
  <2>3. /\ row \in BundleRow
        /\ row.premise = bundles[run.bundle].premise
        /\ row.saw = bundles[run.bundle].saw
        /\ row.items = bundles[run.bundle].items
    BY <2>2 DEF BundleRow
  <2> HIDE DEF row
  <2>4. bundles'[run.bundle] = row /\ \A o \in Bundle \ {run.bundle} : bundles'[o] = bundles[o]
    BY <1>1, <2>1 DEF TypeOK
  <2>5. BundlesGoOn
    BY <1>1, <2>1, <2>3, <2>4, NoneIsNoRow DEF BundlesGoOn
  <2> QED
    BY <1>2, <1>4, <1>5, <2>1, <2>5, RecordKept
<1> QED
  BY <1>7, <1>8, <1>9, <1>10, <1>11, <1>12, <1>13, <1>15, <1>16, <1>17, <1>18 DEF Start, Apply

-----------------------------------------------------------------------------
(* That a move finds its folder                                            *)

\* What was there, or known to have gone behind the cache's back, is so still.
AccountedGoesOn == \A n \in Name : Accounted(n) => Accounted(n)'

LEMMA OneFolderEach ==
  ASSUME BundlesGoOn, MovesHold
  PROVE  \A b \in Move, n, m \in Name :
           (/\ bundles[b] # None
            /\ bundles[b].items[n] # "none"
            /\ bundles[b].items[m] # "none")' => n = m
BY DEF BundlesGoOn, MovesHold, Bundle

\* A run that goes on with the same step, of the same bundle as it was.
LEMMA SameStepKeeps ==
  ASSUME FoldersInv, MovesHold, BundlesGoOn, AccountedGoesOn,
         run' # None => /\ run # None
                       /\ run'.bundle = run.bundle
                       /\ run'.step = run.step
                       /\ run'.name = run.name,
         run # None /\ run.bundle \in Move =>
           /\ bundles'[run.bundle].status = bundles[run.bundle].status
           /\ \A n \in Name : bundles'[run.bundle].items[n] = "accepted" =>
                bundles[run.bundle].items[n] = "accepted"
  PROVE  MovesHold'
<1>1. run # None /\ run.step = "made" => run.name \in Name
  BY DEF FoldersInv, ItemHolds
<1> QED
  BY <1>1, OneFolderEach DEF MovesHold, AccountedGoesOn

LEMMA OthersTell == FoldersInv /\ RowsTell /\ MovesHold /\ Others => RowsTell' /\ MovesHold'
<1> SUFFICES ASSUME FoldersInv, RowsTell, MovesHold, Others PROVE RowsTell' /\ MovesHold'
  OBVIOUS
<1>0. TypeOK
  BY DEF FoldersInv
<1>1. ASSUME NEW what, NEW steps, Meanwhile(what, steps)
      PROVE  /\ rows' = rows
             /\ run' # None => /\ run # None
                               /\ run'.bundle = run.bundle
                               /\ run'.step = run.step
                               /\ run'.name = run.name
  <2>1. CASE run = None
    BY <1>1, <2>1 DEF Meanwhile
  <2>2. CASE run # None
    <3>1. run \in RunRow
      BY <1>0, <2>2 DEF TypeOK
    <3> QED
      BY <1>1, <2>2, <3>1 DEF Meanwhile, RunRow
  <2> QED
    BY <2>1, <2>2
<1>2. /\ \E what, steps : Meanwhile(what, steps)
      /\ AccountedGoesOn
      /\ \/ bundles' = bundles
         \/ \E b \in Move : bundles[b] # None /\ bundles' = [bundles EXCEPT ![b].alive = FALSE]
  BY <1>0 DEF Others, MakeFolder, DropFolder, Arrive, TakeOut, Depart, Comes, Goes, Becoming,
              There, AccountedGoesOn, Accounted, TypeOK
<1>3. /\ BundlesGoOn
      /\ \A b \in Bundle : bundles[b] # None =>
           bundles'[b].status = bundles[b].status /\ bundles'[b].items = bundles[b].items
  <2>1. CASE bundles' = bundles
    BY <2>1 DEF BundlesGoOn
  <2>2. ASSUME NEW b \in Move, bundles[b] # None,
               bundles' = [bundles EXCEPT ![b].alive = FALSE]
        PROVE  <1>3!1 /\ <1>3!2
    <3> DEFINE row == [bundles[b] EXCEPT !.alive = FALSE]
    <3>1. b \in Bundle /\ bundles[b] \in BundleRow
      BY <1>0, <2>2 DEF TypeOK, Bundle
    <3>2. /\ row \in BundleRow
          /\ row.premise = bundles[b].premise /\ row.saw = bundles[b].saw
          /\ row.items = bundles[b].items /\ row.status = bundles[b].status
      BY <3>1 DEF BundleRow
    <3> HIDE DEF row
    <3>3. bundles'[b] = row /\ \A o \in Bundle \ {b} : bundles'[o] = bundles[o]
      BY <1>0, <2>2, <3>1 DEF TypeOK, row
    <3> QED
      BY <2>2, <3>1, <3>2, <3>3, NoneIsNoRow DEF BundlesGoOn
  <2> QED
    BY <1>2, <2>1, <2>2
<1>4. RowsTell'
  BY <1>1, <1>2 DEF RowsTell, AccountedGoesOn
<1>5. run # None => run.bundle \in Bundle /\ bundles[run.bundle] # None
  BY <1>0 DEF FoldersInv, ItemHolds, TypeOK, RunRow
<1>6. MovesHold'
  BY <1>1, <1>2, <1>3, <1>5, SameStepKeeps
<1> QED
  BY <1>4, <1>6

LEMMA SyncsTell == FoldersInv /\ RowsTell /\ MovesHold /\ Syncs => RowsTell' /\ MovesHold'
<1> SUFFICES ASSUME FoldersInv, RowsTell, MovesHold, Syncs PROVE RowsTell' /\ MovesHold'
  OBVIOUS
<1>0. TypeOK
  BY DEF FoldersInv
<1>1. \A n \in Name : rows[n] # None => rows[n] \in Row
  BY <1>0 DEF TypeOK
<1>2. run # None => /\ run.bundle \in Bundle
                    /\ bundles[run.bundle] # None
                    /\ run.step = "made" => run.name \in Name
  BY <1>0 DEF FoldersInv, ItemHolds, TypeOK, RunRow
<1>3. AccountedGoesOn
  BY DEF Syncs, Discover, SyncFolder, AccountedGoesOn, Accounted
<1>4. CASE Discover
  <2>1. \A n \in Name :
          rows'[n] = IF ~There(n) THEN rows[n]
                     ELSE IF ~Known(n) THEN NewRow(TRUE)
                     ELSE [rows[n] EXCEPT !.exists = TRUE, !.discarded = FALSE]
    BY <1>4 DEF Discover
  <2>2. RowsTell'
    BY <1>3, <1>4, <2>1 DEF Discover, RowsTell, AccountedGoesOn, Accounted, There
  <2>3. BundlesGoOn /\ bundles' = bundles /\ run' = run
    BY <1>4 DEF Discover, BundlesGoOn
  <2>4. MovesHold'
    BY <1>2, <1>3, <2>3, SameStepKeeps
  <2> QED
    BY <2>2, <2>4
<1>5. ASSUME NEW n \in Name, SyncFolder(n) PROVE RowsTell' /\ MovesHold'
  <2>1. \A m \in Name : rows[m] # None => rows'[m].exists = rows[m].exists
    <3> SUFFICES ASSUME NEW m \in Name, rows[m] # None
                 PROVE  rows'[m].exists = rows[m].exists
      OBVIOUS
    <3>1. rows[m] \in Row
      BY <1>1
    <3>2. \/ rows'[m] = rows[m]
          \/ rows'[m] = [rows[m] EXCEPT !.held = (server[n] = "holds"), !.life = lives[n],
                           !.generation = IF Broken(n) THEN @ + 1 ELSE @]
      BY <1>0, <1>5 DEF SyncFolder, TypeOK
    <3> QED
      BY <3>1, <3>2 DEF Row
  <2>2. \A m \in Name : rows'[m] # None => rows[m] # None
    BY <1>0, <1>5 DEF SyncFolder, Known, TypeOK
  <2>3. RowsTell'
    BY <1>3, <2>1, <2>2 DEF RowsTell, AccountedGoesOn
  <2>4. \A b \in Move : bundles'[b] = bundles[b]
    BY <1>5, FoldersOK DEF SyncFolder, Killed, Bundle
  <2>5. run' = run
    BY <1>5 DEF SyncFolder
  <2>6. MovesHold'
    <3>1. \A b \in Move, k, m \in Name :
            (/\ bundles[b] # None
             /\ bundles[b].items[k] # "none"
             /\ bundles[b].items[m] # "none")' => k = m
      BY <2>4 DEF MovesHold
    <3> QED
      BY <1>2, <1>3, <2>4, <2>5, <3>1 DEF MovesHold, AccountedGoesOn
  <2> QED
    BY <2>3, <2>6
<1> QED
  BY <1>4, <1>5 DEF Syncs

LEMMA AgreeTells == FoldersInv /\ RowsTell /\ MovesHold /\ Agree => RowsTell' /\ MovesHold'
<1> SUFFICES ASSUME FoldersInv, RowsTell, MovesHold, Agree PROVE RowsTell' /\ MovesHold'
  OBVIOUS
<1>0. TypeOK
  BY DEF FoldersInv
<1>1. \A n \in Name : rows[n] # None => rows[n] \in Row
  BY <1>0 DEF TypeOK
<1>2. run # None => /\ run.bundle \in Bundle
                    /\ bundles[run.bundle] # None
                    /\ run.step = "made" => run.name \in Name
  BY <1>0 DEF FoldersInv, ItemHolds, TypeOK, RunRow
<1>3. /\ Free /\ run' = run /\ UNCHANGED <<server, vanished>>
  BY DEF Agree, ProposeMove, ProposeDiscard, Accept
\* The run under way, if there is one, has its bundle as it was.
<1>4. ASSUME run # None => bundles'[run.bundle] = bundles[run.bundle],
             \A b \in Move, n, m \in Name :
               (/\ bundles[b] # None
                /\ bundles[b].items[n] # "none"
                /\ bundles[b].items[m] # "none")' => n = m
      PROVE  MovesHold'
  BY <1>2, <1>3, <1>4 DEF MovesHold, Accounted
<1>5. ASSUME NEW b \in Bundle, bundles[b] = None, NEW names \in SUBSET Name,
             Proposed(b, names), b \in Move => \E n \in Name : names = {n}
      PROVE  /\ run # None => bundles'[run.bundle] = bundles[run.bundle]
             /\ \A o \in Move, n, m \in Name :
                  (/\ bundles[o] # None
                   /\ bundles[o].items[n] # "none"
                   /\ bundles[o].items[m] # "none")' => n = m
  <2>1. /\ \A o \in Bundle \ {b} : bundles'[o] = bundles[o]
        /\ \A n \in Name : bundles'[b].items[n] # "none" <=> n \in names
    BY <1>0, <1>5 DEF Proposed, TypeOK
  <2>2. \A o \in Move : o \in Bundle
    BY DEF Bundle
  <2> QED
    BY <1>2, <1>5, <2>1, <2>2 DEF MovesHold
<1>6. ASSUME NEW b \in Move, NEW n \in Name, ProposeMove(b, n)
      PROVE  RowsTell' /\ MovesHold'
  <2>1. /\ rows'[n] = Target(n)
        /\ \A m \in Name \ {n} : rows'[m] = rows[m]
        /\ b \in Bundle /\ bundles[b] = None /\ Proposed(b, {n})
    BY <1>0, <1>6 DEF ProposeMove, TypeOK, Bundle
  <2>2. \/ rows[n] # None /\ Target(n) = rows[n]
        \/ Target(n).exists = FALSE
    <3>1. CASE ~Known(n)
      BY <3>1 DEF Target, Known, NewRow
    <3>2. CASE Known(n) /\ ~rows[n].discarded
      BY <3>2 DEF Target, Known
    <3>3. CASE Known(n) /\ rows[n].discarded
      <4>1. rows[n] \in Row
        BY <1>1, <3>3 DEF Known
      <4>2. Target(n) = [rows[n] EXCEPT !.discarded = FALSE, !.exists = FALSE, !.held = FALSE,
                                        !.generation = @ + 1]
        BY <3>3 DEF Target, Known
      <4>3. Target(n).exists = FALSE
        BY <4>1, <4>2 DEF Row
      <4> QED
        BY <4>1, <4>3
    <3> QED
      BY <3>1, <3>2, <3>3
  <2>3. RowsTell'
    BY <1>3, <2>1, <2>2 DEF RowsTell, Accounted
  <2> QED
    BY <1>4, <1>5, <2>1, <2>3
<1>7. ASSUME NEW b \in Discard, NEW names \in SUBSET Name, ProposeDiscard(b, names)
      PROVE  RowsTell' /\ MovesHold'
  <2>1. b \in Bundle /\ b \notin Move /\ bundles[b] = None /\ Proposed(b, names) /\ rows' = rows
    BY <1>7, FoldersOK DEF ProposeDiscard, Bundle
  <2>2. RowsTell'
    BY <1>3, <2>1 DEF RowsTell, Accounted
  <2> QED
    BY <1>4, <1>5, <2>1, <2>2
<1>8. ASSUME NEW b \in Bundle, Accept(b) PROVE RowsTell' /\ MovesHold'
  <2> DEFINE row ==
       [bundles[b] EXCEPT
          !.items = [n \in Name |->
             IF @[n] # "proposed" THEN @[n]
             ELSE IF Fresh(b, n) THEN "accepted" ELSE "stale"],
          !.status = IF \E n \in Items(b, "proposed") : Fresh(b, n)
                     THEN "accepted" ELSE "closed"]
  <2>1. /\ bundles[b] \in BundleRow /\ bundles' = [bundles EXCEPT ![b] = row]
        /\ bundles[b] # None /\ bundles[b].status = "proposed" /\ rows' = rows
    BY <1>0, <1>8 DEF Accept, TypeOK
  <2>2. \A n \in Name : row.items[n] # "none" <=> bundles[b].items[n] # "none"
    BY <2>1 DEF BundleRow
  <2> HIDE DEF row
  <2>3. bundles'[b] = row /\ \A o \in Bundle \ {b} : bundles'[o] = bundles[o]
    BY <1>0, <2>1 DEF TypeOK
  <2>4. RowsTell'
    BY <1>3, <2>1 DEF RowsTell, Accounted
  <2>5. \A o \in Move, n, m \in Name :
          (/\ bundles[o] # None
           /\ bundles[o].items[n] # "none"
           /\ bundles[o].items[m] # "none")' => n = m
    BY <2>1, <2>2, <2>3 DEF MovesHold, Bundle
  <2>6. run # None /\ run.bundle \in Move => bundles'[run.bundle] = bundles[run.bundle]
    BY <1>2, <2>1, <2>3 DEF MovesHold
  <2>7. MovesHold'
    BY <1>2, <1>3, <2>1, <2>5, <2>6 DEF MovesHold, Accounted
  <2> QED
    BY <2>4, <2>7
<1> QED
  BY <1>6, <1>7, <1>8 DEF Agree

\* What becomes of a bundle's items under its own run.
LEMMA BecomesTells ==
  ASSUME TypeOK, run # None, bundles[run.bundle] # None,
         NEW n \in Name, NEW status \in {"applied", "stale"}, Becomes(n, status)
  PROVE  /\ bundles'[run.bundle].status = bundles[run.bundle].status
         /\ bundles'[run.bundle].items = [bundles[run.bundle].items EXCEPT ![n] = status]
<1>1. run.bundle \in Bundle /\ bundles[run.bundle] \in BundleRow
  BY DEF TypeOK, RunRow
<1>2. bundles'[run.bundle] = [bundles[run.bundle] EXCEPT !.items[n] = status]
  BY <1>1 DEF Becomes, TypeOK
<1> QED
  BY <1>1, <1>2 DEF BundleRow

LEMMA RunTells ==
  FoldersInv /\ RowsTell /\ MovesHold /\ (Start \/ Apply \/ CutShort) => RowsTell' /\ MovesHold'
<1> SUFFICES ASSUME FoldersInv, RowsTell, MovesHold, Start \/ Apply \/ CutShort
             PROVE  RowsTell' /\ MovesHold'
  OBVIOUS
<1>0. TypeOK
  BY DEF FoldersInv
<1>1. run # None => /\ run.bundle \in Bundle
                    /\ bundles[run.bundle] # None
                    /\ run.step \in {"made", "check", "under", "delete", "deleted"} =>
                         /\ run.name \in Name
                         /\ bundles[run.bundle].items[run.name] # "none"
                         /\ rows[run.name] # None
                    /\ run.step \in {"under", "delete", "deleted"} =>
                         run.bundle \notin Move /\ run.memory[run.name].exists
  BY <1>0, FoldersOK DEF FoldersInv, TypeOK, RunRow, ItemHolds, ItemsHold
<1>2. bundles' = bundles => BundlesGoOn
  BY DEF BundlesGoOn
<1>3. rows' = rows /\ AccountedGoesOn => RowsTell'
  BY DEF RowsTell, AccountedGoesOn
<1>4. UNCHANGED <<server, vanished>> => AccountedGoesOn
  BY DEF AccountedGoesOn, Accounted
\* With no run left, only that a move has one folder is to be shown.
<1>5. ASSUME BundlesGoOn, run' = None
      PROVE  MovesHold'
  BY <1>5, OneFolderEach DEF MovesHold
\* From one item to the next of the same run.
<1>6. ASSUME BundlesGoOn, run # None, run'.bundle = run.bundle,
             run'.step \in {"between", "check", "under", "delete", "deleted"},
             run.bundle \in Move =>
               /\ bundles'[run.bundle].status = "accepted"
               /\ \A n \in Name : bundles'[run.bundle].items[n] = "accepted" => Accounted(n)'
      PROVE  MovesHold'
  BY <1>6, OneFolderEach DEF MovesHold
<1>7. ASSUME NEW b \in Bundle, StartRun(b) PROVE RowsTell' /\ MovesHold'
  <2>1. /\ run' # None => run'.bundle = b
        /\ UNCHANGED <<server, rows, bundles, vanished>>
        /\ bundles[b].status = "accepted"
        /\ run'.step = IF b \in Move /\ \E n \in Items(b, "accepted") : ~rows[n].exists
                       THEN "make" ELSE "between"
    BY <1>7 DEF StartRun
  <2>2. run'.step \in {"make", "between"}
    BY <2>1
  <2>3. run'.step = "make" => b \in Move
    BY <2>1
  <2>4. run'.step = "between" /\ b \in Move =>
          \A n \in Name : bundles[b].items[n] = "accepted" => Accounted(n)
    <3> SUFFICES ASSUME run'.step = "between", b \in Move,
                        NEW n \in Name, bundles[b].items[n] = "accepted"
                 PROVE  Accounted(n)
      OBVIOUS
    <3>1. rows[n].exists
      BY <2>1 DEF Items
    <3>2. rows[n] # None
      BY <1>7 DEF FoldersInv, ItemsHold, StartRun
    <3> QED
      BY <3>1, <3>2 DEF RowsTell
  <2>5. MovesHold'
    BY <1>2, <2>1, <2>2, <2>3, <2>4, OneFolderEach DEF MovesHold, Accounted
  <2> QED
    BY <1>3, <1>4, <2>1, <2>5
<1>8. CASE NotMade \/ NotDeleted \/ CutShort
  BY <1>2, <1>3, <1>4, <1>5, <1>8 DEF NotMade, NotDeleted, CutShort
<1>9. CASE Make
  <2>1. PICK n \in Items(run.bundle, "accepted") :
          /\ \/ server[n] # "gone" /\ UNCHANGED <<server, vanished>>
             \/ server' = [server EXCEPT ![n] = "empty"] /\ vanished' = vanished \ {n}
          /\ GoesOn("made", n)
          /\ run # None /\ run.step = "make"
          /\ UNCHANGED <<rows, bundles>>
    BY <1>9 DEF Make, Comes, Becoming, There
  <2>2. n \in Name
    BY DEF Items
  <2>3. AccountedGoesOn /\ Accounted(n)'
    BY <1>0, <2>1, <2>2 DEF AccountedGoesOn, Accounted, TypeOK
  <2>4. run'.bundle = run.bundle /\ run'.step = "made" /\ run'.name = n
    BY <1>0, <2>1, GoesOnShows
  <2>5. MovesHold'
    BY <1>2, <2>1, <2>3, <2>4, OneFolderEach DEF MovesHold
  <2> QED
    BY <1>3, <2>1, <2>3, <2>5
<1>10. CASE NoteMade
  <2> DEFINE row == [rows[run.name] EXCEPT !.exists = TRUE, !.discarded = FALSE]
  <2>1. /\ run # None /\ run.step = "made" /\ GoesOn("between", None)
        /\ rows' = [rows EXCEPT ![run.name] = row]
        /\ UNCHANGED <<server, vanished, bundles>>
    BY <1>10 DEF NoteMade
  <2>2. rows[run.name] \in Row
    BY <1>0, <1>1, <2>1 DEF TypeOK
  <2>3. row.exists = TRUE /\ row.discarded = FALSE
    BY <2>2 DEF Row
  <2> HIDE DEF row
  <2>4. rows'[run.name] = row /\ \A n \in Name \ {run.name} : rows'[n] = rows[n]
    BY <1>0, <1>1, <2>1 DEF TypeOK
  <2>5. run.bundle \in Move /\ Accounted(run.name)
    BY <2>1 DEF MovesHold
  <2>6. RowsTell'
    BY <1>1, <2>1, <2>3, <2>4, <2>5 DEF RowsTell, Accounted
  <2>7. \A n \in Name : bundles[run.bundle].items[n] = "accepted" => n = run.name
    BY <1>1, <2>1, <2>5 DEF MovesHold
  <2>8. run'.bundle = run.bundle /\ run'.step = "between"
    BY <1>0, <2>1, GoesOnShows
  <2>9. \A n \in Name : bundles'[run.bundle].items[n] = "accepted" => Accounted(n)'
    BY <2>1, <2>5, <2>7 DEF Accounted
  <2>10. MovesHold'
    BY <1>2, <1>6, <2>1, <2>8, <2>9 DEF MovesHold
  <2> QED
    BY <2>6, <2>10
\* Items come to an end, none comes to be accepted.
<1>11. ASSUME run # None, run.step \in {"between", "check", "under", "deleted"},
              NEW n \in Name, bundles[run.bundle].items[n] # "none",
              NEW status \in {"applied", "stale"}, Becomes(n, status)
       PROVE  /\ BundlesGoOn
              /\ bundles'[run.bundle].status = bundles[run.bundle].status
              /\ \A m \in Name : bundles'[run.bundle].items[m] = "accepted" =>
                   bundles[run.bundle].items[m] = "accepted"
  <2>1. bundles[run.bundle].items \in [Name -> {"none", "proposed", "accepted", "applied", "stale"}]
    BY <1>0, <1>1, <1>11 DEF TypeOK, BundleRow
  <2>2. BundlesGoOn
    BY <1>0, <1>1, <1>11, BecomesKeeps
  <2>3. /\ bundles'[run.bundle].status = bundles[run.bundle].status
        /\ bundles'[run.bundle].items = [bundles[run.bundle].items EXCEPT ![n] = status]
    BY <1>0, <1>1, <1>11, BecomesTells
  <2>4. status # "accepted"
    OBVIOUS
  <2>5. \A m \in Name : bundles'[run.bundle].items[m] =
          IF m = n THEN status ELSE bundles[run.bundle].items[m]
    BY <2>1, <2>3
  <2> QED
    BY <2>2, <2>3, <2>4, <2>5
<1>12. ASSUME NEW n \in Name, Check(n) PROVE RowsTell' /\ MovesHold'
  <2>1. /\ run # None /\ run.step = "between" /\ bundles[run.bundle].items[n] # "none"
        /\ UNCHANGED <<server, vanished, rows>>
    BY <1>12 DEF Check, Todo, FoldersInv, MemoryHolds
  <2>2. CASE GoesOn("check", n) /\ UNCHANGED bundles
    <3>1. run'.bundle = run.bundle /\ run'.step = "check"
      BY <1>0, <2>1, <2>2, GoesOnShows
    <3>2. MovesHold'
      BY <1>2, <1>6, <2>1, <2>2, <3>1 DEF MovesHold, Accounted
    <3> QED
      BY <1>3, <1>4, <2>1, <3>2
  <2>3. CASE Becomes(n, "stale") /\ run' = Past(n)
    <3>1. /\ BundlesGoOn
          /\ bundles'[run.bundle].status = bundles[run.bundle].status
          /\ \A m \in Name : bundles'[run.bundle].items[m] = "accepted" =>
               bundles[run.bundle].items[m] = "accepted"
      BY <1>11, <2>1, <2>3
    <3>2. run'.bundle = run.bundle /\ run'.step = "between"
      BY <1>0, <2>1, <2>3, PastShows
    <3>3. MovesHold'
      BY <1>6, <2>1, <3>1, <3>2 DEF MovesHold, Accounted
    <3> QED
      BY <1>3, <1>4, <2>1, <3>3
  <2> QED
    BY <1>12, <2>2, <2>3 DEF Check
<1>13. CASE Put
  <2>1. /\ run # None /\ run.step = "check" /\ run' = Past(run.name)
        /\ Becomes(run.name, "stale") \/ Becomes(run.name, "applied")
        /\ \/ UNCHANGED server
           \/ server[run.name] # "gone" /\ server' = [server EXCEPT ![run.name] = "holds"]
        /\ UNCHANGED <<vanished, rows>>
    BY <1>13 DEF Put, Becoming, There
  <2>2. AccountedGoesOn
    BY <1>0, <1>1, <2>1 DEF AccountedGoesOn, Accounted, TypeOK
  <2>3. /\ BundlesGoOn
        /\ bundles'[run.bundle].status = bundles[run.bundle].status
        /\ \A m \in Name : bundles'[run.bundle].items[m] = "accepted" =>
             bundles[run.bundle].items[m] = "accepted"
    BY <1>1, <1>11, <2>1
  <2>4. run'.bundle = run.bundle /\ run'.step = "between"
    BY <1>0, <1>1, <2>1, PastShows
  <2>5. MovesHold'
    BY <1>6, <2>1, <2>2, <2>3, <2>4 DEF MovesHold, AccountedGoesOn
  <2> QED
    BY <1>3, <2>1, <2>2, <2>5
\* What is done for a discard is done with no move's run under way.
<1>14. ASSUME BundlesGoOn, run # None, run.bundle \notin Move,
              \/ \E step \in {"under", "delete", "deleted"} : GoesOn(step, run.name)
              \/ \E n \in Name : run' = Past(n)
       PROVE  MovesHold'
  <2>1. /\ run'.bundle = run.bundle
        /\ run'.step \in {"between", "check", "under", "delete", "deleted"}
    BY <1>0, <1>14, GoesOnShows, PastShows
  <2> QED
    BY <1>6, <1>14, <2>1
<1>15. CASE DiscardUnmade \/ NoteDeleted
  <2>1. /\ run # None /\ run.step \in {"check", "deleted"} /\ run' = Past(run.name)
        /\ rows' = DiscardedRow(run.name)
        /\ Becomes(run.name, "applied")
        /\ server' = server /\ vanished \subseteq vanished' \cup {run.name}
    BY <1>15 DEF DiscardUnmade, NoteDeleted
  <2>2. run.bundle \notin Move
    BY <1>1, <1>15, FoldersOK DEF DiscardUnmade, NoteDeleted
  <2>3. run.name \in Name /\ rows[run.name] # None /\ rows[run.name] \in Row
    BY <1>0, <1>1, <2>1 DEF TypeOK
  <2>4. /\ rows'[run.name].exists = (rows[run.name].exists /\ ~run.memory[run.name].exists)
        /\ \A n \in Name \ {run.name} : rows'[n] = rows[n]
    <3>1. rows' = [rows EXCEPT ![run.name] =
                     [rows[run.name] EXCEPT !.discarded = TRUE,
                                            !.exists = @ /\ ~run.memory[run.name].exists]]
      BY <2>1 DEF DiscardedRow
    <3>2. rows'[run.name] = [rows[run.name] EXCEPT !.discarded = TRUE,
                               !.exists = @ /\ ~run.memory[run.name].exists]
      BY <1>0, <2>3, <3>1 DEF TypeOK
    <3>3. \A n \in Name \ {run.name} : rows'[n] = rows[n]
      BY <1>0, <2>3, <3>1 DEF TypeOK
    <3> QED
      BY <2>3, <3>2, <3>3 DEF Row
  \* A folder that was removed is not there; one that was never asked for may be.
  <2>5. rows'[run.name].exists => rows[run.name].exists /\ vanished' = vanished
    <3>1. CASE DiscardUnmade
      BY <2>4, <3>1 DEF DiscardUnmade
    <3>2. CASE NoteDeleted
      BY <1>1, <2>4, <3>2 DEF NoteDeleted
    <3> QED
      BY <1>15, <3>1, <3>2
  <2>6. RowsTell'
    <3> SUFFICES ASSUME NEW n \in Name, rows'[n] # None, rows'[n].exists
                 PROVE  Accounted(n)'
      BY DEF RowsTell
    <3>1. CASE n = run.name
      BY <2>1, <2>3, <2>5, <3>1 DEF RowsTell, Accounted
    <3>2. CASE n # run.name
      BY <2>1, <2>4, <3>2 DEF RowsTell, Accounted
    <3> QED
      BY <3>1, <3>2
  <2>7. BundlesGoOn
    BY <1>1, <1>11, <2>1
  <2> QED
    BY <1>14, <2>1, <2>2, <2>3, <2>6, <2>7
<1>16. CASE Look \/ LookUnder
  <2>1. /\ run # None /\ run.step \in {"check", "under"} /\ run.bundle \notin Move
        /\ UNCHANGED <<server, vanished, rows>>
    BY <1>1, <1>16, FoldersOK DEF Look, LookUnder
  <2>2. \/ UNCHANGED bundles /\ \E step \in {"under", "delete"} : GoesOn(step, run.name)
        \/ Becomes(run.name, "stale") /\ run' = Past(run.name)
    BY <1>16 DEF Look, LookUnder
  <2>3. BundlesGoOn
    BY <1>1, <1>2, <1>11, <2>1, <2>2
  <2>4. MovesHold'
    BY <1>1, <1>14, <2>1, <2>2, <2>3
  <2> QED
    BY <1>3, <1>4, <2>1, <2>4
<1>17. CASE Delete
  <2>1. /\ run # None /\ run.step = "delete" /\ GoesOn("deleted", run.name)
        /\ server' = [server EXCEPT ![run.name] = "gone"]
        /\ vanished' = vanished \cup {run.name}
        /\ UNCHANGED <<rows, bundles>>
    BY <1>17 DEF Delete, Goes, Becoming
  <2>2. AccountedGoesOn
    BY <1>0, <1>1, <2>1 DEF AccountedGoesOn, Accounted, TypeOK
  <2> QED
    BY <1>1, <1>2, <1>3, <1>14, <2>1, <2>2
<1>18. CASE Finish
  <2> DEFINE row == [bundles[run.bundle] EXCEPT !.status = "closed"]
  <2>1. /\ run # None /\ run' = None
        /\ bundles' = [bundles EXCEPT ![run.bundle] = row]
        /\ UNCHANGED <<server, vanished, rows>>
    BY <1>18 DEF Finish
  <2>2. bundles[run.bundle] \in BundleRow
    BY <1>0, <1>1, <2>1 DEF TypeOK
  <2>3. /\ row \in BundleRow
        /\ row.premise = bundles[run.bundle].premise
        /\ row.saw = bundles[run.bundle].saw
        /\ row.items = bundles[run.bundle].items
    BY <2>2 DEF BundleRow
  <2> HIDE DEF row
  <2>4. bundles'[run.bundle] = row /\ \A o \in Bundle \ {run.bundle} : bundles'[o] = bundles[o]
    BY <1>0, <1>1, <2>1 DEF TypeOK
  <2>5. BundlesGoOn
    BY <1>1, <2>1, <2>3, <2>4, NoneIsNoRow DEF BundlesGoOn
  <2> QED
    BY <1>3, <1>4, <1>5, <2>1, <2>5
<1> QED
  BY <1>7, <1>8, <1>9, <1>10, <1>12, <1>13, <1>15, <1>16, <1>17, <1>18 DEF Start, Apply

\* An accepted item of a move is given up for its message, or because the
\* folder went without a row's being told.
LEMMA MoveGivesUp ==
  ASSUME FoldersInv, RowsTell, MovesHold, [Next]_vars,
         NEW b \in Move, NEW n \in Name,
         bundles[b] # None, bundles'[b] # None,
         bundles[b].items[n] = "accepted", bundles'[b].items[n] = "stale",
         bundles[b].alive
  PROVE  n \in vanished
<1>0. TypeOK /\ b \in Bundle /\ b \notin Discard /\ bundles[b] \in BundleRow
  BY FoldersOK DEF FoldersInv, TypeOK, Bundle
<1>1. bundles'[b] # bundles[b] /\ bundles'[b].items # bundles[b].items
  OBVIOUS
<1>2. ~Others
  <2>1. ASSUME NEW o \in Move, Depart(o) PROVE FALSE
    <3>1. bundles'[b] = bundles[b] \/ bundles'[b] = [bundles[b] EXCEPT !.alive = FALSE]
      BY <1>0, <2>1 DEF Depart, TypeOK, Bundle
    <3>2. [bundles[b] EXCEPT !.alive = FALSE].items = bundles[b].items
      BY <1>0 DEF BundleRow
    <3> QED
      BY <1>1, <3>1, <3>2
  <2> QED
    BY <1>1, <2>1 DEF Others, MakeFolder, DropFolder, Arrive, TakeOut
<1>3. ~Syncs
  BY <1>0, <1>1 DEF Syncs, Discover, SyncFolder, Killed
<1>4. ~Agree
  <2>1. ASSUME NEW o \in Bundle, bundles[o] = None, NEW names, Proposed(o, names) PROVE FALSE
    BY <1>0, <1>1, <2>1 DEF Proposed, TypeOK
  <2>2. ASSUME NEW o \in Bundle, Accept(o) PROVE FALSE
    <3>1. CASE o # b
      BY <1>0, <1>1, <2>2, <3>1 DEF Accept, TypeOK
    <3>2. CASE o = b
      <4>1. bundles'[b] = [bundles[b] EXCEPT
              !.items = [k \in Name |->
                IF @[k] # "proposed" THEN @[k]
                ELSE IF Fresh(b, k) THEN "accepted" ELSE "stale"],
              !.status = IF \E k \in Items(b, "proposed") : Fresh(b, k)
                         THEN "accepted" ELSE "closed"]
        BY <1>0, <2>2, <3>2 DEF Accept, TypeOK
      <4>2. bundles'[b].items[n] = bundles[b].items[n]
        BY <1>0, <4>1 DEF BundleRow
      <4> QED
        BY <4>2
    <3> QED
      BY <3>1, <3>2
  <2> QED
    BY <2>1, <2>2 DEF Agree, ProposeMove, ProposeDiscard, Bundle
<1>5. ASSUME run # None, NEW k \in Name, NEW status \in {"applied", "stale"}, Becomes(k, status)
      PROVE  b = run.bundle /\ n = k
  <2>1. run.bundle \in Bundle /\ bundles[run.bundle] # None
    BY <1>0, <1>5 DEF FoldersInv, ItemHolds, TypeOK, RunRow
  <2>2. b = run.bundle
    BY <1>0, <1>1, <1>5, <2>1 DEF Becomes, TypeOK
  <2>3. bundles'[b].items = [bundles[b].items EXCEPT ![k] = status]
    BY <1>0, <1>5, <2>1, <2>2, BecomesTells
  <2>4. n = k
    BY <1>0, <2>3 DEF BundleRow
  <2> QED
    BY <2>2, <2>4
<1>6. ~Finish
  <2> SUFFICES ASSUME Finish PROVE FALSE
    OBVIOUS
  <2>1. bundles'[b] = bundles[b] \/ bundles'[b] = [bundles[b] EXCEPT !.status = "closed"]
    BY <1>0 DEF Finish, TypeOK
  <2>2. [bundles[b] EXCEPT !.status = "closed"].items = bundles[b].items
    BY <1>0 DEF BundleRow
  <2> QED
    BY <1>1, <2>1, <2>2
<1>7. run # None => /\ run.bundle \in Bundle /\ bundles[run.bundle] # None
                    /\ run.step \in {"check", "under", "deleted"} => run.name \in Name
  BY <1>0 DEF FoldersInv, ItemHolds, TypeOK, RunRow
<1>8. ASSUME NEW k \in Name, Check(k) PROVE FALSE
  <2>1. Becomes(k, "stale") /\ run.bundle \notin Move /\ run # None
    BY <1>1, <1>8 DEF Check
  <2> QED
    BY <1>5, <2>1
<1>9. CASE Put
  <2>1. /\ run # None /\ run.step = "check"
        /\ \/ /\ ~There(run.name) \/ ~bundles[run.bundle].alive
              /\ Becomes(run.name, "stale")
           \/ Becomes(run.name, "applied")
    BY <1>9 DEF Put
  <2>2. b = run.bundle /\ n = run.name
    BY <1>5, <1>7, <2>1
  <2>3. ~There(n)
    <3> SUFFICES ASSUME Becomes(run.name, "applied") PROVE FALSE
      BY <2>1, <2>2
    <3>1. bundles'[b].items = [bundles[b].items EXCEPT ![n] = "applied"]
      BY <1>0, <1>7, <2>1, <2>2, BecomesTells
    <3> QED
      BY <1>0, <3>1 DEF BundleRow
  <2>4. Accounted(n)
    BY <2>1, <2>2 DEF MovesHold
  <2> QED
    BY <2>3, <2>4 DEF Accounted, There
<1>10. ASSUME DiscardUnmade \/ NoteDeleted \/ Look \/ LookUnder PROVE FALSE
  <2>1. /\ run # None /\ run.step \in {"check", "under", "deleted"} /\ run.bundle \in Discard
        /\ \/ bundles' = bundles
           \/ Becomes(run.name, "stale")
           \/ Becomes(run.name, "applied")
    BY <1>10 DEF DiscardUnmade, NoteDeleted, Look, LookUnder, FoldersInv, ItemHolds
  <2> QED
    BY <1>0, <1>1, <1>5, <1>7, <2>1
<1>11. bundles' # bundles
  BY <1>1
<1> QED
  BY <1>2, <1>3, <1>4, <1>6, <1>8, <1>9, <1>10, <1>11
     DEF Next, Start, StartRun, Apply, Make, NotMade, NoteMade, Delete, NotDeleted, CutShort, vars

-----------------------------------------------------------------------------
(* That a run nobody disturbs refuses nothing of what was agreed           *)

\* A folder of a discard is as it was agreed to, and so is what lies under it.
AgreedOf(b, n) ==
  /\ Fresh(b, n)
  /\ rows[n].exists
  /\ There(n)
  /\ ~Broken(n)
  /\ server[n] = "empty"
  /\ \A m \in Under[n] : There(m) => m \in Items(b, "accepted")

\* A run begun with all of it as agreed, and no other client since.
Undisturbed == run # None /\ run.clean /\ run.bundle \in Discard

\* All that it has not done yet is still as agreed, but for the folder that it
\* has taken and not noted; it has the rows of all that, and they tell what was
\* agreed to; and what it is about to take has nothing under it.
CleanHolds ==
  Undisturbed =>
    /\ bundles[run.bundle].status = "accepted"
    /\ Todo = Items(run.bundle, "accepted")
    /\ \A n \in Todo :
         /\ run.memory[n].exists
         /\ ~run.memory[n].discarded
         /\ run.memory[n].generation = bundles[run.bundle].premise[n]
    /\ \A n \in Items(run.bundle, "accepted") :
         (run.step = "deleted" /\ n = run.name) \/ AgreedOf(run.bundle, n)
    /\ run.step \in {"check", "under", "delete"} =>
         /\ run.name \in Items(run.bundle, "accepted")
         /\ Under[run.name] \cap Items(run.bundle, "accepted") = {}
    /\ run.step = "deleted" => ~There(run.name)

\* It refuses none of it.
Spared ==
  Undisturbed =>
    \A n \in Items(run.bundle, "accepted") : bundles'[run.bundle].items[n] # "stale"

\* A row that tells, of a folder as agreed, what it told.
RowStays(n) ==
  /\ rows'[n].exists /\ ~rows'[n].discarded /\ ~rows'[n].held
  /\ rows'[n].generation = rows[n].generation
  /\ rows'[n].life \in {None, lives[n]}

LEMMA AgreedOn ==
  ASSUME FoldersInv, NEW b \in Discard, NEW n \in Name, AgreedOf(b, n), RowStays(n),
         server'[n] = server[n], lives'[n] = lives[n],
         bundles'[b].premise = bundles[b].premise,
         \A m \in Under[n] : There(m)' => There(m) /\ (m \in Items(b, "accepted") => m \in Items(b, "accepted")')
  PROVE  AgreedOf(b, n)'
<1>1. b \notin Move
  BY FoldersOK
<1> QED
  BY <1>1 DEF AgreedOf, Fresh, Broken, There, RowStays

\* What a discard has left to do has rows, and what it says of them.
LEMMA AgreedRow ==
  ASSUME FoldersInv, NEW b \in Discard, bundles[b] # None,
         NEW n \in Items(b, "accepted"), AgreedOf(b, n)
  PROVE  /\ n \in Name /\ rows[n] \in Row /\ rows[n] # None
         /\ rows[n].exists /\ ~rows[n].discarded /\ ~rows[n].held
         /\ rows[n].life \in {None, lives[n]}
<1>1. n \in Name /\ b \in Bundle /\ b \notin Move /\ bundles[b].items[n] # "none"
  BY FoldersOK DEF Items, Bundle
<1>2. rows[n] # None /\ rows[n] \in Row
  BY <1>1 DEF FoldersInv, ItemsHold, TypeOK
<1> QED
  BY <1>1, <1>2 DEF AgreedOf, Fresh, Broken

\* While it waits between two folders, or is at one.
LEMMA CleanKept ==
  ASSUME FoldersInv, CleanHolds, UNCHANGED <<run, server, lives>>,
         Undisturbed =>
           /\ bundles'[run.bundle].status = bundles[run.bundle].status
           /\ bundles'[run.bundle].premise = bundles[run.bundle].premise
           /\ \A n \in Name : bundles'[run.bundle].items[n] = "accepted"
                              <=> bundles[run.bundle].items[n] = "accepted"
           /\ \A n \in Items(run.bundle, "accepted") : AgreedOf(run.bundle, n) => RowStays(n)
  PROVE  CleanHolds' /\ Spared
<1>1. ASSUME Undisturbed PROVE Items(run.bundle, "accepted")' = Items(run.bundle, "accepted")
  BY <1>1 DEF Items
<1>2. Spared
  BY DEF Spared, Items
<1>3. ASSUME Undisturbed, NEW n \in Items(run.bundle, "accepted"), AgreedOf(run.bundle, n)
      PROVE  AgreedOf(run.bundle, n)'
  <2>1. n \in Name /\ RowStays(n)
    BY <1>3 DEF Items
  <2> QED
    BY <1>1, <1>3, <2>1, AgreedOn DEF Undisturbed, There
<1> QED
  BY <1>1, <1>2, <1>3 DEF CleanHolds, Undisturbed, There, Todo

LEMMA SyncsClean ==
  ASSUME FoldersInv, CleanHolds, Syncs
  PROVE  CleanHolds' /\ Spared
<1>0. TypeOK
  BY DEF FoldersInv
<1>1. Undisturbed => run.bundle \in Discard /\ run.bundle \in Bundle /\ bundles[run.bundle] # None
  BY DEF FoldersInv, ItemHolds, Undisturbed, Bundle
<1>2. CASE Discover
  <2>1. ASSUME Undisturbed, NEW n \in Items(run.bundle, "accepted"), AgreedOf(run.bundle, n)
        PROVE  RowStays(n)
    <3>1. /\ n \in Name /\ rows[n] \in Row /\ rows[n] # None
          /\ rows[n].exists /\ ~rows[n].discarded /\ ~rows[n].held
          /\ rows[n].life \in {None, lives[n]}
      BY <1>1, <2>1, AgreedRow
    <3>2. rows'[n] = rows[n] \/ rows'[n] = [rows[n] EXCEPT !.exists = TRUE, !.discarded = FALSE]
      BY <1>2, <3>1 DEF Discover, Known
    <3>3. CASE rows'[n] = rows[n]
      BY <3>1, <3>3 DEF RowStays
    <3>4. CASE rows'[n] = [rows[n] EXCEPT !.exists = TRUE, !.discarded = FALSE]
      BY <3>1, <3>4 DEF RowStays, Row
    <3> QED
      BY <3>2, <3>3, <3>4
  <2>2. UNCHANGED <<bundles, run, server, lives>>
    BY <1>2 DEF Discover
  <2> QED
    BY <2>1, <2>2, CleanKept
<1>3. ASSUME NEW k \in Name, SyncFolder(k) PROVE CleanHolds' /\ Spared
  <2>0. UNCHANGED <<run, server, lives>> /\ (run # None => run.step = "between")
    BY <1>3 DEF SyncFolder, Free
  <2>1. ASSUME Undisturbed, NEW n \in Items(run.bundle, "accepted") PROVE AgreedOf(run.bundle, n)
    BY <2>0, <2>1 DEF CleanHolds, Undisturbed
  <2>2. ASSUME Undisturbed, NEW n \in Items(run.bundle, "accepted"), AgreedOf(run.bundle, n)
        PROVE  RowStays(n)
    <3>1. /\ n \in Name /\ rows[n] \in Row /\ rows[n] # None
          /\ rows[n].exists /\ ~rows[n].discarded /\ ~rows[n].held
          /\ rows[n].life \in {None, lives[n]}
      BY <1>1, <2>2, AgreedRow
    <3>2. CASE n # k
      <4>1. rows'[n] = rows[n]
        BY <1>0, <1>3, <3>1, <3>2 DEF SyncFolder, TypeOK
      <4> QED
        BY <3>1, <4>1 DEF RowStays
    <3>3. CASE n = k
      <4>1. ~Broken(k) /\ server[k] = "empty"
        BY <2>2, <3>3 DEF AgreedOf
      <4>2. rows'[n] = [rows[n] EXCEPT !.held = FALSE, !.life = lives[n],
                          !.generation = rows[n].generation]
        BY <1>0, <1>3, <3>1, <3>3, <4>1 DEF SyncFolder, TypeOK
      <4> QED
        BY <3>1, <4>2 DEF RowStays, Row
    <3> QED
      BY <3>2, <3>3
  <2>3. ASSUME Undisturbed
        PROVE  /\ bundles'[run.bundle].status = bundles[run.bundle].status
               /\ bundles'[run.bundle].premise = bundles[run.bundle].premise
               /\ \A n \in Name : bundles'[run.bundle].items[n] = "accepted"
                                  <=> bundles[run.bundle].items[n] = "accepted"
    <3> DEFINE b == run.bundle
    <3>1. b \in Bundle /\ bundles[b] \in BundleRow
      BY <1>0, <1>1, <2>3 DEF TypeOK
    <3>2. CASE bundles'[b] = bundles[b]
      BY <3>2
    <3>3. CASE /\ Broken(k) /\ bundles[b].items[k] \in {"proposed", "accepted"}
               /\ bundles'[b] = [bundles[b] EXCEPT !.items[k] = "stale"]
      <4>1. bundles[b].items[k] # "accepted"
        BY <2>1, <2>3, <3>3 DEF AgreedOf, Items
      <4>2. /\ bundles'[b].status = bundles[b].status /\ bundles'[b].premise = bundles[b].premise
            /\ bundles'[b].items = [bundles[b].items EXCEPT ![k] = "stale"]
        BY <3>1, <3>3 DEF BundleRow
      <4>3. \A n \in Name : bundles'[b].items[n] = IF n = k THEN "stale" ELSE bundles[b].items[n]
        BY <3>1, <4>2 DEF BundleRow
      <4> QED
        BY <4>1, <4>2, <4>3
    <3> QED
      BY <1>3, <3>1, <3>2, <3>3 DEF SyncFolder, Killed
  <2> QED
    BY <2>0, <2>2, <2>3, CleanKept
<1> QED
  BY <1>2, <1>3 DEF Syncs

LEMMA AgreeClean ==
  ASSUME FoldersInv, CleanHolds, Agree
  PROVE  CleanHolds' /\ Spared
<1>0. TypeOK
  BY DEF FoldersInv
<1>1. Undisturbed => /\ run.bundle \in Discard /\ run.bundle \in Bundle /\ bundles[run.bundle] # None
                     /\ bundles[run.bundle].status = "accepted"
  BY DEF FoldersInv, ItemHolds, Undisturbed, Bundle, CleanHolds
\* It is about another bundle, and the rows its folders have.
<1>2. ASSUME UNCHANGED <<run, server, lives>>,
             Undisturbed => bundles'[run.bundle] = bundles[run.bundle],
             \A n \in Name : rows[n] # None /\ ~rows[n].discarded => rows'[n] = rows[n]
      PROVE  CleanHolds' /\ Spared
  <2>1. ASSUME Undisturbed, NEW n \in Items(run.bundle, "accepted"), AgreedOf(run.bundle, n)
        PROVE  RowStays(n)
    <3>1. /\ n \in Name /\ rows[n] \in Row /\ rows[n] # None
          /\ rows[n].exists /\ ~rows[n].discarded /\ ~rows[n].held
          /\ rows[n].life \in {None, lives[n]}
      BY <1>1, <2>1, AgreedRow
    <3>2. rows'[n] = rows[n]
      BY <1>2, <3>1
    <3> QED
      BY <3>1, <3>2 DEF RowStays
  <2> QED
    BY <1>2, <2>1, CleanKept
<1>3. ASSUME NEW b \in Move, NEW n \in Name, ProposeMove(b, n) PROVE CleanHolds' /\ Spared
  <2>1. /\ UNCHANGED <<run, server, lives>> /\ bundles[b] = None
        /\ bundles' = [bundles EXCEPT ![b] = bundles'[b]]
        /\ rows' = [rows EXCEPT ![n] = Target(n)]
    BY <1>0, <1>3 DEF ProposeMove, Proposed, TypeOK, Bundle
  <2>2. Undisturbed => bundles'[run.bundle] = bundles[run.bundle]
    BY <1>0, <1>1, <2>1 DEF TypeOK
  <2>3. ASSUME NEW m \in Name, rows[m] # None, ~rows[m].discarded PROVE rows'[m] = rows[m]
    BY <1>0, <2>1, <2>3 DEF Target, Known, TypeOK
  <2> QED
    BY <1>2, <2>1, <2>2, <2>3
<1>4. ASSUME NEW b \in Discard, NEW names \in SUBSET Name, ProposeDiscard(b, names)
      PROVE  CleanHolds' /\ Spared
  <2>1. /\ UNCHANGED <<run, server, lives, rows>> /\ bundles[b] = None
        /\ bundles' = [bundles EXCEPT ![b] = bundles'[b]]
    BY <1>0, <1>4 DEF ProposeDiscard, Proposed, TypeOK, Bundle
  <2>2. Undisturbed => bundles'[run.bundle] = bundles[run.bundle]
    BY <1>0, <1>1, <2>1 DEF TypeOK
  <2> QED
    BY <1>2, <2>1, <2>2
<1>5. ASSUME NEW b \in Bundle, Accept(b) PROVE CleanHolds' /\ Spared
  <2>1. /\ UNCHANGED <<run, server, lives, rows>> /\ bundles[b].status = "proposed"
        /\ \A o \in Bundle \ {b} : bundles'[o] = bundles[o]
    BY <1>0, <1>5 DEF Accept, TypeOK
  <2>2. Undisturbed => bundles'[run.bundle] = bundles[run.bundle]
    BY <1>1, <2>1
  <2> QED
    BY <1>2, <2>1, <2>2
<1> QED
  BY <1>3, <1>4, <1>5 DEF Agree

\* A run's own steps.
LEMMA RunClean ==
  ASSUME FoldersInv, MovesHold, CleanHolds, Start \/ Apply \/ CutShort
  PROVE  CleanHolds' /\ Spared
<1>0. TypeOK
  BY DEF FoldersInv
<1>1. run # None => /\ run \in RunRow /\ run.bundle \in Bundle /\ bundles[run.bundle] # None
                    /\ bundles[run.bundle] \in BundleRow
                    /\ run.step \in {"made", "check", "under", "delete", "deleted"} =>
                         /\ run.name \in Name /\ rows[run.name] # None
                         /\ rows[run.name] \in Row
                    /\ run.memory \in [Name -> Row \cup {None}]
  BY <1>0 DEF TypeOK, RunRow, FoldersInv, ItemHolds, ItemsHold
<1>2. ASSUME bundles' = bundles PROVE Spared
  BY <1>2 DEF Spared, Items
\* A run that is no more, or moves mail.
<1>3. ASSUME run' = None \/ run'.bundle \notin Discard PROVE CleanHolds'
  BY <1>3 DEF CleanHolds, Undisturbed
<1>4. ASSUME run = None \/ run.bundle \notin Discard PROVE Spared
  BY <1>4 DEF Spared, Undisturbed
\* Nothing is done, and one step less is left to be done.
<1>5. ASSUME run # None, UNCHANGED <<server, lives, rows, bundles>>,
             NEW step, NEW n, GoesOn(step, n), run.step # "deleted", step # "deleted",
             Undisturbed /\ step \in {"check", "under", "delete"} =>
               /\ n \in Items(run.bundle, "accepted")
               /\ Under[n] \cap Items(run.bundle, "accepted") = {}
      PROVE  CleanHolds' /\ Spared
  <2>1. run'.bundle = run.bundle /\ run'.step = step /\ run'.name = n /\ run'.clean = run.clean
        /\ run'.memory = run.memory
    BY <1>0, <1>5, GoesOnShows
  <2>2. \A b \in Discard, k \in Name : AgreedOf(b, k)' <=> AgreedOf(b, k)
    BY <1>5 DEF AgreedOf, Fresh, Broken, There, Items
  <2>3. \A b : Items(b, "accepted")' = Items(b, "accepted")
    BY <1>5 DEF Items
  <2> QED
    BY <1>2, <1>5, <2>1, <2>2, <2>3 DEF CleanHolds, Undisturbed, Items, Todo
<1>6. ASSUME NEW b \in Bundle, StartRun(b) PROVE CleanHolds' /\ Spared
  <2>1. /\ run = None /\ UNCHANGED <<server, lives, rows, bundles>>
        /\ run'.bundle = b /\ run'.clean = AsAgreed(b)
        /\ bundles[b].status = "accepted"
        /\ b \in Discard => run'.step = "between"
    BY <1>6, FoldersOK DEF StartRun
  <2>2. ASSUME AsAgreed(b), NEW n \in Items(b, "accepted") PROVE AgreedOf(b, n)'
    BY <2>1, <2>2 DEF AsAgreed, AgreedOf, Fresh, Broken, There, Items
  <2>3. /\ run'.memory = [n \in Name |-> IF n \in Items(b, "accepted") THEN rows[n] ELSE None]
        /\ \A n \in Items(b, "accepted") : n \in Name /\ rows[n] # None
    BY <1>6 DEF StartRun, FoldersInv, ItemsHold, Items
  <2>4. Todo' = Items(b, "accepted") /\ \A n \in Items(b, "accepted") : run'.memory[n] = rows[n]
    BY <2>3 DEF Todo, Items
  <2>5. ASSUME b \in Discard, AsAgreed(b), NEW n \in Items(b, "accepted")
        PROVE  /\ rows[n].exists
               /\ ~rows[n].discarded
               /\ rows[n].generation = bundles[b].premise[n]
    BY <2>5, FoldersOK DEF AsAgreed, Fresh
  <2>6. Items(b, "accepted")' = Items(b, "accepted") /\ bundles' = bundles
    BY <2>1 DEF Items
  <2>7. CleanHolds'
    <3> SUFFICES ASSUME run'.clean, b \in Discard PROVE CleanHolds'
      BY <2>1 DEF CleanHolds, Undisturbed
    <3>1. AsAgreed(b) /\ run'.step = "between"
      BY <2>1
    <3>2. \A n \in Todo' : /\ run'.memory[n].exists
                           /\ ~run'.memory[n].discarded
                           /\ run'.memory[n].generation = bundles'[b].premise[n]
      BY <2>4, <2>5, <2>6, <3>1
    <3>3. \A n \in Items(b, "accepted")' : AgreedOf(b, n)'
      BY <2>2, <2>6, <3>1
    <3> QED
      BY <2>1, <2>4, <2>6, <3>1, <3>2, <3>3 DEF CleanHolds
  <2> QED
    BY <1>4, <2>1, <2>7
<1>7. CASE NotMade \/ NotDeleted \/ CutShort
  BY <1>2, <1>3, <1>7 DEF NotMade, NotDeleted, CutShort
<1>8. CASE Make \/ NoteMade \/ Put
  <2>1. run # None /\ run.bundle \in Move /\ run.bundle \notin Discard
    BY <1>8, FoldersOK DEF Make, NoteMade, Put, MovesHold
  <2>2. run'.bundle = run.bundle
    BY <1>0, <1>1, <1>8, GoesOnShows, PastShows DEF Make, NoteMade, Put
  <2> QED
    BY <1>3, <1>4, <2>1, <2>2
\* An item that is given up was not one of an undisturbed run's.
<1>9. ASSUME run # None, ~Undisturbed, NEW n \in Name, run' = Past(n)
       PROVE  CleanHolds' /\ Spared
  <2>1. run'.bundle = run.bundle /\ run'.clean = run.clean
    BY <1>0, <1>9, PastShows
  <2> QED
    BY <1>9, <2>1 DEF CleanHolds, Undisturbed, Spared
<1>10. ASSUME NEW n \in Name, Check(n) PROVE CleanHolds' /\ Spared
  <2>1. /\ run # None /\ run.step = "between" /\ n \in Todo
        /\ Under[n] \cap Todo = {}
        /\ UNCHANGED <<server, lives, rows>>
    BY <1>10 DEF Check, Turn
  <2>2. CASE GoesOn("check", n) /\ UNCHANGED bundles
    <3>1. Undisturbed => /\ n \in Items(run.bundle, "accepted")
                         /\ Under[n] \cap Items(run.bundle, "accepted") = {}
      BY <2>1 DEF CleanHolds
    <3> QED
      BY <1>5, <2>1, <2>2, <3>1
  <2>3. CASE ~StillFresh(n) /\ Becomes(n, "stale") /\ run' = Past(n)
    <3>1. ASSUME Undisturbed PROVE StillFresh(n)
      <4>1. /\ n \in Items(run.bundle, "accepted")
            /\ ~run.memory[n].discarded
            /\ run.memory[n].generation = bundles[run.bundle].premise[n]
            /\ AgreedOf(run.bundle, n)
        BY <2>1, <3>1 DEF CleanHolds
      <4>2. ~rows[n].held
        BY <3>1, <4>1, FoldersOK DEF AgreedOf, Fresh, Undisturbed
      <4> QED
        BY <4>1, <4>2 DEF StillFresh
    <3> QED
      BY <1>9, <2>1, <2>3, <3>1
  <2> QED
    BY <1>10, <2>2, <2>3 DEF Check
\* The folder whose turn it is is as agreed.
<1>11. ASSUME Undisturbed, run.step \in {"check", "under", "delete"}
       PROVE  /\ run.name \in Items(run.bundle, "accepted") /\ AgreedOf(run.bundle, run.name)
              /\ Under[run.name] \cap Items(run.bundle, "accepted") = {}
              /\ Children(run.name) = {}
  <2>1. /\ run.name \in Items(run.bundle, "accepted") /\ AgreedOf(run.bundle, run.name)
        /\ Under[run.name] \cap Items(run.bundle, "accepted") = {}
    BY <1>11 DEF CleanHolds
  <2> QED
    BY <2>1 DEF AgreedOf, Children
<1>12. CASE Look
  <2>1. run # None /\ run.step = "check" /\ UNCHANGED <<server, lives, rows>>
    BY <1>12 DEF Look
  <2>2. CASE GoesOn("under", run.name) /\ UNCHANGED bundles
    BY <1>5, <1>11, <2>1, <2>2
  <2>3. CASE ~(There(run.name) /\ Empty(run.name)) /\ run' = Past(run.name)
    <3>1. ~Undisturbed
      BY <1>11, <2>1, <2>3 DEF AgreedOf, Empty
    <3> QED
      BY <1>1, <1>9, <2>1, <2>3, <3>1
  <2> QED
    BY <1>12, <2>2, <2>3 DEF Look
<1>13. CASE LookUnder
  <2>1. run # None /\ run.step = "under" /\ UNCHANGED <<server, lives, rows>>
    BY <1>13 DEF LookUnder
  <2>2. CASE GoesOn("delete", run.name) /\ UNCHANGED bundles
    BY <1>5, <1>11, <2>1, <2>2
  <2>3. CASE Children(run.name) # {} /\ run' = Past(run.name)
    <3>1. ~Undisturbed
      BY <1>11, <2>1, <2>3
    <3> QED
      BY <1>1, <1>9, <2>1, <2>3, <3>1
  <2> QED
    BY <1>13, <2>2, <2>3 DEF LookUnder
<1>14. CASE Delete
  <2>1. /\ run # None /\ run.step = "delete" /\ GoesOn("deleted", run.name)
        /\ server' = [server EXCEPT ![run.name] = "gone"]
        /\ UNCHANGED <<lives, rows, bundles>>
    BY <1>14 DEF Delete, Goes, Becoming
  <2>2. /\ run'.bundle = run.bundle /\ run'.step = "deleted" /\ run'.name = run.name
        /\ run'.clean = run.clean /\ run'.memory = run.memory
    BY <1>0, <2>1, GoesOnShows
  <2>3. /\ ~There(run.name)'
        /\ \A m \in Name : m # run.name => server'[m] = server[m]
        /\ \A m \in Name : There(m)' => There(m)
    BY <1>0, <1>1, <2>1, <2>2 DEF There, TypeOK
  <2>4. ASSUME Undisturbed, NEW n \in Items(run.bundle, "accepted"), n # run.name
        PROVE  AgreedOf(run.bundle, n)'
    <3>1. n \in Name /\ AgreedOf(run.bundle, n)
      BY <2>1, <2>4 DEF CleanHolds, Items
    <3>2. RowStays(n)
      BY <1>1, <2>1, <2>4, <3>1, AgreedRow DEF RowStays, Undisturbed
    <3>3. \A m \in Under[n] : m \in Name
      BY <3>1, FoldersOK
    <3> QED
      BY <2>1, <2>2, <2>3, <2>4, <3>1, <3>2, <3>3, AgreedOn DEF Undisturbed, Items
  <2>5. \A b : Items(b, "accepted")' = Items(b, "accepted")
    BY <2>1 DEF Items
  <2>6. Todo' = Todo
    BY <2>2 DEF Todo
  <2> QED
    BY <1>2, <2>1, <2>2, <2>3, <2>4, <2>5, <2>6 DEF CleanHolds, Undisturbed
<1>15. CASE DiscardUnmade
  <2>1. /\ run # None /\ run.step = "check" /\ ~run.memory[run.name].exists
        /\ run' = Past(run.name)
    BY <1>15 DEF DiscardUnmade
  <2>2. ~Undisturbed
    BY <1>11, <2>1 DEF CleanHolds
  <2> QED
    BY <1>1, <1>9, <2>1, <2>2
<1>16. CASE NoteDeleted
  <2> DEFINE b == run.bundle
  <2>1. /\ run # None /\ run.step = "deleted" /\ run' = Past(run.name)
        /\ rows' = DiscardedRow(run.name) /\ Becomes(run.name, "applied")
        /\ UNCHANGED <<server, lives>>
    BY <1>16 DEF NoteDeleted
  <2>2. /\ run'.bundle = b /\ run'.step = "between" /\ run'.clean = run.clean
        /\ run'.memory = [run.memory EXCEPT ![run.name] = None]
    BY <1>0, <1>1, <2>1, PastShows
  <2>3. bundles'[b] = [bundles[b] EXCEPT !.items[run.name] = "applied"]
    BY <1>0, <1>1, <2>1 DEF Becomes, TypeOK
  <2>4. /\ bundles'[b].status = bundles[b].status /\ bundles'[b].premise = bundles[b].premise
        /\ bundles'[b].items = [bundles[b].items EXCEPT ![run.name] = "applied"]
    BY <1>1, <2>1, <2>3 DEF BundleRow
  <2>5. \A n \in Name : bundles'[b].items[n] = IF n = run.name THEN "applied" ELSE bundles[b].items[n]
    BY <1>1, <2>1, <2>4 DEF BundleRow
  <2>6. Items(b, "accepted")' = Items(b, "accepted") \ {run.name}
    BY <2>2, <2>5 DEF Items
  <2>7. Spared
    BY <2>5 DEF Spared, Items
  <2>8. ASSUME Undisturbed, NEW n \in Items(b, "accepted"), n # run.name
        PROVE  AgreedOf(b, n)'
    <3>1. n \in Name /\ AgreedOf(b, n) /\ ~There(run.name)
      BY <2>1, <2>8 DEF CleanHolds, Items
    <3>2. rows'[n] = rows[n]
      BY <1>0, <1>1, <2>1, <2>8, <3>1 DEF DiscardedRow, TypeOK
    <3>3. RowStays(n)
      BY <1>1, <2>8, <3>1, <3>2, AgreedRow DEF RowStays, Undisturbed
    <3>4. \A m \in Under[n] : There(m) => m # run.name
      BY <3>1
    <3> QED
      BY <2>1, <2>2, <2>4, <2>6, <2>8, <3>1, <3>3, <3>4, AgreedOn DEF Undisturbed, There
  <2>9. Undisturbed' => Undisturbed /\ bundles'[run'.bundle].status = "accepted"
    BY <2>1, <2>2, <2>4 DEF CleanHolds, Undisturbed
  <2>10. Undisturbed' => \A n \in Items(b, "accepted")' : AgreedOf(run.bundle, n)'
    BY <2>6, <2>8, <2>9
  <2>11. /\ Todo' = Todo \ {run.name}
         /\ \A n \in Todo' : run'.memory[n] = run.memory[n]
    BY <1>1, <2>1, <2>2 DEF Todo
  <2>12. Undisturbed' => /\ Todo' = Items(b, "accepted")'
                         /\ \A n \in Todo' : /\ run'.memory[n].exists
                                            /\ ~run'.memory[n].discarded
                                            /\ run'.memory[n].generation = bundles'[b].premise[n]
    BY <2>4, <2>6, <2>9, <2>11 DEF CleanHolds
  <2> QED
    BY <2>2, <2>7, <2>9, <2>10, <2>12 DEF CleanHolds
<1>17. CASE Finish
  <2>1. /\ run # None /\ run' = None /\ Todo = {}
    BY <1>17 DEF Finish
  <2>2. Undisturbed => Items(run.bundle, "accepted") = {}
    BY <2>1 DEF CleanHolds
  <2> QED
    BY <1>3, <2>1, <2>2 DEF Spared
<1> QED
  BY <1>6, <1>7, <1>8, <1>10, <1>12, <1>13, <1>14, <1>15, <1>16, <1>17 DEF Start, Apply

\* Once another client did something, no more is said of the run.
LEMMA OthersDisturb ==
  ASSUME FoldersInv, Others
  PROVE  CleanHolds' /\ Spared
<1>0. TypeOK
  BY DEF FoldersInv
<1>1. ~Undisturbed'
  <2>1. PICK what, steps : Meanwhile(what, steps)
    BY DEF Others, MakeFolder, DropFolder, Arrive, TakeOut, Depart
  <2>2. CASE run = None
    BY <2>1, <2>2 DEF Meanwhile, Undisturbed
  <2>3. CASE run # None
    <3>1. run'.clean = FALSE
      BY <1>0, <2>1, <2>3 DEF Meanwhile, TypeOK, RunRow
    <3> QED
      BY <3>1 DEF Undisturbed
  <2> QED
    BY <2>2, <2>3
<1>2. ASSUME Undisturbed PROVE bundles'[run.bundle] = bundles[run.bundle]
  <2>1. run.bundle \in Discard /\ run.bundle \notin Move
    BY <1>2, FoldersOK DEF Undisturbed
  <2> QED
    BY <1>0, <2>1 DEF Others, MakeFolder, DropFolder, Arrive, TakeOut, Depart, TypeOK, Bundle
<1> QED
  BY <1>1, <1>2 DEF CleanHolds, Spared, Items

LEMMA CleanStep ==
  ASSUME FoldersInv, MovesHold, CleanHolds, [Next]_vars
  PROVE  CleanHolds' /\ Spared
<1>1. CASE UNCHANGED vars
  BY <1>1 DEF vars, CleanHolds, Spared, Undisturbed, AgreedOf, Fresh, Broken, There, Items, Todo
<1> QED
  BY <1>1, SyncsClean, AgreeClean, RunClean, OthersDisturb DEF Next

-----------------------------------------------------------------------------
(* Theorems                                                                *)

LEMMA FoldersStart == Init => FoldersInv
<1> SUFFICES ASSUME Init PROVE FoldersInv
  OBVIOUS
<1>1. TypeOK
  <2>1. server \in [Name -> {"gone", "empty", "holds"}]
    BY DEF Init
  <2>2. lives \in [Name -> 0..MaxLives]
    BY FoldersOK DEF Init
  <2> QED
    BY <2>1, <2>2, FoldersOK DEF Init, TypeOK
<1>2. LivesHold
  BY DEF Init, LivesHold
<1>3. ItemsHold /\ PremisesHold
  BY DEF Init, ItemsHold, PremisesHold, Bundle
<1>4. ItemHolds /\ MemoryHolds /\ LookHolds
  BY DEF Init, ItemHolds, MemoryHolds, LookHolds
<1> QED
  BY <1>1, <1>2, <1>3, <1>4 DEF FoldersInv

LEMMA FoldersStep == FoldersInv /\ [Next]_vars => FoldersInv'
<1> SUFFICES ASSUME FoldersInv, [Next]_vars PROVE FoldersInv'
  OBVIOUS
<1>1. CASE Others
  BY <1>1, OthersType, OthersKeep DEF FoldersInv
<1>2. CASE Syncs
  BY <1>2, SyncsType, SyncsKeep DEF FoldersInv
<1>3. CASE Agree
  BY <1>3, AgreeType, AgreeKeeps DEF FoldersInv
<1>4. CASE Start \/ Apply \/ CutShort
  BY <1>4, RunType, RunKeeps DEF FoldersInv
<1>5. CASE UNCHANGED vars
  BY <1>5 DEF vars, FoldersInv, TypeOK, LivesHold, ItemsHold, PremisesHold, ItemHolds,
              MemoryHolds, LookHolds
<1> QED
  BY <1>1, <1>2, <1>3, <1>4, <1>5 DEF Next

\* The inductive invariant of Folders.tla, for any tree of names, any bundles
\* and any number of other clients' steps.
THEOREM FoldersInvariant == Spec => []FoldersInv
BY FoldersStart, FoldersStep, PTL DEF Spec

\* TypeOK is an invariant.
THEOREM TypeCorrect == Spec => []TypeOK
BY FoldersInvariant, PTL DEF FoldersInv

\* A folder goes with mail in it, or from above others, only if these came
\* after the server had been asked: between the question and the command no
\* sync, proposal or run of this service comes, and every other client is seen.
THEOREM OnlyEmptyFoldersGo == Spec => TakesOnlyEmpty
<1>1. FoldersInv =>
        \A n \in Name : Deletes(n) =>
          /\ server[n] = "holds" => "mail" \in run.since
          /\ (\E m \in Under[n] : There(m)) => "folder" \in run.since
  BY DEF FoldersInv, LookHolds, Deletes, There
<1> QED
  BY <1>1, FoldersInvariant, PTL DEF TakesOnlyEmpty

\* The folder that goes is the one the proposal was about, as far as the last
\* sync before the run was loaded could tell: what is checked of it is the row
\* the run's session has, and the one it has taken goes on being that one
\* whatever syncs write meanwhile.
THEOREM TheProposedFolderGoes == Spec => TakesWhatWasProposed
<1>1. FoldersInv =>
        \A n \in Name : Deletes(n) =>
          \/ bundles[run.bundle].saw[n] \in {lives[n], None}
          \/ run.memory[n].life # lives[n]
  BY DEF FoldersInv, ItemHolds, MemoryHolds, Deletes
<1> QED
  BY <1>1, FoldersInvariant, PTL DEF TakesWhatWasProposed

LEMMA MovesInvariant == Spec => [](RowsTell /\ MovesHold)
<1>1. Init => RowsTell /\ MovesHold
  BY DEF Init, RowsTell, MovesHold, Bundle
<1>2. FoldersInv /\ (RowsTell /\ MovesHold) /\ [Next]_vars => (RowsTell /\ MovesHold)'
  <2> SUFFICES ASSUME FoldersInv, RowsTell, MovesHold, [Next]_vars
               PROVE  RowsTell' /\ MovesHold'
    OBVIOUS
  <2>1. CASE UNCHANGED vars
    BY <2>1 DEF vars, RowsTell, MovesHold, Accounted
  <2> QED
    BY <2>1, OthersTell, SyncsTell, AgreeTells, RunTells DEF Next
<1> QED
  BY <1>1, <1>2, FoldersInvariant, PTL DEF Spec

\* A move that was agreed to and can be made finds its folder, made if need be,
\* unless the folder went without a row's being told.
THEOREM MovesFindTheirFolder == Spec => MoveFindsItsFolder
<1>1. FoldersInv /\ RowsTell /\ MovesHold /\ [Next]_vars =>
        \A b \in Move, n \in Name :
          /\ bundles[b] # None /\ bundles'[b] # None
          /\ bundles[b].items[n] = "accepted" /\ bundles'[b].items[n] = "stale"
          /\ bundles[b].alive
          => n \in vanished
  BY MoveGivesUp
<1> QED
  BY <1>1, FoldersInvariant, MovesInvariant, PTL DEF Spec, MoveFindsItsFolder

\* A run of a discard that begins with all as it was agreed, and whom no other
\* client disturbs, refuses no folder of it: the ones below go first, and what
\* is left is as agreed still (_in_order, _discard).
THEOREM AllThatWasAgreedGoes == Spec => AllOfItGoes
<1>1. Init => CleanHolds
  BY DEF Init, CleanHolds, Undisturbed
<1>2. FoldersInv /\ MovesHold /\ CleanHolds /\ [Next]_vars => CleanHolds'
  BY CleanStep
<1>3. FoldersInv /\ MovesHold /\ CleanHolds /\ [Next]_vars =>
        \A b \in Discard, n \in Name :
          /\ run # None /\ run.bundle = b /\ run.clean
          /\ bundles[b].items[n] = "accepted"
          => bundles'[b].items[n] # "stale"
  BY CleanStep DEF Spared, Undisturbed, Items
<1> QED
  BY <1>1, <1>2, <1>3, FoldersInvariant, MovesInvariant, PTL DEF Spec, AllOfItGoes

=============================================================================
