------------------------------ MODULE Folders ------------------------------
(***************************************************************************)
(* Folders made and removed by agreement: resolve_target and               *)
(* propose_discard of suggest/model.py, the folder's side of imap/apply.py *)
(* with create_container and delete_container of imap/client.py, and what  *)
(* discovery and a sync make of the folders other clients have.            *)
(*                                                                         *)
(* A bundle moves mail into one folder, which may have to be made, or      *)
(* discards folders that hold nothing.  An item of a run is one            *)
(* transaction, which others' writes wait for, a sync's among them; the    *)
(* server's other clients do not wait.  Between two items another          *)
(* process's sync can write, and the run does not see it: it goes by the   *)
(* rows of its folders as its session loaded them.                         *)
(***************************************************************************)
EXTENDS Naturals, FiniteSets

CONSTANTS
  Name,           \* folder names, INBOX and the special ones left out
  Under,          \* of each name, the names below it
  Move,           \* bound: the bundles that move mail
  Discard,        \* bound: and those that discard folders
  MaxOthers,      \* bound: the steps of other clients
  MaxLives,       \* bound: how often a folder comes to be on the server
  MaxGeneration,  \* bound: how often a name is counted as another folder
  None

Bundle     == Move \cup Discard
Life       == 1..MaxLives
Generation == 1..MaxGeneration

ASSUME FoldersOK ==
  /\ Under \in [Name -> SUBSET Name]
  /\ \A n \in Name : n \notin Under[n] /\ \A m \in Under[n] : Under[m] \subseteq Under[n]
  /\ Move \cap Discard = {}
  /\ MaxOthers \in Nat
  /\ MaxLives \in Nat \ {0}
  /\ MaxGeneration \in Nat \ {0}
  /\ None \notin Bundle \cup Name \cup Nat

VARIABLES
  server,    \* what is there of each folder
  lives,     \* how many have had its name: the last one's UIDVALIDITY
  rows,      \* the container rows
  bundles,
  run,       \* the apply run under way
  vanished,  \* history: went from the server, and no row was told
  others     \* how often other clients did something

vars == <<server, lives, rows, bundles, run, vanished, others>>

-----------------------------------------------------------------------------

\* held: live placements of this generation; life: the UIDVALIDITY last seen.
Row == [exists : BOOLEAN, discarded : BOOLEAN, generation : Generation,
        held : BOOLEAN, life : Life \cup {None}]

\* premise: the generation of each folder it would discard, None of the others.
\* alive: what a move would move can still be moved.
BundleRow ==
  [status : {"proposed", "accepted", "closed"},
   items : [Name -> {"none", "proposed", "accepted", "applied", "stale"}],
   premise : [Name -> Generation \cup {None}],
   saw : [Name -> Life \cup {None}],  \* history: the folder it was about
   alive : BOOLEAN]

\* memory: the rows of the items left of its list, as they were loaded.
RunRow ==
  [bundle : Bundle,
   memory : [Name -> Row \cup {None}],
   step : {"make", "made", "between", "check", "under", "delete", "deleted"},
   name : Name \cup {None},              \* the item under way
   since : SUBSET {"mail", "folder"},    \* history: came since the server was asked
   clean : BOOLEAN]                      \* history: all is as agreed, and stays so

TypeOK ==
  /\ server \in [Name -> {"gone", "empty", "holds"}]
  /\ lives \in [Name -> 0..MaxLives]
  /\ rows \in [Name -> Row \cup {None}]
  /\ bundles \in [Bundle -> BundleRow \cup {None}]
  /\ run \in RunRow \cup {None}
  /\ vanished \subseteq Name
  /\ others \in 0..MaxOthers

ASSUME NoneIsNoRow == None \notin Row \cup BundleRow \cup RunRow

Init ==
  /\ server \in [Name -> {"gone", "empty"}]
  /\ lives = [n \in Name |-> IF server[n] = "gone" THEN 0 ELSE 1]
  /\ rows = [n \in Name |-> None]
  /\ bundles = [b \in Bundle |-> None]
  /\ run = None
  /\ vanished = {}
  /\ others = 0

-----------------------------------------------------------------------------
(* Other clients of the server                                             *)

There(n) == server[n] # "gone"

Becoming(n, what) == server' = [server EXCEPT ![n] = what]

Comes(n) ==
  /\ lives[n] < MaxLives
  /\ lives' = [lives EXCEPT ![n] = @ + 1]
  /\ Becoming(n, "empty")
  /\ vanished' = vanished \ {n}

Goes(n) ==
  /\ Becoming(n, "gone")
  /\ vanished' = vanished \cup {n}

\* What a run has to know of what others do, for the properties alone.
Meanwhile(what, steps) ==
  /\ others < MaxOthers
  /\ others' = others + 1
  /\ run' = IF run = None THEN None
            ELSE [run EXCEPT !.clean = FALSE,
                    !.since = IF run.step \in steps THEN @ \cup what ELSE @]
  /\ UNCHANGED rows

MakeFolder(n) ==
  /\ ~There(n)
  /\ Comes(n)
  /\ Meanwhile({"folder"}, {"delete"})
  /\ UNCHANGED bundles

DropFolder(n) ==
  /\ There(n)
  /\ Goes(n)
  /\ Meanwhile({}, {})
  /\ UNCHANGED <<lives, bundles>>

Arrive(n) ==
  /\ server[n] = "empty"
  /\ Becoming(n, "holds")
  /\ Meanwhile({"mail"}, {"under", "delete"})
  /\ UNCHANGED <<lives, bundles, vanished>>

TakeOut(n) ==
  /\ server[n] = "holds"
  /\ Becoming(n, "empty")
  /\ Meanwhile({}, {})
  /\ UNCHANGED <<lives, bundles, vanished>>

\* The message a move is about leaves its folder.
Depart(b) ==
  /\ bundles[b] # None
  /\ bundles[b].alive
  /\ bundles' = [bundles EXCEPT ![b].alive = FALSE]
  /\ Meanwhile({}, {})
  /\ UNCHANGED <<server, lives, vanished>>

-----------------------------------------------------------------------------
(* Discovery and sync                                                      *)

\* The database can be written: no item's transaction is open.
Free == run # None => run.step = "between"

Known(n) == rows[n] # None

\* FAULT: the first is counted as none.
NewRow_FromZero(exists) ==
  [exists |-> exists, discarded |-> FALSE, generation |-> 0, held |-> FALSE,
   life |-> None]

NewRow(exists) ==
  [exists |-> exists, discarded |-> FALSE, generation |-> 1, held |-> FALSE,
   life |-> None]

\* discover_containers: what is listed is there, whoever made it.
Discover ==
  /\ Free
  /\ rows' = [n \in Name |->
       IF ~There(n) THEN rows[n]
       ELSE IF ~Known(n) THEN NewRow(TRUE)
       ELSE [rows[n] EXCEPT !.exists = TRUE, !.discarded = FALSE]]
  /\ UNCHANGED <<server, lives, bundles, run, vanished, others>>

\* FAULT: the folder there now is taken for the one that was.
Broken_Never(n) == FALSE

\* The folder there now is not the one the row was last told of.
Broken(n) == rows[n].life # None /\ rows[n].life # lives[n]

\* break_identity, of the discards that rest on the generation left behind.
Killed(n) ==
  [b \in Bundle |->
     IF /\ b \in Discard
        /\ bundles[b] # None
        /\ bundles[b].items[n] \in {"proposed", "accepted"}
        /\ bundles[b].premise[n] = rows[n].generation
     THEN [bundles[b] EXCEPT !.items[n] = "stale"]
     ELSE bundles[b]]

\* sync_container, to its end.
SyncFolder(n) ==
  /\ Free
  /\ Known(n)
  /\ rows[n].exists
  /\ There(n)
  /\ Broken(n) => rows[n].generation < MaxGeneration
  /\ rows' = [rows EXCEPT ![n].held = (server[n] = "holds"), ![n].life = lives[n],
                          ![n].generation = IF Broken(n) THEN @ + 1 ELSE @]
  /\ bundles' = IF Broken(n) THEN Killed(n) ELSE bundles
  /\ UNCHANGED <<server, lives, run, vanished, others>>

-----------------------------------------------------------------------------
(* Proposing and accepting                                                 *)

Proposed(b, names) ==
  bundles' = [bundles EXCEPT ![b] =
    [status |-> "proposed",
     items |-> [n \in Name |-> IF n \in names THEN "proposed" ELSE "none"],
     premise |-> [n \in Name |->
       IF b \in Discard /\ n \in names THEN rows[n].generation ELSE None],
     saw |-> [n \in Name |->
       IF b \in Discard /\ n \in names THEN rows[n].life ELSE None],
     alive |-> TRUE]]

\* resolve_target: the row the move will have as its target.
Target(n) ==
  IF ~Known(n) THEN NewRow(FALSE)
  ELSE IF rows[n].discarded
    THEN [rows[n] EXCEPT !.discarded = FALSE, !.exists = FALSE, !.held = FALSE,
                         !.generation = @ + 1]
    ELSE rows[n]

\* propose_bundle of a move to a folder by its name.
ProposeMove(b, n) ==
  /\ Free
  /\ bundles[b] = None
  /\ Known(n) /\ rows[n].discarded => rows[n].generation < MaxGeneration
  /\ rows' = [rows EXCEPT ![n] = Target(n)]
  /\ Proposed(b, {n})
  /\ UNCHANGED <<server, lives, run, vanished, others>>

\* propose_discard: folders the cache has empty, with everything below them.
ProposeDiscard(b, names) ==
  /\ Free
  /\ bundles[b] = None
  /\ names # {}
  /\ \A n \in names :
       /\ Known(n)
       /\ ~rows[n].discarded
       /\ ~rows[n].held
       /\ \A m \in Under[n] : Known(m) /\ ~rows[m].discarded => m \in names
  /\ rows' = rows
  /\ Proposed(b, names)
  /\ UNCHANGED <<server, lives, run, vanished, others>>

\* staleness.check, of a move's message or of a folder to be discarded, in a
\* session of its own.
Fresh(b, n) ==
  IF b \in Move THEN bundles[b].alive
  ELSE /\ ~rows[n].discarded
       /\ rows[n].generation = bundles[b].premise[n]
       /\ ~rows[n].held

Items(b, status) == {n \in Name : bundles[b].items[n] = status}

\* accept, on a page that says what is stale.
Accept(b) ==
  /\ Free
  /\ bundles[b] # None
  /\ bundles[b].status = "proposed"
  /\ bundles' = [bundles EXCEPT
       ![b].items = [n \in Name |->
          IF @[n] # "proposed" THEN @[n]
          ELSE IF Fresh(b, n) THEN "accepted" ELSE "stale"],
       ![b].status = IF \E n \in Items(b, "proposed") : Fresh(b, n)
                     THEN "accepted" ELSE "closed"]
  /\ UNCHANGED <<server, lives, rows, run, vanished, others>>

-----------------------------------------------------------------------------
(* Applying                                                                *)

\* The items still to come.
Todo == {n \in Name : run.memory[n] # None}

\* The item is committed, and not come back to.
Past(n) == [run EXCEPT !.step = "between", !.name = None, !.since = {},
                       !.memory[n] = None]

GoesOn(step, n) ==
  run' = [run EXCEPT !.step = step, !.name = n,
                     !.since = IF step = "delete" THEN @ ELSE {}]

Becomes(n, status) == bundles' = [bundles EXCEPT ![run.bundle].items[n] = status]

\* All that a discard would have to find, it would find now.
AsAgreed(b) ==
  \A n \in Items(b, "accepted") :
    /\ b \in Discard
    /\ Fresh(b, n)
    /\ rows[n].exists
    /\ There(n)
    /\ ~Broken(n)
    /\ server[n] = "empty"
    /\ \A m \in Under[n] : There(m) => m \in Items(b, "accepted")

\* apply_bundle begins, and again after it was cut short or failed: the list of
\* its items is made, and never again.
StartRun(b) ==
  /\ run = None
  /\ bundles[b] # None
  /\ bundles[b].status = "accepted"
  /\ run' = [bundle |-> b, name |-> None, since |-> {}, clean |-> AsAgreed(b),
             memory |-> [n \in Name |->
               IF n \in Items(b, "accepted") THEN rows[n] ELSE None],
             step |-> IF b \in Move /\ \E n \in Items(b, "accepted") : ~rows[n].exists
                      THEN "make" ELSE "between"]
  /\ UNCHANGED <<server, lives, rows, bundles, vanished, others>>

\* create_container: it is made, or was there; it is not, and the run fails.
Make ==
  /\ run # None
  /\ run.step = "make"
  /\ \E n \in Items(run.bundle, "accepted") :
       /\ \/ There(n) /\ UNCHANGED <<server, lives, vanished>>
          \/ ~There(n) /\ Comes(n)
       /\ GoesOn("made", n)
  /\ UNCHANGED <<rows, bundles, others>>

NotMade ==
  /\ run # None
  /\ run.step = "make"
  /\ run' = None
  /\ UNCHANGED <<server, lives, rows, bundles, vanished, others>>

\* _ensure_target_exists, committed.
NoteMade ==
  /\ run # None
  /\ run.step = "made"
  /\ rows' = [rows EXCEPT ![run.name].exists = TRUE, ![run.name].discarded = FALSE]
  /\ GoesOn("between", None)
  /\ UNCHANGED <<server, lives, bundles, vanished, others>>

\* FAULT: as the bundle has them.
Turn_Any(n) == TRUE

\* _in_order: the deepest first.
Turn(n) == Under[n] \cap Todo = {}

\* staleness.check in the session of the run: of the folder it has the row that
\* was loaded, and counts what the cache has now of that row's generation,
\* which is nothing if the row has moved on.
StillFresh(n) ==
  LET row == run.memory[n] IN
  /\ ~row.discarded
  /\ row.generation = bundles[run.bundle].premise[n]
  /\ rows[n].generation = row.generation => ~rows[n].held

\* An item's turn, whatever a sync has made of it since the list was made.  A
\* move looks for its message itself, after the check.
Check(n) ==
  /\ run # None
  /\ run.step = "between"
  /\ n \in Todo
  /\ Turn(n)
  /\ IF run.bundle \in Move \/ StillFresh(n)
     THEN GoesOn("check", n) /\ UNCHANGED bundles
     ELSE Becomes(n, "stale") /\ run' = Past(n)
  /\ UNCHANGED <<server, lives, rows, vanished, others>>

\* FAULT: an item that could not be done is tried again.
Put_UntilDone ==
  /\ run # None
  /\ run.step = "check"
  /\ run.bundle \in Move
  /\ IF ~There(run.name) \/ ~bundles[run.bundle].alive
     THEN UNCHANGED <<bundles, server>> /\ GoesOn("between", None)
     ELSE /\ Becomes(run.name, "applied")
          /\ Becoming(run.name, "holds")
          /\ run' = Past(run.name)
  /\ UNCHANGED <<lives, rows, vanished, others>>

\* _perform, of a move: the message is not there or there is no folder to put it
\* in, or both are.
Put ==
  /\ run # None
  /\ run.step = "check"
  /\ run.bundle \in Move
  /\ IF There(run.name) /\ bundles[run.bundle].alive
     THEN Becomes(run.name, "applied") /\ Becoming(run.name, "holds")
     ELSE Becomes(run.name, "stale") /\ UNCHANGED server
  /\ run' = Past(run.name)
  /\ UNCHANGED <<lives, rows, vanished, others>>

\* What is as it was loaded is not written: a folder that had never been made,
\* and was found since, is still there.
DiscardedRow(n) ==
  [rows EXCEPT ![n].discarded = TRUE, ![n].exists = @ /\ ~run.memory[n].exists]

\* A folder that was proposed and never made: nothing is asked of the server.
DiscardUnmade ==
  /\ run # None
  /\ run.step = "check"
  /\ run.bundle \in Discard
  /\ ~run.memory[run.name].exists
  /\ rows' = DiscardedRow(run.name)
  /\ Becomes(run.name, "applied")
  /\ run' = Past(run.name)
  /\ UNCHANGED <<server, lives, vanished, others>>

\* FAULT: the cache said it was empty.
Empty_InTheCache(n) == ~rows[n].held

Empty(n) == server[n] = "empty"

\* _discard asks the server for the folder and how much it holds.
Look ==
  /\ run # None
  /\ run.step = "check"
  /\ run.bundle \in Discard
  /\ run.memory[run.name].exists
  /\ IF There(run.name) /\ Empty(run.name)
     THEN GoesOn("under", run.name) /\ UNCHANGED bundles
     ELSE Becomes(run.name, "stale") /\ run' = Past(run.name)
  /\ UNCHANGED <<server, lives, rows, vanished, others>>

Children(n) == {m \in Under[n] : There(m)}

\* And what lies under it.
LookUnder ==
  /\ run # None
  /\ run.step = "under"
  /\ IF Children(run.name) = {}
     THEN GoesOn("delete", run.name) /\ UNCHANGED bundles
     ELSE Becomes(run.name, "stale") /\ run' = Past(run.name)
  /\ UNCHANGED <<server, lives, rows, vanished, others>>

\* delete_container
Delete ==
  /\ run # None
  /\ run.step = "delete"
  /\ There(run.name)
  /\ Goes(run.name)
  /\ GoesOn("deleted", run.name)
  /\ UNCHANGED <<lives, rows, bundles, others>>

\* The server refuses, as some do a folder with others under it; or another
\* client was there first.
NotDeleted ==
  /\ run # None
  /\ run.step = "delete"
  /\ run' = None
  /\ UNCHANGED <<server, lives, rows, bundles, vanished, others>>

\* FAULT: the row goes on saying that the folder is there.
NoteDeleted_OnlyMarked ==
  /\ run # None
  /\ run.step = "deleted"
  /\ rows' = [rows EXCEPT ![run.name].discarded = TRUE]
  /\ vanished' = vanished \ {run.name}
  /\ Becomes(run.name, "applied")
  /\ run' = Past(run.name)
  /\ UNCHANGED <<server, lives, others>>

\* _update_cache, committed.
NoteDeleted ==
  /\ run # None
  /\ run.step = "deleted"
  /\ rows' = DiscardedRow(run.name)
  /\ vanished' = vanished \ {run.name}
  /\ Becomes(run.name, "applied")
  /\ run' = Past(run.name)
  /\ UNCHANGED <<server, lives, others>>

\* _rollup, and the bundle's end.
Finish ==
  /\ run # None
  /\ run.step = "between"
  /\ Todo = {}
  /\ bundles' = [bundles EXCEPT ![run.bundle].status = "closed"]
  /\ run' = None
  /\ UNCHANGED <<server, lives, rows, vanished, others>>

\* A restart, a stop, a connection that dies: what is not committed is lost.
CutShort ==
  /\ run # None
  /\ run' = None
  /\ UNCHANGED <<server, lives, rows, bundles, vanished, others>>

-----------------------------------------------------------------------------

Others ==
  \/ \E n \in Name : MakeFolder(n) \/ DropFolder(n) \/ Arrive(n) \/ TakeOut(n)
  \/ \E b \in Move : Depart(b)

Syncs == Discover \/ \E n \in Name : SyncFolder(n)

Agree ==
  \/ \E b \in Move, n \in Name : ProposeMove(b, n)
  \/ \E b \in Discard, names \in SUBSET Name : ProposeDiscard(b, names)
  \/ \E b \in Bundle : Accept(b)

Start == \E b \in Bundle : StartRun(b)

Apply ==
  \/ Make \/ NotMade \/ NoteMade
  \/ \E n \in Name : Check(n)
  \/ Put \/ DiscardUnmade \/ Look \/ LookUnder
  \/ Delete \/ NotDeleted \/ NoteDeleted
  \/ Finish

Next == Others \/ Syncs \/ Agree \/ Start \/ Apply \/ CutShort

Spec == Init /\ [][Next]_vars

\* A run goes on, and what is accepted is taken up again until it is closed.
FairSpec == Spec /\ WF_vars(Apply) /\ \A b \in Bundle : WF_vars(StartRun(b))

-----------------------------------------------------------------------------
(* Properties                                                              *)

Deletes(n) ==
  /\ run # None /\ run.step = "delete" /\ run.name = n
  /\ run' # None /\ run'.step = "deleted"

\* A folder goes with mail in it, or from above others, only if these came
\* after the server had said that it was empty and listed none under it
\* (apply._discard; propose_discard "the one removal with nothing to undo").
TakesOnlyEmpty ==
  [][\A n \in Name : Deletes(n) =>
       /\ server[n] = "holds" => "mail" \in run.since
       /\ (\E m \in Under[n] : There(m)) => "folder" \in run.since]_vars

\* The folder that goes is the one the proposal was about, as far as the last
\* sync before the run was loaded could tell: what one finds out once the run
\* is under way does not reach it (staleness._check_container "not the folder
\* this offered to remove").
TakesWhatWasProposed ==
  [][\A n \in Name : Deletes(n) =>
       \/ bundles[run.bundle].saw[n] \in {lives[n], None}
       \/ run.memory[n].life # lives[n]]_vars

\* A move that was agreed to and can be made finds its folder, made if need
\* be, unless the folder went without the cache's knowing: another client
\* took it, or a run was cut short between taking it and saying so
\* (apply._ensure_target_exists, _update_cache).
MoveFindsItsFolder ==
  [][\A b \in Move, n \in Name :
       /\ bundles[b] # None /\ bundles'[b] # None
       /\ bundles[b].items[n] = "accepted" /\ bundles'[b].items[n] = "stale"
       /\ bundles[b].alive
       => n \in vanished]_vars

\* A run that begins with all as it was agreed, and whom no other client
\* disturbs, refuses no folder of it, whatever lies under what
\* (apply._in_order "the children that made it a parent are gone").
AllOfItGoes ==
  [][\A b \in Discard, n \in Name :
       /\ run # None /\ run.bundle = b /\ run.clean
       /\ bundles[b].items[n] = "accepted"
       => bundles'[b].items[n] # "stale"]_vars

Accepted(b) == bundles[b] # None /\ bundles[b].status = "accepted"

\* What was accepted is closed in the end, if runs are not cut short or refused
\* for ever: a closed bundle is not accepted again, so each has to close for
\* there to be none (apply.apply_bundle "a retry picks up exactly here").
AcceptedCloses ==
  <>[][~CutShort]_vars =>
    ((\E b \in Bundle : Accepted(b)) ~> \A b \in Bundle : ~Accepted(b))

=============================================================================
