-------------------------------- MODULE Apply --------------------------------
(***************************************************************************)
(* What an apply does to the mailbox: imap/apply.py and imap/client.py,    *)
(* for the operations on messages, over one folder.                        *)
(*                                                                         *)
(* The mailbox is a state of its own here, and other clients change it     *)
(* between any two commands.  The transaction of one item begins with its  *)
(* check and ends with the record of what was done, so nothing else is     *)
(* written to the database meanwhile, and all of it is forgotten when the  *)
(* run is cut short in between; what the server did is not.                *)
(*                                                                         *)
(* A run works from memory.  Its session loads the bundle, its items, the  *)
(* folder and the placements once, commits, and expires none of it         *)
(* (expire_on_commit=False), so every later check is of what was loaded:   *)
(* what another process's sync has found out since stops no item.          *)
(*                                                                         *)
(* Acceptance, the bundle around the items and its end are in Review.tla;  *)
(* how two syncs meet is not here, a sync is one step.                     *)
(***************************************************************************)
EXTENDS Naturals

CONSTANTS
  Item,        \* the suggestions that may come to be accepted
  Filing,      \* those that move (or delete: a move to Trash); the others
               \* add a flag
  Bundle,      \* what is accepted, and run, together: items of one operation
  Mail,        \* what may lie in the folder
  MaxUid,      \* bound: UIDs given out in one life of the folder
  MaxModseq,   \* bound: changes of its messages in one life of it
  MaxValidity, \* bound: the folder's lives
  NoMail, NoItem

ASSUME ConstantsOK ==
  /\ Filing \subseteq Item
  /\ \A b \in Bundle : b \subseteq Item /\ (b \subseteq Filing \/ b \cap Filing = {})
  /\ \A a, b \in Bundle : a = b \/ a \cap b = {}
  /\ NoMail \notin Mail
  /\ NoItem \notin Item
  /\ MaxUid \in Nat /\ MaxModseq \in Nat /\ MaxValidity \in Nat \ {0}

Uid == 1..MaxUid

VARIABLES
  condstore,  \* the server counts changes (CONDSTORE)
  hasMove,    \* the server moves in one command (MOVE)
  box,        \* the folder: what lies at each UID
  next,       \* the last UID given out
  high,       \* its changes so far: HIGHESTMODSEQ, if it tells
  validity,   \* its UIDVALIDITY
  target,     \* the messages that are in the target folder
  link,       \* the connection: another folder selected, this one, or dead
  cached,     \* the placements of this generation that are not gone
  generation, \* Container.generation
  remembered, \* Container.uidvalidity
  status,     \* Suggestion.status
  premise,    \* what each suggestion was computed against
  run,        \* the memory of the run under way: the items left of its list,
              \* and the folder and its placements as they were loaded
  step,       \* the item being applied, and how far that has got
  performed,  \* history: how often each item's change was made, up to twice
  taken,      \* history: the messages the service took from the folder
  touched,    \* history: what each item's change was made to, and how
  strayed,    \* history: items whose change was made in a folder made anew
              \* since the last sync before the run was loaded
  unseen,     \* history: UIDs changed without the cache having been told
  halfway     \* history: items given up between their copy and its mark

server == <<condstore, hasMove>>
folder == <<box, next, high, validity, target>>
cache  == <<cached, generation, remembered>>
record == <<status, premise>>
ghosts == <<performed, taken, touched, strayed, unseen, halfway>>
vars   == <<server, folder, link, cache, record, run, step, ghosts>>

Nothing == [mail |-> NoMail, flagged |-> FALSE, marked |-> FALSE, modseq |-> 0]
Placed  == [mail : Mail \cup {NoMail}, flagged : BOOLEAN, marked : BOOLEAN,
            modseq : 0..MaxModseq]
NoPremise == [generation |-> 0, uid |-> 0, seen |-> Nothing]
Idle == [item |-> NoItem, at |-> "idle"]
NoRun == [todo |-> {}, generation |-> 0, remembered |-> 0,
          held |-> [u \in Uid |-> Nothing]]

TypeOK ==
  /\ condstore \in BOOLEAN /\ hasMove \in BOOLEAN
  /\ box \in [Uid -> Placed]
  /\ next \in 0..MaxUid
  /\ high \in 0..MaxModseq
  /\ validity \in 1..MaxValidity
  /\ target \subseteq Mail
  /\ link \in {"elsewhere", "selected", "dead"}
  /\ cached \in [Uid -> Placed]
  /\ generation \in 1..MaxValidity
  /\ remembered \in 1..MaxValidity
  /\ status \in [Item -> {"absent", "accepted", "applied", "stale"}]
  /\ premise \in [Item -> {NoPremise} \cup
                    [generation : 1..MaxValidity, uid : Uid, seen : Placed]]
  /\ run \in [todo : SUBSET Item, generation : 0..MaxValidity,
              remembered : 0..MaxValidity, held : [Uid -> Placed]]
  /\ step \in [item : Item \cup {NoItem},
               at : {"idle", "look", "command", "copied", "done", "refused", "unanswered"}]
  /\ performed \in [Item -> 0..2]
  /\ taken \subseteq Mail
  /\ touched \subseteq [item : Item, mail : Mail, asRead : BOOLEAN]
  /\ strayed \subseteq Item
  /\ unseen \subseteq Uid
  /\ halfway \subseteq Item

Init ==
  /\ condstore \in BOOLEAN /\ hasMove \in BOOLEAN
  /\ box = [u \in Uid |-> Nothing]
  /\ next = 0 /\ high = 0 /\ validity = 1
  /\ target = {}
  /\ link = "elsewhere"
  /\ cached = box
  /\ generation = 1 /\ remembered = 1
  /\ status = [i \in Item |-> "absent"]
  /\ premise = [i \in Item |-> NoPremise]
  /\ run = NoRun
  /\ step = Idle
  /\ performed = [i \in Item |-> 0]
  /\ taken = {} /\ touched = {} /\ strayed = {} /\ unseen = {} /\ halfway = {}

-----------------------------------------------------------------------------
(* The server, and its other clients                                       *)

\* What a change to a message leaves as its modseq, if changes are counted.
Counted == IF condstore THEN high + 1 ELSE 0

\* The bound on changes.
CanCount == high < MaxModseq

Put(u, placed) ==
  /\ box' = [box EXCEPT ![u] = placed]
  /\ high' = high + 1

Others == UNCHANGED <<server, target, cache, record, run, step, performed, taken,
                      touched, strayed, halfway>>

\* Mail arrives: new, or brought back from where it was.
Deliver(m) ==
  /\ next < MaxUid /\ CanCount
  /\ \A u \in Uid : box[u].mail # m
  /\ Put(next + 1, [mail |-> m, flagged |-> FALSE, marked |-> FALSE, modseq |-> Counted])
  /\ next' = next + 1
  /\ unseen' = unseen \cup {next + 1}
  /\ UNCHANGED <<validity, link>> /\ Others

\* Its flag, or \Deleted, is set or taken away.
Toggle(u) ==
  /\ box[u].mail # NoMail /\ CanCount
  /\ \/ Put(u, [box[u] EXCEPT !.flagged = ~@, !.modseq = Counted])
     \/ Put(u, [box[u] EXCEPT !.marked = ~@, !.modseq = Counted])
  /\ unseen' = unseen \cup {u}
  /\ UNCHANGED <<next, validity, link>> /\ Others

\* It is filed by somebody else, or expunged.
Leave(u) ==
  /\ box[u].mail # NoMail
  /\ box' = [box EXCEPT ![u] = Nothing]
  /\ unseen' = unseen \cup {u}
  /\ UNCHANGED <<next, high, validity, link>> /\ Others

\* The folder is removed and made anew: its UIDs and its count of changes
\* start over.  A session that had it selected is disconnected.
Remake ==
  /\ validity < MaxValidity
  /\ validity' = validity + 1
  /\ box' = [u \in Uid |-> Nothing]
  /\ next' = 0 /\ high' = 0
  /\ link' = IF link = "selected" THEN "dead" ELSE link
  /\ unseen' = Uid
  /\ Others

Drop ==
  /\ link # "dead"
  /\ link' = "dead"
  /\ UNCHANGED <<folder, unseen>> /\ Others

-----------------------------------------------------------------------------
(* Sync, what the person accepts, and the run                              *)

\* FAULT: a folder's identity, once known, is not looked at again.
IdentityBroken_Never == FALSE

\* FAULT: every sync finds the folder made anew.
IdentityBroken_Always == TRUE

IdentityBroken == validity # remembered

\* sync_container: the cache is brought up to the mailbox.  If the folder is
\* not the one remembered, the generation moves on, and what rested on the
\* old one is dead.  While a run is under way the sync is another process's,
\* on a connection of its own, and comes between two of its transactions.
Sync ==
  /\ step = Idle
  /\ cached' = box
  /\ remembered' = validity
  /\ IF IdentityBroken
     THEN /\ generation' = generation + 1
          /\ status' = [i \in Item |->
               IF status[i] = "accepted" /\ premise[i].generation = generation
               THEN "stale" ELSE status[i]]
     ELSE UNCHANGED <<generation, status>>
  /\ unseen' = {}
  /\ link' \in {link} \cup (IF link = "dead" \/ run # NoRun THEN {}
                            ELSE {"elsewhere", "selected"})
  /\ UNCHANGED <<server, folder, premise, run, step, performed, taken, touched,
                 strayed, halfway>>

\* Suggestions are made of what the cache shows, no two of a bundle of one
\* message, and accepted.
Decide(b, at) ==
  /\ \A i \in b : status[i] = "absent" /\ cached[at[i]].mail # NoMail
  /\ \A i, j \in b : at[i] = at[j] => i = j
  /\ status' = [i \in Item |-> IF i \in b THEN "accepted" ELSE status[i]]
  /\ premise' = [i \in Item |->
       IF i \in b
       THEN [generation |-> generation, uid |-> at[i], seen |-> cached[at[i]]]
       ELSE premise[i]]
  /\ UNCHANGED <<server, folder, link, cache, run, step, ghosts>>

\* apply_bundle is entered and commits for the first time: the list of the
\* items is made, and never again.
Start(b) ==
  LET todo == {i \in b : status[i] = "accepted"} IN
  /\ run = NoRun
  /\ todo # {}
  /\ run' = [todo |-> todo, generation |-> generation,
             remembered |-> remembered, held |-> cached]
  /\ UNCHANGED <<server, folder, link, cache, record, step, ghosts>>

\* The stop was called, and is noticed before the next item.
Stop ==
  /\ run # NoRun /\ step = Idle
  /\ run' = NoRun
  /\ UNCHANGED <<server, folder, link, cache, record, step, ghosts>>

\* The next item's turn, if there is one.
Past(i) == IF run.todo = {i} THEN NoRun ELSE [run EXCEPT !.todo = @ \ {i}]

-----------------------------------------------------------------------------
(* One item: the check, the look, the command, the record                  *)

\* FAULT: \Deleted is left out of what is compared, and so is the modseq.
Same_ButForDeleted(x, y) == x.flagged = y.flagged

\* Nothing happened to it as far as this server lets one tell: its modseq is
\* the same or, without CONDSTORE, its flags are (\Deleted is one of them).
Same(x, y) ==
  IF condstore THEN x.modseq = y.modseq
  ELSE x.flagged = y.flagged /\ x.marked = y.marked

Here(i) == box[premise[i].uid]

\* staleness.check, in the session of the run: the folder and the placement
\* it looks up are the objects that were loaded with the bundle.
Fresh(i) ==
  LET placement == run.held[premise[i].uid] IN
  /\ premise[i].generation = run.generation
  /\ placement.mail # NoMail
  /\ Same(placement, premise[i].seen)

\* A store asks for its condition itself; all else is looked at first.
Conditional(i) == condstore /\ i \notin Filing

\* _apply_one begins, and may end with the check.  What the item's status has
\* become since it was put on the list is not looked at.
Check(i) ==
  /\ step = Idle
  /\ i \in run.todo
  /\ \/ /\ ~Fresh(i)
        /\ status' = [status EXCEPT ![i] = "stale"]
        /\ run' = Past(i)
        /\ UNCHANGED step
     \/ /\ Fresh(i)
        /\ step' = [item |-> i, at |-> IF Conditional(i) THEN "command" ELSE "look"]
        /\ UNCHANGED <<status, run>>
  /\ UNCHANGED <<server, folder, link, cache, premise, ghosts>>

\* The folder is asked for the message as it is now: by _apply_one without
\* CONDSTORE, and by the move itself with it.
Look(i) ==
  /\ step = [item |-> i, at |-> "look"]
  /\ link # "dead"
  /\ link' = "selected"
  /\ step' = [step EXCEPT !.at =
       IF Here(i).mail # NoMail /\ Same(Here(i), premise[i].seen)
       THEN "command" ELSE "refused"]
  /\ UNCHANGED <<server, folder, cache, record, run, ghosts>>

\* FAULT: the condition is left out of the store.
Declines_Never(i) == FALSE

\* UNCHANGEDSINCE: the server stores nothing over a change, or over nothing.
Declines(i) ==
  /\ Conditional(i)
  /\ Here(i).mail = NoMail \/ Here(i).modseq > premise[i].seen.modseq

ByCopy(i) == i \in Filing /\ ~hasMove

Performs(i) ==
  performed' = [performed EXCEPT ![i] = IF @ = 0 THEN 1 ELSE 2]

\* What a command that the server carries out does there.  A UID that is no
\* more is no error.
Change(i) ==
  LET u == premise[i].uid
      m == Here(i).mail
  IN
  \/ /\ m = NoMail \/ Declines(i)
     /\ UNCHANGED <<folder, performed, taken, touched, strayed>>
  \/ /\ m # NoMail /\ ~Declines(i)
     /\ IF validity # run.remembered
        THEN strayed' = strayed \cup {i} /\ UNCHANGED touched
        ELSE /\ touched' = touched \cup
                  {[item |-> i, mail |-> m,
                    asRead |-> Conditional(i) => Same(Here(i), premise[i].seen)]}
             /\ UNCHANGED strayed
     /\ \/ /\ i \notin Filing
           /\ \/ Here(i).flagged /\ UNCHANGED <<box, high, performed>>
              \/ /\ ~Here(i).flagged /\ CanCount
                 /\ Put(u, [Here(i) EXCEPT !.flagged = TRUE, !.modseq = Counted])
                 /\ Performs(i)
           /\ UNCHANGED <<target, taken>>
        \/ /\ i \in Filing /\ hasMove
           /\ box' = [box EXCEPT ![u] = Nothing]
           /\ target' = target \cup {m}
           /\ taken' = taken \cup {m}
           /\ Performs(i)
           /\ UNCHANGED high
        \/ /\ ByCopy(i) /\ step.at = "command"
           /\ target' = target \cup {m}
           /\ Performs(i)
           /\ UNCHANGED <<box, high, taken>>
        \/ /\ ByCopy(i) /\ step.at = "copied"
           /\ \/ Here(i).marked /\ UNCHANGED <<box, high>>
              \/ /\ ~Here(i).marked /\ CanCount
                 /\ Put(u, [Here(i) EXCEPT !.marked = TRUE, !.modseq = Counted])
           /\ taken' = taken \cup {m}
           /\ UNCHANGED <<target, performed>>
     /\ UNCHANGED <<next, validity>>

Commanding(i) == step.item = i /\ step.at \in {"command", "copied"}

\* The server answers OK, or that it was declined.
Obeyed(i) ==
  /\ Commanding(i)
  /\ link # "dead"
  /\ link' = "selected"
  /\ Change(i)
  /\ step' = [step EXCEPT !.at =
       IF Declines(i) THEN "refused"
       ELSE IF ByCopy(i) /\ @ = "command" THEN "copied" ELSE "done"]
  /\ UNCHANGED <<server, cache, record, run, unseen, halfway>>

\* FAULT: a copy the server would not make is followed by its mark.
Answered_NoMatter(i) == IF ByCopy(i) /\ step.at = "command" THEN "copied" ELSE "refused"

\* What becomes of an item whose command failed.
Answered(i) == "refused"

\* The server answers NO: there is no such folder, or no room in it.
Denied(i) ==
  /\ Commanding(i)
  /\ link # "dead"
  /\ link' = "selected"
  /\ step' = [step EXCEPT !.at = Answered(i)]
  /\ halfway' = IF step.at = "copied" THEN halfway \cup {i} ELSE halfway
  /\ UNCHANGED <<server, folder, cache, record, run, performed, taken, touched,
                 strayed, unseen>>

\* There is no answer, whatever was done: an error of the library like a NO,
\* and the connection, which is kept for good, is dead.
CutOff(i) ==
  /\ Commanding(i)
  /\ link' = "dead"
  /\ \/ link # "dead" /\ Change(i)
     \/ UNCHANGED <<folder, performed, taken, touched, strayed>>
  /\ step' = [step EXCEPT !.at = "unanswered"]
  /\ unseen' = unseen \cup {premise[i].uid}
  /\ halfway' = IF ByCopy(i) THEN halfway \cup {i} ELSE halfway
  /\ UNCHANGED <<server, cache, record, run>>

\* The folder cannot be looked at, or selected: the task fails, and what it
\* had not recorded is as it was, as are the items after this one.
Raise(i) ==
  /\ step.item = i
  /\ step.at \in {"look", "command"}
  /\ link = "dead"
  /\ step' = Idle
  /\ run' = NoRun
  /\ UNCHANGED <<server, folder, link, cache, record, ghosts>>

\* FAULT: the cache is not told of a flag that was set.
Told_NotOfFlags(i, held, row) == IF i \in Filing THEN Nothing ELSE row

\* _update_cache.  A row that is gone remains so.  The flags written are those
\* in memory and the new one; if that is what memory has, nothing is written.
Told(i, held, row) ==
  IF i \in Filing THEN Nothing
  ELSE IF row.mail = NoMail \/ held.flagged THEN row
  ELSE [row EXCEPT !.flagged = TRUE, !.marked = held.marked]

\* The item's outcome is committed, over whatever a sync has made of it.  The
\* placement told is the one of the premise's generation: if that is not the
\* folder's any more, what is in the folder now is not told of.
Commit(i) ==
  LET u == premise[i].uid IN
  /\ step.item = i
  /\ \/ /\ step.at = "done"
        /\ status' = [status EXCEPT ![i] = "applied"]
        /\ \/ /\ premise[i].generation = generation
              /\ cached' = [cached EXCEPT ![u] = Told(i, run.held[u], @)]
              /\ UNCHANGED unseen
           \/ /\ premise[i].generation # generation
              /\ unseen' = unseen \cup {u}
              /\ UNCHANGED cached
     \/ /\ step.at \in {"refused", "unanswered"}
        /\ status' = [status EXCEPT ![i] = "stale"]
        /\ UNCHANGED <<cached, unseen>>
  /\ step' = Idle
  /\ run' = Past(i)
  /\ UNCHANGED <<server, folder, link, generation, remembered, premise, performed,
                 taken, touched, strayed, halfway>>

\* The service is killed, or stopped; the next one connects afresh.
Restart ==
  /\ step' = Idle
  /\ run' = NoRun
  /\ link' = "elsewhere"
  /\ IF step = Idle
     THEN UNCHANGED <<unseen, halfway>>
     ELSE /\ unseen' = unseen \cup {premise[step.item].uid}
          /\ halfway' = IF step.at = "copied" THEN halfway \cup {step.item} ELSE halfway
  /\ UNCHANGED <<server, folder, cache, record, performed, taken, touched, strayed>>

-----------------------------------------------------------------------------

World ==
  \/ \E m \in Mail : Deliver(m)
  \/ \E u \in Uid : Toggle(u) \/ Leave(u)
  \/ Remake
  \/ Drop

Runner(i) ==
  \/ Check(i) \/ Look(i)
  \/ Obeyed(i) \/ Denied(i) \/ CutOff(i)
  \/ Raise(i) \/ Commit(i)

Next ==
  \/ World
  \/ Sync
  \/ \E b \in Bundle : (\E at \in [b -> Uid] : Decide(b, at)) \/ Start(b)
  \/ Stop
  \/ \E i \in Item : Runner(i)
  \/ Restart

Spec == Init /\ [][Next]_vars

-----------------------------------------------------------------------------
(* Properties                                                              *)

\* A change is made to the message that was read, unless the folder was made
\* anew since the last sync before the run was loaded: what a sync finds out
\* once the run is under way does not reach it (staleness.check,
\* break_identity).
AppliesToWhatWasRead ==
  \A t \in touched : t.mail = premise[t.item].seen.mail

\* A change made under a condition was made to the message exactly as the
\* person was shown it, whoever else wrote meanwhile (store_flags), with the
\* same exception: a folder made anew counts its changes anew.
ConditionalIsHonest ==
  \A t \in touched : t.asRead

\* What the service takes out of a folder is in the one it was to go to
\* (client.move, with MOVE and without).
NoMailIsLost == taken \subseteq target

\* Through crashes, lost answers and retries an item's change is made once.
\* What was given up between a copy and its mark may be copied again, and so
\* may what bore the mark when it was read; if nothing counts changes, a flag
\* or a mark somebody took away is not missed, and set again; and so is what
\* a run went on doing to a folder that had been made anew.
DoneOnce ==
  \A i \in Item : performed[i] > 1 =>
    \/ i \in halfway
    \/ ByCopy(i) /\ premise[i].seen.marked
    \/ ~condstore /\ (i \notin Filing \/ ByCopy(i))
    \/ i \in strayed

\* What the service did to the mailbox itself, its cache knows without a sync
\* (_update_cache: "so the next staleness check does not see our own change"),
\* unless another process's sync found the folder made anew while the run was
\* under way: what it was told then is a row of the old generation.
CacheKnowsOwnChanges ==
  step = Idle =>
    \A u \in Uid \ unseen :
      \/ cached[u].mail = box[u].mail /\ cached[u].flagged = box[u].flagged
      \/ cached[u].mail = NoMail /\ box[u].marked

=============================================================================
