------------------------------- MODULE Review -------------------------------
(***************************************************************************)
(* The life of a proposal: suggest/model.py, suggest/staleness.py, the     *)
(* review routes of web/app.py, the housekeeping tick of worker.py and the *)
(* database side of imap/apply.py.                                         *)
(*                                                                         *)
(* One action is one committed transaction: every writing scope begins     *)
(* IMMEDIATE (db/engine.py), so a transaction sees what is committed and   *)
(* nothing comes between its reads and its writes.  What a session keeps   *)
(* in memory ACROSS a commit is not so protected (expire_on_commit=False), *)
(* and two loops do that: the sweep of the review queue (sweep.seen and    *)
(* .fresh) and the application of a bundle (run.mem and .fresh).           *)
(* Placements and containers are loaded with the bundles and held as long, *)
(* so both loops compare premises with the cache as it was at the load.    *)
(*                                                                         *)
(* The mailbox is seen only through the cache.  A "look" is what one       *)
(* placement row says of a message: folder, generation, UID, and its       *)
(* modseq (or, without CONDSTORE, its flags).  Sync changes the cache at   *)
(* will and a look may come back, as a set of flags does.                  *)
(***************************************************************************)
EXTENDS Naturals, FiniteSets

CONSTANTS
  Message,    \* the messages of one account
  Look,       \* the states of a placement that premises tell apart
  Folder,     \* a folder, as the set of looks a placement in it can have
  Bundle,     \* the bundles that may ever be proposed
  Target,     \* Target[b]: the looks that lie in b's target folder, if any
  Filing,     \* the bundles that move or delete; the others change a flag
  Tab,        \* review pages that may be open at once
  MaxSize,    \* limits.max_bundle_size
  MaxBatch,   \* bound: how many transactions may add items to one bundle
  NoBundle, NoLook   \* the null of each kind

ASSUME ConstantsOK ==
  /\ NoBundle \notin Bundle
  /\ NoLook \notin Look
  /\ Folder \subseteq SUBSET Look
  /\ Target \in [Bundle -> SUBSET Look]
  /\ Filing \subseteq Bundle
  /\ MaxSize \in Nat
  /\ MaxBatch \in Nat \ {0}

BundleStatus == {"unused", "proposed", "accepted", "applied", "partially_applied",
                 "rejected", "withdrawn", "expired", "stale"}
ItemStatus == {"absent", "proposed", "excluded", "accepted", "applied",
               "rejected", "withdrawn", "expired", "stale"}
\* Before the first probe health is unknown, which nothing here tells from
\* read_only.
Health == {"ok", "read_only", "down"}

\* FAULT: sync also kills the suggestions already carried out.
LiveItem_AndApplied == {"proposed", "accepted", "applied"}

\* Statuses of an item that may still come to something (staleness, sync).
LiveItem == {"proposed", "accepted"}

VARIABLES
  cache,     \* for each message, the looks of its live placements
  health,    \* Account.health
  bstatus,   \* Bundle.status
  istatus,   \* Suggestion.status of each message in each bundle
  premise,   \* the look each suggestion was computed against
  batch,     \* which transaction of its bundle wrote the suggestion
  batches,   \* how many transactions have added items to the bundle
  due,       \* bundles whose expires_at has passed
  page,      \* the review page shown in each tab
  sweep,     \* the tick: its stage, the bundles left to refresh, its memory
  run,       \* the application in progress: its bundle, its items, its memory
  effects,   \* the ApplyAttempt rows with outcome "applied"
  granted,   \* history: what each acceptance accepted
  takenOut,  \* history: what the reviewer excluded
  overtaken  \* history: bundles the sweep rewrote from an outdated memory

ghosts == <<granted, takenOut, overtaken>>
items  == <<premise, batch, batches>>
vars   == <<cache, health, bstatus, istatus, items, due, page, sweep, run,
            effects, ghosts>>

NoPage == [bundle |-> NoBundle, through |-> 0, showed |-> {}, ack |-> FALSE]
\* mem, seen: the statuses in memory; fresh: the items whose premises hold of
\* the placements in memory.
NoRun  == [bundle |-> NoBundle, todo |-> {},
           mem |-> [m \in Message |-> "absent"], fresh |-> {}]
Idle   == [stage |-> "idle", todo |-> {},
           seen |-> [b \in Bundle |-> [m \in Message |-> "absent"]],
           fresh |-> [b \in Bundle |-> {}]]

TypeOK ==
  /\ cache \in [Message -> SUBSET Look]
  /\ health \in Health
  /\ bstatus \in [Bundle -> BundleStatus]
  /\ istatus \in [Bundle -> [Message -> ItemStatus]]
  /\ premise \in [Bundle -> [Message -> Look \cup {NoLook}]]
  /\ batch \in [Bundle -> [Message -> 0..MaxBatch]]
  /\ batches \in [Bundle -> 0..MaxBatch]
  /\ due \subseteq Bundle
  /\ page \in [Tab -> [bundle : Bundle \cup {NoBundle}, through : 0..MaxBatch,
                       showed : SUBSET Message, ack : BOOLEAN]]
  /\ sweep \in [stage : {"idle", "expired", "sweeping"}, todo : SUBSET Bundle,
                seen : [Bundle -> [Message -> ItemStatus]],
                fresh : [Bundle -> SUBSET Message]]
  /\ run \in {NoRun} \cup [bundle : Bundle, todo : SUBSET Message,
                           mem : [Message -> ItemStatus], fresh : SUBSET Message]
  /\ effects \subseteq Bundle \X Message
  /\ granted \subseteq Bundle \X Message
  /\ takenOut \subseteq Bundle \X Message
  /\ overtaken \subseteq Bundle

Init ==
  /\ cache \in [Message -> {{l} : l \in Look}]
  /\ health = "ok"
  /\ bstatus = [b \in Bundle |-> "unused"]
  /\ istatus = [b \in Bundle |-> [m \in Message |-> "absent"]]
  /\ premise = [b \in Bundle |-> [m \in Message |-> NoLook]]
  /\ batch = [b \in Bundle |-> [m \in Message |-> 0]]
  /\ batches = [b \in Bundle |-> 0]
  /\ due = {}
  /\ page = [t \in Tab |-> NoPage]
  /\ sweep = Idle
  /\ run = NoRun
  /\ effects = {}
  /\ granted = {}
  /\ takenOut = {}
  /\ overtaken = {}

-----------------------------------------------------------------------------
(* Staleness: did what this suggestion assumed stop being true?            *)

\* staleness.check: the placement the premise names is still there, as it was.
Fresh(b, m) == premise[b][m] \in cache[m]

FreshItems(b) == {m \in Message : Fresh(b, m)}

\* One bundle's statuses, with every live item that has died marked so.
Marked(status, fresh) ==
  [m \in Message |-> IF status[m] \in LiveItem /\ m \notin fresh
                     THEN "stale" ELSE status[m]]

\* Staleness emptied it.  A bundle emptied by excluding is another story.
NothingSurvived(status) ==
  /\ \A m \in Message : status[m] \notin LiveItem
  /\ \E m \in Message : status[m] = "stale"

\* refresh_bundle on rows read in this same transaction.
Refreshed(b) == Marked(istatus[b], FreshItems(b))

Refresh(b) ==
  /\ istatus' = [istatus EXCEPT ![b] = Refreshed(b)]
  /\ bstatus' = [bstatus EXCEPT ![b] =
       IF @ = "proposed" /\ NothingSurvived(Refreshed(b)) THEN "stale" ELSE @]

-----------------------------------------------------------------------------
(* The agent: proposing, growing, taking back                              *)

\* FAULT: an excluded message counts as not in the bundle.
Holds_NotTheExcluded(b) ==
  {m \in Message : istatus[b][m] \notin {"absent", "excluded"}}

Holds(b) == {m \in Message : istatus[b][m] # "absent"}

\* A message found or named can enter the bundle when the placement picked
\* for it (_live_placement: the most recently seen) is live and elsewhere.
CanEnter(b, pick, m) == pick[m] \in cache[m] \ Target[b]

\* propose_bundle.  Naming messages refuses unless each can enter; a query
\* leaves out those that cannot.  Either way some subset enters, at once.
Propose(b, S) ==
  /\ bstatus[b] = "unused"
  /\ health # "down"
  /\ S # {}
  /\ Cardinality(S) <= MaxSize
  /\ istatus' = [istatus EXCEPT ![b] =
       [m \in Message |-> IF m \in S THEN "proposed" ELSE @[m]]]
  /\ \E pick \in [S -> Look] :
       /\ \A m \in S : CanEnter(b, pick, m)
       /\ premise' = [premise EXCEPT ![b] =
            [m \in Message |-> IF m \in S THEN pick[m] ELSE @[m]]]
  /\ batch' = [batch EXCEPT ![b] =
       [m \in Message |-> IF m \in S THEN 1 ELSE @[m]]]
  /\ batches' = [batches EXCEPT ![b] = 1]
  /\ bstatus' = [bstatus EXCEPT ![b] = "proposed"]
  /\ UNCHANGED <<cache, health, due, page, sweep, run, effects, ghosts>>

\* add_to_bundle, by the producer that owns it.  What the query found and the
\* bundle already holds is left alone, whatever became of it there; S is the
\* rest of what can enter.  A refusal rolls the refresh back with all else.
Grow(b, S) ==
  /\ bstatus[b] = "proposed"
  /\ ~NothingSurvived(Refreshed(b))
  /\ health # "down"
  /\ batches[b] < MaxBatch
  /\ S # {}
  /\ S \cap Holds(b) = {}
  /\ Cardinality(Holds(b) \cup S) <= MaxSize
  /\ \E pick \in [S -> Look] :
       /\ \A m \in S : CanEnter(b, pick, m)
       /\ premise' = [premise EXCEPT ![b] =
            [m \in Message |-> IF m \in S THEN pick[m] ELSE @[m]]]
  /\ istatus' = [istatus EXCEPT ![b] =
       [m \in Message |-> IF m \in S THEN "proposed" ELSE Refreshed(b)[m]]]
  /\ batch' = [batch EXCEPT ![b] =
       [m \in Message |-> IF m \in S THEN batches[b] + 1 ELSE @[m]]]
  /\ batches' = [batches EXCEPT ![b] = @ + 1]
  /\ UNCHANGED <<cache, health, bstatus, due, page, sweep, run, effects, ghosts>>

\* FAULT: closing a bundle leaves its items awaiting review.
Settle_BundleOnly(b, status) ==
  /\ bstatus' = [bstatus EXCEPT ![b] = status]
  /\ UNCHANGED istatus

\* What becomes of the items nobody decided, when their bundle closes.
Settle(b, status) ==
  /\ bstatus' = [bstatus EXCEPT ![b] = status]
  /\ istatus' = [istatus EXCEPT ![b] =
       [m \in Message |-> IF @[m] = "proposed" THEN status ELSE @[m]]]

Withdraw(b) ==
  /\ bstatus[b] = "proposed"
  /\ Settle(b, "withdrawn")
  /\ UNCHANGED <<cache, health, items, due, page, sweep, run, effects, ghosts>>

-----------------------------------------------------------------------------
(* The person: reading a page, excluding, accepting, rejecting             *)

\* bundle_page, for a bundle awaiting review: refresh and commit, then draw
\* the session's own snapshot.  Only such a page carries the review forms.
OpenPage(t, b) ==
  /\ bstatus[b] = "proposed"
  /\ Refresh(b)
  /\ page' = [page EXCEPT ![t] =
       IF NothingSurvived(Refreshed(b)) THEN NoPage
       ELSE [bundle  |-> b,
             through |-> batches[b],
             showed  |-> {m \in Message : Refreshed(b)[m] = "proposed"},
             ack     |-> \E m \in Message : Refreshed(b)[m] = "stale"]]
  /\ UNCHANGED <<cache, health, items, due, sweep, run, effects, ghosts>>

\* exclude: it looks at the item and not at the bundle.
Exclude(t, m) ==
  LET b == page[t].bundle IN
  /\ b # NoBundle
  /\ m \in page[t].showed
  /\ istatus[b][m] = "proposed"
  /\ istatus' = [istatus EXCEPT ![b][m] = "excluded"]
  /\ takenOut' = takenOut \cup {<<b, m>>}
  /\ UNCHANGED <<cache, health, bstatus, items, due, page, sweep, run, effects,
                 granted, overtaken>>

\* FAULT: any page of the bundle will do, however old.
IsThePageTheyRead_AnyPage(t, b) == page[t].through # 0

\* The premise of the review: nothing arrived after the page was drawn.
IsThePageTheyRead(t, b) ==
  /\ page[t].through # 0
  /\ \A m \in Holds(b) : batch[b][m] <= page[t].through

\* What the refresh left can be accepted from a page that did, or did not,
\* ask the person to acknowledge what died.
Acceptable(status, ack) ==
  /\ ~NothingSurvived(status)
  /\ ack \/ \A m \in Message : status[m] # "stale"
  /\ \E m \in Message : status[m] = "proposed"

\* accept_bundle.  A refusal after the refresh keeps what the refresh wrote.
Accept(t) ==
  LET b     == page[t].bundle
      taken == {m \in Message : Refreshed(b)[m] = "proposed"}
  IN
  /\ b # NoBundle
  /\ bstatus[b] = "proposed"
  /\ IsThePageTheyRead(t, b)
  /\ \/ /\ ~Acceptable(Refreshed(b), page[t].ack)
        /\ Refresh(b)
        /\ UNCHANGED granted
     \/ /\ Acceptable(Refreshed(b), page[t].ack)
        /\ bstatus' = [bstatus EXCEPT ![b] = "accepted"]
        /\ istatus' = [istatus EXCEPT ![b] =
             [m \in Message |-> IF m \in taken THEN "accepted" ELSE Refreshed(b)[m]]]
        /\ granted' = granted \cup ({b} \X taken)
  /\ UNCHANGED <<cache, health, items, due, page, sweep, run, effects,
                 takenOut, overtaken>>

Reject(t) ==
  LET b == page[t].bundle IN
  /\ b # NoBundle
  /\ bstatus[b] = "proposed"
  /\ Settle(b, "rejected")
  /\ UNCHANGED <<cache, health, items, due, page, sweep, run, effects, ghosts>>

-----------------------------------------------------------------------------
(* Housekeeping: expiry, then the sweep of the queue                       *)

\* Time passes for a proposal nobody gets to.
FallDue(b) ==
  /\ bstatus[b] = "proposed"
  /\ due' = due \cup {b}
  /\ UNCHANGED <<cache, health, bstatus, istatus, items, page, sweep, run,
                 effects, ghosts>>

\* FAULT: expires what is due whatever became of it.
Expire_AnyStatus ==
  /\ sweep.stage = "idle"
  /\ sweep' = [sweep EXCEPT !.stage = "expired"]
  /\ bstatus' = [b \in Bundle |-> IF b \in due THEN "expired" ELSE bstatus[b]]
  /\ UNCHANGED <<cache, health, istatus, items, due, page, run, effects, ghosts>>

\* FAULT: expires only a bundle that still holds an item awaiting review.
Expire_IfAnythingAwaits ==
  LET expiring == {b \in due : /\ bstatus[b] = "proposed"
                               /\ \E m \in Message : istatus[b][m] = "proposed"} IN
  /\ sweep.stage = "idle"
  /\ sweep' = [sweep EXCEPT !.stage = "expired"]
  /\ bstatus' = [b \in Bundle |-> IF b \in expiring THEN "expired" ELSE bstatus[b]]
  /\ istatus' = [b \in Bundle |-> [m \in Message |->
       IF b \in expiring /\ istatus[b][m] = "proposed"
       THEN "expired" ELSE istatus[b][m]]]
  /\ UNCHANGED <<cache, health, items, due, page, run, effects, ghosts>>

\* expire_due, in one transaction.
Expire ==
  LET expiring == {b \in due : bstatus[b] = "proposed"} IN
  /\ sweep.stage = "idle"
  /\ sweep' = [sweep EXCEPT !.stage = "expired"]
  /\ bstatus' = [b \in Bundle |-> IF b \in expiring THEN "expired" ELSE bstatus[b]]
  /\ istatus' = [b \in Bundle |-> [m \in Message |->
       IF b \in expiring /\ istatus[b][m] = "proposed"
       THEN "expired" ELSE istatus[b][m]]]
  /\ UNCHANGED <<cache, health, items, due, page, run, effects, ghosts>>

\* sweep_queue reads every bundle awaiting review, with its items, into the
\* session, and refreshes one of them before its first checkpoint.
SweepNothing ==
  /\ sweep.stage = "expired"
  /\ \A b \in Bundle : bstatus[b] # "proposed"
  /\ sweep' = Idle
  /\ UNCHANGED <<cache, health, bstatus, istatus, items, due, page, run,
                 effects, ghosts>>

SweepFirst(b) ==
  LET rest == {c \in Bundle : bstatus[c] = "proposed"} \ {b} IN
  /\ sweep.stage = "expired"
  /\ bstatus[b] = "proposed"
  /\ Refresh(b)
  /\ sweep' = IF rest = {} THEN Idle
              ELSE [stage |-> "sweeping", todo |-> rest,
                    seen |-> [c \in Bundle |-> IF c \in rest THEN istatus[c]
                                               ELSE Idle.seen[c]],
                    fresh |-> [c \in Bundle |-> IF c \in rest THEN FreshItems(c)
                                                ELSE {}]]
  /\ UNCHANGED <<cache, health, items, due, page, run, effects, ghosts>>

\* Each of the others is refreshed in a transaction of its own, and what the
\* session holds of it and of its placements is what it read before the first
\* checkpoint: the rows it found dead then are written over, whatever they
\* have become since.
SweepNext(b) ==
  LET seen == sweep.seen[b]
      mem  == Marked(seen, sweep.fresh[b])
      rest == sweep.todo \ {b}
  IN
  /\ sweep.stage = "sweeping"
  /\ b \in sweep.todo
  /\ istatus' = [istatus EXCEPT ![b] =
       [m \in Message |-> IF mem[m] # seen[m] THEN mem[m] ELSE @[m]]]
  /\ bstatus' = [bstatus EXCEPT ![b] = IF NothingSurvived(mem) THEN "stale" ELSE @]
  /\ sweep' = IF rest = {} THEN Idle
              ELSE [sweep EXCEPT !.todo = rest, !.seen[b] = Idle.seen[b], !.fresh[b] = {}]
  /\ overtaken' = IF bstatus[b] # "proposed" \/ istatus[b] # seen
                  THEN overtaken \cup {b} ELSE overtaken
  /\ UNCHANGED <<cache, health, items, due, page, run, effects,
                 granted, takenOut>>

-----------------------------------------------------------------------------
(* The runner: applying what was accepted                                  *)

\* FAULT: an item's outcome written to the bundle.
Outcome_Failed(mem) ==
  IF \A m \in Message : mem[m] # "stale" THEN "applied" ELSE "failed"

\* _rollup and the end of apply_bundle, over the session's own statuses.
Outcome(mem) ==
  IF \A m \in Message : mem[m] # "stale" THEN "applied" ELSE "partially_applied"

\* apply_bundle finds nothing left to apply.  In one transaction: either an
\* earlier run applied something, or the bundle closes as stale.
ApplyNothing(b) ==
  /\ run = NoRun
  /\ bstatus[b] = "accepted"
  /\ health = "ok"
  /\ \A m \in Message : istatus[b][m] # "accepted"
  /\ bstatus' = [bstatus EXCEPT ![b] =
       IF \E m \in Message : istatus[b][m] = "applied"
       THEN Outcome(istatus[b]) ELSE "stale"]
  /\ UNCHANGED <<cache, health, istatus, items, due, page, sweep, run, effects,
                 ghosts>>

\* apply_bundle reads the bundle with its placements, sees to its target
\* folder, and commits.
ApplyStart(b) ==
  LET accepted == {m \in Message : istatus[b][m] = "accepted"} IN
  /\ run = NoRun
  /\ bstatus[b] = "accepted"
  /\ health = "ok"
  /\ accepted # {}
  /\ run' = [bundle |-> b, todo |-> accepted, mem |-> istatus[b],
             fresh |-> accepted \cap FreshItems(b)]
  /\ UNCHANGED <<cache, health, bstatus, istatus, items, due, page, sweep,
                 effects, ghosts>>

\* The rows one item's transaction writes.
Conclude(m, status) ==
  /\ istatus' = [istatus EXCEPT ![run.bundle][m] = status]
  /\ run' = [run EXCEPT !.todo = @ \ {m}, !.mem[m] = status]

\* _apply_one, the second check failed, or the server declined: refused.
ApplyRefused(m) ==
  /\ m \in run.todo
  /\ Conclude(m, "stale")
  /\ UNCHANGED <<cache, health, bstatus, items, due, page, sweep, effects, ghosts>>

\* What the row of the premise's placement shows now: the premise's look or,
\* if a sync has been at it since, another or (the row is gone) none.
ShownNow(b, m) ==
  IF Fresh(b, m) THEN {{premise[b][m]}} ELSE {{}} \cup {{l} : l \in cache[m]}

\* _apply_one, the change was made: the placement leaves the cache if the
\* message was filed, and shows some other (or the same) look if not.
ApplyDone(m) ==
  LET b == run.bundle IN
  /\ m \in run.todo \cap run.fresh
  /\ Conclude(m, "applied")
  /\ effects' = effects \cup {<<b, m>>}
  /\ \E old \in ShownNow(b, m) :
       \/ /\ b \in Filing \/ old = {}
          /\ cache' = [cache EXCEPT ![m] = @ \ old]
       \/ /\ b \notin Filing /\ old # {}
          /\ \E l \in Look : cache' = [cache EXCEPT ![m] = (@ \ old) \cup {l}]
  /\ UNCHANGED <<health, bstatus, items, due, page, sweep, ghosts>>

\* MailboxUnhealthy escapes: the run is over, the item and the rest stay
\* accepted.
ApplyUnhealthy ==
  /\ run.todo # {}
  /\ health' = "down"
  /\ run' = NoRun
  /\ UNCHANGED <<cache, bstatus, istatus, items, due, page, sweep, effects, ghosts>>

ApplyFinish ==
  /\ run # NoRun
  /\ run.todo = {}
  /\ bstatus' = [bstatus EXCEPT ![run.bundle] = Outcome(run.mem)]
  /\ run' = NoRun
  /\ UNCHANGED <<cache, health, istatus, items, due, page, sweep, effects, ghosts>>

-----------------------------------------------------------------------------
(* The world: the mailbox as sync reports it, and the service's own end    *)

\* A sync commits what it saw of a message.
CacheChanges(m) ==
  /\ \E looks \in SUBSET Look : cache' = [cache EXCEPT ![m] = looks]
  /\ UNCHANGED <<health, bstatus, istatus, items, due, page, sweep, run,
                 effects, ghosts>>

\* break_identity: a folder was recreated; its placements are gone and the
\* live suggestions resting on them dead.  Bundles are left as they are.
IdentityBreaks(f) ==
  /\ cache' = [m \in Message |-> cache[m] \ f]
  /\ istatus' = [b \in Bundle |-> [m \in Message |->
       IF istatus[b][m] \in LiveItem /\ premise[b][m] \in f
       THEN "stale" ELSE istatus[b][m]]]
  /\ UNCHANGED <<health, bstatus, items, due, page, sweep, run, effects, ghosts>>

\* probe_account, or another task that finds the mailbox unreachable.
HealthChanges ==
  /\ health' \in Health \ {health}
  /\ UNCHANGED <<cache, bstatus, istatus, items, due, page, sweep, run,
                 effects, ghosts>>

\* The service stops, in order or by a crash: what only a session held is gone.
ServiceStops ==
  /\ run' = NoRun
  /\ sweep' = Idle
  /\ UNCHANGED <<cache, health, bstatus, istatus, items, due, page, effects,
                 ghosts>>

-----------------------------------------------------------------------------

Agent(b) ==
  \/ \E S \in SUBSET Message : Propose(b, S) \/ Grow(b, S)
  \/ Withdraw(b)

Reviewer(t) ==
  \/ \E b \in Bundle : OpenPage(t, b)
  \/ \E m \in Message : Exclude(t, m)
  \/ Accept(t)
  \/ Reject(t)

Tick == Expire \/ SweepNothing \/ \E b \in Bundle : SweepFirst(b) \/ SweepNext(b)

Runner ==
  \/ \E b \in Bundle : ApplyNothing(b) \/ ApplyStart(b)
  \/ \E m \in Message : ApplyRefused(m) \/ ApplyDone(m)
  \/ ApplyUnhealthy
  \/ ApplyFinish

World ==
  \/ \E m \in Message : CacheChanges(m)
  \/ \E f \in Folder : IdentityBreaks(f)
  \/ \E b \in Bundle : FallDue(b)
  \/ HealthChanges
  \/ ServiceStops

Next ==
  \/ \E b \in Bundle : Agent(b)
  \/ \E t \in Tab : Reviewer(t)
  \/ Tick
  \/ Runner
  \/ World

Spec == Init /\ [][Next]_vars

\* The dispatcher's loop ticks for as long as the service is up (worker.py,
\* _tick_if_due); nothing obliges an agent, a person or the mailbox.
FairSpec == Spec /\ WF_vars(Tick)

-----------------------------------------------------------------------------
(* Properties                                                              *)

\* What is done to the mailbox was accepted, from a page that showed it, once
\* (suggest/model.py accept and _refuse_unless_this_is_the_page_they_read;
\* imap/apply.py): the service keeps its promise to the person.
Promise == INSTANCE Consent WITH
  reading <- [t \in Tab |-> {page[t].bundle} \X page[t].showed]

KeepsConsent == Promise!Spec

\* What the reviewer took out of a bundle is never part of what is accepted
\* or applied, though agents add to the bundle, sweeps rewrite it and pages
\* drawn before the exclusion are still open (exclude, _add_messages).
TakenOutStaysOut == takenOut \cap (granted \cup effects) = {}

\* The statuses an item can have in a bundle of each status: closing a bundle
\* settles every item in it, which is what lets exclude look at the item only.
AllowedItems ==
  [unused    |-> {"absent"},
   proposed  |-> {"absent", "proposed", "excluded", "stale"},
   accepted  |-> {"absent", "accepted", "excluded", "stale", "applied"},
   applied   |-> {"absent", "excluded", "applied"},
   partially_applied |-> {"absent", "excluded", "applied", "stale"},
   rejected  |-> {"absent", "excluded", "stale", "rejected"},
   withdrawn |-> {"absent", "excluded", "stale", "withdrawn"},
   expired   |-> {"absent", "excluded", "stale", "expired"},
   stale     |-> {"absent", "excluded", "stale"}]

\* Unless the sweep overtook it, a bundle and its items tell the same story.
ItemsMatchBundle ==
  \A b \in Bundle \ overtaken, m \in Message :
    istatus[b][m] \in AllowedItems[bstatus[b]]

\* Unless the sweep overtook it, the record says of an item that it was
\* applied exactly when a change was made for it.
RecordMatchesEffects ==
  \A b \in Bundle \ overtaken, m \in Message :
    istatus[b][m] = "applied" <=> <<b, m>> \in effects

\* Unless the sweep overtakes it, a bundle that reached the end of its life
\* stays as it ended: a decision or an outcome is never replaced by another.
Terminal == BundleStatus \ {"unused", "proposed", "accepted"}

EndsStand ==
  [][\A b \in Bundle \ overtaken' :
       bstatus[b] \in Terminal => bstatus'[b] = bstatus[b]]_vars

\* A proposal nobody gets to leaves the queue (worker.py _tick_if_due,
\* suggest/model.py expire_due), restarts notwithstanding.
DueBundlesLeave ==
  \A b \in Bundle :
    (bstatus[b] = "proposed" /\ b \in due) ~> (bstatus[b] # "proposed")

\* db/models.py on BundleStatus.stale, "there is nothing left to apply ...
\* Terminal, and reached without a decision", and imap/apply.py, "Nothing was
\* ever done to the mailbox": a stale bundle changed nothing.
StaleBundleDidNothing ==
  \A b \in Bundle, m \in Message : bstatus[b] = "stale" => <<b, m>> \notin effects

=============================================================================
