# mailmind in TLA+

mailmind stands between mail agents and a mailbox. An agent proposes changes
(file these, delete those, mark these) as *bundles* of *suggestions*; a person
reads a bundle on a review page and accepts, trims or rejects it; a background
runner applies what was accepted, over IMAP, to those messages that are still
what they were. The specifications here are translated from the code under
`src/src/mailmind/` and checked with TLC; what matters most of them is proved
with TLAPS for every value of their constants.

## The system

| part | code | state it keeps | operations that change it |
|---|---|---|---|
| suggestion lifecycle | `suggest/model.py` | bundles, suggestions, audit | propose, add, withdraw, exclude, accept, reject, expire |
| staleness | `suggest/staleness.py` | statuses of suggestions and bundles | refresh one bundle, sweep the queue |
| apply | `imap/apply.py` | the same, attempts, the cache, the mailbox | apply a bundle item by item, discard a folder |
| task queue | `tasks.py` | task rows | enqueue, claim, finish, requeue, rescue |
| runner | `worker.py` | lanes (memory), task rows | start, stop, dispatch, tick, execute |
| sync | `imap/sync.py` | folders, placements, watermarks | discover, absorb, mark vanished, break identity, fetch a body |
| IMAP client | `imap/client.py`, `backend.py`, `capabilities.py` | a connection, account health | select, fetch, store, move, create, delete, probe |
| cache and search | `db/cache.py` | messages, bodies, the search index | upsert, index, search, evict |
| content | `content/parse.py`, `findings.py` | none | parse, assess |
| scope and engine | `db/scope.py`, `db/engine.py` | transactions | begin, commit, roll back, audit |
| grants | `mcp/oauth.py` | pending logins, codes, tokens | authorize, consent, exchange, refresh, revoke |
| MCP surface | `mcp/server.py` | none of its own | the agent's tools |
| review UI | `web/app.py`, `views.py` | login, the chosen account | the person's pages and forms |
| process | `service.py`, `cli.py`, `config.py` | connections, one lock per account | serve, sync, probe |
| migrations, front end | `db/migrate.py`, `web/static/turbo.js` | the schema; none | upgrade; none |

How they meet. Agents (through the MCP surface), the person (through the
review UI), the runner's tick and its lanes, and the command line all write one
SQLite database. A writing scope begins `IMMEDIATE`, so one transaction is one
atomic step and nothing comes between its reads and its writes; but a session
keeps its objects over a commit (`expire_on_commit=False`), and the two loops
that commit as they go (the sweep, the apply) act on memory that others may
have overtaken: bundles, items, folders and placements are as they were when the
loop loaded them, and what is compared later is compared with that. The cache of the mailbox is written by sync and by apply, and
read by everybody; the mailbox itself changes under all of them.

What is hard to test here: a page read while its bundle grows; a sweep, an
expiry and a decision about one bundle between each other's commits; a service
stopped or killed anywhere between an acceptance and the last item of its
apply; rows in the database and lanes in memory that part; two processes on one
database, which the documented client configuration starts; a mailbox that
changes between the check and the command. `PROJECT.json` lists each hazard at
its line with the properties about it, or with the reason why there is none.

What makes each part correct, in a sentence: nothing happens to the mailbox
that the person did not accept from a page that showed it (lifecycle); a
suggestion whose premise died is not applied (staleness, apply, sync); the
record says what was done (apply); an accepted bundle is applied or visibly
failed, by one lane, once (queue, runner); the cache converges on the mailbox
(sync); a grant gives what was agreed to until it is taken back (grants).

## The modules

**`Consent`** is the abstract specification: a person reads items on a page,
says yes to some, each at most once, and what they said yes to happens at most
once. It knows nothing of statuses, sweeps, memories or restarts.

**`Review`** is the life of a bundle. `bstatus` and `istatus` are the two status
columns, `premise` the placement a suggestion was computed against, `batch` the
transaction that added it (the code compares suggestion ids; the ids of one
transaction are on one side of a page's `reviewed_through`), `page` what the
open tabs show, `sweep` and `run` what the two loops hold in memory over their
commits (the statuses, and in `fresh` which premises were good at the load),
`effects` the attempts recorded as applied. A *look* is what one placement row
says of a message; the cache gives each message its looks. One action is one
transaction:

- agent: `Propose`, `Grow`, `Withdraw`;
- person: `OpenPage` (which refreshes and commits first), `Exclude`, `Accept`
  (which refreshes, and keeps what the refresh wrote when it refuses), `Reject`;
- tick: `Expire`, then `SweepFirst` and a `SweepNext` for each other bundle, or
  `SweepNothing`;
- runner: `ApplyNothing`, or `ApplyStart`, then `ApplyDone` or `ApplyRefused`
  for each item, or `ApplyUnhealthy`; `ApplyFinish`;
- the world: `CacheChanges` and `IdentityBreaks` (sync), `HealthChanges`,
  `FallDue`, `ServiceStops` (which forgets `sweep` and `run`).

**`TaskQueue`** is `tasks.py` with the dispatcher of `worker.py`, for any number
of processes. Rows are numbered by age (`claim_next` takes the oldest). `lanes`
and `begun` are in a process's memory: a lane is made by `Claim`, looks once at
its row and its bundle in `Begin` (with nothing to apply, that is also its end),
and ends by `Done`, `Fail`, `Interrupt` or `Lose` (the record of the failure
failed too). `Start` either recovers, in one transaction,
or logs that it could not; `StopCalled`, `DispatcherEnds` and `Exit` are an
orderly end, which waits for the lanes, and `Crash` any other. Of a bundle it
knows whether it is accepted; `Review` has the rest, and `CloseBundle` stands
for every way there in which a bundle closes without being applied.

**`Apply`** is what the apply of flags, moves and deletions (moves to Trash)
does to one folder. `box` is the folder (what lies at each UID, flagged, marked
for deletion, with what modseq), `next`, `high` and `validity` its UIDNEXT,
HIGHESTMODSEQ and UIDVALIDITY; `cached`, `generation` and `remembered` are the
placements and the container row; `premise` is what a suggestion was computed
against; `run` is the memory of the apply under way, from `Start` to the last
item or `Stop`: the items still on its list, and the folder and its placements
as they were loaded; `step` is the item being applied and how far its commands
have got: `Check` (`staleness.check`, against that memory), `Look` (the fetch before a command that cannot be
conditional), then the command, which is `Obeyed`, `Denied` or `CutOff`, or the
selecting of the folder fails and the task with it (`Raise`), then `Commit`. A
move without MOVE is two commands. Between any two of these the folder's other
clients `Deliver`, `Toggle` (set or take away the flag, or the mark that says
deleted), `Leave` and `Remake`, the connection `Drop`s, and the service may
`Restart`. Setting what is set already is no change and counts as none.
`performed`, `touched`, `taken` and `strayed` are history: how often each item's
change was made, to what, and whether in a folder made anew since the last sync
before the run was loaded. Writing scopes begin `IMMEDIATE`, so from the check to
the commit nobody else writes the database; a `Sync` falls between runs, or,
another process's and on a connection of its own, between the items of one. It
may turn an item stale, or move the generation on, and the run does not see it.
`Decide` accepts a bundle's suggestions together, no two of one message.
Whether the server has CONDSTORE and MOVE is chosen in `Init`. What an apply
does to bundles is in `Review`. Of the server it is assumed that a folder which
is removed is lost to the sessions that had it selected; and a message put back
gets a new UID, as RFC 3501 has it.

**`Folders`** is what bundles do to folders. `server` and `lives` are the
folders and how many have had each name (the last one's UIDVALIDITY); `rows`
the container rows; `bundles` those that move mail into a folder and those that
discard folders, with the generation each folder had when it was proposed; `run`
the apply under way, with the rows of its folders as it loaded them
(`memory`). Other clients `MakeFolder`, `DropFolder`, `Arrive`,
`TakeOut` and `Depart`; `Discover` adopts what is listed, `SyncFolder` breaks the
identity of a folder made anew and kills the discards that rest on it.
`ProposeMove` (with `resolve_target`, which may revive a discarded row),
`ProposeDiscard` and `Accept` are transactions. A run is `Make` and `NoteMade`,
then for each item, in `_in_order`'s `Turn`, `Check` and a `Put`, or `Check`,
`Look`, `LookUnder`, `Delete` and `NoteDeleted`. `Check` is of the remembered row
(`StillFresh`); only how much a folder holds is asked of the database, for the
remembered generation. It is refused in `NotMade` and
`NotDeleted` and lost in `CutShort`. From `Check` to the item's commit the
database is its own (`Free`); the server is not.

**`Sync`** is one folder and what the cache has of it. `box` is the folder;
`container`, `placements`, `facts` and `bodies` are the rows, of which `facts`
says whose body, if any, a message's preview, index and findings rest on;
`syncs` is what each sync has in memory, and `lock` the one with an open
transaction. A sync is `Load` (a row in `discover_containers`, long before its
turn), `SelectSame` or `SelectOther` (which breaks the identity, and holds the
write lock to the first commit), then `List` and `ReadBatch`, or `ReadChanged`;
`Absorb` commits a batch; `ListAgain`; `Finish` marks what vanished and moves the
watermarks. A column is written only if it differs from what the session holds
(`Told`), which is what makes two syncs at once worse than one after the other.
`Fail` is any end before that, `LoseFolder` the server's. `FetchBody` is the task
of a reader's ask, `Evicted` the budget. Between any two of these other clients
`Deliver`, `Touch`, `Expunge` and `Recreate`. A batch is one message here and
200 in the code.

**`Authority`** is the abstract specification of letting agents in: something is
agreed to and may be taken back; a call begins under what stands, and says
nothing that goes beyond what it began with; a pipe makes an agreement of its own
only for a name nobody agreed to anything for. That is its `Promised`, and what
the documents say. The code does two things more, which are kept apart as
`Departures`: `BeginOutlived` (a pipe goes on with what was taken back) and
`AgreeInItsPlace` (a pipe makes a new agreement where one was taken back). `Next`
is both, so that the rest of the code is held to the promise. It knows no logins, codes or tokens.

**`Grants`** is how that is done. `requests` are the logins, one row from
`/authorize` to the tokens; `grants`, `pairs` (an access and a refresh token),
`producers`, `clients` and `mail` (the accounts) the other rows; `desk` is the
credential a token request has looked up and not yet spent, which the SDK holds
between two transactions; `pipe` is the grant of a process on a pipe; `calls` is
the view each call resolved. The person: `Allow` (a consent page in any tab),
`RevokeGrant`, `MakeGrant`, `SeedAccount`, `ForgetAccount`. Logging in:
`RegisterClient`, `Authorize`, `LoadCode` and `ExchangeCode`, `LoadRefresh` and
`ExchangeRefresh`, `EndAccess` and `EndRefresh`, `LapseRequest` and `LapseCode`.
Calling: `LoadAccess`, `LoadGrant` and `ReadPipe` begin a call, `Observe`, `Ask`,
`Suggest`, `Assess` and `ReadBundles` answer it. Whatever has an expiry may
lapse at any moment; time is not counted. A forgotten account's id may be used
again, which SQLite does.

`ReviewProofs`, `TaskQueueProofs`, `ApplyProofs`, `FoldersProofs`, `SyncProofs`
and `GrantsProofs` hold the proofs; `MCReview`, `MCTaskQueue`, `MCApply`,
`MCFolders`, `MCSync` and `MCGrants` the instances.

How the modules fit. `Review` and `TaskQueue` share the bundle's acceptance;
`Review`, `Apply` and `Folders` are the same apply seen from the record, from a
folder's messages and from the folders; `Apply` and `Folders` take a sync for one
step, and `Sync` is what is in that step; `Grants` says who may call the tools
which `Review`'s agent, `Folders`' proposals and `TaskQueue`'s asks stand for.
`Review` implements `Consent`, and `Grants` implements `Authority`.

## The runs

| run | instance | shows |
|---|---|---|
| `review_growth` | 1 bundle, 2 messages, 2 looks in 2 folders, 1 tab, 2 batches | `KeepsConsent`: `Review` implements `Consent`, with a page older than the bundle's growth; `TakenOutStaysOut`; `DueBundlesLeave`, under fairness of the tick, through restarts |
| `review_sweep` | 2 bundles (one files, one flags), 1 message, 1 look, 1 tab | `ItemsMatchBundle`, `RecordMatchesEffects`, `EndsStand`, for every bundle that is not in `overtaken` |
| `review_overtaken` | the same | a violation, of `StaleBundleDidNothing`: see below |
| `tasks_queue` | 2 processes, an apply and a sync of one account, 3 rows, symmetric processes | `OneLiveRow`, `OneLanePerAccount`, `RunningIsRun` while no two processes overlap; `AcceptedIsNotForgotten` always |
| `tasks_served` | 1 process, an apply and a sync of one account, a body of another | `QueuedIsServed`, under fairness |
| `apply_mailbox` | a suggestion that flags and one that files, 2 messages, 1 UID, 2 lives of the folder, 2 changes in each | `AppliesToWhatWasRead`, `ConditionalIsHonest`, `NoMailIsLost`, `DoneOnce`, `CacheKnowsOwnChanges`, on servers with and without CONDSTORE and MOVE |
| `folders_agreed` | 2 folders, one under the other, a move and a discard, 2 steps of others, 2 lives, 2 generations | `TakesOnlyEmpty`, `TakesWhatWasProposed`, `MoveFindsItsFolder`, `AllOfItGoes`; `AcceptedCloses`, under fairness of runs |
| `sync_follow` | 2 syncers, 2 messages, 2 UIDs, 2 changes, 2 lives, symmetric messages and syncers | `MessageAtItsUid`, `NothingOverlooked`, `GoneStaysGone`, on servers with and without CONDSTORE |
| `sync_bodies` | 1 syncer, 2 messages whose bodies are wanted and do not both fit, 3 changes, 2 lives | `BodyIsItsOwn`, `FetchedIsKept`; `ComesIntoStep`, under fairness |
| `sync_preview` | 1 syncer, 1 message | a violation, of `PreviewStays`: see below |
| `grants_login` | 2 clients, one of them named as the person is, and so is the pipe, 1 login, 2 grants, 3 pairs, 2 token requests at once | `SpentOnce`, `OneRefreshWorks`, `AgreedOnce`, `HeldByItsClient`, `NoAgentIsThePerson` |
| `grants_calls` | 1 client, 1 account, 1 login, 2 grants, 1 pair, a pipe, 1 call | `KeepsAuthority`: `Grants` implements `Authority`; `SpeaksOfItsOwn` |

Each run of a module checks its type invariant once.

Bounds. Two messages are what growing after a page was drawn takes, and two
bundles what a sweep between two commits takes; a bundle's items do not meet but
in its status, and two bundles only through a message's placements. `MaxBatch`
is 2: one batch the page has seen and one it has not. Three task rows are the
fewest in which a failed, a retried and a rescued row for one bundle exist
together. In `Apply` UIDs meet only through the count of changes, so one UID is
enough for two messages to be taken for each other, in two lives of the folder;
two suggestions are what it takes for one to meet what the other did, and two
changes for the arrival and one more, the service's own or somebody else's,
before the check or after; they start over with each life of the folder. `high` counts them on a server without CONDSTORE too, which does
not tell. In `Folders` a parent and a child are what an order of discards takes,
and two steps of others one before and one after a check; every name may come to
be twice, once by others and once by a move. In `Sync` two syncers and two UIDs
are what a batch between another sync's batches takes, a second life is what a
broken identity takes; a third generation leaves room for a break that two syncs
count twice. In `Grants` two grants are the login's and one of the command line's or
a pipe's, or a revoked one and what comes after it, three pairs one exchange and two rotations, and two desks a race for one
credential. The proofs are for every bound.

Fairness. `Review` assumes it of the tick alone: the dispatcher's loop ticks
before each pass and survives a busy database. `TaskQueue` assumes it of the
dispatcher, for the same reason, and of a lane that has begun: every IMAP call
is taken to return or to raise. `QueuedIsServed` speaks of a process that goes
on serving and is alone. `Folders` assumes that a run under way goes on and
that an accepted bundle is taken up again, which is what `TaskQueue` shows of its
row and its retries; `AcceptedCloses` speaks of behaviours in which runs are at
some point no longer cut short, nor refused by the server. `Sync` assumes that a
sync under way goes on and that the service is asked for the next (a person or
an agent asks; the code has no timer), and `ComesIntoStep` speaks of behaviours
in which syncs are at some point no longer cut short; the folder comes to rest
because its changes are bounded. Nobody is obliged to propose, read, decide,
retry or start a process.

Deadlock is checked in every run but `grants_login` and `sync_preview`, whose
bounds use everything up: no account and no call, and one life of one message.

## What the code does that its comments do not say

- `review_overtaken`: `sweep_queue` reads all proposed bundles with their
  suggestions, folders and placements, then refreshes each in a transaction of
  its own, from that memory. A bundle all of whose premises were good at the load
  is left alone, whatever has become of it. But an item that was dead then, and
  whose placement came back to its premise (flags set and taken away again,
  without CONDSTORE), can be accepted before the sweep comes to it; the sweep
  turns it and its bundle `stale`, although a run has applied it or is about to.
  `db/models.py` says of such a bundle that it was "reached without a decision".
  Every status property about bundles is therefore stated of those the sweep did
  not overtake; `KeepsConsent` and `TakenOutStaysOut` hold of all.
- `sync_preview`: a sync parses the headers of every message it is told of and
  writes what it made of them over what the body had told: preview,
  attachments, search text and findings go while the body stays.
  `mcp/server.py` says "A preview exists once a body has been fetched".

These are known too, and no run of theirs shows them: each is an exception that a
property states, by a history variable or, of the promise about agents, as a
departure.

- An item a sync has found stale is applied all the same (`strayed` in `Apply`).
  `apply_bundle` makes its list once and checks each item against the folder and
  the placement it loaded. Another process's sync that finds the folder made anew
  after that (the command line's) turns the items `stale` and moves the generation
  on; the run applies them to what has the UIDs now, and writes `applied` over
  `stale`. `db/models.py:665` says of a stale suggestion "Never applied to
  whatever happens to be there now", and `imap/sync.py:210` the same. A run that
  discards deletes the new folder, if it is empty, in the old one's place.
- A pipe outlives a revocation (`BeginOutlived` of `Authority`): it reads its grant
  when it is started and answers every call from that, until it is closed.
  `web/app.py:1195` says of revoking that there is "nothing that outlives the
  decision", and `docs/design/13-logging-an-agent-in.md:89` that it "kills
  everything under it".
- A grant that was revoked is replaced by a full one (`AgreeInItsPlace`): a pipe
  looks at the newest grant of its producer, and makes one of everything over
  every account if that was revoked. `docs/design/12-an-agent-of-your-own.md:42`
  says "Only if the producer has no grant at all does stdio mint a full one", and
  `docs/connecting.md:93` likewise. An older grant that stands and is narrower is
  passed over too.
- A folder made anew since the last sync before the run was loaded (`strayed` in
  `Apply`): UIDVALIDITY is compared by a sync only, and what a sync finds out
  during the run does not reach it. On a server without CONDSTORE a message with
  the UID and the flags of the one that was read is flagged or moved in its
  place; with it, the new folder counts its changes from the start, and a store
  under the old folder's higher count is let through. For the same reason an
  item may be done twice (the last exception of `DoneOnce`), and the cache of the
  new generation is not told (`unseen`).
  A folder that is to be discarded is found by its name alone in the same way
  (the second disjunct of `TakesWhatWasProposed`), and a body by its UID
  (`blind` in `Sync`).
- A move without MOVE is a copy and a mark, and nothing remembers the first: cut
  short in between it is copied again (`halfway`), and so is a message that bore
  the mark when it was read, since the second copy then finds it as it was. On a
  server without CONDSTORE what somebody unflagged or unmarked since is flagged
  or moved again (the exceptions of `DoneOnce`).
- A command over a dead connection is taken for a refusal (`unanswered`), and
  the item put down as stale, where the code says "this item and the rest stay
  accepted". The connection is kept, so the items behind it follow.
- Two processes on one database (`overlapped` in `TaskQueue`): `claim_next` is
  "single consumer by design", but each process with a review UI runs a
  dispatcher, and its recovery takes the rows the other is running for rows a
  crash left behind.
- A recovery that failed (`missed`): "the first dispatch pass claims whatever
  this would have queued anyway", but that looks only at queued rows, and later
  asks coalesce onto the row that nobody runs.
- Two syncs at once (`overlap` and `mixed` in `Sync`) may leave the watermark
  ahead of what was absorbed, which one full sync alone mends, or bring
  messages of two lives together under one generation, which nothing mends.
- A first sync that is cut short has no UIDVALIDITY in the row yet, and a folder
  made anew before the next is not recognised as another (`early`).

And these were met on the way, and no property is about them:

- `apply.py:80` says that a bundle whose every item is dead "should leave no
  trace on the mailbox"; the folder is made before any item is looked at.
- Bodies are evicted by `last_read_at`, which only the fetch of a body sets: the
  one that goes is the one fetched longest ago. A body that alone is over the
  budget is evicted as it comes, and `request_body`'s "call it until the body
  arrives" never ends.
- `GET /` refreshes the shown bundles in a reading scope; a bundle that has to
  be written raises `ReadOnlyScope` until a tick has swept it.
- An account once marked unreachable is marked up again by the probe alone.
- A writing scope that awaits the network (the first batch after a broken
  identity, every item of an apply) holds the database's write lock over it.

## What is proved

By TLAPS, for every value of the constants, from the assumptions `ConstantsOK`
(the nulls are no members, the bounds are naturals, a folder is a set of looks),
`AsksOK` (there are finitely many asks, each with an account; bundles are
among what stops early), `FoldersOK` (what lies under a folder lies under those
above it), `GrantsOK` (clients and pipes have names),
`SyncOK` (each message's text has a size), and `NoneIsNoRow` (the null is none
of the rows).

`ReviewProofs`:
- `TypeCorrect`: each action, by the forms of the values it builds.
- `ConsentInvariant`, and from it `TakenOutNeverReturns` and `ConsentIsKept`
  (`Spec => Promise!Spec`). Neither is inductive. What a page has *missed* must
  carry a later batch than the page, so that the acceptance is refused; what a
  run, or the sweep's memory, still has to do must lie in what was granted, and
  not yet in what was done; a bundle no longer proposed never is again, so a
  second acceptance is impossible. That sweep and runner write from memory is
  why the invariant speaks of `run.mem` and `sweep.seen`, and why it survives
  an overtaken bundle: the sweep only ever turns an item stale. It does not need
  to know what the checks compare.

- `RecordInvariant`, of every bundle that is not overtaken: its items are such as
  its status allows, they are applied just when their change was made, and a run
  has the record in mind as it is. It rests on `ConsentInv`, by which what was
  done was granted. `BundlesSettleTheirItems`, `RecordIsTrue` and
  `DecisionsStand` follow; so do `StaleDidNothing`, the property that
  `review_overtaken` violates, for every other bundle, and `EndedIsOver`: a
  bundle that has ended changes nothing any more.

`TaskQueueProofs`, all from `QueueInvariant`:
- the lanes of a process are of rows that exist, and empty when it is down
  (`LanesOfUp`); while no two processes overlapped, a row with a lane is running
  (`LanesRunning`), lanes of one process are of different accounts
  (`LanesApart`), and one process at most is up (`OnlyOneUp`);
- both ways of adding rows, `Enqueue` and `Recover`, add one row for each ask
  that was in flight nowhere and keep the rows there were (`EnqueueEffect`,
  `RecoverEffect`), which is all that `AddsInv` needs;
- the theorems `AskedOnce`, `MailboxHasOneLane`, `AcceptanceIsRemembered`,
  `RunningHasItsLane` and `TypeCorrect` follow.

`ApplyProofs`, all from `ApplyInvariant`:
- as long as the folder is the one last synced, where a cached placement or an
  accepted premise has a UID the folder has that message, not older than it was
  read, or nothing (`CacheHolds`, `PremisesHold`); this needs UIDs and modseqs
  to be counted upwards (`Counting`) and a sync's memory never to be ahead of
  the folder (`Lives`);
- a run that is under way has in memory a generation that is not ahead of the
  present one and, while the folder is the one it loaded, placements that are what
  the folder has or had (`RunHolds`); the item being applied passed its check
  against that, whatever a sync has made of it since, and what was looked at over
  a connection that is still alive is in the same life of the folder, so a copy's
  mark falls on the message that was copied (`StepHolds`);
- `ReadIsApplied`, `ConditionHolds`, `MailIsKept` and `TypeCorrect` follow.
`HoldsOn` and `StepOn` say once what every step of the other clients leaves
standing; each action then shows that it is of that kind. Two more rest on it:
- `OnceInvariant`, and from it `ChangesAreMadeOnce`: an item whose change was
  made and that is accepted or on a run's list finds the message gone or past the
  modseq that was read (`Behind`), rests on a folder that was made anew, is
  between its copy and its mark, or is one of the exceptions (`Spent`). That it
  rests on a folder made anew ends nothing, since the run goes by its memory: a
  second change is then made in a folder that is not the one it loaded, which is
  the exception `strayed`; and a move is looked at before it is made, so that in
  the folder the run did load no spent one is about to be made (`Primed`). The proof is what found the
  exception of the message that was marked when it was read: one suggestion
  that files cannot meet it on a folder where nobody else marks.
- `AwareInvariant`, and from it `OwnChangesAreKnown`: where nobody else wrote
  the cache is right (`Known`), but for the one UID that is worked on between
  the server's answer and the commit, where what was to be done is done; a commit
  under a generation that has moved on leaves the UID to the next sync.

`FoldersProofs`, from `FoldersInvariant`:
- a folder that is there has a life (`LivesHold`); a folder a
  bundle is about has a row, whose generation never goes back (`ItemsHold`), and
  as long as it is the one the proposal was made in, the row tells of the folder
  it told of then (`PremisesHold`); the rows a run remembers told of the same when
  they were loaded (`MemoryHolds`), and of the item under way that was checked
  (`ItemHolds`), which is why the folder that goes is the proposed one only as far
  as the memory tells; what the server was asked holds
  but for what came since (`LookHolds`);
- `OnlyEmptyFoldersGo`, `TheProposedFolderGoes` and `TypeCorrect` follow;
- `MovesFindTheirFolder` needs two more, proved on top: a row that says its
  folder is there is right unless it vanished untold (`RowsTell`), and once a
  move's run is past the making of its one folder that folder is there, or
  vanished untold (`MovesHold`);
- `AllThatWasAgreedGoes` needs `CleanHolds`: in a run of a discard that nobody
  disturbed, what is left on its list is what is still accepted, the rows it
  remembers of it are good, all of it is there, empty and as it was agreed, and
  so is what lies under it, but for the folder that was taken and not yet noted;
  and, by the order of the items, nothing of it lies under the one it is at.

`SyncProofs`, from `SyncInvariant`. No property of `Sync` is inductive, since
what a sync will write it has in memory, and what it read may have changed since:
- `Sound` holds whatever happened: types, that a placed message has a row, that
  versions and UIDs are counted upwards, and that a sync's memory is not ahead;
- a sync with nobody beside it has the row in mind as it is, or as it has broken
  it (`MindOf`); what it is about to write is of the message that is at that
  UID, and what it is about to forget is gone (`PlacementsHold`, `BatchOf`);
- whatever has not changed since it selected the folder it still has to read,
  has read, or has put down (`ReadingOf`), and the watermark that is, or that is
  to be, has nothing behind it that is not right (`WatermarkHolds`, `AheadOf`);
- the parts rest on different exceptions: `ReadingOf` asks only that no sync is
  beside, so that a full sync alone mends the watermark after two at once;
- `RemembersWhatIsThere`, `WatermarkIsNotAhead`, `WhatIsGoneStaysGone`,
  `ShownWithItsOwn`, `WhatIsFetchedIsKept` and `TypeCorrect` follow. That a body
  is its own needs what is remembered to be right, and lemmas on `Recached` and
  `Evicted`, which leave each row they keep as it was; that it is kept needs that
  it is put down last (`RecachedIsLast`) and that making room stops at the last
  row if it alone fits (`LastIsSpared`). The sum of the sizes is a fold, of which
  the values at no row and at one are all that this takes.

`GrantsProofs`:
- `LoginInvariant` ties each credential at a desk to who may spend it, each pair
  to what it was had for, each grant to the login it was agreed in; from it
  `CredentialsAreSpentOnce`, `RotationLeavesOne` (which has to say that before
  the code is spent the grant has no pair at all), `LoginIsAgreedOnce`,
  `TokensAreTheClients`, `ThePersonIsNoAgent` and `TypeCorrect`;
- `ViewsInvariant`: a view is older than what it is asked for, but of its
  accounts those whose row is the first of its id are still its grant's
  (`Covers`), since who forgets an account takes every grant's hold on it along;
  from it `CallsSpeakOfTheirOwn`;
- `AuthorityIsKept` (`Spec => Authority`): each action is a step of `Authority`
  or a stutter, by `TypeOK` and, for a call on a pipe, `ViewsInvariant`: every
  action is a promised step but `ReadPipe`, which departs if the pipe's grant was
  revoked, and `AttachNew`, which departs if the producer's newest was. A call
  that has begun is not stopped by a revocation, in the promise either.

Every safety property of the passing runs, invariant or of steps, is stated by
a theorem. Only model-checked are the liveness properties `DueBundlesLeave`,
`QueuedIsServed`, `AcceptedCloses` and `ComesIntoStep`, which are beyond the
prover. `RecordInv`, `CleanHolds`, `ViewsHold` and what `OnceInv` and `AwareInv`
add to `ApplyInv` were checked by TLC, each on the instance of the run it belongs
to, before they were proved.

## What is not modelled

The content of messages (parsing, findings, search text) is data to all of the
above. The translation of an agent's query into SQL and FTS terms reads only.
The turn of an account's folders (`sync_account`), of which the first that fails
ends the rest, is left out: `Sync` has one folder. The wire is a library's.
Progress, the event hub and the listings are read by nobody that changes state.
Migrations run with the service stopped. Configuration and the command line are
parsing, but for what `Grants` has of them. The login of the review UI is one
cookie compared with one secret. The IMAP client's probe is its verdict alone.

## Plan

1. Done: `Consent`, `Review`, `TaskQueue`, `Apply`, `Folders`, `Sync`,
   `Authority`, `Grants`, and the proofs above.
2. Done: the safety properties of the runs, proved.
3. Two bundles that discard one folder, and the turn of several folders.
4. The query translation as a pure function against a reference definition.
