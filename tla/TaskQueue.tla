------------------------------ MODULE TaskQueue ------------------------------
(***************************************************************************)
(* Background work: tasks.py and worker.py.                                *)
(*                                                                         *)
(* A task row says what to do and how far it has got; a process that       *)
(* serves a review UI also runs a dispatcher, which claims rows and gives  *)
(* each a lane.  Lanes live in memory and rows in the database, so the     *)
(* two can part: a crash, a stop in the middle of a run, a recovery that   *)
(* fails, or a second process that takes the first one's rows for work a   *)
(* crash interrupted.  Any number of processes may serve one database:     *)
(* "serve" runs a dispatcher and so does every "mcp --serve --port 0".     *)
(*                                                                         *)
(* One action is one committed transaction, or one step of a process that  *)
(* touches only its memory.                                                *)
(***************************************************************************)
EXTENDS Naturals, FiniteSets, Functions

CONSTANTS
  Process,    \* the processes that may run a dispatcher
  Account,    \* the accounts: a lane works on one of them
  Ask,        \* what can be asked for: a kind of task and its subject
  AccountOf,  \* the account of each ask
  Apply,      \* the asks whose subject is a bundle to apply
  Resumable,  \* the asks whose executor stops early when told to
  MaxRows,    \* bound: how many rows the table may come to hold
  NoAsk       \* what a row that does not exist yet asks for

ASSUME AsksOK ==
  /\ AccountOf \in [Ask -> Account]
  /\ IsFiniteSet(Ask)
  /\ Apply \subseteq Resumable
  /\ Resumable \subseteq Ask
  /\ MaxRows \in Nat
  /\ NoAsk \notin Ask

Row == 1..MaxRows

VARIABLES
  count,      \* how many rows there are; a row's number is its age
  ask,        \* what each row asks for
  status,     \* TaskStatus of each row
  bundle,     \* of each bundle: not decided, accepted, or closed
  phase,      \* of each process: its dispatcher's state
  lanes,      \* the rows each process has a lane for
  begun,      \* those of them that are at work
  overlapped, \* history: two processes have been up at once
  missed,     \* history: rows the last recovery failed to take up again
  lost        \* history: rows whose failure could not be recorded since

ghosts == <<overlapped, missed, lost>>
rows   == <<count, ask, status>>
vars   == <<rows, bundle, phase, lanes, begun, ghosts>>

TaskStatus == {"absent", "queued", "running", "done", "failed"}

\* tasks.LIVE: statuses that make an ask one already in flight.
LIVE == {"queued", "running"}

Up(p) == phase[p] # "down"

TypeOK ==
  /\ count \in 0..MaxRows
  /\ ask \in [Row -> Ask \cup {NoAsk}]
  /\ status \in [Row -> TaskStatus]
  /\ bundle \in [Apply -> {"proposed", "accepted", "closed"}]
  /\ phase \in [Process -> {"down", "serving", "stopping", "stopped"}]
  /\ lanes \in [Process -> SUBSET Row]
  /\ begun \in [Process -> SUBSET Row]
  /\ overlapped \in BOOLEAN
  /\ missed \subseteq Row
  /\ lost \subseteq Row

Init ==
  /\ count = 0
  /\ ask = [i \in Row |-> NoAsk]
  /\ status = [i \in Row |-> "absent"]
  /\ bundle = [a \in Apply |-> "proposed"]
  /\ phase = [p \in Process |-> "down"]
  /\ lanes = [p \in Process |-> {}]
  /\ begun = [p \in Process |-> {}]
  /\ overlapped = FALSE
  /\ missed = {}
  /\ lost = {}

-----------------------------------------------------------------------------
(* Asking                                                                  *)

Live(a) == \E i \in Row : ask[i] = a /\ status[i] \in LIVE

\* FAULT: coalesces onto what is waiting, not onto what is running.
Enqueue_IfNotQueued(a) ==
  IF \E i \in Row : ask[i] = a /\ status[i] = "queued"
  THEN UNCHANGED rows
  ELSE /\ count < MaxRows
       /\ count' = count + 1
       /\ ask' = [ask EXCEPT ![count + 1] = a]
       /\ status' = [status EXCEPT ![count + 1] = "queued"]

\* tasks.enqueue: a new row, or the live one the ask coalesces onto.
Enqueue(a) ==
  IF Live(a)
  THEN UNCHANGED rows
  ELSE /\ count < MaxRows
       /\ count' = count + 1
       /\ ask' = [ask EXCEPT ![count + 1] = a]
       /\ status' = [status EXCEPT ![count + 1] = "queued"]

\* A sync or a body is asked for, on a page or by an agent.
Request(a) ==
  /\ a \in Ask \ Apply
  /\ Enqueue(a)
  /\ UNCHANGED <<bundle, phase, lanes, begun, ghosts>>

\* accept_bundle: the decision and the ask, in one transaction.
AcceptBundle(a) ==
  /\ bundle[a] = "proposed"
  /\ bundle' = [bundle EXCEPT ![a] = "accepted"]
  /\ Enqueue(a)
  /\ UNCHANGED <<phase, lanes, begun, ghosts>>

\* A bundle closes without being applied: turned down, expired, dead, or
\* overtaken by the sweep (Review.tla).
CloseBundle(a) ==
  /\ bundle[a] # "closed"
  /\ bundle' = [bundle EXCEPT ![a] = "closed"]
  /\ UNCHANGED <<rows, phase, lanes, begun, ghosts>>

\* retry_task: only a failed row, and an apply only while it can still be.
Retry(i) ==
  /\ status[i] = "failed"
  /\ ask[i] \in Apply => bundle[ask[i]] = "accepted"
  /\ Enqueue(ask[i])
  /\ UNCHANGED <<bundle, phase, lanes, begun, ghosts>>

-----------------------------------------------------------------------------
(* The dispatcher                                                          *)

\* The bundles of S one after the other, in some order.
Orders(S) == Bijection(1..Cardinality(S), S)

\* Accepted bundles that no live row will apply, once the running rows are
\* queued again.
Stranded == {a \in Apply : bundle[a] = "accepted" /\ ~Live(a)}

\* FAULT: rescues the bundles, and leaves the running rows as they are.
Recover_OnlyRescue ==
  LET rescued == Cardinality(Stranded) IN
  /\ count + rescued <= MaxRows
  /\ count' = count + rescued
  /\ \E order \in Orders(Stranded) :
       ask' = [i \in Row |-> IF i \in count + 1..count + rescued
                             THEN order[i - count] ELSE ask[i]]
  /\ status' = [i \in Row |-> IF i \in count + 1..count + rescued
                              THEN "queued" ELSE status[i]]
  /\ missed' = {}
  /\ lost' = {}

\* requeue_interrupted and rescue_accepted_bundles, in one transaction: every
\* running row, whoever runs it, and a row for every stranded bundle.
Recover ==
  LET rescued == Cardinality(Stranded) IN
  /\ count + rescued <= MaxRows
  /\ count' = count + rescued
  /\ \E order \in Orders(Stranded) :
       ask' = [i \in Row |-> IF i \in count + 1..count + rescued
                             THEN order[i - count] ELSE ask[i]]
  /\ status' = [i \in Row |->
       IF status[i] = "running" \/ i \in count + 1..count + rescued
       THEN "queued" ELSE status[i]]
  /\ missed' = {}
  /\ lost' = {}

\* TaskRunner.start.  A recovery that fails is logged, and the dispatcher
\* started all the same.
Start(p) ==
  /\ phase[p] = "down"
  /\ phase' = [phase EXCEPT ![p] = "serving"]
  /\ overlapped' = (overlapped \/ \E q \in Process : Up(q))
  /\ \/ Recover
     \/ /\ missed' = {i \in Row : status[i] = "running"}
        /\ UNCHANGED <<rows, lost>>
  /\ UNCHANGED <<bundle, lanes, begun>>

Busy(p) == {AccountOf[ask[i]] : i \in lanes[p]}

\* FAULT: does not look at what its own lanes are busy with.
Claimable_AnyAccount(p) == {i \in Row : status[i] = "queued"}

Claimable(p) == {i \in Row : status[i] = "queued" /\ AccountOf[ask[i]] \notin Busy(p)}

\* _one_pass: the oldest queued row whose account has no lane here.  A pass
\* under way when the stop is called, or that found the schema had drifted,
\* still claims its row, and is the last.
Claim(p, i) ==
  /\ phase[p] \in {"serving", "stopping"}
  /\ i \in Claimable(p)
  /\ \A j \in Claimable(p) : i <= j
  /\ status' = [status EXCEPT ![i] = "running"]
  /\ lanes' = [lanes EXCEPT ![p] = @ \cup {i}]
  /\ phase' = [phase EXCEPT ![p] = IF @ = "stopping" THEN "stopped" ELSE @]
  /\ UNCHANGED <<count, ask, bundle, begun, ghosts>>

\* The stop is called: shutdown, schema drift, or a bug in the dispatcher.
StopCalled(p) ==
  /\ phase[p] = "serving"
  /\ phase' = [phase EXCEPT ![p] = "stopping"]
  /\ UNCHANGED <<rows, bundle, lanes, begun, ghosts>>

DispatcherEnds(p) ==
  /\ phase[p] = "stopping"
  /\ phase' = [phase EXCEPT ![p] = "stopped"]
  /\ UNCHANGED <<rows, bundle, lanes, begun, ghosts>>

\* TaskRunner.stop waits for every lane.
Exit(p) ==
  /\ phase[p] = "stopped"
  /\ lanes[p] = {}
  /\ phase' = [phase EXCEPT ![p] = "down"]
  /\ UNCHANGED <<rows, bundle, lanes, begun, ghosts>>

Crash(p) ==
  /\ Up(p)
  /\ phase' = [phase EXCEPT ![p] = "down"]
  /\ lanes' = [lanes EXCEPT ![p] = {}]
  /\ begun' = [begun EXCEPT ![p] = {}]
  /\ UNCHANGED <<rows, bundle, ghosts>>

-----------------------------------------------------------------------------
(* A lane: execute, and how it can end                                     *)

\* FAULT: a lane that ended still counts as one.
LaneEnds_NotPopped(p, i) ==
  /\ begun' = [begun EXCEPT ![p] = @ \ {i}]
  /\ UNCHANGED lanes

LaneEnds(p, i) ==
  /\ lanes' = [lanes EXCEPT ![p] = @ \ {i}]
  /\ begun' = [begun EXCEPT ![p] = @ \ {i}]

\* The bundle is not accepted, or not any more.
NothingToApply(i) == ask[i] \in Apply /\ bundle[ask[i]] # "accepted"

\* The only look at the row's status, and at the bundle's: what is running no
\* more is left alone.
Begin(p, i) ==
  /\ i \in lanes[p] \ begun[p]
  /\ \/ /\ status[i] = "running" /\ ~NothingToApply(i)
        /\ begun' = [begun EXCEPT ![p] = @ \cup {i}]
        /\ UNCHANGED lanes
     \/ /\ status[i] # "running"
        /\ LaneEnds(p, i)
  /\ UNCHANGED <<rows, bundle, phase, ghosts>>

\* A task is under way, or ends in the transaction it began in.
InHand(p, i) ==
  \/ i \in begun[p]
  \/ i \in lanes[p] /\ status[i] = "running" /\ NothingToApply(i)

Finish(p, i, s) ==
  /\ InHand(p, i)
  /\ status' = [status EXCEPT ![i] = s]
  /\ LaneEnds(p, i)
  /\ UNCHANGED <<count, ask, phase, ghosts>>

\* FAULT: the row is given the bundle's new status.
Done_AsBundle(p, i) ==
  /\ Finish(p, i, IF ask[i] \in Apply THEN "closed" ELSE "done")
  /\ bundle' = IF ask[i] \in Apply THEN [bundle EXCEPT ![ask[i]] = "closed"]
               ELSE bundle

\* The work is done, or there is none: a bundle comes to its end in the same
\* transaction, if it had not before.
Done(p, i) ==
  /\ Finish(p, i, "done")
  /\ bundle' = IF ask[i] \in Apply THEN [bundle EXCEPT ![ask[i]] = "closed"]
               ELSE bundle

\* The mailbox was unreachable, the account unfit or the executor broke.
Fail(p, i) ==
  /\ Finish(p, i, "failed")
  /\ UNCHANGED bundle

\* FAULT: what was interrupted is put down as done.
Interrupt_AsDone(p, i) ==
  /\ phase[p] \in {"stopping", "stopped"}
  /\ i \in begun[p]
  /\ ask[i] \in Resumable
  /\ Finish(p, i, "done")
  /\ UNCHANGED bundle

\* The stop was called and the executor noticed in time.  It goes by the bundle
\* it loaded, which was accepted, whatever has become of that since.
Interrupt(p, i) ==
  /\ phase[p] \in {"stopping", "stopped"}
  /\ i \in begun[p]
  /\ ask[i] \in Resumable
  /\ Finish(p, i, "queued")
  /\ UNCHANGED bundle

\* It broke, and so did the transaction that was to say so.
Lose(p, i) ==
  /\ InHand(p, i)
  /\ LaneEnds(p, i)
  /\ lost' = lost \cup {i}
  /\ UNCHANGED <<rows, bundle, phase, overlapped, missed>>

End(p, i) == Done(p, i) \/ Fail(p, i) \/ Interrupt(p, i) \/ Lose(p, i)

-----------------------------------------------------------------------------

People ==
  \/ \E a \in Ask : Request(a)
  \/ \E a \in Apply : AcceptBundle(a) \/ CloseBundle(a)
  \/ \E i \in Row : Retry(i)

Dispatcher(p) ==
  \/ \E i \in Row : Claim(p, i)
  \/ DispatcherEnds(p)

Lane(p, i) == Begin(p, i) \/ End(p, i)

Serving(p) ==
  \/ Start(p) \/ StopCalled(p) \/ Exit(p) \/ Crash(p)
  \/ Dispatcher(p)
  \/ \E i \in Row : Lane(p, i)

Next == People \/ \E p \in Process : Serving(p)

Spec == Init /\ [][Next]_vars

\* The dispatch loop keeps passing while it is up, retrying what a busy
\* database refused, and a lane's executor comes to some end: every IMAP call
\* is taken to return or to raise.  Nothing obliges anybody to start a
\* process, to ask or to retry.
FairSpec ==
  /\ Spec
  /\ \A p \in Process : WF_vars(Dispatcher(p))
  /\ \A p \in Process : \A i \in Row : WF_vars(Lane(p, i))

-----------------------------------------------------------------------------
(* Properties                                                              *)

\* One ask is in flight at most once, whatever was retried, rescued or taken
\* up again after a stop (tasks.enqueue, requeue_interrupted,
\* rescue_accepted_bundles, worker._requeue), while one process serves.
OneLiveRow ==
  ~overlapped =>
    \A i, j \in Row :
      status[i] \in LIVE /\ status[j] \in LIVE /\ ask[i] = ask[j] => i = j

\* A mailbox is worked on by one lane at a time, and its row says running
\* (tasks.claim_next, TaskRunner._one_pass), while one process serves.
Working == {x \in Process \X Row : x[2] \in lanes[x[1]]}

OneLanePerAccount ==
  ~overlapped =>
    \A x, y \in Working :
      /\ status[x[2]] = "running"
      /\ AccountOf[ask[x[2]]] = AccountOf[ask[y[2]]] => x = y

\* An accepted bundle is never forgotten: a row is going to apply it, or a
\* failed one is there to be retried (web accept_bundle, retry_task,
\* rescue_accepted_bundles), whatever crashes, stops and overlaps.
AcceptedIsNotForgotten ==
  \A a \in Apply : bundle[a] = "accepted" =>
    \E i \in Row : ask[i] = a /\ status[i] \in {"queued", "running", "failed"}

\* While a process serves, a row says running only because a lane has it; the
\* exceptions are rows a failed recovery or a failed record left behind.
RunningIsRun ==
  ~overlapped /\ (\E p \in Process : Up(p)) =>
    \A i \in Row : status[i] = "running" =>
      i \in missed \cup lost \/ \E p \in Process : i \in lanes[p]

\* Under a process that goes on serving, alone, what is queued comes to an
\* end, unless its failure could not be recorded or it was left behind by a
\* failed recovery (TaskRunner._dispatch, worker.execute).
QueuedIsServed ==
  \A p \in Process :
    <>[](phase[p] = "serving" /\ ~overlapped) =>
      \A i \in Row : status[i] = "queued" ~>
        status[i] \in {"done", "failed"} \/ i \in lost \cup missed

=============================================================================
