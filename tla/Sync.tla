-------------------------------- MODULE Sync --------------------------------
(***************************************************************************)
(* How the cache follows one folder: imap/sync.py, with what db/cache.py   *)
(* keeps of each message and of its body.                                  *)
(*                                                                         *)
(* A sync loads its row of the folder, selects the folder, reads it in     *)
(* batches (or what changed, in one), commits each batch, asks what is     *)
(* still there and moves the watermarks.  Between any two of these others  *)
(* write to the folder and to the database: another client, a body being   *)
(* fetched, a second sync (the command line's next to the service's).      *)
(*                                                                         *)
(* A version stands for the flags a message has since then, and on a       *)
(* server with CONDSTORE it is what the server reports as its modseq.      *)
(***************************************************************************)
EXTENDS Naturals, Sequences, FiniteSets, SequencesExt

CONSTANTS
  Msg,          \* messages: what content_key tells apart
  Wanted,       \* bound: those whose body somebody may ask for
  Size,         \* the bytes of each one's text
  Budget,       \* limits.body_cache_bytes
  Keeps,        \* bound: what account.cache_bodies may be
  MaxUid,       \* bound: how many messages a life of the folder may see
  MaxVersion,   \* bound: how often the folder changes
  MaxValidity,  \* bound: how many lives the folder has
  MaxGeneration,  \* bound: how many of them are counted
  Syncer,       \* the processes that may sync the folder
  Service,      \* the one of them that somebody keeps asking
  None

Uid        == 1..MaxUid
Version    == 0..MaxVersion
Validity   == 1..MaxValidity
Generation == 1..MaxGeneration

ASSUME SyncOK ==
  /\ Wanted \subseteq Msg
  /\ Size \in [Msg -> Nat]
  /\ Budget \in Nat
  /\ Keeps \subseteq BOOLEAN
  /\ MaxUid \in Nat
  /\ MaxVersion \in Nat
  /\ MaxValidity \in Nat \ {0}
  /\ MaxGeneration \in Nat \ {0}
  /\ Service \in Syncer
  /\ None \notin Msg \cup Nat \cup Syncer

VARIABLES
  condstore,   \* does the server have it
  keepsBodies, \* account.cache_bodies
  box,         \* the folder, as the server has it
  container,   \* the folder's row
  placements,  \* what is remembered at each UID, in each generation
  facts,       \* what the message's row, its index and its findings rest on
  bodies,      \* the bodies that are kept, the one read longest ago first
  syncs,       \* what each sync holds in memory
  lock,        \* the sync whose transaction has the database's write lock
  odd          \* history: what the properties make an exception of

server == <<condstore, keepsBodies, box>>
vars == <<condstore, keepsBodies, box, container, placements, facts, bodies,
          syncs, lock, odd>>

-----------------------------------------------------------------------------
(* The rows                                                                *)

Held == [msg : Msg, version : Version]

\* uids: how many this life has given out.
BoxRow == [validity : Validity, version : Version, uids : 0..MaxUid,
           at : [Uid -> Held \cup {None}]]

\* highestmodseq, of which None also says that all has to be read.
ContainerRow == [validity : Validity \cup {None}, generation : Generation,
                 modseq : Version \cup {None}]

Placement == [msg : Msg, version : Version, gone : BOOLEAN]

\* Whose body the preview, the attachments, the parse status and the index
\* were last told by, and whose the mechanical findings; None: headers alone.
FactsRow == [preview : Msg \cup {None}, findings : Msg \cup {None}]

\* of: whose text it is.
BodyRow == [msg : Msg, of : Msg]

SyncRow ==
  [step : {"loaded", "selected", "reading", "read", "absorbed", "listed"},
   full : BOOLEAN,
   mem : ContainerRow,       \* the row, as this sync has it in memory
   broken : BOOLEAN,         \* break_identity ran and is not committed
   saw : [validity : Validity, modseq : Version \cup {None}] \cup {None},
   todo : SUBSET Uid,        \* what is still to be read
   present : SUBSET Uid,     \* what was there
   batch : [Uid -> Held \cup {None}]]

Nothing == [u \in Uid |-> None]

TypeOK ==
  /\ condstore \in BOOLEAN
  /\ keepsBodies \in BOOLEAN
  /\ box \in BoxRow
  /\ container \in ContainerRow
  /\ placements \in [Generation -> [Uid -> Placement \cup {None}]]
  /\ facts \in [Msg -> FactsRow \cup {None}]
  /\ bodies \in Seq(BodyRow)
  /\ syncs \in [Syncer -> SyncRow \cup {None}]
  /\ lock \in Syncer \cup {None}
  /\ odd \subseteq {"beside", "overlap", "mixed", "early", "blind"}

ASSUME NoneIsNoRow ==
  /\ None \notin Held \cup Placement \cup FactsRow \cup SyncRow
  /\ None \notin [validity : Validity, modseq : Version \cup {None}]

Init ==
  /\ condstore \in BOOLEAN
  /\ keepsBodies \in Keeps
  /\ box = [validity |-> 1, version |-> 0, uids |-> 0, at |-> Nothing]
  /\ container = [validity |-> None, generation |-> 1, modseq |-> None]
  /\ placements = [g \in Generation |-> Nothing]
  /\ facts = [m \in Msg |-> None]
  /\ bodies = <<>>
  /\ syncs = [s \in Syncer |-> None]
  /\ lock = None
  /\ odd = {}

-----------------------------------------------------------------------------
(* The mailbox                                                             *)

Cached == <<container, placements, facts, bodies, syncs, lock>>

Changes == box.version < MaxVersion

Deliver(m) ==
  /\ Changes
  /\ box.uids < MaxUid
  /\ box' = [box EXCEPT !.version = @ + 1, !.uids = @ + 1,
       !.at[box.uids + 1] = [msg |-> m, version |-> box.version + 1]]
  /\ UNCHANGED <<condstore, keepsBodies, Cached, odd>>

\* Another client changes its flags.
Touch(u) ==
  /\ Changes
  /\ box.at[u] # None
  /\ box' = [box EXCEPT !.version = @ + 1, !.at[u].version = box.version + 1]
  /\ UNCHANGED <<condstore, keepsBodies, Cached, odd>>

Expunge(u) ==
  /\ Changes
  /\ box.at[u] # None
  /\ box' = [box EXCEPT !.version = @ + 1, !.at[u] = None]
  /\ UNCHANGED <<condstore, keepsBodies, Cached, odd>>

\* The folder is deleted and made anew.  It is early if something of it was
\* put down already by a first sync that has not come to its end.
Recreate ==
  /\ box.validity < MaxValidity
  /\ box' = [validity |-> box.validity + 1, version |-> box.version, uids |-> 0,
             at |-> Nothing]
  /\ odd' = odd \cup
       (IF /\ container.validity = None
           /\ \/ \E u \in Uid : placements[container.generation][u] # None
              \/ \E s \in Syncer : syncs[s] # None
        THEN {"early"} ELSE {})
  /\ UNCHANGED <<condstore, keepsBodies, Cached>>

-----------------------------------------------------------------------------
(* A sync                                                                  *)

\* A transaction of s: the others wait, or give up.
MayWrite(s) == lock \in {None, s}

\* No other sync is under way.
Alone(s) == \A o \in Syncer \ {s} : syncs[o] = None

\* History: "beside" while syncs overlap and until the last of them ends,
\* "overlap" until a full sync has since run alone to its end, "mixed" for good.
Ended(s) == IF Alone(s) THEN odd \ {"beside"} ELSE odd
Mended(s) ==
  IF "beside" \notin odd /\ syncs[s].full THEN odd \ {"overlap"} ELSE Ended(s)

\* discover_containers loads the row; the folders before this one in the
\* account's turn may take any time after that.
Load(s, force) ==
  /\ syncs[s] = None
  /\ lock = None
  /\ syncs' = [syncs EXCEPT ![s] =
       [step |-> "loaded", full |-> force, mem |-> container, broken |-> FALSE,
        saw |-> None, todo |-> {}, present |-> {}, batch |-> Nothing]]
  /\ odd' = odd \cup
       (IF Alone(s) THEN {} ELSE {"beside", "overlap", "mixed"})
  /\ UNCHANGED <<server, container, placements, facts, bodies, lock>>

\* What the server says on SELECT.
Status == [validity |-> box.validity,
           modseq |-> IF condstore THEN box.version ELSE None]

\* FAULT: what was remembered goes on under the same generation.
Broken_SameGeneration(mem) ==
  [mem EXCEPT !.validity = box.validity, !.modseq = None]

\* break_identity, of the row
Broken(mem) ==
  [validity |-> box.validity, generation |-> mem.generation + 1, modseq |-> None]

\* FAULT: UIDVALIDITY is not compared.
IdentityBroken_Never(mem) == FALSE

IdentityBroken(mem) == mem.validity # None /\ mem.validity # box.validity

\* The folder is the one the sync has in mind; what changed can be asked.
SelectSame(s) ==
  /\ syncs[s] # None
  /\ syncs[s].step = "loaded"
  /\ ~IdentityBroken(syncs[s].mem)
  /\ syncs' = [syncs EXCEPT ![s].step = "selected", ![s].saw = Status,
       ![s].full = @ \/ syncs[s].mem.modseq = None \/ ~condstore]
  /\ UNCHANGED <<server, container, placements, facts, bodies, lock, odd>>

\* It is another: break_identity writes, and its transaction is open until the
\* first batch is committed.
SelectOther(s) ==
  /\ syncs[s] # None
  /\ syncs[s].step = "loaded"
  /\ IdentityBroken(syncs[s].mem)
  /\ syncs[s].mem.generation < MaxGeneration
  /\ MayWrite(s)
  /\ lock' = s
  /\ syncs' = [syncs EXCEPT ![s].step = "selected", ![s].saw = Status,
       ![s].full = TRUE, ![s].broken = TRUE, ![s].mem = Broken(@)]
  /\ UNCHANGED <<server, container, placements, facts, bodies, odd>>

\* On a selected folder a server answers of that life of it, or not at all.
Answers(s) == syncs[s].saw.validity = box.validity

\* FAULT: all there could be, by the UID that comes next.
There_ByNext == 1..(box.uids + 1)

There == {u \in Uid : box.at[u] # None}

\* fetch_changed_since
ReadChanged(s) ==
  /\ syncs[s] # None
  /\ syncs[s].step = "selected"
  /\ ~syncs[s].full
  /\ Answers(s)
  /\ syncs' = [syncs EXCEPT ![s].step = "read",
       ![s].batch = [u \in Uid |->
          IF box.at[u] # None /\ box.at[u].version > syncs[s].mem.modseq
          THEN box.at[u] ELSE None]]
  /\ UNCHANGED <<server, container, placements, facts, bodies, lock, odd>>

\* all_uids, before a full read
List(s) ==
  /\ syncs[s] # None
  /\ syncs[s].step = "selected"
  /\ syncs[s].full
  /\ Answers(s)
  /\ syncs' = [syncs EXCEPT ![s].step = IF There = {} THEN "listed" ELSE "reading",
       ![s].todo = There, ![s].present = There]
  /\ UNCHANGED <<server, container, placements, facts, bodies, lock, odd>>

\* fetch_envelopes of the next batch, of FETCH_BATCH = 1.
ReadBatch(s) ==
  /\ syncs[s] # None
  /\ syncs[s].step = "reading"
  /\ Answers(s)
  /\ \E u \in syncs[s].todo :
       /\ \A v \in syncs[s].todo : u <= v
       /\ syncs' = [syncs EXCEPT ![s].step = "read", ![s].todo = @ \ {u},
            ![s].batch = [Nothing EXCEPT ![u] = box.at[u]]]
  /\ UNCHANGED <<server, container, placements, facts, bodies, lock, odd>>

\* The placements once a break that s has not committed is.
Known(s) ==
  IF syncs[s].broken
  THEN [placements EXCEPT ![syncs[s].mem.generation - 1] =
          [u \in Uid |-> IF @[u] = None THEN None ELSE [@[u] EXCEPT !.gone = TRUE]]]
  ELSE placements

\* _absorb, of what was read at one UID: an upsert.
Absorbed(old, held) ==
  IF held = None THEN old
  ELSE [msg |-> IF old = None THEN held.msg ELSE old.msg,
        version |-> held.version, gone |-> FALSE]

\* upsert_message and index_message, of what was read by its headers.
HeadersOnly == [preview |-> None, findings |-> None]

\* A batch is absorbed and committed.
Absorb(s) ==
  /\ syncs[s] # None
  /\ syncs[s].step = "read"
  /\ MayWrite(s)
  /\ lock' = None
  /\ container' = IF syncs[s].broken THEN syncs[s].mem ELSE container
  /\ placements' = [Known(s) EXCEPT ![syncs[s].mem.generation] =
       [u \in Uid |-> Absorbed(@[u], syncs[s].batch[u])]]
  /\ facts' = [m \in Msg |->
       IF \E u \in Uid : syncs[s].batch[u] # None /\ syncs[s].batch[u].msg = m
       THEN HeadersOnly ELSE facts[m]]
  /\ syncs' = [syncs EXCEPT ![s].broken = FALSE, ![s].batch = Nothing,
       ![s].step = IF ~syncs[s].full THEN "absorbed"
                   ELSE IF syncs[s].todo = {} THEN "listed" ELSE "reading"]
  /\ UNCHANGED <<server, bodies, odd>>

\* all_uids, after what changed
ListAgain(s) ==
  /\ syncs[s] # None
  /\ syncs[s].step = "absorbed"
  /\ Answers(s)
  /\ syncs' = [syncs EXCEPT ![s].step = "listed", ![s].present = There]
  /\ UNCHANGED <<server, container, placements, facts, bodies, lock, odd>>

\* A column is written if it differs from what the sync has in memory.
Told(now, mem, new) == IF new = mem THEN now ELSE new

\* FAULT: the watermark is what the server has now.
Watermark_Now(s) == IF condstore THEN box.version ELSE None

\* As it was when the folder was selected.
Watermark(s) == syncs[s].saw.modseq

\* FAULT: only a full read looks at what has gone.
Vanished_IfFull(s) ==
  {u \in Uid : syncs[s].full /\ u \notin syncs[s].present}

\* _mark_vanished
Vanished(s) == {u \in Uid : u \notin syncs[s].present}

\* _mark_vanished and the watermarks, committed together.
Finish(s) ==
  /\ syncs[s] # None
  /\ syncs[s].step = "listed"
  /\ MayWrite(s)
  /\ lock' = None
  /\ placements' = [Known(s) EXCEPT ![syncs[s].mem.generation] =
       [u \in Uid |-> IF @[u] # None /\ u \in Vanished(s)
                      THEN [@[u] EXCEPT !.gone = TRUE] ELSE @[u]]]
  /\ LET row == IF syncs[s].broken THEN syncs[s].mem ELSE container
     IN  container' = [row EXCEPT
           !.validity = Told(@, syncs[s].mem.validity, syncs[s].saw.validity),
           !.modseq = Told(@, syncs[s].mem.modseq, Watermark(s))]
  /\ syncs' = [syncs EXCEPT ![s] = None]
  /\ odd' = Mended(s)
  /\ UNCHANGED <<server, facts, bodies>>

\* The process ends, the database is locked too long, the server does not
\* answer: what is not committed is lost.
Fail(s) ==
  /\ syncs[s] # None
  /\ syncs' = [syncs EXCEPT ![s] = None]
  /\ lock' = IF lock = s THEN None ELSE lock
  /\ odd' = Ended(s)
  /\ UNCHANGED <<server, container, placements, facts, bodies>>

\* The folder it has selected is no more.
LoseFolder(s) ==
  /\ syncs[s] # None
  /\ syncs[s].step \in {"selected", "reading", "absorbed"}
  /\ ~Answers(s)
  /\ Fail(s)

-----------------------------------------------------------------------------
(* A body                                                                  *)

Total(kept) == FoldLeft(LAMBDA sum, b : sum + Size[b.of], 0, kept)

\* FAULT: the newest go first.
Evicted_NewestFirst(kept) ==
  LET fits(k) == Total(SubSeq(kept, 1, k)) <= Budget
      most == CHOOSE k \in 0..Len(kept) :
                fits(k) /\ \A l \in 0..Len(kept) : l > k => ~fits(l)
  IN  SubSeq(kept, 1, most)

\* evict_bodies: from the one read longest ago, until the rest fits.
Evicted(kept) ==
  LET fits(k) == Total(SubSeq(kept, k + 1, Len(kept))) <= Budget
      fewest == CHOOSE k \in 0..Len(kept) :
                  fits(k) /\ \A l \in 0..Len(kept) : l < k => ~fits(l)
  IN  SubSeq(kept, fewest + 1, Len(kept))

\* cache_body: its row is written over, and counts as read now.
Recached(m, of) ==
  LET rows == {i \in 1..Len(bodies) : bodies[i].msg = m}
      rest == IF rows = {} THEN bodies ELSE RemoveAt(bodies, CHOOSE i \in rows : TRUE)
  IN  Append(rest, [msg |-> m, of |-> of])

Live(u) ==
  /\ placements[container.generation][u] # None
  /\ ~placements[container.generation][u].gone

\* refresh_from_body and record_mechanical_assessment: the findings are told
\* by a body that is not kept, too.
FromBody(row, of) ==
  [preview |-> IF keepsBodies THEN of ELSE row.preview, findings |-> of]

\* The fetch_body task: from reading the placement to the commit it is one
\* transaction, with one look at the folder in it, by UID.  Whose the answer
\* is is not asked, and the folder may be another since the last sync: blind.
FetchBody(m, u) ==
  /\ lock = None
  /\ Live(u)
  /\ placements[container.generation][u].msg = m
  /\ box.at[u] # None
  /\ facts' = [facts EXCEPT ![m] = FromBody(@, box.at[u].msg)]
  /\ bodies' = IF keepsBodies THEN Evicted(Recached(m, box.at[u].msg)) ELSE bodies
  /\ odd' = odd \cup (IF container.validity \in {None, box.validity} THEN {} ELSE {"blind"})
  /\ UNCHANGED <<server, container, placements, syncs, lock>>

-----------------------------------------------------------------------------

Mailbox ==
  \/ \E m \in Msg : Deliver(m)
  \/ \E u \in Uid : Touch(u) \/ Expunge(u)
  \/ Recreate

Step(s) ==
  \/ SelectSame(s) \/ SelectOther(s) \/ ReadChanged(s) \/ List(s) \/ ReadBatch(s)
  \/ Absorb(s) \/ ListAgain(s) \/ Finish(s) \/ LoseFolder(s)

Starts(s) == \E force \in BOOLEAN : Load(s, force)

Next ==
  \/ Mailbox
  \/ \E s \in Syncer : Starts(s) \/ Step(s) \/ Fail(s)
  \/ \E m \in Wanted, u \in Uid : FetchBody(m, u)

Spec == Init /\ [][Next]_vars

\* A sync that runs goes on, and somebody keeps asking for the next.
FairSpec ==
  /\ Spec
  /\ \A s \in Syncer : WF_vars(Step(s))
  /\ WF_vars(Starts(Service))

-----------------------------------------------------------------------------
(* Properties                                                              *)

\* What is remembered at a UID is the message that is there, whatever lives
\* the folder had, however many syncs were cut short.  The exceptions are two
\* syncs at once and a folder made anew before its first sync came to its end
\* (sync.break_identity "every UID we remember means something else").
MessageAtItsUid ==
  odd \cap {"mixed", "early"} = {} /\ container.validity \in {None, box.validity} =>
    \A u \in Uid : Live(u) /\ box.at[u] # None =>
      placements[container.generation][u].msg = box.at[u].msg

\* What the cache has wrong about a message that is there, the next sync is
\* told: the watermark is never ahead of what was absorbed.  Two syncs at once
\* may put it there; one full sync alone mends that (sync_container "the
\* folder's watermarks move only at the end ... nothing is lost").
NothingOverlooked ==
  /\ "overlap" \notin odd
  /\ container.modseq # None
  /\ container.validity = box.validity
  => \A u \in Uid : box.at[u] # None /\ box.at[u].version <= container.modseq =>
       /\ Live(u)
       /\ placements[container.generation][u].version = box.at[u].version

\* A message that was seen to be gone is not brought back by a sync that read
\* it before that (sync._absorb, _mark_vanished).
GoneStaysGone ==
  [][odd' \cap {"mixed", "early"} = {} =>
       \A g \in Generation, u \in Uid :
         placements[g][u] # None /\ placements[g][u].gone => placements'[g][u].gone]_vars

\* What a message is shown with came from its own body, unless it was asked
\* for by a UID of a folder that is no more (sync.fetch_and_cache_body).
BodyIsItsOwn ==
  odd \cap {"mixed", "early", "blind"} = {} =>
    /\ \A i \in 1..Len(bodies) : bodies[i].of = bodies[i].msg
    /\ \A m \in Msg : facts[m] # None =>
         facts[m].preview \in {m, None} /\ facts[m].findings \in {m, None}

\* Who asks for a body and fits by it finds it when the task is done: the
\* eviction that makes room does not take it (server.request_body "call it
\* until the body arrives").
FetchedIsKept ==
  [][\A m \in Msg, u \in Uid :
       FetchBody(m, u) /\ keepsBodies /\ Size[box.at[u].msg] <= Budget =>
         \E i \in 1..Len(bodies') : bodies'[i].msg = m]_vars

\* Each live placement is a message that is there, as it is there.
InStep ==
  /\ container.validity = box.validity
  /\ \A u \in Uid :
       /\ Live(u) <=> box.at[u] # None
       /\ Live(u) => placements[container.generation][u].version = box.at[u].version

\* When the folder changes no more and syncs are asked for and not cut short
\* for ever, the cache comes to say what the folder says and goes on saying it.
ComesIntoStep ==
  <>[][\A s \in Syncer : Fail(s) => Finish(s) \/ LoseFolder(s)]_vars
    => <>[](InStep \/ "overlap" \in odd)

\* "A preview exists once a body has been fetched" (server.search_messages;
\* cache.refresh_from_body).
PreviewStays ==
  \A i \in 1..Len(bodies) : facts[bodies[i].msg].preview # None

=============================================================================
