---------------------------- MODULE ApplyProofs ----------------------------
(***************************************************************************)
(* Proofs about Apply, for every value of its constants: of its type; that *)
(* what an apply changes is what was read, exactly as it was read where    *)
(* the server can tell; that no mail is lost on its way; that a change is  *)
(* made once; and that the cache knows of it.                              *)
(***************************************************************************)
EXTENDS Apply, TLAPS

\* What the cache speaks of is the folder as it now exists.
SameLife == validity = remembered

\* And what the run has in memory is.
RunLife == validity = run.remembered

\* y is x, as it was or later; as it was, if its modseq is.
Later(x, y) ==
  /\ y.mail = x.mail
  /\ condstore => /\ x.modseq <= y.modseq
                  /\ x.modseq = y.modseq =>
                       x.marked = y.marked /\ x.flagged = y.flagged

\* Where x was seen there is x, not older than it was, or nothing any more.
Holds(u, x) ==
  /\ u \in Uid
  /\ u <= next
  /\ box[u].mail # NoMail => Later(x, box[u])

\* UIDs and changes are counted upwards.
Counting ==
  /\ \A u \in Uid : u > next \/ box[u].mail = NoMail => box[u] = Nothing
  /\ condstore => \A u \in Uid : box[u].modseq <= high

\* A sync never runs ahead of the folder, nor a generation of the syncs.
Lives == generation <= remembered /\ remembered <= validity

CacheHolds ==
  SameLife => \A u \in Uid : cached[u].mail # NoMail => Holds(u, cached[u])

\* What a suggestion was computed against, as long as no sync has found the
\* folder made anew.
Rests(i) ==
  /\ premise[i].uid \in Uid
  /\ premise[i].generation <= generation
  /\ premise[i].generation = generation /\ SameLife =>
       Holds(premise[i].uid, premise[i].seen)

PremisesHold == \A i \in Item : status[i] # "absent" => Rests(i)

\* The memory of a run is what the cache was: of the same life of the folder
\* if no sync has found another, and true of it while that life lasts.
RunHolds ==
  run.todo # {} =>
    /\ run.remembered <= remembered /\ run.generation <= generation
    /\ run.remembered = remembered <=> run.generation = generation
    /\ \A i \in run.todo : status[i] # "absent"
    /\ RunLife => \A u \in Uid : run.held[u].mail # NoMail => Holds(u, run.held[u])

\* A flag that the memory of the run has not got, and that is set, has been
\* counted as a change the cache has not got.
Settled(i) ==
  LET u == premise[i].uid IN
  /\ step.at = "done" /\ i \notin Filing /\ condstore /\ RunLife
  /\ ~run.held[u].flagged /\ cached[u].mail # NoMail /\ box[u].mail # NoMail
  => cached[u].modseq < box[u].modseq

\* The item being applied.  What was looked at, with the folder selected ever
\* since, cannot have been another folder's; what was copied and is still
\* there is in the target.
Applying(i) ==
  /\ i \in run.todo
  /\ premise[i].generation = run.generation
  /\ run.held[premise[i].uid].mail # NoMail
  /\ Same(run.held[premise[i].uid], premise[i].seen)
  /\ Settled(i)
  /\ step.at = "copied" => ByCopy(i)
  /\ step.at \in {"command", "copied"} /\ i \in Filing /\ link # "dead" =>
       /\ link = "selected"
       /\ premise[i].uid <= next
       /\ step.at = "copied" /\ Here(i).mail # NoMail => Here(i).mail \in target

StepHolds == step # Idle => step.item \in Item /\ Applying(step.item)

TouchedHold == \A t \in touched : status[t.item] # "absent"

ApplyInv ==
  /\ TypeOK
  /\ Counting /\ Lives
  /\ CacheHolds /\ PremisesHold /\ RunHolds
  /\ StepHolds /\ TouchedHold
  /\ NoMailIsLost /\ AppliesToWhatWasRead /\ ConditionalIsHonest

-----------------------------------------------------------------------------
(* The type                                                                *)

LEMMA NothingIsPlaced == Nothing \in Placed
  BY ConstantsOK DEF Nothing, Placed

LEMMA InitInv == Init => ApplyInv
<1> SUFFICES ASSUME Init PROVE ApplyInv
  OBVIOUS
<1> USE NothingIsPlaced, ConstantsOK
<1>1. TypeOK
  BY DEF Init, TypeOK, Idle, NoPremise, NoRun
<1>2. Counting /\ Lives
  BY DEF Init, Counting, Lives, Nothing, Uid
<1>3. CacheHolds
  BY DEF Init, CacheHolds, Nothing
<1>4. PremisesHold /\ RunHolds /\ StepHolds /\ TouchedHold
  BY DEF Init, PremisesHold, RunHolds, StepHolds, TouchedHold, Idle, NoRun
<1>5. NoMailIsLost /\ AppliesToWhatWasRead /\ ConditionalIsHonest
  BY DEF Init, NoMailIsLost, AppliesToWhatWasRead, ConditionalIsHonest
<1> QED
  BY <1>1, <1>2, <1>3, <1>4, <1>5 DEF ApplyInv

\* A message put at a UID, and the count of changes with it.
LEMMA PutType ==
  ASSUME TypeOK, CanCount, NEW u \in Uid, NEW x \in Placed, Put(u, x)
  PROVE  box' \in [Uid -> Placed] /\ high' \in 0..MaxModseq
  BY ConstantsOK DEF TypeOK, CanCount, Put, Counted

LEMMA CountedType ==
  ASSUME TypeOK, CanCount
  PROVE  Counted \in 0..MaxModseq
  BY ConstantsOK DEF TypeOK, CanCount, Counted

LEMMA OthersType ==
  ASSUME TypeOK, Others,
         box' \in [Uid -> Placed], next' \in 0..MaxUid, high' \in 0..MaxModseq,
         validity' \in 1..MaxValidity, link' \in {"elsewhere", "selected", "dead"},
         unseen' \subseteq Uid
  PROVE  TypeOK'
  BY DEF TypeOK, Others, server, cache, record

LEMMA WorldType ==
  ASSUME TypeOK, World
  PROVE  TypeOK'
<1> USE NothingIsPlaced, ConstantsOK
<1>1. ASSUME NEW m \in Mail, Deliver(m) PROVE TypeOK'
  <2>1. next + 1 \in Uid
    BY <1>1 DEF TypeOK, Deliver, Uid
  <2>2. [mail |-> m, flagged |-> FALSE, marked |-> FALSE, modseq |-> Counted] \in Placed
    BY <1>1, CountedType DEF Deliver, Placed
  <2>3. box' \in [Uid -> Placed] /\ high' \in 0..MaxModseq
    BY <1>1, <2>1, <2>2, PutType DEF Deliver
  <2>4. next' \in 0..MaxUid /\ unseen' \subseteq Uid /\ UNCHANGED <<validity, link>> /\ Others
    BY <1>1, <2>1 DEF Deliver, TypeOK, Uid
  <2> QED
    BY <2>3, <2>4, OthersType DEF TypeOK
<1>2. ASSUME NEW u \in Uid, Toggle(u) PROVE TypeOK'
  <2>1. box[u] \in Placed
    BY DEF TypeOK
  <2>2. /\ [box[u] EXCEPT !.flagged = ~@, !.modseq = Counted] \in Placed
        /\ [box[u] EXCEPT !.marked = ~@, !.modseq = Counted] \in Placed
    BY <1>2, <2>1, CountedType DEF Toggle, Placed
  <2>3. box' \in [Uid -> Placed] /\ high' \in 0..MaxModseq
    BY <1>2, <2>2, PutType DEF Toggle
  <2> QED
    BY <1>2, <2>3, OthersType DEF Toggle, TypeOK
<1>3. ASSUME NEW u \in Uid, Leave(u) PROVE TypeOK'
  BY <1>3, OthersType DEF Leave, TypeOK
<1>4. ASSUME Remake PROVE TypeOK'
  BY <1>4, OthersType DEF Remake, TypeOK
<1>5. ASSUME Drop PROVE TypeOK'
  BY <1>5, OthersType DEF Drop, TypeOK, folder
<1> QED
  BY <1>1, <1>2, <1>3, <1>4, <1>5 DEF World

LEMMA NoRunType == NoRun \in [todo : SUBSET Item, generation : 0..MaxValidity,
                             remembered : 0..MaxValidity, held : [Uid -> Placed]]
  BY NothingIsPlaced, ConstantsOK DEF NoRun

LEMMA PastType ==
  ASSUME TypeOK, NEW i \in Item
  PROVE  Past(i) \in [todo : SUBSET Item, generation : 0..MaxValidity,
                     remembered : 0..MaxValidity, held : [Uid -> Placed]]
  BY NoRunType DEF Past, TypeOK

LEMMA ReviewType ==
  ASSUME TypeOK, Lives,
         Sync \/ Stop \/ \E b \in Bundle : (\E at \in [b -> Uid] : Decide(b, at)) \/ Start(b)
  PROVE  TypeOK'
<1> USE NothingIsPlaced, ConstantsOK
<1>1. CASE Sync
  <2>1. generation' \in 1..MaxValidity
    BY <1>1 DEF Sync, IdentityBroken, TypeOK, Lives
  <2>2. status' \in [Item -> {"absent", "accepted", "applied", "stale"}]
    BY <1>1 DEF Sync, TypeOK
  <2> QED
    BY <1>1, <2>1, <2>2 DEF Sync, TypeOK, server, folder
<1>2. ASSUME NEW b \in Bundle, NEW at \in [b -> Uid], Decide(b, at) PROVE TypeOK'
  <2>1. ASSUME NEW u \in Uid
        PROVE  [generation |-> generation, uid |-> u, seen |-> cached[u]]
                 \in [generation : 1..MaxValidity, uid : Uid, seen : Placed]
    BY DEF TypeOK
  <2>2. premise' \in [Item -> {NoPremise} \cup
                        [generation : 1..MaxValidity, uid : Uid, seen : Placed]]
    BY <1>2, <2>1 DEF Decide, TypeOK
  <2>3. status' \in [Item -> {"absent", "accepted", "applied", "stale"}]
    BY <1>2 DEF Decide, TypeOK
  <2> QED
    BY <1>2, <2>2, <2>3 DEF Decide, TypeOK, server, folder, cache, ghosts
<1>3. ASSUME NEW b \in Bundle, Start(b) PROVE TypeOK'
  <2>1. run' \in [todo : SUBSET Item, generation : 0..MaxValidity,
                 remembered : 0..MaxValidity, held : [Uid -> Placed]]
    BY <1>3 DEF Start, TypeOK
  <2> QED
    BY <1>3, <2>1 DEF Start, TypeOK, server, folder, cache, record, ghosts
<1>4. CASE Stop
  BY <1>4, NoRunType DEF Stop, TypeOK, server, folder, cache, record, ghosts
<1> QED
  BY <1>1, <1>2, <1>3, <1>4

\* What a command does to the folder and to the histories it keeps.
LEMMA ChangeType ==
  ASSUME TypeOK, NEW i \in Item, premise[i].uid \in Uid,
         Change(i) \/ UNCHANGED <<folder, performed, taken, touched, strayed>>
  PROVE  /\ box' \in [Uid -> Placed] /\ high' \in 0..MaxModseq
         /\ UNCHANGED <<next, validity>> /\ target' \subseteq Mail
         /\ performed' \in [Item -> 0..2] /\ taken' \subseteq Mail
         /\ touched' \subseteq [item : Item, mail : Mail, asRead : BOOLEAN]
         /\ strayed' \subseteq Item
<1> USE NothingIsPlaced, ConstantsOK
<1> DEFINE u == premise[i].uid
           t == [item |-> i, mail |-> Here(i).mail,
                 asRead |-> Conditional(i) => Same(Here(i), premise[i].seen)]
<1>1. CASE UNCHANGED <<folder, performed, taken, touched, strayed>>
  BY <1>1 DEF TypeOK, folder
<1>2. ASSUME Change(i), ~UNCHANGED <<folder, performed, taken, touched, strayed>>
      PROVE  /\ box' \in [Uid -> Placed] /\ high' \in 0..MaxModseq
             /\ UNCHANGED <<next, validity>> /\ target' \subseteq Mail
             /\ performed' \in [Item -> 0..2] /\ taken' \subseteq Mail
             /\ touched' \subseteq [item : Item, mail : Mail, asRead : BOOLEAN]
             /\ strayed' \subseteq Item
  <2>1. Here(i) \in Placed /\ Here(i).mail \in Mail
    <3>1. Here(i) \in Placed
      BY DEF TypeOK, Here
    <3>2. Here(i).mail # NoMail
      BY <1>2 DEF Change
    <3> QED
      BY <3>1, <3>2 DEF Placed
  <2>2. t \in [item : Item, mail : Mail, asRead : BOOLEAN]
    BY <2>1
  <2>3. /\ touched' \in {touched, touched \cup {t}}
        /\ strayed' \in {strayed, strayed \cup {i}}
        /\ UNCHANGED <<next, validity>>
    BY <1>2 DEF Change
  <2>4. performed' = performed \/ Performs(i)
    BY <1>2 DEF Change
  <2>5. performed' \in [Item -> 0..2]
    BY <2>4 DEF Performs, TypeOK
  <2>6. target' \subseteq Mail /\ taken' \subseteq Mail
    BY <1>2, <2>1 DEF Change, TypeOK
  <2>7. box' \in [Uid -> Placed] /\ high' \in 0..MaxModseq
    <3>1. CASE UNCHANGED <<box, high>>
      BY <3>1 DEF TypeOK
    <3>2. CASE box' = [box EXCEPT ![u] = Nothing] /\ UNCHANGED high
      BY <3>2 DEF TypeOK
    <3>3. CASE CanCount /\ Put(u, [Here(i) EXCEPT !.flagged = TRUE, !.modseq = Counted])
      <4>1. [Here(i) EXCEPT !.flagged = TRUE, !.modseq = Counted] \in Placed
        BY <3>3, <2>1, CountedType DEF Placed
      <4> QED
        BY <3>3, <4>1, PutType
    <3>4. CASE CanCount /\ Put(u, [Here(i) EXCEPT !.marked = TRUE, !.modseq = Counted])
      <4>1. [Here(i) EXCEPT !.marked = TRUE, !.modseq = Counted] \in Placed
        BY <3>4, <2>1, CountedType DEF Placed
      <4> QED
        BY <3>4, <4>1, PutType
    <3>5. \/ UNCHANGED <<box, high>>
          \/ box' = [box EXCEPT ![u] = Nothing] /\ UNCHANGED high
          \/ CanCount /\ Put(u, [Here(i) EXCEPT !.flagged = TRUE, !.modseq = Counted])
          \/ CanCount /\ Put(u, [Here(i) EXCEPT !.marked = TRUE, !.modseq = Counted])
      BY <1>2, Zenon DEF Change
    <3> QED
      BY <3>1, <3>2, <3>3, <3>4, <3>5
  <2>8. strayed' \subseteq Item
    BY <2>3 DEF TypeOK
  <2>9. touched' \subseteq [item : Item, mail : Mail, asRead : BOOLEAN]
    <3> HIDE DEF t
    <3> QED
      BY <2>2, <2>3 DEF TypeOK
  <2> QED
    BY <2>3, <2>5, <2>6, <2>7, <2>8, <2>9
<1> QED
  BY <1>1, <1>2

\* The item under way is one whose premise is known.
LEMMA StepRests ==
  ASSUME TypeOK, StepHolds, PremisesHold, RunHolds, step # Idle
  PROVE  /\ step.item \in Item /\ Applying(step.item) /\ Rests(step.item)
         /\ step.item \in run.todo /\ run.todo # {}
         /\ premise[step.item].uid \in Uid /\ status[step.item] # "absent"
  BY DEF StepHolds, Applying, PremisesHold, RunHolds, Rests

LEMMA RunnerType ==
  ASSUME TypeOK, StepHolds, PremisesHold, RunHolds, NEW i \in Item, Runner(i)
  PROVE  TypeOK'
<1> USE NothingIsPlaced, ConstantsOK
<1>0. step.item = i => premise[i].uid \in Uid
  BY StepRests DEF Idle
<1>1. CASE Check(i)
  <2>1. run' \in [todo : SUBSET Item, generation : 0..MaxValidity,
                 remembered : 0..MaxValidity, held : [Uid -> Placed]]
    BY <1>1, PastType DEF Check, TypeOK
  <2> QED
    BY <1>1, <2>1 DEF Check, TypeOK, server, folder, cache, ghosts
<1>2. CASE Look(i)
  BY <1>2 DEF Look, TypeOK, server, folder, cache, record, ghosts
<1>3. CASE Obeyed(i)
  BY <1>0, <1>3, ChangeType DEF Obeyed, Commanding, TypeOK, server, cache, record
<1>4. CASE Denied(i)
  BY <1>4 DEF Denied, Answered, TypeOK, server, folder, cache, record
<1>5. CASE CutOff(i)
  BY <1>0, <1>5, ChangeType DEF CutOff, Commanding, TypeOK, server, cache, record
<1>6. CASE Raise(i)
  BY <1>6, NoRunType DEF Raise, Idle, TypeOK, server, folder, cache, record, ghosts
<1>7. CASE Commit(i)
  <2> DEFINE u == premise[i].uid
  <2>0. u \in Uid
    BY <1>0, <1>7 DEF Commit
  <2>1. ASSUME NEW x \in Placed, NEW y \in Placed PROVE Told(i, x, y) \in Placed
    BY DEF Told, Placed
  <2>2. Told(i, run.held[u], cached[u]) \in Placed
    BY <2>0, <2>1 DEF TypeOK
  <2>3. cached' \in [Uid -> Placed]
    BY <1>7, <2>0, <2>2 DEF Commit, TypeOK
  <2>4. run' \in [todo : SUBSET Item, generation : 0..MaxValidity,
                 remembered : 0..MaxValidity, held : [Uid -> Placed]]
    BY <1>7, PastType DEF Commit
  <2>5. status' \in [Item -> {"absent", "accepted", "applied", "stale"}] /\ unseen' \subseteq Uid
    BY <1>7, <2>0 DEF Commit, TypeOK
  <2>6. step' \in [item : Item \cup {NoItem},
                  at : {"idle", "look", "command", "copied", "done", "refused", "unanswered"}]
    BY <1>7 DEF Commit, Idle
  <2> QED
    BY <1>7, <2>3, <2>4, <2>5, <2>6 DEF Commit, TypeOK, server, folder
<1> QED
  BY <1>1, <1>2, <1>3, <1>4, <1>5, <1>6, <1>7 DEF Runner

LEMMA RestartType ==
  ASSUME TypeOK, StepHolds, PremisesHold, RunHolds, Restart
  PROVE  TypeOK'
<1>1. step # Idle => step.item \in Item /\ premise[step.item].uid \in Uid
  BY StepRests
<1> QED
  BY <1>1, NoRunType DEF Restart, Idle, TypeOK, server, folder, cache, record

-----------------------------------------------------------------------------
(* What holds on as long as the folder goes on                             *)

\* The folder is the same one, further on.
Grows ==
  /\ condstore' = condstore
  /\ next <= next'
  /\ \A u \in Uid : u <= next /\ box'[u].mail # NoMail => Later(box[u], box'[u])

\* Nothing is newly accepted or loaded, and the cache learns of nothing that
\* is not so.
LearnsNothing ==
  /\ UNCHANGED <<validity, generation, remembered, premise>>
  /\ \A i \in Item : status'[i] # "absent" <=> status[i] # "absent"
  /\ \/ run'.todo = {}
     \/ /\ run'.todo \subseteq run.todo
        /\ run'.generation = run.generation
        /\ run'.remembered = run.remembered
        /\ run'.held = run.held
  /\ \A u \in Uid : cached'[u].mail # NoMail /\ cached'[u] # cached[u] /\ SameLife =>
       Holds(u, cached'[u])

LEMMA LaterItself == ASSUME NEW x \in Placed PROVE Later(x, x)
  BY DEF Later, Placed

LEMMA HoldsOn ==
  ASSUME TypeOK, TypeOK', Grows, LearnsNothing, CacheHolds, PremisesHold, RunHolds, Lives
  PROVE  CacheHolds' /\ PremisesHold' /\ RunHolds' /\ Lives'
<1> DEFINE Still(u, x) ==
       /\ u <= next'
       /\ box'[u].mail # NoMail =>
            /\ box'[u].mail = x.mail
            /\ condstore => /\ x.modseq <= box'[u].modseq
                            /\ x.modseq = box'[u].modseq =>
                                 x.marked = box'[u].marked /\ x.flagged = box'[u].flagged
<1>1. ASSUME NEW u \in Uid, NEW x \in Placed, Holds(u, x) PROVE Still(u, x)
  <2>1. /\ u \in Nat /\ next \in Nat /\ next' \in Nat /\ u <= next /\ next <= next'
        /\ x.modseq \in Nat /\ box[u].modseq \in Nat /\ box'[u].modseq \in Nat
    <3>1. u \in Nat /\ next \in Nat /\ next' \in Nat
      BY ConstantsOK DEF TypeOK, Uid
    <3>2. x.modseq \in Nat /\ box[u].modseq \in Nat /\ box'[u].modseq \in Nat
      BY DEF TypeOK, Placed, Nothing
    <3>3. u <= next /\ next <= next'
      BY <1>1 DEF Holds, Grows
    <3> QED
      BY <3>1, <3>2, <3>3
  <2> QED
    BY <1>1, <2>1 DEF Holds, Grows, Later
<1>2. SameLife' = SameLife
  BY DEF SameLife, LearnsNothing
<1>3. CacheHolds'
  <2> SUFFICES ASSUME SameLife', NEW u \in Uid, cached'[u].mail # NoMail
               PROVE  Holds(u, cached[u])'
    BY DEF CacheHolds
  <2>1. Holds(u, cached'[u])
    BY <1>2 DEF CacheHolds, LearnsNothing
  <2>2. Still(u, cached'[u])
    BY <1>1, <2>1 DEF TypeOK
  <2> QED
    BY <2>2 DEF Holds, Later, LearnsNothing, Grows
<1>4. PremisesHold'
  <2> SUFFICES ASSUME NEW i \in Item, status'[i] # "absent" PROVE Rests(i)'
    BY DEF PremisesHold
  <2>1. Rests(i) /\ premise'[i] = premise[i] /\ generation' = generation
    BY DEF PremisesHold, LearnsNothing
  <2>2. premise[i].seen \in Placed
    BY NothingIsPlaced DEF TypeOK, NoPremise
  <2>3. premise[i].generation = generation /\ SameLife =>
          Still(premise[i].uid, premise[i].seen)
    BY <1>1, <2>1, <2>2 DEF Rests
  <2> QED
    BY <1>2, <2>1, <2>3 DEF Rests, Holds, Later, Grows
<1>5. RunHolds'
  <2> SUFFICES ASSUME run'.todo # {} PROVE RunHolds'
    BY DEF RunHolds
  <2>1. /\ run'.todo \subseteq run.todo /\ run.todo # {}
        /\ run'.generation = run.generation /\ run'.remembered = run.remembered
        /\ run'.held = run.held
    BY DEF LearnsNothing
  <2>2. \A i \in run'.todo : status'[i] # "absent"
    BY <2>1 DEF RunHolds, LearnsNothing, TypeOK
  <2>3. ASSUME RunLife', NEW u \in Uid, run'.held[u].mail # NoMail
        PROVE  Holds(u, run.held[u])'
    <3>1. Holds(u, run.held[u]) /\ run.held[u] \in Placed
      BY <2>1, <2>3 DEF RunHolds, RunLife, LearnsNothing, TypeOK
    <3>2. Still(u, run.held[u])
      BY <1>1, <3>1
    <3> QED
      BY <2>1, <3>2 DEF Holds, Later, Grows
  <2> QED
    BY <2>1, <2>2, <2>3 DEF RunHolds, LearnsNothing
<1>6. Lives'
  BY DEF Lives, LearnsNothing
<1> QED
  BY <1>3, <1>4, <1>5, <1>6

LEMMA PutCounts ==
  ASSUME TypeOK, Counting, NEW u \in Uid, NEW x \in Placed, Put(u, x),
         x.modseq = Counted, x.mail # NoMail, u <= next', next \in Nat, next' \in Nat, next <= next',
         UNCHANGED condstore
  PROVE  Counting'
<1>1. \A w \in Uid : w > next' \/ box'[w].mail = NoMail => box'[w] = Nothing
  BY ConstantsOK DEF TypeOK, Counting, Put, Uid
<1>2. ASSUME condstore, NEW w \in Uid PROVE box'[w].modseq <= high'
  BY <1>2, ConstantsOK DEF TypeOK, Counting, Put, Counted, Placed
<1> QED
  BY <1>1, <1>2 DEF Counting

\* Taking something from the folder.
LEMMA TakeCounts ==
  ASSUME TypeOK, Counting, NEW u \in Uid, box' = [box EXCEPT ![u] = Nothing],
         UNCHANGED <<next, high, condstore>>
  PROVE  Counting'
<1>1. \A w \in Uid : box'[w] = Nothing \/ box'[w] = box[w]
  BY DEF TypeOK
<1>2. Nothing.modseq = 0 /\ high \in Nat
  BY ConstantsOK DEF TypeOK, Nothing
<1> QED
  BY <1>1, <1>2 DEF Counting

\* What is in memory rests on the folder as it is, if that is still the one
\* that was loaded.
LEMMA RunRests ==
  ASSUME TypeOK, Lives, RunHolds, run.todo # {}, RunLife
  PROVE  /\ SameLife /\ run.generation = generation
         /\ \A i \in Item : Rests(i) /\ premise[i].generation = run.generation =>
              Holds(premise[i].uid, premise[i].seen)
<1>1. /\ run.remembered \in Nat /\ remembered \in Nat /\ validity \in Nat
      /\ run.remembered <= remembered /\ remembered <= validity
      /\ validity = run.remembered
  BY DEF TypeOK, Lives, RunHolds, RunLife
<1>2. run.remembered = remembered /\ validity = remembered
  BY <1>1
<1> QED
  BY <1>2 DEF RunHolds, SameLife, Rests

\* And it is, as long as the generation is.
LEMMA RunIsOf ==
  ASSUME RunHolds, run.todo # {}, SameLife, run.generation = generation
  PROVE  RunLife
  BY DEF RunHolds, SameLife, RunLife

\* What others do leaves the item being applied as it was, or the connection
\* dead.
LEMMA StepOn ==
  ASSUME TypeOK, TypeOK', StepHolds, PremisesHold, RunHolds, Lives,
         UNCHANGED <<server, cache, record, run, step, target>>,
         link' \in {link, "dead"},
         link' # "dead" /\ link = "selected" =>
           /\ next <= next'
           /\ \A u \in Uid : u <= next => box'[u].mail \in {box[u].mail, NoMail},
         RunLife' => RunLife /\ Grows
  PROVE  StepHolds'
<1> SUFFICES ASSUME step # Idle PROVE step.item \in Item /\ Applying(step.item)'
  BY DEF StepHolds, Idle
<1> DEFINE i == step.item
<1>1. i \in Item /\ Applying(i) /\ premise[i].uid \in Uid /\ Rests(i) /\ run.todo # {}
  BY StepRests
<1>2. ASSUME step.at \in {"command", "copied"}, i \in Filing, link' # "dead"
      PROVE  /\ link' = "selected" /\ premise'[i].uid <= next'
             /\ step.at = "copied" /\ Here(i)'.mail # NoMail => Here(i)'.mail \in target'
  <2>1. link = "selected" /\ premise[i].uid <= next /\ premise'[i] = premise[i]
    BY <1>1, <1>2 DEF Applying, record
  <2>2. premise[i].uid \in Nat /\ next \in Nat /\ next' \in Nat /\ next <= next'
    BY <1>1, <1>2, <2>1, ConstantsOK DEF TypeOK, NoPremise, Uid
  <2>3. link' = "selected" /\ premise'[i].uid <= next'
    BY <1>2, <2>1, <2>2
  <2>4. ASSUME step.at = "copied", Here(i)'.mail # NoMail
        PROVE  Here(i)'.mail \in target'
    <3>1. Here(i).mail # NoMail => Here(i).mail \in target
      BY <1>1, <1>2, <2>1, <2>4 DEF Applying
    <3> QED
      BY <1>1, <1>2, <2>1, <2>4, <3>1 DEF Here
  <2> QED
    BY <2>3, <2>4
<1>3. Settled(i)'
  <2> DEFINE u == premise[i].uid
  <2> SUFFICES ASSUME step.at = "done", i \notin Filing, condstore, RunLife',
                      ~run.held[u].flagged, cached[u].mail # NoMail, box'[u].mail # NoMail
               PROVE  cached[u].modseq < box'[u].modseq
    BY DEF Settled, Here, server, record, cache
  <2>1. RunLife /\ Grows
    OBVIOUS
  <2>2. u <= next
    BY <1>1, <2>1, RunRests DEF Applying, Holds
  <2>3. Later(box[u], box'[u])
    BY <1>1, <2>1, <2>2 DEF Grows
  <2>4. box[u].mail # NoMail /\ box[u].modseq <= box'[u].modseq
    BY <2>3 DEF Later
  <2>5. cached[u].modseq < box[u].modseq
    BY <1>1, <2>1, <2>4 DEF Applying, Settled, Here
  <2>6. cached[u].modseq \in Nat /\ box[u].modseq \in Nat /\ box'[u].modseq \in Nat
    BY <1>1 DEF TypeOK, Placed
  <2> QED
    BY <2>4, <2>5, <2>6
<1>4. /\ i \in run'.todo /\ premise'[i].generation = run'.generation
      /\ run'.held[premise'[i].uid].mail # NoMail
      /\ Same(run.held[premise[i].uid], premise[i].seen)'
      /\ step'.at = "copied" => ByCopy(i)'
  BY <1>1 DEF Applying, ByCopy, Same, record, cache, server
<1> QED
  BY <1>1, <1>2, <1>3, <1>4 DEF Applying

\* The histories of what was changed, when nothing is.
LEMMA HistoryOn ==
  ASSUME TouchedHold, NoMailIsLost, AppliesToWhatWasRead, ConditionalIsHonest,
         UNCHANGED <<condstore, taken, touched, premise>>, target \subseteq target',
         \A i \in Item : status[i] # "absent" => status'[i] # "absent",
         TypeOK
  PROVE  TouchedHold' /\ NoMailIsLost' /\ AppliesToWhatWasRead' /\ ConditionalIsHonest'
  BY DEF TouchedHold, NoMailIsLost, AppliesToWhatWasRead, ConditionalIsHonest,
         Conditional, TypeOK

-----------------------------------------------------------------------------
(* The steps                                                               *)

\* Whatever is done by others, the folder goes on, or is made anew.
LEMMA WorldGrows ==
  ASSUME TypeOK, TypeOK', Counting, World
  PROVE  Remake \/ (Counting' /\ Grows)
<1> USE ConstantsOK, NothingIsPlaced
<1>0. TypeOK /\ TypeOK' /\ Counting
  OBVIOUS
<1>1. UNCHANGED server
  BY DEF World, Deliver, Toggle, Leave, Remake, Drop, Others
<1>2. ASSUME NEW m \in Mail, Deliver(m) PROVE Counting' /\ Grows
  <2> DEFINE x == [mail |-> m, flagged |-> FALSE, marked |-> FALSE, modseq |-> Counted]
  <2>1. next + 1 \in Uid /\ next \in Nat /\ next' = next + 1 /\ Put(next + 1, x)
    BY <1>0, <1>2 DEF Deliver, TypeOK, Uid
  <2>2. x \in Placed /\ x.mail # NoMail
    BY <1>0, <1>2, CountedType DEF Deliver, Placed
  <2>3. Counting'
    BY <1>0, <1>1, <2>1, <2>2, PutCounts DEF server
  <2>4. \A u \in Uid : u <= next => box'[u] = box[u]
    BY <1>0, <2>1 DEF Put, TypeOK, Uid
  <2>5. \A u \in Uid : box[u].modseq \in Nat
    BY <1>0 DEF TypeOK, Placed
  <2>6. Grows
    BY <1>1, <2>1, <2>4, <2>5 DEF Grows, Later, server
  <2> QED
    BY <2>3, <2>6
<1>3. ASSUME NEW u \in Uid, Toggle(u) PROVE Counting' /\ Grows
  <2>0. box[u].mail # NoMail
    BY <1>3 DEF Toggle
  <2>1. PICK x \in Placed : x.mail = box[u].mail /\ x.modseq = Counted /\ Put(u, x)
    <3> DEFINE x == [box[u] EXCEPT !.flagged = ~@, !.modseq = Counted]
               y == [box[u] EXCEPT !.marked = ~@, !.modseq = Counted]
    <3>1. box[u] \in Placed
      BY <1>0 DEF TypeOK
    <3>2. /\ x \in Placed /\ x.mail = box[u].mail /\ x.modseq = Counted
          /\ y \in Placed /\ y.mail = box[u].mail /\ y.modseq = Counted
      BY <1>0, <1>3, <3>1, CountedType DEF Toggle, Placed
    <3>3. Put(u, x) \/ Put(u, y)
      BY <1>3 DEF Toggle
    <3> HIDE DEF x, y
    <3> QED
      BY <3>2, <3>3
  <2>2. u <= next /\ next \in Nat /\ next' = next
    BY <1>0, <1>3, SMTT(20) DEF Toggle, Counting, Nothing, TypeOK, Uid
  <2>3. Counting'
    BY <1>0, <1>1, <2>0, <2>1, <2>2, PutCounts DEF server
  <2>4. \A w \in Uid : box'[w] = IF w = u THEN x ELSE box[w]
    BY <1>0, <2>1 DEF Put, TypeOK
  <2>5. \A w \in Uid : box[w].modseq \in Nat
    BY <1>0 DEF TypeOK, Placed
  <2>6. Later(box[u], x)
    <3>1. condstore => box[u].modseq < x.modseq
      BY <1>0, <2>1, <2>5 DEF Counting, Counted, TypeOK
    <3> QED
      BY <2>1, <2>5, <3>1 DEF Later, Placed
  <2>7. Grows
    BY <1>0, <1>1, <2>1, <2>2, <2>4, <2>6, LaterItself DEF Grows, server, TypeOK
  <2> QED
    BY <2>3, <2>7
<1>4. ASSUME NEW u \in Uid, Leave(u) PROVE Counting' /\ Grows
  <2>1. Counting'
    BY <1>0, <1>1, <1>4, TakeCounts DEF Leave, server
  <2>2. \A w \in Uid : box'[w] = IF w = u THEN Nothing ELSE box[w]
    BY <1>0, <1>4 DEF Leave, TypeOK
  <2>3. Grows
    BY <1>0, <1>1, <1>4, <2>2, LaterItself DEF Grows, Leave, Nothing, server, TypeOK
  <2> QED
    BY <2>1, <2>3
<1>5. ASSUME Drop PROVE Counting' /\ Grows
  BY <1>0, <1>1, <1>5, LaterItself DEF Drop, Counting, Grows, folder, server, TypeOK
<1> QED
  BY <1>2, <1>3, <1>4, <1>5 DEF World

\* A folder made anew is not the one the last sync saw.
LEMMA RemakeIsAnother ==
  ASSUME TypeOK, Lives, RunHolds, Remake
  PROVE  Lives' /\ ~SameLife' /\ (run.todo # {} => ~RunLife')
<1>1. /\ remembered \in Nat /\ generation \in Nat /\ validity \in Nat
      /\ UNCHANGED <<remembered, generation, run>> /\ validity' = validity + 1
      /\ run.remembered \in Nat
      /\ run.todo # {} => run.remembered <= remembered
  BY DEF TypeOK, Remake, Others, cache, RunHolds
<1> QED
  BY <1>1 DEF Lives, SameLife, RunLife

LEMMA WorldStep ==
  ASSUME ApplyInv, World
  PROVE  ApplyInv'
<1> USE ConstantsOK, NothingIsPlaced
<1>0. TypeOK /\ TypeOK'
  BY WorldType DEF ApplyInv
<1>1. UNCHANGED <<server, target, cache, record, run, step, touched, taken>>
  BY DEF World, Deliver, Toggle, Leave, Remake, Drop, Others
<1>2. TouchedHold' /\ NoMailIsLost' /\ AppliesToWhatWasRead' /\ ConditionalIsHonest'
  BY <1>0, <1>1, HistoryOn DEF ApplyInv, server, record
<1>3. ASSUME Counting', Grows, UNCHANGED validity, link' \in {link, "dead"}
      PROVE  ApplyInv'
  <2>1. LearnsNothing
    BY <1>1, <1>3 DEF LearnsNothing, cache, record
  <2>2. CacheHolds' /\ PremisesHold' /\ RunHolds' /\ Lives'
    BY <1>0, <1>3, <2>1, HoldsOn DEF ApplyInv
  <2>3. RunLife' => RunLife
    BY <1>1, <1>3 DEF RunLife
  <2>4. \A u \in Uid : u <= next => box'[u].mail \in {box[u].mail, NoMail}
    BY <1>3 DEF Grows, Later
  <2>5. StepHolds'
    BY <1>0, <1>1, <1>3, <2>3, <2>4, StepOn DEF ApplyInv, Grows
  <2> QED
    BY <1>0, <1>2, <1>3, <2>2, <2>5 DEF ApplyInv
<1>4. CASE Remake
  <2>1. Counting'
    BY <1>0, <1>4 DEF Remake, Counting, Nothing
  <2>2. Lives' /\ ~SameLife'
    BY <1>0, <1>4, RemakeIsAnother DEF ApplyInv
  <2>3. CacheHolds'
    BY <2>2 DEF CacheHolds
  <2>4. PremisesHold'
    BY <1>1, <2>2 DEF ApplyInv, PremisesHold, Rests, record, cache
  <2>5. run.todo # {} => ~RunLife'
    BY <1>0, <1>1, <1>4, RemakeIsAnother DEF ApplyInv
  <2>6. RunHolds'
    BY <1>1, <2>5 DEF ApplyInv, RunHolds, cache, record
  <2>7. StepHolds'
    <3>1. step # Idle => run.todo # {}
      BY <1>0, StepRests DEF ApplyInv
    <3>2. CASE step = Idle
      BY <1>1, <3>2 DEF StepHolds
    <3>3. CASE step # Idle
      BY <1>0, <1>1, <1>4, <2>5, <3>1, <3>3, StepOn DEF Remake, ApplyInv
    <3> QED
      BY <3>2, <3>3
  <2> QED
    BY <1>0, <1>2, <2>1, <2>2, <2>3, <2>4, <2>6, <2>7 DEF ApplyInv
<1>5. CASE ~Remake
  <2>1. Counting' /\ Grows
    BY <1>0, <1>5, WorldGrows DEF ApplyInv
  <2>2. UNCHANGED validity /\ link' \in {link, "dead"}
    BY <1>5 DEF World, Deliver, Toggle, Leave, Drop, folder
  <2> QED
    BY <1>3, <2>1, <2>2
<1> QED
  BY <1>4, <1>5

LEMMA SyncStep ==
  ASSUME ApplyInv, Sync
  PROVE  ApplyInv'
<1> USE ConstantsOK
<1>0. TypeOK /\ TypeOK'
  BY ReviewType DEF ApplyInv
<1>1. \A i \in Item : status'[i] # "absent" <=> status[i] # "absent"
  BY <1>0 DEF Sync, TypeOK
<1>2. TouchedHold' /\ NoMailIsLost' /\ AppliesToWhatWasRead' /\ ConditionalIsHonest'
  BY <1>0, <1>1, HistoryOn DEF ApplyInv, Sync, server, folder
<1>3. Counting'
  BY DEF ApplyInv, Sync, Counting, server, folder
<1>4. Lives'
  BY <1>0 DEF ApplyInv, Sync, Lives, IdentityBroken, TypeOK, folder
<1>5. CacheHolds'
  <2> SUFFICES ASSUME NEW u \in Uid, box[u].mail # NoMail PROVE Holds(u, box[u])'
    BY DEF CacheHolds, Sync, folder
  <2>1. ~ u > next /\ next \in Nat /\ box[u].modseq \in Nat
    BY <1>0 DEF ApplyInv, Counting, Nothing, TypeOK, Placed
  <2>2. u <= next /\ box[u].modseq <= box[u].modseq
    BY <2>1 DEF Uid
  <2> QED
    BY <2>2 DEF Holds, Later, Sync, folder
<1>6. PremisesHold'
  <2> SUFFICES ASSUME NEW i \in Item, status'[i] # "absent" PROVE Rests(i)'
    BY DEF PremisesHold
  <2>1. Rests(i) /\ premise' = premise
    BY <1>1 DEF ApplyInv, PremisesHold, Sync
  <2>2. CASE IdentityBroken
    <3>1. generation' = generation + 1
      BY <1>0, <2>2 DEF Sync, TypeOK
    <3>2. premise[i].generation < generation'
      <4>1. premise[i].generation <= generation
        BY <2>1 DEF Rests
      <4> QED
        BY <1>0, <3>1, <4>1 DEF TypeOK, NoPremise
    <3>3. premise[i].generation <= generation' /\ premise[i].generation # generation'
      BY <1>0, <3>2 DEF TypeOK, NoPremise
    <3> QED
      BY <2>1, <3>3 DEF Rests
  <2>3. CASE ~IdentityBroken
    <3>1. SameLife /\ UNCHANGED <<generation, box, next, condstore>>
      BY <2>3 DEF Sync, IdentityBroken, SameLife, folder, server
    <3> QED
      BY <2>1, <3>1 DEF Rests, Holds, Later
  <2> QED
    BY <2>2, <2>3
<1>7. StepHolds'
  BY DEF Sync, StepHolds
<1>8. RunHolds'
  <2> SUFFICES ASSUME run.todo # {} PROVE RunHolds'
    BY DEF RunHolds, Sync
  <2>1. /\ RunHolds /\ run' = run /\ remembered' = validity
        /\ UNCHANGED <<box, next, condstore, validity>>
    BY DEF ApplyInv, Sync, folder, server
  <2>2. /\ run.remembered \in Nat /\ remembered \in Nat /\ validity \in Nat
        /\ run.generation \in Nat /\ generation \in Nat
        /\ run.remembered <= remembered /\ run.generation <= generation
        /\ remembered <= validity
    BY <1>0, <2>1 DEF ApplyInv, TypeOK, Lives, RunHolds
  <2>3. \A i \in run.todo : status'[i] # "absent"
    BY <1>0, <1>1, <2>1 DEF RunHolds, TypeOK
  <2>4. CASE IdentityBroken
    <3>1. generation' = generation + 1 /\ remembered # validity
      BY <2>4 DEF Sync, IdentityBroken
    <3>2. /\ run.remembered < remembered' /\ run.generation < generation' /\ ~RunLife'
      BY <2>1, <2>2, <3>1 DEF RunLife
    <3> QED
      BY <2>1, <2>2, <2>3, <3>1, <3>2 DEF RunHolds
  <2>5. CASE ~IdentityBroken
    <3>1. UNCHANGED <<generation, remembered>>
      BY <2>1, <2>5 DEF Sync, IdentityBroken
    <3> QED
      BY <2>1, <2>3, <3>1 DEF RunHolds, RunLife, Holds, Later
  <2> QED
    BY <2>4, <2>5
<1> QED
  BY <1>0, <1>2, <1>3, <1>4, <1>5, <1>6, <1>7, <1>8 DEF ApplyInv

LEMMA DecideStep ==
  ASSUME ApplyInv, NEW b \in Bundle, NEW at \in [b -> Uid], Decide(b, at)
  PROVE  ApplyInv'
<1> USE ConstantsOK
<1>0. TypeOK /\ TypeOK'
  BY ReviewType DEF ApplyInv
<1>1. UNCHANGED <<server, folder, link, cache, run, step, touched, taken>>
  BY DEF Decide, ghosts
<1>2. \A j \in Item : /\ j \notin b => status'[j] = status[j] /\ premise'[j] = premise[j]
                      /\ status[j] # "absent" => j \notin b
  BY <1>0 DEF Decide, TypeOK
<1>3. TouchedHold'
  BY <1>0, <1>1, <1>2 DEF ApplyInv, TouchedHold, TypeOK
<1>4. \A t \in touched : t.item \in Item /\ premise'[t.item] = premise[t.item]
  BY <1>0, <1>2 DEF ApplyInv, TouchedHold, TypeOK
<1>5. NoMailIsLost' /\ AppliesToWhatWasRead' /\ ConditionalIsHonest'
  BY <1>1, <1>4 DEF ApplyInv, NoMailIsLost, AppliesToWhatWasRead,
     ConditionalIsHonest, server, folder
<1>6. Counting' /\ Lives' /\ CacheHolds'
  BY <1>1 DEF ApplyInv, Counting, Lives, CacheHolds, SameLife, Holds, Later, server, folder, cache
<1>7. PremisesHold'
  <2> SUFFICES ASSUME NEW j \in Item, status'[j] # "absent" PROVE Rests(j)'
    BY DEF PremisesHold
  <2>1. CASE j \notin b
    <3>1. Rests(j)
      BY <1>2, <2>1 DEF ApplyInv, PremisesHold
    <3> QED
      BY <1>1, <1>2, <2>1, <3>1 DEF Rests, SameLife, Holds, Later, server, folder, cache
  <2>2. CASE j \in b
    <3> DEFINE u == at[j]
    <3>1. /\ premise'[j].uid = u /\ premise'[j].seen = cached[u] /\ u \in Uid
          /\ premise'[j].generation = generation /\ cached[u].mail # NoMail
      BY <1>0, <2>2 DEF Decide, TypeOK
    <3>2. SameLife => Holds(u, cached[u])
      BY <3>1 DEF ApplyInv, CacheHolds
    <3>3. generation' = generation /\ generation <= generation
      BY <1>0, <1>1 DEF TypeOK, cache
    <3> QED
      BY <1>1, <3>1, <3>2, <3>3 DEF Rests, SameLife, Holds, Later, server, folder, cache
  <2> QED
    BY <2>1, <2>2
<1>8. StepHolds'
  <2> SUFFICES ASSUME step # Idle PROVE step.item \in Item /\ Applying(step.item)'
    BY <1>1 DEF StepHolds, Idle
  <2>1. step.item \in Item /\ Applying(step.item) /\ status[step.item] # "absent"
    BY <1>0, StepRests DEF ApplyInv
  <2>2. premise'[step.item] = premise[step.item]
    BY <1>2, <2>1
  <2> QED
    BY <1>1, <2>1, <2>2
       DEF Applying, Settled, RunLife, Same, ByCopy, Here, server, folder, cache
<1>9. RunHolds'
  <2>1. RunHolds /\ UNCHANGED <<run, generation, remembered, validity, box, next, condstore>>
    BY <1>1 DEF ApplyInv, server, folder, cache
  <2>2. run.todo # {} => \A i \in run.todo : status'[i] # "absent"
    BY <1>0, <1>2, <2>1 DEF RunHolds, TypeOK
  <2> QED
    BY <2>1, <2>2 DEF RunHolds, RunLife, Holds, Later
<1> QED
  BY <1>0, <1>3, <1>5, <1>6, <1>7, <1>8, <1>9 DEF ApplyInv

\* A run begins, and may be cut short between two items.
LEMMA StartStep ==
  ASSUME ApplyInv, Stop \/ \E b \in Bundle : Start(b)
  PROVE  ApplyInv'
<1> USE ConstantsOK
<1>0. TypeOK /\ TypeOK'
  BY ReviewType DEF ApplyInv
<1>1. UNCHANGED <<server, folder, link, cache, record, step, ghosts>>
  BY DEF Start, Stop
<1>2. step = Idle
  BY <1>0, StepRests DEF ApplyInv, Start, Stop, NoRun
<1>3. Counting' /\ Lives' /\ CacheHolds' /\ PremisesHold' /\ StepHolds'
  BY <1>1, <1>2 DEF ApplyInv, Counting, Lives, CacheHolds, PremisesHold, Rests, SameLife,
     Holds, Later, StepHolds, server, folder, cache, record
<1>4. TouchedHold' /\ NoMailIsLost' /\ AppliesToWhatWasRead' /\ ConditionalIsHonest'
  BY <1>0, <1>1, HistoryOn DEF ApplyInv, server, folder, record, ghosts
<1>5. RunHolds'
  <2>1. CASE Stop
    BY <2>1 DEF Stop, NoRun, RunHolds
  <2>2. ASSUME NEW b \in Bundle, Start(b) PROVE RunHolds'
    <3>1. /\ run'.generation = generation /\ run'.remembered = remembered
          /\ run'.held = cached /\ \A i \in run'.todo : status'[i] # "absent"
      BY <1>1, <2>2 DEF Start, record
    <3>2. UNCHANGED <<generation, remembered, validity, box, next, condstore>>
      BY <1>1 DEF server, folder, cache
    <3>3. generation <= generation /\ remembered <= remembered
      BY <1>0 DEF TypeOK
    <3>4. ASSUME RunLife', NEW u \in Uid, run'.held[u].mail # NoMail
          PROVE  Holds(u, run.held[u])'
      <4>1. Holds(u, cached[u])
        BY <3>1, <3>2, <3>4 DEF RunLife, ApplyInv, CacheHolds, SameLife
      <4> QED
        BY <3>1, <3>2, <4>1 DEF Holds, Later
    <3> QED
      BY <3>1, <3>2, <3>3, <3>4 DEF RunHolds
  <2> QED
    BY <2>1, <2>2
<1> QED
  BY <1>0, <1>3, <1>4, <1>5 DEF ApplyInv

\* A command that is carried out.
LEMMA ChangeStep ==
  ASSUME ApplyInv, TypeOK', NEW i \in Item, Commanding(i), link # "dead", Change(i),
         UNCHANGED <<server, cache, record, run>>
  PROVE  /\ Grows /\ Counting'
         /\ TouchedHold' /\ NoMailIsLost' /\ AppliesToWhatWasRead' /\ ConditionalIsHonest'
         /\ target \subseteq target'
<1> USE ConstantsOK, NothingIsPlaced
<1> DEFINE u == premise[i].uid
           m == Here(i).mail
<1>0. TypeOK /\ UNCHANGED <<condstore, hasMove, status, premise, next, validity>>
  BY DEF ApplyInv, Change, server, record, folder
<1>1. /\ Applying(i) /\ u \in Uid /\ Rests(i) /\ Here(i) \in Placed
      /\ status[i] # "absent"
      /\ RunLife => SameLife /\ Holds(u, premise[i].seen)
  <2>1. /\ step # Idle /\ step.item = i
    BY DEF Commanding, Idle
  <2>2. Applying(i) /\ u \in Uid /\ Rests(i) /\ status[i] # "absent" /\ run.todo # {}
    BY <1>0, <2>1, StepRests DEF ApplyInv
  <2> QED
    BY <1>0, <2>2, RunRests DEF ApplyInv, Applying, Here, TypeOK
<1>2. CASE UNCHANGED <<folder, performed, taken, touched, strayed>>
  <2>1. Grows /\ Counting'
    BY <1>0, <1>2 DEF ApplyInv, Counting, Grows, Later, folder, TypeOK, Placed
  <2>2. target' = target
    BY <1>2 DEF folder
  <2>3. TouchedHold' /\ NoMailIsLost' /\ AppliesToWhatWasRead' /\ ConditionalIsHonest'
    BY <1>0, <1>2, <2>2, HistoryOn DEF ApplyInv
  <2> QED
    BY <2>1, <2>2, <2>3
<1>3. CASE m # NoMail /\ ~Declines(i)
  <2> DEFINE t == [item |-> i, mail |-> m,
                   asRead |-> Conditional(i) => Same(Here(i), premise[i].seen)]
  <2>1. touched' # touched => RunLife /\ touched' = touched \cup {t}
    BY <1>3 DEF Change, RunLife
  <2>2. u <= next /\ next \in Nat /\ next <= next'
    <3>1. ~ u > next /\ next \in Nat
      BY <1>0, <1>1, <1>3 DEF ApplyInv, Counting, Nothing, Here, TypeOK
    <3> QED
      BY <1>0, <1>1, <3>1 DEF Uid
  <2>3. \A w \in Uid : box[w].modseq \in Nat
    BY <1>0 DEF TypeOK, Placed
  <2>4. ASSUME NEW x \in Placed, CanCount, Put(u, x), x.mail = m, x.modseq = Counted
        PROVE  Grows /\ Counting'
    <3>1. Counting'
      BY <1>0, <1>1, <1>3, <2>2, <2>4, PutCounts DEF ApplyInv, server
    <3>2. \A w \in Uid : box'[w] = IF w = u THEN x ELSE box[w]
      BY <1>0, <1>1, <2>4 DEF Put, TypeOK
    <3>3. Later(box[u], x)
      <4>1. condstore => box[u].modseq < x.modseq
        BY <1>0, <1>1, <2>3, <2>4 DEF ApplyInv, Counting, Counted, TypeOK
      <4> QED
        BY <1>1, <2>3, <2>4, <4>1 DEF Later, Placed, Here
    <3>4. Grows
      BY <1>0, <2>2, <2>4, <3>2, <3>3, LaterItself DEF Grows, TypeOK
    <3> QED
      BY <3>1, <3>4
  <2>5. Grows /\ Counting'
    <3>1. CASE UNCHANGED <<box, high>>
      BY <1>0, <2>2, <2>3, <3>1 DEF ApplyInv, Counting, Grows, Later
    <3>2. CASE box' = [box EXCEPT ![u] = Nothing] /\ UNCHANGED high
      <4>1. Counting'
        BY <1>0, <1>1, <3>2, TakeCounts DEF ApplyInv
      <4>2. \A w \in Uid : box'[w] = IF w = u THEN Nothing ELSE box[w]
        BY <1>0, <3>2 DEF TypeOK
      <4> QED
        BY <1>0, <2>2, <2>3, <4>1, <4>2 DEF Grows, Later, Nothing
    <3>3. CASE CanCount /\ Put(u, [Here(i) EXCEPT !.flagged = TRUE, !.modseq = Counted])
      <4> DEFINE x == [Here(i) EXCEPT !.flagged = TRUE, !.modseq = Counted]
      <4>1. x \in Placed /\ x.mail = m /\ x.modseq = Counted
        BY <1>0, <1>1, <3>3, CountedType DEF Placed
      <4> QED
        BY <2>4, <3>3, <4>1
    <3>4. CASE CanCount /\ Put(u, [Here(i) EXCEPT !.marked = TRUE, !.modseq = Counted])
      <4> DEFINE x == [Here(i) EXCEPT !.marked = TRUE, !.modseq = Counted]
      <4>1. x \in Placed /\ x.mail = m /\ x.modseq = Counted
        BY <1>0, <1>1, <3>4, CountedType DEF Placed
      <4> QED
        BY <2>4, <3>4, <4>1
    <3> QED
      BY <1>3, <3>1, <3>2, <3>3, <3>4 DEF Change
  <2>6. TouchedHold'
    BY <1>0, <1>1, <2>1 DEF ApplyInv, TouchedHold
  <2>7. NoMailIsLost' /\ target \subseteq target'
    <3>1. step.at = "copied" /\ ByCopy(i) => m \in target
      BY <1>1, <1>3 DEF Applying, ByCopy
    <3> QED
      BY <1>3, <3>1 DEF Change, ApplyInv, NoMailIsLost
  <2>8. RunLife => m = premise[i].seen.mail /\ (condstore => premise[i].seen.modseq <= Here(i).modseq)
    BY <1>1, <1>3 DEF Holds, Later, Here
  <2>9. AppliesToWhatWasRead'
    BY <1>0, <2>1, <2>8 DEF ApplyInv, AppliesToWhatWasRead
  <2>10. RunLife => t.asRead
    <3>1. premise[i].seen.modseq \in Nat /\ Here(i).modseq \in Nat
      BY <1>0, <1>1 DEF TypeOK, Placed, NoPremise, Nothing
    <3>2. Conditional(i) => condstore /\ ~ Here(i).modseq > premise[i].seen.modseq
      BY <1>3 DEF Declines, Conditional
    <3>3. ASSUME Conditional(i), RunLife PROVE Same(Here(i), premise[i].seen)
      <4>1. condstore /\ Here(i).modseq = premise[i].seen.modseq
        BY <2>8, <3>1, <3>2, <3>3
      <4> QED
        BY <4>1 DEF Same
    <3> QED
      BY <3>3
  <2>11. ConditionalIsHonest'
    BY <1>0, <2>1, <2>10 DEF ApplyInv, ConditionalIsHonest
  <2> QED
    BY <2>5, <2>6, <2>7, <2>9, <2>11
<1> QED
  BY <1>2, <1>3 DEF Change

LEMMA RunnerStep ==
  ASSUME ApplyInv, NEW i \in Item, Runner(i)
  PROVE  ApplyInv'
<1> USE ConstantsOK
<1>0. TypeOK /\ TypeOK'
  BY RunnerType DEF ApplyInv
<1>1. step.item = i => /\ Applying(i) /\ premise[i].uid \in Uid /\ status[i] # "absent"
                       /\ run.todo # {} /\ step # Idle
  BY <1>0, StepRests DEF ApplyInv, Idle
<1>2. ASSUME UNCHANGED <<server, folder, generation, remembered, premise, touched, taken>>,
             \A j \in Item : status'[j] # "absent" <=> status[j] # "absent",
             run' \in {run, Past(i), NoRun},
             \A w \in Uid : cached'[w].mail # NoMail /\ cached'[w] # cached[w] /\ SameLife =>
               Holds(w, cached'[w]),
             StepHolds'
      PROVE  ApplyInv'
  <2>1. Grows /\ Counting'
    BY <1>0, <1>2 DEF ApplyInv, Counting, Grows, Later, server, folder, TypeOK, Placed
  <2>2. LearnsNothing
    <3>1. \/ run'.todo = {}
          \/ /\ run'.todo \subseteq run.todo /\ run'.generation = run.generation
             /\ run'.remembered = run.remembered /\ run'.held = run.held
      BY <1>0, <1>2 DEF Past, NoRun, TypeOK
    <3> QED
      BY <1>2, <3>1 DEF LearnsNothing, folder
  <2>3. CacheHolds' /\ PremisesHold' /\ RunHolds' /\ Lives'
    BY <1>0, <2>1, <2>2, HoldsOn DEF ApplyInv
  <2>4. TouchedHold' /\ NoMailIsLost' /\ AppliesToWhatWasRead' /\ ConditionalIsHonest'
    BY <1>0, <1>2, HistoryOn DEF ApplyInv, server, folder
  <2> QED
    BY <1>0, <1>2, <2>1, <2>3, <2>4 DEF ApplyInv
<1>3. ASSUME Change(i), Commanding(i), link # "dead", UNCHANGED <<server, cache, record, run>>,
             StepHolds'
      PROVE  ApplyInv'
  <2>1. /\ Grows /\ Counting'
        /\ TouchedHold' /\ NoMailIsLost' /\ AppliesToWhatWasRead' /\ ConditionalIsHonest'
    BY <1>0, <1>3, ChangeStep
  <2>2. LearnsNothing
    BY <1>3 DEF LearnsNothing, Change, cache, record, folder
  <2>3. CacheHolds' /\ PremisesHold' /\ RunHolds' /\ Lives'
    BY <1>0, <2>1, <2>2, HoldsOn DEF ApplyInv
  <2> QED
    BY <1>0, <1>3, <2>1, <2>3 DEF ApplyInv
<1>4. ASSUME step' = Idle PROVE StepHolds'
  BY <1>4 DEF StepHolds
<1>5. ASSUME UNCHANGED <<server, cache, record, run>>, Applying(i), step'.item = i,
             step'.at \notin {"command", "copied"}, Settled(i)'
      PROVE  StepHolds'
  BY <1>5 DEF StepHolds, Applying, Same, server, cache, record
<1>6. CASE Check(i)
  <2>1. ASSUME Fresh(i), UNCHANGED <<status, run>>,
               step' = [item |-> i, at |-> IF Conditional(i) THEN "command" ELSE "look"]
        PROVE  StepHolds'
    <3>1. step'.item = i /\ step'.at \notin {"copied", "done"}
          /\ (step'.at = "command" => i \notin Filing)
      BY <2>1 DEF Conditional
    <3>2. i \in run.todo /\ UNCHANGED <<server, cache, premise>>
      BY <1>6 DEF Check
    <3> QED
      BY <2>1, <3>1, <3>2 DEF StepHolds, Applying, Settled, Same, Fresh, server, cache
  <2>2. StepHolds'
    BY <1>4, <1>6, <2>1 DEF Check
  <2>3. \A j \in Item : status'[j] # "absent" <=> status[j] # "absent"
    BY <1>0, <1>6 DEF Check, TypeOK, ApplyInv, RunHolds
  <2> QED
    BY <1>2, <1>6, <2>2, <2>3 DEF Check, cache, ghosts
<1>7. CASE Look(i)
  <2>1. step.item = i /\ Applying(i)
    BY <1>1, <1>7 DEF Look
  <2>2. Here(i).mail # NoMail => premise[i].uid <= next
    <3>1. premise[i].uid \in Uid /\ (Here(i).mail # NoMail => ~ premise[i].uid > next)
      BY <1>1, <2>1 DEF ApplyInv, Counting, Here, Nothing
    <3>2. premise[i].uid \in Nat /\ next \in Nat
      BY <1>0, <3>1, ConstantsOK DEF TypeOK, Uid
    <3> QED
      BY <3>1, <3>2
  <2>3. step'.item = i /\ step'.at \in {"command", "refused"} /\ link' = "selected"
        /\ (step'.at = "command" => premise[i].uid <= next)
    BY <1>0, <1>7, <2>2 DEF Look, TypeOK
  <2>4. StepHolds'
    BY <1>7, <2>1, <2>3
       DEF Look, StepHolds, Applying, Settled, Same, server, folder, cache, record
  <2> QED
    BY <1>2, <1>7, <2>4 DEF Look, cache, record, ghosts
<1>8. CASE Obeyed(i)
  <2>1. step.item = i /\ Applying(i) /\ premise[i].uid \in Uid /\ run.todo # {}
    BY <1>1, <1>8 DEF Obeyed, Commanding
  <2>2. step'.item = i /\ step'.at \in {"refused", "copied", "done"}
    BY <1>0, <1>8, <2>1 DEF Obeyed, TypeOK
  <2>3. CASE step'.at # "copied"
    <3>1. Settled(i)'
      <4> DEFINE u == premise[i].uid
      <4> SUFFICES ASSUME step'.at = "done", i \notin Filing, condstore, RunLife',
                          ~run.held[u].flagged, cached[u].mail # NoMail, box'[u].mail # NoMail
                   PROVE  cached[u].modseq < box'[u].modseq
        BY <1>8 DEF Settled, Obeyed, Here, server, cache, record
      <4>1. RunLife /\ Conditional(i) /\ ~Declines(i) /\ Here(i).mail # NoMail
        BY <1>0, <1>8, <2>1 DEF Obeyed, Change, RunLife, folder, Conditional, TypeOK, Declines
      <4>2. SameLife /\ Holds(u, premise[i].seen) /\ Holds(u, run.held[u])
        BY <1>0, <2>1, <4>1, RunRests, StepRests
           DEF ApplyInv, Applying, RunHolds, PremisesHold
      <4>3. /\ box[u].modseq \in Nat /\ premise[i].seen.modseq \in Nat /\ high \in Nat
            /\ run.held[u].modseq \in Nat /\ cached[u].modseq \in Nat
            /\ box[u] \in Placed /\ box[u].modseq <= high
        BY <1>0, <2>1, NothingIsPlaced DEF TypeOK, Placed, NoPremise, Nothing, ApplyInv, Counting
      <4>4. ~box[u].flagged
        <5>1. premise[i].seen.modseq = run.held[u].modseq
          BY <2>1 DEF Applying, Same
        <5>2. premise[i].seen.modseq <= box[u].modseq
          BY <4>1, <4>2 DEF Holds, Later, Here
        <5>3. box[u].modseq = run.held[u].modseq
          BY <4>1, <4>3, <5>1, <5>2 DEF Declines, Here
        <5> QED
          BY <4>1, <4>2, <5>3 DEF Holds, Later, Here
      <4>5. Put(u, [Here(i) EXCEPT !.flagged = TRUE, !.modseq = Counted])
        BY <1>8, <4>1, <4>4 DEF Obeyed, Change, ByCopy, Here
      <4>6. box'[u].modseq = high + 1
        BY <1>0, <2>1, <4>3, <4>5 DEF Put, Counted, Here, TypeOK, Placed
      <4>7. cached[u].modseq <= box[u].modseq
        BY <2>1, <4>1, <4>2 DEF ApplyInv, CacheHolds, Holds, Later, Here
      <4> QED
        BY <4>3, <4>6, <4>7
    <3>2. StepHolds'
      BY <1>5, <1>8, <2>1, <2>2, <2>3, <3>1 DEF Obeyed
    <3> QED
      BY <1>3, <1>8, <3>2 DEF Obeyed
  <2>4. CASE step'.at = "copied"
    <3>1. ByCopy(i) /\ step.at = "command" /\ ~Declines(i) /\ i \in Filing
      BY <1>0, <1>8, <2>4 DEF Obeyed, TypeOK, ByCopy
    <3>2. UNCHANGED <<box, next>> /\ (Here(i).mail # NoMail => Here(i).mail \in target')
      BY <1>8, <3>1 DEF Obeyed, Change, ByCopy, folder
    <3>3. premise[i].uid <= next
      BY <1>8, <2>1, <3>1 DEF Obeyed, Applying
    <3>4. StepHolds'
      BY <1>8, <2>1, <2>2, <2>4, <3>1, <3>2, <3>3
         DEF Obeyed, StepHolds, Applying, Settled, Same, ByCopy, Here, server, cache, record
    <3> QED
      BY <1>3, <1>8, <3>4 DEF Obeyed
  <2> QED
    BY <2>3, <2>4
<1>9. CASE Denied(i)
  <2>1. step.item = i /\ Applying(i)
    BY <1>1, <1>9 DEF Denied, Commanding
  <2>2. step'.item = i /\ step'.at = "refused"
    BY <1>0, <1>9, <2>1 DEF Denied, Answered, TypeOK
  <2>3. StepHolds'
    BY <1>5, <1>9, <2>1, <2>2 DEF Denied, Settled
  <2> QED
    BY <1>2, <1>9, <2>3 DEF Denied, cache, record
<1>10. CASE CutOff(i)
  <2>1. step.item = i /\ Applying(i)
    BY <1>1, <1>10 DEF CutOff, Commanding
  <2>2. step'.item = i /\ step'.at = "unanswered"
    BY <1>0, <1>10, <2>1 DEF CutOff, TypeOK
  <2>3. StepHolds'
    BY <1>5, <1>10, <2>1, <2>2 DEF CutOff, Settled
  <2>4. CASE link # "dead" /\ Change(i)
    BY <1>3, <1>10, <2>3, <2>4 DEF CutOff
  <2>5. CASE UNCHANGED <<folder, performed, taken, touched, strayed>>
    BY <1>2, <1>10, <2>3, <2>5 DEF CutOff, cache, record
  <2> QED
    BY <1>10, <2>4, <2>5 DEF CutOff
<1>11. CASE Raise(i)
  BY <1>2, <1>4, <1>11 DEF Raise, cache, record, ghosts
<1>12. CASE Commit(i)
  <2> DEFINE u == premise[i].uid
  <2>1. /\ step.item = i /\ status[i] # "absent" /\ Applying(i) /\ u \in Uid
        /\ run.todo # {}
    BY <1>1, <1>12 DEF Commit
  <2>2. \A j \in Item : status'[j] # "absent" <=> status[j] # "absent"
    BY <1>0, <1>12, <2>1 DEF Commit, TypeOK
  <2>3. ASSUME NEW w \in Uid, cached'[w].mail # NoMail, cached'[w] # cached[w], SameLife
        PROVE  Holds(w, cached'[w])
    <3>1. /\ step.at = "done" /\ premise[i].generation = generation /\ w = u
          /\ cached'[w] = Told(i, run.held[u], cached[u])
      BY <1>0, <1>12, <2>1, <2>3 DEF Commit, TypeOK
    <3>2. /\ i \notin Filing /\ cached[u].mail # NoMail /\ ~run.held[u].flagged
          /\ cached'[w] = [cached[u] EXCEPT !.flagged = TRUE, !.marked = run.held[u].marked]
      BY <2>3, <3>1 DEF Told, Nothing
    <3>3. cached[u] \in Placed /\ cached[u].modseq \in Nat /\ box[u].modseq \in Nat
      BY <1>0, <2>1 DEF TypeOK, Placed
    <3>4. cached'[w].mail = cached[u].mail /\ cached'[w].modseq = cached[u].modseq
      BY <3>2, <3>3 DEF Placed
    <3>5. Holds(u, cached[u])
      BY <2>1, <2>3, <3>2 DEF ApplyInv, CacheHolds
    <3>6. RunLife
      BY <2>1, <2>3, <3>1, RunIsOf DEF ApplyInv, Applying
    <3>7. condstore /\ box[u].mail # NoMail => cached[u].modseq < box[u].modseq
      BY <2>1, <3>1, <3>2, <3>6 DEF Applying, Settled, Here
    <3> QED
      BY <3>1, <3>3, <3>4, <3>5, <3>7 DEF Holds, Later
  <2> QED
    BY <1>2, <1>4, <1>12, <2>2, <2>3 DEF Commit
<1> QED
  BY <1>6, <1>7, <1>8, <1>9, <1>10, <1>11, <1>12 DEF Runner

LEMMA RestartStep ==
  ASSUME ApplyInv, Restart
  PROVE  ApplyInv'
<1>1. TypeOK'
  BY RestartType DEF ApplyInv
<1>2. StepHolds' /\ RunHolds'
  BY DEF Restart, StepHolds, RunHolds, NoRun
<1>3. Counting' /\ Lives' /\ CacheHolds' /\ PremisesHold'
  BY DEF Restart, ApplyInv, Counting, Lives, CacheHolds, PremisesHold, Rests, SameLife,
     Holds, Later, server, folder, cache, record
<1>4. TouchedHold' /\ NoMailIsLost' /\ AppliesToWhatWasRead' /\ ConditionalIsHonest'
  BY HistoryOn DEF Restart, ApplyInv, server, folder, record
<1> QED
  BY <1>1, <1>2, <1>3, <1>4 DEF ApplyInv

LEMMA StutterStep ==
  ASSUME ApplyInv, UNCHANGED vars
  PROVE  ApplyInv'
<1> USE DEF vars, server, folder, cache, record, ghosts
<1>1. TypeOK' /\ Counting' /\ Lives'
  BY DEF ApplyInv, TypeOK, Counting, Lives
<1>2. CacheHolds' /\ PremisesHold' /\ RunHolds'
  BY DEF ApplyInv, CacheHolds, PremisesHold, RunHolds, Rests, SameLife, RunLife, Holds, Later
<1>3. StepHolds'
  BY DEF ApplyInv, StepHolds, Applying, Settled, RunLife, Same, ByCopy, Here
<1>4. TouchedHold' /\ NoMailIsLost' /\ AppliesToWhatWasRead' /\ ConditionalIsHonest'
  BY HistoryOn DEF ApplyInv
<1> QED
  BY <1>1, <1>2, <1>3, <1>4 DEF ApplyInv

LEMMA NextKeeps ==
  ASSUME ApplyInv, [Next]_vars
  PROVE  ApplyInv'
  BY WorldStep, SyncStep, DecideStep, StartStep, RunnerStep, RestartStep, StutterStep
     DEF Next

-----------------------------------------------------------------------------
(* Once.  What is left of a change that was made and not recorded shows, to *)
(* the look or to the server, that it was made: the mail is gone, or bears *)
(* a modseq beyond the one that was read.  The exceptions are those that   *)
(* DoneOnce names.                                                         *)

Exempt(i) ==
  \/ i \in halfway
  \/ ByCopy(i) /\ premise[i].seen.marked
  \/ ~condstore /\ (i \notin Filing \/ ByCopy(i))
  \/ i \in strayed

\* The mailbox has moved past what was read.
Behind(i) ==
  \/ Here(i).mail = NoMail
  \/ condstore /\ Here(i).modseq > premise[i].seen.modseq

\* The suggestion is still about the folder as it is.
Rested(i) == premise[i].generation = generation /\ SameLife

\* It may come to be applied: a run has it on its list, or may yet.
Live(i) == status[i] = "accepted" \/ i \in run.todo

\* An item whose change was made, and that may come to be applied again.
Spent(i) ==
  performed[i] > 0 =>
    /\ status[i] # "absent"
    /\ Live(i) =>
         \/ Exempt(i)
         \/ step = [item |-> i, at |-> "copied"]
         \/ ~Rested(i)
         \/ Behind(i)

\* What is about to be commanded without a condition was looked at.
Primed(i) ==
  step = [item |-> i, at |-> "command"] /\ performed[i] > 0 /\ i \in Filing
  => Exempt(i) \/ ~RunLife

OnceOf(i) == Spent(i) /\ Primed(i) /\ (performed[i] > 1 => Exempt(i))

OnceInv == ApplyInv /\ \A i \in Item : OnceOf(i)

\* What has moved on does not move back.
LEMMA BehindOn ==
  ASSUME ApplyInv, TypeOK', Grows, NEW i \in Item, status[i] # "absent",
         premise'[i] = premise[i], Rested(i), Behind(i)
  PROVE  Behind(i)'
<1> USE ConstantsOK, NothingIsPlaced
<1> DEFINE u == premise[i].uid
<1>1. u \in Uid /\ u <= next
  BY DEF ApplyInv, PremisesHold, Rests, Rested, Holds
<1>2. box[u].modseq \in Nat /\ box'[u].modseq \in Nat /\ premise[i].seen.modseq \in Nat
  BY <1>1 DEF ApplyInv, TypeOK, Placed, NoPremise, Nothing
<1>3. box'[u].mail # NoMail => Later(box[u], box'[u])
  BY <1>1 DEF Grows
<1>4. condstore' = condstore
  BY DEF Grows
<1> QED
  BY <1>1, <1>2, <1>3, <1>4 DEF Behind, Here, Later

LEMMA ExemptOn ==
  ASSUME NEW i \in Item, Exempt(i), premise'[i] = premise[i], UNCHANGED server,
         halfway \subseteq halfway', strayed \subseteq strayed'
  PROVE  Exempt(i)'
  BY DEF Exempt, ByCopy, server

\* A step that does not make the change, and leaves the suggestion to rest
\* on the folder it rested on.
LEMMA OnceKept ==
  ASSUME ApplyInv, TypeOK', NEW i \in Item, OnceOf(i),
         performed'[i] = performed[i], premise'[i] = premise[i], UNCHANGED server,
         halfway \subseteq halfway', strayed \subseteq strayed',
         status[i] # "absent" => status'[i] # "absent",
         Live(i)' => Live(i),
         Live(i)' /\ Rested(i)' => Rested(i) /\ Grows,
         step = [item |-> i, at |-> "copied"] => step' = step \/ i \in halfway',
         Primed(i)'
  PROVE  OnceOf(i)'
<1>1. Exempt(i) => Exempt(i)'
  BY ExemptOn
<1>2. performed'[i] > 1 => Exempt(i)'
  BY <1>1 DEF OnceOf
<1>3. Spent(i)'
  <2> SUFFICES ASSUME performed[i] > 0, Live(i)', ~Exempt(i)',
                      step' # [item |-> i, at |-> "copied"], Rested(i)'
               PROVE  Behind(i)'
    BY DEF Spent, OnceOf
  <2>1. step # [item |-> i, at |-> "copied"]
    BY DEF Exempt
  <2>2. Behind(i) /\ status[i] # "absent"
    BY <1>1, <2>1 DEF OnceOf, Spent
  <2> QED
    BY <2>2, BehindOn
<1> QED
  BY <1>2, <1>3 DEF OnceOf

\* And what was looked at stays looked at, while the item is the same.
LEMMA PrimedOn ==
  ASSUME NEW i \in Item, OnceOf(i),
         performed'[i] = performed[i], premise'[i] = premise[i], UNCHANGED server,
         halfway \subseteq halfway', strayed \subseteq strayed',
         step' # [item |-> i, at |-> "command"] \/ (step' = step /\ (RunLife' => RunLife))
  PROVE  Primed(i)'
<1>1. Exempt(i) => Exempt(i)'
  BY ExemptOn
<1> QED
  BY <1>1 DEF OnceOf, Primed

\* A command that is carried out makes no change a second time, but for the
\* exceptions, and what it leaves shows that it was.
LEMMA ChangeOnce ==
  ASSUME OnceInv, TypeOK', NEW i \in Item, Commanding(i), link # "dead", Change(i),
         UNCHANGED <<server, cache, record, run>>, halfway \subseteq halfway'
  PROVE  /\ \A j \in Item \ {i} : performed'[j] = performed[j]
         /\ strayed \subseteq strayed'
         /\ performed'[i] > 1 => Exempt(i)'
         /\ performed'[i] > 0 =>
              \/ Exempt(i)' \/ ~RunLife \/ Behind(i)'
              \/ ByCopy(i) /\ step.at = "command"
<1> USE ConstantsOK, NothingIsPlaced
<1> DEFINE u == premise[i].uid
           m == Here(i).mail
<1>0. /\ ApplyInv /\ TypeOK /\ OnceOf(i)
      /\ UNCHANGED <<condstore, hasMove, status, premise, validity, remembered>>
      /\ step.item = i /\ step.at \in {"command", "copied"}
  BY DEF OnceInv, ApplyInv, Change, Commanding, server, record, folder, cache
<1>1. /\ Applying(i) /\ u \in Uid /\ Rests(i) /\ Here(i) \in Placed
      /\ Live(i) /\ (RunLife => Rested(i) /\ Holds(u, premise[i].seen))
      /\ step = [item |-> i, at |-> step.at]
  <2>1. /\ Applying(i) /\ u \in Uid /\ Rests(i) /\ i \in run.todo /\ run.todo # {}
    BY <1>0, StepRests DEF ApplyInv, Idle
  <2>2. RunLife => Rested(i) /\ Holds(u, premise[i].seen)
    BY <1>0, <2>1, RunRests DEF ApplyInv, Applying, Rested
  <2> QED
    BY <1>0, <2>1, <2>2 DEF Live, Here, TypeOK
<1>2. strayed \subseteq strayed'
  BY DEF Change
<1>3. Exempt(i) => Exempt(i)'
  BY <1>0, <1>2, ExemptOn
<1>4. \A j \in Item \ {i} : performed'[j] = performed[j]
  BY <1>0 DEF Change, Performs, TypeOK
<1>5. CASE UNCHANGED <<folder, performed, taken, touched, strayed>> /\ (m = NoMail \/ Declines(i))
  <2>1. performed'[i] > 1 => Exempt(i)'
    BY <1>0, <1>3, <1>5 DEF OnceOf
  <2>2. ASSUME performed[i] > 0, ~Exempt(i), RunLife PROVE Behind(i)
    <3>1. step.at = "copied" => m = NoMail
      BY <1>1, <1>5 DEF Applying, ByCopy, Declines, Conditional
    <3> QED
      BY <1>0, <1>1, <2>2, <3>1 DEF OnceOf, Spent, Behind
  <2>3. Behind(i) => Behind(i)'
    BY <1>0, <1>5 DEF Behind, Here, folder
  <2>4. performed'[i] = performed[i]
    BY <1>5
  <2> QED
    BY <1>2, <1>3, <1>4, <2>1, <2>2, <2>3, <2>4
<1>6. CASE m # NoMail /\ ~Declines(i) /\ ~RunLife
  <2>1. i \in strayed'
    BY <1>6 DEF Change, RunLife
  <2>2. Exempt(i)'
    BY <2>1 DEF Exempt
  <2> QED
    BY <1>2, <1>4, <2>2
<1>7. CASE m # NoMail /\ ~Declines(i) /\ RunLife /\ Exempt(i)
  BY <1>2, <1>3, <1>4, <1>7
<1>8. CASE m # NoMail /\ ~Declines(i) /\ RunLife /\ ~Exempt(i)
  <2>1. i \notin Filing \/ ByCopy(i) => condstore
    BY <1>8 DEF Exempt
  <2>2. /\ premise[i].seen.modseq \in Nat /\ Here(i).modseq \in Nat /\ high \in Nat
        /\ Later(premise[i].seen, Here(i))
        /\ condstore => Here(i).modseq <= high
    BY <1>0, <1>1, <1>8
       DEF Holds, Here, ApplyInv, Counting, TypeOK, Placed, NoPremise, Nothing
  <2>3. step.at = "command" => performed[i] = 0
    <3> SUFFICES ASSUME step.at = "command", performed[i] # 0 PROVE FALSE
      OBVIOUS
    <3>1. performed[i] > 0
      BY <1>0 DEF TypeOK
    <3>2. CASE i \in Filing
      BY <1>0, <1>1, <1>8, <3>1, <3>2 DEF OnceOf, Primed
    <3>3. CASE i \notin Filing
      <4>1. Behind(i)
        BY <1>0, <1>1, <1>8, <3>1 DEF OnceOf, Spent
      <4> QED
        BY <1>8, <2>1, <3>3, <4>1 DEF Behind, Declines, Conditional
    <3> QED
      BY <3>2, <3>3
  <2>4. ASSUME condstore, NEW x \in Placed, Put(u, x), x.modseq = Counted PROVE Behind(i)'
    <3>1. box'[u] = x
      BY <1>0, <1>1, <2>4 DEF Put, TypeOK
    <3>2. x.modseq = high + 1
      BY <2>4 DEF Counted
    <3>3. box'[u].modseq > premise[i].seen.modseq
      BY <2>2, <2>4, <3>1, <3>2 DEF Later
    <3> QED
      BY <1>0, <2>4, <3>3 DEF Behind, Here
  <2>5. CASE i \notin Filing
    <3>1. step.at = "command" /\ performed[i] = 0
      BY <1>0, <1>1, <2>3, <2>5 DEF Applying, ByCopy
    <3>2. \/ performed' = performed
          \/ /\ Performs(i) /\ CanCount
             /\ Put(u, [Here(i) EXCEPT !.flagged = TRUE, !.modseq = Counted])
      BY <1>8, <2>5 DEF Change, ByCopy
    <3>3. performed'[i] <= 1
      BY <1>0, <3>1, <3>2 DEF Performs, TypeOK
    <3>4. CASE performed' = performed
      BY <1>2, <1>4, <3>1, <3>4
    <3>5. CASE CanCount /\ Put(u, [Here(i) EXCEPT !.flagged = TRUE, !.modseq = Counted])
      <4> DEFINE x == [Here(i) EXCEPT !.flagged = TRUE, !.modseq = Counted]
      <4>1. x \in Placed /\ x.modseq = Counted
        BY <1>0, <1>1, <3>5, CountedType DEF Placed
      <4>2. Behind(i)'
        BY <2>1, <2>4, <2>5, <3>5, <4>1
      <4>3. ~(performed'[i] > 1)
        BY <1>0, <3>3 DEF TypeOK
      <4> QED
        BY <1>2, <1>4, <4>2, <4>3
    <3> QED
      BY <3>2, <3>4, <3>5
  <2>6. CASE i \in Filing /\ hasMove
    <3>1. step.at = "command" /\ performed[i] = 0
      BY <1>0, <1>1, <2>3, <2>6 DEF Applying, ByCopy
    <3>2. Performs(i) /\ box' = [box EXCEPT ![u] = Nothing]
      BY <1>8, <2>6 DEF Change, ByCopy
    <3>3. performed'[i] = 1
      BY <1>0, <3>1, <3>2 DEF Performs, TypeOK
    <3>4. Behind(i)'
      BY <1>0, <1>1, <3>2 DEF Behind, Here, Nothing, TypeOK
    <3> QED
      BY <1>2, <1>4, <3>3, <3>4
  <2>7. CASE ByCopy(i) /\ step.at = "command"
    <3>1. Performs(i)
      BY <1>8, <2>7 DEF Change, ByCopy
    <3>2. performed'[i] = 1
      BY <1>0, <2>3, <2>7, <3>1 DEF Performs, TypeOK
    <3> QED
      BY <1>2, <1>4, <2>7, <3>2
  <2>8. CASE ByCopy(i) /\ step.at = "copied"
    <3>1. /\ performed' = performed
          /\ \/ Here(i).marked /\ UNCHANGED box
             \/ CanCount /\ Put(u, [Here(i) EXCEPT !.marked = TRUE, !.modseq = Counted])
      BY <1>8, <2>8 DEF Change, ByCopy
    <3>2. performed'[i] > 1 => Exempt(i)'
      BY <1>0, <1>3, <3>1 DEF OnceOf
    <3>3. CASE Here(i).marked /\ UNCHANGED box
      <4>1. ~premise[i].seen.marked
        BY <1>8, <2>8 DEF Exempt
      <4>2. premise[i].seen.modseq # Here(i).modseq
        BY <2>1, <2>2, <2>8, <3>3, <4>1 DEF Later
      <4>3. condstore /\ Here(i).modseq > premise[i].seen.modseq
        BY <2>1, <2>2, <2>8, <4>2 DEF Later
      <4>4. Behind(i)'
        BY <1>0, <3>3, <4>3 DEF Behind, Here
      <4> QED
        BY <1>2, <1>4, <3>2, <4>4
    <3>4. CASE CanCount /\ Put(u, [Here(i) EXCEPT !.marked = TRUE, !.modseq = Counted])
      <4> DEFINE x == [Here(i) EXCEPT !.marked = TRUE, !.modseq = Counted]
      <4>1. x \in Placed /\ x.modseq = Counted
        BY <1>0, <1>1, <3>4, CountedType DEF Placed
      <4>2. Behind(i)'
        BY <2>1, <2>4, <2>8, <3>4, <4>1
      <4> QED
        BY <1>2, <1>4, <3>2, <4>2
    <3> QED
      BY <3>1, <3>3, <3>4
  <2> QED
    BY <1>0, <2>5, <2>6, <2>7, <2>8 DEF ByCopy
<1> QED
  BY <1>5, <1>6, <1>7, <1>8 DEF Change

LEMMA OnceStep ==
  ASSUME OnceInv, ApplyInv', [Next]_vars, NEW j \in Item
  PROVE  OnceOf(j)'
<1> USE ConstantsOK
<1>0. ApplyInv /\ TypeOK /\ TypeOK' /\ OnceOf(j)
  BY DEF OnceInv, ApplyInv
\* A step that leaves the folder, the cache and what was performed as it is.
<1>1. ASSUME UNCHANGED <<server, box, next, validity, cache, premise, performed, strayed>>,
             halfway \subseteq halfway',
             status[j] # "absent" => status'[j] # "absent",
             Live(j)' => Live(j),
             step = [item |-> j, at |-> "copied"] => step' = step \/ j \in halfway',
             Primed(j)'
      PROVE  OnceOf(j)'
  <2>1. Grows
    BY <1>0, <1>1, LaterItself DEF Grows, server, TypeOK
  <2>2. Rested(j)' => Rested(j)
    BY <1>1 DEF Rested, SameLife, cache
  <2> QED
    BY <1>0, <1>1, <2>1, <2>2, OnceKept
<1>2. CASE World
  <2>1. /\ UNCHANGED <<server, cache, record, run, step, performed, strayed, halfway>>
        /\ SameLife' => SameLife /\ Grows
        /\ run.todo # {} /\ RunLife' => RunLife
    <3>1. UNCHANGED <<server, cache, record, run, step, performed, strayed, halfway>>
      BY <1>2 DEF World, Deliver, Toggle, Leave, Remake, Drop, Others
    <3>2. /\ SameLife' => SameLife /\ Grows
          /\ run.todo # {} /\ RunLife' => RunLife
      <4>1. CASE Remake
        BY <1>0, <3>1, <4>1, RemakeIsAnother DEF ApplyInv
      <4>2. CASE ~Remake
        <5>1. Grows
          BY <1>0, <1>2, <4>2, WorldGrows DEF ApplyInv
        <5>2. UNCHANGED <<validity, remembered>>
          BY <1>2, <3>1, <4>2 DEF World, Deliver, Toggle, Leave, Drop, folder, cache
        <5> QED
          BY <3>1, <5>1, <5>2 DEF SameLife, RunLife
      <4> QED
        BY <4>1, <4>2
    <3> QED
      BY <3>1, <3>2
  <2>2. Primed(j)'
    <3>1. step = [item |-> j, at |-> "command"] => run.todo # {}
      BY <1>0, StepRests DEF ApplyInv, Idle
    <3> QED
      BY <1>0, <2>1, <3>1, PrimedOn DEF record
  <2>3. (Rested(j)' => Rested(j) /\ Grows) /\ (Live(j)' => Live(j))
    BY <2>1 DEF Rested, Live, record, cache
  <2> QED
    BY <1>0, <2>1, <2>2, <2>3, OnceKept DEF record
<1>3. CASE Sync
  <2>1. /\ UNCHANGED <<server, box, next, validity, premise, performed, strayed, halfway, step>>
        /\ step = Idle
    BY <1>3 DEF Sync, folder
  <2>2. Grows
    BY <1>0, <2>1, LaterItself DEF Grows, server, TypeOK
  <2>3. /\ status[j] # "absent" <=> status'[j] # "absent"
        /\ Live(j)' => Live(j)
        /\ Live(j) => status[j] # "absent"
    BY <1>0, <1>3 DEF Sync, TypeOK, Live, ApplyInv, RunHolds
  <2>4. Live(j)' /\ Rested(j)' => Rested(j)
    <3> SUFFICES ASSUME Live(j)', Rested(j)' PROVE Rested(j)
      OBVIOUS
    <3>1. CASE IdentityBroken
      <4>1. generation' = generation + 1
        BY <1>0, <1>3, <3>1 DEF Sync, TypeOK
      <4>2. premise[j].generation <= generation
        BY <1>0, <2>3 DEF ApplyInv, PremisesHold, Rests
      <4>3. premise[j].generation \in Nat /\ generation \in Nat
        BY <1>0 DEF TypeOK, NoPremise
      <4> QED
        BY <2>1, <4>1, <4>2, <4>3 DEF Rested
    <3>2. CASE ~IdentityBroken
      BY <1>3, <2>1, <3>2 DEF Sync, Rested, SameLife, IdentityBroken
    <3> QED
      BY <3>1, <3>2
  <2>5. Primed(j)'
    BY <2>1 DEF Primed, Idle
  <2>6. step = [item |-> j, at |-> "copied"] => step' = step
    BY <2>1
  <2> QED
    BY <1>0, <2>1, <2>2, <2>3, <2>4, <2>5, <2>6, OnceKept
<1>4. ASSUME NEW b \in Bundle, NEW at \in [b -> Uid], Decide(b, at) PROVE OnceOf(j)'
  <2>1. UNCHANGED <<server, box, next, validity, cache, run, performed, strayed, halfway, step>>
    BY <1>4 DEF Decide, folder, ghosts
  <2>2. CASE j \in b
    <3>1. performed[j] = 0
      BY <1>0, <1>4, <2>2 DEF Decide, OnceOf, Spent, TypeOK
    <3>2. ~(performed'[j] > 0) /\ ~(performed'[j] > 1)
      BY <2>1, <3>1
    <3> QED
      BY <3>2 DEF OnceOf, Spent, Primed
  <2>3. CASE j \notin b
    <3>1. status'[j] = status[j] /\ premise'[j] = premise[j] /\ Live(j)' = Live(j)
      BY <1>0, <1>4, <2>1, <2>3 DEF Decide, TypeOK, Live
    <3>2. SameLife' = SameLife /\ RunLife' = RunLife /\ generation' = generation
      BY <2>1 DEF SameLife, RunLife, cache
    <3>3. Grows
      BY <1>0, <2>1, LaterItself DEF Grows, server, TypeOK
    <3>4. Primed(j)'
      BY <1>0, <2>1, <3>1, <3>2, PrimedOn
    <3>5. Rested(j)' => Rested(j)
      BY <3>1, <3>2 DEF Rested
    <3> QED
      BY <1>0, <2>1, <3>1, <3>3, <3>4, <3>5, OnceKept
  <2> QED
    BY <2>2, <2>3
<1>5. CASE Stop \/ \E b \in Bundle : Start(b)
  <2>1. /\ UNCHANGED <<server, box, next, validity, cache, record, performed, strayed>>
        /\ UNCHANGED <<halfway, step>>
    BY <1>5 DEF Stop, Start, folder, ghosts
  <2>2. step = Idle
    BY <1>0, <1>5, StepRests DEF ApplyInv, Start, Stop, NoRun
  <2>3. Primed(j)'
    BY <2>1, <2>2 DEF Primed, Idle
  <2>4. Live(j)' => Live(j)
    BY <1>5, <2>1 DEF Stop, Start, Live, NoRun, record
  <2> QED
    BY <1>1, <2>1, <2>3, <2>4 DEF record
<1>6. ASSUME NEW i \in Item, Check(i) PROVE OnceOf(j)'
  <2>1. UNCHANGED <<server, box, next, validity, cache, premise, performed, strayed, halfway>>
    BY <1>6 DEF Check, folder, ghosts
  <2>2. /\ status[j] # "absent" => status'[j] # "absent"
        /\ Live(j)' => Live(j)
        /\ step # [item |-> j, at |-> "copied"]
    BY <1>0, <1>6 DEF Check, TypeOK, Idle, Live, Past, NoRun
  <2>3. Primed(j)'
    <3>1. step' # [item |-> j, at |-> "command"] \/ j \notin Filing
      BY <1>6 DEF Check, Idle, Conditional
    <3> QED
      BY <3>1 DEF Primed
  <2> QED
    BY <1>1, <2>1, <2>2, <2>3
<1>7. ASSUME NEW i \in Item, Look(i) PROVE OnceOf(j)'
  <2>1. UNCHANGED <<server, box, next, validity, cache, record, run, performed, strayed, halfway>>
    BY <1>7 DEF Look, folder, ghosts
  <2>2. step = [item |-> i, at |-> "look"]
    BY <1>7 DEF Look
  <2>3. Primed(j)'
    <3> SUFFICES ASSUME step' = [item |-> j, at |-> "command"], performed[j] > 0,
                        RunLife
                 PROVE  Exempt(j)'
      BY <2>1 DEF Primed, RunLife, cache
    <3>1. j = i /\ Here(j).mail # NoMail /\ Same(Here(j), premise[j].seen)
      BY <1>0, <1>7, <2>2 DEF Look, TypeOK
    <3>2. /\ Live(j) /\ premise[j].uid \in Uid
          /\ premise[j].generation = run.generation /\ run.todo # {}
      BY <1>0, <2>2, <3>1, StepRests DEF ApplyInv, Applying, Idle, Live
    <3>6. Rested(j)
      BY <1>0, <3>2, RunRests DEF ApplyInv, Rested
    <3>3. Here(j).modseq \in Nat /\ premise[j].seen.modseq \in Nat
      BY <1>0, <3>2, NothingIsPlaced
         DEF Here, TypeOK, Placed, NoPremise, Nothing
    <3>4. ~Behind(j)
      BY <3>1, <3>3 DEF Behind, Same
    <3>5. Exempt(j)
      BY <1>0, <2>2, <3>2, <3>4, <3>6 DEF OnceOf, Spent
    <3> QED
      BY <2>1, <3>5, ExemptOn DEF record
  <2> QED
    BY <1>1, <2>1, <2>2, <2>3 DEF record, Live
\* The other items, while one is being applied.
<1>8. ASSUME NEW i \in Item, i # j, step.item = i, step'.item \in {i, NoItem},
             UNCHANGED <<server, cache, record, run, next, validity>>, Grows,
             performed'[j] = performed[j],
             halfway \subseteq halfway', strayed \subseteq strayed'
      PROVE  OnceOf(j)'
  <2>1. step # [item |-> j, at |-> "copied"] /\ step' # [item |-> j, at |-> "command"]
    BY <1>8
  <2>2. Primed(j)'
    BY <2>1 DEF Primed
  <2>3. (Rested(j)' => Rested(j)) /\ (Live(j)' => Live(j))
    BY <1>8 DEF Rested, Live, SameLife, record, cache
  <2> QED
    BY <1>0, <1>8, <2>1, <2>2, <2>3, OnceKept DEF record
\* The one whose command was carried out, and is not to be marked next.
<1>9. ASSUME NEW i \in Item, j = i, step.item = i, step'.item = i,
             UNCHANGED <<server, cache, record, run, validity>>,
             halfway \subseteq halfway', strayed \subseteq strayed',
             step'.at # "command",
             performed'[i] > 1 => Exempt(i)',
             performed'[i] > 0 => \/ Exempt(i)' \/ ~RunLife \/ Behind(i)'
                                  \/ step' = [item |-> i, at |-> "copied"]
      PROVE  OnceOf(j)'
  <2>1. /\ status'[j] # "absent" /\ premise[j].generation = run.generation
        /\ run.todo # {}
    BY <1>0, <1>9, StepRests DEF ApplyInv, Applying, Idle, record
  <2>2. Rested(j)' => RunLife
    BY <1>0, <1>9, <2>1, RunIsOf DEF ApplyInv, Rested, SameLife, cache, record
  <2>3. Spent(j)'
    BY <1>9, <2>1, <2>2 DEF Spent
  <2>4. Primed(j)'
    BY <1>9 DEF Primed
  <2> QED
    BY <1>9, <2>3, <2>4 DEF OnceOf
<1>10. ASSUME NEW i \in Item, Obeyed(i) PROVE OnceOf(j)'
  <2>1. /\ Commanding(i) /\ link # "dead" /\ Change(i)
        /\ UNCHANGED <<server, cache, record, run, halfway>>
        /\ UNCHANGED <<next, validity>>
    BY <1>10 DEF Obeyed, Change, folder
  <2>2. /\ step.item = i /\ step'.item = i
        /\ step'.at \in {"refused", "copied", "done"}
        /\ ByCopy(i) /\ step.at = "command" => step' = [item |-> i, at |-> "copied"]
    BY <1>0, <1>10 DEF Obeyed, Commanding, TypeOK, ByCopy, Declines, Conditional
  <2>3. /\ \A k \in Item \ {i} : performed'[k] = performed[k]
        /\ strayed \subseteq strayed'
        /\ performed'[i] > 1 => Exempt(i)'
        /\ performed'[i] > 0 =>
             \/ Exempt(i)' \/ ~RunLife \/ Behind(i)'
             \/ ByCopy(i) /\ step.at = "command"
    BY <1>0, <2>1, ChangeOnce
  <2>4. Grows
    BY <1>0, <2>1, ChangeStep
  <2>5. CASE j = i
    BY <1>9, <2>1, <2>2, <2>3, <2>5
  <2>6. CASE j # i
    BY <1>8, <2>1, <2>2, <2>3, <2>4, <2>6
  <2> QED
    BY <2>5, <2>6
<1>11. ASSUME NEW i \in Item, Denied(i) PROVE OnceOf(j)'
  <2>1. /\ UNCHANGED <<server, box, next, validity, cache, record, run, performed, strayed>>
        /\ step.item = i /\ halfway \subseteq halfway'
        /\ step.at = "copied" => i \in halfway'
    BY <1>11 DEF Denied, Commanding, folder
  <2>2. step'.at = "refused"
    BY <1>0, <1>11 DEF Denied, Answered, TypeOK
  <2>3. Primed(j)'
    BY <2>2 DEF Primed
  <2> QED
    BY <1>1, <2>1, <2>3 DEF record, Live
<1>12. ASSUME NEW i \in Item, CutOff(i) PROVE OnceOf(j)'
  <2>1. /\ UNCHANGED <<server, cache, record, run>> /\ step.item = i
        /\ halfway \subseteq halfway' /\ (ByCopy(i) => i \in halfway')
        /\ Commanding(i)
    BY <1>12 DEF CutOff, Commanding
  <2>2. step'.item = i /\ step'.at = "unanswered"
    BY <1>0, <1>12, <2>1 DEF CutOff, TypeOK
  <2>3. CASE link # "dead" /\ Change(i)
    <3>1. /\ \A k \in Item \ {i} : performed'[k] = performed[k]
          /\ strayed \subseteq strayed'
          /\ performed'[i] > 1 => Exempt(i)'
          /\ performed'[i] > 0 =>
               \/ Exempt(i)' \/ ~RunLife \/ Behind(i)'
               \/ ByCopy(i) /\ step.at = "command"
      BY <1>0, <2>1, <2>3, ChangeOnce
    <3>2. Grows /\ UNCHANGED <<next, validity>>
      BY <1>0, <2>1, <2>3, ChangeStep DEF Change, folder
    <3>3. ByCopy(i) => Exempt(i)'
      BY <2>1 DEF Exempt
    <3>4. CASE j = i
      BY <1>9, <2>1, <2>2, <3>1, <3>2, <3>3, <3>4
    <3>5. CASE j # i
      BY <1>8, <2>1, <2>2, <3>1, <3>2, <3>5
    <3> QED
      BY <3>4, <3>5
  <2>4. CASE UNCHANGED <<folder, performed, taken, touched, strayed>>
    <3>1. UNCHANGED <<box, next, validity>>
      BY <2>4 DEF folder
    <3>2. step = [item |-> j, at |-> "copied"] => j \in halfway'
      BY <1>0, <2>1 DEF ApplyInv, StepHolds, Applying, Idle
    <3>3. Primed(j)'
      BY <2>2 DEF Primed
    <3> QED
      BY <1>1, <2>1, <2>4, <3>1, <3>2, <3>3 DEF record, Live
  <2> QED
    BY <1>12, <2>3, <2>4 DEF CutOff
<1>13. ASSUME NEW i \in Item, Raise(i) PROVE OnceOf(j)'
  <2>1. /\ UNCHANGED <<server, box, next, validity, cache, record, performed, strayed, halfway>>
        /\ step.at # "copied" /\ step' = Idle /\ run' = NoRun
    BY <1>13 DEF Raise, folder, ghosts
  <2>2. Primed(j)'
    BY <2>1 DEF Primed, Idle
  <2> QED
    BY <1>1, <2>1, <2>2 DEF record, Live, NoRun
<1>14. ASSUME NEW i \in Item, Commit(i) PROVE OnceOf(j)'
  <2>1. /\ UNCHANGED <<server, box, next, validity, generation, remembered, premise>>
        /\ UNCHANGED <<performed, strayed, halfway>>
        /\ step.item = i /\ step.at # "copied" /\ step' = Idle
    BY <1>14 DEF Commit, folder, ghosts
  <2>3. /\ status[j] # "absent" => status'[j] # "absent"
        /\ Live(j)' => Live(j)
    BY <1>0, <1>14 DEF Commit, TypeOK, Live, Past, NoRun
  <2>4. Grows
    BY <1>0, <2>1, LaterItself DEF Grows, server, TypeOK
  <2>5. Rested(j)' => Rested(j)
    BY <2>1 DEF Rested, SameLife
  <2>6. Primed(j)'
    BY <2>1 DEF Primed, Idle
  <2> QED
    BY <1>0, <2>1, <2>3, <2>4, <2>5, <2>6, OnceKept
<1>15. CASE Restart
  <2>1. /\ UNCHANGED <<server, box, next, validity, cache, record, performed, strayed>>
        /\ halfway \subseteq halfway' /\ step' = Idle /\ run' = NoRun
    BY <1>15 DEF Restart, folder
  <2>2. step = [item |-> j, at |-> "copied"] => j \in halfway'
    BY <1>15 DEF Restart, Idle
  <2>3. Primed(j)'
    BY <2>1 DEF Primed, Idle
  <2> QED
    BY <1>1, <2>1, <2>2, <2>3 DEF record, Live, NoRun
<1>16. CASE UNCHANGED vars
  <2>1. /\ UNCHANGED <<server, box, next, validity, cache, record, performed, strayed>>
        /\ UNCHANGED <<halfway, step, run>>
    BY <1>16 DEF vars, folder, ghosts
  <2>2. Primed(j)'
    BY <1>0, <2>1, PrimedOn DEF record, RunLife, cache
  <2> QED
    BY <1>1, <2>1, <2>2 DEF record, Live
<1> QED
  BY <1>2, <1>3, <1>4, <1>6, <1>7, <1>10, <1>11, <1>12, <1>13, <1>14, <1>15, <1>16, <1>5
     DEF Next, Runner

-----------------------------------------------------------------------------
(* The cache and what the service does itself.  From the answer to the     *)
(* commit the cache is behind at the one UID that is being worked on.      *)

Known(u) ==
  \/ cached[u].mail = box[u].mail /\ cached[u].flagged = box[u].flagged
  \/ cached[u].mail = NoMail /\ box[u].marked

\* The command at this UID is done, and the cache not yet told.
Doing(u) == step.at = "done" /\ premise[step.item].uid = u

\* What the command was to do there is done.
DoneThere(u) ==
  IF step.item \in Filing THEN box[u] = Nothing \/ box[u].marked
  ELSE IF cached[u].mail = NoMail THEN Known(u)
  ELSE /\ box[u].mail = cached[u].mail /\ box[u].flagged
       /\ run.generation = generation /\ run.held[u].flagged => cached[u].flagged

Aware(u) == u \notin unseen => IF Doing(u) THEN DoneThere(u) ELSE Known(u)

\* What is about to be commanded without a condition is still as it was read.
LookedAt ==
  step.at = "command" /\ ~Conditional(step.item) =>
    \/ premise[step.item].uid \in unseen
    \/ Same(Here(step.item), premise[step.item].seen)

\* Of a folder made anew the cache knows nothing.
Unaware == ~SameLife => unseen = Uid

AwareInv == ApplyInv /\ LookedAt /\ Unaware /\ \A u \in Uid : Aware(u)

\* A UID at which nothing happens, in the folder or to the work on it.
LEMMA AwareOn ==
  ASSUME NEW u \in Uid, Aware(u),
         u \notin unseen' => /\ u \notin unseen
                             /\ box'[u] = box[u] /\ cached'[u] = cached[u]
                             /\ \/ ~Doing(u)' /\ ~Doing(u)
                                \/ UNCHANGED <<step, premise, run, generation>>
  PROVE  Aware(u)'
  BY DEF Aware, Doing, DoneThere, Known

\* No sync, and the folder not made anew but to be all unseen.
LEMMA UnawareOn ==
  ASSUME TypeOK', Unaware, unseen \subseteq unseen', UNCHANGED <<validity, remembered>>
  PROVE  Unaware'
<1>1. unseen' \subseteq Uid
  BY DEF TypeOK
<1> QED
  BY <1>1 DEF Unaware, SameLife

LEMMA WorldAware ==
  ASSUME AwareInv, World
  PROVE  LookedAt' /\ Unaware' /\ \A u \in Uid : Aware(u)'
<1>0. TypeOK /\ TypeOK' /\ ApplyInv
  BY WorldType DEF AwareInv, ApplyInv
<1>1. UNCHANGED <<server, cache, record, run, step>>
  BY DEF World, Deliver, Toggle, Leave, Remake, Drop, Others
<1>2. ASSUME NEW u \in Uid, u \notin unseen'
      PROVE  u \notin unseen /\ box'[u] = box[u]
  <2>1. ASSUME NEW m \in Mail, Deliver(m) PROVE u \notin unseen /\ box'[u] = box[u]
    BY <1>0, <1>2, <2>1 DEF Deliver, Put, TypeOK
  <2>2. ASSUME NEW w \in Uid, Toggle(w) PROVE u \notin unseen /\ box'[u] = box[u]
    BY <1>0, <1>2, <2>2 DEF Toggle, Put, TypeOK
  <2>3. ASSUME NEW w \in Uid, Leave(w) PROVE u \notin unseen /\ box'[u] = box[u]
    BY <1>0, <1>2, <2>3 DEF Leave, TypeOK
  <2>4. ~Remake
    BY <1>2 DEF Remake
  <2>5. CASE Drop
    BY <1>2, <2>5 DEF Drop, folder
  <2> QED
    BY <2>1, <2>2, <2>3, <2>4, <2>5 DEF World
<1>3. LookedAt'
  <2> DEFINE i == step.item
  <2> SUFFICES ASSUME step.at = "command", ~Conditional(i), premise[i].uid \notin unseen'
               PROVE  Same(Here(i), premise[i].seen)'
    BY <1>1 DEF LookedAt, Conditional, server, record
  <2>1. step # Idle
    BY DEF Idle
  <2>2. premise[i].uid \in Uid
    BY <1>0, <2>1, StepRests DEF ApplyInv
  <2>3. /\ premise[i].uid \notin unseen
        /\ box'[premise[i].uid] = box[premise[i].uid]
    BY <1>2, <2>2
  <2>4. Same(Here(i), premise[i].seen)
    BY <2>3 DEF AwareInv, LookedAt
  <2> QED
    BY <1>1, <2>3, <2>4 DEF Same, Here, server, record
<1>4. ASSUME NEW u \in Uid PROVE Aware(u)'
  BY <1>1, <1>2, AwareOn DEF AwareInv, cache, record
<1>5. Unaware'
  <2>1. CASE Remake
    BY <2>1 DEF Remake, Unaware
  <2>2. CASE ~Remake
    <3>1. UNCHANGED <<validity, remembered>>
      BY <1>1, <2>2 DEF World, Deliver, Toggle, Leave, Drop, folder, cache
    <3>2. unseen \subseteq unseen'
      BY <2>2 DEF World, Deliver, Toggle, Leave, Drop
    <3> QED
      BY <1>0, <3>1, <3>2, UnawareOn DEF AwareInv
  <2> QED
    BY <2>1, <2>2
<1> QED
  BY <1>3, <1>4, <1>5

\* A command that is carried out, and answered.
LEMMA ObeyedAware ==
  ASSUME AwareInv, TypeOK', NEW i \in Item, Obeyed(i)
  PROVE  LookedAt' /\ Unaware' /\ \A u \in Uid : Aware(u)'
<1> USE ConstantsOK, NothingIsPlaced
<1> DEFINE w == premise[i].uid
<1>0. /\ TypeOK /\ ApplyInv /\ step.item = i /\ step.at \in {"command", "copied"} /\ Change(i)
      /\ UNCHANGED <<server, cached, generation, remembered, run, premise, unseen>>
      /\ UNCHANGED validity /\ step # Idle
  BY DEF AwareInv, ApplyInv, Obeyed, Change, Commanding, cache, record, folder, Idle
<1>1. /\ Applying(i) /\ Rests(i) /\ w \in Uid /\ i \in run.todo /\ run.todo # {}
  BY <1>0, StepRests DEF ApplyInv
<1>2. step' = [item |-> i, at |-> step'.at] /\ step'.at \in {"refused", "copied", "done"}
  BY <1>0 DEF Obeyed, TypeOK
<1>3. LookedAt' /\ Unaware'
  <2>1. LookedAt'
    BY <1>2 DEF LookedAt
  <2> QED
    BY <1>0, <2>1, UnawareOn DEF AwareInv
<1>4. \A u \in Uid : ~Doing(u)
  BY <1>0 DEF Doing
<1>5. ASSUME NEW u \in Uid, u # w PROVE Aware(u)'
  <2>1. box'[u] = box[u]
    BY <1>0, <1>1, <1>5 DEF Change, Put, folder, TypeOK
  <2>2. ~Doing(u)'
    BY <1>0, <1>2, <1>5 DEF Doing
  <2> QED
    BY <1>0, <1>4, <2>1, <2>2, AwareOn DEF AwareInv
<1>6. ASSUME w \notin unseen PROVE Aware(w)'
  <2>1. Known(w) /\ box[w] \in Placed /\ cached[w] \in Placed
        /\ (box[w].mail = NoMail => box[w] = Nothing)
    BY <1>0, <1>1, <1>4, <1>6 DEF AwareInv, Aware, TypeOK, ApplyInv, Counting
  <2>2. CASE Declines(i)
    <3>1. box' = box /\ step'.at = "refused"
      BY <1>0, <2>2 DEF Change, folder, Obeyed, TypeOK
    <3> QED
      BY <1>0, <1>1, <1>4, <3>1, AwareOn DEF AwareInv, Doing
  <2>3. CASE ~Declines(i) /\ i \notin Filing
    <3>1. step'.at = "done" /\ Doing(w)'
      BY <1>0, <1>1, <1>2, <2>3 DEF Obeyed, ByCopy, TypeOK, Doing
    <3>2. CASE Here(i).mail = NoMail
      <4>1. box' = box /\ cached[w].mail = NoMail
        BY <1>0, <2>1, <3>2 DEF Change, folder, Known, Here
      <4> QED
        BY <1>0, <1>2, <2>1, <2>3, <3>1, <4>1 DEF Aware, DoneThere, Known
    <3>3. CASE Here(i).mail # NoMail
      <4>1. /\ box'[w].mail = box[w].mail /\ box'[w].flagged
            /\ box'[w].marked = box[w].marked
        <5>1. \/ Here(i).flagged /\ box' = box
              \/ box' = [box EXCEPT ![w] = [Here(i) EXCEPT !.flagged = TRUE, !.modseq = Counted]]
          BY <1>0, <2>3, <3>3 DEF Change, Put, ByCopy
        <5>2. CASE Here(i).flagged /\ box' = box
          BY <5>2 DEF Here
        <5>3. CASE box' = [box EXCEPT ![w] = [Here(i) EXCEPT !.flagged = TRUE, !.modseq = Counted]]
          <6>1. w \in DOMAIN box /\ Here(i) = box[w]
            BY <1>0, <1>1 DEF TypeOK, Here
          <6>2. box'[w] = [box[w] EXCEPT !.flagged = TRUE, !.modseq = Counted]
            BY <5>3, <6>1
          <6> QED
            BY <2>1, <6>2 DEF Placed
        <5> QED
          BY <5>1, <5>2, <5>3
      <4>2. CASE cached[w].mail = NoMail
        <5>1. box[w].marked
          BY <2>1, <3>3, <4>2 DEF Known, Here
        <5> QED
          BY <1>0, <1>2, <2>3, <3>1, <4>1, <4>2, <5>1 DEF Aware, DoneThere, Known
      <4>3. CASE cached[w].mail # NoMail
        <5>1. cached[w].mail = box[w].mail /\ cached[w].flagged = box[w].flagged
          BY <2>1, <4>3 DEF Known
        <5>2. ASSUME run.generation = generation, run.held[w].flagged
              PROVE  box[w].flagged
          <6>1. SameLife
            BY <1>6, <1>1 DEF AwareInv, Unaware
          <6>2. RunLife
            BY <1>0, <1>1, <5>2, <6>1, RunIsOf DEF ApplyInv
          <6>3. Holds(w, premise[i].seen) /\ Holds(w, run.held[w])
            BY <1>0, <1>1, <6>2, RunRests DEF ApplyInv, Applying, RunHolds
          <6>4. Same(run.held[w], premise[i].seen)
            BY <1>1 DEF Applying
          <6>5. CASE condstore
            <7>1. /\ premise[i].seen.modseq <= box[w].modseq
                  /\ ~ box[w].modseq > premise[i].seen.modseq
                  /\ run.held[w].modseq = premise[i].seen.modseq
              BY <2>3, <3>3, <6>3, <6>4, <6>5
                 DEF Declines, Conditional, Holds, Later, Here, Same
            <7>2. premise[i].seen.modseq \in Nat /\ box[w].modseq \in Nat
              BY <1>0, <2>1 DEF TypeOK, Placed, NoPremise, Nothing
            <7>3. run.held[w].modseq = box[w].modseq
              BY <7>1, <7>2
            <7> QED
              BY <3>3, <5>2, <6>3, <6>5, <7>3 DEF Holds, Later, Here
          <6>6. CASE ~condstore
            <7>1. step.at = "command"
              BY <1>0, <1>1, <2>3 DEF Applying, ByCopy
            <7>2. Same(Here(i), premise[i].seen)
              BY <1>0, <1>6, <6>6, <7>1 DEF AwareInv, LookedAt, Conditional
            <7> QED
              BY <5>2, <6>4, <6>6, <7>2 DEF Same, Here
          <6> QED
            BY <6>5, <6>6
        <5>3. box'[w].mail = cached'[w].mail /\ box'[w].flagged /\ cached'[w].mail # NoMail
          BY <1>0, <4>1, <4>3, <5>1
        <5>4. run'.generation = generation' /\ run'.held[w].flagged => cached'[w].flagged
          BY <1>0, <5>1, <5>2
        <5>5. step'.item \notin Filing /\ premise'[step'.item].uid = w
          BY <1>0, <1>2, <2>3
        <5> QED
          BY <1>0, <3>1, <5>3, <5>4, <5>5 DEF Aware, DoneThere
      <4> QED
        BY <4>2, <4>3
    <3> QED
      BY <3>2, <3>3
  <2>4. CASE i \in Filing /\ (hasMove \/ step.at = "copied")
    <3>1. box'[w] = Nothing \/ box'[w].marked
      <4>1. CASE Here(i).mail = NoMail
        BY <1>0, <2>1, <4>1 DEF Change, folder, Here
      <4>2. CASE Here(i).mail # NoMail /\ hasMove
        BY <1>0, <1>1, <2>4, <4>2 DEF Change, ByCopy, Declines, Conditional, TypeOK
      <4>3. CASE Here(i).mail # NoMail /\ ~hasMove
        <5>1. \/ Here(i).marked /\ box' = box
              \/ box' = [box EXCEPT ![w] = [Here(i) EXCEPT !.marked = TRUE, !.modseq = Counted]]
          BY <1>0, <2>4, <4>3 DEF Change, Put, ByCopy, Declines, Conditional
        <5>2. CASE Here(i).marked /\ box' = box
          BY <5>2 DEF Here
        <5>3. CASE box' = [box EXCEPT ![w] = [Here(i) EXCEPT !.marked = TRUE, !.modseq = Counted]]
          <6>1. w \in DOMAIN box /\ Here(i) = box[w]
            BY <1>0, <1>1 DEF TypeOK, Here
          <6>2. box'[w] = [box[w] EXCEPT !.marked = TRUE, !.modseq = Counted]
            BY <5>3, <6>1
          <6> QED
            BY <2>1, <6>2 DEF Placed
        <5> QED
          BY <5>1, <5>2, <5>3
      <4> QED
        BY <4>1, <4>2, <4>3
    <3>2. step'.at = "done" /\ Doing(w)'
      <4>1. ~(ByCopy(i) /\ step.at = "command") /\ ~Declines(i)
        BY <1>0, <2>4 DEF ByCopy, Declines, Conditional
      <4> QED
        BY <1>0, <1>1, <1>2, <4>1 DEF Obeyed, TypeOK, Doing
    <3> QED
      BY <1>0, <1>2, <2>4, <3>1, <3>2 DEF Aware, DoneThere
  <2>5. CASE ByCopy(i) /\ step.at = "command"
    <3>1. box'[w] = box[w] /\ step'.at = "copied"
      BY <1>0, <2>5 DEF Change, Obeyed, ByCopy, Declines, Conditional, TypeOK, folder
    <3> QED
      BY <1>0, <1>1, <1>4, <3>1, AwareOn DEF AwareInv, Doing
  <2> QED
    BY <1>0, <2>2, <2>3, <2>4, <2>5 DEF ByCopy
<1>7. w \in unseen => Aware(w)'
  BY <1>0 DEF Aware
<1>8. premise' = premise
  BY <1>0
<1> QED
  BY <1>3, <1>5, <1>6, <1>7, <1>8

\* The end of an item: the cache is told, or its row of an old generation.
LEMMA CommitAware ==
  ASSUME AwareInv, TypeOK', NEW i \in Item, Commit(i)
  PROVE  LookedAt' /\ Unaware' /\ \A u \in Uid : Aware(u)'
<1> DEFINE w == premise[i].uid
<1>0. /\ TypeOK /\ step' = Idle /\ step.item = i /\ UNCHANGED <<box, premise, generation>>
      /\ UNCHANGED <<validity, remembered>> /\ unseen \subseteq unseen' /\ Applying(i)
      /\ w \in Uid /\ ApplyInv
  <2>1. step # Idle
    BY DEF Commit, Idle
  <2> QED
    BY <2>1, StepRests DEF AwareInv, ApplyInv, Commit, folder
<1>1. LookedAt' /\ Unaware' /\ \A u \in Uid : ~Doing(u)'
  BY <1>0, UnawareOn DEF LookedAt, Doing, Idle, AwareInv
<1>2. CASE step.at = "done" /\ premise[i].generation = generation
  <2>1. /\ cached' = [cached EXCEPT ![w] = Told(i, run.held[w], @)]
        /\ unseen' = unseen
        /\ \A u \in Uid : Doing(u) <=> u = w
    BY <1>0, <1>2 DEF Commit, Doing
  <2>2. ASSUME NEW u \in Uid, u # w PROVE Aware(u)'
    BY <1>0, <1>1, <2>1, <2>2, AwareOn DEF AwareInv, TypeOK
  <2>3. ASSUME w \notin unseen PROVE Known(w)'
    <3>1. DoneThere(w)
      BY <1>0, <2>1, <2>3 DEF AwareInv, Aware
    <3>2. /\ cached'[w] = Told(i, run.held[w], cached[w]) /\ cached[w] \in Placed
          /\ box[w] \in Placed
      BY <1>0, <2>1 DEF TypeOK
    <3>3. CASE i \in Filing
      <4>1. cached'[w] = Nothing /\ (box'[w] = Nothing \/ box'[w].marked)
        BY <1>0, <3>1, <3>2, <3>3 DEF Told, DoneThere
      <4>2. Nothing.mail = NoMail
        BY DEF Nothing
      <4> QED
        BY <4>1, <4>2, <1>0 DEF Known
    <3>4. CASE i \notin Filing /\ cached[w].mail = NoMail
      <4>1. cached'[w] = cached[w] /\ Known(w)
        BY <1>0, <3>1, <3>2, <3>4 DEF Told, DoneThere
      <4> QED
        BY <1>0, <4>1 DEF Known
    <3>5. CASE i \notin Filing /\ cached[w].mail # NoMail
      <4>1. /\ box[w].mail = cached[w].mail /\ box[w].flagged
            /\ run.held[w].flagged => cached[w].flagged
        BY <1>0, <1>2, <3>1, <3>5 DEF DoneThere, Applying
      <4>2. cached'[w].mail = cached[w].mail /\ cached'[w].flagged
        BY <3>2, <3>5, <4>1 DEF Told, Placed
      <4>3. cached'[w] \in Placed
        BY <1>0 DEF TypeOK
      <4>4. box[w].flagged = TRUE /\ cached'[w].flagged = TRUE
        BY <3>2, <4>1, <4>2, <4>3 DEF Placed
      <4> QED
        BY <1>0, <4>1, <4>2, <4>4 DEF Known
    <3> QED
      BY <3>3, <3>4, <3>5
  <2>4. Aware(w)'
    BY <1>0, <1>1, <2>1, <2>3 DEF Aware
  <2>5. premise' = premise
    BY <1>0
  <2> QED
    BY <1>1, <2>2, <2>4, <2>5
<1>3. CASE step.at = "done" /\ premise[i].generation # generation
  <2>1. cached' = cached /\ unseen' = unseen \cup {w}
    BY <1>3 DEF Commit
  <2>2. \A u \in Uid : Doing(u) => u = w
    BY <1>0 DEF Doing
  <2> QED
    BY <1>0, <1>1, <2>1, <2>2, AwareOn DEF AwareInv
<1>4. CASE step.at # "done"
  <2>1. cached' = cached /\ unseen' = unseen /\ \A u \in Uid : ~Doing(u)
    BY <1>4 DEF Commit, Doing
  <2> QED
    BY <1>0, <1>1, <2>1, AwareOn DEF AwareInv
<1> QED
  BY <1>2, <1>3, <1>4

LEMMA AwareStep ==
  ASSUME AwareInv, ApplyInv', [Next]_vars
  PROVE  LookedAt' /\ Unaware' /\ \A u \in Uid : Aware(u)'
<1>0. ApplyInv /\ TypeOK /\ TypeOK' /\ LookedAt /\ Unaware
  BY DEF AwareInv, ApplyInv
\* A step in which the folder and the cache stay as they are.
<1>1. ASSUME UNCHANGED <<box, cached, premise, validity, remembered>>, unseen \subseteq unseen',
             \A u \in Uid : Doing(u)' \/ Doing(u) =>
               u \in unseen' \/ UNCHANGED <<step, run, generation>>,
             LookedAt'
      PROVE  LookedAt' /\ Unaware' /\ \A u \in Uid : Aware(u)'
  BY <1>0, <1>1, AwareOn, UnawareOn DEF AwareInv
<1>2. step'.at # "command" => LookedAt'
  BY DEF LookedAt
<1>3. CASE World
  BY <1>3, WorldAware
<1>4. CASE Sync
  BY <1>4 DEF Sync, LookedAt, Unaware, SameLife, Aware, Doing, Known, Idle, folder
<1>5. ASSUME NEW b \in Bundle, NEW at \in [b -> Uid], Decide(b, at)
      PROVE  LookedAt' /\ Unaware' /\ \A w \in Uid : Aware(w)'
  <2>1. /\ UNCHANGED <<server, box, cached, run, generation, step, unseen, validity, remembered>>
        /\ \A j \in Item : j \notin b => premise'[j] = premise[j]
    BY <1>0, <1>5 DEF Decide, folder, cache, ghosts, TypeOK
  <2>2. step # Idle => step.item \in Item /\ step.item \notin b
    BY <1>0, <1>5, StepRests DEF Decide, ApplyInv
  <2>3. step # Idle => premise'[step.item] = premise[step.item]
    BY <2>1, <2>2
  <2>4. \A w \in Uid : Doing(w)' <=> Doing(w)
    BY <2>1, <2>3 DEF Doing, Idle
  <2>5. LookedAt'
    BY <1>0, <2>1, <2>3 DEF LookedAt, Idle, Conditional, Same, Here, server
  <2>6. Unaware'
    BY <1>0, <2>1, UnawareOn
  <2> QED
    BY <2>1, <2>4, <2>5, <2>6 DEF AwareInv, Aware, DoneThere, Known
<1>6. CASE Stop \/ \E b \in Bundle : Start(b)
  <2>1. UNCHANGED <<box, cached, premise, validity, remembered, unseen, step>>
    BY <1>6 DEF Stop, Start, folder, cache, record, ghosts
  <2>2. step = Idle
    BY <1>0, <1>6, StepRests DEF ApplyInv, Start, Stop, NoRun
  <2>3. LookedAt' /\ \A u \in Uid : ~Doing(u) /\ ~Doing(u)'
    BY <2>1, <2>2 DEF LookedAt, Doing, Idle
  <2> QED
    BY <1>1, <2>1, <2>3
<1>7. ASSUME NEW i \in Item, Check(i) PROVE LookedAt' /\ Unaware' /\ \A u \in Uid : Aware(u)'
  <2>1. /\ UNCHANGED <<server, box, cached, premise, validity, remembered, unseen>>
        /\ step = Idle
    BY <1>7 DEF Check, folder, cache, ghosts
  <2>2. /\ step'.at \in {"idle", "command", "look"}
        /\ step'.at = "command" => step'.item = i /\ Conditional(i)
    BY <1>7, <2>1 DEF Check, Idle
  <2>3. LookedAt'
    BY <2>1, <2>2 DEF LookedAt, Conditional, server
  <2>4. \A u \in Uid : ~Doing(u) /\ ~Doing(u)'
    BY <2>1, <2>2 DEF Doing, Idle
  <2> QED
    BY <1>1, <2>1, <2>3, <2>4
<1>8. ASSUME NEW i \in Item, Look(i) PROVE LookedAt' /\ Unaware' /\ \A u \in Uid : Aware(u)'
  <2>1. /\ UNCHANGED <<server, box, cached, premise, validity, remembered, unseen>>
        /\ step.at = "look" /\ step'.at # "done" /\ step'.item = i
        /\ step'.at = "command" => Same(Here(i), premise[i].seen)
    BY <1>0, <1>8 DEF Look, folder, cache, record, ghosts, TypeOK
  <2>2. LookedAt'
    BY <2>1 DEF LookedAt, Same, Here, server
  <2> QED
    BY <1>1, <2>1, <2>2 DEF Doing
<1>9. ASSUME NEW i \in Item, Denied(i) PROVE LookedAt' /\ Unaware' /\ \A u \in Uid : Aware(u)'
  <2>1. /\ UNCHANGED <<box, cached, premise, validity, remembered, unseen>>
        /\ step.at # "done" /\ step'.at = "refused"
    BY <1>0, <1>9 DEF Denied, Answered, Commanding, folder, cache, record, TypeOK
  <2> QED
    BY <1>1, <1>2, <2>1 DEF Doing
<1>10. ASSUME NEW i \in Item, CutOff(i) PROVE LookedAt' /\ Unaware' /\ \A u \in Uid : Aware(u)'
  <2>1. /\ UNCHANGED <<cached, premise, validity, remembered>>
        /\ step.at # "done" /\ step'.at = "unanswered"
        /\ unseen' = unseen \cup {premise[i].uid}
    BY <1>0, <1>10 DEF CutOff, Commanding, Change, folder, cache, record, TypeOK
  <2>2. ASSUME NEW u \in Uid, u # premise[i].uid PROVE box'[u] = box[u]
    BY <1>0, <1>10, <2>2 DEF CutOff, Change, Put, folder, TypeOK
  <2>3. \A u \in Uid : ~Doing(u) /\ ~Doing(u)'
    BY <2>1 DEF Doing
  <2>4. Unaware'
    BY <1>0, <2>1, UnawareOn
  <2> QED
    BY <1>2, <2>1, <2>2, <2>3, <2>4, AwareOn DEF AwareInv
<1>11. ASSUME NEW i \in Item, Raise(i) PROVE LookedAt' /\ Unaware' /\ \A u \in Uid : Aware(u)'
  <2>1. /\ UNCHANGED <<box, cached, premise, validity, remembered, unseen>>
        /\ step.at # "done" /\ step' = Idle
    BY <1>11 DEF Raise, folder, cache, record, ghosts
  <2> QED
    BY <1>1, <1>2, <2>1 DEF Doing, Idle
<1>12. CASE Restart
  <2>1. UNCHANGED <<box, cached, premise, validity, remembered>> /\ step' = Idle
    BY <1>12 DEF Restart, folder, cache, record
  <2>2. /\ unseen \subseteq unseen'
        /\ step # Idle => premise[step.item].uid \in unseen'
    BY <1>12 DEF Restart
  <2>3. \A u \in Uid : Doing(u)' \/ Doing(u) => u \in unseen'
    BY <2>1, <2>2 DEF Doing, Idle
  <2> QED
    BY <1>1, <1>2, <2>1, <2>2, <2>3 DEF Idle
<1>13. CASE UNCHANGED vars
  BY <1>13 DEF vars, server, folder, cache, record, ghosts, AwareInv, Aware, Doing,
     DoneThere, Known, LookedAt, Unaware, SameLife, Conditional, Same, Here
<1>14. ASSUME NEW i \in Item, Obeyed(i) \/ Commit(i)
       PROVE  LookedAt' /\ Unaware' /\ \A u \in Uid : Aware(u)'
  BY <1>0, <1>14, ObeyedAware, CommitAware
<1> QED
  BY <1>3, <1>4, <1>5, <1>6, <1>7, <1>8, <1>9, <1>10, <1>11, <1>12, <1>13, <1>14
     DEF Next, Runner

-----------------------------------------------------------------------------
(* The theorems                                                            *)

\* What ties the folder, its cache, the premises, what the run remembers of
\* them and the item it applies (apply.py, client.py and sync.py) holds through
\* every step, another process's sync in the middle of the run included.
THEOREM ApplyInvariant == Spec => []ApplyInv
<1>1. Init => ApplyInv
  BY InitInv
<1>2. ApplyInv /\ [Next]_vars => ApplyInv'
  BY NextKeeps
<1> QED
  BY <1>1, <1>2, PTL DEF Spec

\* The state has the type the columns and the protocol give it (models.py).
THEOREM TypeCorrect == Spec => []TypeOK
<1>1. ApplyInv => TypeOK
  BY DEF ApplyInv
<1> QED
  BY <1>1, ApplyInvariant, PTL

\* Unless the folder was made anew since the last sync before the run was
\* loaded, a change is made to the message that was read (staleness.check on
\* what the session holds, break_identity).
THEOREM ReadIsApplied == Spec => []AppliesToWhatWasRead
<1>1. ApplyInv => AppliesToWhatWasRead
  BY DEF ApplyInv
<1> QED
  BY <1>1, ApplyInvariant, PTL

\* A conditional store changes a message only as it was read, unless the
\* folder was made anew since the last sync before the run was loaded
\* (store_flags).
THEOREM ConditionHolds == Spec => []ConditionalIsHonest
<1>1. ApplyInv => ConditionalIsHonest
  BY DEF ApplyInv
<1> QED
  BY <1>1, ApplyInvariant, PTL

\* A message is taken from its folder only when the target has it, with MOVE
\* and without (client.move).
THEOREM MailIsKept == Spec => []NoMailIsLost
<1>1. ApplyInv => NoMailIsLost
  BY DEF ApplyInv
<1> QED
  BY <1>1, ApplyInvariant, PTL

\* What a change that was made leaves behind for the next attempt at it to
\* find, in the folder or in what the run remembers of it (staleness.check,
\* client._conditional_store), holds through every step.
THEOREM OnceInvariant == Spec => []OnceInv
<1>1. Init => OnceInv
  <2> SUFFICES ASSUME Init PROVE OnceInv
    OBVIOUS
  <2>1. ASSUME NEW i \in Item PROVE OnceOf(i)
    <3>1. ~(performed[i] > 0) /\ ~(performed[i] > 1)
      BY DEF Init
    <3> QED
      BY <3>1 DEF OnceOf, Spent, Primed
  <2> QED
    BY <2>1, InitInv DEF OnceInv
<1>2. OnceInv /\ [Next]_vars => OnceInv'
  <2> SUFFICES ASSUME OnceInv, [Next]_vars PROVE OnceInv'
    OBVIOUS
  <2>1. ApplyInv'
    BY NextKeeps DEF OnceInv
  <2> QED
    BY <2>1, OnceStep DEF OnceInv
<1> QED
  BY <1>1, <1>2, PTL DEF Spec

\* Through crashes, lost answers and retries an item's change is made once,
\* but for the exceptions the property names (_apply_one, client.move).
THEOREM ChangesAreMadeOnce == Spec => []DoneOnce
<1>1. OnceInv => DoneOnce
  BY DEF OnceInv, OnceOf, Exempt, DoneOnce
<1> QED
  BY <1>1, OnceInvariant, PTL

\* Between the answer of the server and the commit the cache is behind at the
\* one UID that is worked on, and nowhere else where nobody else wrote and
\* where the row that was told is the folder's (_apply_one, _update_cache).
THEOREM AwareInvariant == Spec => []AwareInv
<1>1. Init => AwareInv
  BY InitInv DEF Init, AwareInv, LookedAt, Unaware, SameLife, Aware, Doing, Known, Idle
<1>2. AwareInv /\ [Next]_vars => AwareInv'
  BY AwareStep, NextKeeps DEF AwareInv
<1> QED
  BY <1>1, <1>2, PTL DEF Spec

\* What the service did to the mailbox itself its cache knows once the item's
\* outcome is committed, without a sync, unless a sync moved the generation on
\* in the middle of the run (_update_cache).
THEOREM OwnChangesAreKnown == Spec => []CacheKnowsOwnChanges
<1>1. AwareInv => CacheKnowsOwnChanges
  BY DEF AwareInv, Aware, Doing, Known, Idle, CacheKnowsOwnChanges
<1> QED
  BY <1>1, AwareInvariant, PTL

=============================================================================
