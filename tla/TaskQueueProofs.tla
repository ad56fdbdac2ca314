--------------------------- MODULE TaskQueueProofs ---------------------------
(***************************************************************************)
(* What TaskQueue promises for any number of processes, accounts, asks and *)
(* rows.  One invariant carries all of it: the memory of a process and the *)
(* rows of the database agree for as long as no two processes overlapped.  *)
(***************************************************************************)
EXTENDS TaskQueue, FiniteSetTheorems, TLAPS

\* A row that exists is one of the first count, and asks for something.
RowsFilled ==
  \A i \in Row : status[i] # "absent" => i <= count /\ ask[i] \in Ask

\* Only a process that is up has lanes, only a lane has an executor, and a
\* lane is for a row that exists.
LanesOfUp ==
  \A p \in Process : /\ begun[p] \subseteq lanes[p]
                     /\ lanes[p] # {} => Up(p)
                     /\ \A i \in lanes[p] : status[i] # "absent"

OnlyOneUp ==
  ~overlapped => \A p, q \in Process : Up(p) /\ Up(q) => p = q

LanesRunning ==
  ~overlapped => \A p \in Process : \A i \in lanes[p] : status[i] = "running"

LanesApart ==
  ~overlapped =>
    \A p \in Process : \A i, j \in lanes[p] :
      AccountOf[ask[i]] = AccountOf[ask[j]] => i = j

QueueInv ==
  /\ TypeOK
  /\ RowsFilled
  /\ LanesOfUp
  /\ OnlyOneUp
  /\ LanesRunning
  /\ LanesApart
  /\ OneLiveRow
  /\ AcceptedIsNotForgotten
  /\ RunningIsRun

-----------------------------------------------------------------------------
(* What the two ways of adding rows do to the table                        *)

\* The rows that were there are left as they were asked for.
Keeps == \A i \in Row : status[i] # "absent" => ask'[i] = ask[i]

\* Adding rows whose asks S were in flight nowhere, one row for each.
Adds(S) ==
  /\ Keeps
  /\ \A i \in Row : status[i] = "absent" /\ status'[i] # "absent" =>
       /\ status'[i] = "queued"
       /\ ask'[i] \in S
       /\ ~Live(ask'[i])
  /\ \A i, j \in Row :
       /\ status[i] = "absent" /\ status'[i] # "absent"
       /\ status[j] = "absent" /\ status'[j] # "absent"
       /\ ask'[i] = ask'[j]
       => i = j
  /\ \A a \in S : \E i \in Row : ask'[i] = a /\ status'[i] \in LIVE

RowsType ==
  /\ count \in 0..MaxRows
  /\ ask \in [Row -> Ask \cup {NoAsk}]
  /\ status \in [Row -> TaskStatus]

LEMMA EnqueueEffect ==
  ASSUME RowsType, RowsFilled, NEW a \in Ask, Enqueue(a)
  PROVE  /\ RowsType'
         /\ RowsFilled'
         /\ Adds({a})
         /\ \A i \in Row : status[i] # "absent" => status'[i] = status[i]
<1>1. CASE Live(a)
  BY <1>1 DEF Enqueue, Live, rows, RowsType, RowsFilled, Adds, Keeps
<1>2. CASE ~Live(a)
  <2>. DEFINE n == count + 1
  <2>1. /\ n \in Row
        /\ count' = n
        /\ ask' = [ask EXCEPT ![n] = a]
        /\ status' = [status EXCEPT ![n] = "queued"]
    BY <1>2, AsksOK DEF Enqueue, RowsType, Row
  <2>2. status[n] = "absent"
    BY <2>1, AsksOK DEF RowsFilled, RowsType, Row
  <2>3. /\ ask'[n] = a
        /\ status'[n] = "queued"
        /\ \A i \in Row \ {n} : ask'[i] = ask[i] /\ status'[i] = status[i]
    BY <2>1 DEF RowsType
  <2>4. RowsType'
    BY <2>1, AsksOK DEF RowsType, Row, TaskStatus
  <2>5. RowsFilled'
    BY <2>1, <2>3, AsksOK DEF RowsFilled, RowsType, Row
  <2>6. Adds({a})
    BY <1>2, <2>1, <2>2, <2>3 DEF Adds, Keeps, LIVE
  <2>. QED
    BY <2>2, <2>3, <2>4, <2>5, <2>6
<1>. QED
  BY <1>1, <1>2

LEMMA StrandedCount ==
  /\ Stranded \subseteq Ask
  /\ IsFiniteSet(Stranded)
  /\ Cardinality(Stranded) \in Nat
<1>1. Stranded \subseteq Ask
  BY AsksOK DEF Stranded
<1>2. IsFiniteSet(Stranded)
  BY <1>1, AsksOK, FS_Subset
<1>. QED
  BY <1>1, <1>2, FS_CardinalityType

LEMMA RecoverEffect ==
  ASSUME RowsType, RowsFilled, Recover
  PROVE  /\ RowsType'
         /\ RowsFilled'
         /\ Adds(Stranded)
         /\ \A i \in Row : status[i] # "absent" =>
              status'[i] = IF status[i] = "running" THEN "queued" ELSE status[i]
<1>. DEFINE n == Cardinality(Stranded)
            New == count + 1..count + n
<1>1. n \in Nat /\ Stranded \subseteq Ask
  BY StrandedCount
<1>2. PICK order \in Orders(Stranded) :
        ask' = [i \in Row |-> IF i \in New THEN order[i - count] ELSE ask[i]]
  BY DEF Recover
<1>3. /\ count + n <= MaxRows
      /\ count' = count + n
      /\ status' = [i \in Row |-> IF status[i] = "running" \/ i \in New
                                  THEN "queued" ELSE status[i]]
  BY DEF Recover
<1>4. /\ order \in [1..n -> Stranded]
      /\ \A j, k \in 1..n : order[j] = order[k] => j = k
      /\ \A a \in Stranded : \E k \in 1..n : order[k] = a
  BY <1>2 DEF Orders, Bijection, Injection, Surjection, IsInjective
<1>. HIDE DEF n
<1>5. count \in Nat /\ MaxRows \in Nat /\ New \subseteq Row
  BY <1>1, <1>3, AsksOK DEF RowsType, Row
<1>6. \A i \in Row : status[i] = "absent" /\ status'[i] # "absent" => i \in New
  BY <1>3
<1>7. \A i \in New : /\ i - count \in 1..n
                     /\ ask'[i] = order[i - count]
                     /\ status'[i] = "queued"
                     /\ status[i] = "absent"
  BY <1>1, <1>2, <1>3, <1>5 DEF RowsFilled, Row
<1>8. \A i \in Row \ New : ask'[i] = ask[i]
  BY <1>2
<1>9. RowsType'
  <2>1. \A i \in Row : ask'[i] \in Ask \cup {NoAsk}
    BY <1>1, <1>4, <1>7, <1>8 DEF RowsType
  <2>2. \A i \in Row : status'[i] \in TaskStatus
    BY <1>3 DEF RowsType, TaskStatus
  <2>. QED
    BY <1>1, <1>2, <1>3, <1>5, <2>1, <2>2 DEF RowsType
<1>10. RowsFilled'
  <2>. SUFFICES ASSUME NEW i \in Row, status'[i] # "absent"
                PROVE  i <= count' /\ ask'[i] \in Ask
    BY DEF RowsFilled
  <2>1. CASE i \in New
    <3>1. i <= count'
      BY <1>1, <1>3, <1>5, <2>1
    <3>2. ask'[i] \in Stranded
      BY <1>4, <1>7, <2>1
    <3>. QED
      BY <1>1, <3>1, <3>2
  <2>2. CASE i \notin New
    BY <1>1, <1>3, <1>5, <1>8, <2>2 DEF RowsFilled, Row
  <2>. QED
    BY <2>1, <2>2
<1>11. Adds(Stranded)
  <2>1. Keeps
    BY <1>7, <1>8 DEF Keeps
  <2>2. \A i \in New : ask'[i] \in Stranded /\ ~Live(ask'[i])
    BY <1>4, <1>7 DEF Stranded
  <2>3. \A i, j \in New : ask'[i] = ask'[j] => i = j
    <3>. SUFFICES ASSUME NEW i \in New, NEW j \in New, ask'[i] = ask'[j]
                  PROVE  i = j
      OBVIOUS
    <3>1. i - count = j - count
      BY <1>4, <1>7
    <3>. QED
      BY <3>1, <1>5 DEF Row
  <2>4. ASSUME NEW a \in Stranded
        PROVE  \E i \in Row : ask'[i] = a /\ status'[i] \in LIVE
    <3>1. PICK k \in 1..n : order[k] = a
      BY <1>4
    <3>2. count + k \in New /\ (count + k) - count = k
      BY <1>1, <1>5
    <3>. QED
      BY <3>1, <3>2, <1>5, <1>7 DEF LIVE
  <2>. QED
    BY <1>6, <1>7, <2>1, <2>2, <2>3, <2>4 DEF Adds
<1>12. \A i \in Row : status[i] # "absent" =>
         status'[i] = IF status[i] = "running" THEN "queued" ELSE status[i]
  BY <1>3, <1>7
<1>. QED
  BY <1>9, <1>10, <1>11, <1>12

\* A row that was there counts after the step for what it counted before.
StaysLive ==
  \A i \in Row : status[i] # "absent" =>
    /\ status'[i] \in LIVE <=> status[i] \in LIVE
    /\ status'[i] = "failed" <=> status[i] = "failed"

\* What adding rows preserves, whichever of the two ways it was.
LEMMA AddsInv ==
  ASSUME RowsType, RowsFilled, LanesRunning, LanesApart, OneLiveRow,
         AcceptedIsNotForgotten, lanes \in [Process -> SUBSET Row],
         NEW S, Adds(S), StaysLive,
         overlapped' = overlapped, UNCHANGED lanes,
         \A a \in Apply : bundle'[a] = "accepted" => bundle[a] = "accepted" \/ a \in S
  PROVE  /\ LanesApart'
         /\ OneLiveRow'
         /\ AcceptedIsNotForgotten'
<1>1. LanesApart'
  <2>. SUFFICES ASSUME ~overlapped, NEW p \in Process,
                       NEW i \in lanes[p], NEW j \in lanes[p],
                       AccountOf[ask'[i]] = AccountOf[ask'[j]]
                PROVE  i = j
    BY DEF LanesApart
  <2>1. status[i] = "running" /\ status[j] = "running"
    BY DEF LanesRunning
  <2>2. i \in Row /\ j \in Row
    OBVIOUS
  <2>3. ask'[i] = ask[i] /\ ask'[j] = ask[j]
    BY <2>1, <2>2 DEF Adds, Keeps
  <2>. QED
    BY <2>3 DEF LanesApart
<1>2. OneLiveRow'
  <2>. SUFFICES ASSUME ~overlapped, NEW i \in Row, NEW j \in Row,
                       status'[i] \in LIVE, status'[j] \in LIVE,
                       ask'[i] = ask'[j]
                PROVE  i = j
    BY DEF OneLiveRow
  <2>1. CASE status[i] = "absent" /\ status[j] = "absent"
    BY <2>1 DEF Adds, LIVE
  <2>2. CASE status[i] # "absent" /\ status[j] # "absent"
    <3>1. status[i] \in LIVE /\ status[j] \in LIVE
      BY <2>2 DEF StaysLive
    <3>2. ask[i] = ask[j]
      BY <2>2 DEF Adds, Keeps
    <3>. QED
      BY <3>1, <3>2 DEF OneLiveRow
  <2>3. ASSUME NEW new \in Row, NEW old \in Row,
               status[new] = "absent", status'[new] # "absent",
               status[old] # "absent", status'[old] \in LIVE,
               ask'[new] = ask'[old]
        PROVE  FALSE
    <3>1. ~Live(ask'[new])
      BY <2>3 DEF Adds
    <3>2. status[old] \in LIVE /\ ask[old] = ask'[new]
      BY <2>3 DEF StaysLive, Adds, Keeps
    <3>. QED
      BY <3>1, <3>2 DEF Live
  <2>. QED
    BY <2>1, <2>2, <2>3 DEF LIVE
<1>3. AcceptedIsNotForgotten'
  <2>. SUFFICES ASSUME NEW a \in Apply, bundle'[a] = "accepted"
                PROVE  \E i \in Row :
                         ask'[i] = a /\ status'[i] \in {"queued", "running", "failed"}
    BY DEF AcceptedIsNotForgotten
  <2>1. CASE a \in S
    BY <2>1 DEF Adds, LIVE
  <2>2. CASE bundle[a] = "accepted"
    <3>1. PICK i \in Row : ask[i] = a /\ status[i] \in {"queued", "running", "failed"}
      BY <2>2 DEF AcceptedIsNotForgotten
    <3>. QED
      BY <3>1 DEF StaysLive, Adds, Keeps, LIVE
  <2>. QED
    BY <2>1, <2>2
<1>. QED
  BY <1>1, <1>2, <1>3

\* A step that only adds one row for an ask, or decides a bundle with it.
LEMMA EnqueueInv ==
  ASSUME QueueInv, NEW a \in Ask, Enqueue(a),
         UNCHANGED <<phase, lanes, begun, ghosts>>,
         bundle' \in [Apply -> {"proposed", "accepted", "closed"}],
         \A b \in Apply : bundle'[b] = "accepted" => bundle[b] = "accepted" \/ b = a
  PROVE  QueueInv'
<1>. USE DEF ghosts
<1>1. RowsType
  BY DEF QueueInv, TypeOK, RowsType
<1>2. /\ RowsType' /\ RowsFilled' /\ Adds({a})
      /\ \A i \in Row : status[i] # "absent" => status'[i] = status[i]
  BY <1>1, EnqueueEffect DEF QueueInv
<1>3. TypeOK'
  BY <1>2 DEF QueueInv, TypeOK, RowsType
<1>4. LanesApart' /\ OneLiveRow' /\ AcceptedIsNotForgotten'
  <2>1. StaysLive
    BY <1>2 DEF StaysLive
  <2>2. \A b \in Apply :
          bundle'[b] = "accepted" => bundle[b] = "accepted" \/ b \in {a}
    OBVIOUS
  <2>. QED
    BY <1>1, <1>2, <2>1, <2>2, AddsInv DEF QueueInv, TypeOK
<1>5. LanesOfUp' /\ OnlyOneUp'
  <2>1. \A p \in Process : lanes[p] \subseteq Row
    BY DEF QueueInv, TypeOK
  <2>. QED
    BY <1>2, <2>1 DEF QueueInv, LanesOfUp, OnlyOneUp, Up
<1>6. LanesRunning'
  BY <1>2 DEF QueueInv, TypeOK, LanesRunning
<1>7. RunningIsRun'
  <2>1. \A i \in Row : status'[i] = "running" => status[i] = "running"
    BY <1>1, <1>2 DEF Adds, RowsType, TaskStatus
  <2>. QED
    BY <2>1 DEF QueueInv, RunningIsRun, Up
<1>. QED
  BY <1>2, <1>3, <1>4, <1>5, <1>6, <1>7 DEF QueueInv

\* A process starts, with a recovery or after one that failed.
LEMMA StartInv ==
  ASSUME QueueInv, NEW p \in Process, Start(p)
  PROVE  QueueInv'
<1>1. RowsType /\ phase \in [Process -> {"down", "serving", "stopping", "stopped"}]
  BY DEF QueueInv, TypeOK, RowsType
<1>2. /\ phase[p] = "down"
      /\ phase' = [phase EXCEPT ![p] = "serving"]
      /\ overlapped' = (overlapped \/ \E q \in Process : Up(q))
      /\ UNCHANGED <<bundle, lanes, begun>>
  BY DEF Start
<1>3. overlapped' \in BOOLEAN /\ (~overlapped' => ~overlapped)
  BY <1>2 DEF QueueInv, TypeOK
<1>4. ~overlapped' => \A q \in Process : ~Up(q) /\ lanes[q] = {}
  BY <1>2 DEF QueueInv, LanesOfUp
<1>5. /\ OnlyOneUp'
      /\ (\A i \in Row : status[i] # "absent" => status'[i] # "absent") => LanesOfUp'
  <2>1. OnlyOneUp'
    BY <1>1, <1>2, <1>4 DEF OnlyOneUp, Up
  <2>2. \A q \in Process : lanes[q] \subseteq Row
    BY DEF QueueInv, TypeOK
  <2>3. (\A i \in Row : status[i] # "absent" => status'[i] # "absent") => LanesOfUp'
    BY <1>1, <1>2, <2>2 DEF QueueInv, LanesOfUp, Up
  <2>. QED
    BY <2>1, <2>3
<1>6. LanesRunning' /\ LanesApart'
  BY <1>2, <1>4 DEF LanesRunning, LanesApart
<1>7. CASE Recover
  <2>1. /\ RowsType' /\ RowsFilled' /\ Adds(Stranded)
        /\ \A i \in Row : status[i] # "absent" =>
             status'[i] = IF status[i] = "running" THEN "queued" ELSE status[i]
        /\ missed' = {} /\ lost' = {}
    BY <1>1, <1>7, RecoverEffect DEF QueueInv, Recover
  <2>2. TypeOK'
    BY <1>1, <1>2, <1>3, <2>1 DEF QueueInv, TypeOK, RowsType
  <2>3. StaysLive
    BY <2>1 DEF StaysLive, LIVE
  <2>4. OneLiveRow'
    <3>. SUFFICES ASSUME ~overlapped'
                  PROVE  \A i, j \in Row :
                           status'[i] \in LIVE /\ status'[j] \in LIVE /\ ask'[i] = ask'[j]
                           => i = j
      BY DEF OneLiveRow
    <3>1. overlapped' = overlapped
      BY <1>2, <1>3 DEF QueueInv, TypeOK
    <3>2. \A a \in Apply :
            bundle'[a] = "accepted" => bundle[a] = "accepted" \/ a \in Stranded
      BY <1>2
    <3>3. OneLiveRow'
      BY <1>1, <1>2, <2>1, <2>3, <3>1, <3>2, AddsInv DEF QueueInv, TypeOK
    <3>. QED
      BY <3>3 DEF OneLiveRow
  <2>5. AcceptedIsNotForgotten'
    <3>. SUFFICES ASSUME NEW a \in Apply, bundle[a] = "accepted"
                  PROVE  \E i \in Row :
                           ask'[i] = a /\ status'[i] \in {"queued", "running", "failed"}
      BY <1>2 DEF AcceptedIsNotForgotten
    <3>1. CASE a \in Stranded
      BY <2>1, <3>1 DEF Adds, LIVE
    <3>2. CASE a \notin Stranded
      <4>1. PICK i \in Row : ask[i] = a /\ status[i] \in LIVE
        BY <3>2 DEF Stranded, Live
      <4>. QED
        BY <2>1, <4>1 DEF Adds, Keeps, LIVE
    <3>. QED
      BY <3>1, <3>2
  <2>6. RunningIsRun'
    <3>1. \A i \in Row : status'[i] # "running"
      BY <1>1, <2>1 DEF Adds
    <3>. QED
      BY <3>1 DEF RunningIsRun
  <2>. QED
    BY <1>5, <1>6, <2>1, <2>2, <2>4, <2>5, <2>6 DEF QueueInv
<1>8. CASE /\ missed' = {i \in Row : status[i] = "running"}
           /\ UNCHANGED <<rows, lost>>
  <2>1. TypeOK' /\ RowsFilled'
    BY <1>1, <1>2, <1>3, <1>8 DEF QueueInv, TypeOK, RowsFilled, rows
  <2>2. OneLiveRow' /\ AcceptedIsNotForgotten'
    BY <1>2, <1>3, <1>8
    DEF QueueInv, OneLiveRow, AcceptedIsNotForgotten, rows
  <2>3. RunningIsRun'
    BY <1>8 DEF RunningIsRun, rows
  <2>4. \A i \in Row : status[i] # "absent" => status'[i] # "absent"
    BY <1>8 DEF rows
  <2>. QED
    BY <1>5, <1>6, <2>1, <2>2, <2>3, <2>4 DEF QueueInv
<1>. QED
  BY <1>7, <1>8 DEF Start

\* A step of a process that only changes what it holds in memory; one that
\* stays up drops no lane whose row is running.
LEMMA MemoryInv ==
  ASSUME QueueInv, UNCHANGED <<rows, bundle, ghosts>>,
         phase' \in [Process -> {"down", "serving", "stopping", "stopped"}],
         lanes' \in [Process -> SUBSET Row],
         begun' \in [Process -> SUBSET Row],
         LanesOfUp',
         \A q \in Process : lanes'[q] \subseteq lanes[q] /\ (Up(q)' => Up(q)),
         ~overlapped =>
             \A q \in Process : \A i \in lanes[q] :
               i \in lanes'[q] \/ ~Up(q)' \/ status[i] # "running"
  PROVE  QueueInv'
<1>. USE DEF rows, ghosts
<1>1. TypeOK' /\ RowsFilled' /\ OnlyOneUp'
  BY DEF QueueInv, TypeOK, RowsFilled, OnlyOneUp
<1>2. LanesRunning' /\ LanesApart'
  BY DEF QueueInv, LanesRunning, LanesApart
<1>3. OneLiveRow' /\ AcceptedIsNotForgotten'
  BY DEF QueueInv, OneLiveRow, AcceptedIsNotForgotten
<1>4. RunningIsRun'
  <2>. SUFFICES ASSUME ~overlapped, NEW p \in Process, Up(p)', NEW i \in Row,
                       status[i] = "running", i \notin missed \cup lost
                PROVE  \E q \in Process : i \in lanes'[q]
    BY DEF RunningIsRun
  <2>1. PICK q \in Process : i \in lanes[q]
    BY DEF QueueInv, RunningIsRun
  <2>2. q = p
    BY <2>1 DEF QueueInv, LanesOfUp, OnlyOneUp
  <2>. QED
    BY <2>1, <2>2
<1>. QED
  BY <1>1, <1>2, <1>3, <1>4 DEF QueueInv

\* A row is claimed: the oldest queued one of an account without a lane here.
LEMMA ClaimInv ==
  ASSUME QueueInv, NEW p \in Process, NEW i \in Row, Claim(p, i)
  PROVE  QueueInv'
<1>. USE DEF ghosts
<1>1. /\ status[i] = "queued"
      /\ AccountOf[ask[i]] \notin Busy(p)
      /\ status' = [status EXCEPT ![i] = "running"]
      /\ lanes' = [lanes EXCEPT ![p] = @ \cup {i}]
      /\ UNCHANGED <<count, ask, bundle, begun, ghosts>>
  BY DEF Claim, Claimable
<1>2. /\ phase' \in [Process -> {"down", "serving", "stopping", "stopped"}]
      /\ \A q \in Process : Up(q)' <=> Up(q)
      /\ Up(p)
  BY DEF Claim, QueueInv, TypeOK, Up
<1>3. /\ status' \in [Row -> TaskStatus]
      /\ status'[i] = "running"
      /\ \A j \in Row \ {i} : status'[j] = status[j]
  BY <1>1 DEF QueueInv, TypeOK, TaskStatus
<1>4. /\ lanes' \in [Process -> SUBSET Row]
      /\ lanes'[p] = lanes[p] \cup {i}
      /\ \A q \in Process \ {p} : lanes'[q] = lanes[q]
  BY <1>1 DEF QueueInv, TypeOK
<1>5. TypeOK' /\ RowsFilled'
  BY <1>1, <1>2, <1>3, <1>4 DEF QueueInv, TypeOK, RowsFilled
<1>6. LanesOfUp' /\ OnlyOneUp'
  BY <1>1, <1>2, <1>3, <1>4 DEF QueueInv, LanesOfUp, OnlyOneUp
<1>7. LanesRunning'
  BY <1>1, <1>3, <1>4 DEF QueueInv, TypeOK, LanesRunning
<1>8. LanesApart'
  <2>. SUFFICES ASSUME ~overlapped, NEW q \in Process,
                       NEW j \in lanes'[q], NEW k \in lanes'[q],
                       AccountOf[ask[j]] = AccountOf[ask[k]]
                PROVE  j = k
    BY <1>1 DEF LanesApart
  <2>1. \A l \in lanes[p] : AccountOf[ask[l]] # AccountOf[ask[i]]
    BY <1>1 DEF Busy
  <2>2. j \in lanes[q] /\ k \in lanes[q] => j = k
    BY DEF QueueInv, LanesApart
  <2>. QED
    BY <1>4, <2>1, <2>2
<1>9. OneLiveRow' /\ AcceptedIsNotForgotten'
  BY <1>1, <1>3 DEF QueueInv, OneLiveRow, AcceptedIsNotForgotten, LIVE
<1>10. RunningIsRun'
  BY <1>1, <1>2, <1>3, <1>4 DEF QueueInv, RunningIsRun
<1>. QED
  BY <1>5, <1>6, <1>7, <1>8, <1>9, <1>10 DEF QueueInv

LEMMA LaneEndsEffect ==
  ASSUME QueueInv, NEW p \in Process, NEW i \in Row, LaneEnds(p, i)
  PROVE  /\ lanes' \in [Process -> SUBSET Row]
         /\ begun' \in [Process -> SUBSET Row]
         /\ lanes'[p] = lanes[p] \ {i}
         /\ begun'[p] = begun[p] \ {i}
         /\ \A q \in Process \ {p} : lanes'[q] = lanes[q] /\ begun'[q] = begun[q]
BY DEF QueueInv, TypeOK, LaneEnds

\* A lane ends and gives its row a status; done closes the bundle.
LEMMA FinishInv ==
  ASSUME QueueInv, NEW p \in Process, NEW i \in Row,
         NEW s \in {"queued", "done", "failed"}, Finish(p, i, s),
         bundle' \in [Apply -> {"proposed", "accepted", "closed"}],
         \A a \in Apply : bundle'[a] = "accepted" => bundle[a] = "accepted",
         s = "done" /\ ask[i] \in Apply => bundle'[ask[i]] # "accepted"
  PROVE  QueueInv'
<1>. USE DEF ghosts
<1>1. /\ i \in lanes[p]
      /\ status' = [status EXCEPT ![i] = s]
      /\ UNCHANGED <<count, ask, phase, ghosts>>
  BY DEF Finish, InHand, QueueInv, LanesOfUp
<1>2. /\ lanes' \in [Process -> SUBSET Row]
      /\ begun' \in [Process -> SUBSET Row]
      /\ lanes'[p] = lanes[p] \ {i}
      /\ begun'[p] = begun[p] \ {i}
      /\ \A q \in Process \ {p} : lanes'[q] = lanes[q] /\ begun'[q] = begun[q]
  BY LaneEndsEffect DEF Finish
<1>3. /\ status' \in [Row -> TaskStatus]
      /\ status'[i] = s
      /\ \A j \in Row \ {i} : status'[j] = status[j]
  BY <1>1 DEF QueueInv, TypeOK, TaskStatus
<1>4. ~overlapped => status[i] = "running"
  BY <1>1 DEF QueueInv, LanesRunning
<1>5. TypeOK'
  BY <1>1, <1>2, <1>3 DEF QueueInv, TypeOK
<1>6. RowsFilled'
  <2>1. status[i] # "absent"
    BY <1>1 DEF QueueInv, LanesOfUp
  <2>. QED
    BY <1>1, <1>3, <2>1 DEF QueueInv, RowsFilled
<1>7. LanesOfUp' /\ OnlyOneUp'
  BY <1>1, <1>2, <1>3 DEF QueueInv, LanesOfUp, OnlyOneUp, Up
<1>8. LanesRunning'
  <2>. SUFFICES ASSUME ~overlapped, NEW q \in Process, NEW j \in lanes'[q]
                PROVE  status'[j] = "running"
    BY <1>1 DEF LanesRunning
  <2>1. j \in lanes[q] /\ j \in Row
    BY <1>2
  <2>2. j # i
    BY <1>1, <1>2, <2>1 DEF QueueInv, LanesOfUp, OnlyOneUp
  <2>. QED
    BY <1>3, <2>1, <2>2 DEF QueueInv, LanesRunning
<1>9. LanesApart'
  BY <1>1, <1>2 DEF QueueInv, LanesApart
<1>10. OneLiveRow'
  BY <1>1, <1>3, <1>4 DEF QueueInv, OneLiveRow, LIVE
<1>11. AcceptedIsNotForgotten'
  <2>. SUFFICES ASSUME NEW a \in Apply, bundle'[a] = "accepted"
                PROVE  \E j \in Row :
                         ask[j] = a /\ status'[j] \in {"queued", "running", "failed"}
    BY <1>1 DEF AcceptedIsNotForgotten
  <2>1. PICK j \in Row : ask[j] = a /\ status[j] \in {"queued", "running", "failed"}
    BY DEF QueueInv, AcceptedIsNotForgotten
  <2>2. j = i => s # "done"
    BY <2>1
  <2>. QED
    BY <1>3, <2>1, <2>2
<1>12. RunningIsRun'
  <2>. SUFFICES ASSUME ~overlapped, NEW q \in Process, Up(q), NEW j \in Row,
                       status'[j] = "running", j \notin missed \cup lost
                PROVE  \E r \in Process : j \in lanes'[r]
    BY <1>1 DEF RunningIsRun, Up
  <2>1. j # i /\ status[j] = "running"
    BY <1>3
  <2>2. PICK r \in Process : j \in lanes[r]
    BY <2>1 DEF QueueInv, RunningIsRun
  <2>3. j \in lanes'[r]
    BY <1>2, <2>1, <2>2
  <2>. QED
    BY <2>3
<1>. QED
  BY <1>5, <1>6, <1>7, <1>8, <1>9, <1>10, <1>11, <1>12 DEF QueueInv

\* It broke, and so did the record of it.
LEMMA LoseInv ==
  ASSUME QueueInv, NEW p \in Process, NEW i \in Row, Lose(p, i)
  PROVE  QueueInv'
<1>1. /\ i \in lanes[p]
      /\ lost' = lost \cup {i}
      /\ UNCHANGED <<rows, bundle, phase, overlapped, missed>>
  BY DEF Lose, InHand, QueueInv, LanesOfUp
<1>2. /\ lanes' \in [Process -> SUBSET Row]
      /\ begun' \in [Process -> SUBSET Row]
      /\ lanes'[p] = lanes[p] \ {i}
      /\ begun'[p] = begun[p] \ {i}
      /\ \A q \in Process \ {p} : lanes'[q] = lanes[q] /\ begun'[q] = begun[q]
  BY LaneEndsEffect DEF Lose
<1>. USE DEF rows
<1>3. TypeOK' /\ RowsFilled'
  BY <1>1, <1>2 DEF QueueInv, TypeOK, RowsFilled
<1>4. LanesOfUp' /\ OnlyOneUp'
  BY <1>1, <1>2 DEF QueueInv, LanesOfUp, OnlyOneUp, Up
<1>5. LanesRunning' /\ LanesApart'
  BY <1>1, <1>2 DEF QueueInv, LanesRunning, LanesApart
<1>6. OneLiveRow' /\ AcceptedIsNotForgotten'
  BY <1>1 DEF QueueInv, OneLiveRow, AcceptedIsNotForgotten
<1>7. RunningIsRun'
  <2>. SUFFICES ASSUME ~overlapped, NEW q \in Process, Up(q), NEW j \in Row,
                       status[j] = "running", j \notin missed \cup lost, j # i
                PROVE  \E r \in Process : j \in lanes'[r]
    BY <1>1 DEF RunningIsRun, Up
  <2>1. PICK r \in Process : j \in lanes[r]
    BY DEF QueueInv, RunningIsRun
  <2>2. j \in lanes'[r]
    BY <1>2, <2>1
  <2>. QED
    BY <2>2
<1>. QED
  BY <1>3, <1>4, <1>5, <1>6, <1>7 DEF QueueInv

\* A lane looks at its row, and starts on it or lets it be.
LEMMA BeginInv ==
  ASSUME QueueInv, NEW p \in Process, NEW i \in Row, Begin(p, i)
  PROVE  QueueInv'
<1>1. /\ i \in lanes[p]
      /\ UNCHANGED <<rows, bundle, phase, ghosts>>
  BY DEF Begin
<1>2. phase' \in [Process -> {"down", "serving", "stopping", "stopped"}]
  BY <1>1 DEF QueueInv, TypeOK
<1>3. CASE /\ status[i] = "running" /\ ~NothingToApply(i)
           /\ begun' = [begun EXCEPT ![p] = @ \cup {i}]
           /\ UNCHANGED lanes
  <2>1. /\ lanes' \in [Process -> SUBSET Row]
        /\ begun' \in [Process -> SUBSET Row]
    BY <1>3 DEF QueueInv, TypeOK
  <2>2. LanesOfUp'
    BY <1>1, <1>3 DEF QueueInv, TypeOK, LanesOfUp, Up, rows
  <2>. QED
    BY <1>1, <1>2, <1>3, <2>1, <2>2, MemoryInv DEF Up
<1>4. CASE status[i] # "running" /\ LaneEnds(p, i)
  <2>1. /\ lanes' \in [Process -> SUBSET Row]
        /\ begun' \in [Process -> SUBSET Row]
        /\ lanes'[p] = lanes[p] \ {i}
        /\ begun'[p] = begun[p] \ {i}
        /\ \A q \in Process \ {p} : lanes'[q] = lanes[q] /\ begun'[q] = begun[q]
    BY <1>4, LaneEndsEffect
  <2>2. LanesOfUp'
    BY <1>1, <2>1 DEF QueueInv, LanesOfUp, Up, rows
  <2>3. \A q \in Process : lanes'[q] \subseteq lanes[q] /\ (Up(q)' => Up(q))
    BY <1>1, <2>1 DEF Up
  <2>4. \A q \in Process : \A j \in lanes[q] : j \in lanes'[q] \/ status[j] # "running"
    BY <1>4, <2>1
  <2>. QED
    BY <1>1, <1>2, <2>1, <2>2, <2>3, <2>4, MemoryInv
<1>. QED
  BY <1>3, <1>4 DEF Begin

\* A process is told to stop, stops dispatching, ends or crashes.
LEMMA PhaseInv ==
  ASSUME QueueInv, NEW p \in Process,
         StopCalled(p) \/ DispatcherEnds(p) \/ Exit(p) \/ Crash(p)
  PROVE  QueueInv'
<1>1. UNCHANGED <<rows, bundle, ghosts>>
  BY DEF StopCalled, DispatcherEnds, Exit, Crash
<1>2. /\ phase' \in [Process -> {"down", "serving", "stopping", "stopped"}]
      /\ lanes' \in [Process -> SUBSET Row]
      /\ begun' \in [Process -> SUBSET Row]
  BY DEF QueueInv, TypeOK, StopCalled, DispatcherEnds, Exit, Crash
<1>3. \A q \in Process \ {p} :
        phase'[q] = phase[q] /\ lanes'[q] = lanes[q] /\ begun'[q] = begun[q]
  BY DEF QueueInv, TypeOK, StopCalled, DispatcherEnds, Exit, Crash
<1>4. CASE StopCalled(p) \/ DispatcherEnds(p)
  <2>1. Up(p) /\ Up(p)' /\ lanes'[p] = lanes[p] /\ begun'[p] = begun[p]
    BY <1>4 DEF QueueInv, TypeOK, StopCalled, DispatcherEnds, Up
  <2>2. LanesOfUp'
    BY <1>1, <1>3, <2>1 DEF QueueInv, LanesOfUp, Up, rows
  <2>3. \A q \in Process : lanes'[q] = lanes[q] /\ (Up(q)' => Up(q))
    BY <1>3, <2>1 DEF Up
  <2>. QED
    BY <1>1, <1>2, <2>2, <2>3, MemoryInv
<1>5. CASE Exit(p) \/ Crash(p)
  <2>1. ~Up(p)' /\ lanes'[p] = {} /\ begun'[p] = {}
    BY <1>5 DEF QueueInv, TypeOK, LanesOfUp, Exit, Crash, Up
  <2>2. LanesOfUp'
    BY <1>1, <1>3, <2>1 DEF QueueInv, LanesOfUp, Up, rows
  <2>3. \A q \in Process : lanes'[q] \subseteq lanes[q] /\ (Up(q)' => Up(q))
    BY <1>3, <2>1 DEF Up
  <2>4. \A q \in Process : \A i \in lanes[q] : i \in lanes'[q] \/ ~Up(q)'
    BY <1>3, <2>1
  <2>. QED
    BY <1>1, <1>2, <2>2, <2>3, <2>4, MemoryInv
<1>. QED
  BY <1>4, <1>5

-----------------------------------------------------------------------------
(* The theorems                                                            *)

LEMMA QueueInit == Init => QueueInv
<1> SUFFICES ASSUME Init PROVE QueueInv
  OBVIOUS
<1>1. TypeOK
  <2>1. count \in 0..MaxRows
    BY AsksOK DEF Init
  <2>2. /\ ask \in [Row -> Ask \cup {NoAsk}]
        /\ status \in [Row -> TaskStatus]
        /\ bundle \in [Apply -> {"proposed", "accepted", "closed"}]
    BY DEF Init, TaskStatus
  <2>3. /\ phase \in [Process -> {"down", "serving", "stopping", "stopped"}]
        /\ lanes \in [Process -> SUBSET Row]
        /\ begun \in [Process -> SUBSET Row]
    BY DEF Init
  <2>4. overlapped \in BOOLEAN /\ missed \subseteq Row /\ lost \subseteq Row
    BY DEF Init
  <2>. QED
    BY <2>1, <2>2, <2>3, <2>4 DEF TypeOK
<1>2. RowsFilled /\ LanesOfUp /\ OnlyOneUp /\ LanesRunning /\ LanesApart
  BY DEF Init, RowsFilled, LanesOfUp, OnlyOneUp, LanesRunning, LanesApart, Up
<1>3. OneLiveRow /\ AcceptedIsNotForgotten /\ RunningIsRun
  BY DEF Init, OneLiveRow, AcceptedIsNotForgotten, RunningIsRun, LIVE
<1>. QED
  BY <1>1, <1>2, <1>3 DEF QueueInv

LEMMA QueueStep == QueueInv /\ [Next]_vars => QueueInv'
<1> SUFFICES ASSUME QueueInv, [Next]_vars PROVE QueueInv'
  OBVIOUS
<1>0. /\ bundle \in [Apply -> {"proposed", "accepted", "closed"}]
      /\ Apply \subseteq Ask
  BY AsksOK DEF QueueInv, TypeOK
<1>1. ASSUME NEW a \in Ask, Request(a)
      PROVE  QueueInv'
  BY <1>0, <1>1, EnqueueInv DEF Request
<1>2. ASSUME NEW a \in Apply, AcceptBundle(a)
      PROVE  QueueInv'
  <2>1. /\ bundle' \in [Apply -> {"proposed", "accepted", "closed"}]
        /\ \A b \in Apply : bundle'[b] = "accepted" => bundle[b] = "accepted" \/ b = a
    BY <1>0, <1>2 DEF AcceptBundle
  <2>. QED
    BY <1>0, <1>2, <2>1, EnqueueInv DEF AcceptBundle
<1>3. ASSUME NEW a \in Apply, CloseBundle(a)
      PROVE  QueueInv'
  <2>. USE DEF rows, ghosts
  <2>1. /\ UNCHANGED <<rows, phase, lanes, begun, ghosts>>
        /\ bundle' \in [Apply -> {"proposed", "accepted", "closed"}]
        /\ \A b \in Apply : bundle'[b] = "accepted" => bundle[b] = "accepted"
    BY <1>0, <1>3 DEF CloseBundle
  <2>2. TypeOK' /\ RowsFilled' /\ LanesOfUp' /\ OnlyOneUp'
    BY <2>1 DEF QueueInv, TypeOK, RowsFilled, LanesOfUp, OnlyOneUp, Up
  <2>3. LanesRunning' /\ LanesApart' /\ OneLiveRow' /\ RunningIsRun'
    BY <2>1 DEF QueueInv, LanesRunning, LanesApart, OneLiveRow, RunningIsRun, Up
  <2>4. AcceptedIsNotForgotten'
    BY <2>1 DEF QueueInv, AcceptedIsNotForgotten
  <2>. QED
    BY <2>2, <2>3, <2>4 DEF QueueInv
<1>4. ASSUME NEW i \in Row, Retry(i)
      PROVE  QueueInv'
  <2>1. ask[i] \in Ask
    BY <1>4 DEF Retry, QueueInv, RowsFilled
  <2>. QED
    BY <1>0, <1>4, <2>1, EnqueueInv DEF Retry
<1>5. ASSUME NEW p \in Process, Start(p)
      PROVE  QueueInv'
  BY <1>5, StartInv
<1>6. ASSUME NEW p \in Process, StopCalled(p) \/ DispatcherEnds(p) \/ Exit(p) \/ Crash(p)
      PROVE  QueueInv'
  BY <1>6, PhaseInv
<1>7. ASSUME NEW p \in Process, NEW i \in Row, Claim(p, i)
      PROVE  QueueInv'
  BY <1>7, ClaimInv
<1>8. ASSUME NEW p \in Process, NEW i \in Row, Begin(p, i)
      PROVE  QueueInv'
  BY <1>8, BeginInv
<1>9. ASSUME NEW p \in Process, NEW i \in Row, Done(p, i)
      PROVE  QueueInv'
  <2>1. /\ bundle' \in [Apply -> {"proposed", "accepted", "closed"}]
        /\ \A b \in Apply : bundle'[b] = "accepted" => bundle[b] = "accepted"
        /\ ask[i] \in Apply => bundle'[ask[i]] # "accepted"
    BY <1>0, <1>9 DEF Done
  <2>. QED
    BY <1>9, <2>1, FinishInv DEF Done
<1>10. ASSUME NEW p \in Process, NEW i \in Row, Fail(p, i)
       PROVE  QueueInv'
  BY <1>0, <1>10, FinishInv DEF Fail
<1>11. ASSUME NEW p \in Process, NEW i \in Row, Interrupt(p, i)
       PROVE  QueueInv'
  BY <1>0, <1>11, FinishInv DEF Interrupt
<1>12. ASSUME NEW p \in Process, NEW i \in Row, Lose(p, i)
       PROVE  QueueInv'
  BY <1>12, LoseInv
<1>13. CASE UNCHANGED vars
  <2>. USE DEF vars, rows, ghosts
  <2>1. TypeOK' /\ RowsFilled' /\ LanesOfUp' /\ OnlyOneUp'
    BY <1>13 DEF QueueInv, TypeOK, RowsFilled, LanesOfUp, OnlyOneUp, Up
  <2>2. LanesRunning' /\ LanesApart' /\ OneLiveRow' /\ RunningIsRun'
    BY <1>13 DEF QueueInv, LanesRunning, LanesApart, OneLiveRow, RunningIsRun, Up
  <2>3. AcceptedIsNotForgotten'
    BY <1>13 DEF QueueInv, AcceptedIsNotForgotten
  <2>. QED
    BY <2>1, <2>2, <2>3 DEF QueueInv
<1>. QED
  BY <1>1, <1>2, <1>3, <1>4, <1>5, <1>6, <1>7, <1>8, <1>9, <1>10, <1>11, <1>12, <1>13
  DEF Next, People, Serving, Dispatcher, Lane, End

\* The invariant that ties the lanes in memory to the rows in the database.
THEOREM QueueInvariant == Spec => []QueueInv
BY QueueInit, QueueStep, PTL DEF Spec

\* No ask is in flight twice while one process serves: coalescing, retry,
\* rescue and requeue all look before they add (tasks.enqueue).
THEOREM AskedOnce == Spec => []OneLiveRow
<1>1. QueueInv => OneLiveRow
  BY DEF QueueInv
<1>. QED
  BY <1>1, QueueInvariant, PTL

\* A mailbox is worked on by one lane at a time (TaskRunner._one_pass).
THEOREM MailboxHasOneLane == Spec => []OneLanePerAccount
<1>1. QueueInv => OneLanePerAccount
  <2>. SUFFICES ASSUME QueueInv, ~overlapped, NEW x \in Working, NEW y \in Working
                PROVE  /\ status[x[2]] = "running"
                       /\ AccountOf[ask[x[2]]] = AccountOf[ask[y[2]]] => x = y
    BY DEF OneLanePerAccount
  <2>1. /\ x \in Process \X Row /\ x[2] \in lanes[x[1]]
        /\ y \in Process \X Row /\ y[2] \in lanes[y[1]]
    BY DEF Working
  <2>2. status[x[2]] = "running"
    BY <2>1 DEF QueueInv, LanesRunning
  <2>3. x[1] = y[1]
    BY <2>1 DEF QueueInv, LanesOfUp, OnlyOneUp
  <2>4. AccountOf[ask[x[2]]] = AccountOf[ask[y[2]]] => x[2] = y[2]
    BY <2>1, <2>3 DEF QueueInv, LanesApart
  <2>. QED
    BY <2>1, <2>2, <2>3, <2>4
<1>. QED
  BY <1>1, QueueInvariant, PTL

\* An accepted bundle has a row that will apply it, or a failed one to retry,
\* through any crashes and with any number of processes (rescue, retry).
THEOREM AcceptanceIsRemembered == Spec => []AcceptedIsNotForgotten
<1>1. QueueInv => AcceptedIsNotForgotten
  BY DEF QueueInv
<1>. QED
  BY <1>1, QueueInvariant, PTL

\* A running row of a process that serves alone has its lane, or was left by
\* a recovery or a record that failed (worker.execute, requeue_interrupted).
THEOREM RunningHasItsLane == Spec => []RunningIsRun
<1>1. QueueInv => RunningIsRun
  BY DEF QueueInv
<1>. QED
  BY <1>1, QueueInvariant, PTL

\* Every value keeps its type.
THEOREM TypeCorrect == Spec => []TypeOK
<1>1. QueueInv => TypeOK
  BY DEF QueueInv
<1>. QED
  BY <1>1, QueueInvariant, PTL

=============================================================================
