------------------------- MODULE Retention_proofs -------------------------
(***************************************************************************)
(* What TLAPS proves of Retention, for any number of processes, tables and *)
(* rows, any database and any batch size; and of CostHistory, for one      *)
(* process.                                                                *)
(***************************************************************************)
EXTENDS CostHistory, FiniteSetTheorems, TLAPS

Running(w) == run[w].pc # "asleep"

Holding(w) == run[w].pc \in {"upload", "purge"}

\* A table is finite, no two of its rows have one id, and none is of the future.
GoodTable(S, n) ==
    /\ IsFiniteSet(S)
    /\ \A r \in S : r.id <= n /\ r.serial <= n
    /\ \A r, s \in S : r.id = s.id => r = s

\* What a run knows of its batch between the read and the delete: a row of
\* the table that has the id of a batch row and was there to be read is that
\* batch row.
GoodBatch(w) ==
    /\ IsFiniteSet(run[w].batch)
    /\ run[w].batch # {}
    /\ \A r \in run[w].batch : r.at < run[w].cutoff
    /\ run[w].seen <= count
    /\ \A r \in rows[run[w].table] :
         r.id \in Ids(run[w].batch) /\ r.serial <= run[w].seen => r \in run[w].batch

GoodRun(w) ==
    /\ Running(w) => run[w].cutoff <= clock - HotPeriod
    /\ Holding(w) => GoodBatch(w)

Inv ==
    /\ TypeOK
    /\ \A t \in Table : GoodTable(rows[t], count)
    /\ \A w \in Worker : GoodRun(w)
    /\ SeenHotKept

-----------------------------------------------------------------------------
LEMMA InitInv == Init => Inv
<1> SUFFICES ASSUME Init PROVE Inv
  OBVIOUS
<1>1. 0 \in Time /\ 1 \in Table /\ 0 \in 0..MaxRows /\ 0 \in (0 - HotPeriod)..MaxClock
  BY RetentionBounds DEF Time, Table
<1>2. TypeOK
  BY <1>1, RetentionBounds DEF Init, TypeOK, Run, Asleep, Time
<1>3. \A t \in Table : GoodTable(rows[t], count)
  BY FS_EmptySet DEF Init, GoodTable
<1>4. \A w \in Worker : GoodRun(w)
  BY DEF Init, GoodRun, Running, Holding, Asleep
<1>5. SeenHotKept
  BY DEF Init, SeenHotKept
<1> QED BY <1>2, <1>3, <1>4, <1>5 DEF Inv

\* A transaction keeps the invariant that leaves a good table behind and
\* writes rows only with serials of its own.
LEMMA TransactionKeepsInv ==
    ASSUME Inv, NEW t \in Table, NEW S \in SUBSET Row,
           rows' = [rows EXCEPT ![t] = S],
           count' \in 0..MaxRows, count <= count',
           GoodTable(S, count'),
           \A r \in S : r \in rows[t] \/ r.serial > count,
           UNCHANGED <<clock, archive, run, purged>>
    PROVE  Inv'
<1>1. TypeOK'
  BY DEF Inv, TypeOK
<1>2. count \in Nat /\ count' \in Nat
  BY RetentionBounds DEF Inv, TypeOK
<1>3. ASSUME NEW u \in Table PROVE GoodTable(rows'[u], count')
  <2>1. CASE u = t
    <3>1. rows'[u] = S
      BY <2>1 DEF Inv, TypeOK
    <3> QED BY <3>1 DEF GoodTable
  <2>2. CASE u # t
    <3>1. rows'[u] = rows[u] /\ rows[u] \in SUBSET Row
      BY <2>2 DEF Inv, TypeOK
    <3>2. \A r \in Row : r.id \in Nat /\ r.serial \in Nat
      BY RetentionBounds DEF Row
    <3>3. GoodTable(rows[u], count)
      BY DEF Inv
    <3> QED BY <3>1, <3>2, <3>3, <1>2 DEF GoodTable
  <2> QED BY <2>1, <2>2
<1>4. ASSUME NEW w \in Worker PROVE GoodRun(w)'
  <2>1. run' = run /\ clock' = clock /\ GoodRun(w) /\ run[w] \in Run
    BY DEF Inv, TypeOK
  <2>2. SUFFICES ASSUME Holding(w), GoodBatch(w) PROVE GoodBatch(w)'
    BY <2>1 DEF GoodRun, Running, Holding
  <2>3. run[w].seen \in Nat /\ run[w].table \in Table
    BY <2>1, RetentionBounds DEF Run
  <2>4. ASSUME NEW r \in rows'[run[w].table],
               r.id \in Ids(run[w].batch), r.serial <= run[w].seen
        PROVE  r \in rows[run[w].table]
    <3>1. CASE run[w].table # t
      BY <3>1, <2>3 DEF Inv, TypeOK
    <3>2. CASE run[w].table = t
      <4>1. r \in S
        BY <3>2, <2>3 DEF Inv, TypeOK
      <4>2. r.serial \in Nat
        BY <4>1, RetentionBounds DEF Row
      <4>3. ~(r.serial > count)
        BY <4>2, <2>3, <2>4, <2>2, <1>2 DEF GoodBatch
      <4> QED BY <4>1, <4>3, <3>2
    <3> QED BY <3>1, <3>2
  <2> QED BY <2>1, <2>2, <2>3, <2>4, <1>2 DEF GoodBatch, Ids
<1>5. SeenHotKept'
  BY DEF Inv, SeenHotKept
<1> QED BY <1>1, <1>3, <1>4, <1>5 DEF Inv

LEMMA NewRowsFinite ==
    ASSUME NEW first \in Nat, NEW n \in Nat
    PROVE  IsFiniteSet(NewRows(first, n))
<1> DEFINE f == [i \in 0..(n - 1) |->
                   [id |-> first + i, at |-> clock, serial |-> count + 1 + i]]
<1>1. f \in Surjection(0..(n - 1), NewRows(first, n))
  BY DEF Surjection, NewRows
<1>2. IsFiniteSet(0..(n - 1))
  BY FS_Interval
<1> QED BY <1>1, <1>2, FS_Surjection

\* The first id of new rows follows every id of the rows that stay.
LEMMA FirstIdsFollow ==
    ASSUME Inv, NEW t \in Table, NEW S \in SUBSET rows[t], NEW first \in FirstIds(S)
    PROVE  first \in 1..(count + 1) /\ \A r \in S : r.id < first
<1>1. count \in Nat /\ \A r \in S : r.id \in Nat /\ r.id <= count
  BY RetentionBounds DEF Inv, TypeOK, GoodTable, Row
<1> QED BY <1>1 DEF FirstIds, Ids

LEMMA WriteInv ==
    ASSUME Inv, NEW t \in Table, NEW gone \in SUBSET rows[t], NEW n \in 1..MaxRows,
           Write(t, gone, n)
    PROVE  Inv'
<1>1. count \in Nat /\ n \in Nat \ {0} /\ count + n <= MaxRows /\ count' = count + n
      /\ MaxRows \in Nat /\ clock \in Time
  BY RetentionBounds DEF Write, Inv, TypeOK
<1>2. PICK first \in FirstIds(rows[t] \ gone) :
        rows' = [rows EXCEPT ![t] = (@ \ gone) \cup NewRows(first, n)]
  BY DEF Write
<1> DEFINE left == rows[t] \ gone
           S == left \cup NewRows(first, n)
<1>3. first \in 1..(count + 1) /\ \A r \in left : r.id < first
  BY <1>2, FirstIdsFollow
<1>4. \A r \in NewRows(first, n) :
         /\ r \in Row
         /\ r.id >= first /\ r.id <= count'
         /\ r.serial > count /\ r.serial <= count'
  BY <1>1, <1>3 DEF NewRows, Row
<1>5. \A r, s \in NewRows(first, n) : r.id = s.id => r = s
  BY <1>1, <1>3 DEF NewRows
<1>6. left \in SUBSET Row /\ GoodTable(rows[t], count)
  BY DEF Inv, TypeOK
<1>7. \A r \in Row : r.id \in Nat /\ r.serial \in Nat
  BY RetentionBounds DEF Row
<1>8. IsFiniteSet(S)
  <2>1. IsFiniteSet(left)
    BY <1>6, FS_Subset DEF GoodTable
  <2>2. IsFiniteSet(NewRows(first, n))
    BY <1>1, <1>3, NewRowsFinite
  <2> QED BY <2>1, <2>2, FS_Union
<1>9. \A r \in S : r.id <= count' /\ r.serial <= count'
  BY <1>1, <1>4, <1>6, <1>7 DEF GoodTable
<1>10. \A r, s \in S : r.id = s.id => r = s
  <2> SUFFICES ASSUME NEW r \in S, NEW s \in S, r.id = s.id PROVE r = s
    OBVIOUS
  <2>1. CASE r \in left /\ s \in left
    BY <2>1, <1>6 DEF GoodTable
  <2>2. CASE r \in NewRows(first, n) /\ s \in NewRows(first, n)
    BY <2>2, <1>5
  <2>3. ASSUME NEW a \in left, NEW b \in NewRows(first, n), a.id = b.id PROVE FALSE
    <3>1. a.id \in Nat /\ b.id \in Nat /\ a.id < first /\ b.id >= first /\ first \in Nat
      BY <1>3, <1>4, <1>6, <1>7, <1>1
    <3> QED BY <3>1, <2>3
  <2> QED BY <2>1, <2>2, <2>3
<1>11. GoodTable(S, count')
  BY <1>8, <1>9, <1>10 DEF GoodTable
<1>12. S \in SUBSET Row /\ \A r \in S : r \in rows[t] \/ r.serial > count
  BY <1>4, <1>6
<1>13. rows' = [rows EXCEPT ![t] = S]
  BY <1>2 DEF Inv, TypeOK
<1>14. count' \in 0..MaxRows /\ count <= count'
  BY <1>1
<1>15. UNCHANGED <<clock, archive, run, purged>>
  BY DEF Write
<1> QED BY <1>11, <1>12, <1>13, <1>14, <1>15, TransactionKeepsInv

LEMMA RefreshInv ==
    ASSUME Inv, NEW t \in Table, Refresh(t)
    PROVE  Inv'
<1>1. count \in Nat /\ MaxRows \in Nat /\ count < MaxRows /\ count' = count + 1
      /\ clock \in Time
  BY RetentionBounds DEF Refresh, Inv, TypeOK
<1>2. PICK P \in SUBSET rows[t] : rows' = [rows EXCEPT ![t] = (@ \ P) \cup {Anew(r) : r \in P}]
  BY DEF Refresh
<1> DEFINE left == rows[t] \ P
           new == {Anew(r) : r \in P}
           S == left \cup new
<1>3. rows[t] \in SUBSET Row /\ GoodTable(rows[t], count)
  BY DEF Inv, TypeOK
<1>4. \A r \in P : Anew(r) \in Row /\ Anew(r).id = r.id /\ Anew(r).serial = count + 1
  BY <1>1, <1>3 DEF Anew, Row
<1>5. \A r \in Row : r.id \in Nat /\ r.serial \in Nat
  BY RetentionBounds DEF Row
<1>6. IsFiniteSet(S)
  <2>1. IsFiniteSet(left) /\ IsFiniteSet(P)
    BY <1>3, FS_Subset DEF GoodTable
  <2> DEFINE f == [r \in P |-> Anew(r)]
  <2>2. f \in Surjection(P, new)
    BY DEF Surjection
  <2>3. IsFiniteSet(new)
    BY <2>1, <2>2, FS_Surjection
  <2> QED BY <2>1, <2>3, FS_Union
<1>7. \A r \in S : r.id <= count' /\ r.serial <= count'
  <2>1. \A r \in rows[t] : r.id <= count /\ r.serial <= count
    BY <1>3 DEF GoodTable
  <2>2. \A r \in left : r.id <= count' /\ r.serial <= count'
    BY <2>1, <1>1, <1>3, <1>5
  <2>3. \A r \in P : Anew(r).id <= count' /\ Anew(r).serial <= count'
    BY <2>1, <1>1, <1>3, <1>4, <1>5
  <2> QED BY <2>2, <2>3
<1>8. \A r, s \in S : r.id = s.id => r = s
  <2>1. \A r, s \in rows[t] : r.id = s.id => r = s
    BY <1>3 DEF GoodTable
  <2>2. \A r, s \in P : Anew(r).id = Anew(s).id => Anew(r) = Anew(s)
    BY <2>1, <1>4
  <2>3. \A r \in left, s \in P : r.id # Anew(s).id
    BY <2>1, <1>4
  <2> QED BY <2>1, <2>2, <2>3
<1>9. GoodTable(S, count')
  BY <1>6, <1>7, <1>8 DEF GoodTable
<1>10. S \in SUBSET Row /\ \A r \in S : r \in rows[t] \/ r.serial > count
  BY <1>1, <1>3, <1>4
<1>11. rows' = [rows EXCEPT ![t] = S]
  BY <1>2 DEF Inv, TypeOK
<1>12. count' \in 0..MaxRows /\ count <= count'
  BY <1>1
<1>13. UNCHANGED <<clock, archive, run, purged>>
  BY DEF Refresh
<1> QED BY <1>9, <1>10, <1>11, <1>12, <1>13, TransactionKeepsInv

-----------------------------------------------------------------------------
LEMMA Types ==
    ASSUME TypeOK
    PROVE  /\ clock \in Nat /\ count \in Nat /\ MaxRows \in Nat /\ MaxClock \in Nat
           /\ HotPeriod \in Nat
           /\ \A w \in Worker :
                /\ run[w] \in Run
                /\ run[w].table \in Table /\ run[w].stamp \in Time
                /\ run[w].stamp \in Nat /\ run[w].total \in Nat /\ run[w].table \in Nat
                /\ run[w].cutoff \in Int /\ run[w].seen \in Nat /\ run[w].next \in Nat
                /\ run[w].batch \in SUBSET Row /\ rows[run[w].table] \in SUBSET Row
           /\ \A r \in Row : r.id \in Nat /\ r.at \in Nat /\ r.serial \in Nat
<1>1. clock \in Nat /\ count \in Nat /\ MaxRows \in Nat /\ MaxClock \in Nat /\ HotPeriod \in Nat
  BY RetentionBounds DEF TypeOK, Time
<1>2. \A r \in Row : r.id \in Nat /\ r.at \in Nat /\ r.serial \in Nat
  BY RetentionBounds DEF Row, Time
<1>3. ASSUME NEW w \in Worker
      PROVE  /\ run[w] \in Run
             /\ run[w].table \in Table /\ run[w].stamp \in Time
             /\ run[w].stamp \in Nat /\ run[w].total \in Nat /\ run[w].table \in Nat
             /\ run[w].cutoff \in Int /\ run[w].seen \in Nat /\ run[w].next \in Nat
             /\ run[w].batch \in SUBSET Row /\ rows[run[w].table] \in SUBSET Row
  <2>1. run[w] \in Run
    BY DEF TypeOK
  <2>2. /\ run[w].table \in Table /\ run[w].stamp \in Time /\ run[w].total \in Nat
        /\ run[w].cutoff \in (0 - HotPeriod)..MaxClock /\ run[w].seen \in 0..MaxRows
        /\ run[w].next \in 0..(MaxClock + 1) /\ run[w].batch \in SUBSET Row
    BY <2>1 DEF Run
  <2>3. run[w].table \in Nat /\ run[w].stamp \in Nat
    BY <2>2, RetentionBounds DEF Table, Time
  <2>4. run[w].cutoff \in Int /\ run[w].seen \in Nat /\ run[w].next \in Nat
    BY <1>1, <2>2
  <2>5. rows[run[w].table] \in SUBSET Row
    BY <2>2 DEF TypeOK
  <2> QED BY <2>1, <2>2, <2>3, <2>4, <2>5
<1> QED BY <1>1, <1>2, <1>3

LEMMA AsleepType == ASSUME NEW n \in 0..(MaxClock + 1) PROVE Asleep(n) \in Run
<1>1. 1 \in Table /\ 0 \in Time /\ 0 \in 0..MaxRows /\ 0 \in (0 - HotPeriod)..MaxClock
  BY RetentionBounds DEF Table, Time
<1> QED BY <1>1 DEF Asleep, Run

\* A step of a run that changes no table keeps the invariant if it leaves a
\* good run behind.
LEMMA RunStepKeepsInv ==
    ASSUME Inv, NEW w \in Worker, NEW new \in Run,
           run' = [run EXCEPT ![w] = new],
           archive' \in SUBSET [name : Name, rows : SUBSET Row],
           UNCHANGED <<clock, rows, count, purged>>,
           GoodRun(w)'
    PROVE  Inv'
<1>1. TypeOK'
  BY DEF Inv, TypeOK
<1>2. \A v \in Worker : GoodRun(v)'
  <2> SUFFICES ASSUME NEW v \in Worker, v # w PROVE GoodRun(v)'
    OBVIOUS
  <2>1. run'[v] = run[v]
    BY DEF Inv, TypeOK
  <2> QED BY <2>1 DEF Inv, GoodRun, GoodBatch, Running, Holding, Ids
<1>3. SeenHotKept' /\ \A t \in Table : GoodTable(rows'[t], count')
  BY DEF Inv, SeenHotKept
<1> QED BY <1>1, <1>2, <1>3 DEF Inv

LEMMA BeginInv == ASSUME Inv, NEW w \in Worker, Begin(w) PROVE Inv'
<1> DEFINE new == [run[w] EXCEPT !.pc = "query", !.cutoff = clock - HotPeriod, !.stamp = clock]
<1>1. TypeOK
  BY DEF Inv
<1>2. new \in Run
  <2>1. clock - HotPeriod \in (0 - HotPeriod)..MaxClock
    BY <1>1, RetentionBounds DEF TypeOK, Time
  <2> QED BY <1>1, <2>1 DEF TypeOK, Run
<1>3. run' = [run EXCEPT ![w] = new]
  BY DEF Begin
<1>4. run'[w] = new /\ run[w] \in Run
  BY <1>1, <1>3 DEF TypeOK
<1>5. run'[w].pc = "query" /\ run'[w].cutoff = clock - HotPeriod
  BY <1>4 DEF Run
<1>6. GoodRun(w)'
  <2>1. clock - HotPeriod <= clock - HotPeriod
    BY <1>1, Types
  <2> QED BY <1>5, <2>1 DEF Begin, GoodRun, Holding
<1> QED BY <1>1, <1>2, <1>3, <1>6, RunStepKeepsInv DEF Begin, TypeOK

LEMMA QueryInv == ASSUME Inv, NEW w \in Worker, Query(w) PROVE Inv'
<1>1. TypeOK
  BY DEF Inv
<1>2. PICK batch \in (SUBSET Cold(w)) \ {{}} :
        run' = [run EXCEPT ![w].batch = batch, ![w].seen = count, ![w].pc = "upload"]
  BY DEF Query
<1> DEFINE new == [run[w] EXCEPT !.batch = batch, !.seen = count, !.pc = "upload"]
<1>3. run[w] \in Run /\ run[w].table \in Table /\ batch \in SUBSET Row
  BY <1>1, Types DEF Cold
<1>4. new \in Run
  BY <1>1, <1>3 DEF TypeOK, Run
<1>5. run' = [run EXCEPT ![w] = new]
  BY <1>1, <1>2, <1>3 DEF TypeOK, Run
<1>6. run'[w] = new
  BY <1>1, <1>5 DEF TypeOK
<1>7. /\ run'[w].pc = "upload" /\ run'[w].batch = batch /\ run'[w].seen = count
      /\ run'[w].table = run[w].table /\ run'[w].cutoff = run[w].cutoff
  BY <1>3, <1>6 DEF Run
<1>8. GoodTable(rows[run[w].table], count)
  BY <1>3 DEF Inv
<1>9. IsFiniteSet(batch) /\ batch # {} /\ \A r \in batch : r.at < run[w].cutoff
  <2>1. batch \in SUBSET rows[run[w].table] /\ batch # {}
    <3>1. batch \in SUBSET Cold(w) /\ batch # {}
      OBVIOUS
    <3>2. Cold(w) \subseteq rows[run[w].table]
      BY DEF Cold
    <3> QED BY <3>1, <3>2
  <2>2. IsFiniteSet(batch)
    BY <1>8, <2>1, FS_Subset DEF GoodTable
  <2> QED BY <2>1, <2>2 DEF Cold
<1>10. \A r \in rows[run[w].table] : r.id \in Ids(batch) => r \in batch
  BY <1>8 DEF GoodTable, Ids, Cold
<1>11. run[w].cutoff <= clock - HotPeriod
  BY DEF Inv, GoodRun, Running, Query
<1>12. UNCHANGED <<clock, rows, count, archive, purged>>
  BY DEF Query
<1>13. count <= count
  BY <1>1, Types
<1>14. GoodRun(w)'
  BY <1>7, <1>9, <1>10, <1>11, <1>12, <1>13 DEF GoodRun, GoodBatch, Ids
<1> QED BY <1>1, <1>4, <1>5, <1>12, <1>14, RunStepKeepsInv DEF TypeOK

LEMMA TurnToTableInv == ASSUME Inv, NEW w \in Worker, TurnToTable(w) PROVE Inv'
<1> DEFINE new == IF run[w].table < Tables
                  THEN [run[w] EXCEPT !.table = run[w].table + 1, !.stamp = clock, !.total = 0]
                  ELSE Asleep(clock + 1)
<1>1. TypeOK /\ run[w] \in Run /\ run[w].pc = "query"
  BY Types DEF Inv, TurnToTable
<1>2. new \in Run
  <2>1. CASE run[w].table < Tables
    <3>1. run[w].table + 1 \in Table /\ clock \in Time /\ 0 \in Nat
      BY <1>1, <2>1, RetentionBounds DEF TypeOK, Run, Table
    <3> QED BY <1>1, <2>1, <3>1 DEF Run
  <2>2. CASE ~(run[w].table < Tables)
    <3>1. clock + 1 \in 0..(MaxClock + 1)
      BY <1>1, RetentionBounds DEF TypeOK, Time
    <3> QED BY <2>2, <3>1, AsleepType
  <2> QED BY <2>1, <2>2
<1>3. run' = [run EXCEPT ![w] = new]
  BY DEF TurnToTable
<1>4. run'[w] = new
  BY <1>1, <1>3 DEF TypeOK
<1>5. run'[w].pc = "asleep" \/ (run'[w].pc = "query" /\ run'[w].cutoff = run[w].cutoff)
  BY <1>1, <1>4 DEF Run, Asleep
<1>6. run[w].cutoff <= clock - HotPeriod
  BY <1>1 DEF Inv, GoodRun, Running
<1>7. UNCHANGED <<clock, rows, count, archive, purged>>
  BY DEF TurnToTable
<1>8. GoodRun(w)'
  BY <1>5, <1>6, <1>7 DEF GoodRun, Running, Holding
<1> QED BY <1>1, <1>2, <1>3, <1>7, <1>8, RunStepKeepsInv DEF TypeOK

LEMMA UploadInv == ASSUME Inv, NEW w \in Worker, Upload(w) PROVE Inv'
<1> DEFINE new == [run[w] EXCEPT !.pc = "purge"]
<1>1. TypeOK /\ run[w] \in Run /\ run[w].pc = "upload"
  BY Types DEF Inv, Upload
<1>2. new \in Run
  BY <1>1 DEF Run
<1>3. run' = [run EXCEPT ![w] = new]
  BY DEF Upload
<1>4. run'[w] = new
  BY <1>1, <1>3 DEF TypeOK
<1>5. /\ run'[w].batch = run[w].batch /\ run'[w].seen = run[w].seen
      /\ run'[w].table = run[w].table /\ run'[w].cutoff = run[w].cutoff
  BY <1>1, <1>4 DEF Run
<1>6. UNCHANGED <<clock, rows, count, purged>>
  BY DEF Upload
<1>7. GoodRun(w) /\ Holding(w) /\ Running(w)
  BY <1>1 DEF Inv, Holding, Running
<1>8. GoodRun(w)'
  BY <1>5, <1>6, <1>7 DEF GoodRun, GoodBatch, Ids
<1>9. archive' \in SUBSET [name : Name, rows : SUBSET Row]
  <2>1. ObjectName(w) \in Name /\ run[w].batch \in SUBSET Row
    BY <1>1, Types DEF ObjectName, Name
  <2> QED BY <1>1, <2>1 DEF Upload, TypeOK
<1> QED BY <1>2, <1>3, <1>6, <1>8, <1>9, RunStepKeepsInv

LEMMA StopInv == ASSUME Inv, NEW w \in Worker, Stop(w) PROVE Inv'
<1>1. TypeOK
  BY DEF Inv
<1>2. Asleep(clock + 1) \in Run
  <2>1. clock + 1 \in 0..(MaxClock + 1)
    BY <1>1, RetentionBounds DEF TypeOK, Time
  <2> QED BY <2>1, AsleepType
<1>3. run'[w] = Asleep(clock + 1)
  BY <1>1 DEF Stop, TypeOK
<1>4. GoodRun(w)'
  BY <1>3 DEF GoodRun, Running, Holding, Asleep
<1> QED BY <1>1, <1>2, <1>4, RunStepKeepsInv DEF Stop, TypeOK

LEMMA PurgeInv == ASSUME Inv, NEW w \in Worker, Purge(w) PROVE Inv'
<1> DEFINE t == run[w].table
           left == rows[t] \ Matching(w)
           new == [run[w] EXCEPT !.pc = "query", !.total = Archived(w), !.batch = {}]
<1>1. TypeOK /\ run[w] \in Run /\ t \in Table /\ GoodRun(w) /\ run[w].pc = "purge"
  BY Types DEF Inv, Purge
<1>2. GoodBatch(w) /\ run[w].cutoff <= clock - HotPeriod
  BY <1>1 DEF GoodRun, Holding, Running
<1>3. Archived(w) \in Nat
  <2>1. Cardinality(run[w].batch) \in Nat
    BY <1>2, FS_CardinalityType DEF GoodBatch
  <2> QED BY <1>1, <2>1, Types DEF Archived
<1>4. new \in Run /\ new.pc = "query" /\ new.cutoff = run[w].cutoff
  BY <1>1, <1>3 DEF Run
<1>5. run' = [run EXCEPT ![w] = new] /\ run'[w] = new
  BY <1>1 DEF Purge, TypeOK
<1>6. rows' = [rows EXCEPT ![t] = left] /\ UNCHANGED <<clock, count, archive>>
  BY DEF Purge
<1>7. TypeOK'
  <2>1. \A r \in Matching(w) : r \in Row /\ (r.serial > run[w].seen) \in BOOLEAN
    BY <1>1, Types DEF Matching
  <2>2. purged' \in SUBSET [row : Row, when : Time, raced : BOOLEAN]
    <3> DEFINE Entry(r) == [row |-> r, when |-> clock, raced |-> r.serial > run[w].seen]
    <3>1. purged' = purged \cup {Entry(r) : r \in Matching(w)}
      BY DEF Purge
    <3>2. \A r \in Matching(w) : Entry(r) \in [row : Row, when : Time, raced : BOOLEAN]
      BY <1>1, <2>1 DEF TypeOK
    <3> QED BY <1>1, <3>1, <3>2 DEF TypeOK
  <2> QED BY <1>1, <1>4, <1>5, <1>6, <2>2 DEF TypeOK
<1>8. ASSUME NEW u \in Table
      PROVE  rows'[u] \in SUBSET rows[u] /\ GoodTable(rows'[u], count')
  <2>1. rows'[u] \in SUBSET rows[u] /\ GoodTable(rows[u], count)
    BY <1>1, <1>6 DEF Inv, TypeOK
  <2>2. IsFiniteSet(rows'[u])
    BY <2>1, FS_Subset DEF GoodTable
  <2> QED BY <2>1, <2>2, <1>6 DEF GoodTable
<1>9. ASSUME NEW v \in Worker PROVE GoodRun(v)'
  <2>1. CASE v = w
    BY <1>2, <1>4, <1>5, <1>6, <2>1 DEF GoodRun, Holding
  <2>2. CASE v # w
    <3>1. run'[v] = run[v] /\ run[v].table \in Table
      BY <1>1, <1>5, <2>2, Types DEF TypeOK
    <3>2. rows'[run[v].table] \in SUBSET rows[run[v].table]
      BY <3>1, <1>8
    <3> QED BY <3>1, <3>2, <1>6 DEF Inv, GoodRun, GoodBatch, Running, Holding, Ids
  <2> QED BY <2>1, <2>2
<1>10. SeenHotKept'
  <2> SUFFICES ASSUME NEW p \in purged', ~p.raced
               PROVE  p.row.at < p.when - HotPeriod
    BY DEF SeenHotKept
  <2>1. CASE p \in purged
    BY <2>1 DEF Inv, SeenHotKept
  <2>2. CASE p \notin purged
    <3>1. PICK r \in Matching(w) :
            p = [row |-> r, when |-> clock, raced |-> r.serial > run[w].seen]
      BY <2>2 DEF Purge
    <3>2. ~(r.serial > run[w].seen) /\ p.row = r /\ p.when = clock
      BY <3>1
    <3>3. r \in Row /\ r \in rows[t] /\ r.id \in Ids(run[w].batch)
      BY <1>1, Types DEF Matching
    <3>4. r.serial <= run[w].seen
      BY <1>1, <3>2, <3>3, Types
    <3>5. r.at < run[w].cutoff
      BY <1>2, <3>3, <3>4 DEF GoodBatch
    <3>6. r.at \in Nat /\ run[w].cutoff \in Int /\ clock \in Nat /\ HotPeriod \in Nat
      BY <1>1, <3>3, Types
    <3> QED BY <3>2, <3>5, <3>6, <1>2
  <2> QED BY <2>1, <2>2
<1> QED BY <1>7, <1>8, <1>9, <1>10 DEF Inv

LEMMA TickInv == ASSUME Inv, Tick PROVE Inv'
<1>1. TypeOK
  BY DEF Inv
<1>2. clock \in Nat /\ clock' = clock + 1 /\ UNCHANGED <<rows, count, archive, run, purged>>
      /\ HotPeriod \in Nat
  BY <1>1, Types DEF Tick
<1>3. TypeOK'
  <2>1. clock' \in Time
    BY <1>1, RetentionBounds DEF Tick, TypeOK, Time
  <2> QED BY <1>1, <1>2, <2>1 DEF TypeOK
<1>4. ASSUME NEW w \in Worker PROVE GoodRun(w)'
  <2>1. run[w].cutoff \in Int
    BY <1>1, Types
  <2>2. GoodRun(w)
    BY DEF Inv
  <2>3. Running(w) => run[w].cutoff <= clock' - HotPeriod
    BY <1>2, <2>1, <2>2 DEF GoodRun
  <2> QED BY <1>2, <2>2, <2>3 DEF GoodRun, GoodBatch, Running, Holding, Ids
<1>5. SeenHotKept' /\ \A t \in Table : GoodTable(rows'[t], count')
  BY <1>2 DEF Inv, SeenHotKept
<1> QED BY <1>3, <1>4, <1>5 DEF Inv

LEMMA ApplicationInv ==
    ASSUME Inv, NEW t \in Table, Insert(t) \/ Replace(t) \/ Refresh(t)
    PROVE  Inv'
<1>1. CASE Insert(t)
  <2>1. Write(t, {}, 1) /\ {} \in SUBSET rows[t]
    BY <1>1 DEF Insert
  <2>2. count \in Nat /\ MaxRows \in Nat /\ count + 1 <= MaxRows
    BY <2>1, Types DEF Write, Inv
  <2>3. 1 \in 1..MaxRows
    BY <2>2
  <2> QED BY <2>1, <2>3, WriteInv
<1>2. CASE Replace(t)
  <2>1. PICK gone \in SUBSET rows[t], n \in 1..MaxRows : Write(t, gone, n)
    BY <1>2 DEF Replace
  <2> QED BY <2>1, WriteInv
<1>3. CASE Refresh(t)
  BY <1>3, RefreshInv
<1> QED BY <1>1, <1>2, <1>3

LEMMA NextInv == Inv /\ [Next]_vars => Inv'
<1> SUFFICES ASSUME Inv, [Next]_vars PROVE Inv'
  OBVIOUS
<1>1. CASE UNCHANGED vars
  BY <1>1 DEF vars, Inv, TypeOK, GoodRun, GoodBatch, Running, Holding, SeenHotKept, Ids
<1>2. ASSUME NEW w \in Worker,
             Begin(w) \/ Query(w) \/ TurnToTable(w) \/ Upload(w) \/ Purge(w) \/ Stop(w)
      PROVE  Inv'
  BY <1>2, BeginInv, QueryInv, TurnToTableInv, UploadInv, PurgeInv, StopInv
<1>3. ASSUME NEW t \in Table, Insert(t) \/ Replace(t) \/ Refresh(t) PROVE Inv'
  BY <1>3, ApplicationInv
<1>4. Replaced \subseteq Table /\ Refreshed \subseteq Table
  BY RetentionBounds DEF Table
<1>5. CASE Tick
  BY <1>5, TickInv
<1> QED BY <1>1, <1>2, <1>3, <1>4, <1>5 DEF Next

\* The tables, objects and runs keep their ranges.
THEOREM RetentionTypeCorrect == Spec => []TypeOK
<1>1. Inv => TypeOK
  BY DEF Inv
<1> QED BY <1>1, InitInv, NextInv, PTL DEF Spec

\* With any number of processes and on any database, a row that a run has
\* read and deleted was older than hot_months; a younger one was written by a
\* transaction after the read.
THEOREM SeenHotHolds == Spec => []SeenHotKept
<1>1. Inv => SeenHotKept
  BY DEF Inv
<1> QED BY <1>1, InitInv, NextInv, PTL DEF Spec

-----------------------------------------------------------------------------
(* One process: no object is replaced, so what was read is kept.           *)

OneProcess == \A v, w \in Worker : v = w

Before(o, w) ==
    \/ o.name.stamp < run[w].stamp
    \/ o.name.table < run[w].table
    \/ o.name.table = run[w].table /\ o.name.total < run[w].total

Stored(w) == [name |-> ObjectName(w), rows |-> run[w].batch]

\* Every object has an earlier name than the one that the run is about to
\* store.
GoodNames(w) ==
    /\ run[w].stamp <= clock
    /\ ~Running(w) => \A o \in archive : o.name.stamp < run[w].next
    /\ run[w].pc \in {"query", "upload"} => \A o \in archive : Before(o, w)
    /\ run[w].pc = "purge" =>
         /\ Stored(w) \in archive
         /\ \A o \in archive : o.name = ObjectName(w) \/ Before(o, w)

NamesInv ==
    /\ OneProcess
    /\ Inv
    /\ \A o \in archive : o.name.stamp <= clock
    /\ \A w \in Worker : GoodNames(w)
    /\ ReadRowsKept

LEMMA InitNames == OneProcess /\ Init => NamesInv
<1> SUFFICES ASSUME OneProcess, Init PROVE NamesInv
  OBVIOUS
<1>1. Inv
  BY InitInv
<1>2. ASSUME NEW w \in Worker PROVE GoodNames(w)
  BY DEF Init, GoodNames, Running, Asleep
<1> QED BY <1>1, <1>2 DEF NamesInv, Init, ReadRowsKept

\* Steps that store and delete nothing.
LEMMA NamesKept ==
    ASSUME NamesInv, Inv', UNCHANGED <<archive, purged>>, clock <= clock',
           \A w \in Worker : GoodNames(w)'
    PROVE  NamesInv'
<1>1. clock \in Nat /\ clock' \in Nat /\ \A o \in archive : o.name.stamp \in Nat
  BY Types DEF NamesInv, Inv, TypeOK, Name, Time
<1>2. \A o \in archive' : o.name.stamp <= clock'
  BY <1>1 DEF NamesInv
<1>3. ReadRowsKept'
  BY DEF NamesInv, ReadRowsKept, InArchive
<1> QED BY <1>2, <1>3 DEF NamesInv, OneProcess

LEMMA RunNamesInv ==
    ASSUME NamesInv, NEW w \in Worker,
           Begin(w) \/ Query(w) \/ TurnToTable(w) \/ Stop(w)
    PROVE  NamesInv'
<1>1. Inv' /\ TypeOK
  BY BeginInv, QueryInv, TurnToTableInv, StopInv DEF NamesInv, Inv
<1>2. UNCHANGED <<clock, archive, purged>>
  BY DEF Begin, Query, TurnToTable, Stop
<1>3. /\ clock \in Nat /\ run[w] \in Run
      /\ run[w].table \in Nat /\ run[w].stamp \in Nat /\ run[w].next \in Nat
      /\ run[w].total \in Nat
  BY <1>1, Types
<1>4. \A o \in archive :
        /\ o.name.stamp \in Nat /\ o.name.table \in Nat /\ o.name.total \in Nat
        /\ o.name.stamp <= clock
  BY <1>1, RetentionBounds DEF NamesInv, TypeOK, Name, Time, Table
<1>5. GoodNames(w)
  BY DEF NamesInv
<1>6. GoodNames(w)'
  <2>1. CASE Begin(w)
    <3>1. /\ run'[w].pc = "query" /\ run'[w].stamp = clock
          /\ run'[w].table = run[w].table /\ run'[w].total = run[w].total
      BY <1>1, <1>3, <2>1 DEF Begin, TypeOK, Run
    <3>2. \A o \in archive : o.name.stamp < clock
      BY <1>3, <1>4, <1>5, <2>1 DEF Begin, GoodNames, Running
    <3> QED BY <1>2, <1>3, <3>1, <3>2 DEF GoodNames, Running, Before
  <2>2. CASE Query(w)
    <3>1. PICK batch \in (SUBSET Cold(w)) \ {{}} :
            run' = [run EXCEPT ![w].batch = batch, ![w].seen = count, ![w].pc = "upload"]
      BY <2>2 DEF Query
    <3>2. /\ run'[w].pc = "upload" /\ run'[w].stamp = run[w].stamp
          /\ run'[w].table = run[w].table /\ run'[w].total = run[w].total
      BY <1>1, <1>3, <3>1 DEF TypeOK, Run
    <3> QED BY <1>2, <1>5, <2>2, <3>2 DEF Query, GoodNames, Running, Before
  <2>3. CASE TurnToTable(w) /\ run[w].table < Tables
    <3>1. run' = [run EXCEPT ![w] =
                    [run[w] EXCEPT !.table = run[w].table + 1, !.stamp = clock, !.total = 0]]
      BY <2>3 DEF TurnToTable
    <3>2. /\ run'[w].pc = "query" /\ run'[w].stamp = clock
          /\ run'[w].table = run[w].table + 1 /\ run'[w].total = 0
      BY <1>1, <1>3, <2>3, <3>1 DEF TypeOK, Run, TurnToTable
    <3>3. \A o \in archive : Before(o, w)
      BY <1>5, <2>3 DEF TurnToTable, GoodNames
    <3>4. \A o \in archive : o.name.stamp < clock \/ o.name.table < run[w].table + 1
      BY <1>3, <1>4, <1>5, <3>3 DEF Before, GoodNames
    <3> QED BY <1>2, <1>3, <3>2, <3>4 DEF GoodNames, Running, Before
  <2>4. CASE Stop(w) \/ (TurnToTable(w) /\ ~(run[w].table < Tables))
    <3>1. run'[w] = Asleep(clock + 1)
      BY <1>1, <2>4 DEF Stop, TurnToTable, TypeOK
    <3>2. run'[w].pc = "asleep" /\ run'[w].stamp = 0 /\ run'[w].next = clock + 1
      BY <3>1 DEF Asleep
    <3> QED BY <1>2, <1>3, <1>4, <3>2 DEF GoodNames, Running
  <2> QED BY <2>1, <2>2, <2>3, <2>4
<1>7. \A v \in Worker : GoodNames(v)'
  BY <1>6 DEF NamesInv, OneProcess
<1>8. clock <= clock'
  BY <1>2, <1>3
<1> QED BY <1>1, <1>2, <1>7, <1>8, NamesKept

LEMMA UploadNamesInv ==
    ASSUME NamesInv, NEW w \in Worker, Upload(w)
    PROVE  NamesInv'
<1>1. Inv' /\ TypeOK /\ run[w].pc = "upload" /\ GoodNames(w)
  BY UploadInv DEF NamesInv, Inv, Upload
<1>2. /\ clock \in Nat /\ run[w] \in Run
      /\ run[w].table \in Nat /\ run[w].stamp \in Nat /\ run[w].total \in Nat
  BY <1>1, Types
<1>3. \A o \in archive : Before(o, w)
  BY <1>1 DEF GoodNames
<1>4. \A o \in archive : o.name # ObjectName(w)
  BY <1>2, <1>3 DEF Before, ObjectName
<1>5. archive' = archive \cup {Stored(w)}
  BY <1>4 DEF Upload, Stored
<1>6. /\ run'[w].pc = "purge" /\ run'[w].stamp = run[w].stamp
      /\ run'[w].table = run[w].table /\ run'[w].total = run[w].total
      /\ run'[w].batch = run[w].batch
  BY <1>1, <1>2 DEF Upload, TypeOK, Run
<1>7. Stored(w)' = Stored(w) /\ ObjectName(w)' = ObjectName(w)
  BY <1>6 DEF Stored, ObjectName
<1>8. clock' = clock /\ purged' = purged
  BY DEF Upload
<1>9. Stored(w).name = ObjectName(w) /\ Stored(w).name.stamp = run[w].stamp
  BY DEF Stored, ObjectName
<1>10. GoodNames(w)'
  <2>1. \A o \in archive' : o.name = ObjectName(w)' \/ Before(o, w)'
    BY <1>3, <1>5, <1>6, <1>7, <1>9 DEF Before
  <2> QED BY <1>1, <1>5, <1>6, <1>7, <1>8, <2>1 DEF GoodNames, Running
<1>11. \A v \in Worker : GoodNames(v)'
  BY <1>10 DEF NamesInv, OneProcess
<1>12. \A o \in archive' : o.name.stamp <= clock'
  BY <1>1, <1>5, <1>8, <1>9 DEF NamesInv, GoodNames
<1>13. ReadRowsKept'
  BY <1>5, <1>8 DEF NamesInv, ReadRowsKept, InArchive
<1> QED BY <1>1, <1>11, <1>12, <1>13 DEF NamesInv, OneProcess

LEMMA PurgeNamesInv ==
    ASSUME NamesInv, NEW w \in Worker, Purge(w)
    PROVE  NamesInv'
<1>1. /\ Inv' /\ TypeOK /\ run[w].pc = "purge" /\ GoodNames(w) /\ GoodRun(w)
      /\ run[w].table \in Table
  BY PurgeInv, Types DEF NamesInv, Inv, Purge
<1>2. /\ run[w] \in Run
      /\ run[w].table \in Nat /\ run[w].stamp \in Nat /\ run[w].total \in Nat
      /\ run[w].seen \in Nat
  BY <1>1, Types
<1>3. GoodBatch(w)
  BY <1>1 DEF GoodRun, Holding
<1>4. Archived(w) \in Nat /\ Archived(w) > run[w].total
  <2>1. Cardinality(run[w].batch) \in Nat /\ Cardinality(run[w].batch) # 0
    BY <1>3, FS_CardinalityType, FS_EmptySet DEF GoodBatch
  <2> QED BY <1>2, <2>1 DEF Archived
<1>5. /\ run'[w].pc = "query" /\ run'[w].stamp = run[w].stamp
      /\ run'[w].table = run[w].table /\ run'[w].total = Archived(w)
  BY <1>1, <1>2 DEF Purge, TypeOK, Run
<1>6. clock' = clock /\ archive' = archive
  BY DEF Purge
<1>7. \A o \in archive :
        o.name.stamp \in Nat /\ o.name.table \in Nat /\ o.name.total \in Nat
  BY <1>1, RetentionBounds DEF TypeOK, Name, Time, Table
<1>8. \A o \in archive : Before(o, w)'
  <2> SUFFICES ASSUME NEW o \in archive PROVE Before(o, w)'
    OBVIOUS
  <2>1. CASE o.name = ObjectName(w)
    BY <1>4, <1>5, <2>1 DEF ObjectName, Before
  <2>2. CASE Before(o, w)
    BY <1>2, <1>4, <1>5, <1>7, <2>2 DEF Before
  <2> QED BY <1>1, <2>1, <2>2 DEF GoodNames
<1>9. GoodNames(w)'
  BY <1>1, <1>5, <1>6, <1>8 DEF GoodNames, Running
<1>10. \A v \in Worker : GoodNames(v)'
  BY <1>9 DEF NamesInv, OneProcess
<1>11. ReadRowsKept'
  <2> SUFFICES ASSUME NEW p \in purged', ~p.raced PROVE p.row \in InArchive
    BY <1>6 DEF ReadRowsKept, InArchive
  <2>1. CASE p \in purged
    BY <2>1 DEF NamesInv, ReadRowsKept
  <2>2. CASE p \notin purged
    <3>1. PICK r \in Matching(w) :
            p = [row |-> r, when |-> clock, raced |-> r.serial > run[w].seen]
      BY <2>2 DEF Purge
    <3>2. ~(r.serial > run[w].seen) /\ p.row = r
      BY <3>1
    <3>3. r \in Row /\ r \in rows[run[w].table] /\ r.id \in Ids(run[w].batch)
      BY <1>1, Types DEF Matching
    <3>4. r.serial <= run[w].seen
      BY <1>1, <1>2, <3>2, <3>3, Types
    <3>5. r \in run[w].batch
      BY <1>3, <3>3, <3>4 DEF GoodBatch
    <3>6. Stored(w) \in archive /\ Stored(w).rows = run[w].batch
      BY <1>1 DEF GoodNames, Stored
    <3> QED BY <3>2, <3>5, <3>6 DEF InArchive
  <2> QED BY <2>1, <2>2
<1> QED BY <1>1, <1>6, <1>10, <1>11 DEF NamesInv, OneProcess

LEMMA NextNames == NamesInv /\ [Next]_vars => NamesInv'
<1> SUFFICES ASSUME NamesInv, [Next]_vars PROVE NamesInv'
  OBVIOUS
<1>1. Inv' /\ TypeOK
  BY NextInv DEF NamesInv, Inv
<1>2. ASSUME UNCHANGED <<archive, run, purged>>, clock <= clock' PROVE NamesInv'
  <2>1. clock \in Nat /\ clock' \in Nat /\ \A w \in Worker : run[w].stamp \in Nat
    BY <1>1, Types, RetentionBounds DEF Inv, TypeOK, Time
  <2>2. ASSUME NEW w \in Worker PROVE GoodNames(w)'
    <3>1. GoodNames(w) /\ run[w].stamp <= clock'
      BY <1>2, <2>1 DEF NamesInv, GoodNames
    <3> QED BY <1>2, <3>1 DEF GoodNames, Running, Before, Stored, ObjectName
  <2> QED BY <1>1, <1>2, <2>2, NamesKept
<1>3. clock \in Nat
  BY <1>1, Types
<1>4. CASE UNCHANGED vars
  BY <1>2, <1>3, <1>4 DEF vars
<1>5. ASSUME NEW w \in Worker,
             Begin(w) \/ Query(w) \/ TurnToTable(w) \/ Upload(w) \/ Purge(w) \/ Stop(w)
      PROVE  NamesInv'
  BY <1>5, RunNamesInv, UploadNamesInv, PurgeNamesInv
<1>6. ASSUME NEW t, Insert(t) \/ Replace(t) \/ Refresh(t) PROVE NamesInv'
  <2>1. UNCHANGED <<clock, archive, run, purged>>
    <3>1. \A gone, n : Write(t, gone, n) => UNCHANGED <<clock, archive, run, purged>>
      BY DEF Write
    <3> QED BY <1>6, <3>1 DEF Insert, Replace, Refresh
  <2> QED BY <1>2, <1>3, <2>1
<1>7. CASE Tick
  BY <1>2, <1>3, <1>7 DEF Tick
<1> QED BY <1>4, <1>5, <1>6, <1>7 DEF Next

\* With one process, every row that a run has read and deleted is in the
\* bucket, wherever its runs stopped: no upload replaces an earlier object.
THEOREM ReadRowsHeld == OneProcess /\ Spec => []ReadRowsKept
<1>1. NamesInv => ReadRowsKept
  BY DEF NamesInv
<1> QED BY <1>1, InitNames, NextNames, PTL DEF Spec

\* With one process no object of the bucket is ever replaced or removed: a batch
\* that follows, a run that starts anew and the next table all get other names.
THEOREM ArchiveGrows == OneProcess /\ Spec => [][archive \subseteq archive']_vars
<1>1. NamesInv /\ [Next]_vars => [archive \subseteq archive']_vars
  <2> SUFFICES ASSUME NamesInv, [Next]_vars PROVE archive \subseteq archive'
    OBVIOUS
  <2>1. CASE UNCHANGED archive
    BY <2>1
  <2>2. ASSUME NEW w \in Worker, Upload(w) PROVE archive \subseteq archive'
    <3>1. \A o \in archive : Before(o, w)
      BY <2>2 DEF NamesInv, GoodNames, Upload
    <3>2. run[w].table \in Nat /\ run[w].stamp \in Nat /\ run[w].total \in Nat
      BY Types DEF NamesInv, Inv
    <3>3. \A o \in archive : o.name # ObjectName(w)
      BY <3>1, <3>2 DEF Before, ObjectName
    <3> QED BY <2>2, <3>3 DEF Upload
  <2>3. ASSUME NEW w \in Worker,
               Begin(w) \/ Query(w) \/ TurnToTable(w) \/ Purge(w) \/ Stop(w)
        PROVE  UNCHANGED archive
    BY <2>3 DEF Begin, Query, TurnToTable, Purge, Stop
  <2>4. ASSUME NEW t, Insert(t) \/ Replace(t) \/ Refresh(t) PROVE UNCHANGED archive
    <3>1. \A gone, n : Write(t, gone, n) => UNCHANGED archive
      BY DEF Write
    <3> QED BY <2>4, <3>1 DEF Insert, Replace, Refresh
  <2> QED BY <2>1, <2>2, <2>3, <2>4 DEF Next, Tick, vars
<1> QED BY <1>1, InitNames, NextNames, PTL DEF Spec

\* Rows are only ever inserted: no table has rows that are replaced or updated.
AppendOnly == Replaced = {} /\ Refreshed = {}

\* Between the read and the delete of a batch its rows stay where they are.
BatchStays(w) ==
    /\ run[w].batch \subseteq rows[run[w].table]
    /\ \A r \in run[w].batch : r.serial <= run[w].seen

PlainInv ==
    /\ AppendOnly
    /\ NamesInv
    /\ \A w \in Worker : Holding(w) => BatchStays(w)
    /\ \A p \in purged : ~p.raced

LEMMA InitPlain == AppendOnly /\ OneProcess /\ Init => PlainInv
<1> SUFFICES ASSUME AppendOnly, OneProcess, Init PROVE PlainInv
  OBVIOUS
<1>1. \A w \in Worker : ~Holding(w)
  BY DEF Init, Holding, Asleep
<1> QED BY <1>1, InitNames DEF PlainInv, Init

LEMMA NextPlain == PlainInv /\ [Next]_vars => PlainInv'
<1> SUFFICES ASSUME PlainInv, [Next]_vars PROVE PlainInv'
  OBVIOUS
<1>1. NamesInv' /\ AppendOnly' /\ TypeOK /\ TypeOK'
  BY NextNames DEF PlainInv, AppendOnly, NamesInv, Inv
<1>2. ASSUME UNCHANGED <<run, purged>>, \A t \in Table : rows[t] \subseteq rows'[t]
      PROVE  PlainInv'
  <2>1. ASSUME NEW w \in Worker, Holding(w)' PROVE BatchStays(w)'
    <3>1. BatchStays(w) /\ run'[w] = run[w] /\ run[w].table \in Table
      BY <1>1, <1>2, <2>1, Types DEF PlainInv, Holding
    <3>2. rows[run[w].table] \subseteq rows'[run[w].table]
      BY <1>2, <3>1
    <3> QED BY <3>1, <3>2 DEF BatchStays
  <2> QED BY <1>1, <1>2, <2>1 DEF PlainInv
<1>3. ASSUME NEW w \in Worker, UNCHANGED purged, Holding(w)' => BatchStays(w)'
      PROVE  PlainInv'
  <2>1. \A v \in Worker : v = w
    BY DEF PlainInv, NamesInv, OneProcess
  <2> QED BY <1>1, <1>3, <2>1 DEF PlainInv
<1>4. ASSUME NEW w \in Worker, Begin(w) \/ TurnToTable(w) \/ Stop(w)
      PROVE  PlainInv'
  <2>1. UNCHANGED purged /\ run[w] \in Run
    BY <1>1, <1>4, Types DEF Begin, TurnToTable, Stop
  <2>2. run'[w].pc \in {"query", "asleep"}
    <3>1. CASE Begin(w)
      BY <1>1, <2>1, <3>1 DEF Begin, TypeOK, Run
    <3>2. CASE TurnToTable(w) /\ run[w].table < Tables
      <4>1. run' = [run EXCEPT ![w] =
               [run[w] EXCEPT !.table = run[w].table + 1, !.stamp = clock, !.total = 0]]
        BY <3>2 DEF TurnToTable
      <4> QED BY <1>1, <2>1, <3>2, <4>1 DEF TurnToTable, TypeOK, Run
    <3>3. CASE Stop(w) \/ (TurnToTable(w) /\ ~(run[w].table < Tables))
      <4>1. run'[w] = Asleep(clock + 1)
        BY <1>1, <3>3 DEF Stop, TurnToTable, TypeOK
      <4> QED BY <4>1 DEF Asleep
    <3> QED BY <1>4, <3>1, <3>2, <3>3
  <2> QED BY <1>3, <2>1, <2>2 DEF Holding
<1>5. ASSUME NEW w \in Worker, Query(w) PROVE PlainInv'
  <2>1. run[w] \in Run /\ run[w].table \in Table
    BY <1>1, Types
  <2>2. PICK batch \in SUBSET Cold(w) :
          run' = [run EXCEPT ![w].batch = batch, ![w].seen = count, ![w].pc = "upload"]
    BY <1>5 DEF Query
  <2>3. /\ run'[w].batch = batch /\ run'[w].seen = count
        /\ run'[w].table = run[w].table
    BY <1>1, <2>1, <2>2 DEF TypeOK, Run
  <2>4. rows' = rows /\ UNCHANGED purged
    BY <1>5 DEF Query
  <2>5. batch \subseteq rows[run[w].table]
    BY <2>2 DEF Cold
  <2>6. \A r \in rows[run[w].table] : r.serial <= count
    BY <2>1 DEF PlainInv, NamesInv, Inv, GoodTable
  <2>7. BatchStays(w)'
    BY <2>3, <2>4, <2>5, <2>6 DEF BatchStays
  <2> QED BY <1>3, <2>4, <2>7
<1>6. ASSUME NEW w \in Worker, Upload(w) PROVE PlainInv'
  <2>1. run[w] \in Run /\ BatchStays(w) /\ UNCHANGED <<rows, purged>>
    BY <1>1, <1>6, Types DEF PlainInv, Holding, Upload
  <2>2. /\ run'[w].batch = run[w].batch /\ run'[w].seen = run[w].seen
        /\ run'[w].table = run[w].table
    BY <1>1, <1>6, <2>1 DEF Upload, TypeOK, Run
  <2>3. BatchStays(w)'
    BY <2>1, <2>2 DEF BatchStays
  <2> QED BY <1>3, <2>1, <2>3
<1>7. ASSUME NEW w \in Worker, Purge(w) PROVE PlainInv'
  <2>1. /\ run[w] \in Run /\ run[w].table \in Table /\ run[w].seen \in Nat
        /\ BatchStays(w)
    BY <1>1, <1>7, Types DEF PlainInv, Holding, Purge
  <2>2. run'[w].pc = "query"
    BY <1>1, <1>7, <2>1 DEF Purge, TypeOK, Run
  <2>3. \A v \in Worker : ~Holding(v)'
    BY <2>2 DEF PlainInv, NamesInv, OneProcess, Holding
  <2>4. ASSUME NEW r \in Matching(w) PROVE ~(r.serial > run[w].seen)
    <3>1. r \in rows[run[w].table] /\ r.id \in Ids(run[w].batch) /\ r.serial \in Nat
      BY <1>1, <2>1, Types DEF Matching
    <3>2. PICK b \in run[w].batch : b.id = r.id
      BY <3>1 DEF Ids
    <3>3. b \in rows[run[w].table] /\ b.serial <= run[w].seen
      BY <2>1 DEF BatchStays
    <3>4. GoodTable(rows[run[w].table], count)
      BY <2>1 DEF PlainInv, NamesInv, Inv
    <3>5. r = b
      BY <3>1, <3>2, <3>3, <3>4 DEF GoodTable
    <3> QED BY <2>1, <3>1, <3>3, <3>5
  <2>5. ASSUME NEW p \in purged' PROVE ~p.raced
    <3>1. CASE p \in purged
      BY <3>1 DEF PlainInv
    <3>2. CASE p \notin purged
      <4>1. PICK r \in Matching(w) :
              p = [row |-> r, when |-> clock, raced |-> r.serial > run[w].seen]
        BY <1>7, <3>2 DEF Purge
      <4>2. p.raced = (r.serial > run[w].seen)
        BY <4>1
      <4> QED BY <2>4, <4>2
    <3> QED BY <3>1, <3>2
  <2> QED BY <1>1, <2>3, <2>5 DEF PlainInv
<1>8. ASSUME NEW t \in Table, Insert(t) PROVE PlainInv'
  <2>1. PICK first : rows' = [rows EXCEPT ![t] = (@ \ {}) \cup NewRows(first, 1)]
    BY <1>8 DEF Insert, Write
  <2>2. \A u \in Table : rows[u] \subseteq rows'[u]
    BY <1>1, <2>1 DEF TypeOK
  <2>3. UNCHANGED <<run, purged>>
    BY <1>8 DEF Insert, Write
  <2> QED BY <1>2, <2>2, <2>3
<1>9. CASE Tick \/ UNCHANGED vars
  BY <1>2, <1>9 DEF Tick, vars
<1>10. Replaced = {} /\ Refreshed = {}
  BY DEF PlainInv, AppendOnly
<1> QED BY <1>4, <1>5, <1>6, <1>7, <1>8, <1>9, <1>10 DEF Next

\* With one process and tables to which rows are only added, whatever retention
\* deletes is in the bucket, also where the ids of deleted rows are used again: a
\* second process or a rewritten row is what it takes to lose one.
THEOREM NothingLostByOne == AppendOnly /\ OneProcess /\ Spec => []NothingLost
<1>1. PlainInv => NothingLost
  BY DEF PlainInv, NamesInv, ReadRowsKept, NothingLost
<1> QED BY <1>1, InitPlain, NextPlain, PTL DEF Spec

-----------------------------------------------------------------------------
(* CostHistory: what the trend of summaries shows while retention moves    *)
(* records and summaries, with one process.                                *)

\* No row is of the future.
Timely == \A t \in Table : \A r \in rows[t] : r.at <= clock

\* Only a summary that was written sums up records, and only records that were.
ContentsOK == \A s \in Serial : \A x \in content[s] : s <= count /\ x <= count

RequestsOK ==
    /\ \A w \in Worker : \A x \in compute[w].records : x <= count
    /\ \A w \in Worker : \A s \in trend[w].hot : s.serial <= count

ArchiveOK ==
    /\ \A s \in InArchive : s.serial <= count
    /\ \A w \in Worker : \A s \in run[w].batch : s.serial <= count
    /\ \A w \in Worker : ~Holding(w) => run[w].batch = {}

\* A computation replaces the summary of the bucket.
OneSummary == \A r, s \in rows[Summaries] : r = s

\* No row but a summary sums up records.
RecordsPlain ==
    /\ \A t \in Table \ {Summaries} : \A r \in rows[t] : content[r.serial] = {}
    /\ \A w \in Worker :
         run[w].table # Summaries => \A s \in run[w].batch : content[s.serial] = {}

\* A record is no younger than a summary that sums it up.
NotOlder ==
    \A s \in rows[Summaries] : \A r \in rows[Records] :
        r.serial \in content[s.serial] => r.at <= s.at

\* A run comes to the summaries when no cold record is left, and a record that is
\* written later is not cold.
YoungLeft ==
    /\ \A w \in Worker : run[w].pc = "asleep" => run[w].table = Records
    /\ \A w \in Worker :
         run[w].table = Summaries => \A r \in rows[Records] : r.at >= run[w].cutoff

\* A computation has read the latest upload, or no summary sums up any of it.
Fresh ==
    \A w \in Worker : compute[w].pc = "write" =>
        \/ upload \cap Serials(rows[Records]) \subseteq compute[w].records
        \/ \A s \in Serial : upload \cap content[s] = {}

Answering == \A w \in Worker : trend[w].pc = "archive" => trend[w].asked \subseteq Shown(w)

\* Where `clean` says that runs and computations kept out of each other's way:
\* a computation has read the records that are there, ...
InFlight ==
    clean => \A w \in Worker :
        compute[w].pc = "write" => compute[w].records = Serials(rows[Records])

\* ... the summaries that a run has read are there, ...
BatchThere ==
    clean => \A w \in Worker :
        Holding(w) /\ run[w].table = Summaries => run[w].batch \subseteq rows[Summaries]

\* ... the records of an archived summary are gone, ...
RecordsGone ==
    clean => \A s \in InArchive : content[s.serial] \cap Serials(rows[Records]) = {}

\* ... no two archived summaries share a record, ...
ArchivedApart ==
    clean => \A o, p \in archive : \A s \in o.rows, t \in p.rows :
        content[s.serial] \cap content[t.serial] # {} => o = p /\ s = t

\* ... nor a hot and an archived one, but between the upload and the delete.
HotApart ==
    clean /\ (\A w \in Worker : ~Between(w)) =>
        \A s \in rows[Summaries], t \in InArchive : content[s.serial] \cap content[t.serial] = {}

Written == Timely /\ ContentsOK /\ RequestsOK /\ ArchiveOK
Kept == OneSummary /\ RecordsPlain /\ NotOlder /\ YoungLeft /\ Fresh /\ Answering
Apart == InFlight /\ BatchThere /\ RecordsGone /\ ArchivedApart /\ HotApart

HistoryInv ==
    /\ HistoryTables
    /\ NamesInv
    /\ HistoryTypeOK
    /\ Written
    /\ Kept
    /\ Apart

LEMMA InitHistory == HistoryTables /\ OneProcess /\ HistoryInit => HistoryInv
<1> SUFFICES ASSUME HistoryTables, OneProcess, HistoryInit PROVE HistoryInv
  OBVIOUS
<1>1. NamesInv
  BY InitNames DEF HistoryInit
<1>2. TypeOK /\ \A t \in Table : rows[t] = {}
  BY <1>1 DEF NamesInv, Inv, HistoryInit, Init
<1>3. HistoryTypeOK
  BY <1>2 DEF HistoryTypeOK, HistoryInit, NoCompute, NoTrend
<1>4. rows[Records] = {} /\ rows[Summaries] = {}
  BY <1>2 DEF HistoryTables
<1>5. InArchive = {} /\ \A w \in Worker : run[w].batch = {}
  BY DEF HistoryInit, Init, InArchive, Asleep
<1>6. Written
  BY <1>2, <1>5 DEF Written, Timely, ContentsOK, RequestsOK, ArchiveOK, HistoryInit,
                    NoCompute, NoTrend
<1>7. YoungLeft
  BY <1>4 DEF YoungLeft, HistoryInit, Init, Asleep, Records, Summaries
<1>8. Kept
  BY <1>2, <1>4, <1>5, <1>7 DEF Kept, OneSummary, RecordsPlain, NotOlder, Fresh, Answering,
                          HistoryInit, NoCompute, NoTrend
<1>9. Apart
  BY <1>4, <1>5 DEF Apart, InFlight, BatchThere, RecordsGone, ArchivedApart, HotApart,
                    HistoryInit, Init, NoCompute, Asleep, Holding
<1> QED BY <1>1, <1>3, <1>6, <1>8, <1>9 DEF HistoryInv

LEMMA HistoryTypes ==
    ASSUME HistoryInv
    PROVE  /\ Inv /\ TypeOK
           /\ Records \in Table /\ Summaries \in Table /\ Records # Summaries
           /\ Summaries = Records + 1 /\ Records = 1 /\ Tables \in Nat /\ Summaries <= Tables
           /\ count \in Nat /\ clock \in Nat /\ MaxRows \in Nat /\ HotPeriod \in Nat
           /\ \A t \in Table : rows[t] \in SUBSET Row /\ \A r \in rows[t] : r.serial <= count
           /\ \A r \in Row : r.serial \in Serial /\ r.serial \in Nat /\ r.at \in Nat
           /\ \A x \in Serial : x \in Nat
           /\ \A s \in Serial : content[s] \in SUBSET Serial
           /\ InArchive \in SUBSET Row
           /\ \A o \in archive : o.rows \in SUBSET Row
           /\ \A w \in Worker :
                /\ run[w] \in Run /\ run[w].batch \in SUBSET Row /\ run[w].cutoff \in Int
                /\ run[w].table \in Table
                /\ compute[w].records \in SUBSET Serial
                /\ trend[w].hot \in SUBSET Row
<1>1. Inv /\ TypeOK /\ HistoryTypeOK
  BY DEF HistoryInv, NamesInv, Inv
<1>2. /\ Records \in Table /\ Summaries \in Table /\ Records = 1 /\ Summaries = 2
      /\ Summaries = Records + 1 /\ Records # Summaries
  BY DEF HistoryInv, HistoryTables, Records, Summaries
<1>3. Tables \in Nat /\ Summaries <= Tables
  BY <1>2, RetentionBounds DEF Table
<1>4. count \in Nat /\ clock \in Nat /\ MaxRows \in Nat /\ HotPeriod \in Nat
  BY <1>1, Types
<1>5. \A r \in Row : r.serial \in Serial /\ r.serial \in Nat /\ r.at \in Nat
  BY <1>4, RetentionBounds DEF Row, Serial, Time
<1>6. \A t \in Table : rows[t] \in SUBSET Row /\ \A r \in rows[t] : r.serial <= count
  BY <1>1 DEF Inv, TypeOK, GoodTable
<1>7. \A o \in archive : o.rows \in SUBSET Row
  BY <1>1 DEF TypeOK
<1>8. InArchive \in SUBSET Row
  BY <1>7 DEF InArchive
<1>9. \A w \in Worker :
        /\ run[w] \in Run /\ run[w].batch \in SUBSET Row /\ run[w].cutoff \in Int
        /\ run[w].table \in Table
  BY <1>1, Types
<1>10. \A w \in Worker : compute[w].records \in SUBSET Serial /\ trend[w].hot \in SUBSET Row
  BY <1>1 DEF HistoryTypeOK
<1>11. /\ \A x \in Serial : x \in Nat
       /\ \A s \in Serial : content[s] \in SUBSET Serial
  BY <1>1, <1>4 DEF HistoryTypeOK, Serial
<1> QED BY <1>1, <1>2, <1>3, <1>4, <1>5, <1>6, <1>7, <1>8, <1>9, <1>10, <1>11

-----------------------------------------------------------------------------
\* A transaction leaves the objects, and with them their names, as they are.
LEMMA WriteNamesInv ==
    ASSUME NamesInv, NEW t \in Table, NEW gone \in SUBSET rows[t], NEW n \in 1..MaxRows,
           Write(t, gone, n)
    PROVE  NamesInv'
<1>1. Inv'
  BY WriteInv DEF NamesInv
<1>2. UNCHANGED <<clock, archive, run, purged>>
  BY DEF Write
<1>3. clock <= clock'
  BY <1>2, Types DEF NamesInv, Inv
<1>4. \A w \in Worker : GoodNames(w)'
  BY <1>2 DEF NamesInv, GoodNames, Running, Before, Stored, ObjectName
<1> QED BY <1>1, <1>2, <1>3, <1>4, NamesKept

LEMMA StepNamesInv ==
    ASSUME NamesInv,
           \/ UNCHANGED vars
           \/ Tick
           \/ \E w \in Worker :
                Begin(w) \/ Query(w) \/ TurnToTable(w) \/ Upload(w) \/ Purge(w) \/ Stop(w)
    PROVE  NamesInv'
BY NextNames DEF Next

\* Steps of the requests: no row, object or run changes.
LEMMA RequestKeeps ==
    ASSUME HistoryInv, UNCHANGED <<clock, rows, count, archive, run, purged>>,
           UNCHANGED <<content, upload, clean>>,
           HistoryTypeOK', RequestsOK', Fresh', Answering', InFlight'
    PROVE  HistoryInv'
<1>1. NamesInv'
  BY StepNamesInv DEF HistoryInv, vars
<1>2. Written'
  BY DEF HistoryInv, Written, Timely, ContentsOK, ArchiveOK, InArchive, Holding
<1>3. Kept'
  BY DEF HistoryInv, Kept, OneSummary, RecordsPlain, NotOlder, YoungLeft
<1>4. Apart'
  BY DEF HistoryInv, Apart, BatchThere, RecordsGone, ArchivedApart, HotApart, InArchive, Serials,
         Between, Holding
<1> QED BY <1>1, <1>2, <1>3, <1>4 DEF HistoryInv, HistoryTables

LEMMA ComputeReadInv == ASSUME HistoryInv, NEW w \in Worker, ComputeRead(w) PROVE HistoryInv'
<1>1. compute' = [compute EXCEPT ![w] = [pc |-> "write", records |-> Serials(rows[Records])]]
  BY DEF ComputeRead, Summed
<1>2. /\ UNCHANGED <<clock, rows, count, archive, run, purged>>
      /\ UNCHANGED <<content, upload, clean, trend>>
  BY DEF ComputeRead
<1>3. Serials(rows[Records]) \in SUBSET Serial /\ \A x \in Serials(rows[Records]) : x <= count
  BY HistoryTypes DEF Serials
<1>4. HistoryTypeOK
  BY DEF HistoryInv
<1>5. \A v \in Worker : v = w
  BY DEF HistoryInv, NamesInv, OneProcess
<1>6. compute'[w] = [pc |-> "write", records |-> Serials(rows[Records])]
  BY <1>1, <1>4 DEF HistoryTypeOK
<1>7. HistoryTypeOK'
  BY <1>1, <1>2, <1>3, <1>4 DEF HistoryTypeOK, TypeOK
<1>8. RequestsOK'
  BY <1>2, <1>3, <1>5, <1>6 DEF HistoryInv, Written, RequestsOK
<1>9. Fresh'
  BY <1>2, <1>5, <1>6 DEF Fresh, Serials
<1>10. Answering'
  BY <1>2 DEF HistoryInv, Kept, Answering, Shown, Covered, InArchive
<1>11. InFlight'
  BY <1>2, <1>5, <1>6 DEF InFlight, Serials
<1> QED BY <1>2, <1>7, <1>8, <1>9, <1>10, <1>11, RequestKeeps

LEMMA ComputeFailsInv == ASSUME HistoryInv, NEW w \in Worker, ComputeFails(w) PROVE HistoryInv'
<1>1. compute' = [compute EXCEPT ![w] = NoCompute]
  BY DEF ComputeFails
<1>2. /\ UNCHANGED <<clock, rows, count, archive, run, purged>>
      /\ UNCHANGED <<content, upload, clean, trend>>
  BY DEF ComputeFails
<1>3. HistoryTypeOK
  BY DEF HistoryInv
<1>4. \A v \in Worker : v = w
  BY DEF HistoryInv, NamesInv, OneProcess
<1>5. compute'[w].pc = "idle" /\ compute'[w].records = {}
  BY <1>1, <1>3 DEF HistoryTypeOK, NoCompute
<1>6. HistoryTypeOK'
  BY <1>1, <1>2, <1>3 DEF HistoryTypeOK, TypeOK, NoCompute
<1>7. RequestsOK' /\ Fresh' /\ InFlight'
  BY <1>2, <1>4, <1>5 DEF HistoryInv, Written, RequestsOK, Fresh, InFlight
<1>8. Answering'
  BY <1>2 DEF HistoryInv, Kept, Answering, Shown, Covered, InArchive
<1> QED BY <1>2, <1>6, <1>7, <1>8, RequestKeeps

LEMMA CoveredInSerial ==
    ASSUME HistoryInv, NEW S \in SUBSET Row
    PROVE  Covered(S) \in SUBSET Serial
BY HistoryTypes DEF Covered, Serials

LEMMA TrendInv ==
    ASSUME HistoryInv, NEW w \in Worker, TrendRead(w) \/ TrendAnswer(w)
    PROVE  HistoryInv'
<1> DEFINE asking == [pc |-> "archive", hot |-> rows[Summaries],
                      asked |-> Covered(rows[Summaries] \cup InArchive)]
<1>1. trend' = [trend EXCEPT ![w] = asking] \/ trend' = [trend EXCEPT ![w] = NoTrend]
  BY DEF TrendRead, TrendAnswer, HotRows
<1>2. /\ UNCHANGED <<clock, rows, count, archive, run, purged>>
      /\ UNCHANGED <<content, upload, clean, compute>>
  BY DEF TrendRead, TrendAnswer
<1>3. HistoryTypeOK
  BY DEF HistoryInv
<1>4. \A v \in Worker : v = w
  BY DEF HistoryInv, NamesInv, OneProcess
<1>5. rows[Summaries] \in SUBSET Row /\ InArchive \in SUBSET Row
  BY HistoryTypes
<1>6. Covered(rows[Summaries] \cup InArchive) \in SUBSET Serial
  BY <1>5, CoveredInSerial
<1>7. HistoryTypeOK'
  <2> DEFINE Asked == [pc : {"idle", "archive"}, hot : SUBSET Row, asked : SUBSET Serial]
  <2>1. asking \in Asked
    BY <1>5, <1>6
  <2>2. NoTrend \in Asked
    BY DEF NoTrend
  <2>3. trend \in [Worker -> Asked]
    BY <1>3 DEF HistoryTypeOK
  <2>4. trend' \in [Worker -> Asked]
    BY <1>1, <2>1, <2>2, <2>3
  <2> QED BY <1>2, <1>3, <2>4 DEF HistoryTypeOK, TypeOK
<1>8. trend'[w] = asking \/ trend'[w] = NoTrend
  BY <1>1, <1>3 DEF HistoryTypeOK
<1>9. RequestsOK'
  <2>1. \A s \in trend'[w].hot : s.serial <= count
    BY <1>8, HistoryTypes DEF NoTrend
  <2> QED BY <1>2, <1>4, <2>1 DEF HistoryInv, Written, RequestsOK
<1>10. Answering'
  <2>1. CASE trend'[w] = NoTrend
    BY <1>4, <2>1 DEF Answering, NoTrend
  <2>2. CASE trend'[w] = asking
    BY <1>2, <1>4, <2>2 DEF Answering, Shown, Covered, InArchive
  <2> QED BY <1>8, <2>1, <2>2
<1>11. Fresh' /\ InFlight'
  BY <1>2 DEF HistoryInv, Kept, Apart, Fresh, InFlight, Serials
<1> QED BY <1>2, <1>7, <1>9, <1>10, <1>11, RequestKeeps

-----------------------------------------------------------------------------
\* Steps of a run that leave the rows and the objects as they are.
LEMMA RunKeeps ==
    ASSUME HistoryInv, NEW w \in Worker, NamesInv',
           UNCHANGED <<clock, rows, count, archive>>,
           UNCHANGED <<content, compute, trend, upload>>,
           clean' \in BOOLEAN, clean' => clean,
           \A s \in run'[w].batch : s.serial <= count,
           run'[w].pc \notin {"upload", "purge"} => run'[w].batch = {},
           run'[w].table # Summaries => \A s \in run'[w].batch : content[s.serial] = {},
           run'[w].pc = "asleep" => run'[w].table = Records,
           run'[w].table = Summaries => \A r \in rows[Records] : r.at >= run'[w].cutoff,
           clean' /\ run'[w].pc \in {"upload", "purge"} /\ run'[w].table = Summaries
             => run'[w].batch \subseteq rows[Summaries],
           clean' => ~Between(w)
    PROVE  HistoryInv'
<1>1. \A v \in Worker : v = w
  BY DEF HistoryInv, NamesInv, OneProcess
<1>2. HistoryTypeOK'
  BY DEF HistoryInv, HistoryTypeOK, NamesInv, Inv
<1>3. Written'
  BY <1>1 DEF HistoryInv, Written, Timely, ContentsOK, RequestsOK, ArchiveOK, InArchive, Holding
<1>4. RecordsPlain' /\ YoungLeft'
  BY <1>1 DEF HistoryInv, Kept, RecordsPlain, YoungLeft
<1>5. Kept'
  BY <1>4 DEF HistoryInv, Kept, OneSummary, NotOlder, Fresh, Answering, Shown, Covered, Serials,
              InArchive
<1>6. BatchThere'
  BY <1>1 DEF BatchThere, Holding
<1>7. HotApart'
  <2>1. clean' => \A s \in rows[Summaries], t \in InArchive :
                    content[s.serial] \cap content[t.serial] = {}
    BY <1>1 DEF HistoryInv, Apart, HotApart
  <2> QED BY <2>1 DEF HotApart, InArchive
<1>8. Apart'
  <2>1. InFlight'
    BY DEF HistoryInv, Apart, InFlight, Serials
  <2>2. RecordsGone'
    BY DEF HistoryInv, Apart, RecordsGone, Serials, InArchive
  <2>3. ArchivedApart'
    BY DEF HistoryInv, Apart, ArchivedApart
  <2> QED BY <1>6, <1>7, <2>1, <2>2, <2>3 DEF Apart
<1> QED BY <1>2, <1>3, <1>5, <1>8 DEF HistoryInv, HistoryTables

LEMMA BeginKeeps ==
    ASSUME HistoryInv, NEW w \in Worker, Begin(w),
           UNCHANGED <<content, compute, trend, upload, clean>>
    PROVE  HistoryInv'
<1>1. NamesInv'
  BY StepNamesInv DEF HistoryInv
<1>2. run[w] \in Run /\ run \in [Worker -> Run] /\ run[w].pc = "asleep"
  BY HistoryTypes DEF Begin, TypeOK
<1>3. /\ run'[w].pc = "query" /\ run'[w].table = run[w].table
      /\ run'[w].batch = run[w].batch
  BY <1>2 DEF Begin, Run
<1>4. run[w].table = Records /\ Records # Summaries
  BY <1>2, HistoryTypes DEF HistoryInv, Kept, YoungLeft
<1>5. run[w].batch = {}
  BY <1>2 DEF HistoryInv, Written, ArchiveOK, Holding
<1>6. clean \in BOOLEAN /\ ~Between(w)
  BY <1>2 DEF HistoryInv, HistoryTypeOK, Between
<1>7. UNCHANGED <<clock, rows, count, archive>>
  BY DEF Begin
<1> QED BY <1>1, <1>3, <1>4, <1>5, <1>6, <1>7, RunKeeps

LEMMA QueryKeeps ==
    ASSUME HistoryInv, NEW w \in Worker, Query(w),
           UNCHANGED <<content, compute, trend, upload, clean>>
    PROVE  HistoryInv'
<1>1. NamesInv'
  BY StepNamesInv DEF HistoryInv
<1>2. run[w] \in Run /\ run \in [Worker -> Run] /\ run[w].pc = "query" /\ run[w].table \in Table
  BY HistoryTypes DEF Query, TypeOK
<1>3. PICK batch \in (SUBSET Cold(w)) \ {{}} :
        run' = [run EXCEPT ![w].batch = batch, ![w].seen = count, ![w].pc = "upload"]
  BY DEF Query
<1>4. /\ run'[w].pc = "upload" /\ run'[w].table = run[w].table
      /\ run'[w].batch = batch /\ run'[w].cutoff = run[w].cutoff
  BY <1>2, <1>3 DEF Run
<1>5. batch \subseteq rows[run[w].table]
  BY DEF Cold
<1>6. \A s \in batch : s.serial <= count
  BY <1>2, <1>5, HistoryTypes
<1>7. run[w].table # Summaries => \A s \in batch : content[s.serial] = {}
  BY <1>2, <1>5 DEF HistoryInv, Kept, RecordsPlain
<1>8. run[w].table = Summaries => \A r \in rows[Records] : r.at >= run[w].cutoff
  BY DEF HistoryInv, Kept, YoungLeft
<1>9. clean \in BOOLEAN /\ ~Between(w)
  BY <1>2 DEF HistoryInv, HistoryTypeOK, Between
<1>10. UNCHANGED <<clock, rows, count, archive>>
  BY DEF Query
<1> QED BY <1>1, <1>4, <1>5, <1>6, <1>7, <1>8, <1>9, <1>10, RunKeeps

LEMMA TurnKeeps ==
    ASSUME HistoryInv, NEW w \in Worker, TurnToTable(w),
           UNCHANGED <<content, compute, trend, upload, clean>>
    PROVE  HistoryInv'
<1>1. NamesInv'
  BY StepNamesInv DEF HistoryInv
<1>2. /\ run[w] \in Run /\ run \in [Worker -> Run] /\ run[w].pc = "query"
      /\ run[w].table \in Table /\ run[w].table \in Nat \ {0}
  BY HistoryTypes DEF TurnToTable, TypeOK, Table
<1>3. run[w].batch = {}
  BY <1>2 DEF HistoryInv, Written, ArchiveOK, Holding
<1>4. clean \in BOOLEAN /\ ~Between(w)
  BY <1>2 DEF HistoryInv, HistoryTypeOK, Between
<1>5. UNCHANGED <<clock, rows, count, archive>>
  BY DEF TurnToTable
<1>6. CASE run[w].table < Tables
  <2>1. run' = [run EXCEPT ![w] =
                  [run[w] EXCEPT !.table = run[w].table + 1, !.stamp = clock, !.total = 0]]
    BY <1>6 DEF TurnToTable
  <2>2. /\ run'[w].pc = "query" /\ run'[w].table = run[w].table + 1
        /\ run'[w].batch = run[w].batch /\ run'[w].cutoff = run[w].cutoff
    BY <1>2, <2>1 DEF Run
  <2>3. run'[w].table # Records
    <3>1. Records = 1 /\ run[w].table \in Table
      BY HistoryTypes
    <3>2. run[w].table \in Nat \ {0}
      BY <3>1, RetentionBounds DEF Table
    <3> QED BY <2>2, <3>1, <3>2
  <2>4. run'[w].table = Summaries => \A r \in rows[Records] : r.at >= run[w].cutoff
    <3> SUFFICES ASSUME run'[w].table = Summaries, NEW r \in rows[Records]
                 PROVE  r.at >= run[w].cutoff
      OBVIOUS
    <3>1. run[w].table = Records
      BY <1>2, <2>2, HistoryTypes
    <3>2. ~(r.at < run[w].cutoff)
      BY <3>1 DEF TurnToTable, Cold
    <3>3. r.at \in Int /\ run[w].cutoff \in Int
      BY HistoryTypes
    <3> QED BY <3>2, <3>3
  <2> QED BY <1>1, <1>3, <1>4, <1>5, <2>2, <2>3, <2>4, RunKeeps
<1>7. CASE ~(run[w].table < Tables)
  <2>1. run'[w] = Asleep(clock + 1)
    BY <1>2, <1>7 DEF TurnToTable
  <2>2. run'[w].pc = "asleep" /\ run'[w].table = Records /\ run'[w].batch = {}
    BY <2>1 DEF Asleep, Records
  <2>3. run'[w].table # Summaries
    BY <2>2, HistoryTypes
  <2> QED BY <1>1, <1>4, <1>5, <2>2, <2>3, RunKeeps
<1> QED BY <1>6, <1>7

LEMMA StopKeeps == ASSUME HistoryInv, NEW w \in Worker, Stopping(w) PROVE HistoryInv'
<1>1. NamesInv'
  BY StepNamesInv DEF HistoryInv, Stopping
<1>2. run[w] \in Run /\ run \in [Worker -> Run]
  BY HistoryTypes DEF TypeOK
<1>3. run'[w] = Asleep(clock + 1)
  BY <1>2 DEF Stopping, Stop
<1>4. run'[w].pc = "asleep" /\ run'[w].table = Records /\ run'[w].batch = {}
  BY <1>3 DEF Asleep, Records
<1>5. run'[w].table # Summaries
  BY <1>4, HistoryTypes
<1>6. clean' \in BOOLEAN /\ (clean' => clean) /\ (clean' => ~Between(w))
  BY DEF Stopping
<1>7. UNCHANGED <<clock, rows, count, archive>> /\ UNCHANGED <<content, compute, trend, upload>>
  BY DEF Stopping, Stop
<1> QED BY <1>1, <1>4, <1>5, <1>6, <1>7, RunKeeps

LEMMA TickKeeps == ASSUME HistoryInv, Ticking PROVE HistoryInv'
<1>1. NamesInv'
  BY StepNamesInv DEF HistoryInv, Ticking
<1>2. /\ UNCHANGED <<rows, count, archive, run, purged>>
      /\ UNCHANGED <<content, compute, trend, upload, clean>>
      /\ clock' = clock + 1
  BY DEF Ticking, Tick
<1>3. HistoryTypeOK'
  BY <1>1, <1>2 DEF HistoryInv, HistoryTypeOK, NamesInv, Inv
<1>4. Timely'
  <2>1. \A t \in Table : \A r \in rows[t] : r.at \in Nat
    BY HistoryTypes
  <2> QED BY <1>2, <2>1, HistoryTypes DEF HistoryInv, Written, Timely
<1>5. Written'
  BY <1>2, <1>4 DEF HistoryInv, Written, ContentsOK, RequestsOK, ArchiveOK, InArchive, Holding
<1>6. Kept'
  BY <1>2 DEF HistoryInv, Kept, OneSummary, RecordsPlain, NotOlder, YoungLeft, Fresh, Answering,
              Shown, Covered, Serials, InArchive
<1>7. Apart'
  BY <1>2 DEF HistoryInv, Apart, InFlight, BatchThere, RecordsGone, ArchivedApart, HotApart,
              Serials, InArchive, Between, Holding
<1> QED BY <1>1, <1>3, <1>5, <1>6, <1>7 DEF HistoryInv, HistoryTables

-----------------------------------------------------------------------------
\* With one process, no object is replaced.
LEMMA StoredBeside ==
    ASSUME NamesInv, NEW w \in Worker, Upload(w)
    PROVE  archive' = archive \cup {Stored(w)}
<1>1. TypeOK /\ run[w].pc = "upload" /\ GoodNames(w)
  BY DEF NamesInv, Inv, Upload
<1>2. run[w].table \in Nat /\ run[w].stamp \in Nat /\ run[w].total \in Nat
  BY <1>1, Types
<1>3. \A o \in archive : o.name # ObjectName(w)
  BY <1>1, <1>2 DEF GoodNames, Before, ObjectName
<1> QED BY <1>3 DEF Upload, Stored

LEMMA UploadKeeps ==
    ASSUME HistoryInv, NEW w \in Worker, Upload(w),
           UNCHANGED <<content, compute, trend, upload, clean>>
    PROVE  HistoryInv'
<1>1. NamesInv'
  BY StepNamesInv DEF HistoryInv
<1>2. \A v \in Worker : v = w
  BY DEF HistoryInv, NamesInv, OneProcess
<1>3. run[w] \in Run /\ run \in [Worker -> Run] /\ run[w].pc = "upload" /\ ~Between(w)
  BY HistoryTypes DEF Upload, TypeOK, Between
<1>4. /\ run'[w].pc = "purge" /\ run'[w].table = run[w].table
      /\ run'[w].batch = run[w].batch /\ run'[w].cutoff = run[w].cutoff
  BY <1>3 DEF Upload, Run
<1>5. UNCHANGED <<clock, rows, count>>
  BY DEF Upload
<1>6. archive' = archive \cup {Stored(w)} /\ Stored(w).rows = run[w].batch
  BY StoredBeside DEF HistoryInv, Stored
<1>7. InArchive' = InArchive \cup run[w].batch
  BY <1>6 DEF InArchive
<1> DEFINE batch == run[w].batch
<1>8. run[w].table # Summaries => \A s \in batch : content[s.serial] = {}
  BY DEF HistoryInv, Kept, RecordsPlain
<1>9. clean /\ run[w].table = Summaries => batch \subseteq rows[Summaries]
  BY <1>3 DEF HistoryInv, Apart, BatchThere, Holding
<1>10. HistoryTypeOK'
  BY <1>1 DEF HistoryInv, HistoryTypeOK, NamesInv, Inv
<1>11. Written'
  BY <1>2, <1>3, <1>4, <1>5, <1>7 DEF HistoryInv, Written, Timely, ContentsOK, RequestsOK,
                                     ArchiveOK, Holding
<1>12. Kept'
  <2>1. RecordsPlain' /\ YoungLeft'
    BY <1>2, <1>3, <1>4, <1>5 DEF HistoryInv, Kept, RecordsPlain, YoungLeft
  <2>2. Answering'
    <3>1. \A v \in Worker : Shown(v) \subseteq Shown(v)'
      BY <1>7 DEF Shown, Covered, Serials
    <3> QED BY <3>1 DEF HistoryInv, Kept, Answering
  <2> QED BY <1>5, <2>1, <2>2 DEF HistoryInv, Kept, OneSummary, NotOlder, Fresh, Serials
<1>13. InFlight' /\ BatchThere'
  BY <1>2, <1>3, <1>4, <1>5 DEF HistoryInv, Apart, InFlight, BatchThere, Serials, Holding
<1>14. RecordsGone'
  <2> SUFFICES ASSUME clean, NEW s \in InArchive'
               PROVE  content[s.serial] \cap Serials(rows[Records]) = {}
    BY <1>5 DEF RecordsGone, Serials
  <2>1. CASE s \in InArchive
    BY <2>1 DEF HistoryInv, Apart, RecordsGone
  <2>2. CASE s \in batch /\ run[w].table # Summaries
    BY <1>8, <2>2
  <2>3. CASE s \in batch /\ run[w].table = Summaries
    <3>1. s \in rows[Summaries]
      BY <1>9, <2>3
    <3>2. s.at < run[w].cutoff
      BY <1>3, <2>3 DEF HistoryInv, NamesInv, Inv, GoodRun, GoodBatch, Holding
    <3>3. \A r \in rows[Records] : r.serial \in content[s.serial] => r.at <= s.at
      BY <3>1 DEF HistoryInv, Kept, NotOlder
    <3>4. \A r \in rows[Records] : r.at >= run[w].cutoff
      BY <2>3 DEF HistoryInv, Kept, YoungLeft
    <3>5. s.at \in Int /\ run[w].cutoff \in Int /\ \A r \in rows[Records] : r.at \in Int
      BY <3>1, HistoryTypes
    <3>6. \A r \in rows[Records] : r.serial \notin content[s.serial]
      BY <3>2, <3>3, <3>4, <3>5
    <3> QED BY <3>6 DEF Serials
  <2> QED BY <1>7, <2>1, <2>2, <2>3
<1>15. ArchivedApart'
  <2> SUFFICES ASSUME clean, NEW o \in archive', NEW p \in archive', NEW s \in o.rows,
                      NEW t \in p.rows, content[s.serial] \cap content[t.serial] # {}
               PROVE  o = p /\ s = t
    BY <1>5 DEF ArchivedApart
  <2>1. CASE o \in archive /\ p \in archive
    BY <2>1 DEF HistoryInv, Apart, ArchivedApart
  <2>2. CASE run[w].table = Summaries
    <3>1. \A a \in batch, b \in InArchive : content[a.serial] \cap content[b.serial] = {}
      BY <1>2, <1>3, <1>9, <2>2 DEF HistoryInv, Apart, HotApart
    <3>2. \A a, b \in batch : a = b
      BY <1>9, <2>2 DEF HistoryInv, Kept, OneSummary
    <3>3. (o \in archive => s \in InArchive) /\ (p \in archive => t \in InArchive)
      BY DEF InArchive
    <3> QED BY <1>6, <2>1, <3>1, <3>2, <3>3
  <2>3. CASE run[w].table # Summaries
    BY <1>6, <1>8, <2>1, <2>3
  <2> QED BY <2>2, <2>3
<1>16. HotApart'
  <2>1. CASE run[w].table = Summaries
    BY <1>4, <2>1 DEF HotApart, Between
  <2>2. CASE run[w].table # Summaries
    <3>1. clean => \A s \in rows[Summaries], t \in InArchive :
                     content[s.serial] \cap content[t.serial] = {}
      BY <1>2, <1>3 DEF HistoryInv, Apart, HotApart
    <3> QED BY <1>5, <1>7, <1>8, <2>2, <3>1 DEF HotApart
  <2> QED BY <2>1, <2>2
<1> QED BY <1>1, <1>10, <1>11, <1>12, <1>13, <1>14, <1>15, <1>16
        DEF HistoryInv, HistoryTables, Apart

LEMMA PurgeKeeps == ASSUME HistoryInv, NEW w \in Worker, Purging(w) PROVE HistoryInv'
<1>1. NamesInv'
  BY StepNamesInv DEF HistoryInv, Purging
<1>2. \A v \in Worker : v = w
  BY DEF HistoryInv, NamesInv, OneProcess
<1>3. /\ run[w] \in Run /\ run \in [Worker -> Run] /\ run[w].pc = "purge"
      /\ run[w].table \in Table
  BY HistoryTypes DEF Purging, Purge, TypeOK
<1>4. /\ run'[w].pc = "query" /\ run'[w].table = run[w].table
      /\ run'[w].batch = {} /\ run'[w].cutoff = run[w].cutoff
  BY <1>3 DEF Purging, Purge, Run
<1>5. UNCHANGED <<clock, count, archive>> /\ UNCHANGED <<content, compute, trend, upload>>
  BY DEF Purging, Purge
<1>6. clean' = (clean /\ (run[w].table = Records => NoComputation))
  BY DEF Purging
<1>7. rows' = [rows EXCEPT ![run[w].table] = @ \ Matching(w)]
  BY DEF Purging, Purge
<1>8. /\ \A t \in Table : rows'[t] \subseteq rows[t]
      /\ \A t \in Table \ {run[w].table} : rows'[t] = rows[t]
  BY <1>3, <1>7, HistoryTypes DEF TypeOK
<1>9. HistoryTypeOK'
  BY <1>1, <1>5, <1>6 DEF HistoryInv, HistoryTypeOK, NamesInv, Inv
<1>10. Written'
  BY <1>2, <1>4, <1>5, <1>8 DEF HistoryInv, Written, Timely, ContentsOK, RequestsOK, ArchiveOK,
                               InArchive
<1>11. rows'[Records] \subseteq rows[Records] /\ rows'[Summaries] \subseteq rows[Summaries]
  BY <1>8, HistoryTypes
<1>12. Serials(rows'[Records]) \subseteq Serials(rows[Records])
  BY <1>11 DEF Serials
<1>13. Kept'
  <2>1. RecordsPlain' /\ YoungLeft'
    BY <1>2, <1>4, <1>5, <1>8, <1>11 DEF HistoryInv, Kept, RecordsPlain, YoungLeft
  <2>2. OneSummary' /\ NotOlder'
    BY <1>5, <1>11 DEF HistoryInv, Kept, OneSummary, NotOlder
  <2>3. Fresh'
    BY <1>5, <1>12 DEF HistoryInv, Kept, Fresh, Serials
  <2>4. Answering'
    BY <1>5 DEF HistoryInv, Kept, Answering, Shown, Covered, Serials, InArchive
  <2> QED BY <2>1, <2>2, <2>3, <2>4 DEF Kept
<1>14. InFlight'
  <2>1. CASE run[w].table = Records
    BY <1>5, <1>6, <2>1 DEF InFlight, NoComputation
  <2>2. CASE run[w].table # Records
    <3>1. rows'[Records] = rows[Records]
      BY <1>8, <2>2, HistoryTypes
    <3> QED BY <1>5, <1>6, <3>1 DEF HistoryInv, Apart, InFlight, Serials
  <2> QED BY <2>1, <2>2
<1>15. BatchThere'
  BY <1>2, <1>4 DEF BatchThere, Holding
<1>16. RecordsGone'
  BY <1>5, <1>6, <1>12 DEF HistoryInv, Apart, RecordsGone, InArchive, Serials
<1>17. ArchivedApart'
  BY <1>5, <1>6 DEF HistoryInv, Apart, ArchivedApart
<1>18. HotApart'
  <2>1. CASE run[w].table = Summaries
    <3> SUFFICES ASSUME clean PROVE rows'[Summaries] = {}
      BY <1>6 DEF HotApart
    <3>1. run[w].batch \subseteq rows[Summaries] /\ run[w].batch # {}
      BY <1>3, <2>1 DEF HistoryInv, Apart, BatchThere, NamesInv, Inv, GoodRun, GoodBatch, Holding
    <3>2. \A r \in rows[Summaries] : r \in run[w].batch
      BY <3>1 DEF HistoryInv, Kept, OneSummary
    <3>3. \A r \in rows[Summaries] : r \in Matching(w)
      BY <2>1, <3>2 DEF Matching, Ids
    <3>4. rows'[Summaries] = rows[Summaries] \ Matching(w)
      BY <1>7, <2>1, HistoryTypes DEF TypeOK
    <3> QED BY <3>3, <3>4
  <2>2. CASE run[w].table # Summaries
    <3>1. clean => \A s \in rows[Summaries], t \in InArchive :
                     content[s.serial] \cap content[t.serial] = {}
      BY <1>2, <2>2 DEF HistoryInv, Apart, HotApart, Between
    <3> QED BY <1>5, <1>6, <1>11, <3>1 DEF HotApart, InArchive
  <2> QED BY <2>1, <2>2
<1> QED BY <1>1, <1>9, <1>10, <1>13, <1>14, <1>15, <1>16, <1>17, <1>18
        DEF HistoryInv, HistoryTables, Apart

-----------------------------------------------------------------------------
\* A transaction that replaces all rows of a table.
LEMMA Rewritten ==
    ASSUME HistoryInv, NEW t \in Table, NEW n \in 1..MaxRows, Write(t, rows[t], n)
    PROVE  /\ NamesInv'
           /\ count' = count + n /\ count' \in Serial /\ count' \in Nat /\ count < count'
           /\ UNCHANGED <<clock, archive, run, purged>>
           /\ \A u \in Table \ {t} : rows'[u] = rows[u]
           /\ \A r \in rows'[t] : r.at = clock /\ r.serial > count /\ r.serial <= count'
           /\ n = 1 => \A r, s \in rows'[t] : r = s
           /\ n = 1 => \E r \in rows'[t] : r.serial = count'
<1>1. NamesInv'
  BY WriteNamesInv DEF HistoryInv
<1>2. /\ count \in Nat /\ MaxRows \in Nat /\ n \in Nat \ {0}
      /\ count' = count + n /\ count + n <= MaxRows
      /\ UNCHANGED <<clock, archive, run, purged>>
  BY HistoryTypes DEF Write
<1>3. PICK first : rows' = [rows EXCEPT ![t] = (@ \ rows[t]) \cup NewRows(first, n)]
  BY DEF Write
<1>4. rows'[t] = NewRows(first, n) /\ \A u \in Table \ {t} : rows'[u] = rows[u]
  BY <1>3, HistoryTypes DEF TypeOK
<1>5. \A r \in NewRows(first, n) : r.at = clock /\ r.serial > count /\ r.serial <= count'
  BY <1>2 DEF NewRows
<1>6. ASSUME n = 1
      PROVE  (\A r, s \in rows'[t] : r = s) /\ (\E r \in rows'[t] : r.serial = count')
  <2> DEFINE new == [id |-> first + 0, at |-> clock, serial |-> count + 1 + 0]
  <2>1. 0..(n - 1) = {0}
    BY <1>6
  <2>2. NewRows(first, n) = {new}
    BY <2>1 DEF NewRows
  <2>3. new.serial = count'
    BY <1>2, <1>6
  <2> QED BY <1>4, <2>2, <2>3
<1>7. count' \in Serial /\ count' \in Nat /\ count < count'
  BY <1>2 DEF Serial
<1> QED BY <1>1, <1>2, <1>4, <1>5, <1>6, <1>7

LEMMA ImportKeeps == ASSUME HistoryInv, Import PROVE HistoryInv'
<1>1. PICK n \in 1..MaxRows : Write(Records, rows[Records], n)
  BY DEF Import
<1>2. /\ Records \in Table /\ Summaries \in Table /\ Records # Summaries
      /\ count \in Nat /\ clock \in Nat /\ HotPeriod \in Nat
  BY HistoryTypes
<1>3. /\ NamesInv'
      /\ count' \in Serial /\ count' \in Nat /\ count < count'
      /\ UNCHANGED <<clock, archive, run, purged>>
      /\ \A u \in Table \ {Records} : rows'[u] = rows[u]
      /\ \A r \in rows'[Records] : r.at = clock /\ r.serial > count /\ r.serial <= count'
  BY <1>1, <1>2, Rewritten
<1>4. /\ UNCHANGED <<content, compute, trend>>
      /\ upload' = (count + 1)..count'
      /\ clean' = (clean /\ NoComputation)
  BY DEF Import
<1>5. rows'[Summaries] = rows[Summaries]
  BY <1>2, <1>3
<1>6. TypeOK' /\ rows'[Records] \in SUBSET Row
  BY <1>2, <1>3 DEF NamesInv, Inv, TypeOK
<1>7. \A r \in rows'[Records] : r.serial \in Serial
  BY <1>6, HistoryTypes
<1>8. \A r \in rows'[Records] : content[r.serial] = {}
  <2> SUFFICES ASSUME NEW r \in rows'[Records], NEW x \in content[r.serial] PROVE FALSE
    OBVIOUS
  <2>1. r.serial <= count
    BY <1>7 DEF HistoryInv, Written, ContentsOK
  <2>2. r.serial > count /\ r.serial \in Nat
    BY <1>3, <1>7, HistoryTypes
  <2> QED BY <1>2, <2>1, <2>2
<1>9. ASSUME NEW s \in Serial, NEW r \in rows'[Records] PROVE r.serial \notin content[s]
  <2>1. r.serial \in content[s] => r.serial <= count
    BY DEF HistoryInv, Written, ContentsOK
  <2>2. r.serial > count /\ r.serial \in Nat
    BY <1>3, <1>7, HistoryTypes
  <2> QED BY <1>2, <2>1, <2>2
<1>10. HistoryTypeOK'
  <2>1. \A x \in (count + 1)..count' : x \in Serial
    BY <1>2, <1>3, HistoryTypes DEF Serial
  <2>2. upload' \in SUBSET Serial
    BY <1>4, <2>1
  <2> QED BY <1>4, <1>6, <2>2 DEF HistoryInv, HistoryTypeOK
<1>11. Written'
  <2>1. Timely'
    <3>1. \A r \in rows'[Records] : r.at <= clock
      BY <1>2, <1>3
    <3> QED BY <1>3, <3>1 DEF HistoryInv, Written, Timely
  <2>2. \A x \in Nat : x <= count => x <= count'
    BY <1>2, <1>3
  <2>3. ContentsOK'
    <3>1. \A s \in Serial : s \in Nat /\ \A x \in content[s] : x \in Nat
      BY HistoryTypes
    <3> QED BY <1>4, <2>2, <3>1 DEF HistoryInv, Written, ContentsOK
  <2>4. RequestsOK'
    <3>1. \A w \in Worker : /\ \A x \in compute[w].records : x \in Nat
                            /\ \A s \in trend[w].hot : s.serial \in Nat
      BY HistoryTypes
    <3> QED BY <1>4, <2>2, <3>1 DEF HistoryInv, Written, RequestsOK
  <2>5. ArchiveOK'
    <3>1. /\ \A s \in InArchive : s.serial \in Nat
          /\ \A w \in Worker : \A s \in run[w].batch : s.serial \in Nat
      BY HistoryTypes
    <3> QED BY <1>3, <2>2, <3>1 DEF HistoryInv, Written, ArchiveOK, InArchive, Holding
  <2> QED BY <2>1, <2>3, <2>4, <2>5 DEF Written
<1>12. OneSummary'
  BY <1>5 DEF HistoryInv, Kept, OneSummary
<1>13. RecordsPlain'
  BY <1>3, <1>4, <1>8 DEF HistoryInv, Kept, RecordsPlain
<1>14. NotOlder'
  <2>1. \A s \in rows[Summaries] : s.serial \in Serial
    BY HistoryTypes
  <2> QED BY <1>4, <1>5, <1>9, <2>1 DEF NotOlder
<1>15. YoungLeft'
  <2> SUFFICES ASSUME NEW w \in Worker, run[w].table = Summaries, NEW r \in rows'[Records]
               PROVE  r.at >= run[w].cutoff
    BY <1>3 DEF HistoryInv, Kept, YoungLeft
  <2>1. Running(w)
    BY <1>2 DEF HistoryInv, Kept, YoungLeft, Running
  <2>2. run[w].cutoff <= clock - HotPeriod
    BY <2>1 DEF HistoryInv, NamesInv, Inv, GoodRun
  <2>3. run[w].cutoff \in Int /\ r.at = clock
    BY <1>3, HistoryTypes
  <2> QED BY <1>2, <2>2, <2>3
<1>16. Fresh'
  <2>1. \A s \in Serial : upload' \cap content[s] = {}
    <3> SUFFICES ASSUME NEW s \in Serial, NEW x \in upload', x \in content[s] PROVE FALSE
      OBVIOUS
    <3>1. x <= count
      BY DEF HistoryInv, Written, ContentsOK
    <3>2. x \in (count + 1)..count'
      BY <1>4
    <3> QED BY <1>2, <3>1, <3>2
  <2> QED BY <1>4, <2>1 DEF Fresh
<1>17. Answering'
  BY <1>3, <1>4 DEF HistoryInv, Kept, Answering, Shown, Covered, Serials, InArchive
<1>18. InFlight'
  BY <1>4 DEF InFlight, NoComputation
<1>19. BatchThere'
  BY <1>3, <1>4, <1>5 DEF HistoryInv, Apart, BatchThere, Holding
<1>20. RecordsGone'
  <2>1. \A s \in InArchive : s.serial \in Serial
    BY HistoryTypes
  <2>2. InArchive' = InArchive
    BY <1>3 DEF InArchive
  <2>3. ASSUME NEW s \in InArchive, NEW x \in content[s.serial] PROVE x \notin Serials(rows'[Records])
    BY <1>9, <2>1, <2>3 DEF Serials
  <2> QED BY <1>4, <2>2, <2>3 DEF RecordsGone, Serials
<1>21. ArchivedApart'
  BY <1>3, <1>4 DEF HistoryInv, Apart, ArchivedApart
<1>22. HotApart'
  BY <1>3, <1>4, <1>5 DEF HistoryInv, Apart, HotApart, InArchive, Between
<1> QED BY <1>3, <1>10, <1>11, <1>12, <1>13, <1>14, <1>15, <1>16, <1>17, <1>18, <1>19, <1>20,
           <1>21, <1>22 DEF HistoryInv, HistoryTables, Kept, Apart

LEMMA ComputeWriteKeeps == ASSUME HistoryInv, NEW w \in Worker, ComputeWrite(w) PROVE HistoryInv'
<1>1. /\ Records \in Table /\ Summaries \in Table /\ Records # Summaries
      /\ count \in Nat /\ MaxRows \in Nat
  BY HistoryTypes
<1>2. Write(Summaries, rows[Summaries], 1) /\ 1 \in 1..MaxRows
  <2>1. Write(Summaries, rows[Summaries], 1)
    BY DEF ComputeWrite, Overwritten
  <2>2. count + 1 <= MaxRows
    BY <2>1 DEF Write
  <2> QED BY <1>1, <2>1, <2>2
<1>3. /\ NamesInv'
      /\ count' = count + 1 /\ count' \in Serial /\ count' \in Nat /\ count < count'
      /\ UNCHANGED <<clock, archive, run, purged>>
      /\ \A u \in Table \ {Summaries} : rows'[u] = rows[u]
      /\ \A r \in rows'[Summaries] : r.at = clock /\ r.serial > count /\ r.serial <= count'
      /\ \A r, s \in rows'[Summaries] : r = s
  BY <1>1, <1>2, Rewritten
<1>4. /\ UNCHANGED <<trend, upload>>
      /\ content' = [content EXCEPT ![count'] = compute[w].records]
      /\ compute' = [compute EXCEPT ![w] = NoCompute]
      /\ clean' = (clean /\ \A v \in Worker : run[v].table = Summaries => run[v].batch = {})
      /\ compute[w].pc = "write"
  BY DEF ComputeWrite
<1>5. HistoryTypeOK /\ \A v \in Worker : v = w
  BY DEF HistoryInv, NamesInv, OneProcess
<1>6. content'[count'] = compute[w].records /\ \A s \in Serial : s <= count => content'[s] = content[s]
  BY <1>1, <1>3, <1>4, <1>5 DEF HistoryTypeOK
<1>7. compute'[w].pc = "idle" /\ compute'[w].records = {}
  BY <1>4, <1>5 DEF HistoryTypeOK, NoCompute
<1>8. rows'[Records] = rows[Records]
  BY <1>1, <1>3
<1>9. TypeOK' /\ rows'[Summaries] \in SUBSET Row
  BY <1>1, <1>3 DEF NamesInv, Inv, TypeOK
<1>10. \A s \in rows'[Summaries] : s.serial = count' /\ s.at = clock
  <2>1. \A s \in rows'[Summaries] : s.serial \in Nat
    BY <1>9, HistoryTypes
  <2> QED BY <1>1, <1>3, <2>1
<1>11. compute[w].records \in SUBSET Serial /\ \A x \in compute[w].records : x <= count
  BY HistoryTypes DEF HistoryInv, Written, RequestsOK
<1>12. \A s \in InArchive : content'[s.serial] = content[s.serial]
  <2>1. \A s \in InArchive : s.serial \in Serial /\ s.serial <= count
    BY HistoryTypes DEF HistoryInv, Written, ArchiveOK
  <2> QED BY <1>6, <2>1
<1>13. HistoryTypeOK'
  <2>1. content' \in [Serial -> SUBSET Serial]
    BY <1>4, <1>5, <1>11 DEF HistoryTypeOK
  <2>2. compute' \in [Worker -> [pc : {"idle", "write"}, records : SUBSET Serial]]
    BY <1>4, <1>5 DEF HistoryTypeOK, NoCompute
  <2>3. clean' \in BOOLEAN
    BY <1>4, <1>5
  <2> QED BY <1>4, <1>5, <1>9, <2>1, <2>2, <2>3 DEF HistoryTypeOK
<1>14. \A x \in Nat : x <= count => x <= count'
  BY <1>1, <1>3
<1>15. Timely'
  <2>1. \A s \in rows'[Summaries] : s.at <= clock
    BY <1>10, HistoryTypes
  <2> QED BY <1>3, <2>1 DEF HistoryInv, Written, Timely
<1>16. ContentsOK'
  <2> SUFFICES ASSUME NEW s \in Serial, NEW x \in content'[s] PROVE s <= count' /\ x <= count'
    BY DEF ContentsOK
  <2>1. CASE s = count'
    <3>1. x \in Nat /\ x <= count
      BY <1>6, <1>11, <2>1, HistoryTypes
    <3> QED BY <1>3, <1>14, <2>1, <3>1
  <2>2. CASE s # count'
    <3>1. x \in content[s]
      BY <1>4, <1>5, <2>2 DEF HistoryTypeOK
    <3>2. x \in Nat /\ s \in Nat /\ s <= count /\ x <= count
      BY <3>1, HistoryTypes DEF HistoryInv, Written, ContentsOK
    <3> QED BY <1>14, <3>2
  <2> QED BY <2>1, <2>2
<1>17. RequestsOK'
  <2>1. \A s \in trend[w].hot : s.serial \in Nat /\ s.serial <= count
    BY HistoryTypes DEF HistoryInv, Written, RequestsOK
  <2> QED BY <1>4, <1>5, <1>7, <1>14, <2>1 DEF RequestsOK
<1>18. ArchiveOK'
  <2>1. /\ \A s \in InArchive : s.serial \in Nat
        /\ \A v \in Worker : \A s \in run[v].batch : s.serial \in Nat
    BY HistoryTypes
  <2> QED BY <1>3, <1>14, <2>1 DEF HistoryInv, Written, ArchiveOK, InArchive, Holding
<1>19. OneSummary'
  BY <1>3 DEF OneSummary
<1>20. RecordsPlain'
  <2>1. \A t \in Table \ {Summaries} : \A r \in rows[t] : r.serial \in Serial /\ r.serial <= count
    BY HistoryTypes
  <2>2. \A v \in Worker : \A s \in run[v].batch : s.serial \in Serial /\ s.serial <= count
    BY HistoryTypes DEF HistoryInv, Written, ArchiveOK
  <2> QED BY <1>3, <1>6, <2>1, <2>2 DEF HistoryInv, Kept, RecordsPlain
<1>21. NotOlder'
  <2>1. \A r \in rows[Records] : r.at <= clock
    BY <1>1 DEF HistoryInv, Written, Timely
  <2> QED BY <1>8, <1>10, <2>1 DEF NotOlder
<1>22. YoungLeft'
  BY <1>3, <1>8 DEF HistoryInv, Kept, YoungLeft
<1>23. Fresh' /\ InFlight'
  BY <1>5, <1>7 DEF Fresh, InFlight
<1>24. Answering'
  <2> SUFFICES ASSUME trend[w].pc = "archive" PROVE trend[w].asked \subseteq Shown(w)'
    BY <1>4, <1>5 DEF Answering
  <2>1. trend[w].asked \subseteq Shown(w)
    BY DEF HistoryInv, Kept, Answering
  <2>2. \A s \in trend[w].hot : content'[s.serial] = content[s.serial]
    <3>1. \A s \in trend[w].hot : s.serial \in Serial /\ s.serial <= count
      BY HistoryTypes DEF HistoryInv, Written, RequestsOK
    <3> QED BY <1>6, <3>1
  <2>3. InArchive' = InArchive /\ trend' = trend
    BY <1>3, <1>4 DEF InArchive
  <2>4. Shown(w) \subseteq Shown(w)'
    BY <1>12, <2>2, <2>3 DEF Shown, Covered, Serials
  <2> QED BY <2>1, <2>4
<1>25. BatchThere'
  BY <1>3, <1>4, <1>5 DEF BatchThere, Holding
<1>26. RecordsGone'
  BY <1>3, <1>4, <1>8, <1>12 DEF HistoryInv, Apart, RecordsGone, Serials, InArchive
<1>27. ArchivedApart'
  <2> SUFFICES ASSUME clean, NEW o \in archive, NEW p \in archive, NEW s \in o.rows,
                      NEW t \in p.rows, content'[s.serial] \cap content'[t.serial] # {}
               PROVE  o = p /\ s = t
    BY <1>3, <1>4 DEF ArchivedApart
  <2>1. content'[s.serial] = content[s.serial] /\ content'[t.serial] = content[t.serial]
    BY <1>12 DEF InArchive
  <2> QED BY <2>1 DEF HistoryInv, Apart, ArchivedApart
<1>28. HotApart'
  <2> SUFFICES ASSUME clean', NEW s \in rows'[Summaries], NEW t \in InArchive
               PROVE  content'[s.serial] \cap content'[t.serial] = {}
    BY <1>3 DEF HotApart, InArchive
  <2>1. content'[s.serial] = Serials(rows[Records])
    BY <1>4, <1>6, <1>10 DEF HistoryInv, Apart, InFlight
  <2>2. content[t.serial] \cap Serials(rows[Records]) = {}
    BY <1>4 DEF HistoryInv, Apart, RecordsGone
  <2> QED BY <1>12, <2>1, <2>2
<1> QED BY <1>3, <1>13, <1>15, <1>16, <1>17, <1>18, <1>19, <1>20, <1>21, <1>22, <1>23, <1>24,
           <1>25, <1>26, <1>27, <1>28 DEF HistoryInv, HistoryTables, Written, Kept, Apart

LEMMA HistoryNextInv == HistoryInv /\ [HistoryNext]_historyVars => HistoryInv'
<1> SUFFICES ASSUME HistoryInv, [HistoryNext]_historyVars PROVE HistoryInv'
  OBVIOUS
<1>1. CASE UNCHANGED historyVars
  <2>1. /\ UNCHANGED <<clock, rows, count, archive, run, purged>>
        /\ UNCHANGED <<content, compute, trend, upload, clean>>
    BY <1>1 DEF historyVars
  <2>2. HistoryTypeOK' /\ RequestsOK'
    BY <2>1 DEF HistoryInv, HistoryTypeOK, TypeOK, Written, RequestsOK
  <2>3. Fresh' /\ Answering' /\ InFlight'
    BY <2>1 DEF HistoryInv, Kept, Apart, Fresh, Answering, InFlight, Shown, Covered, Serials,
                InArchive
  <2> QED BY <2>1, <2>2, <2>3, RequestKeeps
<1>2. CASE Import
  BY <1>2, ImportKeeps
<1>3. ASSUME NEW w \in Worker,
             \/ ComputeRead(w) \/ ComputeWrite(w) \/ ComputeFails(w)
             \/ TrendRead(w) \/ TrendAnswer(w)
             \/ Archiving(w) \/ Purging(w) \/ Stopping(w)
      PROVE  HistoryInv'
  <2>1. CASE ComputeRead(w) \/ ComputeWrite(w) \/ ComputeFails(w)
    BY <2>1, ComputeReadInv, ComputeWriteKeeps, ComputeFailsInv
  <2>2. CASE TrendRead(w) \/ TrendAnswer(w)
    BY <2>2, TrendInv
  <2>3. CASE Archiving(w)
    BY <2>3, BeginKeeps, QueryKeeps, TurnKeeps, UploadKeeps DEF Archiving
  <2>4. CASE Purging(w) \/ Stopping(w)
    BY <2>4, PurgeKeeps, StopKeeps
  <2> QED BY <1>3, <2>1, <2>2, <2>3, <2>4
<1>4. CASE Ticking
  BY <1>4, TickKeeps
<1> QED BY <1>1, <1>2, <1>3, <1>4 DEF HistoryNext

\* A set of one element at most.
LEMMA AtMostOne ==
    ASSUME NEW S, \A x, y \in S : x = y
    PROVE  Cardinality(S) \in 0..1 /\ (S = {} => Cardinality(S) = 0)
<1>1. CASE S = {}
  BY <1>1, FS_EmptySet
<1>2. CASE S # {}
  <2>1. PICK x \in S : TRUE
    BY <1>2
  <2>2. S = {x}
    BY <2>1
  <2> QED BY <1>2, <2>2, FS_Singleton
<1> QED BY <1>1, <1>2

\* Where runs and computations kept apart, hot and archived summaries together
\* count a record once.
LEMMA CountedOnceThen == HistoryInv => CountedOnce
<1> SUFFICES ASSUME HistoryInv, clean, \A w \in Worker : ~Between(w), NEW r \in Serial
             PROVE  Cardinality(Counting(r)) + Cardinality(ArchivedCounting(r)) <= 1
  BY DEF CountedOnce
<1>1. \A s, t \in Counting(r) : s = t
  BY DEF HistoryInv, Kept, OneSummary, Counting
<1>2. \A p, q \in ArchivedCounting(r) : p = q
  <2> SUFFICES ASSUME NEW p \in ArchivedCounting(r), NEW q \in ArchivedCounting(r) PROVE p = q
    OBVIOUS
  <2>1. /\ p \in archive \X InArchive /\ p[2] \in p[1].rows /\ r \in content[p[2].serial]
        /\ q \in archive \X InArchive /\ q[2] \in q[1].rows /\ r \in content[q[2].serial]
    BY DEF ArchivedCounting
  <2>2. p[1] \in archive /\ q[1] \in archive /\ p = <<p[1], p[2]>> /\ q = <<q[1], q[2]>>
    BY <2>1
  <2>3. p[1] = q[1] /\ p[2] = q[2]
    BY <2>1, <2>2 DEF HistoryInv, Apart, ArchivedApart
  <2> QED BY <2>2, <2>3
<1>3. Counting(r) = {} \/ ArchivedCounting(r) = {}
  <2> SUFFICES ASSUME NEW s \in Counting(r), NEW p \in ArchivedCounting(r) PROVE FALSE
    OBVIOUS
  <2>1. s \in rows[Summaries] /\ r \in content[s.serial]
    BY DEF Counting
  <2>2. p[2] \in InArchive /\ r \in content[p[2].serial]
    BY DEF ArchivedCounting
  <2> QED BY <2>1, <2>2 DEF HistoryInv, Apart, HotApart
<1>4. /\ Cardinality(Counting(r)) \in 0..1
      /\ Counting(r) = {} => Cardinality(Counting(r)) = 0
  BY <1>1, AtMostOne
<1>5. /\ Cardinality(ArchivedCounting(r)) \in 0..1
      /\ ArchivedCounting(r) = {} => Cardinality(ArchivedCounting(r)) = 0
  BY <1>2, AtMostOne
<1> QED BY <1>3, <1>4, <1>5

\* get_cost_trend (api.py): with one process, whatever retention moves between the
\* read of the database and the read of the archive, the answer has every record
\* that was summed up when it was asked for; and outside the moments when a run and
\* a computation meet or a run stops between upload and delete, no record is in two
\* of the summaries that it adds up.
THEOREM TrendTrueHolds == HistoryTables /\ OneProcess /\ HistorySpec => TrendTrue
<1>1. HistoryInv => HistoryTypeOK /\ CountedOnce
  BY CountedOnceThen DEF HistoryInv
<1>2. HistoryInv /\ [HistoryNext]_historyVars
        => [\A w \in Worker : TrendAnswer(w) => trend[w].asked \subseteq Shown(w)]_historyVars
  BY DEF HistoryInv, Kept, Answering, TrendAnswer
<1> QED BY <1>1, <1>2, InitHistory, HistoryNextInv, PTL DEF HistorySpec, TrendTrue, TrendComplete

\* compute_period_summaries (api.py): with one process, computing the summaries again
\* keeps in the trend every record of the latest upload that it had and that
\* retention has not deleted.
THEOREM RecomputeKeepsHolds == HistoryTables /\ OneProcess /\ HistorySpec => RecomputeKeeps
<1> DEFINE Trended == Covered(rows[Summaries] \cup InArchive)
           Trends == \A w \in Worker : ComputeWrite(w) =>
                      upload \cap Trended \cap Serials(rows[Records]) \subseteq Trended'
<1>1. ASSUME HistoryInv PROVE Trends
  <2> SUFFICES ASSUME NEW w \in Worker, ComputeWrite(w), NEW x \in upload,
                      x \in Trended, x \in Serials(rows[Records])
               PROVE  x \in Trended'
    OBVIOUS
  <2>1. x \in compute[w].records
    <3>1. PICK s \in rows[Summaries] \cup InArchive : x \in content[s.serial]
      BY DEF Covered, Serials
    <3>2. s.serial \in Serial
      BY HistoryTypes, <1>1
    <3>3. compute[w].pc = "write"
      BY DEF ComputeWrite
    <3>4. ~(upload \cap content[s.serial] = {})
      BY <3>1
    <3> QED BY <1>1, <3>2, <3>3, <3>4 DEF HistoryInv, Kept, Fresh
  <2>2. Summaries \in Table /\ count \in Nat
    BY <1>1, HistoryTypes
  <2>3. Write(Summaries, rows[Summaries], 1) /\ 1 \in 1..MaxRows
    <3>1. Write(Summaries, rows[Summaries], 1)
      BY DEF ComputeWrite, Overwritten
    <3>2. count + 1 <= MaxRows /\ MaxRows \in Nat
      BY <1>1, <3>1, HistoryTypes DEF Write
    <3> QED BY <2>2, <3>1, <3>2
  <2>4. PICK r \in rows'[Summaries] : r.serial = count'
    BY <1>1, <2>2, <2>3, Rewritten
  <2>5. count' \in Serial
    BY <1>1, <2>2, <2>3, Rewritten
  <2>6. content'[r.serial] = compute[w].records
    BY <1>1, <2>4, <2>5 DEF HistoryInv, HistoryTypeOK, ComputeWrite
  <2> QED BY <2>1, <2>4, <2>6 DEF Covered, Serials
<1>2. HistoryInv /\ [HistoryNext]_historyVars => [Trends]_historyVars
  BY <1>1
<1> QED BY <1>2, InitHistory, HistoryNextInv, PTL DEF HistorySpec, RecomputeKeeps
=============================================================================
