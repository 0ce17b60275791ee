------------------------ MODULE ScanControl_proofs ------------------------
(***************************************************************************)
(* What TLAPS proves of ScanControl, for any number of processes,          *)
(* customers and providers, any clock, cadence and number of crashes.      *)
(***************************************************************************)
EXTENDS ScanControl, TLAPS

USE DEF Entry

WithCustomer == {"overdue", "create", "scanning", "triggered", "retry",
                 "asleep", "giveup", "exporting"}

\* What a pass knows at each point.
PassOK(r) ==
    /\ r.pc \in WithCustomer => r.cust \in Customer
    /\ r.pc = "asleep" => r.attempt < MaxAttempts

\* A pass has the event loop of its process except during its backoff.
PassShape ==
    \A w \in Worker, e \in Entry :
        /\ PassOK(pass[w][e])
        /\ pass[w][e].pc \notin {"idle", "asleep"} => loop[w] = e

\* Who has the event loop while a process executes a scan.
ScanShape ==
    \A w \in Worker :
        /\ scan[w].pc # "off" => scan[w].id \in ScanId
        /\ scan[w].pc = "insert" => loop[w] = "request"
        /\ Active(w) /\ scan[w].via = "bg" => loop[w] = "scan"
        /\ Active(w) /\ scan[w].via # "bg" =>
             /\ loop[w] = scan[w].via
             /\ pass[w][scan[w].via].pc = "scanning"

Shape == TypeOK /\ PassShape /\ ScanShape

LEMMA InitShape == Init => Shape
  BY BoundsAssumption DEF Init, Shape, TypeOK, PassShape, PassOK, ScanShape, Active, Time,
     PermissionState, RunState, PassRecord, ScanRecord, IdlePass, NoScan, NoRun,
     PassPc, ScanPc, WithCustomer

-----------------------------------------------------------------------------
(* Updates of one entry of pass or scan.                                   *)

LEMMA PassUpdate ==
  ASSUME TypeOK, NEW w \in Worker, NEW e \in Entry, NEW r \in PassRecord,
         SetPass(w, e, r)
  PROVE  /\ pass' \in [Worker -> [Entry -> PassRecord]]
         /\ pass'[w][e] = r
         /\ \A v \in Worker, f \in Entry : v # w \/ f # e => pass'[v][f] = pass[v][f]
  BY DEF TypeOK, SetPass

LEMMA ScanUpdate ==
  ASSUME TypeOK, NEW w \in Worker, NEW r \in ScanRecord, SetScan(w, r)
  PROVE  /\ scan' \in [Worker -> ScanRecord]
         /\ scan'[w] = r
         /\ \A v \in Worker : v # w => scan'[v] = scan[v]
  BY DEF TypeOK, SetScan

\* A process whose pass has the event loop, outside a scan, executes none.
LEMMA PassAlone ==
  ASSUME Shape, NEW w \in Worker, NEW e \in Entry,
         loop[w] = e, pass[w][e].pc # "scanning"
  PROVE  scan[w].pc = "off"
  BY DEF Shape, ScanShape, Active, TypeOK, ScanRecord

LEMMA FreeIsIdle ==
  ASSUME Shape, NEW w \in Worker, loop[w] = "free"
  PROVE  /\ scan[w].pc = "off"
         /\ \A e \in Entry : pass[w][e].pc \in {"idle", "asleep"}
<1>1. \A e \in Entry : pass[w][e].pc \in {"idle", "asleep"}
  BY DEF Shape, PassShape
<1>2. scan[w].via \in {"bg"} \cup Entry
  BY DEF Shape, TypeOK, ScanRecord
<1>3. scan[w].pc # "insert" /\ ~Active(w)
  BY <1>2 DEF Shape, ScanShape
<1> QED BY <1>1, <1>3 DEF Active

\* A step of a pass that leaves the scan alone.
LEMMA PassMove ==
  ASSUME Shape, NEW w \in Worker, NEW e \in Entry, NEW r \in PassRecord,
         loop[w] = e, pass[w][e].pc # "scanning",
         PassOK(r), SetPass(w, e, r), UNCHANGED scan,
         \/ UNCHANGED loop
         \/ loop' = [loop EXCEPT ![w] = "free"] /\ r.pc \in {"idle", "asleep"}
  PROVE  /\ pass' \in [Worker -> [Entry -> PassRecord]]
         /\ loop' \in [Worker -> {"free", "request", "scan"} \cup Entry]
         /\ PassShape'
         /\ ScanShape'
<1> USE DEF Shape
<1>1. scan[w].pc = "off"
  BY PassAlone
<1>2. /\ pass' \in [Worker -> [Entry -> PassRecord]]
      /\ pass'[w][e] = r
      /\ \A v \in Worker, f \in Entry : v # w \/ f # e => pass'[v][f] = pass[v][f]
  BY PassUpdate
<1>3. loop' \in [Worker -> {"free", "request", "scan"} \cup Entry]
  BY DEF TypeOK
<1>4. \A v \in Worker : v # w => loop'[v] = loop[v]
  BY DEF TypeOK
<1>5. PassShape'
  <2> SUFFICES ASSUME NEW v \in Worker, NEW f \in Entry
               PROVE  /\ PassOK(pass[v][f])'
                      /\ pass'[v][f].pc \notin {"idle", "asleep"} => loop'[v] = f
    BY DEF PassShape
  <2>1. CASE v = w /\ f = e
    BY <1>2, <2>1 DEF PassOK
  <2>2. CASE v = w /\ f # e
    <3>1. pass'[v][f] = pass[v][f]
      BY <1>2, <2>2
    <3>2. pass[v][f].pc \in {"idle", "asleep"}
      BY <2>2 DEF PassShape
    <3> QED BY <3>1, <3>2 DEF PassShape, PassOK
  <2>3. CASE v # w
    BY <1>2, <1>4, <2>3 DEF PassShape, PassOK
  <2> QED BY <2>1, <2>2, <2>3
<1>6. ScanShape'
  <2> SUFFICES ASSUME NEW v \in Worker, v # w
               PROVE  /\ scan[v].pc # "off" => scan[v].id \in ScanId
                      /\ scan[v].pc = "insert" => loop'[v] = "request"
                      /\ Active(v) /\ scan[v].via = "bg" => loop'[v] = "scan"
                      /\ Active(v) /\ scan[v].via # "bg" =>
                           /\ loop'[v] = scan[v].via
                           /\ pass'[v][scan[v].via].pc = "scanning"
    BY <1>1 DEF ScanShape, Active
  <2>1. scan[v].via # "bg" => scan[v].via \in Entry
    BY DEF TypeOK, ScanRecord
  <2> QED BY <1>2, <1>4, <2>1 DEF ScanShape
<1> QED BY <1>2, <1>3, <1>5, <1>6

\* A step inside a scan.
LEMMA ScanMove ==
  ASSUME Shape, NEW w \in Worker, NEW r \in ScanRecord,
         Active(w), r.pc \notin {"off", "insert"},
         r.id = scan[w].id, r.via = scan[w].via,
         SetScan(w, r), UNCHANGED <<loop, pass>>
  PROVE  /\ scan' \in [Worker -> ScanRecord]
         /\ PassShape'
         /\ ScanShape'
<1> USE DEF Shape
<1>1. /\ scan' \in [Worker -> ScanRecord]
      /\ scan'[w] = r
      /\ \A v \in Worker : v # w => scan'[v] = scan[v]
  BY ScanUpdate
<1>2. PassShape'
  BY DEF PassShape, PassOK
<1>3. ScanShape'
  BY <1>1 DEF ScanShape, Active
<1> QED BY <1>1, <1>2, <1>3

\* The end of a scan.
LEMMA ScanReturn ==
  ASSUME Shape, NEW w \in Worker, NEW ok \in BOOLEAN, Active(w), Return(w, ok)
  PROVE  /\ scan' \in [Worker -> ScanRecord]
         /\ pass' \in [Worker -> [Entry -> PassRecord]]
         /\ loop' \in [Worker -> {"free", "request", "scan"} \cup Entry]
         /\ PassShape'
         /\ ScanShape'
<1> USE DEF Shape
<1>1. NoScan \in ScanRecord
  BY DEF NoScan, ScanRecord, ScanPc
<1>2. /\ scan' \in [Worker -> ScanRecord]
      /\ scan'[w] = NoScan
      /\ \A v \in Worker : v # w => scan'[v] = scan[v]
  BY <1>1, ScanUpdate DEF Return
<1>3. scan'[w].pc = "off"
  BY <1>2 DEF NoScan
<1>4. CASE scan[w].via = "bg"
  <2>1. loop' = [loop EXCEPT ![w] = "free"] /\ pass' = pass
    BY <1>4 DEF Return
  <2>2. loop' \in [Worker -> {"free", "request", "scan"} \cup Entry]
    BY <2>1 DEF TypeOK
  <2>3. loop[w] = "scan"
    BY <1>4 DEF ScanShape
  <2>4. PassShape'
    BY <2>1, <2>3 DEF PassShape, PassOK, TypeOK
  <2>5. ScanShape'
    BY <1>2, <1>3, <2>1 DEF ScanShape, Active, TypeOK
  <2> QED BY <1>2, <2>1, <2>2, <2>4, <2>5 DEF TypeOK
<1>5. CASE scan[w].via # "bg"
  <2> DEFINE e == scan[w].via
             r == [pass[w][e] EXCEPT !.pc = IF ok THEN "triggered" ELSE "retry"]
  <2>1. e \in Entry /\ loop[w] = e /\ pass[w][e].pc = "scanning"
    BY <1>5 DEF ScanShape, TypeOK, ScanRecord
  <2>2. SetPass(w, e, r) /\ loop' = loop
    BY <1>5 DEF Return
  <2>3. pass[w][e] \in PassRecord /\ pass[w][e].cust \in Customer
    BY <2>1 DEF TypeOK, PassShape, PassOK, WithCustomer
  <2>4. r \in PassRecord /\ r.pc \in {"triggered", "retry"} /\ r.cust \in Customer
    BY <2>3 DEF PassRecord, PassPc
  <2> HIDE DEF e, r
  <2>5. /\ pass' \in [Worker -> [Entry -> PassRecord]]
        /\ pass'[w][e] = r
        /\ \A v \in Worker, f \in Entry : v # w \/ f # e => pass'[v][f] = pass[v][f]
    BY <2>1, <2>2, <2>4, PassUpdate
  <2>6. PassShape'
    BY <2>1, <2>2, <2>4, <2>5 DEF PassShape, PassOK
  <2>7. ScanShape'
    <3> SUFFICES ASSUME NEW v \in Worker, v # w
                 PROVE  /\ scan[v].pc # "off" => scan[v].id \in ScanId
                        /\ scan[v].pc = "insert" => loop'[v] = "request"
                        /\ Active(v) /\ scan[v].via = "bg" => loop'[v] = "scan"
                        /\ Active(v) /\ scan[v].via # "bg" =>
                             /\ loop'[v] = scan[v].via
                             /\ pass'[v][scan[v].via].pc = "scanning"
      BY <1>2, <1>3 DEF ScanShape, Active
    <3>1. scan[v].via # "bg" => scan[v].via \in Entry
      BY DEF TypeOK, ScanRecord
    <3> QED BY <2>2, <2>5, <3>1 DEF ScanShape
  <2> QED BY <1>2, <2>2, <2>5, <2>6, <2>7 DEF TypeOK
<1> QED BY <1>4, <1>5

LEMMA AttemptIdType ==
  ASSUME TypeOK, NEW w \in Worker, NEW e \in Entry, pass[w][e].cust \in Customer
  PROVE  AttemptId(w, e) \in ScanId
<1>1. pass[w][e] \in PassRecord
  BY DEF TypeOK
<1>2. pass[w][e].now \in Time /\ pass[w][e].attempt \in 1..MaxAttempts
  BY <1>1 DEF PassRecord
<1> QED
  BY <1>2 DEF AttemptId, ScanId

LEMMA NewScanType ==
  ASSUME NEW id \in ScanId, NEW via \in {"bg"} \cup Entry, NEW pc \in ScanPc
  PROVE  /\ NewScan(id, via, pc) \in ScanRecord
         /\ NewScan(id, via, pc).pc = pc
         /\ NewScan(id, via, pc).id = id
         /\ NewScan(id, via, pc).via = via
         /\ NewScan(id, via, pc).fresh = {}
         /\ NewScan(id, via, pc).ok = {}
  BY DEF NewScan, NoScan, ScanRecord, ScanPc

\* A process without a running pass takes up, or puts down, a scan.
LEMMA LoopMove ==
  ASSUME Shape, NEW w \in Worker, NEW r \in ScanRecord,
         NEW l \in {"free", "request", "scan"},
         loop[w] \notin Entry, SetScan(w, r), loop' = [loop EXCEPT ![w] = l],
         UNCHANGED pass,
         \/ r.pc = "off"
         \/ r.pc = "insert" /\ l = "request" /\ r.id \in ScanId
         \/ r.pc = "fetch" /\ l = "scan" /\ r.id \in ScanId /\ r.via = "bg"
  PROVE  /\ scan' \in [Worker -> ScanRecord]
         /\ loop' \in [Worker -> {"free", "request", "scan"} \cup Entry]
         /\ PassShape'
         /\ ScanShape'
<1> USE DEF Shape
<1>1. /\ scan' \in [Worker -> ScanRecord]
      /\ scan'[w] = r
      /\ \A v \in Worker : v # w => scan'[v] = scan[v]
  BY ScanUpdate
<1>2. /\ loop' \in [Worker -> {"free", "request", "scan"} \cup Entry]
      /\ loop'[w] = l
      /\ \A v \in Worker : v # w => loop'[v] = loop[v]
  BY DEF TypeOK
<1>3. \A e \in Entry : pass[w][e].pc \in {"idle", "asleep"}
  BY DEF PassShape
<1>4. PassShape'
  BY <1>2, <1>3 DEF PassShape, PassOK
<1>5. ScanShape'
  BY <1>1, <1>2 DEF ScanShape, Active
<1> QED BY <1>1, <1>2, <1>4, <1>5

-----------------------------------------------------------------------------
(* Every action preserves Shape.                                           *)

LEMMA PermissionShape ==
  ASSUME Shape, PermissionHandler
  PROVE  Shape'
<1>1. PICK c \in Customer, s \in PermissionState : SetPermission(c, s)
  BY DEF PermissionHandler, RequestApproval, Approve, Pause, Resume, UpdatePolicy,
     PermissionState
<1>2. UNCHANGED <<clock, runs, accounts, snaps, overdue, failures, exported, writer,
                   busy, loop, pass, queue, scan, crashes>>
  BY <1>1 DEF SetPermission, process
<1>3. perm' \in [Customer -> PermissionState]
  BY <1>1 DEF SetPermission, Shape, TypeOK
<1>4. TypeOK'
  BY <1>2, <1>3 DEF Shape, TypeOK
<1>5. PassShape' /\ ScanShape'
  BY <1>2 DEF Shape, PassShape, PassOK, ScanShape, Active
<1> QED BY <1>4, <1>5 DEF Shape

LEMMA StartShape ==
  ASSUME Shape, NEW w \in Worker, NEW c \in Customer, StartScan(w, c)
  PROVE  Shape'
<1> DEFINE id == [cust |-> c, at |-> clock, tag |-> 1]
<1>1. id \in ScanId
  BY BoundsAssumption DEF ScanId, Shape, TypeOK
<1>2. /\ loop[w] \notin Entry
      /\ loop' = [loop EXCEPT ![w] = "request"]
      /\ SetScan(w, NewScan(id, "bg", "insert"))
      /\ UNCHANGED <<clock, db, busy, pass, queue, crashes>>
  BY DEF StartScan
<1> HIDE DEF id
<1>0. /\ NewScan(id, "bg", "insert") \in ScanRecord
      /\ NewScan(id, "bg", "insert").pc = "insert"
      /\ NewScan(id, "bg", "insert").id = id
      /\ NewScan(id, "bg", "insert").via = "bg"
  BY <1>1, NewScanType DEF ScanPc
<1>3. /\ scan' \in [Worker -> ScanRecord]
      /\ loop' \in [Worker -> {"free", "request", "scan"} \cup Entry]
      /\ PassShape'
      /\ ScanShape'
  BY <1>0, <1>1, <1>2, LoopMove
<1> QED BY <1>2, <1>3 DEF Shape, TypeOK, db

LEMMA AddShape ==
  ASSUME Shape, NEW w \in Worker, NEW c \in Customer, AddCredentials(w, c)
  PROVE  Shape'
<1>1. PICK u \in Uuid : SetScan(w, NewScan([cust |-> c, at |-> clock, tag |-> u],
                                            "bg", "insert"))
  BY DEF AddCredentials
<1> DEFINE id == [cust |-> c, at |-> clock, tag |-> u]
<1>2. id \in ScanId
  BY DEF ScanId, Shape, TypeOK
<1>3. /\ loop[w] \notin Entry
      /\ loop' = [loop EXCEPT ![w] = "request"]
      /\ perm' = [perm EXCEPT ![c] = "approved"]
      /\ UNCHANGED <<clock, runs, accounts, snaps, overdue, failures, exported, writer,
                      busy, pass, queue, crashes>>
  BY DEF AddCredentials, Handler
<1>4. perm' \in [Customer -> PermissionState]
  BY <1>3 DEF Shape, TypeOK, PermissionState
<1>5. SetScan(w, NewScan(id, "bg", "insert"))
  BY <1>1
<1> HIDE DEF id
<1>0. /\ NewScan(id, "bg", "insert") \in ScanRecord
      /\ NewScan(id, "bg", "insert").pc = "insert"
      /\ NewScan(id, "bg", "insert").id = id
      /\ NewScan(id, "bg", "insert").via = "bg"
  BY <1>2, NewScanType DEF ScanPc
<1>6. /\ scan' \in [Worker -> ScanRecord]
      /\ loop' \in [Worker -> {"free", "request", "scan"} \cup Entry]
      /\ PassShape'
      /\ ScanShape'
  BY <1>0, <1>2, <1>3, <1>5, LoopMove
<1> QED BY <1>3, <1>4, <1>6 DEF Shape, TypeOK

LEMMA InsertShape ==
  ASSUME Shape, NEW w \in Worker, InsertRun(w) \/ RejectInsert(w)
  PROVE  Shape'
<1>1. /\ scan[w].id \in ScanId
      /\ loop[w] \notin Entry
  BY DEF InsertRun, RejectInsert, Shape, ScanShape
<1>2. /\ SetScan(w, NoScan)
      /\ loop' = [loop EXCEPT ![w] = "free"]
      /\ UNCHANGED <<clock, perm, accounts, snaps, overdue, failures, exported, writer,
                      busy, pass, crashes>>
  BY DEF InsertRun, RejectInsert, db
<1>3. NoScan \in ScanRecord /\ NoScan.pc = "off"
  BY DEF NoScan, ScanRecord, ScanPc
<1>4. /\ scan' \in [Worker -> ScanRecord]
      /\ loop' \in [Worker -> {"free", "request", "scan"} \cup Entry]
      /\ PassShape'
      /\ ScanShape'
  BY <1>1, <1>2, <1>3, LoopMove
<1>5. /\ runs' \in [ScanId -> [state : RunState, at : Time]]
      /\ queue' \in [Worker -> SUBSET ScanId]
  <2>1. CASE RejectInsert(w)
    BY <2>1 DEF RejectInsert, db, Shape, TypeOK
  <2>2. CASE InsertRun(w)
    <3>1. /\ runs' = [runs EXCEPT ![scan[w].id].state = "running"]
          /\ queue' = [queue EXCEPT ![w] = @ \cup {scan[w].id}]
      BY <2>2 DEF InsertRun, Insert
    <3>2. queue' \in [Worker -> SUBSET ScanId]
      BY <1>1, <3>1 DEF Shape, TypeOK
    <3>3. runs' \in [ScanId -> [state : RunState, at : Time]]
      BY <1>1, <3>1 DEF Shape, TypeOK, RunState
    <3> QED BY <3>2, <3>3
  <2> QED BY <2>1, <2>2
<1> QED BY <1>2, <1>4, <1>5 DEF Shape, TypeOK

LEMMA QueuedShape ==
  ASSUME Shape, NEW w \in Worker, NEW id \in queue[w], BeginQueued(w, id)
  PROVE  Shape'
<1>1. id \in ScanId
  BY DEF Shape, TypeOK
<1>2. /\ loop[w] \notin Entry
      /\ loop' = [loop EXCEPT ![w] = "scan"]
      /\ SetScan(w, NewScan(id, "bg", "fetch"))
      /\ UNCHANGED <<clock, db, busy, pass, crashes>>
  BY DEF BeginQueued
<1>0. /\ NewScan(id, "bg", "fetch") \in ScanRecord
      /\ NewScan(id, "bg", "fetch").pc = "fetch"
      /\ NewScan(id, "bg", "fetch").id = id
      /\ NewScan(id, "bg", "fetch").via = "bg"
  BY <1>1, NewScanType DEF ScanPc
<1>3. /\ scan' \in [Worker -> ScanRecord]
      /\ loop' \in [Worker -> {"free", "request", "scan"} \cup Entry]
      /\ PassShape'
      /\ ScanShape'
  BY <1>0, <1>1, <1>2, LoopMove
<1>4. queue' \in [Worker -> SUBSET ScanId]
  BY DEF BeginQueued, Shape, TypeOK
<1> QED BY <1>2, <1>3, <1>4 DEF Shape, TypeOK, db

\* A commit of the scan's session keeps the tables typed.
LEMMA PublishType ==
  ASSUME Shape, NEW w \in Worker, Active(w), Publish(w)
  PROVE  /\ snaps' \subseteq ScanId \X Provider
         /\ accounts' \subseteq Customer \X Provider
         /\ writer' \in Worker \cup {None}
<1>1. scan[w].id \in ScanId /\ scan[w].id.cust \in Customer
  BY DEF Shape, ScanShape, Active, ScanId
<1>2. scan[w].ok \subseteq Provider /\ scan[w].fresh \subseteq Provider
  BY DEF Shape, TypeOK, ScanRecord
<1> QED BY <1>1, <1>2 DEF Publish, Released, Shape, TypeOK

LEMMA FetchMove ==
  ASSUME Shape, NEW w \in Worker, NEW p \in Provider, Fetch(w, p)
  PROVE  \E r \in ScanRecord :
           /\ SetScan(w, r)
           /\ r.pc \in {"fetch", "flush"}
           /\ r.id = scan[w].id
           /\ r.via = scan[w].via
           /\ r.pc = "flush" => r.fresh # {}
           /\ scan[w].fresh \subseteq r.fresh
<1> DEFINE bad == [scan[w] EXCEPT !.todo = @ \ {p}, !.err = @ \cup {p}]
           known == [scan[w] EXCEPT !.todo = @ \ {p}, !.ok = @ \cup {p}]
           new == [scan[w] EXCEPT !.todo = @ \ {p}, !.ok = @ \cup {p},
                                  !.fresh = @ \cup {p}, !.pc = "flush"]
<1>1. scan[w].pc = "fetch" /\ scan[w] \in ScanRecord
  BY DEF Fetch, Shape, TypeOK
<1>2. /\ bad \in ScanRecord /\ bad.pc = "fetch"
      /\ bad.id = scan[w].id /\ bad.via = scan[w].via
      /\ scan[w].fresh \subseteq bad.fresh
  BY <1>1 DEF ScanRecord
<1>3. /\ known \in ScanRecord /\ known.pc = "fetch"
      /\ known.id = scan[w].id /\ known.via = scan[w].via
      /\ scan[w].fresh \subseteq known.fresh
  BY <1>1 DEF ScanRecord
<1>4. /\ new \in ScanRecord /\ new.pc = "flush"
      /\ new.id = scan[w].id /\ new.via = scan[w].via
      /\ scan[w].fresh \subseteq new.fresh /\ new.fresh # {}
  BY <1>1 DEF ScanRecord, ScanPc
<1>5. SetScan(w, bad) \/ SetScan(w, known) \/ SetScan(w, new)
  BY DEF Fetch
<1> HIDE DEF bad, known, new
<1> QED BY <1>2, <1>3, <1>4, <1>5

LEMMA ScanStepShape ==
  ASSUME Shape, NEW w \in Worker, ScanStep(w)
  PROVE  Shape'
<1>0. scan[w] \in ScanRecord
  BY DEF Shape, TypeOK
<1>1. ASSUME NEW p \in Provider, Fetch(w, p)
      PROVE  Shape'
  <2>1. PICK r \in ScanRecord : /\ SetScan(w, r)
                                /\ r.pc \in {"fetch", "flush"}
                                /\ r.id = scan[w].id
                                /\ r.via = scan[w].via
    BY <1>1, FetchMove
  <2>2. Active(w) /\ UNCHANGED <<clock, db, busy, loop, pass, queue, crashes>>
    BY <1>1 DEF Fetch, Active
  <2>3. scan' \in [Worker -> ScanRecord] /\ PassShape' /\ ScanShape'
    BY <2>1, <2>2, ScanMove
  <2> QED BY <2>2, <2>3 DEF Shape, TypeOK, db
<1>2. CASE ScanRaises(w)
  <2> DEFINE r == [scan[w] EXCEPT !.pc = "raise"]
  <2>1. r \in ScanRecord /\ r.pc = "raise" /\ r.id = scan[w].id /\ r.via = scan[w].via
    BY <1>0 DEF ScanRecord, ScanPc
  <2>2. /\ Active(w) /\ SetScan(w, r)
        /\ UNCHANGED <<clock, db, busy, loop, pass, queue, crashes>>
    BY <1>2 DEF ScanRaises, Active
  <2> HIDE DEF r
  <2>3. scan' \in [Worker -> ScanRecord] /\ PassShape' /\ ScanShape'
    BY <2>1, <2>2, ScanMove
  <2> QED BY <2>2, <2>3 DEF Shape, TypeOK, db
<1>3. CASE Flush(w)
  <2> DEFINE r == [scan[w] EXCEPT !.pc = "fetch"]
  <2>1. r \in ScanRecord /\ r.pc = "fetch" /\ r.id = scan[w].id /\ r.via = scan[w].via
    BY <1>0 DEF ScanRecord, ScanPc
  <2>2. /\ Active(w) /\ SetScan(w, r) /\ writer' = w
        /\ UNCHANGED <<clock, perm, runs, accounts, snaps, overdue, failures, exported,
                        busy, loop, pass, queue, crashes>>
    BY <1>3 DEF Flush, Active
  <2> HIDE DEF r
  <2>3. scan' \in [Worker -> ScanRecord] /\ PassShape' /\ ScanShape'
    BY <2>1, <2>2, ScanMove
  <2> QED BY <2>2, <2>3 DEF Shape, TypeOK
<1>4. CASE AllFetched(w)
  <2> DEFINE r == [scan[w] EXCEPT !.pc = IF LiveEnough(w) THEN "commit" ELSE "raise"]
  <2>1. /\ r \in ScanRecord /\ r.pc \notin {"off", "insert"}
        /\ r.id = scan[w].id /\ r.via = scan[w].via
    BY <1>0 DEF ScanRecord, ScanPc
  <2>2. /\ Active(w) /\ SetScan(w, r)
        /\ Publish(w) \/ UNCHANGED <<snaps, accounts, writer>>
        /\ UNCHANGED <<clock, perm, runs, overdue, failures, exported, busy, loop, pass,
                        queue, crashes>>
    BY <1>4 DEF AllFetched, Active
  <2> HIDE DEF r
  <2>3. scan' \in [Worker -> ScanRecord] /\ PassShape' /\ ScanShape'
    BY <2>1, <2>2, ScanMove
  <2>4. /\ snaps' \subseteq ScanId \X Provider
        /\ accounts' \subseteq Customer \X Provider
        /\ writer' \in Worker \cup {None}
    BY <2>2, PublishType DEF Shape, TypeOK
  <2> QED BY <2>2, <2>3, <2>4 DEF Shape, TypeOK
<1>5. CASE CommitScan(w)
  <2> DEFINE r == [scan[w] EXCEPT !.pc = "finish"]
  <2>1. r \in ScanRecord /\ r.pc = "finish" /\ r.id = scan[w].id /\ r.via = scan[w].via
    BY <1>0 DEF ScanRecord, ScanPc
  <2>2. /\ Active(w) /\ SetScan(w, r) /\ Publish(w)
        /\ UNCHANGED <<clock, perm, runs, overdue, failures, exported, busy, loop, pass,
                        queue, crashes>>
    BY <1>5 DEF CommitScan, Active
  <2> HIDE DEF r
  <2>3. scan' \in [Worker -> ScanRecord] /\ PassShape' /\ ScanShape'
    BY <2>1, <2>2, ScanMove
  <2>4. /\ snaps' \subseteq ScanId \X Provider
        /\ accounts' \subseteq Customer \X Provider
        /\ writer' \in Worker \cup {None}
    BY <2>2, PublishType
  <2> QED BY <2>2, <2>3, <2>4 DEF Shape, TypeOK
<1>6. CASE CompleteScan(w)
  <2>1. /\ Active(w) /\ Return(w, TRUE)
        /\ runs' = [runs EXCEPT ![scan[w].id] = [state |-> "completed", at |-> clock]]
        /\ UNCHANGED <<clock, perm, accounts, snaps, overdue, failures, exported, writer,
                        busy, queue, crashes>>
    BY <1>6 DEF CompleteScan, Active
  <2>2. runs' \in [ScanId -> [state : RunState, at : Time]]
    BY <2>1 DEF Shape, TypeOK, RunState
  <2> QED BY <2>1, <2>2, ScanReturn DEF Shape, TypeOK
<1>7. CASE FailScan(w)
  <2>1. /\ Active(w) /\ Return(w, FALSE) /\ Publish(w)
        /\ runs' = [runs EXCEPT ![scan[w].id].state = "failed"]
        /\ UNCHANGED <<clock, perm, overdue, failures, exported, busy, queue, crashes>>
    BY <1>7 DEF FailScan, Active
  <2>2. runs' \in [ScanId -> [state : RunState, at : Time]]
    <3>1. "failed" \in RunState /\ runs \in [ScanId -> [state : RunState, at : Time]]
      BY DEF Shape, TypeOK, RunState
    <3> QED BY <2>1, <3>1
  <2> QED BY <2>1, <2>2, ScanReturn, PublishType DEF Shape, TypeOK
<1>8. CASE WriteFails(w)
  <2>1. /\ Active(w) /\ Return(w, FALSE) /\ writer' = Released(w)
        /\ UNCHANGED <<clock, perm, runs, accounts, snaps, overdue, failures, exported,
                        busy, queue, crashes>>
    BY <1>8 DEF WriteFails, Active
  <2>2. writer' \in Worker \cup {None}
    BY <2>1 DEF Released, Shape, TypeOK
  <2> QED BY <2>1, <2>2, ScanReturn DEF Shape, TypeOK
<1> QED BY <1>1, <1>2, <1>3, <1>4, <1>5, <1>6, <1>7, <1>8 DEF ScanStep

LEMMA NextAttemptType ==
  ASSUME Shape, NEW w \in Worker, NEW e \in Entry,
         pass[w][e].attempt < MaxAttempts, pass[w][e].cust \in Customer
  PROVE  /\ NextAttempt(w, e) \in PassRecord
         /\ PassOK(NextAttempt(w, e))
         /\ NextAttempt(w, e).pc = "create"
<1>1. pass[w][e] \in PassRecord
  BY DEF Shape, TypeOK
<1>2. pass[w][e].attempt + 1 \in 1..MaxAttempts
  BY <1>1, BoundsAssumption DEF PassRecord
<1> QED
  BY <1>1, <1>2 DEF NextAttempt, PassRecord, PassPc, PassOK

LEMMA CreateShape ==
  ASSUME Shape, NEW w \in Worker, NEW e \in Entry, CreateRun(w, e)
  PROVE  Shape'
<1> DEFINE r == [pass[w][e] EXCEPT !.pc = "scanning"]
           n == NewScan(AttemptId(w, e), e, "fetch")
<1>1. pass[w][e].cust \in Customer /\ pass[w][e] \in PassRecord
  BY DEF Shape, TypeOK, PassShape, PassOK, CreateRun, WithCustomer
<1>2. AttemptId(w, e) \in ScanId
  BY <1>1, AttemptIdType DEF Shape
<1>3. r \in PassRecord /\ PassOK(r) /\ r.pc = "scanning"
  BY <1>1 DEF PassRecord, PassPc, PassOK
<1>4. /\ n \in ScanRecord /\ n.pc = "fetch" /\ n.id = AttemptId(w, e)
      /\ n.via = e
  BY <1>2, NewScanType DEF ScanPc
<1>5. /\ loop[w] = e /\ SetPass(w, e, r) /\ SetScan(w, n)
      /\ UNCHANGED <<clock, perm, accounts, snaps, overdue, failures, exported, writer,
                      busy, loop, queue, crashes>>
  BY DEF CreateRun
<1> HIDE DEF r, n
<1>6. runs' \in [ScanId -> [state : RunState, at : Time]]
  BY <1>2 DEF CreateRun, Insert, Shape, TypeOK, RunState
<1>7. /\ pass' \in [Worker -> [Entry -> PassRecord]]
      /\ pass'[w][e] = r
      /\ \A v \in Worker, f \in Entry : v # w \/ f # e => pass'[v][f] = pass[v][f]
  BY <1>3, <1>5, PassUpdate DEF Shape
<1>8. /\ scan' \in [Worker -> ScanRecord]
      /\ scan'[w] = n
      /\ \A v \in Worker : v # w => scan'[v] = scan[v]
  BY <1>4, <1>5, ScanUpdate DEF Shape
<1>9. TypeOK'
  BY <1>5, <1>6, <1>7, <1>8 DEF Shape, TypeOK
<1>10. PassShape'
  BY <1>3, <1>5, <1>7 DEF Shape, PassShape, PassOK
<1>11. ScanShape'
  <2> SUFFICES ASSUME NEW v \in Worker, v # w
               PROVE  /\ scan'[v].pc # "off" => scan'[v].id \in ScanId
                      /\ scan'[v].pc = "insert" => loop'[v] = "request"
                      /\ Active(v)' /\ scan'[v].via = "bg" => loop'[v] = "scan"
                      /\ Active(v)' /\ scan'[v].via # "bg" =>
                           /\ loop'[v] = scan'[v].via
                           /\ pass'[v][scan'[v].via].pc = "scanning"
    BY <1>2, <1>3, <1>4, <1>5, <1>7, <1>8 DEF ScanShape, Active
  <2>1. scan[v].via # "bg" => scan[v].via \in Entry
    BY DEF Shape, TypeOK, ScanRecord
  <2> QED BY <1>5, <1>7, <1>8, <2>1 DEF Shape, ScanShape, Active
<1> QED BY <1>9, <1>10, <1>11 DEF Shape

LEMMA PassStepShape ==
  ASSUME Shape, NEW w \in Worker, NEW e \in Entry, PassStep(w, e)
  PROVE  Shape'
<1> DEFINE at == pass[w][e]
           Moved(r) == /\ r \in PassRecord /\ PassOK(r) /\ SetPass(w, e, r)
                       /\ loop[w] = e /\ at.pc # "scanning" /\ UNCHANGED scan
                       /\ \/ UNCHANGED loop
                          \/ /\ loop' = [loop EXCEPT ![w] = "free"]
                             /\ r.pc \in {"idle", "asleep"}
<1>0. at \in PassRecord /\ PassOK(at)
  BY DEF Shape, TypeOK, PassShape
<1>m. ASSUME NEW r, Moved(r)
      PROVE  /\ pass' \in [Worker -> [Entry -> PassRecord]]
             /\ loop' \in [Worker -> {"free", "request", "scan"} \cup Entry]
             /\ scan' \in [Worker -> ScanRecord]
             /\ PassShape'
             /\ ScanShape'
  BY <1>m, PassMove DEF Shape, TypeOK
<1>n. NextCustomer(w, e) \in PassRecord /\ PassOK(NextCustomer(w, e))
  BY <1>0 DEF NextCustomer, PassRecord, PassPc, PassOK, WithCustomer
<1>1. ASSUME NEW c \in Customer, Pick(w, e, c)
      PROVE  Shape'
  <2> DEFINE taken(pc) == [at EXCEPT !.pc = pc, !.cust = c, !.attempt = 1]
             skipped == [at EXCEPT !.todo = @ \ {c}]
  <2>0. 1 \in 1..MaxAttempts
    BY BoundsAssumption
  <2>1. taken("overdue") \in PassRecord /\ PassOK(taken("overdue"))
    BY <1>0, <2>0 DEF PassRecord, PassPc, PassOK
  <2>2. taken("create") \in PassRecord /\ PassOK(taken("create"))
    BY <1>0, <2>0 DEF PassRecord, PassPc, PassOK
  <2>3. skipped \in PassRecord /\ PassOK(skipped)
    BY <1>0 DEF PassRecord, PassOK
  <2>4. \/ SetPass(w, e, taken("overdue"))
        \/ SetPass(w, e, taken("create"))
        \/ SetPass(w, e, skipped)
    BY <1>1 DEF Pick
  <2>5. /\ loop[w] = e /\ at.pc # "scanning"
        /\ UNCHANGED <<clock, db, busy, loop, queue, scan, crashes>>
    BY <1>1 DEF Pick
  <2> HIDE DEF taken, skipped
  <2>6. PICK r : Moved(r)
    BY <2>1, <2>2, <2>3, <2>4, <2>5
  <2> QED BY <1>m, <2>5, <2>6 DEF Shape, TypeOK, db
<1>2. ASSUME NEW c \in Customer, SkipExport(w, e, c)
      PROVE  Shape'
  <2> DEFINE r == [at EXCEPT !.todo = @ \ {c}]
  <2>1. r \in PassRecord /\ PassOK(r)
    BY <1>0 DEF PassRecord, PassOK
  <2>2. /\ Moved(r)
        /\ UNCHANGED <<clock, db, busy, loop, queue, scan, crashes>>
    BY <1>2, <2>1 DEF SkipExport
  <2> HIDE DEF r
  <2> QED BY <1>m, <2>2 DEF Shape, TypeOK, db
<1>3. ASSUME NEW c \in Customer, BeginExport(w, e, c)
      PROVE  Shape'
  <2> DEFINE r == [at EXCEPT !.pc = "exporting", !.cust = c]
  <2>1. r \in PassRecord /\ PassOK(r)
    BY <1>0 DEF PassRecord, PassPc, PassOK
  <2>2. /\ Moved(r) /\ writer' = w
        /\ UNCHANGED <<clock, perm, runs, accounts, snaps, overdue, failures, exported,
                        busy, queue, crashes>>
    BY <1>3, <2>1 DEF BeginExport
  <2> HIDE DEF r
  <2> QED BY <1>m, <2>2 DEF Shape, TypeOK
<1>4. CASE RaiseOverdue(w, e)
  <2> DEFINE r == [at EXCEPT !.pc = "create"]
  <2>1. at.cust \in Customer /\ at.now \in Time
    BY <1>0, <1>4 DEF RaiseOverdue, PassOK, WithCustomer, PassRecord
  <2>2. r \in PassRecord /\ PassOK(r)
    BY <1>0, <2>1 DEF PassRecord, PassPc, PassOK
  <2>3. /\ Moved(r) /\ overdue' = overdue \cup {<<at.cust, at.now>>}
        /\ UNCHANGED <<clock, perm, runs, accounts, snaps, failures, exported, writer,
                        busy, queue, crashes>>
    BY <1>4, <2>2 DEF RaiseOverdue
  <2>4. overdue' \subseteq Customer \X Time
    BY <2>1, <2>3 DEF Shape, TypeOK
  <2> HIDE DEF r
  <2> QED BY <1>m, <2>3, <2>4 DEF Shape, TypeOK
<1>5. CASE CreateRun(w, e)
  BY <1>5, CreateShape
<1>6. CASE AuditTriggered(w, e)
  <2>1. /\ Moved(NextCustomer(w, e))
        /\ UNCHANGED <<clock, db, busy, loop, queue, scan, crashes>>
    BY <1>6, <1>n DEF AuditTriggered
  <2> QED BY <1>m, <2>1 DEF Shape, TypeOK, db
<1>7. CASE AuditRetry(w, e)
  <2> DEFINE over == [at EXCEPT !.pc = "giveup"]
             rest == [at EXCEPT !.pc = "asleep"]
  <2>1. at.cust \in Customer
    BY <1>0, <1>7 DEF AuditRetry, PassOK, WithCustomer
  <2>2. over \in PassRecord /\ PassOK(over) /\ over.pc = "giveup"
    BY <1>0, <2>1 DEF PassRecord, PassPc, PassOK
  <2>3. AttemptsLeft(w, e) =>
          rest \in PassRecord /\ PassOK(rest) /\ rest.pc = "asleep"
    BY <1>0, <2>1 DEF PassRecord, PassPc, PassOK, AttemptsLeft
  <2>4. AttemptsLeft(w, e) =>
          NextAttempt(w, e) \in PassRecord /\ PassOK(NextAttempt(w, e))
    BY <2>1, NextAttemptType DEF AttemptsLeft
  <2>5. \/ SetPass(w, e, over) /\ UNCHANGED loop
        \/ /\ AttemptsLeft(w, e) /\ SetPass(w, e, rest)
           /\ loop' = [loop EXCEPT ![w] = "free"]
        \/ /\ AttemptsLeft(w, e) /\ SetPass(w, e, NextAttempt(w, e))
           /\ UNCHANGED loop
    BY <1>7 DEF AuditRetry
  <2>6. /\ loop[w] = e /\ at.pc # "scanning"
        /\ UNCHANGED <<clock, db, busy, queue, scan, crashes>>
    BY <1>7 DEF AuditRetry
  <2> HIDE DEF over, rest
  <2>7. PICK r : Moved(r)
    BY <2>2, <2>3, <2>4, <2>5, <2>6
  <2> QED BY <1>m, <2>6, <2>7 DEF Shape, TypeOK, db
<1>8. CASE GiveUp(w, e)
  <2>1. AttemptId(w, e) \in ScanId
    BY <1>0, <1>8, AttemptIdType DEF GiveUp, PassOK, WithCustomer, Shape
  <2>2. /\ Moved(NextCustomer(w, e))
        /\ failures' = failures \cup {AttemptId(w, e)}
        /\ UNCHANGED <<clock, perm, runs, accounts, snaps, overdue, exported, writer,
                        busy, loop, queue, scan, crashes>>
    BY <1>8, <1>n DEF GiveUp
  <2> QED BY <1>m, <2>1, <2>2 DEF Shape, TypeOK
<1>9. CASE TurnToExports(w, e)
  <2> DEFINE r == [at EXCEPT !.pc = "exports", !.todo = at.scope \cap Exporter]
  <2>1. r \in PassRecord /\ PassOK(r)
    BY <1>0 DEF PassRecord, PassPc, PassOK, WithCustomer
  <2>2. /\ Moved(r)
        /\ UNCHANGED <<clock, db, busy, loop, queue, scan, crashes>>
    BY <1>9, <2>1 DEF TurnToExports
  <2> HIDE DEF r
  <2> QED BY <1>m, <2>2 DEF Shape, TypeOK, db
<1>10. CASE FinishExport(w, e)
  <2> DEFINE r == [at EXCEPT !.pc = "exports", !.todo = @ \ {at.cust}]
  <2>1. r \in PassRecord /\ PassOK(r)
    BY <1>0 DEF PassRecord, PassPc, PassOK, WithCustomer
  <2>2. /\ Moved(r) /\ writer' = Released(w)
        /\ exported' \in {exported, [exported EXCEPT ![at.cust] = clock]}
        /\ UNCHANGED <<clock, perm, runs, accounts, snaps, overdue, failures, busy,
                        queue, crashes>>
    BY <1>10, <2>1 DEF FinishExport
  <2>3. exported' \in [Customer -> Time] /\ writer' \in Worker \cup {None}
    BY <2>2 DEF Shape, TypeOK, Released
  <2> HIDE DEF r
  <2> QED BY <1>m, <2>2, <2>3 DEF Shape, TypeOK
<1>11. CASE EndPass(w, e) \/ AbortPass(w, e)
  <2>1. /\ loop[w] = e /\ at.pc # "scanning" /\ LeavePass(w, e)
    BY <1>11 DEF EndPass, AbortPass
  <2>2. IdlePass \in PassRecord /\ PassOK(IdlePass) /\ IdlePass.pc = "idle"
    BY BoundsAssumption DEF IdlePass, PassRecord, PassPc, PassOK, WithCustomer, Time
  <2>3. /\ Moved(IdlePass)
        /\ busy' = [busy EXCEPT ![w] = FALSE]
        /\ UNCHANGED <<clock, db, queue, scan, crashes>>
    BY <2>1, <2>2 DEF LeavePass
  <2> QED BY <1>m, <2>3 DEF Shape, TypeOK, db
<1> QED
  BY <1>1, <1>2, <1>3, <1>4, <1>5, <1>6, <1>7, <1>8, <1>9, <1>10, <1>11 DEF PassStep

LEMMA BeginPassShape ==
  ASSUME Shape, NEW w \in Worker, NEW e \in Entry, NEW scope \in SUBSET Customer,
         BeginPass(w, e, scope)
  PROVE  Shape'
<1> DEFINE r == [IdlePass EXCEPT !.pc = "pick", !.now = clock, !.scope = scope,
                                 !.todo = {c \in scope : perm[c] \in Scannable}]
<1>0. 1 \in 1..MaxAttempts
  BY BoundsAssumption
<1>1. r \in PassRecord /\ PassOK(r) /\ r.pc = "pick"
  BY <1>0 DEF IdlePass, PassRecord, PassPc, PassOK, WithCustomer, Shape, TypeOK
<1>2. /\ loop[w] = "free" /\ loop' = [loop EXCEPT ![w] = e] /\ SetPass(w, e, r)
      /\ busy' = [busy EXCEPT ![w] = TRUE]
      /\ UNCHANGED <<clock, db, queue, scan, crashes>>
  BY DEF BeginPass
<1> HIDE DEF r
<1>3. /\ pass' \in [Worker -> [Entry -> PassRecord]]
      /\ pass'[w][e] = r
      /\ \A v \in Worker, f \in Entry : v # w \/ f # e => pass'[v][f] = pass[v][f]
  BY <1>1, <1>2, PassUpdate DEF Shape
<1>4. scan[w].pc = "off" /\ \A f \in Entry : pass[w][f].pc \in {"idle", "asleep"}
  BY <1>2, FreeIsIdle
<1>5. /\ loop' \in [Worker -> {"free", "request", "scan"} \cup Entry]
      /\ loop'[w] = e
      /\ \A v \in Worker : v # w => loop'[v] = loop[v]
  BY <1>2 DEF Shape, TypeOK
<1>6. PassShape'
  <2> SUFFICES ASSUME NEW v \in Worker, NEW f \in Entry
               PROVE  /\ PassOK(pass'[v][f])
                      /\ pass'[v][f].pc \notin {"idle", "asleep"} => loop'[v] = f
    BY DEF PassShape, PassOK
  <2>1. CASE v = w /\ f = e
    BY <1>1, <1>3, <1>5, <2>1
  <2>2. CASE v = w /\ f # e
    BY <1>3, <1>4, <2>2 DEF Shape, PassShape
  <2>3. CASE v # w
    BY <1>3, <1>5, <2>3 DEF Shape, PassShape
  <2> QED BY <2>1, <2>2, <2>3
<1>7. ScanShape'
  <2> SUFFICES ASSUME NEW v \in Worker, v # w
               PROVE  /\ scan[v].pc # "off" => scan[v].id \in ScanId
                      /\ scan[v].pc = "insert" => loop'[v] = "request"
                      /\ Active(v) /\ scan[v].via = "bg" => loop'[v] = "scan"
                      /\ Active(v) /\ scan[v].via # "bg" =>
                           /\ loop'[v] = scan[v].via
                           /\ pass'[v][scan[v].via].pc = "scanning"
    BY <1>2, <1>4 DEF ScanShape, Active
  <2>1. scan[v].via # "bg" => scan[v].via \in Entry
    BY DEF Shape, TypeOK, ScanRecord
  <2> QED BY <1>3, <1>5, <2>1 DEF Shape, ScanShape
<1>8. busy' \in [Worker -> BOOLEAN]
  BY <1>2 DEF Shape, TypeOK
<1> QED BY <1>2, <1>3, <1>5, <1>6, <1>7, <1>8 DEF Shape, TypeOK, db

LEMMA WakeShape ==
  ASSUME Shape, NEW w \in Worker, NEW e \in Entry, Wake(w, e)
  PROVE  Shape'
<1> DEFINE r == NextAttempt(w, e)
<1>1. r \in PassRecord /\ PassOK(r) /\ r.pc = "create"
  BY NextAttemptType DEF Wake, Shape, PassShape, PassOK, WithCustomer
<1>2. /\ loop[w] = "free" /\ loop' = [loop EXCEPT ![w] = e] /\ SetPass(w, e, r)
      /\ UNCHANGED <<clock, db, busy, queue, scan, crashes>>
  BY DEF Wake
<1> HIDE DEF r
<1>3. /\ pass' \in [Worker -> [Entry -> PassRecord]]
      /\ pass'[w][e] = r
      /\ \A v \in Worker, f \in Entry : v # w \/ f # e => pass'[v][f] = pass[v][f]
  BY <1>1, <1>2, PassUpdate DEF Shape
<1>4. scan[w].pc = "off" /\ \A f \in Entry : pass[w][f].pc \in {"idle", "asleep"}
  BY <1>2, FreeIsIdle
<1>5. /\ loop' \in [Worker -> {"free", "request", "scan"} \cup Entry]
      /\ loop'[w] = e
      /\ \A v \in Worker : v # w => loop'[v] = loop[v]
  BY <1>2 DEF Shape, TypeOK
<1>6. PassShape'
  <2> SUFFICES ASSUME NEW v \in Worker, NEW f \in Entry
               PROVE  /\ PassOK(pass'[v][f])
                      /\ pass'[v][f].pc \notin {"idle", "asleep"} => loop'[v] = f
    BY DEF PassShape, PassOK
  <2>1. CASE v = w /\ f = e
    BY <1>1, <1>3, <1>5, <2>1
  <2>2. CASE v = w /\ f # e
    BY <1>3, <1>4, <2>2 DEF Shape, PassShape
  <2>3. CASE v # w
    BY <1>3, <1>5, <2>3 DEF Shape, PassShape
  <2> QED BY <2>1, <2>2, <2>3
<1>7. ScanShape'
  <2> SUFFICES ASSUME NEW v \in Worker, v # w
               PROVE  /\ scan[v].pc # "off" => scan[v].id \in ScanId
                      /\ scan[v].pc = "insert" => loop'[v] = "request"
                      /\ Active(v) /\ scan[v].via = "bg" => loop'[v] = "scan"
                      /\ Active(v) /\ scan[v].via # "bg" =>
                           /\ loop'[v] = scan[v].via
                           /\ pass'[v][scan[v].via].pc = "scanning"
    BY <1>2, <1>4 DEF ScanShape, Active
  <2>1. scan[v].via # "bg" => scan[v].via \in Entry
    BY DEF Shape, TypeOK, ScanRecord
  <2> QED BY <1>3, <1>5, <2>1 DEF Shape, ScanShape
<1> QED BY <1>2, <1>3, <1>5, <1>6, <1>7 DEF Shape, TypeOK, db

LEMMA CrashShape ==
  ASSUME Shape, NEW w \in Worker, Crash(w)
  PROVE  Shape'
<1> USE DEF Shape
<1>1. NoScan \in ScanRecord /\ NoScan.pc = "off"
  BY DEF NoScan, ScanRecord, ScanPc
<1>2. IdlePass \in PassRecord /\ PassOK(IdlePass) /\ IdlePass.pc = "idle"
  BY BoundsAssumption DEF IdlePass, PassRecord, PassPc, PassOK, WithCustomer, Time
<1>3. /\ scan' \in [Worker -> ScanRecord]
      /\ scan'[w] = NoScan
      /\ \A v \in Worker : v # w => scan'[v] = scan[v]
  BY <1>1, ScanUpdate DEF Crash
<1>4. /\ pass' = [pass EXCEPT ![w] = [e \in Entry |-> IdlePass]]
      /\ loop' = [loop EXCEPT ![w] = "free"]
      /\ busy' = [busy EXCEPT ![w] = FALSE]
      /\ queue' = [queue EXCEPT ![w] = {}]
      /\ writer' = Released(w)
      /\ crashes < MaxCrashes /\ crashes' = crashes + 1
      /\ UNCHANGED <<clock, perm, runs, accounts, snaps, overdue, failures, exported>>
  BY DEF Crash
<1>5. /\ pass' \in [Worker -> [Entry -> PassRecord]]
      /\ \A e \in Entry : pass'[w][e] = IdlePass
      /\ \A v \in Worker : v # w => pass'[v] = pass[v] /\ loop'[v] = loop[v]
  BY <1>2, <1>4 DEF TypeOK
<1>6. /\ loop' \in [Worker -> {"free", "request", "scan"} \cup Entry]
      /\ busy' \in [Worker -> BOOLEAN]
      /\ queue' \in [Worker -> SUBSET ScanId]
      /\ writer' \in Worker \cup {None}
  BY <1>4 DEF TypeOK, Released
<1>7. crashes' \in 0..MaxCrashes
  BY <1>4, BoundsAssumption DEF TypeOK
<1>8. PassShape'
  BY <1>2, <1>5 DEF PassShape, PassOK
<1>9. ScanShape'
  BY <1>1, <1>3, <1>5 DEF ScanShape, Active
<1> QED BY <1>3, <1>4, <1>5, <1>6, <1>7, <1>8, <1>9 DEF TypeOK

LEMMA ShapeStep == Shape /\ [Next]_vars => Shape'
<1> SUFFICES ASSUME Shape, [Next]_vars PROVE Shape'
  OBVIOUS
<1>1. CASE PermissionHandler
  BY <1>1, PermissionShape
<1>2. ASSUME NEW w \in Worker, WorkerStep(w)
      PROVE  Shape'
  <2>1. CASE \E c \in Customer : StartScan(w, c) \/ AddCredentials(w, c)
    BY <2>1, StartShape, AddShape
  <2>2. CASE InsertRun(w) \/ RejectInsert(w)
    BY <2>2, InsertShape
  <2>3. CASE \E id \in queue[w] : BeginQueued(w, id)
    BY <2>3, QueuedShape
  <2>4. CASE ScanStep(w)
    BY <2>4, ScanStepShape
  <2>5. CASE BeginLoopPass(w)
    BY <2>5, BeginPassShape DEF BeginLoopPass
  <2>6. CASE RunNow(w)
    <3>1. PICK c \in Customer : BeginPass(w, "now", {c})
      BY <2>6 DEF RunNow
    <3>2. {c} \in SUBSET Customer
      OBVIOUS
    <3> QED BY <3>1, <3>2, BeginPassShape
  <2>7. ASSUME NEW e \in Entry, PassStep(w, e) \/ Wake(w, e)
        PROVE  Shape'
    BY <2>7, PassStepShape, WakeShape
  <2> QED BY <1>2, <2>1, <2>2, <2>3, <2>4, <2>5, <2>6, <2>7 DEF WorkerStep
<1>3. ASSUME NEW w \in Worker, Crash(w)
      PROVE  Shape'
  BY <1>3, CrashShape
<1>4. CASE Tick
  <2>1. clock' \in Time
    BY <1>4, BoundsAssumption DEF Tick, Shape, TypeOK, Time
  <2>2. UNCHANGED <<perm, runs, accounts, snaps, overdue, failures, exported, writer,
                     busy, loop, pass, queue, scan, crashes>>
    BY <1>4 DEF Tick, db, process
  <2> QED BY <2>1, <2>2 DEF Shape, TypeOK, PassShape, PassOK, ScanShape, Active
<1>5. CASE UNCHANGED vars
  BY <1>5 DEF Shape, TypeOK, PassShape, PassOK, ScanShape, Active, vars
<1> QED BY <1>1, <1>2, <1>3, <1>4, <1>5 DEF Next

\* Type correctness: every field of every table, flag, pass and scan record
\* keeps its range, attempts never exceed scheduler_retry_max_attempts.
THEOREM TypeCorrect == Spec => []TypeOK
<1>1. Spec => []Shape
  BY InitShape, ShapeStep, PTL DEF Spec
<1>2. Shape => TypeOK
  BY DEF Shape
<1> QED BY <1>1, <1>2, PTL

\* At any time the records of each process say which of its tasks has the event
\* loop: a pass between its steps, a scan, a request, or none of them.
THEOREM ShapeHolds == Spec => []Shape
  BY InitShape, ShapeStep, PTL DEF Spec

-----------------------------------------------------------------------------
(* Who executes what.                                                      *)

\* A step that opens, closes and hands over nothing.
Quiet ==
    /\ UNCHANGED runs
    /\ \A w \in Worker :
         /\ queue'[w] \subseteq queue[w]
         /\ Active(w)' => Active(w) /\ scan'[w].id = scan[w].id

\* The steps that do.
Handover(w) ==
    \/ InsertRun(w)
    \/ \E id \in queue[w] : BeginQueued(w, id)
    \/ \E e \in Entry : CreateRun(w, e)
    \/ CompleteScan(w)
    \/ FailScan(w)

LEMMA SameScansQuiet ==
  ASSUME Shape, UNCHANGED <<runs, queue>>, NEW w \in Worker, NEW r \in ScanRecord,
         SetScan(w, r),
         r.pc \notin {"off", "insert"} => Active(w) /\ r.id = scan[w].id
  PROVE  Quiet
<1>1. /\ scan'[w] = r
      /\ \A v \in Worker : v # w => scan'[v] = scan[v]
  BY ScanUpdate DEF Shape
<1> QED BY <1>1 DEF Quiet, Active

LEMMA ScanStepQuiet ==
  ASSUME Shape, NEW w \in Worker, ScanStep(w)
  PROVE  Quiet \/ CompleteScan(w) \/ FailScan(w)
<1>0. scan[w] \in ScanRecord /\ NoScan \in ScanRecord /\ NoScan.pc = "off"
  BY DEF Shape, TypeOK, NoScan, ScanRecord, ScanPc
<1>1. ASSUME NEW p \in Provider, Fetch(w, p)
      PROVE  Quiet
  <2>1. Active(w) /\ UNCHANGED <<runs, queue>>
    BY <1>1 DEF Fetch, Active, db
  <2>2. PICK r \in ScanRecord : SetScan(w, r) /\ r.id = scan[w].id
    BY <1>1, FetchMove
  <2> QED BY <2>1, <2>2, SameScansQuiet
<1>2. CASE ScanRaises(w) \/ Flush(w) \/ AllFetched(w) \/ CommitScan(w)
  <2>1. /\ Active(w)
        /\ UNCHANGED <<runs, queue>>
    BY <1>2 DEF ScanRaises, Flush, AllFetched, CommitScan, Active, db
  <2>2. PICK pc \in ScanPc : SetScan(w, [scan[w] EXCEPT !.pc = pc])
    BY <1>2 DEF ScanRaises, Flush, AllFetched, CommitScan, ScanPc
  <2>3. scan'[w].id = scan[w].id /\ \A v \in Worker : v # w => scan'[v] = scan[v]
    BY <1>0, <2>2 DEF SetScan, Shape, TypeOK, ScanRecord
  <2> QED BY <2>1, <2>3 DEF Quiet, Active
<1>3. CASE WriteFails(w)
  <2>1. SetScan(w, NoScan) /\ UNCHANGED <<runs, queue>>
    BY <1>3 DEF WriteFails, Return
  <2> QED BY <1>0, <2>1, SameScansQuiet
<1> QED BY <1>1, <1>2, <1>3 DEF ScanStep

LEMMA StartedScan ==
  ASSUME Shape, NEW w \in Worker, NEW c \in Customer,
         StartScan(w, c) \/ AddCredentials(w, c)
  PROVE  \E id \in ScanId : SetScan(w, NewScan(id, "bg", "insert"))
<1>1. PICK t \in (1..MaxAttempts) \cup Uuid :
        SetScan(w, NewScan([cust |-> c, at |-> clock, tag |-> t], "bg", "insert"))
  <2>1. 1 \in (1..MaxAttempts) \cup Uuid
    BY BoundsAssumption
  <2>2. CASE StartScan(w, c)
    BY <2>1, <2>2 DEF StartScan
  <2>3. CASE AddCredentials(w, c)
    BY <2>3 DEF AddCredentials
  <2> QED BY <2>2, <2>3
<1> DEFINE id == [cust |-> c, at |-> clock, tag |-> t]
<1>2. id \in ScanId
  BY DEF ScanId, Shape, TypeOK
<1>3. SetScan(w, NewScan(id, "bg", "insert"))
  BY <1>1
<1> HIDE DEF id
<1> QED BY <1>2, <1>3

\* A pass touches no scan and no run except where it creates one.
LEMMA PassStepFrame ==
  ASSUME NEW w \in Worker, NEW e \in Entry,
         PassStep(w, e) \/ Wake(w, e), ~CreateRun(w, e)
  PROVE  UNCHANGED <<runs, snaps, queue, scan>>
  BY DEF PassStep, Pick, SkipExport, BeginExport, RaiseOverdue, AuditTriggered,
     AuditRetry, GiveUp, TurnToExports, FinishExport, EndPass, AbortPass, LeavePass,
     Wake, db

LEMMA StepKinds ==
  ASSUME Shape, [Next]_vars
  PROVE  Quiet \/ \E w \in Worker : Handover(w)
<1>0. NoScan \in ScanRecord /\ NoScan.pc = "off"
  BY DEF NoScan, ScanRecord, ScanPc
<1>1. ASSUME UNCHANGED <<runs, queue, scan>>
      PROVE  Quiet
  BY <1>1 DEF Quiet, Active
<1>2. CASE PermissionHandler \/ Tick \/ UNCHANGED vars
  BY <1>1, <1>2 DEF PermissionHandler, RequestApproval, Approve, Pause, Resume,
     UpdatePolicy, SetPermission, Tick, vars, db, process
<1>3. ASSUME NEW w \in Worker, Crash(w)
      PROVE  Quiet
  <2>1. /\ UNCHANGED runs
        /\ queue' = [queue EXCEPT ![w] = {}]
        /\ SetScan(w, NoScan)
    BY <1>3 DEF Crash
  <2>2. \A v \in Worker : queue'[v] \subseteq queue[v]
    BY <2>1 DEF Shape, TypeOK
  <2>3. /\ scan'[w] = NoScan
        /\ \A v \in Worker : v # w => scan'[v] = scan[v]
    BY <1>0, <2>1, ScanUpdate DEF Shape
  <2> QED BY <1>0, <2>1, <2>2, <2>3 DEF Quiet, Active
<1>4. ASSUME NEW w \in Worker, WorkerStep(w)
      PROVE  Quiet \/ Handover(w)
  <2>1. ASSUME NEW c \in Customer, StartScan(w, c) \/ AddCredentials(w, c)
        PROVE  Quiet
    <3>1. PICK id \in ScanId : SetScan(w, NewScan(id, "bg", "insert"))
      BY <2>1, StartedScan
    <3>2. UNCHANGED <<runs, queue>>
      BY <2>1 DEF StartScan, AddCredentials, db
    <3>3. /\ NewScan(id, "bg", "insert") \in ScanRecord
          /\ NewScan(id, "bg", "insert").pc = "insert"
      BY NewScanType DEF ScanPc
    <3> QED BY <3>1, <3>2, <3>3, SameScansQuiet
  <2>2. CASE RejectInsert(w)
    <3>1. SetScan(w, NoScan) /\ UNCHANGED <<runs, queue>>
      BY <2>2 DEF RejectInsert, db
    <3> QED BY <1>0, <3>1, SameScansQuiet
  <2>3. CASE BeginLoopPass(w) \/ RunNow(w)
    BY <1>1, <2>3 DEF BeginLoopPass, RunNow, BeginPass, db
  <2>4. ASSUME NEW e \in Entry, PassStep(w, e) \/ Wake(w, e)
        PROVE  Quiet \/ CreateRun(w, e)
    <3>1. CASE CreateRun(w, e)
      BY <3>1
    <3>2. CASE ~CreateRun(w, e)
      <4>1. UNCHANGED <<runs, queue, scan>>
        BY <2>4, <3>2, PassStepFrame
      <4> QED BY <1>1, <4>1
    <3> QED BY <3>1, <3>2
  <2> QED BY <1>4, <2>1, <2>2, <2>3, <2>4, ScanStepQuiet DEF WorkerStep, Handover
<1>5. PermissionHandler \/ Tick \/ UNCHANGED vars
        \/ \E w \in Worker : WorkerStep(w) \/ Crash(w)
  BY DEF Next
<1> QED BY <1>2, <1>3, <1>4, <1>5

LEMMA OneExecutorStep ==
  ASSUME Shape, OneExecutor, [Next]_vars
  PROVE  OneExecutor'
<1> USE DEF Shape
<1>1. CASE Quiet
  BY <1>1 DEF Quiet, OneExecutor, Executing, Scanning
<1>2. ASSUME NEW w \in Worker, InsertRun(w)
      PROVE  OneExecutor'
  <2> DEFINE new == scan[w].id
  <2>1. /\ runs[new].state = "absent" /\ new \in ScanId
        /\ runs' = [runs EXCEPT ![new].state = "running"]
        /\ queue' = [queue EXCEPT ![w] = @ \cup {new}]
        /\ scan' = [scan EXCEPT ![w] = NoScan]
    BY <1>2 DEF InsertRun, Insertable, Insert, SetScan, ScanShape
  <2>2. \A v \in Worker : ~Executing(v, new)
    BY <2>1 DEF OneExecutor
  <2>3. \A v \in Worker, id \in ScanId : Scanning(v, id)' => Scanning(v, id)
    BY <2>1 DEF Scanning, Active, NoScan, TypeOK
  <2>4. \A v \in Worker : queue'[v] = IF v = w THEN queue[v] \cup {new} ELSE queue[v]
    BY <2>1 DEF TypeOK
  <2>5. \A id \in ScanId : runs'[id].state =
                            IF id = new THEN "running" ELSE runs[id].state
    BY <2>1 DEF TypeOK
  <2> HIDE DEF new
  <2> QED BY <2>1, <2>2, <2>3, <2>4, <2>5 DEF OneExecutor, Executing
<1>3. ASSUME NEW w \in Worker, NEW new \in queue[w], BeginQueued(w, new)
      PROVE  OneExecutor'
  <2>1. /\ new \in ScanId /\ runs' = runs
        /\ queue' = [queue EXCEPT ![w] = @ \ {new}]
        /\ scan' = [scan EXCEPT ![w] = NewScan(new, "bg", "fetch")]
    BY <1>3 DEF BeginQueued, SetScan, db, TypeOK
  <2>2. Executing(w, new)
    BY DEF Executing
  <2>3. scan'[w].id = new /\ \A v \in Worker : v # w => scan'[v] = scan[v]
    BY <2>1, NewScanType DEF TypeOK, ScanPc
  <2>4. \A v \in Worker, id \in ScanId :
          Scanning(v, id)' => Scanning(v, id) \/ (v = w /\ id = new)
    BY <2>3 DEF Scanning, Active
  <2>5. \A v \in Worker : queue'[v] = IF v = w THEN queue[v] \ {new} ELSE queue[v]
    BY <2>1 DEF TypeOK
  <2> QED BY <2>1, <2>2, <2>4, <2>5 DEF OneExecutor, Executing
<1>4. ASSUME NEW w \in Worker, NEW e \in Entry, CreateRun(w, e)
      PROVE  OneExecutor'
  <2> DEFINE new == AttemptId(w, e)
  <2>1. /\ runs[new].state = "absent"
        /\ runs' = [runs EXCEPT ![new].state = "running"]
        /\ queue' = queue
        /\ scan' = [scan EXCEPT ![w] = NewScan(new, e, "fetch")]
    BY <1>4 DEF CreateRun, Insertable, Insert, SetScan
  <2>2. new \in ScanId
    BY <1>4, AttemptIdType DEF CreateRun, PassShape, PassOK, WithCustomer
  <2> HIDE DEF new
  <2>3. scan'[w].id = new /\ \A v \in Worker : v # w => scan'[v] = scan[v]
    BY <2>1, <2>2, NewScanType DEF TypeOK, ScanPc
  <2>4. \A v \in Worker : ~Executing(v, new)
    BY <2>1, <2>2 DEF OneExecutor
  <2>5. \A v \in Worker, id \in ScanId :
          Scanning(v, id)' => Scanning(v, id) \/ (v = w /\ id = new)
    BY <2>3 DEF Scanning, Active
  <2>6. \A id \in ScanId : runs'[id].state =
                            IF id = new THEN "running" ELSE runs[id].state
    BY <2>1 DEF TypeOK
  <2> QED BY <2>1, <2>4, <2>5, <2>6 DEF OneExecutor, Executing
<1>5. ASSUME NEW w \in Worker, CompleteScan(w) \/ FailScan(w)
      PROVE  OneExecutor'
  <2> DEFINE old == scan[w].id
  <2>1. /\ Active(w) /\ scan' = [scan EXCEPT ![w] = NoScan] /\ queue' = queue
        /\ \E r : runs' = [runs EXCEPT ![old] = r]
    BY <1>5 DEF CompleteScan, FailScan, Active, Return, SetScan
  <2>2. old \in ScanId /\ Scanning(w, old)
    BY <2>1 DEF ScanShape, Scanning, Active
  <2>3. \A v \in Worker : v # w => ~Executing(v, old)
    BY <2>2 DEF OneExecutor, Executing
  <2>4. old \notin queue[w]
    BY <2>2 DEF OneExecutor, Executing
  <2>5. /\ \A v \in Worker, id \in ScanId :
             Scanning(v, id)' => v # w /\ Scanning(v, id)
        /\ \A id \in ScanId : id # old => runs'[id] = runs[id]
    BY <2>1 DEF Scanning, Active, NoScan, TypeOK
  <2> HIDE DEF old
  <2> QED BY <2>1, <2>2, <2>3, <2>4, <2>5 DEF OneExecutor, Executing
<1> QED BY <1>1, <1>2, <1>3, <1>4, <1>5, StepKinds DEF Handover

\* For any number of processes and whatever crashes, a scan id is queued or
\* executed at most once and only while its run is RUNNING: the UNIQUE scan_id
\* is the only mutual exclusion between the processes, and it is enough.
THEOREM OneExecutorHolds == Spec => []OneExecutor
<1>1. Init => OneExecutor
  BY DEF Init, OneExecutor, Executing, Scanning, Active, NoScan
<1>2. Shape /\ OneExecutor /\ [Next]_vars => OneExecutor'
  BY OneExecutorStep
<1> QED BY <1>1, <1>2, ShapeHolds, PTL DEF Spec

-----------------------------------------------------------------------------
(* The history of the scan runs.                                           *)

\* What each step that opens, closes or hands over does to one run.
LEMMA RunChange ==
  ASSUME Shape, OneExecutor, [Next]_vars, NEW id \in ScanId, runs'[id] # runs[id]
  PROVE  \/ /\ runs[id].state = "absent"
            /\ runs'[id].state = "running"
         \/ \E w \in Worker :
              /\ Scanning(w, id)
              /\ runs[id].state = "running"
              /\ \/ CompleteScan(w) /\ runs'[id].state = "completed"
                 \/ FailScan(w) /\ runs'[id].state = "failed"
<1> USE DEF Shape
<1>1. PICK w \in Worker : Handover(w)
  BY StepKinds DEF Quiet
<1>2. CASE InsertRun(w)
  <2>1. scan[w].id \in ScanId /\ Insertable(scan[w].id) /\ Insert(scan[w].id)
    BY <1>2 DEF InsertRun, ScanShape
  <2> QED BY <2>1 DEF Insertable, Insert, TypeOK
<1>3. CASE \E i \in queue[w] : BeginQueued(w, i)
  BY <1>3 DEF BeginQueued, db
<1>4. ASSUME NEW e \in Entry, CreateRun(w, e)
      PROVE  runs[id].state = "absent" /\ runs'[id].state = "running"
  <2>1. Insertable(AttemptId(w, e)) /\ Insert(AttemptId(w, e))
    BY <1>4 DEF CreateRun
  <2>2. AttemptId(w, e) \in ScanId
    BY <1>4, AttemptIdType DEF CreateRun, PassShape, PassOK, WithCustomer
  <2> QED BY <2>1, <2>2 DEF Insertable, Insert, TypeOK
<1>5. CASE CompleteScan(w)
  <2>1. /\ Active(w)
        /\ runs' = [runs EXCEPT ![scan[w].id] = [state |-> "completed", at |-> clock]]
    BY <1>5 DEF CompleteScan, Active
  <2>2. scan[w].id = id /\ Scanning(w, id)
    BY <2>1 DEF TypeOK, Scanning
  <2>3. runs[id].state = "running"
    BY <2>2 DEF OneExecutor, Executing
  <2> QED BY <1>5, <2>1, <2>2, <2>3 DEF TypeOK
<1>6. CASE FailScan(w)
  <2>1. /\ Active(w)
        /\ runs' = [runs EXCEPT ![scan[w].id].state = "failed"]
    BY <1>6 DEF FailScan, Active
  <2>2. scan[w].id = id /\ Scanning(w, id)
    BY <2>1 DEF TypeOK, Scanning
  <2>3. runs[id].state = "running"
    BY <2>2 DEF OneExecutor, Executing
  <2> QED BY <1>6, <2>1, <2>2, <2>3 DEF TypeOK
<1> QED BY <1>1, <1>2, <1>3, <1>4, <1>5, <1>6 DEF Handover

\* A step changes at most one run.
LEMMA OneRunChanges ==
  ASSUME Shape, [Next]_vars, NEW i \in ScanId, NEW j \in ScanId,
         runs'[i] # runs[i], runs'[j] # runs[j]
  PROVE  i = j
<1>1. PICK w \in Worker : Handover(w)
  BY StepKinds DEF Quiet
<1>2. \E id, r : runs' = [runs EXCEPT ![id] = r]
  <2>1. CASE InsertRun(w)
    BY <2>1 DEF InsertRun, Insert
  <2>2. CASE \E id \in queue[w] : BeginQueued(w, id)
    BY <2>2 DEF BeginQueued, db
  <2>3. CASE \E e \in Entry : CreateRun(w, e)
    BY <2>3 DEF CreateRun, Insert
  <2>4. CASE CompleteScan(w) \/ FailScan(w)
    BY <2>4 DEF CompleteScan, FailScan
  <2> QED BY <1>1, <2>1, <2>2, <2>3, <2>4 DEF Handover
<1> QED BY <1>2 DEF Shape, TypeOK

\* No interleaving of processes and no crash changes a completed or failed
\* run, or makes a run disappear.
THEOREM ResultsAreFinalHolds == Spec => ResultsAreFinal
<1> DEFINE Final == \A id \in ScanId :
             /\ runs[id].state \in Terminal => runs'[id] = runs[id]
             /\ runs[id].state = "running" => runs'[id].state # "absent"
<1>1. Shape /\ OneExecutor /\ [Next]_vars => [Final]_vars
  <2> SUFFICES ASSUME Shape, OneExecutor, [Next]_vars, NEW id \in ScanId
               PROVE  /\ runs[id].state \in Terminal => runs'[id] = runs[id]
                      /\ runs[id].state = "running" => runs'[id].state # "absent"
    OBVIOUS
  <2> QED BY RunChange DEF Terminal
<1> QED BY <1>1, ShapeHolds, OneExecutorHolds, PTL DEF Spec, ResultsAreFinal

-----------------------------------------------------------------------------
(* Evidence for completed runs.                                            *)

\* A scan about to commit has what it needs, one about to complete has
\* committed it.
Gathered ==
    \A w \in Worker :
        /\ scan[w].pc = "commit" => LiveEnough(w)
        /\ scan[w].pc = "finish" /\ RequireLive =>
             \E p \in Provider : <<scan[w].id, p>> \in snaps

LEMMA SnapsGrow ==
  ASSUME [Next]_vars
  PROVE  snaps \subseteq snaps'
<1>1. ASSUME NEW w \in Worker, ScanStep(w)
      PROVE  snaps \subseteq snaps'
  BY <1>1 DEF ScanStep, Fetch, ScanRaises, Flush, AllFetched, CommitScan, CompleteScan,
     FailScan, WriteFails, Publish, db
<1>2. ASSUME NEW w \in Worker, NEW e \in Entry, PassStep(w, e) \/ Wake(w, e)
      PROVE  snaps \subseteq snaps'
  BY <1>2, PassStepFrame DEF CreateRun
<1>3. ASSUME NEW w \in Worker, WorkerStep(w)
      PROVE  snaps \subseteq snaps'
  BY <1>1, <1>2, <1>3 DEF WorkerStep, StartScan, AddCredentials, InsertRun, RejectInsert,
     BeginQueued, BeginLoopPass, RunNow, BeginPass, db
<1>4. CASE PermissionHandler \/ Tick \/ UNCHANGED vars
  BY <1>4 DEF PermissionHandler, RequestApproval, Approve, Pause, Resume, UpdatePolicy,
     SetPermission, Tick, vars, db
<1>5. ASSUME NEW w \in Worker, Crash(w)
      PROVE  snaps \subseteq snaps'
  BY <1>5 DEF Crash
<1> QED BY <1>3, <1>4, <1>5 DEF Next

\* A scan comes near its end only by AllFetched and CommitScan.
LEMMA LateScan ==
  ASSUME Shape, [Next]_vars, NEW v \in Worker, scan'[v].pc \in {"commit", "finish"}
  PROVE  scan'[v] = scan[v] \/ AllFetched(v) \/ CommitScan(v)
<1>0. NoScan \in ScanRecord /\ NoScan.pc = "off"
  BY DEF NoScan, ScanRecord, ScanPc
<1>1. ASSUME NEW w \in Worker, NEW r \in ScanRecord, SetScan(w, r),
             r.pc \notin {"commit", "finish"}
      PROVE  scan'[v] = scan[v]
  BY <1>1, ScanUpdate DEF Shape
<1>2. ASSUME UNCHANGED scan
      PROVE  scan'[v] = scan[v]
  BY <1>2
<1>3. CASE PermissionHandler \/ Tick \/ UNCHANGED vars
  BY <1>2, <1>3 DEF PermissionHandler, RequestApproval, Approve, Pause, Resume,
     UpdatePolicy, SetPermission, Tick, vars, process
<1>4. ASSUME NEW w \in Worker, Crash(w)
      PROVE  scan'[v] = scan[v]
  BY <1>0, <1>1, <1>4 DEF Crash
<1>5. ASSUME NEW w \in Worker, ScanStep(w)
      PROVE  scan'[v] = scan[v] \/ AllFetched(v) \/ CommitScan(v)
  <2>1. ASSUME NEW p \in Provider, Fetch(w, p)
        PROVE  scan'[v] = scan[v]
    <3>1. PICK r \in ScanRecord : SetScan(w, r) /\ r.pc \in {"fetch", "flush"}
      BY <2>1, FetchMove
    <3> QED BY <1>1, <3>1
  <2>2. CASE ScanRaises(w) \/ Flush(w)
    <3>1. PICK pc \in {"raise", "fetch"} : SetScan(w, [scan[w] EXCEPT !.pc = pc])
      BY <2>2 DEF ScanRaises, Flush
    <3>2. /\ [scan[w] EXCEPT !.pc = pc] \in ScanRecord
          /\ [scan[w] EXCEPT !.pc = pc].pc = pc
      <4>1. scan[w] \in ScanRecord /\ pc \in ScanPc
        BY DEF Shape, TypeOK, ScanPc
      <4> QED BY <4>1 DEF ScanRecord
    <3> QED BY <1>1, <3>1, <3>2
  <2>3. CASE AllFetched(w) \/ CommitScan(w)
    <3>1. v # w => scan'[v] = scan[v]
      BY <2>3 DEF AllFetched, CommitScan, SetScan, Shape, TypeOK
    <3> QED BY <2>3, <3>1
  <2>4. CASE CompleteScan(w) \/ FailScan(w) \/ WriteFails(w)
    BY <1>0, <1>1, <2>4 DEF CompleteScan, FailScan, WriteFails, Return
  <2> QED BY <1>5, <2>1, <2>2, <2>3, <2>4 DEF ScanStep
<1>6. ASSUME NEW w \in Worker, WorkerStep(w)
      PROVE  scan'[v] = scan[v] \/ AllFetched(v) \/ CommitScan(v)
  <2>1. ASSUME NEW id \in ScanId, NEW via \in {"bg"} \cup Entry,
               NEW pc \in {"insert", "fetch"}, SetScan(w, NewScan(id, via, pc))
        PROVE  scan'[v] = scan[v]
    <3>1. /\ NewScan(id, via, pc) \in ScanRecord
          /\ NewScan(id, via, pc).pc = pc
      BY NewScanType DEF ScanPc
    <3> QED BY <1>1, <2>1, <3>1
  <2>2. ASSUME NEW c \in Customer, StartScan(w, c) \/ AddCredentials(w, c)
        PROVE  scan'[v] = scan[v]
    <3>1. PICK id \in ScanId : SetScan(w, NewScan(id, "bg", "insert"))
      BY <2>2, StartedScan
    <3> QED BY <2>1, <3>1
  <2>3. CASE InsertRun(w) \/ RejectInsert(w)
    BY <1>0, <1>1, <2>3 DEF InsertRun, RejectInsert
  <2>4. ASSUME NEW id \in queue[w], BeginQueued(w, id)
        PROVE  scan'[v] = scan[v]
    BY <2>1, <2>4 DEF BeginQueued, Shape, TypeOK
  <2>5. CASE BeginLoopPass(w) \/ RunNow(w)
    BY <1>2, <2>5 DEF BeginLoopPass, RunNow, BeginPass
  <2>6. ASSUME NEW e \in Entry, PassStep(w, e) \/ Wake(w, e)
        PROVE  scan'[v] = scan[v]
    <3>1. CASE CreateRun(w, e)
      <4>1. AttemptId(w, e) \in ScanId
        BY <3>1, AttemptIdType DEF CreateRun, Shape, PassShape, PassOK, WithCustomer
      <4>2. SetScan(w, NewScan(AttemptId(w, e), e, "fetch"))
        BY <3>1 DEF CreateRun
      <4> QED BY <2>1, <4>1, <4>2
    <3>2. CASE ~CreateRun(w, e)
      BY <1>2, <2>6, <3>2, PassStepFrame
    <3> QED BY <3>1, <3>2
  <2> QED BY <1>5, <1>6, <2>2, <2>3, <2>4, <2>5, <2>6 DEF WorkerStep
<1> QED BY <1>3, <1>4, <1>6 DEF Next

LEMMA GatheredStep ==
  ASSUME Shape, Gathered, [Next]_vars
  PROVE  Gathered'
<1> SUFFICES ASSUME NEW w \in Worker
             PROVE  /\ scan'[w].pc = "commit" => LiveEnough(w)'
                    /\ scan'[w].pc = "finish" /\ RequireLive =>
                         \E p \in Provider : <<scan'[w].id, p>> \in snaps'
  BY DEF Gathered
<1>0. scan[w] \in ScanRecord /\ scan \in [Worker -> ScanRecord]
  BY DEF Shape, TypeOK
<1>1. CASE scan'[w] = scan[w]
  BY <1>1, SnapsGrow DEF Gathered, LiveEnough
<1>2. CASE AllFetched(w)
  <2>1. scan' = [scan EXCEPT ![w] =
                    [scan[w] EXCEPT !.pc = IF LiveEnough(w) THEN "commit" ELSE "raise"]]
    BY <1>2 DEF AllFetched, SetScan
  <2>2. /\ scan'[w].pc = IF LiveEnough(w) THEN "commit" ELSE "raise"
        /\ scan'[w].ok = scan[w].ok
    BY <1>0, <2>1 DEF ScanRecord
  <2> QED BY <2>2 DEF LiveEnough
<1>3. CASE CommitScan(w)
  <2>1. /\ scan' = [scan EXCEPT ![w] = [scan[w] EXCEPT !.pc = "finish"]]
        /\ snaps' = snaps \cup {<<scan[w].id, p>> : p \in scan[w].ok}
        /\ LiveEnough(w)
    BY <1>3 DEF CommitScan, SetScan, Publish, Gathered
  <2>2. scan'[w].pc = "finish" /\ scan'[w].id = scan[w].id
    BY <1>0, <2>1 DEF ScanRecord
  <2>3. scan[w].ok \subseteq Provider
    BY <1>0 DEF ScanRecord
  <2> QED BY <2>1, <2>2, <2>3 DEF LiveEnough
<1> QED BY <1>1, <1>2, <1>3, LateScan

\* Under the live-data policy no run is completed without a committed snapshot,
\* whichever process, failure or crash comes in between.
THEOREM EvidenceHolds == Spec => []CompletedHasEvidence
<1>1. Init => Gathered /\ CompletedHasEvidence
  BY DEF Init, Gathered, CompletedHasEvidence, NoScan, NoRun
<1>2. Shape /\ OneExecutor /\ Gathered /\ CompletedHasEvidence /\ [Next]_vars
        => Gathered' /\ CompletedHasEvidence'
  <2> SUFFICES ASSUME Shape, OneExecutor, Gathered, CompletedHasEvidence, [Next]_vars
               PROVE  CompletedHasEvidence'
    BY GatheredStep
  <2> SUFFICES ASSUME NEW id \in ScanId, runs'[id].state = "completed", RequireLive
               PROVE  \E p \in Provider : <<id, p>> \in snaps'
    BY DEF CompletedHasEvidence
  <2>1. CASE runs'[id] = runs[id]
    BY <2>1, SnapsGrow DEF CompletedHasEvidence
  <2>2. CASE runs'[id] # runs[id]
    <3>1. PICK w \in Worker : Scanning(w, id) /\ CompleteScan(w)
      BY <2>2, RunChange
    <3>2. scan[w].pc = "finish" /\ scan[w].id = id
      BY <3>1 DEF CompleteScan, Scanning
    <3> QED BY <3>2, SnapsGrow DEF Gathered
  <2> QED BY <2>1, <2>2
<1> QED BY <1>1, <1>2, ShapeHolds, OneExecutorHolds, PTL DEF Spec

-----------------------------------------------------------------------------
(* The scan history is a ScanLedger.                                       *)

\* A step that changes the snapshots commits those of a scan in progress.
LEMMA SnapChange ==
  ASSUME [Next]_vars, snaps' # snaps
  PROVE  \E w \in Worker :
           /\ Active(w) /\ Publish(w)
           /\ UNCHANGED runs \/ FailScan(w)
<1>1. ASSUME NEW w \in Worker, ScanStep(w)
      PROVE  Active(w) /\ Publish(w) /\ (UNCHANGED runs \/ FailScan(w))
  BY <1>1 DEF ScanStep, Fetch, ScanRaises, Flush, AllFetched, CommitScan, CompleteScan,
     FailScan, WriteFails, Active, db
<1>2. ASSUME NEW w \in Worker, NEW e \in Entry, PassStep(w, e) \/ Wake(w, e)
      PROVE  FALSE
  BY <1>2, PassStepFrame DEF CreateRun
<1>3. ASSUME NEW w \in Worker, WorkerStep(w)
      PROVE  Active(w) /\ Publish(w) /\ (UNCHANGED runs \/ FailScan(w))
  BY <1>1, <1>2, <1>3 DEF WorkerStep, StartScan, AddCredentials, InsertRun, RejectInsert,
     BeginQueued, BeginLoopPass, RunNow, BeginPass, db
<1>4. ~(PermissionHandler \/ Tick \/ UNCHANGED vars)
  BY DEF PermissionHandler, RequestApproval, Approve, Pause, Resume, UpdatePolicy,
     SetPermission, Tick, vars, db
<1>5. \A w \in Worker : ~Crash(w)
  BY DEF Crash
<1> QED BY <1>3, <1>4, <1>5 DEF Next

LEMMA FailIsNext ==
  ASSUME NEW id \in ScanId, NEW ps \in SUBSET Provider, Ledger!Fail(id, ps)
  PROVE  Ledger!Next
<1>1. \E q \in SUBSET Provider : Ledger!Attach(id, q) \/ Ledger!Fail(id, q)
  OBVIOUS
<1> QED BY <1>1 DEF Ledger!Next

\* Each step of the processes is a step of the ledger or leaves it alone.
LEMMA LedgerStep ==
  ASSUME Shape, OneExecutor, Gathered, [Next]_vars
  PROVE  [Ledger!Next]_<<[id \in ScanId |-> runs[id].state], snaps>>
<1> DEFINE st == [id \in ScanId |-> runs[id].state]
<1>0. /\ runs \in [ScanId -> [state : RunState, at : Time]]
      /\ runs' \in [ScanId -> [state : RunState, at : Time]]
  BY ShapeStep DEF Shape, TypeOK
<1>1. CASE snaps' # snaps
  <2>1. PICK w \in Worker :
          Active(w) /\ Publish(w) /\ (UNCHANGED runs \/ FailScan(w))
    BY <1>1, SnapChange
  <2>2. PICK id \in ScanId, ps \in SUBSET Provider : id = scan[w].id /\ ps = scan[w].ok
    BY <2>1 DEF Shape, ScanShape, TypeOK, ScanRecord, Active
  <2>3. runs[id].state = "running"
    BY <2>1, <2>2 DEF OneExecutor, Executing, Scanning
  <2>4. snaps' = snaps \cup {<<id, p>> : p \in ps}
    BY <2>1, <2>2 DEF Publish
  <2>5. CASE UNCHANGED runs
    <3>1. Ledger!Attach(id, ps)
      BY <2>2, <2>3, <2>4, <2>5 DEF Ledger!Attach
    <3> QED BY <2>2, <3>1 DEF Ledger!Next
  <2>6. CASE FailScan(w)
    <3>1. runs' = [runs EXCEPT ![id].state = "failed"]
      BY <2>2, <2>6 DEF FailScan
    <3>2. st' = [st EXCEPT ![id] = "failed"]
      BY <1>0, <2>2, <3>1
    <3>3. Ledger!Fail(id, ps)
      BY <2>2, <2>3, <2>4, <3>2 DEF Ledger!Fail
    <3> QED BY <3>3, FailIsNext
  <2> QED BY <2>1, <2>5, <2>6
<1>2. CASE snaps' = snaps /\ \A id \in ScanId : runs'[id].state = runs[id].state
  BY <1>2
<1>3. ASSUME snaps' = snaps, NEW id \in ScanId, runs'[id].state # runs[id].state
      PROVE  Ledger!Next
  <2>1. \A i \in ScanId : i # id => runs'[i] = runs[i]
    BY <1>3, OneRunChanges
  <2>2. \A s : runs'[id].state = s => st' = [st EXCEPT ![id] = s]
    BY <1>0, <2>1
  <2>3. CASE runs[id].state = "absent" /\ runs'[id].state = "running"
    <3>1. Ledger!Open(id)
      BY <1>3, <2>2, <2>3 DEF Ledger!Open
    <3> QED BY <3>1 DEF Ledger!Next
  <2>4. ASSUME NEW w \in Worker, Scanning(w, id), runs[id].state = "running",
               CompleteScan(w), runs'[id].state = "completed"
        PROVE  Ledger!Next
    <3>1. Ledger!Evidence(id)
      BY <2>4 DEF CompleteScan, Scanning, Gathered, Ledger!Evidence
    <3>2. Ledger!Complete(id)
      BY <1>3, <2>2, <2>4, <3>1 DEF Ledger!Complete
    <3> QED BY <3>2 DEF Ledger!Next
  <2>5. ASSUME NEW w \in Worker, Scanning(w, id), runs[id].state = "running",
               FailScan(w), runs'[id].state = "failed"
        PROVE  Ledger!Next
    <3>1. PICK ps \in SUBSET Provider : ps = scan[w].ok
      BY DEF Shape, TypeOK, ScanRecord
    <3>2. snaps' = snaps \cup {<<id, p>> : p \in ps}
      BY <2>5, <3>1 DEF FailScan, Publish, Scanning
    <3>3. Ledger!Fail(id, ps)
      BY <2>2, <2>5, <3>2 DEF Ledger!Fail
    <3> QED BY <3>3, FailIsNext
  <2>6. runs'[id] # runs[id]
    BY <1>3
  <2> QED BY <2>3, <2>4, <2>5, <2>6, RunChange
<1> QED BY <1>1, <1>2, <1>3

\* Any number of processes with crashes, lost sessions and duplicate ids leave
\* a history that the one-process ledger could have written.
THEOREM LedgerImplemented == Spec => ImplementsLedger
<1>1. Init => Ledger!Init
  BY DEF Init, Ledger!Init, NoRun
<1>2. Init => Gathered
  BY DEF Init, Gathered, NoScan
<1>3. Shape /\ Gathered /\ [Next]_vars => Gathered'
  BY GatheredStep
<1>4. Shape /\ OneExecutor /\ Gathered /\ [Next]_vars
        => [Ledger!Next]_<<[id \in ScanId |-> runs[id].state], snaps>>
  BY LedgerStep
<1> QED
  BY <1>1, <1>2, <1>3, <1>4, ShapeHolds, OneExecutorHolds, PTL
  DEF Spec, ImplementsLedger, Ledger!Spec

-----------------------------------------------------------------------------
(* One pass per process.                                                   *)

\* A pass stays a pass until it is left.
LEMMA PassStepForm ==
  ASSUME Shape, NEW w \in Worker, NEW e \in Entry, PassStep(w, e) \/ Wake(w, e)
  PROVE  /\ pass[w][e].pc # "idle"
         /\ \/ LeavePass(w, e)
            \/ /\ UNCHANGED busy
               /\ \E r : SetPass(w, e, r) /\ r.pc # "idle"
<1> DEFINE at == pass[w][e]
           Goes == UNCHANGED busy /\ \E r : SetPass(w, e, r) /\ r.pc # "idle"
<1>0. at \in PassRecord
  BY DEF Shape, TypeOK
<1>g. ASSUME NEW r, SetPass(w, e, r), r.pc # "idle", UNCHANGED busy
      PROVE  Goes
  BY <1>g
<1>1. ASSUME NEW c \in Customer,
             Pick(w, e, c) \/ SkipExport(w, e, c) \/ BeginExport(w, e, c)
      PROVE  at.pc # "idle" /\ Goes
  <2>1. CASE Pick(w, e, c)
    <3> DEFINE taken(pc) == [at EXCEPT !.pc = pc, !.cust = c, !.attempt = 1]
               skipped == [at EXCEPT !.todo = @ \ {c}]
    <3>1. /\ taken("overdue").pc # "idle" /\ taken("create").pc # "idle"
          /\ skipped.pc # "idle" /\ at.pc # "idle" /\ UNCHANGED busy
      BY <1>0, <2>1 DEF Pick, PassRecord
    <3>2. \/ SetPass(w, e, taken("overdue")) \/ SetPass(w, e, taken("create"))
          \/ SetPass(w, e, skipped)
      BY <2>1 DEF Pick
    <3> HIDE DEF taken, skipped
    <3> QED BY <3>1, <3>2
  <2>2. CASE SkipExport(w, e, c)
    <3> DEFINE r == [at EXCEPT !.todo = @ \ {c}]
    <3>1. at.pc # "idle" /\ r.pc # "idle"
      BY <1>0, <2>2 DEF SkipExport, PassRecord
    <3>2. SetPass(w, e, r) /\ UNCHANGED busy
      BY <2>2 DEF SkipExport
    <3> HIDE DEF r
    <3> QED BY <1>g, <3>1, <3>2
  <2>3. CASE BeginExport(w, e, c)
    <3> DEFINE r == [at EXCEPT !.pc = "exporting", !.cust = c]
    <3>1. at.pc # "idle" /\ r.pc # "idle"
      BY <1>0, <2>3 DEF BeginExport, PassRecord
    <3>2. SetPass(w, e, r) /\ UNCHANGED busy
      BY <2>3 DEF BeginExport
    <3> HIDE DEF r
    <3> QED BY <1>g, <3>1, <3>2
  <2> QED BY <1>1, <2>1, <2>2, <2>3
<1>2. CASE RaiseOverdue(w, e) \/ CreateRun(w, e)
  <2>1. /\ at.pc # "idle" /\ UNCHANGED busy
        /\ \/ SetPass(w, e, [at EXCEPT !.pc = "create"])
           \/ SetPass(w, e, [at EXCEPT !.pc = "scanning"])
    BY <1>2 DEF RaiseOverdue, CreateRun
  <2>2. /\ [at EXCEPT !.pc = "create"].pc # "idle"
        /\ [at EXCEPT !.pc = "scanning"].pc # "idle"
    BY <1>0 DEF PassRecord
  <2> QED BY <1>g, <2>1, <2>2
<1>3. CASE AuditTriggered(w, e) \/ GiveUp(w, e)
  <2>1. /\ at.pc # "idle" /\ UNCHANGED busy
        /\ SetPass(w, e, NextCustomer(w, e))
    BY <1>3 DEF AuditTriggered, GiveUp
  <2>2. NextCustomer(w, e).pc # "idle"
    BY <1>0 DEF NextCustomer, PassRecord
  <2> QED BY <1>g, <2>1, <2>2
<1>4. CASE AuditRetry(w, e)
  <2>1. /\ [at EXCEPT !.pc = "giveup"].pc # "idle"
        /\ [at EXCEPT !.pc = "asleep"].pc # "idle"
        /\ NextAttempt(w, e).pc # "idle"
    BY <1>0 DEF NextAttempt, PassRecord
  <2>2. \/ SetPass(w, e, [at EXCEPT !.pc = "giveup"])
        \/ SetPass(w, e, [at EXCEPT !.pc = "asleep"])
        \/ SetPass(w, e, NextAttempt(w, e))
    BY <1>4 DEF AuditRetry
  <2> QED BY <1>4, <2>1, <2>2 DEF AuditRetry
<1>5. CASE Wake(w, e)
  <2>1. /\ at.pc # "idle" /\ UNCHANGED busy
        /\ SetPass(w, e, NextAttempt(w, e))
    BY <1>5 DEF Wake
  <2>2. NextAttempt(w, e).pc # "idle"
    BY <1>0 DEF NextAttempt, PassRecord
  <2> QED BY <1>g, <2>1, <2>2
<1>6. CASE TurnToExports(w, e) \/ FinishExport(w, e)
  <2> DEFINE turned == [at EXCEPT !.pc = "exports", !.todo = at.scope \cap Exporter]
             next == [at EXCEPT !.pc = "exports", !.todo = @ \ {at.cust}]
  <2>1. /\ at.pc # "idle" /\ UNCHANGED busy
        /\ SetPass(w, e, turned) \/ SetPass(w, e, next)
    BY <1>6 DEF TurnToExports, FinishExport
  <2>2. turned.pc # "idle" /\ next.pc # "idle"
    BY <1>0 DEF PassRecord
  <2> HIDE DEF turned, next
  <2> QED BY <1>g, <2>1, <2>2
<1>7. CASE EndPass(w, e) \/ AbortPass(w, e)
  BY <1>7 DEF EndPass, AbortPass
<1> QED BY <1>1, <1>2, <1>3, <1>4, <1>5, <1>6, <1>7 DEF PassStep

LEMMA OnePassMove ==
  ASSUME Shape, OnePassPerProcess, NEW w \in Worker, NEW e \in Entry, NEW r,
         SetPass(w, e, r), r.pc # "idle", pass[w][e].pc # "idle", UNCHANGED busy,
         Shape'
  PROVE  OnePassPerProcess'
<1>1. /\ pass'[w][e] = r
      /\ \A v \in Worker, f \in Entry : v # w \/ f # e => pass'[v][f] = pass[v][f]
  BY DEF Shape, TypeOK, SetPass
<1>2. \A v \in Worker, f \in Entry : pass'[v][f].pc = "idle" <=> pass[v][f].pc = "idle"
  BY <1>1
<1>3. \A v \in Worker, f \in Entry : pass'[v][f].pc \notin {"idle", "asleep"} => loop'[v] = f
  BY DEF Shape, PassShape
<1> QED BY <1>2, <1>3 DEF OnePassPerProcess

LEMMA OnePassLeave ==
  ASSUME Shape, OnePassPerProcess, NEW w \in Worker, Shape',
         busy' = [busy EXCEPT ![w] = FALSE],
         \A v \in Worker : v # w => pass'[v] = pass[v],
         \A f \in Entry : pass'[w][f].pc = "idle"
  PROVE  OnePassPerProcess'
<1>1. busy'[w] = FALSE /\ \A v \in Worker : v # w => busy'[v] = busy[v]
  BY DEF Shape, TypeOK
<1>2. \A v \in Worker, f \in Entry : pass'[v][f].pc \notin {"idle", "asleep"} => loop'[v] = f
  BY DEF Shape, PassShape
<1> QED BY <1>1, <1>2 DEF OnePassPerProcess

LEMMA OnePassStep ==
  ASSUME Shape, OnePassPerProcess, [Next]_vars
  PROVE  OnePassPerProcess'
<1>0. Shape'
  BY ShapeStep
<1>1. ASSUME UNCHANGED <<busy, pass>>
      PROVE  OnePassPerProcess'
  <2>1. \A v \in Worker, f \in Entry :
          pass'[v][f].pc \notin {"idle", "asleep"} => loop'[v] = f
    BY <1>0 DEF Shape, PassShape
  <2> QED BY <1>1, <2>1 DEF OnePassPerProcess
<1>2. CASE PermissionHandler \/ Tick \/ UNCHANGED vars
  BY <1>1, <1>2 DEF PermissionHandler, RequestApproval, Approve, Pause, Resume,
     UpdatePolicy, SetPermission, Tick, vars, process
<1>3. ASSUME NEW w \in Worker, Crash(w)
      PROVE  OnePassPerProcess'
  <2>1. /\ busy' = [busy EXCEPT ![w] = FALSE]
        /\ \A v \in Worker : v # w => pass'[v] = pass[v]
        /\ \A f \in Entry : pass'[w][f].pc = "idle"
    BY <1>3 DEF Crash, IdlePass, Shape, TypeOK
  <2> QED BY <1>0, <2>1, OnePassLeave
<1>4. ASSUME NEW w \in Worker, NEW e \in Entry, PassStep(w, e) \/ Wake(w, e)
      PROVE  OnePassPerProcess'
  <2>1. CASE LeavePass(w, e)
    <3>1. pass[w][e].pc # "idle"
      BY <1>4, PassStepForm
    <3>2. \A f \in Entry : f # e => pass[w][f].pc = "idle"
      BY <3>1 DEF OnePassPerProcess
    <3>3. /\ busy' = [busy EXCEPT ![w] = FALSE]
          /\ \A v \in Worker : v # w => pass'[v] = pass[v]
          /\ \A f \in Entry : pass'[w][f].pc = "idle"
      BY <2>1, <3>2 DEF LeavePass, SetPass, IdlePass, Shape, TypeOK
    <3> QED BY <1>0, <3>3, OnePassLeave
  <2>2. CASE ~LeavePass(w, e)
    <3>1. /\ pass[w][e].pc # "idle" /\ UNCHANGED busy
          /\ \E r : SetPass(w, e, r) /\ r.pc # "idle"
      BY <1>4, <2>2, PassStepForm
    <3> QED BY <1>0, <3>1, OnePassMove
  <2> QED BY <2>1, <2>2
<1>5. ASSUME NEW w \in Worker, ScanStep(w)
      PROVE  OnePassPerProcess'
  <2>1. CASE UNCHANGED pass
    BY <1>1, <1>5, <2>1 DEF ScanStep, Fetch, ScanRaises, Flush, AllFetched, CommitScan,
       CompleteScan, FailScan, WriteFails
  <2>2. CASE pass' # pass
    <3>1. PICK ok \in BOOLEAN : Active(w) /\ Return(w, ok) /\ UNCHANGED busy
      BY <1>5, <2>2 DEF ScanStep, Fetch, ScanRaises, Flush, AllFetched, CommitScan,
         CompleteScan, FailScan, WriteFails, Active
    <3>2. PICK e \in Entry : e = scan[w].via /\ pass[w][e].pc = "scanning"
      BY <2>2, <3>1 DEF Return, Shape, ScanShape, TypeOK, ScanRecord
    <3> DEFINE r == [pass[w][e] EXCEPT !.pc = IF ok THEN "triggered" ELSE "retry"]
    <3>3. SetPass(w, e, r)
      BY <2>2, <3>1, <3>2 DEF Return
    <3>4. r.pc # "idle"
      BY DEF Shape, TypeOK, PassRecord
    <3> HIDE DEF r
    <3> QED BY <1>0, <3>1, <3>2, <3>3, <3>4, OnePassMove
  <2> QED BY <2>1, <2>2
<1>6. ASSUME NEW w \in Worker, NEW e \in Entry, NEW scope, BeginPass(w, e, scope)
      PROVE  OnePassPerProcess'
  <2> DEFINE r == [IdlePass EXCEPT !.pc = "pick", !.now = clock, !.scope = scope,
                                   !.todo = {c \in scope : perm[c] \in Scannable}]
  <2>1. /\ ~busy[w] /\ busy' = [busy EXCEPT ![w] = TRUE]
        /\ SetPass(w, e, r) /\ r.pc = "pick"
    BY <1>6 DEF BeginPass, NotBusy, IdlePass
  <2> HIDE DEF r
  <2>2. /\ pass'[w][e].pc = "pick"
        /\ \A v \in Worker, f \in Entry : v # w \/ f # e => pass'[v][f] = pass[v][f]
    BY <2>1 DEF Shape, TypeOK, SetPass
  <2>3. \A f \in Entry : pass[w][f].pc = "idle"
    BY <2>1 DEF OnePassPerProcess
  <2>4. busy'[w] = TRUE /\ \A v \in Worker : v # w => busy'[v] = busy[v]
    BY <2>1 DEF Shape, TypeOK
  <2>5. \A v \in Worker, f \in Entry :
          pass'[v][f].pc \notin {"idle", "asleep"} => loop'[v] = f
    BY <1>0 DEF Shape, PassShape
  <2> QED BY <2>2, <2>3, <2>4, <2>5 DEF OnePassPerProcess
<1>7. ASSUME NEW w \in Worker, WorkerStep(w)
      PROVE  OnePassPerProcess'
  <2>1. CASE BeginLoopPass(w) \/ RunNow(w)
    BY <1>6, <2>1 DEF BeginLoopPass, RunNow
  <2>2. CASE \/ \E c \in Customer : StartScan(w, c) \/ AddCredentials(w, c)
             \/ InsertRun(w) \/ RejectInsert(w)
             \/ \E id \in queue[w] : BeginQueued(w, id)
    BY <1>1, <2>2 DEF StartScan, AddCredentials, InsertRun, RejectInsert, BeginQueued
  <2> QED BY <1>4, <1>5, <1>7, <2>1, <2>2 DEF WorkerStep
<1> QED BY <1>2, <1>3, <1>7 DEF Next

\* _scheduler_running is up exactly while the process has a pass, and there is
\* one pass at a time although loop and run-now both enter the function.
THEOREM OnePassHolds == Spec => []OnePassPerProcess
<1>1. Init => OnePassPerProcess
  BY DEF Init, OnePassPerProcess, IdlePass
<1>2. Shape /\ OnePassPerProcess /\ [Next]_vars => OnePassPerProcess'
  BY OnePassStep
<1> QED BY <1>1, <1>2, ShapeHolds, PTL DEF Spec

-----------------------------------------------------------------------------
(* The write lock.                                                         *)

\* A flush has an account to insert, and the lock is given back before a run
\* is completed.
LockUse ==
    \A w \in Worker :
        /\ scan[w].pc = "flush" => scan[w].fresh # {}
        /\ scan[w].pc = "finish" => writer # w

LockInv == LockHasHolder /\ LockUse

\* What a step of process w does not touch.
LEMMA OthersLock ==
  ASSUME Shape, LockInv, NEW w \in Worker,
         \A v \in Worker : v # w =>
             /\ scan'[v] = scan[v]
             /\ pass'[v] = pass[v]
             /\ writer' = v => writer = v,
         scan'[w].pc = "flush" => scan'[w].fresh # {},
         scan'[w].pc = "finish" => writer' # w,
         writer' = w => \/ Active(w)' /\ scan'[w].fresh # {}
                        \/ \E e \in Entry : pass'[w][e].pc = "exporting"
  PROVE  LockInv'
<1> SUFFICES ASSUME NEW v \in Worker
             PROVE  /\ scan'[v].pc = "flush" => scan'[v].fresh # {}
                    /\ scan'[v].pc = "finish" => writer' # v
                    /\ writer' = v => \/ Active(v)' /\ scan'[v].fresh # {}
                                      \/ \E e \in Entry : pass'[v][e].pc = "exporting"
  BY DEF LockInv, LockUse, LockHasHolder
<1>1. CASE v = w
  BY <1>1 DEF Active
<1>2. CASE v # w
  BY <1>2 DEF LockInv, LockUse, LockHasHolder, Active
<1> QED BY <1>1, <1>2

\* A process that is neither scanning nor exporting does not hold the lock.
LEMMA NotHolding ==
  ASSUME Shape, LockInv, NEW w \in Worker, ~Active(w),
         \A e \in Entry : pass[w][e].pc # "exporting"
  PROVE  writer # w
  BY DEF LockInv, LockHasHolder

LEMMA PassLock ==
  ASSUME Shape, LockInv, NEW w \in Worker, NEW e \in Entry, PassStep(w, e) \/ Wake(w, e)
  PROVE  LockInv'
<1>1. scan[w].pc = "off"
  <2>1. CASE PassStep(w, e)
    <3>1. loop[w] = e /\ pass[w][e].pc # "scanning"
      BY <2>1 DEF PassStep, Pick, SkipExport, BeginExport, RaiseOverdue, CreateRun,
         AuditTriggered, AuditRetry, GiveUp, TurnToExports, FinishExport, EndPass,
         AbortPass
    <3> QED BY <3>1, PassAlone
  <2>2. CASE Wake(w, e)
    BY <2>2, FreeIsIdle DEF Wake
  <2> QED BY <2>1, <2>2
<1>2. pass[w][e].pc # "exporting" => writer # w
  <2>1. \A f \in Entry : f # e => pass[w][f].pc \in {"idle", "asleep"}
    BY DEF PassStep, Pick, SkipExport, BeginExport, RaiseOverdue, CreateRun,
       AuditTriggered, AuditRetry, GiveUp, TurnToExports, FinishExport, EndPass,
       AbortPass, Wake, Shape, PassShape
  <2> QED BY <1>1, <2>1, NotHolding DEF Active
<1>3. \A v \in Worker : v # w => pass'[v] = pass[v]
  <2>1. \E r : SetPass(w, e, r)
    BY PassStepForm DEF LeavePass
  <2> QED BY <2>1 DEF SetPass, Shape, TypeOK
<1>4. CASE CreateRun(w, e)
  <2>1. AttemptId(w, e) \in ScanId
    BY <1>4, AttemptIdType DEF CreateRun, Shape, PassShape, PassOK, WithCustomer
  <2>2. /\ NewScan(AttemptId(w, e), e, "fetch") \in ScanRecord
        /\ NewScan(AttemptId(w, e), e, "fetch").pc = "fetch"
    BY <2>1, NewScanType DEF ScanPc
  <2>3. scan'[w].pc = "fetch" /\ \A v \in Worker : v # w => scan'[v] = scan[v]
    BY <1>4, <2>2, ScanUpdate DEF CreateRun, Shape
  <2>4. writer' = writer /\ writer # w
    BY <1>2, <1>4 DEF CreateRun
  <2> QED BY <1>3, <2>3, <2>4, OthersLock
<1>5. CASE ~CreateRun(w, e)
  <2>1. scan' = scan
    BY <1>5, PassStepFrame
  <2>2. CASE \E c \in Customer : BeginExport(w, e, c)
    <3>1. PICK c \in Customer : BeginExport(w, e, c)
      BY <2>2
    <3>2. SetPass(w, e, [pass[w][e] EXCEPT !.pc = "exporting", !.cust = c]) /\ writer' = w
      BY <3>1 DEF BeginExport
    <3>3. pass'[w][e].pc = "exporting"
      BY <3>2 DEF SetPass, Shape, TypeOK, PassRecord
    <3> QED BY <1>1, <1>3, <2>1, <3>2, <3>3, OthersLock
  <2>3. CASE FinishExport(w, e)
    <3>1. writer' = Released(w)
      BY <2>3 DEF FinishExport
    <3>2. writer' # w /\ \A v \in Worker : writer' = v => writer = v
      BY <3>1, NamesAssumption DEF Released
    <3> QED BY <1>1, <1>3, <2>1, <3>2, OthersLock
  <2>4. CASE ~(\E c \in Customer : BeginExport(w, e, c)) /\ ~FinishExport(w, e)
    <3>1. writer' = writer /\ pass[w][e].pc # "exporting"
      BY <1>5, <2>4 DEF PassStep, Pick, SkipExport, RaiseOverdue, AuditTriggered,
         AuditRetry, GiveUp, TurnToExports, EndPass, AbortPass, LeavePass, Wake, db
    <3> QED BY <1>1, <1>2, <1>3, <2>1, <3>1, OthersLock
  <2> QED BY <2>2, <2>3, <2>4
<1> QED BY <1>4, <1>5

LEMMA ScanLock ==
  ASSUME Shape, LockInv, NEW w \in Worker, ScanStep(w)
  PROVE  LockInv'
<1>0. /\ scan[w] \in ScanRecord /\ scan \in [Worker -> ScanRecord]
      /\ NoScan \in ScanRecord /\ NoScan.pc = "off"
  BY DEF Shape, TypeOK, NoScan, ScanRecord, ScanPc
<1>1. \A v \in Worker : v # w => scan'[v] = scan[v]
  BY <1>0 DEF ScanStep, Fetch, ScanRaises, Flush, AllFetched, CommitScan, CompleteScan,
     FailScan, WriteFails, Return, SetScan
<1>2. \A v \in Worker : v # w => pass'[v] = pass[v]
  BY DEF ScanStep, Fetch, ScanRaises, Flush, AllFetched, CommitScan, CompleteScan,
     FailScan, WriteFails, Return, SetPass, Shape, TypeOK
<1>3. Active(w) /\ \A e \in Entry : pass[w][e].pc # "exporting"
  <2>1. Active(w)
    BY DEF ScanStep, Fetch, ScanRaises, Flush, AllFetched, CommitScan, CompleteScan,
       FailScan, WriteFails, Active
  <2> QED BY <2>1 DEF Shape, PassShape, ScanShape, TypeOK, ScanRecord
<1>4. ASSUME writer' = Released(w)
      PROVE  writer' # w /\ \A v \in Worker : writer' = v => writer = v
  BY <1>4, NamesAssumption DEF Released
<1>5. ASSUME NEW p \in Provider, Fetch(w, p)
      PROVE  LockInv'
  <2>1. PICK r \in ScanRecord : /\ SetScan(w, r)
                                /\ r.pc \in {"fetch", "flush"}
                                /\ r.pc = "flush" => r.fresh # {}
                                /\ scan[w].fresh \subseteq r.fresh
    BY <1>5, FetchMove
  <2>2. scan'[w] = r /\ writer' = writer
    BY <1>5, <2>1, ScanUpdate DEF Fetch, db, Shape
  <2>3. writer = w => r.fresh # {}
    BY <1>3, <2>1 DEF LockInv, LockHasHolder
  <2> QED BY <1>1, <1>2, <2>1, <2>2, <2>3, OthersLock DEF Active
<1>6. CASE ScanRaises(w)
  <2>1. /\ scan'[w].pc = "raise" /\ scan'[w].fresh = scan[w].fresh
        /\ writer' = writer
    BY <1>0, <1>6 DEF ScanRaises, SetScan, db, ScanRecord
  <2>2. writer = w => scan[w].fresh # {}
    BY <1>3 DEF LockInv, LockHasHolder
  <2> QED BY <1>1, <1>2, <2>1, <2>2, OthersLock DEF Active
<1>7. CASE Flush(w)
  <2>1. /\ scan'[w].pc = "fetch" /\ scan'[w].fresh = scan[w].fresh
        /\ writer' = w
    BY <1>0, <1>7 DEF Flush, SetScan, ScanRecord
  <2>2. scan[w].fresh # {}
    BY <1>7 DEF Flush, LockInv, LockUse
  <2> QED BY <1>1, <1>2, <2>1, <2>2, OthersLock DEF Active
<1>8. CASE AllFetched(w)
  <2>1. /\ scan'[w].pc \in {"commit", "raise"} /\ scan'[w].fresh = scan[w].fresh
        /\ writer' = writer \/ writer' = Released(w)
    BY <1>0, <1>8 DEF AllFetched, Publish, SetScan, ScanRecord
  <2>2. writer = w => scan[w].fresh # {}
    BY <1>3 DEF LockInv, LockHasHolder
  <2>3. writer' = Released(w) =>
          writer' # w /\ \A v \in Worker : writer' = v => writer = v
    BY <1>4
  <2> QED BY <1>1, <1>2, <2>1, <2>2, <2>3, OthersLock DEF Active
<1>9. CASE CommitScan(w)
  <2>1. /\ scan'[w].pc = "finish" /\ writer' = Released(w)
    BY <1>0, <1>9 DEF CommitScan, Publish, SetScan, ScanRecord
  <2> QED BY <1>1, <1>2, <1>4, <2>1, OthersLock
<1>10. CASE CompleteScan(w)
  <2>1. scan'[w].pc = "off" /\ writer' = writer /\ writer # w
    BY <1>0, <1>10 DEF CompleteScan, Return, SetScan, LockInv, LockUse
  <2> QED BY <1>1, <1>2, <2>1, OthersLock
<1>11. CASE FailScan(w) \/ WriteFails(w)
  <2>1. scan'[w].pc = "off" /\ writer' = Released(w)
    BY <1>0, <1>11 DEF FailScan, WriteFails, Return, SetScan, Publish
  <2> QED BY <1>1, <1>2, <1>4, <2>1, OthersLock
<1> QED BY <1>5, <1>6, <1>7, <1>8, <1>9, <1>10, <1>11 DEF ScanStep

LEMMA LockStep ==
  ASSUME Shape, LockInv, [Next]_vars
  PROVE  LockInv'
<1>0. NoScan \in ScanRecord /\ NoScan.pc = "off"
  BY DEF NoScan, ScanRecord, ScanPc
<1>1. CASE PermissionHandler \/ Tick \/ UNCHANGED vars
  <2>1. UNCHANGED <<writer, scan, pass>>
    BY <1>1 DEF PermissionHandler, RequestApproval, Approve, Pause, Resume, UpdatePolicy,
       SetPermission, Tick, vars, db, process
  <2> QED BY <2>1 DEF LockInv, LockHasHolder, LockUse, Active
<1>2. ASSUME NEW w \in Worker, Crash(w)
      PROVE  LockInv'
  <2>1. /\ scan'[w] = NoScan /\ writer' # w
        /\ \A v \in Worker : v # w =>
             /\ scan'[v] = scan[v]
             /\ pass'[v] = pass[v]
             /\ writer' = v => writer = v
    BY <1>2, NamesAssumption DEF Crash, SetScan, Released, Shape, TypeOK
  <2> QED BY <1>0, <2>1, OthersLock
<1>3. ASSUME NEW w \in Worker, NEW r \in ScanRecord, SetScan(w, r),
             ~Active(w), r.pc \notin {"flush", "finish"},
             UNCHANGED <<writer, pass>>
      PROVE  LockInv'
  <2>1. /\ scan'[w] = r
        /\ \A v \in Worker : v # w => scan'[v] = scan[v]
    BY <1>3, ScanUpdate DEF Shape
  <2>2. writer = w => \E e \in Entry : pass[w][e].pc = "exporting"
    BY <1>3 DEF LockInv, LockHasHolder
  <2> QED BY <1>3, <2>1, <2>2, OthersLock
<1>4. ASSUME NEW w \in Worker, WorkerStep(w)
      PROVE  LockInv'
  <2>1. ASSUME NEW c \in Customer, StartScan(w, c) \/ AddCredentials(w, c)
        PROVE  LockInv'
    <3>1. PICK id \in ScanId : SetScan(w, NewScan(id, "bg", "insert"))
      BY <2>1, StartedScan
    <3>2. /\ NewScan(id, "bg", "insert") \in ScanRecord
          /\ NewScan(id, "bg", "insert").pc = "insert"
      BY NewScanType DEF ScanPc
    <3>3. ~Active(w) /\ UNCHANGED <<writer, pass>>
      BY <2>1, FreeIsIdle DEF StartScan, AddCredentials, Handler, db, Active
    <3> QED BY <1>3, <3>1, <3>2, <3>3
  <2>2. CASE InsertRun(w) \/ RejectInsert(w)
    <3>1. SetScan(w, NoScan) /\ ~Active(w) /\ UNCHANGED <<writer, pass>>
      BY <2>2 DEF InsertRun, RejectInsert, db, Active
    <3> QED BY <1>0, <1>3, <3>1
  <2>3. ASSUME NEW id \in queue[w], BeginQueued(w, id)
        PROVE  LockInv'
    <3>1. /\ NewScan(id, "bg", "fetch") \in ScanRecord
          /\ NewScan(id, "bg", "fetch").pc = "fetch"
      BY NewScanType DEF ScanPc, Shape, TypeOK
    <3>2. /\ SetScan(w, NewScan(id, "bg", "fetch")) /\ ~Active(w)
          /\ UNCHANGED <<writer, pass>>
      BY <2>3, FreeIsIdle DEF BeginQueued, db, Active
    <3> QED BY <1>3, <3>1, <3>2
  <2>4. ASSUME NEW e \in Entry, NEW scope, BeginPass(w, e, scope)
        PROVE  LockInv'
    <3>1. scan[w].pc = "off" /\ \A f \in Entry : pass[w][f].pc \in {"idle", "asleep"}
      BY <2>4, FreeIsIdle DEF BeginPass
    <3>2. writer # w
      BY <3>1, NotHolding DEF Active
    <3>3. /\ UNCHANGED <<writer, scan>>
          /\ \A v \in Worker : v # w => pass'[v] = pass[v]
      BY <2>4 DEF BeginPass, SetPass, db, Shape, TypeOK
    <3> QED BY <3>1, <3>2, <3>3, OthersLock
  <2> QED BY <1>4, <2>1, <2>2, <2>3, <2>4, ScanLock, PassLock
      DEF WorkerStep, BeginLoopPass, RunNow
<1> QED BY <1>1, <1>2, <1>4 DEF Next

\* No failure, abort or crash leaves the database locked by a process that has
\* nothing to commit.
THEOREM LockHasHolderHolds == Spec => []LockHasHolder
<1>1. Init => LockInv
  BY NamesAssumption DEF Init, LockInv, LockHasHolder, LockUse, NoScan
<1>2. Shape /\ LockInv /\ [Next]_vars => LockInv'
  BY LockStep
<1>3. LockInv => LockHasHolder
  BY DEF LockInv
<1> QED BY <1>1, <1>2, <1>3, ShapeHolds, PTL DEF Spec

-----------------------------------------------------------------------------
(* How the record of a pass changes.                                       *)

SameAim(s, r) == s.cust = r.cust /\ s.now = r.now /\ s.attempt = r.attempt

\* The points of a pass between two customers or at an export.
Between == {"idle", "pick", "exports", "exporting"}

\* The next record s of the pass e of w, from its record r.
TurnsTo(w, e, r, s) ==
    \/ s = r
    \/ s.pc \in Between
    \/ /\ r.pc = "pick" /\ s.pc \in {"overdue", "create"}
       /\ s.attempt = 1 /\ s.now = r.now
       /\ Due(s.cust, s.now)
       /\ s.pc = "overdue" => ~OverdueAlertedSince(s.cust, s.now - Grace)
       /\ UNCHANGED <<runs, overdue>>
    \/ RaiseOverdue(w, e) /\ s.pc = "create" /\ SameAim(s, r)
    \/ CreateRun(w, e) /\ s.pc = "scanning" /\ SameAim(s, r)
    \/ /\ s.pc = "triggered" /\ SameAim(s, r)
    \/ /\ FailScan(w) \/ WriteFails(w)
       /\ Active(w) /\ scan[w].via = e
       /\ r.pc = "scanning" /\ s.pc = "retry" /\ SameAim(s, r)
    \/ r.pc = "retry" /\ s.pc \in {"giveup", "asleep"} /\ SameAim(s, r)
    \/ /\ r.pc \in {"retry", "asleep"} /\ s.pc = "create"
       /\ s.cust = r.cust /\ s.now = r.now /\ s.attempt = r.attempt + 1

LEMMA PassStepTurns ==
  ASSUME Shape, NEW w \in Worker, NEW e \in Entry, PassStep(w, e) \/ Wake(w, e)
  PROVE  TurnsTo(w, e, pass[w][e], pass'[w][e])
<1> DEFINE at == pass[w][e]
<1>0. at \in PassRecord /\ at.attempt \in Int
  BY DEF Shape, TypeOK, PassRecord
<1>s. \A r : SetPass(w, e, r) => pass'[w][e] = r
  BY DEF Shape, TypeOK, SetPass
<1>n. /\ NextCustomer(w, e).pc = "pick"
      /\ NextAttempt(w, e).pc = "create" /\ NextAttempt(w, e).cust = at.cust
      /\ NextAttempt(w, e).now = at.now /\ NextAttempt(w, e).attempt = at.attempt + 1
  BY <1>0 DEF NextCustomer, NextAttempt, PassRecord
<1>1. ASSUME NEW c \in Customer, Pick(w, e, c)
      PROVE  TurnsTo(w, e, pass[w][e], pass'[w][e])
  <2> DEFINE taken(pc) == [at EXCEPT !.pc = pc, !.cust = c, !.attempt = 1]
             skipped == [at EXCEPT !.todo = @ \ {c}]
             late == Overdue(c, at.now) /\ ~OverdueAlertedSince(c, at.now - Grace)
  <2>1. at.pc = "pick" /\ UNCHANGED <<runs, overdue>>
    BY <1>1 DEF Pick, db
  <2>2. \A pc : /\ taken(pc).pc = pc /\ taken(pc).cust = c
                /\ taken(pc).attempt = 1 /\ taken(pc).now = at.now
    BY <1>0 DEF PassRecord
  <2>3. skipped.pc = at.pc
    BY <1>0 DEF PassRecord
  <2>4. \/ Due(c, at.now) /\ late /\ SetPass(w, e, taken("overdue"))
        \/ Due(c, at.now) /\ SetPass(w, e, taken("create"))
        \/ SetPass(w, e, skipped)
    BY <1>1 DEF Pick
  <2>5. ASSUME NEW pc \in {"overdue", "create"}, SetPass(w, e, taken(pc)),
               Due(c, at.now), pc = "overdue" => late
        PROVE  TurnsTo(w, e, pass[w][e], pass'[w][e])
    <3> HIDE DEF taken, skipped
    <3>1. PICK s : s = taken(pc)
      OBVIOUS
    <3>2. s.pc = pc /\ s.cust = c /\ s.attempt = 1 /\ s.now = at.now
      BY <2>2, <3>1
    <3>4. pass'[w][e] = s
      BY <2>5, <3>1, <1>s
    <3>3. Due(s.cust, s.now) /\ (pc = "overdue" => ~OverdueAlertedSince(s.cust, s.now - Grace))
      BY <2>5, <3>2
    <3> QED BY <2>1, <2>5, <3>2, <3>3, <3>4 DEF TurnsTo
  <2>6. CASE Due(c, at.now) /\ (\/ late /\ SetPass(w, e, taken("overdue"))
                               \/ SetPass(w, e, taken("create")))
    <3> HIDE DEF taken, late
    <3> QED BY <2>5, <2>6
  <2>7. CASE SetPass(w, e, skipped)
    BY <2>1, <2>3, <2>7, <1>s DEF TurnsTo, Between
  <2> HIDE DEF taken, skipped, late
  <2> QED BY <2>4, <2>6, <2>7
<1>2. ASSUME NEW c \in Customer, SkipExport(w, e, c) \/ BeginExport(w, e, c)
      PROVE  TurnsTo(w, e, pass[w][e], pass'[w][e])
  <2> DEFINE skip == [at EXCEPT !.todo = @ \ {c}]
             begin == [at EXCEPT !.pc = "exporting", !.cust = c]
  <2>1. at.pc = "exports" /\ (SetPass(w, e, skip) \/ SetPass(w, e, begin))
    BY <1>2 DEF SkipExport, BeginExport
  <2>2. skip.pc = at.pc /\ begin.pc = "exporting"
    BY <1>0 DEF PassRecord
  <2> QED BY <2>1, <2>2, <1>s DEF TurnsTo, Between
<1>3. CASE RaiseOverdue(w, e)
  <2>1. pass'[w][e] = [at EXCEPT !.pc = "create"]
    BY <1>3, <1>s DEF RaiseOverdue
  <2> QED BY <1>0, <1>3, <2>1 DEF TurnsTo, SameAim, PassRecord
<1>4. CASE CreateRun(w, e)
  <2>1. pass'[w][e] = [at EXCEPT !.pc = "scanning"]
    BY <1>4, <1>s DEF CreateRun
  <2> QED BY <1>0, <1>4, <2>1 DEF TurnsTo, SameAim, PassRecord
<1>5. CASE AuditTriggered(w, e) \/ GiveUp(w, e)
  BY <1>5, <1>n, <1>s DEF AuditTriggered, GiveUp, TurnsTo, Between
<1>6. CASE AuditRetry(w, e)
  <2> DEFINE over == [at EXCEPT !.pc = "giveup"]
             rest == [at EXCEPT !.pc = "asleep"]
  <2>1. /\ at.pc = "retry"
        /\ \/ SetPass(w, e, over) \/ SetPass(w, e, rest) \/ SetPass(w, e, NextAttempt(w, e))
    BY <1>6 DEF AuditRetry
  <2>2. over.pc = "giveup" /\ SameAim(over, at) /\ rest.pc = "asleep" /\ SameAim(rest, at)
    BY <1>0 DEF PassRecord, SameAim
  <2> HIDE DEF over, rest
  <2> QED BY <1>n, <1>s, <2>1, <2>2 DEF TurnsTo
<1>7. CASE Wake(w, e)
  BY <1>7, <1>n, <1>s DEF Wake, TurnsTo
<1>8. CASE TurnToExports(w, e) \/ FinishExport(w, e)
  <2> DEFINE turned == [at EXCEPT !.pc = "exports", !.todo = at.scope \cap Exporter]
             next == [at EXCEPT !.pc = "exports", !.todo = @ \ {at.cust}]
  <2>1. SetPass(w, e, turned) \/ SetPass(w, e, next)
    BY <1>8 DEF TurnToExports, FinishExport
  <2>2. turned.pc = "exports" /\ next.pc = "exports"
    BY <1>0 DEF PassRecord
  <2> HIDE DEF turned, next
  <2> QED BY <1>s, <2>1, <2>2 DEF TurnsTo, Between
<1>9. CASE EndPass(w, e) \/ AbortPass(w, e)
  BY <1>9, <1>s DEF EndPass, AbortPass, LeavePass, IdlePass, TurnsTo, Between
<1> QED BY <1>1, <1>2, <1>3, <1>4, <1>5, <1>6, <1>7, <1>8, <1>9 DEF PassStep

\* Every step turns every pass record so, whichever process it is of.
LEMMA StepTurns ==
  ASSUME Shape, [Next]_vars, NEW v \in Worker, NEW f \in Entry
  PROVE  TurnsTo(v, f, pass[v][f], pass'[v][f])
<1>1. CASE UNCHANGED pass
  BY <1>1 DEF TurnsTo
<1>2. ASSUME NEW w \in Worker, NEW e \in Entry, PassStep(w, e) \/ Wake(w, e)
      PROVE  TurnsTo(v, f, pass[v][f], pass'[v][f])
  <2>1. CASE v = w /\ f = e
    BY <1>2, <2>1, PassStepTurns
  <2>2. CASE v # w \/ f # e
    <3>1. PICK r : SetPass(w, e, r)
      BY <1>2, PassStepForm DEF LeavePass
    <3>2. pass'[v][f] = pass[v][f]
      BY <2>2, <3>1 DEF SetPass, Shape, TypeOK
    <3> QED BY <3>2 DEF TurnsTo
  <2> QED BY <2>1, <2>2
<1>3. ASSUME NEW w \in Worker, ScanStep(w), pass' # pass
      PROVE  TurnsTo(v, f, pass[v][f], pass'[v][f])
  <2>1. PICK ok \in BOOLEAN : /\ Active(w) /\ Return(w, ok)
                              /\ ~ok => FailScan(w) \/ WriteFails(w)
    BY <1>3 DEF ScanStep, Fetch, ScanRaises, Flush, AllFetched, CommitScan, CompleteScan,
       FailScan, WriteFails, Active
  <2>2. PICK e \in Entry : e = scan[w].via /\ pass[w][e].pc = "scanning"
    BY <1>3, <2>1 DEF Return, Shape, ScanShape, TypeOK, ScanRecord
  <2> DEFINE r == [pass[w][e] EXCEPT !.pc = IF ok THEN "triggered" ELSE "retry"]
  <2>3. SetPass(w, e, r)
    BY <1>3, <2>1, <2>2 DEF Return
  <2>4. r.pc = (IF ok THEN "triggered" ELSE "retry") /\ SameAim(r, pass[w][e])
    BY DEF Shape, TypeOK, PassRecord, SameAim
  <2> HIDE DEF r
  <2>5. pass'[v][f] = IF v = w /\ f = e THEN r ELSE pass[v][f]
    BY <2>3 DEF SetPass, Shape, TypeOK
  <2> QED BY <2>1, <2>2, <2>4, <2>5 DEF TurnsTo
<1>4. ASSUME NEW w \in Worker, NEW e \in Entry, NEW scope, BeginPass(w, e, scope)
      PROVE  TurnsTo(v, f, pass[v][f], pass'[v][f])
  <2> DEFINE r == [IdlePass EXCEPT !.pc = "pick", !.now = clock, !.scope = scope,
                                   !.todo = {c \in scope : perm[c] \in Scannable}]
  <2>1. SetPass(w, e, r) /\ r.pc = "pick"
    BY <1>4 DEF BeginPass, IdlePass
  <2> HIDE DEF r
  <2>2. pass'[v][f] = IF v = w /\ f = e THEN r ELSE pass[v][f]
    BY <2>1 DEF SetPass, Shape, TypeOK
  <2> QED BY <2>1, <2>2 DEF TurnsTo, Between
<1>5. ASSUME NEW w \in Worker, Crash(w)
      PROVE  TurnsTo(v, f, pass[v][f], pass'[v][f])
  <2>1. pass'[v][f] = IF v = w THEN IdlePass ELSE pass[v][f]
    BY <1>5 DEF Crash, Shape, TypeOK
  <2> QED BY <2>1 DEF TurnsTo, Between, IdlePass
<1>6. ASSUME NEW w \in Worker, WorkerStep(w), pass' # pass
      PROVE  TurnsTo(v, f, pass[v][f], pass'[v][f])
  <2>1. ~ \/ \E c \in Customer : StartScan(w, c) \/ AddCredentials(w, c)
          \/ InsertRun(w) \/ RejectInsert(w)
          \/ \E id \in queue[w] : BeginQueued(w, id)
    BY <1>6 DEF StartScan, AddCredentials, InsertRun, RejectInsert, BeginQueued
  <2>2. CASE BeginLoopPass(w) \/ RunNow(w)
    BY <1>4, <2>2 DEF BeginLoopPass, RunNow
  <2> QED BY <1>2, <1>3, <1>6, <2>1, <2>2 DEF WorkerStep
<1>7. CASE PermissionHandler \/ Tick \/ UNCHANGED vars
  BY <1>1, <1>7 DEF PermissionHandler, RequestApproval, Approve, Pause, Resume,
     UpdatePolicy, SetPermission, Tick, vars, process
<1> QED BY <1>1, <1>5, <1>6, <1>7 DEF Next

-----------------------------------------------------------------------------
(* Attempts: the one before is over and did not complete.                  *)

\* The run of attempt n of a pass with record r.
AttemptOf(r, n) == [cust |-> r.cust, at |-> r.now, tag |-> n]

\* A run that will not complete any more: nobody executes it.
Abandoned(id) ==
    /\ runs[id].state \in {"running", "failed"}
    /\ \A w \in Worker : ~Executing(w, id)

Tried(r) ==
    /\ r.pc = "overdue" => r.attempt = 1
    /\ r.pc = "create" /\ r.attempt > 1 => Abandoned(AttemptOf(r, r.attempt - 1))
    /\ r.pc \in {"retry", "asleep", "giveup"} => Abandoned(AttemptOf(r, r.attempt))

\* A scheduled scan is that of its pass's attempt, and no request is one.
ScanIsAttempt ==
    \A w \in Worker :
        /\ Active(w) /\ scan[w].via # "bg" =>
             scan[w].id = AttemptId(w, scan[w].via)
        /\ scan[w].pc = "insert" => scan[w].id.tag \in {1} \cup Uuid

AttemptsInOrder ==
    /\ \A w \in Worker, e \in Entry : Tried(pass[w][e])
    /\ ScanIsAttempt

LEMMA AttemptOfType ==
  ASSUME Shape, NEW w \in Worker, NEW e \in Entry, pass[w][e].cust \in Customer,
         NEW n \in 1..MaxAttempts
  PROVE  AttemptOf(pass[w][e], n) \in ScanId
<1>1. pass[w][e].now \in Time
  BY DEF Shape, TypeOK, PassRecord
<1> QED BY <1>1 DEF AttemptOf, ScanId

\* Only a run that was absent comes to be executed.
LEMMA FreshExecution ==
  ASSUME Shape, [Next]_vars, NEW id \in ScanId, \A v \in Worker : ~Executing(v, id),
         NEW w \in Worker, Executing(w, id)'
  PROVE  runs[id].state = "absent"
<1> USE DEF Shape
<1>0. NoScan \in ScanRecord /\ NoScan.pc = "off"
  BY DEF NoScan, ScanRecord, ScanPc
<1>1. CASE Quiet
  BY <1>1 DEF Quiet, Executing, Scanning
<1>2. ASSUME NEW v \in Worker, InsertRun(v)
      PROVE  runs[id].state = "absent"
  <2>1. /\ runs[scan[v].id].state = "absent"
        /\ queue' = [queue EXCEPT ![v] = @ \cup {scan[v].id}]
        /\ SetScan(v, NoScan)
    BY <1>2 DEF InsertRun, Insertable
  <2>2. /\ scan'[v].pc = "off"
        /\ \A u \in Worker : u # v => scan'[u] = scan[u]
    BY <1>0, <2>1, ScanUpdate
  <2>3. id \in queue'[w] => id \in queue[w] \/ id = scan[v].id
    BY <2>1 DEF TypeOK
  <2> QED BY <2>1, <2>2, <2>3 DEF Executing, Scanning, Active
<1>3. ASSUME NEW v \in Worker, NEW i \in queue[v], BeginQueued(v, i)
      PROVE  FALSE
  <2>1. /\ i \in ScanId
        /\ queue' = [queue EXCEPT ![v] = @ \ {i}]
        /\ SetScan(v, NewScan(i, "bg", "fetch"))
    BY <1>3 DEF BeginQueued, TypeOK
  <2>2. /\ scan'[v].id = i
        /\ \A u \in Worker : u # v => scan'[u] = scan[u]
    BY <2>1, NewScanType, ScanUpdate DEF ScanPc
  <2>3. i # id
    BY DEF Executing
  <2>4. id \in queue'[w] => id \in queue[w]
    BY <2>1 DEF TypeOK
  <2> QED BY <2>2, <2>3, <2>4 DEF Executing, Scanning, Active
<1>4. ASSUME NEW v \in Worker, NEW e \in Entry, CreateRun(v, e)
      PROVE  runs[id].state = "absent"
  <2>1. /\ runs[AttemptId(v, e)].state = "absent"
        /\ queue' = queue
        /\ SetScan(v, NewScan(AttemptId(v, e), e, "fetch"))
    BY <1>4 DEF CreateRun, Insertable
  <2>2. AttemptId(v, e) \in ScanId
    BY <1>4, AttemptIdType DEF CreateRun, PassShape, PassOK, WithCustomer
  <2>3. /\ scan'[v].id = AttemptId(v, e)
        /\ \A u \in Worker : u # v => scan'[u] = scan[u]
    BY <2>1, <2>2, NewScanType, ScanUpdate DEF ScanPc
  <2> QED BY <2>1, <2>3 DEF Executing, Scanning, Active
<1>5. ASSUME NEW v \in Worker, CompleteScan(v) \/ FailScan(v)
      PROVE  FALSE
  <2>1. SetScan(v, NoScan) /\ queue' = queue
    BY <1>5 DEF CompleteScan, FailScan, Return
  <2>2. /\ scan'[v].pc = "off"
        /\ \A u \in Worker : u # v => scan'[u] = scan[u]
    BY <1>0, <2>1, ScanUpdate
  <2> QED BY <2>1, <2>2 DEF Executing, Scanning, Active
<1> QED BY <1>1, <1>2, <1>3, <1>4, <1>5, StepKinds DEF Handover

LEMMA AbandonedStays ==
  ASSUME Shape, OneExecutor, [Next]_vars, NEW id \in ScanId, Abandoned(id)
  PROVE  Abandoned(id)'
<1>1. runs'[id] = runs[id]
  BY RunChange DEF Abandoned, Executing
<1>2. \A w \in Worker : ~Executing(w, id)'
  BY FreshExecution DEF Abandoned
<1> QED BY <1>1, <1>2 DEF Abandoned

\* Where the scan that a process executes comes from.
LEMMA ScanTurns ==
  ASSUME Shape, [Next]_vars, NEW v \in Worker
  PROVE  /\ Active(v)' =>
              \/ Active(v) /\ scan'[v].id = scan[v].id /\ scan'[v].via = scan[v].via
              \/ scan'[v].via = "bg"
              \/ \E e \in Entry : /\ CreateRun(v, e) /\ scan'[v].via = e
                                  /\ scan'[v].id = AttemptId(v, e)
         /\ scan'[v].pc = "insert" =>
              scan'[v] = scan[v] \/ scan'[v].id.tag \in {1} \cup Uuid
<1> DEFINE Turned ==
      /\ Active(v)' =>
           \/ Active(v) /\ scan'[v].id = scan[v].id /\ scan'[v].via = scan[v].via
           \/ scan'[v].via = "bg"
           \/ \E e \in Entry : /\ CreateRun(v, e) /\ scan'[v].via = e
                               /\ scan'[v].id = AttemptId(v, e)
      /\ scan'[v].pc = "insert" =>
           scan'[v] = scan[v] \/ scan'[v].id.tag \in {1} \cup Uuid
<1>0. NoScan \in ScanRecord /\ NoScan.pc = "off"
  BY DEF NoScan, ScanRecord, ScanPc
<1>k. ASSUME scan'[v] = scan[v]
      PROVE  Turned
  BY <1>k DEF Active
<1>1. ASSUME NEW w \in Worker, SetScan(w, NoScan)
      PROVE  Turned
  <2>1. scan'[v] = IF v = w THEN NoScan ELSE scan[v]
    BY <1>0, <1>1, ScanUpdate DEF Shape
  <2> QED BY <1>0, <1>k, <2>1 DEF Active
<1>2. ASSUME NEW w \in Worker, NEW r \in ScanRecord, SetScan(w, r), Active(w),
             r.id = scan[w].id, r.via = scan[w].via, r.pc # "insert"
      PROVE  Turned
  <2>1. scan'[v] = IF v = w THEN r ELSE scan[v]
    BY <1>2, ScanUpdate DEF Shape
  <2> QED BY <1>2, <1>k, <2>1
<1>3. ASSUME PermissionHandler \/ Tick \/ UNCHANGED vars
      PROVE  Turned
  BY <1>k, <1>3 DEF PermissionHandler, RequestApproval, Approve, Pause, Resume,
     UpdatePolicy, SetPermission, Tick, vars, process
<1>4. ASSUME NEW w \in Worker, Crash(w)
      PROVE  Turned
  BY <1>1, <1>4 DEF Crash
<1>5. ASSUME NEW w \in Worker, ScanStep(w)
      PROVE  Turned
  <2>0. scan[w] \in ScanRecord
    BY DEF Shape, TypeOK
  <2>1. ASSUME NEW p \in Provider, Fetch(w, p)
        PROVE  Turned
    <3>1. Active(w)
      BY <2>1 DEF Fetch, Active
    <3>2. PICK r \in ScanRecord : /\ SetScan(w, r) /\ r.id = scan[w].id
                                  /\ r.via = scan[w].via /\ r.pc \in {"fetch", "flush"}
      BY <2>1, FetchMove
    <3> QED BY <1>2, <3>1, <3>2
  <2>2. CASE ScanRaises(w) \/ Flush(w) \/ AllFetched(w) \/ CommitScan(w)
    <3>1. Active(w)
      BY <2>2 DEF ScanRaises, Flush, AllFetched, CommitScan, Active
    <3>2. PICK pc \in ScanPc \ {"insert"} : SetScan(w, [scan[w] EXCEPT !.pc = pc])
      BY <2>2 DEF ScanRaises, Flush, AllFetched, CommitScan, ScanPc
    <3>3. PICK r : r = [scan[w] EXCEPT !.pc = pc]
      OBVIOUS
    <3>4. r \in ScanRecord /\ r.id = scan[w].id /\ r.via = scan[w].via /\ r.pc = pc
      BY <2>0, <3>3 DEF ScanRecord
    <3> QED BY <1>2, <3>1, <3>2, <3>3, <3>4
  <2>3. CASE CompleteScan(w) \/ FailScan(w) \/ WriteFails(w)
    BY <1>1, <2>3 DEF CompleteScan, FailScan, WriteFails, Return
  <2> QED BY <1>5, <2>1, <2>2, <2>3 DEF ScanStep
<1>6. ASSUME NEW w \in Worker, NEW c \in Customer, StartScan(w, c) \/ AddCredentials(w, c)
      PROVE  Turned
  <2>1. PICK t \in {1} \cup Uuid :
          SetScan(w, NewScan([cust |-> c, at |-> clock, tag |-> t], "bg", "insert"))
    BY <1>6 DEF StartScan, AddCredentials
  <2>2. PICK id : id = [cust |-> c, at |-> clock, tag |-> t]
    OBVIOUS
  <2>3. id \in ScanId /\ id.tag = t
    BY <2>2, BoundsAssumption DEF ScanId, Shape, TypeOK
  <2>4. /\ NewScan(id, "bg", "insert") \in ScanRecord
        /\ NewScan(id, "bg", "insert").pc = "insert"
        /\ NewScan(id, "bg", "insert").id = id
    BY <2>3, NewScanType DEF ScanPc
  <2>5. scan'[v] = IF v = w THEN NewScan(id, "bg", "insert") ELSE scan[v]
    BY <2>1, <2>2, <2>4, ScanUpdate DEF Shape
  <2> QED BY <1>k, <2>3, <2>4, <2>5 DEF Active
<1>7. ASSUME NEW w \in Worker, NEW id \in queue[w], BeginQueued(w, id)
      PROVE  Turned
  <2>1. id \in ScanId /\ SetScan(w, NewScan(id, "bg", "fetch"))
    BY <1>7 DEF BeginQueued, Shape, TypeOK
  <2>2. /\ NewScan(id, "bg", "fetch") \in ScanRecord
        /\ NewScan(id, "bg", "fetch").pc = "fetch"
        /\ NewScan(id, "bg", "fetch").via = "bg"
    BY <2>1, NewScanType DEF ScanPc
  <2>3. scan'[v] = IF v = w THEN NewScan(id, "bg", "fetch") ELSE scan[v]
    BY <2>1, <2>2, ScanUpdate DEF Shape
  <2> QED BY <1>k, <2>2, <2>3 DEF Active
<1>8. ASSUME NEW w \in Worker, NEW e \in Entry, PassStep(w, e) \/ Wake(w, e)
      PROVE  Turned
  <2>1. CASE CreateRun(w, e)
    <3>1. AttemptId(w, e) \in ScanId
      BY <2>1, AttemptIdType DEF CreateRun, Shape, PassShape, PassOK, WithCustomer
    <3>2. SetScan(w, NewScan(AttemptId(w, e), e, "fetch"))
      BY <2>1 DEF CreateRun
    <3>3. /\ NewScan(AttemptId(w, e), e, "fetch") \in ScanRecord
          /\ NewScan(AttemptId(w, e), e, "fetch").pc = "fetch"
          /\ NewScan(AttemptId(w, e), e, "fetch").via = e
          /\ NewScan(AttemptId(w, e), e, "fetch").id = AttemptId(w, e)
      BY <3>1, NewScanType DEF ScanPc
    <3>4. scan'[v] = IF v = w THEN NewScan(AttemptId(w, e), e, "fetch") ELSE scan[v]
      BY <3>2, <3>3, ScanUpdate DEF Shape
    <3> QED BY <1>k, <2>1, <3>3, <3>4 DEF Active
  <2>2. CASE ~CreateRun(w, e)
    BY <1>8, <1>k, <2>2, PassStepFrame
  <2> QED BY <2>1, <2>2
<1>9. ASSUME NEW w \in Worker, WorkerStep(w)
      PROVE  Turned
  <2>1. CASE InsertRun(w) \/ RejectInsert(w)
    BY <1>1, <2>1 DEF InsertRun, RejectInsert
  <2>2. CASE BeginLoopPass(w) \/ RunNow(w)
    BY <1>k, <2>2 DEF BeginLoopPass, RunNow, BeginPass
  <2> HIDE DEF Turned
  <2> QED BY <1>5, <1>6, <1>7, <1>8, <1>9, <2>1, <2>2 DEF WorkerStep
<1> HIDE DEF Turned
<1>10. PermissionHandler \/ Tick \/ UNCHANGED vars
        \/ \E w \in Worker : WorkerStep(w) \/ Crash(w)
  BY DEF Next
<1>11. Turned
  BY <1>3, <1>4, <1>9, <1>10
<1> QED BY <1>11 DEF Turned

LEMMA ScanIsAttemptStep ==
  ASSUME Shape, ScanIsAttempt, [Next]_vars
  PROVE  ScanIsAttempt'
<1>0. Shape'
  BY ShapeStep
<1>1. ASSUME NEW w \in Worker, scan'[w].pc = "insert"
      PROVE  scan'[w].id.tag \in {1} \cup Uuid
  BY <1>1, ScanTurns DEF ScanIsAttempt
<1>2. ASSUME NEW w \in Worker, Active(w)', scan'[w].via # "bg"
      PROVE  scan'[w].id = AttemptId(w, scan[w].via)'
  <2>1. scan'[w].via \in Entry
    BY <1>0, <1>2 DEF Shape, TypeOK, ScanRecord
  <2>2. PICK e \in Entry : e = scan'[w].via
    BY <2>1
  <2>3. pass'[w][e].pc = "scanning"
    BY <1>0, <1>2, <2>2 DEF Shape, ScanShape
  <2>4. pass'[w][e] = pass[w][e] \/ SameAim(pass'[w][e], pass[w][e])
    <3>1. TurnsTo(w, e, pass[w][e], pass'[w][e])
      BY StepTurns
    <3> QED BY <2>3, <3>1 DEF TurnsTo, Between
  <2>5. AttemptId(w, e)' = AttemptId(w, e)
    BY <2>4 DEF AttemptId, SameAim
  <2>6. scan'[w].id = AttemptId(w, e)
    <3> DEFINE same == Active(w) /\ scan'[w].id = scan[w].id /\ scan'[w].via = scan[w].via
               made == \E f \in Entry : /\ CreateRun(w, f) /\ scan'[w].via = f
                                        /\ scan'[w].id = AttemptId(w, f)
    <3>1. CASE made
      BY <2>2, <3>1
    <3>2. CASE same
      BY <1>2, <2>2, <3>2 DEF ScanIsAttempt
    <3>3. Active(w)' => same \/ scan'[w].via = "bg" \/ made
      BY ScanTurns
    <3> HIDE DEF same, made
    <3> QED BY <1>2, <3>1, <3>2, <3>3
  <2>7. AttemptId(w, scan[w].via)' = AttemptId(w, e)'
    BY <2>2 DEF AttemptId
  <2> QED BY <2>5, <2>6, <2>7
<1> QED BY <1>1, <1>2 DEF ScanIsAttempt

LEMMA TriedStep ==
  ASSUME Shape, OneExecutor, AttemptsInOrder, [Next]_vars,
         NEW w \in Worker, NEW e \in Entry
  PROVE  Tried(pass[w][e])'
<1>1. PICK r : r = pass[w][e]
  OBVIOUS
<1>2. PICK s : s = pass'[w][e]
  OBVIOUS
<1>3. /\ r \in PassRecord /\ s \in PassRecord /\ PassOK(r)
      /\ r.attempt \in 1..MaxAttempts /\ s.attempt \in 1..MaxAttempts
  BY <1>1, <1>2, ShapeStep DEF Shape, TypeOK, PassShape, PassRecord
<1>4. Tried(r)
  BY <1>1 DEF AttemptsInOrder
<1>5. ASSUME NEW n \in 1..MaxAttempts, r.pc \in WithCustomer, Abandoned(AttemptOf(r, n))
      PROVE  Abandoned(AttemptOf(r, n))'
  <2>1. PICK id : id = AttemptOf(r, n)
    OBVIOUS
  <2>2. id \in ScanId
    BY <1>1, <1>3, <1>5, <2>1, AttemptOfType DEF PassOK
  <2> QED BY <1>5, <2>1, <2>2, AbandonedStays
<1>6. ASSUME s.pc = "overdue" => s.attempt = 1,
             s.pc = "create" /\ s.attempt > 1 => Abandoned(AttemptOf(s, s.attempt - 1))',
             s.pc \in {"retry", "asleep", "giveup"} => Abandoned(AttemptOf(s, s.attempt))'
      PROVE  Tried(pass[w][e])'
  BY <1>2, <1>6 DEF Tried, AttemptOf, Abandoned, Executing, Scanning, Active
<1>7. ASSUME r.pc = s.pc, SameAim(s, r)
      PROVE  Tried(pass[w][e])'
  <2>1. \A n : AttemptOf(s, n) = AttemptOf(r, n)
    BY <1>7 DEF SameAim, AttemptOf
  <2>2. r.attempt = s.attempt
    BY <1>7 DEF SameAim
  <2>3. ASSUME s.pc = "create", s.attempt > 1
        PROVE  Abandoned(AttemptOf(s, s.attempt - 1))'
    <3>1. PICK n \in 1..MaxAttempts : n = s.attempt - 1
      BY <1>3, <2>3, BoundsAssumption
    <3>2. Abandoned(AttemptOf(r, n))
      BY <1>4, <1>7, <2>2, <2>3, <3>1 DEF Tried
    <3>3. r.pc \in WithCustomer
      BY <1>7, <2>3 DEF WithCustomer
    <3>4. AttemptOf(s, s.attempt - 1) = AttemptOf(r, n)
      BY <2>1, <3>1
    <3>5. Abandoned(AttemptOf(r, n))'
      BY <1>5, <3>2, <3>3
    <3> QED BY <3>4, <3>5
  <2>4. ASSUME s.pc \in {"retry", "asleep", "giveup"}
        PROVE  Abandoned(AttemptOf(s, s.attempt))'
    <3>2. Abandoned(AttemptOf(r, r.attempt))
      BY <1>4, <1>7, <2>4 DEF Tried
    <3>3. r.pc \in WithCustomer
      BY <1>7, <2>4 DEF WithCustomer
    <3>4. AttemptOf(s, s.attempt) = AttemptOf(r, r.attempt)
      BY <2>1, <2>2
    <3>5. Abandoned(AttemptOf(r, r.attempt))'
      BY <1>3, <1>5, <3>2, <3>3
    <3> QED BY <3>4, <3>5
  <2>5. s.pc = "overdue" => s.attempt = 1
    BY <1>4, <1>7, <2>2 DEF Tried
  <2> QED BY <1>6, <2>3, <2>4, <2>5
<1>8. ASSUME r.pc = "overdue", s.pc = "create", SameAim(s, r)
      PROVE  Tried(pass[w][e])'
  BY <1>3, <1>4, <1>6, <1>8 DEF Tried, SameAim
<1>9. ASSUME r.pc \in {"retry", "asleep"}, s.pc \in {"giveup", "asleep"}, SameAim(s, r)
      PROVE  Tried(pass[w][e])'
  <2>1. Abandoned(AttemptOf(r, r.attempt))'
    BY <1>3, <1>4, <1>5, <1>9 DEF Tried, WithCustomer
  <2>2. AttemptOf(s, s.attempt) = AttemptOf(r, r.attempt)
    BY <1>9 DEF SameAim, AttemptOf
  <2> QED BY <1>6, <1>9, <2>1, <2>2
<1>10. ASSUME r.pc \in {"retry", "asleep"}, s.pc = "create", s.cust = r.cust,
              s.now = r.now, s.attempt = r.attempt + 1
       PROVE  Tried(pass[w][e])'
  <2>1. Abandoned(AttemptOf(r, r.attempt))'
    BY <1>3, <1>4, <1>5, <1>10 DEF Tried, WithCustomer
  <2>2. s.attempt - 1 = r.attempt
    BY <1>3, <1>10
  <2>3. AttemptOf(s, s.attempt - 1) = AttemptOf(r, r.attempt)
    BY <1>10, <2>2 DEF AttemptOf
  <2> QED BY <1>6, <1>10, <2>1, <2>3
<1>11. ASSUME FailScan(w) \/ WriteFails(w), Active(w), scan[w].via = e,
              s.pc = "retry", SameAim(s, r)
       PROVE  Tried(pass[w][e])'
  <2>1. PICK id : id = scan[w].id
    OBVIOUS
  <2>2. id = AttemptOf(r, r.attempt) /\ id \in ScanId
    BY <1>1, <1>11, <2>1 DEF AttemptsInOrder, ScanIsAttempt, AttemptId, AttemptOf,
       Shape, ScanShape, Active
  <2>3. Executing(w, id)
    BY <1>11, <2>1 DEF Executing, Scanning
  <2>4. runs[id].state = "running" /\ id \notin queue[w]
    BY <1>11, <2>1, <2>2, <2>3 DEF OneExecutor, Scanning
  <2>5. /\ SetScan(w, NoScan) /\ queue' = queue
        /\ runs' = runs \/ runs' = [runs EXCEPT ![id].state = "failed"]
    BY <1>11, <2>1 DEF FailScan, WriteFails, Return
  <2>6. runs'[id].state \in {"running", "failed"}
    BY <2>2, <2>4, <2>5 DEF Shape, TypeOK
  <2>7. /\ scan'[w].pc = "off"
        /\ \A v \in Worker : v # w => scan'[v] = scan[v]
    BY <2>5 DEF SetScan, Shape, TypeOK, NoScan
  <2>8. \A v \in Worker : Executing(v, id) => v = w
    BY <2>2, <2>3 DEF OneExecutor
  <2>9. \A v \in Worker : ~Executing(v, id)'
    BY <2>4, <2>5, <2>7, <2>8 DEF Executing, Scanning, Active
  <2>10. Abandoned(id)'
    BY <2>6, <2>9 DEF Abandoned
  <2>11. AttemptOf(s, s.attempt) = id
    BY <1>11, <2>2 DEF SameAim, AttemptOf
  <2> QED BY <1>6, <1>11, <2>10, <2>11
<1>12. ASSUME s.pc \in Between \cup {"scanning", "triggered"}
       PROVE  Tried(pass[w][e])'
  BY <1>6, <1>12 DEF Between
<1>13. ASSUME s.pc \in {"overdue", "create"}, s.attempt = 1
       PROVE  Tried(pass[w][e])'
  BY <1>6, <1>13
<1>14. TurnsTo(w, e, r, s)
  BY <1>1, <1>2, StepTurns
<1>15. RaiseOverdue(w, e) => r.pc = "overdue"
  BY <1>1 DEF RaiseOverdue
<1>16. s = r => SameAim(s, r)
  BY DEF SameAim
<1> QED
  BY <1>7, <1>8, <1>9, <1>10, <1>11, <1>12, <1>13, <1>14, <1>15, <1>16 DEF TurnsTo

LEMMA AttemptsInOrderStep ==
  ASSUME Shape, OneExecutor, AttemptsInOrder, [Next]_vars
  PROVE  AttemptsInOrder'
<1>1. ScanIsAttempt'
  BY ScanIsAttemptStep DEF AttemptsInOrder
<1>2. \A w \in Worker, e \in Entry : Tried(pass[w][e])'
  BY TriedStep
<1> QED BY <1>1, <1>2 DEF AttemptsInOrder

\* Whatever the processes and crashes, a pass goes on to the next attempt only
\* when nobody executes the last one any more and it did not complete.
THEOREM AttemptsInOrderHolds == Spec => []AttemptsInOrder
<1>1. Init => AttemptsInOrder
  BY DEF Init, AttemptsInOrder, Tried, ScanIsAttempt, IdlePass, NoScan, Active
<1>2. Shape /\ OneExecutor /\ AttemptsInOrder /\ [Next]_vars => AttemptsInOrder'
  BY AttemptsInOrderStep
<1> QED BY <1>1, <1>2, ShapeHolds, OneExecutorHolds, PTL DEF Spec

LEMMA RetryStep ==
  ASSUME Shape, OneExecutor, AttemptsInOrder, [Next]_vars,
         NEW id \in ScanId, NEW n \in 1..(MaxAttempts - 1), id.tag = n + 1,
         runs[id].state = "absent", runs'[id].state # "absent"
  PROVE  runs[[id EXCEPT !.tag = n]].state \in {"running", "failed"}
<1> USE DEF Shape
<1>0. n \in Nat /\ n >= 1 /\ n + 1 \in 1..MaxAttempts /\ n \in 1..MaxAttempts
  BY BoundsAssumption
<1>1. PICK w \in Worker : Handover(w)
  BY StepKinds DEF Quiet
<1>2. ~InsertRun(w)
  <2>1. ASSUME InsertRun(w)
        PROVE  scan[w].pc = "insert" /\ scan[w].id = id
    <3>1. scan[w].pc = "insert" /\ scan[w].id \in ScanId /\ Insert(scan[w].id)
      BY <2>1 DEF InsertRun, ScanShape
    <3> QED BY <3>1 DEF Insert, TypeOK
  <2>2. n + 1 \notin {1} \cup Uuid
    BY <1>0, NamesAssumption
  <2> QED BY <2>1, <2>2 DEF AttemptsInOrder, ScanIsAttempt
<1>3. ~\E i \in queue[w] : BeginQueued(w, i)
  BY DEF BeginQueued, db
<1>4. ~CompleteScan(w) /\ ~FailScan(w)
  <2>1. runs'[id].state = "running"
    BY RunChange
  <2>2. ASSUME NEW i, NEW q, q \in {"completed", "failed"},
               \/ \E at : runs' = [runs EXCEPT ![i] = [state |-> q, at |-> at]]
               \/ runs' = [runs EXCEPT ![i].state = q]
        PROVE  FALSE
    BY <2>1, <2>2 DEF TypeOK
  <2> QED BY <2>2 DEF CompleteScan, FailScan
<1>5. PICK e \in Entry : CreateRun(w, e)
  BY <1>1, <1>2, <1>3, <1>4 DEF Handover
<1>6. AttemptId(w, e) \in ScanId /\ Insert(AttemptId(w, e)) /\ pass[w][e].pc = "create"
  BY <1>5, AttemptIdType DEF CreateRun, PassShape, PassOK, WithCustomer
<1>7. id = AttemptId(w, e)
  BY <1>6 DEF Insert, TypeOK
<1>8. pass[w][e].attempt = n + 1
  BY <1>7 DEF AttemptId
<1>9. Abandoned(AttemptOf(pass[w][e], n))
  <2>1. pass[w][e].attempt > 1 /\ pass[w][e].attempt - 1 = n
    BY <1>0, <1>8
  <2> QED BY <1>6, <2>1 DEF AttemptsInOrder, Tried
<1>10. [id EXCEPT !.tag = n] = AttemptOf(pass[w][e], n)
  BY <1>7 DEF AttemptId, AttemptOf
<1> QED BY <1>9, <1>10 DEF Abandoned

\* No process, crash or clash of scan ids makes a run for an attempt after the
\* first whose predecessor was never made or succeeded.
THEOREM RetryFollowsFailureHolds == Spec => RetryFollowsFailure
<1> DEFINE Follows == \A id \in ScanId : \A n \in 1..(MaxAttempts - 1) :
         id.tag = n + 1 /\ runs[id].state = "absent" /\ runs'[id].state # "absent"
         => runs[[id EXCEPT !.tag = n]].state \in {"running", "failed"}
<1>1. Shape /\ OneExecutor /\ AttemptsInOrder /\ [Next]_vars => [Follows]_vars
  BY RetryStep
<1> QED
  BY <1>1, ShapeHolds, OneExecutorHolds, AttemptsInOrderHolds, PTL DEF Spec, RetryFollowsFailure

-----------------------------------------------------------------------------
(* One process: what a pass has read still holds when it acts on it.       *)

\* Between its decision and the run, nothing completes and no alert is raised.
Unhurried ==
    \A w \in Worker, e \in Entry :
        LET r == pass[w][e]
        IN  /\ r.pc \in {"overdue", "create"} /\ r.attempt = 1 => Due(r.cust, r.now)
            /\ r.pc = "overdue" => ~OverdueAlertedSince(r.cust, r.now - Grace)

LEMMA OverdueChange ==
  ASSUME [Next]_vars, overdue' # overdue
  PROVE  \E w \in Worker, e \in Entry : RaiseOverdue(w, e)
<1>1. ASSUME NEW w \in Worker, ScanStep(w)
      PROVE  FALSE
  BY <1>1, Zenon DEF ScanStep, Fetch, ScanRaises, Flush, AllFetched, CommitScan,
     CompleteScan, FailScan, WriteFails, db
<1>2. ASSUME NEW w \in Worker, NEW e \in Entry, PassStep(w, e) \/ Wake(w, e)
      PROVE  RaiseOverdue(w, e)
  BY <1>2, Zenon DEF PassStep, Pick, SkipExport, BeginExport, CreateRun, AuditTriggered,
     AuditRetry, GiveUp, TurnToExports, FinishExport, EndPass, AbortPass, LeavePass,
     Wake, db
<1>3. ASSUME NEW w \in Worker, WorkerStep(w)
      PROVE  \E e \in Entry : RaiseOverdue(w, e)
  BY <1>1, <1>2, <1>3 DEF WorkerStep, StartScan, AddCredentials, InsertRun, RejectInsert,
     BeginQueued, BeginLoopPass, RunNow, BeginPass, db
<1>4. ~(PermissionHandler \/ Tick \/ UNCHANGED vars)
  BY DEF PermissionHandler, RequestApproval, Approve, Pause, Resume, UpdatePolicy,
     SetPermission, Tick, vars, db
<1>5. \A w \in Worker : ~Crash(w)
  BY DEF Crash
<1> QED BY <1>3, <1>4, <1>5 DEF Next

\* While a pass of the only process decides, no run completes.
LEMMA LoneNothingCompletes ==
  ASSUME Shape, OneExecutor, [Next]_vars, NEW w, Worker = {w}, NEW e \in Entry,
         pass[w][e].pc \in {"overdue", "create"},
         NEW id \in ScanId, runs'[id].state = "completed"
  PROVE  runs'[id] = runs[id]
<1> SUFFICES ASSUME runs'[id] # runs[id]
             PROVE  FALSE
  OBVIOUS
<1>1. Scanning(w, id)
  BY RunChange
<1>2. loop[w] = e
  BY DEF Shape, PassShape
<1>3. scan[w].via \in {"bg"} \cup Entry
  BY DEF Shape, TypeOK, ScanRecord
<1> QED BY <1>1, <1>2, <1>3 DEF Scanning, Shape, ScanShape

LEMMA UnhurriedStep ==
  ASSUME Shape, OneExecutor, AttemptsInOrder, Unhurried, [Next]_vars,
         NEW w, Worker = {w}
  PROVE  Unhurried'
<1> SUFFICES ASSUME NEW e \in Entry
             PROVE  /\ pass'[w][e].pc \in {"overdue", "create"} /\ pass'[w][e].attempt = 1
                         => Due(pass[w][e].cust, pass[w][e].now)'
                    /\ pass'[w][e].pc = "overdue"
                         => ~OverdueAlertedSince(pass[w][e].cust, pass[w][e].now - Grace)'
  BY DEF Unhurried
<1>1. PICK r : r = pass[w][e]
  OBVIOUS
<1>2. PICK s : s = pass'[w][e]
  OBVIOUS
<1>3. TurnsTo(w, e, r, s)
  BY <1>1, <1>2, StepTurns
<1>4. r.attempt \in 1..MaxAttempts /\ w \in Worker
  BY <1>1 DEF Shape, TypeOK, PassRecord
<1>5. SUFFICES ASSUME s.pc \in {"overdue", "create"}
               PROVE  /\ s.attempt = 1 => Due(s.cust, s.now)'
                      /\ s.pc = "overdue" => ~OverdueAlertedSince(s.cust, s.now - Grace)'
  BY <1>2 DEF Due, CompletedRuns, OverdueAlertedSince
<1>6. /\ r.pc \in {"overdue", "create"} /\ r.attempt = 1 => Due(r.cust, r.now)
      /\ r.pc = "overdue" => ~OverdueAlertedSince(r.cust, r.now - Grace)
  BY <1>1, <1>4 DEF Unhurried
<1>7. ASSUME r.pc \in {"overdue", "create"}, NEW c, NEW n, Due(c, n)
      PROVE  Due(c, n)'
  <2>1. \A id \in ScanId : runs'[id].state = "completed" => runs'[id] = runs[id]
    BY <1>1, <1>7, LoneNothingCompletes
  <2> QED BY <1>7, <2>1 DEF Due, CompletedRuns
<1>8. CASE s = r
  <2>1. s.attempt = 1 => Due(s.cust, s.now)'
    BY <1>5, <1>6, <1>7, <1>8
  <2>2. ASSUME s.pc = "overdue"
        PROVE  overdue' = overdue
    <3> SUFFICES ASSUME overdue' # overdue
                 PROVE  FALSE
      OBVIOUS
    <3>1. PICK f \in Entry : RaiseOverdue(w, f)
      BY OverdueChange
    <3>2. f = e
      BY <1>1, <1>4, <1>8, <2>2, <3>1 DEF RaiseOverdue, Shape, PassShape
    <3>3. s.pc = "create"
      BY <1>2, <1>4, <3>1, <3>2 DEF RaiseOverdue, SetPass, Shape, TypeOK, PassRecord
    <3> QED BY <2>2, <3>3
  <2> QED BY <1>6, <1>8, <2>1, <2>2 DEF OverdueAlertedSince
<1>9. CASE /\ Due(s.cust, s.now) /\ UNCHANGED <<runs, overdue>>
           /\ s.pc = "overdue" => ~OverdueAlertedSince(s.cust, s.now - Grace)
  BY <1>9 DEF Due, CompletedRuns, OverdueAlertedSince
<1>10. CASE RaiseOverdue(w, e) /\ s.pc = "create" /\ SameAim(s, r)
  <2>1. r.pc = "overdue"
    BY <1>1, <1>10 DEF RaiseOverdue
  <2> QED BY <1>6, <1>7, <1>10, <2>1 DEF SameAim
<1>11. CASE s.pc = "create" /\ s.attempt = r.attempt + 1
  BY <1>4, <1>11
<1> QED
  BY <1>3, <1>5, <1>8, <1>9, <1>10, <1>11 DEF TurnsTo, Between

LEMMA InitUnhurried == Init => Unhurried
  BY DEF Init, Unhurried, IdlePass

\* In a deployment of one process a scheduled scan starts only when the last
\* success of the customer is a cadence old at that moment, however its
\* requests, passes and scans interleave.
THEOREM CadenceKeptByOne ==
  ASSUME NEW only, Worker = {only}
  PROVE  Spec => CadenceKept
<1> DEFINE Kept == \A w \in Worker, e \in Entry :
         PassCreates(w, e) /\ pass[w][e].attempt = 1
         => \A id \in CompletedRuns(pass[w][e].cust) :
                pass[w][e].now - runs[id].at >= Cadence
<1>1. Shape /\ OneExecutor /\ AttemptsInOrder /\ Unhurried /\ [Next]_vars => Unhurried'
  BY UnhurriedStep
<1>2. Unhurried /\ [Next]_vars => [Kept]_vars
  BY DEF Unhurried, PassCreates, Due
<1> QED
  BY <1>1, <1>2, InitUnhurried, ShapeHolds, OneExecutorHolds, AttemptsInOrderHolds, PTL
  DEF Spec, CadenceKept, PassCreates, CompletedRuns

\* In a deployment of one process two overdue alerts of a customer are further
\* apart than the configured hours.
THEOREM OverdueOnceByOne ==
  ASSUME NEW only, Worker = {only}
  PROVE  Spec => []OverdueOnce
<1>1. Shape /\ OneExecutor /\ AttemptsInOrder /\ Unhurried /\ [Next]_vars => Unhurried'
  BY UnhurriedStep
<1>2. Init => OverdueOnce
  BY DEF Init, OverdueOnce
<1>3. Shape /\ Unhurried /\ OverdueOnce /\ [Next]_vars => OverdueOnce'
  <2> SUFFICES ASSUME Shape, Unhurried, OverdueOnce, [Next]_vars
               PROVE  OverdueOnce'
    OBVIOUS
  <2>1. CASE overdue' = overdue
    BY <2>1 DEF OverdueOnce
  <2>2. CASE overdue' # overdue
    <3>1. PICK v \in Worker, e \in Entry : RaiseOverdue(v, e)
      BY <2>2, OverdueChange
    <3>2. PICK c, n : c = pass[v][e].cust /\ n = pass[v][e].now
      OBVIOUS
    <3>3. /\ overdue' = overdue \cup {<<c, n>>}
          /\ pass[v][e].pc = "overdue"
      BY <3>1, <3>2 DEF RaiseOverdue
    <3>4. \A a \in overdue : a[1] = c => ~(a[2] >= n - Grace)
      BY <3>2, <3>3 DEF Unhurried, OverdueAlertedSince
    <3>5. n \in Int /\ Grace \in Int /\ \A a \in overdue : a[2] \in Int
      BY <3>2, BoundsAssumption DEF Shape, TypeOK, PassRecord, Time
    <3>6. \A a \in overdue : a[1] = c => n - a[2] > Grace
      BY <3>4, <3>5
    <3> QED BY <3>3, <3>5, <3>6 DEF OverdueOnce
  <2> QED BY <2>1, <2>2
<1> QED
  BY <1>1, <1>2, <1>3, InitUnhurried, ShapeHolds, OneExecutorHolds, AttemptsInOrderHolds,
     PTL DEF Spec

-----------------------------------------------------------------------------
(* How a run loses the process that executes it.                           *)

\* Only the end of a scan, a write that fails and the death of its process
\* take a scan id from the process that has it.
LEMMA ExecutionKept ==
  ASSUME Shape, [Next]_vars, NEW v \in Worker, NEW id, Executing(v, id),
         ~Executing(v, id)'
  PROVE  CompleteScan(v) \/ FailScan(v) \/ WriteFails(v) \/ Crash(v)
<1>0. NoScan \in ScanRecord /\ NoScan.pc = "off"
  BY DEF NoScan, ScanRecord, ScanPc
<1>1. ASSUME UNCHANGED <<queue, scan>>
      PROVE  FALSE
  BY <1>1 DEF Executing, Scanning, Active
<1>2. ASSUME NEW w \in Worker, NEW r \in ScanRecord, SetScan(w, r),
             queue[v] \subseteq queue'[v], v # w \/ ~Active(w)
      PROVE  FALSE
  <2>1. \A u \in Worker : u # w => scan'[u] = scan[u]
    BY <1>2, ScanUpdate DEF Shape
  <2> QED BY <1>2, <2>1 DEF Executing, Scanning, Active
<1>3. ASSUME NEW r \in ScanRecord, SetScan(v, r), UNCHANGED queue,
             r.pc \notin {"off", "insert"}, r.id = scan[v].id
      PROVE  FALSE
  <2>1. scan'[v] = r
    BY <1>3, ScanUpdate DEF Shape
  <2> QED BY <1>3, <2>1 DEF Executing, Scanning, Active
<1>4. CASE PermissionHandler \/ Tick \/ UNCHANGED vars
  BY <1>1, <1>4 DEF PermissionHandler, RequestApproval, Approve, Pause, Resume,
     UpdatePolicy, SetPermission, Tick, vars, process
<1>5. ASSUME NEW w \in Worker, Crash(w)
      PROVE  w = v
  <2>1. w # v => queue'[v] = queue[v]
    BY <1>5 DEF Crash, Shape, TypeOK
  <2> QED BY <1>0, <1>2, <1>5, <2>1 DEF Crash
<1>6. ASSUME NEW w \in Worker, ScanStep(w)
      PROVE  CompleteScan(v) \/ FailScan(v) \/ WriteFails(v)
  <2>1. Active(w) /\ UNCHANGED queue /\ \E r : SetScan(w, r)
    BY <1>6 DEF ScanStep, Fetch, ScanRaises, Flush, AllFetched, CommitScan, CompleteScan,
       FailScan, WriteFails, Return, Active, db
  <2>2. w = v
    <3>1. w # v => scan'[v] = scan[v]
      BY <2>1 DEF SetScan, Shape, TypeOK
    <3> QED BY <2>1, <3>1 DEF Executing, Scanning, Active
  <2>3. ASSUME NEW p \in Provider, Fetch(v, p)
        PROVE  FALSE
    <3>1. PICK r \in ScanRecord : SetScan(v, r) /\ r.pc \in {"fetch", "flush"} /\ r.id = scan[v].id
      BY <2>3, FetchMove
    <3> QED BY <1>3, <2>1, <3>1
  <2>4. CASE ScanRaises(v) \/ Flush(v) \/ AllFetched(v) \/ CommitScan(v)
    <3>1. PICK pc \in {"fetch", "raise", "commit", "finish"} :
            SetScan(v, [scan[v] EXCEPT !.pc = pc])
      BY <2>4 DEF ScanRaises, Flush, AllFetched, CommitScan
    <3>2. /\ [scan[v] EXCEPT !.pc = pc] \in ScanRecord
          /\ [scan[v] EXCEPT !.pc = pc].pc = pc
          /\ [scan[v] EXCEPT !.pc = pc].id = scan[v].id
      <4>1. scan[v] \in ScanRecord /\ pc \in ScanPc
        BY DEF Shape, TypeOK, ScanPc
      <4> QED BY <4>1 DEF ScanRecord
    <3> QED BY <1>3, <2>1, <3>1, <3>2
  <2> QED BY <1>6, <2>2, <2>3, <2>4 DEF ScanStep
<1>7. ASSUME NEW w \in Worker, WorkerStep(w)
      PROVE  CompleteScan(v) \/ FailScan(v) \/ WriteFails(v)
  <2>1. ASSUME NEW c \in Customer, StartScan(w, c) \/ AddCredentials(w, c)
        PROVE  FALSE
    <3>1. PICK i \in ScanId : SetScan(w, NewScan(i, "bg", "insert"))
      BY <2>1, StartedScan
    <3>2. ~Active(w) /\ UNCHANGED queue
      BY <2>1, FreeIsIdle DEF StartScan, AddCredentials, Handler, Active
    <3>3. NewScan(i, "bg", "insert") \in ScanRecord
      BY NewScanType DEF ScanPc
    <3> QED BY <1>2, <3>1, <3>2, <3>3
  <2>2. CASE InsertRun(w) \/ RejectInsert(w)
    <3>1. ~Active(w) /\ SetScan(w, NoScan)
      BY <2>2 DEF InsertRun, RejectInsert, Active
    <3>2. queue[v] \subseteq queue'[v]
      BY <2>2 DEF InsertRun, RejectInsert, Shape, TypeOK
    <3> QED BY <1>0, <1>2, <3>1, <3>2
  <2>3. ASSUME NEW i \in queue[w], BeginQueued(w, i)
        PROVE  FALSE
    <3>1. /\ ~Active(w) /\ i \in ScanId
          /\ SetScan(w, NewScan(i, "bg", "fetch"))
          /\ queue' = [queue EXCEPT ![w] = @ \ {i}]
      BY <2>3, FreeIsIdle DEF BeginQueued, Active, Shape, TypeOK
    <3>2. /\ NewScan(i, "bg", "fetch") \in ScanRecord
          /\ NewScan(i, "bg", "fetch").id = i
          /\ NewScan(i, "bg", "fetch").pc = "fetch"
      BY <3>1, NewScanType DEF ScanPc
    <3>3. scan'[w] = NewScan(i, "bg", "fetch")
      BY <3>1, <3>2, ScanUpdate DEF Shape
    <3>4. v = w
      <4>1. v # w => queue'[v] = queue[v]
        BY <3>1 DEF Shape, TypeOK
      <4> QED BY <1>2, <3>1, <3>2, <4>1
    <3>5. id \in queue[w] /\ queue'[w] = queue[w] \ {i}
      BY <3>1, <3>4 DEF Executing, Scanning, Shape, TypeOK
    <3> QED BY <3>2, <3>3, <3>4, <3>5 DEF Executing, Scanning, Active
  <2>4. CASE BeginLoopPass(w) \/ RunNow(w)
    BY <1>1, <2>4 DEF BeginLoopPass, RunNow, BeginPass
  <2>5. ASSUME NEW e \in Entry, PassStep(w, e) \/ Wake(w, e)
        PROVE  FALSE
    <3>1. CASE CreateRun(w, e)
      <4>1. /\ ~Active(w) /\ UNCHANGED queue
            /\ SetScan(w, NewScan(AttemptId(w, e), e, "fetch"))
        BY <3>1, PassAlone DEF CreateRun, Active
      <4>2. AttemptId(w, e) \in ScanId
        BY <3>1, AttemptIdType DEF CreateRun, Shape, PassShape, PassOK, WithCustomer
      <4>3. NewScan(AttemptId(w, e), e, "fetch") \in ScanRecord
        BY <4>2, NewScanType DEF ScanPc
      <4> QED BY <1>2, <4>1, <4>3
    <3>2. CASE ~CreateRun(w, e)
      BY <1>1, <2>5, <3>2, PassStepFrame
    <3> QED BY <3>1, <3>2
  <2> QED BY <1>6, <1>7, <2>1, <2>2, <2>3, <2>4, <2>5 DEF WorkerStep
<1> QED BY <1>4, <1>5, <1>7 DEF Next

-----------------------------------------------------------------------------
(* One process that does not die: no run is left behind.                   *)

\* The accounts that a scan has in its session are new to the database.
FreshIsNew == \A w \in Worker : scan[w].pc \in {"fetch", "flush"} => ~AccountConflict(w)

\* The only process never waits for the write lock, so none of its writes fails.
LEMMA LoneWriteSucceeds ==
  ASSUME Shape, FreshIsNew, NEW w, Worker = {w}
  PROVE  ~Locked(w) /\ ~WriteFails(w)
<1>1. ~Locked(w)
  BY DEF Locked, CanWrite, Shape, TypeOK
<1> QED BY <1>1 DEF WriteFails, FreshIsNew

LEMMA FreshIsNewStep ==
  ASSUME Shape, FreshIsNew, [Next]_vars, NEW w, Worker = {w}
  PROVE  FreshIsNew'
<1>0. NoScan \in ScanRecord /\ NoScan.pc = "off"
  BY DEF NoScan, ScanRecord, ScanPc
<1>1. ASSUME NEW r \in ScanRecord, SetScan(w, r),
             r.pc \notin {"fetch", "flush"} \/ r.fresh = {}
      PROVE  FreshIsNew'
  <2>1. scan'[w] = r
    BY <1>1, ScanUpdate DEF Shape
  <2> QED BY <1>1, <2>1 DEF FreshIsNew, AccountConflict
<1>2. ASSUME UNCHANGED <<scan, accounts>>
      PROVE  FreshIsNew'
  BY <1>2 DEF FreshIsNew, AccountConflict
<1>3. CASE PermissionHandler \/ Tick \/ UNCHANGED vars
  BY <1>2, <1>3 DEF PermissionHandler, RequestApproval, Approve, Pause, Resume,
     UpdatePolicy, SetPermission, Tick, vars, process, db
<1>4. CASE Crash(w)
  BY <1>0, <1>1, <1>4 DEF Crash
<1>5. CASE ScanStep(w)
  <2>1. ASSUME NEW p \in Provider, Fetch(w, p)
        PROVE  FreshIsNew'
    <3> DEFINE at == scan[w]
               bad == [at EXCEPT !.todo = @ \ {p}, !.err = @ \cup {p}]
               known == [at EXCEPT !.todo = @ \ {p}, !.ok = @ \cup {p}]
               new == [at EXCEPT !.todo = @ \ {p}, !.ok = @ \cup {p},
                                 !.fresh = @ \cup {p}, !.pc = "flush"]
    <3>1. /\ at \in ScanRecord /\ at.pc = "fetch" /\ UNCHANGED accounts
          /\ \A q \in at.fresh : <<at.id.cust, q>> \notin accounts
      BY <2>1 DEF Fetch, Shape, TypeOK, FreshIsNew, AccountConflict, db
    <3>2. \/ SetScan(w, bad) \/ SetScan(w, known)
          \/ SetScan(w, new) /\ <<at.id.cust, p>> \notin accounts
      BY <2>1 DEF Fetch
    <3>3. /\ bad.id = at.id /\ bad.fresh = at.fresh
          /\ known.id = at.id /\ known.fresh = at.fresh
          /\ new.id = at.id /\ new.fresh = at.fresh \cup {p}
      BY <3>1 DEF ScanRecord
    <3>4. \A r : SetScan(w, r) => scan'[w] = r
      BY DEF SetScan, Shape, TypeOK
    <3> HIDE DEF at, bad, known, new
    <3>5. \A q \in scan'[w].fresh : <<scan'[w].id.cust, q>> \notin accounts
      BY <3>1, <3>2, <3>3, <3>4
    <3> QED BY <3>1, <3>5 DEF FreshIsNew, AccountConflict
  <2>2. CASE Flush(w)
    <3>1. /\ scan[w].pc = "flush" /\ UNCHANGED accounts
          /\ scan' = [scan EXCEPT ![w] = [scan[w] EXCEPT !.pc = "fetch"]]
      BY <2>2 DEF Flush, SetScan
    <3>2. scan'[w].id = scan[w].id /\ scan'[w].fresh = scan[w].fresh
      BY <3>1 DEF Shape, TypeOK, ScanRecord
    <3> QED BY <3>1, <3>2 DEF FreshIsNew, AccountConflict
  <2>3. CASE ScanRaises(w) \/ AllFetched(w) \/ CommitScan(w)
    <3>1. PICK pc \in {"raise", "commit", "finish"} :
            SetScan(w, [scan[w] EXCEPT !.pc = pc])
      BY <2>3 DEF ScanRaises, AllFetched, CommitScan
    <3>2. /\ [scan[w] EXCEPT !.pc = pc] \in ScanRecord
          /\ [scan[w] EXCEPT !.pc = pc].pc = pc
      <4>1. scan[w] \in ScanRecord /\ pc \in ScanPc
        BY DEF Shape, TypeOK, ScanPc
      <4> QED BY <4>1 DEF ScanRecord
    <3> QED BY <1>1, <3>1, <3>2
  <2>4. CASE CompleteScan(w) \/ FailScan(w) \/ WriteFails(w)
    BY <1>0, <1>1, <2>4 DEF CompleteScan, FailScan, WriteFails, Return
  <2> QED BY <1>5, <2>1, <2>2, <2>3, <2>4 DEF ScanStep
<1>6. CASE WorkerStep(w)
  <2>1. ASSUME NEW id \in ScanId, NEW via \in {"bg"} \cup Entry,
               NEW pc \in {"insert", "fetch"}, SetScan(w, NewScan(id, via, pc))
        PROVE  FreshIsNew'
    <3>1. /\ NewScan(id, via, pc) \in ScanRecord
          /\ NewScan(id, via, pc).fresh = {}
      BY NewScanType DEF ScanPc
    <3> QED BY <1>1, <2>1, <3>1
  <2>2. ASSUME NEW c \in Customer, StartScan(w, c) \/ AddCredentials(w, c)
        PROVE  FreshIsNew'
    <3>1. PICK id \in ScanId : SetScan(w, NewScan(id, "bg", "insert"))
      BY <2>2, StartedScan
    <3> QED BY <2>1, <3>1
  <2>3. CASE InsertRun(w) \/ RejectInsert(w)
    BY <1>0, <1>1, <2>3 DEF InsertRun, RejectInsert
  <2>4. ASSUME NEW id \in queue[w], BeginQueued(w, id)
        PROVE  FreshIsNew'
    BY <2>1, <2>4 DEF BeginQueued, Shape, TypeOK
  <2>5. CASE BeginLoopPass(w) \/ RunNow(w)
    BY <1>2, <2>5 DEF BeginLoopPass, RunNow, BeginPass, db
  <2>6. ASSUME NEW e \in Entry, PassStep(w, e) \/ Wake(w, e)
        PROVE  FreshIsNew'
    <3>1. CASE CreateRun(w, e)
      <4>1. AttemptId(w, e) \in ScanId
        BY <3>1, AttemptIdType DEF CreateRun, Shape, PassShape, PassOK, WithCustomer
      <4>2. SetScan(w, NewScan(AttemptId(w, e), e, "fetch"))
        BY <3>1 DEF CreateRun
      <4> QED BY <2>1, <4>1, <4>2
    <3>2. CASE ~CreateRun(w, e)
      <4>1. UNCHANGED scan
        BY <2>6, <3>2, PassStepFrame
      <4>2. UNCHANGED accounts
        BY <2>6, <3>2, Zenon DEF PassStep, Pick, SkipExport, BeginExport, RaiseOverdue,
           AuditTriggered, AuditRetry, GiveUp, TurnToExports, FinishExport, EndPass,
           AbortPass, LeavePass, Wake, db
      <4> QED BY <1>2, <4>1, <4>2
    <3> QED BY <3>1, <3>2
  <2> QED BY <1>5, <1>6, <2>2, <2>3, <2>4, <2>5, <2>6 DEF WorkerStep
<1> QED BY <1>3, <1>4, <1>6 DEF Next

LEMMA NoOrphanStep ==
  ASSUME Shape, OneExecutor, FreshIsNew, NoOrphanRun, [Next]_vars,
         NEW w, Worker = {w}, MaxCrashes = 0
  PROVE  NoOrphanRun'
<1> SUFFICES ASSUME NEW id \in ScanId, runs'[id].state = "running"
             PROVE  Executing(w, id)'
  BY DEF NoOrphanRun
<1>1. ~WriteFails(w) /\ ~Crash(w)
  BY LoneWriteSucceeds DEF Crash, Shape, TypeOK
<1>2. CASE runs[id].state = "running"
  <2> SUFFICES ASSUME ~Executing(w, id)'
               PROVE  FALSE
    OBVIOUS
  <2>1. Executing(w, id)
    BY <1>2 DEF NoOrphanRun
  <2>2. CompleteScan(w) \/ FailScan(w)
    BY <1>1, <2>1, ExecutionKept
  <2>3. /\ UNCHANGED queue
        /\ \E s \in Terminal : runs'[scan[w].id].state = s
    <3>1. scan[w].id \in ScanId
      BY <2>2 DEF CompleteScan, FailScan, Shape, ScanShape
    <3>2. /\ UNCHANGED queue
          /\ \/ runs' = [runs EXCEPT ![scan[w].id] = [state |-> "completed", at |-> clock]]
             \/ runs' = [runs EXCEPT ![scan[w].id].state = "failed"]
      BY <2>2 DEF CompleteScan, FailScan
    <3>3. runs'[scan[w].id].state \in {"completed", "failed"}
      BY <3>1, <3>2 DEF Shape, TypeOK
    <3> QED BY <3>2, <3>3 DEF Terminal
  <2>4. id = scan[w].id
    BY <2>1, <2>3 DEF Executing, Scanning
  <2> QED BY <2>3, <2>4 DEF Terminal
<1>3. CASE runs[id].state # "running"
  <2>1. runs'[id] # runs[id] /\ Handover(w)
    BY <1>3, StepKinds DEF Quiet
  <2>2. runs[id].state = "absent"
    BY <1>3, <2>1, RunChange
  <2>3. CASE InsertRun(w)
    <3>1. /\ queue' = [queue EXCEPT ![w] = @ \cup {scan[w].id}]
          /\ runs' = [runs EXCEPT ![scan[w].id].state = "running"]
      BY <2>3 DEF InsertRun, Insert
    <3>2. id = scan[w].id
      BY <2>1, <3>1 DEF Shape, TypeOK
    <3>3. id \in queue'[w]
      BY <3>1, <3>2 DEF Shape, TypeOK
    <3> QED BY <3>3 DEF Executing
  <2>4. ASSUME NEW e \in Entry, CreateRun(w, e)
        PROVE  Executing(w, id)'
    <3>1. /\ SetScan(w, NewScan(AttemptId(w, e), e, "fetch"))
          /\ runs' = [runs EXCEPT ![AttemptId(w, e)].state = "running"]
      BY <2>4 DEF CreateRun, Insert
    <3>2. id = AttemptId(w, e)
      BY <2>1, <3>1 DEF Shape, TypeOK
    <3>3. /\ NewScan(id, e, "fetch") \in ScanRecord
          /\ NewScan(id, e, "fetch").pc = "fetch" /\ NewScan(id, e, "fetch").id = id
      BY NewScanType DEF ScanPc
    <3>4. scan'[w] = NewScan(id, e, "fetch")
      BY <3>1, <3>2, <3>3, ScanUpdate DEF Shape
    <3> QED BY <3>3, <3>4 DEF Executing, Scanning, Active
  <2>5. ~ \/ \E i \in queue[w] : BeginQueued(w, i)
          \/ CompleteScan(w) \/ FailScan(w)
    <3>1. ~ \E i \in queue[w] : BeginQueued(w, i)
      BY <2>1 DEF BeginQueued, db
    <3>2. ~(CompleteScan(w) \/ FailScan(w))
      <4> SUFFICES ASSUME CompleteScan(w) \/ FailScan(w)
                   PROVE  FALSE
        OBVIOUS
      <4>1. runs'[id].state # "running"
        <5>1. \/ runs' = [runs EXCEPT ![scan[w].id] = [state |-> "completed", at |-> clock]]
              \/ runs' = [runs EXCEPT ![scan[w].id].state = "failed"]
          BY DEF CompleteScan, FailScan
        <5> QED BY <1>3, <5>1 DEF Shape, TypeOK
      <4> QED BY <4>1
    <3> QED BY <3>1, <3>2
  <2> QED BY <2>1, <2>3, <2>4, <2>5 DEF Handover
<1> QED BY <1>2, <1>3

\* In a deployment of one process that does not die, every run that is RUNNING
\* is queued or executed: only a second process, whose transaction or account
\* row makes a write fail, or a crash leaves a run RUNNING with nobody to end it.
THEOREM NoOrphanByOne ==
  ASSUME NEW only, Worker = {only}, MaxCrashes = 0
  PROVE  Spec => []NoOrphanRun
<1>1. Init => FreshIsNew /\ NoOrphanRun
  BY DEF Init, FreshIsNew, NoOrphanRun, NoScan, NoRun
<1>2. Shape /\ FreshIsNew /\ [Next]_vars => FreshIsNew'
  BY FreshIsNewStep
<1>3. Shape /\ OneExecutor /\ FreshIsNew /\ NoOrphanRun /\ [Next]_vars => NoOrphanRun'
  BY NoOrphanStep
<1> QED BY <1>1, <1>2, <1>3, ShapeHolds, OneExecutorHolds, PTL DEF Spec

\* For any number of processes and crashes, only a write that fails or the death
\* of the process takes a RUNNING run from the process that has it.
THEOREM RunsLeftByFailureOnly ==
  Spec => [][\A id \in ScanId, w \in Worker :
               Executing(w, id) /\ ~Executing(w, id)' /\ runs'[id].state = "running"
               => WriteFails(w) \/ Crash(w)]_vars
<1> DEFINE Left == \A id \in ScanId, w \in Worker :
               Executing(w, id) /\ ~Executing(w, id)' /\ runs'[id].state = "running"
               => WriteFails(w) \/ Crash(w)
<1>1. Shape /\ [Next]_vars => [Left]_vars
  <2> SUFFICES ASSUME Shape, [Next]_vars, NEW id \in ScanId, NEW w \in Worker,
                      Executing(w, id), ~Executing(w, id)', runs'[id].state = "running",
                      CompleteScan(w) \/ FailScan(w)
               PROVE  FALSE
    BY ExecutionKept
  <2>1. /\ UNCHANGED queue /\ scan[w].id \in ScanId
        /\ \/ runs' = [runs EXCEPT ![scan[w].id] = [state |-> "completed", at |-> clock]]
           \/ runs' = [runs EXCEPT ![scan[w].id].state = "failed"]
    BY DEF CompleteScan, FailScan, Shape, ScanShape
  <2>2. id = scan[w].id
    BY <2>1 DEF Executing, Scanning
  <2>3. runs'[scan[w].id].state \in {"completed", "failed"}
    BY <2>1 DEF Shape, TypeOK
  <2> QED BY <2>2, <2>3
<1> QED BY <1>1, ShapeHolds, PTL DEF Spec

-----------------------------------------------------------------------------
(* One process: the permissions a pass has read still hold.                *)

\* The points of a pass that lead to a scan of what it has yet to do.
Choosing == {"pick", "overdue", "create", "scanning", "triggered", "retry", "giveup"}

\* A pass without a backoff keeps the event loop, so what it has read holds.
Unbroken(e) == e = "now" \/ MaxAttempts = 1

Cleared(r) ==
    /\ r.pc # "asleep"
    /\ r.pc \in Choosing => \A c \in r.todo : perm[c] \in Scannable
    /\ r.pc \in {"overdue", "create", "scanning", "retry"} => r.cust \in r.todo

Permitted == \A w \in Worker, e \in Entry : Unbroken(e) => Cleared(pass[w][e])

\* A move of a pass to a record that chooses from no more than it did.
LEMMA StaysCleared ==
  ASSUME NEW r, NEW s, Cleared(r), r.pc \in Choosing, UNCHANGED perm,
         s.todo \subseteq r.todo, s.pc # "asleep",
         s.pc \in {"overdue", "create", "scanning", "retry"} => s.cust \in s.todo
  PROVE  Cleared(s)'
  BY DEF Cleared

LEMMA PassStepCleared ==
  ASSUME Shape, NEW w \in Worker, NEW e \in Entry, Unbroken(e), Cleared(pass[w][e]),
         PassStep(w, e) \/ Wake(w, e)
  PROVE  Cleared(pass[w][e])'
<1> DEFINE at == pass[w][e]
<1>0. at \in PassRecord /\ at.attempt \in 1..MaxAttempts
  BY DEF Shape, TypeOK, PassRecord
<1>s. \A r : SetPass(w, e, r) => pass'[w][e] = r
  BY DEF Shape, TypeOK, SetPass
<1>c. ASSUME NEW s, pass'[w][e] = s, at.pc \in Choosing, UNCHANGED perm,
             s.todo \subseteq at.todo, s.pc # "asleep",
             s.pc \in {"overdue", "create", "scanning", "retry"} => s.cust \in s.todo
      PROVE  Cleared(pass[w][e])'
  BY <1>c, StaysCleared DEF Cleared
<1>x. ASSUME pass'[w][e].pc \in {"idle", "exports", "exporting"}
      PROVE  Cleared(pass[w][e])'
  BY <1>x DEF Cleared, Choosing
<1>1. ASSUME NEW c \in Customer, Pick(w, e, c)
      PROVE  Cleared(pass[w][e])'
  <2> DEFINE taken(pc) == [at EXCEPT !.pc = pc, !.cust = c, !.attempt = 1]
             skipped == [at EXCEPT !.todo = @ \ {c}]
  <2>1. at.pc = "pick" /\ c \in at.todo /\ UNCHANGED perm
    BY <1>1 DEF Pick, db
  <2>2. \A pc : taken(pc).pc = pc /\ taken(pc).cust = c /\ taken(pc).todo = at.todo
    BY <1>0 DEF PassRecord
  <2>3. skipped.pc = "pick" /\ skipped.todo = at.todo \ {c}
    BY <1>0, <2>1 DEF PassRecord
  <2>4. \/ SetPass(w, e, taken("overdue")) \/ SetPass(w, e, taken("create"))
        \/ SetPass(w, e, skipped)
    BY <1>1 DEF Pick
  <2> HIDE DEF taken, skipped
  <2>5. ASSUME NEW pc \in {"overdue", "create"}, SetPass(w, e, taken(pc))
        PROVE  Cleared(pass[w][e])'
    <3>1. PICK s : s = taken(pc)
      OBVIOUS
    <3>2. s.pc = pc /\ s.cust = c /\ s.todo = at.todo /\ pass'[w][e] = s
      BY <2>2, <2>5, <3>1, <1>s
    <3> QED BY <1>c, <2>1, <2>5, <3>2 DEF Choosing
  <2>6. CASE SetPass(w, e, skipped)
    BY <1>c, <1>s, <2>1, <2>3, <2>6 DEF Choosing
  <2> QED BY <2>4, <2>5, <2>6
<1>2. ASSUME NEW c \in Customer, SkipExport(w, e, c) \/ BeginExport(w, e, c)
      PROVE  Cleared(pass[w][e])'
  <2> DEFINE skip == [at EXCEPT !.todo = @ \ {c}]
             begin == [at EXCEPT !.pc = "exporting", !.cust = c]
  <2>1. at.pc = "exports" /\ (SetPass(w, e, skip) \/ SetPass(w, e, begin))
    BY <1>2 DEF SkipExport, BeginExport
  <2>2. skip.pc = at.pc /\ begin.pc = "exporting"
    BY <1>0 DEF PassRecord
  <2> HIDE DEF skip, begin
  <2> QED BY <1>x, <1>s, <2>1, <2>2
<1>3. CASE RaiseOverdue(w, e) \/ CreateRun(w, e)
  <2>1. PICK pc \in {"create", "scanning"} :
          SetPass(w, e, [at EXCEPT !.pc = pc])
    BY <1>3 DEF RaiseOverdue, CreateRun
  <2>2. at.pc \in {"overdue", "create"} /\ UNCHANGED perm
    BY <1>3 DEF RaiseOverdue, CreateRun
  <2>3. PICK s : s = [at EXCEPT !.pc = pc]
    OBVIOUS
  <2>4. s.pc = pc /\ s.cust = at.cust /\ s.todo = at.todo /\ pass'[w][e] = s
    BY <1>0, <1>s, <2>1, <2>3 DEF PassRecord
  <2>5. at.cust \in at.todo
    BY <2>2 DEF Cleared
  <2> QED BY <1>c, <2>2, <2>4, <2>5 DEF Choosing
<1>4. CASE AuditTriggered(w, e) \/ GiveUp(w, e)
  <2>1. at.pc \in {"triggered", "giveup"} /\ UNCHANGED perm
        /\ SetPass(w, e, NextCustomer(w, e))
    BY <1>4 DEF AuditTriggered, GiveUp, db
  <2>2. PICK s : s = NextCustomer(w, e)
    OBVIOUS
  <2>3. s.pc = "pick" /\ s.todo \subseteq at.todo /\ pass'[w][e] = s
    BY <1>0, <1>s, <2>1, <2>2 DEF NextCustomer, PassRecord
  <2> QED BY <1>c, <2>1, <2>3 DEF Choosing
<1>5. CASE AuditRetry(w, e)
  <2>1. at.pc = "retry" /\ UNCHANGED perm
    BY <1>5 DEF AuditRetry, db
  <2>2. \/ SetPass(w, e, [at EXCEPT !.pc = "giveup"])
        \/ SetPass(w, e, NextAttempt(w, e))
    <3>1. CASE e = "now"
      BY <1>5, <3>1 DEF AuditRetry
    <3>2. CASE MaxAttempts = 1
      <4>1. ~AttemptsLeft(w, e)
        BY <1>0, <3>2 DEF AttemptsLeft
      <4> QED BY <1>5, <4>1 DEF AuditRetry
    <3> QED BY <3>1, <3>2 DEF Unbroken
  <2>3. PICK s : /\ s = [at EXCEPT !.pc = "giveup"] \/ s = NextAttempt(w, e)
                 /\ pass'[w][e] = s
    BY <1>s, <2>2
  <2>4. s.pc \in {"giveup", "create"} /\ s.cust = at.cust /\ s.todo = at.todo
    BY <1>0, <2>3 DEF NextAttempt, PassRecord
  <2>5. at.cust \in at.todo
    BY <2>1 DEF Cleared
  <2> QED BY <1>c, <2>1, <2>3, <2>4, <2>5 DEF Choosing
<1>6. ~Wake(w, e)
  BY DEF Wake, Cleared
<1>7. CASE TurnToExports(w, e) \/ FinishExport(w, e)
  <2> DEFINE turned == [at EXCEPT !.pc = "exports", !.todo = at.scope \cap Exporter]
             next == [at EXCEPT !.pc = "exports", !.todo = @ \ {at.cust}]
  <2>1. SetPass(w, e, turned) \/ SetPass(w, e, next)
    BY <1>7 DEF TurnToExports, FinishExport
  <2>2. turned.pc = "exports" /\ next.pc = "exports"
    BY <1>0 DEF PassRecord
  <2> HIDE DEF turned, next
  <2> QED BY <1>x, <1>s, <2>1, <2>2
<1>8. CASE EndPass(w, e) \/ AbortPass(w, e)
  BY <1>x, <1>8, <1>s DEF EndPass, AbortPass, LeavePass, IdlePass
<1> QED BY <1>1, <1>2, <1>3, <1>4, <1>5, <1>6, <1>7, <1>8 DEF PassStep

LEMMA PermittedStep ==
  ASSUME Shape, Permitted, [Next]_vars, NEW v, Worker = {v}
  PROVE  Permitted'
<1> SUFFICES ASSUME NEW f \in Entry, Unbroken(f)
             PROVE  Cleared(pass[v][f])'
  BY DEF Permitted, Unbroken
<1>0. Cleared(pass[v][f])
  BY DEF Permitted
<1>1. ASSUME pass'[v][f] = pass[v][f], UNCHANGED perm
      PROVE  Cleared(pass[v][f])'
  BY <1>0, <1>1 DEF Cleared
<1>2. ASSUME loop[v] = "free", UNCHANGED pass
      PROVE  Cleared(pass[v][f])'
  <2>1. pass[v][f].pc = "idle"
    BY <1>0, <1>2, FreeIsIdle DEF Cleared
  <2> QED BY <1>2, <2>1 DEF Cleared, Choosing
<1>3. ASSUME pass'[v][f].pc = "idle"
      PROVE  Cleared(pass[v][f])'
  BY <1>3 DEF Cleared, Choosing
<1>4. CASE PermissionHandler
  BY <1>2, <1>4 DEF PermissionHandler, Handler, RequestApproval, Approve, Pause, Resume,
     UpdatePolicy, SetPermission, process
<1>5. CASE Tick \/ UNCHANGED vars
  BY <1>1, <1>5 DEF Tick, vars, db, process
<1>6. CASE Crash(v)
  BY <1>3, <1>6 DEF Crash, Shape, TypeOK, IdlePass
<1>7. ASSUME NEW c \in Customer, StartScan(v, c) \/ AddCredentials(v, c)
      PROVE  Cleared(pass[v][f])'
  BY <1>2, <1>7 DEF StartScan, AddCredentials, Handler
<1>8. CASE InsertRun(v) \/ RejectInsert(v) \/ \E id \in queue[v] : BeginQueued(v, id)
  BY <1>1, <1>8 DEF InsertRun, RejectInsert, BeginQueued, db
<1>9. CASE ScanStep(v)
  <2>1. CASE UNCHANGED pass
    <3>1. UNCHANGED perm
      BY <1>9, Zenon DEF ScanStep, Fetch, ScanRaises, Flush, AllFetched, CommitScan,
         CompleteScan, FailScan, WriteFails, db
    <3> QED BY <1>1, <2>1, <3>1
  <2>2. CASE pass' # pass
    <3>1. PICK ok \in BOOLEAN : Active(v) /\ Return(v, ok) /\ UNCHANGED perm
      BY <1>9, <2>2 DEF ScanStep, Fetch, ScanRaises, Flush, AllFetched, CommitScan,
         CompleteScan, FailScan, WriteFails, Active
    <3>2. PICK e \in Entry : e = scan[v].via /\ pass[v][e].pc = "scanning"
      BY <2>2, <3>1 DEF Return, Shape, ScanShape, TypeOK, ScanRecord
    <3> DEFINE r == [pass[v][e] EXCEPT !.pc = IF ok THEN "triggered" ELSE "retry"]
    <3>3. SetPass(v, e, r)
      BY <2>2, <3>1, <3>2 DEF Return
    <3>4. /\ r.pc = (IF ok THEN "triggered" ELSE "retry")
          /\ r.todo = pass[v][e].todo /\ r.cust = pass[v][e].cust
      BY DEF Shape, TypeOK, PassRecord
    <3> HIDE DEF r
    <3>5. pass'[v][f] = IF f = e THEN r ELSE pass[v][f]
      BY <3>3 DEF SetPass, Shape, TypeOK
    <3>6. CASE f = e
      <4>1. pass[v][f].cust \in pass[v][f].todo /\ pass[v][f].pc \in Choosing
        BY <1>0, <3>2, <3>6 DEF Cleared, Choosing
      <4>2. r.pc \in {"triggered", "retry"}
        BY <3>4
      <4> QED BY <1>0, <3>1, <3>4, <3>5, <3>6, <4>1, <4>2, StaysCleared DEF Cleared
    <3> QED BY <1>1, <3>1, <3>5, <3>6
  <2> QED BY <2>1, <2>2
<1>10. ASSUME NEW e \in Entry, NEW scope, BeginPass(v, e, scope)
       PROVE  Cleared(pass[v][f])'
  <2> DEFINE r == [IdlePass EXCEPT !.pc = "pick", !.now = clock, !.scope = scope,
                                   !.todo = {c \in scope : perm[c] \in Scannable}]
  <2>1. /\ SetPass(v, e, r) /\ r.pc = "pick" /\ UNCHANGED perm
        /\ \A c \in r.todo : perm[c] \in Scannable
    BY <1>10 DEF BeginPass, IdlePass, db
  <2> HIDE DEF r
  <2>2. pass'[v][f] = IF f = e THEN r ELSE pass[v][f]
    BY <2>1 DEF SetPass, Shape, TypeOK
  <2> QED BY <1>1, <2>1, <2>2 DEF Cleared
<1>11. ASSUME NEW e \in Entry, PassStep(v, e) \/ Wake(v, e)
       PROVE  Cleared(pass[v][f])'
  <2>1. CASE f = e
    BY <1>0, <1>11, <2>1, PassStepCleared
  <2>2. CASE f # e
    <3>1. PICK r : SetPass(v, e, r)
      BY <1>11, PassStepForm DEF LeavePass
    <3>2. pass'[v][f] = pass[v][f]
      BY <2>2, <3>1 DEF SetPass, Shape, TypeOK
    <3>3. UNCHANGED perm
      BY <1>11, Zenon DEF PassStep, Pick, SkipExport, BeginExport, RaiseOverdue, CreateRun,
         AuditTriggered, AuditRetry, GiveUp, TurnToExports, FinishExport, EndPass,
         AbortPass, LeavePass, Wake, db
    <3> QED BY <1>1, <3>2, <3>3
  <2> QED BY <2>1, <2>2
<1>12. CASE WorkerStep(v)
  <2>1. CASE BeginLoopPass(v) \/ RunNow(v)
    BY <1>10, <2>1 DEF BeginLoopPass, RunNow
  <2> QED BY <1>7, <1>8, <1>9, <1>11, <1>12, <2>1 DEF WorkerStep
<1> QED BY <1>4, <1>5, <1>6, <1>12 DEF Next

LEMMA InitPermitted == Init => Permitted
  BY DEF Init, Permitted, Cleared, Choosing, IdlePass

\* In a deployment of one process whose scans are not retried, a scheduled scan
\* starts only for a customer that may be scanned at that moment: the backoff
\* between attempts is the only point where a pause slips in.
THEOREM PauseHonouredByOne ==
  ASSUME NEW only, Worker = {only}, MaxAttempts = 1
  PROVE  Spec => PauseHonoured
<1> DEFINE Honoured == \A w \in Worker, e \in Entry :
         PassCreates(w, e) => perm[pass[w][e].cust] \in Scannable
<1>1. Shape /\ Permitted /\ [Next]_vars => Permitted'
  BY PermittedStep
<1>2. Permitted /\ [Next]_vars => [Honoured]_vars
  BY DEF Permitted, Unbroken, Cleared, Choosing, PassCreates
<1> QED
  BY <1>1, <1>2, InitPermitted, ShapeHolds, PTL DEF Spec, PauseHonoured, PassCreates

\* In a deployment of one process, whatever the retries, a pass that run-now
\* asks for starts a scan only for a customer that may be scanned at that
\* moment: it never gives the event loop back.
THEOREM RunNowHonoursPause ==
  ASSUME NEW only, Worker = {only}
  PROVE  Spec => [][\A w \in Worker : PassCreates(w, "now")
                      => perm[pass[w]["now"].cust] \in Scannable]_vars
<1> DEFINE Honoured == \A w \in Worker : PassCreates(w, "now")
                      => perm[pass[w]["now"].cust] \in Scannable
<1>1. Shape /\ Permitted /\ [Next]_vars => Permitted'
  BY PermittedStep
<1>2. Permitted /\ [Next]_vars => [Honoured]_vars
  BY DEF Permitted, Unbroken, Cleared, Choosing, PassCreates
<1> QED
  BY <1>1, <1>2, InitPermitted, ShapeHolds, PTL DEF Spec, PassCreates
=============================================================================
