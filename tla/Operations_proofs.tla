-------------------------- MODULE Operations_proofs --------------------------
(***************************************************************************)
(* What TLAPS proves of the components around a scan: the alerts taken in  *)
(* and delivered, the ledger of savings, the remediation loop, export      *)
(* jobs, the import of CSV files, the cost queries and the start of the    *)
(* workers, for any number of processes, alerts, recommendations, jobs,    *)
(* rows, scopes and charges.                                               *)
(* Each component has a section with its inductive invariant, the lemmas   *)
(* on its actions and its theorem.                                         *)
(***************************************************************************)
EXTENDS AlertIntake, AlertDelivery, SavingsLedger, Remediation, Exports, CostImport,
        ProviderCosts, Startup, Sums, SequenceTheorems

-----------------------------------------------------------------------------
(* Events that are taken in: module AlertIntake.                           *)

Action == {"acknowledged", "dismissed", "reactivated"}

Mark(e) == [event |-> e]

IntakeId == {Mark(e) : e \in Identified} \cup [second : Nat]

Alert == [event : Events, id : IntakeId, by : Taker, began : Nat, checked : BOOLEAN,
          log : Seq(Action), acked : BOOLEAN]

Batch == [pc : {"look", "flush"}, left : Seq(Events), now : Nat, made : Seq(Alert),
          flushed : SUBSET IntakeId, pending : SUBSET IntakeId, seen : SUBSET Events,
          began : Nat]

IntakeType ==
    /\ second \in Nat
    /\ dedupe \in BOOLEAN
    /\ alerts \in Seq(Alert)
    /\ noted \subseteq IntakeId
    /\ intake \in [Taker -> Batch \cup {NoBatch}]
    /\ taken \subseteq Events
    /\ \A w \in Taker : intake[w].pc = "flush" => intake[w].left # <<>>

-----------------------------------------------------------------------------
\* The id of an event that has one is of no other event.
LEMMA IdType ==
  ASSUME NEW e \in Events, NEW n \in Nat
  PROVE  IdOf(e, n) \in IntakeId
  BY DEF IdOf, IntakeId, Mark

LEMMA MarkIsId ==
  ASSUME NEW e \in Identified, NEW n
  PROVE  IdOf(e, n) = Mark(e)
  BY DEF IdOf, Mark

LEMMA MarkOfOne ==
  ASSUME NEW e \in Identified, NEW f, NEW n, IdOf(f, n) = Mark(e)
  PROVE  f = e
<1>1. CASE f \in Identified
  BY <1>1 DEF IdOf, Mark
<1>2. CASE f \notin Identified
  <2>1. DOMAIN IdOf(f, n) = {"second"}
    BY <1>2 DEF IdOf
  <2>2. DOMAIN Mark(e) = {"event"}
    BY DEF Mark
  <2> QED BY <2>1, <2>2
<1> QED BY <1>1, <1>2

\* A process has a batch or none.
LEMMA NoBatchAlone == ASSUME NEW b \in Batch PROVE b # NoBatch
  BY DEF Batch, NoBatch

LEMMA BatchOf ==
  ASSUME IntakeType, NEW w \in Taker, intake[w] # NoBatch
  PROVE  intake[w] \in Batch
  BY DEF IntakeType

LEMMA LookingBatch ==
  ASSUME IntakeType, NEW w \in Taker, intake[w].pc \in {"look", "flush"}
  PROVE  intake[w] \in Batch
  BY DEF IntakeType, NoBatch

LEMMA IntakeUpdate ==
  ASSUME IntakeType, NEW w \in Taker, NEW b, intake' = [intake EXCEPT ![w] = b]
  PROVE  /\ intake'[w] = b
         /\ \A v \in Taker : v # w => intake'[v] = intake[v]
  BY DEF IntakeType

-----------------------------------------------------------------------------
\* What each step makes of the rows.

\* A batch that goes on has one of these forms.
LEMMA LookForm ==
  ASSUME IntakeType, NEW w \in Taker, NEW suppressed \in BOOLEAN, Look(w, suppressed)
  PROVE  \E b \in Batch, e \in Events :
           /\ intake' = [intake EXCEPT ![w] = b]
           /\ intake[w] \in Batch /\ intake[w].pc = "look" /\ e = Head(intake[w].left)
           /\ b.now = intake[w].now /\ b.made = intake[w].made
           /\ b.flushed = intake[w].flushed /\ b.pending = intake[w].pending
           /\ b.began = intake[w].began
           /\ \/ b.pc = "look" /\ b.seen = intake[w].seen
              \/ /\ b.pc = "look" /\ b.seen = intake[w].seen \cup {e}
                 /\ Duplicate(w, e) \/ Repeats(w, e)
              \/ /\ b.pc = "flush" /\ b.seen = intake[w].seen \cup {e}
                 /\ b.left = intake[w].left /\ intake[w].left # <<>>
                 /\ ~Duplicate(w, e) /\ ~Repeats(w, e)
<1>1. PICK mine : mine = intake[w]
  OBVIOUS
<1>2. PICK e : e = Head(mine.left)
  OBVIOUS
<1>3. mine \in Batch /\ mine.pc = "look" /\ mine.left # <<>>
  BY <1>1, LookingBatch DEF Look
<1>4. e \in Events /\ Tail(mine.left) \in Seq(Events)
  BY <1>2, <1>3 DEF Batch
<1> DEFINE passed == [mine EXCEPT !.left = Tail(@)]
           known == [mine EXCEPT !.left = Tail(@), !.seen = @ \cup {e}]
           fresh == [mine EXCEPT !.pc = "flush", !.seen = @ \cup {e}]
<1>5. intake' = [intake EXCEPT ![w] =
                   IF suppressed THEN passed
                   ELSE IF Duplicate(w, e) \/ Repeats(w, e) THEN known ELSE fresh]
  BY <1>1, <1>2, Zenon DEF Look
<1>6. /\ passed \in Batch
      /\ passed.now = mine.now /\ passed.made = mine.made /\ passed.flushed = mine.flushed
      /\ passed.pending = mine.pending /\ passed.began = mine.began
      /\ passed.pc = "look" /\ passed.seen = mine.seen
  BY <1>3, <1>4 DEF Batch
<1>7. /\ known \in Batch
      /\ known.now = mine.now /\ known.made = mine.made /\ known.flushed = mine.flushed
      /\ known.pending = mine.pending /\ known.began = mine.began
      /\ known.pc = "look" /\ known.seen = mine.seen \cup {e}
  BY <1>3, <1>4 DEF Batch
<1>8. /\ fresh \in Batch
      /\ fresh.now = mine.now /\ fresh.made = mine.made /\ fresh.flushed = mine.flushed
      /\ fresh.pending = mine.pending /\ fresh.began = mine.began
      /\ fresh.pc = "flush" /\ fresh.seen = mine.seen \cup {e}
      /\ fresh.left = mine.left
  BY <1>3, <1>4 DEF Batch
<1> HIDE DEF passed, known, fresh
<1>9. CASE suppressed
  BY <1>1, <1>2, <1>3, <1>4, <1>5, <1>6, <1>9
<1>10. CASE ~suppressed /\ (Duplicate(w, e) \/ Repeats(w, e))
  BY <1>1, <1>2, <1>3, <1>4, <1>5, <1>7, <1>10
<1>11. CASE ~suppressed /\ ~(Duplicate(w, e) \/ Repeats(w, e))
  BY <1>1, <1>2, <1>3, <1>4, <1>5, <1>8, <1>11
<1> QED BY <1>9, <1>10, <1>11

LEMMA MakeForm ==
  ASSUME IntakeType, NEW w \in Taker, Make(w)
  PROVE  \E b \in Batch, e \in Events, a \in Alert :
           /\ intake' = [intake EXCEPT ![w] = b]
           /\ intake[w] \in Batch /\ intake[w].pc = "flush" /\ e = Head(intake[w].left)
           /\ b.now = intake[w].now /\ b.began = intake[w].began /\ b.seen = intake[w].seen
           /\ b.pc = "look" /\ b.made = Append(intake[w].made, a)
           /\ a.event = e /\ a.id = IdOf(e, intake[w].now) /\ a.by = w
           /\ a.began = intake[w].began /\ a.checked = dedupe /\ a.log = <<>> /\ ~a.acked
           /\ b.flushed = intake[w].flushed \cup intake[w].pending
           /\ b.pending = {a.id}
<1>1. PICK mine : mine = intake[w]
  OBVIOUS
<1>2. PICK e : e = Head(mine.left)
  OBVIOUS
<1>3. mine \in Batch /\ mine.pc = "flush" /\ mine.left # <<>>
  BY <1>1, LookingBatch DEF Make, IntakeType
<1>4. e \in Events /\ Tail(mine.left) \in Seq(Events)
  BY <1>2, <1>3 DEF Batch
<1>5. PICK a : a = [event |-> e, id |-> IdOf(e, mine.now), by |-> w, began |-> mine.began,
                    checked |-> dedupe, log |-> <<>>, acked |-> FALSE]
  OBVIOUS
<1>6. IdOf(e, mine.now) \in IntakeId
  BY <1>3, <1>4, IdType DEF Batch
<1>7. a \in Alert
  BY <1>3, <1>4, <1>5, <1>6 DEF Alert, Batch, IntakeType
<1> DEFINE b == [mine EXCEPT !.pc = "look", !.left = Tail(@), !.made = Append(@, a),
                             !.flushed = @ \cup mine.pending,
                             !.pending = {IdOf(e, mine.now)}]
<1>8. intake' = [intake EXCEPT ![w] = b]
  BY <1>1, <1>2, <1>5, Zenon DEF Make
<1>9. Append(mine.made, a) \in Seq(Alert)
  BY <1>3, <1>7 DEF Batch
<1>10. /\ b \in Batch
       /\ b.now = mine.now /\ b.began = mine.began /\ b.seen = mine.seen
       /\ b.pc = "look" /\ b.made = Append(mine.made, a)
       /\ b.flushed = mine.flushed \cup mine.pending /\ b.pending = {IdOf(e, mine.now)}
  BY <1>3, <1>4, <1>6, <1>9 DEF Batch
<1>11. /\ a.event = e /\ a.id = IdOf(e, mine.now) /\ a.by = w /\ a.began = mine.began
       /\ a.checked = dedupe /\ a.log = <<>> /\ ~a.acked
  BY <1>5
<1> HIDE DEF b
<1> QED BY <1>1, <1>2, <1>3, <1>4, <1>7, <1>8, <1>10, <1>11

LEMMA TakeForm ==
  ASSUME IntakeType, NEW w \in Taker, NEW batch \in Seq(Events), TakeBatch(w, batch)
  PROVE  \E b \in Batch :
           /\ intake' = [intake EXCEPT ![w] = b]
           /\ b.pc = "look" /\ b.made = <<>> /\ b.flushed = {} /\ b.pending = {}
           /\ b.seen = {} /\ b.began = Len(alerts)
<1>2. Len(alerts) \in Nat
  BY DEF IntakeType
<1> DEFINE b == [pc |-> "look", left |-> batch, now |-> second, made |-> <<>>,
                 flushed |-> {}, pending |-> {}, seen |-> {}, began |-> Len(alerts)]
<1>3. b \in Batch
  BY <1>2 DEF Batch, IntakeType
<1>4. intake' = [intake EXCEPT ![w] = b]
  BY DEF TakeBatch
<1> QED BY <1>3, <1>4
-----------------------------------------------------------------------------
\* The inductive invariant.

\* A committed alert is of a batch that began when it was not there, its id is
\* noted, and its log tells whether it was acknowledged.
AlertRow(i) ==
    /\ alerts[i].id \in noted
    /\ alerts[i].began < i
    /\ alerts[i].acked <=> \E n \in 1..Len(alerts[i].log) :
                            alerts[i].log[n] = "acknowledged"

HasAlert(e) == \E i \in 1..Len(alerts) : alerts[i].event = e

Makes(w, e) == \E n \in 1..Len(intake[w].made) : intake[w].made[n].event = e

\* The alerts of w are of batches before this one, and what it makes has ids
\* that no alert had when it began.
BatchStart(w) ==
    /\ intake[w].began <= Len(alerts)
    /\ \A i \in 1..Len(alerts) : alerts[i].by = w => i <= intake[w].began
    /\ \A i \in 1..intake[w].began, n \in 1..Len(intake[w].made) :
         alerts[i].id # intake[w].made[n].id

MadeRow(w, n) ==
    LET a == intake[w].made[n] IN
    /\ a.by = w /\ a.began = intake[w].began /\ a.checked = dedupe
    /\ a.id = IdOf(a.event, intake[w].now)
    /\ a.log = <<>> /\ ~a.acked

\* Two alerts of a batch with one id follow each other.
MadeApart(w) ==
    LET made == intake[w].made IN
    \A m, n \in 1..Len(made) : m < n /\ made[m].id = made[n].id =>
        n = m + 1 /\ (made[m].event = made[n].event => ~dedupe)

\* All ids of a batch but the last are flushed, and they are those of its alerts.
MadeNoted(w) ==
    LET b == intake[w] IN
    /\ \A n \in 1..Len(b.made) :
         IF n = Len(b.made) THEN b.pending = {b.made[n].id} ELSE b.made[n].id \in b.flushed
    /\ \A id \in b.flushed \cup b.pending : \E n \in 1..Len(b.made) : b.made[n].id = id

\* What is about to be made is new but for the last alert of the batch.
Flushing(w) ==
    LET b == intake[w]
        e == Head(b.left)
    IN b.pc = "flush" =>
        /\ e \in b.seen
        /\ \A n \in 1..(Len(b.made) - 1) : b.made[n].id # IdOf(e, b.now)
        /\ \A i \in 1..b.began : alerts[i].id # IdOf(e, b.now)
        /\ dedupe => ~Makes(w, e)

\* A seen event with an id has an alert or is about to have one.
SeenKept(w) ==
    \A e \in intake[w].seen \cap Identified :
        \/ HasAlert(e) \/ Makes(w, e)
        \/ intake[w].pc = "flush" /\ e = Head(intake[w].left)

BatchRow(w) ==
    intake[w] # NoBatch =>
        /\ BatchStart(w) /\ MadeApart(w) /\ MadeNoted(w) /\ Flushing(w) /\ SeenKept(w)
        /\ \A n \in 1..Len(intake[w].made) : MadeRow(w, n)

IntakeInv ==
    /\ IntakeType
    /\ \A i \in 1..Len(alerts) : AlertRow(i)
    /\ \A e \in Identified : Mark(e) \in noted \/ e \in taken => HasAlert(e)
    /\ \A w \in Taker : BatchRow(w)
    /\ TakenOnce

LEMMA AlertTyped ==
  ASSUME IntakeType, NEW i \in 1..Len(alerts)
  PROVE  alerts[i] \in Alert
<1>1. alerts \in Seq(Alert)
  BY DEF IntakeType
<1> QED BY <1>1, ElementOfSeq

LEMMA LoggedForm ==
  ASSUME IntakeType, NEW i \in 1..Len(alerts), NEW action \in Action, Logged(i, action)
  PROVE  /\ alerts' \in Seq(Alert) /\ Len(alerts') = Len(alerts)
         /\ \A j \in 1..Len(alerts) : j # i => alerts'[j] = alerts[j]
         /\ alerts'[i].event = alerts[i].event /\ alerts'[i].id = alerts[i].id
         /\ alerts'[i].by = alerts[i].by /\ alerts'[i].began = alerts[i].began
         /\ alerts'[i].checked = alerts[i].checked
         /\ alerts'[i].log = Append(alerts[i].log, action)
         /\ alerts'[i].acked <=> alerts[i].acked \/ action = "acknowledged"
<1>1. PICK a : a = alerts[i]
  OBVIOUS
<1>2. a \in Alert /\ alerts \in Seq(Alert)
  BY <1>1, ElementOfSeq DEF IntakeType
<1>3. Append(a.log, action) \in Seq(Action)
  BY <1>2, AppendProperties DEF Alert
<1>4. PICK r : r = [[a EXCEPT !.log = Append(@, action)]
                       EXCEPT !.acked = @ \/ action = "acknowledged"]
  OBVIOUS
<1>5. /\ r \in Alert /\ r.event = a.event /\ r.id = a.id /\ r.by = a.by
      /\ r.began = a.began /\ r.checked = a.checked /\ r.log = Append(a.log, action)
      /\ r.acked <=> a.acked \/ action = "acknowledged"
  BY <1>2, <1>3, <1>4 DEF Alert
<1>6. alerts' = [alerts EXCEPT ![i].log = Append(@, action),
                              ![i].acked = @ \/ action = "acknowledged"]
  BY DEF Logged
<1>7. alerts' = [alerts EXCEPT ![i] = r]
  BY <1>1, <1>2, <1>4, <1>6, LenProperties
<1>8. /\ alerts' \in Seq(Alert) /\ Len(alerts') = Len(alerts)
      /\ \A j \in 1..Len(alerts) : alerts'[j] = IF j = i THEN r ELSE alerts[j]
  BY <1>2, <1>5, <1>7, ExceptSeq
<1> QED BY <1>1, <1>5, <1>8

LEMMA CommitForm ==
  ASSUME IntakeType, NEW w \in Taker, CommitBatch(w)
  PROVE  \E b \in Batch :
           /\ b = intake[w] /\ b.pc = "look" /\ b # NoBatch
           /\ alerts' \in Seq(Alert) /\ Len(alerts') = Len(alerts) + Len(b.made)
           /\ \A i \in 1..Len(alerts) : alerts'[i] = alerts[i]
           /\ \A i \in Len(alerts) + 1..Len(alerts') :
                 i - Len(alerts) \in 1..Len(b.made) /\ alerts'[i] = b.made[i - Len(alerts)]
           /\ \A n \in 1..Len(b.made) : alerts'[Len(alerts) + n] = b.made[n]
           /\ noted' = noted \cup b.flushed \cup b.pending
           /\ taken' = taken \cup b.seen
           /\ intake' = [intake EXCEPT ![w] = NoBatch]
           /\ UNCHANGED <<second, dedupe>>
<1>1. PICK b : b = intake[w]
  OBVIOUS
<1>2. b \in Batch /\ b.pc = "look"
  BY <1>1, LookingBatch DEF CommitBatch
<1>3. /\ alerts' = alerts \o b.made
      /\ noted' = noted \cup b.flushed \cup b.pending
      /\ taken' = taken \cup b.seen
      /\ intake' = [intake EXCEPT ![w] = NoBatch]
      /\ UNCHANGED <<second, dedupe>>
  BY <1>1, Zenon DEF CommitBatch
<1>4. alerts \in Seq(Alert) /\ b.made \in Seq(Alert)
  BY <1>2 DEF IntakeType, Batch
<1>5. /\ alerts' \in Seq(Alert) /\ Len(alerts') = Len(alerts) + Len(b.made)
      /\ \A i \in 1..Len(alerts') :
           alerts'[i] = IF i <= Len(alerts) THEN alerts[i] ELSE b.made[i - Len(alerts)]
  BY <1>3, <1>4, ConcatProperties
<1>6. Len(alerts) \in Nat /\ Len(b.made) \in Nat
  BY <1>4, LenProperties
<1>7. /\ \A i \in 1..Len(alerts) : alerts'[i] = alerts[i]
      /\ \A i \in Len(alerts) + 1..Len(alerts') :
           i - Len(alerts) \in 1..Len(b.made) /\ alerts'[i] = b.made[i - Len(alerts)]
  BY <1>5, <1>6
<1>8. \A n \in 1..Len(b.made) : alerts'[Len(alerts) + n] = b.made[n]
  <2> TAKE n \in 1..Len(b.made)
  <2>1. Len(alerts) + n \in Len(alerts) + 1..Len(alerts')
    BY <1>5, <1>6
  <2>2. Len(alerts) + n - Len(alerts) = n
    BY <1>6
  <2> QED BY <1>7, <2>1, <2>2
<1>9. b # NoBatch
  BY <1>2, NoBatchAlone
<1> QED BY <1>1, <1>2, <1>3, <1>5, <1>7, <1>8, <1>9

\* What a handler of alerts or a process does, named.
LEMMA IntakeCases ==
  ASSUME IntakeType, [IntakeNext]_intakeVars
  PROVE  \/ \E w \in Taker :
              \/ \E batch \in Seq(Events) : TakeBatch(w, batch)
              \/ \E suppressed \in BOOLEAN : Look(w, suppressed)
              \/ Make(w) \/ CommitBatch(w) \/ BatchFails(w)
         \/ \E i \in 1..Len(alerts), action \in Action : Logged(i, action)
         \/ UNCHANGED <<dedupe, alerts, noted, intake, taken>> /\ second' \in Nat
<1>1. DOMAIN alerts = 1..Len(alerts)
  BY LenProperties DEF IntakeType
<1>2. ASSUME NEW i \in DOMAIN alerts, Handle(i)
      PROVE  \E j \in 1..Len(alerts), action \in Action : Logged(j, action)
  BY <1>1, <1>2 DEF Handle, Acknowledge, Dismiss, Reactivate, Action
<1>3. ASSUME NEW w \in Taker, NEW e \in Events, TakeMessage(w, e)
      PROVE  \E batch \in Seq(Events) : TakeBatch(w, batch)
  <2>1. <<e>> \in Seq(Events)
    OBVIOUS
  <2> QED BY <1>3, <2>1 DEF TakeMessage
<1>5. Batches \in SUBSET Seq(Events)
  BY IntakeBounds DEF Batches
<1>4. CASE SecondPasses \/ UNCHANGED intakeVars
  BY <1>4 DEF SecondPasses, intakeVars, IntakeType
<1> QED BY <1>2, <1>3, <1>4, <1>5 DEF IntakeNext, TakeIn

LEMMA IntakeTypeStep ==
  ASSUME IntakeType, [IntakeNext]_intakeVars
  PROVE  IntakeType'
<1>1. ASSUME NEW w \in Taker, NEW b \in Batch \cup {NoBatch},
             intake' = [intake EXCEPT ![w] = b],
             b.pc = "flush" => b.left # <<>>,
             UNCHANGED <<second, dedupe, alerts, noted, taken>>
      PROVE  IntakeType'
  BY <1>1 DEF IntakeType
<1>2. ASSUME NEW w \in Taker, NEW batch \in Seq(Events), TakeBatch(w, batch)
      PROVE  IntakeType'
  <2>1. PICK b \in Batch : intake' = [intake EXCEPT ![w] = b] /\ b.pc = "look"
    BY <1>2, TakeForm
  <2>2. UNCHANGED <<second, dedupe, alerts, noted, taken>>
    BY <1>2 DEF TakeBatch
  <2> QED BY <1>1, <2>1, <2>2
<1>3. ASSUME NEW w \in Taker, NEW suppressed \in BOOLEAN, Look(w, suppressed)
      PROVE  IntakeType'
  <2>1. PICK b \in Batch :
           /\ intake' = [intake EXCEPT ![w] = b]
           /\ b.pc = "flush" => b.left # <<>>
    BY <1>3, LookForm
  <2>2. UNCHANGED <<second, dedupe, alerts, noted, taken>>
    BY <1>3, Zenon DEF Look
  <2> QED BY <1>1, <2>1, <2>2
<1>4. ASSUME NEW w \in Taker, Make(w)
      PROVE  IntakeType'
  <2>1. PICK b \in Batch : intake' = [intake EXCEPT ![w] = b] /\ b.pc = "look"
    BY <1>4, MakeForm
  <2>2. UNCHANGED <<second, dedupe, alerts, noted, taken>>
    BY <1>4, Zenon DEF Make
  <2> QED BY <1>1, <2>1, <2>2
<1>5. ASSUME NEW w \in Taker, BatchFails(w)
      PROVE  IntakeType'
  BY <1>1, <1>5 DEF BatchFails, NoBatch
<1>6. ASSUME NEW w \in Taker, CommitBatch(w)
      PROVE  IntakeType'
  <2>1. PICK b \in Batch :
           /\ alerts' \in Seq(Alert)
           /\ noted' = noted \cup b.flushed \cup b.pending
           /\ taken' = taken \cup b.seen
           /\ intake' = [intake EXCEPT ![w] = NoBatch]
           /\ UNCHANGED <<second, dedupe>>
    BY <1>6, CommitForm
  <2>2. noted' \subseteq IntakeId /\ taken' \subseteq Events
    BY <2>1 DEF Batch, IntakeType
  <2> QED BY <2>1, <2>2 DEF IntakeType, NoBatch
<1>7. ASSUME NEW i \in 1..Len(alerts), NEW action \in Action, Logged(i, action)
      PROVE  IntakeType'
  <2>1. alerts' \in Seq(Alert)
    BY <1>7, LoggedForm
  <2> QED BY <1>7, <2>1 DEF Logged, IntakeType
<1>8. CASE UNCHANGED <<dedupe, alerts, noted, intake, taken>> /\ second' \in Nat
  BY <1>8 DEF IntakeType
<1> QED BY <1>2, <1>3, <1>4, <1>5, <1>6, <1>7, <1>8, IntakeCases

-----------------------------------------------------------------------------
\* What a step leaves of the row of a process that does not take it.

KeysKept ==
    /\ Len(alerts') >= Len(alerts)
    /\ \A i \in 1..Len(alerts) :
         /\ alerts'[i].event = alerts[i].event /\ alerts'[i].id = alerts[i].id
         /\ alerts'[i].by = alerts[i].by /\ alerts'[i].began = alerts[i].began
         /\ alerts'[i].checked = alerts[i].checked

LEMMA HasAlertKept ==
  ASSUME IntakeType, IntakeType', KeysKept, NEW e, HasAlert(e)
  PROVE  HasAlert(e)'
  BY LenProperties DEF IntakeType, KeysKept, HasAlert

LEMMA BatchFrame ==
  ASSUME IntakeType, IntakeType', KeysKept, NEW w \in Taker, BatchRow(w),
         intake'[w] = intake[w], dedupe' = dedupe,
         \A i \in Len(alerts) + 1..Len(alerts') : alerts'[i].by # w
  PROVE  BatchRow(w)'
<1> SUFFICES ASSUME intake[w] # NoBatch
             PROVE  BatchRow(w)'
  BY DEF BatchRow
<1>1. intake[w] \in Batch /\ Len(alerts) \in Nat /\ Len(alerts') \in Nat
  BY BatchOf, LenProperties DEF IntakeType
<1>2. intake[w].began \in Nat /\ intake[w].began <= Len(alerts)
  BY <1>1 DEF BatchRow, BatchStart, Batch
<1>3. BatchStart(w)'
  <2>1. \A i \in 1..Len(alerts') : alerts'[i].by = w => i <= intake[w].began
    BY <1>1, <1>2 DEF BatchRow, BatchStart, KeysKept
  <2>2. BatchStart(w)
    BY DEF BatchRow
  <2>3. \A i \in 1..intake[w].began : alerts'[i].id = alerts[i].id
    BY <1>1, <1>2 DEF KeysKept
  <2>4. intake[w].began <= Len(alerts')
    BY <1>1, <1>2 DEF KeysKept
  <2> QED BY <2>1, <2>2, <2>3, <2>4 DEF BatchStart
<1>4. /\ MadeApart(w)' /\ MadeNoted(w)'
      /\ \A n \in 1..Len(intake'[w].made) : MadeRow(w, n)'
  <2>1. MadeApart(w) /\ MadeNoted(w) /\ \A n \in 1..Len(intake[w].made) : MadeRow(w, n)
    BY DEF BatchRow
  <2>2. MadeApart(w)'
    BY <2>1 DEF MadeApart
  <2>3. MadeNoted(w)'
    BY <2>1 DEF MadeNoted
  <2>4. \A n \in 1..Len(intake'[w].made) : MadeRow(w, n)'
    BY <2>1 DEF MadeRow
  <2> QED BY <2>2, <2>3, <2>4
<1>5. Flushing(w)'
  BY <1>1, <1>2 DEF BatchRow, Flushing, Makes, KeysKept
<1>6. SeenKept(w)'
  BY HasAlertKept DEF BatchRow, SeenKept, Makes
<1> QED BY <1>3, <1>4, <1>5, <1>6 DEF BatchRow

-----------------------------------------------------------------------------
\* What a step makes of the row of the process that takes it.

LEMMA TakeRow ==
  ASSUME IntakeType, NEW w \in Taker, NEW batch \in Seq(Events), TakeBatch(w, batch)
  PROVE  BatchRow(w)'
<1>1. PICK b \in Batch :
           /\ intake' = [intake EXCEPT ![w] = b]
           /\ b.pc = "look" /\ b.made = <<>> /\ b.flushed = {} /\ b.pending = {}
           /\ b.seen = {} /\ b.began = Len(alerts)
  BY TakeForm
<1>2. intake'[w] = b /\ alerts' = alerts /\ Len(b.made) = 0 /\ Len(alerts) \in Nat
  BY <1>1, IntakeUpdate, LenProperties DEF TakeBatch, IntakeType
<1> QED
  BY <1>1, <1>2 DEF BatchRow, BatchStart, MadeApart, MadeNoted, Flushing, SeenKept

LEMMA LookRow ==
  ASSUME IntakeType, NEW w \in Taker, NEW suppressed \in BOOLEAN, Look(w, suppressed),
         BatchRow(w), \A i \in 1..Len(alerts) : AlertRow(i),
         \A e \in Identified : Mark(e) \in noted => HasAlert(e)
  PROVE  BatchRow(w)'
<1>1. PICK b \in Batch, e \in Events :
           /\ intake' = [intake EXCEPT ![w] = b]
           /\ intake[w] \in Batch /\ intake[w].pc = "look" /\ e = Head(intake[w].left)
           /\ b.now = intake[w].now /\ b.made = intake[w].made
           /\ b.flushed = intake[w].flushed /\ b.pending = intake[w].pending
           /\ b.began = intake[w].began
           /\ \/ b.pc = "look" /\ b.seen = intake[w].seen
              \/ /\ b.pc = "look" /\ b.seen = intake[w].seen \cup {e}
                 /\ Duplicate(w, e) \/ Repeats(w, e)
              \/ /\ b.pc = "flush" /\ b.seen = intake[w].seen \cup {e}
                 /\ b.left = intake[w].left /\ intake[w].left # <<>>
                 /\ ~Duplicate(w, e) /\ ~Repeats(w, e)
  BY LookForm
<1>2. intake'[w] = b
  BY <1>1, IntakeUpdate
<1>3. UNCHANGED <<second, dedupe, alerts, noted, locked, taken>>
  BY Zenon DEF Look
<1>4. /\ BatchStart(w) /\ MadeApart(w) /\ MadeNoted(w) /\ SeenKept(w)
      /\ \A n \in 1..Len(intake[w].made) : MadeRow(w, n)
  BY <1>1, NoBatchAlone DEF BatchRow
<1>5. /\ BatchStart(w)' /\ MadeApart(w)' /\ MadeNoted(w)'
  <2>1. /\ alerts' = alerts /\ dedupe' = dedupe /\ intake'[w].made = intake[w].made
        /\ intake'[w].began = intake[w].began /\ intake'[w].flushed = intake[w].flushed
        /\ intake'[w].pending = intake[w].pending
    BY <1>1, <1>2, <1>3
  <2>2. BatchStart(w)'
    BY <1>4, <2>1 DEF BatchStart
  <2>3. MadeApart(w)'
    BY <1>4, <2>1 DEF MadeApart
  <2>4. MadeNoted(w)'
    BY <1>4, <2>1 DEF MadeNoted
  <2> QED BY <2>2, <2>3, <2>4
<1>6. \A n \in 1..Len(intake'[w].made) : MadeRow(w, n)'
  BY <1>1, <1>2, <1>3, <1>4 DEF MadeRow
<1>7. /\ Len(alerts) \in Nat /\ Len(b.made) \in Nat /\ b.made \in Seq(Alert)
      /\ b.began \in Nat /\ b.began <= Len(alerts)
  BY <1>1, <1>4, LenProperties DEF IntakeType, Batch, BatchStart
<1>8. \A i \in 1..Len(alerts) + Len(b.made) :
         Visible(w)[i] = IF i <= Len(alerts) THEN alerts[i] ELSE b.made[i - Len(alerts)]
  BY <1>1, <1>7, ConcatProperties DEF Visible, IntakeType
<1>9. DOMAIN Visible(w) = 1..Len(alerts) + Len(b.made)
  <2>1. Visible(w) \in Seq(Alert) /\ Len(Visible(w)) = Len(alerts) + Len(b.made)
    BY <1>1, <1>7, ConcatProperties DEF Visible, IntakeType
  <2> QED BY <2>1, LenProperties
<1>10. (\E i \in DOMAIN Visible(w) : Visible(w)[i].event = e) <=> HasAlert(e) \/ Makes(w, e)
  <2>1. ASSUME NEW i \in DOMAIN Visible(w), Visible(w)[i].event = e
        PROVE  HasAlert(e) \/ Makes(w, e)
    <3>1. CASE i <= Len(alerts)
      BY <1>7, <1>8, <1>9, <2>1, <3>1 DEF HasAlert
    <3>2. CASE i > Len(alerts)
      <4>1. i - Len(alerts) \in 1..Len(b.made)
        BY <1>7, <1>9, <3>2
      <4>2. b.made[i - Len(alerts)].event = e
        BY <1>7, <1>8, <1>9, <2>1, <3>2
      <4> QED BY <1>1, <4>1, <4>2 DEF Makes
    <3> QED BY <1>7, <1>9, <3>1, <3>2
  <2>2. ASSUME HasAlert(e)
        PROVE  \E i \in DOMAIN Visible(w) : Visible(w)[i].event = e
    BY <1>7, <1>8, <1>9, <2>2 DEF HasAlert
  <2>3. ASSUME Makes(w, e)
        PROVE  \E i \in DOMAIN Visible(w) : Visible(w)[i].event = e
    <3>1. PICK n \in 1..Len(b.made) : b.made[n].event = e
      BY <1>1, <2>3 DEF Makes
    <3>2. PICK i : i = Len(alerts) + n
      OBVIOUS
    <3>3. i \in DOMAIN Visible(w) /\ i > Len(alerts) /\ i - Len(alerts) = n
      BY <1>7, <1>9, <3>2
    <3> QED BY <1>7, <1>8, <1>9, <3>1, <3>3
  <2> QED BY <2>1, <2>2, <2>3
<1>11. ASSUME e \in Identified, Duplicate(w, e)
       PROVE  HasAlert(e) \/ Makes(w, e)
  <2>1. Mark(e) \in noted \/ Mark(e) \in intake[w].flushed
    BY <1>11, MarkIsId DEF Duplicate, Notes
  <2>2. CASE Mark(e) \in intake[w].flushed
    <3>1. PICK n \in 1..Len(b.made) : b.made[n].id = Mark(e)
      BY <1>1, <1>4, <2>2 DEF MadeNoted
    <3>2. b.made[n].event = e
      BY <1>1, <1>4, <1>11, <3>1, MarkOfOne DEF MadeRow
    <3> QED BY <1>1, <3>2 DEF Makes
  <2> QED BY <1>11, <2>1, <2>2
<1>12. Flushing(w)'
  <2> SUFFICES ASSUME b.pc = "flush"
               PROVE  Flushing(w)'
    BY <1>2 DEF Flushing
  <2>1. /\ b.left = intake[w].left /\ e \in b.seen
        /\ ~Duplicate(w, e) /\ ~Repeats(w, e)
    BY <1>1
  <2>2. PICK id : id = IdOf(e, b.now)
    OBVIOUS
  <2>3. id \notin noted /\ id \notin b.flushed
    BY <1>1, <2>1, <2>2 DEF Duplicate, Notes
  <2>4. \A n \in 1..(Len(b.made) - 1) : b.made[n].id # id
    BY <1>1, <1>4, <1>7, <2>3 DEF MadeNoted
  <2>5. \A i \in 1..b.began : alerts[i].id # id
    BY <1>7, <2>3 DEF AlertRow
  <2>6. dedupe => ~Makes(w, e)
    BY <1>10, <2>1 DEF Repeats
  <2>7. Makes(w, e)' = Makes(w, e)
    BY <1>1, <1>2 DEF Makes
  <2>8. e = Head(b.left)
    BY <1>1, <2>1
  <2> QED BY <1>2, <1>3, <2>1, <2>2, <2>4, <2>5, <2>6, <2>7, <2>8 DEF Flushing
<1>13. SeenKept(w)'
  <2>1. \A f : HasAlert(f)' = HasAlert(f) /\ Makes(w, f)' = Makes(w, f)
    BY <1>1, <1>2, <1>3 DEF HasAlert, Makes
  <2>2. \A f \in intake[w].seen \cap Identified : HasAlert(f) \/ Makes(w, f)
    BY <1>1, <1>4 DEF SeenKept
  <2>3. Repeats(w, e) => HasAlert(e) \/ Makes(w, e)
    BY <1>10 DEF Repeats
  <2>4. \A f \in b.seen \cap Identified :
          HasAlert(f) \/ Makes(w, f) \/ (b.pc = "flush" /\ f = Head(b.left))
    BY <1>1, <1>11, <2>2, <2>3
  <2> QED BY <1>2, <2>1, <2>4 DEF SeenKept
<1> QED BY <1>5, <1>6, <1>12, <1>13 DEF BatchRow

LEMMA MakeRow ==
  ASSUME IntakeType, NEW w \in Taker, Make(w), BatchRow(w)
  PROVE  BatchRow(w)'
<1>1. PICK b \in Batch, e \in Events, a \in Alert :
           /\ intake' = [intake EXCEPT ![w] = b]
           /\ intake[w] \in Batch /\ intake[w].pc = "flush" /\ e = Head(intake[w].left)
           /\ b.now = intake[w].now /\ b.began = intake[w].began /\ b.seen = intake[w].seen
           /\ b.pc = "look" /\ b.made = Append(intake[w].made, a)
           /\ a.event = e /\ a.id = IdOf(e, intake[w].now) /\ a.by = w
           /\ a.began = intake[w].began /\ a.checked = dedupe /\ a.log = <<>> /\ ~a.acked
           /\ b.flushed = intake[w].flushed \cup intake[w].pending
           /\ b.pending = {a.id}
  BY MakeForm
<1>2. intake'[w] = b
  BY <1>1, IntakeUpdate
<1>3. UNCHANGED <<second, dedupe, alerts, noted, taken>>
  BY Zenon DEF Make
<1>4. PICK made, k : made = intake[w].made /\ k = Len(made)
  OBVIOUS
<1>5. made \in Seq(Alert) /\ k \in Nat /\ intake[w] # NoBatch
  BY <1>1, <1>4, LenProperties, NoBatchAlone DEF Batch
<1>6. /\ Len(b.made) = k + 1 /\ b.made[k + 1] = a
      /\ \A n \in 1..k : b.made[n] = made[n]
  BY <1>1, <1>4, <1>5, AppendProperties
<1>7. /\ BatchStart(w) /\ MadeApart(w) /\ MadeNoted(w) /\ SeenKept(w) /\ Flushing(w)
      /\ \A n \in 1..k : MadeRow(w, n)
  BY <1>4, <1>5 DEF BatchRow
<1>8. /\ e \in b.seen
      /\ \A n \in 1..(k - 1) : made[n].id # a.id
      /\ \A i \in 1..b.began : alerts[i].id # a.id
      /\ dedupe => \A n \in 1..k : made[n].event # e
  BY <1>1, <1>4, <1>7 DEF Flushing, Makes
<1>9. BatchStart(w)'
  <2>1. \A i \in 1..b.began, n \in 1..k : alerts[i].id # made[n].id
    BY <1>1, <1>4, <1>7 DEF BatchStart
  <2>2. \A i \in 1..b.began, n \in 1..(k + 1) : alerts[i].id # b.made[n].id
    <3> TAKE i \in 1..b.began, n \in 1..(k + 1)
    <3>1. CASE n \in 1..k
      BY <1>6, <2>1, <3>1
    <3>2. CASE n = k + 1
      BY <1>6, <1>8, <3>2
    <3> QED BY <1>5, <3>1, <3>2
  <2>3. /\ alerts' = alerts /\ intake'[w] = b /\ b.began = intake[w].began
        /\ Len(b.made) = k + 1
    BY <1>1, <1>2, <1>3, <1>6
  <2>4. /\ b.began <= Len(alerts)
        /\ \A i \in 1..Len(alerts) : alerts[i].by = w => i <= b.began
    BY <1>7, <2>3 DEF BatchStart
  <2> QED BY <2>2, <2>3, <2>4 DEF BatchStart
<1>10. \A n \in 1..Len(intake'[w].made) : MadeRow(w, n)'
  <2>1. ASSUME NEW n \in 1..k
        PROVE  MadeRow(w, n)'
    <3>1. MadeRow(w, n)
      BY <1>7
    <3>2. intake'[w].made[n] = intake[w].made[n]
      BY <1>2, <1>4, <1>6
    <3>3. /\ intake'[w].began = intake[w].began /\ intake'[w].now = intake[w].now
          /\ dedupe' = dedupe
      BY <1>1, <1>2, <1>3
    <3> QED BY <3>1, <3>2, <3>3 DEF MadeRow
  <2>2. MadeRow(w, k + 1)'
    BY <1>1, <1>2, <1>3, <1>6 DEF MadeRow
  <2> QED BY <1>2, <1>5, <1>6, <2>1, <2>2
<1>11. MadeApart(w)'
  <2>1. \A m, n \in 1..k : m < n /\ made[m].id = made[n].id =>
          n = m + 1 /\ (made[m].event = made[n].event => ~dedupe)
    BY <1>4, <1>7 DEF MadeApart
  <2>2. \A m, n \in 1..(k + 1) : m < n /\ b.made[m].id = b.made[n].id =>
          n = m + 1 /\ (b.made[m].event = b.made[n].event => ~dedupe)
    <3> SUFFICES ASSUME NEW m \in 1..(k + 1), NEW n \in 1..(k + 1), m < n,
                        b.made[m].id = b.made[n].id
                 PROVE  n = m + 1 /\ (b.made[m].event = b.made[n].event => ~dedupe)
      OBVIOUS
    <3>1. CASE n <= k
      <4>1. m \in 1..k /\ n \in 1..k
        BY <1>5, <3>1
      <4> QED BY <1>6, <2>1, <4>1
    <3>2. CASE n = k + 1
      <4>1. m \in 1..k /\ b.made[m] = made[m] /\ b.made[n] = a
        BY <1>5, <1>6, <3>2
      <4>2. m = k
        BY <1>5, <1>8, <4>1
      <4> QED BY <1>1, <1>8, <3>2, <4>1, <4>2
    <3> QED BY <1>5, <3>1, <3>2
  <2> QED BY <1>2, <1>3, <1>6, <2>2 DEF MadeApart
<1>12. MadeNoted(w)'
  <2>1. \A n \in 1..k : IF n = k THEN intake[w].pending = {made[n].id}
                                ELSE made[n].id \in intake[w].flushed
    BY <1>4, <1>7 DEF MadeNoted
  <2>2. \A n \in 1..k : made[n].id \in b.flushed
    BY <1>1, <2>1
  <2>3. \A id \in intake[w].flushed \cup intake[w].pending : \E n \in 1..k : made[n].id = id
    BY <1>4, <1>7 DEF MadeNoted
  <2>4. \A id \in b.flushed \cup b.pending : \E n \in 1..(k + 1) : b.made[n].id = id
    <3>1. \A id \in b.flushed : \E n \in 1..(k + 1) : b.made[n].id = id
      BY <1>1, <1>5, <1>6, <2>3
    <3>2. k + 1 \in 1..(k + 1)
      BY <1>5
    <3> QED BY <1>1, <1>6, <3>1, <3>2
  <2>5. \A n \in 1..(k + 1) : IF n = k + 1 THEN b.pending = {b.made[n].id}
                                        ELSE b.made[n].id \in b.flushed
    BY <1>1, <1>5, <1>6, <2>2
  <2> QED BY <1>2, <1>6, <2>4, <2>5 DEF MadeNoted
<1>13. SeenKept(w)'
  <2>1. ASSUME NEW f
        PROVE  /\ HasAlert(f)' = HasAlert(f)
               /\ Makes(w, f) \/ f = e => Makes(w, f)'
    <3>1. k + 1 \in 1..(k + 1) /\ \A n \in 1..k : n \in 1..(k + 1)
      BY <1>5
    <3> QED BY <1>1, <1>2, <1>3, <1>4, <1>6, <3>1 DEF HasAlert, Makes
  <2> QED BY <1>1, <1>2, <1>7, <2>1 DEF SeenKept
<1>14. Flushing(w)'
  BY <1>1, <1>2 DEF Flushing
<1> QED BY <1>9, <1>10, <1>11, <1>12, <1>13, <1>14 DEF BatchRow

-----------------------------------------------------------------------------
\* The commit of a batch.

LEMMA CommitAlerts ==
  ASSUME IntakeInv, NEW w \in Taker, CommitBatch(w)
  PROVE  /\ \A i \in 1..Len(alerts') : AlertRow(i)'
         /\ \A e \in Identified : Mark(e) \in noted' \/ e \in taken' => HasAlert(e)'
<1>1. PICK b \in Batch :
           /\ b = intake[w] /\ b.pc = "look" /\ b # NoBatch
           /\ alerts' \in Seq(Alert) /\ Len(alerts') = Len(alerts) + Len(b.made)
           /\ \A i \in 1..Len(alerts) : alerts'[i] = alerts[i]
           /\ \A i \in Len(alerts) + 1..Len(alerts') :
                 i - Len(alerts) \in 1..Len(b.made) /\ alerts'[i] = b.made[i - Len(alerts)]
           /\ \A n \in 1..Len(b.made) : alerts'[Len(alerts) + n] = b.made[n]
           /\ noted' = noted \cup b.flushed \cup b.pending
           /\ taken' = taken \cup b.seen
           /\ intake' = [intake EXCEPT ![w] = NoBatch]
           /\ UNCHANGED <<second, dedupe>>
  BY CommitForm DEF IntakeInv
<1>2. Len(alerts) \in Nat /\ Len(b.made) \in Nat /\ b.began \in Nat
  BY LenProperties DEF IntakeInv, IntakeType, Batch
<1>3. /\ BatchStart(w) /\ MadeNoted(w) /\ SeenKept(w)
      /\ \A n \in 1..Len(b.made) : MadeRow(w, n)
  BY <1>1 DEF IntakeInv, BatchRow
<1>4. ASSUME NEW i \in 1..Len(alerts')
      PROVE  AlertRow(i)'
  <2>1. CASE i \in 1..Len(alerts)
    <3>1. alerts'[i] = alerts[i] /\ AlertRow(i) /\ noted \subseteq noted'
      BY <1>1, <2>1 DEF IntakeInv
    <3> QED BY <3>1 DEF AlertRow
  <2>2. CASE i \in Len(alerts) + 1..Len(alerts')
    <3>1. PICK n \in 1..Len(b.made) : n = i - Len(alerts)
      BY <1>1, <2>2
    <3>2. alerts'[i] = b.made[n]
      BY <1>1, <2>2, <3>1
    <3>3. b.made[n].id \in noted'
      BY <1>1, <1>3 DEF MadeNoted
    <3>4. b.made[n].began < i
      <4>1. b.made[n].began = b.began
        BY <1>1, <1>3 DEF MadeRow
      <4>2. b.began <= Len(alerts)
        BY <1>1, <1>3 DEF BatchStart
      <4> QED BY <1>1, <1>2, <2>2, <4>1, <4>2
    <3>5. b.made[n].log = <<>> /\ ~b.made[n].acked
      BY <1>1, <1>3 DEF MadeRow
    <3> QED BY <3>2, <3>3, <3>4, <3>5 DEF AlertRow
  <2> QED BY <1>1, <1>2, <2>1, <2>2
<1>5. ASSUME NEW e \in Identified, HasAlert(e)
      PROVE  HasAlert(e)'
  BY <1>1, <1>2, <1>5 DEF HasAlert
<1>6. ASSUME NEW e, Makes(w, e)
      PROVE  HasAlert(e)'
  <2>1. PICK n \in 1..Len(b.made) : b.made[n].event = e
    BY <1>1, <1>6 DEF Makes
  <2>2. Len(alerts) + n \in 1..Len(alerts')
    BY <1>1, <1>2
  <2> QED BY <1>1, <2>1, <2>2 DEF HasAlert
<1>7. ASSUME NEW e \in Identified, Mark(e) \in b.flushed \cup b.pending
      PROVE  Makes(w, e)
  <2>1. PICK n \in 1..Len(b.made) : b.made[n].id = Mark(e)
    BY <1>1, <1>3, <1>7 DEF MadeNoted
  <2>2. b.made[n].event = e
    BY <1>1, <1>3, <2>1, MarkOfOne DEF MadeRow
  <2> QED BY <1>1, <2>2 DEF Makes
<1>8. ASSUME NEW e \in Identified, e \in b.seen
      PROVE  HasAlert(e) \/ Makes(w, e)
  BY <1>1, <1>3, <1>8 DEF SeenKept
<1>9. \A e \in Identified : Mark(e) \in noted \/ e \in taken => HasAlert(e)
  BY DEF IntakeInv
<1> QED BY <1>1, <1>4, <1>5, <1>6, <1>7, <1>8, <1>9

LEMMA CommitOnce ==
  ASSUME IntakeInv, NEW w \in Taker, CommitBatch(w)
  PROVE  TakenOnce'
<1>1. PICK b \in Batch :
           /\ b = intake[w] /\ b.pc = "look" /\ b # NoBatch
           /\ alerts' \in Seq(Alert) /\ Len(alerts') = Len(alerts) + Len(b.made)
           /\ \A i \in 1..Len(alerts) : alerts'[i] = alerts[i]
           /\ \A i \in Len(alerts) + 1..Len(alerts') :
                 i - Len(alerts) \in 1..Len(b.made) /\ alerts'[i] = b.made[i - Len(alerts)]
  BY CommitForm DEF IntakeInv
<1>2. /\ Len(alerts) \in Nat /\ Len(b.made) \in Nat /\ b.began \in Nat
      /\ \A i \in 1..Len(alerts) : alerts[i].began \in Nat
  <2>1. alerts \in Seq(Alert)
    BY DEF IntakeInv, IntakeType
  <2>2. \A i \in 1..Len(alerts) : alerts[i] \in Alert
    BY <2>1, ElementOfSeq
  <2> QED BY <1>1, <2>1, <2>2, LenProperties DEF Batch, Alert
<1>3. /\ BatchStart(w) /\ MadeApart(w)
      /\ \A n \in 1..Len(b.made) : MadeRow(w, n)
  BY <1>1 DEF IntakeInv, BatchRow
<1>4. DOMAIN alerts' = 1..Len(alerts') /\ DOMAIN alerts = 1..Len(alerts)
  BY <1>1, LenProperties DEF IntakeInv, IntakeType
<1> SUFFICES ASSUME NEW i \in 1..Len(alerts'), NEW j \in 1..Len(alerts'), i < j,
                    alerts'[i].id = alerts'[j].id
             PROVE  IF alerts'[i].by = alerts'[j].by /\ alerts'[i].began = alerts'[j].began
                    THEN /\ j = i + 1
                         /\ alerts'[j].event = alerts'[i].event => ~alerts'[j].checked
                    ELSE alerts'[j].began < i
  BY <1>4 DEF TakenOnce
<1>5. CASE j \in 1..Len(alerts)
  <2>1. i \in 1..Len(alerts)
    BY <1>1, <1>2, <1>5
  <2> QED BY <1>1, <1>4, <1>5, <2>1 DEF IntakeInv, TakenOnce
<1>6. CASE j \in Len(alerts) + 1..Len(alerts')
  <2>1. PICK n \in 1..Len(b.made) : n = j - Len(alerts) /\ alerts'[j] = b.made[n]
    BY <1>1, <1>6
  <2>2. CASE i \in 1..Len(alerts)
    <3>1. alerts'[i] = alerts[i]
      BY <1>1, <2>2
    <3>2. ~(i <= b.began)
      <4>1. alerts[i].id = b.made[n].id
        BY <2>1, <3>1
      <4>2. \A h \in 1..b.began, m \in 1..Len(b.made) : alerts[h].id # b.made[m].id
        BY <1>1, <1>3 DEF BatchStart
      <4> QED BY <1>2, <2>2, <4>1, <4>2
    <3>3. alerts[i].by # w
      BY <1>1, <1>3, <2>2, <3>2 DEF BatchStart
    <3>4. b.made[n].by = w /\ b.made[n].began = b.began
      BY <1>1, <1>3 DEF MadeRow
    <3> QED BY <1>2, <2>1, <3>1, <3>2, <3>3, <3>4
  <2>3. CASE i \in Len(alerts) + 1..Len(alerts')
    <3>1. PICK m \in 1..Len(b.made) : m = i - Len(alerts) /\ alerts'[i] = b.made[m]
      BY <1>1, <2>3
    <3>2. m < n
      BY <1>2, <2>1, <3>1
    <3>9. b.made[m].id = b.made[n].id
      BY <2>1, <3>1
    <3>3. n = m + 1 /\ (b.made[m].event = b.made[n].event => ~dedupe)
      BY <1>1, <1>3, <3>2, <3>9 DEF MadeApart
    <3>4. /\ b.made[m].by = w /\ b.made[m].began = b.began
          /\ b.made[n].by = w /\ b.made[n].began = b.began /\ b.made[n].checked = dedupe
      BY <1>1, <1>3 DEF MadeRow
    <3>5. j = i + 1
      BY <1>2, <2>1, <3>1, <3>3
    <3> QED BY <2>1, <3>1, <3>3, <3>4, <3>5
  <2> QED BY <1>1, <1>2, <2>2, <2>3
<1> QED BY <1>1, <1>2, <1>5, <1>6

-----------------------------------------------------------------------------
\* A step of the lifecycle touches the log and the acknowledgement only.
LEMMA LoggedRows ==
  ASSUME IntakeInv, NEW i \in 1..Len(alerts), NEW action \in Action, Logged(i, action)
  PROVE  /\ KeysKept /\ Len(alerts') = Len(alerts)
         /\ \A j \in 1..Len(alerts') : AlertRow(j)'
         /\ UNCHANGED <<second, dedupe, noted, intake, taken>>
<1>1. /\ alerts' \in Seq(Alert) /\ Len(alerts') = Len(alerts)
      /\ \A j \in 1..Len(alerts) : j # i => alerts'[j] = alerts[j]
      /\ alerts'[i].event = alerts[i].event /\ alerts'[i].id = alerts[i].id
      /\ alerts'[i].by = alerts[i].by /\ alerts'[i].began = alerts[i].began
      /\ alerts'[i].checked = alerts[i].checked
      /\ alerts'[i].log = Append(alerts[i].log, action)
      /\ alerts'[i].acked <=> alerts[i].acked \/ action = "acknowledged"
  BY LoggedForm DEF IntakeInv
<1>2. UNCHANGED <<second, dedupe, noted, intake, taken>>
  BY DEF Logged
<1>3. KeysKept
  BY <1>1, LenProperties DEF KeysKept, IntakeInv, IntakeType
<1>4. AlertRow(i)'
  <2>1. PICK log, k : log = alerts[i].log /\ k = Len(log)
    OBVIOUS
  <2>2. log \in Seq(Action) /\ k \in Nat
    <3>1. alerts[i] \in Alert
      BY AlertTyped DEF IntakeInv
    <3> QED BY <2>1, <3>1, LenProperties DEF Alert
  <2>3. /\ Len(Append(log, action)) = k + 1 /\ Append(log, action)[k + 1] = action
        /\ \A n \in 1..k : Append(log, action)[n] = log[n]
    BY <2>1, <2>2, AppendProperties
  <2>4. alerts[i].acked <=> \E n \in 1..k : log[n] = "acknowledged"
    BY <2>1 DEF IntakeInv, AlertRow
  <2>5. k + 1 \in 1..(k + 1) /\ \A n \in 1..(k + 1) : n \in 1..k \/ n = k + 1
    BY <2>2
  <2>6. (\E n \in 1..(k + 1) : Append(log, action)[n] = "acknowledged")
          <=> (\E n \in 1..k : log[n] = "acknowledged") \/ action = "acknowledged"
    BY <2>2, <2>3, <2>5
  <2>7. alerts'[i].acked <=> \E n \in 1..Len(alerts'[i].log) : alerts'[i].log[n] = "acknowledged"
    BY <1>1, <2>1, <2>3, <2>4, <2>6
  <2> QED BY <1>1, <1>2, <2>7 DEF IntakeInv, AlertRow
<1>5. ASSUME NEW j \in 1..Len(alerts), j # i
      PROVE  AlertRow(j)'
  BY <1>1, <1>2, <1>5 DEF IntakeInv, AlertRow
<1> QED BY <1>1, <1>2, <1>3, <1>4, <1>5

LEMMA SameAlertsOnce ==
  ASSUME IntakeInv, IntakeType', KeysKept, Len(alerts') = Len(alerts)
  PROVE  TakenOnce'
<1>1. DOMAIN alerts' = 1..Len(alerts) /\ DOMAIN alerts = 1..Len(alerts)
  BY LenProperties DEF IntakeInv, IntakeType
<1> QED BY <1>1 DEF IntakeInv, TakenOnce, KeysKept

LEMMA IntakeInvStep ==
  ASSUME IntakeInv, [IntakeNext]_intakeVars
  PROVE  IntakeInv'
<1>1. IntakeType /\ IntakeType'
  BY IntakeTypeStep DEF IntakeInv
<1>2. ASSUME NEW w \in Taker, BatchRow(w)',
             \A v \in Taker : v # w => intake'[v] = intake[v],
             UNCHANGED <<dedupe, alerts, noted, taken>>
      PROVE  IntakeInv'
  <2>1. KeysKept /\ \A i \in Len(alerts) + 1..Len(alerts') : FALSE
    BY <1>1, <1>2, LenProperties DEF KeysKept, IntakeType
  <2>2. \A v \in Taker : BatchRow(v)'
    BY <1>1, <1>2, <2>1, BatchFrame DEF IntakeInv
  <2>3. TakenOnce'
    BY <1>1, <1>2, <2>1, SameAlertsOnce
  <2> QED BY <1>1, <1>2, <2>2, <2>3 DEF IntakeInv, AlertRow, HasAlert
<1>3. ASSUME NEW w \in Taker, NEW batch \in Seq(Events), TakeBatch(w, batch)
      PROVE  IntakeInv'
  <2>1. PICK b : intake' = [intake EXCEPT ![w] = b]
    BY <1>3 DEF TakeBatch
  <2>2. UNCHANGED <<dedupe, alerts, noted, taken>>
    BY <1>3 DEF TakeBatch
  <2> QED BY <1>1, <1>2, <1>3, <2>1, <2>2, TakeRow, IntakeUpdate
<1>4. ASSUME NEW w \in Taker, NEW suppressed \in BOOLEAN, Look(w, suppressed)
      PROVE  IntakeInv'
  <2>1. PICK b : intake' = [intake EXCEPT ![w] = b]
    BY <1>1, <1>4, LookForm
  <2>2. UNCHANGED <<dedupe, alerts, noted, taken>>
    BY <1>4, Zenon DEF Look
  <2>3. BatchRow(w)'
    BY <1>4, LookRow DEF IntakeInv
  <2> QED BY <1>1, <1>2, <2>1, <2>2, <2>3, IntakeUpdate
<1>5. ASSUME NEW w \in Taker, Make(w)
      PROVE  IntakeInv'
  <2>1. PICK b : intake' = [intake EXCEPT ![w] = b]
    BY <1>1, <1>5, MakeForm
  <2>2. UNCHANGED <<dedupe, alerts, noted, taken>>
    BY <1>5, Zenon DEF Make
  <2>3. BatchRow(w)'
    BY <1>5, MakeRow DEF IntakeInv
  <2> QED BY <1>1, <1>2, <2>1, <2>2, <2>3, IntakeUpdate
<1>6. ASSUME NEW w \in Taker, BatchFails(w)
      PROVE  IntakeInv'
  <2>1. /\ intake'[w] = NoBatch
        /\ \A v \in Taker : v # w => intake'[v] = intake[v]
        /\ UNCHANGED <<dedupe, alerts, noted, taken>>
    BY <1>1, <1>6, IntakeUpdate DEF BatchFails
  <2> QED BY <1>2, <2>1 DEF BatchRow
<1>7. ASSUME NEW w \in Taker, CommitBatch(w)
      PROVE  IntakeInv'
  <2>1. PICK b \in Batch :
           /\ b = intake[w]
           /\ alerts' \in Seq(Alert) /\ Len(alerts') = Len(alerts) + Len(b.made)
           /\ \A i \in 1..Len(alerts) : alerts'[i] = alerts[i]
           /\ \A i \in Len(alerts) + 1..Len(alerts') :
                 i - Len(alerts) \in 1..Len(b.made) /\ alerts'[i] = b.made[i - Len(alerts)]
           /\ intake' = [intake EXCEPT ![w] = NoBatch] /\ dedupe' = dedupe /\ b # NoBatch
    BY <1>1, <1>7, CommitForm
  <2>2. KeysKept
    BY <1>1, <2>1, LenProperties DEF KeysKept, IntakeType, Batch
  <2>3. /\ intake'[w] = NoBatch
        /\ \A v \in Taker : v # w => intake'[v] = intake[v]
    BY <1>1, <2>1, IntakeUpdate
  <2>4. \A n \in 1..Len(b.made) : b.made[n].by = w
    BY <2>1 DEF IntakeInv, BatchRow, MadeRow
  <2>5. ASSUME NEW v \in Taker, v # w
        PROVE  BatchRow(v)'
    <3>1. \A i \in Len(alerts) + 1..Len(alerts') : alerts'[i].by # v
      BY <2>1, <2>4, <2>5
    <3> QED BY <1>1, <2>1, <2>2, <2>3, <2>5, <3>1, BatchFrame DEF IntakeInv
  <2>6. BatchRow(w)'
    BY <2>3 DEF BatchRow
  <2> QED BY <1>1, <1>7, <2>5, <2>6, CommitAlerts, CommitOnce DEF IntakeInv
<1>8. ASSUME NEW i \in 1..Len(alerts), NEW action \in Action, Logged(i, action)
      PROVE  IntakeInv'
  <2>1. /\ KeysKept /\ Len(alerts') = Len(alerts)
        /\ \A j \in 1..Len(alerts') : AlertRow(j)'
        /\ UNCHANGED <<second, dedupe, noted, intake, taken>>
    BY <1>8, LoggedRows
  <2>2. \A j \in Len(alerts) + 1..Len(alerts') : FALSE
    BY <1>1, <2>1, LenProperties DEF IntakeType
  <2>3. \A v \in Taker : BatchRow(v)'
    BY <1>1, <2>1, <2>2, BatchFrame DEF IntakeInv
  <2>4. \A e \in Identified : Mark(e) \in noted' \/ e \in taken' => HasAlert(e)'
    BY <1>1, <2>1, HasAlertKept DEF IntakeInv
  <2>5. TakenOnce'
    BY <1>1, <2>1, SameAlertsOnce
  <2> QED BY <1>1, <2>1, <2>3, <2>4, <2>5 DEF IntakeInv
<1>9. CASE UNCHANGED <<dedupe, alerts, noted, intake, taken>>
  <2>1. KeysKept /\ \A i \in Len(alerts) + 1..Len(alerts') : FALSE
    BY <1>1, <1>9, LenProperties DEF KeysKept, IntakeType
  <2>2. \A v \in Taker : BatchRow(v)'
    BY <1>1, <1>9, <2>1, BatchFrame DEF IntakeInv
  <2>3. TakenOnce'
    BY <1>1, <1>9, <2>1, SameAlertsOnce
  <2> QED BY <1>1, <1>9, <2>2, <2>3 DEF IntakeInv, AlertRow, HasAlert
<1> QED BY <1>1, <1>3, <1>4, <1>5, <1>6, <1>7, <1>8, <1>9, IntakeCases

LEMMA IntakeInvInit == IntakeInit => IntakeInv
<1> SUFFICES ASSUME IntakeInit
             PROVE  IntakeInv
  OBVIOUS
<1>1. alerts = <<>> /\ noted = {} /\ taken = {} /\ Len(alerts) = 0 /\ alerts \in Seq(Alert)
  BY DEF IntakeInit
<1>2. IntakeType
  BY <1>1 DEF IntakeInit, IntakeType, NoBatch
<1>3. \A w \in Taker : BatchRow(w)
  BY DEF IntakeInit, BatchRow
<1>4. TakenOnce
  BY <1>1 DEF TakenOnce
<1> QED BY <1>1, <1>2, <1>3, <1>4 DEF IntakeInv

\* The two counts differ by what the log says, whatever the log is.
LEMMA LogsExplainCounts == IntakeInv => CountsAgree
<1> SUFFICES ASSUME IntakeInv, NEW i \in DOMAIN alerts
             PROVE  LET last == LifecycleOf(alerts[i]) IN
                    /\ i \in Unacknowledged \ Open => last = "reactivated"
                    /\ i \in Open \ Unacknowledged => last = "dismissed"
                    /\ last = "acknowledged" => i \notin Open
                    /\ \A n \in DOMAIN alerts[i].log :
                         alerts[i].log[n] = "reactivated" /\ n = Len(alerts[i].log)
                           => i \in Unacknowledged
  BY DEF CountsAgree
<1>1. DOMAIN alerts = 1..Len(alerts)
  BY LenProperties DEF IntakeInv, IntakeType
<1>2. PICK a : a = alerts[i]
  OBVIOUS
<1>3. a \in Alert /\ a.log \in Seq(Action) /\ Len(a.log) \in Nat /\ a.acked \in BOOLEAN
  <2>1. a \in Alert
    BY <1>1, <1>2, AlertTyped DEF IntakeInv
  <2> QED BY <2>1, LenProperties DEF Alert
<1>4. a.acked <=> \E n \in 1..Len(a.log) : a.log[n] = "acknowledged"
  BY <1>1, <1>2 DEF IntakeInv, AlertRow
<1>5. a.log # <<>> => Len(a.log) \in 1..Len(a.log) /\ a.log[Len(a.log)] \in Action
  BY <1>3, ElementOfSeq
<1>6. a.log = <<>> => Len(a.log) = 0
  BY <1>3
<1>7. DOMAIN a.log = 1..Len(a.log)
  BY <1>3, LenProperties
<1>8. /\ i \in Open <=> ~a.acked
      /\ i \in Unacknowledged <=> LifecycleOf(a) \notin {"acknowledged", "dismissed"}
  BY <1>2 DEF Open, Unacknowledged
<1>9. a.log # <<>> => LifecycleOf(a) = a.log[Len(a.log)]
  BY DEF LifecycleOf
<1>10. a.log = <<>> => ~a.acked /\ LifecycleOf(a) = "active"
  BY <1>4, <1>6 DEF LifecycleOf
<1>11. CASE a.log = <<>>
  BY <1>2, <1>6, <1>7, <1>8, <1>10, <1>11
<1>12. CASE a.log # <<>>
  BY <1>2, <1>4, <1>5, <1>7, <1>8, <1>9, <1>12 DEF Action
<1> QED BY <1>11, <1>12

\* However many processes take batches of whatever size, whatever ids and seconds
\* the events have, wherever batches fail and whatever people do with the alerts
\* meanwhile: an event becomes a second alert only in overlapping batches or at
\* adjacent places of one, none is dropped, and the two counts of open alerts
\* differ by what the logs explain.
THEOREM EventsCountedHolds == IntakeSpec => []EventsCounted
<1>1. IntakeInit => IntakeInv
  BY IntakeInvInit
<1>2. IntakeInv /\ [IntakeNext]_intakeVars => IntakeInv'
  BY IntakeInvStep
<1>3. IntakeInv => EventsCounted
  <2>1. IntakeInv => NoneDropped
    <3> SUFFICES ASSUME IntakeInv, NEW e \in taken \cap Identified
                 PROVE  \E i \in DOMAIN alerts : alerts[i].event = e
      BY DEF NoneDropped
    <3>1. DOMAIN alerts = 1..Len(alerts)
      BY LenProperties DEF IntakeInv, IntakeType
    <3> QED BY <3>1 DEF IntakeInv, HasAlert
  <2>2. IntakeInv => TakenOnce
    BY DEF IntakeInv
  <2> QED BY <2>1, <2>2, LogsExplainCounts DEF EventsCounted
<1> QED BY <1>1, <1>2, <1>3, PTL DEF IntakeSpec

-----------------------------------------------------------------------------
(* Budget alerts: module AlertDelivery.                                    *)

(* Mute windows: hours on a clock face.                                    *)

LEMMA Remainder ==
  ASSUME NEW n \in Int, NEW H \in Nat \ {0}
  PROVE  n % H \in 0..(H - 1) /\ \E q \in Int : n = H * q + (n % H)
<1>1. n % H \in 0..(H - 1)
  OBVIOUS
<1>2. n = H * (n \div H) + (n % H)
  OBVIOUS
<1> n \div H \in Int
  OBVIOUS
<1>4. \E q \in Int : n = H * q + (n % H)
  <2> WITNESS n \div H \in Int
  <2> QED OBVIOUS
<1> QED BY <1>1, <1>4

LEMMA RemainderUnique ==
  ASSUME NEW n \in Int, NEW H \in Nat \ {0}, NEW q \in Int, NEW r \in Int,
         0 <= r, r < H, n = H * q + r
  PROVE  n % H = r
OBVIOUS

\* How far an hour is from the one that a window starts at.
LEMMA HoursSince ==
  ASSUME NEW n \in Int, NEW H \in Nat \ {0}, NEW f \in 0..(H - 1)
  PROVE  (n - f) % H = IF (n % H) >= f THEN (n % H) - f ELSE (n % H) - f + H
<1>1. PICK r : r = n % H
  OBVIOUS
<1>2. r \in 0..(H - 1) /\ \E q \in Int : n = H * q + r
  BY <1>1, Remainder
<1>3. PICK q \in Int : n = H * q + r
  BY <1>2
<1>4. CASE r >= f
  <2>1. n - f = H * q + (r - f)
    BY <1>2, <1>3
  <2>2. n - f \in Int /\ r - f \in Int /\ 0 <= r - f /\ r - f < H
    BY <1>2, <1>4
  <2>3. (n - f) % H = r - f
    BY <1>3, <2>1, <2>2, RemainderUnique
  <2> QED BY <1>1, <1>4, <2>3, Zenon
<1>5. CASE ~(r >= f)
  <2>1. n - f = H * (q - 1) + (r - f + H)
    <3>1. H * (q - 1) = H * q - H
      OBVIOUS
    <3>2. PICK p : p = H * q
      OBVIOUS
    <3>3. p \in Int
      BY <3>2
    <3> QED BY <1>2, <1>3, <3>1, <3>2, <3>3
  <2>2. /\ n - f \in Int /\ r - f + H \in Int /\ q - 1 \in Int
        /\ 0 <= r - f + H /\ r - f + H < H
    BY <1>2, <1>5
  <2>3. (n - f) % H = r - f + H
    BY <2>1, <2>2, RemainderUnique
  <2> QED BY <1>1, <1>5, <2>3, Zenon
<1> QED BY <1>4, <1>5

LEMMA MuteIsExact == ASSUME hour \in Nat PROVE MuteExact
<1> SUFFICES ASSUME NEW from \in Hours, NEW to \in Hours
             PROVE  Muted([mute |-> TRUE, from |-> from, to |-> to], hour)
                      <=> (hour - from) % HoursPerDay < (to - from) % HoursPerDay
  BY DEF MuteExact
<1>1. PICK H : H = HoursPerDay
  OBVIOUS
<1>2. H \in Nat \ {0} /\ from \in 0..(H - 1) /\ to \in 0..(H - 1)
  BY <1>1, DeliveryBounds DEF Hours
<1>3. PICK h : h = hour % H
  OBVIOUS
<1>4. h \in 0..(H - 1)
  BY <1>2, <1>3, Remainder
<1>0. hour \in Int /\ to \in Int
  BY <1>2
<1>5. (hour - from) % H = IF h >= from THEN h - from ELSE h - from + H
  BY Zenon, <1>0, <1>2, <1>3, HoursSince
<1>6. to % H = to
  BY <1>2
<1>7. (to - from) % H = IF to >= from THEN to - from ELSE to - from + H
  BY Zenon, <1>0, <1>2, <1>6, HoursSince
<1>8. Muted([mute |-> TRUE, from |-> from, to |-> to], hour) <=> InMuteWindow(from, to, h)
  BY <1>1, <1>3 DEF Muted
<1>9. PICK x, y : x = (hour - from) % H /\ y = (to - from) % H
  OBVIOUS
<1>10. InMuteWindow(from, to, h) <=> x < y
  BY <1>2, <1>4, <1>5, <1>7, <1>9 DEF InMuteWindow
<1> QED BY <1>1, <1>8, <1>9, <1>10

-----------------------------------------------------------------------------
(* The invariant.                                                          *)

Running ==
  [pc : {"send"}, msg : Message, left : SUBSET Channel, inactive : BOOLEAN,
   before : SUBSET Channel, read : Nat, seen : Nat, window : Nat]

Routes == [Severity -> [set : BOOLEAN, channels : SUBSET Channel, active : BOOLEAN]]

Recorded == [msg : Message, at : Nat, read : Nat, seen : Nat, window : Nat]

DeliveryType ==
  /\ hour \in Nat /\ ops.window \in Nat
  /\ route \in Routes
  /\ event \in Seq(Recorded)
  /\ eval \in [Scanner -> Running \cup {NoEval}]
  /\ off \in SUBSET Channel

\* What an evaluation has seen does not repeat its text within its window.
Unrepeated(e) ==
  /\ e.seen <= Len(event)
  /\ \A i \in 1..e.seen :
       e.window > 0 /\ event[i].msg = e.msg => event[i].at < e.read - e.window

\* No channel that is off is left to it, but for those it may still use.
Silent(e) == \A c \in e.left : c \notin off \/ c \in e.before \/ e.inactive

\* A channel that is off was taken out of every policy, or the policy is inactive.
TakenOut ==
  \A c \in off, s \in Severity : route[s].set /\ (route[s].active => c \notin route[s].channels)

DeliveryInv ==
  /\ DeliveryType
  /\ \A w \in Scanner : eval[w] # NoEval => Unrepeated(eval[w]) /\ Silent(eval[w])
  /\ TakenOut
  /\ RepeatsOverlap

LEMMA SeverityTyped == ASSUME NEW m PROVE SeverityOf(m) \in Severity
BY DEF SeverityOf, Severity

LEMMA DeliveryStarts == DeliveryInit => DeliveryInv
<1> SUFFICES ASSUME DeliveryInit PROVE DeliveryInv
  OBVIOUS
<1>1. event = <<>> /\ event \in Seq(Recorded) /\ Len(event) = 0
  BY DEF DeliveryInit
<1>2. DeliveryType
  BY <1>1 DEF DeliveryInit, DeliveryType, NoOps, NoRoute, Routes
<1>3. RepeatsOverlap
  BY <1>1 DEF RepeatsOverlap
<1> QED BY <1>2, <1>3 DEF DeliveryInit, DeliveryInv, TakenOut

LEMMA RouteStep ==
  ASSUME DeliveryInv, NEW s \in Severity, NEW channels \in SUBSET Channel,
         NEW active \in BOOLEAN, UpsertRoute(s, channels, active)
  PROVE  DeliveryInv'
<1>1. /\ route' = [route EXCEPT ![s] = [set |-> TRUE, channels |-> channels, active |-> active]]
      /\ off' = off \ channels /\ UNCHANGED <<hour, ops, event, eval>>
  BY DEF UpsertRoute
<1>2. DeliveryType'
  BY <1>1 DEF DeliveryInv, DeliveryType, Routes
<1>3. TakenOut'
  BY <1>1 DEF DeliveryInv, DeliveryType, Routes, TakenOut
<1>4. ASSUME NEW w \in Scanner, eval'[w] # NoEval
      PROVE  Unrepeated(eval[w])' /\ Silent(eval[w])'
  BY <1>1, <1>4 DEF DeliveryInv, Unrepeated, Silent
<1>5. RepeatsOverlap'
  BY <1>1 DEF DeliveryInv, RepeatsOverlap
<1> QED BY <1>2, <1>3, <1>4, <1>5 DEF DeliveryInv

LEMMA ToggleStep ==
  ASSUME DeliveryInv, NEW c \in Channel, NEW on \in BOOLEAN, Toggle(c, on)
  PROVE  DeliveryInv'
<1>1. /\ route' = [s \in Severity |-> Toggled(s, c, on)]
      /\ off' = IF on THEN off \ {c} ELSE off \cup {c}
      /\ eval' = Overtaken({c})
      /\ UNCHANGED <<hour, ops, event>>
  BY DEF Toggle
<1>2. /\ route' \in Routes
      /\ \A s \in Severity : /\ route'[s].set
                             /\ route[s].set => route'[s].active = route[s].active
                             /\ route'[s].channels = IF on THEN route[s].channels \cup {c}
                                                     ELSE route[s].channels \ {c}
  BY <1>1 DEF DeliveryInv, DeliveryType, Routes, Toggled
<1>3. ASSUME NEW w \in Scanner
      PROVE  \/ eval[w] = NoEval /\ eval'[w] = NoEval
             \/ /\ eval[w] # NoEval
                /\ eval[w] \in Running
                /\ eval'[w] = [eval[w] EXCEPT !.before = @ \cup ({c} \cap eval[w].left)]
  BY <1>1 DEF DeliveryInv, DeliveryType, Overtaken
<1>4. ASSUME NEW w \in Scanner, eval'[w] # NoEval
      PROVE  /\ eval[w] # NoEval /\ eval[w] \in Running /\ eval'[w] \in Running
             /\ eval'[w].left = eval[w].left
             /\ eval'[w].before = eval[w].before \cup ({c} \cap eval[w].left)
             /\ eval'[w].inactive = eval[w].inactive /\ eval'[w].seen = eval[w].seen
             /\ eval'[w].window = eval[w].window /\ eval'[w].msg = eval[w].msg
             /\ eval'[w].read = eval[w].read
  <2>1. PICK e, b : e = eval[w] /\ b = {c} \cap eval[w].left
    OBVIOUS
  <2>2. e # NoEval /\ e \in Running /\ eval'[w] = [e EXCEPT !.before = @ \cup b]
    BY <1>3, <1>4, <2>1
  <2>3. b \in SUBSET Channel
    BY <2>1
  <2> QED BY <2>1, <2>2, <2>3 DEF Running
<1>5. DeliveryType'
  <2>1. eval' \in [Scanner -> Running \cup {NoEval}]
    <3>1. \A w \in Scanner : eval'[w] \in Running \cup {NoEval}
      BY <1>4
    <3> QED BY <1>1, <3>1 DEF Overtaken
  <2> QED BY <1>1, <1>2, <2>1 DEF DeliveryInv, DeliveryType
<1>6. TakenOut'
  BY <1>1, <1>2 DEF DeliveryInv, TakenOut
<1>7. ASSUME NEW w \in Scanner, eval'[w] # NoEval
      PROVE  Unrepeated(eval[w])' /\ Silent(eval[w])'
  <2>1. Unrepeated(eval[w]) /\ Silent(eval[w])
    BY <1>4, <1>7 DEF DeliveryInv
  <2>2. Unrepeated(eval[w])'
    BY <1>1, <1>4, <1>7, <2>1 DEF Unrepeated
  <2>3. Silent(eval[w])'
    BY <1>1, <1>4, <1>7, <2>1 DEF Silent
  <2> QED BY <2>2, <2>3
<1>8. RepeatsOverlap'
  BY <1>1 DEF DeliveryInv, RepeatsOverlap
<1> QED BY <1>5, <1>6, <1>7, <1>8 DEF DeliveryInv

\* A step that changes at most the evaluation of w, and neither policies nor events.
LEMMA EvalStep ==
  ASSUME DeliveryInv, NEW w \in Scanner, NEW e \in Running \cup {NoEval},
         eval' = [eval EXCEPT ![w] = e], UNCHANGED <<hour, route, ops, event, off>>,
         e # NoEval => Unrepeated(e) /\ Silent(e)
  PROVE  DeliveryInv'
<1>1. DeliveryType'
  BY DEF DeliveryInv, DeliveryType
<1>2. TakenOut' /\ RepeatsOverlap'
  BY DEF DeliveryInv, TakenOut, RepeatsOverlap
<1>3. ASSUME NEW v \in Scanner, eval'[v] # NoEval
      PROVE  Unrepeated(eval[v])' /\ Silent(eval[v])'
  <2>1. PICK d : d = eval'[v]
    OBVIOUS
  <2>2. Unrepeated(d) /\ Silent(d)
    BY <1>3, <2>1 DEF DeliveryInv, DeliveryType
  <2> QED BY <2>1, <2>2 DEF Unrepeated, Silent
<1> QED BY <1>1, <1>2, <1>3 DEF DeliveryInv

LEMMA EvaluateStep ==
  ASSUME DeliveryInv, NEW w \in Scanner, NEW m \in Message, Evaluate(w, m)
  PROVE  DeliveryInv'
<1>1. PICK s : s = SeverityOf(m)
  OBVIOUS
<1>2. s \in Severity
  BY <1>1, SeverityTyped
<1>3. PICK e : e = [pc |-> "send", msg |-> m, left |-> ChannelsFor(s),
                    inactive |-> route[s].set /\ ~route[s].active, before |-> {},
                    read |-> hour, seen |-> Len(event),
                    window |-> IF ops.set THEN ops.window ELSE 0]
  OBVIOUS
<1>4. /\ Passes(m) /\ eval' = [eval EXCEPT ![w] = e]
      /\ UNCHANGED <<hour, route, ops, event, off>>
  BY <1>1, <1>3, Zenon DEF Evaluate
<1>5. /\ ops.window \in Nat /\ hour \in Nat /\ event \in Seq(Recorded) /\ Len(event) \in Nat
      /\ route[s].channels \in SUBSET Channel
  BY <1>2 DEF DeliveryInv, DeliveryType, Routes
<1>6. ChannelsFor(s) \in SUBSET Channel
  BY <1>5 DEF ChannelsFor
<1>7. e \in Running
  BY <1>3, <1>5, <1>6 DEF Running
<1>8. Unrepeated(e)
  <2> SUFFICES ASSUME NEW i \in 1..e.seen, e.window > 0, event[i].msg = e.msg
               PROVE  event[i].at < e.read - e.window
    BY <1>3, <1>5 DEF Unrepeated
  <2>1. ops.set /\ ops.window > 0 /\ e.window = ops.window /\ e.read = hour /\ e.msg = m
    BY <1>3
  <2>2. i \in DOMAIN event /\ event[i] \in Recorded
    BY <1>3, <1>5, ElementOfSeq
  <2>3. ~(event[i].at >= hour - ops.window)
    BY <1>4, <2>1, <2>2 DEF Passes, Repeated
  <2>4. event[i].at \in Nat
    BY <2>2 DEF Recorded
  <2> QED BY <1>5, <2>1, <2>3, <2>4
<1>9. Silent(e)
  <2> SUFFICES ASSUME NEW c \in e.left, c \in off
               PROVE  e.inactive
    BY DEF Silent
  <2>1. route[s].set /\ (route[s].active => c \notin route[s].channels)
    BY <1>2 DEF DeliveryInv, TakenOut
  <2>2. c \in ChannelsFor(s)
    BY <1>3
  <2>3. ~route[s].active
    BY <2>1, <2>2 DEF ChannelsFor
  <2> QED BY <1>3, <2>1, <2>3
<1> QED BY <1>4, <1>7, <1>8, <1>9, EvalStep

LEMMA SendStep ==
  ASSUME DeliveryInv, NEW w \in Scanner, NEW c \in Channel, Send(w, c)
  PROVE  DeliveryInv'
<1>1. /\ eval[w] # NoEval /\ eval' = [eval EXCEPT ![w].left = @ \ {c}]
      /\ UNCHANGED <<hour, route, ops, event, off>>
  BY DEF Send
<1>2. eval[w] \in Running /\ Unrepeated(eval[w]) /\ Silent(eval[w])
      /\ eval \in [Scanner -> Running \cup {NoEval}]
  BY <1>1 DEF DeliveryInv, DeliveryType
<1>3. PICK e : e = [eval[w] EXCEPT !.left = @ \ {c}]
  OBVIOUS
<1>4. eval' = [eval EXCEPT ![w] = e]
  BY <1>1, <1>2, <1>3
<1>5. /\ e \in Running /\ e.left = eval[w].left \ {c} /\ e.before = eval[w].before
      /\ e.inactive = eval[w].inactive /\ e.seen = eval[w].seen /\ e.window = eval[w].window
      /\ e.msg = eval[w].msg /\ e.read = eval[w].read
  BY <1>2, <1>3 DEF Running
<1>6. Unrepeated(e) /\ Silent(e)
  BY <1>2, <1>5 DEF Unrepeated, Silent
<1> QED BY <1>1, <1>4, <1>5, <1>6, EvalStep

LEMMA RecordStep ==
  ASSUME DeliveryInv, NEW w \in Scanner, Record(w)
  PROVE  DeliveryInv'
<1>1. PICK e : e = eval[w]
  OBVIOUS
<1>2. PICK r : r = [msg |-> e.msg, at |-> hour, read |-> e.read, seen |-> e.seen,
                    window |-> e.window]
  OBVIOUS
<1>3. /\ e # NoEval /\ event' = Append(event, r) /\ eval' = [eval EXCEPT ![w] = NoEval]
      /\ UNCHANGED <<hour, route, ops, off>>
  BY <1>1, <1>2, Zenon DEF Record
<1>4. /\ e \in Running /\ Unrepeated(e) /\ hour \in Nat /\ event \in Seq(Recorded)
      /\ Len(event) \in Nat
  BY <1>1, <1>3 DEF DeliveryInv, DeliveryType
<1>5. r \in Recorded
  BY <1>2, <1>4 DEF Recorded, Running
<1>6. /\ event' \in Seq(Recorded) /\ Len(event') = Len(event) + 1
      /\ event'[Len(event) + 1] = r /\ \A i \in 1..Len(event) : event'[i] = event[i]
  BY <1>3, <1>4, <1>5, AppendProperties
<1>7. DeliveryType'
  BY <1>3, <1>6 DEF DeliveryInv, DeliveryType
<1>8. TakenOut'
  BY <1>3 DEF DeliveryInv, TakenOut
<1>9. ASSUME NEW v \in Scanner, eval'[v] # NoEval
      PROVE  Unrepeated(eval[v])' /\ Silent(eval[v])'
  <2>1. PICK d : d = eval'[v]
    OBVIOUS
  <2>2. Unrepeated(d) /\ Silent(d) /\ d.seen \in Nat
    BY <1>3, <1>9, <2>1 DEF DeliveryInv, DeliveryType, Running
  <2>3. Unrepeated(d)'
    <3>1. d.seen \in Nat /\ d.seen <= Len(event) /\ Unrepeated(d)
      BY <2>2 DEF Unrepeated
    <3>2. d.seen <= Len(event')
      BY <1>4, <1>6, <3>1
    <3>3. \A i \in 1..d.seen : event'[i] = event[i]
      BY <1>4, <1>6, <3>1
    <3> QED BY <3>1, <3>2, <3>3 DEF Unrepeated
  <2>4. Silent(d)'
    BY <1>3, <2>2 DEF Silent
  <2> QED BY <2>1, <2>3, <2>4 DEF Unrepeated, Silent
<1>10. RepeatsOverlap'
  <2> SUFFICES ASSUME NEW i \in DOMAIN event', NEW j \in DOMAIN event',
                      i < j, event'[i].msg = event'[j].msg, event'[j].window > 0,
                      event'[i].at >= event'[j].read - event'[j].window
               PROVE  event'[j].seen < i
    BY DEF RepeatsOverlap
  <2>1. i \in 1..Len(event) /\ j \in 1..(Len(event) + 1) /\ event'[i] = event[i]
    BY <1>4, <1>6
  <2>2. CASE j \in 1..Len(event)
    BY <1>4, <1>6, <2>1, <2>2 DEF DeliveryInv, RepeatsOverlap
  <2>3. CASE j = Len(event) + 1
    <3>1. event'[j] = r
      BY <1>6, <2>3
    <3>2. event[i] \in Recorded
      BY <1>4, <2>1, ElementOfSeq
    <3>3. r.seen = e.seen /\ r.msg = e.msg /\ r.read = e.read /\ r.window = e.window
          /\ e.seen \in Nat /\ e.read \in Nat /\ e.window \in Nat
      BY <1>2, <1>4 DEF Running
    <3>4. event[i].at \in Nat
      BY <3>2 DEF Recorded
    <3>5. event[i].msg = e.msg /\ e.window > 0 /\ event[i].at >= e.read - e.window
      BY <2>1, <3>1, <3>3
    <3>6. i \notin 1..e.seen
      BY <1>4, <3>3, <3>4, <3>5 DEF Unrepeated
    <3> QED BY <1>4, <2>1, <3>1, <3>3, <3>6
  <2> QED BY <2>1, <2>2, <2>3
<1> QED BY <1>7, <1>8, <1>9, <1>10 DEF DeliveryInv

LEMMA OtherStep ==
  ASSUME DeliveryInv,
         (\E policy \in Policies : UpsertOps(policy)) \/ HourPasses \/ UNCHANGED deliveryVars
  PROVE  DeliveryInv'
<1>1. UNCHANGED <<route, event, eval, off>> /\ hour' \in Nat /\ ops'.window \in Nat
  <2>1. ASSUME NEW policy \in Policies, UpsertOps(policy)
        PROVE  UNCHANGED <<route, event, eval, off>> /\ hour' \in Nat /\ ops'.window \in Nat
    BY <2>1, DeliveryBounds DEF UpsertOps, DeliveryInv, DeliveryType
  <2> QED BY <2>1 DEF HourPasses, deliveryVars, DeliveryInv, DeliveryType
<1> QED BY <1>1 DEF DeliveryInv, DeliveryType, TakenOut, RepeatsOverlap, Unrepeated, Silent

LEMMA DeliveryStep == DeliveryInv /\ [DeliveryNext]_deliveryVars => DeliveryInv'
<1> SUFFICES ASSUME DeliveryInv, [DeliveryNext]_deliveryVars PROVE DeliveryInv'
  OBVIOUS
<1>1. ASSUME NEW s \in {SeverityOf(m) : m \in Message}, NEW c \in SUBSET Channel,
             NEW active \in BOOLEAN, UpsertRoute(s, c, active)
      PROVE  DeliveryInv'
  BY <1>1, RouteStep, SeverityTyped
<1>2. ASSUME NEW c \in Channel, NEW on \in BOOLEAN, Toggle(c, on) PROVE DeliveryInv'
  BY <1>2, ToggleStep
<1>3. ASSUME NEW w \in Scanner, NEW m \in Message, Evaluate(w, m) PROVE DeliveryInv'
  BY <1>3, EvaluateStep
<1>4. ASSUME NEW w \in Scanner, NEW c \in Channel, Send(w, c) PROVE DeliveryInv'
  BY <1>4, SendStep
<1>5. ASSUME NEW w \in Scanner, Record(w) PROVE DeliveryInv'
  BY <1>5, RecordStep
<1>6. ASSUME NEW w \in Scanner, EvaluationLost(w) PROVE DeliveryInv'
  BY <1>6, EvalStep DEF EvaluationLost
<1> QED BY <1>1, <1>2, <1>3, <1>4, <1>5, <1>6, OtherStep DEF DeliveryNext

LEMMA SendIsSilent ==
  ASSUME DeliveryInv
  PROVE  \A w \in Scanner, c \in Channel :
           Send(w, c) => c \notin off \/ c \in eval[w].before \/ eval[w].inactive
BY DEF DeliveryInv, Send, Silent

\* However policies, toggles and the evaluations of several scans come between each
\* other: mute windows silence their hours, a text repeats within its window only where
\* evaluations overlap, and a channel that is off is silent.
THEOREM AlertsDeliveredHolds == DeliverySpec => AlertsDelivered
<1>1. DeliveryInv => MuteExact /\ RepeatsOverlap
  BY MuteIsExact DEF DeliveryInv, DeliveryType
<1> QED
  BY <1>1, DeliveryStarts, DeliveryStep, SendIsSilent, PTL
     DEF DeliverySpec, AlertsDelivered, OffIsSilent

-----------------------------------------------------------------------------
(* The ledger of savings: module SavingsLedger.                            *)

Field == {"planned", "monthly", "annual", "variance", "status", "seen"}

\* A row of recommendation i whose variance is that of its savings.
RowOf(i, row) ==
    /\ row = [f \in Field |-> row[f]]
    /\ row.planned = Planned[i] /\ row.monthly \in Nat /\ row.annual \in Nat
    /\ row.variance = row.monthly - Planned[i]

RowOrNone(i, row) == row = NoRow \/ RowOf(i, row)

\* What a handler has loaded were rows of the ledger, and rows stay.
DeskOK(d) ==
    /\ desk[d].op = "scan" =>
         \A i \in Item \cap ToSet(desk[d].batch) :
            desk[d].loaded[i] = NoRow \/ (RowOf(i, desk[d].loaded[i]) /\ RowOf(i, ledger[i]))
    /\ desk[d].op = "patch" =>
         /\ desk[d].item \in Item /\ desk[d].update \in Updates
         /\ RowOf(desk[d].item, desk[d].loaded[desk[d].item])
         /\ RowOf(desk[d].item, ledger[desk[d].item])

LedgerInv ==
    /\ ledger = [i \in Item |-> ledger[i]]
    /\ desk = [d \in Desk |-> desk[d]]
    /\ \A i \in Item : RowOrNone(i, ledger[i])
    /\ \A d \in Desk : DeskOK(d)

LEMMA NoRowAlone == ASSUME NEW i, NEW row, RowOf(i, row) PROVE row # NoRow
<1>1. DOMAIN row = Field
  BY DEF RowOf
<1>2. DOMAIN NoRow = {"status"}
  BY DEF NoRow
<1> QED BY <1>1, <1>2 DEF Field

\* A commit of a row whose monthly saving and variance fit each other.
LEMMA MergedRow ==
    ASSUME NEW i \in Item, NEW row, NEW old, NEW new,
           RowOf(i, row), RowOf(i, old), RowOf(i, new)
    PROVE  /\ RowOf(i, Merged(row, old, new))
           /\ \A f \in Field : Merged(row, old, new)[f] = IF new[f] # old[f] THEN new[f] ELSE row[f]
<1>1. DOMAIN new = Field
  BY DEF RowOf
<1>2. Merged(row, old, new) = [f \in Field |-> IF new[f] # old[f] THEN new[f] ELSE row[f]]
  BY <1>1 DEF Merged
<1>3. Planned[i] \in Nat
  BY LedgerBounds
<1>4. "planned" \in Field /\ "monthly" \in Field /\ "annual" \in Field /\ "variance" \in Field
  BY DEF Field
<1> QED BY <1>2, <1>3, <1>4 DEF RowOf

-----------------------------------------------------------------------------
\* What the steps change, for any recommendation and any process.

LEMMA InsertedRow == ASSUME NEW i \in Item PROVE RowOf(i, Inserted(i))
<1>1. Planned[i] \in Nat
  BY LedgerBounds
<1> QED BY <1>1 DEF RowOf, Inserted, Field, Variance

\* A renewal changes the annual saving only where it stood at zero.
LEMMA RenewedRow ==
    ASSUME NEW i \in Item, NEW row, NEW times, RowOf(i, row)
    PROVE  /\ RowOf(i, Renewed(i, row, times))
           /\ Renewed(i, row, times).monthly = row.monthly
           /\ Renewed(i, row, times).status = row.status
           /\ Renewed(i, row, times).annual # row.annual => row.annual = 0 /\ row.monthly > 0
<1> DEFINE new == Renewed(i, row, times)
<1>1. Planned[i] \in Nat
  BY LedgerBounds
<1>2. DOMAIN row = Field
  BY DEF RowOf
<1>3. /\ new = [f \in Field |-> new[f]]
      /\ new.planned = row.planned /\ new.monthly = row.monthly /\ new.status = row.status
      /\ new.annual = IF row.annual # 0 THEN row.annual ELSE 12 * row.monthly
      /\ new.variance = row.monthly - Planned[i]
  BY <1>2 DEF Renewed, Field, Variance
<1>4. row.planned = Planned[i] /\ row.monthly \in Nat /\ row.annual \in Nat
  BY DEF RowOf
<1> HIDE DEF new
<1>5. RowOf(i, new)
  BY <1>3, <1>4 DEF RowOf
<1>6. new.annual # row.annual => row.annual = 0 /\ row.monthly > 0
  BY <1>3, <1>4
<1> QED BY <1>3, <1>5, <1>6 DEF new

LEMMA UpdateNumbers ==
    ASSUME NEW u \in Updates
    PROVE  /\ u.monthly \in Nat \cup {Absent}
           /\ u.annual = Absent \/ \E r \in Nat : u.annual = 12 * r
BY LedgerBounds DEF Updates

\* The row that finance asks for, and what its report becomes.
Reported(i, u, old) ==
    [old EXCEPT !.monthly = MonthlyOf(u, old), !.annual = AnnualOf(u, old),
                !.variance = Variance(i, MonthlyOf(u, old)), !.status = u.status]

LEMMA ReportedRow ==
    ASSUME NEW i \in Item, NEW u \in Updates, NEW old, RowOf(i, old)
    PROVE  /\ RowOf(i, Reported(i, u, old))
           /\ Reported(i, u, old).monthly = MonthlyOf(u, old)
           /\ u.monthly # Absent => MonthlyOf(u, old) = u.monthly
           /\ u.monthly = Absent /\ u.annual # Absent => 12 * MonthlyOf(u, old) = u.annual
<1> DEFINE new == Reported(i, u, old)
<1>1. Planned[i] \in Nat
  BY LedgerBounds
<1>2. DOMAIN old = Field
  BY DEF RowOf
<1>3. old.planned = Planned[i] /\ old.monthly \in Nat /\ old.annual \in Nat
  BY DEF RowOf
<1>4. /\ u.monthly # Absent => MonthlyOf(u, old) = u.monthly /\ u.monthly \in Nat
      /\ u.monthly = Absent /\ u.annual # Absent => 12 * MonthlyOf(u, old) = u.annual
      /\ MonthlyOf(u, old) \in Nat
  BY <1>3, UpdateNumbers DEF MonthlyOf, Absent
<1>5. AnnualOf(u, old) \in Nat
  BY <1>3, UpdateNumbers DEF AnnualOf, Absent
<1>6. /\ new = [f \in Field |-> new[f]]
      /\ new.planned = old.planned /\ new.monthly = MonthlyOf(u, old)
      /\ new.annual = AnnualOf(u, old)
      /\ new.variance = MonthlyOf(u, old) - Planned[i]
  BY <1>2 DEF Reported, Field, Variance
<1> HIDE DEF new
<1>7. RowOf(i, new)
  BY <1>3, <1>4, <1>5, <1>6 DEF RowOf
<1> QED BY <1>4, <1>6, <1>7 DEF new

-----------------------------------------------------------------------------
\* A scan of process d commits.

\* A recommendation of the batch that the scan had seen is renewed, one that it
\* had not seen is inserted, and no other row is touched.
LEMMA ScanRow ==
    ASSUME LedgerInv, NEW d \in Desk, ScanWrite(d), NEW i \in Item
    PROVE  \/ ledger'[i] = ledger[i]
           \/ ledger[i] = NoRow /\ ledger'[i] = Inserted(i)
           \/ /\ ledger[i] # NoRow
              /\ RowOf(i, ledger[i]) /\ RowOf(i, desk[d].loaded[i])
              /\ \E times : ledger'[i] = Merged(ledger[i], desk[d].loaded[i],
                                                Renewed(i, desk[d].loaded[i], times))
<1>1. desk[d].op = "scan" /\ DeskOK(d) /\ RowOrNone(i, ledger[i])
  BY DEF ScanWrite, LedgerInv
<1> DEFINE scanned == desk[d].batch
           old == desk[d].loaded[i]
           times == Len(SelectSeq(scanned, LAMBDA j : j = i))
<1>2. ledger'[i] = IF i \notin ToSet(scanned) THEN ledger[i]
                   ELSE IF old = NoRow THEN Inserted(i)
                   ELSE Merged(ledger[i], old, Renewed(i, old, times))
  BY DEF ScanWrite
<1>3. i \in ToSet(scanned) /\ old = NoRow => ledger[i] = NoRow
  BY DEF ScanWrite
<1>4. i \in ToSet(scanned) => old = NoRow \/ (RowOf(i, old) /\ RowOf(i, ledger[i]))
  BY <1>1 DEF DeskOK
<1>5. CASE i \notin ToSet(scanned)
  BY <1>2, <1>5
<1>6. CASE i \in ToSet(scanned) /\ old = NoRow
  BY <1>2, <1>3, <1>6
<1>7. CASE i \in ToSet(scanned) /\ old # NoRow
  <2> HIDE DEF times
  <2>1. RowOf(i, old) /\ RowOf(i, ledger[i])
    BY <1>4, <1>7
  <2>2. ledger'[i] = Merged(ledger[i], old, Renewed(i, old, times))
    BY <1>2, <1>7
  <2> QED BY <2>1, <2>2, NoRowAlone
<1> QED BY <1>5, <1>6, <1>7

\* Rows stay rows, and are renewed with what finance had set.
LEMMA ScanKeepsRows ==
    ASSUME LedgerInv, NEW d \in Desk, ScanWrite(d), NEW i \in Item
    PROVE  /\ RowOrNone(i, ledger'[i])
           /\ RowOf(i, ledger[i]) => RowOf(i, ledger'[i])
           /\ ledger[i] # NoRow =>
                /\ ledger'[i].monthly = ledger[i].monthly
                /\ ledger'[i].status = ledger[i].status
                /\ ledger'[i].annual # ledger[i].annual =>
                     desk[d].loaded[i].annual = 0 /\ desk[d].loaded[i].monthly > 0
<1>1. RowOrNone(i, ledger[i]) /\ RowOf(i, Inserted(i))
  BY InsertedRow DEF LedgerInv
<1>2. CASE ledger'[i] = ledger[i]
  BY <1>1, <1>2
<1>3. CASE ledger[i] = NoRow /\ ledger'[i] = Inserted(i)
  BY <1>1, <1>3, NoRowAlone DEF RowOrNone
<1>4. ASSUME RowOf(i, ledger[i]), RowOf(i, desk[d].loaded[i]),
             NEW times, ledger'[i] = Merged(ledger[i], desk[d].loaded[i],
                                            Renewed(i, desk[d].loaded[i], times))
      PROVE  /\ RowOf(i, ledger'[i])
             /\ ledger'[i].monthly = ledger[i].monthly
             /\ ledger'[i].status = ledger[i].status
             /\ ledger'[i].annual # ledger[i].annual =>
                  desk[d].loaded[i].annual = 0 /\ desk[d].loaded[i].monthly > 0
  <2> DEFINE old == desk[d].loaded[i]
             new == Renewed(i, old, times)
  <2>1. /\ RowOf(i, new) /\ new.monthly = old.monthly /\ new.status = old.status
        /\ new.annual # old.annual => old.annual = 0 /\ old.monthly > 0
    BY <1>4, RenewedRow
  <2> HIDE DEF new, old
  <2>2. RowOf(i, old) /\ ledger'[i] = Merged(ledger[i], old, new)
    BY <1>4 DEF new, old
  <2>3. /\ RowOf(i, Merged(ledger[i], old, new))
        /\ \A f \in Field : Merged(ledger[i], old, new)[f]
                              = IF new[f] # old[f] THEN new[f] ELSE ledger[i][f]
    BY <1>4, <2>1, <2>2, MergedRow
  <2>4. "monthly" \in Field /\ "status" \in Field /\ "annual" \in Field
    BY DEF Field
  <2> QED BY <2>1, <2>2, <2>3, <2>4 DEF old
<1> QED BY <1>1, <1>2, <1>3, <1>4, ScanRow DEF RowOrNone

-----------------------------------------------------------------------------
\* An update of finance commits.
LEMMA PatchRows ==
    ASSUME LedgerInv, NEW d \in Desk, PatchWrite(d)
    PROVE  LET i == desk[d].item
               u == desk[d].update
               old == desk[d].loaded[i]
           IN /\ i \in Item /\ u \in Updates /\ RowOf(i, old) /\ RowOf(i, ledger[i])
              /\ ledger' = [ledger EXCEPT ![i] = Merged(ledger[i], old, Reported(i, u, old))]
              /\ RowOf(i, Merged(ledger[i], old, Reported(i, u, old)))
              /\ ledger'[i] = Merged(ledger[i], old, Reported(i, u, old))
<1> DEFINE i == desk[d].item
           u == desk[d].update
           old == desk[d].loaded[i]
<1>1. desk[d].op = "patch" /\ DeskOK(d)
  BY DEF PatchWrite, LedgerInv
<1>2. i \in Item /\ u \in Updates /\ RowOf(i, old) /\ RowOf(i, ledger[i])
  BY <1>1 DEF DeskOK
<1>3. ledger' = [ledger EXCEPT ![i] = Merged(ledger[i], old, Reported(i, u, old))]
  BY DEF PatchWrite, Reported
<1>4. RowOf(i, Reported(i, u, old))
  BY <1>2, ReportedRow
<1>5. RowOf(i, Merged(ledger[i], old, Reported(i, u, old)))
  BY <1>2, <1>4, MergedRow
<1>6. DOMAIN ledger = Item
  BY DEF LedgerInv
<1>7. ledger'[i] = Merged(ledger[i], old, Reported(i, u, old))
  BY <1>2, <1>3, <1>6
<1> QED BY <1>2, <1>3, <1>5, <1>7

LEMMA PatchTakesEffect ==
    ASSUME LedgerInv, NEW d \in Desk, PatchWrite(d)
    PROVE  LET i == desk[d].item
               u == desk[d].update
               settled == ledger[i].monthly = desk[d].loaded[i].monthly
           IN /\ settled /\ u.monthly # Absent => ledger'[i].monthly = u.monthly
              /\ settled /\ u.monthly = Absent /\ u.annual # Absent =>
                   12 * ledger'[i].monthly = u.annual
<1> DEFINE i == desk[d].item
           u == desk[d].update
           old == desk[d].loaded[i]
           new == Reported(i, u, old)
<1>1. /\ i \in Item /\ u \in Updates /\ RowOf(i, old) /\ RowOf(i, ledger[i])
      /\ ledger'[i] = Merged(ledger[i], old, new)
  BY PatchRows
<1>2. /\ RowOf(i, new)
      /\ new.monthly = MonthlyOf(u, old)
      /\ u.monthly # Absent => MonthlyOf(u, old) = u.monthly
      /\ u.monthly = Absent /\ u.annual # Absent => 12 * MonthlyOf(u, old) = u.annual
  BY <1>1, ReportedRow
<1> HIDE DEF new, old, u, i
<1>3. ledger'[i].monthly = IF new.monthly # old.monthly THEN new.monthly ELSE ledger[i].monthly
  <2>1. "monthly" \in Field
    BY DEF Field
  <2> QED BY <1>1, <1>2, <2>1, MergedRow
<1>4. /\ ledger[i].monthly = old.monthly /\ u.monthly # Absent => ledger'[i].monthly = u.monthly
      /\ ledger[i].monthly = old.monthly /\ u.monthly = Absent /\ u.annual # Absent =>
           12 * ledger'[i].monthly = u.annual
  BY <1>2, <1>3
<1> QED BY <1>4 DEF old, u, i

-----------------------------------------------------------------------------
LEMMA LedgerStarts == ASSUME LedgerInit PROVE LedgerInv
<1>1. \A i \in Item : ledger[i] = NoRow
  BY DEF LedgerInit
<1>2. \A d \in Desk : DeskOK(d)
  BY DEF LedgerInit, DeskOK, NoDesk
<1> QED BY <1>1, <1>2 DEF LedgerInit, LedgerInv, RowOrNone

\* A handler that is not the one that moves keeps what it has loaded.
LEMMA DeskStays ==
    ASSUME NEW e \in Desk, DeskOK(e), desk'[e] = desk[e],
           \A i \in Item : RowOf(i, ledger[i]) => RowOf(i, ledger'[i])
    PROVE  DeskOK(e)'
BY DEF DeskOK

LEMMA IdleDesk == ASSUME NEW e \in Desk, desk'[e] = NoDesk PROVE DeskOK(e)'
BY DEF DeskOK, NoDesk

LEMMA ScanReadStep ==
    ASSUME LedgerInv, NEW d \in Desk, NEW batch, ScanRead(d, batch) PROVE LedgerInv'
<1>1. ledger' = ledger /\ desk = [e \in Desk |-> desk[e]]
  BY DEF ScanRead, LedgerInv
<1>2. desk' = [desk EXCEPT ![d] = [op |-> "scan", batch |-> batch,
                                   loaded |-> Restrict(ledger, ToSet(batch))]]
  BY DEF ScanRead
<1>3. \A e \in Desk \ {d} : desk'[e] = desk[e]
  BY <1>2
<1>4. \A e \in Desk \ {d} : DeskOK(e)'
  BY <1>1, <1>3, DeskStays DEF LedgerInv
<1>5. DeskOK(d)'
  <2>1. /\ desk'[d].op = "scan" /\ desk'[d].batch = batch
        /\ \A i \in ToSet(batch) : desk'[d].loaded[i] = ledger[i]
    BY <1>1, <1>2 DEF Restrict
  <2>2. \A i \in Item : ledger[i] = NoRow \/ RowOf(i, ledger[i])
    BY DEF LedgerInv, RowOrNone
  <2> QED BY <1>1, <2>1, <2>2 DEF DeskOK
<1>6. desk' = [e \in Desk |-> desk'[e]]
  BY <1>1, <1>2
<1> QED BY <1>1, <1>4, <1>5, <1>6 DEF LedgerInv

LEMMA PatchReadStep ==
    ASSUME LedgerInv, NEW d \in Desk, NEW i \in Item, NEW u \in Updates, PatchRead(d, i, u)
    PROVE  LedgerInv'
<1>1. ledger' = ledger /\ desk = [e \in Desk |-> desk[e]]
  BY DEF PatchRead, LedgerInv
<1>2. desk' = [desk EXCEPT ![d] = [op |-> "patch", item |-> i, update |-> u,
                                   loaded |-> Restrict(ledger, {i})]]
  BY DEF PatchRead
<1>3. \A e \in Desk \ {d} : desk'[e] = desk[e]
  BY <1>2
<1>4. \A e \in Desk \ {d} : DeskOK(e)'
  BY <1>1, <1>3, DeskStays DEF LedgerInv
<1>5. DeskOK(d)'
  <2>1. /\ desk'[d].op = "patch" /\ desk'[d].item = i /\ desk'[d].update = u
        /\ desk'[d].loaded[i] = ledger[i]
    BY <1>1, <1>2 DEF Restrict
  <2>2. RowOf(i, ledger[i])
    BY DEF LedgerInv, RowOrNone, PatchRead
  <2> QED BY <1>1, <2>1, <2>2 DEF DeskOK
<1>6. desk' = [e \in Desk |-> desk'[e]]
  BY <1>1, <1>2
<1> QED BY <1>1, <1>4, <1>5, <1>6 DEF LedgerInv

\* A handler ends, whatever it has done to the rows.
LEMMA EndStep ==
    ASSUME LedgerInv, NEW d \in Desk, desk' = [desk EXCEPT ![d] = NoDesk],
           ledger' = [i \in Item |-> ledger'[i]],
           \A i \in Item : RowOrNone(i, ledger'[i]),
           \A i \in Item : RowOf(i, ledger[i]) => RowOf(i, ledger'[i])
    PROVE  LedgerInv'
<1>1. desk = [e \in Desk |-> desk[e]]
  BY DEF LedgerInv
<1>2. desk' = [e \in Desk |-> desk'[e]] /\ desk'[d] = NoDesk
      /\ \A e \in Desk \ {d} : desk'[e] = desk[e]
  BY <1>1
<1>3. \A e \in Desk \ {d} : DeskOK(e)'
  BY <1>2, DeskStays DEF LedgerInv
<1>4. DeskOK(d)'
  BY <1>2, IdleDesk
<1> QED BY <1>2, <1>3, <1>4 DEF LedgerInv

LEMMA ScanWriteStep == ASSUME LedgerInv, NEW d \in Desk, ScanWrite(d) PROVE LedgerInv'
<1>1. ledger' = [i \in Item |-> ledger'[i]]
  BY DEF ScanWrite
<1>2. desk' = [desk EXCEPT ![d] = NoDesk]
  BY DEF ScanWrite
<1>3. \A i \in Item : RowOrNone(i, ledger'[i]) /\ (RowOf(i, ledger[i]) => RowOf(i, ledger'[i]))
  BY ScanKeepsRows
<1> QED BY <1>1, <1>2, <1>3, EndStep

LEMMA PatchWriteStep == ASSUME LedgerInv, NEW d \in Desk, PatchWrite(d) PROVE LedgerInv'
<1> DEFINE i == desk[d].item
           row == Merged(ledger[i], desk[d].loaded[i], Reported(i, desk[d].update, desk[d].loaded[i]))
<1>1. i \in Item /\ RowOf(i, row) /\ ledger' = [ledger EXCEPT ![i] = row]
  BY PatchRows
<1>2. desk' = [desk EXCEPT ![d] = NoDesk]
  BY DEF PatchWrite
<1>3. ledger = [j \in Item |-> ledger[j]] /\ \A j \in Item : RowOrNone(j, ledger[j])
  BY DEF LedgerInv
<1> HIDE DEF i, row
<1>4. ledger' = [j \in Item |-> ledger'[j]] /\ ledger'[i] = row
      /\ \A j \in Item \ {i} : ledger'[j] = ledger[j]
  BY <1>1, <1>3
<1>5. \A j \in Item : RowOrNone(j, ledger'[j]) /\ (RowOf(j, ledger[j]) => RowOf(j, ledger'[j]))
  BY <1>1, <1>3, <1>4 DEF RowOrNone
<1> QED BY <1>2, <1>4, <1>5, EndStep

LEMMA DeskFailsStep == ASSUME LedgerInv, NEW d \in Desk, DeskFails(d) PROVE LedgerInv'
<1>1. ledger' = ledger /\ desk' = [desk EXCEPT ![d] = NoDesk]
  BY DEF DeskFails
<1>2. ledger = [i \in Item |-> ledger[i]] /\ \A i \in Item : RowOrNone(i, ledger[i])
  BY DEF LedgerInv
<1> QED BY <1>1, <1>2, EndStep

LEMMA LedgerStep == ASSUME LedgerInv, [LedgerNext]_ledgerVars PROVE LedgerInv'
<1>1. CASE UNCHANGED ledgerVars
  BY <1>1 DEF ledgerVars, LedgerInv, DeskOK
<1>2. CASE LedgerNext
  BY <1>2, ScanReadStep, PatchReadStep, ScanWriteStep, PatchWriteStep, DeskFailsStep
     DEF LedgerNext
<1> QED BY <1>1, <1>2

-----------------------------------------------------------------------------
LEMMA VarianceFits == ASSUME LedgerInv PROVE VarianceKept
<1> SUFFICES ASSUME NEW i \in Item, ledger[i] # NoRow
             PROVE  ledger[i].variance = ledger[i].monthly - ledger[i].planned
  BY DEF VarianceKept
<1>1. RowOf(i, ledger[i])
  BY DEF LedgerInv, RowOrNone
<1> QED BY <1>1 DEF RowOf

\* The variance of every row is that of its own savings: handlers compute it
\* from what they had loaded, and write it exactly where they write the savings.
\* Scans keep what finance reports, and reports take effect.
THEOREM FinanceKeptHolds == LedgerSpec => FinanceKept
<1>1. LedgerInit => LedgerInv
  BY LedgerStarts
<1>2. LedgerInv /\ [LedgerNext]_ledgerVars => LedgerInv'
  BY LedgerStep
<1>3. LedgerInv => VarianceKept
  BY VarianceFits
<1>4. LedgerInv => \A d \in Desk, i \in Item :
               ScanWrite(d) /\ ledger[i] # NoRow =>
                 /\ ledger'[i].monthly = ledger[i].monthly /\ ledger'[i].status = ledger[i].status
                 /\ ledger'[i].annual # ledger[i].annual =>
                      desk[d].loaded[i].annual = 0 /\ desk[d].loaded[i].monthly > 0
  BY ScanKeepsRows
<1>5. LedgerInv => \A d \in Desk :
               PatchWrite(d) =>
                 LET i == desk[d].item
                     u == desk[d].update
                     settled == ledger[i].monthly = desk[d].loaded[i].monthly
                 IN /\ settled /\ u.monthly # Absent => ledger'[i].monthly = u.monthly
                    /\ settled /\ u.monthly = Absent /\ u.annual # Absent =>
                         12 * ledger'[i].monthly = u.annual
  BY PatchTakesEffect
<1>6. LedgerSpec => []LedgerInv
  BY <1>1, <1>2, PTL DEF LedgerSpec
<1>7. LedgerSpec => []VarianceKept
  BY <1>3, <1>6, PTL
<1>8. LedgerSpec => ScansKeepFinance
  BY <1>4, <1>6, PTL DEF ScansKeepFinance
<1>9. LedgerSpec => ReportsTakeEffect
  BY <1>5, <1>6, PTL DEF ReportsTakeEffect
<1> QED BY <1>7, <1>8, <1>9 DEF FinanceKept

-----------------------------------------------------------------------------
(* The remediation loop: module Remediation.                               *)

Request ==
    [impact : [Candidate -> Impacts], allowed : SUBSET Candidate, risky : SUBSET Candidate,
     most : MaxActions, total : MaxTotal, approval : MaxTotal, dry : BOOLEAN]

Verdict == {"none", "disallowed", "too many", "too much", "requires approval", "planned"}

RemediationType ==
    /\ request \in Request \cup {NoRequest}
    /\ decided \in [Candidate -> Verdict]
    /\ planned \in [count : Nat, impact : Nat]

\* The counters are those of the accepted actions and within the guardrails.
Counted ==
    /\ planned.count = Cardinality(Accepted) /\ planned.impact = Total(Accepted)
    /\ planned.count <= request.most /\ planned.impact <= request.total
    /\ \A c \in Accepted : ~NeedsApproval(c)

\* What is left has no more impact than what is decided.
InOrder ==
    \A c \in Candidate, d \in Left :
        decided[c] # "none" => request.impact[d] <= request.impact[c]

AtLeast(c) == {d \in Accepted : request.impact[d] >= request.impact[c]}

\* An execution is of a run that has decided on everything.
ExecutedLast == executed \subseteq Accepted /\ (executed # {} => Left = {})

RemediationInv ==
    /\ RemediationType
    /\ request = NoRequest =>
         /\ \A c \in Candidate : decided[c] = "none"
         /\ planned.count = 0 /\ planned.impact = 0 /\ executed = {}
    /\ request # NoRequest => Counted /\ InOrder /\ ExecutedLast /\ NoRoomLeft

-----------------------------------------------------------------------------
LEMMA TotalIsSum == ASSUME NEW S PROVE Total(S) = SumOver(request.impact, S)
  BY Zenon DEF Total, SumOver

LEMMA RequestApart == NoRequest \notin Request
<1>1. \A r \in Request : "total" \in DOMAIN r
  BY DEF Request
<1>2. DOMAIN NoRequest = {"impact"}
  BY DEF NoRequest
<1> QED BY <1>1, <1>2

LEMMA CampaignTyped ==
  ASSUME RemediationType, request # NoRequest
  PROVE  /\ request \in Request
         /\ request.impact \in [Candidate -> Nat]
         /\ request.most \in Nat /\ request.total \in Nat /\ request.approval \in Nat
  BY RemediationBounds DEF RemediationType, Request

LEMMA TotalTyped ==
  ASSUME RemediationType, request # NoRequest, NEW S \in SUBSET Candidate
  PROVE  IsFiniteSet(S) /\ Total(S) \in Nat
<1>1. IsFiniteSet(S)
  BY RemediationBounds, FS_Subset
<1>2. \A c \in S : request.impact[c] \in Nat
  BY CampaignTyped
<1>3. SumOver(request.impact, S) \in Nat
  BY <1>1, <1>2, SumType
<1> QED BY <1>1, <1>3, TotalIsSum

\* What an action accepted adds.
LEMMA TotalAdd ==
  ASSUME RemediationType, request # NoRequest, NEW S \in SUBSET Candidate,
         NEW c \in Candidate, c \notin S
  PROVE  Total(S \cup {c}) = Total(S) + request.impact[c]
<1>1. IsFiniteSet(S)
  BY TotalTyped
<1>2. \A d \in S \cup {c} : request.impact[d] \in Int
  BY CampaignTyped
<1>3. SumOver(request.impact, S \cup {c}) = SumOver(request.impact, S) + request.impact[c]
  BY <1>1, <1>2, SumAdd
<1> QED BY <1>3, TotalIsSum, Zenon

LEMMA TotalPart ==
  ASSUME RemediationType, request # NoRequest, NEW S \in SUBSET Candidate, NEW P \in SUBSET S
  PROVE  Total(P) <= Total(S)
<1>1. IsFiniteSet(S)
  BY TotalTyped
<1>2. \A d \in S : request.impact[d] \in Nat
  BY CampaignTyped
<1>3. SumOver(request.impact, P) <= SumOver(request.impact, S)
  BY <1>1, <1>2, SumPart
<1> QED BY <1>3, TotalIsSum, Zenon

\* The total depends on the request and the set only.
LEMMA SameTotal ==
  ASSUME request' = request, NEW S
  PROVE  Total(S)' = Total(S)
<1>1. Total(S)' = SumOver(request'.impact, S)
  BY Zenon DEF Total, SumOver, MapThenSumSet, MapThenFoldSet
<1> QED BY <1>1, TotalIsSum, Zenon

LEMMA NotWithin ==
  ASSUME NEW p \in Nat, NEW g \in Nat, NEW t \in Nat, ~(p + g <= t)
  PROVE  p + g > t
OBVIOUS

\* What does not fit with less does not fit with more.
LEMMA MoreRoom ==
  ASSUME NEW p \in Nat, NEW q \in Nat, NEW g \in Nat, NEW t \in Nat, p <= q, p + g > t
  PROVE  q + g > t
OBVIOUS

-----------------------------------------------------------------------------
LEMMA DecideStep ==
  ASSUME RemediationInv, NEW c \in Candidate, Decide(c)
  PROVE  RemediationInv'
<1>1. /\ request # NoRequest /\ c \in Left /\ request' = request /\ executed' = executed
      /\ \A d \in Left : request.impact[d] <= request.impact[c]
      /\ decided' = [decided EXCEPT ![c] = Decision(c)]
  BY DEF Decide, Turn
<1>2. PICK v : v = Decision(c)
  OBVIOUS
<1>3. v \in Verdict \ {"none"}
  BY <1>2 DEF Decision, Verdict
<1>4. /\ RemediationType /\ Counted /\ InOrder /\ ExecutedLast /\ NoRoomLeft
      /\ decided[c] = "none"
  BY <1>1 DEF RemediationInv, Left
<1>5. /\ decided'[c] = v /\ \A d \in Candidate : d # c => decided'[d] = decided[d]
      /\ decided' \in [Candidate -> Verdict]
  BY <1>1, <1>2, <1>3, <1>4 DEF RemediationType
<1>6. PICK g \in Nat : g = request.impact[c]
  BY <1>1, <1>4, CampaignTyped
<1>7. /\ request.most \in Nat /\ request.total \in Nat /\ request.impact \in [Candidate -> Nat]
      /\ planned.count \in Nat /\ planned.impact \in Nat
  BY <1>1, <1>4, CampaignTyped DEF RemediationType
<1>8. Left' = Left \ {c}
  BY <1>3, <1>5 DEF Left
<1>9. /\ Accepted' = IF v = "planned" THEN Accepted \cup {c} ELSE Accepted
      /\ c \notin Accepted /\ Accepted \in SUBSET Candidate /\ Accepted' \in SUBSET Candidate
  BY <1>4, <1>5 DEF Accepted
<1>10. /\ planned' \in [count : Nat, impact : Nat]
       /\ planned'.count = IF v = "planned" THEN planned.count + 1 ELSE planned.count
       /\ planned'.impact = IF v = "planned" THEN planned.impact + g ELSE planned.impact
  BY <1>2, <1>4, <1>6, <1>7 DEF Decide, RemediationType
<1>11. RemediationType'
  BY <1>1, <1>4, <1>5, <1>10 DEF RemediationType
<1>12. Counted'
  <2>1. CASE v = "planned"
    <3>1. planned.count < request.most /\ planned.impact + g <= request.total
          /\ ~NeedsApproval(c)
      BY <1>2, <1>6, <1>7, <2>1 DEF Decision, Fits
    <3>2. Cardinality(Accepted \cup {c}) = Cardinality(Accepted) + 1
      BY <1>1, <1>4, <1>9, TotalTyped, FS_AddElement
    <3>3. Total(Accepted \cup {c}) = Total(Accepted) + g
      BY <1>1, <1>4, <1>6, <1>9, TotalAdd
    <3>4. PICK B : B = Accepted \cup {c}
      OBVIOUS
    <3>5. Total(B)' = Total(B) /\ Accepted' = B
      BY <1>1, <1>9, <2>1, <3>4, SameTotal
    <3>6. Total(Accepted)' = Total(B)
      BY <3>5
    <3>7. planned'.count = Cardinality(Accepted') /\ planned'.impact = Total(Accepted)'
      BY <1>4, <1>10, <2>1, <3>2, <3>3, <3>4, <3>5, <3>6 DEF Counted
    <3>8. planned'.count <= request.most /\ planned'.impact <= request.total
      BY <1>7, <1>10, <2>1, <3>1
    <3>9. \A d \in Accepted' : ~NeedsApproval(d)'
      BY <1>1, <1>4, <1>9, <2>1, <3>1 DEF Counted, NeedsApproval
    <3> QED BY <1>1, <3>7, <3>8, <3>9 DEF Counted
  <2>2. CASE v # "planned"
    <3>1. Accepted' = Accepted /\ planned'.count = planned.count
          /\ planned'.impact = planned.impact
      BY <1>9, <1>10, <2>2
    <3>2. Total(Accepted)' = Total(Accepted)
      BY <1>1, <3>1, SameTotal
    <3> QED BY <1>1, <1>4, <3>1, <3>2 DEF Counted, NeedsApproval
  <2> QED BY <2>1, <2>2
<1>13. InOrder'
  BY <1>1, <1>4, <1>5, <1>7, <1>8 DEF InOrder, Left
<1>14. ExecutedLast'
  BY <1>1, <1>4, <1>9 DEF ExecutedLast
<1>15. NoRoomLeft'
  <2> SUFFICES ASSUME NEW b \in Candidate, decided'[b] = "too much"
               PROVE  Total(AtLeast(b))' + request.impact[b] > request.total
    BY <1>1 DEF NoRoomLeft, AtLeast
  <2>1. PICK A, B : A = AtLeast(b) /\ B = AtLeast(b)'
    OBVIOUS
  <2>2. A \in SUBSET B /\ B \in SUBSET Candidate
    BY <1>1, <1>9, <2>1 DEF AtLeast
  <2>3. Total(AtLeast(b))' = Total(B)
    BY <1>1, <2>1, SameTotal
  <2>4. Total(A) <= Total(B) /\ Total(A) \in Nat /\ Total(B) \in Nat
    BY <1>1, <1>4, <2>2, TotalPart, TotalTyped
  <2>5. Total(A) + request.impact[b] > request.total
    <3>1. CASE b # c
      BY <1>4, <1>5, <2>1, <3>1 DEF NoRoomLeft, AtLeast
    <3>2. CASE b = c
      <4>1. ~Fits(c)
        BY <1>2, <1>5, <3>2 DEF Decision
      <4>2. A = Accepted
        <5>1. ASSUME NEW d \in Accepted
              PROVE  request.impact[d] >= request.impact[b]
          <6>1. d \in Candidate /\ decided[d] # "none"
            BY DEF Accepted
          <6>2. request.impact[c] <= request.impact[d]
            BY <1>1, <1>4, <6>1 DEF InOrder
          <6> QED BY <1>7, <3>2, <6>1, <6>2
        <5>2. A = {d \in Accepted : request.impact[d] >= request.impact[b]}
          BY <2>1 DEF AtLeast
        <5> QED BY Zenon, <5>1, <5>2
      <4>3. Total(A) = planned.impact
        BY Zenon, <1>4, <4>2 DEF Counted
      <4>4. ~(planned.impact + request.impact[b] <= request.total)
        BY Zenon, <3>2, <4>1 DEF Fits
      <4>5. request.impact[b] \in Nat /\ request.total \in Nat
        BY <1>7
      <4>6. Total(A) \in Nat
        BY <2>4
      <4> QED BY Zenon, <4>3, <4>4, <4>5, <4>6, NotWithin
    <3> QED BY <3>1, <3>2
  <2>6. PICK p, q, g2 : p = Total(A) /\ q = Total(B) /\ g2 = request.impact[b]
    OBVIOUS
  <2>7. g2 \in Nat
    BY <1>7, <2>6
  <2>8. PICK t : t = request.total
    OBVIOUS
  <2>9. t \in Nat /\ p \in Nat /\ q \in Nat /\ p <= q /\ p + g2 > t
    BY <1>7, <2>4, <2>5, <2>6, <2>8
  <2>10. q + g2 > t
    BY <2>7, <2>9, MoreRoom
  <2> QED BY <2>3, <2>6, <2>8, <2>10
<1> QED BY <1>1, <1>11, <1>12, <1>13, <1>14, <1>15 DEF RemediationInv

LEMMA BeginStep ==
  ASSUME RemediationInv, request = NoRequest,
         NEW impact \in [Candidate -> Impacts], NEW allowed \in SUBSET Candidate,
         NEW risky \in SUBSET Candidate, NEW most \in MaxActions,
         NEW total \in MaxTotal, NEW approval \in MaxTotal, NEW dry \in BOOLEAN,
         BeginLoop(impact, allowed, risky, most, total, approval, dry)
  PROVE  RemediationInv'
<1>1. PICK r : r = [impact |-> impact, allowed |-> allowed, risky |-> risky, most |-> most,
                    total |-> total, approval |-> approval, dry |-> dry]
  OBVIOUS
<1>2. r \in Request /\ r.most \in Nat /\ r.total \in Nat
  BY <1>1, RemediationBounds DEF Request
<1>3. request' = r /\ UNCHANGED <<decided, planned, executed>>
  BY <1>1 DEF BeginLoop
<1>4. /\ \A c \in Candidate : decided[c] = "none"
      /\ planned.count = 0 /\ planned.impact = 0 /\ executed = {}
  BY DEF RemediationInv
<1>5. Accepted' = {} /\ Accepted = {}
  BY <1>3, <1>4 DEF Accepted
<1>6. RemediationType'
  BY <1>2, <1>3 DEF RemediationInv, RemediationType
<1>7. Total({})' = 0 /\ Cardinality({}) = 0
  <2>1. Total({})' = SumOver(request'.impact, {})
    BY Zenon DEF Total, SumOver, MapThenSumSet, MapThenFoldSet
  <2> QED BY <2>1, SumEmpty, FS_EmptySet
<1>8. Total(Accepted)' = 0
  BY <1>5, <1>7
<1>9. Counted'
  BY <1>2, <1>3, <1>4, <1>5, <1>7, <1>8 DEF Counted
<1>10. InOrder' /\ ExecutedLast' /\ NoRoomLeft'
  BY <1>3, <1>4 DEF InOrder, ExecutedLast, NoRoomLeft
<1>11. r # NoRequest
  BY <1>2, RequestApart
<1> QED BY <1>3, <1>6, <1>9, <1>10, <1>11 DEF RemediationInv

LEMMA EndLoopStep ==
  ASSUME RemediationInv, EndLoop
  PROVE  RemediationInv'
<1>1. /\ request # NoRequest /\ Left = {} /\ executed' = Accepted
      /\ UNCHANGED <<request, decided, planned>>
  BY DEF EndLoop
<1>2. Left' = Left /\ Accepted' = Accepted
  BY <1>1 DEF Left, Accepted
<1>3. Total(Accepted)' = Total(Accepted)
  BY <1>1, <1>2, SameTotal
<1>4. Counted' /\ ExecutedLast'
  BY <1>1, <1>2, <1>3 DEF RemediationInv, Counted, ExecutedLast, NeedsApproval
<1>5. InOrder'
  BY <1>1, <1>2 DEF RemediationInv, InOrder
<1>6. NoRoomLeft'
  BY <1>1, <1>2, SameTotal DEF RemediationInv, NoRoomLeft
<1> QED BY <1>1, <1>4, <1>5, <1>6 DEF RemediationInv, RemediationType

LEMMA SameStep ==
  ASSUME RemediationInv, UNCHANGED remediationVars
  PROVE  RemediationInv'
<1>1. UNCHANGED <<request, decided, planned, executed>>
  BY DEF remediationVars
<1>2. Left' = Left /\ Accepted' = Accepted
  BY <1>1 DEF Left, Accepted
<1>3. Total(Accepted)' = Total(Accepted)
  BY <1>1, <1>2, SameTotal
<1>4. NoRoomLeft => NoRoomLeft'
  BY <1>1, <1>2, SameTotal DEF NoRoomLeft
<1> QED
  BY <1>1, <1>2, <1>3, <1>4
  DEF RemediationInv, RemediationType, Counted, NeedsApproval, InOrder, ExecutedLast

LEMMA GuardedAtEnd == RemediationInv => WithinGuardrails
<1> SUFFICES ASSUME RemediationInv
             PROVE  WithinGuardrails
  OBVIOUS
<1>1. NoRoomLeft
  <2>1. CASE request = NoRequest
    BY <2>1 DEF RemediationInv, NoRoomLeft
  <2> QED BY <2>1 DEF RemediationInv
<1>2. ASSUME request # NoRequest
      PROVE  /\ Cardinality(Accepted) <= request.most
             /\ Total(Accepted) <= request.total
             /\ \A c \in Accepted : c \notin request.risky /\ request.impact[c] < request.approval
             /\ executed \subseteq Accepted
  <2>1. Counted /\ ExecutedLast /\ RemediationType
    BY <1>2 DEF RemediationInv
  <2>2. \A c \in Accepted : c \in Candidate
    BY DEF Accepted
  <2>3. request.impact \in [Candidate -> Nat] /\ request.approval \in Nat
    BY <1>2, <2>1, CampaignTyped
  <2>4. \A c \in Accepted : c \notin request.risky /\ request.impact[c] < request.approval
    BY <2>1, <2>2, <2>3 DEF Counted, NeedsApproval
  <2> QED BY <2>1, <2>4 DEF Counted, ExecutedLast
<1> QED BY <1>1, <1>2 DEF WithinGuardrails, GuardrailsHold

\* For any candidates and guardrails, a run of the loop accepts no more actions and
\* no more impact than it may and none that needs approval, and leaves an action out
\* for its impact only when the larger ones it accepted leave no room.
THEOREM WithinGuardrailsHolds == RemediationSpec => []WithinGuardrails
<1>1. RemediationInit => RemediationInv
  BY DEF RemediationInit, RemediationInv, RemediationType, Verdict
<1>2. RemediationInv /\ [RemediationNext]_remediationVars => RemediationInv'
  BY DecideStep, BeginStep, EndLoopStep, SameStep DEF RemediationNext
<1> QED BY <1>1, <1>2, GuardedAtEnd, PTL DEF RemediationSpec

-----------------------------------------------------------------------------
(* Export jobs: module Exports.                                            *)

Job == [schedule : Schedule, active : BOOLEAN, made : Nat, last : Nat \cup {Never}]

Status == {"completed", "failed"}

Export ==
    [job : Nat, status : Status, at : Nat, by : {"user", "pass"}, began : Nat, seen : Nat]

Work ==
    [pc : {"idle", "scans", "jobs", "insert", "report"}, began : Nat, job : Nat,
     left : SUBSET Nat, read : Seq(Job), fresh : BOOLEAN, by : {"user", "pass"}, seen : Nat]

Completed(i, j) == exports[i].job = j /\ exports[i].status = "completed"

\* The last run of job j, without the maximum.
LastOf(j) ==
    /\ \A i \in 1..Len(exports) : Completed(i, j) => exports[i].at <= jobs[j].last
    /\ jobs[j].last # Never =>
         \E i \in 1..Len(exports) : Completed(i, j) /\ exports[i].at = jobs[j].last

ExportRow(k) ==
    /\ exports[k].at <= tick
    /\ exports[k].job \in 1..Len(jobs)
    /\ exports[k].seen < k

\* Run k of a pass keeps the cadence to the runs that its pass had seen.
Spaced(k) ==
    \A i \in 1..Len(exports) :
        /\ i <= exports[k].seen /\ Completed(i, exports[k].job) /\ exports[k].by = "pass"
        => exports[k].began - exports[i].at >= Cadence(jobs[exports[k].job].schedule)

\* A pass goes through jobs that exist, and what it is about to run is due by
\* the runs that it has seen.
TaskRow(p) ==
    /\ task[p].seen <= Len(exports)
    /\ task[p].left \subseteq 1..Len(jobs)
    /\ task[p].pc \in {"insert", "report"} =>
         /\ task[p].job \in 1..Len(jobs)
         /\ task[p].by = "pass" =>
              \A i \in 1..task[p].seen :
                 Completed(i, task[p].job) =>
                    task[p].began - exports[i].at >= Cadence(jobs[task[p].job].schedule)

\* Jobs that were read, and not again since, are those of the runs seen then.
ReadRow(p) ==
    task[p].pc = "jobs" /\ ~task[p].fresh =>
        /\ Len(task[p].read) <= Len(jobs)
        /\ task[p].left \subseteq 1..Len(task[p].read)
        /\ \A j \in 1..Len(task[p].read) :
             /\ task[p].read[j].schedule = jobs[j].schedule
             /\ \A i \in 1..task[p].seen :
                   Completed(i, j) => exports[i].at <= task[p].read[j].last

ExportTables ==
    /\ tick \in Nat /\ jobs \in Seq(Job) /\ exports \in Seq(Export)
    /\ \A j \in 1..Len(jobs) : LastOf(j)
    /\ \A k \in 1..Len(exports) : ExportRow(k) /\ Spaced(k)

Tasks ==
    /\ task \in [Process -> Work]
    /\ \A p \in Process : TaskRow(p) /\ ReadRow(p)

ExportsInv == ExportTables /\ Tasks

-----------------------------------------------------------------------------
LEMMA ExportRows ==
    ASSUME ExportsInv
    PROVE  /\ tick \in Nat
           /\ Len(jobs) \in Nat /\ DOMAIN jobs = 1..Len(jobs)
           /\ Len(exports) \in Nat /\ DOMAIN exports = 1..Len(exports)
           /\ \A j \in 1..Len(jobs) : jobs[j] \in Job
           /\ \A k \in 1..Len(exports) : exports[k] \in Export
           /\ \A p \in Process : task[p] \in Work
<1>1. jobs \in Seq(Job) /\ exports \in Seq(Export)
  BY DEF ExportsInv, ExportTables
<1>2. /\ Len(jobs) \in Nat /\ DOMAIN jobs = 1..Len(jobs) /\ jobs \in [1..Len(jobs) -> Job]
      /\ Len(exports) \in Nat /\ DOMAIN exports = 1..Len(exports)
      /\ exports \in [1..Len(exports) -> Export]
  BY <1>1, LenProperties
<1> QED BY <1>2 DEF ExportsInv, ExportTables, Tasks

LEMMA CadenceNat == \A schedule : Cadence(schedule) \in Nat
BY ExportBounds DEF Cadence

LEMMA IdleTyped == IdleWork \in Work
<1>1. << >> \in Seq(Job)
  OBVIOUS
<1> QED BY <1>1 DEF IdleWork, Work

-----------------------------------------------------------------------------
(* Jobs and runs are only added, and a job keeps its schedule.             *)

Grown ==
    /\ Len(jobs') \in Nat /\ Len(jobs) <= Len(jobs')
    /\ Len(exports') \in Nat /\ Len(exports) <= Len(exports')
    /\ \A j \in 1..Len(jobs) : jobs'[j].schedule = jobs[j].schedule
    /\ \A i \in 1..Len(exports) : exports'[i] = exports[i]

LEMMA SameGrown == ASSUME ExportsInv, UNCHANGED <<jobs, exports>> PROVE Grown
BY ExportRows DEF Grown

LEMMA TablesSame ==
    ASSUME ExportsInv, UNCHANGED <<jobs, exports>>, tick' \in Nat, tick <= tick' PROVE ExportTables'
<1>0. jobs' = jobs /\ exports' = exports
  OBVIOUS
<1>1. \A k \in 1..Len(exports) : exports[k].at \in Nat
  BY ExportRows DEF Export
<1>2. \A j \in 1..Len(jobs) : LastOf(j)'
  <2> TAKE j \in 1..Len(jobs)
  <2>1. LastOf(j)
    BY DEF ExportsInv, ExportTables
  <2> QED BY <1>0, <2>1 DEF LastOf, Completed
<1>3. \A k \in 1..Len(exports) : ExportRow(k)' /\ Spaced(k)'
  <2> TAKE k \in 1..Len(exports)
  <2>1. ExportRow(k) /\ Spaced(k) /\ tick \in Nat
    BY DEF ExportsInv, ExportTables
  <2>2. ExportRow(k)'
    BY <1>0, <1>1, <2>1 DEF ExportRow
  <2>3. Spaced(k)'
    BY <1>0, <2>1 DEF Spaced, Completed
  <2> QED BY <2>2, <2>3
<1> QED BY <1>2, <1>3 DEF ExportsInv, ExportTables

\* A process that does nothing.
LEMMA Waiting ==
    ASSUME ExportsInv, Grown, NEW p \in Process, task'[p] = task[p]
    PROVE  TaskRow(p)' /\ ReadRow(p)'
<1>1. TaskRow(p) /\ ReadRow(p) /\ task[p] \in Work
  BY ExportRows DEF ExportsInv, Tasks
<1>2. task[p].seen \in Nat /\ task[p].read \in Seq(Job)
  BY <1>1 DEF Work
<1>3. Len(task[p].read) \in Nat
  BY <1>2, LenProperties
<1>4. Len(jobs) \in Nat /\ Len(exports) \in Nat
  BY ExportRows
<1>5. TaskRow(p)'
  <2> DEFINE t == task[p]
  <2>1. task'[p] = t /\ t.seen \in Nat /\ t.seen <= Len(exports) /\ t.left \subseteq 1..Len(jobs)
    BY <1>1, <1>2 DEF TaskRow
  <2>2. t.seen <= Len(exports') /\ t.left \subseteq 1..Len(jobs')
    BY <1>4, <2>1 DEF Grown
  <2>3. ASSUME t.pc \in {"insert", "report"}
        PROVE  /\ t.job \in 1..Len(jobs')
               /\ t.by = "pass" =>
                    \A i \in 1..t.seen :
                       Completed(i, t.job)' =>
                          t.began - exports'[i].at >= Cadence(jobs'[t.job].schedule)
    <3>1. t.job \in 1..Len(jobs) /\ t.job \in 1..Len(jobs')
      BY <1>1, <1>4, <2>3 DEF TaskRow, Grown
    <3>2. ASSUME t.by = "pass", NEW i \in 1..t.seen, Completed(i, t.job)'
          PROVE  t.began - exports'[i].at >= Cadence(jobs'[t.job].schedule)
      <4>1. i \in 1..Len(exports) /\ exports'[i] = exports[i]
        BY <1>4, <2>1 DEF Grown
      <4>2. Completed(i, t.job) /\ jobs'[t.job].schedule = jobs[t.job].schedule
        BY <3>1, <3>2, <4>1 DEF Grown, Completed
      <4>3. t.began - exports[i].at >= Cadence(jobs[t.job].schedule)
        BY <1>1, <2>3, <3>2, <4>2 DEF TaskRow
      <4> QED BY <4>1, <4>2, <4>3
    <3> QED BY <3>1, <3>2
  <2> QED BY <2>1, <2>2, <2>3 DEF TaskRow
<1>6. ReadRow(p)'
  <2> DEFINE t == task[p]
  <2> SUFFICES ASSUME t.pc = "jobs", ~t.fresh
               PROVE  /\ Len(t.read) <= Len(jobs')
                      /\ t.left \subseteq 1..Len(t.read)
                      /\ \A j \in 1..Len(t.read) :
                           /\ t.read[j].schedule = jobs'[j].schedule
                           /\ \A i \in 1..t.seen :
                                 exports'[i].job = j /\ exports'[i].status = "completed"
                                   => exports'[i].at <= t.read[j].last
    BY DEF ReadRow, Completed
  <2>1. /\ Len(t.read) <= Len(jobs) /\ t.left \subseteq 1..Len(t.read)
        /\ \A j \in 1..Len(t.read) :
             /\ t.read[j].schedule = jobs[j].schedule
             /\ \A i \in 1..t.seen : Completed(i, j) => exports[i].at <= t.read[j].last
    BY <1>1 DEF ReadRow
  <2>2. t.seen <= Len(exports) /\ t.seen \in Nat /\ Len(t.read) \in Nat
    BY <1>1, <1>2, <1>3 DEF TaskRow
  <2> HIDE DEF t
  <2>3. \A i \in 1..t.seen : exports'[i] = exports[i]
    BY <1>4, <2>2 DEF Grown
  <2>4. \A j \in 1..Len(t.read) : jobs'[j].schedule = jobs[j].schedule
    BY <1>4, <2>1, <2>2 DEF Grown
  <2>5. Len(t.read) <= Len(jobs')
    BY <1>4, <2>1, <2>2 DEF Grown
  <2> QED BY <2>1, <2>3, <2>4, <2>5 DEF Completed
<1> QED BY <1>5, <1>6

\* The step of one process.
LEMMA TaskStep ==
    ASSUME ExportsInv, Grown, NEW p \in Process, NEW w \in Work, Goes(p, w),
           TaskRow(p)', ReadRow(p)'
    PROVE  Tasks'
<1>1. task \in [Process -> Work] /\ task' = [task EXCEPT ![p] = w]
  BY DEF ExportsInv, Tasks, Goes
<1>2. task' \in [Process -> Work] /\ \A q \in Process \ {p} : task'[q] = task[q]
  BY <1>1
<1>3. \A q \in Process \ {p} : TaskRow(q)' /\ ReadRow(q)'
  BY <1>2, Waiting
<1> QED BY <1>2, <1>3 DEF Tasks

LEMMA Moved == ASSUME ExportsInv, NEW p \in Process, NEW w, Goes(p, w) PROVE task'[p] = w
BY DEF ExportsInv, Tasks, Goes

\* A process that is idle, or goes to a place where it has nothing at hand.
LEMMA NothingAtHand ==
    ASSUME ExportsInv, Grown, NEW p \in Process, NEW w \in Work, Goes(p, w),
           w.left = {}, w.seen = 0, w.pc \in {"idle", "scans"}
    PROVE  Tasks'
<1>1. task'[p] = w
  BY Moved
<1>2. TaskRow(p)' /\ ReadRow(p)'
  BY <1>1, ExportRows DEF TaskRow, ReadRow, Grown
<1> QED BY <1>2, TaskStep

LEMMA BecomesIdle ==
    ASSUME ExportsInv, Grown, NEW p \in Process, Goes(p, IdleWork) PROVE Tasks'
<1>1. IdleWork.left = {} /\ IdleWork.seen = 0 /\ IdleWork.pc \in {"idle", "scans"}
  BY DEF IdleWork
<1> QED BY <1>1, IdleTyped, NothingAtHand

-----------------------------------------------------------------------------
(* The steps.                                                              *)

LEMMA CreateStep ==
    ASSUME ExportsInv, NEW p \in Process, NEW schedule \in Schedule, NEW active \in BOOLEAN,
           CreateJob(p, schedule, active)
    PROVE  ExportsInv'
<1> DEFINE job == [schedule |-> schedule, active |-> active, made |-> tick, last |-> Never]
<1>1. job \in Job /\ job.last = Never /\ jobs \in Seq(Job)
  BY ExportRows DEF Job, ExportsInv, ExportTables
<1>2. jobs' = Append(jobs, job) /\ UNCHANGED <<tick, exports, task>>
  BY DEF CreateJob
<1> HIDE DEF job
<1>3. /\ jobs' \in Seq(Job) /\ Len(jobs') = Len(jobs) + 1
      /\ \A j \in 1..Len(jobs) : jobs'[j] = jobs[j]
      /\ jobs'[Len(jobs) + 1] = job
  BY <1>1, <1>2, AppendProperties
<1>4. Grown
  BY <1>2, <1>3, ExportRows DEF Grown
<1>5. Tasks'
  BY <1>2, <1>4, Waiting DEF ExportsInv, Tasks
<1>6. \A k \in 1..Len(exports) : ExportRow(k) /\ Spaced(k)
  BY DEF ExportsInv, ExportTables
<1>7. ASSUME NEW j \in 1..Len(jobs') PROVE LastOf(j)'
  <2>1. CASE j \in 1..Len(jobs)
    BY <1>2, <1>3, <2>1 DEF ExportsInv, ExportTables, LastOf, Completed
  <2>2. CASE j = Len(jobs) + 1
    BY <1>1, <1>2, <1>3, <1>6, <2>2, ExportRows DEF LastOf, ExportRow, Completed
  <2> QED BY <1>3, <2>1, <2>2, ExportRows
<1>8. ASSUME NEW k \in 1..Len(exports') PROVE ExportRow(k)' /\ Spaced(k)'
  <2>1. k \in 1..Len(exports) /\ exports[k].job \in 1..Len(jobs)
    BY <1>2, <1>6 DEF ExportRow
  <2>2. ExportRow(k)'
    BY <1>2, <1>3, <1>6, <2>1, ExportRows DEF ExportRow
  <2>3. Spaced(k)'
    BY <1>2, <1>3, <1>6, <2>1 DEF Spaced, Completed
  <2> QED BY <2>2, <2>3
<1>9. tick' \in Nat /\ exports' \in Seq(Export)
  BY <1>2 DEF ExportsInv, ExportTables
<1> QED BY <1>3, <1>5, <1>7, <1>8, <1>9 DEF ExportsInv, ExportTables

LEMMA DemandStep ==
    ASSUME ExportsInv, NEW p \in Process, NEW j \in DOMAIN jobs, RunOnDemand(p, j) PROVE ExportsInv'
<1> DEFINE w == [IdleWork EXCEPT !.pc = "insert", !.job = j]
<1>1. j \in 1..Len(jobs) /\ Len(jobs) \in Nat /\ Len(exports) \in Nat /\ tick \in Nat
  BY ExportRows
<1>2. w \in Work /\ w.pc = "insert" /\ w.job = j /\ w.left = {} /\ w.seen = 0 /\ w.by = "user"
  <2>1. IdleWork.left = {} /\ IdleWork.seen = 0 /\ IdleWork.by = "user"
    BY DEF IdleWork
  <2>2. j \in Nat
    BY <1>1
  <2> QED BY <2>1, <2>2, IdleTyped DEF Work
<1>3. Goes(p, w) /\ UNCHANGED <<tick, jobs, exports>>
  BY DEF RunOnDemand
<1> HIDE DEF w
<1>4. Grown /\ ExportTables'
  BY <1>1, <1>3, SameGrown, TablesSame
<1>5. task'[p] = w
  BY <1>3, Moved
<1>6. TaskRow(p)' /\ ReadRow(p)'
  BY <1>1, <1>2, <1>3, <1>5 DEF TaskRow, ReadRow
<1> QED BY <1>2, <1>3, <1>4, <1>6, TaskStep DEF ExportsInv

LEMMA StartStep == ASSUME ExportsInv, NEW p \in Process, StartPass(p) PROVE ExportsInv'
<1> DEFINE w == [IdleWork EXCEPT !.pc = "scans", !.began = tick, !.by = "pass"]
<1>1. w \in Work /\ w.pc = "scans" /\ w.left = {} /\ w.seen = 0
  BY ExportRows, IdleTyped DEF Work, IdleWork
<1>2. Goes(p, w) /\ UNCHANGED <<tick, jobs, exports>>
  BY DEF StartPass
<1> HIDE DEF w
<1>3. Grown /\ ExportTables'
  BY <1>2, ExportRows, SameGrown, TablesSame
<1> QED BY <1>1, <1>2, <1>3, NothingAtHand DEF ExportsInv

\* The last runs that are read are those of the runs that are there.
LEMMA ReadStep == ASSUME ExportsInv, NEW p \in Process, ReadJobs(p) PROVE ExportsInv'
<1> DEFINE active == {j \in DOMAIN jobs : jobs[j].active}
           w == [task[p] EXCEPT !.pc = "jobs", !.read = jobs, !.seen = Len(exports),
                                !.left = active]
<1>1. /\ task[p] \in Work /\ jobs \in Seq(Job)
      /\ Len(jobs) \in Nat /\ Len(exports) \in Nat /\ DOMAIN jobs = 1..Len(jobs) /\ tick \in Nat
  BY ExportRows DEF ExportsInv, ExportTables
<1>2. /\ w \in Work /\ w.pc = "jobs" /\ w.read = jobs /\ w.seen = Len(exports)
      /\ w.left \subseteq 1..Len(jobs)
  <2>1. active \in SUBSET Nat /\ active \subseteq 1..Len(jobs)
    BY <1>1
  <2> HIDE DEF active
  <2> QED BY <1>1, <2>1 DEF Work
<1>3. Goes(p, w) /\ UNCHANGED <<tick, jobs, exports>>
  BY DEF ReadJobs
<1> HIDE DEF w
<1>4. Grown /\ ExportTables'
  BY <1>1, <1>3, SameGrown, TablesSame
<1>5. task'[p] = w
  BY <1>3, Moved
<1>6. \A j \in 1..Len(jobs) : LastOf(j)
  BY DEF ExportsInv, ExportTables
<1>7. TaskRow(p)'
  BY <1>1, <1>2, <1>3, <1>5 DEF TaskRow
<1>8. ReadRow(p)'
  BY <1>1, <1>2, <1>3, <1>5, <1>6 DEF ReadRow, LastOf, Completed
<1> QED BY <1>2, <1>3, <1>4, <1>7, <1>8, TaskStep DEF ExportsInv

\* The job that a pass looks at, and the runs that it has seen of it by then.
LEMMA Looked ==
    ASSUME ExportsInv, NEW p \in Process, task[p].pc = "jobs", NEW j \in task[p].left
    PROVE  LET seen == IF task[p].fresh THEN Len(exports) ELSE task[p].seen
           IN  /\ j \in 1..Len(jobs)
               /\ seen \in Nat /\ seen <= Len(exports)
               /\ JobSeen(p, j) \in Job
               /\ JobSeen(p, j).schedule = jobs[j].schedule
               /\ \A i \in 1..seen : Completed(i, j) => exports[i].at <= JobSeen(p, j).last
<1>1. /\ task[p] \in Work /\ TaskRow(p) /\ ReadRow(p)
      /\ Len(jobs) \in Nat /\ Len(exports) \in Nat /\ \A k \in 1..Len(jobs) : jobs[k] \in Job
  BY ExportRows DEF ExportsInv, Tasks
<1>2. j \in 1..Len(jobs) /\ task[p].seen \in Nat /\ task[p].seen <= Len(exports)
      /\ task[p].read \in Seq(Job)
  BY <1>1 DEF TaskRow, Work
<1>3. CASE task[p].fresh
  BY <1>1, <1>2, <1>3 DEF ExportsInv, ExportTables, LastOf, JobSeen
<1>4. CASE ~task[p].fresh
  <2>1. /\ j \in 1..Len(task[p].read) /\ task[p].read[j].schedule = jobs[j].schedule
        /\ \A i \in 1..task[p].seen : Completed(i, j) => exports[i].at <= task[p].read[j].last
    BY <1>1, <1>4 DEF ReadRow
  <2>2. task[p].read[j] \in Job
    BY <1>2, <2>1, LenProperties
  <2> QED BY <1>2, <1>4, <2>1, <2>2 DEF JobSeen
<1> QED BY <1>3, <1>4

LEMMA TakeStep == ASSUME ExportsInv, NEW p \in Process, TakeJob(p) PROVE ExportsInv'
<1>1. /\ task[p] \in Work /\ TaskRow(p) /\ ReadRow(p)
      /\ Len(jobs) \in Nat /\ Len(exports) \in Nat /\ tick \in Nat
  BY ExportRows DEF ExportsInv, Tasks
<1>2. task[p].pc = "jobs" /\ UNCHANGED <<tick, jobs, exports>>
  BY DEF TakeJob
<1>3. Grown /\ ExportTables'
  BY <1>1, <1>2, SameGrown, TablesSame
<1>4. ASSUME Goes(p, IdleWork) PROVE Tasks'
  BY <1>3, <1>4, BecomesIdle
<1>5. ASSUME NEW j \in task[p].left,
             LET job == JobSeen(p, j)
                 due == task[p].began - Anchor(job) >= Cadence(job.schedule)
             IN  Goes(p, [task[p] EXCEPT !.left = @ \ {j}, !.job = j,
                             !.pc = IF due THEN "insert" ELSE "jobs",
                             !.seen = IF task[p].fresh THEN Len(exports) ELSE @])
      PROVE  Tasks'
  <2> DEFINE job == JobSeen(p, j)
             due == task[p].began - Anchor(job) >= Cadence(job.schedule)
             seen == IF task[p].fresh THEN Len(exports) ELSE task[p].seen
             w == [task[p] EXCEPT !.left = @ \ {j}, !.job = j,
                      !.pc = IF due THEN "insert" ELSE "jobs",
                      !.seen = IF task[p].fresh THEN Len(exports) ELSE @]
  <2>1. /\ j \in 1..Len(jobs) /\ seen \in Nat /\ seen <= Len(exports)
        /\ job \in Job /\ job.schedule = jobs[j].schedule
        /\ \A i \in 1..seen : Completed(i, j) => exports[i].at <= job.last
    BY <1>2, Looked
  <2>2. /\ w \in Work /\ w.job = j /\ w.seen = seen /\ w.left = task[p].left \ {j}
        /\ w.pc = (IF due THEN "insert" ELSE "jobs")
        /\ w.read = task[p].read /\ w.fresh = task[p].fresh /\ w.began = task[p].began
    <3> HIDE DEF due
    <3> QED BY <1>1, <2>1 DEF Work
  <2>3. task'[p] = w
    BY <1>5, Moved
  <2>4. task[p].began \in Nat /\ job.last \in Nat \cup {Never} /\ Cadence(job.schedule) \in Nat
    BY <1>1, <2>1, CadenceNat DEF Work, Job
  <2>5. \A i \in 1..Len(exports) : exports[i].at \in Nat
    BY ExportRows DEF Export
  <2>6. Goes(p, w)
    BY <1>5
  <2> HIDE DEF w, seen, job
  <2>8. ASSUME due, NEW i \in 1..seen, Completed(i, j)
        PROVE  task[p].began - exports[i].at >= Cadence(jobs[j].schedule)
    <3>1. exports[i].at <= job.last /\ exports[i].at \in Nat
      BY <1>1, <2>1, <2>5, <2>8
    <3>2. Anchor(job) = job.last
      BY <2>4, <3>1 DEF Anchor, Never
    <3>3. job.last \in Nat
      BY <2>4, <3>1 DEF Never
    <3>4. task[p].began - job.last >= Cadence(job.schedule)
      BY <2>8, <3>2
    <3> HIDE DEF due
    <3>5. \A x, y, c, m \in Nat : m - x >= c /\ y <= x => m - y >= c
      OBVIOUS
    <3> QED BY <2>1, <2>4, <3>1, <3>3, <3>4, <3>5
  <2> HIDE DEF due
  <2>9. TaskRow(p)'
    <3>1. due => \A i \in 1..seen : Completed(i, j) =>
                    task[p].began - exports[i].at >= Cadence(jobs[j].schedule)
      BY <2>8
    <3> QED BY <1>1, <1>2, <2>1, <2>2, <2>3, <3>1 DEF TaskRow, Completed
  <2>10. ReadRow(p)'
    BY <1>1, <1>2, <2>1, <2>2, <2>3 DEF ReadRow, Completed, seen
  <2> QED BY <1>3, <2>2, <2>6, <2>9, <2>10, TaskStep
<1>6. Tasks'
  BY <1>4, <1>5, Zenon DEF TakeJob
<1> QED BY <1>3, <1>6 DEF ExportsInv

LEMMA InsertStep == ASSUME ExportsInv, NEW p \in Process, InsertRun(p) PROVE ExportsInv'
<1> DEFINE w == [task[p] EXCEPT !.pc = "report"]
<1>1. /\ task[p] \in Work /\ TaskRow(p) /\ task[p].pc = "insert" /\ tick \in Nat
      /\ UNCHANGED <<tick, jobs, exports>> /\ Goes(p, w)
  BY ExportRows DEF ExportsInv, Tasks, InsertRun
<1>2. /\ w \in Work /\ w.pc = "report" /\ w.job = task[p].job /\ w.seen = task[p].seen
      /\ w.left = task[p].left /\ w.by = task[p].by /\ w.began = task[p].began
  BY <1>1 DEF Work
<1> HIDE DEF w
<1>3. Grown /\ ExportTables'
  BY <1>1, SameGrown, TablesSame
<1>4. task'[p] = w
  BY <1>1, Moved
<1>5. TaskRow(p)' /\ ReadRow(p)'
  BY <1>1, <1>2, <1>4 DEF TaskRow, ReadRow, Completed
<1> QED BY <1>1, <1>2, <1>3, <1>5, TaskStep DEF ExportsInv

LEMMA IdleStep ==
    ASSUME ExportsInv, NEW p \in Process, UNCHANGED <<tick, jobs, exports>>, Goes(p, IdleWork)
    PROVE  ExportsInv'
BY ExportRows, SameGrown, TablesSame, BecomesIdle DEF ExportsInv

LEMMA TickStep == ASSUME ExportsInv, ExportTick PROVE ExportsInv'
<1>1. tick' = tick + 1 /\ UNCHANGED <<jobs, exports, task>>
  BY DEF ExportTick
<1>2. Grown /\ ExportTables'
  BY <1>1, ExportRows, SameGrown, TablesSame
<1>3. Tasks'
  BY <1>1, <1>2, Waiting DEF ExportsInv, Tasks
<1> QED BY <1>2, <1>3 DEF ExportsInv

-----------------------------------------------------------------------------
(* A run is committed.                                                     *)

\* What the commit writes.
Written(p, status) ==
    [job |-> task[p].job, status |-> status, at |-> tick, by |-> task[p].by,
     began |-> task[p].began, seen |-> task[p].seen]

LEMMA CommitTables ==
    ASSUME ExportsInv, NEW p \in Process, NEW status \in Status, CommitRun(p, status)
    PROVE  /\ task[p].job \in 1..Len(jobs)
           /\ UNCHANGED tick
           /\ exports' \in Seq(Export) /\ Len(exports') = Len(exports) + 1
           /\ \A i \in 1..Len(exports) : exports'[i] = exports[i]
           /\ exports'[Len(exports) + 1] = Written(p, status)
           /\ jobs' \in Seq(Job) /\ Len(jobs') = Len(jobs)
           /\ \A j \in 1..Len(jobs) :
                /\ jobs'[j].schedule = jobs[j].schedule
                /\ jobs'[j].last = IF j = task[p].job THEN LastRun(jobs[j], status)
                                   ELSE jobs[j].last
<1> DEFINE j == task[p].job
           row == [jobs[j] EXCEPT !.last = LastRun(jobs[j], status)]
<1>1. /\ task[p] \in Work /\ TaskRow(p) /\ task[p].pc = "report"
      /\ tick \in Nat /\ \A k \in 1..Len(jobs) : jobs[k] \in Job
      /\ jobs \in Seq(Job) /\ exports \in Seq(Export) /\ DOMAIN jobs = 1..Len(jobs)
  BY ExportRows DEF ExportsInv, Tasks, ExportTables, CommitRun
<1>2. j \in 1..Len(jobs)
  BY <1>1 DEF TaskRow
<1>3. Written(p, status) \in Export
  BY <1>1 DEF Written, Export, Work
<1>4. exports' = Append(exports, Written(p, status)) /\ UNCHANGED tick
  BY DEF CommitRun, Written
<1>5. jobs' = [jobs EXCEPT ![j] = row]
  BY DEF CommitRun
<1>6. LastRun(jobs[j], status) \in Nat \cup {Never}
  BY <1>1, <1>2 DEF LastRun, Job
<1>7. row \in Job /\ row.schedule = jobs[j].schedule /\ row.last = LastRun(jobs[j], status)
  BY <1>1, <1>2, <1>6 DEF Job
<1> HIDE DEF row, j
<1>8. /\ jobs' \in Seq(Job) /\ Len(jobs') = Len(jobs)
      /\ \A k \in 1..Len(jobs) : jobs'[k] = IF k = j THEN row ELSE jobs[k]
  BY <1>1, <1>2, <1>5, <1>7, ExceptSeq
<1>9. /\ exports' \in Seq(Export) /\ Len(exports') = Len(exports) + 1
      /\ \A i \in 1..Len(exports) : exports'[i] = exports[i]
      /\ exports'[Len(exports) + 1] = Written(p, status)
  BY <1>1, <1>3, <1>4, AppendProperties
<1> QED BY <1>2, <1>4, <1>7, <1>8, <1>9 DEF j

\* A completed run is the last run of its job, a failed one of none.
LEMMA CommitLast ==
    ASSUME ExportsInv, NEW p \in Process, NEW status \in Status, CommitRun(p, status),
           NEW j \in 1..Len(jobs)
    PROVE  LastOf(j)'
<1>1. PICK n : n = Len(exports) + 1
  OBVIOUS
<1>2. /\ Written(p, status).job = task[p].job
      /\ Written(p, status).status = status /\ Written(p, status).at = tick
  BY DEF Written
<1>3. /\ UNCHANGED tick /\ Len(exports') = n
      /\ \A i \in 1..Len(exports) : exports'[i] = exports[i]
      /\ exports'[n].job = task[p].job /\ exports'[n].status = status /\ exports'[n].at = tick
      /\ jobs'[j].last = IF j = task[p].job THEN LastRun(jobs[j], status) ELSE jobs[j].last
  BY <1>1, <1>2, CommitTables
<1>4. Len(exports) \in Nat /\ tick \in Nat /\ jobs[j].last \in Nat \cup {Never}
  BY ExportRows DEF Job
<1>5. LastOf(j)
  BY DEF ExportsInv, ExportTables
<1>6. \A i \in 1..Len(exports) : exports[i].at \in Nat /\ exports[i].at <= tick
  BY ExportRows DEF ExportsInv, ExportTables, ExportRow, Export
<1>7. CASE j = task[p].job /\ status = "completed"
  <2>1. jobs'[j].last = tick
    BY <1>3, <1>7 DEF LastRun
  <2>2. n \in 1..Len(exports') /\ Completed(n, j)' /\ exports'[n].at = tick
    BY <1>3, <1>4, <1>1, <1>7 DEF Completed
  <2>3. \A i \in 1..Len(exports') : exports'[i].at <= tick
    BY <1>3, <1>4, <1>6, <1>1
  <2> QED BY <2>1, <2>2, <2>3 DEF LastOf
<1>8. CASE j # task[p].job \/ status # "completed"
  <2>1. jobs'[j].last = jobs[j].last
    BY <1>3, <1>8 DEF LastRun
  <2>2. ~Completed(n, j)'
    BY <1>3, <1>8 DEF Completed
  <2>3. \A i \in 1..Len(exports) : Completed(i, j)' <=> Completed(i, j)
    BY <1>3 DEF Completed
  <2>4. \A i \in 1..Len(exports') : i \in 1..Len(exports) \/ i = n
    BY <1>3, <1>4, <1>1
  <2>5. \A i \in 1..Len(exports) : i \in 1..Len(exports')
    BY <1>3, <1>4, <1>1
  <2> QED BY <1>3, <1>5, <2>1, <2>2, <2>3, <2>4, <2>5 DEF LastOf
<1> QED BY <1>7, <1>8

\* The run is spaced as its pass found, and no older run had seen it.
LEMMA CommitSpaced ==
    ASSUME ExportsInv, NEW p \in Process, NEW status \in Status, CommitRun(p, status),
           NEW k \in 1..Len(exports')
    PROVE  ExportRow(k)' /\ Spaced(k)'
<1> DEFINE n == Len(exports) + 1
<1>1. /\ task[p].job \in 1..Len(jobs)
      /\ UNCHANGED tick /\ Len(exports') = n /\ Len(jobs') = Len(jobs)
      /\ \A i \in 1..Len(exports) : exports'[i] = exports[i]
      /\ exports'[n] = Written(p, status)
      /\ \A j \in 1..Len(jobs) : jobs'[j].schedule = jobs[j].schedule
  BY CommitTables
<1>2. /\ Len(exports) \in Nat /\ tick \in Nat
      /\ \A i \in 1..Len(exports) : exports[i] \in Export
      /\ task[p] \in Work /\ TaskRow(p) /\ task[p].pc = "report"
  BY ExportRows DEF ExportsInv, Tasks, CommitRun
<1>3. \A i \in 1..Len(exports) : exports[i].seen \in Nat
  BY <1>2 DEF Export
<1>4. task[p].seen \in Nat /\ task[p].seen <= Len(exports)
  BY <1>2 DEF Work, TaskRow
<1>5. \A i \in 1..Len(exports) : ExportRow(i) /\ Spaced(i)
  BY DEF ExportsInv, ExportTables
<1> HIDE DEF n
<1>6. n = Len(exports) + 1
  BY DEF n
<1>7. CASE k \in 1..Len(exports)
  <2>1. ExportRow(k) /\ Spaced(k) /\ exports'[k] = exports[k] /\ exports[k].seen \in Nat
    BY <1>1, <1>3, <1>5, <1>7
  <2>2. ExportRow(k)'
    BY <1>1, <2>1 DEF ExportRow
  <2>3. ASSUME NEW i \in 1..Len(exports'), i <= exports[k].seen
        PROVE  exports'[i] = exports[i] /\ i \in 1..Len(exports)
    <3>1. i <= Len(exports)
      BY <1>2, <1>7, <2>1, <2>3, <1>1, <1>6 DEF ExportRow
    <3> QED BY <1>1, <1>2, <3>1
  <2>4. jobs'[exports[k].job].schedule = jobs[exports[k].job].schedule
    BY <1>1, <2>1 DEF ExportRow
  <2>5. Spaced(k)'
    BY <2>1, <2>3, <2>4 DEF Spaced, Completed
  <2> QED BY <2>2, <2>5
<1>8. CASE k = n
  <2>1. /\ exports'[k].job = task[p].job /\ exports'[k].at = tick /\ exports'[k].by = task[p].by
        /\ exports'[k].began = task[p].began /\ exports'[k].seen = task[p].seen
    BY <1>1, <1>8 DEF Written
  <2>2. ExportRow(k)'
    BY <1>1, <1>2, <1>4, <1>6, <1>8, <2>1 DEF ExportRow
  <2>3. \A i \in 1..task[p].seen : exports'[i] = exports[i]
    BY <1>1, <1>2, <1>4
  <2>4. jobs'[task[p].job].schedule = jobs[task[p].job].schedule
    BY <1>1
  <2>5. task[p].by = "pass" =>
          \A i \in 1..task[p].seen : Completed(i, task[p].job) =>
             task[p].began - exports[i].at >= Cadence(jobs[task[p].job].schedule)
    BY <1>2 DEF TaskRow
  <2>6. \A i \in 1..Len(exports') : i <= task[p].seen => i \in 1..task[p].seen
    BY <1>4
  <2>7. Spaced(k)'
    BY <2>1, <2>3, <2>4, <2>5, <2>6 DEF Spaced, Completed
  <2> QED BY <2>2, <2>7
<1> QED BY <1>1, <1>2, <1>6, <1>7, <1>8

LEMMA CommitStep ==
    ASSUME ExportsInv, NEW p \in Process, NEW status \in Status, CommitRun(p, status) PROVE ExportsInv'
<1>1. /\ tick' = tick /\ jobs' \in Seq(Job) /\ exports' \in Seq(Export)
      /\ Len(jobs') = Len(jobs) /\ Len(exports') = Len(exports) + 1
      /\ \A i \in 1..Len(exports) : exports'[i] = exports[i]
      /\ \A j \in 1..Len(jobs) : jobs'[j].schedule = jobs[j].schedule
  BY CommitTables
<1>2. \A j \in 1..Len(jobs') : LastOf(j)'
  BY <1>1, CommitLast
<1>3. \A k \in 1..Len(exports') : ExportRow(k)' /\ Spaced(k)'
  BY CommitSpaced
<1>4. ExportTables'
  BY <1>1, <1>2, <1>3, ExportRows DEF ExportTables
<1>5. /\ Len(jobs) \in Nat /\ Len(exports) \in Nat /\ task[p] \in Work /\ TaskRow(p)
  BY ExportRows DEF ExportsInv, Tasks
<1>6. Grown
  BY <1>1, <1>5 DEF Grown
<1>7. CASE Goes(p, IdleWork)
  BY <1>4, <1>6, <1>7, BecomesIdle DEF ExportsInv
<1>8. CASE Goes(p, [task[p] EXCEPT !.pc = "jobs", !.fresh = TRUE, !.job = 0])
  <2> DEFINE w == [task[p] EXCEPT !.pc = "jobs", !.fresh = TRUE, !.job = 0]
  <2>1. /\ w \in Work /\ w.pc = "jobs" /\ w.fresh /\ w.left = task[p].left /\ w.seen = task[p].seen
    BY <1>5 DEF Work
  <2>2. Goes(p, w)
    BY <1>8
  <2>3. task[p].seen \in Nat
    BY <1>5 DEF Work
  <2> HIDE DEF w
  <2>4. task'[p] = w
    BY <2>2, Moved
  <2>5. TaskRow(p)' /\ ReadRow(p)'
    BY <1>1, <1>5, <2>1, <2>3, <2>4 DEF TaskRow, ReadRow
  <2> QED BY <1>4, <1>6, <2>1, <2>2, <2>5, TaskStep DEF ExportsInv
<1> QED BY <1>7, <1>8, Zenon DEF CommitRun

-----------------------------------------------------------------------------
LEMMA Starts == ASSUME ExportsInit PROVE ExportsInv
<1>1. tick = 0 /\ jobs = << >> /\ exports = << >> /\ task = [p \in Process |-> IdleWork]
  BY DEF ExportsInit
<1>2. jobs \in Seq(Job) /\ exports \in Seq(Export) /\ Len(jobs) = 0 /\ Len(exports) = 0
  BY <1>1
<1>3. ExportTables
  BY <1>1, <1>2 DEF ExportTables
<1>4. task \in [Process -> Work]
  BY <1>1, IdleTyped
<1>5. IdleWork.left = {} /\ IdleWork.seen = 0 /\ IdleWork.pc = "idle"
  BY DEF IdleWork
<1>6. \A p \in Process : TaskRow(p) /\ ReadRow(p)
  BY <1>1, <1>2, <1>5 DEF TaskRow, ReadRow
<1> QED BY <1>3, <1>4, <1>6 DEF ExportsInv, Tasks

LEMMA RunStep == ASSUME ExportsInv, NEW p \in Process, Runs(p) PROVE ExportsInv'
<1>1. CASE LockTimeout(p) \/ Dies(p)
  BY <1>1, IdleStep DEF LockTimeout, Dies
<1> QED BY <1>1, InsertStep, CommitStep DEF Runs, Status

LEMMA PassStep == ASSUME ExportsInv, NEW p \in Process, PassOf(p) PROVE ExportsInv'
BY StartStep, ReadStep, TakeStep, RunStep DEF PassOf

LEMMA Step == ASSUME ExportsInv, [ExportsNext]_exportVars PROVE ExportsInv'
<1>1. CASE UNCHANGED exportVars
  <2>1. UNCHANGED <<tick, jobs, exports, task>>
    BY <1>1 DEF exportVars
  <2>2. Grown /\ ExportTables'
    BY <2>1, ExportRows, SameGrown, TablesSame
  <2> QED BY <2>1, <2>2, Waiting DEF ExportsInv, Tasks
<1>2. CASE ExportsNext
  BY <1>2, PassStep, RunStep, DemandStep, CreateStep, TickStep
     DEF ExportsNext, Demands, Creates
<1> QED BY <1>1, <1>2

-----------------------------------------------------------------------------
LEMMA MaxIs == ASSUME NEW S, S \subseteq Int, NEW m \in S, \A x \in S : x <= m PROVE Max(S) = m
<1>1. \A x \in S : (\A y \in S : x >= y) => x = m
  OBVIOUS
<1>2. \A y \in S : m >= y
  OBVIOUS
<1> QED BY <1>1, <1>2 DEF Max

LEMMA LastRuns == ASSUME ExportsInv PROVE LastRunTrue
<1> SUFFICES ASSUME NEW j \in DOMAIN jobs
             PROVE  LET done == {exports[i].at : i \in {k \in DOMAIN exports :
                                     exports[k].job = j /\ exports[k].status = "completed"}}
                    IN  jobs[j].last = IF done = {} THEN Never ELSE Max(done)
  BY DEF LastRunTrue
<1> DEFINE done == {exports[i].at : i \in {k \in DOMAIN exports :
                        exports[k].job = j /\ exports[k].status = "completed"}}
<1>1. j \in 1..Len(jobs) /\ DOMAIN exports = 1..Len(exports) /\ LastOf(j)
  BY ExportRows DEF ExportsInv, ExportTables
<1>2. jobs[j].last \in Nat \cup {Never} /\ \A i \in 1..Len(exports) : exports[i].at \in Nat
  BY <1>1, ExportRows DEF Job, Export
<1>3. \A x \in done : x \in Nat /\ x <= jobs[j].last
  BY <1>1, <1>2 DEF LastOf, Completed
<1>4. jobs[j].last # Never => jobs[j].last \in done
  BY <1>1 DEF LastOf, Completed
<1> HIDE DEF done
<1>5. jobs[j].last = Never => done = {}
  BY <1>3 DEF Never
<1>6. ASSUME jobs[j].last # Never PROVE jobs[j].last = Max(done) /\ done # {}
  <2>1. jobs[j].last \in done /\ done \subseteq Int /\ \A x \in done : x <= jobs[j].last
    BY <1>3, <1>4, <1>6
  <2> QED BY <2>1, MaxIs
<1>7. jobs[j].last = IF done = {} THEN Never ELSE Max(done)
  BY <1>5, <1>6
<1> QED BY <1>7 DEF done

\* The last run of a job is its latest completed run, and a run of the scheduler
\* keeps the cadence of its job to all completed runs that its pass had seen,
\* however runs of passes and users interleave, fail or die.
THEOREM ExportsKeptHolds == ExportsSpec => []ExportsKept
<1>1. ExportsInit => ExportsInv
  BY Starts
<1>2. ExportsInv /\ [ExportsNext]_exportVars => ExportsInv'
  BY Step
<1>3. ExportsInv => RunsSpaced
  BY ExportRows DEF ExportsInv, ExportTables, Spaced, Completed, RunsSpaced
<1>4. ExportsInv => ExportsKept
  BY <1>3, LastRuns DEF ExportsKept
<1> QED BY <1>1, <1>2, <1>4, PTL DEF ExportsSpec

-----------------------------------------------------------------------------
(* CSV files of costs: module CostImport.                                  *)

\* A flattened sequence is empty if every part of it is.
LEMMA FlatEmpty ==
    ASSUME NEW A, NEW ss \in Seq(Seq(A))
    PROVE  /\ FlattenSeq(ss) \in Seq(A)
           /\ FlattenSeq(ss) = <<>> <=> \A i \in 1..Len(ss) : ss[i] = <<>>
<1>1. CASE Len(ss) = 0
  <2>1. ss = <<>> /\ ss \in Seq(A) /\ \A i \in 1..Len(ss) : FALSE
    BY <1>1
  <2>2. FlattenSeq(ss) = ss
    BY <1>1 DEF FlattenSeq
  <2> QED BY <2>1, <2>2
<1>2. CASE Len(ss) # 0
  <2>1. Len(ss) \in Nat /\ Len(ss) >= 1 /\ \A i \in 1..Len(ss) : ss[i] \in Seq(A)
    BY <1>2
  <2>2. PICK n \in Nat : n = Len(ss) /\ n >= 1
    BY <2>1
  <2>3. PICK g : g = (CHOOSE h : FlatSolution(h, ss, n))
    OBVIOUS
  <2>4. FlatSolution(g, ss, n)
    BY <2>3, FlatSolvable
  <2>5. \A i \in 1..n : g[i] = FlatRule(ss, g, i)
    BY <2>4 DEF FlatSolution
  <2> DEFINE Flat(i) ==
        /\ g[i] \in Seq(A)
        /\ g[i] = <<>> <=> \A j \in 1..i : ss[j] = <<>>
             T == {i \in 1..n : ~Flat(i)}
  <2>6. T = {}
    <3> SUFFICES ASSUME T # {} PROVE FALSE
      OBVIOUS
    <3>1. PICK m \in T : \A k \in T : m <= k
      <4> T \in SUBSET Nat OBVIOUS
      <4> HIDE DEF T
      <4> QED BY LeastNumber
    <3>2. m \in 1..n /\ ss[m] \in Seq(A)
      BY <2>1, <2>2
    <3>3. CASE m = 1
      <4>1. g[1] = ss[1]
        BY <2>5, <3>2, <3>3 DEF FlatRule
      <4>2. \A j \in 1..1 : j = 1
        OBVIOUS
      <4>3. Flat(1)
        BY <3>2, <3>3, <4>1, <4>2
      <4> QED BY <3>3, <4>3
    <3>4. CASE m # 1
      <4>1. m - 1 \in 1..n /\ m - 1 < m
        BY <3>2, <3>4
      <4>2. m - 1 \notin T
        <5> HIDE DEF T
        <5> QED BY <3>1, <3>2, <4>1
      <4>3. Flat(m - 1)
        BY <4>1, <4>2
      <4>4. PICK p, q \in Seq(A) : p = g[m - 1] /\ q = ss[m]
        BY <3>2, <4>3
      <4>5. g[m] = p \o q
        BY <2>5, <3>2, <3>4, <4>4 DEF FlatRule
      <4>6. p \o q \in Seq(A) /\ (p \o q = <<>> <=> p = <<>> /\ q = <<>>)
        OBVIOUS
      <4>7. \A j \in 1..m : j \in 1..(m - 1) \/ j = m
        BY <3>2
      <4>8. m \in 1..m /\ \A j \in 1..(m - 1) : j \in 1..m
        BY <3>2
      <4>9. p = <<>> <=> \A j \in 1..(m - 1) : ss[j] = <<>>
        BY <4>3, <4>4
      <4>10. (\A j \in 1..m : ss[j] = <<>>) <=> p = <<>> /\ q = <<>>
        BY <4>4, <4>7, <4>8, <4>9
      <4>11. Flat(m)
        BY <4>5, <4>6, <4>10
      <4> QED BY <4>11
    <3> QED BY <3>3, <3>4
  <2>7. Flat(n)
    <3>1. n \in 1..n
      BY <2>2
    <3> QED BY <2>6, <3>1
  <2>8. FlattenSeq(ss) = g[n]
    BY <1>2, <2>2, <2>3, FlatUnfold
  <2> QED BY <2>2, <2>7, <2>8
<1> QED BY <1>1, <1>2

-----------------------------------------------------------------------------
File == CsvFile \cup {NoFile}

LEMMA FileRows ==
    ASSUME NEW file \in File
    PROVE  /\ file.readable \in BOOLEAN /\ file.rows \in Seq(CsvLine)
           /\ DOMAIN file.rows = 1..Len(file.rows) /\ Len(file.rows) \in Nat
           /\ \A i \in DOMAIN file.rows : file.rows[i] \in CsvLine /\ file.rows[i].cost \in Int
           /\ GoodRows(file) \subseteq DOMAIN file.rows /\ IsFiniteSet(GoodRows(file))
<1>1. file.readable \in BOOLEAN /\ file.rows \in Seq(CsvLine)
  <2>1. CASE file = NoFile
    BY <2>1 DEF NoFile
  <2>2. CASE file \in CsvFile
    BY <2>2, CsvBounds
  <2> QED BY <2>1, <2>2 DEF File
<1>2. DOMAIN file.rows = 1..Len(file.rows) /\ Len(file.rows) \in Nat
  BY <1>1
<1>3. \A i \in DOMAIN file.rows : file.rows[i] \in CsvLine
  BY <1>1
<1>4. GoodRows(file) \subseteq DOMAIN file.rows
  BY DEF GoodRows
<1>5. IsFiniteSet(GoodRows(file))
  <2>1. IsFiniteSet(1..Len(file.rows))
    <3>1. \A n \in Nat : IsFiniteSet(1..n)
      BY FS_Interval
    <3> QED BY <1>2, <3>1
  <2> QED BY <1>2, <1>4, <2>1, FS_Subset
<1> QED BY <1>1, <1>2, <1>3, <1>4, <1>5 DEF CsvLine

\* What the errors of a file say.
Messages == {"missing cost", "negative cost", "start", "end", "provider", "currency",
             "provider column", "cost column"}

LEMMA MessageSeq == ASSUME NEW m \in Messages PROVE <<m>> \in Seq(Messages) /\ <<m>> # <<>>
OBVIOUS

LEMMA RowErrorsType == ASSUME NEW row PROVE RowErrors(row) \in Seq(Messages)
<1>1. <<>> \in Seq(Messages)
  OBVIOUS
<1>2. CostErrors(row.cost) \in Seq(Messages)
  <2>1. <<"missing cost">> \in Seq(Messages) /\ <<"negative cost">> \in Seq(Messages)
    BY MessageSeq DEF Messages
  <2> QED BY <1>1, <2>1 DEF CostErrors
<1>3. DateErrors(row.dates) \in Seq(Messages)
  <2>1. <<"start">> \in Seq(Messages) /\ <<"end">> \in Seq(Messages)
    BY MessageSeq DEF Messages
  <2> DEFINE s == IF "start" \in row.dates THEN <<"start">> ELSE <<>>
             e == IF "end" \in row.dates THEN <<"end">> ELSE <<>>
  <2>2. s \in Seq(Messages) /\ e \in Seq(Messages)
    BY <1>1, <2>1
  <2> HIDE DEF s, e
  <2>3. s \o e \in Seq(Messages)
    BY <2>2
  <2> QED BY <2>3 DEF DateErrors, s, e
<1>4. CostErrors(row.cost) \o DateErrors(row.dates) \in Seq(Messages)
  BY <1>2, <1>3
<1>5. <<"provider">> \in Seq(Messages) /\ <<"currency">> \in Seq(Messages)
  BY MessageSeq DEF Messages
<1> QED BY <1>4, <1>5 DEF RowErrors

LEMMA HeaderErrorsType ==
    ASSUME NEW file
    PROVE  /\ HeaderErrors(file) \in Seq(Messages)
           /\ HeaderErrors(file) = <<>> <=> {"provider", "cost_usd"} \subseteq file.headers
<1> DEFINE p == IF "provider" \in file.headers THEN <<>> ELSE <<"provider column">>
           c == IF "cost_usd" \in file.headers THEN <<>> ELSE <<"cost column">>
<1>1. /\ <<"provider column">> \in Seq(Messages) /\ <<"provider column">> # <<>>
      /\ <<"cost column">> \in Seq(Messages) /\ <<"cost column">> # <<>>
  BY MessageSeq DEF Messages
<1>2. /\ p \in Seq(Messages) /\ c \in Seq(Messages)
      /\ p = <<>> <=> "provider" \in file.headers
      /\ c = <<>> <=> "cost_usd" \in file.headers
  <2>1. <<>> \in Seq(Messages)
    OBVIOUS
  <2> QED BY <1>1, <2>1
<1> HIDE DEF p, c
<1>3. p \o c \in Seq(Messages) /\ (p \o c = <<>> <=> p = <<>> /\ c = <<>>)
  BY <1>2
<1>4. HeaderErrors(file) = p \o c
  BY DEF HeaderErrors, p, c
<1> QED BY <1>2, <1>3, <1>4

Issues == [severity : {"error", "warning"}, message : Messages \cup {"no tags"}]

\* A preview shows an error, even of a list that is cut, if the file has one.
LEMMA ErrorsShown ==
    ASSUME NEW file \in File
    PROVE  (\A i \in DOMAIN IssuesShown(file) : IssuesShown(file)[i].severity # "error")
             <=> /\ {"provider", "cost_usd"} \subseteq file.headers
                 /\ GoodRows(file) = DOMAIN file.rows
<1> DEFINE ss == [i \in DOMAIN file.rows |-> RowErrors(RowIn(file, i))]
           told == HeaderErrors(file) \o AllErrors(file)
           warned == IF file.rows = <<>> THEN <<>> ELSE <<Issue("warning", "no tags")>>
           all == Errors(told) \o warned
<1>1. ss \in Seq(Seq(Messages)) /\ Len(ss) = Len(file.rows) /\ Len(ss) \in Nat
  <2>1. \A i \in DOMAIN file.rows : RowErrors(RowIn(file, i)) \in Seq(Messages)
    BY RowErrorsType
  <2>2. DOMAIN file.rows = 1..Len(file.rows) /\ Len(file.rows) \in Nat
    BY FileRows
  <2> QED BY <2>1, <2>2
<1>2. /\ AllErrors(file) \in Seq(Messages)
      /\ AllErrors(file) = <<>> <=> GoodRows(file) = DOMAIN file.rows
  <2>1. AllErrors(file) = FlattenSeq(ss)
    BY DEF AllErrors
  <2>2. PICK t : t = ss
    OBVIOUS
  <2>3. FlattenSeq(t) \in Seq(Messages) /\ (FlattenSeq(t) = <<>> <=> \A i \in 1..Len(t) : t[i] = <<>>)
    BY <1>1, <2>2, FlatEmpty
  <2>4. DOMAIN file.rows = 1..Len(t)
    BY <1>1, <2>2, FileRows
  <2>5. (\A i \in 1..Len(t) : t[i] = <<>>) <=> GoodRows(file) = DOMAIN file.rows
    BY <2>2, <2>4 DEF GoodRows
  <2> QED BY <2>1, <2>2, <2>3, <2>5
<1>3. /\ told \in Seq(Messages)
      /\ told = <<>> <=> /\ {"provider", "cost_usd"} \subseteq file.headers
                         /\ GoodRows(file) = DOMAIN file.rows
  <2>1. PICK p, q \in Seq(Messages) : p = HeaderErrors(file) /\ q = AllErrors(file)
    BY <1>2, HeaderErrorsType
  <2>2. p \o q \in Seq(Messages) /\ (p \o q = <<>> <=> p = <<>> /\ q = <<>>)
    OBVIOUS
  <2> QED BY <1>2, <2>1, <2>2, HeaderErrorsType
<1>4. PICK e : e = Errors(told)
  OBVIOUS
<1>5. PICK m \in Seq(Messages) : m = told
  BY <1>3
<1>6. /\ e \in Seq(Issues) /\ Len(e) = Len(m)
      /\ \A i \in 1..Len(e) : e[i].severity = "error"
  <2>1. e = [i \in 1..Len(m) |-> Issue("error", m[i])]
    BY <1>4, <1>5 DEF Errors
  <2>2. \A x \in Messages : Issue("error", x) \in Issues /\ Issue("error", x).severity = "error"
    BY DEF Issue, Issues
  <2>3. Len(m) \in Nat /\ \A i \in 1..Len(m) : m[i] \in Messages
    OBVIOUS
  <2> QED BY <2>1, <2>2, <2>3
<1>7. PICK w : w = warned
  OBVIOUS
<1>8. w \in Seq(Issues) /\ \A i \in 1..Len(w) : w[i].severity = "warning"
  <2>1. PICK x : x = Issue("warning", "no tags")
    OBVIOUS
  <2>2. x \in Issues /\ x.severity = "warning"
    BY <2>1 DEF Issue, Issues
  <2>3. CASE file.rows = <<>>
    <3>1. w = <<>>
      BY <1>7, <2>3
    <3> QED BY <3>1
  <2>4. CASE file.rows # <<>>
    <3>1. w = <<x>>
      BY <1>7, <2>1, <2>4
    <3>2. <<x>> \in Seq(Issues) /\ \A i \in 1..Len(<<x>>) : i = 1 /\ <<x>>[1] = x
      BY <2>2
    <3> QED BY <2>2, <3>1, <3>2
  <2> QED BY <2>3, <2>4
<1>9. PICK a : a = e \o w
  OBVIOUS
<1>10. /\ a \in Seq(Issues) /\ Len(a) = Len(e) + Len(w) /\ Len(e) \in Nat /\ Len(w) \in Nat
       /\ \A i \in 1..Len(a) : a[i] = IF i <= Len(e) THEN e[i] ELSE w[i - Len(e)]
  <2> QED BY <1>6, <1>8, <1>9, ConcatProperties
<1> DEFINE cut == IF Len(a) < MaxIssues THEN Len(a) ELSE MaxIssues
<1>11. IssuesShown(file) = SubSeq(a, 1, cut)
  BY <1>4, <1>7, <1>9 DEF IssuesShown
<1> HIDE DEF all, warned, ss, told
<1>12. cut \in Nat /\ cut <= Len(a) /\ (Len(a) >= 1 => cut >= 1)
  BY <1>10, CsvBounds
<1> HIDE DEF cut
<1>13. PICK s : s = SubSeq(a, 1, cut)
  OBVIOUS
<1>14. DOMAIN s = 1..cut /\ \A i \in 1..cut : s[i] = a[i]
  <2>1. a \in Seq(Issues) /\ 1 \in Int /\ cut \in Int /\ \A i \in 1..cut : a[i] \in Issues
    BY <1>10, <1>12
  <2>2. /\ s \in Seq(Issues)
        /\ Len(s) = IF 1 <= cut THEN cut - 1 + 1 ELSE 0
        /\ \A i \in 1..(cut - 1 + 1) : s[i] = a[1 + i - 1]
    BY <1>13, <2>1, SubSeqProperties
  <2> QED BY <1>12, <2>2
<1>15. CASE Len(e) = 0
  <2>1. \A i \in 1..cut : s[i].severity = "warning"
    <3> SUFFICES ASSUME NEW i \in 1..cut PROVE s[i].severity = "warning"
      OBVIOUS
    <3>1. i \in 1..Len(a) /\ ~(i <= Len(e)) /\ i - Len(e) \in 1..Len(w)
      BY <1>10, <1>12, <1>15
    <3> QED BY <1>8, <1>10, <1>14, <3>1
  <2>2. m = <<>>
    <3>1. m \in Seq(Messages) /\ Len(m) = 0
      BY <1>6, <1>15
    <3> QED BY <3>1, EmptySeq
  <2> QED BY <1>3, <1>5, <1>11, <1>13, <1>14, <2>1, <2>2
<1>16. CASE Len(e) # 0
  <2>1. 1 \in 1..Len(e) /\ 1 \in 1..cut /\ 1 \in 1..Len(a)
    BY <1>10, <1>12, <1>16
  <2>2. s[1] = e[1] /\ e[1].severity = "error"
    BY <1>6, <1>10, <1>14, <2>1
  <2>3. told # <<>>
    BY <1>5, <1>6, <1>16
  <2> QED BY <1>3, <1>11, <1>13, <1>14, <2>1, <2>2, <2>3
<1> QED BY <1>15, <1>16

LEMMA NoFileIn == NoFile \in File /\ Previewed(NoFile) = NoAnswer /\ NoAnswer.status = 400
BY DEF File, NoFile, Previewed, NoAnswer

\* The answer to a preview foretells the upload.
LEMMA PreviewForetells ==
    ASSUME NEW file \in File
    PROVE  ~Refused(file) <=>
             /\ Previewed(file).status = 200 /\ Previewed(file).good > 0
             /\ \A i \in DOMAIN Previewed(file).issues :
                  Previewed(file).issues[i].severity # "error"
<1>1. CASE ~file.readable
  <2>1. Previewed(file).status = 400
    BY <1>1, NoFileIn DEF Previewed
  <2> QED BY <1>1, <2>1 DEF Refused
<1>2. CASE file.readable
  <2>1. /\ Previewed(file).status = 200 /\ Previewed(file).good = Cardinality(GoodRows(file))
        /\ Previewed(file).issues = IssuesShown(file)
    BY <1>2 DEF Previewed
  <2>2. Cardinality(GoodRows(file)) \in Nat
        /\ (Cardinality(GoodRows(file)) > 0 <=> GoodRows(file) # {})
    <3>1. IsFiniteSet(GoodRows(file))
      BY FileRows
    <3>2. Cardinality(GoodRows(file)) \in Nat
          /\ (Cardinality(GoodRows(file)) = 0 <=> GoodRows(file) = {})
      BY <3>1, FS_CardinalityType, FS_EmptySet
    <3> QED BY <3>2
  <2>3. DOMAIN file.rows = {} <=> file.rows = <<>>
    BY FileRows
  <2> QED BY <1>2, <2>1, <2>2, <2>3, ErrorsShown DEF Refused
<1> QED BY <1>1, <1>2

-----------------------------------------------------------------------------
\* The rows that an upload stores.
RowsOf(file, n) ==
    {[upload |-> n, line |-> i, provider |-> file.rows[i].provider,
      cost |-> file.rows[i].cost] : i \in GoodRows(file)}

CsvInv ==
    /\ preview.file \in File /\ preview.answer = Previewed(preview.file)
    /\ uploads \in Nat /\ accepted.number \in Nat
    /\ accepted.number > 0 =>
         /\ accepted.file \in File /\ ~Refused(accepted.file)
         /\ kept = RowsOf(accepted.file, accepted.number)

LEMMA RowCostIs ==
  ASSUME NEW S, IsFiniteSet(S), NEW f, \A x \in S : f[x] = x.cost
  PROVE  MapThenSumSet(LAMBDA r : r.cost, S) = SumOver(f, S)
<1> DEFINE Solves(g) ==
      g = [s \in SUBSET S |-> IF s = {} THEN 0 ELSE Picked(s).cost + g[s \ {Picked(s)}]]
<1>1. MapThenSumSet(LAMBDA r : r.cost, S) = (CHOOSE g : Solves(g))[S]
  BY Zenon DEF MapThenSumSet, MapThenFoldSet, Picked
<1>2. ASSUME NEW g
      PROVE  Solves(g) <=> SumSolution(g, f, SUBSET S)
  <2>1. \A s \in SUBSET S :
          (IF s = {} THEN 0 ELSE Picked(s).cost + g[s \ {Picked(s)}]) = SumRule(f, g, s)
    BY PickedIn DEF SumRule
  <2> QED BY <2>1 DEF SumSolution
<1> HIDE DEF Solves
<1>3. PICK g : g = (CHOOSE k : Solves(k))
  OBVIOUS
<1>4. SumSolution(g, f, SUBSET S)
  BY <1>2, <1>3, SumSolvable
<1>5. g[S] = SumOver(f, S)
  BY <1>4, SumSolved
<1> QED BY <1>1, <1>3, <1>5, Zenon

LEMMA CostOfRowsIs ==
  ASSUME NEW file, NEW S, IsFiniteSet(S), NEW f, \A i \in S : f[i] = file.rows[i].cost
  PROVE  CostOfRows(file, S) = SumOver(f, S)
<1> DEFINE Solves(g) ==
      g = [s \in SUBSET S |->
             IF s = {} THEN 0 ELSE file.rows[Picked(s)].cost + g[s \ {Picked(s)}]]
<1>1. CostOfRows(file, S) = (CHOOSE g : Solves(g))[S]
  BY Zenon DEF CostOfRows, MapThenSumSet, MapThenFoldSet, Picked
<1>2. ASSUME NEW g
      PROVE  Solves(g) <=> SumSolution(g, f, SUBSET S)
  <2>1. \A s \in SUBSET S :
          (IF s = {} THEN 0 ELSE file.rows[Picked(s)].cost + g[s \ {Picked(s)}]) = SumRule(f, g, s)
    BY PickedIn DEF SumRule
  <2> QED BY <2>1 DEF SumSolution
<1> HIDE DEF Solves
<1>3. PICK g : g = (CHOOSE k : Solves(k))
  OBVIOUS
<1>4. SumSolution(g, f, SUBSET S)
  BY <1>2, <1>3, SumSolvable
<1>5. g[S] = SumOver(f, S)
  BY <1>4, SumSolved
<1> QED BY <1>1, <1>3, <1>5, Zenon

\* The summary of the rows of a file is the one of its preview.
LEMMA StoredAsPreviewed ==
    ASSUME NEW file \in File, ~Refused(file), NEW n \in Nat, kept = RowsOf(file, n)
    PROVE  ImportSummary = [rows |-> Previewed(file).good, total |-> Previewed(file).total,
                            providers |-> Previewed(file).providers, upload |-> n]
<1> DEFINE S == GoodRows(file)
           Row(i) == [upload |-> n, line |-> i, provider |-> file.rows[i].provider,
                      cost |-> file.rows[i].cost]
           e == [i \in S |-> Row(i)]
           f == [r \in kept |-> r.cost]
           h == [i \in S |-> file.rows[i].cost]
<1>1. /\ IsFiniteSet(S) /\ S = DOMAIN file.rows /\ S # {} /\ file.readable
      /\ \A i \in S : file.rows[i].cost \in Int
  <2>1. S = DOMAIN file.rows /\ file.rows # <<>> /\ file.readable
    BY FileRows DEF Refused
  <2>2. /\ file.rows \in Seq(CsvLine) /\ DOMAIN file.rows = 1..Len(file.rows)
        /\ Len(file.rows) \in Nat
    BY FileRows
  <2>3. 1 \in DOMAIN file.rows
    BY <2>1, <2>2
  <2> QED BY <2>1, <2>3, FileRows
<1>2. /\ Previewed(file).good = Cardinality(S) /\ Previewed(file).total = CostOfRows(file, S)
      /\ Previewed(file).providers = {file.rows[i].provider : i \in S}
  BY <1>1 DEF Previewed, ProvidersOf
<1>3. kept = {Row(i) : i \in S}
  BY DEF RowsOf
<1>4. Cardinality(kept) = Cardinality(S) /\ IsFiniteSet(kept)
  <2>1. e \in Bijection(S, kept)
    <3>1. PICK c : c = e
      OBVIOUS
    <3>2. c \in [S -> kept]
      BY <1>3, <3>1
    <3>3. \A x, y \in S : c[x] = c[y] => x = y
      <4> SUFFICES ASSUME NEW x \in S, NEW y \in S, c[x] = c[y] PROVE x = y
        OBVIOUS
      <4>1. c[x].line = x /\ c[y].line = y
        BY <3>1
      <4> QED BY <4>1
    <3>4. \A r \in kept : \E x \in S : c[x] = r
      BY <1>3, <3>1
    <3>5. c \in Bijection(S, kept)
      BY <3>2, <3>3, <3>4 DEF Bijection, Injection, Surjection, IsInjective
    <3> QED BY <3>1, <3>5
  <2>2. PICK b : b \in Bijection(S, kept)
    BY <2>1
  <2> QED BY <1>1, <2>2, FS_Bijection DEF ExistsBijection
<1>5. MapThenSumSet(LAMBDA r : r.cost, kept) = CostOfRows(file, S)
  <2>1. PICK c, d, k : c = e /\ d = f /\ k = h
    OBVIOUS
  <2>2. MapThenSumSet(LAMBDA r : r.cost, kept) = SumOver(d, kept)
    <3>1. \A x \in kept : d[x] = x.cost
      BY <2>1
    <3> QED BY <1>4, <3>1, RowCostIs
  <2>3. CostOfRows(file, S) = SumOver(k, S)
    <3>1. \A i \in S : k[i] = file.rows[i].cost
      BY <2>1
    <3> QED BY <1>1, <3>1, CostOfRowsIs
  <2>4. \A x, y \in S : c[x] = c[y] => x = y
    BY <2>1
  <2>5. \A x \in S : k[x] \in Int /\ d[c[x]] = k[x]
    BY <1>1, <1>3, <2>1
  <2>6. kept = {c[x] : x \in S}
    BY <1>3, <2>1
  <2>7. SumOver(d, {c[x] : x \in S}) = SumOver(k, S)
    BY <1>1, <2>4, <2>5, SumImage
  <2> QED BY <2>2, <2>3, <2>6, <2>7
<1>8. /\ \A r \in kept : \E i \in S : r = Row(i)
      /\ \A i \in S : /\ Row(i) \in kept
                      /\ Row(i).provider = file.rows[i].provider /\ Row(i).upload = n
  BY <1>3
<1> HIDE DEF Row
<1>6. {r.provider : r \in kept} = {file.rows[i].provider : i \in S}
  <2>1. \A r \in kept : \E i \in S : r.provider = file.rows[i].provider
    BY <1>8
  <2>2. \A i \in S : \E r \in kept : r.provider = file.rows[i].provider
    BY <1>8
  <2> QED BY <2>1, <2>2
<1>7. kept # {} /\ Max({r.upload : r \in kept}) = n
  <2>3. /\ \A r \in kept : r.upload = n
        /\ \E r \in kept : TRUE
    BY <1>1, <1>8
  <2>1. kept # {} /\ {r.upload : r \in kept} = {n}
    BY <2>3
  <2>2. Max({n}) = n
    BY DEF Max
  <2> QED BY <2>1, <2>2
<1> QED BY <1>2, <1>4, <1>5, <1>6, <1>7 DEF ImportSummary

\* preview_cost_csv_import, upload_cost_csv and get_imported_cost_summary (api.py): of
\* files of any size a preview foretells whether the upload is taken, however short the
\* list of issues that it shows, and what the database then holds is what the preview
\* of the last accepted file counted, whatever was uploaded or refused before and after.
THEOREM ImportsTrueHolds == CsvSpec => []ImportsTrue
<1>1. CsvInit => CsvInv
  <2> SUFFICES ASSUME CsvInit PROVE CsvInv
    OBVIOUS
  <2> QED BY NoFileIn DEF CsvInit, CsvInv
<1>2. CsvInv /\ [CsvNext]_csvVars => CsvInv'
  <2> SUFFICES ASSUME CsvInv, [CsvNext]_csvVars PROVE CsvInv'
    OBVIOUS
  <2>1. CASE UNCHANGED csvVars
    BY <2>1 DEF csvVars, CsvInv
  <2>2. ASSUME NEW file \in CsvFile, Preview(file) PROVE CsvInv'
    <3>1. file \in File
      BY DEF File
    <3>2. preview' = [file |-> file, answer |-> Previewed(file)]
          /\ UNCHANGED <<kept, uploads, accepted>>
      BY <2>2 DEF Preview
    <3> QED BY <3>1, <3>2 DEF CsvInv
  <2>3. ASSUME NEW file \in CsvFile, UploadCsv(file) PROVE CsvInv'
    <3>1. file \in File
      BY DEF File
    <3>2. uploads' = uploads + 1 /\ preview' = preview /\ uploads' \in Nat
      BY <2>3 DEF UploadCsv, CsvInv
    <3>3. CASE Refused(file)
      BY <2>3, <3>2, <3>3 DEF UploadCsv, CsvInv
    <3>4. CASE ~Refused(file)
      <4>1. kept' = RowsOf(file, uploads') /\ accepted' = [file |-> file, number |-> uploads']
        BY <2>3, <3>4 DEF UploadCsv, RowsLeft, RowsOf
      <4> QED BY <3>1, <3>2, <3>4, <4>1 DEF CsvInv
    <3> QED BY <3>3, <3>4
  <2> QED BY <2>1, <2>2, <2>3 DEF CsvNext
<1>3. CsvInv => ImportsTrue
  <2> SUFFICES ASSUME CsvInv PROVE ImportsTrue
    OBVIOUS
  <2>1. PreviewTrue
    <3>1. PICK file \in File : file = preview.file
      BY DEF CsvInv
    <3>2. preview.answer = Previewed(file)
      BY <3>1 DEF CsvInv
    <3> QED BY <3>1, <3>2, PreviewForetells DEF PreviewTrue
  <2>2. SummaryTrue
    <3> SUFFICES ASSUME accepted.number > 0
                 PROVE  ImportSummary =
                          [rows |-> Previewed(accepted.file).good,
                           total |-> Previewed(accepted.file).total,
                           providers |-> Previewed(accepted.file).providers,
                           upload |-> accepted.number]
      BY DEF SummaryTrue
    <3>1. PICK file \in File, n \in Nat : file = accepted.file /\ n = accepted.number
      BY DEF CsvInv
    <3>2. ~Refused(file) /\ kept = RowsOf(file, n)
      BY <3>1 DEF CsvInv
    <3>3. ImportSummary = [rows |-> Previewed(file).good, total |-> Previewed(file).total,
                           providers |-> Previewed(file).providers, upload |-> n]
      BY <3>2, StoredAsPreviewed
    <3> QED BY <3>1, <3>3
  <2> QED BY <2>1, <2>2 DEF ImportsTrue
<1> QED BY <1>1, <1>2, <1>3, PTL DEF CsvSpec

-----------------------------------------------------------------------------
(* What a provider is asked and answers: module ProviderCosts.              *)

KeepRule(list, g, i) ==
    IF i = 0 THEN <<>>
    ELSE IF list[i] \in Range(g[i - 1]) THEN g[i - 1] ELSE Append(g[i - 1], list[i])

KeepSolution(g, list, n) == g = [i \in 0..n |-> KeepRule(list, g, i)]

LEMMA DistinctUnfold ==
    ASSUME NEW list
    PROVE  Distinct(list) = (CHOOSE g : KeepSolution(g, list, Len(list)))[Len(list)]
BY Zenon DEF Distinct, KeepSolution, KeepRule

LEMMA KeepSolvable ==
    ASSUME NEW list, NEW n \in Nat
    PROVE  \E g : KeepSolution(g, list, n)
<1> DEFINE T == {m \in Nat : ~\E g : KeepSolution(g, list, m)}
<1>1. T = {}
  <2> SUFFICES ASSUME T # {} PROVE FALSE
    OBVIOUS
  <2>1. PICK m \in T : \A k \in T : m <= k
    <3> T \in SUBSET Nat OBVIOUS
    <3> HIDE DEF T
    <3> QED BY LeastNumber
  <2>2. m # 0
    <3> SUFFICES ASSUME m = 0 PROVE FALSE OBVIOUS
    <3> DEFINE g == [i \in 0..0 |-> <<>>]
    <3>1. \A i \in 0..0 : KeepRule(list, g, i) = <<>>
      BY DEF KeepRule
    <3>2. KeepSolution(g, list, 0)
      BY <3>1 DEF KeepSolution
    <3> QED BY <3>2
  <2>3. m - 1 \in Nat /\ m - 1 \notin T
    <3> m \in Nat OBVIOUS
    <3> HIDE DEF T
    <3> QED BY <2>1, <2>2
  <2>4. PICK g : KeepSolution(g, list, m - 1)
    BY <2>3
  <2> DEFINE h == [i \in 0..m |-> KeepRule(list, g, i)]
  <2>5. ASSUME NEW i \in 0..m
        PROVE  KeepRule(list, g, i) = KeepRule(list, h, i)
    <3>1. CASE i = 0
      BY <3>1 DEF KeepRule
    <3>2. CASE i # 0
      <4>1. i - 1 \in 0..(m - 1) /\ i - 1 \in 0..m
        BY <3>2, <2>3
      <4>2. g[i - 1] = KeepRule(list, g, i - 1)
        BY <2>4, <4>1 DEF KeepSolution
      <4>3. h[i - 1] = KeepRule(list, g, i - 1)
        BY <4>1
      <4> QED BY <3>2, <4>2, <4>3 DEF KeepRule
    <3> QED BY <3>1, <3>2
  <2>6. KeepSolution(h, list, m)
    BY <2>5 DEF KeepSolution
  <2> QED BY <2>1, <2>6
<1> QED BY <1>1

Different(s) == \A i, j \in 1..Len(s) : s[i] = s[j] => i = j

\* What is appended to a sequence without repetition, if it is new.
LEMMA AppendDifferent ==
    ASSUME NEW T, NEW s \in Seq(T), Different(s), NEW x \in T, x \notin Range(s)
    PROVE  /\ Append(s, x) \in Seq(T) /\ Different(Append(s, x))
           /\ Range(Append(s, x)) = Range(s) \cup {x}
<1>1. \A i \in 1..Len(s) : s[i] # x /\ s[i] \in Range(s)
  BY DEF Range
<1>2. /\ Append(s, x) \in Seq(T) /\ Len(Append(s, x)) = Len(s) + 1
      /\ \A i \in 1..Len(s) : Append(s, x)[i] = s[i]
      /\ Append(s, x)[Len(s) + 1] = x /\ Len(s) \in Nat
  OBVIOUS
<1>3. Different(Append(s, x))
  BY <1>1, <1>2 DEF Different
<1>4. 1..(Len(s) + 1) = 1..Len(s) \cup {Len(s) + 1}
  BY <1>2
<1>5. Range(Append(s, x)) = Range(s) \cup {x}
  <2>1. DOMAIN Append(s, x) = 1..(Len(s) + 1) /\ DOMAIN s = 1..Len(s)
    BY <1>2
  <2>2. ASSUME NEW y \in Range(Append(s, x)) PROVE y \in Range(s) \cup {x}
    BY <1>2, <1>4, <2>1 DEF Range
  <2>3. ASSUME NEW y \in Range(s) PROVE y \in Range(Append(s, x))
    BY <1>2, <1>4, <2>1 DEF Range
  <2>4. x \in Range(Append(s, x))
    BY <1>2, <1>4, <2>1 DEF Range
  <2> QED BY <2>2, <2>3, <2>4
<1> QED BY <1>2, <1>3, <1>5

\* Distinct keeps every name once.
LEMMA DistinctKeeps ==
    ASSUME NEW T, NEW list \in Seq(T)
    PROVE  /\ Distinct(list) \in Seq(T)
           /\ Different(Distinct(list))
           /\ Range(Distinct(list)) = Range(list)
<1>1. PICK n \in Nat : n = Len(list)
  OBVIOUS
<1>2. PICK g : g = (CHOOSE h : KeepSolution(h, list, n))
  OBVIOUS
<1>3. KeepSolution(g, list, n)
  BY <1>2, KeepSolvable
<1>4. \A i \in 0..n : g[i] = KeepRule(list, g, i)
  BY <1>3 DEF KeepSolution
<1> DEFINE Kept(i) ==
      /\ g[i] \in Seq(T) /\ Different(g[i])
      /\ Range(g[i]) = {list[j] : j \in 1..i}
           B == {i \in 0..n : ~Kept(i)}
<1>5. B = {}
  <2> SUFFICES ASSUME B # {} PROVE FALSE
    OBVIOUS
  <2>1. PICK m \in B : \A k \in B : m <= k
    <3> B \in SUBSET Nat BY <1>1
    <3> HIDE DEF B
    <3> QED BY LeastNumber
  <2>2. m \in 0..n /\ ~Kept(m) /\ \A k \in 0..n : k < m => Kept(k)
    <3>1. m \in 0..n /\ ~Kept(m)
      OBVIOUS
    <3>2. ASSUME NEW k \in 0..n, k < m PROVE Kept(k)
      <4> SUFFICES ASSUME ~Kept(k) PROVE FALSE
        OBVIOUS
      <4>1. k \in B
        OBVIOUS
      <4> HIDE DEF B, Kept
      <4>2. m \in Int /\ k \in Int /\ m <= k
        BY <2>1, <3>1, <4>1
      <4> QED BY <3>2, <4>2
    <3> HIDE DEF Kept
    <3> QED BY <3>1, <3>2
  <2>3. CASE m = 0
    <3>1. g[0] = <<>> /\ 1..0 = {}
      BY <1>1, <1>4 DEF KeepRule
    <3> QED BY <2>2, <2>3, <3>1 DEF Different, Range
  <2>4. CASE m # 0
    <3>1. PICK k \in 0..n : k = m - 1
      BY <1>1, <2>2, <2>4
    <3>2. Kept(k) /\ m \in 1..n /\ list[m] \in T /\ 1..m = 1..k \cup {m}
      <4>1. m \in 1..n /\ list[m] \in T /\ 1..m = 1..k \cup {m} /\ k < m
        BY <1>1, <2>2, <2>4, <3>1
      <4>2. Kept(k)
        <5> HIDE DEF Kept
        <5> QED BY <2>2, <4>1
      <4> QED BY <4>1, <4>2
    <3>3. g[m] = IF list[m] \in Range(g[k]) THEN g[k] ELSE Append(g[k], list[m])
      BY <1>4, <2>2, <2>4, <3>1 DEF KeepRule
    <3>4. {list[j] : j \in 1..m} = Range(g[k]) \cup {list[m]}
      BY <3>2
    <3>5. CASE list[m] \in Range(g[k])
      BY <2>2, <3>2, <3>3, <3>4, <3>5
    <3>6. CASE list[m] \notin Range(g[k])
      <4>1. PICK s, x : s = g[k] /\ x = list[m]
        OBVIOUS
      <4>2. /\ Append(s, x) \in Seq(T) /\ Different(Append(s, x))
            /\ Range(Append(s, x)) = Range(s) \cup {x}
        BY <3>2, <3>6, <4>1, AppendDifferent
      <4> QED BY <2>2, <3>3, <3>4, <3>6, <4>1, <4>2
    <3> QED BY <3>5, <3>6
  <2> QED BY <2>3, <2>4
<1>6. Kept(n)
  <2>1. n \in 0..n
    BY <1>1
  <2>2. n \notin B
    BY <1>5
  <2> HIDE DEF Kept
  <2> QED BY <2>1, <2>2
<1>7. {list[j] : j \in 1..n} = Range(list)
  BY <1>1 DEF Range
<1> QED BY <1>1, <1>2, <1>6, <1>7, DistinctUnfold

\* Costs can be ranked: there are as many as the limit, and no larger ones, or all.
LEMMA LargestExists ==
    ASSUME NEW costs, IsFiniteSet(DOMAIN costs), \A n \in DOMAIN costs : costs[n] \in Int,
           NEW limit \in Nat
    PROVE  \E shown \in SUBSET DOMAIN costs :
              /\ Cardinality(shown) <= limit
              /\ \A n \in DOMAIN costs \ shown :
                    Cardinality(shown) = limit /\ \A m \in shown : costs[m] >= costs[n]
<1> DEFINE D == DOMAIN costs
           Ranked(shown, l) ==
               /\ Cardinality(shown) <= l
               /\ \A n \in D \ shown : Cardinality(shown) = l /\ \A m \in shown : costs[m] >= costs[n]
           T == {l \in Nat : ~\E shown \in SUBSET D : Ranked(shown, l)}
<1>1. T = {}
  <2> SUFFICES ASSUME T # {} PROVE FALSE
    OBVIOUS
  <2>1. PICK l \in T : \A k \in T : l <= k
    <3> T \in SUBSET Nat OBVIOUS
    <3> HIDE DEF T
    <3> QED BY LeastNumber
  <2>2. l \in Nat /\ ~\E shown \in SUBSET D : Ranked(shown, l)
    OBVIOUS
  <2>3. l # 0
    <3> SUFFICES ASSUME l = 0 PROVE FALSE
      OBVIOUS
    <3>1. {} \in SUBSET D /\ Cardinality({}) = 0
      BY FS_EmptySet
    <3>2. Ranked({}, 0)
      BY <3>1
    <3> HIDE DEF Ranked
    <3> QED BY <2>2, <3>1, <3>2
  <2>4. PICK shown \in SUBSET D : Ranked(shown, l - 1)
    <3>1. l - 1 \in Nat /\ l - 1 \notin T
      <4>1. l - 1 \in Nat
        BY <2>2, <2>3
      <4> HIDE DEF T
      <4> QED BY <2>1, <2>2, <4>1
    <3> QED BY <3>1
  <2>5. IsFiniteSet(shown) /\ Cardinality(shown) \in Nat
    BY FS_Subset, FS_CardinalityType
  <2>6. CASE shown = D
    <3>1. Ranked(shown, l)
      BY <2>2, <2>4, <2>5, <2>6
    <3> HIDE DEF Ranked
    <3> QED BY <2>2, <3>1
  <2>7. CASE shown # D
    <3>1. PICK R, V : R = D \ shown /\ V = {0 - costs[n] : n \in R}
      OBVIOUS
    <3>2. IsFiniteSet(R) /\ R # {} /\ \A n \in R : n \in D /\ costs[n] \in Int
      BY <2>7, <3>1, FS_Difference
    <3>3. V \in SUBSET Int /\ V # {} /\ IsFiniteSet(V)
      <4>1. PICK f : f = [n \in R |-> 0 - costs[n]]
        OBVIOUS
      <4>2. V = {f[n] : n \in R}
        BY <3>1, <4>1
      <4>3. f \in Surjection(R, V)
        BY <4>1, <4>2 DEF Surjection
      <4>4. IsFiniteSet(V)
        BY <3>2, <4>3, FS_Surjection
      <4> QED BY <3>1, <3>2, <4>4
    <3>4. PICK v \in V : \A w \in V : v <= w
      BY <3>3, LeastInteger
    <3>5. PICK n \in R : v = 0 - costs[n]
      BY <3>1
    <3>6. \A k \in R : costs[n] >= costs[k]
      <4> SUFFICES ASSUME NEW k \in R PROVE costs[n] >= costs[k]
        OBVIOUS
      <4>1. 0 - costs[k] \in V
        BY <3>1
      <4>2. v <= 0 - costs[k] /\ costs[n] \in Int /\ costs[k] \in Int
        BY <3>2, <3>4, <4>1
      <4> QED BY <3>5, <4>2
    <3>7. PICK new : new = shown \cup {n}
      OBVIOUS
    <3>8. n \in D /\ n \notin shown /\ new \in SUBSET D
      BY <3>1, <3>7
    <3>9. Cardinality(new) = Cardinality(shown) + 1 /\ Cardinality(shown) = l - 1
      BY <2>4, <2>5, <3>7, <3>8, FS_AddElement
    <3>10. Ranked(new, l)
      <4>1. Cardinality(new) = l
        BY <2>2, <3>9
      <4>2. ASSUME NEW k \in D \ new, NEW m \in new
            PROVE  costs[m] >= costs[k]
        <5>1. k \in R /\ k \in D \ shown
          BY <3>1, <3>7
        <5>2. CASE m = n
          BY <3>6, <5>1, <5>2
        <5>3. CASE m \in shown
          BY <2>4, <5>1, <5>3
        <5> QED BY <3>7, <5>2, <5>3
      <4> QED BY <2>2, <4>1, <4>2
    <3> HIDE DEF Ranked
    <3> QED BY <2>2, <3>8, <3>10
  <2> QED BY <2>6, <2>7
<1> QED BY <1>1

LEMMA LargestWithin ==
    ASSUME NEW costs, IsFiniteSet(DOMAIN costs), \A n \in DOMAIN costs : costs[n] \in Int,
           NEW limit \in Nat
    PROVE  Largest(costs, limit) \subseteq DOMAIN costs
BY LargestExists, Zenon DEF Largest

LEMMA CostsSum == ASSUME NEW costs PROVE CostsTotal(costs) = SumOver(costs, DOMAIN costs)
BY Zenon DEF CostsTotal, SumOver

\* A sum over costs that are given one by one.
LEMMA CostsOfEach ==
    ASSUME NEW f, NEW S, IsFiniteSet(S), NEW costs, DOMAIN costs = S,
           \A n \in S : costs[n] = f[n]
    PROVE  CostsTotal(costs) = SumOver(f, S)
<1>1. SumOver(costs, S) = SumOver(f, S)
  BY SumAgree
<1> QED BY <1>1, CostsSum

-----------------------------------------------------------------------------
\* What was billed, and the costs that are made of it.
Price == [l \in billed |-> l.cost]

Costs(f) == IsFiniteSet(DOMAIN f) /\ \A n \in DOMAIN f : f[n] \in Int

LEMMA BilledTyped ==
    ASSUME billed \in ChargeForm
    PROVE  /\ IsFiniteSet(billed)
           /\ \A l \in billed : l.holding \in Holding /\ l.cost \in Int /\ Price[l] = l.cost
<1>1. IsFiniteSet(billed) /\ billed \subseteq Charge
  BY ProviderBounds
<1>2. \A l \in Charge : l.holding \in Holding /\ l.cost \in Int
  BY ProviderBounds
<1> QED BY <1>1, <1>2 DEF Price

LEMMA CostOfIs ==
    ASSUME billed \in ChargeForm, NEW lines \in SUBSET billed
    PROVE  /\ IsFiniteSet(lines)
           /\ CostOf(lines) = SumOver(Price, lines)
           /\ CostOf(lines) \in Int
<1>1. IsFiniteSet(lines) /\ \A l \in lines : Price[l] \in Int /\ Price[l] = l.cost
  BY BilledTyped, FS_Subset
<1>2. PICK costs : costs = [l \in lines |-> l.cost]
  OBVIOUS
<1>3. DOMAIN costs = lines /\ \A l \in lines : costs[l] = Price[l]
  BY <1>1, <1>2
<1>4. CostsTotal(costs) = SumOver(Price, lines)
  BY <1>1, <1>3, CostsOfEach
<1>5. SumOver(Price, lines) \in Int
  BY <1>1, SumType
<1> QED BY <1>1, <1>2, <1>4, <1>5 DEF CostOf

\* The costs of lines by service or by zone add up to those of the lines.
LEMMA ByAddsUp ==
    ASSUME billed \in ChargeForm, NEW lines \in SUBSET billed, NEW field
    PROVE  /\ DOMAIN By(field, lines) = {l[field] : l \in lines}
           /\ Costs(By(field, lines))
           /\ CostsTotal(By(field, lines)) = CostOf(lines)
<1>1. PICK key, K, g, t, f :
        /\ key = [l \in lines |-> l[field]] /\ K = {l[field] : l \in lines}
        /\ g = [n \in K |-> {l \in lines : l[field] = n}]
        /\ t = By(field, lines) /\ f = Price
  OBVIOUS
<1>2. IsFiniteSet(lines) /\ \A l \in lines : f[l] \in Int
  BY <1>1, CostOfIs, BilledTyped
<1>3. IsFiniteSet(K)
  <2>1. key \in Surjection(lines, K)
    BY <1>1 DEF Surjection
  <2> QED BY <1>2, <2>1, FS_Surjection
<1>4. DOMAIN t = K /\ \A n \in K : t[n] = CostOf(g[n])
  BY <1>1 DEF By
<1>5. \A n \in K : g[n] \subseteq lines /\ \A l \in lines : l \in g[n] <=> key[l] = n
  BY <1>1
<1>6. \A n \in K : t[n] = SumOver(f, g[n]) /\ t[n] \in Int
  <2> SUFFICES ASSUME NEW n \in K PROVE t[n] = SumOver(f, g[n]) /\ t[n] \in Int
    OBVIOUS
  <2>1. PICK ls : ls = g[n]
    OBVIOUS
  <2>2. ls \in SUBSET billed
    BY <1>5, <2>1
  <2>3. CostOf(ls) = SumOver(Price, ls) /\ CostOf(ls) \in Int
    BY <2>2, CostOfIs
  <2> QED BY <1>1, <1>4, <2>1, <2>3
<1>7. \A l \in lines : key[l] \in K
  BY <1>1
<1>8. SumOver(t, K) = SumOver(f, lines)
  BY <1>2, <1>3, <1>5, <1>6, <1>7, SumGroups
<1>9. CostsTotal(t) = CostOf(lines)
  BY <1>1, <1>4, <1>8, CostsSum, CostOfIs
<1> QED BY <1>1, <1>3, <1>4, <1>6, <1>9 DEF Costs

LEMMA LinesBilled == ASSUME NEW scope PROVE LinesOf(scope) \in SUBSET billed
BY DEF LinesOf

\* The rows of services of a scope: all of them, but of GCP the largest alone.
LEMMA ServicesOf ==
    ASSUME billed \in ChargeForm, NEW scope
    PROVE  /\ CostsTotal(ServiceRows(scope)) \in Int
           /\ ask.cloud # "gcp" => CostsTotal(ServiceRows(scope)) = CostOf(LinesOf(scope))
           /\ (\A l \in billed : l.cost >= 0) =>
                 CostsTotal(ServiceRows(scope)) <= CostOf(LinesOf(scope))
<1>1. PICK costs, lines : lines = LinesOf(scope) /\ costs = By("service", lines)
  OBVIOUS
<1>2. lines \in SUBSET billed
  BY <1>1, LinesBilled
<1>3. Costs(costs) /\ CostsTotal(costs) = CostOf(lines) /\ CostOf(lines) \in Int
  BY <1>1, <1>2, ByAddsUp, CostOfIs
<1>4. PICK S : S = IF ask.cloud = "gcp" THEN Largest(costs, QueryServices) ELSE DOMAIN costs
  OBVIOUS
<1>5. S \in SUBSET DOMAIN costs
  <2>1. QueryServices \in Nat
    BY ProviderBounds
  <2> QED BY <1>3, <1>4, <2>1, LargestWithin DEF Costs
<1>6. ServiceRows(scope) = [s \in S |-> costs[s]]
  BY <1>1, <1>4 DEF ServiceRows, Returned
<1>7. IsFiniteSet(S) /\ \A s \in S : costs[s] \in Int
  BY <1>3, <1>5, FS_Subset DEF Costs
<1>8. PICK figures : figures = ServiceRows(scope)
  OBVIOUS
<1>9. CostsTotal(figures) = SumOver(costs, S)
  BY <1>6, <1>7, <1>8, CostsOfEach
<1>10. SumOver(costs, S) \in Int
  BY <1>7, SumType
<1>11. SumOver(costs, DOMAIN costs) = CostOf(lines)
  BY <1>3, CostsSum
<1>12. ask.cloud # "gcp" => S = DOMAIN costs
  BY <1>4
<1>13. ASSUME \A l \in billed : l.cost >= 0
       PROVE  SumOver(costs, S) <= SumOver(costs, DOMAIN costs)
  <2>1. \A n \in DOMAIN costs : costs[n] \in Nat
    <3> SUFFICES ASSUME NEW n \in DOMAIN costs PROVE costs[n] \in Nat
      OBVIOUS
    <3>1. PICK ls : ls = {l \in lines : l["service"] = n}
      OBVIOUS
    <3>2. costs[n] = CostOf(ls)
      BY <1>1, <3>1 DEF By
    <3>3. ls \in SUBSET billed
      BY <1>2, <3>1
    <3>4. IsFiniteSet(ls) /\ CostOf(ls) = SumOver(Price, ls)
      BY <3>3, CostOfIs
    <3>5. \A l \in ls : Price[l] \in Nat
      BY <1>13, <3>3, BilledTyped
    <3>6. SumOver(Price, ls) \in Nat
      BY <3>4, <3>5, SumType
    <3> QED BY <3>2, <3>4, <3>6
  <2> QED BY <1>3, <1>5, <2>1, SumPart DEF Costs
<1> QED BY <1>1, <1>8, <1>9, <1>10, <1>11, <1>12, <1>13

\* Costs that are added to costs.
LEMMA AddedCosts ==
    ASSUME NEW old, Costs(old), NEW new, Costs(new)
    PROVE  /\ Costs(AddCosts(old, new))
           /\ DOMAIN AddCosts(old, new) = DOMAIN old \cup DOMAIN new
           /\ \A n : Figure(AddCosts(old, new), n) = Figure(old, n) + Figure(new, n)
           /\ CostsTotal(AddCosts(old, new)) = CostsTotal(old) + CostsTotal(new)
<1>1. PICK D, h, p, q : /\ D = DOMAIN old \cup DOMAIN new /\ h = AddCosts(old, new)
                        /\ p = [n \in D |-> Figure(old, n)] /\ q = [n \in D |-> Figure(new, n)]
  OBVIOUS
<1>2. IsFiniteSet(D)
  BY <1>1, FS_Union DEF Costs
<1>3. \A n \in D : p[n] \in Int /\ q[n] \in Int /\ h[n] = p[n] + q[n]
  BY <1>1 DEF Costs, Figure, AddCosts
<1>4. DOMAIN h = D
  BY <1>1 DEF AddCosts
<1>5. SumOver(h, D) = SumOver(p, D) + SumOver(q, D)
  BY <1>2, <1>3, SumPlus
<1>6. ASSUME NEW f, Costs(f), DOMAIN f \subseteq D, NEW r, r = [n \in D |-> Figure(f, n)],
             \A n \in D : r[n] \in Int
      PROVE  SumOver(r, D) = CostsTotal(f)
  <2>1. \A n \in D \ DOMAIN f : r[n] = 0
    BY <1>6 DEF Figure
  <2>2. SumOver(r, D) = SumOver(r, DOMAIN f)
    BY <1>2, <1>6, <2>1, SumOfPart
  <2>3. \A n \in DOMAIN f : f[n] = r[n]
    BY <1>6 DEF Figure
  <2>4. IsFiniteSet(DOMAIN f)
    BY <1>6 DEF Costs
  <2>5. SumOver(f, DOMAIN f) = SumOver(r, DOMAIN f)
    BY <2>3, <2>4, SumAgree
  <2> QED BY <2>2, <2>5, CostsSum
<1>7. SumOver(p, D) = CostsTotal(old) /\ SumOver(q, D) = CostsTotal(new)
  BY <1>1, <1>3, <1>6
<1>8. CostsTotal(h) = SumOver(h, D)
  BY <1>4, CostsSum
<1>9. \A n : Figure(h, n) = Figure(old, n) + Figure(new, n)
  <2> SUFFICES ASSUME NEW n PROVE Figure(h, n) = Figure(old, n) + Figure(new, n)
    OBVIOUS
  <2>1. CASE n \in D
    <3>1. Figure(h, n) = h[n] /\ p[n] = Figure(old, n) /\ q[n] = Figure(new, n)
      BY <1>1, <1>4, <2>1 DEF Figure
    <3> QED BY <1>3, <2>1, <3>1
  <2>2. CASE n \notin D
    BY <1>1, <1>4, <2>2 DEF Figure
  <2> QED BY <2>1, <2>2
<1>10. Costs(h)
  <2>1. \A n \in D : h[n] \in Int
    BY <1>3
  <2> QED BY <1>2, <1>4, <2>1 DEF Costs
<1> QED BY <1>1, <1>4, <1>5, <1>7, <1>8, <1>9, <1>10

-----------------------------------------------------------------------------
\* The scopes of a request.
LEMMA RequestIs == ASSUME ask \in CostRequest PROVE RequestTyped(ask)
BY ProviderBounds

LEMMA Prefixed ==
    ASSUME NEW T, NEW x \in T, NEW s \in Seq(T)
    PROVE  /\ <<x>> \o s \in Seq(T) /\ Len(<<x>> \o s) = Len(s) + 1 /\ Len(s) \in Nat
           /\ (<<x>> \o s)[1] = x
           /\ \A i \in 1..Len(s) : (<<x>> \o s)[i + 1] = s[i]
           /\ x \notin Range(s) /\ Different(s) => Different(<<x>> \o s)
<1>1. PICK r : r = <<x>> \o s
  OBVIOUS
<1>2. r \in Seq(T) /\ Len(r) = Len(s) + 1 /\ Len(s) \in Nat
  BY <1>1
<1>3. r[1] = x /\ \A i \in 1..Len(s) : r[i + 1] = s[i]
  BY <1>1
<1>4. ASSUME x \notin Range(s), Different(s)
      PROVE  Different(r)
  <2>1. \A i \in 1..Len(s) : s[i] # x
    BY <1>4 DEF Range
  <2>2. ASSUME NEW i \in 1..Len(r), NEW j \in 1..Len(r), r[i] = r[j]
        PROVE  i = j
    <3>1. ASSUME NEW k \in 1..Len(r) PROVE k = 1 \/ (k - 1 \in 1..Len(s) /\ r[k] = s[k - 1])
      <4>1. k = 1 \/ (k - 1 \in 1..Len(s) /\ k = (k - 1) + 1)
        BY <1>2
      <4> QED BY <1>3, <4>1
    <3>2. CASE i = 1
      BY <1>3, <2>1, <2>2, <3>1, <3>2
    <3>3. CASE j = 1
      BY <1>3, <2>1, <2>2, <3>1, <3>3
    <3>4. CASE i # 1 /\ j # 1
      <4>1. i - 1 \in 1..Len(s) /\ j - 1 \in 1..Len(s) /\ s[i - 1] = s[j - 1]
        BY <2>2, <3>1, <3>4
      <4>2. i - 1 = j - 1
        BY <1>4, <4>1 DEF Different
      <4> QED BY <1>2, <4>2
    <3> QED BY <3>2, <3>3, <3>4
  <2> QED BY <2>2 DEF Different
<1> QED BY <1>1, <1>2, <1>3, <1>4

\* Every scope is an account, the place of the credential or what is above the others.
LEMMA ScopesTyped ==
    ASSUME ask \in CostRequest
    PROVE  /\ ScopesOf(ask) \in Seq(Holding \cup {"default", ask.top})
           /\ Len(ScopesOf(ask)) \in Nat \ {0}
<1> DEFINE T == Holding \cup {"default", ask.top}
<1>1. PICK listed : listed = Distinct(ask.listed)
  OBVIOUS
<1>2. /\ ask.listed \in Seq(Holding) /\ listed \in Seq(Holding)
      /\ Range(listed) = Range(ask.listed)
  BY <1>1, RequestIs, DistinctKeeps DEF RequestTyped
<1>3. ask.listed \in Seq(T) /\ listed \in Seq(T)
  BY <1>2
<1>4. listed = <<>> => ask.listed = <<>>
  <2> SUFFICES ASSUME listed = <<>>, ask.listed # <<>> PROVE FALSE
    OBVIOUS
  <2>1. ask.listed[1] \in Range(ask.listed)
    BY <1>2 DEF Range
  <2>2. Range(listed) = {}
    BY DEF Range
  <2> QED BY <1>2, <2>1, <2>2
<1>5. CASE ask.cloud = "aws"
  <2>1. "default" \in T
    OBVIOUS
  <2>2. ScopesOf(ask) = <<"default">> \o ask.listed
    BY <1>5 DEF ScopesOf
  <2> HIDE DEF T
  <2>3. PICK r, s : r = ScopesOf(ask) /\ s = ask.listed
    OBVIOUS
  <2>4. r = <<"default">> \o s /\ s \in Seq(T)
    BY <1>3, <2>2, <2>3
  <2>5. r \in Seq(T) /\ Len(r) = Len(s) + 1 /\ Len(s) \in Nat
    BY <2>1, <2>4, Prefixed
  <2>6. Len(r) \in Nat \ {0}
    BY <2>5
  <2> QED BY <2>3, <2>5, <2>6 DEF T
<1>6. CASE ask.cloud = "azure"
  <2>1. PICK own, rest : own = Own(ask.top) /\ rest = MainIncluded(ask.main, listed)
    OBVIOUS
  <2>2. ScopesOf(ask) = own \o rest
    BY <1>1, <1>6, <2>1 DEF ScopesOf
  <2>3. own \in Seq(T) /\ (own = <<>> => ask.top = "none")
    <3>1. CASE ask.top = "none"
      BY <2>1, <3>1 DEF Own
    <3>2. CASE ask.top # "none"
      <4>1. own = <<ask.top>> /\ ask.top \in T
        BY <2>1, <3>2 DEF Own
      <4> HIDE DEF T
      <4> QED BY <4>1
    <3> QED BY <3>1, <3>2
  <2>4. /\ rest \in Seq(T)
        /\ rest = <<>> => listed = <<>> /\ (ask.main = "none" \/ ask.main \in Range(listed))
    <3>1. ask.main = "none" \/ ask.main \in T
      BY RequestIs DEF RequestTyped
    <3>2. CASE ask.main = "none" \/ ask.main \in Range(listed)
      BY <1>3, <2>1, <3>2 DEF MainIncluded
    <3>3. CASE ~(ask.main = "none" \/ ask.main \in Range(listed))
      <4>1. rest = <<ask.main>> \o listed /\ ask.main \in T
        BY <2>1, <3>1, <3>3 DEF MainIncluded
      <4> HIDE DEF T
      <4>2. rest \in Seq(T) /\ Len(rest) = Len(listed) + 1 /\ Len(listed) \in Nat
        BY <1>3, <4>1, Prefixed
      <4> QED BY <4>2
    <3> QED BY <3>2, <3>3
  <2>5. own # <<>> \/ rest # <<>>
    <3> SUFFICES ASSUME own = <<>>, rest = <<>> PROVE FALSE
      OBVIOUS
    <3>1. ask.listed = <<>> /\ ask.top = "none" /\ Range(listed) = {}
      BY <1>4, <2>3, <2>4 DEF Range
    <3>2. ask.main = "none"
      BY <2>4, <3>1
    <3> QED BY <1>6, <3>1, <3>2, RequestIs DEF RequestTyped
  <2>6. own \o rest \in Seq(T) /\ Len(own \o rest) = Len(own) + Len(rest)
    <3> HIDE DEF T
    <3> QED BY <2>3, <2>4
  <2>7. Len(own) \in Nat /\ Len(rest) \in Nat /\ (Len(own) # 0 \/ Len(rest) # 0)
    <3> HIDE DEF T
    <3> QED BY <2>3, <2>4, <2>5
  <2> QED BY <2>2, <2>6, <2>7
<1>7. CASE ask.cloud = "gcp"
  <2>1. CASE listed # <<>>
    <3>1. ScopesOf(ask) = listed
      BY <1>1, <1>7, <2>1 DEF ScopesOf
    <3>2. Len(listed) \in Nat \ {0}
      BY <1>2, <2>1
    <3> QED BY <1>3, <3>1, <3>2
  <2>2. CASE listed = <<>>
    <3>1. ask.main \in Holding /\ ask.main # "none"
      BY <1>4, <1>7, <2>2, RequestIs DEF RequestTyped
    <3>2. ScopesOf(ask) = <<ask.main>>
      BY <1>1, <1>7, <2>2, <3>1 DEF ScopesOf, Own
    <3> QED BY <3>1, <3>2
  <2> QED BY <2>1, <2>2
<1>8. CASE ask.cloud = "oci"
  <2>1. ask.main \in Holding
    BY <1>8, RequestIs DEF RequestTyped
  <2>2. ScopesOf(ask) = <<ask.main>>
    BY <1>8 DEF ScopesOf
  <2> QED BY <2>1, <2>2
<1> QED BY <1>5, <1>6, <1>7, <1>8, RequestIs DEF RequestTyped

\* No scope is asked twice, unless AWS is told two roles of one account.
LEMMA ScopesApart ==
    ASSUME ask \in CostRequest, ~RolesShared, ask.cloud = "azure" => ask.top = "none"
    PROVE  /\ Different(ScopesOf(ask))
           /\ \A i \in 1..Len(ScopesOf(ask)) :
                 IF ask.cloud = "aws" /\ i = 1 THEN ScopesOf(ask)[i] = "default"
                 ELSE /\ ScopesOf(ask)[i] \in Holding
                      /\ ask.cloud = "aws" => ScopesOf(ask)[i] \in Range(ask.listed)
<1>1. PICK listed : listed = Distinct(ask.listed)
  OBVIOUS
<1>2. ask.listed \in Seq(Holding) /\ listed \in Seq(Holding) /\ Different(listed)
  BY <1>1, RequestIs, DistinctKeeps DEF RequestTyped
<1>3. \A s \in Seq(Holding) : \A i \in 1..Len(s) : s[i] \in Holding
  OBVIOUS
<1>4. CASE ask.cloud = "aws"
  <2>1. ScopesOf(ask) = <<"default">> \o ask.listed
    BY <1>4 DEF ScopesOf
  <2>2. "default" \notin Range(ask.listed)
    BY <1>2, ProviderBounds DEF Range
  <2>3. Different(ask.listed)
    BY <1>2, <1>4 DEF RolesShared, Different
  <2>4. PICK T, r, s : T = Holding \cup {"default"} /\ r = ScopesOf(ask) /\ s = ask.listed
    OBVIOUS
  <2>5. s \in Seq(T) /\ "default" \in T /\ Different(s) /\ "default" \notin Range(s)
        /\ r = <<"default">> \o s
    BY <1>2, <2>1, <2>2, <2>3, <2>4
  <2>6. /\ Len(r) = Len(s) + 1 /\ Len(s) \in Nat /\ r[1] = "default"
        /\ \A i \in 1..Len(s) : r[i + 1] = s[i]
        /\ Different(r)
    BY <2>5, Prefixed
  <2>7. ASSUME NEW i \in 1..Len(r), i # 1
        PROVE  r[i] \in Holding /\ r[i] \in Range(s)
    <3>1. PICK k \in 1..Len(s) : i = k + 1
      <4>1. i - 1 \in 1..Len(s) /\ i = (i - 1) + 1
        BY <2>6, <2>7
      <4> QED BY <4>1
    <3>2. r[i] = s[k] /\ s[k] \in Holding
      BY <1>2, <2>4, <2>6, <3>1
    <3>3. s[k] \in Range(s)
      BY <2>5 DEF Range
    <3> QED BY <3>2, <3>3
  <2> QED BY <1>4, <2>4, <2>6, <2>7
<1>5. CASE ask.cloud = "azure"
  <2>1. ScopesOf(ask) = <<>> \o MainIncluded(ask.main, listed)
    BY <1>1, <1>5 DEF ScopesOf, Own
  <2>2. MainIncluded(ask.main, listed) \in Seq(Holding) /\ Different(MainIncluded(ask.main, listed))
    <3>1. CASE ask.main = "none" \/ ask.main \in Range(listed)
      BY <1>2, <3>1 DEF MainIncluded
    <3>2. CASE ~(ask.main = "none" \/ ask.main \in Range(listed))
      <4>1. ask.main \in Holding /\ MainIncluded(ask.main, listed) = <<ask.main>> \o listed
        BY <3>2, RequestIs DEF MainIncluded, RequestTyped
      <4>2. <<ask.main>> \o listed \in Seq(Holding) /\ Different(<<ask.main>> \o listed)
        BY <1>2, <3>2, <4>1, Prefixed
      <4> QED BY <4>1, <4>2
    <3> QED BY <3>1, <3>2
  <2>3. PICK r : r = MainIncluded(ask.main, listed)
    OBVIOUS
  <2>4. <<>> \o r = r
    BY <2>2, <2>3
  <2> QED BY <1>3, <1>5, <2>1, <2>2, <2>3, <2>4
<1>6. CASE ask.cloud = "gcp" /\ listed # <<>>
  <2>1. ScopesOf(ask) = listed
    BY <1>1, <1>6 DEF ScopesOf
  <2> QED BY <1>2, <1>3, <1>6, <2>1
<1>7. CASE ask.cloud = "oci" \/ (ask.cloud = "gcp" /\ listed = <<>>)
  <2>1. Len(ScopesOf(ask)) # 0
    BY ScopesTyped
  <2>2. ScopesOf(ask) = <<ask.main>> /\ ask.main \in Holding
    <3>1. ask.main \in Holding \cup {"none"} /\ (ask.cloud = "oci" => ask.main # "none")
      BY RequestIs DEF RequestTyped
    <3>2. ask.cloud = "gcp" => ScopesOf(ask) = Own(ask.main)
      BY <1>1, <1>7 DEF ScopesOf
    <3>3. ask.cloud = "oci" => ScopesOf(ask) = <<ask.main>>
      BY DEF ScopesOf
    <3> QED BY <1>7, <2>1, <3>1, <3>2, <3>3 DEF Own
  <2> QED BY <1>7, <2>2 DEF Different
<1> QED BY <1>4, <1>5, <1>6, <1>7, RequestIs DEF RequestTyped

-----------------------------------------------------------------------------
\* What the scopes are counted with, and the scopes by what became of them.
ScopeNumbers == 1..Len(ScopesOf(ask))

ServiceTotals == [i \in ScopeNumbers |-> CostsTotal(ServiceRows(ScopesOf(ask)[i]))]

LineTotals == [i \in ScopeNumbers |-> CostOf(LinesOf(ScopesOf(ask)[i]))]

ZoneTotals(z) == [i \in ScopeNumbers |-> CostOf({l \in LinesOf(ScopesOf(ask)[i]) : l.zone = z})]

Fate == {"answered", "silent", "half"}

Answered == {i \in DOMAIN fates : fates[i] = "answered"}

Heard == {i \in DOMAIN fates : fates[i] # "silent"}

\* The costs of a scope that has been asked for its services alone.
Pending ==
    IF place.pc = "regions" /\ ask.cloud # "oci" THEN ServiceTotals[place.scope] ELSE 0

ProviderType ==
    /\ ask \in CostRequest /\ billed \in ChargeForm
    /\ place \in [pc : {"services", "regions", "done", "error"}, scope : Nat \ {0},
                  from : {"set", "home"}]
    /\ sums = [total |-> sums.total, services |-> sums.services, zones |-> sums.zones]
    /\ sums.total \in Int /\ Costs(sums.zones)
    /\ fates \in Seq(Fate) /\ Len(fates) = place.scope - 1
    /\ place.scope <= Len(ScopesOf(ask)) + 1
    /\ place.pc = "done" <=> place.scope = Len(ScopesOf(ask)) + 1

TotalTrue == place.pc # "error" => sums.total = SumOver(ServiceTotals, Heard) + Pending

ZonesTrue ==
    /\ \A z : Figure(sums.zones, z) = SumOver(ZoneTotals(z), Answered)
    /\ CostsTotal(sums.zones) = SumOver(LineTotals, Answered)

ErrorTrue ==
    place.pc = "error" =>
        \/ ask.cloud = "oci" \/ (ask.cloud = "aws" /\ place.scope = 1)
        \/ (ask.cloud = "gcp" /\ Scope \in ask.misnamed)

ProviderInv == ProviderType /\ TotalTrue /\ ZonesTrue /\ ErrorTrue

LEMMA TotalsTyped ==
    ASSUME ProviderType
    PROVE  /\ \A i \in ScopeNumbers : ServiceTotals[i] \in Int /\ LineTotals[i] \in Int
           /\ \A z : \A i \in ScopeNumbers : ZoneTotals(z)[i] \in Int
           /\ DOMAIN fates = 1..(place.scope - 1) /\ DOMAIN fates \subseteq ScopeNumbers
           /\ place.scope \in Nat \ {0} /\ Len(ScopesOf(ask)) \in Nat \ {0}
           /\ place.pc # "done" => place.scope \in ScopeNumbers
           /\ IsFiniteSet(Heard) /\ Heard \subseteq DOMAIN fates
           /\ IsFiniteSet(Answered) /\ Answered \subseteq Heard
           /\ SumOver(ServiceTotals, Heard) \in Int /\ SumOver(LineTotals, Answered) \in Int
<1>1. \A i \in ScopeNumbers : ServiceTotals[i] \in Int /\ LineTotals[i] \in Int
  BY ServicesOf, CostOfIs, LinesBilled DEF ServiceTotals, LineTotals, ProviderType
<1>2. ASSUME NEW z, NEW i \in ScopeNumbers PROVE ZoneTotals(z)[i] \in Int
  <2>1. PICK ls : ls = {l \in LinesOf(ScopesOf(ask)[i]) : l.zone = z}
    OBVIOUS
  <2>2. ls \in SUBSET billed
    BY <2>1, LinesBilled
  <2>3. CostOf(ls) \in Int
    BY <2>2, CostOfIs DEF ProviderType
  <2> QED BY <2>1, <2>3 DEF ZoneTotals
<1>3. place.scope \in Nat \ {0} /\ Len(ScopesOf(ask)) \in Nat \ {0}
  BY ScopesTyped DEF ProviderType
<1>4. DOMAIN fates = 1..(place.scope - 1)
  BY DEF ProviderType
<1>5. DOMAIN fates \subseteq ScopeNumbers /\ (place.pc # "done" => place.scope \in ScopeNumbers)
  BY <1>3, <1>4 DEF ProviderType, ScopeNumbers
<1>6. IsFiniteSet(1..(place.scope - 1))
  <2>1. place.scope - 1 \in Int /\ 1 \in Int
    BY <1>3
  <2> QED BY <2>1, FS_Interval
<1>7. Heard \subseteq DOMAIN fates /\ Answered \subseteq Heard
  BY DEF Heard, Answered
<1>8. IsFiniteSet(Heard) /\ IsFiniteSet(Answered)
  BY <1>4, <1>6, <1>7, FS_Subset
<1>9. SumOver(ServiceTotals, Heard) \in Int /\ SumOver(LineTotals, Answered) \in Int
  <2>1. \A i \in Heard : ServiceTotals[i] \in Int /\ LineTotals[i] \in Int
    BY <1>1, <1>5, <1>7
  <2>2. \A i \in Answered : LineTotals[i] \in Int
    BY <1>7, <2>1
  <2> QED BY <1>8, <2>1, <2>2, SumType
<1> QED BY <1>1, <1>2, <1>3, <1>4, <1>5, <1>7, <1>8, <1>9

LEMMA ProviderStarts == ASSUME ProviderInit PROVE ProviderInv
<1>1. DOMAIN fates = {} /\ fates = <<>>
  BY DEF ProviderInit
<1>2. Heard = {} /\ Answered = {}
  BY <1>1 DEF Heard, Answered
<1>3. DOMAIN sums.zones = {} /\ sums.total = 0
  BY DEF ProviderInit, Nothing
<1>4. Costs(sums.zones)
  BY <1>3, FS_EmptySet DEF Costs
<1>5. ProviderType
  <2>1. Len(ScopesOf(ask)) \in Nat \ {0}
    BY ScopesTyped DEF ProviderInit
  <2>2. place.scope = 1 /\ place.pc = "services"
    BY DEF ProviderInit
  <2>3. sums = [total |-> sums.total, services |-> sums.services, zones |-> sums.zones]
    BY DEF ProviderInit, Nothing
  <2> QED BY <1>1, <1>3, <1>4, <2>1, <2>2, <2>3 DEF ProviderType, ProviderInit
<1>6. TotalTrue
  BY <1>2, <1>3, SumEmpty DEF TotalTrue, Pending, ProviderInit
<1>7. ZonesTrue
  <2>1. CostsTotal(sums.zones) = 0
    BY <1>3, CostsSum, SumEmpty
  <2>2. \A z : Figure(sums.zones, z) = 0
    BY <1>3 DEF Figure
  <2> QED BY <1>2, <2>1, <2>2, SumEmpty DEF ZonesTrue
<1>8. ErrorTrue
  BY DEF ErrorTrue, ProviderInit
<1> QED BY <1>5, <1>6, <1>7, <1>8 DEF ProviderInv

-----------------------------------------------------------------------------
\* The steps of a request.
Settings == UNCHANGED <<ask, billed>>

LEMMA SameTotals ==
    ASSUME Settings
    PROVE  /\ ServiceTotals' = ServiceTotals /\ LineTotals' = LineTotals
           /\ \A z : ZoneTotals(z)' = ZoneTotals(z)
           /\ ScopeNumbers' = ScopeNumbers /\ ScopesOf(ask)' = ScopesOf(ask)
BY DEF Settings, ServiceTotals, LineTotals, ZoneTotals, ScopeNumbers, ServiceRows, Returned, LinesOf

\* A scope has been asked.
LEMMA ScopeAsked ==
    ASSUME ProviderType, place.pc # "done", NEW fate \in Fate, NextScope(fate), Settings
    PROVE  /\ fates' \in Seq(Fate) /\ Len(fates)' = place'.scope - 1
           /\ place' \in [pc : {"services", "done"}, scope : Nat \ {0}, from : {"set", "home"}]
           /\ place'.scope = place.scope + 1 /\ place'.scope <= Len(ScopesOf(ask)) + 1
           /\ place'.pc = "done" <=> place'.scope = Len(ScopesOf(ask)) + 1
           /\ Heard' = IF fate = "silent" THEN Heard ELSE Heard \cup {place.scope}
           /\ Answered' = IF fate = "answered" THEN Answered \cup {place.scope} ELSE Answered
           /\ place.scope \notin Heard /\ place.scope \notin Answered
<1>1. PICK k \in Nat \ {0} : k = place.scope
  BY TotalsTyped
<1>2. PICK n \in Nat \ {0} : n = Len(ScopesOf(ask))
  BY TotalsTyped
<1>3. k <= n /\ fates \in Seq(Fate) /\ Len(fates) = k - 1
  BY <1>1, <1>2 DEF ProviderType
<1>4. fates' = Append(fates, fate)
  BY DEF NextScope
<1>5. /\ fates' \in Seq(Fate) /\ Len(fates') = k /\ DOMAIN fates' = 1..k
      /\ fates'[k] = fate /\ \A i \in 1..(k - 1) : fates'[i] = fates[i]
      /\ DOMAIN fates = 1..(k - 1)
  BY <1>3, <1>4
<1>6. 1..k = 1..(k - 1) \cup {k} /\ k \notin 1..(k - 1)
  OBVIOUS
<1>7. /\ Heard' = IF fate = "silent" THEN Heard ELSE Heard \cup {k}
      /\ Answered' = IF fate = "answered" THEN Answered \cup {k} ELSE Answered
      /\ k \notin Heard /\ k \notin Answered
  BY <1>5, <1>6 DEF Heard, Answered
<1>8. place' = [place EXCEPT !.scope = k + 1, !.pc = IF k = n THEN "done" ELSE "services"]
  BY <1>1, <1>2 DEF NextScope
<1>9. /\ place' \in [pc : {"services", "done"}, scope : Nat \ {0}, from : {"set", "home"}]
      /\ place'.scope = k + 1 /\ place'.pc = IF k = n THEN "done" ELSE "services"
  <2>1. place \in [pc : {"services", "regions", "done", "error"}, scope : Nat \ {0},
                   from : {"set", "home"}]
    BY DEF ProviderType
  <2>2. k + 1 \in Nat \ {0}
    OBVIOUS
  <2> QED BY <1>8, <2>1, <2>2
<1> QED BY <1>1, <1>2, <1>3, <1>5, <1>7, <1>9

\* What a step that keeps the settings has to show of the figures.
LEMMA ServicesCounted ==
    ASSUME ProviderType, place.pc # "done"
    PROVE  /\ WithServices(sums) = [total |-> sums.total + ServiceTotals[place.scope],
                                    services |-> WithServices(sums).services,
                                    zones |-> sums.zones]
           /\ ServiceTotals[place.scope] \in Int
<1>1. PICK t : t = CostsTotal(ServiceRows(Scope))
  OBVIOUS
<1>2. place.scope \in ScopeNumbers /\ ServiceTotals[place.scope] = t /\ t \in Int
  BY <1>1, TotalsTyped DEF ServiceTotals, Scope
<1>3. PICK v : WithServices(sums) = [sums EXCEPT !.total = @ + t, !.services = v]
  BY <1>1 DEF WithServices
<1>4. sums = [total |-> sums.total, services |-> sums.services, zones |-> sums.zones]
  BY DEF ProviderType
<1>5. [sums EXCEPT !.total = @ + t, !.services = v]
        = [total |-> sums.total + t, services |-> v, zones |-> sums.zones]
  <2>1. PICK a, b, c : a = sums.total /\ b = sums.services /\ c = sums.zones
    OBVIOUS
  <2>2. sums = [total |-> a, services |-> b, zones |-> c]
    BY <1>4, <2>1
  <2>3. PICK x : x = [sums EXCEPT !.total = @ + t]
    OBVIOUS
  <2>4. x = [total |-> a + t, services |-> b, zones |-> c]
    BY <2>2, <2>3
  <2>5. [sums EXCEPT !.total = @ + t, !.services = v] = [x EXCEPT !.services = v]
    BY <2>2, <2>3
  <2> QED BY <2>1, <2>4, <2>5
<1> QED BY <1>2, <1>3, <1>5

LEMMA ServicesStep == ASSUME ProviderInv, ServicesAnswer PROVE ProviderInv'
<1>1. /\ place.pc = "services" /\ place.pc # "done" /\ Settings /\ fates' = fates
      /\ place' = [place EXCEPT !.pc = "regions"]
  BY DEF ServicesAnswer, Asking, Settings
<1>2. /\ place'.pc = "regions" /\ place'.scope = place.scope /\ place'.from = place.from
      /\ place' \in [pc : {"services", "regions", "done", "error"}, scope : Nat \ {0},
                     from : {"set", "home"}]
  BY <1>1 DEF ProviderInv, ProviderType
<1>3. sums' = IF ask.cloud = "oci" THEN sums ELSE WithServices(sums)
  BY DEF ServicesAnswer
<1>4. PICK t : t = ServiceTotals[place.scope]
  OBVIOUS
<1>5. /\ sums' = [total |-> sums'.total, services |-> sums'.services, zones |-> sums'.zones]
      /\ sums'.total = IF ask.cloud = "oci" THEN sums.total ELSE sums.total + t
      /\ sums'.zones = sums.zones /\ t \in Int
  BY <1>1, <1>3, <1>4, ServicesCounted DEF ProviderInv, ProviderType
<1>6. Heard' = Heard /\ Answered' = Answered
  BY <1>1 DEF Heard, Answered
<1>7. ProviderType'
  <2>1. sums'.total \in Int
    BY <1>5 DEF ProviderInv, ProviderType
  <2>2. /\ (ask \in CostRequest)' /\ (billed \in ChargeForm)' /\ Costs(sums.zones)'
        /\ (fates \in Seq(Fate))' /\ (Len(fates) = place.scope - 1)'
        /\ (place.scope <= Len(ScopesOf(ask)) + 1)'
        /\ (place.pc = "done" <=> place.scope = Len(ScopesOf(ask)) + 1)'
    BY <1>1, <1>2, <1>5, SameTotals DEF ProviderInv, ProviderType, Settings, Costs
  <2> QED BY <1>2, <1>5, <2>1, <2>2 DEF ProviderType
<1>8. TotalTrue'
  <2>1. Pending = 0 /\ sums.total = SumOver(ServiceTotals, Heard) + 0
    BY <1>1 DEF ProviderInv, TotalTrue, Pending
  <2>2. Pending' = IF ask.cloud = "oci" THEN 0 ELSE t
    BY <1>1, <1>2, <1>4, SameTotals DEF Pending, Settings
  <2>3. SumOver(ServiceTotals, Heard)' = SumOver(ServiceTotals, Heard)
    BY <1>1, <1>6, SameTotals
  <2>4. sums.total \in Int /\ sums.total = SumOver(ServiceTotals, Heard)
    BY <2>1, TotalsTyped DEF ProviderInv, ProviderType
  <2> QED BY <1>5, <2>2, <2>3, <2>4 DEF TotalTrue
<1>9. ZonesTrue'
  BY <1>1, <1>5, <1>6, SameTotals DEF ProviderInv, ZonesTrue
<1>10. ErrorTrue'
  BY <1>2 DEF ErrorTrue
<1> QED BY <1>7, <1>8, <1>9, <1>10 DEF ProviderInv

\* A failed scope has no region; its services may have been counted.
LEMMA FailStep == ASSUME ProviderInv, QueryFails, ~MustAnswer PROVE ProviderInv'
<1>1. PICK fate : fate = IF place.pc = "services" THEN "silent" ELSE "half"
  OBVIOUS
<1>2. /\ place.pc \in {"services", "regions"} /\ place.pc # "done" /\ ask.cloud # "oci"
      /\ fate \in Fate /\ fate # "answered" /\ NextScope(fate) /\ Settings /\ sums' = sums
  BY <1>1 DEF QueryFails, MustAnswer, Asking, Settings, Fate
<1>3. ProviderType
  BY DEF ProviderInv
<1>4. /\ fates' \in Seq(Fate) /\ Len(fates)' = place'.scope - 1
      /\ place' \in [pc : {"services", "done"}, scope : Nat \ {0}, from : {"set", "home"}]
      /\ place'.scope = place.scope + 1 /\ place'.scope <= Len(ScopesOf(ask)) + 1
      /\ place'.pc = "done" <=> place'.scope = Len(ScopesOf(ask)) + 1
      /\ Heard' = IF fate = "silent" THEN Heard ELSE Heard \cup {place.scope}
      /\ Answered' = Answered
      /\ place.scope \notin Heard
  BY <1>2, <1>3, ScopeAsked
<1>5. ProviderType'
  BY <1>2, <1>3, <1>4, SameTotals DEF ProviderType, Settings, Costs
<1>6. TotalTrue'
  <2>1. Pending' = 0
    BY <1>4 DEF Pending
  <2>2. SumOver(ServiceTotals, Heard)' = SumOver(ServiceTotals, Heard')
    BY <1>2, SameTotals
  <2>3. sums.total = SumOver(ServiceTotals, Heard) + Pending /\ sums.total \in Int
    BY <1>2 DEF ProviderInv, TotalTrue, ProviderType
  <2>4. CASE place.pc = "services"
    BY <1>1, <1>2, <1>4, <2>1, <2>2, <2>3, <2>4 DEF TotalTrue, Pending
  <2>5. CASE place.pc = "regions"
    <3>1. PICK k, f, H : k = place.scope /\ f = ServiceTotals /\ H = Heard
      OBVIOUS
    <3>2. IsFiniteSet(H) /\ k \notin H /\ \A i \in H \cup {k} : f[i] \in Int
      BY <1>2, <1>3, <1>4, <3>1, TotalsTyped
    <3>3. SumOver(f, H \cup {k}) = SumOver(f, H) + f[k]
      BY <3>2, SumAdd
    <3>4. Pending = f[k] /\ Heard' = H \cup {k}
      BY <1>1, <1>2, <1>4, <2>5, <3>1 DEF Pending
    <3>5. SumOver(f, H \cup {k}) \in Int
      <4>1. IsFiniteSet(H \cup {k})
        BY <3>2, FS_AddElement
      <4> QED BY <3>2, <4>1, SumType
    <3>6. sums'.total = SumOver(f, Heard') + 0
      BY <1>2, <2>3, <3>1, <3>3, <3>4, <3>5
    <3> QED BY <2>1, <2>2, <3>1, <3>6 DEF TotalTrue
  <2> QED BY <1>2, <2>4, <2>5
<1>7. ZonesTrue'
  BY <1>2, <1>4, SameTotals DEF ProviderInv, ZonesTrue
<1>8. ErrorTrue'
  BY <1>4 DEF ErrorTrue
<1> QED BY <1>5, <1>6, <1>7, <1>8 DEF ProviderInv

\* An answered scope is in the total, and its regions are added.
LEMMA ZonesCounted ==
    ASSUME ProviderType, place.pc # "done", NEW s, Costs(s.zones),
           s = [total |-> s.total, services |-> s.services, zones |-> s.zones]
    PROVE  /\ WithZones(s) = [total |-> s.total, services |-> s.services,
                              zones |-> WithZones(s).zones]
           /\ Costs(WithZones(s).zones)
           /\ \A z : Figure(WithZones(s).zones, z) = Figure(s.zones, z) + ZoneTotals(z)[place.scope]
           /\ CostsTotal(WithZones(s).zones) = CostsTotal(s.zones) + LineTotals[place.scope]
<1>1. PICK figures, lines : lines = LinesOf(Scope) /\ figures = ZoneRows(Scope)
  OBVIOUS
<1>2. lines \in SUBSET billed /\ place.scope \in ScopeNumbers
  BY <1>1, LinesBilled, TotalsTyped
<1>3. /\ figures = By("zone", lines) /\ DOMAIN figures = {l["zone"] : l \in lines} /\ Costs(figures)
      /\ CostsTotal(figures) = CostOf(lines)
  <2>1. billed \in ChargeForm
    BY DEF ProviderType
  <2>2. PICK field : field = "zone"
    OBVIOUS
  <2>3. figures = By(field, lines)
    BY <1>1, <2>2 DEF ZoneRows
  <2>4. /\ DOMAIN By(field, lines) = {l[field] : l \in lines} /\ Costs(By(field, lines))
        /\ CostsTotal(By(field, lines)) = CostOf(lines)
    BY <1>2, <2>1, ByAddsUp
  <2> QED BY <2>2, <2>3, <2>4
<1>4. LineTotals[place.scope] = CostOf(lines)
  BY <1>1, <1>2 DEF LineTotals, Scope
<1>5. ASSUME NEW z PROVE Figure(figures, z) = ZoneTotals(z)[place.scope]
  <2>1. PICK ls : ls = {l \in lines : l.zone = z}
    OBVIOUS
  <2>2. ZoneTotals(z)[place.scope] = CostOf(ls)
    BY <1>1, <1>2, <2>1 DEF ZoneTotals, Scope
  <2>3. CASE z \in DOMAIN figures
    <3>1. figures[z] = CostOf({l \in lines : l["zone"] = z})
      BY <1>3, <2>3 DEF By
    <3> QED BY <2>1, <2>2, <2>3, <3>1 DEF Figure
  <2>4. CASE z \notin DOMAIN figures
    <3>1. ls = {}
      BY <1>3, <2>1, <2>4
    <3>2. CostOf(ls) = 0
      <4>1. {} \in SUBSET billed
        OBVIOUS
      <4>2. CostOf({}) = SumOver(Price, {})
        BY <4>1, CostOfIs DEF ProviderType
      <4> QED BY <3>1, <4>2, SumEmpty
    <3> QED BY <2>2, <2>4, <3>2 DEF Figure
  <2> QED BY <2>3, <2>4
<1>6. PICK new : new = AddCosts(s.zones, figures)
  OBVIOUS
<1>7. /\ Costs(new) /\ \A z : Figure(new, z) = Figure(s.zones, z) + Figure(figures, z)
      /\ CostsTotal(new) = CostsTotal(s.zones) + CostsTotal(figures)
  BY <1>3, <1>6, AddedCosts
<1>8. WithZones(s) = [s EXCEPT !.zones = new]
  BY <1>1, <1>6 DEF WithZones
<1>9. [s EXCEPT !.zones = new] = [total |-> s.total, services |-> s.services, zones |-> new]
  <2>1. PICK a, b, c : a = s.total /\ b = s.services /\ c = s.zones
    OBVIOUS
  <2>2. s = [total |-> a, services |-> b, zones |-> c]
    BY <2>1
  <2> QED BY <2>1, <2>2
<1>10. WithZones(s).zones = new
  BY <1>8, <1>9
<1> QED BY <1>3, <1>4, <1>5, <1>7, <1>8, <1>9, <1>10

LEMMA RegionsStep == ASSUME ProviderInv, RegionsAnswer PROVE ProviderInv'
<1>1. /\ place.pc = "regions" /\ place.pc # "done" /\ Settings /\ NextScope("answered")
      /\ "answered" \in Fate
  BY DEF RegionsAnswer, Asking, Settings, Fate
<1>2. ProviderType
  BY DEF ProviderInv
<1>3. /\ fates' \in Seq(Fate) /\ Len(fates)' = place'.scope - 1
      /\ place' \in [pc : {"services", "done"}, scope : Nat \ {0}, from : {"set", "home"}]
      /\ place'.scope = place.scope + 1 /\ place'.scope <= Len(ScopesOf(ask)) + 1
      /\ place'.pc = "done" <=> place'.scope = Len(ScopesOf(ask)) + 1
      /\ Heard' = Heard \cup {place.scope} /\ Answered' = Answered \cup {place.scope}
      /\ place.scope \notin Heard /\ place.scope \notin Answered
  BY <1>1, <1>2, ScopeAsked
<1>4. PICK s, k, t : /\ s = (IF ask.cloud = "oci" THEN WithServices(sums) ELSE sums)
                     /\ k = place.scope /\ t = ServiceTotals[place.scope]
  OBVIOUS
<1>5. sums' = WithZones(s)
  BY <1>4 DEF RegionsAnswer
<1>6. /\ s = [total |-> s.total, services |-> s.services, zones |-> s.zones]
      /\ s.zones = sums.zones /\ t \in Int
      /\ s.total = IF ask.cloud = "oci" THEN sums.total + t ELSE sums.total
  BY <1>1, <1>2, <1>4, ServicesCounted DEF ProviderType
<1>7. sums.total \in Int /\ Costs(sums.zones)
  BY <1>2 DEF ProviderType
<1>8. /\ sums' = [total |-> s.total, services |-> s.services, zones |-> sums'.zones]
      /\ Costs(sums'.zones)
      /\ \A z : Figure(sums'.zones, z) = Figure(sums.zones, z) + ZoneTotals(z)[k]
      /\ CostsTotal(sums'.zones) = CostsTotal(sums.zones) + LineTotals[k]
  BY <1>1, <1>2, <1>4, <1>5, <1>6, <1>7, ZonesCounted
<1>9. sums'.total = s.total /\ sums'.services = s.services /\ s.total \in Int
  BY <1>6, <1>7, <1>8
<1>10. ProviderType'
  BY <1>1, <1>2, <1>3, <1>8, <1>9, SameTotals DEF ProviderType, Settings, Costs
<1>11. /\ IsFiniteSet(Heard) /\ IsFiniteSet(Answered) /\ k \notin Heard /\ k \notin Answered
       /\ \A i \in Heard \cup {k} : ServiceTotals[i] \in Int
       /\ \A i \in Answered \cup {k} : LineTotals[i] \in Int
       /\ \A z : \A i \in Answered \cup {k} : ZoneTotals(z)[i] \in Int
  BY <1>1, <1>2, <1>3, <1>4, TotalsTyped
<1>12. TotalTrue'
  <2>1. SumOver(ServiceTotals, Heard \cup {k}) = SumOver(ServiceTotals, Heard) + t
    BY <1>4, <1>11, SumAdd
  <2>2. SumOver(ServiceTotals, Heard)' = SumOver(ServiceTotals, Heard \cup {k})
    BY <1>1, <1>3, <1>4, SameTotals
  <2>3. sums.total = SumOver(ServiceTotals, Heard) + Pending
    BY <1>1 DEF ProviderInv, TotalTrue
  <2>4. Pending = IF ask.cloud = "oci" THEN 0 ELSE t
    BY <1>1, <1>4 DEF Pending
  <2>5. Pending' = 0
    BY <1>3 DEF Pending
  <2>6. SumOver(ServiceTotals, Heard) \in Int
    BY <1>2, TotalsTyped
  <2> QED BY <1>6, <1>7, <1>9, <2>1, <2>2, <2>3, <2>4, <2>5, <2>6 DEF TotalTrue
<1>13. ZonesTrue'
  <2>1. SumOver(LineTotals, Answered \cup {k}) = SumOver(LineTotals, Answered) + LineTotals[k]
    BY <1>11, SumAdd
  <2>2. ASSUME NEW z
        PROVE  SumOver(ZoneTotals(z), Answered \cup {k})
                 = SumOver(ZoneTotals(z), Answered) + ZoneTotals(z)[k]
    <3>1. PICK f : f = ZoneTotals(z)
      OBVIOUS
    <3>2. \A i \in Answered \cup {k} : f[i] \in Int
      BY <1>11, <3>1
    <3>3. SumOver(f, Answered \cup {k}) = SumOver(f, Answered) + f[k]
      BY <1>11, <3>2, SumAdd
    <3> QED BY <3>1, <3>3
  <2>3. /\ CostsTotal(sums.zones) = SumOver(LineTotals, Answered)
        /\ \A z : Figure(sums.zones, z) = SumOver(ZoneTotals(z), Answered)
    BY DEF ProviderInv, ZonesTrue
  <2>4. CostsTotal(sums'.zones) = SumOver(LineTotals, Answered \cup {k})
    BY <1>8, <2>1, <2>3
  <2>5. \A z : Figure(sums'.zones, z) = SumOver(ZoneTotals(z), Answered \cup {k})
    BY <1>8, <2>2, <2>3
  <2>6. Answered' = Answered \cup {k} /\ LineTotals' = LineTotals
        /\ \A z : ZoneTotals(z)' = ZoneTotals(z)
    BY <1>1, <1>3, <1>4, SameTotals
  <2> QED BY <2>4, <2>5, <2>6 DEF ZonesTrue
<1>14. ErrorTrue'
  BY <1>3 DEF ErrorTrue
<1> QED BY <1>10, <1>12, <1>13, <1>14 DEF ProviderInv

\* Steps that count nothing.
LEMMA PlaceStep ==
    ASSUME ProviderInv, Settings, UNCHANGED <<sums, fates>>, place.pc \in {"services", "regions"},
           NEW pc \in {"services", "error"}, NEW from \in {"set", "home"},
           place' = [place EXCEPT !.pc = pc, !.from = from],
           pc = "services" => ask.cloud = "oci",
           pc = "error" => \/ ask.cloud = "oci" \/ (ask.cloud = "aws" /\ place.scope = 1)
                           \/ (ask.cloud = "gcp" /\ Scope \in ask.misnamed)
    PROVE  ProviderInv'
<1>1. /\ place' \in [pc : {"services", "error"}, scope : Nat \ {0}, from : {"set", "home"}]
      /\ place'.pc = pc /\ place'.scope = place.scope
  <2>1. place \in [pc : {"services", "regions", "done", "error"}, scope : Nat \ {0},
                   from : {"set", "home"}]
    BY DEF ProviderInv, ProviderType
  <2> QED BY <2>1
<1>2. Heard' = Heard /\ Answered' = Answered
  BY DEF Heard, Answered
<1>3. ProviderType'
  BY <1>1, SameTotals DEF ProviderInv, ProviderType, Settings, Costs
<1>4. TotalTrue'
  BY <1>1, <1>2, SameTotals DEF ProviderInv, TotalTrue, Pending
<1>5. ZonesTrue'
  BY <1>2, SameTotals DEF ProviderInv, ZonesTrue
<1>6. ErrorTrue'
  BY <1>1, SameTotals DEF ErrorTrue, Scope, Settings
<1> QED BY <1>3, <1>4, <1>5, <1>6 DEF ProviderInv

LEMMA ProviderStep == ProviderInv /\ [ProviderNext]_providerVars => ProviderInv'
<1> SUFFICES ASSUME ProviderInv, [ProviderNext]_providerVars PROVE ProviderInv'
  OBVIOUS
<1>0. place \in [pc : {"services", "regions", "done", "error"}, scope : Nat \ {0},
                 from : {"set", "home"}]
  BY DEF ProviderInv, ProviderType
<1>1. CASE ServicesAnswer
  BY <1>1, ServicesStep
<1>2. CASE RegionsAnswer
  BY <1>2, RegionsStep
<1>3. ASSUME Refuse, place.pc \in {"services", "regions"},
             \/ ask.cloud = "oci" \/ (ask.cloud = "aws" /\ place.scope = 1)
             \/ (ask.cloud = "gcp" /\ Scope \in ask.misnamed)
      PROVE  ProviderInv'
  <2>1. PICK from : from = place.from
    OBVIOUS
  <2>2. from \in {"set", "home"}
    BY <1>0, <2>1
  <2>3. place' = [place EXCEPT !.pc = "error", !.from = from]
    BY <1>0, <1>3, <2>1 DEF Refuse
  <2> QED BY <1>3, <2>2, <2>3, PlaceStep DEF Refuse, Settings
<1>4. CASE QueryFails
  <2>1. CASE MustAnswer
    BY <1>3, <1>4, <2>1 DEF QueryFails, MustAnswer, Asking
  <2>2. CASE ~MustAnswer
    BY <1>4, <2>2, FailStep
  <2> QED BY <2>1, <2>2
<1>5. CASE AskedAtHome
  <2>1. place' = [place EXCEPT !.pc = "services", !.from = "home"]
    BY <1>5 DEF AskedAtHome
  <2>2. ask.cloud = "oci" /\ place.pc \in {"services", "regions"} /\ Settings
        /\ UNCHANGED <<sums, fates>>
    BY <1>5 DEF AskedAtHome, Asking, Settings
  <2> QED BY <2>1, <2>2, PlaceStep
<1>6. CASE MisnamedTable
  BY <1>3, <1>6 DEF MisnamedTable
<1>7. CASE UNCHANGED providerVars
  <2>1. Heard' = Heard /\ Answered' = Answered /\ Settings /\ UNCHANGED <<place, sums, fates>>
    BY <1>7 DEF Heard, Answered, Settings, providerVars
  <2> QED BY <2>1, SameTotals DEF ProviderInv, ProviderType, TotalTrue, ZonesTrue, ErrorTrue,
       Pending, Costs, Settings, Scope
<1> QED BY <1>1, <1>2, <1>4, <1>5, <1>6, <1>7 DEF ProviderNext

-----------------------------------------------------------------------------
\* The rows of an answer, and the snapshots that are stored of them.
LEMMA Joined ==
    ASSUME NEW T, NEW s \in Seq(T), NEW t \in Seq(T)
    PROVE  /\ s \o t \in Seq(T) /\ Len(s \o t) = Len(s) + Len(t)
           /\ \A i \in 1..Len(s) : (s \o t)[i] = s[i]
           /\ \A i \in 1..Len(t) : (s \o t)[Len(s) + i] = t[i]
OBVIOUS

LEMMA ScopeRowIs ==
    ASSUME ProviderInv, place.pc = "done"
    PROVE  /\ DOMAIN fates = ScopeNumbers
           /\ \A i \in ScopeNumbers :
                 /\ ScopeRow(i).id = ScopesOf(ask)[i]
                 /\ ScopeRow(i).parent = ParentOf(ask, ScopesOf(ask)[i])
                 /\ ScopeRow(i).cost = IF fates[i] = "answered" THEN ServiceTotals[i] ELSE 0
                 /\ ScopeRow(i).error <=> fates[i] # "answered"
<1>1. DOMAIN fates = ScopeNumbers
  <2>1. DOMAIN fates = 1..(place.scope - 1) /\ Len(ScopesOf(ask)) \in Nat
    BY TotalsTyped DEF ProviderInv
  <2>2. place.scope = Len(ScopesOf(ask)) + 1
    BY DEF ProviderInv, ProviderType
  <2> QED BY <2>1, <2>2 DEF ScopeNumbers
<1>2. ASSUME NEW i \in ScopeNumbers
      PROVE  /\ ScopeRow(i).id = ScopesOf(ask)[i]
             /\ ScopeRow(i).parent = ParentOf(ask, ScopesOf(ask)[i])
             /\ ScopeRow(i).cost = IF fates[i] = "answered" THEN ServiceTotals[i] ELSE 0
             /\ ScopeRow(i).error <=> fates[i] # "answered"
  <2>1. PICK scope, kind, parent, t :
          /\ scope = ScopesOf(ask)[i] /\ parent = ParentOf(ask, scope)
          /\ kind = (IF ask.cloud = "azure" /\ scope = ask.top THEN "management_group"
                     ELSE ScopeKind[ask.cloud])
          /\ t = CostsTotal(ServiceRows(scope))
    OBVIOUS
  <2>2. ScopeRow(i) = IF fates[i] = "answered"
          THEN [id |-> scope, kind |-> kind, parent |-> parent, cost |-> t, error |-> FALSE]
          ELSE [id |-> scope, kind |-> kind, parent |-> parent, cost |-> 0, error |-> TRUE]
    BY <2>1 DEF ScopeRow, CostRow
  <2>3. ServiceTotals[i] = t
    BY <2>1 DEF ServiceTotals
  <2> QED BY <2>1, <2>2, <2>3
<1> QED BY <1>1, <1>2

\* The rows above those of the scopes: none, one, or an organization and a folder.
Header(id, kind, parent, total) ==
    [id |-> id, kind |-> kind, parent |-> parent, cost |-> total, error |-> FALSE]

LEMMA HeaderForms ==
    ASSUME ask \in CostRequest, NEW total
    PROVE  \/ /\ Headers(ask, total) = <<>>
              /\ (ask.cloud = "azure" => ask.top = "none") =>
                    \A scope : ParentOf(ask, scope) = "none"
           \/ \E p, kind :
                 /\ p # "none" /\ p \notin Holding /\ (p = "default" => ask.cloud = "gcp")
                 /\ Headers(ask, total) = <<Header(p, kind, "none", total)>>
                 /\ \A scope : ParentOf(ask, scope) = p
           \/ \E p, q, kind, above :
                 /\ p # "none" /\ p \notin Holding /\ q # "none" /\ q \notin Holding /\ p # q
                 /\ ask.cloud = "gcp"
                 /\ Headers(ask, total)
                      = <<Header(q, above, "none", total), Header(p, kind, q, total)>>
                 /\ \A scope : ParentOf(ask, scope) = p
<1>0. RequestTyped(ask)
  BY RequestIs
<1>1. CASE ask.cloud = "aws"
  <2>1. CASE ask.listed = <<>>
    BY <1>1, <2>1 DEF Headers, ParentOf
  <2>2. CASE ask.listed # <<>>
    <3>1. Headers(ask, total) = <<Header("aws-organization", "organization", "none", total)>>
      BY <1>1, <2>2 DEF Headers, CostRow, Header
    <3>2. \A scope : ParentOf(ask, scope) = "aws-organization"
      BY <1>1, <2>2 DEF ParentOf
    <3>3. "aws-organization" \notin Holding
      BY ProviderBounds
    <3> QED BY <3>1, <3>2, <3>3
  <2> QED BY <2>1, <2>2
<1>2. CASE ask.cloud \in {"azure", "oci"}
  BY <1>2 DEF Headers, ParentOf
<1>3. CASE ask.cloud = "gcp"
  <2>1. Headers(ask, total) =
          (IF ask.top = "none" THEN <<>> ELSE <<Header(ask.top, "organization", "none", total)>>)
          \o (IF ask.mid = "none" THEN <<>> ELSE <<Header(ask.mid, "folder", ask.top, total)>>)
    BY <1>3 DEF Headers, CostRow, FolderRow, Header
  <2>2. \A scope : ParentOf(ask, scope) = IF ask.mid # "none" THEN ask.mid ELSE ask.top
    BY <1>3 DEF ParentOf
  <2>3. ask.top \notin Holding /\ ask.mid \notin Holding /\ (ask.mid # "none" => ask.mid # ask.top)
    BY <1>0 DEF RequestTyped
  <2>4. PICK x, y : x = Header(ask.top, "organization", "none", total)
                    /\ y = Header(ask.mid, "folder", ask.top, total)
    OBVIOUS
  <2>5. <<>> \o <<>> = <<>> /\ <<x>> \o <<>> = <<x>> /\ <<>> \o <<y>> = <<y>>
        /\ <<x>> \o <<y>> = <<x, y>>
    <3>1. <<x>> \o <<y>> = Append(<<x>>, y) /\ <<x, y>> = Append(<<x>>, y)
      OBVIOUS
    <3>2. <<>> \o <<>> = <<>> /\ <<x>> \o <<>> = <<x>> /\ <<>> \o <<y>> = <<y>>
      OBVIOUS
    <3> QED BY <3>1, <3>2
  <2>6. CASE ask.top = "none" /\ ask.mid = "none"
    BY <2>1, <2>2, <2>5, <2>6
  <2>7. CASE ask.top # "none" /\ ask.mid = "none"
    BY <1>3, <2>1, <2>2, <2>3, <2>4, <2>5, <2>7
  <2>8. CASE ask.top = "none" /\ ask.mid # "none"
    BY <1>3, <2>1, <2>2, <2>3, <2>4, <2>5, <2>8
  <2>9. CASE ask.top # "none" /\ ask.mid # "none"
    BY <1>3, <2>1, <2>2, <2>3, <2>4, <2>5, <2>9
  <2> QED BY <2>6, <2>7, <2>8, <2>9
<1> QED BY <1>0, <1>1, <1>2, <1>3 DEF RequestTyped

\* One snapshot of every row, if no two are of one account.
LEMMA SnapshotOf ==
    ASSUME NEW T, NEW listed \in Seq(T),
           \A i, j \in 1..Len(listed) : listed[i].id = listed[j].id => i = j
    PROVE  /\ DOMAIN Snapshots(listed) = {listed[i].id : i \in 1..Len(listed)}
           /\ \A i \in 1..Len(listed) :
                 /\ Snapshots(listed)[listed[i].id].parent = listed[i].parent
                 /\ Snapshots(listed)[listed[i].id].cost =
                      IF listed[i].cost = 0 /\ Len(listed) = 1 THEN sums.total ELSE listed[i].cost
<1>1. Range(listed) = {listed[i] : i \in 1..Len(listed)}
  BY DEF Range
<1>2. {x.id : x \in Range(listed)} = {listed[i].id : i \in 1..Len(listed)}
  BY <1>1
<1>3. ASSUME NEW i \in 1..Len(listed)
      PROVE  (CHOOSE j \in DOMAIN listed :
                listed[j].id = listed[i].id /\ \A k \in 1..(j - 1) : listed[k].id # listed[i].id) = i
  <2>1. DOMAIN listed = 1..Len(listed) /\ Len(listed) \in Nat
    OBVIOUS
  <2>2. ASSUME NEW k \in 1..(i - 1) PROVE listed[k].id # listed[i].id
    <3>1. k \in 1..Len(listed) /\ k # i
      BY <2>1
    <3> QED BY <3>1
  <2>3. \A j \in DOMAIN listed : listed[j].id = listed[i].id => j = i
    BY <2>1
  <2> QED BY <2>1, <2>2, <2>3
<1> DEFINE First(id) == CHOOSE j \in DOMAIN listed :
                          listed[j].id = id /\ \A k \in 1..(j - 1) : listed[k].id # id
<1>6. Snapshots(listed) = [id \in {x.id : x \in Range(listed)} |->
        [parent |-> listed[First(id)].parent,
         cost |-> IF listed[First(id)].cost = 0 /\ Len(listed) = 1 THEN sums.total
                  ELSE listed[First(id)].cost]]
  BY Zenon DEF Snapshots
<1>4. ASSUME NEW i \in 1..Len(listed)
      PROVE  Snapshots(listed)[listed[i].id] =
               [parent |-> listed[i].parent,
                cost |-> IF listed[i].cost = 0 /\ Len(listed) = 1 THEN sums.total ELSE listed[i].cost]
  <2>1. listed[i].id \in {x.id : x \in Range(listed)}
    BY <1>2
  <2>2. Snapshots(listed)[listed[i].id] =
          [parent |-> listed[First(listed[i].id)].parent,
           cost |-> IF listed[First(listed[i].id)].cost = 0 /\ Len(listed) = 1 THEN sums.total
                    ELSE listed[First(listed[i].id)].cost]
    <3> HIDE DEF First
    <3> QED BY <1>6, <2>1
  <2> QED BY <1>3, <2>2
<1>5. DOMAIN Snapshots(listed) = {x.id : x \in Range(listed)}
  <2> HIDE DEF First
  <2> QED BY <1>6
<1>7. ASSUME NEW i \in 1..Len(listed)
      PROVE  /\ Snapshots(listed)[listed[i].id].parent = listed[i].parent
             /\ Snapshots(listed)[listed[i].id].cost =
                  IF listed[i].cost = 0 /\ Len(listed) = 1 THEN sums.total ELSE listed[i].cost
  <2>1. PICK x, p, c : /\ x = Snapshots(listed)[listed[i].id] /\ p = listed[i].parent
                       /\ c = IF listed[i].cost = 0 /\ Len(listed) = 1 THEN sums.total ELSE listed[i].cost
    OBVIOUS
  <2>2. x = [parent |-> p, cost |-> c]
    BY <1>4, <2>1
  <2>3. x.parent = p /\ x.cost = c
    BY <2>2
  <2> QED BY <2>1, <2>3
<1>8. DOMAIN Snapshots(listed) = {listed[i].id : i \in 1..Len(listed)}
  BY Zenon, <1>2, <1>5
<1> QED BY <1>7, <1>8

LEMMA RowsAre ==
    ASSUME ProviderInv, place.pc = "done",
           NEW H, H = Headers(ask, sums.total), NEW T, H \in Seq(T)
    PROVE  /\ Rows \in Seq(T \cup {ScopeRow(i) : i \in ScopeNumbers})
           /\ Len(Rows) = Len(H) + Len(ScopesOf(ask)) /\ Len(H) \in Nat
           /\ \A i \in 1..Len(H) : Rows[i] = H[i]
           /\ \A i \in ScopeNumbers : Rows[Len(H) + i] = ScopeRow(i)
<1>1. PICK U, t, n : /\ U = T \cup {ScopeRow(i) : i \in ScopeNumbers}
                     /\ t = [i \in ScopeNumbers |-> ScopeRow(i)] /\ n = Len(ScopesOf(ask))
  OBVIOUS
<1>2. n \in Nat /\ ScopeNumbers = 1..n
  BY <1>1, TotalsTyped DEF ProviderInv, ScopeNumbers
<1>3. t \in Seq(U) /\ Len(t) = n
  <2>1. t \in [1..n -> U]
    BY <1>1, <1>2
  <2> QED BY <1>2, <2>1
<1>4. H \in Seq(U)
  BY <1>1
<1>5. Rows = H \o t
  BY <1>1, ScopeRowIs DEF Rows
<1>6. /\ H \o t \in Seq(U) /\ Len(H \o t) = Len(H) + Len(t)
      /\ \A i \in 1..Len(H) : (H \o t)[i] = H[i]
      /\ \A i \in 1..Len(t) : (H \o t)[Len(H) + i] = t[i]
  <2>1. PICK p \in Seq(U) : p = H
    BY <1>4
  <2>2. PICK q \in Seq(U) : q = t
    BY <1>3
  <2>3. p \o q \in Seq(U) /\ Len(p \o q) = Len(p) + Len(q)
    OBVIOUS
  <2>4. \A i \in 1..Len(p) : (p \o q)[i] = p[i]
    OBVIOUS
  <2>5. \A i \in 1..Len(q) : (p \o q)[Len(p) + i] = q[i]
    OBVIOUS
  <2> QED BY <2>1, <2>2, <2>3, <2>4, <2>5
<1>7. /\ Rows \in Seq(U) /\ Len(Rows) = Len(H) + n /\ Len(H) \in Nat
      /\ \A i \in 1..Len(H) : Rows[i] = H[i]
  BY <1>3, <1>4, <1>5, <1>6
<1>8. ASSUME NEW i \in ScopeNumbers PROVE Rows[Len(H) + i] = ScopeRow(i)
  <2>1. t[i] = ScopeRow(i) /\ i \in 1..Len(t)
    BY <1>1, <1>2, <1>3
  <2> QED BY <1>5, <1>6, <2>1
<1> QED BY <1>1, <1>7, <1>8

RowCost(i) == IF fates[i] = "answered" THEN ServiceTotals[i] ELSE 0

ScopeNames == {ScopesOf(ask)[i] : i \in ScopeNumbers}

HeadersApart(H) ==
    /\ \A i, j \in 1..Len(H) : H[i].id = H[j].id => i = j
    /\ \A i \in 1..Len(H) : H[i].id \notin ScopeNames

StoredFrom(H, shown) ==
    /\ DOMAIN shown = {H[i].id : i \in 1..Len(H)} \cup ScopeNames
    /\ \A i \in 1..Len(H) : shown[H[i].id].parent = H[i].parent /\ shown[H[i].id].cost = H[i].cost
    /\ \A i \in ScopeNumbers :
          /\ shown[ScopesOf(ask)[i]].parent = ParentOf(ask, ScopesOf(ask)[i])
          /\ shown[ScopesOf(ask)[i]].cost =
               IF RowCost(i) = 0 /\ H = <<>> /\ Len(ScopesOf(ask)) = 1
               THEN sums.total ELSE RowCost(i)

\* What is stored, if every row has an id of its own.
LEMMA StoredRows ==
    ASSUME ProviderInv, place.pc = "done", Different(ScopesOf(ask)),
           NEW H, H = Headers(ask, sums.total), NEW T, H \in Seq(T), HeadersApart(H)
    PROVE  StoredFrom(H, Snapshots(Rows))
<1>1. PICK U, r, S, n, h :
        /\ U = T \cup {ScopeRow(i) : i \in ScopeNumbers} /\ r = Rows
        /\ S = ScopesOf(ask) /\ n = Len(S) /\ h = Len(H)
  OBVIOUS
<1>2. n \in Nat \ {0} /\ h \in Nat /\ ScopeNumbers = 1..n
  BY <1>1, TotalsTyped, RowsAre DEF ProviderInv, ScopeNumbers
<1>3. /\ r \in Seq(U) /\ Len(r) = h + n
      /\ \A i \in 1..h : r[i] = H[i]
      /\ \A i \in 1..n : r[h + i] = ScopeRow(i)
  BY <1>1, <1>2, RowsAre
<1>4. \A i \in 1..n : /\ ScopeRow(i).id = S[i] /\ ScopeRow(i).parent = ParentOf(ask, S[i])
                      /\ ScopeRow(i).cost = RowCost(i) /\ S[i] \in ScopeNames
  BY <1>1, <1>2, ScopeRowIs DEF RowCost, ScopeNames
<1>5. \A i \in 1..(h + n) : i \in 1..h \/ \E k \in 1..n : i = h + k
  <2> SUFFICES ASSUME NEW i \in 1..(h + n), i \notin 1..h PROVE \E k \in 1..n : i = h + k
    OBVIOUS
  <2>1. i - h \in 1..n /\ i = h + (i - h)
    BY <1>2
  <2> QED BY <2>1
<1>6. \A i \in 1..n : r[h + i].id = S[i] /\ h + i \in 1..(h + n)
  BY <1>2, <1>3, <1>4
<1>7. \A i \in 1..h : r[i].id = H[i].id /\ H[i].id \notin ScopeNames /\ i \in 1..(h + n)
  BY <1>1, <1>2, <1>3 DEF HeadersApart
<1>8. ASSUME NEW i \in 1..(h + n), NEW j \in 1..(h + n), r[i].id = r[j].id
      PROVE  i = j
  <2>1. CASE i \in 1..h /\ j \in 1..h
    BY <1>1, <1>7, <1>8, <2>1 DEF HeadersApart
  <2>2. CASE i \in 1..h /\ j \notin 1..h
    <3>1. PICK k \in 1..n : j = h + k
      BY <1>5, <2>2
    <3> QED BY <1>4, <1>6, <1>7, <1>8, <2>2, <3>1
  <2>3. CASE i \notin 1..h /\ j \in 1..h
    <3>1. PICK k \in 1..n : i = h + k
      BY <1>5, <2>3
    <3> QED BY <1>4, <1>6, <1>7, <1>8, <2>3, <3>1
  <2>4. CASE i \notin 1..h /\ j \notin 1..h
    <3>1. PICK k \in 1..n, l \in 1..n : i = h + k /\ j = h + l
      BY <1>5, <2>4
    <3>2. S[k] = S[l]
      BY <1>6, <1>8, <3>1
    <3>3. k = l
      BY <1>1, <3>2 DEF Different
    <3> QED BY <3>1, <3>3
  <2> QED BY <2>1, <2>2, <2>3, <2>4
<1>9. /\ DOMAIN Snapshots(r) = {r[i].id : i \in 1..Len(r)}
      /\ \A i \in 1..Len(r) :
            /\ Snapshots(r)[r[i].id].parent = r[i].parent
            /\ Snapshots(r)[r[i].id].cost =
                 IF r[i].cost = 0 /\ Len(r) = 1 THEN sums.total ELSE r[i].cost
  <2>1. \A i, j \in 1..Len(r) : r[i].id = r[j].id => i = j
    BY <1>3, <1>8
  <2> QED BY <1>3, <2>1, SnapshotOf
<1>10. {r[i].id : i \in 1..(h + n)} = {H[i].id : i \in 1..h} \cup {S[i] : i \in 1..n}
  <2>1. ASSUME NEW i \in 1..(h + n) PROVE r[i].id \in {H[k].id : k \in 1..h} \cup {S[k] : k \in 1..n}
    BY <1>5, <1>6, <1>7
  <2>2. ASSUME NEW i \in 1..h PROVE H[i].id \in {r[k].id : k \in 1..(h + n)}
    BY <1>7
  <2>3. ASSUME NEW i \in 1..n PROVE S[i] \in {r[k].id : k \in 1..(h + n)}
    BY <1>6
  <2> QED BY <2>1, <2>2, <2>3
<1>11. ScopeNames = {S[i] : i \in 1..n}
  BY <1>1, <1>2 DEF ScopeNames
<1>12. ASSUME NEW i \in 1..h
       PROVE  Snapshots(r)[H[i].id].parent = H[i].parent /\ Snapshots(r)[H[i].id].cost = H[i].cost
  <2>1. i \in 1..Len(r) /\ r[i] = H[i] /\ Len(r) # 1
    BY <1>2, <1>3
  <2> QED BY <1>9, <2>1
<1>13. ASSUME NEW i \in 1..n
       PROVE  /\ Snapshots(r)[S[i]].parent = ParentOf(ask, S[i])
              /\ Snapshots(r)[S[i]].cost =
                   IF RowCost(i) = 0 /\ H = <<>> /\ n = 1 THEN sums.total ELSE RowCost(i)
  <2>1. PICK k : k = h + i
    OBVIOUS
  <2>2. k \in 1..Len(r) /\ r[k] = ScopeRow(i)
    BY <1>2, <1>3, <2>1
  <2>3. Len(r) = 1 <=> H = <<>> /\ n = 1
    <3>1. H = <<>> <=> h = 0
      BY <1>1
    <3>2. Len(r) = h + n
      BY <1>3
    <3> QED BY <1>2, <3>1, <3>2
  <2>4. r[k].id = S[i] /\ r[k].parent = ParentOf(ask, S[i]) /\ r[k].cost = RowCost(i)
    BY <1>4, <2>2
  <2> QED BY <1>9, <2>2, <2>3, <2>4
<1> QED BY <1>1, <1>2, <1>3, <1>9, <1>10, <1>11, <1>12, <1>13 DEF StoredFrom

-----------------------------------------------------------------------------
\* What explains a total.
Halves == {i \in DOMAIN fates : fates[i] = "half"}

LEMMA UnexplainedIs ==
    ASSUME ProviderInv, place.pc = "done"
    PROVE  /\ Unexplained = SumOver(ServiceTotals, Halves)
           /\ Unexplained + SumOver(ServiceTotals, Answered) = sums.total
<1>1. /\ IsFiniteSet(Heard) /\ Heard \subseteq ScopeNumbers
      /\ \A i \in Heard : ServiceTotals[i] \in Int
  BY TotalsTyped DEF ProviderInv
<1>2. Halves \subseteq Heard /\ Answered \subseteq Heard
  BY DEF Halves, Answered, Heard
<1>3. Halves \cap Answered = {} /\ Heard = Halves \cup Answered
  <2>1. \A i \in DOMAIN fates : fates[i] \in {"answered", "silent", "half"}
    BY DEF ProviderInv, ProviderType, Fate
  <2> QED BY <2>1 DEF Halves, Answered, Heard
<1>4. IsFiniteSet(Halves) /\ IsFiniteSet(Answered)
  BY <1>1, <1>2, FS_Subset
<1>5. PICK costs : costs = [i \in Halves |-> CostsTotal(ServiceRows(ScopesOf(ask)[i]))]
  OBVIOUS
<1>6. Unexplained = CostsTotal(costs)
  BY <1>5 DEF Unexplained, Halves
<1>7. DOMAIN costs = Halves /\ \A i \in Halves : costs[i] = ServiceTotals[i]
  BY <1>1, <1>2, <1>5 DEF ServiceTotals
<1>8. CostsTotal(costs) = SumOver(ServiceTotals, Halves)
  BY <1>4, <1>7, CostsOfEach
<1>9. SumOver(ServiceTotals, Halves \cup Answered)
        = SumOver(ServiceTotals, Halves) + SumOver(ServiceTotals, Answered)
  BY <1>1, <1>3, <1>4, SumUnion
<1>10. sums.total = SumOver(ServiceTotals, Heard) + 0
  BY DEF ProviderInv, TotalTrue, Pending
<1>11. SumOver(ServiceTotals, Heard) \in Int
  BY <1>1, SumType
<1> QED BY <1>3, <1>6, <1>8, <1>9, <1>10, <1>11

\* The costs of rows of scopes add up to those of the scopes that answered.
LEMMA ScopesAddUp ==
    ASSUME ProviderInv, place.pc = "done", Different(ScopesOf(ask)), NEW shown,
           \A i \in ScopeNumbers : shown[ScopesOf(ask)[i]].cost = RowCost(i)
    PROVE  CostsTotal([id \in ScopeNames |-> shown[id].cost]) = SumOver(ServiceTotals, Answered)
<1>1. PICK S, I, N, e, f, h :
        /\ S = ScopesOf(ask) /\ I = ScopeNumbers /\ N = ScopeNames
        /\ e = [i \in I |-> S[i]]
        /\ f = [id \in N |-> shown[id].cost] /\ h = [i \in I |-> RowCost(i)]
  OBVIOUS
<1>2. /\ \A i \in I : ServiceTotals[i] \in Int /\ I = 1..Len(S) /\ Len(S) \in Nat
      /\ Answered \subseteq I /\ Answered = {i \in I : fates[i] = "answered"}
      /\ IsFiniteSet(I)
  <2>1. Len(S) \in Nat
    BY <1>1, TotalsTyped DEF ProviderInv
  <2>2. I = 1..Len(S)
    BY <1>1 DEF ScopeNumbers
  <2>3. IsFiniteSet(I)
    <3>1. 1 \in Int /\ Len(S) \in Int
      BY <2>1
    <3> QED BY <2>2, <3>1, FS_Interval
  <2>4. Answered = {i \in I : fates[i] = "answered"}
    BY <1>1, ScopeRowIs DEF Answered
  <2> QED BY <1>1, <2>1, <2>2, <2>3, <2>4, TotalsTyped DEF ProviderInv
<1>3. \A i, j \in I : e[i] = e[j] => i = j
  BY <1>1, <1>2 DEF Different
<1>4. \A i \in I : h[i] \in Int /\ f[e[i]] = h[i]
  <2> SUFFICES ASSUME NEW i \in I PROVE h[i] \in Int /\ f[e[i]] = h[i]
    OBVIOUS
  <2>1. e[i] = S[i] /\ S[i] \in N
    BY <1>1 DEF ScopeNames
  <2>2. f[e[i]] = shown[S[i]].cost /\ h[i] = RowCost(i)
    BY <1>1, <2>1
  <2>3. RowCost(i) \in Int
    BY <1>2 DEF RowCost
  <2> QED BY <1>1, <2>2, <2>3
<1>5. N = {e[i] : i \in I}
  BY <1>1 DEF ScopeNames
<1>6. SumOver(f, {e[i] : i \in I}) = SumOver(h, I)
  BY <1>2, <1>3, <1>4, SumImage
<1>7. SumOver(h, I) = SumOver(h, Answered)
  <2>1. \A i \in I \ Answered : h[i] = 0
    BY <1>1, <1>2 DEF RowCost
  <2>2. \A i \in I : h[i] \in Int
    BY <1>4
  <2> QED BY <1>2, <2>1, <2>2, SumOfPart
<1>8. SumOver(h, Answered) = SumOver(ServiceTotals, Answered)
  <2>1. IsFiniteSet(Answered)
    BY <1>2, FS_Subset
  <2>2. \A i \in Answered : h[i] = ServiceTotals[i]
    BY <1>1, <1>2 DEF RowCost
  <2> QED BY <2>1, <2>2, SumAgree
<1>9. DOMAIN f = N
  BY <1>1
<1>10. CostsTotal(f) = SumOver(f, N)
  BY <1>9, CostsSum
<1> QED BY <1>1, <1>5, <1>6, <1>7, <1>8, <1>10

\* A hierarchy of headers above the scopes explains the total.
LEMMA TreeAddsUp ==
    ASSUME ProviderInv, place.pc = "done", Different(ScopesOf(ask)), NEW shown,
           NEW above, IsFiniteSet(above),
           DOMAIN shown = above \cup ScopeNames, above \cap ScopeNames = {},
           \A i \in ScopeNumbers : shown[ScopesOf(ask)[i]].cost =
              IF RowCost(i) = 0 /\ above = {} /\ Len(ScopesOf(ask)) = 1
              THEN sums.total ELSE RowCost(i),
           \A id \in DOMAIN shown : shown[id].parent \notin ScopeNames,
           \A id \in above : /\ shown[id].cost = sums.total
                             /\ \E c \in DOMAIN shown : shown[c].parent = id,
           above # {} => \E root : {id \in DOMAIN shown : shown[id].parent \notin DOMAIN shown} = {root}
    PROVE  AddUp(shown)
<1>0. PICK leaves : leaves = {id \in DOMAIN shown : \A c \in DOMAIN shown : shown[c].parent # id}
  OBVIOUS
<1>a. PICK roots : roots = {id \in DOMAIN shown : shown[id].parent \notin DOMAIN shown}
  OBVIOUS
<1>b. PICK total : total = CostsTotal([id \in leaves |-> shown[id].cost])
  OBVIOUS
<1>1. PICK n, S : S = ScopesOf(ask) /\ n = Len(S)
  OBVIOUS
<1>2. leaves = ScopeNames
  BY <1>0
<1>3. n \in Nat \ {0} /\ ScopeNumbers = 1..n /\ Different(S)
  BY <1>1, TotalsTyped DEF ProviderInv, ScopeNumbers
<1>4. /\ Unexplained + SumOver(ServiceTotals, Answered) = sums.total
      /\ Unexplained = SumOver(ServiceTotals, Halves)
  BY UnexplainedIs
<1>5. Unexplained \in Int /\ SumOver(ServiceTotals, Answered) \in Int /\ sums.total \in Int
  <2>1. /\ IsFiniteSet(Heard) /\ Heard \subseteq ScopeNumbers /\ sums.total \in Int
        /\ \A i \in ScopeNumbers : ServiceTotals[i] \in Int
    BY TotalsTyped DEF ProviderInv, ProviderType
  <2>2. Halves \subseteq Heard /\ Answered \subseteq Heard
    BY DEF Halves, Answered, Heard
  <2>3. IsFiniteSet(Halves) /\ IsFiniteSet(Answered)
    BY <2>1, <2>2, FS_Subset
  <2>4. /\ \A i \in Halves : ServiceTotals[i] \in Int
        /\ \A i \in Answered : ServiceTotals[i] \in Int
    BY <2>1, <2>2
  <2>5. SumOver(ServiceTotals, Halves) \in Int /\ SumOver(ServiceTotals, Answered) \in Int
    BY <2>3, <2>4, SumType
  <2> QED BY <1>4, <2>1, <2>5
<1>6. CASE above = {} /\ n = 1
  <2>1. PICK x : x = S[1]
    OBVIOUS
  <2>2. ScopeNumbers = {1} /\ ScopeNames = {x} /\ DOMAIN shown = {x}
    BY <1>1, <1>3, <1>6, <2>1 DEF ScopeNames
  <2>3. Cardinality(DOMAIN shown) = 1
    BY <2>2, FS_Singleton
  <2>4. shown[x].cost = IF RowCost(1) = 0 THEN sums.total ELSE RowCost(1)
    BY <1>1, <1>6, <2>1, <2>2
  <2>5. RowCost(1) # 0 => sums.total = RowCost(1)
    <3> SUFFICES ASSUME RowCost(1) # 0 PROVE sums.total = RowCost(1)
      OBVIOUS
    <3>1. fates[1] = "answered" /\ RowCost(1) = ServiceTotals[1]
      BY DEF RowCost
    <3>2. Heard = {1}
      BY <2>2, <3>1, ScopeRowIs DEF Heard
    <3>3. ServiceTotals[1] \in Int
      BY <2>2, TotalsTyped DEF ProviderInv
    <3>4. SumOver(ServiceTotals, {1}) = ServiceTotals[1]
      BY <3>3, SumSingle
    <3>5. sums.total = SumOver(ServiceTotals, Heard) + 0
      BY DEF ProviderInv, TotalTrue, Pending
    <3> QED BY <3>1, <3>2, <3>3, <3>4, <3>5
  <2>6. shown[x].cost = sums.total
    BY <2>4, <2>5
  <2>7. total = sums.total
    <3>1. PICK f : f = [id \in leaves |-> shown[id].cost]
      OBVIOUS
    <3>2. DOMAIN f = {x} /\ f[x] = sums.total
      BY <1>2, <2>2, <2>6, <3>1
    <3>3. SumOver(f, {x}) = f[x]
      BY <1>5, <3>2, SumSingle
    <3> QED BY <1>b, <3>1, <3>2, <3>3, CostsSum
  <2> QED BY <1>0, <1>a, <1>b, <2>3, <2>7 DEF AddUp
<1>7. CASE ~(above = {} /\ n = 1)
  <2>1. \A i \in ScopeNumbers : shown[S[i]].cost = RowCost(i)
    BY <1>1, <1>7
  <2>2. total = SumOver(ServiceTotals, Answered)
    <3>1. CostsTotal([id \in ScopeNames |-> shown[id].cost]) = SumOver(ServiceTotals, Answered)
      BY <1>1, <2>1, ScopesAddUp
    <3> QED BY <1>b, <1>2, <3>1
  <2>3. total + Unexplained = sums.total
    BY <1>4, <1>5, <2>2
  <2>4. Cardinality(DOMAIN shown) # 1
    <3> SUFFICES ASSUME Cardinality(DOMAIN shown) = 1 PROVE FALSE
      OBVIOUS
    <3>1. IsFiniteSet(DOMAIN shown)
      <4>1. IsFiniteSet(ScopeNames)
        <5>1. PICK e : e = [i \in ScopeNumbers |-> S[i]]
          OBVIOUS
        <5>2. e \in Surjection(ScopeNumbers, ScopeNames)
          BY <1>1, <5>1 DEF ScopeNames, Surjection
        <5>3. IsFiniteSet(ScopeNumbers)
          <6>1. 1 \in Int /\ n \in Int
            BY <1>3
          <6> QED BY <1>3, <6>1, FS_Interval
        <5> QED BY <5>2, <5>3, FS_Surjection
      <4>2. IsFiniteSet(above \cup ScopeNames)
        BY <4>1, FS_Union
      <4>3. DOMAIN shown = above \cup ScopeNames
        OBVIOUS
      <4> QED BY Zenon, <4>2, <4>3
    <3>2. PICK x : DOMAIN shown = {x}
      BY <3>1, FS_Singleton
    <3>3. S[1] \in ScopeNames /\ 1 \in ScopeNumbers
      BY <1>1, <1>3 DEF ScopeNames
    <3>4. above = {}
      <4> SUFFICES ASSUME NEW y \in above PROVE FALSE
        OBVIOUS
      <4>1. y \in DOMAIN shown /\ S[1] \in DOMAIN shown /\ y # S[1]
        BY <3>3
      <4> QED BY <3>2, <4>1
    <3>5. 2 \in ScopeNumbers /\ S[2] \in ScopeNames
      BY <1>1, <1>3, <1>7, <3>4 DEF ScopeNames
    <3>6. S[1] = S[2]
      <4>1. S[1] \in DOMAIN shown /\ S[2] \in DOMAIN shown
        BY <3>3, <3>5
      <4> QED BY <3>2, <4>1
    <3> QED BY <1>1, <1>3, <3>3, <3>5, <3>6 DEF Different
  <2>5. \A id \in DOMAIN shown \ leaves : shown[id].cost = sums.total /\ Cardinality(roots) = 1
    <3> SUFFICES ASSUME NEW id \in DOMAIN shown \ leaves
                 PROVE  shown[id].cost = sums.total /\ Cardinality(roots) = 1
      OBVIOUS
    <3>1. id \in above
      BY <1>2
    <3>2. \E root : roots = {root}
      BY <1>a, <3>1
    <3> QED BY <3>1, <3>2, FS_Singleton
  <2> QED BY <1>0, <1>a, <1>b, <2>3, <2>4, <2>5 DEF AddUp
<1> QED BY <1>6, <1>7

LEMMA NamesApart ==
    ASSUME ProviderInv, ~RolesShared, ask.cloud = "azure" => ask.top = "none"
    PROVE  /\ Different(ScopesOf(ask))
           /\ \A x \in ScopeNames : x \in Holding \/ (x = "default" /\ ask.cloud = "aws")
           /\ ScopeNames # {} /\ "none" \notin ScopeNames
<1>1. /\ Different(ScopesOf(ask))
      /\ \A i \in ScopeNumbers :
            ScopesOf(ask)[i] \in Holding \/ (ScopesOf(ask)[i] = "default" /\ ask.cloud = "aws")
  BY ScopesApart DEF ProviderInv, ProviderType, ScopeNumbers
<1>2. 1 \in ScopeNumbers
  <2>1. Len(ScopesOf(ask)) \in Nat \ {0}
    BY TotalsTyped DEF ProviderInv
  <2> QED BY <2>1 DEF ScopeNumbers
<1>3. "none" \notin Holding
  BY ProviderBounds
<1> QED BY <1>1, <1>2, <1>3 DEF ScopeNames

LEMMA RowsExplain == ASSUME ProviderInv PROVE RowsExplainTotal
<1> SUFFICES ASSUME place.pc = "done", ask.targets = {}, ~RolesShared,
                    ask.cloud = "azure" => ask.top = "none"
             PROVE  AddUp(Stored)
  BY DEF RowsExplainTotal
<1>1. /\ Different(ScopesOf(ask)) /\ ScopeNames # {} /\ "none" \notin ScopeNames
      /\ \A x \in ScopeNames : x \in Holding \/ (x = "default" /\ ask.cloud = "aws")
  BY NamesApart
<1>2. PICK shown, H, total : shown = Snapshots(Rows) /\ H = Headers(ask, sums.total) /\ total = sums.total
  OBVIOUS
<1>3. Stored = shown
  BY <1>2 DEF Stored, RowsKept
<1>4. /\ \A i \in ScopeNumbers : ScopesOf(ask)[i] \in ScopeNames
      /\ \A x \in ScopeNames : \E i \in ScopeNumbers : x = ScopesOf(ask)[i]
  BY DEF ScopeNames
<1>5. ASSUME NEW T, H \in Seq(T), HeadersApart(H), NEW p, \A scope : ParentOf(ask, scope) = p
      PROVE  /\ DOMAIN shown = {H[i].id : i \in 1..Len(H)} \cup ScopeNames
             /\ \A i \in 1..Len(H) : shown[H[i].id].parent = H[i].parent /\ shown[H[i].id].cost = H[i].cost
             /\ \A x \in ScopeNames : shown[x].parent = p
             /\ \A i \in ScopeNumbers : shown[ScopesOf(ask)[i]].cost =
                   IF RowCost(i) = 0 /\ H = <<>> /\ Len(ScopesOf(ask)) = 1
                   THEN sums.total ELSE RowCost(i)
  <2>1. /\ DOMAIN shown = {H[i].id : i \in 1..Len(H)} \cup ScopeNames
        /\ \A i \in 1..Len(H) : shown[H[i].id].parent = H[i].parent /\ shown[H[i].id].cost = H[i].cost
        /\ \A i \in ScopeNumbers :
              /\ shown[ScopesOf(ask)[i]].parent = ParentOf(ask, ScopesOf(ask)[i])
              /\ shown[ScopesOf(ask)[i]].cost =
                   IF RowCost(i) = 0 /\ H = <<>> /\ Len(ScopesOf(ask)) = 1
                   THEN sums.total ELSE RowCost(i)
    <3>1. StoredFrom(H, Snapshots(Rows))
      BY <1>1, <1>2, <1>5, StoredRows
    <3> QED BY <1>2, <3>1 DEF StoredFrom
  <2>2. \A x \in ScopeNames : shown[x].parent = p
    BY <1>4, <1>5, <2>1
  <2> QED BY <2>1, <2>2
<1>6. CASE H = <<>> /\ \A scope : ParentOf(ask, scope) = "none"
  <2>1. PICK T : T = {}
    OBVIOUS
  <2>2. H \in Seq(T) /\ Len(H) = 0 /\ 1..Len(H) = {}
    BY <1>6
  <2>3. PICK p : p = "none"
    OBVIOUS
  <2>4. /\ DOMAIN shown = {H[i].id : i \in 1..Len(H)} \cup ScopeNames
        /\ \A x \in ScopeNames : shown[x].parent = p
        /\ \A i \in ScopeNumbers : shown[ScopesOf(ask)[i]].cost =
              IF RowCost(i) = 0 /\ H = <<>> /\ Len(ScopesOf(ask)) = 1
              THEN sums.total ELSE RowCost(i)
    BY <1>5, <1>6, <2>2, <2>3 DEF HeadersApart
  <2>5. DOMAIN shown = {} \cup ScopeNames
    BY <2>2, <2>4
  <2>6. PICK above : above = {} /\ IsFiniteSet(above)
    BY FS_EmptySet
  <2>7. /\ DOMAIN shown = above \cup ScopeNames /\ above \cap ScopeNames = {}
        /\ \A id \in DOMAIN shown : shown[id].parent \notin ScopeNames
    BY <1>1, <2>3, <2>4, <2>5, <2>6
  <2>8. \A i \in ScopeNumbers : shown[ScopesOf(ask)[i]].cost =
          IF RowCost(i) = 0 /\ above = {} /\ Len(ScopesOf(ask)) = 1 THEN sums.total ELSE RowCost(i)
    BY <1>6, <2>4, <2>6
  <2>9. AddUp(shown)
    BY <1>1, <2>6, <2>7, <2>8, TreeAddsUp
  <2> QED BY <1>3, <2>9
<1>7. ASSUME NEW p, NEW kind, p # "none", p \notin Holding, p = "default" => ask.cloud = "gcp",
             H = <<Header(p, kind, "none", total)>>, \A scope : ParentOf(ask, scope) = p
      PROVE  AddUp(Stored)
  <2>1. PICK x : x = [id |-> p, kind |-> kind, parent |-> "none", cost |-> total, error |-> FALSE]
    OBVIOUS
  <2>2. H = <<x>> /\ x.id = p /\ x.parent = "none" /\ x.cost = total
    BY <1>7, <2>1 DEF Header
  <2>3. H \in Seq({x}) /\ Len(H) = 1 /\ H[1] = x /\ 1..Len(H) = {1} /\ H # <<>>
    BY <2>2
  <2>4. p \notin ScopeNames
    BY <1>1, <1>7
  <2>5. /\ DOMAIN shown = {H[i].id : i \in 1..Len(H)} \cup ScopeNames
        /\ \A i \in 1..Len(H) : shown[H[i].id].parent = H[i].parent /\ shown[H[i].id].cost = H[i].cost
        /\ \A y \in ScopeNames : shown[y].parent = p
        /\ \A i \in ScopeNumbers : shown[ScopesOf(ask)[i]].cost =
              IF RowCost(i) = 0 /\ H = <<>> /\ Len(ScopesOf(ask)) = 1
              THEN sums.total ELSE RowCost(i)
    <3>1. HeadersApart(H)
      BY <2>2, <2>3, <2>4 DEF HeadersApart
    <3> QED BY <1>5, <1>7, <2>3, <3>1
  <2>6. PICK above : above = {p} /\ IsFiniteSet(above)
    BY FS_Singleton
  <2>7. DOMAIN shown = above \cup ScopeNames /\ shown[p].parent = "none" /\ shown[p].cost = total
    BY <2>2, <2>3, <2>5, <2>6
  <2>8. /\ above \cap ScopeNames = {}
        /\ \A id \in DOMAIN shown : shown[id].parent \notin ScopeNames
    BY <1>1, <2>4, <2>5, <2>6, <2>7
  <2>9. \A id \in above : shown[id].cost = sums.total /\ \E c \in DOMAIN shown : shown[c].parent = id
    BY <1>1, <1>2, <2>5, <2>6, <2>7
  <2>10. {id \in DOMAIN shown : shown[id].parent \notin DOMAIN shown} = {p}
    <3>1. "none" \notin DOMAIN shown /\ p \in DOMAIN shown
      BY <1>1, <1>7, <2>6, <2>7
    <3> QED BY <2>5, <2>6, <2>7, <3>1
  <2>11. \A i \in ScopeNumbers : shown[ScopesOf(ask)[i]].cost =
           IF RowCost(i) = 0 /\ above = {} /\ Len(ScopesOf(ask)) = 1 THEN sums.total ELSE RowCost(i)
    BY <2>3, <2>5, <2>6
  <2>12. AddUp(shown)
    BY <1>1, <2>6, <2>7, <2>8, <2>9, <2>10, <2>11, TreeAddsUp
  <2> QED BY <1>3, <2>12
<1>8. ASSUME NEW p, NEW q, NEW kind, NEW top, p # "none", p \notin Holding, q # "none",
             q \notin Holding, p # q, ask.cloud = "gcp",
             H = <<Header(q, top, "none", total), Header(p, kind, q, total)>>,
             \A scope : ParentOf(ask, scope) = p
      PROVE  AddUp(Stored)
  <2>1. PICK x, y :
          /\ x = [id |-> q, kind |-> top, parent |-> "none", cost |-> total, error |-> FALSE]
          /\ y = [id |-> p, kind |-> kind, parent |-> q, cost |-> total, error |-> FALSE]
    OBVIOUS
  <2>2. /\ H = <<x, y>> /\ x.id = q /\ x.parent = "none" /\ x.cost = total
        /\ y.id = p /\ y.parent = q /\ y.cost = total
    BY <1>8, <2>1 DEF Header
  <2>3. /\ H \in Seq({x, y}) /\ Len(H) = 2 /\ H[1] = x /\ H[2] = y /\ 1..Len(H) = {1, 2}
        /\ H # <<>>
    BY <2>2
  <2>4. p \notin ScopeNames /\ q \notin ScopeNames
    BY <1>1, <1>8
  <2>5. /\ DOMAIN shown = {H[i].id : i \in 1..Len(H)} \cup ScopeNames
        /\ \A i \in 1..Len(H) : shown[H[i].id].parent = H[i].parent /\ shown[H[i].id].cost = H[i].cost
        /\ \A z \in ScopeNames : shown[z].parent = p
        /\ \A i \in ScopeNumbers : shown[ScopesOf(ask)[i]].cost =
              IF RowCost(i) = 0 /\ H = <<>> /\ Len(ScopesOf(ask)) = 1
              THEN sums.total ELSE RowCost(i)
    <3>1. HeadersApart(H)
      BY <1>8, <2>2, <2>3, <2>4 DEF HeadersApart
    <3> QED BY <1>5, <1>8, <2>3, <3>1
  <2>6. PICK above : above = {p, q} /\ IsFiniteSet(above)
    <3>1. IsFiniteSet({p}) /\ IsFiniteSet({p} \cup {q})
      BY FS_Singleton, FS_AddElement
    <3>2. {p} \cup {q} = {p, q}
      OBVIOUS
    <3> QED BY <3>1, <3>2
  <2>7. /\ DOMAIN shown = above \cup ScopeNames
        /\ shown[q].parent = "none" /\ shown[q].cost = total
        /\ shown[p].parent = q /\ shown[p].cost = total
    BY <2>2, <2>3, <2>5, <2>6
  <2>8. /\ above \cap ScopeNames = {}
        /\ \A id \in DOMAIN shown : shown[id].parent \notin ScopeNames
    BY <1>1, <2>4, <2>5, <2>6, <2>7
  <2>9. \A id \in above : shown[id].cost = sums.total /\ \E c \in DOMAIN shown : shown[c].parent = id
    <3>1. PICK c \in ScopeNames : shown[c].parent = p
      BY <1>1, <2>5
    <3>2. c \in DOMAIN shown /\ p \in DOMAIN shown
      BY <2>6, <2>7
    <3> QED BY <1>2, <2>6, <2>7, <3>1, <3>2
  <2>10. {id \in DOMAIN shown : shown[id].parent \notin DOMAIN shown} = {q}
    <3>1. "none" \notin DOMAIN shown /\ p \in DOMAIN shown /\ q \in DOMAIN shown
      BY <1>1, <1>8, <2>6, <2>7
    <3> QED BY <1>8, <2>5, <2>6, <2>7, <3>1
  <2>11. \A i \in ScopeNumbers : shown[ScopesOf(ask)[i]].cost =
           IF RowCost(i) = 0 /\ above = {} /\ Len(ScopesOf(ask)) = 1 THEN sums.total ELSE RowCost(i)
    BY <2>3, <2>5, <2>6
  <2>12. AddUp(shown)
    BY <1>1, <2>6, <2>7, <2>8, <2>9, <2>10, <2>11, TreeAddsUp
  <2> QED BY <1>3, <2>12
<1> QED BY <1>2, <1>6, <1>7, <1>8, HeaderForms DEF ProviderInv, ProviderType

-----------------------------------------------------------------------------
\* Every scope has a row.
LEMMA ErrorsShownInRows == ASSUME ProviderInv PROVE ErrorsContained
<1>1. \E T : Headers(ask, sums.total) \in Seq(T)
  <2>1. \A x, y : <<>> \in Seq({x}) /\ <<x>> \in Seq({x}) /\ <<x, y>> \in Seq({x, y})
    <3> SUFFICES ASSUME NEW x, NEW y
                 PROVE  <<>> \in Seq({x}) /\ <<x>> \in Seq({x}) /\ <<x, y>> \in Seq({x, y})
      OBVIOUS
    <3>1. <<>> \in Seq({x})
      OBVIOUS
    <3>2. <<x>> \in Seq({x})
      OBVIOUS
    <3>3. x \in {x, y} /\ y \in {x, y}
      OBVIOUS
    <3>4. <<x, y>> \in Seq({x, y})
      BY <3>3
    <3> QED BY <3>1, <3>2, <3>4
  <2>2. CASE Headers(ask, sums.total) = <<>>
    <3>1. <<>> \in Seq({0})
      OBVIOUS
    <3> QED BY <2>2, <3>1
  <2>3. CASE \E x : Headers(ask, sums.total) = <<x>>
    <3>1. PICK x : Headers(ask, sums.total) = <<x>>
      BY <2>3
    <3>2. <<x>> \in Seq({x})
      BY <2>1
    <3> QED BY <3>1, <3>2
  <2>4. CASE \E x, y : Headers(ask, sums.total) = <<x, y>>
    <3>1. PICK x, y : Headers(ask, sums.total) = <<x, y>>
      BY <2>4
    <3>2. <<x, y>> \in Seq({x, y})
      BY <2>1
    <3> QED BY <3>1, <3>2
  <2>5. \/ Headers(ask, sums.total) = <<>>
        \/ \E x : Headers(ask, sums.total) = <<x>>
        \/ \E x, y : Headers(ask, sums.total) = <<x, y>>
    BY HeaderForms DEF ProviderInv, ProviderType
  <2> QED BY <2>2, <2>3, <2>4, <2>5
<1>2. ASSUME place.pc = "done", NEW i \in DOMAIN ScopesOf(ask)
      PROVE  \E x \in Range(Rows) : x.id = ScopesOf(ask)[i] /\ (x.error <=> fates[i] # "answered")
  <2>1. PICK H, T : H = Headers(ask, sums.total) /\ H \in Seq(T)
    BY <1>1
  <2>2. i \in ScopeNumbers /\ Len(ScopesOf(ask)) \in Nat /\ ScopeNumbers = 1..Len(ScopesOf(ask))
    BY ScopesTyped DEF ProviderInv, ProviderType, ScopeNumbers
  <2>3. PICK U, h : U = T \cup {ScopeRow(k) : k \in ScopeNumbers} /\ h = Len(H)
    OBVIOUS
  <2>4. /\ Rows \in Seq(U) /\ Len(Rows) = h + Len(ScopesOf(ask)) /\ h \in Nat
        /\ Rows[h + i] = ScopeRow(i)
    BY <1>2, <2>1, <2>2, <2>3, RowsAre
  <2>5. h + i \in 1..Len(Rows) /\ DOMAIN Rows = 1..Len(Rows)
    BY <2>2, <2>4
  <2>6. ScopeRow(i) \in Range(Rows)
    BY <2>4, <2>5 DEF Range
  <2> QED BY <1>2, <2>2, <2>6, ScopeRowIs
<1> QED BY <1>2 DEF ErrorsContained, ProviderInv, ErrorTrue

\* The account whose charges a scope sees.
Account(i) == IF ask.cloud = "aws" /\ i = 1 THEN ask.main ELSE ScopesOf(ask)[i]

LEMMA ReachIs ==
    ASSUME ProviderInv, ~Overlapping
    PROVE  /\ \A i \in ScopeNumbers : Reach(ask, ScopesOf(ask)[i]) = {Account(i)}
           /\ \A i, j \in ScopeNumbers : Account(i) = Account(j) => i = j
<1>1. /\ ~RolesShared /\ (ask.cloud = "azure" => ask.top = "none")
      /\ ask.cloud = "aws" => ~ask.payer /\ ask.main \notin Range(ask.listed)
  <2>1. ask.cloud = "aws" => ~RolesShared /\ ~ask.payer /\ ask.main \notin Range(ask.listed)
    BY DEF Overlapping
  <2>2. ask.cloud = "azure" => ask.top = "none"
    BY DEF Overlapping
  <2>3. ask.cloud # "aws" => ~RolesShared
    BY DEF RolesShared
  <2> QED BY <2>1, <2>2, <2>3
<1>2. /\ Different(ScopesOf(ask))
      /\ \A i \in ScopeNumbers :
            IF ask.cloud = "aws" /\ i = 1 THEN ScopesOf(ask)[i] = "default"
            ELSE /\ ScopesOf(ask)[i] \in Holding
                 /\ ask.cloud = "aws" => ScopesOf(ask)[i] \in Range(ask.listed)
  BY <1>1, ScopesApart DEF ProviderInv, ProviderType, ScopeNumbers
<1>3. "none" \notin Holding /\ "default" \notin Holding
  BY ProviderBounds
<1>4. ASSUME NEW i \in ScopeNumbers PROVE Reach(ask, ScopesOf(ask)[i]) = {Account(i)}
  <2>1. CASE ask.cloud = "aws" /\ i = 1
    BY <1>1, <1>2, <2>1 DEF Reach, Account
  <2>2. CASE ~(ask.cloud = "aws" /\ i = 1)
    <3>1. ScopesOf(ask)[i] # "default" /\ ~(ask.cloud = "azure" /\ ScopesOf(ask)[i] = ask.top)
      BY <1>1, <1>2, <1>3, <2>2
    <3> QED BY <2>2, <3>1 DEF Reach, Account
  <2> QED BY <2>1, <2>2
<1>5. ASSUME NEW i \in ScopeNumbers, NEW j \in ScopeNumbers, Account(i) = Account(j)
      PROVE  i = j
  BY <1>1, <1>2, <1>5 DEF Account, Different, ScopeNumbers
<1> QED BY <1>4, <1>5

\* The lines of the scopes that were heard, scope by scope and all together.
LEMMA LinesAddUp ==
    ASSUME ProviderInv, ~Overlapping
    PROVE  CostOf(UNION {LinesOf(ScopesOf(ask)[i]) : i \in Heard}) = SumOver(LineTotals, Heard)
<1>0. PICK S : S = ScopesOf(ask)
  OBVIOUS
<1>1. PICK U : S = ScopesOf(ask) /\ U = UNION {LinesOf(S[i]) : i \in Heard}
  BY <1>0
<1>2. PICK g : g = [i \in Heard |-> LinesOf(S[i])]
  OBVIOUS
<1>3. PICK key : key = [l \in U |-> CHOOSE i \in Heard : l \in LinesOf(S[i])]
  OBVIOUS
<1>4. IsFiniteSet(Heard) /\ Heard \subseteq ScopeNumbers
  BY TotalsTyped DEF ProviderInv
<1>5. \A i \in ScopeNumbers : LinesOf(S[i]) = {l \in billed : l.holding = Account(i)}
  BY <1>1, ReachIs DEF LinesOf
<1>6. U \in SUBSET billed /\ IsFiniteSet(U) /\ CostOf(U) = SumOver(Price, U)
  <2>1. U \in SUBSET billed
    BY <1>1, LinesBilled
  <2> QED BY <2>1, CostOfIs DEF ProviderInv, ProviderType
<1>7. PICK f : f = Price
  OBVIOUS
<1>8. \A l \in U : f[l] \in Int
  BY <1>6, <1>7, BilledTyped DEF ProviderInv, ProviderType
<1>9. \A l \in U : key[l] \in Heard /\ l \in LinesOf(S[key[l]])
  BY <1>1, <1>3
<1>10. \A i \in Heard : g[i] \subseteq U /\ \A l \in U : l \in g[i] <=> key[l] = i
  <2> SUFFICES ASSUME NEW i \in Heard PROVE g[i] \subseteq U /\ \A l \in U : l \in g[i] <=> key[l] = i
    OBVIOUS
  <2>1. g[i] = LinesOf(S[i]) /\ g[i] \subseteq U
    BY <1>1, <1>2
  <2>2. ASSUME NEW l \in U, l \in LinesOf(S[i]) PROVE key[l] = i
    <3>1. key[l] \in Heard /\ l \in LinesOf(S[key[l]])
      BY <1>9
    <3>2. l.holding = Account(i) /\ l.holding = Account(key[l])
      BY <1>4, <1>5, <2>2, <3>1
    <3> QED BY <1>4, <3>1, <3>2, ReachIs
  <2> QED BY <1>9, <2>1, <2>2
<1>11. PICK t : t = LineTotals
  OBVIOUS
<1>12. \A i \in Heard : t[i] = SumOver(f, g[i])
  <2> SUFFICES ASSUME NEW i \in Heard PROVE t[i] = SumOver(f, g[i])
    OBVIOUS
  <2>1. PICK ls : ls = LinesOf(S[i])
    OBVIOUS
  <2>2. CostOf(ls) = SumOver(Price, ls)
    BY <2>1, LinesBilled, CostOfIs DEF ProviderInv, ProviderType
  <2>3. t[i] = CostOf(ls) /\ g[i] = ls
    BY <1>1, <1>2, <1>4, <1>11, <2>1 DEF LineTotals
  <2> QED BY <1>7, <2>2, <2>3
<1>13. \A l \in U : key[l] \in Heard
  BY <1>9
<1>14. SumOver(t, Heard) = SumOver(f, U)
  BY <1>4, <1>6, <1>8, <1>10, <1>12, <1>13, SumGroups
<1> QED BY <1>1, <1>6, <1>7, <1>11, <1>14

LEMMA CountedOnce == ASSUME ProviderInv PROVE AccountsOnce
<1> SUFFICES ASSUME place.pc = "done", ~Overlapping
             PROVE  LET charged == CostOf(UNION {LinesOf(ScopesOf(ask)[i]) : i \in Heard})
                    IN  IF ask.cloud # "gcp" THEN sums.total = charged
                        ELSE (\A l \in billed : l.cost >= 0) => sums.total <= charged
  BY DEF AccountsOnce, Answer, Heard
<1>1. CostOf(UNION {LinesOf(ScopesOf(ask)[i]) : i \in Heard}) = SumOver(LineTotals, Heard)
  BY LinesAddUp
<1>2. sums.total = SumOver(ServiceTotals, Heard)
  <2>1. sums.total = SumOver(ServiceTotals, Heard) + 0 /\ SumOver(ServiceTotals, Heard) \in Int
    BY TotalsTyped DEF ProviderInv, TotalTrue, Pending
  <2> QED BY <2>1
<1>3. /\ IsFiniteSet(Heard)
      /\ \A i \in Heard : /\ ServiceTotals[i] \in Int /\ LineTotals[i] \in Int
                          /\ ServiceTotals[i] = CostsTotal(ServiceRows(ScopesOf(ask)[i]))
                          /\ LineTotals[i] = CostOf(LinesOf(ScopesOf(ask)[i]))
  BY TotalsTyped DEF ProviderInv, ServiceTotals, LineTotals
<1>4. CASE ask.cloud # "gcp"
  <2>1. \A i \in Heard : ServiceTotals[i] = LineTotals[i]
    BY <1>3, <1>4, ServicesOf DEF ProviderInv, ProviderType
  <2>2. SumOver(ServiceTotals, Heard) = SumOver(LineTotals, Heard)
    BY <1>3, <2>1, SumAgree
  <2> QED BY <1>1, <1>2, <1>4, <2>2
<1>5. CASE ask.cloud = "gcp" /\ \A l \in billed : l.cost >= 0
  <2>1. \A i \in Heard : ServiceTotals[i] <= LineTotals[i]
    BY <1>3, <1>5, ServicesOf DEF ProviderInv, ProviderType
  <2>2. \A i \in Heard : ServiceTotals[i] \in Int /\ LineTotals[i] \in Int
                         /\ ServiceTotals[i] <= LineTotals[i]
    BY <1>3, <2>1
  <2>3. SumOver(ServiceTotals, Heard) <= SumOver(LineTotals, Heard)
    BY <1>3, <2>2, SumMore
  <2> QED BY <1>1, <1>2, <1>5, <2>3
<1> QED BY <1>4, <1>5

LEMMA ZonesAddUp == ASSUME ProviderInv PROVE ZonesFit
<1> SUFFICES ASSUME place.pc = "done"
             PROVE  LET zones == Top(sums.zones, TopZones)
                    IN  /\ \A z \in DOMAIN zones : zones[z] =
                             CostsTotal([i \in Answered |->
                               CostOf({l \in LinesOf(ScopesOf(ask)[i]) : l.zone = z})])
                        /\ Answered = DOMAIN fates /\ zones = sums.zones /\ ask.cloud # "gcp"
                             => CostsTotal(zones) = sums.total
  BY DEF ZonesFit, Answer, Answered
<1>1. /\ IsFiniteSet(Answered) /\ Answered \subseteq Heard /\ Heard \subseteq ScopeNumbers
      /\ Heard \subseteq DOMAIN fates /\ IsFiniteSet(Heard)
  BY TotalsTyped DEF ProviderInv
<1>2. PICK zones : zones = Top(sums.zones, TopZones)
  OBVIOUS
<1>3. PICK shown : shown = Largest(sums.zones, TopZones)
  OBVIOUS
<1>4. shown \subseteq DOMAIN sums.zones /\ zones = [z \in shown |-> sums.zones[z]]
  <2>1. TopZones \in Nat /\ Costs(sums.zones)
    BY ProviderBounds DEF ProviderInv, ProviderType
  <2>2. Largest(sums.zones, TopZones) \subseteq DOMAIN sums.zones
    BY <2>1, LargestWithin DEF Costs
  <2> QED BY <1>2, <1>3, <2>2 DEF Top
<1>5. ASSUME NEW z \in DOMAIN zones
      PROVE  zones[z] = CostsTotal([i \in Answered |->
                          CostOf({l \in LinesOf(ScopesOf(ask)[i]) : l.zone = z})])
  <2>1. zones[z] = Figure(sums.zones, z)
    BY <1>4, <1>5 DEF Figure
  <2>2. Figure(sums.zones, z) = SumOver(ZoneTotals(z), Answered)
    BY DEF ProviderInv, ZonesTrue
  <2>3. PICK costs : costs = [i \in Answered |->
                               CostOf({l \in LinesOf(ScopesOf(ask)[i]) : l.zone = z})]
    OBVIOUS
  <2>4. PICK f : f = ZoneTotals(z)
    OBVIOUS
  <2>5. DOMAIN costs = Answered /\ \A i \in Answered : costs[i] = f[i]
    BY <1>1, <2>3, <2>4 DEF ZoneTotals
  <2>6. CostsTotal(costs) = SumOver(f, Answered)
    BY <1>1, <2>5, CostsOfEach
  <2> QED BY <2>1, <2>2, <2>3, <2>4, <2>6
<1>6. ASSUME Answered = DOMAIN fates, ask.cloud # "gcp"
      PROVE  CostsTotal(sums.zones) = sums.total
  <2>1. Heard = Answered
    BY <1>1, <1>6
  <2>2. CostsTotal(sums.zones) = SumOver(LineTotals, Answered)
    BY DEF ProviderInv, ZonesTrue
  <2>3. sums.total = SumOver(ServiceTotals, Heard)
    <3>1. sums.total = SumOver(ServiceTotals, Heard) + 0 /\ SumOver(ServiceTotals, Heard) \in Int
      BY TotalsTyped DEF ProviderInv, TotalTrue, Pending
    <3> QED BY <3>1
  <2>4. \A i \in Heard : ServiceTotals[i] = LineTotals[i]
    BY <1>1, <1>6, ServicesOf DEF ProviderInv, ProviderType, ServiceTotals, LineTotals
  <2>5. SumOver(ServiceTotals, Heard) = SumOver(LineTotals, Heard)
    BY <1>1, <2>4, SumAgree
  <2> QED BY <2>1, <2>2, <2>3, <2>5
<1> QED BY <1>2, <1>5, <1>6

\* Total, regions and account rows of an answer explain each other, whichever of the
\* queries failed (aws_costs.py, azure_costs.py, gcp_costs.py, oci_costs.py,
\* api.py:7691-7812), for every list of scopes and every set of charges, credits included.
THEOREM ChargesExplainedHolds == ProviderSpec => []ChargesExplained
<1>1. ProviderInit => ProviderInv
  BY ProviderStarts
<1>2. ProviderInv => ChargesExplained
  BY RowsExplain, ErrorsShownInRows, CountedOnce, ZonesAddUp DEF ChargesExplained
<1> QED BY <1>1, <1>2, ProviderStep, PTL DEF ProviderSpec

-----------------------------------------------------------------------------
(* The revisions, the tables and the public workspace: module Startup.     *)

\* The names of tables and of parts.
Word == {"users", "organizations", "user_organizations", "refresh_tokens",
    "password_reset_tokens", "stored_credentials", "credential_records",
    "scanning_permissions", "scan_runs", "cost_snapshots", "audit_logs", "alert_events",
    "provider_accounts", "provider_account_links", "provider_account_snapshots",
    "imported_cost_records", "cost_allocation_snapshots", "alert_routing_policies",
    "export_jobs", "export_job_runs", "business_mapping_rules", "normalized_cost_dimensions",
    "cost_period_summaries", "virtual_tag_rules", "alert_ops_policies",
    "recommendation_ledger", "oci_cost_report_ingestions",
    "table", "indexes", "budget", "warning", "critical", "notify", "account_type",
    "parent_account", "membership", "override", "frequency", "attempts", "backoff",
    "overdue", "tags"}

\* The statements of a revision: their parts, once each, and a table before what is put on it.
St == [part : Word \X Word, guarded : BOOLEAN]

TableOf(p) == <<p[1], "table">>

Laid(q, base, made, guard) ==
    /\ q \in Seq(St)
    /\ \A p : p \in made <=> \E k \in 1..Len(q) : q[k].part = p
    /\ \A j, k \in 1..Len(q) : q[j].part = q[k].part => j = k
    /\ \A k \in 1..Len(q) :
          \/ q[k].part[2] = "table"
          \/ TableOf(q[k].part) \in base
          \/ \E j \in 1..(k - 1) : q[j].part = TableOf(q[k].part)
    /\ \A k \in 1..Len(q) : q[k].guarded = guard

LEMMA LaidTable ==
    ASSUME NEW t \in Word, NEW guard \in BOOLEAN
    PROVE  Laid(Table(t, guard), {}, Whole({t}, {}), guard)
<1>1. PICK a, b : a = Statement(t, "table", guard) /\ b = Statement(t, "indexes", guard)
  OBVIOUS
<1>2. /\ a \in St /\ a.part = <<t, "table">> /\ a.guarded = guard
      /\ b \in St /\ b.part = <<t, "indexes">> /\ b.guarded = guard
  <2>1. a = [part |-> <<t, "table">>, guarded |-> guard] /\ b = [part |-> <<t, "indexes">>, guarded |-> guard]
    BY <1>1 DEF Statement
  <2>2. <<t, "table">> \in Word \X Word /\ <<t, "indexes">> \in Word \X Word
    <3>1. "table" \in Word
      BY DEF Word
    <3>2. "indexes" \in Word
      BY DEF Word
    <3>3. \A x, y \in Word : <<x, y>> \in Word \X Word
      OBVIOUS
    <3> QED BY <3>1, <3>2, <3>3
  <2>3. a \in St
    BY <2>1, <2>2 DEF St
  <2>4. b \in St
    BY <2>1, <2>2 DEF St
  <2> QED BY <2>1, <2>3, <2>4
<1>3. PICK q : q = Table(t, guard)
  OBVIOUS
<1>4. q \in Seq(St) /\ Len(q) = 2 /\ q[1] = a /\ q[2] = b
  BY <1>1, <1>2, <1>3 DEF Table
<1>5. \A k \in 1..Len(q) : k = 1 \/ k = 2
  BY <1>4
<1>6. 1 \in 1..Len(q) /\ 2 \in 1..Len(q)
  BY <1>4
<1>7. a.part # b.part
  BY <1>2
<1>8. \A j, k \in 1..Len(q) : q[j].part = q[k].part => j = k
  BY <1>4, <1>5, <1>7
<1>9. a.part[2] = "table" /\ TableOf(b.part) = a.part
  BY <1>2 DEF TableOf
<1>10. \A k \in 1..Len(q) :
          \/ q[k].part[2] = "table"
          \/ \E j \in 1..(k - 1) : q[j].part = TableOf(q[k].part)
  <2>1. 1 \in 1..(2 - 1)
    OBVIOUS
  <2> QED BY <1>4, <1>5, <1>9, <2>1
<1>11. \A p : p \in Whole({t}, {}) <=> p = a.part \/ p = b.part
  BY <1>2 DEF Whole
<1>12. \A p : p \in Whole({t}, {}) <=> \E k \in 1..Len(q) : q[k].part = p
  BY <1>4, <1>5, <1>6, <1>11
<1>13. \A k \in 1..Len(q) : q[k].guarded = guard
  BY <1>2, <1>4, <1>5
<1> QED BY <1>3, <1>4, <1>8, <1>10, <1>12, <1>13 DEF Laid

LEMMA LaidColumns ==
    ASSUME NEW t \in Word, NEW cs \in Seq(Word), NEW guard \in BOOLEAN, NEW base,
           <<t, "table">> \in base,
           \A j, k \in 1..Len(cs) : cs[j] = cs[k] => j = k,
           NEW made, \A p : p \in made <=> \E k \in 1..Len(cs) : p = <<t, cs[k]>>
    PROVE  Laid(Columns(t, cs, guard), base, made, guard)
<1>1. PICK q : q = Columns(t, cs, guard)
  OBVIOUS
<1>2. Len(cs) \in Nat /\ DOMAIN cs = 1..Len(cs) /\ \A k \in 1..Len(cs) : cs[k] \in Word
  OBVIOUS
<1>3. q = [k \in 1..Len(cs) |-> Statement(t, cs[k], guard)]
  BY <1>1, <1>2 DEF Columns
<1>4. \A k \in 1..Len(cs) : Statement(t, cs[k], guard) \in St
  BY <1>2 DEF Statement, St
<1>5. q \in Seq(St) /\ Len(q) = Len(cs)
  BY <1>2, <1>3, <1>4
<1>6. ASSUME NEW k \in 1..Len(q)
      PROVE  q[k].part = <<t, cs[k]>> /\ q[k].guarded = guard /\ TableOf(q[k].part) = <<t, "table">>
  BY <1>3, <1>5 DEF Statement, TableOf
<1>7. \A j, k \in 1..Len(q) : q[j].part = q[k].part => j = k
  <2>1. \A x, y : <<t, x>> = <<t, y>> => x = y
    OBVIOUS
  <2> QED BY <1>5, <1>6, <2>1
<1>8. \A p : p \in made <=> \E k \in 1..Len(q) : q[k].part = p
  <2>1. \A p : p \in made <=> \E k \in 1..Len(cs) : p = <<t, cs[k]>>
    OBVIOUS
  <2>2. Len(q) = Len(cs) /\ \A k \in 1..Len(q) : q[k].part = <<t, cs[k]>>
    <3>1. \A k \in 1..Len(q) : q[k].part = <<t, cs[k]>>
      BY <1>6
    <3>2. Len(q) = Len(cs)
      BY <1>5
    <3> QED BY <3>1, <3>2
  <2>3. ASSUME NEW p
        PROVE  (\E k \in 1..Len(cs) : p = <<t, cs[k]>>) <=> \E k \in 1..Len(q) : q[k].part = p
    BY <2>2
  <2> QED BY <2>1, <2>3, Zenon
<1>9. \A k \in 1..Len(q) : TableOf(q[k].part) \in base /\ q[k].guarded = guard
  BY <1>6
<1> QED BY <1>1, <1>5, <1>7, <1>8, <1>9 DEF Laid

LEMMA LaidOn ==
    ASSUME NEW q, NEW made, NEW guard, Laid(q, {}, made, guard), NEW base
    PROVE  Laid(q, base, made, guard)
<1>1. \A x : x \notin {}
  OBVIOUS
<1> QED BY <1>1 DEF Laid

LEMMA LaidJoin ==
    ASSUME NEW a, NEW b, NEW base, NEW made, NEW added, NEW guard,
           Laid(a, base, made, guard), Laid(b, base, added, guard),
           \A p \in made : p \notin added
    PROVE  Laid(a \o b, base, made \cup added, guard)
<1>0. a \in Seq(St) /\ b \in Seq(St)
  BY DEF Laid
<1>1. PICK q : q = a \o b
  OBVIOUS
<1>2. PICK m, n : m = Len(a) /\ n = Len(b)
  OBVIOUS
<1>3. /\ q \in Seq(St) /\ Len(q) = m + n /\ m \in Nat /\ n \in Nat
      /\ \A k \in 1..m : q[k] = a[k]
      /\ \A k \in 1..n : q[m + k] = b[k]
  BY <1>0, <1>1, <1>2
<1>4. ASSUME NEW k \in 1..(m + n)
      PROVE  (k \in 1..m /\ q[k] = a[k]) \/ \E i \in 1..n : k = m + i /\ q[k] = b[i]
  <2>1. CASE k <= m
    BY <1>3, <2>1
  <2>2. CASE k > m
    <3>1. PICK i : i = k - m
      OBVIOUS
    <3>2. i \in 1..n /\ k = m + i
      BY <1>3, <2>2, <3>1
    <3> QED BY <1>3, <3>2
  <2> QED BY <1>3, <2>1, <2>2
<1>5. \A k \in 1..m : a[k].part \in made /\ k \in 1..(m + n)
  BY <1>2, <1>3 DEF Laid
<1>6. \A k \in 1..n : b[k].part \in added /\ m + k \in 1..(m + n)
  BY <1>2, <1>3 DEF Laid
<1>7. \A p : p \in made \cup added <=> \E k \in 1..(m + n) : q[k].part = p
  <2>1. \A p \in made : \E k \in 1..m : a[k].part = p
    BY <1>2 DEF Laid
  <2>2. \A p \in added : \E k \in 1..n : b[k].part = p
    BY <1>2 DEF Laid
  <2> QED BY <1>3, <1>4, <1>5, <1>6, <2>1, <2>2
<1>8. ASSUME NEW j \in 1..(m + n), NEW k \in 1..(m + n), q[j].part = q[k].part
      PROVE  j = k
  <2>1. \A x, y \in 1..m : a[x].part = a[y].part => x = y
    BY <1>2 DEF Laid
  <2>2. \A x, y \in 1..n : b[x].part = b[y].part => x = y
    BY <1>2 DEF Laid
  <2>3. CASE j \in 1..m /\ q[j] = a[j] /\ k \in 1..m /\ q[k] = a[k]
    BY <1>8, <2>1, <2>3
  <2>4. CASE j \in 1..m /\ q[j] = a[j] /\ \E i \in 1..n : k = m + i /\ q[k] = b[i]
    BY <1>5, <1>6, <1>8, <2>4
  <2>5. CASE k \in 1..m /\ q[k] = a[k] /\ \E i \in 1..n : j = m + i /\ q[j] = b[i]
    BY <1>5, <1>6, <1>8, <2>5
  <2>6. CASE (\E i \in 1..n : j = m + i /\ q[j] = b[i]) /\ \E i \in 1..n : k = m + i /\ q[k] = b[i]
    <3>1. PICK x \in 1..n : j = m + x /\ q[j] = b[x]
      BY <2>6
    <3>2. PICK y \in 1..n : k = m + y /\ q[k] = b[y]
      BY <2>6
    <3>3. x = y
      BY <1>8, <2>2, <3>1, <3>2
    <3> QED BY <3>1, <3>2, <3>3
  <2> QED BY <1>4, <2>3, <2>4, <2>5, <2>6
<1>9. ASSUME NEW k \in 1..(m + n)
      PROVE  /\ \/ q[k].part[2] = "table"
                \/ TableOf(q[k].part) \in base
                \/ \E j \in 1..(k - 1) : q[j].part = TableOf(q[k].part)
             /\ q[k].guarded = guard
  <2>1. CASE k \in 1..m /\ q[k] = a[k]
    <3>1. /\ \/ a[k].part[2] = "table"
             \/ TableOf(a[k].part) \in base
             \/ \E j \in 1..(k - 1) : a[j].part = TableOf(a[k].part)
          /\ a[k].guarded = guard
      BY <1>2, <2>1 DEF Laid
    <3>2. \A j \in 1..(k - 1) : q[j] = a[j]
      BY <1>3, <2>1
    <3> QED BY <2>1, <3>1, <3>2
  <2>2. CASE \E i \in 1..n : k = m + i /\ q[k] = b[i]
    <3>1. PICK i \in 1..n : k = m + i /\ q[k] = b[i]
      BY <2>2
    <3>2. /\ \/ b[i].part[2] = "table"
             \/ TableOf(b[i].part) \in base
             \/ \E j \in 1..(i - 1) : b[j].part = TableOf(b[i].part)
          /\ b[i].guarded = guard
      BY <1>2, <3>1 DEF Laid
    <3>3. ASSUME NEW j \in 1..(i - 1)
          PROVE  m + j \in 1..(k - 1) /\ q[m + j] = b[j]
      BY <1>3, <3>1
    <3> QED BY <3>1, <3>2, <3>3
  <2> QED BY <1>4, <2>1, <2>2
<1>10. Laid(q, base, made \cup added, guard)
  <2>1. \A j, k \in 1..(m + n) : q[j].part = q[k].part => j = k
    BY <1>8
  <2>2. \A k \in 1..(m + n) :
          \/ q[k].part[2] = "table"
          \/ TableOf(q[k].part) \in base
          \/ \E j \in 1..(k - 1) : q[j].part = TableOf(q[k].part)
    BY <1>9
  <2>3. \A k \in 1..(m + n) : q[k].guarded = guard
    BY <1>9
  <2> QED BY <1>3, <1>7, <2>1, <2>2, <2>3 DEF Laid
<1> QED BY <1>1, <1>10

LEMMA LaidTables ==
    ASSUME NEW ts \in Seq(Word), \A j, k \in 1..Len(ts) : ts[j] = ts[k] => j = k
    PROVE  Laid(Tables(ts), {}, Whole(Range(ts), {}), FALSE)
<1>1. PICK L : L = Len(ts)
  OBVIOUS
<1>2. L \in Nat /\ DOMAIN ts = 1..L /\ \A i \in 1..L : ts[i] \in Word
  BY <1>1
<1>3. PICK ss : ss = [i \in 1..L |-> Table(ts[i], FALSE)]
  OBVIOUS
<1>4. Tables(ts) = FlattenSeq(ss)
  BY <1>2, <1>3 DEF Tables
<1>5. ASSUME NEW i \in 1..L
      PROVE  Laid(ss[i], {}, Whole({ts[i]}, {}), FALSE) /\ ss[i] \in Seq(St)
  <2>1. Laid(ss[i], {}, Whole({ts[i]}, {}), FALSE)
    BY <1>2, <1>3, LaidTable
  <2> QED BY <2>1 DEF Laid
<1>6. ss \in Seq(Seq(St)) /\ Len(ss) = L
  <2>1. \A i \in 1..L : ss[i] \in Seq(St)
    BY <1>5
  <2>2. ss \in [1..L -> Seq(St)]
    BY <1>3, <2>1
  <2> HIDE DEF St
  <2> QED BY <1>2, <2>2
<1>7. PICK g : FlatBy(g, St, ss, L)
  BY <1>6, FlatIs
<1>8. /\ g[0] = <<>> /\ g[L] = FlattenSeq(ss)
      /\ \A i \in 1..L : g[i] = g[i - 1] \o ss[i]
  BY <1>7 DEF FlatBy
<1> DEFINE Upto(i) == {ts[k] : k \in 1..i}
           Good(i) == Laid(g[i], {}, Whole(Upto(i), {}), FALSE)
           T == {i \in 0..L : ~Good(i)}
<1>9. T = {}
  <2> SUFFICES ASSUME T # {} PROVE FALSE
    OBVIOUS
  <2>1. PICK m \in T : \A k \in T : m <= k
    <3> HIDE DEF Good
    <3> T \in SUBSET Nat OBVIOUS
    <3> HIDE DEF T
    <3> QED BY LeastNumber
  <2>2. m \in 0..L /\ ~Laid(g[m], {}, Whole(Upto(m), {}), FALSE)
    OBVIOUS
  <2>3. m # 0
    <3>1. Laid(<<>>, {}, {}, FALSE)
      BY DEF Laid
    <3>2. Upto(0) = {}
      OBVIOUS
    <3>3. \A p : p \in Whole(Upto(0), {}) <=> p \in {}
      BY <3>2 DEF Whole
    <3>4. Whole(Upto(0), {}) = {}
      BY <3>3
    <3> QED BY <1>8, <2>2, <3>1, <3>4
  <2>4. m - 1 \in 0..L /\ m \in 1..L /\ m - 1 \notin T
    <3> HIDE DEF T
    <3> QED BY <1>2, <2>1, <2>2, <2>3
  <2>5. Laid(g[m - 1], {}, Whole(Upto(m - 1), {}), FALSE)
    BY <2>4
  <2>6. ts[m] \notin Upto(m - 1) /\ Upto(m) = Upto(m - 1) \cup {ts[m]}
    <3>1. \A k \in 1..(m - 1) : k \in 1..L /\ k # m
      BY <1>2, <2>4
    <3>2. \A k : k \in 1..m <=> k \in 1..(m - 1) \/ k = m
      BY <1>2, <2>4
    <3> QED BY <1>1, <2>4, <3>1, <3>2
  <2> HIDE DEF Upto
  <2>7. \A p \in Whole(Upto(m - 1), {}) : p \notin Whole({ts[m]}, {})
    BY <2>6 DEF Whole
  <2>8. Laid(g[m], {}, Whole(Upto(m - 1), {}) \cup Whole({ts[m]}, {}), FALSE)
    <3>1. PICK a, b : a = g[m - 1] /\ b = ss[m]
      OBVIOUS
    <3>2. PICK made, added : made = Whole(Upto(m - 1), {}) /\ added = Whole({ts[m]}, {})
      OBVIOUS
    <3>3. Laid(a, {}, made, FALSE) /\ Laid(b, {}, added, FALSE)
      BY <1>5, <2>4, <2>5, <3>1, <3>2
    <3>4. \A p \in made : p \notin added
      BY <2>7, <3>2
    <3>5. Laid(a \o b, {}, made \cup added, FALSE)
      BY <3>3, <3>4, LaidJoin
    <3> QED BY <1>8, <2>4, <3>1, <3>2, <3>5
  <2>9. Whole(Upto(m - 1), {}) \cup Whole({ts[m]}, {}) = Whole(Upto(m), {})
    BY <2>6 DEF Whole
  <2> QED BY <2>2, <2>8, <2>9
<1>10. Laid(g[L], {}, Whole(Upto(L), {}), FALSE)
  <2>1. L \in 0..L
    BY <1>2
  <2>2. L \notin T
    BY <1>9
  <2>3. Good(L)
    <3> HIDE DEF Good
    <3> QED BY <2>1, <2>2
  <2> QED BY <2>3
<1>11. Upto(L) = Range(ts)
  BY <1>2 DEF Range
<1> QED BY <1>4, <1>8, <1>10, <1>11

-----------------------------------------------------------------------------
LEMMA LaidNamed ==
    ASSUME NEW ts \in Seq(Word), \A j, k \in 1..Len(ts) : ts[j] = ts[k] => j = k,
           NEW T, \A t : t \in T <=> \E k \in 1..Len(ts) : t = ts[k], NEW base
    PROVE  Laid(Tables(ts), base, Whole(T, {}), FALSE)
<1>1. Laid(Tables(ts), {}, Whole(Range(ts), {}), FALSE)
  BY LaidTables
<1>2. Range(ts) = T
  BY DEF Range
<1> QED BY <1>1, <1>2, LaidOn

\* Columns of a table that is there, then tables.
LEMMA LaidBoth ==
    ASSUME NEW c, NEW w, NEW base, NEW X, NEW T, NEW guard,
           Laid(c, base, X, guard), Laid(w, base, Whole(T, {}), guard),
           \A p \in X : p[2] \notin {"table", "indexes"}
    PROVE  Laid(c \o w, base, Whole(T, X), guard)
<1>1. PICK W : W = Whole(T, {})
  OBVIOUS
<1>2. \A p \in W : p[2] \in {"table", "indexes"}
  BY <1>1 DEF Whole
<1>3. \A p \in X : p \notin W
  BY <1>2
<1>4. Laid(c \o w, base, X \cup W, guard)
  BY <1>1, <1>3, LaidJoin
<1>5. Whole(T, X) = X \cup W
  BY <1>1 DEF Whole
<1> QED BY <1>4, <1>5

\* What each revision makes: tables with their indexes, and columns of others.
NewTables(r) ==
    CASE r = 1 -> {"users", "organizations", "user_organizations", "refresh_tokens",
                  "password_reset_tokens", "stored_credentials", "credential_records",
                  "scanning_permissions", "scan_runs", "cost_snapshots"}
      [] r = 2 -> {"audit_logs", "alert_events"}
      [] r = 3 -> {"provider_accounts", "provider_account_links",
                  "provider_account_snapshots"}
      [] r = 4 -> {"imported_cost_records"}
      [] r = 6 -> {"cost_allocation_snapshots"}
      [] r = 7 -> {"alert_routing_policies"}
      [] r = 8 -> {"export_jobs", "export_job_runs"}
      [] r = 9 -> {"business_mapping_rules", "normalized_cost_dimensions"}
      [] r = 10 -> {"cost_period_summaries"}
      [] r = 11 -> {"virtual_tag_rules"}
      [] r = 13 -> {"alert_ops_policies"}
      [] r = 15 -> {"alert_ops_policies"}
      [] r = 16 -> {"recommendation_ledger"}
      [] r = 17 -> {"oci_cost_report_ingestions"}
      [] OTHER -> {}

NewColumns(r) ==
    CASE r = 2 -> {<<"scanning_permissions", "budget">>,
                  <<"scanning_permissions", "warning">>,
                  <<"scanning_permissions", "critical">>,
                  <<"scanning_permissions", "notify">>}
      [] r = 5 -> {<<"imported_cost_records", "account_type">>,
                  <<"imported_cost_records", "parent_account">>}
      [] r = 12 -> {<<"user_organizations", "membership">>}
      [] r = 13 -> {<<"scanning_permissions", "override">>,
                  <<"scanning_permissions", "frequency">>,
                  <<"scanning_permissions", "attempts">>,
                  <<"scanning_permissions", "backoff">>,
                  <<"scanning_permissions", "overdue">>}
      [] r = 14 -> {<<"imported_cost_records", "tags">>}
      [] r = 15 -> {<<"scanning_permissions", "override">>,
                  <<"scanning_permissions", "frequency">>,
                  <<"scanning_permissions", "attempts">>,
                  <<"scanning_permissions", "backoff">>,
                  <<"scanning_permissions", "overdue">>}
      [] OTHER -> {}

\* The tables on which revisions put columns.
Bases(r) ==
    CASE r \in 2..4 -> {<<"user_organizations", "table">>, <<"scanning_permissions", "table">>}
      [] r > 4 -> {<<"user_organizations", "table">>, <<"scanning_permissions", "table">>,
                   <<"imported_cost_records", "table">>}
      [] OTHER -> {}

LaidAs(r, guard) == Laid(Revision[r], Bases(r), Whole(NewTables(r), NewColumns(r)), guard)

LEMMA Laid1 == LaidAs(1, FALSE)
<1>0. Revision[1] = R0001
  BY DEF Revision
<1>1. Laid(AccountTables, {}, Whole({"users", "organizations", "user_organizations", "refresh_tokens", "password_reset_tokens", "stored_credentials"}, {}), FALSE)
  <2>1. PICK ts : ts = <<"users", "organizations", "user_organizations", "refresh_tokens",
        "password_reset_tokens", "stored_credentials">>
    OBVIOUS
  <2>2. ts \in Seq(Word)
    BY <2>1 DEF Word
  <2>3. \A j, k \in 1..Len(ts) : ts[j] = ts[k] => j = k
    BY <2>1
  <2>4. \A t : t \in {"users", "organizations", "user_organizations", "refresh_tokens",
        "password_reset_tokens", "stored_credentials"} <=> \E k \in 1..Len(ts) : t = ts[k]
    BY <2>1
  <2>5. AccountTables = Tables(ts)
    BY <2>1 DEF AccountTables
  <2> QED BY <2>2, <2>3, <2>4, <2>5, LaidNamed
<1>2. Laid(ScanTables, {}, Whole({"credential_records", "scanning_permissions", "scan_runs", "cost_snapshots"}, {}), FALSE)
  <2>1. PICK ts : ts = <<"credential_records", "scanning_permissions", "scan_runs", "cost_snapshots">>
    OBVIOUS
  <2>2. ts \in Seq(Word)
    BY <2>1 DEF Word
  <2>3. \A j, k \in 1..Len(ts) : ts[j] = ts[k] => j = k
    BY <2>1
  <2>4. \A t : t \in {"credential_records", "scanning_permissions", "scan_runs", "cost_snapshots"} <=> \E k \in 1..Len(ts) : t = ts[k]
    BY <2>1
  <2>5. ScanTables = Tables(ts)
    BY <2>1 DEF ScanTables
  <2> QED BY <2>2, <2>3, <2>4, <2>5, LaidNamed
<1>3. PICK A, B : A = Whole({"users", "organizations", "user_organizations", "refresh_tokens",
        "password_reset_tokens", "stored_credentials"}, {})
                 /\ B = Whole({"credential_records", "scanning_permissions", "scan_runs", "cost_snapshots"}, {})
  OBVIOUS
<1>4. \A p \in A : p \notin B
  BY <1>3 DEF Whole
<1>5. Laid(R0001, {}, A \cup B, FALSE)
  BY <1>1, <1>2, <1>3, <1>4, LaidJoin DEF R0001
<1>6. A \cup B = Whole(NewTables(1), NewColumns(1)) /\ Bases(1) = {}
  <2>1. NewTables(1) = {"users", "organizations", "user_organizations", "refresh_tokens",
        "password_reset_tokens", "stored_credentials", "credential_records",
        "scanning_permissions", "scan_runs", "cost_snapshots"} /\ NewColumns(1) = {} /\ Bases(1) = {}
    BY DEF NewTables, NewColumns, Bases
  <2>2. PICK E, F : E = {"users", "organizations", "user_organizations", "refresh_tokens",
        "password_reset_tokens", "stored_credentials"} /\ F = {"credential_records", "scanning_permissions", "scan_runs", "cost_snapshots"}
    OBVIOUS
  <2>3. NewTables(1) = E \cup F
    BY <2>1, <2>2
  <2>4. A = Whole(E, {}) /\ B = Whole(F, {})
    BY <1>3, <2>2
  <2>5. Whole(E, {}) \cup Whole(F, {}) = Whole(E \cup F, {})
    BY DEF Whole
  <2> QED BY <2>1, <2>3, <2>4, <2>5
<1> QED BY <1>0, <1>5, <1>6 DEF LaidAs

LEMMA Laid2 == LaidAs(2, FALSE)
<1>0. Revision[2] = R0002
  BY DEF Revision
<1>1. Laid(Columns("scanning_permissions", <<"budget", "warning", "critical", "notify">>, FALSE),
           Bases(2), NewColumns(2), FALSE)
  <2>1. PICK cs : cs = <<"budget", "warning", "critical", "notify">>
    OBVIOUS
  <2>2. cs \in Seq(Word) /\ "scanning_permissions" \in Word
    BY <2>1 DEF Word
  <2>3. \A j, k \in 1..Len(cs) : cs[j] = cs[k] => j = k
    BY <2>1
  <2>4. PICK X : X = NewColumns(2)
    OBVIOUS
  <2>5. X = {<<"scanning_permissions", "budget">>,
                  <<"scanning_permissions", "warning">>,
                  <<"scanning_permissions", "critical">>,
                  <<"scanning_permissions", "notify">>}
    BY <2>4 DEF NewColumns
  <2>6. \A p : p \in X <=> \E k \in 1..Len(cs) : p = <<"scanning_permissions", cs[k]>>
    BY <2>1, <2>5
  <2>7. <<"scanning_permissions", "table">> \in Bases(2)
    BY DEF Bases
  <2>8. Laid(Columns("scanning_permissions", cs, FALSE), Bases(2), X, FALSE)
    BY <2>2, <2>3, <2>6, <2>7, LaidColumns
  <2> QED BY <2>1, <2>4, <2>8
<1>2. Laid(Tables(<<"audit_logs", "alert_events">>), Bases(2), Whole({"audit_logs", "alert_events"}, {}), FALSE)
  <2>1. PICK ts : ts = <<"audit_logs", "alert_events">>
    OBVIOUS
  <2>2. ts \in Seq(Word)
    BY <2>1 DEF Word
  <2>3. \A j, k \in 1..Len(ts) : ts[j] = ts[k] => j = k
    BY <2>1
  <2>4. \A t : t \in {"audit_logs", "alert_events"} <=> \E k \in 1..Len(ts) : t = ts[k]
    BY <2>1
  <2>5. Tables(<<"audit_logs", "alert_events">>) = Tables(ts)
    BY <2>1
  <2> QED BY <2>2, <2>3, <2>4, <2>5, LaidNamed
<1>3. NewTables(2) = {"audit_logs", "alert_events"}
  BY DEF NewTables
<1>4. \A p \in NewColumns(2) : p[2] \notin {"table", "indexes"}
  BY DEF NewColumns
<1>5. Laid(R0002, Bases(2), Whole(NewTables(2), NewColumns(2)), FALSE)
  <2>1. PICK X, T : X = NewColumns(2) /\ T = NewTables(2)
    OBVIOUS
  <2>2. PICK c, w : c = Columns("scanning_permissions", <<"budget", "warning", "critical", "notify">>, FALSE)
                    /\ w = Tables(<<"audit_logs", "alert_events">>)
    OBVIOUS
  <2>3. Laid(c, Bases(2), X, FALSE) /\ Laid(w, Bases(2), Whole(T, {}), FALSE)
    BY <1>1, <1>2, <1>3, <2>1, <2>2
  <2>4. Laid(c \o w, Bases(2), Whole(T, X), FALSE)
    BY <1>4, <2>1, <2>3, LaidBoth
  <2> QED BY <2>1, <2>2, <2>4 DEF R0002
<1> QED BY <1>0, <1>5 DEF LaidAs

LEMMA Laid3 == LaidAs(3, FALSE)
<1>0. Revision[3] = R0003
  BY DEF Revision
<1>1. Laid(R0003, Bases(3), Whole({"provider_accounts", "provider_account_links", "provider_account_snapshots"}, {}), FALSE)
  <2>1. PICK ts : ts = <<"provider_accounts", "provider_account_links", "provider_account_snapshots">>
    OBVIOUS
  <2>2. ts \in Seq(Word)
    BY <2>1 DEF Word
  <2>3. \A j, k \in 1..Len(ts) : ts[j] = ts[k] => j = k
    BY <2>1
  <2>4. \A t : t \in {"provider_accounts", "provider_account_links", "provider_account_snapshots"} <=> \E k \in 1..Len(ts) : t = ts[k]
    BY <2>1
  <2>5. R0003 = Tables(ts)
    BY <2>1 DEF R0003
  <2> QED BY <2>2, <2>3, <2>4, <2>5, LaidNamed
<1>2. NewTables(3) = {"provider_accounts", "provider_account_links", "provider_account_snapshots"} /\ NewColumns(3) = {}
  BY DEF NewTables, NewColumns
<1> QED BY <1>0, <1>1, <1>2 DEF LaidAs

LEMMA Laid4 == LaidAs(4, FALSE)
<1>0. Revision[4] = R0004
  BY DEF Revision
<1>1. Laid(R0004, Bases(4), Whole({"imported_cost_records"}, {}), FALSE)
  <2>1. PICK ts : ts = <<"imported_cost_records">>
    OBVIOUS
  <2>2. ts \in Seq(Word)
    BY <2>1 DEF Word
  <2>3. \A j, k \in 1..Len(ts) : ts[j] = ts[k] => j = k
    BY <2>1
  <2>4. \A t : t \in {"imported_cost_records"} <=> \E k \in 1..Len(ts) : t = ts[k]
    BY <2>1
  <2>5. R0004 = Tables(ts)
    BY <2>1 DEF R0004
  <2> QED BY <2>2, <2>3, <2>4, <2>5, LaidNamed
<1>2. NewTables(4) = {"imported_cost_records"} /\ NewColumns(4) = {}
  BY DEF NewTables, NewColumns
<1> QED BY <1>0, <1>1, <1>2 DEF LaidAs

LEMMA Laid5 == LaidAs(5, FALSE)
<1>0. Revision[5] = R0005
  BY DEF Revision
<1>1. Laid(Columns("imported_cost_records", <<"account_type", "parent_account">>, FALSE),
           Bases(5), NewColumns(5), FALSE)
  <2>1. PICK cs : cs = <<"account_type", "parent_account">>
    OBVIOUS
  <2>2. cs \in Seq(Word) /\ "imported_cost_records" \in Word
    BY <2>1 DEF Word
  <2>3. \A j, k \in 1..Len(cs) : cs[j] = cs[k] => j = k
    BY <2>1
  <2>4. PICK X : X = NewColumns(5)
    OBVIOUS
  <2>5. X = {<<"imported_cost_records", "account_type">>,
                  <<"imported_cost_records", "parent_account">>}
    BY <2>4 DEF NewColumns
  <2>6. \A p : p \in X <=> \E k \in 1..Len(cs) : p = <<"imported_cost_records", cs[k]>>
    BY <2>1, <2>5
  <2>7. <<"imported_cost_records", "table">> \in Bases(5)
    BY DEF Bases
  <2>8. Laid(Columns("imported_cost_records", cs, FALSE), Bases(5), X, FALSE)
    BY <2>2, <2>3, <2>6, <2>7, LaidColumns
  <2> QED BY <2>1, <2>4, <2>8
<1>2. NewTables(5) = {}
  BY DEF NewTables
<1>3. Whole(NewTables(5), NewColumns(5)) = NewColumns(5)
  BY <1>2 DEF Whole
<1> QED BY <1>0, <1>1, <1>3 DEF LaidAs, R0005

LEMMA Laid6 == LaidAs(6, FALSE)
<1>0. Revision[6] = R0006
  BY DEF Revision
<1>1. Laid(R0006, Bases(6), Whole({"cost_allocation_snapshots"}, {}), FALSE)
  <2>1. PICK ts : ts = <<"cost_allocation_snapshots">>
    OBVIOUS
  <2>2. ts \in Seq(Word)
    BY <2>1 DEF Word
  <2>3. \A j, k \in 1..Len(ts) : ts[j] = ts[k] => j = k
    BY <2>1
  <2>4. \A t : t \in {"cost_allocation_snapshots"} <=> \E k \in 1..Len(ts) : t = ts[k]
    BY <2>1
  <2>5. R0006 = Tables(ts)
    BY <2>1 DEF R0006
  <2> QED BY <2>2, <2>3, <2>4, <2>5, LaidNamed
<1>2. NewTables(6) = {"cost_allocation_snapshots"} /\ NewColumns(6) = {}
  BY DEF NewTables, NewColumns
<1> QED BY <1>0, <1>1, <1>2 DEF LaidAs

LEMMA Laid7 == LaidAs(7, FALSE)
<1>0. Revision[7] = R0007
  BY DEF Revision
<1>1. Laid(R0007, Bases(7), Whole({"alert_routing_policies"}, {}), FALSE)
  <2>1. PICK ts : ts = <<"alert_routing_policies">>
    OBVIOUS
  <2>2. ts \in Seq(Word)
    BY <2>1 DEF Word
  <2>3. \A j, k \in 1..Len(ts) : ts[j] = ts[k] => j = k
    BY <2>1
  <2>4. \A t : t \in {"alert_routing_policies"} <=> \E k \in 1..Len(ts) : t = ts[k]
    BY <2>1
  <2>5. R0007 = Tables(ts)
    BY <2>1 DEF R0007
  <2> QED BY <2>2, <2>3, <2>4, <2>5, LaidNamed
<1>2. NewTables(7) = {"alert_routing_policies"} /\ NewColumns(7) = {}
  BY DEF NewTables, NewColumns
<1> QED BY <1>0, <1>1, <1>2 DEF LaidAs

LEMMA Laid8 == LaidAs(8, FALSE)
<1>0. Revision[8] = R0008
  BY DEF Revision
<1>1. Laid(R0008, Bases(8), Whole({"export_jobs", "export_job_runs"}, {}), FALSE)
  <2>1. PICK ts : ts = <<"export_jobs", "export_job_runs">>
    OBVIOUS
  <2>2. ts \in Seq(Word)
    BY <2>1 DEF Word
  <2>3. \A j, k \in 1..Len(ts) : ts[j] = ts[k] => j = k
    BY <2>1
  <2>4. \A t : t \in {"export_jobs", "export_job_runs"} <=> \E k \in 1..Len(ts) : t = ts[k]
    BY <2>1
  <2>5. R0008 = Tables(ts)
    BY <2>1 DEF R0008
  <2> QED BY <2>2, <2>3, <2>4, <2>5, LaidNamed
<1>2. NewTables(8) = {"export_jobs", "export_job_runs"} /\ NewColumns(8) = {}
  BY DEF NewTables, NewColumns
<1> QED BY <1>0, <1>1, <1>2 DEF LaidAs

LEMMA Laid9 == LaidAs(9, FALSE)
<1>0. Revision[9] = R0009
  BY DEF Revision
<1>1. Laid(R0009, Bases(9), Whole({"business_mapping_rules", "normalized_cost_dimensions"}, {}), FALSE)
  <2>1. PICK ts : ts = <<"business_mapping_rules", "normalized_cost_dimensions">>
    OBVIOUS
  <2>2. ts \in Seq(Word)
    BY <2>1 DEF Word
  <2>3. \A j, k \in 1..Len(ts) : ts[j] = ts[k] => j = k
    BY <2>1
  <2>4. \A t : t \in {"business_mapping_rules", "normalized_cost_dimensions"} <=> \E k \in 1..Len(ts) : t = ts[k]
    BY <2>1
  <2>5. R0009 = Tables(ts)
    BY <2>1 DEF R0009
  <2> QED BY <2>2, <2>3, <2>4, <2>5, LaidNamed
<1>2. NewTables(9) = {"business_mapping_rules", "normalized_cost_dimensions"} /\ NewColumns(9) = {}
  BY DEF NewTables, NewColumns
<1> QED BY <1>0, <1>1, <1>2 DEF LaidAs

LEMMA Laid10 == LaidAs(10, FALSE)
<1>0. Revision[10] = R0010
  BY DEF Revision
<1>1. Laid(R0010, Bases(10), Whole({"cost_period_summaries"}, {}), FALSE)
  <2>1. PICK ts : ts = <<"cost_period_summaries">>
    OBVIOUS
  <2>2. ts \in Seq(Word)
    BY <2>1 DEF Word
  <2>3. \A j, k \in 1..Len(ts) : ts[j] = ts[k] => j = k
    BY <2>1
  <2>4. \A t : t \in {"cost_period_summaries"} <=> \E k \in 1..Len(ts) : t = ts[k]
    BY <2>1
  <2>5. R0010 = Tables(ts)
    BY <2>1 DEF R0010
  <2> QED BY <2>2, <2>3, <2>4, <2>5, LaidNamed
<1>2. NewTables(10) = {"cost_period_summaries"} /\ NewColumns(10) = {}
  BY DEF NewTables, NewColumns
<1> QED BY <1>0, <1>1, <1>2 DEF LaidAs

LEMMA Laid11 == LaidAs(11, FALSE)
<1>0. Revision[11] = R0011
  BY DEF Revision
<1>1. Laid(R0011, Bases(11), Whole({"virtual_tag_rules"}, {}), FALSE)
  <2>1. PICK ts : ts = <<"virtual_tag_rules">>
    OBVIOUS
  <2>2. ts \in Seq(Word)
    BY <2>1 DEF Word
  <2>3. \A j, k \in 1..Len(ts) : ts[j] = ts[k] => j = k
    BY <2>1
  <2>4. \A t : t \in {"virtual_tag_rules"} <=> \E k \in 1..Len(ts) : t = ts[k]
    BY <2>1
  <2>5. R0011 = Tables(ts)
    BY <2>1 DEF R0011
  <2> QED BY <2>2, <2>3, <2>4, <2>5, LaidNamed
<1>2. NewTables(11) = {"virtual_tag_rules"} /\ NewColumns(11) = {}
  BY DEF NewTables, NewColumns
<1> QED BY <1>0, <1>1, <1>2 DEF LaidAs

LEMMA Laid12 == LaidAs(12, FALSE)
<1>0. Revision[12] = R0012
  BY DEF Revision
<1>1. Laid(Columns("user_organizations", <<"membership">>, FALSE),
           Bases(12), NewColumns(12), FALSE)
  <2>1. PICK cs : cs = <<"membership">>
    OBVIOUS
  <2>2. cs \in Seq(Word) /\ "user_organizations" \in Word
    BY <2>1 DEF Word
  <2>3. \A j, k \in 1..Len(cs) : cs[j] = cs[k] => j = k
    BY <2>1
  <2>4. PICK X : X = NewColumns(12)
    OBVIOUS
  <2>5. X = {<<"user_organizations", "membership">>}
    BY <2>4 DEF NewColumns
  <2>6. \A p : p \in X <=> \E k \in 1..Len(cs) : p = <<"user_organizations", cs[k]>>
    BY <2>1, <2>5
  <2>7. <<"user_organizations", "table">> \in Bases(12)
    BY DEF Bases
  <2>8. Laid(Columns("user_organizations", cs, FALSE), Bases(12), X, FALSE)
    BY <2>2, <2>3, <2>6, <2>7, LaidColumns
  <2> QED BY <2>1, <2>4, <2>8
<1>2. NewTables(12) = {}
  BY DEF NewTables
<1>3. Whole(NewTables(12), NewColumns(12)) = NewColumns(12)
  BY <1>2 DEF Whole
<1> QED BY <1>0, <1>1, <1>3 DEF LaidAs, R0012

LEMMA Laid13 == LaidAs(13, FALSE)
<1>0. Revision[13] = R0013
  BY DEF Revision
<1>1. Laid(Columns("scanning_permissions", Scheduler, FALSE),
           Bases(13), NewColumns(13), FALSE)
  <2>1. PICK cs : cs = <<"override", "frequency", "attempts", "backoff", "overdue">>
    OBVIOUS
  <2>2. cs \in Seq(Word) /\ "scanning_permissions" \in Word
    BY <2>1 DEF Word
  <2>3. \A j, k \in 1..Len(cs) : cs[j] = cs[k] => j = k
    BY <2>1
  <2>4. PICK X : X = NewColumns(13)
    OBVIOUS
  <2>5. X = {<<"scanning_permissions", "override">>,
                  <<"scanning_permissions", "frequency">>,
                  <<"scanning_permissions", "attempts">>,
                  <<"scanning_permissions", "backoff">>,
                  <<"scanning_permissions", "overdue">>}
    BY <2>4 DEF NewColumns
  <2>6. \A p : p \in X <=> \E k \in 1..Len(cs) : p = <<"scanning_permissions", cs[k]>>
    BY <2>1, <2>5
  <2>7. <<"scanning_permissions", "table">> \in Bases(13)
    BY DEF Bases
  <2>8. Laid(Columns("scanning_permissions", cs, FALSE), Bases(13), X, FALSE)
    BY <2>2, <2>3, <2>6, <2>7, LaidColumns
  <2> QED BY <2>1, <2>4, <2>8 DEF Scheduler
<1>2. Laid(Tables(<<"alert_ops_policies">>), Bases(13), Whole({"alert_ops_policies"}, {}), FALSE)
  <2>1. PICK ts : ts = <<"alert_ops_policies">>
    OBVIOUS
  <2>2. ts \in Seq(Word)
    BY <2>1 DEF Word
  <2>3. \A j, k \in 1..Len(ts) : ts[j] = ts[k] => j = k
    BY <2>1
  <2>4. \A t : t \in {"alert_ops_policies"} <=> \E k \in 1..Len(ts) : t = ts[k]
    BY <2>1
  <2>5. Tables(<<"alert_ops_policies">>) = Tables(ts)
    BY <2>1
  <2> QED BY <2>2, <2>3, <2>4, <2>5, LaidNamed
<1>3. NewTables(13) = {"alert_ops_policies"}
  BY DEF NewTables
<1>4. \A p \in NewColumns(13) : p[2] \notin {"table", "indexes"}
  BY DEF NewColumns
<1>5. Laid(R0013, Bases(13), Whole(NewTables(13), NewColumns(13)), FALSE)
  <2>1. PICK X, T : X = NewColumns(13) /\ T = NewTables(13)
    OBVIOUS
  <2>2. PICK c, w : c = Columns("scanning_permissions", Scheduler, FALSE)
                    /\ w = Tables(<<"alert_ops_policies">>)
    OBVIOUS
  <2>3. Laid(c, Bases(13), X, FALSE) /\ Laid(w, Bases(13), Whole(T, {}), FALSE)
    BY <1>1, <1>2, <1>3, <2>1, <2>2
  <2>4. Laid(c \o w, Bases(13), Whole(T, X), FALSE)
    BY <1>4, <2>1, <2>3, LaidBoth
  <2> QED BY <2>1, <2>2, <2>4 DEF R0013
<1> QED BY <1>0, <1>5 DEF LaidAs

LEMMA Laid14 == LaidAs(14, TRUE)
<1>0. Revision[14] = R0014
  BY DEF Revision
<1>1. Laid(Columns("imported_cost_records", <<"tags">>, TRUE),
           Bases(14), NewColumns(14), TRUE)
  <2>1. PICK cs : cs = <<"tags">>
    OBVIOUS
  <2>2. cs \in Seq(Word) /\ "imported_cost_records" \in Word
    BY <2>1 DEF Word
  <2>3. \A j, k \in 1..Len(cs) : cs[j] = cs[k] => j = k
    BY <2>1
  <2>4. PICK X : X = NewColumns(14)
    OBVIOUS
  <2>5. X = {<<"imported_cost_records", "tags">>}
    BY <2>4 DEF NewColumns
  <2>6. \A p : p \in X <=> \E k \in 1..Len(cs) : p = <<"imported_cost_records", cs[k]>>
    BY <2>1, <2>5
  <2>7. <<"imported_cost_records", "table">> \in Bases(14)
    BY DEF Bases
  <2>8. Laid(Columns("imported_cost_records", cs, TRUE), Bases(14), X, TRUE)
    BY <2>2, <2>3, <2>6, <2>7, LaidColumns
  <2> QED BY <2>1, <2>4, <2>8
<1>2. NewTables(14) = {}
  BY DEF NewTables
<1>3. Whole(NewTables(14), NewColumns(14)) = NewColumns(14)
  BY <1>2 DEF Whole
<1> QED BY <1>0, <1>1, <1>3 DEF LaidAs, R0014

LEMMA Laid15 == LaidAs(15, TRUE)
<1>0. Revision[15] = R0015
  BY DEF Revision
<1>1. Laid(Columns("scanning_permissions", Scheduler, TRUE),
           Bases(15), NewColumns(15), TRUE)
  <2>1. PICK cs : cs = <<"override", "frequency", "attempts", "backoff", "overdue">>
    OBVIOUS
  <2>2. cs \in Seq(Word) /\ "scanning_permissions" \in Word
    BY <2>1 DEF Word
  <2>3. \A j, k \in 1..Len(cs) : cs[j] = cs[k] => j = k
    BY <2>1
  <2>4. PICK X : X = NewColumns(15)
    OBVIOUS
  <2>5. X = {<<"scanning_permissions", "override">>,
                  <<"scanning_permissions", "frequency">>,
                  <<"scanning_permissions", "attempts">>,
                  <<"scanning_permissions", "backoff">>,
                  <<"scanning_permissions", "overdue">>}
    BY <2>4 DEF NewColumns
  <2>6. \A p : p \in X <=> \E k \in 1..Len(cs) : p = <<"scanning_permissions", cs[k]>>
    BY <2>1, <2>5
  <2>7. <<"scanning_permissions", "table">> \in Bases(15)
    BY DEF Bases
  <2>8. Laid(Columns("scanning_permissions", cs, TRUE), Bases(15), X, TRUE)
    BY <2>2, <2>3, <2>6, <2>7, LaidColumns
  <2> QED BY <2>1, <2>4, <2>8 DEF Scheduler
<1>2. Laid(Table("alert_ops_policies", TRUE), Bases(15), Whole({"alert_ops_policies"}, {}), TRUE)
  <2>1. "alert_ops_policies" \in Word
    BY DEF Word
  <2>2. Laid(Table("alert_ops_policies", TRUE), {}, Whole({"alert_ops_policies"}, {}), TRUE)
    BY <2>1, LaidTable
  <2> QED BY <2>2, LaidOn
<1>3. NewTables(15) = {"alert_ops_policies"}
  BY DEF NewTables
<1>4. \A p \in NewColumns(15) : p[2] \notin {"table", "indexes"}
  BY DEF NewColumns
<1>5. Laid(R0015, Bases(15), Whole(NewTables(15), NewColumns(15)), TRUE)
  <2>1. PICK X, T : X = NewColumns(15) /\ T = NewTables(15)
    OBVIOUS
  <2>2. PICK c, w : c = Columns("scanning_permissions", Scheduler, TRUE)
                    /\ w = Table("alert_ops_policies", TRUE)
    OBVIOUS
  <2>3. Laid(c, Bases(15), X, TRUE) /\ Laid(w, Bases(15), Whole(T, {}), TRUE)
    BY <1>1, <1>2, <1>3, <2>1, <2>2
  <2>4. Laid(c \o w, Bases(15), Whole(T, X), TRUE)
    BY <1>4, <2>1, <2>3, LaidBoth
  <2> QED BY <2>1, <2>2, <2>4 DEF R0015
<1> QED BY <1>0, <1>5 DEF LaidAs

LEMMA Laid16 == LaidAs(16, TRUE)
<1>0. Revision[16] = R0016
  BY DEF Revision
<1>1. Laid(R0016, Bases(16), Whole({"recommendation_ledger"}, {}), TRUE)
  <2>1. "recommendation_ledger" \in Word
    BY DEF Word
  <2>2. Laid(Table("recommendation_ledger", TRUE), {}, Whole({"recommendation_ledger"}, {}), TRUE)
    BY <2>1, LaidTable
  <2> QED BY <2>2, LaidOn DEF R0016
<1>2. NewTables(16) = {"recommendation_ledger"} /\ NewColumns(16) = {}
  BY DEF NewTables, NewColumns
<1> QED BY <1>0, <1>1, <1>2 DEF LaidAs

LEMMA Laid17 == LaidAs(17, TRUE)
<1>0. Revision[17] = R0017
  BY DEF Revision
<1>1. Laid(R0017, Bases(17), Whole({"oci_cost_report_ingestions"}, {}), TRUE)
  <2>1. "oci_cost_report_ingestions" \in Word
    BY DEF Word
  <2>2. Laid(Table("oci_cost_report_ingestions", TRUE), {}, Whole({"oci_cost_report_ingestions"}, {}), TRUE)
    BY <2>1, LaidTable
  <2> QED BY <2>2, LaidOn DEF R0017
<1>2. NewTables(17) = {"oci_cost_report_ingestions"} /\ NewColumns(17) = {}
  BY DEF NewTables, NewColumns
<1> QED BY <1>0, <1>1, <1>2 DEF LaidAs

LEMMA RevisionsLaid ==
    /\ \A r \in 1..13 : LaidAs(r, FALSE)
    /\ \A r \in 14..17 : LaidAs(r, TRUE)
<1>1. ASSUME NEW r \in 1..13 PROVE LaidAs(r, FALSE)
  <2>1. r \in {1, 2, 3, 4, 5, 6, 7, 8, 9, 10, 11, 12, 13}
    OBVIOUS
  <2> QED BY <2>1, Laid1, Laid2, Laid3, Laid4, Laid5, Laid6, Laid7, Laid8, Laid9, Laid10,
             Laid11, Laid12, Laid13
<1>2. ASSUME NEW r \in 14..17 PROVE LaidAs(r, TRUE)
  <2>1. r \in {14, 15, 16, 17}
    OBVIOUS
  <2> QED BY <2>1, Laid14, Laid15, Laid16, Laid17
<1> QED BY <1>1, <1>2

\* What the steps of an upgrade need to know of a revision.
Ready(r) ==
    LET q == Revision[r] IN
    /\ q \in Seq(St)
    /\ Parts(r) = Whole(NewTables(r), NewColumns(r))
    /\ Parts(r) = {q[k].part : k \in 1..Len(q)}
    /\ \A j, k \in 1..Len(q) : q[j].part = q[k].part => j = k
    /\ \A k \in 1..Len(q) :
          \/ q[k].part[2] = "table"
          \/ TableOf(q[k].part) \in Bases(r)
          \/ \E j \in 1..(k - 1) : q[j].part = TableOf(q[k].part)
    /\ \A k \in 1..Len(q) : q[k].guarded <=> r > 13

LEMMA LatestIs == Latest = 17 /\ DOMAIN Revision = 1..17
BY DEF Latest, Revision

LEMMA RevisionsReady ==
    ASSUME NEW r \in 1..17
    PROVE  Ready(r)
<1>1. PICK guard \in BOOLEAN : guard <=> r > 13
  OBVIOUS
<1>2. LaidAs(r, guard)
  <2>1. r \in 1..13 \/ r \in 14..17
    OBVIOUS
  <2>2. CASE r \in 1..13
    <3>0. ~(r > 13)
      BY <2>2
    <3>1. guard = FALSE
      BY <1>1, <3>0, Zenon
    <3> QED BY <2>2, <3>1, RevisionsLaid
  <2>3. CASE r \in 14..17
    <3>0. r > 13
      BY <2>3
    <3>1. guard = TRUE
      BY <1>1, <3>0, Zenon
    <3> QED BY <2>3, <3>1, RevisionsLaid
  <2> QED BY <2>1, <2>2, <2>3
<1>3. PICK q, made : q = Revision[r] /\ made = Whole(NewTables(r), NewColumns(r))
  OBVIOUS
<1>4. Laid(q, Bases(r), made, guard)
  BY <1>2, <1>3 DEF LaidAs
<1>5. q \in Seq(St) /\ \A p : p \in made <=> \E k \in 1..Len(q) : q[k].part = p
  BY <1>4 DEF Laid
<1>6. DOMAIN q = 1..Len(q)
  BY <1>5
<1>7. Parts(r) = {q[k].part : k \in 1..Len(q)}
  BY <1>3, <1>6 DEF Parts
<1>8. made = {q[k].part : k \in 1..Len(q)}
  BY <1>5
<1>9. /\ \A j, k \in 1..Len(q) : q[j].part = q[k].part => j = k
      /\ \A k \in 1..Len(q) :
          \/ q[k].part[2] = "table"
          \/ TableOf(q[k].part) \in Bases(r)
          \/ \E j \in 1..(k - 1) : q[j].part = TableOf(q[k].part)
      /\ \A k \in 1..Len(q) : q[k].guarded = guard
  BY <1>4 DEF Laid
<1> QED BY <1>1, <1>3, <1>5, <1>7, <1>8, <1>9 DEF Ready

\* The revision that first makes a table or a column.
Birth(t) ==
    IF t \in {"users", "organizations", "user_organizations", "refresh_tokens",
                  "password_reset_tokens", "stored_credentials", "credential_records",
                  "scanning_permissions", "scan_runs", "cost_snapshots"} THEN 1
    ELSE IF t \in {"audit_logs", "alert_events"} THEN 2
    ELSE IF t \in {"provider_accounts", "provider_account_links",
                  "provider_account_snapshots"} THEN 3
    ELSE IF t \in {"imported_cost_records"} THEN 4
    ELSE IF t \in {"cost_allocation_snapshots"} THEN 6
    ELSE IF t \in {"alert_routing_policies"} THEN 7
    ELSE IF t \in {"export_jobs", "export_job_runs"} THEN 8
    ELSE IF t \in {"business_mapping_rules", "normalized_cost_dimensions"} THEN 9
    ELSE IF t \in {"cost_period_summaries"} THEN 10
    ELSE IF t \in {"virtual_tag_rules"} THEN 11
    ELSE IF t \in {"alert_ops_policies"} THEN 13
    ELSE IF t \in {"recommendation_ledger"} THEN 16
    ELSE 17

ColumnBirth(c) ==
    IF c \in {"budget", "warning", "critical", "notify"} THEN 2
    ELSE IF c \in {"account_type", "parent_account"} THEN 5
    ELSE IF c = "membership" THEN 12
    ELSE IF c = "tags" THEN 14
    ELSE 13

Born(p) == IF p[2] \in {"table", "indexes"} THEN Birth(p[1]) ELSE ColumnBirth(p[2])

\* Revision 15 makes what revision 13 makes.
First(r) == IF r = 15 THEN 13 ELSE r

LEMMA BirthIs ==
    ASSUME NEW r \in 1..17, NEW t \in NewTables(r)
    PROVE  Birth(t) = First(r)
<1>0. r \in {1, 2, 3, 4, 5, 6, 7, 8, 9, 10, 11, 12, 13, 14, 15, 16, 17}
  OBVIOUS
<1>1. CASE r = 1
  BY <1>1 DEF NewTables, Birth, First
<1>2. CASE r = 2
  BY <1>2 DEF NewTables, Birth, First
<1>3. CASE r = 3
  BY <1>3 DEF NewTables, Birth, First
<1>4. CASE r = 4
  BY <1>4 DEF NewTables, Birth, First
<1>5. CASE r = 5
  BY <1>5 DEF NewTables, Birth, First
<1>6. CASE r = 6
  BY <1>6 DEF NewTables, Birth, First
<1>7. CASE r = 7
  BY <1>7 DEF NewTables, Birth, First
<1>8. CASE r = 8
  BY <1>8 DEF NewTables, Birth, First
<1>9. CASE r = 9
  BY <1>9 DEF NewTables, Birth, First
<1>10. CASE r = 10
  BY <1>10 DEF NewTables, Birth, First
<1>11. CASE r = 11
  BY <1>11 DEF NewTables, Birth, First
<1>12. CASE r = 12
  BY <1>12 DEF NewTables, Birth, First
<1>13. CASE r = 13
  BY <1>13 DEF NewTables, Birth, First
<1>14. CASE r = 14
  BY <1>14 DEF NewTables, Birth, First
<1>15. CASE r = 15
  BY <1>15 DEF NewTables, Birth, First
<1>16. CASE r = 16
  BY <1>16 DEF NewTables, Birth, First
<1>17. CASE r = 17
  BY <1>17 DEF NewTables, Birth, First
<1> QED BY <1>0, <1>1, <1>2, <1>3, <1>4, <1>5, <1>6, <1>7, <1>8, <1>9, <1>10, <1>11, <1>12,
          <1>13, <1>14, <1>15, <1>16, <1>17

LEMMA ColumnsBirth ==
    ASSUME NEW r \in 1..17, NEW p \in NewColumns(r)
    PROVE  /\ p[2] \notin {"table", "indexes"} /\ p = <<p[1], p[2]>>
           /\ ColumnBirth(p[2]) = First(r) /\ Birth(p[1]) < First(r)
<1>0. r \in {1, 2, 3, 4, 5, 6, 7, 8, 9, 10, 11, 12, 13, 14, 15, 16, 17}
  OBVIOUS
<1>1. CASE r = 1
  BY <1>1 DEF NewColumns, Birth, ColumnBirth, First
<1>2. CASE r = 2
  BY <1>2 DEF NewColumns, Birth, ColumnBirth, First
<1>3. CASE r = 3
  BY <1>3 DEF NewColumns, Birth, ColumnBirth, First
<1>4. CASE r = 4
  BY <1>4 DEF NewColumns, Birth, ColumnBirth, First
<1>5. CASE r = 5
  BY <1>5 DEF NewColumns, Birth, ColumnBirth, First
<1>6. CASE r = 6
  BY <1>6 DEF NewColumns, Birth, ColumnBirth, First
<1>7. CASE r = 7
  BY <1>7 DEF NewColumns, Birth, ColumnBirth, First
<1>8. CASE r = 8
  BY <1>8 DEF NewColumns, Birth, ColumnBirth, First
<1>9. CASE r = 9
  BY <1>9 DEF NewColumns, Birth, ColumnBirth, First
<1>10. CASE r = 10
  BY <1>10 DEF NewColumns, Birth, ColumnBirth, First
<1>11. CASE r = 11
  BY <1>11 DEF NewColumns, Birth, ColumnBirth, First
<1>12. CASE r = 12
  BY <1>12 DEF NewColumns, Birth, ColumnBirth, First
<1>13. CASE r = 13
  BY <1>13 DEF NewColumns, Birth, ColumnBirth, First
<1>14. CASE r = 14
  BY <1>14 DEF NewColumns, Birth, ColumnBirth, First
<1>15. CASE r = 15
  BY <1>15 DEF NewColumns, Birth, ColumnBirth, First
<1>16. CASE r = 16
  BY <1>16 DEF NewColumns, Birth, ColumnBirth, First
<1>17. CASE r = 17
  BY <1>17 DEF NewColumns, Birth, ColumnBirth, First
<1> QED BY <1>0, <1>1, <1>2, <1>3, <1>4, <1>5, <1>6, <1>7, <1>8, <1>9, <1>10, <1>11, <1>12,
          <1>13, <1>14, <1>15, <1>16, <1>17

\* A part knows the revision that makes it, and its table is not younger.
LEMMA BornIs ==
    ASSUME NEW r \in 1..17, NEW p \in Parts(r)
    PROVE  /\ p = <<p[1], p[2]>> /\ Born(p) = First(r)
           /\ Birth(p[1]) \in 1..17 /\ Birth(p[1]) <= First(r)
<1>1. p \in Whole(NewTables(r), NewColumns(r))
  BY RevisionsReady DEF Ready
<1>2. CASE p \in NewColumns(r)
  <2>1. Birth(p[1]) \in 1..17
    BY DEF Birth
  <2> QED BY <1>2, <2>1, ColumnsBirth DEF Born, First
<1>3. CASE p \notin NewColumns(r)
  <2>1. PICK t \in NewTables(r), x \in {"table", "indexes"} : p = <<t, x>>
    BY <1>1, <1>3 DEF Whole
  <2>2. p[1] = t /\ p[2] = x
    BY <2>1
  <2> QED BY <2>1, <2>2, BirthIs DEF Born, First
<1> QED BY <1>2, <1>3

LEMMA TableBorn ==
    ASSUME NEW r \in 1..17, NEW p, TableOf(p) \in Parts(r)
    PROVE  Birth(p[1]) = First(r)
<1>1. Born(TableOf(p)) = First(r)
  BY BornIs
<1> QED BY <1>1 DEF Born, TableOf

LEMMA RepairIsSame == Parts(15) = Parts(13)
<1>1. Parts(15) = Whole(NewTables(15), NewColumns(15)) /\ Parts(13) = Whole(NewTables(13), NewColumns(13))
  BY RevisionsReady DEF Ready
<1>2. NewTables(15) = NewTables(13)
  BY DEF NewTables
<1>3. NewColumns(15) = NewColumns(13)
  BY DEF NewColumns
<1> QED BY <1>1, <1>2, <1>3

LEMMA BasesThere ==
    ASSUME NEW r \in 1..17, NEW b \in Bases(r)
    PROVE  (r > 1 /\ b \in Parts(1)) \/ (r > 4 /\ b \in Parts(4))
<1>1. Parts(1) = Whole(NewTables(1), NewColumns(1)) /\ Parts(4) = Whole(NewTables(4), NewColumns(4))
  BY RevisionsReady DEF Ready
<1>2. "user_organizations" \in NewTables(1) /\ "scanning_permissions" \in NewTables(1)
  BY DEF NewTables
<1>3. "imported_cost_records" \in NewTables(4)
  BY DEF NewTables
<1>4. <<"user_organizations", "table">> \in Parts(1) /\ <<"scanning_permissions", "table">> \in Parts(1)
      /\ <<"imported_cost_records", "table">> \in Parts(4)
  BY <1>1, <1>2, <1>3 DEF Whole
<1>5. CASE r \in 2..4
  <2>1. b \in {<<"user_organizations", "table">>, <<"scanning_permissions", "table">>}
    BY <1>5 DEF Bases
  <2> QED BY <1>4, <1>5, <2>1
<1>6. CASE r > 4
  <2>1. b \in {<<"user_organizations", "table">>, <<"scanning_permissions", "table">>,
                <<"imported_cost_records", "table">>}
    BY <1>6 DEF Bases
  <2> QED BY <1>4, <1>6, <2>1
<1>7. CASE r = 1
  BY <1>7 DEF Bases
<1> QED BY <1>5, <1>6, <1>7

\* Each table of the ORM comes from a revision, and each column of it that a later
\* revision adds.

OrmPart(p) ==
    /\ \E r \in 1..17 : p \in Parts(r)
    /\ \E r \in 1..17 : TableOf(p) \in Parts(r) /\ (r < 14 \/ p \in Parts(16) \cup Parts(17))

LEMMA WholeIsOrm ==
    ASSUME NEW T, NEW X, NEW p \in Whole(T, X),
           \A t \in T : \E r \in {1, 2, 3, 4, 6, 7, 8, 9, 10, 11, 13, 16, 17} : t \in NewTables(r),
           \A x \in X : /\ \E r \in 1..15 : x \in NewColumns(r)
                        /\ \E r \in {1, 4} : x[1] \in NewTables(r)
    PROVE  OrmPart(p)
<1>0. \A r \in 1..17 : Parts(r) = Whole(NewTables(r), NewColumns(r))
  BY RevisionsReady DEF Ready
<1>1. CASE p \in X
  <2>1. PICK r \in 1..15 : p \in NewColumns(r)
    BY <1>1
  <2>2. p \in Parts(r)
    BY <1>0, <2>1 DEF Whole
  <2>3. PICK s \in {1, 4} : p[1] \in NewTables(s)
    BY <1>1
  <2>4. TableOf(p) \in Parts(s)
    BY <1>0, <2>3 DEF Whole, TableOf
  <2> QED BY <2>2, <2>4 DEF OrmPart
<1>2. CASE p \notin X
  <2>1. PICK t \in T, x \in {"table", "indexes"} : p = <<t, x>>
    BY <1>2 DEF Whole
  <2>2. PICK r \in {1, 2, 3, 4, 6, 7, 8, 9, 10, 11, 13, 16, 17} : t \in NewTables(r)
    BY <2>1
  <2>3. r \in 1..17 /\ (r < 14 \/ r = 16 \/ r = 17)
    BY <2>2
  <2>4. p \in Parts(r) /\ TableOf(p) \in Parts(r)
    BY <1>0, <2>1, <2>2, <2>3 DEF Whole, TableOf
  <2> QED BY <2>3, <2>4 DEF OrmPart
<1> QED BY <1>1, <1>2

LEMMA OrmAccountsAre == \A p \in OrmAccounts : OrmPart(p)
<1>1. PICK T : T = {"users", "organizations", "user_organizations"}
  OBVIOUS
<1>2. PICK X : X = {<<"user_organizations", "membership">>}
  OBVIOUS
<1>3. \A t \in T : \E r \in {1, 2, 3, 4, 6, 7, 8, 9, 10, 11, 13, 16, 17} : t \in NewTables(r)
  <2>1. NewTables(1) = {"users", "organizations", "user_organizations", "refresh_tokens",
      "password_reset_tokens", "stored_credentials", "credential_records",
      "scanning_permissions", "scan_runs", "cost_snapshots"}
    BY DEF NewTables
  <2> QED BY <1>1, <2>1
<1>4. \A x \in X : /\ \E r \in 1..15 : x \in NewColumns(r)
                   /\ \E r \in {1, 4} : x[1] \in NewTables(r)
  <2>1. NewColumns(12) = {<<"user_organizations", "membership">>}
    BY DEF NewColumns
  <2>3. "user_organizations" \in NewTables(1)
    BY DEF NewTables
  <2>4. ASSUME NEW x \in X PROVE x[1] = "user_organizations" /\ x \in NewColumns(12)
    BY <1>2, <2>1
  <2> QED BY <2>3, <2>4
<1>5. OrmAccounts = Whole(T, X)
  BY <1>1, <1>2 DEF OrmAccounts
<1> QED BY <1>3, <1>4, <1>5, WholeIsOrm

LEMMA OrmTokensAre == \A p \in OrmTokens : OrmPart(p)
<1>1. PICK T : T = {"refresh_tokens", "password_reset_tokens", "stored_credentials", "credential_records"}
  OBVIOUS
<1>2. PICK X : X = {}
  OBVIOUS
<1>3. \A t \in T : \E r \in {1, 2, 3, 4, 6, 7, 8, 9, 10, 11, 13, 16, 17} : t \in NewTables(r)
  <2>1. NewTables(1) = {"users", "organizations", "user_organizations", "refresh_tokens",
      "password_reset_tokens", "stored_credentials", "credential_records",
      "scanning_permissions", "scan_runs", "cost_snapshots"}
    BY DEF NewTables
  <2> QED BY <1>1, <2>1
<1>4. \A x \in X : /\ \E r \in 1..15 : x \in NewColumns(r)
                   /\ \E r \in {1, 4} : x[1] \in NewTables(r)
  BY <1>2
<1>5. OrmTokens = Whole(T, X)
  BY <1>1, <1>2 DEF OrmTokens
<1> QED BY <1>3, <1>4, <1>5, WholeIsOrm

LEMMA OrmScansAre == \A p \in OrmScans : OrmPart(p)
<1>1. PICK T : T = {"scanning_permissions", "scan_runs"}
  OBVIOUS
<1>2. PICK X : X = {<<"scanning_permissions", c>> : c \in {"budget", "warning", "critical", "notify"} \cup
    ToSet(Scheduler)}
  OBVIOUS
<1>3. \A t \in T : \E r \in {1, 2, 3, 4, 6, 7, 8, 9, 10, 11, 13, 16, 17} : t \in NewTables(r)
  <2>1. NewTables(1) = {"users", "organizations", "user_organizations", "refresh_tokens",
      "password_reset_tokens", "stored_credentials", "credential_records",
      "scanning_permissions", "scan_runs", "cost_snapshots"}
    BY DEF NewTables
  <2> QED BY <1>1, <2>1
<1>4. \A x \in X : /\ \E r \in 1..15 : x \in NewColumns(r)
                   /\ \E r \in {1, 4} : x[1] \in NewTables(r)
  <2>1. NewColumns(2) = {<<"scanning_permissions", "budget">>, <<"scanning_permissions", "warning">>,
      <<"scanning_permissions", "critical">>, <<"scanning_permissions", "notify">>}
    BY DEF NewColumns
  <2>2. NewColumns(13) = {<<"scanning_permissions", "override">>, <<"scanning_permissions", "frequency">>,
      <<"scanning_permissions", "attempts">>, <<"scanning_permissions", "backoff">>,
      <<"scanning_permissions", "overdue">>}
    BY DEF NewColumns
  <2>3. "scanning_permissions" \in NewTables(1)
    BY DEF NewTables
  <2>4. ASSUME NEW x \in X PROVE x[1] = "scanning_permissions" /\ (x \in NewColumns(2) \/ x \in NewColumns(13))
    BY <1>2, <2>1, <2>2 DEF Scheduler, ToSet
  <2> QED BY <2>3, <2>4
<1>5. OrmScans = Whole(T, X)
  BY <1>1, <1>2 DEF OrmScans
<1> QED BY <1>3, <1>4, <1>5, WholeIsOrm

LEMMA OrmCostsAre == \A p \in OrmCosts : OrmPart(p)
<1>1. PICK T : T = {"cost_snapshots", "imported_cost_records"}
  OBVIOUS
<1>2. PICK X : X = {<<"imported_cost_records", c>> : c \in {"account_type", "parent_account", "tags"}}
  OBVIOUS
<1>3. \A t \in T : \E r \in {1, 2, 3, 4, 6, 7, 8, 9, 10, 11, 13, 16, 17} : t \in NewTables(r)
  <2>1. NewTables(1) = {"users", "organizations", "user_organizations", "refresh_tokens",
      "password_reset_tokens", "stored_credentials", "credential_records",
      "scanning_permissions", "scan_runs", "cost_snapshots"}
    BY DEF NewTables
  <2>2. NewTables(4) = {"imported_cost_records"}
    BY DEF NewTables
  <2> QED BY <1>1, <2>1, <2>2
<1>4. \A x \in X : /\ \E r \in 1..15 : x \in NewColumns(r)
                   /\ \E r \in {1, 4} : x[1] \in NewTables(r)
  <2>1. NewColumns(5) = {<<"imported_cost_records", "account_type">>,
      <<"imported_cost_records", "parent_account">>}
    BY DEF NewColumns
  <2>2. NewColumns(14) = {<<"imported_cost_records", "tags">>}
    BY DEF NewColumns
  <2>3. "imported_cost_records" \in NewTables(4)
    BY DEF NewTables
  <2>4. ASSUME NEW x \in X PROVE x[1] = "imported_cost_records" /\ (x \in NewColumns(5) \/ x \in NewColumns(14))
    BY <1>2, <2>1, <2>2
  <2> QED BY <2>3, <2>4
<1>5. OrmCosts = Whole(T, X)
  BY <1>1, <1>2 DEF OrmCosts
<1> QED BY <1>3, <1>4, <1>5, WholeIsOrm

LEMMA OrmProvidersAre == \A p \in OrmProviders : OrmPart(p)
<1>1. PICK T : T = {"provider_accounts", "provider_account_links", "provider_account_snapshots",
    "cost_allocation_snapshots"}
  OBVIOUS
<1>2. PICK X : X = {}
  OBVIOUS
<1>3. \A t \in T : \E r \in {1, 2, 3, 4, 6, 7, 8, 9, 10, 11, 13, 16, 17} : t \in NewTables(r)
  <2>1. NewTables(3) = {"provider_accounts", "provider_account_links", "provider_account_snapshots"}
    BY DEF NewTables
  <2>2. NewTables(6) = {"cost_allocation_snapshots"}
    BY DEF NewTables
  <2> QED BY <1>1, <2>1, <2>2
<1>4. \A x \in X : /\ \E r \in 1..15 : x \in NewColumns(r)
                   /\ \E r \in {1, 4} : x[1] \in NewTables(r)
  BY <1>2
<1>5. OrmProviders = Whole(T, X)
  BY <1>1, <1>2 DEF OrmProviders
<1> QED BY <1>3, <1>4, <1>5, WholeIsOrm

LEMMA OrmAlertsAre == \A p \in OrmAlerts : OrmPart(p)
<1>1. PICK T : T = {"audit_logs", "alert_events", "alert_routing_policies", "alert_ops_policies"}
  OBVIOUS
<1>2. PICK X : X = {}
  OBVIOUS
<1>3. \A t \in T : \E r \in {1, 2, 3, 4, 6, 7, 8, 9, 10, 11, 13, 16, 17} : t \in NewTables(r)
  <2>1. NewTables(2) = {"audit_logs", "alert_events"}
    BY DEF NewTables
  <2>2. NewTables(7) = {"alert_routing_policies"}
    BY DEF NewTables
  <2>3. NewTables(13) = {"alert_ops_policies"}
    BY DEF NewTables
  <2> QED BY <1>1, <2>1, <2>2, <2>3
<1>4. \A x \in X : /\ \E r \in 1..15 : x \in NewColumns(r)
                   /\ \E r \in {1, 4} : x[1] \in NewTables(r)
  BY <1>2
<1>5. OrmAlerts = Whole(T, X)
  BY <1>1, <1>2 DEF OrmAlerts
<1> QED BY <1>3, <1>4, <1>5, WholeIsOrm

LEMMA OrmReportsAre == \A p \in OrmReports : OrmPart(p)
<1>1. PICK T : T = {"export_jobs", "business_mapping_rules", "normalized_cost_dimensions",
    "export_job_runs"}
  OBVIOUS
<1>2. PICK X : X = {}
  OBVIOUS
<1>3. \A t \in T : \E r \in {1, 2, 3, 4, 6, 7, 8, 9, 10, 11, 13, 16, 17} : t \in NewTables(r)
  <2>1. NewTables(8) = {"export_jobs", "export_job_runs"}
    BY DEF NewTables
  <2>2. NewTables(9) = {"business_mapping_rules", "normalized_cost_dimensions"}
    BY DEF NewTables
  <2> QED BY <1>1, <2>1, <2>2
<1>4. \A x \in X : /\ \E r \in 1..15 : x \in NewColumns(r)
                   /\ \E r \in {1, 4} : x[1] \in NewTables(r)
  BY <1>2
<1>5. OrmReports = Whole(T, X)
  BY <1>1, <1>2 DEF OrmReports
<1> QED BY <1>3, <1>4, <1>5, WholeIsOrm

LEMMA OrmLedgerAre == \A p \in OrmLedger : OrmPart(p)
<1>1. PICK T : T = {"cost_period_summaries", "oci_cost_report_ingestions", "recommendation_ledger",
    "virtual_tag_rules"}
  OBVIOUS
<1>2. PICK X : X = {}
  OBVIOUS
<1>3. \A t \in T : \E r \in {1, 2, 3, 4, 6, 7, 8, 9, 10, 11, 13, 16, 17} : t \in NewTables(r)
  <2>1. NewTables(10) = {"cost_period_summaries"}
    BY DEF NewTables
  <2>2. NewTables(11) = {"virtual_tag_rules"}
    BY DEF NewTables
  <2>3. NewTables(16) = {"recommendation_ledger"}
    BY DEF NewTables
  <2>4. NewTables(17) = {"oci_cost_report_ingestions"}
    BY DEF NewTables
  <2> QED BY <1>1, <2>1, <2>2, <2>3, <2>4
<1>4. \A x \in X : /\ \E r \in 1..15 : x \in NewColumns(r)
                   /\ \E r \in {1, 4} : x[1] \in NewTables(r)
  BY <1>2
<1>5. OrmLedger = Whole(T, X)
  BY <1>1, <1>2 DEF OrmLedger
<1> QED BY <1>3, <1>4, <1>5, WholeIsOrm

LEMMA OrmIs == \A p \in Orm : OrmPart(p)
BY OrmAccountsAre, OrmTokensAre, OrmScansAre, OrmCostsAre, OrmProvidersAre, OrmAlertsAre, OrmReportsAre, OrmLedgerAre DEF Orm

-----------------------------------------------------------------------------
(* Parts below and above a revision.                                       *)

LEMMA StatementsHave ==
    ASSUME NEW r \in 1..17, NEW k \in 1..Len(Revision[r])
    PROVE  Revision[r][k] \in ToSet(Statements)
<1>1. PICK R : R = Revision
  OBVIOUS
<1>2. DOMAIN R = 1..17 /\ Len(R) = 17 /\ R = [i \in 1..17 |-> R[i]]
  BY <1>1 DEF Revision
<1>3. \A i \in 1..17 : R[i] \in Seq(St)
  BY <1>1, RevisionsReady DEF Ready
<1>4. R \in Seq(Seq(St))
  <2>1. R \in [1..17 -> Seq(St)]
    BY <1>2, <1>3
  <2>2. PICK S : S = Seq(St)
    OBVIOUS
  <2>3. R \in [1..17 -> S] /\ 17 \in Nat
    BY <2>1, <2>2
  <2>4. R \in Seq(S)
    BY <2>3, SeqDef
  <2> QED BY <2>2, <2>4
<1>5. R[r] \in Range(R)
  BY <1>2 DEF Range
<1>6. R[r][k] \in Range(R[r])
  <2>1. R[r] \in Seq(St) /\ k \in 1..Len(R[r])
    BY <1>1, <1>3
  <2> QED BY <2>1 DEF Range
<1>7. R[r][k] \in Range(FlattenSeq(R))
  BY <1>4, <1>5, <1>6, FlatHas
<1> QED BY <1>1, <1>7 DEF Statements, ToSet, Range

LEMMA LookedFor ==
    ASSUME NEW r \in 14..17
    PROVE  Parts(r) \subseteq Guarded
<1>1. ASSUME NEW p \in Parts(r) PROVE p \in Guarded
  <2>1. r \in 1..17 /\ r > 13
    OBVIOUS
  <2>5. Parts(r) = {Revision[r][k].part : k \in 1..Len(Revision[r])}
    BY <2>1, RevisionsReady DEF Ready
  <2>2. PICK k \in 1..Len(Revision[r]) : Revision[r][k].part = p
    BY <2>5
  <2>3. Revision[r][k].guarded
    BY <2>1, RevisionsReady DEF Ready
  <2>4. Revision[r][k] \in ToSet(Statements)
    BY <2>1, StatementsHave
  <2> QED BY <2>2, <2>3, <2>4 DEF Guarded
<1> QED BY <1>1

LEMMA PlainTables ==
    ASSUME NEW r \in 1..13, NEW p, TableOf(p) \in Parts(r)
    PROVE  p[1] \in Unguarded
<1>1. r \in 1..17 /\ ~(r > 13)
  OBVIOUS
<1>6. Parts(r) = {Revision[r][k].part : k \in 1..Len(Revision[r])}
  BY <1>1, RevisionsReady DEF Ready
<1>2. PICK k \in 1..Len(Revision[r]) : Revision[r][k].part = TableOf(p)
  BY <1>6
<1>3. ~Revision[r][k].guarded
  BY <1>1, RevisionsReady DEF Ready
<1>4. Revision[r][k] \in ToSet(Statements)
  BY <1>1, StatementsHave
<1>5. TableOf(p)[1] = p[1] /\ TableOf(p)[2] = "table"
  BY DEF TableOf
<1> QED BY <1>2, <1>3, <1>4, <1>5 DEF Unguarded

LEMMA MigratedIs ==
    ASSUME NEW n \in 0..17
    PROVE  \A p : p \in Migrated[n] <=> \E r \in 1..n : p \in Parts(r)
BY LatestIs DEF Migrated

LEMMA MigratedStep ==
    ASSUME NEW n \in 1..17
    PROVE  Migrated[n] = Migrated[n - 1] \cup Parts(n)
<1>1. n \in 0..17 /\ n - 1 \in 0..17
  OBVIOUS
<1>2. \A r : r \in 1..n <=> r \in 1..(n - 1) \/ r = n
  OBVIOUS
<1>3. \A p : p \in Migrated[n] <=> p \in Migrated[n - 1] \/ p \in Parts(n)
  BY <1>1, <1>2, MigratedIs
<1> QED BY <1>3

\* What the later revisions look for may be there before.
Lookup == Parts(14) \cup Parts(16) \cup Parts(17)

Most(n) == Migrated[n] \cup Lookup

\* A database of the old layout is without the parts of revision 13 until revision 15.
Least(legacy, n) ==
    IF legacy /\ n = 13 THEN Migrated[12]
    ELSE IF legacy /\ n = 14 THEN Migrated[12] \cup Parts(14)
    ELSE Migrated[n]

LEMMA LeastStep ==
    ASSUME NEW legacy \in BOOLEAN, NEW n \in 1..17
    PROVE  /\ Least(legacy, n) \subseteq Least(legacy, n - 1) \cup Parts(n)
           /\ Least(legacy, n - 1) \subseteq Least(legacy, n)
           /\ Least(legacy, n) \subseteq Migrated[n]
<1>1. Migrated[n] = Migrated[n - 1] \cup Parts(n)
  BY MigratedStep
<1>2. Migrated[13] = Migrated[12] \cup Parts(13) /\ Migrated[14] = Migrated[13] \cup Parts(14)
  <2>1. 13 \in 1..17 /\ 14 \in 1..17 /\ 13 - 1 = 12 /\ 14 - 1 = 13
    OBVIOUS
  <2> QED BY <2>1, MigratedStep
<1>3. CASE ~legacy \/ n \notin 13..15
  BY <1>1, <1>3 DEF Least
<1>4. CASE legacy /\ n = 13
  BY <1>1, <1>2, <1>4 DEF Least
<1>5. CASE legacy /\ n = 14
  BY <1>1, <1>2, <1>5 DEF Least
<1>6. CASE legacy /\ n = 15
  BY <1>1, <1>2, <1>6, RepairIsSame DEF Least
<1> QED BY <1>3, <1>4, <1>5, <1>6

LEMMA LeastBelow ==
    ASSUME NEW legacy \in BOOLEAN, NEW n \in 0..17
    PROVE  Least(legacy, n) \subseteq Migrated[n]
<1>1. CASE n = 0
  BY <1>1 DEF Least
<1>2. CASE n \in 1..17
  BY <1>2, LeastStep
<1> QED BY <1>1, <1>2

LEMMA LeastBases ==
    ASSUME NEW legacy \in BOOLEAN, NEW r \in 1..17, NEW b \in Bases(r)
    PROVE  b \in Least(legacy, r - 1)
<1>1. (r > 1 /\ b \in Parts(1)) \/ (r > 4 /\ b \in Parts(4))
  BY BasesThere
<1>2. b \in Migrated[r - 1]
  <2>1. r - 1 \in 0..17 /\ (r > 1 => 1 \in 1..(r - 1)) /\ (r > 4 => 4 \in 1..(r - 1))
    OBVIOUS
  <2> QED BY <1>1, <2>1, MigratedIs
<1>3. b \in Migrated[12] \/ r < 14
  <2>1. 12 \in 0..17 /\ 1 \in 1..12 /\ 4 \in 1..12
    OBVIOUS
  <2> QED BY <1>1, <2>1, MigratedIs
<1> QED BY <1>2, <1>3 DEF Least

\* Going down leaves what the revisions below have made.
LEMMA DroppedKeeps ==
    ASSUME NEW r \in 1..17, r # 15, NEW p \in Migrated[r - 1]
    PROVE  p \notin Parts(r) /\ TableOf(p) \notin Parts(r)
<1>1. PICK q \in 1..(r - 1) : p \in Parts(q)
  <2>1. r - 1 \in 0..17
    OBVIOUS
  <2> QED BY <2>1, MigratedIs
<1>2. q \in 1..17 /\ First(q) < r /\ First(r) = r
  BY DEF First
<1>3. Born(p) = First(q) /\ Birth(p[1]) <= First(q) /\ Birth(p[1]) \in 1..17
  BY <1>1, <1>2, BornIs
<1>4. ASSUME p \in Parts(r) PROVE FALSE
  <2>1. Born(p) = First(r)
    BY <1>4, BornIs
  <2> QED BY <1>2, <1>3, <2>1
<1>5. ASSUME TableOf(p) \in Parts(r) PROVE FALSE
  <2>1. Birth(p[1]) = First(r)
    BY <1>5, TableBorn
  <2>2. First(q) \in Nat
    BY <1>2 DEF First
  <2> QED BY <1>2, <1>3, <2>1, <2>2
<1> QED BY <1>4, <1>5

\* What a revision makes without looking was made by none before.
LEMMA NotThere ==
    ASSUME NEW r \in 1..13, NEW p \in Parts(r)
    PROVE  p \notin Most(r - 1)
<1>1. r \in 1..17 /\ r # 15
  OBVIOUS
<1>2. p \notin Migrated[r - 1]
  BY <1>1, DroppedKeeps
<1>3. Born(p) = r
  BY <1>1, BornIs DEF First
<1>4. p \notin Lookup
  <2>1. \A q \in {14, 16, 17} : q \in 1..17 /\ First(q) = q
    BY DEF First
  <2>2. \A q \in {14, 16, 17} : p \notin Parts(q)
    BY <1>3, <2>1, BornIs
  <2> QED BY <2>2 DEF Lookup
<1> QED BY <1>2, <1>4 DEF Most

-----------------------------------------------------------------------------
(* The inductive invariant.                                                *)

\* The parts that the revision under way has made or found.
Done ==
    IF upgrade = Idle THEN {}
    ELSE {Revision[upgrade.at][k].part : k \in 1..(upgrade.next - 1)}

\* The statements of this revision are committed with its stamp.
Late == history.atomic \/ upgrade.at = 12

HistoryType ==
    history \in [legacy : BOOLEAN, atomic : BOOLEAN, early : BOOLEAN, cut : BOOLEAN,
                 failed : 0..13, met : SUBSET Server]

UpgradeType ==
    /\ stamp \in 0..17
    /\ upgrade \in [at : 0..17, next : Nat]
    /\ upgrade = Idle => work = {}
    /\ upgrade # Idle =>
         /\ upgrade.at \in 1..17 /\ upgrade.next \in 1..(Len(Revision[upgrade.at]) + 1)
         /\ stamp < upgrade.at
         /\ ~history.atomic => stamp = upgrade.at - 1
         /\ ~Late => work = {}

\* What is there at least, and what the upgrade has beside it.
Lower ==
    /\ Least(history.legacy, stamp) \subseteq schema
    /\ upgrade # Idle => Least(history.legacy, upgrade.at - 1) \cup Done \subseteq schema \cup work

\* Before any incident there is nothing but what revisions make or look for.
Upper ==
    ~history.early /\ ~history.cut =>
        /\ upgrade = Idle \/ Late => schema \subseteq Most(stamp)
        /\ upgrade # Idle => schema \cup work \subseteq Most(upgrade.at - 1) \cup Done

Explained == history.failed # 0 => history.early \/ history.cut

\* A worker that has met nobody starts alone.
Alone ==
    \A s \in Server : Starting(s) /\ s \notin history.met =>
        upgrade = Idle /\ \A t \in Server : Starting(t) => t = s

Upgrading == HistoryType /\ UpgradeType /\ Lower /\ Upper /\ Explained

Serving == DOMAIN server = Server /\ Alone /\ LoneStartsSucceed

StartupInv == Upgrading /\ Serving

LEMMA RevisionHas ==
    ASSUME NEW r \in 1..17
    PROVE  /\ Len(Revision[r]) \in Nat /\ DOMAIN Revision[r] = 1..Len(Revision[r])
           /\ \A k \in 1..Len(Revision[r]) :
                Revision[r][k].part \in Parts(r) /\ (Revision[r][k].guarded <=> r > 13)
           /\ \A p \in Parts(r) : \E k \in 1..Len(Revision[r]) : p = Revision[r][k].part
<1>1. PICK q : q = Revision[r]
  OBVIOUS
<1>2. q \in Seq(St) /\ Parts(r) = {q[k].part : k \in 1..Len(q)}
      /\ \A k \in 1..Len(q) : q[k].guarded <=> r > 13
  <2>1. Ready(r)
    BY RevisionsReady
  <2> QED BY <1>1, <2>1 DEF Ready
<1>3. Len(q) \in Nat /\ DOMAIN q = 1..Len(q)
  BY <1>2
<1> QED BY <1>1, <1>2, <1>3

LEMMA DoneIs ==
    ASSUME UpgradeType, upgrade # Idle
    PROVE  /\ Done \subseteq Parts(upgrade.at)
           /\ upgrade.next = 1 => Done = {}
           /\ ~UnderWay => Done = Parts(upgrade.at)
<1>1. PICK r, n : r = upgrade.at /\ n = upgrade.next
  OBVIOUS
<1>2. r \in 1..17 /\ n \in 1..(Len(Revision[r]) + 1)
  BY <1>1 DEF UpgradeType
<1>3. Done = {Revision[r][k].part : k \in 1..(n - 1)}
  BY <1>1 DEF Done
<1>4. Len(Revision[r]) \in Nat
      /\ (\A k \in 1..Len(Revision[r]) : Revision[r][k].part \in Parts(r))
      /\ \A p \in Parts(r) : \E k \in 1..Len(Revision[r]) : p = Revision[r][k].part
  BY <1>2, RevisionHas
<1>5. Done \subseteq Parts(r)
  <2>1. \A k \in 1..(n - 1) : k \in 1..Len(Revision[r])
    BY <1>2, <1>4
  <2> QED BY <1>3, <1>4, <2>1
<1>6. n = 1 => Done = {}
  <2>1. n = 1 => \A k \in 1..(n - 1) : FALSE
    BY <1>2
  <2> QED BY <1>3, <2>1
<1>7. ASSUME ~UnderWay PROVE Done = Parts(r)
  <2>1. ~(n <= Len(Revision[r]))
    BY <1>1, <1>7 DEF UnderWay
  <2>2. n - 1 = Len(Revision[r])
    BY <1>2, <1>4, <2>1
  <2> QED BY <1>3, <1>4, <1>5, <2>2
<1> QED BY <1>1, <1>5, <1>6, <1>7

LEMMA UnderWayIs ==
    ASSUME UpgradeType, UnderWay
    PROVE  /\ upgrade # Idle /\ upgrade.at \in 1..17
           /\ upgrade.next \in 1..Len(Revision[upgrade.at])
           /\ Len(Revision[upgrade.at]) \in Nat
           /\ Current.part \in Parts(upgrade.at)
           /\ Current.guarded <=> upgrade.at > 13
<1>1. upgrade # Idle /\ upgrade.at \in 1..17
      /\ upgrade.next \in 1..(Len(Revision[upgrade.at]) + 1)
      /\ upgrade.next <= Len(Revision[upgrade.at])
  BY DEF UnderWay, UpgradeType
<1>2. Len(Revision[upgrade.at]) \in Nat
  BY <1>1, RevisionHas
<1>3. upgrade.next \in 1..Len(Revision[upgrade.at])
  BY <1>1, <1>2
<1> QED BY <1>1, <1>2, <1>3, RevisionHas DEF Current

LEMMA BeginUpgradeKeeps == Upgrading /\ BeginUpgrade => Upgrading'
<1> SUFFICES ASSUME Upgrading, BeginUpgrade PROVE Upgrading'
  OBVIOUS
<1>1. upgrade = Idle /\ stamp \in 0..17 /\ stamp < 17 /\ work = {}
  BY LatestIs DEF Upgrading, UpgradeType, BeginUpgrade
<1>2. upgrade' = [at |-> stamp + 1, next |-> 1] /\ stamp' = stamp /\ schema' = schema /\ work' = work
  BY DEF BeginUpgrade
<1>3. upgrade'.at = stamp + 1 /\ upgrade'.next = 1 /\ stamp + 1 \in 1..17
  BY <1>1, <1>2
<1>4. upgrade' # Idle
  <2>1. Idle.at = 0
    BY DEF Idle
  <2> QED BY <1>1, <1>3, <2>1
<1>5. history' = [history EXCEPT !.met = @ \cup StartsNow] /\ StartsNow \subseteq Server
  BY DEF BeginUpgrade, StartsNow
<1>6. HistoryType' /\ history'.legacy = history.legacy /\ history'.early = history.early
      /\ history'.cut = history.cut /\ history'.failed = history.failed
  BY <1>5 DEF Upgrading, HistoryType
<1>7. UpgradeType'
  <2>1. Len(Revision[stamp + 1]) \in Nat
    BY <1>3, RevisionHas
  <2>2. 1 \in 1..(Len(Revision[stamp + 1]) + 1)
    BY <2>1
  <2>3. upgrade' \in [at : 0..17, next : Nat]
    BY <1>2, <1>3
  <2> QED BY <1>1, <1>2, <1>3, <1>4, <2>2, <2>3 DEF UpgradeType
<1>8. Done' = {}
  <2>1. \A k \in 1..(1 - 1) : FALSE
    OBVIOUS
  <2> QED BY <1>3, <1>4, <2>1 DEF Done
<1>9. upgrade'.at - 1 = stamp
  BY <1>1, <1>3
<1>10. Lower'
  <2>1. Least(history.legacy, stamp) \subseteq schema
    BY DEF Upgrading, Lower
  <2> QED BY <1>2, <1>6, <1>8, <1>9, <2>1 DEF Lower
<1>11. Upper'
  <2>1. ~history.early /\ ~history.cut => schema \subseteq Most(stamp)
    BY <1>1 DEF Upgrading, Upper
  <2> QED BY <1>1, <1>2, <1>6, <1>8, <1>9, <2>1 DEF Upper
<1>12. Explained'
  BY <1>6 DEF Upgrading, Explained
<1> QED BY <1>6, <1>7, <1>10, <1>11, <1>12 DEF Upgrading

LEMMA ExecuteKeeps == Upgrading /\ Execute => Upgrading'
<1> SUFFICES ASSUME Upgrading, Execute PROVE Upgrading'
  OBVIOUS
<1>1. PICK r, n : r = upgrade.at /\ n = upgrade.next
  OBVIOUS
<1>2. upgrade # Idle /\ r \in 1..17 /\ n \in 1..Len(Revision[r]) /\ Len(Revision[r]) \in Nat
  BY <1>1, UnderWayIs DEF Upgrading, Execute
<1>3. upgrade \in [at : 0..17, next : Nat] /\ stamp \in 0..17 /\ stamp < r
      /\ (~history.atomic => stamp = r - 1) /\ (~Late => work = {})
  BY <1>1, <1>2 DEF Upgrading, UpgradeType
<1>4. upgrade' = [upgrade EXCEPT !.next = @ + 1] /\ stamp' = stamp /\ history' = history
  BY DEF Execute
<1>5. upgrade' \in [at : 0..17, next : Nat] /\ upgrade'.at = r /\ upgrade'.next = n + 1
  BY <1>1, <1>3, <1>4
<1>6. upgrade' # Idle
  <2>1. Idle.at = 0
    BY DEF Idle
  <2> QED BY <1>2, <1>5, <2>1
<1>7. PICK c : c = Current.part
  OBVIOUS
<1>8. /\ schema' \cup work' = schema \cup work \cup {c} /\ schema \subseteq schema'
      /\ Late => schema' = schema
      /\ ~Late => work' = work
  <2>1. Late <=> (history.atomic \/ upgrade.at = 12)
    BY DEF Late
  <2>2. Skipped => c \in schema \cup work
    BY <1>7 DEF Skipped
  <2>3. PICK new : new = IF Skipped THEN {} ELSE {c}
    OBVIOUS
  <2>4. /\ work' = IF Late THEN work \cup new ELSE work
        /\ schema' = IF Late THEN schema ELSE schema \cup new
    BY <1>7, <2>1, <2>3 DEF Execute
  <2> QED BY <2>2, <2>3, <2>4
<1>9. Late' <=> Late
  BY <1>1, <1>4, <1>5 DEF Late
<1>10. Done' = Done \cup {c}
  <2>1. Done = {Revision[r][k].part : k \in 1..(n - 1)}
    BY <1>1, <1>2 DEF Done
  <2>2. Done' = {Revision[r][k].part : k \in 1..((n + 1) - 1)}
    BY <1>5, <1>6 DEF Done
  <2>3. c = Revision[r][n].part
    BY <1>1, <1>7 DEF Current
  <2>4. \A k : k \in 1..((n + 1) - 1) <=> k \in 1..(n - 1) \/ k = n
    BY <1>2
  <2> QED BY <2>1, <2>2, <2>3, <2>4
<1>11. UpgradeType'
  <2>1. n + 1 \in 1..(Len(Revision[r]) + 1)
    BY <1>2
  <2>2. ~Late' => work' = {}
    BY <1>3, <1>8, <1>9
  <2> QED BY <1>2, <1>3, <1>4, <1>5, <1>6, <2>1, <2>2 DEF UpgradeType
<1>12. Lower'
  <2>1. Least(history.legacy, stamp) \subseteq schema
        /\ Least(history.legacy, r - 1) \cup Done \subseteq schema \cup work
    BY <1>1, <1>2 DEF Upgrading, Lower
  <2> QED BY <1>4, <1>5, <1>8, <1>10, <2>1 DEF Lower
<1>13. Upper'
  <2>1. ~history.early /\ ~history.cut =>
          (Late => schema \subseteq Most(stamp)) /\ schema \cup work \subseteq Most(r - 1) \cup Done
    BY <1>1, <1>2 DEF Upgrading, Upper
  <2> QED BY <1>4, <1>5, <1>6, <1>8, <1>9, <1>10, <2>1 DEF Upper
<1>14. HistoryType' /\ Explained'
  BY <1>4 DEF Upgrading, HistoryType, Explained
<1> QED BY <1>11, <1>12, <1>13, <1>14 DEF Upgrading

LEMMA StampKeeps == Upgrading /\ Stamp => Upgrading'
<1> SUFFICES ASSUME Upgrading, Stamp PROVE Upgrading'
  OBVIOUS
<1>1. PICK r : r = upgrade.at
  OBVIOUS
<1>2. upgrade # Idle /\ ~UnderWay /\ r \in 1..17
  BY <1>1 DEF Upgrading, UpgradeType, Stamp
<1>3. stamp \in 0..17 /\ stamp < r /\ (~history.atomic => stamp = r - 1) /\ (~Late => work = {})
  BY <1>1, <1>2 DEF Upgrading, UpgradeType
<1>4. Done = Parts(r)
  BY <1>1, <1>2, DoneIs DEF Upgrading
<1>5. PICK legacy \in BOOLEAN : legacy = history.legacy
  BY DEF Upgrading, HistoryType
<1>6. /\ Least(legacy, r) \subseteq Least(legacy, r - 1) \cup Parts(r)
      /\ Migrated[r] = Migrated[r - 1] \cup Parts(r)
  BY <1>2, <1>5, LeastStep, MigratedStep
<1>7. Least(legacy, stamp) \subseteq schema /\ Least(legacy, r) \subseteq schema \cup work
  <2>1. Least(legacy, stamp) \subseteq schema
        /\ Least(legacy, r - 1) \cup Done \subseteq schema \cup work
    BY <1>1, <1>2, <1>5 DEF Upgrading, Lower
  <2> QED BY <1>4, <1>6, <2>1
<1>8. ~history.early /\ ~history.cut =>
        (Late => schema \subseteq Most(stamp)) /\ schema \cup work \subseteq Most(r)
  <2>1. ~history.early /\ ~history.cut =>
          (Late => schema \subseteq Most(stamp)) /\ schema \cup work \subseteq Most(r - 1) \cup Done
    BY <1>1, <1>2 DEF Upgrading, Upper
  <2> QED BY <1>4, <1>6, <2>1 DEF Most
<1>9. HistoryType' /\ Explained' /\ history' = history
  BY DEF Stamp, Upgrading, HistoryType, Explained
<1>10. PICK last, commits \in BOOLEAN :
         (last <=> r = 17) /\ (commits <=> (last \/ ~history.atomic))
  OBVIOUS
<1>11. /\ upgrade' = IF last THEN Idle ELSE [at |-> r + 1, next |-> 1]
       /\ stamp' = IF commits THEN r ELSE stamp
       /\ schema' = IF commits THEN schema \cup work ELSE schema
       /\ work' = IF commits THEN {} ELSE work
  BY <1>1, <1>10, LatestIs DEF Stamp
<1>12. CASE last
  <2>1. r = 17 /\ upgrade' = Idle /\ stamp' = 17 /\ schema' = schema \cup work /\ work' = {}
    BY <1>10, <1>11, <1>12
  <2>2. UpgradeType'
    BY <2>1 DEF UpgradeType, Idle
  <2>3. Lower' /\ Upper'
    BY <1>5, <1>7, <1>8, <1>9, <2>1 DEF Lower, Upper
  <2> QED BY <1>9, <2>2, <2>3 DEF Upgrading
<1>13. CASE ~last
  <2>1. r \in 1..16 /\ r + 1 \in 1..17 /\ (r + 1) - 1 = r
        /\ upgrade' = [at |-> r + 1, next |-> 1]
    BY <1>2, <1>10, <1>11, <1>13
  <2>2. upgrade'.at = r + 1 /\ upgrade'.next = 1 /\ upgrade' \in [at : 0..17, next : Nat]
    BY <2>1
  <2>3. upgrade' # Idle
    <3>1. Idle.at = 0
      BY DEF Idle
    <3> QED BY <2>1, <2>2, <3>1
  <2>4. Done' = {}
    <3>1. \A k \in 1..(1 - 1) : FALSE
      OBVIOUS
    <3> QED BY <2>2, <2>3, <3>1 DEF Done
  <2>5. schema' \cup work' = schema \cup work
        /\ (commits => stamp' = r /\ schema' = schema \cup work /\ work' = {})
        /\ (~commits => stamp' = stamp /\ schema' = schema /\ work' = work /\ history.atomic)
    BY <1>10, <1>11
  <2>6. UpgradeType'
    <3>1. Len(Revision[r + 1]) \in Nat
      BY <2>1, RevisionHas
    <3>2. 1 \in 1..(Len(Revision[r + 1]) + 1)
      BY <3>1
    <3>3. stamp' \in 0..17 /\ stamp' < r + 1 /\ (~history.atomic => stamp' = (r + 1) - 1)
      BY <1>2, <1>3, <1>10, <1>13, <2>1, <2>5
    <3>4. ~Late' => work' = {}
      <4>1. history.atomic => Late'
        BY <1>9 DEF Late
      <4> QED BY <2>5, <4>1
    <3> QED BY <1>9, <2>1, <2>2, <2>3, <3>2, <3>3, <3>4 DEF UpgradeType
  <2>7. Lower'
    <3>1. Least(legacy, stamp') \subseteq schema'
      BY <1>7, <2>5
    <3>2. Least(legacy, r) \subseteq schema' \cup work'
      BY <1>7, <2>5
    <3> QED BY <1>5, <1>9, <2>1, <2>2, <2>4, <3>1, <3>2 DEF Lower
  <2>8. Upper'
    <3>1. ~history.early /\ ~history.cut => schema' \subseteq Most(stamp')
      <4>1. history.atomic => Late
        BY DEF Late
      <4> QED BY <1>8, <2>5, <4>1
    <3>2. ~history.early /\ ~history.cut => schema' \cup work' \subseteq Most(r)
      BY <1>8, <2>5
    <3> QED BY <1>9, <2>1, <2>2, <2>4, <3>1, <3>2 DEF Upper
  <2> QED BY <1>9, <2>6, <2>7, <2>8 DEF Upgrading
<1> QED BY <1>12, <1>13

\* What an abandoned upgrade leaves, if nothing was cut.
LEMMA AbandonKeeps ==
    ASSUME Upgrading, upgrade # Idle, Abandon, HistoryType', Explained',
           history'.legacy = history.legacy, history'.early = history.early,
           ~history'.cut => ~history.cut /\ ~Partial
    PROVE  Upgrading'
<1>1. PICK r : r = upgrade.at
  OBVIOUS
<1>2. /\ r \in 1..17 /\ upgrade.next \in 1..(Len(Revision[r]) + 1) /\ stamp \in 0..17
      /\ (~history.atomic => stamp = r - 1) /\ (~Late => work = {})
  BY <1>1 DEF Upgrading, UpgradeType
<1>3. upgrade' = Idle /\ work' = {} /\ schema' = schema /\ stamp' = stamp
  BY DEF Abandon
<1>4. UpgradeType'
  BY <1>2, <1>3 DEF UpgradeType, Idle
<1>5. Lower'
  BY <1>3 DEF Upgrading, Lower
<1>6. ASSUME ~history.early, ~history.cut, ~Partial PROVE schema \subseteq Most(stamp)
  <2>1. CASE Late
    BY <1>6, <2>1 DEF Upgrading, Upper
  <2>2. CASE ~Late
    <3>1. ~history.atomic /\ r # 12 /\ stamp = r - 1
      BY <1>1, <1>2, <2>2 DEF Late
    <3>2. schema \subseteq Most(r - 1) \cup Done
      BY <1>1, <1>6 DEF Upgrading, Upper
    <3>3. Done \subseteq Most(r - 1)
      <4>1. CASE upgrade.next = 1
        BY <4>1, DoneIs DEF Upgrading
      <4>2. CASE upgrade.next # 1
        <5>0. Len(Revision[r]) \in Nat
          BY <1>2, RevisionHas
        <5>1. upgrade.next > 1 /\ 1 \in 1..Len(Revision[r])
          BY <1>2, <4>2, <5>0
        <5>2. Revision[r][1].guarded
          <6>1. 1 \in DOMAIN Revision[r]
            BY <1>2, <5>1, RevisionHas
          <6> QED BY <1>1, <1>6, <3>1, <5>1, <6>1 DEF Partial
        <5>3. r > 13
          BY <1>2, <5>1, <5>2, RevisionHas
        <5>4. r \in {14, 15, 16, 17}
          BY <1>2, <5>3
        <5>5. Done \subseteq Parts(r)
          BY <1>1, DoneIs DEF Upgrading
        <5>6. CASE r = 15
          <6>1. 14 \in 0..17 /\ 13 \in 1..14
            OBVIOUS
          <6>2. Parts(13) \subseteq Migrated[14]
            BY <6>1, MigratedIs
          <6> QED BY <5>5, <5>6, <6>2, RepairIsSame DEF Most
        <5>7. CASE r # 15
          BY <5>4, <5>5, <5>7 DEF Most, Lookup
        <5> QED BY <5>6, <5>7
      <4> QED BY <4>1, <4>2
    <3> QED BY <3>1, <3>2, <3>3
  <2> QED BY <2>1, <2>2
<1>7. Upper'
  BY <1>3, <1>6 DEF Upper
<1> QED BY <1>4, <1>5, <1>7 DEF Upgrading

LEMMA KillUpgradeKeeps == Upgrading /\ KillUpgrade => Upgrading'
<1> SUFFICES ASSUME Upgrading, KillUpgrade PROVE Upgrading'
  OBVIOUS
<1>1. upgrade # Idle /\ Abandon
  BY DEF KillUpgrade
<1>2. PICK c \in BOOLEAN : c <=> history.cut \/ Partial
  OBVIOUS
<1>3. history' = [history EXCEPT !.cut = c]
  <2>1. (history.cut \/ Partial) = c
    BY <1>2 DEF Partial
  <2> QED BY <2>1 DEF KillUpgrade
<1>4. HistoryType' /\ history'.legacy = history.legacy /\ history'.early = history.early
      /\ history'.cut = c /\ history'.failed = history.failed
  BY <1>3 DEF Upgrading, HistoryType
<1>5. Explained'
  BY <1>2, <1>4 DEF Upgrading, Explained
<1> QED BY <1>1, <1>2, <1>4, <1>5, AbandonKeeps

\* A statement that fails is not one of those that look first, and finds its part
\* left by an incident.
LEMMA FailureHasCause ==
    ASSUME Upgrading, UnderWay, Fails
    PROVE  upgrade.at \in 1..13 /\ (history.early \/ history.cut)
<1>1. PICK r, n, q : r = upgrade.at /\ n = upgrade.next /\ q = Revision[r]
  OBVIOUS
<1>2. /\ upgrade # Idle /\ r \in 1..17 /\ n \in 1..Len(q) /\ Len(q) \in Nat
      /\ Current = q[n] /\ q[n].part \in Parts(r) /\ (q[n].guarded <=> r > 13)
  BY <1>1, UnderWayIs DEF Upgrading, Current
<1>3. PICK legacy \in BOOLEAN : legacy = history.legacy
  BY DEF Upgrading, HistoryType
<1>4. Least(legacy, r - 1) \cup Done \subseteq schema \cup work
  BY <1>1, <1>2, <1>3 DEF Upgrading, Lower
<1>5. Done = {q[k].part : k \in 1..(n - 1)}
  BY <1>1, <1>2 DEF Done
<1>6. /\ \A j, k \in 1..Len(q) : q[j].part = q[k].part => j = k
      /\ \A k \in 1..Len(q) :
          \/ q[k].part[2] = "table"
          \/ TableOf(q[k].part) \in Bases(r)
          \/ \E j \in 1..(k - 1) : q[j].part = TableOf(q[k].part)
  <2>1. Ready(r)
    BY <1>2, RevisionsReady
  <2> QED BY <1>1, <2>1 DEF Ready
<1>7. q[n].part[2] = "table" \/ TableOf(q[n].part) \in schema \cup work
  <2>1. CASE TableOf(q[n].part) \in Bases(r)
    BY <1>2, <1>3, <1>4, <2>1, LeastBases
  <2>2. CASE \E j \in 1..(n - 1) : q[j].part = TableOf(q[n].part)
    BY <1>4, <1>5, <2>2
  <2> QED BY <1>2, <1>6, <2>1, <2>2
<1>8. ~q[n].guarded /\ q[n].part \in schema \cup work
  BY <1>2, <1>7 DEF Fails, TableOf
<1>9. r \in 1..13
  BY <1>2, <1>8
<1>10. ASSUME ~history.early, ~history.cut PROVE FALSE
  <2>1. schema \cup work \subseteq Most(r - 1) \cup Done
    BY <1>1, <1>2, <1>10 DEF Upgrading, Upper
  <2>2. q[n].part \notin Most(r - 1)
    BY <1>2, <1>9, NotThere
  <2>3. PICK k \in 1..(n - 1) : q[k].part = q[n].part
    BY <1>5, <1>8, <2>1, <2>2
  <2>4. k \in 1..Len(q) /\ k # n
    BY <1>2, <2>3
  <2> QED BY <1>2, <1>6, <2>3, <2>4
<1> QED BY <1>1, <1>9, <1>10

LEMMA FailUpgradeKeeps == Upgrading /\ FailUpgrade => Upgrading'
<1> SUFFICES ASSUME Upgrading, FailUpgrade PROVE Upgrading'
  OBVIOUS
<1>1. UnderWay /\ Fails /\ upgrade # Idle /\ Abandon
  BY DEF FailUpgrade, UnderWay
<1>2. PICK c \in BOOLEAN : c <=> history.cut \/ Partial
  OBVIOUS
<1>3. upgrade.at \in 1..13 /\ (history.early \/ history.cut)
  BY <1>1, FailureHasCause
<1>4. PICK r \in 1..13 : r = upgrade.at
  BY <1>3
<1>7. history' = [history EXCEPT !.failed = r, !.cut = c]
  <2>1. (history.cut \/ Partial) = c
    BY <1>2 DEF Partial
  <2> QED BY <1>4, <2>1 DEF FailUpgrade
<1>8. r \in 0..13
  OBVIOUS
<1>5. HistoryType' /\ history'.legacy = history.legacy /\ history'.early = history.early
      /\ history'.cut = c
  BY <1>7, <1>8 DEF Upgrading, HistoryType
<1>6. Explained'
  BY <1>2, <1>3, <1>5 DEF Explained
<1> QED BY <1>1, <1>2, <1>5, <1>6, AbandonKeeps

LEMMA DowngradeKeeps == Upgrading /\ Downgrade => Upgrading'
<1> SUFFICES ASSUME Upgrading, Downgrade PROVE Upgrading'
  OBVIOUS
<1>1. upgrade = Idle /\ ~history.early /\ ~history.cut /\ stamp \in 1..17
  BY DEF Downgrade, Upgrading, UpgradeType
<1>2. /\ schema' = schema \ Dropped(stamp) /\ stamp' = stamp - 1 /\ stamp' \in 0..17
      /\ upgrade' = Idle /\ work' = work /\ history' = history
  BY <1>1 DEF Downgrade
<1>3. PICK legacy \in BOOLEAN : legacy = history.legacy
  BY DEF Upgrading, HistoryType
<1>4. UpgradeType'
  BY <1>1, <1>2 DEF Upgrading, UpgradeType
<1>5. Least(legacy, stamp) \subseteq schema /\ schema \subseteq Most(stamp)
  BY <1>1, <1>3 DEF Upgrading, Lower, Upper
<1>6. Least(legacy, stamp - 1) \subseteq Least(legacy, stamp)
      /\ Least(legacy, stamp - 1) \subseteq Migrated[stamp - 1]
  <2>1. stamp - 1 \in 0..17
    BY <1>1
  <2> QED BY <1>1, <2>1, LeastStep, LeastBelow
<1>7. Lower'
  <2>1. ASSUME NEW p \in Least(legacy, stamp - 1) PROVE p \notin Dropped(stamp)
    <3>1. CASE stamp = 15
      BY <3>1 DEF Dropped
    <3>2. CASE stamp # 15
      <4>1. p \notin Parts(stamp) /\ TableOf(p) \notin Parts(stamp)
        BY <1>1, <1>6, <2>1, <3>2, DroppedKeeps
      <4> QED BY <3>2, <4>1 DEF Dropped, TableOf
    <3> QED BY <3>1, <3>2
  <2>2. Least(legacy, stamp - 1) \subseteq schema'
    BY <1>2, <1>5, <1>6, <2>1
  <2> QED BY <1>2, <1>3, <2>2 DEF Lower
<1>8. Upper'
  <2>1. Migrated[stamp] = Migrated[stamp - 1] \cup Parts(stamp)
    BY <1>1, MigratedStep
  <2>2. CASE stamp = 15
    <3>1. 14 \in 0..17 /\ 13 \in 1..14 /\ stamp - 1 = 14
      BY <2>2
    <3>2. Parts(13) \subseteq Migrated[14]
      BY <3>1, MigratedIs
    <3>3. schema' \subseteq Most(14)
      BY <1>2, <1>5, <2>1, <2>2, <3>1, <3>2, RepairIsSame DEF Most
    <3> QED BY <1>2, <3>1, <3>3 DEF Upper
  <2>3. CASE stamp # 15
    <3>1. schema' \cap Parts(stamp) = {}
      BY <1>2, <2>3 DEF Dropped
    <3>2. schema' \subseteq Most(stamp - 1)
      BY <1>2, <1>5, <2>1, <3>1 DEF Most
    <3> QED BY <1>2, <3>2 DEF Upper
  <2> QED BY <2>2, <2>3
<1>9. HistoryType' /\ Explained'
  BY <1>2 DEF Upgrading, HistoryType, Explained
<1> QED BY <1>4, <1>7, <1>8, <1>9 DEF Upgrading

\* A worker that starts before revision 13 creates a table that a revision creates
\* without looking; the others are tables that revisions look for.
LEMMA CreateTablesKeeps ==
    ASSUME Upgrading, NEW s \in Server, NEW n, CreateTables(s, n)
    PROVE  Upgrading'
<1>1. PICK made : made = {t \in server[s].missing : \E i \in 1..n : CreationOrder[i].part[1] = t}
  OBVIOUS
<1>2. PICK e \in BOOLEAN : e <=> (history.early \/ made \cap Unguarded # {})
  OBVIOUS
<1>3. /\ schema' = schema \cup {p \in Orm : p[1] \in made}
      /\ stamp' = stamp /\ work' = work /\ upgrade' = upgrade
  BY <1>1 DEF CreateTables
<1>4. history' = [history EXCEPT !.early = e]
  <2>1. (history.early \/ made \cap Unguarded # {}) = e
    BY <1>2
  <2>2. history' = [history EXCEPT !.early = history.early \/ made \cap Unguarded # {}]
    BY <1>1 DEF CreateTables
  <2> QED BY <2>1, <2>2
<1>5. /\ HistoryType' /\ history'.legacy = history.legacy /\ history'.cut = history.cut
      /\ history'.early = e /\ history'.atomic = history.atomic /\ history'.failed = history.failed
  BY <1>4 DEF Upgrading, HistoryType
<1>6. (Late' <=> Late) /\ Done' = Done
  BY <1>3, <1>5 DEF Late, Done
<1>7. UpgradeType'
  BY <1>3, <1>5, <1>6 DEF Upgrading, UpgradeType
<1>8. Lower'
  BY <1>3, <1>5, <1>6 DEF Upgrading, Lower
<1>9. ASSUME ~e, NEW p \in Orm, p[1] \in made PROVE p \in Lookup
  <2>1. PICK r \in 1..17 : TableOf(p) \in Parts(r) /\ (r < 14 \/ p \in Parts(16) \cup Parts(17))
    BY <1>9, OrmIs DEF OrmPart
  <2>2. p[1] \notin Unguarded
    BY <1>2, <1>9
  <2>3. ~(r < 14)
    <3> SUFFICES ASSUME r < 14 PROVE FALSE
      OBVIOUS
    <3>1. r \in 1..13
      OBVIOUS
    <3> QED BY <2>1, <2>2, <3>1, PlainTables
  <2> QED BY <2>1, <2>3 DEF Lookup
<1>10. Upper'
  <2>1. ~e => ~history.early
    BY <1>2
  <2>2. ~e => schema' \subseteq schema \cup Lookup
    BY <1>3, <1>9
  <2> QED BY <1>3, <1>5, <1>6, <2>1, <2>2 DEF Upgrading, Upper, Most
<1>11. Explained'
  BY <1>2, <1>5 DEF Upgrading, Explained
<1> QED BY <1>5, <1>7, <1>8, <1>10, <1>11 DEF Upgrading

LEMMA RestKeepsUpgrading ==
    ASSUME Upgrading, UNCHANGED <<schema, stamp, work, upgrade>>, HistoryType',
           history'.legacy = history.legacy, history'.atomic = history.atomic,
           history'.early = history.early, history'.cut = history.cut,
           history'.failed = history.failed
    PROVE  Upgrading'
<1>1. (Late' <=> Late) /\ Done' = Done
  BY DEF Late, Done
<1> QED BY <1>1 DEF Upgrading, UpgradeType, Lower, Upper, Explained

LEMMA BeginStartKeeps ==
    ASSUME Upgrading, Serving, NEW s \in Server, BeginStart(s)
    PROVE  Upgrading' /\ Serving'
<1>1. PICK met : met = IF StartsNow # {} \/ upgrade # Idle
                       THEN history.met \cup StartsNow \cup {s} ELSE history.met \ {s}
  OBVIOUS
<1>2. history' = [history EXCEPT !.met = met]
  BY <1>1 DEF BeginStart
<1>3. history.met \subseteq Server /\ met \subseteq Server
  BY <1>1 DEF Upgrading, HistoryType, StartsNow
<1>4. /\ HistoryType' /\ history'.met = met /\ history'.legacy = history.legacy
      /\ history'.atomic = history.atomic /\ history'.early = history.early
      /\ history'.cut = history.cut /\ history'.failed = history.failed
  BY <1>2, <1>3 DEF Upgrading, HistoryType
<1>5. UNCHANGED <<schema, stamp, work, upgrade, name, rows>>
  BY DEF BeginStart
<1>6. Upgrading'
  BY <1>4, <1>5, RestKeepsUpgrading
<1>7. server' = [server EXCEPT ![s] = [step |-> "tables", missing |-> Missing]]
      /\ DOMAIN server = Server
  BY DEF BeginStart, Serving
<1>8. DOMAIN server' = Server /\ server'[s] = [step |-> "tables", missing |-> Missing]
      /\ \A t \in Server : t # s => server'[t] = server[t]
  BY <1>7
<1>9. server'[s].step = "tables" /\ server'[s].missing = Missing
  BY <1>8
<1>10. ~Starting(s)
  BY DEF BeginStart, Starting, Down
<1>11. \A t \in Server : t # s => (Starting(t)' <=> Starting(t))
  BY <1>8 DEF Starting
<1>12. \A t \in Server : t \in StartsNow <=> Starting(t)
  BY DEF StartsNow
<1>13. Alone'
  <2>1. SUFFICES ASSUME NEW t \in Server, Starting(t)', t \notin met
                 PROVE upgrade = Idle /\ \A u \in Server : Starting(u)' => u = t
    BY <1>4, <1>5 DEF Alone
  <2>2. CASE StartsNow # {} \/ upgrade # Idle
    BY <1>1, <1>11, <1>12, <2>1, <2>2
  <2>3. CASE ~(StartsNow # {} \/ upgrade # Idle)
    <3>1. \A u \in Server : Starting(u)' => u = s
      BY <1>11, <1>12, <2>3
    <3> QED BY <2>1, <2>3, <3>1
  <2> QED BY <2>2, <2>3
<1>14. LoneStartsSucceed'
  <2>1. SUFFICES ASSUME NEW t \in Server, t \notin met
                 PROVE /\ server'[t].step = "tables" => server'[t].missing \cap Present' = {}
                       /\ server'[t].step = "insert user" => ~rows'.user
                       /\ server'[t].step = "insert organization" => name' \notin ToSet(rows'.orgs)
    BY <1>4 DEF LoneStartsSucceed
  <2>2. Present' = Present
    BY <1>5 DEF Present
  <2>3. CASE t = s
    <3>1. Missing \cap Present = {}
      BY DEF Missing
    <3> QED BY <1>9, <2>2, <2>3, <3>1
  <2>4. CASE t # s
    <3>1. t \notin history.met
      BY <1>1, <2>1, <2>4
    <3> QED BY <1>5, <1>8, <2>2, <2>4, <3>1 DEF Serving, LoneStartsSucceed
  <2> QED BY <2>3, <2>4
<1> QED BY <1>6, <1>8, <1>13, <1>14 DEF Serving

\* A step of a worker that is starting, to a step s' or to its end.
LEMMA OneStepKeeps ==
    ASSUME Serving, NEW s \in Server, Starting(s), NEW to,
           server' = [server EXCEPT ![s] = to], UNCHANGED <<upgrade, name>>,
           history'.met = history.met,
           to.step # "tables",
           s \notin history.met =>
               /\ to.step = "insert user" => ~rows'.user
               /\ to.step = "insert organization" => name \notin ToSet(rows'.orgs)
    PROVE  Serving'
<1>1. DOMAIN server = Server /\ Alone /\ LoneStartsSucceed
  BY DEF Serving
<1>2. DOMAIN server' = Server /\ server'[s] = to
      /\ \A t \in Server : t # s => server'[t] = server[t]
  BY <1>1
<1>3. \A t \in Server : Starting(t)' => Starting(t)
  BY <1>2 DEF Starting
<1>4. Alone'
  BY <1>1, <1>3 DEF Alone
<1>5. LoneStartsSucceed'
  <2>1. SUFFICES ASSUME NEW t \in Server, t \notin history.met
                 PROVE /\ server'[t].step = "tables" => server'[t].missing \cap Present' = {}
                       /\ server'[t].step = "insert user" => ~rows'.user
                       /\ server'[t].step = "insert organization" => name' \notin ToSet(rows'.orgs)
    BY DEF LoneStartsSucceed
  <2>2. CASE t = s
    BY <1>2, <2>1, <2>2
  <2>3. CASE t # s
    <3>1. ~Starting(t)
      BY <1>1, <2>1, <2>3 DEF Alone
    <3>2. server'[t].step \in {"down", "up"}
      BY <1>2, <2>3, <3>1 DEF Starting
    <3> QED BY <3>2
  <2> QED BY <2>2, <2>3
<1> QED BY <1>2, <1>4, <1>5 DEF Serving

LEMMA CreateTablesServes ==
    ASSUME Serving, NEW s \in Server, NEW n, HistoryType, CreateTables(s, n)
    PROVE  Serving'
<1>1. PICK to : server' = [server EXCEPT ![s] = to] /\ to \in {[step |-> "user"], Down}
  BY DEF CreateTables
<1>2. to.step \in {"user", "down"}
  BY <1>1 DEF Down
<1>3. Starting(s) /\ UNCHANGED <<upgrade, name>>
  BY DEF CreateTables, Starting
<1>4. PICK e : history' = [history EXCEPT !.early = e]
  BY DEF CreateTables
<1>5. history'.met = history.met
  BY <1>4 DEF HistoryType
<1> QED BY <1>1, <1>2, <1>3, <1>5, OneStepKeeps

LEMMA ReadUserServes ==
    ASSUME Serving, NEW s \in Server, ReadUser(s)
    PROVE  Serving'
<1>1. PICK to : to = [step |-> IF rows.user THEN "organization" ELSE "insert user"]
  OBVIOUS
<1>2. server' = [server EXCEPT ![s] = to] /\ UNCHANGED <<upgrade, name, history, rows>> /\ Starting(s)
  BY <1>1 DEF ReadUser, Starting
<1>3. to.step # "tables" /\ to.step # "insert organization" /\ (to.step = "insert user" => ~rows.user)
  BY <1>1
<1> QED BY <1>2, <1>3, OneStepKeeps

LEMMA ReadOrganizationServes ==
    ASSUME Serving, NEW s \in Server, ReadOrganization(s)
    PROVE  Serving'
<1>1. PICK to : to = [step |-> IF Known THEN "up" ELSE "insert organization"]
  OBVIOUS
<1>2. /\ server' = [server EXCEPT ![s] = to] /\ UNCHANGED <<upgrade, name, history, rows>>
      /\ Starting(s)
  BY <1>1 DEF ReadOrganization, Starting
<1>3. to.step # "tables" /\ to.step # "insert user"
      /\ (to.step = "insert organization" => name \notin ToSet(rows.orgs))
  BY <1>1 DEF Known
<1> QED BY <1>2, <1>3, OneStepKeeps

LEMMA EndServes ==
    ASSUME Serving, NEW s \in Server,
           InsertUser(s) \/ InsertOrganization(s) \/ StartFails(s)
    PROVE  Serving'
<1>1. /\ Starting(s) /\ UNCHANGED <<upgrade, name, history>>
      /\ \E to \in {[step |-> "up"], Down} : server' = [server EXCEPT ![s] = to]
  BY DEF InsertUser, InsertOrganization, StartFails, Starting
<1>2. PICK to \in {[step |-> "up"], Down} : server' = [server EXCEPT ![s] = to]
  BY <1>1
<1>3. to.step \in {"up", "down"}
  BY DEF Down
<1> QED BY <1>1, <1>2, <1>3, OneStepKeeps

\* While an upgrade is under way no worker starts that has met nobody.
LEMMA MigrateServes == Serving /\ HistoryType /\ Migrate => Serving'
<1> SUFFICES ASSUME Serving, HistoryType, Migrate PROVE Serving'
  OBVIOUS
<1>0. DOMAIN server = Server /\ Alone /\ LoneStartsSucceed
  BY DEF Serving
<1>1. UNCHANGED <<server, name>>
  BY DEF Migrate, BeginUpgrade, Execute, Stamp, FailUpgrade, KillUpgrade, Abandon, Downgrade
<1>2. ASSUME NEW s \in Server, s \notin history'.met PROVE ~Starting(s)
  <2>1. CASE BeginUpgrade
    <3>1. history'.met = history.met \cup StartsNow
      BY <2>1 DEF BeginUpgrade, HistoryType
    <3> QED BY <1>2, <3>1 DEF StartsNow
  <2>2. CASE Execute \/ Stamp \/ FailUpgrade \/ KillUpgrade
    <3>1. upgrade # Idle
      BY <2>2 DEF Execute, UnderWay, Stamp, FailUpgrade, KillUpgrade
    <3>2. history'.met = history.met
      <4>1. CASE Execute \/ Stamp
        BY <4>1 DEF Execute, Stamp
      <4>2. CASE FailUpgrade
        <5>1. PICK x, y : history' = [history EXCEPT !.failed = x, !.cut = y]
          BY <4>2 DEF FailUpgrade
        <5> QED BY <5>1 DEF HistoryType
      <4>3. CASE KillUpgrade
        <5>1. PICK y : history' = [history EXCEPT !.cut = y]
          BY <4>3 DEF KillUpgrade
        <5> QED BY <5>1 DEF HistoryType
      <4> QED BY <2>2, <4>1, <4>2, <4>3
    <3> QED BY <1>0, <1>2, <3>1, <3>2 DEF Alone
  <2>3. CASE Downgrade
    BY <2>3 DEF Downgrade, Starting, Down
  <2> QED BY <2>1, <2>2, <2>3 DEF Migrate
<1>3. \A s \in Server : s \notin history'.met => server[s].step \in {"down", "up"}
  BY <1>2 DEF Starting
<1>4. \A s \in Server : Starting(s)' <=> Starting(s)
  BY <1>1 DEF Starting
<1>5. Alone'
  BY <1>2, <1>4 DEF Alone
<1>6. LoneStartsSucceed'
  BY <1>1, <1>3 DEF LoneStartsSucceed
<1> QED BY <1>0, <1>1, <1>5, <1>6 DEF Serving

LEMMA StartupStep == StartupInv /\ [StartupNext]_startupVars => StartupInv'
<1> SUFFICES ASSUME Upgrading, Serving, [StartupNext]_startupVars PROVE Upgrading' /\ Serving'
  BY DEF StartupInv
<1>0. HistoryType
  BY DEF Upgrading
<1>1. CASE Migrate
  <2>1. Upgrading'
    BY <1>1, BeginUpgradeKeeps, ExecuteKeeps, StampKeeps, FailUpgradeKeeps, KillUpgradeKeeps,
       DowngradeKeeps DEF Migrate
  <2> QED BY <1>0, <1>1, <2>1, MigrateServes
<1>2. CASE Create(Server, Kills)
  <2>1. PICK s \in Server : \/ BeginStart(s)
                            \/ \E n \in Kills \cup {Len(CreationOrder)} : CreateTables(s, n)
                            \/ StartFails(s)
    BY <1>2 DEF Create
  <2>2. CASE BeginStart(s)
    BY <2>2, BeginStartKeeps
  <2>3. CASE \E n \in Kills \cup {Len(CreationOrder)} : CreateTables(s, n)
    BY <1>0, <2>3, CreateTablesKeeps, CreateTablesServes
  <2>4. CASE StartFails(s)
    <3>1. Upgrading'
      BY <1>0, <2>4, RestKeepsUpgrading DEF StartFails, HistoryType
    <3> QED BY <2>4, <3>1, EndServes
  <2> QED BY <2>1, <2>2, <2>3, <2>4
<1>3. CASE Settle(Server)
  <2>1. Upgrading'
    <3>1. UNCHANGED <<schema, stamp, work, upgrade, history>>
      BY <1>3 DEF Settle, ReadUser, InsertUser, ReadOrganization, InsertOrganization, Stop
    <3> QED BY <1>0, <3>1, RestKeepsUpgrading DEF HistoryType
  <2>2. CASE \E n \in Name : Stop(n)
    <3>1. /\ server' = [s \in Server |-> Down] /\ history' = history
      BY <2>2 DEF Stop
    <3>2. DOMAIN server' = Server /\ \A s \in Server : server'[s].step = "down"
      BY <3>1 DEF Down
    <3>3. \A s \in Server : ~Starting(s)'
      BY <3>2 DEF Starting
    <3>4. Alone'
      BY <3>3 DEF Alone
    <3>5. LoneStartsSucceed'
      BY <3>2 DEF LoneStartsSucceed
    <3> QED BY <2>1, <3>2, <3>4, <3>5 DEF Serving
  <2>3. CASE \E s \in Server :
               ReadUser(s) \/ InsertUser(s) \/ ReadOrganization(s) \/ InsertOrganization(s)
    <3>1. PICK s \in Server :
               ReadUser(s) \/ InsertUser(s) \/ ReadOrganization(s) \/ InsertOrganization(s)
      BY <2>3
    <3>2. CASE ReadUser(s)
      BY <2>1, <3>2, ReadUserServes
    <3>3. CASE ReadOrganization(s)
      BY <2>1, <3>3, ReadOrganizationServes
    <3>4. CASE InsertUser(s) \/ InsertOrganization(s)
      BY <2>1, <3>4, EndServes
    <3> QED BY <3>1, <3>2, <3>3, <3>4
  <2> QED BY <1>3, <2>1, <2>2, <2>3 DEF Settle
<1>4. CASE UNCHANGED startupVars
  <2>1. Upgrading'
    BY <1>0, <1>4, RestKeepsUpgrading DEF startupVars, HistoryType
  <2>2. \A s \in Server : Starting(s)' <=> Starting(s)
    BY <1>4 DEF startupVars, Starting
  <2>3. Present' = Present
    BY <1>4 DEF startupVars, Present
  <2> QED BY <1>4, <2>1, <2>2, <2>3 DEF startupVars, Serving, Alone, LoneStartsSucceed
<1> QED BY <1>1, <1>2, <1>3, <1>4 DEF StartupNext

LEMMA StartupBegins == StartupInit => StartupInv
<1> SUFFICES ASSUME StartupInit PROVE StartupInv
  OBVIOUS
<1>1. PICK legacy \in BOOLEAN : \E atomic \in BOOLEAN :
         /\ schema = IF legacy THEN Migrated[12] \cup Parts(14) ELSE {}
         /\ stamp = IF legacy THEN 13 ELSE 0
         /\ history = [legacy |-> legacy, atomic |-> atomic, early |-> FALSE, cut |-> FALSE,
                       failed |-> 0, met |-> {}]
  BY DEF StartupInit
<1>2. PICK atomic \in BOOLEAN :
         /\ schema = IF legacy THEN Migrated[12] \cup Parts(14) ELSE {}
         /\ stamp = IF legacy THEN 13 ELSE 0
         /\ history = [legacy |-> legacy, atomic |-> atomic, early |-> FALSE, cut |-> FALSE,
                       failed |-> 0, met |-> {}]
  BY <1>1
<1>3. work = {} /\ upgrade = Idle /\ server = [s \in Server |-> Down]
  BY DEF StartupInit
<1>4. HistoryType /\ history.legacy = legacy /\ history.failed = 0
  BY <1>2 DEF HistoryType
<1>5. UpgradeType
  BY <1>2, <1>3 DEF UpgradeType, Idle
<1>6. Migrated[0] = {}
  <2>1. 0 \in 0..17 /\ \A r \in 1..0 : FALSE
    OBVIOUS
  <2> QED BY <2>1, MigratedIs
<1>7. Migrated[12] \subseteq Migrated[13]
  <2>1. 13 \in 1..17 /\ 13 - 1 = 12
    OBVIOUS
  <2> QED BY <2>1, MigratedStep
<1>8. Lower /\ schema \subseteq Most(stamp)
  <2>1. CASE legacy
    BY <1>2, <1>3, <1>4, <1>7, <2>1 DEF Lower, Least, Most, Lookup
  <2>2. CASE ~legacy
    BY <1>2, <1>3, <1>4, <1>6, <2>2 DEF Lower, Least, Most
  <2> QED BY <2>1, <2>2
<1>9. Upper /\ Explained
  BY <1>3, <1>4, <1>8 DEF Upper, Explained
<1>10. DOMAIN server = Server /\ \A s \in Server : server[s].step = "down"
  BY <1>3 DEF Down
<1>11. Alone /\ LoneStartsSucceed
  BY <1>10 DEF Alone, LoneStartsSucceed, Starting
<1> QED BY <1>4, <1>5, <1>8, <1>9, <1>10, <1>11 DEF StartupInv, Upgrading, Serving

LEMMA StartupIsSound == StartupInv => StartupSound
<1> SUFFICES ASSUME StartupInv PROVE StartupSound
  OBVIOUS
<1>1. HistoryType /\ UpgradeType /\ Lower /\ Upper /\ Explained /\ LoneStartsSucceed
  BY DEF StartupInv, Upgrading, Serving
<1>2. PICK legacy \in BOOLEAN : legacy = history.legacy
  BY <1>1 DEF HistoryType
<1>3. HeadComplete
  <2> SUFFICES ASSUME stamp = 17, NEW p \in Orm PROVE p \in schema
    BY LatestIs DEF HeadComplete
  <2>1. PICK r \in 1..17 : p \in Parts(r)
    BY OrmIs DEF OrmPart
  <2>2. p \in Migrated[17]
    <3>1. 17 \in 0..17
      OBVIOUS
    <3> QED BY <2>1, <3>1, MigratedIs
  <2> QED BY <1>1, <1>2, <2>2 DEF Lower, Least
<1>4. FailuresExplained
  BY <1>1 DEF FailuresExplained, Explained, HistoryType
<1>5. RoundTrip
  <2> SUFFICES ASSUME upgrade = Idle, ~history.early, ~history.cut, history.legacy => stamp \notin 13..14
               PROVE  Migrated[stamp] \subseteq schema /\ schema \ Migrated[stamp] \subseteq Guarded
    BY DEF RoundTrip
  <2>1. Least(legacy, stamp) = Migrated[stamp]
    <3>1. legacy => stamp # 13 /\ stamp # 14
      BY <1>2
    <3> QED BY <3>1 DEF Least
  <2>2. Migrated[stamp] \subseteq schema
    BY <1>1, <1>2, <2>1 DEF Lower
  <2>3. schema \subseteq Migrated[stamp] \cup Lookup
    BY <1>1 DEF Upper, Most
  <2>4. Lookup \subseteq Guarded
    <3>1. 14 \in 14..17 /\ 16 \in 14..17 /\ 17 \in 14..17
      OBVIOUS
    <3> QED BY <3>1, LookedFor DEF Lookup
  <2> QED BY <2>2, <2>3, <2>4
<1> QED BY <1>1, <1>3, <1>4, <1>5 DEF StartupSound

\* Whichever upgrades are cut or fail and however many workers start early, under
\* every database and any names: alembic's head has every table and column of the
\* ORM, a revision fails only after an incident and never one that looks first,
\* going down undoes going up, and a worker that starts alone finds its tables and
\* its workspace as it has read them (alembic/versions, database.py init_db,
\* api.py ensure_public_workspace).
THEOREM StartupSoundHolds == StartupSpec => []StartupSound
<1>1. StartupInit => StartupInv
  BY StartupBegins
<1>2. StartupInv /\ [StartupNext]_startupVars => StartupInv'
  BY StartupStep
<1>3. StartupInv => StartupSound
  BY StartupIsSound
<1> QED BY <1>1, <1>2, <1>3, PTL DEF StartupSpec

=============================================================================
