------------------------- MODULE Decisions_proofs -------------------------
(***************************************************************************)
(* What the parts that people decide on promise, for any number of         *)
(* resources, rules, reports and providers.                                *)
(***************************************************************************)
EXTENDS Sweeps, VirtualTags, OciReports, CostContext, Timing, Rightsizing, Allocation,
    Containers, Inventory, Sums, SequenceTheorems, FiniteSetTheorems, TLAPS

-----------------------------------------------------------------------------
(* Live inventory sweeps: SweepsTrueHolds.                                 *)

\* The fields of a sweep.
Fields == {"pc", "job", "compartments", "payload", "room", "left", "region", "links", "lists",
           "attached", "seen", "rows", "loose", "stayed", "blind", "failed", "faults"}

SweepsTypeOK ==
    /\ where \in [Resource -> Compartment]
    /\ holder \in [Resource -> Compartment \cup {NoHolder}]
    /\ listing \in Seq(Resource)
    /\ sweep.pc = "idle" => sweep = NoSweep
    /\ sweep.pc # "idle" =>
         /\ DOMAIN sweep = Fields
         /\ sweep.pc \in {"regions", "region", "done"}
         /\ sweep.job \in Jobs
         /\ sweep.compartments \in SUBSET Compartment
         /\ sweep.room \in Nat
         /\ sweep.left \in SUBSET Region
         /\ sweep.links \in SUBSET (Compartment \X Volumes)
         /\ sweep.lists \in SUBSET ListCalls
         /\ sweep.attached \in SUBSET Resource
         /\ sweep.seen \in SUBSET Resource
         /\ sweep.rows \in Seq(Resource)
         /\ sweep.loose \in SUBSET Resource
         /\ sweep.stayed \in SUBSET Resource
         /\ sweep.blind \in BOOLEAN

\* What is listed within a region has its turn there only.
InTurn ==
    sweep.pc = "regions" => sweep.lists = {}

\* The rows of a sweep differ, and all are remembered as long as more can come.
RowsOnce ==
    /\ IsInjective(listing)
    /\ sweep.pc # "idle" =>
         /\ IsInjective(sweep.rows)
         /\ sweep.seen \subseteq ToSet(sweep.rows)
         /\ sweep.pc = "region" \/ (sweep.pc = "regions" /\ sweep.left # {})
              => ToSet(sweep.rows) \subseteq sweep.seen

\* What is listed and what may be added fit into the limit.
RoomFits ==
    /\ Len(listing) <= SweepLimit
    /\ sweep.pc # "idle" => Len(sweep.rows) <= sweep.room
    /\ Running => Len(listing) + sweep.room <= SweepLimit

\* Only the kubernetes sweep is repeated for other credentials.
OneSweep ==
    Running /\ sweep.job # "kubernetes" => listing = <<>>

\* What is not attached was not attached at some moment; within a region a volume that
\* always was is known as attached, or its attachment is still to be read.
LooseKnown ==
    /\ Running => Loose \subseteq sweep.loose
    /\ sweep.pc = "region" /\ sweep.job = "storage" /\ ~sweep.blind =>
         \A v \in Resource :
            KindOf[v] \in Volumes /\ RegionOf[v] = sweep.region =>
                \/ v \in sweep.loose \/ v \in sweep.attached
                \/ <<holder[v], KindOf[v]>> \in sweep.links
    /\ sweep.pc # "idle" /\ ~sweep.blind => sweep.compartments = Compartment
    /\ Running /\ sweep.job = "storage" /\ ~sweep.blind =>
         ToSet(sweep.rows) \subseteq sweep.loose

\* What a sweep should find: it stood still, in sight, and no call for it failed.
Expected ==
    {v \in sweep.stayed :
        /\ KindOf[v] \in ToSet(KindsIn(sweep.job))
        /\ where[v] \in sweep.compartments
        /\ <<RegionOf[v], <<where[v], KindOf[v]>>>> \notin sweep.failed
        /\ holder[v] = NoHolder}

\* It is found, or still to be listed, unless there is no room for it.
NoneLost ==
    Running =>
        \A v \in Expected :
            /\ v \notin sweep.attached
            /\ \/ v \in ToSet(sweep.rows)
               \/ RegionOf[v] \in sweep.left
               \/ /\ sweep.pc = "region" /\ sweep.region = RegionOf[v]
                  /\ <<where[v], KindOf[v]>> \in sweep.lists
               \/ ~Room

SweepInv ==
    /\ SweepsTypeOK /\ InTurn /\ RowsOnce /\ RoomFits /\ OneSweep /\ LooseKnown /\ NoneLost
    /\ RemovesLoose /\ SweepComplete

-----------------------------------------------------------------------------
(* Sequences of rows.                                                      *)

LEMMA SetToSeqIs ==
  ASSUME NEW S, IsFiniteSet(S)
  PROVE  /\ SetToSeq(S) \in Seq(S) /\ Len(SetToSeq(S)) = Cardinality(S)
         /\ DOMAIN SetToSeq(S) = 1..Cardinality(S)
         /\ IsInjective(SetToSeq(S)) /\ ToSet(SetToSeq(S)) = S /\ Cardinality(S) \in Nat
<1>1. Cardinality(S) \in Nat /\ ExistsBijection(1..Cardinality(S), S)
  BY FS_CardinalityType
<1>2. PICK n \in Nat : n = Cardinality(S)
  BY <1>1
<1>3. \E f \in [1..n -> S] : IsInjective(f)
  BY <1>1, <1>2 DEF ExistsBijection, Bijection, Injection
<1>4. PICK f : f = SetToSeq(S)
  OBVIOUS
<1>5. f \in [1..n -> S] /\ IsInjective(f)
  BY <1>2, <1>3, <1>4 DEF SetToSeq
<1>6. f \in Surjection(1..n, S)
  <2>1. f \in Injection(1..n, S)
    BY <1>5 DEF Injection
  <2>2. Cardinality(1..n) = n
    BY FS_Interval
  <2> QED BY <1>2, <2>1, <2>2, FS_Injection
<1>7. f \in Seq(S) /\ Len(f) = n /\ DOMAIN f = 1..n
  BY <1>5
<1>8. ToSet(f) = S
  BY <1>5, <1>6 DEF Surjection, ToSet
<1> QED BY <1>2, <1>4, <1>5, <1>7, <1>8

LEMMA Joined ==
  ASSUME NEW X, NEW s \in Seq(X), NEW r \in Seq(X)
  PROVE  /\ s \o r \in Seq(X) /\ Len(s \o r) = Len(s) + Len(r)
         /\ ToSet(s \o r) = ToSet(s) \cup ToSet(r)
         /\ IsInjective(s) /\ IsInjective(r) /\ ToSet(s) \cap ToSet(r) = {} => IsInjective(s \o r)
<1>1. s \o r \in Seq(X) /\ Len(s \o r) = Len(s) + Len(r)
  OBVIOUS
<1>2. /\ DOMAIN s = 1..Len(s) /\ DOMAIN r = 1..Len(r) /\ Len(s) \in Nat /\ Len(r) \in Nat
      /\ DOMAIN (s \o r) = 1..(Len(s) + Len(r))
  OBVIOUS
<1>3. \A i \in 1..Len(s) : (s \o r)[i] = s[i]
  OBVIOUS
<1>4. \A i \in 1..Len(r) : (s \o r)[Len(s) + i] = r[i]
  OBVIOUS
<1>5. \A i \in (1..(Len(s) + Len(r))) \ (1..Len(s)) : i - Len(s) \in 1..Len(r) /\ (s \o r)[i] = r[i - Len(s)]
  BY <1>2
<1>6. ToSet(s \o r) = ToSet(s) \cup ToSet(r)
  <2>1. ASSUME NEW x \in ToSet(s \o r) PROVE x \in ToSet(s) \cup ToSet(r)
    <3>1. PICK i \in 1..(Len(s) + Len(r)) : x = (s \o r)[i]
      BY <1>2 DEF ToSet
    <3>2. CASE i \in 1..Len(s)
      BY <1>2, <1>3, <3>1, <3>2 DEF ToSet
    <3>3. CASE i \notin 1..Len(s)
      BY <1>2, <1>5, <3>1, <3>3 DEF ToSet
    <3> QED BY <3>2, <3>3
  <2>2. ASSUME NEW x \in ToSet(s) PROVE x \in ToSet(s \o r)
    <3>1. PICK i \in 1..Len(s) : x = s[i]
      BY <1>2 DEF ToSet
    <3>2. i \in 1..(Len(s) + Len(r)) /\ (s \o r)[i] = x
      BY <1>2, <1>3, <3>1
    <3> QED BY <1>2, <3>2 DEF ToSet
  <2>3. ASSUME NEW x \in ToSet(r) PROVE x \in ToSet(s \o r)
    <3>1. PICK i \in 1..Len(r) : x = r[i]
      BY <1>2 DEF ToSet
    <3>2. Len(s) + i \in 1..(Len(s) + Len(r)) /\ (s \o r)[Len(s) + i] = x
      BY <1>2, <1>4, <3>1
    <3> QED BY <1>2, <3>2 DEF ToSet
  <2> QED BY <2>1, <2>2, <2>3
<1>7. ASSUME IsInjective(s), IsInjective(r), ToSet(s) \cap ToSet(r) = {}
      PROVE  IsInjective(s \o r)
  <2> SUFFICES ASSUME NEW i \in 1..(Len(s) + Len(r)), NEW j \in 1..(Len(s) + Len(r)),
                      (s \o r)[i] = (s \o r)[j]
               PROVE  i = j
    BY <1>2 DEF IsInjective
  <2>1. CASE i \in 1..Len(s) /\ j \in 1..Len(s)
    BY <1>2, <1>3, <1>7, <2>1 DEF IsInjective
  <2>2. CASE i \notin 1..Len(s) /\ j \notin 1..Len(s)
    <3>1. i - Len(s) = j - Len(s)
      BY <1>2, <1>5, <1>7, <2>2 DEF IsInjective
    <3> QED BY <1>2, <3>1
  <2>3. CASE i \in 1..Len(s) /\ j \notin 1..Len(s)
    <3>1. s[i] \in ToSet(s) /\ r[j - Len(s)] \in ToSet(r)
      BY <1>2, <1>5, <2>3 DEF ToSet
    <3> QED BY <1>3, <1>5, <1>7, <2>3, <3>1
  <2>4. CASE i \notin 1..Len(s) /\ j \in 1..Len(s)
    <3>1. s[j] \in ToSet(s) /\ r[i - Len(s)] \in ToSet(r)
      BY <1>2, <1>5, <2>4 DEF ToSet
    <3> QED BY <1>3, <1>5, <1>7, <2>4, <3>1
  <2> QED BY <2>1, <2>2, <2>3, <2>4
<1> QED BY <1>1, <1>6, <1>7

\* A sequence restricted to some positions.
LEMMA Positions ==
  ASSUME NEW X, NEW s \in Seq(X), NEW P \in SUBSET DOMAIN s, NEW q, q = SetToSeq(P),
         NEW r, r = [k \in DOMAIN q |-> s[q[k]]]
  PROVE  /\ r \in Seq(X) /\ Len(r) <= Len(s) /\ ToSet(r) = {s[i] : i \in P}
         /\ IsInjective(s) => IsInjective(r)
<1>1. DOMAIN s = 1..Len(s) /\ Len(s) \in Nat
  OBVIOUS
<1>2. IsFiniteSet(1..Len(s)) /\ Cardinality(1..Len(s)) = Len(s)
  BY <1>1, FS_Interval
<1>3. IsFiniteSet(P) /\ Cardinality(P) <= Len(s)
  BY <1>1, <1>2, FS_Subset
<1>4. PICK n \in Nat : n = Cardinality(P)
  BY <1>3, FS_CardinalityType
<1>5. q \in Seq(P) /\ Len(q) = n /\ DOMAIN q = 1..n /\ IsInjective(q) /\ ToSet(q) = P
  BY <1>3, <1>4, SetToSeqIs
<1>6. \A k \in 1..n : q[k] \in P /\ q[k] \in DOMAIN s
  BY <1>5
<1>7. r \in [1..n -> X] /\ \A k \in 1..n : r[k] = s[q[k]]
  BY <1>1, <1>5, <1>6
<1>8. r \in Seq(X) /\ Len(r) = n
  BY <1>7
<1>9. ToSet(r) = {s[i] : i \in P}
  <2>1. \A i \in P : \E k \in 1..n : q[k] = i
    BY <1>5 DEF ToSet
  <2>2. ToSet(r) = {r[k] : k \in 1..n}
    BY <1>7 DEF ToSet
  <2>3. \A i \in P : \E k \in 1..n : r[k] = s[i]
    BY <1>7, <2>1
  <2>4. \A k \in 1..n : \E i \in P : r[k] = s[i]
    BY <1>6, <1>7
  <2>5. ToSet(r) \subseteq {s[i] : i \in P}
    BY <2>2, <2>4
  <2>6. {s[i] : i \in P} \subseteq ToSet(r)
    BY <2>2, <2>3
  <2> QED BY <2>5, <2>6
<1>10. IsInjective(s) => IsInjective(r)
  BY <1>5, <1>6, <1>7 DEF IsInjective
<1> QED BY <1>3, <1>4, <1>8, <1>9, <1>10

LEMMA NewRowsIs ==
  ASSUME sweep.rows \in Seq(Resource), IsInjective(sweep.rows)
  PROVE  /\ NewRows \in Seq(Resource) /\ IsInjective(NewRows) /\ Len(NewRows) <= Len(sweep.rows)
         /\ ToSet(NewRows) = ToSet(sweep.rows) \ ToSet(listing)
<1>1. PICK s, P : s = sweep.rows /\ P = {i \in DOMAIN s : s[i] \notin ToSet(listing)}
  OBVIOUS
<1>2. PICK q, r : q = SetToSeq(P) /\ r = [k \in DOMAIN q |-> s[q[k]]]
  OBVIOUS
<1>3. r = NewRows
  BY <1>1, <1>2 DEF NewRows
<1>4. s \in Seq(Resource) /\ IsInjective(s) /\ P \in SUBSET DOMAIN s
  BY <1>1
<1>5. /\ r \in Seq(Resource) /\ Len(r) <= Len(s) /\ ToSet(r) = {s[i] : i \in P}
      /\ IsInjective(r)
  BY <1>2, <1>4, Positions, SMTT(30)
<1>6. {s[i] : i \in P} = ToSet(s) \ ToSet(listing)
  BY <1>1 DEF ToSet
<1> QED BY <1>1, <1>3, <1>5, <1>6

-----------------------------------------------------------------------------
(* The steps of a sweep.                                                   *)

\* A step that changes the fields fs only.
Same(fs) ==
    /\ DOMAIN sweep' = Fields
    /\ \A f \in Fields \ fs : sweep'[f] = sweep[f]

LEMMA Underway ==
  ASSUME SweepInv, sweep.pc # "idle"
  PROVE  /\ DOMAIN sweep = Fields /\ sweep.pc \in {"regions", "region", "done"}
         /\ sweep.job \in Jobs /\ sweep.room \in Nat /\ sweep.rows \in Seq(Resource)
         /\ Len(sweep.rows) \in Nat /\ Len(listing) \in Nat /\ SweepLimit \in Nat
BY SweepBounds DEF SweepInv, SweepsTypeOK

LEMMA EnterRegionStep ==
  ASSUME SweepInv, NEW r \in Region, EnterRegion(r)
  PROVE  SweepInv'
<1>1. /\ sweep.pc = "regions" /\ r \in sweep.left /\ Room
      /\ where' = where /\ holder' = holder /\ listing' = listing
  BY DEF EnterRegion
<1>2. DOMAIN sweep = Fields
  BY <1>1, Underway
<1>3. /\ Same({"pc", "region", "left", "links", "lists"})
      /\ sweep'.pc = "region" /\ sweep'.region = r /\ sweep'.left = sweep.left \ {r}
      /\ sweep'.links = LinkCalls /\ sweep'.lists = ListCalls
  BY <1>2 DEF EnterRegion, Same, Fields
<1>4. SweepsTypeOK /\ InTurn /\ RowsOnce /\ RoomFits /\ OneSweep /\ LooseKnown /\ NoneLost
  BY DEF SweepInv
<1>5. /\ sweep'.job = sweep.job /\ sweep'.compartments = sweep.compartments
      /\ sweep'.room = sweep.room /\ sweep'.attached = sweep.attached /\ sweep'.seen = sweep.seen
      /\ sweep'.rows = sweep.rows /\ sweep'.loose = sweep.loose /\ sweep'.stayed = sweep.stayed
      /\ sweep'.blind = sweep.blind /\ sweep'.failed = sweep.failed
  BY <1>3 DEF Same, Fields
<1>6. ListCalls' = ListCalls
  BY <1>5 DEF ListCalls
<1>7. LinkCalls \in SUBSET (Compartment \X Volumes)
  BY <1>1, <1>4 DEF LinkCalls, SweepsTypeOK
<1>8. SweepsTypeOK'
  BY <1>1, <1>3, <1>4, <1>5, <1>6, <1>7 DEF SweepsTypeOK, Same
<1>9. InTurn'
  BY <1>3 DEF InTurn
<1>10. RowsOnce'
  BY <1>1, <1>3, <1>4, <1>5 DEF RowsOnce
<1>11. RoomFits' /\ OneSweep'
  BY <1>1, <1>3, <1>4, <1>5 DEF RoomFits, OneSweep, Running
<1>12. LooseKnown'
  <2>1. Loose' = Loose
    BY <1>1 DEF Loose
  <2>2. ASSUME sweep.job = "storage", ~sweep.blind, NEW v \in Resource, KindOf[v] \in Volumes
        PROVE  v \in sweep.loose \/ <<holder[v], KindOf[v]>> \in LinkCalls
    <3>1. sweep.compartments = Compartment
      BY <1>1, <1>4, <2>2 DEF LooseKnown
    <3>2. holder[v] = NoHolder \/ holder[v] \in Compartment
      BY <1>4 DEF SweepsTypeOK
    <3>3. v \in Loose => v \in sweep.loose
      BY <1>1, <1>4 DEF LooseKnown, Running
    <3> QED BY <2>2, <3>1, <3>2, <3>3 DEF LinkCalls, Loose
  <2> QED BY <1>1, <1>3, <1>4, <1>5, <2>1, <2>2 DEF LooseKnown, Running
<1>13. NoneLost'
  <2>1. Expected' = Expected /\ (Room' <=> Room)
    BY <1>1, <1>5 DEF Expected, Room
  <2>2. ASSUME NEW v \in Expected
        PROVE  /\ v \notin sweep.attached
               /\ \/ v \in ToSet(sweep.rows) \/ RegionOf[v] \in sweep.left \ {r}
                  \/ RegionOf[v] = r /\ <<where[v], KindOf[v]>> \in ListCalls
                  \/ ~Room
    <3>1. <<where[v], KindOf[v]>> \in ListCalls
      BY <2>2 DEF Expected, ListCalls
    <3>2. /\ v \notin sweep.attached
          /\ v \in ToSet(sweep.rows) \/ RegionOf[v] \in sweep.left \/ ~Room
      BY <1>1, <1>4, <2>2 DEF NoneLost, Running
    <3> QED BY <3>1, <3>2
  <2> QED BY <1>1, <1>3, <1>5, <2>1, <2>2 DEF NoneLost
<1> QED BY <1>3, <1>8, <1>9, <1>10, <1>11, <1>12, <1>13 DEF SweepInv, RemovesLoose, SweepComplete

LEMMA SkipRegionStep ==
  ASSUME SweepInv, NEW r \in Region, SkipRegion(r)
  PROVE  SweepInv'
<1>1. /\ sweep.pc = "regions" /\ r \in sweep.left /\ Room
      /\ where' = where /\ holder' = holder /\ listing' = listing
  BY DEF SkipRegion
<1>2. DOMAIN sweep = Fields
  BY <1>1, Underway
<1>3. /\ Same({"left", "failed", "faults"})
      /\ sweep'.left = sweep.left \ {r} /\ sweep'.failed = sweep.failed \cup ({r} \X ListCalls)
  BY <1>2 DEF SkipRegion, Same, Fields
<1>4. SweepsTypeOK /\ InTurn /\ RowsOnce /\ RoomFits /\ OneSweep /\ LooseKnown /\ NoneLost
  BY DEF SweepInv
<1>5. /\ sweep'.pc = "regions" /\ sweep'.job = sweep.job /\ sweep'.compartments = sweep.compartments
      /\ sweep'.room = sweep.room /\ sweep'.attached = sweep.attached /\ sweep'.seen = sweep.seen
      /\ sweep'.rows = sweep.rows /\ sweep'.loose = sweep.loose /\ sweep'.stayed = sweep.stayed
      /\ sweep'.blind = sweep.blind /\ sweep'.lists = sweep.lists /\ sweep'.links = sweep.links
  BY <1>1, <1>3 DEF Same, Fields
<1>6. ListCalls' = ListCalls
  BY <1>5 DEF ListCalls
<1>8. SweepsTypeOK'
  BY <1>1, <1>3, <1>4, <1>5, <1>6 DEF SweepsTypeOK, Same
<1>9. InTurn'
  BY <1>1, <1>4, <1>5 DEF InTurn
<1>10. RowsOnce'
  BY <1>1, <1>3, <1>4, <1>5 DEF RowsOnce
<1>11. RoomFits' /\ OneSweep'
  BY <1>1, <1>3, <1>4, <1>5 DEF RoomFits, OneSweep, Running
<1>12. LooseKnown'
  <2>1. Loose' = Loose
    BY <1>1 DEF Loose
  <2> QED BY <1>1, <1>3, <1>4, <1>5, <2>1 DEF LooseKnown, Running
<1>13. NoneLost'
  <2> SUFFICES ASSUME NEW v \in Expected'
               PROVE  /\ v \notin sweep.attached
                      /\ v \in ToSet(sweep.rows) \/ RegionOf[v] \in sweep.left \ {r} \/ ~Room
    BY <1>1, <1>3, <1>5 DEF NoneLost, Room
  <2>1. v \in Expected /\ RegionOf[v] # r
    <3>1. <<where[v], KindOf[v]>> \in ListCalls
      BY <1>1, <1>5 DEF Expected, ListCalls
    <3> QED BY <1>1, <1>3, <1>5, <3>1 DEF Expected
  <2> QED BY <1>1, <1>4, <2>1 DEF NoneLost, Running
<1> QED BY <1>5, <1>8, <1>9, <1>10, <1>11, <1>12, <1>13 DEF SweepInv, RemovesLoose, SweepComplete

LEMMA ReadAttachmentsStep ==
  ASSUME SweepInv, NEW call \in sweep.links, NEW ok \in BOOLEAN, ReadAttachments(call, ok)
  PROVE  SweepInv'
<1>1. /\ sweep.pc = "region" /\ call \in sweep.links
      /\ where' = where /\ holder' = holder /\ listing' = listing
  BY DEF ReadAttachments
<1>2. DOMAIN sweep = Fields
  BY <1>1, Underway
<1>3. /\ Same({"links", "attached", "blind", "faults"})
      /\ sweep'.links = sweep.links \ {call}
      /\ sweep'.attached = IF ok THEN sweep.attached \cup HeldIn(call[1], call[2]) ELSE sweep.attached
      /\ sweep'.blind = (sweep.blind \/ ~ok)
  BY <1>2 DEF ReadAttachments, Same, Fields
<1>4. SweepsTypeOK /\ InTurn /\ RowsOnce /\ RoomFits /\ OneSweep /\ LooseKnown /\ NoneLost
  BY DEF SweepInv
<1>5. /\ sweep'.job = sweep.job /\ sweep'.compartments = sweep.compartments
      /\ sweep'.room = sweep.room /\ sweep'.left = sweep.left /\ sweep'.region = sweep.region
      /\ sweep'.lists = sweep.lists /\ sweep'.seen = sweep.seen /\ sweep'.rows = sweep.rows
      /\ sweep'.loose = sweep.loose /\ sweep'.stayed = sweep.stayed
      /\ sweep'.failed = sweep.failed
      /\ sweep'.pc = "region"
  BY <1>1, <1>3 DEF Same, Fields
<1>6. ListCalls' = ListCalls
  BY <1>5 DEF ListCalls
<1>7. /\ call \in Compartment \X Volumes /\ call = <<call[1], call[2]>> /\ call[1] # NoHolder
      /\ HeldIn(call[1], call[2]) \in SUBSET Resource
  BY <1>1, <1>4, SweepBounds DEF SweepsTypeOK, HeldIn
<1>8. SweepsTypeOK'
  BY <1>1, <1>3, <1>4, <1>5, <1>6, <1>7 DEF SweepsTypeOK, Same
<1>9. InTurn'
  BY <1>5 DEF InTurn
<1>10. RowsOnce'
  BY <1>1, <1>3, <1>4, <1>5 DEF RowsOnce
<1>11. RoomFits' /\ OneSweep'
  BY <1>1, <1>3, <1>4, <1>5 DEF RoomFits, OneSweep, Running
<1>12. LooseKnown'
  <2>1. Loose' = Loose
    BY <1>1 DEF Loose
  <2>2. ASSUME sweep.job = "storage", ~sweep.blind, ok,
               NEW v \in Resource, KindOf[v] \in Volumes, RegionOf[v] = sweep.region
        PROVE  \/ v \in sweep.loose \/ v \in sweep'.attached
               \/ <<holder[v], KindOf[v]>> \in sweep'.links
    <3>1. \/ v \in sweep.loose \/ v \in sweep.attached
          \/ <<holder[v], KindOf[v]>> \in sweep.links
      BY <1>1, <1>4, <2>2 DEF LooseKnown
    <3>2. CASE <<holder[v], KindOf[v]>> = call
      BY <1>3, <2>2, <3>2 DEF HeldIn
    <3> QED BY <1>3, <2>2, <3>1, <3>2
  <2>3. sweep'.blind <=> sweep.blind \/ ~ok
    BY <1>3
  <2> QED BY <1>1, <1>4, <1>5, <2>1, <2>2, <2>3 DEF LooseKnown, Running
<1>13. NoneLost'
  <2>1. Expected' = Expected /\ (Room' <=> Room)
    BY <1>1, <1>5 DEF Expected, Room
  <2>2. ASSUME NEW v \in Expected PROVE v \notin sweep'.attached
    <3>1. v \notin sweep.attached /\ holder[v] = NoHolder
      BY <1>1, <1>4, <2>2 DEF NoneLost, Running, Expected
    <3> QED BY <1>3, <1>7, <3>1 DEF HeldIn
  <2> QED BY <1>1, <1>4, <1>5, <2>1, <2>2 DEF NoneLost, Running
<1> QED BY <1>5, <1>8, <1>9, <1>10, <1>11, <1>12, <1>13 DEF SweepInv, RemovesLoose, SweepComplete

LEMMA FailListStep ==
  ASSUME SweepInv, NEW call \in sweep.lists, FailList(call)
  PROVE  SweepInv'
<1>1. /\ sweep.pc = "region" /\ call \in sweep.lists
      /\ where' = where /\ holder' = holder /\ listing' = listing
  BY DEF FailList
<1>2. DOMAIN sweep = Fields
  BY <1>1, Underway
<1>3. /\ Same({"lists", "failed", "faults"})
      /\ sweep'.lists = sweep.lists \ {call}
      /\ sweep'.failed = sweep.failed \cup {<<sweep.region, call>>}
  BY <1>2 DEF FailList, Unread, Same, Fields
<1>4. SweepsTypeOK /\ InTurn /\ RowsOnce /\ RoomFits /\ OneSweep /\ LooseKnown /\ NoneLost
  BY DEF SweepInv
<1>5. /\ sweep'.job = sweep.job /\ sweep'.compartments = sweep.compartments
      /\ sweep'.room = sweep.room /\ sweep'.left = sweep.left /\ sweep'.region = sweep.region
      /\ sweep'.links = sweep.links /\ sweep'.attached = sweep.attached
      /\ sweep'.seen = sweep.seen /\ sweep'.rows = sweep.rows /\ sweep'.loose = sweep.loose
      /\ sweep'.stayed = sweep.stayed /\ sweep'.blind = sweep.blind
      /\ sweep'.pc = "region"
  BY <1>1, <1>3 DEF Same, Fields
<1>6. ListCalls' = ListCalls
  BY <1>5 DEF ListCalls
<1>8. SweepsTypeOK'
  BY <1>1, <1>3, <1>4, <1>5, <1>6 DEF SweepsTypeOK, Same
<1>9. InTurn'
  BY <1>5 DEF InTurn
<1>10. RowsOnce'
  BY <1>1, <1>3, <1>4, <1>5 DEF RowsOnce
<1>11. RoomFits' /\ OneSweep'
  BY <1>1, <1>3, <1>4, <1>5 DEF RoomFits, OneSweep, Running
<1>12. LooseKnown'
  <2>1. Loose' = Loose
    BY <1>1 DEF Loose
  <2> QED BY <1>1, <1>3, <1>4, <1>5, <2>1 DEF LooseKnown, Running
<1>13. NoneLost'
  <2> SUFFICES ASSUME NEW v \in Expected'
               PROVE  /\ v \notin sweep.attached
                      /\ \/ v \in ToSet(sweep.rows) \/ RegionOf[v] \in sweep.left
                         \/ sweep.region = RegionOf[v] /\ <<where[v], KindOf[v]>> \in sweep.lists \ {call}
                         \/ ~Room
    BY <1>1, <1>3, <1>5 DEF NoneLost, Room
  <2>1. v \in Expected /\ ~(RegionOf[v] = sweep.region /\ <<where[v], KindOf[v]>> = call)
    BY <1>1, <1>3, <1>5 DEF Expected
  <2> QED BY <1>1, <1>4, <2>1 DEF NoneLost, Running
<1> QED BY <1>5, <1>8, <1>9, <1>10, <1>11, <1>12, <1>13 DEF SweepInv, RemovesLoose, SweepComplete

LEMMA LeaveRegionStep ==
  ASSUME SweepInv, LeaveRegion
  PROVE  SweepInv'
<1>1. /\ sweep.pc = "region" /\ (sweep.lists = {} \/ ~Room)
      /\ where' = where /\ holder' = holder /\ listing' = listing
  BY DEF LeaveRegion
<1>2. DOMAIN sweep = Fields
  BY Underway DEF LeaveRegion
<1>3. /\ Same({"pc", "lists"}) /\ sweep'.lists = {} /\ sweep'.pc = "regions" /\ sweep.pc = "region"
  BY <1>2 DEF LeaveRegion, Same, Fields
<1>4. SweepsTypeOK /\ InTurn /\ RowsOnce /\ RoomFits /\ OneSweep /\ LooseKnown /\ NoneLost
  BY DEF SweepInv
<1>5. /\ sweep'.job = sweep.job /\ sweep'.compartments = sweep.compartments
      /\ sweep'.room = sweep.room /\ sweep'.left = sweep.left /\ sweep'.region = sweep.region
      /\ sweep'.links = sweep.links /\ sweep'.attached = sweep.attached
      /\ sweep'.seen = sweep.seen /\ sweep'.rows = sweep.rows /\ sweep'.loose = sweep.loose
      /\ sweep'.stayed = sweep.stayed /\ sweep'.blind = sweep.blind
      /\ sweep'.failed = sweep.failed
  BY <1>3 DEF Same, Fields
<1>8. SweepsTypeOK'
  BY <1>1, <1>3, <1>4, <1>5 DEF SweepsTypeOK, Same
<1>9. InTurn'
  BY <1>3 DEF InTurn
<1>10. RowsOnce'
  BY <1>1, <1>3, <1>4, <1>5 DEF RowsOnce
<1>11. RoomFits' /\ OneSweep'
  BY <1>1, <1>3, <1>4, <1>5 DEF RoomFits, OneSweep, Running
<1>12. LooseKnown'
  <2>1. Loose' = Loose
    BY <1>1 DEF Loose
  <2> QED BY <1>1, <1>3, <1>4, <1>5, <2>1 DEF LooseKnown, Running
<1>13. NoneLost'
  <2>1. Expected' = Expected /\ (Room' <=> Room)
    BY <1>1, <1>5 DEF Expected, Room
  <2>2. sweep.lists = {} \/ ~Room
    BY DEF LeaveRegion
  <2> QED BY <1>3, <1>4, <1>5, <2>1, <2>2 DEF NoneLost, Running
<1> QED BY <1>3, <1>8, <1>9, <1>10, <1>11, <1>12, <1>13 DEF SweepInv, RemovesLoose, SweepComplete

\* The tenancy changes.
LEMMA ChangeStep ==
  ASSUME SweepInv, NEW v \in Resource, NEW c \in Compartment, AttachOrDetach(v, c) \/ Move(v, c)
  PROVE  SweepInv'
<1>1. Running /\ listing' = listing
  BY DEF AttachOrDetach, Move, Change
<1>2. DOMAIN sweep = Fields /\ sweep.pc \in {"regions", "region"}
  BY <1>1, Underway DEF Running
<1>4. SweepsTypeOK /\ InTurn /\ RowsOnce /\ RoomFits /\ OneSweep /\ LooseKnown /\ NoneLost
  BY DEF SweepInv
<1>3. /\ Same({"loose", "stayed"})
      /\ sweep'.stayed = sweep.stayed \ {v}
      /\ \/ sweep'.loose = sweep.loose \cup {v} /\ where' = where
         \/ sweep'.loose = sweep.loose /\ holder' = holder
      /\ \A u \in Resource \ {v} : where'[u] = where[u] /\ holder'[u] = holder[u]
      /\ where' \in [Resource -> Compartment]
      /\ holder' \in [Resource -> Compartment \cup {NoHolder}]
  <2>1. CASE AttachOrDetach(v, c)
    BY <1>2, <1>4, <2>1 DEF AttachOrDetach, Same, Fields, SweepsTypeOK
  <2>2. CASE Move(v, c)
    BY <1>2, <1>4, <2>2 DEF Move, Same, Fields, SweepsTypeOK
  <2> QED BY <2>1, <2>2
<1>5. /\ sweep'.job = sweep.job /\ sweep'.compartments = sweep.compartments
      /\ sweep'.room = sweep.room /\ sweep'.left = sweep.left /\ sweep'.region = sweep.region
      /\ sweep'.links = sweep.links /\ sweep'.lists = sweep.lists
      /\ sweep'.attached = sweep.attached /\ sweep'.seen = sweep.seen /\ sweep'.rows = sweep.rows
      /\ sweep'.blind = sweep.blind /\ sweep'.failed = sweep.failed
      /\ sweep'.pc = sweep.pc
  BY <1>3 DEF Same, Fields
<1>6. ListCalls' = ListCalls
  BY <1>5 DEF ListCalls
<1>7. sweep'.loose \in SUBSET Resource /\ sweep.loose \subseteq sweep'.loose
  BY <1>2, <1>3, <1>4 DEF SweepsTypeOK
<1>8. SweepsTypeOK'
  BY <1>1, <1>2, <1>3, <1>4, <1>5, <1>6, <1>7 DEF SweepsTypeOK, Same
<1>9. InTurn'
  BY <1>4, <1>5 DEF InTurn
<1>10. RowsOnce'
  BY <1>1, <1>3, <1>4, <1>5 DEF RowsOnce
<1>11. RoomFits' /\ OneSweep'
  BY <1>1, <1>3, <1>4, <1>5 DEF RoomFits, OneSweep, Running
<1>12. LooseKnown'
  <2>1. Loose' \subseteq sweep'.loose
    <3>1. Loose \subseteq sweep.loose
      BY <1>1, <1>4 DEF LooseKnown
    <3>2. CASE sweep'.loose = sweep.loose \cup {v}
      BY <1>3, <3>1, <3>2 DEF Loose
    <3>3. CASE sweep'.loose = sweep.loose /\ holder' = holder
      BY <3>1, <3>3 DEF Loose
    <3> QED BY <1>3, <3>2, <3>3
  <2>2. ASSUME sweep.pc = "region", sweep.job = "storage", ~sweep.blind,
               NEW u \in Resource, KindOf[u] \in Volumes, RegionOf[u] = sweep.region
        PROVE  \/ u \in sweep'.loose \/ u \in sweep.attached
               \/ <<holder'[u], KindOf[u]>> \in sweep.links
    <3>1. \/ u \in sweep.loose \/ u \in sweep.attached
          \/ <<holder[u], KindOf[u]>> \in sweep.links
      BY <1>4, <2>2 DEF LooseKnown
    <3>2. u \in sweep'.loose \/ holder'[u] = holder[u]
      BY <1>3
    <3> QED BY <1>7, <3>1, <3>2
  <2>3. ~sweep.blind => sweep.compartments = Compartment
    BY <1>2, <1>4 DEF LooseKnown
  <2>4. sweep.job = "storage" /\ ~sweep.blind => ToSet(sweep.rows) \subseteq sweep'.loose
    BY <1>1, <1>4, <1>7 DEF LooseKnown
  <2> QED BY <1>5, <2>1, <2>2, <2>3, <2>4 DEF LooseKnown
<1>13. NoneLost'
  <2>1. Room' <=> Room
    BY <1>5 DEF Room
  <2>2. ASSUME NEW u \in Expected' PROVE u \in Expected /\ where'[u] = where[u]
    <3>1. u \in Resource \ {v} /\ u \in sweep.stayed
      BY <1>2, <1>3, <1>4 DEF Expected, SweepsTypeOK
    <3> QED BY <1>3, <1>5, <3>1 DEF Expected
  <2> QED BY <1>1, <1>4, <1>5, <2>1, <2>2 DEF NoneLost
<1> QED BY <1>2, <1>5, <1>8, <1>9, <1>10, <1>11, <1>12, <1>13 DEF SweepInv, RemovesLoose, SweepComplete

\* The rows that a list adds.
LEMMA RowsAdded ==
  ASSUME SweepInv, sweep.pc # "idle", NEW R \in SUBSET Resource, R \cap ToSet(sweep.rows) = {},
         NEW S, R \in Fitting(S)
  PROVE  /\ sweep.rows \o SetToSeq(R) \in Seq(Resource)
         /\ IsInjective(sweep.rows \o SetToSeq(R))
         /\ ToSet(sweep.rows \o SetToSeq(R)) = ToSet(sweep.rows) \cup R
         /\ Len(sweep.rows \o SetToSeq(R)) <= sweep.room
         /\ R # S => Len(sweep.rows \o SetToSeq(R)) = sweep.room
         /\ Len(sweep.rows) <= Len(sweep.rows \o SetToSeq(R))
<1>1. IsFiniteSet(R)
  BY SweepBounds, FS_Subset
<1>2. PICK q, s : q = SetToSeq(R) /\ s = sweep.rows
  OBVIOUS
<1>3. /\ q \in Seq(R) /\ Len(q) = Cardinality(R) /\ IsInjective(q) /\ ToSet(q) = R
      /\ Cardinality(R) \in Nat
  BY <1>1, <1>2, SetToSeqIs
<1>4. q \in Seq(Resource)
  BY <1>3
<1>5. s \in Seq(Resource) /\ IsInjective(s) /\ Len(s) \in Nat /\ sweep.room \in Nat
  BY <1>2, Underway DEF SweepInv, RowsOnce
<1>6. /\ s \o q \in Seq(Resource) /\ Len(s \o q) = Len(s) + Len(q)
      /\ ToSet(s \o q) = ToSet(s) \cup R /\ IsInjective(s \o q)
  BY <1>2, <1>3, <1>4, <1>5, Joined
<1>7. /\ Cardinality(R) <= sweep.room - Len(s)
      /\ R # S => Cardinality(R) = sweep.room - Len(s)
  BY <1>2 DEF Fitting
<1>8. /\ Len(s \o q) <= sweep.room /\ (R # S => Len(s \o q) = sweep.room)
      /\ Len(s) <= Len(s \o q)
  BY <1>3, <1>5, <1>6, <1>7
<1> QED BY <1>2, <1>6, <1>8

LEMMA ReadListStep ==
  ASSUME SweepInv, NEW call \in sweep.lists, ReadList(call)
  PROVE  SweepInv'
<1>1. /\ sweep.pc = "region" /\ call \in sweep.lists /\ sweep.links = {} /\ Room
      /\ where' = where /\ holder' = holder /\ listing' = listing
  BY DEF ReadList
<1>2. DOMAIN sweep = Fields /\ sweep.room \in Nat
  BY <1>1, Underway
<1>a. PICK R \in Fitting(Fresh(call)) : sweep' = Added(R, call)
  BY DEF ReadList
<1>3. /\ Same({"rows", "seen", "lists"})
      /\ sweep'.rows = sweep.rows \o SetToSeq(R) /\ sweep'.seen = sweep.seen \cup R
      /\ sweep'.lists = sweep.lists \ {call}
  BY <1>2, <1>a DEF Added, Same, Fields
<1>4. SweepsTypeOK /\ InTurn /\ RowsOnce /\ RoomFits /\ OneSweep /\ LooseKnown /\ NoneLost
  BY DEF SweepInv
<1>5. /\ sweep'.job = sweep.job /\ sweep'.compartments = sweep.compartments
      /\ sweep'.room = sweep.room /\ sweep'.left = sweep.left /\ sweep'.region = sweep.region
      /\ sweep'.links = sweep.links /\ sweep'.attached = sweep.attached
      /\ sweep'.loose = sweep.loose /\ sweep'.stayed = sweep.stayed /\ sweep'.blind = sweep.blind
      /\ sweep'.failed = sweep.failed
      /\ sweep'.pc = "region"
  BY <1>1, <1>3 DEF Same, Fields
<1>6. ListCalls' = ListCalls
  BY <1>5 DEF ListCalls
<1>7. /\ R \in SUBSET Resource /\ R \subseteq Fresh(call) /\ R \cap ToSet(sweep.rows) = {}
      /\ ToSet(sweep.rows) = sweep.seen
  <2>1. R \subseteq Fresh(call)
    BY <1>a DEF Fitting
  <2>2. ToSet(sweep.rows) = sweep.seen
    BY <1>1, <1>4 DEF RowsOnce
  <2> QED BY <2>1, <2>2 DEF Fresh, ResourcesIn
<1>b. /\ sweep'.rows \in Seq(Resource) /\ IsInjective(sweep'.rows)
      /\ ToSet(sweep'.rows) = ToSet(sweep.rows) \cup R
      /\ Len(sweep'.rows) <= sweep.room
      /\ R # Fresh(call) => Len(sweep'.rows) = sweep.room
      /\ Len(sweep.rows) <= Len(sweep'.rows)
  BY <1>1, <1>3, <1>a, <1>7, RowsAdded
<1>8. SweepsTypeOK'
  BY <1>1, <1>3, <1>4, <1>5, <1>6, <1>7, <1>b DEF SweepsTypeOK, Same
<1>9. InTurn'
  BY <1>5 DEF InTurn
<1>10. RowsOnce'
  <2>1. ToSet(sweep'.rows) = sweep'.seen
    BY <1>3, <1>7, <1>b
  <2>2. IsInjective(listing)
    BY <1>4 DEF RowsOnce
  <2> QED BY <1>1, <1>5, <1>b, <2>1, <2>2 DEF RowsOnce
<1>11. RoomFits' /\ OneSweep'
  BY <1>1, <1>3, <1>4, <1>5, <1>b DEF RoomFits, OneSweep, Running
<1>12. LooseKnown'
  <2>1. Loose' = Loose
    BY <1>1 DEF Loose
  <2>2. ASSUME sweep.job = "storage", ~sweep.blind, NEW v \in R
        PROVE  v \in sweep.loose
    <3>1. v \in Resource /\ RegionOf[v] = sweep.region /\ KindOf[v] = call[2] /\ v \notin sweep.attached
      BY <1>7 DEF Fresh, ResourcesIn
    <3>2. call \in ListCalls
      BY <1>1, <1>4 DEF SweepsTypeOK
    <3>3. call[2] \in ToSet(KindsIn("storage"))
      BY <2>2, <3>2 DEF ListCalls
    <3>4. KindsIn("storage") = <<"block", "boot">>
      BY DEF KindsIn
    <3>5. call[2] \in Volumes
      BY <3>3, <3>4 DEF ToSet, Volumes
    <3> QED BY <1>1, <1>4, <2>2, <3>1, <3>5 DEF LooseKnown
  <2> QED BY <1>1, <1>4, <1>5, <1>b, <2>1, <2>2 DEF LooseKnown, Running
<1>13. NoneLost'
  <2>1. Expected' = Expected
    BY <1>1, <1>5 DEF Expected
  <2>2. ASSUME NEW v \in Expected
        PROVE  /\ v \notin sweep.attached
               /\ \/ v \in ToSet(sweep'.rows) \/ RegionOf[v] \in sweep.left
                  \/ sweep.region = RegionOf[v] /\ <<where[v], KindOf[v]>> \in sweep.lists \ {call}
                  \/ ~(Len(sweep'.rows) < sweep.room)
    <3>1. /\ v \notin sweep.attached
          /\ \/ v \in ToSet(sweep.rows) \/ RegionOf[v] \in sweep.left
             \/ sweep.region = RegionOf[v] /\ <<where[v], KindOf[v]>> \in sweep.lists
      BY <1>1, <1>4, <2>2 DEF NoneLost, Running
    <3>2. CASE sweep.region = RegionOf[v] /\ <<where[v], KindOf[v]>> = call
      <4>1. v \in ResourcesIn(call)
        <5>1. v \in Resource
          BY <1>1, <1>4, <2>2 DEF Expected, SweepsTypeOK
        <5>2. call[1] = where[v] /\ call[2] = KindOf[v]
          BY <3>2
        <5> QED BY <3>2, <5>1, <5>2 DEF ResourcesIn
      <4>2. v \in ToSet(sweep.rows) \/ v \in Fresh(call)
        BY <1>7, <3>1, <4>1 DEF Fresh
      <4>3. R = Fresh(call) \/ ~(Len(sweep'.rows) < sweep.room)
        BY <1>2, <1>b
      <4> QED BY <1>b, <3>1, <4>2, <4>3
    <3> QED BY <1>b, <3>1, <3>2
  <2> QED BY <1>1, <1>3, <1>5, <2>1, <2>2 DEF NoneLost, Room
<1> QED BY <1>5, <1>8, <1>9, <1>10, <1>11, <1>12, <1>13 DEF SweepInv, RemovesLoose, SweepComplete

LEMMA OutOfTimeStep ==
  ASSUME SweepInv, OutOfTime
  PROVE  SweepInv'
<1>1. /\ Running /\ sweep.job = "kubernetes"
      /\ where' = where /\ holder' = holder /\ listing' = listing
  BY DEF OutOfTime
<1>2. DOMAIN sweep = Fields /\ sweep.pc \in {"regions", "region"} /\ sweep.room \in Nat
  BY <1>1, Underway DEF Running
<1>a. PICK S \in {{}} \cup UNION {SUBSET Fresh(call) : call \in {c \in sweep.lists : Turn(sweep.lists, c)}} :
      \E Q \in Fitting(S) :
         sweep' = [sweep EXCEPT !.pc = "regions", !.left = {}, !.lists = {},
                                !.rows = @ \o SetToSeq(Q), !.stayed = {}]
  BY DEF OutOfTime
<1>c. PICK R \in Fitting(S) :
         sweep' = [sweep EXCEPT !.pc = "regions", !.left = {}, !.lists = {},
                                !.rows = @ \o SetToSeq(R), !.stayed = {}]
  BY <1>a
<1>3. /\ Same({"pc", "left", "lists", "rows", "stayed"})
      /\ sweep'.rows = sweep.rows \o SetToSeq(R) /\ sweep'.lists = {} /\ sweep'.left = {}
      /\ sweep'.stayed = {} /\ sweep'.pc = "regions"
  BY <1>2, <1>c DEF Same, Fields
<1>4. SweepsTypeOK /\ InTurn /\ RowsOnce /\ RoomFits /\ OneSweep /\ LooseKnown /\ NoneLost
  BY DEF SweepInv
<1>5. /\ sweep'.job = sweep.job /\ sweep'.compartments = sweep.compartments
      /\ sweep'.room = sweep.room /\ sweep'.region = sweep.region /\ sweep'.links = sweep.links
      /\ sweep'.attached = sweep.attached /\ sweep'.seen = sweep.seen
      /\ sweep'.loose = sweep.loose /\ sweep'.blind = sweep.blind /\ sweep'.failed = sweep.failed
  BY <1>3 DEF Same, Fields
<1>7. R \in SUBSET Resource /\ R \cap ToSet(sweep.rows) = {}
  <2>1. R \subseteq S
    BY DEF Fitting
  <2>2. S = {} \/ \E call \in sweep.lists : S \subseteq Fresh(call)
    BY <1>a
  <2>3. CASE S = {}
    BY <2>1, <2>3
  <2>4. ASSUME NEW call \in sweep.lists, S \subseteq Fresh(call)
        PROVE  R \in SUBSET Resource /\ R \cap ToSet(sweep.rows) = {}
    <3>1. sweep.pc = "region"
      BY <1>2, <1>4 DEF InTurn
    <3>2. ToSet(sweep.rows) \subseteq sweep.seen
      BY <1>4, <3>1 DEF RowsOnce
    <3> QED BY <2>1, <2>4, <3>2 DEF Fresh, ResourcesIn
  <2> QED BY <2>2, <2>3, <2>4
<1>b. /\ sweep'.rows \in Seq(Resource) /\ IsInjective(sweep'.rows)
      /\ ToSet(sweep'.rows) = ToSet(sweep.rows) \cup R
      /\ Len(sweep'.rows) <= sweep.room
  BY <1>2, <1>3, <1>7, RowsAdded
<1>8. SweepsTypeOK'
  BY <1>1, <1>2, <1>3, <1>4, <1>5, <1>7, <1>b DEF SweepsTypeOK, Same
<1>9. InTurn'
  BY <1>3 DEF InTurn
<1>10. RowsOnce'
  <2>1. sweep.seen \subseteq ToSet(sweep.rows) /\ IsInjective(listing)
    BY <1>2, <1>4 DEF RowsOnce
  <2> QED BY <1>1, <1>3, <1>5, <1>b, <2>1 DEF RowsOnce
<1>11. RoomFits' /\ OneSweep'
  BY <1>1, <1>2, <1>3, <1>4, <1>5, <1>b DEF RoomFits, OneSweep, Running
<1>12. LooseKnown'
  <2>1. Loose' = Loose
    BY <1>1 DEF Loose
  <2> QED BY <1>1, <1>2, <1>3, <1>4, <1>5, <2>1 DEF LooseKnown, Running
<1>13. NoneLost'
  BY <1>3 DEF NoneLost, Expected
<1> QED BY <1>3, <1>8, <1>9, <1>10, <1>11, <1>12, <1>13 DEF SweepInv, RemovesLoose, SweepComplete

LEMMA EndSweepStep ==
  ASSUME SweepInv, EndSweep
  PROVE  SweepInv'
<1>1. /\ sweep.pc = "regions" /\ (sweep.left = {} \/ ~Room)
      /\ where' = where /\ holder' = holder /\ listing' = listing \o NewRows
  BY DEF EndSweep, Swept, Gathered
<1>2. DOMAIN sweep = Fields /\ sweep.room \in Nat /\ Len(sweep.rows) \in Nat /\ Len(listing) \in Nat
      /\ SweepLimit \in Nat /\ sweep.pc = "regions"
  BY Underway DEF EndSweep, Swept
<1>3. Same({"pc"}) /\ sweep'.pc = "done"
  BY <1>2 DEF EndSweep, Same, Fields
<1>4. SweepsTypeOK /\ InTurn /\ RowsOnce /\ RoomFits /\ OneSweep /\ LooseKnown /\ NoneLost
  BY DEF SweepInv
<1>5. /\ sweep'.job = sweep.job /\ sweep'.compartments = sweep.compartments
      /\ sweep'.room = sweep.room /\ sweep'.left = sweep.left /\ sweep'.region = sweep.region
      /\ sweep'.links = sweep.links /\ sweep'.lists = sweep.lists
      /\ sweep'.attached = sweep.attached /\ sweep'.seen = sweep.seen /\ sweep'.rows = sweep.rows
      /\ sweep'.loose = sweep.loose /\ sweep'.stayed = sweep.stayed /\ sweep'.blind = sweep.blind
      /\ sweep'.failed = sweep.failed
  BY <1>3 DEF Same, Fields
<1>6. ListCalls' = ListCalls
  BY <1>5 DEF ListCalls
<1>7. /\ NewRows \in Seq(Resource) /\ IsInjective(NewRows) /\ Len(NewRows) <= Len(sweep.rows)
      /\ ToSet(NewRows) = ToSet(sweep.rows) \ ToSet(listing) /\ Len(NewRows) \in Nat
  <2>1. sweep.rows \in Seq(Resource) /\ IsInjective(sweep.rows)
    BY <1>2, <1>4 DEF SweepsTypeOK, RowsOnce
  <2> QED BY <2>1, NewRowsIs
<1>b. /\ listing' \in Seq(Resource) /\ Len(listing') = Len(listing) + Len(NewRows)
      /\ ToSet(listing') = ToSet(listing) \cup ToSet(sweep.rows) /\ IsInjective(listing')
  <2>1. PICK s, r : s = listing /\ r = NewRows
    OBVIOUS
  <2>2. s \in Seq(Resource) /\ r \in Seq(Resource) /\ IsInjective(s) /\ IsInjective(r)
        /\ ToSet(s) \cap ToSet(r) = {}
    BY <1>4, <1>7, <2>1 DEF SweepsTypeOK, RowsOnce
  <2>3. /\ s \o r \in Seq(Resource) /\ Len(s \o r) = Len(s) + Len(r)
        /\ ToSet(s \o r) = ToSet(s) \cup ToSet(r) /\ IsInjective(s \o r)
    BY <2>2, Joined
  <2> QED BY <1>1, <1>7, <2>1, <2>3
<1>8. SweepsTypeOK'
  BY <1>1, <1>2, <1>3, <1>4, <1>5, <1>6, <1>b DEF SweepsTypeOK, Same
<1>9. InTurn'
  BY <1>3 DEF InTurn
<1>10. RowsOnce'
  BY <1>2, <1>3, <1>4, <1>5, <1>b DEF RowsOnce
<1>11. RoomFits' /\ OneSweep'
  <2>1. Len(listing) + sweep.room <= SweepLimit /\ Len(sweep.rows) <= sweep.room
    BY <1>2, <1>4 DEF RoomFits, Running
  <2>2. Len(listing') <= SweepLimit
    BY <1>2, <1>7, <1>b, <2>1
  <2> QED BY <1>3, <1>5, <2>1, <2>2 DEF RoomFits, OneSweep, Running
<1>12. LooseKnown'
  BY <1>2, <1>3, <1>4, <1>5 DEF LooseKnown, Running
<1>13. NoneLost'
  BY <1>3 DEF NoneLost, Running
<1>14. RemovesLoose'
  <2> SUFFICES ASSUME sweep.job = "storage", ~sweep.blind
               PROVE  ToSet(listing') \subseteq sweep.loose
    BY <1>5 DEF RemovesLoose
  <2>1. listing = <<>>
    BY <1>2, <1>4 DEF OneSweep, Running
  <2>2. ToSet(sweep.rows) \subseteq sweep.loose
    BY <1>2, <1>4 DEF LooseKnown, Running
  <2>3. ToSet(listing) = {}
    BY <2>1 DEF ToSet
  <2> QED BY <1>b, <2>2, <2>3
<1>15. SweepComplete'
  <2> SUFFICES ASSUME Len(sweep.rows) < sweep.room, NEW v \in Expected
               PROVE  v \in ToSet(listing')
    BY <1>1, <1>5 DEF SweepComplete, Expected
  <2>1. sweep.left = {} /\ Room
    BY DEF EndSweep, Swept, Room
  <2>2. v \in ToSet(sweep.rows)
    BY <1>2, <1>4, <2>1 DEF NoneLost, Running
  <2> QED BY <1>b, <2>2
<1> QED BY <1>8, <1>9, <1>10, <1>11, <1>12, <1>13, <1>14, <1>15 DEF SweepInv

\* A sweep begins, for one credential or the next.
LEMMA SweepBegins ==
  ASSUME SweepsTypeOK, NEW job \in Jobs, NEW C \in SUBSET Compartment, NEW payload, NEW room \in Nat,
         sweep' = NewSweep(job, C, payload, room), UNCHANGED <<where, holder>>,
         listing' \in Seq(Resource), IsInjective(listing'), Len(listing') + room <= SweepLimit,
         job = "kubernetes" \/ listing' = <<>>
  PROVE  SweepInv'
<1>1. PICK s : s = sweep'
  OBVIOUS
<1>2. /\ DOMAIN s = Fields /\ s.pc = "regions" /\ s.job = job /\ s.compartments = C
      /\ s.room = room /\ s.left = Region /\ s.links = {} /\ s.lists = {} /\ s.attached = {}
      /\ s.seen = {} /\ s.rows = <<>> /\ s.loose = Loose /\ s.stayed = Resource
      /\ s.blind = (C # Compartment)
  BY <1>1 DEF NewSweep, Fields
<1>3. Loose \in SUBSET Resource /\ Loose' = Loose /\ ToSet(<<>>) = {} /\ IsInjective(<<>>)
      /\ Len(<<>>) = 0 /\ <<>> \in Seq(Resource)
  BY DEF Loose, ToSet, IsInjective
<1>4. SweepsTypeOK'
  BY <1>1, <1>2, <1>3 DEF SweepsTypeOK
<1>5. InTurn' /\ RowsOnce' /\ OneSweep'
  BY <1>1, <1>2, <1>3 DEF InTurn, RowsOnce, OneSweep, Running
<1>6. RoomFits'
  <2>1. Len(listing') \in Nat /\ SweepLimit \in Nat
    BY SweepBounds
  <2> QED BY <1>1, <1>2, <1>3, <2>1 DEF RoomFits, Running
<1>7. LooseKnown'
  <2>1. s.blind <=> C # Compartment
    BY <1>2
  <2> QED BY <1>1, <1>2, <1>3, <2>1 DEF LooseKnown
<1>8. NoneLost'
  <2>1. \A v \in Resource : RegionOf[v] \in Region
    BY SweepBounds
  <2> QED BY <1>1, <1>2, <2>1 DEF NoneLost, Expected
<1> QED BY <1>1, <1>2, <1>4, <1>5, <1>6, <1>7, <1>8 DEF SweepInv, RemovesLoose, SweepComplete

LEMMA SweepsStarts == SweepsInit => SweepInv
<1> SUFFICES ASSUME SweepsInit PROVE SweepInv
  OBVIOUS
<1>1. /\ sweep = NoSweep /\ sweep.pc = "idle" /\ listing = <<>> /\ where = [v \in Resource |-> Tenancy]
      /\ holder \in [Resource -> Compartment \cup {NoHolder}]
  BY DEF SweepsInit, NoSweep
<1>2. Tenancy \in Compartment /\ SweepLimit \in Nat
  BY SweepBounds
<1>3. IsInjective(<<>>) /\ Len(<<>>) = 0 /\ <<>> \in Seq(Resource)
  BY DEF IsInjective
<1>4. SweepsTypeOK
  BY <1>1, <1>2, <1>3 DEF SweepsTypeOK
<1> QED BY <1>1, <1>2, <1>3, <1>4 DEF SweepInv, InTurn, RowsOnce, RoomFits, OneSweep, LooseKnown,
          NoneLost, RemovesLoose, SweepComplete, Running

LEMMA SweepsStep == SweepInv /\ [SweepsNext(Jobs)]_sweepVars => SweepInv'
<1> SUFFICES ASSUME SweepInv, [SweepsNext(Jobs)]_sweepVars PROVE SweepInv'
  OBVIOUS
<1>1. CASE TenancyChanges
  BY <1>1, ChangeStep DEF TenancyChanges
<1>2. ASSUME NEW job \in Jobs, NEW C \in SUBSET Compartment, StartSweep(job, C) PROVE SweepInv'
  <2>1. SweepsTypeOK /\ SweepLimit \in Nat
    BY SweepBounds DEF SweepInv
  <2>2. sweep' = NewSweep(job, C, 1, SweepLimit) /\ UNCHANGED <<where, holder>> /\ listing' = <<>>
    BY <1>2 DEF StartSweep
  <2>3. listing' \in Seq(Resource) /\ IsInjective(listing') /\ Len(listing') + SweepLimit <= SweepLimit
    BY <2>1, <2>2 DEF IsInjective
  <2> QED BY <2>1, <2>2, <2>3, SweepBegins
<1>3. ASSUME NEW r \in Region, EnterRegion(r) \/ SkipRegion(r) PROVE SweepInv'
  BY <1>3, EnterRegionStep, SkipRegionStep
<1>4. ASSUME NEW call \in sweep.links, NEW ok \in BOOLEAN, ReadAttachments(call, ok) PROVE SweepInv'
  BY <1>4, ReadAttachmentsStep
<1>5. ASSUME NEW call \in sweep.lists, ReadList(call) \/ FailList(call) PROVE SweepInv'
  BY <1>5, ReadListStep, FailListStep
<1>6. CASE LeaveRegion
  BY <1>6, LeaveRegionStep
<1>7. CASE OutOfTime
  BY <1>7, OutOfTimeStep
<1>8. CASE EndSweep
  BY <1>8, EndSweepStep
<1>9. ASSUME NEW C \in SUBSET Compartment, NextPayload(C) PROVE SweepInv'
  <2>1. /\ sweep.pc = "done" /\ sweep.job = "kubernetes" /\ Len(listing) < SweepLimit
        /\ UNCHANGED <<where, holder, listing>>
        /\ sweep' = NewSweep(sweep.job, C, sweep.payload + 1, SweepLimit - Len(listing))
    BY <1>9 DEF NextPayload
  <2>2. /\ SweepsTypeOK /\ SweepLimit \in Nat /\ Len(listing) \in Nat /\ "kubernetes" \in Jobs
        /\ listing \in Seq(Resource) /\ IsInjective(listing)
    BY SweepBounds DEF SweepInv, SweepsTypeOK, RowsOnce, Jobs
  <2>3. /\ SweepLimit - Len(listing) \in Nat
        /\ Len(listing) + (SweepLimit - Len(listing)) <= SweepLimit
    BY <2>1, <2>2
  <2>4. PICK payload, room : payload = sweep.payload + 1 /\ room = SweepLimit - Len(listing)
    OBVIOUS
  <2>5. sweep' = NewSweep("kubernetes", C, payload, room) /\ room \in Nat
        /\ Len(listing') + room <= SweepLimit /\ listing' \in Seq(Resource) /\ IsInjective(listing')
    BY <2>1, <2>2, <2>3, <2>4
  <2> QED BY <2>1, <2>2, <2>5, SweepBegins
<1>10. CASE UNCHANGED sweepVars
  BY <1>10 DEF sweepVars, SweepInv, SweepsTypeOK, InTurn, RowsOnce, RoomFits, OneSweep, LooseKnown,
     NoneLost, RemovesLoose, SweepComplete, Running, Room, Loose, Expected, ListCalls
<1> QED BY <1>1, <1>2, <1>3, <1>4, <1>5, <1>6, <1>7, <1>8, <1>9, <1>10 DEF SweepsNext, Sweeping

\* For any tenancy, limit, number of credentials, and calls that fail while it changes:
\* a sweep shows each resource once and within its limit, recommends nothing that was
\* attached throughout for removal, and misses only what moved or could not be listed.
THEOREM SweepsTrueHolds == SweepsSpec => []SweepsTrue
<1>1. SweepsInit => SweepInv
  BY SweepsStarts
<1>2. SweepInv /\ [SweepsNext(Jobs)]_sweepVars => SweepInv'
  BY SweepsStep
<1>3. SweepInv => SweepsTrue
  BY DEF SweepInv, RowsOnce, RoomFits, SweepsTrue, ResourceOnce, RowsWithinLimit
<1> QED BY <1>1, <1>2, <1>3, PTL DEF SweepsSpec

-----------------------------------------------------------------------------
(* Virtual tags: TagsExplainedHolds.                                       *)

\* The rules differ by their ids, which have been given out.
TagsInv ==
    /\ tagRuleId \in Nat
    /\ \A r \in tagRules :
         /\ r = [id |-> r.id, active |-> r.active, form |-> r.form]
         /\ r.id \in 1..tagRuleId /\ r.form \in TagForm
    /\ \A r, q \in tagRules : r.id = q.id => r = q

\* The candidate that outranks the others, if there is one.
Firsts(C) == {c \in C : \A q \in C \ {c} : Outranks(c, q)}

\* Of two rules one outranks the other, by priority or by id.
LEMMA RanksTotal ==
  ASSUME TagsInv, NEW r \in tagRules, NEW q \in tagRules, r # q
  PROVE  (Outranks(r, q) \/ Outranks(q, r)) /\ ~(Outranks(r, q) /\ Outranks(q, r))
<1>1. r.id \in Int /\ q.id \in Int /\ r.id # q.id
  BY DEF TagsInv
<1>2. r.form.priority \in Int /\ q.form.priority \in Int
  BY TagBounds DEF TagsInv
<1> QED BY <1>1, <1>2 DEF Outranks

LEMMA RanksTransitive ==
  ASSUME TagsInv, NEW r \in tagRules, NEW q \in tagRules, NEW p \in tagRules,
         Outranks(r, q), Outranks(q, p)
  PROVE  Outranks(r, p)
<1>1. r.id \in Int /\ q.id \in Int /\ p.id \in Int
  BY DEF TagsInv
<1>2. r.form.priority \in Int /\ q.form.priority \in Int /\ p.form.priority \in Int
  BY TagBounds DEF TagsInv
<1> QED BY <1>1, <1>2 DEF Outranks

\* At most one candidate comes first.
LEMMA FirstIsOne ==
  ASSUME TagsInv, NEW C \in SUBSET tagRules, NEW c \in Firsts(C), NEW d \in Firsts(C)
  PROVE  c = d
BY RanksTotal DEF Firsts

\* A candidate that does not come first may go without changing who does.
LEMMA FirstStays ==
  ASSUME TagsInv, NEW C \in SUBSET tagRules, NEW r \in tagRules, r \notin Firsts(C)
  PROVE  Firsts(C \ {r}) = Firsts(C)
<1>1. ASSUME NEW c \in Firsts(C)
      PROVE  c \in Firsts(C \ {r})
  BY <1>1 DEF Firsts
<1>2. ASSUME NEW c \in Firsts(C \ {r})
      PROVE  c \in Firsts(C)
  <2>1. c \in C /\ c # r /\ \A q \in (C \ {r}) \ {c} : Outranks(c, q)
    BY <1>2 DEF Firsts
  <2>2. ASSUME r \in C, ~Outranks(c, r)
        PROVE  FALSE
    <3>1. Outranks(r, c)
      BY <2>1, <2>2, RanksTotal
    <3>2. \A q \in C \ {r} : Outranks(r, q)
      BY <2>1, <3>1, RanksTransitive
    <3> QED BY <2>2, <3>2 DEF Firsts
  <2> QED BY <2>1, <2>2 DEF Firsts
<1> QED BY <1>1, <1>2

LEMMA AppliedIs ==
  ASSUME NEW key, NEW item
  PROVE  /\ Applied(key, item) = {r.form.value : r \in Firsts(Candidates(key, item))}
         /\ key \in TagKeys =>
              \A r \in Firsts(Candidates(key, item)) : r.id \in Credited(item)
         /\ Candidates(key, item) \in SUBSET tagRules
<1>1. Candidates(key, item) \in SUBSET tagRules
  BY DEF Candidates
<1>2. Applied(key, item) = {r.form.value : r \in Firsts(Candidates(key, item))}
  BY DEF Applied, Firsts
<1>3. ASSUME key \in TagKeys, NEW r \in Firsts(Candidates(key, item))
      PROVE  r.id \in Credited(item)
  BY <1>3 DEF Credited, Firsts
<1> QED BY <1>1, <1>2, <1>3

LEMMA TagsStarts ==
  ASSUME TagsInit
  PROVE  TagsInv
BY DEF TagsInit, TagsInv

LEMMA TagsStep ==
  ASSUME TagsInv, [TagsNext]_tagVars
  PROVE  TagsInv'
<1>1. ASSUME NEW f \in TagForm, NEW active \in BOOLEAN, CreateTagRule(f, active)
      PROVE  TagsInv'
  BY <1>1 DEF CreateTagRule, TagsInv
<1>2. ASSUME NEW f \in TagForm, NEW active \in BOOLEAN, NEW r \in tagRules,
             UpdateTagRule(r, f, active)
      PROVE  TagsInv'
  BY <1>2 DEF UpdateTagRule, TagsInv
<1>3. ASSUME NEW r \in tagRules, DeleteTagRule(r)
      PROVE  TagsInv'
  BY <1>3 DEF DeleteTagRule, TagsInv
<1>4. ASSUME SnapshotsChange \/ UNCHANGED tagVars
      PROVE  TagsInv'
  BY <1>4 DEF SnapshotsChange, TagsInv, tagVars
<1> QED BY <1>1, <1>2, <1>3, <1>4 DEF TagsNext

LEMMA TagsAreCredited ==
  ASSUME TagsInv, NEW item
  PROVE  TagsCredited(item)
<1> SUFFICES ASSUME NEW key \in TagKeys
             PROVE  /\ Cardinality(Applied(key, item)) <= 1
                    /\ \A v \in Applied(key, item) :
                         \E r \in tagRules :
                            r.id \in Credited(item) /\ r.form.key = key /\ r.form.value = v
  BY DEF TagsCredited
<1> DEFINE F == Firsts(Candidates(key, item))
<1>1. /\ Applied(key, item) = {r.form.value : r \in F}
      /\ \A r \in F : r.id \in Credited(item)
      /\ Candidates(key, item) \in SUBSET tagRules
  BY AppliedIs
<1>2. \A c, d \in F : c = d
  BY <1>1, FirstIsOne
<1>3. \A r \in F : r \in tagRules /\ r.form.key = key
  BY <1>1 DEF Firsts, Candidates
<1> HIDE DEF F
<1>4. Applied(key, item) = {} \/ \E v : Applied(key, item) = {v}
  <2>1. CASE F = {}
    BY <1>1, <2>1
  <2>2. ASSUME NEW d \in F
        PROVE  Applied(key, item) = {d.form.value}
    BY <1>1, <1>2
  <2> QED BY <2>1, <2>2
<1>5. Cardinality(Applied(key, item)) \in {0, 1}
  <2>1. Applied(key, item) = {} => Cardinality(Applied(key, item)) = 0
    BY FS_EmptySet
  <2>2. ASSUME NEW v, Applied(key, item) = {v}
        PROVE  Cardinality(Applied(key, item)) = 1
    BY <2>2, FS_Singleton, Zenon
  <2> QED BY <1>4, <2>1, <2>2
<1>6. Cardinality(Applied(key, item)) <= 1
  BY <1>5
<1> QED BY <1>1, <1>3, <1>6

\* Deleting a rule that no preview credits for an item changes no tag of it.
LEMMA UncreditedStep ==
  ASSUME TagsInv, NEW r \in tagRules, NEW item, NEW key \in TagKeys,
         DeleteTagRule(r), r.id \notin Credited(item)
  PROVE  Applied(key, item)' = Applied(key, item)
<1> DEFINE C == Candidates(key, item)
<1>1. Candidates(key, item)' = C \ {r}
  BY DEF DeleteTagRule, Candidates, Matches
<1>2. C \in SUBSET tagRules /\ r \notin Firsts(C)
  BY AppliedIs
<1>3. Firsts(C \ {r}) = Firsts(C)
  BY <1>2, FirstStays
<1>4. Applied(key, item)' = {q.form.value : q \in Firsts(C \ {r})}
  BY <1>1 DEF Applied, Firsts, Outranks
<1>5. Applied(key, item) = {q.form.value : q \in Firsts(C)}
  BY AppliedIs
<1> QED BY <1>3, <1>4, <1>5

\* Every tag of a preview has one value, that of a rule credited for the item, and
\* deleting a rule credited with none of its tags changes none: for any number of
\* rules, of any priorities, and any items, whatever accounts and records hold.
THEOREM TagsExplainedHolds == TagsSpec => TagsExplained
<1>1. TagsSpec => []TagsInv
  BY TagsStarts, TagsStep, PTL DEF TagsSpec
<1>2. TagsInv => \A item \in Previewed : TagsCredited(item)
  BY TagsAreCredited
<1>3. TagsInv /\ [TagsNext]_tagVars =>
        [\A r \in tagRules, item \in Accounts \cup Imports :
           DeleteTagRule(r) /\ r.id \notin Credited(item) =>
              \A key \in TagKeys : Applied(key, item)' = Applied(key, item)]_tagVars
  BY UncreditedStep
<1> QED BY <1>1, <1>2, <1>3, PTL DEF TagsSpec, TagsExplained, UncreditedInert

-----------------------------------------------------------------------------
(* OCI cost reports: MonthsTrueHolds.                                      *)

Ingesting(w) == ingester[w].pc = "read"

ReportsTypeOK ==
    /\ files \in Seq(Report)
    /\ Len(files) <= MaxFiles
    /\ month \in Nat
    /\ ledger \in [1..MaxFiles -> {"none", "processed", "failed"}]
    /\ DOMAIN monthly = Month
    /\ basis \in [Month -> SUBSET DOMAIN files]
    /\ DOMAIN ingester = Ingester
    /\ \A w \in Ingester :
         \/ ingester[w] = NotRunning
         \/ /\ ingester[w].pc = "read"
            /\ ingester[w].listed \in SUBSET DOMAIN files
            /\ ingester[w].parsed \in SUBSET ingester[w].listed
    /\ overlapped \in BOOLEAN

\* What the rows of a file cost, of one month and some teams.
InFile(r, m, teams) ==
    SumOver([row \in r |-> row.cost], {row \in r : row.month = m /\ row.team \in teams})

\* What some of the files F cost.
InFiles(F, P, m, teams) == SumOver([f \in P |-> InFile(F[f], m, teams)], P)

TeamsIn(F, P, m) == {row.team : row \in {row \in UNION {F[f] : f \in P} : row.month = m}}

Entry(F, P, m, t) ==
    [team |-> t, total |-> InFiles(F, P, m, {t}),
     mapped |-> InFiles(F, P, m, {t} \ {NoTeam}), unmapped |-> InFiles(F, P, m, {t} \cap {NoTeam})]

Entries(F, P, m) == {Entry(F, P, m, t) : t \in TeamsIn(F, P, m)}

\* The summaries of a month are those of the files they were made from, which all
\* have rows of the month.
MadeFrom ==
    \A m \in Month :
        /\ monthly[m] = Entries(files, basis[m], m)
        /\ \A f \in basis[m] : m \in MonthsOf(f)

\* Until runs overlap there is one at a time.
OneRun == ~overlapped => \A v, w \in Ingester : Ingesting(v) /\ Ingesting(w) => v = w

\* The ledger knows files of the bucket only, and what a run has not listed it has
\* either left to an earlier listing or nobody has read.
LedgerKnows ==
    /\ \A f \in 1..MaxFiles : ledger[f] # "none" => f \in DOMAIN files
    /\ ~overlapped =>
         \A w \in Ingester : Ingesting(w) =>
            \A f \in DOMAIN files \ ingester[w].listed :
               \/ Len(files) - f >= MaxObjects
               \/ ledger[f] = "none" /\ \A m \in Month : f \notin basis[m]

ReportsInv == ReportsTypeOK /\ MadeFrom /\ OneRun /\ LedgerKnows /\ LedgerTrue

\* The operators of the model are sums over functions.
LEMMA CostSumIs ==
  ASSUME NEW S, IsFiniteSet(S), NEW f, \A x \in S : f[x] = x.cost
  PROVE  MapThenSumSet(LAMBDA x : x.cost, S) = SumOver(f, S)
<1> DEFINE Solves(g) ==
      g = [s \in SUBSET S |-> IF s = {} THEN 0 ELSE Picked(s).cost + g[s \ {Picked(s)}]]
<1>1. MapThenSumSet(LAMBDA x : x.cost, S) = (CHOOSE g : Solves(g))[S]
  BY Zenon DEF MapThenSumSet, MapThenFoldSet, Picked
<1>2. ASSUME NEW g
      PROVE  Solves(g) <=> SumSolution(g, f, SUBSET S)
  <2>1. \A s \in SUBSET S :
          (IF s = {} THEN 0 ELSE Picked(s).cost + g[s \ {Picked(s)}]) = SumRule(f, g, s)
    BY PickedIn DEF SumRule
  <2> QED BY <2>1 DEF SumSolution
<1> HIDE DEF Solves
<1>3. PICK g : g = (CHOOSE k : Solves(k))
  OBVIOUS
<1>4. SumSolution(g, f, SUBSET S)
  BY <1>2, <1>3, SumSolvable
<1>5. g[S] = SumOver(f, S)
  BY <1>4, SumSolved
<1> QED BY <1>1, <1>3, <1>5, Zenon

LEMMA TotalSumIs ==
  ASSUME NEW S, IsFiniteSet(S), NEW f, \A x \in S : f[x] = x.total
  PROVE  MapThenSumSet(LAMBDA x : x.total, S) = SumOver(f, S)
<1> DEFINE Solves(g) ==
      g = [s \in SUBSET S |-> IF s = {} THEN 0 ELSE Picked(s).total + g[s \ {Picked(s)}]]
<1>1. MapThenSumSet(LAMBDA x : x.total, S) = (CHOOSE g : Solves(g))[S]
  BY Zenon DEF MapThenSumSet, MapThenFoldSet, Picked
<1>2. ASSUME NEW g
      PROVE  Solves(g) <=> SumSolution(g, f, SUBSET S)
  <2>1. \A s \in SUBSET S :
          (IF s = {} THEN 0 ELSE Picked(s).total + g[s \ {Picked(s)}]) = SumRule(f, g, s)
    BY PickedIn DEF SumRule
  <2> QED BY <2>1 DEF SumSolution
<1> HIDE DEF Solves
<1>3. PICK g : g = (CHOOSE k : Solves(k))
  OBVIOUS
<1>4. SumSolution(g, f, SUBSET S)
  BY <1>2, <1>3, SumSolvable
<1>5. g[S] = SumOver(f, S)
  BY <1>4, SumSolved
<1> QED BY <1>1, <1>3, <1>5, Zenon

\* The inner sum of CostIn.
FileCost(f, m, teams) ==
    MapThenSumSet(LAMBDA row : row.cost, {row \in files[f] : row.month = m /\ row.team \in teams})

LEMMA FileSumIs ==
  ASSUME NEW S, IsFiniteSet(S), NEW m, NEW teams, NEW f, \A x \in S : f[x] = FileCost(x, m, teams)
  PROVE  CostIn(S, m, teams) = SumOver(f, S)
<1> DEFINE Solves(g) ==
      g = [s \in SUBSET S |->
             IF s = {} THEN 0 ELSE FileCost(Picked(s), m, teams) + g[s \ {Picked(s)}]]
<1>1. CostIn(S, m, teams) = (CHOOSE g : Solves(g))[S]
  BY Zenon DEF CostIn, FileCost, MapThenSumSet, MapThenFoldSet, Picked
<1>2. ASSUME NEW g
      PROVE  Solves(g) <=> SumSolution(g, f, SUBSET S)
  <2>1. \A s \in SUBSET S :
          (IF s = {} THEN 0 ELSE FileCost(Picked(s), m, teams) + g[s \ {Picked(s)}])
             = SumRule(f, g, s)
    BY PickedIn DEF SumRule
  <2> QED BY <2>1 DEF SumSolution
<1> HIDE DEF Solves
<1>3. PICK g : g = (CHOOSE k : Solves(k))
  OBVIOUS
<1>4. SumSolution(g, f, SUBSET S)
  BY <1>2, <1>3, SumSolvable
<1>5. g[S] = SumOver(f, S)
  BY <1>4, SumSolved
<1> QED BY <1>1, <1>3, <1>5, Zenon

\* A finite set of report files.
Sheets(F, P) == IsFiniteSet(P) /\ \A f \in P : F[f] \in Report

LEMMA InFileType ==
  ASSUME NEW r \in Report, NEW m, NEW teams
  PROVE  InFile(r, m, teams) \in Nat
<1>1. IsFiniteSet(r) /\ \A row \in r : row.cost \in Nat
  BY ReportBounds
<1>2. IsFiniteSet({row \in r : row.month = m /\ row.team \in teams})
  BY <1>1, FS_Subset
<1>3. \A x \in {row \in r : row.month = m /\ row.team \in teams} : [row \in r |-> row.cost][x] \in Nat
  BY <1>1
<1>4. SumOver([row \in r |-> row.cost], {row \in r : row.month = m /\ row.team \in teams}) \in Nat
  BY <1>2, <1>3, SumType
<1> QED BY <1>4 DEF InFile

LEMMA InFilesType ==
  ASSUME NEW F, NEW P, Sheets(F, P), NEW m, NEW teams
  PROVE  InFiles(F, P, m, teams) \in Nat
<1>1. PICK g : g = [f \in P |-> InFile(F[f], m, teams)]
  OBVIOUS
<1>2. \A x \in P : g[x] \in Nat
  BY <1>1, InFileType DEF Sheets
<1>3. SumOver(g, P) \in Nat
  BY <1>2, SumType DEF Sheets
<1> QED BY <1>1, <1>3 DEF InFiles

\* A file has no costs of a month that it has no rows of.
LEMMA NothingInFile ==
  ASSUME NEW r \in Report, NEW m, m \notin {row.month : row \in r}, NEW teams
  PROVE  InFile(r, m, teams) = 0
<1>1. {row \in r : row.month = m /\ row.team \in teams} = {}
  OBVIOUS
<1> QED BY <1>1, SumEmpty DEF InFile

\* The teams share the costs of a file.
LEMMA TeamsShareFile ==
  ASSUME NEW r \in Report, NEW m, NEW A, NEW B, A \cap B = {}
  PROVE  InFile(r, m, A \cup B) = InFile(r, m, A) + InFile(r, m, B)
<1>1. PICK S, T, c : /\ S = {row \in r : row.month = m /\ row.team \in A}
                     /\ T = {row \in r : row.month = m /\ row.team \in B}
                     /\ c = [row \in r |-> row.cost]
  OBVIOUS
<1>2. IsFiniteSet(r) /\ \A row \in r : row.cost \in Nat
  BY ReportBounds
<1>3. IsFiniteSet(S) /\ IsFiniteSet(T) /\ S \cap T = {}
  BY <1>1, <1>2, FS_Subset
<1>4. \A x \in S \cup T : c[x] \in Int
  BY <1>1, <1>2
<1>5. SumOver(c, S \cup T) = SumOver(c, S) + SumOver(c, T)
  BY <1>3, <1>4, SumUnion
<1>6. {row \in r : row.month = m /\ row.team \in A \cup B} = S \cup T
  BY <1>1
<1> QED BY <1>1, <1>5, <1>6, Zenon DEF InFile

LEMMA TeamsShare ==
  ASSUME NEW F, NEW P, Sheets(F, P), NEW m, NEW A, NEW B, A \cap B = {}
  PROVE  InFiles(F, P, m, A \cup B) = InFiles(F, P, m, A) + InFiles(F, P, m, B)
<1>1. PICK f, g, h : /\ f = [x \in P |-> InFile(F[x], m, A)]
                     /\ g = [x \in P |-> InFile(F[x], m, B)]
                     /\ h = [x \in P |-> InFile(F[x], m, A \cup B)]
  OBVIOUS
<1>2. \A x \in P : f[x] \in Int /\ g[x] \in Int /\ h[x] = f[x] + g[x]
  <2> TAKE x \in P
  <2>1. F[x] \in Report
    BY DEF Sheets
  <2>2. f[x] = InFile(F[x], m, A) /\ g[x] = InFile(F[x], m, B) /\ h[x] = InFile(F[x], m, A \cup B)
    BY <1>1
  <2>3. f[x] \in Nat /\ g[x] \in Nat
    BY <2>1, <2>2, InFileType
  <2>4. h[x] = f[x] + g[x]
    BY <2>1, <2>2, TeamsShareFile
  <2> QED BY <2>3, <2>4
<1>3. SumOver(h, P) = SumOver(f, P) + SumOver(g, P)
  BY <1>2, SumPlus DEF Sheets
<1> QED BY <1>1, <1>3, Zenon DEF InFiles

\* Files without rows of the month may be left out.
LEMMA OthersAddNothing ==
  ASSUME NEW F, NEW P, Sheets(F, P), NEW m,
         NEW Q, Q = {f \in P : m \in {row.month : row \in F[f]}}, NEW teams
  PROVE  InFiles(F, P, m, teams) = InFiles(F, Q, m, teams)
<1>1. PICK g, h : /\ g = [x \in P |-> InFile(F[x], m, teams)]
                  /\ h = [x \in Q |-> InFile(F[x], m, teams)]
  OBVIOUS
<1>2. \A x \in P : g[x] \in Int
  BY <1>1, InFileType DEF Sheets
<1>3. \A x \in P \ Q : g[x] = 0
  BY <1>1, NothingInFile DEF Sheets
<1>4. SumOver(g, P) = SumOver(g, Q)
  BY <1>2, <1>3, SumOfPart DEF Sheets
<1>5. SumOver(g, Q) = SumOver(h, Q)
  <2>1. IsFiniteSet(Q)
    BY FS_Subset DEF Sheets
  <2> QED BY <1>1, <2>1, SumAgree
<1> QED BY <1>1, <1>4, <1>5, Zenon DEF InFiles

LEMMA OthersEnterNothing ==
  ASSUME NEW F, NEW P, Sheets(F, P), NEW m,
         NEW Q, Q = {f \in P : m \in {row.month : row \in F[f]}}
  PROVE  Entries(F, P, m) = Entries(F, Q, m)
<1>1. TeamsIn(F, P, m) = TeamsIn(F, Q, m)
  BY DEF TeamsIn
<1>2. ASSUME NEW t
      PROVE  Entry(F, P, m, t) = Entry(F, Q, m, t)
  BY OthersAddNothing DEF Entry
<1> QED BY <1>1, <1>2 DEF Entries

\* Only the files that are added up matter.
LEMMA SameFiles ==
  ASSUME NEW F, NEW G, NEW P, \A f \in P : F[f] = G[f], NEW m
  PROVE  Entries(F, P, m) = Entries(G, P, m)
<1>1. ASSUME NEW teams
      PROVE  InFiles(F, P, m, teams) = InFiles(G, P, m, teams)
  <2>1. [f \in P |-> InFile(F[f], m, teams)] = [f \in P |-> InFile(G[f], m, teams)]
    OBVIOUS
  <2> QED BY <2>1, Zenon DEF InFiles
<1>2. TeamsIn(F, P, m) = TeamsIn(G, P, m)
  BY DEF TeamsIn
<1>3. ASSUME NEW t
      PROVE  Entry(F, P, m, t) = Entry(G, P, m, t)
  BY <1>1 DEF Entry
<1> QED BY <1>2, <1>3 DEF Entries

\* The costs of some teams are the sum of those of each.
LEMMA TeamByTeam ==
  ASSUME NEW F, NEW P, Sheets(F, P), NEW m, NEW T, IsFiniteSet(T),
         NEW f, f = [t \in T |-> InFiles(F, P, m, {t})]
  PROVE  InFiles(F, P, m, T) = SumOver(f, T)
<1>1. PICK g : g = [A \in SUBSET T |-> InFiles(F, P, m, A)]
  OBVIOUS
<1>2. g[{}] = 0
  <2>1. InFiles(F, P, m, {}) = InFiles(F, P, m, {}) + InFiles(F, P, m, {})
    <3>1. PICK e : e = {}
      OBVIOUS
    <3>2. e \cap e = {} /\ e \cup e = e
      BY <3>1
    <3>3. InFiles(F, P, m, e \cup e) = InFiles(F, P, m, e) + InFiles(F, P, m, e)
      BY <3>2, TeamsShare
    <3> QED BY <3>1, <3>2, <3>3, Zenon
  <2>2. InFiles(F, P, m, {}) \in Nat
    BY InFilesType
  <2>3. InFiles(F, P, m, {}) = 0
    <3>1. PICK z : z = InFiles(F, P, m, {})
      OBVIOUS
    <3>2. z = z + z /\ z \in Nat
      BY <2>1, <2>2, <3>1
    <3>3. z = 0
      BY <3>2
    <3> QED BY <3>1, <3>3
  <2> QED BY <1>1, <2>3
<1>3. \A x \in T : f[x] \in Int
  BY InFilesType
<1>4. ASSUME NEW A \in SUBSET T, NEW x \in T \ A
      PROVE  g[A \cup {x}] = g[A] + f[x]
  <2>1. A \cap {x} = {}
    OBVIOUS
  <2>2. InFiles(F, P, m, A \cup {x}) = InFiles(F, P, m, A) + InFiles(F, P, m, {x})
    BY <2>1, TeamsShare
  <2>3. g[A \cup {x}] = InFiles(F, P, m, A \cup {x}) /\ g[A] = InFiles(F, P, m, A)
    BY <1>1
  <2> QED BY <2>2, <2>3
<1>5. g[T] = SumOver(f, T)
  <2>1. Accumulates(g, f, T)
    BY <1>2, <1>4 DEF Accumulates
  <2> QED BY <1>3, <2>1, SumDetermined
<1> QED BY <1>1, <1>5

LEMMA FilesAreSheets ==
  ASSUME ReportsTypeOK, NEW P \in SUBSET DOMAIN files
  PROVE  Sheets(files, P)
<1>1. Len(files) \in Nat /\ DOMAIN files = 1..Len(files) /\ \A f \in 1..Len(files) : files[f] \in Report
  BY DEF ReportsTypeOK
<1>2. IsFiniteSet(P)
  <2>1. 1 \in Int /\ Len(files) \in Int
    BY <1>1
  <2>2. IsFiniteSet(1..Len(files))
    BY <2>1, FS_Interval
  <2> QED BY <1>1, <2>2, FS_Subset
<1> QED BY <1>1, <1>2 DEF Sheets

LEMMA CostInIs ==
  ASSUME NEW P, Sheets(files, P), NEW m, NEW teams
  PROVE  CostIn(P, m, teams) = InFiles(files, P, m, teams)
<1>1. PICK g : g = [f \in P |-> InFile(files[f], m, teams)]
  OBVIOUS
<1>2. ASSUME NEW x \in P
      PROVE  g[x] = FileCost(x, m, teams)
  <2>1. PICK R, c : /\ R = {row \in files[x] : row.month = m /\ row.team \in teams}
                    /\ c = [row \in files[x] |-> row.cost]
    OBVIOUS
  <2>2. IsFiniteSet(R)
    BY <2>1, FS_Subset, ReportBounds DEF Sheets
  <2>3. \A row \in R : c[row] = row.cost
    BY <2>1
  <2>4. MapThenSumSet(LAMBDA row : row.cost, R) = SumOver(c, R)
    BY <2>2, <2>3, CostSumIs
  <2> QED BY <1>1, <2>1, <2>4, Zenon DEF FileCost, InFile
<1>3. CostIn(P, m, teams) = SumOver(g, P)
  BY <1>2, FileSumIs DEF Sheets
<1> QED BY <1>1, <1>3, Zenon DEF InFiles

LEMMA MergedIs ==
  ASSUME NEW P, Sheets(files, P), NEW m
  PROVE  Merged(P, m) = Entries(files, P, m)
<1>1. TeamsOf(P, m) = TeamsIn(files, P, m)
  BY DEF TeamsOf, TeamsIn
<1>2. ASSUME NEW t
      PROVE  [team |-> t, total |-> CostIn(P, m, {t}), mapped |-> CostIn(P, m, {t} \ {NoTeam}),
              unmapped |-> CostIn(P, m, {t} \cap {NoTeam})] = Entry(files, P, m, t)
  BY CostInIs DEF Entry
<1> QED BY <1>1, <1>2 DEF Merged, Entries

LEMMA TeamsAreFinite ==
  ASSUME NEW F, NEW P, Sheets(F, P), NEW m
  PROVE  IsFiniteSet(TeamsIn(F, P, m))
<1>1. PICK S, R : S = {F[f] : f \in P} /\ R = {row \in UNION S : row.month = m}
  OBVIOUS
<1>2. IsFiniteSet(S)
  <2>1. [f \in P |-> F[f]] \in Surjection(P, S)
    BY <1>1 DEF Surjection
  <2> QED BY <2>1, FS_Surjection DEF Sheets
<1>3. \A r \in S : IsFiniteSet(r)
  BY <1>1, ReportBounds DEF Sheets
<1>4. IsFiniteSet(UNION S)
  BY <1>2, <1>3, FS_UNION
<1>5. IsFiniteSet(R)
  BY <1>1, <1>4, FS_Subset
<1>6. TeamsIn(F, P, m) = {row.team : row \in R}
  BY <1>1, Zenon DEF TeamsIn
<1>7. [row \in R |-> row.team] \in Surjection(R, TeamsIn(F, P, m))
  BY <1>6 DEF Surjection
<1> QED BY <1>5, <1>7, FS_Surjection

\* What is summed up by month is what the files cost.
LEMMA EntriesAddUp ==
  ASSUME NEW F, NEW P, Sheets(F, P), NEW m, NEW E, E = Entries(F, P, m)
  PROVE  /\ MapThenSumSet(LAMBDA s : s.total, E) = InFiles(F, P, m, TeamsIn(F, P, m))
         /\ \A s \in E : s.mapped + s.unmapped = s.total
         /\ \A s, t \in E : s.team = t.team => s = t
<1>1. PICK T, e, f, h :
        /\ T = TeamsIn(F, P, m)
        /\ e = [t \in T |-> Entry(F, P, m, t)]
        /\ f = [s \in E |-> s.total]
        /\ h = [t \in T |-> InFiles(F, P, m, {t})]
  OBVIOUS
<1>2. E = {e[t] : t \in T}
  BY <1>1 DEF Entries
<1>3. IsFiniteSet(T)
  BY <1>1, TeamsAreFinite
<1>4. IsFiniteSet(E)
  <2>1. e \in Surjection(T, E)
    BY <1>1, <1>2 DEF Surjection
  <2> QED BY <1>3, <2>1, FS_Surjection
<1>5. \A t \in T : e[t].team = t /\ e[t].total = h[t]
  BY <1>1 DEF Entry
<1>6. \A t \in T : h[t] \in Int /\ f[e[t]] = h[t]
  <2> TAKE t \in T
  <2>1. h[t] \in Nat
    BY <1>1, InFilesType
  <2>2. e[t] \in E
    BY <1>2
  <2>3. f[e[t]] = h[t]
    BY <1>1, <1>5, <2>2
  <2> QED BY <2>1, <2>3
<1>7. \A x, y \in T : e[x] = e[y] => x = y
  BY <1>5
<1>8. MapThenSumSet(LAMBDA s : s.total, E) = InFiles(F, P, m, TeamsIn(F, P, m))
  <2>1. \A s \in E : f[s] = s.total
    BY <1>1
  <2>2. MapThenSumSet(LAMBDA s : s.total, E) = SumOver(f, E)
    BY <1>4, <2>1, TotalSumIs
  <2>3. SumOver(f, {e[t] : t \in T}) = SumOver(h, T)
    BY <1>3, <1>6, <1>7, SumImage
  <2>4. InFiles(F, P, m, T) = SumOver(h, T)
    <3>1. h = [t \in T |-> InFiles(F, P, m, {t})]
      BY <1>1
    <3> QED BY <1>3, <3>1, TeamByTeam
  <2> QED BY <1>1, <1>2, <2>2, <2>3, <2>4, Zenon
<1>9. ASSUME NEW s \in E
      PROVE  s.mapped + s.unmapped = s.total
  <2>1. PICK t \in T : s = Entry(F, P, m, t)
    BY <1>1, <1>2
  <2>2. PICK A, B : A = {t} \ {NoTeam} /\ B = {t} \cap {NoTeam}
    OBVIOUS
  <2>3. A \cap B = {} /\ A \cup B = {t}
    BY <2>2
  <2>4. InFiles(F, P, m, A \cup B) = InFiles(F, P, m, A) + InFiles(F, P, m, B)
    BY <2>3, TeamsShare
  <2>5. /\ s.mapped = InFiles(F, P, m, A) /\ s.unmapped = InFiles(F, P, m, B)
        /\ s.total = InFiles(F, P, m, {t})
    BY <2>1, <2>2 DEF Entry
  <2> QED BY <2>3, <2>4, <2>5
<1>10. \A s, t \in E : s.team = t.team => s = t
  BY <1>2, <1>5
<1> QED BY <1>8, <1>9, <1>10

LEMMA MonthsAddUp ==
  ASSUME ReportsTypeOK, MadeFrom
  PROVE  MonthAddsUp
<1> SUFFICES ASSUME NEW m \in Month
             PROVE  /\ MonthTotal(m) = CostIn(basis[m], m, TeamsOf(basis[m], m))
                    /\ \A s \in monthly[m] : s.mapped + s.unmapped = s.total
                    /\ \A s, t \in monthly[m] : s.team = t.team => s = t
  BY DEF MonthAddsUp
<1>1. PICK P, E : P = basis[m] /\ E = monthly[m]
  OBVIOUS
<1>2. P \in SUBSET DOMAIN files
  BY <1>1 DEF ReportsTypeOK
<1>3. Sheets(files, P)
  BY <1>2, FilesAreSheets
<1>4. E = Entries(files, P, m)
  BY <1>1 DEF MadeFrom
<1>5. TeamsOf(P, m) = TeamsIn(files, P, m)
  BY DEF TeamsOf, TeamsIn
<1>6. /\ MapThenSumSet(LAMBDA s : s.total, E) = InFiles(files, P, m, TeamsIn(files, P, m))
      /\ \A s \in E : s.mapped + s.unmapped = s.total
      /\ \A s, t \in E : s.team = t.team => s = t
  BY <1>3, <1>4, EntriesAddUp
<1>7. CostIn(P, m, TeamsIn(files, P, m)) = InFiles(files, P, m, TeamsIn(files, P, m))
  BY <1>3, CostInIs
<1>8. MonthTotal(m) = CostIn(P, m, TeamsOf(P, m))
  BY <1>1, <1>5, <1>6, <1>7, Zenon DEF MonthTotal
<1> QED BY <1>1, <1>6, <1>8, Zenon

LEMMA ReportsStarts ==
  ASSUME ReportsInit
  PROVE  ReportsInv
<1>1. files = <<>> /\ DOMAIN files = {}
  BY DEF ReportsInit
<1>2. ReportsTypeOK
  <2>1. files \in Seq(Report) /\ Len(files) <= MaxFiles
    BY <1>1, ReportBounds
  <2>2. month \in Nat /\ overlapped \in BOOLEAN /\ DOMAIN monthly = Month
    BY DEF ReportsInit
  <2>3. ledger \in [1..MaxFiles -> {"none", "processed", "failed"}]
    BY DEF ReportsInit
  <2>4. basis \in [Month -> SUBSET DOMAIN files]
    BY <1>1 DEF ReportsInit
  <2>5. DOMAIN ingester = Ingester /\ \A w \in Ingester : ingester[w] = NotRunning
    BY DEF ReportsInit
  <2> QED BY <2>1, <2>2, <2>3, <2>4, <2>5 DEF ReportsTypeOK
<1>3. MadeFrom
  <2>1. \A m : Entries(files, {}, m) = {}
    BY DEF Entries, TeamsIn
  <2> QED BY <2>1 DEF ReportsInit, MadeFrom
<1>4. OneRun /\ LedgerKnows /\ LedgerTrue
  BY <1>1 DEF ReportsInit, OneRun, LedgerKnows, LedgerTrue, Ingesting, NotRunning
<1> QED BY <1>2, <1>3, <1>4 DEF ReportsInv

\* A run is idle or reads.
LEMMA IdleOrReading ==
  ASSUME ReportsTypeOK, NEW w \in Ingester
  PROVE  /\ Ingesting(w) <=> ingester[w] # NotRunning
         /\ ~Ingesting(w) => ingester[w] = NotRunning
         /\ Ingesting(w) =>
              /\ ingester[w].listed \in SUBSET DOMAIN files
              /\ ingester[w].parsed \in SUBSET ingester[w].listed
<1>1. NotRunning.pc # "read"
  BY DEF NotRunning
<1> QED BY <1>1 DEF ReportsTypeOK, Ingesting

LEMMA PublishStep ==
  ASSUME ReportsInv, NEW r \in Report, Publish(r)
  PROVE  ReportsInv'
<1>1. /\ files' = Append(files, r) /\ Len(files) < MaxFiles /\ month' = month
      /\ ledger' = ledger /\ monthly' = monthly /\ basis' = basis /\ ingester' = ingester
      /\ overlapped' = overlapped
  BY DEF Publish
<1>2. ReportsTypeOK /\ MadeFrom /\ OneRun /\ LedgerKnows /\ LedgerTrue
  BY DEF ReportsInv
<1>3. /\ files \in Seq(Report) /\ files' \in Seq(Report)
      /\ Len(files) \in Nat /\ Len(files') = Len(files) + 1 /\ DOMAIN files = 1..Len(files)
      /\ DOMAIN files' = 1..(Len(files) + 1)
      /\ \A f \in DOMAIN files : f \in DOMAIN files' /\ files'[f] = files[f]
  BY <1>1, <1>2 DEF ReportsTypeOK
<1>4. ReportsTypeOK'
  <2>1. Len(files') <= MaxFiles
    BY <1>1, <1>3, ReportBounds
  <2>2. basis \in [Month -> SUBSET DOMAIN files']
    BY <1>2, <1>3 DEF ReportsTypeOK
  <2>3. \A w \in Ingester :
          \/ ingester[w] = NotRunning
          \/ /\ ingester[w].pc = "read"
             /\ ingester[w].listed \in SUBSET DOMAIN files'
             /\ ingester[w].parsed \in SUBSET ingester[w].listed
    BY <1>2, <1>3 DEF ReportsTypeOK
  <2> QED BY <1>1, <1>2, <1>3, <2>1, <2>2, <2>3 DEF ReportsTypeOK, Month
<1>5. MadeFrom'
  <2> SUFFICES ASSUME NEW m \in Month
               PROVE  /\ monthly'[m] = Entries(files', basis'[m], m)
                      /\ \A f \in basis'[m] : m \in MonthsOf(f)'
    BY DEF MadeFrom, Month
  <2>1. basis[m] \in SUBSET DOMAIN files
    BY <1>2 DEF ReportsTypeOK
  <2>2. \A f \in basis[m] : files'[f] = files[f]
    BY <1>3, <2>1
  <2>3. Entries(files', basis[m], m) = Entries(files, basis[m], m)
    BY <2>2, SameFiles
  <2>4. \A f \in basis[m] : MonthsOf(f)' = MonthsOf(f)
    BY <2>2 DEF MonthsOf
  <2> QED BY <1>1, <1>2, <2>3, <2>4 DEF MadeFrom
<1>6. OneRun'
  BY <1>1, <1>2 DEF OneRun, Ingesting
<1>7. LedgerKnows'
  <2>1. \A f \in 1..MaxFiles : ledger[f] # "none" => f \in DOMAIN files'
    BY <1>2, <1>3 DEF LedgerKnows
  <2>2. ASSUME NEW w \in Ingester, Ingesting(w), ~overlapped,
               NEW f \in DOMAIN files' \ ingester[w].listed
        PROVE  \/ Len(files') - f >= MaxObjects
               \/ ledger[f] = "none" /\ \A m \in Month : f \notin basis[m]
    <3>1. CASE f \in DOMAIN files
      <4>1. \/ Len(files) - f >= MaxObjects
            \/ ledger[f] = "none" /\ \A m \in Month : f \notin basis[m]
        BY <1>2, <2>2, <3>1 DEF LedgerKnows
      <4> QED BY <1>3, <3>1, <4>1, ReportBounds
    <3>2. CASE f \notin DOMAIN files
      <4>1. f \in 1..MaxFiles
        BY <1>1, <1>3, ReportBounds
      <4>2. ledger[f] = "none"
        BY <1>2, <3>2, <4>1 DEF LedgerKnows
      <4> QED BY <1>2, <3>2, <4>2 DEF ReportsTypeOK
    <3> QED BY <3>1, <3>2
  <2> QED BY <1>1, <2>1, <2>2 DEF LedgerKnows, Ingesting, Month
<1>8. LedgerTrue'
  <2> SUFFICES ASSUME ~overlapped, Len(files') <= MaxObjects, NEW f \in DOMAIN files',
                      NEW m \in Month, ledger[f] = "processed", m \in MonthsOf(f)', m >= Cutoff
               PROVE  f \in basis[m]
    BY <1>1 DEF LedgerTrue, Cutoff, Month
  <2>1. f \in DOMAIN files
    BY <1>2, <1>3, <1>1, ReportBounds DEF LedgerKnows
  <2>2. m \in MonthsOf(f)
    BY <1>3, <2>1 DEF MonthsOf
  <2>3. Len(files) <= MaxObjects
    BY <1>3, ReportBounds
  <2> QED BY <1>2, <2>1, <2>2, <2>3 DEF LedgerTrue
<1> QED BY <1>4, <1>5, <1>6, <1>7, <1>8 DEF ReportsInv

LEMMA NextMonthStep ==
  ASSUME ReportsInv, NextMonth
  PROVE  ReportsInv'
<1>1. /\ files' = files /\ month' = month + 1
      /\ ledger' = ledger /\ monthly' = monthly /\ basis' = basis /\ ingester' = ingester
      /\ overlapped' = overlapped
  BY DEF NextMonth
<1>2. ReportsTypeOK /\ MadeFrom /\ OneRun /\ LedgerKnows /\ LedgerTrue
  BY DEF ReportsInv
<1>3. ReportsTypeOK'
  <2>1. month' \in Nat
    BY <1>1, <1>2 DEF ReportsTypeOK
  <2> QED BY <1>1, <1>2, <2>1 DEF ReportsTypeOK, Month
<1>4. MadeFrom'
  BY <1>1, <1>2 DEF MadeFrom, MonthsOf, Month
<1>5. OneRun' /\ LedgerKnows'
  BY <1>1, <1>2 DEF OneRun, LedgerKnows, Ingesting, Month
<1>6. LedgerTrue'
  <2> SUFFICES ASSUME ~overlapped, Len(files) <= MaxObjects, NEW f \in DOMAIN files,
                      NEW m \in Month, ledger[f] = "processed", m \in MonthsOf(f),
                      m >= (month + 1) - Lookback + 1
               PROVE  f \in basis[m]
    BY <1>1 DEF LedgerTrue, Cutoff, Month, MonthsOf
  <2>1. m >= Cutoff
    BY <1>2, ReportBounds DEF Cutoff, ReportsTypeOK, Month
  <2> QED BY <1>2, <2>1 DEF LedgerTrue
<1> QED BY <1>3, <1>4, <1>5, <1>6 DEF ReportsInv

LEMMA ReadReportsStep ==
  ASSUME ReportsInv, NEW w \in Ingester, NEW failing \in SUBSET Listed, ReadReports(w, failing)
  PROVE  ReportsInv'
<1>1. /\ files' = files /\ month' = month /\ ledger' = ledger /\ monthly' = monthly
      /\ basis' = basis
  BY DEF ReadReports
<1>2. ReportsTypeOK /\ MadeFrom /\ OneRun /\ LedgerKnows /\ LedgerTrue
  BY DEF ReportsInv
<1>3. PICK run : run = [pc |-> "read", listed |-> Listed, parsed |-> Listed \ failing,
                        known |-> {f \in Listed : ledger[f] # "none"}]
  OBVIOUS
<1>4. /\ ingester' = [ingester EXCEPT ![w] = run]
      /\ overlapped' = (overlapped \/ \E v \in Ingester : ingester[v] # NotRunning)
      /\ ingester[w] = NotRunning
  BY <1>3 DEF ReadReports
<1>5. run.pc = "read" /\ run.listed = Listed /\ run.parsed = Listed \ failing
  BY <1>3
<1>6. /\ DOMAIN ingester' = Ingester /\ ingester'[w] = run
      /\ \A v \in Ingester \ {w} : ingester'[v] = ingester[v]
  BY <1>2, <1>4 DEF ReportsTypeOK
<1>7. Listed \in SUBSET DOMAIN files
  BY DEF Listed
<1>8. overlapped' \in BOOLEAN
  BY <1>4
<1>9. ReportsTypeOK'
  BY <1>1, <1>2, <1>5, <1>6, <1>7, <1>8 DEF ReportsTypeOK, Month
<1>10. MadeFrom'
  BY <1>1, <1>2 DEF MadeFrom, MonthsOf, Month
<1>11. ASSUME ~overlapped'
       PROVE  ~overlapped /\ \A v \in Ingester : ~Ingesting(v)
  BY <1>2, <1>4, <1>11, IdleOrReading
<1>12. OneRun'
  BY <1>6, <1>11 DEF OneRun, Ingesting
<1>13. LedgerKnows'
  <2> SUFFICES ASSUME ~overlapped', NEW v \in Ingester, Ingesting(v)',
                      NEW f \in DOMAIN files \ ingester'[v].listed
               PROVE  \/ Len(files) - f >= MaxObjects
                      \/ ledger[f] = "none" /\ \A m \in Month : f \notin basis[m]
    BY <1>1, <1>2 DEF LedgerKnows, Month
  <2>1. v = w
    BY <1>6, <1>11 DEF Ingesting
  <2>2. f \in DOMAIN files /\ f \notin Listed
    BY <1>5, <1>6, <2>1
  <2>3. Len(files) \in Nat /\ DOMAIN files = 1..Len(files)
    BY <1>2 DEF ReportsTypeOK
  <2>4. ~(f > Len(files) - MaxObjects)
    BY <2>2 DEF Listed
  <2> QED BY <2>2, <2>3, <2>4, ReportBounds
<1>14. LedgerTrue'
  BY <1>1, <1>2, <1>11 DEF LedgerTrue, MonthsOf, Cutoff, Month
<1> QED BY <1>9, <1>10, <1>12, <1>13, <1>14 DEF ReportsInv

LEMMA RollBackStep ==
  ASSUME ReportsInv, NEW w \in Ingester, RollBack(w)
  PROVE  ReportsInv'
<1>1. /\ files' = files /\ month' = month /\ ledger' = ledger /\ monthly' = monthly
      /\ basis' = basis /\ overlapped' = overlapped
      /\ ingester' = [ingester EXCEPT ![w] = NotRunning]
  BY DEF RollBack
<1>2. ReportsTypeOK /\ MadeFrom /\ OneRun /\ LedgerKnows /\ LedgerTrue
  BY DEF ReportsInv
<1>3. /\ DOMAIN ingester' = Ingester /\ ingester'[w] = NotRunning
      /\ \A v \in Ingester \ {w} : ingester'[v] = ingester[v]
  BY <1>1, <1>2 DEF ReportsTypeOK
<1>4. NotRunning.pc # "read"
  BY DEF NotRunning
<1>5. \A v \in Ingester : Ingesting(v)' => v # w /\ Ingesting(v) /\ ingester'[v] = ingester[v]
  BY <1>3, <1>4 DEF Ingesting
<1>6. ReportsTypeOK'
  BY <1>1, <1>2, <1>3 DEF ReportsTypeOK, Month
<1>7. MadeFrom' /\ LedgerTrue'
  BY <1>1, <1>2 DEF MadeFrom, MonthsOf, Month, LedgerTrue, Cutoff
<1>8. OneRun'
  BY <1>1, <1>2, <1>5 DEF OneRun
<1>9. LedgerKnows'
  BY <1>1, <1>2, <1>5 DEF LedgerKnows, Month
<1> QED BY <1>6, <1>7, <1>8, <1>9 DEF ReportsInv

\* The months that a run rewrites, and what it leaves of them.
MonthMet(w, m) == m \in UNION {MonthsOf(f) : f \in ingester[w].parsed} /\ m >= Cutoff

LEMMA CommitWrites ==
  ASSUME ReportsInv, NEW w \in Ingester, CommitReports(w)
  PROVE  /\ files' = files /\ month' = month /\ overlapped' = overlapped
         /\ ledger' = LedgerAfter(w) /\ DOMAIN monthly' = Month
         /\ DOMAIN ingester' = Ingester /\ ingester'[w] = NotRunning
         /\ \A v \in Ingester \ {w} : ingester'[v] = ingester[v]
         /\ DOMAIN basis' = Month
         /\ \A m \in Month :
              IF MonthMet(w, m)
              THEN /\ monthly'[m] = Merged(ingester[w].parsed, m)
                   /\ basis'[m] = {f \in ingester[w].parsed : m \in MonthsOf(f)}
              ELSE monthly'[m] = monthly[m] /\ basis'[m] = basis[m]
<1>1. DOMAIN ingester = Ingester
  BY DEF ReportsInv, ReportsTypeOK
<1>2. /\ files' = files /\ month' = month /\ overlapped' = overlapped
      /\ ledger' = LedgerAfter(w) /\ monthly' = Rewritten(w)
      /\ ingester' = [ingester EXCEPT ![w] = NotRunning]
      /\ basis' = [m \in Month |-> IF MonthMet(w, m)
                                   THEN {f \in ingester[w].parsed : m \in MonthsOf(f)}
                                   ELSE basis[m]]
  BY DEF CommitReports, MonthMet
<1>3. Rewritten(w) = [m \in Month |-> IF MonthMet(w, m) THEN Merged(ingester[w].parsed, m) ELSE monthly[m]]
  BY DEF Rewritten, MonthMet
<1> QED BY <1>1, <1>2, <1>3

LEMMA LedgerAfterIs ==
  ASSUME NEW w, NEW f \in 1..MaxFiles
  PROVE  /\ LedgerAfter(w) = [g \in 1..MaxFiles |-> LedgerAfter(w)[g]]
         /\ LedgerAfter(w)[f] = IF f \in ingester[w].parsed THEN "processed"
                                ELSE IF f \in ingester[w].listed THEN "failed" ELSE ledger[f]
BY DEF LedgerAfter

LEMMA CommitReportsStep ==
  ASSUME ReportsInv, NEW w \in Ingester, CommitReports(w)
  PROVE  ReportsInv'
<1>1. ReportsTypeOK /\ MadeFrom /\ OneRun /\ LedgerKnows /\ LedgerTrue
  BY DEF ReportsInv
<1>2. PICK P, L : P = ingester[w].parsed /\ L = ingester[w].listed
  OBVIOUS
<1>3. Ingesting(w) /\ P \in SUBSET L /\ L \in SUBSET DOMAIN files
  BY <1>1, <1>2, IdleOrReading DEF CommitReports, Ingesting
<1>4. /\ files' = files /\ month' = month /\ overlapped' = overlapped
      /\ ledger' = LedgerAfter(w) /\ DOMAIN monthly' = Month
      /\ DOMAIN ingester' = Ingester /\ ingester'[w] = NotRunning
      /\ \A v \in Ingester \ {w} : ingester'[v] = ingester[v]
      /\ DOMAIN basis' = Month
      /\ \A m \in Month :
           IF MonthMet(w, m)
           THEN monthly'[m] = Merged(P, m) /\ basis'[m] = {f \in P : m \in MonthsOf(f)}
           ELSE monthly'[m] = monthly[m] /\ basis'[m] = basis[m]
  BY <1>2, CommitWrites
<1>5. \A f \in 1..MaxFiles :
        ledger'[f] = IF f \in P THEN "processed" ELSE IF f \in L THEN "failed" ELSE ledger[f]
  BY <1>2, <1>4, LedgerAfterIs
<1>6. DOMAIN files \in SUBSET (1..MaxFiles)
  BY <1>1, ReportBounds DEF ReportsTypeOK
<1>7. \A v \in Ingester : Ingesting(v)' => v # w /\ Ingesting(v) /\ ingester'[v] = ingester[v]
  <2>1. NotRunning.pc # "read"
    BY DEF NotRunning
  <2> QED BY <1>4, <2>1 DEF Ingesting
<1>8. ReportsTypeOK'
  <2>1. ledger' \in [1..MaxFiles -> {"none", "processed", "failed"}]
    BY <1>1, <1>4 DEF LedgerAfter, ReportsTypeOK
  <2>2. basis' \in [Month -> SUBSET DOMAIN files]
    <3>1. \A m \in Month : basis'[m] \in SUBSET DOMAIN files
      BY <1>1, <1>3, <1>4 DEF ReportsTypeOK
    <3>2. basis' = [m \in Month |-> basis'[m]]
      BY DEF CommitReports
    <3> QED BY <3>1, <3>2
  <2> QED BY <1>1, <1>4, <2>1, <2>2 DEF ReportsTypeOK, Month
<1>9. MadeFrom'
  <2> SUFFICES ASSUME NEW m \in Month
               PROVE  /\ monthly'[m] = Entries(files, basis'[m], m)
                      /\ \A f \in basis'[m] : m \in MonthsOf(f)
    BY <1>4 DEF MadeFrom, Month, MonthsOf
  <2>1. CASE MonthMet(w, m)
    <3>1. PICK B : B = {f \in P : m \in MonthsOf(f)}
      OBVIOUS
    <3>2. monthly'[m] = Merged(P, m) /\ basis'[m] = B
      BY <1>4, <2>1, <3>1
    <3>3. Sheets(files, P)
      BY <1>1, <1>3, FilesAreSheets
    <3>4. B = {f \in P : m \in {row.month : row \in files[f]}}
      BY <3>1 DEF MonthsOf
    <3>5. Merged(P, m) = Entries(files, P, m) /\ Entries(files, P, m) = Entries(files, B, m)
      BY <3>3, <3>4, MergedIs, OthersEnterNothing
    <3> QED BY <3>1, <3>2, <3>5
  <2>2. CASE ~MonthMet(w, m)
    BY <1>1, <1>4, <2>2 DEF MadeFrom
  <2> QED BY <2>1, <2>2
<1>10. OneRun'
  BY <1>1, <1>4, <1>7 DEF OneRun
<1>11. LedgerKnows'
  <2>1. \A f \in 1..MaxFiles : ledger'[f] # "none" => f \in DOMAIN files
    BY <1>1, <1>3, <1>5 DEF LedgerKnows
  <2>2. \A v \in Ingester : ~(~overlapped' /\ Ingesting(v)')
    BY <1>1, <1>3, <1>4, <1>7 DEF OneRun
  <2> QED BY <1>4, <2>1, <2>2 DEF LedgerKnows
<1>12. LedgerTrue'
  <2> SUFFICES ASSUME ~overlapped, Len(files) <= MaxObjects, NEW f \in DOMAIN files,
                      NEW m \in Month, ledger'[f] = "processed", m \in MonthsOf(f), m >= Cutoff
               PROVE  f \in basis'[m]
    BY <1>4 DEF LedgerTrue, Cutoff, Month, MonthsOf
  <2>1. CASE f \in P
    <3>1. MonthMet(w, m)
      BY <1>2, <2>1 DEF MonthMet
    <3> QED BY <1>4, <2>1, <3>1
  <2>2. CASE f \notin P
    <3>1. f \notin L /\ ledger[f] = "processed"
      BY <1>5, <1>6, <2>2
    <3>2. f \in basis[m]
      BY <1>1, <3>1 DEF LedgerTrue
    <3>3. \/ Len(files) - f >= MaxObjects
          \/ ledger[f] = "none" /\ \A k \in Month : f \notin basis[k]
      BY <1>1, <1>2, <1>3, <3>1 DEF LedgerKnows
    <3>4. f \in Nat /\ f >= 1 /\ Len(files) \in Nat
      BY <1>1 DEF ReportsTypeOK
    <3> QED BY <3>2, <3>3, <3>4, ReportBounds
  <2> QED BY <2>1, <2>2
<1> QED BY <1>8, <1>9, <1>10, <1>11, <1>12 DEF ReportsInv

LEMMA ReportsStep ==
  ASSUME ReportsInv, [ReportsNext]_reportVars
  PROVE  ReportsInv'
<1>1. CASE UNCHANGED reportVars
  BY <1>1 DEF ReportsInv, ReportsTypeOK, MadeFrom, OneRun, LedgerKnows, LedgerTrue, Ingesting,
              MonthsOf, Month, Cutoff, reportVars
<1>2. CASE ReportsNext
  BY <1>2, PublishStep, NextMonthStep, ReadReportsStep, CommitReportsStep, RollBackStep
     DEF ReportsNext
<1> QED BY <1>1, <1>2

\* The months that lose a file.
LEMMA MonthsGrowStep ==
  ASSUME ReportsInv, [ReportsNext]_reportVars, NEW m \in Month, NEW f \in basis[m] \ basis'[m]
  PROVE  overlapped \/ ledger'[f] = "failed" \/ Len(files) - f >= MaxObjects
<1>1. ReportsTypeOK /\ MadeFrom /\ LedgerKnows
  BY DEF ReportsInv
<1>2. PICK w \in Ingester : CommitReports(w)
  BY DEF ReportsNext, Publish, NextMonth, ReadReports, RollBack, reportVars
<1>3. PICK P, L : P = ingester[w].parsed /\ L = ingester[w].listed
  OBVIOUS
<1>4. Ingesting(w)
  BY <1>2 DEF CommitReports, Ingesting
<1>5. MonthMet(w, m) /\ basis'[m] = {g \in P : m \in MonthsOf(g)} /\ ledger' = LedgerAfter(w)
  BY <1>2, <1>3, CommitWrites
<1>6. f \notin P /\ f \in DOMAIN files
  BY <1>1, <1>5 DEF MadeFrom, ReportsTypeOK
<1>7. f \in 1..MaxFiles
  BY <1>1, <1>6, ReportBounds DEF ReportsTypeOK
<1>8. CASE f \in L
  <2>1. ledger'[f] = "failed"
    BY <1>3, <1>5, <1>6, <1>7, <1>8, LedgerAfterIs
  <2> QED BY <2>1
<1>9. CASE f \notin L
  BY <1>1, <1>3, <1>4, <1>6, <1>9 DEF LedgerKnows
<1> QED BY <1>8, <1>9

\* The monthly summaries of OCI add up the rows of the report files they were made
\* from, each once; the ledger tells which files those are; and no run loses one but
\* for overlaps, failures and the limits of a listing: for any number of processes,
\* files, months and rows.
THEOREM MonthsTrueHolds == ReportsSpec => MonthsTrue
<1>1. ReportsSpec => []ReportsInv
  BY ReportsStarts, ReportsStep, PTL DEF ReportsSpec
<1>2. ReportsInv => MonthAddsUp /\ LedgerTrue
  BY MonthsAddUp DEF ReportsInv
<1>3. ReportsInv /\ [ReportsNext]_reportVars =>
        [\A m \in Month : \A f \in basis[m] \ basis'[m] :
           overlapped \/ ledger'[f] = "failed" \/ Len(files) - f >= MaxObjects]_reportVars
  BY MonthsGrowStep
<1> QED BY <1>1, <1>2, <1>3, PTL DEF ReportsSpec, MonthsTrue, MonthsGrow

-----------------------------------------------------------------------------
(* Cost context: SourcesTrueHolds.                                         *)

ContextInv ==
    /\ snapshots \in Seq([month : 1..2, cost : [Provider -> Cost]])
    /\ imported \in [Provider -> Cost]
    /\ FailuresShown /\ RequiredLive /\ RegionsAddUp

LEMMA TotalIsSum ==
  ASSUME NEW cost
  PROVE  Total(cost) = SumOver(cost, Given(cost))
BY Zenon DEF Total, SumOver

\* Nothing costs nothing.
LEMMA TotalOfNothing ==
  ASSUME NEW cost, Given(cost) = {}
  PROVE  Total(cost) = 0
BY TotalIsSum, SumEmpty

LEMMA TotalType ==
  ASSUME NEW cost, \A p \in Given(cost) : cost[p] \in Nat
  PROVE  Total(cost) \in Nat
<1>1. IsFiniteSet(Given(cost))
  BY ContextBounds, FS_Subset DEF Given
<1>2. SumOver(cost, Given(cost)) \in Nat
  BY <1>1, SumType
<1> QED BY <1>2, TotalIsSum

\* The last of some scans.
LEMMA LastOfScans ==
  ASSUME NEW S \in SUBSET DOMAIN snapshots, S # {}, Len(snapshots) \in Nat,
         DOMAIN snapshots = 1..Len(snapshots)
  PROVE  \E i \in S : \A j \in S : j <= i
<1>1. S \in SUBSET Nat /\ \A i \in S : i <= Len(snapshots)
  OBVIOUS
<1> QED BY <1>1, GreatestNumber

LEMMA SnapshotFacts ==
  ASSUME ContextInv
  PROVE  /\ Len(snapshots) \in Nat /\ DOMAIN snapshots = 1..Len(snapshots)
         /\ \A i \in DOMAIN snapshots :
              /\ snapshots[i].month \in 1..2
              /\ \A p \in Provider : snapshots[i].cost[p] \in Cost
              /\ \A p \in Given(snapshots[i].cost) :
                    p \in Provider /\ snapshots[i].cost[p] \in Nat
<1>1. PICK D : D = [month : 1..2, cost : [Provider -> Cost]]
  OBVIOUS
<1>2. /\ Len(snapshots) \in Nat /\ DOMAIN snapshots = 1..Len(snapshots)
      /\ \A i \in 1..Len(snapshots) : snapshots[i] \in D
  <2>1. snapshots \in Seq(D)
    BY <1>1 DEF ContextInv
  <2> QED BY <2>1
<1>3. \A c \in Cost : c # NoCost => c \in Nat
  BY ContextBounds DEF Cost
<1> QED BY <1>1, <1>2, <1>3 DEF Given

LEMMA LatestScanIs ==
  ASSUME ContextInv, NEW p
  PROVE  /\ LatestScan(p) = 0 =>
              \A i \in DOMAIN snapshots : p \notin Given(snapshots[i].cost)
         /\ LatestScan(p) # 0 =>
              /\ LatestScan(p) \in DOMAIN snapshots /\ LatestScan(p) > 0
              /\ p \in Given(snapshots[LatestScan(p)].cost)
              /\ \A i \in DOMAIN snapshots :
                    p \in Given(snapshots[i].cost) => i <= LatestScan(p)
<1> DEFINE S == {i \in DOMAIN snapshots : p \in Given(snapshots[i].cost)}
<1>1. S = {i \in DOMAIN snapshots : p \in Given(snapshots[i].cost)}
  OBVIOUS
<1>2. LatestScan(p) = IF S = {} THEN 0 ELSE CHOOSE i \in S : \A j \in S : j <= i
  BY Zenon DEF LatestScan
<1> HIDE DEF S
<1>3. DOMAIN snapshots = 1..Len(snapshots) /\ Len(snapshots) \in Nat
  BY SnapshotFacts
<1>4. CASE S = {}
  BY <1>1, <1>2, <1>4
<1>5. CASE S # {}
  <2>1. S \in SUBSET DOMAIN snapshots
    BY <1>1
  <2>2. \E i \in S : \A j \in S : j <= i
    BY <1>3, <1>5, <2>1, LastOfScans
  <2>3. LatestScan(p) \in S /\ \A j \in S : j <= LatestScan(p)
    BY <1>2, <1>5, <2>2
  <2> QED BY <1>1, <1>3, <2>3
<1> QED BY <1>4, <1>5

LEMMA NothingGiven == Total(NoAnswer.cost) = 0 /\ NoAnswer.regions = 0
<1>1. Given(NoAnswer.cost) = {}
  BY DEF Given, NoAnswer
<1> QED BY <1>1, TotalOfNothing DEF NoAnswer

LEMMA NothingAsked ==
  query = NoQuery /\ answer = NoAnswer => FailuresShown /\ RequiredLive /\ RegionsAddUp
<1> SUFFICES ASSUME query = NoQuery, answer = NoAnswer
             PROVE  FailuresShown /\ RequiredLive /\ RegionsAddUp
  OBVIOUS
<1>1. FailuresShown /\ RequiredLive
  BY DEF FailuresShown, RequiredLive, NoQuery, NoAnswer
<1> QED BY <1>1, NothingGiven DEF RegionsAddUp

LEMMA NothingAskedNext ==
  (query = NoQuery /\ answer = NoAnswer => FailuresShown /\ RequiredLive /\ RegionsAddUp)'
BY NothingAsked, PTL

LEMMA ContextStarts ==
  ASSUME ContextInit
  PROVE  ContextInv
<1>1. <<>> \in Seq([month : 1..2, cost : [Provider -> Cost]])
  OBVIOUS
<1>2. FailuresShown /\ RequiredLive /\ RegionsAddUp
  BY NothingAsked DEF ContextInit
<1> QED BY <1>1, <1>2 DEF ContextInit, ContextInv, Cost

\* The sum over the scans that an answer puts together, as that of a function.
LEMMA ScansSumIs ==
  ASSUME NEW S, IsFiniteSet(S), NEW asked,
         NEW f, \A x \in S : f[x] = Total(Only(snapshots[x].cost, asked))
  PROVE  MapThenSumSet(LAMBDA i : Total(Only(snapshots[i].cost, asked)), S) = SumOver(f, S)
<1> DEFINE Solves(g) ==
      g = [s \in SUBSET S |-> IF s = {} THEN 0 ELSE Total(Only(snapshots[Picked(s)].cost, asked))
                                                    + g[s \ {Picked(s)}]]
<1>1. MapThenSumSet(LAMBDA i : Total(Only(snapshots[i].cost, asked)), S) = (CHOOSE g : Solves(g))[S]
  BY Zenon DEF MapThenSumSet, MapThenFoldSet, Picked
<1>2. ASSUME NEW g
      PROVE  Solves(g) <=> SumSolution(g, f, SUBSET S)
  <2>1. \A s \in SUBSET S :
          (IF s = {} THEN 0 ELSE Total(Only(snapshots[Picked(s)].cost, asked)) + g[s \ {Picked(s)}])
             = SumRule(f, g, s)
    BY PickedIn DEF SumRule
  <2> QED BY <2>1 DEF SumSolution
<1> HIDE DEF Solves
<1>3. PICK g : g = (CHOOSE k : Solves(k))
  OBVIOUS
<1>4. SumSolution(g, f, SUBSET S)
  BY <1>2, <1>3, SumSolvable
<1>5. g[S] = SumOver(f, S)
  BY <1>4, SumSolved
<1> QED BY <1>1, <1>3, <1>5, Zenon

\* If every provider was found in the same scan, the answer is a part of that scan.
LEMMA OneScanAdds ==
  ASSUME ContextInv, NEW asked \in SUBSET Provider, NEW errors, Scanned(asked) # {},
         \A p, q \in Scanned(asked) : LatestScan(p) = LatestScan(q)
  PROVE  SnapshotAnswer(asked, errors).regions = Total(SnapshotAnswer(asked, errors).cost)
<1>1. PICK p \in Scanned(asked) : TRUE
  OBVIOUS
<1>2. PICK i : i = LatestScan(p)
  OBVIOUS
<1>3. i \in DOMAIN snapshots /\ i > 0
  BY <1>1, <1>2, LatestScanIs DEF Scanned
<1>4. RegionScans(asked) = {i}
  BY <1>1, <1>2 DEF RegionScans
<1>5. ASSUME NEW q \in asked
      PROVE  q \in Scanned(asked) <=> snapshots[i].cost[q] # NoCost
  <2>1. q \in Scanned(asked) => snapshots[i].cost[q] # NoCost
    BY <1>1, <1>2, LatestScanIs DEF Scanned, Given
  <2>2. ASSUME snapshots[i].cost[q] # NoCost
        PROVE  q \in Scanned(asked)
    <3>1. q \in Given(snapshots[i].cost)
      BY <2>2 DEF Given
    <3> QED BY <1>3, <3>1, LatestScanIs DEF Scanned
  <2> QED BY <2>1, <2>2
<1>6. SnapshotAnswer(asked, errors).cost = Only(snapshots[i].cost, asked)
  <2>1. SnapshotAnswer(asked, errors).cost =
          [q \in Provider |-> IF q \in Scanned(asked) THEN snapshots[LatestScan(q)].cost[q] ELSE NoCost]
    BY DEF SnapshotAnswer
  <2>2. \A q \in Provider :
          (IF q \in Scanned(asked) THEN snapshots[LatestScan(q)].cost[q] ELSE NoCost)
            = (IF q \in asked THEN snapshots[i].cost[q] ELSE NoCost)
    BY <1>1, <1>2, <1>5 DEF Scanned
  <2> QED BY <2>1, <2>2 DEF Only
<1>7. PICK t : t = Total(Only(snapshots[i].cost, asked))
  OBVIOUS
<1>8. t \in Nat
  <2>1. \A q \in Given(Only(snapshots[i].cost, asked)) : Only(snapshots[i].cost, asked)[q] \in Nat
    BY <1>3, SnapshotFacts DEF Given, Only
  <2> QED BY <1>7, <2>1, TotalType
<1>9. PICK f : f = [x \in {i} |-> t]
  OBVIOUS
<1>10. SumOver(f, {i}) = t
  BY <1>8, <1>9, SumSingle
<1>11. SnapshotAnswer(asked, errors).regions = SumOver(f, {i})
  <2>1. IsFiniteSet({i}) /\ \A x \in {i} : f[x] = Total(Only(snapshots[x].cost, asked))
    BY <1>7, <1>9, FS_Singleton
  <2>2. MapThenSumSet(LAMBDA k : Total(Only(snapshots[k].cost, asked)), {i}) = SumOver(f, {i})
    BY <2>1, ScansSumIs
  <2>3. SnapshotAnswer(asked, errors).regions
          = MapThenSumSet(LAMBDA k : Total(Only(snapshots[k].cost, asked)), RegionScans(asked))
    BY Zenon DEF SnapshotAnswer
  <2> QED BY <1>4, <2>2, <2>3, Zenon
<1> QED BY <1>6, <1>7, <1>10, <1>11, Zenon

\* What holds of an answer to a request for some providers, of which some are called.
AnswerRight(A, asked, called, result, require) ==
    /\ A.source \notin {"none", "refused"} =>
         called \ Succeeded(called, result) \subseteq A.errors \/ "policy" \in A.errors
    /\ A.source = "live" => called \ Succeeded(called, result) = {}
    /\ require /\ A.source = "imported" =>
         Total(Only(result, called)) = 0 /\ Succeeded(called, result) # {}
    /\ (\A p, q \in Scanned(asked) : LatestScan(p) = LatestScan(q)) => A.regions = Total(A.cost)

LEMMA SnapshotsRight ==
  ASSUME ContextInv, NEW asked \in SUBSET Provider, Scanned(asked) # {},
         NEW called, NEW result, NEW require, NEW errors,
         called \ Succeeded(called, result) \subseteq errors \/ "policy" \in errors
  PROVE  AnswerRight(SnapshotAnswer(asked, errors), asked, called, result, require)
<1>1. SnapshotAnswer(asked, errors).source = "snapshots" /\ SnapshotAnswer(asked, errors).errors = errors
  BY DEF SnapshotAnswer
<1> QED BY <1>1, OneScanAdds DEF AnswerRight

LEMMA ImportedRight ==
  ASSUME NEW asked, NEW called, NEW result, NEW require, NEW errors,
         called \ Succeeded(called, result) \subseteq errors,
         require => Total(Only(result, called)) = 0 /\ Succeeded(called, result) # {}
  PROVE  AnswerRight(ImportedAnswer(asked, errors), asked, called, result, require)
<1>1. /\ ImportedAnswer(asked, errors).source = "imported" /\ ImportedAnswer(asked, errors).errors = errors
      /\ ImportedAnswer(asked, errors).regions = Total(ImportedAnswer(asked, errors).cost)
  BY DEF ImportedAnswer
<1> QED BY <1>1 DEF AnswerRight

LEMMA NothingRight ==
  ASSUME NEW A, A.cost = NoAnswer.cost, A.regions = NoAnswer.regions, A.source \in {"none", "refused"},
         NEW asked, NEW called, NEW result, NEW require
  PROVE  AnswerRight(A, asked, called, result, require)
BY NothingGiven DEF AnswerRight

LEMMA AnswersRight ==
  ASSUME ContextInv, NEW asked \in SUBSET Provider, NEW called, NEW result, NEW require \in BOOLEAN
  PROVE  AnswerRight(AnswerTo(asked, called, result, require), asked, called, result, require)
<1>1. PICK A, F, L : /\ A = AnswerTo(asked, called, result, require)
                     /\ F = called \ Succeeded(called, result)
                     /\ L = LiveAnswer(called, result)
  OBVIOUS
<1>2. A = IF MustBeLive(require, called, result)
          THEN IF Scanned(asked) # {} THEN SnapshotAnswer(asked, {"policy"})
               ELSE [NoAnswer EXCEPT !.source = "refused"]
          ELSE IF Succeeded(called, result) = {} THEN Fallback(asked, F)
          ELSE IF Total(L.cost) = 0 /\ ImportedIn(asked) THEN ImportedAnswer(asked, F)
          ELSE L
  BY <1>1, Zenon DEF AnswerTo
<1>3. CASE MustBeLive(require, called, result)
  <2>1. CASE Scanned(asked) # {}
    BY <1>1, <1>2, <1>3, <2>1, SnapshotsRight
  <2>2. CASE Scanned(asked) = {}
    <3>1. A.cost = NoAnswer.cost /\ A.regions = NoAnswer.regions /\ A.source = "refused"
      BY <1>2, <1>3, <2>2 DEF NoAnswer
    <3> QED BY <1>1, <3>1, NothingRight
  <2> QED BY <2>1, <2>2
<1>4. CASE ~MustBeLive(require, called, result) /\ Succeeded(called, result) = {}
  <2>1. A = Fallback(asked, F) /\ ~require
    BY <1>2, <1>4 DEF MustBeLive
  <2>2. CASE Scanned(asked) # {}
    <3>1. A = SnapshotAnswer(asked, F)
      BY <2>1, <2>2 DEF Fallback
    <3> QED BY <1>1, <2>2, <3>1, SnapshotsRight
  <2>3. CASE Scanned(asked) = {} /\ ImportedIn(asked)
    <3>1. A = ImportedAnswer(asked, F)
      BY <2>1, <2>3 DEF Fallback
    <3> QED BY <1>1, <2>1, <3>1, ImportedRight
  <2>4. CASE Scanned(asked) = {} /\ ~ImportedIn(asked)
    <3>1. A = [NoAnswer EXCEPT !.errors = F]
      BY <2>1, <2>4 DEF Fallback
    <3>2. A.cost = NoAnswer.cost /\ A.regions = NoAnswer.regions /\ A.source = "none"
      BY <3>1 DEF NoAnswer
    <3> QED BY <1>1, <3>2, NothingRight
  <2> QED BY <2>2, <2>3, <2>4
<1>5. CASE Succeeded(called, result) # {}
  <2>1. ~MustBeLive(require, called, result)
    BY <1>5 DEF MustBeLive
  <2>2. L.cost = Only(result, called)
    BY <1>1 DEF LiveAnswer
  <2>3. CASE Total(L.cost) = 0 /\ ImportedIn(asked)
    <3>1. A = ImportedAnswer(asked, F)
      BY <1>2, <1>5, <2>1, <2>3
    <3> QED BY <1>1, <1>5, <2>2, <2>3, <3>1, ImportedRight
  <2>4. CASE ~(Total(L.cost) = 0 /\ ImportedIn(asked))
    <3>1. A = L
      BY <1>2, <1>5, <2>1, <2>4
    <3>2. /\ L.source = IF F = {} THEN "live" ELSE "partial"
          /\ L.errors = F /\ L.regions = Total(L.cost)
      BY <1>1 DEF LiveAnswer
    <3> QED BY <1>1, <3>1, <3>2 DEF AnswerRight
  <2> QED BY <2>3, <2>4
<1> QED BY <1>3, <1>4, <1>5

LEMMA AskStep ==
  ASSUME ContextInv, NEW asked \in SUBSET Provider, NEW configured \in SUBSET Provider,
         NEW require \in BOOLEAN, NEW result, Ask(asked, configured, result, require)
  PROVE  ContextInv'
<1>1. PICK called, A : /\ called = asked \cap configured
                       /\ A = AnswerTo(asked, called, result, require)
  OBVIOUS
<1>2. /\ query' = [asked |-> asked, failed |-> called \ Succeeded(called, result),
                   require |-> require, live |-> Total(Only(result, called))]
      /\ answer' = A /\ snapshots' = snapshots /\ imported' = imported
  BY <1>1, Zenon DEF Ask
<1>3. AnswerRight(A, asked, called, result, require)
  BY <1>1, AnswersRight
<1>4. /\ query'.asked = asked /\ query'.failed = called \ Succeeded(called, result)
      /\ query'.require = require /\ query'.live = Total(Only(result, called))
  BY <1>2
<1>5. FailuresShown'
  BY <1>2, <1>3, <1>4 DEF FailuresShown, AnswerRight
<1>6. RequiredLive'
  <2>1. Succeeded(called, result) \subseteq called /\ called \subseteq asked
    BY <1>1 DEF Succeeded
  <2> QED BY <1>2, <1>3, <1>4, <2>1 DEF RequiredLive, AnswerRight
<1>7. RegionsAddUp'
  <2>1. \A p : LatestScan(p)' = LatestScan(p)
    BY <1>2 DEF LatestScan
  <2>2. Scanned(query.asked)' = Scanned(asked)
    BY <1>4, <2>1 DEF Scanned
  <2>3. (\A p, q \in Scanned(asked) : LatestScan(p) = LatestScan(q)) => A.regions = Total(A.cost)
    BY <1>3 DEF AnswerRight
  <2>4. Total(answer.cost)' = Total(A.cost)
    BY <1>2, ZenonT(60) DEF Total, Given, MapThenSumSet, MapThenFoldSet
  <2> QED BY <1>2, <2>1, <2>2, <2>3, <2>4 DEF RegionsAddUp
<1> QED BY <1>2, <1>5, <1>6, <1>7 DEF ContextInv, Cost

LEMMA ContextStep ==
  ASSUME ContextInv, [ContextNext]_contextVars
  PROVE  ContextInv'
<1>1. ASSUME NEW cost \in [Provider -> Cost], NEW m \in 1..2, ScanCosts(m, cost)
      PROVE  ContextInv'
  <2>1. PICK D : D = [month : 1..2, cost : [Provider -> Cost]]
    OBVIOUS
  <2>2. snapshots \in Seq(D) /\ [month |-> m, cost |-> cost] \in D
    BY <2>1 DEF ContextInv
  <2>3. snapshots' \in Seq(D)
    BY <1>1, <2>2, AppendProperties DEF ScanCosts
  <2>4. imported' \in [Provider -> Cost]' /\ D = [month : 1..2, cost : [Provider -> Cost]]'
    BY <1>1, <2>1 DEF ScanCosts, ContextInv, Cost
  <2>5. (FailuresShown /\ RequiredLive /\ RegionsAddUp)'
    <3>1. query' = NoQuery /\ answer' = NoAnswer
      BY <1>1 DEF ScanCosts
    <3>2. (query = NoQuery)' /\ (answer = NoAnswer)'
      BY <3>1 DEF NoQuery, NoAnswer
    <3> QED BY <3>2, NothingAskedNext
  <2> QED BY <2>3, <2>4, <2>5 DEF ContextInv
<1>2. ASSUME NEW cost \in [Provider -> Cost], UploadCosts(cost)
      PROVE  ContextInv'
  <2>1. /\ snapshots' = snapshots /\ imported' = cost
        /\ query' = NoQuery /\ answer' = NoAnswer
    BY <1>2 DEF UploadCosts
  <2>2. (query = NoQuery)' /\ (answer = NoAnswer)'
    BY <2>1 DEF NoQuery, NoAnswer
  <2>3. (FailuresShown /\ RequiredLive /\ RegionsAddUp)'
    BY <2>2, NothingAskedNext
  <2> QED BY <2>1, <2>3 DEF ContextInv, Cost
<1>3. ASSUME Requests
      PROVE  ContextInv'
  <2>1. PICK asked \in {Provider} \cup {{p} : p \in Provider}, configured \in SUBSET Provider,
             require \in BOOLEAN :
           \E result \in [(asked \cap configured) -> Cost] : Ask(asked, configured, result, require)
    BY <1>3 DEF Requests
  <2>2. asked \in SUBSET Provider
    OBVIOUS
  <2> QED BY <2>1, <2>2, AskStep
<1>4. ASSUME UNCHANGED contextVars
      PROVE  ContextInv'
  <2>1. /\ snapshots' = snapshots /\ imported' = imported /\ query' = query /\ answer' = answer
    BY <1>4 DEF contextVars
  <2>2. FailuresShown' /\ RequiredLive'
    BY <2>1 DEF ContextInv, FailuresShown, RequiredLive
  <2>3. \A p : LatestScan(p)' = LatestScan(p)
    BY <2>1 DEF LatestScan
  <2>4. Scanned(query.asked)' = Scanned(query.asked)
    BY <2>1, <2>3 DEF Scanned
  <2>5. Total(answer.cost)' = Total(answer.cost)
    BY <2>1, ZenonT(60) DEF Total, Given, MapThenSumSet, MapThenFoldSet
  <2>6. RegionsAddUp'
    BY <2>1, <2>3, <2>4, <2>5 DEF ContextInv, RegionsAddUp
  <2> QED BY <2>1, <2>2, <2>6 DEF ContextInv, Cost
<1> QED BY <1>1, <1>2, <1>3, <1>4 DEF ContextNext, ContextChanges

\* What a provider's last scan of a month found, as a sum.
Spent(p, m) == MapThenSumSet(LAMBDA i : snapshots[i].cost[p], InMonth(p, m))

LEMMA ScanCostSumIs ==
  ASSUME NEW S, IsFiniteSet(S), NEW p, NEW f, \A x \in S : f[x] = snapshots[x].cost[p]
  PROVE  MapThenSumSet(LAMBDA i : snapshots[i].cost[p], S) = SumOver(f, S)
<1> DEFINE Solves(g) ==
      g = [s \in SUBSET S |-> IF s = {} THEN 0 ELSE snapshots[Picked(s)].cost[p] + g[s \ {Picked(s)}]]
<1>1. MapThenSumSet(LAMBDA i : snapshots[i].cost[p], S) = (CHOOSE g : Solves(g))[S]
  BY Zenon DEF MapThenSumSet, MapThenFoldSet, Picked
<1>2. ASSUME NEW g
      PROVE  Solves(g) <=> SumSolution(g, f, SUBSET S)
  <2>1. \A s \in SUBSET S :
          (IF s = {} THEN 0 ELSE snapshots[Picked(s)].cost[p] + g[s \ {Picked(s)}]) = SumRule(f, g, s)
    BY PickedIn DEF SumRule
  <2> QED BY <2>1 DEF SumSolution
<1> HIDE DEF Solves
<1>3. PICK g : g = (CHOOSE k : Solves(k))
  OBVIOUS
<1>4. SumSolution(g, f, SUBSET S)
  BY <1>2, <1>3, SumSolvable
<1>5. g[S] = SumOver(f, S)
  BY <1>4, SumSolved
<1> QED BY <1>1, <1>3, <1>5, Zenon

LEMMA SpentSumIs ==
  ASSUME NEW m, NEW f, \A x \in Provider : f[x] = Spent(x, m)
  PROVE  MonthlySpend(m) = SumOver(f, Provider)
<1> DEFINE Solves(g) ==
      g = [s \in SUBSET Provider |-> IF s = {} THEN 0 ELSE Spent(Picked(s), m) + g[s \ {Picked(s)}]]
<1>1. MonthlySpend(m) = (CHOOSE g : Solves(g))[Provider]
  BY Zenon DEF MonthlySpend, Spent, MapThenSumSet, MapThenFoldSet, Picked
<1>2. ASSUME NEW g
      PROVE  Solves(g) <=> SumSolution(g, f, SUBSET Provider)
  <2>1. \A s \in SUBSET Provider :
          (IF s = {} THEN 0 ELSE Spent(Picked(s), m) + g[s \ {Picked(s)}]) = SumRule(f, g, s)
    BY PickedIn DEF SumRule
  <2> QED BY <2>1 DEF SumSolution
<1> HIDE DEF Solves
<1>3. PICK g : g = (CHOOSE k : Solves(k))
  OBVIOUS
<1>4. SumSolution(g, f, SUBSET Provider)
  BY <1>2, <1>3, SumSolvable, ContextBounds
<1>5. g[Provider] = SumOver(f, Provider)
  BY <1>4, SumSolved, ContextBounds
<1> QED BY <1>1, <1>3, <1>5, Zenon

LEMMA PickedSumIs ==
  ASSUME NEW S, IsFiniteSet(S), NEW pick, NEW f, \A x \in S : f[x] = snapshots[pick[x]].cost[x]
  PROVE  MapThenSumSet(LAMBDA p : snapshots[pick[p]].cost[p], S) = SumOver(f, S)
<1> DEFINE Solves(g) ==
      g = [s \in SUBSET S |->
             IF s = {} THEN 0 ELSE snapshots[pick[Picked(s)]].cost[Picked(s)] + g[s \ {Picked(s)}]]
<1>1. MapThenSumSet(LAMBDA p : snapshots[pick[p]].cost[p], S) = (CHOOSE g : Solves(g))[S]
  BY Zenon DEF MapThenSumSet, MapThenFoldSet, Picked
<1>2. ASSUME NEW g
      PROVE  Solves(g) <=> SumSolution(g, f, SUBSET S)
  <2>1. \A s \in SUBSET S :
          (IF s = {} THEN 0 ELSE snapshots[pick[Picked(s)]].cost[Picked(s)] + g[s \ {Picked(s)}])
             = SumRule(f, g, s)
    BY PickedIn DEF SumRule
  <2> QED BY <2>1 DEF SumSolution
<1> HIDE DEF Solves
<1>3. PICK g : g = (CHOOSE k : Solves(k))
  OBVIOUS
<1>4. SumSolution(g, f, SUBSET S)
  BY <1>2, <1>3, SumSolvable
<1>5. g[S] = SumOver(f, S)
  BY <1>4, SumSolved
<1> QED BY <1>1, <1>3, <1>5, Zenon

\* The last scan of a month that has a provider, 0 without any.
LastIn(p, m) == IF Costed(p, m) = {} THEN 0 ELSE CHOOSE i \in InMonth(p, m) : TRUE

LEMMA LastInIs ==
  ASSUME ContextInv, NEW p \in Provider, NEW m
  PROVE  /\ Costed(p, m) = {} => LastIn(p, m) = 0 /\ InMonth(p, m) = {}
         /\ Costed(p, m) # {} =>
              /\ InMonth(p, m) = {LastIn(p, m)} /\ LastIn(p, m) \in Costed(p, m) /\ LastIn(p, m) > 0
              /\ snapshots[LastIn(p, m)].cost[p] \in Nat
         /\ LastIn(p, m) \in 0..Len(snapshots)
<1>1. Len(snapshots) \in Nat /\ DOMAIN snapshots = 1..Len(snapshots)
  BY SnapshotFacts
<1>2. Costed(p, m) \in SUBSET DOMAIN snapshots
  BY DEF Costed
<1>3. CASE Costed(p, m) = {}
  BY <1>1, <1>3 DEF LastIn, InMonth
<1>4. CASE Costed(p, m) # {}
  <2>1. PICK i \in Costed(p, m) : \A j \in Costed(p, m) : j <= i
    BY <1>1, <1>2, <1>4, LastOfScans
  <2>2. \A j \in Costed(p, m) : j \in Nat
    BY <1>1, <1>2
  <2>3. InMonth(p, m) = {i}
    BY <2>1, <2>2 DEF InMonth
  <2>4. LastIn(p, m) = i
    BY <1>4, <2>3 DEF LastIn
  <2>5. i \in DOMAIN snapshots /\ p \in Given(snapshots[i].cost)
    BY <2>1 DEF Costed
  <2>6. snapshots[i].cost[p] \in Nat
    BY <2>5, SnapshotFacts
  <2> QED BY <1>1, <1>4, <2>1, <2>3, <2>4, <2>5, <2>6
<1> QED BY <1>3, <1>4

LEMMA MonthsCountOnce ==
  ASSUME ContextInv
  PROVE  MonthCountsOnce
<1> SUFFICES ASSUME NEW m \in 1..2
             PROVE  \E pick \in [Provider -> 0..Len(snapshots)] :
                       /\ \A p \in Provider :
                            IF pick[p] = 0 THEN Costed(p, m) = {} ELSE pick[p] \in Costed(p, m)
                       /\ MonthlySpend(m) =
                            MapThenSumSet(LAMBDA p : snapshots[pick[p]].cost[p],
                                          {p \in Provider : pick[p] > 0})
  BY DEF MonthCountsOnce
<1>1. PICK pick, S, f, h :
        /\ pick = [p \in Provider |-> LastIn(p, m)]
        /\ S = {p \in Provider : pick[p] > 0}
        /\ f = [p \in Provider |-> Spent(p, m)]
        /\ h = [p \in S |-> snapshots[pick[p]].cost[p]]
  OBVIOUS
<1>2. pick \in [Provider -> 0..Len(snapshots)]
  BY <1>1, LastInIs
<1>3. \A p \in Provider : IF pick[p] = 0 THEN Costed(p, m) = {} ELSE pick[p] \in Costed(p, m)
  BY <1>1, LastInIs
<1>4. ASSUME NEW p \in Provider
      PROVE  /\ p \notin S => f[p] = 0
             /\ p \in S => f[p] = h[p] /\ h[p] \in Nat
  <2>1. f[p] = Spent(p, m) /\ pick[p] = LastIn(p, m)
    BY <1>1
  <2>2. CASE Costed(p, m) = {}
    <3>1. p \notin S /\ InMonth(p, m) = {}
      BY <1>1, <2>1, <2>2, LastInIs
    <3>2. PICK e, N : e = [x \in {} |-> 0] /\ N = {}
      OBVIOUS
    <3>3. IsFiniteSet(N) /\ \A x \in N : e[x] = snapshots[x].cost[p]
      BY <3>2, FS_EmptySet
    <3>4. MapThenSumSet(LAMBDA i : snapshots[i].cost[p], N) = SumOver(e, N)
      BY <3>3, ScanCostSumIs
    <3>5. SumOver(e, N) = 0
      BY <3>2, SumEmpty
    <3>6. Spent(p, m) = 0
      BY <3>1, <3>2, <3>4, <3>5, Zenon DEF Spent
    <3> QED BY <2>1, <3>1, <3>6
  <2>3. CASE Costed(p, m) # {}
    <3>1. PICK k, e : k = LastIn(p, m) /\ e = [x \in {k} |-> snapshots[x].cost[p]]
      OBVIOUS
    <3>2. InMonth(p, m) = {k} /\ k > 0 /\ snapshots[k].cost[p] \in Nat
      BY <2>3, <3>1, LastInIs
    <3>3. IsFiniteSet({k}) /\ \A x \in {k} : e[x] = snapshots[x].cost[p]
      BY <3>1, FS_Singleton
    <3>4. MapThenSumSet(LAMBDA i : snapshots[i].cost[p], {k}) = SumOver(e, {k})
      BY <3>3, ScanCostSumIs
    <3>5. SumOver(e, {k}) = snapshots[k].cost[p]
      <4>1. e[k] = snapshots[k].cost[p] /\ e[k] \in Int
        BY <3>2, <3>3
      <4> QED BY <4>1, SumSingle
    <3>6. Spent(p, m) = snapshots[k].cost[p]
      BY <3>2, <3>4, <3>5, Zenon DEF Spent
    <3>7. p \in S /\ h[p] = snapshots[k].cost[p]
      BY <1>1, <2>1, <3>1, <3>2
    <3> QED BY <2>1, <3>2, <3>6, <3>7
  <2> QED BY <2>2, <2>3
<1>5. MonthlySpend(m) = SumOver(f, Provider)
  <2>1. \A x \in Provider : f[x] = Spent(x, m)
    BY <1>1
  <2> QED BY <2>1, SpentSumIs
<1>6. SumOver(f, Provider) = SumOver(f, S)
  <2>1. S \in SUBSET Provider /\ \A x \in Provider : f[x] \in Int
    <3>1. \A x \in Provider : IF x \in S THEN f[x] = h[x] /\ h[x] \in Nat ELSE f[x] = 0
      BY <1>4
    <3>2. S \in SUBSET Provider
      BY <1>1
    <3> QED BY <3>1, <3>2
  <2>2. \A x \in Provider \ S : f[x] = 0
    BY <1>4
  <2> QED BY <2>1, <2>2, SumOfPart, ContextBounds
<1>7. IsFiniteSet(S)
  BY <1>1, ContextBounds, FS_Subset
<1>8. SumOver(f, S) = SumOver(h, S)
  <2>1. \A x \in S : x \in Provider
    BY <1>1
  <2>2. \A x \in S : f[x] = h[x]
    BY <1>4, <2>1
  <2> QED BY <1>7, <2>2, SumAgree
<1>9. MapThenSumSet(LAMBDA p : snapshots[pick[p]].cost[p], S) = SumOver(h, S)
  <2>1. \A x \in S : h[x] = snapshots[pick[x]].cost[x]
    BY <1>1
  <2> QED BY <1>7, <2>1, PickedSumIs
<1>10. MonthlySpend(m) = MapThenSumSet(LAMBDA p : snapshots[pick[p]].cost[p],
                                       {p \in Provider : pick[p] > 0})
  BY <1>1, <1>5, <1>6, <1>8, <1>9, Zenon
<1> QED BY <1>2, <1>3, <1>10, Zenon

LEMMA TrendsAreHistory ==
  ASSUME ContextInv
  PROVE  TrendIsHistory
<1> SUFFICES ASSUME NEW p \in Provider, NEW m \in 1..2, NEW i \in InMonth(p, m)
             PROVE  \/ Bucketed(p, m, 0) = snapshots[i].cost[p]
                    \/ snapshots[i].cost[p] = 0 /\ \E j \in Costed(p, m) : snapshots[j].cost[p] > 0
  BY DEF TrendIsHistory
<1> DEFINE S == {j \in Costed(p, m) : snapshots[j].cost[p] > 0}
<1>1. /\ i \in Costed(p, m) /\ \A j \in Costed(p, m) : j <= i
      /\ Len(snapshots) \in Nat /\ DOMAIN snapshots = 1..Len(snapshots)
      /\ Costed(p, m) \in SUBSET DOMAIN snapshots
      /\ S = {j \in Costed(p, m) : snapshots[j].cost[p] > 0}
  BY SnapshotFacts DEF InMonth, Costed
<1>2. Bucketed(p, m, 0) = IF S = {} THEN 0 ELSE snapshots[CHOOSE k \in S : \A j \in S : j <= k].cost[p]
  <2>1. Bucketed(p, m, 0) = Overlaid(p, m)
    BY DEF Bucketed
  <2> QED BY <2>1, Zenon DEF Overlaid
<1>3. snapshots[i].cost[p] \in Nat
  BY <1>1, SnapshotFacts DEF Costed
<1> HIDE DEF S
<1>4. CASE snapshots[i].cost[p] > 0
  <2>1. i \in S /\ \A j \in S : j <= i
    BY <1>1, <1>4
  <2>2. (CHOOSE k \in S : \A j \in S : j <= k) = i
    <3>1. PICK c : c = (CHOOSE k \in S : \A j \in S : j <= k)
      OBVIOUS
    <3>2. c \in S /\ \A j \in S : j <= c
      BY <2>1, <3>1
    <3>3. c <= i /\ i <= c /\ c \in Nat /\ i \in Nat
      BY <1>1, <2>1, <3>2
    <3> QED BY <3>1, <3>3
  <2> QED BY <1>2, <2>1, <2>2
<1>5. CASE ~(snapshots[i].cost[p] > 0)
  BY <1>1, <1>2, <1>3, <1>5
<1> QED BY <1>4, <1>5

\* Whatever an answer about costs is made from, it says so and names the providers
\* that failed; its regions add up to its total if it is made from one scan; a month
\* counts every provider once; and the trend shows the history: for any number of
\* providers, scans and costs.
THEOREM SourcesTrueHolds == ContextSpec => []SourcesTrue
<1>1. ContextSpec => []ContextInv
  BY ContextStarts, ContextStep, PTL DEF ContextSpec
<1>2. ContextInv => SourcesTrue
  BY MonthsCountOnce, TrendsAreHistory DEF SourcesTrue, ContextInv
<1> QED BY <1>1, <1>2, PTL

-----------------------------------------------------------------------------
(* Scheduler timing: TimesAgreeHolds.                                      *)

RunRow == [start : Nat, end : Nat, state : {"running", "completed", "failed"}]
IngestedRow == [table : {"snapshots", "imports"}, feed : Feed, at : Nat]
Policies == [frequency : Frequency, override : Frequency \cup {"none"}, enabled : BOOLEAN,
             grace : Grace, approved : {0}]

\* Nothing ends or arrives in the future.
TimingInv ==
    /\ moment \in Nat
    /\ runs \in Seq(RunRow)
    /\ Len(runs) <= MaxRuns
    /\ \A i \in DOMAIN runs : runs[i].end <= moment
    /\ policy \in Policies
    /\ ingested \in Seq(IngestedRow)
    /\ \A i \in DOMAIN ingested : ingested[i].at <= moment

LEMMA MaxIs ==
  ASSUME NEW S \in SUBSET Nat, S # {}, NEW b \in Nat, \A x \in S : x <= b
  PROVE  Max(S) \in S /\ \A x \in S : x <= Max(S)
<1>1. PICK g \in S : \A x \in S : x <= g
  BY GreatestNumber
<1>2. \A x \in S : g >= x
  BY <1>1
<1>3. Max(S) \in S /\ \A x \in S : Max(S) >= x
  BY <1>2 DEF Max
<1> QED BY <1>3

LEMMA TimingFacts ==
  ASSUME TimingInv
  PROVE  /\ Len(runs) \in Nat /\ DOMAIN runs = 1..Len(runs) /\ Len(runs) <= MaxRuns /\ moment \in Nat
         /\ \A i \in 1..Len(runs) :
              /\ runs[i].end \in Nat /\ runs[i].end <= moment
              /\ runs[i].state \in {"running", "completed", "failed"}
         /\ Interval \in Nat /\ Interval >= 1
         /\ policy.grace \in Nat /\ policy.approved = 0
         /\ policy.grace * HourTicks \in Nat
         /\ Len(ingested) \in Nat /\ DOMAIN ingested = 1..Len(ingested)
         /\ \A i \in 1..Len(ingested) :
              /\ ingested[i].at \in Nat /\ ingested[i].at <= moment
              /\ ingested[i].table \in {"snapshots", "imports"} /\ ingested[i].feed \in Feed
<1>1. PICK D, E : D = RunRow /\ E = IngestedRow
  OBVIOUS
<1>2. /\ Len(runs) \in Nat /\ DOMAIN runs = 1..Len(runs) /\ \A i \in 1..Len(runs) : runs[i] \in D
      /\ Len(ingested) \in Nat /\ DOMAIN ingested = 1..Len(ingested)
      /\ \A i \in 1..Len(ingested) : ingested[i] \in E
  <2>1. runs \in Seq(D) /\ ingested \in Seq(E)
    BY <1>1 DEF TimingInv
  <2> QED BY <2>1
<1>3. /\ policy.frequency \in Frequency /\ policy.override \in Frequency \cup {"none"}
      /\ policy.grace \in Grace /\ policy.approved = 0
  BY DEF TimingInv, Policies
<1>4. Interval \in Nat /\ Interval >= 1
  <2>1. Interval \in Nat \ {0}
    BY <1>3, TimingBounds DEF Interval
  <2> QED BY <2>1
<1>5. policy.grace \in Nat /\ HourTicks \in Nat
  BY <1>3, TimingBounds
<1>6. policy.grace * HourTicks \in Nat
  BY <1>5
<1> QED BY <1>1, <1>2, <1>3, <1>4, <1>5, <1>6 DEF TimingInv, RunRow, IngestedRow

\* The last success of the newest n runs.
LEMMA LastSuccessIs ==
  ASSUME TimingInv, NEW n \in Nat
  PROVE  /\ Successes(n) = {} => LastSuccess(n) = -1
         /\ Successes(n) # {} =>
              /\ Max(Successes(n)) \in Successes(n)
              /\ \A i \in Successes(n) : i <= Max(Successes(n))
              /\ LastSuccess(n) = runs[Max(Successes(n))].end
              /\ LastSuccess(n) \in Nat /\ LastSuccess(n) <= moment
<1>1. CASE Successes(n) = {}
  BY <1>1 DEF LastSuccess
<1>2. CASE Successes(n) # {}
  <2>1. Successes(n) \in SUBSET Nat /\ \A i \in Successes(n) : i \in 1..Len(runs) /\ i <= Len(runs)
    BY TimingFacts DEF Successes
  <2>2. Len(runs) \in Nat
    BY TimingFacts
  <2>3. Max(Successes(n)) \in Successes(n) /\ \A i \in Successes(n) : i <= Max(Successes(n))
    BY <1>2, <2>1, <2>2, MaxIs
  <2>4. LastSuccess(n) = runs[Max(Successes(n))].end
    BY <1>2 DEF LastSuccess
  <2>5. PICK m : m = Max(Successes(n))
    OBVIOUS
  <2>6. m \in Successes(n) /\ \A i \in Successes(n) : i <= m
    BY <2>3, <2>5
  <2>7. m \in 1..Len(runs) /\ LastSuccess(n) = runs[m].end
    BY <2>1, <2>4, <2>5, <2>6
  <2>8. runs[m].end \in Nat /\ runs[m].end <= moment
    BY <2>6, <2>7, TimingFacts DEF Successes
  <2>9. LastSuccess(n) \in Nat /\ LastSuccess(n) <= moment
    BY <2>7, <2>8
  <2> QED BY <1>2, <2>3, <2>4, <2>9
<1> QED BY <1>1, <1>2

LEMMA LastSuccessType ==
  ASSUME TimingInv, NEW n \in Nat
  PROVE  LastSuccess(n) \in Int /\ LastSuccess(n) <= moment
<1>1. moment \in Nat
  BY TimingFacts
<1>2. LastSuccess(n) = -1 \/ (LastSuccess(n) \in Nat /\ LastSuccess(n) <= moment)
  BY LastSuccessIs
<1> QED BY <1>1, <1>2

LEMMA LastEndType ==
  ASSUME TimingInv
  PROVE  LastEnd \in Int /\ LastEnd <= moment /\ LastEnd >= -1
<1>1. PICK E : E = {runs[i].end : i \in Successes(MaxRuns)}
  OBVIOUS
<1>2. LastEnd = IF E = {} THEN -1 ELSE Max(E)
  BY <1>1, Zenon DEF LastEnd
<1>3. E \in SUBSET Nat /\ \A x \in E : x <= moment
  BY <1>1, TimingFacts DEF Successes
<1>4. moment \in Nat
  BY TimingFacts
<1>5. E # {} => Max(E) \in E
  BY <1>3, <1>4, MaxIs
<1> QED BY <1>2, <1>3, <1>4, <1>5

-----------------------------------------------------------------------------
(* What is late.                                                           *)

LEMMA StatusAgreesAlways ==
  ASSUME TimingInv
  PROVE  StatusAgrees
BY DEF StatusAgrees, StatusOverdue, PassOverdue

LEMMA SlackType ==
  ASSUME TimingInv
  PROVE  Slack \in Nat
<1>1. PICK p, q : p = Interval \div 4 /\ q = HourTicks \div 4
  OBVIOUS
<1>2. p \in Nat /\ q \in Nat
  <2>1. \A n \in Nat : n \div 4 \in Nat
    OBVIOUS
  <2>2. Interval \in Nat /\ HourTicks \in Nat
    BY TimingFacts, TimingBounds
  <2> QED BY <1>1, <2>1, <2>2
<1>3. \E b \in Nat : p <= b /\ q <= b
  <2>1. p + q \in Nat /\ p <= p + q /\ q <= p + q
    BY <1>2
  <2> QED BY <2>1
<1>4. Max({p, q}) \in {p, q}
  BY <1>2, <1>3, MaxIs
<1> QED BY <1>1, <1>2, <1>4 DEF Slack

LEMMA LagAlwaysFits ==
  ASSUME TimingInv
  PROVE  LagFits
<1> SUFFICES ASSUME LastSuccess(FreshRuns) = LastEnd
             PROVE  /\ PassOverdue /\ policy.grace * HourTicks >= Slack => SchedulerHealth = "lagging"
                    /\ SchedulerHealth = "lagging" => PassDue
  BY DEF LagFits
<1>1. PICK I, g, s, e : I = Interval /\ g = policy.grace * HourTicks /\ s = Slack /\ e = LastEnd
  OBVIOUS
<1>2. I \in Nat /\ g \in Nat /\ s \in Nat /\ e \in Int /\ moment \in Nat /\ e <= moment
  BY <1>1, TimingFacts, SlackType, LastEndType
<1>3. /\ PassOverdue <=> e >= 0 /\ moment - e > I + g
      /\ PassDue <=> e < 0 \/ moment - e >= I
      /\ SchedulerHealth = IF e < 0 THEN "unknown"
                           ELSE IF moment - e - I > s THEN "lagging" ELSE "healthy"
  BY <1>1 DEF PassOverdue, PassDue, SchedulerHealth, Limit
<1>4. ASSUME e >= 0, moment - e > I + g, g >= s
      PROVE  moment - e - I > s
  BY <1>2, <1>4
<1>5. ASSUME moment - e - I > s
      PROVE  moment - e >= I
  BY <1>2, <1>5
<1> QED BY <1>1, <1>2, <1>3, <1>4, <1>5

-----------------------------------------------------------------------------
(* What is next.                                                           *)

\* Whole intervals: at least one makes at least an interval.
LEMMA Intervals ==
  ASSUME NEW p \in Nat, NEW I \in Nat, I >= 1
  PROVE  /\ p * I \in Nat /\ p <= p * I /\ (p + 1) * I = p * I + I
         /\ p >= 1 => p * I >= I
<1>1. PICK q, r : q = I - 1 /\ r = p * q
  OBVIOUS
<1>2. q \in Nat
  BY <1>1
<1>3. r \in Nat
  BY <1>1, <1>2
<1>4. p * I = r + p
  BY <1>1, <1>2
<1>5. p >= 1 => p * I >= I
  <2> SUFFICES ASSUME p >= 1 PROVE p * I >= I
    OBVIOUS
  <2>1. PICK t : t = p - 1
    OBVIOUS
  <2>2. t \in Nat /\ p = t + 1
    BY <2>1
  <2>3. t * I \in Nat
    BY <2>2
  <2>4. p * I = t * I + I
    BY <2>2
  <2> QED BY <2>3, <2>4
<1> QED BY <1>3, <1>4, <1>5

\* Intervals are counted until the time is not before now.
Counts(now, a, I, k) == /\ a + k * I >= now
                        /\ k = 1 \/ a + (k - 1) * I < now

LEMMA CountExists ==
  ASSUME NEW now \in Nat, NEW a \in Nat, NEW I \in Nat, I >= 1
  PROVE  \E k \in 1..(now + 2) : Counts(now, a, I, k)
<1>1. PICK T : T = {k \in 1..(now + 2) : a + k * I >= now}
  OBVIOUS
<1>2. now + 1 \in T
  <2>1. PICK n, x : n = now + 1 /\ x = n * I
    OBVIOUS
  <2>2. n \in Nat /\ x \in Nat /\ n <= x
    BY <2>1, Intervals
  <2>3. a + x >= now /\ n \in 1..(now + 2)
    BY <2>1, <2>2
  <2> QED BY <1>1, <2>1, <2>3
<1>3. T \in SUBSET Nat
  BY <1>1
<1>4. PICK k \in T : \A m \in T : k <= m
  BY <1>2, <1>3, LeastNumber
<1>5. k \in 1..(now + 2) /\ a + k * I >= now
  BY <1>1, <1>4
<1>6. k = 1 \/ a + (k - 1) * I < now
  <2> SUFFICES ASSUME k # 1 PROVE a + (k - 1) * I < now
    OBVIOUS
  <2>1. PICK t, y : t = k - 1 /\ y = t * I
    OBVIOUS
  <2>2. t \in 1..(now + 2) /\ t \in Nat /\ ~(k <= t)
    BY <1>5, <2>1
  <2>3. y \in Nat
    BY <2>1, <2>2
  <2>4. t \notin T
    BY <1>4, <2>2
  <2>5. ~(a + y >= now)
    BY <1>1, <2>1, <2>2, <2>4
  <2>6. a + y < now
    BY <2>3, <2>5
  <2> QED BY <2>1, <2>6
<1> QED BY <1>5, <1>6 DEF Counts

\* The time that is counted to is the first one not before now, after at least
\* one interval.
LEMMA CountedTime ==
  ASSUME NEW now \in Nat, NEW a \in Nat, a <= now, NEW I \in Nat, I >= 1,
         NEW k \in Nat, k >= 1, Counts(now, a, I, k)
  PROVE  /\ now <= a + k * I /\ a + k * I <= now + I
         /\ now - a < I => a + k * I = a + I
         /\ now - a >= I /\ (now - a) % I = 0 => a + k * I = now
<1>1. PICK t, y, z : t = k - 1 /\ y = t * I /\ z = k * I
  OBVIOUS
<1>2. t \in Nat /\ y \in Nat /\ z = y + I /\ (t >= 1 => y >= I)
  <2>1. t \in Nat /\ k = t + 1
    BY <1>1
  <2> QED BY <1>1, <2>1, Intervals
<1>3. a + z >= now /\ (t = 0 \/ a + y < now) /\ (t = 0 => y = 0)
  BY <1>1, <1>2 DEF Counts
<1>4. now <= a + z /\ a + z <= now + I
  BY <1>2, <1>3
<1>5. now - a < I => z = I
  BY <1>2, <1>3
<1>6. ASSUME now - a >= I, (now - a) % I = 0
      PROVE  a + z = now
  <2>1. PICK q, d : d = now - a /\ q = d \div I
    OBVIOUS
  <2>2. d \in Nat /\ q \in Nat /\ d = I * q
    BY <1>6, <2>1
  <2>3. d = q * I
    BY <2>2
  <2>4. t < q
    <3>1. ASSUME q <= t
          PROVE  FALSE
      <4>1. PICK r : r = t - q
        OBVIOUS
      <4>2. r \in Nat /\ t = q + r
        BY <2>2, <3>1, <4>1, <1>2
      <4>3. r * I \in Nat /\ y = q * I + r * I
        BY <1>1, <2>2, <4>2
      <4>4. y >= d
        BY <2>2, <2>3, <4>3
      <4>5. t # 0
        BY <1>2, <1>3, <1>6, <2>1, <4>4
      <4> QED BY <1>2, <1>3, <2>1, <2>2, <4>4, <4>5
    <3> QED BY <1>2, <2>2, <3>1
  <2>5. z <= d
    <3>1. PICK r : r = q - k
      OBVIOUS
    <3>2. r \in Nat /\ q = k + r
      BY <1>1, <1>2, <2>2, <2>4, <3>1
    <3>3. r * I \in Nat /\ d = k * I + r * I
      BY <2>3, <3>2
    <3>4. k * I \in Nat
      OBVIOUS
    <3> QED BY <1>1, <3>3, <3>4
  <2> QED BY <1>2, <1>3, <2>1, <2>2, <2>5
<1> QED BY <1>1, <1>4, <1>5, <1>6

LEMMA NextRunAlwaysRight ==
  ASSUME TimingInv
  PROVE  NextRunRight
<1>1. PICK a, I, e, now : a = Anchor /\ I = Interval /\ e = LastEnd /\ now = moment
  OBVIOUS
<1>2. I \in Nat /\ I >= 1 /\ now \in Nat /\ e \in Int
  BY <1>1, TimingFacts, LastEndType
<1>3. a \in Nat /\ a <= now
  <2>1. StatusRuns \in Nat /\ policy.approved = 0
    BY TimingBounds, TimingFacts
  <2>2. LastSuccess(StatusRuns) \in Int /\ LastSuccess(StatusRuns) <= moment
    BY <2>1, LastSuccessType
  <2> QED BY <1>1, <1>2, <2>1, <2>2 DEF Anchor
<1> DEFINE P(k) == Counts(now, a, I, k)
<1>4. NextRun(now, a) = a + I * (CHOOSE k \in 1..(now + 2) : P(k))
  BY <1>1, Zenon DEF NextRun, Counts
<1>5. PICK k : k = (CHOOSE j \in 1..(now + 2) : P(j))
  OBVIOUS
<1>6. k \in 1..(now + 2) /\ P(k)
  <2>1. \E j \in 1..(now + 2) : P(j)
    BY <1>2, <1>3, CountExists
  <2> HIDE DEF P
  <2> QED BY <1>5, <2>1
<1>7. k \in Nat /\ k >= 1
  BY <1>2, <1>6
<1>8. PICK next : next = a + k * I
  OBVIOUS
<1>9. NextRun(moment, Anchor) = next
  <2>1. I * k = k * I
    BY <1>2, <1>7
  <2> HIDE DEF P
  <2> QED BY <1>1, <1>4, <1>5, <1>8, <2>1, Zenon
<1>10. /\ now <= next /\ next <= now + I
       /\ now - a < I => next = a + I
       /\ now - a >= I /\ (now - a) % I = 0 => next = now
  BY <1>2, <1>3, <1>6, <1>7, <1>8, CountedTime
<1>11. PassDue <=> e < 0 \/ now - e >= I
  BY <1>1 DEF PassDue
<1>12. a = e /\ ~PassDue => next = e + I
  BY <1>2, <1>3, <1>10, <1>11
<1>13. PassDue /\ a = e /\ (now - e) % I = 0 => next = now
  BY <1>3, <1>10, <1>11
<1> QED BY <1>1, <1>9, <1>10, <1>12, <1>13, Zenon DEF NextRunRight

-----------------------------------------------------------------------------
(* What is fresh.                                                          *)

\* The rows of a feed that are read.
LEMMA SeenIs ==
  ASSUME TimingInv, NEW f
  PROVE  /\ Seen(f) # {} =>
              /\ \E k \in DOMAIN ingested : ingested[k].feed = f /\ ingested[k].at = Max(Seen(f))
              /\ \A x \in Seen(f) : x <= Max(Seen(f))
         /\ Max(Seen(f)) \in Nat \/ Seen(f) = {}
<1>1. Seen(f) \in SUBSET Nat /\ \A x \in Seen(f) : x <= moment
  BY TimingFacts DEF Seen, Read, RowsIn
<1>2. moment \in Nat
  BY TimingFacts
<1>3. Seen(f) # {} => Max(Seen(f)) \in Seen(f) /\ \A x \in Seen(f) : x <= Max(Seen(f))
  BY <1>1, <1>2, MaxIs
<1>4. \A x \in Seen(f) : \E k \in DOMAIN ingested : ingested[k].feed = f /\ ingested[k].at = x
  BY DEF Seen, Read, RowsIn
<1> QED BY <1>1, <1>3, <1>4

\* A row with few rows after it is read.
LEMMA NewRowIsRead ==
  ASSUME TimingInv, NEW i \in DOMAIN ingested,
         Cardinality({k \in DOMAIN ingested : k > i}) < FreshRows
  PROVE  ingested[i].at \in Seen(ingested[i].feed)
<1>1. PICK S, T, t : /\ S = {k \in DOMAIN ingested : k > i}
                     /\ t = ingested[i].table
                     /\ T = {j \in RowsIn(t) : j > i}
  OBVIOUS
<1>2. T \in SUBSET S
  BY <1>1 DEF RowsIn
<1>3. Len(ingested) \in Nat /\ DOMAIN ingested = 1..Len(ingested) /\ t \in {"snapshots", "imports"}
  BY <1>1, TimingFacts
<1>4. IsFiniteSet(S)
  <2>1. IsFiniteSet(1..Len(ingested))
    BY <1>3, FS_Interval
  <2> QED BY <1>1, <1>3, <2>1, FS_Subset
<1>5. Cardinality(T) <= Cardinality(S) /\ Cardinality(T) \in Nat /\ Cardinality(S) \in Nat
  BY <1>2, <1>4, FS_Subset, FS_CardinalityType
<1>6. Cardinality(T) < FreshRows
  <2>1. FreshRows \in Nat
    BY TimingBounds
  <2> QED BY <1>1, <1>5, <2>1
<1>7. i \in Read(t)
  BY <1>1, <1>6 DEF Read, RowsIn
<1> QED BY <1>3, <1>7 DEF Seen

LEMMA FreshnessAlwaysOrdered ==
  ASSUME TimingInv
  PROVE  FreshnessOrdered
<1> SUFFICES ASSUME NEW f \in Feed, NEW g \in Feed, NEW i \in DOMAIN ingested,
                    ingested[i].feed = f,
                    \A k \in DOMAIN ingested : ingested[k].feed = g => ingested[k].at <= ingested[i].at,
                    FeedState(g) = "fresh",
                    Cardinality({k \in DOMAIN ingested : k > i}) < FreshRows
             PROVE  FeedState(f) = "fresh"
  BY DEF FreshnessOrdered
<1>1. Seen(g) # {} /\ ~(moment - Max(Seen(g)) > StaleAfter)
  BY DEF FeedState
<1>2. PICK k \in DOMAIN ingested : ingested[k].feed = g /\ ingested[k].at = Max(Seen(g))
  BY <1>1, SeenIs
<1>3. PICK x, y, z : x = ingested[i].at /\ y = Max(Seen(g)) /\ z = Max(Seen(f))
  OBVIOUS
<1>4. x \in Seen(f)
  BY <1>3, NewRowIsRead
<1>5. x <= z /\ z \in Nat
  BY <1>3, <1>4, SeenIs
<1>6. y <= x /\ x \in Nat /\ y \in Nat /\ moment \in Nat
  BY <1>1, <1>2, <1>3, SeenIs, TimingFacts
<1>7. ~(moment - z > StaleAfter)
  <2>1. StaleAfter \in Nat /\ ~(moment - y > StaleAfter)
    BY <1>1, <1>3, TimingBounds
  <2> QED BY <1>5, <1>6, <2>1
<1> QED BY <1>3, <1>4, <1>7 DEF FeedState

-----------------------------------------------------------------------------
(* Time passes.                                                            *)

LEMMA TimingStarts ==
  ASSUME TimingInit
  PROVE  TimingInv
<1>1. runs = <<>> /\ ingested = <<>> /\ moment = 0
  BY DEF TimingInit
<1>2. runs \in Seq(RunRow) /\ ingested \in Seq(IngestedRow)
  BY <1>1
<1>3. Len(runs) <= MaxRuns
  BY <1>1, TimingBounds
<1>4. policy \in Policies
  BY DEF TimingInit, Policies
<1> QED BY <1>1, <1>2, <1>3, <1>4 DEF TimingInv

LEMMA EndIs ==
  ASSUME TimingInv, NEW i, NEW state \in {"completed", "failed"}, End(i, state)
  PROVE  /\ moment' = moment /\ policy' = policy /\ ingested' = ingested
         /\ i \in DOMAIN runs /\ Len(runs') = Len(runs) /\ DOMAIN runs' = DOMAIN runs
         /\ runs' \in Seq(RunRow)
         /\ runs'[i].end = moment /\ runs'[i].state = state
         /\ \A j \in DOMAIN runs \ {i} : runs'[j] = runs[j]
<1>1. PICK D, row : D = RunRow /\ row = [runs[i] EXCEPT !.end = moment, !.state = state]
  OBVIOUS
<1>2. runs \in Seq(D) /\ i \in DOMAIN runs
  BY <1>1 DEF TimingInv, End
<1>3. runs[i] \in D /\ moment \in Nat
  BY <1>2, ElementOfSeq, TimingFacts
<1>4. row \in D /\ row.end = moment /\ row.state = state
  BY <1>1, <1>3 DEF RunRow
<1>5. runs' = [runs EXCEPT ![i] = row]
  BY <1>1, <1>2 DEF End
<1>6. runs' \in Seq(D) /\ Len(runs') = Len(runs)
  BY <1>2, <1>4, <1>5, ExceptSeq
<1>7. DOMAIN runs' = DOMAIN runs /\ runs'[i] = row /\ \A j \in DOMAIN runs \ {i} : runs'[j] = runs[j]
  BY <1>2, <1>5
<1> QED BY <1>1, <1>2, <1>4, <1>6, <1>7 DEF End

LEMMA TimingStep ==
  ASSUME TimingInv, [TimingNext]_timingVars
  PROVE  TimingInv'
<1>1. PICK D, E : D = RunRow /\ E = IngestedRow
  OBVIOUS
<1>2. /\ runs \in Seq(D) /\ ingested \in Seq(E) /\ moment \in Nat
      /\ Len(runs) \in Nat /\ DOMAIN runs = 1..Len(runs)
      /\ \A i \in 1..Len(runs) : runs[i].end \in Nat /\ runs[i].end <= moment
      /\ Len(ingested) \in Nat /\ DOMAIN ingested = 1..Len(ingested)
      /\ \A i \in 1..Len(ingested) : ingested[i].at \in Nat /\ ingested[i].at <= moment
  BY <1>1, TimingFacts DEF TimingInv
<1>3. ASSUME Begin
      PROVE  TimingInv'
  <2>1. PICK row : row = [start |-> moment, end |-> 0, state |-> "running"]
    OBVIOUS
  <2>2. row \in D /\ row.end = 0
    BY <1>1, <1>2, <2>1 DEF RunRow
  <2>3. runs' = Append(runs, row) /\ Len(runs) < MaxRuns /\ UNCHANGED <<moment, policy, ingested>>
    BY <1>3, <2>1 DEF Begin
  <2>4. runs' \in Seq(D) /\ Len(runs') = Len(runs) + 1 /\ DOMAIN runs' = 1..(Len(runs) + 1)
    BY <1>2, <2>2, <2>3
  <2>5. \A i \in 1..(Len(runs) + 1) : runs'[i] = IF i <= Len(runs) THEN runs[i] ELSE row
    BY <1>2, <2>2, <2>3
  <2>6. \A i \in DOMAIN runs' : runs'[i].end <= moment
    BY <1>2, <2>2, <2>4, <2>5
  <2>7. Len(runs') <= MaxRuns
    BY <1>2, <2>3, <2>4, TimingBounds
  <2> QED BY <1>1, <2>3, <2>4, <2>6, <2>7 DEF TimingInv
<1>4. ASSUME NEW i, NEW state \in {"completed", "failed"}, End(i, state)
      PROVE  TimingInv'
  <2>1. /\ moment' = moment /\ policy' = policy /\ ingested' = ingested
        /\ Len(runs') = Len(runs) /\ DOMAIN runs' = DOMAIN runs /\ runs' \in Seq(RunRow)
        /\ runs'[i].end = moment /\ \A j \in DOMAIN runs \ {i} : runs'[j] = runs[j]
    BY <1>4, EndIs
  <2>2. \A j \in DOMAIN runs' : runs'[j].end <= moment
    BY <1>2, <2>1
  <2> QED BY <2>1, <2>2 DEF TimingInv
<1>5. ASSUME NEW enabled \in BOOLEAN, NEW override \in Frequency \cup {"none"}, NEW grace \in Grace,
             SetPolicy(enabled, override, grace)
      PROVE  TimingInv'
  <2>1. policy' \in Policies
    BY <1>5 DEF SetPolicy, TimingInv, Policies
  <2> QED BY <1>5, <2>1 DEF SetPolicy, TimingInv
<1>6. ASSUME NEW table \in {"snapshots", "imports"}, NEW feed \in Feed, Ingest(table, feed)
      PROVE  TimingInv'
  <2>1. PICK row : row = [table |-> table, feed |-> feed, at |-> moment]
    OBVIOUS
  <2>2. row \in E /\ row.at = moment
    BY <1>1, <1>2, <2>1 DEF IngestedRow
  <2>3. ingested' = Append(ingested, row) /\ UNCHANGED <<moment, runs, policy>>
    BY <1>6, <2>1 DEF Ingest
  <2>4. ingested' \in Seq(E) /\ DOMAIN ingested' = 1..(Len(ingested) + 1)
    BY <1>2, <2>2, <2>3
  <2>5. \A i \in 1..(Len(ingested) + 1) : ingested'[i] = IF i <= Len(ingested) THEN ingested[i] ELSE row
    BY <1>2, <2>2, <2>3
  <2>6. \A i \in DOMAIN ingested' : ingested'[i].at <= moment
    BY <1>2, <2>2, <2>4, <2>5
  <2> QED BY <1>1, <2>3, <2>4, <2>6 DEF TimingInv
<1>7. ASSUME NEW ticks \in Nat, TimePasses(ticks)
      PROVE  TimingInv'
  <2>1. /\ moment' = moment + ticks /\ runs' = runs /\ policy' = policy /\ ingested' = ingested
    BY <1>7 DEF TimePasses
  <2>2. moment' \in Nat /\ \A x \in Nat : x <= moment => x <= moment'
    BY <1>2, <2>1
  <2> QED BY <1>2, <2>1, <2>2 DEF TimingInv
<1>8. ASSUME UNCHANGED timingVars
      PROVE  TimingInv'
  BY <1>8 DEF timingVars, TimingInv
<1>9. 1 \in Nat /\ StaleAfter \in Nat
  BY TimingBounds
<1> QED BY <1>3, <1>4, <1>5, <1>6, <1>7, <1>8, <1>9 DEF TimingNext, RunsChange, RowsChange

LEMMA LastSuccessNext ==
  (TimingInv => \A n \in Nat :
     /\ Successes(n) = {} => LastSuccess(n) = -1
     /\ Successes(n) # {} =>
          /\ Max(Successes(n)) \in Successes(n)
          /\ \A i \in Successes(n) : i <= Max(Successes(n))
          /\ LastSuccess(n) = runs[Max(Successes(n))].end)'
<1>1. TimingInv => \A n \in Nat :
         /\ Successes(n) = {} => LastSuccess(n) = -1
         /\ Successes(n) # {} =>
              /\ Max(Successes(n)) \in Successes(n)
              /\ \A i \in Successes(n) : i <= Max(Successes(n))
              /\ LastSuccess(n) = runs[Max(Successes(n))].end
  BY LastSuccessIs
<1> QED BY <1>1, PTL

\* The success of the run that no later one outlasts is seen by everyone who reads
\* that far.
LEMMA SuccessSeenStep ==
  ASSUME TimingInv, [TimingNext]_timingVars, NEW i \in DOMAIN runs, End(i, "completed"),
         \A j \in DOMAIN runs : j > i => runs[j].state = "running",
         Len(runs) - i < FreshRuns
  PROVE  ~StatusOverdue' /\ SchedulerHealth' = "healthy"
<1>1. /\ moment' = moment /\ policy' = policy /\ Len(runs') = Len(runs) /\ DOMAIN runs' = DOMAIN runs
      /\ runs'[i].end = moment /\ runs'[i].state = "completed"
      /\ \A j \in DOMAIN runs \ {i} : runs'[j] = runs[j]
  BY EndIs
<1>2. TimingInv'
  BY TimingStep
<1>3. /\ Len(runs) \in Nat /\ DOMAIN runs = 1..Len(runs) /\ moment \in Nat
      /\ Interval \in Nat /\ Slack \in Nat /\ policy.grace * HourTicks \in Nat
  BY TimingFacts, SlackType
<1>4. Interval' = Interval /\ Slack' = Slack /\ Limit' = Limit
  BY <1>1 DEF Interval, Slack, Limit
<1>5. \A j \in DOMAIN runs : runs'[j].state = "completed" => j <= i
  BY <1>1, <1>3
<1>6. ASSUME NEW n \in Nat
      PROVE  LastSuccess(n)' = IF Len(runs) - i < n THEN moment ELSE -1
  <2>1. PICK S : S = Successes(n)'
    OBVIOUS
  <2>2. S = {j \in DOMAIN runs : j > Len(runs) - n /\ runs'[j].state = "completed"}
    BY <1>1, <2>1 DEF Successes
  <2>3. /\ S = {} => LastSuccess(n)' = -1
        /\ S # {} =>
             /\ Max(S) \in S
             /\ \A j \in S : j <= Max(S)
             /\ LastSuccess(n)' = runs'[Max(S)].end
    BY <1>2, <2>1, LastSuccessNext
  <2>4. CASE Len(runs) - i < n
    <3>1. i \in S
      BY <1>1, <1>3, <2>2, <2>4
    <3>2. Max(S) <= i /\ i <= Max(S) /\ Max(S) \in Nat
      BY <1>3, <1>5, <2>2, <2>3, <3>1
    <3>3. Max(S) = i
      BY <1>3, <3>2
    <3> QED BY <1>1, <2>3, <2>4, <3>1, <3>3
  <2>5. CASE ~(Len(runs) - i < n)
    <3>1. S = {}
      BY <1>3, <1>5, <2>2, <2>5
    <3> QED BY <2>3, <2>5, <3>1
  <2> QED BY <2>4, <2>5
<1>7. FreshRuns \in Nat /\ StatusRuns \in Nat
  BY TimingBounds
<1>8. LastSuccess(FreshRuns)' = moment
  BY <1>6, <1>7
<1>9. LastSuccess(StatusRuns)' = moment \/ LastSuccess(StatusRuns)' = -1
  BY <1>6, <1>7
<1>10. Limit \in Nat
  BY <1>3 DEF Limit
<1>11. ~StatusOverdue'
  BY <1>1, <1>3, <1>4, <1>9, <1>10 DEF StatusOverdue
<1>12. SchedulerHealth' = "healthy"
  BY <1>1, <1>3, <1>4, <1>8 DEF SchedulerHealth
<1> QED BY <1>11, <1>12

\* The status page, the freshness of data and the pass of the scheduler agree about
\* what is late and what is next while the runs that matter are among those that
\* they read: for any number of runs, rows and feeds, and intervals of any length.
THEOREM TimesAgreeHolds == TimingSpec => TimesAgree
<1>1. TimingSpec => []TimingInv
  BY TimingStarts, TimingStep, PTL DEF TimingSpec
<1>2. TimingInv => StatusAgrees /\ NextRunRight /\ LagFits /\ FreshnessOrdered
  BY StatusAgreesAlways, NextRunAlwaysRight, LagAlwaysFits, FreshnessAlwaysOrdered
<1>3. TimingInv /\ [TimingNext]_timingVars =>
        [\A i \in DOMAIN runs :
           End(i, "completed") /\ (\A j \in DOMAIN runs : j > i => runs[j].state = "running") =>
             (Len(runs) - i < FreshRuns => ~StatusOverdue' /\ SchedulerHealth' = "healthy")]_timingVars
  BY SuccessSeenStep
<1> QED BY <1>1, <1>2, <1>3, PTL DEF TimingSpec, TimesAgree, SuccessSeen

-----------------------------------------------------------------------------
(* The rightsizing endpoint: AdviceTrueHolds.                              *)

From(recs) == {r.from : r \in recs}

LabelFits(label, sources) == label \in DOMAIN OwnSource => sources \subseteq OwnSource[label]

Live == {"ce", "aws", "gcp", "oci", "bridge"}

\* No two of recs are alike, and what a service is about is in no other.
RecsApart(recs) ==
    \A r, s \in recs :
        Alike(r, s) \/ (r.key = s.key /\ "service" \in {r.from, s.from}) => r = s

\* Sources that may stand together.
SourcesFit(sources, require) ==
    /\ require => "import" \notin sources
    /\ "import" \in sources => sources = {"import"}
    /\ "trend" \in sources => sources \subseteq {"trend", "service"}

UsersSpared(recs, fleet) ==
    \A r \in recs, m \in fleet :
        r.from \in {"aws", "gcp"} /\ r.key = m.key =>
            /\ m.cpu # Unknown \/ m.memory # Unknown
            /\ r.action = "terminate" => m.state # "running"

SpenderSpared(recs, newest) ==
    Len(spends) <= TrendRows =>
        \A r \in recs : r.from = "trend" /\ r.action = "terminate" => newest < 5

\* The sources at each step of a request.
SourcesAt(pc, sources) ==
    /\ pc = "trend" => sources \subseteq Live
    /\ pc = "services" => sources \subseteq Live \/ sources \subseteq {"trend"}
    /\ pc = "imports" => \/ sources \subseteq Live \cup {"service"}
                         \/ sources \subseteq {"trend", "service"}

\* The fields of a request.
AdviceFields ==
    advice = [pc |-> advice.pc, require |-> advice.require, newest |-> advice.newest,
              fleet |-> advice.fleet, recs |-> advice.recs, label |-> advice.label,
              offered |-> advice.offered]

AdviceFits ==
    /\ AdviceFields
    /\ advice.pc \in {"trend", "services", "imports", "done"}
    /\ LabelFits(advice.label, Sources)
    /\ SourcesAt(advice.pc, Sources)
    /\ SourcesFit(Sources, advice.require)
    /\ RecsApart(advice.recs)
    /\ UsersSpared(advice.recs, advice.fleet)
    /\ SpenderSpared(advice.recs, advice.newest)
    /\ LargestKept

AdviceInv == spends \in Seq(ScanForm) /\ (advice = NoAdvice \/ AdviceFits)

LEMMA Labels ==
    /\ \A l \in {"aws_cost_explorer", "aws_cloudwatch_inventory", "gcp_cloud_monitoring",
                 "oci_compute_inventory", "live_provider_recommendations", "cost_trend_analysis",
                 "service_cost_snapshot", "imported_costs", "no_data_available",
                 "live_provider_api"} : l \in DOMAIN OwnSource
    /\ "multi_provider_api" \notin DOMAIN OwnSource
    /\ "multi_source_cost_analysis" \notin DOMAIN OwnSource
    /\ OwnSource["aws_cost_explorer"] = {"ce"}
    /\ OwnSource["aws_cloudwatch_inventory"] = {"aws"}
    /\ OwnSource["gcp_cloud_monitoring"] = {"gcp"}
    /\ OwnSource["oci_compute_inventory"] = {"oci"}
    /\ OwnSource["live_provider_recommendations"] = {"bridge"}
    /\ OwnSource["cost_trend_analysis"] = {"trend"}
    /\ OwnSource["service_cost_snapshot"] = {"service"}
    /\ OwnSource["imported_costs"] = {"import"}
    /\ OwnSource["no_data_available"] = {}
    /\ OwnSource["live_provider_api"] = {}
BY DEF OwnSource

LEMMA LabelledFits ==
    ASSUME NEW label, NEW own \in DOMAIN OwnSource, NEW S, NEW T,
           LabelFits(label, S), T \subseteq OwnSource[own]
    PROVE  LabelFits(Labelled(label, own), S \cup T)
BY Labels DEF LabelFits, Labelled

LEMMA TierFits ==
    ASSUME NEW t, NEW source \in DOMAIN OwnSource, NEW own,
           LabelFits(t.label, From(t.recs)), From(own) \subseteq OwnSource[source]
    PROVE  /\ LabelFits(Tier(t, source, own).label, From(Tier(t, source, own).recs))
           /\ Tier(t, source, own).recs = t.recs \cup own
<1>1. Tier(t, source, own).recs = t.recs \cup own
  BY DEF Tier
<1>2. From(t.recs \cup own) = From(t.recs) \cup From(own)
  BY DEF From
<1>3. CASE own = {}
  <2>1. Tier(t, source, own).label = t.label /\ From(own) = {}
    BY <1>3 DEF Tier, From
  <2> QED BY <1>1, <1>2, <2>1
<1>4. CASE own # {}
  <2>1. Tier(t, source, own).label = Labelled(t.label, source)
    BY <1>4 DEF Tier
  <2>2. LabelFits(Labelled(t.label, source), From(t.recs) \cup From(own))
    BY LabelledFits
  <2> QED BY <1>1, <1>2, <2>1, <2>2
<1> QED BY <1>3, <1>4

LEMMA WorthOf == ASSUME NEW recs PROVE Worth(recs) \subseteq recs /\ \A r \in Worth(recs) : r.action # "none"
BY DEF Worth

\* What a machine is recommended for.
OfMachine(r, provider, m) ==
    r = Rec(provider, m.key, Suggested(provider, m)[1], Suggested(provider, m)[2] * m.cost)

LEMMA MachineRec ==
    ASSUME NEW provider, NEW m, NEW r, OfMachine(r, provider, m), r.action # "none"
    PROVE  /\ r.from = provider /\ r.key = m.key
           /\ m.cpu # Unknown \/ m.memory # Unknown
           /\ r.action = "terminate" => m.state # "running"
<1>1. r.from = provider /\ r.key = m.key /\ r.action = Suggested(provider, m)[1]
  BY DEF OfMachine, Rec
<1>2. ~(m.cpu = Unknown /\ m.memory = Unknown)
  BY <1>1 DEF Suggested
<1>3. m.state # "stopped" => Suggested(provider, m)[1] \in {"downsize", "none"}
  BY <1>2 DEF Suggested
<1> QED BY <1>1, <1>2, <1>3

LEMMA MachineRecsOf ==
    ASSUME NEW provider, NEW fleet
    PROVE  \A r \in MachineRecs(provider, fleet) :
             r.action # "none" /\ \E m \in fleet : OfMachine(r, provider, m)
BY DEF MachineRecs, Worth, OfMachine

\* Of AWS there are either its own recommendations or those of machines.
OfAws(r, reply, ce) ==
    IF ce THEN r \in reply.ce /\ r.from = "ce"
    ELSE \E m \in reply.aws : OfMachine(r, "aws", m) /\ r.action # "none"

OfOthers(r, reply) ==
    \/ \E m \in reply.gcp : OfMachine(r, "gcp", m) /\ r.action # "none"
    \/ r \in reply.oci /\ r.from = "oci"

LEMMA AwsTierIs ==
    ASSUME NEW reply \in ProviderAnswer, NEW aws \in SUBSET reply.aws
    PROVE  /\ LabelFits(AwsTier(reply.ce, aws).label, From(AwsTier(reply.ce, aws).recs))
           /\ \E ce \in BOOLEAN : \A r \in AwsTier(reply.ce, aws).recs : OfAws(r, reply, ce)
<1>1. Nothing.recs = {} /\ Nothing.label = "no_data_available"
  BY DEF Nothing
<1>2. From(Nothing.recs) = {} /\ LabelFits(Nothing.label, From(Nothing.recs))
  BY <1>1 DEF From, LabelFits
<1>3. CASE Worth(reply.ce) # {}
  <2>1. \A r \in Worth(reply.ce) : OfAws(r, reply, TRUE)
    BY WorthOf, AnswersApart DEF OfAws
  <2>2. From(Worth(reply.ce)) \subseteq OwnSource["aws_cost_explorer"]
    BY <2>1, Labels DEF From, OfAws
  <2>3. AwsTier(reply.ce, aws) = Tier(Nothing, "aws_cost_explorer", Worth(reply.ce))
    BY <1>3 DEF AwsTier
  <2>4. PICK t, o : t = Nothing /\ o = Worth(reply.ce)
    OBVIOUS
  <2>5. "aws_cost_explorer" \in DOMAIN OwnSource
    BY Labels
  <2>6. /\ LabelFits(Tier(t, "aws_cost_explorer", o).label, From(Tier(t, "aws_cost_explorer", o).recs))
        /\ Tier(t, "aws_cost_explorer", o).recs = t.recs \cup o
    BY <1>2, <2>2, <2>4, <2>5, TierFits
  <2>7. /\ LabelFits(AwsTier(reply.ce, aws).label, From(AwsTier(reply.ce, aws).recs))
        /\ AwsTier(reply.ce, aws).recs = Worth(reply.ce)
    BY <1>1, <2>3, <2>4, <2>6
  <2> QED BY <2>1, <2>7
<1>4. CASE Worth(reply.ce) = {}
  <2>1. \A r \in MachineRecs("aws", aws) : OfAws(r, reply, FALSE)
    BY MachineRecsOf DEF OfAws
  <2>2. From(MachineRecs("aws", aws)) \subseteq OwnSource["aws_cloudwatch_inventory"]
    <3>1. \A r \in MachineRecs("aws", aws) : r.from = "aws"
      BY MachineRecsOf, MachineRec
    <3> QED BY <3>1, Labels DEF From
  <2>3. AwsTier(reply.ce, aws)
          = Tier(Nothing, "aws_cloudwatch_inventory", MachineRecs("aws", aws))
    BY <1>4 DEF AwsTier
  <2>4. PICK t, o : t = Nothing /\ o = MachineRecs("aws", aws)
    OBVIOUS
  <2>5. "aws_cloudwatch_inventory" \in DOMAIN OwnSource
    BY Labels
  <2>6. /\ LabelFits(Tier(t, "aws_cloudwatch_inventory", o).label, From(Tier(t, "aws_cloudwatch_inventory", o).recs))
        /\ Tier(t, "aws_cloudwatch_inventory", o).recs = t.recs \cup o
    BY <1>2, <2>2, <2>4, <2>5, TierFits
  <2>7. /\ LabelFits(AwsTier(reply.ce, aws).label, From(AwsTier(reply.ce, aws).recs))
        /\ AwsTier(reply.ce, aws).recs = MachineRecs("aws", aws)
    BY <1>1, <2>3, <2>4, <2>6
  <2> QED BY <2>1, <2>7
<1> QED BY <1>3, <1>4

\* The recommendations of the tiers, before the bridge.
Tiers(reply, aws, gcp) ==
    Tier(Tier(AwsTier(reply.ce, aws), "gcp_cloud_monitoring", MachineRecs("gcp", gcp)),
         "oci_compute_inventory", Worth(reply.oci))

LEMMA TiersAre ==
    ASSUME NEW reply \in ProviderAnswer, NEW aws \in SUBSET reply.aws,
           NEW gcp \in SUBSET reply.gcp
    PROVE  LET t == Tiers(reply, aws, gcp) IN
           /\ LabelFits(t.label, From(t.recs))
           /\ \E ce \in BOOLEAN :
                \A r \in t.recs : OfAws(r, reply, ce) \/ OfOthers(r, reply)
<1>1. PICK a, g, o : /\ a = AwsTier(reply.ce, aws)
                     /\ g = Tier(a, "gcp_cloud_monitoring", MachineRecs("gcp", gcp))
                     /\ o = Tier(g, "oci_compute_inventory", Worth(reply.oci))
  OBVIOUS
<1>2. LabelFits(a.label, From(a.recs))
  BY <1>1, AwsTierIs
<1>3. \A r \in MachineRecs("gcp", gcp) : OfOthers(r, reply) /\ r.from = "gcp"
  BY MachineRecsOf, MachineRec DEF OfOthers
<1>4. From(MachineRecs("gcp", gcp)) \subseteq OwnSource["gcp_cloud_monitoring"]
  BY <1>3, Labels DEF From
<1>5. LabelFits(g.label, From(g.recs)) /\ g.recs = a.recs \cup MachineRecs("gcp", gcp)
  BY <1>1, <1>2, <1>4, Labels, TierFits
<1>6. \A r \in Worth(reply.oci) : OfOthers(r, reply) /\ r.from = "oci"
  BY WorthOf, AnswersApart DEF OfOthers
<1>7. From(Worth(reply.oci)) \subseteq OwnSource["oci_compute_inventory"]
  BY <1>6, Labels DEF From
<1>8. LabelFits(o.label, From(o.recs)) /\ o.recs = g.recs \cup Worth(reply.oci)
  BY <1>1, <1>5, <1>7, Labels, TierFits
<1>9. PICK ce \in BOOLEAN : \A r \in a.recs : OfAws(r, reply, ce)
  BY <1>1, AwsTierIs
<1>10. \A r \in o.recs : OfAws(r, reply, ce) \/ OfOthers(r, reply)
  BY <1>3, <1>5, <1>6, <1>8, <1>9
<1>11. Tiers(reply, aws, gcp) = o
  BY <1>1 DEF Tiers
<1> QED BY <1>8, <1>10, <1>11

LEMMA SourceOf ==
    ASSUME NEW r, NEW reply, NEW ce \in BOOLEAN, OfAws(r, reply, ce) \/ OfOthers(r, reply)
    PROVE  /\ r.from = "ce" => ce /\ r \in reply.ce
           /\ r.from = "aws" => ~ce /\ \E m \in reply.aws : OfMachine(r, "aws", m) /\ r.action # "none"
           /\ r.from = "gcp" => \E m \in reply.gcp : OfMachine(r, "gcp", m) /\ r.action # "none"
           /\ r.from = "oci" => r \in reply.oci
           /\ r.from \in {"ce", "aws", "gcp", "oci"}
<1>1. ASSUME NEW p, NEW m, OfMachine(r, p, m), r.action # "none"
      PROVE  r.from = p
  BY <1>1, MachineRec
<1>2. CASE OfAws(r, reply, ce)
  BY <1>1, <1>2 DEF OfAws
<1>3. CASE OfOthers(r, reply)
  BY <1>1, <1>3 DEF OfOthers
<1> QED BY <1>2, <1>3

\* The keys of a provider.
KeyIn(r, reply) ==
    CASE r.from \in {"ce", "aws"} -> r.key \in Keys(reply.ce \cup reply.aws)
      [] r.from = "gcp" -> r.key \in Keys(reply.gcp)
      [] OTHER -> r.key \in Keys(reply.oci)

LEMMA KeyOfSource ==
    ASSUME NEW r, NEW reply, NEW ce \in BOOLEAN, OfAws(r, reply, ce) \/ OfOthers(r, reply)
    PROVE  KeyIn(r, reply)
<1>1. CASE r.from = "ce"
  BY <1>1, SourceOf DEF KeyIn, Keys
<1>2. CASE r.from = "aws"
  <2>1. PICK m \in reply.aws : OfMachine(r, "aws", m) /\ r.action # "none"
    BY <1>2, SourceOf
  <2>2. r.key = m.key
    BY <2>1, MachineRec
  <2> QED BY <1>2, <2>2 DEF KeyIn, Keys
<1>3. CASE r.from = "gcp"
  <2>1. PICK m \in reply.gcp : OfMachine(r, "gcp", m) /\ r.action # "none"
    BY <1>3, SourceOf
  <2>2. r.key = m.key
    BY <2>1, MachineRec
  <2> QED BY <1>3, <2>2 DEF KeyIn, Keys
<1>4. CASE r.from = "oci"
  BY <1>4, SourceOf DEF KeyIn, Keys
<1> QED BY <1>1, <1>2, <1>3, <1>4, SourceOf

\* Of the tiers no two recommendations are alike.
LEMMA TiersApart ==
    ASSUME NEW reply \in ProviderAnswer, NEW ce \in BOOLEAN, NEW r, NEW s,
           OfAws(r, reply, ce) \/ OfOthers(r, reply),
           OfAws(s, reply, ce) \/ OfOthers(s, reply), Alike(r, s)
    PROVE  r = s
<1>1. KeysApart(reply) /\ r.key = s.key
  BY AnswersApart DEF Alike
<1>2. /\ r.from \in {"ce", "aws", "gcp", "oci"} /\ s.from \in {"ce", "aws", "gcp", "oci"}
      /\ KeyIn(r, reply) /\ KeyIn(s, reply)
  BY SourceOf, KeyOfSource
<1>3. r.from = s.from \/ {r.from, s.from} = {"ce", "aws"}
  BY <1>1, <1>2 DEF KeyIn, KeysApart, Keys
<1>4. r.from = s.from
  <2>1. r.from = "ce" => ce
    BY SourceOf
  <2>2. r.from = "aws" => ~ce
    BY SourceOf
  <2>3. s.from = "ce" => ce
    BY SourceOf
  <2>4. s.from = "aws" => ~ce
    BY SourceOf
  <2> QED BY <1>3, <2>1, <2>2, <2>3, <2>4
<1>5. ASSUME NEW fleet \in {reply.aws, reply.gcp}, NEW p,
             NEW m \in fleet, OfMachine(r, p, m), NEW n \in fleet, OfMachine(s, p, n)
      PROVE  r = s
  <2>1. r.key = m.key /\ s.key = n.key
    BY <1>5 DEF OfMachine, Rec
  <2>2. m = n
    BY <1>1, <2>1 DEF KeysApart
  <2> QED BY <1>5, <2>2 DEF OfMachine
<1>6. CASE r.from = "ce"
  <2>1. r \in reply.ce /\ s \in reply.ce
    BY <1>4, <1>6, SourceOf
  <2> QED BY <1>1, <2>1 DEF KeysApart
<1>7. CASE r.from = "oci"
  <2>1. r \in reply.oci /\ s \in reply.oci
    BY <1>4, <1>7, SourceOf
  <2> QED BY <1>1, <2>1 DEF KeysApart
<1>8. CASE r.from = "aws"
  <2>1. PICK m \in reply.aws : OfMachine(r, "aws", m)
    BY <1>8, SourceOf
  <2>2. PICK n \in reply.aws : OfMachine(s, "aws", n)
    BY <1>4, <1>8, SourceOf
  <2> QED BY <1>5, <2>1, <2>2
<1>9. CASE r.from = "gcp"
  <2>1. PICK m \in reply.gcp : OfMachine(r, "gcp", m)
    BY <1>9, SourceOf
  <2>2. PICK n \in reply.gcp : OfMachine(s, "gcp", n)
    BY <1>4, <1>9, SourceOf
  <2> QED BY <1>5, <2>1, <2>2
<1> QED BY <1>2, <1>6, <1>7, <1>8, <1>9

\* A recommended machine is the one that has its key.
LEMMA TiersSpare ==
    ASSUME NEW reply \in ProviderAnswer, NEW ce \in BOOLEAN, NEW r,
           OfAws(r, reply, ce) \/ OfOthers(r, reply),
           NEW m \in reply.aws \cup reply.gcp, r.from \in {"aws", "gcp"}, r.key = m.key
    PROVE  /\ m.cpu # Unknown \/ m.memory # Unknown
           /\ r.action = "terminate" => m.state # "running"
<1>1. KeysApart(reply)
  BY AnswersApart
<1>2. CASE r.from = "aws"
  <2>1. PICK n \in reply.aws : OfMachine(r, "aws", n) /\ r.action # "none"
    BY <1>2, SourceOf
  <2>2. n.key = m.key
    BY <2>1, MachineRec
  <2>3. m = n
    BY <1>1, <2>2 DEF KeysApart, Keys
  <2> QED BY <2>1, <2>3, MachineRec
<1>3. CASE r.from = "gcp"
  <2>1. PICK n \in reply.gcp : OfMachine(r, "gcp", n) /\ r.action # "none"
    BY <1>3, SourceOf
  <2>2. n.key = m.key
    BY <2>1, MachineRec
  <2>3. m = n
    BY <1>1, <2>2 DEF KeysApart, Keys
  <2> QED BY <2>1, <2>3, MachineRec
<1> QED BY <1>2, <1>3

\* What the providers reply, with the bridge's rows.
LEMMA LiveFits ==
    ASSUME NEW reply \in ProviderAnswer, NEW aws \in SUBSET reply.aws,
           NEW gcp \in SUBSET reply.gcp, NEW live, live = LiveRecs(reply, aws, gcp)
    PROVE  /\ LabelFits(live.label, From(live.recs))
           /\ From(live.recs) \subseteq Live
           /\ RecsApart(live.recs)
           /\ UsersSpared(live.recs, reply.aws \cup reply.gcp)
<1>1. PICK t, rows, led : /\ t = Tiers(reply, aws, gcp) /\ rows = Worth(reply.bridge)
                          /\ led = {r \in Leading(rows) : \A s \in t.recs : ~Alike(r, s)}
  OBVIOUS
<1>2. live = Bridged(t, rows)
  BY <1>1 DEF LiveRecs, Tiers
<1>3. live.recs = t.recs \cup led
  BY <1>1, <1>2 DEF Bridged
<1>4. LabelFits(t.label, From(t.recs))
  BY <1>1, TiersAre
<1>5. PICK ce \in BOOLEAN : \A r \in t.recs : OfAws(r, reply, ce) \/ OfOthers(r, reply)
  BY <1>1, TiersAre
<1>6. \A r \in rows : r.from = "bridge"
  BY <1>1, WorthOf, AnswersApart
<1>7. \A r \in led : /\ r \in rows /\ r = FirstFor(rows, r.key, r.action)
                     /\ \A s \in t.recs : ~Alike(r, s)
  BY <1>1 DEF Leading
<1>8. \A r \in t.recs : r.from \in {"ce", "aws", "gcp", "oci"}
  BY <1>5, SourceOf
<1>9. LabelFits(live.label, From(live.recs))
  <2>1. From(live.recs) = From(t.recs) \cup From(led)
    BY <1>3 DEF From
  <2>2. From(led) \subseteq OwnSource["live_provider_recommendations"]
    BY <1>6, <1>7, Labels DEF From
  <2>3. CASE rows = {}
    <3>1. live.label = t.label
      BY <1>2, <2>3 DEF Bridged
    <3>2. led = {}
      BY <1>7, <2>3
    <3>3. From(led) = {}
      BY <3>2 DEF From
    <3> QED BY <1>4, <2>1, <3>1, <3>3
  <2>4. CASE rows # {}
    <3>1. live.label = Labelled(t.label, "live_provider_recommendations")
      BY <1>2, <2>4 DEF Bridged
    <3>2. "live_provider_recommendations" \in DOMAIN OwnSource
      BY Labels
    <3>3. PICK label, S, T : label = t.label /\ S = From(t.recs) /\ T = From(led)
      OBVIOUS
    <3>4. LabelFits(Labelled(label, "live_provider_recommendations"), S \cup T)
      BY <1>4, <2>2, <3>2, <3>3, LabelledFits
    <3> QED BY <2>1, <3>1, <3>3, <3>4
  <2> QED BY <2>3, <2>4
<1>10. \A r \in live.recs : r.from \in Live
  BY <1>3, <1>6, <1>7, <1>8 DEF Live
<1>11. RecsApart(live.recs)
  <2> SUFFICES ASSUME NEW r \in live.recs, NEW s \in live.recs, Alike(r, s)
               PROVE  r = s
    BY <1>10 DEF RecsApart, Live
  <2>1. Alike(s, r) /\ r.key = s.key /\ r.action = s.action
    BY DEF Alike
  <2>2. CASE r \in t.recs /\ s \in t.recs
    BY <1>5, <2>2, TiersApart
  <2>3. CASE r \in led /\ s \in led
    BY <1>7, <2>1, <2>3
  <2> QED BY <1>3, <1>7, <2>1, <2>2, <2>3
<1>12. UsersSpared(live.recs, reply.aws \cup reply.gcp)
  <2> SUFFICES ASSUME NEW r \in live.recs, NEW m \in reply.aws \cup reply.gcp,
                      r.from \in {"aws", "gcp"}, r.key = m.key
               PROVE  /\ m.cpu # Unknown \/ m.memory # Unknown
                      /\ r.action = "terminate" => m.state # "running"
    BY DEF UsersSpared
  <2>1. r \in t.recs
    BY <1>3, <1>6, <1>7
  <2> QED BY <1>5, <2>1, TiersSpare
<1> QED BY <1>9, <1>10, <1>11, <1>12 DEF From

-----------------------------------------------------------------------------
(* The trend.                                                              *)

\* Where the trend reads every snapshot, it sees the newest.
LEMMA NewestRead ==
    ASSUME spends \in Seq(ScanForm), spends # <<>>, Len(spends) <= TrendRows
    PROVE  LatestCost(TrendSnapshots) = Last(spends).cost
<1>1. Len(spends) \in Nat \ {0} /\ TrendRows \in Nat
  BY RightsizingBounds
<1>2. Min({Len(spends), TrendRows}) = Len(spends)
  BY <1>1 DEF Min
<1>3. SubSeq(spends, 1, Len(spends)) = spends
  OBVIOUS
<1> QED BY <1>2, <1>3 DEF LatestCost, TrendSnapshots

\* The trend ends an account only for its latest cost, and no region.
LEMMA VerdictEnds ==
    ASSUME NEW rows, Verdict(rows)[1] = "terminate"
    PROVE  LatestCost(rows) < 5
BY DEF Verdict

LEMMA AreaRecsAre ==
    ASSUME NEW verdict
    PROVE  \A r \in AreaRecs(verdict) :
             /\ verdict[1] \in {"downsize", "modernize", "reserve"}
             /\ r = Rec("trend", r.key, verdict[1],
                        verdict[2] * (Last(spends).cost \div Cardinality(Area)))
             /\ r.key \in Area
<1> SUFFICES ASSUME NEW r \in AreaRecs(verdict)
             PROVE  /\ verdict[1] \in {"downsize", "modernize", "reserve"}
                    /\ r = Rec("trend", r.key, verdict[1],
                               verdict[2] * (Last(spends).cost \div Cardinality(Area)))
                    /\ r.key \in Area
  OBVIOUS
<1>1. verdict[1] \in {"downsize", "modernize", "reserve"}
  BY DEF AreaRecs
<1>2. PICK a \in Area : r = Rec("trend", a, verdict[1],
                                verdict[2] * (Last(spends).cost \div Cardinality(Area)))
  BY DEF AreaRecs
<1>3. r.key = a
  BY <1>2 DEF Rec
<1> QED BY <1>1, <1>2, <1>3

LEMMA TrendFits ==
    /\ From(Trend) \subseteq {"trend"}
    /\ RecsApart(Trend)
    /\ Trend # {} => spends # <<>>
    /\ \A r \in Trend : r.action = "terminate" => LatestCost(TrendSnapshots) < 5
<1>1. PICK rows, v : rows = TrendSnapshots /\ v = Verdict(rows)
  OBVIOUS
<1>2. PICK own, areas : /\ own = Worth({Rec("trend", "account", v[1],
                                            (Spend(rows) * v[2]) \div Len(rows))})
                        /\ areas = Worth(AreaRecs(v))
  OBVIOUS
<1>3. TrendRecs(rows) \subseteq own \cup areas
  BY <1>1, <1>2 DEF TrendRecs
<1>4. Trend \subseteq own \cup areas
  BY <1>1, <1>3 DEF Trend
<1>5. \A r \in own : r = Rec("trend", "account", v[1], (Spend(rows) * v[2]) \div Len(rows))
  BY <1>2, WorthOf
<1>6. \A r \in own : r.from = "trend" /\ r.key = "account" /\ r.action = v[1]
  BY <1>5 DEF Rec
<1>7. \A r \in areas : /\ v[1] \in {"downsize", "modernize", "reserve"}
                       /\ r = Rec("trend", r.key, v[1],
                                  v[2] * (Last(spends).cost \div Cardinality(Area)))
                       /\ r.key \in Area
  BY <1>2, WorthOf, AreaRecsAre
<1>8. \A r \in areas : r.from = "trend" /\ r.action = v[1]
  BY <1>7 DEF Rec
<1>9. RecsApart(Trend)
  <2> SUFFICES ASSUME NEW r \in Trend, NEW s \in Trend, r.key = s.key
               PROVE  r = s
    BY <1>4, <1>6, <1>8 DEF RecsApart, Alike
  <2>1. CASE r \in own /\ s \in own
    BY <1>5, <2>1
  <2>2. CASE r \in areas /\ s \in areas
    BY <1>7, <2>2
  <2>3. ~(r \in own /\ s \in areas) /\ ~(r \in areas /\ s \in own)
    BY <1>6, <1>7, AnswersApart
  <2> QED BY <1>4, <2>1, <2>2, <2>3
<1>10. \A r \in Trend : r.action = "terminate" => LatestCost(TrendSnapshots) < 5
  <2> SUFFICES ASSUME NEW r \in Trend, r.action = "terminate"
               PROVE  LatestCost(TrendSnapshots) < 5
    OBVIOUS
  <2>1. v[1] = "terminate"
    BY <1>4, <1>6, <1>8
  <2> QED BY <1>1, <2>1, VerdictEnds
<1>11. Trend # {} => spends # <<>>
  BY DEF Trend
<1> QED BY <1>4, <1>6, <1>8, <1>9, <1>10, <1>11 DEF From

-----------------------------------------------------------------------------
(* The steps of a request.                                                 *)

LEMMA AdviceInits == ASSUME RightsizingInit PROVE AdviceInv
BY DEF RightsizingInit, AdviceInv

LEMMA SourcesFrom == Sources = From(advice.recs) /\ Sources' = From(advice'.recs)
BY DEF Sources, From

LEMMA InquireKept ==
    ASSUME AdviceInv, NEW reply \in ProviderAnswer, NEW refresh \in BOOLEAN,
           NEW require \in BOOLEAN, Inquire(reply, refresh, require)
    PROVE  AdviceInv'
<1> DEFINE Said(aws, gcp) == IF refresh THEN LiveRecs(reply, aws, gcp) ELSE Nothing
          AskedOfSource(live) == [pc |-> "trend", require |-> require, newest |-> 0,
                          fleet |-> reply.aws \cup reply.gcp,
                          recs |-> live.recs, label |-> live.label, offered |-> {}]
<1>0. PICK aws \in SUBSET reply.aws, gcp \in SUBSET reply.gcp :
        advice' = AskedOfSource(Said(aws, gcp)) /\ spends' = spends
  BY DEF Inquire
<1> HIDE DEF AskedOfSource
<1>1. PICK live : live = Said(aws, gcp) /\ advice' = AskedOfSource(live) /\ spends' = spends
  BY <1>0
<1> USE DEF AskedOfSource
<1>2. /\ LabelFits(live.label, From(live.recs)) /\ From(live.recs) \subseteq Live
      /\ RecsApart(live.recs) /\ UsersSpared(live.recs, reply.aws \cup reply.gcp)
  <2>1. CASE refresh
    <3>1. live = LiveRecs(reply, aws, gcp)
      BY <1>1, <2>1
    <3> QED BY <3>1, LiveFits
  <2>2. CASE ~refresh
    <3>1. live.recs = {} /\ live.label = "no_data_available"
      BY <1>1, <2>2 DEF Nothing
    <3> QED BY <3>1 DEF LabelFits, From, RecsApart, UsersSpared
  <2> QED BY <2>1, <2>2
<1>3. /\ advice'.pc = "trend" /\ advice'.require = require /\ advice'.newest = 0
      /\ advice'.fleet = reply.aws \cup reply.gcp /\ advice'.recs = live.recs
      /\ advice'.label = live.label /\ advice'.offered = {}
  BY <1>1
<1>4. AdviceFields'
  BY <1>1, <1>3 DEF AdviceFields
<1>5. Sources' = From(live.recs)
  BY <1>3, SourcesFrom
<1>6. SourcesAt("trend", From(live.recs)) /\ SourcesFit(From(live.recs), require)
  BY <1>2 DEF SourcesAt, SourcesFit, Live
<1>7. SpenderSpared(live.recs, 0)'
  BY <1>2 DEF SpenderSpared, From, Live
<1>8. LargestKept'
  BY <1>3 DEF LargestKept
<1>9. AdviceFits'
  BY <1>2, <1>3, <1>4, <1>5, <1>6, <1>7, <1>8 DEF AdviceFits, SpenderSpared
<1> QED BY <1>1, <1>9 DEF AdviceInv

LEMMA ReadTrendKept ==
    ASSUME AdviceInv, ReadTrend
    PROVE  AdviceInv'
<1>1. advice.pc = "trend" /\ spends' = spends /\ spends \in Seq(ScanForm)
  BY DEF ReadTrend, AdviceInv
<1>2. AdviceFits
  BY <1>1 DEF AdviceInv, NoAdvice
<1>3. CASE advice.recs # {} \/ Trend = {}
  <2>1. advice' = [advice EXCEPT !.pc = "services"]
    BY <1>3 DEF ReadTrend
  <2>2. /\ advice'.pc = "services" /\ advice'.require = advice.require
        /\ advice'.newest = advice.newest /\ advice'.fleet = advice.fleet
        /\ advice'.recs = advice.recs /\ advice'.label = advice.label
        /\ AdviceFields'
    BY <1>2, <2>1 DEF AdviceFits, AdviceFields
  <2>3. Sources' = Sources
    BY <2>2, SourcesFrom
  <2>4. SourcesAt("services", Sources)
    BY <1>1, <1>2 DEF AdviceFits, SourcesAt
  <2>5. LargestKept'
    BY <2>2 DEF LargestKept
  <2>6. SpenderSpared(advice.recs, advice.newest)'
    BY <1>1, <1>2, <2>2 DEF AdviceFits, SpenderSpared
  <2>7. AdviceFits'
    BY <1>2, <2>2, <2>3, <2>4, <2>5, <2>6 DEF AdviceFits
  <2> QED BY <1>1, <2>7 DEF AdviceInv
<1>4. CASE advice.recs = {} /\ Trend # {}
  <2>1. advice' = [advice EXCEPT !.pc = "services", !.recs = Trend,
                                 !.label = "cost_trend_analysis", !.newest = Last(spends).cost]
    BY <1>4 DEF ReadTrend
  <2>2. /\ advice'.pc = "services" /\ advice'.require = advice.require
        /\ advice'.newest = Last(spends).cost /\ advice'.fleet = advice.fleet
        /\ advice'.recs = Trend /\ advice'.label = "cost_trend_analysis"
        /\ AdviceFields'
    BY <1>2, <2>1 DEF AdviceFits, AdviceFields
  <2>3. Sources' = From(Trend) /\ From(Trend) \subseteq {"trend"}
    BY <2>2, SourcesFrom, TrendFits
  <2>4. LabelFits("cost_trend_analysis", From(Trend))
    BY <2>3, Labels DEF LabelFits
  <2>5. SourcesAt("services", From(Trend)) /\ SourcesFit(From(Trend), advice.require)
    BY <2>3 DEF SourcesAt, SourcesFit
  <2>6. UsersSpared(Trend, advice.fleet)
    BY <2>3 DEF UsersSpared, From
  <2>7. SpenderSpared(advice.recs, advice.newest)'
    <3> SUFFICES ASSUME Len(spends) <= TrendRows, NEW r \in Trend, r.action = "terminate"
                 PROVE  Last(spends).cost < 5
      BY <1>1, <2>2 DEF SpenderSpared
    <3>1. LatestCost(TrendSnapshots) < 5 /\ spends # <<>>
      BY TrendFits
    <3> QED BY <1>1, <3>1, NewestRead
  <2>8. LargestKept'
    BY <2>2 DEF LargestKept
  <2>9. RecsApart(Trend)
    BY TrendFits
  <2>10. AdviceFits'
    BY <2>2, <2>3, <2>4, <2>5, <2>6, <2>7, <2>8, <2>9 DEF AdviceFits, SpenderSpared
  <2> QED BY <1>1, <2>10 DEF AdviceInv
<1> QED BY <1>3, <1>4

LEMMA NewServicesAre ==
    /\ \A r \in NewServices : r.from = "service" /\ r.key \notin Keys(advice.recs)
    /\ \A r, s \in NewServices : r.key = s.key => r = s
<1> DEFINE Of(s) == Rec("service", s, "modernize", 20 * Last(Listing(s)).services[s])
<1>1. \A s : Of(s).from = "service" /\ Of(s).key = s
  BY DEF Rec
<1>2. \A r \in ServiceRecs : \E s : r = Of(s)
  BY DEF ServiceRecs, Worth
<1> HIDE DEF Of
<1> QED BY <1>1, <1>2 DEF NewServices

LEMMA ReadServicesKept ==
    ASSUME AdviceInv, ReadServices
    PROVE  AdviceInv'
<1>1. advice.pc = "services" /\ spends' = spends /\ spends \in Seq(ScanForm)
  BY DEF ReadServices, AdviceInv
<1>2. AdviceFits
  BY <1>1 DEF AdviceInv, NoAdvice
<1>3. PICK new, label :
        /\ new = NewServices
        /\ label = IF NewServices = {} THEN advice.label
                   ELSE IF advice.label = "no_data_available" THEN "service_cost_snapshot"
                   ELSE "multi_source_cost_analysis"
        /\ advice' = [advice EXCEPT !.pc = "imports", !.recs = advice.recs \cup new,
                                    !.label = label]
  BY DEF ReadServices
<1>4. /\ advice'.pc = "imports" /\ advice'.require = advice.require
      /\ advice'.newest = advice.newest /\ advice'.fleet = advice.fleet
      /\ advice'.recs = advice.recs \cup new /\ advice'.label = label
      /\ AdviceFields'
  BY <1>2, <1>3 DEF AdviceFits, AdviceFields
<1>5. \A r \in new : r.from = "service" /\ \A s \in advice.recs : s.key # r.key
  BY <1>3, NewServicesAre DEF Keys
<1>6. Sources' = Sources \cup From(new) /\ From(new) \subseteq {"service"}
  BY <1>4, <1>5 DEF Sources, From
<1>7. SourcesAt("imports", Sources')
  BY <1>1, <1>2, <1>6 DEF AdviceFits, SourcesAt, Live
<1>8. SourcesFit(Sources', advice.require)
  BY <1>1, <1>2, <1>6 DEF AdviceFits, SourcesFit, SourcesAt, Live
<1>9. LabelFits(label, Sources')
  <2>1. CASE new = {}
    <3>1. label = advice.label /\ Sources' = Sources
      BY <1>3, <1>6, <2>1 DEF From
    <3> QED BY <1>2, <3>1 DEF AdviceFits
  <2>2. CASE new # {} /\ advice.label = "no_data_available"
    <3>1. label = "service_cost_snapshot"
      BY <1>3, <2>2
    <3>2. Sources = {}
      BY <1>2, <2>2, Labels DEF AdviceFits, LabelFits
    <3> QED BY <1>6, <3>1, <3>2, Labels DEF LabelFits
  <2>3. CASE new # {} /\ advice.label # "no_data_available"
    BY <1>3, <2>3, Labels DEF LabelFits
  <2> QED BY <2>1, <2>2, <2>3
<1>10. RecsApart(advice.recs \cup new)
  <2>1. RecsApart(advice.recs)
    BY <1>2 DEF AdviceFits
  <2>2. \A r, s \in new : r.key = s.key => r = s
    BY <1>3, NewServicesAre
  <2> QED BY <1>5, <2>1, <2>2 DEF RecsApart, Alike
<1>11. UsersSpared(advice.recs \cup new, advice.fleet)
  BY <1>2, <1>5 DEF AdviceFits, UsersSpared
<1>12. SpenderSpared(advice.recs, advice.newest)'
  BY <1>1, <1>2, <1>4, <1>5 DEF AdviceFits, SpenderSpared
<1>13. LargestKept'
  BY <1>4 DEF LargestKept
<1>14. AdviceFits'
  BY <1>4, <1>7, <1>8, <1>9, <1>10, <1>11, <1>12, <1>13 DEF AdviceFits, SpenderSpared
<1> QED BY <1>1, <1>14 DEF AdviceInv

\* Fewer sources stand together as well.
LEMMA SourcesShrink ==
    ASSUME NEW require, NEW S, NEW T \in SUBSET S, SourcesFit(S, require)
    PROVE  SourcesFit(T, require)
BY DEF SourcesFit

LEMMA AnswerKept ==
    ASSUME AdviceInv, Answer
    PROVE  AdviceInv'
<1>1. advice.pc = "imports" /\ spends' = spends /\ spends \in Seq(ScanForm)
  BY DEF Answer, AdviceInv
<1>2. AdviceFits
  BY <1>1 DEF AdviceInv, NoAdvice
<1>3. PICK all, label, K :
        /\ all = Offered /\ label = Label
        /\ K \in Cuts({r \in all : r.saving >= Least})
        /\ advice' = [advice EXCEPT !.pc = "done", !.label = label, !.recs = K,
                                    !.offered = all]
  BY DEF Answer
<1>4. /\ advice'.pc = "done" /\ advice'.require = advice.require
      /\ advice'.newest = advice.newest /\ advice'.fleet = advice.fleet
      /\ advice'.recs = K /\ advice'.label = label /\ advice'.offered = all
      /\ AdviceFields'
  BY <1>2, <1>3 DEF AdviceFits, AdviceFields
<1>5. /\ K \subseteq {r \in all : r.saving >= Least}
      /\ \A k \in K, r \in {q \in all : q.saving >= Least} \ K : k.saving >= r.saving
  BY <1>3 DEF Cuts
<1>6. K \subseteq all /\ Sources' = From(K) /\ From(K) \subseteq From(all)
  BY <1>4, <1>5, SourcesFrom DEF From
<1>7. /\ LabelFits(label, From(all)) /\ SourcesFit(From(all), advice.require)
      /\ RecsApart(all) /\ UsersSpared(all, advice.fleet) /\ SpenderSpared(all, advice.newest)
  <2>1. CASE ImportsServe
    <3>1. advice.recs = {} /\ ~advice.require /\ all = ImportRecs
      BY <1>3, <2>1 DEF ImportsServe, Offered
    <3>2. \A r \in ImportRecs : r = Rec("import", "account", "downsize", 45 * csv)
      BY WorthOf DEF ImportRecs
    <3>3. (\A r \in all : r.from = "import") /\ \A r, s \in all : r = s
      BY <3>1, <3>2 DEF Rec
    <3>4. /\ From(all) \subseteq {"import"}
          /\ all = {} => From(all) = {}
          /\ all # {} => label = "imported_costs"
      BY <1>3, <2>1, <3>3 DEF From, Label
    <3>5. LabelFits(label, From(all))
      BY <3>4, Labels DEF LabelFits
    <3>6. SourcesFit(From(all), advice.require)
      BY <3>1, <3>4 DEF SourcesFit
    <3> QED BY <3>3, <3>5, <3>6 DEF RecsApart, UsersSpared, SpenderSpared
  <2>2. CASE ~ImportsServe
    <3>1. all = advice.recs /\ From(all) = Sources
      BY <1>3, <2>2, SourcesFrom DEF Offered
    <3>2. all = {} => From(all) = {}
      BY DEF From
    <3>3. all # {} => label = advice.label
      BY <1>3, <2>2 DEF Label
    <3>4. LabelFits(label, From(all))
      BY <1>2, <3>1, <3>2, <3>3 DEF AdviceFits, LabelFits
    <3> QED BY <1>2, <3>1, <3>4 DEF AdviceFits
  <2> QED BY <2>1, <2>2
<1>8. LabelFits(label, From(K)) /\ SourcesAt("done", From(K))
  BY <1>6, <1>7 DEF LabelFits, SourcesAt
<1>9. SourcesFit(From(K), advice.require)
  BY <1>6, <1>7, SourcesShrink
<1>10. RecsApart(K) /\ UsersSpared(K, advice.fleet)
  BY <1>6, <1>7 DEF RecsApart, UsersSpared
<1>11. SpenderSpared(advice.recs, advice.newest)'
  BY <1>1, <1>4, <1>6, <1>7 DEF SpenderSpared
<1>12. LargestKept'
  <2>1. \A r \in all \ K : r.saving >= Least => \A k \in K : k.saving >= r.saving
    BY <1>5
  <2> QED BY <1>4, <2>1 DEF LargestKept
<1>13. AdviceFits'
  BY <1>4, <1>6, <1>8, <1>9, <1>10, <1>11, <1>12 DEF AdviceFits
<1> QED BY <1>1, <1>13 DEF AdviceInv

\* Scans and uploads leave the request alone; a scan makes the snapshots more.
LEMMA CostsArriveKept ==
    ASSUME AdviceInv, CostsArrive
    PROVE  AdviceInv'
<1>1. advice' = advice
  BY DEF CostsArrive, NewScan, Upload
<1>2. spends' \in Seq(ScanForm) /\ Len(spends') >= Len(spends) /\ spends \in Seq(ScanForm)
  <2>1. CASE \E form \in ScanForm : NewScan(form)
    BY <2>1 DEF NewScan, AdviceInv
  <2>2. CASE \E cost \in {0, 10, 100} : Upload(cost)
    BY <2>2 DEF Upload, AdviceInv
  <2> QED BY <2>1, <2>2 DEF CostsArrive
<1>3. CASE advice = NoAdvice
  BY <1>1, <1>2, <1>3 DEF AdviceInv
<1>4. CASE AdviceFits
  <2>1. Sources' = Sources
    BY <1>1 DEF Sources
  <2>2. LargestKept' /\ AdviceFields'
    BY <1>1, <1>4 DEF AdviceFits, LargestKept, AdviceFields
  <2>3. SpenderSpared(advice.recs, advice.newest)'
    BY <1>1, <1>2, <1>4, RightsizingBounds DEF AdviceFits, SpenderSpared
  <2>4. AdviceFits'
    BY <1>1, <1>4, <2>1, <2>2, <2>3 DEF AdviceFits
  <2> QED BY <1>2, <2>4 DEF AdviceInv
<1> QED BY <1>3, <1>4 DEF AdviceInv

LEMMA AdviceKept ==
    ASSUME AdviceInv, [RightsizingNext]_rightsizingVars
    PROVE  AdviceInv'
<1>1. CASE UNCHANGED rightsizingVars
  <2>1. advice' = advice /\ spends' = spends
    BY <1>1 DEF rightsizingVars
  <2> QED BY <2>1 DEF AdviceInv, AdviceFits, AdviceFields, Sources, LargestKept, SpenderSpared
<1>2. CASE Recommending
  BY <1>2, InquireKept, ReadTrendKept, ReadServicesKept, AnswerKept DEF Recommending
<1>3. CASE CostsArrive
  BY <1>3, CostsArriveKept
<1> QED BY <1>1, <1>2, <1>3 DEF RightsizingNext

LEMMA AdviceFitsTrue == ASSUME AdviceInv PROVE AdviceTrue
<1>1. CASE advice.pc # "done"
  BY <1>1 DEF AdviceTrue, LabelTrue, FallbackLast, CountedInOneRow, LargestKept, SpenderKept,
              RunningKept
<1>2. CASE advice.pc = "done"
  <2>1. AdviceFits
    BY <1>2 DEF AdviceInv, NoAdvice
  <2>2. LabelTrue
    BY <2>1 DEF AdviceFits, LabelFits, LabelTrue
  <2>3. FallbackLast
    BY <2>1 DEF AdviceFits, SourcesFit, FallbackLast
  <2>4. CountedInOneRow
    BY <2>1 DEF AdviceFits, RecsApart, CountedInOneRow
  <2>5. SpenderKept
    BY <2>1 DEF AdviceFits, SpenderSpared, SpenderKept
  <2>6. RunningKept
    BY <2>1 DEF AdviceFits, UsersSpared, RunningKept
  <2> QED BY <2>1, <2>2, <2>3, <2>4, <2>5, <2>6 DEF AdviceFits, AdviceTrue
<1> QED BY <1>1, <1>2

\* An reply of the rightsizing endpoint names the source of what it recommends, lets
\* imports and trends serve only where nothing live does, recommends nothing twice,
\* keeps the largest savings, and ends no machine that runs and, where the trend reads
\* every scan, no account that still spends.
THEOREM AdviceTrueHolds == RightsizingSpec => []AdviceTrue
<1>1. RightsizingInit => AdviceInv
  BY AdviceInits
<1>2. AdviceInv /\ [RightsizingNext]_rightsizingVars => AdviceInv'
  BY AdviceKept
<1>3. AdviceInv => AdviceTrue
  BY AdviceFitsTrue
<1> QED BY <1>1, <1>2, <1>3, PTL DEF RightsizingSpec

-----------------------------------------------------------------------------
(* Business mapping: CostsAllocatedHolds.                                  *)

DimValue == {Unmapped} \cup {f.mapped : f \in RuleForm}

DimRow == [id : Nat, record : Nat, cost : Nat, assigned : [Dimensions -> DimValue],
           mapped : BOOLEAN, seen : Nat]

RuleRow == {NoRule} \cup {Saved(f, active) : f \in RuleForm, active \in BOOLEAN}

ApplyWork(m) ==
    /\ m.pc = "apply"
    /\ m.assigned \in Seq([Dimensions -> DimValue])
    /\ m.cost \in Seq(Nat) /\ m.found \in Seq(SUBSET DimRow)
    /\ DOMAIN m.cost = DOMAIN m.assigned /\ DOMAIN m.found = DOMAIN m.assigned
    /\ m.seen \in Nat
    /\ \A r \in DOMAIN m.found : \A o \in m.found[r] : o.record = r

\* One summary of each bucket.
SumsApart(T) == IsFiniteSet(T) /\ \A s, t \in T : s.bucket = t.bucket => s = t

ComputeWork(m) == m.pc = "compute" /\ SumsApart(m.sums)

AllocationTypeOK ==
    /\ rules \in Seq(RuleRow)
    /\ records \in Seq(CostRecord)
    /\ IsFiniteSet(dims) /\ dims \subseteq DimRow
    /\ SumsApart(sums)
    /\ mapper = [w \in Mapper |-> mapper[w]]
    /\ \A w \in Mapper : mapper[w] = Resting \/ ApplyWork(mapper[w]) \/ ComputeWork(mapper[w])
    /\ work \in Nat
    /\ fresh \in BOOLEAN /\ beside \in BOOLEAN /\ settled \in BOOLEAN

RowsNumbered ==
    /\ \A x \in dims : x.id >= 1 /\ x.id <= Cardinality(dims)
    /\ \A x, y \in dims : x.id = y.id => x = y

\* What an application found without a row has none but newer ones.
SeenInOrder ==
    \A w \in Mapper : mapper[w].pc = "apply" =>
        /\ mapper[w].seen <= Cardinality(dims)
        /\ \A x \in dims :
             x.record \in DOMAIN mapper[w].found /\ mapper[w].found[x.record] = {} =>
                x.id > mapper[w].seen

\* Applications that do not overlap find what they write.
FoundStands ==
    ~beside =>
        /\ \A x \in dims : x.mapped = IsMapped(x.assigned)
        /\ \A w \in Mapper : mapper[w].pc = "apply" =>
             \A r \in DOMAIN mapper[w].found : mapper[w].found[r] = Found(r)

\* Rows are those of the records.
RowsTrue ==
    fresh =>
        /\ ~beside =>
             /\ \A x \in dims : x.record \in DOMAIN records /\ x.cost = records[x.record].cost
             /\ \A x, y \in dims : x.record = y.record => x = y
             /\ dims # {} => \A r \in DOMAIN records : \E x \in dims : x.record = r
        /\ \A w \in Mapper : mapper[w].pc = "apply" =>
             /\ DOMAIN mapper[w].assigned = DOMAIN records
             /\ \A r \in DOMAIN records : mapper[w].cost[r] = records[r].cost

Members(b) == {r \in DOMAIN records : Bucket(r) = b}

\* Summaries of the records as they are assigned now.
Truthful(T) ==
    /\ \A s \in T : \E r \in DOMAIN records : s.bucket = Bucket(r)
    /\ \A r \in DOMAIN records : \E s \in T : s.bucket = Bucket(r)
    /\ \A s \in T : s.total = CostOf(Members(s.bucket))

SumsTrue ==
    settled =>
        /\ sums # {} => Truthful(sums)
        /\ \A w \in Mapper : mapper[w].pc = "compute" => Truthful(mapper[w].sums)

AllocationInv ==
    /\ AllocationTypeOK /\ RowsNumbered /\ SeenInOrder /\ OneRowEach
    /\ FoundStands /\ RowsTrue /\ SumsTrue

LEMMA RecordSumIs ==
    ASSUME NEW S, IsFiniteSet(S), NEW f, \A r \in S : f[r] = records[r].cost
    PROVE  CostOf(S) = SumOver(f, S)
<1> DEFINE Solves(g) ==
      g = [s \in SUBSET S |->
             IF s = {} THEN 0 ELSE records[Picked(s)].cost + g[s \ {Picked(s)}]]
<1>1. CostOf(S) = (CHOOSE g : Solves(g))[S]
  BY Zenon DEF CostOf, MapThenSumSet, MapThenFoldSet, Picked
<1>2. ASSUME NEW g
      PROVE  Solves(g) <=> SumSolution(g, f, SUBSET S)
  <2>1. \A s \in SUBSET S :
          (IF s = {} THEN 0 ELSE records[Picked(s)].cost + g[s \ {Picked(s)}]) = SumRule(f, g, s)
    BY PickedIn DEF SumRule
  <2> QED BY <2>1 DEF SumSolution
<1> HIDE DEF Solves
<1>3. PICK g : g = (CHOOSE k : Solves(k))
  OBVIOUS
<1>4. SumSolution(g, f, SUBSET S)
  BY <1>2, <1>3, SumSolvable
<1>5. g[S] = SumOver(f, S)
  BY <1>4, SumSolved
<1> QED BY <1>1, <1>3, <1>5, Zenon

LEMMA ChargedSumIs ==
    ASSUME NEW S, IsFiniteSet(S), NEW f, \A d \in S : f[d] = Charged(d)
    PROVE  MapThenSumSet(Charged, S) = SumOver(f, S)
<1> DEFINE Solves(g) ==
      g = [s \in SUBSET S |-> IF s = {} THEN 0 ELSE Charged(Picked(s)) + g[s \ {Picked(s)}]]
<1>1. MapThenSumSet(Charged, S) = (CHOOSE g : Solves(g))[S]
  BY Zenon DEF MapThenSumSet, MapThenFoldSet, Picked
<1>2. ASSUME NEW g
      PROVE  Solves(g) <=> SumSolution(g, f, SUBSET S)
  <2>1. \A s \in SUBSET S :
          (IF s = {} THEN 0 ELSE Charged(Picked(s)) + g[s \ {Picked(s)}]) = SumRule(f, g, s)
    BY PickedIn DEF SumRule
  <2> QED BY <2>1 DEF SumSolution
<1> HIDE DEF Solves
<1>3. PICK g : g = (CHOOSE k : Solves(k))
  OBVIOUS
<1>4. SumSolution(g, f, SUBSET S)
  BY <1>2, <1>3, SumSolvable
<1>5. g[S] = SumOver(f, S)
  BY <1>4, SumSolved
<1> QED BY <1>1, <1>3, <1>5, Zenon

LEMMA RecordsAre ==
    ASSUME AllocationTypeOK
    PROVE  /\ IsFiniteSet(DOMAIN records)
           /\ Len(records) \in Nat /\ DOMAIN records = 1..Len(records)
           /\ \A r \in DOMAIN records : records[r].cost \in Nat
<1>1. Len(records) \in Nat /\ DOMAIN records = 1..Len(records)
  BY DEF AllocationTypeOK
<1>2. \A r \in DOMAIN records : records[r] \in CostRecord
  BY DEF AllocationTypeOK
<1>3. \A r \in DOMAIN records : records[r].cost \in Nat
  BY <1>2 DEF CostRecord
<1>4. \A n \in Nat : IsFiniteSet(1..n)
  BY FS_Interval
<1> QED BY <1>1, <1>3, <1>4

LEMMA DimsAre ==
    ASSUME AllocationTypeOK
    PROVE  /\ IsFiniteSet(dims) /\ Cardinality(dims) \in Nat
           /\ \A x \in dims : /\ x.id \in Nat /\ x.record \in Nat /\ x.cost \in Nat
                              /\ x.assigned \in [Dimensions -> DimValue]
                              /\ x.mapped \in BOOLEAN /\ x.seen \in Nat
<1>1. IsFiniteSet(dims) /\ dims \subseteq DimRow
  BY DEF AllocationTypeOK
<1>2. Cardinality(dims) \in Nat
  BY <1>1, FS_CardinalityType
<1> QED BY <1>1, <1>2 DEF DimRow

\* What rows charge.
LEMMA ChargeIs ==
    ASSUME AllocationTypeOK, NEW S \in SUBSET dims, NEW f, \A x \in dims : f[x] = x.cost
    PROVE  Charge(S) = SumOver(f, S)
<1>1. IsFiniteSet(S)
  BY DimsAre, FS_Subset
<1> QED BY <1>1, CostSumIs DEF Charge

\* As applications do not overlap, chargeback and coverage fit together.
LEMMA ViewsFit ==
    ASSUME AllocationTypeOK, FoundStands
    PROVE  ViewsAgree
<1> SUFFICES ASSUME ~beside
             PROVE  /\ \A d \in Dimensions : Charged(d) <= MappedCost
                    /\ MappedCost <= MapThenSumSet(Charged, Dimensions)
  BY DEF ViewsAgree
<1>1. PICK f : f = [x \in dims |-> x.cost]
  OBVIOUS
<1>2. PICK g : g = [d \in Dimensions |-> Charged(d)]
  OBVIOUS
<1>3. PICK M, T, E : /\ M = {x \in dims : x.mapped}
                     /\ T = {x \in dims : x.assigned["team"] # Unmapped}
                     /\ E = {x \in dims : x.assigned["environment"] # Unmapped}
  OBVIOUS
<1>4. IsFiniteSet(M) /\ IsFiniteSet(T) /\ IsFiniteSet(E)
  BY <1>3, DimsAre, FS_Subset
<1>5. \A x \in dims : f[x] = x.cost /\ f[x] \in Nat
  BY <1>1, DimsAre
<1>6. /\ Charged("team") = SumOver(f, T) /\ Charged("environment") = SumOver(f, E)
      /\ MappedCost = SumOver(f, M)
  BY <1>3, <1>5, ChargeIs DEF Charged, MappedCost
<1>7. \A x \in dims : x.mapped <=> x \in T \cup E
  BY <1>3 DEF FoundStands, IsMapped, Dimensions
<1>8. M = T \cup E
  BY <1>3, <1>7
<1>9. SumOver(f, T) <= SumOver(f, M) /\ SumOver(f, E) <= SumOver(f, M)
  <2>1. T \in SUBSET M /\ E \in SUBSET M /\ \A x \in M : f[x] \in Nat
    BY <1>3, <1>5, <1>8
  <2> QED BY <1>4, <2>1, SumPart
<1>10. SumOver(f, M) <= SumOver(f, T) + SumOver(f, E)
  <2>1. PICK R : R = E \ T
    OBVIOUS
  <2>2. /\ IsFiniteSet(R) /\ T \cap R = {} /\ M = T \cup R /\ R \in SUBSET E
        /\ \A x \in T \cup R : f[x] \in Int
        /\ \A x \in E : f[x] \in Nat /\ \A y \in T \cup R : f[y] \in Nat
    BY <1>3, <1>4, <1>5, <1>8, <2>1, FS_Subset
  <2>3. SumOver(f, M) = SumOver(f, T) + SumOver(f, R)
    BY <1>4, <2>2, SumUnion
  <2>4. SumOver(f, R) <= SumOver(f, E)
    BY <1>4, <2>2, SumPart
  <2>5. SumOver(f, T) \in Nat /\ SumOver(f, R) \in Nat /\ SumOver(f, E) \in Nat
    <3>1. T \subseteq dims /\ E \subseteq dims /\ R \subseteq dims
      BY <1>3, <2>1
    <3>2. SumOver(f, T) \in Nat
      BY <1>4, <1>5, <3>1, SumType
    <3>3. SumOver(f, R) \in Nat
      BY <2>2, <1>5, <3>1, SumType
    <3>4. SumOver(f, E) \in Nat
      BY <1>4, <1>5, <3>1, SumType
    <3> QED BY <3>2, <3>3, <3>4
  <2> QED BY <2>3, <2>4, <2>5
<1>11. MapThenSumSet(Charged, Dimensions) = SumOver(f, T) + SumOver(f, E)
  <2>1. IsFiniteSet({"team", "environment"}) /\ IsFiniteSet({"team"})
    <3>1. IsFiniteSet({"team"})
      BY FS_Singleton
    <3>2. IsFiniteSet({"team"} \cup {"environment"})
      BY <3>1, FS_AddElement
    <3>3. {"team"} \cup {"environment"} = {"team", "environment"}
      OBVIOUS
    <3> QED BY <3>1, <3>2, <3>3
  <2>2. Dimensions = {"team", "environment"} /\ {"team"} \cup {"environment"} = {"team", "environment"}
    BY DEF Dimensions
  <2>3. MapThenSumSet(Charged, Dimensions) = SumOver(g, Dimensions)
    BY <1>2, <2>1, <2>2, ChargedSumIs
  <2>4. g["team"] = SumOver(f, T) /\ g["environment"] = SumOver(f, E)
    BY <1>2, <1>6, <2>2
  <2>5. SumOver(f, T) \in Nat /\ SumOver(f, E) \in Nat
    <3>1. (\A x \in T : f[x] \in Nat) /\ \A x \in E : f[x] \in Nat
      BY <1>3, <1>5
    <3> QED BY <1>4, <3>1, SumType
  <2>6. SumOver(g, {"team"} \cup {"environment"}) = SumOver(g, {"team"}) + g["environment"]
    <3>1. "environment" \notin {"team"} /\ \A x \in {"team"} \cup {"environment"} : g[x] \in Int
      BY <2>4, <2>5
    <3> QED BY <2>1, <3>1, SumAdd
  <2>7. SumOver(g, {"team"}) = g["team"]
    BY <2>4, <2>5, SumSingle
  <2> QED BY <2>2, <2>3, <2>4, <2>6, <2>7
<1>12. \A d \in Dimensions : Charged(d) <= MappedCost
  BY <1>6, <1>9 DEF Dimensions
<1> QED BY <1>6, <1>10, <1>11, <1>12

\* As long as the rows are those of the records, they carry the whole cost.
LEMMA ImportedCharged ==
    ASSUME AllocationTypeOK, RowsTrue
    PROVE  ChargedAsImported
<1> SUFFICES ASSUME fresh, ~beside, dims # {}
             PROVE  Charge(dims) = CostOf(DOMAIN records)
  BY DEF ChargedAsImported
<1>1. PICK e, f, h : /\ e = [x \in dims |-> x.record] /\ h = [x \in dims |-> x.cost]
                     /\ f = [r \in DOMAIN records |-> records[r].cost]
  OBVIOUS
<1>2. /\ \A x \in dims : x.record \in DOMAIN records /\ x.cost = records[x.record].cost
      /\ \A x, y \in dims : x.record = y.record => x = y
      /\ \A r \in DOMAIN records : \E x \in dims : x.record = r
  BY DEF RowsTrue
<1>3. {e[x] : x \in dims} = DOMAIN records
  <2>1. \A x \in dims : e[x] \in DOMAIN records
    BY <1>1, <1>2
  <2>2. \A r \in DOMAIN records : \E x \in dims : e[x] = r
    BY <1>1, <1>2
  <2> QED BY <2>1, <2>2
<1>4. /\ IsFiniteSet(dims) /\ \A x, y \in dims : e[x] = e[y] => x = y
      /\ \A x \in dims : h[x] \in Int /\ f[e[x]] = h[x]
  BY <1>1, <1>2, DimsAre
<1>5. SumOver(f, {e[x] : x \in dims}) = SumOver(h, dims)
  BY <1>4, SumImage
<1>6. Charge(dims) = SumOver(h, dims)
  BY <1>1, ChargeIs
<1>7. CostOf(DOMAIN records) = SumOver(f, DOMAIN records)
  <2>1. IsFiniteSet(DOMAIN records) /\ \A r \in DOMAIN records : f[r] = records[r].cost
    BY <1>1, RecordsAre
  <2> QED BY <2>1, RecordSumIs
<1> QED BY <1>3, <1>5, <1>6, <1>7

\* Summaries that hold add up to the cost of the records.
LEMMA TotalsMatch ==
    ASSUME AllocationTypeOK, SumsTrue
    PROVE  TrendMatches
<1> SUFFICES ASSUME settled, sums # {}
             PROVE  MapThenSumSet(LAMBDA s : s.total, sums) = CostOf(DOMAIN records)
  BY DEF TrendMatches
<1>1. PICK f, key, K : /\ f = [r \in DOMAIN records |-> records[r].cost]
                       /\ key = [r \in DOMAIN records |-> Bucket(r)]
                       /\ K = {s.bucket : s \in sums}
  OBVIOUS
<1>2. PICK t, e, h : /\ t = [k \in K |-> SumOver(f, {r \in DOMAIN records : key[r] = k})]
                     /\ e = [s \in sums |-> s.bucket] /\ h = [s \in sums |-> s.total]
  OBVIOUS
<1>3. /\ \A r \in DOMAIN records : \E s \in sums : s.bucket = Bucket(r)
      /\ \A s \in sums : s.total = CostOf(Members(s.bucket))
  BY DEF SumsTrue, Truthful
<1>4. IsFiniteSet(sums) /\ \A s, u \in sums : s.bucket = u.bucket => s = u
  BY DEF AllocationTypeOK, SumsApart
<1>5. K = {e[s] : s \in sums}
  BY <1>1, <1>2
<1>6. IsFiniteSet(K)
  <2>1. e \in Surjection(sums, K)
    BY <1>2, <1>5 DEF Surjection
  <2> QED BY <1>4, <2>1, FS_Surjection
<1>7. /\ IsFiniteSet(DOMAIN records)
      /\ \A r \in DOMAIN records : f[r] = records[r].cost /\ f[r] \in Int
  BY <1>1, RecordsAre
<1>8. SumOver(t, K) = SumOver(f, DOMAIN records)
  <2>1. \A r \in DOMAIN records : key[r] \in K
    BY <1>1, <1>3
  <2>2. \A k \in K : t[k] = SumOver(f, {r \in DOMAIN records : key[r] = k})
    BY <1>2
  <2>3. PICK D, g : D = DOMAIN records /\ g = [k \in K |-> {r \in DOMAIN records : key[r] = k}]
    OBVIOUS
  <2>4. /\ IsFiniteSet(D) /\ \A r \in D : f[r] \in Int
        /\ \A r \in D : key[r] \in K
        /\ \A k \in K : t[k] = SumOver(f, g[k])
        /\ \A k \in K : g[k] \subseteq D /\ \A r \in D : r \in g[k] <=> key[r] = k
    BY <1>7, <2>1, <2>2, <2>3
  <2>5. SumOver(t, K) = SumOver(f, D)
    BY <1>6, <2>4, SumGroups
  <2> QED BY <2>3, <2>5
<1>9. \A s \in sums : h[s] \in Int /\ t[e[s]] = h[s]
  <2> SUFFICES ASSUME NEW s \in sums PROVE h[s] \in Int /\ t[e[s]] = h[s]
    OBVIOUS
  <2>1. PICK M : M = Members(s.bucket)
    OBVIOUS
  <2>2. M = {r \in DOMAIN records : key[r] = s.bucket} /\ M \subseteq DOMAIN records
    BY <1>1, <2>1 DEF Members
  <2>3. IsFiniteSet(M) /\ \A r \in M : f[r] = records[r].cost /\ f[r] \in Int
    BY <1>7, <2>2, FS_Subset
  <2>4. CostOf(M) = SumOver(f, M)
    BY <2>3, RecordSumIs
  <2>5. SumOver(f, M) \in Int
    BY <2>3, SumType
  <2>6. h[s] = CostOf(M)
    BY <1>2, <1>3, <2>1
  <2>7. s.bucket \in K /\ e[s] = s.bucket
    BY <1>1, <1>2
  <2>8. t[e[s]] = SumOver(f, M)
    BY <1>2, <2>2, <2>7
  <2> QED BY <2>4, <2>5, <2>6, <2>8
<1>10. SumOver(t, {e[s] : s \in sums}) = SumOver(h, sums)
  <2>1. \A s, u \in sums : e[s] = e[u] => s = u
    BY <1>2, <1>4
  <2> QED BY <1>4, <1>9, <2>1, SumImage
<1>11. MapThenSumSet(LAMBDA s : s.total, sums) = SumOver(h, sums)
  BY <1>2, <1>4, TotalSumIs
<1>12. CostOf(DOMAIN records) = SumOver(f, DOMAIN records)
  BY <1>7, RecordSumIs
<1> QED BY <1>5, <1>8, <1>10, <1>11, <1>12

-----------------------------------------------------------------------------
(* The steps.                                                              *)

LEMMA AllocationInits ==
    ASSUME AllocationInit
    PROVE  AllocationInv
<1>1. IsFiniteSet({}) /\ Cardinality({}) = 0
  BY FS_EmptySet
<1>2. \A w \in Mapper : mapper[w] = Resting /\ mapper[w].pc = "idle"
  BY DEF AllocationInit, Resting
<1>3. AllocationTypeOK
  <2>1. mapper = [w \in Mapper |-> mapper[w]]
    BY DEF AllocationInit
  <2>2. SumsApart(sums)
    BY <1>1 DEF AllocationInit, SumsApart
  <2>3. IsFiniteSet(dims) /\ dims \subseteq DimRow
    BY <1>1 DEF AllocationInit
  <2>4. rules \in Seq(RuleRow) /\ records \in Seq(CostRecord) /\ work \in Nat
    BY DEF AllocationInit
  <2>5. fresh \in BOOLEAN /\ beside \in BOOLEAN /\ settled \in BOOLEAN
    BY DEF AllocationInit
  <2> QED BY <1>2, <2>1, <2>2, <2>3, <2>4, <2>5 DEF AllocationTypeOK
<1>4. RowsNumbered /\ SeenInOrder /\ OneRowEach /\ FoundStands /\ RowsTrue /\ SumsTrue
  BY <1>2 DEF AllocationInit, RowsNumbered, SeenInOrder, OneRowEach, FoundStands, RowsTrue, SumsTrue
<1> QED BY <1>3, <1>4 DEF AllocationInv

\* Summaries hold as long as records and rows stand.
LEMMA TruthfulStands ==
    ASSUME dims' = dims, records' = records
    PROVE  \A T : Truthful(T)' <=> Truthful(T)
<1>1. \A r : Bucket(r)' = Bucket(r)
  BY DEF Bucket, DimOf, RowsOf
<1>2. \A S : CostOf(S)' = CostOf(S)
  BY Zenon DEF CostOf, MapThenSumSet, MapThenFoldSet
<1> QED BY <1>1, <1>2 DEF Truthful, Members

\* What of the invariant the records, rows and summaries decide.
LEMMA AllocationFrame ==
    ASSUME AllocationInv, dims' = dims, records' = records, sums' = sums, mapper' = mapper,
           fresh' = fresh, beside' = beside, settled' = settled,
           rules' \in Seq(RuleRow), work' \in Nat
    PROVE  AllocationInv'
<1>1. AllocationTypeOK'
  BY DEF AllocationInv, AllocationTypeOK, SumsApart, ApplyWork, ComputeWork
<1>2. RowsNumbered' /\ SeenInOrder' /\ OneRowEach'
  BY DEF AllocationInv, RowsNumbered, SeenInOrder, OneRowEach
<1>3. FoundStands'
  BY DEF AllocationInv, FoundStands, Found, RowsOf
<1>4. RowsTrue'
  BY DEF AllocationInv, RowsTrue
<1>5. SumsTrue'
  BY TruthfulStands DEF AllocationInv, SumsTrue
<1> QED BY <1>1, <1>2, <1>3, <1>4, <1>5 DEF AllocationInv

\* A change of a rule.
LEMMA RulesChange ==
    ASSUME AllocationInv, NEW f \in RuleForm, NEW active \in BOOLEAN, NEW i,
           CreateRule(f) \/ UpdateRule(i, f, active)
    PROVE  AllocationInv'
<1>1. /\ dims' = dims /\ records' = records /\ sums' = sums /\ mapper' = mapper
      /\ fresh' = fresh /\ beside' = beside /\ settled' = settled
  BY DEF CreateRule, UpdateRule
<1>2. work' \in Nat /\ rules \in Seq(RuleRow)
  <2>1. work \in Nat /\ rules \in Seq(RuleRow)
    BY DEF AllocationInv, AllocationTypeOK
  <2>2. work' = work + 1
    BY DEF CreateRule, UpdateRule, Working
  <2> QED BY <2>1, <2>2
<1>3. \A b \in BOOLEAN : Saved(f, b) \in RuleRow
  BY DEF RuleRow
<1>4. PICK R : R = RuleRow
  OBVIOUS
<1>5. rules' \in Seq(R)
  <2>1. CASE CreateRule(f)
    <3>1. rules' = Append(rules, Saved(f, TRUE)) /\ Saved(f, TRUE) \in R /\ rules \in Seq(R)
      BY <1>2, <1>3, <1>4, <2>1 DEF CreateRule
    <3> QED BY <3>1, AppendProperties
  <2>2. CASE UpdateRule(i, f, active)
    <3>1. /\ rules' = [rules EXCEPT ![i] = Saved(f, active)] /\ Saved(f, active) \in R
          /\ rules \in Seq(R) /\ i \in 1..Len(rules)
      BY <1>2, <1>3, <1>4, <2>2 DEF UpdateRule, RuleIds
    <3> QED BY <3>1, ExceptSeq
  <2> QED BY <2>1, <2>2
<1> QED BY <1>1, <1>2, <1>4, <1>5, AllocationFrame

LEMMA DeletedStep ==
    ASSUME AllocationInv, NEW i, DeleteRule(i)
    PROVE  AllocationInv'
<1>1. /\ dims' = dims /\ records' = records /\ sums' = sums /\ mapper' = mapper
      /\ fresh' = fresh /\ beside' = beside /\ settled' = settled
  BY DEF DeleteRule
<1>2. work' \in Nat
  BY DEF DeleteRule, Working, AllocationInv, AllocationTypeOK
<1>3. PICK R : R = RuleRow
  OBVIOUS
<1>4. /\ rules' = [rules EXCEPT ![i] = NoRule] /\ NoRule \in R /\ rules \in Seq(R)
      /\ i \in 1..Len(rules)
  BY <1>3 DEF DeleteRule, RuleIds, RuleRow, AllocationInv, AllocationTypeOK
<1>5. rules' \in Seq(R)
  BY <1>4, ExceptSeq
<1> QED BY <1>1, <1>2, <1>3, <1>5, AllocationFrame

LEMMA ImportStep ==
    ASSUME AllocationInv, NEW f \in Files, ImportFile(f)
    PROVE  AllocationInv'
<1>1. /\ records' = f /\ dims' = dims /\ sums' = sums /\ mapper' = mapper /\ rules' = rules
      /\ beside' = beside /\ work' = work + 1
      /\ fresh' = (dims = {} /\ \A w \in Mapper : mapper[w] = Resting)
      /\ settled' = (sums = {} /\ \A w \in Mapper : mapper[w] = Resting)
  BY DEF ImportFile, Working
<1>2. records' \in Seq(CostRecord)
  BY <1>1, AllocationBounds
<1>3. AllocationTypeOK'
  <2>1. fresh' \in BOOLEAN /\ settled' \in BOOLEAN
    BY <1>1
  <2> QED BY <1>1, <1>2, <2>1 DEF AllocationInv, AllocationTypeOK, SumsApart, ApplyWork, ComputeWork
<1>4. RowsNumbered' /\ SeenInOrder' /\ OneRowEach'
  BY <1>1 DEF AllocationInv, RowsNumbered, SeenInOrder, OneRowEach
<1>5. FoundStands'
  BY <1>1 DEF AllocationInv, FoundStands, Found, RowsOf
<1>6. RowsTrue'
  <2>1. Resting.pc # "apply"
    BY DEF Resting
  <2>2. fresh' => dims' = {} /\ \A w \in Mapper : mapper'[w] = Resting
    BY <1>1
  <2> QED BY <2>1, <2>2 DEF RowsTrue
<1>7. SumsTrue'
  <2>1. Resting.pc # "compute"
    BY DEF Resting
  <2>2. settled' => sums' = {} /\ \A w \in Mapper : mapper'[w] = Resting
    BY <1>1
  <2> QED BY <2>1, <2>2 DEF SumsTrue
<1> QED BY <1>3, <1>4, <1>5, <1>6, <1>7 DEF AllocationInv

\* Of rows of a record one has the least number.
LEMMA FoundNone ==
    ASSUME AllocationTypeOK, NEW x \in dims
    PROVE  Found(x.record) # {}
<1>1. PICK T : T = {y.id : y \in RowsOf(x.record)}
  OBVIOUS
<1>2. T \in SUBSET Nat /\ T # {}
  BY <1>1, DimsAre DEF RowsOf
<1>3. PICK n \in T : \A m \in T : n <= m
  BY <1>2, LeastNumber
<1>4. PICK y \in RowsOf(x.record) : y.id = n
  BY <1>1, <1>3
<1> QED BY <1>1, <1>3, <1>4 DEF Found

LEMMA FoundIn == \A r : Found(r) \subseteq dims /\ \A o \in Found(r) : o.record = r
BY DEF Found, RowsOf

\* A rule is what it was saved as.
LEMMA RuleOf ==
    ASSUME rules \in Seq(RuleRow), NEW i \in Active
    PROVE  /\ i \in DOMAIN rules /\ i \in Nat /\ Len(rules) \in Nat /\ i \in 1..Len(rules)
           /\ rules[i].priority \in Int /\ rules[i].dimension \in Dimensions
           /\ rules[i].mapped \in {f.mapped : f \in RuleForm}
<1>1. i \in DOMAIN rules /\ rules[i] # NoRule /\ DOMAIN rules = 1..Len(rules) /\ Len(rules) \in Nat
  BY DEF Active, RuleIds
<1>2. PICK f \in RuleForm, active \in BOOLEAN : rules[i] = Saved(f, active)
  <2>1. rules[i] \in RuleRow
    BY <1>1
  <2> QED BY <1>1, <2>1 DEF RuleRow
<1>3. rules[i].priority = f.priority /\ rules[i].dimension = f.dimension /\ rules[i].mapped = f.mapped
  BY <1>2 DEF Saved
<1> QED BY <1>1, <1>3, AllocationBounds DEF Dimensions

\* Of active rules one comes first.
LEMMA FirstRule ==
    ASSUME rules \in Seq(RuleRow), NEW fits \in SUBSET Active, fits # {}
    PROVE  \E i \in fits : \A j \in fits \ {i} : Precedes(i, j)
<1>1. \A i \in fits : i \in 1..Len(rules) /\ i \in Nat /\ rules[i].priority \in Int
  BY RuleOf
<1>2. IsFiniteSet(fits)
  <2>1. Len(rules) \in Nat
    OBVIOUS
  <2>2. \A n \in Nat : IsFiniteSet(1..n)
    BY FS_Interval
  <2>3. IsFiniteSet(1..Len(rules)) /\ fits \subseteq 1..Len(rules)
    BY <1>1, <2>1, <2>2
  <2> QED BY <2>3, FS_Subset
<1>3. PICK p, P : p = [i \in fits |-> rules[i].priority] /\ P = {p[i] : i \in fits}
  OBVIOUS
<1>4. IsFiniteSet(P) /\ P \in SUBSET Int /\ P # {}
  <2>1. p \in Surjection(fits, P)
    BY <1>3 DEF Surjection
  <2>2. P \in SUBSET Int /\ P # {}
    BY <1>1, <1>3
  <2> QED BY <1>2, <2>1, <2>2, FS_Surjection
<1>5. PICK n \in P : \A m \in P : n <= m
  BY <1>4, LeastInteger
<1>6. PICK Q : Q = {i \in fits : rules[i].priority = n}
  OBVIOUS
<1>7. Q \in SUBSET Nat /\ Q # {}
  BY <1>1, <1>3, <1>5, <1>6
<1>8. PICK i \in Q : \A j \in Q : i <= j
  BY <1>7, LeastNumber
<1>9. ASSUME NEW j \in fits \ {i} PROVE Precedes(i, j)
  <2>1. i \in fits /\ rules[i].priority = n /\ n <= rules[j].priority
    BY <1>3, <1>5, <1>6
  <2>2. n \in Int /\ rules[j].priority \in Int /\ i \in Nat /\ j \in Nat
    BY <1>1, <1>4, <2>1
  <2>3. rules[j].priority = n => i <= j
    BY <1>6, <1>8
  <2> QED BY <2>1, <2>2, <2>3 DEF Precedes
<1> QED BY <1>6, <1>9

\* The values that the rules give.
LEMMA AssignedType ==
    ASSUME rules \in Seq(RuleRow), NEW tags
    PROVE  Assigned(tags) \in [Dimensions -> DimValue]
<1> SUFFICES ASSUME NEW d \in Dimensions
             PROVE  Assigned(tags)[d] \in DimValue
  BY DEF Assigned
<1>1. PICK fits : fits = {i \in Active : rules[i].dimension = d /\ Fits(i, tags)}
  OBVIOUS
<1>2. CASE fits = {}
  <2>1. Assigned(tags)[d] = Unmapped
    BY <1>1, <1>2 DEF Assigned
  <2> QED BY <2>1 DEF DimValue
<1>3. CASE fits # {}
  <2>1. fits \subseteq Active
    BY <1>1
  <2>2. PICK i \in fits : \A j \in fits \ {i} : Precedes(i, j)
    BY <1>3, <2>1, FirstRule
  <2>3. PICK k : k = CHOOSE l \in fits : \A j \in fits \ {l} : Precedes(l, j)
    OBVIOUS
  <2>4. k \in fits
    BY <2>2, <2>3
  <2>5. Assigned(tags)[d] = rules[k].mapped
    BY <1>1, <1>3, <2>3 DEF Assigned
  <2> QED BY <2>1, <2>4, <2>5, RuleOf DEF DimValue
<1> QED BY <1>2, <1>3

-----------------------------------------------------------------------------
(* What a process has in hand.                                             *)

LEMMA MapperSet ==
    ASSUME AllocationTypeOK, NEW w \in Mapper, NEW m, mapper' = [mapper EXCEPT ![w] = m]
    PROVE  /\ mapper'[w] = m /\ \A v \in Mapper : v # w => mapper'[v] = mapper[v]
           /\ mapper' = [v \in Mapper |-> mapper'[v]]
BY DEF AllocationTypeOK

\* A process takes up or drops something; data stay.
LEMMA MapperFrame ==
    ASSUME AllocationInv, NEW w \in Mapper, NEW m, mapper' = [mapper EXCEPT ![w] = m],
           dims' = dims, records' = records, sums' = sums, rules' = rules,
           fresh' = fresh, beside' = beside, settled' = settled, work' \in Nat,
           m = Resting \/ ApplyWork(m) \/ ComputeWork(m),
           m.pc = "apply" =>
              /\ m.seen <= Cardinality(dims)
              /\ \A x \in dims : x.record \in DOMAIN m.found => m.found[x.record] # {}
              /\ \A r \in DOMAIN m.found : m.found[r] = Found(r)
              /\ DOMAIN m.assigned = DOMAIN records
              /\ \A r \in DOMAIN records : m.cost[r] = records[r].cost,
           m.pc = "compute" => Truthful(m.sums)
    PROVE  AllocationInv'
<1>1. /\ mapper'[w] = m /\ \A v \in Mapper : v # w => mapper'[v] = mapper[v]
      /\ mapper' = [v \in Mapper |-> mapper'[v]]
  BY MapperSet DEF AllocationInv
<1>2. AllocationTypeOK'
  <2>1. \A v \in Mapper : mapper'[v] = Resting \/ ApplyWork(mapper'[v]) \/ ComputeWork(mapper'[v])
    BY <1>1 DEF AllocationInv, AllocationTypeOK
  <2> QED BY <1>1, <2>1 DEF AllocationInv, AllocationTypeOK, SumsApart
<1>3. RowsNumbered' /\ OneRowEach'
  BY DEF AllocationInv, RowsNumbered, OneRowEach
<1>4. SeenInOrder'
  BY <1>1 DEF AllocationInv, SeenInOrder
<1>5. \A r : Found(r)' = Found(r)
  BY DEF Found, RowsOf
<1>6. FoundStands'
  BY <1>1, <1>5 DEF AllocationInv, FoundStands
<1>7. RowsTrue'
  BY <1>1 DEF AllocationInv, RowsTrue
<1>8. SumsTrue'
  <2>1. \A v \in Mapper : settled /\ mapper'[v].pc = "compute" => Truthful(mapper'[v].sums)
    BY <1>1 DEF AllocationInv, SumsTrue
  <2>2. settled /\ sums # {} => Truthful(sums)
    BY DEF AllocationInv, SumsTrue
  <2> QED BY <2>1, <2>2, TruthfulStands DEF SumsTrue
<1> QED BY <1>2, <1>3, <1>4, <1>6, <1>7, <1>8 DEF AllocationInv

LEMMA MappingFailsStep ==
    ASSUME AllocationInv, NEW w \in Mapper, MappingFails(w)
    PROVE  AllocationInv'
<1>1. PICK m : m = Resting
  OBVIOUS
<1>2. m.pc = "idle"
  BY <1>1 DEF Resting
<1>3. /\ mapper' = [mapper EXCEPT ![w] = m] /\ dims' = dims /\ records' = records
      /\ sums' = sums /\ rules' = rules /\ fresh' = fresh /\ beside' = beside
      /\ settled' = settled /\ work' \in Nat
  BY <1>1 DEF MappingFails, AllocationInv, AllocationTypeOK
<1> QED BY <1>1, <1>2, <1>3, MapperFrame

LEMMA ApplyReadStep ==
    ASSUME AllocationInv, NEW w \in Mapper, ApplyRead(w)
    PROVE  AllocationInv'
<1>1. PICK m : m = [pc |-> "apply",
                    assigned |-> [r \in DOMAIN records |-> Assigned(records[r].tags)],
                    cost |-> [r \in DOMAIN records |-> records[r].cost],
                    found |-> [r \in DOMAIN records |-> Found(r)],
                    seen |-> Cardinality(dims)]
  OBVIOUS
<1>2. /\ mapper' = [mapper EXCEPT ![w] = m] /\ dims' = dims /\ records' = records
      /\ sums' = sums /\ rules' = rules /\ fresh' = fresh /\ beside' = beside
      /\ settled' = settled /\ work' = work + 1
  BY <1>1 DEF ApplyRead, Working
<1>3. work' \in Nat
  BY <1>2 DEF AllocationInv, AllocationTypeOK
<1>4. AllocationTypeOK /\ rules \in Seq(RuleRow) /\ dims \subseteq DimRow
  BY DEF AllocationInv, AllocationTypeOK
<1>5. /\ m.pc = "apply" /\ DOMAIN m.assigned = DOMAIN records /\ DOMAIN m.cost = DOMAIN records
      /\ DOMAIN m.found = DOMAIN records /\ m.seen = Cardinality(dims)
      /\ \A r \in DOMAIN records : /\ m.assigned[r] = Assigned(records[r].tags)
                                   /\ m.cost[r] = records[r].cost /\ m.found[r] = Found(r)
  BY <1>1
<1>a. PICK n : n = Len(records)
  OBVIOUS
<1>6. n \in Nat /\ DOMAIN records = 1..n
  BY <1>4, <1>a, RecordsAre
<1>7. ApplyWork(m)
  <2>1. \A r \in 1..n : /\ m.assigned[r] \in [Dimensions -> DimValue]
                        /\ m.cost[r] \in Nat /\ m.found[r] \in SUBSET DimRow
                        /\ \A o \in m.found[r] : o.record = r
    BY <1>4, <1>5, <1>6, AssignedType, RecordsAre, FoundIn
  <2>2. PICK V : V = [Dimensions -> DimValue]
    OBVIOUS
  <2>3. m.assigned \in [1..n -> V] /\ m.cost \in [1..n -> Nat] /\ m.found \in [1..n -> SUBSET DimRow]
    <3>1. /\ m.assigned = [r \in 1..n |-> m.assigned[r]] /\ m.cost = [r \in 1..n |-> m.cost[r]]
          /\ m.found = [r \in 1..n |-> m.found[r]]
      BY <1>1, <1>6
    <3> QED BY <2>1, <2>2, <3>1
  <2>4. m.assigned \in Seq(V) /\ m.cost \in Seq(Nat) /\ m.found \in Seq(SUBSET DimRow)
    <3>1. PICK a, c, f, W : a = m.assigned /\ c = m.cost /\ f = m.found /\ W = SUBSET DimRow
      OBVIOUS
    <3>2. a \in Seq(V) /\ c \in Seq(Nat) /\ f \in Seq(W)
      BY <1>6, <2>3, <3>1
    <3> QED BY <3>1, <3>2
  <2>5. Cardinality(dims) \in Nat
    BY <1>4, DimsAre
  <2> QED BY <1>5, <1>6, <2>1, <2>2, <2>4, <2>5 DEF ApplyWork
<1>8. \A x \in dims : x.record \in DOMAIN m.found => m.found[x.record] # {}
  BY <1>4, <1>5, FoundNone
<1>9. m.seen <= Cardinality(dims)
  <2>1. Cardinality(dims) \in Nat
    BY <1>4, DimsAre
  <2> QED BY <1>5, <2>1
<1> QED BY <1>2, <1>3, <1>5, <1>7, <1>8, <1>9, MapperFrame

LEMMA ComputeStep ==
    ASSUME AllocationInv, NEW w \in Mapper, ComputeSums(w)
    PROVE  AllocationInv'
<1>1. PICK T, m : /\ T = {SummaryOf(Bucket(r)) : r \in DOMAIN records}
                  /\ m = [pc |-> "compute", sums |-> T]
  OBVIOUS
<1>2. /\ mapper' = [mapper EXCEPT ![w] = m] /\ dims' = dims /\ records' = records
      /\ sums' = sums /\ rules' = rules /\ fresh' = fresh /\ beside' = beside
      /\ settled' = settled /\ work' = work + 1
  BY <1>1 DEF ComputeSums, Working
<1>3. work' \in Nat /\ m.pc = "compute" /\ m.sums = T
  BY <1>1, <1>2 DEF AllocationInv, AllocationTypeOK
<1>4. \A b : SummaryOf(b).bucket = b /\ SummaryOf(b).total = CostOf(Members(b))
  BY Zenon DEF SummaryOf, Members
<1>5. \A s \in T : \E r \in DOMAIN records : s = SummaryOf(Bucket(r))
  BY <1>1
<1>6. IsFiniteSet(T)
  <2>1. [r \in DOMAIN records |-> SummaryOf(Bucket(r))] \in Surjection(DOMAIN records, T)
    BY <1>1 DEF Surjection
  <2>2. IsFiniteSet(DOMAIN records)
    BY RecordsAre DEF AllocationInv
  <2> QED BY <2>1, <2>2, FS_Surjection
<1>7. \A s, t \in T : s.bucket = t.bucket => s = t
  BY <1>4, <1>5
<1>8. Truthful(T)
  <2>1. \A s \in T : \E r \in DOMAIN records : s.bucket = Bucket(r)
    BY <1>4, <1>5
  <2>2. \A r \in DOMAIN records : \E s \in T : s.bucket = Bucket(r)
    <3>1. \A r \in DOMAIN records : SummaryOf(Bucket(r)) \in T
      BY <1>1
    <3> QED BY <1>4, <3>1
  <2>3. \A s \in T : s.total = CostOf(Members(s.bucket))
    BY <1>4, <1>5
  <2> QED BY <2>1, <2>2, <2>3 DEF Truthful
<1>9. ComputeWork(m)
  BY <1>3, <1>6, <1>7 DEF ComputeWork, SumsApart
<1> QED BY <1>2, <1>3, <1>8, <1>9, MapperFrame

LEMMA WriteSumsStep ==
    ASSUME AllocationInv, NEW w \in Mapper, WriteSums(w)
    PROVE  AllocationInv'
<1>1. PICK T : T = mapper[w].sums
  OBVIOUS
<1>2. /\ sums' = Kept(T) \cup T /\ mapper' = [mapper EXCEPT ![w] = Resting]
      /\ dims' = dims /\ records' = records /\ rules' = rules /\ fresh' = fresh
      /\ beside' = beside /\ settled' = settled /\ work' = work /\ mapper[w].pc = "compute"
  BY <1>1 DEF WriteSums
<1>3. /\ mapper'[w] = Resting /\ \A v \in Mapper : v # w => mapper'[v] = mapper[v]
      /\ mapper' = [v \in Mapper |-> mapper'[v]] /\ Resting.pc = "idle"
  BY <1>2, MapperSet DEF AllocationInv, Resting
<1>4. SumsApart(T)
  BY <1>1, <1>2, <1>3 DEF AllocationInv, AllocationTypeOK, ApplyWork, ComputeWork
<1>5. SumsApart(sums)
  BY DEF AllocationInv, AllocationTypeOK
<1>6. SumsApart(sums')
  <2>1. IsFiniteSet(Kept(T)) /\ Kept(T) \subseteq sums
    BY <1>5, FS_Subset DEF SumsApart, Kept
  <2>2. IsFiniteSet(Kept(T) \cup T)
    BY <1>4, <2>1, FS_Union DEF SumsApart
  <2>3. \A s \in Kept(T), t \in T : t.bucket # s.bucket
    BY DEF Kept
  <2> QED BY <1>2, <1>4, <1>5, <2>1, <2>2, <2>3 DEF SumsApart
<1>7. AllocationTypeOK'
  <2>1. \A v \in Mapper : mapper'[v] = Resting \/ ApplyWork(mapper'[v]) \/ ComputeWork(mapper'[v])
    BY <1>3 DEF AllocationInv, AllocationTypeOK
  <2>2. SumsApart(sums)'
    BY <1>6 DEF SumsApart
  <2> QED BY <1>2, <1>3, <2>1, <2>2 DEF AllocationInv, AllocationTypeOK
<1>8. RowsNumbered' /\ OneRowEach'
  BY <1>2 DEF AllocationInv, RowsNumbered, OneRowEach
<1>9. SeenInOrder'
  BY <1>2, <1>3 DEF AllocationInv, SeenInOrder
<1>10. \A r : Found(r)' = Found(r)
  BY <1>2 DEF Found, RowsOf
<1>11. FoundStands'
  BY <1>2, <1>3, <1>10 DEF AllocationInv, FoundStands
<1>12. RowsTrue'
  BY <1>2, <1>3 DEF AllocationInv, RowsTrue
<1>13. settled => Truthful(T) /\ sums' = T
  <2> SUFFICES ASSUME settled PROVE Truthful(T) /\ sums' = T
    OBVIOUS
  <2>1. Truthful(T) /\ (sums # {} => Truthful(sums))
    BY <1>1, <1>2 DEF AllocationInv, SumsTrue
  <2>2. Kept(T) = {}
    BY <2>1 DEF Kept, Truthful
  <2> QED BY <1>2, <2>1, <2>2
<1>14. SumsTrue'
  <2>1. \A v \in Mapper : settled /\ mapper'[v].pc = "compute" => Truthful(mapper'[v].sums)
    BY <1>3 DEF AllocationInv, SumsTrue
  <2>2. settled => Truthful(sums')
    BY <1>13
  <2> QED BY <1>2, <2>1, <2>2, TruthfulStands DEF SumsTrue
<1> QED BY <1>7, <1>8, <1>9, <1>11, <1>12, <1>14 DEF AllocationInv

-----------------------------------------------------------------------------
(* An application is committed.                                            *)

LEMMA WorkIs ==
    ASSUME NEW m, ApplyWork(m)
    PROVE  \E n \in Nat :
             /\ DOMAIN m.assigned = 1..n /\ DOMAIN m.found = 1..n
             /\ m.found \in [1..n -> SUBSET DimRow]
             /\ \A r \in 1..n : /\ m.assigned[r] \in [Dimensions -> DimValue] /\ m.cost[r] \in Nat
                                /\ \A o \in m.found[r] : o.record = r
<1>1. PICK V : V = [Dimensions -> DimValue]
  OBVIOUS
<1>2. PICK W : W = SUBSET DimRow
  OBVIOUS
<1>3. PICK a, c, f : a = m.assigned /\ c = m.cost /\ f = m.found
  OBVIOUS
<1>4. /\ a \in Seq(V) /\ c \in Seq(Nat) /\ f \in Seq(W)
      /\ DOMAIN c = DOMAIN a /\ DOMAIN f = DOMAIN a
      /\ \A r \in DOMAIN f : \A o \in f[r] : o.record = r
  BY <1>1, <1>2, <1>3 DEF ApplyWork
<1>5. PICK n \in Nat : n = Len(a)
  BY <1>4
<1>6. /\ DOMAIN a = 1..n /\ DOMAIN f = 1..n /\ DOMAIN c = 1..n
      /\ \A r \in 1..n : a[r] \in V /\ c[r] \in Nat /\ f[r] \in W
  BY <1>4, <1>5
<1>7. f \in [1..n -> W]
  BY <1>4, <1>6
<1> QED BY <1>1, <1>2, <1>3, <1>4, <1>6, <1>7

\* A row that is written again keeps what it was made for.
SameRow(y, x) ==
    y \in DimRow /\ y.id = x.id /\ y.record = x.record /\ y.cost = x.cost /\ y.seen = x.seen

LEMMA RenewedIs ==
    ASSUME NEW x \in DimRow, NEW old, NEW a \in [Dimensions -> DimValue]
    PROVE  /\ SameRow(Renewed(x, old, a), x)
           /\ old = x /\ x.mapped = IsMapped(x.assigned) =>
                 Renewed(x, old, a).assigned = a /\ Renewed(x, old, a).mapped = IsMapped(a)
<1>a. PICK b : b = [d \in Dimensions |-> IF a[d] = old.assigned[d] THEN x.assigned[d] ELSE a[d]]
  OBVIOUS
<1>b. PICK p : p = IF IsMapped(a) = old.mapped THEN x.mapped ELSE IsMapped(a)
  OBVIOUS
<1>1. PICK y : y = [x EXCEPT !.assigned = b, !.mapped = p]
  OBVIOUS
<1>2. y = Renewed(x, old, a)
  BY <1>a, <1>b, <1>1 DEF Renewed
<1>3. b \in [Dimensions -> DimValue] /\ p \in BOOLEAN
  <2>1. x.assigned \in [Dimensions -> DimValue] /\ x.mapped \in BOOLEAN
    BY DEF DimRow
  <2>2. IsMapped(a) \in BOOLEAN
    BY DEF IsMapped
  <2> QED BY <1>a, <1>b, <2>1, <2>2
<1>4. y \in DimRow
  <2>1. PICK V : V = [Dimensions -> DimValue]
    OBVIOUS
  <2>2. x \in [id : Nat, record : Nat, cost : Nat, assigned : V, mapped : BOOLEAN, seen : Nat]
    BY <2>1 DEF DimRow
  <2>3. y \in [id : Nat, record : Nat, cost : Nat, assigned : V, mapped : BOOLEAN, seen : Nat]
    BY <1>1, <1>3, <2>1, <2>2
  <2> QED BY <2>1, <2>3 DEF DimRow
<1>5. /\ y.id = x.id /\ y.record = x.record /\ y.cost = x.cost /\ y.seen = x.seen
      /\ y.assigned = b /\ y.mapped = p
  BY <1>1 DEF DimRow
<1>6. old = x => b = a
  <2> SUFFICES ASSUME old = x PROVE b = a
    OBVIOUS
  <2>1. \A d \in Dimensions : b[d] = a[d]
    BY <1>a
  <2> QED BY <1>3, <2>1
<1>7. old = x => p = IsMapped(a)
  <2>1. IsMapped(a) \in BOOLEAN
    BY DEF IsMapped
  <2> QED BY <1>b, <2>1
<1> QED BY <1>2, <1>4, <1>5, <1>6, <1>7 DEF SameRow

LEMMA UpdatedIs ==
    ASSUME NEW m, ApplyWork(m), NEW x \in DimRow
    PROVE  /\ SameRow(Updated(m, x), x)
           /\ \/ Updated(m, x) = x
              \/ \E r \in DOMAIN m.found : \E o \in m.found[r] :
                    /\ o.id = x.id /\ m.assigned[r] \in [Dimensions -> DimValue]
                    /\ Updated(m, x) = Renewed(x, o, m.assigned[r])
<1>1. PICK n \in Nat :
        /\ DOMAIN m.assigned = 1..n /\ DOMAIN m.found = 1..n
        /\ \A r \in 1..n : /\ m.assigned[r] \in [Dimensions -> DimValue]
                           /\ \A o \in m.found[r] : o.record = r
  BY WorkIs
<1>2. PICK olds, old : /\ olds = {o \in UNION {m.found[r] : r \in DOMAIN m.found} : o.id = x.id}
                       /\ old = CHOOSE o \in olds : TRUE
  OBVIOUS
<1>3. Updated(m, x) = IF olds = {} THEN x ELSE Renewed(x, old, m.assigned[old.record])
  BY <1>2 DEF Updated
<1>4. CASE olds = {}
  BY <1>3, <1>4 DEF SameRow
<1>5. CASE olds # {}
  <2>1. old \in olds
    BY <1>2, <1>5
  <2>2. PICK r \in 1..n : old \in m.found[r] /\ old.id = x.id
    BY <1>1, <1>2, <2>1
  <2>3. old.record = r /\ m.assigned[r] \in [Dimensions -> DimValue]
    BY <1>1, <2>2
  <2>4. Updated(m, x) = Renewed(x, old, m.assigned[r])
    BY <1>3, <1>5, <2>3
  <2>5. SameRow(Renewed(x, old, m.assigned[r]), x)
    BY <2>3, RenewedIs
  <2> QED BY <1>1, <2>2, <2>3, <2>4, <2>5
<1> QED BY <1>4, <1>5

Rank(m, r) == Cardinality({q \in New(m) : q <= r})

\* The new rows are numbered.
LEMMA RankIs ==
    ASSUME NEW m, ApplyWork(m)
    PROVE  /\ IsFiniteSet(New(m)) /\ Cardinality(New(m)) \in Nat /\ New(m) \subseteq Nat
           /\ \A r \in New(m) : /\ Rank(m, r) \in Nat /\ Rank(m, r) >= 1
                                /\ Rank(m, r) <= Cardinality(New(m))
           /\ \A r, q \in New(m) : Rank(m, r) = Rank(m, q) => r = q
<1>1. PICK n \in Nat : DOMAIN m.assigned = 1..n
  BY WorkIs
<1>2. PICK N : N = New(m)
  OBVIOUS
<1>3. IsFiniteSet(N) /\ Cardinality(N) \in Nat /\ N \subseteq Nat
  <2>1. \A k \in Nat : IsFiniteSet(1..k)
    BY FS_Interval
  <2>2. N \subseteq 1..n
    BY <1>1, <1>2 DEF New
  <2>3. IsFiniteSet(1..n)
    BY <2>1
  <2>4. IsFiniteSet(N)
    BY <2>2, <2>3, FS_Subset
  <2>5. Cardinality(N) \in Nat
    BY <2>4, FS_CardinalityType
  <2>6. N \subseteq Nat
    BY <2>2
  <2> QED BY <2>4, <2>5, <2>6
<1> DEFINE Upto(r) == {q \in N : q <= r}
<1>4. \A r \in N : /\ IsFiniteSet(Upto(r)) /\ Cardinality(Upto(r)) \in Nat
                   /\ Cardinality(Upto(r)) <= Cardinality(N)
  BY <1>3, FS_Subset, FS_CardinalityType
<1>5. \A r \in N : Cardinality(Upto(r)) >= 1
  <2> SUFFICES ASSUME NEW r \in N PROVE Cardinality(Upto(r)) >= 1
    OBVIOUS
  <2>1. r \in Upto(r)
    BY <1>3
  <2>2. Cardinality(Upto(r)) # 0
    BY <1>4, <2>1, FS_EmptySet
  <2> QED BY <1>4, <2>2
<1>6. ASSUME NEW r \in N, NEW q \in N, Cardinality(Upto(r)) = Cardinality(Upto(q)), r < q
      PROVE  FALSE
  <2>1. Upto(r) \subseteq Upto(q) /\ q \in Upto(q) /\ q \notin Upto(r)
    <3>1. r \in Nat /\ q \in Nat
      BY <1>3
    <3>2. \A z \in N : z \in Nat /\ (z <= r => z <= q)
      BY <1>3, <1>6, <3>1
    <3>3. q <= q /\ ~(q <= r)
      BY <1>6, <3>1
    <3> QED BY <3>2, <3>3
  <2>2. Upto(r) = Upto(q)
    BY <1>4, <1>6, <2>1, FS_Subset
  <2> QED BY <2>1, <2>2
<1>7. \A r \in N : Rank(m, r) = Cardinality(Upto(r))
  BY <1>2 DEF Rank
<1>8. \A r, q \in N : Rank(m, r) = Rank(m, q) => r = q
  <2> SUFFICES ASSUME NEW r \in N, NEW q \in N, Rank(m, r) = Rank(m, q), r # q PROVE FALSE
    OBVIOUS
  <2>1. Cardinality(Upto(r)) = Cardinality(Upto(q)) /\ (r < q \/ q < r)
    BY <1>3, <1>7
  <2> QED BY <1>6, <2>1
<1> HIDE DEF Upto
<1> QED BY <1>2, <1>3, <1>4, <1>5, <1>7, <1>8

\* An image has as many elements as what it is the image of, if none coincide.
LEMMA ImageSize ==
    ASSUME NEW S, IsFiniteSet(S), NEW g, NEW T, T = {g[x] : x \in S},
           \A x, y \in S : g[x] = g[y] => x = y
    PROVE  IsFiniteSet(T) /\ Cardinality(T) = Cardinality(S)
<1>1. PICK h : h = [x \in S |-> g[x]]
  OBVIOUS
<1>2. h \in Surjection(S, T)
  BY <1>1 DEF Surjection
<1>3. h \in Injection(S, T)
  BY <1>1 DEF Injection, IsInjective
<1> QED BY <1>2, <1>3, FS_Surjection

NewRow(m, r) ==
    [id |-> Cardinality(dims) + Rank(m, r), record |-> r, cost |-> m.cost[r],
     assigned |-> m.assigned[r], mapped |-> IsMapped(m.assigned[r]), seen |-> m.seen]

\* The rows that are inserted.
LEMMA InsertedIs ==
    ASSUME AllocationTypeOK, NEW m, ApplyWork(m)
    PROVE  /\ IsFiniteSet(Inserted(m)) /\ Cardinality(Inserted(m)) = Cardinality(New(m))
           /\ Inserted(m) \subseteq DimRow
           /\ \A y \in Inserted(m) :
                 \E r \in New(m) : y = NewRow(m, r)
           /\ \A r \in New(m) : NewRow(m, r) \in Inserted(m)
<1>1. PICK n \in Nat :
        /\ DOMAIN m.assigned = 1..n
        /\ \A r \in 1..n : m.assigned[r] \in [Dimensions -> DimValue] /\ m.cost[r] \in Nat
  BY WorkIs
<1>2. PICK N, g : N = New(m) /\ g = [r \in N |-> NewRow(m, r)]
  OBVIOUS
<1>3. Inserted(m) = {NewRow(m, r) : r \in N}
  BY <1>2 DEF Inserted, NewRow, Rank
<1>4. Inserted(m) = {g[r] : r \in N}
  BY <1>2, <1>3
<1>5. \A r, q \in N : g[r] = g[q] => r = q
  <2>1. \A r \in N : g[r].record = r
    BY <1>2 DEF NewRow
  <2> QED BY <2>1
<1>6. IsFiniteSet(N) /\ N \subseteq 1..n
  BY <1>1, <1>2, RankIs DEF New
<1>7. IsFiniteSet(Inserted(m)) /\ Cardinality(Inserted(m)) = Cardinality(N)
  <2>1. PICK T : T = Inserted(m)
    OBVIOUS
  <2>2. T = {g[r] : r \in N}
    BY <1>4, <2>1
  <2>3. IsFiniteSet(T) /\ Cardinality(T) = Cardinality(N)
    BY <1>5, <1>6, <2>2, ImageSize
  <2> QED BY <2>1, <2>3
<1>8. ASSUME NEW r \in N PROVE NewRow(m, r) \in DimRow
  <2>1. Cardinality(dims) \in Nat /\ Rank(m, r) \in Nat
    BY <1>2, DimsAre, RankIs
  <2>2. m.seen \in Nat
    BY DEF ApplyWork
  <2>3. IsMapped(m.assigned[r]) \in BOOLEAN
    BY DEF IsMapped
  <2>4. r \in Nat /\ m.assigned[r] \in [Dimensions -> DimValue] /\ m.cost[r] \in Nat
    BY <1>1, <1>6
  <2> QED BY <2>1, <2>2, <2>3, <2>4 DEF NewRow, DimRow
<1>9. Inserted(m) \subseteq DimRow
  BY <1>3, <1>8
<1>10. /\ \A y \in Inserted(m) : \E r \in N : y = NewRow(m, r)
       /\ \A r \in N : NewRow(m, r) \in Inserted(m)
  BY <1>3
<1> QED BY <1>2, <1>7, <1>9, <1>10

\* The rows that are written again.
LEMMA RewrittenIs ==
    ASSUME AllocationTypeOK, RowsNumbered, NEW m, ApplyWork(m),
           NEW U, U = {Updated(m, x) : x \in dims}
    PROVE  IsFiniteSet(U) /\ Cardinality(U) = Cardinality(dims) /\ U \subseteq DimRow
<1>1. PICK g : g = [x \in dims |-> Updated(m, x)]
  OBVIOUS
<1>2. \A x \in dims : SameRow(g[x], x)
  <2>1. dims \subseteq DimRow
    BY DEF AllocationTypeOK
  <2> QED BY <1>1, <2>1, UpdatedIs
<1>3. U = {g[x] : x \in dims}
  BY <1>1
<1>4. \A x, y \in dims : g[x] = g[y] => x = y
  <2>1. \A x \in dims : g[x].id = x.id
    BY <1>2 DEF SameRow
  <2> QED BY <2>1 DEF RowsNumbered
<1>5. IsFiniteSet(dims)
  BY DimsAre
<1>6. IsFiniteSet(U) /\ Cardinality(U) = Cardinality(dims)
  BY <1>3, <1>4, <1>5, ImageSize
<1>7. \A x \in dims : g[x] \in DimRow
  BY <1>2 DEF SameRow
<1> QED BY <1>3, <1>6, <1>7

\* The rows after an application: those that were there, and one for each record
\* that had none when it read.
LEMMA RowsAfter ==
    ASSUME AllocationTypeOK, RowsNumbered, NEW m, ApplyWork(m),
           NEW R, R = {Updated(m, x) : x \in dims} \cup Inserted(m)
    PROVE  /\ IsFiniteSet(R) /\ R \subseteq DimRow
           /\ Cardinality(R) = Cardinality(dims) + Cardinality(New(m))
           /\ \A y \in R : \/ \E x \in dims : y = Updated(m, x) /\ SameRow(y, x)
                           \/ \E r \in New(m) : y = NewRow(m, r)
           /\ \A x \in dims : Updated(m, x) \in R
           /\ \A r \in New(m) : NewRow(m, r) \in R
<1>1. PICK U, I : U = {Updated(m, x) : x \in dims} /\ I = Inserted(m)
  OBVIOUS
<1>2. IsFiniteSet(U) /\ Cardinality(U) = Cardinality(dims) /\ U \subseteq DimRow
  BY <1>1, RewrittenIs
<1>3. /\ IsFiniteSet(I) /\ Cardinality(I) = Cardinality(New(m)) /\ I \subseteq DimRow
      /\ \A y \in I : \E r \in New(m) : y = NewRow(m, r)
      /\ \A r \in New(m) : NewRow(m, r) \in I
  BY <1>1, InsertedIs
<1>4. \A x \in dims : SameRow(Updated(m, x), x)
  <2>1. dims \subseteq DimRow
    BY DEF AllocationTypeOK
  <2> QED BY <2>1, UpdatedIs
<1>5. U \cap I = {}
  <2> SUFFICES ASSUME NEW y \in U, y \in I PROVE FALSE
    OBVIOUS
  <2>1. PICK x \in dims : y = Updated(m, x)
    BY <1>1
  <2>2. PICK r \in New(m) : y = NewRow(m, r)
    BY <1>3
  <2>3. y.id = x.id /\ y.id = Cardinality(dims) + Rank(m, r)
    <3>1. y.id = x.id
      BY <1>4, <2>1 DEF SameRow
    <3>2. y.id = Cardinality(dims) + Rank(m, r)
      BY <2>2 DEF NewRow
    <3> QED BY <3>1, <3>2
  <2>4. Cardinality(dims) \in Nat /\ Rank(m, r) \in Nat /\ Rank(m, r) >= 1
    BY DimsAre, RankIs
  <2>5. x.id \in Nat /\ x.id <= Cardinality(dims)
    BY DimsAre DEF RowsNumbered
  <2> QED BY <2>3, <2>4, <2>5
<1>6. IsFiniteSet(R) /\ Cardinality(R) = Cardinality(dims) + Cardinality(New(m))
  <2>1. R = U \cup I
    BY <1>1
  <2>2. Cardinality(U \cap I) = 0
    BY <1>5, FS_EmptySet
  <2>3. IsFiniteSet(R) /\ Cardinality(R) = Cardinality(U) + Cardinality(I) - Cardinality(U \cap I)
    BY <1>2, <1>3, <2>1, FS_Union
  <2>4. Cardinality(dims) \in Nat /\ Cardinality(New(m)) \in Nat
    BY DimsAre, RankIs
  <2> QED BY <1>2, <1>3, <2>2, <2>3, <2>4
<1>7. \A y \in R : \/ \E x \in dims : y = Updated(m, x) /\ SameRow(y, x)
                   \/ \E r \in New(m) : y = NewRow(m, r)
  BY <1>1, <1>3, <1>4
<1> QED BY <1>1, <1>2, <1>3, <1>6, <1>7

WrittenRow(m, y, x) ==
    /\ y = Updated(m, x) /\ y.id = x.id /\ y.record = x.record
    /\ y.cost = x.cost /\ y.seen = x.seen
    /\ y.id >= 1 /\ y.id <= Cardinality(dims)

InsertedRow(m, y, r) ==
    /\ y = NewRow(m, r) /\ y.id = Cardinality(dims) + Rank(m, r)
    /\ y.record = r /\ y.cost = m.cost[r] /\ y.seen = m.seen
    /\ y.assigned = m.assigned[r] /\ y.mapped = IsMapped(m.assigned[r])
    /\ y.id > Cardinality(dims) /\ y.id <= Cardinality(dims) + Cardinality(New(m))

\* A row after an application is one that was there, with the same number, or a
\* new one, with a greater number.
LEMMA RowKinds ==
    ASSUME AllocationTypeOK, RowsNumbered, NEW m, ApplyWork(m),
           NEW R, R = {Updated(m, x) : x \in dims} \cup Inserted(m), NEW y \in R
    PROVE  (\E x \in dims : WrittenRow(m, y, x)) \/ \E r \in New(m) : InsertedRow(m, y, r)
<1>1. \/ \E x \in dims : y = Updated(m, x) /\ SameRow(y, x)
      \/ \E r \in New(m) : y = NewRow(m, r)
  BY RowsAfter
<1>2. CASE \E x \in dims : y = Updated(m, x) /\ SameRow(y, x)
  <2>1. PICK x \in dims : y = Updated(m, x) /\ SameRow(y, x)
    BY <1>2
  <2>2. /\ y.id = x.id /\ y.record = x.record /\ y.cost = x.cost /\ y.seen = x.seen
    BY <2>1 DEF SameRow
  <2>3. x.id >= 1 /\ x.id <= Cardinality(dims)
    BY DEF RowsNumbered
  <2> QED BY <2>1, <2>2, <2>3 DEF WrittenRow
<1>3. CASE \E r \in New(m) : y = NewRow(m, r)
  <2>1. PICK r \in New(m) : y = NewRow(m, r)
    BY <1>3
  <2>2. /\ y.id = Cardinality(dims) + Rank(m, r) /\ y.record = r /\ y.cost = m.cost[r]
        /\ y.seen = m.seen /\ y.assigned = m.assigned[r] /\ y.mapped = IsMapped(m.assigned[r])
    BY <2>1 DEF NewRow
  <2>3. /\ Cardinality(dims) \in Nat /\ Rank(m, r) \in Nat /\ Cardinality(New(m)) \in Nat
        /\ Rank(m, r) >= 1 /\ Rank(m, r) <= Cardinality(New(m))
    BY DimsAre, RankIs
  <2>4. /\ y.id > Cardinality(dims) /\ y.id <= Cardinality(dims) + Cardinality(New(m))
    BY <2>2, <2>3
  <2> QED BY <2>1, <2>2, <2>4 DEF InsertedRow
<1> QED BY <1>1, <1>2, <1>3

LEMMA ApplyWriteStep ==
    ASSUME AllocationInv, NEW w \in Mapper, ApplyWrite(w)
    PROVE  AllocationInv'
<1>1. PICK m, R, C : m = mapper[w] /\ R = dims' /\ C = Cardinality(dims)
  OBVIOUS
<1>2. /\ R = {Updated(m, x) : x \in dims} \cup Inserted(m) /\ m.pc = "apply"
      /\ mapper' = [mapper EXCEPT ![w] = Resting]
      /\ beside' = (beside \/ \E v \in Mapper \ {w} : mapper[v].pc = "apply")
      /\ settled' = (settled /\ sums = {} /\ \A v \in Mapper : mapper[v].pc # "compute")
      /\ rules' = rules /\ records' = records /\ sums' = sums /\ work' = work /\ fresh' = fresh
  BY <1>1 DEF ApplyWrite
<1>3. /\ AllocationTypeOK /\ RowsNumbered /\ SeenInOrder /\ OneRowEach
      /\ FoundStands /\ RowsTrue
  BY DEF AllocationInv
<1>4. /\ mapper'[w] = Resting /\ \A v \in Mapper : v # w => mapper'[v] = mapper[v]
      /\ mapper' = [v \in Mapper |-> mapper'[v]] /\ Resting.pc = "idle"
  BY <1>2, <1>3, MapperSet DEF Resting
<1>5. ApplyWork(m)
  BY <1>1, <1>2, <1>3, <1>4 DEF AllocationTypeOK, ComputeWork
<1>6. /\ IsFiniteSet(R) /\ R \subseteq DimRow /\ Cardinality(R) = C + Cardinality(New(m))
      /\ \A x \in dims : Updated(m, x) \in R
      /\ \A r \in New(m) : NewRow(m, r) \in R
  BY <1>1, <1>2, <1>3, <1>5, RowsAfter, SMTT(30)
<1>7. \A y \in R :
        \/ \E x \in dims : /\ y = Updated(m, x) /\ y.id = x.id /\ y.record = x.record
                           /\ y.cost = x.cost /\ y.seen = x.seen /\ y.id >= 1 /\ y.id <= C
        \/ \E r \in New(m) : /\ y = NewRow(m, r) /\ y.id = C + Rank(m, r) /\ y.record = r
                             /\ y.cost = m.cost[r] /\ y.seen = m.seen
                             /\ y.assigned = m.assigned[r] /\ y.mapped = IsMapped(m.assigned[r])
                             /\ y.id > C /\ y.id <= C + Cardinality(New(m))
  <2>1. \A y \in R : (\E x \in dims : WrittenRow(m, y, x)) \/ \E r \in New(m) : InsertedRow(m, y, r)
    BY <1>2, <1>3, <1>5, RowKinds
  <2> QED BY <1>1, <2>1 DEF WrittenRow, InsertedRow
<1>8. C \in Nat /\ Cardinality(New(m)) \in Nat /\ Cardinality(R) >= C
  <2>1. C \in Nat /\ Cardinality(New(m)) \in Nat
    BY <1>1, <1>3, <1>5, DimsAre, RankIs
  <2> QED BY <1>6, <2>1
<1>9. /\ \A x \in dims : x.id \in Nat
      /\ \A r, q \in New(m) : Rank(m, r) = Rank(m, q) => r = q
      /\ \A r \in New(m) : Rank(m, r) \in Nat
  BY <1>3, <1>5, DimsAre, RankIs
<1>10. AllocationTypeOK'
  <2>1. \A v \in Mapper : mapper'[v] = Resting \/ ApplyWork(mapper'[v]) \/ ComputeWork(mapper'[v])
    BY <1>3, <1>4 DEF AllocationTypeOK
  <2>2. beside' \in BOOLEAN /\ settled' \in BOOLEAN
    BY <1>2
  <2>3. SumsApart(sums)'
    BY <1>2, <1>3 DEF AllocationTypeOK, SumsApart
  <2> QED BY <1>1, <1>2, <1>3, <1>4, <1>6, <2>1, <2>2, <2>3 DEF AllocationTypeOK
<1>11. RowsNumbered'
  <2>1. \A y \in R : y.id >= 1 /\ y.id <= Cardinality(R)
    <3> SUFFICES ASSUME NEW y \in R PROVE y.id >= 1 /\ y.id <= Cardinality(R)
      OBVIOUS
    <3>1. y.id \in Nat
      BY <1>6 DEF DimRow
    <3> QED BY <1>6, <1>7, <1>8, <3>1
  <2>2. ASSUME NEW y \in R, NEW z \in R, y.id = z.id PROVE y = z
    <3>1. CASE y.id <= C
      <4>1. y.id \in Nat
        BY <1>6 DEF DimRow
      <4>2. ~(y.id > C) /\ ~(z.id > C)
        BY <1>8, <2>2, <3>1, <4>1
      <4>3. PICK x \in dims : y = Updated(m, x) /\ y.id = x.id
        BY <1>7, <4>2
      <4>4. PICK u \in dims : z = Updated(m, u) /\ z.id = u.id
        BY <1>7, <4>2
      <4>5. x = u
        BY <1>3, <2>2, <4>3, <4>4 DEF RowsNumbered
      <4> QED BY <4>3, <4>4, <4>5
    <3>2. CASE ~(y.id <= C)
      <4>1. PICK r \in New(m) : y = NewRow(m, r) /\ y.id = C + Rank(m, r)
        BY <1>7, <3>2
      <4>2. PICK q \in New(m) : z = NewRow(m, q) /\ z.id = C + Rank(m, q)
        BY <1>7, <2>2, <3>2
      <4>3. r = q
        BY <1>8, <1>9, <2>2, <4>1, <4>2
      <4> QED BY <4>1, <4>2, <4>3
    <3> QED BY <3>1, <3>2
  <2> QED BY <1>1, <2>1, <2>2 DEF RowsNumbered
<1>12. SeenInOrder'
  <2> SUFFICES ASSUME NEW v \in Mapper, mapper'[v].pc = "apply"
               PROVE  /\ mapper'[v].seen <= Cardinality(R)
                      /\ \A y \in R :
                           y.record \in DOMAIN mapper'[v].found /\ mapper'[v].found[y.record] = {} =>
                              y.id > mapper'[v].seen
    BY <1>1 DEF SeenInOrder
  <2>1. PICK k : k = mapper[v]
    OBVIOUS
  <2>2. mapper'[v] = k /\ k.pc = "apply"
    BY <1>4, <2>1
  <2>3. k.seen \in Nat
    BY <1>3, <1>4, <2>1, <2>2 DEF AllocationTypeOK, ApplyWork, ComputeWork
  <2>4. /\ k.seen <= C
        /\ \A x \in dims : x.record \in DOMAIN k.found /\ k.found[x.record] = {} => x.id > k.seen
    BY <1>1, <1>3, <2>1, <2>2 DEF SeenInOrder
  <2>5. ASSUME NEW y \in R, y.record \in DOMAIN k.found, k.found[y.record] = {}
        PROVE  y.id > k.seen
    <3>1. y.id \in Nat
      BY <1>6 DEF DimRow
    <3> QED BY <1>7, <1>8, <2>3, <2>4, <2>5, <3>1
  <2>6. k.seen <= Cardinality(R)
    BY <1>6, <1>8, <2>3, <2>4
  <2> QED BY <2>2, <2>5, <2>6
<1>13. \A r \in New(m) : r \in DOMAIN m.found /\ m.found[r] = {}
  BY <1>5 DEF New, ApplyWork
<1>14. OneRowEach'
  <2> SUFFICES ASSUME NEW y \in R, NEW z \in R, y.record = z.record, y.id < z.id
               PROVE  z.seen < y.id
    BY <1>1 DEF OneRowEach
  <2>1. y.id \in Nat /\ z.id \in Nat
    BY <1>6 DEF DimRow
  <2>2. CASE \E x \in dims : z.id = x.id /\ z.record = x.record /\ z.seen = x.seen /\ z.id <= C
    <3>1. PICK x \in dims : z.id = x.id /\ z.record = x.record /\ z.seen = x.seen /\ z.id <= C
      BY <2>2
    <3>2. ~(y.id > C)
      BY <1>8, <2>1, <3>1
    <3>3. PICK u \in dims : y.id = u.id /\ y.record = u.record
      BY <1>7, <3>2
    <3> QED BY <1>3, <3>1, <3>3 DEF OneRowEach
  <2>3. CASE \E r \in New(m) : z.record = r /\ z.seen = m.seen /\ z.id = C + Rank(m, r)
    <3>1. PICK r \in New(m) : z.record = r /\ z.seen = m.seen /\ z.id = C + Rank(m, r)
      BY <2>3
    <3>2. CASE \E u \in dims : y.id = u.id /\ y.record = u.record
      <4>1. PICK u \in dims : y.id = u.id /\ y.record = u.record
        BY <3>2
      <4>2. u.record \in DOMAIN m.found /\ m.found[u.record] = {}
        BY <1>13, <3>1, <4>1
      <4>3. u.id > m.seen
        BY <1>1, <1>2, <1>3, <4>2 DEF SeenInOrder
      <4>4. m.seen \in Nat
        BY <1>5 DEF ApplyWork
      <4> QED BY <2>1, <3>1, <4>1, <4>3, <4>4
    <3>3. CASE \E q \in New(m) : y.record = q /\ y.id = C + Rank(m, q)
      <4>1. y.id = z.id
        BY <3>1, <3>3
      <4> QED BY <2>1, <4>1
    <3> QED BY <1>7, <3>2, <3>3
  <2> QED BY <1>7, <2>2, <2>3
<1>15. ~beside' =>
         /\ ~beside /\ \A v \in Mapper : mapper'[v].pc # "apply"
         /\ \A r \in DOMAIN m.found : m.found[r] = Found(r)
  BY <1>1, <1>2, <1>3, <1>4 DEF FoundStands
<1>16. FoundStands'
  <2> SUFFICES ASSUME ~beside', NEW y \in R
               PROVE  y.mapped = IsMapped(y.assigned)
    BY <1>1, <1>15 DEF FoundStands, IsMapped
  <2>1. CASE \E r \in New(m) : y.assigned = m.assigned[r] /\ y.mapped = IsMapped(m.assigned[r])
    BY <2>1
  <2>2. CASE \E x \in dims : y = Updated(m, x)
    <3>1. PICK x \in dims : y = Updated(m, x)
      BY <2>2
    <3>2. x.mapped = IsMapped(x.assigned) /\ x \in DimRow
      BY <1>3, <1>15 DEF FoundStands, AllocationTypeOK
    <3>3. CASE Updated(m, x) = x
      BY <3>1, <3>2, <3>3
    <3>4. ASSUME NEW r \in DOMAIN m.found, NEW o \in m.found[r], o.id = x.id,
                 m.assigned[r] \in [Dimensions -> DimValue],
                 Updated(m, x) = Renewed(x, o, m.assigned[r])
          PROVE  y.mapped = IsMapped(y.assigned)
      <4>1. o \in dims
        BY <1>15, <3>4, FoundIn
      <4>2. o = x
        BY <1>3, <3>4, <4>1 DEF RowsNumbered
      <4>3. y.assigned = m.assigned[r] /\ y.mapped = IsMapped(m.assigned[r])
        BY <3>1, <3>2, <3>4, <4>2, RenewedIs
      <4> QED BY <4>3
    <3> QED BY <1>5, <3>2, <3>3, <3>4, UpdatedIs
  <2> QED BY <1>7, <2>1, <2>2
<1>17. RowsTrue'
  <2>1. ASSUME fresh, ~beside'
        PROVE  /\ \A y \in R : y.record \in DOMAIN records /\ y.cost = records[y.record].cost
               /\ \A y, z \in R : y.record = z.record => y = z
               /\ \A r \in DOMAIN records : \E y \in R : y.record = r
    <3>1. /\ ~beside
          /\ \A x \in dims : x.record \in DOMAIN records /\ x.cost = records[x.record].cost
          /\ \A x, u \in dims : x.record = u.record => x = u
          /\ DOMAIN m.assigned = DOMAIN records
          /\ \A r \in DOMAIN records : m.cost[r] = records[r].cost
          /\ DOMAIN m.found = DOMAIN records
          /\ \A r \in DOMAIN records : m.found[r] = Found(r)
      BY <1>1, <1>2, <1>3, <1>5, <1>15, <2>1 DEF RowsTrue, ApplyWork
    <3>2. \A y \in R : y.record \in DOMAIN records /\ y.cost = records[y.record].cost
      BY <1>7, <1>13, <3>1
    <3>3. \A x \in dims : x.record \notin New(m)
      BY <1>3, <1>13, <3>1, FoundNone
    <3>4. ASSUME NEW y \in R, NEW z \in R, y.record = z.record PROVE y = z
      <4>1. CASE y.record \in New(m)
        <5>1. y = NewRow(m, y.record) /\ z = NewRow(m, z.record)
          BY <1>7, <3>3, <3>4, <4>1
        <5> QED BY <3>4, <5>1
      <4>2. CASE y.record \notin New(m)
        <5>1. PICK x \in dims : y = Updated(m, x) /\ y.record = x.record
          BY <1>7, <4>2
        <5>2. PICK u \in dims : z = Updated(m, u) /\ z.record = u.record
          BY <1>7, <3>4, <4>2
        <5>3. x = u
          BY <3>1, <3>4, <5>1, <5>2
        <5> QED BY <5>1, <5>2, <5>3
      <4> QED BY <4>1, <4>2
    <3>5. ASSUME NEW r \in DOMAIN records PROVE \E y \in R : y.record = r
      <4>1. CASE m.found[r] = {}
        <5>1. r \in New(m)
          BY <3>1, <4>1 DEF New
        <5>2. NewRow(m, r).record = r
          BY DEF NewRow
        <5> QED BY <1>6, <5>1, <5>2
      <4>2. CASE m.found[r] # {}
        <5>1. PICK o \in dims : o.record = r
          BY <3>1, <4>2, FoundIn
        <5>2. o \in DimRow
          BY <1>3 DEF AllocationTypeOK
        <5>3. SameRow(Updated(m, o), o)
          BY <1>5, <5>2, UpdatedIs
        <5>4. Updated(m, o).record = r
          BY <5>1, <5>3 DEF SameRow
        <5> QED BY <1>6, <5>4
      <4> QED BY <4>1, <4>2
    <3> QED BY <3>2, <3>4, <3>5
  <2>2. ASSUME fresh, NEW v \in Mapper, mapper'[v].pc = "apply"
        PROVE  /\ DOMAIN mapper'[v].assigned = DOMAIN records
               /\ \A r \in DOMAIN records : mapper'[v].cost[r] = records[r].cost
    BY <1>3, <1>4, <2>2 DEF RowsTrue
  <2> QED BY <1>1, <1>2, <2>1, <2>2 DEF RowsTrue
<1>18. SumsTrue'
  BY <1>2, <1>4 DEF SumsTrue
<1> QED BY <1>10, <1>11, <1>12, <1>14, <1>16, <1>17, <1>18 DEF AllocationInv

-----------------------------------------------------------------------------
(* The theorem.                                                            *)

\* A rule with a lower priority number than all others of its dimension gives the
\* value of every record that it fits.
LEMMA FirstRuleStep ==
    ASSUME AllocationInv, NEW w \in Mapper, NEW r \in DOMAIN records, NEW i \in Active,
           ApplyRead(w), Fits(i, records[r].tags),
           \A j \in Active \ {i} :
              rules[j].dimension = rules[i].dimension => rules[i].priority < rules[j].priority
    PROVE  mapper'[w].assigned[r][rules[i].dimension] = rules[i].mapped
<1>1. PICK tags, d : tags = records[r].tags /\ d = rules[i].dimension
  OBVIOUS
<1>2. rules \in Seq(RuleRow) /\ AllocationTypeOK
  BY DEF AllocationInv, AllocationTypeOK
<1>3. mapper'[w].assigned[r] = Assigned(tags)
  BY <1>1, <1>2 DEF ApplyRead, AllocationTypeOK
<1>4. PICK fits : fits = {j \in Active : rules[j].dimension = d /\ Fits(j, tags)}
  OBVIOUS
<1>5. i \in fits /\ fits \subseteq Active /\ d \in Dimensions
  BY <1>1, <1>2, <1>4, RuleOf
<1>6. PICK k : k = CHOOSE j \in fits : \A l \in fits \ {j} : Precedes(j, l)
  OBVIOUS
<1>7. k \in fits /\ \A l \in fits \ {k} : Precedes(k, l)
  <2>1. \E j \in fits : \A l \in fits \ {j} : Precedes(j, l)
    BY <1>2, <1>5, FirstRule
  <2> QED BY <1>6, <2>1
<1>8. Assigned(tags)[d] = rules[k].mapped
  BY <1>4, <1>5, <1>6 DEF Assigned
<1>9. k = i
  <2> SUFFICES ASSUME k # i PROVE FALSE
    OBVIOUS
  <2>1. Precedes(k, i)
    BY <1>5, <1>7
  <2>2. k \in Active /\ rules[k].dimension = rules[i].dimension
    BY <1>1, <1>4, <1>7
  <2>3. rules[i].priority < rules[k].priority
    BY <2>2
  <2>4. rules[i].priority \in Int /\ rules[k].priority \in Int
    BY <1>2, <2>2, RuleOf
  <2> QED BY <2>1, <2>3, <2>4 DEF Precedes
<1> QED BY <1>1, <1>3, <1>8, <1>9

LEMMA AllocationKept == AllocationInv /\ [AllocationNext]_allocationVars => AllocationInv'
<1> SUFFICES ASSUME AllocationInv, [AllocationNext]_allocationVars
             PROVE  AllocationInv'
  OBVIOUS
<1>1. ASSUME NEW f \in RuleForm, CreateRule(f) PROVE AllocationInv'
  <2>1. TRUE \in BOOLEAN
    OBVIOUS
  <2> QED BY <1>1, <2>1, RulesChange
<1>2. ASSUME NEW f \in RuleForm, NEW i \in 1..MaxRules, NEW active \in BOOLEAN,
             UpdateRule(i, f, active)
      PROVE  AllocationInv'
  BY <1>2, RulesChange
<1>3. ASSUME NEW i \in 1..MaxRules, DeleteRule(i) PROVE AllocationInv'
  BY <1>3, DeletedStep
<1>4. ASSUME NEW f \in Files, ImportFile(f) PROVE AllocationInv'
  BY <1>4, ImportStep
<1>5. ASSUME NEW w \in Mapper, ApplyRead(w) \/ ChargebackApplies(w) PROVE AllocationInv'
  BY <1>5, ApplyReadStep DEF ChargebackApplies
<1>6. ASSUME NEW w \in Mapper, ApplyWrite(w) PROVE AllocationInv'
  BY <1>6, ApplyWriteStep
<1>7. ASSUME NEW w \in Mapper, ComputeSums(w) PROVE AllocationInv'
  BY <1>7, ComputeStep
<1>8. ASSUME NEW w \in Mapper, WriteSums(w) PROVE AllocationInv'
  BY <1>8, WriteSumsStep
<1>9. ASSUME NEW w \in Mapper, MappingFails(w) PROVE AllocationInv'
  BY <1>9, MappingFailsStep
<1>10. CASE UNCHANGED allocationVars
  <2>1. /\ dims' = dims /\ records' = records /\ sums' = sums /\ mapper' = mapper
        /\ fresh' = fresh /\ beside' = beside /\ settled' = settled
        /\ rules' = rules /\ work' = work
    BY <1>10 DEF allocationVars
  <2>2. rules' \in Seq(RuleRow) /\ work' \in Nat
    BY <2>1 DEF AllocationInv, AllocationTypeOK
  <2> QED BY <2>1, <2>2, AllocationFrame
<1> QED BY <1>1, <1>2, <1>3, <1>4, <1>5, <1>6, <1>7, <1>8, <1>9, <1>10 DEF AllocationNext

\* The cost of an upload is allocated once: a second row of a record comes only of
\* applications that overlap, and as long as none do, chargeback, coverage, the
\* rows and the summaries agree about the cost of the records, and the rule of the
\* lowest priority number decides (_apply_mapping_rules, compute_period_summaries,
\* get_chargeback, get_allocation_coverage).
THEOREM CostsAllocatedHolds == AllocationSpec => CostsAllocated
<1>1. AllocationInv =>
        /\ OneRowEach /\ ViewsAgree /\ ChargedAsImported /\ TrendMatches
  BY ViewsFit, ImportedCharged, TotalsMatch DEF AllocationInv
<1> DEFINE Wins ==
      \A w \in Mapper, r \in DOMAIN records, i \in Active :
         /\ ApplyRead(w) /\ Fits(i, records[r].tags)
         /\ \A j \in Active \ {i} :
              rules[j].dimension = rules[i].dimension => rules[i].priority < rules[j].priority
         => mapper'[w].assigned[r][rules[i].dimension] = rules[i].mapped
<1>2. AllocationInv => Wins
  BY FirstRuleStep
<1>3. FirstRuleWins <=> [][Wins]_allocationVars
  BY DEF FirstRuleWins
<1> HIDE DEF Wins
<1> QED BY <1>1, <1>2, <1>3, AllocationInits, AllocationKept, PTL DEF AllocationSpec, CostsAllocated

-----------------------------------------------------------------------------
(* Container costs: ContainersAddUpHolds.                                  *)

ContainersTypeOK ==
    /\ bills \in [Vendor -> [BillFeed -> [BillService -> Nat]]]
    /\ IsFiniteSet(estate) /\ estate \subseteq LiveResource
    /\ ClusterTyped(cluster)

\* The image of a finite set is finite.
LEMMA ImageFinite ==
    ASSUME NEW S, IsFiniteSet(S), NEW f, NEW T, T = {f[x] : x \in S}
    PROVE  IsFiniteSet(T)
<1>1. PICK h : h = [x \in S |-> f[x]]
  OBVIOUS
<1>2. h \in Surjection(S, T)
  BY <1>1 DEF Surjection
<1> QED BY <1>2, FS_Surjection

\* The sums of a cluster are sums over functions.
LEMMA TeamSumIs ==
    ASSUME NEW c, NEW S, IsFiniteSet(S), NEW f, \A k \in S : f[k] = TeamCost(k, c)
    PROVE  MapThenSumSet(LAMBDA k : TeamCost(k, c), S) = SumOver(f, S)
<1> DEFINE Solves(g) ==
      g = [s \in SUBSET S |-> IF s = {} THEN 0 ELSE TeamCost(Picked(s), c) + g[s \ {Picked(s)}]]
<1>1. MapThenSumSet(LAMBDA k : TeamCost(k, c), S) = (CHOOSE g : Solves(g))[S]
  BY Zenon DEF MapThenSumSet, MapThenFoldSet, Picked
<1>2. ASSUME NEW g
      PROVE  Solves(g) <=> SumSolution(g, f, SUBSET S)
  <2>1. \A s \in SUBSET S :
          (IF s = {} THEN 0 ELSE TeamCost(Picked(s), c) + g[s \ {Picked(s)}]) = SumRule(f, g, s)
    BY PickedIn DEF SumRule
  <2> QED BY <2>1 DEF SumSolution
<1> HIDE DEF Solves
<1>3. PICK g : g = (CHOOSE k : Solves(k))
  OBVIOUS
<1>4. SumSolution(g, f, SUBSET S)
  BY <1>2, <1>3, SumSolvable
<1>5. g[S] = SumOver(f, S)
  BY <1>4, SumSolved
<1> QED BY <1>1, <1>3, <1>5, Zenon

LEMMA WorkloadSumIs ==
    ASSUME NEW c, NEW S, IsFiniteSet(S), NEW f, \A w \in S : f[w] = WorkloadCost(w, c)
    PROVE  MapThenSumSet(LAMBDA w : WorkloadCost(w, c), S) = SumOver(f, S)
<1> DEFINE Solves(g) ==
      g = [s \in SUBSET S |-> IF s = {} THEN 0 ELSE WorkloadCost(Picked(s), c) + g[s \ {Picked(s)}]]
<1>1. MapThenSumSet(LAMBDA w : WorkloadCost(w, c), S) = (CHOOSE g : Solves(g))[S]
  BY Zenon DEF MapThenSumSet, MapThenFoldSet, Picked
<1>2. ASSUME NEW g
      PROVE  Solves(g) <=> SumSolution(g, f, SUBSET S)
  <2>1. \A s \in SUBSET S :
          (IF s = {} THEN 0 ELSE WorkloadCost(Picked(s), c) + g[s \ {Picked(s)}]) = SumRule(f, g, s)
    BY PickedIn DEF SumRule
  <2> QED BY <2>1 DEF SumSolution
<1> HIDE DEF Solves
<1>3. PICK g : g = (CHOOSE k : Solves(k))
  OBVIOUS
<1>4. SumSolution(g, f, SUBSET S)
  BY <1>2, <1>3, SumSolvable
<1>5. g[S] = SumOver(f, S)
  BY <1>4, SumSolved
<1> QED BY <1>1, <1>3, <1>5, Zenon

LEMMA WeightSumIs ==
    ASSUME NEW S, IsFiniteSet(S), NEW f, \A w \in S : f[w] = WorkloadWeight(w)
    PROVE  MapThenSumSet(WorkloadWeight, S) = SumOver(f, S)
<1> DEFINE Solves(g) ==
      g = [s \in SUBSET S |-> IF s = {} THEN 0 ELSE WorkloadWeight(Picked(s)) + g[s \ {Picked(s)}]]
<1>1. MapThenSumSet(WorkloadWeight, S) = (CHOOSE g : Solves(g))[S]
  BY Zenon DEF MapThenSumSet, MapThenFoldSet, Picked
<1>2. ASSUME NEW g
      PROVE  Solves(g) <=> SumSolution(g, f, SUBSET S)
  <2>1. \A s \in SUBSET S :
          (IF s = {} THEN 0 ELSE WorkloadWeight(Picked(s)) + g[s \ {Picked(s)}]) = SumRule(f, g, s)
    BY PickedIn DEF SumRule
  <2> QED BY <2>1 DEF SumSolution
<1> HIDE DEF Solves
<1>3. PICK g : g = (CHOOSE k : Solves(k))
  OBVIOUS
<1>4. SumSolution(g, f, SUBSET S)
  BY <1>2, <1>3, SumSolvable
<1>5. g[S] = SumOver(f, S)
  BY <1>4, SumSolved
<1> QED BY <1>1, <1>3, <1>5, Zenon

-----------------------------------------------------------------------------
(* Rounding.                                                               *)

\* A rounded quotient misses by at most a half.
LEMMA RoundedIs ==
    ASSUME NEW a \in Nat, NEW b \in Nat \ {0}
    PROVE  /\ Rounded(a, b) \in Nat
           /\ 2 * b * Rounded(a, b) <= 2 * a + b /\ 2 * a <= 2 * b * Rounded(a, b) + b
<1>1. PICK q \in Nat, r \in Nat : q = a \div b /\ r = a % b /\ r < b /\ a = b * q + r
  BY Quotient
<1>2. Rounded(a, b) = IF 2 * r > b \/ (2 * r = b /\ q % 2 = 1) THEN q + 1 ELSE q
  BY <1>1 DEF Rounded
<1>3. PICK R : R = Rounded(a, b)
  OBVIOUS
<1>4. CASE 2 * r > b \/ (2 * r = b /\ q % 2 = 1)
  <2>1. R = q + 1 /\ 2 * r >= b
    BY <1>1, <1>2, <1>3, <1>4
  <2>2. 2 * b * R = 2 * (b * q) + 2 * b
    BY <2>1
  <2> QED BY <1>1, <1>3, <2>1, <2>2
<1>5. CASE ~(2 * r > b \/ (2 * r = b /\ q % 2 = 1))
  <2>1. R = q /\ 2 * r <= b
    BY <1>1, <1>2, <1>3, <1>5
  <2>2. 2 * b * R = 2 * (b * q)
    BY <2>1
  <2> QED BY <1>1, <1>3, <2>1, <2>2
<1> QED BY <1>4, <1>5

-----------------------------------------------------------------------------
(* What the namespaces cost.                                               *)

LEMMA ShareType ==
    ASSUME NEW names, IsFiniteSet(names), NEW n \in names
    PROVE  /\ ShareOf(n, names) \in Nat
           /\ n \notin Reserved => /\ Cardinality(names \ Reserved) \in Nat \ {0}
                                   /\ ShareOf(n, names) = Rounded(750, Cardinality(names \ Reserved))
<1>1. IsFiniteSet(names \ Reserved)
  BY FS_Subset
<1>2. CASE n \in Reserved
  BY <1>2 DEF ShareOf
<1>3. CASE n \notin Reserved
  <2>1. n # "kube-system"
    BY <1>3 DEF Reserved
  <2>2. n \in names \ Reserved
    BY <1>3
  <2>3. PICK k : k = Cardinality(names \ Reserved)
    OBVIOUS
  <2>4. k \in Nat /\ k # 0
    <3>1. k \in Nat
      BY <1>1, <2>3, FS_CardinalityType
    <3>2. names \ Reserved # {}
      BY <2>2
    <3> QED BY <1>1, <2>3, <3>1, <3>2, FS_EmptySet
  <2>5. Rounded(750, k) \in Nat
    BY <2>4, RoundedIs
  <2>6. ShareOf(n, names) = Rounded(750, k)
    BY <1>3, <2>1, <2>3 DEF ShareOf
  <2> QED BY <1>3, <2>3, <2>4, <2>5, <2>6
<1> QED BY <1>2, <1>3

LEMMA ShareNat ==
    ASSUME NEW names, IsFiniteSet(names)
    PROVE  \A n \in names : ShareOf(n, names) \in Nat
BY ShareType

\* The shares of a cluster's namespaces are a thousand thousandths, but for the
\* rounding of each that shares what is left.
LEMMA SharesWithin ==
    ASSUME NEW names, IsFiniteSet(names), NEW f, \A n \in names : f[n] = ShareOf(n, names),
           Cardinality(names \cap (Reserved \ {"kube-system"})) <= 1
    PROVE  /\ SumOver(f, names) \in Nat
           /\ 2 * SumOver(f, names) <= 2000 + Cardinality(names \ Reserved)
<1>1. PICK A, B, C : /\ A = names \cap {"kube-system"}
                     /\ B = names \cap (Reserved \ {"kube-system"})
                     /\ C = names \ Reserved
  OBVIOUS
<1>2. IsFiniteSet(A) /\ IsFiniteSet(B) /\ IsFiniteSet(C) /\ IsFiniteSet(A \cup B)
  <2>1. A \cup B \subseteq names /\ A \subseteq names /\ B \subseteq names /\ C \subseteq names
    BY <1>1
  <2> QED BY <2>1, FS_Subset
<1>3. names = (A \cup B) \cup C /\ A \cap B = {} /\ (A \cup B) \cap C = {}
  BY <1>1 DEF Reserved
<1>4. ASSUME NEW n \in names PROVE f[n] \in Nat
  <2>1. ShareOf(n, names) \in Nat
    BY ShareNat
  <2> QED BY <2>1
<1>5. SumOver(f, names) = SumOver(f, A) + SumOver(f, B) + SumOver(f, C)
  <2>1. \A n \in (A \cup B) \cup C : f[n] \in Int
    BY <1>3, <1>4
  <2>2. SumOver(f, (A \cup B) \cup C) = SumOver(f, A \cup B) + SumOver(f, C)
    BY <1>2, <1>3, <2>1, SumUnion
  <2>3. SumOver(f, A \cup B) = SumOver(f, A) + SumOver(f, B)
    BY <1>2, <1>3, <2>1, SumUnion
  <2> QED BY <1>3, <2>2, <2>3
<1>6. SumOver(f, A) \in Nat /\ SumOver(f, A) <= 100
  <2>1. CASE "kube-system" \in names
    <3>1. A = {"kube-system"}
      BY <1>1, <2>1
    <3>2. f["kube-system"] = 100
      BY <2>1 DEF ShareOf
    <3>3. SumOver(f, A) = 100
      BY <3>1, <3>2, SumSingle
    <3> QED BY <3>3
  <2>2. CASE "kube-system" \notin names
    <3>1. A = {}
      BY <1>1, <2>2
    <3> QED BY <3>1, SumEmpty
  <2> QED BY <2>1, <2>2
<1>7. SumOver(f, B) \in Nat /\ SumOver(f, B) <= 150
  <2>1. \A n \in B : f[n] = 150
    <3> SUFFICES ASSUME NEW n \in B PROVE f[n] = 150
      OBVIOUS
    <3>1. n \in names /\ n \in Reserved /\ n # "kube-system"
      BY <1>1
    <3> QED BY <3>1 DEF ShareOf
  <2>2. SumOver(f, B) = 150 * Cardinality(B)
    BY <1>2, <2>1, SumConstant
  <2>3. Cardinality(B) \in Nat /\ Cardinality(B) <= 1
    BY <1>1, <1>2, FS_CardinalityType
  <2> QED BY <2>2, <2>3
<1>8. SumOver(f, C) \in Nat /\ 2 * SumOver(f, C) <= 1500 + Cardinality(C)
  <2>1. CASE C = {}
    <3>1. Cardinality(C) = 0 /\ SumOver(f, C) = 0
      BY <2>1, FS_EmptySet, SumEmpty
    <3> QED BY <3>1
  <2>2. CASE C # {}
    <3>1. PICK k, R : k = Cardinality(C) /\ R = Rounded(750, k)
      OBVIOUS
    <3>2. k \in Nat \ {0} /\ \A n \in C : f[n] = R
      BY <1>1, <2>2, <3>1, ShareType
    <3>3. R \in Nat /\ 2 * k * R <= 2 * 750 + k
      <4>1. PICK m \in Nat : m = 750
        OBVIOUS
      <4>2. Rounded(m, k) \in Nat /\ 2 * k * Rounded(m, k) <= 2 * m + k
        BY <3>2, RoundedIs
      <4> QED BY <3>1, <4>1, <4>2
    <3>4. SumOver(f, C) = R * k
      BY <1>2, <3>1, <3>2, <3>3, SumConstant
    <3>5. 2 * k * R = 2 * (R * k) /\ R * k \in Nat
      BY <3>2, <3>3
    <3> QED BY <3>1, <3>2, <3>3, <3>4, <3>5
  <2> QED BY <2>1, <2>2
<1>9. Cardinality(C) = Cardinality(names \ Reserved) /\ Cardinality(C) \in Nat
  BY <1>1, <1>2, FS_CardinalityType
<1> QED BY <1>5, <1>6, <1>7, <1>8, <1>9

\* Estimated namespaces: their costs are numbers, each the rounded share.
LEMMA NamespaceCostType ==
    ASSUME NEW c, ClusterTyped(c)
    PROVE  /\ IsFiniteSet(DOMAIN NamespaceCost(c))
           /\ \A n \in DOMAIN NamespaceCost(c) : NamespaceCost(c)[n] \in Nat
           /\ SumOver(NamespaceCost(c), DOMAIN NamespaceCost(c)) \in Nat
           /\ IsFiniteSet(DOMAIN NamespaceCost(c)) =>
                Cardinality(DOMAIN NamespaceCost(c)) \in Nat
<1>1. IsFiniteSet(DOMAIN NamespaceCost(c))
  BY DEF NamespaceCost, ClusterTyped
<1>2. \A n \in DOMAIN NamespaceCost(c) : NamespaceCost(c)[n] \in Nat
  <2>1. CASE c.measured # <<>>
    BY <2>1 DEF NamespaceCost, ClusterTyped
  <2>2. CASE c.measured = <<>>
    <3> SUFFICES ASSUME NEW n \in c.names
                 PROVE  Rounded(c.total * ShareOf(n, c.names), 1000) \in Nat
      BY <2>2 DEF NamespaceCost
    <3>1. ShareOf(n, c.names) \in Nat /\ c.total \in Nat
      BY ShareType DEF ClusterTyped
    <3>2. c.total * ShareOf(n, c.names) \in Nat
      BY <3>1
    <3> QED BY <3>2, RoundedIs
  <2> QED BY <2>1, <2>2
<1>3. SumOver(NamespaceCost(c), DOMAIN NamespaceCost(c)) \in Nat
  BY <1>1, <1>2, SumType
<1> QED BY <1>1, <1>2, <1>3, FS_CardinalityType

LEMMA NamespacesFit == ASSUME ClusterTyped(cluster) PROVE NamespacesWithin
<1> SUFFICES ASSUME Cardinality(cluster.names \cap (Reserved \ {"kube-system"})) <= 1
    PROVE 2000 * MapThenSumSet(LAMBDA n : NamespaceCost(cluster)[n], DOMAIN NamespaceCost(cluster))
          <= (2000 + Cardinality(cluster.names \ Reserved)) * ClusterTotal(cluster)
             + 1000 * Cardinality(DOMAIN NamespaceCost(cluster))
  BY DEF NamespacesWithin
<1>1. PICK h, D, d, k, T, u :
        /\ h = NamespaceCost(cluster) /\ D = DOMAIN NamespaceCost(cluster)
        /\ d = Cardinality(D) /\ k = Cardinality(cluster.names \ Reserved)
        /\ T = ClusterTotal(cluster) /\ u = SumOver(h, D)
  OBVIOUS
<1>2. MapThenSumSet(LAMBDA n : NamespaceCost(cluster)[n], DOMAIN NamespaceCost(cluster)) = u
  <2>1. MapThenSumSet(LAMBDA n : NamespaceCost(cluster)[n], DOMAIN NamespaceCost(cluster))
        = SumOver(NamespaceCost(cluster), DOMAIN NamespaceCost(cluster))
    BY Zenon DEF SumOver
  <2> QED BY <1>1, <2>1, Zenon
<1>3. IsFiniteSet(D) /\ d \in Nat /\ u \in Nat /\ \A n \in D : h[n] \in Nat
  BY <1>1, NamespaceCostType
<1>4. k \in Nat
  <2>1. IsFiniteSet(cluster.names \ Reserved)
    BY FS_Subset DEF ClusterTyped
  <2> QED BY <1>1, <2>1, FS_CardinalityType
<1> SUFFICES 2000 * u <= (2000 + k) * T + 1000 * d
  BY <1>1, <1>2
<1>5. CASE cluster.measured # <<>>
  <2>1. h = cluster.measured
    BY <1>1, <1>5 DEF NamespaceCost
  <2>2. T = MapThenSumSet(LAMBDA n : cluster.measured[n], DOMAIN cluster.measured)
    BY <1>1, <1>5 DEF ClusterTotal
  <2>3. MapThenSumSet(LAMBDA n : cluster.measured[n], DOMAIN cluster.measured)
        = SumOver(cluster.measured, DOMAIN cluster.measured)
    BY Zenon DEF SumOver
  <2>4. T = u
    BY <1>1, <2>1, <2>2, <2>3
  <2>5. (2000 + k) * u = 2000 * u + k * u /\ k * u \in Nat
    BY <1>3, <1>4
  <2> QED BY <1>3, <2>4, <2>5
<1>6. CASE cluster.measured = <<>>
  <2>1. T = cluster.total /\ T \in Nat
    BY <1>1, <1>6 DEF ClusterTotal, ClusterTyped
  <2>2. D = cluster.names /\ \A n \in D : h[n] = Rounded(T * ShareOf(n, D), 1000)
    BY <1>1, <1>6, <2>1 DEF NamespaceCost
  <2>3. PICK f, F : f = [n \in D |-> ShareOf(n, D)] /\ F = SumOver(f, D)
    OBVIOUS
  <2>4. F \in Nat /\ 2 * F <= 2000 + k
    BY <1>1, <1>3, <2>2, <2>3, SharesWithin
  <2>5. ASSUME NEW n \in D
        PROVE  /\ f[n] \in Int /\ h[n] \in Int
               /\ 2 * 1000 * h[n] <= 2 * T * f[n] + 1000
               /\ 2 * T * f[n] <= 2 * 1000 * h[n] + 1000
    <3>1. f[n] = ShareOf(n, D) /\ f[n] \in Nat
      <4>1. f[n] = ShareOf(n, D)
        BY <2>3
      <4>2. ShareOf(n, D) \in Nat
        BY <1>3, ShareType
      <4> QED BY <4>1, <4>2
    <3>2. PICK p : p = T * f[n]
      OBVIOUS
    <3>3. p \in Nat /\ 2 * T * f[n] = 2 * p
      BY <2>1, <3>1, <3>2
    <3>4. h[n] = Rounded(p, 1000)
      BY <2>2, <3>1, <3>2
    <3>5. PICK m \in Nat \ {0} : m = 1000
      OBVIOUS
    <3>6. 2 * m * Rounded(p, m) <= 2 * p + m /\ 2 * p <= 2 * m * Rounded(p, m) + m
      BY <3>3, RoundedIs
    <3> QED BY <1>3, <3>1, <3>3, <3>4, <3>5, <3>6
  <2>6. 2 * 1000 * u <= 2 * T * F + 1000 * d
    <3>1. 1000 \in Nat
      OBVIOUS
    <3> QED BY <1>1, <1>3, <2>1, <2>3, <2>5, <3>1, SumNearest
  <2>7. T * (2 * F) <= T * (2000 + k)
    BY <1>4, <2>1, <2>4, Multiplied
  <2>8. 2 * T * F = T * (2 * F) /\ T * (2000 + k) = (2000 + k) * T
    BY <1>4, <2>1, <2>4
  <2>9. T * (2 * F) \in Int /\ (2000 + k) * T \in Int
    BY <1>4, <2>1, <2>4
  <2> QED BY <1>3, <2>6, <2>7, <2>8, <2>9
<1> QED BY <1>5, <1>6

-----------------------------------------------------------------------------
(* What the teams are charged.                                             *)

\* A workload of a namespace that has a cost gets its weight's part of it.
LEMMA WorkloadCostIs ==
    ASSUME NEW c, ClusterTyped(c), NEW w \in c.workloads,
           NEW wt, \A x \in c.workloads : wt[x] = WorkloadWeight(x),
           NEW X, X = SumOver(wt, Beside(w, c))
    PROVE  /\ WorkloadWeight(w) \in Nat \ {0}
           /\ X \in Nat \ {0}
           /\ WorkloadCost(w, c) \in Nat
           /\ w.namespace \notin DOMAIN NamespaceCost(c) => WorkloadCost(w, c) = 0
           /\ w.namespace \in DOMAIN NamespaceCost(c) =>
                WorkloadCost(w, c) = Rounded(NamespaceCost(c)[w.namespace] * WorkloadWeight(w), X)
<1>1. IsFiniteSet(c.workloads) /\ \A x \in c.workloads : WorkloadWeight(x) \in Nat \ {0}
  <2>1. c.workloads \subseteq WorkloadForm /\ IsFiniteSet(c.workloads)
    BY DEF ClusterTyped
  <2>2. ASSUME NEW x \in WorkloadForm PROVE WorkloadWeight(x) \in Nat \ {0}
    <3>1. PICK p \in Nat \ {0}, q \in Nat \ {0} : p = x.size /\ q = x.replicas
      BY DEF WorkloadForm
    <3>2. p * q \in Nat \ {0}
      OBVIOUS
    <3> QED BY <3>1, <3>2 DEF WorkloadWeight
  <2> QED BY <2>1, <2>2
<1>2. PICK G : G = Beside(w, c)
  OBVIOUS
<1>3. IsFiniteSet(G) /\ w \in G /\ G \subseteq c.workloads
  <2>1. w \in G /\ G \subseteq c.workloads
    BY <1>2 DEF Beside
  <2> QED BY <1>1, <2>1, FS_Subset
<1>4. \A x \in G : wt[x] = WorkloadWeight(x) /\ wt[x] \in Nat
  BY <1>1, <1>3
<1>5. X \in Nat \ {0}
  <2>1. X = wt[w] + SumOver(wt, G \ {w})
    BY <1>2, <1>3, <1>4, SumTake
  <2>2. IsFiniteSet(G \ {w}) /\ \A x \in G \ {w} : wt[x] \in Nat
    BY <1>3, <1>4, FS_Subset
  <2>3. SumOver(wt, G \ {w}) \in Nat
    BY <2>2, SumType
  <2>4. wt[w] \in Nat \ {0}
    BY <1>1
  <2> QED BY <2>1, <2>3, <2>4
<1>6. MapThenSumSet(WorkloadWeight, Beside(w, c)) = X
  BY <1>2, <1>3, <1>4, WeightSumIs
<1>7. PICK k : k = NamespaceCost(c)[w.namespace] * WorkloadWeight(w)
  OBVIOUS
<1>8. CASE w.namespace \in DOMAIN NamespaceCost(c)
  <2>1. WorkloadCost(w, c) = Rounded(k, X)
    BY <1>6, <1>7, <1>8 DEF WorkloadCost
  <2>2. k \in Nat
    <3>1. PICK p \in Nat, q \in Nat : p = NamespaceCost(c)[w.namespace] /\ q = WorkloadWeight(w)
      BY <1>1, <1>8, NamespaceCostType
    <3> QED BY <1>7, <3>1
  <2>3. Rounded(k, X) \in Nat
    BY <1>5, <2>2, RoundedIs
  <2> QED BY <1>1, <1>5, <1>7, <1>8, <2>1, <2>3
<1>9. CASE w.namespace \notin DOMAIN NamespaceCost(c)
  <2>1. WorkloadCost(w, c) = 0
    BY <1>9 DEF WorkloadCost
  <2> QED BY <1>1, <1>5, <1>9, <2>1
<1> QED BY <1>8, <1>9

\* The workloads of a namespace are charged what it costs, but for half a cent of
\* each of them.
LEMMA NamespaceCharged ==
    ASSUME NEW c, ClusterTyped(c), NEW wc, \A x \in c.workloads : wc[x] = WorkloadCost(x, c),
           NEW n \in DOMAIN NamespaceCost(c),
           NEW G, G = {x \in c.workloads : x.namespace = n}, G # {}
    PROVE  /\ 2 * SumOver(wc, G) <= 2 * NamespaceCost(c)[n] + Cardinality(G)
           /\ 2 * NamespaceCost(c)[n] <= 2 * SumOver(wc, G) + Cardinality(G)
<1>1. PICK wt, X, a : /\ wt = [x \in c.workloads |-> WorkloadWeight(x)]
                      /\ X = SumOver(wt, G)
                      /\ a = NamespaceCost(c)[n]
  OBVIOUS
<1>2. IsFiniteSet(G) /\ G \subseteq c.workloads /\ IsFiniteSet(c.workloads)
  BY FS_Subset DEF ClusterTyped
<1>3. \A x \in c.workloads : wt[x] = WorkloadWeight(x)
  BY <1>1
<1>4. a \in Nat
  BY <1>1, NamespaceCostType
<1>5. ASSUME NEW x \in G
      PROVE  /\ X \in Nat \ {0} /\ wt[x] \in Int /\ wc[x] \in Int
             /\ 2 * X * wc[x] <= 2 * a * wt[x] + X /\ 2 * a * wt[x] <= 2 * X * wc[x] + X
  <2>1. x \in c.workloads /\ x.namespace = n /\ Beside(x, c) = G
    BY DEF Beside
  <2>2. X = SumOver(wt, Beside(x, c))
    BY <1>1, <2>1
  <2>3. PICK p : p = a * WorkloadWeight(x)
    OBVIOUS
  <2>4. /\ WorkloadWeight(x) \in Nat \ {0} /\ X \in Nat \ {0} /\ WorkloadCost(x, c) \in Nat
        /\ x.namespace \in DOMAIN NamespaceCost(c) =>
             WorkloadCost(x, c) = Rounded(NamespaceCost(c)[x.namespace] * WorkloadWeight(x), X)
    BY <1>3, <2>1, <2>2, WorkloadCostIs
  <2>5. WorkloadCost(x, c) = Rounded(p, X)
    BY <1>1, <2>1, <2>3, <2>4
  <2>6. p \in Nat /\ 2 * a * WorkloadWeight(x) = 2 * p
    BY <1>4, <2>3, <2>4
  <2>7. 2 * X * Rounded(p, X) <= 2 * p + X /\ 2 * p <= 2 * X * Rounded(p, X) + X
    BY <2>4, <2>6, RoundedIs
  <2>8. wc[x] = WorkloadCost(x, c) /\ wt[x] = WorkloadWeight(x)
    BY <1>3, <2>1
  <2> QED BY <2>4, <2>5, <2>6, <2>7, <2>8
<1>6. X \in Nat \ {0}
  BY <1>5
<1>7. PICK s, k : s = SumOver(wc, G) /\ k = Cardinality(G)
  OBVIOUS
<1>8. /\ 2 * X * s <= 2 * a * X + X * k
      /\ 2 * a * X <= 2 * X * s + X * k
  BY <1>1, <1>2, <1>4, <1>5, <1>6, <1>7, SumNearest
<1>9. s \in Int /\ k \in Nat
  BY <1>2, <1>5, <1>7, SumType, FS_CardinalityType
<1>10. /\ X * (2 * s) = 2 * X * s /\ X * (2 * a) = 2 * a * X
       /\ X * (2 * a + k) = 2 * a * X + X * k
       /\ X * (2 * s + k) = 2 * X * s + X * k
  BY <1>4, <1>6, <1>9
<1>11. X * (2 * s) <= X * (2 * a + k) /\ X * (2 * a) <= X * (2 * s + k)
  BY <1>8, <1>10
<1>12. 2 * s <= 2 * a + k
  BY <1>4, <1>6, <1>9, <1>11, Cancelled
<1>13. 2 * a <= 2 * s + k
  BY <1>4, <1>6, <1>9, <1>11, Cancelled
<1> QED BY <1>1, <1>7, <1>12, <1>13

\* The teams are charged what the workloads are.
LEMMA TeamsAreCharged ==
    ASSUME NEW c, ClusterTyped(c), NEW wc, \A x \in c.workloads : wc[x] = WorkloadCost(x, c)
    PROVE  MapThenSumSet(LAMBDA t : TeamCost(t, c), {w.team : w \in c.workloads})
           = SumOver(wc, c.workloads)
<1>1. PICK W, K, key, g, t :
        /\ W = c.workloads /\ K = {w.team : w \in W} /\ key = [w \in W |-> w.team]
        /\ g = [k \in K |-> {w \in W : w.team = k}] /\ t = [k \in K |-> TeamCost(k, c)]
  OBVIOUS
<1>2. IsFiniteSet(W) /\ IsFiniteSet(K)
  <2>1. IsFiniteSet(W)
    BY <1>1 DEF ClusterTyped
  <2>2. K = {key[w] : w \in W}
    BY <1>1
  <2> QED BY <2>1, <2>2, ImageFinite
<1>3. \A x \in W : wc[x] \in Int
  <2> SUFFICES ASSUME NEW x \in W PROVE wc[x] \in Int
    OBVIOUS
  <2>1. PICK wt, X : wt = [y \in c.workloads |-> WorkloadWeight(y)] /\ X = SumOver(wt, Beside(x, c))
    OBVIOUS
  <2>2. \A y \in c.workloads : wt[y] = WorkloadWeight(y)
    BY <2>1
  <2>3. WorkloadCost(x, c) \in Nat
    BY <1>1, <2>1, <2>2, WorkloadCostIs
  <2> QED BY <1>1, <2>3
<1>4. \A x \in W : key[x] \in K
  BY <1>1
<1>5. \A k \in K : g[k] \subseteq W /\ \A x \in W : x \in g[k] <=> key[x] = k
  BY <1>1
<1>6. ASSUME NEW k \in K PROVE t[k] = SumOver(wc, g[k])
  <2>1. g[k] = {w \in c.workloads : w.team = k} /\ t[k] = TeamCost(k, c)
    BY <1>1
  <2>2. IsFiniteSet(g[k]) /\ \A w \in g[k] : wc[w] = WorkloadCost(w, c)
    BY <1>1, <1>2, <1>5, FS_Subset
  <2>3. MapThenSumSet(LAMBDA w : WorkloadCost(w, c), g[k]) = SumOver(wc, g[k])
    BY <2>2, WorkloadSumIs
  <2>4. TeamCost(k, c) = MapThenSumSet(LAMBDA w : WorkloadCost(w, c), {w \in c.workloads : w.team = k})
    BY Zenon DEF TeamCost
  <2> QED BY <2>1, <2>3, <2>4, Zenon
<1>7. SumOver(t, K) = SumOver(wc, W)
  BY <1>2, <1>3, <1>4, <1>5, <1>6, SumGroups
<1>8. MapThenSumSet(LAMBDA k : TeamCost(k, c), K) = SumOver(t, K)
  <2>1. \A k \in K : t[k] = TeamCost(k, c)
    BY <1>1
  <2> QED BY <1>2, <2>1, TeamSumIs
<1> QED BY <1>1, <1>7, <1>8, Zenon

LEMMA TeamsFit == ASSUME ClusterTyped(cluster) PROVE TeamsAddUp
<1>1. PICK W, D, h, wc, key, N, P :
        /\ W = cluster.workloads
        /\ h = NamespaceCost(cluster) /\ D = DOMAIN NamespaceCost(cluster)
        /\ wc = [w \in W |-> WorkloadCost(w, cluster)]
        /\ key = [w \in W |-> w.namespace]
        /\ N = {w.namespace : w \in W} \cap D
        /\ P = {w \in W : w.namespace \in D}
  OBVIOUS
<1>2. IsFiniteSet(W) /\ IsFiniteSet(P) /\ P \subseteq W /\ IsFiniteSet(N) /\ N \subseteq D
  <2>1. IsFiniteSet(W) /\ P \subseteq W /\ N \subseteq D
    BY <1>1 DEF ClusterTyped
  <2>2. N = {key[w] : w \in P}
    BY <1>1
  <2>3. IsFiniteSet(P)
    BY <2>1, FS_Subset
  <2> QED BY <2>1, <2>2, <2>3, ImageFinite
<1>3. \A x \in cluster.workloads : wc[x] = WorkloadCost(x, cluster)
  BY <1>1
<1>4. \A x \in W : wc[x] \in Int /\ (x \notin P => wc[x] = 0)
  <2> SUFFICES ASSUME NEW x \in W PROVE wc[x] \in Int /\ (x \notin P => wc[x] = 0)
    OBVIOUS
  <2>1. PICK wt, X : wt = [y \in W |-> WorkloadWeight(y)] /\ X = SumOver(wt, Beside(x, cluster))
    OBVIOUS
  <2>2. \A y \in cluster.workloads : wt[y] = WorkloadWeight(y)
    BY <1>1, <2>1
  <2>3. /\ WorkloadCost(x, cluster) \in Nat
        /\ x.namespace \notin DOMAIN NamespaceCost(cluster) => WorkloadCost(x, cluster) = 0
    BY <1>1, <2>1, <2>2, WorkloadCostIs
  <2> QED BY <1>1, <2>3
<1>5. SumOver(wc, W) = SumOver(wc, P)
  <2>1. P \in SUBSET W /\ \A x \in W : wc[x] \in Int
    BY <1>2, <1>4
  <2>2. \A x \in W \ P : wc[x] = 0
    BY <1>4
  <2> QED BY <1>2, <2>1, <2>2, SumOfPart
<1>6. PICK g, s, one, cg :
        /\ g = [n \in N |-> {w \in W : w.namespace = n}]
        /\ s = [n \in N |-> SumOver(wc, g[n])]
        /\ one = [w \in W |-> 1]
        /\ cg = [n \in N |-> Cardinality(g[n])]
  OBVIOUS
<1>7. /\ \A n \in N : g[n] \subseteq P /\ \A x \in P : x \in g[n] <=> key[x] = n
      /\ \A x \in P : key[x] \in N
      /\ \A n \in N : g[n] # {} /\ IsFiniteSet(g[n])
  <2>1. \A n \in N : g[n] = {w \in W : w.namespace = n}
    BY <1>6
  <2>2. \A x \in P : key[x] = x.namespace /\ x.namespace \in N
    BY <1>1
  <2>3. \A n \in N : g[n] \subseteq P
    BY <1>1, <1>2, <2>1
  <2>4. \A n \in N : g[n] # {}
    BY <1>1, <2>1
  <2>5. \A n \in N : IsFiniteSet(g[n])
    BY <1>2, <2>3, FS_Subset
  <2>6. \A n \in N : \A x \in P : x \in g[n] <=> key[x] = n
    BY <1>2, <2>1, <2>2
  <2> QED BY <2>2, <2>3, <2>4, <2>5, <2>6
<1>8. SumOver(s, N) = SumOver(wc, P)
  <2>1. \A x \in P : wc[x] \in Int
    BY <1>2, <1>4
  <2>2. \A n \in N : s[n] = SumOver(wc, g[n])
    BY <1>6
  <2> QED BY <1>2, <1>7, <2>1, <2>2, SumGroups
<1>9. SumOver(cg, N) = Cardinality(P)
  <2>1. \A x \in P : one[x] = 1 /\ one[x] \in Int
    BY <1>2, <1>6
  <2>2. ASSUME NEW n \in N PROVE cg[n] = SumOver(one, g[n])
    <3>1. \A x \in g[n] : one[x] = 1
      BY <1>7, <2>1
    <3>2. SumOver(one, g[n]) = 1 * Cardinality(g[n])
      BY <1>7, <3>1, SumConstant
    <3>3. Cardinality(g[n]) \in Nat
      BY <1>7, FS_CardinalityType
    <3> QED BY <1>6, <3>2, <3>3
  <2>3. SumOver(cg, N) = SumOver(one, P)
    <3>1. /\ \A n \in N : g[n] \subseteq P /\ \A x \in P : x \in g[n] <=> key[x] = n
          /\ \A x \in P : key[x] \in N
      BY <1>7
    <3>2. \A x \in P : one[x] \in Int
      BY <2>1
    <3>3. \A n \in N : cg[n] = SumOver(one, g[n])
      BY <2>2
    <3> QED BY <1>2, <3>1, <3>2, <3>3, SumGroups
  <2>4. SumOver(one, P) = 1 * Cardinality(P)
    BY <1>2, <2>1, SumConstant
  <2>5. Cardinality(P) \in Nat
    BY <1>2, FS_CardinalityType
  <2> QED BY <2>3, <2>4, <2>5
<1>10. ASSUME NEW n \in N
       PROVE  /\ s[n] \in Int /\ h[n] \in Int /\ cg[n] \in Nat
              /\ 2 * s[n] <= 2 * h[n] + cg[n] /\ 2 * h[n] <= 2 * s[n] + cg[n]
  <2>1. PICK G : G = g[n]
    OBVIOUS
  <2>2. n \in DOMAIN NamespaceCost(cluster) /\ G = {x \in cluster.workloads : x.namespace = n} /\ G # {}
    BY <1>1, <1>2, <1>6, <1>7, <2>1
  <2>3. /\ 2 * SumOver(wc, G) <= 2 * NamespaceCost(cluster)[n] + Cardinality(G)
        /\ 2 * NamespaceCost(cluster)[n] <= 2 * SumOver(wc, G) + Cardinality(G)
    BY <1>3, <2>2, NamespaceCharged
  <2>4. h[n] \in Nat /\ h[n] = NamespaceCost(cluster)[n]
    BY <1>1, <2>2, NamespaceCostType
  <2>5. IsFiniteSet(G) /\ \A x \in G : wc[x] \in Int
    <3>1. G \subseteq W /\ IsFiniteSet(G)
      BY <1>2, <1>7, <2>1
    <3> QED BY <1>4, <3>1
  <2>6. SumOver(wc, G) \in Int /\ Cardinality(G) \in Nat
    BY <2>5, SumType, FS_CardinalityType
  <2>7. s[n] = SumOver(wc, G) /\ cg[n] = Cardinality(G)
    BY <1>6, <2>1
  <2> QED BY <2>3, <2>4, <2>6, <2>7
<1>11. PICK p, q, pc, qc :
        /\ p = [n \in N |-> 2 * s[n]] /\ q = [n \in N |-> 2 * h[n]]
        /\ pc = [n \in N |-> p[n] + cg[n]] /\ qc = [n \in N |-> q[n] + cg[n]]
  OBVIOUS
<1>12. \A n \in N : /\ p[n] = 2 * s[n] /\ q[n] = 2 * h[n] /\ p[n] \in Int /\ q[n] \in Int
                    /\ pc[n] = p[n] + cg[n] /\ qc[n] = q[n] + cg[n] /\ cg[n] \in Int
                    /\ pc[n] \in Int /\ qc[n] \in Int
                    /\ p[n] <= qc[n] /\ q[n] <= pc[n]
  <2> SUFFICES ASSUME NEW n \in N
               PROVE  /\ p[n] = 2 * s[n] /\ q[n] = 2 * h[n] /\ p[n] \in Int /\ q[n] \in Int
                      /\ pc[n] = p[n] + cg[n] /\ qc[n] = q[n] + cg[n] /\ cg[n] \in Int
                      /\ pc[n] \in Int /\ qc[n] \in Int
                      /\ p[n] <= qc[n] /\ q[n] <= pc[n]
    OBVIOUS
  <2>1. p[n] = 2 * s[n] /\ q[n] = 2 * h[n] /\ pc[n] = p[n] + cg[n] /\ qc[n] = q[n] + cg[n]
    BY <1>11
  <2> QED BY <1>10, <2>1
<1>13. SumOver(p, N) = 2 * SumOver(s, N) /\ SumOver(q, N) = 2 * SumOver(h, N)
  <2>1. \A n \in N : s[n] \in Int /\ h[n] \in Int
    BY <1>10
  <2>2. SumOver(p, N) = 2 * SumOver(s, N)
    BY <1>2, <1>12, <2>1, SumTimes
  <2>3. SumOver(q, N) = 2 * SumOver(h, N)
    BY <1>2, <1>12, <2>1, SumTimes
  <2> QED BY <2>2, <2>3
<1>14. SumOver(pc, N) = SumOver(p, N) + SumOver(cg, N) /\ SumOver(qc, N) = SumOver(q, N) + SumOver(cg, N)
  BY <1>2, <1>12, SumPlus
<1>15. SumOver(p, N) <= SumOver(qc, N) /\ SumOver(q, N) <= SumOver(pc, N)
  BY <1>2, <1>12, SumMore
<1>16. Cardinality(P) \in Nat /\ Cardinality(W) \in Nat /\ Cardinality(P) <= Cardinality(W)
  BY <1>2, FS_CardinalityType, FS_Subset
<1>17. SumOver(s, N) \in Int /\ SumOver(h, N) \in Int
  <2>1. \A n \in N : s[n] \in Int /\ h[n] \in Int
    BY <1>10
  <2> QED BY <1>2, <2>1, SumType
<1>18. MapThenSumSet(LAMBDA t : TeamCost(t, cluster), {w.team : w \in cluster.workloads}) = SumOver(s, N)
  <2>1. MapThenSumSet(LAMBDA t : TeamCost(t, cluster), {w.team : w \in cluster.workloads})
        = SumOver(wc, cluster.workloads)
    BY <1>3, TeamsAreCharged
  <2> QED BY <1>1, <1>5, <1>8, <2>1, Zenon
<1>19. MapThenSumSet(LAMBDA n : NamespaceCost(cluster)[n],
         {w.namespace : w \in cluster.workloads} \cap DOMAIN NamespaceCost(cluster)) = SumOver(h, N)
  <2>1. MapThenSumSet(LAMBDA n : NamespaceCost(cluster)[n],
          {w.namespace : w \in cluster.workloads} \cap DOMAIN NamespaceCost(cluster))
        = SumOver(NamespaceCost(cluster),
            {w.namespace : w \in cluster.workloads} \cap DOMAIN NamespaceCost(cluster))
    BY Zenon DEF SumOver
  <2> QED BY <1>1, <2>1, Zenon
<1>20. PICK T, U, k : /\ T = SumOver(s, N) /\ U = SumOver(h, N)
                      /\ k = Cardinality(cluster.workloads)
  OBVIOUS
<1>21. 2 * T <= 2 * U + k /\ 2 * U <= 2 * T + k
  BY <1>1, <1>9, <1>13, <1>14, <1>15, <1>16, <1>17, <1>20
<1> QED BY <1>18, <1>19, <1>20, <1>21 DEF TeamsAddUp

-----------------------------------------------------------------------------
(* What a vendor bills.                                                    *)

BillRow(v, f, s) == [vendor |-> v, service |-> s, cost |-> bills[v][f][s], source |-> f, id |-> f]

LiveRow(e) == [vendor |-> "oci", service |-> e.name, cost |-> e.cost, source |-> "inventory",
               id |-> e.id]

LEMMA BillType ==
    ASSUME ContainersTypeOK, NEW v \in Vendor, NEW f \in BillFeed
    PROVE  /\ \A s \in ContainerService : bills[v][f][s] \in Nat
           /\ IsFiniteSet(Contained(v, f)) /\ Contained(v, f) \subseteq ContainerService
           /\ IsFiniteSet(ContainerService)
<1>1. bills[v][f] \in [BillService -> Nat]
  BY DEF ContainersTypeOK
<1>2. \A s \in ContainerService : bills[v][f][s] \in Nat
  BY <1>1, ContainerConstants
<1>3. Contained(v, f) \subseteq ContainerService
  BY DEF Contained
<1> QED BY <1>2, <1>3, ContainerConstants, FS_Subset

\* The total of a feed is that of what it names of containers.
LEMMA FeedTotalIs ==
    ASSUME ContainersTypeOK, NEW v \in Vendor, NEW f \in BillFeed
    PROVE  /\ FeedTotal(v, f) = SumOver(bills[v][f], Contained(v, f))
           /\ FeedTotal(v, f) \in Nat
           /\ FeedTotal(v, f) > 0 <=> Contained(v, f) # {}
<1>1. PICK b, C, S : b = bills[v][f] /\ C = Contained(v, f) /\ S = ContainerService
  OBVIOUS
<1>2. /\ \A s \in S : b[s] \in Nat
      /\ IsFiniteSet(C) /\ C \subseteq S /\ IsFiniteSet(S)
  BY <1>1, BillType
<1>3. \A s \in S : s \in C <=> b[s] > 0
  BY <1>1 DEF Contained
<1>4. FeedTotal(v, f) = SumOver(b, S)
  <2>1. FeedTotal(v, f) = SumOver(bills[v][f], ContainerService)
    BY Zenon DEF FeedTotal, SumOver
  <2> QED BY <1>1, <2>1
<1>5. SumOver(b, S) = SumOver(b, C)
  <2>1. C \in SUBSET S /\ \A s \in S : b[s] \in Int
    BY <1>2
  <2>2. \A s \in S \ C : b[s] = 0
    BY <1>2, <1>3
  <2> QED BY <1>2, <2>1, <2>2, SumOfPart
<1>6. SumOver(b, C) \in Nat
  <2>1. \A s \in C : b[s] \in Nat
    BY <1>2
  <2> QED BY <1>2, <2>1, SumType
<1>7. C = {} => SumOver(b, C) = 0
  BY SumEmpty
<1>8. ASSUME C # {} PROVE SumOver(b, C) > 0
  <2>1. PICK s \in C : TRUE
    BY <1>8
  <2>2. \A x \in C : b[x] \in Int
    BY <1>2
  <2>3. SumOver(b, C) = b[s] + SumOver(b, C \ {s})
    BY <1>2, <2>2, SumTake
  <2>4. IsFiniteSet(C \ {s}) /\ \A x \in C \ {s} : b[x] \in Nat
    BY <1>2, FS_Subset
  <2>5. SumOver(b, C \ {s}) \in Nat
    BY <2>4, SumType
  <2>6. b[s] \in Nat /\ b[s] > 0
    BY <1>2, <1>3
  <2> QED BY <2>3, <2>5, <2>6
<1> QED BY <1>1, <1>4, <1>5, <1>6, <1>7, <1>8

Billed(v) == IF FeedTotal(v, "live") > 0 THEN FeedTotal(v, "live")
             ELSE IF FeedTotal(v, "scan") > 0 THEN FeedTotal(v, "scan")
             ELSE FeedTotal(v, "import")

\* At most one feed of a vendor is read.
LEMMA FeedIs ==
    ASSUME ContainersTypeOK, NEW v \in Vendor
    PROVE  \/ FeedsRead(v) = {} /\ Billed(v) = 0
           \/ \E f \in BillFeed : FeedsRead(v) = {f} /\ Billed(v) = FeedTotal(v, f)
<1>1. PICK C, T : /\ C = [f \in BillFeed |-> Contained(v, f)]
                  /\ T = [f \in BillFeed |-> FeedTotal(v, f)]
  OBVIOUS
<1>2. \A f \in BillFeed : T[f] \in Nat /\ (T[f] > 0 <=> C[f] # {}) /\ T[f] = FeedTotal(v, f)
  BY <1>1, FeedTotalIs
<1>3. BillFeed = {"live", "scan", "import"}
  BY DEF BillFeed
<1>4. FeedsRead(v) = {f \in BillFeed : /\ C[f] # {}
                                       /\ f # "live" => C["live"] = {}
                                       /\ f = "import" => C["scan"] = {}}
  BY <1>1, <1>3 DEF FeedsRead
<1>5. Billed(v) = IF T["live"] > 0 THEN T["live"]
                  ELSE IF T["scan"] > 0 THEN T["scan"] ELSE T["import"]
  BY <1>2, <1>3 DEF Billed
<1>6. CASE C["live"] # {}
  <2>1. FeedsRead(v) = {"live"}
    BY <1>3, <1>4, <1>6
  <2>2. Billed(v) = FeedTotal(v, "live")
    BY <1>2, <1>3, <1>5, <1>6
  <2> QED BY <1>3, <2>1, <2>2
<1>7. CASE C["live"] = {} /\ C["scan"] # {}
  <2>1. FeedsRead(v) = {"scan"}
    BY <1>3, <1>4, <1>7
  <2>2. Billed(v) = FeedTotal(v, "scan")
    BY <1>2, <1>3, <1>5, <1>7
  <2> QED BY <1>3, <2>1, <2>2
<1>8. CASE C["live"] = {} /\ C["scan"] = {} /\ C["import"] # {}
  <2>1. FeedsRead(v) = {"import"}
    BY <1>3, <1>4, <1>8
  <2>2. Billed(v) = FeedTotal(v, "import")
    BY <1>2, <1>3, <1>5, <1>8
  <2> QED BY <1>3, <2>1, <2>2
<1>9. CASE C["live"] = {} /\ C["scan"] = {} /\ C["import"] = {}
  <2>1. FeedsRead(v) = {}
    BY <1>3, <1>4, <1>9
  <2>2. Billed(v) = 0
    BY <1>2, <1>3, <1>5, <1>9
  <2> QED BY <2>1, <2>2
<1> QED BY <1>6, <1>7, <1>8, <1>9

\* The rows of a vendor: those of the feed that is read, and with OCI those of the
\* live resources.
BillRows(v) == UNION {{BillRow(v, f, s) : s \in Contained(v, f)} : f \in FeedsRead(v)}
LiveRows(v) == IF v = "oci" THEN {LiveRow(e) : e \in estate} ELSE {}

LEMMA ChargedRows ==
    ASSUME NEW v \in Vendor
    PROVE  {r \in ServiceCosts : r.vendor = v} = BillRows(v) \cup LiveRows(v)
<1>1. OfferedRows = UNION {{BillRow(u, f, s) : s \in Contained(u, f)} : u \in Vendor, f \in BillFeed}
  BY DEF OfferedRows, BillRow
<1>2. ServiceCosts = {r \in OfferedRows : r.source \in FeedsRead(r.vendor)} \cup {LiveRow(e) : e \in estate}
  BY DEF ServiceCosts, LiveRow
<1>3. \A u, f, s : BillRow(u, f, s).vendor = u /\ BillRow(u, f, s).source = f
  BY DEF BillRow
<1>4. \A e : LiveRow(e).vendor = "oci"
  BY DEF LiveRow
<1>5. FeedsRead(v) \subseteq BillFeed
  BY DEF FeedsRead
<1>6. ASSUME NEW r \in ServiceCosts, r.vendor = v
      PROVE  r \in BillRows(v) \cup LiveRows(v)
  <2>1. CASE r \in OfferedRows /\ r.source \in FeedsRead(r.vendor)
    <3>1. PICK u \in Vendor, f \in BillFeed : r \in {BillRow(u, f, s) : s \in Contained(u, f)}
      BY <1>1, <2>1
    <3>2. PICK s \in Contained(u, f) : r = BillRow(u, f, s)
      BY <3>1
    <3>3. u = v /\ f \in FeedsRead(v)
      BY <1>3, <1>6, <2>1, <3>2
    <3> QED BY <3>2, <3>3 DEF BillRows
  <2>2. CASE r \in {LiveRow(e) : e \in estate}
    <3>1. v = "oci"
      BY <1>4, <1>6, <2>2
    <3> QED BY <2>2, <3>1 DEF LiveRows
  <2> QED BY <1>2, <1>6, <2>1, <2>2
<1>7. ASSUME NEW r \in BillRows(v)
      PROVE  r \in ServiceCosts /\ r.vendor = v
  <2>1. PICK f \in FeedsRead(v) : r \in {BillRow(v, f, s) : s \in Contained(v, f)}
    BY DEF BillRows
  <2>2. PICK s \in Contained(v, f) : r = BillRow(v, f, s)
    BY <2>1
  <2>3. r.vendor = v /\ r.source = f
    BY <1>3, <2>2
  <2>4. r \in OfferedRows
    <3>1. PICK R : R = {BillRow(v, f, p) : p \in Contained(v, f)}
      OBVIOUS
    <3>2. f \in BillFeed
      BY <1>5
    <3>3. R \in {{BillRow(u, g, p) : p \in Contained(u, g)} : u \in Vendor, g \in BillFeed}
      BY <3>1, <3>2
    <3>4. r \in R
      BY <2>1, <3>1
    <3> QED BY <1>1, <3>3, <3>4
  <2> QED BY <1>2, <2>1, <2>3, <2>4
<1>8. ASSUME NEW r \in LiveRows(v)
      PROVE  r \in ServiceCosts /\ r.vendor = v
  BY <1>2, <1>4 DEF LiveRows
<1> QED BY <1>6, <1>7, <1>8

\* What the rows of a vendor cost together.
LEMMA BillRowsCost ==
    ASSUME ContainersTypeOK, NEW v \in Vendor, NEW c, \A r \in BillRows(v) : c[r] = r.cost
    PROVE  /\ IsFiniteSet(BillRows(v))
           /\ \A r \in BillRows(v) : r.cost \in Nat /\ r.source # "inventory"
           /\ SumOver(c, BillRows(v)) = Billed(v)
<1>1. CASE FeedsRead(v) = {} /\ Billed(v) = 0
  <2>1. BillRows(v) = {}
    BY <1>1 DEF BillRows
  <2> QED BY <1>1, <2>1, SumEmpty, FS_EmptySet
<1>2. CASE \E f \in BillFeed : FeedsRead(v) = {f} /\ Billed(v) = FeedTotal(v, f)
  <2>1. PICK f \in BillFeed : FeedsRead(v) = {f} /\ Billed(v) = FeedTotal(v, f)
    BY <1>2
  <2>2. PICK C, e, b : /\ C = Contained(v, f) /\ e = [s \in C |-> BillRow(v, f, s)]
                       /\ b = bills[v][f]
    OBVIOUS
  <2>3. \A s \in C : e[s] = BillRow(v, f, s)
    BY <2>2
  <2>4. BillRows(v) = {e[s] : s \in C}
    BY <2>1, <2>2, <2>3 DEF BillRows
  <2>5. \A s \in C : e[s].service = s /\ e[s].cost = b[s] /\ e[s].source = f
    BY <2>2, <2>3 DEF BillRow
  <2>6. IsFiniteSet(C) /\ \A s \in C : b[s] \in Nat
    BY <2>2, BillType
  <2>7. \A s, t \in C : e[s] = e[t] => s = t
    BY <2>5
  <2>8. ASSUME NEW s \in C PROVE b[s] \in Int /\ c[e[s]] = b[s]
    <3>1. e[s] \in BillRows(v)
      BY <2>4
    <3> QED BY <2>5, <2>6, <3>1
  <2>9. SumOver(c, {e[s] : s \in C}) = SumOver(b, C)
    BY <2>6, <2>7, <2>8, SumImage
  <2>10. IsFiniteSet(BillRows(v))
    BY <2>4, <2>6, ImageFinite
  <2>11. FeedTotal(v, f) = SumOver(b, C)
    BY <2>2, FeedTotalIs
  <2>12. \A r \in BillRows(v) : r.cost \in Nat /\ r.source # "inventory"
    BY <2>4, <2>5, <2>6 DEF BillFeed
  <2> QED BY <2>1, <2>4, <2>9, <2>10, <2>11, <2>12
<1> QED BY <1>1, <1>2, FeedIs

LEMMA LiveRowsCost ==
    ASSUME ContainersTypeOK, NEW v, NEW c, \A r \in LiveRows(v) : c[r] = r.cost
    PROVE  /\ IsFiniteSet(LiveRows(v))
           /\ \A r \in LiveRows(v) : r.cost \in Nat /\ r.source = "inventory"
           /\ SumOver(c, LiveRows(v)) = IF v = "oci" THEN CostSum(estate) ELSE 0
<1>1. CASE v # "oci"
  <2>1. LiveRows(v) = {}
    BY <1>1 DEF LiveRows
  <2> QED BY <1>1, <2>1, SumEmpty, FS_EmptySet
<1>2. CASE v = "oci"
  <2>1. PICK e, b : e = [x \in estate |-> LiveRow(x)] /\ b = [x \in estate |-> x.cost]
    OBVIOUS
  <2>2. \A x \in estate : e[x] = LiveRow(x) /\ b[x] = x.cost
    BY <2>1
  <2>3. LiveRows(v) = {e[x] : x \in estate}
    BY <1>2, <2>2 DEF LiveRows
  <2>4. \A x \in estate : /\ e[x].service = x.name /\ e[x].cost = x.cost /\ e[x].id = x.id
                          /\ e[x].source = "inventory"
    <3>1. \A x : /\ LiveRow(x).service = x.name /\ LiveRow(x).cost = x.cost
                 /\ LiveRow(x).id = x.id /\ LiveRow(x).source = "inventory"
      BY DEF LiveRow
    <3> QED BY <2>2, <3>1
  <2>5. IsFiniteSet(estate) /\ estate \subseteq LiveResource
    BY DEF ContainersTypeOK
  <2>6. ASSUME NEW x \in estate, NEW y \in estate, e[x] = e[y] PROVE x = y
    <3>1. x.id = y.id /\ x.name = y.name /\ x.cost = y.cost
      BY <2>4, <2>6
    <3>2. x \in LiveResource /\ y \in LiveResource
      BY <2>5
    <3> QED BY <3>1, <3>2 DEF LiveResource
  <2>7. \A x \in estate : b[x] = x.cost /\ x.cost \in Nat
    BY <2>2, <2>5 DEF LiveResource
  <2>8. ASSUME NEW x \in estate PROVE b[x] \in Int /\ c[e[x]] = b[x]
    <3>1. e[x] \in LiveRows(v)
      BY <2>3
    <3> QED BY <2>4, <2>7, <3>1
  <2>9. SumOver(c, {e[x] : x \in estate}) = SumOver(b, estate)
    BY <2>5, <2>6, <2>8, SumImage
  <2>10. IsFiniteSet(LiveRows(v))
    BY <2>3, <2>5, ImageFinite
  <2>11. CostSum(estate) = SumOver(b, estate)
    <3>1. MapThenSumSet(LAMBDA r : r.cost, estate) = SumOver(b, estate)
      BY <2>2, <2>5, CostSumIs
    <3> QED BY <3>1, Zenon DEF CostSum
  <2>12. \A r \in LiveRows(v) : r.cost \in Nat /\ r.source = "inventory"
    BY <2>3, <2>4, <2>7
  <2> QED BY <1>2, <2>3, <2>9, <2>10, <2>11, <2>12
<1> QED BY <1>1, <1>2

\* What rows of different services cost.
LEMMA CostOfImage ==
    ASSUME NEW S, IsFiniteSet(S), NEW e, NEW T,
           \A s \in S : e[s] \in T, \A t \in T : \E s \in S : t = e[s],
           NEW h, \A s \in S : e[s].service = s /\ e[s].cost = h[s] /\ h[s] \in Int
    PROVE  CostSum(T) = SumOver(h, S)
<1>1. PICK f : f = [r \in T |-> r.cost]
  OBVIOUS
<1>2. \A x, y \in S : e[x] = e[y] => x = y
  OBVIOUS
<1>3. ASSUME NEW s \in S PROVE h[s] \in Int /\ f[e[s]] = h[s]
  <2>1. e[s] \in T
    OBVIOUS
  <2> QED BY <1>1, <2>1
<1>4. T = {e[s] : s \in S}
  OBVIOUS
<1>5. SumOver(f, {e[s] : s \in S}) = SumOver(h, S)
  BY <1>2, <1>3, SumImage
<1>6. IsFiniteSet(T)
  BY <1>4, ImageFinite
<1>7. \A r \in T : f[r] = r.cost
  BY <1>1
<1>8. MapThenSumSet(LAMBDA r : r.cost, T) = SumOver(f, T)
  BY <1>6, <1>7, CostSumIs
<1> QED BY <1>4, <1>5, <1>8, Zenon DEF CostSum

\* The total of a vendor is that of its rows, however many share a service.
LEMMA RollupIs ==
    ASSUME NEW v, NEW B, B = {r \in ServiceCosts : r.vendor = v}, IsFiniteSet(B),
           NEW c, \A r \in B : c[r] = r.cost /\ r.cost \in Nat
    PROVE  VendorRollup(v).total = SumOver(c, B)
<1>1. PICK key, S, g, h, e, T :
        /\ key = [r \in B |-> r.service] /\ S = {r.service : r \in B}
        /\ g = [s \in S |-> Keyed(v, s)] /\ h = [s \in S |-> Merge(Keyed(v, s))]
        /\ e = [s \in S |-> [vendor |-> v, service |-> s, cost |-> Merge(Keyed(v, s)),
                             source |-> Best({r.source : r \in Keyed(v, s)})]]
        /\ T = {r \in ServiceRows : r.vendor = v}
  OBVIOUS
<1>2. IsFiniteSet(S)
  <2>1. S = {key[r] : r \in B}
    BY <1>1
  <2> QED BY <2>1, ImageFinite
<1>3. \A s \in S : g[s] = {r \in B : r.service = s} /\ g[s] = Keyed(v, s)
  BY <1>1 DEF Keyed
<1>4. ASSUME NEW s \in S PROVE h[s] = SumOver(c, g[s])
  <2>1. IsFiniteSet(g[s]) /\ \A r \in g[s] : c[r] = r.cost
    BY <1>3, FS_Subset
  <2>2. MapThenSumSet(LAMBDA r : r.cost, g[s]) = SumOver(c, g[s])
    BY <2>1, CostSumIs
  <2>3. h[s] = CostSum(g[s])
    BY <1>1, <1>3 DEF Merge
  <2> QED BY <2>2, <2>3, Zenon DEF CostSum
<1>5. SumOver(h, S) = SumOver(c, B)
  <2>1. \A r \in B : c[r] \in Int
    OBVIOUS
  <2>2. \A r \in B : key[r] \in S
    BY <1>1
  <2>3. ASSUME NEW s \in S
        PROVE  g[s] \subseteq B /\ \A r \in B : r \in g[s] <=> key[r] = s
    <3>1. g[s] = {r \in B : r.service = s}
      BY <1>3
    <3>2. key = [r \in B |-> r.service]
      BY <1>1
    <3> QED BY <3>1, <3>2
  <2>4. \A s \in S : h[s] = SumOver(c, g[s])
    BY <1>4
  <2>5. IsFiniteSet(B) /\ IsFiniteSet(S)
    BY <1>2
  <2> QED BY <2>1, <2>2, <2>3, <2>4, <2>5, SumGroups
<1>6. \A s \in S : e[s].vendor = v /\ e[s].service = s /\ e[s].cost = h[s]
  BY <1>1
<1>7. T = {e[s] : s \in S}
  <2>1. PICK K : K = {<<r.vendor, r.service>> : r \in ServiceCosts}
    OBVIOUS
  <2>2. ServiceRows = {[vendor |-> k[1], service |-> k[2], cost |-> Merge(Keyed(k[1], k[2])),
                        source |-> Best({r.source : r \in Keyed(k[1], k[2])})] : k \in K}
    BY <2>1 DEF ServiceRows
  <2>3. ASSUME NEW t \in T PROVE t \in {e[s] : s \in S}
    <3>1. t \in ServiceRows /\ t.vendor = v
      BY <1>1
    <3>2. PICK k \in K : t = [vendor |-> k[1], service |-> k[2], cost |-> Merge(Keyed(k[1], k[2])),
                              source |-> Best({r.source : r \in Keyed(k[1], k[2])})]
      BY <2>2, <3>1
    <3>3. PICK r \in ServiceCosts : k = <<r.vendor, r.service>>
      BY <2>1
    <3>4. k[1] = v /\ k[2] = r.service /\ r.vendor = v
      BY <3>1, <3>2, <3>3
    <3>5. k[2] \in S
      BY <1>1, <3>4
    <3>6. t = e[k[2]]
      BY <1>1, <3>2, <3>4, <3>5
    <3> QED BY <3>5, <3>6
  <2>4. ASSUME NEW s \in S PROVE e[s] \in T
    <3>1. PICK r \in B : s = r.service
      BY <1>1
    <3>2. PICK k : k = <<v, s>>
      OBVIOUS
    <3>3. k \in K /\ k[1] = v /\ k[2] = s
      BY <2>1, <3>1, <3>2
    <3>4. e[s] = [vendor |-> k[1], service |-> k[2], cost |-> Merge(Keyed(k[1], k[2])),
                  source |-> Best({q.source : q \in Keyed(k[1], k[2])})]
      BY <1>1, <3>3
    <3>5. e[s] \in ServiceRows
      BY <2>2, <3>3, <3>4
    <3> QED BY <1>1, <1>6, <3>5
  <2> QED BY <2>3, <2>4
<1>8. ASSUME NEW s \in S PROVE h[s] \in Int
  <2>1. IsFiniteSet(g[s]) /\ \A r \in g[s] : c[r] \in Int
    BY <1>3, FS_Subset
  <2> QED BY <1>4, <2>1, SumType
<1>9. CostSum(T) = SumOver(h, S)
  <2>1. \A s \in S : e[s].service = s /\ e[s].cost = h[s] /\ h[s] \in Int
    BY <1>6, <1>8
  <2>2. (\A s \in S : e[s] \in T) /\ \A t \in T : \E s \in S : t = e[s]
    BY <1>7
  <2> QED BY <1>2, <2>1, <2>2, CostOfImage
<1>10. VendorRollup(v).total = CostSum(T)
  BY <1>1 DEF VendorRollup
<1> QED BY <1>5, <1>9, <1>10

LEMMA OneFeed == ASSUME ContainersTypeOK PROVE OneFeedEach
<1> SUFFICES ASSUME NEW v \in Vendor
    PROVE  VendorRollup(v).total = Billed(v) + IF v = "oci" THEN CostSum(estate) ELSE 0
  BY DEF OneFeedEach, Billed
<1>1. PICK B, P, Q, c : /\ B = {r \in ServiceCosts : r.vendor = v}
                        /\ P = BillRows(v) /\ Q = LiveRows(v)
                        /\ c = [r \in B |-> r.cost]
  OBVIOUS
<1>2. B = P \cup Q
  BY <1>1, ChargedRows
<1>3. \A r \in B : c[r] = r.cost
  BY <1>1
<1>4. /\ IsFiniteSet(P) /\ \A r \in P : r.cost \in Nat /\ r.source # "inventory"
      /\ SumOver(c, P) = Billed(v)
  <2>1. \A r \in BillRows(v) : c[r] = r.cost
    BY <1>1, <1>2, <1>3
  <2> QED BY <1>1, <2>1, BillRowsCost
<1>5. /\ IsFiniteSet(Q) /\ \A r \in Q : r.cost \in Nat /\ r.source = "inventory"
      /\ SumOver(c, Q) = IF v = "oci" THEN CostSum(estate) ELSE 0
  <2>1. \A r \in LiveRows(v) : c[r] = r.cost
    BY <1>1, <1>2, <1>3
  <2> QED BY <1>1, <2>1, LiveRowsCost
<1>6. IsFiniteSet(B) /\ P \cap Q = {}
  BY <1>2, <1>4, <1>5, FS_Union
<1>7. \A r \in B : c[r] = r.cost /\ r.cost \in Nat
  BY <1>2, <1>3, <1>4, <1>5
<1>8. VendorRollup(v).total = SumOver(c, B)
  BY <1>1, <1>6, <1>7, RollupIs
<1>9. SumOver(c, B) = SumOver(c, P) + SumOver(c, Q)
  <2>1. \A r \in P \cup Q : c[r] \in Int
    BY <1>2, <1>7
  <2> QED BY <1>2, <1>4, <1>5, <1>6, <2>1, SumUnion
<1> QED BY <1>4, <1>5, <1>8, <1>9

\* In every state of the specification the container costs of each vendor are those
\* of one feed with every live estimate, the teams of a cluster are charged what its
\* namespaces cost, and these do not cost more than the cluster, but for rounding.
\* (_service_rows_from_costs, _merge_service_rows, _cluster_allocation.)
THEOREM ContainersAddUpHolds == ContainersSpec => []ContainersAddUp
<1>1. ContainersInit => ContainersTypeOK
  <2> SUFFICES ASSUME ContainersInit PROVE ContainersTypeOK
    OBVIOUS
  <2>1. NoBill \in [BillService -> Nat]
    BY DEF NoBill
  <2>2. bills \in [Vendor -> [BillFeed -> [BillService -> Nat]]]
    BY <2>1 DEF ContainersInit
  <2>3. IsFiniteSet(estate) /\ estate \subseteq LiveResource
    BY FS_EmptySet DEF ContainersInit
  <2>4. ClusterTyped(cluster)
    <3>1. cluster = NoCluster
      BY DEF ContainersInit
    <3>2. DOMAIN NoCluster.measured = {}
      BY DEF NoCluster
    <3> QED BY <3>1, <3>2, FS_EmptySet DEF NoCluster, ClusterTyped
  <2> QED BY <2>2, <2>3, <2>4 DEF ContainersTypeOK
<1>2. ContainersTypeOK /\ [ContainersNext]_containerVars => ContainersTypeOK'
  <2> SUFFICES ASSUME ContainersTypeOK, [ContainersNext]_containerVars PROVE ContainersTypeOK'
    OBVIOUS
  <2>1. ASSUME NEW v \in Vendor, NEW f \in BillFeed, NEW bill \in BillForm \cup {NoBill},
               BillChanges(v, f, bill)
        PROVE  ContainersTypeOK'
    <3>1. bill \in [BillService -> Nat]
      BY ContainerConstants DEF NoBill
    <3>2. bills' = [bills EXCEPT ![v][f] = bill] /\ estate' = estate /\ cluster' = cluster
      BY <2>1 DEF BillChanges
    <3>3. bills' \in [Vendor -> [BillFeed -> [BillService -> Nat]]]
      BY <3>1, <3>2 DEF ContainersTypeOK
    <3> QED BY <3>2, <3>3 DEF ContainersTypeOK, ClusterTyped
  <2>2. ASSUME NEW e \in EstateForm, EstateChanges(e)
        PROVE  ContainersTypeOK'
    BY <2>2, ContainerConstants DEF EstateChanges, ContainersTypeOK, ClusterTyped
  <2>3. ASSUME NEW c \in ClusterForm, ClusterCost(c)
        PROVE  ContainersTypeOK'
    <3>1. cluster' = c /\ bills' = bills /\ estate' = estate
      BY <2>3 DEF ClusterCost
    <3>2. ClusterTyped(c)
      BY ContainerConstants
    <3> QED BY <3>1, <3>2 DEF ContainersTypeOK, ClusterTyped
  <2>4. CASE UNCHANGED containerVars
    BY <2>4 DEF containerVars, ContainersTypeOK, ClusterTyped
  <2> QED BY <2>1, <2>2, <2>3, <2>4 DEF ContainersNext
<1>3. ContainersTypeOK => ContainersAddUp
  <2> SUFFICES ASSUME ContainersTypeOK PROVE ContainersAddUp
    OBVIOUS
  <2>1. ClusterTyped(cluster)
    BY DEF ContainersTypeOK
  <2> QED BY <2>1, OneFeed, TeamsFit, NamespacesFit DEF ContainersAddUp
<1> QED BY <1>1, <1>2, <1>3, PTL DEF ContainersSpec

-----------------------------------------------------------------------------
(* Pages of resources: PagesTrueHolds.                                     *)

\* What is before each position, in a strict order of all of them.
Linear(P, before) ==
    /\ DOMAIN before = P /\ IsFiniteSet(P)
    /\ \A i \in P : before[i] \in SUBSET P /\ i \notin before[i]
    /\ \A i, j \in P : i # j => i \in before[j] \/ j \in before[i]
    /\ \A i, j, k \in P : i \in before[j] /\ j \in before[k] => i \in before[k]

LEMMA RankLess ==
    ASSUME NEW P, NEW before, Linear(P, before), NEW i \in P, NEW k \in P, i \in before[k]
    PROVE  Cardinality(before[i]) < Cardinality(before[k])
<1>1. PICK B, C : B = before[i] /\ C = before[k]
  OBVIOUS
<1>2. B \in SUBSET C /\ C \in SUBSET P /\ i \in C /\ i \notin B
  BY <1>1 DEF Linear
<1>3. IsFiniteSet(C) /\ Cardinality(C) \in Nat
  BY <1>2, FS_Subset, FS_CardinalityType DEF Linear
<1>4. Cardinality(B) <= Cardinality(C) /\ Cardinality(B) # Cardinality(C) /\ IsFiniteSet(B)
  BY <1>2, <1>3, FS_Subset
<1>5. Cardinality(B) \in Nat
  BY <1>4, FS_CardinalityType
<1> QED BY <1>1, <1>3, <1>4, <1>5

\* The n-th of a ranking comes after n - 1 others, and every position has a rank.
LEMMA RankedIs ==
    ASSUME NEW P, NEW before, Linear(P, before), NEW q, q = Ranked(before),
           NEW N, N = Cardinality(P)
    PROVE  /\ N \in Nat /\ DOMAIN q = 1..N
           /\ \A n \in 1..N : q[n] \in P
           /\ \A m, n \in 1..N : m < n => q[m] \in before[q[n]]
           /\ \A i \in P : \E n \in 1..N : q[n] = i
<1>1. N \in Nat /\ IsFiniteSet(P) /\ DOMAIN before = P
  BY FS_CardinalityType DEF Linear
<1>2. PICK r : r = [i \in P |-> Cardinality(before[i]) + 1]
  OBVIOUS
<1>3. ASSUME NEW i \in P
      PROVE  r[i] \in 1..N /\ Cardinality(before[i]) \in Nat
  <2>1. before[i] \in SUBSET (P \ {i})
    BY DEF Linear
  <2>2. IsFiniteSet(P \ {i}) /\ Cardinality(P \ {i}) = N - 1
    BY <1>1, FS_RemoveElement
  <2>3. IsFiniteSet(before[i]) /\ Cardinality(before[i]) <= N - 1
    BY <2>1, <2>2, FS_Subset
  <2>4. Cardinality(before[i]) \in Nat
    BY <2>3, FS_CardinalityType
  <2> QED BY <1>1, <1>2, <2>3, <2>4
<1>4. ASSUME NEW i \in P, NEW k \in P, i \in before[k]
      PROVE  r[i] < r[k]
  BY <1>2, <1>3, <1>4, RankLess
<1>5. ASSUME NEW i \in P, NEW k \in P, r[i] = r[k]
      PROVE  i = k
  <2>1. i # k => i \in before[k] \/ k \in before[i]
    BY DEF Linear
  <2>2. ~(i \in before[k]) /\ ~(k \in before[i])
    BY <1>3, <1>4, <1>5
  <2> QED BY <2>1, <2>2
<1>6. r \in Surjection(P, 1..N)
  <2>1. r \in Injection(P, 1..N)
    BY <1>2, <1>3, <1>5 DEF Injection, IsInjective
  <2>2. IsFiniteSet(1..N) /\ Cardinality(1..N) = N
    <3>1. 1 \in Int /\ N \in Int
      BY <1>1
    <3> QED BY <1>1, <3>1, FS_Interval
  <2> QED BY <2>1, <2>2, FS_Injection
<1>7. ASSUME NEW n \in 1..N
      PROVE  q[n] \in P /\ r[q[n]] = n
  <2>1. PICK i \in P : r[i] = n
    BY <1>6 DEF Surjection
  <2>2. Cardinality(before[i]) = n - 1
    BY <1>2, <1>3, <2>1
  <2>3. q[n] = CHOOSE k \in P : Cardinality(before[k]) = n - 1
    BY <1>1 DEF Ranked
  <2>4. q[n] \in P /\ Cardinality(before[q[n]]) = n - 1
    BY <2>2, <2>3
  <2> QED BY <1>2, <2>4
<1>8. DOMAIN q = 1..N
  BY <1>1 DEF Ranked
<1>9. ASSUME NEW m \in 1..N, NEW n \in 1..N, m < n
      PROVE  q[m] \in before[q[n]]
  <2>1. q[m] \in P /\ q[n] \in P /\ r[q[m]] = m /\ r[q[n]] = n
    BY <1>7
  <2>2. q[m] # q[n]
    BY <1>9, <2>1
  <2>3. ~(q[n] \in before[q[m]])
    BY <1>4, <1>9, <2>1
  <2> QED BY <2>1, <2>2, <2>3 DEF Linear
<1>10. ASSUME NEW i \in P PROVE \E n \in 1..N : q[n] = i
  BY <1>3, <1>5, <1>7
<1> QED BY <1>1, <1>7, <1>8, <1>9, <1>10

Arranged(X, r, s, P, before) ==
    /\ r \in Seq(X)
    /\ \A x : x \in Range(r) <=> \E i \in P : x = s[i]
    /\ \E q : /\ \A n \in 1..Len(r) : q[n] \in P /\ r[n] = s[q[n]]
              /\ \A m, n \in 1..Len(r) : m < n => q[m] \in before[q[n]]

\* What a sequence has at positions in an order.
LEMMA AtRanks ==
    ASSUME NEW X, NEW s \in Seq(X), NEW P \in SUBSET DOMAIN s,
           NEW before, Linear(P, before), NEW r, r = At(s, Ranked(before))
    PROVE  Arranged(X, r, s, P, before)
<1>1. PICK q, N : q = Ranked(before) /\ N = Cardinality(P)
  OBVIOUS
<1>2. /\ N \in Nat /\ DOMAIN q = 1..N
      /\ \A n \in 1..N : q[n] \in P
      /\ \A m, n \in 1..N : m < n => q[m] \in before[q[n]]
      /\ \A i \in P : \E n \in 1..N : q[n] = i
  BY <1>1, RankedIs
<1>3. r = [n \in 1..N |-> s[q[n]]]
  BY <1>1, <1>2 DEF At
<1>4. \A n \in 1..N : s[q[n]] \in X
  BY <1>2
<1>5. r \in Seq(X) /\ Len(r) = N /\ DOMAIN r = 1..N
  BY <1>2, <1>3, <1>4
<1>6. ASSUME NEW x PROVE x \in Range(r) <=> \E i \in P : x = s[i]
  <2>1. \A i \in P : s[i] \in Range(r)
    <3> SUFFICES ASSUME NEW i \in P PROVE s[i] \in Range(r)
      OBVIOUS
    <3>1. PICK n \in 1..N : q[n] = i
      BY <1>2
    <3>2. r[n] = s[i] /\ n \in DOMAIN r
      BY <1>3, <1>5, <3>1
    <3> QED BY <3>2 DEF Range
  <2>2. ASSUME x \in Range(r) PROVE \E i \in P : x = s[i]
    <3>1. PICK n \in 1..N : x = r[n]
      BY <1>5, <2>2 DEF Range
    <3> QED BY <1>2, <1>3, <3>1
  <2> QED BY <2>1, <2>2
<1>7. \A n \in 1..Len(r) : q[n] \in P /\ r[n] = s[q[n]]
  BY <1>2, <1>3, <1>5
<1>8. \A m, n \in 1..Len(r) : m < n => q[m] \in before[q[n]]
  BY <1>2, <1>5
<1> QED BY <1>5, <1>6, <1>7, <1>8 DEF Arranged

LEMMA PositionsFinite ==
    ASSUME NEW X, NEW s \in Seq(X), NEW P \in SUBSET DOMAIN s
    PROVE  IsFiniteSet(P) /\ P \subseteq Nat
<1>1. DOMAIN s = 1..Len(s) /\ 1 \in Int /\ Len(s) \in Int
  OBVIOUS
<1>2. IsFiniteSet(1..Len(s))
  BY <1>1, FS_Interval
<1> QED BY <1>1, <1>2, FS_Subset

RetainedOf(X, r, s, P) ==
    /\ r \in Seq(X)
    /\ \A x : x \in Range(r) <=> \E i \in P : x = s[i]
    /\ \E q : /\ \A n \in 1..Len(r) : q[n] \in P /\ r[n] = s[q[n]]
              /\ \A m, n \in 1..Len(r) : m < n => q[m] < q[n]

LEMMA RetainedIs ==
    ASSUME NEW X, NEW s \in Seq(X), NEW P \in SUBSET DOMAIN s, NEW r, r = Retained(s, P)
    PROVE  RetainedOf(X, r, s, P)
<1>1. PICK before : before = [i \in P |-> {j \in P : j < i}]
  OBVIOUS
<1>2. P \subseteq Nat /\ IsFiniteSet(P)
  BY PositionsFinite
<1>3. \A i, j \in P : j \in before[i] <=> j < i
  BY <1>1
<1>4. Linear(P, before)
  BY <1>1, <1>2, <1>3 DEF Linear
<1>5. r = At(s, Ranked(before))
  BY <1>1 DEF Retained
<1>6. Arranged(X, r, s, P, before)
  BY <1>4, <1>5, AtRanks
<1>7. PICK q : /\ \A n \in 1..Len(r) : q[n] \in P /\ r[n] = s[q[n]]
               /\ \A m, n \in 1..Len(r) : m < n => q[m] \in before[q[n]]
  BY <1>6 DEF Arranged
<1>8. \A m, n \in 1..Len(r) : m < n => q[m] < q[n]
  BY <1>3, <1>7
<1> QED BY <1>6, <1>7, <1>8 DEF Arranged, RetainedOf

OrderOf(X, r, s, w) ==
    /\ r \in Seq(X)
    /\ \A x : x \in Range(r) <=> x \in Range(s)
    /\ \E q : /\ \A n \in 1..Len(r) : q[n] \in DOMAIN s /\ r[n] = s[q[n]]
              /\ \A m, n \in 1..Len(r) : m < n => q[m] # q[n] /\ w[q[m]] >= w[q[n]]

LEMMA InOrderIs ==
    ASSUME NEW X, NEW s \in Seq(X), NEW w, \A i \in DOMAIN s : w[i] \in Nat,
           NEW r, r = InOrder(s, w)
    PROVE  OrderOf(X, r, s, w)
<1> DEFINE P == DOMAIN s
           Sooner(j, i) == w[j] > w[i] \/ (w[j] = w[i] /\ j < i)
<1>1. PICK before : before = [i \in P |-> {j \in P : Sooner(j, i)}]
  OBVIOUS
<1>2. P \subseteq Nat /\ IsFiniteSet(P) /\ \A i \in P : w[i] \in Nat
  BY PositionsFinite
<1>3. DOMAIN before = P /\ \A i \in P : before[i] = {j \in P : Sooner(j, i)}
  BY <1>1
<1>4. r = At(s, Ranked(before))
  BY <1>1 DEF InOrder
<1>5. P \in SUBSET DOMAIN s /\ \A x : x \in Range(s) <=> \E i \in P : x = s[i]
  BY DEF Range
<1> HIDE DEF P
<1>6. Linear(P, before)
  <2>1. \A i \in P : before[i] \in SUBSET P /\ i \notin before[i]
    BY <1>2, <1>3
  <2>2. ASSUME NEW i \in P, NEW j \in P, i # j
        PROVE  i \in before[j] \/ j \in before[i]
    <3>1. w[i] \in Nat /\ w[j] \in Nat /\ i \in Nat /\ j \in Nat
      BY <1>2
    <3>2. Sooner(i, j) \/ Sooner(j, i)
      BY <2>2, <3>1
    <3> QED BY <1>3, <3>2
  <2>3. ASSUME NEW i \in P, NEW j \in P, NEW k \in P, i \in before[j], j \in before[k]
        PROVE  i \in before[k]
    <3>1. w[i] \in Nat /\ w[j] \in Nat /\ w[k] \in Nat /\ i \in Nat /\ j \in Nat /\ k \in Nat
      BY <1>2
    <3>2. Sooner(i, j) /\ Sooner(j, k)
      BY <1>3, <2>3
    <3>3. Sooner(i, k)
      BY <3>1, <3>2
    <3> QED BY <1>3, <3>3
  <2> QED BY <1>2, <1>3, <2>1, <2>2, <2>3 DEF Linear
<1>7. Arranged(X, r, s, P, before)
  BY <1>4, <1>5, <1>6, AtRanks
<1>8. PICK q : /\ \A n \in 1..Len(r) : q[n] \in P /\ r[n] = s[q[n]]
               /\ \A m, n \in 1..Len(r) : m < n => q[m] \in before[q[n]]
  BY <1>7 DEF Arranged
<1>9. \A m, n \in 1..Len(r) : m < n => q[m] # q[n] /\ w[q[m]] >= w[q[n]]
  <2>1. \A i, j \in P : j \in before[i] => j # i /\ w[j] >= w[i]
    BY <1>2, <1>3
  <2> QED BY <1>8, <2>1
<1>10. r \in Seq(X) /\ \A x : x \in Range(r) <=> \E i \in P : x = s[i]
  BY <1>7 DEF Arranged
<1>11. \A n \in 1..Len(r) : q[n] \in DOMAIN s /\ r[n] = s[q[n]]
  BY <1>5, <1>8
<1> QED BY <1>5, <1>9, <1>10, <1>11 DEF OrderOf

\* Rows with ids of their own keep them.
IdsApart(s) == \A i, j \in 1..Len(s) : s[i].id = s[j].id => i = j

LEMMA RetainedApart ==
    ASSUME NEW X, NEW s \in Seq(X), NEW P \in SUBSET DOMAIN s, IdsApart(s)
    PROVE  IdsApart(Retained(s, P))
<1>1. PICK r : r = Retained(s, P)
  OBVIOUS
<1>2. PICK q : /\ \A n \in 1..Len(r) : q[n] \in P /\ r[n] = s[q[n]]
               /\ \A m, n \in 1..Len(r) : m < n => q[m] < q[n]
  <2>1. RetainedOf(X, r, s, P)
    BY <1>1, RetainedIs
  <2> QED BY <2>1 DEF RetainedOf
<1>3. r \in Seq(X)
  BY <1>1, RetainedIs DEF RetainedOf
<1>4. Len(r) \in Nat /\ P \subseteq 1..Len(s)
  BY <1>3
<1>5. ASSUME NEW m \in 1..Len(r), NEW n \in 1..Len(r), r[m].id = r[n].id
      PROVE  m = n
  <2>1. q[m] = q[n] /\ q[m] \in Nat /\ q[n] \in Nat
    BY <1>2, <1>4, <1>5 DEF IdsApart
  <2> QED BY <1>2, <1>4, <2>1
<1> QED BY <1>1, <1>5 DEF IdsApart

LEMMA OrderApart ==
    ASSUME NEW X, NEW s \in Seq(X), NEW w, \A i \in DOMAIN s : w[i] \in Nat, IdsApart(s)
    PROVE  IdsApart(InOrder(s, w))
<1>1. PICK r : r = InOrder(s, w)
  OBVIOUS
<1>o. OrderOf(X, r, s, w)
  BY <1>1, InOrderIs
<1>2. PICK q : /\ \A n \in 1..Len(r) : q[n] \in DOMAIN s /\ r[n] = s[q[n]]
               /\ \A m, n \in 1..Len(r) : m < n => q[m] # q[n] /\ w[q[m]] >= w[q[n]]
  BY <1>o, Zenon DEF OrderOf
<1>3. r \in Seq(X)
  BY <1>o DEF OrderOf
<1>4. Len(r) \in Nat /\ DOMAIN s = 1..Len(s)
  BY <1>3
<1>5. ASSUME NEW m \in 1..Len(r), NEW n \in 1..Len(r), r[m].id = r[n].id
      PROVE  m = n
  <2>0. q[m] \in 1..Len(s) /\ q[n] \in 1..Len(s) /\ s[q[m]].id = s[q[n]].id
    BY <1>2, <1>4, <1>5
  <2>1. q[m] = q[n]
    BY <2>0 DEF IdsApart
  <2> QED BY <1>2, <1>4, <2>1
<1> QED BY <1>1, <1>5 DEF IdsApart

\* Sequences with the same members are empty together.
LEMMA NoMembers ==
    ASSUME NEW X, NEW s \in Seq(X)
    PROVE  s = <<>> <=> \A x : x \notin Range(s)
<1>1. s = <<>> => \A x : x \notin Range(s)
  BY DEF Range
<1>2. ASSUME s # <<>> PROVE \E x : x \in Range(s)
  <2>1. 1 \in DOMAIN s
    BY <1>2
  <2> QED BY <2>1 DEF Range
<1> QED BY <1>1, <1>2

\* The first of those that agree in their ids.
LEMMA FirstsApart ==
    ASSUME NEW X, NEW s \in Seq(X), NEW keys, keys = [i \in DOMAIN s |-> s[i].id],
           NEW r, r = FirstEach(s, keys)
    PROVE  /\ r \in Seq(X) /\ IdsApart(r)
           /\ \A x \in Range(r) : x \in Range(s)
           /\ r = <<>> <=> s = <<>>
<1>1. PICK P : P = {i \in DOMAIN s : \A j \in 1..(i - 1) : keys[j] # keys[i]}
  OBVIOUS
<1>2. P \in SUBSET DOMAIN s /\ r = Retained(s, P) /\ DOMAIN s = 1..Len(s) /\ Len(s) \in Nat
  BY <1>1 DEF FirstEach
<1>0. RetainedOf(X, r, s, P)
  BY <1>2, RetainedIs
<1>3. r \in Seq(X) /\ \A x : x \in Range(r) <=> \E i \in P : x = s[i]
  BY <1>0 DEF RetainedOf
<1>4. PICK q : /\ \A n \in 1..Len(r) : q[n] \in P /\ r[n] = s[q[n]]
               /\ \A m, n \in 1..Len(r) : m < n => q[m] < q[n]
  BY <1>0 DEF RetainedOf
<1>5. ASSUME NEW m \in 1..Len(r), NEW n \in 1..Len(r), m < n
      PROVE  r[m].id # r[n].id
  <2>1. q[m] \in P /\ q[n] \in P /\ q[m] < q[n]
    BY <1>4, <1>5
  <2>2. q[m] \in 1..(q[n] - 1)
    BY <1>2, <2>1
  <2>3. keys[q[m]] # keys[q[n]]
    BY <1>1, <2>1, <2>2
  <2> QED BY <1>2, <1>4, <2>1, <2>3
<1>6. IdsApart(r)
  <2>1. Len(r) \in Nat
    BY <1>3
  <2> QED BY <1>5, <2>1 DEF IdsApart
<1>7. \A x \in Range(r) : x \in Range(s)
  BY <1>2, <1>3 DEF Range
<1>8. ASSUME s # <<>> PROVE r # <<>>
  <2>1. 1 \in P
    <3>1. \A j \in 1..(1 - 1) : FALSE
      OBVIOUS
    <3> QED BY <1>1, <1>2, <1>8, <3>1
  <2>2. s[1] \in Range(r)
    BY <1>3, <2>1
  <2> QED BY <1>3, <2>2, NoMembers
<1>9. ASSUME s = <<>> PROVE r = <<>>
  <2>1. \A x : x \notin Range(r)
    BY <1>7, <1>9, NoMembers
  <2> QED BY <1>3, <2>1, NoMembers
<1> QED BY <1>3, <1>6, <1>7, <1>8, <1>9

WithinArea(x, area) == area \in {Everywhere, x.area}

LEMMA WithinIs ==
    ASSUME NEW s \in Seq(Item), NEW area, NEW r, r = Within(s, area)
    PROVE  /\ r \in Seq(Item)
           /\ \A x : x \in Range(r) <=> x \in Range(s) /\ WithinArea(x, area)
<1>1. PICK P : P = {i \in DOMAIN s : WithinArea(s[i], area)}
  OBVIOUS
<1>2. P \in SUBSET DOMAIN s /\ r = Retained(s, P)
  BY <1>1 DEF Within, WithinArea
<1>3. r \in Seq(Item) /\ \A x : x \in Range(r) <=> \E i \in P : x = s[i]
  BY <1>2, RetainedIs DEF RetainedOf
<1>4. \A x : x \in Range(s) /\ WithinArea(x, area) <=> \E i \in P : x = s[i]
  BY <1>1 DEF Range
<1> QED BY <1>3, <1>4

LEMMA AsItemIs ==
    ASSUME NEW f \in Finding
    PROVE  AsItem(f) \in Item /\ AsItem(f).id = f.id /\ AsItem(f).area = f.area
BY DEF AsItem, Item, Finding

\* The key of a finding, and the rows that are the first of their key.
Key(f) == <<f.source, f.id, f.about>>

LeadRows(rows) == {i \in DOMAIN rows : \A j \in 1..(i - 1) : Key(rows[j]) # Key(rows[i])}

Names(f, area) == f.id # "" /\ WithinArea(f, area)

LiveFrom(rows, live, area) ==
    /\ live \in Seq(Item) /\ IdsApart(live)
    /\ \A x \in Range(live) : WithinArea(x, area) /\ \E f \in Range(rows) : f.id = x.id
    /\ live = <<>> <=> \A i \in LeadRows(rows) : ~Names(rows[i], area)

\* What the live findings show: resources of the area, each once, and some if one of
\* the findings that are the first of their key names one.
LEMMA LiveAre ==
    ASSUME NEW rows \in Seq(Finding), NEW area,
           NEW live, live = OfResources(Within(ItemsOf(Identified(BySaving(Met(rows)))), area))
    PROVE  LiveFrom(rows, live, area)
<1>1. PICK a : a = Met(rows)
  OBVIOUS
<1>2. a \in Seq(Finding) /\ \A x : x \in Range(a) <=> \E i \in LeadRows(rows) : x = rows[i]
  <2>1. LeadRows(rows) \in SUBSET DOMAIN rows
    BY DEF LeadRows
  <2>2. a = Retained(rows, LeadRows(rows))
    <3>1. PICK keys : keys = [i \in DOMAIN rows |-> Key(rows[i])]
      OBVIOUS
    <3>2. a = FirstEach(rows, keys)
      BY <1>1, <3>1 DEF Met, Key
    <3>3. {i \in DOMAIN rows : \A j \in 1..(i - 1) : keys[j] # keys[i]} = LeadRows(rows)
      <4>1. \A i \in DOMAIN rows : \A j \in 1..(i - 1) : j \in DOMAIN rows
        OBVIOUS
      <4> QED BY <3>1, <4>1 DEF LeadRows
    <3> QED BY <3>2, <3>3 DEF FirstEach
  <2> QED BY <2>1, <2>2, RetainedIs DEF RetainedOf
<1>3. PICK b : b = BySaving(a)
  OBVIOUS
<1>4. b \in Seq(Finding) /\ \A x : x \in Range(b) <=> x \in Range(a)
  <2>1. PICK w : w = [i \in DOMAIN a |-> a[i].saving]
    OBVIOUS
  <2>2. b = InOrder(a, w)
    BY <1>3, <2>1 DEF BySaving
  <2>3. \A i \in DOMAIN a : w[i] \in Nat
    <3>1. \A i \in DOMAIN a : a[i] \in Finding
      BY <1>2
    <3> QED BY <2>1, <3>1 DEF Finding
  <2> QED BY <1>2, <2>2, <2>3, InOrderIs DEF OrderOf
<1>5. PICK c : c = Identified(b)
  OBVIOUS
<1>6. c \in Seq(Finding) /\ \A x : x \in Range(c) <=> x \in Range(b) /\ x.id # ""
  <2>1. PICK P : P = {i \in DOMAIN b : b[i].id # ""}
    OBVIOUS
  <2>2. P \in SUBSET DOMAIN b /\ c = Retained(b, P)
    BY <1>5, <2>1 DEF Identified
  <2>3. c \in Seq(Finding) /\ \A x : x \in Range(c) <=> \E i \in P : x = b[i]
    BY <1>4, <2>2, RetainedIs DEF RetainedOf
  <2>4. \A x : x \in Range(b) /\ x.id # "" <=> \E i \in P : x = b[i]
    BY <2>1 DEF Range
  <2> QED BY <2>3, <2>4
<1>7. PICK d : d = ItemsOf(c)
  OBVIOUS
<1>8. d \in Seq(Item) /\ \A x : x \in Range(d) <=> \E f \in Range(c) : x = AsItem(f)
  <2>0. c \in Seq(Finding)
    BY <1>6
  <2>1. DOMAIN c = 1..Len(c) /\ Len(c) \in Nat /\ \A i \in 1..Len(c) : c[i] \in Finding
    BY <2>0
  <2>2. d = [i \in 1..Len(c) |-> AsItem(c[i])]
    BY <1>7, <2>1 DEF ItemsOf
  <2>3. \A i \in 1..Len(c) : AsItem(c[i]) \in Item
    BY <2>1, AsItemIs
  <2>4. d \in Seq(Item) /\ DOMAIN d = 1..Len(c)
    BY <2>1, <2>2, <2>3
  <2>5. \A x : x \in Range(d) <=> \E i \in 1..Len(c) : x = AsItem(c[i])
    BY <2>2, <2>4 DEF Range
  <2>6. \A f : f \in Range(c) <=> \E i \in 1..Len(c) : f = c[i]
    BY <2>1 DEF Range
  <2>7. \A x : x \in Range(d) <=> \E f \in Range(c) : x = AsItem(f)
    <3> HIDE DEF ItemsOf
    <3> QED BY <2>5, <2>6
  <2> QED BY <2>4, <2>7
<1>9. PICK e : e = Within(d, area)
  OBVIOUS
<1>10. e \in Seq(Item) /\ \A x : x \in Range(e) <=> x \in Range(d) /\ WithinArea(x, area)
  BY <1>8, <1>9, WithinIs
<1>11. live = OfResources(e)
  BY <1>1, <1>3, <1>5, <1>7, <1>9
<1>12. /\ live \in Seq(Item) /\ IdsApart(live)
       /\ \A x \in Range(live) : x \in Range(e)
       /\ live = <<>> <=> e = <<>>
  <2>1. PICK keys : keys = [i \in DOMAIN e |-> e[i].id]
    OBVIOUS
  <2>2. live = FirstEach(e, keys)
    BY <1>11, <2>1 DEF OfResources, ResourceOf
  <2> QED BY <1>10, <2>1, <2>2, FirstsApart
<1>13. \A i \in LeadRows(rows) : rows[i] \in Finding /\ rows[i] \in Range(rows)
  BY DEF LeadRows, Range
<1>14. \A x : x \in Range(e) <=>
          \E i \in LeadRows(rows) : x = AsItem(rows[i]) /\ rows[i].id # "" /\ WithinArea(x, area)
  BY <1>2, <1>4, <1>6, <1>8, <1>10
<1>15. ASSUME NEW i \in LeadRows(rows)
       PROVE  /\ AsItem(rows[i]).id = rows[i].id
              /\ WithinArea(AsItem(rows[i]), area) <=> WithinArea(rows[i], area)
  BY <1>13, AsItemIs DEF WithinArea
<1>16. \A x \in Range(live) : WithinArea(x, area) /\ \E f \in Range(rows) : f.id = x.id
  <2> SUFFICES ASSUME NEW x \in Range(live)
               PROVE  WithinArea(x, area) /\ \E f \in Range(rows) : f.id = x.id
    OBVIOUS
  <2>1. x \in Range(e)
    BY <1>12
  <2>2. PICK i \in LeadRows(rows) : x = AsItem(rows[i]) /\ WithinArea(x, area)
    BY <1>14, <2>1
  <2>3. rows[i].id = x.id /\ rows[i] \in Range(rows)
    BY <1>13, <1>15, <2>2
  <2> QED BY <2>2, <2>3
<1>17. (\E x : x \in Range(e)) <=> \E i \in LeadRows(rows) : Names(rows[i], area)
  BY <1>14, <1>15 DEF Names
<1>18. e = <<>> <=> \A x : x \notin Range(e)
  BY <1>10, NoMembers
<1> QED BY <1>12, <1>16, <1>17, <1>18 DEF LiveFrom

FirstMembers(A, s, n) ==
    /\ FirstOf(s, n) \in Seq(A)
    /\ Len(FirstOf(s, n)) = (IF n < Len(s) THEN n ELSE Len(s))
    /\ \A i \in 1..Len(FirstOf(s, n)) : FirstOf(s, n)[i] = s[i]

LEMMA FirstOfIs ==
    ASSUME NEW A, NEW s \in Seq(A), NEW n \in Nat
    PROVE  FirstMembers(A, s, n)
<1>1. PICK m : m = IF n < Len(s) THEN n ELSE Len(s)
  OBVIOUS
<1>2. m \in 0..Len(s) /\ Len(s) \in Nat
  BY <1>1
<1>3. FirstOf(s, n) = SubSeq(s, 1, m)
  BY <1>1 DEF FirstOf
<1>4. SubSeq(s, 1, m) \in Seq(A) /\ Len(SubSeq(s, 1, m)) = m
      /\ \A i \in 1..m : SubSeq(s, 1, m)[i] = s[i]
  BY <1>2
<1> QED BY <1>1, <1>3, <1>4 DEF FirstMembers

\* What is left of a limit after the first part is taken from the second one.
LEMMA FirstJoin ==
    ASSUME NEW A, NEW p \in Seq(A), NEW q \in Seq(A), NEW n \in Nat
    PROVE  FirstOf(p, n) \o FirstOf(q, n - Len(FirstOf(p, n))) = FirstOf(p \o q, n)
<1>1. PICK a : a = FirstOf(p, n)
  OBVIOUS
<1>2. a \in Seq(A) /\ Len(a) = (IF n < Len(p) THEN n ELSE Len(p))
      /\ \A i \in 1..Len(a) : a[i] = p[i]
  BY <1>1, FirstOfIs DEF FirstMembers
<1>3. PICK k : k = n - Len(a)
  OBVIOUS
<1>4. k \in Nat /\ Len(p) \in Nat /\ Len(q) \in Nat /\ Len(a) \in Nat
  BY <1>2, <1>3
<1>5. PICK b : b = FirstOf(q, k)
  OBVIOUS
<1>6. b \in Seq(A) /\ Len(b) = (IF k < Len(q) THEN k ELSE Len(q))
      /\ \A i \in 1..Len(b) : b[i] = q[i]
  BY <1>4, <1>5, FirstOfIs DEF FirstMembers
<1>7. PICK w : w = p \o q
  OBVIOUS
<1>8. w \in Seq(A) /\ Len(w) = Len(p) + Len(q)
      /\ (\A i \in 1..Len(p) : w[i] = p[i])
      /\ \A i \in 1..Len(q) : w[Len(p) + i] = q[i]
  BY <1>7
<1>9. PICK c : c = FirstOf(w, n)
  OBVIOUS
<1>10. c \in Seq(A) /\ Len(c) = (IF n < Len(w) THEN n ELSE Len(w))
       /\ \A i \in 1..Len(c) : c[i] = w[i]
  BY <1>8, <1>9, FirstOfIs DEF FirstMembers
<1>11. PICK d : d = a \o b
  OBVIOUS
<1>12. d \in Seq(A) /\ Len(d) = Len(a) + Len(b) /\ Len(b) \in Nat
       /\ (\A i \in 1..Len(a) : d[i] = a[i])
       /\ \A i \in 1..Len(b) : d[Len(a) + i] = b[i]
  <2>1. a \in Seq(A) /\ b \in Seq(A)
    BY <1>2, <1>6
  <2> QED BY <1>11, <2>1
<1>13. Len(d) = Len(c)
  <2>1. Len(w) = Len(p) + Len(q)
    BY <1>8
  <2>2. CASE n < Len(p)
    <3>1. Len(a) = n /\ k = 0 /\ Len(b) = 0
      BY <1>2, <1>3, <1>4, <1>6, <2>2
    <3>2. Len(c) = n
      BY <1>4, <1>10, <2>1, <2>2
    <3> QED BY <1>12, <3>1, <3>2
  <2>3. CASE ~(n < Len(p))
    <3>1. Len(a) = Len(p) /\ k = n - Len(p)
      BY <1>2, <1>3, <2>3
    <3>2. Len(b) = IF n - Len(p) < Len(q) THEN n - Len(p) ELSE Len(q)
      BY <1>6, <3>1
    <3>3. Len(c) = IF n < Len(p) + Len(q) THEN n ELSE Len(p) + Len(q)
      BY <1>10, <2>1
    <3> QED BY <1>4, <1>12, <2>3, <3>1, <3>2, <3>3
  <2> QED BY <2>2, <2>3
<1>14. ASSUME NEW i \in 1..Len(d) PROVE d[i] = c[i]
  <2>1. CASE i <= Len(a)
    <3>1. i \in 1..Len(a) /\ i \in 1..Len(p)
      BY <1>2, <1>4, <1>12, <2>1
    <3> QED BY <1>2, <1>8, <1>10, <1>12, <1>13, <3>1
  <2>2. CASE i > Len(a)
    <3>1. PICK j : j = i - Len(a)
      OBVIOUS
    <3>2. j \in 1..Len(b) /\ i = Len(a) + j
      BY <1>4, <1>12, <2>2, <3>1
    <3>3. Len(a) = Len(p) /\ j \in 1..Len(q)
      BY <1>2, <1>3, <1>4, <1>6, <3>2
    <3>4. d[i] = q[j]
      BY <1>6, <1>12, <3>2
    <3>5. w[i] = q[j]
      BY <1>8, <3>2, <3>3
    <3> QED BY <1>10, <1>13, <3>4, <3>5
  <2> QED BY <1>4, <2>1, <2>2
<1>15. d = c
  BY <1>10, <1>12, <1>13, <1>14, SeqEqual
<1> QED BY <1>1, <1>3, <1>5, <1>7, <1>9, <1>11, <1>15

\* FindingRows is the solution of an equation over the sources.
CutRule(ss, n, g, i) == IF i = 0 THEN <<>> ELSE g[i - 1] \o FirstOf(ss[i], n - Len(g[i - 1]))

CutSolution(g, ss, n, L) == g = [i \in 0..L |-> CutRule(ss, n, g, i)]

LEMMA CutUnfold ==
    ASSUME NEW n
    PROVE  FindingRows(n) = (CHOOSE g : CutSolution(g, findings, n, Len(findings)))[Len(findings)]
BY Zenon DEF FindingRows, CutSolution, CutRule

LEMMA CutSolvable ==
    ASSUME NEW ss, NEW n, NEW L \in Nat
    PROVE  \E g : CutSolution(g, ss, n, L)
<1> DEFINE T == {m \in Nat : ~\E g : CutSolution(g, ss, n, m)}
<1>1. T = {}
  <2> SUFFICES ASSUME T # {} PROVE FALSE
    OBVIOUS
  <2>1. PICK m \in T : \A k \in T : m <= k
    <3> T \in SUBSET Nat OBVIOUS
    <3> HIDE DEF T
    <3> QED BY LeastNumber
  <2>2. m # 0
    <3> SUFFICES ASSUME m = 0 PROVE FALSE OBVIOUS
    <3> DEFINE g == [i \in 0..0 |-> <<>>]
    <3>1. \A i \in 0..0 : CutRule(ss, n, g, i) = <<>>
      BY DEF CutRule
    <3>2. CutSolution(g, ss, n, 0)
      BY <3>1 DEF CutSolution
    <3> QED BY <3>2
  <2>3. m - 1 \in Nat /\ m - 1 \notin T
    <3> m \in Nat OBVIOUS
    <3> HIDE DEF T
    <3> QED BY <2>1, <2>2
  <2>4. PICK g : CutSolution(g, ss, n, m - 1)
    BY <2>3
  <2> DEFINE h == [i \in 0..m |-> CutRule(ss, n, g, i)]
  <2>5. ASSUME NEW i \in 0..m
        PROVE  CutRule(ss, n, g, i) = CutRule(ss, n, h, i)
    <3>1. CASE i = 0
      BY <3>1 DEF CutRule
    <3>2. CASE i # 0
      <4>1. i - 1 \in 0..(m - 1) /\ i - 1 \in 0..m
        BY <3>2, <2>3
      <4>2. g[i - 1] = CutRule(ss, n, g, i - 1)
        BY <2>4, <4>1 DEF CutSolution
      <4>3. h[i - 1] = CutRule(ss, n, g, i - 1)
        BY <4>1
      <4> QED BY <3>2, <4>2, <4>3 DEF CutRule
    <3> QED BY <3>1, <3>2
  <2>6. CutSolution(h, ss, n, m)
    BY <2>5 DEF CutSolution
  <2> QED BY <2>1, <2>6
<1> QED BY <1>1

\* Each source is cut to what is left: together they are cut to the limit.
LEMMA FindingsAre ==
    ASSUME findings \in Seq(Seq(Finding)), NEW n \in Nat
    PROVE  FindingRows(n) = FirstOf(FlattenSeq(findings), n)
<1>1. PICK L : L = Len(findings)
  OBVIOUS
<1>2. L \in Nat /\ \A i \in 1..L : findings[i] \in Seq(Finding)
  BY <1>1
<1>0. PICK g : FlatBy(g, Finding, findings, L)
  BY <1>1, FlatIs
<1>3. /\ \A i \in 0..L : g[i] \in Seq(Finding)
     /\ g[0] = <<>> /\ g[L] = FlattenSeq(findings)
     /\ \A i \in 1..L : g[i] = g[i - 1] \o findings[i]
  BY <1>0 DEF FlatBy
<1>4. PICK h : CutSolution(h, findings, n, L) /\ h = (CHOOSE f : CutSolution(f, findings, n, L))
  BY <1>2, CutSolvable
<1>5. h[L] = FindingRows(n)
  BY <1>1, <1>4, CutUnfold
<1>6. \A i \in 0..L : h[i] = CutRule(findings, n, h, i)
  BY <1>4 DEF CutSolution
<1> DEFINE T == {i \in 0..L : h[i] # FirstOf(g[i], n)}
<1>7. T = {}
  <2> SUFFICES ASSUME T # {} PROVE FALSE
    OBVIOUS
  <2>1. PICK m \in T : \A k \in T : m <= k
    <3> T \in SUBSET Nat OBVIOUS
    <3> HIDE DEF T
    <3> QED BY LeastNumber
  <2>2. m \in 0..L /\ h[m] # FirstOf(g[m], n)
    OBVIOUS
  <2>3. m # 0
    <3>1. FirstOf(<<>>, n) = <<>>
      BY DEF FirstOf
    <3>2. h[0] = <<>>
      BY <1>2, <1>6 DEF CutRule
    <3> QED BY <1>3, <2>2, <3>1, <3>2
  <2>4. m - 1 \in 0..L /\ m \in 1..L /\ m - 1 \notin T
    <3> HIDE DEF T
    <3> QED BY <1>2, <2>1, <2>2, <2>3
  <2>5. PICK p : p = g[m - 1]
    OBVIOUS
  <2>6. PICK q : q = findings[m]
    OBVIOUS
  <2>7. p \in Seq(Finding) /\ q \in Seq(Finding) /\ g[m] = p \o q
    BY <1>2, <1>3, <2>4, <2>5, <2>6
  <2>8. h[m - 1] = FirstOf(p, n)
    BY <2>4, <2>5
  <2>9. h[m] = FirstOf(p, n) \o FirstOf(q, n - Len(FirstOf(p, n)))
    BY <1>6, <2>2, <2>3, <2>6, <2>8 DEF CutRule
  <2>10. h[m] = FirstOf(p \o q, n)
    BY <2>7, <2>9, FirstJoin
  <2> QED BY <2>2, <2>7, <2>10
<1>8. h[L] = FirstOf(g[L], n)
  BY <1>2, <1>7
<1> QED BY <1>3, <1>5, <1>8

\* The findings that are the first of their key stay so when the list is longer.
LEMMA LeadRowsOfMore ==
    ASSUME NEW all \in Seq(Finding), NEW n \in Nat, NEW rows, rows = FirstOf(all, n)
    PROVE  /\ rows \in Seq(Finding)
           /\ \A x \in Range(rows) : x \in Range(all)
           /\ \A i \in LeadRows(rows) : i \in LeadRows(all) /\ rows[i] = all[i]
<1>1. rows \in Seq(Finding) /\ Len(rows) <= Len(all) /\ \A i \in 1..Len(rows) : rows[i] = all[i]
  BY FirstOfIs DEF FirstMembers
<1>2. DOMAIN rows = 1..Len(rows) /\ DOMAIN all = 1..Len(all) /\ Len(rows) \in Nat
      /\ 1..Len(rows) \subseteq 1..Len(all)
  BY <1>1
<1>3. \A i \in LeadRows(rows) : i \in LeadRows(all) /\ rows[i] = all[i]
  <2> SUFFICES ASSUME NEW i \in LeadRows(rows) PROVE i \in LeadRows(all) /\ rows[i] = all[i]
    OBVIOUS
  <2>1. i \in 1..Len(rows) /\ \A j \in 1..(i - 1) : Key(rows[j]) # Key(rows[i])
    BY <1>2 DEF LeadRows
  <2>2. \A j \in 1..(i - 1) : j \in 1..Len(rows)
    BY <1>2, <2>1
  <2>3. \A j \in 1..(i - 1) : rows[j] = all[j]
    BY <1>1, <2>2
  <2>4. rows[i] = all[i] /\ i \in DOMAIN all
    BY <1>1, <1>2, <2>1
  <2> QED BY <2>1, <2>3, <2>4 DEF LeadRows
<1>4. \A x \in Range(rows) : x \in Range(all)
  BY <1>1, <1>2 DEF Range
<1> QED BY <1>1, <1>3, <1>4

LiveOf(live, area) ==
    /\ live \in Seq(Item) /\ IdsApart(live)
    /\ \A x \in Range(live) :
          WithinArea(x, area) /\ \E f \in UNION {Range(s) : s \in Range(findings)} : f.id = x.id

\* Live rows are of the area; without any of the whole there are none of the first ones.
LEMMA LiveItemsAre ==
    ASSUME findings \in Seq(Seq(Finding)), NEW area, NEW n \in Nat
    PROVE  /\ LiveOf(LiveItems(area, n), area)
           /\ LiveItems(area, MaxFindings) = <<>> => LiveItems(area, n) = <<>>
<1>1. PICK all : all = FlattenSeq(findings)
  OBVIOUS
<1>2. all \in Seq(Finding) /\ \A x \in Range(all) : \E s \in Range(findings) : x \in Range(s)
  BY <1>1, FlatFrom
<1>3. MaxFindings = Len(all) /\ Len(all) \in Nat
  BY <1>1, <1>2 DEF MaxFindings
<1>4. FirstOf(all, Len(all)) = all
  BY <1>2 DEF FirstOf
<1>5. FindingRows(Len(all)) = all
  BY <1>1, <1>3, <1>4, FindingsAre
<1>6. PICK rows : rows = FindingRows(n)
  OBVIOUS
<1>7. rows = FirstOf(all, n)
  BY <1>1, <1>6, FindingsAre
<1>8. /\ rows \in Seq(Finding)
      /\ \A x \in Range(rows) : x \in Range(all)
      /\ \A i \in LeadRows(rows) : i \in LeadRows(all) /\ rows[i] = all[i]
  BY <1>2, <1>7, LeadRowsOfMore
<1>9. PICK live : live = LiveItems(area, n)
  OBVIOUS
<1>10. PICK whole : whole = LiveItems(area, Len(all))
  OBVIOUS
<1>11. LiveFrom(rows, live, area)
  <2>1. live = OfResources(Within(ItemsOf(Identified(BySaving(Met(rows)))), area))
    BY <1>6, <1>9 DEF LiveItems
  <2> QED BY <1>8, <2>1, LiveAre
<1>12. LiveFrom(all, whole, area)
  <2>1. whole = OfResources(Within(ItemsOf(Identified(BySaving(Met(all)))), area))
    BY <1>5, <1>10 DEF LiveItems
  <2> QED BY <1>2, <2>1, LiveAre
<1>13. ASSUME whole = <<>> PROVE live = <<>>
  <2>1. \A i \in LeadRows(all) : ~Names(all[i], area)
    BY <1>12, <1>13 DEF LiveFrom
  <2>2. \A i \in LeadRows(rows) : ~Names(rows[i], area)
    BY <1>8, <2>1
  <2> QED BY <1>11, <2>2 DEF LiveFrom
<1>14. LiveOf(live, area)
  <2>1. ASSUME NEW x \in Range(live)
        PROVE  WithinArea(x, area) /\ \E f \in UNION {Range(s) : s \in Range(findings)} : f.id = x.id
    <3>1. WithinArea(x, area) /\ \E f \in Range(rows) : f.id = x.id
      BY <1>11 DEF LiveFrom
    <3>2. PICK f \in Range(all) : f.id = x.id
      BY <1>8, <3>1
    <3>3. f \in UNION {Range(s) : s \in Range(findings)}
      BY <1>2, <3>2
    <3> QED BY <3>1, <3>2, <3>3
  <2> QED BY <1>11, <2>1 DEF LiveFrom, LiveOf
<1> QED BY <1>3, <1>9, <1>10, <1>13, <1>14

KnownTo(from) == CASE from = "live" -> UNION {Range(s) : s \in Range(findings)}
                   [] from = "accounts" -> Range(holders)
                   [] from = "import" -> Range(charges)
                   [] OTHER -> {}

\* Rows of one source, of an area, live ones each once.
OneSource(items, from, area) ==
    /\ items \in Seq(Item)
    /\ from = "live" => IdsApart(items)
    /\ \A x \in Range(items) :
          WithinArea(x, area) /\ \E k \in KnownTo(from) : k.id = x.id

LEMMA BestIs ==
    ASSUME holders \in Seq(Item), charges \in Seq(Item),
           NEW area, NEW live, LiveOf(live, area),
           NEW best, best = BestSource(live, area)
    PROVE  OneSource(best.items, best.from, area)
<1>1. PICK first : first = FirstEach(holders, [i \in DOMAIN holders |-> holders[i].id])
  OBVIOUS
<1>2. first \in Seq(Item) /\ \A x \in Range(first) : x \in Range(holders)
  BY <1>1, FirstsApart
<1>3. PICK held : held = HolderItems(area)
  OBVIOUS
<1>4. held = Within(first, area)
  BY <1>1, <1>3 DEF HolderItems
<1>5. held \in Seq(Item) /\ \A x : x \in Range(held) <=> x \in Range(first) /\ WithinArea(x, area)
  BY <1>2, <1>4, WithinIs
<1>6. PICK paid : paid = ChargeItems(area)
  OBVIOUS
<1>7. paid = Within(charges, area)
  BY <1>6 DEF ChargeItems
<1>8. paid \in Seq(Item) /\ \A x : x \in Range(paid) <=> x \in Range(charges) /\ WithinArea(x, area)
  BY <1>7, WithinIs
<1>9. /\ KnownTo("live") = UNION {Range(s) : s \in Range(findings)}
      /\ KnownTo("accounts") = Range(holders)
      /\ KnownTo("import") = Range(charges)
  BY DEF KnownTo
<1>10. CASE live # <<>>
  <2>1. best.items = live /\ best.from = "live"
    BY <1>10 DEF BestSource
  <2> QED BY <1>9, <2>1 DEF LiveOf, OneSource
<1>11. CASE live = <<>> /\ held # <<>>
  <2>1. best.items = held /\ best.from = "accounts"
    BY <1>3, <1>11 DEF BestSource
  <2> QED BY <1>2, <1>5, <1>9, <2>1 DEF OneSource
<1>12. CASE live = <<>> /\ held = <<>> /\ paid = <<>>
  <2>1. best.items = paid /\ best.from = "accounts"
    BY <1>3, <1>6, <1>12 DEF BestSource
  <2>2. \A x : x \notin Range(paid)
    BY <1>8, <1>12, NoMembers
  <2> QED BY <1>8, <1>9, <2>1, <2>2 DEF OneSource
<1>13. CASE live = <<>> /\ held = <<>> /\ paid # <<>>
  <2>1. best.items = paid /\ best.from = "import"
    BY <1>3, <1>6, <1>13 DEF BestSource
  <2> QED BY <1>8, <1>9, <2>1 DEF OneSource
<1> QED BY <1>10, <1>11, <1>12, <1>13

Descending(all) == \A i, j \in DOMAIN all : i < j => all[i].cost >= all[j].cost

\* The rows that were asked for, in the order of their cost.
LEMMA AllIs ==
    ASSUME NEW items, NEW from, NEW area, OneSource(items, from, area), NEW waste \in BOOLEAN,
           NEW all, all = ByCost(Asked(items, waste))
    PROVE  OneSource(all, from, area) /\ Descending(all)
<1>1. PICK a : a = Asked(items, waste)
  OBVIOUS
<1>2. items \in Seq(Item)
  BY DEF OneSource
<1>3. /\ a \in Seq(Item)
      /\ \A x \in Range(a) : x \in Range(items)
      /\ IdsApart(items) => IdsApart(a)
  <2>1. CASE ~waste
    BY <1>1, <1>2, <2>1 DEF Asked
  <2>2. CASE waste
    <3>1. PICK P : P = {i \in DOMAIN items : items[i].flagged}
      OBVIOUS
    <3>2. P \in SUBSET DOMAIN items /\ a = Retained(items, P)
      BY <1>1, <2>2, <3>1 DEF Asked
    <3>3. RetainedOf(Item, a, items, P)
      BY <1>2, <3>2, RetainedIs
    <3>4. a \in Seq(Item) /\ \A x \in Range(a) : x \in Range(items)
      BY <3>2, <3>3 DEF RetainedOf, Range
    <3> QED BY <1>2, <3>2, <3>4, RetainedApart
  <2> QED BY <2>1, <2>2
<1>4. PICK w : w = [i \in DOMAIN a |-> a[i].cost]
  OBVIOUS
<1>5. all = InOrder(a, w)
  BY <1>1, <1>4 DEF ByCost
<1>6. \A i \in DOMAIN a : w[i] \in Nat
  <2>1. \A i \in DOMAIN a : a[i] \in Item
    BY <1>3
  <2> QED BY <1>4, <2>1 DEF Item
<1>7. OrderOf(Item, all, a, w)
  BY <1>3, <1>5, <1>6, InOrderIs
<1>8. all \in Seq(Item) /\ \A x : x \in Range(all) <=> x \in Range(a)
  BY <1>7 DEF OrderOf
<1>9. IdsApart(items) => IdsApart(all)
  BY <1>3, <1>5, <1>6, OrderApart
<1>10. OneSource(all, from, area)
  BY <1>3, <1>8, <1>9 DEF OneSource
<1>11. Descending(all)
  <2>1. PICK q : /\ \A n \in 1..Len(all) : q[n] \in DOMAIN a /\ all[n] = a[q[n]]
                 /\ \A m, n \in 1..Len(all) : m < n => q[m] # q[n] /\ w[q[m]] >= w[q[n]]
    BY <1>7 DEF OrderOf
  <2>2. DOMAIN all = 1..Len(all)
    BY <1>8
  <2>3. \A n \in 1..Len(all) : w[q[n]] = all[n].cost
    BY <1>4, <2>1
  <2> QED BY <2>1, <2>2, <2>3 DEF Descending
<1> QED BY <1>10, <1>11

\* A page is what lies after the offset.
LEMMA PageIs ==
    ASSUME NEW all \in Seq(Item), NEW offset \in Nat, NEW n \in Nat
    PROVE  /\ Page(all, offset, n) \in Seq(Item)
           /\ \A x \in Range(Page(all, offset, n)) : x \in Range(all)
           /\ FirstOf(all, offset) \o Page(all, offset, n) = FirstOf(all, offset + n)
<1>1. PICK e : e = IF offset + n < Len(all) THEN offset + n ELSE Len(all)
  OBVIOUS
<1>2. PICK b : b = IF offset < Len(all) THEN offset ELSE Len(all)
  OBVIOUS
<1>3. PICK p : p = Page(all, offset, n)
  OBVIOUS
<1>4. p = SubSeq(all, offset + 1, e)
  BY <1>1, <1>3 DEF Page
<1>5. Len(all) \in Nat /\ e \in 0..Len(all) /\ b \in 0..e /\ DOMAIN all = 1..Len(all)
  BY <1>1, <1>2
<1>6. p = SubSeq(all, b + 1, e)
  <2>1. CASE offset < Len(all)
    BY <1>2, <1>4, <2>1
  <2>2. CASE ~(offset < Len(all))
    <3>1. b = Len(all) /\ e = Len(all) /\ e < offset + 1 /\ e < b + 1
      BY <1>1, <1>2, <1>5, <2>2
    <3> QED BY <1>4, <1>5, <3>1, SubSeqEmpty
  <2> QED BY <2>1, <2>2
<1>7. p \in Seq(Item) /\ Len(p) = e - b /\ \A i \in 1..(e - b) : p[i] = all[b + i]
  <2>1. \A i \in (b + 1)..e : all[i] \in Item
    BY <1>5
  <2>2. CASE b < e
    BY <1>5, <1>6, <2>1, <2>2
  <2>3. CASE b = e
    BY <1>5, <1>6, <2>1, <2>3
  <2> QED BY <1>5, <2>2, <2>3
<1>8. \A x \in Range(p) : x \in Range(all)
  <2>1. DOMAIN p = 1..(e - b) /\ \A i \in 1..(e - b) : b + i \in 1..Len(all)
    BY <1>5, <1>7
  <2> QED BY <1>5, <1>7, <2>1 DEF Range
<1>9. FirstOf(all, offset) = SubSeq(all, 1, b) /\ FirstOf(all, offset + n) = SubSeq(all, 1, e)
  BY <1>1, <1>2 DEF FirstOf
<1>10. SubSeq(all, 1, b) \o p = SubSeq(all, 1, e)
  <2>1. PICK c : c = SubSeq(all, 1, b)
    OBVIOUS
  <2>2. PICK d : d = SubSeq(all, 1, e)
    OBVIOUS
  <2>3. c \in Seq(Item) /\ Len(c) = b /\ \A i \in 1..b : c[i] = all[i]
    BY <1>5, <2>1
  <2>4. d \in Seq(Item) /\ Len(d) = e /\ \A i \in 1..e : d[i] = all[i]
    BY <1>5, <2>2
  <2>5. /\ c \o p \in Seq(Item) /\ Len(c \o p) = Len(c) + Len(p)
        /\ \A i \in 1..Len(c) : (c \o p)[i] = c[i]
        /\ \A i \in 1..Len(p) : (c \o p)[Len(c) + i] = p[i]
    <3>1. c \in Seq(Item) /\ p \in Seq(Item)
      BY <1>7, <2>3
    <3> QED BY <3>1
  <2>8. Len(c \o p) = e
    BY <1>5, <1>7, <2>3, <2>5
  <2>6. ASSUME NEW i \in 1..e PROVE (c \o p)[i] = d[i]
    <3>1. CASE i <= b
      <4>1. i \in 1..b
        BY <1>5, <3>1
      <4> QED BY <2>3, <2>4, <2>5, <4>1
    <3>2. CASE i > b
      <4>1. PICK j : j = i - b
        OBVIOUS
      <4>2. j \in 1..(e - b) /\ b + j = i
        BY <1>5, <3>2, <4>1
      <4>3. (c \o p)[i] = p[j]
        BY <1>7, <2>3, <2>5, <4>2
      <4>4. p[j] = all[b + j]
        BY <1>7, <4>2
      <4>5. d[i] = all[i]
        BY <2>4
      <4>6. p[j] = all[i]
        BY <4>2, <4>4
      <4> QED BY <4>3, <4>5, <4>6
    <3>3. i <= b \/ i > b
      BY <1>5
    <3> QED BY <3>1, <3>2, <3>3, Zenon
  <2> QED BY <2>1, <2>2, <2>4, <2>5, <2>6, <2>8, SeqEqual
<1> QED BY <1>3, <1>7, <1>8, <1>9, <1>10

\* Pages that follow each other are the list.
LEMMA PagesJoin ==
    ASSUME NEW all \in Seq(Item), NEW size \in Nat \ {0}, NEW pages,
           pages = [k \in DOMAIN all |-> Page(all, (k - 1) * size, size)]
    PROVE  FlattenSeq(pages) = all
<1>1. PICK L : L = Len(all)
  OBVIOUS
<1>2. L \in Nat /\ DOMAIN all = 1..L
  BY <1>1
<1>3. \A k \in 0..L : k * size \in Nat
  BY <1>2
<1>4. ASSUME NEW k \in 1..L
      PROVE  (k - 1) * size \in Nat /\ k * size = (k - 1) * size + size
  BY <1>2
<1>5. \A k \in 1..L : pages[k] = Page(all, (k - 1) * size, size)
  BY <1>2
<1>6. \A k \in 1..L : Page(all, (k - 1) * size, size) \in Seq(Item)
  BY <1>4, PageIs
<1>7. pages \in Seq(Seq(Item)) /\ Len(pages) = L
  <2>1. pages = [k \in 1..L |-> Page(all, (k - 1) * size, size)]
    BY <1>2
  <2> QED BY <1>2, <1>6, <2>1
<1>0. PICK g : FlatBy(g, Item, pages, L)
  BY <1>7, FlatIs
<1>8. /\ \A i \in 0..L : g[i] \in Seq(Item)
     /\ g[0] = <<>> /\ g[L] = FlattenSeq(pages)
     /\ \A i \in 1..L : g[i] = g[i - 1] \o pages[i]
  BY <1>0 DEF FlatBy
<1> DEFINE T == {i \in 0..L : g[i] # FirstOf(all, i * size)}
<1>9. T = {}
  <2> SUFFICES ASSUME T # {} PROVE FALSE
    OBVIOUS
  <2>1. PICK m \in T : \A k \in T : m <= k
    <3> T \in SUBSET Nat OBVIOUS
    <3> HIDE DEF T
    <3> QED BY LeastNumber
  <2>2. m \in 0..L /\ g[m] # FirstOf(all, m * size)
    OBVIOUS
  <2>3. m # 0
    <3>1. FirstOf(all, 0) = <<>>
      <4>1. all \in Seq(Item) /\ Len(all) \in Nat
        BY <1>1
      <4>2. (IF 0 < Len(all) THEN 0 ELSE Len(all)) = 0
        BY <4>1
      <4>3. FirstOf(all, 0) = SubSeq(all, 1, 0)
        BY <4>2, Zenon DEF FirstOf
      <4> QED BY <4>1, <4>3
    <3>2. 0 * size = 0
      OBVIOUS
    <3> QED BY <1>8, <2>2, <3>1, <3>2
  <2>4. m - 1 \in 0..L /\ m \in 1..L /\ m - 1 \notin T
    <3> HIDE DEF T
    <3> QED BY <1>2, <2>1, <2>2, <2>3
  <2>5. PICK o : o = (m - 1) * size
    OBVIOUS
  <2>6. o \in Nat /\ m * size = o + size
    BY <1>4, <2>4, <2>5
  <2>7. g[m - 1] = FirstOf(all, o)
    BY <2>4, <2>5
  <2>8. g[m] = FirstOf(all, o) \o Page(all, o, size)
    BY <1>5, <1>8, <2>4, <2>5, <2>7
  <2>9. g[m] = FirstOf(all, o + size)
    BY <2>6, <2>8, PageIs
  <2> QED BY <2>2, <2>6, <2>9
<1>10. g[L] = FirstOf(all, L * size)
  BY <1>2, <1>9
<1>11. L * size \in Nat /\ L * size >= L
  BY <1>2
<1>12. FirstOf(all, L * size) = SubSeq(all, 1, L)
  BY <1>1, <1>11 DEF FirstOf
<1>13. SubSeq(all, 1, L) = all
  BY <1>1
<1> QED BY <1>8, <1>10, <1>12, <1>13

\* The lists stay in their forms, and a page is one that they give.
Answered ==
    \E area : \E waste \in BOOLEAN, offset \in Nat, n \in PageSize :
       page = Inventory(area, waste, offset, n)

InventoryInv ==
    /\ findings \in Seq(Seq(Finding))
    /\ holders \in Seq(Item) /\ charges \in Seq(Item)
    /\ page = NoPage \/ Answered

LEMMA InventoryFirst == InventoryInit => InventoryInv
BY InventoryForms DEF InventoryInit, InventoryInv

\* An answer is about the lists and nothing else.
LEMMA SameAnswer ==
    ASSUME UNCHANGED <<findings, holders, charges>>
    PROVE  \A area, waste, offset, n : Inventory(area, waste, offset, n)' = Inventory(area, waste, offset, n)
<1>1. \A n : FindingRows(n)' = FindingRows(n)
  BY Zenon DEF FindingRows
<1>2. \A area, n : LiveItems(area, n)' = LiveItems(area, n)
  BY <1>1, Zenon DEF LiveItems
<1>3. \A area : HolderItems(area)' = HolderItems(area)
  BY Zenon DEF HolderItems
<1>4. \A area : ChargeItems(area)' = ChargeItems(area)
  BY Zenon DEF ChargeItems
<1>5. \A live, area : BestSource(live, area)' = BestSource(live, area)
  BY <1>3, <1>4, Zenon DEF BestSource
<1> QED BY <1>2, <1>5, ZenonT(30) DEF Inventory

LEMMA InventoryKept == InventoryInv /\ [InventoryNext]_inventoryVars => InventoryInv'
<1> SUFFICES ASSUME InventoryInv, [InventoryNext]_inventoryVars PROVE InventoryInv'
  OBVIOUS
<1>1. UNCHANGED <<findings, holders, charges>>
  BY DEF InventoryNext, GetInventory, inventoryVars
<1>2. \A area, waste, offset, n : Inventory(area, waste, offset, n)' = Inventory(area, waste, offset, n)
  BY <1>1, SameAnswer
<1>3. CASE UNCHANGED inventoryVars
  <2>1. page' = page
    BY <1>3 DEF inventoryVars
  <2>2. Answered => Answered'
    BY <1>2, <2>1 DEF Answered
  <2> QED BY <1>1, <2>1, <2>2 DEF InventoryInv
<1>4. CASE InventoryNext
  <2>0. PICK area : \E waste \in BOOLEAN, offset \in 0..MaxOffset, n \in PageSize :
           GetInventory(area, waste, offset, n)
    BY <1>4, Zenon DEF InventoryNext
  <2>1. PICK waste \in BOOLEAN, offset \in 0..MaxOffset, n \in PageSize :
           GetInventory(area, waste, offset, n)
    BY <2>0
  <2>2. page' = Inventory(area, waste, offset, n)'
    BY <1>2, <2>1 DEF GetInventory
  <2>3. offset \in Nat
    BY InventoryForms
  <2>4. Answered'
    BY <2>2, <2>3 DEF Answered
  <2> QED BY <1>1, <2>4 DEF InventoryInv
<1> QED BY <1>3, <1>4

LEMMA InventoryTrue == InventoryInv => PagesTrue
<1> SUFFICES ASSUME InventoryInv PROVE PagesTrue
  OBVIOUS
<1>1. CASE page = NoPage
  <2>1. page.from = "none" /\ page.items = <<>>
    BY <1>1 DEF NoPage
  <2>2. EachResourceOnce
    BY <2>1 DEF EachResourceOnce
  <2>3. OneSourceShown
    <3>1. \A i : i \notin DOMAIN page.items
      BY <2>1
    <3> QED BY <3>1 DEF OneSourceShown
  <2>4. PagesPartition
    BY <1>1 DEF PagesPartition
  <2> QED BY <2>2, <2>3, <2>4 DEF PagesTrue
<1>2. CASE Answered
  <2>0. PICK area : \E waste \in BOOLEAN, offset \in Nat, n \in PageSize :
           page = Inventory(area, waste, offset, n)
    BY <1>2, Zenon DEF Answered
  <2>1. PICK waste \in BOOLEAN, offset \in Nat, n \in PageSize :
           page = Inventory(area, waste, offset, n)
    BY <2>0
  <2>2. n \in Nat \ {0} /\ offset + n \in Nat
    BY InventoryForms
  <2>3. PICK live : live = LiveItems(area, offset + n)
    OBVIOUS
  <2>4. LiveOf(live, area) /\ (LiveItems(area, MaxFindings) = <<>> => live = <<>>)
    BY <2>2, <2>3, LiveItemsAre DEF InventoryInv
  <2>5. PICK best : best = BestSource(live, area)
    OBVIOUS
  <2>6. OneSource(best.items, best.from, area)
    BY <2>4, <2>5, BestIs DEF InventoryInv
  <2>7. PICK all : all = ByCost(Asked(best.items, waste))
    OBVIOUS
  <2>8. OneSource(all, best.from, area) /\ Descending(all)
    BY <2>6, <2>7, AllIs
  <2>9. page = [items |-> Page(all, offset, n), from |-> best.from, all |-> all,
                area |-> area, waste |-> waste, size |-> n]
    BY <2>1, <2>3, <2>5, <2>7 DEF Inventory
  <2>10. /\ page.items = Page(all, offset, n) /\ page.from = best.from /\ page.all = all
         /\ page.area = area /\ page.waste = waste /\ page.size = n
    BY <2>9
  <2>11. all \in Seq(Item)
    BY <2>8 DEF OneSource
  <2>12. EachResourceOnce
    <3>1. DOMAIN all = 1..Len(all)
      BY <2>11
    <3> QED BY <2>8, <2>10, <3>1 DEF EachResourceOnce, OneSource, IdsApart
  <2>13. OneSourceShown
    <3>1. Page(all, offset, n) \in Seq(Item) /\ \A x \in Range(Page(all, offset, n)) : x \in Range(all)
      BY <2>2, <2>11, PageIs
    <3>2. ASSUME NEW i \in DOMAIN page.items
          PROVE  /\ page.area \in {Everywhere, page.items[i].area}
                 /\ \E k \in KnownTo(page.from) : k.id = page.items[i].id
      <4>1. page.items[i] \in Range(all)
        BY <2>10, <3>1 DEF Range
      <4> QED BY <2>8, <2>10, <4>1 DEF OneSource, WithinArea
    <3> QED BY <3>2, Zenon DEF OneSourceShown, KnownTo
  <2>14. ASSUME LiveItems(page.area, MaxFindings) = <<>>
         PROVE  FlattenSeq([k \in DOMAIN all |-> Inventory(area, waste, (k - 1) * n, n).items]) = all
    <3>1. live = <<>>
      BY <2>4, <2>10, <2>14
    <3>2. ASSUME NEW k \in DOMAIN all
          PROVE  Inventory(area, waste, (k - 1) * n, n).items = Page(all, (k - 1) * n, n)
      <4>1. k - 1 \in Nat
        BY <2>11
      <4>2. PICK o : o = (k - 1) * n
        OBVIOUS
      <4>3. o \in Nat /\ o + n \in Nat
        BY <2>2, <4>1, <4>2
      <4>4. LiveItems(area, o + n) = <<>>
        BY <2>10, <2>14, <4>3, LiveItemsAre DEF InventoryInv
      <4>5. best = BestSource(LiveItems(area, o + n), area)
        BY <2>5, <3>1, <4>4
      <4>6. Inventory(area, waste, o, n).items = Page(all, o, n)
        BY <2>7, <4>5 DEF Inventory
      <4> QED BY <4>2, <4>6
    <3>3. PICK pages : pages = [k \in DOMAIN all |-> Page(all, (k - 1) * n, n)]
      OBVIOUS
    <3>4. [k \in DOMAIN all |-> Inventory(area, waste, (k - 1) * n, n).items] = pages
      BY <3>2, <3>3
    <3>5. FlattenSeq(pages) = all
      BY <2>2, <2>11, <3>3, PagesJoin
    <3> QED BY <3>4, <3>5
  <2>15. PagesPartition
    BY <2>8, <2>10, <2>14 DEF PagesPartition, Descending
  <2> QED BY <2>12, <2>13, <2>15 DEF PagesTrue
<1> QED BY <1>1, <1>2 DEF InventoryInv

\* GET /inventory/resources (api.py): live rows name each resource once, a page
\* shows one source and the area that was asked for, and without live findings
\* there the pages that follow each other hold every row once, dearest first.
THEOREM PagesTrueHolds == InventorySpec => []PagesTrue
<1>1. InventorySpec => []InventoryInv
  BY InventoryFirst, InventoryKept, PTL DEF InventorySpec
<1> QED BY <1>1, InventoryTrue, PTL

=============================================================================
