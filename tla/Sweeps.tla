------------------------------- MODULE Sweeps -------------------------------
(***************************************************************************)
(* The sweeps of an OCI tenancy: a request walks the subscribed regions    *)
(* and, in each, the compartments it can see, one API call after the       *)
(* other, while the tenancy changes.  Compute recommends smaller shapes,   *)
(* storage the removal of volumes that are not attached, kubernetes lists  *)
(* what the Kubernetes page shows.  A call that fails is passed over.      *)
(*                                                                         *)
(* Only what decides is kept of a resource: its kind, region, compartment  *)
(* and, for a volume, the compartment of the instance that holds it.  The  *)
(* resources are those worth a row (lifecycle, shape, price).              *)
(***************************************************************************)
EXTENDS Integers, Sequences, FiniteSets, SequencesExt, Functions

CONSTANTS
    Region,
    Compartment,
    Tenancy,      \* the root compartment
    Resource,
    KindOf,       \* "instance", "block", "boot", "cluster", "container" or "registry"
    RegionOf,
    SweepLimit,   \* limit, of the rows of an answer
    MaxVisible,   \* oci_max_scan_compartments
    MaxPayloads,  \* bound: credentials of a customer
    MaxChanges,   \* bound: changes of the tenancy
    MaxFaults     \* bound: calls that fail in a sweep

\* Where a volume is that is not attached.
NoHolder == "nobody"

ASSUME SweepBounds ==
    /\ IsFiniteSet(Resource)
    /\ Tenancy \in Compartment /\ NoHolder \notin Compartment
    /\ RegionOf \in [Resource -> Region]
    /\ SweepLimit \in Nat /\ MaxVisible \in Nat \ {0}
    /\ MaxPayloads \in Nat /\ MaxChanges \in Nat /\ MaxFaults \in Nat

Volumes == {"block", "boot"}

\* The kinds that a compartment is listed for, in this order.
KindsIn(job) ==
    CASE job = "compute" -> <<"instance">>
      [] job = "storage" -> <<"block", "boot">>
      [] job = "kubernetes" -> <<"cluster", "container", "registry">>

VARIABLES
    where,    \* the compartment of each resource
    holder,   \* the compartment of the instance that a volume is attached to
    sweep,    \* the request in flight
    listing,  \* the rows of the answer, over all credentials
    changes   \* observed: changes of the tenancy

sweepVars == <<where, holder, sweep, listing, changes>>

NoSweep == [pc |-> "idle"]

SweepsInit ==
    /\ where = [v \in Resource |-> Tenancy]
    /\ holder \in [Resource -> Compartment \cup {NoHolder}]
    /\ \A v \in Resource : KindOf[v] \notin Volumes => holder[v] = NoHolder
    /\ sweep = NoSweep
    /\ listing = <<>>
    /\ changes = 0

Loose == {v \in Resource : holder[v] = NoHolder}

Running == sweep.pc \in {"regions", "region"}

-----------------------------------------------------------------------------
(* The tenancy changes: volumes are attached and detached, resources move  *)
(* to other compartments.                                                  *)

Change(v) ==
    /\ Running /\ changes < MaxChanges
    /\ KindOf[v] \in ToSet(KindsIn(sweep.job))
    /\ changes' = changes + 1
    /\ UNCHANGED listing

AttachOrDetach(v, c) ==
    /\ Change(v)
    /\ KindOf[v] \in Volumes
    /\ holder' = [holder EXCEPT ![v] = IF @ = NoHolder THEN c ELSE NoHolder]
    /\ UNCHANGED where
    /\ sweep' = [sweep EXCEPT !.loose = @ \cup {v}, !.stayed = @ \ {v}]

Move(v, c) ==
    /\ Change(v)
    /\ where[v] # c
    /\ where' = [where EXCEPT ![v] = c]
    /\ UNCHANGED holder
    /\ sweep' = [sweep EXCEPT !.stayed = @ \ {v}]

-----------------------------------------------------------------------------
(* One sweep.  loose: observed, the volumes that were not attached at some *)
(* moment of it; stayed: the resources that have not changed since it      *)
(* began; blind: whether some attachments stayed unread; failed: the calls   *)
(* for a list that failed.                                                 *)

\* _oci_accessible_compartment_ids: the tenancy, the configured seeds, then
\* whatever the subtree lists, up to the maximum; a list that fails adds none.
Visible(C) ==
    /\ Tenancy \in C
    /\ Cardinality(C) <= MaxVisible

NewSweep(job, C, payload, room) ==
    [pc |-> "regions", job |-> job, compartments |-> C, payload |-> payload,
     room |-> room, left |-> Region, region |-> CHOOSE r \in Region : TRUE,
     links |-> {}, lists |-> {}, attached |-> {}, seen |-> {}, rows |-> <<>>,
     loose |-> Loose, stayed |-> Resource, blind |-> C # Compartment, failed |-> {},
     faults |-> 0]

StartSweep(job, C) ==
    /\ sweep.pc = "idle"
    /\ Visible(C)
    /\ sweep' = NewSweep(job, C, 1, SweepLimit)
    /\ listing' = <<>>
    /\ UNCHANGED <<where, holder, changes>>

Room == Len(sweep.rows) < sweep.room

LinkCalls == IF sweep.job = "storage" THEN sweep.compartments \X Volumes ELSE {}

MayFail == sweep.faults < MaxFaults

ListCalls == sweep.compartments \X ToSet(KindsIn(sweep.job))

EnterRegion(r) ==
    /\ sweep.pc = "regions" /\ r \in sweep.left /\ Room
    /\ sweep' = [sweep EXCEPT !.pc = "region", !.region = r, !.left = @ \ {r},
                              !.links = LinkCalls, !.lists = ListCalls]
    /\ UNCHANGED <<where, holder, listing, changes>>

\* The clients of a region cannot be made.
SkipRegion(r) ==
    /\ sweep.pc = "regions" /\ r \in sweep.left /\ Room /\ MayFail
    /\ sweep' = [sweep EXCEPT !.left = @ \ {r}, !.failed = @ \cup ({r} \X ListCalls),
                              !.faults = @ + 1]
    /\ UNCHANGED <<where, holder, listing, changes>>

\* The volumes of kind k that instances in compartment c hold.
HeldIn(c, k) ==
    {v \in Resource : KindOf[v] = k /\ RegionOf[v] = sweep.region /\ holder[v] = c}

Order(k) == CHOOSE i \in DOMAIN KindsIn(sweep.job) : KindsIn(sweep.job)[i] = k

\* One compartment after the other, its kinds in their order.
Turn(calls, call) ==
    /\ call \in calls
    /\ \A other \in calls :
         \/ other[1] = call[1] /\ Order(call[2]) <= Order(other[2])
         \/ other[1] # call[1] /\ \A k \in ToSet(KindsIn(sweep.job)) : <<other[1], k>> \in calls

\* Attachments are read before the volumes of the region.
ReadAttachments(call, ok) ==
    /\ sweep.pc = "region" /\ Turn(sweep.links, call)
    /\ ok \/ MayFail
    /\ sweep' = [sweep EXCEPT
         !.links = @ \ {call},
         !.attached = IF ok THEN @ \cup HeldIn(call[1], call[2]) ELSE @,
         !.blind = @ \/ ~ok,
         !.faults = IF ok THEN @ ELSE @ + 1]
    /\ UNCHANGED <<where, holder, listing, changes>>

ResourcesIn(call) ==
    {v \in Resource : KindOf[v] = call[2] /\ RegionOf[v] = sweep.region /\ where[v] = call[1]}

\* Faulty variant of Fresh: what was listed before is not remembered.
FreshAll(call) == ResourcesIn(call) \ sweep.attached

\* Those that make a row.
Fresh(call) == ResourcesIn(call) \ (sweep.seen \cup sweep.attached)

\* The ways to fill the room with some of S: all of them while there is room.
Fitting(S) == {R \in SUBSET S : Cardinality(R) <= sweep.room - Len(sweep.rows)
                                /\ (R # S => Cardinality(R) = sweep.room - Len(sweep.rows))}

Added(R, call) ==
    [sweep EXCEPT !.rows = @ \o SetToSeq(R), !.seen = @ \cup R,
                  !.lists = @ \ {call}]

ReadList(call) ==
    /\ sweep.pc = "region" /\ sweep.links = {} /\ Room
    /\ Turn(sweep.lists, call)
    /\ \E R \in Fitting(Fresh(call)) : sweep' = Added(R, call)
    /\ UNCHANGED <<where, holder, listing, changes>>

Unread(call) ==
    [sweep EXCEPT !.lists = @ \ {call}, !.failed = @ \cup {<<sweep.region, call>>},
                  !.faults = @ + 1]

FailList(call) ==
    /\ sweep.pc = "region" /\ sweep.links = {} /\ Room /\ MayFail
    /\ Turn(sweep.lists, call)
    /\ sweep' = Unread(call)
    /\ UNCHANGED <<where, holder, listing, changes>>

LeaveRegion ==
    /\ sweep.pc = "region" /\ sweep.links = {}
    /\ sweep.lists = {} \/ ~Room
    /\ sweep' = [sweep EXCEPT !.pc = "regions", !.lists = {}]
    /\ UNCHANGED <<where, holder, listing, changes>>

\* The time budget of the kubernetes sweep ends, perhaps amid a list.
OutOfTime ==
    /\ Running /\ sweep.job = "kubernetes"
    /\ \E S \in {{}} \cup UNION {SUBSET Fresh(call) : call \in {c \in sweep.lists : Turn(sweep.lists, c)}} :
         \E R \in Fitting(S) :
            sweep' = [sweep EXCEPT !.pc = "regions", !.left = {}, !.lists = {},
                                   !.rows = @ \o SetToSeq(R), !.stayed = {}]
    /\ UNCHANGED <<where, holder, listing, changes>>

Swept == sweep.pc = "regions" /\ (sweep.left = {} \/ ~Room)

-----------------------------------------------------------------------------
(* _collect_oci_live_kubernetes_inventory_rows: the sweeps of all          *)
(* credentials, without what is there already.                             *)

\* Faulty variant of Gathered: the rows of every credential are taken.
GatheredAll == listing \o sweep.rows

\* The rows of resources that no credential has listed yet, in some order.
NewRows ==
    LET new == SetToSeq({i \in DOMAIN sweep.rows : sweep.rows[i] \notin ToSet(listing)})
    IN  [k \in DOMAIN new |-> sweep.rows[new[k]]]

Gathered == listing \o NewRows

EndSweep ==
    /\ Swept
    /\ listing' = Gathered
    /\ sweep' = [sweep EXCEPT !.pc = "done"]
    /\ UNCHANGED <<where, holder, changes>>

NextPayload(C) ==
    /\ sweep.pc = "done" /\ sweep.job = "kubernetes"
    /\ sweep.payload < MaxPayloads /\ Len(listing) < SweepLimit
    /\ Visible(C)
    /\ sweep' = NewSweep(sweep.job, C, sweep.payload + 1, SweepLimit - Len(listing))
    /\ UNCHANGED <<where, holder, listing, changes>>

-----------------------------------------------------------------------------
TenancyChanges == \E v \in Resource, c \in Compartment : AttachOrDetach(v, c) \/ Move(v, c)

Sweeping(jobs) ==
    \/ \E job \in jobs, C \in SUBSET Compartment : StartSweep(job, C)
    \/ \E r \in Region : EnterRegion(r) \/ SkipRegion(r)
    \/ Running /\ \E call \in sweep.links : \E ok \in BOOLEAN : ReadAttachments(call, ok)
    \/ Running /\ \E call \in sweep.lists : ReadList(call) \/ FailList(call)
    \/ LeaveRegion
    \/ OutOfTime
    \/ EndSweep
    \/ \E C \in SUBSET Compartment : NextPayload(C)

SweepsNext(jobs) == TenancyChanges \/ Sweeping(jobs)

Jobs == {"compute", "storage", "kubernetes"}

SweepsSpec == SweepsInit /\ [][SweepsNext(Jobs)]_sweepVars

-----------------------------------------------------------------------------
(* Safety                                                                  *)

\* No resource has two rows in an answer, though it may move while compartments
\* are listed one by one and several credentials may see it.
ResourceOnce == IsInjective(listing)

\* Over all credentials an answer stays within its limit.
RowsWithinLimit == Len(listing) <= SweepLimit

\* A volume is recommended for removal only if it was not attached at some
\* moment of the sweep, as long as every compartment was visible and every
\* list of attachments was read.
RemovesLoose ==
    sweep.pc = "done" /\ sweep.job = "storage" /\ ~sweep.blind =>
        ToSet(listing) \subseteq sweep.loose

\* Below its limit a sweep misses nothing that stood still in a compartment it
\* sees, unless the call that lists it failed: a failure costs no other
\* compartment, region or kind.
SweepComplete ==
    sweep.pc = "done" /\ Len(sweep.rows) < sweep.room =>
        \A v \in sweep.stayed :
            (/\ KindOf[v] \in ToSet(KindsIn(sweep.job))
             /\ where[v] \in sweep.compartments
             /\ <<RegionOf[v], <<where[v], KindOf[v]>>>> \notin sweep.failed
             /\ holder[v] = NoHolder)
            => v \in ToSet(listing)

\* A sweep shows each resource once and within its limit, recommends nothing that is
\* in use for removal, and misses only what moved or could not be listed.
SweepsTrue == ResourceOnce /\ RowsWithinLimit /\ RemovesLoose /\ SweepComplete
=============================================================================
