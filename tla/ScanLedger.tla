----------------------------- MODULE ScanLedger -----------------------------
(***************************************************************************)
(* What the scan history promises its readers, whoever runs the scans: a   *)
(* scan id is opened once; snapshots are attached to a run only while it   *)
(* is open; a run is completed only on evidence; a closed run stays as it  *)
(* is.  Nothing is promised about when, or whether, an open run closes.    *)
(***************************************************************************)
CONSTANTS
    ScanId,      \* scan ids
    Provider,    \* the providers a scan asks
    RequireLive  \* a completed run needs a snapshot

VARIABLES
    state,       \* scan_runs.state per scan id
    snaps        \* <<scan id, provider>> in cost_snapshots

Init ==
    /\ state = [id \in ScanId |-> "absent"]
    /\ snaps = {}

Evidence(id) == RequireLive => \E p \in Provider : <<id, p>> \in snaps

Open(id) ==
    /\ state[id] = "absent"
    /\ state' = [state EXCEPT ![id] = "running"]
    /\ UNCHANGED snaps

Attach(id, ps) ==
    /\ state[id] = "running"
    /\ snaps' = snaps \cup {<<id, p>> : p \in ps}
    /\ UNCHANGED state

Complete(id) ==
    /\ state[id] = "running"
    /\ Evidence(id)
    /\ state' = [state EXCEPT ![id] = "completed"]
    /\ UNCHANGED snaps

\* What a scan had gathered when it failed may be kept.
Fail(id, ps) ==
    /\ state[id] = "running"
    /\ state' = [state EXCEPT ![id] = "failed"]
    /\ snaps' = snaps \cup {<<id, p>> : p \in ps}

Next == \E id \in ScanId :
    \/ Open(id)
    \/ Complete(id)
    \/ \E ps \in SUBSET Provider : Attach(id, ps) \/ Fail(id, ps)

Spec == Init /\ [][Next]_<<state, snaps>>
=============================================================================
