---------------------------- MODULE Credentials ----------------------------
(***************************************************************************)
(* The provider credentials of one customer.  A credential is a row in the *)
(* database and a file that the scans read; the list of providers to scan  *)
(* is a third copy.  Adding a credential changes the three in four steps   *)
(* and deleting one in two, each of which may be the last; a process takes *)
(* the steps of one request without serving another, other processes go on *)
(* between them.  A scan reads the files once, asks the providers one      *)
(* after the other and marks the rows of those that answer with an error.  *)
(***************************************************************************)
EXTENDS Integers, FiniteSets

CONSTANTS
    Worker,    \* worker processes
    Provider,  \* aws, azure, gcp, oci
    MaxAdds    \* bound: credentials added

ASSUME CredentialBounds == MaxAdds \in Nat

VARIABLES
    record,  \* credential_records: version (0 is no row) and validity of each provider
    file,    \* runtime.json of each provider: its version, None or Torn
    listed,  \* providers_json of the permission
    step,    \* the request that each worker is serving
    scan,    \* the scan that each worker is running
    adds,    \* observed: credentials added so far
    mixed,   \* observed: providers with overlapping or unfinished requests
    lost     \* observed: the list was written from an old reading, or not at all

credentialVars == <<record, file, listed, step, scan, adds, mixed, lost>>

None == 0
Torn == MaxAdds + 1
Version == 1..MaxAdds

NoRecord == [ver |-> None, valid |-> FALSE]
NoStep == [at |-> "idle"]
NoScan == [asked |-> {}, left |-> {}]

CredentialInit ==
    /\ record = [p \in Provider |-> NoRecord]
    /\ file = [p \in Provider |-> None]
    /\ listed = {}
    /\ step = [w \in Worker |-> NoStep]
    /\ scan = [w \in Worker |-> NoScan]
    /\ adds = 0
    /\ mixed = {}
    /\ lost = FALSE

Serving(w) == step[w] # NoStep

Busy(p) == {w \in Worker : Serving(w) /\ step[w].pv = p}

-----------------------------------------------------------------------------
(* What an observer notes when worker w begins to change provider p.        *)

\* Requests for one provider that overlap are not alone, a scan that runs
\* meanwhile is disturbed, and so is the list that another add has read.
Begun(w, s) ==
    /\ step' = [v \in Worker |->
                  IF v = w THEN s
                  ELSE IF v \in Busy(s.pv) THEN [step[v] EXCEPT !.alone = FALSE]
                  ELSE step[v]]
    /\ mixed' = IF Busy(s.pv) = {} THEN mixed ELSE mixed \cup {s.pv}
    /\ scan' = [v \in Worker |->
                  IF scan[v] = NoScan THEN NoScan
                  ELSE [scan[v] EXCEPT !.disturbed = @ \cup {s.pv}]]

\* The request of w is over; what it did not complete stays mixed.
Done(w, complete) ==
    LET s == step[w] IN
    /\ step' = [step EXCEPT ![w] = NoStep]
    /\ mixed' = IF complete /\ s.alone THEN mixed \ {s.pv} ELSE mixed \cup {s.pv}

-----------------------------------------------------------------------------
(* Adding a credential.                                                    *)

\* The provider accepts the new credential and the row is looked up.
AddRead(w, p) ==
    /\ ~Serving(w)
    /\ adds < MaxAdds
    /\ adds' = adds + 1
    /\ Begun(w, [at |-> "store", pv |-> p, ver |-> adds + 1,
                 found |-> record[p] # NoRecord, read |-> {}, crossed |-> FALSE,
                 alone |-> Busy(p) = {}])
    /\ UNCHANGED <<record, file, listed, lost>>

Advance(w, to) == step' = [step EXCEPT ![w].at = to]

\* Insertion or update, as the lookup said: a row that came or went since
\* makes the request fail.
Store(w) ==
    LET s == step[w] IN
    /\ s.at = "store"
    /\ s.found = (record[s.pv] # NoRecord)
    /\ record' = [record EXCEPT ![s.pv] = [ver |-> s.ver, valid |-> TRUE]]
    /\ step' = [v \in Worker |->
                  IF v = w THEN [s EXCEPT !.at = "open"]
                  ELSE IF step[v].at = "list" THEN [step[v] EXCEPT !.crossed = TRUE]
                  ELSE step[v]]
    /\ UNCHANGED <<file, listed, scan, adds, mixed, lost>>

\* The file is opened for writing and thereby emptied ...
OpenFile(w) ==
    LET s == step[w] IN
    /\ s.at = "open"
    /\ file' = [file EXCEPT ![s.pv] = Torn]
    /\ Advance(w, "dump")
    /\ UNCHANGED <<record, listed, scan, adds, mixed, lost>>

\* ... then filled.
DumpFile(w) ==
    LET s == step[w] IN
    /\ s.at = "dump"
    /\ file' = [file EXCEPT ![s.pv] = s.ver]
    /\ step' = [v \in Worker |->
                  IF v = w THEN [s EXCEPT !.at = "gather"]
                  ELSE IF step[v].at = "list" THEN [step[v] EXCEPT !.crossed = TRUE]
                  ELSE step[v]]
    /\ UNCHANGED <<record, listed, scan, adds, mixed, lost>>

\* The providers with a valid row and a file that can be read, and p itself.
Scannable(p) == {q \in Provider : record[q].valid /\ file[q] \in Version} \cup {p}

Gather(w) ==
    LET s == step[w] IN
    /\ s.at = "gather"
    /\ step' = [step EXCEPT ![w] = [s EXCEPT !.at = "list", !.read = Scannable(s.pv)]]
    /\ UNCHANGED <<record, file, listed, scan, adds, mixed, lost>>

\* Approval and list are committed; a scan of these providers begins and reads
\* the files.  The process that answers the request runs the scan.
ListAndScan(w) ==
    LET s == step[w] IN
    /\ s.at = "list"
    /\ scan[w] = NoScan
    /\ listed' = s.read
    /\ lost' = s.crossed
    /\ scan' = [scan EXCEPT ![w] =
                  [asked |-> s.read, left |-> s.read, used |-> file, failed |-> {},
                   disturbed |-> mixed \cup {q \in Provider : Busy(q) \ {w} # {}}
                                       \cup (IF s.alone THEN {} ELSE {s.pv})]]
    /\ Done(w, TRUE)
    /\ UNCHANGED <<record, file, adds>>

\* A step fails, or the process dies: what was done stays.
AddStops(w) ==
    /\ Serving(w) /\ step[w].at # "remove"
    /\ Done(w, FALSE)
    /\ lost' = (lost \/ step[w].at # "store")
    /\ UNCHANGED <<record, file, listed, scan, adds>>

-----------------------------------------------------------------------------
(* Deleting a credential.                                                  *)

DeleteRow(w, p) ==
    /\ ~Serving(w)
    /\ record[p] # NoRecord
    /\ record' = [record EXCEPT ![p] = NoRecord]
    /\ Begun(w, [at |-> "remove", pv |-> p, alone |-> Busy(p) = {}])
    /\ UNCHANGED <<file, listed, adds, lost>>

\* Faulty variant of Removed: the file stays.
RemovedNot(p) == file

Removed(p) == [file EXCEPT ![p] = None]

\* Errors are ignored: the files may stay.
RemoveFiles(w, done) ==
    /\ step[w].at = "remove"
    /\ file' = IF done THEN Removed(step[w].pv) ELSE file
    /\ Done(w, done)
    /\ UNCHANGED <<record, listed, scan, adds, lost>>

-----------------------------------------------------------------------------
(* The scan.                                                               *)

\* A provider answers, with an error or not.  The row is looked up at the
\* error and written when the scan commits.
Asked(w, p, fails) ==
    /\ p \in scan[w].left
    /\ scan' = [scan EXCEPT ![w].left = @ \ {p},
                            ![w].failed = IF fails /\ record[p].valid THEN @ \cup {p} ELSE @]
    /\ UNCHANGED <<record, file, listed, step, adds, mixed, lost>>

Blamed(failed) == failed

\* The commit fails if one of the rows is gone.
Commit(w) ==
    LET failed == scan[w].failed IN
    /\ scan[w] # NoScan /\ scan[w].left = {}
    /\ \A p \in failed : record[p] # NoRecord
    /\ record' = [p \in Provider |-> IF p \in Blamed(failed) THEN [record[p] EXCEPT !.valid = FALSE]
                                     ELSE record[p]]
    /\ scan' = [scan EXCEPT ![w] = NoScan]
    /\ UNCHANGED <<file, listed, step, adds, mixed, lost>>

\* The scan fails or its process dies, and marks nothing.
ScanStops(w) ==
    /\ scan[w] # NoScan
    /\ scan' = [scan EXCEPT ![w] = NoScan]
    /\ UNCHANGED <<record, file, listed, step, adds, mixed, lost>>

CredentialNext ==
    \E w \in Worker :
        \/ \E p \in Provider : AddRead(w, p) \/ DeleteRow(w, p)
        \/ Store(w) \/ OpenFile(w) \/ DumpFile(w) \/ Gather(w) \/ ListAndScan(w) \/ AddStops(w)
        \/ \E done \in BOOLEAN : RemoveFiles(w, done)
        \/ \E p \in Provider, fails \in BOOLEAN : Asked(w, p, fails)
        \/ Commit(w) \/ ScanStops(w)

CredentialSpec == CredentialInit /\ [][CredentialNext]_credentialVars

-----------------------------------------------------------------------------
\* When the requests for a provider were alone and complete, its row and its
\* file are of one version, or there is neither.
AloneAgree ==
    \A p \in Provider \ mixed : Busy(p) = {} => file[p] = record[p].ver

\* The list has every provider that a scan could read, unless it was written
\* from a reading that another add overtook, or an add stopped before it.
ListCovers ==
    ~lost => \A p \in Provider :
        record[p].valid /\ file[p] \in Version /\ Busy(p) = {} => p \in listed

\* A credential loses its validity only by an error that a scan met with this
\* credential, unless the provider was changed while the scan ran or was mixed
\* when it began.
ErrorsBlameUsed ==
    [][\A p \in Provider :
         record[p].valid /\ ~record'[p].valid /\ record'[p] # NoRecord =>
           \E w \in Worker :
             /\ scan[w] # NoScan /\ p \in scan[w].failed
             /\ scan[w].used[p] = record[p].ver \/ p \in scan[w].disturbed]_credentialVars

\* Row, file and list of providers agree but for requests that met or stopped, and
\* errors invalidate the credential that they are about.
CredentialsAgree ==
    /\ [](AloneAgree /\ ListCovers)
    /\ ErrorsBlameUsed
=============================================================================
