------------------------------ MODULE Startup ------------------------------
(***************************************************************************)
(* The database before a worker serves: Alembic's revisions, the tables    *)
(* that each starting worker creates, and the public workspace.  A schema  *)
(* is a set of parts: a table with the columns of its CREATE TABLE, its    *)
(* indexes, and every column or constraint that a later revision adds.     *)
(* SQLite commits each statement of a revision at once, a database with    *)
(* transactional DDL commits an upgrade as a whole.                        *)
(***************************************************************************)
EXTENDS Integers, Sequences, FiniteSets, SequencesExt

CONSTANTS
    Server,   \* worker processes
    Name,     \* values of PUBLIC_WORKSPACE_NAME
    Kills     \* bound: after how many tables a starting worker may be killed

ASSUME StartupBounds == Kills \subseteq Nat

VARIABLES
    schema,   \* the committed parts
    stamp,    \* alembic_version, 0 if there is none
    work,     \* parts of an upgrade that are not committed
    upgrade,  \* the revision and statement at which an upgrade is
    history,  \* what an observer notes of crashes, early starts and failures
    server,   \* the start of each worker
    name,     \* PUBLIC_WORKSPACE_NAME
    rows      \* the service user and its organizations, by name

startupVars == <<schema, stamp, work, upgrade, history, server, name, rows>>

-----------------------------------------------------------------------------
(* The revisions.                                                          *)

Statement(t, p, guarded) == [part |-> <<t, p>>, guarded |-> guarded]

Table(t, guarded) == <<Statement(t, "table", guarded), Statement(t, "indexes", guarded)>>

Tables(ts) == FlattenSeq([i \in DOMAIN ts |-> Table(ts[i], FALSE)])

Columns(t, cs, guarded) == [i \in DOMAIN cs |-> Statement(t, cs[i], guarded)]

AccountTables == Tables(<<"users", "organizations", "user_organizations",
    "refresh_tokens", "password_reset_tokens", "stored_credentials">>)

ScanTables == Tables(<<"credential_records", "scanning_permissions", "scan_runs",
    "cost_snapshots">>)

R0001 == AccountTables \o ScanTables

R0002 == Columns("scanning_permissions", <<"budget", "warning", "critical", "notify">>, FALSE)
    \o Tables(<<"audit_logs", "alert_events">>)

R0003 == Tables(<<"provider_accounts", "provider_account_links", "provider_account_snapshots">>)

R0004 == Tables(<<"imported_cost_records">>)

R0005 == Columns("imported_cost_records", <<"account_type", "parent_account">>, FALSE)

R0006 == Tables(<<"cost_allocation_snapshots">>)

R0007 == Tables(<<"alert_routing_policies">>)

R0008 == Tables(<<"export_jobs", "export_job_runs">>)

R0009 == Tables(<<"business_mapping_rules", "normalized_cost_dimensions">>)

R0010 == Tables(<<"cost_period_summaries">>)

R0011 == Tables(<<"virtual_tag_rules">>)

\* Deletes what would violate the constraint before it.
R0012 == Columns("user_organizations", <<"membership">>, FALSE)

Scheduler == <<"override", "frequency", "attempts", "backoff", "overdue">>

R0013 == Columns("scanning_permissions", Scheduler, FALSE) \o Tables(<<"alert_ops_policies">>)

R0014 == Columns("imported_cost_records", <<"tags">>, TRUE)

R0015 == Columns("scanning_permissions", Scheduler, TRUE) \o Table("alert_ops_policies", TRUE)

\* Faulty variant of R0016: the table is created without looking for it.
R0016Plain == Tables(<<"recommendation_ledger">>)

R0016 == Table("recommendation_ledger", TRUE)

R0017 == Table("oci_cost_report_ingestions", TRUE)

Revision == <<R0001, R0002, R0003, R0004, R0005, R0006, R0007, R0008, R0009, R0010,
              R0011, R0012, R0013, R0014, R0015, R0016, R0017>>

Latest == Len(Revision)

Parts(r) == {Revision[r][k].part : k \in DOMAIN Revision[r]}

Migrated == [r \in 0..Latest |-> UNION {Parts(q) : q \in 1..r}]

(* The tables of the ORM, each with its own columns.                       *)

Whole(ts, extra) == {<<t, p>> : t \in ts, p \in {"table", "indexes"}} \cup extra

OrmAccounts == Whole({"users", "organizations", "user_organizations"},
                     {<<"user_organizations", "membership">>})

OrmTokens == Whole({"refresh_tokens", "password_reset_tokens", "stored_credentials",
                    "credential_records"}, {})

OrmScans == Whole({"scanning_permissions", "scan_runs"},
    {<<"scanning_permissions", c>> :
       c \in {"budget", "warning", "critical", "notify"} \cup ToSet(Scheduler)})

OrmCosts == Whole({"cost_snapshots", "imported_cost_records"},
    {<<"imported_cost_records", c>> : c \in {"account_type", "parent_account", "tags"}})

OrmProviders == Whole({"provider_accounts", "provider_account_links",
    "provider_account_snapshots", "cost_allocation_snapshots"}, {})

OrmAlerts == Whole({"audit_logs", "alert_events", "alert_routing_policies",
                    "alert_ops_policies"}, {})

OrmReports == Whole({"export_jobs", "business_mapping_rules", "normalized_cost_dimensions",
                     "export_job_runs"}, {})

OrmLedger == Whole({"cost_period_summaries", "oci_cost_report_ingestions",
                    "recommendation_ledger", "virtual_tag_rules"}, {})

Orm == UNION {OrmAccounts, OrmTokens, OrmScans, OrmCosts, OrmProviders, OrmAlerts,
              OrmReports, OrmLedger}

TablesOf(parts) == {part[1] : part \in parts}

Statements == FlattenSeq(Revision)

Guarded == {st.part : st \in {q \in ToSet(Statements) : q.guarded}}

\* Tables that a revision creates without looking for them.
Unguarded == {st.part[1] : st \in {q \in ToSet(Statements) : q.part[2] = "table" /\ ~q.guarded}}

CreationOrder == SelectSeq(Statements, LAMBDA st : st.part[2] = "table")

-----------------------------------------------------------------------------
Idle == [at |-> 0, next |-> 0]
Down == [step |-> "down"]

\* A new database, or one of the layout whose revision 0013 added the tags.
StartupInit ==
    /\ \E legacy, atomic \in BOOLEAN :
         /\ schema = IF legacy THEN Migrated[12] \cup Parts(14) ELSE {}
         /\ stamp = IF legacy THEN 13 ELSE 0
         /\ history = [legacy |-> legacy, atomic |-> atomic, early |-> FALSE, cut |-> FALSE,
                       failed |-> 0, met |-> {}]
    /\ work = {}
    /\ upgrade = Idle
    /\ server = [s \in Server |-> Down]
    /\ name \in Name
    /\ rows = [user |-> FALSE, orgs |-> <<>>]

(* alembic upgrade head.                                                   *)

Starting(s) == server[s].step \notin {"down", "up"}

StartsNow == {s \in Server : Starting(s)}

BeginUpgrade ==
    /\ upgrade = Idle /\ stamp < Latest
    /\ upgrade' = [at |-> stamp + 1, next |-> 1]
    /\ history' = [history EXCEPT !.met = @ \cup StartsNow]
    /\ UNCHANGED <<schema, stamp, work, server, name, rows>>

Current == Revision[upgrade.at][upgrade.next]

\* A guarded statement looks for its part, the others fail if it is there, or
\* if there is no table to put it on.
Skipped == Current.guarded /\ Current.part \in schema \cup work

Fails ==
    \/ ~Current.guarded /\ Current.part \in schema \cup work
    \/ Current.part[2] # "table" /\ <<Current.part[1], "table">> \notin schema \cup work

UnderWay == upgrade # Idle /\ upgrade.next <= Len(Revision[upgrade.at])

\* Revision 0012 begins with a DELETE, so that its index and the stamp are
\* committed together also on SQLite.
Execute ==
    /\ UnderWay /\ ~Fails
    /\ LET new == IF Skipped THEN {} ELSE {Current.part}
           late == history.atomic \/ upgrade.at = 12
       IN /\ work' = IF late THEN work \cup new ELSE work
          /\ schema' = IF late THEN schema ELSE schema \cup new
    /\ upgrade' = [upgrade EXCEPT !.next = @ + 1]
    /\ UNCHANGED <<stamp, history, server, name, rows>>

\* The end of a revision, and of the upgrade at the last one.
Stamp ==
    /\ upgrade # Idle /\ ~UnderWay
    /\ LET last == upgrade.at = Latest
           commits == last \/ ~history.atomic
       IN /\ upgrade' = IF last THEN Idle ELSE [at |-> upgrade.at + 1, next |-> 1]
          /\ stamp' = IF commits THEN upgrade.at ELSE stamp
          /\ schema' = IF commits THEN schema \cup work ELSE schema
          /\ work' = IF commits THEN {} ELSE work
    /\ UNCHANGED <<history, server, name, rows>>

Abandon ==
    /\ upgrade' = Idle
    /\ work' = {}
    /\ UNCHANGED <<schema, stamp, server, name, rows>>

\* What a kill or a failure now leaves half done, and no guard makes up for.
Partial ==
    /\ ~history.atomic /\ upgrade.at # 12 /\ upgrade.next > 1
    /\ \E k \in DOMAIN Revision[upgrade.at] : ~Revision[upgrade.at][k].guarded

FailUpgrade ==
    /\ UnderWay /\ Fails
    /\ history' = [history EXCEPT !.failed = upgrade.at, !.cut = @ \/ Partial]
    /\ Abandon

KillUpgrade ==
    /\ upgrade # Idle
    /\ history' = [history EXCEPT !.cut = @ \/ Partial]
    /\ Abandon

\* Dropping a table drops all parts of it; revision 0015 drops nothing.
Dropped(r) ==
    IF r = 15 THEN {}
    ELSE {p \in schema : p \in Parts(r) \/ <<p[1], "table">> \in Parts(r)}

\* One revision of alembic downgrade, which the round trip of the tests makes.
\* Bound: not from a schema that is half upgraded, or that workers have created.
Downgrade ==
    /\ upgrade = Idle /\ stamp > 0 /\ ~history.cut /\ ~history.early
    /\ \A k \in DOMAIN Revision[stamp] :
         Revision[stamp][k].guarded \/ Revision[stamp][k].part \in schema
    /\ \A s \in Server : server[s] = Down
    /\ schema' = schema \ Dropped(stamp)
    /\ stamp' = stamp - 1
    /\ rows' = IF stamp = 1 THEN [user |-> FALSE, orgs |-> <<>>] ELSE rows
    /\ UNCHANGED <<work, upgrade, history, server, name>>

-----------------------------------------------------------------------------
(* startup_event: init_db, then ensure_public_workspace.                   *)

Present == TablesOf({p \in schema : p[2] = "table"})

Missing == TablesOf(Orm) \ Present

BeginStart(s) ==
    /\ server[s] = Down
    /\ server' = [server EXCEPT ![s] = [step |-> "tables", missing |-> Missing]]
    /\ history' = [history EXCEPT !.met =
                      IF StartsNow # {} \/ upgrade # Idle THEN @ \cup StartsNow \cup {s}
                      ELSE @ \ {s}]
    /\ UNCHANGED <<schema, stamp, work, upgrade, name, rows>>

\* Tables are created in the order of their references, one after the other.  The
\* worker stops at one that is there by now, or is killed after the first n; with
\* transactional DDL it creates all or none, and waits for an upgrade that has
\* created one of them.
CreateTables(s, n) ==
    LET missing == server[s].missing
        made == {t \in missing : \E i \in 1..n : CreationOrder[i].part[1] = t}
    IN
    /\ server[s].step = "tables"
    /\ missing \cap TablesOf(work) = {}
    /\ made \cap Present = {}
    /\ history.atomic => made \in {{}, missing}
    /\ schema' = schema \cup {p \in Orm : p[1] \in made}
    /\ server' = [server EXCEPT ![s] = IF made = missing THEN [step |-> "user"] ELSE Down]
    /\ history' = [history EXCEPT !.early = @ \/ made \cap Unguarded # {}]
    /\ UNCHANGED <<stamp, work, upgrade, name, rows>>

\* The INSERT of the user takes the write lock, so that the rest follows at once.
ReadUser(s) ==
    /\ server[s].step = "user"
    /\ server' = [server EXCEPT ![s] =
                    [step |-> IF rows.user THEN "organization" ELSE "insert user"]]
    /\ UNCHANGED <<schema, stamp, work, upgrade, history, name, rows>>

InsertUser(s) ==
    /\ server[s].step = "insert user"
    /\ ~rows.user
    /\ rows' = [user |-> TRUE, orgs |-> <<name>>]
    /\ server' = [server EXCEPT ![s] = [step |-> "up"]]
    /\ UNCHANGED <<schema, stamp, work, upgrade, history, name>>

\* Faulty variant of Known: only the latest organization is considered.
KnownLast == rows.orgs # <<>> /\ Last(rows.orgs) = name

Known == name \in ToSet(rows.orgs)

ReadOrganization(s) ==
    /\ server[s].step = "organization"
    /\ server' = [server EXCEPT ![s] =
                    [step |-> IF Known THEN "up" ELSE "insert organization"]]
    /\ UNCHANGED <<schema, stamp, work, upgrade, history, name, rows>>

InsertOrganization(s) ==
    /\ server[s].step = "insert organization"
    /\ rows' = [rows EXCEPT !.orgs = Append(@, name)]
    /\ server' = [server EXCEPT ![s] = [step |-> "up"]]
    /\ UNCHANGED <<schema, stamp, work, upgrade, history, name>>

\* The user is there by now, the write lock is not given, or the process is killed.
StartFails(s) ==
    /\ Starting(s)
    /\ server' = [server EXCEPT ![s] = Down]
    /\ UNCHANGED <<schema, stamp, work, upgrade, history, name, rows>>

\* The service stops, and starts with another name of the workspace.
Stop(n) ==
    /\ StartsNow = {}
    /\ server' = [s \in Server |-> Down]
    /\ name' = n
    /\ UNCHANGED <<schema, stamp, work, upgrade, history, rows>>

Migrate ==
    BeginUpgrade \/ Execute \/ Stamp \/ FailUpgrade \/ KillUpgrade \/ Downgrade

Create(servers, kills) ==
    \E s \in servers :
        \/ BeginStart(s)
        \/ \E n \in kills \cup {Len(CreationOrder)} : CreateTables(s, n)
        \/ StartFails(s)

Settle(servers) ==
    \/ \E s \in servers :
         ReadUser(s) \/ InsertUser(s) \/ ReadOrganization(s) \/ InsertOrganization(s)
    \/ \E n \in Name : Stop(n)

StartupNext == Migrate \/ Create(Server, Kills) \/ Settle(Server)

StartupSpec == StartupInit /\ [][StartupNext]_startupVars

-----------------------------------------------------------------------------
\* A database at the last revision has every table and column of the ORM,
\* whatever it started from and whatever cut its upgrades or started early.
HeadComplete == stamp = Latest /\ upgrade = Idle => Orm \subseteq schema

\* A revision fails only after a worker has created its tables or an upgrade was
\* cut inside a revision, and the revisions that look first never fail.
FailuresExplained ==
    /\ history.failed # 0 => history.early \/ history.cut
    /\ history.failed <= 13

\* Without such an incident going up and down leaves what the revisions make,
\* and nothing else but what a later revision looks for.
RoundTrip ==
    upgrade = Idle /\ ~history.early /\ ~history.cut /\ (history.legacy => stamp \notin 13..14) =>
        /\ Migrated[stamp] \subseteq schema
        /\ schema \ Migrated[stamp] \subseteq Guarded

\* A worker that starts while no other worker and no upgrade is on its way finds
\* its tables, the service user and its organization as it has read them.
LoneStartsSucceed ==
    \A s \in Server : s \notin history.met =>
        /\ server[s].step = "tables" => server[s].missing \cap Present = {}
        /\ server[s].step = "insert user" => ~rows.user
        /\ server[s].step = "insert organization" => name \notin ToSet(rows.orgs)

\* Whatever upgrades were cut and whichever workers started early: a schema at the
\* last revision is complete, a revision fails only for a reason, going down undoes
\* going up, and a worker that starts alone finds its workspace.
StartupSound == HeadComplete /\ FailuresExplained /\ RoundTrip /\ LoneStartsSucceed
=============================================================================
