----------------------------- MODULE MCOperations -----------------------------
\* Components that share no state, checked in one run: each behaviour is one of
\* the component named by part, beside the initial states of the others.
EXTENDS AlertDelivery, AlertIntake, SavingsLedger, Remediation, Startup,
    ProviderCosts, Exports, CostImport, TLC

CONSTANTS a, b

SavingsPlanned == ("i" :> 2) @@ ("j" :> 0)

\* One policy without a mute window, one that mutes over midnight.
DeliveryPolicies == {
    [set |-> TRUE, min |-> "low", window |-> 1, mute |-> FALSE, from |-> 0, to |-> 0],
    [set |-> TRUE, min |-> "critical", window |-> 0, mute |-> TRUE, from |-> 1, to |-> 0]}

Line(holding, service, zone, cost) ==
    [holding |-> holding, service |-> service, zone |-> zone, cost |-> cost]

ProviderCharges == {
    Line("h1", "vm", "east", 1), Line("h1", "db", "west", 2), Line("h2", "vm", "east", 4),
    Line("h2", "s3", "east", 8), Line("h2", "s3", "west", -32), Line("h3", "vm", "west", 16)}

\* The second has a credit.
ChargesBilled ==
    {{l \in ProviderCharges : l.cost > 0}, {l \in ProviderCharges : l.holding \in {"h1", "h2"}}}

Request(cloud, main, listed, top, mid, payer, misnamed, targets) ==
    [cloud |-> cloud, main |-> main, listed |-> listed, top |-> top, mid |-> mid,
     payer |-> payer, misnamed |-> misnamed, targets |-> targets]

\* Lists that name an account twice, or the account of the credential.
CostRequests ==
    {Request("aws", "h1", listed, "none", "none", payer, {}, targets) :
       listed \in {<<>>, <<"h2", "h3", "h2">>, <<"h1">>}, payer \in BOOLEAN,
       targets \in {{}, {"h2"}}}
    \cup {Request("azure", main, listed, top, "none", FALSE, {}, {}) :
            main \in {"h1", "none"}, listed \in {<<"h1", "h2">>, <<"h2", "h3">>},
            top \in {"none", "g"}}
    \cup {Request("gcp", "h1", listed, top, mid, FALSE, misnamed, {}) :
            listed \in {<<>>, <<"h2", "h3">>}, top \in {"none", "o"}, mid \in {"none", "f"},
            misnamed \in {{}, {"h3"}}}
    \cup {Request("oci", "h1", <<>>, "none", "none", FALSE, {}, {})}

CsvRow(provider, usd, cost, dates) ==
    [provider |-> provider, usd |-> usd, cost |-> cost, dates |-> dates]

CsvRows == {
    CsvRow("aws", TRUE, 1, {}), CsvRow("oci", TRUE, 2, {}), CsvRow("aws", FALSE, 4, {}),
    CsvRow("oci", TRUE, -1, {"start", "end"}), CsvRow("x", TRUE, 1, {})}

CsvFiles ==
    {[readable |-> TRUE, headers |-> headers, rows |-> csv] :
       headers \in SUBSET {"provider", "cost_usd"},
       csv \in {<<>>} \cup {<<r>> : r \in CsvRows} \cup {<<r, s>> : r, s \in CsvRows}}
    \cup {[readable |-> FALSE, headers |-> {}, rows |-> <<>>]}

VARIABLE part

Init ==
    /\ part \in {"delivery", "intake", "triage", "ledger", "remediation", "migration", "workers",
                 "costs", "demands", "passes", "csv"}
    /\ DeliveryInit /\ IntakeInit /\ LedgerInit /\ RemediationInit /\ StartupInit
    /\ ProviderInit /\ ExportsInit /\ CsvInit
    /\ part # "costs" => ask.cloud = "oci" /\ Line("h3", "vm", "west", 16) \in billed
    /\ part \notin {"intake", "triage"} => dedupe
    /\ part # "migration" => ~history.legacy /\ ~history.atomic
    /\ part # "workers" => name = CHOOSE n \in Name : TRUE

Rest(p) ==
    /\ p # "delivery" => UNCHANGED deliveryVars
    /\ p # "intake" => UNCHANGED intakeVars
    /\ p # "ledger" => UNCHANGED ledgerVars
    /\ p # "remediation" => UNCHANGED remediationVars
    /\ p # "startup" => UNCHANGED startupVars
    /\ p # "costs" => UNCHANGED providerVars
    /\ p # "exports" => UNCHANGED exportVars
    /\ p # "csv" => UNCHANGED csvVars

\* "intake" takes batches in two processes; "triage" has one process and handles
\* the first alert.  "migration" starts one worker beside the upgrades up to its
\* tables, "workers" starts two as far as serving.  "demands" runs the passes of
\* one process beside the users of another, "passes" those of two processes.
Next ==
    /\ UNCHANGED part
    /\ \/ part = "delivery" /\ DeliveryNext /\ Rest("delivery")
       \/ part = "intake" /\ TakeIn(Taker) /\ Rest("intake")
       \/ part = "triage" /\ (TakeIn({a}) \/ (alerts # <<>> /\ Handle(1))) /\ Rest("intake")
       \/ part = "ledger" /\ LedgerNext /\ Rest("ledger")
       \/ part = "remediation" /\ RemediationNext /\ Rest("remediation")
       \/ part = "migration" /\ (Migrate \/ Create({a}, {})) /\ Rest("startup")
       \/ part = "workers" /\ (Create(Server, Kills) \/ Settle(Server)) /\ Rest("startup")
       \/ part = "costs" /\ ProviderNext /\ Rest("costs")
       \/ part = "demands" /\ (PassOf(a) \/ Demands(b)) /\ Rest("exports")
       \/ part = "demands" /\ exports = <<>> /\ task[a] = IdleWork
          /\ Creates(b, {"daily"}, {TRUE}) /\ Rest("exports")
       \/ part = "demands" /\ tick = 0 /\ ExportTick /\ Rest("exports")
       \/ part = "passes" /\ (PassOf(a) \/ PassOf(b) \/ ExportTick) /\ Rest("exports")
       \/ part = "passes" /\ jobs = <<>> /\ Creates(b, Schedule, BOOLEAN) /\ Rest("exports")
       \/ part = "csv" /\ uploads = 0 /\ (\E file \in CsvFile : Preview(file)) /\ Rest("csv")
       \/ part = "csv" /\ preview.file = NoFile /\ (\E file \in CsvFile : UploadCsv(file))
          /\ Rest("csv")

Spec == Init /\ [][Next]_<<deliveryVars, intakeVars, ledgerVars, remediationVars, startupVars,
                       providerVars, exportVars, csvVars, part>>
=============================================================================
