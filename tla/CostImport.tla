----------------------------- MODULE CostImport -----------------------------
(***************************************************************************)
(* CSV files of costs: the preview of a file, the upload that replaces the *)
(* rows of an organization or refuses the file, and the summary of what is *)
(* stored.  Preview and upload read and validate a file with the same      *)
(* helpers, and each draws its own conclusions.                            *)
(***************************************************************************)
EXTENDS Integers, Sequences, FiniteSets, FiniteSetsExt, SequencesExt

CONSTANTS
    CsvFile,        \* files: [readable, headers, rows]
    CsvProvider,    \* supported providers
    MaxIssues,      \* issues a preview shows: 200
    MaxUploads      \* bound: uploads

\* The cost of a row is NoCost or a number, and dates are the columns of a
\* period that do not parse.
CsvLine == [provider : STRING, usd : BOOLEAN, cost : Int, dates : SUBSET {"start", "end"}]

NoCost == -2

ASSUME CsvBounds ==
    /\ CsvFile \subseteq [readable : BOOLEAN, headers : SUBSET STRING, rows : Seq(CsvLine)]
    /\ MaxIssues \in Nat \ {0} /\ MaxUploads \in Nat

VARIABLES
    kept,       \* imported_cost_records: [upload, line, provider, cost]
    uploads,    \* files given to the upload so far
    accepted,   \* the last file that the upload answered with 200, and its number
    preview     \* the file previewed last, and the answer

csvVars == <<kept, uploads, accepted, preview>>

NoFile == [readable |-> FALSE, headers |-> {}, rows |-> <<>>]
NoAnswer == [status |-> 400, all |-> 0, good |-> 0, total |-> 0, providers |-> {}, issues |-> <<>>]

CsvInit ==
    /\ kept = {}
    /\ uploads = 0
    /\ accepted = [file |-> NoFile, number |-> 0]
    /\ preview = [file |-> NoFile, answer |-> NoAnswer]

-----------------------------------------------------------------------------
(* One row: validate_cost_csv_row stops at the provider and the currency.   *)

\* A column without a header reads as empty.
RowIn(file, i) ==
    [file.rows[i] EXCEPT !.provider = IF "provider" \in file.headers THEN @ ELSE "",
                         !.cost = IF "cost_usd" \in file.headers THEN @ ELSE NoCost]

CostErrors(cost) ==
    CASE cost = NoCost -> <<"missing cost">>
      [] cost # NoCost /\ cost < 0 -> <<"negative cost">>
      [] OTHER -> <<>>

DateErrors(dates) ==
    (IF "start" \in dates THEN <<"start">> ELSE <<>>)
    \o (IF "end" \in dates THEN <<"end">> ELSE <<>>)

RowErrors(row) ==
    CASE row.provider \notin CsvProvider -> <<"provider">>
      [] row.provider \in CsvProvider /\ ~row.usd -> <<"currency">>
      [] OTHER -> CostErrors(row.cost) \o DateErrors(row.dates)

GoodRows(file) == {i \in DOMAIN file.rows : RowErrors(RowIn(file, i)) = <<>>}

CostOfRows(file, lines) == MapThenSumSet(LAMBDA i : file.rows[i].cost, lines)
ProvidersOf(file, lines) == {file.rows[i].provider : i \in lines}

-----------------------------------------------------------------------------
(* The preview.                                                             *)

Issue(severity, message) == [severity |-> severity, message |-> message]

Errors(messages) == [i \in DOMAIN messages |-> Issue("error", messages[i])]

HeaderErrors(file) ==
    (IF "provider" \in file.headers THEN <<>> ELSE <<"provider column">>)
    \o (IF "cost_usd" \in file.headers THEN <<>> ELSE <<"cost column">>)

AllErrors(file) == FlattenSeq([i \in DOMAIN file.rows |-> RowErrors(RowIn(file, i))])

\* The warning that no row has tags is last; the list is cut.
IssuesShown(file) ==
    LET all == Errors(HeaderErrors(file) \o AllErrors(file))
               \o (IF file.rows = <<>> THEN <<>> ELSE <<Issue("warning", "no tags")>>)
    IN  SubSeq(all, 1, IF Len(all) < MaxIssues THEN Len(all) ELSE MaxIssues)

Previewed(file) ==
    IF ~file.readable THEN NoAnswer
    ELSE [status |-> 200, all |-> Len(file.rows), good |-> Cardinality(GoodRows(file)),
          total |-> CostOfRows(file, GoodRows(file)),
          providers |-> ProvidersOf(file, GoodRows(file)), issues |-> IssuesShown(file)]

\* preview_cost_csv_import changes nothing.
Preview(file) ==
    /\ preview' = [file |-> file, answer |-> Previewed(file)]
    /\ UNCHANGED <<kept, uploads, accepted>>

-----------------------------------------------------------------------------
(* The upload.                                                              *)

\* Faulty variant of Refused: the good rows of a file are taken.
RefusedEmpty(file) == ~file.readable \/ GoodRows(file) = {}

\* One bad row refuses the file.
Refused(file) ==
    \/ ~file.readable \/ ~({"provider", "cost_usd"} \subseteq file.headers)
    \/ GoodRows(file) # DOMAIN file.rows
    \/ file.rows = <<>>

\* The rows of earlier uploads are deleted, whatever they are of.
RowsLeft(file) == {}

\* upload_cost_csv: deletion, rows and audit entry are one transaction.
UploadCsv(file) ==
    /\ uploads < MaxUploads
    /\ uploads' = uploads + 1
    /\ IF Refused(file) THEN UNCHANGED <<kept, accepted>>
       ELSE /\ kept' = RowsLeft(file) \cup
                 {[upload |-> uploads', line |-> i, provider |-> file.rows[i].provider,
                   cost |-> file.rows[i].cost] : i \in GoodRows(file)}
            /\ accepted' = [file |-> file, number |-> uploads']
    /\ UNCHANGED preview

CsvNext == \E file \in CsvFile : Preview(file) \/ UploadCsv(file)

CsvSpec == CsvInit /\ [][CsvNext]_csvVars

-----------------------------------------------------------------------------
(* get_imported_cost_summary: the upload is the one of the newest row.      *)

ImportSummary ==
    [rows |-> Cardinality(kept), total |-> MapThenSumSet(LAMBDA r : r.cost, kept),
     providers |-> {r.provider : r \in kept},
     upload |-> IF kept = {} THEN 0 ELSE Max({r.upload : r \in kept})]

-----------------------------------------------------------------------------
(* Properties.                                                              *)

\* A preview tells what an upload of the file would do: it is taken exactly if the
\* preview shows no error, even a list of issues that is cut, and accepts a row.
\* (The guidance of a preview calls its good rows ready for import beside errors.)
PreviewTrue ==
    ~Refused(preview.file) <=>
        /\ preview.answer.status = 200 /\ preview.answer.good > 0
        /\ \A i \in DOMAIN preview.answer.issues : preview.answer.issues[i].severity # "error"

\* The summary is the one that a preview of the last accepted file gives, however
\* many files came before it and whatever was refused after it.
SummaryTrue ==
    accepted.number > 0 =>
        LET told == Previewed(accepted.file)
        IN  ImportSummary = [rows |-> told.good, total |-> told.total,
                             providers |-> told.providers, upload |-> accepted.number]

\* What previews and summaries say of files is what uploads do with them.
ImportsTrue == PreviewTrue /\ SummaryTrue
=============================================================================
