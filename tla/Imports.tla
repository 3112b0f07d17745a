-------------------------------- MODULE Imports --------------------------------
(***************************************************************************)
(* An import job (imports/services.py, parsers.py, validators.py,          *)
(* importers.py, views.py): its file is parsed into rows, the rows are     *)
(* validated, and a confirmation makes objects of them.                    *)
(*                                                                         *)
(* Each view loads the job, looks at its status and then works on the      *)
(* instance it loaded; parsing and validation save statement by statement, *)
(* only a confirmation runs in one transaction, which holds the job's row  *)
(* from its first UPDATE and each import row from its own, so that nobody  *)
(* ever sees the status IMPORTING.                                         *)
(*                                                                         *)
(* The lines of the file name different objects.  Of the data of a row     *)
(* only validated_data matters, and of that whether it is empty, what the  *)
(* schema kept, or that with the parts of the container number.  Warnings, *)
(* counters and the column mapping are left out.                           *)
(***************************************************************************)
EXTENDS Naturals

CONSTANTS
    Size,        \* the file has lines 1 .. Size
    Malformed,   \* those the schema rejects
    BadNumbers,  \* those whose number is no container's (ISO 6346)
    UnknownTypes, \* those whose equipment type is missing or does not exist
    Requests,    \* requests of people that may run at once
    None,        \* no row, no request
    MaxFaults    \* BOUND: exceptions and deaths

Lines == 1 .. Size

ASSUME FileIsSound ==
    /\ Size \in Nat /\ MaxFaults \in Nat
    /\ Malformed \cup BadNumbers \cup UnknownTypes \subseteq Lines

VARIABLES
    type,      \* ImportJob.import_type
    status,    \* ImportJob.status
    rows,      \* ImportRow: the parse that created it, which stands for its key, and its status
    data,      \* ImportRow.validated_data of each line's row
    made,      \* how many objects were created for each line
    request,   \* what each request is doing
    died,      \* HISTORY: a parse or a validation died half way
    reopened,  \* HISTORY: lines marked VALID after an object had been made of them
    faults

importVars == <<type, status, rows, data, made, request, died, reopened, faults>>

Types == {"containers", "container_movements", "purchase_orders"}

Statuses == {"UPLOADED", "PARSING", "PARSED", "VALIDATING", "VALIDATED", "COMPLETED", "FAILED"}

RowStatuses == {"PENDING", "VALID", "INVALID", "IMPORTED", "SKIPPED"}

Data == {"empty", "fields", "parts"}

Keys == [line : Lines, by : Requests]

ASSUME NothingIsNoStatus == None \notin RowStatuses

Work == [step : {"parse", "delete", "create", "list", "judge", "parsed",
                 "validate", "query", "check", "confirm", "import", "fail"},
         update : BOOLEAN, todo : SUBSET Keys, held : [Lines -> Data],
         mine : [Lines -> RowStatuses \cup {None}], new : SUBSET Lines]

ImportInit ==
    /\ type \in Types
    /\ status = "UPLOADED"
    /\ rows = [l \in Lines |-> None]
    /\ data = [l \in Lines |-> "empty"]
    /\ made = [l \in Lines |-> 0]
    /\ request = [r \in Requests |-> None]
    /\ died = FALSE
    /\ reopened = {}
    /\ faults = 0

At(r, step) == request[r] # None /\ request[r].step = step

Stop(r) == request' = [request EXCEPT ![r] = None]

(***************************************************************************)
(* The rows there are, as the keys a query loads.                          *)
(***************************************************************************)
Present == {k \in Keys : rows[k.line] # None /\ rows[k.line].by = k.by}

NextRow(r) == CHOOSE k \in request[r].todo : \A j \in request[r].todo : k.line <= j.line

(***************************************************************************)
(* Rows of the job can be written when no confirmation holds the job's.    *)
(***************************************************************************)
LockFree == \A s \in Requests : ~At(s, "import")

Untouched(l) == \A s \in Requests : At(s, "import") => request[s].mine[l] = None
-------------------------------------------------------------------------------
(***************************************************************************)
(* The three views: get_import_job and the status each insists on.         *)
(***************************************************************************)
StepFor(s) ==
    CASE s = "UPLOADED"  -> "parse"
      [] s = "PARSED"    -> "validate"
      [] s = "VALIDATED" -> "confirm"

Ask(r) ==
    /\ request[r] = None
    /\ status \in {"UPLOADED", "PARSED", "VALIDATED"}
    /\ \E update \in BOOLEAN :
          /\ update => status = "VALIDATED"
          /\ request' = [request EXCEPT ![r] =
                 [step |-> StepFor(status), update |-> update, todo |-> {},
                  held |-> [l \in Lines |-> "empty"], mine |-> [l \in Lines |-> None], new |-> {}]]
    /\ UNCHANGED <<type, status, rows, data, made, died, reopened, faults>>

(***************************************************************************)
(* job.status = ...; job.save(update_fields=...).                          *)
(***************************************************************************)
SaveStatus(r, from, s, to) ==
    /\ At(r, from)
    /\ LockFree
    /\ status' = s
    /\ request' = IF to = None THEN [request EXCEPT ![r] = None]
                  ELSE [request EXCEPT ![r].step = to]
    /\ UNCHANGED <<type, rows, data, made, died, reopened, faults>>

StartParse(r) == SaveStatus(r, "parse", "PARSING", "delete")

(***************************************************************************)
(* create_import_rows: the rows there are go, and those of the file are    *)
(* inserted, which unique_together refuses if a second parse has just      *)
(* inserted its own.                                                       *)
(***************************************************************************)
DeleteRows(r) ==
    /\ At(r, "delete")
    /\ \A l \in Lines : Untouched(l)
    /\ rows' = [l \in Lines |-> None]
    /\ request' = [request EXCEPT ![r].step = "create"]
    /\ UNCHANGED <<type, status, data, made, died, reopened, faults>>

CreateRows(r) ==
    /\ At(r, "create")
    /\ IF \A l \in Lines : rows[l] = None
       THEN /\ rows' = [l \in Lines |-> [by |-> r, status |-> "PENDING"]]
            /\ data' = [l \in Lines |-> "empty"]
            /\ request' = [request EXCEPT ![r].step = IF Size = 0 THEN "fail" ELSE "list"]
       ELSE /\ request' = [request EXCEPT ![r].step = "fail"]
            /\ UNCHANGED <<rows, data>>
    /\ UNCHANGED <<type, status, made, died, reopened, faults>>

(***************************************************************************)
(* total_rows is saved, the rows are mapped, and _pydantic_validate_rows   *)
(* loads them; its one bulk_update reaches those that are still there.     *)
(***************************************************************************)
ListRows(r) ==
    /\ At(r, "list")
    /\ LockFree
    /\ request' = [request EXCEPT ![r].step = "judge", ![r].todo = Present]
    /\ UNCHANGED <<type, status, rows, data, made, died, reopened, faults>>

SchemaVerdict(l) == IF l \in Malformed THEN "INVALID" ELSE "VALID"

(***************************************************************************)
(* MUTANT of Kept: a rejected row keeps the data it was read with.         *)
(***************************************************************************)
KeptAnyway(l) == "fields"

Kept(l) == IF l \in Malformed THEN "empty" ELSE "fields"

JudgeRows(r) ==
    LET judged == {k.line : k \in request[r].todo \cap Present} IN
    /\ At(r, "judge")
    /\ \A l \in judged : Untouched(l)
    /\ rows' = [l \in Lines |-> IF l \in judged
                                THEN [rows[l] EXCEPT !.status = SchemaVerdict(l)] ELSE rows[l]]
    /\ data' = [l \in Lines |-> IF l \in judged THEN Kept(l) ELSE data[l]]
    /\ reopened' = reopened \cup {l \in judged : made[l] > 0 /\ SchemaVerdict(l) = "VALID"}
    /\ request' = [request EXCEPT ![r].step = "parsed", ![r].todo = {}]
    /\ UNCHANGED <<type, status, made, died, faults>>

FinishParse(r) == SaveStatus(r, "parsed", "PARSED", None)
-------------------------------------------------------------------------------
StartValidation(r) == SaveStatus(r, "validate", "VALIDATING", "query")

(***************************************************************************)
(* validate_all_rows loads the rows and validates one after another, each  *)
(* from the data it was loaded with.                                       *)
(***************************************************************************)
QueryRows(r) ==
    /\ At(r, "query")
    /\ request' = [request EXCEPT ![r].step = "check", ![r].todo = Present, ![r].held = data]
    /\ UNCHANGED <<type, status, rows, data, made, died, reopened, faults>>

(***************************************************************************)
(* Only containers have rules a row can break: a file of movements has no  *)
(* validator and one of orders has warnings only, so that a row the schema *)
(* has rejected is VALID again.                                            *)
(***************************************************************************)
Derived(l, d) ==
    IF type = "containers" /\ d # "empty" /\ l \notin BadNumbers THEN "parts" ELSE d

RuleVerdict(l, d) ==
    IF type = "containers" /\ (Derived(l, d) # "parts" \/ l \in UnknownTypes)
    THEN "INVALID" ELSE "VALID"

CheckRow(r) ==
    LET k == NextRow(r)
        verdict == RuleVerdict(k.line, request[r].held[k.line])
    IN
    /\ At(r, "check")
    /\ request[r].todo # {}
    /\ Untouched(k.line)
    /\ IF k \in Present
       THEN /\ rows' = [rows EXCEPT ![k.line].status = verdict]
            /\ data' = IF type = "container_movements" THEN data
                       ELSE [data EXCEPT ![k.line] = Derived(k.line, request[r].held[k.line])]
            /\ reopened' = IF made[k.line] > 0 /\ verdict = "VALID"
                           THEN reopened \cup {k.line} ELSE reopened
            /\ request' = [request EXCEPT ![r].todo = @ \ {k}]
       ELSE /\ request' = [request EXCEPT ![r].step = "fail"]
            /\ UNCHANGED <<rows, data, reopened>>
    /\ UNCHANGED <<type, status, made, died, faults>>

FinishValidation(r) ==
    /\ At(r, "check") /\ request[r].todo = {}
    /\ SaveStatus(r, "check", "VALIDATED", None)

(***************************************************************************)
(* MUTANT of Fail: the except block does not save the job.                 *)
(***************************************************************************)
FailInSilence(r) ==
    /\ At(r, "fail")
    /\ Stop(r)
    /\ UNCHANGED <<type, status, rows, data, made, died, reopened, faults>>

(***************************************************************************)
(* The except blocks of parse_import_job and validate_import_job.          *)
(***************************************************************************)
Fail(r) == SaveStatus(r, "fail", "FAILED", None)
-------------------------------------------------------------------------------
(***************************************************************************)
(* run_import, in one transaction: its first UPDATE waits for the row of   *)
(* the job, and the VALID rows are those committed by then.                *)
(***************************************************************************)
ValidRows == {k \in Present : rows[k.line].status = "VALID"}

(***************************************************************************)
(* MUTANT of StartImport: IMPORTING is saved for everybody to see.         *)
(***************************************************************************)
StartImportInTheOpen(r) ==
    /\ At(r, "confirm")
    /\ LockFree
    /\ status' = "IMPORTING"
    /\ request' = [request EXCEPT ![r].step = "import", ![r].todo = ValidRows, ![r].held = data]
    /\ UNCHANGED <<type, rows, data, made, died, reopened, faults>>

(***************************************************************************)
(* MUTANT of StartImport: the UPDATE waits for nobody.                     *)
(***************************************************************************)
StartImportUnlocked(r) ==
    /\ At(r, "confirm")
    /\ request' = [request EXCEPT ![r].step = "import", ![r].todo = ValidRows, ![r].held = data]
    /\ UNCHANGED <<type, status, rows, data, made, died, reopened, faults>>

StartImport(r) ==
    /\ At(r, "confirm")
    /\ LockFree
    /\ request' = [request EXCEPT ![r].step = "import", ![r].todo = ValidRows, ![r].held = data]
    /\ UNCHANGED <<type, status, rows, data, made, died, reopened, faults>>

(***************************************************************************)
(* What the importers look for in validated_data: an identity, and for a   *)
(* container an equipment type that exists.  They never look at the errors *)
(* of the row.                                                             *)
(***************************************************************************)
Usable(l, d) ==
    IF type = "containers" THEN d = "parts" /\ l \notin UnknownTypes ELSE d # "empty"

(***************************************************************************)
(* A movement is recorded again each time, the others look for the object  *)
(* first.                                                                  *)
(***************************************************************************)
Creates(r, l) ==
    Usable(l, request[r].held[l]) /\ (type = "container_movements" \/ made[l] = 0)

Updates(r, l) ==
    Usable(l, request[r].held[l]) /\ ~Creates(r, l) /\ request[r].update

(***************************************************************************)
(* MUTANT of ImportRow: each row commits by itself.                        *)
(***************************************************************************)
ImportRowForGood(r) ==
    LET k == NextRow(r) IN
    /\ At(r, "import")
    /\ request[r].todo # {}
    /\ IF k \in Present
       THEN /\ rows' = [rows EXCEPT ![k.line].status =
                           IF Creates(r, k.line) \/ Updates(r, k.line) THEN "IMPORTED" ELSE "SKIPPED"]
            /\ made' = [made EXCEPT ![k.line] = IF Creates(r, k.line) THEN @ + 1 ELSE @]
            /\ request' = [request EXCEPT ![r].todo = @ \ {k}]
       ELSE Stop(r) /\ UNCHANGED <<rows, made>>
    /\ UNCHANGED <<type, status, data, died, reopened, faults>>

(***************************************************************************)
(* One row of the loop.  A row that a parse has replaced meanwhile cannot  *)
(* be saved, and the transaction rolls back.                               *)
(***************************************************************************)
ImportRow(r) ==
    LET k == NextRow(r) IN
    /\ At(r, "import")
    /\ request[r].todo # {}
    /\ IF k \in Present
       THEN request' = [request EXCEPT
                ![r].todo = @ \ {k},
                ![r].mine[k.line] = IF Creates(r, k.line) \/ Updates(r, k.line)
                                    THEN "IMPORTED" ELSE "SKIPPED",
                ![r].new = IF Creates(r, k.line) THEN @ \cup {k.line} ELSE @]
       ELSE Stop(r)
    /\ UNCHANGED <<type, status, rows, data, made, died, reopened, faults>>

(***************************************************************************)
(* COMPLETED, and the commit.                                              *)
(***************************************************************************)
Commit(r) ==
    LET mine == request[r].mine IN
    /\ At(r, "import")
    /\ request[r].todo = {}
    /\ status' = "COMPLETED"
    /\ rows' = [l \in Lines |-> IF mine[l] = None THEN rows[l] ELSE [rows[l] EXCEPT !.status = mine[l]]]
    /\ made' = [l \in Lines |-> IF l \in request[r].new THEN made[l] + 1 ELSE made[l]]
    /\ Stop(r)
    /\ UNCHANGED <<type, data, died, reopened, faults>>
-------------------------------------------------------------------------------
(***************************************************************************)
(* A file that cannot be read, an exception in a rule or an importer: the  *)
(* except block, or the rollback of a confirmation.                        *)
(***************************************************************************)
Raise(r) ==
    /\ request[r] # None
    /\ request[r].step \notin {"parse", "validate", "confirm", "fail"}
    /\ faults < MaxFaults
    /\ faults' = faults + 1
    /\ IF At(r, "import") THEN Stop(r) ELSE request' = [request EXCEPT ![r].step = "fail"]
    /\ UNCHANGED <<type, status, rows, data, made, died, reopened>>

(***************************************************************************)
(* The server's process dies: what was saved stays, a transaction does not.*)
(***************************************************************************)
Die(r) ==
    /\ request[r] # None
    /\ faults < MaxFaults
    /\ faults' = faults + 1
    /\ died' = (died \/ request[r].step \notin {"parse", "validate", "confirm", "import"})
    /\ Stop(r)
    /\ UNCHANGED <<type, status, rows, data, made, reopened>>

Proceed(r) ==
    \/ StartParse(r) \/ DeleteRows(r) \/ CreateRows(r) \/ ListRows(r) \/ JudgeRows(r)
    \/ FinishParse(r) \/ StartValidation(r) \/ QueryRows(r) \/ CheckRow(r)
    \/ FinishValidation(r) \/ Fail(r) \/ StartImport(r) \/ ImportRow(r) \/ Commit(r)

ImportNext == \E r \in Requests : Ask(r) \/ Proceed(r) \/ Raise(r) \/ Die(r)

ImportSpec == ImportInit /\ [][ImportNext]_importVars

(***************************************************************************)
(* The server goes on with a request it has taken; nobody need ask.        *)
(***************************************************************************)
ImportFairSpec == ImportSpec /\ \A r \in Requests : WF_importVars(Proceed(r))
-------------------------------------------------------------------------------
(***************************************************************************)
(* The types of the variables.                                             *)
(***************************************************************************)
ImportTypeOK ==
    /\ type \in Types
    /\ status \in Statuses
    /\ rows \in [Lines -> [by : Requests, status : RowStatuses] \cup {None}]
    /\ data \in [Lines -> Data]
    /\ made \in [Lines -> Nat]
    /\ request \in [Requests -> Work \cup {None}]
    /\ died \in BOOLEAN
    /\ reopened \subseteq Lines
    /\ faults \in 0 .. MaxFaults

(***************************************************************************)
(* However often and from however many tabs a job is confirmed, and        *)
(* whatever fails in between, a line becomes a second movement only after  *)
(* a slow parse or validation has marked the imported row VALID again      *)
(* (importers.py:205-227, validators.py:137-180).                          *)
(***************************************************************************)
OnceUnlessReopened == \A l \in Lines : made[l] > 1 => l \in reopened

(***************************************************************************)
(* No object is made of a line the schema or the rules reject.  The status *)
(* of a row does not say so: validation marks rejected rows VALID, and a   *)
(* slow parse does after the validation.  The importers ask again for the  *)
(* equipment type only: it is that no order of parses, validations and     *)
(* confirmations, each with the copies it loaded, ever gives the row of    *)
(* such a line data an importer could use (schemas.py:269,                 *)
(* validators.py:137-157, importers.py:15-31).                             *)
(***************************************************************************)
Sound(l) == l \notin Malformed /\ (type = "containers" => l \notin BadNumbers \cup UnknownTypes)

OnlySoundLines == \A l \in Lines : made[l] > 0 => Sound(l)

(***************************************************************************)
(* A confirmation is all or nothing: objects appear only in the step that  *)
(* completes the job, and no row it made one of is left VALID for the next *)
(* confirmation (the transaction of importers.py:205).                     *)
(***************************************************************************)
ImportsAreWhole ==
    [][made' # made =>
          /\ status' = "COMPLETED"
          /\ \A l \in Lines : made'[l] # made[l] => rows'[l].status = "IMPORTED"]_importVars

(***************************************************************************)
(* The row of the job is the lock of a confirmation: two of them never     *)
(* make objects of the same job at once (importers.py:206).                *)
(***************************************************************************)
Confirmation == INSTANCE ExclusiveHolder
    WITH Workers <- Requests, holders <- {r \in Requests : At(r, "import")}, evicted <- {}

ConfirmedOneAtATime == Confirmation!Spec

(***************************************************************************)
(* A job does not stay PARSING or VALIDATING unless the process that was   *)
(* at it died (services.py:50-76, 136-149): then it does, and no view      *)
(* takes it up again.                                                      *)
(***************************************************************************)
JobsSettle ==
    status \in {"PARSING", "VALIDATING"} ~> (status \notin {"PARSING", "VALIDATING"} \/ died)
===============================================================================
