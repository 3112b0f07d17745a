------------------------- MODULE BusinessCentralSync -------------------------
(***************************************************************************)
(* Business Central is master of the purchase orders; this is how its      *)
(* documents reach ours: the incremental sync (business_central/sync.py),  *)
(* the reconciliation that soft-deletes what is gone (reconcile.py), the   *)
(* upsert both rely on (procurement/services.py) and the dispatcher that   *)
(* decides when the next sync is due (integrations/services.py, tasks.py). *)
(*                                                                         *)
(* A run reads Business Central over HTTP, page after page of the orders   *)
(* first and then the lines of one order after the other, while people     *)
(* change them there; it then writes order by order, each in a transaction *)
(* of its own.  It may die between any two of these steps.                 *)
(*                                                                         *)
(* One integration, whose first sync has no initial_sync_days.  The clock  *)
(* is Business Central's and advances no faster than documents change, so  *)
(* several changes may carry one time stamp.  A document's header fields   *)
(* other than its modification time are left out: they are read and hashed *)
(* the way its lines are.                                                  *)
(***************************************************************************)
EXTENDS Integers, FiniteSets

CONSTANTS
    Orders,      \* documents, by their id in Business Central
    Lines,       \* the lines a document may have, by their id
    Values,      \* what a line may say
    Missing,     \* no document, no line, no row, nothing read
    Workers,     \* Celery workers and commands that may run a sync or a reconciliation
    Overlap,     \* _WATERMARK_OVERLAP
    MaxClock,    \* BOUND: how far Business Central's clock runs
    MaxChanges,  \* BOUND: how often documents are written or deleted
    MaxFaults    \* BOUND: failed requests, failed upserts and crashes

ASSUME BoundsAreNaturals ==
    Overlap \in Nat /\ Overlap > 0 /\ MaxClock \in Nat \ {0}
    /\ MaxChanges \in Nat /\ MaxFaults \in Nat

ASSUME MissingIsNoValue == Missing \notin Values

VARIABLES
    document,   \* what Business Central holds now
    modified,   \* its lastModifiedDateTime
    clock,      \* Business Central's clock
    changes,    \* how often documents have changed
    header,     \* PurchaseOrder: sync_hash and source_active
    lines,      \* PurchaseOrderLine: content and source_active
    watermark,  \* get_last_successful_watermark; 0 when no run has completed
    latest,     \* the most recent sync as the dispatcher sees it: RUNNING, ended, or due again
    run,        \* what each worker is doing
    gone,       \* HISTORY: orders Business Central has lacked since we stored them
    unseen,     \* HISTORY: orders written behind the page a sync was reading
    missed,     \* HISTORY: those of them that its watermark has left behind
    faults

vars == <<document, modified, clock, changes, header, lines, watermark, latest, run,
          gone, unseen, missed, faults>>

source == <<document, modified, clock, changes>>
mirror == <<header, lines>>
schedule == <<watermark, latest>>
history == <<gone, unseen, missed>>

(***************************************************************************)
(* The lines of a document.  The hash is injective on them, so that a      *)
(* stored hash is the content it was computed from                         *)
(* (compute_purchase_order_sync_hash).                                     *)
(***************************************************************************)
Contents == [Lines -> Values \cup {Missing}]

Present(content) == {l \in Lines : content[l] # Missing}

Headers == [hash : Contents, active : BOOLEAN]

LineRows == [value : Values, active : BOOLEAN]

(***************************************************************************)
(* A run: whether it lists the orders, reads their lines or writes, the    *)
(* orders of that phase it has not come to, those on the pages so far that *)
(* it wants, the lines it has read and not yet written, whether an upsert  *)
(* failed, and the watermark it will leave.                                *)
(***************************************************************************)
Runs == [kind : {"sync", "reconcile"}, phase : {"listing", "reading", "writing"},
         todo : SUBSET Orders, found : SUBSET Orders,
         read : [Orders -> Contents \cup {Missing}], failed : BOOLEAN, upto : Nat]

ASSUME MissingIsNoRecord == Missing \notin Contents \cup Headers \cup LineRows \cup Runs

Init ==
    /\ document = [o \in Orders |-> Missing]
    /\ modified = [o \in Orders |-> 0]
    /\ clock = 1
    /\ changes = 0
    /\ header = [o \in Orders |-> Missing]
    /\ lines = [o \in Orders |-> [l \in Lines |-> Missing]]
    /\ watermark = 0
    /\ latest = "due"
    /\ run = [w \in Workers |-> Missing]
    /\ gone = {}
    /\ unseen = {}
    /\ missed = {}
    /\ faults = 0
-------------------------------------------------------------------------------
(***************************************************************************)
(* Business Central: a document is written, possibly within the same tick  *)
(* of the clock as the change before it, or deleted.                       *)
(***************************************************************************)
Behind(w, o) ==
    /\ run[w] # Missing
    /\ run[w].kind = "sync"
    /\ run[w].phase = "listing"
    /\ o \notin run[w].todo \cup run[w].found

WriteDocument(o) ==
    /\ changes < MaxChanges
    /\ \E content \in Contents \ {document[o]} : document' = [document EXCEPT ![o] = content]
    /\ clock' \in {clock, clock + 1} \cap 1 .. MaxClock
    /\ modified' = [modified EXCEPT ![o] = clock']
    /\ unseen' = IF \E w \in Workers : Behind(w, o) THEN unseen \cup {o} ELSE unseen
    /\ missed' = missed \ {o}
    /\ changes' = changes + 1
    /\ UNCHANGED <<mirror, schedule, run, gone, faults>>

DeleteDocument(o) ==
    /\ changes < MaxChanges
    /\ document[o] # Missing
    /\ document' = [document EXCEPT ![o] = Missing]
    /\ modified' = [modified EXCEPT ![o] = 0]
    /\ gone' = IF header[o] = Missing THEN gone ELSE gone \cup {o}
    /\ missed' = missed \ {o}
    /\ changes' = changes + 1
    /\ UNCHANGED <<clock, mirror, schedule, run, unseen, faults>>
-------------------------------------------------------------------------------
(***************************************************************************)
(* MUTANT of LockIsFree: a run that does not take the lock.                *)
(***************************************************************************)
NoLock == TRUE

(***************************************************************************)
(* sync_lock: sync and reconciliation of an integration share one name, so *)
(* that only one of them runs (see ResourceLock).  A worker that is        *)
(* refused ends without having done anything.                              *)
(***************************************************************************)
LockIsFree == \A w \in Workers : run[w] = Missing

(***************************************************************************)
(* MUTANT of Listed: without the overlap.                                  *)
(***************************************************************************)
ListedWithoutOverlap(o) ==
    document[o] # Missing /\ (watermark # 0 => modified[o] > watermark)

(***************************************************************************)
(* _modified_since and the filter of fetch_purchase_orders: without a      *)
(* watermark every document, and otherwise those modified after the        *)
(* watermark less the overlap.                                             *)
(***************************************************************************)
Listed(o) ==
    document[o] # Missing /\ (watermark # 0 => modified[o] > watermark - Overlap)

Begin(w, kind, upto) ==
    run' = [run EXCEPT ![w] =
               [kind |-> kind, phase |-> "listing", todo |-> Orders, found |-> {},
                read |-> [o \in Orders |-> Missing], failed |-> FALSE, upto |-> upto]]

(***************************************************************************)
(* _run_sync as far as the first request: the run is recorded RUNNING.     *)
(* When no order is listed it leaves the watermark it started from, or     *)
(* else the time it started.  A person, a command or a retry of the task   *)
(* may start one at any time.                                              *)
(***************************************************************************)
StartSync(w) ==
    /\ run[w] = Missing
    /\ LockIsFree
    /\ Begin(w, "sync", IF watermark # 0 THEN watermark ELSE clock)
    /\ latest' = "RUNNING"
    /\ unseen' = {}
    /\ UNCHANGED <<source, mirror, watermark, gone, missed, faults>>

(***************************************************************************)
(* MUTANT of Wait: a row that says RUNNING is believed for ever.           *)
(***************************************************************************)
WaitUnlessRunning ==
    /\ latest = "ended"
    /\ latest' = "due"
    /\ UNCHANGED <<source, mirror, watermark, run, history, faults>>

(***************************************************************************)
(* _is_business_central_sync_due comes true with time: the interval after  *)
(* a COMPLETED run, the backoff after any other, or two hours of a row     *)
(* that still says RUNNING.                                                *)
(***************************************************************************)
Wait ==
    /\ latest # "due"
    /\ latest' = "due"
    /\ UNCHANGED <<source, mirror, watermark, run, history, faults>>

(***************************************************************************)
(* sync_enabled_business_central_integrations_task and the task it queues. *)
(***************************************************************************)
DispatchSync(w) == latest = "due" /\ StartSync(w)

(***************************************************************************)
(* _reconcile as far as the first request.                                 *)
(***************************************************************************)
StartReconcile(w) ==
    /\ run[w] = Missing
    /\ LockIsFree
    /\ Begin(w, "reconcile", 0)
    /\ UNCHANGED <<source, mirror, schedule, history, faults>>

(***************************************************************************)
(* _fetch_all_pages.  Page follows page through the orders by their key,   *)
(* with timeouts, retries and Retry-After in between, so that each order   *)
(* is looked at once, and changes before and after that; a page of several *)
(* orders is as many of these steps with nothing in between.  A sync wants *)
(* the orders its filter selects, and takes its watermark from the latest  *)
(* of them (_run_sync, max_modified); a reconciliation wants them all.     *)
(***************************************************************************)
Wanted(w, o) == IF run[w].kind = "sync" THEN Listed(o) ELSE document[o] # Missing

WatermarkWith(w, o) ==
    IF run[w].kind = "sync" /\ (run[w].found = {} \/ modified[o] > run[w].upto)
    THEN modified[o] ELSE run[w].upto

ListOrder(w, o) ==
    /\ run[w] # Missing
    /\ run[w].phase = "listing"
    /\ o \in run[w].todo
    /\ run' = [run EXCEPT ![w].todo = @ \ {o},
                          ![w].found = IF Wanted(w, o) THEN @ \cup {o} ELSE @,
                          ![w].upto = IF Wanted(w, o) THEN WatermarkWith(w, o) ELSE @]
    /\ UNCHANGED <<source, mirror, schedule, history, faults>>

(***************************************************************************)
(* The last page has no nextLink.                                          *)
(***************************************************************************)
StartReading(w) ==
    /\ run[w] # Missing
    /\ run[w].phase = "listing"
    /\ run[w].todo = {}
    /\ run' = [run EXCEPT ![w].phase = "reading", ![w].todo = run[w].found]
    /\ UNCHANGED <<source, mirror, schedule, history, faults>>

(***************************************************************************)
(* fetch_purchase_order_lines, one request per listed order, each a while  *)
(* after the list.                                                         *)
(***************************************************************************)
ReadLines(w, o) ==
    /\ run[w] # Missing
    /\ run[w].phase = "reading"
    /\ o \in run[w].todo
    /\ document[o] # Missing
    /\ run' = [run EXCEPT ![w].todo = @ \ {o}, ![w].read[o] = document[o]]
    /\ UNCHANGED <<source, mirror, schedule, history, faults>>
-------------------------------------------------------------------------------
Running(w, kind, phase) ==
    run[w] # Missing /\ run[w].kind = kind /\ run[w].phase = phase

Done(w, o, failed) ==
    run' = [run EXCEPT ![w].todo = @ \ {o}, ![w].read[o] = Missing, ![w].failed = failed]

ReadAll(w) == {o \in Orders : run[w].read[o] # Missing}

(***************************************************************************)
(* The writes begin: a sync goes through what it read, a reconciliation    *)
(* through the rows that are active now.                                   *)
(***************************************************************************)
StartWriting(w) ==
    /\ run[w] # Missing
    /\ run[w].phase = "reading"
    /\ run[w].todo = {}
    /\ run' = [run EXCEPT
           ![w].phase = "writing",
           ![w].todo = IF run[w].kind = "sync" THEN ReadAll(w)
                       ELSE {o \in Orders : header[o] # Missing /\ header[o].active}]
    /\ UNCHANGED <<source, mirror, schedule, history, faults>>

(***************************************************************************)
(* _upsert_lines: a line of the document is written and is active; a line  *)
(* that is no longer in it is left as it is.                               *)
(***************************************************************************)
UpsertedLines(o, content) ==
    [l \in Lines |-> IF l \in Present(content) THEN [value |-> content[l], active |-> TRUE]
                     ELSE lines[o][l]]

(***************************************************************************)
(* MUTANT of Upsert: header and lines are not one transaction, and the     *)
(* lines are lost when a worker dies between the two.                      *)
(***************************************************************************)
UpsertInTwoSteps(o, content) ==
    /\ header' = [header EXCEPT ![o] = [hash |-> content, active |-> TRUE]]
    /\ \/ lines' = [lines EXCEPT ![o] = UpsertedLines(o, content)]
       \/ lines' = lines

(***************************************************************************)
(* _upsert_single_purchase_order, one transaction.  An order whose content *)
(* hashes to what is stored is only touched: it is active again, and its   *)
(* lines are not looked at.                                                *)
(***************************************************************************)
Upsert(o, content) ==
    /\ header' = [header EXCEPT ![o] = [hash |-> content, active |-> TRUE]]
    /\ lines' = IF header[o] # Missing /\ header[o].hash = content THEN lines
                ELSE [lines EXCEPT ![o] = UpsertedLines(o, content)]

StoreOrder(w, o) ==
    /\ Running(w, "sync", "writing")
    /\ o \in run[w].todo
    /\ Upsert(o, run[w].read[o])
    /\ Done(w, o, run[w].failed)
    /\ gone' = IF document[o] = Missing THEN gone \cup {o} ELSE gone \ {o}
    /\ UNCHANGED <<source, schedule, unseen, missed, faults>>

(***************************************************************************)
(* The transaction of an order fails; upsert_purchase_orders counts it and *)
(* goes on with the next.                                                  *)
(***************************************************************************)
StoreFails(w, o) ==
    /\ faults < MaxFaults
    /\ Running(w, "sync", "writing")
    /\ o \in run[w].todo
    /\ Done(w, o, TRUE)
    /\ faults' = faults + 1
    /\ UNCHANGED <<source, mirror, schedule, history>>

(***************************************************************************)
(* _finish: the watermark is saved with the run only when no upsert        *)
(* failed, and the next run takes the highest one saved                    *)
(* (get_last_successful_watermark).                                        *)
(***************************************************************************)
Finish(w) ==
    watermark' = IF ~run[w].failed /\ run[w].upto > watermark THEN run[w].upto ELSE watermark

FinishSync(w) ==
    /\ Running(w, "sync", "writing")
    /\ run[w].todo = {}
    /\ Finish(w)
    /\ missed' = IF run[w].failed THEN missed
                 ELSE missed \cup {o \in unseen : modified[o] + Overlap <= run[w].upto}
    /\ latest' = "ended"
    /\ run' = [run EXCEPT ![w] = Missing]
    /\ UNCHANGED <<source, mirror, gone, unseen, faults>>
-------------------------------------------------------------------------------
(***************************************************************************)
(* The loop of _reconcile for one row that was active when the writes      *)
(* began: an order that was not listed is deactivated, of one that was     *)
(* listed the lines that were not in it are.  Nothing is deleted, and the  *)
(* hash stays.                                                             *)
(***************************************************************************)
ReconcileOrder(w, o) ==
    /\ Running(w, "reconcile", "writing")
    /\ o \in run[w].todo
    /\ IF run[w].read[o] = Missing
       THEN /\ header' = [header EXCEPT ![o].active = FALSE]
            /\ lines' = lines
       ELSE /\ header' = header
            /\ lines' = [lines EXCEPT ![o] = [l \in Lines |->
                   IF lines[o][l] # Missing /\ l \notin Present(run[w].read[o])
                   THEN [lines[o][l] EXCEPT !.active = FALSE] ELSE lines[o][l]]]
    /\ Done(w, o, run[w].failed)
    /\ UNCHANGED <<source, schedule, history, faults>>

FinishReconcile(w) ==
    /\ Running(w, "reconcile", "writing")
    /\ run[w].todo = {}
    /\ run' = [run EXCEPT ![w] = Missing]
    /\ UNCHANGED <<source, mirror, schedule, history, faults>>

(***************************************************************************)
(* A request fails for good while the run lists or reads; a document that  *)
(* was deleted after it was listed has no lines to fetch.  A sync is       *)
(* recorded FAILED, a reconciliation leaves nothing.                       *)
(***************************************************************************)
AbandonReading(w) ==
    /\ run[w] # Missing
    /\ run[w].phase \in {"listing", "reading"}
    /\ latest' = IF run[w].kind = "sync" THEN "ended" ELSE latest
    /\ run' = [run EXCEPT ![w] = Missing]
    /\ UNCHANGED <<source, mirror, watermark, history>>

ReadFails(w) ==
    /\ faults < MaxFaults
    /\ AbandonReading(w)
    /\ faults' = faults + 1

ReadFindsNothing(w) ==
    /\ run[w] # Missing
    /\ run[w].phase = "reading"
    /\ \E o \in run[w].todo : document[o] = Missing
    /\ AbandonReading(w)
    /\ UNCHANGED faults

(***************************************************************************)
(* The worker dies: the database releases its lock, what it committed      *)
(* stays, and the row of a sync says RUNNING.                              *)
(***************************************************************************)
Crash(w) ==
    /\ faults < MaxFaults
    /\ run[w] # Missing
    /\ run' = [run EXCEPT ![w] = Missing]
    /\ faults' = faults + 1
    /\ UNCHANGED <<source, mirror, schedule, history>>
-------------------------------------------------------------------------------
Work(w) ==
    \/ \E o \in Orders : \/ ListOrder(w, o) \/ ReadLines(w, o)
                         \/ StoreOrder(w, o) \/ ReconcileOrder(w, o)
    \/ StartReading(w)
    \/ StartWriting(w)
    \/ FinishSync(w)
    \/ FinishReconcile(w)
    \/ ReadFindsNothing(w)

Next ==
    \/ \E o \in Orders : WriteDocument(o) \/ DeleteDocument(o)
    \/ \E w \in Workers : \/ StartSync(w) \/ DispatchSync(w) \/ StartReconcile(w)
                          \/ Work(w)
                          \/ \E o \in Orders : StoreFails(w, o)
                          \/ ReadFails(w) \/ Crash(w)
    \/ Wait

Spec == Init /\ [][Next]_vars

(***************************************************************************)
(* A run that is not killed goes on, time passes, and the dispatcher ticks *)
(* often enough to find the integration due in between the other runs.     *)
(* Nobody has to change a document, start a run by hand or reconcile.      *)
(***************************************************************************)
Fairness ==
    /\ \A w \in Workers : WF_vars(Work(w))
    /\ WF_vars(Wait)
    /\ SF_vars(\E w \in Workers : DispatchSync(w))

FairSpec == Spec /\ Fairness
-------------------------------------------------------------------------------
TypeOK ==
    /\ document \in [Orders -> Contents \cup {Missing}]
    /\ modified \in [Orders -> Nat]
    /\ clock \in Nat \ {0}
    /\ changes \in Nat
    /\ header \in [Orders -> Headers \cup {Missing}]
    /\ lines \in [Orders -> [Lines -> LineRows \cup {Missing}]]
    /\ watermark \in Nat
    /\ latest \in {"due", "RUNNING", "ended"}
    /\ run \in [Workers -> Runs \cup {Missing}]
    /\ gone \in SUBSET Orders
    /\ unseen \in SUBSET Orders
    /\ missed \in SUBSET Orders
    /\ faults \in Nat

(***************************************************************************)
(* What Business Central says of an order is what we have stored of it.    *)
(***************************************************************************)
Stored(o) == header[o] # Missing /\ header[o].hash = document[o]

(***************************************************************************)
(* However runs fail, die and overlap with changes made meanwhile, an      *)
(* order that is not stored as it is would be listed by the next sync      *)
(* (sync.py:11, "advances the watermark only when the run completes        *)
(* fully").  The one exception: it was written behind the page a sync was  *)
(* reading, and that sync listed another order that was written by the     *)
(* overlap or more later, from which it took its watermark.                *)
(***************************************************************************)
NothingMissed ==
    \A o \in Orders : document[o] # Missing /\ ~Stored(o) => Listed(o) \/ o \in missed

(***************************************************************************)
(* The hash vouches for the lines: the rows of the lines an order was      *)
(* hashed with say what the hash says.  This is what makes it right to     *)
(* pass over the lines of an order whose hash has not changed.             *)
(***************************************************************************)
HashVouchesForLines ==
    \A o \in Orders : header[o] # Missing =>
        \A l \in Present(header[o].hash) :
            lines[o][l] # Missing /\ lines[o][l].value = header[o].hash[l]

(***************************************************************************)
(* A step deactivates an order only if Business Central has lacked it      *)
(* since we stored it: no reconciliation takes away an order because a     *)
(* sync stored it after the reconciliation had made its list.              *)
(***************************************************************************)
OnlyGoneDeactivated ==
    [][\A o \in Orders :
           header[o] # Missing /\ header[o].active /\ ~header'[o].active => o \in gone]_vars

(***************************************************************************)
(* Once Business Central comes to rest, what is there is stored as it is   *)
(* and its orders are active, whatever failed before and wherever a run    *)
(* died, but for what a long listing has missed.  It has to come to rest:  *)
(* a document that is deleted between the list and its turn fails the      *)
(* whole run, and could do so each time.                                   *)
(***************************************************************************)
ChangesArrive ==
    <>[][document' = document]_document =>
        <>[](\A o \in Orders \ missed :
                document[o] # Missing => Stored(o) /\ header[o].active)
===============================================================================
