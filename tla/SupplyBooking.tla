---------------------------- MODULE SupplyBooking ----------------------------
(***************************************************************************)
(* What a purchase order's lines are given: quantities booked onto         *)
(* containers of a supplier delivery (supplier_deliveries/services.py,     *)
(* views.py, forms.py), and the containers a line acquired                 *)
(* (procurement/container_links.py).                                       *)
(*                                                                         *)
(* Requests run at once, each in one transaction at the database's default *)
(* isolation: a statement sees what is committed when it runs, and what    *)
(* its own transaction has written.                                        *)
(*                                                                         *)
(* One purchase order that is not Business Central's.  What a delivery     *)
(* says of itself (status, dates) and container loads are left out, and so *)
(* is update_supplier_delivery_line, which no view calls.                  *)
(***************************************************************************)
EXTENDS Naturals, FiniteSets, FiniteSetsExt

CONSTANTS
    Lines,        \* the lines of the order
    Containers,
    Deliveries,   \* deliveries, by the reference that is unique in a team
    Existing,     \* those that exist to begin with
    Requests,     \* requests that may run at once
    None,         \* no line, no request
    MaxQty,       \* BOUND: quantities are 0 .. MaxQty
    MaxChanges    \* BOUND: changes of an ordered quantity

ASSUME BoundsAreNaturals == MaxQty \in Nat /\ MaxChanges \in Nat /\ Existing \subseteq Deliveries

VARIABLES
    ordered,     \* ordered_qty of each line, None when the line is deleted
    deliveries,  \* SupplierDelivery rows
    booked,      \* SupplierDeliveryLine rows
    acquired,    \* ContainerAcquisition: the line each container came from
    request,     \* what each request is doing
    overtaken,   \* HISTORY: requests that may have read what another one has changed since
    fulfilled,   \* HISTORY: assignments answered with success, of lines that still exist
    changes

vars == <<ordered, deliveries, booked, acquired, request, overtaken, fulfilled, changes>>

Quantities == 0 .. MaxQty

(***************************************************************************)
(* An assignment books a container onto a line of the order.  A row names  *)
(* the request that wrote it, which tells two otherwise equal rows apart.  *)
(***************************************************************************)
Assignments == [container : Containers, line : Lines, qty : Quantities]

Rows == [delivery : Deliveries, container : Containers, line : Lines, qty : Quantities, by : Requests]

Bookings == [step : {"opening", "checking", "inserting"}, delivery : Deliveries, new : BOOLEAN,
             ordered : [Lines -> Quantities \cup {None}], batch : SUBSET Assignments,
             todo : SUBSET Assignments, checked : Assignments \cup {None}, made : SUBSET Rows]

Links == [step : {"locking", "reading", "writing"}, container : Containers, line : Lines]

Init ==
    /\ ordered \in [Lines -> {MaxQty}]
    /\ deliveries = Existing
    /\ booked = {}
    /\ acquired = [c \in Containers |-> None]
    /\ request = [r \in Requests |-> None]
    /\ overtaken = {}
    /\ fulfilled = {}
    /\ changes = 0

Busy(r, step) == request[r] # None /\ request[r].step = step

InProgress == {r \in Requests : request[r] # None}

Stop(r) == request' = [request EXCEPT ![r] = None]
-------------------------------------------------------------------------------
(***************************************************************************)
(* supplier_delivery_link_containers as far as the form: containers of the *)
(* batch each with a line and a quantity, onto a delivery of the order or  *)
(* onto a new one whose reference the form has not found.  The form keeps  *)
(* the lines as it loaded them.                                            *)
(***************************************************************************)
Submit(r) ==
    /\ request[r] = None
    /\ \E d \in Deliveries, batch \in SUBSET Assignments :
          /\ batch # {}
          /\ \A a, b \in batch : a.container = b.container => a = b
          /\ \A a \in batch : ordered[a.line] # None
          /\ request' = [request EXCEPT ![r] =
                 [step |-> "opening", delivery |-> d, new |-> d \notin deliveries,
                  ordered |-> ordered, batch |-> batch, todo |-> batch,
                  checked |-> None, made |-> {}]]
    /\ overtaken' = overtaken \ {r}
    /\ UNCHANGED <<ordered, deliveries, booked, acquired, fulfilled, changes>>

(***************************************************************************)
(* The transaction begins.  A new delivery is inserted; a second insert of *)
(* the same reference waits for the first transaction to end, and fails on *)
(* unique_supplier_delivery_ref_per_team if that one committed.            *)
(***************************************************************************)
Open(r) ==
    /\ Busy(r, "opening")
    /\ IF request[r].new /\ request[r].delivery \in deliveries
       THEN Stop(r)
       ELSE /\ request[r].new => \A s \in InProgress \ {r} :
                   ~(request[s].step \in {"checking", "inserting"}
                     /\ request[s].new /\ request[s].delivery = request[r].delivery)
            /\ request' = [request EXCEPT ![r].step = "checking"]
    /\ UNCHANGED <<ordered, deliveries, booked, acquired, overtaken, fulfilled, changes>>

Visible(r) == booked \cup request[r].made

Matches(row, delivery, a) ==
    row.delivery = delivery /\ row.container = a.container /\ row.line = a.line

(***************************************************************************)
(* The query for already_booked.                                           *)
(***************************************************************************)
AlreadyBooked(r, a) == \E row \in Visible(r) : Matches(row, request[r].delivery, a)

Check(r) ==
    /\ Busy(r, "checking")
    /\ \E a \in request[r].todo :
          request' = [request EXCEPT
              ![r].todo = @ \ {a},
              ![r].step = IF AlreadyBooked(r, a) THEN "checking" ELSE "inserting",
              ![r].checked = IF AlreadyBooked(r, a) THEN None ELSE a]
    /\ UNCHANGED <<ordered, deliveries, booked, acquired, overtaken, fulfilled, changes>>

Total(rows, line) == MapThenSumSet(LAMBDA row : row.qty, {row \in rows : row.line = line})

(***************************************************************************)
(* MUTANT of Fits: the rows of the batch itself are not counted.           *)
(***************************************************************************)
FitsCommitted(r, a) == Total(booked, a.line) + a.qty <= request[r].ordered[a.line]

(***************************************************************************)
(* _validate_delivery_line_qty, with ordered_qty as the form loaded it.    *)
(***************************************************************************)
Fits(r, a) == Total(Visible(r), a.line) + a.qty <= request[r].ordered[a.line]

(***************************************************************************)
(* MUTANT of Reject: the assignment is left out and the batch goes on.     *)
(***************************************************************************)
RejectAssignment(r) == request' = [request EXCEPT ![r].step = "checking", ![r].checked = None]

(***************************************************************************)
(* A quantity that does not fit rolls the whole transaction back.          *)
(***************************************************************************)
Reject(r) == Stop(r)

(***************************************************************************)
(* create_supplier_delivery_line.                                          *)
(***************************************************************************)
Insert(r) ==
    /\ Busy(r, "inserting")
    /\ LET a == request[r].checked
           row == [delivery |-> request[r].delivery, container |-> a.container, line |-> a.line,
                   qty |-> a.qty, by |-> r]
       IN  IF Fits(r, a)
           THEN request' = [request EXCEPT ![r].step = "checking", ![r].checked = None,
                                           ![r].made = @ \cup {row}]
           ELSE Reject(r)
    /\ UNCHANGED <<ordered, deliveries, booked, acquired, overtaken, fulfilled, changes>>

(***************************************************************************)
(* The transaction ends.  The foreign keys are checked now: a line that    *)
(* was deleted, or a delivery that went with its order, rolls it back.     *)
(***************************************************************************)
Commit(r) ==
    /\ Busy(r, "checking")
    /\ request[r].todo = {}
    /\ IF /\ \A row \in request[r].made : ordered[row.line] # None
          /\ request[r].new \/ request[r].made = {} \/ request[r].delivery \in deliveries
       THEN /\ booked' = booked \cup request[r].made
            /\ deliveries' = IF request[r].new THEN deliveries \cup {request[r].delivery} ELSE deliveries
            /\ fulfilled' = fulfilled \cup {[delivery |-> request[r].delivery, assignment |-> a] :
                                             a \in {a \in request[r].batch : ordered[a.line] # None}}
            /\ overtaken' = IF request[r].made = {} THEN overtaken
                            ELSE overtaken \cup {s \in InProgress \ {r} :
                                                     request[s].step \in {"checking", "inserting"}}
       ELSE UNCHANGED <<booked, deliveries, fulfilled, overtaken>>
    /\ Stop(r)
    /\ UNCHANGED <<ordered, acquired, changes>>
-------------------------------------------------------------------------------
(***************************************************************************)
(* link_acquired_container is called.                                      *)
(***************************************************************************)
AskLink(r) ==
    /\ request[r] = None
    /\ \E c \in Containers, l \in Lines :
          /\ ordered[l] # None
          /\ request' = [request EXCEPT ![r] = [step |-> "locking", container |-> c, line |-> l]]
    /\ UNCHANGED <<ordered, deliveries, booked, acquired, overtaken, fulfilled, changes>>

(***************************************************************************)
(* MUTANT of LockFree: the container is read without select_for_update.    *)
(***************************************************************************)
LockNotTaken(c) == TRUE

(***************************************************************************)
(* The row lock on the container, held until the transaction ends.         *)
(***************************************************************************)
LockFree(c) ==
    \A r \in InProgress : request[r].step \in {"reading", "writing"} => request[r].container # c

Lock(r) ==
    /\ Busy(r, "locking")
    /\ LockFree(request[r].container)
    /\ request' = [request EXCEPT ![r].step = "reading"]
    /\ UNCHANGED <<ordered, deliveries, booked, acquired, overtaken, fulfilled, changes>>

(***************************************************************************)
(* Whether the container has an origin.  The same line answers with the    *)
(* row there is, another line with a ValidationError; both end here.       *)
(***************************************************************************)
ReadOrigin(r) ==
    /\ Busy(r, "reading")
    /\ IF acquired[request[r].container] # None THEN Stop(r)
       ELSE request' = [request EXCEPT ![r].step = "writing"]
    /\ UNCHANGED <<ordered, deliveries, booked, acquired, overtaken, fulfilled, changes>>

(***************************************************************************)
(* The row is inserted and committed, unless the line is gone or the       *)
(* unique constraint refuses it.                                           *)
(***************************************************************************)
WriteOrigin(r) ==
    /\ Busy(r, "writing")
    /\ LET c == request[r].container
           l == request[r].line
       IN  acquired' = IF acquired[c] = None /\ ordered[l] # None
                       THEN [acquired EXCEPT ![c] = l] ELSE acquired
    /\ Stop(r)
    /\ UNCHANGED <<ordered, deliveries, booked, overtaken, fulfilled, changes>>

(***************************************************************************)
(* unlink_acquired_container.                                              *)
(***************************************************************************)
Unlink(c) ==
    /\ acquired[c] # None
    /\ acquired' = [acquired EXCEPT ![c] = None]
    /\ UNCHANGED <<ordered, deliveries, booked, request, overtaken, fulfilled, changes>>

(***************************************************************************)
(* The ordered quantity is changed by hand (update_purchase_order_line);   *)
(* it is not compared with what is booked.                                 *)
(***************************************************************************)
ChangeOrdered(l) ==
    /\ changes < MaxChanges
    /\ ordered[l] # None
    /\ \E q \in Quantities \ {ordered[l]} : ordered' = [ordered EXCEPT ![l] = q]
    /\ overtaken' = overtaken \cup InProgress
    /\ changes' = changes + 1
    /\ UNCHANGED <<deliveries, booked, acquired, request, fulfilled>>

(***************************************************************************)
(* delete_purchase_order_line: what was booked or acquired through the     *)
(* line goes with it.                                                      *)
(***************************************************************************)
DeleteLine(l) ==
    /\ changes < MaxChanges
    /\ ordered[l] # None
    /\ ordered' = [ordered EXCEPT ![l] = None]
    /\ booked' = {row \in booked : row.line # l}
    /\ acquired' = [c \in Containers |-> IF acquired[c] = l THEN None ELSE acquired[c]]
    /\ overtaken' = overtaken \cup InProgress
    /\ fulfilled' = {f \in fulfilled : f.assignment.line # l}
    /\ changes' = changes + 1
    /\ UNCHANGED <<deliveries, request>>

(***************************************************************************)
(* A worker dies: its transaction is rolled back.                          *)
(***************************************************************************)
Die(r) ==
    /\ request[r] # None
    /\ Stop(r)
    /\ UNCHANGED <<ordered, deliveries, booked, acquired, overtaken, fulfilled, changes>>
-------------------------------------------------------------------------------
Next ==
    \/ \E r \in Requests : \/ Submit(r) \/ Open(r) \/ Check(r) \/ Insert(r) \/ Commit(r)
                           \/ AskLink(r) \/ Lock(r) \/ ReadOrigin(r) \/ WriteOrigin(r)
                           \/ Die(r)
    \/ \E c \in Containers : Unlink(c)
    \/ \E l \in Lines : ChangeOrdered(l) \/ DeleteLine(l)

Spec == Init /\ [][Next]_vars
-------------------------------------------------------------------------------
TypeOK ==
    /\ ordered \in [Lines -> Quantities \cup {None}]
    /\ deliveries \in SUBSET Deliveries
    /\ booked \in SUBSET Rows
    /\ acquired \in [Containers -> Lines \cup {None}]
    /\ request \in [Requests -> Bookings \cup Links \cup {None}]
    /\ overtaken \in SUBSET Requests
    /\ fulfilled \in SUBSET [delivery : Deliveries, assignment : Assignments]
    /\ changes \in 0 .. MaxChanges

(***************************************************************************)
(* A booking that nobody overtakes is exact: the rows it adds leave their  *)
(* lines within what is ordered, and double nothing that was booked, by    *)
(* the request itself or before (link_containers_to_delivery).             *)
(***************************************************************************)
ExactUnlessOvertaken ==
    [][\A row \in booked' \ booked : row.by \notin overtaken =>
           /\ Total(booked', row.line) <= ordered'[row.line]
           /\ \A other \in booked' : Matches(other, row.delivery, row) => other = row]_vars

(***************************************************************************)
(* A batch is booked as a whole (views.py:200, "a quantity that overflows  *)
(* its PO line must not leave a new, empty delivery behind"): what was     *)
(* answered with success is on the delivery, and a delivery that a batch   *)
(* opened has rows, unless a line was deleted with them.                   *)
(***************************************************************************)
WholeBatches ==
    /\ \A f \in fulfilled : \E row \in booked : Matches(row, f.delivery, f.assignment)
    /\ \A d \in deliveries \ Existing :
           (\E row \in booked : row.delivery = d) \/ \E l \in Lines : ordered[l] = None

(***************************************************************************)
(* Whoever comes to write a container's origin still finds it without one, *)
(* so that the loser of a race reads the winner's answer and never runs    *)
(* into the unique constraint (container_links.py:94-101).                 *)
(***************************************************************************)
LoserReadsWinner ==
    \A r \in Requests : Busy(r, "writing") => acquired[request[r].container] = None
===============================================================================
