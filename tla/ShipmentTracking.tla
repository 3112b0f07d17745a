--------------------------- MODULE ShipmentTracking ---------------------------
(***************************************************************************)
(* A shipment's row and those who write it: the syncs of the watches on    *)
(* its containers, which bring milestones, ETA and status in line with the *)
(* stored tracking events (shipments/transport_status.py), and people, who *)
(* edit, cancel and close it (shipments/services.py, views.py).            *)
(*                                                                         *)
(* Each works on an instance it loaded earlier, a sync for as long as the  *)
(* carrier takes to answer, and each save is committed on its own: a run   *)
(* may die, or a save may raise, between any two of them.                  *)
(*                                                                         *)
(* One shipment.  A milestone is set or not; an ETA is one value for the   *)
(* date and the instant of a forecast.  Stored events only add to what is  *)
(* known, and the latest forecast may be any.  Left out: an EXCEPTION      *)
(* event, which nothing in the code creates, original_eta and the other    *)
(* fields that decide nothing here.                                        *)
(***************************************************************************)
EXTENDS Naturals

CONSTANTS
    Syncs,        \* the watches on the shipment, each with its runs one after the other
    Aggregators,  \* those whose provider makes a forecast of its own (Traqo, Vizion)
    People,       \* requests of people
    Etas,         \* forecasts of arrival
    Chosen,       \* statuses people choose
    None,         \* no forecast, nothing loaded
    MaxActs       \* BOUND: how often people act

Statuses == {"DRAFT", "BOOKED", "IN_TRANSIT", "ARRIVED", "PARTIALLY_RECEIVED", "DELIVERED",
             "CANCELLED", "EXCEPTION"}

Steps == {"loaded", "storing", "eta", "save", "record", "status", "finish",
          "observe"}

ASSUME ShipmentConstants ==
    /\ None \notin Etas
    /\ Aggregators \subseteq Syncs
    /\ Chosen \subseteq Statuses
    /\ MaxActs \in Nat

VARIABLES
    events,      \* what the stored events say: milestones and latest forecast
    linked,      \* whether a container is on the shipment
    received,    \* how many of its supplier deliveries are received
    row,         \* the Shipment row
    history,     \* new_eta_at of the latest ETAHistory row, by changed_at
    recorded,    \* new_eta of every ETAHistory row
    watching,    \* subscriptions that are polled
    held,        \* the instance each sync or request has loaded
    unrecorded,  \* HISTORY: ETAs entered in a form, or saved by an update cut off before its history row
    acts         \* how often people have acted

vars == <<events, linked, received, row, history, recorded, watching, held, unrecorded, acts>>

trail == <<history, recorded, unrecorded>>

Actors == Syncs \cup People

MaybeEta == Etas \cup {None}

Known == [departed : BOOLEAN, arrived : BOOLEAN, forecast : MaybeEta]

Shipments == [departed : BOOLEAN, arrived : BOOLEAN, eta : MaybeEta, status : Statuses]

(***************************************************************************)
(* What a sync or a request holds: its instance and how far it is; of a    *)
(* sync also the forecast it is about to write, whether that moved,        *)
(* whether it is the provider's own, and whether another history row was   *)
(* written since the time it will carry as changed_at.                     *)
(***************************************************************************)
Held == [step : Steps, shipment : Shipments, forecast : MaybeEta,
         moved : BOOLEAN, own : BOOLEAN, late : BOOLEAN]

ASSUME NoneIsNoInstance == None \notin Held

Draft == [departed |-> FALSE, arrived |-> FALSE, eta |-> None, status |-> "DRAFT"]

Load(ship) == [step |-> "loaded", shipment |-> ship, forecast |-> None,
               moved |-> FALSE, own |-> FALSE, late |-> FALSE]

Init ==
    /\ events = [departed |-> FALSE, arrived |-> FALSE, forecast |-> None]
    /\ linked = TRUE
    /\ received = "none"
    /\ row = Draft
    /\ history = None
    /\ recorded = {}
    /\ watching = Syncs
    /\ held = [a \in Actors |-> None]
    /\ unrecorded = {}
    /\ acts = 0

At(a, step) == held[a] # None /\ held[a].step = step

Hold(a, instance) == held' = [held EXCEPT ![a] = instance]

Drop(a) == Hold(a, None)

\* What the steps after the ETA read of the instance; the rest is dropped.
Left(ship, step) == [Load(ship) EXCEPT !.step = step]
-------------------------------------------------------------------------------
(***************************************************************************)
(* A sync starts: the subscription is loaded, and its shipment with it.    *)
(***************************************************************************)
StartSync(s) ==
    /\ held[s] = None
    /\ s \in watching
    /\ Hold(s, Load(row))
    /\ UNCHANGED <<events, linked, received, row, trail, watching, acts>>

(***************************************************************************)
(* The carrier answers, and the events of the answer are stored one by     *)
(* one, some of which are news.                                            *)
(***************************************************************************)
StoreEvents(s) ==
    /\ At(s, "loaded") \/ At(s, "storing")
    /\ \E more \in Known \ {events} :
          /\ events.departed => more.departed
          /\ events.arrived => more.arrived
          /\ more.forecast = None => events.forecast = None
          /\ events' = more
    /\ Hold(s, [held[s] EXCEPT !.step = "storing"])
    /\ UNCHANGED <<linked, received, row, trail, watching, acts>>

(***************************************************************************)
(* CarrierNoDataError: a success without an event, and nothing to apply.   *)
(***************************************************************************)
AnswerWithout(s) ==
    /\ At(s, "loaded")
    /\ Hold(s, [held[s] EXCEPT !.step = "finish"])
    /\ UNCHANGED <<events, linked, received, row, trail, watching, acts>>

\* An update of the ETA that ends between its two saves leaves no history row.
CutOff(s) == unrecorded' = IF At(s, "record") THEN unrecorded \cup {held[s].forecast} ELSE unrecorded

(***************************************************************************)
(* The carrier does not answer, or the worker dies at any later step.      *)
(***************************************************************************)
Fail(s) ==
    /\ held[s] # None
    /\ CutOff(s)
    /\ Drop(s)
    /\ UNCHANGED <<events, linked, received, row, history, recorded, watching, acts>>

(***************************************************************************)
(* A milestone of the row after the save: written when the events have it  *)
(* and the instance does not, and otherwise not among update_fields.       *)
(***************************************************************************)
Milestone(instance, seen, stored) == IF seen /\ ~instance THEN TRUE ELSE stored

(***************************************************************************)
(* The answer had events, new or known ones (outcome.events_seen), and     *)
(* apply_tracking_to_shipment is called: its snapshot is taken from all    *)
(* stored events of the shipment.  A forecast that an arrival has          *)
(* overtaken will not be looked at.                                        *)
(*                                                                         *)
(* Here and below, ok says whether the save goes through.  One that raises *)
(* leaves the instance changed, and _apply_events_to_shipment swallows it. *)
(***************************************************************************)
ApplyMilestones(s, ok) ==
    /\ At(s, "loaded") \/ At(s, "storing")
    /\ LET ship == held[s].shipment
       IN  /\ row' = IF ok
                     THEN [row EXCEPT !.departed = Milestone(ship.departed, events.departed, @),
                                      !.arrived = Milestone(ship.arrived, events.arrived, @)]
                     ELSE row
           /\ Hold(s, [held[s] EXCEPT
                          !.step = IF ok THEN "eta" ELSE "finish",
                          !.shipment.departed = @ \/ events.departed,
                          !.shipment.arrived = @ \/ events.arrived,
                          !.forecast = IF events.arrived THEN None ELSE events.forecast])
    /\ UNCHANGED <<events, linked, received, trail, watching, acts>>

(***************************************************************************)
(* MUTANT of Moved: a first forecast has nothing to move from.             *)
(***************************************************************************)
MovedFromPrevious(old, previous, new) == previous # None /\ previous # new

(***************************************************************************)
(* Whether the forecast moved, by its date or by its time, from the        *)
(* instance's ETA and from the latest forecast in the history.             *)
(***************************************************************************)
Moved(old, previous, new) == old # new \/ (previous # None /\ previous # new)

(***************************************************************************)
(* update_shipment_eta as far as its first save: the ETA goes into the     *)
(* instance.                                                               *)
(***************************************************************************)
UpdateEta(s, previous, new, own) ==
    Hold(s, [held[s] EXCEPT !.step = "save", !.shipment.eta = new, !.forecast = new,
                            !.moved = Moved(held[s].shipment.eta, previous, new),
                            !.own = own, !.late = FALSE])

(***************************************************************************)
(* MUTANT of AlreadySaid: the history alone is asked.                      *)
(***************************************************************************)
SaidByHistory(eta, new) == history = new

AlreadySaid(eta, new) == eta = new /\ history = new

(***************************************************************************)
(* _update_eta_from_tracking: nothing to do without a forecast, and        *)
(* nothing when instance and history both say it already.                  *)
(***************************************************************************)
ApplyEta(s) ==
    /\ At(s, "eta")
    /\ LET new == held[s].forecast
       IN  IF new = None \/ AlreadySaid(held[s].shipment.eta, new)
           THEN Hold(s, Left(held[s].shipment, "status"))
           ELSE UpdateEta(s, history, new, FALSE)
    /\ UNCHANGED <<events, linked, received, row, trail, watching, acts>>

\* What follows an update of the ETA: the status, but the end after the provider's own.
Onwards(s, ok) ==
    IF held[s].own THEN None ELSE Left(held[s].shipment, IF ok THEN "status" ELSE "finish")

(***************************************************************************)
(* update_shipment_eta saves the ETA columns, whatever the row says by     *)
(* now.  A forecast that did not move is not recorded.                     *)
(***************************************************************************)
SaveEta(s, ok) ==
    /\ At(s, "save")
    /\ row' = IF ok THEN [row EXCEPT !.eta = held[s].forecast] ELSE row
    /\ Hold(s, IF ok /\ held[s].moved THEN [held[s] EXCEPT !.step = "record"] ELSE Onwards(s, ok))
    /\ UNCHANGED <<events, linked, received, trail, watching, acts>>

\* Updates that are under way carry an earlier time than a row that is written now.
Overtaken(a) ==
    IF At(a, "save") \/ At(a, "record") THEN [held[a] EXCEPT !.late = TRUE] ELSE held[a]

(***************************************************************************)
(* record_eta_change, after the ShipmentEvent: a row of its own commit,    *)
(* which is not the latest if one of a later changed_at is there.          *)
(***************************************************************************)
RecordEta(s, ok) ==
    /\ At(s, "record")
    /\ LET new == held[s].forecast
       IN  IF ok
           THEN /\ history' \in IF held[s].late THEN {history, new} ELSE {new}
                /\ recorded' = recorded \cup {new}
                /\ UNCHANGED unrecorded
           ELSE CutOff(s) /\ UNCHANGED <<history, recorded>>
    /\ held' = [a \in Actors |->
          IF a = s THEN Onwards(s, ok)
          ELSE IF ok THEN Overtaken(a) ELSE held[a]]
    /\ UNCHANGED <<events, linked, received, row, watching, acts>>

(***************************************************************************)
(* calculate_shipment_status: milestones are the instance's, containers    *)
(* and deliveries are looked up.  Only CANCELLED is kept as it is.         *)
(***************************************************************************)
StatusOf(ship) ==
    CASE ship.status = "CANCELLED" -> "CANCELLED"
      [] ship.status # "CANCELLED" /\ ship.arrived ->
            IF linked /\ received = "all" THEN "DELIVERED"
            ELSE IF linked /\ received = "some" THEN "PARTIALLY_RECEIVED" ELSE "ARRIVED"
      [] ship.status # "CANCELLED" /\ ~ship.arrived /\ ship.departed -> "IN_TRANSIT"
      [] OTHER -> IF linked THEN "BOOKED" ELSE "DRAFT"

(***************************************************************************)
(* recalculate_and_save_shipment_status: the status is saved when it is    *)
(* not the instance's, whatever the row says by now.                       *)
(***************************************************************************)
ApplyStatus(s, ok) ==
    /\ At(s, "status")
    /\ LET ship == held[s].shipment
       IN  /\ row' = IF ok /\ StatusOf(ship) # ship.status
                     THEN [row EXCEPT !.status = StatusOf(ship)] ELSE row
           /\ Hold(s, Left([ship EXCEPT !.departed = FALSE, !.status = StatusOf(ship)],
                            "finish"))
    /\ UNCHANGED <<events, linked, received, trail, watching, acts>>

(***************************************************************************)
(* _terminal_reason.                                                       *)
(***************************************************************************)
Terminal(ship) == ship.status \in {"DELIVERED", "CANCELLED"}

(***************************************************************************)
(* _journey_is_over, by the instance.                                      *)
(***************************************************************************)
JourneyIsOver(ship) ==
    ship.arrived \/ ship.status \in {"ARRIVED", "PARTIALLY_RECEIVED", "DELIVERED", "CANCELLED"}

(***************************************************************************)
(* _complete_if_terminal: the watch ends by the status of the instance.    *)
(* The run is over unless its provider may have a forecast of its own.     *)
(***************************************************************************)
FinishSync(s) ==
    /\ At(s, "finish")
    /\ watching' = IF Terminal(held[s].shipment) THEN watching \ {s} ELSE watching
    /\ IF s \in Aggregators /\ ~JourneyIsOver(held[s].shipment)
       THEN Hold(s, Left(held[s].shipment, "observe"))
       ELSE Drop(s)
    /\ UNCHANGED <<events, linked, received, row, trail, acts>>

(***************************************************************************)
(* record_provider_eta_observation, after the outcome is applied: a        *)
(* provider's own forecast becomes the ETA of a shipment that has none,    *)
(* and is otherwise added to the history alone.  The forecasts of each     *)
(* source are not kept apart here, so that any may be news from this one.  *)
(***************************************************************************)
Observe(s) ==
    /\ At(s, "observe")
    /\ \E new \in Etas :
          IF held[s].shipment.eta = None
          THEN /\ \E previous \in recorded \cup {None} : UpdateEta(s, previous, new, TRUE)
               /\ UNCHANGED trail
          ELSE /\ history' = new
               /\ recorded' = recorded \cup {new}
               /\ UNCHANGED unrecorded
               /\ held' = [a \in Actors |->
                     IF a = s THEN None ELSE Overtaken(a)]
    /\ UNCHANGED <<events, linked, received, row, watching, acts>>

\* It has none, or repeats its last one (_is_unchanged).
EndSync(s) ==
    /\ At(s, "observe")
    /\ Drop(s)
    /\ UNCHANGED <<events, linked, received, row, trail, watching, acts>>
-------------------------------------------------------------------------------
(***************************************************************************)
(* A request of a person loads the shipment.                               *)
(***************************************************************************)
StartRequest(p) ==
    /\ held[p] = None
    /\ acts < MaxActs
    /\ Hold(p, Load(row))
    /\ acts' = acts + 1
    /\ UNCHANGED <<events, linked, received, row, trail, watching>>

(***************************************************************************)
(* shipment_update: the form has put its fields into the instance before   *)
(* update_shipment looks for the old ETA there, so that it finds no        *)
(* difference to report.  The whole instance is saved.                     *)
(***************************************************************************)
SaveForm(p) ==
    /\ At(p, "loaded")
    /\ \E eta \in MaybeEta :
          /\ row' = [held[p].shipment EXCEPT !.eta = eta]
          /\ unrecorded' = unrecorded \cup ({eta} \ {None, held[p].shipment.eta})
    /\ Drop(p)
    /\ UNCHANGED <<events, linked, received, history, recorded, watching, acts>>

(***************************************************************************)
(* change_shipment_status, cancel_shipment: only the status is saved, when *)
(* it is not the instance's.                                               *)
(***************************************************************************)
SaveStatus(p) ==
    /\ At(p, "loaded")
    /\ \E status \in Chosen :
          row' = IF status = held[p].shipment.status THEN row ELSE [row EXCEPT !.status = status]
    /\ Drop(p)
    /\ UNCHANGED <<events, linked, received, trail, watching, acts>>

(***************************************************************************)
(* add_container_to_shipment, remove_container_from_shipment.              *)
(***************************************************************************)
LinkContainer ==
    /\ acts < MaxActs
    /\ linked' = ~linked
    /\ acts' = acts + 1
    /\ UNCHANGED <<events, received, row, trail, watching, held>>

(***************************************************************************)
(* supplier_delivery_mark_received, for one of several deliveries or for   *)
(* the last: the shipment is not recalculated.                             *)
(***************************************************************************)
ReceiveDelivery ==
    /\ acts < MaxActs
    /\ received' \in {"some", "all"}
    /\ received # "all"
    /\ acts' = acts + 1
    /\ UNCHANGED <<events, linked, row, trail, watching, held>>
-------------------------------------------------------------------------------
Sync(s) ==
    \/ StartSync(s) \/ StoreEvents(s) \/ AnswerWithout(s) \/ Fail(s)
    \/ ApplyEta(s) \/ FinishSync(s) \/ Observe(s) \/ EndSync(s)
    \/ \E ok \in BOOLEAN :
          ApplyMilestones(s, ok) \/ SaveEta(s, ok) \/ RecordEta(s, ok) \/ ApplyStatus(s, ok)

PeopleAct ==
    \/ \E p \in People : StartRequest(p) \/ SaveForm(p) \/ SaveStatus(p)
    \/ LinkContainer
    \/ ReceiveDelivery

Next == (\E s \in Syncs : Sync(s)) \/ PeopleAct

Spec == Init /\ [][Next]_vars

(***************************************************************************)
(* A watch that is active is polled again and again, and although any run  *)
(* may fail, each step of a run that is reached again and again goes       *)
(* through once more.  Nothing is assumed of people, and not that a        *)
(* carrier answers.                                                        *)
(***************************************************************************)
Fairness ==
    \A s \in Syncs :
        /\ WF_vars(StartSync(s)) /\ WF_vars(EndSync(s))
        /\ SF_vars(ApplyEta(s)) /\ SF_vars(SaveEta(s, TRUE))
        /\ SF_vars(RecordEta(s, TRUE))
        /\ SF_vars(ApplyStatus(s, TRUE)) /\ SF_vars(FinishSync(s))

FairSpec == Spec /\ Fairness
-------------------------------------------------------------------------------
TypeOK ==
    /\ events \in Known
    /\ linked \in BOOLEAN
    /\ received \in {"none", "some", "all"}
    /\ row \in Shipments
    /\ history \in MaybeEta
    /\ recorded \in SUBSET Etas
    /\ watching \in SUBSET Syncs
    /\ held \in [Actors -> Held \cup {None}]
    /\ unrecorded \in SUBSET Etas
    /\ acts \in 0..MaxActs

\* Forecasts the history has, or will have when the update that just saved them goes on.
OnRecord == recorded \cup {held[s].forecast : s \in {t \in Syncs : At(t, "record")}}

(***************************************************************************)
(* The ETA on the row never comes from nowhere (services.py:181, "the      *)
(* history and the cached value cannot drift apart"): however syncs        *)
(* interleave, each deciding by an old instance whether its forecast       *)
(* moved, the history has a row for it.  Two exceptions: a form entered    *)
(* it, or the run that saved it was cut off before the history row, which  *)
(* nothing writes later.                                                   *)
(***************************************************************************)
EtaIsOnRecord == row.eta \in OnRecord \cup unrecorded \cup {None}

(***************************************************************************)
(* What the row should say, by the events and by what surrounds it; and    *)
(* what the history should say, unless it has no row at all.               *)
(***************************************************************************)
InLine ==
    /\ row.departed = events.departed
    /\ row.arrived = events.arrived
    /\ row.status = StatusOf(row)
    /\ events.forecast # None /\ ~events.arrived =>
          row.eta = events.forecast /\ history \in {events.forecast, None}

\* People rest, and so do the events and the forecasts of the providers.
Undisturbed == ~PeopleAct /\ UNCHANGED events /\ \A s \in Syncs : ~Observe(s)

(***************************************************************************)
(* A stale save is repaired: once the events stay as they are, providers'  *)
(* own forecasts cease and people leave the shipment alone, and as long as *)
(* answers with events keep coming, the row is brought in line with the    *)
(* events and stays there, unless the last watch on it ends first.         *)
(***************************************************************************)
BroughtIntoLine ==
    /\ <>[][Undisturbed]_vars
    /\ []<><<\E s \in Syncs : ApplyMilestones(s, TRUE)>>_vars
    => <>[](InLine \/ watching = {})
===============================================================================
