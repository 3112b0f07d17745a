-------------------------- MODULE ContainerMovements --------------------------
(***************************************************************************)
(* Where one container is: the movement history of containers/movements.py *)
(* and its projection onto the row of the container, fed by operators, by  *)
(* import files and by tracking events (tracking/ingestion.py and          *)
(* tracking/physical_movements.py).                                        *)
(*                                                                         *)
(* Ingestion workers run concurrently on the same events: storing an event *)
(* reads it, then writes the fields that differ, then checks whether it    *)
(* has a movement, then records one.  Each is a transaction of its own,    *)
(* and a worker may die, or the interpretation raise, between any two.     *)
(*                                                                         *)
(* A movement keeps what decides the position; its kind and its origin     *)
(* only decide whether it may be recorded.  The index of a movement in the *)
(* history is its created_at and pk: rows are inserted under the lock of   *)
(* the container.                                                          *)
(***************************************************************************)
EXTENDS Naturals, Sequences, FiniteSets

CONSTANTS
    Places,     \* canonical locations
    NoPlace,    \* an empty location column
    MaxTime,    \* BOUND: instants at which things happen are 1 .. MaxTime
    Events,     \* tracking events, as their provider identifies them
    NoEvent,    \* related_tracking_event is NULL
    Unseen,     \* an event that is not stored yet
    Workers,    \* ingestion workers
    NoJob,      \* what an idle worker works on
    MaxByHand,  \* BOUND: movements that no tracking event stands behind
    MaxFaults   \* BOUND: workers that die, interpretations that raise

ASSUME SentinelsDiffer ==
    NoPlace \notin Places /\ NoEvent \notin Events

ASSUME BoundsAreNaturals ==
    MaxTime \in Nat /\ MaxByHand \in Nat /\ MaxFaults \in Nat

VARIABLES
    movements,  \* the state-affecting ContainerMovement rows, in pk order
    container,  \* current_location, location_source and last_location_update
    event,      \* the stored place and time of each event, or Unseen
    step,       \* how far each worker is in persist_normalised_event
    job,        \* the event it stores: as delivered, and its instance in memory
    faults

history == <<movements, container>>
ingestion == <<event, step, job>>
vars == <<movements, container, event, step, job, faults>>

Times == 1 .. MaxTime
Maybe(places) == places \cup {NoPlace}

Sources == {"MANUAL", "IMPORT", "TRACKING_EVENT"}
NoSource == ""

(***************************************************************************)
(* EVIDENCE_STRENGTH_BY_SOURCE, and DEFAULT_EVIDENCE_STRENGTH.             *)
(***************************************************************************)
StrengthOf(source) ==
    CASE source = "MANUAL" -> 2
      [] source = "TRACKING_EVENT" -> 0
      [] OTHER -> 1

Operational == {"GATE_IN", "GATE_OUT", "RECEIVED", "TRANSFER"}
RequiresDestination == {"GATE_IN", "RECEIVED", "TRANSFER"}
RequiresOrigin == {"GATE_OUT", "TRANSFER", "DEPARTED_DEPOT"}

Movements ==
    [to : Maybe(Places), source : Sources, at : Times, event : Events \cup {NoEvent}]

Claims == [place : Maybe(Places), source : Sources, at : Times]

(***************************************************************************)
(* What a tracking event says.  Place NoPlace stands for every version     *)
(* that is_eligible refuses: not resolved, not ACTUAL, or not a gate-in.   *)
(***************************************************************************)
Versions == [place : Maybe(Places), at : Times]

Eligible(version) == version.place # NoPlace

(***************************************************************************)
(* The event a worker stores: as delivered, and its instance in memory.    *)
(***************************************************************************)
Jobs == [event : Events, sent : Versions, held : Versions]

ASSUME NothingIsNoData == Unseen \notin Versions /\ NoJob \notin Jobs

(***************************************************************************)
(* Two kinds of container exist before any movement: a new one, and one    *)
(* whose location predates the movement history.                           *)
(***************************************************************************)
Init ==
    /\ movements = <<>>
    /\ container \in [place : Maybe(Places), source : {NoSource}, at : {0}]
    /\ event = [e \in Events |-> Unseen]
    /\ step = [w \in Workers |-> "idle"]
    /\ job = [w \in Workers |-> NoJob]
    /\ faults = 0
-------------------------------------------------------------------------------
(***************************************************************************)
(* MUTANT of Beats: the stronger source wins before the later instant.     *)
(***************************************************************************)
BeatsByStrength(ms, i, j) ==
    \/ StrengthOf(ms[i].source) > StrengthOf(ms[j].source)
    \/ /\ StrengthOf(ms[i].source) = StrengthOf(ms[j].source)
       /\ ms[i].at > ms[j].at \/ (ms[i].at = ms[j].at /\ i > j)

(***************************************************************************)
(* state_sort_key: occurred_at, then strength, then the order of creation. *)
(***************************************************************************)
Beats(ms, i, j) ==
    \/ ms[i].at > ms[j].at
    \/ /\ ms[i].at = ms[j].at
       /\ \/ StrengthOf(ms[i].source) > StrengthOf(ms[j].source)
          \/ StrengthOf(ms[i].source) = StrengthOf(ms[j].source) /\ i > j

Wins(ms, i) == \A j \in DOMAIN ms \ {i} : Beats(ms, i, j)

(***************************************************************************)
(* get_current_state_movement: the first of get_state_movements.           *)
(***************************************************************************)
StateMovement(ms) == ms[CHOOSE i \in DOMAIN ms : Wins(ms, i)]

(***************************************************************************)
(* The three columns a movement implies (resolved_location_id is to).      *)
(***************************************************************************)
Claim(m) == [place |-> m.to, source |-> m.source, at |-> m.at]

(***************************************************************************)
(* MUTANT of Project: the movement just recorded wins.                     *)
(***************************************************************************)
LastRecordedWins(ms) == Claim(ms[Len(ms)])

(***************************************************************************)
(* project_container_state, on a history that is not empty.                *)
(***************************************************************************)
Project(ms) == Claim(StateMovement(ms))

(***************************************************************************)
(* _validate_movement.                                                     *)
(***************************************************************************)
Coherent(kind, from, to) ==
    /\ kind \in RequiresDestination => to # NoPlace
    /\ kind \in RequiresOrigin => from # NoPlace
    /\ kind = "TRANSFER" => from # to

(***************************************************************************)
(* record_container_movement: one transaction under the lock of the        *)
(* container.  A missing origin is where the row says the container is.    *)
(***************************************************************************)
Record(kind, from, m) ==
    /\ Coherent(kind, IF from = NoPlace THEN container.place ELSE from, m.to)
    /\ movements' = Append(movements, m)
    /\ container' = Project(movements')

ByHand == {i \in DOMAIN movements : movements[i].event = NoEvent}

RecordByHand(kind, from, to, source, at) ==
    /\ Cardinality(ByHand) < MaxByHand
    /\ Record(kind, from, [to |-> to, source |-> source, at |-> at, event |-> NoEvent])

(***************************************************************************)
(* create_container with a location: a CREATED movement at created_at.     *)
(***************************************************************************)
CreateContainer ==
    /\ movements = <<>>
    /\ container.place = NoPlace
    /\ \E to \in Places, at \in Times :
          RecordByHand("CREATED", NoPlace, to, "MANUAL", at)
    /\ UNCHANGED <<event, step, job, faults>>

(***************************************************************************)
(* The movement form: any of the four operational kinds, at any instant,   *)
(* the origin given or left to the service.                                *)
(***************************************************************************)
RecordOperationalMovement ==
    /\ \E kind \in Operational, from, to \in Maybe(Places), at \in Times :
          RecordByHand(kind, from, to, "MANUAL", at)
    /\ UNCHANGED <<event, step, job, faults>>

(***************************************************************************)
(* A row of an import file, in whatever order the file has them.           *)
(***************************************************************************)
ImportMovement ==
    /\ \E to \in Places, at \in Times :
          RecordByHand("POSITION_UPDATE", NoPlace, to, "IMPORT", at)
    /\ UNCHANGED <<event, step, job, faults>>
-------------------------------------------------------------------------------
Goto(w, phase) == step' = [step EXCEPT ![w] = phase]

Finish(w) == Goto(w, "idle") /\ job' = [job EXCEPT ![w] = NoJob]

InterpretedEvents == {movements[i].event : i \in DOMAIN movements} \ {NoEvent}

(***************************************************************************)
(* upsert_event, get_or_create: a new event is stored as delivered; one we *)
(* have is read, and refreshed in the next step.                           *)
(***************************************************************************)
Deliver(w, e, version) ==
    /\ step[w] = "idle"
    /\ IF event[e] = Unseen
         THEN /\ event' = [event EXCEPT ![e] = version]
              /\ Goto(w, "checking")
         ELSE /\ Goto(w, "refreshing")
              /\ UNCHANGED event
    /\ job' = [job EXCEPT ![w] =
                  [event |-> e, sent |-> version,
                   held |-> IF event[e] = Unseen THEN version ELSE event[e]]]
    /\ UNCHANGED <<history, faults>>

(***************************************************************************)
(* MUTANT of Refresh: a corrected event moves the container by itself.     *)
(***************************************************************************)
RefreshAndMove(w) ==
    /\ step[w] = "refreshing"
    /\ event' = [event EXCEPT ![job[w].event] = job[w].sent]
    /\ container' = IF job[w].event \in InterpretedEvents /\ Eligible(job[w].sent)
                      THEN [container EXCEPT !.place = job[w].sent.place]
                      ELSE container
    /\ job' = [job EXCEPT ![w].held = job[w].sent]
    /\ Goto(w, "checking")
    /\ UNCHANGED <<movements, faults>>

(***************************************************************************)
(* MUTANT of Refresh: an event that was stored before is not interpreted.  *)
(***************************************************************************)
RefreshOnly(w) ==
    /\ step[w] = "refreshing"
    /\ event' = [event EXCEPT ![job[w].event] = job[w].sent]
    /\ Finish(w)
    /\ UNCHANGED <<history, faults>>

(***************************************************************************)
(* _update_existing_event: write the fields that differ from what was read *)
(* and leave the others to whoever wrote them since.                       *)
(***************************************************************************)
Refresh(w) ==
    /\ step[w] = "refreshing"
    /\ LET sent == job[w].sent
           held == job[w].held
       IN  /\ event' = [event EXCEPT ![job[w].event] =
                         [place |-> IF sent.place # held.place THEN sent.place ELSE @.place,
                          at |-> IF sent.at # held.at THEN sent.at ELSE @.at]]
           /\ job' = [job EXCEPT ![w].held = sent]
    /\ Goto(w, "checking")
    /\ UNCHANGED <<history, faults>>

(***************************************************************************)
(* interpret_tracking_event, up to the exists() check.  It reads the event *)
(* the worker has in memory.                                               *)
(***************************************************************************)
CheckEvent(w) ==
    /\ step[w] = "checking"
    /\ IF Eligible(job[w].held) /\ job[w].event \notin InterpretedEvents
         THEN Goto(w, "recording") /\ UNCHANGED job
         ELSE Finish(w)
    /\ UNCHANGED <<history, event, faults>>

EventMovement(w) ==
    [to |-> job[w].held.place, source |-> "TRACKING_EVENT",
     at |-> job[w].held.at, event |-> job[w].event]

(***************************************************************************)
(* MUTANT of RecordEvent: the exists() check is enough, no constraint.     *)
(***************************************************************************)
RecordUnconstrained(w) ==
    /\ step[w] = "recording"
    /\ Record("GATE_IN", NoPlace, EventMovement(w))
    /\ Finish(w)
    /\ UNCHANGED <<event, faults>>

(***************************************************************************)
(* The movement of the event.  When another worker recorded it since the   *)
(* check, the unique constraint rolls this one back.                       *)
(***************************************************************************)
RecordEvent(w) ==
    /\ step[w] = "recording"
    /\ IF job[w].event \in InterpretedEvents
         THEN UNCHANGED history
         ELSE Record("GATE_IN", NoPlace, EventMovement(w))
    /\ Finish(w)
    /\ UNCHANGED <<event, faults>>

(***************************************************************************)
(* The worker dies, or the interpretation raises and is swallowed by       *)
(* interpret_tracking_event_safely: what is committed stays.               *)
(***************************************************************************)
Interrupt(w) ==
    /\ step[w] # "idle"
    /\ faults < MaxFaults
    /\ faults' = faults + 1
    /\ Finish(w)
    /\ UNCHANGED <<history, event>>
-------------------------------------------------------------------------------
IngestionStep(w) == Refresh(w) \/ CheckEvent(w) \/ RecordEvent(w)

Ingest == \E w \in Workers, e \in Events, version \in Versions : Deliver(w, e, version)

Next ==
    \/ CreateContainer \/ RecordOperationalMovement \/ ImportMovement
    \/ Ingest
    \/ \E w \in Workers : IngestionStep(w) \/ Interrupt(w)

Spec == Init /\ [][Next]_vars

(***************************************************************************)
(* A worker that has begun goes on.  That anything is delivered again is   *)
(* not assumed: nobody polls a watch that is completed, paused or          *)
(* cancelled.                                                              *)
(***************************************************************************)
Fairness == \A w \in Workers : WF_vars(IngestionStep(w))

FairSpec == Spec /\ Fairness
-------------------------------------------------------------------------------
TypeOK ==
    /\ movements \in Seq(Movements)
    /\ container \in [place : Maybe(Places), source : Sources \cup {NoSource}, at : 0 .. MaxTime]
    /\ event \in [Events -> Versions \cup {Unseen}]
    /\ step \in [Workers -> {"idle", "refreshing", "checking", "recording"}]
    /\ job \in [Workers -> Jobs \cup {NoJob}]
    /\ \A w \in Workers : step[w] = "idle" <=> job[w] = NoJob
    /\ faults \in 0 .. MaxFaults

(***************************************************************************)
(* The invariant movements.py exists for: "Container.current_location =    *)
(* the location implied by the winning state-affecting ContainerMovement", *)
(* with its source and its instant.                                        *)
(***************************************************************************)
ProjectionIsWinner ==
    movements # <<>> => container = Claim(StateMovement(movements))

(***************************************************************************)
(* One tracking event yields at most one movement, however often it is     *)
(* delivered and however many workers interpret it at once.                *)
(***************************************************************************)
OneMovementPerEvent ==
    \A i, j \in DOMAIN movements :
        movements[i].event # NoEvent /\ movements[i].event = movements[j].event => i = j

(***************************************************************************)
(* A container only ever moves to where the movement just recorded says it *)
(* is: late evidence never moves it, and recording never brings back an    *)
(* older position.  Nothing else moves it ("No reverse inference").        *)
(***************************************************************************)
MovesOnlyOnNewEvidence ==
    [][container' # container =>
          /\ Len(movements') = Len(movements) + 1
          /\ container' = Claim(movements'[Len(movements')])]_vars

(***************************************************************************)
(* The order in which evidence arrives does not matter: the position is    *)
(* always a strongest claim of the set of claims.                          *)
(***************************************************************************)
Ledger == INSTANCE PositionLedger
    WITH claims <- {Claim(movements[i]) : i \in DOMAIN movements},
         position <- container

ImplementsPositionLedger == Ledger!Spec

(***************************************************************************)
(* An event that stays eligible gets its movement as long as its watch is  *)
(* polled: races between workers, workers that die and interpretations     *)
(* that raise only delay it (interpret_tracking_event_safely: the movement *)
(* "is recreated the next time the event is refreshed").                   *)
(***************************************************************************)
KeepsArriving(e) ==
    []<><<\E w \in Workers, version \in Versions : Deliver(w, e, version)>>_vars

EligibleInStore(e) == event[e] # Unseen /\ Eligible(event[e])

EligibleEventsGetMovements ==
    \A e \in Events :
        <>[]EligibleInStore(e) /\ KeepsArriving(e) => <>(e \in InterpretedEvents)

===============================================================================
