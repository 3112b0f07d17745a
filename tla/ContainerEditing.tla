--------------------------- MODULE ContainerEditing ---------------------------
(***************************************************************************)
(* The edit form of a container (containers/services.py, update_container) *)
(* beside the movement history of ContainerMovements.                      *)
(*                                                                         *)
(* An edit loads the row, saves the whole row, and then, when the form     *)
(* names another place than the row it loaded, records a MANUAL_ADJUSTMENT *)
(* with the location_source it loaded.  The three are separate             *)
(* transactions, and the save writes back the three projected columns as   *)
(* they were when the row was loaded.                                      *)
(***************************************************************************)
EXTENDS ContainerMovements

CONSTANTS
    Editors,    \* requests that post the edit form
    NoDraft     \* what a request that edits nothing has loaded

VARIABLES
    draft,       \* the loaded columns, when they were loaded, the place of the
                 \* form, and whether the row is saved
    overwritten  \* HISTORY: since the last movement, a form that was loaded
                 \* before that movement has been saved

editVars == <<vars, draft, overwritten>>

EditInit ==
    /\ Init
    /\ draft = [u \in Editors |-> NoDraft]
    /\ overwritten = FALSE

Discard(u) == draft' = [draft EXCEPT ![u] = NoDraft]

(***************************************************************************)
(* The view loads the container and validates the form.                    *)
(***************************************************************************)
LoadForm(u) ==
    /\ draft[u] = NoDraft
    /\ \E place \in Maybe(Places) :
          draft' = [draft EXCEPT ![u] =
                       [loaded |-> container, since |-> Len(movements),
                        place |-> place, saved |-> FALSE]]
    /\ UNCHANGED <<vars, overwritten>>

Moves(u) == draft[u].place # draft[u].loaded.place

\* A form saved now was loaded before the latest movement.
Outdated(u) == draft[u].since # Len(movements)

(***************************************************************************)
(* MUTANT of SaveRow: the place of the form is written with the others.    *)
(***************************************************************************)
SaveRowAndPlace(u) ==
    /\ draft[u] # NoDraft
    /\ ~ draft[u].saved
    /\ container' = [draft[u].loaded EXCEPT !.place = draft[u].place]
    /\ overwritten' = (overwritten \/ Outdated(u))
    /\ IF Moves(u) THEN draft' = [draft EXCEPT ![u].saved = TRUE] ELSE Discard(u)
    /\ UNCHANGED <<movements, ingestion, faults>>

(***************************************************************************)
(* container.save(): every column, as loaded.                              *)
(***************************************************************************)
SaveRow(u) ==
    /\ draft[u] # NoDraft
    /\ ~ draft[u].saved
    /\ container' = draft[u].loaded
    /\ overwritten' = (overwritten \/ Outdated(u))
    /\ IF Moves(u) THEN draft' = [draft EXCEPT ![u].saved = TRUE] ELSE Discard(u)
    /\ UNCHANGED <<movements, ingestion, faults>>

(***************************************************************************)
(* The location of the form differs: record_container_movement, with the   *)
(* source of the position being edited.                                    *)
(***************************************************************************)
AdjustPosition(u) ==
    /\ draft[u] # NoDraft
    /\ draft[u].saved
    /\ \E at \in Times :
          RecordByHand("MANUAL_ADJUSTMENT", NoPlace, draft[u].place,
                       IF draft[u].loaded.source = NoSource
                         THEN "MANUAL" ELSE draft[u].loaded.source,
                       at)
    /\ overwritten' = FALSE
    /\ Discard(u)
    /\ UNCHANGED <<ingestion, faults>>

(***************************************************************************)
(* The request dies between its transactions.                              *)
(***************************************************************************)
EditInterrupted(u) ==
    /\ draft[u] # NoDraft
    /\ faults < MaxFaults
    /\ faults' = faults + 1
    /\ Discard(u)
    /\ UNCHANGED <<history, ingestion, overwritten>>

\* Movements of any other origin; each projects the whole history.
MoveOn ==
    /\ Next
    /\ overwritten' = (overwritten /\ movements' = movements)
    /\ UNCHANGED draft

EditNext ==
    \/ MoveOn
    \/ \E u \in Editors :
          LoadForm(u) \/ SaveRow(u) \/ AdjustPosition(u) \/ EditInterrupted(u)

EditSpec == EditInit /\ [][EditNext]_editVars
-------------------------------------------------------------------------------
(***************************************************************************)
(* An edit may take the position of a container away from its history in   *)
(* one way only: a form loaded before the latest movement is saved after   *)
(* it. Every other order of loads, saves, adjustments, movements and       *)
(* requests that die half way leaves the row at the winner, and any later  *)
(* movement brings it back there ("a location change goes through the      *)
(* movement service rather than being written onto the row").              *)
(***************************************************************************)
DriftsOnlyByStaleForms == ProjectionIsWinner \/ overwritten
===============================================================================
