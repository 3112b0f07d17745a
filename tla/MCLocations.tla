---------------------------- MODULE MCLocations ----------------------------
(***************************************************************************)
(* A port, a terminal and a yard for model checking: the terminal and the  *)
(* yard share a name, the port and the yard lie near the reported point,   *)
(* and the carrier reports the terminal by name and code.                  *)
(***************************************************************************)
EXTENDS Locations

MCPlaces == {"port", "terminal", "yard"}
MCNames == {"gothenburg", "central"}
MCNameOf == [p \in MCPlaces |-> IF p = "port" THEN "gothenburg" ELSE "central"]
MCCodes == {"SEGOT"}
MCExternalCodes == {"X1"}
MCNear == {"port", "yard"}
MCReported == [name |-> "central", externalCode |-> None, code |-> "SEGOT",
               located |-> TRUE]
\* The port may end up in its terminal, the yard in either and without a code.
MCForms == {form \in [place : MCPlaces, parent : MCPlaces \cup {None},
                      active : {TRUE}, code : MCCodes \cup {None}] :
                /\ form.parent \notin {form.place, "yard"}
                /\ form.code = None => form.place = "yard"}
MCRows == [name : {"central"}, externalCode : {None}, place : {"port", "yard"}]
          \cup [name : {None}, externalCode : MCExternalCodes, place : {"port"}]

=============================================================================
