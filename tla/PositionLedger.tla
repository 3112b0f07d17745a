---------------------------- MODULE PositionLedger ----------------------------
(***************************************************************************)
(* What containers/movements.py promises about a container's position: it  *)
(* is a function of the set of accepted claims, whatever order they came   *)
(* in.  "Time leads, provenance breaks ties"; among claims that tie on     *)
(* both, any may win.                                                      *)
(***************************************************************************)
EXTENDS Naturals

CONSTANTS
    Claims,         \* records with a place, a source and the instant at
    StrengthOf(_)   \* the rank of a source

VARIABLES claims, position

Outranks(c, d) ==
    \/ c.at > d.at
    \/ c.at = d.at /\ StrengthOf(c.source) > StrengthOf(d.source)

Strongest(cs) == {c \in cs : \A d \in cs : ~ Outranks(d, c)}

(***************************************************************************)
(* A container may have a position nothing in the ledger explains.         *)
(***************************************************************************)
Init == claims = {}

Accept(c) ==
    /\ claims' = claims \cup {c}
    /\ position' \in Strongest(claims')

Next == \E c \in Claims : Accept(c)

Spec == Init /\ [][Next]_<<claims, position>>
===============================================================================
