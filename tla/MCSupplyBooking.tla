--------------------------- MODULE MCSupplyBooking ---------------------------
(***************************************************************************)
(* Symmetry for checking SupplyBooking.                                    *)
(***************************************************************************)
EXTENDS SupplyBooking, TLC

Symmetry == Permutations(Requests) \cup Permutations(Containers)
===============================================================================
