--------------------------- MODULE ExclusiveHolder ---------------------------
(***************************************************************************)
(* What a lock of this code promises its callers, and all that they may    *)
(* rely on: at most one worker at a time is inside the protected body, but *)
(* for those that lost the lock while they were in it and have not noticed *)
(* (integrations/locks.py: the lock lives and dies with the database       *)
(* connection, the body does not).  Nobody gets it back in the same body.  *)
(***************************************************************************)
CONSTANT Workers

VARIABLES
    holders,    \* the workers inside the body
    evicted     \* those of them that lost the lock

Init == holders = {} /\ evicted = {}

Acquire(w) ==
    /\ w \notin holders
    /\ holders \subseteq evicted
    /\ holders' = holders \cup {w}
    /\ UNCHANGED evicted

Release(w) ==
    /\ w \in holders
    /\ holders' = holders \ {w}
    /\ evicted' = evicted \ {w}

Evict(w) ==
    /\ w \in holders \ evicted
    /\ evicted' = evicted \cup {w}
    /\ UNCHANGED holders

Next == \E w \in Workers : Acquire(w) \/ Release(w) \/ Evict(w)

Spec == Init /\ [][Next]_<<holders, evicted>>
==============================================================================
