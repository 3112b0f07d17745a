--------------------------- MODULE PlannedContainers ---------------------------
(***************************************************************************)
(* containers/discovery.py: container numbers we expect to see, and the    *)
(* passes that ask carriers about them until one answers or the budget of  *)
(* attempts is spent.                                                      *)
(*                                                                         *)
(* A pass (run_discovery_for_team, queued by Beat or started by a person)  *)
(* loads every due row, and then asks about one after the other, for       *)
(* minutes.  Nothing stops two passes of a team, or the clean-up that      *)
(* expires numbers, from running at once: each saves what it computes from *)
(* the instances it loaded.                                                *)
(*                                                                         *)
(* One team.  The order in which a pass works off its rows is left open,   *)
(* rows are never deleted, the container and the shipment a row names are  *)
(* left out, and so are IN_TRANSIT and ARRIVED, which nothing sets.        *)
(***************************************************************************)
EXTENDS Naturals

CONSTANTS
    Numbers,      \* container numbers that are registered
    Passes,       \* discovery passes and clean-ups that may run at once
    Unloaded,     \* a row a pass has not loaded, or is done with
    MaxAttempts,  \* max_attempts_for
    MaxAsked,     \* BOUND: where counting the times a number was chased stops
    MaxCrashes    \* BOUND: passes that die in the middle

ASSUME BoundsAreNaturals ==
    MaxAttempts \in Nat \ {0} /\ MaxAsked \in Nat /\ MaxAttempts < MaxAsked /\ MaxCrashes \in Nat

VARIABLES
    status,     \* PlannedContainer.status
    attempts,   \* attempts
    nextCheck,  \* next_check_at: NULL, past or future
    overdue,    \* expires_at is past
    held,       \* the instances each pass has loaded and still has to work off
    asked,      \* HISTORY: how often carriers were asked and the pass recorded it
    crashes

row == <<status, attempts, nextCheck>>
vars == <<status, attempts, nextCheck, overdue, held, asked, crashes>>

Statuses == {"PLANNED", "DETECTED", "CANCELLED", "EXPIRED"}

(***************************************************************************)
(* A pass keeps of an instance how many attempts it counts and where the   *)
(* pass is with it: its turn has not come, carriers are being asked, or it *)
(* is only to be expired.                                                  *)
(***************************************************************************)
Instances == [attempts : 0 .. MaxAttempts, step : {"waiting", "asking", "expire"}]

ASSUME UnloadedIsNoInstance == Unloaded \notin Instances

(***************************************************************************)
(* add_planned_container, for each number.                                 *)
(***************************************************************************)
Init ==
    /\ status = [n \in Numbers |-> "PLANNED"]
    /\ attempts = [n \in Numbers |-> 0]
    /\ nextCheck = [n \in Numbers |-> "null"]
    /\ overdue = [n \in Numbers |-> FALSE]
    /\ held = [p \in Passes |-> [n \in Numbers |-> Unloaded]]
    /\ asked = [n \in Numbers |-> 0]
    /\ crashes = 0

Nothing == [n \in Numbers |-> Unloaded]

Idle(p) == held[p] = Nothing

Keep(p, n, instance) == held' = [held EXCEPT ![p][n] = instance]

Drop(p, n) == Keep(p, n, Unloaded)

At(p, n, step) == held[p][n] # Unloaded /\ held[p][n].step = step
-------------------------------------------------------------------------------
(***************************************************************************)
(* MUTANT of Due: NULL is not before now, and so never due.                *)
(***************************************************************************)
DueUnlessNull(n) == status[n] = "PLANNED" /\ nextCheck[n] = "past"

(***************************************************************************)
(* get_planned_containers_for_discovery.                                   *)
(***************************************************************************)
Due(n) == status[n] = "PLANNED" /\ nextCheck[n] # "future"

(***************************************************************************)
(* is_exhausted, of an instance that counts so many attempts.              *)
(***************************************************************************)
Exhausted(n, count) == overdue[n] \/ count >= MaxAttempts

(***************************************************************************)
(* expire_planned_container: no look at the status the row has by now.     *)
(***************************************************************************)
Expire(n) ==
    /\ status' = [status EXCEPT ![n] = "EXPIRED"]
    /\ nextCheck' = [nextCheck EXCEPT ![n] = "null"]

(***************************************************************************)
(* A pass begins: it loads the due rows.                                   *)
(***************************************************************************)
StartPass(p) ==
    /\ Idle(p)
    /\ \E n \in Numbers : Due(n)
    /\ held' = [held EXCEPT ![p] = [n \in Numbers |->
                   IF Due(n) THEN [attempts |-> attempts[n], step |-> "waiting"] ELSE Unloaded]]
    /\ UNCHANGED <<row, overdue, asked, crashes>>

(***************************************************************************)
(* The clean-up begins: it will expire the PLANNED rows that are exhausted *)
(* now, due or not.                                                        *)
(***************************************************************************)
StartCleanUp(p) ==
    LET spent == {n \in Numbers : status[n] = "PLANNED" /\ Exhausted(n, attempts[n])}
    IN  /\ Idle(p)
        /\ spent # {}
        /\ held' = [held EXCEPT ![p] = [n \in Numbers |->
                       IF n \in spent THEN [attempts |-> attempts[n], step |-> "expire"]
                                      ELSE Unloaded]]
        /\ UNCHANGED <<row, overdue, asked, crashes>>

(***************************************************************************)
(* A row that is exhausted when its turn comes, or since its last attempt. *)
(***************************************************************************)
GiveUpNumber(p, n) ==
    /\ \/ At(p, n, "expire")
       \/ At(p, n, "waiting") /\ Exhausted(n, held[p][n].attempts)
    /\ Expire(n)
    /\ Drop(p, n)
    /\ UNCHANGED <<attempts, overdue, asked, crashes>>

(***************************************************************************)
(* Otherwise check_planned_container asks the carriers, one at a time.     *)
(***************************************************************************)
AskCarriers(p, n) ==
    /\ At(p, n, "waiting")
    /\ ~ Exhausted(n, held[p][n].attempts)
    /\ Keep(p, n, [held[p][n] EXCEPT !.step = "asking"])
    /\ UNCHANGED <<row, overdue, asked, crashes>>

(***************************************************************************)
(* _record_attempt saves the count of the instance and the next check, and *)
(* expires the number, in a save of its own, if that was the last attempt. *)
(***************************************************************************)
Record(p, n, count) ==
    /\ At(p, n, "asking")
    /\ attempts' = [attempts EXCEPT ![n] = count]
    /\ nextCheck' = [nextCheck EXCEPT ![n] = "future"]
    /\ IF Exhausted(n, count)
         THEN Keep(p, n, [attempts |-> count, step |-> "expire"])
         ELSE Drop(p, n)
    /\ UNCHANGED <<status, overdue, crashes>>

(***************************************************************************)
(* The count after a NOT_FOUND or an error, and, with count_attempt=False, *)
(* after a check for which no carrier could be asked.                      *)
(***************************************************************************)
Counted(p, n) == held[p][n].attempts + 1

(***************************************************************************)
(* MUTANT of NotCounted: the default of count_attempt for every outcome.   *)
(***************************************************************************)
AlwaysCounted(p, n) == held[p][n].attempts + 1

NotCounted(p, n) == held[p][n].attempts

OneMore(count) == IF count < MaxAsked THEN count + 1 ELSE count

RecordAttempt(p, n) ==
    /\ Record(p, n, Counted(p, n))
    /\ asked' = [asked EXCEPT ![n] = OneMore(@)]

RecordSkip(p, n) ==
    /\ Record(p, n, NotCounted(p, n))
    /\ UNCHANGED asked

(***************************************************************************)
(* A carrier reported the number: one transaction makes the container and  *)
(* its tracking subscription, or logs that it cannot, and DETECTED.        *)
(***************************************************************************)
Promote(p, n) ==
    /\ At(p, n, "asking")
    /\ status' = [status EXCEPT ![n] = "DETECTED"]
    /\ nextCheck' = [nextCheck EXCEPT ![n] = "null"]
    /\ asked' = [asked EXCEPT ![n] = OneMore(@)]
    /\ Drop(p, n)
    /\ UNCHANGED <<attempts, overdue, crashes>>

(***************************************************************************)
(* The process of a pass dies, between or within its rows.                 *)
(***************************************************************************)
Crash(p) ==
    /\ ~ Idle(p)
    /\ crashes < MaxCrashes
    /\ crashes' = crashes + 1
    /\ held' = [held EXCEPT ![p] = Nothing]
    /\ UNCHANGED <<row, overdue, asked>>
-------------------------------------------------------------------------------
(***************************************************************************)
(* cancel_planned_container, by a person, whatever the status.             *)
(***************************************************************************)
Cancel(n) ==
    /\ status[n] # "CANCELLED"
    /\ status' = [status EXCEPT ![n] = "CANCELLED"]
    /\ nextCheck' = [nextCheck EXCEPT ![n] = "null"]
    /\ UNCHANGED <<attempts, overdue, held, asked, crashes>>

ClockReachesNextCheck(n) ==
    /\ nextCheck[n] = "future"
    /\ nextCheck' = [nextCheck EXCEPT ![n] = "past"]
    /\ UNCHANGED <<status, attempts, overdue, held, asked, crashes>>

ClockPassesExpiry(n) ==
    /\ ~ overdue[n]
    /\ overdue' = [overdue EXCEPT ![n] = TRUE]
    /\ UNCHANGED <<row, held, asked, crashes>>
-------------------------------------------------------------------------------
WorkOff(p) ==
    \E n \in Numbers :
        \/ GiveUpNumber(p, n)
        \/ AskCarriers(p, n)
        \/ RecordAttempt(p, n)
        \/ RecordSkip(p, n)
        \/ Promote(p, n)

Next ==
    \/ \E p \in Passes : StartPass(p) \/ StartCleanUp(p) \/ WorkOff(p) \/ Crash(p)
    \/ \E n \in Numbers :
          Cancel(n) \/ ClockReachesNextCheck(n) \/ ClockPassesExpiry(n)

Spec == Init /\ [][Next]_vars

(***************************************************************************)
(* Beat starts passes for ever (the clean-up need not run), a pass goes on *)
(* to its end and time passes.  expires_at is optional, so it need never   *)
(* come.  And from some time on a carrier can be asked: as long as checks  *)
(* are skipped a pass may write an old count back over a newer one, and    *)
(* the search need not end.                                                *)
(***************************************************************************)
Fairness ==
    /\ \A p \in Passes : WF_vars(StartPass(p)) /\ WF_vars(WorkOff(p))
    /\ \A n \in Numbers : WF_vars(ClockReachesNextCheck(n))
    /\ <>[][\A p \in Passes, n \in Numbers : ~ RecordSkip(p, n)]_vars

FairSpec == Spec /\ Fairness
-------------------------------------------------------------------------------
TypeOK ==
    /\ status \in [Numbers -> Statuses]
    /\ attempts \in [Numbers -> 0 .. MaxAttempts]
    /\ nextCheck \in [Numbers -> {"null", "past", "future"}]
    /\ overdue \in [Numbers -> BOOLEAN]
    /\ held \in [Passes -> [Numbers -> Instances \cup {Unloaded}]]
    /\ asked \in [Numbers -> 0 .. MaxAsked]
    /\ crashes \in 0 .. MaxCrashes

(***************************************************************************)
(* "Expire planned containers that ran out of attempts or passed their     *)
(* expiry": no number is given up before carriers were really asked        *)
(* MaxAttempts times or its time is over, whatever stale counts the passes *)
(* write over each other.                                                  *)
(***************************************************************************)
NeverGivenUpEarly ==
    \A n \in Numbers : status[n] = "EXPIRED" => overdue[n] \/ asked[n] >= MaxAttempts

(***************************************************************************)
(* The search for a number ends: it is found, given up or cancelled.       *)
(* Passes that die before they record anything, and attempts of two passes *)
(* that are counted as one, only prolong it.                               *)
(***************************************************************************)
EveryNumberDecided == \A n \in Numbers : status[n] = "PLANNED" ~> status[n] # "PLANNED"
===============================================================================
