---------------------------- MODULE TrackingProofs ----------------------------
(***************************************************************************)
(* Proofs about TrackingSync, which keeps the events of a container up to  *)
(* date, and about ReadModels, which tells what they come to.  The two     *)
(* modules share no state.                                                 *)
(*                                                                         *)
(* TrackingSync, for any number of subscriptions and workers, any mix of   *)
(* requests and any bounds.  The cycles under the lock exclude each other  *)
(* because each of them owns the lock of its subscription from AcquireLock *)
(* to ReleaseLock (OwnsItsLock): a cycle without the lock never touches    *)
(* it.  The status needs no lock: each cycle that set SYNCING also takes   *)
(* it back.                                                                *)
(*                                                                         *)
(* ReadModels, for any reports, names and window and any number of events. *)
(* All it needs to know of a state is that the events are reports: the     *)
(* rest is what the readers make of any sequence of them.  The merge is a  *)
(* fold, and is followed event by event (Merged): each event joined the    *)
(* last point that was open to it, or is one.  Hence every event is shown  *)
(* once, and by a point that says the same (Represented), which is why the *)
(* journey answers like the readers that do not merge.  What an event      *)
(* joins depends on earlier events of its kind only (Leaders), which is    *)
(* why forecasts and undated reports decide nothing.                       *)
(***************************************************************************)
EXTENDS TrackingSync, ReadModels, FiniteSetTheorems, WellFoundedInduction, TLAPS

-----------------------------------------------------------------------------
(* TrackingSync. *)


OwnsItsLock == \A w \in Workers : HoldsLock(w) => lock[job[w].sub] = w

IInv == TypeOK /\ OwnsItsLock /\ SyncingMeansRunning /\ CompletedIsUnscheduled

LEMMA InitIInv == Init => IInv
BY BoundsAreNaturals, LockValuesDiffer
DEF Init, IInv, TypeOK, OwnsItsLock, SyncingMeansRunning, CompletedIsUnscheduled,
    Statuses, Phases, Outcomes, HoldsLock, HasAnswer, Jobs

(***************************************************************************)
(* A worker that is not idle has a job.                                    *)
(***************************************************************************)
LEMMA Busy ==
    ASSUME TypeOK, NEW w \in Workers, phase[w] # "idle"
    PROVE  job[w] \in Jobs /\ job[w].sub \in Subs /\ job[w] # NoJob
BY NoJobIsNoJob DEF TypeOK, Jobs

LEMMA TypeStep == TypeOK /\ [Next]_vars => TypeOK'
<1> SUFFICES ASSUME TypeOK, [Next]_vars PROVE TypeOK'
    OBVIOUS
<1> USE BoundsAreNaturals, LockValuesDiffer, NoJobIsNoJob
<1>1. CASE Dispatch
    <2>1. \A s \in Subs : (IF Due(s) /\ Room(s) THEN queue[s] + 1 ELSE queue[s]) \in 0 .. MaxQueued
        BY DEF TypeOK, Room
    <2> QED BY <1>1, <2>1 DEF Dispatch, TypeOK, row
<1>2. ASSUME NEW s \in Subs, Clock(s) PROVE TypeOK'
    BY <1>2 DEF Clock, LockExpires, ClockReachesNextSync, ClockPassesStaleCutoff, TypeOK, row
<1>3. ASSUME NEW s \in Subs, Person(s) PROVE TypeOK'
    BY <1>3 DEF Person, Pause, Resume, Cancel, Decide, SaveStatus, TypeOK, Statuses
<1>4. ASSUME NEW w \in Workers, NEW s \in Subs, NEW brings \in BOOLEAN,
             LoadInstance(w, s, brings),
             stale' \in [Subs -> BOOLEAN], queue' \in [Subs -> 0 .. MaxQueued]
      PROVE  TypeOK'
    <2>1. [sub |-> s, answered |-> brings, failures |-> failures[s]] \in Jobs
        BY DEF Jobs, TypeOK
    <2> QED BY <1>4, <2>1 DEF LoadInstance, Goto, TypeOK, Phases
<1>5. ASSUME NEW w \in Workers, NEW s \in Subs, TakeTask(w, s) PROVE TypeOK'
    <2>1. stale' \in [Subs -> BOOLEAN] /\ queue' \in [Subs -> 0 .. MaxQueued]
        BY <1>5 DEF TakeTask, TypeOK
    <2> QED BY <1>4, <1>5, <2>1 DEF TakeTask
<1>6. ASSUME NEW w \in Workers, NEW s \in Subs, AskForSync(w, s) PROVE TypeOK'
    BY <1>4, <1>6 DEF AskForSync, TypeOK
<1>7. ASSUME NEW w \in Workers, NEW s \in Subs, RefreshContainer(w, s) PROVE TypeOK'
    BY <1>4, <1>7 DEF RefreshContainer, TypeOK
<1>8. ASSUME NEW w \in Workers, NEW s \in Subs, BringAnswer(w, s) PROVE TypeOK'
    <2>1. stale' \in [Subs -> BOOLEAN] /\ queue' \in [Subs -> 0 .. MaxQueued]
        BY <1>8 DEF BringAnswer, TypeOK
    <2> QED BY <1>4, <1>8, <2>1 DEF BringAnswer
<1>9. ASSUME NEW w \in Workers, CycleStep(w) \/ Crash(w) PROVE TypeOK'
    <2>0. phase[w] # "idle"
        BY <1>9 DEF CycleStep, Crash, AcquireLock, GiveUp, BeginRun, Fetch, ApplyOutcome,
                    CompleteIfTerminal, ReleaseLock
    <2>1. job[w] \in Jobs /\ job[w].sub \in Subs /\ job[w] # NoJob
        BY <2>0, Busy
    <2>2. CASE AcquireLock(w)
        BY <2>1, <2>2 DEF AcquireLock, Goto, TypeOK, Phases, row
    <2>3. CASE GiveUp(w)
        BY <2>1, <2>3 DEF GiveUp, Forget, Goto, TypeOK, Phases, Outcomes, row
    <2>4. CASE BeginRun(w)
        BY <2>1, <2>4 DEF BeginRun, SaveStatus, Goto, TypeOK, Phases, Statuses, row
    <2>5. CASE Fetch(w)
        BY <2>1, <2>5 DEF Fetch, Goto, TypeOK, Phases, Outcomes, row
    <2>6. CASE ApplyOutcome(w)
        <3>0. OneMore(job[w].failures) \in 0 .. MaxFailures
            BY <2>1 DEF OneMore, Jobs
        <3>1. FailuresAfter(w) \in 0 .. MaxFailures
            BY <2>1, <3>0 DEF FailuresAfter, TypeOK, Outcomes
        <3> QED BY <2>1, <2>6, <3>1
                DEF ApplyOutcome, Reschedule, SaveStatus, Goto, TypeOK, Phases, Statuses
    <2>7. CASE CompleteIfTerminal(w)
        <3>1. /\ status' \in [Subs -> Statuses]
              /\ stale' \in [Subs -> BOOLEAN] /\ orphaned' \in [Subs -> BOOLEAN]
              /\ nextSync' \in [Subs -> {"null", "past", "future"}]
            <4>1. CASE Complete(job[w].sub)
                BY <4>1 DEF Complete, SaveStatus, TypeOK, Statuses
            <4>2. CASE UNCHANGED <<status, stale, orphaned, nextSync>>
                BY <4>2 DEF TypeOK
            <4> QED BY <2>7, <4>1, <4>2 DEF CompleteIfTerminal
        <3> QED BY <2>1, <2>7, <3>1 DEF CompleteIfTerminal, Goto, TypeOK, Phases
    <2>8. CASE ReleaseLock(w)
        BY <2>1, <2>8 DEF ReleaseLock, Forget, Goto, TypeOK, Phases, Outcomes, row
    <2>9. CASE Crash(w)
        BY <2>1, <2>9 DEF Crash, Forget, Goto, TypeOK, Phases, Outcomes, row
    <2> QED BY <1>9, <2>2, <2>3, <2>4, <2>5, <2>6, <2>7, <2>8, <2>9 DEF CycleStep
<1>10. CASE UNCHANGED vars
    BY <1>10 DEF vars, TypeOK
<1> QED BY <1>1, <1>2, <1>3, <1>5, <1>6, <1>7, <1>8, <1>9, <1>10 DEF Next

(***************************************************************************)
(* Only AcquireLock makes a worker a holder, of a lock that was free, and  *)
(* nobody but the holder gives a lock away.                                *)
(***************************************************************************)
LEMMA LockStep == TypeOK /\ OwnsItsLock /\ [Next]_vars => OwnsItsLock'
<1> SUFFICES ASSUME TypeOK, OwnsItsLock, [Next]_vars PROVE OwnsItsLock'
    OBVIOUS
<1> USE LockValuesDiffer DEF OwnsItsLock
<1>1. ASSUME UNCHANGED <<lock, phase, job>> PROVE OwnsItsLock'
    BY <1>1 DEF HoldsLock, HasAnswer
<1>2. ASSUME NEW s \in Subs, LockExpires(s) PROVE OwnsItsLock'
    BY <1>2, Busy DEF LockExpires, HoldsLock, HasAnswer, TypeOK
<1>3. ASSUME NEW w \in Workers, NEW s \in Subs, NEW brings, LoadInstance(w, s, brings)
      PROVE  OwnsItsLock'
    BY <1>3 DEF LoadInstance, Goto, HoldsLock, HasAnswer, TypeOK
<1>4. ASSUME NEW w \in Workers, CycleStep(w) \/ Crash(w) PROVE OwnsItsLock'
    <2>0. phase[w] # "idle"
        BY <1>4 DEF CycleStep, Crash, AcquireLock, GiveUp, BeginRun, Fetch, ApplyOutcome,
                    CompleteIfTerminal, ReleaseLock
    <2>1. job[w].sub \in Subs
        BY <2>0, Busy
    <2>2. CASE AcquireLock(w)
        <3>1. \A v \in Workers : HoldsLock(v) => job[v].sub # job[w].sub
            BY <2>2 DEF AcquireLock, LockGrants
        <3> QED BY <2>1, <2>2, <3>1 DEF AcquireLock, Goto, HoldsLock, HasAnswer, TypeOK
    <2>3. CASE GiveUp(w)
        BY <2>3 DEF GiveUp, Forget, Goto, HoldsLock, HasAnswer, TypeOK
    <2>4. CASE BeginRun(w) \/ Fetch(w) \/ ApplyOutcome(w) \/ CompleteIfTerminal(w)
        BY <2>4 DEF BeginRun, Fetch, ApplyOutcome, CompleteIfTerminal, Goto, HoldsLock, HasAnswer, TypeOK
    <2>5. CASE ReleaseLock(w) \/ Crash(w)
        <3>1. \A v \in Workers \ {w} : HoldsLock(v)' => HoldsLock(v) /\ job'[v] = job[v]
            BY <2>5 DEF ReleaseLock, Crash, Forget, Goto, HoldsLock, HasAnswer, TypeOK
        <3>2. ~ HoldsLock(w)'
            BY <2>5 DEF ReleaseLock, Crash, Forget, Goto, HoldsLock, TypeOK
        <3>3. CASE ~ HoldsLock(w)
            BY <2>5, <3>1, <3>2, <3>3 DEF ReleaseLock, Crash, HoldsLock
        <3>4. CASE HoldsLock(w)
            <4>1. \A v \in Workers \ {w} : HoldsLock(v) => job[v].sub # job[w].sub
                BY <3>4
            <4>2. PICK free : lock' = [lock EXCEPT ![job[w].sub] = free]
                BY <2>5, <3>4 DEF ReleaseLock, Crash, HoldsLock
            <4> QED BY <2>1, <3>1, <3>2, <4>1, <4>2 DEF TypeOK
        <3> QED BY <3>3, <3>4
    <2> QED BY <1>4, <2>2, <2>3, <2>4, <2>5 DEF CycleStep
<1>5. CASE Dispatch
    BY <1>1, <1>5 DEF Dispatch
<1>6. ASSUME NEW s \in Subs, ClockReachesNextSync(s) \/ ClockPassesStaleCutoff(s) \/ Person(s)
      PROVE  OwnsItsLock'
    BY <1>1, <1>6 DEF ClockReachesNextSync, ClockPassesStaleCutoff, Person, Pause, Resume, Cancel, Decide
<1>7. ASSUME NEW w \in Workers, NEW s \in Subs,
             TakeTask(w, s) \/ AskForSync(w, s) \/ RefreshContainer(w, s) \/ BringAnswer(w, s)
      PROVE  OwnsItsLock'
    BY <1>3, <1>7 DEF TakeTask, AskForSync, RefreshContainer, BringAnswer
<1>8. CASE UNCHANGED vars
    BY <1>1, <1>8 DEF vars
<1> QED BY <1>2, <1>4, <1>5, <1>6, <1>7, <1>8 DEF Next, Clock

(***************************************************************************)
(* Two owners of one lock are the same worker.                             *)
(***************************************************************************)
LEMMA OwnersExclude == OwnsItsLock => OneLockedRun
BY DEF OwnsItsLock, OneLockedRun, Runs, Between, HoldsLock

(***************************************************************************)
(* A step that moves no worker in or out of a run, and no row into SYNCING *)
(* or out of being orphaned, keeps SyncingMeansRunning.                    *)
(***************************************************************************)
LEMMA SyncingStep == TypeOK /\ SyncingMeansRunning /\ [Next]_vars => SyncingMeansRunning'
<1> SUFFICES ASSUME TypeOK, SyncingMeansRunning, [Next]_vars,
                    NEW s \in Subs, status'[s] = "SYNCING"
             PROVE  Runs(s)' # {} \/ orphaned'[s]
    BY DEF SyncingMeansRunning
<1> USE DEF SyncingMeansRunning, Runs, Between
<1>1. ASSUME UNCHANGED <<status, orphaned>>, UNCHANGED <<phase, job>>
      PROVE  Runs(s)' # {} \/ orphaned'[s]
    BY <1>1
<1>2. ASSUME NEW u \in Subs, Person(u) PROVE Runs(s)' # {} \/ orphaned'[s]
    <2>1. u # s /\ status'[s] = status[s] /\ orphaned'[s] = orphaned[s]
        BY <1>2 DEF Person, Pause, Resume, Cancel, Decide, SaveStatus, TypeOK
    <2>2. UNCHANGED <<phase, job>>
        BY <1>2 DEF Person, Pause, Resume, Cancel, Decide
    <2> QED BY <2>1, <2>2
<1>3. ASSUME NEW w \in Workers, NEW u \in Subs, NEW brings, LoadInstance(w, u, brings)
      PROVE  Runs(s)' # {} \/ orphaned'[s]
    BY <1>3 DEF LoadInstance, Goto, TypeOK
<1>4. ASSUME NEW w \in Workers, CycleStep(w) \/ Crash(w)
      PROVE  Runs(s)' # {} \/ orphaned'[s]
    <2>0. phase[w] # "idle" /\ job[w].sub \in Subs
        BY <1>4, Busy DEF CycleStep, Crash, AcquireLock, GiveUp, BeginRun, Fetch, ApplyOutcome,
                          CompleteIfTerminal, ReleaseLock
    <2>1. CASE AcquireLock(w) \/ GiveUp(w) \/ ReleaseLock(w)
        <3>1. ~ Between(w) /\ UNCHANGED <<status, orphaned>>
            BY <2>1 DEF AcquireLock, GiveUp, ReleaseLock, row
        <3>2. \A v \in Workers \ {w} : phase'[v] = phase[v] /\ job'[v] = job[v]
            BY <2>1 DEF AcquireLock, GiveUp, ReleaseLock, Forget, Goto, TypeOK
        <3> QED BY <3>1, <3>2
    <2>2. CASE BeginRun(w)
        <3>1. w \in Workers /\ phase'[w] = "running" /\ UNCHANGED job
            BY <2>2 DEF BeginRun, Goto, TypeOK
        <3>2. CASE job[w].sub = s
            BY <3>1, <3>2
        <3>3. CASE job[w].sub # s
            <4>1. status'[s] = status[s] /\ orphaned'[s] = orphaned[s]
                BY <2>2, <3>3 DEF BeginRun, SaveStatus, TypeOK
            <4>2. \A v \in Workers \ {w} : phase'[v] = phase[v]
                BY <2>2 DEF BeginRun, Goto, TypeOK
            <4> QED BY <3>1, <3>3, <4>1, <4>2
        <3> QED BY <3>2, <3>3
    <2>3. CASE Fetch(w)
        BY <2>3 DEF Fetch, Goto, TypeOK, row
    <2>4. CASE ApplyOutcome(w) \/ CompleteIfTerminal(w)
        <3>1. UNCHANGED job /\ \A v \in Workers \ {w} : phase'[v] = phase[v]
            BY <2>4 DEF ApplyOutcome, CompleteIfTerminal, Goto, TypeOK
        <3>2. CASE ~ Between(w) /\ UNCHANGED <<status, orphaned>>
            BY <3>1, <3>2
        <3>3. CASE SaveStatus(job[w].sub, status'[job[w].sub]) /\ status'[job[w].sub] # "SYNCING"
            <4>1. job[w].sub # s /\ status'[s] = status[s] /\ orphaned'[s] = orphaned[s]
                BY <3>3 DEF SaveStatus, TypeOK
            <4> QED BY <3>1, <4>1
        <3>4. ApplyOutcome(w) => SaveStatus(job[w].sub, status'[job[w].sub])
                                   /\ status'[job[w].sub] # "SYNCING"
            BY <2>0 DEF ApplyOutcome, Reschedule, SaveStatus, TypeOK
        <3>5. CompleteIfTerminal(w) =>
                 \/ ~ Between(w) /\ UNCHANGED <<status, orphaned>>
                 \/ SaveStatus(job[w].sub, status'[job[w].sub]) /\ status'[job[w].sub] # "SYNCING"
            <4>1. Complete(job[w].sub) =>
                     SaveStatus(job[w].sub, status'[job[w].sub]) /\ status'[job[w].sub] # "SYNCING"
                <5> SUFFICES ASSUME Complete(job[w].sub)
                             PROVE  /\ SaveStatus(job[w].sub, status'[job[w].sub])
                                    /\ status'[job[w].sub] # "SYNCING"
                    OBVIOUS
                <5>1. SaveStatus(job[w].sub, "COMPLETED")
                    BY DEF Complete
                <5>2. status'[job[w].sub] = "COMPLETED"
                    BY <2>0, <5>1 DEF SaveStatus, TypeOK
                <5> QED BY <5>1, <5>2
            <4> QED BY <4>1 DEF CompleteIfTerminal
        <3> QED BY <2>4, <3>2, <3>3, <3>4, <3>5
    <2>5. CASE Crash(w)
        <3>1. \A v \in Workers \ {w} : phase'[v] = phase[v] /\ job'[v] = job[v]
            BY <2>5 DEF Crash, Forget, Goto, TypeOK
        <3>2. status'[s] = status[s] /\ (orphaned[s] => orphaned'[s])
            BY <2>0, <2>5 DEF Crash, row, TypeOK
        <3>3. Between(w) /\ job[w].sub = s => orphaned'[s]
            BY <2>5, <3>2 DEF Crash, TypeOK
        <3> QED BY <3>1, <3>2, <3>3
    <2> QED BY <1>4, <2>1, <2>2, <2>3, <2>4, <2>5 DEF CycleStep
<1>5. ASSUME NEW w \in Workers, NEW u \in Subs,
             TakeTask(w, u) \/ AskForSync(w, u) \/ RefreshContainer(w, u) \/ BringAnswer(w, u)
      PROVE  Runs(s)' # {} \/ orphaned'[s]
    BY <1>3, <1>5 DEF TakeTask, AskForSync, RefreshContainer, BringAnswer
<1>6. CASE Dispatch
    BY <1>1, <1>6 DEF Dispatch, row
<1>7. ASSUME NEW u \in Subs, Clock(u) PROVE Runs(s)' # {} \/ orphaned'[s]
    BY <1>1, <1>7 DEF Clock, LockExpires, ClockReachesNextSync, ClockPassesStaleCutoff, row
<1>8. CASE UNCHANGED vars
    BY <1>1, <1>8 DEF vars
<1> QED BY <1>2, <1>4, <1>5, <1>6, <1>7, <1>8 DEF Next

(***************************************************************************)
(* Whatever schedules a poll also takes the row out of COMPLETED.          *)
(***************************************************************************)
LEMMA CompletedStep == TypeOK /\ CompletedIsUnscheduled /\ [Next]_vars => CompletedIsUnscheduled'
<1> SUFFICES ASSUME TypeOK, CompletedIsUnscheduled, [Next]_vars,
                    NEW s \in Subs, status'[s] = "COMPLETED"
             PROVE  nextSync'[s] = "null"
    BY DEF CompletedIsUnscheduled
<1> USE DEF CompletedIsUnscheduled
<1>1. ASSUME UNCHANGED <<status, nextSync>> PROVE nextSync'[s] = "null"
    BY <1>1
<1>2. ASSUME NEW u \in Subs, Person(u) PROVE nextSync'[s] = "null"
    BY <1>2 DEF Person, Pause, Resume, Cancel, Decide, SaveStatus, TypeOK
<1>3. ASSUME NEW u \in Subs, Clock(u) PROVE nextSync'[s] = "null"
    BY <1>3 DEF Clock, LockExpires, ClockReachesNextSync, ClockPassesStaleCutoff, row, TypeOK
<1>4. ASSUME NEW w \in Workers, BeginRun(w) PROVE nextSync'[s] = "null"
    BY <1>4 DEF BeginRun, SaveStatus, TypeOK
<1>5. ASSUME NEW w \in Workers, ApplyOutcome(w) PROVE nextSync'[s] = "null"
    BY <1>5 DEF ApplyOutcome, Reschedule, SaveStatus, TypeOK
<1>6. ASSUME NEW w \in Workers, CompleteIfTerminal(w) PROVE nextSync'[s] = "null"
    <2>1. CASE Complete(job[w].sub)
        BY <2>1 DEF Complete, SaveStatus, TypeOK
    <2>2. CASE UNCHANGED <<status, stale, orphaned, nextSync>>
        BY <1>1, <2>2
    <2> QED BY <1>6, <2>1, <2>2 DEF CompleteIfTerminal
<1>7. ASSUME NEW w \in Workers,
             AcquireLock(w) \/ GiveUp(w) \/ Fetch(w) \/ ReleaseLock(w) \/ Crash(w)
      PROVE  nextSync'[s] = "null"
    BY <1>1, <1>7 DEF AcquireLock, GiveUp, Fetch, ReleaseLock, Crash, row
<1>8. ASSUME NEW w \in Workers, NEW u \in Subs,
             TakeTask(w, u) \/ AskForSync(w, u) \/ RefreshContainer(w, u) \/ BringAnswer(w, u)
      PROVE  nextSync'[s] = "null"
    BY <1>1, <1>8 DEF TakeTask, AskForSync, RefreshContainer, BringAnswer, LoadInstance
<1>9. CASE Dispatch
    BY <1>1, <1>9 DEF Dispatch, row
<1>10. CASE UNCHANGED vars
    BY <1>1, <1>10 DEF vars
<1> QED BY <1>2, <1>3, <1>4, <1>5, <1>6, <1>7, <1>8, <1>9, <1>10 DEF Next, CycleStep

LEMMA InductiveInvariant == Spec => []IInv
<1>1. IInv /\ [Next]_vars => IInv'
    BY TypeStep, LockStep, SyncingStep, CompletedStep DEF IInv
<1> QED BY InitIInv, <1>1, PTL DEF Spec

(***************************************************************************)
(* Every variable keeps its type, and only an idle worker has no job.      *)
(***************************************************************************)
THEOREM TypeCorrect == Spec => []TypeOK
<1>1. IInv => TypeOK
    BY DEF IInv
<1> QED BY InductiveInvariant, <1>1, PTL

(***************************************************************************)
(* The sync lock serialises the cycles that take it, whatever the cycles   *)
(* without a lock, the people and the crashes do (tracking/sync.py).       *)
(***************************************************************************)
THEOREM LockSerialises == Spec => []OneLockedRun
<1>1. IInv => OneLockedRun
    BY OwnersExclude DEF IInv
<1> QED BY InductiveInvariant, <1>1, PTL

(***************************************************************************)
(* No interleaving strands a row in SYNCING: only a worker that died does. *)
(***************************************************************************)
THEOREM NeverStranded == Spec => []SyncingMeansRunning
<1>1. IInv => SyncingMeansRunning
    BY DEF IInv
<1> QED BY InductiveInvariant, <1>1, PTL

(***************************************************************************)
(* A completed watch has no poll scheduled, although overlapping cycles    *)
(* reschedule and complete the same row (tracking/services.py).            *)
(***************************************************************************)
THEOREM CompletionUnschedules == Spec => []CompletedIsUnscheduled
<1>1. IInv => CompletedIsUnscheduled
    BY DEF IInv
<1> QED BY InductiveInvariant, <1>1, PTL

(***************************************************************************)
(* The workers that synchronise one subscription under its lock, as the    *)
(* holders of that lock.                                                   *)
(***************************************************************************)
LockedCycles(s) == {w \in Workers : HoldsLock(w) /\ job[w].sub = s}

Cycles(s) == INSTANCE ExclusiveHolder WITH holders <- LockedCycles(s), evicted <- {}

(***************************************************************************)
(* A step takes at most one worker in or out of the locked cycles of one   *)
(* subscription, and in only if there is none.                             *)
(***************************************************************************)
LEMMA LockedCyclesStep ==
    ASSUME TypeOK, OwnsItsLock, [Next]_vars, NEW s \in Subs
    PROVE  \/ LockedCycles(s)' = LockedCycles(s)
           \/ \E w \in Workers :
                 \/ LockedCycles(s) = {} /\ LockedCycles(s)' = {w}
                 \/ w \in LockedCycles(s) /\ LockedCycles(s)' = LockedCycles(s) \ {w}
<1> DEFINE C == LockedCycles(s)
<1>1. ASSUME UNCHANGED <<phase, job>> PROVE C' = C
    BY <1>1 DEF LockedCycles, HoldsLock, HasAnswer
<1>2. ASSUME NEW w \in Workers,
             phase' = [phase EXCEPT ![w] = phase'[w]], job' = [job EXCEPT ![w] = job'[w]]
      PROVE  /\ w \in C <=> HoldsLock(w) /\ job[w].sub = s
             /\ w \in C' <=> HoldsLock(w)' /\ job'[w].sub = s
             /\ (w \in C' <=> w \in C) => C' = C
             /\ C = {} /\ w \in C' => C' = {w}
             /\ w \notin C' => C' = C \ {w}
    <2>1. \A v \in Workers \ {w} : phase'[v] = phase[v] /\ job'[v] = job[v]
        BY <1>2 DEF TypeOK
    <2>2. /\ \A v \in Workers \ {w} : v \in C' <=> v \in C
          /\ w \in C <=> HoldsLock(w) /\ job[w].sub = s
          /\ w \in C' <=> HoldsLock(w)' /\ job'[w].sub = s
          /\ C \subseteq Workers /\ C' \subseteq Workers
        BY <2>1 DEF LockedCycles, HoldsLock, HasAnswer
    <2> HIDE DEF C
    <2> QED BY <2>2
<1>3. ASSUME NEW w \in Workers, NEW u \in Subs, NEW brings, LoadInstance(w, u, brings)
      PROVE  C' = C
    <2>1. ~HoldsLock(w) /\ ~HoldsLock(w)'
        BY <1>3 DEF LoadInstance, Goto, HoldsLock, TypeOK
    <2>2. phase' = [phase EXCEPT ![w] = phase'[w]] /\ job' = [job EXCEPT ![w] = job'[w]]
        BY <1>3 DEF LoadInstance, Goto, TypeOK
    <2> HIDE DEF C
    <2> QED BY <1>2, <2>1, <2>2
<1>4. ASSUME NEW w \in Workers, AcquireLock(w)
      PROVE  C' = C \/ (C = {} /\ C' = {w})
    <2>1. phase' = [phase EXCEPT ![w] = phase'[w]] /\ job' = [job EXCEPT ![w] = job'[w]]
          /\ ~HoldsLock(w) /\ lock[job[w].sub] = Free /\ job'[w] = job[w]
        BY <1>4 DEF AcquireLock, Goto, LockGrants, HoldsLock, TypeOK
    <2>2. HoldsLock(w)'
        BY <1>4 DEF AcquireLock, Goto, HoldsLock, HasAnswer, TypeOK
    <2>3. job[w].sub = s => C = {}
        <3>1. \A v \in Workers : HoldsLock(v) => lock[job[v].sub] # Free
            BY LockValuesDiffer DEF OwnsItsLock
        <3> QED BY <2>1, <3>1 DEF LockedCycles
    <2> HIDE DEF C
    <2>4. CASE job[w].sub = s
        <3>1. C = {} /\ w \in C' /\ (C = {} /\ w \in C' => C' = {w})
            BY <1>2, <2>1, <2>2, <2>3, <2>4
        <3> QED BY <3>1
    <2>5. CASE job[w].sub # s
        <3>1. w \notin C' /\ w \notin C /\ ((w \in C' <=> w \in C) => C' = C)
            BY <1>2, <2>1, <2>5
        <3> QED BY <3>1
    <2> QED BY <2>4, <2>5
<1>5. ASSUME NEW w \in Workers,
             BeginRun(w) \/ Fetch(w) \/ ApplyOutcome(w) \/ CompleteIfTerminal(w)
      PROVE  C' = C
    <2>1. phase' = [phase EXCEPT ![w] = phase'[w]] /\ job' = [job EXCEPT ![w] = job'[w]]
          /\ job'[w] = job[w]
        BY <1>5 DEF BeginRun, Fetch, ApplyOutcome, CompleteIfTerminal, Goto, TypeOK
    <2>2. HoldsLock(w)' <=> HoldsLock(w)
        BY <1>5 DEF BeginRun, Fetch, ApplyOutcome, CompleteIfTerminal, Goto, HoldsLock, HasAnswer, TypeOK
    <2> HIDE DEF C
    <2> QED BY <1>2, <2>1, <2>2
<1>6. ASSUME NEW w \in Workers, GiveUp(w) \/ ReleaseLock(w) \/ Crash(w)
      PROVE  C' = C \/ (w \in C /\ C' = C \ {w})
    <2>1. phase' = [phase EXCEPT ![w] = phase'[w]] /\ job' = [job EXCEPT ![w] = job'[w]]
          /\ phase'[w] = "idle"
        <3>1. Forget(w)
            BY <1>6 DEF GiveUp, ReleaseLock, Crash
        <3>2. phase' = [phase EXCEPT ![w] = "idle"] /\ job' = [job EXCEPT ![w] = NoJob]
            BY <3>1 DEF Forget, Goto
        <3>3. phase'[w] = "idle" /\ job'[w] = NoJob
            BY <3>2 DEF TypeOK
        <3> QED BY <3>2, <3>3
    <2>2. ~HoldsLock(w)'
        BY <2>1 DEF HoldsLock
    <2> HIDE DEF C
    <2>3. w \notin C' /\ C' = C \ {w} /\ ((w \in C' <=> w \in C) => C' = C)
        BY <1>2, <2>1, <2>2
    <2> QED BY <2>3
<1>7. ASSUME NEW w \in Workers, NEW u \in Subs,
             TakeTask(w, u) \/ AskForSync(w, u) \/ RefreshContainer(w, u) \/ BringAnswer(w, u)
      PROVE  C' = C
    BY <1>3, <1>7 DEF TakeTask, AskForSync, RefreshContainer, BringAnswer
<1>8. ASSUME Dispatch PROVE C' = C
    BY <1>1, <1>8 DEF Dispatch
<1>9. ASSUME NEW u \in Subs, Clock(u) \/ Person(u) PROVE C' = C
    <2>1. Clock(u) => UNCHANGED <<phase, job>>
        BY DEF Clock, LockExpires, ClockReachesNextSync, ClockPassesStaleCutoff
    <2>2. Person(u) => UNCHANGED <<phase, job>>
        BY DEF Person, Pause, Resume, Cancel, Decide
    <2> HIDE DEF C
    <2> QED BY <1>1, <1>9, <2>1, <2>2
<1>10. ASSUME UNCHANGED vars PROVE C' = C
    BY <1>1, <1>10 DEF vars
<1> HIDE DEF C
<1> DEFINE Moves(w) == (C = {} /\ C' = {w}) \/ (w \in C /\ C' = C \ {w})
<1>11. ASSUME NEW w \in Workers, CycleStep(w) \/ Crash(w) PROVE C' = C \/ Moves(w)
    BY <1>4, <1>5, <1>6, <1>11 DEF CycleStep
<1> HIDE DEF Moves
<1>12. C' = C \/ \E w \in Workers : Moves(w)
    BY <1>7, <1>8, <1>9, <1>10, <1>11 DEF Next
<1> QED BY <1>12 DEF C, Moves

(***************************************************************************)
(* The cycles of a subscription that take its lock are workers inside      *)
(* resource_lock: a step of TrackingSync is a step of ExclusiveHolder for  *)
(* each subscription, or invisible to it.                                  *)
(***************************************************************************)
THEOREM LockedCyclesAreHolders ==
    ASSUME NEW s \in Subs
    PROVE  Spec => Cycles(s)!Spec
<1>1. Init => Cycles(s)!Init
    BY DEF Init, Cycles!Init, LockedCycles, HoldsLock
<1>2. IInv /\ [Next]_vars => [Cycles(s)!Next]_<<LockedCycles(s), {}>>
    BY LockedCyclesStep DEF IInv, Cycles!Next, Cycles!Acquire, Cycles!Release
<1> QED BY <1>1, <1>2, InductiveInvariant, PTL DEF Spec, Cycles!Spec

-----------------------------------------------------------------------------
(* ReadModels: natural numbers, orders and folds. *)

LEMMA LeastNatural ==
    ASSUME NEW T, T \subseteq Nat, T # {}
    PROVE  \E n \in T : \A m \in T : n <= m
<1> DEFINE R == OpToRel(<, Nat)
<1>1. IsWellFoundedOn(R, Nat)
    BY NatLessThanWellFounded
<1>2. \A m, n \in Nat : m < n => <<m, n>> \in R
    BY DEF OpToRel
<1> HIDE DEF R
<1>3. \E x \in T : \A y \in T : ~ (<<y, x>> \in R)
    BY <1>1, WFMin
<1>4. PICK n \in T : \A m \in T : ~ (m < n)
    BY <1>2, <1>3
<1>5. \A m \in T : n <= m
    BY <1>4
<1> QED BY <1>5

LEMMA Induction ==
    ASSUME NEW G, 0 \in G, \A n \in Nat : n \in G => n + 1 \in G
    PROVE  \A n \in Nat : n \in G
<1> DEFINE T == Nat \ G
<1> SUFFICES ASSUME T # {} PROVE FALSE
    OBVIOUS
<1>1. PICK n \in T : \A m \in T : n <= m
    BY LeastNatural
<1>2. n \in Nat /\ n # 0
    BY <1>1
<1>3. n - 1 \in Nat /\ n - 1 \notin T
    BY <1>1, <1>2
<1>4. (n - 1) + 1 \in G
    BY <1>3
<1> QED BY <1>1, <1>2, <1>4

(***************************************************************************)
(* Time and creation order the stored events strictly and completely.      *)
(***************************************************************************)
Stored == Seq(Reports)

LEMMA Ordered ==
    ASSUME NEW es \in Stored
    PROVE  /\ \A i \in DOMAIN es : es[i] \in Reports /\ es[i].at \in Nat /\ i \in Nat /\ i # 0
           /\ \A i, j \in DOMAIN es : Earlier(es, i, j) => es[i].at <= es[j].at
           /\ \A i \in DOMAIN es : ~Earlier(es, i, i)
           /\ \A i, j \in DOMAIN es : i = j \/ Earlier(es, i, j) \/ Earlier(es, j, i)
           /\ \A i, j, k \in DOMAIN es : Earlier(es, i, j) /\ Earlier(es, j, k) => Earlier(es, i, k)
<1>1. \A i \in DOMAIN es : es[i] \in Reports /\ i \in Nat /\ i # 0
    BY DEF Stored
<1>2. \A i \in DOMAIN es : es[i].at \in Nat
    BY <1>1, ReportsAssumption
<1> QED BY <1>1, <1>2 DEF Earlier

(***************************************************************************)
(* The newest of some events is the one that all others are earlier than.  *)
(***************************************************************************)
LEMMA NewestIs ==
    ASSUME NEW es \in Stored, NEW S \in SUBSET DOMAIN es
    PROVE  /\ S = {} => Newest(es, S) = NoEvent
           /\ S # {} => /\ Newest(es, S) \in S
                        /\ \A j \in S \ {Newest(es, S)} : Earlier(es, j, Newest(es, S))
           /\ \A i \in S : (\A j \in S \ {i} : Earlier(es, j, i)) => i = Newest(es, S)
<1>1. S = {} => Newest(es, S) = NoEvent
    BY DEF Newest
<1>2. ASSUME S # {} PROVE \E i \in S : \A j \in S \ {i} : Earlier(es, j, i)
    <2>1. \A i \in S : i \in DOMAIN es /\ es[i].at \in Nat /\ i \in Nat
        BY Ordered
    <2> DEFINE Until == {n \in Nat : \A i \in S : es[i].at <= n}
               Behind == {n \in Nat : \A i \in S : i <= n}
    <2>2. \A i \in DOMAIN es : es[i].at <= Undated
        <3>1. \A i \in DOMAIN es : es[i] \in Reports
            BY Ordered
        <3> QED BY <3>1, ReportsAssumption
    <2>3. Undated \in Until
        BY <2>1, <2>2, ReportsAssumption
    <2>4. PICK late \in Until : \A n \in Until : late <= n
        BY <2>3, LeastNatural
    <2>5. \E i \in S : es[i].at = late
        <3> SUFFICES ASSUME \A i \in S : es[i].at # late PROVE FALSE
            OBVIOUS
        <3>1. \A i \in S : es[i].at < late
            BY <2>1, <2>4
        <3>2. late # 0 /\ late \in Nat
            BY <1>2, <2>1, <2>4, <3>1
        <3>3. late - 1 \in Until
            BY <2>1, <3>1, <3>2
        <3> QED BY <2>4, <3>2, <3>3
    <2> DEFINE AtLate == {i \in S : es[i].at = late}
               Bounds == {n \in Nat : \A i \in AtLate : i <= n}
    <2>6. Len(es) \in Bounds
        <3>1. Len(es) \in Nat /\ DOMAIN es = 1 .. Len(es)
            BY DEF Stored
        <3> QED BY <2>1, <3>1
    <2>7. PICK n \in Bounds : \A m \in Bounds : n <= m
        BY <2>6, LeastNatural
    <2>8. n \in AtLate
        <3> SUFFICES ASSUME n \notin AtLate PROVE FALSE
            OBVIOUS
        <3>1. \A i \in AtLate : i < n
            BY <2>1, <2>7
        <3>2. n # 0 /\ n \in Nat
            BY <2>1, <2>5, <2>7, <3>1
        <3>3. n - 1 \in Bounds
            BY <2>1, <3>1, <3>2
        <3> QED BY <2>7, <3>2, <3>3
    <2>9. \A j \in S \ {n} : Earlier(es, j, n)
        BY <2>1, <2>4, <2>7, <2>8 DEF Earlier
    <2> QED BY <2>8, <2>9
<1>3. \A i, j \in S : (\A k \in S \ {i} : Earlier(es, k, i)) /\ (\A k \in S \ {j} : Earlier(es, k, j))
                      => i = j
    BY Ordered
<1>4. S # {} => /\ Newest(es, S) \in S
                /\ \A j \in S \ {Newest(es, S)} : Earlier(es, j, Newest(es, S))
    BY <1>2 DEF Newest
<1> QED BY <1>1, <1>3, <1>4

(***************************************************************************)
(* The order of the journey lists every event once.                        *)
(***************************************************************************)
Sorted(es, order, n) ==
    /\ order \in Bijection(1 .. n, 1 .. n)
    /\ \A a, b \in 1 .. n : a < b => Earlier(es, order[a], order[b])

LEMMA OneMoreInOrder ==
    ASSUME NEW es \in Stored, NEW n \in Nat, n + 1 <= Len(es), NEW order, Sorted(es, order, n)
    PROVE  \E next : Sorted(es, next, n + 1)
<1>1. order \in [1 .. n -> 1 .. n] /\ (\A a \in 1 .. n : \E b \in 1 .. n : order[b] = a)
      /\ \A a, b \in 1 .. n : a < b => Earlier(es, order[a], order[b])
    BY DEF Sorted, Bijection, Injection, Surjection
<1>2. DOMAIN es = 1 .. Len(es) /\ Len(es) \in Nat /\ 1 .. (n + 1) \subseteq DOMAIN es
    BY DEF Stored
<1> DEFINE x == n + 1
           Fit == {p \in 1 .. x : \A a \in 1 .. n : a >= p => Earlier(es, x, order[a])}
<1>3. x \in Fit /\ Fit \subseteq Nat
    OBVIOUS
<1>4. PICK p \in Fit : \A q \in Fit : p <= q
    BY <1>3, LeastNatural
<1>5. ASSUME NEW a \in 1 .. n, a < p PROVE Earlier(es, order[a], x)
    <2>1. p - 1 \in 1 .. n /\ p - 1 \notin Fit
        BY <1>4, <1>5
    <2>2. ~Earlier(es, x, order[p - 1])
        BY <1>4, <2>1
    <2>3. order[p - 1] \in DOMAIN es /\ x \in DOMAIN es /\ order[p - 1] # x /\ order[a] \in DOMAIN es
        <3>1. order[p - 1] \in 1 .. n /\ order[a] \in 1 .. n
            BY <1>1, <2>1
        <3>2. \A y \in 1 .. n : y \in 1 .. (n + 1) /\ y # n + 1
            OBVIOUS
        <3>3. n + 1 \in 1 .. (n + 1)
            OBVIOUS
        <3> QED BY <1>2, <3>1, <3>2, <3>3
    <2>4. Earlier(es, order[p - 1], x)
        BY <2>2, <2>3, Ordered
    <2>5. a = p - 1 \/ Earlier(es, order[a], order[p - 1])
        BY <1>1, <1>5, <2>1
    <2> QED BY <2>3, <2>4, <2>5, Ordered
<1>6. \A a \in 1 .. n : a >= p => Earlier(es, x, order[a])
    BY <1>4
<1> DEFINE next == [a \in 1 .. x |-> IF a < p THEN order[a] ELSE IF a = p THEN x ELSE order[a - 1]]
<1>7. next \in [1 .. x -> 1 .. x]
    <2>1. ASSUME NEW a \in 1 .. x PROVE next[a] \in 1 .. x
        <3>1. CASE a < p
            <4>1. a \in 1 .. n
                BY <1>4, <3>1
            <4> QED BY <1>1, <3>1, <4>1
        <3>2. CASE a = p
            BY <3>2
        <3>3. CASE a > p
            <4>1. a - 1 \in 1 .. n
                BY <1>4, <3>3
            <4> QED BY <1>1, <1>4, <3>3, <4>1
        <3> QED BY <1>4, <3>1, <3>2, <3>3
    <2> QED BY <2>1
<1>8. ASSUME NEW a \in 1 .. x, NEW b \in 1 .. x, a < b PROVE Earlier(es, next[a], next[b])
    <2> HIDE DEF x
    <2>0. x = n + 1 /\ p \in 1 .. x
        BY <1>4 DEF x
    <2>1. CASE b < p
        BY <1>1, <1>8, <2>0, <2>1
    <2>2. CASE b = p
        BY <1>5, <1>8, <2>0, <2>2
    <2>3. CASE b > p /\ a = p
        BY <1>6, <1>8, <2>0, <2>3
    <2>4. CASE b > p /\ a > p
        BY <1>1, <1>8, <2>0, <2>4
    <2>5. CASE b > p /\ a < p
        <3>1. a \in 1 .. n /\ b - 1 \in 1 .. n
            BY <1>8, <2>0, <2>5
        <3>2. next[a] = order[a] /\ next[b] = order[b - 1]
            BY <1>8, <2>0, <2>5
        <3>3. a < b - 1
            BY <1>8, <2>0, <2>5
        <3> QED BY <1>1, <3>1, <3>2, <3>3
    <2> QED BY <1>8, <2>0, <2>1, <2>2, <2>3, <2>4, <2>5
<1>9. ASSUME NEW y \in 1 .. x PROVE \E a \in 1 .. x : next[a] = y
    <2>1. CASE y = x
        BY <1>4, <2>1
    <2>2. CASE y # x
        <3>1. PICK b \in 1 .. n : order[b] = y
            BY <1>1, <1>9, <2>2
        <3>2. CASE b < p
            BY <3>1, <3>2, <1>4
        <3>3. CASE b >= p
            <4>1. b + 1 \in 1 .. x /\ ~(b + 1 < p) /\ b + 1 # p /\ (b + 1) - 1 = b
                BY <3>1, <3>3, <1>4
            <4> QED BY <3>1, <4>1
        <3> QED BY <3>1, <3>2, <3>3, <1>4
    <2> QED BY <2>1, <2>2
<1> HIDE DEF next
<1>10. \A a, b \in 1 .. x : next[a] = next[b] => a = b
    <2>1. \A a \in 1 .. x : ~Earlier(es, next[a], next[a])
        BY <1>2, <1>7, Ordered
    <2>2. \A a, b \in 1 .. x : a < b \/ b < a \/ a = b
        OBVIOUS
    <2> HIDE DEF x
    <2> QED BY <1>8, <2>1, <2>2
<1>11. next \in Bijection(1 .. x, 1 .. x)
    BY <1>7, <1>9, <1>10 DEF Bijection, Injection, Surjection, IsInjective
<1> QED BY <1>8, <1>11 DEF Sorted

LEMMA InOrderIs ==
    ASSUME NEW es \in Stored
    PROVE  Sorted(es, InOrder(es), Len(es))
<1>1. Len(es) \in Nat /\ DOMAIN es = 1 .. Len(es)
    BY DEF Stored
<1> DEFINE G == {n \in Nat : n <= Len(es) => \E order : Sorted(es, order, n)}
<1>2. 0 \in G
    <2> DEFINE none == [a \in 1 .. 0 |-> a]
    <2>1. none \in Bijection(1 .. 0, 1 .. 0)
        BY DEF Bijection, Injection, Surjection, IsInjective
    <2>2. Sorted(es, none, 0)
        BY <2>1 DEF Sorted
    <2> QED BY <2>2
<1>3. ASSUME NEW n \in Nat, n \in G PROVE n + 1 \in G
    BY <1>1, <1>3, OneMoreInOrder
<1> HIDE DEF G
<1>4. Len(es) \in G
    BY <1>1, <1>2, <1>3, Induction
<1>5. \E order : Sorted(es, order, Len(es))
    BY <1>1, <1>4 DEF G
<1> QED BY <1>1, <1>5 DEF InOrder, Sorted

LEMMA MaxIs ==
    ASSUME NEW n \in Nat, NEW s \in SUBSET (1 .. n), s # {}
    PROVE  Max(s) \in s /\ \A y \in s : Max(s) >= y
<1> DEFINE Bounds == {m \in Nat : \A y \in s : m >= y}
<1>1. n \in Bounds
    OBVIOUS
<1>2. PICK m \in Bounds : \A k \in Bounds : m <= k
    BY <1>1, LeastNatural
<1>3. m \in s
    <2> SUFFICES ASSUME m \notin s PROVE FALSE
        OBVIOUS
    <2>1. \A y \in s : y < m /\ y \in Nat
        BY <1>2
    <2>2. m # 0 /\ m \in Nat
        <3>1. PICK y \in s : TRUE
            OBVIOUS
        <3> QED BY <1>2, <2>1, <3>1
    <2>3. m - 1 \in Bounds
        BY <2>1, <2>2
    <2> QED BY <1>2, <2>2, <2>3
<1>4. \E x \in s : \A y \in s : x >= y
    BY <1>2, <1>3
<1> QED BY <1>4 DEF Max

LEMMA MaxOfPrefix ==
    ASSUME NEW n \in Nat
    PROVE  Max(1 .. (n + 1)) = n + 1 /\ (1 .. (n + 1)) \ {n + 1} = 1 .. n
<1>1. n + 1 \in Nat /\ n + 1 \in 1 .. (n + 1)
    OBVIOUS
<1> DEFINE s == 1 .. (n + 1)
<1>2. s \in SUBSET (1 .. (n + 1)) /\ s # {}
    BY <1>1
<1> HIDE DEF s
<1>3. Max(s) \in s /\ \A y \in s : Max(s) >= y
    BY <1>1, <1>2, MaxIs
<1>4. Max(s) >= n + 1 /\ Max(s) \in 1 .. (n + 1)
    BY <1>1, <1>3 DEF s
<1>5. Max(s) = n + 1
    BY <1>1, <1>4
<1>6. (1 .. (n + 1)) \ {n + 1} = 1 .. n
    OBVIOUS
<1> QED BY <1>5, <1>6 DEF s

(***************************************************************************)
(* A fold of the library is defined by recursion on the set of positions.  *)
(* Such a function exists, whatever a step does.                           *)
(***************************************************************************)
Folds(f, n, start, step, seq) ==
    f = [s \in SUBSET (1 .. n) |->
            IF s = {} THEN start ELSE step[<<f[s \ {Max(s)}], seq[Max(s)]>>]]

LEMMA FoldExists ==
    ASSUME NEW V, NEW A, NEW start \in V, NEW step \in [V \X A -> V],
           NEW m \in Nat, NEW seq \in [1 .. m -> A]
    PROVE  \E f \in [SUBSET (1 .. m) -> V] : Folds(f, m, start, step, seq)
<1> DEFINE Foldable(n) == \E f \in [SUBSET (1 .. n) -> V] : Folds(f, n, start, step, seq)
<1>1. Foldable(0)
    <2> DEFINE f == [s \in SUBSET (1 .. 0) |-> start]
    <2>1. \A s \in SUBSET (1 .. 0) : s = {}
        OBVIOUS
    <2>2. f \in [SUBSET (1 .. 0) -> V] /\ Folds(f, 0, start, step, seq)
        BY <2>1 DEF Folds
    <2> QED BY <2>2
<1>2. ASSUME NEW n \in Nat, n + 1 <= m, Foldable(n) PROVE Foldable(n + 1)
    <2>1. PICK f \in [SUBSET (1 .. n) -> V] : Folds(f, n, start, step, seq)
        BY <1>2
    <2> DEFINE x == n + 1
               g == [s \in SUBSET (1 .. x) |->
                        IF x \in s THEN step[<<f[s \ {x}], seq[x]>>] ELSE f[s]]
    <2>2. x \in Nat /\ x \in 1 .. m /\ seq[x] \in A
        BY <1>2
    <2>3. \A s \in SUBSET (1 .. x) : s \ {x} \in SUBSET (1 .. n) /\ (x \notin s => s \in SUBSET (1 .. n))
        OBVIOUS
    <2>4. \A s \in SUBSET (1 .. x) : x \in s => Max(s) = x
        <3> SUFFICES ASSUME NEW s \in SUBSET (1 .. x), x \in s PROVE Max(s) = x
            OBVIOUS
        <3>1. Max(s) \in s /\ Max(s) >= x
            BY <2>2, MaxIs
        <3>2. Max(s) \in 1 .. x
            BY <3>1
        <3> QED BY <2>2, <3>1, <3>2
    <2> HIDE DEF x
    <2>5. g \in [SUBSET (1 .. x) -> V]
        <3>1. ASSUME NEW s \in SUBSET (1 .. x) PROVE g[s] \in V
            <4>1. f[s \ {x}] \in V /\ (x \notin s => f[s] \in V)
                BY <2>3
            <4> QED BY <2>2, <4>1
        <3> QED BY <3>1
    <2>6. ASSUME NEW s \in SUBSET (1 .. x)
          PROVE  g[s] = IF s = {} THEN start ELSE step[<<g[s \ {Max(s)}], seq[Max(s)]>>]
        <3>1. CASE x \in s
            <4>1. g[s] = step[<<f[s \ {x}], seq[x]>>] /\ s # {}
                BY <3>1
            <4>2. s \ {x} \in SUBSET (1 .. x) /\ x \notin s \ {x}
                OBVIOUS
            <4>3. g[s \ {x}] = f[s \ {x}]
                BY <4>2
            <4> HIDE DEF g
            <4> QED BY <2>4, <3>1, <4>1, <4>3
        <3>2. CASE x \notin s
            <4>1. s \in SUBSET (1 .. n)
                BY <2>3, <3>2
            <4>2. f[s] = IF s = {} THEN start ELSE step[<<f[s \ {Max(s)}], seq[Max(s)]>>]
                BY <2>1, <4>1 DEF Folds
            <4>3. g[s] = f[s]
                BY <3>2
            <4>4. s \ {Max(s)} \in SUBSET (1 .. x) /\ x \notin s \ {Max(s)}
                BY <3>2
            <4>5. g[s \ {Max(s)}] = f[s \ {Max(s)}]
                BY <4>4
            <4> HIDE DEF g
            <4> QED BY <4>2, <4>3, <4>5
        <3> QED BY <3>1, <3>2
    <2>7. Folds(g, x, start, step, seq)
        <3>1. g = [s \in SUBSET (1 .. x) |-> g[s]]
            BY <2>5
        <3> HIDE DEF g
        <3> QED BY <2>6, <3>1 DEF Folds
    <2> HIDE DEF g
    <2> QED BY <2>5, <2>7 DEF x
<1> HIDE DEF Foldable
<1> DEFINE G == {n \in Nat : n <= m => Foldable(n)}
<1>3. 0 \in G /\ \A n \in Nat : n \in G => n + 1 \in G
    BY <1>1, <1>2
<1> HIDE DEF G
<1>4. m \in G
    BY <1>3, Induction
<1>5. Foldable(m)
    BY <1>4 DEF G
<1> QED BY <1>5 DEF Foldable

(***************************************************************************)
(* An event finds its place among the points.                              *)
(***************************************************************************)
Points(es) == Seq(Seq(DOMAIN es))

LEMMA Kept ==
    ASSUME NEW S, NEW seq \in Seq(S), NEW x \in S
    PROVE  /\ Append(seq, x) \in Seq(S)
           /\ \A k \in 1 .. Len(seq) : [seq EXCEPT ![k] = x] \in Seq(S)
OBVIOUS

LEMMA PlaceIs ==
    ASSUME NEW es \in Stored, NEW merged \in Points(es), NEW i \in DOMAIN es
    PROVE  LET found == Candidates(es, merged, i)
               alone == ~Dated(es[i]) \/ es[i].type = "UNKNOWN" \/ found = {}
           IN  /\ alone => Place(es, merged, i) = Append(merged, <<i>>)
               /\ ~alone => /\ Max(found) \in found /\ \A k \in found : Max(found) >= k
                            /\ Place(es, merged, i)
                                 = [merged EXCEPT ![Max(found)] = Append(@, i)]
               /\ Place(es, merged, i) \in Points(es)
<1> DEFINE found == Candidates(es, merged, i)
           alone == ~Dated(es[i]) \/ es[i].type = "UNKNOWN" \/ found = {}
<1>1. merged \in Seq(Seq(DOMAIN es)) /\ Len(merged) \in Nat /\ DOMAIN merged = 1 .. Len(merged)
    BY DEF Points
<1>2. found \in SUBSET (1 .. Len(merged))
    BY <1>1 DEF Candidates
<1>3. found # {} => Max(found) \in found /\ \A k \in found : Max(found) >= k
    BY <1>1, <1>2, MaxIs
<1> HIDE DEF found
<1>4. CorroboratedPoint(es, merged, i) = IF alone THEN NoEvent ELSE Max(found)
    BY DEF CorroboratedPoint, found
<1>5. alone => Place(es, merged, i) = Append(merged, <<i>>)
    BY <1>4 DEF Place
<1>6. ASSUME ~alone
      PROVE  Place(es, merged, i) = [merged EXCEPT ![Max(found)] = Append(@, i)]
    <2>1. Max(found) # NoEvent
        BY <1>1, <1>2, <1>3, <1>6 DEF NoEvent
    <2> QED BY <1>4, <1>6, <2>1 DEF Place
<1>7. Place(es, merged, i) \in Seq(Seq(DOMAIN es))
    <2>1. CASE alone
        <3>1. <<i>> \in Seq(DOMAIN es)
            OBVIOUS
        <3>2. Append(merged, <<i>>) \in Seq(Seq(DOMAIN es))
            BY <1>1, <3>1, Kept
        <3> QED BY <1>5, <2>1, <3>2
    <2>2. CASE ~alone
        <3>1. Max(found) \in 1 .. Len(merged)
            BY <1>2, <1>3, <2>2
        <3>2. Append(merged[Max(found)], i) \in Seq(DOMAIN es)
            BY <1>1, <3>1, Kept
        <3> HIDE DEF alone
        <3>3. [merged EXCEPT ![Max(found)] = Append(merged[Max(found)], i)] \in Seq(Seq(DOMAIN es))
            BY <1>1, <3>1, <3>2, Kept
        <3> QED BY <1>6, <2>2, <3>3
    <2> QED BY <2>1, <2>2
<1> QED BY <1>3, <1>5, <1>6, <1>7 DEF found, Points

(***************************************************************************)
(* The journey is what placing the events one by one, in order, comes to.  *)
(***************************************************************************)
Merging(f, es) ==
    f = [s \in SUBSET DOMAIN InOrder(es) |->
            IF s = {} THEN << >> ELSE Place(es, f[s \ {Max(s)}], InOrder(es)[Max(s)])]

LEMMA MergeSteps ==
    ASSUME NEW es \in Stored
    PROVE  \E g : /\ g[0] = << >> /\ g[Len(es)] = MergeCorroborating(es)
                  /\ \A k \in Nat : k < Len(es) => g[k + 1] = Place(es, g[k], InOrder(es)[k + 1])
<1> DEFINE order == InOrder(es)
           n == Len(es)
           V == Points(es)
           step == [pair \in V \X DOMAIN es |-> Place(es, pair[1], pair[2])]
           merge == CHOOSE f : Merging(f, es)
<1>1. n \in Nat /\ DOMAIN es = 1 .. n
    BY DEF Stored
<1>2. order \in [1 .. n -> DOMAIN es] /\ DOMAIN order = 1 .. n
    <2>1. Sorted(es, order, n)
        BY InOrderIs
    <2> QED BY <1>1, <2>1 DEF Sorted, Bijection, Injection
<1>3. MergeCorroborating(es) = merge[DOMAIN order]
    BY Zenon DEF MergeCorroborating, FoldLeft, MapThenFoldSet, Merging
<1>4. << >> \in V
    BY DEF Points
<1>5. step \in [V \X DOMAIN es -> V]
    BY PlaceIs
<1> HIDE DEF V, order, n, merge
<1>6. PICK f \in [SUBSET (1 .. n) -> V] : Folds(f, n, << >>, step, order)
    BY <1>1, <1>2, <1>4, <1>5, FoldExists
<1>7. Merging(f, es)
    <2>1. ASSUME NEW s \in SUBSET (1 .. n)
          PROVE  f[s] = IF s = {} THEN << >> ELSE Place(es, f[s \ {Max(s)}], order[Max(s)])
        <3>1. f[s] = IF s = {} THEN << >> ELSE step[<<f[s \ {Max(s)}], order[Max(s)]>>]
            BY <1>6 DEF Folds
        <3>2. CASE s = {}
            BY <3>1, <3>2
        <3>3. CASE s # {}
            <4>1. Max(s) \in s
                BY <1>1, <3>3, MaxIs
            <4>2. order[Max(s)] \in DOMAIN es /\ f[s \ {Max(s)}] \in V
                BY <1>2, <1>6, <4>1
            <4>3. step[<<f[s \ {Max(s)}], order[Max(s)]>>] = Place(es, f[s \ {Max(s)}], order[Max(s)])
                BY <4>2
            <4> HIDE DEF step
            <4> QED BY <3>1, <3>3, <4>3
        <3> QED BY <3>2, <3>3
    <2>2. f = [s \in SUBSET (1 .. n) |-> f[s]]
        BY <1>6
    <2> QED BY <1>2, <2>1, <2>2 DEF Merging, order
<1>8. Merging(merge, es)
    BY <1>7 DEF merge
<1>9. \A s \in SUBSET (1 .. n) :
        merge[s] = IF s = {} THEN << >> ELSE Place(es, merge[s \ {Max(s)}], order[Max(s)])
    BY <1>2, <1>8 DEF Merging, order
<1> DEFINE g == [k \in 0 .. n |-> merge[1 .. k]]
<1>10. g[0] = << >>
    <2>1. 1 .. 0 = {} /\ {} \in SUBSET (1 .. n) /\ 0 \in 0 .. n
        BY <1>1
    <2>2. merge[{}] = << >>
        BY <1>9, <2>1
    <2> QED BY <2>1, <2>2
<1>11. g[n] = MergeCorroborating(es)
    BY <1>1, <1>2, <1>3
<1>12. ASSUME NEW k \in Nat, k < n PROVE g[k + 1] = Place(es, g[k], order[k + 1])
    <2>1. 1 .. (k + 1) \in SUBSET (1 .. n) /\ k + 1 \in 0 .. n /\ k \in 0 .. n
        BY <1>1, <1>12
    <2>2. 1 .. (k + 1) # {}
        OBVIOUS
    <2>3. Max(1 .. (k + 1)) = k + 1 /\ (1 .. (k + 1)) \ {k + 1} = 1 .. k
        BY MaxOfPrefix
    <2>4. merge[1 .. (k + 1)] = Place(es, merge[1 .. k], order[k + 1])
        BY <1>9, <2>1, <2>2, <2>3
    <2> QED BY <2>1, <2>4
<1> HIDE DEF g
<1>13. /\ g[0] = << >> /\ g[Len(es)] = MergeCorroborating(es)
       /\ \A k \in Nat : k < Len(es) => g[k + 1] = Place(es, g[k], InOrder(es)[k + 1])
    BY <1>10, <1>11, <1>12 DEF n, order
<1> QED BY <1>13


(***************************************************************************)
(* What the points look like when some events are placed: each event is at *)
(* one position, points and their members are in order, and every event    *)
(* joined the last point that was open to it, unless none was.             *)
(***************************************************************************)
Lone(e) == ~Dated(e) \/ e.type = "UNKNOWN"

Open(es, merged, i) ==
    {p \in DOMAIN merged :
        LET kept == es[merged[p][1]]
        IN /\ Earlier(es, merged[p][1], i)
           /\ Dated(kept) /\ es[i].at - kept.at <= Window
           /\ kept.type = es[i].type /\ kept.kind = es[i].kind
           /\ SamePlaceExactly(kept, es[i])
           /\ \A a \in DOMAIN merged[p] :
                 Earlier(es, merged[p][a], i) => es[merged[p][a]].provider # es[i].provider}

Joined(es, merged, p, a, i) ==
    /\ a = 1 => Lone(es[i]) \/ Open(es, merged, i) = {}
    /\ a # 1 => /\ ~Lone(es[i]) /\ p \in Open(es, merged, i)
                /\ \A q \in Open(es, merged, i) : q <= p

Merged(es, merged, done) ==
    /\ merged \in Points(es)
    /\ \A p \in DOMAIN merged : 1 \in DOMAIN merged[p]
    /\ \A p \in DOMAIN merged : \A a \in DOMAIN merged[p] :
          /\ merged[p][a] \in done
          /\ Joined(es, merged, p, a, merged[p][a])
          /\ \A b \in DOMAIN merged[p] : a < b => Earlier(es, merged[p][a], merged[p][b])
    /\ \A i \in done : \E p \in DOMAIN merged : \E a \in DOMAIN merged[p] : merged[p][a] = i
    /\ \A p, q \in DOMAIN merged : \A a \in DOMAIN merged[p] : \A b \in DOMAIN merged[q] :
          merged[p][a] = merged[q][b] => p = q
    /\ \A p, q \in DOMAIN merged : p < q => Earlier(es, merged[p][1], merged[q][1])

Extends(old, new, t, c, i) ==
    /\ DOMAIN new = DOMAIN old \cup {t} /\ c \in DOMAIN new[t] /\ new[t][c] = i
    /\ \A p \in DOMAIN old : \A a \in DOMAIN old[p] : a \in DOMAIN new[p] /\ new[p][a] = old[p][a]
    /\ \A p \in DOMAIN new : \A a \in DOMAIN new[p] :
          (p \in DOMAIN old /\ a \in DOMAIN old[p]) \/ (p = t /\ a = c)
    /\ IF t \in DOMAIN old THEN c = Len(old[t]) + 1 ELSE t = Len(old) + 1 /\ c = 1

LEMMA Extended ==
    ASSUME NEW es \in Stored, NEW merged \in Points(es), NEW i \in DOMAIN es
    PROVE  LET found == Candidates(es, merged, i)
               alone == Lone(es[i]) \/ found = {}
               next  == Place(es, merged, i)
           IN  /\ next \in Points(es)
               /\ alone => Extends(merged, next, Len(merged) + 1, 1, i)
               /\ ~alone => \E t \in found :
                     /\ \A p \in found : p <= t
                     /\ Extends(merged, next, t, Len(merged[t]) + 1, i)
<1> DEFINE found == Candidates(es, merged, i)
           alone == Lone(es[i]) \/ found = {}
           next  == Place(es, merged, i)
<1>1. /\ Len(merged) \in Nat /\ DOMAIN merged = 1 .. Len(merged)
      /\ \A p \in DOMAIN merged : /\ merged[p] \in Seq(DOMAIN es)
                                  /\ Len(merged[p]) \in Nat /\ DOMAIN merged[p] = 1 .. Len(merged[p])
    <2>1. \A p \in DOMAIN merged : merged[p] \in Seq(DOMAIN es)
        BY DEF Points
    <2> QED BY <2>1 DEF Points
<1>2. /\ alone => next = Append(merged, <<i>>)
      /\ ~alone => /\ Max(found) \in found /\ \A k \in found : Max(found) >= k
                   /\ next = [merged EXCEPT ![Max(found)] = Append(@, i)]
      /\ next \in Points(es)
    BY PlaceIs DEF Lone
<1>3. ASSUME alone PROVE Extends(merged, next, Len(merged) + 1, 1, i)
    <2>1. next = Append(merged, <<i>>)
        BY <1>2, <1>3
    <2>2. /\ DOMAIN next = 1 .. (Len(merged) + 1)
          /\ \A p \in 1 .. Len(merged) : next[p] = merged[p]
          /\ next[Len(merged) + 1] = <<i>>
        BY <1>1, <2>1 DEF Points
    <2>3. DOMAIN next = DOMAIN merged \cup {Len(merged) + 1} /\ Len(merged) + 1 \notin DOMAIN merged
        BY <1>1, <2>2
    <2>4. DOMAIN <<i>> = {1} /\ <<i>>[1] = i
        OBVIOUS
    <2> HIDE DEF next
    <2> QED BY <1>1, <2>2, <2>3, <2>4 DEF Extends
<1>4. ASSUME ~alone
      PROVE  \E t \in found : /\ \A p \in found : p <= t
                              /\ Extends(merged, next, t, Len(merged[t]) + 1, i)
    <2> DEFINE t == Max(found)
    <2>1. t \in found /\ (\A k \in found : t >= k) /\ next = [merged EXCEPT ![t] = Append(@, i)]
        BY <1>2, <1>4
    <2>2. found \subseteq DOMAIN merged
        BY DEF Candidates
    <2> HIDE DEF t, found
    <2>3. /\ DOMAIN next = DOMAIN merged
          /\ \A p \in DOMAIN merged : p # t => next[p] = merged[p]
          /\ next[t] = Append(merged[t], i)
        BY <1>1, <2>1, <2>2
    <2>4. /\ DOMAIN next[t] = 1 .. (Len(merged[t]) + 1)
          /\ \A a \in 1 .. Len(merged[t]) : next[t][a] = merged[t][a]
          /\ next[t][Len(merged[t]) + 1] = i
        BY <1>1, <2>1, <2>2, <2>3
    <2> HIDE DEF next
    <2>5. DOMAIN next = DOMAIN merged \cup {t} /\ t \in DOMAIN merged
        BY <2>1, <2>2, <2>3
    <2>6. \A a : a \in DOMAIN next[t] <=> a \in DOMAIN merged[t] \/ a = Len(merged[t]) + 1
        BY <1>1, <2>4, <2>5
    <2>7. Extends(merged, next, t, Len(merged[t]) + 1, i)
        BY <1>1, <2>3, <2>4, <2>5, <2>6 DEF Extends
    <2>8. \A p \in found : p <= t
        BY <1>1, <2>1, <2>2
    <2> QED BY <2>1, <2>7, <2>8
<1> QED BY <1>2, <1>3, <1>4


LEMMA PointsAre ==
    ASSUME NEW es \in Stored, NEW merged \in Points(es)
    PROVE  /\ Len(merged) \in Nat /\ DOMAIN merged = 1 .. Len(merged)
           /\ \A p \in DOMAIN merged : /\ merged[p] \in Seq(DOMAIN es)
                                       /\ Len(merged[p]) \in Nat
                                       /\ DOMAIN merged[p] = 1 .. Len(merged[p])
                                       /\ \A a \in DOMAIN merged[p] : merged[p][a] \in DOMAIN es
<1>1. \A p \in DOMAIN merged : merged[p] \in Seq(DOMAIN es)
    BY DEF Points
<1> QED BY <1>1 DEF Points

(***************************************************************************)
(* For the next event in order, what is open are the candidates.           *)
(***************************************************************************)
LEMMA OpenIsCandidates ==
    ASSUME NEW es \in Stored, NEW done \in SUBSET DOMAIN es, NEW merged, Merged(es, merged, done),
           NEW i \in DOMAIN es, \A n \in done : Earlier(es, n, i)
    PROVE  Candidates(es, merged, i) = Open(es, merged, i)
<1>1. merged \in Points(es)
    BY DEF Merged
<1>2. \A p \in DOMAIN merged : 1 \in DOMAIN merged[p]
                               /\ \A a \in DOMAIN merged[p] : Earlier(es, merged[p][a], i)
    BY DEF Merged
<1>3. \A p \in DOMAIN merged : Head(merged[p]) = merged[p][1]
    BY <1>1, <1>2, PointsAre
<1>4. ASSUME NEW p \in DOMAIN merged
      PROVE  (\A n \in Range(merged[p]) : es[n].provider # es[i].provider)
             <=> \A a \in DOMAIN merged[p] :
                    Earlier(es, merged[p][a], i) => es[merged[p][a]].provider # es[i].provider
    BY <1>2 DEF Range
<1> QED BY <1>2, <1>3, <1>4 DEF Candidates, Open

(***************************************************************************)
(* A later event closes nothing to an earlier one and opens nothing to it. *)
(***************************************************************************)
LEMMA OpenStays ==
    ASSUME NEW es \in Stored, NEW old \in Points(es), NEW new \in Points(es),
           NEW t, NEW c, NEW i \in DOMAIN es, Extends(old, new, t, c, i),
           \A p \in DOMAIN old : 1 \in DOMAIN old[p],
           NEW j \in DOMAIN es, ~Earlier(es, i, j)
    PROVE  Open(es, new, j) = Open(es, old, j)
<1>1. ASSUME NEW p \in DOMAIN old PROVE p \in Open(es, new, j) <=> p \in Open(es, old, j)
    <2>1. p \in DOMAIN new /\ new[p][1] = old[p][1]
        BY DEF Extends
    <2>2. \A a \in DOMAIN old[p] : a \in DOMAIN new[p] /\ new[p][a] = old[p][a]
        BY DEF Extends
    <2>3. \A a \in DOMAIN new[p] : a \in DOMAIN old[p] \/ new[p][a] = i
        BY DEF Extends
    <2> QED BY <2>1, <2>2, <2>3 DEF Open
<1>2. ASSUME NEW p \in DOMAIN new, p \notin DOMAIN old PROVE p \notin Open(es, new, j)
    <2>1. new[p][1] = i
        BY <1>2 DEF Extends
    <2> QED BY <2>1 DEF Open
<1>3. DOMAIN old \subseteq DOMAIN new
    BY DEF Extends
<1>4. Open(es, new, j) \subseteq DOMAIN new /\ Open(es, old, j) \subseteq DOMAIN old
    BY DEF Open
<1> QED BY <1>1, <1>2, <1>3, <1>4

LEMMA MergedStep ==
    ASSUME NEW es \in Stored, NEW done \in SUBSET DOMAIN es, NEW merged, Merged(es, merged, done),
           NEW i \in DOMAIN es, i \notin done, \A n \in done : Earlier(es, n, i)
    PROVE  Merged(es, Place(es, merged, i), done \cup {i})
<1> DEFINE new == Place(es, merged, i)
<1>1. merged \in Points(es) /\ new \in Points(es)
    BY Extended DEF Merged
<1>2. PICK t, c : /\ Extends(merged, new, t, c, i)
                  /\ c = 1 => Lone(es[i]) \/ Open(es, merged, i) = {}
                  /\ c # 1 => /\ ~Lone(es[i]) /\ t \in Open(es, merged, i)
                              /\ \A q \in Open(es, merged, i) : q <= t
    <2>1. Candidates(es, merged, i) = Open(es, merged, i)
        BY OpenIsCandidates
    <2>2. CASE Lone(es[i]) \/ Open(es, merged, i) = {}
        BY <1>1, <2>1, <2>2, Extended
    <2>3. CASE ~(Lone(es[i]) \/ Open(es, merged, i) = {})
        <3>1. PICK u \in Open(es, merged, i) :
                 /\ \A p \in Open(es, merged, i) : p <= u
                 /\ Extends(merged, new, u, Len(merged[u]) + 1, i)
            BY <1>1, <2>1, <2>3, Extended
        <3>2. Len(merged[u]) + 1 # 1
            <4>1. u \in DOMAIN merged
                BY <3>1 DEF Open
            <4>2. 1 \in 1 .. Len(merged[u]) /\ Len(merged[u]) \in Nat
                BY <1>1, <4>1, PointsAre DEF Merged
            <4> QED BY <4>2
        <3> QED BY <2>3, <3>1, <3>2
    <2> QED BY <2>2, <2>3
<1> HIDE DEF new
<1>3. \A p \in DOMAIN merged : 1 \in DOMAIN merged[p]
    BY DEF Merged
<1>4. \A n \in done : ~Earlier(es, i, n) /\ n # i
    BY Ordered
<1>5. ~Earlier(es, i, i)
    BY Ordered
<1>6. \A j \in done \cup {i} : Open(es, new, j) = Open(es, merged, j)
    BY <1>1, <1>2, <1>3, <1>4, <1>5, OpenStays
<1>7. ASSUME NEW p \in DOMAIN new PROVE 1 \in DOMAIN new[p]
    BY <1>2, <1>3, <1>7 DEF Extends
<1>8. ASSUME NEW p \in DOMAIN new, NEW a \in DOMAIN new[p]
      PROVE  /\ new[p][a] \in done \cup {i}
             /\ Joined(es, new, p, a, new[p][a])
             /\ \A b \in DOMAIN new[p] : a < b => Earlier(es, new[p][a], new[p][b])
    <2>1. CASE p \in DOMAIN merged /\ a \in DOMAIN merged[p]
        <3>1. new[p][a] = merged[p][a] /\ merged[p][a] \in done
              /\ Joined(es, merged, p, a, merged[p][a])
            BY <1>2, <2>1 DEF Extends, Merged
        <3>2. Joined(es, new, p, a, new[p][a])
            BY <1>6, <3>1 DEF Joined
        <3>3. ASSUME NEW b \in DOMAIN new[p], a < b PROVE Earlier(es, new[p][a], new[p][b])
            <4>1. CASE b \in DOMAIN merged[p]
                BY <1>2, <2>1, <3>1, <3>3, <4>1 DEF Extends, Merged
            <4>2. CASE b \notin DOMAIN merged[p]
                <5>1. new[p][b] = i
                    BY <1>2, <4>2 DEF Extends
                <5> QED BY <3>1, <5>1
            <4> QED BY <4>1, <4>2
        <3> QED BY <3>1, <3>2, <3>3
    <2>2. CASE ~(p \in DOMAIN merged /\ a \in DOMAIN merged[p])
        <3>1. p = t /\ a = c /\ new[p][a] = i
            BY <1>2, <2>2 DEF Extends
        <3>2. Joined(es, new, p, a, new[p][a])
            BY <1>2, <1>6, <3>1 DEF Joined
        <3>3. \A b \in DOMAIN new[p] : ~(a < b)
            <4>1. CASE t \in DOMAIN merged
                <5>1. Len(merged[t]) \in Nat /\ DOMAIN merged[t] = 1 .. Len(merged[t])
                    BY <1>1, <4>1, PointsAre
                <5>2. c = Len(merged[t]) + 1
                    BY <1>2, <4>1 DEF Extends
                <5>3. \A b \in DOMAIN new[p] : b \in DOMAIN merged[t] \/ b = c
                    BY <1>2, <3>1, <4>1 DEF Extends
                <5> QED BY <3>1, <5>1, <5>2, <5>3
            <4>2. CASE t \notin DOMAIN merged
                <5>1. \A b \in DOMAIN new[p] : b = c
                    BY <1>2, <3>1, <4>2 DEF Extends
                <5>2. c = 1
                    BY <1>2, <4>2 DEF Extends
                <5> QED BY <3>1, <5>1, <5>2
            <4> QED BY <4>1, <4>2
        <3> QED BY <3>1, <3>2, <3>3
    <2> QED BY <2>1, <2>2
<1>9. ASSUME NEW j \in done \cup {i}
      PROVE  \E p \in DOMAIN new : \E a \in DOMAIN new[p] : new[p][a] = j
    <2>1. CASE j \in done
        <3>1. PICK p \in DOMAIN merged : \E a \in DOMAIN merged[p] : merged[p][a] = j
            BY <2>1 DEF Merged
        <3> QED BY <1>2, <3>1 DEF Extends
    <2>2. CASE j = i
        BY <1>2, <2>2 DEF Extends
    <2> QED BY <2>1, <2>2
<1>10. ASSUME NEW p \in DOMAIN new, NEW q \in DOMAIN new,
              NEW a \in DOMAIN new[p], NEW b \in DOMAIN new[q], new[p][a] = new[q][b]
       PROVE  p = q
    <2>1. \A r \in DOMAIN new : \A d \in DOMAIN new[r] :
             \/ r \in DOMAIN merged /\ d \in DOMAIN merged[r] /\ new[r][d] = merged[r][d]
                /\ merged[r][d] \in done
             \/ r = t /\ new[r][d] = i
        BY <1>2 DEF Extends, Merged
    <2>2. CASE new[p][a] = i
        BY <1>10, <2>1, <2>2
    <2>3. CASE new[p][a] # i
        <3>1. /\ p \in DOMAIN merged /\ a \in DOMAIN merged[p] /\ new[p][a] = merged[p][a]
              /\ q \in DOMAIN merged /\ b \in DOMAIN merged[q] /\ new[q][b] = merged[q][b]
            BY <1>10, <2>1, <2>3
        <3>2. merged[p][a] = merged[q][b] => p = q
            BY <3>1 DEF Merged
        <3> QED BY <1>10, <3>1, <3>2
    <2> QED BY <2>2, <2>3
<1>11. ASSUME NEW p \in DOMAIN new, NEW q \in DOMAIN new, p < q
       PROVE  Earlier(es, new[p][1], new[q][1])
    <2>1. p \in DOMAIN merged
        <3>1. Len(merged) \in Nat /\ DOMAIN merged = 1 .. Len(merged)
            BY <1>1, PointsAre
        <3>2. \A r \in DOMAIN new : r \in DOMAIN merged \/ r = Len(merged) + 1
            BY <1>2 DEF Extends
        <3> QED BY <1>11, <3>1, <3>2
    <2>2. 1 \in DOMAIN merged[p] /\ new[p][1] = merged[p][1] /\ merged[p][1] \in done
        BY <1>2, <1>3, <2>1 DEF Extends, Merged
    <2>3. CASE q \in DOMAIN merged
        <3>1. 1 \in DOMAIN merged[q] /\ new[q][1] = merged[q][1]
            BY <1>2, <1>3, <2>3 DEF Extends
        <3> QED BY <1>11, <2>1, <2>2, <2>3, <3>1 DEF Merged
    <2>4. CASE q \notin DOMAIN merged
        <3>1. new[q][1] = i
            BY <1>2, <2>4 DEF Extends
        <3> QED BY <2>2, <3>1
    <2> QED BY <2>3, <2>4
<1>12. Merged(es, new, done \cup {i})
    BY <1>1, <1>7, <1>8, <1>9, <1>10, <1>11 DEF Merged
<1> QED BY <1>12 DEF new

(***************************************************************************)
(* So much holds of the journey.                                           *)
(***************************************************************************)
LEMMA JourneyMerged ==
    ASSUME NEW es \in Stored
    PROVE  Merged(es, MergeCorroborating(es), DOMAIN es)
<1> DEFINE order == InOrder(es)
           n == Len(es)
           placed(k) == {order[a] : a \in 1 .. k}
<1>1. n \in Nat /\ DOMAIN es = 1 .. n
    BY DEF Stored
<1>2. /\ order \in [1 .. n -> 1 .. n] /\ (\A b \in 1 .. n : \E a \in 1 .. n : order[a] = b)
      /\ \A a, b \in 1 .. n : a < b => Earlier(es, order[a], order[b])
    <2>1. Sorted(es, order, n)
        BY InOrderIs
    <2> QED BY <2>1 DEF Sorted, Bijection, Surjection
<1>3. PICK g : /\ g[0] = << >> /\ g[n] = MergeCorroborating(es)
               /\ \A k \in Nat : k < n => g[k + 1] = Place(es, g[k], order[k + 1])
    BY MergeSteps
<1> HIDE DEF order, n
<1> DEFINE G == {k \in Nat : k <= n => Merged(es, g[k], placed(k))}
<1>4. 0 \in G
    <2>1. placed(0) = {}
        OBVIOUS
    <2>2. << >> \in Points(es) /\ DOMAIN << >> = {}
        BY DEF Points
    <2>3. Merged(es, << >>, {})
        BY <2>2 DEF Merged
    <2> QED BY <1>3, <2>1, <2>3
<1>5. ASSUME NEW k \in Nat, k \in G PROVE k + 1 \in G
    <2> SUFFICES ASSUME k + 1 <= n PROVE Merged(es, g[k + 1], placed(k + 1))
        OBVIOUS
    <2> DEFINE i == order[k + 1]
    <2>1. k + 1 \in 1 .. n /\ k < n /\ \A a \in 1 .. k : a \in 1 .. n /\ a < k + 1
        BY <1>1
    <2>2. i \in DOMAIN es /\ \A a \in 1 .. k : Earlier(es, order[a], i) /\ order[a] \in DOMAIN es
        BY <1>1, <1>2, <2>1
    <2>3. placed(k) \in SUBSET DOMAIN es /\ \A j \in placed(k) : Earlier(es, j, i)
        BY <2>2
    <2>4. i \notin placed(k)
        BY <2>2, <2>3, Ordered
    <2>5. placed(k + 1) = placed(k) \cup {i}
        OBVIOUS
    <2>6. Merged(es, g[k], placed(k))
        BY <1>1, <1>5, <2>1
    <2>7. g[k + 1] = Place(es, g[k], i)
        BY <1>3, <2>1
    <2> HIDE DEF i, placed
    <2> QED BY <2>2, <2>3, <2>4, <2>5, <2>6, <2>7, MergedStep
<1> HIDE DEF G
<1>6. n \in G
    BY <1>1, <1>4, <1>5, Induction
<1>7. placed(n) = DOMAIN es
    BY <1>1, <1>2
<1>8. Merged(es, g[n], placed(n))
    BY <1>1, <1>6 DEF G
<1> QED BY <1>3, <1>7, <1>8


(***************************************************************************)
(* Every event is a point or stands behind one that says the same of the   *)
(* same place, not later and at most the window earlier.                   *)
(***************************************************************************)
Speaks(es, h, i) ==
    /\ Earlier(es, h, i) /\ Dated(es[h]) /\ Dated(es[i])
    /\ es[h].type = es[i].type /\ es[h].kind = es[i].kind
    /\ SamePlaceExactly(es[h], es[i])
    /\ es[i].at - es[h].at <= Window

LEMMA HeadsArePoints ==
    ASSUME NEW es \in Stored
    PROVE  LET merged == MergeCorroborating(es)
           IN  CarrierPoints(es) = {merged[p][1] : p \in DOMAIN merged}
<1> DEFINE merged == MergeCorroborating(es)
<1>1. Merged(es, merged, DOMAIN es)
    BY JourneyMerged
<1> HIDE DEF merged
<1>2. \A p \in DOMAIN merged : merged[p] \in Seq(DOMAIN es) /\ 1 \in DOMAIN merged[p]
    BY <1>1, PointsAre DEF Merged
<1>3. \A p \in DOMAIN merged : Head(merged[p]) = merged[p][1]
    BY <1>2
<1>4. Range(merged) = {merged[p] : p \in DOMAIN merged}
    BY DEF Range
<1>5. {Head(p) : p \in Range(merged)} = {merged[p][1] : p \in DOMAIN merged}
    BY <1>3, <1>4
<1> QED BY <1>5 DEF CarrierPoints, merged

LEMMA Represented ==
    ASSUME NEW es \in Stored
    PROVE  /\ CarrierPoints(es) \subseteq DOMAIN es
           /\ \A i \in DOMAIN es : \E h \in CarrierPoints(es) : h = i \/ Speaks(es, h, i)
<1> DEFINE merged == MergeCorroborating(es)
<1>1. Merged(es, merged, DOMAIN es)
    BY JourneyMerged
<1>2. CarrierPoints(es) = {merged[p][1] : p \in DOMAIN merged}
    BY HeadsArePoints
<1> HIDE DEF merged
<1>3. CarrierPoints(es) \subseteq DOMAIN es
    BY <1>1, <1>2 DEF Merged
<1>4. ASSUME NEW i \in DOMAIN es
      PROVE  \E h \in CarrierPoints(es) : h = i \/ Speaks(es, h, i)
    <2>1. PICK p \in DOMAIN merged : \E a \in DOMAIN merged[p] : merged[p][a] = i
        BY <1>1 DEF Merged
    <2>2. PICK a \in DOMAIN merged[p] : merged[p][a] = i
        BY <2>1
    <2>3. Joined(es, merged, p, a, i)
        BY <1>1, <2>2 DEF Merged
    <2>4. merged[p][1] \in CarrierPoints(es)
        BY <1>2
    <2>5. CASE a = 1
        BY <2>2, <2>4, <2>5
    <2>6. CASE a # 1
        <3>1. p \in Open(es, merged, i) /\ ~Lone(es[i])
            BY <2>3, <2>6 DEF Joined
        <3>2. Speaks(es, merged[p][1], i)
            BY <3>1 DEF Open, Speaks, Lone
        <3> QED BY <2>4, <3>2
    <2> QED BY <2>5, <2>6
<1> QED BY <1>3, <1>4

(***************************************************************************)
(* What the carriers' observations come to in the journey.                 *)
(***************************************************************************)
Seen(es) == {i \in CarrierPoints(es) : Actual(es[i]) /\ Dated(es[i])}

LEMMA SeenIs ==
    ASSUME NEW es \in Stored
    PROVE  /\ Seen(es) \subseteq Observations(es) /\ Observations(es) \subseteq DOMAIN es
           /\ \A i \in Observations(es) : \E h \in Seen(es) :
                 /\ h = i \/ SamePlaceExactly(es[h], es[i])
                 /\ es[h].at <= es[i].at /\ es[i].at - es[h].at <= Window
           /\ LatestObserved(es) = AnyOf(Newest(es, {i \in Seen(es) : HasAPlace(es[i])}),
                                         Newest(es, Seen(es)))
<1>1. Seen(es) \subseteq Observations(es) /\ Observations(es) \subseteq DOMAIN es
    BY Represented DEF Seen, Observations
<1>2. ASSUME NEW i \in Observations(es)
      PROVE  \E h \in Seen(es) : /\ h = i \/ SamePlaceExactly(es[h], es[i])
                                 /\ es[h].at <= es[i].at /\ es[i].at - es[h].at <= Window
    <2>1. i \in DOMAIN es /\ Actual(es[i]) /\ Dated(es[i])
        BY DEF Observations
    <2>2. PICK h \in CarrierPoints(es) : h = i \/ Speaks(es, h, i)
        BY <2>1, Represented
    <2>3. h \in DOMAIN es /\ es[h].at \in Nat /\ es[i].at \in Nat /\ Window \in Nat
        BY <2>1, Represented, Ordered, ReportsAssumption
    <2>4. CASE h = i
        BY <2>1, <2>3, <2>4 DEF Seen
    <2>5. CASE Speaks(es, h, i)
        <3>1. es[h].at <= es[i].at
            BY <2>1, <2>3, <2>5, Ordered DEF Speaks
        <3>2. h \in Seen(es)
            BY <2>1, <2>5 DEF Seen, Speaks, Actual
        <3> QED BY <2>5, <3>1, <3>2 DEF Speaks
    <2> QED BY <2>2, <2>4, <2>5
<1>3. LatestObserved(es) = AnyOf(Newest(es, {i \in Seen(es) : HasAPlace(es[i])}),
                                 Newest(es, Seen(es)))
    BY DEF LatestObserved, Seen
<1> QED BY <1>1, <1>2, <1>3

(***************************************************************************)
(* Events of the same place have one.                                      *)
(***************************************************************************)
LEMMA SamePlacesAre ==
    ASSUME NEW e, NEW f, SamePlaceExactly(e, f)
    PROVE  HasAPlace(e) /\ HasAPlace(f)
BY DEF SamePlaceExactly, Coded, HasAPlace

(***************************************************************************)
(* Of two sets of events the newest with a place is preferred.             *)
(***************************************************************************)
LEMMA PreferPlace ==
    ASSUME NEW es \in Stored, NEW S \in SUBSET DOMAIN es
    PROVE  LET x == AnyOf(Newest(es, {i \in S : HasAPlace(es[i])}), Newest(es, S))
           IN  /\ S = {} <=> x = NoEvent
               /\ S # {} => x \in S
               /\ HasAPlace(es[x]) \/ \A i \in S : ~HasAPlace(es[i])
               /\ \A i \in S : HasAPlace(es[i]) => es[i].at <= es[x].at
               /\ (\A i \in S : ~HasAPlace(es[i])) => \A i \in S : es[i].at <= es[x].at
<1> DEFINE T == {i \in S : HasAPlace(es[i])}
           x == AnyOf(Newest(es, T), Newest(es, S))
<1>1. NoEvent \notin DOMAIN es /\ \A i \in DOMAIN es : es[i].at \in Nat
    BY Ordered DEF NoEvent
<1>2. T \in SUBSET DOMAIN es /\ T \subseteq S
    OBVIOUS
<1>3. \A U \in SUBSET DOMAIN es : U # {} =>
         /\ Newest(es, U) \in U /\ Newest(es, U) # NoEvent
         /\ \A i \in U : es[i].at <= es[Newest(es, U)].at
    <2> SUFFICES ASSUME NEW U \in SUBSET DOMAIN es, U # {}
                 PROVE  /\ Newest(es, U) \in U /\ Newest(es, U) # NoEvent
                        /\ \A i \in U : es[i].at <= es[Newest(es, U)].at
        OBVIOUS
    <2>1. Newest(es, U) \in U /\ \A j \in U \ {Newest(es, U)} : Earlier(es, j, Newest(es, U))
        BY NewestIs
    <2>2. ASSUME NEW i \in U PROVE es[i].at <= es[Newest(es, U)].at
        <3>1. CASE i = Newest(es, U)
            BY <1>1, <3>1
        <3>2. CASE i # Newest(es, U)
            BY <2>1, <3>2, Ordered
        <3> QED BY <3>1, <3>2
    <2> QED BY <1>1, <2>1, <2>2
<1>4. Newest(es, {}) = NoEvent
    BY DEF Newest
<1>5. CASE T # {}
    <2>1. x = Newest(es, T) /\ x \in T /\ \A i \in T : es[i].at <= es[x].at
        BY <1>2, <1>3, <1>5 DEF AnyOf
    <2> HIDE DEF x
    <2> QED BY <1>1, <2>1 DEF x
<1>6. CASE T = {} /\ S # {}
    <2>1. x = Newest(es, S) /\ x \in S /\ (\A i \in S : es[i].at <= es[x].at) /\ x # NoEvent
        BY <1>3, <1>4, <1>6 DEF AnyOf
    <2>2. \A i \in S : ~HasAPlace(es[i])
        BY <1>6
    <2> HIDE DEF x
    <2> QED BY <1>6, <2>1, <2>2 DEF x
<1>7. CASE S = {}
    BY <1>4, <1>7 DEF AnyOf
<1> QED BY <1>5, <1>6, <1>7


LEMMA LastPosition ==
    ASSUME NEW es \in Stored, Observations(es) # {}
    PROVE  /\ LatestContainerPosition(es) \in Observations(es)
           /\ LatestContainerPosition(es) # NoEvent
           /\ LatestContainerPosition(es)
                = AnyOf(Newest(es, {i \in Observations(es) : HasAPlace(es[i])}),
                        Newest(es, Observations(es)))
<1> DEFINE x == AnyOf(Newest(es, {i \in Observations(es) : HasAPlace(es[i])}),
                      Newest(es, Observations(es)))
<1>1. Observations(es) \in SUBSET DOMAIN es
    BY DEF Observations
<1>2. x \in Observations(es) /\ x # NoEvent
    BY <1>1, PreferPlace, Ordered DEF NoEvent
<1>3. LatestContainerPosition(es) = x
    BY <1>2 DEF LatestContainerPosition, AnyOf
<1> QED BY <1>2, <1>3

LEMMA WorkspacesAgree ==
    ASSUME NEW es \in Stored
    PROVE  /\ Workspace(es).position = BulkWorkspace(es).position
           /\ Workspace(es).meaningful = BulkWorkspace(es).meaningful
           /\ Workspace(es).eta = BulkWorkspace(es).eta
           /\ (\A i \in DOMAIN es : Dated(es[i])) => Workspace(es) = BulkWorkspace(es)
<1> DEFINE actual == {i \in DOMAIN es : Actual(es[i])}
           arrivals == {i \in DOMAIN es : es[i].type = "VESSEL_ARRIVED"}
           arrived == LatestPerContainer(es, actual \cap arrivals) # NoEvent
<1>1. {i \in Observations(es) : HasAPlace(es[i])}
        = {i \in {j \in actual : HasAPlace(es[j])} : Dated(es[i])}
    BY DEF Observations
<1>2. Observations(es) = {i \in actual : Dated(es[i])}
    BY DEF Observations
<1>3. {i \in Observations(es) : es[i].type # "UNKNOWN"}
        = {i \in {j \in actual : es[j].type # "UNKNOWN"} : Dated(es[i])}
    BY DEF Observations
<1>4. ArrivalForecasts(es) = {i \in {j \in arrivals : Forecast(es[j])} : Dated(es[i])}
    BY DEF ArrivalForecasts
<1>5. (\E i \in Observations(es) : es[i].type = "VESSEL_ARRIVED") <=> arrived
    <2> DEFINE S == {i \in actual \cap arrivals : Dated(es[i])}
    <2>1. (\E i \in Observations(es) : es[i].type = "VESSEL_ARRIVED") <=> S # {}
        BY DEF Observations
    <2>2. S \in SUBSET DOMAIN es
        OBVIOUS
    <2> HIDE DEF S
    <2>3. S # {} <=> Newest(es, S) # NoEvent
        BY <2>2, NewestIs, Ordered DEF NoEvent
    <2> QED BY <2>1, <2>3 DEF LatestPerContainer, S
<1>6. Workspace(es).position = BulkWorkspace(es).position
    BY <1>1, <1>2 DEF Workspace, BulkWorkspace, LatestContainerPosition, LatestPerContainer
<1>7. Workspace(es).meaningful = BulkWorkspace(es).meaningful
    BY <1>3 DEF Workspace, BulkWorkspace, Meaningful, LatestPerContainer
<1>8. Workspace(es).eta = BulkWorkspace(es).eta
    BY <1>4, <1>5 DEF Workspace, BulkWorkspace, TrackingEta, LatestPerContainer
<1>9. ASSUME \A i \in DOMAIN es : Dated(es[i]) PROVE Workspace(es) = BulkWorkspace(es)
    <2>1. {i \in DOMAIN es : Dated(es[i])} = DOMAIN es /\ {i \in actual : Dated(es[i])} = actual
        BY <1>9
    <2>2. Workspace(es).latest = BulkWorkspace(es).latest
        BY <2>1 DEF Workspace, BulkWorkspace, LatestPerContainer
    <2>3. Workspace(es).latestActual = BulkWorkspace(es).latestActual
        BY <2>1 DEF Workspace, BulkWorkspace, LatestPerContainer
    <2>4. \E a, b, c, d, e : Workspace(es)
             = [latest |-> a, latestActual |-> b, meaningful |-> c, eta |-> d, position |-> e]
        BY Zenon DEF Workspace
    <2>5. \E a, b, c, d, e : BulkWorkspace(es)
             = [latest |-> a, latestActual |-> b, meaningful |-> c, eta |-> d, position |-> e]
        BY Zenon DEF BulkWorkspace
    <2> QED BY <1>6, <1>7, <1>8, <2>2, <2>3, <2>4, <2>5
<1> QED BY <1>6, <1>7, <1>8, <1>9

LEMMA ReadersOfStored == events \in Stored /\ projected.place \in Places => ReadersAgree
<1> SUFFICES ASSUME events \in Stored, projected.place \in Places PROVE ReadersAgree
    OBVIOUS
<1> DEFINE es == events
           last == LatestContainerPosition(es)
           seen == LatestObserved(es)
           placed == CurrentPosition(es, projected)
<1>1. Workspace(es).position = last /\ Workspace(es).eta = TrackingEta(es)
    BY DEF Workspace
<1>2. \A i \in DOMAIN es : es[i].at \in Nat
    BY Ordered
<1>3. Observations(es) = {} => Seen(es) = {}
    BY SeenIs
<1>4. Observations(es) # {} => Seen(es) # {}
    BY SeenIs
<1>5. Seen(es) \in SUBSET DOMAIN es /\ Observations(es) \in SUBSET DOMAIN es
    BY SeenIs
<1>6. seen # NoEvent <=> Observations(es) # {}
    BY <1>3, <1>4, <1>5, SeenIs, PreferPlace
<1>7. ASSUME seen # NoEvent
      PROVE  /\ es[last].at - es[seen].at \in 0 .. Window
             /\ HasAPlace(es[last])
                /\ (\A i \in Elsewhere(last) : es[i].at < es[last].at - Window)
                => seen = last \/ SamePlaceExactly(es[seen], es[last])
             /\ projected.place.row = None /\ es[last].place.row # None => placed.event = last
             /\ HasCoordinates(es[last]) /\ CurrentMarker(es, projected) = NoMarker
                => placed.place.row \in Locations \ Charted
    <2>1. /\ seen \in Seen(es) /\ seen \in Observations(es)
          /\ HasAPlace(es[seen]) \/ \A i \in Seen(es) : ~HasAPlace(es[i])
          /\ \A i \in Seen(es) : HasAPlace(es[i]) => es[i].at <= es[seen].at
          /\ (\A i \in Seen(es) : ~HasAPlace(es[i])) => \A i \in Seen(es) : es[i].at <= es[seen].at
        BY <1>4, <1>5, <1>6, <1>7, SeenIs, PreferPlace
    <2>2. /\ last \in Observations(es) /\ last # NoEvent
          /\ HasAPlace(es[last]) \/ \A i \in Observations(es) : ~HasAPlace(es[i])
          /\ \A i \in Observations(es) : HasAPlace(es[i]) => es[i].at <= es[last].at
          /\ (\A i \in Observations(es) : ~HasAPlace(es[i])) =>
                \A i \in Observations(es) : es[i].at <= es[last].at
        BY <1>5, <1>6, <1>7, LastPosition, PreferPlace
    <2>3. PICK h \in Seen(es) : /\ h = last \/ SamePlaceExactly(es[h], es[last])
                                /\ es[h].at <= es[last].at /\ es[last].at - es[h].at <= Window
        BY <2>2, SeenIs
    <2>4. /\ es[h].at \in Nat /\ es[last].at \in Nat /\ es[seen].at \in Nat /\ Window \in Nat
          /\ h \in Observations(es)
        BY <1>2, <1>5, <2>1, <2>2, <2>3, SeenIs, ReportsAssumption
    <2> HIDE DEF last, seen, placed
    <2>5. es[h].at <= es[seen].at /\ es[seen].at <= es[last].at
        <3>1. CASE HasAPlace(es[last])
            <4>1. HasAPlace(es[h]) /\ HasAPlace(es[seen])
                BY <2>1, <2>3, <3>1, SamePlacesAre
            <4> QED BY <2>1, <2>2, <2>3, <4>1
        <3>2. CASE ~HasAPlace(es[last])
            <4>1. \A i \in Observations(es) : ~HasAPlace(es[i])
                BY <2>2, <3>2
            <4>2. \A i \in Seen(es) : ~HasAPlace(es[i])
                BY <4>1, SeenIs
            <4> QED BY <2>1, <2>2, <2>3, <4>1, <4>2
        <3> QED BY <3>1, <3>2
    <2>6. es[last].at - es[seen].at \in 0 .. Window
        BY <2>3, <2>4, <2>5
    <2>7. ASSUME HasAPlace(es[last]),
                 \A i \in Elsewhere(last) : es[i].at < es[last].at - Window,
                 seen # last
          PROVE  SamePlaceExactly(es[seen], es[last])
        <3>1. HasAPlace(es[h])
            BY <2>3, <2>7, SamePlacesAre
        <3>2. HasAPlace(es[seen])
            BY <2>1, <2>3, <3>1
        <3>3. ~SamePlaceExactly(es[seen], es[last]) => seen \in Elsewhere(last)
            BY <2>1, <2>7, <3>2 DEF Elsewhere
        <3>4. ~(es[seen].at < es[last].at - Window)
            BY <2>4, <2>6
        <3> QED BY <2>7, <3>3, <3>4
    <2>8. BulkWorkspace(es).position = last
        BY WorkspacesAgree, <1>1
    <2>9. \A i \in DOMAIN es : es[i].place.row # None => HasAPlace(es[i])
        BY Ordered, ReportsAssumption DEF HasAPlace
    <2>10. ASSUME projected.place.row = None, es[last].place.row # None PROVE placed.event = last
        <3> DEFINE R == {i \in Observations(es) : es[i].place.row # None}
                   T == {i \in Observations(es) : HasAPlace(es[i])}
        <3>1. R \subseteq T /\ T \in SUBSET DOMAIN es /\ last \in R
            BY <1>5, <2>2, <2>9, <2>10
        <3>2. last = Newest(es, T)
            <4>1. last = AnyOf(Newest(es, T), Newest(es, Observations(es)))
                BY <1>6, <1>7, LastPosition DEF last
            <4> HIDE DEF T, R
            <4>2. Newest(es, T) \in T /\ Newest(es, T) # NoEvent
                BY <3>1, NewestIs, Ordered DEF NoEvent
            <4> QED BY <4>1, <4>2 DEF AnyOf
        <3> HIDE DEF R, T
        <3>3. \A j \in R \ {last} : Earlier(es, j, last)
            BY <3>1, <3>2, NewestIs
        <3>4. last = Newest(es, R)
            BY <3>1, <3>3, NewestIs
        <3>5. CanonicalObservation(es) = last
            BY <3>4 DEF CanonicalObservation, R
        <3> QED BY <2>2, <2>10, <3>5 DEF placed, CurrentPosition
    <2>11. ASSUME HasCoordinates(es[last]), CurrentMarker(es, projected) = NoMarker
           PROVE  placed.place.row \in Locations \ Charted
        <3>1. DrawableReport(es[last])
            BY <2>2, <2>11 DEF DrawableReport, Forecast, Observations, Actual
        <3>2. placed.class # "none"
            BY <2>2, <2>8, <3>1 DEF placed, CurrentPosition
        <3>3. ~Plottable(placed)
            BY <2>11, <3>2 DEF CurrentMarker, NoMarker, placed
        <3>4. placed.place.row # None => placed.place.row \in Locations
            <4> USE <2>2, <2>8, <3>1
            <4>1. projected.place \in Places /\ \A i \in DOMAIN es : es[i].place \in Places
                BY Ordered, ReportsAssumption
            <4>2. CanonicalObservation(es) # NoEvent => CanonicalObservation(es) \in DOMAIN es
                <5> DEFINE R == {i \in Observations(es) : es[i].place.row # None}
                <5>1. R \in SUBSET DOMAIN es /\ CanonicalObservation(es) = Newest(es, R)
                    BY <1>5 DEF CanonicalObservation
                <5> HIDE DEF R
                <5> QED BY <5>1, NewestIs
            <4>3. \/ placed.place = projected.place
                  \/ CanonicalObservation(es) # NoEvent /\ placed.place = es[CanonicalObservation(es)].place
                  \/ placed.place = [es[last].place EXCEPT !.row = None]
                BY DEF placed, CurrentPosition
            <4>4. last \in DOMAIN es
                BY <1>5
            <4> QED BY <4>1, <4>2, <4>3, <4>4 DEF Places
        <3>5. placed.place.row # None
            <4>1. CASE projected.place.row # None
                BY <4>1 DEF placed, CurrentPosition
            <4>2. CASE projected.place.row = None /\ CanonicalObservation(es) # NoEvent
                <5> DEFINE R == {i \in Observations(es) : es[i].place.row # None}
                <5>1. R \in SUBSET DOMAIN es /\ CanonicalObservation(es) = Newest(es, R)
                    BY <1>5 DEF CanonicalObservation
                <5> HIDE DEF R
                <5>2. CanonicalObservation(es) \in R
                    BY <4>2, <5>1, NewestIs
                <5> QED BY <4>2, <5>2 DEF placed, CurrentPosition, R
            <4>3. CASE projected.place.row = None /\ CanonicalObservation(es) = NoEvent
                <5>1. placed.place = [es[last].place EXCEPT !.row = None]
                    BY <2>2, <2>8, <3>1, <4>3 DEF placed, CurrentPosition
                <5>2. es[last].place \in Places /\ es[last].place.fix
                    BY <1>5, <2>2, <2>11, Ordered, ReportsAssumption DEF HasCoordinates
                <5>3. placed.place.row = None /\ placed.place.fix
                    BY <5>1, <5>2 DEF Places
                <5> QED BY <3>3, <5>3 DEF Plottable
            <4> QED BY <4>1, <4>2, <4>3
        <3> QED BY <3>3, <3>4, <3>5 DEF Plottable
    <2> QED BY <2>6, <2>7, <2>10, <2>11
<1>8. ASSUME TrackingEta(es) # NoEvent, HasJourneyArrived(es)
      PROVE  \E i \in DOMAIN es : ~Dated(es[i])
    <2>1. PICK i \in DOMAIN es : Actual(es[i]) /\ es[i].type = "VESSEL_ARRIVED"
        BY <1>8 DEF HasJourneyArrived
    <2>2. i \notin Observations(es)
        BY <1>8, <2>1 DEF TrackingEta
    <2> QED BY <2>1, <2>2 DEF Observations
<1> HIDE DEF last, seen
<1>9. /\ Workspace(es).position = BulkWorkspace(es).position
      /\ Workspace(es).meaningful = BulkWorkspace(es).meaningful
      /\ Workspace(es).eta = BulkWorkspace(es).eta
      /\ (\A i \in DOMAIN es : Dated(es[i])) => Workspace(es) = BulkWorkspace(es)
    BY WorkspacesAgree
<1> QED BY <1>1, <1>6, <1>7, <1>8, <1>9 DEF ReadersAgree, seen

(***************************************************************************)
(* An observation where we saw the box ends the gap.                       *)
(***************************************************************************)
LEMMA NoGapAfter ==
    ASSUME NEW es \in Stored, NEW r,
           NEW n \in Observations(es), PlacesMatch(es[n], r), HasAPlace(es[n]),
           \A i \in Observations(es) : HasAPlace(es[i]) /\ ~PlacesMatch(es[i], r)
                                       => es[i].at < es[n].at - Window
    PROVE  ~HasGap(es, r)
<1> SUFFICES ASSUME HasGap(es, r) PROVE FALSE
    OBVIOUS
<1> DEFINE origin == LatestObserved(es)
<1>1. ~PlacesMatch(es[origin], r)
    BY DEF HasGap
<1>2. PICK h \in Seen(es) : /\ h = n \/ SamePlaceExactly(es[h], es[n])
                            /\ es[h].at <= es[n].at /\ es[n].at - es[h].at <= Window
    BY SeenIs
<1>3. Seen(es) \in SUBSET DOMAIN es /\ Seen(es) # {}
    BY <1>2, SeenIs
<1>4. /\ origin \in Seen(es) /\ HasAPlace(es[origin])
      /\ es[h].at <= es[origin].at
    <2>1. HasAPlace(es[h])
        BY <1>2, SamePlacesAre
    <2> DEFINE S == Seen(es)
    <2>2. S \in SUBSET DOMAIN es /\ S # {} /\ h \in S
          /\ origin = AnyOf(Newest(es, {i \in S : HasAPlace(es[i])}), Newest(es, S))
        BY <1>2, <1>3, SeenIs
    <2> HIDE DEF S, origin
    <2>3. origin \in S /\ HasAPlace(es[origin]) /\ es[h].at <= es[origin].at
        BY <2>1, <2>2, PreferPlace
    <2> QED BY <2>3 DEF S
<1>5. /\ es[h].at \in Nat /\ es[n].at \in Nat /\ es[origin].at \in Nat /\ Window \in Nat
    BY <1>2, <1>3, <1>4, SeenIs, Ordered, ReportsAssumption
<1> HIDE DEF origin
<1>6. es[origin].at < es[n].at - Window
    BY <1>1, <1>4, SeenIs
<1> QED BY <1>2, <1>4, <1>5, <1>6


(***************************************************************************)
(* The event each event is shown by, and the events it could be shown by:  *)
(* said of the events alone, whatever is stored beside them.               *)
(***************************************************************************)
Lead(es) ==
    LET merged == MergeCorroborating(es)
    IN  [i \in DOMAIN es |->
            merged[CHOOSE p \in DOMAIN merged : \E a \in DOMAIN merged[p] : merged[p][a] = i][1]]

Leaders(es, lead, i) ==
    {h \in DOMAIN es :
        /\ lead[h] = h /\ Earlier(es, h, i)
        /\ Dated(es[h]) /\ es[i].at - es[h].at <= Window
        /\ es[h].type = es[i].type /\ es[h].kind = es[i].kind
        /\ SamePlaceExactly(es[h], es[i])
        /\ \A n \in DOMAIN es :
              lead[n] = h /\ Earlier(es, n, i) => es[n].provider # es[i].provider}

LEMMA LeadIs ==
    ASSUME NEW es \in Stored
    PROVE  /\ CarrierPoints(es) = {i \in DOMAIN es : Lead(es)[i] = i}
           /\ \A i \in DOMAIN es :
                 Lead(es)[i] = IF Lone(es[i]) \/ Leaders(es, Lead(es), i) = {} THEN i
                               ELSE Newest(es, Leaders(es, Lead(es), i))
<1> DEFINE merged == MergeCorroborating(es)
           lead == Lead(es)
           head(p) == merged[p][1]
<1>1. Merged(es, merged, DOMAIN es)
    BY JourneyMerged
<1>2. CarrierPoints(es) = {head(p) : p \in DOMAIN merged}
    BY HeadsArePoints
<1>3. ASSUME NEW p \in DOMAIN merged, NEW a \in DOMAIN merged[p]
      PROVE  merged[p][a] \in DOMAIN es /\ lead[merged[p][a]] = head(p)
    <2>1. merged[p][a] \in DOMAIN es
        BY <1>1 DEF Merged
    <2> DEFINE q == CHOOSE q \in DOMAIN merged : \E b \in DOMAIN merged[q] : merged[q][b] = merged[p][a]
    <2>2. q \in DOMAIN merged /\ \E b \in DOMAIN merged[q] : merged[q][b] = merged[p][a]
        OBVIOUS
    <2>3. lead[merged[p][a]] = head(q)
        BY <2>1 DEF Lead
    <2> HIDE DEF q, merged, lead
    <2>4. q = p
        BY <1>1, <2>2 DEF Merged
    <2> QED BY <2>1, <2>3, <2>4
<1> HIDE DEF merged, lead
<1>4. \A p \in DOMAIN merged : 1 \in DOMAIN merged[p]
    BY <1>1 DEF Merged
<1>5. \A i \in DOMAIN es : \E p \in DOMAIN merged : \E a \in DOMAIN merged[p] : merged[p][a] = i
    BY <1>1 DEF Merged
<1>6. \A p \in DOMAIN merged : lead[head(p)] = head(p) /\ head(p) \in DOMAIN es
    BY <1>3, <1>4
<1>7. \A i \in DOMAIN es : lead[i] = i => \E p \in DOMAIN merged : head(p) = i
    <2> SUFFICES ASSUME NEW i \in DOMAIN es, lead[i] = i PROVE \E p \in DOMAIN merged : head(p) = i
        OBVIOUS
    <2>1. PICK p \in DOMAIN merged : \E a \in DOMAIN merged[p] : merged[p][a] = i
        BY <1>5
    <2>2. lead[i] = head(p)
        BY <1>3, <2>1
    <2> QED BY <2>2
<1>8. CarrierPoints(es) = {i \in DOMAIN es : lead[i] = i}
    BY <1>2, <1>6, <1>7
<1>9. ASSUME NEW i \in DOMAIN es, NEW p \in DOMAIN merged
      PROVE  p \in Open(es, merged, i) <=> head(p) \in Leaders(es, lead, i)
    <2>1. ASSUME NEW n \in DOMAIN es
          PROVE  lead[n] = head(p) <=> \E a \in DOMAIN merged[p] : merged[p][a] = n
        <3>1. PICK q \in DOMAIN merged : \E b \in DOMAIN merged[q] : merged[q][b] = n
            BY <1>5
        <3>2. lead[n] = head(q)
            BY <1>3, <3>1
        <3>3. head(q) = head(p) => q = p
            BY <1>1, <1>4 DEF Merged
        <3>4. (\E a \in DOMAIN merged[p] : merged[p][a] = n) => lead[n] = head(p)
            BY <1>3
        <3> HIDE DEF head
        <3> QED BY <3>1, <3>2, <3>3, <3>4
    <2>2. (\A n \in DOMAIN es : lead[n] = head(p) /\ Earlier(es, n, i) => es[n].provider # es[i].provider)
          <=> \A a \in DOMAIN merged[p] :
                 Earlier(es, merged[p][a], i) => es[merged[p][a]].provider # es[i].provider
        BY <1>3, <2>1
    <2> QED BY <1>6, <2>2 DEF Open, Leaders
<1>10. ASSUME NEW i \in DOMAIN es
       PROVE  lead[i] = IF Lone(es[i]) \/ Leaders(es, lead, i) = {} THEN i
                        ELSE Newest(es, Leaders(es, lead, i))
    <2>1. PICK p \in DOMAIN merged : \E a \in DOMAIN merged[p] : merged[p][a] = i
        BY <1>5
    <2>2. PICK a \in DOMAIN merged[p] : merged[p][a] = i
        BY <2>1
    <2>3. lead[i] = head(p)
        BY <1>3, <2>2
    <2>4. Joined(es, merged, p, a, i)
        BY <1>1, <2>2 DEF Merged
    <2>5. Leaders(es, lead, i) \subseteq DOMAIN es
        BY DEF Leaders
    <2>6. \A h \in Leaders(es, lead, i) : \E q \in Open(es, merged, i) : head(q) = h
        <3> SUFFICES ASSUME NEW h \in Leaders(es, lead, i)
                     PROVE  \E q \in Open(es, merged, i) : head(q) = h
            OBVIOUS
        <3>1. PICK q \in DOMAIN merged : head(q) = h
            BY <1>7 DEF Leaders
        <3> QED BY <1>9, <3>1
    <2>7. CASE a = 1
        <3>1. Lone(es[i]) \/ Open(es, merged, i) = {}
            BY <2>4, <2>7 DEF Joined
        <3>2. Lone(es[i]) \/ Leaders(es, lead, i) = {}
            BY <2>6, <3>1
        <3> QED BY <2>2, <2>3, <2>7, <3>2
    <2>8. CASE a # 1
        <3>1. /\ ~Lone(es[i]) /\ p \in Open(es, merged, i)
              /\ \A q \in Open(es, merged, i) : q <= p
            BY <2>4, <2>8 DEF Joined
        <3>2. head(p) \in Leaders(es, lead, i)
            BY <1>9, <3>1
        <3>3. ASSUME NEW h \in Leaders(es, lead, i) \ {head(p)} PROVE Earlier(es, h, head(p))
            <4>1. PICK q \in Open(es, merged, i) : head(q) = h
                BY <2>6
            <4>2. q \in DOMAIN merged /\ q <= p /\ q # p
                BY <3>1, <3>3, <4>1 DEF Open
            <4>3. DOMAIN merged = 1 .. Len(merged) /\ Len(merged) \in Nat
                BY <1>1, PointsAre DEF Merged
            <4>4. q < p
                BY <4>2, <4>3
            <4> QED BY <1>1, <4>1, <4>2, <4>4 DEF Merged
        <3>4. head(p) = Newest(es, Leaders(es, lead, i))
            BY <2>5, <3>2, <3>3, NewestIs
        <3> QED BY <2>3, <3>1, <3>2, <3>4
    <2> QED BY <2>7, <2>8
<1> QED BY <1>8, <1>10 DEF lead

(***************************************************************************)
(* One more event, with the same events before it.                         *)
(***************************************************************************)
LEMMA OneMoreEvent ==
    ASSUME NEW es \in Stored, NEW r \in Reports
    PROVE  LET more == Append(es, r)
               x == Len(es) + 1
           IN  /\ more \in Stored /\ DOMAIN more = DOMAIN es \cup {x} /\ x \notin DOMAIN es
               /\ more[x] = r /\ \A i \in DOMAIN es : more[i] = es[i]
               /\ \A i, j \in DOMAIN es : Earlier(more, i, j) <=> Earlier(es, i, j)
               /\ \A S \in SUBSET DOMAIN es : Newest(more, S) = Newest(es, S)
<1> DEFINE more == Append(es, r)
           x == Len(es) + 1
<1>1. /\ more \in Stored /\ DOMAIN more = DOMAIN es \cup {x} /\ x \notin DOMAIN es
      /\ more[x] = r /\ \A i \in DOMAIN es : more[i] = es[i]
    BY DEF Stored
<1> HIDE DEF more, x
<1>2. \A i, j \in DOMAIN es : Earlier(more, i, j) <=> Earlier(es, i, j)
    BY <1>1 DEF Earlier
<1>3. ASSUME NEW S \in SUBSET DOMAIN es PROVE Newest(more, S) = Newest(es, S)
    <2>1. CASE S = {}
        BY <2>1 DEF Newest
    <2>2. CASE S # {}
        <3>1. Newest(es, S) \in S /\ \A j \in S \ {Newest(es, S)} : Earlier(es, j, Newest(es, S))
            BY <2>2, NewestIs
        <3>2. \A j \in S \ {Newest(es, S)} : Earlier(more, j, Newest(es, S))
            BY <1>2, <3>1
        <3>3. S \in SUBSET DOMAIN more
            BY <1>1
        <3> QED BY <1>1, <3>1, <3>2, <3>3, NewestIs
    <2> QED BY <2>1, <2>2
<1> QED BY <1>1, <1>2, <1>3 DEF more, x

LEMMA LeadsStay ==
    ASSUME NEW es \in Stored, NEW r \in Reports, ~Actual(r) \/ ~Dated(r)
    PROVE  \A i \in DOMAIN es : Actual(es[i]) /\ Dated(es[i]) => Lead(Append(es, r))[i] = Lead(es)[i]
<1> DEFINE more == Append(es, r)
           x == Len(es) + 1
           order == InOrder(es)
           n == Len(es)
           Differ == {a \in 1 .. n : /\ Actual(es[order[a]]) /\ Dated(es[order[a]])
                                     /\ Lead(more)[order[a]] # Lead(es)[order[a]]}
<1>1. /\ more \in Stored /\ DOMAIN more = DOMAIN es \cup {x} /\ x \notin DOMAIN es
      /\ more[x] = r /\ \A i \in DOMAIN es : more[i] = es[i]
      /\ \A i, j \in DOMAIN es : Earlier(more, i, j) <=> Earlier(es, i, j)
      /\ \A S \in SUBSET DOMAIN es : Newest(more, S) = Newest(es, S)
    BY OneMoreEvent
<1>2. n \in Nat /\ DOMAIN es = 1 .. n
    BY DEF Stored
<1>3. /\ order \in [1 .. n -> 1 .. n] /\ (\A b \in 1 .. n : \E a \in 1 .. n : order[a] = b)
      /\ \A a, b \in 1 .. n : a < b => Earlier(es, order[a], order[b])
    <2>1. Sorted(es, order, n)
        BY InOrderIs
    <2> QED BY <2>1 DEF Sorted, Bijection, Surjection
<1> HIDE DEF more, x, order, n
<1>4. SUFFICES ASSUME Differ # {} PROVE FALSE
    BY <1>2, <1>3 DEF more
<1>5. Differ \subseteq Nat
    OBVIOUS
<1>6. PICK a \in Differ : \A b \in Differ : a <= b
    BY <1>4, <1>5, LeastNatural
<1> DEFINE i == order[a]
<1>7. i \in DOMAIN es /\ Actual(es[i]) /\ Dated(es[i]) /\ Lead(more)[i] # Lead(es)[i]
    BY <1>2, <1>3, <1>6
<1>8. \A j \in DOMAIN es : Earlier(es, j, i) /\ Actual(es[j]) /\ Dated(es[j])
                           => Lead(more)[j] = Lead(es)[j]
    <2> SUFFICES ASSUME NEW j \in DOMAIN es, Earlier(es, j, i), Actual(es[j]), Dated(es[j]),
                        Lead(more)[j] # Lead(es)[j]
                 PROVE  FALSE
        OBVIOUS
    <2>1. PICK b \in 1 .. n : order[b] = j
        BY <1>2, <1>3
    <2>2. b \in Differ
        BY <2>1
    <2>3. a \in 1 .. n /\ a <= b
        BY <1>6, <2>2
    <2>4. a = b \/ Earlier(es, i, j)
        BY <1>3, <2>1, <2>3
    <2> QED BY <1>7, <2>1, <2>4, Ordered
<1> HIDE DEF i, Differ
<1>9. ASSUME NEW ls \in Stored, NEW m \in DOMAIN ls, NEW h \in DOMAIN ls, Lead(ls)[m] = h
      PROVE  ls[m].kind = ls[h].kind /\ (Dated(ls[h]) => Dated(ls[m]))
    <2>1. CASE h = m
        BY <2>1
    <2>2. CASE h # m
        <3> DEFINE L == Leaders(ls, Lead(ls), m)
        <3>1. ~Lone(ls[m]) /\ L # {} /\ h = Newest(ls, L)
            BY <1>9, <2>2, LeadIs
        <3>2. L \in SUBSET DOMAIN ls
            BY DEF Leaders
        <3> HIDE DEF L
        <3>3. h \in L
            BY <3>1, <3>2, NewestIs
        <3> QED BY <3>1, <3>3 DEF L, Leaders, Lone
    <2> QED BY <2>1, <2>2
<1>10. ASSUME NEW h \in DOMAIN es PROVE h \in Leaders(more, Lead(more), i) <=> h \in Leaders(es, Lead(es), i)
    <2>1. h \in DOMAIN more /\ more[h] = es[h] /\ more[i] = es[i]
          /\ (Earlier(more, h, i) <=> Earlier(es, h, i))
        BY <1>1, <1>7
    <2> DEFINE Alike == /\ Earlier(es, h, i)
                        /\ Dated(es[h]) /\ es[i].at - es[h].at <= Window
                        /\ es[h].type = es[i].type /\ es[h].kind = es[i].kind
                        /\ SamePlaceExactly(es[h], es[i])
    <2>2. CASE ~Alike
        BY <2>1, <2>2 DEF Leaders
    <2>3. CASE Alike
        <3>1. Actual(es[h]) /\ Dated(es[h]) /\ Earlier(es, h, i)
            BY <1>7, <2>3 DEF Actual
        <3>2. Lead(more)[h] = Lead(es)[h]
            BY <1>8, <3>1
        <3>3. ASSUME NEW m \in DOMAIN more, Lead(more)[m] = h, Earlier(more, m, i)
              PROVE  m \in DOMAIN es /\ Lead(es)[m] = h /\ Earlier(es, m, i) /\ more[m] = es[m]
            <4>1. more[m].kind = es[h].kind /\ Dated(more[m])
                BY <1>1, <1>9, <2>1, <3>1, <3>3
            <4>2. m # x
                BY <1>1, <3>1, <4>1 DEF Actual
            <4>3. m \in DOMAIN es /\ more[m] = es[m] /\ Earlier(es, m, i)
                BY <1>1, <1>7, <3>3, <4>2
            <4> QED BY <1>8, <3>1, <3>3, <4>1, <4>3 DEF Actual
        <3>4. ASSUME NEW m \in DOMAIN es, Lead(es)[m] = h, Earlier(es, m, i)
              PROVE  m \in DOMAIN more /\ Lead(more)[m] = h /\ Earlier(more, m, i) /\ more[m] = es[m]
            <4>1. es[m].kind = es[h].kind /\ Dated(es[m])
                BY <1>9, <3>1, <3>4
            <4>2. m \in DOMAIN more /\ more[m] = es[m] /\ Earlier(more, m, i)
                BY <1>1, <1>7, <3>4
            <4> QED BY <1>8, <3>1, <3>4, <4>1, <4>2 DEF Actual
        <3>5. (\A m \in DOMAIN more : Lead(more)[m] = h /\ Earlier(more, m, i)
                                      => more[m].provider # more[i].provider)
              <=> \A m \in DOMAIN es : Lead(es)[m] = h /\ Earlier(es, m, i)
                                       => es[m].provider # es[i].provider
            BY <2>1, <3>3, <3>4
        <3> QED BY <2>1, <2>3, <3>2, <3>5 DEF Leaders
    <2> QED BY <2>2, <2>3
<1>11. x \notin Leaders(more, Lead(more), i)
    BY <1>1, <1>7 DEF Leaders, Actual
<1>12. Leaders(more, Lead(more), i) = Leaders(es, Lead(es), i)
    <2>1. Leaders(more, Lead(more), i) \subseteq DOMAIN more /\ Leaders(es, Lead(es), i) \subseteq DOMAIN es
        BY DEF Leaders
    <2> QED BY <1>1, <1>10, <1>11, <2>1
<1>13. Lead(more)[i] = Lead(es)[i]
    <2> DEFINE S == Leaders(es, Lead(es), i)
    <2>1. S \in SUBSET DOMAIN es
        BY DEF Leaders
    <2>2. Lead(es)[i] = IF Lone(es[i]) \/ S = {} THEN i ELSE Newest(es, S)
        BY <1>7, LeadIs
    <2>3. Lead(more)[i] = IF Lone(more[i]) \/ S = {} THEN i ELSE Newest(more, S)
        BY <1>1, <1>7, <1>12, LeadIs
    <2> HIDE DEF S
    <2> QED BY <1>1, <1>7, <2>1, <2>2, <2>3
<1> QED BY <1>7, <1>13

LEMMA SeenStays ==
    ASSUME NEW es \in Stored, NEW r \in Reports, ~Actual(r) \/ ~Dated(r)
    PROVE  Seen(Append(es, r)) = Seen(es) /\ Observations(Append(es, r)) = Observations(es)
<1> DEFINE more == Append(es, r)
           x == Len(es) + 1
<1>1. /\ more \in Stored /\ DOMAIN more = DOMAIN es \cup {x} /\ x \notin DOMAIN es
      /\ more[x] = r /\ \A i \in DOMAIN es : more[i] = es[i]
    BY OneMoreEvent
<1>2. \A i \in DOMAIN es : Actual(es[i]) /\ Dated(es[i]) => Lead(more)[i] = Lead(es)[i]
    BY LeadsStay
<1>3. /\ CarrierPoints(es) = {i \in DOMAIN es : Lead(es)[i] = i}
      /\ CarrierPoints(more) = {i \in DOMAIN more : Lead(more)[i] = i}
    BY <1>1, LeadIs
<1> HIDE DEF more, x
<1>4. Seen(more) = Seen(es)
    BY <1>1, <1>2, <1>3 DEF Seen
<1>5. Observations(more) = Observations(es)
    BY <1>1 DEF Observations
<1> QED BY <1>4, <1>5 DEF more


LEMMA StillObserved ==
    ASSUME NEW es \in Stored, NEW r \in Reports, ~Actual(r) \/ ~Dated(r)
    PROVE  /\ LatestObserved(Append(es, r)) = LatestObserved(es)
           /\ LatestObserved(es) # NoEvent =>
                /\ LatestObserved(es) \in DOMAIN es
                /\ Append(es, r)[LatestObserved(es)] = es[LatestObserved(es)]
<1> DEFINE more == Append(es, r)
<1>1. /\ more \in Stored /\ DOMAIN es \subseteq DOMAIN more
      /\ \A i \in DOMAIN es : more[i] = es[i]
      /\ \A S \in SUBSET DOMAIN es : Newest(more, S) = Newest(es, S)
    BY OneMoreEvent
<1>2. Seen(more) = Seen(es) /\ Seen(es) \in SUBSET DOMAIN es
    BY SeenStays, SeenIs
<1> HIDE DEF more
<1>3. {i \in Seen(more) : HasAPlace(more[i])} = {i \in Seen(es) : HasAPlace(es[i])}
    BY <1>1, <1>2
<1>4. LatestObserved(more) = LatestObserved(es)
    BY <1>1, <1>2, <1>3, SeenIs
<1>5. LatestObserved(es) # NoEvent => LatestObserved(es) \in DOMAIN es
    <2> DEFINE S == Seen(es)
    <2>1. S \in SUBSET DOMAIN es
        BY <1>2
    <2>2. LatestObserved(es) = AnyOf(Newest(es, {i \in S : HasAPlace(es[i])}), Newest(es, S))
        BY SeenIs
    <2> HIDE DEF S
    <2> QED BY <2>1, <2>2, PreferPlace
<1> QED BY <1>1, <1>4, <1>5 DEF more

LEMMA GapStays ==
    ASSUME NEW es \in Stored, NEW r \in Reports, ~Actual(r) \/ ~Dated(r), NEW w
    PROVE  HasGap(Append(es, r), w) <=> HasGap(es, w)
<1> DEFINE more == Append(es, r)
           origin == LatestObserved(es)
<1>1. \A i \in DOMAIN es : more[i] = es[i]
    BY OneMoreEvent
<1>2. Seen(more) = Seen(es) /\ Seen(es) \in SUBSET DOMAIN es
    BY SeenStays, SeenIs
<1>3. LatestObserved(more) = origin /\ (origin # NoEvent => more[origin] = es[origin])
    BY StillObserved
<1> HIDE DEF more
<1>4. \A after : /\ ExplainedByACarrier(more, w, after)
                       <=> \E i \in Seen(more) : more[i].at >= after /\ PlacesMatch(more[i], w)
                 /\ ExplainedByACarrier(es, w, after)
                       <=> \E i \in Seen(es) : es[i].at >= after /\ PlacesMatch(es[i], w)
    BY DEF ExplainedByACarrier, Seen
<1>5. \A after : ExplainedByACarrier(more, w, after) <=> ExplainedByACarrier(es, w, after)
    BY <1>1, <1>2, <1>4
<1> HIDE DEF origin
<1>6. HasGap(more, w) <=> HasGap(es, w)
    BY <1>3, <1>5 DEF HasGap, origin
<1> QED BY <1>6 DEF more

LEMMA LocationStays ==
    ASSUME NEW es \in Stored, NEW r \in Reports, ~Actual(r) \/ ~Dated(r), NEW w,
           LatestObserved(es) # NoEvent
    PROVE  CurrentLocation(Append(es, r), w) = CurrentLocation(es, w)
<1> DEFINE more == Append(es, r)
           carrier == LatestObserved(es)
<1>1. LatestObserved(more) = carrier /\ more[carrier] = es[carrier] /\ carrier # NoEvent
    BY StillObserved
<1> HIDE DEF more
<1>2. CASE PhysicallyObserved(w) /\ w.at >= es[carrier].at
    <2>1. CurrentLocation(more, w) = [basis |-> "physical", place |-> w.place, at |-> w.at]
        BY <1>1, <1>2 DEF CurrentLocation
    <2>2. CurrentLocation(es, w) = [basis |-> "physical", place |-> w.place, at |-> w.at]
        BY <1>1, <1>2 DEF CurrentLocation
    <2> QED BY <2>1, <2>2 DEF more
<1>3. CASE ~(PhysicallyObserved(w) /\ w.at >= es[carrier].at)
    <2> DEFINE there == [basis |-> "carrier_actual", place |-> es[carrier].place, at |-> es[carrier].at]
    <2>1. CurrentLocation(more, w) = there
        BY <1>1, <1>3 DEF CurrentLocation
    <2>2. CurrentLocation(es, w) = there
        BY <1>1, <1>3 DEF CurrentLocation
    <2> QED BY <2>1, <2>2 DEF more
<1> QED BY <1>2, <1>3

LEMMA MarkerStays ==
    ASSUME NEW es \in Stored, NEW r \in Reports, Forecast(r) \/ ~Dated(r), NEW w
    PROVE  /\ Observations(es) # {} =>
                 CurrentMarker(Append(es, r), w) = CurrentMarker(es, w)
           /\ CurrentMarker(es, w) = NoMarker => CurrentMarker(Append(es, r), w) = NoMarker
<1> DEFINE more == Append(es, r)
           x == Len(es) + 1
           last(ls) == LatestContainerPosition(ls)
           canonical == CanonicalObservation(es)
<1>1. /\ more \in Stored /\ DOMAIN more = DOMAIN es \cup {x} /\ x \notin DOMAIN es
      /\ more[x] = r /\ \A i \in DOMAIN es : more[i] = es[i]
      /\ \A S \in SUBSET DOMAIN es : Newest(more, S) = Newest(es, S)
    BY OneMoreEvent
<1>2. Observations(more) = Observations(es) /\ Observations(es) \in SUBSET DOMAIN es
    BY SeenStays, SeenIs DEF Forecast, Actual
<1>3. BulkWorkspace(more).position = last(more) /\ BulkWorkspace(es).position = last(es)
    <2>1. Workspace(more).position = last(more) /\ Workspace(es).position = last(es)
        BY DEF Workspace
    <2> QED BY <1>1, <2>1, WorkspacesAgree
<1> HIDE DEF more, x
<1>4. CanonicalObservation(more) = canonical /\ (canonical # NoEvent => more[canonical] = es[canonical])
    <2> DEFINE S == {i \in Observations(es) : es[i].place.row # None}
    <2>1. S \in SUBSET DOMAIN es /\ S = {i \in Observations(more) : more[i].place.row # None}
        BY <1>1, <1>2
    <2>2. canonical = Newest(es, S) /\ CanonicalObservation(more) = Newest(more, S)
        BY <2>1 DEF CanonicalObservation
    <2> HIDE DEF S, canonical
    <2>3. canonical # NoEvent => canonical \in DOMAIN es
        BY <2>1, <2>2, NewestIs
    <2> QED BY <1>1, <2>1, <2>2, <2>3
<1>5. ASSUME Observations(es) # {}
      PROVE  last(more) = last(es) /\ more[last(es)] = es[last(es)]
    <2>1. {i \in Observations(more) : HasAPlace(more[i])} = {i \in Observations(es) : HasAPlace(es[i])}
        BY <1>1, <1>2
    <2>2. last(more) = last(es) /\ last(es) \in Observations(es)
        BY <1>1, <1>2, <1>5, <2>1, LastPosition
    <2> QED BY <1>1, <1>2, <2>2
<1>6. ASSUME Observations(es) = {}, last(more) # NoEvent, DrawableReport(more[last(more)])
      PROVE  last(es) # NoEvent /\ DrawableReport(es[last(es)])
    <2> DEFINE S(ls) == {i \in DOMAIN ls : Dated(ls[i])}
    <2>1. /\ {i \in Observations(more) : HasAPlace(more[i])} = {} /\ Observations(more) = {}
          /\ {i \in Observations(es) : HasAPlace(es[i])} = {}
        BY <1>2, <1>6
    <2>2. last(more) = Newest(more, S(more)) /\ last(es) = Newest(es, S(es))
        BY <1>6, <2>1 DEF LatestContainerPosition, AnyOf, Newest
    <2>3. S(more) \in SUBSET DOMAIN more /\ S(es) \in SUBSET DOMAIN es
        OBVIOUS
    <2> HIDE DEF last
    <2>4. last(more) \in S(more) /\ \A j \in S(more) \ {last(more)} : Earlier(more, j, last(more))
        <3> HIDE DEF S
        <3> QED BY <1>1, <1>6, <2>2, <2>3, NewestIs
    <2>5. last(more) # x
        BY <1>1, <1>6, <2>4 DEF DrawableReport
    <2>6. last(more) \in S(es) /\ more[last(more)] = es[last(more)]
        BY <1>1, <2>4, <2>5
    <2>7. \A j \in S(es) \ {last(more)} : Earlier(es, j, last(more))
        BY <1>1, <2>4, <2>6, OneMoreEvent DEF Earlier
    <2>8. last(es) = last(more)
        <3> HIDE DEF S
        <3> QED BY <2>2, <2>3, <2>6, <2>7, NewestIs
    <2> QED BY <1>6, <2>6, <2>8
<1>7. ASSUME CurrentPosition(more, w) = CurrentPosition(es, w)
      PROVE  CurrentMarker(more, w) = CurrentMarker(es, w)
    BY <1>7 DEF CurrentMarker
<1>8. CASE w.place.row # None
    <2>1. CurrentPosition(more, w) = CurrentPosition(es, w)
        BY <1>8 DEF CurrentPosition
    <2> QED BY <1>7, <2>1 DEF more
<1>9. CASE w.place.row = None /\ canonical # NoEvent
    <2>1. CurrentPosition(more, w) = CurrentPosition(es, w)
        BY <1>4, <1>9 DEF CurrentPosition
    <2> QED BY <1>7, <2>1 DEF more
<1>10. CASE w.place.row = None /\ canonical = NoEvent
    <2> DEFINE drawn(ls) == last(ls) # NoEvent /\ DrawableReport(ls[last(ls)])
               at(ls) == [class |-> "tracking", place |-> [ls[last(ls)].place EXCEPT !.row = None],
                          event |-> last(ls)]
    <2>1. CurrentPosition(es, w) = IF drawn(es) THEN at(es) ELSE NoMarker
        BY <1>3, <1>10 DEF CurrentPosition
    <2>2. CurrentPosition(more, w) = IF drawn(more) THEN at(more) ELSE NoMarker
        BY <1>3, <1>4, <1>10 DEF CurrentPosition
    <2>3. CASE Observations(es) # {}
        <3>1. last(more) = last(es) /\ more[last(es)] = es[last(es)]
            BY <1>5, <2>3
        <3> HIDE DEF last
        <3>2. CurrentPosition(more, w) = CurrentPosition(es, w)
            BY <2>1, <2>2, <3>1
        <3> QED BY <1>7, <3>2 DEF more
    <2>4. CASE Observations(es) = {}
        <3>1. drawn(more) => drawn(es)
            BY <1>6, <2>4
        <3>2. drawn(es) => Plottable(at(es)) /\ at(es) # NoMarker
            <4>1. ASSUME drawn(es) PROVE Plottable(at(es)) /\ at(es) # NoMarker
                <5> DEFINE l == last(es)
                <5>1. l \in DOMAIN es
                    <6> DEFINE S == {i \in DOMAIN es : Dated(es[i])}
                    <6>1. l = Newest(es, S) /\ S \in SUBSET DOMAIN es
                        BY <2>4, <4>1 DEF LatestContainerPosition, AnyOf, Newest
                    <6> HIDE DEF S, l
                    <6> QED BY <4>1, <6>1, NewestIs DEF l
                <5> HIDE DEF l, last
                <5>2. es[l].place \in Places /\ es[l].place.fix
                    BY <4>1, <5>1, Ordered, ReportsAssumption DEF l, DrawableReport, HasCoordinates
                <5>3. at(es).place.row = None /\ at(es).place.fix /\ at(es).class = "tracking"
                    BY <5>2 DEF l, Places
                <5> HIDE DEF at
                <5>4. at(es) # NoMarker
                    BY <5>3 DEF NoMarker
                <5> QED BY <5>3, <5>4 DEF Plottable
            <4> QED BY <4>1
        <3> HIDE DEF drawn, at
        <3>3. CurrentMarker(es, w) = NoMarker => CurrentPosition(es, w) = NoMarker
            BY <2>1, <3>2 DEF CurrentMarker
        <3>4. CurrentMarker(es, w) = NoMarker => ~drawn(es)
            BY <2>1, <3>2, <3>3
        <3>5. ~drawn(more) => CurrentMarker(more, w) = NoMarker
            BY <2>2 DEF CurrentMarker
        <3> QED BY <2>4, <3>1, <3>4, <3>5 DEF more
    <2> QED BY <2>3, <2>4
<1> QED BY <1>8, <1>9, <1>10

LEMMA ForecastOfStored ==
    ASSUME events \in Stored, NEW r \in Reports, StoreEvent(r), Forecast(r) \/ ~Dated(r)
    PROVE  /\ (Gap(events', projected) = "none") = (Gap(events, projected) = "none")
           /\ LatestObserved(events) # NoEvent =>
                /\ CurrentLocation(events', projected) = CurrentLocation(events, projected)
                /\ CurrentMarker(events', projected) = CurrentMarker(events, projected)
           /\ CurrentMarker(events, projected) = NoMarker =>
                CurrentMarker(events', projected) = NoMarker
<1>1. events' = Append(events, r) /\ (~Actual(r) \/ ~Dated(r))
    BY DEF StoreEvent, Forecast, Actual
<1>2. HasGap(events', projected) <=> HasGap(events, projected)
    BY <1>1, GapStays
<1>4. Seen(events) \in SUBSET DOMAIN events /\ Seen(events) \subseteq Observations(events)
    BY SeenIs
<1>5. LatestObserved(events) # NoEvent => Observations(events) # {}
    BY <1>4, SeenIs, PreferPlace
<1>6. LatestObserved(events) # NoEvent =>
         /\ CurrentLocation(events', projected) = CurrentLocation(events, projected)
         /\ CurrentMarker(events', projected) = CurrentMarker(events, projected)
    BY <1>1, <1>5, LocationStays, MarkerStays
<1>7. CurrentMarker(events, projected) = NoMarker => CurrentMarker(events', projected) = NoMarker
    BY <1>1, MarkerStays
<1> QED BY <1>2, <1>6, <1>7 DEF Gap


LEMMA GapOfStored ==
    ASSUME events \in Stored, NEW r \in Reports, StoreEvent(r),
           Actual(r), Dated(r), PlacesMatch(r, projected),
           \A i \in Observations(events) :
             /\ HasAPlace(events[i]) /\ ~PlacesMatch(events[i], projected)
             => events[i].at < r.at - Window
    PROVE  Gap(events', projected) = "none"
<1> DEFINE more == Append(events, r)
           x == Len(events) + 1
<1>1. /\ more \in Stored /\ DOMAIN more = DOMAIN events \cup {x}
      /\ more[x] = r /\ \A i \in DOMAIN events : more[i] = events[i]
    BY OneMoreEvent
<1>2. events' = more
    BY DEF StoreEvent
<1> HIDE DEF more, x
<1>3. HasAPlace(r)
    <2>1. None \notin Names /\ Similar \subseteq Names \X Names
        BY PlacesAssumption
    <2> QED BY <2>1 DEF PlacesMatch, Coded, HasAPlace
<1>4. x \in Observations(more) /\ \A i \in Observations(more) : i = x \/ i \in Observations(events)
    BY <1>1 DEF Observations
<1>5. ASSUME NEW i \in Observations(more), HasAPlace(more[i]), ~PlacesMatch(more[i], projected)
      PROVE  more[i].at < more[x].at - Window
    <2>1. i # x
        BY <1>1, <1>5
    <2>2. i \in Observations(events) /\ i \in DOMAIN events
        BY <1>4, <1>5, <2>1 DEF Observations
    <2> QED BY <1>1, <1>5, <2>2
<1>6. ~HasGap(more, projected)
    BY <1>1, <1>3, <1>4, <1>5, NoGapAfter
<1> QED BY <1>2, <1>6 DEF Gap


(***************************************************************************)
(* The points one after the other are every event once.                    *)
(***************************************************************************)
Shown(points) == FoldLeft(LAMBDA all, p : all \o p, << >>, points)

Showing(f, points) ==
    f = [s \in SUBSET DOMAIN points |->
            IF s = {} THEN << >> ELSE f[s \ {Max(s)}] \o points[Max(s)]]

LEMMA ShownSteps ==
    ASSUME NEW D, NEW points \in Seq(Seq(D))
    PROVE  \E g : /\ g[0] = << >> /\ g[Len(points)] = Shown(points)
                  /\ \A k \in Nat : k < Len(points) => g[k + 1] = g[k] \o points[k + 1]
<1> DEFINE n == Len(points)
           V == Seq(D)
           step == [pair \in V \X V |-> pair[1] \o pair[2]]
           show == CHOOSE f : Showing(f, points)
<1>1. n \in Nat /\ DOMAIN points = 1 .. n /\ points \in [1 .. n -> V]
    OBVIOUS
<1>2. Shown(points) = show[DOMAIN points]
    BY Zenon DEF Shown, FoldLeft, MapThenFoldSet, Showing
<1>3. << >> \in V
    OBVIOUS
<1>4. step \in [V \X V -> V]
    OBVIOUS
<1> HIDE DEF V, n, show
<1>5. PICK f \in [SUBSET (1 .. n) -> V] : Folds(f, n, << >>, step, points)
    BY <1>1, <1>3, <1>4, FoldExists
<1>6. Showing(f, points)
    <2>1. ASSUME NEW s \in SUBSET (1 .. n)
          PROVE  f[s] = IF s = {} THEN << >> ELSE f[s \ {Max(s)}] \o points[Max(s)]
        <3>1. f[s] = IF s = {} THEN << >> ELSE step[<<f[s \ {Max(s)}], points[Max(s)]>>]
            BY <1>5 DEF Folds
        <3>2. CASE s = {}
            BY <3>1, <3>2
        <3>3. CASE s # {}
            <4>1. Max(s) \in s
                BY <1>1, <3>3, MaxIs
            <4>2. points[Max(s)] \in V /\ f[s \ {Max(s)}] \in V
                BY <1>1, <1>5, <4>1
            <4>3. step[<<f[s \ {Max(s)}], points[Max(s)]>>] = f[s \ {Max(s)}] \o points[Max(s)]
                BY <4>2
            <4> HIDE DEF step
            <4> QED BY <3>1, <3>3, <4>3
        <3> QED BY <3>2, <3>3
    <2>2. f = [s \in SUBSET (1 .. n) |-> f[s]]
        BY <1>5
    <2> QED BY <1>1, <2>1, <2>2 DEF Showing
<1>7. Showing(show, points)
    BY <1>6 DEF show
<1>8. \A s \in SUBSET (1 .. n) :
        show[s] = IF s = {} THEN << >> ELSE show[s \ {Max(s)}] \o points[Max(s)]
    BY <1>1, <1>7 DEF Showing
<1> DEFINE g == [k \in 0 .. n |-> show[1 .. k]]
<1>9. g[0] = << >>
    <2>1. 1 .. 0 = {} /\ {} \in SUBSET (1 .. n) /\ 0 \in 0 .. n
        BY <1>1
    <2>2. show[{}] = << >>
        BY <1>8, <2>1
    <2> QED BY <2>1, <2>2
<1>10. g[n] = Shown(points)
    BY <1>1, <1>2
<1>11. ASSUME NEW k \in Nat, k < n PROVE g[k + 1] = g[k] \o points[k + 1]
    <2>1. 1 .. (k + 1) \in SUBSET (1 .. n) /\ k + 1 \in 0 .. n /\ k \in 0 .. n
        BY <1>1, <1>11
    <2>2. 1 .. (k + 1) # {}
        <3>1. 1 \in 1 .. (k + 1)
            BY <1>11
        <3> QED BY <3>1
    <2>3. Max(1 .. (k + 1)) = k + 1 /\ (1 .. (k + 1)) \ {k + 1} = 1 .. k
        BY MaxOfPrefix
    <2>4. show[1 .. (k + 1)] = show[1 .. k] \o points[k + 1]
        BY <1>8, <2>1, <2>2, <2>3
    <2> QED BY <2>1, <2>4
<1> HIDE DEF g
<1>12. /\ g[0] = << >> /\ g[Len(points)] = Shown(points)
       /\ \A k \in Nat : k < Len(points) => g[k + 1] = g[k] \o points[k + 1]
    BY <1>9, <1>10, <1>11 DEF n
<1> QED BY <1>12

Distinct(points) ==
    /\ \A p, q \in DOMAIN points : \A a \in DOMAIN points[p] : \A b \in DOMAIN points[q] :
          points[p][a] = points[q][b] => p = q /\ a = b

Lists(all, points, k) ==
    /\ \A a \in DOMAIN all : \E p \in 1 .. k : \E c \in DOMAIN points[p] : points[p][c] = all[a]
    /\ \A p \in 1 .. k : \A c \in DOMAIN points[p] : \E a \in DOMAIN all : all[a] = points[p][c]
    /\ \A a, b \in DOMAIN all : all[a] = all[b] => a = b

LEMMA ListsOnePoint ==
    ASSUME NEW D, NEW points \in Seq(Seq(D)), Distinct(points),
           NEW k \in Nat, k < Len(points), NEW all \in Seq(D), Lists(all, points, k)
    PROVE  Lists(all \o points[k + 1], points, k + 1)
<1> DEFINE p == points[k + 1]
           more == all \o p
           n == Len(all)
<1>1. k + 1 \in DOMAIN points /\ p \in Seq(D) /\ 1 .. k \subseteq DOMAIN points
      /\ k + 1 \in 1 .. (k + 1) /\ 1 .. k \subseteq 1 .. (k + 1) /\ k + 1 \notin 1 .. k
      /\ \A q \in 1 .. (k + 1) : q \in 1 .. k \/ q = k + 1
    OBVIOUS
<1>2. n \in Nat /\ Len(p) \in Nat /\ DOMAIN all = 1 .. n /\ DOMAIN p = 1 .. Len(p)
    BY <1>1
<1> HIDE DEF p
<1>3. /\ DOMAIN more = 1 .. (n + Len(p))
      /\ \A a \in 1 .. n : more[a] = all[a]
      /\ \A c \in 1 .. Len(p) : more[n + c] = p[c]
    BY <1>1, <1>2
<1> HIDE DEF n, more
<1>4. \A a \in DOMAIN more : \/ a \in DOMAIN all /\ more[a] = all[a]
                             \/ \E c \in DOMAIN p : a = n + c /\ more[a] = p[c]
    <2> SUFFICES ASSUME NEW a \in DOMAIN more, a \notin DOMAIN all
                 PROVE  \E c \in DOMAIN p : a = n + c /\ more[a] = p[c]
        BY <1>2, <1>3
    <2>1. a - n \in DOMAIN p /\ a = n + (a - n)
        BY <1>2, <1>3
    <2> QED BY <1>2, <1>3, <2>1
<1>5. DOMAIN all \subseteq DOMAIN more /\ \A c \in DOMAIN p : n + c \in DOMAIN more
    BY <1>2, <1>3
<1>6. ASSUME NEW a \in DOMAIN more
      PROVE  \E q \in 1 .. (k + 1) : \E c \in DOMAIN points[q] : points[q][c] = more[a]
    <2>1. CASE a \in DOMAIN all /\ more[a] = all[a]
        BY <1>1, <2>1 DEF Lists
    <2>2. CASE \E c \in DOMAIN p : a = n + c /\ more[a] = p[c]
        BY <1>1, <2>2 DEF p
    <2> QED BY <1>4, <2>1, <2>2
<1>7. ASSUME NEW q \in 1 .. (k + 1), NEW c \in DOMAIN points[q]
      PROVE  \E a \in DOMAIN more : more[a] = points[q][c]
    <2>1. CASE q \in 1 .. k
        <3>1. PICK a \in DOMAIN all : all[a] = points[q][c]
            BY <2>1 DEF Lists
        <3> QED BY <1>2, <1>3, <1>5, <3>1
    <2>2. CASE q = k + 1
        <3>1. c \in DOMAIN p /\ points[q][c] = p[c]
            BY <2>2 DEF p
        <3> QED BY <1>2, <1>3, <1>5, <3>1
    <2> QED BY <1>1, <2>1, <2>2
<1>8. ASSUME NEW a \in DOMAIN more, NEW b \in DOMAIN more, more[a] = more[b]
      PROVE  a = b
    <2>1. \A d \in DOMAIN more : d \in DOMAIN all /\ more[d] = all[d] =>
             \E q \in 1 .. k : \E c \in DOMAIN points[q] : points[q][c] = more[d]
        <3>1. \A d \in DOMAIN all :
                 \E q \in 1 .. k : \E c \in DOMAIN points[q] : points[q][c] = all[d]
            BY DEF Lists
        <3> QED BY Zenon, <3>1
    <2>2. \A q \in 1 .. k : \A c \in DOMAIN points[q] : \A e \in DOMAIN p : points[q][c] # p[e]
        BY <1>1 DEF p, Distinct
    <2>3. \A e, f \in DOMAIN p : p[e] = p[f] => e = f
        BY <1>1 DEF p, Distinct
    <2>4. CASE a \in DOMAIN all /\ more[a] = all[a] /\ b \in DOMAIN all /\ more[b] = all[b]
        BY <1>8, <2>4 DEF Lists
    <2>5. CASE a \in DOMAIN all /\ more[a] = all[a] /\ \E c \in DOMAIN p : b = n + c /\ more[b] = p[c]
        <3>1. PICK q \in 1 .. k : \E c \in DOMAIN points[q] : points[q][c] = more[a]
            BY <2>1, <2>5
        <3>2. PICK c \in DOMAIN points[q] : points[q][c] = more[a]
            BY <3>1
        <3>3. PICK e \in DOMAIN p : more[b] = p[e]
            BY <2>5
        <3> QED BY <1>8, <2>2, <3>1, <3>2, <3>3
    <2>6. CASE b \in DOMAIN all /\ more[b] = all[b] /\ \E c \in DOMAIN p : a = n + c /\ more[a] = p[c]
        <3>1. PICK q \in 1 .. k : \E c \in DOMAIN points[q] : points[q][c] = more[b]
            BY <2>1, <2>6
        <3>2. PICK c \in DOMAIN points[q] : points[q][c] = more[b]
            BY <3>1
        <3>3. PICK e \in DOMAIN p : more[a] = p[e]
            BY <2>6
        <3> QED BY <1>8, <2>2, <3>1, <3>2, <3>3
    <2>7. CASE (\E c \in DOMAIN p : a = n + c /\ more[a] = p[c])
               /\ (\E c \in DOMAIN p : b = n + c /\ more[b] = p[c])
        BY <1>8, <2>3, <2>7
    <2> QED BY <1>4, <2>4, <2>5, <2>6, <2>7
<1>9. Lists(more, points, k + 1)
    BY <1>6, <1>7, <1>8 DEF Lists
<1> QED BY <1>9 DEF more, p

LEMMA ShownLists ==
    ASSUME NEW D, NEW points \in Seq(Seq(D)), Distinct(points)
    PROVE  Shown(points) \in Seq(D) /\ Lists(Shown(points), points, Len(points))
<1> DEFINE n == Len(points)
<1>1. n \in Nat
    OBVIOUS
<1>2. PICK g : /\ g[0] = << >> /\ g[n] = Shown(points)
               /\ \A k \in Nat : k < n => g[k + 1] = g[k] \o points[k + 1]
    BY ShownSteps
<1> DEFINE So(k) == g[k] \in Seq(D) /\ Lists(g[k], points, k)
           G == {k \in Nat : k <= n => So(k)}
<1>3. So(0)
    <2>1. << >> \in Seq(D) /\ DOMAIN << >> = {} /\ 1 .. 0 = {}
        OBVIOUS
    <2> QED BY <1>2, <2>1 DEF Lists
<1>4. ASSUME NEW k \in Nat, k < n, So(k) PROVE So(k + 1)
    <2>1. g[k + 1] = g[k] \o points[k + 1] /\ points[k + 1] \in Seq(D)
        <3>1. k + 1 \in DOMAIN points
            BY <1>4
        <3>2. points[k + 1] \in Seq(D)
            BY <3>1
        <3>3. g[k + 1] = g[k] \o points[k + 1]
            BY <1>2, <1>4
        <3> QED BY <3>2, <3>3
    <2>2. Lists(g[k + 1], points, k + 1)
        BY <1>4, <2>1, ListsOnePoint
    <2>3. g[k + 1] \in Seq(D)
        BY <1>4, <2>1
    <2> QED BY <2>2, <2>3
<1> HIDE DEF So
<1>5. 0 \in G /\ \A k \in Nat : k \in G => k + 1 \in G
    BY <1>1, <1>3, <1>4
<1> HIDE DEF G
<1>6. n \in G
    BY <1>1, <1>5, Induction
<1>7. So(n)
    BY <1>1, <1>6 DEF G
<1> QED BY <1>2, <1>7 DEF So

LEMMA AsManyAsListed ==
    ASSUME NEW n \in Nat, NEW all \in Seq(1 .. n), Range(all) = 1 .. n,
           \A a, b \in DOMAIN all : all[a] = all[b] => a = b
    PROVE  Len(all) = n
<1>1. Len(all) \in Nat /\ DOMAIN all = 1 .. Len(all) /\ all \in [1 .. Len(all) -> 1 .. n]
    OBVIOUS
<1>2. all \in Bijection(1 .. Len(all), 1 .. n)
    BY <1>1 DEF Bijection, Injection, Surjection, IsInjective, Range
<1>3. ExistsBijection(1 .. Len(all), 1 .. n)
    BY <1>2 DEF ExistsBijection
<1>4. \A m \in Nat : IsFiniteSet(1 .. m) /\ Cardinality(1 .. m) = m
    <2> TAKE m \in Nat
    <2>1. 1 \in Int /\ m \in Int /\ (IF 1 > m THEN 0 ELSE m - 1 + 1) = m
        OBVIOUS
    <2>2. IsFiniteSet(1 .. m) /\ Cardinality(1 .. m) = IF 1 > m THEN 0 ELSE m - 1 + 1
        BY <2>1, FS_Interval
    <2> QED BY <2>1, <2>2
<1>5. Cardinality(1 .. n) = Cardinality(1 .. Len(all))
    BY <1>1, <1>3, <1>4, FS_Bijection
<1> QED BY <1>1, <1>4, <1>5

LEMMA ReportsOfStored == events \in Stored => EveryReportOnce
<1> SUFFICES ASSUME events \in Stored PROVE EveryReportOnce
    OBVIOUS
<1> DEFINE points == MergeCorroborating(events)
           shown == Shown(points)
<1>1. Merged(events, points, DOMAIN events)
    BY JourneyMerged
<1> HIDE DEF points
<1>2. points \in Seq(Seq(DOMAIN events)) /\ points \in Points(events)
    BY <1>1 DEF Merged, Points
<1>3. /\ Len(points) \in Nat /\ DOMAIN points = 1 .. Len(points)
      /\ \A p \in DOMAIN points : /\ DOMAIN points[p] = 1 .. Len(points[p])
                                  /\ Len(points[p]) \in Nat
                                  /\ \A a \in DOMAIN points[p] : points[p][a] \in DOMAIN events
    BY <1>2, PointsAre
<1>4. Len(events) \in Nat /\ DOMAIN events = 1 .. Len(events)
    BY DEF Stored
<1>5. Distinct(points)
    <2>1. ASSUME NEW p \in DOMAIN points, NEW q \in DOMAIN points,
                 NEW a \in DOMAIN points[p], NEW b \in DOMAIN points[q],
                 points[p][a] = points[q][b]
          PROVE  p = q /\ a = b
        <3>1. p = q
            BY <1>1, <2>1 DEF Merged
        <3>2. \A c, d \in DOMAIN points[p] : c < d => Earlier(events, points[p][c], points[p][d])
            BY <1>1 DEF Merged
        <3>3. ~Earlier(events, points[p][a], points[p][a])
            BY <1>3, Ordered
        <3>4. ~(a < b) /\ ~(b < a)
            BY <2>1, <3>1, <3>2, <3>3
        <3>5. a \in Nat /\ b \in Nat
            BY <1>3, <2>1
        <3> QED BY <3>1, <3>4, <3>5
    <2> QED BY <2>1 DEF Distinct
<1>6. shown \in Seq(DOMAIN events) /\ Lists(shown, points, Len(points))
    BY <1>2, <1>5, ShownLists
<1> HIDE DEF shown
<1>7. Range(shown) = DOMAIN events
    <2>1. \A i \in DOMAIN events : \E p \in DOMAIN points : \E a \in DOMAIN points[p] : points[p][a] = i
        BY <1>1 DEF Merged
    <2>2. \A i \in DOMAIN events : \E a \in DOMAIN shown : shown[a] = i
        BY <1>3, <1>6, <2>1 DEF Lists
    <2>3. \A a \in DOMAIN shown : shown[a] \in DOMAIN events
        BY <1>6
    <2> QED BY <2>2, <2>3 DEF Range
<1>8. Len(shown) = Len(events)
    BY <1>4, <1>6, <1>7, AsManyAsListed DEF Lists
<1>9. ASSUME NEW p \in DOMAIN points, NEW a \in DOMAIN points[p], NEW b \in DOMAIN points[p], a < b
      PROVE  LET kept == events[points[p][1]]  e == events[points[p][a]]  f == events[points[p][b]]
             IN  /\ e.provider # f.provider
                 /\ kept.type = f.type /\ kept.kind = f.kind
                 /\ SamePlaceExactly(kept, f)
                 /\ Dated(kept) /\ f.at - kept.at \in 0 .. Window
    <2> DEFINE i == points[p][a]
               j == points[p][b]
               h == points[p][1]
    <2>1. a \in Nat /\ a # 0 /\ b \in Nat /\ b # 1 /\ 1 \in DOMAIN points[p]
        BY <1>1, <1>3, <1>9 DEF Merged
    <2>2. Joined(events, points, p, a, i) /\ Joined(events, points, p, b, j) /\ Earlier(events, i, j)
        BY <1>1, <1>9 DEF Merged
    <2>3. p \in Open(events, points, j) /\ ~Lone(events[j])
        BY <2>1, <2>2 DEF Joined
    <2>4. /\ Earlier(events, h, j) /\ Dated(events[h]) /\ events[j].at - events[h].at <= Window
          /\ events[h].type = events[j].type /\ events[h].kind = events[j].kind
          /\ SamePlaceExactly(events[h], events[j])
          /\ events[i].provider # events[j].provider
        BY <2>2, <2>3 DEF Open
    <2>6. h \in DOMAIN events /\ j \in DOMAIN events
        BY <1>3, <2>1
    <2>7. events[h].at \in Nat /\ events[j].at \in Nat /\ Window \in Nat /\ events[h].at <= events[j].at
        BY <2>4, <2>6, Ordered, ReportsAssumption
    <2>8. events[j].at - events[h].at \in 0 .. Window
        BY <2>4, <2>7
    <2> QED BY <2>4, <2>8
<1>10. Len(FoldLeft(LAMBDA all, p : all \o p, << >>, points)) = Len(events)
       /\ Range(FoldLeft(LAMBDA all, p : all \o p, << >>, points)) = DOMAIN events
    BY <1>7, <1>8 DEF shown, Shown
<1>11. \A p \in Range(points) : \E q \in DOMAIN points : points[q] = p
    BY DEF Range
<1>12. \A p \in Range(points) : \A a, b \in DOMAIN p :
            a < b => LET kept == events[p[1]]  e == events[p[a]]  f == events[p[b]]
                     IN /\ e.provider # f.provider
                        /\ kept.type = f.type /\ kept.kind = f.kind
                        /\ SamePlaceExactly(kept, f)
                        /\ Dated(kept) /\ f.at - kept.at \in 0 .. Window
    BY <1>9, <1>11
<1> QED BY <1>10, <1>12 DEF EveryReportOnce, points

-----------------------------------------------------------------------------
(* ReadModels: the theorems. *)

LEMMA EventsAreReports == ReadSpec => [](events \in Stored /\ projected.place \in Places)
<1> DEFINE Inv == events \in Stored /\ projected.place \in Places
<1>1. ReadInit => Inv
    BY DEF ReadInit, Stored, Places, Nowhere
<1>2. Inv /\ [ReadNext]_readVars => Inv'
    <2> SUFFICES ASSUME Inv, [ReadNext]_readVars PROVE events' \in Stored /\ projected'.place \in Places
        OBVIOUS
    <2>1. ASSUME NEW r \in Reports, StoreEvent(r) PROVE events' \in Stored /\ projected' = projected
        BY <2>1 DEF StoreEvent, Stored
    <2>2. ASSUME NEW r \in Reports, RefreshEvent(r) PROVE events' \in Stored /\ projected' = projected
        BY <2>2 DEF RefreshEvent, Stored
    <2>3. ASSUME NEW s \in Sightings, Project(s) PROVE events' = events /\ projected'.place \in Places
        BY <2>3, ReportsAssumption DEF Project
    <2>4. CASE UNCHANGED readVars
        BY <2>4 DEF readVars
    <2> QED BY <2>1, <2>2, <2>3, <2>4 DEF ReadNext
<1> QED BY <1>1, <1>2, PTL DEF ReadSpec

(***************************************************************************)
(* The journey loses no event, shows none twice, and lets a point stand    *)
(* for reports of what its first one reports only (tracking/journey.py),   *)
(* however many events of however many providers are stored.               *)
(***************************************************************************)
THEOREM NothingLostInMerging == ReadSpec => []EveryReportOnce
BY EventsAreReports, ReportsOfStored, PTL

(***************************************************************************)
(* The journey, both workspaces, the forecast and the map answer alike, by *)
(* rules written in four modules.                                          *)
(***************************************************************************)
THEOREM ReadersAnswerAlike == ReadSpec => []ReadersAgree
BY EventsAreReports, ReadersOfStored, PTL

(***************************************************************************)
(* Storing a forecast or an undated report moves no container and neither  *)
(* opens nor closes a gap.                                                 *)
(***************************************************************************)
THEOREM ForecastsMoveNothing == ReadSpec => ForecastsDecideNothing
<1> DEFINE P(r) ==
        StoreEvent(r) /\ (Forecast(r) \/ ~Dated(r)) =>
            /\ (Gap(events', projected) = "none") = (Gap(events, projected) = "none")
            /\ LatestObserved(events) # NoEvent =>
                /\ CurrentLocation(events', projected) = CurrentLocation(events, projected)
                /\ CurrentMarker(events', projected) = CurrentMarker(events, projected)
            /\ CurrentMarker(events, projected) = NoMarker =>
                CurrentMarker(events', projected) = NoMarker
<1>1. events \in Stored => [\A r \in Reports : P(r)]_readVars
    BY ForecastOfStored
<1>2. ReadSpec => [][\A r \in Reports : P(r)]_readVars
    BY <1>1, EventsAreReports, PTL
<1> QED BY <1>2 DEF ForecastsDecideNothing

(***************************************************************************)
(* A carrier's observation where we saw the box ends the gap, in whatever  *)
(* order the events arrived (tracking/gaps.py).                            *)
(***************************************************************************)
THEOREM ObservationEndsTheGap == ReadSpec => ExplainedGapCloses
<1> DEFINE P(r) ==
        /\ StoreEvent(r) /\ Actual(r) /\ Dated(r) /\ PlacesMatch(r, projected)
        /\ \A i \in Observations(events) :
             /\ HasAPlace(events[i]) /\ ~PlacesMatch(events[i], projected)
             => events[i].at < r.at - Window
        => Gap(events', projected) = "none"
<1>1. events \in Stored => [\A r \in Reports : P(r)]_readVars
    BY GapOfStored
<1>2. ReadSpec => [][\A r \in Reports : P(r)]_readVars
    BY <1>1, EventsAreReports, PTL
<1> QED BY <1>2 DEF ExplainedGapCloses
=============================================================================
