----------------------------- MODULE TrackingSync -----------------------------
(***************************************************************************)
(* The life of tracking subscriptions: the dispatcher that queues a task   *)
(* for each due one (tracking/tasks.py, tracking/selectors.py), the sync   *)
(* cycle a worker runs under the lock of the subscription                  *)
(* (tracking/sync.py, tracking/services.py), and the people who pause,     *)
(* resume, cancel, refresh and activate at any moment (tracking/views.py,  *)
(* tracking/source_switch.py, tracking/manual_refresh.py).                 *)
(*                                                                         *)
(* Activation stores an answer that was fetched before there was a run     *)
(* (store_discovered_carrier_source, store_traqo_container_result): it     *)
(* runs the same cycle on a row it got or created, without the lock.       *)
(*                                                                         *)
(* A worker reads the row before it takes the lock and keeps that instance *)
(* to the end of the cycle; every save names its columns, so a cycle never *)
(* writes a column back that it did not mean to, but it computes the       *)
(* failure counter from the instance.                                      *)
(*                                                                         *)
(* The lock is the one ResourceLock implements, taken as a whole.  A       *)
(* worker that dies may leave its cache key behind (Lingering).            *)
(***************************************************************************)
EXTENDS Naturals, FiniteSets

CONSTANTS
    Subs,         \* subscriptions whose provider the poller can fetch
    Workers,      \* Celery processes and web threads
    NoJob,        \* what an idle worker works on
    Free,         \* nobody holds the lock of a subscription
    Lingering,    \* the cache key of a worker that died still stands
    Requests,     \* BOUND: what people ask for besides pausing and resuming
    MaxQueued,    \* BOUND: tasks in the broker for one subscription
    MaxFailures,  \* BOUND: where consecutive_failures stops counting
    MaxCrashes    \* BOUND: workers that die or abort in the middle

ASSUME LockValuesDiffer == Free \notin Workers /\ Lingering \notin Workers /\ Free # Lingering

ASSUME RequestsAreKnown == Requests \subseteq {"sync", "refresh", "answer"}

ASSUME BoundsAreNaturals ==
    MaxQueued \in Nat /\ MaxFailures \in Nat \ {0} /\ MaxCrashes \in Nat

VARIABLES
    status,     \* TrackingSubscription.status
    failures,   \* consecutive_failures
    nextSync,   \* next_sync_at: NULL, in the past, or in the future
    stale,      \* updated_at is more than STALE_SYNCING_MINUTES ago
    delivered,  \* the stored events say the journey is over
    queue,      \* tasks the dispatcher queued and no worker took yet
    lock,       \* the lock of each subscription
    phase,      \* how far each worker is
    job,        \* its subscription, whether it brings an answer, and the instance it loaded
    outcome,    \* what its fetch achieved
    orphaned,   \* HISTORY: a worker died and left the row in SYNCING
    crashes

row == <<status, failures, nextSync, stale>>
vars == <<status, failures, nextSync, stale, delivered, queue, lock, phase, job,
          outcome, orphaned, crashes>>

Statuses == {"ACTIVE", "SYNCING", "FAILED", "PAUSED", "COMPLETED", "CANCELLED"}
Phases == {"idle", "loaded", "locked", "running", "fetched", "updated", "done"}
Outcomes == {"none", "success", "failed", "skipped"}

Jobs == [sub : Subs, answered : BOOLEAN, failures : 0 .. MaxFailures]

ASSUME NoJobIsNoJob == NoJob \notin Jobs

(***************************************************************************)
(* create_tracking_subscription: next_sync_at is NULL, which means now.    *)
(***************************************************************************)
Init ==
    /\ status = [s \in Subs |-> "ACTIVE"]
    /\ failures = [s \in Subs |-> 0]
    /\ nextSync = [s \in Subs |-> "null"]
    /\ stale = [s \in Subs |-> FALSE]
    /\ delivered = [s \in Subs |-> FALSE]
    /\ queue = [s \in Subs |-> 0]
    /\ lock = [s \in Subs |-> Free]
    /\ phase = [w \in Workers |-> "idle"]
    /\ job = [w \in Workers |-> NoJob]
    /\ outcome = [w \in Workers |-> "none"]
    /\ orphaned = [s \in Subs |-> FALSE]
    /\ crashes = 0

Goto(w, p) == phase' = [phase EXCEPT ![w] = p]

(***************************************************************************)
(* Every save of the status lists updated_at, and so restarts the clock of *)
(* the stale cutoff.                                                       *)
(***************************************************************************)
SaveStatus(s, value) ==
    /\ status' = [status EXCEPT ![s] = value]
    /\ stale' = [stale EXCEPT ![s] = FALSE]
    /\ orphaned' = [orphaned EXCEPT ![s] = FALSE]

Between(w) == phase[w] \in {"running", "fetched"}

Runs(s) == {w \in Workers : Between(w) /\ job[w].sub = s}

HasAnswer(w) == job[w] # NoJob /\ job[w].answered
-------------------------------------------------------------------------------
(***************************************************************************)
(* MUTANT of Due: a row in SYNCING is never due.                           *)
(***************************************************************************)
DueUnlessSyncing(s) ==
    status[s] \in {"ACTIVE", "FAILED"} /\ nextSync[s] # "future"

(***************************************************************************)
(* get_due_tracking_subscriptions.                                         *)
(***************************************************************************)
Due(s) ==
    /\ status[s] \in {"ACTIVE", "FAILED"} \/ (status[s] = "SYNCING" /\ stale[s])
    /\ nextSync[s] # "future"

Room(s) == queue[s] < MaxQueued

(***************************************************************************)
(* dispatch_due_tracking_subscriptions, when the cap does not bite.        *)
(***************************************************************************)
Dispatch ==
    /\ \E s \in Subs : Due(s) /\ Room(s)
    /\ queue' = [s \in Subs |-> IF Due(s) /\ Room(s) THEN queue[s] + 1 ELSE queue[s]]
    /\ UNCHANGED <<row, delivered, lock, phase, job, outcome, orphaned, crashes>>

LoadInstance(w, s, answered) ==
    /\ phase[w] = "idle"
    /\ job' = [job EXCEPT ![w] = [sub |-> s, answered |-> answered, failures |-> failures[s]]]
    /\ Goto(w, "loaded")
    /\ UNCHANGED <<status, failures, nextSync, delivered, lock, outcome, orphaned, crashes>>

(***************************************************************************)
(* sync_single_tracking_subscription: load the row by id, whatever its     *)
(* status and its next_sync_at have become since it was queued.            *)
(***************************************************************************)
TakeTask(w, s) ==
    /\ queue[s] > 0
    /\ queue' = [queue EXCEPT ![s] = @ - 1]
    /\ LoadInstance(w, s, FALSE)
    /\ UNCHANGED stale

(***************************************************************************)
(* A person asks for this very watch to be synced now (manual_sync, which  *)
(* checks no status, or an activation that has no answer yet).             *)
(***************************************************************************)
AskForSync(w, s) ==
    /\ "sync" \in Requests
    /\ LoadInstance(w, s, FALSE)
    /\ UNCHANGED <<queue, stale>>

(***************************************************************************)
(* A person refreshes the container: every watch but a cancelled one.      *)
(***************************************************************************)
RefreshContainer(w, s) ==
    /\ "refresh" \in Requests
    /\ status[s] # "CANCELLED"
    /\ LoadInstance(w, s, FALSE)
    /\ UNCHANGED <<queue, stale>>

(***************************************************************************)
(* A person chooses this source, or discovery finds it, and its answer is  *)
(* already here.  get_or_create_container_subscription loads the row, of   *)
(* any status, and saves it if the answer says more about the carrier.     *)
(***************************************************************************)
BringAnswer(w, s) ==
    /\ "answer" \in Requests
    /\ LoadInstance(w, s, TRUE)
    /\ stale' \in {stale, [stale EXCEPT ![s] = FALSE]}
    /\ UNCHANGED queue
-------------------------------------------------------------------------------
(***************************************************************************)
(* MUTANT of LockGrants: the SYNCING status is taken for the lock.         *)
(***************************************************************************)
StatusGrants(s) == status[s] # "SYNCING" \/ stale[s]

(***************************************************************************)
(* resource_lock lets the caller in.                                       *)
(***************************************************************************)
LockGrants(s) == lock[s] = Free

Forget(w) ==
    /\ job' = [job EXCEPT ![w] = NoJob]
    /\ outcome' = [outcome EXCEPT ![w] = "none"]
    /\ Goto(w, "idle")

AcquireLock(w) ==
    /\ phase[w] = "loaded"
    /\ ~ HasAnswer(w)
    /\ LockGrants(job[w].sub)
    /\ lock' = [lock EXCEPT ![job[w].sub] = w]
    /\ Goto(w, "locked")
    /\ UNCHANGED <<row, delivered, queue, job, outcome, orphaned, crashes>>

(***************************************************************************)
(* LockNotAcquiredError: no run is recorded, the task is consumed.         *)
(***************************************************************************)
GiveUp(w) ==
    /\ phase[w] = "loaded"
    /\ ~ HasAnswer(w)
    /\ ~ LockGrants(job[w].sub)
    /\ Forget(w)
    /\ UNCHANGED <<row, delivered, queue, lock, orphaned, crashes>>

(***************************************************************************)
(* create_sync_run: the run is STARTED, the row SYNCING.  Whoever brings   *)
(* an answer comes here without the lock.                                  *)
(***************************************************************************)
BeginRun(w) ==
    /\ phase[w] = IF HasAnswer(w) THEN "loaded" ELSE "locked"
    /\ SaveStatus(job[w].sub, "SYNCING")
    /\ Goto(w, "running")
    /\ UNCHANGED <<failures, nextSync, delivered, queue, lock, job, outcome, crashes>>

(***************************************************************************)
(* _fetch_normalise_and_store, or store_verified_carrier_result, and       *)
(* finish_sync_run.  Events are stored only by an attempt that succeeds,   *)
(* and may be the last ones of the journey.                                *)
(***************************************************************************)
Fetch(w) ==
    /\ phase[w] = "running"
    /\ \E result \in IF HasAnswer(w) THEN {"success"} ELSE Outcomes \ {"none"} :
          /\ outcome' = [outcome EXCEPT ![w] = result]
          /\ \/ UNCHANGED delivered
             \/ result = "success" /\ delivered' = [delivered EXCEPT ![job[w].sub] = TRUE]
    /\ Goto(w, "fetched")
    /\ UNCHANGED <<row, queue, lock, job, orphaned, crashes>>

OneMore(n) == IF n < MaxFailures THEN n + 1 ELSE n

(***************************************************************************)
(* consecutive_failures after the attempt, counted from the instance.      *)
(***************************************************************************)
FailuresAfter(w) ==
    CASE outcome[w] = "success" -> 0
      [] outcome[w] = "failed" -> OneMore(job[w].failures)
      [] OTHER -> failures[job[w].sub]

(***************************************************************************)
(* MUTANT of Reschedule: a failed attempt forgets to schedule a retry and  *)
(* leaves the row in SYNCING.                                              *)
(***************************************************************************)
RescheduleSuccess(w) ==
    IF outcome[w] = "failed" THEN UNCHANGED <<status, stale, orphaned, nextSync>>
    ELSE /\ SaveStatus(job[w].sub, "ACTIVE")
         /\ nextSync' = [nextSync EXCEPT ![job[w].sub] = "future"]

(***************************************************************************)
(* The status and the next poll that update_subscription_sync_state saves. *)
(***************************************************************************)
Reschedule(w) ==
    /\ SaveStatus(job[w].sub, IF outcome[w] = "failed" THEN "FAILED" ELSE "ACTIVE")
    /\ nextSync' = [nextSync EXCEPT ![job[w].sub] = "future"]

(***************************************************************************)
(* apply_sync_outcome, its one save of the subscription.                   *)
(***************************************************************************)
ApplyOutcome(w) ==
    /\ phase[w] = "fetched"
    /\ Reschedule(w)
    /\ failures' = [failures EXCEPT ![job[w].sub] = FailuresAfter(w)]
    /\ Goto(w, "updated")
    /\ UNCHANGED <<delivered, queue, lock, job, outcome, crashes>>

(***************************************************************************)
(* MUTANT of Complete: complete_tracking_subscription changes the status   *)
(* only.                                                                   *)
(***************************************************************************)
CompleteStatusOnly(s) == SaveStatus(s, "COMPLETED") /\ UNCHANGED nextSync

(***************************************************************************)
(* complete_tracking_subscription.                                         *)
(***************************************************************************)
Complete(s) ==
    /\ SaveStatus(s, "COMPLETED")
    /\ nextSync' = [nextSync EXCEPT ![s] = "null"]

(***************************************************************************)
(* MUTANT of CompleteIfTerminal: the completion is decided first, and the  *)
(* state update that follows writes over it.                               *)
(***************************************************************************)
CompletionOverwritten(w) ==
    /\ phase[w] = "updated"
    /\ Goto(w, "done")
    /\ UNCHANGED <<row, orphaned, delivered, queue, lock, job, outcome, crashes>>

(***************************************************************************)
(* _complete_if_terminal, after a success only.                            *)
(***************************************************************************)
CompleteIfTerminal(w) ==
    /\ phase[w] = "updated"
    /\ IF outcome[w] = "success" /\ delivered[job[w].sub]
         THEN Complete(job[w].sub)
         ELSE UNCHANGED <<status, stale, orphaned, nextSync>>
    /\ Goto(w, "done")
    /\ UNCHANGED <<failures, delivered, queue, lock, job, outcome, crashes>>

ReleaseLock(w) ==
    /\ phase[w] = "done"
    /\ lock' = IF HasAnswer(w) THEN lock ELSE [lock EXCEPT ![job[w].sub] = Free]
    /\ Forget(w)
    /\ UNCHANGED <<row, delivered, queue, orphaned, crashes>>
-------------------------------------------------------------------------------
HoldsLock(w) ==
    phase[w] \in {"locked", "running", "fetched", "updated", "done"} /\ ~ HasAnswer(w)

(***************************************************************************)
(* A worker dies, or a save raises and the exception leaves the cycle.     *)
(* Tasks are acknowledged early, so the broker does not send it again.     *)
(***************************************************************************)
Crash(w) ==
    /\ phase[w] # "idle"
    /\ crashes < MaxCrashes
    /\ crashes' = crashes + 1
    /\ IF HoldsLock(w)
         THEN \E after \in {Free, Lingering} : lock' = [lock EXCEPT ![job[w].sub] = after]
         ELSE UNCHANGED lock
    /\ orphaned' = IF Between(w) /\ status[job[w].sub] = "SYNCING"
                     THEN [orphaned EXCEPT ![job[w].sub] = TRUE] ELSE orphaned
    /\ Forget(w)
    /\ UNCHANGED <<row, delivered, queue>>

(***************************************************************************)
(* MUTANT of LockExpires: the cache key has no TTL.                        *)
(***************************************************************************)
NoTTL(s) == FALSE

LockExpires(s) ==
    /\ lock[s] = Lingering
    /\ lock' = [lock EXCEPT ![s] = Free]
    /\ UNCHANGED <<row, delivered, queue, phase, job, outcome, orphaned, crashes>>

ClockReachesNextSync(s) ==
    /\ nextSync[s] = "future"
    /\ nextSync' = [nextSync EXCEPT ![s] = "past"]
    /\ UNCHANGED <<status, failures, stale, delivered, queue, lock, phase, job,
                   outcome, orphaned, crashes>>

ClockPassesStaleCutoff(s) ==
    /\ status[s] = "SYNCING"
    /\ ~ stale[s]
    /\ stale' = [stale EXCEPT ![s] = TRUE]
    /\ UNCHANGED <<status, failures, nextSync, delivered, queue, lock, phase, job,
                   outcome, orphaned, crashes>>
-------------------------------------------------------------------------------
Decide(s, value) ==
    /\ status[s] # value
    /\ SaveStatus(s, value)
    /\ UNCHANGED <<failures, nextSync, delivered, queue, lock, phase, job, outcome, crashes>>

(***************************************************************************)
(* pause_tracking_subscription, and _pause_superseded_watches for each of  *)
(* the watches another source replaces.  No lock, no check of the status.  *)
(***************************************************************************)
Pause(s) == Decide(s, "PAUSED")

Resume(s) == Decide(s, "ACTIVE")

Cancel(s) == Decide(s, "CANCELLED")
-------------------------------------------------------------------------------
CycleStep(w) ==
    \/ AcquireLock(w) \/ GiveUp(w) \/ BeginRun(w) \/ Fetch(w)
    \/ ApplyOutcome(w) \/ CompleteIfTerminal(w) \/ ReleaseLock(w)

Clock(s) == LockExpires(s) \/ ClockReachesNextSync(s) \/ ClockPassesStaleCutoff(s)

Person(s) == Pause(s) \/ Resume(s) \/ Cancel(s)

Next ==
    \/ Dispatch
    \/ \E s \in Subs : Clock(s) \/ Person(s)
    \/ \E w \in Workers :
          \/ \E s \in Subs :
                TakeTask(w, s) \/ AskForSync(w, s) \/ RefreshContainer(w, s) \/ BringAnswer(w, s)
          \/ CycleStep(w)
          \/ Crash(w)

Spec == Init /\ [][Next]_vars

(***************************************************************************)
(* Beat ticks for ever; time passes; a cycle that began goes on (every     *)
(* carrier call has a timeout); a queued task is taken although people     *)
(* keep the workers busy; and a carrier that is asked again and again      *)
(* sometimes answers.                                                      *)
(***************************************************************************)
Answer(w) == Fetch(w) /\ outcome'[w] = "success"

Fairness ==
    /\ WF_vars(Dispatch)
    /\ \A s \in Subs :
          /\ WF_vars(LockExpires(s))
          /\ WF_vars(ClockReachesNextSync(s))
          /\ WF_vars(ClockPassesStaleCutoff(s))
          /\ SF_vars(\E w \in Workers : TakeTask(w, s))
    /\ \A w \in Workers : WF_vars(CycleStep(w)) /\ SF_vars(Answer(w))

FairSpec == Spec /\ Fairness
-------------------------------------------------------------------------------
TypeOK ==
    /\ status \in [Subs -> Statuses]
    /\ failures \in [Subs -> 0 .. MaxFailures]
    /\ nextSync \in [Subs -> {"null", "past", "future"}]
    /\ stale \in [Subs -> BOOLEAN]
    /\ delivered \in [Subs -> BOOLEAN]
    /\ queue \in [Subs -> 0 .. MaxQueued]
    /\ lock \in [Subs -> Workers \cup {Free, Lingering}]
    /\ phase \in [Workers -> Phases]
    /\ job \in [Workers -> Jobs \cup {NoJob}]
    /\ outcome \in [Workers -> Outcomes]
    /\ orphaned \in [Subs -> BOOLEAN]
    /\ crashes \in 0 .. MaxCrashes
    /\ \A w \in Workers : phase[w] = "idle" <=> job[w] = NoJob

(***************************************************************************)
(* The cycles of one subscription that are subject to the sync lock never  *)
(* overlap, although a slow one becomes due again, people resume, pause    *)
(* and refresh meanwhile, and a cycle without the lock may do anything.    *)
(***************************************************************************)
OneLockedRun == \A s \in Subs : \A v, w \in Runs(s) : HasAnswer(v) \/ HasAnswer(w) \/ v = w

(***************************************************************************)
(* A row that says SYNCING is being synced, or its worker died: no order   *)
(* of pause, resume, cancel and sync steps strands it there.               *)
(***************************************************************************)
SyncingMeansRunning ==
    \A s \in Subs : status[s] = "SYNCING" => Runs(s) # {} \/ orphaned[s]

(***************************************************************************)
(* "Clearing next_sync_at is part of completing": a completed watch has no *)
(* poll scheduled, whatever else was in flight when it completed.          *)
(***************************************************************************)
CompletedIsUnscheduled ==
    \A s \in Subs : status[s] = "COMPLETED" => nextSync[s] = "null"

(***************************************************************************)
(* "Otherwise a crashed sync would starve the subscription forever": a row *)
(* left in SYNCING by a worker that died gets out of it again.             *)
(***************************************************************************)
CrashedSyncRecovers == \A s \in Subs : orphaned[s] ~> ~ orphaned[s]

(***************************************************************************)
(* A due subscription is polled, or a person takes it off the poller.      *)
(***************************************************************************)
DueIsSynced ==
    \A s \in Subs :
        Due(s) ~> (Runs(s) # {} \/ status[s] \in {"PAUSED", "COMPLETED", "CANCELLED"})

(***************************************************************************)
(* A watch whose journey is over completes, unless people keep it stopped: *)
(* a crash before the completion, failures and a race with a cycle that    *)
(* has no lock only delay it.                                              *)
(***************************************************************************)
DeliveredCompletes ==
    \A s \in Subs :
        <>[](delivered[s] /\ status[s] \notin {"PAUSED", "CANCELLED"})
            => []<>(status[s] = "COMPLETED")
===============================================================================
