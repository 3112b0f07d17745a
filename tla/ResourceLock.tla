----------------------------- MODULE ResourceLock -----------------------------
(***************************************************************************)
(* integrations/locks.py: resource_lock(name), for one lock name.          *)
(*                                                                         *)
(* Two locks are combined: a cache key with a TTL, and a PostgreSQL        *)
(* session advisory lock.  A worker is a Celery task or a web request: it  *)
(* has one database session, in which it may take the lock several times   *)
(* in a row, and the session ends with the task.  A connection that broke  *)
(* is replaced in the middle of a body: the body goes on, in a session     *)
(* that owns no advisory lock.                                             *)
(*                                                                         *)
(* The lock is safe when cache operations fail or time out, when the key   *)
(* expires under a run that is still working, when the get and the delete  *)
(* of _safe_cache_delete are not atomic, when an unlock fails, when the    *)
(* database drops the connection of a worker outside the body, and when a  *)
(* worker dies.  A worker that loses its connection inside the body loses  *)
(* the lock with it, and is the one exception to mutual exclusion.         *)
(***************************************************************************)
EXTENDS Naturals

CONSTANTS
    Workers,    \* tasks and requests that may call resource_lock
    NoOne,      \* no key in the cache, or nobody owns the advisory lock
    Orphan,     \* a cache token that no living call will ever compare with
    MaxDepth    \* BOUND: how often one session may stack the advisory lock

ASSUME SentinelAssumption ==
    NoOne \notin Workers /\ Orphan \notin Workers /\ NoOne # Orphan

ASSUME MaxDepthAssumption == MaxDepth \in Nat \ {0}

VARIABLES
    pc,         \* where each worker is in resource_lock
    session,    \* each worker's database connection
    evicted,    \* history: whose connection was dropped in the body it is in
    cache,      \* whose token the cache key holds
    cacheHeld,  \* the local cache_held of each call
    owner,      \* the session that owns the advisory lock
    depth       \* how many times it owns it (PostgreSQL counts)

vars == <<pc, session, evicted, cache, cacheHeld, owner, depth>>

Phases == {"idle", "adding", "locking", "critical", "checking", "deleting", "returned"}

Init ==
    /\ pc = [w \in Workers |-> "idle"]
    /\ session = [w \in Workers |-> "none"]
    /\ evicted = {}
    /\ cache = NoOne
    /\ cacheHeld = [w \in Workers |-> FALSE]
    /\ owner = NoOne
    /\ depth = 0

(***************************************************************************)
(* Workers that run the body of the with block, with whatever connection.  *)
(***************************************************************************)
Inside == {w \in Workers : pc[w] = "critical"}

Goto(w, phase) == pc' = [pc EXCEPT ![w] = phase]

Leave(w) == Goto(w, "checking") /\ evicted' = evicted \ {w}

(***************************************************************************)
(* A token whose call is over stays in the cache as an orphan.             *)
(***************************************************************************)
Abandon(w) == cache' = IF cache = w THEN Orphan ELSE cache

(***************************************************************************)
(* PostgreSQL frees what a session owns when the session ends.             *)
(***************************************************************************)
FreeAdvisory(w) ==
    /\ owner' = IF owner = w THEN NoOne ELSE owner
    /\ depth' = IF owner = w THEN 0 ELSE depth

(***************************************************************************)
(* MUTANT of AdvisoryGrants: whoever took the cache key needs no other     *)
(* lock.                                                                   *)
(***************************************************************************)
CacheKeyGrants(w) == cacheHeld[w] \/ owner \in {NoOne, w}

(***************************************************************************)
(* pg_try_advisory_lock: nobody owns the lock, or this very session does,  *)
(* because an earlier unlock of its own failed.                            *)
(***************************************************************************)
AdvisoryGrants(w) == owner \in {NoOne, w}

(***************************************************************************)
(* pg_advisory_unlock undoes one pg_try_advisory_lock.  In a session that  *)
(* does not own the lock it answers false, which nobody reads.             *)
(***************************************************************************)
AdvisoryRelease(w) ==
    IF owner = w
      THEN /\ owner' = IF depth = 1 THEN NoOne ELSE owner
           /\ depth' = depth - 1
      ELSE UNCHANGED <<owner, depth>>

(***************************************************************************)
(* A task or request calls resource_lock, perhaps not for the first time   *)
(* in its session.                                                         *)
(***************************************************************************)
Call(w) ==
    /\ pc[w] \in {"idle", "returned"}
    /\ Goto(w, "adding")
    /\ session' = [session EXCEPT ![w] = IF pc[w] = "idle" THEN "live" ELSE @]
    /\ UNCHANGED <<evicted, cache, cacheHeld, owner, depth>>

(***************************************************************************)
(* cache.add took the key.                                                 *)
(***************************************************************************)
CacheAdd(w) ==
    /\ pc[w] = "adding"
    /\ cache = NoOne
    /\ cache' = w
    /\ cacheHeld' = [cacheHeld EXCEPT ![w] = TRUE]
    /\ Goto(w, "locking")
    /\ UNCHANGED <<session, evicted, owner, depth>>

(***************************************************************************)
(* The key is there: fast rejection, LockNotAcquiredError.                 *)
(***************************************************************************)
CacheReject(w) ==
    /\ pc[w] = "adding"
    /\ cache # NoOne
    /\ Goto(w, "returned")
    /\ UNCHANGED <<session, evicted, cache, cacheHeld, owner, depth>>

(***************************************************************************)
(* cache.add raised: go on with the advisory lock alone.  The key may have *)
(* been written all the same (a lost reply).                               *)
(***************************************************************************)
CacheUnavailable(w) ==
    /\ pc[w] = "adding"
    /\ cache' \in {cache, IF cache = NoOne THEN Orphan ELSE cache}
    /\ Goto(w, "locking")
    /\ UNCHANGED <<session, evicted, cacheHeld, owner, depth>>

(***************************************************************************)
(* The advisory lock is taken: run the body of the with block.             *)
(***************************************************************************)
AdvisoryLock(w) ==
    /\ pc[w] = "locking"
    /\ session[w] = "live"
    /\ AdvisoryGrants(w)
    /\ depth < MaxDepth
    /\ owner' = w
    /\ depth' = depth + 1
    /\ Goto(w, "critical")
    /\ UNCHANGED <<session, evicted, cache, cacheHeld>>

(***************************************************************************)
(* MUTANT of AdvisoryRefused: fail open once the cache key is taken.       *)
(***************************************************************************)
FailOpen(w) ==
    /\ pc[w] = "locking"
    /\ Goto(w, IF cacheHeld[w] THEN "critical" ELSE "checking")
    /\ UNCHANGED <<session, evicted, cache, cacheHeld, owner, depth>>

(***************************************************************************)
(* The advisory lock was refused, or asking for it raised: hand the key    *)
(* back and raise.                                                         *)
(***************************************************************************)
AdvisoryRefused(w) ==
    /\ pc[w] = "locking"
    /\ Goto(w, "checking")
    /\ UNCHANGED <<session, evicted, cache, cacheHeld, owner, depth>>

(***************************************************************************)
(* The body is over, normally or not: pg_advisory_unlock in finally.       *)
(***************************************************************************)
Unlock(w) ==
    /\ pc[w] = "critical"
    /\ session[w] = "live"
    /\ AdvisoryRelease(w)
    /\ Leave(w)
    /\ UNCHANGED <<session, cache, cacheHeld>>

(***************************************************************************)
(* The unlock raised; the exception is logged and swallowed.               *)
(***************************************************************************)
UnlockFails(w) ==
    /\ pc[w] = "critical"
    /\ Leave(w)
    /\ UNCHANGED <<session, cache, cacheHeld, owner, depth>>

(***************************************************************************)
(* _safe_cache_delete, first half: cache.get(key) == token.                *)
(***************************************************************************)
CheckToken(w) ==
    /\ pc[w] = "checking"
    /\ IF cacheHeld[w] /\ cache = w
         THEN Goto(w, "deleting") /\ UNCHANGED cacheHeld
         ELSE Goto(w, "returned") /\ cacheHeld' = [cacheHeld EXCEPT ![w] = FALSE]
    /\ UNCHANGED <<session, evicted, cache, owner, depth>>

(***************************************************************************)
(* Second half: cache.delete(key), whatever token the key holds by now.    *)
(***************************************************************************)
DeleteKey(w) ==
    /\ pc[w] = "deleting"
    /\ cache' = NoOne
    /\ cacheHeld' = [cacheHeld EXCEPT ![w] = FALSE]
    /\ Goto(w, "returned")
    /\ UNCHANGED <<session, evicted, owner, depth>>

(***************************************************************************)
(* The cache raised in either half: the key waits for its TTL.             *)
(***************************************************************************)
DeleteFails(w) ==
    /\ pc[w] \in {"checking", "deleting"}
    /\ cacheHeld[w]
    /\ Abandon(w)
    /\ cacheHeld' = [cacheHeld EXCEPT ![w] = FALSE]
    /\ Goto(w, "returned")
    /\ UNCHANGED <<session, evicted, owner, depth>>

(***************************************************************************)
(* The task or request ends and Django closes its connection.              *)
(***************************************************************************)
EndSession(w) ==
    /\ pc[w] = "returned"
    /\ Goto(w, "idle")
    /\ session' = [session EXCEPT ![w] = "none"]
    /\ FreeAdvisory(w)
    /\ UNCHANGED <<evicted, cache, cacheHeld>>

(***************************************************************************)
(* The database drops a connection, and frees what its session owned.      *)
(* Statements raise until Django has noticed.                              *)
(***************************************************************************)
LoseSession(w) ==
    /\ session[w] = "live"
    /\ session' = [session EXCEPT ![w] = "dead"]
    /\ evicted' = IF pc[w] = "critical" THEN evicted \cup {w} ELSE evicted
    /\ FreeAdvisory(w)
    /\ UNCHANGED <<pc, cache, cacheHeld>>

(***************************************************************************)
(* The rollback of an outermost atomic() failed, so Django closed the      *)
(* connection, and the next statement opens another.  The code under the   *)
(* lock catches what one item raises and takes the next                    *)
(* (tracking/ingestion.py:408-419, procurement/services.py:189-217): it    *)
(* goes on, and writes, in a session that owns nothing.                    *)
(***************************************************************************)
Reconnect(w) ==
    /\ session[w] = "dead"
    /\ session' = [session EXCEPT ![w] = "live"]
    /\ UNCHANGED <<pc, evicted, cache, cacheHeld, owner, depth>>

(***************************************************************************)
(* A worker process dies: the advisory lock goes with its connection, the  *)
(* cache key stays until its TTL.                                          *)
(***************************************************************************)
Crash(w) ==
    /\ pc[w] # "idle"
    /\ Goto(w, "idle")
    /\ session' = [session EXCEPT ![w] = "none"]
    /\ Abandon(w)
    /\ cacheHeld' = [cacheHeld EXCEPT ![w] = FALSE]
    /\ evicted' = evicted \ {w}
    /\ FreeAdvisory(w)

(***************************************************************************)
(* MUTANT of Expire: cache.add without a timeout.                          *)
(***************************************************************************)
NoTTL == FALSE

(***************************************************************************)
(* The TTL of the key runs out, perhaps under a run that still holds it.   *)
(***************************************************************************)
Expire ==
    /\ cache # NoOne
    /\ cache' = NoOne
    /\ UNCHANGED <<pc, session, evicted, cacheHeld, owner, depth>>

(***************************************************************************)
(* The steps of a call that has begun; the others are the environment's.   *)
(***************************************************************************)
CallStep(w) ==
    \/ CacheAdd(w) \/ CacheReject(w) \/ CacheUnavailable(w)
    \/ AdvisoryLock(w) \/ AdvisoryRefused(w)
    \/ Unlock(w) \/ UnlockFails(w)
    \/ CheckToken(w) \/ DeleteKey(w) \/ DeleteFails(w)

Next ==
    \/ \E w \in Workers :
          \/ CallStep(w) \/ Call(w) \/ EndSession(w)
          \/ LoseSession(w) \/ Reconnect(w) \/ Crash(w)
    \/ Expire

Spec == Init /\ [][Next]_vars

(***************************************************************************)
(* A call that has begun goes on; a task makes finitely many calls, so its *)
(* session ends although it may call again first; a TTL runs out.          *)
(***************************************************************************)
Fairness ==
    /\ \A w \in Workers : WF_vars(CallStep(w)) /\ SF_vars(EndSession(w))
    /\ WF_vars(Expire)

FairSpec == Spec /\ Fairness
-------------------------------------------------------------------------------
TypeOK ==
    /\ pc \in [Workers -> Phases]
    /\ session \in [Workers -> {"none", "live", "dead"}]
    /\ evicted \subseteq Workers
    /\ cache \in Workers \cup {NoOne, Orphan}
    /\ cacheHeld \in [Workers -> BOOLEAN]
    /\ owner \in Workers \cup {NoOne}
    /\ depth \in 0 .. MaxDepth

(***************************************************************************)
(* Two workers run the protected body at once only if one of them lost its *)
(* connection in it, whatever the cache did (locks.py, "must not run twice *)
(* concurrently", and where that ends).                                    *)
(***************************************************************************)
MutualExclusion == \A v, w \in Inside : v = w \/ {v, w} \cap evicted # {}

(***************************************************************************)
(* "If no safe lock can be taken we raise instead of proceeding            *)
(* unprotected": whoever is in the body owns the advisory lock, in the     *)
(* session it has now, unless its connection was dropped since it entered; *)
(* and then it never owns the lock again while it is in.  This is what     *)
(* makes MutualExclusion inductive.                                        *)
(***************************************************************************)
NeverUnprotected ==
    /\ evicted \subseteq Inside
    /\ \A w \in Inside : owner = w <=> w \notin evicted
    /\ owner = NoOne <=> depth = 0
    /\ owner # NoOne => session[owner] = "live"

(***************************************************************************)
(* The two locks together implement one lock that may be lost, and is lost *)
(* with the connection only: nobody enters beside a worker that has it.    *)
(***************************************************************************)
AbstractLock == INSTANCE ExclusiveHolder WITH holders <- Inside

ImplementsExclusiveHolder == AbstractLock!Spec

(***************************************************************************)
(* "A crash never leaves a permanent stale lock": again and again, the     *)
(* lock is free for the next caller or somebody is working under it.       *)
(* Crashes, lost connections, failed unlocks and failed deletes are all in *)
(* play.                                                                   *)
(***************************************************************************)
Available == cache = NoOne /\ owner = NoOne

NoPermanentStaleLock == []<>(Available \/ Inside \ evicted # {})
===============================================================================
