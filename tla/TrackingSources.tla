-------------------------- MODULE TrackingSources --------------------------
(***************************************************************************)
(* How one container comes by its tracking sources. A refresh syncs the    *)
(* watches the container has, or, when it has none, resolves the carrier,  *)
(* routes to a provider and activates it; a gap the refreshed sources      *)
(* leave makes it sweep the team's other carriers; an administrator may    *)
(* choose the provider, which activates it and pauses the others.          *)
(* tracking/manual_refresh.py, continuation.py, activation.py,             *)
(* provider_routing.py, source_switch.py and preferences.py,               *)
(* integrations/carriers/carrier_resolution.py and carrier_discovery.py.   *)
(*                                                                         *)
(* A sync is one step here: TrackingSync has what happens inside it.       *)
(***************************************************************************)
EXTENDS Naturals, Sequences, FiniteSets

CONSTANTS
    Requests,       \* web requests about the container, each in its own thread
    Carriers,       \* registered carriers; the order of their codes is that of the numbers
    Connected,      \* those the team has an active integration with
    Covered,        \* those the aggregator publishes a sealine for; {}: not configured
    Knowing,        \* those that have data about this container
    Guesses,        \* those a lookup may name without having seen the container
    Hint,           \* the carrier the plan or the shipment names, or None
    Aggregator,     \* the aggregating provider (traqo)
    None,
    MaxActs,        \* bound: switches, promotions, decisions about a watch, moves of the box
    MaxFaults,      \* bound: calls that fail, processes that die
    MaxTrouble      \* bound: acts and faults together

ASSUME SourcesAssumption ==
    /\ Carriers \subseteq Nat
    /\ Connected \subseteq Carriers /\ Covered \subseteq Carriers
    /\ Knowing \subseteq Carriers /\ Guesses \subseteq Carriers
    /\ Hint \in Carriers \cup {None}
    /\ Aggregator \notin Carriers /\ None \notin Carriers \cup {Aggregator} \cup Requests
    /\ MaxActs \in Nat /\ MaxFaults \in Nat /\ MaxTrouble \in Nat

VARIABLES
    watches,    \* the container's subscriptions, oldest first
    override,   \* the provider an administrator chose for it, or None
    gap,        \* whether the journey contradicts itself (gaps.py)
    cooling,    \* whether a sweep claimed its cooldown in the last hour
    lock,       \* who took the per-container sweep lock, or None
    requests,   \* how far each request has come
    acts, faults

vars == <<watches, override, gap, cooling, lock, requests, acts, faults>>

Providers == Carriers \cup {Aggregator}

(* At "Discovery" and "Sweep" a request is about to try the lock. *)
Places == {"Idle", "Syncing", "Discovery", "Sweep", "Resolving", "Sweeping", "Fetching",
           "Getting", "Creating", "Storing", "Pausing"}

Watches == [provider : Providers, carrier : Carriers \cup {None},
            status : {"ACTIVE", "FAILED", "PAUSED", "CANCELLED"},
            recent : BOOLEAN,       \* synced within RECENTLY_CHECKED_MINUTES
            answered : BOOLEAN,     \* it has returned events of this container
            by : {"Refresh", "Switch", "Promotion"}]

(* A request: why it runs, where it is, whether it runs under the sweep    *)
(* lock, the sources still to sync, the provider and carrier it was routed *)
(* to, whose payload it holds, the row it found or made, and the override  *)
(* as it read it.                                                          *)
Asking == [by : {"Refresh", "Switch", "Promotion"}, at : Places, locked : BOOLEAN,
           todo : SUBSET Nat, provider : Providers \cup {None}, carrier : Carriers \cup {None},
           payload : Providers \cup {None}, watch : Nat, choice : Providers \cup {None}]

Resting == [by |-> "Refresh", at |-> "Idle", locked |-> FALSE, todo |-> {}, provider |-> None,
            carrier |-> None, payload |-> None, watch |-> 0, choice |-> None]

Init ==
    /\ watches = <<>> /\ override = None /\ gap = FALSE /\ cooling = FALSE /\ lock = None
    /\ requests = [r \in Requests |-> Resting]
    /\ acts = 0 /\ faults = 0

-----------------------------------------------------------------------------
(* Reading the watches *)

Verified == {i \in 1..Len(watches) : watches[i].status # "CANCELLED"}

(* The carrier a watch is about, and so the one a sweep need not ask. *)
CarrierOf(w) == IF w.carrier = None /\ w.provider # Aggregator THEN w.provider ELSE w.carrier

RecentlyChecked == {CarrierOf(watches[i]) : i \in {j \in Verified : watches[j].recent}} \ {None}

Oldest(rows) == CHOOSE i \in rows : \A j \in rows : i <= j

Named == {i \in Verified : watches[i].carrier # None}

(* The carrier already known, if any: the newest watch's, else the hint. *)
Trusted ==
    IF Named = {} THEN {Hint} \ {None}
    ELSE {watches[i].carrier : i \in {j \in Named : \A k \in Named : k <= j}}

Allowed == (IF Covered # {} THEN {Aggregator} ELSE {}) \cup (Trusted \cap Connected)

(* The provider to fetch a carrier's tracking through: the chosen one or   *)
(* none, else the carrier's own interface, else the aggregator.            *)
RouteOf(choice, c) ==
    CASE choice = Aggregator -> IF c \in Covered THEN Aggregator ELSE None
      [] choice \in Carriers -> IF choice = c /\ c \in Connected THEN c ELSE None
      [] OTHER               -> IF c \in Connected THEN c
                                ELSE IF c \in Covered THEN Aggregator ELSE None

(* A sync that succeeds: the provider's answer, even one without data. *)
Answer(w) == [w EXCEPT !.status = "ACTIVE", !.recent = TRUE,
                       !.answered = @ \/ CarrierOf(w) \in Knowing]

-----------------------------------------------------------------------------
(* Requests *)

Go(r, place) == requests' = [requests EXCEPT ![r].at = place]

Finish(r) ==
    /\ requests' = [requests EXCEPT ![r] = Resting]
    /\ lock' = IF requests[r].locked THEN None ELSE lock

Fault == faults < MaxFaults /\ acts + faults < MaxTrouble /\ faults' = faults + 1

(* MUTANT of LockFree: a discovery or a sweep that asks for no lock. *)
LockNotAsked == TRUE

LockFree == lock = None

(* refresh_container_tracking: the watches to sync, or a discovery. What   *)
(* the request read of the container it keeps to its end.                  *)
Press(r) ==
    /\ requests[r].at = "Idle"
    /\ requests' = [requests EXCEPT ![r] =
           [Resting EXCEPT !.at = IF Verified = {} THEN "Discovery" ELSE "Syncing",
                           !.todo = Verified, !.choice = override]]
    /\ UNCHANGED <<watches, override, gap, cooling, lock, acts, faults>>

(* The lock is tried after the watches were read, and nothing reads them   *)
(* again: another refresh may have made one in between.                    *)
TakeLock(r) ==
    /\ requests[r].at \in {"Discovery", "Sweep"}
    /\ \/ /\ LockFree
          /\ requests' = [requests EXCEPT
                 ![r].at = IF @ = "Sweep" THEN "Sweeping" ELSE "Resolving", ![r].locked = TRUE]
          /\ lock' = r
       \/ /\ ~LockFree
          /\ Finish(r)
    /\ UNCHANGED <<watches, override, gap, cooling, acts, faults>>

Syncing(r) == requests[r].at = "Syncing" /\ requests[r].todo # {}

Synced(r) == requests' = [requests EXCEPT ![r].todo = @ \ {Oldest(@)}]

SyncSource(r) ==
    /\ Syncing(r)
    /\ LET i == Oldest(requests[r].todo)
       IN  watches' = [watches EXCEPT ![i] = Answer(@)]
    /\ Synced(r)
    /\ UNCHANGED <<override, gap, cooling, lock, acts, faults>>

(* The provider fails, or another run of the subscription is under way. *)
SyncFails(r) ==
    /\ Syncing(r) /\ Fault
    /\ LET i == Oldest(requests[r].todo)
       IN  watches' \in {watches, [watches EXCEPT ![i].status = "FAILED"]}
    /\ Synced(r)
    /\ UNCHANGED <<override, gap, cooling, lock, acts>>

Extending(r) == requests[r].at = "Syncing" /\ requests[r].todo = {}

NothingToExtend(r) ==
    /\ Extending(r) /\ (~gap \/ cooling)
    /\ Finish(r)
    /\ UNCHANGED <<watches, override, gap, cooling, acts, faults>>

(* The cooldown is claimed before the lock is tried: a sweep that is then  *)
(* refused the lock has spent it.                                          *)
Extend(r) ==
    /\ Extending(r) /\ gap /\ ~cooling
    /\ cooling' = TRUE
    /\ Go(r, "Sweep")
    /\ UNCHANGED <<watches, override, gap, lock, acts, faults>>

(* MUTANT of Asked: the sources just refreshed are not left out. *)
AskedAgain == Connected

Asked == Connected \ RecentlyChecked

(* Resolved to a carrier: on to its provider, if there is one that can be  *)
(* asked, with the payload that proved it if there is one. The aggregator  *)
(* is asked before anything is written.                                    *)
Activate(r, c, provider, payload) ==
    IF provider = None
    THEN Finish(r)
    ELSE /\ requests' = [requests EXCEPT
                 ![r].carrier = c, ![r].provider = provider, ![r].payload = payload,
                 ![r].at = IF provider = Aggregator /\ payload # Aggregator
                           THEN "Fetching" ELSE "Getting"]
         /\ UNCHANGED lock

SweepFinds(r) ==
    /\ requests[r].at = "Sweeping"
    /\ \E c \in Asked \cap Knowing :
          /\ \A d \in Asked \cap Knowing : c <= d
          /\ Activate(r, c, c, c)
    /\ UNCHANGED <<watches, override, gap, cooling, acts, faults>>

SweepMisses(r) ==
    /\ requests[r].at = "Sweeping" /\ Asked \cap Knowing = {}
    /\ Finish(r)
    /\ UNCHANGED <<watches, override, gap, cooling, acts, faults>>

(* Carriers that know the container fail, and a later one is found or none. *)
SweepErrs(r) ==
    /\ requests[r].at = "Sweeping" /\ Fault
    /\ Finish(r) \/ \E c \in Asked \cap Knowing : Activate(r, c, c, c)
    /\ UNCHANGED <<watches, override, gap, cooling, acts>>

(* resolve_carrier_for_container for a container without a source: the     *)
(* lookup and the reference service name a carrier, the probe and the      *)
(* sweep of the carriers' own interfaces return its events.                *)
CarrierNamed(r) == \E c \in Guesses : Activate(r, c, RouteOf(requests[r].choice, c), None)

ProbeFinds(r) ==
    \E c \in Covered \cap Knowing : Activate(r, c, RouteOf(requests[r].choice, c), Aggregator)

DirectFinds(r) ==
    \E c \in Connected \cap Knowing : Activate(r, c, RouteOf(requests[r].choice, c), c)

Resolve(r) ==
    /\ requests[r].at = "Resolving"
    /\ CarrierNamed(r) \/ ProbeFinds(r) \/ DirectFinds(r) \/ Finish(r)
    /\ UNCHANGED <<watches, override, gap, cooling, acts, faults>>

FetchAnswers(r) ==
    /\ requests[r].at = "Fetching"
    /\ requests' = [requests EXCEPT ![r].payload = Aggregator, ![r].at = "Getting"]
    /\ UNCHANGED <<watches, override, gap, cooling, lock, acts, faults>>

FetchFails(r) ==
    /\ requests[r].at = "Fetching"
    /\ IF requests[r].carrier \in Knowing THEN Fault ELSE UNCHANGED faults
    /\ Finish(r)
    /\ UNCHANGED <<watches, override, gap, cooling, acts>>

-----------------------------------------------------------------------------
(* get_or_create_container_subscription and what follows it *)

RowsOf(p) == {i \in 1..Len(watches) : watches[i].provider = p}

(* Only a discovery, a continuation or a switch has something to store. *)
Stores(r, i) ==
    /\ requests' = [requests EXCEPT ![r].watch = i, ![r].at = "Storing"]
    /\ UNCHANGED lock

(* Two rows make get_or_create raise and the request end. *)
Get(r) ==
    /\ requests[r].at = "Getting"
    /\ LET rows == RowsOf(requests[r].provider)
       IN  \/ /\ rows = {}
              /\ Go(r, "Creating")
              /\ UNCHANGED <<watches, lock>>
           \/ /\ Cardinality(rows) = 1
              /\ \E i \in rows :
                    /\ watches' = IF watches[i].carrier # None THEN watches
                                  ELSE [watches EXCEPT ![i].carrier = requests[r].carrier]
                    /\ IF requests[r].by = "Promotion" THEN Finish(r) ELSE Stores(r, i)
           \/ /\ Cardinality(rows) > 1
              /\ Finish(r)
              /\ UNCHANGED watches
    /\ UNCHANGED <<override, gap, cooling, acts, faults>>

NewWatch(q) == [provider |-> q.provider, carrier |-> q.carrier, status |-> "ACTIVE",
                recent |-> FALSE, answered |-> FALSE, by |-> q.by]

(* No constraint of the database covers team, provider and container. *)
Create(r) ==
    /\ requests[r].at = "Creating"
    /\ watches' = Append(watches, NewWatch(requests[r]))
    /\ IF requests[r].by = "Promotion" THEN Finish(r) ELSE Stores(r, Len(watches) + 1)
    /\ UNCHANGED <<override, gap, cooling, acts, faults>>

(* Only a switch to a named provider goes on to pause the other watches. *)
Stored(r) ==
    IF requests[r].by = "Switch" /\ requests[r].choice # None
    THEN Go(r, "Pausing") /\ UNCHANGED lock
    ELSE Finish(r)

(* The payload in hand, or a first sync when there is none. *)
Store(r) ==
    /\ requests[r].at = "Storing"
    /\ watches' = [watches EXCEPT ![requests[r].watch] = Answer(@)]
    /\ Stored(r)
    /\ UNCHANGED <<override, gap, cooling, acts, faults>>

FirstSyncFails(r) ==
    /\ requests[r].at = "Storing" /\ requests[r].payload # requests[r].provider
    /\ Fault
    /\ watches' \in {watches, [watches EXCEPT ![requests[r].watch].status = "FAILED"]}
    /\ Stored(r)
    /\ UNCHANGED <<override, gap, cooling, acts>>

(* _pause_superseded_watches *)
PauseOthers(r) ==
    /\ requests[r].at = "Pausing"
    /\ watches' = [i \in DOMAIN watches |->
                     IF i # requests[r].watch /\ watches[i].status \in {"ACTIVE", "FAILED"}
                     THEN [watches[i] EXCEPT !.status = "PAUSED"] ELSE watches[i]]
    /\ Finish(r)
    /\ UNCHANGED <<override, gap, cooling, acts, faults>>

-----------------------------------------------------------------------------
(* Everyone else *)

Act == acts < MaxActs /\ acts + faults < MaxTrouble /\ acts' = acts + 1

(* An administrator chooses a provider, or None for the team's routing.    *)
(* No lock is taken, and the carrier is the one already known.             *)
Choose(r) ==
    /\ requests[r].at = "Idle" /\ Act
    /\ \E choice \in Allowed \cup {None} :
          /\ override' = choice
          /\ \/ /\ \A c \in Trusted : RouteOf(choice, c) = None
                /\ UNCHANGED requests
             \/ \E c \in Trusted :
                   /\ RouteOf(choice, c) # None
                   /\ requests' = [requests EXCEPT ![r] =
                        [Resting EXCEPT !.by = "Switch", !.choice = choice, !.carrier = c,
                                        !.provider = RouteOf(choice, c),
                                        !.at = IF RouteOf(choice, c) = Aggregator
                                               THEN "Fetching" ELSE "Getting"]]
    /\ UNCHANGED <<watches, gap, cooling, lock, faults>>

(* A discovery pass over planned numbers links the container: a watch of   *)
(* the carrier that answered, its carrier not recorded, and no lock.       *)
Promote(r) ==
    /\ requests[r].at = "Idle" /\ Act
    /\ \E c \in Connected \cap Knowing :
          requests' = [requests EXCEPT ![r] =
              [Resting EXCEPT !.by = "Promotion", !.provider = c, !.at = "Getting"]]
    /\ UNCHANGED <<watches, override, gap, cooling, lock, faults>>

(* The scheduled sync of a watch that is due. *)
Poll(i) ==
    /\ watches[i].status \in {"ACTIVE", "FAILED"}
    /\ watches' = [watches EXCEPT ![i] = Answer(@)]
    /\ UNCHANGED <<override, gap, cooling, lock, requests, acts, faults>>

PollFails(i) ==
    /\ watches[i].status \in {"ACTIVE", "FAILED"} /\ Fault
    /\ watches' = [watches EXCEPT ![i].status = "FAILED"]
    /\ UNCHANGED <<override, gap, cooling, lock, requests, acts>>

(* Someone pauses, resumes or cancels a watch. *)
Decide(i) ==
    /\ Act
    /\ \E status \in {"ACTIVE", "PAUSED", "CANCELLED"} :
          watches' = [watches EXCEPT ![i].status = status]
    /\ UNCHANGED <<override, gap, cooling, lock, requests, faults>>

(* The box is seen where no carrier's account puts it, or an event arrives *)
(* that explains it.                                                       *)
BoxSeen ==
    /\ Act /\ gap' = ~gap
    /\ UNCHANGED <<watches, override, cooling, lock, requests, faults>>

(* Half an hour: longer than any request lasts. *)
TimePasses ==
    /\ \A r \in Requests : requests[r].at = "Idle"
    /\ watches' = [i \in DOMAIN watches |-> [watches[i] EXCEPT !.recent = FALSE]]
    /\ UNCHANGED <<override, gap, cooling, lock, requests, acts, faults>>

CooldownExpires ==
    /\ cooling /\ cooling' = FALSE
    /\ UNCHANGED <<watches, override, gap, lock, requests, acts, faults>>

(* The lock of a process that died; a sweep under the interactive ceilings *)
(* is shorter than the lock's 300 seconds.                                 *)
LockExpires ==
    /\ lock # None /\ ~requests[lock].locked
    /\ lock' = None
    /\ UNCHANGED <<watches, override, gap, cooling, requests, acts, faults>>

Die(r) ==
    /\ requests[r].at # "Idle" /\ Fault
    /\ requests' = [requests EXCEPT ![r] = Resting]
    /\ UNCHANGED <<watches, override, gap, cooling, lock, acts>>

Work(r) ==
    \/ TakeLock(r) \/ SyncSource(r) \/ SyncFails(r) \/ NothingToExtend(r) \/ Extend(r)
    \/ SweepFinds(r) \/ SweepMisses(r) \/ SweepErrs(r) \/ Resolve(r)
    \/ FetchAnswers(r) \/ FetchFails(r) \/ Get(r) \/ Create(r)
    \/ Store(r) \/ FirstSyncFails(r) \/ PauseOthers(r)

Elsewhere == \E i \in 1..Len(watches) : Poll(i) \/ PollFails(i) \/ Decide(i)

Next ==
    \/ \E r \in Requests : Press(r) \/ Work(r) \/ Choose(r) \/ Promote(r) \/ Die(r)
    \/ Elsewhere \/ BoxSeen \/ TimePasses \/ CooldownExpires \/ LockExpires

Spec == Init /\ [][Next]_vars

(* Threads that run go on; time passes. Nobody has to press anything. *)
FairSpec ==
    /\ Spec
    /\ \A r \in Requests : WF_vars(Work(r))
    /\ WF_vars(CooldownExpires) /\ WF_vars(LockExpires)

-----------------------------------------------------------------------------
(* Properties *)

(* The types of the variables. *)
TypeOK ==
    /\ watches \in Seq(Watches)
    /\ override \in Providers \cup {None}
    /\ gap \in BOOLEAN /\ cooling \in BOOLEAN
    /\ lock \in Requests \cup {None}
    /\ requests \in [Requests -> Asking]
    /\ acts \in 0..MaxActs /\ faults \in 0..MaxFaults

(* Two refreshes of the container, two continuation sweeps, or one of      *)
(* each, never make two watches of one provider, although get_or_create    *)
(* is two steps and no constraint of the database covers them: of two      *)
(* watches of a provider one was made by a switch or a promotion, which    *)
(* take no lock.                                                           *)
OneWatchFromRefreshes ==
    \A i, j \in 1..Len(watches) :
        (i # j /\ watches[i].provider = watches[j].provider)
            => ~(watches[i].by = "Refresh" /\ watches[j].by = "Refresh")

Told(c) == \E i \in 1..Len(watches) : watches[i].answered /\ CarrierOf(watches[i]) = c

Unambiguous == \A p \in Providers : Cardinality(RowsOf(p)) <= 1

(* "Found once is not found forever": while a gap stays open and someone   *)
(* keeps refreshing a container that has a source, every connected carrier *)
(* that knows the container is asked and becomes a source, whatever        *)
(* cooldowns, refused locks, failed calls and dying processes came         *)
(* between. It needs get_or_create to find at most one row.                *)
GapIsExplained ==
    (/\ <>[](gap /\ Verified # {} /\ Unambiguous)
     /\ []<><<\E r \in Requests : Press(r)>>_vars)
        => \A c \in Connected \cap Knowing : <>Told(c)

=============================================================================
