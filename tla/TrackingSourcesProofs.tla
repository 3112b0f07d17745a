----------------------- MODULE TrackingSourcesProofs -----------------------
(***************************************************************************)
(* Proofs about TrackingSources, for any carriers, requests and bounds.    *)
(*                                                                         *)
(* One watch from refreshes: who believes to have the sweep lock has it    *)
(* (LockHeld), a refresh that goes on to create a watch has it             *)
(* (CreatingUnderLock), and so between its looking for the row and its     *)
(* creating one no other refresh has made it (NoneMadeYet).                *)
(***************************************************************************)
EXTENDS TrackingSources, TLAPS

LockHeld == \A r \in Requests : requests[r].locked => lock = r

Creating == {"Resolving", "Sweeping", "Fetching", "Getting", "Creating"}

CreatingUnderLock ==
    \A r \in Requests :
        (requests[r].by = "Refresh" /\ requests[r].at \in Creating) => requests[r].locked

RoutedSomewhere ==
    \A r \in Requests :
        requests[r].at \in {"Fetching", "Getting", "Creating"} => requests[r].provider # None

NoneMadeYet ==
    \A r \in Requests :
        (requests[r].at = "Creating" /\ requests[r].by = "Refresh")
            => \A i \in 1..Len(watches) :
                  watches[i].provider = requests[r].provider => watches[i].by # "Refresh"

IInv == TypeOK /\ LockHeld /\ CreatingUnderLock /\ RoutedSomewhere /\ NoneMadeYet
            /\ OneWatchFromRefreshes

(***************************************************************************)
(* Sequences and watches.                                                  *)
(***************************************************************************)
LEMMA ExceptIsSeq ==
    ASSUME NEW S, NEW s \in Seq(S), NEW i, NEW x, i \in 1..Len(s) => x \in S
    PROVE  /\ [s EXCEPT ![i] = x] \in Seq(S)
           /\ Len([s EXCEPT ![i] = x]) = Len(s)
           /\ \A j \in 1..Len(s) : [s EXCEPT ![i] = x][j] = IF j = i THEN x ELSE s[j]
<1>1. CASE i \in 1..Len(s)
    BY <1>1
<1>2. CASE i \notin 1..Len(s)
    <2>1. [s EXCEPT ![i] = x] = s
        BY <1>2
    <2> QED BY <2>1, <1>2
<1> QED BY <1>1, <1>2

SameRows ==
    /\ Len(watches') = Len(watches)
    /\ \A i \in 1..Len(watches) : /\ watches'[i].provider = watches[i].provider
                                  /\ watches'[i].by = watches[i].by

(* A watch of which neither the provider nor the maker changes. *)
LEMMA Rewritten ==
    ASSUME TypeOK, NEW i, NEW w,
           i \in 1..Len(watches) =>
               w \in Watches /\ w.provider = watches[i].provider /\ w.by = watches[i].by,
           watches' = [watches EXCEPT ![i] = w]
    PROVE  watches' \in Seq(Watches) /\ SameRows
<1>1. watches \in Seq(Watches)
    BY DEF TypeOK
<1>2. /\ watches' \in Seq(Watches)
      /\ Len(watches') = Len(watches)
      /\ \A j \in 1..Len(watches) : watches'[j] = IF j = i THEN w ELSE watches[j]
    BY <1>1, ExceptIsSeq
<1> QED BY <1>2 DEF SameRows

LEMMA AnswerKeeps ==
    ASSUME NEW w \in Watches
    PROVE  Answer(w) \in Watches /\ Answer(w).provider = w.provider /\ Answer(w).by = w.by
BY DEF Answer, Watches

LEMMA Answered ==
    ASSUME TypeOK, NEW i, watches' = [watches EXCEPT ![i] = Answer(@)]
    PROVE  watches' \in Seq(Watches) /\ SameRows
<1>1. i \in 1..Len(watches) => watches[i] \in Watches
    BY DEF TypeOK
<1>2. watches' = [watches EXCEPT ![i] = Answer(watches[i])]
    OBVIOUS
<1> QED BY <1>1, <1>2, AnswerKeeps, Rewritten

LEMMA StatusSet ==
    ASSUME TypeOK, NEW i, NEW status \in {"ACTIVE", "FAILED", "PAUSED", "CANCELLED"},
           watches' = [watches EXCEPT ![i].status = status]
    PROVE  watches' \in Seq(Watches) /\ SameRows
<1>1. i \in 1..Len(watches) => watches[i] \in Watches
    BY DEF TypeOK
<1> DEFINE w == [watches[i] EXCEPT !.status = status]
<1>2. watches' = [watches EXCEPT ![i] = w]
    OBVIOUS
<1>3. i \in 1..Len(watches) => w \in Watches /\ w.provider = watches[i].provider /\ w.by = watches[i].by
    BY <1>1 DEF Watches
<1> QED BY <1>2, <1>3, Rewritten

LEMMA Untouched ==
    ASSUME TypeOK, watches' = watches
    PROVE  watches' \in Seq(Watches) /\ SameRows
BY DEF TypeOK, SameRows

(* Every watch rewritten at once. *)
LEMMA AllRewritten ==
    ASSUME TypeOK, watches' \in [DOMAIN watches -> Watches],
           \A i \in 1..Len(watches) :
               watches'[i].provider = watches[i].provider /\ watches'[i].by = watches[i].by
    PROVE  watches' \in Seq(Watches) /\ SameRows
<1>1. DOMAIN watches = 1..Len(watches) /\ Len(watches) \in Nat
    BY DEF TypeOK
<1>2. watches' \in Seq(Watches) /\ Len(watches') = Len(watches)
    BY <1>1
<1> QED BY <1>2 DEF SameRows

-----------------------------------------------------------------------------
(* A step of one request that appends no watch. *)

LockMoves(r) ==
    \/ lock' = lock
    \/ lock = None /\ lock' = r
    \/ lock' = None /\ requests[r].locked

(* What the invariant asks of a request whose record is q. *)
Sound(q) ==
    /\ (q.by = "Refresh" /\ q.at \in Creating) => q.locked
    /\ q.at \in {"Fetching", "Getting", "Creating"} => q.provider # None
    /\ (q.at = "Creating" /\ q.by = "Refresh")
           => \A i \in 1..Len(watches) :
                 watches[i].provider = q.provider => watches[i].by # "Refresh"

LEMMA OneMoves ==
    ASSUME IInv, NEW r \in Requests, TypeOK', SameRows,
           \A s \in Requests \ {r} : requests'[s] = requests[s],
           LockMoves(r), requests'[r].locked => lock' = r, Sound(requests'[r])
    PROVE  IInv'
<1>1. LockHeld'
    <2> SUFFICES ASSUME NEW s \in Requests, requests'[s].locked PROVE lock' = s
        BY DEF LockHeld
    <2>1. CASE s = r
        BY <2>1
    <2>2. CASE s # r
        <3>1. requests[s].locked /\ lock = s
            BY <2>2 DEF IInv, LockHeld
        <3>2. ~(lock = None) /\ ~requests[r].locked
            BY <3>1, <2>2, SourcesAssumption DEF IInv, LockHeld
        <3> QED BY <3>1, <3>2 DEF LockMoves
    <2> QED BY <2>1, <2>2
<1>2. CreatingUnderLock'
    BY DEF IInv, CreatingUnderLock, Sound
<1>3. RoutedSomewhere'
    BY DEF IInv, RoutedSomewhere, Sound
<1>4. NoneMadeYet'
    <2> SUFFICES ASSUME NEW s \in Requests, requests'[s].at = "Creating", requests'[s].by = "Refresh",
                        NEW i \in 1..Len(watches'), watches'[i].provider = requests'[s].provider
                 PROVE  watches'[i].by # "Refresh"
        BY DEF NoneMadeYet
    <2>1. /\ i \in 1..Len(watches)
          /\ watches[i].provider = requests'[s].provider /\ watches'[i].by = watches[i].by
        BY DEF SameRows
    <2>2. CASE s = r
        BY <2>1, <2>2 DEF Sound
    <2>3. CASE s # r
        BY <2>1, <2>3 DEF IInv, NoneMadeYet
    <2> QED BY <2>2, <2>3
<1>5. OneWatchFromRefreshes'
    BY DEF IInv, OneWatchFromRefreshes, SameRows
<1> QED BY <1>1, <1>2, <1>3, <1>4, <1>5 DEF IInv

(* The same for a step of the rest of the world. *)
LEMMA NobodyMoves ==
    ASSUME IInv, TypeOK', SameRows, UNCHANGED requests,
           lock' = lock \/ (lock' = None /\ (lock # None => ~requests[lock].locked))
    PROVE  IInv'
<1>1. LockHeld'
    BY DEF IInv, LockHeld
<1>2. CreatingUnderLock' /\ RoutedSomewhere'
    BY DEF IInv, CreatingUnderLock, RoutedSomewhere
<1>3. NoneMadeYet'
    BY DEF IInv, NoneMadeYet, SameRows
<1>4. OneWatchFromRefreshes'
    BY DEF IInv, OneWatchFromRefreshes, SameRows
<1> QED BY <1>1, <1>2, <1>3, <1>4 DEF IInv

-----------------------------------------------------------------------------
(* The types of a step, in parts. *)

Others == /\ override' \in Providers \cup {None} /\ gap' \in BOOLEAN /\ cooling' \in BOOLEAN
          /\ acts' \in 0..MaxActs /\ faults' \in 0..MaxFaults

Moved(r) == /\ requests' \in [Requests -> Asking] /\ lock' \in Requests \cup {None}
            /\ \A s \in Requests \ {r} : requests'[s] = requests[s]
            /\ LockMoves(r) /\ (requests'[r].locked => lock' = r) /\ Sound(requests'[r])

LEMMA ByMoved ==
    ASSUME IInv, NEW r \in Requests, Moved(r), Others, watches' \in Seq(Watches) /\ SameRows
    PROVE  IInv'
<1>1. TypeOK'
    BY DEF TypeOK, Moved, Others
<1> QED BY <1>1, OneMoves DEF Moved

LEMMA OthersKept ==
    ASSUME TypeOK, UNCHANGED <<override, gap, cooling, acts>>, Fault \/ UNCHANGED faults
    PROVE  Others
BY SourcesAssumption DEF TypeOK, Others, Fault

LEMMA OthersActed ==
    ASSUME TypeOK, Act, override' \in Providers \cup {None}, gap' \in BOOLEAN, UNCHANGED <<cooling, faults>>
    PROVE  Others
BY SourcesAssumption DEF TypeOK, Others, Act

LEMMA RestingTyped == Resting \in Asking
BY DEF Resting, Asking, Places

LEMMA FinishMoves ==
    ASSUME IInv, NEW r \in Requests, Finish(r)
    PROVE  Moved(r)
<1>1. requests' \in [Requests -> Asking] /\ requests'[r] = Resting
    BY RestingTyped DEF IInv, TypeOK, Finish
<1>2. \A s \in Requests \ {r} : requests'[s] = requests[s]
    BY DEF IInv, TypeOK, Finish
<1>3. lock' \in Requests \cup {None} /\ LockMoves(r)
    BY DEF IInv, TypeOK, Finish, LockMoves
<1>4. ~requests'[r].locked /\ Sound(requests'[r])
    BY <1>1 DEF Resting, Sound, Creating
<1> QED BY <1>1, <1>2, <1>3, <1>4 DEF Moved

(***************************************************************************)
(* A request goes on, its lock kept and its creation still ahead.          *)
(***************************************************************************)
LEMMA GoesOn ==
    ASSUME IInv, NEW r \in Requests, NEW q \in Asking,
           requests' = [requests EXCEPT ![r] = q], UNCHANGED lock,
           q.locked = requests[r].locked, Sound(q)
    PROVE  Moved(r)
<1>1. requests' \in [Requests -> Asking] /\ requests'[r] = q
    BY DEF IInv, TypeOK
<1>2. \A s \in Requests \ {r} : requests'[s] = requests[s]
    BY DEF IInv, TypeOK
<1>3. lock' \in Requests \cup {None} /\ LockMoves(r)
    BY DEF IInv, TypeOK, LockMoves
<1>4. requests'[r].locked => lock' = r
    BY <1>1 DEF IInv, LockHeld
<1> QED BY <1>1, <1>2, <1>3, <1>4 DEF Moved

(* A request takes the free lock. *)
LEMMA TakesLock ==
    ASSUME IInv, NEW r \in Requests, NEW q \in Asking,
           requests' = [requests EXCEPT ![r] = q], lock = None, lock' = r, Sound(q)
    PROVE  Moved(r)
<1>1. requests' \in [Requests -> Asking] /\ requests'[r] = q
    BY DEF IInv, TypeOK
<1>2. \A s \in Requests \ {r} : requests'[s] = requests[s]
    BY DEF IInv, TypeOK
<1>3. lock' \in Requests \cup {None} /\ LockMoves(r)
    BY DEF LockMoves
<1> QED BY <1>1, <1>2, <1>3 DEF Moved

LEMMA RouteTyped ==
    ASSUME NEW choice, NEW c \in Carriers
    PROVE  RouteOf(choice, c) \in Providers \cup {None}
<1>1. CASE choice = Aggregator
    BY <1>1, SourcesAssumption DEF RouteOf, Providers
<1>2. CASE choice # Aggregator /\ choice \in Carriers
    BY <1>2, SourcesAssumption DEF RouteOf, Providers
<1>3. CASE choice # Aggregator /\ choice \notin Carriers
    BY <1>3, SourcesAssumption DEF RouteOf, Providers
<1> QED BY <1>1, <1>2, <1>3

LEMMA ActivateMoves ==
    ASSUME IInv, NEW r \in Requests, requests[r].at \in {"Resolving", "Sweeping"},
           NEW c \in Carriers, NEW p \in Providers \cup {None}, NEW payload \in Providers \cup {None},
           Activate(r, c, p, payload)
    PROVE  Moved(r)
<1>1. CASE p = None
    BY <1>1, FinishMoves DEF Activate
<1>2. CASE p # None
    <2> DEFINE at == IF p = Aggregator /\ payload # Aggregator THEN "Fetching" ELSE "Getting"
               q == [requests[r] EXCEPT !.carrier = c, !.provider = p, !.payload = payload, !.at = at]
    <2>1. requests[r] \in Asking
        BY DEF IInv, TypeOK
    <2>2. q \in Asking /\ q.locked = requests[r].locked /\ q.by = requests[r].by
              /\ q.at \in {"Fetching", "Getting"} /\ q.provider = p
        BY <2>1 DEF Asking, Places
    <2>3. requests' = [requests EXCEPT ![r] = q] /\ UNCHANGED lock
        BY <1>2 DEF Activate
    <2>4. (requests[r].by = "Refresh") => requests[r].locked
        BY DEF IInv, CreatingUnderLock, Creating
    <2>5. Sound(q)
        BY <1>2, <2>2, <2>4 DEF Sound
    <2> QED BY <2>2, <2>3, <2>5, GoesOn
<1> QED BY <1>1, <1>2

(* The request's place moves on, to one where nothing is created. *)
LEMMA PlaceMoves ==
    ASSUME IInv, NEW r \in Requests, NEW i \in Nat, NEW at \in {"Storing", "Pausing", "Sweep"},
           \/ requests' = [requests EXCEPT ![r].watch = i, ![r].at = at]
           \/ requests' = [requests EXCEPT ![r].at = at],
           UNCHANGED lock
    PROVE  Moved(r)
<1> DEFINE q == requests'[r]
<1>1. requests[r] \in Asking /\ requests \in [Requests -> Asking]
    BY DEF IInv, TypeOK
<1>2. q \in Asking /\ q.locked = requests[r].locked /\ q.at = at
    BY <1>1 DEF Asking, Places
<1>3. requests' = [requests EXCEPT ![r] = q]
    BY <1>1
<1>4. Sound(q)
    BY <1>2 DEF Sound, Creating
<1> QED BY <1>2, <1>3, <1>4, GoesOn

-----------------------------------------------------------------------------
(* The steps. *)

LEMMA InitIInv == Init => IInv
<1> SUFFICES ASSUME Init PROVE IInv
    OBVIOUS
<1>1. watches = <<>> /\ Len(watches) = 0
    BY DEF Init
<1>2. TypeOK
    <2>1. watches \in Seq(Watches)
        BY DEF Init
    <2>2. requests \in [Requests -> Asking]
        BY RestingTyped DEF Init
    <2>3. gap \in BOOLEAN /\ cooling \in BOOLEAN
        BY DEF Init
    <2>4. acts \in 0..MaxActs /\ faults \in 0..MaxFaults
        BY SourcesAssumption DEF Init
    <2>5. override \in Providers \cup {None} /\ lock \in Requests \cup {None}
        BY DEF Init
    <2> QED BY <2>1, <2>2, <2>3, <2>4, <2>5 DEF TypeOK
<1>3. LockHeld /\ CreatingUnderLock /\ RoutedSomewhere
    BY DEF Init, Resting, LockHeld, CreatingUnderLock, RoutedSomewhere, Creating
<1>4. NoneMadeYet /\ OneWatchFromRefreshes
    BY <1>1 DEF NoneMadeYet, OneWatchFromRefreshes
<1> QED BY <1>2, <1>3, <1>4 DEF IInv

LEMMA PressInv ==
    ASSUME IInv, NEW r \in Requests, Press(r)
    PROVE  IInv'
<1> DEFINE at == IF Verified = {} THEN "Discovery" ELSE "Syncing"
           q == [Resting EXCEPT !.at = at, !.todo = Verified, !.choice = override]
<1>1. Others /\ watches' \in Seq(Watches) /\ SameRows
    BY OthersKept, Untouched DEF IInv, Press
<1>2. override \in Providers \cup {None} /\ Verified \in SUBSET Nat
    BY DEF IInv, TypeOK, Verified
<1>3. q \in Asking /\ q.at \in {"Discovery", "Syncing"} /\ ~q.locked
    BY <1>2 DEF Resting, Asking, Places
<1>4. Sound(q)
    BY <1>3 DEF Sound, Creating
<1>5. requests' = [requests EXCEPT ![r] = q]
    BY DEF Press
<1>6. requests' \in [Requests -> Asking] /\ requests'[r] = q
          /\ \A s \in Requests \ {r} : requests'[s] = requests[s]
    BY <1>3, <1>5 DEF IInv, TypeOK
<1>7. lock' \in Requests \cup {None} /\ LockMoves(r)
    BY DEF IInv, TypeOK, LockMoves, Press
<1>8. Moved(r)
    BY <1>3, <1>4, <1>6, <1>7 DEF Moved
<1> QED BY <1>1, <1>8, ByMoved

LEMMA TakeLockInv ==
    ASSUME IInv, NEW r \in Requests, TakeLock(r)
    PROVE  IInv'
<1>1. watches' \in Seq(Watches) /\ SameRows /\ Others
    BY Untouched, OthersKept DEF IInv, TakeLock
<1>2. CASE Finish(r)
    BY <1>1, <1>2, FinishMoves, ByMoved
<1>3. CASE /\ LockFree /\ lock' = r
           /\ requests' = [requests EXCEPT
                  ![r].at = IF @ = "Sweep" THEN "Sweeping" ELSE "Resolving", ![r].locked = TRUE]
    <2> DEFINE at == IF requests[r].at = "Sweep" THEN "Sweeping" ELSE "Resolving"
               q == [requests[r] EXCEPT !.at = at, !.locked = TRUE]
    <2>1. requests[r] \in Asking
        BY DEF IInv, TypeOK
    <2>2. q \in Asking /\ q.at \in {"Sweeping", "Resolving"} /\ q.locked
        BY <2>1 DEF Asking, Places
    <2>3. requests' = [requests EXCEPT ![r] = q]
        BY <1>3
    <2>4. Sound(q)
        BY <2>2 DEF Sound
    <2>5. Moved(r)
        BY <1>3, <2>2, <2>3, <2>4, TakesLock DEF LockFree
    <2> QED BY <1>1, <2>5, ByMoved
<1> QED BY <1>2, <1>3 DEF TakeLock

LEMMA SyncInv ==
    ASSUME IInv, NEW r \in Requests, SyncSource(r) \/ SyncFails(r)
    PROVE  IInv'
<1> DEFINE i == Oldest(requests[r].todo)
           q == [requests[r] EXCEPT !.todo = @ \ {Oldest(@)}]
<1>1. watches' \in Seq(Watches) /\ SameRows
    <2>1. CASE SyncSource(r)
        BY <2>1, Answered DEF IInv, SyncSource
    <2>2. CASE SyncFails(r)
        <3>1. watches' = watches \/ watches' = [watches EXCEPT ![i].status = "FAILED"]
            BY <2>2 DEF SyncFails
        <3> QED BY <3>1, Untouched, StatusSet DEF IInv
    <2> QED BY <2>1, <2>2
<1>2. Others
    BY OthersKept DEF IInv, SyncSource, SyncFails
<1>3. requests[r] \in Asking
    BY DEF IInv, TypeOK
<1>4. q \in Asking /\ q.at = "Syncing" /\ q.locked = requests[r].locked
    BY <1>3 DEF Asking, SyncSource, SyncFails, Syncing
<1>5. requests' = [requests EXCEPT ![r] = q] /\ UNCHANGED lock
    BY DEF SyncSource, SyncFails, Synced
<1>6. Sound(q)
    BY <1>4 DEF Sound, Creating
<1>7. Moved(r)
    BY <1>4, <1>5, <1>6, GoesOn
<1> QED BY <1>1, <1>2, <1>7, ByMoved

LEMMA ExtendInv ==
    ASSUME IInv, NEW r \in Requests, NothingToExtend(r) \/ Extend(r)
    PROVE  IInv'
<1>1. watches' \in Seq(Watches) /\ SameRows
    BY Untouched DEF IInv, NothingToExtend, Extend
<1>2. Others
    BY SourcesAssumption DEF IInv, TypeOK, Others, NothingToExtend, Extend
<1>3. CASE Finish(r)
    BY <1>1, <1>2, <1>3, FinishMoves, ByMoved
<1>4. CASE Go(r, "Sweep") /\ UNCHANGED lock
    BY <1>1, <1>2, <1>4, PlaceMoves, ByMoved DEF Go
<1> QED BY <1>3, <1>4 DEF NothingToExtend, Extend

LEMMA SweepInv ==
    ASSUME IInv, NEW r \in Requests, SweepFinds(r) \/ SweepMisses(r) \/ SweepErrs(r)
    PROVE  IInv'
<1>1. watches' \in Seq(Watches) /\ SameRows
    BY Untouched DEF IInv, SweepFinds, SweepMisses, SweepErrs
<1>2. Others
    BY OthersKept DEF IInv, SweepFinds, SweepMisses, SweepErrs
<1>3. Moved(r)
    <2>1. CASE Finish(r)
        BY <2>1, FinishMoves
    <2>2. ASSUME NEW c \in Asked \cap Knowing, Activate(r, c, c, c)
          PROVE  Moved(r)
        <3>1. c \in Carriers /\ c \in Providers \cup {None}
            BY SourcesAssumption DEF Providers
        <3>2. requests[r].at \in {"Resolving", "Sweeping"}
            BY DEF SweepFinds, SweepMisses, SweepErrs
        <3> QED BY <2>2, <3>1, <3>2, ActivateMoves
    <2> QED BY <2>1, <2>2 DEF SweepFinds, SweepMisses, SweepErrs
<1> QED BY <1>1, <1>2, <1>3, ByMoved

LEMMA ResolveInv ==
    ASSUME IInv, NEW r \in Requests, Resolve(r)
    PROVE  IInv'
<1>1. watches' \in Seq(Watches) /\ SameRows
    BY Untouched DEF IInv, Resolve
<1>2. Others
    BY OthersKept DEF IInv, Resolve
<1>3. Moved(r)
    <2>1. CASE Finish(r)
        BY <2>1, FinishMoves
    <2>2. ASSUME NEW c \in Carriers, NEW payload \in Providers \cup {None},
                 Activate(r, c, RouteOf(requests[r].choice, c), payload)
          PROVE  Moved(r)
        BY <2>2, RouteTyped, ActivateMoves DEF Resolve
    <2>3. CASE CarrierNamed(r)
        BY <2>2, <2>3, SourcesAssumption DEF CarrierNamed
    <2>4. CASE ProbeFinds(r)
        BY <2>2, <2>4, SourcesAssumption DEF ProbeFinds, Providers
    <2>5. CASE DirectFinds(r)
        BY <2>2, <2>5, SourcesAssumption DEF DirectFinds, Providers
    <2> QED BY <2>1, <2>3, <2>4, <2>5 DEF Resolve
<1> QED BY <1>1, <1>2, <1>3, ByMoved

LEMMA FetchInv ==
    ASSUME IInv, NEW r \in Requests, FetchAnswers(r) \/ FetchFails(r)
    PROVE  IInv'
<1>1. watches' \in Seq(Watches) /\ SameRows
    BY Untouched DEF IInv, FetchAnswers, FetchFails
<1>2. Others
    BY OthersKept DEF IInv, FetchAnswers, FetchFails
<1>3. CASE FetchAnswers(r)
    <2> DEFINE q == [requests[r] EXCEPT !.payload = Aggregator, !.at = "Getting"]
    <2>1. requests[r] \in Asking /\ requests[r].at = "Fetching"
        BY <1>3 DEF IInv, TypeOK, FetchAnswers
    <2>2. /\ q \in Asking /\ q.at = "Getting" /\ q.locked = requests[r].locked
          /\ q.by = requests[r].by /\ q.provider = requests[r].provider
        BY <2>1 DEF Asking, Places, Providers
    <2>3. requests' = [requests EXCEPT ![r] = q] /\ UNCHANGED lock
        BY <1>3 DEF FetchAnswers
    <2>4. (q.by = "Refresh" => q.locked) /\ q.provider # None
        BY <2>1, <2>2 DEF IInv, CreatingUnderLock, RoutedSomewhere, Creating
    <2>5. Sound(q)
        BY <2>2, <2>4 DEF Sound
    <2>6. Moved(r)
        BY <2>2, <2>3, <2>5, GoesOn
    <2> QED BY <1>1, <1>2, <2>6, ByMoved
<1>4. CASE FetchFails(r)
    BY <1>1, <1>2, <1>4, FinishMoves, ByMoved DEF FetchFails
<1> QED BY <1>3, <1>4

LEMMA GetInv ==
    ASSUME IInv, NEW r \in Requests, Get(r)
    PROVE  IInv'
<1> DEFINE rows == RowsOf(requests[r].provider)
<1>1. Others
    BY OthersKept DEF IInv, Get
<1>2. requests[r] \in Asking /\ requests[r].at = "Getting"
    BY DEF IInv, TypeOK, Get
<1>3. CASE rows = {} /\ Go(r, "Creating") /\ UNCHANGED <<watches, lock>>
    <2> DEFINE q == [requests[r] EXCEPT !.at = "Creating"]
    <2>1. /\ q \in Asking /\ q.at = "Creating" /\ q.locked = requests[r].locked
          /\ q.by = requests[r].by /\ q.provider = requests[r].provider
        BY <1>2 DEF Asking, Places
    <2>2. requests' = [requests EXCEPT ![r] = q] /\ UNCHANGED lock
        BY <1>3 DEF Go
    <2>3. (q.by = "Refresh" => q.locked) /\ q.provider # None
        BY <1>2, <2>1 DEF IInv, CreatingUnderLock, RoutedSomewhere, Creating
    <2>4. \A i \in 1..Len(watches) : watches[i].provider # q.provider
        BY <1>3, <2>1 DEF RowsOf
    <2>5. Sound(q)
        BY <2>1, <2>3, <2>4 DEF Sound
    <2>6. Moved(r)
        BY <2>1, <2>2, <2>5, GoesOn
    <2> QED BY <1>1, <1>3, <2>6, Untouched, ByMoved DEF IInv
<1>4. ASSUME NEW i \in rows,
             watches' = IF watches[i].carrier # None THEN watches
                        ELSE [watches EXCEPT ![i].carrier = requests[r].carrier],
             IF requests[r].by = "Promotion" THEN Finish(r) ELSE Stores(r, i)
      PROVE  IInv'
    <2>1. i \in 1..Len(watches) /\ i \in Nat
        BY DEF RowsOf
    <2>2. watches' \in Seq(Watches) /\ SameRows
        <3> DEFINE w == [watches[i] EXCEPT !.carrier = requests[r].carrier]
        <3>1. watches[i] \in Watches /\ requests[r].carrier \in Carriers \cup {None}
            BY <1>2, <2>1 DEF IInv, TypeOK, Asking
        <3>2. w \in Watches /\ w.provider = watches[i].provider /\ w.by = watches[i].by
            BY <3>1 DEF Watches
        <3>3. watches' = watches \/ watches' = [watches EXCEPT ![i] = w]
            BY <1>4
        <3> QED BY <3>2, <3>3, Untouched, Rewritten DEF IInv
    <2>3. Moved(r)
        BY <1>4, <2>1, FinishMoves, PlaceMoves DEF Stores
    <2> QED BY <1>1, <2>2, <2>3, ByMoved
<1>5. CASE Finish(r) /\ UNCHANGED watches
    BY <1>1, <1>5, FinishMoves, Untouched, ByMoved DEF IInv
<1> QED BY <1>3, <1>4, <1>5 DEF Get

(***************************************************************************)
(* The step at issue.  Another refresh's watch of the provider is not      *)
(* there, and no other refresh can have been creating one: both would have *)
(* the lock.                                                               *)
(***************************************************************************)
LEMMA CreateInv ==
    ASSUME IInv, NEW r \in Requests, Create(r)
    PROVE  IInv'
<1> DEFINE new == NewWatch(requests[r])
           n == Len(watches)
<1>1. requests[r] \in Asking /\ requests[r].at = "Creating" /\ requests[r].provider # None
    BY DEF IInv, TypeOK, Create, RoutedSomewhere
<1>2. new \in Watches /\ new.provider = requests[r].provider /\ new.by = requests[r].by
    BY <1>1 DEF NewWatch, Watches, Asking
<1>3. /\ watches' = Append(watches, new) /\ n \in Nat
      /\ watches' \in Seq(Watches) /\ Len(watches') = n + 1
      /\ \A i \in 1..n : watches'[i] = watches[i]
      /\ watches'[n + 1] = new
    <2>1. watches \in Seq(Watches) /\ watches' = Append(watches, new)
        BY DEF IInv, TypeOK, Create
    <2> QED BY <2>1, <1>2
<1>4. \A i \in 1..Len(watches') : i \in 1..n \/ i = n + 1
    BY <1>3
<1>5. Others
    BY OthersKept DEF IInv, Create
<1>6. Moved(r) /\ requests'[r].at # "Creating"
    <2>1. CASE Finish(r)
        <3>1. requests'[r].at = "Idle"
            BY <2>1 DEF IInv, TypeOK, Finish, Resting
        <3> QED BY <2>1, <3>1, FinishMoves
    <2>2. CASE Stores(r, n + 1)
        <3>1. Moved(r)
            <4>1. n + 1 \in Nat /\ "Storing" \in {"Storing", "Pausing", "Sweep"}
                BY <1>3
            <4>2. requests' = [requests EXCEPT ![r].watch = n + 1, ![r].at = "Storing"] /\ UNCHANGED lock
                BY <2>2 DEF Stores
            <4> HIDE DEF n
            <4> QED BY <4>1, <4>2, PlaceMoves
        <3>2. requests'[r].at = "Storing"
            BY <2>2, <1>1 DEF IInv, TypeOK, Stores, Asking
        <3> QED BY <3>1, <3>2
    <2> QED BY <2>1, <2>2 DEF Create
<1>7. TypeOK'
    BY <1>3, <1>5, <1>6 DEF TypeOK, Moved, Others
<1>8. \A s \in Requests \ {r} : requests'[s] = requests[s]
    BY <1>6 DEF Moved
<1>9. requests[r].by = "Refresh" => lock = r
    BY <1>1 DEF IInv, CreatingUnderLock, Creating, LockHeld
<1>10. LockHeld' /\ CreatingUnderLock' /\ RoutedSomewhere'
    <2>1. LockHeld'
        <3> SUFFICES ASSUME NEW s \in Requests, requests'[s].locked PROVE lock' = s
            BY DEF LockHeld
        <3>1. CASE s = r
            BY <3>1, <1>6 DEF Moved
        <3>2. CASE s # r
            <4>1. requests[s].locked /\ lock = s
                BY <3>2, <1>8 DEF IInv, LockHeld
            <4>2. lock # None /\ ~requests[r].locked
                BY <4>1, <3>2, SourcesAssumption DEF IInv, LockHeld
            <4> QED BY <4>1, <4>2, <1>6 DEF Moved, LockMoves
        <3> QED BY <3>1, <3>2
    <2>2. CreatingUnderLock'
        BY <1>6, <1>8 DEF IInv, CreatingUnderLock, Moved, Sound
    <2>3. RoutedSomewhere'
        BY <1>6, <1>8 DEF IInv, RoutedSomewhere, Moved, Sound
    <2> QED BY <2>1, <2>2, <2>3
<1>11. NoneMadeYet'
    <2> SUFFICES ASSUME NEW s \in Requests, requests'[s].at = "Creating", requests'[s].by = "Refresh",
                        NEW i \in 1..Len(watches'), watches'[i].provider = requests'[s].provider
                 PROVE  watches'[i].by # "Refresh"
        BY DEF NoneMadeYet
    <2>1. s # r /\ requests'[s] = requests[s]
        BY <1>6, <1>8
    <2>2. CASE i \in 1..n
        BY <2>1, <2>2, <1>3 DEF IInv, NoneMadeYet
    <2>3. CASE i = n + 1
        <3>1. lock = s
            BY <2>1 DEF IInv, CreatingUnderLock, Creating, LockHeld
        <3> QED BY <2>1, <2>3, <3>1, <1>2, <1>3, <1>9
    <2> QED BY <2>2, <2>3, <1>4
<1>12. OneWatchFromRefreshes'
    <2>1. \A i \in 1..n : (watches[i].provider = new.provider /\ new.by = "Refresh")
                              => watches[i].by # "Refresh"
        BY <1>1, <1>2 DEF IInv, NoneMadeYet
    <2> SUFFICES ASSUME NEW i \in 1..Len(watches'), NEW j \in 1..Len(watches'), i # j,
                        watches'[i].provider = watches'[j].provider
                 PROVE  ~(watches'[i].by = "Refresh" /\ watches'[j].by = "Refresh")
        BY DEF OneWatchFromRefreshes
    <2>2. CASE i \in 1..n /\ j \in 1..n
        BY <2>2, <1>3 DEF IInv, OneWatchFromRefreshes
    <2>3. CASE i \in 1..n /\ j = n + 1
        BY <2>1, <2>3, <1>3
    <2>4. CASE i = n + 1 /\ j \in 1..n
        BY <2>1, <2>4, <1>3
    <2> QED BY <2>2, <2>3, <2>4, <1>4
<1> QED BY <1>7, <1>10, <1>11, <1>12 DEF IInv

LEMMA StoreInv ==
    ASSUME IInv, NEW r \in Requests, Store(r) \/ FirstSyncFails(r)
    PROVE  IInv'
<1> DEFINE i == requests[r].watch
<1>1. watches' \in Seq(Watches) /\ SameRows
    <2>1. CASE Store(r)
        BY <2>1, Answered DEF IInv, Store
    <2>2. CASE FirstSyncFails(r)
        <3>1. watches' = watches \/ watches' = [watches EXCEPT ![i].status = "FAILED"]
            BY <2>2 DEF FirstSyncFails
        <3> QED BY <3>1, Untouched, StatusSet DEF IInv
    <2> QED BY <2>1, <2>2
<1>2. Others
    BY OthersKept DEF IInv, Store, FirstSyncFails
<1>3. Moved(r)
    <2>1. CASE Finish(r)
        BY <2>1, FinishMoves
    <2>2. CASE Go(r, "Pausing") /\ UNCHANGED lock
        <3>1. 0 \in Nat
            OBVIOUS
        <3> QED BY <2>2, <3>1, PlaceMoves DEF Go
    <2> QED BY <2>1, <2>2 DEF Store, FirstSyncFails, Stored
<1> QED BY <1>1, <1>2, <1>3, ByMoved

LEMMA PauseInv ==
    ASSUME IInv, NEW r \in Requests, PauseOthers(r)
    PROVE  IInv'
<1>1. \A i \in 1..Len(watches) :
          /\ watches[i] \in Watches
          /\ watches'[i] = watches[i] \/ watches'[i] = [watches[i] EXCEPT !.status = "PAUSED"]
    BY DEF IInv, TypeOK, PauseOthers
<1>2. \A i \in 1..Len(watches) :
          watches'[i] \in Watches /\ watches'[i].provider = watches[i].provider
              /\ watches'[i].by = watches[i].by
    <2> SUFFICES ASSUME NEW w \in Watches, NEW v, v = w \/ v = [w EXCEPT !.status = "PAUSED"]
                 PROVE  v \in Watches /\ v.provider = w.provider /\ v.by = w.by
        BY <1>1
    <2> QED BY DEF Watches
<1>3. DOMAIN watches = 1..Len(watches)
    BY DEF IInv, TypeOK
<1>4. watches' \in [DOMAIN watches -> Watches]
    BY <1>2, <1>3 DEF PauseOthers
<1>5. watches' \in Seq(Watches) /\ SameRows
    BY <1>2, <1>4, AllRewritten DEF IInv
<1>6. Others
    BY OthersKept DEF IInv, PauseOthers
<1> QED BY <1>5, <1>6, FinishMoves, ByMoved DEF PauseOthers

LEMMA ChooseInv ==
    ASSUME IInv, NEW r \in Requests, Choose(r)
    PROVE  IInv'
<1>1. PICK choice \in Allowed \cup {None} :
          /\ override' = choice
          /\ \/ UNCHANGED requests
             \/ \E c \in Trusted :
                   /\ RouteOf(choice, c) # None
                   /\ requests' = [requests EXCEPT ![r] =
                        [Resting EXCEPT !.by = "Switch", !.choice = choice, !.carrier = c,
                                        !.provider = RouteOf(choice, c),
                                        !.at = IF RouteOf(choice, c) = Aggregator
                                               THEN "Fetching" ELSE "Getting"]]
    BY DEF Choose
<1>2. choice \in Providers \cup {None}
    BY SourcesAssumption DEF Allowed, Providers
<1>3. Others
    BY <1>1, <1>2, OthersActed DEF IInv, TypeOK, Choose
<1>4. watches' \in Seq(Watches) /\ SameRows
    BY Untouched DEF IInv, Choose
<1>5. CASE UNCHANGED requests
    <2>1. TypeOK'
        BY <1>3, <1>4, <1>5 DEF IInv, TypeOK, Others, Choose
    <2> QED BY <2>1, <1>4, <1>5, NobodyMoves DEF Choose
<1>6. ASSUME NEW c \in Trusted, RouteOf(choice, c) # None,
             requests' = [requests EXCEPT ![r] =
                 [Resting EXCEPT !.by = "Switch", !.choice = choice, !.carrier = c,
                                 !.provider = RouteOf(choice, c),
                                 !.at = IF RouteOf(choice, c) = Aggregator
                                        THEN "Fetching" ELSE "Getting"]]
      PROVE  IInv'
    <2> DEFINE at == IF RouteOf(choice, c) = Aggregator THEN "Fetching" ELSE "Getting"
               q == [Resting EXCEPT !.by = "Switch", !.choice = choice, !.carrier = c,
                                    !.provider = RouteOf(choice, c), !.at = at]
    <2>1. c \in Carriers
        <3>1. Named \subseteq 1..Len(watches) /\ \A i \in Named : watches[i].carrier # None
            BY DEF Named, Verified
        <3>2. \A i \in 1..Len(watches) : watches[i] \in Watches
            BY DEF IInv, TypeOK
        <3>3. \A i \in 1..Len(watches) : watches[i].carrier \in Carriers \cup {None}
            BY <3>2 DEF Watches
        <3> QED BY <3>1, <3>3, SourcesAssumption DEF Trusted
    <2>2. RouteOf(choice, c) \in Providers
        BY <1>6, <2>1, RouteTyped
    <2>3. q \in Asking /\ q.by = "Switch" /\ q.provider # None /\ ~q.locked /\ q.at # "Creating"
        <3> HIDE DEF at
        <3>1. at \in {"Fetching", "Getting"}
            BY DEF at
        <3> QED BY <1>2, <1>6, <2>1, <2>2, <3>1 DEF Resting, Asking, Places
    <2>4. Sound(q)
        BY <2>3 DEF Sound
    <2>5. requests' \in [Requests -> Asking] /\ requests'[r] = q
              /\ \A s \in Requests \ {r} : requests'[s] = requests[s]
        BY <1>6, <2>3 DEF IInv, TypeOK
    <2>6. lock' \in Requests \cup {None} /\ LockMoves(r)
        BY DEF IInv, TypeOK, LockMoves, Choose
    <2>7. Moved(r)
        BY <2>3, <2>4, <2>5, <2>6 DEF Moved
    <2> QED BY <1>3, <1>4, <2>7, ByMoved
<1> QED BY <1>1, <1>5, <1>6

LEMMA PromoteInv ==
    ASSUME IInv, NEW r \in Requests, Promote(r)
    PROVE  IInv'
<1>1. PICK c \in Connected \cap Knowing :
          requests' = [requests EXCEPT ![r] =
              [Resting EXCEPT !.by = "Promotion", !.provider = c, !.at = "Getting"]]
    BY DEF Promote
<1> DEFINE q == [Resting EXCEPT !.by = "Promotion", !.provider = c, !.at = "Getting"]
<1>2. c \in Providers /\ c # None
    BY SourcesAssumption DEF Providers
<1>3. q \in Asking /\ q.by = "Promotion" /\ q.provider # None /\ ~q.locked /\ q.at # "Creating"
    BY <1>2 DEF Resting, Asking, Places
<1>4. Sound(q)
    BY <1>3 DEF Sound
<1>5. requests' \in [Requests -> Asking] /\ requests'[r] = q
          /\ \A s \in Requests \ {r} : requests'[s] = requests[s]
    BY <1>1, <1>3 DEF IInv, TypeOK
<1>6. lock' \in Requests \cup {None} /\ LockMoves(r)
    BY DEF IInv, TypeOK, LockMoves, Promote
<1>7. Moved(r)
    BY <1>3, <1>4, <1>5, <1>6 DEF Moved
<1>8. Others /\ watches' \in Seq(Watches) /\ SameRows
    BY OthersActed, Untouched DEF IInv, TypeOK, Promote
<1> QED BY <1>7, <1>8, ByMoved

LEMMA DieInv ==
    ASSUME IInv, NEW r \in Requests, Die(r)
    PROVE  IInv'
<1>1. requests' \in [Requests -> Asking] /\ requests'[r] = Resting
          /\ \A s \in Requests \ {r} : requests'[s] = requests[s]
    BY RestingTyped DEF IInv, TypeOK, Die
<1>2. ~requests'[r].locked /\ Sound(requests'[r])
    BY <1>1 DEF Resting, Sound, Creating
<1>3. lock' \in Requests \cup {None} /\ LockMoves(r)
    BY DEF IInv, TypeOK, LockMoves, Die
<1>4. Moved(r)
    BY <1>1, <1>2, <1>3 DEF Moved
<1>5. Others /\ watches' \in Seq(Watches) /\ SameRows
    BY OthersKept, Untouched DEF IInv, Die
<1> QED BY <1>4, <1>5, ByMoved

LEMMA ElsewhereInv ==
    ASSUME IInv, Elsewhere \/ BoxSeen \/ TimePasses \/ CooldownExpires \/ LockExpires
    PROVE  IInv'
<1>1. Others
    <2>1. CASE Elsewhere
        BY <2>1, OthersKept, OthersActed DEF IInv, TypeOK, Elsewhere, Poll, PollFails, Decide
    <2>2. CASE BoxSeen
        BY <2>2, OthersActed DEF IInv, TypeOK, BoxSeen
    <2>3. CASE CooldownExpires
        BY <2>3 DEF IInv, TypeOK, Others, CooldownExpires
    <2>4. CASE TimePasses \/ LockExpires
        BY <2>4, OthersKept DEF IInv, TimePasses, LockExpires
    <2> QED BY <2>1, <2>2, <2>3, <2>4
<1>2. watches' \in Seq(Watches) /\ SameRows
    <2>1. ASSUME NEW i \in 1..Len(watches), Poll(i) \/ PollFails(i) \/ Decide(i)
          PROVE  watches' \in Seq(Watches) /\ SameRows
        BY <2>1, Answered, StatusSet DEF IInv, Poll, PollFails, Decide
    <2>2. CASE TimePasses
        <3>1. DOMAIN watches = 1..Len(watches)
            BY DEF IInv, TypeOK
        <3>2. \A i \in 1..Len(watches) : watches[i] \in Watches
            BY DEF IInv, TypeOK
        <3>3. \A i \in 1..Len(watches) : watches'[i] = [watches[i] EXCEPT !.recent = FALSE]
            BY <2>2, <3>1 DEF TimePasses
        <3>4. \A i \in 1..Len(watches) :
                  watches'[i] \in Watches /\ watches'[i].provider = watches[i].provider
                      /\ watches'[i].by = watches[i].by
            BY <3>2, <3>3 DEF Watches
        <3>5. watches' \in [DOMAIN watches -> Watches]
            BY <2>2, <3>1, <3>4 DEF TimePasses
        <3> QED BY <3>4, <3>5, AllRewritten DEF IInv
    <2>3. CASE BoxSeen \/ CooldownExpires \/ LockExpires
        BY <2>3, Untouched DEF IInv, BoxSeen, CooldownExpires, LockExpires
    <2> QED BY <2>1, <2>2, <2>3 DEF Elsewhere
<1>3. UNCHANGED requests /\ (lock' = lock \/ (lock' = None /\ (lock # None => ~requests[lock].locked)))
    BY DEF Elsewhere, Poll, PollFails, Decide, BoxSeen, TimePasses, CooldownExpires, LockExpires
<1>4. TypeOK'
    BY <1>1, <1>2, <1>3 DEF IInv, TypeOK, Others
<1> QED BY <1>2, <1>3, <1>4, NobodyMoves

LEMMA Stutters == IInv /\ UNCHANGED vars => IInv'
BY DEF vars, IInv, TypeOK, LockHeld, CreatingUnderLock, RoutedSomewhere, NoneMadeYet, OneWatchFromRefreshes

LEMMA StepKeepsIInv == IInv /\ [Next]_vars => IInv'
<1> SUFFICES ASSUME IInv, Next PROVE IInv'
    BY Stutters
<1>1. ASSUME NEW r \in Requests, Work(r) PROVE IInv'
    BY <1>1, TakeLockInv, SyncInv, ExtendInv, SweepInv, ResolveInv, FetchInv, GetInv, CreateInv, StoreInv, PauseInv
       DEF Work
<1>2. ASSUME NEW r \in Requests, Press(r) \/ Choose(r) \/ Promote(r) \/ Die(r) PROVE IInv'
    BY <1>2, PressInv, ChooseInv, PromoteInv, DieInv
<1> QED BY <1>1, <1>2, ElsewhereInv DEF Next

(* The variables have their types in every state. *)
THEOREM Typing == Spec => []TypeOK
<1>1. IInv => TypeOK
    BY DEF IInv
<1> QED BY <1>1, InitIInv, StepKeepsIInv, PTL DEF Spec

(* However refreshes and continuation sweeps interleave and die, they make *)
(* at most one watch of a provider: the sweep lock makes get_or_create     *)
(* safe without a constraint of the database.                              *)
THEOREM RefreshesMakeOneWatch == Spec => []OneWatchFromRefreshes
<1>1. IInv => OneWatchFromRefreshes
    BY DEF IInv
<1> QED BY <1>1, InitIInv, StepKeepsIInv, PTL DEF Spec

=============================================================================
