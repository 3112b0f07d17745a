---------------------------- MODULE ExclusionProofs ----------------------------
(***************************************************************************)
(* Theorems about the two components that keep concurrent requests apart   *)
(* by a lock of their own, and implement ExclusiveHolder: resource_lock    *)
(* and the confirmation of an import job.  The components share nothing;   *)
(* Spec is that of ResourceLock, ImportSpec that of Imports.               *)
(*                                                                         *)
(* For resource_lock, with any set of workers, the inductive invariant is  *)
(* TypeOK /\ NeverUnprotected: mutual exclusion rests on the owner of the  *)
(* advisory lock only, never on the cache key.                             *)
(*                                                                         *)
(* For imports, with any lines, requests and faults, it says of the one    *)
(* confirmation in progress what it has done and what it may still do.     *)
(***************************************************************************)
EXTENDS ResourceLock, Imports, WellFoundedInduction, TLAPS

IInv == TypeOK /\ NeverUnprotected

(***************************************************************************)
(* Nobody is in the body, and nobody owns anything, at the start.          *)
(***************************************************************************)
LEMMA InitIInv == Init => IInv
  BY SentinelAssumption, MaxDepthAssumption
     DEF Init, IInv, TypeOK, NeverUnprotected, Inside, Phases

(***************************************************************************)
(* Every step of resource_lock, and every failure around it, keeps types.  *)
(***************************************************************************)
LEMMA TypeStep == IInv /\ [Next]_vars => TypeOK'
<1> SUFFICES ASSUME IInv, [Next]_vars PROVE TypeOK'
  OBVIOUS
<1> USE SentinelAssumption, MaxDepthAssumption
    DEF IInv, TypeOK, Phases, Goto, Leave
<1>1. ASSUME NEW w \in Workers, Call(w) PROVE TypeOK'
  BY <1>1 DEF Call
<1>2. ASSUME NEW w \in Workers, CacheAdd(w) \/ CacheReject(w) \/ CacheUnavailable(w)
      PROVE TypeOK'
  BY <1>2 DEF CacheAdd, CacheReject, CacheUnavailable
<1>3. ASSUME NEW w \in Workers, AdvisoryLock(w) PROVE TypeOK'
  BY <1>3 DEF AdvisoryLock, AdvisoryGrants
<1>4. ASSUME NEW w \in Workers, AdvisoryRefused(w) \/ UnlockFails(w) PROVE TypeOK'
  BY <1>4 DEF AdvisoryRefused, UnlockFails
<1>5. ASSUME NEW w \in Workers, Unlock(w) PROVE TypeOK'
  <2>1. owner = w => depth # 0
    BY DEF NeverUnprotected
  <2> QED
    BY <1>5, <2>1 DEF Unlock, AdvisoryRelease
<1>6. ASSUME NEW w \in Workers, CheckToken(w) \/ DeleteKey(w) \/ DeleteFails(w)
      PROVE TypeOK'
  BY <1>6 DEF CheckToken, DeleteKey, DeleteFails, Abandon
<1>7. ASSUME NEW w \in Workers,
             EndSession(w) \/ LoseSession(w) \/ Reconnect(w) \/ Crash(w)
      PROVE TypeOK'
  <2>1. ASSUME FreeAdvisory(w)
        PROVE  owner' \in Workers \cup {NoOne} /\ depth' \in 0 .. MaxDepth
    BY <2>1 DEF FreeAdvisory
  <2>2. CASE EndSession(w)
    BY <2>1, <2>2 DEF EndSession
  <2>3. CASE LoseSession(w)
    BY <2>1, <2>3 DEF LoseSession
  <2>4. CASE Crash(w)
    BY <2>1, <2>4 DEF Crash, Abandon
  <2>5. CASE Reconnect(w)
    BY <2>5 DEF Reconnect
  <2> QED
    BY <1>7, <2>2, <2>3, <2>4, <2>5
<1>8. CASE Expire
  BY <1>8 DEF Expire
<1>9. CASE UNCHANGED vars
  BY <1>9 DEF vars
<1> QED
  BY <1>1, <1>2, <1>3, <1>4, <1>5, <1>6, <1>7, <1>8, <1>9 DEF Next, CallStep

(***************************************************************************)
(* A worker enters the body only with the advisory lock, and no other      *)
(* worker can take the lock from under it.                                 *)
(***************************************************************************)
LEMMA ProtectedStep == IInv /\ [Next]_vars => NeverUnprotected'
<1> SUFFICES ASSUME IInv, [Next]_vars PROVE NeverUnprotected'
  OBVIOUS
<1> USE SentinelAssumption, MaxDepthAssumption
    DEF IInv, TypeOK, NeverUnprotected, Inside, Goto, Leave
<1>1. ASSUME NEW w \in Workers, Call(w) PROVE NeverUnprotected'
  BY <1>1 DEF Call
<1>2. ASSUME NEW w \in Workers, CacheAdd(w) \/ CacheReject(w) \/ CacheUnavailable(w)
      PROVE NeverUnprotected'
  BY <1>2 DEF CacheAdd, CacheReject, CacheUnavailable
<1>3. ASSUME NEW w \in Workers, AdvisoryLock(w) PROVE NeverUnprotected'
  <2>1. Inside' = Inside \cup {w} /\ w \notin evicted
    BY <1>3 DEF AdvisoryLock
  <2>2. \A v \in Inside : v \in evicted
    BY <1>3 DEF AdvisoryLock, AdvisoryGrants
  <2> QED
    BY <1>3, <2>1, <2>2 DEF AdvisoryLock
<1>4. ASSUME NEW w \in Workers, AdvisoryRefused(w) \/ UnlockFails(w)
      PROVE NeverUnprotected'
  BY <1>4 DEF AdvisoryRefused, UnlockFails
<1>5. ASSUME NEW w \in Workers, Unlock(w) PROVE NeverUnprotected'
  <2>1. Inside' = Inside \ {w} /\ evicted' = evicted \ {w}
    BY <1>5 DEF Unlock
  <2>2. CASE owner = w
    <3>1. \A v \in Inside : v = w \/ v \in evicted
      BY <2>2
    <3>2. depth \in Nat \ {0}
      BY <2>2
    <3> QED
      BY <1>5, <2>1, <2>2, <3>1, <3>2 DEF Unlock, AdvisoryRelease
  <2>3. CASE owner # w
    BY <1>5, <2>1, <2>3 DEF Unlock, AdvisoryRelease
  <2> QED
    BY <2>2, <2>3
<1>6. ASSUME NEW w \in Workers, CheckToken(w) \/ DeleteKey(w) \/ DeleteFails(w)
      PROVE NeverUnprotected'
  BY <1>6 DEF CheckToken, DeleteKey, DeleteFails
<1>7. ASSUME NEW w \in Workers,
             EndSession(w) \/ LoseSession(w) \/ Reconnect(w) \/ Crash(w)
      PROVE NeverUnprotected'
  <2>1. CASE EndSession(w)
    BY <1>7, <2>1 DEF EndSession, FreeAdvisory
  <2>2. CASE LoseSession(w)
    BY <1>7, <2>2 DEF LoseSession, FreeAdvisory
  <2>3. CASE Reconnect(w)
    BY <1>7, <2>3 DEF Reconnect
  <2>4. CASE Crash(w)
    BY <1>7, <2>4 DEF Crash, FreeAdvisory
  <2> QED
    BY <1>7, <2>1, <2>2, <2>3, <2>4
<1>8. CASE Expire
  BY <1>8 DEF Expire
<1>9. CASE UNCHANGED vars
  BY <1>9 DEF vars
<1> QED
  BY <1>1, <1>2, <1>3, <1>4, <1>5, <1>6, <1>7, <1>8, <1>9 DEF Next, CallStep

(***************************************************************************)
(* Types, and the ownership of the advisory lock behind every body that    *)
(* runs, hold in every reachable state.                                    *)
(***************************************************************************)
LEMMA InductiveInvariant == Spec => []IInv
<1>1. IInv /\ [Next]_vars => IInv'
  BY TypeStep, ProtectedStep DEF IInv
<1> QED
  BY InitIInv, <1>1, PTL DEF Spec

(***************************************************************************)
(* resource_lock is type correct.                                          *)
(***************************************************************************)
THEOREM TypeCorrect == Spec => []TypeOK
  BY InductiveInvariant, PTL DEF IInv

(***************************************************************************)
(* "If no safe lock can be taken we raise instead of proceeding            *)
(* unprotected", for any number of workers; and a worker in the body has   *)
(* lost the lock exactly if its connection was dropped there.              *)
(***************************************************************************)
THEOREM Protected == Spec => []NeverUnprotected
  BY InductiveInvariant, PTL DEF IInv

(***************************************************************************)
(* Two runs for one lock name are never in the body at once unless one of  *)
(* them lost its connection there, whatever the cache does.                *)
(***************************************************************************)
THEOREM Exclusion == Spec => []MutualExclusion
<1>1. IInv => MutualExclusion
  BY DEF IInv, NeverUnprotected, MutualExclusion
<1> QED
  BY InductiveInvariant, <1>1, PTL

(***************************************************************************)
(* Every step of the two combined locks is a step of the one lock its      *)
(* callers rely on, or is invisible to them.                               *)
(***************************************************************************)
LEMMA StepRefinement ==
  IInv /\ IInv' /\ [Next]_vars => [AbstractLock!Next]_<<Inside, evicted>>
<1> SUFFICES ASSUME IInv, IInv', [Next]_vars
             PROVE AbstractLock!Next \/ (Inside' = Inside /\ evicted' = evicted)
  OBVIOUS
<1> USE DEF IInv, TypeOK, Inside, Goto, Leave
<1>1. ASSUME NEW w \in Workers, AdvisoryLock(w) PROVE AbstractLock!Next
  <2>1. w \notin Inside /\ Inside' = Inside \cup {w} /\ evicted' = evicted
    BY <1>1 DEF AdvisoryLock
  <2>2. Inside \subseteq evicted
    BY <1>1, <2>1, SentinelAssumption DEF AdvisoryLock, AdvisoryGrants, NeverUnprotected
  <2> QED
    BY <2>1, <2>2 DEF AbstractLock!Next, AbstractLock!Acquire
<1>2. ASSUME NEW w \in Workers, Unlock(w) \/ UnlockFails(w)
      PROVE AbstractLock!Next
  <2>1. w \in Inside /\ Inside' = Inside \ {w} /\ evicted' = evicted \ {w}
    BY <1>2 DEF Unlock, UnlockFails
  <2> QED
    BY <2>1 DEF AbstractLock!Next, AbstractLock!Release
<1>3. ASSUME NEW w \in Workers, Crash(w)
      PROVE AbstractLock!Next \/ (Inside' = Inside /\ evicted' = evicted)
  <2>1. Inside' = Inside \ {w} /\ evicted' = evicted \ {w}
    BY <1>3 DEF Crash
  <2>2. CASE w \in Inside
    BY <2>1, <2>2 DEF AbstractLock!Next, AbstractLock!Release
  <2>3. CASE w \notin Inside
    BY <2>1, <2>3 DEF NeverUnprotected
  <2> QED
    BY <2>2, <2>3
<1>4. ASSUME NEW w \in Workers, LoseSession(w)
      PROVE AbstractLock!Next \/ (Inside' = Inside /\ evicted' = evicted)
  <2>1. Inside' = Inside
    BY <1>4 DEF LoseSession
  <2>2. CASE w \in Inside \ evicted
    BY <1>4, <2>1, <2>2 DEF LoseSession, AbstractLock!Next, AbstractLock!Evict
  <2>3. CASE w \notin Inside \ evicted
    BY <1>4, <2>1, <2>3 DEF LoseSession
  <2> QED
    BY <2>2, <2>3
<1>5. ASSUME NEW w \in Workers,
             \/ CacheAdd(w) \/ CacheReject(w) \/ CacheUnavailable(w)
             \/ AdvisoryRefused(w) \/ Call(w) \/ EndSession(w) \/ Reconnect(w)
             \/ CheckToken(w) \/ DeleteKey(w) \/ DeleteFails(w)
      PROVE Inside' = Inside /\ evicted' = evicted
  BY <1>5 DEF CacheAdd, CacheReject, CacheUnavailable, AdvisoryRefused,
              CheckToken, DeleteKey, DeleteFails, Call, EndSession, Reconnect
<1>6. CASE Expire \/ UNCHANGED vars
  BY <1>6 DEF Expire, vars
<1> QED
  BY <1>1, <1>2, <1>3, <1>4, <1>5, <1>6 DEF Next, CallStep

(***************************************************************************)
(* The cache key and the advisory lock together implement the lock of      *)
(* ExclusiveHolder, which a dropped connection takes from its holder.      *)
(***************************************************************************)
THEOREM Refinement == Spec => ImplementsExclusiveHolder
<1>1. Init => AbstractLock!Init
  BY DEF Init, Inside, AbstractLock!Init
<1> QED
  BY <1>1, InductiveInvariant, StepRefinement, PTL
     DEF Spec, ImplementsExclusiveHolder, AbstractLock!Spec
-------------------------------------------------------------------------------
(***************************************************************************)
(* A nonempty set of natural numbers has a least element.                  *)
(***************************************************************************)
LEMMA LeastNatural ==
  ASSUME NEW T, T \subseteq Nat, T # {}
  PROVE  \E n \in T : \A m \in T : n <= m
<1> DEFINE R == OpToRel(<, Nat)
<1>1. IsWellFoundedOn(R, Nat)
  BY NatLessThanWellFounded
<1>2. \A m, n \in Nat : m < n => <<m, n>> \in R
  BY DEF OpToRel
<1> HIDE DEF R
<1>3. \E x \in T : \A y \in T : ~ (<<y, x>> \in R)
  BY <1>1, WFMin
<1>4. PICK n \in T : \A m \in T : ~ (m < n)
  BY <1>2, <1>3
<1>5. \A m \in T : n <= m
  BY <1>4
<1> QED
  BY <1>5

(***************************************************************************)
(* Of a confirmation in progress: every line it has still to do is done by *)
(* nobody yet, occurs once and may be made; every row it has written       *)
(* is still there; and it makes an object of a line only if that is sound. *)
(***************************************************************************)
Makeable(l) == made[l] > 0 => l \in reopened

ImportInProgress(work) ==
    /\ \A k \in work.todo : work.mine[k.line] = None /\ Makeable(k.line)
    /\ \A j, k \in work.todo : j.line = k.line => j = k
    /\ \A l \in Lines : work.mine[l] # None =>
          work.mine[l] \in {"IMPORTED", "SKIPPED"} /\ rows[l] # None
    /\ \A l \in work.new : work.mine[l] = "IMPORTED" /\ Sound(l) /\ Makeable(l)

NothingDone(work) == work.new = {} /\ \A l \in Lines : work.mine[l] = None

OneConfirmation ==
    \A r, s \in Requests : At(r, "import") /\ At(s, "import") => r = s

ImportedRowsStayClosed ==
    \A l \in Lines : rows[l] # None /\ rows[l].status = "VALID" => Makeable(l)

(***************************************************************************)
(* No copy of a row's data, stored or in the memory of a request, lets an  *)
(* importer identify anything on a line that is not sound.                 *)
(***************************************************************************)
Honest(copy) ==
    \A l \in Lines :
        /\ l \in Malformed => copy[l] = "empty"
        /\ l \in BadNumbers => copy[l] # "parts"

DataIsHonest ==
    /\ Honest(data)
    /\ \A r \in Requests : request[r] # None => Honest(request[r].held)

ImportIInv ==
    /\ ImportTypeOK
    /\ DataIsHonest
    /\ OneConfirmation
    /\ \A r \in Requests : At(r, "import") => ImportInProgress(request[r])
    /\ \A r \in Requests : At(r, "confirm") => NothingDone(request[r])
    /\ ImportedRowsStayClosed
    /\ OnceUnlessReopened
    /\ OnlySoundLines

Steps == {"parse", "delete", "create", "list", "judge", "parsed",
          "validate", "query", "check", "confirm", "import", "fail"}

(***************************************************************************)
(* The next row of a loop is one of those it has still to do.              *)
(***************************************************************************)
LEMMA NextRowIsThere ==
  ASSUME NEW r \in Requests, request[r].todo \subseteq Keys, request[r].todo # {}
  PROVE  NextRow(r) \in request[r].todo
<1> DEFINE todo == request[r].todo
           lines == {k.line : k \in todo}
<1>1. lines \subseteq Nat /\ lines # {}
  BY DEF Keys, Lines
<1> HIDE DEF lines
<1>2. PICK n \in lines : \A m \in lines : n <= m
  BY <1>1, LeastNatural
<1>3. \E k \in todo : \A j \in todo : k.line <= j.line
  BY <1>2 DEF lines
<1> HIDE DEF todo
<1> QED
  BY <1>3 DEF NextRow, todo

(***************************************************************************)
(* The keys a query loads name each line at most once.                     *)
(***************************************************************************)
LEMMA PresentKeys ==
  /\ Present \subseteq Keys
  /\ \A j, k \in Present : j.line = k.line => j = k
  /\ \A k \in Present : k.line \in Lines /\ rows[k.line] # None
  BY DEF Present, Keys

(***************************************************************************)
(* A request that is moved on, and nothing else of it.                     *)
(***************************************************************************)
LEMMA MovedOn ==
  ASSUME NEW work \in Work, NEW s \in Steps
  PROVE  [work EXCEPT !.step = s] \in Work
  BY DEF Work, Steps

(***************************************************************************)
(* Every step of every request keeps the types.                            *)
(***************************************************************************)
LEMMA ImportTypeStep ==
  ASSUME ImportIInv, [ImportNext]_importVars
  PROVE  ImportTypeOK'
<1> USE FileIsSound DEF ImportIInv, ImportTypeOK
<1>1. ASSUME NEW r \in Requests, Ask(r) PROVE ImportTypeOK'
  <2>1. PICK update \in BOOLEAN : 
          request' = [request EXCEPT ![r] =
                 [step |-> StepFor(status), update |-> update, todo |-> {},
                  held |-> [l \in Lines |-> "empty"], mine |-> [l \in Lines |-> None], new |-> {}]]
    BY <1>1 DEF Ask
  <2>2. StepFor(status) \in Steps
    BY <1>1 DEF Ask, StepFor, Steps
  <2>3. request' \in [Requests -> Work \cup {None}]
    BY <2>1, <2>2 DEF Work, Steps, Data
  <2> QED
    BY <1>1, <2>3 DEF Ask
<1>2. ASSUME NEW r \in Requests, NEW from, NEW s \in Statuses, NEW to \in Steps \cup {None},
             SaveStatus(r, from, s, to)
      PROVE  ImportTypeOK'
  <2>1. request[r] \in Work
    BY <1>2 DEF SaveStatus, At
  <2>2. request' \in [Requests -> Work \cup {None}]
    BY <1>2, <2>1, MovedOn DEF SaveStatus
  <2> QED
    BY <1>2, <2>2 DEF SaveStatus
<1>3. ASSUME NEW r \in Requests,
             StartParse(r) \/ FinishParse(r) \/ StartValidation(r) \/ FinishValidation(r) \/ Fail(r)
      PROVE  ImportTypeOK'
  BY <1>2, <1>3 DEF StartParse, FinishParse, StartValidation, FinishValidation, Fail, Statuses, Steps
<1>4. ASSUME NEW r \in Requests, DeleteRows(r) PROVE ImportTypeOK'
  <2>1. request[r] \in Work
    BY <1>4 DEF DeleteRows, At
  <2> QED
    BY <1>4, <2>1, MovedOn DEF DeleteRows, Steps
<1>5. ASSUME NEW r \in Requests, CreateRows(r) PROVE ImportTypeOK'
  <2>1. request[r] \in Work
    BY <1>5 DEF CreateRows, At
  <2>2. request' \in [Requests -> Work \cup {None}]
    BY <1>5, <2>1, MovedOn DEF CreateRows, Steps
  <2> QED
    BY <1>5, <2>2 DEF CreateRows, RowStatuses, Data
<1>6. ASSUME NEW r \in Requests, ListRows(r) \/ QueryRows(r) \/ StartImport(r) PROVE ImportTypeOK'
  <2>1. request[r] \in Work
    BY <1>6 DEF ListRows, QueryRows, StartImport, At
  <2>2. ASSUME NEW s \in Steps, NEW keys \in SUBSET Keys
        PROVE  /\ [request[r] EXCEPT !.step = s, !.todo = keys] \in Work
               /\ [request[r] EXCEPT !.step = s, !.todo = keys, !.held = data] \in Work
    BY <2>1 DEF Work, Steps
  <2>3. Present \in SUBSET Keys /\ ValidRows \in SUBSET Keys
    BY DEF Present, ValidRows
  <2>4. request' \in [Requests -> Work \cup {None}]
    <3>1. PICK work \in Work : request' = [request EXCEPT ![r] = work]
      <4>1. CASE ListRows(r)
        <5>1. [request[r] EXCEPT !.step = "judge", !.todo = Present] \in Work
          BY <2>2, <2>3 DEF Steps
        <5> QED
          BY <4>1, <5>1 DEF ListRows
      <4>2. CASE QueryRows(r)
        <5>1. [request[r] EXCEPT !.step = "check", !.todo = Present, !.held = data] \in Work
          BY <2>2, <2>3 DEF Steps
        <5> QED
          BY <4>2, <5>1 DEF QueryRows
      <4>3. CASE StartImport(r)
        <5>1. [request[r] EXCEPT !.step = "import", !.todo = ValidRows, !.held = data] \in Work
          BY <2>2, <2>3 DEF Steps
        <5> QED
          BY <4>3, <5>1 DEF StartImport
      <4> QED
        BY <1>6, <4>1, <4>2, <4>3
    <3> QED
      BY <3>1
  <2> QED
    BY <1>6, <2>4 DEF ListRows, QueryRows, StartImport
<1>7. ASSUME NEW r \in Requests, JudgeRows(r) PROVE ImportTypeOK'
  <2> DEFINE judged == {k.line : k \in request[r].todo \cap Present}
  <2>1. request[r] \in Work
    BY <1>7 DEF JudgeRows, At
  <2>2. [request[r] EXCEPT !.step = "parsed", !.todo = {}] \in Work
    BY <2>1 DEF Work
  <2>3. \A l \in judged : l \in Lines /\ rows[l] # None
    BY PresentKeys
  <2>4. rows' = [l \in Lines |-> IF l \in judged
                                 THEN [rows[l] EXCEPT !.status = SchemaVerdict(l)] ELSE rows[l]]
    BY <1>7 DEF JudgeRows
  <2>5. /\ reopened' = reopened \cup {l \in judged : made[l] > 0 /\ SchemaVerdict(l) = "VALID"}
        /\ data' = [l \in Lines |-> IF l \in judged THEN Kept(l) ELSE data[l]]
    BY <1>7 DEF JudgeRows
  <2>6. request' \in [Requests -> Work \cup {None}]
    BY <1>7, <2>2 DEF JudgeRows
  <2> HIDE DEF judged
  <2>7. rows' \in [Lines -> [by : Requests, status : RowStatuses] \cup {None}]
    BY <2>3, <2>4 DEF SchemaVerdict, RowStatuses
  <2>8. data' \in [Lines -> Data]
    BY <2>5 DEF Kept, Data
  <2> QED
    BY <1>7, <2>3, <2>5, <2>6, <2>7, <2>8 DEF JudgeRows
<1>8. ASSUME NEW r \in Requests, CheckRow(r) PROVE ImportTypeOK'
  <2> DEFINE k == NextRow(r)
             verdict == RuleVerdict(k.line, request[r].held[k.line])
             derived == Derived(k.line, request[r].held[k.line])
  <2>1. request[r] \in Work /\ k \in request[r].todo /\ k \in Keys
    BY <1>8, NextRowIsThere DEF CheckRow, At, Work
  <2>2. k.line \in Lines /\ (k \in Present => rows[k.line] # None)
    BY <2>1, PresentKeys DEF Keys
  <2>3. [request[r] EXCEPT !.todo = @ \ {k}] \in Work
    BY <2>1 DEF Work
  <2>4. /\ rows' = rows \/ (k \in Present /\ rows' = [rows EXCEPT ![k.line].status = verdict])
        /\ data' = data \/ data' = [data EXCEPT ![k.line] = derived]
        /\ reopened' = reopened \/ reopened' = reopened \cup {k.line}
        /\ \/ request' = [request EXCEPT ![r].todo = @ \ {k}]
           \/ request' = [request EXCEPT ![r].step = "fail"]
        /\ UNCHANGED <<type, status, made, died, faults>>
    BY <1>8 DEF CheckRow
  <2>5. request' \in [Requests -> Work \cup {None}]
    <3>1. [request[r] EXCEPT !.step = "fail"] \in Work
      BY <2>1, MovedOn DEF Steps
    <3> HIDE DEF k, verdict, derived
    <3>2. CASE request' = [request EXCEPT ![r].todo = @ \ {k}]
      BY <2>3, <3>2
    <3>3. CASE request' = [request EXCEPT ![r].step = "fail"]
      BY <3>1, <3>3
    <3> QED
      BY <2>4, <3>2, <3>3
  <2>6. verdict \in RowStatuses /\ derived \in Data
    BY <2>1, <2>2 DEF RuleVerdict, RowStatuses, Derived, Data, Work
  <2> HIDE DEF k, verdict, derived
  <2>7. rows' \in [Lines -> [by : Requests, status : RowStatuses] \cup {None}]
    BY <2>2, <2>4, <2>6
  <2>8. data' \in [Lines -> Data]
    BY <2>2, <2>4, <2>6
  <2> QED
    BY <2>2, <2>4, <2>5, <2>7, <2>8
<1>9. ASSUME NEW r \in Requests, ImportRow(r) PROVE ImportTypeOK'
  <2> DEFINE k == NextRow(r)
             mark == IF Creates(r, k.line) \/ Updates(r, k.line) THEN "IMPORTED" ELSE "SKIPPED"
             work == [request[r] EXCEPT !.todo = @ \ {k}, !.mine[k.line] = mark,
                                        !.new = IF Creates(r, k.line) THEN @ \cup {k.line} ELSE @]
  <2>1. request[r] \in Work /\ k \in request[r].todo /\ k \in Keys
    BY <1>9, NextRowIsThere DEF ImportRow, At, Work
  <2>2. k.line \in Lines /\ mark \in RowStatuses
    BY <2>1 DEF Keys, RowStatuses
  <2>3. request' = [request EXCEPT ![r] = work] \/ request' = [request EXCEPT ![r] = None]
    BY <1>9 DEF ImportRow, Stop
  <2>4. work \in Work
    <3> HIDE DEF k, mark
    <3> QED
      BY <2>1, <2>2 DEF Work
  <2> HIDE DEF k, mark, work
  <2>5. request' \in [Requests -> Work \cup {None}]
    BY <2>3, <2>4
  <2> QED
    BY <1>9, <2>5 DEF ImportRow
<1>10. ASSUME NEW r \in Requests, Commit(r) PROVE ImportTypeOK'
  <2>1. request[r] \in Work /\ ImportInProgress(request[r])
    BY <1>10 DEF Commit, At
  <2> DEFINE mine == request[r].mine
  <2>2. \A l \in Lines : mine[l] # None => mine[l] \in RowStatuses /\ rows[l] # None
    BY <2>1 DEF Work, ImportInProgress
  <2>3. rows' = [l \in Lines |-> IF mine[l] = None THEN rows[l] ELSE [rows[l] EXCEPT !.status = mine[l]]]
    BY <1>10 DEF Commit
  <2> HIDE DEF mine
  <2>4. rows' \in [Lines -> [by : Requests, status : RowStatuses] \cup {None}]
    BY <2>2, <2>3
  <2>5. made' \in [Lines -> Nat]
    BY <1>10 DEF Commit
  <2>6. request' \in [Requests -> Work \cup {None}]
    BY <1>10 DEF Commit, Stop
  <2> QED
    BY <1>10, <2>4, <2>5, <2>6 DEF Commit, Statuses
<1>11. ASSUME NEW r \in Requests, Raise(r) \/ Die(r) PROVE ImportTypeOK'
  <2>1. request[r] \in Work
    BY <1>11 DEF Raise, Die
  <2>2. request' \in [Requests -> Work \cup {None}]
    BY <1>11, <2>1, MovedOn DEF Raise, Die, Stop, Steps
  <2>3. faults' \in 0 .. MaxFaults
    BY <1>11 DEF Raise, Die
  <2>4. UNCHANGED <<type, status, rows, data, made, reopened>> /\ died' \in BOOLEAN
    BY <1>11 DEF Raise, Die
  <2> QED
    BY <2>2, <2>3, <2>4
<1>12. CASE UNCHANGED importVars
  BY <1>12 DEF importVars
<1> QED
  BY <1>1, <1>3, <1>4, <1>5, <1>6, <1>7, <1>8, <1>9, <1>10, <1>11, <1>12
     DEF ImportNext, Proceed

(***************************************************************************)
(* What an importer can use is of a sound line.                            *)
(***************************************************************************)
LEMMA UsableIsSound ==
  ASSUME NEW copy, Honest(copy), NEW l \in Lines, Usable(l, copy[l])
  PROVE  Sound(l)
  BY DEF Honest, Usable, Sound

(***************************************************************************)
(* Every step of every request keeps the data of the rows, and the copies  *)
(* in memory, honest.                                                      *)
(***************************************************************************)
LEMMA DataStep ==
  ASSUME ImportIInv, ImportNext
  PROVE  DataIsHonest'
<1>1. Honest(data)
  BY DEF ImportIInv, DataIsHonest
<1>2. Honest([l \in Lines |-> "empty"])
  BY DEF Honest
<1>3. PICK r \in Requests : Ask(r) \/ Proceed(r) \/ Raise(r) \/ Die(r)
  BY DEF ImportNext
<1>4. request \in [Requests -> Work \cup {None}]
  BY DEF ImportIInv, ImportTypeOK
<1>5. ASSUME Honest(data'), request'[r] # None => Honest(request'[r].held),
             \A s \in Requests \ {r} : request'[s] = request[s]
      PROVE  DataIsHonest'
  BY <1>5 DEF ImportIInv, DataIsHonest, Honest
<1>6. CASE Ask(r)
  <2>1. PICK update \in BOOLEAN :
          request' = [request EXCEPT ![r] =
                 [step |-> StepFor(status), update |-> update, todo |-> {},
                  held |-> [l \in Lines |-> "empty"], mine |-> [l \in Lines |-> None], new |-> {}]]
    BY <1>6 DEF Ask
  <2>2. request'[r].held = [l \in Lines |-> "empty"]
    BY <1>4, <2>1
  <2>3. data' = data
    BY <1>6 DEF Ask
  <2> QED
    BY <1>1, <1>2, <1>4, <1>5, <2>1, <2>2, <2>3
<1>7. ASSUME NEW from, At(r, from), Honest(data'),
             \/ request' = [request EXCEPT ![r] = None]
             \/ \E work \in Work : request' = [request EXCEPT ![r] = work] /\ Honest(work.held)
      PROVE  DataIsHonest'
  BY <1>4, <1>5, <1>7
<1>8. ASSUME NEW from, At(r, from)
      PROVE  request[r] \in Work /\ Honest(request[r].held)
  BY <1>4, <1>8 DEF At, ImportIInv, DataIsHonest
<1>9. ASSUME NEW from, NEW s, NEW to \in Steps \cup {None}, SaveStatus(r, from, s, to)
      PROVE  DataIsHonest'
  <2>1. At(r, from) /\ data' = data
    BY <1>9 DEF SaveStatus
  <2>2. to \in Steps => /\ [request[r] EXCEPT !.step = to] \in Work
                        /\ [request[r] EXCEPT !.step = to].held = request[r].held
    BY <1>8, <2>1, MovedOn DEF Work
  <2> QED
    BY <1>1, <1>7, <1>8, <1>9, <2>1, <2>2 DEF SaveStatus
<1>10. CASE StartParse(r) \/ FinishParse(r) \/ StartValidation(r) \/ FinishValidation(r) \/ Fail(r)
  BY <1>9, <1>10 DEF StartParse, FinishParse, StartValidation, FinishValidation, Fail, Steps
<1>11. ASSUME NEW from, At(r, from), Honest(data'), UNCHANGED request \/
              \/ Stop(r)
              \/ \E to \in Steps : request' = [request EXCEPT ![r].step = to]
              \/ \E to \in Steps, keys \in SUBSET Keys :
                    request' = [request EXCEPT ![r].step = to, ![r].todo = keys]
              \/ \E keys \in SUBSET Keys : request' = [request EXCEPT ![r].todo = keys]
       PROVE  DataIsHonest'
  <2>1. request[r] \in Work /\ Honest(request[r].held)
    BY <1>8, <1>11
  <2>2. ASSUME NEW to \in Steps, NEW keys \in SUBSET Keys
        PROVE  /\ [request[r] EXCEPT !.step = to, !.todo = keys] \in Work
               /\ [request[r] EXCEPT !.step = to, !.todo = keys].held = request[r].held
               /\ [request[r] EXCEPT !.step = to] \in Work
               /\ [request[r] EXCEPT !.step = to].held = request[r].held
               /\ [request[r] EXCEPT !.todo = keys] \in Work
               /\ [request[r] EXCEPT !.todo = keys].held = request[r].held
    BY <2>1 DEF Work, Steps
  <2>3. CASE UNCHANGED request
    BY <1>5, <1>11, <2>1, <2>3
  <2>4. CASE Stop(r)
    BY <1>7, <1>11, <2>4 DEF Stop
  <2>5. CASE \E to \in Steps : request' = [request EXCEPT ![r].step = to]
    BY <1>7, <1>11, <2>1, <2>2, <2>5
  <2>6. CASE \E to \in Steps, keys \in SUBSET Keys :
                request' = [request EXCEPT ![r].step = to, ![r].todo = keys]
    <3>1. PICK to \in Steps, keys \in SUBSET Keys :
             request' = [request EXCEPT ![r].step = to, ![r].todo = keys]
      BY <2>6
    <3>2. request'[r].held = request[r].held
      BY <1>4, <2>1, <3>1 DEF Work
    <3>3. \A q \in Requests \ {r} : request'[q] = request[q]
      BY <1>4, <3>1
    <3> QED
      BY <1>5, <1>11, <2>1, <3>2, <3>3
  <2>7. CASE \E keys \in SUBSET Keys : request' = [request EXCEPT ![r].todo = keys]
    <3>1. PICK keys \in SUBSET Keys : request' = [request EXCEPT ![r].todo = keys]
      BY <2>7
    <3>2. request'[r].held = request[r].held
      BY <1>4, <2>1, <3>1 DEF Work
    <3>3. \A q \in Requests \ {r} : request'[q] = request[q]
      BY <1>4, <3>1
    <3> QED
      BY <1>5, <1>11, <2>1, <3>2, <3>3
  <2> QED
    BY <1>11, <2>3, <2>4, <2>5, <2>6, <2>7
<1>12. CASE DeleteRows(r)
  BY <1>1, <1>11, <1>12 DEF DeleteRows, Steps
<1>13. CASE CreateRows(r)
  BY <1>1, <1>2, <1>11, <1>13 DEF CreateRows, Steps
<1>14. CASE ListRows(r)
  BY <1>1, <1>11, <1>14, PresentKeys DEF ListRows, Steps
<1>15. CASE JudgeRows(r)
  <2> DEFINE judged == {k.line : k \in request[r].todo \cap Present}
  <2>1. data' = [l \in Lines |-> IF l \in judged THEN Kept(l) ELSE data[l]]
    BY <1>15 DEF JudgeRows
  <2> HIDE DEF judged
  <2>2. Honest(data')
    BY <1>1, <2>1 DEF Honest, Kept
  <2>3. request' = [request EXCEPT ![r].step = "parsed", ![r].todo = {}]
    BY <1>15 DEF JudgeRows
  <2> QED
    BY <1>11, <1>15, <2>2, <2>3 DEF JudgeRows, Steps
<1>16. ASSUME QueryRows(r) \/ StartImport(r) PROVE DataIsHonest'
  <2>1. PICK from \in {"query", "confirm"} : At(r, from) /\ data' = data
    BY <1>16 DEF QueryRows, StartImport
  <2>2. request[r] \in Work /\ data \in [Lines -> Data]
    BY <1>8, <2>1 DEF ImportIInv, ImportTypeOK
  <2>3. request'[r].held = data /\ \A q \in Requests \ {r} : request'[q] = request[q]
    <3>1. CASE QueryRows(r)
      BY <1>4, <2>2, <3>1 DEF QueryRows, Work
    <3>2. CASE StartImport(r)
      BY <1>4, <2>2, <3>2 DEF StartImport, Work
    <3> QED
      BY <1>16, <3>1, <3>2
  <2> QED
    BY <1>1, <1>5, <2>1, <2>3
<1>17. CASE CheckRow(r)
  <2> DEFINE k == NextRow(r)
             held == request[r].held
  <2>1. request[r] \in Work /\ k \in request[r].todo /\ k.line \in Lines /\ Honest(held)
    BY <1>8, <1>17, NextRowIsThere DEF CheckRow, At, Work, Keys
  <2>2. data' = data \/ data' = [data EXCEPT ![k.line] = Derived(k.line, held[k.line])]
    BY <1>17 DEF CheckRow
  <2>3. \/ request' = [request EXCEPT ![r].todo = @ \ {k}]
        \/ request' = [request EXCEPT ![r].step = "fail"]
    BY <1>17 DEF CheckRow
  <2>4. request[r].todo \ {k} \in SUBSET Keys
    BY <2>1 DEF Work
  <2> HIDE DEF k, held
  <2>5. Honest(data')
    BY <1>1, <2>1, <2>2 DEF Honest, Derived, ImportIInv, ImportTypeOK
  <2>6. At(r, "check")
    BY <1>17 DEF CheckRow
  <2>7. \/ \E keys \in SUBSET Keys : request' = [request EXCEPT ![r].todo = keys]
        \/ \E to \in Steps : request' = [request EXCEPT ![r].step = to]
    BY <2>3, <2>4 DEF Steps
  <2> QED
    BY <1>11, <2>5, <2>6, <2>7
<1>18. CASE ImportRow(r)
  <2> DEFINE k == NextRow(r)
             mark == IF Creates(r, k.line) \/ Updates(r, k.line) THEN "IMPORTED" ELSE "SKIPPED"
             work == [request[r] EXCEPT !.todo = @ \ {k}, !.mine[k.line] = mark,
                                        !.new = IF Creates(r, k.line) THEN @ \cup {k.line} ELSE @]
  <2>1. request[r] \in Work /\ Honest(request[r].held) /\ data' = data
    BY <1>8, <1>18 DEF ImportRow
  <2>2. request' = [request EXCEPT ![r] = work] \/ request' = [request EXCEPT ![r] = None]
    BY <1>18 DEF ImportRow, Stop
  <2> HIDE DEF k, mark
  <2>3. work.held = request[r].held
    BY <2>1 DEF Work
  <2> HIDE DEF work
  <2> QED
    BY <1>1, <1>4, <1>5, <2>1, <2>2, <2>3
<1>19. CASE Commit(r) \/ Raise(r) \/ Die(r)
  <2>1. request[r] \in Work /\ Honest(request[r].held) /\ data' = data
    BY <1>4, <1>19 DEF Commit, At, Raise, Die, ImportIInv, DataIsHonest
  <2>2. request' = [request EXCEPT ![r] = None]
        \/ request' = [request EXCEPT ![r].step = "fail"]
    BY <1>19 DEF Commit, Raise, Die, Stop
  <2>3. [request[r] EXCEPT !.step = "fail"].held = request[r].held
    BY <2>1 DEF Work
  <2> QED
    BY <1>1, <1>4, <1>5, <2>1, <2>2, <2>3
<1> QED
  BY <1>3, <1>6, <1>10, <1>12, <1>13, <1>14, <1>15, <1>16, <1>17, <1>18, <1>19 DEF Proceed

(***************************************************************************)
(* The invariant, but for the types.                                       *)
(***************************************************************************)
ImportProgress ==
    /\ OneConfirmation
    /\ \A r \in Requests : At(r, "import") => ImportInProgress(request[r])
    /\ \A r \in Requests : At(r, "confirm") => NothingDone(request[r])
    /\ ImportedRowsStayClosed
    /\ OnceUnlessReopened
    /\ OnlySoundLines

(***************************************************************************)
(* A step of a request that is not at its import disturbs no confirmation: *)
(* it makes nothing, leaves the rows a confirmation has written alone, and *)
(* remembers the imported rows that it marks VALID.                        *)
(***************************************************************************)
LEMMA Undisturbed ==
  ASSUME ImportIInv, NEW r \in Requests,
         \A s \in Requests \ {r} : request'[s] = request[s],
         ~ At(r, "import")',
         At(r, "confirm")' => NothingDone(request'[r]),
         type' = type, made' = made, reopened \subseteq reopened',
         \A l \in Lines : ~ Untouched(l) => rows'[l] = rows[l],
         \A l \in Lines : rows'[l] # None /\ rows'[l].status = "VALID" => Makeable(l)'
  PROVE  ImportProgress'
<1>1. \A s \in Requests, p \in {"import", "confirm"} :
         At(s, p)' /\ s # r => At(s, p) /\ request'[s] = request[s]
  BY DEF At
<1>2. OneConfirmation'
  BY <1>1 DEF ImportIInv, OneConfirmation
<1>3. ASSUME NEW s \in Requests, At(s, "import")' PROVE ImportInProgress(request[s])'
  <2>1. s # r /\ At(s, "import") /\ request'[s] = request[s]
    BY <1>1, <1>3
  <2>2. ImportInProgress(request[s])
    BY <2>1 DEF ImportIInv
  <2>3. \A l : Makeable(l) => Makeable(l)'
    BY DEF Makeable
  <2>4. \A l : Sound(l) => Sound(l)'
    BY DEF Sound
  <2>5. \A l \in Lines : request[s].mine[l] # None => rows'[l] = rows[l]
    BY <2>1 DEF Untouched
  <2> QED
    BY <2>1, <2>2, <2>3, <2>4, <2>5 DEF ImportInProgress
<1>4. \A s \in Requests : At(s, "confirm")' => NothingDone(request[s])'
  BY <1>1 DEF ImportIInv, NothingDone
<1>5. ImportedRowsStayClosed'
  BY DEF ImportedRowsStayClosed
<1>6. OnceUnlessReopened' /\ OnlySoundLines'
  BY DEF ImportIInv, OnceUnlessReopened, OnlySoundLines, Sound
<1> QED
  BY <1>2, <1>3, <1>4, <1>5, <1>6 DEF ImportProgress

(***************************************************************************)
(* In particular when it writes no row.                                    *)
(***************************************************************************)
LEMMA NoRowWritten ==
  ASSUME ImportIInv, NEW r \in Requests,
         \A s \in Requests \ {r} : request'[s] = request[s],
         ~ At(r, "import")',
         At(r, "confirm")' => NothingDone(request'[r]),
         UNCHANGED <<type, rows, made, reopened>>
  PROVE  ImportProgress'
<1>1. \A l \in Lines : rows'[l] # None /\ rows'[l].status = "VALID" => Makeable(l)'
  BY DEF ImportIInv, ImportedRowsStayClosed, Makeable
<1> QED
  BY <1>1, Undisturbed

(***************************************************************************)
(* A confirmation that begins finds nobody at an import, and the VALID     *)
(* rows it loads are not of lines made before, or of reopened ones.        *)
(***************************************************************************)
LEMMA StartImportStep ==
  ASSUME ImportIInv, NEW r \in Requests, StartImport(r)
  PROVE  ImportProgress'
<1> DEFINE work == [request[r] EXCEPT !.step = "import", !.todo = ValidRows,
                                       !.held = data]
<1>1. request[r] \in Work /\ NothingDone(request[r])
  BY DEF StartImport, At, ImportIInv, ImportTypeOK
<1>2. request' = [request EXCEPT ![r] = work] /\ request'[r] = work
  BY DEF StartImport, ImportIInv, ImportTypeOK
<1>3. \A s \in Requests \ {r} : request'[s] = request[s]
  BY <1>2 DEF ImportIInv, ImportTypeOK
<1>4. UNCHANGED <<type, rows, made, reopened>>
  BY DEF StartImport
<1>5. work.step = "import" /\ work.todo = ValidRows /\ work.mine = request[r].mine /\ work.new = {}
  BY <1>1 DEF Work, NothingDone
<1> HIDE DEF work
<1>6. \A s \in Requests : At(s, "import")' => s = r
  BY <1>3 DEF StartImport, LockFree, At
<1>7. ImportInProgress(request[r])'
  <2>1. \A k \in ValidRows : k \in Present /\ rows[k.line].status = "VALID"
    BY DEF ValidRows
  <2>2. \A k \in ValidRows : k.line \in Lines /\ Makeable(k.line)
    BY <2>1, PresentKeys DEF ImportIInv, ImportedRowsStayClosed
  <2>3. \A j, k \in ValidRows : j.line = k.line => j = k
    BY <2>1, PresentKeys
  <2> QED
    BY <1>1, <1>2, <1>4, <1>5, <2>2, <2>3 DEF ImportInProgress, NothingDone, Makeable
<1>8. \A s \in Requests : At(s, "confirm")' => NothingDone(request[s])'
  BY <1>2, <1>3, <1>5 DEF At, ImportIInv, NothingDone
<1>9. ImportedRowsStayClosed' /\ OnceUnlessReopened' /\ OnlySoundLines'
  BY <1>4 DEF ImportIInv, ImportedRowsStayClosed, Makeable, OnceUnlessReopened, OnlySoundLines, Sound
<1> QED
  BY <1>6, <1>7, <1>8, <1>9 DEF ImportProgress, OneConfirmation

(***************************************************************************)
(* One row of a confirmation: done once, and made only if it may be.       *)
(***************************************************************************)
LEMMA ImportRowStep ==
  ASSUME ImportIInv, NEW r \in Requests, ImportRow(r)
  PROVE  ImportProgress'
<1> DEFINE k == NextRow(r)
           mark == IF Creates(r, k.line) \/ Updates(r, k.line) THEN "IMPORTED" ELSE "SKIPPED"
           work == [request[r] EXCEPT !.todo = @ \ {k}, !.mine[k.line] = mark,
                                      !.new = IF Creates(r, k.line) THEN @ \cup {k.line} ELSE @]
<1>1. /\ request[r] \in Work /\ k \in request[r].todo /\ k \in Keys
      /\ At(r, "import") /\ ImportInProgress(request[r])
  BY NextRowIsThere DEF ImportRow, At, ImportIInv, ImportTypeOK, Work
<1>2. k.line \in Lines /\ mark # None
  BY <1>1, NothingIsNoStatus DEF Keys, RowStatuses
<1>3. UNCHANGED <<type, rows, made, reopened>>
  BY DEF ImportRow
<1>4. CASE k \notin Present
  <2>1. request' = [request EXCEPT ![r] = None]
    BY <1>4 DEF ImportRow, Stop
  <2> QED
    BY <1>3, <2>1, NoRowWritten DEF ImportIInv, ImportTypeOK, At
<1>5. CASE k \in Present
  <2>1. request' = [request EXCEPT ![r] = work]
    BY <1>5 DEF ImportRow
  <2>2. rows[k.line] # None
    BY <1>5, PresentKeys
  <2>3. Creates(r, k.line) => Sound(k.line) /\ mark = "IMPORTED"
    BY <1>1, <1>2, UsableIsSound DEF Creates, At, ImportIInv, DataIsHonest
  <2> HIDE DEF k, mark
  <2>4. /\ work.step = "import"
        /\ work.todo = request[r].todo \ {k}
        /\ work.mine = [request[r].mine EXCEPT ![k.line] = mark]
        /\ work.new \subseteq request[r].new \cup {k.line}
        /\ k.line \in work.new => Creates(r, k.line) \/ k.line \in request[r].new
    BY <1>1, <1>2 DEF Work, ImportInProgress, At
  <2>5. request[r].mine \in [Lines -> RowStatuses \cup {None}] /\ request[r].todo \subseteq Keys
    BY <1>1 DEF Work
  <2> HIDE DEF work
  <2>6. k.line \notin request[r].new
    BY <1>1, NothingIsNoStatus DEF ImportInProgress, RowStatuses
  <2>7. \A j \in work.todo : j # k /\ j.line # k.line /\ j \in request[r].todo /\ j.line \in Lines
    BY <1>1, <2>4, <2>5 DEF ImportInProgress, Keys
  <2>8. \A l \in Lines \ {k.line} : work.mine[l] = request[r].mine[l]
    BY <2>4, <2>5
  <2>9. work.mine[k.line] = mark
    BY <1>2, <2>4, <2>5
  <2>10. ASSUME NEW l \in work.new PROVE work.mine[l] = "IMPORTED" /\ Sound(l) /\ Makeable(l)
    <3>1. CASE l = k.line
      BY <1>1, <2>3, <2>4, <2>6, <2>9, <3>1 DEF ImportInProgress
    <3>2. CASE l # k.line
      <4>1. l \in request[r].new /\ l \in Lines
        BY <1>1, <2>4, <3>2 DEF Work
      <4> QED
        BY <1>1, <2>8, <3>2, <4>1 DEF ImportInProgress
    <3> QED
      BY <3>1, <3>2
  <2>11. \A l \in Lines : work.mine[l] # None =>
            work.mine[l] \in {"IMPORTED", "SKIPPED"} /\ rows[l] # None
    <3>1. mark \in {"IMPORTED", "SKIPPED"}
      BY DEF mark
    <3> QED
      BY <1>1, <2>2, <2>8, <2>9, <3>1 DEF ImportInProgress
  <2>12. \A j \in work.todo : work.mine[j.line] = None /\ Makeable(j.line)
    BY <1>1, <2>7, <2>8 DEF ImportInProgress
  <2>13. \A i, j \in work.todo : i.line = j.line => i = j
    BY <1>1, <2>7 DEF ImportInProgress
  <2>14. request'[r] = work /\ \A s \in Requests \ {r} : request'[s] = request[s]
    BY <2>1 DEF ImportIInv, ImportTypeOK
  <2>15. ImportInProgress(request[r])'
    BY <1>3, <2>10, <2>11, <2>12, <2>13, <2>14 DEF ImportInProgress, Makeable, Sound
  <2>16. \A s \in Requests : At(s, "import")' => s = r
    BY <1>1, <2>14 DEF At, ImportIInv, OneConfirmation
  <2>17. \A s \in Requests : At(s, "confirm")' => NothingDone(request[s])'
    BY <2>4, <2>14 DEF At, ImportIInv, NothingDone
  <2>18. ImportedRowsStayClosed' /\ OnceUnlessReopened' /\ OnlySoundLines'
    BY <1>3 DEF ImportIInv, ImportedRowsStayClosed, Makeable, OnceUnlessReopened, OnlySoundLines, Sound
  <2> QED
    BY <2>15, <2>16, <2>17, <2>18 DEF ImportProgress, OneConfirmation
<1> QED
  BY <1>4, <1>5

(***************************************************************************)
(* The commit: what was made shows, and its rows are closed with it.       *)
(***************************************************************************)
LEMMA CommitStep ==
  ASSUME ImportIInv, NEW r \in Requests, Commit(r)
  PROVE  /\ ImportProgress'
         /\ status' = "COMPLETED"
         /\ \A l \in Lines : made'[l] # made[l] => rows'[l].status = "IMPORTED"
<1> DEFINE mine == request[r].mine
           new == request[r].new
<1>1. request[r] \in Work /\ At(r, "import") /\ ImportInProgress(request[r])
  BY DEF Commit, At, ImportIInv, ImportTypeOK
<1>2. /\ rows' = [l \in Lines |-> IF mine[l] = None THEN rows[l] ELSE [rows[l] EXCEPT !.status = mine[l]]]
      /\ made' = [l \in Lines |-> IF l \in new THEN made[l] + 1 ELSE made[l]]
      /\ UNCHANGED <<type, reopened>> /\ status' = "COMPLETED"
  BY DEF Commit
<1>3. request' = [request EXCEPT ![r] = None]
  BY DEF Commit, Stop
<1>4. \A s \in Requests : ~ At(s, "import")'
  BY <1>1, <1>3 DEF At, ImportIInv, ImportTypeOK, OneConfirmation
<1>5. \A s \in Requests : At(s, "confirm")' => NothingDone(request[s])'
  BY <1>3 DEF At, ImportIInv, ImportTypeOK, NothingDone
<1>6. ASSUME NEW l \in Lines, mine[l] # None
      PROVE  rows'[l].status = mine[l]
  <2>1. rows[l] # None
    BY <1>1, <1>6 DEF ImportInProgress
  <2>2. rows[l] \in [by : Requests, status : RowStatuses]
    BY <2>1 DEF ImportIInv, ImportTypeOK
  <2>3. rows'[l] = [rows[l] EXCEPT !.status = mine[l]]
    BY <1>2, <1>6
  <2> QED
    BY <2>2, <2>3
<1>7. \A l \in Lines : l \in new => mine[l] = "IMPORTED" /\ mine[l] # None
  BY <1>1, NothingIsNoStatus DEF ImportInProgress, RowStatuses
<1>8. \A l \in Lines : made[l] \in Nat
  BY DEF ImportIInv, ImportTypeOK
<1>9. ASSUME NEW l \in Lines, rows'[l] # None, rows'[l].status = "VALID" PROVE Makeable(l)'
  <2>1. l \notin new
    BY <1>6, <1>7, <1>9
  <2>2. made'[l] = made[l]
    BY <1>2, <2>1
  <2>3. CASE mine[l] = None
    BY <1>2, <1>9, <2>2, <2>3 DEF ImportIInv, ImportedRowsStayClosed, Makeable
  <2>4. CASE mine[l] # None
    <3>1. mine[l] # "VALID"
      BY <1>1, <2>4 DEF ImportInProgress
    <3> QED
      BY <1>6, <1>9, <2>4, <3>1
  <2> QED
    BY <2>3, <2>4
<1>10. \A l \in new : Sound(l) /\ Makeable(l)
  BY <1>1 DEF ImportInProgress
<1>11. OnceUnlessReopened'
  BY <1>2, <1>8, <1>10 DEF OnceUnlessReopened, Makeable, ImportIInv
<1>12. OnlySoundLines'
  BY <1>2, <1>8, <1>10 DEF OnlySoundLines, Sound, ImportIInv
<1>13. \A l \in Lines : made'[l] # made[l] => rows'[l].status = "IMPORTED"
  BY <1>2, <1>6, <1>7
<1> QED
  BY <1>2, <1>4, <1>5, <1>9, <1>11, <1>12, <1>13
     DEF ImportProgress, OneConfirmation, ImportedRowsStayClosed

(***************************************************************************)
(* Every step keeps the invariant, and makes objects only as a whole.      *)
(***************************************************************************)
LEMMA ProgressStep ==
  ASSUME ImportIInv, ImportNext
  PROVE  /\ ImportProgress'
         /\ made' # made =>
              /\ status' = "COMPLETED"
              /\ \A l \in Lines : made'[l] # made[l] => rows'[l].status = "IMPORTED"
<1> DEFINE Whole == made' # made =>
              /\ status' = "COMPLETED"
              /\ \A l \in Lines : made'[l] # made[l] => rows'[l].status = "IMPORTED"
<1> USE DEF ImportTypeOK
<1>1. ASSUME NEW r \in Requests, Ask(r) PROVE ImportProgress'
  <2>1. PICK update \in BOOLEAN : 
          request' = [request EXCEPT ![r] =
                 [step |-> StepFor(status), update |-> update, todo |-> {},
                  held |-> [l \in Lines |-> "empty"], mine |-> [l \in Lines |-> None], new |-> {}]]
    BY <1>1 DEF Ask
  <2>2. StepFor(status) # "import"
    BY <1>1 DEF Ask, StepFor
  <2>3. NothingDone(request'[r]) /\ ~ At(r, "import")'
    BY <2>1, <2>2 DEF NothingDone, At, ImportIInv
  <2> QED
    BY <1>1, <2>1, <2>3, NoRowWritten DEF Ask, ImportIInv
<1>2. ASSUME NEW r \in Requests, NEW from, NEW s, NEW to \in {"delete", "query", None},
             SaveStatus(r, from, s, to)
      PROVE  ImportProgress'
  <2>1. request[r] \in Work
    BY <1>2 DEF SaveStatus, At, ImportIInv
  <2>2. ~ At(r, "import")' /\ ~ At(r, "confirm")'
    BY <1>2, <2>1 DEF SaveStatus, At, ImportIInv, Work
  <2> QED
    BY <1>2, <2>2, NoRowWritten DEF SaveStatus, ImportIInv
<1>3. ASSUME NEW r \in Requests,
             StartParse(r) \/ FinishParse(r) \/ StartValidation(r) \/ FinishValidation(r) \/ Fail(r)
      PROVE  ImportProgress' /\ made' = made
  <2>1. ImportProgress'
    BY <1>2, <1>3 DEF StartParse, FinishParse, StartValidation, FinishValidation, Fail
  <2>2. made' = made
    BY <1>3 DEF StartParse, FinishParse, StartValidation, FinishValidation, Fail, SaveStatus
  <2> QED
    BY <2>1, <2>2
<1>4. ASSUME NEW r \in Requests, DeleteRows(r) PROVE ImportProgress'
  <2>1. request[r] \in Work
    BY <1>4 DEF DeleteRows, At, ImportIInv
  <2>2. ~ At(r, "import")' /\ ~ At(r, "confirm")'
    BY <1>4, <2>1 DEF DeleteRows, At, ImportIInv, Work
  <2> QED
    BY <1>4, <2>2, Undisturbed DEF DeleteRows, ImportIInv
<1>5. ASSUME NEW r \in Requests, CreateRows(r) PROVE ImportProgress'
  <2>1. request[r] \in Work
    BY <1>5 DEF CreateRows, At, ImportIInv
  <2>2. ~ At(r, "import")' /\ ~ At(r, "confirm")'
    BY <1>5, <2>1 DEF CreateRows, At, ImportIInv, Work
  <2>3. \A s \in Requests \ {r} : request'[s] = request[s]
    BY <1>5 DEF CreateRows, ImportIInv
  <2>4. CASE rows' = rows
    BY <1>5, <2>2, <2>3, <2>4, NoRowWritten DEF CreateRows
  <2>5. CASE /\ \A l \in Lines : rows[l] = None
             /\ rows' = [l \in Lines |-> [by |-> r, status |-> "PENDING"]]
    <3>1. \A l \in Lines : Untouched(l)
      BY <2>5 DEF Untouched, ImportIInv, ImportInProgress
    <3>2. \A l \in Lines : rows'[l].status # "VALID"
      BY <2>5
    <3> QED
      BY <1>5, <2>2, <2>3, <3>1, <3>2, Undisturbed DEF CreateRows
  <2> QED
    BY <1>5, <2>4, <2>5 DEF CreateRows
<1>6. ASSUME NEW r \in Requests, ListRows(r) \/ QueryRows(r) PROVE ImportProgress'
  <2>1. request[r] \in Work
    BY <1>6 DEF ListRows, QueryRows, At, ImportIInv
  <2>2. ~ At(r, "import")' /\ ~ At(r, "confirm")'
    BY <1>6, <2>1 DEF ListRows, QueryRows, At, ImportIInv, Work
  <2> QED
    BY <1>6, <2>2, NoRowWritten DEF ListRows, QueryRows, ImportIInv
<1>7. ASSUME NEW r \in Requests, JudgeRows(r) PROVE ImportProgress'
  <2> DEFINE judged == {k.line : k \in request[r].todo \cap Present}
  <2>1. request[r] \in Work
    BY <1>7 DEF JudgeRows, At, ImportIInv
  <2>2. ~ At(r, "import")' /\ ~ At(r, "confirm")'
    BY <1>7, <2>1 DEF JudgeRows, At, ImportIInv, Work
  <2>3. \A s \in Requests \ {r} : request'[s] = request[s]
    BY <1>7 DEF JudgeRows, ImportIInv
  <2>4. \A l \in judged : l \in Lines /\ rows[l] # None /\ Untouched(l)
    BY <1>7, PresentKeys DEF JudgeRows
  <2>5. /\ rows' = [l \in Lines |-> IF l \in judged
                                 THEN [rows[l] EXCEPT !.status = SchemaVerdict(l)] ELSE rows[l]]
        /\ reopened' = reopened \cup {l \in judged : made[l] > 0 /\ SchemaVerdict(l) = "VALID"}
        /\ UNCHANGED <<type, made>>
    BY <1>7 DEF JudgeRows
  <2> HIDE DEF judged
  <2>6. ASSUME NEW l \in Lines, rows'[l] # None, rows'[l].status = "VALID" PROVE Makeable(l)'
    <3>1. CASE l \in judged
      <4>1. rows[l] \in [by : Requests, status : RowStatuses]
        BY <2>4, <3>1 DEF ImportIInv
      <4>2. SchemaVerdict(l) = "VALID"
        BY <2>5, <2>6, <3>1, <4>1
      <4> QED
        BY <2>5, <3>1, <4>2 DEF Makeable
    <3>2. CASE l \notin judged
      BY <2>5, <2>6, <3>2 DEF ImportIInv, ImportedRowsStayClosed, Makeable
    <3> QED
      BY <3>1, <3>2
  <2>7. \A l \in Lines : ~ Untouched(l) => rows'[l] = rows[l]
    BY <2>4, <2>5
  <2> QED
    BY <2>2, <2>3, <2>5, <2>6, <2>7, Undisturbed
<1>8. ASSUME NEW r \in Requests, CheckRow(r) PROVE ImportProgress'
  <2> DEFINE k == NextRow(r)
             verdict == RuleVerdict(k.line, request[r].held[k.line])
  <2>1. request[r] \in Work /\ k \in request[r].todo /\ k.line \in Lines
    BY <1>8, NextRowIsThere DEF CheckRow, At, Work, ImportIInv, Keys
  <2>2. ~ At(r, "import")' /\ ~ At(r, "confirm")'
    BY <1>8, <2>1 DEF CheckRow, At, ImportIInv, Work
  <2>3. \A s \in Requests \ {r} : request'[s] = request[s]
    BY <1>8 DEF CheckRow, ImportIInv
  <2>4. CASE k \notin Present
    BY <1>8, <2>2, <2>3, <2>4, NoRowWritten DEF CheckRow
  <2>5. CASE k \in Present
    <3>1. /\ Untouched(k.line)
          /\ rows' = [rows EXCEPT ![k.line].status = verdict]
          /\ reopened' = IF made[k.line] > 0 /\ verdict = "VALID"
                         THEN reopened \cup {k.line} ELSE reopened
          /\ UNCHANGED <<type, made>>
      BY <1>8, <2>5 DEF CheckRow
    <3>2. rows[k.line] \in [by : Requests, status : RowStatuses]
      BY <2>1, <2>5, PresentKeys DEF ImportIInv
    <3> HIDE DEF k, verdict
    <3>3. rows'[k.line].status = verdict
      BY <2>1, <3>1, <3>2 DEF ImportIInv
    <3>4. \A l \in Lines \ {k.line} : rows'[l] = rows[l]
      BY <3>1 DEF ImportIInv
    <3>5. ASSUME NEW l \in Lines, rows'[l] # None, rows'[l].status = "VALID" PROVE Makeable(l)'
      BY <3>1, <3>3, <3>4, <3>5 DEF ImportIInv, ImportedRowsStayClosed, Makeable
    <3> QED
      BY <2>2, <2>3, <3>1, <3>4, <3>5, Undisturbed
  <2> QED
    BY <2>4, <2>5
<1>9. ASSUME NEW r \in Requests, Raise(r) \/ Die(r) PROVE ImportProgress'
  <2>1. request[r] \in Work
    BY <1>9 DEF Raise, Die, ImportIInv
  <2>2. ~ At(r, "import")' /\ ~ At(r, "confirm")'
    BY <1>9, <2>1 DEF Raise, Die, Stop, At, ImportIInv, Work
  <2>3. \A s \in Requests \ {r} : request'[s] = request[s]
    BY <1>9 DEF Raise, Die, Stop, ImportIInv
  <2> QED
    BY <1>9, <2>2, <2>3, NoRowWritten DEF Raise, Die
<1>10. ASSUME NEW r \in Requests PROVE Commit(r) => Whole
  BY CommitStep
<1>11. ASSUME NEW r \in Requests,
              \/ Ask(r) \/ DeleteRows(r) \/ CreateRows(r) \/ ListRows(r) \/ QueryRows(r)
              \/ JudgeRows(r) \/ CheckRow(r) \/ StartImport(r) \/ ImportRow(r)
              \/ Raise(r) \/ Die(r)
       PROVE  Whole
  BY <1>11 DEF Ask, DeleteRows, CreateRows, ListRows, QueryRows, JudgeRows, CheckRow,
               StartImport, ImportRow, Raise, Die
<1> HIDE DEF Whole
<1>12. ImportProgress'
  BY <1>1, <1>3, <1>4, <1>5, <1>6, <1>7, <1>8, <1>9, StartImportStep, ImportRowStep, CommitStep
     DEF ImportNext, Proceed
<1>13. Whole
  <2>1. ASSUME NEW r \in Requests,
             StartParse(r) \/ FinishParse(r) \/ StartValidation(r) \/ FinishValidation(r) \/ Fail(r)
        PROVE Whole
    BY <1>3, <2>1 DEF Whole
  <2> QED
    BY <2>1, <1>10, <1>11 DEF ImportNext, Proceed
<1> QED
  BY <1>12, <1>13 DEF Whole

LEMMA ImportInductiveInvariant == ImportSpec => []ImportIInv
<1>1. ASSUME ImportInit PROVE ImportIInv
  <2>1. ImportTypeOK
    <3>1. faults \in 0 .. MaxFaults
      BY <1>1, FileIsSound DEF ImportInit
    <3>2. made \in [Lines -> Nat]
      BY <1>1 DEF ImportInit
    <3>3. rows \in [Lines -> [by : Requests, status : RowStatuses] \cup {None}]
      BY <1>1 DEF ImportInit
    <3>4. request \in [Requests -> Work \cup {None}]
      BY <1>1 DEF ImportInit
    <3> QED
      BY <1>1, <3>1, <3>2, <3>3, <3>4 DEF ImportInit, ImportTypeOK, Statuses, Data
  <2>2. \A r \in Requests : ~ At(r, "import") /\ ~ At(r, "confirm")
    BY <1>1 DEF ImportInit, At
  <2>3. \A l \in Lines : rows[l] = None /\ ~ (made[l] > 0) /\ ~ (made[l] > 1)
    BY <1>1 DEF ImportInit
  <2>4. OneConfirmation /\ ImportedRowsStayClosed /\ OnceUnlessReopened /\ OnlySoundLines
    BY <2>2, <2>3 DEF OneConfirmation, ImportedRowsStayClosed, OnceUnlessReopened, OnlySoundLines
  <2>5. DataIsHonest
    BY <1>1 DEF ImportInit, DataIsHonest, Honest
  <2> QED
    BY <2>1, <2>2, <2>4, <2>5 DEF ImportIInv
<1>2. ImportIInv /\ [ImportNext]_importVars => ImportIInv'
  <2>1. ASSUME ImportIInv, ImportNext PROVE ImportIInv'
    BY <2>1, ImportTypeStep, ProgressStep, DataStep DEF ImportIInv, ImportProgress
  <2>2. ASSUME ImportIInv, UNCHANGED importVars PROVE ImportIInv'
    BY <2>2 DEF importVars, ImportIInv, ImportTypeOK, OneConfirmation, ImportInProgress, At,
                NothingDone, Makeable, Sound, ImportedRowsStayClosed, OnceUnlessReopened,
                OnlySoundLines, DataIsHonest, Honest
  <2> QED
    BY <2>1, <2>2
<1> QED
  BY <1>1, <1>2, PTL DEF ImportSpec

(***************************************************************************)
(* An import job, its rows and the requests at work on it are well typed.  *)
(***************************************************************************)
THEOREM ImportTypeCorrect == ImportSpec => []ImportTypeOK
  BY ImportInductiveInvariant, PTL DEF ImportIInv

(***************************************************************************)
(* For any number of tabs, lines, exceptions and deaths, a line is made    *)
(* again only after a parse or a validation has opened its row again.      *)
(***************************************************************************)
THEOREM ImportedOnce == ImportSpec => []OnceUnlessReopened
  BY ImportInductiveInvariant, PTL DEF ImportIInv

(***************************************************************************)
(* Nothing is ever made of a line the schema or the rules reject.          *)
(***************************************************************************)
THEOREM OnlySoundLinesImported == ImportSpec => []OnlySoundLines
  BY ImportInductiveInvariant, PTL DEF ImportIInv

(***************************************************************************)
(* A confirmation is all or nothing, whatever fails and whoever else works *)
(* on the job.                                                             *)
(***************************************************************************)
THEOREM ImportsAtomic == ImportSpec => ImportsAreWhole
<1> DEFINE Whole == made' # made =>
              /\ status' = "COMPLETED"
              /\ \A l \in Lines : made'[l] # made[l] => rows'[l].status = "IMPORTED"
<1>1. ImportIInv /\ [ImportNext]_importVars => [Whole]_importVars
  BY ProgressStep
<1> QED
  BY <1>1, ImportInductiveInvariant, PTL DEF ImportSpec, ImportsAreWhole

(***************************************************************************)
(* Confirmations exclude each other as runs under a lock do: a step of an  *)
(* import job is a step of ExclusiveHolder or invisible to it.             *)
(***************************************************************************)
THEOREM ConfirmationsExclude == ImportSpec => ConfirmedOneAtATime
<1> DEFINE Confirming == {r \in Requests : At(r, "import")}
<1>1. ImportInit => Confirmation!Init
  BY DEF ImportInit, Confirmation!Init, At
<1>2. ASSUME ImportIInv, ImportNext PROVE Confirmation!Next \/ Confirming' = Confirming
  <2> USE DEF ImportIInv, ImportTypeOK, At
  <2>1. PICK r \in Requests : Ask(r) \/ Proceed(r) \/ Raise(r) \/ Die(r)
    BY <1>2 DEF ImportNext
  <2>2. \A s \in Requests \ {r} : request'[s] = request[s]
    BY <1>2, <2>1 DEF Ask, Proceed, Raise, Die, StartParse, DeleteRows, CreateRows, ListRows,
          JudgeRows, FinishParse, StartValidation, QueryRows, CheckRow, FinishValidation, Fail,
          StartImport, ImportRow, Commit, SaveStatus, Stop
  <2>3. CASE At(r, "import") /\ At(r, "import")'
    BY <2>2, <2>3
  <2>4. CASE ~ At(r, "import") /\ ~ At(r, "import")'
    BY <2>2, <2>4
  <2>5. CASE At(r, "import") /\ ~ At(r, "import")'
    <3>1. r \in Confirming /\ Confirming' = Confirming \ {r}
      BY <2>2, <2>5
    <3> QED
      BY <3>1 DEF Confirmation!Next, Confirmation!Release
  <2>6. CASE ~ At(r, "import") /\ At(r, "import")'
    <3>1. StartImport(r)
      <4>1. ~ Commit(r) /\ ~ ImportRow(r)
        BY <2>6 DEF Commit, ImportRow
      <4>2. ~ Ask(r)
        BY <1>2, <2>6 DEF Ask, StepFor
      <4>3. ASSUME NEW from, NEW s, NEW to \in {"delete", "query", None}
            PROVE  ~ SaveStatus(r, from, s, to)
        BY <1>2, <2>6 DEF SaveStatus, Work
      <4>4. ~ StartParse(r) /\ ~ FinishParse(r) /\ ~ StartValidation(r) /\ ~ FinishValidation(r)
            /\ ~ Fail(r)
        BY <4>3 DEF StartParse, FinishParse, StartValidation, FinishValidation, Fail
      <4>5. ~ DeleteRows(r) /\ ~ CreateRows(r) /\ ~ ListRows(r) /\ ~ JudgeRows(r)
            /\ ~ QueryRows(r) /\ ~ CheckRow(r) /\ ~ Raise(r) /\ ~ Die(r)
        BY <1>2, <2>6 DEF DeleteRows, CreateRows, ListRows, JudgeRows, QueryRows, CheckRow,
              Raise, Die, Stop, Work
      <4> QED
        BY <2>1, <4>1, <4>2, <4>4, <4>5 DEF Proceed
    <3>2. Confirming = {} /\ Confirming' = {r}
      BY <2>2, <2>6, <3>1 DEF StartImport, LockFree
    <3> QED
      BY <3>2 DEF Confirmation!Next, Confirmation!Acquire
  <2> QED
    BY <2>3, <2>4, <2>5, <2>6
<1>3. ImportIInv /\ [ImportNext]_importVars => [Confirmation!Next]_<<Confirming, {}>>
  <2>1. UNCHANGED importVars => Confirming' = Confirming
    BY DEF importVars, At
  <2> QED
    BY <1>2, <2>1
<1> QED
  BY <1>1, <1>3, ImportInductiveInvariant, PTL
     DEF ImportSpec, ConfirmedOneAtATime, Confirmation!Spec
===============================================================================
