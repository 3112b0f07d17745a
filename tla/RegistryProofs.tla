---------------------------- MODULE RegistryProofs ----------------------------
(***************************************************************************)
(* Theorems about the two registers a team keeps: the container numbers it *)
(* expects (PlannedContainers) and the places it knows (Locations).  The   *)
(* components share nothing; Spec is that of PlannedContainers, PlaceSpec  *)
(* that of Locations.                                                      *)
(*                                                                         *)
(* For the numbers, with any number of passes and any budget: passes       *)
(* overwrite each other's counts, but every count anywhere, stored in a    *)
(* row or held by a pass, was reached by asking at least that often        *)
(* (CountsWereAsked).                                                      *)
(*                                                                         *)
(* For the places, with any finite number of them and any depth of the     *)
(* walks: each walk over the containment is brought back to one function,  *)
(* the place n levels above a place (Over), by induction on the levels it  *)
(* follows (Climbs, Descends, Contains).  That the walks agree and that    *)
(* names only narrow then holds in every well-typed state.                 *)
(***************************************************************************)
EXTENDS PlannedContainers, Locations, FiniteSetTheorems, WellFoundedInduction, TLAPS


CountsWereAsked ==
    /\ \A n \in Numbers : attempts[n] <= asked[n]
    /\ \A p \in Passes, n \in Numbers :
          held[p][n] # Unloaded => held[p][n].attempts <= asked[n]

(***************************************************************************)
(* A pass asks only while the budget lasts, and expires only what spent it.*)
(***************************************************************************)
StepsFitTheBudget ==
    \A p \in Passes, n \in Numbers :
        /\ At(p, n, "asking") => held[p][n].attempts < MaxAttempts
        /\ At(p, n, "expire") => overdue[n] \/ held[p][n].attempts >= MaxAttempts

IInv == TypeOK /\ CountsWereAsked /\ StepsFitTheBudget /\ NeverGivenUpEarly

LEMMA InitIInv == Init => IInv
BY BoundsAreNaturals
DEF Init, IInv, TypeOK, CountsWereAsked, StepsFitTheBudget, NeverGivenUpEarly, At, Statuses

(***************************************************************************)
(* What a pass has loaded is an instance.                                  *)
(***************************************************************************)
LEMMA Loaded ==
    ASSUME TypeOK, NEW p \in Passes, NEW n \in Numbers, held[p][n] # Unloaded
    PROVE  /\ held[p][n] \in Instances
           /\ held[p][n].attempts \in 0 .. MaxAttempts
           /\ held[p][n].step \in {"waiting", "asking", "expire"}
BY DEF TypeOK, Instances

(***************************************************************************)
(* A step that replaces one loaded instance by one that fits.              *)
(***************************************************************************)
Fits(n, instance) ==
    instance # Unloaded =>
        /\ instance \in Instances
        /\ instance.attempts <= asked'[n]
        /\ instance.step = "asking" => instance.attempts < MaxAttempts
        /\ instance.step = "expire" => overdue'[n] \/ instance.attempts >= MaxAttempts

LEMMA HeldStep ==
    ASSUME IInv, overdue' = overdue, asked' \in [Numbers -> 0 .. MaxAsked],
           \A n \in Numbers : asked[n] <= asked'[n],
           NEW q \in Passes, NEW m \in Numbers, NEW instance, Keep(q, m, instance),
           Fits(m, instance)
    PROVE  /\ held' \in [Passes -> [Numbers -> Instances \cup {Unloaded}]]
           /\ \A p \in Passes, n \in Numbers :
                 held'[p][n] # Unloaded => held'[p][n].attempts <= asked'[n]
           /\ StepsFitTheBudget'
<1>1. held' \in [Passes -> [Numbers -> Instances \cup {Unloaded}]]
    BY DEF IInv, TypeOK, Keep, Fits
<1>2. ASSUME NEW p \in Passes, NEW n \in Numbers
      PROVE  \/ p = q /\ n = m /\ held'[p][n] = instance
             \/ held'[p][n] = held[p][n]
    BY DEF IInv, TypeOK, Keep
<1>3. ASSUME NEW p \in Passes, NEW n \in Numbers, held'[p][n] # Unloaded
      PROVE  held'[p][n].attempts <= asked'[n]
    <2>1. CASE p = q /\ n = m /\ held'[p][n] = instance
        BY <1>3, <2>1 DEF Fits
    <2>2. CASE held'[p][n] = held[p][n]
        <3>1. held[p][n].attempts <= asked[n] /\ held[p][n].attempts \in 0 .. MaxAttempts
            BY <1>3, <2>2, Loaded DEF IInv, CountsWereAsked
        <3> QED BY <2>2, <3>1, BoundsAreNaturals DEF IInv, TypeOK
    <2> QED BY <1>2, <2>1, <2>2
<1>4. ASSUME NEW p \in Passes, NEW n \in Numbers
      PROVE  /\ At(p, n, "asking")' => held'[p][n].attempts < MaxAttempts
             /\ At(p, n, "expire")' => overdue'[n] \/ held'[p][n].attempts >= MaxAttempts
    <2>1. CASE p = q /\ n = m /\ held'[p][n] = instance
        BY <2>1 DEF Fits, At
    <2>2. CASE held'[p][n] = held[p][n]
        BY <2>2 DEF IInv, StepsFitTheBudget, At
    <2> QED BY <1>2, <2>1, <2>2
<1> QED BY <1>1, <1>3, <1>4 DEF StepsFitTheBudget

(***************************************************************************)
(* The two ways a pass begins.                                             *)
(***************************************************************************)
LEMMA BeginStep ==
    ASSUME IInv, NEW p \in Passes, StartPass(p) \/ StartCleanUp(p)
    PROVE  IInv'
<1>1. UNCHANGED <<status, attempts, nextCheck, overdue, asked, crashes>>
    BY DEF StartPass, StartCleanUp, row
<1>2. PICK f \in [Numbers -> Instances \cup {Unloaded}] :
          /\ held' = [held EXCEPT ![p] = f]
          /\ \A n \in Numbers : f[n] # Unloaded =>
                /\ f[n].attempts = attempts[n]
                /\ f[n].step # "asking"
                /\ f[n].step = "expire" => overdue[n] \/ attempts[n] >= MaxAttempts
    <2>1. CASE StartPass(p)
        <3> DEFINE f == [n \in Numbers |->
                   IF Due(n) THEN [attempts |-> attempts[n], step |-> "waiting"] ELSE Unloaded]
        <3>1. f \in [Numbers -> Instances \cup {Unloaded}]
            BY DEF IInv, TypeOK, Instances
        <3>2. held' = [held EXCEPT ![p] = f]
            BY <2>1 DEF StartPass
        <3>3. \A n \in Numbers : f[n] # Unloaded =>
                f[n].attempts = attempts[n] /\ f[n].step = "waiting"
            OBVIOUS
        <3> QED BY <3>1, <3>2, <3>3
    <2>2. CASE StartCleanUp(p)
        <3> DEFINE spent == {n \in Numbers : status[n] = "PLANNED" /\ Exhausted(n, attempts[n])}
                   f == [n \in Numbers |->
                          IF n \in spent THEN [attempts |-> attempts[n], step |-> "expire"]
                                         ELSE Unloaded]
        <3>1. f \in [Numbers -> Instances \cup {Unloaded}]
            BY DEF IInv, TypeOK, Instances
        <3>2. held' = [held EXCEPT ![p] = f]
            BY <2>2 DEF StartCleanUp
        <3>3. \A n \in Numbers : f[n] # Unloaded =>
                /\ f[n].attempts = attempts[n] /\ f[n].step = "expire"
                /\ overdue[n] \/ attempts[n] >= MaxAttempts
            BY DEF Exhausted
        <3> QED BY <3>1, <3>2, <3>3
    <2> QED BY <2>1, <2>2
<1>3. TypeOK'
    BY <1>1, <1>2 DEF IInv, TypeOK
<1>4. ASSUME NEW q \in Passes, NEW n \in Numbers
      PROVE  held'[q][n] = IF q = p THEN f[n] ELSE held[q][n]
    BY <1>2 DEF IInv, TypeOK
<1>5. CountsWereAsked'
    BY <1>1, <1>2, <1>4 DEF IInv, CountsWereAsked
<1>6. StepsFitTheBudget'
    BY <1>1, <1>2, <1>4 DEF IInv, StepsFitTheBudget, At
<1>7. NeverGivenUpEarly'
    BY <1>1 DEF IInv, NeverGivenUpEarly
<1> QED BY <1>3, <1>5, <1>6, <1>7 DEF IInv

(***************************************************************************)
(* What a pass does with one row.                                          *)
(***************************************************************************)
LEMMA RowStep ==
    ASSUME IInv, NEW p \in Passes, NEW n \in Numbers,
           \/ GiveUpNumber(p, n)
           \/ AskCarriers(p, n)
           \/ RecordAttempt(p, n)
           \/ RecordSkip(p, n)
           \/ Promote(p, n)
    PROVE  IInv'
<1> USE BoundsAreNaturals
<1> DEFINE old == held[p][n]
<1>0. old # Unloaded /\ overdue' = overdue /\ crashes' = crashes
    BY DEF GiveUpNumber, AskCarriers, RecordAttempt, RecordSkip, Record, Promote, At
<1>1. old \in Instances /\ old.attempts \in 0 .. MaxAttempts /\ old.attempts <= asked[n]
    BY <1>0, Loaded DEF IInv, CountsWereAsked
<1>2. CASE GiveUpNumber(p, n)
    <2>1. Keep(p, n, Unloaded) /\ Fits(n, Unloaded) /\ asked' = asked /\ attempts' = attempts
        BY <1>2 DEF GiveUpNumber, Drop, Fits
    <2>2. overdue[n] \/ old.attempts >= MaxAttempts
        BY <1>2 DEF GiveUpNumber, IInv, StepsFitTheBudget, Exhausted
    <2>3. overdue[n] \/ asked[n] >= MaxAttempts
        BY <1>1, <2>2 DEF IInv, TypeOK
    <2>4. NeverGivenUpEarly'
        BY <1>0, <1>2, <2>1, <2>3 DEF GiveUpNumber, Expire, IInv, TypeOK, NeverGivenUpEarly
    <2>5. /\ held' \in [Passes -> [Numbers -> Instances \cup {Unloaded}]]
          /\ CountsWereAsked' /\ StepsFitTheBudget'
        BY <1>0, <2>1, HeldStep DEF IInv, TypeOK, CountsWereAsked
    <2>6. TypeOK'
        BY <1>0, <1>2, <2>1, <2>5 DEF GiveUpNumber, Expire, IInv, TypeOK, Statuses
    <2> QED BY <2>4, <2>5, <2>6 DEF IInv
<1>3. CASE AskCarriers(p, n)
    <2> DEFINE new == [old EXCEPT !.step = "asking"]
    <2>1. Keep(p, n, new) /\ UNCHANGED <<status, attempts, nextCheck, asked>>
        BY <1>3 DEF AskCarriers, row
    <2>2. new \in Instances /\ new.attempts = old.attempts /\ new.step = "asking"
        BY <1>1 DEF Instances
    <2>3. old.attempts < MaxAttempts
        BY <1>1, <1>3 DEF AskCarriers, Exhausted
    <2>4. Fits(n, new)
        BY <1>1, <2>1, <2>2, <2>3 DEF Fits
    <2> HIDE DEF new
    <2>5. /\ held' \in [Passes -> [Numbers -> Instances \cup {Unloaded}]]
          /\ CountsWereAsked' /\ StepsFitTheBudget'
        BY <1>0, <2>1, <2>4, HeldStep DEF IInv, TypeOK, CountsWereAsked
    <2> QED BY <1>0, <2>1, <2>5 DEF IInv, TypeOK, NeverGivenUpEarly
<1>4. ASSUME NEW count \in 0 .. MaxAttempts, Record(p, n, count),
             asked' \in [Numbers -> 0 .. MaxAsked],
             \A m \in Numbers : asked[m] <= asked'[m], count <= asked'[n]
      PROVE  IInv'
    <2>1. attempts' = [attempts EXCEPT ![n] = count] /\ UNCHANGED <<status>>
        BY <1>4 DEF Record
    <2>2. PICK new : Keep(p, n, new) /\ Fits(n, new)
        <3>1. CASE Exhausted(n, count)
            <4> DEFINE new == [attempts |-> count, step |-> "expire"]
            <4>1. Keep(p, n, new)
                BY <1>4, <3>1 DEF Record
            <4>2. Fits(n, new)
                BY <1>0, <1>4, <3>1 DEF Fits, Instances, Exhausted
            <4> QED BY <4>1, <4>2
        <3>2. CASE ~ Exhausted(n, count)
            <4>1. Keep(p, n, Unloaded) /\ Fits(n, Unloaded)
                BY <1>4, <3>2 DEF Record, Drop, Fits
            <4> QED BY <4>1
        <3> QED BY <3>1, <3>2
    <2>3. /\ held' \in [Passes -> [Numbers -> Instances \cup {Unloaded}]]
          /\ StepsFitTheBudget'
          /\ \A q \in Passes, m \in Numbers :
                held'[q][m] # Unloaded => held'[q][m].attempts <= asked'[m]
        BY <1>0, <1>4, <2>2, HeldStep
    <2>4. \A m \in Numbers : attempts'[m] <= asked'[m]
        <3> TAKE m \in Numbers
        <3>1. attempts[m] <= asked[m] /\ asked[m] <= asked'[m] /\ attempts[m] \in Nat
              /\ asked[m] \in Nat /\ asked'[m] \in Nat
            BY <1>4 DEF IInv, TypeOK, CountsWereAsked
        <3> QED BY <1>4, <2>1, <3>1 DEF IInv, TypeOK
    <2>5. NeverGivenUpEarly'
        <3> SUFFICES ASSUME NEW m \in Numbers, status'[m] = "EXPIRED"
                     PROVE  overdue'[m] \/ asked'[m] >= MaxAttempts
            BY DEF NeverGivenUpEarly
        <3>1. asked[m] \in Nat /\ asked'[m] \in Nat /\ asked[m] <= asked'[m]
            BY <1>4 DEF IInv, TypeOK
        <3> QED BY <1>0, <2>1, <3>1 DEF IInv, NeverGivenUpEarly
    <2>6. TypeOK'
        BY <1>0, <1>4, <2>1, <2>3 DEF Record, IInv, TypeOK
    <2> QED BY <2>3, <2>4, <2>5, <2>6 DEF IInv, CountsWereAsked
<1>5. /\ [asked EXCEPT ![n] = OneMore(@)] \in [Numbers -> 0 .. MaxAsked]
      /\ \A m \in Numbers : asked[m] <= [asked EXCEPT ![n] = OneMore(@)][m]
      /\ [asked EXCEPT ![n] = OneMore(@)][n] = OneMore(asked[n])
    <2>1. OneMore(asked[n]) \in 0 .. MaxAsked /\ asked[n] <= OneMore(asked[n])
        BY DEF OneMore, IInv, TypeOK
    <2> QED BY <2>1 DEF IInv, TypeOK
<1>6. CASE RecordAttempt(p, n)
    <2>1. old.attempts < MaxAttempts
        BY <1>6 DEF RecordAttempt, Record, IInv, StepsFitTheBudget
    <2>2. old.attempts + 1 <= OneMore(asked[n])
        BY <1>1, <2>1 DEF OneMore, IInv, TypeOK
    <2>3. old.attempts + 1 \in 0 .. MaxAttempts
        BY <1>1, <2>1
    <2>4. Record(p, n, old.attempts + 1) /\ asked' = [asked EXCEPT ![n] = OneMore(@)]
        BY <1>6 DEF RecordAttempt, Counted
    <2> QED BY <1>4, <1>5, <2>2, <2>3, <2>4
<1>7. CASE RecordSkip(p, n)
    <2>1. Record(p, n, old.attempts) /\ asked' = asked
        BY <1>7 DEF RecordSkip, NotCounted
    <2>2. asked \in [Numbers -> 0 .. MaxAsked] /\ \A m \in Numbers : asked[m] <= asked[m]
        BY DEF IInv, TypeOK
    <2> QED BY <1>1, <1>4, <2>1, <2>2
<1>8. CASE Promote(p, n)
    <2>1. Keep(p, n, Unloaded) /\ Fits(n, Unloaded) /\ attempts' = attempts
          /\ asked' = [asked EXCEPT ![n] = OneMore(@)]
          /\ status' = [status EXCEPT ![n] = "DETECTED"]
          /\ nextCheck' = [nextCheck EXCEPT ![n] = "null"]
        BY <1>8 DEF Promote, Drop, Fits
    <2>2. asked' \in [Numbers -> 0 .. MaxAsked] /\ \A m \in Numbers : asked[m] <= asked'[m]
        BY <1>5, <2>1
    <2>3. /\ held' \in [Passes -> [Numbers -> Instances \cup {Unloaded}]]
          /\ StepsFitTheBudget'
          /\ \A q \in Passes, m \in Numbers :
                held'[q][m] # Unloaded => held'[q][m].attempts <= asked'[m]
        BY <1>0, <2>1, <2>2, HeldStep
    <2>4. ASSUME NEW m \in Numbers
          PROVE  asked[m] \in Nat /\ asked'[m] \in Nat /\ asked[m] <= asked'[m]
                 /\ attempts[m] \in Nat
        BY <2>2 DEF IInv, TypeOK
    <2>5. CountsWereAsked'
        BY <2>1, <2>3, <2>4 DEF IInv, CountsWereAsked
    <2>6. NeverGivenUpEarly'
        BY <1>0, <2>1, <2>4 DEF IInv, TypeOK, NeverGivenUpEarly
    <2>7. TypeOK'
        BY <1>0, <2>1, <2>2, <2>3 DEF IInv, TypeOK, Statuses
    <2> QED BY <2>3, <2>5, <2>6, <2>7 DEF IInv
<1> QED BY <1>2, <1>3, <1>6, <1>7, <1>8

LEMMA NextIInv == IInv /\ [Next]_vars => IInv'
<1> SUFFICES ASSUME IInv, [Next]_vars PROVE IInv'
    OBVIOUS
<1>1. ASSUME NEW p \in Passes, WorkOff(p) PROVE IInv'
    BY <1>1, RowStep DEF WorkOff
<1>2. ASSUME NEW p \in Passes, Crash(p) PROVE IInv'
    <2>1. TypeOK'
        BY <1>2, BoundsAreNaturals DEF Crash, Nothing, row, IInv, TypeOK
    <2>2. ASSUME NEW q \in Passes, NEW n \in Numbers
          PROVE  held'[q][n] = IF q = p THEN Unloaded ELSE held[q][n]
        BY <1>2 DEF Crash, Nothing, IInv, TypeOK
    <2>3. CountsWereAsked' /\ StepsFitTheBudget' /\ NeverGivenUpEarly'
        BY <1>2, <2>2
        DEF Crash, row, IInv, CountsWereAsked, StepsFitTheBudget, NeverGivenUpEarly, At
    <2> QED BY <2>1, <2>3 DEF IInv
<1>3. ASSUME NEW n \in Numbers,
             Cancel(n) \/ ClockReachesNextCheck(n) \/ ClockPassesExpiry(n)
      PROVE  IInv'
    <2>1. held' = held /\ attempts' = attempts /\ asked' = asked /\ crashes' = crashes
        BY <1>3 DEF Cancel, ClockReachesNextCheck, ClockPassesExpiry, row
    <2>2. \A m \in Numbers : overdue[m] => overdue'[m]
        BY <1>3 DEF Cancel, ClockReachesNextCheck, ClockPassesExpiry, IInv, TypeOK
    <2>3. \A m \in Numbers : status'[m] = "EXPIRED" => status[m] = "EXPIRED"
        BY <1>3 DEF Cancel, ClockReachesNextCheck, ClockPassesExpiry, row, IInv, TypeOK
    <2>4. TypeOK'
        BY <1>3 DEF Cancel, ClockReachesNextCheck, ClockPassesExpiry, row, IInv,
                    TypeOK, Statuses
    <2>5. CountsWereAsked' /\ StepsFitTheBudget' /\ NeverGivenUpEarly'
        BY <2>1, <2>2, <2>3
        DEF IInv, CountsWereAsked, StepsFitTheBudget, NeverGivenUpEarly, At
    <2> QED BY <2>4, <2>5 DEF IInv
<1>4. CASE UNCHANGED vars
    BY <1>4 DEF vars, IInv, TypeOK, CountsWereAsked, StepsFitTheBudget, NeverGivenUpEarly, At
<1> QED BY <1>1, <1>2, <1>3, <1>4, BeginStep DEF Next

LEMMA Invariance == Spec => []IInv
<1> QED BY InitIInv, NextIInv, PTL DEF Spec

(***************************************************************************)
(* Type correctness; in particular no count exceeds the budget.            *)
(***************************************************************************)
THEOREM TypeCorrect == Spec => []TypeOK
<1>1. IInv => TypeOK
    BY DEF IInv
<1> QED BY <1>1, Invariance, PTL

(***************************************************************************)
(* No number is given up before carriers were asked MaxAttempts times or   *)
(* its time was over, however many passes of run_discovery_for_team and    *)
(* clean-ups run at once.                                                  *)
(***************************************************************************)
THEOREM GivenUpInTime == Spec => []NeverGivenUpEarly
<1>1. IInv => NeverGivenUpEarly
    BY DEF IInv
<1> QED BY <1>1, Invariance, PTL
-------------------------------------------------------------------------------
(***************************************************************************)
(* A nonempty set of natural numbers has a least element; so a set that    *)
(* holds zero and the successor of each of its numbers holds them all.     *)
(***************************************************************************)
LEMMA LeastNatural ==
    ASSUME NEW T, T \subseteq Nat, T # {}
    PROVE  \E n \in T : \A m \in T : n <= m
<1> DEFINE R == OpToRel(<, Nat)
<1>1. IsWellFoundedOn(R, Nat)
    BY NatLessThanWellFounded
<1>2. \A m, n \in Nat : m < n => <<m, n>> \in R
    BY DEF OpToRel
<1> HIDE DEF R
<1>3. \E x \in T : \A y \in T : ~ (<<y, x>> \in R)
    BY <1>1, WFMin
<1>4. PICK n \in T : \A m \in T : ~ (m < n)
    BY <1>2, <1>3
<1>5. \A m \in T : n <= m
    BY <1>4
<1> QED BY <1>5

LEMMA Induction ==
    ASSUME NEW G, 0 \in G, \A n \in Nat : n \in G => n + 1 \in G
    PROVE  \A n \in Nat : n \in G
<1> DEFINE T == Nat \ G
<1> SUFFICES ASSUME T # {} PROVE FALSE
    OBVIOUS
<1>1. PICK n \in T : \A m \in T : n <= m
    BY LeastNatural
<1>2. n \in Nat /\ n # 0
    BY <1>1
<1>3. n - 1 \in Nat /\ n - 1 \notin T
    BY <1>1, <1>2
<1>4. (n - 1) + 1 \in G
    BY <1>3
<1> QED BY <1>1, <1>2, <1>4

(***************************************************************************)
(* A step can be iterated: the pairs that every closed relation holds are  *)
(* a function.                                                             *)
(***************************************************************************)
LEMMA Recursion ==
    ASSUME NEW S, NEW start \in S, NEW step \in [S -> S]
    PROVE  \E f \in [Nat -> S] : f = [n \in Nat |-> IF n = 0 THEN start ELSE step[f[n - 1]]]
<1> DEFINE Closed(r) == <<0, start>> \in r
                        /\ \A n \in Nat, x \in S : <<n, x>> \in r => <<n + 1, step[x]>> \in r
           Least == {pair \in Nat \X S : \A r \in SUBSET (Nat \X S) : Closed(r) => pair \in r}
           Single == {n \in Nat : \E x \in S : \A y \in S : <<n, y>> \in Least <=> y = x}
<1>1. Closed(Nat \X S)
    OBVIOUS
<1>2. Closed(Least)
    <2>1. <<0, start>> \in Least
        OBVIOUS
    <2>2. ASSUME NEW n \in Nat, NEW x \in S, <<n, x>> \in Least
          PROVE  <<n + 1, step[x]>> \in Least
        <3>1. <<n + 1, step[x]>> \in Nat \X S
            OBVIOUS
        <3>2. ASSUME NEW r \in SUBSET (Nat \X S), Closed(r) PROVE <<n + 1, step[x]>> \in r
            BY <2>2, <3>2
        <3> HIDE DEF Closed
        <3> QED BY <3>1, <3>2
    <2> QED BY <2>1, <2>2
<1>3. 0 \in Single
    <2>1. ASSUME NEW y \in S, y # start, <<0, y>> \in Least PROVE FALSE
        <3> DEFINE less == Least \ {<<0, y>>}
        <3>1. <<0, start>> \in less
            BY <1>2, <2>1
        <3>2. ASSUME NEW m \in Nat, NEW z \in S, <<m, z>> \in less
              PROVE  <<m + 1, step[z]>> \in less
            <4>1. <<m, z>> \in Least /\ m + 1 # 0
                BY <3>2
            <4> QED BY <1>2, <4>1
        <3>3. less \in SUBSET (Nat \X S) /\ Closed(less)
            BY <3>1, <3>2
        <3>4. <<0, y>> \in less
            BY <2>1, <3>3
        <3> QED BY <3>4
    <2>2. \A y \in S : <<0, y>> \in Least <=> y = start
        BY <1>2, <2>1
    <2> QED BY <2>2
<1>4. ASSUME NEW n \in Nat, n \in Single PROVE n + 1 \in Single
    <2>1. PICK x \in S : \A y \in S : <<n, y>> \in Least <=> y = x
        BY <1>4
    <2>2. step[x] \in S /\ <<n + 1, step[x]>> \in Least
        BY <1>2, <2>1
    <2>3. ASSUME NEW y \in S, y # step[x], <<n + 1, y>> \in Least PROVE FALSE
        <3> DEFINE less == Least \ {<<n + 1, y>>}
        <3>1. <<0, start>> \in less
            BY <1>2
        <3>2. ASSUME NEW m \in Nat, NEW z \in S, <<m, z>> \in less
              PROVE  <<m + 1, step[z]>> \in less
            <4>1. <<m, z>> \in Least
                BY <3>2
            <4>2. <<m + 1, step[z]>> \in Least
                BY <1>2, <4>1
            <4>3. m = n => step[z] # y
                BY <2>1, <2>3, <4>1
            <4>4. m + 1 = n + 1 => m = n
                OBVIOUS
            <4> QED BY <4>2, <4>3, <4>4
        <3>3. less \in SUBSET (Nat \X S) /\ Closed(less)
            BY <3>1, <3>2
        <3> QED BY <2>3, <3>3
    <2>4. \A y \in S : <<n + 1, y>> \in Least <=> y = step[x]
        BY <2>2, <2>3
    <2> QED BY <2>2, <2>4
<1> HIDE DEF Single
<1>5. \A n \in Nat : n \in Single
    BY <1>3, <1>4, Induction
<1> DEFINE f == [n \in Nat |-> CHOOSE x \in S : <<n, x>> \in Least]
<1> HIDE DEF Least
<1>6. \A n \in Nat : f[n] \in S /\ \A y \in S : <<n, y>> \in Least <=> y = f[n]
    BY <1>5 DEF Single
<1>7. f \in [Nat -> S] /\ f[0] = start
    BY <1>2, <1>6
<1> HIDE DEF f
<1>8. ASSUME NEW n \in Nat PROVE f[n + 1] = step[f[n]]
    <2>1. f[n] \in S /\ <<n, f[n]>> \in Least /\ step[f[n]] \in S /\ n + 1 \in Nat
        BY <1>6
    <2>2. <<n + 1, step[f[n]]>> \in Least
        BY <1>2, <2>1
    <2> QED BY <1>6, <2>1, <2>2
<1>9. ASSUME NEW n \in Nat PROVE f[n] = IF n = 0 THEN start ELSE step[f[n - 1]]
    <2>1. CASE n = 0
        BY <1>7, <2>1
    <2>2. CASE n # 0
        <3>1. n - 1 \in Nat /\ (n - 1) + 1 = n
            BY <2>2
        <3> QED BY <1>8, <2>2, <3>1
    <2> QED BY <2>1, <2>2
<1> QED BY <1>7, <1>9

-------------------------------------------------------------------------------
(***************************************************************************)
(* The place n levels above x; None from the top on.                       *)
(***************************************************************************)
Typed == parent \in [Places -> Places \cup {None}]

Levels == Places \cup {None}

ParentOf == [x \in Levels |-> IF x = None THEN None ELSE parent[x]]

Lifts(f) == f = [n \in Nat |-> IF n = 0 THEN [x \in Levels |-> x]
                               ELSE [x \in Levels |-> ParentOf[f[n - 1][x]]]]

Over(x, n) == (CHOOSE f : Lifts(f))[n][x]

LEMMA OverStep ==
    ASSUME Typed
    PROVE  /\ \A x \in Levels, n \in Nat : Over(x, n) \in Levels
           /\ \A x \in Levels : Over(x, 0) = x
           /\ \A x \in Levels, n \in Nat : Over(x, n + 1) = ParentOf[Over(x, n)]
<1> DEFINE S == [Levels -> Levels]
           start == [x \in Levels |-> x]
           step == [g \in S |-> [x \in Levels |-> ParentOf[g[x]]]]
           lift == CHOOSE f : Lifts(f)
<1>1. ParentOf \in [Levels -> Levels]
    BY DEF Typed, ParentOf, Levels
<1>2. start \in S /\ step \in [S -> S]
    BY <1>1
<1>3. PICK f \in [Nat -> S] : f = [n \in Nat |-> IF n = 0 THEN start ELSE step[f[n - 1]]]
    <2> HIDE DEF S, start, step
    <2> QED BY <1>2, Recursion
<1>4. Lifts(f)
    <2> HIDE DEF S, start
    <2>1. \A n \in Nat : n # 0 => n - 1 \in Nat
        OBVIOUS
    <2>2. \A n \in Nat : n # 0 => f[n - 1] \in S
        BY <2>1
    <2>3. f = [n \in Nat |-> IF n = 0 THEN start ELSE [x \in Levels |-> ParentOf[f[n - 1][x]]]]
        BY <1>3, <2>2
    <2> QED BY <2>3 DEF Lifts, start
<1>5. Lifts(lift)
    BY <1>4
<1> HIDE DEF lift
<1>6. lift[0] = start /\ \A n \in Nat : lift[n + 1] = [x \in Levels |-> ParentOf[lift[n][x]]]
    <2>1. \A n \in Nat : n + 1 # 0 /\ (n + 1) - 1 = n /\ n + 1 \in Nat
        OBVIOUS
    <2> QED BY <1>5, <2>1 DEF Lifts
<1> DEFINE G == {n \in Nat : lift[n] \in S}
<1>7. 0 \in G
    BY <1>6
<1>8. ASSUME NEW n \in Nat, n \in G PROVE n + 1 \in G
    <2>1. lift[n] \in S /\ lift[n + 1] = [x \in Levels |-> ParentOf[lift[n][x]]]
        BY <1>6, <1>8
    <2>2. \A x \in Levels : ParentOf[lift[n][x]] \in Levels
        BY <1>1, <2>1
    <2>3. lift[n + 1] \in S
        BY <2>1, <2>2
    <2> QED BY <2>3
<1> HIDE DEF G
<1>9. \A n \in Nat : n \in G
    BY <1>7, <1>8, Induction
<1>10. \A n \in Nat : lift[n] \in S
    BY <1>9 DEF G
<1>11. \A x, n : Over(x, n) = lift[n][x]
    BY DEF Over, lift
<1>12. \A x \in Levels, n \in Nat : lift[n][x] \in Levels
    BY <1>10
<1>13. \A x \in Levels : lift[0][x] = x
    BY <1>6
<1>14. ASSUME NEW x \in Levels, NEW n \in Nat PROVE lift[n + 1][x] = ParentOf[lift[n][x]]
    <2>1. lift[n + 1] = [y \in Levels |-> ParentOf[lift[n][y]]]
        BY <1>6
    <2> QED BY <2>1
<1> QED BY <1>11, <1>12, <1>13, <1>14

LEMMA OverSum ==
    ASSUME Typed, NEW x \in Levels, NEW m \in Nat
    PROVE  \A n \in Nat : Over(x, m + n) = Over(Over(x, m), n)
<1> DEFINE G == {n \in Nat : Over(x, m + n) = Over(Over(x, m), n)}
<1>1. 0 \in G
    BY OverStep
<1>2. ASSUME NEW n \in Nat, n \in G PROVE n + 1 \in G
    <2>1. m + (n + 1) = (m + n) + 1 /\ m + n \in Nat
        OBVIOUS
    <2>2. Over(x, m + n) \in Levels /\ Over(x, m) \in Levels
        BY <2>1, OverStep
    <2>3. Over(x, (m + n) + 1) = ParentOf[Over(x, m + n)]
        BY <2>1, OverStep
    <2>4. Over(Over(x, m), n + 1) = ParentOf[Over(Over(x, m), n)]
        BY <2>2, OverStep
    <2> QED BY <1>2, <2>1, <2>3, <2>4
<1> HIDE DEF G
<1>3. \A n \in Nat : n \in G
    BY <1>1, <1>2, Induction
<1> QED BY <1>3 DEF G

LEMMA OverNone ==
    ASSUME Typed
    PROVE  /\ \A n \in Nat : Over(None, n) = None
           /\ \A x \in Levels, m, n \in Nat : m <= n /\ Over(x, m) = None => Over(x, n) = None
<1> DEFINE G == {n \in Nat : Over(None, n) = None}
<1>1. 0 \in G
    BY OverStep DEF Levels
<1>2. ASSUME NEW n \in Nat, n \in G PROVE n + 1 \in G
    <2>1. Over(None, n + 1) = ParentOf[Over(None, n)]
        BY OverStep DEF Levels
    <2> QED BY <1>2, <2>1 DEF ParentOf, Levels
<1> HIDE DEF G
<1>3. \A n \in Nat : n \in G
    BY <1>1, <1>2, Induction
<1>4. \A n \in Nat : Over(None, n) = None
    BY <1>3 DEF G
<1>5. ASSUME NEW x \in Levels, NEW m \in Nat, NEW n \in Nat, m <= n, Over(x, m) = None
      PROVE  Over(x, n) = None
    <2>1. n - m \in Nat /\ m + (n - m) = n
        BY <1>5
    <2>2. Over(x, m + (n - m)) = Over(Over(x, m), n - m)
        BY <2>1, OverSum
    <2> QED BY <1>4, <1>5, <2>1, <2>2
<1> QED BY <1>4, <1>5

(***************************************************************************)
(* What a place sees that climbs level by level.                           *)
(***************************************************************************)
Seen(p, n) == {Over(p, m) : m \in 0 .. n} \ {None}

LEMMA Climbs ==
    ASSUME Typed, NEW p \in Places, NEW levels \in Nat
    PROVE  /\ Climb(p, parent[p], levels).seen = Seen(p, levels)
           /\ \E m \in Nat : Climb(p, parent[p], levels).at = Over(p, m)
           /\ Climb(p, parent[p], levels).at = None =>
                  \A m \in Nat : Over(p, m) \in Seen(p, levels) \cup {None}
<1> DEFINE S == [at : Levels, seen : SUBSET Places]
           start == [at |-> parent[p], seen |-> {p}]
           step == [c \in S |-> Up(c)]
           climb == CHOOSE f : f = [n \in Nat |-> IF n = 0 THEN start ELSE Up(f[n - 1])]
<1>1. start \in S
    BY DEF Typed, Levels
<1>2. step \in [S -> S]
    BY DEF Typed, Levels, Up
<1>3. PICK f \in [Nat -> S] : f = [n \in Nat |-> IF n = 0 THEN start ELSE step[f[n - 1]]]
    <2> HIDE DEF S, start, step
    <2> QED BY <1>1, <1>2, Recursion
<1>4. f = [n \in Nat |-> IF n = 0 THEN start ELSE Up(f[n - 1])]
    <2> HIDE DEF S, start
    <2>1. \A n \in Nat : n # 0 => n - 1 \in Nat
        OBVIOUS
    <2>2. \A n \in Nat : n # 0 => f[n - 1] \in S
        BY <2>1
    <2> QED BY <1>3, <2>2
<1>5. climb = [n \in Nat |-> IF n = 0 THEN start ELSE Up(climb[n - 1])]
    <2> HIDE DEF start
    <2> QED BY <1>4
<1>6. Climb(p, parent[p], levels) = climb[levels]
    BY DEF Climb
<1> HIDE DEF climb
<1>7. climb[0] = start
    BY <1>5
<1>8. \A n \in Nat : climb[n + 1] = Up(climb[n])
    <2>1. \A n \in Nat : n + 1 # 0 /\ (n + 1) - 1 = n /\ n + 1 \in Nat
        OBVIOUS
    <2> HIDE DEF start
    <2> QED BY <1>5, <2>1
<1> DEFINE Ended(n) == \A x \in Seen(p, n) \cup {None} : ParentOf[x] \in Seen(p, n) \cup {None}
           G == {n \in Nat : /\ climb[n] \in S
                             /\ climb[n].seen = Seen(p, n)
                             /\ \E m \in Nat : climb[n].at = Over(p, m)
                             /\ \/ climb[n].at = Over(p, n + 1)
                                \/ climb[n].at \in Seen(p, n) \cup {None} /\ Ended(n)}
<1> USE OverStep
<1>9. p \in Levels /\ p # None /\ None \notin Places
    BY EventNamesAPlace DEF Levels
<1>10. Over(p, 0) = p /\ Over(p, 1) = parent[p]
    <2>1. Over(p, 0 + 1) = ParentOf[Over(p, 0)]
        BY <1>9
    <2> QED BY <1>9, <2>1 DEF ParentOf
<1>11. 0 \in G
    <2>1. Seen(p, 0) = {p}
        BY <1>9, <1>10 DEF Seen
    <2>2. climb[0] \in S /\ climb[0].seen = {p} /\ climb[0].at = parent[p]
        BY <1>1, <1>7
    <2>3. 0 + 1 = 1 /\ 1 \in Nat
        OBVIOUS
    <2> HIDE DEF S, start
    <2> QED BY <1>10, <2>1, <2>2, <2>3
<1>12. ASSUME NEW n \in Nat
       PROVE  /\ Seen(p, n + 1) = Seen(p, n) \cup ({Over(p, n + 1)} \ {None})
              /\ Over(p, n) \in Seen(p, n) \cup {None}
    <2>1. 0 .. (n + 1) = (0 .. n) \cup {n + 1} /\ n \in 0 .. n
        OBVIOUS
    <2> QED BY <2>1 DEF Seen
<1>13. ASSUME NEW n \in Nat, n \in G PROVE n + 1 \in G
    <2> DEFINE c == climb[n]
    <2>1. c \in S /\ c.seen = Seen(p, n) /\ climb[n + 1] = Up(c)
        BY <1>8, <1>13
    <2>2. PICK m \in Nat : c.at = Over(p, m)
        BY <1>13
    <2>3. c.at = Over(p, n + 1) \/ (c.at \in Seen(p, n) \cup {None} /\ Ended(n))
        BY <1>13
    <2>4. Over(p, n + 1) = ParentOf[Over(p, n)] /\ Over(p, (n + 1) + 1) = ParentOf[Over(p, n + 1)]
        BY <1>9
    <2> HIDE DEF S, G
    <2>5. CASE c.at \in Seen(p, n) \cup {None}
        <3>1. Up(c) = c
            BY <2>1, <2>5 DEF Up
        <3>2. Ended(n)
            <4> SUFFICES ASSUME c.at = Over(p, n + 1), NEW x \in Seen(p, n) \cup {None}
                         PROVE  ParentOf[x] \in Seen(p, n) \cup {None}
                BY <2>3
            <4>1. CASE x = None
                BY <4>1 DEF ParentOf, Levels
            <4>2. CASE x # None
                <5>1. PICK k \in 0 .. n : x = Over(p, k)
                    BY <4>2 DEF Seen
                <5>2. ParentOf[x] = Over(p, k + 1)
                    BY <1>9, <5>1, k \in Nat
                <5>3. CASE k = n
                    BY <2>5, <5>2, <5>3
                <5>4. CASE k # n
                    <6>1. k + 1 \in 0 .. n
                        BY <5>1, <5>4
                    <6> QED BY <5>2, <6>1 DEF Seen
                <5> QED BY <5>3, <5>4
            <4> QED BY <4>1, <4>2
        <3>3. Seen(p, n + 1) = Seen(p, n)
            <4>1. Over(p, n + 1) \in Seen(p, n) \cup {None}
                BY <1>12, <2>4, <3>2
            <4> QED BY <1>12, <4>1
        <3>4. Ended(n + 1)
            BY <3>2, <3>3
        <3> QED BY <2>1, <2>2, <2>5, <3>1, <3>3, <3>4 DEF G
    <2>6. CASE c.at \notin Seen(p, n) \cup {None}
        <3>1. c.at = Over(p, n + 1)
            BY <2>3, <2>6
        <3>2. Up(c) = [at |-> parent[c.at], seen |-> c.seen \cup {c.at}]
            BY <2>1, <2>6 DEF Up
        <3>3. c.at \in Places /\ parent[c.at] \in Levels /\ c.seen \in SUBSET Places
            BY <2>1, <2>6 DEF S, Levels, Typed
        <3>4. parent[c.at] = Over(p, (n + 1) + 1)
            BY <1>9, <2>4, <3>1, <3>3 DEF ParentOf, Levels
        <3>5. c.seen \cup {c.at} = Seen(p, n + 1)
            BY <1>12, <2>1, <2>6, <3>1
        <3>6. climb[n + 1] \in S /\ climb[n + 1].at = parent[c.at] /\ climb[n + 1].seen = Seen(p, n + 1)
            BY <2>1, <3>2, <3>3, <3>5 DEF S
        <3>7. (n + 1) + 1 \in Nat
            OBVIOUS
        <3> QED BY <3>4, <3>6, <3>7 DEF G
    <2> QED BY <2>5, <2>6
<1> HIDE DEF G
<1>14. levels \in G
    BY <1>11, <1>13, Induction
<1>15. ASSUME climb[levels].at = None, NEW m \in Nat
       PROVE  Over(p, m) \in Seen(p, levels) \cup {None}
    <2>1. CASE climb[levels].at = Over(p, levels + 1)
        <3>1. CASE m \in 0 .. levels
            BY <3>1 DEF Seen
        <3>2. CASE m \notin 0 .. levels
            <4>1. levels + 1 \in Nat /\ levels + 1 <= m
                BY <3>2
            <4> QED BY <1>9, <1>15, <2>1, <4>1, OverNone
        <3> QED BY <3>1, <3>2
    <2>2. CASE Ended(levels)
        <3> DEFINE H == {k \in Nat : Over(p, k) \in Seen(p, levels) \cup {None}}
        <3>1. 0 \in H
            <4>1. 0 \in 0 .. levels
                OBVIOUS
            <4> QED BY <1>9, <1>10, <4>1 DEF Seen
        <3>2. ASSUME NEW k \in Nat, k \in H PROVE k + 1 \in H
            <4>1. Over(p, k + 1) = ParentOf[Over(p, k)]
                BY <1>9
            <4>2. Over(p, k) \in Seen(p, levels) \cup {None}
                BY <3>2
            <4>3. ParentOf[Over(p, k)] \in Seen(p, levels) \cup {None}
                BY <2>2, <4>2
            <4>4. Over(p, k + 1) \in Seen(p, levels) \cup {None}
                BY ONLY <4>1, <4>3
            <4> QED BY <4>4
        <3> HIDE DEF H
        <3>3. m \in H
            BY <3>1, <3>2, Induction
        <3> QED BY <3>3 DEF H
    <2> QED BY <1>14, <2>1, <2>2 DEF G
<1> QED BY <1>6, <1>14, <1>15 DEF G

(***************************************************************************)
(* What a walk down collects: the places that come to p by climbing.       *)
(***************************************************************************)
LEMMA Descends ==
    ASSUME Typed, NEW p \in Places, NEW q
    PROVE  q \in DescendantIds(p) <=> q \in Places /\ \E m \in 0 .. MaxDepth : Over(q, m) = p
<1> DEFINE S == [ids : SUBSET Places, frontier : SUBSET Places]
           Children(found) == {x \in Places \ found.ids : parent[x] \in found.frontier}
           start == [ids |-> {p}, frontier |-> {p}]
           down(found) == [ids |-> found.ids \cup Children(found), frontier |-> Children(found)]
           step == [found \in S |-> down(found)]
           walk == CHOOSE f : f = [n \in Nat |-> IF n = 0 THEN start ELSE down(f[n - 1])]
<1>1. start \in S
    OBVIOUS
<1>2. step \in [S -> S]
    OBVIOUS
<1>3. PICK f \in [Nat -> S] : f = [n \in Nat |-> IF n = 0 THEN start ELSE step[f[n - 1]]]
    <2> HIDE DEF S, start, step
    <2> QED BY <1>1, <1>2, Recursion
<1>4. f = [n \in Nat |-> IF n = 0 THEN start ELSE down(f[n - 1])]
    <2> HIDE DEF S, start, down
    <2>1. \A n \in Nat : n # 0 => n - 1 \in Nat
        OBVIOUS
    <2>2. \A n \in Nat : n # 0 => f[n - 1] \in S
        BY <2>1
    <2> QED BY <1>3, <2>2
<1>5. walk = [n \in Nat |-> IF n = 0 THEN start ELSE down(walk[n - 1])]
    <2> HIDE DEF start, down
    <2> QED BY <1>4
<1>6. DescendantIds(p) = walk[MaxDepth].ids
    BY Zenon DEF DescendantIds
<1> HIDE DEF walk
<1>7. walk[0] = start
    BY <1>5
<1>8. \A n \in Nat : walk[n + 1] = down(walk[n])
    <2>1. \A n \in Nat : n + 1 # 0 /\ (n + 1) - 1 = n /\ n + 1 \in Nat
        OBVIOUS
    <2> HIDE DEF start, down
    <2> QED BY <1>5, <2>1
<1>9. p # None /\ None \notin Places /\ Places \subseteq Levels
    BY EventNamesAPlace DEF Levels
<1>10. ASSUME NEW x \in Places, NEW n \in Nat PROVE Over(x, n + 1) = Over(parent[x], n)
    <2>1. Over(x, 1 + n) = Over(Over(x, 1), n)
        BY <1>9, OverSum
    <2>2. Over(x, 0 + 1) = ParentOf[Over(x, 0)] /\ Over(x, 0) = x
        BY <1>9, OverStep
    <2>3. Over(x, 1) = parent[x]
        BY <1>9, <2>2 DEF ParentOf
    <2> QED BY <2>1, <2>3
<1> DEFINE Within(n) == {x \in Places : \E m \in 0 .. n : Over(x, m) = p}
           Exactly(n) == {x \in Places : Over(x, n) = p /\ \A m \in 0 .. n : m < n => Over(x, m) # p}
           G == {n \in Nat : walk[n].ids = Within(n) /\ walk[n].frontier = Exactly(n)}
<1>11. 0 \in G
    <2>1. \A x \in Places : Over(x, 0) = x
        BY <1>9, OverStep
    <2>2. Within(0) = {p} /\ Exactly(0) = {p}
        BY <2>1
    <2>3. walk[0].ids = {p} /\ walk[0].frontier = {p}
        BY <1>7
    <2> HIDE DEF Within, Exactly
    <2> QED BY <2>2, <2>3
<1>12. ASSUME NEW n \in Nat, n \in G PROVE n + 1 \in G
    <2>1. ASSUME NEW x \in Places PROVE x \in Exactly(n + 1) <=> x \notin Within(n) /\ parent[x] \in Exactly(n)
        <3>1. \A m \in 0 .. n : m \in Nat /\ m + 1 \in 0 .. (n + 1) /\ (m < n <=> m + 1 < n + 1)
            OBVIOUS
        <3>2. \A m \in 0 .. n : Over(x, m + 1) = Over(parent[x], m)
            BY <1>10, <3>1
        <3>3. Over(x, n + 1) = Over(parent[x], n)
            BY <1>10
        <3>4. x \in Exactly(n + 1) <=> Over(x, n + 1) = p /\ x \notin Within(n)
            <4>1. \A m : m \in 0 .. n <=> m \in 0 .. (n + 1) /\ m < n + 1
                OBVIOUS
            <4> QED BY <4>1
        <3>5. parent[x] \in Levels
            BY DEF Typed, Levels
        <3>6. parent[x] = None => Over(parent[x], n) # p
            BY <1>9, OverNone
        <3>7. x \notin Within(n) => \A m \in 0 .. n : m < n => Over(parent[x], m) # p
            <4>1. \A m \in 0 .. n : m < n => m + 1 \in 0 .. n
                OBVIOUS
            <4> QED BY <3>2, <4>1
        <3> QED BY <3>3, <3>4, <3>5, <3>6, <3>7 DEF Levels
    <2>2. Exactly(n + 1) = Children(walk[n])
        BY <1>12, <2>1
    <2>3. Within(n + 1) = Within(n) \cup Exactly(n + 1)
        <3>1. \A m : m \in 0 .. (n + 1) <=> m \in 0 .. n \/ m = n + 1
            OBVIOUS
        <3>2. \A m : m \in 0 .. n <=> m \in 0 .. (n + 1) /\ m < n + 1
            OBVIOUS
        <3> QED BY <3>1, <3>2
    <2>4. walk[n + 1] = [ids |-> walk[n].ids \cup Children(walk[n]), frontier |-> Children(walk[n])]
        BY <1>8
    <2> HIDE DEF Within, Exactly, Children
    <2>5. walk[n + 1].ids = Within(n + 1) /\ walk[n + 1].frontier = Exactly(n + 1)
        BY <1>12, <2>2, <2>3, <2>4
    <2> QED BY <2>5
<1> HIDE DEF G
<1>13. MaxDepth \in G
    BY <1>11, <1>12, Induction, DepthIsUsable
<1> QED BY <1>6, <1>13 DEF G

(***************************************************************************)
(* Which places the climb from inside finds to be in one of the            *)
(* containers, unless it comes back to where it began.                     *)
(***************************************************************************)
Returns(x, n) == \E m \in 2 .. n : Over(x, m) = x

LEMMA Contains ==
    ASSUME Typed, NEW places \in SUBSET Places, NEW containers \in SUBSET Places, NEW x
    PROVE  x \in ContainedIds(places, containers) <=>
               x \in places /\ \E n \in 1 .. MaxDepth : Over(x, n) \in containers /\ ~Returns(x, n)
<1> DEFINE S == UNION {[D -> Places] : D \in SUBSET places}
           Stay(pending) == {q \in DOMAIN pending : /\ pending[q] \notin containers
                                                    /\ parent[pending[q]] \notin {None, q}}
           start == [p \in {q \in places : parent[q] # None} |-> parent[p]]
           up(pending) == [p \in Stay(pending) |-> parent[pending[p]]]
           step == [pending \in S |-> up(pending)]
           walk == CHOOSE f : f = [n \in Nat |-> IF n = 0 THEN start ELSE up(f[n - 1])]
<1>1. start \in S
    <2> DEFINE D == {q \in places : parent[q] # None}
    <2>1. D \in SUBSET places /\ start \in [D -> Places]
        BY DEF Typed
    <2> QED BY <2>1
<1>2. step \in [S -> S]
    <2> SUFFICES ASSUME NEW pending \in S PROVE up(pending) \in S
        OBVIOUS
    <2>1. DOMAIN pending \in SUBSET places /\ \A q \in DOMAIN pending : pending[q] \in Places
        OBVIOUS
    <2>2. Stay(pending) \in SUBSET places
        BY <2>1
    <2>3. \A q \in Stay(pending) : parent[pending[q]] \in Places
        BY <2>1 DEF Typed
    <2>4. up(pending) \in [Stay(pending) -> Places]
        BY <2>3
    <2> HIDE DEF Stay, up
    <2> QED BY <2>2, <2>4
<1>3. PICK f \in [Nat -> S] : f = [n \in Nat |-> IF n = 0 THEN start ELSE step[f[n - 1]]]
    <2> HIDE DEF S, start, step
    <2>1. \A next \in [S -> S] :
              \E f \in [Nat -> S] : f = [n \in Nat |-> IF n = 0 THEN start ELSE next[f[n - 1]]]
        BY <1>1, Recursion
    <2> QED BY <1>2, <2>1
<1>4. f = [n \in Nat |-> IF n = 0 THEN start ELSE up(f[n - 1])]
    <2> HIDE DEF S, start, up
    <2>1. \A n \in Nat : n # 0 => n - 1 \in Nat
        OBVIOUS
    <2>2. \A n \in Nat : n # 0 => f[n - 1] \in S
        BY <2>1
    <2> QED BY <1>3, <2>2
<1>5. walk = [n \in Nat |-> IF n = 0 THEN start ELSE up(walk[n - 1])]
    <2> HIDE DEF start, up
    <2> QED BY <1>4
<1>6. ContainedIds(places, containers)
        = UNION {{p \in DOMAIN walk[n] : walk[n][p] \in containers} : n \in 0 .. MaxDepth - 1}
    BY Zenon DEF ContainedIds
<1> HIDE DEF walk
<1>7. walk[0] = start
    BY <1>5
<1>8. \A n \in Nat : walk[n + 1] = up(walk[n])
    <2>1. \A n \in Nat : n + 1 # 0 /\ (n + 1) - 1 = n /\ n + 1 \in Nat
        OBVIOUS
    <2> HIDE DEF start, up
    <2> QED BY <1>5, <2>1
<1>9. None \notin Places /\ Places \subseteq Levels
    BY EventNamesAPlace DEF Levels
<1> DEFINE Still(n) == {q \in places : /\ Over(q, n + 1) # None
                                       /\ ~Returns(q, n + 1)
                                       /\ \A m \in 1 .. n : Over(q, m) \notin containers}
           G == {n \in Nat : DOMAIN walk[n] = Still(n) /\ \A q \in Still(n) : walk[n][q] = Over(q, n + 1)}
<1>10. ASSUME NEW q \in places, NEW n \in Nat
       PROVE  /\ Over(q, n + 1) \in Levels
              /\ Over(q, (n + 1) + 1) = ParentOf[Over(q, n + 1)]
              /\ Over(q, n + 1) # None => Over(q, (n + 1) + 1) = parent[Over(q, n + 1)]
    <2>1. n + 1 \in Nat
        OBVIOUS
    <2>2. Over(q, n + 1) \in Levels /\ Over(q, (n + 1) + 1) = ParentOf[Over(q, n + 1)]
        BY <1>9, <2>1, OverStep
    <2> QED BY <2>2 DEF ParentOf
<1>11. 0 \in G
    <2>1. ASSUME NEW q \in places PROVE Over(q, 0 + 1) = parent[q]
        <3>1. Over(q, 0 + 1) = ParentOf[Over(q, 0)] /\ Over(q, 0) = q
            BY <1>9, OverStep
        <3> QED BY <1>9, <3>1 DEF ParentOf
    <2>2. 2 .. (0 + 1) = {} /\ 1 .. 0 = {}
        OBVIOUS
    <2>3. Still(0) = {q \in places : parent[q] # None}
        BY <2>1, <2>2 DEF Returns
    <2> HIDE DEF Still
    <2> QED BY <1>7, <2>1, <2>3
<1>12. ASSUME NEW n \in Nat, n \in G PROVE n + 1 \in G
    <2>1. ASSUME NEW q \in places
          PROVE  q \in Still(n + 1) <=> /\ q \in Still(n)
                                        /\ Over(q, n + 1) \notin containers
                                        /\ Over(q, (n + 1) + 1) \notin {None, q}
        <3>1. \A m : m \in 1 .. (n + 1) <=> m \in 1 .. n \/ m = n + 1
            OBVIOUS
        <3>2. \A m : m \in 2 .. ((n + 1) + 1) <=> m \in 2 .. (n + 1) \/ m = (n + 1) + 1
            OBVIOUS
        <3>3. Returns(q, (n + 1) + 1) <=> Returns(q, n + 1) \/ Over(q, (n + 1) + 1) = q
            BY <3>2 DEF Returns
        <3>4. Over(q, n + 1) = None => Over(q, (n + 1) + 1) = None
            BY <1>10 DEF ParentOf, Levels
        <3> QED BY <3>1, <3>3, <3>4
    <2>2. DOMAIN walk[n] = Still(n) /\ \A q \in Still(n) : walk[n][q] = Over(q, n + 1) /\ q \in places
                                                           /\ Over(q, n + 1) # None
        BY <1>12
    <2> HIDE DEF Still
    <2>3. Still(n + 1) = Stay(walk[n])
        <3>1. \A q \in Still(n + 1) : q \in places
            BY DEF Still
        <3>2. \A q \in Still(n) : parent[walk[n][q]] = Over(q, (n + 1) + 1)
            BY <1>10, <2>2
        <3> QED BY <2>1, <2>2, <3>1, <3>2
    <2>4. walk[n + 1] = [p \in Stay(walk[n]) |-> parent[walk[n][p]]]
        BY <1>8
    <2>5. ASSUME NEW q \in Still(n + 1) PROVE walk[n + 1][q] = Over(q, (n + 1) + 1)
        <3>1. q \in Stay(walk[n]) /\ q \in Still(n)
            BY <2>2, <2>3, <2>5
        <3> HIDE DEF Stay
        <3>2. walk[n + 1][q] = parent[walk[n][q]]
            BY <2>4, <3>1
        <3> QED BY <1>10, <2>2, <3>1, <3>2
    <2> HIDE DEF Stay
    <2>6. DOMAIN walk[n + 1] = Still(n + 1)
        BY <2>3, <2>4
    <2> QED BY <2>5, <2>6
<1> HIDE DEF G
<1>13. \A n \in Nat : n \in G
    BY <1>11, <1>12, Induction
<1>14. x \in ContainedIds(places, containers) <=>
           \E n \in 0 .. MaxDepth - 1 : x \in Still(n) /\ Over(x, n + 1) \in containers
    <2>1. \A n \in 0 .. MaxDepth - 1 : DOMAIN walk[n] = Still(n) /\ \A q \in Still(n) : walk[n][q] = Over(q, n + 1)
        BY <1>13, DepthIsUsable DEF G
    <2> HIDE DEF Still
    <2> QED BY <1>6, <2>1
<1>15. ASSUME NEW n \in 0 .. MaxDepth - 1, x \in Still(n), Over(x, n + 1) \in containers
       PROVE  x \in places /\ \E m \in 1 .. MaxDepth : Over(x, m) \in containers /\ ~Returns(x, m)
    <2>1. n + 1 \in 1 .. MaxDepth
        BY DepthIsUsable
    <2> QED BY <1>15, <2>1
<1>16. ASSUME NEW k \in 1 .. MaxDepth, x \in places, Over(x, k) \in containers, ~Returns(x, k)
       PROVE  \E n \in 0 .. MaxDepth - 1 : x \in Still(n) /\ Over(x, n + 1) \in containers
    <2> DEFINE T == {m \in 1 .. MaxDepth : Over(x, m) \in containers}
    <2>1. k \in T /\ T \subseteq Nat
        BY <1>16, DepthIsUsable
    <2>2. PICK m \in T : \A j \in T : m <= j
        BY <2>1, LeastNatural
    <2>3. m \in 1 .. MaxDepth /\ m <= k /\ Over(x, m) \in containers /\ k \in Nat
        BY <2>1, <2>2, DepthIsUsable
    <2>4. ~Returns(x, m)
        <3>1. \A j \in 2 .. m : j \in 2 .. k
            BY <2>3, DepthIsUsable
        <3> QED BY <1>16, <3>1 DEF Returns
    <2>5. \A j \in 1 .. (m - 1) : Over(x, j) \notin containers
        <3> SUFFICES ASSUME NEW j \in 1 .. (m - 1), Over(x, j) \in containers PROVE FALSE
            OBVIOUS
        <3>1. j \in 1 .. MaxDepth /\ ~(m <= j)
            BY <2>3, DepthIsUsable
        <3>2. j \in T
            BY <3>1
        <3> QED BY <2>2, <3>1, <3>2
    <2>6. m - 1 \in 0 .. MaxDepth - 1 /\ (m - 1) + 1 = m
        BY <2>3, DepthIsUsable
    <2>7. Over(x, m) # None
        BY <1>9, <2>3
    <2>8. x \in Still(m - 1)
        BY <1>16, <2>4, <2>5, <2>6, <2>7
    <2> QED BY <2>3, <2>6, <2>8
<1> HIDE DEF Still
<1> QED BY <1>14, <1>15, <1>16

(***************************************************************************)
(* The three walks, by the number of levels.                               *)
(***************************************************************************)
LEMMA TypedWalksAgree == Typed => WalksAgree
<1> SUFFICES ASSUME Typed, NEW q \in Places
             PROVE  /\ AncestorIds(q) = {p \in Places \ {q} : q \in DescendantIds(p)}
                    /\ AncestorIds(q) = {p \in Places \ {q} : q \in ContainedIds({q}, {p})}
    BY DEF WalksAgree
<1>1. q \in Levels /\ None \notin Places /\ MaxDepth \in Nat
    BY EventNamesAPlace, DepthIsUsable DEF Levels
<1>2. AncestorIds(q) = Seen(q, MaxDepth) \ {q}
    BY <1>1, Climbs DEF AncestorIds
<1>3. Seen(q, MaxDepth) \subseteq Places
    BY <1>1, OverStep DEF Seen, Levels
<1>4. ASSUME NEW p \in Places PROVE p \in Seen(q, MaxDepth) <=> \E m \in 0 .. MaxDepth : Over(q, m) = p
    BY <1>1 DEF Seen
<1>5. ASSUME NEW p \in Places \ {q}
      PROVE  q \in DescendantIds(p) <=> \E m \in 0 .. MaxDepth : Over(q, m) = p
    BY Descends
<1>6. ASSUME NEW p \in Places \ {q}
      PROVE  q \in ContainedIds({q}, {p}) <=> \E m \in 1 .. MaxDepth : Over(q, m) = p /\ ~Returns(q, m)
    <2>1. {q} \in SUBSET Places /\ {p} \in SUBSET Places /\ q \in {q}
        OBVIOUS
    <2>2. q \in ContainedIds({q}, {p}) <=>
              q \in {q} /\ \E n \in 1 .. MaxDepth : Over(q, n) \in {p} /\ ~Returns(q, n)
        BY <2>1, Contains
    <2> QED BY <2>2
<1>7. ASSUME NEW p \in Places \ {q}, NEW k \in 0 .. MaxDepth, Over(q, k) = p
      PROVE  \E m \in 1 .. MaxDepth : Over(q, m) = p /\ ~Returns(q, m)
    <2> DEFINE T == {m \in 0 .. MaxDepth : Over(q, m) = p}
    <2>1. T \subseteq Nat /\ k \in T
        BY <1>1, <1>7
    <2>2. PICK m \in T : \A j \in T : m <= j
        BY <2>1, LeastNatural
    <2>3. m \in 0 .. MaxDepth /\ m \in Nat /\ Over(q, m) = p
        BY <1>1, <2>2
    <2>4. m # 0
        BY <1>1, <1>7, <2>3, OverStep
    <2>5. ASSUME NEW j \in 2 .. m, Over(q, j) = q PROVE FALSE
        <3>1. j \in Nat /\ m - j \in 0 .. MaxDepth /\ m - j \in Nat /\ j + (m - j) = m /\ ~(m <= m - j)
            BY <1>1, <2>3
        <3>2. Over(q, j + (m - j)) = Over(q, m - j)
            BY <1>1, <2>5, <3>1, OverSum
        <3>3. m - j \in T
            BY <2>3, <3>1, <3>2
        <3> QED BY <2>2, <3>1, <3>3
    <2>6. m \in 1 .. MaxDepth /\ ~Returns(q, m)
        BY <1>1, <2>3, <2>4, <2>5 DEF Returns
    <2> QED BY <2>3, <2>6
<1>8. \A m \in 1 .. MaxDepth : m \in 0 .. MaxDepth
    OBVIOUS
<1>9. ASSUME NEW p \in Places \ {q}
      PROVE  q \in ContainedIds({q}, {p}) <=> \E m \in 0 .. MaxDepth : Over(q, m) = p
    BY <1>6, <1>7, <1>8
<1> QED BY <1>2, <1>3, <1>4, <1>5, <1>9

(***************************************************************************)
(* In a forest every climb ends, and none comes back.                      *)
(***************************************************************************)
LEMMA Forest ==
    ASSUME Typed, Acyclic, NEW p \in Places
    PROVE  /\ \E m \in Nat : Over(p, m) = None
           /\ \A n \in Nat : n # 0 => Over(p, n) # p
           /\ \A y : y \in Above(p) <=> y \in Places /\ y # p /\ \E m \in Nat : Over(p, m) = y
<1>1. p \in Levels /\ p # None /\ None \notin Places /\ Cardinality(Places) \in Nat
    BY EventNamesAPlace, PlacesAreNamed, FS_CardinalityType DEF Levels
<1>2. Over(p, 0) = p /\ Over(p, 1) = parent[p]
    <2>1. Over(p, 0) = p /\ Over(p, 0 + 1) = ParentOf[Over(p, 0)]
        BY <1>1, OverStep
    <2> QED BY <1>1, <2>1 DEF ParentOf
<1> DEFINE levels == Cardinality(Places)
<1> HIDE DEF levels
<1>3. levels \in Nat
    BY <1>1 DEF levels
<1>4. /\ \E m \in Nat : Over(p, m) = None
      /\ \A m \in Nat : Over(p, m) \in Seen(p, levels) \cup {None}
    <2>1. CASE parent[p] = None
        <3>1. \A m \in Nat : m = 0 \/ 1 <= m
            OBVIOUS
        <3>2. \A m \in Nat : 1 <= m => Over(p, m) = None
            BY <1>1, <1>2, <2>1, OverNone
        <3>3. p \in Seen(p, levels)
            <4>1. 0 \in 0 .. levels
                BY <1>3
            <4> QED BY <1>1, <1>2, <4>1 DEF Seen
        <3> QED BY <1>2, <2>1, <3>1, <3>2, <3>3
    <2>2. CASE parent[p] # None
        <3>1. Climb(p, parent[p], levels).at = None
            BY <2>2 DEF Acyclic, levels
        <3> QED BY <1>3, <3>1, Climbs
    <2> QED BY <2>1, <2>2
<1>5. ASSUME NEW n \in Nat, n # 0, Over(p, n) = p PROVE FALSE
    <2> DEFINE T == {m \in Nat : Over(p, m) = None}
    <2>1. T \subseteq Nat /\ T # {}
        BY <1>4
    <2>2. PICK m \in T : \A j \in T : m <= j
        BY <2>1, LeastNatural
    <2>3. m \in Nat /\ Over(p, m) = None
        BY <2>2
    <2>4. ~(m <= n)
        BY <1>1, <1>5, <2>3, OverNone
    <2>5. m - n \in Nat /\ n + (m - n) = m /\ ~(m <= m - n)
        BY <1>5, <2>3, <2>4
    <2>6. Over(p, n + (m - n)) = Over(Over(p, n), m - n)
        BY <1>1, <2>5, OverSum
    <2>7. m - n \in T
        BY <1>5, <2>3, <2>5, <2>6
    <2> QED BY <2>2, <2>5, <2>7
<1>6. Above(p) = Seen(p, levels) \ {p}
    BY <1>3, Climbs DEF Above, levels
<1>7. \A m \in Nat : Over(p, m) \in Levels
    BY <1>1, OverStep
<1>8. ASSUME NEW y PROVE y \in Above(p) <=> y \in Places /\ y # p /\ \E m \in Nat : Over(p, m) = y
    <2>1. \A m \in 0 .. levels : m \in Nat
        OBVIOUS
    <2> QED BY <1>1, <1>4, <1>6, <1>7, <2>1 DEF Seen, Levels
<1> QED BY <1>4, <1>5, <1>8

(***************************************************************************)
(* Going up among some places ends at one that none of them contains.      *)
(***************************************************************************)
LEMMA Topmost ==
    ASSUME Typed, Acyclic, NEW places \in SUBSET Places, NEW x \in Places,
           NEW k \in Nat, Over(x, k) \in places
    PROVE  \E m \in Nat : Over(x, m) \in Outermost(places)
<1>1. PICK top \in Nat : Over(x, top) = None
    BY Forest
<1>2. x \in Levels /\ None \notin Places
    BY EventNamesAPlace DEF Levels
<1>3. \A m \in Nat : Over(x, m) \in places => m < top
    BY <1>1, <1>2, OverNone
<1> DEFINE T == {top - m : m \in {m \in Nat : Over(x, m) \in places}}
<1>4. T \subseteq Nat /\ T # {}
    BY <1>3
<1>5. PICK d \in T : \A e \in T : d <= e
    BY <1>4, LeastNatural
<1>6. PICK m \in Nat : d = top - m /\ Over(x, m) \in places
    BY <1>5
<1>7. ASSUME NEW n \in Nat, n # 0, Over(Over(x, m), n) \in places PROVE FALSE
    <2>1. m + n \in Nat /\ Over(x, m + n) \in places
        BY <1>2, <1>7, OverSum
    <2>2. top - (m + n) \in T
        BY <2>1
    <2>3. ~(top - m <= top - (m + n))
        BY <1>7
    <2> QED BY <1>5, <1>6, <2>2, <2>3
<1>8. Over(x, m) \notin ContainedIds(places, places)
    <2>1. \A n \in 1 .. MaxDepth : n \in Nat /\ n # 0
        OBVIOUS
    <2>2. Over(x, m) \in ContainedIds(places, places) =>
              \E n \in 1 .. MaxDepth : Over(Over(x, m), n) \in places
        BY Contains
    <2> QED BY <1>7, <2>1, <2>2
<1> QED BY <1>6, <1>8 DEF Outermost

LEMMA TypedNamesNarrow == Typed => NamesOnlyNarrow
<1> SUFFICES ASSUME Typed, Acyclic, NEW c \in Codes, NEW n \in Names,
                    NEW a \in Decide(Coded(c)), a.status = "RESOLVED"
             PROVE  /\ Coded(c) \cap Above(a.place) = {}
                    /\ \A b \in ByNameWithinCode([name |-> n, externalCode |-> None,
                                                  code |-> c, located |-> FALSE]) :
                          b.status = "RESOLVED" => a.place \in Above(b.place) \cup {b.place}
    BY DEF NamesOnlyNarrow
<1> DEFINE coded == Coded(c)
           query == [name |-> n, externalCode |-> None, code |-> c, located |-> FALSE]
<1>1. coded \in SUBSET Places /\ \A y \in Places : y \in Levels
    BY DEF Coded, Levels
<1>2. PICK t \in Places : Outermost(coded) = {t} /\ a.place = t
    <2>1. Cardinality(Outermost(coded)) = 1 /\ a \in {Resolved(p) : p \in Outermost(coded)}
        BY DEF Decide, Ambiguous
    <2>2. Outermost(coded) \in SUBSET coded
        BY DEF Outermost
    <2>3. IsFiniteSet(Outermost(coded))
        BY <1>1, <2>2, PlacesAreNamed, FS_Subset
    <2>4. PICK t : Outermost(coded) = {t}
        BY <2>1, <2>3, FS_Singleton
    <2> HIDE DEF coded
    <2> QED BY <1>1, <2>1, <2>2, <2>4 DEF Resolved
<1> HIDE DEF coded
<1>3. ASSUME NEW x \in Places, NEW k \in Nat, Over(x, k) \in coded
      PROVE  \E m \in Nat : Over(x, m) = t
    BY <1>1, <1>2, <1>3, Topmost
<1>4. ASSUME NEW y \in coded, y \in Above(t) PROVE FALSE
    <2>1. y \in Places /\ y # t /\ Over(y, 0) = y
        BY <1>1, <1>4, OverStep, Forest
    <2>2. PICK m \in Nat : Over(t, m) = y
        BY <1>4, Forest
    <2>3. PICK k \in Nat : Over(y, k) = t
        BY <1>3, <1>4, <2>1
    <2>4. m # 0
        BY <1>1, <2>1, <2>2, OverStep
    <2>5. Over(t, m + k) = t /\ m + k \in Nat /\ m + k # 0
        BY <1>1, <2>2, <2>3, <2>4, OverSum
    <2> QED BY <2>5, Forest
<1>5. ASSUME NEW b \in ByNameWithinCode(query), b.status = "RESOLVED"
      PROVE  t \in Above(b.place) \cup {b.place}
    <2>1. b \in {Resolved(p) : p \in Consistent(query)}
        <3>1. CASE Outermost(Called(query.name)) = {} \/ Coded(query.code) = {}
            BY <1>5, <3>1 DEF ByNameWithinCode
        <3>2. CASE ~(Outermost(Called(query.name)) = {} \/ Coded(query.code) = {}) /\ Cardinality(Consistent(query)) = 1
            <4> HIDE DEF query
            <4>1. Consistent(query) # {}
                <5>1. Cardinality({}) = 0
                    BY FS_EmptySet
                <5> QED BY <3>2, <5>1
            <4> QED BY <1>5, <3>2, <4>1 DEF ByNameWithinCode
        <3>3. CASE /\ ~(Outermost(Called(query.name)) = {} \/ Coded(query.code) = {})
                   /\ Cardinality(Consistent(query)) # 1
            BY <1>5, <3>3 DEF ByNameWithinCode, Ambiguous
        <3> QED BY <3>1, <3>2, <3>3
    <2>2. b.place \in Consistent(query)
        <3>1. PICK p \in Consistent(query) : b = Resolved(p)
            BY <2>1
        <3> QED BY <3>1 DEF Resolved
    <2> DEFINE named == Outermost(Called(n))
    <2>3. named \in SUBSET Places
        BY DEF Outermost, Called
    <2>4. Consistent(query) = (named \cap coded) \cup ContainedIds(named, coded)
        BY DEF Consistent, coded
    <2> HIDE DEF named
    <2>5. b.place \in Places /\ \E k \in Nat : Over(b.place, k) \in coded
        <3>1. CASE b.place \in coded
            BY <1>1, <3>1, OverStep
        <3>2. CASE b.place \in ContainedIds(named, coded)
            <4>1. \A k \in 1 .. MaxDepth : k \in Nat
                OBVIOUS
            <4>2. b.place \in named /\ \E k \in 1 .. MaxDepth : Over(b.place, k) \in coded
                <5>1. b.place \in ContainedIds(named, coded) <=>
                          b.place \in named /\ \E k \in 1 .. MaxDepth :
                                                  Over(b.place, k) \in coded /\ ~Returns(b.place, k)
                    BY <1>1, <2>3, Contains
                <5> QED BY <3>2, <5>1
            <4> QED BY <2>3, <4>1, <4>2
        <3> QED BY <2>2, <2>4, <3>1, <3>2
    <2>6. \E m \in Nat : Over(b.place, m) = t
        BY <1>3, <2>5
    <2> QED BY <1>2, <2>5, <2>6, Forest
<1> QED BY <1>2, <1>4, <1>5 DEF coded

-------------------------------------------------------------------------------
LEMMA ResolverAnswers ==
    ASSUME Typed, aliases \subseteq Aliases
    PROVE  Resolve(Reported) \in Answers
<1>1. Unresolved \in Answers /\ Ambiguous \in Answers /\ \A p \in Places : Resolved(p) \in Answers
    BY DEF Answers, Unresolved, Ambiguous, Resolved
<1>2. ASSUME NEW places \in SUBSET Places PROVE Decide(places) \subseteq Answers
    BY <1>1 DEF Decide, Outermost
<1>3. ASSUME NEW query PROVE /\ Coded(query.code) \in SUBSET Places
                             /\ Called(query.name) \in SUBSET Places
                             /\ Fixed(query) \in SUBSET Places
    BY PlacesAreNamed DEF Coded, Called, Fixed
<1>4. ASSUME NEW query PROVE ByAlias(query) \subseteq Answers
    <2>1. \A entry \in aliases : entry.place \in Places
        BY DEF Aliases
    <2>2. \A value : AliasedTo("name", value) \subseteq Places /\ AliasedTo("externalCode", value) \subseteq Places
        BY <2>1 DEF AliasedTo
    <2> QED BY <1>1, <2>2 DEF ByAlias
<1>5. ASSUME NEW query PROVE ByNameWithinCode(query) \subseteq Answers
    <2>1. Consistent(query) \subseteq Places
        <3> DEFINE named == Outermost(Called(query.name))
        <3>1. named \in SUBSET Places /\ Coded(query.code) \in SUBSET Places
            BY <1>3 DEF Outermost
        <3> HIDE DEF named
        <3>2. ContainedIds(named, Coded(query.code)) \subseteq named
            BY <3>1, Contains
        <3> QED BY <3>1, <3>2 DEF Consistent, named
    <2> QED BY <1>1, <2>1 DEF ByNameWithinCode
<1>6. ASSUME NEW query PROVE ByCoordinates(query) \subseteq Answers
    BY <1>1, <1>3 DEF ByCoordinates
<1> QED BY <1>1, <1>2, <1>3, <1>4, <1>5, <1>6 DEF Resolve, Else

PlaceTypeOK ==
    /\ Typed
    /\ active \in [Places -> BOOLEAN]
    /\ code \in [Places -> Codes \cup {None}]
    /\ aliases \subseteq Aliases
    /\ editing \in [Editors -> LocationRows \cup {None}]
    /\ event \in Answers \cup {None}
    /\ ingest \in [Workers -> [step : {"idle"}] \cup [step : {"resolved"}, answer : Answers]
                              \cup [step : {"loaded"}, answer : Answers, seen : Answers]]
    /\ edits \in Nat

(***************************************************************************)
(* Who has loaded the event finds it stored: nothing takes it away again.  *)
(***************************************************************************)
PlaceIInv == PlaceTypeOK /\ \A w \in Workers : ingest[w].step = "loaded" => event # None

LEMMA PlaceInitIInv == PlaceInit => PlaceIInv
BY DEF PlaceInit, PlaceIInv, PlaceTypeOK, Typed

(***************************************************************************)
(* What a worker holds at each step.                                       *)
(***************************************************************************)
LEMMA Holding ==
    ASSUME PlaceTypeOK, NEW w \in Workers
    PROVE  /\ ingest[w].step \in {"resolved", "loaded"} => ingest[w].answer \in Answers
           /\ ingest[w].step = "loaded" => ingest[w].seen \in Answers
BY DEF PlaceTypeOK

(***************************************************************************)
(* One worker takes a step with the event, and the master data stays.      *)
(***************************************************************************)
LEMMA WorkerStep ==
    ASSUME PlaceIInv, NEW w \in Workers,
           NEW work \in [step : {"idle"}] \cup [step : {"resolved"}, answer : Answers]
                        \cup [step : {"loaded"}, answer : Answers, seen : Answers],
           ingest' = [ingest EXCEPT ![w] = work],
           event' \in Answers \cup {None}, event # None => event' # None,
           work.step = "loaded" => event' # None,
           UNCHANGED <<master, editing>>, edits' \in Nat
    PROVE  PlaceIInv'
<1>1. UNCHANGED <<parent, active, code, aliases>>
    BY DEF master
<1>2. PlaceTypeOK'
    BY <1>1 DEF PlaceIInv, PlaceTypeOK, Typed
<1>3. \A v \in Workers : ingest'[v].step = "loaded" => event' # None
    BY DEF PlaceIInv, PlaceTypeOK
<1> QED BY <1>2, <1>3 DEF PlaceIInv

LEMMA IngestIInv ==
    ASSUME PlaceIInv, NEW w \in Workers, ResolveEvent(w) \/ Store(w) \/ ResolverFails(w)
    PROVE  PlaceIInv'
<1> DEFINE Resolved1(answer) == [step |-> "resolved", answer |-> answer]
           Idle1 == [step |-> "idle"]
<1>1. event \in Answers \cup {None} /\ edits \in Nat /\ edits + 1 \in Nat
    BY DEF PlaceIInv, PlaceTypeOK
<1>2. Unresolved \in Answers /\ Resolve(Reported) \in Answers
    <2>1. Resolve(Reported) \in Answers
        BY ResolverAnswers DEF PlaceIInv, PlaceTypeOK
    <2> QED BY <2>1 DEF Unresolved, Answers
<1>3. CASE ResolveEvent(w)
    BY <1>1, <1>2, <1>3, WorkerStep DEF ResolveEvent
<1>4. CASE ResolverFails(w)
    BY <1>1, <1>2, <1>4, WorkerStep DEF ResolverFails, Edit
<1>5. CASE Insert(w)
    <2>1. ingest[w].answer \in Answers
        BY <1>5, Holding DEF Insert, PlaceIInv
    <2> QED BY <1>1, <1>5, <2>1, WorkerStep DEF Insert
<1>6. CASE Load(w)
    <2>1. ingest[w].answer \in Answers /\ event \in Answers
        BY <1>1, <1>6, Holding DEF Load, PlaceIInv
    <2> QED BY <1>1, <1>6, <2>1, WorkerStep DEF Load
<1>7. CASE Update(w)
    <2>1. ingest[w].answer \in Answers /\ event \in Answers /\ event # None
        BY <1>1, <1>7, Holding DEF Update, PlaceIInv
    <2>2. event' \in Answers
        BY <1>7, <2>1 DEF Update, Answers
    <2> QED BY <1>1, <1>7, <2>1, <2>2, WorkerStep, NoneIsNoAnswer DEF Update
<1> QED BY <1>3, <1>4, <1>5, <1>6, <1>7 DEF Store

LEMMA ChangeMasterIInv ==
    ASSUME PlaceIInv, ChangeMaster
    PROVE  PlaceIInv'
<1> USE DEF PlaceIInv, PlaceTypeOK, Typed
<1>1. edits + 1 \in Nat
    OBVIOUS
<1>2. ASSUME NEW e \in Editors, NEW form \in Forms, Submit(e, form) PROVE PlaceIInv'
    BY <1>1, <1>2, InputsAreRows DEF Submit, Edit, master
<1>3. ASSUME NEW e \in Editors, SaveForm(e) PROVE PlaceIInv'
    <2>1. editing[e] \in LocationRows
        BY <1>3 DEF SaveForm
    <2> QED BY <1>3, <2>1 DEF SaveForm, LocationRows
<1>4. ASSUME NEW p \in Places, ToggleActive(p) PROVE PlaceIInv'
    BY <1>1, <1>4 DEF ToggleActive, Edit
<1>5. ASSUME NEW entry \in Rows, CreateAlias(entry) \/ DeleteAlias(entry) PROVE PlaceIInv'
    BY <1>1, <1>5, InputsAreRows DEF CreateAlias, DeleteAlias, Edit
<1> QED BY <1>2, <1>3, <1>4, <1>5 DEF ChangeMaster

LEMMA PlaceInvariance == PlaceSpec => []PlaceIInv
<1>1. PlaceIInv /\ UNCHANGED placeVars => PlaceIInv'
    BY DEF PlaceIInv, PlaceTypeOK, Typed, placeVars
<1>2. PlaceIInv /\ [PlaceNext]_placeVars => PlaceIInv'
    BY <1>1, IngestIInv, ChangeMasterIInv DEF PlaceNext
<1> QED BY <1>2, PlaceInitIInv, PTL DEF PlaceSpec

(***************************************************************************)
(* Places, aliases and the place an event stores keep their types          *)
(* (visibility/models.py, tracking/models.py).                             *)
(***************************************************************************)
THEOREM PlacesAreTyped == PlaceSpec => []PlaceTypeOK
<1>1. PlaceIInv => PlaceTypeOK
    BY DEF PlaceIInv
<1> QED BY <1>1, PlaceInvariance, PTL

(***************************************************************************)
(* The path above a place, the subtree below one and the resolver's        *)
(* narrowing agree at all times about what is inside what, whatever the    *)
(* depth they are bounded by (location_hierarchy.py).                      *)
(***************************************************************************)
THEOREM HierarchyIsOne == PlaceSpec => []WalksAgree
<1>1. PlaceIInv => WalksAgree
    BY TypedWalksAgree DEF PlaceIInv, PlaceTypeOK
<1> QED BY <1>1, PlaceInvariance, PTL

(***************************************************************************)
(* As long as the hierarchy is a forest, a name only narrows what a code   *)
(* resolves to, however deep the places lie (location_resolver.py).        *)
(***************************************************************************)
THEOREM NamesNarrow == PlaceSpec => []NamesOnlyNarrow
<1>1. PlaceIInv => NamesOnlyNarrow
    BY TypedNamesNarrow DEF PlaceIInv, PlaceTypeOK
<1> QED BY <1>1, PlaceInvariance, PTL
===============================================================================
