----------------------- MODULE ContainerMovementsProofs -----------------------
(***************************************************************************)
(* Theorems about the position of a container, for any places, events,     *)
(* workers and instants.                                                   *)
(*                                                                         *)
(* That a history has a winner is not proved by induction over histories:  *)
(* it is part of the inductive invariant, and recording a movement keeps   *)
(* it, because the winner is the old one or the new movement.              *)
(*                                                                         *)
(* What the edit form cannot disturb is kept apart from what it can: the   *)
(* history stays sound whatever an edit saves over the row, and that is    *)
(* why the next movement repairs the position.                             *)
(***************************************************************************)
EXTENDS ContainerEditing, TLAPS

HasWinner(ms) == ms # <<>> => \E i \in DOMAIN ms : Wins(ms, i)

(***************************************************************************)
(* A worker only refreshes an event it found stored, and none is deleted.  *)
(***************************************************************************)
WorksOnStored == \A w \in Workers : job[w] # NoJob => event[job[w].event] # Unseen

HistoryInv ==
    /\ TypeOK
    /\ WorksOnStored
    /\ HasWinner(movements)
    /\ OneMovementPerEvent

IInv == HistoryInv /\ ProjectionIsWinner

(***************************************************************************)
(* The strengths are the three ranks of EvidenceStrength.                  *)
(***************************************************************************)
LEMMA Ranks == \A source : StrengthOf(source) \in 0 .. 2
  BY DEF StrengthOf

(***************************************************************************)
(* A history has at most one winner: state_sort_key is a total order.      *)
(***************************************************************************)
LEMMA WinnerUnique ==
  ASSUME NEW ms \in Seq(Movements),
         NEW i \in DOMAIN ms, NEW j \in DOMAIN ms, Wins(ms, i), Wins(ms, j)
  PROVE  i = j
<1> SUFFICES ASSUME i # j PROVE FALSE
  OBVIOUS
<1>1. Beats(ms, i, j) /\ Beats(ms, j, i)
  BY DEF Wins
<1>2. ms[i] \in Movements /\ ms[j] \in Movements /\ i \in Nat /\ j \in Nat
  OBVIOUS
<1>3. ms[i].at \in Nat /\ ms[j].at \in Nat
  BY <1>2 DEF Movements, Times
<1> DEFINE s == StrengthOf(ms[i].source)
           t == StrengthOf(ms[j].source)
<1>4. s \in Nat /\ t \in Nat
  BY Ranks
<1> HIDE DEF s, t
<1> QED
  BY <1>1, <1>2, <1>3, <1>4 DEF Beats, s, t

(***************************************************************************)
(* Of a winner, the projection is its claim.                               *)
(***************************************************************************)
LEMMA ProjectWinner ==
  ASSUME NEW ms \in Seq(Movements), NEW i \in DOMAIN ms, Wins(ms, i)
  PROVE  StateMovement(ms) = ms[i] /\ Project(ms) = Claim(ms[i])
<1> DEFINE k == CHOOSE n \in DOMAIN ms : Wins(ms, n)
<1>1. k \in DOMAIN ms /\ Wins(ms, k)
  OBVIOUS
<1>2. k = i
  BY <1>1, WinnerUnique
<1> QED
  BY <1>2 DEF StateMovement, Project

(***************************************************************************)
(* Recording a movement keeps the old winner or makes the new one win.     *)
(***************************************************************************)
LEMMA AppendWinner ==
  ASSUME NEW ms \in Seq(Movements), NEW m \in Movements,
         NEW i \in DOMAIN ms, Wins(ms, i)
  PROVE  \/ Wins(Append(ms, m), i)
         \/ Wins(Append(ms, m), Len(ms) + 1)
<1> DEFINE ns == Append(ms, m)
           n == Len(ms) + 1
<1>1. /\ n \in Nat \ {0} /\ DOMAIN ms = 1 .. n - 1 /\ DOMAIN ns = 1 .. n
      /\ ns[n] = m /\ \A j \in DOMAIN ms : ns[j] = ms[j]
  OBVIOUS
<1>2. ASSUME NEW j \in DOMAIN ms PROVE ms[j].at \in Nat
  <2>1. ms[j] \in Movements
    OBVIOUS
  <2> QED
    BY <2>1 DEF Movements, Times
<1>3. m.at \in Nat
  BY DEF Movements, Times
<1>4. \A source : StrengthOf(source) \in Nat
  BY Ranks
<1>5. \A j \in DOMAIN ms \ {i} : Beats(ns, i, j)
  BY <1>1 DEF Wins, Beats
<1>6. CASE Beats(ns, i, n)
  BY <1>1, <1>5, <1>6 DEF Wins
<1>7. CASE ~ Beats(ns, i, n)
  <2>1. Beats(ns, n, i)
    BY <1>1, <1>2, <1>3, <1>4, <1>7 DEF Beats
  <2>2. ASSUME NEW j \in DOMAIN ms \ {i} PROVE Beats(ns, n, j)
    <3> DEFINE at(k) == ns[k].at
               rank(k) == StrengthOf(ns[k].source)
    <3>1. Beats(ns, i, j)
      BY <1>5
    <3>2. i \in 1 .. n - 1 /\ j \in 1 .. n - 1
      BY <1>1
    <3>3. \A k \in 1 .. n : at(k) \in Nat /\ rank(k) \in Nat
      BY <1>1, <1>2, <1>3, <1>4
    <3>4. \/ at(i) > at(j)
          \/ at(i) = at(j) /\ (rank(i) > rank(j) \/ (rank(i) = rank(j) /\ i > j))
      BY <3>1 DEF Beats
    <3>5. \/ at(n) > at(i)
          \/ at(n) = at(i) /\ (rank(n) > rank(i) \/ (rank(n) = rank(i) /\ n > i))
      BY <2>1 DEF Beats
    <3> HIDE DEF at, rank
    <3>6. \/ at(n) > at(j)
          \/ at(n) = at(j) /\ (rank(n) > rank(j) \/ (rank(n) = rank(j) /\ n > j))
      BY <1>1, <3>2, <3>3, <3>4, <3>5
    <3> QED
      BY <3>6 DEF Beats, at, rank
  <2> QED
    BY <1>1, <2>1, <2>2 DEF Wins
<1> QED
  BY <1>6, <1>7

(***************************************************************************)
(* record_container_movement, from any origin and over whatever row: the   *)
(* row shows the winner of the history, which is the movement just         *)
(* recorded or the winner there was before.                                *)
(***************************************************************************)
LEMMA RecordStep ==
  ASSUME HistoryInv, NEW m \in Movements,
         movements' = Append(movements, m), container' = Project(movements')
  PROVE  /\ movements' \in Seq(Movements)
         /\ container' \in Claims
         /\ movements' # <<>>
         /\ \E i \in DOMAIN movements' : Wins(movements', i) /\ container' = Claim(movements'[i])
         /\ HasWinner(movements')
         /\ ProjectionIsWinner'
         /\ \/ container' = Claim(m)
            \/ movements # <<>> /\ container' = Project(movements)
<1> DEFINE n == Len(movements) + 1
<1>1. /\ movements \in Seq(Movements) /\ movements' \in Seq(Movements)
      /\ movements' # <<>>
      /\ DOMAIN movements = 1 .. n - 1 /\ DOMAIN movements' = 1 .. n /\ n \in Nat \ {0}
      /\ movements'[n] = m /\ \A j \in DOMAIN movements : movements'[j] = movements[j]
  BY DEF HistoryInv, TypeOK
<1>2. PICK i \in DOMAIN movements' :
         /\ Wins(movements', i)
         /\ i # n => Wins(movements, i)
  <2>1. CASE movements = <<>>
    <3>1. n = 1
      BY <2>1
    <3>2. Wins(movements', n)
      BY <1>1, <3>1 DEF Wins
    <3> QED
      BY <1>1, <3>2
  <2>2. CASE movements # <<>>
    <3>1. PICK k \in DOMAIN movements : Wins(movements, k)
      BY <2>2 DEF HistoryInv, HasWinner
    <3>2. Wins(movements', k) \/ Wins(movements', n)
      BY <1>1, <3>1, AppendWinner
    <3> QED
      BY <1>1, <3>1, <3>2
  <2> QED
    BY <2>1, <2>2
<1>3. StateMovement(movements') = movements'[i] /\ container' = Claim(movements'[i])
  BY <1>1, <1>2, ProjectWinner
<1>4. container' \in Claims
  <2>1. movements'[i] \in Movements
    BY <1>1
  <2> QED
    BY <1>3, <2>1 DEF Claim, Claims, Movements
<1>5. HasWinner(movements') /\ ProjectionIsWinner'
  BY <1>2, <1>3 DEF HasWinner, ProjectionIsWinner
<1>6. CASE i = n
  BY <1>1, <1>2, <1>3, <1>4, <1>5, <1>6
<1>7. CASE i # n
  <2>1. i \in DOMAIN movements /\ Wins(movements, i) /\ movements # <<>>
    BY <1>1, <1>2, <1>7
  <2>2. container' = Project(movements)
    BY <1>1, <1>3, <2>1, ProjectWinner
  <2> QED
    BY <1>1, <1>2, <1>3, <1>4, <1>5, <2>1, <2>2
<1> QED
  BY <1>6, <1>7

(***************************************************************************)
(* Over a row that shows the winner, recording moves the container only to *)
(* the claim of the movement just recorded.                                *)
(***************************************************************************)
LEMMA RecordMoves ==
  ASSUME IInv, NEW m \in Movements,
         movements' = Append(movements, m), container' = Project(movements')
  PROVE  container' # container => container' = Claim(m)
<1>1. container' = Claim(m) \/ (movements # <<>> /\ container' = Project(movements))
  BY RecordStep DEF IInv
<1> QED
  BY <1>1 DEF IInv, ProjectionIsWinner, Project

(***************************************************************************)
(* Every movement the actions record is one of the movements, and a        *)
(* tracking event stands behind a movement at most once.                   *)
(***************************************************************************)
LEMMA Recorded ==
  ASSUME HistoryInv, [Next]_vars, movements' # movements
  PROVE  \E m \in Movements :
            /\ movements' = Append(movements, m)
            /\ container' = Project(movements')
            /\ m.event # NoEvent => m.event \notin InterpretedEvents
<1> DEFINE Appended(m) ==
       /\ movements' = Append(movements, m)
       /\ container' = Project(movements')
       /\ m.event # NoEvent => m.event \notin InterpretedEvents
<1> SUFFICES \E m \in Movements : Appended(m)
  OBVIOUS
<1>1. ASSUME NEW kind, NEW from, NEW to \in Maybe(Places), NEW source \in Sources,
             NEW at \in Times, RecordByHand(kind, from, to, source, at)
      PROVE  \E m \in Movements : Appended(m)
  <2> DEFINE m == [to |-> to, source |-> source, at |-> at, event |-> NoEvent]
  <2>1. m \in Movements /\ m.event = NoEvent
    BY DEF Movements
  <2>2. Record(kind, from, m)
    BY <1>1 DEF RecordByHand
  <2> QED
    BY <2>1, <2>2 DEF Record
<1>2. CASE CreateContainer
  BY <1>1, <1>2 DEF CreateContainer, Sources, Maybe
<1>3. CASE RecordOperationalMovement
  BY <1>1, <1>3 DEF RecordOperationalMovement, Sources
<1>4. CASE ImportMovement
  BY <1>1, <1>4 DEF ImportMovement, Sources, Maybe
<1>5. ASSUME NEW w \in Workers, RecordEvent(w) PROVE \E m \in Movements : Appended(m)
  <2>1. job[w] # NoJob
    BY <1>5 DEF HistoryInv, TypeOK, RecordEvent
  <2>2. job[w] \in Jobs
    BY <2>1 DEF HistoryInv, TypeOK
  <2>3. EventMovement(w) \in Movements
    BY <2>2 DEF EventMovement, Movements, Jobs, Versions, Sources
  <2>4. Record("GATE_IN", NoPlace, EventMovement(w)) /\ job[w].event \notin InterpretedEvents
    BY <1>5 DEF RecordEvent, history
  <2>5. EventMovement(w).event = job[w].event
    BY DEF EventMovement
  <2> QED
    BY <2>3, <2>4, <2>5 DEF Record
<1>6. ~ Ingest /\ ~ UNCHANGED vars
  BY DEF Ingest, Deliver, history, vars
<1>7. ASSUME NEW w \in Workers PROVE ~ Refresh(w) /\ ~ CheckEvent(w) /\ ~ Interrupt(w)
  BY DEF Refresh, CheckEvent, Interrupt, history
<1> QED
  BY <1>2, <1>3, <1>4, <1>5, <1>6, <1>7 DEF Next, IngestionStep

(***************************************************************************)
(* A step that records nothing leaves the row of the container alone.      *)
(***************************************************************************)
LEMMA Unrecorded ==
  ASSUME HistoryInv, [Next]_vars, movements' = movements
  PROVE  container' = container
<1>1. ASSUME NEW kind, NEW from, NEW m, Record(kind, from, m) PROVE FALSE
  <2>1. movements \in Seq(Movements) /\ movements' = Append(movements, m)
    BY <1>1 DEF Record, HistoryInv, TypeOK
  <2>2. Len(movements) \in Nat /\ Len(Append(movements, m)) = Len(movements) + 1
    <3>1. movements \in Seq(Movements \cup {m})
      BY <2>1
    <3> QED
      BY <3>1
  <2> QED
    BY <2>1, <2>2
<1>2. ~ CreateContainer /\ ~ RecordOperationalMovement /\ ~ ImportMovement
  BY <1>1 DEF CreateContainer, RecordOperationalMovement, ImportMovement, RecordByHand
<1>3. ASSUME NEW w \in Workers, IngestionStep(w) \/ Interrupt(w)
      PROVE  container' = container
  BY <1>1, <1>3 DEF IngestionStep, Refresh, CheckEvent, RecordEvent, Interrupt, history
<1>4. CASE Ingest \/ UNCHANGED vars
  BY <1>4 DEF Ingest, Deliver, history, vars
<1> QED
  BY <1>2, <1>3, <1>4 DEF Next

(***************************************************************************)
(* What ingestion workers hold stays well typed, whoever interrupts them.  *)
(***************************************************************************)
LEMMA IngestionTypes ==
  ASSUME HistoryInv, [Next]_vars
  PROVE  /\ event' \in [Events -> Versions \cup {Unseen}]
         /\ step' \in [Workers -> {"idle", "refreshing", "checking", "recording"}]
         /\ job' \in [Workers -> Jobs \cup {NoJob}]
         /\ \A w \in Workers : step'[w] = "idle" <=> job'[w] = NoJob
         /\ faults' \in 0 .. MaxFaults
         /\ WorksOnStored'
<1> DEFINE Typed ==
         /\ event' \in [Events -> Versions \cup {Unseen}]
         /\ step' \in [Workers -> {"idle", "refreshing", "checking", "recording"}]
         /\ job' \in [Workers -> Jobs \cup {NoJob}]
         /\ \A w \in Workers : step'[w] = "idle" <=> job'[w] = NoJob
         /\ faults' \in 0 .. MaxFaults
         /\ WorksOnStored'
<1> USE NothingIsNoData, BoundsAreNaturals DEF HistoryInv, TypeOK, WorksOnStored
<1> SUFFICES Typed
  OBVIOUS
<1>1. CASE UNCHANGED <<event, step, job, faults>>
  BY <1>1
<1>2. ASSUME NEW w \in Workers, NEW e \in Events, NEW version \in Versions,
             Deliver(w, e, version)
      PROVE  Typed
  <2> DEFINE j == [event |-> e, sent |-> version,
                   held |-> IF event[e] = Unseen THEN version ELSE event[e]]
             stored == IF event[e] = Unseen THEN version ELSE event[e]
  <2>1. j \in Jobs /\ j # NoJob /\ j.event = e /\ stored \in Versions
    BY DEF Jobs
  <2>2. job' = [job EXCEPT ![w] = j] /\ event' = [event EXCEPT ![e] = stored]
    BY <1>2 DEF Deliver
  <2>3. faults' = faults /\ \E phase \in {"checking", "refreshing"} :
                              step' = [step EXCEPT ![w] = phase]
    BY <1>2 DEF Deliver, Goto
  <2> HIDE DEF j, stored
  <2> QED
    BY <2>1, <2>2, <2>3
<1>3. ASSUME NEW w \in Workers, Refresh(w) PROVE Typed
  <2>1. job[w] \in Jobs /\ job[w] # NoJob
    BY <1>3 DEF Refresh
  <2> DEFINE e == job[w].event
             j == [job[w] EXCEPT !.held = job[w].sent]
             v == [place |-> IF job[w].sent.place # job[w].held.place
                               THEN job[w].sent.place ELSE event[e].place,
                   at |-> IF job[w].sent.at # job[w].held.at
                            THEN job[w].sent.at ELSE event[e].at]
  <2>2. event' = [event EXCEPT ![e] = v] /\ job' = [job EXCEPT ![w] = j]
    BY <1>3 DEF Refresh
  <2>3. j \in Jobs /\ j # NoJob /\ j.event = e
    BY <2>1 DEF Jobs
  <2>4. e \in Events /\ event[e] \in Versions
    BY <2>1 DEF Jobs
  <2>5. v \in Versions
    BY <2>1, <2>4 DEF Jobs, Versions
  <2>6. step' = [step EXCEPT ![w] = "checking"] /\ faults' = faults
    BY <1>3 DEF Refresh, Goto
  <2> HIDE DEF e, j, v
  <2> QED
    BY <2>1, <2>2, <2>3, <2>4, <2>5, <2>6
<1>4. ASSUME NEW w \in Workers, Finish(w), event' = event, faults' \in 0 .. MaxFaults
      PROVE  Typed
  BY <1>4 DEF Finish, Goto
<1>5. ASSUME NEW w \in Workers, CheckEvent(w) PROVE Typed
  <2>1. CASE Goto(w, "recording") /\ UNCHANGED job
    <3>1. job[w] # NoJob
      BY <1>5 DEF CheckEvent
    <3> QED
      BY <1>5, <2>1, <3>1 DEF CheckEvent, Goto
  <2>2. CASE Finish(w)
    BY <1>4, <1>5, <2>2 DEF CheckEvent
  <2> QED
    BY <1>5, <2>1, <2>2 DEF CheckEvent
<1>6. ASSUME NEW w \in Workers, RecordEvent(w) \/ Interrupt(w) PROVE Typed
  BY <1>4, <1>6 DEF RecordEvent, Interrupt
<1>7. CASE CreateContainer \/ RecordOperationalMovement \/ ImportMovement
  BY <1>1, <1>7 DEF CreateContainer, RecordOperationalMovement, ImportMovement
<1>8. CASE UNCHANGED vars
  BY <1>1, <1>8 DEF vars
<1> HIDE DEF Typed
<1> QED
  BY <1>2, <1>3, <1>5, <1>6, <1>7, <1>8 DEF Next, Ingest, IngestionStep

(***************************************************************************)
(* The initial states: no history, whatever location the row has.          *)
(***************************************************************************)
LEMMA InitIInv == Init => IInv
<1> SUFFICES ASSUME Init PROVE IInv
  OBVIOUS
<1>1. movements = <<>> /\ movements \in Seq(Movements) /\ DOMAIN movements = {}
  BY DEF Init
<1>2. TypeOK
  BY <1>1, BoundsAreNaturals DEF Init, TypeOK
<1> QED
  BY <1>1, <1>2 DEF IInv, HistoryInv, WorksOnStored, HasWinner, ProjectionIsWinner, OneMovementPerEvent, Init

(***************************************************************************)
(* A movement is recorded for an event only when it has none.              *)
(***************************************************************************)
LEMMA UniqueStep ==
  ASSUME HistoryInv, NEW m \in Movements, movements' = Append(movements, m),
         m.event # NoEvent => m.event \notin InterpretedEvents
  PROVE  OneMovementPerEvent'
<1> DEFINE n == Len(movements) + 1
<1>1. /\ movements \in Seq(Movements)
      /\ DOMAIN movements = 1 .. n - 1 /\ DOMAIN movements' = 1 .. n /\ n \in Nat \ {0}
      /\ movements'[n] = m /\ \A j \in DOMAIN movements : movements'[j] = movements[j]
  BY DEF HistoryInv, TypeOK
<1>2. ASSUME NEW j \in DOMAIN movements, movements[j].event # NoEvent
      PROVE  movements[j].event # m.event
  BY <1>2 DEF InterpretedEvents
<1> QED
  BY <1>1, <1>2 DEF HistoryInv, OneMovementPerEvent

(***************************************************************************)
(* Every step of the history keeps it sound, whatever the row shows.       *)
(***************************************************************************)
LEMMA HistoryStep == HistoryInv /\ [Next]_vars => HistoryInv'
<1> SUFFICES ASSUME HistoryInv, [Next]_vars PROVE HistoryInv'
  OBVIOUS
<1>1. CASE movements' = movements
  <2>1. container' = container
    BY <1>1, Unrecorded
  <2>2. TypeOK' /\ WorksOnStored'
    BY <1>1, <2>1, IngestionTypes DEF HistoryInv, TypeOK
  <2>3. HasWinner(movements') /\ OneMovementPerEvent'
    BY <1>1 DEF HistoryInv, HasWinner, OneMovementPerEvent
  <2> QED
    BY <2>2, <2>3 DEF HistoryInv
<1>2. CASE movements' # movements
  <2>1. PICK m \in Movements :
           /\ movements' = Append(movements, m)
           /\ container' = Project(movements')
           /\ m.event # NoEvent => m.event \notin InterpretedEvents
    BY <1>2, Recorded
  <2>2. movements' \in Seq(Movements) /\ container' \in Claims /\ HasWinner(movements')
    BY <2>1, RecordStep
  <2>3. container' \in [place : Maybe(Places), source : Sources \cup {NoSource}, at : 0 .. MaxTime]
    BY <2>2, BoundsAreNaturals DEF Claims, Times
  <2>4. TypeOK' /\ WorksOnStored'
    BY <2>2, <2>3, IngestionTypes DEF TypeOK
  <2>5. OneMovementPerEvent'
    BY <2>1, UniqueStep
  <2> QED
    BY <2>2, <2>4, <2>5 DEF HistoryInv
<1> QED
  BY <1>1, <1>2

(***************************************************************************)
(* Every step keeps the invariant: what is not a recording leaves the row  *)
(* alone, and a recording projects.                                        *)
(***************************************************************************)
LEMMA IInvStep == IInv /\ [Next]_vars => IInv'
<1> SUFFICES ASSUME IInv, [Next]_vars PROVE ProjectionIsWinner'
  BY HistoryStep DEF IInv
<1>1. CASE movements' = movements
  <2>1. container' = container
    BY <1>1, Unrecorded DEF IInv
  <2> QED
    BY <1>1, <2>1 DEF IInv, ProjectionIsWinner
<1>2. CASE movements' # movements
  BY <1>2, Recorded, RecordStep DEF IInv
<1> QED
  BY <1>1, <1>2

(***************************************************************************)
(* The strengthening that carries the theorems below.                      *)
(***************************************************************************)
LEMMA InductiveInvariant == Spec => []IInv
  BY InitIInv, IInvStep, PTL DEF Spec

(***************************************************************************)
(* The history, the row and the work of every worker are well typed.       *)
(***************************************************************************)
THEOREM TypeCorrect == Spec => []TypeOK
  BY InductiveInvariant, PTL DEF IInv, HistoryInv

(***************************************************************************)
(* The row of the container shows the winning movement, in every reachable *)
(* state, for any number of workers, events and movements.                 *)
(***************************************************************************)
THEOREM ProjectionHolds == Spec => []ProjectionIsWinner
  BY InductiveInvariant, PTL DEF IInv, HistoryInv

(***************************************************************************)
(* A tracking event never gets a second movement.                          *)
(***************************************************************************)
THEOREM EventsInterpretedOnce == Spec => []OneMovementPerEvent
  BY InductiveInvariant, PTL DEF IInv, HistoryInv

(***************************************************************************)
(* Late or weaker evidence never moves a container, and no step brings     *)
(* back an older position.                                                 *)
(***************************************************************************)
THEOREM LateEvidenceIsHarmless == Spec => MovesOnlyOnNewEvidence
<1> DEFINE MovesToClaim ==
       container' # container =>
          /\ Len(movements') = Len(movements) + 1
          /\ container' = Claim(movements'[Len(movements')])
<1>1. ASSUME IInv, [Next]_vars PROVE MovesToClaim
  <2>1. CASE movements' = movements
    BY <1>1, <2>1, Unrecorded DEF IInv
  <2>2. CASE movements' # movements
    <3>1. PICK m \in Movements :
             movements' = Append(movements, m) /\ container' = Project(movements')
      BY <1>1, <2>2, Recorded DEF IInv
    <3>2. container' # container => container' = Claim(m)
      BY <1>1, <3>1, RecordMoves
    <3>3. /\ movements \in Seq(Movements) /\ Len(movements') = Len(movements) + 1
          /\ movements'[Len(movements')] = m
      BY <1>1, <3>1 DEF IInv, HistoryInv, TypeOK
    <3> QED
      BY <3>2, <3>3
  <2> QED
    BY <2>1, <2>2
<1>2. IInv /\ [Next]_vars => [MovesToClaim]_vars
  BY <1>1
<1> QED
  BY <1>2, InductiveInvariant, PTL DEF Spec, MovesOnlyOnNewEvidence

(***************************************************************************)
(* Each recorded movement is an Accept step of the ledger: the winner of   *)
(* the history is a strongest claim of the set of claims.                  *)
(***************************************************************************)
LEMMA WinnerIsStrongest ==
  ASSUME NEW ms \in Seq(Movements), NEW i \in DOMAIN ms, Wins(ms, i)
  PROVE  Claim(ms[i]) \in Ledger!Strongest({Claim(ms[j]) : j \in DOMAIN ms})
<1> SUFFICES ASSUME NEW j \in DOMAIN ms PROVE ~ Ledger!Outranks(Claim(ms[j]), Claim(ms[i]))
  BY DEF Ledger!Strongest
<1>1. ms[i] \in Movements /\ ms[j] \in Movements
  OBVIOUS
<1>2. ms[i].at \in Nat /\ ms[j].at \in Nat
  BY <1>1 DEF Movements, Times
<1> DEFINE s == StrengthOf(ms[i].source)
           t == StrengthOf(ms[j].source)
<1>3. s \in Nat /\ t \in Nat
  BY Ranks
<1>4. i = j \/ Beats(ms, i, j)
  BY DEF Wins
<1>5. ms[i].at > ms[j].at \/ (ms[i].at = ms[j].at /\ (s > t \/ s = t))
  BY <1>4 DEF Beats
<1>6. /\ Claim(ms[i]).at = ms[i].at /\ Claim(ms[j]).at = ms[j].at
      /\ Claim(ms[i]).source = ms[i].source /\ Claim(ms[j]).source = ms[j].source
  BY DEF Claim
<1>7. Ledger!Outranks(Claim(ms[j]), Claim(ms[i])) <=>
         ms[j].at > ms[i].at \/ (ms[j].at = ms[i].at /\ t > s)
  BY <1>6 DEF Ledger!Outranks
<1> HIDE DEF s, t
<1> QED
  BY <1>2, <1>3, <1>5, <1>7

(***************************************************************************)
(* The history and its projection implement the ledger of claims, whose    *)
(* position does not depend on the order in which evidence arrived.        *)
(***************************************************************************)
THEOREM Refinement == Spec => ImplementsPositionLedger
<1> DEFINE claims == {Claim(movements[i]) : i \in DOMAIN movements}
<1>1. Init => Ledger!Init
  BY DEF Init, Ledger!Init
<1>2. ASSUME IInv, [Next]_vars PROVE Ledger!Next \/ UNCHANGED <<claims, container>>
  <2>1. CASE movements' = movements
    BY <1>2, <2>1, Unrecorded DEF IInv
  <2>2. CASE movements' # movements
    <3>1. PICK m \in Movements :
             movements' = Append(movements, m) /\ container' = Project(movements')
      BY <1>2, <2>2, Recorded DEF IInv
    <3>2. PICK i \in DOMAIN movements' :
             Wins(movements', i) /\ container' = Claim(movements'[i])
      BY <1>2, <3>1, RecordStep DEF IInv
    <3>3. movements' \in Seq(Movements) /\ movements \in Seq(Movements)
      BY <1>2, <3>1, RecordStep DEF IInv, HistoryInv, TypeOK
    <3>4. container' \in Ledger!Strongest(claims')
      BY <3>2, <3>3, WinnerIsStrongest
    <3>5. claims' = claims \cup {Claim(m)}
      <4> DEFINE n == Len(movements) + 1
      <4>1. /\ n \in Nat \ {0} /\ DOMAIN movements = 1 .. n - 1 /\ DOMAIN movements' = 1 .. n
            /\ movements'[n] = m /\ \A j \in 1 .. n - 1 : movements'[j] = movements[j]
        BY <3>1, <3>3
      <4>2. 1 .. n = (1 .. n - 1) \cup {n}
        BY <4>1
      <4> HIDE DEF n
      <4> QED
        BY <4>1, <4>2
    <3>6. Claim(m) \in Claims
      BY DEF Claim, Claims, Movements
    <3> HIDE DEF claims
    <3>7. Ledger!Accept(Claim(m))
      BY <3>4, <3>5 DEF Ledger!Accept, claims
    <3> QED
      BY <3>6, <3>7 DEF Ledger!Next
  <2> QED
    BY <2>1, <2>2
<1>3. IInv /\ [Next]_vars => [Ledger!Next]_<<claims, container>>
  BY <1>2
<1> QED
  BY <1>1, <1>3, InductiveInvariant, PTL DEF Spec, ImplementsPositionLedger, Ledger!Spec
-------------------------------------------------------------------------------
(***************************************************************************)
(* What an edit form has loaded: the row of the container.                 *)
(***************************************************************************)
Rows == [place : Maybe(Places), source : Sources \cup {NoSource}, at : 0 .. MaxTime]

Drafts == [loaded : Rows, since : Nat, place : Maybe(Places), saved : BOOLEAN]

(***************************************************************************)
(* The row a movement history accounts for.                                *)
(***************************************************************************)
Shows(row, ms) == ms # <<>> => row = Claim(StateMovement(ms))

(***************************************************************************)
(* A form loaded after the latest movement has a row that agrees with the  *)
(* history, unless the row was overwritten before it was loaded; none was  *)
(* loaded after a movement that is yet to come.                            *)
(***************************************************************************)
LoadedInTime ==
    \A u \in Editors : draft[u] # NoDraft =>
        /\ draft[u].since \in 0 .. Len(movements)
        /\ ~ Outdated(u) /\ ~ overwritten => Shows(draft[u].loaded, movements)

EditIInv ==
    /\ HistoryInv
    /\ draft \in [Editors -> Drafts \cup {NoDraft}]
    /\ overwritten \in BOOLEAN
    /\ LoadedInTime
    /\ DriftsOnlyByStaleForms

(***************************************************************************)
(* An adjustment from the form is one more movement made by hand, whatever *)
(* the row of the container shows by then.                                 *)
(***************************************************************************)
LEMMA AdjustmentRecords ==
  ASSUME EditIInv, NEW u \in Editors, AdjustPosition(u)
  PROVE  \E m \in Movements :
            /\ movements' = Append(movements, m)
            /\ container' = Project(movements')
            /\ m.event = NoEvent
<1>1. draft[u] \in Drafts
  BY DEF EditIInv, AdjustPosition
<1> DEFINE source == IF draft[u].loaded.source = NoSource
                       THEN "MANUAL" ELSE draft[u].loaded.source
           m(at) == [to |-> draft[u].place, source |-> source, at |-> at, event |-> NoEvent]
<1>2. PICK at \in Times : Record("MANUAL_ADJUSTMENT", NoPlace, m(at))
  BY DEF AdjustPosition, RecordByHand
<1>3. m(at) \in Movements
  BY <1>1 DEF Drafts, Rows, Movements, Sources
<1> QED
  BY <1>2, <1>3 DEF Record

(***************************************************************************)
(* A movement of any origin outdates every form that is open, and leaves   *)
(* the row at the winner.                                                  *)
(***************************************************************************)
LEMMA MovementOutdates ==
  ASSUME EditIInv, NEW m \in Movements, movements' = Append(movements, m),
         container' = Project(movements'), overwritten' = FALSE,
         NEW v \in Editors, draft' = draft \/ draft' = [draft EXCEPT ![v] = NoDraft]
  PROVE  LoadedInTime' /\ DriftsOnlyByStaleForms' /\ overwritten' \in BOOLEAN
<1>1. movements \in Seq(Movements)
  BY DEF EditIInv, HistoryInv, TypeOK
<1>2. Len(movements') = Len(movements) + 1
  BY <1>1
<1>3. ASSUME NEW u \in Editors, draft'[u] # NoDraft
      PROVE  draft'[u] = draft[u] /\ draft[u] # NoDraft
  BY <1>3 DEF EditIInv
<1>4. ASSUME NEW u \in Editors, draft'[u] # NoDraft
      PROVE  draft'[u].since \in 0 .. Len(movements') /\ Outdated(u)'
  <2>1. draft[u].since \in 0 .. Len(movements)
    BY <1>3, <1>4 DEF EditIInv, LoadedInTime
  <2>2. Len(movements) \in Nat
    BY <1>1
  <2> QED
    BY <2>1, <2>2, <1>2, <1>3, <1>4 DEF Outdated
<1>5. LoadedInTime'
  BY <1>4 DEF LoadedInTime
<1>6. ProjectionIsWinner'
  BY DEF ProjectionIsWinner, Project
<1> QED
  BY <1>5, <1>6 DEF DriftsOnlyByStaleForms

(***************************************************************************)
(* Saving the whole row over another one, or dying after it, leaves the    *)
(* history sound; so does the adjustment.                                  *)
(***************************************************************************)
LEMMA EditStep == EditIInv /\ [EditNext]_editVars => EditIInv'
<1> SUFFICES ASSUME EditIInv, [EditNext]_editVars PROVE EditIInv'
  OBVIOUS
<1> USE DEF EditIInv
<1>1. ASSUME MoveOn \/ UNCHANGED editVars PROVE EditIInv'
  <2>1. HistoryInv' /\ draft' = draft
    BY <1>1, HistoryStep DEF editVars, MoveOn
  <2>2. ASSUME movements' # movements PROVE EditIInv'
    <3>1. MoveOn
      BY <1>1, <2>2 DEF editVars, vars
    <3>2. PICK m \in Movements : movements' = Append(movements, m) /\ container' = Project(movements')
      BY <2>2, <3>1, Recorded DEF MoveOn
    <3>3. overwritten' = FALSE
      BY <2>2, <3>1 DEF MoveOn
    <3>4. CASE Editors # {}
      <4>1. PICK v \in Editors : TRUE
        BY <3>4
      <4> QED
        BY <2>1, <3>2, <3>3, <4>1, MovementOutdates
    <3>5. CASE Editors = {}
      BY <2>1, <3>2, <3>3, <3>5
         DEF LoadedInTime, DriftsOnlyByStaleForms, ProjectionIsWinner, Project
    <3> QED
      BY <3>4, <3>5
  <2>3. ASSUME movements' = movements PROVE EditIInv'
    <3>1. container' = container
      BY <1>1, <2>3, Unrecorded DEF MoveOn, editVars, vars
    <3>2. overwritten' = overwritten
      BY <1>1, <2>3 DEF MoveOn, editVars
    <3> QED
      BY <2>1, <2>3, <3>1, <3>2
         DEF LoadedInTime, DriftsOnlyByStaleForms, ProjectionIsWinner, Outdated, Shows
  <2> QED
    BY <2>2, <2>3
<1>2. ASSUME NEW u \in Editors, LoadForm(u) PROVE EditIInv'
  <2>1. HistoryInv' /\ UNCHANGED <<movements, container, overwritten>>
    BY <1>2, HistoryStep DEF LoadForm, vars
  <2>2. container \in Rows /\ Len(movements) \in Nat
    BY DEF HistoryInv, TypeOK, Rows
  <2> DEFINE opened(place) == [loaded |-> container, since |-> Len(movements),
                               place |-> place, saved |-> FALSE]
  <2>3. PICK place \in Maybe(Places) : draft' = [draft EXCEPT ![u] = opened(place)]
    BY <1>2 DEF LoadForm
  <2>4. opened(place) \in Drafts
    BY <2>2 DEF Drafts
  <2>5. draft' \in [Editors -> Drafts \cup {NoDraft}]
    BY <2>3, <2>4
  <2>6. ~ overwritten => Shows(container, movements)
    BY DEF DriftsOnlyByStaleForms, ProjectionIsWinner, Shows
  <2>7. draft'[u] = opened(place) /\ \A v \in Editors \ {u} : draft'[v] = draft[v]
    BY <2>3
  <2>8. draft'[u].loaded = container /\ draft'[u].since = Len(movements)
    BY <2>7
  <2> HIDE DEF opened
  <2>9. LoadedInTime'
    BY <2>1, <2>2, <2>6, <2>7, <2>8 DEF LoadedInTime, Outdated, Shows
  <2>10. DriftsOnlyByStaleForms'
    BY <2>1 DEF DriftsOnlyByStaleForms, ProjectionIsWinner
  <2> QED
    BY <2>1, <2>5, <2>9, <2>10
<1>3. ASSUME NEW u \in Editors, SaveRow(u) PROVE EditIInv'
  <2>1. draft[u] \in Drafts
    BY <1>3 DEF SaveRow
  <2>2. container' \in Rows
    BY <1>3, <2>1 DEF SaveRow, Drafts
  <2>3. HistoryInv'
    BY <1>3, <2>2 DEF SaveRow, ingestion, HistoryInv, TypeOK, WorksOnStored,
                      HasWinner, OneMovementPerEvent, Rows
  <2>4. [draft[u] EXCEPT !.saved = TRUE] \in Drafts
    BY <2>1 DEF Drafts
  <2>5. draft' \in [Editors -> Drafts \cup {NoDraft}]
    BY <1>3, <2>4 DEF SaveRow, Discard
  <2>6. movements' = movements /\ overwritten' = (overwritten \/ Outdated(u))
    BY <1>3 DEF SaveRow
  <2>7. ASSUME NEW v \in Editors, draft'[v] # NoDraft
        PROVE  /\ draft[v] # NoDraft
               /\ draft'[v].since = draft[v].since /\ draft'[v].loaded = draft[v].loaded
    <3>1. CASE v # u
      BY <1>3, <2>7, <3>1 DEF SaveRow, Discard
    <3>2. CASE v = u
      <4>1. draft' = [draft EXCEPT ![u].saved = TRUE]
        BY <1>3, <2>7, <3>2 DEF SaveRow, Discard
      <4>2. draft'[u] = [draft[u] EXCEPT !.saved = TRUE]
        BY <4>1
      <4> QED
        BY <1>3, <2>1, <3>2, <4>2 DEF SaveRow, Drafts
    <3> QED
      BY <3>1, <3>2
  <2>8. LoadedInTime'
    BY <2>6, <2>7 DEF LoadedInTime, Outdated, Shows
  <2>9. DriftsOnlyByStaleForms'
    <3>1. ~ overwritten /\ ~ Outdated(u) => Shows(draft[u].loaded, movements)
      BY <1>3 DEF SaveRow, LoadedInTime
    <3>2. container' = draft[u].loaded
      BY <1>3 DEF SaveRow
    <3> QED
      BY <2>6, <3>1, <3>2 DEF DriftsOnlyByStaleForms, ProjectionIsWinner, Shows
  <2>10. overwritten' \in BOOLEAN
    BY <2>6 DEF Outdated
  <2> QED
    BY <2>3, <2>5, <2>8, <2>9, <2>10
<1>4. ASSUME NEW u \in Editors, AdjustPosition(u) PROVE EditIInv'
  <2>1. PICK m \in Movements :
           movements' = Append(movements, m) /\ container' = Project(movements') /\ m.event = NoEvent
    BY <1>4, AdjustmentRecords
  <2>2. movements' \in Seq(Movements) /\ container' \in Claims /\ HasWinner(movements')
    BY <2>1, RecordStep
  <2>3. OneMovementPerEvent'
    BY <2>1, UniqueStep
  <2>4. container' \in Rows
    BY <2>2, BoundsAreNaturals DEF Claims, Times, Rows
  <2>5. HistoryInv'
    BY <1>4, <2>2, <2>3, <2>4 DEF AdjustPosition, ingestion, HistoryInv, TypeOK,
                                  WorksOnStored, Rows
  <2>6. draft' \in [Editors -> Drafts \cup {NoDraft}]
    BY <1>4 DEF AdjustPosition, Discard
  <2>7. overwritten' = FALSE /\ draft' = [draft EXCEPT ![u] = NoDraft]
    BY <1>4 DEF AdjustPosition, Discard
  <2>8. LoadedInTime' /\ DriftsOnlyByStaleForms' /\ overwritten' \in BOOLEAN
    BY <2>1, <2>7, MovementOutdates
  <2> QED
    BY <2>5, <2>6, <2>8
<1>5. ASSUME NEW u \in Editors, EditInterrupted(u) PROVE EditIInv'
  <2>1. HistoryInv' /\ UNCHANGED <<movements, container, overwritten>>
    BY <1>5, BoundsAreNaturals DEF EditInterrupted, history, ingestion, HistoryInv,
             TypeOK, WorksOnStored, HasWinner, OneMovementPerEvent
  <2>2. draft' = [draft EXCEPT ![u] = NoDraft]
    BY <1>5 DEF EditInterrupted, Discard
  <2>3. LoadedInTime'
    BY <2>1, <2>2 DEF LoadedInTime, Outdated, Shows
  <2>4. DriftsOnlyByStaleForms'
    BY <2>1 DEF DriftsOnlyByStaleForms, ProjectionIsWinner
  <2> QED
    BY <2>1, <2>2, <2>3, <2>4
<1> QED
  BY <1>1, <1>2, <1>3, <1>4, <1>5 DEF EditNext

LEMMA EditInductiveInvariant == EditSpec => []EditIInv
<1>1. EditInit => EditIInv
  BY InitIInv DEF EditInit, EditIInv, IInv, LoadedInTime, DriftsOnlyByStaleForms
<1> QED
  BY <1>1, EditStep, PTL DEF EditSpec

(***************************************************************************)
(* However many edit forms save stale rows over the container, and         *)
(* wherever they die, an event has one movement and a history that is not  *)
(* empty has a winner to project.                                          *)
(***************************************************************************)
THEOREM HistorySurvivesEdits ==
  EditSpec => [](OneMovementPerEvent /\ HasWinner(movements))
  BY EditInductiveInvariant, PTL DEF EditIInv, HistoryInv

(***************************************************************************)
(* The row of a container leaves its history only when a form loaded       *)
(* before the latest movement is saved after it, for any editors, workers  *)
(* and events and however their transactions interleave.                   *)
(***************************************************************************)
THEOREM EditsDriftOnlyWhenStale == EditSpec => []DriftsOnlyByStaleForms
  BY EditInductiveInvariant, PTL DEF EditIInv
===============================================================================
