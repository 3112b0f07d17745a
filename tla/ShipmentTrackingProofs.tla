------------------------ MODULE ShipmentTrackingProofs ------------------------
(***************************************************************************)
(* Proofs about ShipmentTracking, for any number of watches, requests and  *)
(* forecasts.                                                              *)
(*                                                                         *)
(* A sync decides by an old instance whether a forecast moved, and the row *)
(* may be saved from any instance.  So not only the row's ETA has to be    *)
(* accounted for, but that of every instance somebody holds, as long as it *)
(* may still decide that there is nothing to record (InstancesOnRecord).   *)
(***************************************************************************)
EXTENDS ShipmentTracking, TLAPS

Accounted == OnRecord \cup unrecorded

Relied(h) == h.step \in {"loaded", "storing", "eta"} \/ (h.step = "save" /\ ~h.moved)

InstancesOnRecord ==
    \A a \in Actors :
        held[a] # None /\ Relied(held[a]) /\ held[a].shipment.eta # None =>
            held[a].shipment.eta \in Accounted

SavesForecast ==
    \A a \in Actors :
        At(a, "save") \/ At(a, "record") =>
            /\ a \in Syncs
            /\ held[a].forecast \in Etas
            /\ held[a].shipment.eta = held[a].forecast

IInv == TypeOK /\ EtaIsOnRecord /\ InstancesOnRecord /\ SavesForecast

LEMMA DraftIsShipment == Draft \in Shipments
<1>1. "DRAFT" \in Statuses
    BY DEF Statuses
<1> QED BY <1>1 DEF Draft, Shipments, MaybeEta

LEMMA InitIInv == Init => IInv
<1> SUFFICES ASSUME Init PROVE IInv
    OBVIOUS
<1>1. row \in Shipments /\ row.eta = None
    BY DraftIsShipment DEF Init, Draft
<1>2. events \in Known
    BY DEF Init, Known, MaybeEta
<1>3. \A a \in Actors : held[a] = None
    BY DEF Init
<1>4. held \in [Actors -> Held \cup {None}]
    BY DEF Init
<1>5. received \in {"none", "some", "all"} /\ history \in MaybeEta
    BY DEF Init, MaybeEta
<1>6. /\ linked \in BOOLEAN /\ watching \in SUBSET Syncs
      /\ recorded \in SUBSET Etas /\ unrecorded \in SUBSET Etas
    BY DEF Init
<1>7. acts \in 0 .. MaxActs
    BY ShipmentConstants DEF Init
<1> QED BY <1>1, <1>2, <1>3, <1>4, <1>5, <1>6, <1>7
        DEF IInv, TypeOK, EtaIsOnRecord, InstancesOnRecord, SavesForecast, At

(***************************************************************************)
(* What is held is an instance, and has the fields of one.                 *)
(***************************************************************************)
LEMMA HeldType ==
    ASSUME NEW h \in Held
    PROVE  /\ h.step \in Steps /\ h.shipment \in Shipments /\ h.forecast \in MaybeEta
           /\ h.moved \in BOOLEAN /\ h.own \in BOOLEAN /\ h.late \in BOOLEAN
           /\ h.shipment.departed \in BOOLEAN /\ h.shipment.arrived \in BOOLEAN
           /\ h.shipment.eta \in MaybeEta /\ h.shipment.status \in Statuses
           /\ h # None
BY NoneIsNoInstance DEF Held, Shipments

LEMMA Loaded ==
    ASSUME TypeOK, NEW a \in Actors, held[a] # None
    PROVE  held[a] \in Held
BY DEF TypeOK

LEMMA LoadType ==
    ASSUME NEW ship \in Shipments, NEW step \in Steps
    PROVE  /\ Load(ship) \in Held /\ Load(ship).shipment = ship /\ Load(ship).step = "loaded"
           /\ Left(ship, step) \in Held /\ Left(ship, step).shipment = ship
           /\ Left(ship, step).step = step
BY DEF Load, Left, Held, Steps, MaybeEta

(***************************************************************************)
(* The status that is computed is one.                                     *)
(***************************************************************************)
LEMMA StatusOfIsStatus ==
    ASSUME NEW ship \in Shipments
    PROVE  StatusOf(ship) \in Statuses
BY DEF StatusOf, Shipments, Statuses

(***************************************************************************)
(* The step of one actor: what it holds next and what it leaves in the row *)
(* is accounted for, and so is what it was about to record.  Of the others *)
(* only the order of their history rows may change.                        *)
(***************************************************************************)
LEMMA Move ==
    ASSUME IInv, NEW a \in Actors, NEW h \in Held \cup {None},
           held' = [b \in Actors |-> held'[b]], held'[a] = h,
           \A b \in Actors \ {a} :
               \/ held'[b] = held[b]
               \/ held[b] # None /\ held'[b] = [held[b] EXCEPT !.late = TRUE],
           recorded \subseteq recorded', recorded' \in SUBSET Etas,
           unrecorded \subseteq unrecorded', unrecorded' \in SUBSET Etas,
           At(a, "record") => held[a].forecast \in recorded' \cup unrecorded',
           h # None /\ h.step \in {"save", "record"} =>
               a \in Syncs /\ h.forecast \in Etas /\ h.shipment.eta = h.forecast,
           h # None /\ Relied(h) /\ h.shipment.eta # None => h.shipment.eta \in Accounted,
           \/ row'.eta = None
           \/ row'.eta \in Accounted
           \/ row'.eta \in recorded' \cup unrecorded'
           \/ h # None /\ h.step = "record" /\ h.forecast = row'.eta
    PROVE  /\ held' \in [Actors -> Held \cup {None}]
           /\ EtaIsOnRecord' /\ InstancesOnRecord' /\ SavesForecast'
<1>1. \A b \in Actors \ {a} :
          /\ held'[b] \in Held \cup {None}
          /\ held'[b] = None <=> held[b] = None
          /\ held[b] # None =>
                /\ held'[b].step = held[b].step /\ held'[b].shipment = held[b].shipment
                /\ held'[b].forecast = held[b].forecast /\ held'[b].moved = held[b].moved
    <2> SUFFICES ASSUME NEW b \in Actors \ {a}
                 PROVE  /\ held'[b] \in Held \cup {None}
                        /\ held'[b] = None <=> held[b] = None
                        /\ held[b] # None =>
                              /\ held'[b].step = held[b].step
                              /\ held'[b].shipment = held[b].shipment
                              /\ held'[b].forecast = held[b].forecast
                              /\ held'[b].moved = held[b].moved
        OBVIOUS
    <2>1. CASE held'[b] = held[b]
        BY <2>1 DEF IInv, TypeOK
    <2>2. CASE held[b] # None /\ held'[b] = [held[b] EXCEPT !.late = TRUE]
        <3>1. held[b] \in Held
            BY <2>2, Loaded DEF IInv
        <3>2. [held[b] EXCEPT !.late = TRUE] \in Held
            BY <3>1 DEF Held
        <3>3. held'[b] # None
            BY <2>2, <3>2, NoneIsNoInstance
        <3> QED BY <2>2, <3>1, <3>2, <3>3 DEF Held
    <2> QED BY <2>1, <2>2
<1>2. held' \in [Actors -> Held \cup {None}]
    BY <1>1
<1>3. \A eta : eta \in Accounted => eta \in Accounted'
    <2> SUFFICES ASSUME NEW eta, eta \in Accounted PROVE eta \in Accounted'
        OBVIOUS
    <2>1. CASE eta \in unrecorded \cup recorded
        BY <2>1 DEF Accounted, OnRecord
    <2>2. ASSUME NEW s \in Syncs, At(s, "record"), held[s].forecast = eta
          PROVE  eta \in Accounted'
        <3>1. CASE s = a
            BY <2>2, <3>1 DEF Accounted, OnRecord
        <3>2. CASE s # a
            <4>1. At(s, "record")' /\ held'[s].forecast = eta
                BY <1>1, <2>2, <3>2 DEF At, Actors
            <4> QED BY <4>1 DEF Accounted, OnRecord
        <3> QED BY <3>1, <3>2
    <2> QED BY <2>1, <2>2 DEF Accounted, OnRecord
<1>4. \A eta \in recorded' \cup unrecorded' : eta \in Accounted'
    BY DEF Accounted, OnRecord
<1>5. h # None /\ h.step = "record" => h.forecast \in Accounted'
    BY DEF Accounted, OnRecord, At
<1>6. EtaIsOnRecord'
    BY <1>3, <1>4, <1>5 DEF EtaIsOnRecord, Accounted
<1>7. InstancesOnRecord'
    <2> SUFFICES ASSUME NEW b \in Actors, held'[b] # None, Relied(held'[b]),
                        held'[b].shipment.eta # None
                 PROVE  held'[b].shipment.eta \in Accounted'
        BY DEF InstancesOnRecord, Relied
    <2>1. CASE b = a
        BY <1>3, <2>1
    <2>2. CASE b # a
        <3>1. /\ held[b] # None /\ held'[b].shipment = held[b].shipment
              /\ held'[b].moved = held[b].moved /\ held'[b].step = held[b].step
            BY <1>1, <2>2
        <3>2. Relied(held[b])
            BY <3>1 DEF Relied
        <3> QED BY <1>3, <3>1, <3>2 DEF IInv, InstancesOnRecord
    <2> QED BY <2>1, <2>2
<1>8. SavesForecast'
    <2> SUFFICES ASSUME NEW b \in Actors, At(b, "save")' \/ At(b, "record")'
                 PROVE  /\ b \in Syncs
                        /\ held'[b].forecast \in Etas
                        /\ held'[b].shipment.eta = held'[b].forecast
        BY DEF SavesForecast
    <2>1. CASE b = a
        BY <2>1 DEF At
    <2>2. CASE b # a
        BY <1>1, <2>2 DEF At, IInv, SavesForecast
    <2> QED BY <2>1, <2>2
<1> QED BY <1>2, <1>6, <1>7, <1>8

(***************************************************************************)
(* The same for a step that changes nothing of the others.                 *)
(***************************************************************************)
LEMMA HoldStep ==
    ASSUME IInv, NEW a \in Actors, NEW h \in Held \cup {None}, Hold(a, h),
           UNCHANGED recorded,
           unrecorded \subseteq unrecorded', unrecorded' \in SUBSET Etas,
           At(a, "record") => held[a].forecast \in unrecorded',
           h # None /\ h.step \in {"save", "record"} =>
               a \in Syncs /\ h.forecast \in Etas /\ h.shipment.eta = h.forecast,
           h # None /\ Relied(h) /\ h.shipment.eta # None => h.shipment.eta \in Accounted,
           \/ row'.eta = None
           \/ row'.eta \in Accounted
           \/ row'.eta \in unrecorded'
           \/ h # None /\ h.step = "record" /\ h.forecast = row'.eta
    PROVE  /\ held' \in [Actors -> Held \cup {None}]
           /\ EtaIsOnRecord' /\ InstancesOnRecord' /\ SavesForecast'
<1>1. /\ held' = [b \in Actors |-> held'[b]] /\ held'[a] = h
      /\ \A b \in Actors \ {a} : held'[b] = held[b]
    BY DEF Hold, IInv, TypeOK
<1>2. recorded \subseteq recorded' /\ recorded' \in SUBSET Etas
    BY DEF IInv, TypeOK
<1> QED BY <1>1, <1>2, Move

(***************************************************************************)
(* What is accounted for already.                                          *)
(***************************************************************************)
LEMMA RowAccounted ==
    ASSUME IInv
    PROVE  row.eta # None => row.eta \in Accounted
BY DEF IInv, EtaIsOnRecord, Accounted

LEMMA InstanceAccounted ==
    ASSUME IInv, NEW a \in Actors, held[a] # None, Relied(held[a])
    PROVE  held[a].shipment.eta # None => held[a].shipment.eta \in Accounted
BY DEF IInv, InstancesOnRecord

(***************************************************************************)
(* update_shipment_eta: the forecast is taken into the instance, from      *)
(* which the move was told.                                                *)
(***************************************************************************)
LEMMA UpdateEtaStep ==
    ASSUME IInv, NEW s \in Syncs, held[s] # None, held[s].step \notin {"save", "record"},
           Relied(held[s]) \/ held[s].shipment.eta = None,
           NEW previous, NEW new \in Etas, NEW own \in BOOLEAN,
           UpdateEta(s, previous, new, own), UNCHANGED <<row, trail>>
    PROVE  /\ held' \in [Actors -> Held \cup {None}]
           /\ EtaIsOnRecord' /\ InstancesOnRecord' /\ SavesForecast'
<1> DEFINE old == held[s].shipment.eta
           h == [held[s] EXCEPT !.step = "save", !.shipment.eta = new, !.forecast = new,
                                !.moved = Moved(old, previous, new),
                                !.own = own, !.late = FALSE]
<1>1. s \in Actors /\ held[s] \in Held
    BY Loaded DEF IInv, Actors
<1>2. held[s].shipment \in Shipments
    BY <1>1, HeldType
<1>3. [held[s].shipment EXCEPT !.eta = new] \in Shipments
    BY <1>2 DEF Shipments, MaybeEta
<1>4. Moved(old, previous, new) \in BOOLEAN /\ (~Moved(old, previous, new) => old = new)
    BY DEF Moved
<1>5. /\ h \in Held /\ h.step = "save" /\ h.forecast = new /\ h.shipment.eta = new
      /\ h.moved = Moved(old, previous, new)
    <2> DEFINE moved == Moved(old, previous, new)
               ship == [held[s].shipment EXCEPT !.eta = new]
    <2>1. h = [held[s] EXCEPT !.step = "save", !.shipment = ship, !.forecast = new,
                              !.moved = moved, !.own = own, !.late = FALSE]
        BY <1>1 DEF Held
    <2>2. ship \in Shipments /\ ship.eta = new /\ moved \in BOOLEAN
        BY <1>2, <1>3, <1>4 DEF Shipments
    <2>3. new \in MaybeEta /\ "save" \in Steps
        BY DEF MaybeEta, Steps
    <2> HIDE DEF ship, moved, h
    <2> QED BY <1>1, <2>1, <2>2, <2>3 DEF Held, moved
<1>6. Hold(s, h)
    BY DEF UpdateEta
<1>7. new # None /\ (old # None => old \in Accounted)
    BY <1>1, InstanceAccounted, ShipmentConstants
<1>8. UNCHANGED <<recorded, unrecorded, row>> /\ unrecorded' \in SUBSET Etas
    BY DEF trail, IInv, TypeOK
<1>9. ~At(s, "record")
    BY DEF At
<1> HIDE DEF h, old
<1>10. Relied(h) => h.shipment.eta \in Accounted
    BY <1>4, <1>5, <1>7 DEF Relied
<1>11. row'.eta = None \/ row'.eta \in Accounted
    BY <1>8, RowAccounted
<1> QED BY <1>1, <1>5, <1>6, <1>8, <1>9, <1>10, <1>11, HoldStep

LEMMA ApplyMilestonesStep ==
    ASSUME IInv, NEW s \in Syncs, NEW ok \in BOOLEAN, ApplyMilestones(s, ok)
    PROVE  IInv'
<1> DEFINE ship == held[s].shipment
           seen == [ship EXCEPT !.departed = @ \/ events.departed,
                                !.arrived = @ \/ events.arrived]
           estimate == IF events.arrived THEN None ELSE events.forecast
           next == IF ok THEN "eta" ELSE "finish"
           h == [held[s] EXCEPT !.step = next,
                                !.shipment.departed = @ \/ events.departed,
                                !.shipment.arrived = @ \/ events.arrived,
                                !.forecast = estimate]
<1>1. /\ s \in Actors /\ held[s] # None
      /\ held[s].step \notin {"save", "record"} /\ Relied(held[s])
    BY DEF ApplyMilestones, At, Actors, Relied
<1>2. held[s] \in Held /\ ship \in Shipments
    BY <1>1, Loaded, HeldType DEF IInv
<1>3. events \in Known
    BY DEF IInv, TypeOK
<1>4. seen \in Shipments /\ seen.eta = ship.eta
    <2>1. (ship.departed \/ events.departed) \in BOOLEAN
          /\ (ship.arrived \/ events.arrived) \in BOOLEAN
        OBVIOUS
    <2> QED BY <1>2, <2>1 DEF Shipments
<1>5. estimate \in MaybeEta /\ next \in Steps /\ next \notin {"save", "record"}
    BY <1>3 DEF Known, MaybeEta, Steps
<1>6. h = [held[s] EXCEPT !.step = next, !.shipment = seen, !.forecast = estimate]
    BY <1>2 DEF Held, Shipments
<1>7. Hold(s, h)
    BY DEF ApplyMilestones
<1>8. ship.eta # None => ship.eta \in Accounted
    BY <1>1, InstanceAccounted
<1>9. row' \in Shipments /\ row'.eta = row.eta
    <2>1. row \in Shipments
        BY DEF IInv, TypeOK
    <2>2. row.departed \in BOOLEAN /\ row.arrived \in BOOLEAN
        BY <2>1 DEF Shipments
    <2>3. Milestone(ship.departed, events.departed, row.departed) \in BOOLEAN
          /\ Milestone(ship.arrived, events.arrived, row.arrived) \in BOOLEAN
        BY <2>2 DEF Milestone
    <2>4. \/ row' = [row EXCEPT
              !.departed = Milestone(ship.departed, events.departed, row.departed),
              !.arrived = Milestone(ship.arrived, events.arrived, row.arrived)]
          \/ row' = row
        BY DEF ApplyMilestones
    <2> QED BY <2>1, <2>3, <2>4 DEF Shipments
<1>10. UNCHANGED <<events, linked, received, history, recorded, unrecorded, watching, acts>>
       /\ unrecorded' \in SUBSET Etas
    BY DEF ApplyMilestones, trail, IInv, TypeOK
<1> HIDE DEF ship, seen, estimate, next
<1>11. h \in Held /\ h.step = next /\ h.shipment = seen
    BY <1>2, <1>4, <1>5, <1>6 DEF Held
<1> HIDE DEF h
<1>12. /\ held' \in [Actors -> Held \cup {None}]
       /\ EtaIsOnRecord' /\ InstancesOnRecord' /\ SavesForecast'
    <2>1. ~At(s, "record")
        BY <1>1 DEF At
    <2>2. row'.eta = None \/ row'.eta \in Accounted
        BY <1>9, RowAccounted
    <2> QED BY <1>1, <1>4, <1>5, <1>7, <1>8, <1>10, <1>11, <2>1, <2>2, HoldStep
<1> QED BY <1>9, <1>10, <1>12 DEF IInv, TypeOK

LEMMA ApplyEtaStep ==
    ASSUME IInv, NEW s \in Syncs, ApplyEta(s)
    PROVE  IInv'
<1> DEFINE ship == held[s].shipment
           new == held[s].forecast
<1>1. /\ s \in Actors /\ held[s] # None
      /\ held[s].step \notin {"save", "record"} /\ Relied(held[s])
    BY DEF ApplyEta, At, Actors, Relied
<1>2. held[s] \in Held /\ ship \in Shipments /\ new \in MaybeEta
    BY <1>1, Loaded, HeldType DEF IInv
<1>3. UNCHANGED <<events, linked, received, row, trail, watching, acts>>
    BY DEF ApplyEta
<1>4. /\ held' \in [Actors -> Held \cup {None}]
      /\ EtaIsOnRecord' /\ InstancesOnRecord' /\ SavesForecast'
    <2>1. CASE new = None \/ AlreadySaid(ship.eta, new)
        <3>1. Hold(s, Left(ship, "status"))
            BY <2>1 DEF ApplyEta
        <3>2. /\ Left(ship, "status") \in Held /\ Left(ship, "status").shipment = ship
              /\ Left(ship, "status").step = "status"
            BY <1>2, LoadType DEF Steps
        <3>3. ship.eta # None => ship.eta \in Accounted
            BY <1>1, InstanceAccounted
        <3>4. row'.eta = None \/ row'.eta \in Accounted
            BY <1>3, RowAccounted
        <3>5. UNCHANGED <<recorded, unrecorded>> /\ unrecorded' \in SUBSET Etas
            BY <1>3 DEF trail, IInv, TypeOK
        <3>6. ~At(s, "record")
            BY <1>1 DEF At
        <3> HIDE DEF ship
        <3> QED BY <1>1, <3>1, <3>2, <3>3, <3>4, <3>5, <3>6, HoldStep
    <2>2. CASE ~(new = None \/ AlreadySaid(ship.eta, new))
        <3>1. UpdateEta(s, history, new, FALSE) /\ new \in Etas
            BY <1>2, <2>2 DEF ApplyEta, MaybeEta
        <3> QED BY <1>1, <1>3, <3>1, UpdateEtaStep
    <2> QED BY <2>1, <2>2
<1> QED BY <1>3, <1>4 DEF IInv, TypeOK, trail

(***************************************************************************)
(* After an update of the ETA the run goes on with the instance it has.    *)
(***************************************************************************)
LEMMA OnwardsType ==
    ASSUME TypeOK, NEW s \in Actors, held[s] # None, NEW ok \in BOOLEAN
    PROVE  /\ Onwards(s, ok) \in Held \cup {None}
           /\ Onwards(s, ok) # None =>
                 /\ Onwards(s, ok).shipment = held[s].shipment
                 /\ Onwards(s, ok).step \in {"status", "finish"}
                 /\ ~Relied(Onwards(s, ok))
<1>1. held[s].shipment \in Shipments
    BY Loaded, HeldType
<1>2. \A step \in {"status", "finish"} :
          /\ Left(held[s].shipment, step) \in Held
          /\ Left(held[s].shipment, step).shipment = held[s].shipment
          /\ Left(held[s].shipment, step).step = step
    BY <1>1, LoadType DEF Steps
<1> QED BY <1>2 DEF Onwards, Relied

LEMMA SaveEtaStep ==
    ASSUME IInv, NEW s \in Syncs, NEW ok \in BOOLEAN, SaveEta(s, ok)
    PROVE  IInv'
<1> DEFINE next == IF ok /\ held[s].moved THEN [held[s] EXCEPT !.step = "record"]
                   ELSE Onwards(s, ok)
           new == held[s].forecast
<1>1. s \in Actors /\ held[s] # None /\ held[s].step = "save" /\ At(s, "save")
    BY DEF SaveEta, At, Actors
<1>2. held[s] \in Held
    BY <1>1, Loaded DEF IInv
<1>3. new \in Etas /\ held[s].shipment.eta = new /\ new # None
    BY <1>1, ShipmentConstants DEF IInv, SavesForecast
<1>4. ~held[s].moved => new \in Accounted
    BY <1>1, <1>3, InstanceAccounted DEF Relied
<1>5. Hold(s, next)
    BY DEF SaveEta
<1>6. UNCHANGED <<events, linked, received, history, recorded, unrecorded, watching, acts>>
      /\ unrecorded' \in SUBSET Etas
    BY DEF SaveEta, trail, IInv, TypeOK
<1>7. row' \in Shipments /\ row'.eta = (IF ok THEN new ELSE row.eta)
    <2>1. row \in Shipments
        BY DEF IInv, TypeOK
    <2> QED BY <1>3, <2>1 DEF SaveEta, Shipments, MaybeEta
<1>8. ~At(s, "record")
    BY <1>1 DEF At
<1>9. /\ held' \in [Actors -> Held \cup {None}]
      /\ EtaIsOnRecord' /\ InstancesOnRecord' /\ SavesForecast'
    <2>1. CASE ok /\ held[s].moved
        <3>1. /\ next \in Held /\ next.step = "record" /\ next.shipment = held[s].shipment
              /\ next.forecast = new /\ next # None /\ ~Relied(next)
            <4>1. next = [held[s] EXCEPT !.step = "record"]
                BY <2>1
            <4> QED BY <1>2, <4>1, NoneIsNoInstance DEF Held, Steps, Relied
        <3> HIDE DEF next, new
        <3> QED BY <1>1, <1>3, <1>5, <1>6, <1>7, <1>8, <2>1, <3>1, HoldStep
    <2>2. CASE ~(ok /\ held[s].moved)
        <3>1. next = Onwards(s, ok)
            BY <2>2
        <3>2. /\ next \in Held \cup {None}
              /\ next # None => /\ next.shipment = held[s].shipment
                                /\ next.step \in {"status", "finish"} /\ ~Relied(next)
            BY <1>1, <3>1, OnwardsType DEF IInv
        <3> HIDE DEF next
        <3>3. row'.eta = None \/ row'.eta \in Accounted
            BY <1>4, <1>7, <2>2, RowAccounted
        <3> QED BY <1>1, <1>3, <1>5, <1>6, <1>8, <3>2, <3>3, HoldStep
    <2> QED BY <2>1, <2>2
<1> QED BY <1>6, <1>7, <1>9 DEF IInv, TypeOK

(***************************************************************************)
(* The other updates under way.                                            *)
(***************************************************************************)
LEMMA OvertakenStep ==
    ASSUME TypeOK, NEW a \in Actors
    PROVE  /\ Overtaken(a) \in Held \cup {None}
           /\ \/ Overtaken(a) = held[a]
              \/ held[a] # None /\ Overtaken(a) = [held[a] EXCEPT !.late = TRUE]
<1>1. held[a] # None => [held[a] EXCEPT !.late = TRUE] \in Held
    BY Loaded DEF Held
<1> QED BY <1>1 DEF Overtaken, At, TypeOK

LEMMA RecordEtaStep ==
    ASSUME IInv, NEW s \in Syncs, NEW ok \in BOOLEAN, RecordEta(s, ok)
    PROVE  IInv'
<1> DEFINE next == Onwards(s, ok)
           new == held[s].forecast
<1>1. s \in Actors /\ held[s] # None /\ At(s, "record")
    BY DEF RecordEta, At, Actors
<1>2. new \in Etas
    BY <1>1 DEF IInv, SavesForecast
<1>3. /\ next \in Held \cup {None}
      /\ next # None => next.step \in {"status", "finish"} /\ ~Relied(next)
    BY <1>1, OnwardsType DEF IInv
<1>4. /\ recorded' = (IF ok THEN recorded \cup {new} ELSE recorded)
      /\ unrecorded' = (IF ok THEN unrecorded ELSE unrecorded \cup {new})
      /\ history' \in {history, new}
    BY <1>1 DEF RecordEta, CutOff
<1>5. UNCHANGED <<events, linked, received, row, watching, acts>>
    BY DEF RecordEta
<1>6. /\ held' = [b \in Actors |-> held'[b]] /\ held'[s] = next
      /\ \A b \in Actors \ {s} : held'[b] \in {held[b], Overtaken(b)}
    BY <1>1 DEF RecordEta
<1> HIDE DEF next, new
<1>7. \A b \in Actors \ {s} :
          \/ held'[b] = held[b]
          \/ held[b] # None /\ held'[b] = [held[b] EXCEPT !.late = TRUE]
    BY <1>6, OvertakenStep DEF IInv
<1>8. /\ recorded \subseteq recorded' /\ recorded' \in SUBSET Etas
      /\ unrecorded \subseteq unrecorded' /\ unrecorded' \in SUBSET Etas
      /\ held[s].forecast \in recorded' \cup unrecorded'
      /\ history' \in MaybeEta
    BY <1>2, <1>4 DEF IInv, TypeOK, MaybeEta, new
<1>9. row'.eta = None \/ row'.eta \in Accounted
    BY <1>5, RowAccounted
<1>10. /\ held' \in [Actors -> Held \cup {None}]
       /\ EtaIsOnRecord' /\ InstancesOnRecord' /\ SavesForecast'
    BY <1>1, <1>3, <1>6, <1>7, <1>8, <1>9, Move
<1> QED BY <1>5, <1>8, <1>10 DEF IInv, TypeOK

LEMMA ApplyStatusStep ==
    ASSUME IInv, NEW s \in Syncs, NEW ok \in BOOLEAN, ApplyStatus(s, ok)
    PROVE  IInv'
<1> DEFINE ship == held[s].shipment
           seen == [ship EXCEPT !.departed = FALSE, !.status = StatusOf(ship)]
           h == Left(seen, "finish")
<1>1. s \in Actors /\ held[s] # None /\ ~At(s, "record")
    BY DEF ApplyStatus, At, Actors
<1>2. ship \in Shipments
    BY <1>1, Loaded, HeldType DEF IInv
<1>3. StatusOf(ship) \in Statuses
    BY <1>2, StatusOfIsStatus
<1>4. seen \in Shipments
    BY <1>2, <1>3 DEF Shipments
<1>5. h \in Held /\ h.step = "finish" /\ ~Relied(h)
    BY <1>4, LoadType DEF Relied, Steps
<1>6. Hold(s, h)
    BY DEF ApplyStatus
<1>7. row' \in Shipments /\ row'.eta = row.eta
    <2>1. row \in Shipments
        BY DEF IInv, TypeOK
    <2>2. row' = row \/ row' = [row EXCEPT !.status = StatusOf(ship)]
        BY DEF ApplyStatus
    <2> QED BY <1>3, <2>1, <2>2 DEF Shipments
<1>8. UNCHANGED <<events, linked, received, history, recorded, unrecorded, watching, acts>>
      /\ unrecorded' \in SUBSET Etas
    BY DEF ApplyStatus, trail, IInv, TypeOK
<1>9. row'.eta = None \/ row'.eta \in Accounted
    BY <1>7, RowAccounted
<1> HIDE DEF ship, seen, h
<1>10. /\ held' \in [Actors -> Held \cup {None}]
       /\ EtaIsOnRecord' /\ InstancesOnRecord' /\ SavesForecast'
    BY <1>1, <1>5, <1>6, <1>8, <1>9, HoldStep
<1> QED BY <1>7, <1>8, <1>10 DEF IInv, TypeOK

(***************************************************************************)
(* An actor goes on with nothing, or with an instance whose ETA matters no *)
(* more or is the row's or the one it had; the row is left alone.          *)
(***************************************************************************)
LEMMA QuietStep ==
    ASSUME IInv, NEW a \in Actors, NEW h \in Held \cup {None}, Hold(a, h),
           UNCHANGED <<row, recorded>>,
           \/ ~At(a, "record") /\ UNCHANGED unrecorded
           \/ CutOff(a),
           h # None =>
               /\ h.step \notin {"save", "record"}
               /\ Relied(h) => \/ h.shipment.eta = row.eta
                               \/ /\ held[a] # None /\ Relied(held[a])
                                  /\ h.shipment.eta = held[a].shipment.eta
    PROVE  /\ held' \in [Actors -> Held \cup {None}] /\ unrecorded' \in SUBSET Etas
           /\ EtaIsOnRecord' /\ InstancesOnRecord' /\ SavesForecast'
<1>1. /\ unrecorded \subseteq unrecorded' /\ unrecorded' \in SUBSET Etas
      /\ At(a, "record") => held[a].forecast \in unrecorded'
    BY DEF CutOff, IInv, TypeOK, SavesForecast
<1>2. row'.eta = None \/ row'.eta \in Accounted
    BY RowAccounted
<1>3. h # None /\ Relied(h) /\ h.shipment.eta # None => h.shipment.eta \in Accounted
    BY RowAccounted, InstanceAccounted
<1> QED BY <1>1, <1>2, <1>3, HoldStep

LEMMA ObserveStep ==
    ASSUME IInv, NEW s \in Syncs, Observe(s)
    PROVE  IInv'
<1>1. /\ s \in Actors /\ held[s] # None
      /\ held[s].step \notin {"save", "record"} /\ ~At(s, "record")
    BY DEF Observe, At, Actors
<1>2. UNCHANGED <<events, linked, received, row, watching, acts>>
    BY DEF Observe
<1>3. PICK new \in Etas :
          IF held[s].shipment.eta = None
          THEN /\ \E previous \in recorded \cup {None} : UpdateEta(s, previous, new, TRUE)
               /\ UNCHANGED trail
          ELSE /\ history' = new
               /\ recorded' = recorded \cup {new}
               /\ UNCHANGED unrecorded
               /\ held' = [a \in Actors |-> IF a = s THEN None ELSE Overtaken(a)]
    BY DEF Observe
<1>4. CASE held[s].shipment.eta = None
    <2>1. PICK previous \in recorded \cup {None} : UpdateEta(s, previous, new, TRUE)
        BY <1>3, <1>4
    <2>2. /\ held' \in [Actors -> Held \cup {None}]
          /\ EtaIsOnRecord' /\ InstancesOnRecord' /\ SavesForecast'
        BY <1>1, <1>2, <1>3, <1>4, <2>1, UpdateEtaStep
    <2> QED BY <1>2, <1>3, <1>4, <2>2 DEF IInv, TypeOK, trail
<1>5. CASE held[s].shipment.eta # None
    <2>1. /\ held' = [b \in Actors |-> held'[b]] /\ held'[s] = None
          /\ \A b \in Actors \ {s} : held'[b] = Overtaken(b)
        BY <1>1, <1>3, <1>5
    <2>2. \A b \in Actors \ {s} :
              \/ held'[b] = held[b]
              \/ held[b] # None /\ held'[b] = [held[b] EXCEPT !.late = TRUE]
        BY <2>1, OvertakenStep DEF IInv
    <2>3. /\ recorded \subseteq recorded' /\ recorded' \in SUBSET Etas
          /\ unrecorded \subseteq unrecorded' /\ unrecorded' \in SUBSET Etas
          /\ history' \in MaybeEta
        BY <1>3, <1>5 DEF IInv, TypeOK, MaybeEta
    <2>4. row'.eta = None \/ row'.eta \in Accounted
        BY <1>2, RowAccounted
    <2>5. /\ held' \in [Actors -> Held \cup {None}]
          /\ EtaIsOnRecord' /\ InstancesOnRecord' /\ SavesForecast'
        BY <1>1, <2>1, <2>2, <2>3, <2>4, Move
    <2> QED BY <1>2, <2>3, <2>5 DEF IInv, TypeOK
<1> QED BY <1>4, <1>5

LEMMA SyncStep ==
    ASSUME IInv, NEW s \in Syncs, Sync(s)
    PROVE  IInv'
<1>0. s \in Actors
    BY DEF Actors
<1>1. CASE StartSync(s)
    <2>1. Load(row) \in Held /\ Load(row).shipment = row /\ Load(row).step = "loaded"
        BY LoadType DEF IInv, TypeOK, Steps
    <2>2. Hold(s, Load(row)) /\ ~At(s, "record")
          /\ UNCHANGED <<events, linked, received, row, trail, watching, acts>>
        BY <1>1 DEF StartSync, At
    <2>3. /\ held' \in [Actors -> Held \cup {None}] /\ unrecorded' \in SUBSET Etas
          /\ EtaIsOnRecord' /\ InstancesOnRecord' /\ SavesForecast'
        BY <1>0, <2>1, <2>2, QuietStep DEF trail
    <2> QED BY <2>2, <2>3 DEF IInv, TypeOK, trail
<1>2. CASE StoreEvents(s)
    <2> DEFINE h == [held[s] EXCEPT !.step = "storing"]
    <2>1. held[s] # None /\ Relied(held[s]) /\ ~At(s, "record")
        BY <1>2 DEF StoreEvents, At, Relied
    <2>2. h \in Held /\ h.step = "storing" /\ h.shipment = held[s].shipment
        BY <1>0, <2>1, Loaded DEF Held, Steps, IInv
    <2>3. /\ Hold(s, h) /\ UNCHANGED <<linked, received, row, trail, watching, acts>>
          /\ events' \in Known
        BY <1>2 DEF StoreEvents
    <2> HIDE DEF h
    <2>4. /\ held' \in [Actors -> Held \cup {None}] /\ unrecorded' \in SUBSET Etas
          /\ EtaIsOnRecord' /\ InstancesOnRecord' /\ SavesForecast'
        BY <1>0, <2>1, <2>2, <2>3, QuietStep DEF trail
    <2> QED BY <2>3, <2>4 DEF IInv, TypeOK, trail
<1>3. CASE AnswerWithout(s)
    <2> DEFINE h == [held[s] EXCEPT !.step = "finish"]
    <2>1. held[s] # None /\ ~At(s, "record")
        BY <1>3 DEF AnswerWithout, At
    <2>2. h \in Held /\ h.step = "finish" /\ ~Relied(h)
        BY <1>0, <2>1, Loaded DEF Held, Steps, IInv, Relied
    <2>3. Hold(s, h) /\ UNCHANGED <<events, linked, received, row, trail, watching, acts>>
        BY <1>3 DEF AnswerWithout
    <2> HIDE DEF h
    <2>4. /\ held' \in [Actors -> Held \cup {None}] /\ unrecorded' \in SUBSET Etas
          /\ EtaIsOnRecord' /\ InstancesOnRecord' /\ SavesForecast'
        BY <1>0, <2>1, <2>2, <2>3, QuietStep DEF trail
    <2> QED BY <2>3, <2>4 DEF IInv, TypeOK, trail
<1>4. CASE Fail(s)
    <2>1. /\ held' \in [Actors -> Held \cup {None}] /\ unrecorded' \in SUBSET Etas
          /\ EtaIsOnRecord' /\ InstancesOnRecord' /\ SavesForecast'
        BY <1>0, <1>4, QuietStep DEF Fail, Drop
    <2> QED BY <1>4, <2>1 DEF Fail, IInv, TypeOK
<1>5. CASE FinishSync(s)
    <2> DEFINE ship == held[s].shipment
    <2>1. held[s] # None /\ ~At(s, "record")
        BY <1>5 DEF FinishSync, At
    <2>2. ship \in Shipments
        BY <1>0, <2>1, Loaded, HeldType DEF IInv
    <2>3. /\ Left(ship, "observe") \in Held /\ Left(ship, "observe").step = "observe"
          /\ ~Relied(Left(ship, "observe"))
        BY <2>2, LoadType DEF Relied, Steps
    <2>4. /\ Hold(s, Left(ship, "observe")) \/ Hold(s, None)
          /\ UNCHANGED <<events, linked, received, row, trail, acts>>
          /\ watching' \in SUBSET Syncs
        BY <1>5 DEF FinishSync, Drop, IInv, TypeOK
    <2> HIDE DEF ship
    <2>5. /\ held' \in [Actors -> Held \cup {None}] /\ unrecorded' \in SUBSET Etas
          /\ EtaIsOnRecord' /\ InstancesOnRecord' /\ SavesForecast'
        BY <1>0, <2>1, <2>3, <2>4, QuietStep DEF trail
    <2> QED BY <2>4, <2>5 DEF IInv, TypeOK, trail
<1>6. CASE EndSync(s)
    <2>1. ~At(s, "record") /\ Hold(s, None)
          /\ UNCHANGED <<events, linked, received, row, trail, watching, acts>>
        BY <1>6 DEF EndSync, At, Drop
    <2>2. /\ held' \in [Actors -> Held \cup {None}] /\ unrecorded' \in SUBSET Etas
          /\ EtaIsOnRecord' /\ InstancesOnRecord' /\ SavesForecast'
        BY <1>0, <2>1, QuietStep DEF trail
    <2> QED BY <2>1, <2>2 DEF IInv, TypeOK, trail
<1> QED BY <1>1, <1>2, <1>3, <1>4, <1>5, <1>6, ApplyMilestonesStep, ApplyEtaStep, SaveEtaStep,
           RecordEtaStep, ApplyStatusStep, ObserveStep DEF Sync

LEMMA PeopleStep ==
    ASSUME IInv, PeopleAct
    PROVE  IInv'
<1>1. ASSUME NEW p \in People, StartRequest(p)
      PROVE  IInv'
    <2>1. /\ Load(row) \in Held /\ Load(row).shipment = row /\ Load(row).step = "loaded"
          /\ p \in Actors
        BY LoadType DEF IInv, TypeOK, Steps, Actors
    <2>2. /\ Hold(p, Load(row)) /\ ~At(p, "record")
          /\ UNCHANGED <<events, linked, received, row, trail, watching>>
        BY <1>1 DEF StartRequest, At
    <2>3. /\ held' \in [Actors -> Held \cup {None}] /\ unrecorded' \in SUBSET Etas
          /\ EtaIsOnRecord' /\ InstancesOnRecord' /\ SavesForecast'
        BY <2>1, <2>2, QuietStep DEF trail
    <2>4. acts' \in 0 .. MaxActs
        BY <1>1, ShipmentConstants DEF StartRequest, IInv, TypeOK
    <2> QED BY <2>2, <2>3, <2>4 DEF IInv, TypeOK, trail
<1>2. ASSUME NEW p \in People, SaveForm(p)
      PROVE  IInv'
    <2>1. p \in Actors /\ held[p] # None /\ Relied(held[p]) /\ ~At(p, "record")
        BY <1>2 DEF SaveForm, At, Actors, Relied
    <2>2. held[p].shipment \in Shipments
        BY <2>1, Loaded, HeldType DEF IInv
    <2>3. PICK eta \in MaybeEta :
              /\ row' = [held[p].shipment EXCEPT !.eta = eta]
              /\ unrecorded' = unrecorded \cup ({eta} \ {None, held[p].shipment.eta})
        BY <1>2 DEF SaveForm
    <2>4. row' \in Shipments /\ row'.eta = eta
        BY <2>2, <2>3 DEF Shipments
    <2>5. eta = None \/ eta \in unrecorded' \/ eta \in Accounted
        BY <2>1, <2>3, InstanceAccounted
    <2>6. unrecorded \subseteq unrecorded' /\ unrecorded' \in SUBSET Etas
        BY <2>3 DEF IInv, TypeOK, MaybeEta
    <2>7. /\ held' \in [Actors -> Held \cup {None}]
          /\ EtaIsOnRecord' /\ InstancesOnRecord' /\ SavesForecast'
        BY <1>2, <2>1, <2>4, <2>5, <2>6, HoldStep DEF SaveForm, Drop
    <2> QED BY <1>2, <2>4, <2>6, <2>7 DEF SaveForm, IInv, TypeOK
<1>3. ASSUME NEW p \in People, SaveStatus(p)
      PROVE  IInv'
    <2>1. p \in Actors /\ ~At(p, "record") /\ row \in Shipments
        BY <1>3 DEF SaveStatus, At, Actors, IInv, TypeOK
    <2>2. row' \in Shipments /\ row'.eta = row.eta
        BY <1>3, <2>1, ShipmentConstants DEF SaveStatus, Shipments
    <2>3. UNCHANGED <<events, linked, received, trail, watching, acts>> /\ Hold(p, None)
        BY <1>3 DEF SaveStatus, Drop
    <2>4. row'.eta = None \/ row'.eta \in Accounted
        BY <2>2, RowAccounted
    <2>5. /\ held' \in [Actors -> Held \cup {None}]
          /\ EtaIsOnRecord' /\ InstancesOnRecord' /\ SavesForecast'
        BY <2>1, <2>3, <2>4, HoldStep DEF trail, IInv, TypeOK
    <2> QED BY <2>2, <2>3, <2>5 DEF IInv, TypeOK, trail
<1>4. CASE LinkContainer \/ ReceiveDelivery
    <2>1. acts' \in 0 .. MaxActs
        BY <1>4, ShipmentConstants DEF LinkContainer, ReceiveDelivery, IInv, TypeOK
    <2>2. linked' \in BOOLEAN /\ received' \in {"none", "some", "all"}
        BY <1>4 DEF LinkContainer, ReceiveDelivery, IInv, TypeOK
    <2>3. UNCHANGED <<events, row, history, recorded, unrecorded, watching, held>>
        BY <1>4 DEF LinkContainer, ReceiveDelivery, trail
    <2>4. EtaIsOnRecord' /\ InstancesOnRecord' /\ SavesForecast'
        BY <2>3 DEF IInv, EtaIsOnRecord, InstancesOnRecord, SavesForecast, Accounted, OnRecord, At,
                    Relied
    <2> QED BY <2>1, <2>2, <2>3, <2>4 DEF IInv, TypeOK
<1> QED BY <1>1, <1>2, <1>3, <1>4 DEF PeopleAct

LEMMA NextIInv == IInv /\ [Next]_vars => IInv'
<1>1. IInv /\ UNCHANGED vars => IInv'
    BY DEF vars, IInv, TypeOK, EtaIsOnRecord, InstancesOnRecord, SavesForecast, Accounted, OnRecord,
           At, Relied
<1> QED BY <1>1, SyncStep, PeopleStep DEF Next

LEMMA Invariance == Spec => []IInv
BY InitIInv, NextIInv, PTL DEF Spec

(***************************************************************************)
(* Every reachable state is well typed (shipments/models.py).              *)
(***************************************************************************)
THEOREM Typing == Spec => []TypeOK
<1>1. IInv => TypeOK
    BY DEF IInv
<1> QED BY <1>1, Invariance, PTL

(***************************************************************************)
(* However many syncs interleave, wherever they are cut off and whatever   *)
(* people and providers write in between, the ETA on the row has a row in  *)
(* the history, unless a form entered it or the update that saved it was   *)
(* cut off before that row (update_shipment_eta).                          *)
(***************************************************************************)
THEOREM TrackingKeepsHistory == Spec => []EtaIsOnRecord
<1>1. IInv => EtaIsOnRecord
    BY DEF IInv
<1> QED BY <1>1, Invariance, PTL
===============================================================================
