----------------------- MODULE BusinessCentralSyncProofs -----------------------
(***************************************************************************)
(* Proofs about BusinessCentralSync, for any orders, lines and workers,    *)
(* any overlap of at least one tick and any number of faults.              *)
(*                                                                         *)
(* The watermark.  While a sync lists, an order that is not stored as it   *)
(* is is still to come up, or is in the list, or was written behind the    *)
(* page (Covered).  From then on it is either still to be read, or read as *)
(* it is and still to be written, or it was written behind the page, or    *)
(* after the list was made, and then it bears a time no earlier than any   *)
(* in the list; unless an upsert failed, and then the watermark stays      *)
(* where it is (SyncSound).  An older version may be written over a newer  *)
(* one only of an order that was changed meanwhile.                        *)
(*                                                                         *)
(* The reconciliation.  An order it does not find in its list is gone from *)
(* Business Central since we stored it, because no sync runs beside it     *)
(* (ReconcileSound, AtMostOneRun).                                         *)
(***************************************************************************)
EXTENDS BusinessCentralSync, TLAPS

TimesInOrder ==
    /\ \A o \in Orders : modified[o] <= clock
    /\ watermark <= clock

AtMostOneRun ==
    \A v, w \in Workers : run[v] # Missing /\ run[w] # Missing => v = w

GoneSinceStored ==
    \A o \in Orders : header[o] # Missing /\ document[o] = Missing => o \in gone

Pending(w, o) ==
    \/ run[w].phase = "reading" /\ o \in run[w].todo
    \/ run[w].read[o] = document[o] /\ (run[w].phase = "reading" \/ o \in run[w].todo)

ReadOld(w, o) ==
    run[w].read[o] # Missing /\ document[o] # Missing /\ run[w].read[o] # document[o]

Covered(w, o) ==
    IF run[w].phase = "listing"
    THEN o \in run[w].todo \cup run[w].found \cup missed \cup unseen
    ELSE modified[o] > run[w].upto - Overlap \/ Pending(w, o) \/ o \in missed \cup unseen

SyncSound(w) ==
    /\ run[w].upto <= clock
    /\ \A o \in Orders :
          ReadOld(w, o) => modified[o] >= run[w].upto /\ modified[o] >= watermark
    /\ ~run[w].failed => \A o \in Orders : document[o] # Missing /\ ~Stored(o) => Covered(w, o)
    /\ run[w].phase = "listing" => ~run[w].failed /\ \A o \in Orders : run[w].read[o] = Missing
    /\ run[w].phase = "writing" => \A o \in run[w].todo : run[w].read[o] # Missing

ReconcileSound(w) ==
    /\ run[w].phase = "listing" => \A o \in Orders :
          /\ run[w].read[o] = Missing
          /\ header[o] # Missing => o \in run[w].todo \cup run[w].found \cup gone
    /\ run[w].phase = "reading" => \A o \in Orders :
          header[o] # Missing /\ run[w].read[o] = Missing => o \in run[w].todo \cup gone
    /\ run[w].phase = "writing" => \A o \in run[w].todo :
          header[o] # Missing /\ (run[w].read[o] = Missing => o \in gone)

RunSound(w) ==
    run[w] # Missing =>
        IF run[w].kind = "sync" THEN SyncSound(w) ELSE ReconcileSound(w)

RunsSound == \A w \in Workers : RunSound(w)

IInv ==
    /\ TypeOK
    /\ TimesInOrder
    /\ AtMostOneRun
    /\ GoneSinceStored
    /\ RunsSound
    /\ HashVouchesForLines
    /\ NothingMissed

LEMMA InitIInv == Init => IInv
<1> SUFFICES ASSUME Init PROVE IInv
    OBVIOUS
<1>1. TypeOK
    <2>1. header \in [Orders -> Headers \cup {Missing}]
        BY DEF Init
    <2>2. lines \in [Orders -> [Lines -> LineRows \cup {Missing}]]
        BY DEF Init
    <2>3. run \in [Workers -> Runs \cup {Missing}]
        BY DEF Init
    <2> QED BY <2>1, <2>2, <2>3 DEF Init, TypeOK
<1>2. \A o \in Orders : document[o] = Missing /\ modified[o] = 0 /\ header[o] = Missing
    BY DEF Init
<1>3. \A w \in Workers : run[w] = Missing
    BY DEF Init
<1>4. clock = 1 /\ watermark = 0
    BY DEF Init
<1> QED BY <1>1, <1>2, <1>3, <1>4
        DEF IInv, TimesInOrder, AtMostOneRun, GoneSinceStored, RunsSound, RunSound,
            HashVouchesForLines, NothingMissed

LEMMA RunType ==
    ASSUME TypeOK, NEW w \in Workers, run[w] # Missing
    PROVE  /\ run[w] \in Runs
           /\ run[w].kind \in {"sync", "reconcile"}
           /\ run[w].phase \in {"listing", "reading", "writing"}
           /\ run[w].todo \in SUBSET Orders
           /\ run[w].found \in SUBSET Orders
           /\ run[w].read \in [Orders -> Contents \cup {Missing}]
           /\ run[w].failed \in BOOLEAN
           /\ run[w].upto \in Nat
<1>1. run[w] \in Runs
    BY DEF TypeOK
<1> QED BY <1>1 DEF Runs

(***************************************************************************)
(* What a worker that runs, or that takes the free lock, knows of others.  *)
(***************************************************************************)
LEMMA OthersRest ==
    ASSUME AtMostOneRun, NEW w \in Workers, run[w] # Missing \/ LockIsFree
    PROVE  \A v \in Workers \ {w} : run[v] = Missing
BY DEF AtMostOneRun, LockIsFree

(***************************************************************************)
(* One worker moves.                                                       *)
(***************************************************************************)
LEMMA MoveStep ==
    ASSUME TypeOK, AtMostOneRun, NEW w \in Workers, run[w] # Missing \/ LockIsFree,
           NEW q \in Runs \cup {Missing}, run' = [run EXCEPT ![w] = q],
           q # Missing => RunSound(w)'
    PROVE  /\ run' \in [Workers -> Runs \cup {Missing}]
           /\ AtMostOneRun'
           /\ RunsSound'
<1>1. run' \in [Workers -> Runs \cup {Missing}]
    BY DEF TypeOK
<1>2. run'[w] = q /\ \A v \in Workers \ {w} : run'[v] = Missing
    BY OthersRest DEF TypeOK
<1>3. AtMostOneRun'
    BY <1>2 DEF AtMostOneRun
<1>4. RunsSound'
    BY <1>2 DEF RunsSound, RunSound
<1> QED BY <1>1, <1>3, <1>4

(***************************************************************************)
(* A run ends without changing any order.                                  *)
(***************************************************************************)
LEMMA EndStep ==
    ASSUME IInv, NEW w \in Workers, run[w] # Missing, run' = [run EXCEPT ![w] = Missing],
           UNCHANGED <<source, mirror, watermark, history>>,
           latest' \in {"due", "RUNNING", "ended"}, faults' \in Nat
    PROVE  IInv'
<1>1. /\ run' \in [Workers -> Runs \cup {Missing}]
      /\ AtMostOneRun' /\ RunsSound'
    BY MoveStep DEF IInv
<1> QED BY <1>1 DEF IInv, TypeOK, TimesInOrder, GoneSinceStored, HashVouchesForLines, NothingMissed,
                    source, mirror, history, Stored, Listed

(***************************************************************************)
(* Business Central changes a document.                                    *)
(***************************************************************************)
LEMMA WriteDocumentStep ==
    ASSUME IInv, NEW o \in Orders, WriteDocument(o)
    PROVE  IInv'
<1>1. UNCHANGED <<header, lines, watermark, latest, run, gone, faults>>
    BY DEF WriteDocument, mirror, schedule
<1>11. /\ missed' = missed \ {o} /\ unseen' \in {unseen, unseen \cup {o}}
       /\ changes' \in Nat
       /\ \A v \in Workers : Behind(v, o) => o \in unseen'
    BY DEF WriteDocument, IInv, TypeOK
<1>2. clock' \in Nat \ {0} /\ clock <= clock'
    BY DEF WriteDocument, IInv, TypeOK
<1>3. /\ modified' \in [Orders -> Nat]
      /\ modified'[o] = clock'
      /\ \A p \in Orders \ {o} : modified'[p] = modified[p]
    BY <1>2 DEF WriteDocument, IInv, TypeOK
<1>4. /\ document' \in [Orders -> Contents \cup {Missing}]
      /\ document'[o] # Missing
      /\ \A p \in Orders \ {o} : document'[p] = document[p]
    BY MissingIsNoRecord DEF WriteDocument, IInv, TypeOK
<1>5. TypeOK'
    BY <1>1, <1>2, <1>3, <1>4, <1>11 DEF IInv, TypeOK
<1>6. TimesInOrder'
    BY <1>1, <1>2, <1>3 DEF IInv, TypeOK, TimesInOrder
<1>7. GoneSinceStored'
    BY <1>1, <1>4 DEF IInv, GoneSinceStored
<1>8. NothingMissed'
    <2> SUFFICES ASSUME NEW p \in Orders, document'[p] # Missing, ~Stored(p)', watermark # 0,
                        p \notin missed'
                 PROVE  modified'[p] > watermark - Overlap
        BY <1>1 DEF NothingMissed, Listed
    <2>1. CASE p = o
        BY <1>2, <1>3, <2>1, BoundsAreNaturals DEF IInv, TypeOK, TimesInOrder
    <2>2. CASE p # o
        BY <1>1, <1>3, <1>4, <1>11, <2>2 DEF IInv, NothingMissed, Listed, Stored
    <2> QED BY <2>1, <2>2
<1>9. ASSUME NEW w \in Workers, run[w] # Missing
      PROVE  RunSound(w)'
    <2>1. run[w].upto \in Nat /\ run'[w] = run[w]
        BY <1>1, <1>9, RunType DEF IInv
    <2>2. CASE run[w].kind = "sync"
        <3>1. SyncSound(w)
            BY <1>9, <2>2 DEF IInv, RunsSound, RunSound
        <3>2. run[w].upto <= clock'
            BY <1>2, <2>1, <3>1 DEF SyncSound, IInv, TypeOK
        <3>3. ASSUME NEW p \in Orders, ReadOld(w, p)'
              PROVE  modified'[p] >= run[w].upto /\ modified'[p] >= watermark
            <4>1. CASE p = o
                BY <1>2, <1>3, <2>1, <3>2, <4>1 DEF IInv, TypeOK, TimesInOrder
            <4>2. CASE p # o
                BY <1>3, <1>4, <2>1, <3>1, <3>3, <4>2 DEF SyncSound, ReadOld
            <4> QED BY <4>1, <4>2
        <3>4. ASSUME ~run[w].failed, NEW p \in Orders, document'[p] # Missing, ~Stored(p)'
              PROVE  Covered(w, p)'
            <4>1. CASE p = o /\ run[w].phase = "listing"
                BY <1>9, <1>11, <2>1, <2>2, <4>1 DEF Covered, Behind
            <4>2. CASE p = o /\ run[w].phase # "listing"
                BY <1>2, <1>3, <2>1, <3>2, <4>2, BoundsAreNaturals DEF Covered
            <4>3. CASE p # o
                <5>1. Covered(w, p)
                    BY <1>1, <1>4, <3>1, <3>4, <4>3 DEF SyncSound, Stored
                <5> QED BY <1>3, <1>4, <1>11, <2>1, <4>3, <5>1 DEF Covered, Pending
            <4> QED BY <4>1, <4>2, <4>3
        <3>5. SyncSound(w)'
            BY <1>1, <2>1, <3>1, <3>2, <3>3, <3>4 DEF SyncSound
        <3> QED BY <2>1, <2>2, <3>5 DEF RunSound
    <2>3. CASE run[w].kind # "sync"
        BY <1>1, <1>9, <2>3 DEF IInv, RunsSound, RunSound, ReconcileSound
    <2> QED BY <2>2, <2>3
<1>10. RunsSound'
    BY <1>1, <1>9 DEF RunsSound, RunSound
<1> QED BY <1>1, <1>5, <1>6, <1>7, <1>8, <1>10 DEF IInv, AtMostOneRun, HashVouchesForLines

LEMMA DeleteDocumentStep ==
    ASSUME IInv, NEW o \in Orders, DeleteDocument(o)
    PROVE  IInv'
<1>1. UNCHANGED <<clock, header, lines, watermark, latest, run, unseen, faults>>
    BY DEF DeleteDocument, mirror, schedule
<1>11. missed' = missed \ {o} /\ changes' \in Nat
    BY DEF DeleteDocument, IInv, TypeOK
<1>2. /\ modified' \in [Orders -> Nat]
      /\ modified'[o] = 0
      /\ \A p \in Orders \ {o} : modified'[p] = modified[p]
    BY DEF DeleteDocument, IInv, TypeOK
<1>3. /\ document' \in [Orders -> Contents \cup {Missing}]
      /\ document'[o] = Missing
      /\ \A p \in Orders \ {o} : document'[p] = document[p]
    BY DEF DeleteDocument, IInv, TypeOK
<1>4. /\ gone' \in SUBSET Orders /\ gone \subseteq gone'
      /\ header[o] # Missing => o \in gone'
    BY DEF DeleteDocument, IInv, TypeOK
<1>5. TypeOK'
    BY <1>1, <1>2, <1>3, <1>4, <1>11 DEF IInv, TypeOK
<1>6. TimesInOrder'
    BY <1>1, <1>2 DEF IInv, TypeOK, TimesInOrder
<1>7. GoneSinceStored'
    BY <1>1, <1>3, <1>4 DEF IInv, GoneSinceStored
<1>8. NothingMissed'
    BY <1>1, <1>2, <1>3, <1>11 DEF IInv, NothingMissed, Listed, Stored
<1>9. ASSUME NEW w \in Workers, run[w] # Missing
      PROVE  RunSound(w)'
    <2>1. run'[w] = run[w]
        BY <1>1
    <2>2. CASE run[w].kind = "sync"
        <3>1. SyncSound(w)
            BY <1>9, <2>2 DEF IInv, RunsSound, RunSound
        <3>2. ASSUME ~run[w].failed, NEW p \in Orders, document'[p] # Missing, ~Stored(p)'
              PROVE  Covered(w, p)'
            <4>1. p # o
                BY <1>3, <3>2
            <4>2. Covered(w, p)
                BY <1>1, <1>3, <3>1, <3>2, <4>1 DEF SyncSound, Stored
            <4> QED BY <1>1, <1>2, <1>3, <1>11, <2>1, <4>1, <4>2 DEF Covered, Pending
        <3>3. \A p \in Orders : ReadOld(w, p)' =>
                  modified'[p] >= run[w].upto /\ modified'[p] >= watermark
            BY <1>2, <1>3, <2>1, <3>1 DEF SyncSound, ReadOld
        <3>4. SyncSound(w)'
            BY <1>1, <2>1, <3>1, <3>2, <3>3 DEF SyncSound
        <3> QED BY <2>1, <2>2, <3>4 DEF RunSound
    <2>3. CASE run[w].kind # "sync"
        BY <1>1, <1>4, <1>9, <2>3 DEF IInv, RunsSound, RunSound, ReconcileSound
    <2> QED BY <2>2, <2>3
<1>10. RunsSound'
    BY <1>1, <1>9 DEF RunsSound, RunSound
<1> QED BY <1>1, <1>5, <1>6, <1>7, <1>8, <1>10 DEF IInv, AtMostOneRun, HashVouchesForLines

(***************************************************************************)
(* A run that has only just begun has read nothing.                        *)
(***************************************************************************)
LEMMA BeginType ==
    ASSUME NEW kind \in {"sync", "reconcile"}, NEW upto \in Nat
    PROVE  [kind |-> kind, phase |-> "listing", todo |-> Orders, found |-> {},
            read |-> [o \in Orders |-> Missing], failed |-> FALSE, upto |-> upto] \in Runs
BY DEF Runs

LEMMA StartSyncStep ==
    ASSUME IInv, NEW w \in Workers, StartSync(w)
    PROVE  IInv'
<1> DEFINE upto == IF watermark # 0 THEN watermark ELSE clock
           q == [kind |-> "sync", phase |-> "listing", todo |-> Orders, found |-> {},
                 read |-> [o \in Orders |-> Missing], failed |-> FALSE, upto |-> upto]
<1>1. upto \in Nat /\ upto <= clock
    BY DEF IInv, TypeOK, TimesInOrder
<1>2. q \in Runs
    BY <1>1, BeginType
<1>3. run' = [run EXCEPT ![w] = q] /\ run'[w] = q
    BY DEF StartSync, Begin, IInv, TypeOK
<1>4. UNCHANGED <<document, modified, clock, changes, header, lines, watermark, gone, missed, faults>>
      /\ unseen' = {} /\ latest' = "RUNNING" /\ LockIsFree
    BY DEF StartSync, source, mirror
<1>5. /\ q.kind = "sync" /\ q.phase = "listing" /\ q.todo = Orders /\ q.upto = upto
      /\ q.failed = FALSE
      /\ \A o \in Orders : q.read[o] = Missing
    OBVIOUS
<1> HIDE DEF q, upto
<1>6. SyncSound(w)'
    BY <1>1, <1>3, <1>4, <1>5 DEF SyncSound, Covered, ReadOld
<1>7. RunSound(w)'
    BY <1>3, <1>5, <1>6 DEF RunSound
<1>8. /\ run' \in [Workers -> Runs \cup {Missing}]
      /\ AtMostOneRun' /\ RunsSound'
    BY <1>2, <1>3, <1>4, <1>7, MoveStep DEF IInv
<1> QED BY <1>4, <1>8
        DEF IInv, TypeOK, TimesInOrder, GoneSinceStored, HashVouchesForLines, NothingMissed,
            Stored, Listed

LEMMA StartReconcileStep ==
    ASSUME IInv, NEW w \in Workers, StartReconcile(w)
    PROVE  IInv'
<1> DEFINE q == [kind |-> "reconcile", phase |-> "listing", todo |-> Orders, found |-> {},
                 read |-> [o \in Orders |-> Missing], failed |-> FALSE, upto |-> 0]
<1>1. q \in Runs
    BY BeginType
<1>2. run' = [run EXCEPT ![w] = q] /\ run'[w] = q
    BY DEF StartReconcile, Begin, IInv, TypeOK
<1>3. UNCHANGED <<document, modified, clock, changes, header, lines, watermark, latest, gone,
                  unseen, missed, faults>>
      /\ LockIsFree
    BY DEF StartReconcile, source, mirror, schedule, history
<1>4. /\ q.kind # "sync" /\ q.phase = "listing" /\ q.todo = Orders
      /\ \A o \in Orders : q.read[o] = Missing
    OBVIOUS
<1> HIDE DEF q
<1>5. RunSound(w)'
    BY <1>2, <1>4 DEF RunSound, ReconcileSound
<1>6. /\ run' \in [Workers -> Runs \cup {Missing}]
      /\ AtMostOneRun' /\ RunsSound'
    BY <1>1, <1>2, <1>3, <1>5, MoveStep DEF IInv
<1> QED BY <1>3, <1>6
        DEF IInv, TypeOK, TimesInOrder, GoneSinceStored, HashVouchesForLines, NothingMissed,
            Stored, Listed

(***************************************************************************)
(* An order comes up on a page.  If it is passed over, it is stored as it  *)
(* is, or gone, or was missed before.                                      *)
(***************************************************************************)
LEMMA ListOrderStep ==
    ASSUME IInv, NEW w \in Workers, NEW o \in Orders, ListOrder(w, o)
    PROVE  IInv'
<1> DEFINE p == run[w]
           q == [p EXCEPT !.todo = @ \ {o},
                          !.found = IF Wanted(w, o) THEN @ \cup {o} ELSE @,
                          !.upto = IF Wanted(w, o) THEN WatermarkWith(w, o) ELSE @]
<1>1. run[w] # Missing /\ p.phase = "listing" /\ o \in p.todo
    BY DEF ListOrder
<1>2. p \in Runs /\ p.upto \in Nat
    BY <1>1, RunType DEF IInv
<1>3. WatermarkWith(w, o) \in {p.upto, modified[o]}
    BY DEF WatermarkWith
<1>4. WatermarkWith(w, o) \in Nat /\ modified[o] <= clock
    BY <1>2, <1>3 DEF IInv, TypeOK, TimesInOrder
<1>5. /\ q \in Runs
      /\ q.kind = p.kind /\ q.phase = "listing" /\ q.failed = p.failed /\ q.read = p.read
      /\ q.todo = p.todo \ {o} /\ p.found \subseteq q.found
      /\ Wanted(w, o) => o \in q.found
      /\ q.upto \in {p.upto, modified[o]}
    BY <1>1, <1>2, <1>3, <1>4 DEF Runs
<1>6. run' = [run EXCEPT ![w] = q]
    BY DEF ListOrder, IInv, TypeOK
<1>7. run'[w] = q
    BY <1>6 DEF IInv, TypeOK
<1>8. UNCHANGED <<document, modified, clock, changes, header, lines, watermark, latest, gone,
                  unseen, missed, faults>>
    BY DEF ListOrder, source, mirror, schedule, history
<1> HIDE DEF q
<1>9. ASSUME p.kind = "sync" PROVE RunSound(w)'
    <2>1. SyncSound(w)
        BY <1>1, <1>9 DEF IInv, RunsSound, RunSound
    <2>2. q.upto <= clock
        BY <1>4, <1>5, <2>1 DEF SyncSound
    <2>3. ASSUME NEW r \in Orders, document[r] # Missing, ~Stored(r)
          PROVE  r \in q.todo \cup q.found \cup missed \cup unseen
        <3>1. r \in p.todo \cup p.found \cup missed \cup unseen
            BY <1>1, <2>1, <2>3 DEF SyncSound, Covered
        <3>2. r = o => r \in missed \/ Wanted(w, o)
            BY <1>9, <2>3 DEF IInv, NothingMissed, Wanted
        <3> QED BY <1>5, <3>1, <3>2
    <2>4. SyncSound(w)'
        BY <1>1, <1>5, <1>7, <1>8, <2>1, <2>2, <2>3 DEF SyncSound, Covered, Stored, ReadOld
    <2> QED BY <1>5, <1>7, <1>9, <2>4 DEF RunSound
<1>10. ASSUME p.kind # "sync" PROVE RunSound(w)'
    <2>1. ReconcileSound(w)
        BY <1>1, <1>10 DEF IInv, RunsSound, RunSound
    <2>2. header[o] # Missing => o \in gone \/ Wanted(w, o)
        BY <1>10 DEF IInv, GoneSinceStored, Wanted
    <2>3. ReconcileSound(w)'
        BY <1>1, <1>5, <1>7, <1>8, <2>1, <2>2 DEF ReconcileSound
    <2> QED BY <1>5, <1>7, <1>10, <2>3 DEF RunSound
<1>11. /\ run' \in [Workers -> Runs \cup {Missing}]
       /\ AtMostOneRun' /\ RunsSound'
    BY <1>1, <1>5, <1>6, <1>9, <1>10, MoveStep DEF IInv
<1> QED BY <1>8, <1>11
        DEF IInv, TypeOK, TimesInOrder, GoneSinceStored, HashVouchesForLines, NothingMissed,
            Stored, Listed

LEMMA StartReadingStep ==
    ASSUME IInv, NEW w \in Workers, StartReading(w)
    PROVE  IInv'
<1> DEFINE p == run[w]
           q == [p EXCEPT !.phase = "reading", !.todo = p.found]
<1>1. run[w] # Missing /\ p.phase = "listing" /\ p.todo = {}
    BY DEF StartReading
<1>2. p \in Runs
    BY <1>1, RunType DEF IInv
<1>3. /\ q \in Runs
      /\ q.kind = p.kind /\ q.phase = "reading" /\ q.failed = p.failed /\ q.upto = p.upto
      /\ q.todo = p.found /\ q.read = p.read
    BY <1>2 DEF Runs
<1>4. run' = [run EXCEPT ![w] = q]
    BY DEF StartReading, IInv, TypeOK
<1>5. run'[w] = q
    BY <1>4 DEF IInv, TypeOK
<1>6. UNCHANGED <<document, modified, clock, changes, header, lines, watermark, latest, gone,
                  unseen, missed, faults>>
    BY DEF StartReading, source, mirror, schedule, history
<1> HIDE DEF q
<1>7. ASSUME p.kind = "sync" PROVE RunSound(w)'
    <2>1. SyncSound(w)
        BY <1>1, <1>7 DEF IInv, RunsSound, RunSound
    <2>2. \A o \in Orders : document[o] # Missing /\ ~Stored(o) =>
              o \in q.todo \cup missed \cup unseen
        BY <1>1, <1>3, <2>1 DEF SyncSound, Covered
    <2>3. SyncSound(w)'
        BY <1>1, <1>3, <1>5, <1>6, <2>1, <2>2 DEF SyncSound, Covered, Pending, Stored, ReadOld
    <2> QED BY <1>3, <1>5, <1>7, <2>3 DEF RunSound
<1>8. ASSUME p.kind # "sync" PROVE RunSound(w)'
    <2>1. ReconcileSound(w)
        BY <1>1, <1>8 DEF IInv, RunsSound, RunSound
    <2>2. ReconcileSound(w)'
        BY <1>1, <1>3, <1>5, <1>6, <2>1 DEF ReconcileSound
    <2> QED BY <1>3, <1>5, <1>8, <2>2 DEF RunSound
<1>9. /\ run' \in [Workers -> Runs \cup {Missing}]
      /\ AtMostOneRun' /\ RunsSound'
    BY <1>1, <1>3, <1>4, <1>7, <1>8, MoveStep DEF IInv
<1> QED BY <1>6, <1>9
        DEF IInv, TypeOK, TimesInOrder, GoneSinceStored, HashVouchesForLines, NothingMissed,
            Stored, Listed

(***************************************************************************)
(* The lines of a listed order are read.                                   *)
(***************************************************************************)
LEMMA ReadLinesStep ==
    ASSUME IInv, NEW w \in Workers, NEW o \in Orders, ReadLines(w, o)
    PROVE  IInv'
<1> DEFINE p == run[w]
           q == [p EXCEPT !.todo = @ \ {o}, !.read[o] = document[o]]
<1>1. run[w] # Missing /\ p.phase = "reading" /\ o \in p.todo /\ document[o] # Missing
    BY DEF ReadLines
<1>2. /\ p \in Runs /\ p.read \in [Orders -> Contents \cup {Missing}] /\ p.todo \in SUBSET Orders
    BY <1>1, RunType DEF IInv
<1>3. document[o] \in Contents \cup {Missing}
    BY DEF IInv, TypeOK
<1>4. /\ q \in Runs
      /\ q.kind = p.kind /\ q.phase = p.phase /\ q.failed = p.failed /\ q.upto = p.upto
      /\ q.todo = p.todo \ {o}
      /\ q.read[o] = document[o]
      /\ \A r \in Orders \ {o} : q.read[r] = p.read[r]
    BY <1>2, <1>3 DEF Runs
<1>5. run' = [run EXCEPT ![w] = q]
    BY DEF ReadLines, IInv, TypeOK
<1>6. run'[w] = q
    BY <1>5 DEF IInv, TypeOK
<1>7. UNCHANGED <<document, modified, clock, changes, header, lines, watermark, latest, gone,
                  unseen, missed, faults>>
    BY DEF ReadLines, source, mirror, schedule, history
<1> HIDE DEF q
<1>8. ASSUME p.kind = "sync" PROVE RunSound(w)'
    <2>1. SyncSound(w)
        BY <1>1, <1>8 DEF IInv, RunsSound, RunSound
    <2>2. ASSUME ~p.failed, NEW r \in Orders, document[r] # Missing, ~Stored(r)
          PROVE  Covered(w, r)'
        <3>1. Covered(w, r)
            BY <2>1, <2>2 DEF SyncSound
        <3> QED BY <1>1, <1>4, <1>6, <1>7, <3>1 DEF Covered, Pending
    <2>3. \A r \in Orders : ReadOld(w, r)' => modified[r] >= p.upto /\ modified[r] >= watermark
        BY <1>4, <1>6, <1>7, <2>1 DEF SyncSound, ReadOld
    <2>4. SyncSound(w)'
        BY <1>1, <1>4, <1>6, <1>7, <2>1, <2>2, <2>3 DEF SyncSound, Stored
    <2> QED BY <1>4, <1>6, <1>8, <2>4 DEF RunSound
<1>9. ASSUME p.kind # "sync" PROVE RunSound(w)'
    <2>1. ReconcileSound(w)
        BY <1>1, <1>9 DEF IInv, RunsSound, RunSound
    <2>2. ReconcileSound(w)'
        BY <1>1, <1>4, <1>6, <1>7, <2>1 DEF ReconcileSound
    <2> QED BY <1>4, <1>6, <1>9, <2>2 DEF RunSound
<1>10. /\ run' \in [Workers -> Runs \cup {Missing}]
       /\ AtMostOneRun' /\ RunsSound'
    BY <1>1, <1>4, <1>5, <1>8, <1>9, MoveStep DEF IInv
<1> QED BY <1>7, <1>10
        DEF IInv, TypeOK, TimesInOrder, GoneSinceStored, HashVouchesForLines, NothingMissed,
            Stored, Listed

LEMMA StartWritingStep ==
    ASSUME IInv, NEW w \in Workers, StartWriting(w)
    PROVE  IInv'
<1> DEFINE p == run[w]
           orders == IF p.kind = "sync" THEN ReadAll(w)
                     ELSE {o \in Orders : header[o] # Missing /\ header[o].active}
           q == [p EXCEPT !.phase = "writing", !.todo = orders]
<1>1. run[w] # Missing /\ p.phase = "reading" /\ p.todo = {}
    BY DEF StartWriting
<1>2. p \in Runs
    BY <1>1, RunType DEF IInv
<1>3. /\ q \in Runs
      /\ q.kind = p.kind /\ q.phase = "writing" /\ q.failed = p.failed /\ q.upto = p.upto
      /\ q.todo = orders /\ q.read = p.read
    BY <1>2 DEF Runs, ReadAll
<1>4. run' = [run EXCEPT ![w] = q]
    BY DEF StartWriting, IInv, TypeOK
<1>5. run'[w] = q
    BY <1>4 DEF IInv, TypeOK
<1>6. UNCHANGED <<document, modified, clock, changes, header, lines, watermark, latest, gone,
                  unseen, missed, faults>>
    BY DEF StartWriting, source, mirror, schedule, history
<1> HIDE DEF q
<1>7. ASSUME p.kind = "sync" PROVE RunSound(w)'
    <2>1. SyncSound(w)
        BY <1>1, <1>7 DEF IInv, RunsSound, RunSound
    <2>2. \A o \in Orders : o \in q.todo <=> p.read[o] # Missing
        BY <1>3, <1>7 DEF ReadAll
    <2>3. ASSUME ~p.failed, NEW o \in Orders, document[o] # Missing, ~Stored(o)
          PROVE  Covered(w, o)'
        <3>1. Covered(w, o)
            BY <2>1, <2>3 DEF SyncSound
        <3> QED BY <1>1, <1>3, <1>5, <1>6, <2>2, <2>3, <3>1 DEF Covered, Pending
    <2>4. \A o \in Orders : ReadOld(w, o)' => modified[o] >= p.upto /\ modified[o] >= watermark
        BY <1>3, <1>5, <1>6, <2>1 DEF SyncSound, ReadOld
    <2>5. \A o \in q.todo : q.read[o] # Missing
        BY <1>3, <1>7 DEF ReadAll
    <2>6. SyncSound(w)'
        BY <1>3, <1>5, <1>6, <2>1, <2>3, <2>4, <2>5 DEF SyncSound, Stored
    <2> QED BY <1>3, <1>5, <1>7, <2>6 DEF RunSound
<1>8. ASSUME p.kind # "sync" PROVE RunSound(w)'
    <2>1. ReconcileSound(w)
        BY <1>1, <1>8 DEF IInv, RunsSound, RunSound
    <2>2. ReconcileSound(w)'
        BY <1>1, <1>3, <1>5, <1>6, <1>8, <2>1 DEF ReconcileSound
    <2> QED BY <1>3, <1>5, <1>8, <2>2 DEF RunSound
<1>9. /\ run' \in [Workers -> Runs \cup {Missing}]
      /\ AtMostOneRun' /\ RunsSound'
    BY <1>1, <1>3, <1>4, <1>7, <1>8, MoveStep DEF IInv
<1> QED BY <1>6, <1>9
        DEF IInv, TypeOK, TimesInOrder, GoneSinceStored, HashVouchesForLines, NothingMissed,
            Stored, Listed

(***************************************************************************)
(* What is left of a run after it has dealt with an order.                 *)
(***************************************************************************)
LEMMA DoneStep ==
    ASSUME TypeOK, NEW w \in Workers, NEW o \in Orders, NEW failed \in BOOLEAN,
           run[w] # Missing, Done(w, o, failed)
    PROVE  \E q \in Runs :
              /\ run' = [run EXCEPT ![w] = q]
              /\ run'[w] = q
              /\ q.kind = run[w].kind /\ q.phase = run[w].phase /\ q.upto = run[w].upto
              /\ q.failed = failed /\ q.todo = run[w].todo \ {o}
              /\ q.read[o] = Missing
              /\ \A r \in Orders \ {o} : q.read[r] = run[w].read[r]
<1> DEFINE q == [run[w] EXCEPT !.todo = @ \ {o}, !.read[o] = Missing, !.failed = failed]
<1>1. run[w] \in Runs
    BY RunType
<1>2. /\ q \in Runs
      /\ q.kind = run[w].kind /\ q.phase = run[w].phase /\ q.upto = run[w].upto
      /\ q.failed = failed /\ q.todo = run[w].todo \ {o}
      /\ q.read[o] = Missing
      /\ \A r \in Orders \ {o} : q.read[r] = run[w].read[r]
    BY <1>1 DEF Runs
<1>3. run' = [run EXCEPT ![w] = q]
    BY DEF Done, TypeOK
<1> HIDE DEF q
<1>4. run'[w] = q
    BY <1>3 DEF TypeOK
<1> QED BY <1>2, <1>3, <1>4

LEMMA UpsertedLinesType ==
    ASSUME TypeOK, NEW o \in Orders, NEW content \in Contents
    PROVE  UpsertedLines(o, content) \in [Lines -> LineRows \cup {Missing}]
<1>1. ASSUME NEW l \in Lines
      PROVE  (IF l \in Present(content) THEN [value |-> content[l], active |-> TRUE]
              ELSE lines[o][l]) \in LineRows \cup {Missing}
    BY DEF TypeOK, Contents, Present, LineRows
<1> QED BY <1>1 DEF UpsertedLines

(***************************************************************************)
(* An order is stored as the run has read it.                              *)
(***************************************************************************)
LEMMA StoreOrderStep ==
    ASSUME IInv, NEW w \in Workers, NEW o \in Orders, StoreOrder(w, o)
    PROVE  IInv'
<1> DEFINE p == run[w]
           content == p.read[o]
<1>1. p # Missing /\ p.kind = "sync" /\ p.phase = "writing" /\ o \in p.todo
    BY DEF StoreOrder, Running
<1>2. p.failed \in BOOLEAN /\ p.upto \in Nat /\ p.read \in [Orders -> Contents \cup {Missing}]
    BY <1>1, RunType DEF IInv
<1>3. SyncSound(w)
    BY <1>1 DEF IInv, RunsSound, RunSound
<1>4. content \in Contents /\ content # Missing
    BY <1>1, <1>2, <1>3 DEF SyncSound
<1>5. PICK q \in Runs :
          /\ run' = [run EXCEPT ![w] = q]
          /\ run'[w] = q
          /\ q.kind = p.kind /\ q.phase = p.phase /\ q.upto = p.upto
          /\ q.failed = p.failed /\ q.todo = p.todo \ {o}
          /\ q.read[o] = Missing
          /\ \A r \in Orders \ {o} : q.read[r] = p.read[r]
    BY <1>1, <1>2, DoneStep DEF StoreOrder, IInv
<1>6. UNCHANGED <<document, modified, clock, changes, watermark, latest, unseen, missed, faults>>
    BY DEF StoreOrder, source, schedule
<1>7. /\ header' \in [Orders -> Headers \cup {Missing}]
      /\ header'[o] # Missing /\ header'[o].hash = content
      /\ \A r \in Orders \ {o} : header'[r] = header[r]
    <2>1. [hash |-> content, active |-> TRUE] \in Headers
        BY <1>4 DEF Headers
    <2>2. header' = [header EXCEPT ![o] = [hash |-> content, active |-> TRUE]]
        BY DEF StoreOrder, Upsert
    <2> QED BY <2>1, <2>2, MissingIsNoRecord DEF IInv, TypeOK
<1>8. /\ lines' \in [Orders -> [Lines -> LineRows \cup {Missing}]]
      /\ lines'[o] = IF header[o] # Missing /\ header[o].hash = content THEN lines[o]
                     ELSE UpsertedLines(o, content)
      /\ \A r \in Orders \ {o} : lines'[r] = lines[r]
    <2>1. UpsertedLines(o, content) \in [Lines -> LineRows \cup {Missing}]
        BY <1>4, UpsertedLinesType DEF IInv
    <2>2. lines' = IF header[o] # Missing /\ header[o].hash = content THEN lines
                   ELSE [lines EXCEPT ![o] = UpsertedLines(o, content)]
        BY DEF StoreOrder, Upsert
    <2> QED BY <2>1, <2>2 DEF IInv, TypeOK
<1>9. /\ gone' \in SUBSET Orders
      /\ document[o] = Missing => o \in gone'
      /\ \A r \in Orders \ {o} : r \in gone => r \in gone'
    BY DEF StoreOrder, IInv, TypeOK
<1> HIDE DEF content
<1>10. \A r \in Orders :
          document[r] # Missing /\ ~Stored(r)' =>
              \/ r # o /\ ~Stored(r)
              \/ r = o /\ ReadOld(w, o)
    BY <1>4, <1>6, <1>7 DEF Stored, ReadOld, content
<1>11. SyncSound(w)'
    <2>1. \A r \in Orders : ReadOld(w, r)' => ReadOld(w, r)
        BY <1>5, <1>6 DEF ReadOld
    <2>2. ASSUME ~p.failed, NEW r \in Orders, document[r] # Missing, ~Stored(r)'
          PROVE  Covered(w, r)'
        <3>1. CASE r = o
            <4>1. modified[r] >= p.upto
                BY <1>3, <1>10, <2>2, <3>1 DEF SyncSound
            <4>2. modified[r] > p.upto - Overlap
                BY <1>2, <4>1, BoundsAreNaturals DEF IInv, TypeOK
            <4> QED BY <1>1, <1>5, <1>6, <4>2 DEF Covered
        <3>2. CASE r # o
            <4>1. Covered(w, r)
                BY <1>3, <1>10, <2>2, <3>2 DEF SyncSound
            <4> QED BY <1>1, <1>5, <1>6, <3>2, <4>1 DEF Covered, Pending
        <3> QED BY <3>1, <3>2
    <2>3. \A r \in q.todo : q.read[r] # Missing
        BY <1>1, <1>3, <1>5, RunType DEF SyncSound, IInv
    <2> QED BY <1>3, <1>5, <1>6, <2>1, <2>2, <2>3 DEF SyncSound
<1>12. /\ run' \in [Workers -> Runs \cup {Missing}]
       /\ AtMostOneRun' /\ RunsSound'
    <2>1. RunSound(w)'
        BY <1>1, <1>5, <1>11 DEF RunSound
    <2> QED BY <1>1, <1>5, <2>1, MoveStep DEF IInv
<1>13. TypeOK'
    BY <1>6, <1>7, <1>8, <1>9, <1>12 DEF IInv, TypeOK
<1>14. GoneSinceStored'
    BY <1>6, <1>7, <1>9 DEF IInv, GoneSinceStored
<1>15. HashVouchesForLines'
    <2>1. ASSUME NEW r \in Orders, header'[r] # Missing, NEW l \in Present(header'[r].hash)
          PROVE  lines'[r][l] # Missing /\ lines'[r][l].value = header'[r].hash[l]
        <3>1. CASE r # o
            BY <1>7, <1>8, <2>1, <3>1 DEF IInv, HashVouchesForLines
        <3>2. CASE r = o /\ header[o] # Missing /\ header[o].hash = content
            BY <1>7, <1>8, <2>1, <3>2 DEF IInv, HashVouchesForLines
        <3>3. CASE r = o /\ ~(header[o] # Missing /\ header[o].hash = content)
            <4>1. l \in Lines /\ l \in Present(content)
                BY <1>7, <2>1, <3>3 DEF Present
            <4>2. lines'[o][l] = [value |-> content[l], active |-> TRUE]
                BY <1>8, <3>3, <4>1 DEF UpsertedLines
            <4>3. [value |-> content[l], active |-> TRUE] \in LineRows
                BY <1>4, <4>1 DEF LineRows, Contents, Present
            <4>4. lines'[o][l] # Missing
                BY <4>2, <4>3, MissingIsNoRecord
            <4>5. lines'[o][l].value = content[l]
                BY <4>2
            <4>6. header'[r].hash = content
                BY <1>7, <3>3
            <4> QED BY <3>3, <4>4, <4>5, <4>6
        <3> QED BY <3>1, <3>2, <3>3
    <2> QED BY <2>1 DEF HashVouchesForLines
<1>16. NothingMissed'
    <2> SUFFICES ASSUME NEW r \in Orders, document[r] # Missing, ~Stored(r)', watermark # 0,
                        r \notin missed
                 PROVE  modified[r] > watermark - Overlap
        BY <1>6 DEF NothingMissed, Listed
    <2>1. CASE r = o
        <3>1. modified[r] >= watermark
            BY <1>3, <1>10, <2>1 DEF SyncSound
        <3> QED BY <3>1, BoundsAreNaturals DEF IInv, TypeOK
    <2>2. CASE r # o
        BY <1>10, <2>2 DEF IInv, NothingMissed, Listed
    <2> QED BY <2>1, <2>2
<1> QED BY <1>6, <1>12, <1>13, <1>14, <1>15, <1>16 DEF IInv, TimesInOrder

LEMMA StoreFailsStep ==
    ASSUME IInv, NEW w \in Workers, NEW o \in Orders, StoreFails(w, o)
    PROVE  IInv'
<1>1. run[w] # Missing /\ run[w].kind = "sync" /\ run[w].phase = "writing"
    BY DEF StoreFails, Running
<1>2. SyncSound(w)
    BY <1>1 DEF IInv, RunsSound, RunSound
<1>3. PICK q \in Runs :
          /\ run' = [run EXCEPT ![w] = q]
          /\ run'[w] = q
          /\ q.kind = run[w].kind /\ q.phase = run[w].phase /\ q.upto = run[w].upto
          /\ q.failed = TRUE /\ q.todo = run[w].todo \ {o}
          /\ q.read[o] = Missing
          /\ \A r \in Orders \ {o} : q.read[r] = run[w].read[r]
    BY <1>1, DoneStep DEF StoreFails, IInv
<1>4. UNCHANGED <<document, modified, clock, changes, header, lines, watermark, latest, gone,
                  unseen, missed>>
      /\ faults' \in Nat
    BY DEF StoreFails, source, mirror, schedule, history, IInv, TypeOK
<1>5. SyncSound(w)'
    <2>1. \A r \in Orders : ReadOld(w, r)' => ReadOld(w, r)
        BY <1>3, <1>4 DEF ReadOld
    <2>2. \A r \in q.todo : q.read[r] # Missing
        BY <1>1, <1>2, <1>3, RunType DEF SyncSound, IInv
    <2>3. run'[w].failed
        BY <1>3
    <2> QED BY <1>1, <1>2, <1>3, <1>4, <2>1, <2>2, <2>3 DEF SyncSound
<1>6. /\ run' \in [Workers -> Runs \cup {Missing}]
      /\ AtMostOneRun' /\ RunsSound'
    <2>1. RunSound(w)'
        BY <1>1, <1>3, <1>5 DEF RunSound
    <2> QED BY <1>1, <1>3, <2>1, MoveStep DEF IInv
<1> QED BY <1>4, <1>6
        DEF IInv, TypeOK, TimesInOrder, GoneSinceStored, HashVouchesForLines, NothingMissed,
            Stored, Listed

(***************************************************************************)
(* The watermark advances to a time before which everything is stored.     *)
(***************************************************************************)
LEMMA FinishSyncStep ==
    ASSUME IInv, NEW w \in Workers, FinishSync(w)
    PROVE  IInv'
<1>1. run[w] # Missing /\ run[w].kind = "sync" /\ run[w].phase = "writing" /\ run[w].todo = {}
    BY DEF FinishSync, Running
<1>2. SyncSound(w) /\ run[w].upto \in Nat
    BY <1>1, RunType DEF IInv, RunsSound, RunSound
<1>3. UNCHANGED <<document, modified, clock, changes, header, lines, gone, unseen, faults>>
      /\ latest' \in {"due", "RUNNING", "ended"}
    BY DEF FinishSync, source, mirror
<1>4. /\ \/ watermark' = watermark
         \/ watermark' = run[w].upto /\ ~run[w].failed
      /\ missed \subseteq missed' /\ missed' \in SUBSET Orders
      /\ ~run[w].failed =>
            \A o \in Orders \cap unseen : o \in missed' \/ ~ (modified[o] + Overlap <= run[w].upto)
    BY DEF FinishSync, Finish, IInv, TypeOK
<1>5. watermark' \in Nat /\ watermark' <= clock
    BY <1>2, <1>4 DEF SyncSound, IInv, TypeOK, TimesInOrder
<1>6. NothingMissed'
    <2> SUFFICES ASSUME NEW o \in Orders, document[o] # Missing, ~Stored(o), watermark' # 0,
                        o \notin missed'
                 PROVE  modified[o] > watermark' - Overlap
        BY <1>3 DEF NothingMissed, Listed, Stored
    <2>1. CASE watermark' = watermark
        BY <1>4, <2>1 DEF IInv, NothingMissed, Listed
    <2>2. CASE watermark' = run[w].upto /\ ~run[w].failed
        <3>1. modified[o] > run[w].upto - Overlap \/ o \in missed \cup unseen
            BY <1>1, <1>2, <2>2 DEF SyncSound, Covered, Pending
        <3>2. o \in missed \cup unseen => ~ (modified[o] + Overlap <= run[w].upto)
            BY <1>4, <2>2
        <3>3. modified[o] \in Nat /\ Overlap \in Nat
            BY BoundsAreNaturals DEF IInv, TypeOK
        <3> QED BY <1>2, <2>2, <3>1, <3>2, <3>3
    <2> QED BY <1>4, <2>1, <2>2
<1>7. /\ run' \in [Workers -> Runs \cup {Missing}]
      /\ AtMostOneRun' /\ RunsSound'
    BY <1>1, MoveStep DEF FinishSync, IInv
<1> QED BY <1>3, <1>4, <1>5, <1>6, <1>7
        DEF IInv, TypeOK, TimesInOrder, GoneSinceStored, HashVouchesForLines

(***************************************************************************)
(* The reconciliation deals with an order.                                 *)
(***************************************************************************)
LEMMA ReconcileOrderStep ==
    ASSUME IInv, NEW w \in Workers, NEW o \in Orders, ReconcileOrder(w, o)
    PROVE  /\ IInv'
           /\ header'[o].active # header[o].active => o \in gone
           /\ \A r \in Orders \ {o} : header'[r] = header[r]
<1> DEFINE p == run[w]
           shown == [l \in Lines |->
                   IF lines[o][l] # Missing /\ l \notin Present(p.read[o])
                   THEN [lines[o][l] EXCEPT !.active = FALSE] ELSE lines[o][l]]
<1>1. p # Missing /\ p.kind # "sync" /\ p.phase = "writing" /\ o \in p.todo
    BY DEF ReconcileOrder, Running
<1>2. ReconcileSound(w) /\ p.failed \in BOOLEAN
    BY <1>1, RunType DEF IInv, RunsSound, RunSound
<1>3. header[o] \in Headers /\ header[o] # Missing /\ (p.read[o] = Missing => o \in gone)
    BY <1>1, <1>2 DEF ReconcileSound, IInv, TypeOK
<1>4. PICK q \in Runs :
          /\ run' = [run EXCEPT ![w] = q]
          /\ run'[w] = q
          /\ q.kind = p.kind /\ q.phase = p.phase /\ q.upto = p.upto
          /\ q.failed = p.failed /\ q.todo = p.todo \ {o}
          /\ q.read[o] = Missing
          /\ \A r \in Orders \ {o} : q.read[r] = p.read[r]
    BY <1>1, <1>2, DoneStep DEF ReconcileOrder, IInv
<1>5. UNCHANGED <<document, modified, clock, changes, watermark, latest, gone, unseen, missed, faults>>
    BY DEF ReconcileOrder, source, schedule, history
<1>6. /\ header' \in [Orders -> Headers \cup {Missing}]
      /\ header'[o] # Missing /\ header'[o].hash = header[o].hash
      /\ header'[o].active # header[o].active => o \in gone
      /\ \A r \in Orders \ {o} : header'[r] = header[r]
    <2>1. [header[o] EXCEPT !.active = FALSE] \in Headers
          /\ [header[o] EXCEPT !.active = FALSE].hash = header[o].hash
        BY <1>3 DEF Headers
    <2>2. \/ header' = header
          \/ p.read[o] = Missing /\ header' = [header EXCEPT ![o].active = FALSE]
        BY DEF ReconcileOrder
    <2> QED BY <1>3, <2>1, <2>2, MissingIsNoRecord DEF IInv, TypeOK
<1>7. ASSUME NEW l \in Lines
      PROVE  /\ shown[l] \in LineRows \cup {Missing}
             /\ lines[o][l] # Missing => shown[l] # Missing /\ shown[l].value = lines[o][l].value
    <2>1. lines[o][l] \in LineRows \cup {Missing}
        BY DEF IInv, TypeOK
    <2>2. lines[o][l] # Missing =>
              /\ [lines[o][l] EXCEPT !.active = FALSE] \in LineRows
              /\ [lines[o][l] EXCEPT !.active = FALSE].value = lines[o][l].value
        BY <2>1 DEF LineRows
    <2> QED BY <2>1, <2>2, MissingIsNoRecord
<1>8. /\ lines' \in [Orders -> [Lines -> LineRows \cup {Missing}]]
      /\ \A r \in Orders, l \in Lines :
            lines[r][l] # Missing => lines'[r][l] # Missing /\ lines'[r][l].value = lines[r][l].value
    <2>1. shown \in [Lines -> LineRows \cup {Missing}]
        BY <1>7
    <2>2. lines' = lines \/ lines' = [lines EXCEPT ![o] = shown]
        BY DEF ReconcileOrder
    <2>3. CASE lines' = lines
        BY <2>3 DEF IInv, TypeOK
    <2>4. CASE lines' = [lines EXCEPT ![o] = shown]
        <3> HIDE DEF shown
        <3> QED BY <1>7, <2>1, <2>4 DEF IInv, TypeOK
    <2> QED BY <2>2, <2>3, <2>4
<1>9. /\ run' \in [Workers -> Runs \cup {Missing}]
      /\ AtMostOneRun' /\ RunsSound'
    <2>1. \A r \in q.todo : r \in p.todo /\ r \in Orders /\ r # o
        BY <1>1, <1>4, RunType DEF IInv
    <2>2. ReconcileSound(w)'
        BY <1>1, <1>2, <1>4, <1>5, <1>6, <2>1 DEF ReconcileSound
    <2>3. RunSound(w)'
        BY <1>1, <1>4, <2>2 DEF RunSound
    <2> QED BY <1>1, <1>4, <2>3, MoveStep DEF IInv
<1>10. \A r \in Orders : /\ header'[r] # Missing <=> header[r] # Missing
                         /\ header[r] # Missing => header'[r].hash = header[r].hash
    BY <1>3, <1>6
<1>11. HashVouchesForLines'
    <2>1. ASSUME NEW r \in Orders, header'[r] # Missing, NEW l \in Present(header'[r].hash)
          PROVE  lines'[r][l] # Missing /\ lines'[r][l].value = header'[r].hash[l]
        <3>1. l \in Lines /\ l \in Present(header[r].hash) /\ header[r] # Missing
            BY <1>10, <2>1 DEF Present
        <3> QED BY <1>8, <1>10, <3>1 DEF IInv, HashVouchesForLines
    <2> QED BY <2>1 DEF HashVouchesForLines
<1>12. NothingMissed' /\ GoneSinceStored'
    BY <1>5, <1>10 DEF IInv, NothingMissed, GoneSinceStored, Stored, Listed
<1>13. TypeOK' /\ TimesInOrder'
    BY <1>5, <1>6, <1>8, <1>9 DEF IInv, TypeOK, TimesInOrder
<1> QED BY <1>6, <1>9, <1>11, <1>12, <1>13 DEF IInv

(***************************************************************************)
(* The ways a run ends without success, and the end of a reconciliation.   *)
(***************************************************************************)
LEMMA OtherEnds ==
    ASSUME IInv, NEW w \in Workers,
           FinishReconcile(w) \/ ReadFails(w) \/ ReadFindsNothing(w) \/ Crash(w)
    PROVE  IInv'
<1>1. run[w] # Missing /\ run' = [run EXCEPT ![w] = Missing]
    BY DEF FinishReconcile, ReadFails, ReadFindsNothing, Crash, AbandonReading, Running
<1>2. UNCHANGED <<source, mirror, watermark, history>>
    BY DEF FinishReconcile, ReadFails, ReadFindsNothing, Crash, AbandonReading, schedule
<1>3. latest' \in {"due", "RUNNING", "ended"} /\ faults' \in Nat
    BY DEF FinishReconcile, ReadFails, ReadFindsNothing, Crash, AbandonReading, schedule, IInv, TypeOK
<1> QED BY <1>1, <1>2, <1>3, EndStep

LEMMA WaitStep ==
    ASSUME IInv, Wait
    PROVE  IInv'
<1>1. UNCHANGED <<document, modified, clock, changes, header, lines, watermark, run, gone,
                  unseen, missed, faults>>
      /\ latest' = "due"
    BY DEF Wait, source, mirror, history
<1> QED BY <1>1
        DEF IInv, TypeOK, TimesInOrder, AtMostOneRun, GoneSinceStored, RunsSound, RunSound, SyncSound,
            ReconcileSound, ReadOld, Covered, Pending, HashVouchesForLines, NothingMissed, Stored, Listed

LEMMA NextIInv == IInv /\ [Next]_vars => IInv'
<1> SUFFICES ASSUME IInv, [Next]_vars PROVE IInv'
    OBVIOUS
<1>1. CASE UNCHANGED vars
    BY <1>1
    DEF vars, IInv, TypeOK, TimesInOrder, AtMostOneRun, GoneSinceStored, RunsSound, RunSound, SyncSound,
        ReconcileSound, ReadOld, Covered, Pending, HashVouchesForLines, NothingMissed, Stored, Listed
<1>2. ASSUME NEW w \in Workers, DispatchSync(w)
      PROVE  IInv'
    BY <1>2, StartSyncStep DEF DispatchSync
<1> QED BY <1>1, <1>2, WriteDocumentStep, DeleteDocumentStep, StartSyncStep, StartReconcileStep,
           ListOrderStep, StartReadingStep, ReadLinesStep, StartWritingStep, StoreOrderStep, StoreFailsStep, FinishSyncStep,
           ReconcileOrderStep, OtherEnds, WaitStep DEF Next, Work

LEMMA Invariance == Spec => []IInv
BY InitIInv, NextIInv, PTL DEF Spec

(***************************************************************************)
(* Every reachable state is well typed (procurement/models.py,             *)
(* integrations/models.py).                                                *)
(***************************************************************************)
THEOREM Typing == Spec => []TypeOK
<1>1. IInv => TypeOK
    BY DEF IInv
<1> QED BY <1>1, Invariance, PTL

(***************************************************************************)
(* The watermark passes a change that is not stored only if it was made    *)
(* behind the page a sync was reading, which then met a change made the    *)
(* overlap or more later (_fetch_all_pages, _finish,                       *)
(* get_last_successful_watermark).                                         *)
(***************************************************************************)
THEOREM WatermarkMissesNothing == Spec => []NothingMissed
<1>1. IInv => NothingMissed
    BY DEF IInv
<1> QED BY <1>1, Invariance, PTL

(***************************************************************************)
(* Lines that an unchanged hash makes an upsert pass over say what the     *)
(* hash says (_upsert_single_purchase_order).                              *)
(***************************************************************************)
THEOREM HashIsTrusted == Spec => []HashVouchesForLines
<1>1. IInv => HashVouchesForLines
    BY DEF IInv
<1> QED BY <1>1, Invariance, PTL

(***************************************************************************)
(* A reconciliation deactivates only what is gone since we stored it       *)
(* (_reconcile).                                                           *)
(***************************************************************************)
THEOREM OnlyTheGoneAreDeactivated == Spec => OnlyGoneDeactivated
<1> DEFINE Kept == \A o \in Orders :
               header[o] # Missing /\ header[o].active /\ ~header'[o].active => o \in gone
<1>1. ASSUME IInv, [Next]_vars
      PROVE  Kept
    <2>1. CASE UNCHANGED header
        BY <2>1
    <2>2. ASSUME NEW w \in Workers, NEW o \in Orders, StoreOrder(w, o)
          PROVE  Kept
        <3>1. header' = [header EXCEPT ![o] = [hash |-> run[w].read[o], active |-> TRUE]]
            BY <2>2 DEF StoreOrder, Upsert
        <3> QED BY <3>1 DEF IInv, TypeOK
    <2>3. ASSUME NEW w \in Workers, NEW o \in Orders, ReconcileOrder(w, o)
          PROVE  Kept
        BY <1>1, <2>3, ReconcileOrderStep
    <2>4. CASE Next
        <3>1. \/ UNCHANGED header
              \/ \E w \in Workers, o \in Orders : StoreOrder(w, o) \/ ReconcileOrder(w, o)
            <4>1. ASSUME NEW o \in Orders, WriteDocument(o) \/ DeleteDocument(o)
                  PROVE  UNCHANGED header
                BY <4>1 DEF WriteDocument, DeleteDocument, mirror
            <4>2. ASSUME NEW w \in Workers, NEW o \in Orders,
                         ListOrder(w, o) \/ ReadLines(w, o) \/ StoreFails(w, o)
                  PROVE  UNCHANGED header
                BY <4>2 DEF ListOrder, ReadLines, StoreFails, mirror
            <4>3. ASSUME NEW w \in Workers,
                         \/ StartSync(w) \/ DispatchSync(w) \/ StartReconcile(w)
                         \/ StartReading(w) \/ StartWriting(w) \/ ReadFails(w) \/ Crash(w)
                         \/ FinishSync(w) \/ FinishReconcile(w) \/ ReadFindsNothing(w)
                  PROVE  UNCHANGED header
                BY <4>3 DEF StartSync, DispatchSync, StartReconcile, StartReading, StartWriting,
                            ReadFails, Crash, FinishSync, FinishReconcile, ReadFindsNothing,
                            AbandonReading, mirror
            <4>4. Wait => UNCHANGED header
                BY DEF Wait, mirror
            <4> QED BY <2>4, <4>1, <4>2, <4>3, <4>4 DEF Next, Work
        <3> QED BY <2>1, <2>2, <2>3, <3>1
    <2> QED BY <1>1, <2>1, <2>4 DEF vars
<1>2. IInv /\ [Next]_vars => [Kept]_vars
    BY <1>1
<1> QED BY <1>2, Invariance, PTL DEF Spec, OnlyGoneDeactivated
===============================================================================
