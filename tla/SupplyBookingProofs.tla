-------------------------- MODULE SupplyBookingProofs --------------------------
(***************************************************************************)
(* Proofs about SupplyBooking, for any lines, containers, deliveries and   *)
(* requests, and for any quantities.                                       *)
(*                                                                         *)
(* Whole batches: a transaction accounts at each step for every assignment *)
(* of its batch; it is to be looked at yet, or a row for it is there to be *)
(* seen, or its line is gone (Sound).  Origins: of two transactions that   *)
(* hold the lock of a container one has ended (LocksApart), so that what a *)
(* request has read of the container's origin stays true until it writes.  *)
(*                                                                         *)
(* Exact bookings: as long as nobody overtakes a booking, what it has read *)
(* is what there is, and its own rows leave their lines within the order   *)
(* and double nothing (Current).  Its rows enter the total one by one,     *)
(* which takes the meaning of a sum over a set (TotalGrows).               *)
(***************************************************************************)
EXTENDS SupplyBooking, FiniteSetTheorems, TLAPS

Booking(q) == q # None /\ q.step \in {"opening", "checking", "inserting"}

Linking(q) == q # None /\ q.step \in {"locking", "reading", "writing"}

Locking(q) == q # None /\ q.step \in {"reading", "writing"}

(***************************************************************************)
(* An assignment of a transaction that need not be looked at any more, in  *)
(* terms of the rows there are and of the lines that are deleted.          *)
(***************************************************************************)
Settled(q, a, rows, lines) ==
    lines[a.line] = None \/ \E row \in rows \cup q.made : Matches(row, q.delivery, a)

Sound(q, rows, lines, origins) ==
    /\ Booking(q) =>
          /\ q.batch # {}
          /\ q.step = "inserting" => q.checked \in Assignments
          /\ \A a \in q.batch : \/ a \in q.todo
                                \/ q.step = "inserting" /\ a = q.checked
                                \/ Settled(q, a, rows, lines)
    /\ q # None /\ q.step = "writing" => origins[q.container] = None

RequestsSound == \A r \in Requests : Sound(request[r], booked, ordered, acquired)

LocksApart ==
    \A r, s \in Requests :
        Locking(request[r]) /\ Locking(request[s]) /\ request[r].container = request[s].container
            => r = s

IInv == TypeOK /\ RequestsSound /\ LocksApart /\ WholeBatches

LEMMA InitIInv == Init => IInv
<1> SUFFICES ASSUME Init PROVE IInv
    OBVIOUS
<1>1. ordered \in [Lines -> Quantities \cup {None}]
    BY BoundsAreNaturals DEF Init, Quantities
<1>2. request \in [Requests -> Bookings \cup Links \cup {None}] /\ \A r \in Requests : request[r] = None
    BY DEF Init
<1>3. TypeOK
    BY <1>1, <1>2, BoundsAreNaturals DEF Init, TypeOK
<1> QED BY <1>2, <1>3 DEF Init, IInv, RequestsSound, Sound, Booking, LocksApart, Locking, WholeBatches

(***************************************************************************)
(* The step tells the two kinds of requests apart.                         *)
(***************************************************************************)
LEMMA Kinds ==
    ASSUME TypeOK, NEW r \in Requests
    PROVE  /\ Booking(request[r]) => request[r] \in Bookings
           /\ Linking(request[r]) => request[r] \in Links
<1>1. request[r] \in Bookings \/ request[r] \in Links \/ request[r] = None
    BY DEF TypeOK
<1>2. ASSUME request[r] \in Bookings PROVE ~Linking(request[r])
    BY <1>2 DEF Bookings, Linking
<1>3. ASSUME request[r] \in Links PROVE ~Booking(request[r])
    BY <1>3 DEF Links, Booking
<1> QED BY <1>1, <1>2, <1>3 DEF Booking, Linking

(***************************************************************************)
(* What the rest of the world may do to a request that does not move:      *)
(* lines stay deleted, rows go only with their lines, and a container that *)
(* has no origin is given none while a request is about to give it one.    *)
(***************************************************************************)
Persists ==
    /\ \A l \in Lines : ordered[l] = None => ordered'[l] = None
    /\ \A row \in booked : row \in booked' \/ ordered'[row.line] = None

LEMMA SoundPersists ==
    ASSUME TypeOK, Persists, NEW r \in Requests,
           Sound(request[r], booked, ordered, acquired),
           \/ acquired' = acquired
           \/ Busy(r, "writing") => acquired'[request[r].container] = None
    PROVE  Sound(request[r], booked', ordered', acquired')
<1> DEFINE q == request[r]
<1>1. ASSUME Booking(q), NEW a \in q.batch
      PROVE  \/ a \in q.todo
             \/ q.step = "inserting" /\ a = q.checked
             \/ Settled(q, a, booked', ordered')
    <2>1. a \in Assignments /\ a.line \in Lines
        BY <1>1, Kinds DEF Bookings, Assignments
    <2>2. CASE Settled(q, a, booked, ordered)
        <3>1. CASE ordered[a.line] = None
            BY <2>1, <3>1 DEF Persists, Settled
        <3>2. CASE \E row \in booked \cup q.made : Matches(row, q.delivery, a)
            <4>1. PICK row \in booked \cup q.made : Matches(row, q.delivery, a)
                BY <3>2
            <4>2. row \in booked' \cup q.made \/ ordered'[row.line] = None
                BY <4>1 DEF Persists
            <4>3. row.line = a.line
                BY <4>1 DEF Matches
            <4> QED BY <4>1, <4>2, <4>3 DEF Settled
        <3> QED BY <2>2, <3>1, <3>2 DEF Settled
    <2> QED BY <1>1, <2>2 DEF Sound
<1>2. q # None /\ q.step = "writing" => acquired'[q.container] = None
    BY DEF Sound, Busy
<1> QED BY <1>1, <1>2 DEF Sound

(***************************************************************************)
(* One request moves on and the others stay as they are.                   *)
(***************************************************************************)
LEMMA MoveStep ==
    ASSUME IInv, Persists, NEW r \in Requests, NEW q \in Bookings \cup Links \cup {None},
           request' = [request EXCEPT ![r] = q],
           Sound(q, booked', ordered', acquired'),
           \A s \in Requests \ {r} :
               Locking(q) /\ Locking(request[s]) => request[s].container # q.container,
           \A s \in Requests \ {r} :
               \/ acquired' = acquired
               \/ Busy(s, "writing") => acquired'[request[s].container] = None
    PROVE  /\ request' \in [Requests -> Bookings \cup Links \cup {None}]
           /\ RequestsSound'
           /\ LocksApart'
<1>1. request' \in [Requests -> Bookings \cup Links \cup {None}]
    BY DEF IInv, TypeOK
<1>2. request'[r] = q /\ \A s \in Requests \ {r} : request'[s] = request[s]
    BY DEF IInv, TypeOK
<1>3. \A s \in Requests \ {r} : Sound(request'[s], booked', ordered', acquired')
    BY <1>2, SoundPersists DEF IInv, RequestsSound
<1>4. RequestsSound'
    BY <1>2, <1>3 DEF RequestsSound
<1>5. ASSUME NEW s \in Requests, NEW t \in Requests, Locking(request'[s]), Locking(request'[t]),
             request'[s].container = request'[t].container
      PROVE  s = t
    BY <1>2, <1>5 DEF IInv, LocksApart
<1>6. LocksApart'
    BY <1>5 DEF LocksApart
<1> QED BY <1>1, <1>4, <1>6

(***************************************************************************)
(* Steps of a request that change nothing but the request.                 *)
(***************************************************************************)
LEMMA OwnStep ==
    ASSUME IInv, NEW r \in Requests, NEW q \in Bookings \cup Links \cup {None},
           request' = [request EXCEPT ![r] = q],
           Sound(q, booked, ordered, acquired),
           \A s \in Requests \ {r} :
               Locking(q) /\ Locking(request[s]) => request[s].container # q.container,
           UNCHANGED <<ordered, deliveries, booked, acquired, fulfilled, changes>>,
           overtaken' \in SUBSET Requests
    PROVE  IInv'
<1>1. Persists
    BY DEF Persists
<1>2. /\ request' \in [Requests -> Bookings \cup Links \cup {None}]
      /\ RequestsSound' /\ LocksApart'
    BY <1>1, MoveStep
<1> QED BY <1>2 DEF IInv, TypeOK, WholeBatches

LEMMA StopStep ==
    ASSUME IInv, NEW r \in Requests, Stop(r),
           UNCHANGED <<ordered, deliveries, booked, acquired, overtaken, fulfilled, changes>>
    PROVE  IInv'
<1>1. Sound(None, booked, ordered, acquired) /\ ~Locking(None)
    BY DEF Sound, Booking, Locking
<1> QED BY <1>1, OwnStep DEF Stop, IInv, TypeOK

LEMMA SubmitStep ==
    ASSUME IInv, NEW r \in Requests, Submit(r)
    PROVE  IInv'
<1>1. PICK d \in Deliveries, batch \in SUBSET Assignments :
          /\ batch # {}
          /\ request' = [request EXCEPT ![r] =
                 [step |-> "opening", delivery |-> d, new |-> d \notin deliveries,
                  ordered |-> ordered, batch |-> batch, todo |-> batch,
                  checked |-> None, made |-> {}]]
    BY DEF Submit
<1> DEFINE q == [step |-> "opening", delivery |-> d, new |-> d \notin deliveries,
                 ordered |-> ordered, batch |-> batch, todo |-> batch,
                 checked |-> None, made |-> {}]
<1>2. q \in Bookings
    <2>1. (d \notin deliveries) \in BOOLEAN
        OBVIOUS
    <2> QED BY <2>1 DEF Bookings, IInv, TypeOK
<1>3. Sound(q, booked, ordered, acquired) /\ ~Locking(q)
    BY <1>1 DEF Sound, Locking
<1>4. request' = [request EXCEPT ![r] = q]
    BY <1>1
<1> HIDE DEF q
<1>5. overtaken' \in SUBSET Requests
    BY DEF Submit, IInv, TypeOK
<1> QED BY <1>2, <1>3, <1>4, <1>5, OwnStep DEF Submit

LEMMA OpenStep ==
    ASSUME IInv, NEW r \in Requests, Open(r)
    PROVE  IInv'
<1> DEFINE q == [request[r] EXCEPT !.step = "checking"]
<1>1. Booking(request[r]) /\ request[r].step = "opening"
    BY DEF Open, Busy, Booking
<1>2. request[r] \in Bookings
    BY <1>1, Kinds DEF IInv
<1>3. CASE Stop(r)
    BY <1>3, StopStep DEF Open
<1>4. CASE request' = [request EXCEPT ![r].step = "checking"]
    <2>1. q \in Bookings
        BY <1>2 DEF Bookings
    <2>2. /\ q.batch = request[r].batch /\ q.todo = request[r].todo /\ q.made = request[r].made
          /\ q.delivery = request[r].delivery /\ q.step = "checking"
        BY <1>2 DEF Bookings
    <2>3. Sound(request[r], booked, ordered, acquired)
        BY DEF IInv, RequestsSound
    <2>4. request' = [request EXCEPT ![r] = q]
        BY <1>4
    <2> HIDE DEF q
    <2>5. Sound(q, booked, ordered, acquired) /\ ~Locking(q)
        BY <1>1, <2>2, <2>3 DEF Sound, Booking, Locking, Settled
    <2> QED BY <2>1, <2>4, <2>5, OwnStep DEF Open, IInv, TypeOK
<1> QED BY <1>3, <1>4 DEF Open

LEMMA CheckStep ==
    ASSUME IInv, NEW r \in Requests, Check(r)
    PROVE  IInv'
<1>1. Booking(request[r]) /\ request[r].step = "checking"
    BY DEF Check, Busy, Booking
<1>2. request[r] \in Bookings
    BY <1>1, Kinds DEF IInv
<1>3. PICK a \in request[r].todo :
          request' = [request EXCEPT
              ![r].todo = @ \ {a},
              ![r].step = IF AlreadyBooked(r, a) THEN "checking" ELSE "inserting",
              ![r].checked = IF AlreadyBooked(r, a) THEN None ELSE a]
    BY DEF Check
<1> DEFINE q == [request[r] EXCEPT
              !.todo = @ \ {a},
              !.step = IF AlreadyBooked(r, a) THEN "checking" ELSE "inserting",
              !.checked = IF AlreadyBooked(r, a) THEN None ELSE a]
<1>4. request' = [request EXCEPT ![r] = q]
    BY <1>3 DEF IInv, TypeOK
<1>5. a \in Assignments
    BY <1>2 DEF Bookings
<1>6. /\ q \in Bookings
      /\ q.batch = request[r].batch /\ q.todo = request[r].todo \ {a}
      /\ q.made = request[r].made /\ q.delivery = request[r].delivery
      /\ q.step = IF AlreadyBooked(r, a) THEN "checking" ELSE "inserting"
      /\ q.checked = IF AlreadyBooked(r, a) THEN None ELSE a
    BY <1>2, <1>5 DEF Bookings
<1> HIDE DEF q
<1>7. Sound(request[r], booked, ordered, acquired)
    BY DEF IInv, RequestsSound
<1>8. \A b \in q.batch : \/ b \in q.todo
                         \/ q.step = "inserting" /\ b = q.checked
                         \/ Settled(q, b, booked, ordered)
    <2> SUFFICES ASSUME NEW b \in q.batch, b \notin q.todo
                 PROVE  \/ q.step = "inserting" /\ b = q.checked
                        \/ Settled(q, b, booked, ordered)
        OBVIOUS
    <2>1. CASE b = a
        <3>1. CASE AlreadyBooked(r, a)
            BY <1>6, <2>1, <3>1 DEF AlreadyBooked, Visible, Settled
        <3>2. CASE ~AlreadyBooked(r, a)
            BY <1>6, <2>1, <3>2
        <3> QED BY <3>1, <3>2
    <2>2. CASE b # a
        <3>1. Settled(request[r], b, booked, ordered)
            BY <1>1, <1>6, <1>7, <2>2 DEF Sound
        <3> QED BY <1>6, <3>1 DEF Settled
    <2> QED BY <2>1, <2>2
<1>9. Sound(q, booked, ordered, acquired) /\ ~Locking(q)
    BY <1>1, <1>5, <1>6, <1>7, <1>8 DEF Sound, Locking
<1> QED BY <1>4, <1>6, <1>9, OwnStep DEF Check, IInv, TypeOK

LEMMA InsertStep ==
    ASSUME IInv, NEW r \in Requests, Insert(r)
    PROVE  IInv'
<1>1. Booking(request[r]) /\ request[r].step = "inserting"
    BY DEF Insert, Busy, Booking
<1>2. request[r] \in Bookings
    BY <1>1, Kinds DEF IInv
<1>3. Sound(request[r], booked, ordered, acquired)
    BY DEF IInv, RequestsSound
<1> DEFINE a == request[r].checked
           row == [delivery |-> request[r].delivery, container |-> a.container, line |-> a.line,
                   qty |-> a.qty, by |-> r]
           q == [request[r] EXCEPT !.step = "checking", !.checked = None, !.made = @ \cup {row}]
<1>4. a \in Assignments
    BY <1>1, <1>3 DEF Sound
<1>5. CASE ~Fits(r, a)
    <2>1. Stop(r)
        BY <1>5 DEF Insert, Reject
    <2> QED BY <2>1, StopStep DEF Insert
<1>6. CASE Fits(r, a)
    <2>1. request' = [request EXCEPT ![r] = q]
        BY <1>6 DEF Insert, IInv, TypeOK
    <2>2. row \in Rows /\ Matches(row, request[r].delivery, a)
        BY <1>2, <1>4 DEF Rows, Assignments, Bookings, Matches
    <2> HIDE DEF a, row
    <2>3. /\ q \in Bookings
          /\ q.batch = request[r].batch /\ q.todo = request[r].todo
          /\ q.made = request[r].made \cup {row} /\ q.delivery = request[r].delivery
          /\ q.step = "checking"
        BY <1>2, <2>2 DEF Bookings
    <2> HIDE DEF q
    <2>4. \A b \in q.batch : b \in q.todo \/ Settled(q, b, booked, ordered)
        <3> SUFFICES ASSUME NEW b \in q.batch, b \notin q.todo
                     PROVE  Settled(q, b, booked, ordered)
            OBVIOUS
        <3>1. CASE b = a
            BY <2>2, <2>3, <3>1 DEF Settled
        <3>2. CASE b # a
            <4>1. Settled(request[r], b, booked, ordered)
                BY <1>1, <1>3, <2>3, <3>2 DEF Sound, a
            <4> QED BY <2>3, <4>1 DEF Settled
        <3> QED BY <3>1, <3>2
    <2>5. Sound(q, booked, ordered, acquired) /\ ~Locking(q)
        BY <1>1, <1>3, <2>3, <2>4 DEF Sound, Locking
    <2> QED BY <2>1, <2>3, <2>5, OwnStep DEF Insert, IInv, TypeOK
<1> QED BY <1>5, <1>6

LEMMA CommitStep ==
    ASSUME IInv, NEW r \in Requests, Commit(r)
    PROVE  IInv'
<1> DEFINE q == request[r]
           news == {[delivery |-> q.delivery, assignment |-> a] :
                        a \in {a \in q.batch : ordered[a.line] # None}}
<1>1. Booking(q) /\ q.step = "checking" /\ q.todo = {}
    BY DEF Commit, Busy, Booking
<1>2. q \in Bookings
    BY <1>1, Kinds DEF IInv
<1>3. q.batch # {} /\ \A a \in q.batch : Settled(q, a, booked, ordered)
    BY <1>1 DEF IInv, RequestsSound, Sound
<1>4. Stop(r) /\ UNCHANGED <<ordered, acquired, changes>>
    BY DEF Commit
<1>5. CASE UNCHANGED <<booked, deliveries, fulfilled, overtaken>>
    BY <1>4, <1>5, StopStep
<1>6. CASE /\ booked' = booked \cup q.made
           /\ deliveries' = IF q.new THEN deliveries \cup {q.delivery} ELSE deliveries
           /\ fulfilled' = fulfilled \cup news
           /\ overtaken' = IF q.made = {} THEN overtaken
                           ELSE overtaken \cup {s \in InProgress \ {r} :
                                                    request[s].step \in {"checking", "inserting"}}
    <2>1. Persists
        BY <1>4, <1>6 DEF Persists
    <2>2. /\ request' \in [Requests -> Bookings \cup Links \cup {None}]
          /\ RequestsSound' /\ LocksApart'
        <3>1. Sound(None, booked', ordered', acquired') /\ ~Locking(None)
            BY DEF Sound, Booking, Locking
        <3> QED BY <1>4, <2>1, <3>1, MoveStep DEF Stop
    <2>3. booked' \in SUBSET Rows /\ deliveries' \in SUBSET Deliveries
        BY <1>2, <1>6 DEF Bookings, IInv, TypeOK
    <2>4. overtaken' \in SUBSET Requests
        BY <1>6 DEF InProgress, IInv, TypeOK
    <2>5. news \in SUBSET [delivery : Deliveries, assignment : Assignments]
        BY <1>2 DEF Bookings
    <2>6. \A f \in fulfilled' : \E row \in booked' : Matches(row, f.delivery, f.assignment)
        <3>1. ASSUME NEW f \in news
              PROVE  \E row \in booked' : Matches(row, f.delivery, f.assignment)
            <4>1. PICK a \in q.batch :
                      f = [delivery |-> q.delivery, assignment |-> a] /\ ordered[a.line] # None
                OBVIOUS
            <4>2. PICK row \in booked \cup q.made : Matches(row, q.delivery, a)
                BY <1>3, <4>1 DEF Settled
            <4> QED BY <1>6, <4>1, <4>2
        <3> HIDE DEF news
        <3> QED BY <1>6, <3>1 DEF IInv, WholeBatches
    <2> HIDE DEF news
    <2>7. ASSUME NEW d \in deliveries' \ Existing
          PROVE  (\E row \in booked' : row.delivery = d) \/ \E l \in Lines : ordered'[l] = None
        <3>1. CASE d \in deliveries
            BY <1>4, <1>6, <2>7, <3>1 DEF IInv, WholeBatches
        <3>2. CASE d = q.delivery
            <4>1. PICK a \in q.batch : Settled(q, a, booked, ordered)
                BY <1>3
            <4>2. a.line \in Lines
                BY <1>2 DEF Bookings, Assignments
            <4> QED BY <1>4, <1>6, <3>2, <4>1, <4>2 DEF Settled, Matches
        <3> QED BY <1>6, <2>7, <3>1, <3>2
    <2> QED BY <1>4, <1>6, <2>2, <2>3, <2>4, <2>5, <2>6, <2>7 DEF IInv, TypeOK, WholeBatches
<1> QED BY <1>5, <1>6 DEF Commit

(***************************************************************************)
(* The requests that link a container.                                     *)
(***************************************************************************)
LEMMA LinkStep ==
    ASSUME IInv, NEW r \in Requests, AskLink(r) \/ Lock(r) \/ ReadOrigin(r) \/ WriteOrigin(r)
    PROVE  IInv'
<1> DEFINE q == request[r]
           reading == [q EXCEPT !.step = "reading"]
           writing == [q EXCEPT !.step = "writing"]
<1>1. CASE AskLink(r)
    <2>1. PICK c \in Containers, l \in Lines :
              request' = [request EXCEPT ![r] = [step |-> "locking", container |-> c, line |-> l]]
        BY <1>1 DEF AskLink
    <2> DEFINE new == [step |-> "locking", container |-> c, line |-> l]
    <2>2. new \in Links /\ Sound(new, booked, ordered, acquired) /\ ~Locking(new)
        BY DEF Links, Sound, Booking, Locking
    <2>3. request' = [request EXCEPT ![r] = new]
        BY <2>1
    <2> HIDE DEF new
    <2> QED BY <1>1, <2>2, <2>3, OwnStep DEF AskLink, IInv, TypeOK
<1>2. CASE Lock(r)
    <2>1. Linking(q)
        BY <1>2 DEF Lock, Busy, Linking
    <2>2. q \in Links
        BY <2>1, Kinds DEF IInv
    <2>3. reading \in Links /\ reading.container = q.container /\ reading.step = "reading"
        BY <2>2 DEF Links
    <2>4. request' = [request EXCEPT ![r] = reading]
        BY <1>2 DEF Lock, IInv, TypeOK
    <2>5. \A s \in Requests \ {r} : Locking(request[s]) => request[s].container # reading.container
        BY <1>2, <2>3 DEF Lock, LockFree, InProgress, Locking
    <2> HIDE DEF reading
    <2>6. Sound(reading, booked, ordered, acquired)
        BY <2>3 DEF Sound, Booking
    <2> QED BY <1>2, <2>3, <2>4, <2>5, <2>6, OwnStep DEF Lock, IInv, TypeOK
<1>3. CASE ReadOrigin(r)
    <2>1. Linking(q) /\ Locking(q)
        BY <1>3 DEF ReadOrigin, Busy, Linking, Locking
    <2>2. q \in Links
        BY <2>1, Kinds DEF IInv
    <2>3. CASE Stop(r)
        BY <1>3, <2>3, StopStep DEF ReadOrigin
    <2>4. CASE ~Stop(r)
        <3>1. writing \in Links /\ writing.container = q.container /\ writing.step = "writing"
            BY <2>2 DEF Links
        <3>2. request' = [request EXCEPT ![r] = writing] /\ acquired[q.container] = None
            BY <1>3, <2>4 DEF ReadOrigin, IInv, TypeOK
        <3> HIDE DEF writing
        <3>3. \A s \in Requests \ {r} : Locking(request[s]) => request[s].container # writing.container
            BY <2>1, <3>1 DEF IInv, LocksApart
        <3>4. Sound(writing, booked, ordered, acquired)
            BY <3>1, <3>2 DEF Sound, Booking
        <3> QED BY <1>3, <3>1, <3>2, <3>3, <3>4, OwnStep DEF ReadOrigin, IInv, TypeOK
    <2> QED BY <2>3, <2>4
<1>4. CASE WriteOrigin(r)
    <2>1. Linking(q) /\ Locking(q)
        BY <1>4 DEF WriteOrigin, Busy, Linking, Locking
    <2>2. q \in Links /\ q.container \in Containers /\ q.line \in Lines
        BY <2>1, Kinds DEF IInv, Links
    <2>3. /\ acquired' \in [Containers -> Lines \cup {None}]
          /\ \A c \in Containers \ {q.container} : acquired'[c] = acquired[c]
        BY <1>4, <2>2 DEF WriteOrigin, IInv, TypeOK
    <2>4. Persists
        BY <1>4 DEF WriteOrigin, Persists
    <2>5. ASSUME NEW s \in Requests \ {r}, Busy(s, "writing")
          PROVE  acquired'[request[s].container] = None
        <3>1. Linking(request[s]) /\ Locking(request[s])
            BY <2>5 DEF Busy, Linking, Locking
        <3>2. request[s].container \in Containers
            BY <3>1, Kinds DEF IInv, Links
        <3>3. request[s].container # q.container
            BY <2>1, <3>1 DEF IInv, LocksApart
        <3>4. acquired[request[s].container] = None
            BY <2>5 DEF IInv, RequestsSound, Sound, Busy
        <3> QED BY <2>3, <3>2, <3>3, <3>4
    <2>6. Sound(None, booked', ordered', acquired') /\ ~Locking(None)
        BY DEF Sound, Booking, Locking
    <2>7. /\ request' \in [Requests -> Bookings \cup Links \cup {None}]
          /\ RequestsSound' /\ LocksApart'
        BY <1>4, <2>4, <2>5, <2>6, MoveStep DEF WriteOrigin, Stop
    <2> QED BY <1>4, <2>3, <2>7 DEF WriteOrigin, IInv, TypeOK, WholeBatches
<1> QED BY <1>1, <1>2, <1>3, <1>4

(***************************************************************************)
(* Steps that move no request.                                             *)
(***************************************************************************)
LEMMA SurroundingStep ==
    ASSUME IInv, Persists, UNCHANGED request,
           \A c \in Containers : acquired'[c] \in {acquired[c], None}
    PROVE  RequestsSound' /\ LocksApart'
<1>1. ASSUME NEW r \in Requests
      PROVE  Sound(request[r], booked', ordered', acquired')
    <2>1. Busy(r, "writing") => acquired'[request[r].container] = None
        <3> SUFFICES ASSUME Busy(r, "writing") PROVE acquired'[request[r].container] = None
            OBVIOUS
        <3>1. request[r].container \in Containers
            BY Kinds DEF IInv, Busy, Linking, Links
        <3>2. acquired[request[r].container] = None
            BY DEF IInv, RequestsSound, Sound, Busy
        <3> QED BY <3>1, <3>2
    <2> QED BY <2>1, SoundPersists DEF IInv, RequestsSound
<1> QED BY <1>1 DEF RequestsSound, LocksApart, IInv

LEMMA UnlinkStep ==
    ASSUME IInv, NEW c \in Containers, Unlink(c)
    PROVE  IInv'
<1>1. Persists
    BY DEF Unlink, Persists
<1>2. /\ acquired' \in [Containers -> Lines \cup {None}]
      /\ \A d \in Containers : acquired'[d] \in {acquired[d], None}
    BY DEF Unlink, IInv, TypeOK
<1>3. RequestsSound' /\ LocksApart'
    BY <1>1, <1>2, SurroundingStep DEF Unlink
<1> QED BY <1>2, <1>3 DEF Unlink, IInv, TypeOK, WholeBatches

LEMMA ChangeOrderedStep ==
    ASSUME IInv, NEW l \in Lines, ChangeOrdered(l)
    PROVE  IInv'
<1>1. /\ ordered' \in [Lines -> Quantities \cup {None}]
      /\ \A m \in Lines : ordered[m] = None => ordered'[m] = None
    BY DEF ChangeOrdered, IInv, TypeOK
<1>2. Persists
    BY <1>1 DEF ChangeOrdered, Persists
<1>3. RequestsSound' /\ LocksApart'
    BY <1>2, SurroundingStep DEF ChangeOrdered
<1>4. changes' \in 0 .. MaxChanges /\ overtaken' \in SUBSET Requests
    BY BoundsAreNaturals DEF ChangeOrdered, InProgress, IInv, TypeOK
<1> QED BY <1>1, <1>3, <1>4 DEF ChangeOrdered, IInv, TypeOK, WholeBatches

LEMMA DeleteLineStep ==
    ASSUME IInv, NEW l \in Lines, DeleteLine(l)
    PROVE  IInv'
<1>1. /\ ordered' \in [Lines -> Quantities \cup {None}]
      /\ ordered'[l] = None
      /\ \A m \in Lines : ordered[m] = None => ordered'[m] = None
    BY DEF DeleteLine, IInv, TypeOK
<1>2. Persists
    BY <1>1 DEF DeleteLine, Persists
<1>3. /\ acquired' \in [Containers -> Lines \cup {None}]
      /\ \A c \in Containers : acquired'[c] \in {acquired[c], None}
    BY DEF DeleteLine, IInv, TypeOK
<1>4. RequestsSound' /\ LocksApart'
    BY <1>2, <1>3, SurroundingStep DEF DeleteLine
<1>5. changes' \in 0 .. MaxChanges /\ overtaken' \in SUBSET Requests
    BY BoundsAreNaturals DEF DeleteLine, InProgress, IInv, TypeOK
<1>6. booked' \in SUBSET Rows /\ fulfilled' \in SUBSET [delivery : Deliveries, assignment : Assignments]
    BY DEF DeleteLine, IInv, TypeOK
<1>7. ASSUME NEW f \in fulfilled'
      PROVE  \E row \in booked' : Matches(row, f.delivery, f.assignment)
    <2>1. f \in fulfilled /\ f.assignment.line # l
        BY DEF DeleteLine
    <2>2. PICK row \in booked : Matches(row, f.delivery, f.assignment)
        BY <2>1 DEF IInv, WholeBatches
    <2>3. row \in booked'
        BY <2>1, <2>2 DEF DeleteLine, Matches
    <2> QED BY <2>2, <2>3
<1> QED BY <1>1, <1>3, <1>4, <1>5, <1>6, <1>7 DEF DeleteLine, IInv, TypeOK, WholeBatches

LEMMA NextIInv == IInv /\ [Next]_vars => IInv'
<1> SUFFICES ASSUME IInv, [Next]_vars PROVE IInv'
    OBVIOUS
<1>1. CASE UNCHANGED vars
    BY <1>1 DEF vars, IInv, TypeOK, RequestsSound, LocksApart, WholeBatches
<1>2. ASSUME NEW r \in Requests, Die(r)
      PROVE  IInv'
    BY <1>2, StopStep DEF Die
<1> QED BY <1>1, <1>2, SubmitStep, OpenStep, CheckStep, InsertStep, CommitStep, LinkStep,
           UnlinkStep, ChangeOrderedStep, DeleteLineStep DEF Next

LEMMA Invariance == Spec => []IInv
BY InitIInv, NextIInv, PTL DEF Spec

(***************************************************************************)
(* Every reachable state is well typed (supplier_deliveries/models.py,     *)
(* procurement/models.py).                                                 *)
(***************************************************************************)
THEOREM Typing == Spec => []TypeOK
<1>1. IInv => TypeOK
    BY DEF IInv
<1> QED BY <1>1, Invariance, PTL

(***************************************************************************)
(* A batch of container bookings is stored as a whole or not at all        *)
(* (supplier_delivery_link_containers).                                    *)
(***************************************************************************)
THEOREM BatchesAreWhole == Spec => []WholeBatches
<1>1. IInv => WholeBatches
    BY DEF IInv
<1> QED BY <1>1, Invariance, PTL

(***************************************************************************)
(* A container's origin is written only where there is none                *)
(* (link_acquired_container).                                              *)
(***************************************************************************)
THEOREM OriginIsWrittenOnce == Spec => []LoserReadsWinner
<1>1. IInv => LoserReadsWinner
    BY DEF IInv, RequestsSound, Sound, LoserReadsWinner, Busy
<1> QED BY <1>1, Invariance, PTL
-------------------------------------------------------------------------------
(***************************************************************************)
(* What a total adds up to.  The library sums over a set by recursion on   *)
(* its subsets; counting the units each row stands for is the same number, *)
(* and one that the theorems on cardinalities speak of.                    *)
(***************************************************************************)
Units(rows) == {u \in rows \X (1 .. MaxQty) : u[2] <= u[1].qty}

First(rows) == CHOOSE row \in rows : TRUE

LEMMA UnitsFinite ==
    ASSUME NEW rows, IsFiniteSet(rows)
    PROVE  IsFiniteSet(Units(rows)) /\ Cardinality(Units(rows)) \in Nat
<1>1. IsFiniteSet(1 .. MaxQty)
    BY FS_Interval, BoundsAreNaturals
<1>2. IsFiniteSet(rows \X (1 .. MaxQty))
    BY <1>1, FS_Product
<1>3. Units(rows) \in SUBSET (rows \X (1 .. MaxQty))
    BY DEF Units
<1>4. IsFiniteSet(Units(rows))
    BY <1>2, <1>3, FS_Subset
<1> QED BY <1>4, FS_CardinalityType

LEMMA OneMoreRow ==
    ASSUME NEW rows \in SUBSET Rows, IsFiniteSet(rows), NEW row \in Rows, row \notin rows
    PROVE  Cardinality(Units(rows \cup {row})) = Cardinality(Units(rows)) + row.qty
<1> DEFINE new == {row} \X (1 .. row.qty)
<1>1. row.qty \in 0 .. MaxQty /\ row.qty \in Nat
    BY BoundsAreNaturals DEF Rows, Quantities
<1>2. IsFiniteSet({row}) /\ Cardinality({row}) = 1
    BY FS_Singleton
<1>3. IsFiniteSet(1 .. row.qty) /\ Cardinality(1 .. row.qty) = row.qty
    BY <1>1, FS_Interval
<1>4. IsFiniteSet(new) /\ Cardinality(new) = row.qty
    <2>1. IsFiniteSet(new) /\ Cardinality(new) = Cardinality({row}) * Cardinality(1 .. row.qty)
        BY <1>2, <1>3, FS_Product
    <2> QED BY <1>1, <1>2, <1>3, <2>1
<1>5. Units(rows \cup {row}) = Units(rows) \cup new
    BY <1>1, BoundsAreNaturals DEF Units
<1>6. Units(rows) \cap new = {}
    BY DEF Units
<1>7. IsFiniteSet(Units(rows)) /\ Cardinality(Units(rows)) \in Nat
    BY UnitsFinite
<1>8. Cardinality(Units(rows) \cup new)
        = Cardinality(Units(rows)) + Cardinality(new) - Cardinality(Units(rows) \cap new)
    BY <1>4, <1>7, FS_Union
<1>9. Cardinality(Units(rows) \cap new) = 0
    BY <1>6, FS_EmptySet
<1>10. Cardinality(Units(rows) \cup new) = Cardinality(Units(rows)) + row.qty
    <2> DEFINE before == Cardinality(Units(rows))
    <2>1. before \in Nat /\ Cardinality(Units(rows) \cup new) = before + row.qty - 0
        BY <1>4, <1>7, <1>8, <1>9
    <2> HIDE DEF before, new
    <2>2. Cardinality(Units(rows) \cup new) = before + row.qty
        BY <1>1, <2>1
    <2> QED BY <2>2 DEF before
<1> QED BY <1>5, <1>10

Adds(sum, S) ==
    sum = [s \in SUBSET S |-> IF s = {} THEN 0 ELSE First(s).qty + sum[s \ {First(s)}]]

LEMMA UnitsAdd ==
    ASSUME NEW S \in SUBSET Rows, IsFiniteSet(S)
    PROVE  Adds([s \in SUBSET S |-> Cardinality(Units(s))], S)
<1> DEFINE count == [s \in SUBSET S |-> Cardinality(Units(s))]
<1> SUFFICES ASSUME NEW s \in SUBSET S
             PROVE  count[s] = IF s = {} THEN 0 ELSE First(s).qty + count[s \ {First(s)}]
    BY DEF Adds
<1>1. CASE s = {}
    <2>1. Units(s) = {}
        BY <1>1 DEF Units
    <2> QED BY <1>1, <2>1, FS_EmptySet
<1>2. CASE s # {}
    <2> DEFINE x == First(s)
               rest == s \ {x}
    <2>1. x \in s /\ x \in Rows /\ x \notin rest /\ rest \cup {x} = s /\ rest \in SUBSET S
        BY <1>2 DEF First
    <2>2. IsFiniteSet(rest)
        BY <2>1, FS_Subset
    <2>3. x.qty \in Nat
        BY <2>1, BoundsAreNaturals DEF Rows, Quantities
    <2> HIDE DEF x, rest
    <2>4. Cardinality(Units(s)) = Cardinality(Units(rest)) + x.qty
        BY <2>1, <2>2, OneMoreRow
    <2>5. Cardinality(Units(rest)) \in Nat
        BY <2>2, UnitsFinite
    <2>6. Cardinality(Units(s)) = x.qty + Cardinality(Units(rest))
        BY <2>3, <2>4, <2>5
    <2> QED BY <1>2, <2>1, <2>6 DEF x, rest
<1> QED BY <1>1, <1>2

(***************************************************************************)
(* Two sums that add alike agree: on a smallest set where they did not,    *)
(* one row less would already tell them apart.                             *)
(***************************************************************************)
LEMMA SumsAgree ==
    ASSUME NEW S, IsFiniteSet(S), NEW f, NEW g, Adds(f, S), Adds(g, S)
    PROVE  f[S] = g[S]
<1> DEFINE Differ == {s \in SUBSET S : f[s] # g[s]}
           R == StrictSubsetOrdering(S)
<1> SUFFICES ASSUME Differ # {} PROVE FALSE
    OBVIOUS
<1>1. IsWellFoundedOn(R, SUBSET S)
    BY FS_StrictSubsetOrderingWellFounded, FS_FiniteSubsetsOfFinite
<1>2. \A s, t \in SUBSET S : s \subseteq t /\ s # t => <<s, t>> \in R
    BY DEF StrictSubsetOrdering
<1>3. Differ \subseteq SUBSET S
    OBVIOUS
<1> HIDE DEF R, Differ
<1>4. PICK s \in Differ : \A t \in Differ : ~ (<<t, s>> \in R)
    BY <1>1, <1>3, WFMin
<1>5. s \in SUBSET S /\ f[s] # g[s]
    BY <1>4 DEF Differ
<1>6. \A h : Adds(h, S) => h[s] = IF s = {} THEN 0 ELSE First(s).qty + h[s \ {First(s)}]
    BY <1>5 DEF Adds
<1>7. s # {} /\ f[s \ {First(s)}] # g[s \ {First(s)}]
    BY <1>5, <1>6
<1>8. First(s) \in s
    BY <1>7 DEF First
<1>9. s \ {First(s)} \in Differ /\ s \ {First(s)} \subseteq s /\ s \ {First(s)} # s
    BY <1>5, <1>7, <1>8 DEF Differ
<1> QED BY <1>2, <1>3, <1>4, <1>9

LEMMA SumIsCount ==
    ASSUME NEW S \in SUBSET Rows, IsFiniteSet(S)
    PROVE  MapThenSumSet(LAMBDA row : row.qty, S) = Cardinality(Units(S))
<1> DEFINE count == [s \in SUBSET S |-> Cardinality(Units(s))]
           sum == CHOOSE f : Adds(f, S)
<1>1. MapThenSumSet(LAMBDA row : row.qty, S) = sum[S]
    BY Zenon DEF MapThenSumSet, MapThenFoldSet, First, Adds
<1>2. Adds(count, S)
    BY UnitsAdd
<1>3. Adds(sum, S)
    BY <1>2
<1>4. sum[S] = count[S]
    BY <1>2, <1>3, SumsAgree
<1> QED BY <1>1, <1>4

(***************************************************************************)
(* One more row adds its quantity to the total of its line, at most.       *)
(***************************************************************************)
LEMMA TotalGrows ==
    ASSUME NEW rows \in SUBSET Rows, IsFiniteSet(rows), NEW row \in Rows
    PROVE  /\ Total(rows \cup {row}, row.line) \in Nat
           /\ Total(rows, row.line) \in Nat
           /\ Total(rows \cup {row}, row.line) <= Total(rows, row.line) + row.qty
           /\ \A line : line # row.line => Total(rows \cup {row}, line) = Total(rows, line)
<1> DEFINE On(set, line) == {x \in set : x.line = line}
<1>1. \A line : On(rows, line) \in SUBSET Rows /\ IsFiniteSet(On(rows, line))
    BY FS_Subset
<1>2. IsFiniteSet(rows \cup {row})
    BY FS_AddElement
<1>3. \A line : On(rows \cup {row}, line) \in SUBSET Rows /\ IsFiniteSet(On(rows \cup {row}, line))
    BY <1>2, FS_Subset
<1>4. \A line : Total(rows, line) = Cardinality(Units(On(rows, line)))
    BY <1>1, SumIsCount DEF Total
<1>5. \A line : Total(rows \cup {row}, line) = Cardinality(Units(On(rows \cup {row}, line)))
    BY <1>3, SumIsCount DEF Total
<1>6. row.qty \in Nat
    BY BoundsAreNaturals DEF Rows, Quantities
<1>7. \A line : /\ Cardinality(Units(On(rows, line))) \in Nat
                /\ Cardinality(Units(On(rows \cup {row}, line))) \in Nat
    BY <1>1, <1>3, UnitsFinite
<1>8. \A line : line # row.line => On(rows \cup {row}, line) = On(rows, line)
    OBVIOUS
<1>9. On(rows \cup {row}, row.line) = On(rows, row.line) \cup {row}
    OBVIOUS
<1>10. Cardinality(Units(On(rows \cup {row}, row.line)))
         <= Cardinality(Units(On(rows, row.line))) + row.qty
    <2>1. CASE row \in rows
        <3>1. On(rows \cup {row}, row.line) = On(rows, row.line)
            BY <2>1
        <3> HIDE DEF On
        <3> QED BY <1>6, <1>7, <3>1
    <2>2. CASE row \notin rows
        <3>1. row \notin On(rows, row.line)
            BY <2>2
        <3> HIDE DEF On
        <3>2. Cardinality(Units(On(rows, row.line) \cup {row}))
                = Cardinality(Units(On(rows, row.line))) + row.qty
            BY <1>1, <3>1, OneMoreRow
        <3>3. Cardinality(Units(On(rows \cup {row}, row.line)))
                = Cardinality(Units(On(rows, row.line))) + row.qty
            BY <1>9, <3>2
        <3> DEFINE before == Cardinality(Units(On(rows, row.line)))
        <3>4. before \in Nat
            BY <1>7
        <3> HIDE DEF before
        <3>5. before + row.qty <= before + row.qty
            BY <1>6, <3>4
        <3> QED BY <3>3, <3>5 DEF before
    <2> QED BY <2>1, <2>2
<1> HIDE DEF On
<1>11. \A line : Total(rows, line) \in Nat /\ Total(rows \cup {row}, line) \in Nat
    BY <1>4, <1>5, <1>7
<1>12. Total(rows \cup {row}, row.line) <= Total(rows, row.line) + row.qty
    BY <1>4, <1>5, <1>10
<1>13. \A line : line # row.line => Total(rows \cup {row}, line) = Total(rows, line)
    BY <1>4, <1>5, <1>8
<1> QED BY <1>11, <1>12, <1>13
-------------------------------------------------------------------------------
(***************************************************************************)
(* What a booking has filed: rows of its own, for lines that had a         *)
(* quantity when its form loaded them.                                     *)
(***************************************************************************)
Filed(r, q) ==
    Booking(q) =>
        /\ IsFiniteSet(q.made)
        /\ q.step = "opening" => q.made = {}
        /\ \A row \in q.made : row.by = r /\ row.delivery = q.delivery /\ q.ordered[row.line] # None
        /\ \A a \in q.todo : q.ordered[a.line] # None
        /\ q.step = "inserting" => q.ordered[q.checked.line] # None

(***************************************************************************)
(* What it has read is what is there, and what it has written already is   *)
(* exact (ExactUnlessOvertaken).                                           *)
(***************************************************************************)
Current(q, rows, lines) ==
    Booking(q) =>
        /\ q.ordered = lines
        /\ q.step = "inserting" => \A row \in rows \cup q.made : ~Matches(row, q.delivery, q.checked)
        /\ \A row \in q.made :
              /\ Total(rows \cup q.made, row.line) <= lines[row.line]
              /\ \A other \in rows \cup q.made : Matches(other, row.delivery, row) => other = row

ExactInv ==
    /\ IsFiniteSet(booked)
    /\ \A r \in Requests : /\ Filed(r, request[r])
                           /\ r \notin overtaken => Current(request[r], booked, ordered)

LEMMA InitExact == Init => ExactInv
<1> SUFFICES ASSUME Init PROVE ExactInv
    OBVIOUS
<1>1. IsFiniteSet(booked)
    BY FS_EmptySet DEF Init
<1>2. \A r \in Requests : request[r] = None
    BY DEF Init
<1> QED BY <1>1, <1>2 DEF ExactInv, Filed, Current, Booking

(***************************************************************************)
(* Nothing a request relies on changes as long as it is not overtaken.     *)
(***************************************************************************)
Unmoved(r) ==
    /\ request'[r] = request[r]
    /\ r \notin overtaken' => r \notin overtaken
    /\ r \notin overtaken' /\ Booking(request[r]) =>
           /\ ordered' = ordered
           /\ booked' = booked \/ request[r].step = "opening"

LEMMA ExactPersists ==
    ASSUME TypeOK, ExactInv, NEW r \in Requests, Unmoved(r)
    PROVE  /\ Filed(r, request'[r])
           /\ r \notin overtaken' => Current(request'[r], booked', ordered')
<1>1. Filed(r, request'[r])
    BY DEF Unmoved, ExactInv
<1>2. ASSUME r \notin overtaken', Booking(request[r]) PROVE Current(request[r], booked', ordered')
    <2>1. Current(request[r], booked, ordered) /\ Filed(r, request[r]) /\ ordered' = ordered
        BY <1>2 DEF Unmoved, ExactInv
    <2>2. CASE booked' = booked
        BY <2>1, <2>2
    <2>3. CASE request[r].step = "opening"
        BY <1>2, <2>1, <2>3 DEF Current, Filed
    <2> QED BY <1>2, <2>2, <2>3 DEF Unmoved
<1>3. ~Booking(request[r]) => Current(request[r], booked', ordered')
    BY DEF Current
<1> QED BY <1>1, <1>2, <1>3 DEF Unmoved

(***************************************************************************)
(* One request moves on, and commits nothing.                              *)
(***************************************************************************)
LEMMA ExactMove ==
    ASSUME TypeOK, ExactInv, NEW r \in Requests, NEW q,
           request' = [request EXCEPT ![r] = q],
           UNCHANGED <<ordered, booked>>,
           overtaken' \in {overtaken, overtaken \ {r}},
           Filed(r, q), r \notin overtaken' => Current(q, booked, ordered)
    PROVE  ExactInv'
<1>1. request'[r] = q /\ \A s \in Requests \ {r} : Unmoved(s)
    BY DEF Unmoved, TypeOK
<1>2. \A s \in Requests \ {r} : /\ Filed(s, request'[s])
                                /\ s \notin overtaken' => Current(request'[s], booked', ordered')
    BY <1>1, ExactPersists
<1> QED BY <1>1, <1>2 DEF ExactInv

LEMMA ExactStop ==
    ASSUME TypeOK, ExactInv, NEW r \in Requests, Stop(r),
           UNCHANGED <<ordered, booked, overtaken>>
    PROVE  ExactInv'
<1>1. Filed(r, None) /\ Current(None, booked, ordered)
    BY DEF Filed, Current, Booking
<1> QED BY <1>1, ExactMove DEF Stop

LEMMA SubmitExact ==
    ASSUME IInv, ExactInv, NEW r \in Requests, Submit(r)
    PROVE  ExactInv'
<1>1. PICK d \in Deliveries, batch \in SUBSET Assignments :
          /\ \A a \in batch : ordered[a.line] # None
          /\ request' = [request EXCEPT ![r] =
                 [step |-> "opening", delivery |-> d, new |-> d \notin deliveries,
                  ordered |-> ordered, batch |-> batch, todo |-> batch,
                  checked |-> None, made |-> {}]]
    BY DEF Submit
<1> DEFINE q == [step |-> "opening", delivery |-> d, new |-> d \notin deliveries,
                 ordered |-> ordered, batch |-> batch, todo |-> batch,
                 checked |-> None, made |-> {}]
<1>2. Filed(r, q)
    BY <1>1, FS_EmptySet DEF Filed
<1>3. Current(q, booked, ordered)
    BY DEF Current
<1>4. request' = [request EXCEPT ![r] = q]
    BY <1>1
<1> HIDE DEF q
<1> QED BY <1>2, <1>3, <1>4, ExactMove DEF Submit, IInv

LEMMA OpenExact ==
    ASSUME IInv, ExactInv, NEW r \in Requests, Open(r)
    PROVE  ExactInv'
<1> DEFINE q == [request[r] EXCEPT !.step = "checking"]
<1>1. Booking(request[r]) /\ request[r].step = "opening"
    BY DEF Open, Busy, Booking
<1>2. request[r] \in Bookings
    BY <1>1, Kinds DEF IInv
<1>3. CASE Stop(r)
    BY <1>3, ExactStop DEF Open, IInv
<1>4. CASE request' = [request EXCEPT ![r].step = "checking"]
    <2>1. /\ q.ordered = request[r].ordered /\ q.todo = request[r].todo /\ q.made = request[r].made
          /\ q.delivery = request[r].delivery /\ q.step = "checking"
        BY <1>2 DEF Bookings
    <2>2. request' = [request EXCEPT ![r] = q]
        BY <1>4
    <2> HIDE DEF q
    <2>3. Filed(r, q)
        BY <1>1, <2>1 DEF ExactInv, Filed
    <2>4. r \notin overtaken => Current(q, booked, ordered)
        BY <1>1, <2>1 DEF ExactInv, Current
    <2> QED BY <2>2, <2>3, <2>4, ExactMove DEF Open, IInv
<1> QED BY <1>3, <1>4 DEF Open

LEMMA CheckExact ==
    ASSUME IInv, ExactInv, NEW r \in Requests, Check(r)
    PROVE  ExactInv'
<1>1. Booking(request[r]) /\ request[r].step = "checking"
    BY DEF Check, Busy, Booking
<1>2. request[r] \in Bookings
    BY <1>1, Kinds DEF IInv
<1>3. PICK a \in request[r].todo :
          request' = [request EXCEPT
              ![r].todo = @ \ {a},
              ![r].step = IF AlreadyBooked(r, a) THEN "checking" ELSE "inserting",
              ![r].checked = IF AlreadyBooked(r, a) THEN None ELSE a]
    BY DEF Check
<1> DEFINE q == [request[r] EXCEPT
              !.todo = @ \ {a},
              !.step = IF AlreadyBooked(r, a) THEN "checking" ELSE "inserting",
              !.checked = IF AlreadyBooked(r, a) THEN None ELSE a]
<1>4. request' = [request EXCEPT ![r] = q]
    BY <1>3 DEF IInv, TypeOK
<1>5. /\ q.ordered = request[r].ordered /\ q.todo = request[r].todo \ {a}
      /\ q.made = request[r].made /\ q.delivery = request[r].delivery
      /\ q.step = IF AlreadyBooked(r, a) THEN "checking" ELSE "inserting"
      /\ q.checked = IF AlreadyBooked(r, a) THEN None ELSE a
    BY <1>2 DEF Bookings
<1> HIDE DEF q
<1>6. Filed(r, q)
    BY <1>1, <1>5 DEF ExactInv, Filed
<1>7. r \notin overtaken => Current(q, booked, ordered)
    <2> SUFFICES ASSUME r \notin overtaken PROVE Current(q, booked, ordered)
        OBVIOUS
    <2>1. Current(request[r], booked, ordered)
        BY DEF ExactInv
    <2>2. q.step = "inserting" => \A row \in booked \cup q.made : ~Matches(row, q.delivery, q.checked)
        BY <1>5 DEF AlreadyBooked, Visible
    <2> QED BY <1>1, <1>5, <2>1, <2>2 DEF Current
<1> QED BY <1>4, <1>6, <1>7, ExactMove DEF Check, IInv

LEMMA InsertExact ==
    ASSUME IInv, ExactInv, NEW r \in Requests, Insert(r)
    PROVE  ExactInv'
<1>1. Booking(request[r]) /\ request[r].step = "inserting"
    BY DEF Insert, Busy, Booking
<1>2. request[r] \in Bookings
    BY <1>1, Kinds DEF IInv
<1> DEFINE a == request[r].checked
           row == [delivery |-> request[r].delivery, container |-> a.container, line |-> a.line,
                   qty |-> a.qty, by |-> r]
           q == [request[r] EXCEPT !.step = "checking", !.checked = None, !.made = @ \cup {row}]
           old == booked \cup request[r].made
<1>3. a \in Assignments
    BY <1>1 DEF IInv, RequestsSound, Sound
<1>4. CASE ~Fits(r, a)
    <2>1. Stop(r)
        BY <1>4 DEF Insert, Reject
    <2> QED BY <2>1, ExactStop DEF Insert, IInv
<1>5. CASE Fits(r, a)
    <2>1. request' = [request EXCEPT ![r] = q]
        BY <1>5 DEF Insert, IInv, TypeOK
    <2>2. /\ row \in Rows /\ Matches(row, request[r].delivery, a)
          /\ row.by = r /\ row.delivery = request[r].delivery /\ row.line = a.line /\ row.qty = a.qty
          /\ row.container = a.container
        BY <1>2, <1>3 DEF Rows, Assignments, Bookings, Matches
    <2>3. old \in SUBSET Rows /\ IsFiniteSet(old) /\ IsFiniteSet(request[r].made)
        <3>1. IsFiniteSet(booked) /\ IsFiniteSet(request[r].made)
            BY <1>1 DEF ExactInv, Filed
        <3> QED BY <1>2, <3>1, FS_Union DEF Bookings, IInv, TypeOK
    <2>4. Total(old, a.line) + a.qty <= request[r].ordered[a.line]
        BY <1>5 DEF Fits, Visible
    <2>5. /\ Filed(r, request[r])
          /\ r \notin overtaken => Current(request[r], booked, ordered)
        BY DEF ExactInv
    <2>6. /\ q.ordered = request[r].ordered /\ q.todo = request[r].todo
          /\ q.made = request[r].made \cup {row} /\ q.delivery = request[r].delivery
          /\ q.step = "checking"
        BY <1>2 DEF Bookings
    <2>7. request[r].ordered[a.line] # None
        BY <1>1, <2>5 DEF Filed
    <2>8. request[r].ordered \in [Lines -> Quantities \cup {None}] /\ a.line \in Lines /\ a.qty \in Nat
        BY <1>2, <1>3, BoundsAreNaturals DEF Bookings, Assignments, Quantities
    <2> HIDE DEF a, row, q
    <2>9. Filed(r, q)
        <3>1. IsFiniteSet(q.made)
            BY <2>3, <2>6, FS_AddElement
        <3> QED BY <1>1, <2>2, <2>5, <2>6, <2>7, <3>1 DEF Filed
    <2>10. ASSUME r \notin overtaken PROVE Current(q, booked, ordered)
        <3>1. /\ request[r].ordered = ordered
              /\ \A x \in old : ~Matches(x, request[r].delivery, a)
              /\ \A x \in request[r].made :
                    /\ Total(old, x.line) <= ordered[x.line]
                    /\ \A y \in old : Matches(y, x.delivery, x) => y = x
            BY <1>1, <2>5, <2>10 DEF Current, a
        <3>2. booked \cup q.made = old \cup {row}
            BY <2>6
        <3>3. /\ Total(old \cup {row}, row.line) \in Nat
              /\ Total(old, row.line) \in Nat
              /\ Total(old \cup {row}, row.line) <= Total(old, row.line) + row.qty
              /\ \A line : line # row.line => Total(old \cup {row}, line) = Total(old, line)
            BY <2>2, <2>3, TotalGrows
        <3>4. ordered[row.line] \in Nat
            BY <2>2, <2>7, <2>8, <3>1, BoundsAreNaturals DEF Quantities
        <3>5. Total(old \cup {row}, row.line) <= ordered[row.line]
            BY <2>2, <2>4, <2>8, <3>1, <3>3, <3>4
        <3>6. ASSUME NEW x \in q.made
              PROVE  Total(old \cup {row}, x.line) <= ordered[x.line]
            BY <2>6, <3>1, <3>3, <3>5
        <3>7. ASSUME NEW x \in q.made, NEW y \in old \cup {row}, Matches(y, x.delivery, x)
              PROVE  y = x
            <4>1. CASE x = row /\ y # row
                BY <2>2, <3>1, <3>7, <4>1 DEF Matches
            <4>2. CASE x # row /\ y = row
                <5>1. x \in request[r].made /\ x.delivery = request[r].delivery
                    BY <1>1, <2>5, <2>6, <4>2 DEF Filed
                <5>2. Matches(x, request[r].delivery, a) /\ x \in old
                    BY <2>2, <3>7, <4>2, <5>1 DEF Matches
                <5> QED BY <3>1, <5>2
            <4>3. CASE x # row /\ y # row
                BY <2>6, <3>1, <3>7, <4>3
            <4> QED BY <4>1, <4>2, <4>3
        <3> QED BY <2>6, <3>1, <3>2, <3>6, <3>7 DEF Current
    <2> QED BY <2>1, <2>9, <2>10, ExactMove DEF Insert, IInv
<1> QED BY <1>4, <1>5

LEMMA CommitExact ==
    ASSUME IInv, ExactInv, NEW r \in Requests, Commit(r)
    PROVE  ExactInv'
<1> DEFINE q == request[r]
<1>1. Booking(q) /\ q.step = "checking"
    BY DEF Commit, Busy, Booking
<1>2. q \in Bookings
    BY <1>1, Kinds DEF IInv
<1>3. CASE UNCHANGED <<booked, overtaken>>
    BY <1>3, ExactStop DEF Commit, IInv
<1>4. CASE /\ booked' = booked \cup q.made
           /\ overtaken' = IF q.made = {} THEN overtaken
                           ELSE overtaken \cup {s \in InProgress \ {r} :
                                                    request[s].step \in {"checking", "inserting"}}
    <2>1. request'[r] = None /\ \A s \in Requests \ {r} : request'[s] = request[s]
        BY DEF Commit, Stop, IInv, TypeOK
    <2>2. ASSUME NEW s \in Requests \ {r}, s \notin overtaken', Booking(request[s])
          PROVE  booked' = booked \/ request[s].step = "opening"
        BY <1>4, <2>2 DEF Booking, InProgress
    <2>3. \A s \in Requests \ {r} : Unmoved(s)
        BY <1>4, <2>1, <2>2 DEF Unmoved, Commit
    <2>4. \A s \in Requests \ {r} : /\ Filed(s, request'[s])
                                    /\ s \notin overtaken' => Current(request'[s], booked', ordered')
        BY <2>3, ExactPersists DEF IInv
    <2>5. IsFiniteSet(booked')
        BY <1>1, <1>4, FS_Union DEF ExactInv, Filed
    <2> QED BY <2>1, <2>4, <2>5 DEF ExactInv, Filed, Current, Booking
<1> QED BY <1>3, <1>4 DEF Commit

(***************************************************************************)
(* Requests that link a container book nothing.                            *)
(***************************************************************************)
LEMMA LinkExact ==
    ASSUME IInv, ExactInv, NEW r \in Requests, AskLink(r) \/ Lock(r) \/ ReadOrigin(r) \/ WriteOrigin(r)
    PROVE  ExactInv'
<1>1. UNCHANGED <<ordered, booked, overtaken>>
    BY DEF AskLink, Lock, ReadOrigin, WriteOrigin
<1>2. ASSUME NEW step \in {"reading", "writing"}, request' = [request EXCEPT ![r].step = step],
             Linking(request[r])
      PROVE  ExactInv'
    <2> DEFINE q == [request[r] EXCEPT !.step = step]
    <2>1. q.step = step
        BY <1>2, Kinds DEF IInv, Links
    <2>2. request' = [request EXCEPT ![r] = q]
        BY <1>2
    <2> HIDE DEF q
    <2>3. Filed(r, q) /\ Current(q, booked, ordered)
        BY <2>1 DEF Filed, Current, Booking
    <2> QED BY <1>1, <2>2, <2>3, ExactMove DEF IInv
<1>3. CASE AskLink(r)
    <2>1. PICK c \in Containers, l \in Lines :
              request' = [request EXCEPT ![r] = [step |-> "locking", container |-> c, line |-> l]]
        BY <1>3 DEF AskLink
    <2> DEFINE q == [step |-> "locking", container |-> c, line |-> l]
    <2>2. Filed(r, q) /\ Current(q, booked, ordered)
        BY DEF Filed, Current, Booking
    <2>3. request' = [request EXCEPT ![r] = q]
        BY <2>1
    <2> HIDE DEF q
    <2> QED BY <1>1, <2>2, <2>3, ExactMove DEF IInv
<1>4. CASE Lock(r)
    BY <1>2, <1>4 DEF Lock, Busy, Linking
<1>5. CASE ReadOrigin(r)
    BY <1>1, <1>2, <1>5, ExactStop DEF ReadOrigin, Busy, Linking, IInv
<1>6. CASE WriteOrigin(r)
    BY <1>1, <1>6, ExactStop DEF WriteOrigin, IInv
<1> QED BY <1>3, <1>4, <1>5, <1>6

(***************************************************************************)
(* A change of the order overtakes every request in progress.              *)
(***************************************************************************)
LEMMA OrderExact ==
    ASSUME IInv, ExactInv, NEW l \in Lines, ChangeOrdered(l) \/ DeleteLine(l)
    PROVE  ExactInv'
<1>1. \A r \in Requests : Unmoved(r)
    BY DEF ChangeOrdered, DeleteLine, Unmoved, InProgress, Booking
<1>2. \A r \in Requests : /\ Filed(r, request'[r])
                          /\ r \notin overtaken' => Current(request'[r], booked', ordered')
    BY <1>1, ExactPersists DEF IInv
<1>3. booked' \subseteq booked
    BY DEF ChangeOrdered, DeleteLine
<1>4. IsFiniteSet(booked')
    BY <1>3, FS_Subset DEF ExactInv
<1> QED BY <1>2, <1>4 DEF ExactInv

LEMMA NextExact == IInv /\ ExactInv /\ [Next]_vars => ExactInv'
<1> SUFFICES ASSUME IInv, ExactInv, [Next]_vars PROVE ExactInv'
    OBVIOUS
<1>1. CASE UNCHANGED vars
    BY <1>1 DEF vars, ExactInv
<1>2. ASSUME NEW r \in Requests, Die(r)
      PROVE  ExactInv'
    BY <1>2, ExactStop DEF Die, IInv
<1>3. ASSUME NEW c \in Containers, Unlink(c)
      PROVE  ExactInv'
    BY <1>3 DEF Unlink, ExactInv
<1> QED BY <1>1, <1>2, <1>3, SubmitExact, OpenExact, CheckExact, InsertExact, CommitExact, LinkExact,
           OrderExact DEF Next

(***************************************************************************)
(* Only a commit adds rows: those of its own request.                      *)
(***************************************************************************)
LEMMA CommitIsExact ==
    ASSUME IInv, ExactInv, NEW r \in Requests, Commit(r), NEW row \in booked' \ booked,
           row.by \notin overtaken
    PROVE  /\ Total(booked', row.line) <= ordered'[row.line]
           /\ \A other \in booked' : Matches(other, row.delivery, row) => other = row
<1>1. Booking(request[r]) /\ ordered' = ordered
    BY DEF Commit, Busy, Booking
<1>2. booked' = booked \cup request[r].made /\ row \in request[r].made
    BY DEF Commit
<1>3. row.by = r
    BY <1>1, <1>2 DEF ExactInv, Filed
<1> QED BY <1>1, <1>2, <1>3 DEF ExactInv, Current

(***************************************************************************)
(* A booking that nobody overtakes keeps its lines within what is ordered  *)
(* and doubles nothing (_validate_delivery_line_qty, already_booked).      *)
(***************************************************************************)
THEOREM BookingsAreExact == Spec => ExactUnlessOvertaken
<1>1. ASSUME IInv, ExactInv, [Next]_vars
      PROVE  [\A row \in booked' \ booked : row.by \notin overtaken =>
                 /\ Total(booked', row.line) <= ordered'[row.line]
                 /\ \A other \in booked' : Matches(other, row.delivery, row) => other = row]_vars
    <2>1. CASE \E r \in Requests : Commit(r)
        BY <1>1, <2>1, CommitIsExact
    <2>2. CASE booked' \subseteq booked
        BY <2>2
    <2> QED BY <1>1, <2>1, <2>2 DEF Next, Submit, Open, Check, Insert, AskLink, Lock, ReadOrigin,
                WriteOrigin, Die, Unlink, ChangeOrdered, DeleteLine, vars
<1> QED BY <1>1, Invariance, InitExact, NextExact, PTL DEF Spec, ExactUnlessOvertaken
===============================================================================
