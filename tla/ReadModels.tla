------------------------------ MODULE ReadModels ------------------------------
(***************************************************************************)
(* What the pages say of one container, read from the events its carriers  *)
(* reported and from the row that says where it physically is.  Nothing of *)
(* it is stored: the journey (tracking/journey.py), its gap (gaps.py), the *)
(* last position (positions.py), the workspace of one container and the    *)
(* one built in bulk (containers/workspace.py), the arrival forecast       *)
(* (tracking/selectors.py) and the map's marker (visibility/               *)
(* map_positions.py) each interpret the same rows by rules of their own,   *)
(* and are expected to agree.                                              *)
(*                                                                         *)
(* The rows change as in the rest of the system: events are stored in any  *)
(* order and refreshed, and a movement gives the container a position.     *)
(* created_at is the place of an event in the sequence.                    *)
(***************************************************************************)
EXTENDS Integers, FiniteSets, SequencesExt

CONSTANTS
    Reports,     \* what providers may send: versions of events
    Sightings,   \* what the container's row may say
    Codes,       \* UN/LOCODEs
    Names,       \* names of places, as somebody writes them
    Similar,     \* pairs of names that share a distinctive word
    Locations,   \* the canonical locations
    Charted,     \* those with coordinates of their own
    None,        \* no code, no name, no canonical location
    Undated,     \* no time: sorts behind every date, as NULL does
    Window,      \* CORROBORATION_WINDOW
    MaxEvents    \* bound: events stored

Types == {"VESSEL_ARRIVED", "GATE_IN", "GATE_OUT", "UNKNOWN"}
Kinds == {"ACTUAL", "ESTIMATED", "REQUESTED"}

\* What a row says of a place: its code, its name, whether it comes with
\* coordinates, and the canonical location it was resolved to.
Places == [code : Codes \cup {None}, name : Names \cup {None}, fix : BOOLEAN,
           row : Locations \cup {None}]

Nowhere == [code |-> None, name |-> None, fix |-> FALSE, row |-> None]

ASSUME PlacesAssumption ==
    /\ None \notin Codes \cup Names \cup Locations
    /\ Charted \subseteq Locations
    /\ Similar \subseteq Names \X Names

\* The resolver finds a location by code or name, never by coordinates alone;
\* the container's own row has a code only through a location, which has a name.
ASSUME ReportsAssumption ==
    /\ Undated \in Nat /\ Window \in Nat
    /\ \A r \in Reports :
        /\ r.type \in Types /\ r.kind \in Kinds /\ r.at \in 0 .. Undated
        /\ r.place \in Places
        /\ r.place.row # None => r.place.code # None \/ r.place.name # None
    /\ \A s \in Sightings :
        /\ s.at \in 0 .. Undated /\ s.place \in Places /\ ~s.place.fix
        /\ IF s.place.row = None THEN s.place.code = None ELSE s.place.name # None

VARIABLES
    events,   \* TrackingEvent rows of the container, by created_at
    projected \* the position on the container's row

readVars == <<events, projected>>

NoEvent == 0

ReadInit ==
    /\ events = << >>
    /\ projected = [at |-> Undated, place |-> Nowhere, source |-> "MANUAL"]

-----------------------------------------------------------------------------
(* Events one by one. *)

Dated(e) == e.at # Undated

Actual(e) == e.kind = "ACTUAL"

HasAPlace(e) == e.place.code # None \/ e.place.name # None \/ e.place.fix

Coded(e, f) == e.place.code # None /\ f.place.code # None

\* Codes settle it when both sides have one.  Not transitive: a report with
\* the name alone is the same place as two that differ in their codes.
SamePlaceExactly(e, f) ==
    IF Coded(e, f) THEN e.place.code = f.place.code
    ELSE e.place.name # None /\ e.place.name = f.place.name

PlacesMatch(e, f) ==
    IF Coded(e, f) THEN e.place.code = f.place.code
    ELSE <<e.place.name, f.place.name>> \in Similar

HasCoordinates(e) == e.place.fix

Forecast(e) == e.kind = "ESTIMATED"

\* Ascending by time and then by creation; descending order is its reverse,
\* because PostgreSQL puts NULL last one way and first the other.
Earlier(es, i, j) == es[i].at < es[j].at \/ (es[i].at = es[j].at /\ i < j)

Newest(es, S) ==
    IF S = {} THEN NoEvent
    ELSE CHOOSE i \in S : \A j \in S \ {i} : Earlier(es, j, i)

AnyOf(first, second) == IF first # NoEvent THEN first ELSE second

-----------------------------------------------------------------------------
(* The journey.  A point is the sequence of the events it stands for: the  *)
(* one it shows and those that corroborate it.                             *)

InOrder(es) ==
    CHOOSE order \in Bijection(DOMAIN es, DOMAIN es) :
        \A a, b \in DOMAIN es : a < b => Earlier(es, order[a], order[b])

\* Mutant: asks only who reported the point first.
CandidatesByMainSource(es, merged, i) ==
    {k \in DOMAIN merged :
        LET kept == es[Head(merged[k])]
        IN /\ Dated(kept) /\ es[i].at - kept.at <= Window
           /\ kept.type = es[i].type /\ kept.kind = es[i].kind
           /\ kept.provider # es[i].provider
           /\ SamePlaceExactly(kept, es[i])}

\* Mutant: no corroboration window.
CandidatesOfAnyTime(es, merged, i) ==
    {k \in DOMAIN merged :
        LET kept == es[Head(merged[k])]
        IN /\ Dated(kept)
           /\ kept.type = es[i].type /\ kept.kind = es[i].kind
           /\ \A n \in Range(merged[k]) : es[n].provider # es[i].provider
           /\ SamePlaceExactly(kept, es[i])}

Candidates(es, merged, i) ==
    {k \in DOMAIN merged :
        LET kept == es[Head(merged[k])]
        IN /\ Dated(kept) /\ es[i].at - kept.at <= Window
           /\ kept.type = es[i].type /\ kept.kind = es[i].kind
           /\ \A n \in Range(merged[k]) : es[n].provider # es[i].provider
           /\ SamePlaceExactly(kept, es[i])}

CorroboratedPoint(es, merged, i) ==
    LET found == Candidates(es, merged, i)
    IN IF ~Dated(es[i]) \/ es[i].type = "UNKNOWN" \/ found = {} THEN NoEvent
       ELSE Max(found)

\* The event joins the point it corroborates, or is one.
Place(es, merged, i) ==
    LET target == CorroboratedPoint(es, merged, i)
    IN IF target = NoEvent THEN Append(merged, <<i>>)
       ELSE [merged EXCEPT ![target] = Append(@, i)]

MergeCorroborating(es) ==
    FoldLeft(LAMBDA merged, i : Place(es, merged, i), << >>, InOrder(es))

CarrierPoints(es) == {Head(p) : p \in Range(MergeCorroborating(es))}

LatestObserved(es) ==
    LET observed == {i \in CarrierPoints(es) : Actual(es[i]) /\ Dated(es[i])}
    IN AnyOf(Newest(es, {i \in observed : HasAPlace(es[i])}), Newest(es, observed))

PhysicallyObserved(r) ==
    Dated(r) /\ r.source # "TRACKING_EVENT" /\ r.place.name # None

CurrentLocation(es, r) ==
    LET carrier  == LatestObserved(es)
        forecast == Newest(es, {i \in CarrierPoints(es) : HasAPlace(es[i]) /\ Dated(es[i])})
        says(basis, x) == [basis |-> basis, place |-> x.place, at |-> x.at]
    IN IF PhysicallyObserved(r) /\ (carrier = NoEvent \/ r.at >= es[carrier].at)
       THEN says("physical", r)
       ELSE IF carrier # NoEvent THEN says("carrier_actual", es[carrier])
       ELSE IF forecast # NoEvent THEN says("carrier_forecast", es[forecast])
       ELSE says("none", [place |-> Nowhere, at |-> Undated])

-----------------------------------------------------------------------------
(* The gap: we saw the box where no carrier followed it. *)

ExplainedByACarrier(es, r, after) ==
    \E i \in CarrierPoints(es) :
        Actual(es[i]) /\ Dated(es[i]) /\ es[i].at >= after /\ PlacesMatch(es[i], r)

HasGap(es, r) ==
    LET origin == LatestObserved(es)
    IN /\ PhysicallyObserved(r)
       /\ origin # NoEvent
       /\ r.at > es[origin].at
       /\ ~PlacesMatch(es[origin], r)
       /\ ~ExplainedByACarrier(es, r, es[origin].at)

ForecastMentions(es, r) ==
    \E i \in CarrierPoints(es) :
        Forecast(es[i]) /\ HasAPlace(es[i]) /\ PlacesMatch(es[i], r)

Gap(es, r) ==
    IF ~HasGap(es, r) THEN "none"
    ELSE IF ForecastMentions(es, r) THEN "medium" ELSE "high"

-----------------------------------------------------------------------------
(* The carriers' last position, and the workspace that shows it, for one   *)
(* container and in bulk.                                                  *)

Observations(es) == {i \in DOMAIN es : Actual(es[i]) /\ Dated(es[i])}

\* Mutant: the newest observation, whether or not it names a place.
LatestObservationAsPosition(es) ==
    AnyOf(Newest(es, Observations(es)),
          Newest(es, {i \in DOMAIN es : Dated(es[i])}))

LatestContainerPosition(es) ==
    AnyOf(Newest(es, {i \in Observations(es) : HasAPlace(es[i])}),
          AnyOf(Newest(es, Observations(es)),
                Newest(es, {i \in DOMAIN es : Dated(es[i])})))

ArrivalForecasts(es) ==
    {i \in DOMAIN es : Dated(es[i]) /\ Forecast(es[i]) /\ es[i].type = "VESSEL_ARRIVED"}

TrackingEta(es) ==
    IF \E i \in Observations(es) : es[i].type = "VESSEL_ARRIVED" THEN NoEvent
    ELSE Newest(es, ArrivalForecasts(es))

HasJourneyArrived(es) ==
    \E i \in DOMAIN es : Actual(es[i]) /\ es[i].type = "VESSEL_ARRIVED"

Meaningful(es) == Newest(es, {i \in Observations(es) : es[i].type # "UNKNOWN"})

Workspace(es) ==
    [latest       |-> Newest(es, DOMAIN es),
     latestActual |-> Newest(es, {i \in DOMAIN es : Actual(es[i])}),
     meaningful   |-> Meaningful(es),
     eta          |-> TrackingEta(es),
     position     |-> LatestContainerPosition(es)]

LatestPerContainer(es, wanted) == Newest(es, {i \in wanted : Dated(es[i])})

BulkWorkspace(es) ==
    LET actual       == {i \in DOMAIN es : Actual(es[i])}
        arrivals     == {i \in DOMAIN es : es[i].type = "VESSEL_ARRIVED"}
        latest       == LatestPerContainer(es, DOMAIN es)
        latestActual == LatestPerContainer(es, actual)
        located      == LatestPerContainer(es, {i \in actual : HasAPlace(es[i])})
        arrived      == LatestPerContainer(es, actual \cap arrivals) # NoEvent
        forecast     == LatestPerContainer(es, {i \in arrivals : Forecast(es[i])})
    IN [latest       |-> latest,
        latestActual |-> latestActual,
        meaningful   |-> LatestPerContainer(es, {i \in actual : es[i].type # "UNKNOWN"}),
        eta          |-> IF arrived THEN NoEvent ELSE forecast,
        position     |-> AnyOf(located, AnyOf(latestActual, latest))]

-----------------------------------------------------------------------------
(* The map: where the container is, and the marker drawn for it, if any.   *)

CanonicalObservation(es) ==
    Newest(es, {i \in Observations(es) : es[i].place.row # None})

\* Mutant: a forecast with coordinates is drawn.
AnyReportWithCoordinates(e) == HasCoordinates(e)

DrawableReport(e) == HasCoordinates(e) /\ ~Forecast(e)

NoMarker == [class |-> "none", place |-> Nowhere, event |-> NoEvent]

CurrentPosition(es, r) ==
    LET canonical == CanonicalObservation(es)
        reported  == BulkWorkspace(es).position
        tracking(place, i) == [class |-> "tracking", place |-> place, event |-> i]
    IN IF r.place.row # None THEN [class |-> "physical", place |-> r.place, event |-> NoEvent]
       ELSE IF canonical # NoEvent THEN tracking(es[canonical].place, canonical)
       ELSE IF reported # NoEvent /\ DrawableReport(es[reported])
         THEN tracking([es[reported].place EXCEPT !.row = None], reported)
       ELSE NoMarker

\* A canonical place is drawn where its own row says, whatever was reported,
\* and a reported one where the report says.
Plottable(p) == IF p.place.row # None THEN p.place.row \in Charted ELSE p.place.fix

CurrentMarker(es, r) ==
    IF Plottable(CurrentPosition(es, r)) THEN CurrentPosition(es, r) ELSE NoMarker

-----------------------------------------------------------------------------
(* The rows change. *)

SameEvent(e, f) == e.provider = f.provider /\ e.id = f.id

\* An event of a new fingerprint.
StoreEvent(r) ==
    /\ Len(events) < MaxEvents
    /\ \A i \in DOMAIN events : ~SameEvent(events[i], r)
    /\ events' = Append(events, r)
    /\ UNCHANGED projected

\* The carrier's later, or an older, version of a stored event.
RefreshEvent(r) ==
    \E i \in DOMAIN events :
        /\ SameEvent(events[i], r) /\ events[i] # r
        /\ events' = [events EXCEPT ![i] = r]
        /\ UNCHANGED projected

\* A movement is recorded and the row projected again.
Project(s) ==
    /\ s # projected
    /\ projected' = s
    /\ UNCHANGED events

ReadNext ==
    \/ \E r \in Reports : StoreEvent(r) \/ RefreshEvent(r)
    \/ \E s \in Sightings : Project(s)

ReadSpec == ReadInit /\ [][ReadNext]_readVars

-----------------------------------------------------------------------------
(* Properties. *)

\* Merging is a presentation: every stored event is shown exactly once, as a
\* point or as a corroboration, and a point only stands for reports that say
\* what its first one says of the same place, by different providers and at
\* most the window later (journey.py, "losing a real event is worse than
\* showing a near-duplicate").
EveryReportOnce ==
    LET points == MergeCorroborating(events)
        shown  == FoldLeft(LAMBDA all, p : all \o p, << >>, points)
    IN /\ Len(shown) = Len(events) /\ Range(shown) = DOMAIN events
       /\ \A p \in Range(points) : \A a, b \in DOMAIN p :
            a < b => LET kept == events[p[1]]  e == events[p[a]]  f == events[p[b]]
                     IN /\ e.provider # f.provider
                        /\ kept.type = f.type /\ kept.kind = f.kind
                        /\ SamePlaceExactly(kept, f)
                        /\ Dated(kept) /\ f.at - kept.at \in 0 .. Window

\* What else was observed, of a place that is not this event's.
Elsewhere(last) ==
    {i \in Observations(events) \ {last} :
        HasAPlace(events[i]) /\ ~SamePlaceExactly(events[i], events[last])}

\* The readers answer alike.  The two builders of a workspace give the same
\* position, status and forecast always, and the same latest events unless an
\* undated one is stored.  What the journey calls the carriers' last
\* observation is the last position or older by at most the window, and of the
\* same place unless another place was observed within it.  The map places a
\* container that has no location of its own by the last position, when that
\* was resolved, and leaves out one whose last position has coordinates only
\* for a canonical location that has none.  A forecast is shown only while no
\* dated arrival answers it.
ReadersAgree ==
    LET one    == Workspace(events)
        many   == BulkWorkspace(events)
        last   == one.position
        seen   == LatestObserved(events)
        placed == CurrentPosition(events, projected)
    IN /\ one.position = many.position /\ one.meaningful = many.meaningful
       /\ one.eta = many.eta
       /\ (\A i \in DOMAIN events : Dated(events[i])) => one = many
       /\ seen # NoEvent <=> Observations(events) # {}
       /\ seen # NoEvent =>
            /\ events[last].at - events[seen].at \in 0 .. Window
            /\ HasAPlace(events[last])
               /\ (\A i \in Elsewhere(last) : events[i].at < events[last].at - Window)
               => seen = last \/ SamePlaceExactly(events[seen], events[last])
            /\ projected.place.row = None /\ events[last].place.row # None => placed.event = last
            /\ HasCoordinates(events[last]) /\ CurrentMarker(events, projected) = NoMarker
               => placed.place.row \in Locations \ Charted
       /\ one.eta # NoEvent /\ HasJourneyArrived(events) =>
            \E i \in DOMAIN events : ~Dated(events[i])

\* A forecast is never a position: storing one, or a report without a time,
\* neither opens nor closes a gap, does not change what has been observed of
\* the container, and draws no marker (gaps.py, positions.py and
\* map_positions.py refuse it each by its own rule).
ForecastsDecideNothing ==
    [][\A r \in Reports :
        StoreEvent(r) /\ (Forecast(r) \/ ~Dated(r)) =>
            /\ (Gap(events', projected) = "none") = (Gap(events, projected) = "none")
            /\ LatestObserved(events) # NoEvent =>
                /\ CurrentLocation(events', projected) = CurrentLocation(events, projected)
                /\ CurrentMarker(events', projected) = CurrentMarker(events, projected)
            /\ CurrentMarker(events, projected) = NoMarker =>
                CurrentMarker(events', projected) = NoMarker]_readVars

\* The gap is what is known now: whatever came before it, and in any order, a
\* carrier's observation at the place where we saw the box ends it, unless
\* another place was observed at that time or later (gaps.py: "it disappears
\* the moment a new event explains the segment").
ExplainedGapCloses ==
    [][\A r \in Reports :
        /\ StoreEvent(r) /\ Actual(r) /\ Dated(r) /\ PlacesMatch(r, projected)
        /\ \A i \in Observations(events) :
             /\ HasAPlace(events[i]) /\ ~PlacesMatch(events[i], projected)
             => events[i].at < r.at - Window
        => Gap(events', projected) = "none"]_readVars

=============================================================================
