----------------------------- MODULE Locations -----------------------------
(***************************************************************************)
(* The canonical places of one team: the containment recorded between      *)
(* them, the names their sources use for them, and what the resolver makes *)
(* of the place a carrier names.                                           *)
(*                                                                         *)
(* People edit places through a form that checks the parent and then saves *)
(* the row, in two steps, and record or remove aliases. Workers meanwhile  *)
(* re-ingest one tracking event: they resolve its place, load the stored   *)
(* event and save the fields that differ from the copy they loaded.        *)
(*                                                                         *)
(* A place keeps its name; coordinates are the set of places near the      *)
(* reported point. No caller fills in a country or a city, so the          *)
(* narrowing by those is left out.                                         *)
(***************************************************************************)
EXTENDS Naturals, FiniteSets

CONSTANTS
    Places,         \* the canonical locations of the team
    NameOf,         \* the normalised name of each place
    Names,          \* the names a source or a place may use
    Codes,          \* the UN/LOCODEs
    ExternalCodes,  \* a source's own identifiers for places
    Near,           \* the places within the radius of the reported point
    Reported,       \* the query the tracking event gives rise to
    Forms,          \* what people submit for a place, its whole row
    Rows,           \* the aliases people record
    Editors,        \* requests that edit a place
    Workers,        \* tasks that ingest the event
    None,
    MaxDepth,       \* levels any walk follows
    MaxEdits        \* bound: changes of the master data, faults of the resolver

Queries == [name : Names \cup {None}, externalCode : ExternalCodes \cup {None},
            code : Codes \cup {None}, located : BOOLEAN]

ASSUME PlacesAreNamed ==
    IsFiniteSet(Places) /\ NameOf \in [Places -> Names] /\ Near \subseteq Places
ASSUME DepthIsUsable == MaxDepth \in Nat \ {0}
Aliases == [name : Names \cup {None}, externalCode : ExternalCodes \cup {None},
            place : Places]
LocationRows == [place : Places, parent : Places \cup {None}, active : BOOLEAN,
                 code : Codes \cup {None}]

ASSUME InputsAreRows == Forms \subseteq LocationRows /\ Rows \subseteq Aliases
ASSUME EventNamesAPlace == Reported \in Queries /\ None \notin Places

\* What the resolver may answer, and the event store.
Answers == [status : {"RESOLVED", "AMBIGUOUS", "UNRESOLVED"}, place : Places \cup {None}]

ASSUME NoneIsNoAnswer == None \notin Answers

VARIABLES
    parent,   \* parent_location of each place
    active,   \* is_active of each place
    code,     \* the UN/LOCODE of each place
    aliases,  \* the rows of LocationAlias, all of the event's source
    editing,  \* the validated row an editor is about to save
    event,    \* what the tracking event stores about its place
    ingest,   \* how far each worker is with the event
    edits     \* changes and faults so far

placeVars == <<parent, active, code, aliases, editing, event, ingest, edits>>
master == <<parent, active, code, aliases>>

Unresolved == [status |-> "UNRESOLVED", place |-> None]
Ambiguous == [status |-> "AMBIGUOUS", place |-> None]
Resolved(p) == [status |-> "RESOLVED", place |-> p]

-----------------------------------------------------------------------------
(***************************************************************************)
(* Containment. Three walks read it, each level by level and bounded.      *)
(***************************************************************************)

\* One step of a climb: nowhere further from the top, or from a place seen.
Up(climb) ==
    IF climb.at = None \/ climb.at \in climb.seen THEN climb
    ELSE [at |-> parent[climb.at], seen |-> climb.seen \cup {climb.at}]

Climb(p, from, levels) ==
    LET climb[n \in Nat] == IF n = 0 THEN [at |-> from, seen |-> {p}]
                            ELSE Up(climb[n - 1])
    IN  climb[levels]

\* The places above p that ancestor_chain lists.
AncestorIds(p) == Climb(p, parent[p], MaxDepth).seen \ {p}

\* MUTANT of DescendantIds: one level short of the others.
DescendantIdsShort(p) ==
    {p} \cup {q \in Places : p \in Climb(q, parent[q], MaxDepth - 1).seen}

\* p and the places beneath it, as descendant_ids collects them.
DescendantIds(p) ==
    LET Children(found) == {q \in Places \ found.ids : parent[q] \in found.frontier}
        walk[n \in Nat] ==
            IF n = 0 THEN [ids |-> {p}, frontier |-> {p}]
            ELSE LET below == Children(walk[n - 1])
                 IN  [ids |-> walk[n - 1].ids \cup below, frontier |-> below]
    IN  walk[MaxDepth].ids

\* Which of the places sit inside one of the containers: each place carries
\* the ancestor being examined, until it is a container, the top or itself.
ContainedIds(places, containers) ==
    LET Onward(pending) ==
            [p \in {q \in DOMAIN pending : /\ pending[q] \notin containers
                                           /\ parent[pending[q]] \notin {None, q}}
                |-> parent[pending[p]]]
        walk[n \in Nat] ==
            IF n = 0 THEN [p \in {q \in places : parent[q] # None} |-> parent[p]]
            ELSE Onward(walk[n - 1])
    IN  UNION {{p \in DOMAIN walk[n] : walk[n][p] \in containers}
                    : n \in 0 .. MaxDepth - 1}

\* validate_parent: the chain above q ends within the bound and avoids p.
Legal(p, q) == Climb(p, q, MaxDepth - 1).at = None

\* The parents the form of p offers.
ParentOptions(p) ==
    {q \in Places \ DescendantIds(p) : active[q] \/ q = parent[p]}

-----------------------------------------------------------------------------
(***************************************************************************)
(* The resolver: rules in order, the first with something to say decides.  *)
(***************************************************************************)

\* The place the alias rows give this identifier.
AliasedTo(field, value) ==
    {row.place : row \in {r \in aliases : value # None /\ r[field] = value}}

Coded(c) == {p \in Places : active[p] /\ c # None /\ code[p] = c}
Called(n) == {p \in Places : active[p] /\ NameOf[p] = n}
Fixed(query) == {p \in Near : active[p] /\ query.located}

\* The candidates that no other candidate contains.
Outermost(places) ==
    IF Cardinality(places) < 2 THEN places
    ELSE places \ ContainedIds(places, places)

\* A rule answers with at most one resolution; none passes the question on.
ByAlias(query) ==
    LET named == AliasedTo("name", query.name)
        given == AliasedTo("externalCode", query.externalCode)
        first == IF \E p \in named : active[p] THEN named ELSE given
    IN  IF named # {} /\ given # {} /\ named # given THEN {Ambiguous}
        ELSE {Resolved(p) : p \in {q \in first : active[q]}}

\* MUTANT of Consistent: the name decides by itself, whatever the code says.
ConsistentByName(query) == Outermost(Called(query.name))

\* The places of that name that carry the code or sit inside one that does.
Consistent(query) ==
    LET named == Outermost(Called(query.name))
        coded == Coded(query.code)
    IN  (named \cap coded) \cup ContainedIds(named, coded)

ByNameWithinCode(query) ==
    IF Outermost(Called(query.name)) = {} \/ Coded(query.code) = {} THEN {}
    ELSE CASE Cardinality(Consistent(query)) = 1 ->
                  {Resolved(p) : p \in Consistent(query)}
           [] Consistent(query) = {} -> {Ambiguous}
           [] OTHER -> {}

Decide(places) ==
    IF places = {} THEN {}
    ELSE IF Cardinality(Outermost(places)) = 1
         THEN {Resolved(p) : p \in Outermost(places)}
         ELSE {Ambiguous}

ByCoordinates(query) ==
    IF Cardinality(Fixed(query)) > 1 THEN {Ambiguous}
    ELSE {Resolved(p) : p \in Fixed(query)}

\* What a rule says, or else what the rest of the chain says.
Else(rule, rest) == IF rule # {} THEN rule ELSE rest

Resolve(query) ==
    CHOOSE answer \in
        Else(ByAlias(query),
        Else(ByNameWithinCode(query),
        Else(Decide(Coded(query.code)),
        Else(ByCoordinates(query),
        Else(Decide(Called(query.name)), {Unresolved}))))) : TRUE

-----------------------------------------------------------------------------
\* The containment the form could have built up: each parent legal by itself.
PlaceInit ==
    /\ parent \in [Places -> Places \cup {None}]
    /\ \A p \in Places : Legal(p, parent[p])
    /\ active = [p \in Places |-> TRUE]
    /\ code \in [Places -> Codes]
    /\ aliases = {}
    /\ editing = [e \in Editors |-> None]
    /\ event = None
    /\ ingest = [w \in Workers |-> [step |-> "idle"]]
    /\ edits = 0

Edit == edits < MaxEdits /\ edits' = edits + 1

\* The form offers the parent and the model's clean() accepts it.
Submit(e, form) ==
    /\ editing[e] = None
    /\ Edit
    /\ form.parent \in ParentOptions(form.place) \cup {None}
    /\ Legal(form.place, form.parent)
    /\ editing' = [editing EXCEPT ![e] = form]
    /\ UNCHANGED <<master, event, ingest>>

\* The whole row is written; the parents were read when the form was checked.
SaveForm(e) ==
    /\ editing[e] # None
    /\ LET form == editing[e] IN
        /\ parent' = [parent EXCEPT ![form.place] = form.parent]
        /\ active' = [active EXCEPT ![form.place] = form.active]
        /\ code' = [code EXCEPT ![form.place] = form.code]
    /\ editing' = [editing EXCEPT ![e] = None]
    /\ UNCHANGED <<aliases, event, ingest, edits>>

\* The button that retires a place or brings it back.
ToggleActive(p) ==
    /\ Edit
    /\ active' = [active EXCEPT ![p] = ~ @]
    /\ UNCHANGED <<parent, code, aliases, editing, event, ingest>>

\* Somebody's alias says it already.
Taken(row) ==
    \E r \in aliases : \/ row.name # None /\ r.name = row.name
                       \/ row.externalCode # None /\ r.externalCode = row.externalCode

\* An alias says something that nobody's says already; two creations at
\* once meet at the unique constraints.
CreateAlias(row) ==
    /\ Edit
    /\ row.name # None \/ row.externalCode # None
    /\ ~ Taken(row)
    /\ aliases' = aliases \cup {row}
    /\ UNCHANGED <<parent, active, code, editing, event, ingest>>

DeleteAlias(row) ==
    /\ Edit
    /\ row \in aliases
    /\ aliases' = aliases \ {row}
    /\ UNCHANGED <<parent, active, code, editing, event, ingest>>

-----------------------------------------------------------------------------
\* A carrier reports the event (again) and the worker resolves its place.
ResolveEvent(w) ==
    /\ ingest[w].step = "idle"
    /\ ingest' = [ingest EXCEPT ![w] = [step |-> "resolved", answer |-> Resolve(Reported)]]
    /\ UNCHANGED <<master, editing, event, edits>>

\* A fault of the resolver costs the place, never the event.
ResolverFails(w) ==
    /\ ingest[w].step = "idle"
    /\ Edit
    /\ ingest' = [ingest EXCEPT ![w] = [step |-> "resolved", answer |-> Unresolved]]
    /\ UNCHANGED <<master, editing, event>>

\* get_or_create: the first worker inserts the event with its answer, ...
Insert(w) ==
    /\ ingest[w].step = "resolved"
    /\ event = None
    /\ event' = ingest[w].answer
    /\ ingest' = [ingest EXCEPT ![w] = [step |-> "idle"]]
    /\ UNCHANGED <<master, editing, edits>>

\* ... a later one loads it.
Load(w) ==
    /\ ingest[w].step = "resolved"
    /\ event # None
    /\ ingest' = [ingest EXCEPT ![w] =
            [step |-> "loaded", answer |-> ingest[w].answer, seen |-> event]]
    /\ UNCHANGED <<master, editing, event, edits>>

\* MUTANT of Update: the answer is kept only where the event had none.
UpdateOnlyFilledIn(w) ==
    /\ ingest[w].step = "loaded"
    /\ LET answer == ingest[w].answer IN
       event' = [status |-> answer.status,
                 place |-> IF event.place = None THEN answer.place ELSE event.place]
    /\ ingest' = [ingest EXCEPT ![w] = [step |-> "idle"]]
    /\ UNCHANGED <<master, editing, edits>>

\* The fields in which the answer differs from the loaded copy are written.
Update(w) ==
    /\ ingest[w].step = "loaded"
    /\ LET answer == ingest[w].answer
           seen == ingest[w].seen
       IN  event' = [field \in {"status", "place"} |->
                IF answer[field] # seen[field] THEN answer[field] ELSE event[field]]
    /\ ingest' = [ingest EXCEPT ![w] = [step |-> "idle"]]
    /\ UNCHANGED <<master, editing, edits>>

-----------------------------------------------------------------------------
ChangeMaster ==
    \/ \E e \in Editors, form \in Forms : Submit(e, form)
    \/ \E e \in Editors : SaveForm(e)
    \/ \E p \in Places : ToggleActive(p)
    \/ \E row \in Rows : CreateAlias(row) \/ DeleteAlias(row)

Store(w) == Insert(w) \/ Load(w) \/ Update(w)

PlaceNext ==
    \/ ChangeMaster
    \/ \E w \in Workers : ResolveEvent(w) \/ Store(w) \/ ResolverFails(w)

PlaceSpec == PlaceInit /\ [][PlaceNext]_placeVars

\* A task that has an answer stores it. That the event is reported again is
\* not assumed: nobody polls a watch that is completed, paused or cancelled.
PlaceFairSpec == PlaceSpec /\ \A w \in Workers : WF_placeVars(Store(w))

-----------------------------------------------------------------------------
\* The path above a place, the subtree below one and the resolver's narrowing
\* agree about what is inside what, however the parents came to be recorded:
\* over-deep and circular structures included. location_hierarchy keeps its
\* walks together so that a port does not contain a terminal on one page only.
WalksAgree ==
    \A q \in Places :
        LET above == AncestorIds(q)
        IN  /\ above = {p \in Places \ {q} : q \in DescendantIds(p)}
            /\ above = {p \in Places \ {q} : q \in ContainedIds({q}, {p})}

\* The hierarchy is acyclic: no place is above itself at any distance. The
\* docstrings of location_hierarchy and of the update view promise it.
Acyclic ==
    \A p \in Places : parent[p] # None =>
        Climb(p, parent[p], Cardinality(Places)).at = None

\* The places above p at whatever distance.
Above(p) == Climb(p, parent[p], Cardinality(Places)).seen \ {p}

\* In a forest a code alone never names a place inside another that carries
\* it, and a name that comes with a code only ever narrows the code's answer:
\* it resolves to the same place or to one inside it. Neither takes heed of
\* MaxDepth: places deeper than that are a chain of shorter containments.
NamesOnlyNarrow ==
    Acyclic =>
        \A c \in Codes, n \in Names :
            LET coarse == Decide(Coded(c))
                fine == ByNameWithinCode([name |-> n, externalCode |-> None,
                                          code |-> c, located |-> FALSE])
            IN  \A a \in coarse : a.status = "RESOLVED" =>
                    /\ Coded(c) \cap Above(a.place) = {}
                    /\ \A b \in fine : b.status = "RESOLVED" =>
                        a.place \in Above(b.place) \cup {b.place}

\* As long as the event is reported again, it ends up storing exactly what the
\* resolver answers once the master data is left alone, the removal of a wrong
\* link included, whatever stale copies were saved on the way.
StillReported == []<><<\E w \in Workers : ResolveEvent(w)>>_placeVars

EvidenceCatchesUp == StillReported => <>[](event = Resolve(Reported))

=============================================================================
