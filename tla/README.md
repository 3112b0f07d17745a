# Verification of the container supply-chain platform

TLA+ specifications of the core of `src/apps/scm`: the lock that background work runs
under, the position of a container and what competes for it, the polling of carriers and
aggregators, how a container comes by its tracking sources, what the pages read out of
the stored events, the shipment, the quantities booked against orders, the import of
files and of Business Central's documents, and the master data of places. TLC checks each
on a small instance. TLAPS proves the safety properties that the runs check, and that
four of the specifications implement abstract ones, for every value of the constants.

To run everything, in this directory: `tlc -workers 2 -config <run>.cfg <module>` for the
twelve runs below (section 3 names their modules), and `tlapm <module>.tla` for the eight
modules of proofs.

## 1. The system

A Django application for teams that import goods in containers. Web requests and Celery
workers share one PostgreSQL database and one cache; Celery Beat queues the periodic
work. There are few long transactions: a handler reads a row, works on the instance in
memory, often for as long as an HTTP call to a carrier takes, and saves named columns.
So the system's correctness rests on a few things: a lock, some `select_for_update`
blocks, unique constraints, the choice of the columns each save names, and read models
that derive one answer from the same rows in several places.

### Components

| Component (`apps/scm/...`) | State | Operations | Hard behaviour | What makes it correct |
|---|---|---|---|---|
| Resource lock, `integrations/locks.py` | a cache key with a token and a TTL; a PostgreSQL session advisory lock | `resource_lock` as a context manager | TTL runs out under a run; cache down for some; unlock or delete fails; process or connection dies | one body at a time, nobody unprotected, but for who lost the connection in the body; no stale lock for ever |
| Container movements, `containers/movements.py`, `choices.py` | append-only `ContainerMovement` history; three projected columns of `Container` | `record_container_movement`, `project_container_state`, the readers | history arrives out of order, from people, files and carriers | the columns are those of the winning movement |
| Container editing, `containers/services.py`, `views.py` | `Container` | `create_container`, `update_container`, movement form | a whole-row save of a stale instance | only a stale form takes the position away from the history |
| Event ingestion, `tracking/ingestion.py`, `physical_movements.py` | `TrackingEvent` | `upsert_event`, `_update_existing_event`, `interpret_tracking_event` | two workers on one event; corrections; swallowed exceptions | at most one movement per event, and in the end one |
| Location resolution, `containers/location_resolver.py`, `location_hierarchy.py`, `location_views.py` | `Location`, aliases | resolve a carrier's place, edit places and aliases, learn an alias | two edits of the hierarchy at once; master data changes after events are stored | deterministic matches; a stored event catches up |
| Sync engine, `tracking/sync.py`, `services.py`, `tasks.py`, `selectors.py` | `TrackingSubscription`, `TrackingSyncRun` | dispatch, the sync cycle, completion | people and unlocked cycles interleave with it; crashes | locked cycles are serial; nothing stranded; due work is done |
| People and activation, `tracking/views.py`, `source_switch.py`, `manual_refresh.py`, `activation.py` | the same rows | pause, resume, cancel, refresh, switch, store an answer | no lock, no status check | one watch of a provider |
| Journey continuation, routing, discovery, `tracking/continuation.py`, `provider_routing.py`, `preferences.py`, `integrations/carriers/carrier_*.py` | a cooldown key, a lock, the override row | `continue_journey`, `route_for`, resolve, probe, sweep, switch | cooldown and lock taken in turn; faults in the middle of a sweep | a gap that stays is explained if anyone can explain it |
| Tracking read models and workspaces, `tracking/journey.py`, `gaps.py`, `positions.py`, `selectors.py`, `containers/workspace.py`, `visibility/map_positions.py` | none | derive, for one container and in bulk | six readers with rules of their own | they agree; a forecast is never a position |
| Polling cadence, `tracking/polling.py` | none | interval rules | - | the next poll lies in the future |
| Planned containers, `containers/discovery.py`, `tasks.py` | `PlannedContainer` | register, discovery pass, clean-up, cancel | passes overlap for minutes | no number given up early; every search ends |
| Shipments, `shipments/services.py`, `transport_status.py`, `tracking/eta_observations.py` | status, milestones, ETA, `ETAHistory` | apply tracking, record a provider's forecast, edit, cancel, close, receive | instances loaded minutes before; runs that die between two saves | an ETA is on record unless a form or a cut-off run left it; the next answer repairs |
| Supplier deliveries and intake, `supplier_deliveries/`, `containers/intake.py` | delivery lines | book a batch, remove | check-then-create without a lock | a batch is whole; quantities fit unless overtaken |
| Procurement, `procurement/` | order lines, acquisitions | link containers, edit and delete lines, upsert | row lock and unique constraint | one origin per container, the loser told the winner's |
| Business Central, `integrations/business_systems/`, `integrations/tasks.py` | orders, lines, hashes, watermark | sync, reconcile, dispatch | documents change between two pages; failed upserts; crashes | nothing missed but behind a long listing; hash trusted; only the gone deactivated |
| Imports, `imports/` | `ImportJob`, its rows | upload, parse, validate, confirm | two tabs; rows saved from stale copies; a process dies in the middle | an import is whole; each line once, and only a sound one |
| Carrier adapters and aggregators, `integrations/carriers`, `traqo`, `vizion` | none | HTTP, mapping | every kind of failure | an error is never an answer |
| Visibility, `visibility/` | none | map, arrivals, control tower, location queues | - | functions of stored state |
| Analytics, audit log, rates, team settings | append-only logs, settings | reports, forms | - | - |
| Platform and front end, `apps/teams`, `users`, `web`, ... | accounts | the SaaS scaffold | - | - |

How they interact. Beat calls `dispatch_due_tracking_subscriptions`,
`dispatch_planned_container_discovery` and the dispatcher of integrations, which queue
tasks by id. A task loads its row, takes the resource lock of the subscription or of the
integration, fetches, and stores what it fetched. Each stored tracking event has its place
resolved (locations), may become a movement (interpretation), which locks the container
row and projects it, and updates the shipments of its container (milestones, ETA,
status). The state update then reschedules or completes the subscription. A person reaches
the same rows at any moment from a view, mostly without the lock: pausing, refreshing or
switching a source, editing a container, a shipment or a place, booking quantities,
confirming an import. The pages read the rows through the read models, which store
nothing.

`PROJECT.json` lists the components with their status, and under `hazards` the places
that a test would hardly reach, each with the properties that watch it.

## 2. The modules

| Module | What it is | Code |
|---|---|---|
| `ExclusiveHolder` | abstract: a set of holders, of whom at most one has not lost the lock | what callers of `resource_lock` rely on |
| `ResourceLock` | the two combined locks, step by step | `integrations/locks.py` |
| `PositionLedger` | abstract: a set of claims and a strongest one | the docstring of `containers/movements.py`, "Time leads, provenance breaks ties" |
| `ContainerMovements` | history, projection, and the workers that ingest events | `containers/movements.py`, `choices.py`, `tracking/ingestion.py`, `tracking/physical_movements.py`, the movement importer |
| `ContainerEditing` | `ContainerMovements` with edit forms beside it | `containers/services.py`, `containers/views.py` |
| `Locations` | places, their hierarchy and aliases, and the event whose place is resolved | `containers/location_resolver.py`, `location_hierarchy.py`, forms and views of places, `tracking/ingestion.py` |
| `TrackingSync` | the life of a subscription and of the workers on it | `tracking/sync.py`, `services.py`, `tasks.py`, `selectors.py`, `views.py`, `manual_refresh.py`, `source_switch.py` |
| `TrackingSources` | how one container comes by its watches | `tracking/manual_refresh.py`, `continuation.py`, `activation.py`, `provider_routing.py`, `source_switch.py`, `preferences.py`, carrier resolution and discovery |
| `ReadModels` | what the pages say of one container | `tracking/journey.py`, `gaps.py`, `positions.py`, `selectors.py`, `containers/workspace.py`, `visibility/map_positions.py` |
| `PlannedContainers` | discovery passes and clean-ups on planned numbers | `containers/discovery.py`, `containers/tasks.py` |
| `ShipmentTracking` | a shipment's row under syncs and people | `shipments/transport_status.py`, `services.py`, `views.py` |
| `SupplyBooking` | quantities booked and origins given by concurrent requests | `supplier_deliveries/`, `containers/intake.py`, `procurement/container_links.py` |
| `BusinessCentralSync` | sync and reconciliation of orders that change meanwhile | `integrations/business_systems/business_central/`, `procurement/services.py`, `integrations/services.py`, `tasks.py` |
| `Imports` | a job and its rows from upload to import | `imports/` |
| `BusinessCentralSyncProofs`, `ShipmentTrackingProofs`, `SupplyBookingProofs`, `TrackingSourcesProofs` | theorems about the module they are named after | |
| `ContainerMovementsProofs` | theorems about `ContainerMovements` and `ContainerEditing` | |
| `ExclusionProofs` | theorems about `ResourceLock` and `Imports`, the two with a lock of their own | |
| `RegistryProofs` | theorems about `PlannedContainers` and `Locations`, what a team registers | |
| `TrackingProofs` | theorems about `TrackingSync` and `ReadModels`, what keeps the events up to date and what tells what they come to | |
| `MCLocations`, `MCReadModels`, `MCSupplyBooking` | the data of an instance, and a symmetry set | |

Composition. `ContainerEditing` EXTENDS `ContainerMovements` and adds one variable; the
history and the ingestion go on beside it. `TrackingSync`, `TrackingSources` and
`BusinessCentralSync` use the lock as a whole (free, held, or lingering after a crash),
which is what `ResourceLock` is shown to implement for workers whose connection is not
dropped in the body; that it is not is assumed there (section 5). `Imports`, whose
confirmations lock the job's row, implements the same `ExclusiveHolder`, and so do the
locked cycles of each subscription in `TrackingSync`. `Fetch` of `TrackingSync` ends where
`Deliver` of `ContainerMovements`, `ResolveEvent` of `Locations` and `StartSync` of
`ShipmentTracking` begin: one stores that events came, the others what becomes of them. A
sync, which `TrackingSync` takes apart, is one step of `TrackingSources`; the gap, which
is a flag that changes there, is derived by `ReadModels`.

### State and actions against the code

**ResourceLock.** `cache` is the owner of the cache key, `Orphan` a key whose call no
longer exists; `owner` and `depth` are the session advisory lock and how often its
session stacked it; `session` is the database connection; `pc` walks through
`resource_lock`, with `_safe_cache_delete` as its two cache calls (`CheckToken`,
`DeleteKey`). Each way a call fails is an action: `CacheReject`, `CacheUnavailable`,
`AdvisoryRefused`, `UnlockFails`, `DeleteFails`; and each thing the environment does:
`Expire`, `EndSession`, `LoseSession`, `Reconnect`, `Crash`. The lock goes with the
connection, the body goes on: Django opens another connection at the next query, and the
code under the lock catches what one item raises and takes the next. `Inside` are those in
the body, `evicted` those of them whose connection was dropped since they entered.

**ContainerMovements.** One container. `movements` is its history in the order of
creation, `container` the three projected columns. `Beats` is `state_sort_key`; `Project`
is `project_container_state`; `Record` is the transaction of `record_container_movement`,
guarded by `Coherent` (`_validate_movement`) where it is called. `event` holds what is
stored of each event and `job` what a worker has in memory: `Deliver` (the lookup or the
creation of `upsert_event`), `Refresh` (the fields that differ), `CheckEvent` (the
`exists()` test), `RecordEvent` (the insert, which the unique constraint may refuse) and
`Interrupt` (an exception that `interpret_tracking_event_safely` swallows, or a death).
`CreateContainer`, `RecordOperationalMovement` and `ImportMovement` are the movements of
people and files.

**ContainerEditing.** `LoadForm`, `SaveRow` and `AdjustPosition` are the three parts of an
edit, each a transaction of its own. `overwritten` remembers that, since the latest
movement, a form was saved that had been loaded before it.

**Locations.** The columns of each place (parent, activity, code), the alias rows, and of
one tracking event what is stored of its resolution. An edit is the form's check of the
parent and, as a step of its own, the save of the whole row. Ingestion is the resolution
of the reported place (`ResolveEvent`) and `Store`: the insert, or the load of the stored
event and the save of the fields that differ.
Resolution is `Resolve`: the resolver's rules in their order, of which the first with
something to say decides, and several places that do not contain each other are AMBIGUOUS.

**TrackingSync.** `status`, `failures`, `nextSync` and `stale` are columns; dates are
reduced to past and future. `job` is the instance a worker loaded. The phases of a worker
are those of `sync_tracking_subscription`: `AcquireLock` or `GiveUp`, `BeginRun`
(`create_sync_run`), `Fetch`, `ApplyOutcome` (`update_subscription_sync_state`),
`CompleteIfTerminal`, `ReleaseLock`. A worker that brings an answer (activation) runs the
same cycle without the lock, because `store_discovered_carrier_source` does.

**TrackingSources.** `watches` are the subscriptions, oldest first; `requests` where each
request stands, with the watches and the route it read. `Press` is the refresh button,
`SyncSource` one source after another, `Extend` the tests of `continue_journey` (gap,
cooldown, lock), `SweepFinds`, `SweepMisses` and `SweepErrs` one carrier of the sweep,
`Resolve` the stages of carrier resolution, `FetchAnswers` with `Get` or `Create` and
`Store` an activation, `Choose` and `PauseOthers` the switch of the provider, `Promote`
the import of a planned number, and `Poll` and `Decide` everybody else.

**ReadModels.** `events` are the stored events by creation and `projected` the position on
the container's row; the actions are those of the rest of the system as the readers see
them: an event is stored or refreshed, a position projected. Everything else are
operators: the merged journey (a point is the sequence of the reports it stands for), the
current location, the gap and its confidence, the last position, a workspace for one
container and in bulk, the arrival forecast, and the marker of the map, which is drawn
only where there are coordinates to draw it at (`Plottable`). A place is what a row says
of it: a code, a name, a fix, a canonical location. Two reports are of one place when
their codes agree or, if one has none, their names; so a report with a name only may
corroborate two whose codes differ.

**PlannedContainers.** `held[p]` are the instances a pass loaded, at which it works one
after the other, and whose counts it saves. `AskCarriers` separates the test of
`is_exhausted` from the record that follows the carriers' answers; `Record` and
`GiveUpNumber` separate the two saves of a last attempt.

**ShipmentTracking.** `row` is the shipment, `history` the latest `ETAHistory` entry; each
sync and each person holds an instance; `recorded` are the forecasts that have a history
row. A run is `StartSync`, `StoreEvents` or `AnswerWithout` (a success without an event,
which applies nothing), `ApplyMilestones`, `ApplyEta` with `SaveEta` and `RecordEta` (the
two commits of `update_shipment_eta`), `ApplyStatus`, `FinishSync`, and of an aggregator
`Observe`, its own forecast. Each saves named columns from the instance the run loaded;
each save may raise, and the run may end after any. People load the form and save it
whole, choose a status, link and unlink containers, receive deliveries.

**SupplyBooking.** Lines with their ordered quantity, deliveries, booked lines, acquired
origins; a request is where it stands in its transaction and what it has read. Sums are
read before lines are written and nothing is locked in between, except an origin, which is
given under the container's row lock.

**BusinessCentralSync.** `document` is what Business Central holds, with its modification
time; `header` and `lines` are our rows, with the stored hash and activity; `run` is what
each worker has read. The orders are listed first, page after page (`ListOrder` looks at
one of them), their lines read one after the other, and then they are written one after
the other; the watermark moves last. Documents change in between. `unseen` are the
orders written behind the page a sync was reading, `missed` those of them its watermark
left behind. Pages follow the orders by a key that does not change, so that each order is
on one page only.

**Imports.** `status` and `type` are the job's, `rows` its rows with the parse that
created them (their key), `data` of each row's `validated_data` what the importers ask of
it (nothing, the schema's fields, those with the parts of the container number), `made`
the objects created of each line. Parsing and validation
are one step per row; a confirmation takes the job's row and every import row, and is
visible only as a whole.

### What is abstracted

Names, numbers, messages and payloads are model values. Locations are places (codes,
names and rows of the registry in `ReadModels` and `Locations`); an event
that is not resolved, not ACTUAL or not a gate-in is one with no place. Dates are small
instants where their order or their distance decides, else past and future. Kinds of
movements only decide which ends they need. History-only movements, which
`get_state_movements` leaves out, are not recorded. How two names come to read alike is
`Similar` in `ReadModels` and equality of names in `Locations`: normalisation is a
constant, not a computation. Each module's header names what else it leaves out.

## 3. The runs

The module of a run is the module it is named after, or `MC<module>` where there is one
(`ContainerEditing` for `ContainerEditing_safety`).

| Run | Instance | Properties | What it shows |
|---|---|---|---|
| `ResourceLock` | 3 workers, stacking depth 2 | `NeverUnprotected`, `ImplementsExclusiveHolder`, `NoPermanentStaleLock` | the combination of the locks is one exclusive lock, lost only with the connection of its holder, and it is never taken for ever |
| `ContainerMovements` | 1 movement by hand, 1 event, 2 places, 2 instants, 2 workers, 1 fault | `OneMovementPerEvent`, `ProjectionIsWinner`, `ImplementsPositionLedger`, `MovesOnlyOnNewEvidence`, `EligibleEventsGetMovements` | the position does not depend on the order of arrival; a refresh moves nothing; races and lost interpretations only delay the one movement of an event that keeps being delivered |
| `ContainerEditing_safety` | 2 editors, 1 worker, 1 place, 2 instants, 1 fault | `DriftsOnlyByStaleForms` | the row leaves its history only through a form that a movement overtook, and the next movement brings it back |
| `TrackingSync` | 1 subscription, 2 workers, 1 crash, all requests | `OneLockedRun`, `SyncingMeansRunning`, `CompletedIsUnscheduled`, `CrashedSyncRecovers`, `DueIsSynced`, `DeliveredCompletes` | locked cycles are serial, nothing is stranded, due work and completions happen |
| `PlannedContainers` | 1 number, 2 passes, budget 3, 1 crash | `NeverGivenUpEarly`, `EveryNumberDecided` | overlapping passes never give up early, and every search ends |
| `BusinessCentralSync` | 2 orders, 1 line, 2 workers, clock 3, 3 changes, 1 fault | `NothingMissed`, `HashVouchesForLines`, `OnlyGoneDeactivated`, `ChangesArrive` | a change slips through the watermark only behind a long listing; all else that Business Central says in the end arrives |
| `SupplyBooking` | 1 line, 2 containers, 1 delivery, 2 requests, 1 change | `WholeBatches`, `LoserReadsWinner`, `ExactUnlessOvertaken` | batches are whole; only an overtaken booking can exceed the order; one origin wins |
| `ShipmentTracking` | 1 watch of an aggregator, 1 person, 2 forecasts, 1 act | `EtaIsOnRecord`, `BroughtIntoLine` | an ETA has a history row unless a form or a cut-off run wrote it; answers with events bring the row into line |
| `TrackingSources` | 2 requests, 2 carriers and the aggregator, 2 acts and faults | `OneWatchFromRefreshes`, `GapIsExplained` | refreshes never make two watches of a provider; a gap that stays gets explained |
| `Imports` | 4 lines, one each malformed, with a bad number, of unknown type and sound, 2 requests, 2 faults | `ImportTypeOK`, `OnceUnlessReopened`, `OnlySoundLines`, `ImportsAreWhole`, `JobsSettle` | an import is whole, makes nothing of an unsound line whatever is saved over its row, and nothing twice unless a stale validation opened the line again |
| `Locations` | 3 places, 2 editors, 2 workers, depth 2, 2 changes | `WalksAgree`, `NamesOnlyNarrow`, `EvidenceCatchesUp` | the walks agree even on cyclic data; a name never overrules a code; a stored event that is still reported ends up with today's answer |
| `ReadModels` | 14 reports of 3 providers, up to 4 stored, 4 sightings | `EveryReportOnce`, `ReadersAgree`, `ForecastsDecideNothing`, `ExplainedGapCloses` | merging loses nothing; the readers agree; forecasts decide no position; a gap ends when explained |

Every property has a mutant in `PROJECT.json`: a plausible bug in one definition, written
beside it, that makes TLC report the property.

Type invariants are theorems (`Typing`, `TypeCorrect`, `PlacesAreTyped`) and not repeated
in the runs, but for `ImportTypeOK`. Two components whose theorems share a module keep
their definitions apart by name (`ImportSpec`, `PlaceSpec`). `MutualExclusion` of
`ResourceLock` is the theorem `Exclusion`; in the run it is what
`ImplementsExclusiveHolder` says of `Inside`.

### Bounds, and why they are enough

* `ResourceLock`: `MaxDepth = 2`: one swallowed unlock leaves depth 1 behind, a second call
  of the same session reaches 2; a third only repeats that. Three workers: one holds the
  lock, one deletes a key that is no longer its own, a third takes the key that is deleted.
* `ContainerMovements`: two workers on one event, two places and one fault see all races
  of `exists()` and insert and of a correction with a refresh, and one failure between any
  two steps. A movement by hand of any instant and source competes with that of the event.
  Longer histories and more faults are the proof's: its invariant is inductive for any.
* `ContainerEditing`: two forms that overwrite each other, one movement by hand, one event
  and one death; one place, since a container may also have none. It is the largest
  instance, of 1.3 million states; the theorem holds for any number of each.
* `TrackingSync`: rows and locks of different subscriptions share nothing but the workers.
  The failure counter matters by growing and being reset (`MaxFailures`). One death at any
  point; more repeat it.
* `PlannedContainers`: a pass loads all due rows at once, but the steps it takes for
  different numbers touch different rows. `MaxAsked = MaxAttempts + 1` sees that a budget
  was overrun.
* `BusinessCentralSync`: two orders, so that one is changed while the other is listed, read
  or written, and one gives the watermark that the other is behind; two workers for a
  reconciliation beside a sync; a clock of 3 with an overlap of 1 for a change of the same
  time stamp, within the overlap, and behind it. A document has the line or not; with one
  value, that is what changes. The theorems hold for any orders, lines and values.
* `SupplyBooking`: two containers make a batch, two requests a race; with quantities 0 and
  1 any second booking exceeds the order. Symmetry of requests and containers.
* `ShipmentTracking`: one watch of an aggregator, which has forecasts of both kinds, whose
  runs die and start again beside a person, two forecasts. `EtaIsOnRecord` is proved for
  any number of watches and people, so also for runs that overtake each other.
* `TrackingSources`: carrier 2 is covered by the aggregator and named by a wrong lookup,
  carrier 1 is neither; both know the container. Acts of people and faults are bounded
  together (`MaxTrouble`), so each pair of them is seen.
* `Imports`: the four lines are one of each kind; two tabs; two deaths or exceptions.
* `Locations`: a port, a terminal and a yard; the terminal and the yard share a name, all
  may carry one code. Two edits that overtake each other make chains as deep as `MaxDepth`
  and cycles. A chain deeper than `MaxDepth` needs four places; `WalksAgree` and
  `NamesOnlyNarrow` are proved for any number of places and any depth.
* `ReadModels`: the reports contain a corroboration within and beyond the window, two
  reports of one provider, a gate-in with a name only that is corroborated by two with
  codes that disagree, paperwork, undated and unnamed ones, a fix without a name, a
  forecast that becomes actual, and places the map has no coordinates for. Four in any
  order, with refreshes, fill and split every kind of point.

`CHECK_DEADLOCK` is off where the system may really stop: a planned number, a document, an
order line, a shipment, a container with its sources and an import job may all need no
further step.

### Fairness, and why the code justifies it

* `ResourceLock`: a call that began goes on (all its calls return or raise), a session ends
  in the end although the same task may call again (`SF`), and the TTL of a key runs out.
  No fairness on taking the advisory lock: a caller may be refused for ever.
* `ContainerMovements`, `Locations`: a started worker goes on. That an event is delivered
  again is not assumed, because nobody polls a watch that is completed, paused or
  cancelled; it is the premise of `EligibleEventsGetMovements` (`KeepsArriving`) and of
  `EvidenceCatchesUp` (`StillReported`). Failures and edits are bounded, and an edit that
  was submitted need not be saved.
* `TrackingSync`: Beat ticks; clocks advance; the TTL runs out; a cycle goes on, as each
  HTTP call has a timeout; a queued task is taken although requests keep the processes busy
  (`SF`: the model puts web threads and Celery processes into one set, in production the
  workers of the queue serve nothing else); and a carrier asked for ever answers at times
  (`SF` on `Answer`).
* `PlannedContainers`: Beat starts passes, passes go on, and from some time on a carrier
  can be asked. The last is needed: a pass that could ask nobody saves the count it loaded,
  and so may undo the attempts that another pass counted meanwhile; if that went on for
  ever the search would not end.
* `BusinessCentralSync`: a run that is not killed goes on, time passes, and the dispatcher
  ticks often enough to find the integration due in between other runs (`SF`). Nobody has
  to change a document, reconcile, or start a run by hand.
* `ShipmentTracking`: a watch is polled again and again; any run may die and any save may
  raise, but each step that is reached again and again goes through once more (`SF` on the
  steps of a run). That answers with events keep coming is a premise of `BroughtIntoLine`,
  as are that people rest and that the providers' own forecasts cease.
* `TrackingSources`: a thread that runs goes on, the cooldown and the lock of a dead
  process run out. Nobody has to press the button: that somebody does is a premise of
  `GapIsExplained`, as are that the gap stays, that some carrier can explain it and that a
  provider has one row.
* `Imports`: a request that runs goes on. Nobody has to make one.
* `ReadModels` has safety only.

## 4. Proofs

Proved by TLAPS from the named assumptions on the constants only (sentinels differ,
bounds are natural numbers, reports are of their types):

| Theorem | Statement |
|---|---|
| `ExclusionProofs!TypeCorrect`, `Protected`, `Exclusion` | `TypeOK`, `NeverUnprotected` and `MutualExclusion`, for any set of workers, but for who lost the connection in the body |
| `ExclusionProofs!Refinement` | `Spec` of `ResourceLock` implements `ExclusiveHolder`, evictions included |
| `ExclusionProofs!ImportTypeCorrect`, `ImportedOnce`, `OnlySoundLinesImported` | `ImportTypeOK`, `OnceUnlessReopened`, `OnlySoundLines`, for any lines, requests and faults, and any order of saves from stale copies |
| `ExclusionProofs!ImportsAtomic` | the action property `ImportsAreWhole` |
| `ExclusionProofs!ConfirmationsExclude` | `ImportSpec` implements `ExclusiveHolder` with the running confirmations as holders |
| `ContainerMovementsProofs!TypeCorrect`, `ProjectionHolds`, `EventsInterpretedOnce` | the invariants, for any places, events, workers and instants |
| `ContainerMovementsProofs!LateEvidenceIsHarmless` | the action property `MovesOnlyOnNewEvidence` |
| `ContainerMovementsProofs!Refinement` | `Spec` implements `PositionLedger` |
| `ContainerMovementsProofs!HistorySurvivesEdits` | beside any edit forms the history has a winner, and `OneMovementPerEvent` |
| `ContainerMovementsProofs!EditsDriftOnlyWhenStale` | `DriftsOnlyByStaleForms`, for any editors, workers and events |
| `TrackingProofs!TypeCorrect`, `LockSerialises`, `NeverStranded`, `CompletionUnschedules` | the four invariants of `TrackingSync`, for any subscriptions, workers and requests |
| `TrackingProofs!LockedCyclesAreHolders` | for each subscription, `Spec` of `TrackingSync` implements `ExclusiveHolder` with the cycles under its lock as holders |
| `TrackingProofs!NothingLostInMerging`, `ReadersAnswerAlike` | `EveryReportOnce`, `ReadersAgree`, for any reports, codes, names, locations and window and any number of events |
| `TrackingProofs!ForecastsMoveNothing`, `ObservationEndsTheGap` | the action properties `ForecastsDecideNothing`, `ExplainedGapCloses` |
| `RegistryProofs!TypeCorrect`, `GivenUpInTime` | `TypeOK` and `NeverGivenUpEarly`, for any numbers, passes and budget |
| `RegistryProofs!PlacesAreTyped`, `HierarchyIsOne`, `NamesNarrow` | `PlaceTypeOK`, `WalksAgree`, `NamesOnlyNarrow`, for any finite set of places and any `MaxDepth` |
| `BusinessCentralSyncProofs!Typing`, `WatermarkMissesNothing`, `HashIsTrusted` | `TypeOK`, `NothingMissed`, `HashVouchesForLines`, for any orders, lines, workers, overlap and faults, with changes between any two pages |
| `BusinessCentralSyncProofs!OnlyTheGoneAreDeactivated` | the action property `OnlyGoneDeactivated` |
| `SupplyBookingProofs!Typing`, `BatchesAreWhole`, `OriginIsWrittenOnce` | `TypeOK`, `WholeBatches`, `LoserReadsWinner`, for any lines, containers and requests |
| `SupplyBookingProofs!BookingsAreExact` | the action property `ExactUnlessOvertaken`, for any quantities and batches |
| `ShipmentTrackingProofs!Typing`, `TrackingKeepsHistory` | `TypeOK`, `EtaIsOnRecord`, for any watches, aggregators, people and forecasts |
| `TrackingSourcesProofs!Typing`, `RefreshesMakeOneWatch` | `TypeOK`, `OneWatchFromRefreshes`, for any requests and carriers |

Inductive invariants:

* **ResourceLock**: `TypeOK /\ NeverUnprotected`. Mutual exclusion is not inductive: what
  makes it so is that those in the body own the advisory lock but for the evicted, who do
  not own it again before they leave, and that an owned lock has a live session and a
  positive depth. The cache key appears nowhere in the argument,
  which is the point of the design: it is only an optimisation.
* **ContainerMovements**: that a history has a winner is not proved by induction over
  histories; `HasWinner` is part of the invariant. Appending keeps
  the winner or makes the new movement the winner (`AppendWinner`), since `Beats` is total
  and transitive; there is only one (`WinnerUnique`), so `CHOOSE` picks it
  (`ProjectWinner`). For `OneMovementPerEvent` the guard of `RecordEvent` suffices, and
  `WorksOnStored` gives it an eligible event. The refinement maps the history to the set
  of its claims; a tie on instant and strength is why `PositionLedger` may choose.
* **ContainerEditing**: the invariant of `ContainerMovements` but for `ProjectionIsWinner`,
  which an edit breaks (`HistoryInv`), and what a form holds: one that was loaded since
  the latest movement shows the winner as long as no outdated form has been saved after
  that movement (`LoadedInTime`), so that saving it changes nothing.
* **Imports**: at most one confirmation runs (`OneConfirmation`), and `ImportInProgress`
  says what it has done: each row is either to do, and then untouched, or done, and then
  still stored; and objects are made of a line that was made before only if its row was
  reopened, because a row that is VALID again was (`ImportedRowsStayClosed`). That none is
  made of an unsound line is no matter of statuses: no copy of `validated_data`, stored or
  loaded, has what an importer needs of it (`DataIsHonest`). Nothing of it shows before
  `Commit`, which writes all of it.
* **TrackingSync**: `OwnsItsLock`: from `AcquireLock` to `ReleaseLock` the lock is the
  worker's. Cycles without the lock never touch it. `SyncingMeansRunning` needs no lock:
  each cycle that sets SYNCING takes it back; two overlapping cycles both set ACTIVE or
  FAILED. `CompletedIsUnscheduled` is inductive, as every save that schedules also sets
  another status.
* **PlannedContainers**: every count, in a row or in an instance a pass holds, was reached
  by asking at least that often (`CountsWereAsked`), although passes overwrite each
  other's counts; and a pass expires only what spent the budget (`StepsFitTheBudget`).
* **BusinessCentralSync**: `NothingMissed` says nothing of the run that will move the
  watermark; `SyncSound` does. While a sync lists, an order that is not stored as it is is
  on a page to come, or was found, or was written behind the page (`unseen`). Once the
  list is made, it is still to be read, or read as it is and still to be written, or bears
  a time that the overlap reaches back to (`Covered`), or is `unseen`; what was read and
  is old by now was changed after it was listed, at a time no earlier than any in the list
  (`ReadOld`). Unless an upsert failed, and then the watermark stays. `TimesInOrder` and
  `AtMostOneRun` (the lock) support it. For `OnlyGoneDeactivated`, `ReconcileSound`: an
  order a reconciliation does not find is gone since we stored it, because no sync runs
  beside it.
* **SupplyBooking**: a transaction accounts at each step for every assignment of its batch:
  it is to be looked at yet, or a row for it is there to be seen, or its line is gone
  (`RequestsSound`). Of two transactions that hold the lock of a container one has ended
  (`LocksApart`), so what was read of its origin stays true until it is written. For
  `BookingsAreExact`: what a request that nobody overtook holds of its lines is what is
  stored (`Current`), and the rows it makes are its own, for lines that had a quantity
  (`Filed`). The sums are
  compared as numbers of units: the units of a set of rows form a finite set, whose
  cardinality the library knows how to add (`UnitsAdd`, `SumsAgree`, `TotalGrows`).
* **ShipmentTracking**: a sync decides by an old instance whether a forecast moved. It may
  miss that it did only if its instance has that very forecast already, and an instance
  that still decides has one only because the history does, or is about to, or because
  somebody saved a form or was cut off (`InstancesOnRecord`). What an update saves is the
  forecast it will record (`SavesForecast`).
* **TrackingSources**: who believes to have the sweep lock has it (`LockHeld`), a refresh
  that goes on to create a watch has it and has a provider (`CreatingUnderLock`,
  `RoutedSomewhere`), and so between its looking for the row and its creating one no other
  refresh has made it (`NoneMadeYet`).

* **Locations**: nothing but the type of `parent` is needed. `Over(x, n)` is the place n
  levels above x, and each walk of the code is shown to collect the `Over(p, m)` of the
  levels it reaches: upwards (`Climbs`), level by level downwards (`Descends`) and set by
  set (`Contains`). In a forest (`Forest`) the path from a place ends at a topmost one, and
  two outermost places contain each other only if they are one (`Topmost`).
* **ReadModels**: that the events are reports is all a state has to be. The rest is about
  any sequence of reports. The order of the journey exists and lists each event once
  (`InOrderIs`). The merge is a fold over it and is followed event by event: `Merged` says
  that each event so far is at one position of one point, points and members in order,
  and that it joined the last point that was open to it, or is one and none was. A later
  event neither opens nor closes a point to an earlier one (`OpenStays`), which is why the
  invariant of the loop describes its end. So each event is shown by a point that says the
  same of the same place, at most the window earlier (`Represented`): the journey, which
  merges, and the other readers, which do not, differ by at most the window. Seen from the
  end, an event follows the newest of the points its earlier kin leave open (`LeadIs`), so
  what is observed hangs on observations only, and forecasts change nothing (`LeadsStay`,
  `SeenStays`). The comparison of places is assumed neither transitive nor to be of names
  that are alike; all a point promises is that each of its reports is of the place of the
  first. That the journey and the last position are of one place is therefore claimed
  only where no other place was observed within the window.

The induction theorems of the library take an operator, which these provers cannot
instantiate. Induction is done on sets instead: a set of naturals with 0 that is closed
under successor holds all of them (`RegistryProofs!Induction`, from the least element of
a nonempty set), and a function that is defined by recursion exists because the finite
approximations of it do (`Recursion`).

A fold of the library is unfolded to the recursive function it is, which exists, over
sequences of a given type, because its approximations on prefixes do (`FoldExists`).

Only model-checked: all liveness properties, which are out of reach of the prover, as is
`ENABLED`. Every safety property of a run is proved.

## 5. Where the words and the code part

Met while modelling. The models follow the code in each case, and their properties state
what holds of it.

*The lock.* The advisory lock "has no TTL, so a long run can never lose it"
(`integrations/locks.py:9`), but it goes with the connection, and Django replaces a
connection that a failed rollback closed: a body that catches what one item raises
(`ingestion.py:408-419`, `procurement/services.py:189-217`) then goes on writing in a
session without the lock, beside whoever enters once the cache key is gone. `ResourceLock`
has this (`Reconnect`), and says that nobody gets inside unprotected in any other way
(`locks.py:14`). `TrackingSync`, `TrackingSources` and `BusinessCentralSync`
assume that no connection is dropped inside a body that then goes on; without that,
`OneLockedRun`, `OneWatchFromRefreshes` and `OnlyGoneDeactivated` hold of the workers that
kept theirs only.

*Containers and movements.* `update_container` (`containers/services.py:59`) saves every
column of an instance it loaded before, so a movement recorded in between is undone on the
row until the next movement (`DriftsOnlyByStaleForms`: in no other way); `movements.py:5`
calls the projection "the one invariant". The same function records an adjustment with the
source the container had (`services.py:68`): over a carrier's position it becomes
TRACKING_EVENT, with no event behind it. A carrier's correction of an event that already
has a movement changes the stored event only (`physical_movements.py:134`,
`ingestion.py:260-263`). A movement whose interpretation failed "is recreated the next
time the event is refreshed" (`physical_movements.py:166`), but there is no next time when
that was the last cycle of its watch, which is then completed, paused or cancelled:
`EligibleEventsGetMovements` supposes that the event keeps arriving.

*Sync.* A cycle under way ends by writing ACTIVE or FAILED over a pause or a cancellation
(`tracking/services.py:331`), and a queued task syncs a row that was paused or cancelled
since (`tasks.py:75`): a person's decision may be lost, and no property says otherwise.
`refresh_container_tracking` syncs paused watches and leaves them ACTIVE
(`manual_refresh.py:339`); `source_switch.py:24-28` says a superseded watch is not
fetched. `consecutive_failures` is counted from an instance loaded before the lock was
taken, so a failure may be lost and a reset undone. Activation (`manual_refresh.py:737`)
runs a cycle without the lock, against `selectors.py:409`. Two dispatch ticks queue one
subscription twice, and the second task syncs what the first just rescheduled
(`tasks.py:66`, `tasks.py:8-9`). The dispatch cap takes the newest first (`tasks.py:43`);
the cap of the backoff shortens an interval that is longer than the cap (`polling.py:105`).

*Sources.* The sweep's lock is tried after the watches are read, and nothing rereads them.
A switch pauses the other watches whether or not the chosen one answered
(`source_switch.py:56-58`, `:91`). A route without a payload creates the watch before any
answer, against "fetch before write" of `activation.py`. Discovery revives a CANCELLED or
PAUSED watch. A wrong unverified lookup of the aggregator ends the search before the
probe. Two rows of a provider make `get_or_create` raise for ever, which is why
`GapIsExplained` supposes there are none.

*Planned containers.* A pass saves the status of an instance it loaded minutes before
(`discovery.py:180`, `:233`), so a cancelled number becomes DETECTED or EXPIRED;
`discovery.py:223` calls CANCELLED terminal. Overlapping passes ask carriers more often
than the budget says.

*Read models.* The journey's last observation may be older than the last position by up to
the window, when a later report corroborated an earlier one, and so at another place if
one was reported in between (against `positions.py:140-144`). Places are compared by code
when both reports have one and else by name (`journey.py:604-615`), so that one with a
name only heads a point with two whose codes differ, and the journey shows one place for
them. A forecast that names a place without its code may come to head the point of one
with a code; the gap reads heads only (`gaps.py:276`), so storing that forecast may raise
the gap's confidence from medium to high. The map leaves out a container whose canonical
location has no coordinates although its last position has some
(`map_positions.py:277-285`, as its docstring says at 40-45), while the workspace shows
that position. The single workspace's latest events may be undated ones, which PostgreSQL
sorts first in descending order; the bulk builder leaves them out. `has_journey_arrived`
counts undated arrivals, the forecast does not. Any actual arrival, also an earlier one,
answers a forecast. A gap may have an origin that names no place. A REQUESTED event with
coordinates is drawn. The canonical observation the map prefers may be older than the
position the panel names.

*Shipments.* "So the history and the cached value cannot drift apart"
(`shipments/services.py:181`) does not hold: the save of the ETA, the event and the
history row are separate commits (205, 217, 225), and a run that dies between them leaves
an ETA without its row, which later runs take for unmoved when the history has none yet; a
provider's own forecast is the latest of the history while the row keeps another
(`eta_observations.py:265`), and displaces it after all when the instance the run loaded
had no ETA yet (`:247`), although "displacing another provider's forecast is precedence,
which is decided elsewhere"; and an older update may add its row after a newer one.
`EtaIsOnRecord` says what is left. CANCELLED, "sticky" (`shipments/services.py:274`), is
lost to a run that loaded the row earlier; a DELIVERED set by hand is reverted by the next
run. `update_shipment` writes the ETA without history, though `services.py:181` calls the
other writer the only one, and it never reports the change, because `form.is_valid()`
already wrote the ETA into the instance (`views.py:122-124`, `services.py:48`). A stale
instance may overwrite `original_eta` (`services.py:196`).

*Supply.* Two deliveries may together exceed the order, as the sum is read without a lock
(`supplier_deliveries/services.py:54`); `ExactUnlessOvertaken` says exactly when.

*Business Central.* The list is read page after page, with timeouts, retries and waits in
between. An order written behind the page being read is left behind the watermark for
good, until it changes again, if another order on a later page carries a time later by the
overlap or more (`client.py:258-277`, `sync.py:145-149`), although the watermark is to
advance "only when the run completes fully" (`sync.py:11`); `NothingMissed` and
`ChangesArrive` name these orders (`missed`). A listing shorter than the five minutes of
the overlap has none. A reconciled line whose order's hash is unchanged stays inactive
when it comes back, though `reconcile.py:12-13` says the upsert reactivates it.

*Imports.* Two validations that both loaded the job at PARSED may reopen a line that was
imported in between, and it is imported again; "safe to retry: validation is read-only"
(`imports/tasks.py`) does not hold of the row's status. Rows of movements and orders that
the schema rejects become VALID at validation and end SKIPPED. A slow parse of a second
tab that judges the rows after they were validated resets `validated_data`
(`imports/services.py:121-133`): rows of containers are VALID without the parts of their
number, and the import passes over them in silence; a row of an order that was validated
from a copy loaded before the schema's verdict loses its data the same way. A job that
failed or died while PARSING has no way forward.

*Places.* Two edits at once can make a cycle (`location_hierarchy.py:91`), which
`location_views.py:219` calls impossible; the walks are safe on it (`WalksAgree`), but
places of a cycle that share a code resolve to AMBIGUOUS without candidates. Only the
chain above the new parent is measured (`location_hierarchy.py:131-140`), so moving a
subtree under a deep parent makes structures beyond `MAX_DEPTH`, which the docstring says
are "reached only by data no rule here produced" (`:110`), and `descendant_ids` of the
topmost place then misses the deepest ones. `NamesOnlyNarrow` holds nevertheless, as the
resolver's answer for a place deeper down is still inside the one further up, in more than
one leg. No caller of the resolver fills in an external code, a city or a country, so
those rules never decide. Two workers may store the status of one answer with the place of
another, until the next refresh (`EvidenceCatchesUp`). Learning an alias is to rewrite no
evidence, stored events "keep saying exactly what ... the resolver concluded at the time"
(`location_views.py:336-338`); the next delivery of the same event resolves it again and
saves the new answer over the old (`ingestion.py:356-382`), and only events of watches
that are no longer polled keep theirs.

## 6. Not modelled

* **Arrivals and the control tower** (`visibility/arrival_lifecycle.py` and siblings): the
  page derives a stage from rows that other modules have. Two things were noticed: no
  movement carries `related_shipment`, so an unlinked gate-in can satisfy two shipments
  (`arrival_lifecycle.py:45-48`), and an edit of ETA or departure can take a shipment back
  from RECEIVED, which the file calls permanent.
* **The rest of the map and the timelines**: the destination overlay, the coverage, and
  labels, colours and delays of events shape what `ReadModels` decides; a container on two
  active shipments is drawn twice.
* **Location quality queues, seeds and name normalisation**: one query each, or strings,
  which TLC would enumerate character by character.
* **Polling arithmetic and the dispatch cap**: integer arithmetic with jitter, of which no
  other part needs more than that the next poll lies in the future; the cap needs many
  subscriptions and no workers, and is noted above.
* **A batch of which one event fails** (`ingestion.py:408`): each event is its own
  transaction, so `ContainerMovements` treats the events one by one. What that means for a
  worker that lost its lock with its connection is in `ResourceLock` and section 5.
* **A dropped connection in the modules that use the lock**: see section 5, "The lock".
* **Pages of Business Central whose order changes while they are read**: nothing in the
  code asks for an order, so that the pages follow the key of the document is an
  assumption about the service.
* **`original_eta`, the forecasts of each source apart** (`eta_observations.py:186-197`):
  any forecast may be news from a provider.
* **Housekeeping passes**: a query, or a loop of the refreshes that are modelled.
* **Carrier and aggregator clients**: HTTP and mapping; their outcomes are the
  nondeterministic results of the fetches.
* **Analytics, audit log, rates, team settings; accounts, teams and the web scaffold; the
  front end**: reports, append-only logs, forms, and code the supply chain only uses.

The map covers about a seventh of the implementation's lines: what is left out is mostly
the above, forms, templates' view functions and configuration, which change no state that
a property relates.
