------------------------------ MODULE Catalog ------------------------------
(***************************************************************************)
(* The dataset catalog: the coordinators and datasets tables of            *)
(* CatalogStore, the CoordinatorSvc handlers that write them, and the      *)
(* coordinator processes that register at start-up and then only send      *)
(* heartbeats.                                                             *)
(*                                                                         *)
(* upsert_dataset is two statements, the SELECT of the coordinator's       *)
(* endpoint and the upsert that stores a copy of it.  A call between the   *)
(* two is a member of inflight.  Calls outlive a coordinator that crashes  *)
(* while it waits, until they end or tonic drops the handler.              *)
(***************************************************************************)
EXTENDS Naturals, Sequences, FiniteSets

CONSTANTS
  Coords,     \* coordinator ids, one process each
  Datasets,   \* qualified names: datasets is UNIQUE(namespace, name)
  Endpoints,  \* executor endpoints a configuration may name
  Configs,    \* [endpoint, datasets]; a new one may be in place at each start
  MaxRuns,    \* bound: how often each coordinator process starts
  Resets,     \* whether central may lose its database file
  None

NoEndpoint == ""       \* unwrap_or_default() of a coordinator not found

Ids == Coords \X Nat \X Datasets

CoordRows   == [endpoint : Endpoints, is_alive : BOOLEAN, fresh : BOOLEAN]
DatasetRows == [id : Ids, coord : Coords, endpoint : Endpoints \cup {NoEndpoint},
                is_active : BOOLEAN]

ASSUME CatalogAssumption ==
  /\ None \notin CoordRows /\ None \notin DatasetRows /\ NoEndpoint \notin Endpoints
  /\ Configs \subseteq [endpoint : Endpoints, datasets : Seq(Datasets)]
  /\ MaxRuns \in [Coords -> Nat] /\ Resets \in BOOLEAN

VARIABLES
  coords,      \* coordinators: [endpoint, is_alive, fresh], or None
  rows,        \* datasets: [id, coord, endpoint, is_active], or None
  inflight,    \* register_dataset calls between SELECT and upsert
  late,        \* register calls whose process has crashed
  pc,          \* where each coordinator process is
  cfg,         \* the configuration it runs with
  run,         \* how often it has started
  todo,        \* the datasets it still has to register
  hb,          \* its heartbeat stream
  failing,     \* the database refuses statements for now: locked, disk full
  registered,  \* history: the endpoints each coordinator has registered
  lost         \* history: central has lost its database

tables == <<coords, rows, failing, registered, lost>>
procs  == <<pc, cfg, run, todo, hb>>
calls  == <<inflight, late>>
vars   == <<coords, rows, inflight, late, pc, cfg, run, todo, hb, failing, registered, lost>>

\* The Uuid::new_v4 of to_registration, drawn once per start and dataset.
DatasetId(c, d) == <<c, run[c], d>>

CallOf(c) == [coord |-> c, id |-> DatasetId(c, Head(todo[c])), ds |-> Head(todo[c])]
Calls(c)  == {r \in inflight : pc[c] = "wait" /\ r.call = CallOf(c)}

\* get_dataset and list_datasets: the JOIN and its WHERE clause.
Listed(d) ==
  /\ rows[d] # None /\ rows[d].is_active
  /\ coords[rows[d].coord] # None /\ coords[rows[d].coord].is_alive

-----------------------------------------------------------------------------
Init ==
  /\ coords = [c \in Coords |-> None]
  /\ rows = [d \in Datasets |-> None]
  /\ inflight = {} /\ late = {}
  /\ pc = [c \in Coords |-> "down"]
  /\ cfg \in [Coords -> Configs]
  /\ run = [c \in Coords |-> 0]
  /\ todo = [c \in Coords |-> << >>]
  /\ hb = [c \in Coords |-> "closed"]
  /\ failing = FALSE /\ registered = [c \in Coords |-> {}] /\ lost = FALSE

\* main() up to registration: the configuration is read, data is uploaded
\* (failed uploads are only logged) and central is connected.
Start(c) ==
  /\ pc[c] = "down" /\ run[c] < MaxRuns[c]
  /\ \E f \in Configs : cfg' = [cfg EXCEPT ![c] = f]
  /\ run' = [run EXCEPT ![c] = @ + 1]
  /\ pc' = [pc EXCEPT ![c] = "register"]
  /\ UNCHANGED <<tables, calls, todo, hb>>

\* The row upsert_coordinator inserts, or overwrites the old one with.
CoordinatorRow(f) == [endpoint |-> f.endpoint, is_alive |-> TRUE, fresh |-> TRUE]

\* A statement the database refuses ends the caller with an error: see Crash
\* and UpsertFails.
Register(c) ==
  /\ pc[c] = "register" /\ ~failing
  /\ coords' = [coords EXCEPT ![c] = CoordinatorRow(cfg[c])]
  /\ registered' = [registered EXCEPT ![c] = @ \cup {cfg[c].endpoint}]
  /\ todo' = [todo EXCEPT ![c] = cfg[c].datasets]
  /\ pc' = [pc EXCEPT ![c] = "datasets"]
  /\ UNCHANGED <<rows, failing, lost, calls, cfg, run, hb>>

\* The Register of a crashed process reaches the table.
RegisterLands(l) ==
  /\ l \in late /\ ~failing
  /\ coords' = [coords EXCEPT ![l.coord] = CoordinatorRow(l)]
  /\ registered' = [registered EXCEPT ![l.coord] = @ \cup {l.endpoint}]
  /\ late' = late \ {l}
  /\ UNCHANGED <<rows, failing, lost, inflight, procs>>

\* A mutant: fetch_optional without unwrap_or_default.
LookupEndpointNull(c) ==
  /\ pc[c] = "datasets" /\ todo[c] # << >> /\ ~failing
  /\ inflight' = inflight \cup
       {[call |-> CallOf(c),
         endpoint |-> IF coords[c] = None THEN None ELSE coords[c].endpoint]}
  /\ pc' = [pc EXCEPT ![c] = "wait"]
  /\ UNCHANGED <<tables, late, cfg, run, todo, hb>>

\* RegisterDataset / upsert_dataset, first statement.
LookupEndpoint(c) ==
  /\ pc[c] = "datasets" /\ todo[c] # << >> /\ ~failing
  /\ inflight' = inflight \cup
       {[call |-> CallOf(c),
         endpoint |-> IF coords[c] = None THEN NoEndpoint ELSE coords[c].endpoint]}
  /\ pc' = [pc EXCEPT ![c] = "wait"]
  /\ UNCHANGED <<tables, late, cfg, run, todo, hb>>

\* A mutant: the upsert that leaves coordinator_id as it was.
UpsertKeepsOwner(r) ==
  LET d == r.call.ds IN
  [rows EXCEPT ![d] =
     [id |-> IF @ = None THEN r.call.id ELSE @.id,
      coord |-> IF @ = None THEN r.call.coord ELSE @.coord,
      endpoint |-> r.endpoint, is_active |-> TRUE]]

\* INSERT ... ON CONFLICT(namespace, name) DO UPDATE: the id stays.
Upsert(r) ==
  LET d == r.call.ds IN
  [rows EXCEPT ![d] =
     [id |-> IF @ = None THEN r.call.id ELSE @.id,
      coord |-> r.call.coord, endpoint |-> r.endpoint, is_active |-> TRUE]]

\* The coordinator waiting for the call, if any, goes on.
Accepted(r) ==
  LET c == r.call.coord IN
  IF r \in Calls(c)
  THEN pc' = [pc EXCEPT ![c] = "datasets"] /\ todo' = [todo EXCEPT ![c] = Tail(@)]
  ELSE UNCHANGED <<pc, todo>>

\* register() returns the error and main() ends.
Refused(r) ==
  LET c == r.call.coord IN
  IF r \in Calls(c)
  THEN pc' = [pc EXCEPT ![c] = "down"] /\ todo' = [todo EXCEPT ![c] = << >>]
  ELSE UNCHANGED <<pc, todo>>

\* RegisterDataset, second statement; datasets.coordinator_id is a foreign key.
UpsertDataset(r) ==
  /\ r \in inflight
  /\ ~failing /\ coords[r.call.coord] # None
  /\ rows' = Upsert(r)
  /\ inflight' = inflight \ {r}
  /\ Accepted(r)
  /\ UNCHANGED <<coords, failing, registered, lost, late, cfg, run, hb>>

\* A mutant: the coordinator logs the error and goes on with the next dataset.
UpsertFailsSkipped(r) ==
  /\ r \in inflight
  /\ inflight' = inflight \ {r}
  /\ Accepted(r)
  /\ UNCHANGED <<tables, late, cfg, run, hb>>

\* The upsert fails, on the foreign key or otherwise, or is cancelled.
UpsertFails(r) ==
  /\ r \in inflight
  /\ inflight' = inflight \ {r}
  /\ Refused(r)
  /\ UNCHANGED <<tables, late, cfg, run, hb>>

\* "registration complete": the heartbeat task starts.
FinishRegistration(c) ==
  /\ pc[c] = "datasets" /\ todo[c] = << >>
  /\ pc' = [pc EXCEPT ![c] = "running"]
  /\ hb' = [hb EXCEPT ![c] = "open"]
  /\ UNCHANGED <<tables, calls, cfg, run, todo>>

\* UPDATE coordinators ... WHERE id = ?, which no row is no error for.
Refreshed(row) ==
  IF row = None THEN None ELSE [row EXCEPT !.is_alive = TRUE, !.fresh = TRUE]

\* One heartbeat on an open stream, answered alive: true.  An error of the
\* store is only logged, and the answer is the same.
Heartbeat(c) ==
  /\ pc[c] = "running" /\ hb[c] = "open"
  /\ coords' = IF failing THEN coords ELSE [coords EXCEPT ![c] = Refreshed(@)]
  /\ UNCHANGED <<rows, failing, registered, lost, calls, procs>>

\* A mutant: the loop ends with the stream.
ReconnectNever(c) ==
  /\ FALSE
  /\ UNCHANGED vars

\* heartbeat::run: after an error and 30 seconds, or at once, a new stream.
Reconnect(c) ==
  /\ pc[c] = "running" /\ hb[c] = "broken"
  /\ hb' = [hb EXCEPT ![c] = "open"]
  /\ UNCHANGED <<tables, calls, pc, cfg, run, todo>>

\* Time passes and the last heartbeat is no longer recent.
GoStale(c) ==
  /\ coords[c] # None /\ coords[c].fresh
  /\ coords' = [coords EXCEPT ![c].fresh = FALSE]
  /\ UNCHANGED <<rows, failing, registered, lost, calls, procs>>

\* The coordinator process ends, in any state; its Register may be under way.
Crash(c) ==
  /\ pc[c] # "down"
  /\ pc' = [pc EXCEPT ![c] = "down"]
  /\ todo' = [todo EXCEPT ![c] = << >>]
  /\ hb' = [hb EXCEPT ![c] = "closed"]
  /\ \/ late' = late
     \/ pc[c] = "register" /\ late' = late \cup {[coord |-> c, endpoint |-> cfg[c].endpoint]}
  /\ UNCHANGED <<tables, inflight, cfg, run>>

\* UnregisterDataset / deactivate_dataset with an id read from the catalog.
Unregister(d) ==
  /\ ~failing /\ rows[d] # None /\ rows[d].is_active
  /\ rows' = [rows EXCEPT ![d].is_active = FALSE]
  /\ UNCHANGED <<coords, failing, registered, lost, calls, procs>>

\* The database starts to refuse statements, or takes them again.
StoreChanges ==
  /\ failing' = ~failing
  /\ UNCHANGED <<coords, rows, registered, lost, calls, procs>>

\* elan-central stops: waiting calls fail, heartbeat streams break.
Disconnected ==
  /\ inflight' = {} /\ late' = {}
  /\ pc'   = [c \in Coords |-> IF pc[c] = "wait" THEN "down" ELSE pc[c]]
  /\ todo' = [c \in Coords |-> IF pc[c] = "wait" THEN << >> ELSE todo[c]]
  /\ hb'   = [c \in Coords |-> IF hb[c] = "open" THEN "broken" ELSE hb[c]]
  /\ UNCHANGED <<cfg, run>>

CentralRestart == Disconnected /\ UNCHANGED tables

\* It starts on an empty database: db::connect creates the file if missing.
CentralReset ==
  /\ Resets
  /\ coords' = [c \in Coords |-> None] /\ rows' = [d \in Datasets |-> None]
  /\ lost' = TRUE
  /\ Disconnected
  /\ UNCHANGED <<failing, registered>>

Coordinator(c) ==
  \/ Start(c) \/ Register(c) \/ LookupEndpoint(c) \/ FinishRegistration(c)
  \/ Heartbeat(c) \/ Reconnect(c) \/ GoStale(c) \/ Crash(c)

Next ==
  \/ \E c \in Coords : Coordinator(c)
  \/ \E r \in inflight : UpsertDataset(r) \/ UpsertFails(r)
  \/ \E l \in late : RegisterLands(l)
  \/ \E d \in Datasets : Unregister(d)
  \/ StoreChanges \/ CentralRestart \/ CentralReset

(***************************************************************************)
(* A process that runs goes on with what it does: registration, heartbeats *)
(* every 15 seconds and the reconnect after 30.  Central answers calls.    *)
(* Nothing says that a process restarts.                                   *)
(***************************************************************************)
Fairness ==
  \A c \in Coords :
    /\ WF_vars(Register(c)) /\ WF_vars(LookupEndpoint(c)) /\ WF_vars(FinishRegistration(c))
    /\ WF_vars(Heartbeat(c)) /\ WF_vars(Reconnect(c))
    /\ WF_vars(\E r \in Calls(c) : UpsertDataset(r) \/ UpsertFails(r))

Spec == Init /\ [][Next]_vars /\ Fairness

-----------------------------------------------------------------------------
CallRecords == [call : [coord : Coords, id : Ids, ds : Datasets],
                endpoint : Endpoints \cup {NoEndpoint}]

\* The variables hold values of the SQL and Rust types they model.
TypeOK ==
  /\ coords \in [Coords -> CoordRows \cup {None}]
  /\ rows \in [Datasets -> DatasetRows \cup {None}]
  /\ inflight \subseteq CallRecords /\ late \subseteq [coord : Coords, endpoint : Endpoints]
  /\ pc \in [Coords -> {"down", "register", "datasets", "wait", "running"}]
  /\ cfg \in [Coords -> Configs] /\ run \in [Coords -> Nat]
  /\ todo \in [Coords -> Seq(Datasets)]
  /\ hb \in [Coords -> {"closed", "open", "broken"}]
  /\ failing \in BOOLEAN
  /\ registered \in [Coords -> SUBSET Endpoints] /\ lost \in BOOLEAN

(***************************************************************************)
(* For as long as central has its database, every stored dataset can be    *)
(* routed: its coordinator is registered, and its endpoint is one that     *)
(* very coordinator has registered at some time, though maybe not last     *)
(* (EndpointInSync), never the empty default of a failed lookup and never  *)
(* another coordinator's, although two coordinators may claim one name and *)
(* calls of a crashed process land late.                                   *)
(***************************************************************************)
EndpointFromOwner ==
  ~lost => \A d \in Datasets : rows[d] # None =>
    coords[rows[d].coord] # None /\ rows[d].endpoint \in registered[rows[d].coord]

(***************************************************************************)
(* registration.rs stops at the first error, so a coordinator that runs    *)
(* (and sends heartbeats) has a record and every dataset of its            *)
(* configuration in the tables, with an endpoint of its own unless another *)
(* coordinator has taken the name, for as long as central has its          *)
(* database.                                                               *)
(***************************************************************************)
RunningMeansRegistered ==
  ~lost => \A c \in Coords : pc[c] = "running" =>
    /\ coords[c] # None
    /\ \A i \in DOMAIN cfg[c].datasets : LET row == rows[cfg[c].datasets[i]] IN
         row # None /\ (row.coord = c => row.endpoint \in registered[c])

Current(c) == coords[c] = None \/ coords[c].fresh

(***************************************************************************)
(* heartbeat.rs (3-6): the loop retries, and a heartbeat the store refused *)
(* is followed by another, so the restarts of central and the failures of  *)
(* its database, once they end, leave no running coordinator's record      *)
(* without heartbeats.                                                     *)
(***************************************************************************)
HeartbeatResumes ==
  <>[][~CentralRestart /\ ~CentralReset]_vars /\ <>[]~failing =>
    \A c \in Coords : pc[c] = "running" /\ ~Current(c) ~> pc[c] # "running" \/ Current(c)

(***************************************************************************)
(* catalog_store.rs (69-71): the endpoint of a dataset "stays in sync with *)
(* the coordinator's registered endpoint", at least once the coordinator   *)
(* has finished registering and no call is in flight.                      *)
(***************************************************************************)
EndpointInSync ==
  inflight = {} /\ late = {} =>
    \A d \in Datasets : Listed(d) /\ pc[rows[d].coord] = "running" =>
      rows[d].endpoint = coords[rows[d].coord].endpoint

(***************************************************************************)
(* coordinator main.rs (9): the heartbeat loop runs "to keep its record    *)
(* alive in elan-central".  A coordinator that runs, its heartbeats all    *)
(* answered alive: true, does not stay without a record, if the database   *)
(* takes statements.                                                       *)
(***************************************************************************)
HeartbeatKeepsRecord ==
  <>[]~failing => \A c \in Coords :
    pc[c] = "running" /\ coords[c] = None ~> pc[c] # "running" \/ coords[c] # None
=============================================================================
