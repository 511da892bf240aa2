# A TLA+ model of elan

elan is a federated query system: coordinators register datasets with a central
catalog, a query gateway plans SQL over that catalog and sends scans to
executors, and every query leaves audit events. This directory holds TLA+
modules translated from the Rust source, TLC configurations that check them on
small instances, and proofs for every instance that TLAPS checks.

Line references are to the paths under `src/crates/` unless they say otherwise;
`PROJECT.json` maps every definition to its lines.

## 1. The system

| Part | State | Operations | Talks to |
|---|---|---|---|
| policy evaluation (`elan-iam`) | a `Vec<Policy>` behind an `RwLock` | `check`, `is_visible`, `reload` | in-process in elan-central and elan-query |
| IAM service (`elan-central/grpc/iam_svc.rs`, `db/iam_store.rs`) | tables `iam_subjects`, `iam_group_members`, `iam_policies`; the engine's snapshot | create/delete policy, create subject, add member, check, list | SQLite, the engine |
| audit service (`grpc/audit_svc.rs`, `db/iam_store.rs`) | table `audit_events`; a broadcast channel of 256; per subscriber an mpsc channel of 64 | `publish_event`, `stream_audit_events` | publishers (elan-query), subscribers (TUI) |
| catalog (`grpc/coordinator_svc.rs`, `grpc/catalog_svc.rs`, `db/catalog_store.rs`) | tables `coordinators`, `datasets` | register, heartbeat stream, register/unregister dataset, list/get | coordinators, elan-query |
| coordinator (`elan-coordinator`) | its configuration, its own id, the heartbeat stream | upload, register, register datasets, heartbeat loop | elan-central |
| query gateway (`elan-query`) | cached catalog, policies loaded at start, the audit sink, one catalog client behind a `Mutex` | start, refresh every 30 s, `POST /api/v1/query` | elan-central, executors |
| executor (`elan-executor`) | the datasets opened at start, two listening ports derived from one `bind_port` | start, `POST /sql` | object store, ports of its host |
| terminal UI (`elan-tui`) | the `App` value, an event channel | key presses, query results, audit events | elan-query, elan-central |

### What is hard to test

* gRPC handlers are async functions on one SQLite pool without transactions:
  each statement is a step of its own, and a request may fail or be dropped at
  every `await` between two of them.
* State lives twice: the policy table and the engine, the catalog table and the
  gateway's cache, a coordinator's endpoint and the copy in each dataset row.
* The audit stream joins a query with a subscription, over two bounded channels.
* Processes restart independently; central may come back with its database or
  without it; calls of a crashed process may still arrive.
* A single async `Mutex` is held across network calls.
* An executor's SQL service binds in a task of its own, whose panic the process
  survives, and both sides compute its port on a `u16`.
* A filter is turned into SQL text only as far as a small converter can, and a
  string in it is written without quotes.
* No client sets a timeout: any call over the network may never return.

`PROJECT.json` lists these hazards, each at its line, with the properties that
would catch it going wrong.

### What makes each part correct

* *Policy evaluation*: Deny wins over any Allow; without a matching Allow there
  is no access; the row filter in force is that of the strongest Allow.
* *IAM service*: decisions are made by a state the policy table has had; a write
  that reloads is in force afterwards; subjects keep their type; between
  requests engine and table agree.
* *Audit*: nobody sees an event that the log does not have; a stream has no
  holes or repeats of its own making; what is broadcast arrives.
* *Catalog and coordinators*: as long as central keeps its database, what is
  stored can be routed to its owner and a running coordinator is registered;
  heartbeats survive restarts of central and failures of its database.
* *Terminal UI*: no event is lost on the way to the loop, and the screen does not
  claim to load when nothing is loading.
* *Query gateway*: to a SELECT hidden tables look like missing ones; the cache
  is one whole catalog, and the engine has one whole list of policies; the cache
  follows central; a query whose calls return ends, with its audit events in order.
* *Executor and remote scan*: whoever answers a request to an endpoint was
  configured with that port and has all its datasets; what is pushed down loses no
  row that the query wants.

## 2. The modules

Each component module holds the state, one action per step of the code, the
specification and the properties. Operators named after an action with a suffix
that says what is wrong with it (`ReloadExtend`, `UpsertKeepsOwner`, ...) stand
right before that action: they are the mutated forms that the properties must
be able to tell from the real one, and no specification uses them.

**IamPolicy** is `elan-iam/src/engine.rs` as operators. A resource or pattern
is a sequence of segments, so that the match on strings (`strip_suffix(".*")`,
equality with `namespace.name`) is a comparison of sequences; a namespace or a
name may itself hold dots. `Check` filters the list, sorts it stably with Deny
first and then by falling priority, and lets the first policy decide. Only the
first element of the sorted vector is ever read, so `IsFirst` defines it by the
order the sort uses (effect, priority, then position) instead of sorting. Actions compare without case. `column_mask_json` is carried by the
code and read nowhere; it is left out.

**PolicyLists** is every list that `reload` may be given, of any policies in any
order, built by inserting one policy at a time, with the reference by whole
patterns and sets that `Check` is compared with. The reference follows
`engine.rs:7-8` and `:57` (a Deny beats every Allow), with which the comment at
`engine.rs:47` disagrees (section 3). Its assumption is the form of the
data: a pattern and a name have a segment at least, a priority is an i32.

**IamService** models `iam_svc.rs` on `iam_store.rs`. `pc[h]` is the statement
handler `h` is about to run; `Begin`, `GetSubject`, `CreateSubject`,
`InsertPolicy`, `DeletePolicy`, `InsertMember`, `ListForReload` and `Reload`
are the stretches between awaits. `Fail` is an SQL error or a dropped request
at any of them, `Restart` rebuilds the engine from the table as `main.rs` does.
The seed policy of migration 0005 is in `Init`. `versions` is a history
variable: every content the policy table has had. The i32 on the wire, the
empty row filter and the subject type string are converted as the handler
converts them (`StoredRule`, the `CHECK` constraint on the type).

**AuditService** models `audit_svc.rs`. A publisher stamps, stores and then
broadcasts. A subscriber's handler reads the recent events, sends them into its
channel and only then subscribes and hands the receiver to tonic, so `Drain`
(the client reads) is possible in phase `live` only. The forwarding task
receives from the broadcast (`Recv`, `Lag`), holds one event while the channel
is full (`Forward`), and ends when the client is gone, which ends the client's
stream. A client may ask for no replay or for one from any time (`Open`). `order`
is the order of timestamps, which need not be that of the inserts.

**Catalog** models the two tables, `coordinator_svc.rs`, and the coordinator
process with its registration and heartbeat loops. `upsert_dataset` is two
statements, `LookupEndpoint` and `UpsertDataset`, with everything else allowed
in between; calls of a crashed coordinator stay in `inflight` or `late` and may
still land. `GoStale` is the passing of time since a heartbeat. While the database
is `failing` (`StoreChanges`) it refuses statements: the handlers return the error,
but a heartbeat is answered `alive: true` all the same. `CentralReset` is a restart
without the database file. A dataset id is
<<coordinator, process run, dataset>>, which is what a fresh UUID tells apart.

**QueryService** models `session.rs`, `provider.rs`, `query.rs` and `main.rs` of
elan-query and `optimizer.rs` of elan-iam. Central is seen through the calls: what
it lists, its policies, whether it answers. At start the policies arrive one by
one (`ListPolicies`, `RecvPolicy`), are converted to the wire and back
(`ToProto`, `FromProto`) and come into force when the stream ends; when it breaks
off, the engine denies everything (`PoliciesFail`). A session copies the cache when
it is built; `ResolveNone`, `ResolveCached` and `ResolveMiss` with `Fetch` are
`table()` of the schema provider (visibility check, cached row, fetch under the
`Mutex`), and every name of a statement is resolved before a missing one fails it
(`PlanFails`). The fetched row is added to that session only, so a plan may mix the
catalog it began with and a later one. `CreateTable` is CREATE EXTERNAL TABLE, which
DataFusion answers by `table_exist()`, from the session's map without the visibility
check. `ListCatalog` is `handle_catalog` with `table_names()`; `PhysicalPlan` is the
optimizer rule; `Scan` and `ScanFails` are a request to the row's executor.
`RefreshLock` to `RefreshFails` are the background task, which receives the listing
row by row and installs it only when complete. `OtherLocks`, `OtherReturns` and
`OtherLeaves` are all the queries that are not followed step by step, as far as they
matter to those that are: they lock the catalog client, one after another, without
end. Any call may never return (`ClientHangs` for the holder of the client,
`PublishHangs`, `ScanHangs`), a query may be dropped at each await (`Abandon`), and
the process may crash.

**Executor** models `elan-executor/src/main.rs` and `context.rs`: the processes of
one host. `MountTable` and `MountFails` are the loop of `build_providers`, which
opens every dataset or returns an error. `SpawnSql` computes `bind_port + 1` and
spawns the task that binds it (`BindSql`, or the panic `BindSqlFails`) while
`main` goes on to the scheduler's own port. `NextPort` is the sum on a `u16`;
`Checked` says whether the build panics on overflow. A bind needs a free port, and
port 0, which may be configured and to which 65535 + 1 wraps, stands for any.

**Pushdown** is `build_sql` and `expr_to_sql` as operators on expressions, with
an evaluation of SQL's three-valued logic to compare with: `ExprToSql` converts
an expression whole or not at all. A string is written without quotes, so the
executor reads its text as what the parser makes of it. That is a constant of the
module, `Reading`: it gives any operand at all for each string (the string itself, a
column, NULL, a number), or `Garbled` when the text is not one operand, in which case
the statement is refused or asks for any rows whatever. `expr_to_sql` calls itself on the operands, so
`ExprToSql`, `Eval` and `Within` are recursive functions on `Exprs`, the bound of
the module: any set of expressions that has the operands of its members and their
texts (`ExprAssumption`, `TextAssumption`), each with its `Depth` as a tree.

**RemoteScan** composes Executor and Pushdown: a node is planned with an endpoint,
filters and a limit, calls whoever listens at `SqlPort(endpoint)`, and gets the rows
that executor's files have for the text, or an error; an executor that ends
cuts its requests off.

**SnapshotView** is the abstract specification of a cache of one of central's
tables: the source commits versions, and a reader's view is one whole version or
absent. IamService implements it (the engine as view of `iam_policies`),
and QueryService twice (the cache as view of the catalog, the engine as view of
central's policies, with the empty list for none).

**TerminalUi** models `elan-tui/src/main.rs` and `app.rs`: the loop takes one
`AppEvent` at a time and alone changes `app`; the keyboard reader, the audit task
and one task per query or catalog load each hold the event they are sending
until the channel has room. The audit stream is opened once and never again, the
keyboard task ends for good on an error of its reader, and an error of `draw` ends
the program.
`Outstanding` is computed from tasks and channel, so that `is_loading` is compared
with where the queries really are. The scroll offsets have a limit, `MaxScroll`;
at it the build decides whether `Down` wraps (release) or panics (debug).

**IamPolicyProofs, IamServiceProofs, AuditServiceProofs, CatalogProofs,
QueryServiceProofs, ExecutorProofs, RemoteScanProofs** and **TerminalUiProofs** hold
the theorems, and the **MC** modules the constants of the TLC runs.

QueryService extends IamPolicy and uses its `Check` and `IsVisible`;
IamService states its rules in IamPolicy's terms.

## 3. The runs

### Runs that pass

| Run | Shows |
|---|---|
| `policy_reference` | the decision of `check` agrees with a definition by sets, and only an Allow of at least its priority displaces a row filter |
| `iam_concurrent` | two handlers, errors, dropped requests and restarts: a handler's reload has its own write in force, subject types are stable, the engine implements SnapshotView; types and the proofs' invariant hold, with the engine always one committed state |
| `audit_stream` | streams carry stored events only; until they lag they are the replay followed by exactly the broadcasts; an event repeats only across the switch from replay to live; a replay that fits the channel ends, live events reach their client, a lagging stream goes on and catches up |
| `catalog` | two coordinators claim one name, crash, move and lose calls while central restarts and its database refuses statements: stored endpoints are some their owner registered and running coordinators have their rows, both until the database is lost; heartbeats resume after all of it |
| `query_service` | one query, and any number of others that contend for the catalog client: to a SELECT hidden tables look missing, they are not shown and cause no calls; cache and engine implement SnapshotView; the cache follows central when outages end, also beside a query that hangs, but not while the client's holder hangs; audit events are in order and agree with the reply; every query ends unless a call of its own, or of the holder of the client it waits for, never returns |
| `remote_scan` | whatever start, port race or restart comes between planning and answer, the rows come from an executor configured with the endpoint's port and with all its datasets, and are all the rows the filters select, unless the text of one of their strings is misread |
| `terminal_ui` | the loading mark is shown only while a query is outstanding, audit events are neither lost nor reordered, Ctrl+C quits while others fill the channel, loading ends as long as the calls of queries return |

### Runs that show a disagreement

Each checks one statement of a comment, a test or a document, which TLC refutes.

| Run | Statement | What happens |
|---|---|---|
| `iam_reload_race` | the engine "stays consistent with the database" (`iam_svc.rs:4-6`) | of two concurrent reloads the older listing is installed last |
| `audit_stuck` | "first replay recent events, then stream live ones" (`elan-tui/src/client/central.rs:29`) | more than 64 recent events fill a channel that nobody reads before the handler returns |
| `audit_gap` | a subscriber "receives it immediately" (`README.md:115`) | an event falls between the replay query and the subscription |
| `catalog_endpoint_sync` | the endpoint "stays in sync" (`catalog_store.rs:69-71`) | a coordinator moves and registers fewer datasets |
| `catalog_reset` | the heartbeat is there "to keep its record alive" (`elan-coordinator/src/main.rs:9`) | after central lost its database, heartbeats update nothing and report success |

Reading the code for the models showed further differences that no run is kept
for, since they need no interleaving to be seen:

* `EngineMatchesDatabaseWhenIdle` also fails with one request, when its reload
  fails or the request is dropped after the write was committed.
* `get_or_create_subject` (`iam_store.rs:40`) looks a subject up by name alone: a
  policy for the group `alice` is stored for an existing user `alice`.
* The comment at `engine.rs:47` says that matching policies are sorted "by priority
  desc then Deny-first". The code sorts Deny first and by priority within an effect,
  as `engine.rs:7-8` and `:57` say and `DecisionMatchesReference` checks: an Allow of
  priority 10 does not outweigh a Deny of priority 0, which the comment would have it do.
  `PrecedesByPriority` is the comment's order, and the property refutes it.
* `catalog_store.rs:4-6` and `:125` say that the datasets of dead coordinators are
  excluded from reads. The JOIN does filter on `is_alive`, but nothing ever clears it:
  `mark_coordinator_dead` has no caller (`TODO.md:49` knows), so the datasets of a
  coordinator that never returns stay listed. No property is kept for this: in the
  model, too, no action clears `is_alive`.
* `README.md:121` says that the existence of a table is concealed. `table_exist()`
  (`provider.rs:209-211`) has no visibility check, so CREATE EXTERNAL TABLE answers
  "already exists" (or 200 with IF NOT EXISTS) for a cached table that is hidden and
  another error for one that is missing. `HiddenLooksMissing` is about the catalog, the
  calls and SELECT, and excepts this statement; `CreateTable` has it.
* `expr_to_sql` writes a literal with `ScalarValue`'s `Display`, without quotes:
  `tier = 'gold'` becomes `("tier" = gold)`, and the executor, which has no
  column `gold`, answers 400. `test/03-query-customers.hurl:22-28` expects such
  a query to succeed. Worse, a text may be read as something else and accepted: as a
  column (also with its case folded), `'null'` as NULL, `'05'` as the number 5, and
  rows are lost. `AnswerLosesNoRow` excepts these strings (`Misread`).
* `coordinator_svc.rs:76-79` logs an error of the heartbeat's UPDATE and answers
  `alive: true`.
* `TODO.md:50` says there is no RPC to deregister a dataset; there is one
  (`coordinator_svc.rs:126`), which nothing calls.
* `remote_scan.rs:78-80` says that elan-query projects locally. The plan node has
  the projected schema (`table.rs:59-63`) while its stream has all columns.
* `README.md:91` and `README.md:128` say that row filters are put in front of the
  scan; `optimizer.rs` logs a warning and leaves the plan as it is.
* `build_sql` names the dataset without its namespace, so datasets of one name in
  two namespaces are one table to an executor.
* An executor whose SQL bind panicked logs "ready" and stays up without a
  SQL service.
* `handle_catalog` lists the name of a namespace whose tables are all hidden.
* `list_policies` orders by priority alone, so of two Allows of one priority
  the row filter in force may change with a reload.
* `coordinator_svc.rs:6-8` says that a dataset gets a fresh id each time it is
  registered; the conflict clause of the upsert keeps the first one.
* A query answered from the cache while central is away leaves no audit event
  (`README.md:111` says every execution is recorded): both publishes drop their
  errors (`query.rs:93`).
* `test/07-auth.hurl:2-3` says denied queries return empty results; planning
  fails first and the reply has status 500.

### Bounds, and why they are enough

* `MaxPolicies = 4` of six templates in every order: a decision depends on the
  strongest Deny and Allow, so a tie, a stronger and a weaker competitor and a
  Deny are four policies.
* IAM: two handlers are what a race between a listing and a swap needs; three
  policy ids are the seed and one write for each handler. In the concurrent run
  the requests are those that race for one policy or one subject, and one that the
  `CHECK` on the subject type refuses. `Faults` switches SQL errors, dropped
  requests and restarts on. Handlers are symmetric in the safety
  run.
* Audit: three events. `ReplayLimit = 3 > ChanCap = 2` keeps the order of 100 and 64, so that
  replays that fit and replays that do not both occur; `BroadcastCap = 1` lets a
  client fall behind after two events. One subscriber suffices, as subscribers
  share only the broadcast, which none of them changes.
* Catalog: two coordinators with one common dataset name, two configurations
  (one moves the endpoint and drops a dataset). `MaxRuns` bounds the starts of each
  process: one coordinator restarts once, with either configuration, and the other
  only crashes, which covers a restart before, between and after the other's
  steps. `Resets` switches the loss of the database on; the history variable `lost`
  remembers it.
* Query: the properties relate one query to the shared cache, the policies, the
  refresh and whoever else has the catalog client; the other queries are present
  as any number of further holders of it. The two catalogs differ in an endpoint
  (the dataset moved) and in a dataset of a namespace that sessions already have (so
  that it is fetched on a miss); a third table is in no catalog. One policy list hides
  the second table. The statements are a SELECT of two tables, a SELECT of the
  missing one, and a CREATE EXTERNAL TABLE of the second. `RefreshRecv` takes the rows
  in one fixed order, as the order makes no difference to the set they end up in;
  policies keep their order.
* Remote scan: one scan, as scans only share the executors. Six ports stand for
  2^16: two executors with adjacent `bind_port`s, of which the first has 0, so that it
  may be given any port, and its SQL port is the second's scheduler port, and one with
  the largest. `Checked = FALSE` is the release build, which wraps; a debug build's
  panic is the same as `MountFails`. The 55 plans have filters of two levels of AND, OR
  and NOT over a comparison each way round, an IN list and IS DISTINCT FROM, comparisons
  with seven strings (read as an unknown and as a known column, as a column by folding
  the case, as NULL, as a number and as no operand), and limits, over files with both
  ends of a range and NULLs.
* Terminal UI: `Scripts` are the key sequences (overlapping queries, an empty
  editor, a reload racing the first load, scrolling past the limit); a channel of
  one makes every sender wait, and `LogCap = 2` makes the log evict.

Deadlock is checked in every passing run but `policy_reference`, whose list has
a greatest length, `terminal_ui`, where the program ends, and `remote_scan`, whose
scan is over when it is answered.

### Fairness

* Audit: weak fairness of the server's tasks, which tokio polls whenever they
  can go on, and of the reading client. Nobody is obliged to publish, connect
  or leave.
* Catalog: weak fairness of what a running coordinator does (registration,
  heartbeat every 15 s, reconnect after 30 s) and of central answering. Nothing
  obliges a crashed process to return, or the database to work; `HeartbeatResumes`
  has that as its hypothesis.
* Query: weak fairness of the refresh, of serving and of the return of another
  query's call; strong fairness of taking the `Mutex`, for the refresh and for each
  query, as tokio hands it out in order of arrival. No call is obliged to return: a
  hang is a state the steps above are disabled in, and nothing ends it but a client
  that gives up or a crash, which nobody owes. The properties say which hangs they
  except. The start owes nothing either.
* Terminal UI: weak fairness of the loop, strong fairness of each send, as tokio's
  channel serves waiting senders in order. No call is obliged to return:
  `LoadingEnds` has that the calls of queries do as its hypothesis. The user and the
  audit stream owe nothing.
* IAM has safety properties only, and no fairness.

## 4. The proofs

For any handlers, names, rules, policies, events, subscribers, coordinators,
datasets, executors, ports, filters, files and keys that meet the modules'
assumptions; with them every invariant and every action property of a passing run
is a theorem:

* `CheckDecides` (IamPolicyProofs): access is granted exactly when some Allow
  and no Deny matches, and then the row filter is that of a matching Allow of the
  highest priority. It rests on the existence of a first element of a non-empty
  finite set of positions under the order of the sort.
* `EngineDecidesAsPromised` and `RowFiltersOutlive` (IamPolicyProofs). For the first,
  `CoversIsMatch` shows that stripping the suffix `.*` and comparing is the same as
  comparing with whole patterns, whatever segments namespaces and names have. The
  second, an action property, needs that ids are unique in the list (`ListInv`), so
  that the policy named in a decision is the one that took it (`FirstUnique`), and
  that an insertion anywhere shifts the others without changing which of them comes
  first, unless the new policy matches and does not come after it in the sort
  (`InsertKeepsFirst`).
* `IamSafety`, `IamTypeCorrect`, `ReloadHasOwnWrite`, `SubjectTypesNeverChange`
  (IamServiceProofs). That the engine is a committed state (`EngineIsCommittedState`) is
  not inductive: a reload installs a listing read earlier. `IamInvariant` adds that
  every version of the table is intact (unique ids, existing subjects of a
  type that no step changes), that a handler's next statement has the request
  and subject it needs, that a listing about to be installed lists a version,
  and that it holds the handler's own write unless another handler has deleted it
  (`WriteKnown`). The action properties follow from it. `iam_concurrent` checks
  the same invariant with TLC.
* `IamImplementsSnapshotView`: every step of IamService is a commit, an
  installation or a stutter of SnapshotView. An installation is a whole version
  because `IamInvariant` says so of each listing about to be installed.
* `AuditTypeCorrect`, `StreamsAreStored`, `RepeatsOnlyAcrossSwitch` and
  `LiveStreamsAreExact`
  (AuditServiceProofs). The inductive invariant `AuditInv` adds to the types that
  an event is stamped once, stored before it is broadcast and broadcast once
  (`PublishedOnce`), and says of each connection what it carries in its phase
  (`ConnectionFits`): before the subscription a part of the replay, afterwards the
  replay followed by broadcast events between its first and its present position,
  each once. The second follows because both parts hold stored events, the third
  because neither repeats an event. `ReadRecent` returns the falling enumeration
  of a set of positions, which needs no recursion and has no repeats.
  For the last, `ExactInv` counts: a stream that has not lagged is as long as its
  replay and the due entries of the broadcast together, and each due entry stands
  behind as many as come before it in the broadcast, so one more is appended at
  its place.
* `CatalogTypeCorrect`, `StoredEndpointIsOwners` and `RunningIsRegistered`
  (CatalogProofs). The second needs that endpoints
  travelling in `inflight` calls are their coordinator's too (`CallRegistered`),
  and that a coordinator that has come past its own registration has a row
  (`CoordRegistered`); `Routable` is all three together. Both are about the time
  before central loses its database and say nothing afterwards, when they are false.
* `QueryTypeCorrect`, `HiddenTablesLookMissing`, `QueryImplementsCatalogView`,
  `QueryImplementsPolicyView` and `AuditEventsInOrder` (QueryServiceProofs). The
  inductive invariant `QueryInv` is the types with the holder of the `Mutex` (the
  refresh, a query that fetches, or another),
  `ListsKept` (the part of the policies received and the part to come make a list
  central had; what the refresh holds and what is to come
  are together a catalog it listed) and
  `QueriesCleared` (what a query has asked for, called or shown passed the
  visibility check by the engine that is still in force: it only changes with a
  crash, which ends every query). That the policies received are those of the list
  needs `WireKeepsPolicy`: what central writes on the wire is read back as it was. For
  the events, `LogInv` adds which events a
  query may have stored in each phase.
* `ListeningExecutorIsComplete` (ExecutorProofs), by the invariant `Progress`: an
  executor's registered and remaining tables are its mounts, and a SQL task exists
  only when none remains. For any executors, ports, mounts and either build.

* `ScanTypeCorrect`, `ServingExecutorIsComplete`, `AnswersComeFromTheEndpoint` and
  `PushdownLosesNoRow` (RemoteScanProofs). The first part shows that `ExprToSql` and
  `Within` satisfy their recursive equations (`SqlEquation`, `WithinEquation`): for
  every n there is a function on the expressions of a depth below n, these agree where
  two are defined, and together they are one for all expressions; the library has
  this for functions on the naturals only, and by an operator parameter.
  `ExprInduction` is the induction on the depth, over a set of expressions. With it,
  the text of an expression has the reading of every string in it (`StringsAreRead`), an
  expression whose strings all read back as themselves is read as it was (`TextIsSame`),
  and a garbled text has a string whose reading is garbled (`GarbledIsMisread`). So a
  filter whose text the executor takes is that filter, or has a string that is misread.
  What could not be
  converted only makes the answer larger (`AnswerLoses`). `ScanInv` adds to the types and
  to `ExecInv` that the SQL port of an executor is `bind_port + 1` unless that sum
  wrapped (`SqlPortRight`), and that a scan that called somebody called one with
  the endpoint's port (`FromEndpoint`). A table that was found among the providers is one of
  the mounts by `Progress`.
* `UiTypeCorrect`, `LoadingTellsTheTruth` and `AuditPaneIsTail` (TerminalUiProofs). The
  types need that tasks never outnumber the keys that start them (`Budget`) and
  that a task holds only its own kind of event (`HeldRight`). `LoadingInv` says that
  each query that has been started and not shown is in exactly one place (with
  elan-query, held by its task, or in the channel, once), and that there is at most
  one unless two overlapped. `PaneInv` says that what the loop has seen, what is in the
  channel and what the audit task holds are together the events of the stream in their
  order, and that the pane is the end of what was seen.

TLC checked the strengthenings of RemoteScan and TerminalUi on the instances of their
runs before they were proved, as `iam_concurrent` checks that of IamService.

Only model-checked are the liveness properties (`FittingReplayEnds`,
`BroadcastIsDelivered`, `LaggedStreamCatchesUp`, `HeartbeatResumes`,
`CatalogReachesQueries`, `QueryEnds`, `CtrlCQuits`, `LoadingEnds`), which are out of
the prover's reach. `TextAssumption` and `ExprAssumption` are about the bound `Exprs`
and the readings of the strings in it, and are evaluated by TLC on the expressions of
the run.

## 5. What is not modelled

* Projection in the gateway, filtering again after the scan and the JSON
  conversion of result rows: the first two are DataFusion's, the third is output.
* Statements to the gateway other than SELECT and CREATE EXTERNAL TABLE, which
  DataFusion carries out in the session of one request.
* Rendering and the texts of the terminal UI: pure output.
* A `NOT` on the left of a comparison, which `expr_to_sql` writes without outer
  parentheses, and SQL functions, casts and arithmetic, for which it has no case.
* The Ballista scheduler that an executor starts: no component calls it. The
  auth client of the executor has no caller.
* Object store upload, configuration loading, health and auth-check endpoints:
  I/O or constant answers that change none of the modelled state.
* `KafkaAuditSink` is never constructed, and `search_datasets` and
  `mark_coordinator_dead` have no caller.

## 6. Plan

Built so far, in this order: IamPolicy, IamService, AuditService, Catalog,
QueryService, TerminalUi; then Executor, Pushdown, RemoteScan and SnapshotView; then
PolicyLists and the proofs for every component.
Next:

1. **Abstract specifications**: an append-only log with cursors that AuditService
   implements until a stream lags, with the proof that it does.
2. **Composition**: Catalog with RemoteScan, so that a coordinator that moves does
   so under planned scans.
