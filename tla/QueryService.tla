---------------------------- MODULE QueryService ----------------------------
(***************************************************************************)
(* elan-query: SessionFactory with its catalog cache, its policies and its *)
(* background refresh, and the queries that handle_query serves with the   *)
(* session built from them, from the QuerySubmitted event over name        *)
(* resolution and the remote scans to the final event and the reply.       *)
(*                                                                         *)
(* elan-central is seen through the calls elan-query makes: what it lists, *)
(* the policies it has, the audit events it stored, and whether it answers *)
(* at all.  The executors are seen through the answers to POST /sql.       *)
(* Nothing sets a timeout, so a call to either may never return.           *)
(***************************************************************************)
EXTENDS IamPolicy, FiniteSets

CONSTANTS
  Queries,      \* requests to POST /api/v1/query, each made once
  Users,        \* bearer tokens
  Tables,       \* resources [namespace, name]
  Endpoints,    \* executor endpoints
  Catalogs,     \* what list_datasets may return: sets of [table, endpoint]
  PolicyLists,  \* what list_policies may return
  Requests,     \* statements: [kind, tables], in the order names are resolved
  Faults        \* whether central goes down and elan-query crashes

\* What central's tables have: IamService says why row_filter is never "".
IsPolicy(p) ==
  /\ p = [id |-> p.id, subject_name |-> p.subject_name, subject_type |-> p.subject_type,
          rule |-> p.rule]
  /\ p.rule = [resource_pattern |-> p.rule.resource_pattern, action |-> p.rule.action,
               effect |-> p.rule.effect, row_filter |-> p.rule.row_filter,
               priority |-> p.rule.priority]
  /\ p.subject_type \in {"user", "group"} /\ p.rule.effect \in {"Allow", "Deny"}
  /\ p.rule.row_filter # ""

CatalogRows == [table : Tables, endpoint : Endpoints]

ASSUME QueryAssumption ==
  /\ None \notin Queries \cup {"refresh", "other"}
  /\ "refresh" \notin Queries /\ "other" \notin Queries
  /\ Catalogs \subseteq SUBSET CatalogRows
  /\ \A C \in Catalogs : \A a, b \in C : a.table = b.table => a = b
  /\ \A P \in PolicyLists :
       P \in Seq({P[i] : i \in DOMAIN P}) /\ \A i \in DOMAIN P : IsPolicy(P[i])
  /\ Requests \subseteq [kind : {"select", "create"}, tables : Seq(Tables)]
  /\ Faults \in BOOLEAN

VARIABLES
  up,        \* central answers calls
  catalog,   \* what it lists now
  policies,  \* its policies now
  log,       \* the audit events it stored: <<event type, query>>
  proc,      \* how far elan-query's start has got
  incoming,  \* load_iam_policies: the policies still to come, and those received
  engine,    \* the policies in iam_engine
  sink,      \* CentralAuditSink or NoOpAuditSink
  cache,     \* datasets_by_ns, as a set of rows
  lock,      \* who holds the Mutex around catalog_client
  hangs,     \* its holder's call never returns
  refresh,   \* the background task: [phase, rest, got]
  query,     \* the queries
  versions,  \* history: every catalog central has listed
  lists      \* history: every list of policies it has had

central == <<up, catalog, policies, versions, lists>>
factory == <<proc, incoming, engine, sink, cache>>
client  == <<lock, hangs>>
vars == <<up, catalog, policies, log, proc, incoming, engine, sink, cache, lock, hangs,
          refresh, query, versions, lists>>

(***************************************************************************)
(* A query: its phase, who asks for which tables, the tables still to be   *)
(* resolved and whether one was not found, the rows its schema providers   *)
(* have, the scans of the plan and the status of the reply; and, as        *)
(* history, the tables central was asked for, the tables whose executor    *)
(* was called, and those a catalog request was shown.                      *)
(***************************************************************************)
NoQuery ==
  [phase |-> "new", user |-> None, kind |-> None, tables |-> << >>, todo |-> << >>,
   missing |-> FALSE, session |-> {}, scans |-> {}, status |-> None,
   asked |-> {}, called |-> {}, shown |-> {}]

Gone == [NoQuery EXCEPT !.phase = "gone"]

Nothing == [rest |-> << >>, got |-> << >>]

Asleep == [phase |-> "sleep", rest |-> {}, got |-> {}]

\* extract_subject: the token is the user, and nobody has groups.
Subject(q) == [user_id |-> query[q].user, groups |-> {}]

\* table_names of the providers over the rows C.
TableNames(C, subject) == {t \in {r.table : r \in C} : IsVisible(engine, subject, t)}

Visible(q, t) == IsVisible(engine, Subject(q), t)

RowFor(C, t) == CHOOSE r \in C : r.table = t
Has(C, t)    == \E r \in C : r.table = t

-----------------------------------------------------------------------------
Init ==
  /\ up = TRUE
  /\ catalog \in Catalogs /\ versions = {catalog}
  /\ policies \in PolicyLists /\ lists = {policies}
  /\ log = << >>
  /\ proc = "down" /\ incoming = Nothing /\ engine = << >> /\ sink = "noop" /\ cache = {}
  /\ lock = None /\ hangs = FALSE /\ refresh = Asleep
  /\ query = [q \in Queries |-> NoQuery]

\* CatalogService and IamService: what the other modules do to the tables.
ChangeCatalog ==
  /\ \E C \in Catalogs \ {catalog} : catalog' = C /\ versions' = versions \cup {C}
  /\ UNCHANGED <<up, policies, lists, log, factory, client, refresh, query>>

ChangePolicies ==
  /\ \E P \in PolicyLists \ {policies} : policies' = P /\ lists' = lists \cup {P}
  /\ UNCHANGED <<up, catalog, versions, log, factory, client, refresh, query>>

\* Calls fail.  A listing on its way is cut off, or stalls until central is back.
CentralDown ==
  /\ Faults /\ up
  /\ up' = FALSE
  /\ UNCHANGED <<catalog, policies, versions, lists, log, factory, client, refresh, query>>

CentralUp ==
  /\ ~up
  /\ up' = TRUE
  /\ UNCHANGED <<catalog, policies, versions, lists, log, factory, client, refresh, query>>

-----------------------------------------------------------------------------
\* SessionFactory::new: no catalog, no process.
LoadDatasets ==
  /\ proc = "down" /\ up
  /\ proc' = "policies"
  /\ cache' = catalog
  /\ UNCHANGED <<central, log, incoming, engine, sink, client, refresh, query>>

\* load_iam_policies, once: list_policies answers from one SELECT.
ListPolicies ==
  /\ proc = "policies" /\ up
  /\ proc' = "stream"
  /\ incoming' = [rest |-> policies, got |-> << >>]
  /\ UNCHANGED <<central, log, engine, sink, cache, client, refresh, query>>

\* A policy on the wire, and what load_iam_policies makes of it.
ToProto(p) ==
  [policy_id |-> p.id, subject_name |-> p.subject_name, subject_type |-> p.subject_type,
   resource_pattern |-> p.rule.resource_pattern, action |-> p.rule.action,
   effect |-> IF p.rule.effect = "Deny" THEN 1 ELSE 0,
   row_filter |-> IF p.rule.row_filter = None THEN "" ELSE p.rule.row_filter,
   priority |-> p.rule.priority]

FromProto(m) ==
  [id |-> m.policy_id, subject_name |-> m.subject_name,
   subject_type |-> IF m.subject_type = "group" THEN "group" ELSE "user",
   rule |-> [resource_pattern |-> m.resource_pattern, action |-> m.action,
             effect |-> IF m.effect = 1 THEN "Deny" ELSE "Allow",
             row_filter |-> IF m.row_filter = "" THEN None ELSE m.row_filter,
             priority |-> m.priority]]

RecvPolicy ==
  /\ proc = "stream" /\ up /\ incoming.rest # << >>
  /\ incoming' = [rest |-> Tail(incoming.rest),
                  got |-> Append(incoming.got, FromProto(ToProto(Head(incoming.rest))))]
  /\ UNCHANGED <<central, log, proc, engine, sink, cache, client, refresh, query>>

PoliciesLoaded ==
  /\ proc = "stream" /\ up /\ incoming.rest = << >>
  /\ proc' = "sink" /\ engine' = incoming.got /\ incoming' = Nothing
  /\ UNCHANGED <<central, log, sink, cache, client, refresh, query>>

\* A mutant: the policies received before the error are kept.
PoliciesFailKept ==
  /\ proc \in {"policies", "stream"} /\ ~up
  /\ proc' = "sink" /\ engine' = incoming.got /\ incoming' = Nothing
  /\ UNCHANGED <<central, log, sink, cache, client, refresh, query>>

\* "failed to load IAM policies; defaulting to deny-all".
PoliciesFail ==
  /\ proc \in {"policies", "stream"} /\ ~up
  /\ proc' = "sink" /\ engine' = << >> /\ incoming' = Nothing
  /\ UNCHANGED <<central, log, sink, cache, client, refresh, query>>

\* CentralAuditSink::new; when it fails, NoOpAuditSink.
ConnectSink ==
  /\ proc = "sink"
  /\ proc' = "up"
  /\ sink' = IF up THEN "central" ELSE "noop"
  /\ UNCHANGED <<central, log, incoming, engine, cache, client, refresh, query>>

\* The process ends, its queries and their replies with it.
QueryCrash ==
  /\ Faults /\ proc # "down"
  /\ proc' = "down" /\ incoming' = Nothing
  /\ engine' = << >> /\ sink' = "noop" /\ cache' = {}
  /\ lock' = None /\ hangs' = FALSE /\ refresh' = Asleep
  /\ query' = [q \in Queries |-> IF query[q].phase = "new" THEN NoQuery ELSE Gone]
  /\ UNCHANGED <<central, log>>

-----------------------------------------------------------------------------
\* The tick: the task has the client to itself until the loop turns.
RefreshLock ==
  /\ proc = "up" /\ refresh.phase = "sleep" /\ lock = None
  /\ lock' = "refresh"
  /\ refresh' = [refresh EXCEPT !.phase = "list"]
  /\ UNCHANGED <<central, log, factory, hangs, query>>

\* list_datasets is answered from one SELECT, then streamed.
RefreshList ==
  /\ refresh.phase = "list" /\ up /\ ~hangs
  /\ refresh' = [phase |-> "load", rest |-> catalog, got |-> {}]
  /\ UNCHANGED <<central, log, factory, client, query>>

\* The rows come in one order; which one makes no difference to the map.
RefreshRecv ==
  /\ refresh.phase = "load" /\ up /\ ~hangs /\ refresh.rest # {}
  /\ LET r == CHOOSE x \in refresh.rest : TRUE IN
     refresh' = [refresh EXCEPT !.rest = @ \ {r}, !.got = @ \cup {r}]
  /\ UNCHANGED <<central, log, factory, client, query>>

\* A mutant: the guard taken once, before the loop.
RefreshDoneKeepsLock ==
  /\ refresh.phase = "load" /\ up /\ ~hangs /\ refresh.rest = {}
  /\ cache' = refresh.got
  /\ refresh' = Asleep
  /\ UNCHANGED <<central, log, proc, incoming, engine, sink, client, query>>

Namespaces(C) == {r.table.namespace : r \in C}

\* A mutant: a listing with fewer datasets is taken for an incomplete one.
RefreshDoneIfGrown ==
  /\ refresh.phase = "load" /\ up /\ ~hangs /\ refresh.rest = {}
  /\ cache' = IF Cardinality(refresh.got) > Cardinality(cache) THEN refresh.got ELSE cache
  /\ refresh' = Asleep /\ lock' = None
  /\ UNCHANGED <<central, log, proc, incoming, engine, sink, hangs, query>>

RefreshDone ==
  /\ refresh.phase = "load" /\ up /\ ~hangs /\ refresh.rest = {}
  /\ cache' = refresh.got
  /\ refresh' = Asleep /\ lock' = None
  /\ UNCHANGED <<central, log, proc, incoming, engine, sink, hangs, query>>

\* A mutant: what arrived before the error is kept.
RefreshFailsPartial ==
  /\ refresh.phase \in {"list", "load"} /\ ~up /\ ~hangs
  /\ cache' = IF refresh.phase = "load" THEN refresh.got ELSE cache
  /\ refresh' = Asleep /\ lock' = None
  /\ UNCHANGED <<central, log, proc, incoming, engine, sink, hangs, query>>

\* "catalog refresh failed, retaining cached view".
RefreshFails ==
  /\ refresh.phase \in {"list", "load"} /\ ~up /\ ~hangs
  /\ refresh' = Asleep /\ lock' = None
  /\ UNCHANGED <<central, log, factory, hangs, query>>

-----------------------------------------------------------------------------
\* Queries that are not followed here miss in their sessions too, and hold the
\* client over their get_dataset: any number of them, one after another.
OtherLocks ==
  /\ proc = "up" /\ lock = None
  /\ lock' = "other"
  /\ UNCHANGED <<central, log, factory, hangs, refresh, query>>

OtherReturns ==
  /\ lock = "other" /\ ~hangs
  /\ lock' = None
  /\ UNCHANGED <<central, log, factory, hangs, refresh, query>>

\* Its client goes away.
OtherLeaves ==
  /\ lock = "other" /\ hangs
  /\ lock' = None /\ hangs' = FALSE
  /\ UNCHANGED <<central, log, factory, refresh, query>>

\* Central takes the call of whoever has the client and never answers.
ClientHangs ==
  /\ Faults /\ lock # None /\ ~hangs
  /\ hangs' = TRUE
  /\ UNCHANGED <<central, log, factory, lock, refresh, query>>

-----------------------------------------------------------------------------
At(q, phase) == query[q].phase = phase
Asked(q)     == Head(query[q].todo)
Elems(s)     == {s[i] : i \in DOMAIN s}

\* audit.publish, whose error is ignored.
Publish(event, q) ==
  log' = IF sink = "central" /\ up THEN Append(log, <<event, q>>) ELSE log

\* handle_catalog: the namespaces of a session and the tables its providers
\* name, which are those the user may read.
ListCatalog(q) ==
  /\ proc = "up" /\ At(q, "new")
  /\ \E u \in Users :
       query' = [query EXCEPT ![q] =
         [NoQuery EXCEPT !.phase = "done", !.user = u, !.status = 200,
                         !.shown = TableNames(cache, [user_id |-> u, groups |-> {}])]]
  /\ UNCHANGED <<central, log, factory, client, refresh>>

\* handle_query up to build_for_user, which copies the cache: the read lock is
\* held for no await.
Submit(q) ==
  /\ proc = "up" /\ At(q, "new")
  /\ \E u \in Users, req \in Requests :
       query' = [query EXCEPT ![q] =
         [NoQuery EXCEPT !.phase = "submit", !.user = u, !.kind = req.kind,
                         !.tables = req.tables, !.todo = req.tables, !.session = cache]]
  /\ UNCHANGED <<central, log, factory, client, refresh>>

PublishSubmitted(q) ==
  /\ At(q, "submit")
  /\ Publish("QuerySubmitted", q)
  /\ query' = [query EXCEPT ![q].phase = "plan"]
  /\ UNCHANGED <<central, factory, client, refresh>>

\* df_result, and the status of the reply: 200, or for an error 500, or 403 for
\* a text that contains "AccessDenied" or "permission denied".  Its plan is gone.
Answered(r, status) ==
  [r EXCEPT !.phase = "finish", !.todo = << >>, !.session = {}, !.scans = {},
            !.status = status]

\* A mutant: no catalog filter.
ReachableUnfiltered(q, t) == t.namespace \in Namespaces(query[q].session)

\* Only the namespaces of the session have a schema provider, and it hides
\* the tables its user may not read.
Reachable(q, t) == t.namespace \in Namespaces(query[q].session) /\ Visible(q, t)

\* The table is not found, which fails the query once all names are resolved.
NotFound(q) == [query EXCEPT ![q].phase = "plan", ![q].todo = Tail(@), ![q].missing = TRUE]

\* No schema provider has the namespace, or table() hides the table.
ResolveNone(q) ==
  /\ At(q, "plan") /\ query[q].todo # << >>
  /\ ~Reachable(q, Asked(q))
  /\ query' = NotFound(q)
  /\ UNCHANGED <<central, log, factory, client, refresh>>

\* table() finds the dataset in its map.
ResolveCached(q) ==
  /\ At(q, "plan") /\ query[q].todo # << >>
  /\ Reachable(q, Asked(q)) /\ Has(query[q].session, Asked(q))
  /\ query' = [query EXCEPT ![q].todo = Tail(@),
                            ![q].scans = @ \cup {RowFor(query[q].session, Asked(q))}]
  /\ UNCHANGED <<central, log, factory, client, refresh>>

\* It does not, and waits for central_client.
Misses(q) ==
  /\ At(q, "plan") /\ query[q].todo # << >>
  /\ Reachable(q, Asked(q)) /\ ~Has(query[q].session, Asked(q))

ResolveMiss(q) ==
  /\ Misses(q)
  /\ lock = None
  /\ lock' = q
  /\ query' = [query EXCEPT ![q].phase = "fetch", ![q].asked = @ \cup {Asked(q)}]
  /\ UNCHANGED <<central, log, factory, hangs, refresh>>

\* get_dataset returns the dataset, NotFound or an error, which ends planning.
Fetch(q) ==
  /\ At(q, "fetch") /\ ~hangs
  /\ \/ up /\ Has(catalog, Asked(q))
        /\ query' = [query EXCEPT ![q].phase = "plan",
                                  ![q].session = @ \cup {RowFor(catalog, Asked(q))}]
     \/ up /\ ~Has(catalog, Asked(q)) /\ query' = NotFound(q)
     \/ ~up /\ query' = [query EXCEPT ![q] = Answered(@, 500)]
  /\ lock' = None
  /\ UNCHANGED <<central, log, factory, hangs, refresh>>

\* "table not found", for a table the catalog filter hides too.
PlanFails(q) ==
  /\ At(q, "plan") /\ query[q].todo = << >>
  /\ query[q].kind = "select" /\ query[q].missing
  /\ query' = [query EXCEPT ![q] = Answered(@, 500)]
  /\ UNCHANGED <<central, log, factory, client, refresh>>

\* table_exist of the provider: its map, hidden tables included.
TableExist(q, t) == Has(query[q].session, t)

\* CREATE EXTERNAL TABLE asks table_exist.  A table that exists is an error
\* unless IF NOT EXISTS is said; to register a new one is an error.
CreateTable(q) ==
  /\ At(q, "plan") /\ query[q].todo = << >>
  /\ query[q].kind = "create"
  /\ \E status \in {200, 500} :
       /\ status = 200 => \E t \in Elems(query[q].tables) : TableExist(q, t)
       /\ query' = [query EXCEPT ![q] = Answered(@, status)]
  /\ UNCHANGED <<central, log, factory, client, refresh>>

\* IamFilterRule: the scans the engine denies become EmptyExec.
PhysicalPlan(q) ==
  /\ At(q, "plan") /\ query[q].todo = << >>
  /\ query[q].kind = "select" /\ ~query[q].missing
  /\ query' = [query EXCEPT ![q].phase = "scan",
                            ![q].scans = {r \in @ : Visible(q, r.table)}]
  /\ UNCHANGED <<central, log, factory, client, refresh>>

\* RemoteTableScanExec::execute calls the executor.
Called(rec, r) == [rec EXCEPT !.scans = @ \ {r}, !.called = @ \cup {r.table}]

\* It returns the rows.
Scan(q) ==
  /\ At(q, "scan")
  /\ \E r \in query[q].scans :
       query' = [query EXCEPT ![q] = Called(@, r)]
  /\ UNCHANGED <<central, log, factory, client, refresh>>

\* The endpoint is malformed, nobody answers there, or the answer is an error.
ScanFails(q) ==
  /\ At(q, "scan") /\ query[q].scans # {}
  /\ \E r \in query[q].scans, status \in {403, 500} :
       query' = [query EXCEPT ![q] = Answered(Called(@, r), status)]
  /\ UNCHANGED <<central, log, factory, client, refresh>>

\* The executor accepts the request and never answers: there is no timeout.
ScanHangs(q) ==
  /\ Faults /\ At(q, "scan")
  /\ \E r \in query[q].scans :
       query' = [query EXCEPT ![q] = [Called(@, r) EXCEPT !.phase = "hung"]]
  /\ UNCHANGED <<central, log, factory, client, refresh>>

Collected(q) ==
  /\ At(q, "scan") /\ query[q].scans = {}
  /\ query' = [query EXCEPT ![q] = Answered(@, 200)]
  /\ UNCHANGED <<central, log, factory, client, refresh>>

FinalEvent(q) == IF query[q].status = 200 THEN "QueryCompleted" ELSE "QueryFailed"

\* A mutant: the event is published again after an error.
ReplyRepublishes(q) ==
  /\ At(q, "finish")
  /\ Publish(FinalEvent(q), q)
  /\ query' = [query EXCEPT ![q].phase = IF query[q].status = 200 THEN "done" ELSE "finish"]
  /\ UNCHANGED <<central, factory, client, refresh>>

Reply(q) ==
  /\ At(q, "finish")
  /\ Publish(FinalEvent(q), q)
  /\ query' = [query EXCEPT ![q].phase = "done"]
  /\ UNCHANGED <<central, factory, client, refresh>>

\* Central takes an event and never answers: it may have stored it.
PublishHangs(q) ==
  /\ Faults /\ sink = "central"
  /\ \/ At(q, "submit") /\ (log' = log \/ Publish("QuerySubmitted", q))
     \/ At(q, "finish") /\ (log' = log \/ Publish(FinalEvent(q), q))
  /\ query' = [query EXCEPT ![q].phase = "stuck"]
  /\ UNCHANGED <<central, factory, client, refresh>>

(***************************************************************************)
(* The client goes away and the handler is dropped at an await, its guard  *)
(* with it; a publish under way may still be stored.  A scan blocks its    *)
(* thread and is not dropped.                                              *)
(***************************************************************************)
Abandon(q) ==
  /\ query[q].phase \in {"submit", "plan", "fetch", "finish", "stuck"}
  /\ query' = [query EXCEPT ![q] = Gone]
  /\ lock' = IF lock = q THEN None ELSE lock
  /\ hangs' = (hangs /\ lock # q)
  /\ \/ At(q, "submit") /\ Publish("QuerySubmitted", q)
     \/ At(q, "finish") /\ Publish(FinalEvent(q), q)
     \/ log' = log
  /\ UNCHANGED <<central, factory, refresh>>

Central == ChangeCatalog \/ ChangePolicies \/ CentralDown \/ CentralUp

Boot ==
  \/ LoadDatasets \/ ListPolicies \/ RecvPolicy \/ PoliciesLoaded \/ PoliciesFail
  \/ ConnectSink

Refresh == RefreshList \/ RefreshRecv \/ RefreshDone \/ RefreshFails

Others == OtherLocks \/ OtherReturns \/ OtherLeaves

Serve(q) ==
  \/ PublishSubmitted(q) \/ ResolveNone(q) \/ ResolveCached(q) \/ Fetch(q) \/ PlanFails(q)
  \/ CreateTable(q) \/ PhysicalPlan(q) \/ Scan(q) \/ ScanFails(q) \/ Collected(q) \/ Reply(q)

Next ==
  \/ Central \/ Boot \/ QueryCrash \/ RefreshLock \/ Refresh \/ Others \/ ClientHangs
  \/ \E q \in Queries : \/ ListCatalog(q) \/ Submit(q) \/ Serve(q) \/ ResolveMiss(q)
                        \/ ScanHangs(q) \/ PublishHangs(q) \/ Abandon(q)

(***************************************************************************)
(* tokio polls what can go on, and its Mutex is fair: who waits gets it    *)
(* when it is free.  A call returns, with an error when its server is      *)
(* down, unless it hangs; nothing says that it does not hang, that a       *)
(* client gives up, or that the start goes on.                             *)
(***************************************************************************)
Fairness ==
  /\ WF_vars(Refresh) /\ SF_vars(RefreshLock) /\ WF_vars(OtherReturns)
  /\ \A q \in Queries : WF_vars(Serve(q)) /\ SF_vars(ResolveMiss(q))

Spec == Init /\ [][Next]_vars /\ Fairness

-----------------------------------------------------------------------------
Phases == {"new", "submit", "plan", "fetch", "scan", "hung", "stuck", "finish", "done", "gone"}

Statuses == {None, 200, 403, 500}

QueryRecords ==
  [phase : Phases, user : Users \cup {None}, kind : {None, "select", "create"},
   tables : Seq(Tables), todo : Seq(Tables), missing : BOOLEAN,
   session : SUBSET CatalogRows, scans : SUBSET CatalogRows,
   status : Statuses, asked : SUBSET Tables, called : SUBSET Tables,
   shown : SUBSET Tables]

\* The variables hold values of their types, and the Mutex has one holder.
TypeOK ==
  /\ up \in BOOLEAN /\ catalog \in Catalogs /\ policies \in PolicyLists
  /\ versions \subseteq Catalogs /\ lists \subseteq PolicyLists
  /\ proc \in {"down", "policies", "stream", "sink", "up"} /\ sink \in {"central", "noop"}
  /\ engine \in PolicyLists \cup {<< >>} /\ cache \subseteq CatalogRows
  /\ refresh \in [phase : {"sleep", "list", "load"},
                  rest : SUBSET CatalogRows, got : SUBSET CatalogRows]
  /\ query \in [Queries -> QueryRecords]
  /\ log \in Seq({"QuerySubmitted", "QueryCompleted", "QueryFailed"} \X Queries)
  /\ refresh.phase # "sleep" <=> lock = "refresh"
  /\ \A q \in Queries : At(q, "fetch") <=> lock = q
  /\ hangs \in BOOLEAN /\ (hangs => lock # None)

Live(q)   == query[q].phase \notin {"new", "gone"}
Hidden(q) == {t \in Tables : ~Check(engine, Subject(q), t, "SELECT").allowed}

(***************************************************************************)
(* README.md (121): "Table existence is concealed from unauthorised        *)
(* users."  For a table the user may not read, neither central nor an      *)
(* executor is called, the catalog does not show it, and a SELECT that     *)
(* names it fails as it does for a table that does not exist, whatever is  *)
(* cached, fetched or refreshed meanwhile.  CREATE EXTERNAL TABLE is       *)
(* excepted: table_exist answers it from the session's map, and the map    *)
(* has the hidden tables too.                                              *)
(***************************************************************************)
HiddenLooksMissing ==
  \A q \in Queries : Live(q) =>
    /\ Hidden(q) \cap (query[q].asked \cup query[q].called \cup query[q].shown) = {}
    /\ query[q].kind = "select" /\ Hidden(q) \cap Elems(query[q].tables) # {} =>
         query[q].called = {} /\ query[q].status \in {None, 500}

(***************************************************************************)
(* "catalog refresh failed, retaining cached view": the cache implements   *)
(* SnapshotView.  It is one whole catalog that central listed, never the   *)
(* part of it that arrived before central went away, and neither a query   *)
(* nor a fetch on a miss writes it.  A query begins with that catalog; on  *)
(* a miss it adds a row of what central lists then, so its plan may mix    *)
(* two.                                                                    *)
(***************************************************************************)
CatalogView == INSTANCE SnapshotView WITH
  Absent <- None, source <- catalog, history <- versions,
  view   <- IF proc = "down" THEN None ELSE cache

ImplementsCatalogView == CatalogView!Spec

(***************************************************************************)
(* "defaulting to deny-all": the gateway's engine implements SnapshotView, *)
(* with the empty list, which denies everything, for no view.  It decides  *)
(* by one whole list central had or it denies, however the start and the   *)
(* stream of policies are cut short: a prefix of the list, which lacks the *)
(* Denys of low priority, is never in force.                               *)
(***************************************************************************)
PolicyView == INSTANCE SnapshotView WITH
  Absent <- << >>, source <- policies, view <- engine, history <- lists

ImplementsPolicyView == PolicyView!Spec

(***************************************************************************)
(* The events of a query: submitted at most once, then one final event     *)
(* that agrees with the reply, although either may be lost.                *)
(***************************************************************************)
EventsInOrder ==
  /\ \A i, j \in DOMAIN log : i < j /\ log[i][2] = log[j][2] =>
       log[i][1] = "QuerySubmitted" /\ log[j][1] # "QuerySubmitted"
  /\ \A i \in DOMAIN log : LET q == log[i][2] IN
       At(q, "done") /\ log[i][1] # "QuerySubmitted" =>
         (log[i][1] = "QueryCompleted" <=> query[q].status = 200)

(***************************************************************************)
(* Every query comes to its end, unless the executor or central never      *)
(* answers a call of its own, or it misses and waits for the catalog       *)
(* client while the call of the client's holder hangs: that the refresh    *)
(* and any number of other queries lock the client across calls that do    *)
(* return holds no query up for ever.                                      *)
(***************************************************************************)
WaitsForClient(q) == Misses(q) \/ At(q, "fetch")

QueryEnds ==
  \A q \in Queries : Live(q) ~>
    query[q].phase \in {"done", "gone", "hung", "stuck"} \/ (hangs /\ WaitsForClient(q))

(***************************************************************************)
(* README.md (105): a new dataset is picked up "on its next 30-second      *)
(* catalog refresh".  Once central lists one catalog and stays up, queries *)
(* begin with that catalog, also while a query hangs at its executor, but  *)
(* not while a call to central by the holder of the catalog client hangs.  *)
(***************************************************************************)
CatalogReachesQueries ==
  \A C \in Catalogs :
    <>[](up /\ proc = "up" /\ catalog = C) => <>[](cache = C \/ hangs)
=============================================================================
