----------------------------- MODULE RemoteScan -----------------------------
(***************************************************************************)
(* The scans of elan-query's plans and the executors they call:            *)
(* ElanTableProvider::scan, RemoteTableScanExec::execute and handle_sql,   *)
(* over the executors of a host that start, race for ports and stop.       *)
(***************************************************************************)
EXTENDS Executor, Pushdown

CONSTANTS
  Scans,      \* RemoteTableScanExec nodes
  Endpoints,  \* ports of executor_endpoint, None where it does not parse
  Plans,      \* [table, filters, limit] of a node
  Content     \* the rows of each executor's files, by table

ASSUME ScanAssumption ==
  /\ Endpoints \subseteq Ports \cup {None}
  /\ \A p \in Plans : /\ p.table \in Tables /\ p.filters \subseteq Exprs
                      /\ p.filters # {} => p.limit = None
  /\ \A x \in Execs, t \in Tables : /\ IsFiniteSet(Content[x][t])
                                  /\ \A r \in Content[x][t] : DOMAIN r = Columns

VARIABLE scan

vars == <<execVars, scan>>

(***************************************************************************)
(* A scan: its phase, the endpoint and the plan, the executor whose SQL    *)
(* service has the request, and the rows of the answer.                    *)
(***************************************************************************)
NoScan == [phase |-> "new", endpoint |-> None, plan |-> None, by |-> None, rows |-> {}]

Init == ExecInit /\ scan = [s \in Scans |-> NoScan]

At(s, phase) == scan[s].phase = phase

Failed(s) == [scan EXCEPT ![s].phase = "failed"]

(***************************************************************************)
(* The planner calls scan().  supports_filters_pushdown answers Inexact,   *)
(* so every filter comes along, and DataFusion hands a limit down only     *)
(* where there is no filter.                                               *)
(***************************************************************************)
PlanScan(s) ==
  /\ At(s, "new")
  /\ \E e \in Endpoints, p \in Plans :
       scan' = [scan EXCEPT ![s] = [NoScan EXCEPT !.phase = "planned", !.endpoint = e, !.plan = p]]
  /\ UNCHANGED execVars

\* A mutant: the request goes to the port of the endpoint.
SqlPortSame(port) == port

\* ballista_port + 1.
SqlPort(port) == NextPort(port)

\* The SQL services a request to the endpoint reaches: none if parse_endpoint
\* fails or the sum panics.
Callees(e) ==
  IF e = None \/ ~Fits(e) THEN {} ELSE {x \in Execs : sqlPort[x] = SqlPort(e)}

\* execute: no request, or nobody speaks HTTP at that port.
CallFails(s) ==
  /\ At(s, "planned") /\ Callees(scan[s].endpoint) = {}
  /\ scan' = Failed(s)
  /\ UNCHANGED execVars

\* execute: the SQL service that listens accepts the request.
Call(s) ==
  /\ At(s, "planned")
  /\ \E x \in Callees(scan[s].endpoint) :
       scan' = [scan EXCEPT ![s].phase = "called", ![s].by = x]
  /\ UNCHANGED execVars

Sql(s) == LET p == scan[s].plan IN BuildSql(p.table, p.filters, p.limit)

\* handle_sql answers 200 with the batches.
Answer(s) ==
  LET x == scan[s].by IN
  /\ At(s, "called") /\ sqlTask[x] = "serve"
  /\ Sql(s).table \in providers[x] /\ ~IsGarbled(Sql(s)) /\ Resolves(Sql(s))
  /\ \E rows \in AnswersTo(Sql(s), Content[x][Sql(s).table]) :
       scan' = [scan EXCEPT ![s].phase = "answered", ![s].rows = rows]
  /\ UNCHANGED execVars

\* It finds a statement in a garbled text, whatever rows of its files that one
\* selects.
AnswerGarbled(s) ==
  LET x == scan[s].by IN
  /\ At(s, "called") /\ sqlTask[x] = "serve"
  /\ Sql(s).table \in providers[x] /\ IsGarbled(Sql(s))
  /\ \E rows \in SUBSET UNION {Content[x][t] : t \in Tables} :
       scan' = [scan EXCEPT ![s].phase = "answered", ![s].rows = rows]
  /\ UNCHANGED execVars

\* handle_sql answers 400 to a text that is no statement, to a table or column it does not know, or 500.
Refuse(s) ==
  /\ At(s, "called")
  /\ scan' = Failed(s)
  /\ UNCHANGED execVars

\* An executor's step; a request it was serving breaks off when it ends.
Run(x) ==
  /\ ExecStep(x)
  /\ scan' = [s \in Scans |-> IF At(s, "called") /\ scan[s].by = x /\ sqlTask'[x] # "serve"
                              THEN [scan[s] EXCEPT !.phase = "failed"] ELSE scan[s]]

Next ==
  \/ \E x \in Execs : Run(x)
  \/ \E s \in Scans :
       \/ PlanScan(s) \/ CallFails(s) \/ Call(s) \/ Answer(s) \/ AnswerGarbled(s) \/ Refuse(s)

Spec == Init /\ [][Next]_vars

-----------------------------------------------------------------------------
AllRows == UNION {Content[x][t] : x \in Execs, t \in Tables}

ScanRecords ==
  [phase : {"new", "planned", "called", "answered", "failed"},
   endpoint : Endpoints \cup {None}, plan : Plans \cup {None},
   by : Execs \cup {None}, rows : SUBSET AllRows]

\* The variables hold values of their types.
TypeOK ==
  /\ ExecTypeOK
  /\ scan \in [Scans -> ScanRecords]

\* An executor whose bind_port is the largest listens on a port of the
\* system's choice.
Wrapped(x) == BindPort[x] + 1 = PortCount

(***************************************************************************)
(* executor config.rs (3-5) and remote_scan.rs (158-161): both sides       *)
(* derive the SQL port from bind_port.  The rows of a dataset come from an *)
(* executor configured with the port of its endpoint and with its table,   *)
(* whoever else holds ports of the host or restarts meanwhile; only an     *)
(* executor whose bind_port + 1 wrapped may turn up elsewhere, and the     *)
(* endpoint 65535 is never answered.                                       *)
(***************************************************************************)
AnswerFromEndpoint ==
  \A s \in Scans : At(s, "answered") =>
    LET x == scan[s].by IN
    /\ BindPort[x] = scan[s].endpoint \/ Wrapped(x)
    /\ scan[s].endpoint + 1 < PortCount
    /\ scan[s].plan.table \in MountedTables(x)

(***************************************************************************)
(* table.rs (77-78): what is pushed down is "Inexact", so DataFusion       *)
(* filters again what it gets.  The answer holds every row of the table    *)
(* that satisfies the filters, although filters are converted only as far  *)
(* as they can be, and only rows of the table; with a LIMIT it has as many *)
(* rows as there are, up to the limit.  The exception is a filter with a   *)
(* literal that does not read back as itself and is not refused either:    *)
(* remote_scan.rs (252) writes a string without quotes, so 'city' may be   *)
(* read as a column, 'null' as NULL, '05' as 5 and 'a or b' as anything.   *)
(***************************************************************************)
AnswerLosesNoRow ==
  \A s \in Scans : At(s, "answered") =>
    LET p == scan[s].plan
        content == Content[scan[s].by][p.table]
        wanted  == {r \in content : Selects(p.filters, r)} IN
    \/ \E f \in p.filters : \E v \in StringsOf(f) : Misread(v)
    \/ /\ scan[s].rows \subseteq content
       /\ p.limit = None => wanted \subseteq scan[s].rows
       /\ p.limit # None => \/ scan[s].rows = content
                            \/ Cardinality(scan[s].rows) = p.limit
=============================================================================
