------------------------------ MODULE Executor ------------------------------
(***************************************************************************)
(* The elan-executor processes of one host: main() opens every configured  *)
(* dataset, spawns a task that binds the HTTP SQL service to bind_port + 1 *)
(* and binds the Ballista scheduler to bind_port itself.  The processes    *)
(* compete for the ports of the host, and each may end at any time.        *)
(***************************************************************************)
EXTENDS Integers, Sequences

CONSTANTS
  Execs,      \* executor processes
  Tables,     \* table names
  PortCount,  \* 2^16 for a u16
  BindPort,   \* cfg.bind_port of each executor
  Mounts,     \* cfg.datasets of each executor: a sequence of table names
  Checked     \* whether u16 overflow panics (a debug build) or wraps

Ports  == 0..(PortCount - 1)
NoPort == -1    \* of a socket that is not open

ASSUME ExecutorAssumption ==
  /\ PortCount \in Nat /\ PortCount > 1
  /\ BindPort \in [Execs -> Ports]
  /\ Mounts \in [Execs -> Seq(Tables)] /\ Checked \in BOOLEAN

VARIABLES
  proc,       \* how far main() has got
  todo,       \* the mounts build_providers has still to register
  providers,  \* the tables registered so far
  sqlTask,    \* the spawned task of the SQL service
  sqlPort,    \* the port the SQL service listens on
  scheduler   \* the port the Ballista scheduler listens on

execVars == <<proc, todo, providers, sqlTask, sqlPort, scheduler>>

Taken == {p \in Ports : \E x \in Execs : p \in {sqlPort[x], scheduler[x]}}

\* A mutant: the sum as a mathematical integer.
NextPortUnbounded(p) == p + 1

\* p + 1 on a u16, where it wraps.
NextPort(p) == (p + 1) % PortCount

\* The sum does not panic.
Fits(p) == ~Checked \/ p + 1 < PortCount

\* What TcpListener::bind may be given: the port if it is free, and for port 0
\* any free port of the system's choice.
Bindable(p) == (IF p = 0 THEN Ports \ {0} ELSE {p}) \ Taken

-----------------------------------------------------------------------------
ExecInit ==
  /\ proc = [x \in Execs |-> "down"]
  /\ todo = [x \in Execs |-> << >>]
  /\ providers = [x \in Execs |-> {}]
  /\ sqlTask = [x \in Execs |-> "none"]
  /\ sqlPort = [x \in Execs |-> NoPort] /\ scheduler = [x \in Execs |-> NoPort]

ExecStart(x) ==
  /\ proc[x] = "down"
  /\ proc' = [proc EXCEPT ![x] = "mount"]
  /\ todo' = [todo EXCEPT ![x] = Mounts[x]]
  /\ UNCHANGED <<providers, sqlTask, sqlPort, scheduler>>

\* register_parquet or register_csv; a name is registered once.
MountTable(x) ==
  /\ proc[x] = "mount" /\ todo[x] # << >>
  /\ Head(todo[x]) \notin providers[x]
  /\ providers' = [providers EXCEPT ![x] = @ \cup {Head(todo[x])}]
  /\ todo' = [todo EXCEPT ![x] = Tail(@)]
  /\ UNCHANGED <<proc, sqlTask, sqlPort, scheduler>>

\* The process ends and the system closes its sockets.
ExecEnds(x) ==
  /\ proc' = [proc EXCEPT ![x] = "down"]
  /\ todo' = [todo EXCEPT ![x] = << >>]
  /\ providers' = [providers EXCEPT ![x] = {}]
  /\ sqlTask' = [sqlTask EXCEPT ![x] = "none"]
  /\ sqlPort' = [sqlPort EXCEPT ![x] = NoPort]
  /\ scheduler' = [scheduler EXCEPT ![x] = NoPort]

\* A mutant: a dataset that cannot be opened is left out.
MountFailsSkipped(x) ==
  /\ proc[x] = "mount" /\ todo[x] # << >>
  /\ todo' = [todo EXCEPT ![x] = Tail(@)]
  /\ UNCHANGED <<proc, providers, sqlTask, sqlPort, scheduler>>

\* The file cannot be read, its schema not inferred, or the name is taken:
\* main() returns the error.
MountFails(x) ==
  /\ proc[x] = "mount" /\ todo[x] # << >>
  /\ ExecEnds(x)

\* "dataset providers ready"; the sum panics, or the SQL task is spawned.
SpawnSql(x) ==
  /\ proc[x] = "mount" /\ todo[x] = << >>
  /\ IF Fits(BindPort[x])
     THEN /\ proc' = [proc EXCEPT ![x] = "scheduler"]
          /\ sqlTask' = [sqlTask EXCEPT ![x] = "bind"]
          /\ UNCHANGED <<todo, providers, sqlPort, scheduler>>
     ELSE ExecEnds(x)

\* "SQL HTTP service listening".
BindSql(x) ==
  /\ sqlTask[x] = "bind"
  /\ \E p \in Bindable(NextPort(BindPort[x])) : sqlPort' = [sqlPort EXCEPT ![x] = p]
  /\ sqlTask' = [sqlTask EXCEPT ![x] = "serve"]
  /\ UNCHANGED <<proc, todo, providers, scheduler>>

\* expect("sql service bind") panics in the task, and the process goes on.
BindSqlFails(x) ==
  /\ sqlTask[x] = "bind"
  /\ sqlTask' = [sqlTask EXCEPT ![x] = "panicked"]
  /\ UNCHANGED <<proc, todo, providers, sqlPort, scheduler>>

\* start_scheduler_on_port.
BindScheduler(x) ==
  /\ proc[x] = "scheduler"
  /\ \E p \in Bindable(BindPort[x]) : scheduler' = [scheduler EXCEPT ![x] = p]
  /\ proc' = [proc EXCEPT ![x] = "ready"]
  /\ UNCHANGED <<todo, providers, sqlTask, sqlPort>>

\* The bind fails and main() returns the error, or the process is killed.
ExecStops(x) ==
  /\ proc[x] # "down"
  /\ ExecEnds(x)

ExecStep(x) ==
  \/ ExecStart(x) \/ MountTable(x) \/ MountFails(x) \/ SpawnSql(x) \/ BindSql(x)
  \/ BindSqlFails(x) \/ BindScheduler(x) \/ ExecStops(x)

ExecNext == \E x \in Execs : ExecStep(x)

ExecSpec == ExecInit /\ [][ExecNext]_execVars

-----------------------------------------------------------------------------
\* The variables hold values of their types.
ExecTypeOK ==
  /\ proc \in [Execs -> {"down", "mount", "scheduler", "ready"}]
  /\ todo \in [Execs -> Seq(Tables)]
  /\ providers \in [Execs -> SUBSET Tables]
  /\ sqlTask \in [Execs -> {"none", "bind", "serve", "panicked"}]
  /\ sqlPort \in [Execs -> (Ports \ {0}) \cup {NoPort}]
  /\ scheduler \in [Execs -> (Ports \ {0}) \cup {NoPort}]

MountedTables(x) == {Mounts[x][i] : i \in DOMAIN Mounts[x]}

(***************************************************************************)
(* context.rs (17-18): a SQL service that listens has every dataset its    *)
(* executor is configured with, since build_providers is all or nothing    *)
(* and comes before the bind, in every start.                              *)
(***************************************************************************)
ListeningServesAllMounts ==
  \A x \in Execs : sqlPort[x] # NoPort => providers[x] = MountedTables(x)
=============================================================================
