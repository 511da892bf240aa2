--------------------------- MODULE ExecutorProofs ---------------------------
(***************************************************************************)
(* Proofs about Executor, for any number of executors, ports and mounts.   *)
(***************************************************************************)
EXTENDS Executor, TLAPS

(***************************************************************************)
(* Where main() stands: what is registered and what is still to register   *)
(* make up the mounts, and no socket is open before all are registered.    *)
(***************************************************************************)
NamesOf(s) == {s[i] : i \in DOMAIN s}

Progress(x) ==
  /\ proc[x] = "down" => providers[x] = {}
  /\ proc[x] = "mount" => providers[x] \cup NamesOf(todo[x]) = MountedTables(x)
  /\ proc[x] \in {"scheduler", "ready"} => providers[x] = MountedTables(x)
  /\ proc[x] \in {"down", "mount"} => sqlTask[x] = "none" /\ sqlPort[x] = NoPort

ExecInv == ExecTypeOK /\ \A x \in Execs : Progress(x)

-----------------------------------------------------------------------------
(***************************************************************************)
(* Registering the first of the mounts moves its name from those to do to  *)
(* those done (the loop of build_providers).                               *)
(***************************************************************************)
LEMMA NamesHeadTail ==
  ASSUME NEW S, NEW s \in Seq(S), s # << >>
  PROVE  NamesOf(s) = {Head(s)} \cup NamesOf(Tail(s))
<1>1. Len(s) \in Nat \ {0} /\ DOMAIN s = 1..Len(s) /\ Head(s) = s[1]
  OBVIOUS
<1>2. Len(Tail(s)) = Len(s) - 1 /\ DOMAIN Tail(s) = 1..(Len(s) - 1)
  OBVIOUS
<1>3. \A i \in 1..(Len(s) - 1) : Tail(s)[i] = s[i + 1]
  OBVIOUS
<1>4. ASSUME NEW i \in DOMAIN s PROVE s[i] \in {Head(s)} \cup NamesOf(Tail(s))
  <2>1. CASE i = 1
    BY <1>1, <2>1
  <2>2. CASE i # 1
    <3>1. i - 1 \in 1..(Len(s) - 1) /\ (i - 1) + 1 = i
      BY <1>1, <2>2
    <3> QED  BY <3>1, <1>2, <1>3 DEF NamesOf
  <2> QED  BY <2>1, <2>2
<1>5. ASSUME NEW i \in DOMAIN Tail(s) PROVE Tail(s)[i] \in NamesOf(s)
  <2>1. i + 1 \in DOMAIN s /\ Tail(s)[i] = s[i + 1]
    BY <1>1, <1>2, <1>3
  <2> QED  BY <2>1 DEF NamesOf
<1>6. Head(s) \in NamesOf(s)
  <2>1. 1 \in DOMAIN s
    BY <1>1
  <2> QED  BY <1>1, <2>1 DEF NamesOf
<1> QED  BY <1>4, <1>5, <1>6 DEF NamesOf

(***************************************************************************)
(* A port that is bound, for the SQL service or for the scheduler, is one  *)
(* of the system's other than 0, whatever the bind_port, since the sum     *)
(* wraps and a bind to 0 is given another.                                 *)
(***************************************************************************)
LEMMA BindableIsPort ==
  ASSUME NEW x \in Execs
  PROVE  /\ Bindable(NextPort(BindPort[x])) \subseteq Ports \ {0}
         /\ Bindable(BindPort[x]) \subseteq Ports \ {0}
<1>1. PortCount \in Nat /\ PortCount > 1 /\ BindPort[x] \in 0..(PortCount - 1)
  BY ExecutorAssumption DEF Ports
<1>2. (BindPort[x] + 1) % PortCount \in 0..(PortCount - 1)
  BY <1>1
<1> QED  BY <1>1, <1>2 DEF Bindable, NextPort, Ports

LEMMA InitExecInv == ExecInit => ExecInv
BY DEF ExecInit, ExecInv, ExecTypeOK, Progress, NoPort

(***************************************************************************)
(* The end of a process takes its sockets and its providers with it.       *)
(***************************************************************************)
LEMMA EndsExecInv ==
  ASSUME ExecInv, NEW x \in Execs, ExecEnds(x)
  PROVE  ExecInv'
<1>1. ExecTypeOK'
  BY DEF ExecInv, ExecTypeOK, ExecEnds
<1>2. ASSUME NEW y \in Execs PROVE Progress(y)'
  <2>1. CASE y = x
    BY <2>1 DEF ExecInv, ExecTypeOK, ExecEnds, Progress
  <2>2. CASE y # x
    BY <2>2 DEF ExecInv, ExecTypeOK, ExecEnds, Progress, MountedTables
  <2> QED  BY <2>1, <2>2
<1> QED  BY <1>1, <1>2 DEF ExecInv

(***************************************************************************)
(* One step per action.                                                    *)
(***************************************************************************)
LEMMA StepExecInv ==
  ASSUME ExecInv, NEW x \in Execs, ExecStep(x)
  PROVE  ExecInv'
<1> USE DEF ExecInv
<1>1. CASE ExecStart(x)
  <2>1. ExecTypeOK'
    BY <1>1, ExecutorAssumption DEF ExecTypeOK, ExecStart
  <2>2. NamesOf(Mounts[x]) = MountedTables(x)
    BY DEF NamesOf, MountedTables
  <2>3. ASSUME NEW y \in Execs PROVE Progress(y)'
    <3>1. CASE y = x
      <4>1. todo'[x] = Mounts[x] /\ proc'[x] = "mount" /\ providers'[x] = {}
        BY <1>1 DEF ExecTypeOK, ExecStart, Progress
      <4>2. providers'[x] \cup NamesOf(todo'[x]) = MountedTables(x)
        BY <2>2, <4>1
      <4> QED  BY <1>1, <3>1, <4>1, <4>2 DEF ExecTypeOK, ExecStart, Progress, MountedTables, NamesOf
    <3>2. CASE y # x
      BY <1>1, <3>2 DEF ExecTypeOK, ExecStart, Progress, MountedTables
    <3> QED  BY <3>1, <3>2
  <2> QED  BY <2>1, <2>3
<1>2. CASE MountTable(x)
  <2>1. todo[x] \in Seq(Tables) /\ todo[x] # << >> /\ Head(todo[x]) \in Tables
        /\ Tail(todo[x]) \in Seq(Tables)
    BY <1>2 DEF ExecTypeOK, MountTable
  <2>2. ExecTypeOK'
    BY <1>2, <2>1 DEF ExecTypeOK, MountTable
  <2>3. NamesOf(todo[x]) = {Head(todo[x])} \cup NamesOf(Tail(todo[x]))
    BY <2>1, NamesHeadTail
  <2>4. ASSUME NEW y \in Execs PROVE Progress(y)'
    <3>1. CASE y = x
      BY <1>2, <2>3, <3>1 DEF ExecTypeOK, MountTable, Progress, MountedTables
    <3>2. CASE y # x
      BY <1>2, <3>2 DEF ExecTypeOK, MountTable, Progress, MountedTables
    <3> QED  BY <3>1, <3>2
  <2> QED  BY <2>2, <2>4
<1>3. CASE MountFails(x) \/ ExecStops(x)
  BY <1>3, EndsExecInv DEF MountFails, ExecStops
<1>4. CASE SpawnSql(x)
  <2>1. CASE ~Fits(BindPort[x])
    BY <1>4, <2>1, EndsExecInv DEF SpawnSql
  <2>2. CASE Fits(BindPort[x])
    <3>1. ExecTypeOK'
      BY <1>4, <2>2 DEF ExecTypeOK, SpawnSql
    <3>2. NamesOf(<< >>) = {}
      BY DEF NamesOf
    <3>3. ASSUME NEW y \in Execs PROVE Progress(y)'
      BY <1>4, <2>2, <3>2 DEF ExecTypeOK, SpawnSql, Progress, MountedTables
    <3> QED  BY <3>1, <3>3
  <2> QED  BY <2>1, <2>2
<1>5. CASE BindSql(x)
  <2>1. PICK p \in Bindable(NextPort(BindPort[x])) : sqlPort' = [sqlPort EXCEPT ![x] = p]
    BY <1>5 DEF BindSql
  <2>2. p \in Ports \ {0}
    BY <2>1, BindableIsPort
  <2>3. ExecTypeOK'
    BY <1>5, <2>1, <2>2 DEF ExecTypeOK, BindSql
  <2>4. ASSUME NEW y \in Execs PROVE Progress(y)'
    BY <1>5, <2>1 DEF ExecTypeOK, BindSql, Progress, MountedTables
  <2> QED  BY <2>3, <2>4
<1>6. CASE BindSqlFails(x)
  BY <1>6 DEF ExecTypeOK, BindSqlFails, Progress, MountedTables
<1>7. CASE BindScheduler(x)
  <2>1. PICK p \in Bindable(BindPort[x]) : scheduler' = [scheduler EXCEPT ![x] = p]
    BY <1>7 DEF BindScheduler
  <2>2. ExecTypeOK'
    BY <1>7, <2>1, BindableIsPort DEF ExecTypeOK, BindScheduler
  <2>3. ASSUME NEW y \in Execs PROVE Progress(y)'
    BY <1>7 DEF ExecTypeOK, BindScheduler, Progress, MountedTables
  <2> QED  BY <2>2, <2>3
<1> QED  BY <1>1, <1>2, <1>3, <1>4, <1>5, <1>6, <1>7 DEF ExecStep

(***************************************************************************)
(* The types and the progress of main() are invariant.                     *)
(***************************************************************************)
THEOREM ExecSafety == ExecSpec => []ExecInv
<1>1. ASSUME ExecInv, [ExecNext]_execVars PROVE ExecInv'
  <2>1. CASE ExecNext
    BY <1>1, <2>1, StepExecInv DEF ExecNext
  <2>2. CASE UNCHANGED execVars
    BY <1>1, <2>2 DEF ExecInv, ExecTypeOK, Progress, MountedTables, execVars
  <2> QED  BY <1>1, <2>1, <2>2
<1> QED  BY <1>1, InitExecInv, PTL DEF ExecSpec

(***************************************************************************)
(* An executor whose SQL service listens has every dataset of its          *)
(* configuration, however often the processes fail, stop and start again   *)
(* (build_providers returns at the first error, before the service is      *)
(* spawned).                                                               *)
(***************************************************************************)
THEOREM ListeningExecutorIsComplete == ExecSpec => []ListeningServesAllMounts
<1>1. ExecInv => ListeningServesAllMounts
  BY DEF ExecInv, ExecTypeOK, Progress, ListeningServesAllMounts
<1> QED  BY <1>1, ExecSafety, PTL
=============================================================================
