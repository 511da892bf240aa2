----------------------------- MODULE IamService -----------------------------
(***************************************************************************)
(* elan-central's IAM: the SQLite tables behind IamStore, the in-process   *)
(* SnapshotIamEngine, and the gRPC handlers of IamSvc that write the       *)
(* tables and then reload the engine.  Every SQL statement is one step,    *)
(* because the handlers await each of them without a transaction, and      *)
(* handlers of different requests interleave between the statements.       *)
(*                                                                         *)
(* Subjects are identified by their name: iam_subjects.name is UNIQUE and  *)
(* no code deletes a subject, so name and generated id determine each      *)
(* other.  CheckAccess and ListPolicies only read, in one step, and are    *)
(* the observations the properties are about.                              *)
(***************************************************************************)
EXTENDS IamPolicy, FiniteSets

CONSTANTS
  Handlers,    \* concurrently served write requests
  Names,       \* subject names; "*" is the one migration 0005 inserts
  PolicyIds,   \* UUIDs create_policy can draw, and the seed policy's
  SeedId,      \* the policy of migration 0005
  WireRules,   \* the rule part of a PolicyProto
  ClientRequests,  \* the requests clients make, a subset of Requests
  Faults       \* whether SQL errors and cancelled requests happen

SubjectTypes == {"user", "group"}               \* CHECK(subject_type IN ...)
WireTypes    == SubjectTypes \cup {"USER"}      \* the proto field is a string

SeedRule == [resource_pattern |-> <<Wild>>, action |-> "SELECT",
             effect |-> "Allow", row_filter |-> None, priority |-> 0]
SeedRow  == [id |-> SeedId, subject_name |-> Wild, rule |-> SeedRule]

VARIABLES
  subjects,   \* iam_subjects: name -> subject_type, None where there is no row
  members,    \* iam_group_members: pairs <<group, user>>
  policies,   \* iam_policies: rows [id, subject_name, rule]
  engine,     \* the Vec<Policy> inside SnapshotIamEngine
  pc,         \* the statement each handler runs next
  req,        \* the request it serves
  todo,       \* the <<type, name>> it still has to get or create
  own,        \* the id of the policy it wrote or deleted
  snap,       \* the result of its list_policies, before reload
  versions    \* history: every content iam_policies has had

db   == <<subjects, members, policies, versions>>
vars == <<subjects, members, policies, engine, pc, req, todo, own, snap, versions>>

(***************************************************************************)
(* The conversions on the way in: create_policy of iam_svc.rs reads effect *)
(* 1 as Deny and any other number as Allow, and an empty row filter as     *)
(* none.                                                                   *)
(***************************************************************************)
StoredRule(w) ==
  [resource_pattern |-> w.resource_pattern, action |-> w.action,
   effect     |-> IF w.effect = 1 THEN "Deny" ELSE "Allow",
   row_filter |-> IF w.row_filter = "" THEN None ELSE w.row_filter,
   priority   |-> w.priority]

Rules == {SeedRule} \cup {StoredRule(w) : w \in WireRules}
Rows  == [id : PolicyIds, subject_name : Names, rule : Rules]

Requests ==
       [op : {"create_policy"},    type : WireTypes, name : Names, rule : WireRules]
  \cup [op : {"delete_policy"},    id : PolicyIds]
  \cup [op : {"create_subject"},   type : WireTypes, name : Names]
  \cup [op : {"add_group_member"}, group : Names, user : Names]

ASSUME IamAssumption ==
  /\ Wild \in Names /\ None \notin SubjectTypes
  /\ SeedId \in PolicyIds /\ None \notin PolicyIds
  /\ ClientRequests \subseteq Requests
  /\ Faults \in BOOLEAN

\* The get_or_create_subject calls a request starts with.
SubjectsOf(q) ==
  CASE q.op \in {"create_policy", "create_subject"} -> << <<q.type, q.name>> >>
    [] q.op = "add_group_member" -> << <<"group", q.group>>, <<"user", q.user>> >>
    [] OTHER -> << >>

AfterSubjects(q) ==
  CASE q.op = "create_policy"    -> "insert"
    [] q.op = "add_group_member" -> "member"
    [] OTHER                     -> "idle"

\* Uuid::new_v4 never repeats an id.
Minted == {p.id : p \in UNION versions}

\* A row of the JOIN in list_policies, as an engine policy.
Listed(p) ==
  [id |-> p.id, subject_name |-> p.subject_name,
   subject_type |-> IF subjects[p.subject_name] = "group" THEN "group" ELSE "user",
   rule |-> p.rule]

(***************************************************************************)
(* The results list_policies(None) may return: all rows, highest priority  *)
(* first, rows of one priority in any order SQLite likes.                  *)
(***************************************************************************)
Listings ==
  LET S == {Listed(p) : p \in policies} IN
  {s \in [1..Cardinality(S) -> S] :
     /\ \A p \in S : \E i \in DOMAIN s : s[i] = p
     /\ \A i, j \in DOMAIN s : i < j => s[i].rule.priority >= s[j].rule.priority}

-----------------------------------------------------------------------------
Init ==
  /\ subjects = [n \in Names |-> IF n = Wild THEN "user" ELSE None]
  /\ members  = {}
  /\ policies = {SeedRow}
  /\ engine \in Listings
  /\ pc   = [h \in Handlers |-> "idle"]
  /\ req  = [h \in Handlers |-> None]
  /\ todo = [h \in Handlers |-> << >>]
  /\ own  = [h \in Handlers |-> None]
  /\ snap = [h \in Handlers |-> << >>]
  /\ versions = {{SeedRow}}

Goto(h, l) == pc' = [pc EXCEPT ![h] = l]

\* The handler returns, with a reply or with an error.
Return(h) ==
  /\ Goto(h, "idle")
  /\ req'  = [req  EXCEPT ![h] = None]
  /\ todo' = [todo EXCEPT ![h] = << >>]
  /\ own'  = [own  EXCEPT ![h] = None]
  /\ snap' = [snap EXCEPT ![h] = << >>]

\* get_or_create_subject returned: the next one, or what follows them all.
NextSubject(h) ==
  LET rest == Tail(todo[h]) IN
  IF rest = << >> /\ AfterSubjects(req[h]) = "idle" THEN Return(h)
  ELSE /\ Goto(h, IF rest = << >> THEN AfterSubjects(req[h]) ELSE "lookup")
       /\ todo' = [todo EXCEPT ![h] = rest]
       /\ UNCHANGED <<req, own, snap>>

\* A write to iam_policies, after which the handler lists them.
Write(h, id, rows) ==
  /\ policies' = rows
  /\ versions' = versions \cup {rows}
  /\ own' = [own EXCEPT ![h] = id]
  /\ Goto(h, "list")
  /\ UNCHANGED <<subjects, members, engine, req, todo, snap>>

Begin(h) ==
  /\ pc[h] = "idle"
  /\ \E q \in ClientRequests :
       /\ q.op = "delete_policy" => q.id \in Minted   \* nobody guesses a UUID
       /\ req'  = [req  EXCEPT ![h] = q]
       /\ todo' = [todo EXCEPT ![h] = SubjectsOf(q)]
       /\ Goto(h, IF q.op = "delete_policy" THEN "delete" ELSE "lookup")
  /\ UNCHANGED <<db, engine, own, snap>>

\* A mutant: the subject is taken as present, without the SELECT.
GetSubjectAssumed(h) ==
  /\ pc[h] = "lookup"
  /\ NextSubject(h)
  /\ UNCHANGED <<db, engine>>

\* SELECT id FROM iam_subjects WHERE name = ?: the type plays no part.
GetSubject(h) ==
  /\ pc[h] = "lookup"
  /\ IF subjects[Head(todo[h])[2]] # None THEN NextSubject(h)
     ELSE Goto(h, "create") /\ UNCHANGED <<req, todo, own, snap>>
  /\ UNCHANGED <<db, engine>>

\* A mutant: INSERT OR REPLACE, which overwrites the row of a lost race.
CreateSubjectReplace(h) ==
  LET type == Head(todo[h])[1]
      name == Head(todo[h])[2] IN
  /\ pc[h] = "create"
  /\ IF type \in SubjectTypes
     THEN subjects' = [subjects EXCEPT ![name] = type] /\ NextSubject(h)
     ELSE subjects' = subjects /\ Return(h)
  /\ UNCHANGED <<members, policies, versions, engine>>

\* A mutant: no CHECK on the type.
CreateSubjectUnchecked(h) ==
  LET type == Head(todo[h])[1]
      name == Head(todo[h])[2] IN
  /\ pc[h] = "create"
  /\ IF subjects[name] = None
     THEN subjects' = [subjects EXCEPT ![name] = type] /\ NextSubject(h)
     ELSE subjects' = subjects /\ Return(h)
  /\ UNCHANGED <<members, policies, versions, engine>>

\* The INSERT fails on a name another handler has inserted since the SELECT
\* (UNIQUE) and on a type the CHECK does not know.
CreateSubject(h) ==
  LET type == Head(todo[h])[1]
      name == Head(todo[h])[2] IN
  /\ pc[h] = "create"
  /\ IF subjects[name] = None /\ type \in SubjectTypes
     THEN subjects' = [subjects EXCEPT ![name] = type] /\ NextSubject(h)
     ELSE subjects' = subjects /\ Return(h)
  /\ UNCHANGED <<members, policies, versions, engine>>

InsertPolicy(h) ==
  /\ pc[h] = "insert"
  /\ \E id \in PolicyIds \ Minted :
       Write(h, id, policies \cup {[id |-> id, subject_name |-> req[h].name,
                                    rule |-> StoredRule(req[h].rule)]})

\* A mutant: the policies are listed before the row is deleted.
DeletePolicyAfterList(h) ==
  /\ pc[h] = "delete"
  /\ policies' = {p \in policies : p.id # req[h].id}
  /\ versions' = versions \cup {policies'}
  /\ own' = [own EXCEPT ![h] = req[h].id]
  /\ \E s \in Listings : snap' = [snap EXCEPT ![h] = s]
  /\ Goto(h, "swap")
  /\ UNCHANGED <<subjects, members, engine, req, todo>>

DeletePolicy(h) ==
  /\ pc[h] = "delete"
  /\ Write(h, req[h].id, {p \in policies : p.id # req[h].id})

\* INSERT OR IGNORE INTO iam_group_members; no reload follows.
InsertMember(h) ==
  /\ pc[h] = "member"
  /\ members' = members \cup {<<req[h].group, req[h].user>>}
  /\ Return(h)
  /\ UNCHANGED <<subjects, policies, versions, engine>>

\* reload_engine, up to the await of list_policies.
ListForReload(h) ==
  /\ pc[h] = "list"
  /\ \E s \in Listings : snap' = [snap EXCEPT ![h] = s]
  /\ Goto(h, "swap")
  /\ UNCHANGED <<db, engine, req, todo, own>>

\* A mutant: the listed policies are added to the ones the engine has.
ReloadExtend(h) ==
  /\ pc[h] = "swap"
  /\ engine' = engine \o SelectSeq(snap[h], LAMBDA p : \A i \in DOMAIN engine : engine[i] # p)
  /\ Return(h)
  /\ UNCHANGED db

\* SnapshotIamEngine::reload: the whole vector, under the write lock.
Reload(h) ==
  /\ pc[h] = "swap"
  /\ engine' = snap[h]
  /\ Return(h)
  /\ UNCHANGED db

(***************************************************************************)
(* A statement fails, or the client goes away and the handler is dropped   *)
(* at an await.  Between the result of list_policies and reload there is   *)
(* no await, so a handler at "swap" can be overtaken but not dropped.      *)
(***************************************************************************)
Fail(h) ==
  /\ Faults
  /\ pc[h] \in {"lookup", "create", "insert", "delete", "member", "list"}
  /\ Return(h)
  /\ UNCHANGED <<db, engine>>

\* elan-central stops and starts again: main() loads the engine from the tables.
Restart ==
  /\ engine' \in Listings
  /\ pc'   = [h \in Handlers |-> "idle"]
  /\ req'  = [h \in Handlers |-> None]
  /\ todo' = [h \in Handlers |-> << >>]
  /\ own'  = [h \in Handlers |-> None]
  /\ snap' = [h \in Handlers |-> << >>]
  /\ UNCHANGED db

Handle(h) ==
  \/ Begin(h) \/ GetSubject(h) \/ CreateSubject(h) \/ InsertPolicy(h)
  \/ DeletePolicy(h) \/ InsertMember(h) \/ ListForReload(h) \/ Reload(h) \/ Fail(h)

Next == (\E h \in Handlers : Handle(h)) \/ Restart

Spec == Init /\ [][Next]_vars

-----------------------------------------------------------------------------
EnginePolicies ==
  [id : PolicyIds, subject_name : Names, subject_type : SubjectTypes, rule : Rules]

Labels == {"idle", "lookup", "create", "insert", "delete", "member", "list", "swap"}

\* The variables hold values of the Rust and SQL types they model.
TypeOK ==
  /\ subjects \in [Names -> SubjectTypes \cup {None}]
  /\ members \subseteq Names \X Names
  /\ policies \subseteq Rows
  /\ engine \in Seq(EnginePolicies)
  /\ pc   \in [Handlers -> Labels]
  /\ req  \in [Handlers -> Requests \cup {None}]
  /\ todo \in [Handlers -> Seq(WireTypes \X Names)]
  /\ own  \in [Handlers -> PolicyIds \cup {None}]
  /\ snap \in [Handlers -> Seq(EnginePolicies)]
  /\ versions \subseteq SUBSET Rows

Content(list) == {list[i] : i \in DOMAIN list}
Ids(list)     == {p.id : p \in Content(list)}
RowIds        == {p.id : p \in policies}

\* The list holds exactly the policies of one content of the table.
ListsVersion(list) == \E v \in versions : Content(list) = {Listed(p) : p \in v}

(***************************************************************************)
(* When the handler of a policy write reloads the engine, its own write is *)
(* in force there: the created policy unless somebody deleted it since,    *)
(* and never the deleted one, although other handlers write in between.    *)
(***************************************************************************)
WriteTakesEffect ==
  [][\A h \in Handlers : Reload(h) =>
       IF req[h].op = "delete_policy" THEN own[h] \notin Ids(engine')
       ELSE own[h] \in RowIds => own[h] \in Ids(engine')]_vars

(***************************************************************************)
(* A subject never changes its type, even when two get_or_create_subject   *)
(* calls race for one name: the policies attached to a user never turn     *)
(* into policies of a group.                                               *)
(***************************************************************************)
SubjectTypeStable ==
  [][\A n \in Names : subjects[n] # None => subjects'[n] = subjects[n]]_vars

(***************************************************************************)
(* The service implements SnapshotView: the table is the source, with the  *)
(* subject types of the JOIN, and the engine the view.  A policy write     *)
(* commits and leaves the engine alone, a reload or a restart installs a   *)
(* whole committed version, and no other statement of a handler, creating  *)
(* a subject included, changes what a version means.                       *)
(* CheckAccess never decides by a mixture of versions; that the version is *)
(* the present one is EngineMatchesDatabaseWhenIdle, which does not hold.  *)
(***************************************************************************)
View == INSTANCE SnapshotView WITH
  Absent  <- None,
  source  <- {Listed(p) : p \in policies},
  view    <- Content(engine),
  history <- {{Listed(p) : p \in v} : v \in versions}

ImplementsSnapshotView == View!Spec

(***************************************************************************)
(* iam_svc.rs (4-6): the handlers reload "so the in-process engine stays   *)
(* consistent with the database".  Between requests, the engine holds the  *)
(* policies of the table.                                                  *)
(***************************************************************************)
EngineMatchesDatabaseWhenIdle ==
  (\A h \in Handlers : pc[h] = "idle") => Content(engine) = {Listed(p) : p \in policies}

-----------------------------------------------------------------------------
\* Every version of the table refers to existing subjects, under unique ids.
VersionsIntact ==
  /\ policies \in versions /\ IsFiniteSet(policies)
  /\ \A p \in UNION versions : subjects[p.subject_name] # None
  /\ \A p, q \in UNION versions : p.id = q.id => p = q

\* The engine has the policies of one content of the table, and no mixture.
EngineIsCommittedState == ListsVersion(engine)

\* What a handler has established when it reaches a statement.
HandlerReady(h) ==
  /\ pc[h] # "idle" => req[h] \in Requests
  /\ pc[h] \in {"lookup", "create"} => todo[h] # << >> /\ req[h].op # "delete_policy"
  /\ pc[h] = "delete" => req[h].op = "delete_policy" /\ req[h].id \in Minted
  /\ pc[h] = "insert" => req[h].op = "create_policy" /\ subjects[req[h].name] # None
  /\ pc[h] = "member" => req[h].op = "add_group_member"

\* The subject create_policy still has to look up is the one it names.
TodoNamesSubject(h) ==
  pc[h] \in {"lookup", "create"} /\ req[h].op = "create_policy" =>
    todo[h] = << <<req[h].type, req[h].name>> >>

\* What a handler knows of its own write until it reloads.
WriteKnown(h) ==
  /\ pc[h] \in {"list", "swap"} =>
       /\ req[h].op \in {"create_policy", "delete_policy"}
       /\ own[h] \in Minted
       /\ req[h].op = "delete_policy" => own[h] \notin RowIds
  /\ pc[h] = "swap" =>
       /\ ListsVersion(snap[h])
       /\ IF req[h].op = "delete_policy" THEN own[h] \notin Ids(snap[h])
          ELSE own[h] \in RowIds => own[h] \in Ids(snap[h])

(***************************************************************************)
(* The inductive invariant: the versions of the table are intact, and each *)
(* handler has what its next statement needs, whatever the others do.      *)
(***************************************************************************)
IamInvariant ==
  /\ VersionsIntact
  /\ EngineIsCommittedState
  /\ \A h \in Handlers : HandlerReady(h) /\ TodoNamesSubject(h) /\ WriteKnown(h)
=============================================================================
