-------------------------- MODULE IamServiceProofs --------------------------
(***************************************************************************)
(* The safety of elan-central's IAM handlers, for any number of concurrent *)
(* requests, names, rules and policies.                                    *)
(***************************************************************************)
EXTENDS IamService, FiniteSetTheorems, TLAPS

Inv == TypeOK /\ IamInvariant

\* The fields a request has, by its operation.
LEMMA RequestFields ==
  ASSUME NEW q \in Requests
  PROVE  /\ q.op \in {"create_policy", "delete_policy", "create_subject", "add_group_member"}
         /\ q.op \in {"create_policy", "create_subject"} => q.type \in WireTypes /\ q.name \in Names
         /\ q.op = "create_policy" => q.rule \in WireRules
         /\ q.op = "delete_policy" => q.id \in PolicyIds
         /\ q.op = "add_group_member" => q.group \in Names /\ q.user \in Names
BY DEF Requests

LEMMA SubjectsOfType ==
  ASSUME NEW q \in Requests
  PROVE  /\ SubjectsOf(q) \in Seq(WireTypes \X Names)
         /\ q.op # "delete_policy" => SubjectsOf(q) # << >>
         /\ q.op = "create_policy" => SubjectsOf(q) = << <<q.type, q.name>> >>
<1>1. CASE q.op \in {"create_policy", "create_subject"}
  <2>1. SubjectsOf(q) = << <<q.type, q.name>> >>
    BY <1>1 DEF SubjectsOf
  <2>2. <<q.type, q.name>> \in WireTypes \X Names
    BY <1>1, RequestFields
  <2>3. QED
    BY <2>1, <2>2
<1>2. CASE q.op = "add_group_member"
  <2>1. SubjectsOf(q) = << <<"group", q.group>>, <<"user", q.user>> >>
    BY <1>2 DEF SubjectsOf
  <2>2. /\ <<"group", q.group>> \in WireTypes \X Names
        /\ <<"user", q.user>> \in WireTypes \X Names
    BY <1>2, RequestFields DEF WireTypes, SubjectTypes
  <2>3. QED
    BY <2>1, <2>2, <1>2
<1>3. CASE q.op = "delete_policy"
  <2>1. SubjectsOf(q) = << >>
    BY <1>3 DEF SubjectsOf
  <2>2. QED
    BY <2>1, <1>3
<1>4. QED
  BY <1>1, <1>2, <1>3, RequestFields

\* list_policies turns rows into engine policies.
LEMMA ListedType ==
  ASSUME NEW p \in Rows
  PROVE  Listed(p) \in EnginePolicies /\ Listed(p).id = p.id
BY DEF Listed, EnginePolicies, Rows, SubjectTypes

(***************************************************************************)
(* Whatever order SQLite breaks ties in, the result of list_policies is a  *)
(* list of exactly the policies of the table.                              *)
(***************************************************************************)
LEMMA ListingsExact ==
  ASSUME policies \subseteq Rows, IsFiniteSet(policies), NEW s \in Listings
  PROVE  /\ s \in Seq(EnginePolicies)
         /\ Content(s) = {Listed(p) : p \in policies}
<1> DEFINE S == {Listed(p) : p \in policies}
           f == [p \in policies |-> Listed(p)]
<1>1. f \in Surjection(policies, S)
  BY DEF Surjection
<1>2. IsFiniteSet(S)
  BY <1>1, FS_Surjection
<1>3. Cardinality(S) \in Nat
  BY <1>2, FS_CardinalityType
<1>4. S \subseteq EnginePolicies
  BY ListedType
<1>5. s \in [1..Cardinality(S) -> S] /\ \A p \in S : \E i \in DOMAIN s : s[i] = p
  BY DEF Listings
<1> HIDE DEF S
<1>6. s \in Seq(EnginePolicies)
  BY <1>3, <1>4, <1>5
<1>7. Content(s) = S
  BY <1>5 DEF Content
<1>8. QED
  BY <1>6, <1>7 DEF S

\* The ids of a listed version are the ids of its rows.
LEMMA ContentIds ==
  ASSUME NEW s, NEW v, v \subseteq Rows, Content(s) = {Listed(p) : p \in v}
  PROVE  Ids(s) = {p.id : p \in v}
<1>1. \A p \in v : Listed(p).id = p.id
  BY ListedType
<1>2. QED
  BY <1>1 DEF Ids

-----------------------------------------------------------------------------
\* Which steps write the tables that policies are listed from.
LEMMA TableSteps ==
  ASSUME [Next]_vars
  PROVE  \/ UNCHANGED <<subjects, policies, versions>>
         \/ \E h \in Handlers : CreateSubject(h)
         \/ \E h \in Handlers : InsertPolicy(h)
         \/ \E h \in Handlers : DeletePolicy(h)
BY DEF Next, Handle, Begin, GetSubject, InsertMember, ListForReload, Reload, Fail,
       Restart, db, vars

(***************************************************************************)
(* What every step leaves alone: a content the table has had stays in the  *)
(* history, a subject keeps its type, an id that was ever used does not    *)
(* come back once its row is gone.                                         *)
(***************************************************************************)
Stable ==
  /\ versions \subseteq versions'
  /\ \A n \in Names : subjects[n] # None => subjects'[n] = subjects[n]
  /\ \A id \in Minted : id \in RowIds' => id \in RowIds

LEMMA NextStable ==
  ASSUME Inv, [Next]_vars
  PROVE  Stable
<1>1. CASE UNCHANGED <<subjects, policies, versions>>
  BY <1>1 DEF Stable, RowIds
<1>2. ASSUME NEW h \in Handlers, CreateSubject(h)
      PROVE  Stable
  <2>1. UNCHANGED <<policies, versions>>
    BY <1>2 DEF CreateSubject
  <2>2. \A n \in Names : subjects[n] # None => subjects'[n] = subjects[n]
    BY <1>2 DEF CreateSubject, Inv, TypeOK
  <2>3. QED
    BY <2>1, <2>2 DEF Stable, RowIds
<1>3. ASSUME NEW h \in Handlers, InsertPolicy(h)
      PROVE  Stable
  <2>1. PICK id \in PolicyIds \ Minted :
          Write(h, id, policies \cup {[id |-> id, subject_name |-> req[h].name,
                                       rule |-> StoredRule(req[h].rule)]})
    BY <1>3 DEF InsertPolicy
  <2>2. versions \subseteq versions' /\ subjects' = subjects
    BY <2>1 DEF Write
  <2>3. policies' = policies \cup {[id |-> id, subject_name |-> req[h].name,
                                    rule |-> StoredRule(req[h].rule)]}
    BY <2>1 DEF Write
  <2>4. \A i \in RowIds' : i \in RowIds \/ i = id
    BY <2>3 DEF RowIds
  <2>5. QED
    BY <2>2, <2>4 DEF Stable
<1>4. ASSUME NEW h \in Handlers, DeletePolicy(h)
      PROVE  Stable
  BY <1>4 DEF DeletePolicy, Write, Stable, RowIds
<1>5. QED
  BY <1>1, <1>2, <1>3, <1>4, TableSteps

\* The content a write leaves in the table.
LEMMA WriteIntact ==
  ASSUME Inv, NEW rows, rows \subseteq Rows, IsFiniteSet(rows),
         policies' = rows, versions' = versions \cup {rows}, subjects' = subjects,
         \A p \in rows : subjects[p.subject_name] # None,
         \A p \in rows, q \in UNION versions : p.id = q.id => p = q,
         \A p, q \in rows : p.id = q.id => p = q
  PROVE  VersionsIntact'
<1>1. \A p \in UNION versions' : p \in rows \/ p \in UNION versions
  OBVIOUS
<1>2. \A p \in UNION versions' : subjects'[p.subject_name] # None
  BY <1>1 DEF Inv, IamInvariant, VersionsIntact
<1>3. \A p, q \in UNION versions' : p.id = q.id => p = q
  BY <1>1 DEF Inv, IamInvariant, VersionsIntact
<1>4. QED
  BY <1>2, <1>3 DEF VersionsIntact

LEMMA NextIntact ==
  ASSUME Inv, [Next]_vars
  PROVE  VersionsIntact'
<1>0. /\ VersionsIntact /\ versions \subseteq SUBSET Rows
      /\ subjects \in [Names -> SubjectTypes \cup {None}]
      /\ policies \subseteq UNION versions /\ policies \subseteq Rows
  BY DEF Inv, IamInvariant, TypeOK, VersionsIntact
<1>1. CASE UNCHANGED <<subjects, policies, versions>>
  BY <1>0, <1>1 DEF VersionsIntact
<1>2. ASSUME NEW h \in Handlers, CreateSubject(h)
      PROVE  VersionsIntact'
  <2>1. UNCHANGED <<policies, versions>>
    BY <1>2 DEF CreateSubject
  <2>2. \A p \in UNION versions : p.subject_name \in Names
    BY <1>0 DEF Rows
  <2>3. \A p \in UNION versions : subjects'[p.subject_name] # None
    BY <2>2, <1>0, NextStable DEF Stable, VersionsIntact
  <2>4. QED
    BY <2>1, <2>3, <1>0 DEF VersionsIntact
<1>3. ASSUME NEW h \in Handlers, InsertPolicy(h)
      PROVE  VersionsIntact'
  <2> DEFINE row(id) == [id |-> id, subject_name |-> req[h].name,
                         rule |-> StoredRule(req[h].rule)]
  <2>1. PICK id \in PolicyIds \ Minted : Write(h, id, policies \cup {row(id)})
    BY <1>3 DEF InsertPolicy
  <2>2. req[h] \in Requests /\ req[h].op = "create_policy" /\ subjects[req[h].name] # None
    BY <1>3 DEF InsertPolicy, Inv, IamInvariant, HandlerReady
  <2>3. row(id) \in Rows
    BY <2>2, RequestFields DEF Rows, Rules
  <2>4. \A q \in UNION versions : q.id # id
    BY DEF Minted
  <2>5. IsFiniteSet(policies \cup {row(id)})
    BY <1>0, FS_AddElement DEF VersionsIntact
  <2> DEFINE rows == policies \cup {row(id)}
  <2>6. /\ \A p \in rows : subjects[p.subject_name] # None
        /\ \A p \in rows, q \in UNION versions : p.id = q.id => p = q
        /\ \A p, q \in rows : p.id = q.id => p = q
    BY <1>0, <2>2, <2>4 DEF VersionsIntact
  <2>7. policies' = rows /\ versions' = versions \cup {rows} /\ subjects' = subjects
    BY <2>1 DEF Write
  <2>8. rows \subseteq Rows /\ IsFiniteSet(rows)
    BY <2>3, <2>5, <1>0
  <2> HIDE DEF rows
  <2>9. QED
    BY <2>6, <2>7, <2>8, WriteIntact
<1>4. ASSUME NEW h \in Handlers, DeletePolicy(h)
      PROVE  VersionsIntact'
  <2> DEFINE rows == {p \in policies : p.id # req[h].id}
  <2>1. policies' = rows /\ versions' = versions \cup {rows} /\ subjects' = subjects
    BY <1>4 DEF DeletePolicy, Write
  <2>2. rows \subseteq policies
    OBVIOUS
  <2>3. IsFiniteSet(rows)
    BY <2>2, <1>0, FS_Subset DEF VersionsIntact
  <2> HIDE DEF rows
  <2>4. /\ \A p \in rows : subjects[p.subject_name] # None
        /\ \A p \in rows, q \in UNION versions : p.id = q.id => p = q
        /\ \A p, q \in rows : p.id = q.id => p = q
    BY <2>2, <1>0 DEF VersionsIntact
  <2>5. QED
    BY <2>1, <2>2, <2>3, <2>4, <1>0, WriteIntact
<1>5. QED
  BY <1>1, <1>2, <1>3, <1>4, TableSteps

-----------------------------------------------------------------------------
LocalTypes ==
  /\ pc   \in [Handlers -> Labels]
  /\ req  \in [Handlers -> Requests \cup {None}]
  /\ todo \in [Handlers -> Seq(WireTypes \X Names)]
  /\ own  \in [Handlers -> PolicyIds \cup {None}]
  /\ snap \in [Handlers -> Seq(EnginePolicies)]

LEMMA ReturnType ==
  ASSUME LocalTypes, NEW h \in Handlers, Return(h)
  PROVE  LocalTypes'
BY DEF LocalTypes, Return, Goto, Labels

LEMMA NextSubjectType ==
  ASSUME LocalTypes, NEW h \in Handlers, NextSubject(h), todo[h] # << >>
  PROVE  LocalTypes'
<1>1. CASE Return(h)
  BY <1>1, ReturnType
<1>2. CASE ~Return(h)
  <2> DEFINE l == IF Tail(todo[h]) = << >> THEN AfterSubjects(req[h]) ELSE "lookup"
  <2>1. /\ pc' = [pc EXCEPT ![h] = l] /\ todo' = [todo EXCEPT ![h] = Tail(todo[h])]
        /\ UNCHANGED <<req, own, snap>>
    BY <1>2 DEF NextSubject, Goto
  <2>2. l \in Labels
    BY DEF AfterSubjects, Labels
  <2>3. todo[h] \in Seq(WireTypes \X Names)
    BY DEF LocalTypes
  <2>4. Tail(todo[h]) \in Seq(WireTypes \X Names)
    BY <2>3
  <2> HIDE DEF l
  <2>5. QED
    BY <2>1, <2>2, <2>4 DEF LocalTypes
<1>3. QED
  BY <1>1, <1>2

LEMMA NextType ==
  ASSUME Inv, [Next]_vars
  PROVE  TypeOK'
<1>0. TypeOK /\ LocalTypes /\ IsFiniteSet(policies) /\ ClientRequests \subseteq Requests
  BY IamAssumption DEF Inv, TypeOK, LocalTypes, IamInvariant, VersionsIntact
<1>1. ASSUME UNCHANGED vars
      PROVE  TypeOK'
  BY <1>0, <1>1 DEF TypeOK, vars
<1>2. ASSUME NEW h \in Handlers, Begin(h)
      PROVE  TypeOK'
  <2>1. PICK q \in ClientRequests :
          /\ req'  = [req  EXCEPT ![h] = q]
          /\ todo' = [todo EXCEPT ![h] = SubjectsOf(q)]
          /\ pc' = [pc EXCEPT ![h] = IF q.op = "delete_policy" THEN "delete" ELSE "lookup"]
    BY <1>2 DEF Begin, Goto
  <2>2. q \in Requests /\ SubjectsOf(q) \in Seq(WireTypes \X Names)
    BY <1>0, SubjectsOfType
  <2>3. UNCHANGED <<subjects, members, policies, versions, engine, own, snap>>
    BY <1>2 DEF Begin, db
  <2>4. LocalTypes'
    BY <1>0, <2>1, <2>2, <2>3 DEF LocalTypes, Labels
  <2>5. QED
    BY <1>0, <2>3, <2>4 DEF TypeOK, LocalTypes
<1>3. ASSUME NEW h \in Handlers, GetSubject(h)
      PROVE  TypeOK'
  <2>1. UNCHANGED <<subjects, members, policies, versions, engine>>
    BY <1>3 DEF GetSubject, db
  <2>2. todo[h] # << >>
    BY <1>3 DEF GetSubject, Inv, IamInvariant, HandlerReady
  <2>3. CASE NextSubject(h)
    BY <2>1, <2>2, <2>3, <1>0, NextSubjectType DEF TypeOK, LocalTypes
  <2>4. CASE Goto(h, "create") /\ UNCHANGED <<req, todo, own, snap>>
    BY <2>1, <2>4, <1>0 DEF TypeOK, Goto, Labels
  <2>5. QED
    BY <2>3, <2>4, <1>3 DEF GetSubject
<1>4. ASSUME NEW h \in Handlers, CreateSubject(h)
      PROVE  TypeOK'
  <2>1. UNCHANGED <<members, policies, versions, engine>>
    BY <1>4 DEF CreateSubject
  <2>2. todo[h] # << >>
    BY <1>4 DEF CreateSubject, Inv, IamInvariant, HandlerReady
  <2>3. subjects' \in [Names -> SubjectTypes \cup {None}]
    BY <1>4, <1>0 DEF CreateSubject, TypeOK
  <2>4. LocalTypes'
    BY <2>2, <1>4, <1>0, NextSubjectType, ReturnType DEF CreateSubject
  <2>5. QED
    BY <2>1, <2>3, <2>4, <1>0 DEF TypeOK, LocalTypes
<1>5. ASSUME NEW h \in Handlers, InsertPolicy(h)
      PROVE  TypeOK'
  <2> DEFINE row(id) == [id |-> id, subject_name |-> req[h].name,
                         rule |-> StoredRule(req[h].rule)]
  <2>1. PICK id \in PolicyIds \ Minted : Write(h, id, policies \cup {row(id)})
    BY <1>5 DEF InsertPolicy
  <2>2. req[h] \in Requests /\ req[h].op = "create_policy"
    BY <1>5 DEF InsertPolicy, Inv, IamInvariant, HandlerReady
  <2>3. row(id) \in Rows
    BY <2>2, RequestFields DEF Rows, Rules
  <2> HIDE DEF row
  <2>4. policies' \subseteq Rows /\ versions' \subseteq SUBSET Rows
    BY <2>1, <2>3, <1>0 DEF Write, TypeOK
  <2>5. QED
    BY <2>1, <2>4, <1>0 DEF Write, TypeOK, Goto, Labels
<1>6. ASSUME NEW h \in Handlers, DeletePolicy(h)
      PROVE  TypeOK'
  <2>1. req[h] \in Requests /\ req[h].op = "delete_policy"
    BY <1>6 DEF DeletePolicy, Inv, IamInvariant, HandlerReady
  <2>2. req[h].id \in PolicyIds
    BY <2>1, RequestFields
  <2>3. policies' \subseteq Rows /\ versions' \subseteq SUBSET Rows
    BY <1>6, <1>0 DEF DeletePolicy, Write, TypeOK
  <2>4. QED
    BY <1>6, <2>2, <2>3, <1>0 DEF DeletePolicy, Write, TypeOK, Goto, Labels
<1>7. ASSUME NEW h \in Handlers, InsertMember(h)
      PROVE  TypeOK'
  <2>1. req[h] \in Requests /\ req[h].op = "add_group_member"
    BY <1>7 DEF InsertMember, Inv, IamInvariant, HandlerReady
  <2>2. members' \subseteq Names \X Names
    BY <1>7, <2>1, <1>0, RequestFields DEF InsertMember, TypeOK
  <2>3. LocalTypes'
    BY <1>7, <1>0, ReturnType DEF InsertMember
  <2>4. QED
    BY <1>7, <2>2, <2>3, <1>0 DEF InsertMember, TypeOK, LocalTypes
<1>8. ASSUME NEW h \in Handlers, ListForReload(h)
      PROVE  TypeOK'
  <2>1. PICK s \in Listings : snap' = [snap EXCEPT ![h] = s]
    BY <1>8 DEF ListForReload
  <2>2. s \in Seq(EnginePolicies)
    BY <1>0, ListingsExact DEF TypeOK
  <2>3. QED
    BY <1>8, <2>1, <2>2, <1>0 DEF ListForReload, TypeOK, Goto, Labels, db
<1>9. ASSUME NEW h \in Handlers, Reload(h)
      PROVE  TypeOK'
  <2>1. LocalTypes'
    BY <1>9, <1>0, ReturnType DEF Reload
  <2>2. QED
    BY <1>9, <2>1, <1>0 DEF Reload, TypeOK, LocalTypes, db
<1>10. ASSUME NEW h \in Handlers, Fail(h)
       PROVE  TypeOK'
  <2>1. LocalTypes'
    BY <1>10, <1>0, ReturnType DEF Fail
  <2>2. QED
    BY <1>10, <2>1, <1>0 DEF Fail, TypeOK, LocalTypes, db
<1>11. ASSUME Restart
       PROVE  TypeOK'
  <2>1. engine' \in Seq(EnginePolicies)
    BY <1>11, <1>0, ListingsExact DEF Restart, TypeOK
  <2>2. LocalTypes'
    BY <1>11 DEF Restart, LocalTypes, Labels
  <2>3. QED
    BY <1>11, <2>1, <2>2, <1>0 DEF Restart, TypeOK, LocalTypes, db
<1>12. QED
  BY <1>1, <1>2, <1>3, <1>4, <1>5, <1>6, <1>7, <1>8, <1>9, <1>10, <1>11 DEF Next, Handle

-----------------------------------------------------------------------------
\* A listed version stays one: its rows keep their subjects and their types.
LEMMA VersionKept ==
  ASSUME Inv, Stable
  PROVE  \A list : ListsVersion(list) =>
           \E v \in versions' : Content(list) = {Listed(p)' : p \in v}
<1>1. ASSUME NEW v \in versions, NEW p \in v
      PROVE  Listed(p)' = Listed(p)
  <2>1. p \in UNION versions /\ p \in Rows
    BY DEF Inv, TypeOK
  <2>2. p.subject_name \in Names /\ subjects[p.subject_name] # None
    BY <2>1 DEF Inv, IamInvariant, VersionsIntact, Rows
  <2>3. subjects'[p.subject_name] = subjects[p.subject_name]
    BY <2>2 DEF Stable
  <2>4. QED
    BY <2>3 DEF Listed
<1>2. ASSUME NEW list, ListsVersion(list)
      PROVE  \E v \in versions' : Content(list) = {Listed(p)' : p \in v}
  <2>1. PICK v \in versions : Content(list) = {Listed(p) : p \in v}
    BY <1>2 DEF ListsVersion
  <2>2. {Listed(p)' : p \in v} = {Listed(p) : p \in v}
    BY <1>1
  <2>3. QED
    BY <2>1, <2>2 DEF Stable
<1>3. QED
  BY <1>2

\* The engine decides by a content the table has had, after every step.
LEMMA NextEngine ==
  ASSUME Inv, [Next]_vars
  PROVE  EngineIsCommittedState'
<1>0. Stable /\ ListsVersion(engine) /\ policies \in versions
      /\ policies \subseteq Rows /\ IsFiniteSet(policies)
  BY NextStable DEF Inv, TypeOK, IamInvariant, EngineIsCommittedState, VersionsIntact
<1>1. CASE engine' = engine
  <2>1. \E v \in versions' : Content(engine) = {Listed(p)' : p \in v}
    BY <1>0, VersionKept
  <2>2. QED
    BY <2>1, <1>1 DEF EngineIsCommittedState, ListsVersion, Content
<1>2. ASSUME NEW h \in Handlers, Reload(h)
      PROVE  EngineIsCommittedState'
  <2>1. ListsVersion(snap[h]) /\ engine' = snap[h]
    BY <1>2 DEF Reload, Inv, IamInvariant, WriteKnown
  <2>2. \E v \in versions' : Content(snap[h]) = {Listed(p)' : p \in v}
    BY <2>1, <1>0, VersionKept
  <2>3. QED
    BY <2>1, <2>2 DEF EngineIsCommittedState, ListsVersion, Content
<1>3. CASE Restart
  <2>1. engine' \in Listings /\ UNCHANGED <<subjects, policies, versions>>
    BY <1>3 DEF Restart, db
  <2>2. \A s \in Listings : Content(s) = {Listed(p) : p \in policies}
    BY <1>0, ListingsExact
  <2>3. Content(engine') = {Listed(p) : p \in policies}
    BY <2>1, <2>2
  <2>4. \A p : Listed(p)' = Listed(p)
    BY <2>1 DEF Listed
  <2>5. QED
    BY <2>1, <2>3, <2>4, <1>0 DEF EngineIsCommittedState, ListsVersion, Content
<1>4. QED
  BY <1>1, <1>2, <1>3 DEF Next, Handle, Begin, GetSubject, CreateSubject, InsertPolicy,
     DeletePolicy, Write, InsertMember, ListForReload, Fail, vars

HandlerInv(h) == HandlerReady(h) /\ TodoNamesSubject(h) /\ WriteKnown(h)

\* A handler that does not move keeps what it has established.
LEMMA Frame ==
  ASSUME Inv, Stable, NEW g \in Handlers,
         pc'[g] = pc[g], req'[g] = req[g], todo'[g] = todo[g],
         own'[g] = own[g], snap'[g] = snap[g]
  PROVE  HandlerInv(g)'
<1>0. HandlerReady(g) /\ TodoNamesSubject(g) /\ WriteKnown(g)
  BY DEF Inv, IamInvariant
<1>1. Minted \subseteq Minted'
  BY DEF Stable, Minted
<1>2. HandlerReady(g)'
  <2>1. pc[g] = "insert" => req[g].name \in Names
    BY <1>0, RequestFields DEF HandlerReady
  <2>2. pc[g] = "insert" => subjects'[req[g].name] # None
    BY <2>1, <1>0 DEF HandlerReady, Stable
  <2>3. QED
    BY <2>2, <1>0, <1>1 DEF HandlerReady
<1>3. TodoNamesSubject(g)'
  BY <1>0 DEF TodoNamesSubject
<1>4. WriteKnown(g)'
  <2>1. CASE pc[g] \notin {"list", "swap"}
    BY <2>1 DEF WriteKnown
  <2>2. CASE pc[g] \in {"list", "swap"}
    <3>1. /\ req[g].op \in {"create_policy", "delete_policy"}
          /\ own[g] \in Minted
          /\ req[g].op = "delete_policy" => own[g] \notin RowIds
      BY <2>2, <1>0 DEF WriteKnown
    <3>2. own[g] \in RowIds' => own[g] \in RowIds
      BY <3>1 DEF Stable
    <3>3. Ids(snap[g])' = Ids(snap[g])
      BY DEF Ids, Content
    <3>4. pc[g] = "swap" => ListsVersion(snap[g])'
      <4>1. pc[g] = "swap" => \E v \in versions' : Content(snap[g]) = {Listed(p)' : p \in v}
        BY <1>0, VersionKept DEF WriteKnown
      <4>2. QED
        BY <4>1 DEF ListsVersion, Content
    <3>5. QED
      BY <3>1, <3>2, <3>3, <3>4, <1>0, <1>1 DEF WriteKnown
  <2>3. QED
    BY <2>1, <2>2
<1>5. QED
  BY <1>2, <1>3, <1>4 DEF HandlerInv

\* A handler that has returned has nothing left to establish.
LEMMA Idle ==
  ASSUME NEW h, pc'[h] = "idle"
  PROVE  HandlerInv(h)'
BY DEF HandlerInv, HandlerReady, TodoNamesSubject, WriteKnown

\* get_or_create_subject has found or made the subject it was called for.
LEMMA SubjectReady ==
  ASSUME Inv, Stable, TypeOK', NEW h \in Handlers, pc[h] \in {"lookup", "create"},
         subjects'[Head(todo[h])[2]] # None, NextSubject(h)
  PROVE  HandlerInv(h)'
<1>0. /\ HandlerReady(h) /\ TodoNamesSubject(h) /\ TypeOK
      /\ req[h] \in Requests /\ todo[h] # << >> /\ req[h].op # "delete_policy"
      /\ todo[h] \in Seq(WireTypes \X Names) /\ pc \in [Handlers -> Labels]
      /\ todo \in [Handlers -> Seq(WireTypes \X Names)]
  BY DEF Inv, IamInvariant, HandlerReady, TypeOK
<1>1. CASE Return(h)
  BY <1>1, <1>0, Idle DEF Return, Goto
<1>2. CASE ~Return(h)
  <2>1. /\ pc'[h] = IF Tail(todo[h]) = << >> THEN AfterSubjects(req[h]) ELSE "lookup"
        /\ todo'[h] = Tail(todo[h]) /\ req'[h] = req[h]
        /\ Tail(todo[h]) = << >> => AfterSubjects(req[h]) # "idle"
    BY <1>0, <1>2 DEF NextSubject, Goto
  <2>2. CASE req[h].op = "create_policy"
    <3>1. todo[h] = << <<req[h].type, req[h].name>> >>
      BY <1>0, <2>2 DEF TodoNamesSubject
    <3>2. Tail(todo[h]) = << >> /\ Head(todo[h])[2] = req[h].name
      BY <3>1
    <3>3. pc'[h] = "insert"
      BY <3>2, <2>1, <2>2 DEF AfterSubjects
    <3>4. QED
      BY <3>2, <3>3, <2>1, <2>2, <1>0
      DEF HandlerInv, HandlerReady, TodoNamesSubject, WriteKnown
  <2>3. CASE req[h].op # "create_policy" /\ Tail(todo[h]) = << >>
    <3>1. pc'[h] = "member" /\ req[h].op = "add_group_member"
      BY <2>1, <2>3 DEF AfterSubjects
    <3>2. QED
      BY <3>1, <2>1, <1>0 DEF HandlerInv, HandlerReady, TodoNamesSubject, WriteKnown
  <2>4. CASE req[h].op # "create_policy" /\ Tail(todo[h]) # << >>
    BY <2>1, <2>4, <1>0 DEF HandlerInv, HandlerReady, TodoNamesSubject, WriteKnown
  <2>5. QED
    BY <2>2, <2>3, <2>4
<1>3. QED
  BY <1>1, <1>2

(***************************************************************************)
(* The handler that moves has what its next statement needs.               *)
(***************************************************************************)
LEMMA MoverReady ==
  ASSUME Inv, [Next]_vars, NEW h \in Handlers, Handle(h)
  PROVE  HandlerInv(h)'
<1>0. /\ Stable /\ TypeOK /\ TypeOK' /\ HandlerReady(h) /\ TodoNamesSubject(h)
      /\ WriteKnown(h) /\ VersionsIntact /\ VersionsIntact'
  BY NextStable, NextType, NextIntact DEF Inv, IamInvariant
<1>1. CASE Return(h)
  BY <1>1, <1>0, Idle DEF Return, Goto, TypeOK
<1>2. CASE Begin(h)
  <2>1. PICK q \in ClientRequests :
          /\ q.op = "delete_policy" => q.id \in Minted
          /\ req'[h] = q /\ todo'[h] = SubjectsOf(q)
          /\ pc'[h] = IF q.op = "delete_policy" THEN "delete" ELSE "lookup"
    BY <1>2, <1>0 DEF Begin, Goto, TypeOK
  <2>2. q \in Requests
    BY IamAssumption
  <2>3. Minted' = Minted
    BY <1>2 DEF Begin, db, Minted
  <2>4. QED
    BY <2>1, <2>2, <2>3, SubjectsOfType
    DEF HandlerInv, HandlerReady, TodoNamesSubject, WriteKnown
<1>3. CASE GetSubject(h)
  <2>1. CASE subjects[Head(todo[h])[2]] # None
    <3>1. NextSubject(h) /\ subjects' = subjects /\ pc[h] = "lookup"
      BY <1>3, <2>1 DEF GetSubject, db
    <3>2. QED
      BY <3>1, <2>1, <1>0, SubjectReady
  <2>2. CASE subjects[Head(todo[h])[2]] = None
    <3>1. /\ pc[h] = "lookup" /\ pc'[h] = "create"
          /\ UNCHANGED <<subjects, versions, req, todo>>
      BY <1>3, <2>2, <1>0 DEF GetSubject, db, Goto, TypeOK
    <3>2. QED
      BY <3>1, <1>0 DEF HandlerInv, HandlerReady, TodoNamesSubject, WriteKnown
  <2>3. QED
    BY <2>1, <2>2
<1>4. CASE CreateSubject(h) /\ ~Return(h)
  <2>1. /\ NextSubject(h) /\ pc[h] = "create"
        /\ Head(todo[h])[1] \in SubjectTypes
        /\ subjects' = [subjects EXCEPT ![Head(todo[h])[2]] = Head(todo[h])[1]]
    BY <1>4 DEF CreateSubject
  <2>2. todo[h] # << >> /\ todo[h] \in Seq(WireTypes \X Names)
    BY <2>1, <1>0 DEF HandlerReady, TypeOK
  <2>3. Head(todo[h])[2] \in Names
    BY <2>2
  <2>4. subjects'[Head(todo[h])[2]] # None
    BY <2>1, <2>3, <1>0, IamAssumption DEF TypeOK
  <2>5. QED
    BY <2>1, <2>4, <1>0, SubjectReady
<1>5. CASE InsertPolicy(h)
  <2> DEFINE row(id) == [id |-> id, subject_name |-> req[h].name,
                         rule |-> StoredRule(req[h].rule)]
  <2>1. PICK id \in PolicyIds \ Minted : Write(h, id, policies \cup {row(id)})
    BY <1>5 DEF InsertPolicy
  <2>2. row(id) \in UNION versions' /\ row(id).id = id
    BY <2>1 DEF Write
  <2>3. id \in Minted'
    BY <2>2 DEF Minted
  <2>4. req[h] \in Requests /\ req[h].op = "create_policy"
    BY <1>5, <1>0 DEF InsertPolicy, HandlerReady
  <2>5. pc'[h] = "list" /\ req'[h] = req[h] /\ own'[h] = id
    BY <2>1, <1>0 DEF Write, Goto, TypeOK
  <2>6. QED
    BY <2>3, <2>4, <2>5 DEF HandlerInv, HandlerReady, TodoNamesSubject, WriteKnown
<1>6. CASE DeletePolicy(h)
  <2>1. req[h] \in Requests /\ req[h].op = "delete_policy" /\ req[h].id \in Minted
    BY <1>6, <1>0 DEF DeletePolicy, HandlerReady
  <2>2. /\ policies' = {p \in policies : p.id # req[h].id}
        /\ pc'[h] = "list" /\ req'[h] = req[h] /\ own'[h] = req[h].id
    BY <1>6, <1>0 DEF DeletePolicy, Write, Goto, TypeOK
  <2>3. own'[h] \notin RowIds'
    BY <2>2 DEF RowIds
  <2>4. own'[h] \in Minted'
    BY <2>1, <2>2, <1>0 DEF Stable, Minted
  <2>5. QED
    BY <2>1, <2>2, <2>3, <2>4 DEF HandlerInv, HandlerReady, TodoNamesSubject, WriteKnown
<1>7. CASE ListForReload(h)
  <2>1. PICK s \in Listings : snap' = [snap EXCEPT ![h] = s]
    BY <1>7 DEF ListForReload
  <2>2. /\ snap'[h] = s /\ pc'[h] = "swap" /\ req'[h] = req[h] /\ own'[h] = own[h]
        /\ UNCHANGED <<subjects, policies, versions>> /\ pc[h] = "list"
    BY <2>1, <1>7, <1>0 DEF ListForReload, Goto, TypeOK, db
  <2>3. Content(s) = {Listed(p) : p \in policies}
    BY <1>0, ListingsExact DEF TypeOK, VersionsIntact
  <2>4. Ids(s) = RowIds
    BY <2>3, <1>0, ContentIds DEF RowIds, TypeOK
  <2>5. Ids(snap[h])' = RowIds /\ RowIds' = RowIds /\ Minted' = Minted
    BY <2>2, <2>4 DEF Ids, Content, RowIds, Minted
  <2>6. ListsVersion(snap[h])'
    <3>1. \A p : Listed(p)' = Listed(p)
      BY <2>2 DEF Listed
    <3>2. policies \in versions'
      BY <2>2, <1>0 DEF VersionsIntact
    <3>3. QED
      BY <3>1, <3>2, <2>2, <2>3 DEF ListsVersion, Content
  <2>7. QED
    BY <2>2, <2>5, <2>6, <1>0 DEF HandlerInv, HandlerReady, TodoNamesSubject, WriteKnown
<1>8. QED
  BY <1>1, <1>2, <1>3, <1>4, <1>5, <1>6, <1>7 DEF Handle, InsertMember, Reload, Fail

LEMMA OthersStill ==
  ASSUME TypeOK, NEW h \in Handlers, Handle(h), NEW g \in Handlers \ {h}
  PROVE  /\ pc'[g] = pc[g] /\ req'[g] = req[g] /\ todo'[g] = todo[g]
         /\ own'[g] = own[g] /\ snap'[g] = snap[g]
<1>1. CASE Begin(h)
  BY <1>1 DEF Begin, Goto, TypeOK
<1>2. CASE GetSubject(h)
  BY <1>2 DEF GetSubject, NextSubject, Return, Goto, TypeOK
<1>3. CASE CreateSubject(h)
  BY <1>3 DEF CreateSubject, NextSubject, Return, Goto, TypeOK
<1>4. CASE InsertPolicy(h) \/ DeletePolicy(h)
  BY <1>4 DEF InsertPolicy, DeletePolicy, Write, Goto, TypeOK
<1>5. CASE ListForReload(h)
  BY <1>5 DEF ListForReload, Goto, TypeOK
<1>6. CASE InsertMember(h) \/ Reload(h) \/ Fail(h)
  BY <1>6 DEF InsertMember, Reload, Fail, Return, Goto, TypeOK
<1>7. QED
  BY <1>1, <1>2, <1>3, <1>4, <1>5, <1>6 DEF Handle

-----------------------------------------------------------------------------
LEMMA InitInv == Init => Inv
<1> SUFFICES ASSUME Init PROVE Inv
  OBVIOUS
<1>1. /\ SeedRow \in Rows /\ SeedRow.subject_name = Wild /\ SeedRow.id = SeedId
      /\ policies = {SeedRow} /\ versions = {{SeedRow}}
  BY IamAssumption DEF Init, SeedRow, Rows, Rules
<1>2. IsFiniteSet(policies)
  BY <1>1, FS_Singleton
<1>3. engine \in Seq(EnginePolicies) /\ Content(engine) = {Listed(p) : p \in policies}
  BY <1>1, <1>2, ListingsExact DEF Init
<1>4. TypeOK
  BY <1>1, <1>3, IamAssumption DEF Init, TypeOK, Labels, SubjectTypes
<1>5. VersionsIntact
  <2>1. subjects[Wild] = "user" /\ None # "user"
    BY IamAssumption DEF Init, SubjectTypes
  <2>2. UNION versions = {SeedRow}
    BY <1>1
  <2>3. QED
    BY <2>1, <2>2, <1>1, <1>2 DEF VersionsIntact
<1>6. EngineIsCommittedState
  BY <1>1, <1>3 DEF EngineIsCommittedState, ListsVersion
<1>7. \A h \in Handlers : HandlerReady(h) /\ TodoNamesSubject(h) /\ WriteKnown(h)
  BY DEF Init, HandlerReady, TodoNamesSubject, WriteKnown
<1>8. QED
  BY <1>4, <1>5, <1>6, <1>7 DEF Inv, IamInvariant

LEMMA NextInv == Inv /\ [Next]_vars => Inv'
<1> SUFFICES ASSUME Inv, [Next]_vars PROVE Inv'
  OBVIOUS
<1>1. TypeOK' /\ VersionsIntact' /\ EngineIsCommittedState' /\ Stable
  BY NextType, NextIntact, NextEngine, NextStable
<1>2. ASSUME NEW g \in Handlers
      PROVE  HandlerInv(g)'
  <2>1. CASE UNCHANGED vars
    BY <2>1, <1>1, Frame DEF vars
  <2>2. CASE Restart
    BY <2>2, Idle DEF Restart
  <2>3. ASSUME NEW h \in Handlers, Handle(h)
        PROVE  HandlerInv(g)'
    <3>1. CASE g = h
      BY <3>1, <2>3, MoverReady
    <3>2. CASE g # h
      BY <3>2, <2>3, <1>1, OthersStill, Frame DEF Inv
    <3>3. QED
      BY <3>1, <3>2
  <2>4. QED
    BY <2>1, <2>2, <2>3 DEF Next
<1>3. QED
  BY <1>1, <1>2 DEF Inv, IamInvariant, HandlerInv

(***************************************************************************)
(* The inductive invariant holds in every reachable state.                 *)
(***************************************************************************)
THEOREM IamSafety == Spec => [](TypeOK /\ IamInvariant)
BY InitInv, NextInv, PTL DEF Spec, Inv

(***************************************************************************)
(* The tables, the engine and the handlers keep the types of the code.     *)
(***************************************************************************)
THEOREM IamTypeCorrect == Spec => []TypeOK
<1>1. Inv => TypeOK
  BY DEF Inv
<1>2. QED
  BY <1>1, IamSafety, PTL DEF Inv

(***************************************************************************)
(* A reload puts the handler's own write in force: its Deny or Allow, if   *)
(* it is still stored, and never the policy it deleted.                    *)
(***************************************************************************)
THEOREM ReloadHasOwnWrite == Spec => WriteTakesEffect
<1>1. Inv => [\A h \in Handlers : Reload(h) =>
                IF req[h].op = "delete_policy" THEN own[h] \notin Ids(engine')
                ELSE own[h] \in RowIds => own[h] \in Ids(engine')]_vars
  BY DEF Inv, IamInvariant, WriteKnown, Reload
<1>2. QED
  BY <1>1, IamSafety, PTL DEF Inv, WriteTakesEffect

(***************************************************************************)
(* No race of get_or_create_subject calls changes the type of a subject.   *)
(***************************************************************************)
THEOREM SubjectTypesNeverChange == Spec => SubjectTypeStable
<1>1. Inv /\ [Next]_vars =>
        [\A n \in Names : subjects[n] # None => subjects'[n] = subjects[n]]_vars
  BY NextStable DEF Stable
<1>2. QED
  BY <1>1, IamSafety, PTL DEF Inv, Spec, SubjectTypeStable

-----------------------------------------------------------------------------
\* A committed version means the same policies after every step.
LEMMA VersionMeaning ==
  ASSUME Inv, Stable, NEW v \in versions
  PROVE  {Listed(p)' : p \in v} = {Listed(p) : p \in v}
<1>1. ASSUME NEW p \in v PROVE Listed(p)' = Listed(p)
  <2>1. p \in UNION versions /\ p \in Rows
    BY DEF Inv, TypeOK
  <2>2. p.subject_name \in Names /\ subjects[p.subject_name] # None
    BY <2>1 DEF Inv, IamInvariant, VersionsIntact, Rows
  <2>3. subjects'[p.subject_name] = subjects[p.subject_name]
    BY <2>2 DEF Stable
  <2>4. QED
    BY <2>3 DEF Listed
<1>2. QED
  BY <1>1

\* Every statement of a handler commits, installs or does neither.
LEMMA StepImplements ==
  ASSUME Inv, [Next]_vars
  PROVE  [View!Next]_View!vars
<1> DEFINE Source == {Listed(p) : p \in policies}
           History == {{Listed(p) : p \in v} : v \in versions}
<1>0. /\ Stable /\ policies \in versions /\ policies \subseteq Rows /\ IsFiniteSet(policies)
  BY NextStable DEF Inv, TypeOK, IamInvariant, VersionsIntact
<1>1. \A v \in versions : {Listed(p)' : p \in v} = {Listed(p) : p \in v}
  BY <1>0, VersionMeaning
<1>2. Source \in History
  BY <1>0
\* The tables keep their rows.
<1>3. ASSUME UNCHANGED <<policies, versions>>, Content(engine') \in History \/ engine' = engine
      PROVE  [View!Next]_View!vars
  <2>1. Source' = Source
    BY <1>0, <1>1, <1>3
  <2>2. History' = History
    BY <1>1, <1>3
  <2>3. Content(engine)' = Content(engine')
    BY DEF Content
  <2>4. QED
    BY <1>3, <2>1, <2>2, <2>3 DEF View!Next, View!Install, View!vars, Content
\* A row is written or deleted.
<1>4. ASSUME NEW h \in Handlers, NEW id, NEW rows, Write(h, id, rows)
      PROVE  [View!Next]_View!vars
  <2>1. policies' = rows /\ versions' = versions \cup {rows} /\ engine' = engine
    BY <1>4 DEF Write
  <2>2. History' = History \cup {Source'}
    BY <1>1, <2>1
  <2>3. QED
    BY <2>1, <2>2 DEF View!Next, View!Commit, View!vars, Content
<1>5. ASSUME NEW h \in Handlers, Reload(h) PROVE [View!Next]_View!vars
  <2>1. ListsVersion(snap[h]) /\ engine' = snap[h] /\ UNCHANGED <<policies, versions>>
    BY <1>5 DEF Reload, Inv, IamInvariant, WriteKnown, db
  <2>2. Content(engine') \in History
    BY <2>1 DEF ListsVersion
  <2>3. QED
    BY <1>3, <2>1, <2>2
<1>6. CASE Restart
  <2>1. engine' \in Listings /\ UNCHANGED <<policies, versions>>
    BY <1>6 DEF Restart, db
  <2>2. Content(engine') = Source
    BY <1>0, <2>1, ListingsExact
  <2>3. QED
    BY <1>2, <1>3, <2>1, <2>2
<1>7. QED
  BY <1>3, <1>4, <1>5, <1>6
  DEF Next, Handle, Begin, GetSubject, CreateSubject, InsertPolicy, DeletePolicy, InsertMember,
      ListForReload, Fail, db, vars

(***************************************************************************)
(* Refinement: elan-central's IAM implements SnapshotView, for any number  *)
(* of handlers, so whoever reads CheckAccess sees a sequence of whole      *)
(* versions of the policy table and nothing else.                          *)
(***************************************************************************)
THEOREM IamImplementsSnapshotView == Spec => ImplementsSnapshotView
<1>1. Init => View!Init
  <2> SUFFICES ASSUME Init PROVE View!Init
    OBVIOUS
  <2>1. policies = {SeedRow} /\ versions = {policies} /\ engine \in Listings
    BY DEF Init
  <2>2. policies \subseteq Rows /\ IsFiniteSet(policies)
    BY InitInv DEF Inv, TypeOK, IamInvariant, VersionsIntact
  <2>3. Content(engine) = {Listed(p) : p \in policies}
    BY <2>1, <2>2, ListingsExact
  <2>4. QED
    BY <2>1, <2>3 DEF View!Init
<1>2. Inv /\ [Next]_vars => [View!Next]_View!vars
  BY StepImplements
<1>3. QED
  BY <1>1, <1>2, IamSafety, PTL DEF Inv, Spec, View!Spec, ImplementsSnapshotView
=============================================================================
