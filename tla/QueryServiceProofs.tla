------------------------- MODULE QueryServiceProofs -------------------------
(***************************************************************************)
(* Proofs about QueryService, for any number of queries, users, tables,    *)
(* catalogs and policies, with and without faults.                         *)
(***************************************************************************)
EXTENDS QueryService, SequenceTheorems, TLAPS

\* Everything list_policies may ever send.
Listed == UNION {{P[i] : i \in DOMAIN P} : P \in PolicyLists}

(***************************************************************************)
(* What is held of central's tables is a version of them: the source, the  *)
(* cache, the engine, and what has come and is to come of a listing.       *)
(***************************************************************************)
ListsKept ==
  /\ catalog \in versions /\ policies \in lists /\ engine \in lists \cup {<< >>}
  /\ proc # "down" => cache \in versions
  /\ refresh.phase = "load" => refresh.got \cup refresh.rest \in versions
  /\ incoming \in [rest : Seq(Listed), got : Seq(Listed)]
  /\ proc = "stream" => incoming.got \o incoming.rest \in lists

\* The tables the user u may read.
Readable(u) == {t \in Tables : IsVisible(engine, [user_id |-> u, groups |-> {}], t)}

(***************************************************************************)
(* What a query has asked for, called or planned is readable, and unless a *)
(* table was not found so is every table it has resolved.                  *)
(***************************************************************************)
Cleared(rec) ==
  /\ rec.asked \subseteq Readable(rec.user) /\ rec.called \subseteq Readable(rec.user)
  /\ rec.shown \subseteq Readable(rec.user)
  /\ \A r \in rec.scans : r.table \in Readable(rec.user)
  /\ rec.phase \in {"submit", "plan", "fetch"} =>
       /\ rec.missing \/ Elems(rec.tables) \subseteq Elems(rec.todo) \cup Readable(rec.user)
       /\ rec.called = {} /\ rec.status = None
  /\ rec.phase = "fetch" => rec.todo # << >>
  /\ rec.phase \in {"scan", "hung"} =>
       Elems(rec.tables) \subseteq Readable(rec.user) /\ rec.status = None
  /\ rec.phase \in {"finish", "done", "stuck"} /\ rec.kind = "select" =>
       \/ Elems(rec.tables) \subseteq Readable(rec.user)
       \/ rec.called = {} /\ rec.status \in {None, 500}

\* Policies change only while no query is being served.
QueriesCleared ==
  \A q \in Queries : Live(q) => proc = "up" /\ Cleared(query[q])

QueryInv == TypeOK /\ ListsKept /\ QueriesCleared

-----------------------------------------------------------------------------
LEMMA ListsAreSequences == PolicyLists \subseteq Seq(Listed)
<1> SUFFICES ASSUME NEW P \in PolicyLists PROVE P \in Seq(Listed)
  OBVIOUS
<1>1. P \in Seq({P[i] : i \in DOMAIN P})
  BY QueryAssumption
<1>2. {P[i] : i \in DOMAIN P} \subseteq Listed
  BY DEF Listed
<1>3. DOMAIN P = 1..Len(P) /\ Len(P) \in Nat /\ P = [i \in 1..Len(P) |-> P[i]]
  BY <1>1
<1>4. \A i \in 1..Len(P) : P[i] \in Listed
  BY <1>2, <1>3
<1> QED  BY <1>1, <1>3, <1>4

(***************************************************************************)
(* What central sends of a policy comes back as that policy.               *)
(***************************************************************************)
LEMMA WireKeepsPolicy ==
  ASSUME NEW p, IsPolicy(p)
  PROVE  FromProto(ToProto(p)) = p
<1> DEFINE m == ToProto(p)
<1>1. /\ m.policy_id = p.id /\ m.subject_name = p.subject_name
      /\ m.subject_type = p.subject_type
      /\ m.resource_pattern = p.rule.resource_pattern /\ m.action = p.rule.action
      /\ m.priority = p.rule.priority
  BY DEF ToProto
<1>2. m.effect = (IF p.rule.effect = "Deny" THEN 1 ELSE 0)
      /\ m.row_filter = (IF p.rule.row_filter = None THEN "" ELSE p.rule.row_filter)
  BY DEF ToProto
<1> HIDE DEF m
<1>3. (IF m.subject_type = "group" THEN "group" ELSE "user") = p.subject_type
  BY <1>1 DEF IsPolicy
<1>4. (IF m.effect = 1 THEN "Deny" ELSE "Allow") = p.rule.effect
  <2>1. CASE p.rule.effect = "Deny"
    BY <1>2, <2>1
  <2>2. CASE p.rule.effect = "Allow"
    <3>1. m.effect = 0
      BY <1>2, <2>2
    <3> QED  BY <2>2, <3>1
  <2> QED  BY <2>1, <2>2 DEF IsPolicy
<1>5. (IF m.row_filter = "" THEN None ELSE m.row_filter) = p.rule.row_filter
  BY <1>2 DEF IsPolicy
<1>6. FromProto(m).rule = p.rule
  BY <1>1, <1>4, <1>5 DEF FromProto, IsPolicy
<1>7. FromProto(m) = [id |-> p.id, subject_name |-> p.subject_name,
                      subject_type |-> p.subject_type, rule |-> FromProto(m).rule]
  BY <1>1, <1>3 DEF FromProto
<1>8. FromProto(m) = p
  BY <1>6, <1>7 DEF IsPolicy
<1> QED  BY <1>8 DEF m

LEMMA ListedArePolicies ==
  ASSUME NEW p \in Listed
  PROVE  IsPolicy(p)
<1>1. PICK P \in PolicyLists : p \in {P[i] : i \in DOMAIN P}
  BY DEF Listed
<1>2. PICK i \in DOMAIN P : p = P[i]
  BY <1>1
<1>3. \A k \in DOMAIN P : IsPolicy(P[k])
  BY QueryAssumption
<1> QED  BY <1>2, <1>3

(***************************************************************************)
(* Receiving a message moves it from the end to come to what has come.     *)
(***************************************************************************)
LEMMA ReceiveKeepsWhole ==
  ASSUME NEW S, NEW got \in Seq(S), NEW rest \in Seq(S), rest # << >>
  PROVE  /\ Append(got, Head(rest)) \in Seq(S) /\ Tail(rest) \in Seq(S)
         /\ Append(got, Head(rest)) \o Tail(rest) = got \o rest
<1>1. /\ Head(rest) = rest[1] /\ Head(rest) \in S /\ Tail(rest) \in Seq(S)
      /\ Len(Tail(rest)) = Len(rest) - 1 /\ Len(rest) \in Nat \ {0}
      /\ \A i \in 1..(Len(rest) - 1) : Tail(rest)[i] = rest[i + 1]
  OBVIOUS
<1> DEFINE new == Append(got, Head(rest))
<1>2. /\ new \in Seq(S) /\ Len(new) = Len(got) + 1 /\ Len(got) \in Nat
      /\ new[Len(got) + 1] = rest[1] /\ \A i \in 1..Len(got) : new[i] = got[i]
  BY <1>1
<1> HIDE DEF new
<1>3. /\ new \o Tail(rest) \in Seq(S) /\ got \o rest \in Seq(S)
      /\ Len(new \o Tail(rest)) = Len(got) + Len(rest)
      /\ Len(got \o rest) = Len(got) + Len(rest)
  BY <1>1, <1>2
<1>4. ASSUME NEW i \in 1..(Len(got) + Len(rest))
      PROVE  (new \o Tail(rest))[i] = (got \o rest)[i]
  <2>1. CASE i <= Len(got)
    BY <1>1, <1>2, <2>1
  <2>2. CASE i = Len(got) + 1
    BY <1>1, <1>2, <2>2
  <2>3. CASE i > Len(got) + 1
    BY <1>1, <1>2, <2>3
  <2> QED  BY <1>1, <1>2, <2>1, <2>2, <2>3
<1>5. new \o Tail(rest) = got \o rest
  BY <1>3, <1>4, SeqEqual
<1> QED  BY <1>1, <1>2, <1>5 DEF new

(***************************************************************************)
(* Resolving the first table leaves the others to be resolved.             *)
(***************************************************************************)
LEMMA ElemsHeadTail ==
  ASSUME NEW S, NEW s \in Seq(S), s # << >>
  PROVE  Head(s) \in S /\ Tail(s) \in Seq(S) /\ Elems(s) \subseteq {Head(s)} \cup Elems(Tail(s))
<1>1. /\ Len(s) \in Nat \ {0} /\ DOMAIN s = 1..Len(s) /\ Head(s) = s[1] /\ Head(s) \in S
      /\ Tail(s) \in Seq(S) /\ DOMAIN Tail(s) = 1..(Len(s) - 1)
      /\ \A i \in 1..(Len(s) - 1) : Tail(s)[i] = s[i + 1]
  OBVIOUS
<1>2. ASSUME NEW i \in DOMAIN s PROVE s[i] \in {Head(s)} \cup Elems(Tail(s))
  <2>1. CASE i = 1
    BY <1>1, <2>1
  <2>2. CASE i # 1
    <3>1. i - 1 \in 1..(Len(s) - 1) /\ (i - 1) + 1 = i
      BY <1>1, <2>2
    <3> QED  BY <3>1, <1>1 DEF Elems
  <2> QED  BY <2>1, <2>2
<1> QED  BY <1>1, <1>2 DEF Elems

(***************************************************************************)
(* As long as the engine stays, so do the tables a user may read.          *)
(***************************************************************************)
LEMMA ReadableKept ==
  ASSUME UNCHANGED engine
  PROVE  \A u : Readable(u)' = Readable(u)
BY DEF Readable

LEMMA ClearedKept ==
  ASSUME UNCHANGED <<engine, query>>, QueriesCleared, proc = "up" => proc' = "up"
  PROVE  QueriesCleared'
<1> SUFFICES ASSUME NEW q \in Queries, Live(q)' PROVE proc' = "up" /\ Cleared(query[q])'
  BY DEF QueriesCleared
<1>1. Live(q) /\ proc' = "up" /\ Cleared(query[q])
  BY DEF Live, QueriesCleared
<1>2. \A u : Readable(u)' = Readable(u)
  BY ReadableKept
<1>3. Cleared(query[q])'
  BY <1>1, <1>2 DEF Cleared
<1> QED  BY <1>1, <1>3

LEMMA NoQueryRecord == NoQuery \in QueryRecords
BY DEF NoQuery, QueryRecords, Phases, Statuses

LEMMA GoneRecord == Gone \in QueryRecords /\ Gone.phase = "gone"
BY NoQueryRecord DEF Gone, QueryRecords, Phases

LEMMA InitQueryInv == Init => QueryInv
<1> SUFFICES ASSUME Init PROVE QueryInv
  OBVIOUS
<1>1. TypeOK
  <2>1. /\ query \in [Queries -> QueryRecords] /\ \A q \in Queries : query[q].phase = "new"
        /\ lock = None /\ hangs = FALSE
    BY NoQueryRecord DEF Init, NoQuery
  <2>2. \A q \in Queries : At(q, "fetch") <=> lock = q
    BY <2>1, QueryAssumption DEF At
  <2>3. lock # "refresh"
    BY <2>1, QueryAssumption
  <2>4. /\ refresh \in [phase : {"sleep", "list", "load"},
                       rest : SUBSET CatalogRows, got : SUBSET CatalogRows]
        /\ refresh.phase # "sleep" <=> lock = "refresh"
    BY <2>3 DEF Init, Asleep
  <2>5. hangs \in BOOLEAN /\ (hangs => lock # None)
    BY <2>1
  <2> QED  BY <2>1, <2>2, <2>4, <2>5 DEF Init, TypeOK
<1>2. ListsKept
  BY DEF Init, ListsKept, Nothing, Asleep
<1>3. QueriesCleared
  BY DEF Init, QueriesCleared, Live, NoQuery
<1> QED  BY <1>1, <1>2, <1>3 DEF QueryInv

-----------------------------------------------------------------------------
(***************************************************************************)
(* The steps of central, of the start and of the refresh leave the queries *)
(* alone; those that set the engine happen before any query is served.     *)
(***************************************************************************)
LEMMA CentralKeeps ==
  ASSUME QueryInv, Central
  PROVE  QueryInv'
<1> USE DEF QueryInv
<1>1. UNCHANGED <<query, log, engine, client>> /\ (proc' = "up" <=> proc = "up")
  BY DEF Central, ChangeCatalog, ChangePolicies, CentralDown, CentralUp, factory, TypeOK
<1>2. CASE ChangeCatalog
  <2>1. TypeOK'
    BY <1>2 DEF TypeOK, ChangeCatalog, factory, client, At
  <2>2. ListsKept'
    BY <1>2 DEF TypeOK, ListsKept, ChangeCatalog, factory
  <2> QED  BY <1>1, <2>1, <2>2, ClearedKept
<1>3. CASE ChangePolicies
  <2>1. TypeOK'
    BY <1>3 DEF TypeOK, ChangePolicies, factory, client, At
  <2>2. ListsKept'
    BY <1>3 DEF TypeOK, ListsKept, ChangePolicies, factory
  <2> QED  BY <1>1, <2>1, <2>2, ClearedKept
<1>4. CASE CentralDown
  <2>1. TypeOK'
    BY <1>4 DEF TypeOK, CentralDown, factory, client, At
  <2>2. ListsKept'
    BY <1>4 DEF TypeOK, ListsKept, CentralDown, factory
  <2> QED  BY <1>1, <2>1, <2>2, ClearedKept
<1>5. CASE CentralUp
  <2>1. TypeOK'
    BY <1>5 DEF TypeOK, CentralUp, factory, client, At
  <2>2. ListsKept'
    BY <1>5 DEF TypeOK, ListsKept, CentralUp, factory
  <2> QED  BY <1>1, <2>1, <2>2, ClearedKept
<1> QED  BY <1>2, <1>3, <1>4, <1>5 DEF Central

LEMMA BootKeeps ==
  ASSUME QueryInv, Boot
  PROVE  QueryInv'
<1> USE DEF QueryInv
<1>1. proc # "up" /\ UNCHANGED <<up, catalog, policies, versions, lists, log, lock, hangs, refresh, query>>
  BY DEF Boot, LoadDatasets, ListPolicies, RecvPolicy, PoliciesLoaded, PoliciesFail,
         ConnectSink, central, client
<1>2. QueriesCleared'
  BY <1>1 DEF QueriesCleared, Live
<1>3. lists \subseteq Seq(Listed)
  BY ListsAreSequences DEF TypeOK
<1>4. CASE LoadDatasets
  <2>1. cache' \subseteq CatalogRows
    BY <1>4, QueryAssumption DEF LoadDatasets, TypeOK
  <2>2. TypeOK'
    BY <1>1, <1>4, <2>1 DEF TypeOK, LoadDatasets, At
  <2>3. ListsKept'
    BY <1>1, <1>4 DEF ListsKept, LoadDatasets
  <2> QED  BY <1>2, <2>2, <2>3
<1>5. CASE ListPolicies
  <2>1. TypeOK'
    BY <1>1, <1>5 DEF TypeOK, ListPolicies, At
  <2>2. policies \in Seq(Listed) /\ << >> \in Seq(Listed)
    BY <1>3 DEF ListsKept
  <2>3. << >> \o policies = policies
    BY <2>2, ConcatEmptySeq
  <2>4. incoming' = [rest |-> policies, got |-> << >>] /\ proc' = "stream"
    BY <1>5 DEF ListPolicies
  <2>5. incoming'.got \o incoming'.rest \in lists
    BY <2>3, <2>4 DEF ListsKept
  <2>6. ListsKept'
    BY <1>1, <1>5, <2>2, <2>4, <2>5 DEF ListsKept, ListPolicies
  <2> QED  BY <1>2, <2>1, <2>6
<1>6. CASE RecvPolicy
  <2>1. TypeOK'
    BY <1>1, <1>6 DEF TypeOK, RecvPolicy, At
  <2> DEFINE rest == incoming.rest
             got  == incoming.got
  <2>2. rest \in Seq(Listed) /\ got \in Seq(Listed) /\ rest # << >>
    BY <1>6 DEF ListsKept, RecvPolicy
  <2> DEFINE new == FromProto(ToProto(Head(rest)))
  <2>3. incoming' = [rest |-> Tail(rest), got |-> Append(got, Head(rest))]
    <3>1. Head(rest) \in Listed
      BY <2>2
    <3>2. new = Head(rest)
      BY <3>1, ListedArePolicies, WireKeepsPolicy
    <3>3. incoming' = [rest |-> Tail(rest), got |-> Append(got, new)]
      BY <1>6 DEF RecvPolicy
    <3> QED  BY <3>2, <3>3
  <2>4. got \o rest \in lists
    BY <1>6 DEF ListsKept, RecvPolicy
  <2> HIDE DEF rest, got
  <2>5. /\ Append(got, Head(rest)) \in Seq(Listed) /\ Tail(rest) \in Seq(Listed)
        /\ Append(got, Head(rest)) \o Tail(rest) \in lists
    BY <2>2, <2>4, ReceiveKeepsWhole
  <2>6. incoming' \in [rest : Seq(Listed), got : Seq(Listed)]
        /\ incoming'.got \o incoming'.rest \in lists
    BY <2>3, <2>5
  <2>7. ListsKept'
    BY <1>1, <1>6, <2>6 DEF ListsKept, RecvPolicy
  <2> QED  BY <1>2, <2>1, <2>7
<1>7. CASE PoliciesLoaded
  <2>1. incoming.got \in Seq(Listed) /\ incoming.got \o incoming.rest \in lists
        /\ incoming.rest = << >>
    BY <1>7 DEF ListsKept, PoliciesLoaded
  <2>2. incoming.got \o << >> = incoming.got
    BY <2>1, ConcatEmptySeq
  <2>3. engine' \in lists
    BY <1>7, <2>1, <2>2 DEF PoliciesLoaded
  <2>4. TypeOK'
    BY <1>1, <1>7, <2>3 DEF TypeOK, PoliciesLoaded, At
  <2>5. ListsKept'
    BY <1>1, <1>7, <2>3 DEF ListsKept, PoliciesLoaded, Nothing
  <2> QED  BY <1>2, <2>4, <2>5
<1>8. CASE PoliciesFail
  <2>1. TypeOK'
    BY <1>1, <1>8 DEF TypeOK, PoliciesFail, At
  <2>2. ListsKept'
    BY <1>1, <1>8 DEF ListsKept, TypeOK, PoliciesFail, Nothing
  <2> QED  BY <1>2, <2>1, <2>2
<1>9. CASE ConnectSink
  <2>1. TypeOK'
    BY <1>1, <1>9 DEF TypeOK, ConnectSink, At
  <2>2. ListsKept'
    BY <1>1, <1>9 DEF ListsKept, ConnectSink
  <2> QED  BY <1>2, <2>1, <2>2
<1> QED  BY <1>4, <1>5, <1>6, <1>7, <1>8, <1>9 DEF Boot

LEMMA RefreshKeeps ==
  ASSUME QueryInv, RefreshLock \/ Refresh
  PROVE  QueryInv'
<1> USE DEF QueryInv
<1>1. UNCHANGED <<up, catalog, policies, versions, lists, log, proc, incoming, engine, sink, query>>
  BY DEF RefreshLock, Refresh, RefreshList, RefreshRecv, RefreshDone, RefreshFails,
         central, factory, client
<1>2. QueriesCleared'
  BY <1>1, ClearedKept
<1>3. CASE RefreshLock
  <2>1. TypeOK'
    BY <1>1, <1>3, QueryAssumption DEF TypeOK, RefreshLock, factory, At
  <2>2. ListsKept'
    BY <1>1, <1>3 DEF ListsKept, RefreshLock, factory, TypeOK
  <2> QED  BY <1>2, <2>1, <2>2
<1>4. CASE RefreshList
  <2>1. catalog \subseteq CatalogRows
    BY QueryAssumption DEF TypeOK
  <2>2. TypeOK'
    BY <1>1, <1>4, <2>1 DEF TypeOK, RefreshList, factory, client, At
  <2>3. ListsKept'
    BY <1>1, <1>4 DEF ListsKept, RefreshList, factory
  <2> QED  BY <1>2, <2>2, <2>3
<1>5. CASE RefreshRecv
  <2>1. PICK r \in refresh.rest :
          refresh' = [refresh EXCEPT !.rest = @ \ {r}, !.got = @ \cup {r}]
    BY <1>5 DEF RefreshRecv
  <2>2. /\ refresh' \in [phase : {"sleep", "list", "load"},
                         rest : SUBSET CatalogRows, got : SUBSET CatalogRows]
        /\ refresh'.phase = refresh.phase
        /\ refresh'.got \cup refresh'.rest = refresh.got \cup refresh.rest
    BY <2>1 DEF TypeOK
  <2>3. TypeOK'
    BY <1>1, <1>5, <2>2 DEF TypeOK, RefreshRecv, factory, client, At
  <2>4. ListsKept'
    BY <1>1, <1>5, <2>2 DEF ListsKept, RefreshRecv, factory
  <2> QED  BY <1>2, <2>3, <2>4
<1>6. CASE RefreshDone
  <2>1. cache' \in versions /\ cache' \subseteq CatalogRows /\ lock = "refresh"
    BY <1>6 DEF RefreshDone, ListsKept, TypeOK
  <2>2. TypeOK'
    BY <1>1, <1>6, <2>1, QueryAssumption DEF TypeOK, RefreshDone, Asleep, At
  <2>3. ListsKept'
    BY <1>1, <1>6, <2>1 DEF ListsKept, RefreshDone, Asleep
  <2> QED  BY <1>2, <2>2, <2>3
<1>7. CASE RefreshFails
  <2>1. lock = "refresh"
    BY <1>7 DEF RefreshFails, TypeOK
  <2>2. TypeOK'
    BY <1>1, <1>7, <2>1, QueryAssumption DEF TypeOK, RefreshFails, Asleep, factory, At
  <2>3. ListsKept'
    BY <1>1, <1>7 DEF ListsKept, RefreshFails, Asleep, factory
  <2> QED  BY <1>2, <2>2, <2>3
<1> QED  BY <1>3, <1>4, <1>5, <1>6, <1>7 DEF Refresh

\* Other queries hold the client, and calls to central hang, beside the queries followed here.
LEMMA OthersKeep ==
  ASSUME QueryInv, Others \/ ClientHangs
  PROVE  QueryInv'
<1> USE DEF QueryInv
<1>1. UNCHANGED <<up, catalog, policies, versions, lists, log, proc, incoming, engine, sink,
                  cache, refresh, query>>
  BY DEF Others, OtherLocks, OtherReturns, OtherLeaves, ClientHangs, central, factory
<1>2. \A o \in Queries \cup {"refresh"} : lock' = o <=> lock = o
  BY QueryAssumption DEF Others, OtherLocks, OtherReturns, OtherLeaves, ClientHangs, TypeOK
<1>3. hangs' \in BOOLEAN /\ (hangs' => lock' # None)
  <2>1. hangs \in BOOLEAN /\ (hangs => lock # None)
    BY DEF TypeOK
  <2>2. CASE OtherLocks
    BY <2>1, <2>2, QueryAssumption DEF OtherLocks
  <2>3. CASE OtherReturns
    BY <2>1, <2>3 DEF OtherReturns
  <2>4. CASE OtherLeaves
    BY <2>4 DEF OtherLeaves
  <2>5. CASE ClientHangs
    BY <2>5 DEF ClientHangs
  <2> QED  BY <2>2, <2>3, <2>4, <2>5 DEF Others
<1>4. TypeOK'
  BY <1>1, <1>2, <1>3 DEF TypeOK, At
<1>5. ListsKept'
  BY <1>1 DEF ListsKept
<1>6. QueriesCleared'
  BY <1>1, ClearedKept
<1> QED  BY <1>4, <1>5, <1>6

LEMMA CrashKeeps ==
  ASSUME QueryInv, QueryCrash
  PROVE  QueryInv'
<1> USE DEF QueryInv
<1>1. NoQuery \in QueryRecords /\ NoQuery.phase = "new"
  BY NoQueryRecord DEF NoQuery
<1>2. Gone \in QueryRecords /\ Gone.phase = "gone"
  BY GoneRecord
<1>3. query' = [q \in Queries |-> IF query[q].phase = "new" THEN NoQuery ELSE Gone]
  BY DEF QueryCrash
<1>4. \A q \in Queries : query'[q] \in QueryRecords /\ query'[q].phase \in {"new", "gone"}
  BY <1>1, <1>2, <1>3
<1>5. query' \in [Queries -> QueryRecords]
  BY <1>3, <1>4
<1>6. TypeOK'
  BY <1>4, <1>5, QueryAssumption DEF TypeOK, QueryCrash, Asleep, At, central
<1>7. ListsKept'
  BY DEF ListsKept, QueryCrash, Nothing, Asleep, central
<1>8. QueriesCleared'
  BY <1>4 DEF QueriesCleared, Live
<1> QED  BY <1>6, <1>7, <1>8

-----------------------------------------------------------------------------
(***************************************************************************)
(* A step of one query changes its record, the log and perhaps the lock.   *)
(***************************************************************************)
Logs == Seq({"QuerySubmitted", "QueryCompleted", "QueryFailed"} \X Queries)

LEMMA PublishLogs ==
  ASSUME TypeOK, NEW q \in Queries,
         NEW event \in {"QuerySubmitted", "QueryCompleted", "QueryFailed"}, Publish(event, q)
  PROVE  log' \in Logs
BY DEF Publish, TypeOK, Logs

LockStep(q, rec) ==
  /\ rec.phase = "fetch" <=> lock' = q
  /\ \A o \in (Queries \cup {"refresh"}) \ {q} : lock' = o <=> lock = o
  /\ hangs' \in BOOLEAN /\ (hangs' => lock' # None)

LEMMA QueryStepKeeps ==
  ASSUME QueryInv, NEW q \in Queries, NEW rec \in QueryRecords,
         query' = [query EXCEPT ![q] = rec],
         UNCHANGED <<central, factory, refresh>>,
         log' \in Logs, LockStep(q, rec),
         rec.phase \notin {"new", "gone"} => proc = "up" /\ Cleared(rec)
  PROVE  QueryInv'
<1> USE DEF QueryInv
<1>1. query' \in [Queries -> QueryRecords] /\ query'[q] = rec
      /\ \A o \in Queries \ {q} : query'[o] = query[o]
  BY DEF TypeOK
<1>2. /\ UNCHANGED <<up, catalog, policies, versions, lists, proc, incoming, engine, sink,
                     cache, refresh>>
  BY DEF central, factory
<1>3. \A o \in Queries : query'[o].phase = "fetch" <=> lock' = o
  <2>1. \A o \in Queries \ {q} : query'[o].phase = "fetch" <=> lock' = o
    BY <1>1 DEF LockStep, TypeOK, At
  <2> QED  BY <1>1, <2>1 DEF LockStep
<1>4. refresh'.phase # "sleep" <=> lock' = "refresh"
  BY <1>2, QueryAssumption DEF LockStep, TypeOK
<1> HIDE DEF QueryInv
<1>5. TypeOK'
  <2>1. hangs' \in BOOLEAN /\ (hangs' => lock' # None)
    BY DEF LockStep
  <2> QED  BY <1>1, <1>2, <1>3, <1>4, <2>1 DEF QueryInv, TypeOK, Logs, At
<1> USE DEF QueryInv
<1>6. ListsKept'
  BY <1>2 DEF ListsKept
<1>7. ASSUME NEW o \in Queries, Live(o)' PROVE proc' = "up" /\ Cleared(query[o])'
  <2>1. \A u : Readable(u)' = Readable(u)
    BY <1>2, ReadableKept
  <2>2. CASE o = q
    <3>1. proc' = "up" /\ Cleared(rec) /\ query'[o] = rec
      BY <1>1, <1>2, <1>7, <2>2 DEF Live
    <3> QED  BY <2>1, <3>1 DEF Cleared
  <2>3. CASE o # q
    <3>1. query'[o] = query[o] /\ Live(o)
      BY <1>1, <1>7, <2>3 DEF Live
    <3>2. proc' = "up" /\ Cleared(query[o])
      BY <1>2, <3>1 DEF QueriesCleared
    <3> QED  BY <2>1, <3>1, <3>2 DEF Cleared
  <2> QED  BY <2>2, <2>3
<1> QED  BY <1>5, <1>6, <1>7 DEF QueriesCleared

\* The lock is not touched by a query that neither has it nor takes it.
LEMMA LockLeft ==
  ASSUME TypeOK, NEW q \in Queries, NEW rec, UNCHANGED client,
         query[q].phase # "fetch", rec.phase # "fetch"
  PROVE  LockStep(q, rec)
BY DEF LockStep, TypeOK, At, client

LEMMA LockDropped ==
  ASSUME TypeOK, NEW q \in Queries, NEW rec, lock' = None, hangs' = FALSE,
         query[q].phase = "fetch", rec.phase # "fetch"
  PROVE  LockStep(q, rec)
BY QueryAssumption DEF LockStep, TypeOK, At

\* The step of a query that holds the client neither before nor after.
LEMMA FreeStepKeeps ==
  ASSUME QueryInv, NEW q \in Queries, NEW rec \in QueryRecords,
         query' = [query EXCEPT ![q] = rec], UNCHANGED <<central, factory, client, refresh>>,
         log' \in Logs, query[q].phase # "fetch", rec.phase # "fetch",
         rec.phase \notin {"new", "gone"} => proc = "up" /\ Cleared(rec)
  PROVE  QueryInv'
<1>1. LockStep(q, rec)
  BY LockLeft DEF QueryInv
<1> QED  BY <1>1, QueryStepKeeps

LEMMA RecordFields ==
  ASSUME TypeOK, NEW q \in Queries
  PROVE  /\ query[q] \in QueryRecords
         /\ query[q].tables \in Seq(Tables) /\ query[q].todo \in Seq(Tables)
         /\ query[q].session \subseteq CatalogRows /\ query[q].scans \subseteq CatalogRows
BY DEF TypeOK, QueryRecords

-----------------------------------------------------------------------------
LEMMA AcceptKeeps ==
  ASSUME QueryInv, NEW q \in Queries, ListCatalog(q) \/ Submit(q)
  PROVE  QueryInv'
<1> USE DEF QueryInv
<1>1. CASE ListCatalog(q)
  <2>1. PICK u \in Users : query' = [query EXCEPT ![q] =
          [NoQuery EXCEPT !.phase = "done", !.user = u, !.status = 200,
                          !.shown = TableNames(cache, [user_id |-> u, groups |-> {}])]]
    BY <1>1 DEF ListCatalog
  <2> DEFINE shown == TableNames(cache, [user_id |-> u, groups |-> {}])
             rec   == [NoQuery EXCEPT !.phase = "done", !.user = u, !.status = 200,
                                      !.shown = shown]
  <2>2. shown \subseteq Readable(u) /\ shown \subseteq Tables
    BY DEF TableNames, Readable, TypeOK, CatalogRows
  <2> HIDE DEF shown
  <2>3. /\ rec.phase = "done" /\ rec.user = u /\ rec.tables = << >> /\ rec.scans = {}
        /\ rec.kind = None /\ rec.status = 200 /\ rec.asked = {} /\ rec.called = {} /\ rec.shown = shown
    BY DEF NoQuery
  <2>4. rec \in QueryRecords
    <3> DEFINE r == [NoQuery EXCEPT !.phase = "done", !.user = u]
    <3>1. r \in QueryRecords
      BY NoQueryRecord DEF QueryRecords, Phases
    <3> HIDE DEF r
    <3>2. [r EXCEPT !.status = 200, !.shown = shown] \in QueryRecords
      <4>1. 200 \in Statuses
        BY DEF Statuses
      <4> QED  BY <2>2, <3>1, <4>1 DEF QueryRecords
    <3> QED  BY <3>2 DEF r
  <2> HIDE DEF rec
  <2>5. Cleared(rec)
    BY <2>2, <2>3 DEF Cleared, Elems
  <2>6. rec.phase = "done" /\ proc = "up" /\ query[q].phase # "fetch"
    BY <1>1, <2>3 DEF ListCatalog, At
  <2>7. query' = [query EXCEPT ![q] = rec]
    BY <2>1 DEF shown, rec
  <2>8. UNCHANGED <<central, factory, client, refresh>> /\ log' \in Logs
    BY <1>1 DEF ListCatalog, TypeOK, Logs
  <2> QED  BY <2>4, <2>5, <2>6, <2>7, <2>8, FreeStepKeeps
<1>2. CASE Submit(q)
  <2>1. PICK u \in Users, req \in Requests : query' = [query EXCEPT ![q] =
          [NoQuery EXCEPT !.phase = "submit", !.user = u, !.kind = req.kind,
                          !.tables = req.tables, !.todo = req.tables, !.session = cache]]
    BY <1>2 DEF Submit
  <2> DEFINE rec == [NoQuery EXCEPT !.phase = "submit", !.user = u, !.kind = req.kind,
                          !.tables = req.tables, !.todo = req.tables, !.session = cache]
  <2>2. /\ rec.phase = "submit" /\ rec.user = u /\ rec.tables = req.tables
        /\ rec.todo = req.tables /\ rec.scans = {} /\ rec.status = None
        /\ rec.asked = {} /\ rec.called = {} /\ rec.shown = {}
    BY DEF NoQuery
  <2>3. rec \in QueryRecords
    <3> DEFINE r == [NoQuery EXCEPT !.phase = "submit", !.user = u]
    <3>1. r \in QueryRecords
      BY NoQueryRecord DEF QueryRecords, Phases
    <3> HIDE DEF r
    <3>2. req.tables \in Seq(Tables) /\ req.kind \in {None, "select", "create"}
          /\ cache \in SUBSET CatalogRows
      BY QueryAssumption DEF TypeOK
    <3>3. [r EXCEPT !.kind = req.kind, !.tables = req.tables, !.todo = req.tables,
                    !.session = cache] \in QueryRecords
      BY <3>1, <3>2 DEF QueryRecords
    <3> QED  BY <3>3 DEF r
  <2> HIDE DEF rec
  <2>4. Cleared(rec)
    BY <2>2 DEF Cleared
  <2>5. rec.phase = "submit" /\ proc = "up" /\ query[q].phase # "fetch"
    BY <1>2, <2>2 DEF Submit, At
  <2>6. query' = [query EXCEPT ![q] = rec]
    BY <2>1 DEF rec
  <2>7. UNCHANGED <<central, factory, client, refresh>> /\ log' \in Logs
    BY <1>2 DEF Submit, TypeOK, Logs
  <2> QED  BY <2>3, <2>4, <2>5, <2>6, <2>7, FreeStepKeeps
<1> QED  BY <1>1, <1>2

\* The record of a query that has called the executor of a table.
LEMMA CalledRecord ==
  ASSUME NEW rec \in QueryRecords, NEW r \in CatalogRows
  PROVE  /\ Called(rec, r) \in QueryRecords
         /\ LET new == Called(rec, r) IN
            /\ new.phase = rec.phase /\ new.status = rec.status /\ new.user = rec.user
            /\ new.tables = rec.tables /\ new.scans = rec.scans \ {r}
            /\ new.asked = rec.asked
            /\ new.called = rec.called \cup {r.table} /\ new.shown = rec.shown
<1> DEFINE calls == rec.called \cup {r.table}
           left  == rec.scans \ {r}
           new   == [rec EXCEPT !.scans = left, !.called = calls]
<1>1. calls \in SUBSET Tables /\ left \in SUBSET CatalogRows
  BY DEF QueryRecords, CatalogRows
<1>2. Called(rec, r) = new
  BY DEF Called
<1> HIDE DEF calls, left
<1>3. new \in QueryRecords
  BY <1>1 DEF QueryRecords
<1>4. /\ new.phase = rec.phase /\ new.status = rec.status /\ new.user = rec.user
      /\ new.tables = rec.tables /\ new.scans = left /\ new.asked = rec.asked
      /\ new.called = calls /\ new.shown = rec.shown
  BY DEF QueryRecords
<1> QED  BY <1>2, <1>3, <1>4 DEF calls, left

\* The record of a query that has its answer.
LEMMA AnsweredRecord ==
  ASSUME NEW r \in QueryRecords, NEW status \in {200, 403, 500}
  PROVE  /\ Answered(r, status) \in QueryRecords
         /\ LET new == Answered(r, status) IN
            /\ new.phase = "finish" /\ new.status = status
            /\ new.user = r.user /\ new.tables = r.tables /\ new.scans = {}
            /\ new.kind = r.kind /\ new.asked = r.asked /\ new.called = r.called
            /\ new.shown = r.shown
<1> DEFINE none == {}
           nil  == << >>
           new  == [r EXCEPT !.phase = "finish", !.todo = nil, !.session = none,
                             !.scans = none, !.status = status]
<1>1. "finish" \in Phases /\ status \in Statuses
  BY DEF Phases, Statuses
<1>2. none \in SUBSET CatalogRows /\ nil \in Seq(Tables)
  OBVIOUS
<1> HIDE DEF none, nil
<1>3. new \in QueryRecords
  BY <1>1, <1>2 DEF QueryRecords
<1>4. /\ new.phase = "finish" /\ new.status = status
      /\ new.user = r.user /\ new.tables = r.tables /\ new.scans = none
      /\ new.kind = r.kind /\ new.asked = r.asked /\ new.called = r.called
      /\ new.shown = r.shown
  BY DEF QueryRecords
<1> HIDE DEF new
<1>5. Answered(r, status) = new
  BY DEF Answered, new, none, nil
<1> QED  BY <1>3, <1>4, <1>5 DEF none

\* The record of a query that goes on after a table that was not found.
MissingRecord(r) == [r EXCEPT !.phase = "plan", !.todo = Tail(@), !.missing = TRUE]

\* What a query being served has to begin with.
LEMMA ServedIsCleared ==
  ASSUME QueryInv, NEW q \in Queries, query[q].phase \notin {"new", "gone"}
  PROVE  proc = "up" /\ Cleared(query[q])
BY DEF QueryInv, QueriesCleared, Live

\* The first name to resolve.
LEMMA AskedIsTable ==
  ASSUME TypeOK, NEW q \in Queries, query[q].todo # << >>
  PROVE  /\ Asked(q) \in Tables /\ Tail(query[q].todo) \in Seq(Tables)
         /\ Elems(query[q].todo) \subseteq {Asked(q)} \cup Elems(Tail(query[q].todo))
BY RecordFields, ElemsHeadTail DEF Asked

\* table() of the provider answers only for the tables its user may read.
LEMMA ReachableIsReadable ==
  ASSUME NEW q \in Queries, NEW t \in Tables, Reachable(q, t)
  PROVE  t \in Readable(query[q].user)
BY DEF Reachable, Visible, Subject, Readable

\* A table that is hidden or that central does not have: planning goes on without it.
LEMMA MissingKeeps ==
  ASSUME QueryInv, NEW q \in Queries, query[q].phase \in {"plan", "fetch"},
         query[q].todo # << >>, query' = NotFound(q),
         query[q].phase = "fetch" => lock' = None /\ hangs' = FALSE,
         query[q].phase # "fetch" => UNCHANGED client,
         UNCHANGED <<central, factory, refresh, log>>
  PROVE  QueryInv'
<1> DEFINE R   == query[q]
           rec == MissingRecord(R)
<1>1. TypeOK /\ R \in QueryRecords /\ query \in [Queries -> QueryRecords]
  BY RecordFields DEF QueryInv, TypeOK
<1>2. proc = "up" /\ Cleared(R)
  BY ServedIsCleared
<1>3. Tail(R.todo) \in Seq(Tables)
  BY <1>1, AskedIsTable
<1>4. rec \in QueryRecords
  BY <1>1, <1>3 DEF MissingRecord, QueryRecords, Phases
<1>5. /\ rec.phase = "plan" /\ rec.user = R.user /\ rec.scans = R.scans /\ rec.missing
      /\ rec.status = R.status
      /\ rec.asked = R.asked /\ rec.called = R.called /\ rec.shown = R.shown
  BY <1>1 DEF MissingRecord, QueryRecords
<1>6. query' = [query EXCEPT ![q] = rec]
  BY <1>1 DEF NotFound, MissingRecord
<1> HIDE DEF rec
<1>7. Cleared(rec)
  BY <1>2, <1>5 DEF Cleared
<1>8. LockStep(q, rec)
  BY <1>1, <1>5, LockLeft, LockDropped
<1>9. log' \in Logs
  BY <1>1 DEF TypeOK, Logs
<1> QED  BY <1>2, <1>4, <1>5, <1>6, <1>7, <1>8, <1>9, QueryStepKeeps

\* ctx.sql's error and get_dataset's: the query fails before any executor is called.
LEMMA FailKeeps ==
  ASSUME QueryInv, NEW q \in Queries, query[q].phase \in {"plan", "fetch"},
         query' = [query EXCEPT ![q] = Answered(query[q], 500)],
         query[q].phase = "fetch" => lock' = None /\ hangs' = FALSE,
         query[q].phase # "fetch" => UNCHANGED client,
         UNCHANGED <<central, factory, refresh, log>>
  PROVE  QueryInv'
<1> DEFINE R   == query[q]
           rec == Answered(R, 500)
<1>1. TypeOK /\ R \in QueryRecords /\ query \in [Queries -> QueryRecords]
  BY RecordFields DEF QueryInv, TypeOK
<1>2. proc = "up" /\ Cleared(R)
  BY ServedIsCleared
<1>3. /\ rec.phase = "finish" /\ rec.user = R.user /\ rec.tables = R.tables
      /\ rec.scans = {} /\ rec.status = 500
      /\ rec.asked = R.asked /\ rec.called = R.called /\ rec.shown = R.shown
  BY <1>1, AnsweredRecord
<1>4. rec \in QueryRecords
  BY <1>1, AnsweredRecord
<1>5. query' = [query EXCEPT ![q] = rec]
  OBVIOUS
<1> HIDE DEF rec
<1>6. Cleared(rec)
  BY <1>2, <1>3 DEF Cleared
<1>7. LockStep(q, rec)
  BY <1>1, <1>3, LockLeft, LockDropped
<1>8. log' \in Logs
  BY <1>1 DEF TypeOK, Logs
<1> QED  BY <1>2, <1>3, <1>4, <1>5, <1>6, <1>7, <1>8, QueryStepKeeps

\* QuerySubmitted is published.
LEMMA PrepareKeeps ==
  ASSUME QueryInv, NEW q \in Queries, PublishSubmitted(q)
  PROVE  QueryInv'
<1> DEFINE R   == query[q]
           rec == [R EXCEPT !.phase = "plan"]
<1>1. TypeOK /\ R \in QueryRecords /\ query \in [Queries -> QueryRecords]
  BY RecordFields DEF QueryInv, TypeOK
<1>2. R.phase = "submit"
  BY DEF PublishSubmitted, At
<1>3. proc = "up" /\ Cleared(R)
  BY <1>2, ServedIsCleared
<1>4. rec \in QueryRecords
  BY <1>1 DEF QueryRecords, Phases
<1>5. query' = [query EXCEPT ![q] = rec]
  BY <1>1 DEF PublishSubmitted
<1>6. /\ rec.phase = "plan" /\ rec.user = R.user /\ rec.tables = R.tables
      /\ rec.todo = R.todo /\ rec.scans = R.scans /\ rec.status = R.status
      /\ rec.missing = R.missing
      /\ rec.asked = R.asked /\ rec.called = R.called /\ rec.shown = R.shown
  BY <1>1 DEF QueryRecords
<1> HIDE DEF rec
<1>7. Cleared(rec)
  BY <1>2, <1>3, <1>6 DEF Cleared
<1>8. UNCHANGED <<central, factory, client, refresh>> /\ log' \in Logs
  BY <1>1, PublishLogs DEF PublishSubmitted
<1> QED  BY <1>2, <1>3, <1>4, <1>5, <1>6, <1>7, <1>8, FreeStepKeeps

\* Name resolution: hidden or missing, in the session, or asked of central.
LEMMA ResolveKeeps ==
  ASSUME QueryInv, NEW q \in Queries, ResolveNone(q) \/ ResolveCached(q) \/ ResolveMiss(q)
  PROVE  QueryInv'
<1> DEFINE R == query[q]
<1>1. TypeOK /\ R \in QueryRecords /\ query \in [Queries -> QueryRecords]
  BY RecordFields DEF QueryInv, TypeOK
<1>2. R.phase = "plan" /\ R.todo # << >>
  BY DEF ResolveNone, ResolveCached, ResolveMiss, Misses, At
<1>3. proc = "up" /\ Cleared(R)
  BY <1>2, ServedIsCleared
<1>4. /\ Asked(q) \in Tables /\ Tail(R.todo) \in Seq(Tables)
      /\ Elems(R.todo) \subseteq {Asked(q)} \cup Elems(Tail(R.todo))
  BY <1>1, <1>2, AskedIsTable
<1>5. CASE ResolveNone(q)
  BY <1>2, <1>5, MissingKeeps DEF ResolveNone
<1>6. CASE ResolveCached(q)
  <2> DEFINE row == RowFor(R.session, Asked(q))
             rec == [R EXCEPT !.todo = Tail(@), !.scans = @ \cup {row}]
  <2>1. row \in R.session /\ row.table = Asked(q)
    BY <1>6 DEF ResolveCached, RowFor, Has
  <2>2. row \in CatalogRows /\ Asked(q) \in Readable(R.user)
    BY <1>1, <1>4, <1>6, <2>1, RecordFields, ReachableIsReadable DEF ResolveCached
  <2>3. query' = [query EXCEPT ![q] = rec]
    BY <1>1, <1>6 DEF ResolveCached
  <2> HIDE DEF row
  <2>4. rec \in QueryRecords
    BY <1>1, <1>4, <2>2 DEF QueryRecords
  <2>5. /\ rec.phase = R.phase /\ rec.user = R.user /\ rec.tables = R.tables
        /\ rec.todo = Tail(R.todo) /\ rec.scans = R.scans \cup {row} /\ rec.status = R.status
        /\ rec.missing = R.missing
        /\ rec.asked = R.asked /\ rec.called = R.called /\ rec.shown = R.shown
    BY <1>1 DEF QueryRecords
  <2> HIDE DEF rec
  <2>6. Cleared(rec)
    BY <1>2, <1>3, <1>4, <2>1, <2>2, <2>5 DEF Cleared
  <2>7. UNCHANGED <<central, factory, client, refresh>> /\ log' \in Logs
    BY <1>1, <1>6 DEF ResolveCached, TypeOK, Logs
  <2> QED  BY <1>2, <1>3, <2>3, <2>4, <2>5, <2>6, <2>7, FreeStepKeeps
<1>7. CASE ResolveMiss(q)
  <2> DEFINE rec == [R EXCEPT !.phase = "fetch", !.asked = @ \cup {Asked(q)}]
  <2>1. Asked(q) \in Readable(R.user)
    BY <1>4, <1>7, ReachableIsReadable DEF ResolveMiss, Misses
  <2>2. query' = [query EXCEPT ![q] = rec]
    BY <1>1, <1>7 DEF ResolveMiss
  <2>3. rec \in QueryRecords
    BY <1>1, <1>4 DEF QueryRecords, Phases
  <2>4. /\ rec.phase = "fetch" /\ rec.user = R.user /\ rec.tables = R.tables
        /\ rec.todo = R.todo /\ rec.scans = R.scans /\ rec.status = R.status
        /\ rec.missing = R.missing /\ rec.asked = R.asked \cup {Asked(q)} /\ rec.called = R.called /\ rec.shown = R.shown
    BY <1>1 DEF QueryRecords
  <2> HIDE DEF rec
  <2>5. Cleared(rec)
    BY <1>2, <1>3, <2>1, <2>4 DEF Cleared
  <2>6. LockStep(q, rec)
    BY <1>1, <1>7, <2>4, QueryAssumption DEF ResolveMiss, LockStep, TypeOK
  <2>7. UNCHANGED <<central, factory, refresh>> /\ log' \in Logs
    BY <1>1, <1>7 DEF ResolveMiss, TypeOK, Logs
  <2> QED  BY <1>3, <2>2, <2>3, <2>5, <2>6, <2>7, QueryStepKeeps
<1> QED  BY <1>5, <1>6, <1>7

\* get_dataset returns.
LEMMA FetchKeeps ==
  ASSUME QueryInv, NEW q \in Queries, Fetch(q)
  PROVE  QueryInv'
<1> DEFINE R == query[q]
<1>1. TypeOK /\ R \in QueryRecords /\ query \in [Queries -> QueryRecords]
  BY RecordFields DEF QueryInv, TypeOK
<1>2. R.phase = "fetch"
  BY DEF Fetch, At
<1>3. proc = "up" /\ Cleared(R)
  BY <1>2, ServedIsCleared
<1>4. lock' = None /\ hangs' = FALSE /\ UNCHANGED <<central, factory, refresh, log>>
  BY <1>1 DEF Fetch, TypeOK
<1>5. CASE up /\ Has(catalog, Asked(q)) /\
           query' = [query EXCEPT ![q].phase = "plan",
                                  ![q].session = @ \cup {RowFor(catalog, Asked(q))}]
  <2> DEFINE row == RowFor(catalog, Asked(q))
             rec == [R EXCEPT !.phase = "plan", !.session = @ \cup {row}]
  <2>1. row \in CatalogRows
    BY <1>1, <1>5, QueryAssumption DEF RowFor, Has, TypeOK
  <2>2. query' = [query EXCEPT ![q] = rec]
    BY <1>1, <1>5
  <2> HIDE DEF row
  <2>3. rec \in QueryRecords
    BY <1>1, <2>1 DEF QueryRecords, Phases
  <2>4. /\ rec.phase = "plan" /\ rec.user = R.user /\ rec.tables = R.tables
        /\ rec.todo = R.todo /\ rec.scans = R.scans /\ rec.status = R.status
        /\ rec.missing = R.missing /\ rec.asked = R.asked /\ rec.called = R.called /\ rec.shown = R.shown
    BY <1>1 DEF QueryRecords
  <2> HIDE DEF rec
  <2>5. Cleared(rec)
    BY <1>2, <1>3, <2>4 DEF Cleared
  <2>6. LockStep(q, rec)
    BY <1>1, <1>2, <1>4, <2>4, LockDropped
  <2>7. log' \in Logs
    BY <1>1, <1>4 DEF TypeOK, Logs
  <2> QED  BY <1>3, <1>4, <2>2, <2>3, <2>5, <2>6, <2>7, QueryStepKeeps
<1>6. CASE query' = NotFound(q)
  <2>1. R.todo # << >>
    BY <1>2, <1>3 DEF Cleared
  <2> QED  BY <1>2, <1>4, <1>6, <2>1, MissingKeeps
<1>7. CASE query' = [query EXCEPT ![q] = Answered(query[q], 500)]
  BY <1>2, <1>4, <1>7, FailKeeps
<1> QED  BY <1>5, <1>6, <1>7 DEF Fetch

\* The optimizer rule, the calls to executors and what becomes of them.
LEMMA ScanKeeps ==
  ASSUME QueryInv, NEW q \in Queries,
         \/ CreateTable(q) \/ PhysicalPlan(q) \/ Scan(q) \/ ScanFails(q) \/ ScanHangs(q)
         \/ Collected(q)
  PROVE  QueryInv'
<1> DEFINE R == query[q]
<1>1. TypeOK /\ R \in QueryRecords /\ query \in [Queries -> QueryRecords]
      /\ R.scans \subseteq CatalogRows
  BY RecordFields DEF QueryInv, TypeOK
<1>2. R.phase \in {"plan", "scan"}
  BY DEF CreateTable, PhysicalPlan, Scan, ScanFails, ScanHangs, Collected, At
<1>3. proc = "up" /\ Cleared(R)
  BY <1>2, ServedIsCleared
<1>4. UNCHANGED <<central, factory, client, refresh>> /\ log' \in Logs
  BY <1>1 DEF CreateTable, PhysicalPlan, Scan, ScanFails, ScanHangs, Collected, TypeOK, Logs
<1>5. \A r \in R.scans : r.table \in Tables
  BY <1>1 DEF CatalogRows
<1>6. ASSUME NEW rec \in QueryRecords, query' = [query EXCEPT ![q] = rec], Cleared(rec),
             rec.phase # "fetch"
      PROVE  QueryInv'
  BY <1>2, <1>3, <1>4, <1>6, FreeStepKeeps
<1>7. CASE PhysicalPlan(q)
  <2> DEFINE left == {r \in R.scans : Visible(q, r.table)}
             rec  == [R EXCEPT !.phase = "scan", !.scans = left]
  <2>1. R.phase = "plan" /\ R.todo = << >> /\ ~R.missing /\ query' = [query EXCEPT ![q] = rec]
    BY <1>1, <1>7 DEF PhysicalPlan, At
  <2>2. left \subseteq R.scans
    OBVIOUS
  <2> HIDE DEF left
  <2>3. rec \in QueryRecords
    BY <1>1, <2>2 DEF QueryRecords, Phases
  <2>4. /\ rec.phase = "scan" /\ rec.user = R.user /\ rec.tables = R.tables
        /\ rec.scans = left /\ rec.status = R.status
        /\ rec.asked = R.asked /\ rec.called = R.called /\ rec.shown = R.shown
    BY <1>1 DEF QueryRecords
  <2> HIDE DEF rec
  <2>5. Elems(R.todo) = {}
    BY <2>1 DEF Elems
  <2>6. Cleared(rec)
    BY <1>3, <2>1, <2>2, <2>4, <2>5 DEF Cleared
  <2> QED  BY <1>6, <2>1, <2>3, <2>4, <2>6
<1>8. CASE Scan(q)
  <2>1. PICK r \in R.scans :
          query' = [query EXCEPT ![q] = Called(query[q], r)]
    BY <1>8 DEF Scan
  <2> DEFINE rec == Called(R, r)
  <2>2. query' = [query EXCEPT ![q] = rec] /\ R.phase = "scan"
    BY <1>8, <2>1 DEF Scan, At
  <2>3. rec \in QueryRecords /\ rec.phase = R.phase /\ rec.status = R.status
        /\ rec.user = R.user /\ rec.tables = R.tables /\ rec.scans = R.scans \ {r}
        /\ rec.asked = R.asked /\ rec.called = R.called \cup {r.table}
        /\ rec.shown = R.shown
    BY <1>1, CalledRecord
  <2> HIDE DEF rec
  <2>4. Cleared(rec)
    BY <1>3, <2>2, <2>3 DEF Cleared
  <2> QED  BY <1>6, <2>2, <2>3, <2>4
<1>9. CASE ScanFails(q)
  <2>1. PICK r \in R.scans, status \in {403, 500} :
          query' = [query EXCEPT ![q] = Answered(Called(query[q], r), status)]
    BY <1>9 DEF ScanFails
  <2> DEFINE called == Called(R, r)
             rec    == Answered(called, status)
  <2>2. query' = [query EXCEPT ![q] = rec] /\ R.phase = "scan"
    BY <1>9, <2>1 DEF ScanFails, At
  <2>3. called \in QueryRecords /\ called.user = R.user /\ called.tables = R.tables
        /\ called.asked = R.asked /\ called.called = R.called \cup {r.table}
        /\ called.shown = R.shown
    BY <1>1, CalledRecord
  <2> HIDE DEF called
  <2>4. rec \in QueryRecords
    BY <2>3, AnsweredRecord
  <2>5. /\ rec.phase = "finish" /\ rec.user = R.user /\ rec.tables = R.tables
        /\ rec.scans = {}
        /\ rec.asked = R.asked /\ rec.called = R.called \cup {r.table} /\ rec.shown = R.shown
    BY <2>3, AnsweredRecord
  <2> HIDE DEF rec
  <2>6. Cleared(rec)
    BY <1>3, <2>2, <2>5 DEF Cleared
  <2> QED  BY <1>6, <2>2, <2>4, <2>5, <2>6
<1>10. CASE ScanHangs(q)
  <2>1. PICK r \in R.scans :
          query' = [query EXCEPT ![q] = [Called(query[q], r) EXCEPT !.phase = "hung"]]
    BY <1>10 DEF ScanHangs
  <2> DEFINE called == Called(R, r)
             rec    == [called EXCEPT !.phase = "hung"]
  <2>2. called \in QueryRecords /\ called.phase = R.phase /\ called.status = R.status
        /\ called.user = R.user /\ called.tables = R.tables /\ called.scans \subseteq R.scans
        /\ called.asked = R.asked /\ called.called = R.called \cup {r.table}
        /\ called.shown = R.shown
    BY <1>1, CalledRecord
  <2>3. query' = [query EXCEPT ![q] = rec] /\ R.phase = "scan"
    BY <1>10, <2>1 DEF ScanHangs, At
  <2> HIDE DEF called
  <2>4. rec \in QueryRecords
    BY <2>2 DEF QueryRecords, Phases
  <2>5. /\ rec.phase = "hung" /\ rec.user = R.user /\ rec.tables = R.tables
        /\ rec.scans \subseteq R.scans /\ rec.status = R.status
        /\ rec.asked = R.asked /\ rec.called = R.called \cup {r.table} /\ rec.shown = R.shown
    BY <2>2 DEF QueryRecords
  <2> HIDE DEF rec
  <2>6. Cleared(rec)
    BY <1>3, <2>3, <2>5 DEF Cleared
  <2> QED  BY <1>6, <2>3, <2>4, <2>5, <2>6
<1>11. CASE Collected(q)
  <2> DEFINE rec == Answered(R, 200)
  <2>1. query' = [query EXCEPT ![q] = rec] /\ R.phase = "scan"
    BY <1>11 DEF Collected, At
  <2>2. rec \in QueryRecords
    BY <1>1, AnsweredRecord
  <2>3. /\ rec.phase = "finish" /\ rec.user = R.user /\ rec.tables = R.tables
        /\ rec.scans = {}
        /\ rec.asked = R.asked /\ rec.called = R.called /\ rec.shown = R.shown
    BY <1>1, AnsweredRecord
  <2> HIDE DEF rec
  <2>4. Cleared(rec)
    BY <1>3, <2>1, <2>3 DEF Cleared
  <2> QED  BY <1>6, <2>1, <2>2, <2>3, <2>4
<1>12. CASE CreateTable(q)
  <2>1. PICK status \in {200, 500} : query' = [query EXCEPT ![q] = Answered(query[q], status)]
    BY <1>12 DEF CreateTable
  <2> DEFINE rec == Answered(R, status)
  <2>2. query' = [query EXCEPT ![q] = rec] /\ R.kind = "create"
    BY <1>12, <2>1 DEF CreateTable
  <2>3. rec \in QueryRecords
    BY <1>1, AnsweredRecord
  <2>4. /\ rec.phase = "finish" /\ rec.user = R.user /\ rec.kind = R.kind /\ rec.scans = {}
        /\ rec.asked = R.asked /\ rec.called = R.called /\ rec.shown = R.shown
    BY <1>1, AnsweredRecord
  <2> HIDE DEF rec
  <2>5. Cleared(rec)
    BY <1>3, <2>2, <2>4 DEF Cleared
  <2> QED  BY <1>6, <2>2, <2>3, <2>4, <2>5
<1> QED  BY <1>7, <1>8, <1>9, <1>10, <1>11, <1>12

\* The reply, the event central never answers, and the handler that is dropped.
LEMMA EndKeeps ==
  ASSUME QueryInv, NEW q \in Queries, Reply(q) \/ PublishHangs(q) \/ Abandon(q)
  PROVE  QueryInv'
<1> DEFINE R == query[q]
<1>1. TypeOK /\ R \in QueryRecords /\ query \in [Queries -> QueryRecords]
  BY RecordFields DEF QueryInv, TypeOK
<1>2. FinalEvent(q) \in {"QuerySubmitted", "QueryCompleted", "QueryFailed"}
  BY DEF FinalEvent
<1>3. log' \in Logs
  <2>1. CASE Publish("QuerySubmitted", q)
    BY <1>1, <2>1, PublishLogs
  <2>2. CASE Publish(FinalEvent(q), q)
    BY <1>1, <1>2, <2>2, PublishLogs
  <2>3. CASE log' = log
    BY <1>1, <2>3 DEF TypeOK, Logs
  <2> QED  BY <2>1, <2>2, <2>3 DEF Reply, PublishHangs, Abandon
<1>4. CASE Reply(q)
  <2> DEFINE rec == [R EXCEPT !.phase = "done"]
  <2>1. query' = [query EXCEPT ![q] = rec] /\ R.phase = "finish"
    BY <1>1, <1>4 DEF Reply, At
  <2>2. rec \in QueryRecords
    BY <1>1 DEF QueryRecords, Phases
  <2>3. /\ rec.phase = "done" /\ rec.user = R.user /\ rec.tables = R.tables
        /\ rec.scans = R.scans /\ rec.status = R.status /\ rec.kind = R.kind
        /\ rec.asked = R.asked /\ rec.called = R.called /\ rec.shown = R.shown
    BY <1>1 DEF QueryRecords
  <2> HIDE DEF rec
  <2>4. proc = "up" /\ Cleared(R)
    BY <2>1, ServedIsCleared
  <2>5. Cleared(rec)
    BY <2>1, <2>3, <2>4 DEF Cleared
  <2>6. UNCHANGED <<central, factory, client, refresh>>
    BY <1>4 DEF Reply
  <2> QED  BY <1>3, <2>1, <2>2, <2>3, <2>4, <2>5, <2>6, FreeStepKeeps
<1>5. CASE Abandon(q)
  <2> DEFINE rec == Gone
  <2>1. query' = [query EXCEPT ![q] = rec] /\ UNCHANGED <<central, factory, refresh>>
        /\ lock' = (IF lock = q THEN None ELSE lock) /\ hangs' = (hangs /\ lock # q)
    BY <1>1, <1>5 DEF Abandon
  <2>2. rec \in QueryRecords /\ rec.phase = "gone"
    BY GoneRecord
  <2> HIDE DEF rec
  <2>3. LockStep(q, rec)
    BY <1>1, <2>1, <2>2, QueryAssumption DEF LockStep, TypeOK, At
  <2> QED  BY <1>3, <2>1, <2>2, <2>3, QueryStepKeeps
<1>6. CASE PublishHangs(q)
  <2> DEFINE rec == [R EXCEPT !.phase = "stuck"]
  <2>1. query' = [query EXCEPT ![q] = rec] /\ R.phase \in {"submit", "finish"}
    BY <1>1, <1>6 DEF PublishHangs, At
  <2>2. rec \in QueryRecords
    BY <1>1 DEF QueryRecords, Phases
  <2>3. /\ rec.phase = "stuck" /\ rec.user = R.user /\ rec.tables = R.tables
        /\ rec.scans = R.scans /\ rec.status = R.status /\ rec.kind = R.kind
        /\ rec.asked = R.asked /\ rec.called = R.called /\ rec.shown = R.shown
    BY <1>1 DEF QueryRecords
  <2> HIDE DEF rec
  <2>4. proc = "up" /\ Cleared(R)
    BY <2>1, ServedIsCleared
  <2>5. Cleared(rec)
    BY <2>1, <2>3, <2>4 DEF Cleared
  <2>6. UNCHANGED <<central, factory, client, refresh>>
    BY <1>6 DEF PublishHangs
  <2> QED  BY <1>3, <2>1, <2>2, <2>3, <2>4, <2>5, <2>6, FreeStepKeeps
<1> QED  BY <1>4, <1>5, <1>6

-----------------------------------------------------------------------------
LEMMA StepQueryInv ==
  ASSUME QueryInv, [Next]_vars
  PROVE  QueryInv'
<1>1. CASE UNCHANGED vars
  <2>1. QueriesCleared'
    BY <1>1, ClearedKept DEF QueryInv, vars
  <2>2. TypeOK' /\ ListsKept'
    BY <1>1 DEF QueryInv, TypeOK, ListsKept, vars, At
  <2> QED  BY <2>1, <2>2 DEF QueryInv
<1>2. CASE Central \/ Boot \/ QueryCrash \/ RefreshLock \/ Refresh \/ Others \/ ClientHangs
  BY <1>2, CentralKeeps, BootKeeps, CrashKeeps, RefreshKeeps, OthersKeep
<1>3. ASSUME NEW q \in Queries,
             \/ ListCatalog(q) \/ Submit(q) \/ Serve(q) \/ ResolveMiss(q) \/ ScanHangs(q)
             \/ PublishHangs(q) \/ Abandon(q)
      PROVE  QueryInv'
  <2>1. CASE PlanFails(q)
    BY <2>1, FailKeeps DEF PlanFails, At
  <2> QED  BY <1>3, <2>1, AcceptKeeps, PrepareKeeps, ResolveKeeps, FetchKeeps, ScanKeeps,
              EndKeeps DEF Serve
<1> QED  BY <1>1, <1>2, <1>3 DEF Next

(***************************************************************************)
(* The inductive invariant: what is held of central's tables is a version  *)
(* of them, and what queries did was allowed.                              *)
(***************************************************************************)
THEOREM QuerySafety == Spec => []QueryInv
BY InitQueryInv, StepQueryInv, PTL DEF Spec

(***************************************************************************)
(* Table existence is concealed (README.md 121): a query neither asks for, *)
(* calls nor shows a table its user may not read, and a SELECT that names  *)
(* such a table fails like one that names a table that does not exist.     *)
(* CREATE EXTERNAL TABLE, which asks table_exist, is excepted.             *)
(***************************************************************************)
THEOREM HiddenTablesLookMissing == Spec => []HiddenLooksMissing
<1>1. QueryInv => HiddenLooksMissing
  <2> SUFFICES ASSUME QueryInv, NEW q \in Queries, Live(q)
               PROVE  /\ Hidden(q) \cap (query[q].asked \cup query[q].called \cup query[q].shown) = {}
                      /\ query[q].kind = "select" /\ Hidden(q) \cap Elems(query[q].tables) # {} =>
                           query[q].called = {} /\ query[q].status \in {None, 500}
    BY DEF HiddenLooksMissing
  <2>1. Cleared(query[q])
    BY DEF QueryInv, QueriesCleared
  <2>2. Hidden(q) \cap Readable(query[q].user) = {}
    BY DEF Hidden, Readable, IsVisible, Subject
  <2>3. query[q].phase \in Phases /\ query[q].phase \notin {"new", "gone"}
    BY RecordFields DEF QueryInv, QueryRecords, Live
  <2> QED  BY <2>1, <2>2, <2>3 DEF Cleared, Phases
<1> QED  BY <1>1, QuerySafety, PTL

\* Only central changes what it has to offer, and then it changes nothing else.
LEMMA OnlyCentralCommits ==
  ASSUME QueryInv, [Next]_vars
  PROVE  /\ UNCHANGED <<catalog, versions>> \/ ChangeCatalog
         /\ UNCHANGED <<policies, lists>> \/ ChangePolicies
<1>1. CASE UNCHANGED vars
  BY <1>1 DEF vars
<1>2. CASE Central \/ QueryCrash
  BY <1>2 DEF Central, ChangeCatalog, ChangePolicies, CentralDown, CentralUp, QueryCrash, central
<1>3. CASE Boot
  BY <1>3 DEF Boot, LoadDatasets, ListPolicies, RecvPolicy, PoliciesLoaded, PoliciesFail,
              ConnectSink, central
<1>4. CASE RefreshLock \/ Refresh \/ Others \/ ClientHangs
  BY <1>4 DEF RefreshLock, Refresh, RefreshList, RefreshRecv, RefreshDone, RefreshFails, Others,
              OtherLocks, OtherReturns, OtherLeaves, ClientHangs, central
<1>5. ASSUME NEW q \in Queries,
             \/ ListCatalog(q) \/ Submit(q) \/ Serve(q) \/ ResolveMiss(q) \/ ScanHangs(q)
             \/ PublishHangs(q) \/ Abandon(q)
      PROVE  UNCHANGED central
  BY <1>5 DEF ListCatalog, Submit, Serve, PublishSubmitted, ResolveNone, ResolveCached,
              Fetch, PlanFails, CreateTable, PhysicalPlan, Scan, ScanFails, Collected, Reply,
              ResolveMiss, ScanHangs, PublishHangs, Abandon
<1> QED  BY <1>1, <1>2, <1>3, <1>4, <1>5 DEF Next, central

(***************************************************************************)
(* Refinement: the cached catalog is SnapshotView's view of the catalog,   *)
(* so the cache that a query begins with is one whole catalog that central *)
(* listed, however refreshes, outages, crashes and cache misses interleave.*)
(***************************************************************************)
THEOREM QueryImplementsCatalogView == Spec => ImplementsCatalogView
<1>1. Init => CatalogView!Init
  BY DEF Init, CatalogView!Init
<1>2. ASSUME QueryInv, QueryInv', [Next]_vars
      PROVE  [CatalogView!Next]_CatalogView!vars
  <2>1. CASE UNCHANGED <<catalog, versions>>
    <3>1. (IF proc = "down" THEN None ELSE cache)' \in versions' \cup {None}
      BY <1>2 DEF QueryInv, ListsKept
    <3> QED  BY <2>1, <3>1 DEF CatalogView!Next, CatalogView!Install
  <2>2. CASE ChangeCatalog
    BY <2>2 DEF ChangeCatalog, factory, CatalogView!Next, CatalogView!Commit
  <2> QED  BY <1>2, <2>1, <2>2, OnlyCentralCommits
<1> QED  BY <1>1, <1>2, QuerySafety, PTL DEF Spec, ImplementsCatalogView, CatalogView!Spec

(***************************************************************************)
(* Refinement: the gateway's engine is SnapshotView's view of the policies *)
(* with deny-all for no view: a stream of policies that is cut short never *)
(* leaves part of a list in force.                                         *)
(***************************************************************************)
THEOREM QueryImplementsPolicyView == Spec => ImplementsPolicyView
<1>1. Init => PolicyView!Init
  BY DEF Init, PolicyView!Init
<1>2. ASSUME QueryInv, QueryInv', [Next]_vars
      PROVE  [PolicyView!Next]_PolicyView!vars
  <2>1. CASE UNCHANGED <<policies, lists>>
    BY <1>2, <2>1 DEF QueryInv, ListsKept, PolicyView!Next, PolicyView!Install
  <2>2. CASE ChangePolicies
    BY <2>2 DEF ChangePolicies, factory, PolicyView!Next, PolicyView!Commit
  <2> QED  BY <1>2, <2>1, <2>2, OnlyCentralCommits
<1> QED  BY <1>1, <1>2, QuerySafety, PTL DEF Spec, ImplementsPolicyView, PolicyView!Spec

(***************************************************************************)
(* The tables, the cache, the lock and the queries keep their types, and   *)
(* the Mutex around the catalog client has one holder, who uses it.        *)
(***************************************************************************)
THEOREM QueryTypeCorrect == Spec => []TypeOK
<1>1. QueryInv => TypeOK
  BY DEF QueryInv
<1> QED  BY <1>1, QuerySafety, PTL

-----------------------------------------------------------------------------
(***************************************************************************)
(* What the log has of a query: nothing before it was submitted, no final  *)
(* event before it is done, and one that agrees with its status.           *)
(***************************************************************************)
Early  == {"new", "submit"}
Middle == {"plan", "fetch", "scan", "hung", "finish"}

LogFits ==
  \A i \in DOMAIN log :
    /\ query[log[i][2]].phase \notin Early
    /\ query[log[i][2]].phase \in Middle => log[i][1] = "QuerySubmitted"
    /\ query[log[i][2]].phase = "done" /\ log[i][1] # "QuerySubmitted" =>
         (log[i][1] = "QueryCompleted" <=> query[log[i][2]].status = 200)

LogOrdered ==
  \A i, j \in DOMAIN log : i < j /\ log[i][2] = log[j][2] =>
    log[i][1] = "QuerySubmitted" /\ log[j][1] # "QuerySubmitted"

LogInv == LogOrdered /\ LogFits

\* A step that publishes nothing: a query past its submission stays so.
LEMMA SilentKeepsLog ==
  ASSUME TypeOK, LogInv, UNCHANGED log,
         \A q \in Queries : query[q].phase \notin Early => 
           \/ query'[q] = query[q] \/ query'[q].phase \in {"gone", "stuck"}
           \/ query[q].phase \in Middle /\ query'[q].phase \in Middle
  PROVE  LogInv'
<1>1. LogOrdered'
  BY DEF LogInv, LogOrdered
<1>2. \A i \in DOMAIN log : log[i][2] \in Queries
  BY DEF TypeOK
<1>3. LogFits'
  BY <1>2 DEF LogInv, LogFits, Early, Middle
<1> QED  BY <1>1, <1>3 DEF LogInv

\* A step that publishes the one event that is due, or loses it.
LEMMA PublishKeepsLog ==
  ASSUME TypeOK, LogInv, NEW q \in Queries, NEW event,
         log' = log \/ log' = Append(log, <<event, q>>),
         \A o \in Queries \ {q} : query'[o] = query[o],
         query'[q].status = query[q].status \/ query'[q].phase = "gone",
         \/ /\ event = "QuerySubmitted" /\ query[q].phase = "submit"
            /\ query'[q].phase \in {"plan", "stuck", "gone"}
         \/ /\ event = FinalEvent(q) /\ query[q].phase = "finish"
            /\ query'[q].phase \in {"done", "stuck", "gone"}
  PROVE  LogInv'
<1>1. /\ Len(log) \in Nat /\ DOMAIN log = 1..Len(log)
      /\ \A i \in DOMAIN log : log[i][2] \in Queries
  BY DEF TypeOK
<1>2. \A i \in DOMAIN log : log[i][2] = q =>
        query[q].phase = "finish" /\ log[i][1] = "QuerySubmitted"
  BY DEF LogInv, LogFits, Early, Middle
<1>3. \A i \in DOMAIN log :
        /\ query'[log[i][2]].phase \notin Early
        /\ query'[log[i][2]].phase \in Middle => log[i][1] = "QuerySubmitted"
        /\ query'[log[i][2]].phase = "done" /\ log[i][1] # "QuerySubmitted" =>
             (log[i][1] = "QueryCompleted" <=> query'[log[i][2]].status = 200)
  BY <1>1, <1>2 DEF LogInv, LogFits, Early, Middle
<1>4. CASE log' = log
  BY <1>3, <1>4 DEF LogInv, LogOrdered, LogFits
<1>5. CASE log' = Append(log, <<event, q>>)
  <2>1. /\ DOMAIN log' = 1..(Len(log) + 1)
        /\ \A i \in 1..Len(log) : log'[i] = log[i]
        /\ log'[Len(log) + 1] = <<event, q>>
    BY <1>1, <1>5 DEF TypeOK
  <2>2. ASSUME NEW i \in DOMAIN log', NEW j \in DOMAIN log', i < j, log'[i][2] = log'[j][2]
        PROVE  log'[i][1] = "QuerySubmitted" /\ log'[j][1] # "QuerySubmitted"
    <3>1. i \in DOMAIN log /\ log'[i] = log[i]
      BY <1>1, <2>1, <2>2
    <3>2. CASE j \in DOMAIN log
      BY <1>1, <2>1, <2>2, <3>1, <3>2 DEF LogInv, LogOrdered
    <3>3. CASE j \notin DOMAIN log
      <4>1. log'[j] = <<event, q>> /\ log[i][2] = q
        BY <1>1, <2>1, <2>2, <3>1, <3>3
      <4>2. query[q].phase = "finish" /\ log[i][1] = "QuerySubmitted"
        BY <1>2, <3>1, <4>1
      <4> QED  BY <3>1, <4>1, <4>2 DEF FinalEvent
    <3> QED  BY <3>2, <3>3
  <2>3. LogOrdered'
    BY <2>2 DEF LogOrdered
  <2>4. query'[q].phase = "done" /\ event # "QuerySubmitted" =>
          (event = "QueryCompleted" <=> query'[q].status = 200)
    BY DEF FinalEvent
  <2>5. ASSUME NEW i \in DOMAIN log'
        PROVE  /\ query'[log'[i][2]].phase \notin Early
               /\ query'[log'[i][2]].phase \in Middle => log'[i][1] = "QuerySubmitted"
               /\ query'[log'[i][2]].phase = "done" /\ log'[i][1] # "QuerySubmitted" =>
                    (log'[i][1] = "QueryCompleted" <=> query'[log'[i][2]].status = 200)
    <3>1. CASE i \in DOMAIN log
      BY <1>1, <1>3, <2>1, <3>1
    <3>2. CASE i \notin DOMAIN log
      <4>1. log'[i] = <<event, q>>
        BY <1>1, <2>1, <3>2
      <4> QED  BY <2>4, <4>1 DEF Early, Middle
    <3> QED  BY <3>1, <3>2
  <2>6. LogFits'
    BY <2>5 DEF LogFits
  <2> QED  BY <2>3, <2>6 DEF LogInv
<1> QED  BY <1>4, <1>5

LEMMA StepLogInv ==
  ASSUME QueryInv, LogInv, [Next]_vars
  PROVE  LogInv'
<1>1. TypeOK /\ query \in [Queries -> QueryRecords]
  BY DEF QueryInv, TypeOK
<1>2. CASE UNCHANGED <<query, log>>
  BY <1>1, <1>2, SilentKeepsLog
<1>3. CASE Central \/ Boot \/ RefreshLock \/ Refresh \/ Others \/ ClientHangs
  <2>1. UNCHANGED <<query, log>>
    BY <1>3 DEF Central, ChangeCatalog, ChangePolicies, CentralDown, CentralUp, Boot,
                LoadDatasets, ListPolicies, RecvPolicy, PoliciesLoaded, PoliciesFail,
                ConnectSink, RefreshLock, Refresh, RefreshList, RefreshRecv, RefreshDone,
                RefreshFails, Others, OtherLocks, OtherReturns, OtherLeaves, ClientHangs
  <2> QED  BY <1>2, <2>1
<1>4. CASE QueryCrash
  <2>1. \A q \in Queries : query[q].phase # "new" => query'[q].phase = "gone"
    BY <1>4, GoneRecord DEF QueryCrash
  <2>2. UNCHANGED log
    BY <1>4 DEF QueryCrash
  <2> QED  BY <1>1, <2>1, <2>2, SilentKeepsLog DEF Early
<1>5. ASSUME NEW q \in Queries, ListCatalog(q) \/ Submit(q)
      PROVE  LogInv'
  <2>1. query[q].phase \in Early /\ UNCHANGED log
        /\ \A o \in Queries \ {q} : query'[o] = query[o]
    BY <1>1, <1>5 DEF ListCatalog, Submit, At, Early
  <2> QED  BY <1>1, <2>1, SilentKeepsLog
<1>6. ASSUME NEW q \in Queries,
             \/ ResolveNone(q) \/ ResolveCached(q) \/ ResolveMiss(q) \/ Fetch(q)
             \/ PlanFails(q) \/ CreateTable(q)
             \/ PhysicalPlan(q) \/ Scan(q) \/ ScanFails(q) \/ ScanHangs(q) \/ Collected(q)
      PROVE  LogInv'
  <2>1. query[q].phase \in {"plan", "fetch", "scan"} /\ UNCHANGED log
    BY <1>6 DEF ResolveNone, ResolveCached, ResolveMiss, Misses, Fetch, PlanFails, CreateTable,
                PhysicalPlan, Scan, ScanFails, ScanHangs, Collected, At
  <2>2. \A o \in Queries \ {q} : query'[o] = query[o]
    <3>1. CASE ResolveNone(q) \/ ResolveCached(q) \/ ResolveMiss(q)
      BY <1>1, <3>1 DEF ResolveNone, ResolveCached, ResolveMiss, NotFound
    <3>2. CASE Fetch(q)
      BY <1>1, <3>2 DEF Fetch, NotFound
    <3>3. CASE PlanFails(q) \/ CreateTable(q) \/ ScanFails(q) \/ Collected(q)
      BY <1>1, <3>3 DEF PlanFails, CreateTable, ScanFails, Collected
    <3>4. CASE PhysicalPlan(q)
      BY <1>1, <3>4 DEF PhysicalPlan
    <3>5. CASE Scan(q) \/ ScanHangs(q)
      BY <1>1, <3>5 DEF Scan, ScanHangs
    <3> QED  BY <1>6, <3>1, <3>2, <3>3, <3>4, <3>5
  <2>3. query'[q].phase \in {"plan", "fetch", "scan", "hung", "finish"}
    <3>1. \A status \in {200, 403, 500} : Answered(query[q], status).phase = "finish"
      BY <1>1, AnsweredRecord
    <3>2. CASE PlanFails(q) \/ CreateTable(q) \/ Collected(q)
      BY <1>1, <3>1, <3>2 DEF PlanFails, CreateTable, Collected
    <3>3. CASE ScanFails(q)
      <4>1. PICK r \in query[q].scans, status \in {403, 500} :
              query' = [query EXCEPT ![q] = Answered(Called(query[q], r), status)]
        BY <3>3 DEF ScanFails
      <4>2. Called(query[q], r) \in QueryRecords
        BY <1>1, RecordFields, CalledRecord
      <4>3. Answered(Called(query[q], r), status).phase = "finish"
        BY <4>2, AnsweredRecord
      <4> QED  BY <1>1, <4>1, <4>3
    <3>4. CASE Fetch(q)
      <4>1. CASE query' = [query EXCEPT ![q] = Answered(query[q], 500)]
        BY <1>1, <3>1, <4>1
      <4>2. CASE query' # [query EXCEPT ![q] = Answered(query[q], 500)]
        BY <1>1, <3>4, <4>2 DEF Fetch, NotFound, QueryRecords
      <4> QED  BY <4>1, <4>2
    <3>5. CASE ResolveNone(q) \/ ResolveCached(q) \/ ResolveMiss(q)
      BY <1>1, <3>5 DEF ResolveNone, ResolveCached, ResolveMiss, NotFound, At, QueryRecords
    <3>6. CASE PhysicalPlan(q)
      BY <1>1, <3>6 DEF PhysicalPlan, QueryRecords
    <3>7. CASE Scan(q)
      <4>1. PICK r \in query[q].scans : query' = [query EXCEPT ![q] = Called(query[q], r)]
        BY <3>7 DEF Scan
      <4>2. Called(query[q], r).phase = query[q].phase
        BY <1>1, RecordFields, CalledRecord
      <4>3. query'[q].phase = query[q].phase
        BY <1>1, <4>1, <4>2
      <4> QED  BY <2>1, <4>3
    <3>8. CASE ScanHangs(q)
      <4>1. PICK r \in query[q].scans :
              query' = [query EXCEPT ![q] = [Called(query[q], r) EXCEPT !.phase = "hung"]]
        BY <3>8 DEF ScanHangs
      <4> DEFINE called == Called(query[q], r)
      <4>2. called \in QueryRecords
        BY <1>1, RecordFields, CalledRecord
      <4> HIDE DEF called
      <4>3. query' = [query EXCEPT ![q] = [called EXCEPT !.phase = "hung"]]
        BY <4>1 DEF called
      <4> QED  BY <1>1, <4>2, <4>3 DEF QueryRecords
    <3> QED  BY <1>6, <3>2, <3>3, <3>4, <3>5, <3>6, <3>7, <3>8
  <2> QED  BY <1>1, <2>1, <2>2, <2>3, SilentKeepsLog DEF Middle
<1>7. ASSUME NEW q \in Queries,
             PublishSubmitted(q) \/ Reply(q) \/ PublishHangs(q) \/ Abandon(q)
      PROVE  LogInv'
  <2>1. /\ \A o \in Queries \ {q} : query'[o] = query[o]
        /\ query'[q].status = query[q].status \/ query'[q].phase = "gone"
    BY <1>1, <1>7, GoneRecord DEF PublishSubmitted, Reply, PublishHangs, Abandon, QueryRecords
  <2>2. CASE PublishSubmitted(q)
    <3>1. query[q].phase = "submit" /\ query'[q].phase = "plan"
      BY <1>1, <2>2 DEF PublishSubmitted, At, QueryRecords
    <3>2. log' = log \/ log' = Append(log, <<"QuerySubmitted", q>>)
      BY <2>2 DEF PublishSubmitted, Publish
    <3> QED  BY <1>1, <2>1, <3>1, <3>2, PublishKeepsLog
  <2>3. CASE Reply(q)
    <3>1. query[q].phase = "finish" /\ query'[q].phase = "done"
      BY <1>1, <2>3 DEF Reply, At, QueryRecords
    <3>2. log' = log \/ log' = Append(log, <<FinalEvent(q), q>>)
      BY <2>3 DEF Reply, Publish
    <3> QED  BY <1>1, <2>1, <3>1, <3>2, PublishKeepsLog
  <2>4. CASE Abandon(q)
    <3>1. query'[q].phase = "gone"
      BY <1>1, <2>4, GoneRecord DEF Abandon
    <3>2. CASE log' = log
      BY <1>1, <2>1, <3>1, <3>2, SilentKeepsLog
    <3>3. CASE At(q, "submit") /\ Publish("QuerySubmitted", q)
      <4>1. log' = log \/ log' = Append(log, <<"QuerySubmitted", q>>)
        BY <3>3 DEF Publish
      <4> QED  BY <1>1, <2>1, <3>1, <3>3, <4>1, PublishKeepsLog DEF At
    <3>4. CASE At(q, "finish") /\ Publish(FinalEvent(q), q)
      <4>1. log' = log \/ log' = Append(log, <<FinalEvent(q), q>>)
        BY <3>4 DEF Publish
      <4> QED  BY <1>1, <2>1, <3>1, <3>4, <4>1, PublishKeepsLog DEF At
    <3> QED  BY <2>4, <3>2, <3>3, <3>4 DEF Abandon
  <2>5. CASE PublishHangs(q)
    <3>1. query'[q].phase = "stuck" /\ query[q].phase \in {"submit", "finish"}
      BY <1>1, <2>5 DEF PublishHangs, At, QueryRecords
    <3>2. CASE log' = log
      BY <1>1, <2>1, <3>1, <3>2, SilentKeepsLog
    <3>3. CASE At(q, "submit") /\ Publish("QuerySubmitted", q)
      <4>1. log' = log \/ log' = Append(log, <<"QuerySubmitted", q>>)
        BY <3>3 DEF Publish
      <4> QED  BY <1>1, <2>1, <3>1, <3>3, <4>1, PublishKeepsLog DEF At
    <3>4. CASE At(q, "finish") /\ Publish(FinalEvent(q), q)
      <4>1. log' = log \/ log' = Append(log, <<FinalEvent(q), q>>)
        BY <3>4 DEF Publish
      <4> QED  BY <1>1, <2>1, <3>1, <3>4, <4>1, PublishKeepsLog DEF At
    <3> QED  BY <2>5, <3>2, <3>3, <3>4 DEF PublishHangs
  <2> QED  BY <1>7, <2>2, <2>3, <2>4, <2>5
<1>8. CASE UNCHANGED vars
  BY <1>2, <1>8 DEF vars
<1> QED  BY <1>3, <1>4, <1>5, <1>6, <1>7, <1>8 DEF Next, Serve

(***************************************************************************)
(* The audit trail of a query is QuerySubmitted and then one final event   *)
(* that agrees with the reply, although central may fail to store either,  *)
(* the client may go away and the gateway may crash between them.          *)
(***************************************************************************)
THEOREM AuditEventsInOrder == Spec => []EventsInOrder
<1>1. Init => LogInv
  BY DEF Init, LogInv, LogOrdered, LogFits
<1>2. QueryInv /\ LogInv => EventsInOrder
  BY DEF LogInv, LogOrdered, LogFits, EventsInOrder, At, Middle
<1> QED  BY <1>1, <1>2, StepLogInv, QuerySafety, PTL DEF Spec
=============================================================================
