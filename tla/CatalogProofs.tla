--------------------------- MODULE CatalogProofs ---------------------------
(***************************************************************************)
(* Every stored dataset can be routed to an endpoint its own coordinator   *)
(* once registered, and a running coordinator has its datasets registered, *)
(* for any number of coordinators, datasets, configurations and restarts,  *)
(* until central loses its database file.                                  *)
(***************************************************************************)
EXTENDS Catalog, TLAPS

\* A process that waits waits for the first of its datasets.
WaitsForCall == \A c \in Coords : pc[c] = "wait" => todo[c] # << >>

CatalogTypes == TypeOK /\ WaitsForCall

\* Who is past Register has a row, with an endpoint it registered.
CoordRegistered ==
  \A c \in Coords :
    /\ coords[c] # None => coords[c].endpoint \in registered[c]
    /\ pc[c] \in {"datasets", "wait", "running"} => coords[c] # None

\* So has every call in flight, even one whose process has crashed.
CallRegistered ==
  \A r \in inflight :
    coords[r.call.coord] # None /\ r.endpoint \in registered[r.call.coord]

Routed ==
  \A d \in Datasets : rows[d] # None =>
    coords[rows[d].coord] # None /\ rows[d].endpoint \in registered[rows[d].coord]

Routable == CoordRegistered /\ CallRegistered /\ Routed

LEMMA InitTypes == Init => CatalogTypes
<1> SUFFICES ASSUME Init PROVE CatalogTypes
  OBVIOUS
<1> USE CatalogAssumption
<1>0. lost \in BOOLEAN /\ failing \in BOOLEAN
  BY Zenon DEF Init
<1>1. TypeOK
  BY <1>0 DEF Init, TypeOK
<1>2. WaitsForCall
  BY DEF Init, WaitsForCall
<1> QED
  BY <1>1, <1>2 DEF CatalogTypes

\* The call a coordinator makes is well formed.
LEMMA CallOfType ==
  ASSUME CatalogTypes, NEW c \in Coords, pc[c] # "down", todo[c] # << >>
  PROVE  CallOf(c) \in [coord : Coords, id : Ids, ds : Datasets] /\ CallOf(c).coord = c
<1>1. Head(todo[c]) \in Datasets
  BY DEF CatalogTypes, TypeOK
<1>2. DatasetId(c, Head(todo[c])) \in Ids
  BY <1>1 DEF CatalogTypes, TypeOK, DatasetId, Ids
<1> QED
  BY <1>1, <1>2 DEF CallOf

\* The reply to a call leaves the process well formed.
LEMMA ReplyTypes ==
  ASSUME CatalogTypes, NEW r \in inflight, Accepted(r) \/ Refused(r), run' = run
  PROVE  /\ pc' \in [Coords -> {"down", "register", "datasets", "wait", "running"}]
         /\ todo' \in [Coords -> Seq(Datasets)]
         /\ WaitsForCall'
<1> DEFINE c == r.call.coord
<1>0. c \in Coords
  BY DEF CatalogTypes, TypeOK, CallRecords
<1>1. CASE r \notin Calls(c)
  BY <1>1 DEF Accepted, Refused, CatalogTypes, TypeOK, WaitsForCall
<1>2. CASE r \in Calls(c) /\ Accepted(r)
  <2>1. pc[c] = "wait" /\ todo[c] # << >>
    BY <1>0, <1>2 DEF Calls, CatalogTypes, WaitsForCall
  <2>2. /\ pc' = [pc EXCEPT ![c] = "datasets"]
        /\ todo' = [todo EXCEPT ![c] = Tail(@)]
    BY <1>2 DEF Accepted
  <2>3. Tail(todo[c]) \in Seq(Datasets)
    BY <1>0, <2>1 DEF CatalogTypes, TypeOK
  <2> QED
    BY <1>0, <2>1, <2>2, <2>3 DEF CatalogTypes, TypeOK, WaitsForCall
<1>3. CASE r \in Calls(c) /\ Refused(r)
  <2>1. /\ pc' = [pc EXCEPT ![c] = "down"]
        /\ todo' = [todo EXCEPT ![c] = << >>]
    BY <1>3 DEF Refused
  <2> QED
    BY <1>0, <2>1 DEF CatalogTypes, TypeOK, WaitsForCall
<1> QED
  BY <1>1, <1>2, <1>3

LEMMA NextTypes == CatalogTypes /\ [Next]_vars => CatalogTypes'
<1> SUFFICES ASSUME CatalogTypes, [Next]_vars PROVE CatalogTypes'
  OBVIOUS
<1> USE CatalogAssumption
<1>1. ASSUME NEW c \in Coords, Start(c) PROVE CatalogTypes'
  BY <1>1 DEF CatalogTypes, TypeOK, WaitsForCall, Start, tables, calls
<1>2. ASSUME NEW c \in Coords, Register(c) PROVE CatalogTypes'
  <2>1. cfg[c].endpoint \in Endpoints /\ cfg[c].datasets \in Seq(Datasets)
    BY DEF CatalogTypes, TypeOK
  <2>2. coords' \in [Coords -> CoordRows \cup {None}]
    BY <1>2, <2>1 DEF CatalogTypes, TypeOK, Register, CoordinatorRow, CoordRows
  <2>3. registered' \in [Coords -> SUBSET Endpoints]
    BY <1>2, <2>1 DEF CatalogTypes, TypeOK, Register
  <2> QED
    BY <1>2, <2>1, <2>2, <2>3 DEF CatalogTypes, TypeOK, WaitsForCall, Register, calls
<1>3. ASSUME NEW c \in Coords, LookupEndpoint(c) PROVE CatalogTypes'
  <2>1. (IF coords[c] = None THEN NoEndpoint ELSE coords[c].endpoint)
          \in Endpoints \cup {NoEndpoint}
    BY DEF CatalogTypes, TypeOK, CoordRows
  <2>2. CallOf(c) \in [coord : Coords, id : Ids, ds : Datasets]
    BY <1>3, CallOfType DEF LookupEndpoint
  <2>3. inflight' \subseteq CallRecords
    BY <1>3, <2>1, <2>2 DEF LookupEndpoint, CatalogTypes, TypeOK, CallRecords
  <2> QED
    BY <1>3, <2>3 DEF CatalogTypes, TypeOK, WaitsForCall, LookupEndpoint, tables
<1>4. ASSUME NEW r \in inflight, UpsertDataset(r) PROVE CatalogTypes'
  <2>1. /\ r.call.coord \in Coords /\ r.call.id \in Ids /\ r.call.ds \in Datasets
        /\ r.endpoint \in Endpoints \cup {NoEndpoint}
    BY DEF CatalogTypes, TypeOK, CallRecords
  <2>2. rows' \in [Datasets -> DatasetRows \cup {None}]
    BY <1>4, <2>1 DEF UpsertDataset, Upsert, CatalogTypes, TypeOK, DatasetRows
  <2>3. /\ pc' \in [Coords -> {"down", "register", "datasets", "wait", "running"}]
        /\ todo' \in [Coords -> Seq(Datasets)] /\ WaitsForCall'
    BY <1>4, ReplyTypes DEF UpsertDataset
  <2> QED
    BY <1>4, <2>2, <2>3 DEF CatalogTypes, TypeOK, UpsertDataset
<1>5. ASSUME NEW r \in inflight, UpsertFails(r) PROVE CatalogTypes'
  <2>1. /\ pc' \in [Coords -> {"down", "register", "datasets", "wait", "running"}]
        /\ todo' \in [Coords -> Seq(Datasets)] /\ WaitsForCall'
    BY <1>5, ReplyTypes DEF UpsertFails
  <2> QED
    BY <1>5, <2>1 DEF CatalogTypes, TypeOK, UpsertFails, tables
<1>6. ASSUME NEW c \in Coords, FinishRegistration(c) PROVE CatalogTypes'
  BY <1>6 DEF CatalogTypes, TypeOK, WaitsForCall, FinishRegistration, tables, calls
<1>7. ASSUME NEW c \in Coords, Heartbeat(c) PROVE CatalogTypes'
  <2>1. coords' \in [Coords -> CoordRows \cup {None}]
    BY <1>7 DEF Heartbeat, Refreshed, CatalogTypes, TypeOK, CoordRows
  <2> QED
    BY <1>7, <2>1 DEF CatalogTypes, TypeOK, WaitsForCall, Heartbeat, procs, calls
<1>8. ASSUME NEW c \in Coords, Reconnect(c) PROVE CatalogTypes'
  BY <1>8 DEF CatalogTypes, TypeOK, WaitsForCall, Reconnect, tables, calls
<1>9. ASSUME NEW c \in Coords, GoStale(c) PROVE CatalogTypes'
  <2>0. coords[c] \in CoordRows
    BY <1>9 DEF GoStale, CatalogTypes, TypeOK
  <2>2. [coords[c] EXCEPT !.fresh = FALSE] \in CoordRows
    BY <2>0 DEF CoordRows
  <2>1. coords' \in [Coords -> CoordRows \cup {None}]
    BY <1>9, <2>2 DEF GoStale, CatalogTypes, TypeOK
  <2> QED
    BY <1>9, <2>1 DEF CatalogTypes, TypeOK, WaitsForCall, GoStale, procs, calls
<1>10. ASSUME NEW c \in Coords, Crash(c) PROVE CatalogTypes'
  <2>1. cfg[c].endpoint \in Endpoints
    BY DEF CatalogTypes, TypeOK
  <2> QED
    BY <1>10, <2>1 DEF CatalogTypes, TypeOK, WaitsForCall, Crash, tables
<1>11. ASSUME NEW d \in Datasets, Unregister(d) PROVE CatalogTypes'
  <2>0. rows[d] \in DatasetRows
    BY <1>11 DEF Unregister, CatalogTypes, TypeOK
  <2>1. [rows[d] EXCEPT !.is_active = FALSE] \in DatasetRows
    BY <2>0 DEF DatasetRows
  <2>2. rows' \in [Datasets -> DatasetRows \cup {None}]
    BY <1>11, <2>1 DEF Unregister, CatalogTypes, TypeOK
  <2> QED
    BY <1>11, <2>2 DEF CatalogTypes, TypeOK, WaitsForCall, Unregister, procs, calls
<1>17. CASE StoreChanges
  BY <1>17 DEF CatalogTypes, TypeOK, WaitsForCall, StoreChanges, procs, calls
<1>12. ASSUME Disconnected PROVE /\ inflight' \subseteq CallRecords /\ late' = {} /\ WaitsForCall'
                                 /\ pc' \in [Coords -> {"down", "register", "datasets", "wait", "running"}]
                                 /\ todo' \in [Coords -> Seq(Datasets)]
                                 /\ hb' \in [Coords -> {"closed", "open", "broken"}]
                                 /\ cfg' = cfg /\ run' = run
  BY <1>12 DEF CatalogTypes, TypeOK, WaitsForCall, Disconnected
<1>16. ASSUME NEW l \in late, RegisterLands(l) PROVE CatalogTypes'
  <2>1. l.coord \in Coords /\ l.endpoint \in Endpoints
    BY DEF CatalogTypes, TypeOK
  <2>2. coords' \in [Coords -> CoordRows \cup {None}]
    BY <1>16, <2>1 DEF CatalogTypes, TypeOK, RegisterLands, CoordinatorRow, CoordRows
  <2>3. registered' \in [Coords -> SUBSET Endpoints]
    BY <1>16, <2>1 DEF CatalogTypes, TypeOK, RegisterLands
  <2> QED
    BY <1>16, <2>1, <2>2, <2>3 DEF CatalogTypes, TypeOK, WaitsForCall, RegisterLands, procs
<1>13. CASE CentralRestart
  BY <1>12, <1>13 DEF CentralRestart, CatalogTypes, TypeOK, tables
<1>14. CASE CentralReset
  BY <1>12, <1>14 DEF CentralReset, CatalogTypes, TypeOK
<1>15. CASE UNCHANGED vars
  BY <1>15 DEF vars, CatalogTypes, TypeOK, WaitsForCall
<1> QED
  BY <1>1, <1>2, <1>3, <1>4, <1>5, <1>6, <1>7, <1>8, <1>9, <1>10, <1>11, <1>13, <1>14, <1>15, <1>16, <1>17
  DEF Next, Coordinator

-----------------------------------------------------------------------------
LEMMA InitRoutable == Init => Routable
BY DEF Init, Routable, CoordRegistered, CallRegistered, Routed

(***************************************************************************)
(* A process that went on after the reply to its call was past Register    *)
(* before; one that ended is "down".                                       *)
(***************************************************************************)
LEMMA ReplyKeeps ==
  ASSUME CatalogTypes, CoordRegistered, NEW r \in inflight, Accepted(r) \/ Refused(r),
         coords' = coords, registered' = registered
  PROVE  CoordRegistered'
<1> DEFINE c == r.call.coord
<1>0. c \in Coords /\ pc \in [Coords -> {"down", "register", "datasets", "wait", "running"}]
  BY DEF CatalogTypes, TypeOK, CallRecords
<1>1. CASE r \notin Calls(c)
  BY <1>1 DEF Accepted, Refused, CoordRegistered
<1>2. CASE r \in Calls(c)
  <2>1. pc[c] = "wait"
    BY <1>2 DEF Calls
  <2>2. \A e \in Coords : pc'[e] = pc[e] \/ e = c
    BY <1>0, <1>2 DEF Accepted, Refused
  <2>3. coords[c] # None
    BY <1>0, <2>1 DEF CoordRegistered
  <2> QED
    BY <1>0, <2>2, <2>3 DEF CoordRegistered
<1> QED
  BY <1>1, <1>2

LEMMA NextRoutable == CatalogTypes /\ Routable /\ [Next]_vars /\ ~CentralReset => Routable'
<1> SUFFICES ASSUME CatalogTypes, Routable, [Next]_vars, ~CentralReset PROVE Routable'
  OBVIOUS
<1> USE CatalogAssumption
<1> USE DEF Routable
<1>0. /\ pc \in [Coords -> {"down", "register", "datasets", "wait", "running"}]
      /\ coords \in [Coords -> CoordRows \cup {None}]
      /\ registered \in [Coords -> SUBSET Endpoints]
      /\ late \subseteq [coord : Coords, endpoint : Endpoints]
      /\ \A r \in inflight : r.call.coord \in Coords /\ r.call.ds \in Datasets
      /\ rows \in [Datasets -> DatasetRows \cup {None}]
      /\ \A d \in Datasets : rows[d] # None => rows[d].coord \in Coords
  BY DEF CatalogTypes, TypeOK, CallRecords, DatasetRows
\* The tables and the calls stay, and nobody gets past Register.
<1>1. ASSUME coords' = coords, registered' = registered, rows' = rows, inflight' \subseteq inflight,
             \A c \in Coords : pc'[c] \in {"datasets", "wait", "running"} =>
                               pc[c] \in {"datasets", "wait", "running"}
      PROVE  Routable'
  BY <1>1 DEF CoordRegistered, CallRegistered, Routed
<1>2. ASSUME NEW c \in Coords, Start(c) PROVE Routable'
  BY <1>0, <1>1, <1>2 DEF Start, tables, calls
\* A registration, in time or late, adds an endpoint and makes it the row's.
<1>15. ASSUME NEW c \in Coords, NEW f, f.endpoint \in Endpoints,
              coords' = [coords EXCEPT ![c] = CoordinatorRow(f)],
              registered' = [registered EXCEPT ![c] = @ \cup {f.endpoint}],
              rows' = rows, inflight' = inflight,
              \A e \in Coords : e # c => pc'[e] = pc[e]
       PROVE  Routable'
  <2>1. CoordinatorRow(f) \in CoordRows /\ CoordinatorRow(f).endpoint = f.endpoint
    BY <1>15 DEF CoordRows, CoordinatorRow
  <2>2. coords'[c] # None /\ coords'[c].endpoint \in registered'[c]
    BY <1>0, <1>15, <2>1
  <2>3. \A e \in Coords : /\ registered[e] \subseteq registered'[e]
                          /\ e # c => coords'[e] = coords[e] /\ pc'[e] = pc[e]
    BY <1>0, <1>15
  <2>4. CoordRegistered'
    BY <1>0, <2>2, <2>3 DEF CoordRegistered
  <2>5. CallRegistered'
    BY <1>0, <1>15, <2>2, <2>3 DEF CallRegistered
  <2>6. Routed'
    BY <1>0, <1>15, <2>2, <2>3 DEF Routed
  <2> QED
    BY <2>4, <2>5, <2>6
<1>3. ASSUME NEW c \in Coords, Register(c) PROVE Routable'
  <2>1. cfg[c].endpoint \in Endpoints
    BY DEF CatalogTypes, TypeOK
  <2>2. \A e \in Coords : e # c => pc'[e] = pc[e]
    BY <1>0, <1>3 DEF Register
  <2> QED
    BY <1>3, <1>15, <2>1, <2>2 DEF Register, calls
<1>16. ASSUME NEW l \in late, RegisterLands(l) PROVE Routable'
  <2>1. l.coord \in Coords /\ l.endpoint \in Endpoints
    BY <1>0
  <2> QED
    BY <1>15, <1>16, <2>1 DEF RegisterLands, procs
<1>4. ASSUME NEW c \in Coords, LookupEndpoint(c) PROVE Routable'
  <2>1. coords[c] # None /\ coords[c].endpoint \in registered[c]
    BY <1>4 DEF LookupEndpoint, CoordRegistered
  <2>2. CallOf(c).coord = c
    BY DEF CallOf
  <2>3. CallRegistered'
    BY <1>4, <2>1, <2>2 DEF CallRegistered, LookupEndpoint, tables
  <2>4. CoordRegistered'
    BY <1>0, <1>4, <2>1 DEF CoordRegistered, LookupEndpoint, tables
  <2>5. Routed'
    BY <1>4 DEF Routed, LookupEndpoint, tables
  <2> QED
    BY <2>3, <2>4, <2>5
<1>5. ASSUME NEW r \in inflight, UpsertDataset(r) PROVE Routable'
  <2>1. CoordRegistered'
    BY <1>5, ReplyKeeps DEF UpsertDataset
  <2>2. CallRegistered'
    BY <1>5 DEF CallRegistered, UpsertDataset
  <2>3. /\ coords[r.call.coord] # None /\ r.endpoint \in registered[r.call.coord]
    BY DEF CallRegistered
  <2>4. \A d \in Datasets : \/ rows'[d] = rows[d]
                            \/ rows'[d].coord = r.call.coord /\ rows'[d].endpoint = r.endpoint
    BY <1>0, <1>5 DEF UpsertDataset, Upsert
  <2>5. Routed'
    BY <1>5, <2>3, <2>4 DEF Routed, UpsertDataset
  <2> QED
    BY <2>1, <2>2, <2>5
<1>6. ASSUME NEW r \in inflight, UpsertFails(r) PROVE Routable'
  <2>1. CoordRegistered'
    BY <1>6, ReplyKeeps DEF UpsertFails, tables
  <2> QED
    BY <1>6, <2>1 DEF UpsertFails, tables, CallRegistered, Routed
<1>7. ASSUME NEW c \in Coords, FinishRegistration(c) PROVE Routable'
  BY <1>0, <1>1, <1>7 DEF FinishRegistration, tables, calls
\* A heartbeat and the passing of time change no endpoint.
<1>8. ASSUME NEW c \in Coords, Heartbeat(c) \/ GoStale(c) PROVE Routable'
  <2>1. \A e \in Coords : /\ coords'[e] = None <=> coords[e] = None
                          /\ coords[e] # None => coords'[e].endpoint = coords[e].endpoint
    <3>1. \A x \in CoordRows, b \in BOOLEAN :
            /\ [x EXCEPT !.is_alive = TRUE, !.fresh = TRUE] \in CoordRows
            /\ [x EXCEPT !.fresh = b] \in CoordRows
      BY DEF CoordRows
    <3>2. \A x \in CoordRows : /\ [x EXCEPT !.is_alive = TRUE, !.fresh = TRUE].endpoint = x.endpoint
                               /\ [x EXCEPT !.fresh = FALSE].endpoint = x.endpoint
      BY DEF CoordRows
    <3>3. \A e \in Coords : e # c => coords'[e] = coords[e]
      BY <1>0, <1>8 DEF Heartbeat, Refreshed, GoStale
    <3>4. CASE coords[c] = None
      BY <1>0, <1>8, <3>3, <3>4 DEF Heartbeat, Refreshed, GoStale
    <3>5. CASE coords[c] # None
      <4>1. coords[c] \in CoordRows
        BY <1>0, <3>5
      <4>2. \/ coords'[c] = [coords[c] EXCEPT !.is_alive = TRUE, !.fresh = TRUE]
            \/ coords'[c] = [coords[c] EXCEPT !.fresh = FALSE]
            \/ coords'[c] = coords[c]
        BY <1>0, <1>8, <3>5 DEF Heartbeat, Refreshed, GoStale
      <4>3. coords'[c] \in CoordRows /\ coords'[c].endpoint = coords[c].endpoint
        BY <3>1, <3>2, <4>1, <4>2
      <4> QED
        BY <3>3, <3>5, <4>3
    <3> QED
      BY <3>4, <3>5
  <2>2. UNCHANGED <<rows, registered, inflight, pc>>
    BY <1>8 DEF Heartbeat, GoStale, procs, calls
  <2> QED
    BY <1>0, <2>1, <2>2 DEF CoordRegistered, CallRegistered, Routed
<1>9. ASSUME NEW c \in Coords, Reconnect(c) PROVE Routable'
  BY <1>1, <1>9 DEF Reconnect, tables, calls
<1>10. ASSUME NEW c \in Coords, Crash(c) PROVE Routable'
  BY <1>0, <1>1, <1>10 DEF Crash, tables
<1>11. ASSUME NEW d \in Datasets, Unregister(d) PROVE Routable'
  <2>1. rows[d] \in DatasetRows /\ rows[d] # None
    BY <1>0, <1>11 DEF Unregister
  <2>2. \A e \in Datasets : rows[e] # None =>
          rows'[e].coord = rows[e].coord /\ rows'[e].endpoint = rows[e].endpoint
    BY <1>0, <1>11, <2>1 DEF Unregister, DatasetRows
  <2>3. \A e \in Datasets : rows'[e] # None => rows[e] # None
    BY <1>0, <1>11, <2>1 DEF Unregister
  <2>4. Routed'
    BY <1>11, <2>2, <2>3 DEF Routed, Unregister
  <2> QED
    BY <1>11, <2>4 DEF Unregister, procs, calls, CoordRegistered, CallRegistered
<1>12. CASE CentralRestart
  BY <1>0, <1>1, <1>12 DEF CentralRestart, Disconnected, tables
<1>13. CASE StoreChanges
  BY <1>1, <1>13 DEF StoreChanges, procs, calls
<1>14. CASE UNCHANGED vars
  BY <1>1, <1>14 DEF vars
<1> QED
  BY <1>2, <1>3, <1>4, <1>5, <1>6, <1>7, <1>8, <1>9, <1>10, <1>11, <1>12, <1>13, <1>14, <1>16
  DEF Next, Coordinator

-----------------------------------------------------------------------------
(***************************************************************************)
(* The tables of central and the coordinator processes keep their types,   *)
(* also when central loses its database.                                   *)
(***************************************************************************)
THEOREM CatalogTypeCorrect == Spec => []TypeOK
<1>1. CatalogTypes => TypeOK
  BY DEF CatalogTypes
<1> QED
  BY <1>1, InitTypes, NextTypes, PTL DEF Spec

\* Only a reset tells that the database is lost.
LEMMA LostByReset == [Next]_vars => CentralReset \/ lost' = lost
BY DEF Next, Coordinator, Start, Register, LookupEndpoint, FinishRegistration, Heartbeat,
       Reconnect, GoStale, Crash, UpsertDataset, UpsertFails, RegisterLands, Unregister,
       StoreChanges, CentralRestart, tables, vars

(***************************************************************************)
(* While central keeps its database, the endpoint upsert_dataset copies    *)
(* into a dataset is one its own coordinator registered, this time or an   *)
(* earlier one, whichever coordinators claim the name, crash between the   *)
(* two statements, or have calls land late.                                *)
(***************************************************************************)
THEOREM StoredEndpointIsOwners == Spec => []EndpointFromOwner
<1> DEFINE Inv == CatalogTypes /\ (~lost => Routable)
<1>1. Init => Inv
  BY InitTypes, InitRoutable
<1>2. Inv /\ [Next]_vars => Inv'
  <2>1. CentralReset => lost'
    BY DEF CentralReset
  <2> QED
    BY <2>1, NextTypes, NextRoutable, LostByReset
<1>3. Inv => EndpointFromOwner
  BY DEF Routable, Routed, EndpointFromOwner
<1> QED
  BY <1>1, <1>2, <1>3, PTL DEF Spec

-----------------------------------------------------------------------------
(***************************************************************************)
(* How far a registration has got: what is left to register is the rest of *)
(* the configuration, and what is not left has a row.                      *)
(***************************************************************************)
Rest(tab, ds, left) ==
  /\ Len(left) <= Len(ds)
  /\ \A j \in 1..Len(left) : left[j] = ds[Len(ds) - Len(left) + j]
  /\ \A i \in 1..(Len(ds) - Len(left)) : tab[ds[i]] # None

Progress(c) ==
  /\ pc[c] \in {"datasets", "wait", "running"} => Rest(rows, cfg[c].datasets, todo[c])
  /\ pc[c] = "running" => todo[c] = << >>

AllProgress == \A c \in Coords : Progress(c)

\* No step but a reset removes a row.
LEMMA RowsStay ==
  CatalogTypes /\ [Next]_vars /\ ~CentralReset =>
    \A d \in Datasets : rows[d] # None => rows'[d] # None
<1> SUFFICES ASSUME CatalogTypes, [Next]_vars, ~CentralReset,
                    NEW d \in Datasets, rows[d] # None
             PROVE  rows'[d] # None
  OBVIOUS
<1> USE CatalogAssumption
<1>0. rows \in [Datasets -> DatasetRows \cup {None}]
  BY DEF CatalogTypes, TypeOK
<1>1. ASSUME NEW r \in inflight, UpsertDataset(r) PROVE rows'[d] # None
  <2>3. r.call.coord \in Coords /\ r.endpoint \in Endpoints \cup {NoEndpoint} /\ r.call.id \in Ids
    BY DEF CatalogTypes, TypeOK, CallRecords
  <2>4. rows[d] \in DatasetRows /\ rows[d].id \in Ids
    BY <1>0 DEF DatasetRows
  <2>5. rows'[d] = rows[d] \/ rows'[d] \in DatasetRows
    BY <1>0, <1>1, <2>3, <2>4 DEF UpsertDataset, Upsert, DatasetRows
  <2> QED
    BY <2>5
<1>2. ASSUME NEW e \in Datasets, Unregister(e) PROVE rows'[d] # None
  <2>1. rows[e] \in DatasetRows
    BY <1>0, <1>2 DEF Unregister
  <2>2. [rows[e] EXCEPT !.is_active = FALSE] \in DatasetRows
    BY <2>1 DEF DatasetRows
  <2> QED
    BY <1>0, <1>2, <2>2 DEF Unregister
<1> QED
  BY <1>1, <1>2
  DEF Next, Coordinator, Start, Register, LookupEndpoint, FinishRegistration, Heartbeat,
      Reconnect, GoStale, Crash, UpsertFails, RegisterLands, StoreChanges, CentralRestart,
      tables, vars

LEMMA RestStays ==
  ASSUME NEW ds \in Seq(Datasets), NEW left \in Seq(Datasets), NEW tab, NEW new,
         Rest(tab, ds, left), \A d \in Datasets : tab[d] # None => new[d] # None
  PROVE  Rest(new, ds, left)
<1>1. \A i \in 1..(Len(ds) - Len(left)) : new[ds[i]] # None
  <2> SUFFICES ASSUME NEW i \in 1..(Len(ds) - Len(left)) PROVE new[ds[i]] # None
    OBVIOUS
  <2>1. i \in 1..Len(ds)
    BY DEF Rest
  <2>2. ds[i] \in Datasets /\ tab[ds[i]] # None
    BY <2>1 DEF Rest
  <2> QED
    BY <2>2
<1> QED
  BY <1>1 DEF Rest

\* When the first of what is left has its row, the others are left.
LEMMA RestShrinks ==
  ASSUME NEW ds \in Seq(Datasets), NEW left \in Seq(Datasets), NEW tab,
         left # << >>, Rest(tab, ds, left), tab[Head(left)] # None
  PROVE  Rest(tab, ds, Tail(left))
<1> DEFINE n == Len(ds)
           m == Len(left)
<1>1. n \in Nat /\ m \in Nat /\ m >= 1 /\ Len(Tail(left)) = m - 1 /\ m <= n
  BY DEF Rest
<1>2. \A j \in 1..(m - 1) : Tail(left)[j] = ds[n - (m - 1) + j]
  <2> SUFFICES ASSUME NEW j \in 1..(m - 1) PROVE Tail(left)[j] = ds[n - (m - 1) + j]
    OBVIOUS
  <2>1. j + 1 \in 1..m /\ n - m + (j + 1) = n - (m - 1) + j
    BY <1>1
  <2>2. left[j + 1] = ds[n - m + (j + 1)]
    BY <2>1 DEF Rest
  <2>3. Tail(left)[j] = left[j + 1]
    BY <1>1
  <2> QED
    BY <2>1, <2>2, <2>3
<1>3. \A i \in 1..(n - (m - 1)) : tab[ds[i]] # None
  <2> SUFFICES ASSUME NEW i \in 1..(n - (m - 1)) PROVE tab[ds[i]] # None
    OBVIOUS
  <2>1. CASE i \in 1..(n - m)
    BY <2>1 DEF Rest
  <2>2. CASE i \notin 1..(n - m)
    <3>1. i = n - m + 1 /\ 1 \in 1..m
      BY <1>1, <2>2
    <3>2. left[1] = ds[n - m + 1]
      BY <3>1 DEF Rest
    <3> QED
      BY <3>1, <3>2
  <2> QED
    BY <2>1, <2>2
<1> HIDE DEF n, m
<1> DEFINE next == Tail(left)
<1>4. Len(next) = m - 1 /\ Len(ds) = n
  BY <1>1 DEF n
<1> HIDE DEF next
<1>5. Len(next) <= Len(ds) /\ Len(ds) - Len(next) = n - (m - 1)
  BY <1>1, <1>4
<1>6. \A j \in 1..Len(next) : next[j] = ds[Len(ds) - Len(next) + j]
  BY <1>2, <1>4, <1>5 DEF next
<1>7. \A i \in 1..(Len(ds) - Len(next)) : tab[ds[i]] # None
  BY <1>3, <1>5
<1>8. Rest(tab, ds, next)
  BY <1>5, <1>6, <1>7 DEF Rest
<1> QED
  BY <1>8 DEF next

\* A process that goes no further with its list keeps its progress.
LEMMA ProgressStays ==
  ASSUME CatalogTypes, [Next]_vars, ~CentralReset, NEW e \in Coords, Progress(e),
         pc'[e] \in {"datasets", "wait", "running"} =>
           /\ pc[e] \in {"datasets", "wait", "running"}
           /\ todo'[e] = todo[e] /\ cfg'[e] = cfg[e]
           /\ pc'[e] = "running" => pc[e] = "running" \/ todo[e] = << >>
  PROVE  Progress(e)'
<1>1. cfg[e].datasets \in Seq(Datasets) /\ todo[e] \in Seq(Datasets)
  BY CatalogAssumption DEF CatalogTypes, TypeOK
<1>2. \A d \in Datasets : rows[d] # None => rows'[d] # None
  BY RowsStay
<1>3. Rest(rows, cfg[e].datasets, todo[e]) => Rest(rows', cfg[e].datasets, todo[e])
  BY <1>1, <1>2, RestStays
<1> QED
  BY <1>3 DEF Progress

LEMMA NextProgress ==
  CatalogTypes /\ AllProgress /\ [Next]_vars /\ ~CentralReset => AllProgress'
<1> SUFFICES ASSUME CatalogTypes, AllProgress, [Next]_vars, ~CentralReset, NEW e \in Coords
             PROVE  Progress(e)'
  BY DEF AllProgress
<1> USE CatalogAssumption
<1>0. /\ pc \in [Coords -> {"down", "register", "datasets", "wait", "running"}]
      /\ todo \in [Coords -> Seq(Datasets)]
      /\ cfg \in [Coords -> Configs] /\ cfg[e].datasets \in Seq(Datasets)
      /\ \A r \in inflight : r.call.coord \in Coords /\ r.call.ds \in Datasets
      /\ Progress(e)
  BY DEF CatalogTypes, TypeOK, AllProgress, CallRecords
<1>1. ASSUME NEW c \in Coords, Start(c) PROVE Progress(e)'
  BY <1>0, <1>1, ProgressStays DEF Start
\* A registration begins: everything is left to do.
<1>2. ASSUME NEW c \in Coords, Register(c) PROVE Progress(e)'
  <2>1. CASE c # e
    BY <1>0, <1>2, <2>1, ProgressStays DEF Register
  <2>2. CASE c = e
    <3>1. todo'[e] = cfg[e].datasets /\ cfg' = cfg /\ pc'[e] = "datasets"
      BY <1>0, <1>2, <2>2 DEF Register
    <3> QED
      BY <1>0, <3>1 DEF Progress, Rest
  <2> QED
    BY <2>1, <2>2
<1>3. ASSUME NEW c \in Coords, LookupEndpoint(c) PROVE Progress(e)'
  BY <1>0, <1>3, ProgressStays DEF LookupEndpoint
\* The first of what is left gets its row.
<1>4. ASSUME NEW r \in inflight, UpsertDataset(r) PROVE Progress(e)'
  <2>0. cfg' = cfg /\ Accepted(r) /\ r.call.coord \in Coords
    BY <1>0, <1>4 DEF UpsertDataset
  <2>1. CASE r.call.coord # e \/ r \notin Calls(r.call.coord)
    <3>1. pc'[e] = pc[e] /\ todo'[e] = todo[e]
      BY <1>0, <2>0, <2>1 DEF Accepted
    <3> QED
      BY <1>0, <2>0, <3>1, ProgressStays
  <2>2. CASE r.call.coord = e /\ r \in Calls(e)
    <3>1. pc[e] = "wait" /\ todo[e] # << >> /\ r.call.ds = Head(todo[e])
      BY <2>2 DEF Calls, CallOf, CatalogTypes, WaitsForCall
    <3>2. pc'[e] = "datasets" /\ todo'[e] = Tail(todo[e])
      BY <1>0, <2>0, <2>2 DEF Accepted
    <3>3. rows'[r.call.ds] # None
      <4>1. /\ r.call.coord \in Coords /\ r.call.id \in Ids /\ r.call.ds \in Datasets
            /\ r.endpoint \in Endpoints \cup {NoEndpoint}
            /\ rows \in [Datasets -> DatasetRows \cup {None}]
        BY DEF CatalogTypes, TypeOK, CallRecords
      <4>2. rows'[r.call.ds] \in DatasetRows
        BY <1>4, <4>1 DEF UpsertDataset, Upsert, DatasetRows
      <4> QED
        BY <4>2
    <3>4. Rest(rows', cfg[e].datasets, todo[e])
      <4>1. Rest(rows, cfg[e].datasets, todo[e])
        BY <1>0, <3>1 DEF Progress
      <4> QED
        BY <1>0, <4>1, RowsStay, RestStays
    <3>5. Rest(rows', cfg[e].datasets, Tail(todo[e]))
      BY <1>0, <3>1, <3>3, <3>4, RestShrinks
    <3> QED
      BY <2>0, <3>2, <3>5 DEF Progress
  <2> QED
    BY <2>1, <2>2
\* A refused process is down.
<1>5. ASSUME NEW r \in inflight, UpsertFails(r) PROVE Progress(e)'
  <2>1. \/ pc'[e] = "down"
        \/ pc'[e] = pc[e] /\ todo'[e] = todo[e]
    BY <1>0, <1>5 DEF UpsertFails, Refused
  <2>2. cfg' = cfg
    BY <1>5 DEF UpsertFails
  <2> QED
    BY <1>0, <2>1, <2>2, ProgressStays
<1>6. ASSUME NEW c \in Coords, FinishRegistration(c) PROVE Progress(e)'
  BY <1>0, <1>6, ProgressStays DEF FinishRegistration
<1>7. ASSUME NEW c \in Coords, Crash(c) PROVE Progress(e)'
  BY <1>0, <1>7, ProgressStays DEF Crash
<1>8. CASE CentralRestart
  BY <1>0, <1>8, ProgressStays DEF CentralRestart, Disconnected
\* The others leave the processes alone, or their heartbeat streams only.
<1>9. ASSUME UNCHANGED <<pc, todo, cfg>> PROVE Progress(e)'
  BY <1>0, <1>9, ProgressStays
<1> QED
  BY <1>1, <1>2, <1>3, <1>4, <1>5, <1>6, <1>7, <1>8, <1>9
  DEF Next, Coordinator, Heartbeat, Reconnect, GoStale, RegisterLands, Unregister,
      StoreChanges, procs, vars

(***************************************************************************)
(* While central keeps its database, a coordinator that sends heartbeats   *)
(* has a record and a row for every dataset of its configuration, however  *)
(* often it and central stopped before.  The lists of datasets may be of   *)
(* any length; that registration stops at the first error is what it needs.*)
(***************************************************************************)
THEOREM RunningIsRegistered == Spec => []RunningMeansRegistered
<1> DEFINE Inv == CatalogTypes /\ (~lost => Routable /\ AllProgress)
<1>1. Init => Inv
  BY InitTypes, InitRoutable DEF Init, AllProgress, Progress
<1>2. Inv /\ [Next]_vars => Inv'
  <2>1. CentralReset => lost'
    BY DEF CentralReset
  <2> QED
    BY <2>1, NextTypes, NextRoutable, NextProgress, LostByReset
<1>3. Inv => RunningMeansRegistered
  <2> SUFFICES ASSUME Inv, ~lost, NEW c \in Coords, pc[c] = "running",
                      NEW i \in DOMAIN cfg[c].datasets
               PROVE  /\ coords[c] # None
                      /\ rows[cfg[c].datasets[i]] # None
                      /\ rows[cfg[c].datasets[i]].coord = c =>
                           rows[cfg[c].datasets[i]].endpoint \in registered[c]
    BY DEF RunningMeansRegistered, Routable, CoordRegistered
  <2>1. cfg[c].datasets \in Seq(Datasets) /\ todo[c] \in Seq(Datasets)
    BY CatalogAssumption DEF CatalogTypes, TypeOK
  <2>2. i \in 1..Len(cfg[c].datasets) /\ cfg[c].datasets[i] \in Datasets
    BY <2>1
  <2>3. rows[cfg[c].datasets[i]] # None
    <3>1. Rest(rows, cfg[c].datasets, << >>)
      BY DEF AllProgress, Progress
    <3>2. i \in 1..(Len(cfg[c].datasets) - 0)
      BY <2>1, <2>2
    <3> QED
      BY <3>1, <3>2 DEF Rest
  <2> QED
    BY <2>2, <2>3 DEF Routable, Routed, CoordRegistered
<1> QED
  BY <1>1, <1>2, <1>3, PTL DEF Spec
=============================================================================
