--------------------------- MODULE TerminalUiProofs ---------------------------
(***************************************************************************)
(* Proofs about TerminalUi, for any scripts of keys, any number of tasks   *)
(* and events, and any sizes of the channel, the log and the scroll range. *)
(***************************************************************************)
EXTENDS TerminalUi, SequenceTheorems, FiniteSetTheorems, TLAPS

\* The events of the channel by their kinds.
LEMMA EventKinds ==
  ASSUME NEW e \in AppEvents
  PROVE  /\ e # None /\ e.kind \in {"key", "audit", "result", "catalog"}
         /\ e.kind = "key" => e.key \in Keys /\ e = KeyEvent(e.key)
         /\ e.kind = "audit" => e.n \in 0..MaxEvents
         /\ e.kind \in {"result", "catalog"} => e.n \in 1..MaxTasks
BY NoneAssumption DEF AppEvents, KeyEvent, AuditMessage, QueryResult, CatalogLoaded, AppEvent

LEMMA MadeEvents ==
  /\ \A k \in Keys : /\ KeyEvent(k) \in AppEvents
                     /\ KeyEvent(k).kind = "key" /\ KeyEvent(k).key = k
  /\ \A n \in 0..MaxEvents : /\ AuditMessage(n) \in AppEvents
                             /\ AuditMessage(n).kind = "audit" /\ AuditMessage(n).n = n
  /\ \A i \in 1..MaxTasks, ok \in BOOLEAN :
       /\ QueryResult(i, ok) \in AppEvents
       /\ QueryResult(i, ok).kind = "result" /\ QueryResult(i, ok).n = i
  /\ \A i \in 1..MaxTasks : /\ CatalogLoaded(i) \in AppEvents
                            /\ CatalogLoaded(i).kind = "catalog"
<1>1. ASSUME NEW k \in Keys
      PROVE  KeyEvent(k) \in AppEvents /\ KeyEvent(k).kind = "key" /\ KeyEvent(k).key = k
  <2>1. KeyEvent(k) \in AppEvents
    BY DEF AppEvents
  <2> QED  BY <2>1 DEF KeyEvent, AppEvent
<1>2. ASSUME NEW n \in 0..MaxEvents
      PROVE  /\ AuditMessage(n) \in AppEvents
             /\ AuditMessage(n).kind = "audit" /\ AuditMessage(n).n = n
  <2>1. AuditMessage(n) \in AppEvents
    BY DEF AppEvents
  <2> QED  BY <2>1 DEF AuditMessage, AppEvent
<1>3. ASSUME NEW i \in 1..MaxTasks, NEW ok \in BOOLEAN
      PROVE  /\ QueryResult(i, ok) \in AppEvents
             /\ QueryResult(i, ok).kind = "result" /\ QueryResult(i, ok).n = i
  <2>1. QueryResult(i, ok) \in AppEvents
    BY DEF AppEvents
  <2> QED  BY <2>1 DEF QueryResult, AppEvent
<1>4. ASSUME NEW i \in 1..MaxTasks
      PROVE  CatalogLoaded(i) \in AppEvents /\ CatalogLoaded(i).kind = "catalog"
  <2>1. CatalogLoaded(i) \in AppEvents
    BY DEF AppEvents
  <2> QED  BY <2>1 DEF CatalogLoaded, AppEvent
<1> QED  BY <1>1, <1>2, <1>3, <1>4

\* The tasks are different ones.
LEMMA TasksDiffer ==
  /\ Keyboard \in Tasks /\ Audit \in Tasks /\ Keyboard # Audit
  /\ \A i \in 1..MaxTasks :
       /\ Query(i) \in Calls /\ Load(i) \in Calls
       /\ Query(i) \in Tasks /\ Load(i) \in Tasks
       /\ Query(i) \notin {Keyboard, Audit} /\ Load(i) \notin {Keyboard, Audit}
       /\ \A j \in 1..MaxTasks : Query(i) # Load(j) /\ (Query(i) = Query(j) => i = j)
  /\ \A t \in Calls : /\ t \in Tasks /\ t \notin {Keyboard, Audit}
                      /\ \E i \in 1..MaxTasks : t = Query(i) \/ t = Load(i)
BY DEF Tasks, Calls, Query, Load, Keyboard, Audit

-----------------------------------------------------------------------------
(***************************************************************************)
(* How often a value occurs in a sequence that grows at its end and loses  *)
(* its head.                                                               *)
(***************************************************************************)
LEMMA CountIsNat ==
  ASSUME NEW S, NEW seq \in Seq(S), NEW x
  PROVE  IsFiniteSet({i \in DOMAIN seq : seq[i] = x}) /\ Count(seq, x) \in Nat
<1>1. IsFiniteSet(1..Len(seq)) /\ DOMAIN seq = 1..Len(seq)
  <2>1. Len(seq) \in Nat /\ DOMAIN seq = 1..Len(seq)
    OBVIOUS
  <2> QED  BY <2>1, FS_Interval
<1> DEFINE at == {i \in DOMAIN seq : seq[i] = x}
<1>2. at \subseteq 1..Len(seq)
  BY <1>1
<1>3. IsFiniteSet(at)
  BY <1>1, <1>2, FS_Subset
<1>4. Cardinality(at) \in Nat
  BY <1>3, FS_CardinalityType
<1> QED  BY <1>3, <1>4 DEF Count

LEMMA CountAppend ==
  ASSUME NEW S, NEW seq \in Seq(S), NEW e \in S, NEW x
  PROVE  Count(Append(seq, e), x) = Count(seq, x) + (IF e = x THEN 1 ELSE 0)
<1> DEFINE longer == Append(seq, e)
           before == {i \in DOMAIN seq : seq[i] = x}
           after  == {i \in DOMAIN longer : longer[i] = x}
<1>1. /\ Len(seq) \in Nat /\ DOMAIN seq = 1..Len(seq)
      /\ DOMAIN longer = 1..(Len(seq) + 1) /\ longer[Len(seq) + 1] = e
      /\ \A i \in 1..Len(seq) : longer[i] = seq[i]
  BY AppendProperties
<1> HIDE DEF longer
<1>2. IsFiniteSet(before) /\ Cardinality(before) \in Nat /\ Len(seq) + 1 \notin before
  <2>1. Len(seq) + 1 \notin before
    BY <1>1
  <2> QED  BY <2>1, CountIsNat DEF Count
<1>3. after = IF e = x THEN before \cup {Len(seq) + 1} ELSE before
  BY <1>1
<1> HIDE DEF before, after
<1>4. Cardinality(after) = Cardinality(before) + (IF e = x THEN 1 ELSE 0)
  <2>1. CASE e = x
    <3>1. Cardinality(before \cup {Len(seq) + 1}) = Cardinality(before) + 1
      BY <1>2, FS_AddElement
    <3> QED  BY <2>1, <3>1, <1>3
  <2>2. CASE e # x
    BY <2>2, <1>2, <1>3
  <2> QED  BY <2>1, <2>2
<1> QED  BY <1>4 DEF Count, before, after, longer

LEMMA CountTail ==
  ASSUME NEW S, NEW seq \in Seq(S), seq # << >>, NEW x
  PROVE  Count(Tail(seq), x) = Count(seq, x) - (IF Head(seq) = x THEN 1 ELSE 0)
<1> DEFINE rest   == Tail(seq)
           before == {i \in DOMAIN seq : seq[i] = x}
           after  == {i \in DOMAIN rest : rest[i] = x}
           shift  == [i \in after |-> i + 1]
<1>1. /\ Len(seq) \in Nat /\ Len(seq) >= 1 /\ DOMAIN seq = 1..Len(seq) /\ Head(seq) = seq[1]
      /\ DOMAIN rest = 1..(Len(seq) - 1) /\ \A i \in 1..(Len(seq) - 1) : rest[i] = seq[i + 1]
  <2>1. /\ Len(seq) \in Nat /\ Len(seq) >= 1 /\ DOMAIN seq = 1..Len(seq) /\ Head(seq) = seq[1]
    OBVIOUS
  <2>2. DOMAIN rest = 1..(Len(seq) - 1) /\ \A i \in 1..(Len(seq) - 1) : rest[i] = seq[i + 1]
    BY <2>1, HeadTailProperties, LenProperties
  <2> QED  BY <2>1, <2>2
<1> HIDE DEF rest
<1>2. IsFiniteSet(before) /\ IsFiniteSet(after) /\ Cardinality(before) \in Nat
      /\ Cardinality(after) \in Nat
  <2>1. rest \in Seq(S)
    BY HeadTailProperties DEF rest
  <2> QED  BY <2>1, CountIsNat DEF Count
<1>3. \A i \in after : i \in Int /\ i + 1 \in before \ {1}
  BY <1>1
<1>4. \A i \in before \ {1} : i - 1 \in after /\ (i - 1) + 1 = i
  BY <1>1
<1>5. Cardinality(before) = Cardinality(after) + (IF Head(seq) = x THEN 1 ELSE 0)
  <2> DEFINE others == before \ {1}
  <2>1. 1 \in before <=> Head(seq) = x
    BY <1>1
  <2> HIDE DEF before, after
  <2>2. IsFiniteSet(others) /\ Cardinality(others) =
          IF 1 \in before THEN Cardinality(before) - 1 ELSE Cardinality(before)
    BY <1>2, FS_RemoveElement
  <2> HIDE DEF others
  <2>3. shift \in Bijection(after, others)
    <3>1. shift \in [after -> others]
      BY <1>3 DEF others
    <3>2. \A i, j \in after : shift[i] = shift[j] => i = j
      BY <1>3
    <3>3. \A k \in others : \E i \in after : shift[i] = k
      BY <1>4 DEF others
    <3> HIDE DEF shift
    <3> QED  BY <3>1, <3>2, <3>3 DEF Bijection, Injection, Surjection, IsInjective
  <2>4. ExistsBijection(after, others)
    BY <2>3 DEF ExistsBijection
  <2>5. Cardinality(others) = Cardinality(after)
    BY <1>2, <2>4, FS_Bijection
  <2> QED  BY <1>2, <2>1, <2>2, <2>5
<1> HIDE DEF before, after
<1>6. Cardinality(after) = Cardinality(before) - (IF Head(seq) = x THEN 1 ELSE 0)
  BY <1>2, <1>5
<1> QED  BY <1>6 DEF Count, before, after, rest

-----------------------------------------------------------------------------
(***************************************************************************)
(* Types.  That no more tasks are started than MaxTasks follows from the   *)
(* keys that may still start one: those not pressed, the one the keyboard  *)
(* task holds, and those in the channel.                                   *)
(***************************************************************************)
Pending(k) ==
  Count(script, k) + Count(chan, KeyEvent(k)) + (IF held[Keyboard] = KeyEvent(k) THEN 1 ELSE 0)

Budget ==
  /\ started.query + Pending("f5") <= MaxTasks
  /\ started.load + Pending("ctrl_r") <= MaxTasks

\* Each task holds events of its own.
Owns(t, event) ==
  \/ event = None
  \/ t = Keyboard /\ event.kind = "key"
  \/ t = Audit /\ event.kind = "audit"
  \/ \E i \in 1..MaxTasks : t = Query(i) /\ event.kind = "result" /\ event.n = i
  \/ \E i \in 1..MaxTasks :
       t = Load(i) /\ (event.kind = "catalog" \/ (event.kind = "audit" /\ event.n = 0))

HeldRight == \A t \in Tasks : Owns(t, held[t])

UiType == TypeOK /\ Budget /\ HeldRight

\* The steps of the loop that leave the tasks, the log and is_loading alone.
Quiet ==
  /\ running /\ chan # << >> /\ Taken.kind \notin {"audit", "result"} /\ chan' = Tail(chan)
  /\ app' \in Apps /\ app'.is_loading = app.is_loading /\ app'.audit_log = app.audit_log
  /\ running' \in BOOLEAN /\ UNCHANGED <<held, calling, input, started, past>>

LEMMA QuietSteps ==
  ASSUME TypeOK, Quit \/ Tab \/ ClearEditor \/ EditorInput \/ Up \/ Down \/ ShowCatalog
  PROVE  Quiet
<1>1. /\ app \in Apps /\ running \in BOOLEAN /\ MaxScroll \in Nat
      /\ chan # << >> => Taken \in AppEvents
  BY UiAssumption, HeadTailProperties DEF TypeOK, Taken
<1>2. ASSUME NEW p \in Panes
      PROVE  /\ [app EXCEPT !.pane = p] \in Apps
             /\ [app EXCEPT !.pane = p].is_loading = app.is_loading
             /\ [app EXCEPT !.pane = p].audit_log = app.audit_log
  BY <1>1 DEF Apps
<1>3. ASSUME NEW text \in BOOLEAN
      PROVE  /\ [app EXCEPT !.text = text] \in Apps
             /\ [app EXCEPT !.text = text].is_loading = app.is_loading
             /\ [app EXCEPT !.text = text].audit_log = app.audit_log
  BY <1>1 DEF Apps
<1>4. ASSUME NEW n \in 0..MaxScroll
      PROVE  /\ [app EXCEPT !.results_scroll = n] \in Apps
             /\ [app EXCEPT !.results_scroll = n].is_loading = app.is_loading
             /\ [app EXCEPT !.results_scroll = n].audit_log = app.audit_log
             /\ [app EXCEPT !.audit_scroll = n] \in Apps
             /\ [app EXCEPT !.audit_scroll = n].is_loading = app.is_loading
             /\ [app EXCEPT !.audit_scroll = n].audit_log = app.audit_log
  BY <1>1 DEF Apps
<1>5. /\ app.results_scroll \in 0..MaxScroll /\ app.audit_scroll \in 0..MaxScroll
      /\ app.pane \in Panes
  BY <1>1 DEF Apps
<1>6. CASE Quit
  BY <1>6, <1>1 DEF Quit, TakeKey, Take, Taken, Quiet
<1>7. CASE Tab
  <2>1. NextPane \in Panes
    BY <1>5 DEF NextPane, Pane, Panes
  <2> QED  BY <2>1, <1>7, <1>1, <1>2 DEF Tab, TakeKey, Take, Taken, Quiet
<1>8. CASE ClearEditor
  BY <1>8, <1>1, <1>3 DEF ClearEditor, TakeKey, Take, Taken, Quiet
<1>9. CASE EditorInput
  BY <1>9, <1>1, <1>3 DEF EditorInput, TakeKey, Take, Taken, Quiet
<1>10. CASE Up
  <2>1. /\ SaturatingSub1(app.results_scroll) \in 0..MaxScroll
        /\ SaturatingSub1(app.audit_scroll) \in 0..MaxScroll
    BY <1>1, <1>5 DEF SaturatingSub1
  <2> QED  BY <2>1, <1>10, <1>1, <1>4 DEF Up, Pane, TakeKey, Take, Taken, Quiet
<1>11. CASE Down
  <2>1. \A n \in 0..MaxScroll : (n + 1) % (MaxScroll + 1) \in 0..MaxScroll
    BY <1>1
  <2>2. /\ (app.results_scroll + 1) % (MaxScroll + 1) \in 0..MaxScroll
        /\ (app.audit_scroll + 1) % (MaxScroll + 1) \in 0..MaxScroll
    BY <2>1, <1>5
  <2> DEFINE r == (app.results_scroll + 1) % (MaxScroll + 1)
             a == (app.audit_scroll + 1) % (MaxScroll + 1)
  <2>3. /\ app' \in {[app EXCEPT !.results_scroll = r], [app EXCEPT !.audit_scroll = a], app}
        /\ running' \in BOOLEAN /\ Take("key") /\ UNCHANGED <<held, calling, input, started, past>>
    BY <1>11, <1>1 DEF Down, Pane, TakeKey
  <2>4. r \in 0..MaxScroll /\ a \in 0..MaxScroll
    BY <2>2
  <2> HIDE DEF r, a
  <2> QED  BY <2>3, <2>4, <1>1, <1>4 DEF Take, Taken, Quiet
<1>12. CASE ShowCatalog
  <2>1. Taken.n \in 1..MaxTasks
    BY <1>12, <1>1, EventKinds DEF ShowCatalog, Take, Taken
  <2>2. /\ app' = [app EXCEPT !.catalog = Taken.n] /\ Take("catalog")
        /\ UNCHANGED <<running, held, calling, input, started, past>>
    BY <1>12 DEF ShowCatalog
  <2>3. app' \in Apps /\ app'.is_loading = app.is_loading /\ app'.audit_log = app.audit_log
    BY <2>1, <2>2, <1>1 DEF Apps
  <2> QED  BY <2>2, <2>3, <1>1 DEF Take, Taken, Quiet
<1> QED  BY <1>6, <1>7, <1>8, <1>9, <1>10, <1>11, <1>12

\* Every step is one of these.
LEMMA UiSteps ==
  ASSUME TypeOK, [Next]_vars
  PROVE  \/ \E t \in Tasks : Send(t)
         \/ Press \/ ConnectStream \/ StreamEvent \/ StreamEnds \/ KeyboardEnds \/ DrawFails
         \/ \E t \in Calls : CallReturns(t)
         \/ Quiet \/ RefreshCatalog \/ ExecuteQuery \/ PushAudit \/ ShowResult
         \/ UNCHANGED vars
BY QuietSteps DEF Next, Loop, HandleKey

LEMMA HeldBy ==
  ASSUME UiType, NEW t \in Tasks, held[t] # None
  PROVE  /\ held[t] \in AppEvents
         /\ held[t].kind = "key" <=> t = Keyboard
         /\ held[t].kind = "result" => t = Query(held[t].n)
         /\ held[t].kind = "audit" /\ held[t].n # 0 => t = Audit
         /\ t = Audit => held[t].kind = "audit"
         /\ \A i \in 1..MaxTasks : t = Query(i) => held[t].kind = "result" /\ held[t].n = i
<1>1. Owns(t, held[t]) /\ held[t] \in AppEvents
  BY DEF UiType, HeldRight, TypeOK
<1> QED  BY <1>1, TasksDiffer DEF Owns

\* A task that takes up an event of its own, or is rid of it.
LEMMA HoldStep ==
  ASSUME UiType, NEW t \in Tasks, NEW event \in AppEvents \cup {None}, Owns(t, event),
         Hold(t, event)
  PROVE  /\ held' \in [Tasks -> AppEvents \cup {None}] /\ HeldRight'
         /\ held'[t] = event /\ \A u \in Tasks : u # t => held'[u] = held[u]
<1>1. held \in [Tasks -> AppEvents \cup {None}] /\ HeldRight
  BY DEF UiType, TypeOK
<1>2. /\ held' \in [Tasks -> AppEvents \cup {None}]
      /\ held'[t] = event /\ \A u \in Tasks : u # t => held'[u] = held[u]
  BY <1>1 DEF Hold
<1>3. ASSUME NEW u \in Tasks
      PROVE  Owns(u, held'[u])
  <2>1. CASE u = t
    BY <2>1, <1>2
  <2>2. CASE u # t
    BY <2>2, <1>1, <1>2 DEF HeldRight
  <2> QED  BY <2>1, <2>2
<1>4. HeldRight'
  BY <1>3 DEF HeldRight, Owns
<1> QED  BY <1>2, <1>4

LEMMA CountsAreNat ==
  ASSUME UiType
  PROVE  /\ \A k : Count(script, k) \in Nat
         /\ \A e : Count(chan, e) \in Nat
         /\ started.query \in 0..MaxTasks /\ started.load \in 0..MaxTasks
         /\ Pending("f5") \in Nat /\ Pending("ctrl_r") \in Nat /\ MaxTasks \in Nat
<1>1. script \in Seq(Keys) /\ chan \in Seq(AppEvents)
      /\ started \in [{"query", "load"} -> 0..MaxTasks]
  BY DEF UiType, TypeOK
<1>2. \A k : Count(script, k) \in Nat
  BY <1>1, CountIsNat
<1>3. \A e : Count(chan, e) \in Nat
  BY <1>1, CountIsNat
<1> QED  BY <1>1, <1>2, <1>3, UiAssumption DEF Pending

LEMMA PendingNext ==
  ASSUME NEW k
  PROVE  Pending(k)' = Count(script', k) + Count(chan', KeyEvent(k))
                       + (IF held'[Keyboard] = KeyEvent(k) THEN 1 ELSE 0)
BY DEF Pending, Count, KeyEvent, AppEvent, Keyboard

\* The loop receives an event.
LEMMA ReceiveStep ==
  ASSUME UiType, chan # << >>, chan' = Tail(chan)
  PROVE  /\ Taken \in AppEvents
         /\ chan' \in Seq(AppEvents) /\ Len(chan') <= ChanCap
         /\ \A e : Count(chan', e) = Count(chan, e) - (IF Taken = e THEN 1 ELSE 0)
<1>1. chan \in Seq(AppEvents) /\ Len(chan) <= ChanCap /\ ChanCap \in Nat
  BY UiAssumption DEF UiType, TypeOK
<1>2. /\ Head(chan) \in AppEvents /\ Tail(chan) \in Seq(AppEvents)
      /\ Len(Tail(chan)) = Len(chan) - 1 /\ Len(chan) \in Nat
  BY <1>1, HeadTailProperties, LenProperties
<1>3. \A e : Count(Tail(chan), e) = Count(chan, e) - (IF Head(chan) = e THEN 1 ELSE 0)
  BY <1>1, CountTail
<1> QED  BY <1>1, <1>2, <1>3 DEF Taken

\* A step of the loop that starts no task leaves what is pending or lowers it.
LEMMA ReceiveBudget ==
  ASSUME UiType, chan # << >>, chan' = Tail(chan), UNCHANGED <<script, held, started>>
  PROVE  Budget'
<1>1. \A e : Count(chan', e) \in Int /\ Count(chan', e) <= Count(chan, e)
  BY ReceiveStep, CountsAreNat
<1>2. ASSUME NEW k \in {"f5", "ctrl_r"}
      PROVE  Pending(k)' \in Int /\ Pending(k)' <= Pending(k)
  <2>1. Pending(k)' = Count(script, k) + Count(chan', KeyEvent(k))
                      + (IF held[Keyboard] = KeyEvent(k) THEN 1 ELSE 0)
    BY PendingNext
  <2>2. Pending(k) = Count(script, k) + Count(chan, KeyEvent(k))
                     + (IF held[Keyboard] = KeyEvent(k) THEN 1 ELSE 0)
    BY DEF Pending
  <2>3. Count(script, k) \in Nat /\ Count(chan, KeyEvent(k)) \in Nat
        /\ Count(chan', KeyEvent(k)) \in Int /\ Count(chan', KeyEvent(k)) <= Count(chan, KeyEvent(k))
    BY <1>1, CountsAreNat
  <2> QED  BY <2>1, <2>2, <2>3
<1>3. Budget
  BY DEF UiType
<1> QED  BY <1>2, <1>3, CountsAreNat DEF Budget

LEMMA InitUiType ==
  ASSUME Init
  PROVE  UiType
<1>1. /\ script \in Seq(Keys) /\ MaxTasks \in Nat /\ MaxEvents \in Nat /\ MaxScroll \in Nat
      /\ ChanCap \in Nat /\ LogCap \in Nat
      /\ Count(script, "f5") <= MaxTasks /\ 1 + Count(script, "ctrl_r") <= MaxTasks
  BY UiAssumption DEF Init
<1>2. \A k : Count(script, k) \in Nat
  BY <1>1, CountIsNat
<1>3. ASSUME NEW e PROVE Count(chan, e) = 0
  <2>1. {i \in DOMAIN << >> : << >>[i] = e} = {}
    OBVIOUS
  <2> QED  BY <2>1, FS_EmptySet DEF Init, Count
<1>4. \A k \in {"f5", "ctrl_r"} : Pending(k) = Count(script, k)
  <2>1. \A k \in {"f5", "ctrl_r"} : held[Keyboard] # KeyEvent(k)
    BY NoneAssumption, MadeEvents, TasksDiffer DEF Init, Keys
  <2> QED  BY <2>1, <1>2, <1>3 DEF Pending
<1>5. Budget
  BY <1>1, <1>2, <1>4 DEF Init, Budget
<1>6. HeldRight
  BY DEF Init, HeldRight, Owns
<1>7. app \in Apps /\ Len(app.audit_log) = 0
  BY <1>1 DEF Init, Apps, Panes
<1>8. calling \subseteq Calls
  <2>1. 1 \in 1..MaxTasks
    BY <1>1, <1>2
  <2> QED  BY <2>1, TasksDiffer DEF Init
<1>9. started \in [{"query", "load"} -> 0..MaxTasks]
  BY <1>1, <1>2 DEF Init
<1>10. held \in [Tasks -> AppEvents \cup {None}] /\ running \in BOOLEAN /\ overlap \in BOOLEAN
  BY DEF Init
<1>11. chan \in Seq(AppEvents) /\ Len(chan) = 0 /\ seen \in Seq(0..MaxEvents)
  <2>1. chan = << >> /\ seen = << >>
    BY DEF Init
  <2> QED  BY <2>1
<1>12. stream \in {"off", "connecting", "open", "ended"} /\ streamed \in 0..MaxEvents
  BY <1>1 DEF Init
<1> QED  BY <1>1, <1>5, <1>6, <1>7, <1>8, <1>9, <1>10, <1>11, <1>12 DEF UiType, TypeOK

LEMMA SendUiType ==
  ASSUME UiType, NEW t \in Tasks, Send(t)
  PROVE  UiType'
<1>1. /\ held[t] \in AppEvents /\ held[t] # None /\ chan \in Seq(AppEvents)
      /\ ChanCap \in Nat /\ Len(chan) \in Nat
  BY UiAssumption, HeldBy DEF Send, UiType, TypeOK
<1>2. chan' \in Seq(AppEvents) /\ Len(chan') <= ChanCap
  BY <1>1, AppendProperties DEF Send
<1>3. /\ held' \in [Tasks -> AppEvents \cup {None}] /\ HeldRight'
      /\ held'[t] = None /\ \A u \in Tasks : u # t => held'[u] = held[u]
  BY HoldStep DEF Send, Owns
<1>4. ASSUME NEW k \in {"f5", "ctrl_r"}
      PROVE  Pending(k)' = Pending(k)
  <2>1. Count(chan', KeyEvent(k)) = Count(chan, KeyEvent(k)) + (IF held[t] = KeyEvent(k) THEN 1 ELSE 0)
    BY <1>1, CountAppend DEF Send
  <2>2. KeyEvent(k) # None /\ KeyEvent(k).kind = "key"
    BY NoneAssumption, MadeEvents DEF Keys
  <2>3. held[t] = KeyEvent(k) => t = Keyboard
    BY <2>2, <1>1, HeldBy
  <2>4. Pending(k)' = Count(script, k) + Count(chan', KeyEvent(k))
                      + (IF held'[Keyboard] = KeyEvent(k) THEN 1 ELSE 0)
    BY PendingNext DEF Send, input
  <2>5. Pending(k) = Count(script, k) + Count(chan, KeyEvent(k))
                     + (IF held[Keyboard] = KeyEvent(k) THEN 1 ELSE 0)
    BY DEF Pending
  <2>6. Count(script, k) \in Nat /\ Count(chan, KeyEvent(k)) \in Nat
    BY CountsAreNat
  <2>7. CASE t = Keyboard
    BY <2>7, <2>1, <2>2, <2>4, <2>5, <2>6, <1>3
  <2>8. CASE t # Keyboard
    <3>1. held'[Keyboard] = held[Keyboard] /\ held[t] # KeyEvent(k)
      BY <2>8, <2>3, <1>3, TasksDiffer
    <3> QED  BY <3>1, <2>1, <2>4, <2>5, <2>6
  <2> QED  BY <2>7, <2>8
<1>5. Budget'
  BY <1>4 DEF Send, Budget, UiType
<1> QED  BY <1>2, <1>3, <1>5 DEF Send, UiType, TypeOK, input, past

LEMMA PressUiType ==
  ASSUME UiType, Press
  PROVE  UiType'
<1>1. script \in Seq(Keys) /\ script # << >> /\ held[Keyboard] = None
  BY DEF Press, UiType, TypeOK
<1>2. Head(script) \in Keys /\ script' = Tail(script) /\ script' \in Seq(Keys)
  BY <1>1, HeadTailProperties DEF Press
<1>3. KeyEvent(Head(script)) \in AppEvents /\ Owns(Keyboard, KeyEvent(Head(script)))
  BY <1>2, MadeEvents DEF Owns
<1>4. /\ held' \in [Tasks -> AppEvents \cup {None}] /\ HeldRight'
      /\ held'[Keyboard] = KeyEvent(Head(script))
  BY <1>3, HoldStep, TasksDiffer DEF Press
<1>5. ASSUME NEW k \in {"f5", "ctrl_r"}
      PROVE  Pending(k)' = Pending(k)
  <2>1. Count(script', k) = Count(script, k) - (IF Head(script) = k THEN 1 ELSE 0)
    BY <1>1, <1>2, CountTail
  <2>2. KeyEvent(k) # None /\ (KeyEvent(Head(script)) = KeyEvent(k) <=> Head(script) = k)
    BY <1>2, NoneAssumption, MadeEvents DEF Keys
  <2>3. Pending(k)' = Count(script', k) + Count(chan, KeyEvent(k))
                      + (IF held'[Keyboard] = KeyEvent(k) THEN 1 ELSE 0)
    BY PendingNext DEF Press
  <2>4. Pending(k) = Count(script, k) + Count(chan, KeyEvent(k))
                     + (IF held[Keyboard] = KeyEvent(k) THEN 1 ELSE 0)
    BY DEF Pending
  <2>5. Count(script, k) \in Nat /\ Count(chan, KeyEvent(k)) \in Nat
    BY CountsAreNat
  <2> QED  BY <2>1, <2>2, <2>3, <2>4, <2>5, <1>1, <1>4
<1>6. Budget'
  BY <1>5 DEF Press, Budget, UiType
<1> QED  BY <1>2, <1>4, <1>6 DEF Press, UiType, TypeOK, input, past

\* A step of another task than the keyboard's leaves what is pending alone.
LEMMA SameBudget ==
  ASSUME UiType, UNCHANGED <<script, chan, started>>, held'[Keyboard] = held[Keyboard]
  PROVE  Budget'
<1>1. ASSUME NEW k \in {"f5", "ctrl_r"}
      PROVE  Pending(k)' = Pending(k)
  BY PendingNext DEF Pending
<1> QED  BY <1>1 DEF Budget, UiType

LEMMA EndsUiType ==
  ASSUME UiType, KeyboardEnds \/ DrawFails
  PROVE  UiType'
<1>1. /\ UNCHANGED <<app, chan, held, calling, streamed, stream, started, past>>
      /\ running' \in BOOLEAN /\ (script' = script \/ script' = << >>)
  BY DEF KeyboardEnds, DrawFails, input, UiType, TypeOK
<1>2. script' \in Seq(Keys)
  <2>1. script \in Seq(Keys) /\ << >> \in Seq(Keys)
    BY DEF UiType, TypeOK
  <2> QED  BY <2>1, <1>1
<1>3. Budget'
  <2>1. CASE script' = script
    BY <2>1, <1>1, SameBudget
  <2>2. CASE script' = << >>
    <3>1. ASSUME NEW k \in {"f5", "ctrl_r"}
          PROVE  Pending(k)' \in Nat /\ Pending(k) \in Nat /\ Pending(k)' <= Pending(k)
      <4>1. Count(script', k) = 0
        BY <2>2, FS_EmptySet DEF Count
      <4>2. /\ Count(script, k) \in Nat /\ Count(chan, KeyEvent(k)) \in Nat
        BY CountsAreNat
      <4>3. Pending(k)' = Count(script', k) + Count(chan', KeyEvent(k))
                          + (IF held'[Keyboard] = KeyEvent(k) THEN 1 ELSE 0)
        BY PendingNext
      <4> QED  BY <4>1, <4>2, <4>3, <1>1 DEF Pending
    <3>2. started.query \in 0..MaxTasks /\ started.load \in 0..MaxTasks /\ MaxTasks \in Nat
      BY UiAssumption DEF UiType, TypeOK
    <3> QED  BY <3>1, <3>2, <1>1 DEF Budget, UiType
  <2> QED  BY <1>1, <2>1, <2>2
<1>4. HeldRight'
  BY <1>1 DEF UiType, HeldRight, Owns
<1> QED  BY <1>1, <1>2, <1>3, <1>4 DEF UiType, TypeOK, past

LEMMA StreamUiType ==
  ASSUME UiType, ConnectStream \/ StreamEvent \/ StreamEnds
  PROVE  UiType'
<1>1. Audit \in Tasks /\ Audit # Keyboard /\ Keyboard \in Tasks
  BY TasksDiffer
<1>2. streamed \in 0..MaxEvents /\ MaxEvents \in Nat /\ HeldRight
      /\ held \in [Tasks -> AppEvents \cup {None}]
  BY UiAssumption DEF UiType, TypeOK
<1>3. ASSUME NEW n \in 0..MaxEvents, Hold(Audit, AuditMessage(n))
      PROVE  /\ held' \in [Tasks -> AppEvents \cup {None}] /\ HeldRight'
             /\ held'[Keyboard] = held[Keyboard]
  <2>1. AuditMessage(n) \in AppEvents /\ Owns(Audit, AuditMessage(n))
    BY MadeEvents DEF Owns
  <2> QED  BY <2>1, <1>1, <1>3, HoldStep
<1>4. ASSUME UNCHANGED held
      PROVE  /\ held' \in [Tasks -> AppEvents \cup {None}] /\ HeldRight'
             /\ held'[Keyboard] = held[Keyboard]
  BY <1>2, <1>4 DEF HeldRight, Owns
<1>5. /\ held' \in [Tasks -> AppEvents \cup {None}] /\ HeldRight'
      /\ held'[Keyboard] = held[Keyboard]
  <2>1. CASE ConnectStream
    BY <2>1, <1>2, <1>3, <1>4 DEF ConnectStream
  <2>2. CASE StreamEvent
    BY <2>2, <1>2, <1>3 DEF StreamEvent
  <2>3. CASE StreamEnds
    BY <2>3, <1>4 DEF StreamEnds
  <2> QED  BY <2>1, <2>2, <2>3
<1>6. /\ UNCHANGED <<app, running, chan, calling, script, started, past>>
      /\ stream' \in {"open", "ended"} /\ streamed' \in 0..MaxEvents
  BY <1>2 DEF ConnectStream, StreamEvent, StreamEnds
<1>7. Budget'
  BY <1>5, <1>6, SameBudget
<1> QED  BY <1>5, <1>6, <1>7 DEF UiType, TypeOK, past

\* The event a call ends with.
LEMMA CallReturnsOwn ==
  ASSUME UiType, NEW t \in Calls, CallReturns(t)
  PROVE  \E event \in AppEvents :
           /\ Hold(t, event) /\ Owns(t, event)
           /\ event.kind # "result" => \A i \in 1..MaxTasks : t # Query(i)
           /\ event.kind = "audit" => event.n = 0
<1>1. PICK ok \in BOOLEAN :
         Hold(t, CASE t[1] = "query"      -> QueryResult(t[2], ok)
                   [] t[1] = "load" /\ ok  -> CatalogLoaded(t[2])
                   [] t[1] = "load" /\ ~ok -> AuditMessage(0))
  BY DEF CallReturns
<1>2. PICK i \in 1..MaxTasks : t = Query(i) \/ t = Load(i)
  BY TasksDiffer
<1>3. CASE t = Query(i)
  <2>1. t[1] = "query" /\ t[2] = i
    BY <1>3 DEF Query
  <2>2. /\ QueryResult(i, ok) \in AppEvents /\ QueryResult(i, ok).kind = "result"
        /\ Owns(t, QueryResult(i, ok))
    BY <1>3, MadeEvents DEF Owns
  <2> QED  BY <2>1, <2>2, <1>1
<1>4. CASE t = Load(i)
  <2>1. t[1] = "load" /\ t[2] = i
    BY <1>4 DEF Load
  <2>2. \A j \in 1..MaxTasks : t # Query(j)
    BY <1>4, TasksDiffer
  <2>3. CASE ok
    <3>1. Hold(t, CatalogLoaded(i))
      BY <1>1, <2>1, <2>3
    <3> QED  BY <3>1, <2>2, <1>4, MadeEvents DEF Owns
  <2>4. CASE ~ok
    <3>1. Hold(t, AuditMessage(0))
      BY <1>1, <2>1, <2>4
    <3>2. 0 \in 0..MaxEvents
      BY UiAssumption
    <3> QED  BY <3>1, <3>2, <2>2, <1>4, MadeEvents DEF Owns
  <2> QED  BY <2>3, <2>4
<1> QED  BY <1>2, <1>3, <1>4

LEMMA CallReturnsUiType ==
  ASSUME UiType, NEW t \in Calls, CallReturns(t)
  PROVE  UiType'
<1>1. t \in Tasks /\ t # Keyboard /\ Keyboard \in Tasks
  BY TasksDiffer
<1>2. PICK event \in AppEvents : Hold(t, event) /\ Owns(t, event)
  BY CallReturnsOwn
<1>3. /\ held' \in [Tasks -> AppEvents \cup {None}] /\ HeldRight'
      /\ held'[Keyboard] = held[Keyboard]
  BY <1>1, <1>2, HoldStep
<1>4. Budget'
  BY <1>3, SameBudget DEF CallReturns, input
<1> QED  BY <1>3, <1>4 DEF CallReturns, UiType, TypeOK, input, past

\* The loop's steps that start no task.
LEMMA ReceiveUiType ==
  ASSUME UiType, chan # << >>, chan' = Tail(chan), UNCHANGED <<held, calling, input, started, overlap>>,
         app' \in Apps, Len(app'.audit_log) <= LogCap, running' \in BOOLEAN,
         seen' \in Seq(0..MaxEvents)
  PROVE  UiType'
<1>1. chan' \in Seq(AppEvents) /\ Len(chan') <= ChanCap /\ Budget'
  BY ReceiveStep, ReceiveBudget DEF input
<1>2. HeldRight'
  BY DEF UiType, HeldRight, Owns
<1> QED  BY <1>1, <1>2 DEF UiType, TypeOK, input

LEMMA QuietUiType ==
  ASSUME UiType, Quiet
  PROVE  UiType'
BY ReceiveUiType DEF Quiet, UiType, TypeOK, past

\* The log stays within its cap.
LEMMA CappedLog ==
  ASSUME NEW log \in Seq(0..MaxEvents), Len(log) <= LogCap, NEW n \in 0..MaxEvents
  PROVE  /\ Capped(Append(log, n)) \in Seq(0..MaxEvents)
         /\ Len(Capped(Append(log, n))) <= LogCap
         /\ Len(Capped(Append(log, n))) = IF Len(log) = LogCap THEN LogCap ELSE Len(log) + 1
<1> DEFINE longer == Append(log, n)
<1>1. longer \in Seq(0..MaxEvents) /\ Len(longer) = Len(log) + 1 /\ longer # << >>
      /\ Len(log) \in Nat /\ LogCap \in Nat
  BY AppendProperties, UiAssumption
<1>2. Tail(longer) \in Seq(0..MaxEvents) /\ Len(Tail(longer)) = Len(log)
  BY <1>1, HeadTailProperties
<1>3. Capped(Append(log, n)) = IF Len(longer) > LogCap THEN Tail(longer) ELSE longer
  BY DEF Capped
<1> HIDE DEF longer
<1>4. CASE Len(log) = LogCap
  <2>1. Capped(Append(log, n)) = Tail(longer)
    BY <1>1, <1>3, <1>4
  <2> QED  BY <1>2, <1>4, <2>1
<1>5. CASE Len(log) < LogCap
  <2>1. Capped(Append(log, n)) = longer
    BY <1>1, <1>3, <1>5
  <2> QED  BY <1>1, <1>5, <2>1
<1> QED  BY <1>1, <1>4, <1>5

LEMMA PushAuditUiType ==
  ASSUME UiType, PushAudit
  PROVE  UiType'
<1>1. /\ chan # << >> /\ chan' = Tail(chan) /\ Taken.kind = "audit"
      /\ app' = [app EXCEPT !.audit_log = Capped(Append(app.audit_log, Taken.n))]
      /\ seen' = Append(seen, Taken.n)
      /\ UNCHANGED <<running, held, calling, input, started, overlap>>
  BY DEF PushAudit, Take, Taken
<1>2. app \in Apps /\ app.audit_log \in Seq(0..MaxEvents) /\ Len(app.audit_log) <= LogCap
      /\ seen \in Seq(0..MaxEvents) /\ running \in BOOLEAN
  BY DEF UiType, TypeOK, Apps
<1>3. Taken.n \in 0..MaxEvents
  BY <1>1, ReceiveStep, EventKinds
<1>4. /\ Capped(Append(app.audit_log, Taken.n)) \in Seq(0..MaxEvents)
      /\ Len(Capped(Append(app.audit_log, Taken.n))) <= LogCap
  BY <1>2, <1>3, CappedLog
<1>5. app' \in Apps /\ Len(app'.audit_log) <= LogCap
  BY <1>1, <1>2, <1>4 DEF Apps
<1>6. seen' \in Seq(0..MaxEvents)
  BY <1>1, <1>2, <1>3, AppendProperties
<1> QED  BY <1>1, <1>2, <1>5, <1>6, ReceiveUiType

LEMMA ShowResultUiType ==
  ASSUME UiType, ShowResult
  PROVE  UiType'
<1>1. /\ chan # << >> /\ chan' = Tail(chan) /\ Taken.kind = "result"
      /\ app' \in {[app EXCEPT !.is_loading = FALSE, !.results = Taken.n],
                   [app EXCEPT !.is_loading = FALSE]}
      /\ UNCHANGED <<running, held, calling, input, started, past>>
  BY DEF ShowResult, Take, Taken
<1>2. Taken.n \in 1..MaxTasks
  BY <1>1, ReceiveStep, EventKinds
<1>3. app \in Apps /\ Len(app.audit_log) <= LogCap /\ running \in BOOLEAN
      /\ seen \in Seq(0..MaxEvents)
  BY DEF UiType, TypeOK
<1>4. app' \in Apps /\ app'.audit_log = app.audit_log
  BY <1>1, <1>2, <1>3 DEF Apps
<1> QED  BY <1>1, <1>3, <1>4, ReceiveUiType DEF past

(***************************************************************************)
(* A task is started: its key was pending, so there was room for one.      *)
(***************************************************************************)
LEMMA SpawnUiType ==
  ASSUME UiType, NEW kind, NEW k,
         \/ kind = "query" /\ k = "f5"
         \/ kind = "load" /\ k = "ctrl_r",
         chan # << >>, Taken = KeyEvent(k), chan' = Tail(chan), Spawn(kind),
         app' \in Apps, app'.audit_log = app.audit_log, overlap' \in BOOLEAN,
         UNCHANGED <<running, held, input, seen>>
  PROVE  UiType' /\ started[kind] + 1 \in 1..MaxTasks
<1>1. /\ started \in [{"query", "load"} -> 0..MaxTasks] /\ calling \subseteq Calls
      /\ running \in BOOLEAN /\ seen \in Seq(0..MaxEvents) /\ Len(app.audit_log) <= LogCap
      /\ Budget /\ MaxTasks \in Nat
  BY UiAssumption DEF UiType, TypeOK
<1>2. kind \in {"query", "load"} /\ k \in {"f5", "ctrl_r"}
  OBVIOUS
<1>3. ASSUME NEW j \in {"f5", "ctrl_r"}
      PROVE  Pending(j) \in Nat /\ Pending(j)' = Pending(j) - (IF j = k THEN 1 ELSE 0)
             /\ Pending(j)' \in Nat
  <2>1. Count(chan', KeyEvent(j)) = Count(chan, KeyEvent(j)) - (IF Taken = KeyEvent(j) THEN 1 ELSE 0)
    BY ReceiveStep
  <2>2. KeyEvent(k) = KeyEvent(j) <=> j = k
    BY <1>2, MadeEvents DEF Keys
  <2>3. Pending(j)' = Count(script, j) + Count(chan', KeyEvent(j))
                      + (IF held[Keyboard] = KeyEvent(j) THEN 1 ELSE 0)
    BY PendingNext DEF input
  <2>4. Pending(j) = Count(script, j) + Count(chan, KeyEvent(j))
                     + (IF held[Keyboard] = KeyEvent(j) THEN 1 ELSE 0)
    BY DEF Pending
  <2>5. Count(script, j) \in Nat /\ Count(chan, KeyEvent(j)) \in Nat /\ Count(chan', KeyEvent(j)) \in Nat
    <3>1. Count(chan', KeyEvent(j)) \in Nat
      BY ReceiveStep, CountIsNat
    <3> QED  BY <3>1, CountsAreNat
  <2> QED  BY <2>1, <2>2, <2>3, <2>4, <2>5
<1>4. started' = [started EXCEPT ![kind] = started[kind] + 1]
      /\ calling' = calling \cup {<<kind, started[kind] + 1>>}
  BY DEF Spawn
<1>5. started[kind] + 1 \in 1..MaxTasks
  <2>1. Pending(k)' = Pending(k) - 1 /\ Pending(k)' \in Nat /\ Pending(k) \in Nat
    BY <1>2, <1>3
  <2> QED  BY <2>1, <1>1, <1>2 DEF Budget
<1>6. started' \in [{"query", "load"} -> 0..MaxTasks]
  BY <1>1, <1>2, <1>4, <1>5
<1>7. Budget'
  <2>1. /\ started'.query = started.query + (IF kind = "query" THEN 1 ELSE 0)
        /\ started'.load = started.load + (IF kind = "load" THEN 1 ELSE 0)
        /\ started.query \in Nat /\ started.load \in Nat
    BY <1>1, <1>2, <1>4
  <2>2. /\ Pending("f5") \in Nat /\ Pending("f5")' = Pending("f5") - (IF k = "f5" THEN 1 ELSE 0)
        /\ Pending("ctrl_r") \in Nat
        /\ Pending("ctrl_r")' = Pending("ctrl_r") - (IF k = "ctrl_r" THEN 1 ELSE 0)
    BY <1>3
  <2>3. started'.query + Pending("f5")' = started.query + Pending("f5")
    BY <2>1, <2>2
  <2>4. started'.load + Pending("ctrl_r")' = started.load + Pending("ctrl_r")
    BY <2>1, <2>2
  <2> QED  BY <2>3, <2>4, <1>1 DEF Budget
<1>8. calling' \subseteq Calls
  <2>1. <<kind, started[kind] + 1>> \in Calls
    BY <1>5 DEF Calls, Query, Load
  <2> QED  BY <2>1, <1>1, <1>4
<1>9. chan' \in Seq(AppEvents) /\ Len(chan') <= ChanCap
  BY ReceiveStep
<1>10. HeldRight'
  BY DEF UiType, HeldRight, Owns
<1>11. TypeOK'
  BY <1>1, <1>6, <1>8, <1>9 DEF UiType, TypeOK, input
<1> QED  BY <1>5, <1>7, <1>10, <1>11 DEF UiType

\* The key the loop handles.
LEMMA TakenKey ==
  ASSUME UiType, NEW k \in Keys, TakeKey(k)
  PROVE  running /\ chan # << >> /\ chan' = Tail(chan) /\ Taken = KeyEvent(k) /\ Taken.kind = "key"
<1>1. running /\ chan # << >> /\ chan' = Tail(chan) /\ Taken.kind = "key" /\ Taken.key = k
  BY DEF TakeKey, Take, Taken
<1> QED  BY <1>1, ReceiveStep, EventKinds

LEMMA RefreshUiType ==
  ASSUME UiType, RefreshCatalog
  PROVE  UiType' /\ started.load + 1 \in 1..MaxTasks
<1>1. chan # << >> /\ Taken = KeyEvent("ctrl_r") /\ chan' = Tail(chan)
  BY TakenKey DEF RefreshCatalog, Keys
<1>2. app \in Apps /\ overlap \in BOOLEAN
  BY DEF UiType, TypeOK
<1> QED  BY <1>1, <1>2, SpawnUiType DEF RefreshCatalog, past

\* F5 with a query in the editor.
StartsQuery ==
  /\ running /\ chan # << >> /\ Taken = KeyEvent("f5") /\ Taken.kind = "key" /\ chan' = Tail(chan)
  /\ app' \in Apps /\ app'.is_loading = TRUE /\ app'.audit_log = app.audit_log
  /\ Spawn("query") /\ overlap' = (overlap \/ Outstanding # {}) /\ overlap' \in BOOLEAN
  /\ UNCHANGED <<running, held, input, seen>>

LEMMA ExecuteQueryCases ==
  ASSUME UiType, ExecuteQuery
  PROVE  StartsQuery \/ Quiet
<1>1. /\ running /\ chan # << >> /\ Taken = KeyEvent("f5") /\ Taken.kind = "key"
      /\ chan' = Tail(chan)
  BY TakenKey DEF ExecuteQuery, Keys
<1>2. app \in Apps /\ overlap \in BOOLEAN
  BY DEF UiType, TypeOK
<1>3. CASE app.text
  <2>1. /\ app' = [app EXCEPT !.is_loading = TRUE, !.results_scroll = 0, !.pane = "Results"]
        /\ Spawn("query") /\ overlap' = (overlap \/ Outstanding # {})
        /\ UNCHANGED <<running, held, input, seen>>
    BY <1>3 DEF ExecuteQuery
  <2>2. 0 \in 0..MaxScroll /\ "Results" \in Panes
    BY UiAssumption DEF Panes
  <2>3. app' \in Apps /\ app'.is_loading = TRUE /\ app'.audit_log = app.audit_log
    BY <2>1, <2>2, <1>2 DEF Apps
  <2> QED  BY <1>1, <1>2, <2>1, <2>3 DEF StartsQuery
<1>4. CASE ~app.text
  <2>1. UNCHANGED <<app, started, calling, overlap, running, held, input, seen>>
    BY <1>4 DEF ExecuteQuery
  <2> QED  BY <2>1, <1>1, <1>2 DEF Quiet, past
<1> QED  BY <1>3, <1>4

LEMMA StartsQueryUiType ==
  ASSUME UiType, StartsQuery
  PROVE  UiType' /\ started.query + 1 \in 1..MaxTasks
BY SpawnUiType DEF StartsQuery

-----------------------------------------------------------------------------
\* Every step from a state of right types is one of these.
LEMMA UiCases ==
  ASSUME UiType, [Next]_vars
  PROVE  \/ \E t \in Tasks : Send(t)
         \/ Press \/ ConnectStream \/ StreamEvent \/ StreamEnds \/ KeyboardEnds \/ DrawFails
         \/ \E t \in Calls : CallReturns(t)
         \/ Quiet \/ RefreshCatalog \/ StartsQuery \/ PushAudit \/ ShowResult
         \/ UNCHANGED vars
BY UiSteps, ExecuteQueryCases DEF UiType

LEMMA StepUiType ==
  ASSUME UiType, [Next]_vars
  PROVE  UiType'
<1>1. ASSUME UNCHANGED vars PROVE UiType'
  <2>1. Budget' /\ HeldRight'
    BY <1>1, SameBudget DEF vars, input, UiType, HeldRight, Owns
  <2> QED  BY <1>1, <2>1 DEF vars, input, past, UiType, TypeOK
<1> QED  BY <1>1, UiCases, SendUiType, PressUiType, StreamUiType, EndsUiType, CallReturnsUiType,
            QuietUiType, RefreshUiType, StartsQueryUiType, PushAuditUiType, ShowResultUiType

(***************************************************************************)
(* The variables hold values of their types; the channel and the log stay  *)
(* within their capacities whatever the user presses and whatever comes    *)
(* over the audit stream, and no task is started that no key asked for.    *)
(***************************************************************************)
THEOREM UiTypeCorrect == Spec => []TypeOK
<1>1. Init => UiType
  BY InitUiType
<1>2. UiType /\ [Next]_vars => UiType'
  BY StepUiType
<1>3. UiType => TypeOK
  BY DEF UiType
<1> QED  BY <1>1, <1>2, <1>3, PTL DEF Spec

-----------------------------------------------------------------------------
(***************************************************************************)
(* Loading.  The number of a query is in one place: the call is running,   *)
(* its task holds the result, or the result is in the channel, once.       *)
(***************************************************************************)
Asked   == {i \in 1..MaxTasks : Query(i) \in calling}
Holding == {i \in 1..MaxTasks : held[Query(i)] # None}

IsResult(event, i) == event.kind = "result" /\ event.n = i

Arrived(seq) == {i \in 1..MaxTasks : \E j \in DOMAIN seq : IsResult(seq[j], i)}

ArrivedOnce(seq) ==
  \A i \in 1..MaxTasks : \A j, k \in DOMAIN seq : IsResult(seq[j], i) /\ IsResult(seq[k], i) => j = k

OnePlace ==
  /\ Asked \cap Holding = {} /\ Asked \cap Arrived(chan) = {} /\ Holding \cap Arrived(chan) = {}
  /\ ArrivedOnce(chan)

\* With one query at a time there is at most one that is outstanding.
LoadingInv ==
  /\ UiType /\ OnePlace
  /\ Outstanding \subseteq 1..started.query
  /\ LoadingTellsOutstanding
  /\ ~overlap => \A i, j \in Outstanding : i = j

LEMMA OutstandingParts ==
  /\ Outstanding = Asked \cup Holding \cup Arrived(chan)
  /\ Outstanding' = Asked' \cup Holding' \cup Arrived(chan')
<1>1. Outstanding = Asked \cup Holding \cup Arrived(chan)
  BY DEF Outstanding, Asked, Holding, Arrived, IsResult
<1>2. Outstanding' = Asked' \cup Holding' \cup Arrived(chan')
  BY DEF Outstanding, Asked, Holding, Arrived, IsResult, Query
<1> QED  BY <1>1, <1>2

LEMMA OnePlaceNext ==
  ASSUME Asked' \cap Holding' = {}, Asked' \cap Arrived(chan') = {}, Holding' \cap Arrived(chan') = {},
         ArrivedOnce(chan')
  PROVE  OnePlace'
BY DEF OnePlace, Asked, Holding, Arrived, ArrivedOnce, IsResult, Query

LEMMA ArrivedAppend ==
  ASSUME NEW seq \in Seq(AppEvents), NEW e \in AppEvents
  PROVE  /\ Arrived(Append(seq, e)) = Arrived(seq) \cup {i \in 1..MaxTasks : IsResult(e, i)}
         /\ ArrivedOnce(seq) /\ (\A i \in Arrived(seq) : ~IsResult(e, i))
              => ArrivedOnce(Append(seq, e))
<1> DEFINE longer == Append(seq, e)
<1>1. /\ Len(seq) \in Nat /\ DOMAIN seq = 1..Len(seq)
      /\ DOMAIN longer = 1..(Len(seq) + 1) /\ longer[Len(seq) + 1] = e
      /\ \A i \in 1..Len(seq) : longer[i] = seq[i]
  BY AppendProperties
<1> HIDE DEF longer
<1>2. ASSUME NEW i \in 1..MaxTasks
      PROVE  i \in Arrived(longer) <=> i \in Arrived(seq) \/ IsResult(e, i)
  BY <1>1 DEF Arrived
<1>3. ASSUME ArrivedOnce(seq), \A i \in Arrived(seq) : ~IsResult(e, i),
             NEW i \in 1..MaxTasks, NEW j \in DOMAIN longer, NEW k \in DOMAIN longer,
             IsResult(longer[j], i), IsResult(longer[k], i)
      PROVE  j = k
  <2>1. CASE j \in DOMAIN seq /\ k \in DOMAIN seq
    BY <2>1, <1>1, <1>3 DEF ArrivedOnce
  <2>2. CASE j \notin DOMAIN seq /\ k \notin DOMAIN seq
    BY <2>2, <1>1
  <2>3. CASE j \in DOMAIN seq /\ k \notin DOMAIN seq
    BY <2>3, <1>1, <1>3 DEF Arrived
  <2>4. CASE j \notin DOMAIN seq /\ k \in DOMAIN seq
    BY <2>4, <1>1, <1>3 DEF Arrived
  <2> QED  BY <2>1, <2>2, <2>3, <2>4
<1>4. Arrived(longer) = Arrived(seq) \cup {i \in 1..MaxTasks : IsResult(e, i)}
  BY <1>2 DEF Arrived
<1> QED  BY <1>3, <1>4 DEF ArrivedOnce, longer

LEMMA ArrivedTail ==
  ASSUME NEW seq \in Seq(AppEvents), seq # << >>, ArrivedOnce(seq)
  PROVE  /\ Arrived(Tail(seq)) = {i \in Arrived(seq) : ~IsResult(Head(seq), i)}
         /\ ArrivedOnce(Tail(seq))
         /\ \A i \in 1..MaxTasks : IsResult(Head(seq), i) => i \in Arrived(seq)
<1> DEFINE rest == Tail(seq)
<1>1. /\ Len(seq) \in Nat /\ Len(seq) >= 1 /\ DOMAIN seq = 1..Len(seq) /\ Head(seq) = seq[1]
      /\ DOMAIN rest = 1..(Len(seq) - 1) /\ \A i \in 1..(Len(seq) - 1) : rest[i] = seq[i + 1]
  <2>1. /\ Len(seq) \in Nat /\ Len(seq) >= 1 /\ DOMAIN seq = 1..Len(seq) /\ Head(seq) = seq[1]
    OBVIOUS
  <2>2. DOMAIN rest = 1..(Len(seq) - 1) /\ \A i \in 1..(Len(seq) - 1) : rest[i] = seq[i + 1]
    BY <2>1, HeadTailProperties, LenProperties
  <2> QED  BY <2>1, <2>2
<1> HIDE DEF rest
<1>2. ASSUME NEW j \in DOMAIN rest
      PROVE  j \in Int /\ j + 1 \in DOMAIN seq /\ j + 1 # 1 /\ rest[j] = seq[j + 1]
  BY <1>1
<1>3. ASSUME NEW j \in DOMAIN seq, j # 1
      PROVE  j - 1 \in DOMAIN rest /\ rest[j - 1] = seq[j]
  BY <1>1, <1>3
<1>4. ASSUME NEW i \in 1..MaxTasks
      PROVE  i \in Arrived(rest) <=> i \in Arrived(seq) /\ ~IsResult(Head(seq), i)
  <2>1. ASSUME i \in Arrived(rest)
        PROVE  i \in Arrived(seq) /\ ~IsResult(Head(seq), i)
    <3>1. PICK j \in DOMAIN rest : IsResult(rest[j], i)
      BY <2>1 DEF Arrived
    <3>2. j + 1 \in DOMAIN seq /\ j + 1 # 1 /\ IsResult(seq[j + 1], i) /\ 1 \in DOMAIN seq
      BY <3>1, <1>1, <1>2
    <3> QED  BY <3>2, <1>1 DEF Arrived, ArrivedOnce
  <2>2. ASSUME i \in Arrived(seq), ~IsResult(Head(seq), i)
        PROVE  i \in Arrived(rest)
    <3>1. PICK j \in DOMAIN seq : IsResult(seq[j], i)
      BY <2>2 DEF Arrived
    <3>2. j # 1
      BY <3>1, <2>2, <1>1
    <3> QED  BY <3>1, <3>2, <1>3 DEF Arrived
  <2> QED  BY <2>1, <2>2
<1>5. ASSUME NEW i \in 1..MaxTasks, NEW j \in DOMAIN rest, NEW k \in DOMAIN rest,
             IsResult(rest[j], i), IsResult(rest[k], i)
      PROVE  j = k
  <2>1. j + 1 = k + 1
    BY <1>2, <1>5 DEF ArrivedOnce
  <2> QED  BY <2>1, <1>2
<1>6. Arrived(rest) = {i \in Arrived(seq) : ~IsResult(Head(seq), i)}
  BY <1>4 DEF Arrived
<1>7. \A i \in 1..MaxTasks : IsResult(Head(seq), i) => i \in Arrived(seq)
  BY <1>1 DEF Arrived
<1> QED  BY <1>5, <1>6, <1>7 DEF ArrivedOnce, rest

\* The loop receives an event that is no result.
LEMMA ReceiveOther ==
  ASSUME LoadingInv, chan # << >>, chan' = Tail(chan), Taken.kind # "result"
  PROVE  Arrived(chan') = Arrived(chan) /\ ArrivedOnce(chan')
<1>1. chan \in Seq(AppEvents) /\ ArrivedOnce(chan)
  BY DEF LoadingInv, UiType, TypeOK, OnePlace
<1>2. \A i \in 1..MaxTasks : ~IsResult(Head(chan), i)
  BY DEF IsResult, Taken
<1> QED  BY <1>1, <1>2, ArrivedTail DEF Arrived

\* A step after which as many queries are outstanding as before.
LEMMA SameLoading ==
  ASSUME LoadingInv, UiType', Outstanding' = Outstanding, OnePlace',
         app'.is_loading = app.is_loading, started'.query = started.query, UNCHANGED overlap
  PROVE  LoadingInv'
<1>1. LoadingTellsOutstanding'
  BY DEF LoadingInv, LoadingTellsOutstanding
<1> QED  BY <1>1 DEF LoadingInv

LEMMA SendLoading ==
  ASSUME LoadingInv, NEW t \in Tasks, Send(t)
  PROVE  LoadingInv'
<1>1. UiType /\ UiType' /\ OnePlace /\ chan \in Seq(AppEvents)
  BY SendUiType DEF LoadingInv, UiType, TypeOK
<1>2. held[t] \in AppEvents /\ held[t] # None /\ chan' = Append(chan, held[t])
  BY <1>1, HeldBy DEF Send
<1>3. held'[t] = None /\ \A u \in Tasks : u # t => held'[u] = held[u]
  BY <1>1, HoldStep DEF Send, Owns
<1>4. Asked' = Asked
  BY DEF Asked, Send
<1>5. ASSUME NEW i \in 1..MaxTasks
      PROVE  IsResult(held[t], i) <=> t = Query(i)
  BY <1>1, <1>2, HeldBy, TasksDiffer DEF IsResult
<1>6. ASSUME NEW i \in 1..MaxTasks
      PROVE  i \in Holding' <=> i \in Holding /\ ~IsResult(held[t], i)
  <2>1. Query(i) \in Tasks
    BY TasksDiffer
  <2>2. i \in Holding' <=> held'[Query(i)] # None
    BY DEF Holding, Query
  <2> QED  BY <2>1, <2>2, <1>2, <1>3, <1>5 DEF Holding
<1>7. Arrived(chan') = Arrived(chan) \cup {i \in 1..MaxTasks : IsResult(held[t], i)}
  BY <1>1, <1>2, ArrivedAppend
<1>8. \A i \in 1..MaxTasks : IsResult(held[t], i) => i \in Holding
  BY <1>2, <1>5 DEF Holding
<1>9. ArrivedOnce(chan')
  BY <1>1, <1>2, <1>8, ArrivedAppend DEF OnePlace, Arrived
<1>10. Asked \subseteq 1..MaxTasks /\ Holding \subseteq 1..MaxTasks /\ Holding' \subseteq 1..MaxTasks
       /\ Arrived(chan) \subseteq 1..MaxTasks
  BY DEF Asked, Holding, Arrived
<1>11. OnePlace'
  BY <1>1, <1>4, <1>6, <1>7, <1>8, <1>9, <1>10, OnePlaceNext DEF OnePlace
<1>12. Outstanding' = Outstanding
  BY <1>4, <1>6, <1>7, <1>8, <1>10, OutstandingParts
<1> QED  BY <1>1, <1>11, <1>12, SameLoading DEF Send, past

LEMMA CallReturnsLoading ==
  ASSUME LoadingInv, NEW t \in Calls, CallReturns(t)
  PROVE  LoadingInv'
<1>1. UiType /\ UiType' /\ OnePlace /\ t \in Tasks
  BY CallReturnsUiType, TasksDiffer DEF LoadingInv
<1>2. PICK event \in AppEvents : Hold(t, event) /\ Owns(t, event)
  BY <1>1, CallReturnsOwn
<1>3. held'[t] = event /\ event # None /\ \A u \in Tasks : u # t => held'[u] = held[u]
  BY <1>1, <1>2, HoldStep, EventKinds
<1>4. ASSUME NEW i \in 1..MaxTasks
      PROVE  /\ i \in Asked' <=> i \in Asked /\ t # Query(i)
             /\ i \in Holding' <=> i \in Holding \/ t = Query(i)
             /\ t = Query(i) => i \in Asked
  <2>1. i \in Asked' <=> Query(i) \in calling'
    BY DEF Asked, Query
  <2>2. i \in Holding' <=> held'[Query(i)] # None
    BY DEF Holding, Query
  <2>3. calling' = calling \ {t} /\ t \in calling /\ Query(i) \in Tasks
    BY TasksDiffer DEF CallReturns
  <2> QED  BY <2>1, <2>2, <2>3, <1>3 DEF Asked, Holding
<1>5. Asked \subseteq 1..MaxTasks /\ Holding \subseteq 1..MaxTasks
      /\ Asked' \subseteq 1..MaxTasks /\ Holding' \subseteq 1..MaxTasks
  BY DEF Asked, Holding
<1>6. \A i, j \in 1..MaxTasks : t = Query(i) /\ t = Query(j) => i = j
  BY TasksDiffer
<1>7. chan' = chan
  BY DEF CallReturns
<1>8. OnePlace'
  BY <1>1, <1>4, <1>5, <1>7, OnePlaceNext DEF OnePlace
<1>9. Outstanding' = Outstanding
  BY <1>4, <1>5, <1>7, OutstandingParts
<1> QED  BY <1>1, <1>8, <1>9, SameLoading DEF CallReturns, past

\* The steps that no query takes part in.
LEMMA OtherLoading ==
  ASSUME LoadingInv, UiType', Press \/ ConnectStream \/ StreamEvent \/ StreamEnds \/ Quiet
                              \/ RefreshCatalog \/ PushAudit \/ KeyboardEnds \/ DrawFails
                              \/ UNCHANGED vars
  PROVE  LoadingInv'
<1>1. UiType /\ OnePlace
  BY DEF LoadingInv
<1>2. ASSUME NEW i \in 1..MaxTasks
      PROVE  (Query(i) \in calling' <=> Query(i) \in calling) /\ held'[Query(i)] = held[Query(i)]
  <2>1. Query(i) \in Tasks /\ Query(i) \notin {Keyboard, Audit}
    BY TasksDiffer
  <2>2. held \in [Tasks -> AppEvents \cup {None}]
    BY <1>1 DEF UiType, TypeOK
  <2>3. ASSUME RefreshCatalog
        PROVE  (Query(i) \in calling' <=> Query(i) \in calling) /\ UNCHANGED held
    BY <2>3 DEF RefreshCatalog, Spawn, Query
  <2> QED  BY <2>1, <2>2, <2>3 DEF Press, KeyboardEnds, DrawFails, ConnectStream, StreamEvent, StreamEnds, Quiet, PushAudit,
                                   vars, Hold
<1>3. Asked' = Asked
  BY <1>2 DEF Asked, Query
<1>4. Holding' = Holding
  BY <1>2 DEF Holding, Query
<1>5. \/ chan' = chan
      \/ chan # << >> /\ chan' = Tail(chan) /\ Taken.kind # "result"
  BY <1>1, TakenKey DEF Press, KeyboardEnds, DrawFails, ConnectStream, StreamEvent, StreamEnds, Quiet, PushAudit, RefreshCatalog,
                        vars, Take, Taken, Keys
<1>6. Arrived(chan') = Arrived(chan) /\ ArrivedOnce(chan')
  BY <1>1, <1>5, ReceiveOther DEF OnePlace
<1>7. OnePlace'
  BY <1>1, <1>3, <1>4, <1>6, OnePlaceNext DEF OnePlace
<1>8. Outstanding' = Outstanding
  BY <1>3, <1>4, <1>6, OutstandingParts
<1>9. app'.is_loading = app.is_loading
  <2>1. CASE PushAudit
    <3>1. app \in Apps
      BY <1>1 DEF UiType, TypeOK
    <3> QED  BY <2>1, <3>1 DEF PushAudit, Apps
  <2> QED  BY <2>1 DEF Press, KeyboardEnds, DrawFails, ConnectStream, StreamEvent, StreamEnds, Quiet, RefreshCatalog, vars
<1>10. started'.query = started.query
  <2>1. CASE RefreshCatalog
    <3>1. started \in [{"query", "load"} -> 0..MaxTasks]
      BY <1>1 DEF UiType, TypeOK
    <3> QED  BY <2>1, <3>1 DEF RefreshCatalog, Spawn
  <2> QED  BY <2>1 DEF Press, KeyboardEnds, DrawFails, ConnectStream, StreamEvent, StreamEnds, Quiet, PushAudit, vars
<1>11. UNCHANGED overlap
  BY DEF Press, KeyboardEnds, DrawFails, ConnectStream, StreamEvent, StreamEnds, Quiet, PushAudit, RefreshCatalog, input, vars, past
<1> QED  BY <1>7, <1>8, <1>9, <1>10, <1>11, SameLoading

\* The new query is outstanding, besides those that were.
LEMMA StartsQueryLoading ==
  ASSUME LoadingInv, StartsQuery
  PROVE  LoadingInv'
<1> DEFINE new == started.query + 1
<1>1. UiType /\ UiType' /\ OnePlace /\ new \in 1..MaxTasks
  BY StartsQueryUiType DEF LoadingInv
<1>2. /\ started \in [{"query", "load"} -> 0..MaxTasks]
      /\ Outstanding \subseteq 1..started.query /\ new \notin Outstanding
  BY <1>1 DEF LoadingInv, UiType, TypeOK
<1>3. /\ started' = [started EXCEPT !["query"] = started["query"] + 1]
      /\ calling' = calling \cup {<<"query", started["query"] + 1>>}
  BY DEF StartsQuery, Spawn
<1>4. started'.query = new /\ calling' = calling \cup {Query(new)}
  BY <1>2, <1>3 DEF Query
<1> HIDE DEF new
<1>5. ASSUME NEW i \in 1..MaxTasks
      PROVE  i \in Asked' <=> i \in Asked \/ i = new
  <2>1. i \in Asked' <=> Query(i) \in calling'
    BY DEF Asked, Query
  <2> QED  BY <2>1, <1>1, <1>4, TasksDiffer DEF Asked
<1>6. Asked' = Asked \cup {new}
  <2>1. Asked \subseteq 1..MaxTasks /\ Asked' \subseteq 1..MaxTasks
    BY DEF Asked
  <2> QED  BY <2>1, <1>1, <1>5
<1>7. Holding' = Holding
  BY DEF Holding, StartsQuery, Query
<1>8. Arrived(chan') = Arrived(chan) /\ ArrivedOnce(chan')
  BY ReceiveOther DEF StartsQuery
<1>9. Outstanding' = Outstanding \cup {new}
  BY <1>6, <1>7, <1>8, OutstandingParts
<1>10. OnePlace'
  BY <1>1, <1>2, <1>6, <1>7, <1>8, OnePlaceNext, OutstandingParts DEF OnePlace
<1>11. Outstanding' \subseteq 1..started'.query
  <2>1. new = started.query + 1 /\ started.query \in Nat
    BY <1>2 DEF new
  <2>2. 1..started.query \subseteq 1..new /\ new \in 1..new
    BY <2>1
  <2> QED  BY <2>2, <1>2, <1>4, <1>9
<1>12. app'.is_loading = TRUE /\ overlap' = (overlap \/ Outstanding # {})
  BY DEF StartsQuery
<1>13. LoadingTellsOutstanding'
  BY <1>9, <1>12 DEF LoadingTellsOutstanding
<1>14. ~overlap' => \A i, j \in Outstanding' : i = j
  BY <1>9, <1>12
<1> QED  BY <1>1, <1>10, <1>11, <1>13, <1>14 DEF LoadingInv

\* The result that is shown is outstanding no longer; it may have been the only one.
LEMMA ShowResultLoading ==
  ASSUME LoadingInv, ShowResult
  PROVE  LoadingInv'
<1>1. UiType /\ UiType' /\ OnePlace /\ chan \in Seq(AppEvents) /\ app \in Apps
  BY ShowResultUiType DEF LoadingInv, UiType, TypeOK
<1>2. /\ chan # << >> /\ chan' = Tail(chan) /\ Taken.kind = "result" /\ Taken = Head(chan)
      /\ UNCHANGED <<running, held, calling, input, started, past>>
  BY DEF ShowResult, Take, Taken
<1> DEFINE n == Taken.n
<1>3. n \in 1..MaxTasks
  BY <1>1, <1>2, ReceiveStep, EventKinds
<1>4. \A i \in 1..MaxTasks : IsResult(Head(chan), i) <=> i = n
  BY <1>2 DEF IsResult
<1> HIDE DEF n
<1>5. /\ Arrived(chan') = {i \in Arrived(chan) : ~IsResult(Head(chan), i)}
      /\ ArrivedOnce(chan') /\ n \in Arrived(chan)
  BY <1>1, <1>2, <1>3, <1>4, ArrivedTail DEF OnePlace
<1>6. Arrived(chan') = Arrived(chan) \ {n}
  BY <1>4, <1>5 DEF Arrived
<1>7. Asked' = Asked /\ Holding' = Holding
  BY <1>2 DEF Asked, Holding, Query
<1>8. OnePlace'
  BY <1>1, <1>5, <1>6, <1>7, OnePlaceNext DEF OnePlace
<1>9. Outstanding' = Outstanding \ {n} /\ n \in Outstanding
  BY <1>1, <1>5, <1>6, <1>7, OutstandingParts DEF OnePlace
<1>10. app'.is_loading = FALSE
  BY <1>1 DEF ShowResult, Apps
<1>11. UNCHANGED <<overlap, started>>
  BY <1>2 DEF past
<1>12. LoadingTellsOutstanding'
  BY <1>9, <1>10, <1>11 DEF LoadingInv, LoadingTellsOutstanding
<1> QED  BY <1>1, <1>8, <1>9, <1>11, <1>12 DEF LoadingInv

LEMMA InitLoading ==
  ASSUME Init
  PROVE  LoadingInv
<1>1. UiType
  BY InitUiType
<1>2. \A i \in 1..MaxTasks : Query(i) # Load(1)
  BY DEF Query, Load
<1>3. Asked = {} /\ Holding = {} /\ Arrived(chan) = {} /\ ArrivedOnce(chan)
  BY <1>2, TasksDiffer DEF Init, Asked, Holding, Arrived, ArrivedOnce
<1>4. Outstanding = {}
  BY <1>3, OutstandingParts
<1>5. app.is_loading = FALSE
  BY DEF Init
<1> QED  BY <1>1, <1>3, <1>4, <1>5 DEF LoadingInv, OnePlace, LoadingTellsOutstanding

LEMMA StepLoading ==
  ASSUME LoadingInv, [Next]_vars
  PROVE  LoadingInv'
<1>1. UiType /\ UiType'
  BY StepUiType DEF LoadingInv
<1> QED  BY <1>1, UiCases, SendLoading, CallReturnsLoading, OtherLoading, StartsQueryLoading,
            ShowResultLoading

(***************************************************************************)
(* "Results [loading...]" is never shown when no query runs and no result  *)
(* is on its way, and, queries run one at a time, always when one is.      *)
(***************************************************************************)
THEOREM LoadingTellsTheTruth == Spec => []LoadingTellsOutstanding
<1>1. Init => LoadingInv
  BY InitLoading
<1>2. LoadingInv /\ [Next]_vars => LoadingInv'
  BY StepLoading
<1>3. LoadingInv => LoadingTellsOutstanding
  BY DEF LoadingInv
<1> QED  BY <1>1, <1>2, <1>3, PTL DEF Spec

-----------------------------------------------------------------------------
(***************************************************************************)
(* The audit pane.  What the loop has seen, then what the channel holds,   *)
(* then what the audit task holds, are the events of the stream in order,  *)
(* with errors among them, which have the number 0.                        *)
(***************************************************************************)
Numbered(event, n) == event.kind = "audit" /\ event.n = n

Numbers(log, i) == {n \in 1..MaxEvents : \E j \in 1..(i - 1) : log[j] = n}

\* The events of the stream in a log and before a place in the channel.
Before(log, seq, i) ==
  Numbers(log, Len(log) + 1) \cup {n \in 1..MaxEvents : \E j \in 1..(i - 1) : Numbered(seq[j], n)}

InOrder(log) == \A i \in DOMAIN log : log[i] # 0 => Numbers(log, i) = 1..(log[i] - 1)

ComesInOrder(log, seq) ==
  \A i \in DOMAIN seq : \A n \in 1..MaxEvents : Numbered(seq[i], n) => Before(log, seq, i) = 1..(n - 1)

\* The audit task holds the last event of the stream, or has sent it.
HoldsEvent == held[Audit] # None /\ held[Audit].n # 0
Sent == IF HoldsEvent THEN streamed - 1 ELSE streamed

StreamInOrder ==
  /\ InOrder(seen) /\ ComesInOrder(seen, chan)
  /\ Before(seen, chan, Len(chan) + 1) = 1..Sent
  /\ HoldsEvent => held[Audit].n = streamed
  /\ stream \in {"off", "connecting"} => held[Audit] = None /\ streamed = 0

IsTailOf(shown, log) ==
  /\ Len(shown) <= Len(log)
  /\ \A i \in 1..Len(shown) : shown[i] = log[Len(log) - Len(shown) + i]
  /\ Len(shown) < LogCap => Len(shown) = Len(log)

PaneInv == UiType /\ StreamInOrder /\ IsTailOf(app.audit_log, seen)

LEMMA AppendNumber ==
  ASSUME NEW log \in Seq(0..MaxEvents), NEW n \in 0..MaxEvents
  PROVE  /\ Append(log, n) \in Seq(0..MaxEvents)
         /\ Len(Append(log, n)) = Len(log) + 1 /\ Append(log, n)[Len(log) + 1] = n
         /\ \A i \in 1..Len(log) : Append(log, n)[i] = log[i]
         /\ \A i \in 1..(Len(log) + 1) : Numbers(Append(log, n), i) = Numbers(log, i)
         /\ Numbers(Append(log, n), Len(log) + 2) = Numbers(log, Len(log) + 1) \cup ({n} \ {0})
<1> DEFINE longer == Append(log, n)
<1>1. /\ longer \in Seq(0..MaxEvents) /\ Len(log) \in Nat
      /\ Len(longer) = Len(log) + 1 /\ longer[Len(log) + 1] = n
      /\ \A i \in 1..Len(log) : longer[i] = log[i]
  BY AppendProperties
<1> HIDE DEF longer
<1>2. ASSUME NEW i \in 1..(Len(log) + 1)
      PROVE  Numbers(longer, i) = Numbers(log, i)
  <2>1. ASSUME NEW j \in 1..(i - 1)
        PROVE  longer[j] = log[j]
    BY <1>1
  <2> QED  BY <2>1 DEF Numbers
<1>3. ASSUME NEW m \in 1..MaxEvents
      PROVE  m \in Numbers(longer, Len(log) + 2) <=> m \in Numbers(log, Len(log) + 1) \/ m = n
  <2>1. (Len(log) + 2) - 1 = Len(log) + 1 /\ (Len(log) + 1) - 1 = Len(log)
    BY <1>1
  <2>2. 1..(Len(log) + 1) = 1..Len(log) \cup {Len(log) + 1}
    BY <1>1
  <2> QED  BY <1>1, <2>1, <2>2 DEF Numbers
<1>4. Numbers(longer, Len(log) + 2) = Numbers(log, Len(log) + 1) \cup ({n} \ {0})
  <2>1. n # 0 => n \in 1..MaxEvents
    BY UiAssumption
  <2>2. 0 \notin 1..MaxEvents
    OBVIOUS
  <2> QED  BY <2>1, <2>2, <1>3 DEF Numbers
<1> QED  BY <1>1, <1>2, <1>4 DEF longer

LEMMA AppendBefore ==
  ASSUME NEW log \in Seq(0..MaxEvents), NEW seq \in Seq(AppEvents), NEW e \in AppEvents
  PROVE  /\ \A i \in 1..(Len(seq) + 1) : Before(log, Append(seq, e), i) = Before(log, seq, i)
         /\ Before(log, Append(seq, e), Len(Append(seq, e)) + 1)
              = Before(log, seq, Len(seq) + 1) \cup {n \in 1..MaxEvents : Numbered(e, n)}
         /\ ComesInOrder(log, seq)
            /\ (\A n \in 1..MaxEvents : Numbered(e, n) => Before(log, seq, Len(seq) + 1) = 1..(n - 1))
              => ComesInOrder(log, Append(seq, e))
<1> DEFINE longer == Append(seq, e)
<1>1. /\ Len(seq) \in Nat /\ DOMAIN seq = 1..Len(seq) /\ Len(longer) = Len(seq) + 1
      /\ DOMAIN longer = 1..(Len(seq) + 1) /\ longer[Len(seq) + 1] = e
      /\ \A i \in 1..Len(seq) : longer[i] = seq[i]
  BY AppendProperties
<1> HIDE DEF longer
<1>2. ASSUME NEW i \in 1..(Len(seq) + 1)
      PROVE  Before(log, longer, i) = Before(log, seq, i)
  <2>1. ASSUME NEW j \in 1..(i - 1)
        PROVE  longer[j] = seq[j]
    BY <1>1
  <2> QED  BY <2>1 DEF Before
<1>3. Before(log, longer, Len(longer) + 1)
        = Before(log, seq, Len(seq) + 1) \cup {n \in 1..MaxEvents : Numbered(e, n)}
  <2>1. (Len(longer) + 1) - 1 = Len(seq) + 1 /\ (Len(seq) + 1) - 1 = Len(seq)
    BY <1>1
  <2>2. 1..(Len(seq) + 1) = 1..Len(seq) \cup {Len(seq) + 1}
    BY <1>1
  <2>3. ASSUME NEW n \in 1..MaxEvents
        PROVE  (\E j \in 1..(Len(seq) + 1) : Numbered(longer[j], n))
                 <=> (\E j \in 1..Len(seq) : Numbered(seq[j], n)) \/ Numbered(e, n)
    BY <1>1, <2>2
  <2> QED  BY <2>1, <2>3 DEF Before
<1>4. ASSUME ComesInOrder(log, seq), NEW i \in DOMAIN longer, NEW n \in 1..MaxEvents,
             \A m \in 1..MaxEvents : Numbered(e, m) => Before(log, seq, Len(seq) + 1) = 1..(m - 1),
             Numbered(longer[i], n)
      PROVE  Before(log, longer, i) = 1..(n - 1)
  <2>1. CASE i \in DOMAIN seq
    <3>1. Before(log, longer, i) = Before(log, seq, i) /\ longer[i] = seq[i]
      BY <2>1, <1>1, <1>2
    <3> QED  BY <3>1, <2>1, <1>4 DEF ComesInOrder
  <2>2. CASE i = Len(seq) + 1
    BY <2>2, <1>1, <1>2, <1>4
  <2> QED  BY <2>1, <2>2, <1>1
<1> QED  BY <1>2, <1>3, <1>4 DEF ComesInOrder, longer

\* The head of the channel goes to the log, or is no event of the stream.
LEMMA ReceiveBefore ==
  ASSUME NEW log \in Seq(0..MaxEvents), NEW seq \in Seq(AppEvents), seq # << >>, NEW longer,
         longer = IF Head(seq).kind = "audit" THEN Append(log, Head(seq).n) ELSE log
  PROVE  /\ longer \in Seq(0..MaxEvents)
         /\ \A i \in 1..Len(seq) : Before(longer, Tail(seq), i) = Before(log, seq, i + 1)
         /\ ComesInOrder(log, seq) => ComesInOrder(longer, Tail(seq))
         /\ ComesInOrder(log, seq) /\ InOrder(log) => InOrder(longer)
<1> DEFINE rest == Tail(seq)
<1>1. /\ Len(seq) \in Nat /\ Len(seq) >= 1 /\ DOMAIN seq = 1..Len(seq) /\ Head(seq) = seq[1]
      /\ DOMAIN rest = 1..(Len(seq) - 1) /\ \A i \in 1..(Len(seq) - 1) : rest[i] = seq[i + 1]
      /\ Head(seq) \in AppEvents
  <2>1. /\ Len(seq) \in Nat /\ Len(seq) >= 1 /\ DOMAIN seq = 1..Len(seq) /\ Head(seq) = seq[1]
        /\ Head(seq) \in AppEvents
    OBVIOUS
  <2>2. DOMAIN rest = 1..(Len(seq) - 1) /\ \A i \in 1..(Len(seq) - 1) : rest[i] = seq[i + 1]
    BY <2>1, HeadTailProperties, LenProperties
  <2> QED  BY <2>1, <2>2
<1> HIDE DEF rest
<1>2. Head(seq).kind = "audit" => Head(seq).n \in 0..MaxEvents
  BY <1>1, EventKinds
<1>3. longer \in Seq(0..MaxEvents) /\ Len(log) \in Nat
  <2>1. CASE Head(seq).kind = "audit"
    BY <2>1, <1>2, AppendNumber
  <2>2. CASE Head(seq).kind # "audit"
    BY <2>2
  <2> QED  BY <2>1, <2>2
<1>4. Numbers(longer, Len(longer) + 1)
        = Numbers(log, Len(log) + 1) \cup {n \in 1..MaxEvents : Numbered(seq[1], n)}
  <2>1. CASE Head(seq).kind = "audit"
    <3>1. longer = Append(log, Head(seq).n) /\ Len(longer) + 1 = Len(log) + 2
      BY <2>1, <1>2, <1>3, AppendNumber
    <3>2. {n \in 1..MaxEvents : Numbered(seq[1], n)} = {Head(seq).n} \ {0}
      BY <2>1, <1>1, <1>2, UiAssumption DEF Numbered
    <3> QED  BY <2>1, <3>1, <3>2, <1>2, AppendNumber
  <2>2. CASE Head(seq).kind # "audit"
    BY <2>2, <1>1 DEF Numbered
  <2> QED  BY <2>1, <2>2
<1>5. ASSUME NEW i \in 1..Len(seq)
      PROVE  Before(longer, rest, i) = Before(log, seq, i + 1)
  <2>1. ASSUME NEW n \in 1..MaxEvents
        PROVE  (\E j \in 1..((i + 1) - 1) : Numbered(seq[j], n))
                 <=> Numbered(seq[1], n) \/ (\E j \in 1..(i - 1) : Numbered(rest[j], n))
    <3>1. ASSUME NEW j \in 1..((i + 1) - 1), Numbered(seq[j], n), j # 1
          PROVE  \E k \in 1..(i - 1) : Numbered(rest[k], n)
      <4>1. j - 1 \in 1..(i - 1) /\ j - 1 \in 1..(Len(seq) - 1) /\ (j - 1) + 1 = j
        BY <1>1, <3>1
      <4> QED  BY <4>1, <3>1, <1>1
    <3>2. ASSUME NEW j \in 1..(i - 1), Numbered(rest[j], n)
          PROVE  \E k \in 1..((i + 1) - 1) : Numbered(seq[k], n)
      <4>1. j + 1 \in 1..((i + 1) - 1) /\ j \in 1..(Len(seq) - 1)
        BY <1>1
      <4> QED  BY <4>1, <3>2, <1>1
    <3>3. 1 \in 1..((i + 1) - 1)
      BY <1>1
    <3> QED  BY <3>1, <3>2, <3>3
  <2> QED  BY <2>1, <1>4 DEF Before
<1>6. ASSUME ComesInOrder(log, seq), NEW i \in DOMAIN rest, NEW n \in 1..MaxEvents, Numbered(rest[i], n)
      PROVE  Before(longer, rest, i) = 1..(n - 1)
  <2>1. i + 1 \in DOMAIN seq /\ i \in 1..Len(seq) /\ rest[i] = seq[i + 1]
    BY <1>1
  <2> QED  BY <2>1, <1>5, <1>6 DEF ComesInOrder
<1>7. ASSUME ComesInOrder(log, seq), InOrder(log), NEW i \in DOMAIN longer, longer[i] # 0
      PROVE  Numbers(longer, i) = 1..(longer[i] - 1)
  <2>1. CASE Head(seq).kind = "audit"
    <3>1. longer = Append(log, Head(seq).n) /\ i \in 1..(Len(log) + 1)
      BY <2>1, <1>2, <1>3, AppendNumber
    <3>2. Numbers(longer, i) = Numbers(log, i)
      BY <3>1, <1>2, AppendNumber
    <3>3. CASE i \in 1..Len(log)
      <4>1. longer[i] = log[i] /\ i \in DOMAIN log
        BY <3>1, <3>3, <1>2, AppendNumber
      <4> QED  BY <4>1, <3>2, <1>7 DEF InOrder
    <3>4. CASE i = Len(log) + 1
      <4>1. longer[i] = Head(seq).n
        BY <3>1, <3>4, <1>2, AppendNumber
      <4>2. Head(seq).n \in 1..MaxEvents /\ Numbered(seq[1], Head(seq).n) /\ 1 \in DOMAIN seq
        BY <4>1, <2>1, <1>1, <1>2, <1>7, UiAssumption DEF Numbered
      <4>3. Before(log, seq, 1) = 1..(Head(seq).n - 1)
        BY <4>2, <1>7 DEF ComesInOrder
      <4>4. Before(log, seq, 1) = Numbers(log, Len(log) + 1)
        BY DEF Before
      <4> QED  BY <4>1, <4>3, <4>4, <3>2, <3>4
    <3> QED  BY <3>1, <3>3, <3>4, <1>3
  <2>2. CASE Head(seq).kind # "audit"
    BY <2>2, <1>7 DEF InOrder
  <2> QED  BY <2>1, <2>2
<1> QED  BY <1>3, <1>5, <1>6, <1>7 DEF ComesInOrder, InOrder, rest

LEMMA PushTail ==
  ASSUME NEW shown \in Seq(0..MaxEvents), NEW log \in Seq(0..MaxEvents), NEW n \in 0..MaxEvents,
         Len(shown) <= LogCap, IsTailOf(shown, log)
  PROVE  IsTailOf(Capped(Append(shown, n)), Append(log, n))
<1> DEFINE longer == Append(shown, n)
           result == Capped(longer)
           grown  == Append(log, n)
<1>1. /\ Len(shown) \in Nat /\ Len(log) \in Nat /\ LogCap \in Nat \ {0}
      /\ longer \in Seq(0..MaxEvents) /\ Len(longer) = Len(shown) + 1 /\ longer # << >>
      /\ \A i \in 1..Len(shown) : longer[i] = shown[i]
      /\ longer[Len(shown) + 1] = n
  <2>1. LogCap \in Nat \ {0}
    BY UiAssumption
  <2>2. Len(shown) \in Nat /\ Len(log) \in Nat
    OBVIOUS
  <2>3. /\ longer \in Seq(0..MaxEvents) /\ Len(longer) = Len(shown) + 1
        /\ \A i \in 1..Len(shown) : longer[i] = shown[i]
        /\ longer[Len(shown) + 1] = n
    BY AppendProperties
  <2>4. longer # << >>
    OBVIOUS
  <2> QED  BY <2>1, <2>2, <2>3, <2>4
<1>2. /\ Len(grown) = Len(log) + 1 /\ grown[Len(log) + 1] = n
      /\ \A i \in 1..Len(log) : grown[i] = log[i]
  BY AppendProperties
<1>3. result = IF Len(longer) > LogCap THEN Tail(longer) ELSE longer
  BY DEF Capped
<1>4. Len(Tail(longer)) = Len(shown) /\ \A i \in 1..Len(shown) : Tail(longer)[i] = longer[i + 1]
  BY <1>1, HeadTailProperties, LenProperties
<1> HIDE DEF longer, result, grown
<1>5. ASSUME NEW i \in 1..(Len(shown) + 1)
      PROVE  longer[i] = grown[Len(log) - Len(shown) + i]
  <2>1. CASE i \in 1..Len(shown)
    <3>1. Len(log) - Len(shown) + i \in 1..Len(log)
      BY <2>1, <1>1 DEF IsTailOf
    <3> QED  BY <3>1, <2>1, <1>1, <1>2 DEF IsTailOf
  <2>2. CASE i = Len(shown) + 1
    <3>1. Len(log) - Len(shown) + i = Len(log) + 1
      BY <2>2, <1>1
    <3> QED  BY <3>1, <2>2, <1>1, <1>2
  <2> QED  BY <2>1, <2>2, <1>1
<1>6. CASE Len(shown) = LogCap
  <2>1. result = Tail(longer) /\ Len(result) = Len(shown)
    BY <1>1, <1>3, <1>4, <1>6
  <2>2. ASSUME NEW i \in 1..Len(shown)
        PROVE  result[i] = grown[Len(grown) - Len(result) + i]
    <3>1. i + 1 \in 1..(Len(shown) + 1) /\ result[i] = longer[i + 1]
      BY <2>1, <1>1, <1>4
    <3>2. longer[i + 1] = grown[Len(log) - Len(shown) + (i + 1)]
      BY <3>1, <1>5
    <3>3. Len(log) - Len(shown) + (i + 1) = Len(grown) - Len(result) + i
      <4>1. /\ Len(shown) \in Nat /\ Len(log) \in Nat /\ i \in Int
            /\ Len(result) = Len(shown) /\ Len(grown) = Len(log) + 1
        BY <2>1, <1>1, <1>2
      <4> QED  BY <4>1
    <3> QED  BY <3>1, <3>2, <3>3
  <2>3. Len(result) <= Len(grown)
    BY <2>1, <1>1, <1>2 DEF IsTailOf
  <2>4. IsTailOf(result, grown)
    BY <2>1, <2>2, <2>3, <1>1, <1>6 DEF IsTailOf
  <2> QED  BY <2>4 DEF result, grown, longer
<1>7. CASE Len(shown) < LogCap
  <2>1. result = longer /\ Len(result) = Len(shown) + 1
    BY <1>1, <1>3, <1>7
  <2>2. Len(shown) = Len(log)
    BY <1>7 DEF IsTailOf
  <2>3. \A i \in 1..Len(result) : result[i] = grown[Len(grown) - Len(result) + i]
    BY <2>1, <2>2, <1>1, <1>2, <1>5
  <2>4. Len(result) <= Len(grown) /\ (Len(result) < LogCap => Len(result) = Len(grown))
    BY <2>1, <2>2, <1>1, <1>2
  <2>5. IsTailOf(result, grown)
    BY <2>3, <2>4 DEF IsTailOf
  <2> QED  BY <2>5 DEF result, grown, longer
<1> QED  BY <1>1, <1>6, <1>7

\* A step that neither reads the channel nor moves the audit stream.
LEMMA SamePane ==
  ASSUME PaneInv, UiType', UNCHANGED <<chan, seen, stream, streamed>>, held'[Audit] = held[Audit],
         app'.audit_log = app.audit_log
  PROVE  PaneInv'
<1>1. StreamInOrder'
  BY DEF PaneInv, StreamInOrder, InOrder, ComesInOrder, Before, Numbers, Numbered, HoldsEvent, Sent
<1>2. IsTailOf(app.audit_log, seen)'
  BY DEF PaneInv, IsTailOf
<1> QED  BY <1>1, <1>2 DEF PaneInv

\* The loop receives an event, and logs it if it is an audit message.
LEMMA ReceivePane ==
  ASSUME PaneInv, UiType', chan # << >>, chan' = Tail(chan),
         seen' = IF Taken.kind = "audit" THEN Append(seen, Taken.n) ELSE seen,
         UNCHANGED <<stream, streamed>>, held'[Audit] = held[Audit],
         IsTailOf(app'.audit_log, seen')
  PROVE  PaneInv'
<1>1. chan \in Seq(AppEvents) /\ seen \in Seq(0..MaxEvents) /\ StreamInOrder
  BY DEF PaneInv, UiType, TypeOK
<1>2. /\ InOrder(seen') /\ ComesInOrder(seen', chan')
      /\ \A i \in 1..Len(chan) : Before(seen', chan', i) = Before(seen, chan, i + 1)
  <2>1. seen' = IF Head(chan).kind = "audit" THEN Append(seen, Head(chan).n) ELSE seen
    BY DEF Taken
  <2>2. /\ \A i \in 1..Len(chan) : Before(seen', Tail(chan), i) = Before(seen, chan, i + 1)
        /\ ComesInOrder(seen, chan) => ComesInOrder(seen', Tail(chan))
        /\ ComesInOrder(seen, chan) /\ InOrder(seen) => InOrder(seen')
    BY <2>1, <1>1, ReceiveBefore
  <2> QED  BY <2>2, <1>1 DEF StreamInOrder
<1>3. Len(chan) \in 1..Len(chan) /\ Len(chan') + 1 = Len(chan)
  BY <1>1, HeadTailProperties, LenProperties
<1>4. Before(seen', chan', Len(chan') + 1) = 1..Sent
  BY <1>1, <1>2, <1>3 DEF StreamInOrder
<1>5. Sent' = Sent /\ HoldsEvent' = HoldsEvent
  BY DEF Sent, HoldsEvent, Audit
<1>6. InOrder(seen)' /\ ComesInOrder(seen, chan)' /\ Before(seen, chan, Len(chan) + 1)' = 1..(Sent')
  <2>1. InOrder(seen)' /\ ComesInOrder(seen, chan)'
    BY <1>2 DEF InOrder, ComesInOrder, Before, Numbers, Numbered
  <2>2. Before(seen, chan, Len(chan) + 1)' = Before(seen', chan', Len(chan') + 1)
    BY DEF Before, Numbers, Numbered
  <2> QED  BY <2>1, <2>2, <1>4, <1>5
<1>7. StreamInOrder'
  BY <1>1, <1>5, <1>6 DEF StreamInOrder, Audit
<1>8. IsTailOf(app.audit_log, seen)'
  BY DEF IsTailOf
<1> QED  BY <1>7, <1>8 DEF PaneInv

LEMMA LoopPane ==
  ASSUME PaneInv, UiType', Quiet \/ RefreshCatalog \/ StartsQuery \/ PushAudit \/ ShowResult
  PROVE  PaneInv'
<1>1. UiType /\ app \in Apps /\ IsTailOf(app.audit_log, seen) /\ Len(app.audit_log) <= LogCap
      /\ app.audit_log \in Seq(0..MaxEvents) /\ seen \in Seq(0..MaxEvents)
  BY DEF PaneInv, UiType, TypeOK, Apps
<1>2. CASE Quiet
  BY <1>1, <1>2, ReceivePane DEF Quiet, input, past
<1>3. CASE RefreshCatalog
  <2>1. chan # << >> /\ chan' = Tail(chan) /\ Taken.kind = "key"
    BY <1>1, <1>3, TakenKey DEF RefreshCatalog, Keys
  <2> QED  BY <2>1, <1>1, <1>3, ReceivePane DEF RefreshCatalog, input, past
<1>4. CASE StartsQuery
  BY <1>1, <1>4, ReceivePane DEF StartsQuery, input
<1>5. CASE ShowResult
  <2>1. app'.audit_log = app.audit_log
    BY <1>1, <1>5 DEF ShowResult, Apps
  <2> QED  BY <2>1, <1>1, <1>5, ReceivePane DEF ShowResult, Take, Taken, input, past
<1>6. CASE PushAudit
  <2>1. /\ chan # << >> /\ chan' = Tail(chan) /\ Taken.kind = "audit"
        /\ seen' = Append(seen, Taken.n) /\ UNCHANGED <<stream, streamed, held>>
    BY <1>6 DEF PushAudit, Take, Taken, input
  <2>2. app'.audit_log = Capped(Append(app.audit_log, Taken.n))
    BY <1>1, <1>6 DEF PushAudit, Apps
  <2>3. Taken.n \in 0..MaxEvents
    BY <2>1, <1>1, ReceiveStep, EventKinds
  <2>4. IsTailOf(app'.audit_log, seen')
    BY <2>1, <2>2, <2>3, <1>1, PushTail
  <2> QED  BY <2>1, <2>4, ReceivePane
<1> QED  BY <1>2, <1>3, <1>4, <1>5, <1>6

\* What the audit task held is in the channel, and no longer with the task.
LEMMA SendPane ==
  ASSUME PaneInv, UiType', NEW t \in Tasks, Send(t)
  PROVE  PaneInv'
<1>1. UiType /\ StreamInOrder /\ chan \in Seq(AppEvents) /\ seen \in Seq(0..MaxEvents)
      /\ streamed \in 0..MaxEvents /\ MaxEvents \in Nat
  BY UiAssumption DEF PaneInv, UiType, TypeOK
<1>2. held[t] \in AppEvents /\ held[t] # None /\ chan' = Append(chan, held[t])
      /\ UNCHANGED <<seen, stream, streamed, app>>
  BY <1>1, HeldBy DEF Send, input, past
<1>3. held'[t] = None /\ \A u \in Tasks : u # t => held'[u] = held[u]
  BY <1>1, HoldStep DEF Send, Owns
<1>4. ASSUME NEW n \in 1..MaxEvents
      PROVE  Numbered(held[t], n) <=> t = Audit /\ HoldsEvent /\ n = streamed
  BY <1>1, <1>2, HeldBy DEF Numbered, HoldsEvent, StreamInOrder
<1>5. HoldsEvent => streamed \in 1..MaxEvents
  <2>1. ASSUME HoldsEvent
        PROVE  held[Audit].n \in 0..MaxEvents
    BY <2>1, <1>1, HeldBy, EventKinds, TasksDiffer DEF HoldsEvent
  <2> QED  BY <2>1, <1>1 DEF StreamInOrder, HoldsEvent
<1>6. HoldsEvent' <=> HoldsEvent /\ t # Audit
  BY <1>3, TasksDiffer DEF HoldsEvent, Audit
<1>7. \A n \in 1..MaxEvents : Numbered(held[t], n) => Before(seen, chan, Len(chan) + 1) = 1..(n - 1)
  BY <1>1, <1>4 DEF StreamInOrder, Sent
<1>8. ComesInOrder(seen, chan')
  BY <1>1, <1>2, <1>7, AppendBefore DEF StreamInOrder
<1>9. Before(seen, chan', Len(chan') + 1) = 1..(Sent')
  <2>1. Before(seen, chan', Len(chan') + 1)
          = Before(seen, chan, Len(chan) + 1) \cup {n \in 1..MaxEvents : Numbered(held[t], n)}
    BY <1>1, <1>2, AppendBefore
  <2>2. Before(seen, chan, Len(chan) + 1) = 1..Sent
    BY <1>1 DEF StreamInOrder
  <2>3. CASE t = Audit /\ HoldsEvent
    <3>1. Sent = streamed - 1 /\ Sent' = streamed
      BY <2>3, <1>2, <1>6 DEF Sent
    <3>2. {n \in 1..MaxEvents : Numbered(held[t], n)} = {streamed}
      BY <2>3, <1>4, <1>5
    <3>3. 1..(streamed - 1) \cup {streamed} = 1..streamed
      BY <2>3, <1>5
    <3> QED  BY <2>1, <2>2, <3>1, <3>2, <3>3
  <2>4. CASE ~(t = Audit /\ HoldsEvent)
    <3>1. Sent' = Sent
      BY <2>4, <1>2, <1>6 DEF Sent
    <3>2. {n \in 1..MaxEvents : Numbered(held[t], n)} = {}
      BY <2>4, <1>4
    <3> QED  BY <2>1, <2>2, <3>1, <3>2
  <2> QED  BY <2>3, <2>4
<1>10. /\ HoldsEvent' => held'[Audit].n = streamed'
       /\ stream' \in {"off", "connecting"} => held'[Audit] = None /\ streamed' = 0
  BY <1>1, <1>2, <1>3, <1>6, TasksDiffer DEF StreamInOrder
<1>11. InOrder(seen)' /\ ComesInOrder(seen, chan)' /\ Before(seen, chan, Len(chan) + 1)' = 1..(Sent')
  <2>1. Before(seen, chan, Len(chan) + 1)' = Before(seen', chan', Len(chan') + 1)
    BY DEF Before, Numbers, Numbered
  <2>2. InOrder(seen)' = InOrder(seen)
    BY <1>2 DEF InOrder, Numbers
  <2>3. ComesInOrder(seen, chan)' = ComesInOrder(seen', chan')
    BY DEF ComesInOrder, Before, Numbers, Numbered
  <2> QED  BY <2>1, <2>2, <2>3, <1>1, <1>2, <1>8, <1>9 DEF StreamInOrder
<1>12. StreamInOrder'
  BY <1>10, <1>11 DEF StreamInOrder, Audit
<1>13. IsTailOf(app.audit_log, seen)'
  BY <1>2 DEF PaneInv, IsTailOf
<1> QED  BY <1>12, <1>13 DEF PaneInv

\* The audit task connects, takes up the next event, or ends.
LEMMA StreamPane ==
  ASSUME PaneInv, UiType', ConnectStream \/ StreamEvent \/ StreamEnds
  PROVE  PaneInv'
<1>1. UiType /\ StreamInOrder /\ streamed \in 0..MaxEvents /\ MaxEvents \in Nat /\ Audit \in Tasks
      /\ held \in [Tasks -> AppEvents \cup {None}]
  BY UiAssumption, TasksDiffer DEF PaneInv, UiType, TypeOK
<1>2. UNCHANGED <<chan, seen, app>> /\ stream' \in {"open", "ended"}
  BY DEF ConnectStream, StreamEvent, StreamEnds, past
<1>3. ~HoldsEvent /\ Sent = streamed
  BY <1>1 DEF ConnectStream, StreamEvent, StreamEnds, StreamInOrder, HoldsEvent, Sent
<1>4. Sent' = Sent /\ (HoldsEvent' => held'[Audit].n = streamed')
  <2>1. CASE UNCHANGED <<held, streamed>>
    BY <2>1, <1>3 DEF HoldsEvent, Sent, Audit
  <2>2. CASE Hold(Audit, AuditMessage(0)) /\ UNCHANGED streamed
    <3>1. held'[Audit].n = 0
      BY <2>2, <1>1, MadeEvents DEF Hold
    <3> QED  BY <3>1, <2>2, <1>3 DEF HoldsEvent, Sent, Audit
  <2>3. CASE StreamEvent
    <3>1. streamed + 1 \in 1..MaxEvents /\ streamed' = streamed + 1
      BY <2>3, <1>1 DEF StreamEvent
    <3>2. held'[Audit] = AuditMessage(streamed + 1)
      BY <2>3, <1>1 DEF StreamEvent, Hold
    <3>3. AuditMessage(streamed + 1) \in AppEvents /\ AuditMessage(streamed + 1).n = streamed + 1
      BY <3>1, <1>1, MadeEvents
    <3>4. HoldsEvent' /\ held'[Audit].n = streamed'
      BY <3>1, <3>2, <3>3, <1>1, EventKinds DEF HoldsEvent, Audit
    <3> QED  BY <3>1, <3>4, <1>1, <1>3 DEF Sent
  <2> QED  BY <2>1, <2>2, <2>3 DEF ConnectStream, StreamEnds
<1>5. StreamInOrder'
  <2>1. InOrder(seen)' /\ ComesInOrder(seen, chan)' /\ Before(seen, chan, Len(chan) + 1)' = 1..(Sent')
    BY <1>1, <1>2, <1>4 DEF StreamInOrder, InOrder, ComesInOrder, Before, Numbers, Numbered
  <2> QED  BY <2>1, <1>2, <1>4 DEF StreamInOrder, Audit
<1>6. IsTailOf(app.audit_log, seen)'
  BY <1>2 DEF PaneInv, IsTailOf
<1> QED  BY <1>5, <1>6 DEF PaneInv

LEMMA OtherPane ==
  ASSUME PaneInv, UiType', \/ Press \/ KeyboardEnds \/ DrawFails
                          \/ (\E t \in Calls : CallReturns(t)) \/ UNCHANGED vars
  PROVE  PaneInv'
<1>1. UiType
  BY DEF PaneInv
<1>2. held'[Audit] = held[Audit]
  <2>1. CASE Press
    BY <2>1, <1>1, TasksDiffer DEF Press, Hold, UiType, TypeOK
  <2>2. ASSUME NEW t \in Calls, CallReturns(t)
        PROVE  held'[Audit] = held[Audit]
    BY <2>2, <1>1, TasksDiffer DEF CallReturns, Hold, UiType, TypeOK
  <2>3. CASE UNCHANGED vars
    BY <2>3 DEF vars
  <2>4. CASE KeyboardEnds \/ DrawFails
    BY <2>4 DEF KeyboardEnds, DrawFails
  <2> QED  BY <2>1, <2>2, <2>3, <2>4
<1>3. UNCHANGED <<app, chan, seen, stream, streamed>>
  BY DEF Press, KeyboardEnds, DrawFails, CallReturns, vars, input, past
<1> QED  BY <1>2, <1>3, SamePane

LEMMA InitPane ==
  ASSUME Init
  PROVE  PaneInv
<1>1. UiType
  BY InitUiType
<1>2. app.audit_log = << >> /\ seen = << >> /\ chan = << >> /\ streamed = 0 /\ held[Audit] = None
  BY TasksDiffer DEF Init
<1>3. Before(<< >>, << >>, 1) = {} /\ 1..0 = {} /\ Len(<< >>) = 0
  BY DEF Before, Numbers
<1>4. ~HoldsEvent /\ Sent = 0
  BY <1>2 DEF HoldsEvent, Sent
<1>5. InOrder(<< >>) /\ ComesInOrder(<< >>, << >>)
  BY DEF InOrder, ComesInOrder
<1>6. StreamInOrder
  BY <1>2, <1>3, <1>4, <1>5 DEF StreamInOrder
<1>7. IsTailOf(<< >>, << >>)
  BY DEF IsTailOf
<1> QED  BY <1>1, <1>2, <1>6, <1>7 DEF PaneInv

LEMMA StepPane ==
  ASSUME PaneInv, [Next]_vars
  PROVE  PaneInv'
<1>1. UiType /\ UiType'
  BY StepUiType DEF PaneInv
<1> QED  BY <1>1, UiCases, SendPane, StreamPane, LoopPane, OtherPane

LEMMA PaneIsTail ==
  ASSUME PaneInv
  PROVE  AuditLogIsTail
<1> DEFINE shown == app.audit_log
           first == Len(seen) - Len(shown) + 1
<1>1. /\ seen \in Seq(0..MaxEvents) /\ shown \in Seq(0..MaxEvents) /\ InOrder(seen)
      /\ IsTailOf(shown, seen) /\ Len(seen) \in Nat /\ Len(shown) \in Nat /\ DOMAIN seen = 1..Len(seen)
  <2>1. seen \in Seq(0..MaxEvents) /\ shown \in Seq(0..MaxEvents)
    BY DEF PaneInv, UiType, TypeOK, Apps
  <2>2. InOrder(seen) /\ IsTailOf(shown, seen)
    BY DEF PaneInv, StreamInOrder
  <2> HIDE DEF shown
  <2> QED  BY <2>1, <2>2
<1> HIDE DEF shown
<1>2. ASSUME NEW i \in DOMAIN seen, seen[i] # 0
      PROVE  {seen[j] : j \in 1..(i - 1)} \ {0} = 1..(seen[i] - 1)
  <2>1. \A j \in 1..(i - 1) : seen[j] \in 0..MaxEvents
    <3>1. \A j \in 1..(i - 1) : j \in 1..Len(seen)
      BY <1>1
    <3>2. \A j \in 1..Len(seen) : seen[j] \in 0..MaxEvents
      BY <1>1, ElementOfSeq
    <3> QED  BY <3>1, <3>2
  <2>2. {seen[j] : j \in 1..(i - 1)} \ {0} = Numbers(seen, i)
    BY <2>1, UiAssumption DEF Numbers
  <2> QED  BY <2>2, <1>1, <1>2 DEF InOrder
<1>3. shown = SubSeq(seen, first, Len(seen))
  <2>1. first \in 1..(Len(seen) + 1) /\ Len(seen) - first + 1 = Len(shown)
    BY <1>1 DEF IsTailOf
  <2> HIDE DEF first
  <2>2. SubSeq(seen, first, Len(seen)) \in Seq(0..MaxEvents)
        /\ Len(SubSeq(seen, first, Len(seen))) = Len(shown)
        /\ \A i \in 1..Len(shown) : SubSeq(seen, first, Len(seen))[i] = seen[first + i - 1]
    <3>1. first \in Int /\ Len(seen) \in Int /\ first \in 1..(Len(seen) + 1)
      BY <1>1, <2>1
    <3>2. \A i \in first..Len(seen) : seen[i] \in 0..MaxEvents
      <4>1. \A i \in first..Len(seen) : i \in 1..Len(seen)
        BY <3>1
      <4> QED  BY <4>1, <1>1, ElementOfSeq
    <3>3. /\ SubSeq(seen, first, Len(seen)) \in Seq(0..MaxEvents)
          /\ Len(SubSeq(seen, first, Len(seen)))
               = IF first <= Len(seen) THEN Len(seen) - first + 1 ELSE 0
          /\ \A i \in 1..(Len(seen) - first + 1) : SubSeq(seen, first, Len(seen))[i] = seen[first + i - 1]
      BY <3>1, <3>2, SubSeqProperties
    <3> QED  BY <3>1, <3>3, <2>1
  <2>3. \A i \in 1..Len(shown) : first + i - 1 = Len(seen) - Len(shown) + i
    BY <1>1, <2>1
  <2> QED  BY <1>1, <2>2, <2>3, SeqEqual DEF IsTailOf
<1> QED  BY <1>1, <1>2, <1>3 DEF AuditLogIsTail, IsTailOf, shown, first

(***************************************************************************)
(* The audit pane shows the end of what the loop received, and the events  *)
(* of the stream are in it in their order, none missing and none twice,    *)
(* whatever else competes for the channel.                                 *)
(***************************************************************************)
THEOREM AuditPaneIsTail == Spec => []AuditLogIsTail
<1>1. Init => PaneInv
  BY InitPane
<1>2. PaneInv /\ [Next]_vars => PaneInv'
  BY StepPane
<1>3. PaneInv => AuditLogIsTail
  BY PaneIsTail
<1> QED  BY <1>1, <1>2, <1>3, PTL DEF Spec
=============================================================================
