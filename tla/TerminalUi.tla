------------------------------ MODULE TerminalUi ------------------------------
(***************************************************************************)
(* elan-tui: the App value, the event loop of main.rs that alone changes   *)
(* it, and the tasks that feed the loop over one bounded channel: the      *)
(* keyboard reader, the audit stream, and one task for every query and     *)
(* every load of the catalog.  elan-query and elan-central are seen        *)
(* through their answers.  Texts and rendering are left out.               *)
(***************************************************************************)
EXTENDS Integers, Sequences, FiniteSets

CONSTANTS
  None,
  Scripts,    \* bound: the sequences of keys the user may press
  MaxTasks,   \* bound: tasks of one kind, no fewer than a script starts
  MaxEvents,  \* bound: events the audit stream carries
  ChanCap,    \* 128 in main.rs
  LogCap,     \* 500 in push_audit
  MaxScroll   \* u16::MAX

Keys == {"tab", "ctrl_r", "f5", "ctrl_l", "ctrl_c", "up", "down", "text"}

Count(keys, k) == Cardinality({i \in DOMAIN keys : keys[i] = k})

ASSUME UiAssumption ==
  /\ Scripts \subseteq Seq(Keys) /\ MaxEvents \in Nat /\ MaxTasks \in Nat
  /\ \A keys \in Scripts : Count(keys, "f5") <= MaxTasks /\ 1 + Count(keys, "ctrl_r") <= MaxTasks
  /\ ChanCap \in Nat \ {0} /\ LogCap \in Nat \ {0} /\ MaxScroll \in Nat

VARIABLES
  app,      \* [pane, text, results, results_scroll, audit_log, audit_scroll, catalog, is_loading]
  running,  \* the loop has not been left
  chan,     \* the mpsc channel of AppEvents
  held,     \* the event each task is sending, while there is no room
  calling,  \* tasks that wait for an answer of elan-query
  stream,   \* the audit task: off, connecting, open, ended
  script,   \* the keys the user has yet to press
  streamed, \* bound: events the audit stream has brought
  started,  \* tasks of each kind started so far
  seen,     \* history: the audit messages the loop has handled
  overlap   \* history: a query was started while another was running

input == <<script, streamed, stream>>
past  == <<seen, overlap>>
vars  == <<app, running, chan, held, calling, input, started, past>>

Query(i) == <<"query", i>>
Load(i)  == <<"load", i>>
Keyboard == <<"keyboard", 0>>
Audit    == <<"audit", 0>>
Calls    == {Query(i) : i \in 1..MaxTasks} \cup {Load(i) : i \in 1..MaxTasks}
Tasks    == Calls \cup {Keyboard, Audit}

\* AppEvent.  An AuditMessage of number 0 is the text of an error.
AppEvent(kind, key, n, ok) == [kind |-> kind, key |-> key, n |-> n, ok |-> ok]
KeyEvent(k)      == AppEvent("key", k, 0, TRUE)
AuditMessage(n)  == AppEvent("audit", None, n, TRUE)
QueryResult(i, ok) == AppEvent("result", None, i, ok)
CatalogLoaded(i) == AppEvent("catalog", None, i, TRUE)

AppEvents ==
       {KeyEvent(k) : k \in Keys} \cup {AuditMessage(n) : n \in 0..MaxEvents}
  \cup {QueryResult(i, ok) : i \in 1..MaxTasks, ok \in BOOLEAN}
  \cup {CatalogLoaded(i) : i \in 1..MaxTasks}

ASSUME NoneAssumption == None \notin AppEvents

-----------------------------------------------------------------------------
Init ==
  /\ app = [pane |-> "Editor", text |-> FALSE, results |-> None, results_scroll |-> 0,
            audit_log |-> << >>, audit_scroll |-> 0, catalog |-> None, is_loading |-> FALSE]
  /\ running = TRUE /\ chan = << >>
  /\ held = [t \in Tasks |-> None]
  /\ calling = {Load(1)} /\ started = [query |-> 0, load |-> 1]
  /\ stream \in {"off", "connecting"}
  /\ script \in Scripts /\ streamed = 0
  /\ seen = << >> /\ overlap = FALSE

-----------------------------------------------------------------------------
(***************************************************************************)
(* The tasks.  A task that sends waits for room; it does nothing else      *)
(* until its event is in the channel.                                      *)
(***************************************************************************)
Hold(t, event) == held' = [held EXCEPT ![t] = event]

\* A mutant: try_send, which drops the event when the channel is full.
SendOrDrop(t) ==
  /\ running /\ held[t] # None
  /\ chan' = IF Len(chan) < ChanCap THEN Append(chan, held[t]) ELSE chan
  /\ Hold(t, None)
  /\ UNCHANGED <<app, running, calling, input, started, past>>

\* A mutant: an unbounded channel.
SendUnbounded(t) ==
  /\ running /\ held[t] # None
  /\ chan' = Append(chan, held[t])
  /\ Hold(t, None)
  /\ UNCHANGED <<app, running, calling, input, started, past>>

\* event_tx.send(event).await
Send(t) ==
  /\ running /\ held[t] # None /\ Len(chan) < ChanCap
  /\ chan' = Append(chan, held[t])
  /\ Hold(t, None)
  /\ UNCHANGED <<app, running, calling, input, started, past>>

Press ==
  /\ running /\ held[Keyboard] = None /\ script # << >>
  /\ script' = Tail(script)
  /\ Hold(Keyboard, KeyEvent(Head(script)))
  /\ UNCHANGED <<app, running, chan, calling, streamed, stream, started, past>>

\* The keyboard task ends on an error of the reader; nothing starts another.
KeyboardEnds ==
  /\ running /\ held[Keyboard] = None /\ script # << >>
  /\ script' = << >>
  /\ UNCHANGED <<app, running, chan, held, calling, streamed, stream, started, past>>

\* connect() and stream_audit_events(), or the message of either's error.
ConnectStream ==
  /\ running /\ stream = "connecting"
  /\ \/ stream' = "open" /\ UNCHANGED held
     \/ stream' = "ended" /\ Hold(Audit, AuditMessage(0))
  /\ UNCHANGED <<app, running, chan, calling, script, streamed, started, past>>

StreamEvent ==
  /\ running /\ stream = "open" /\ held[Audit] = None /\ streamed < MaxEvents
  /\ streamed' = streamed + 1
  /\ Hold(Audit, AuditMessage(streamed + 1))
  /\ UNCHANGED <<app, running, chan, calling, script, stream, started, past>>

\* `while let Some(Ok(..))' ends with the stream; nothing connects again.
StreamEnds ==
  /\ running /\ stream = "open" /\ held[Audit] = None
  /\ stream' = "ended"
  /\ UNCHANGED <<app, running, chan, held, calling, script, streamed, started, past>>

\* A call to elan-query returns: its answer or its error becomes an event.
CallReturns(t) ==
  /\ running /\ t \in calling
  /\ calling' = calling \ {t}
  /\ \E ok \in BOOLEAN :
       Hold(t, CASE t[1] = "query"      -> QueryResult(t[2], ok)
                 [] t[1] = "load" /\ ok  -> CatalogLoaded(t[2])
                 [] t[1] = "load" /\ ~ok -> AuditMessage(0))
  /\ UNCHANGED <<app, running, chan, input, started, past>>

-----------------------------------------------------------------------------
(***************************************************************************)
(* The event loop: one event is received and handled before the next.      *)
(***************************************************************************)
Take(kind) == running /\ chan # << >> /\ Head(chan).kind = kind /\ chan' = Tail(chan)
Taken == Head(chan)
TakeKey(k) == Take("key") /\ Taken.key = k

Pane(p) == app.pane = p

NextPane == CASE Pane("Editor") -> "Results" [] Pane("Results") -> "Audit"
              [] Pane("Audit") -> "Catalog" [] Pane("Catalog") -> "Editor"

Spawn(kind) ==
  /\ started' = [started EXCEPT ![kind] = @ + 1]
  /\ calling' = calling \cup {<<kind, started[kind] + 1>>}

\* Queries whose result the loop has not handled.
Outstanding ==
  {i \in 1..MaxTasks : \/ Query(i) \in calling \/ held[Query(i)] # None
                       \/ \E j \in DOMAIN chan : chan[j].kind = "result" /\ chan[j].n = i}

\* An error of terminal.draw, before the next event: main returns.
DrawFails ==
  /\ running /\ running' = FALSE
  /\ UNCHANGED <<app, chan, held, calling, input, started, past>>

\* Ctrl+C: main returns, and the runtime drops every task.
Quit ==
  /\ TakeKey("ctrl_c")
  /\ running' = FALSE
  /\ UNCHANGED <<app, held, calling, input, started, past>>

Tab ==
  /\ TakeKey("tab")
  /\ app' = [app EXCEPT !.pane = NextPane]
  /\ UNCHANGED <<running, held, calling, input, started, past>>

RefreshCatalog ==
  /\ TakeKey("ctrl_r")
  /\ Spawn("load")
  /\ UNCHANGED <<app, running, held, input, past>>

\* A mutant: is_loading is set before the check for an empty editor.
ExecuteQueryUnchecked ==
  /\ TakeKey("f5")
  /\ app' = [app EXCEPT !.is_loading = TRUE, !.results_scroll = 0, !.pane = "Results"]
  /\ IF app.text THEN Spawn("query") ELSE UNCHANGED <<started, calling>>
  /\ overlap' = (overlap \/ (app.text /\ Outstanding # {}))
  /\ UNCHANGED <<running, held, input, seen>>

\* execute_query, which a query that is still running does not prevent.
ExecuteQuery ==
  /\ TakeKey("f5")
  /\ IF app.text
     THEN /\ app' = [app EXCEPT !.is_loading = TRUE, !.results_scroll = 0, !.pane = "Results"]
          /\ Spawn("query")
          /\ overlap' = (overlap \/ Outstanding # {})
     ELSE UNCHANGED <<app, started, calling, overlap>>
  /\ UNCHANGED <<running, held, input, seen>>

ClearEditor ==
  /\ TakeKey("ctrl_l")
  /\ app' = IF Pane("Editor") THEN [app EXCEPT !.text = FALSE] ELSE app
  /\ UNCHANGED <<running, held, calling, input, started, past>>

\* TextArea::input types or deletes; in the other panes nothing happens.
EditorInput ==
  /\ TakeKey("text")
  /\ IF Pane("Editor") THEN \E text \in BOOLEAN : app' = [app EXCEPT !.text = text]
                       ELSE UNCHANGED app
  /\ UNCHANGED <<running, held, calling, input, started, past>>

SaturatingSub1(n) == IF n = 0 THEN 0 ELSE n - 1

Up ==
  /\ TakeKey("up")
  /\ app' = CASE Pane("Results") -> [app EXCEPT !.results_scroll = SaturatingSub1(@)]
              [] Pane("Audit")   -> [app EXCEPT !.audit_scroll = SaturatingSub1(@)]
              [] OTHER           -> app
  /\ UNCHANGED <<running, held, calling, input, started, past>>

\* `+= 1' on a u16: at its limit a release build wraps and a debug build panics.
Overflows == \/ Pane("Results") /\ app.results_scroll = MaxScroll
             \/ Pane("Audit") /\ app.audit_scroll = MaxScroll

Down ==
  /\ TakeKey("down")
  /\ \/ /\ app' = CASE Pane("Results") ->
                         [app EXCEPT !.results_scroll = (@ + 1) % (MaxScroll + 1)]
                    [] Pane("Audit")   ->
                         [app EXCEPT !.audit_scroll = (@ + 1) % (MaxScroll + 1)]
                    [] OTHER           -> app
        /\ UNCHANGED running
     \/ Overflows /\ running' = FALSE /\ UNCHANGED app
  /\ UNCHANGED <<held, calling, input, started, past>>

Capped(log) == IF Len(log) > LogCap THEN Tail(log) ELSE log

\* A mutant: pop() in place of remove(0).
PushAuditPops ==
  /\ Take("audit")
  /\ LET log == Append(app.audit_log, Taken.n) IN
       app' = [app EXCEPT !.audit_log = IF Len(log) > LogCap THEN app.audit_log ELSE log]
  /\ seen' = Append(seen, Taken.n)
  /\ UNCHANGED <<running, held, calling, input, started, overlap>>

PushAudit ==
  /\ Take("audit")
  /\ app' = [app EXCEPT !.audit_log = Capped(Append(@, Taken.n))]
  /\ seen' = Append(seen, Taken.n)
  /\ UNCHANGED <<running, held, calling, input, started, overlap>>

\* A mutant: is_loading is reset for a result only.
ShowResultOnly ==
  /\ Take("result")
  /\ app' = IF Taken.ok THEN [app EXCEPT !.is_loading = FALSE, !.results = Taken.n] ELSE app
  /\ UNCHANGED <<running, held, calling, input, started, past>>

ShowResult ==
  /\ Take("result")
  /\ app' = IF Taken.ok THEN [app EXCEPT !.is_loading = FALSE, !.results = Taken.n]
                        ELSE [app EXCEPT !.is_loading = FALSE]
  /\ UNCHANGED <<running, held, calling, input, started, past>>

ShowCatalog ==
  /\ Take("catalog")
  /\ app' = [app EXCEPT !.catalog = Taken.n]
  /\ UNCHANGED <<running, held, calling, input, started, past>>

-----------------------------------------------------------------------------
HandleKey == Quit \/ Tab \/ RefreshCatalog \/ ExecuteQuery \/ ClearEditor
             \/ EditorInput \/ Up \/ Down

Loop == HandleKey \/ PushAudit \/ ShowResult \/ ShowCatalog

Next ==
  \/ Loop
  \/ \E t \in Tasks : Send(t)
  \/ Press \/ KeyboardEnds \/ ConnectStream \/ StreamEvent \/ StreamEnds \/ DrawFails
  \/ \E t \in Calls : CallReturns(t)

(***************************************************************************)
(* tokio polls the loop, and serves the senders that wait for room in the  *)
(* order they came.  Nothing obliges the user or the audit stream, nor a   *)
(* call to return: client/query.rs sets no timeout.                        *)
(***************************************************************************)
Fairness ==
  /\ WF_vars(Loop)
  /\ \A t \in Tasks : SF_vars(Send(t))

Spec == Init /\ [][Next]_vars /\ Fairness

-----------------------------------------------------------------------------
Panes == {"Editor", "Results", "Audit", "Catalog"}

Apps ==
  [pane : Panes, text : BOOLEAN, is_loading : BOOLEAN,
   results : 1..MaxTasks \cup {None}, catalog : 1..MaxTasks \cup {None},
   results_scroll : 0..MaxScroll, audit_scroll : 0..MaxScroll, audit_log : Seq(0..MaxEvents)]

\* The variables hold values of their types; the channel and the log are
\* bounded, and no more tasks are started than the script asks for.
TypeOK ==
  /\ app \in Apps /\ Len(app.audit_log) <= LogCap
  /\ running \in BOOLEAN
  /\ chan \in Seq(AppEvents) /\ Len(chan) <= ChanCap
  /\ held \in [Tasks -> AppEvents \cup {None}] /\ calling \subseteq Calls
  /\ stream \in {"off", "connecting", "open", "ended"}
  /\ script \in Seq(Keys) /\ streamed \in 0..MaxEvents
  /\ started \in [{"query", "load"} -> 0..MaxTasks]
  /\ seen \in Seq(0..MaxEvents) /\ overlap \in BOOLEAN

(***************************************************************************)
(* "Results [loading...]" is shown only while a query runs or its result   *)
(* is on its way, and, as long as queries are run one at a time, whenever  *)
(* that is so.  (With two at a time the first result ends it.)             *)
(***************************************************************************)
LoadingTellsOutstanding ==
  /\ app.is_loading => Outstanding # {}
  /\ ~overlap /\ Outstanding # {} => app.is_loading

(***************************************************************************)
(* The audit pane is the end of what was received, and the events of the   *)
(* stream are all there, in their order, although the stream shares a      *)
(* bounded channel with keys, results and the errors of other tasks: what  *)
(* was received before event n, errors aside, are the events before it.    *)
(***************************************************************************)
AuditLogIsTail ==
  LET shown == Len(app.audit_log) IN
  /\ \A i \in DOMAIN seen : seen[i] # 0 => {seen[j] : j \in 1..(i - 1)} \ {0} = 1..(seen[i] - 1)
  /\ shown <= Len(seen)
  /\ app.audit_log = SubSeq(seen, Len(seen) - shown + 1, Len(seen))
  /\ shown < LogCap => shown = Len(seen)

(***************************************************************************)
(* Ctrl+C leaves the program, whatever else fills the channel.             *)
(***************************************************************************)
CtrlCQuits == held[Keyboard] = KeyEvent("ctrl_c") ~> ~running

(***************************************************************************)
(* As long as no call of a query waits for ever, "loading" ends, with a    *)
(* result or with an error, whatever fills the channel and though a load   *)
(* of the catalog may hang.                                                *)
(***************************************************************************)
LoadingEnds ==
  (\A i \in 1..MaxTasks : []<>(Query(i) \notin calling))
    => (app.is_loading ~> ~app.is_loading \/ ~running)
=============================================================================
