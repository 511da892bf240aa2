---------------------------- MODULE AuditService ----------------------------
(***************************************************************************)
(* elan-central's audit trail: publish_event, which stamps an event,       *)
(* stores it in SQLite and then broadcasts it, and stream_audit_events,    *)
(* which replays the recent events into a bounded channel, subscribes to   *)
(* the broadcast and from then on forwards what it receives.               *)
(*                                                                         *)
(* tokio's broadcast channel is the log of everything sent since the       *)
(* process started, with one cursor per receiver; it retains the last      *)
(* BroadcastCap entries, and a receiver that fell further behind skips to  *)
(* the oldest retained one.  The mpsc channel between a stream handler and *)
(* its client is a queue of at most ChanCap events.  Nothing reads that    *)
(* queue before the handler returns it to tonic.                           *)
(***************************************************************************)
EXTENDS Naturals, Sequences, FiniteSets

CONSTANTS
  Events,        \* the event ids publishers draw; each is published once
  TypeOf,        \* the event_type of each
  Subscribers,   \* clients of StreamAuditEvents
  Filters,       \* the event_types of a request; {} asks for all
  ReplayLimit,   \* 100 in stream_audit_events
  ChanCap,       \* 64, mpsc::channel
  BroadcastCap,  \* 256, broadcast::channel in main.rs
  Faults,        \* whether inserts fail, calls are cancelled, central restarts
  None

ASSUME AuditAssumption ==
  /\ None \notin Events /\ Faults \in BOOLEAN
  /\ ReplayLimit \in Nat /\ ChanCap \in Nat \ {0} /\ BroadcastCap \in Nat \ {0}

VARIABLES
  pub,      \* where publish_event is with each event
  order,    \* the stamped events, by occurred_at
  stored,   \* audit_events
  bcast,    \* the log of the broadcast channel
  conn      \* the connection of each subscriber

vars == <<pub, order, stored, bcast, conn>>

(***************************************************************************)
(* A connection: its phase, the request, the replay still to send, the     *)
(* mpsc queue, the broadcast cursor and the event held by a send that      *)
(* waits for room; and, as history, what the replay was, where the cursor  *)
(* started, whether it ever lagged, and what the client has received.      *)
(***************************************************************************)
Closed ==
  [phase |-> "off", filter |-> {}, since |-> 0, pending |-> << >>, chan |-> << >>,
   cursor |-> 0, held |-> None, replayed |-> << >>, start |-> 0, lagged |-> FALSE,
   got |-> << >>]

Passes(s, e) == conn[s].filter = {} \/ TypeOf[e] \in conn[s].filter

(***************************************************************************)
(* get_recent_audit_events: the newest ReplayLimit events since the time   *)
(* asked for, newest first; the type filter is applied to that page.  The  *)
(* positions of the result in the order of time are the one falling        *)
(* enumeration of the set Wanted.                                          *)
(***************************************************************************)
Hits(s)   == {i \in (conn[s].since + 1)..Len(order) : order[i] \in stored}
Page(s)   == {i \in Hits(s) : Cardinality({j \in Hits(s) : j > i}) < ReplayLimit}
Wanted(s) == {i \in Page(s) : Passes(s, order[i])}

Recent(s) ==
  {p \in [1..Cardinality(Wanted(s)) -> Wanted(s)] : \A i, j \in DOMAIN p : i < j => p[i] > p[j]}

-----------------------------------------------------------------------------
Init ==
  /\ pub = [e \in Events |-> "new"]
  /\ order = << >> /\ stored = {} /\ bcast = << >>
  /\ conn = [s \in Subscribers |-> Closed]

\* publish_event is called: the insert carries the time of the call.
Stamp(e) ==
  /\ pub[e] = "new"
  /\ pub' = [pub EXCEPT ![e] = "stamped"]
  /\ order' = Append(order, e)
  /\ UNCHANGED <<stored, bcast, conn>>

Store(e) ==
  /\ pub[e] = "stamped"
  /\ pub' = [pub EXCEPT ![e] = "stored"]
  /\ stored' = stored \cup {e}
  /\ UNCHANGED <<order, bcast, conn>>

\* A mutant: the event is broadcast before it is stored.
BroadcastEarly(e) ==
  /\ pub[e] \in {"stamped", "stored"}
  /\ pub' = [pub EXCEPT ![e] = "accepted"]
  /\ bcast' = Append(bcast, e)
  /\ UNCHANGED <<order, stored, conn>>

\* broadcast.send, whose result is ignored, then accepted: true.
Broadcast(e) ==
  /\ pub[e] = "stored"
  /\ pub' = [pub EXCEPT ![e] = "accepted"]
  /\ bcast' = Append(bcast, e)
  /\ UNCHANGED <<order, stored, conn>>

\* The insert fails or the call is cancelled at its await, before or after
\* the row was committed; the publisher does not try again.
PublishFails(e) ==
  /\ Faults
  /\ pub[e] \in {"stamped", "stored"}
  /\ pub' = [pub EXCEPT ![e] = "failed"]
  /\ UNCHANGED <<order, stored, bcast, conn>>

-----------------------------------------------------------------------------
\* The events stamped before since are not asked for: none, some, all of
\* them, or, with a time still to come, the next one neither.
Open(s) ==
  /\ conn[s].phase = "off"
  /\ \E f \in Filters, t \in 0..(Len(order) + 1) :
       conn' = [conn EXCEPT ![s] = [Closed EXCEPT !.phase = "query",
                                                  !.filter = f, !.since = t]]
  /\ UNCHANGED <<pub, order, stored, bcast>>

ReadRecent(s) ==
  /\ conn[s].phase = "query"
  /\ \E p \in Recent(s) :
       LET events == [i \in DOMAIN p |-> order[p[i]]] IN
       conn' = [conn EXCEPT ![s].phase = "replay", ![s].pending = events, ![s].replayed = events]
  /\ UNCHANGED <<pub, order, stored, bcast>>

\* A mutant: the channel is taken as full one event early.
SendReplayShort(s) ==
  /\ conn[s].phase = "replay" /\ conn[s].pending # << >>
  /\ Len(conn[s].chan) + 1 < ChanCap
  /\ conn' = [conn EXCEPT ![s].chan = Append(@, Head(conn[s].pending)),
                          ![s].pending = Tail(@)]
  /\ UNCHANGED <<pub, order, stored, bcast>>

\* A mutant: an unbounded channel.
SendReplayUnbounded(s) ==
  /\ conn[s].phase = "replay" /\ conn[s].pending # << >>
  /\ conn' = [conn EXCEPT ![s].chan = Append(@, Head(conn[s].pending)),
                          ![s].pending = Tail(@)]
  /\ UNCHANGED <<pub, order, stored, bcast>>

\* tx.send(..).await of the replay loop: waits while the queue is full.
SendReplay(s) ==
  /\ conn[s].phase = "replay" /\ conn[s].pending # << >>
  /\ Len(conn[s].chan) < ChanCap
  /\ conn' = [conn EXCEPT ![s].chan = Append(@, Head(conn[s].pending)),
                          ![s].pending = Tail(@)]
  /\ UNCHANGED <<pub, order, stored, bcast>>

\* broadcast.subscribe(), the forwarding task, and the reply to the client.
Subscribe(s) ==
  /\ conn[s].phase = "replay" /\ conn[s].pending = << >>
  /\ conn' = [conn EXCEPT ![s].phase = "live", ![s].cursor = Len(bcast),
                          ![s].start = Len(bcast)]
  /\ UNCHANGED <<pub, order, stored, bcast>>

Forwarding(s) == conn[s].phase \in {"live", "gone"} /\ conn[s].held = None
Behind(s)     == Len(bcast) - conn[s].cursor

\* recv() returns an event; one the filter drops is not held.
Recv(s) ==
  /\ Forwarding(s) /\ Behind(s) \in 1..BroadcastCap
  /\ LET e == bcast[conn[s].cursor + 1] IN
     conn' = [conn EXCEPT ![s].cursor = @ + 1,
                          ![s].held = IF Passes(s, e) THEN e ELSE None]
  /\ UNCHANGED <<pub, order, stored, bcast>>

\* A mutant: Lagged ends the loop like Closed does; tx is dropped with the
\* task, and so the stream of the client ends.
LagBreaks(s) ==
  /\ Forwarding(s) /\ Behind(s) > BroadcastCap
  /\ conn' = [conn EXCEPT ![s] = Closed]
  /\ UNCHANGED <<pub, order, stored, bcast>>

\* recv() returns Lagged: the cursor moves to the oldest retained event.
Lag(s) ==
  /\ Forwarding(s) /\ Behind(s) > BroadcastCap
  /\ conn' = [conn EXCEPT ![s].cursor = Len(bcast) - BroadcastCap, ![s].lagged = TRUE]
  /\ UNCHANGED <<pub, order, stored, bcast>>

\* A mutant: try_send, which drops the event when the queue is full.
ForwardOrDrop(s) ==
  /\ conn[s].phase = "live" /\ conn[s].held # None
  /\ conn' = [conn EXCEPT ![s].held = None,
                ![s].chan = IF Len(@) < ChanCap THEN Append(@, conn[s].held) ELSE @]
  /\ UNCHANGED <<pub, order, stored, bcast>>

\* A mutant: the send is repeated, the event not taken.
ForwardAgain(s) ==
  /\ conn[s].phase = "live" /\ conn[s].held # None
  /\ Len(conn[s].chan) < ChanCap
  /\ conn' = [conn EXCEPT ![s].chan = Append(@, conn[s].held)]
  /\ UNCHANGED <<pub, order, stored, bcast>>

\* tx.send(..).await of the forwarding task.
Forward(s) ==
  /\ conn[s].phase = "live" /\ conn[s].held # None
  /\ Len(conn[s].chan) < ChanCap
  /\ conn' = [conn EXCEPT ![s].chan = Append(@, conn[s].held), ![s].held = None]
  /\ UNCHANGED <<pub, order, stored, bcast>>

\* The client reads the stream it was given.
Drain(s) ==
  /\ conn[s].phase = "live" /\ conn[s].chan # << >>
  /\ conn' = [conn EXCEPT ![s].got = Append(@, Head(conn[s].chan)), ![s].chan = Tail(@)]
  /\ UNCHANGED <<pub, order, stored, bcast>>

\* The client goes away: a handler still replaying is dropped, a forwarding
\* task only notices at its next send.
Disconnect(s) ==
  /\ conn[s].phase \in {"query", "replay", "live"}
  /\ conn' = [conn EXCEPT ![s] = IF @.phase = "live" THEN [@ EXCEPT !.phase = "gone"]
                                 ELSE Closed]
  /\ UNCHANGED <<pub, order, stored, bcast>>

SendFails(s) ==
  /\ conn[s].phase = "gone" /\ conn[s].held # None
  /\ conn' = [conn EXCEPT ![s] = Closed]
  /\ UNCHANGED <<pub, order, stored, bcast>>

\* elan-central stops and starts: calls and channels are gone, the table stays.
Restart ==
  /\ Faults
  /\ pub' = [e \in Events |-> IF pub[e] \in {"stamped", "stored"} THEN "failed" ELSE pub[e]]
  /\ bcast' = << >>
  /\ conn' = [s \in Subscribers |-> Closed]
  /\ UNCHANGED <<order, stored>>

Publish(e) == Stamp(e) \/ Store(e) \/ Broadcast(e) \/ PublishFails(e)

Serve(s) ==
  \/ ReadRecent(s) \/ SendReplay(s) \/ Subscribe(s)
  \/ Recv(s) \/ Lag(s) \/ Forward(s) \/ SendFails(s)

Stream(s) == Open(s) \/ Serve(s) \/ Drain(s) \/ Disconnect(s)

Next == (\E e \in Events : Publish(e)) \/ (\E s \in Subscribers : Stream(s)) \/ Restart

(***************************************************************************)
(* tokio polls every task that can go on, and a connected client keeps     *)
(* reading.  Nothing obliges anyone to publish, connect or leave.          *)
(***************************************************************************)
Fairness == \A s \in Subscribers : WF_vars(Serve(s)) /\ WF_vars(Drain(s))

Spec == Init /\ [][Next]_vars /\ Fairness

-----------------------------------------------------------------------------
Phases    == {"off", "query", "replay", "live", "gone"}
PubStates == {"new", "stamped", "stored", "accepted", "failed"}

Connections ==
  [phase : Phases, filter : Filters \cup {{}}, since : Nat, pending : Seq(Events),
   chan : Seq(Events), cursor : Nat, held : Events \cup {None}, replayed : Seq(Events),
   start : Nat, lagged : BOOLEAN, got : Seq(Events)]

\* The variables hold values of the types they model, within the channel's bound.
TypeOK ==
  /\ pub \in [Events -> PubStates]
  /\ order \in Seq(Events) /\ stored \subseteq Events /\ bcast \in Seq(Events)
  /\ conn \in [Subscribers -> Connections]
  /\ \A s \in Subscribers : conn[s].cursor <= Len(bcast) /\ Len(conn[s].chan) <= ChanCap

Elements(seq) == {seq[i] : i \in DOMAIN seq}
HeldBy(s)     == IF conn[s].held = None THEN << >> ELSE <<conn[s].held>>

\* Everything the stream of s has carried or is about to.
Carried(s) == conn[s].got \o conn[s].chan \o HeldBy(s)

(***************************************************************************)
(* A client never sees an event that the audit log does not keep: what is  *)
(* on its way to any subscriber is in the table, although inserts fail,    *)
(* calls are cancelled and the server restarts.                            *)
(***************************************************************************)
StreamedIsStored ==
  \A s \in Subscribers :
    Elements(Carried(s)) \cup Elements(conn[s].pending) \subseteq stored

(***************************************************************************)
(* A sequence that is the replay followed by the entries of the log at the *)
(* positions due, in their order: each stands behind as many of the due    *)
(* entries as come before it in the log, and there is nothing else.        *)
(***************************************************************************)
Due(s) == {k \in (conn[s].start + 1)..conn[s].cursor : Passes(s, bcast[k])}

ReplayThenExactly(seq, replayed, due, log) ==
  /\ Len(seq) = Len(replayed) + Cardinality(due)
  /\ \A i \in DOMAIN replayed : seq[i] = replayed[i]
  /\ \A k \in due : seq[Len(replayed) + Cardinality({d \in due : d <= k})] = log[k]

(***************************************************************************)
(* Until it lags, a live stream is the replay followed by exactly the      *)
(* broadcast events that pass the filter since the subscription, in their  *)
(* order: the full queue delays events, it never drops or reorders them.   *)
(***************************************************************************)
LiveStreamExact ==
  \A s \in Subscribers : conn[s].phase = "live" /\ ~conn[s].lagged =>
    ReplayThenExactly(Carried(s), conn[s].replayed, Due(s), bcast)

(***************************************************************************)
(* One stream carries an event at most twice, and twice only when it was   *)
(* stored in time for the replay and broadcast after the subscription.     *)
(***************************************************************************)
RepeatOnlyAcrossSwitch ==
  \A s \in Subscribers : \A i, j \in DOMAIN Carried(s) :
    i < j /\ Carried(s)[i] = Carried(s)[j] =>
      i <= Len(conn[s].replayed) /\ j > Len(conn[s].replayed)

(***************************************************************************)
(* A replay that fits the channel ends: the handler goes live (or is       *)
(* abandoned).                                                             *)
(***************************************************************************)
FittingReplayEnds ==
  \A s \in Subscribers :
    conn[s].phase = "replay" /\ Len(conn[s].replayed) <= ChanCap ~> conn[s].phase # "replay"

(***************************************************************************)
(* README.md (115): a connected subscriber receives what is broadcast.  An *)
(* event broadcast while a stream is live reaches its client, if it passes *)
(* the filter, unless the stream ends or lags.                             *)
(***************************************************************************)
BroadcastIsDelivered ==
  \A s \in Subscribers, e \in Events :
    /\ conn[s].phase = "live"
    /\ Passes(s, e) /\ e \in Elements(SubSeq(bcast, conn[s].cursor + 1, Len(bcast)))
    ~> \/ e \in Elements(conn[s].got)
       \/ conn[s].phase \in {"off", "gone"} \/ conn[s].lagged

(***************************************************************************)
(* A live stream that lags goes on: the server does not end it, and when   *)
(* publishing pauses (the events of an instance are finite) it has caught  *)
(* up.  Only a client that leaves (it is "gone" before the task notices)   *)
(* or a restart of the server, which empties the broadcast channel, ends   *)
(* it before that.                                                         *)
(***************************************************************************)
LaggedStreamCatchesUp ==
  \A s \in Subscribers :
    conn[s].phase = "live" /\ Behind(s) > BroadcastCap
    ~> \/ conn[s].phase = "live" /\ Behind(s) = 0
       \/ conn[s].phase = "gone" \/ bcast = << >>

(***************************************************************************)
(* audit_svc.rs (3-5): the stream "first replays recent events (catch-up), *)
(* then switches to a live broadcast channel".  Every request gets there,  *)
(* unless the client gives up.                                             *)
(***************************************************************************)
StreamGoesLive ==
  \A s \in Subscribers : conn[s].phase = "query" ~> conn[s].phase \in {"live", "off"}

(***************************************************************************)
(* audit_svc.rs (3-5), README.md (115): replay and live events together    *)
(* leave nothing out.  When a live stream that asked for everything, did   *)
(* not lag and was not cut by the replay limit has read all of the         *)
(* broadcast, it has carried every accepted event.                         *)
(***************************************************************************)
NothingBetweenReplayAndLive ==
  \A s \in Subscribers :
    LET c == conn[s] IN
    /\ c.phase = "live" /\ c.filter = {} /\ c.since = 0 /\ ~c.lagged
    /\ Behind(s) = 0 /\ Cardinality(stored) <= ReplayLimit
    => \A e \in Events : pub[e] = "accepted" => e \in Elements(Carried(s))
=============================================================================
