------------------------- MODULE AuditServiceProofs -------------------------
(***************************************************************************)
(* Proofs about AuditService, for any events, subscribers and filters, any *)
(* sizes of the replay and the two channels, with and without faults.      *)
(***************************************************************************)
EXTENDS AuditService, SequenceTheorems, FiniteSetTheorems, TLAPS

Distinct(seq) == \A i, j \in DOMAIN seq : seq[i] = seq[j] => i = j

\* An event is stamped once, stored before it is broadcast, and broadcast once.
PublishedOnce ==
  /\ Distinct(order) /\ \A i \in DOMAIN order : pub[order[i]] # "new"
  /\ \A e \in Events : pub[e] \in {"stored", "accepted"} => e \in stored
  /\ Distinct(bcast) /\ \A i \in DOMAIN bcast : pub[bcast[i]] = "accepted"

(***************************************************************************)
(* A sequence that begins with the replay and goes on with other events,   *)
(* each once, out of a set.                                                *)
(***************************************************************************)
ReplayThen(seq, replayed, events) ==
  /\ Len(replayed) <= Len(seq)
  /\ \A i \in 1..Len(replayed) : seq[i] = replayed[i]
  /\ \A j \in (Len(replayed) + 1)..Len(seq) : seq[j] \in events
  /\ \A i, j \in (Len(replayed) + 1)..Len(seq) : seq[i] = seq[j] => i = j

\* What a connection has carried or is about to, and what it has received.
CarriedBy(c) == c.got \o c.chan \o (IF c.held = None THEN << >> ELSE <<c.held>>)
Received(c, log) == {log[k] : k \in (c.start + 1)..c.cursor}

(***************************************************************************)
(* A connection in each phase: it has nothing before the replay, the parts *)
(* of the replay in the channel and still to send, and from then on the    *)
(* replay followed by what it received.                                    *)
(***************************************************************************)
ConnectionFits(c, log, kept) ==
  /\ Distinct(c.replayed) /\ Elements(c.replayed) \subseteq kept
  /\ c.phase \in {"off", "query"} =>
       c.got = << >> /\ c.chan = << >> /\ c.held = None /\ c.pending = << >>
  /\ c.phase = "replay" =>
       c.got = << >> /\ c.held = None /\ c.replayed = c.chan \o c.pending
  /\ c.phase \in {"live", "gone"} =>
       /\ c.pending = << >> /\ c.start <= c.cursor
       /\ ReplayThen(CarriedBy(c), c.replayed, Received(c, log))

AuditInv ==
  /\ TypeOK /\ PublishedOnce
  /\ \A s \in Subscribers : ConnectionFits(conn[s], bcast, stored)

-----------------------------------------------------------------------------
LEMMA ClosedFits ==
  /\ Closed \in Connections
  /\ Closed.cursor = 0 /\ Len(Closed.chan) = 0
  /\ \A log, kept : ConnectionFits(Closed, log, kept)
<1>1. Closed \in Connections
  BY DEF Closed, Connections, Phases
<1>2. Closed.cursor = 0 /\ Len(Closed.chan) = 0
  BY DEF Closed
<1>3. ASSUME NEW log, NEW kept PROVE ConnectionFits(Closed, log, kept)
  <2>1. /\ Closed.phase = "off" /\ Closed.got = << >> /\ Closed.chan = << >>
        /\ Closed.held = None /\ Closed.pending = << >> /\ Closed.replayed = << >>
    BY DEF Closed
  <2>2. Distinct(<< >>) /\ Elements(<< >>) \subseteq kept
    BY DEF Distinct, Elements
  <2> QED  BY <2>1, <2>2 DEF ConnectionFits
<1> QED  BY <1>1, <1>2, <1>3

\* A sequence grows by an event of its own.
LEMMA AppendEvent ==
  ASSUME NEW seq \in Seq(Events), NEW replayed \in Seq(Events), NEW event \in Events,
         NEW old, NEW new, old \subseteq new, event \in new, event \notin old,
         ReplayThen(seq, replayed, old)
  PROVE  ReplayThen(Append(seq, event), replayed, new)
<1> DEFINE longer == Append(seq, event)
<1>1. /\ Len(longer) = Len(seq) + 1 /\ longer[Len(seq) + 1] = event
      /\ \A i \in 1..Len(seq) : longer[i] = seq[i]
      /\ Len(seq) \in Nat /\ Len(replayed) \in Nat /\ Len(replayed) <= Len(seq)
  BY AppendProperties DEF ReplayThen
<1> HIDE DEF longer
<1>2. \A i \in 1..Len(replayed) : longer[i] = replayed[i]
  BY <1>1 DEF ReplayThen
<1>3. \A j \in (Len(replayed) + 1)..Len(seq) : longer[j] = seq[j] /\ longer[j] \in old
  BY <1>1 DEF ReplayThen
<1>4. \A j \in (Len(replayed) + 1)..Len(longer) :
        j \in (Len(replayed) + 1)..Len(seq) \/ j = Len(seq) + 1
  BY <1>1
<1>5. \A j \in (Len(replayed) + 1)..Len(longer) : longer[j] \in new
  BY <1>1, <1>3, <1>4
<1>6. \A i, j \in (Len(replayed) + 1)..Len(longer) : longer[i] = longer[j] => i = j
  BY <1>1, <1>3, <1>4 DEF ReplayThen
<1>7. ReplayThen(longer, replayed, new)
  BY <1>1, <1>2, <1>5, <1>6 DEF ReplayThen
<1> QED  BY <1>7 DEF longer

\* More has been received than the sequence shows.
LEMMA ReceiveMore ==
  ASSUME NEW seq, NEW replayed, NEW old, NEW new, old \subseteq new,
         ReplayThen(seq, replayed, old)
  PROVE  ReplayThen(seq, replayed, new)
BY DEF ReplayThen

\* The replay alone.
LEMMA ReplayAlone ==
  ASSUME NEW replayed \in Seq(Events), NEW events
  PROVE  ReplayThen(replayed, replayed, events)
BY DEF ReplayThen

\* A step of one connection that leaves everything else alone.
LEMMA ConnectionStep ==
  ASSUME AuditInv, UNCHANGED <<pub, order, stored, bcast>>,
         NEW s \in Subscribers, NEW new \in Connections,
         conn' = [conn EXCEPT ![s] = new],
         new.cursor <= Len(bcast), Len(new.chan) <= ChanCap,
         ConnectionFits(new, bcast, stored)
  PROVE  AuditInv'
<1>1. TypeOK'
  BY DEF AuditInv, TypeOK
<1>2. PublishedOnce'
  BY DEF AuditInv, PublishedOnce
<1>3. \A r \in Subscribers : ConnectionFits(conn'[r], bcast, stored)
  BY DEF AuditInv, TypeOK
<1> QED  BY <1>1, <1>2, <1>3 DEF AuditInv

-----------------------------------------------------------------------------
(***************************************************************************)
(* Publishing: what is stored grows, and the log of the broadcast grows at *)
(* its end, so that what a connection received stays what it was.          *)
(***************************************************************************)
LEMMA AppendDistinct ==
  ASSUME NEW seq \in Seq(Events), NEW event \in Events, Distinct(seq),
         \A i \in DOMAIN seq : seq[i] # event
  PROVE  /\ Append(seq, event) \in Seq(Events) /\ Distinct(Append(seq, event))
         /\ Len(Append(seq, event)) = Len(seq) + 1
         /\ \A i \in DOMAIN seq : Append(seq, event)[i] = seq[i]
         /\ \A i \in DOMAIN Append(seq, event) : i \in DOMAIN seq \/ Append(seq, event)[i] = event
<1> DEFINE longer == Append(seq, event)
<1>1. /\ longer \in Seq(Events) /\ Len(longer) = Len(seq) + 1 /\ longer[Len(seq) + 1] = event
      /\ \A i \in 1..Len(seq) : longer[i] = seq[i]
      /\ Len(seq) \in Nat /\ DOMAIN seq = 1..Len(seq)
  BY AppendProperties
<1> HIDE DEF longer
<1>2. DOMAIN longer = 1..(Len(seq) + 1)
  BY <1>1
<1>3. \A i \in DOMAIN longer : i \in DOMAIN seq \/ (i = Len(seq) + 1 /\ longer[i] = event)
  BY <1>1, <1>2
<1>4. Distinct(longer)
  BY <1>1, <1>3 DEF Distinct
<1>5. /\ longer \in Seq(Events) /\ Len(longer) = Len(seq) + 1 /\ Distinct(longer)
      /\ \A i \in DOMAIN seq : longer[i] = seq[i]
      /\ \A i \in DOMAIN longer : i \in DOMAIN seq \/ longer[i] = event
  BY <1>1, <1>3, <1>4
<1> QED  BY <1>5 DEF longer

LEMMA StoreMore ==
  ASSUME NEW c, NEW log, NEW old, NEW new, old \subseteq new, ConnectionFits(c, log, old)
  PROVE  ConnectionFits(c, log, new)
BY DEF ConnectionFits

LEMMA BroadcastMore ==
  ASSUME NEW c \in Connections, NEW log \in Seq(Events), NEW event \in Events, NEW kept,
         c.cursor <= Len(log), ConnectionFits(c, log, kept)
  PROVE  ConnectionFits(c, Append(log, event), kept)
<1>1. c.start \in Nat /\ c.cursor \in Nat /\ Len(log) \in Nat
  BY DEF Connections
<1>2. \A k \in (c.start + 1)..c.cursor : Append(log, event)[k] = log[k]
  BY <1>1, AppendProperties
<1>3. Received(c, Append(log, event)) = Received(c, log)
  BY <1>2 DEF Received
<1> QED  BY <1>3 DEF ConnectionFits

LEMMA PublishKeeps ==
  ASSUME AuditInv, NEW e \in Events, Publish(e)
  PROVE  AuditInv'
<1>1. /\ TypeOK /\ PublishedOnce
      /\ \A s \in Subscribers : ConnectionFits(conn[s], bcast, stored)
  BY DEF AuditInv
<1>2. CASE Stamp(e)
  <2>1. \A i \in DOMAIN order : order[i] # e
    BY <1>1, <1>2 DEF PublishedOnce, Stamp
  <2>2. order' = Append(order, e) /\ order \in Seq(Events) /\ Distinct(order)
    BY <1>1, <1>2 DEF PublishedOnce, Stamp, TypeOK
  <2>3. /\ order' \in Seq(Events) /\ Distinct(order')
        /\ \A i \in DOMAIN order : order'[i] = order[i]
        /\ \A i \in DOMAIN order' : i \in DOMAIN order \/ order'[i] = e
    BY <2>1, <2>2, AppendDistinct
  <2>4. TypeOK'
    BY <1>1, <1>2, <2>3 DEF TypeOK, Stamp, PubStates
  <2>5. \A i \in DOMAIN order : order[i] \in Events
    BY <2>2, ElementOfSeq
  <2>6. \A i \in DOMAIN order' : pub'[order'[i]] # "new"
    BY <1>1, <1>2, <2>3, <2>5 DEF PublishedOnce, TypeOK, Stamp
  <2>7. \A f \in Events : pub'[f] \in {"stored", "accepted"} => f \in stored'
    BY <1>1, <1>2 DEF PublishedOnce, TypeOK, Stamp
  <2>8. \A i \in DOMAIN bcast : bcast[i] \in Events
    BY <1>1, ElementOfSeq DEF TypeOK
  <2>9. \A i \in DOMAIN bcast' : pub'[bcast'[i]] = "accepted"
    BY <1>1, <1>2, <2>8 DEF PublishedOnce, TypeOK, Stamp
  <2>10. PublishedOnce'
    BY <1>1, <1>2, <2>3, <2>6, <2>7, <2>9 DEF PublishedOnce, Stamp
  <2> QED  BY <1>1, <1>2, <2>4, <2>10 DEF AuditInv, Stamp
<1>3. CASE Store(e)
  <2>1. TypeOK'
    BY <1>1, <1>3 DEF TypeOK, Store, PubStates
  <2>2. /\ \A i \in DOMAIN order : order[i] \in Events
        /\ \A i \in DOMAIN bcast : bcast[i] \in Events
    BY <1>1, ElementOfSeq DEF TypeOK
  <2>3. PublishedOnce'
    BY <1>1, <1>3, <2>2 DEF PublishedOnce, TypeOK, Store
  <2>4. stored \subseteq stored'
    BY <1>3 DEF Store
  <2>5. \A s \in Subscribers : ConnectionFits(conn[s], bcast, stored')
    BY <1>1, <2>4, StoreMore
  <2> QED  BY <1>3, <2>1, <2>3, <2>5 DEF AuditInv, Store
<1>4. CASE Broadcast(e)
  <2>1. \A i \in DOMAIN bcast : bcast[i] # e
    BY <1>1, <1>4 DEF PublishedOnce, Broadcast
  <2>2. bcast' = Append(bcast, e) /\ bcast \in Seq(Events) /\ Distinct(bcast)
    BY <1>1, <1>4 DEF PublishedOnce, Broadcast, TypeOK
  <2>3. /\ bcast' \in Seq(Events) /\ Distinct(bcast') /\ Len(bcast') = Len(bcast) + 1
        /\ \A i \in DOMAIN bcast : bcast'[i] = bcast[i]
        /\ \A i \in DOMAIN bcast' : i \in DOMAIN bcast \/ bcast'[i] = e
    BY <2>1, <2>2, AppendDistinct
  <2>4. Len(bcast) \in Nat /\ \A s \in Subscribers : conn[s].cursor \in Nat
    BY <1>1 DEF TypeOK, Connections
  <2>5. TypeOK'
    BY <1>1, <1>4, <2>3, <2>4 DEF TypeOK, Broadcast, PubStates
  <2>6. /\ \A i \in DOMAIN order : order[i] \in Events
        /\ \A i \in DOMAIN bcast : bcast[i] \in Events
    BY <1>1, ElementOfSeq DEF TypeOK
  <2>7. \A i \in DOMAIN bcast' : pub'[bcast'[i]] = "accepted"
    BY <1>1, <1>4, <2>3, <2>6 DEF PublishedOnce, TypeOK, Broadcast
  <2>8. PublishedOnce'
    BY <1>1, <1>4, <2>3, <2>6, <2>7 DEF PublishedOnce, TypeOK, Broadcast
  <2>9. \A s \in Subscribers : ConnectionFits(conn[s], bcast', stored)
    BY <1>1, <2>2, BroadcastMore DEF TypeOK
  <2> QED  BY <1>4, <2>5, <2>8, <2>9 DEF AuditInv, Broadcast
<1>5. CASE PublishFails(e)
  <2>1. TypeOK'
    BY <1>1, <1>5 DEF TypeOK, PublishFails, PubStates
  <2>2. /\ \A i \in DOMAIN order : order[i] \in Events
        /\ \A i \in DOMAIN bcast : bcast[i] \in Events
    BY <1>1, ElementOfSeq DEF TypeOK
  <2>3. PublishedOnce'
    BY <1>1, <1>5, <2>2 DEF PublishedOnce, TypeOK, PublishFails
  <2> QED  BY <1>1, <1>5, <2>1, <2>3 DEF AuditInv, PublishFails
<1> QED  BY <1>2, <1>3, <1>4, <1>5 DEF Publish

LEMMA RestartKeeps ==
  ASSUME AuditInv, Restart
  PROVE  AuditInv'
<1>1. TypeOK /\ PublishedOnce
  BY DEF AuditInv
<1>2. \A s \in Subscribers : conn'[s] = Closed
  BY DEF Restart
<1>3. bcast' = << >> /\ << >> \in Seq(Events) /\ Len(<< >>) = 0
  BY DEF Restart
<1>4. TypeOK'
  <2>1. pub' \in [Events -> PubStates]
    BY <1>1 DEF TypeOK, Restart, PubStates
  <2>2. conn' \in [Subscribers -> Connections]
    BY ClosedFits DEF Restart
  <2>3. \A s \in Subscribers : conn'[s].cursor <= Len(bcast') /\ Len(conn'[s].chan) <= ChanCap
    BY <1>2, <1>3, ClosedFits, AuditAssumption
  <2> QED  BY <1>1, <1>3, <2>1, <2>2, <2>3 DEF TypeOK, Restart
<1>5. \A i \in DOMAIN order : order[i] \in Events
  BY <1>1, ElementOfSeq DEF TypeOK
<1>6. PublishedOnce'
  <2>1. Distinct(bcast') /\ \A i \in DOMAIN bcast' : pub'[bcast'[i]] = "accepted"
    BY <1>3 DEF Distinct
  <2>2. /\ \A i \in DOMAIN order : pub'[order[i]] # "new"
        /\ \A f \in Events : pub'[f] \in {"stored", "accepted"} => f \in stored
    BY <1>1, <1>5 DEF PublishedOnce, Restart
  <2> QED  BY <1>1, <2>1, <2>2 DEF PublishedOnce, Restart
<1>7. \A s \in Subscribers : ConnectionFits(conn'[s], bcast', stored')
  BY <1>2, ClosedFits
<1> QED  BY <1>4, <1>6, <1>7 DEF AuditInv

-----------------------------------------------------------------------------
(***************************************************************************)
(* The replay: an enumeration of positions of stored events, and no        *)
(* position twice.                                                         *)
(***************************************************************************)
LEMMA ReplayOfStored ==
  ASSUME TypeOK, PublishedOnce, NEW s \in Subscribers, NEW p \in Recent(s)
  PROVE  LET events == [i \in DOMAIN p |-> order[p[i]]] IN
         events \in Seq(Events) /\ Distinct(events) /\ Elements(events) \subseteq stored
<1> DEFINE n == Cardinality(Wanted(s))
           events == [i \in DOMAIN p |-> order[p[i]]]
<1>1. conn[s].since \in Nat /\ order \in Seq(Events) /\ Len(order) \in Nat
  BY DEF TypeOK, Connections
<1>2. Wanted(s) \subseteq (conn[s].since + 1)..Len(order)
  BY DEF Wanted, Page, Hits
<1>3. \A i \in Wanted(s) : i \in DOMAIN order /\ i \in Int /\ order[i] \in stored
  BY <1>1, <1>2 DEF Wanted, Page, Hits
<1>4. n \in Nat
  <2>1. IsFiniteSet((conn[s].since + 1)..Len(order))
    <3>1. conn[s].since + 1 \in Int /\ Len(order) \in Int
      BY <1>1
    <3> QED  BY <3>1, FS_Interval
  <2>2. IsFiniteSet(Wanted(s))
    BY <1>2, <2>1, FS_Subset
  <2> QED  BY <2>2, FS_CardinalityType
<1>5. p \in [1..n -> Wanted(s)] /\ \A i, j \in DOMAIN p : i < j => p[i] > p[j]
  BY DEF Recent
<1> HIDE DEF n
<1>6. DOMAIN p = 1..n /\ \A i \in 1..n : p[i] \in Wanted(s)
  BY <1>5
<1>7. \A i \in 1..n : order[p[i]] \in Events /\ order[p[i]] \in stored
  BY <1>1, <1>3, <1>6, ElementOfSeq
<1>8. events \in [1..n -> Events] /\ DOMAIN events = 1..n
  BY <1>6, <1>7
<1>9. events \in Seq(Events)
  BY <1>4, <1>8, IsASeq
<1>10. ASSUME NEW i \in 1..n, NEW j \in 1..n, order[p[i]] = order[p[j]] PROVE i = j
  <2>1. p[i] = p[j] /\ p[i] \in Int
    BY <1>3, <1>6, <1>10 DEF PublishedOnce, Distinct
  <2>2. ~(i < j) /\ ~(j < i)
    BY <1>5, <1>6, <2>1
  <2>3. i \in Int /\ j \in Int
    BY <1>4
  <2> QED  BY <2>2, <2>3
<1>11. Distinct(events)
  BY <1>6, <1>10 DEF Distinct
<1>12. Elements(events) \subseteq stored
  BY <1>6, <1>7 DEF Elements
<1> QED  BY <1>9, <1>11, <1>12

\* Removing the head of one sequence and appending it to the one before.
LEMMA MoveHead ==
  ASSUME NEW left \in Seq(Events), NEW right \in Seq(Events), right # << >>
  PROVE  /\ Head(right) \in Events /\ Tail(right) \in Seq(Events)
         /\ Append(left, Head(right)) \in Seq(Events)
         /\ Len(Append(left, Head(right))) = Len(left) + 1 /\ Len(Tail(right)) = Len(right) - 1
         /\ Append(left, Head(right)) \o Tail(right) = left \o right
<1> DEFINE head == Head(right)
           tail == Tail(right)
           more == Append(left, head)
<1>1. /\ head \in Events /\ tail \in Seq(Events) /\ Len(tail) = Len(right) - 1
      /\ \A i \in 1..Len(tail) : tail[i] = right[i + 1]
  BY HeadTailProperties
<1>2. head = right[1] /\ Len(right) \in Nat /\ Len(right) >= 1 /\ Len(left) \in Nat
  OBVIOUS
<1> HIDE DEF head, tail
<1>3. /\ more \in Seq(Events) /\ Len(more) = Len(left) + 1 /\ more[Len(left) + 1] = head
      /\ \A i \in 1..Len(left) : more[i] = left[i]
  BY <1>1, AppendProperties
<1> HIDE DEF more
<1> DEFINE before == left \o right
           after  == more \o tail
           l == Len(left)
           r == Len(right)
<1>4. /\ before \in Seq(Events) /\ Len(before) = l + r
      /\ \A i \in 1..(l + r) : before[i] = IF i <= l THEN left[i] ELSE right[i - l]
  BY ConcatProperties
<1>5. /\ after \in Seq(Events) /\ Len(after) = Len(more) + Len(tail)
      /\ \A i \in 1..(Len(more) + Len(tail)) :
           after[i] = IF i <= Len(more) THEN more[i] ELSE tail[i - Len(more)]
  BY <1>1, <1>3, ConcatProperties
<1>6. l \in Nat /\ r \in Nat /\ r >= 1 /\ Len(more) = l + 1 /\ Len(tail) = r - 1
  BY <1>1, <1>2, <1>3
<1> HIDE DEF before, after, l, r
<1>7. ASSUME NEW i \in 1..(l + r) PROVE after[i] = before[i]
  <2>1. i \in Int /\ i >= 1 /\ i <= l + r /\ i \in 1..(Len(more) + Len(tail))
    BY <1>6
  <2>2. CASE i <= l
    <3>1. before[i] = left[i]
      BY <1>4, <2>2
    <3>2. after[i] = more[i]
      BY <1>5, <1>6, <2>1, <2>2
    <3>3. more[i] = left[i]
      BY <1>3, <2>1, <2>2, <1>6 DEF l
    <3> QED  BY <3>1, <3>2, <3>3
  <2>3. CASE i = l + 1
    <3>1. before[i] = right[1]
      BY <1>4, <1>6, <2>1, <2>3
    <3>2. after[i] = more[i]
      BY <1>5, <1>6, <2>1, <2>3
    <3>3. more[i] = head
      BY <1>3, <2>3 DEF l
    <3> QED  BY <1>2, <3>1, <3>2, <3>3
  <2>4. CASE i > l + 1
    <3> DEFINE k == i - (l + 1)
    <3>1. k \in 1..Len(tail) /\ k + 1 = i - l
      BY <1>6, <2>1, <2>4
    <3>2. after[i] = tail[k]
      BY <1>5, <1>6, <2>1, <2>4
    <3>3. before[i] = right[i - l]
      BY <1>4, <1>6, <2>1, <2>4
    <3> HIDE DEF k
    <3>4. tail[k] = right[k + 1]
      BY <1>1, <3>1
    <3> QED  BY <3>1, <3>2, <3>3, <3>4
  <2> QED  BY <1>6, <2>1, <2>2, <2>3, <2>4
<1>8. after = before
  <2>1. Len(after) = l + r
    BY <1>5, <1>6
  <2> QED  BY <1>4, <1>5, <1>7, <2>1, SeqEqual
<1>9. head \in Events /\ tail \in Seq(Events) /\ more \in Seq(Events)
      /\ Len(more) = Len(left) + 1 /\ Len(tail) = Len(right) - 1 /\ more \o tail = left \o right
  BY <1>1, <1>3, <1>8 DEF after, before
<1> QED  BY <1>9 DEF more, head, tail

LEMMA ConnectionParts ==
  ASSUME AuditInv, NEW s \in Subscribers
  PROVE  LET c == conn[s] IN
         /\ c \in Connections /\ ConnectionFits(c, bcast, stored)
         /\ c.filter \in Filters \cup {{}} /\ c.since \in Nat /\ c.pending \in Seq(Events)
         /\ c.chan \in Seq(Events) /\ c.cursor \in Nat /\ c.held \in Events \cup {None}
         /\ c.replayed \in Seq(Events) /\ c.start \in Nat /\ c.got \in Seq(Events)
         /\ c.cursor <= Len(bcast) /\ Len(c.chan) <= ChanCap
BY DEF AuditInv, TypeOK, Connections

LEMMA OpenKeeps ==
  ASSUME AuditInv, NEW s \in Subscribers, Open(s)
  PROVE  AuditInv'
<1>1. order \in Seq(Events) /\ Len(order) \in Nat /\ Len(bcast) \in Nat
  BY DEF AuditInv, TypeOK
<1>2. PICK f \in Filters, t \in 0..(Len(order) + 1) :
        conn' = [conn EXCEPT ![s] = [Closed EXCEPT !.phase = "query", !.filter = f, !.since = t]]
  BY DEF Open
<1> DEFINE new == [Closed EXCEPT !.phase = "query", !.filter = f, !.since = t]
<1>3. new \in Connections /\ new.cursor = 0 /\ Len(new.chan) = 0
  <2>1. f \in Filters \cup {{}} /\ t \in Nat /\ "query" \in Phases
    BY <1>1 DEF Phases
  <2>2. new \in Connections
    BY <2>1, ClosedFits DEF Connections
  <2> QED  BY <2>2 DEF Closed
<1>4. /\ new.phase = "query" /\ new.got = << >> /\ new.chan = << >> /\ new.held = None
      /\ new.pending = << >> /\ new.replayed = << >>
  BY DEF Closed
<1> HIDE DEF new
<1>5. Distinct(<< >>) /\ Elements(<< >>) \subseteq stored
  BY DEF Distinct, Elements
<1>6. ConnectionFits(new, bcast, stored)
  BY <1>4, <1>5 DEF ConnectionFits
<1>7. new.cursor <= Len(bcast) /\ Len(new.chan) <= ChanCap
  BY <1>1, <1>3, AuditAssumption
<1>8. conn' = [conn EXCEPT ![s] = new]
  BY <1>2 DEF new
<1> QED  BY <1>3, <1>6, <1>7, <1>8, ConnectionStep DEF Open

LEMMA ReadRecentKeeps ==
  ASSUME AuditInv, NEW s \in Subscribers, ReadRecent(s)
  PROVE  AuditInv'
<1> DEFINE c == conn[s]
<1>1. PICK p \in Recent(s) :
        LET events == [i \in DOMAIN p |-> order[p[i]]] IN
        conn' = [conn EXCEPT ![s].phase = "replay", ![s].pending = events, ![s].replayed = events]
  BY DEF ReadRecent
<1> DEFINE events == [i \in DOMAIN p |-> order[p[i]]]
<1>2. events \in Seq(Events) /\ Distinct(events) /\ Elements(events) \subseteq stored
  BY ReplayOfStored DEF AuditInv
<1>3. conn' = [conn EXCEPT ![s].phase = "replay", ![s].pending = events, ![s].replayed = events]
  BY <1>1
<1> HIDE DEF events
<1> DEFINE new == [c EXCEPT !.phase = "replay", !.pending = events, !.replayed = events]
<1>4. /\ c \in Connections /\ c.cursor <= Len(bcast) /\ Len(c.chan) <= ChanCap
      /\ c.got = << >> /\ c.chan = << >> /\ c.held = None
  BY ConnectionParts DEF ReadRecent, ConnectionFits
<1>5. conn' = [conn EXCEPT ![s] = new]
  BY <1>3
<1>6. /\ new \in Connections /\ new.cursor = c.cursor /\ new.chan = c.chan
      /\ new.phase = "replay" /\ new.got = c.got /\ new.held = c.held
      /\ new.pending = events /\ new.replayed = events
  BY <1>2, <1>4 DEF Connections, Phases
<1> HIDE DEF new
<1>7. << >> \o events = events
  BY <1>2, ConcatEmptySeq
<1>8. ConnectionFits(new, bcast, stored)
  BY <1>2, <1>4, <1>6, <1>7 DEF ConnectionFits
<1> QED  BY <1>4, <1>5, <1>6, <1>8, ConnectionStep DEF ReadRecent

LEMMA SendReplayKeeps ==
  ASSUME AuditInv, NEW s \in Subscribers, SendReplay(s)
  PROVE  AuditInv'
<1> DEFINE c == conn[s]
           new == [c EXCEPT !.chan = Append(c.chan, Head(c.pending)), !.pending = Tail(c.pending)]
<1>1. /\ c \in Connections /\ c.chan \in Seq(Events) /\ c.pending \in Seq(Events)
      /\ c.cursor <= Len(bcast) /\ c.pending # << >> /\ Len(c.chan) < ChanCap
      /\ c.phase = "replay" /\ ConnectionFits(c, bcast, stored)
  BY ConnectionParts DEF SendReplay
<1>2. /\ Tail(c.pending) \in Seq(Events) /\ Append(c.chan, Head(c.pending)) \in Seq(Events)
      /\ Len(Append(c.chan, Head(c.pending))) = Len(c.chan) + 1
      /\ Append(c.chan, Head(c.pending)) \o Tail(c.pending) = c.chan \o c.pending
  BY <1>1, MoveHead
<1>3. conn' = [conn EXCEPT ![s] = new]
  BY DEF SendReplay
<1>4. /\ new \in Connections /\ new.cursor = c.cursor /\ new.phase = "replay"
      /\ new.chan = Append(c.chan, Head(c.pending)) /\ new.pending = Tail(c.pending)
      /\ new.got = c.got /\ new.held = c.held /\ new.replayed = c.replayed
  BY <1>1, <1>2 DEF Connections
<1> HIDE DEF new
<1>5. ConnectionFits(new, bcast, stored)
  BY <1>1, <1>2, <1>4 DEF ConnectionFits
<1>6. Len(new.chan) <= ChanCap
  BY <1>1, <1>2, <1>4, AuditAssumption
<1> QED  BY <1>1, <1>3, <1>4, <1>5, <1>6, ConnectionStep DEF SendReplay

\* broadcast.subscribe(): what the stream carries at that moment is the replay.
LEMMA SubscribeCarries ==
  ASSUME AuditInv, NEW s \in Subscribers, Subscribe(s)
  PROVE  \E new \in Connections :
           /\ conn' = [conn EXCEPT ![s] = new] /\ UNCHANGED <<pub, order, stored, bcast>>
           /\ new.cursor = Len(bcast) /\ new.start = Len(bcast) /\ Len(bcast) \in Nat
           /\ new.phase = "live" /\ new.pending = << >> /\ Len(new.chan) <= ChanCap
           /\ new.replayed = conn[s].replayed /\ CarriedBy(new) = new.replayed
           /\ new.replayed \in Seq(Events)
<1> DEFINE c == conn[s]
           new == [c EXCEPT !.phase = "live", !.cursor = Len(bcast), !.start = Len(bcast)]
<1>1. /\ c \in Connections /\ c.chan \in Seq(Events) /\ c.replayed \in Seq(Events)
      /\ Len(c.chan) <= ChanCap /\ c.pending = << >> /\ c.phase = "replay"
      /\ ConnectionFits(c, bcast, stored)
  BY ConnectionParts DEF Subscribe
<1>2. Len(bcast) \in Nat
  BY DEF AuditInv, TypeOK
<1>3. conn' = [conn EXCEPT ![s] = new] /\ UNCHANGED <<pub, order, stored, bcast>>
  BY DEF Subscribe
<1>4. /\ new \in Connections /\ new.cursor = Len(bcast) /\ new.start = Len(bcast)
      /\ new.phase = "live" /\ new.chan = c.chan /\ new.pending = c.pending
      /\ new.got = c.got /\ new.held = c.held /\ new.replayed = c.replayed
  BY <1>1, <1>2 DEF Connections, Phases
<1> HIDE DEF new
<1>5. c.got = << >> /\ c.held = None /\ c.replayed = c.chan
  BY <1>1, ConcatEmptySeq DEF ConnectionFits
<1>6. CarriedBy(new) = new.replayed
  <2>1. << >> \o c.chan = c.chan /\ c.chan \o << >> = c.chan
    BY <1>1, ConcatEmptySeq
  <2> QED  BY <1>4, <1>5, <2>1 DEF CarriedBy
<1> QED  BY <1>1, <1>2, <1>3, <1>4, <1>6

LEMMA SubscribeKeeps ==
  ASSUME AuditInv, NEW s \in Subscribers, Subscribe(s)
  PROVE  AuditInv'
<1>1. PICK new \in Connections :
        /\ conn' = [conn EXCEPT ![s] = new] /\ UNCHANGED <<pub, order, stored, bcast>>
        /\ new.cursor = Len(bcast) /\ new.start = Len(bcast) /\ Len(bcast) \in Nat
        /\ new.phase = "live" /\ new.pending = << >> /\ Len(new.chan) <= ChanCap
        /\ new.replayed = conn[s].replayed /\ CarriedBy(new) = new.replayed
        /\ new.replayed \in Seq(Events)
  BY SubscribeCarries
<1>2. ReplayThen(CarriedBy(new), new.replayed, Received(new, bcast))
  BY <1>1, ReplayAlone
<1>3. Distinct(new.replayed) /\ Elements(new.replayed) \subseteq stored
  BY <1>1, ConnectionParts DEF ConnectionFits
<1>4. ConnectionFits(new, bcast, stored)
  BY <1>1, <1>2, <1>3 DEF ConnectionFits
<1>5. new.cursor <= Len(bcast)
  BY <1>1
<1> QED  BY <1>1, <1>4, <1>5, ConnectionStep

-----------------------------------------------------------------------------
\* The connection of a stream that has gone live.
LEMMA ForwardingParts ==
  ASSUME AuditInv, NEW s \in Subscribers, conn[s].phase \in {"live", "gone"}
  PROVE  LET c == conn[s] IN
         /\ Distinct(c.replayed) /\ Elements(c.replayed) \subseteq stored
         /\ c.pending = << >> /\ c.start <= c.cursor
         /\ ReplayThen(CarriedBy(c), c.replayed, Received(c, bcast))
BY ConnectionParts DEF ConnectionFits

\* recv() returns the next event of the log: it is held unless the filter drops it.
LEMMA RecvCarries ==
  ASSUME AuditInv, NEW s \in Subscribers, Recv(s)
  PROVE  LET c == conn[s]
             e == bcast[c.cursor + 1] IN
         /\ c.phase \in {"live", "gone"} /\ c.cursor + 1 \in DOMAIN bcast /\ e \in Events
         /\ CarriedBy(c) \in Seq(Events)
         /\ \E new \in Connections :
              /\ conn' = [conn EXCEPT ![s] = new]
              /\ new.cursor = c.cursor + 1 /\ new.phase = c.phase /\ new.chan = c.chan
              /\ new.start = c.start /\ new.pending = c.pending /\ new.replayed = c.replayed
              /\ new.filter = c.filter /\ new.lagged = c.lagged
              /\ CarriedBy(new) = IF Passes(s, e) THEN Append(CarriedBy(c), e) ELSE CarriedBy(c)
<1> DEFINE c == conn[s]
           e == bcast[c.cursor + 1]
           kept == IF Passes(s, e) THEN e ELSE None
           new == [c EXCEPT !.cursor = c.cursor + 1, !.held = kept]
<1>1. /\ c \in Connections /\ c.chan \in Seq(Events) /\ c.got \in Seq(Events)
      /\ c.cursor \in Nat /\ c.cursor <= Len(bcast)
  BY ConnectionParts
<1>2. c.phase \in {"live", "gone"} /\ c.held = None /\ Len(bcast) - c.cursor >= 1
  BY DEF Recv, Forwarding, Behind
<1>3. bcast \in Seq(Events) /\ Len(bcast) \in Nat
  BY DEF AuditInv, TypeOK
<1>4. c.cursor + 1 \in DOMAIN bcast /\ e \in Events /\ e # None
  <2>1. c.cursor + 1 \in 1..Len(bcast)
    BY <1>1, <1>2, <1>3
  <2> QED  BY <1>3, <2>1, ElementOfSeq, AuditAssumption
<1>5. conn' = [conn EXCEPT ![s] = new]
  BY DEF Recv
<1>6. kept \in Events \cup {None} /\ c.cursor + 1 \in Nat
  BY <1>1, <1>4
<1> HIDE DEF e, kept
<1>7. /\ new \in Connections /\ new.cursor = c.cursor + 1 /\ new.held = kept
      /\ new.phase = c.phase /\ new.chan = c.chan /\ new.got = c.got /\ new.start = c.start
      /\ new.pending = c.pending /\ new.replayed = c.replayed
      /\ new.filter = c.filter /\ new.lagged = c.lagged
  BY <1>1, <1>6 DEF Connections
<1> HIDE DEF new
<1>8. c.got \o c.chan \in Seq(Events) /\ CarriedBy(c) = c.got \o c.chan
  <2>1. c.got \o c.chan \in Seq(Events)
    BY <1>1, ConcatProperties
  <2> QED  BY <1>2, <2>1, ConcatEmptySeq DEF CarriedBy
<1>9. CarriedBy(new) = IF Passes(s, e) THEN Append(CarriedBy(c), e) ELSE CarriedBy(c)
  <2>1. CASE ~Passes(s, e)
    <3>1. CarriedBy(new) = CarriedBy(c)
      BY <1>2, <1>7, <2>1 DEF CarriedBy, kept
    <3> QED  BY <2>1, <3>1
  <2>2. CASE Passes(s, e)
    <3>1. kept = e
      BY <2>2 DEF kept
    <3>2. CarriedBy(new) = (c.got \o c.chan) \o <<e>>
      BY <1>4, <1>7, <3>1 DEF CarriedBy
    <3>3. Append(c.got \o c.chan, e) = (c.got \o c.chan) \o <<e>>
      BY <1>4, <1>8, AppendIsConcat
    <3> QED  BY <1>8, <2>2, <3>2, <3>3
  <2> QED  BY <2>1, <2>2
<1> QED  BY <1>2, <1>4, <1>5, <1>7, <1>8, <1>9 DEF e

LEMMA RecvKeeps ==
  ASSUME AuditInv, NEW s \in Subscribers, Recv(s)
  PROVE  AuditInv'
<1> DEFINE c == conn[s]
           e == bcast[c.cursor + 1]
<1>1. /\ c.phase \in {"live", "gone"} /\ c.cursor + 1 \in DOMAIN bcast /\ e \in Events
      /\ CarriedBy(c) \in Seq(Events)
  BY RecvCarries
<1>2. PICK new \in Connections :
        /\ conn' = [conn EXCEPT ![s] = new]
        /\ new.cursor = c.cursor + 1 /\ new.phase = c.phase /\ new.chan = c.chan
        /\ new.start = c.start /\ new.pending = c.pending /\ new.replayed = c.replayed
        /\ CarriedBy(new) = IF Passes(s, e) THEN Append(CarriedBy(c), e) ELSE CarriedBy(c)
  BY RecvCarries
<1>3. /\ Distinct(c.replayed) /\ Elements(c.replayed) \subseteq stored
      /\ c.pending = << >> /\ c.start <= c.cursor
      /\ ReplayThen(CarriedBy(c), c.replayed, Received(c, bcast))
  BY <1>1, ForwardingParts
<1>4. /\ c.replayed \in Seq(Events) /\ c.cursor \in Nat /\ c.start \in Nat
      /\ Len(c.chan) <= ChanCap
      /\ bcast \in Seq(Events) /\ Len(bcast) \in Nat /\ Distinct(bcast)
  BY ConnectionParts DEF AuditInv, TypeOK, PublishedOnce
<1>5. \A k \in (c.start + 1)..c.cursor : bcast[k] # e
  <2>1. \A k \in (c.start + 1)..c.cursor : k \in DOMAIN bcast /\ k # c.cursor + 1
    BY <1>1, <1>4
  <2> QED  BY <1>1, <1>4, <2>1 DEF Distinct
<1> DEFINE old  == Received(c, bcast)
           more == Received(new, bcast)
<1>6. old \subseteq more /\ e \in more /\ e \notin old
  <2>1. \A k \in (c.start + 1)..c.cursor : k \in (c.start + 1)..(c.cursor + 1)
    BY <1>4
  <2>2. c.cursor + 1 \in (c.start + 1)..(c.cursor + 1)
    BY <1>3, <1>4
  <2> QED  BY <1>2, <1>5, <2>1, <2>2 DEF Received
<1> HIDE DEF e, old, more
<1>7. ReplayThen(CarriedBy(new), c.replayed, more)
  <2>1. ReplayThen(CarriedBy(c), c.replayed, old)
    BY <1>3 DEF old
  <2>2. CASE ~Passes(s, e)
    BY <1>2, <1>6, <2>1, <2>2, ReceiveMore DEF e
  <2>3. CASE Passes(s, e)
    <3>1. ReplayThen(Append(CarriedBy(c), e), c.replayed, more)
      BY <1>1, <1>4, <1>6, <2>1, AppendEvent DEF e
    <3> QED  BY <1>2, <2>3, <3>1 DEF e
  <2> QED  BY <2>2, <2>3
<1>8. new.start <= new.cursor /\ new.cursor <= Len(bcast) /\ Len(new.chan) <= ChanCap
  BY <1>1, <1>2, <1>3, <1>4
<1>9. ConnectionFits(new, bcast, stored)
  <2>1. new.phase \notin {"off", "query", "replay"} /\ new.pending = << >>
    BY <1>1, <1>2, <1>3
  <2>2. ReplayThen(CarriedBy(new), new.replayed, Received(new, bcast))
    BY <1>2, <1>7 DEF more
  <2> QED  BY <1>2, <1>3, <1>8, <2>1, <2>2 DEF ConnectionFits
<1>10. UNCHANGED <<pub, order, stored, bcast>>
  BY DEF Recv
<1> QED  BY <1>2, <1>8, <1>9, <1>10, ConnectionStep

LEMMA LagKeeps ==
  ASSUME AuditInv, NEW s \in Subscribers, Lag(s)
  PROVE  AuditInv'
<1> DEFINE c == conn[s]
           to == Len(bcast) - BroadcastCap
           new == [c EXCEPT !.cursor = to, !.lagged = TRUE]
<1>1. /\ c \in Connections /\ c.cursor \in Nat /\ c.start \in Nat
      /\ c.cursor <= Len(bcast) /\ Len(c.chan) <= ChanCap
  BY ConnectionParts
<1>2. c.phase \in {"live", "gone"} /\ Len(bcast) - c.cursor > BroadcastCap
  BY DEF Lag, Forwarding, Behind
<1>3. /\ Distinct(c.replayed) /\ Elements(c.replayed) \subseteq stored
      /\ c.pending = << >> /\ c.start <= c.cursor
      /\ ReplayThen(CarriedBy(c), c.replayed, Received(c, bcast))
  BY <1>2, ForwardingParts
<1>4. Len(bcast) \in Nat
  BY DEF AuditInv, TypeOK
<1>5. to \in Nat /\ c.cursor <= to /\ to <= Len(bcast)
  BY <1>1, <1>2, <1>4, AuditAssumption
<1>6. conn' = [conn EXCEPT ![s] = new]
  BY DEF Lag
<1> HIDE DEF to
<1>7. /\ new \in Connections /\ new.cursor = to /\ new.held = c.held
      /\ new.phase = c.phase /\ new.chan = c.chan /\ new.got = c.got /\ new.start = c.start
      /\ new.pending = c.pending /\ new.replayed = c.replayed
  BY <1>1, <1>5 DEF Connections
<1> HIDE DEF new
<1>8. Received(c, bcast) \subseteq Received(new, bcast)
  <2>1. \A k \in (c.start + 1)..c.cursor : k \in (c.start + 1)..to
    BY <1>1, <1>5
  <2> QED  BY <1>7, <2>1 DEF Received
<1>9. ReplayThen(CarriedBy(new), new.replayed, Received(new, bcast))
  <2>1. CarriedBy(new) = CarriedBy(c)
    BY <1>7 DEF CarriedBy
  <2> QED  BY <1>3, <1>7, <1>8, <2>1, ReceiveMore
<1>10. new.start <= new.cursor /\ new.cursor <= Len(bcast) /\ Len(new.chan) <= ChanCap
  BY <1>1, <1>3, <1>5, <1>7
<1>11. new.phase \notin {"off", "query", "replay"} /\ new.pending = << >>
  BY <1>2, <1>3, <1>7
<1>12. ConnectionFits(new, bcast, stored)
  BY <1>3, <1>7, <1>9, <1>10, <1>11 DEF ConnectionFits
<1>13. UNCHANGED <<pub, order, stored, bcast>>
  BY DEF Lag
<1> QED  BY <1>6, <1>7, <1>10, <1>12, <1>13, ConnectionStep

\* The same stream as before: it carries what it carried, perhaps further along.
SameStream(c, new) ==
  /\ CarriedBy(new) = CarriedBy(c) /\ new.cursor = c.cursor /\ new.start = c.start
  /\ new.pending = c.pending /\ new.replayed = c.replayed
  /\ new.filter = c.filter /\ new.lagged = c.lagged

LEMMA CarryOn ==
  ASSUME AuditInv, NEW s \in Subscribers, conn[s].phase \in {"live", "gone"},
         NEW new \in Connections, SameStream(conn[s], new),
         new.phase \in {"live", "gone"}, Len(new.chan) <= ChanCap,
         conn' = [conn EXCEPT ![s] = new], UNCHANGED <<pub, order, stored, bcast>>
  PROVE  AuditInv'
<1>1. /\ Distinct(new.replayed) /\ Elements(new.replayed) \subseteq stored
      /\ new.pending = << >> /\ new.start <= new.cursor
      /\ ReplayThen(CarriedBy(new), new.replayed, Received(conn[s], bcast))
  BY ForwardingParts DEF SameStream
<1>2. Received(new, bcast) = Received(conn[s], bcast)
  BY DEF Received, SameStream
<1>3. new.phase \notin {"off", "query", "replay"}
  OBVIOUS
<1>4. ConnectionFits(new, bcast, stored)
  BY <1>1, <1>2, <1>3 DEF ConnectionFits
<1>5. new.cursor <= Len(bcast)
  BY ConnectionParts DEF SameStream
<1> QED  BY <1>4, <1>5, ConnectionStep

\* The forwarding task hands the event it holds to the channel.
LEMMA ForwardCarries ==
  ASSUME AuditInv, NEW s \in Subscribers, Forward(s)
  PROVE  /\ conn[s].phase = "live"
         /\ \E new \in Connections :
              /\ conn' = [conn EXCEPT ![s] = new] /\ UNCHANGED <<pub, order, stored, bcast>>
              /\ SameStream(conn[s], new) /\ new.phase = "live" /\ Len(new.chan) <= ChanCap
<1> DEFINE c == conn[s]
           new == [c EXCEPT !.chan = Append(c.chan, c.held), !.held = None]
<1>1. /\ c \in Connections /\ c.chan \in Seq(Events) /\ c.got \in Seq(Events)
      /\ c.held \in Events /\ c.phase = "live" /\ Len(c.chan) < ChanCap /\ c.held # None
  BY ConnectionParts DEF Forward
<1>2. conn' = [conn EXCEPT ![s] = new] /\ UNCHANGED <<pub, order, stored, bcast>>
  BY DEF Forward
<1>3. /\ Append(c.chan, c.held) \in Seq(Events) /\ Len(Append(c.chan, c.held)) = Len(c.chan) + 1
      /\ Append(c.chan, c.held) = c.chan \o <<c.held>>
  <2> DEFINE chan == c.chan
             held == c.held
  <2>1. chan \in Seq(Events) /\ held \in Events
    BY <1>1
  <2> HIDE DEF chan, held
  <2>2. Append(chan, held) \in Seq(Events) /\ Len(Append(chan, held)) = Len(chan) + 1
    BY <2>1, AppendProperties
  <2>3. Append(chan, held) = chan \o <<held>>
    BY <2>1, AppendIsConcat
  <2> QED  BY <2>2, <2>3 DEF chan, held
<1>4. /\ new \in Connections /\ new.cursor = c.cursor /\ new.held = None /\ new.got = c.got
      /\ new.phase = "live" /\ new.chan = Append(c.chan, c.held) /\ new.start = c.start
      /\ new.pending = c.pending /\ new.replayed = c.replayed
      /\ new.filter = c.filter /\ new.lagged = c.lagged
  BY <1>1, <1>3 DEF Connections
<1> HIDE DEF new
<1>5. CarriedBy(new) = CarriedBy(c)
  <2>1. <<c.held>> \in Seq(Events) /\ c.got \o (c.chan \o <<c.held>>) \in Seq(Events)
    BY <1>1, <1>3, ConcatProperties
  <2>2. CarriedBy(new) = c.got \o (c.chan \o <<c.held>>)
    BY <1>3, <1>4, <2>1, ConcatEmptySeq DEF CarriedBy
  <2>3. CarriedBy(c) = (c.got \o c.chan) \o <<c.held>>
    BY <1>1 DEF CarriedBy
  <2>4. (c.got \o c.chan) \o <<c.held>> = c.got \o (c.chan \o <<c.held>>)
    <3> DEFINE got == c.got
               chan == c.chan
               last == <<c.held>>
    <3>1. got \in Seq(Events) /\ chan \in Seq(Events) /\ last \in Seq(Events)
      BY <1>1, <2>1
    <3> HIDE DEF got, chan, last
    <3>2. (got \o chan) \o last = got \o (chan \o last)
      BY <3>1, ConcatAssociative
    <3> QED  BY <3>2 DEF got, chan, last
  <2> QED  BY <2>2, <2>3, <2>4
<1>6. Len(new.chan) <= ChanCap
  BY <1>1, <1>3, <1>4, AuditAssumption
<1> QED  BY <1>1, <1>2, <1>4, <1>5, <1>6 DEF SameStream

\* The client takes the next event out of the channel.
LEMMA DrainCarries ==
  ASSUME AuditInv, NEW s \in Subscribers, Drain(s)
  PROVE  /\ conn[s].phase = "live"
         /\ \E new \in Connections :
              /\ conn' = [conn EXCEPT ![s] = new] /\ UNCHANGED <<pub, order, stored, bcast>>
              /\ SameStream(conn[s], new) /\ new.phase = "live" /\ Len(new.chan) <= ChanCap
<1> DEFINE c == conn[s]
           new == [c EXCEPT !.got = Append(c.got, Head(c.chan)), !.chan = Tail(c.chan)]
<1>1. /\ c \in Connections /\ c.chan \in Seq(Events) /\ c.got \in Seq(Events)
      /\ c.phase = "live" /\ Len(c.chan) <= ChanCap /\ c.chan # << >>
  BY ConnectionParts DEF Drain
<1>2. conn' = [conn EXCEPT ![s] = new] /\ UNCHANGED <<pub, order, stored, bcast>>
  BY DEF Drain
<1>3. /\ Tail(c.chan) \in Seq(Events) /\ Append(c.got, Head(c.chan)) \in Seq(Events)
      /\ Len(Tail(c.chan)) = Len(c.chan) - 1
      /\ Append(c.got, Head(c.chan)) \o Tail(c.chan) = c.got \o c.chan
  BY <1>1, MoveHead
<1>4. /\ new \in Connections /\ new.cursor = c.cursor /\ new.held = c.held
      /\ new.got = Append(c.got, Head(c.chan)) /\ new.chan = Tail(c.chan)
      /\ new.phase = "live" /\ new.start = c.start
      /\ new.pending = c.pending /\ new.replayed = c.replayed
      /\ new.filter = c.filter /\ new.lagged = c.lagged
  BY <1>1, <1>3 DEF Connections
<1> HIDE DEF new
<1>5. CarriedBy(new) = CarriedBy(c)
  BY <1>3, <1>4 DEF CarriedBy
<1>6. Len(new.chan) <= ChanCap
  BY <1>1, <1>3, <1>4, AuditAssumption
<1> QED  BY <1>1, <1>2, <1>4, <1>5, <1>6 DEF SameStream

\* A connection that is dropped.
LEMMA CloseKeeps ==
  ASSUME AuditInv, NEW s \in Subscribers, conn' = [conn EXCEPT ![s] = Closed],
         UNCHANGED <<pub, order, stored, bcast>>
  PROVE  AuditInv'
<1>1. Len(bcast) \in Nat
  BY DEF AuditInv, TypeOK
<1>2. Closed.cursor <= Len(bcast) /\ Len(Closed.chan) <= ChanCap
  BY <1>1, ClosedFits, AuditAssumption
<1> QED  BY <1>2, ClosedFits, ConnectionStep

\* The client of a live stream goes away: the forwarding task carries on.
LEMMA DisconnectCarries ==
  ASSUME AuditInv, NEW s \in Subscribers, Disconnect(s), conn[s].phase = "live"
  PROVE  \E new \in Connections :
           /\ conn' = [conn EXCEPT ![s] = new] /\ UNCHANGED <<pub, order, stored, bcast>>
           /\ SameStream(conn[s], new) /\ new.phase = "gone" /\ Len(new.chan) <= ChanCap
<1> DEFINE c == conn[s]
           new == [c EXCEPT !.phase = "gone"]
<1>1. conn' = [conn EXCEPT ![s] = new] /\ UNCHANGED <<pub, order, stored, bcast>>
  BY DEF Disconnect
<1>2. c \in Connections /\ Len(c.chan) <= ChanCap
  BY ConnectionParts
<1>3. /\ new \in Connections /\ new.cursor = c.cursor /\ new.held = c.held
      /\ new.got = c.got /\ new.chan = c.chan /\ new.phase = "gone" /\ new.start = c.start
      /\ new.pending = c.pending /\ new.replayed = c.replayed
      /\ new.filter = c.filter /\ new.lagged = c.lagged
  BY <1>2 DEF Connections, Phases
<1> HIDE DEF new
<1>4. SameStream(c, new)
  BY <1>3 DEF CarriedBy, SameStream
<1> QED  BY <1>1, <1>2, <1>3, <1>4

LEMMA DisconnectCloses ==
  ASSUME NEW s \in Subscribers, Disconnect(s), conn[s].phase # "live"
  PROVE  conn' = [conn EXCEPT ![s] = Closed] /\ UNCHANGED <<pub, order, stored, bcast>>
BY DEF Disconnect

LEMMA DisconnectKeeps ==
  ASSUME AuditInv, NEW s \in Subscribers, Disconnect(s)
  PROVE  AuditInv'
<1>1. CASE conn[s].phase = "live"
  BY <1>1, DisconnectCarries, CarryOn
<1>2. CASE conn[s].phase # "live"
  BY <1>2, DisconnectCloses, CloseKeeps
<1> QED  BY <1>1, <1>2

LEMMA StepAuditInv ==
  ASSUME AuditInv, [Next]_vars
  PROVE  AuditInv'
<1>1. CASE \E e \in Events : Publish(e)
  BY <1>1, PublishKeeps
<1>2. CASE \E s \in Subscribers : Stream(s)
  <2>1. PICK s \in Subscribers : Stream(s)
    BY <1>2
  <2>2. CASE Open(s)
    BY <2>2, OpenKeeps
  <2>3. CASE ReadRecent(s)
    BY <2>3, ReadRecentKeeps
  <2>4. CASE SendReplay(s)
    BY <2>4, SendReplayKeeps
  <2>5. CASE Subscribe(s)
    BY <2>5, SubscribeKeeps
  <2>6. CASE Recv(s)
    BY <2>6, RecvKeeps
  <2>7. CASE Lag(s)
    BY <2>7, LagKeeps
  <2>8. CASE Forward(s)
    BY <2>8, ForwardCarries, CarryOn
  <2>9. CASE SendFails(s)
    BY <2>9, CloseKeeps DEF SendFails
  <2>10. CASE Drain(s)
    BY <2>10, DrainCarries, CarryOn
  <2>11. CASE Disconnect(s)
    BY <2>11, DisconnectKeeps
  <2> QED
    BY <2>1, <2>2, <2>3, <2>4, <2>5, <2>6, <2>7, <2>8, <2>9, <2>10, <2>11 DEF Stream, Serve
<1>3. CASE Restart
  BY <1>3, RestartKeeps
<1>4. CASE UNCHANGED vars
  <2>1. UNCHANGED <<pub, order, stored, bcast, conn>>
    BY <1>4 DEF vars
  <2>2. TypeOK'
    BY <2>1 DEF AuditInv, TypeOK
  <2>3. PublishedOnce'
    BY <2>1 DEF AuditInv, PublishedOnce
  <2>4. \A s \in Subscribers : ConnectionFits(conn'[s], bcast', stored')
    BY <2>1 DEF AuditInv
  <2> QED  BY <2>2, <2>3, <2>4 DEF AuditInv
<1> QED  BY <1>1, <1>2, <1>3, <1>4 DEF Next

LEMMA InitAuditInv == Init => AuditInv
<1> SUFFICES ASSUME Init PROVE AuditInv
  OBVIOUS
<1>1. TypeOK
  <2>1. /\ pub \in [Events -> PubStates] /\ order \in Seq(Events)
        /\ stored \subseteq Events /\ bcast \in Seq(Events)
    BY DEF Init, PubStates
  <2>2. conn \in [Subscribers -> Connections]
    BY ClosedFits DEF Init
  <2>3. \A s \in Subscribers : conn[s].cursor <= Len(bcast) /\ Len(conn[s].chan) <= ChanCap
    <3>1. Len(bcast) = 0 /\ \A s \in Subscribers : conn[s] = Closed
      BY DEF Init
    <3> QED  BY <3>1, ClosedFits, AuditAssumption
  <2> QED  BY <2>1, <2>2, <2>3 DEF TypeOK
<1>2. PublishedOnce
  <2>1. order = << >> /\ bcast = << >> /\ \A e \in Events : pub[e] = "new"
    BY DEF Init
  <2> QED  BY <2>1 DEF PublishedOnce, Distinct
<1>3. \A s \in Subscribers : ConnectionFits(conn[s], bcast, stored)
  BY ClosedFits DEF Init
<1> QED  BY <1>1, <1>2, <1>3 DEF AuditInv

-----------------------------------------------------------------------------
(***************************************************************************)
(* What the invariant says of everything on its way to one subscriber.     *)
(***************************************************************************)
LEMMA CarriedParts ==
  ASSUME AuditInv, NEW s \in Subscribers
  PROVE  LET c == conn[s] IN
         /\ Carried(s) = CarriedBy(c) /\ Carried(s) \in Seq(Events)
         /\ c.phase \in {"off", "query"} => Carried(s) = << >> /\ c.pending = << >>
         /\ c.phase = "replay" => Carried(s) = c.chan
<1> DEFINE c == conn[s]
           last == HeldBy(s)
<1>1. /\ c.chan \in Seq(Events) /\ c.got \in Seq(Events) /\ c.held \in Events \cup {None}
      /\ ConnectionFits(c, bcast, stored)
  BY ConnectionParts
<1>2. last \in Seq(Events) /\ (c.held = None => last = << >>)
  <2>1. CASE c.held = None
    BY <2>1 DEF HeldBy
  <2>2. CASE c.held # None
    BY <1>1, <2>2 DEF HeldBy
  <2> QED  BY <2>1, <2>2
<1>3. Carried(s) = (c.got \o c.chan) \o last /\ Carried(s) = CarriedBy(c)
  BY DEF Carried, CarriedBy, HeldBy
<1> HIDE DEF last
<1>4. c.got \o c.chan \in Seq(Events) /\ (c.got \o c.chan) \o last \in Seq(Events)
  BY <1>1, <1>2, ConcatProperties
<1>5. CASE c.phase \in {"off", "query"}
  <2>1. c.got = << >> /\ c.chan = << >> /\ last = << >> /\ c.pending = << >>
    BY <1>1, <1>2, <1>5 DEF ConnectionFits
  <2>2. << >> \o << >> = << >>
    BY ConcatEmptySeq, EmptySeq
  <2> QED  BY <1>3, <1>4, <1>5, <2>1, <2>2
<1>6. CASE c.phase = "replay"
  <2>1. c.got = << >> /\ last = << >>
    BY <1>1, <1>2, <1>6 DEF ConnectionFits
  <2>2. << >> \o c.chan = c.chan /\ c.chan \o << >> = c.chan
    BY <1>1, ConcatEmptySeq
  <2> QED  BY <1>3, <1>4, <1>6, <2>1, <2>2
<1> QED  BY <1>3, <1>4, <1>5, <1>6

\* A part of a replay still in the channel and one still to send.
LEMMA ReplayParts ==
  ASSUME NEW left \in Seq(Events), NEW right \in Seq(Events)
  PROVE  /\ \A i \in DOMAIN left : i \in DOMAIN (left \o right) /\ (left \o right)[i] = left[i]
         /\ Elements(left) \cup Elements(right) \subseteq Elements(left \o right)
<1> DEFINE whole == left \o right
<1>1. /\ whole \in Seq(Events) /\ Len(whole) = Len(left) + Len(right)
      /\ \A i \in 1..(Len(left) + Len(right)) :
           whole[i] = IF i <= Len(left) THEN left[i] ELSE right[i - Len(left)]
      /\ Len(left) \in Nat /\ Len(right) \in Nat
      /\ DOMAIN left = 1..Len(left) /\ DOMAIN right = 1..Len(right)
  BY ConcatProperties
<1> HIDE DEF whole
<1>2. DOMAIN whole = 1..(Len(left) + Len(right))
  BY <1>1
<1>3. \A i \in DOMAIN left : i \in DOMAIN whole /\ whole[i] = left[i]
  BY <1>1, <1>2
<1>4. ASSUME NEW i \in DOMAIN right
      PROVE  i + Len(left) \in DOMAIN whole /\ whole[i + Len(left)] = right[i]
  <2>1. i \in Int /\ i >= 1 /\ i <= Len(right)
    BY <1>1
  <2>2. i + Len(left) \in 1..(Len(left) + Len(right)) /\ ~(i + Len(left) <= Len(left))
        /\ (i + Len(left)) - Len(left) = i
    BY <1>1, <2>1
  <2> QED  BY <1>1, <1>2, <2>2
<1>5. Elements(left) \cup Elements(right) \subseteq Elements(whole)
  BY <1>3, <1>4 DEF Elements
<1> QED  BY <1>3, <1>5 DEF whole

LEMMA CarriedIsStored ==
  ASSUME AuditInv, NEW s \in Subscribers
  PROVE  Elements(Carried(s)) \cup Elements(conn[s].pending) \subseteq stored
<1> DEFINE c == conn[s]
<1>1. /\ c.phase \in Phases /\ c.start \in Nat /\ c.cursor \in Nat /\ c.cursor <= Len(bcast)
      /\ c.replayed \in Seq(Events) /\ c.pending \in Seq(Events) /\ c.chan \in Seq(Events)
      /\ ConnectionFits(c, bcast, stored)
  BY ConnectionParts DEF Connections
<1>2. Elements(<< >>) = {}
  BY DEF Elements
<1>3. CASE c.phase \in {"off", "query"}
  <2>1. Carried(s) = << >> /\ c.pending = << >>
    BY <1>3, CarriedParts
  <2> QED  BY <1>2, <2>1
<1>4. CASE c.phase = "replay"
  <2>1. Carried(s) = c.chan /\ c.replayed = c.chan \o c.pending
    BY <1>1, <1>4, CarriedParts DEF ConnectionFits
  <2>2. Elements(c.chan) \cup Elements(c.pending) \subseteq Elements(c.replayed)
    BY <1>1, <2>1, ReplayParts
  <2> QED  BY <1>1, <2>1, <2>2 DEF ConnectionFits
<1>5. CASE c.phase \in {"live", "gone"}
  <2>1. Elements(c.pending) = {}
    BY <1>2, <1>5, ForwardingParts
  <2>2. ReplayThen(Carried(s), c.replayed, Received(c, bcast)) /\ Carried(s) \in Seq(Events)
    BY <1>5, ForwardingParts, CarriedParts
  <2>3. bcast \in Seq(Events) /\ Len(bcast) \in Nat
    BY DEF AuditInv, TypeOK
  <2>4. ASSUME NEW k \in (c.start + 1)..c.cursor PROVE bcast[k] \in stored
    <3>1. k \in DOMAIN bcast /\ bcast[k] \in Events
      <4>1. k \in 1..Len(bcast)
        BY <1>1, <2>3
      <4> QED  BY <2>3, <4>1, ElementOfSeq
    <3> QED  BY <3>1 DEF AuditInv, PublishedOnce
  <2>5. ASSUME NEW i \in DOMAIN Carried(s) PROVE Carried(s)[i] \in stored
    <3>1. i \in 1..Len(Carried(s)) /\ Len(Carried(s)) \in Nat /\ Len(c.replayed) \in Nat
      BY <1>1, <2>2
    <3>2. CASE i <= Len(c.replayed)
      <4>1. Carried(s)[i] = c.replayed[i] /\ i \in DOMAIN c.replayed
        BY <1>1, <2>2, <3>1, <3>2 DEF ReplayThen
      <4> QED  BY <1>1, <4>1 DEF ConnectionFits, Elements
    <3>3. CASE i > Len(c.replayed)
      <4>1. Carried(s)[i] \in Received(c, bcast)
        BY <2>2, <3>1, <3>3 DEF ReplayThen
      <4> QED  BY <2>4, <4>1 DEF Received
    <3> QED  BY <3>1, <3>2, <3>3
  <2> QED  BY <2>1, <2>5 DEF Elements
<1> QED  BY <1>1, <1>3, <1>4, <1>5 DEF Phases

LEMMA CarriedRepeats ==
  ASSUME AuditInv, NEW s \in Subscribers,
         NEW i \in DOMAIN Carried(s), NEW j \in DOMAIN Carried(s),
         i < j, Carried(s)[i] = Carried(s)[j]
  PROVE  i <= Len(conn[s].replayed) /\ j > Len(conn[s].replayed)
<1> DEFINE c == conn[s]
<1>1. /\ c.phase \in Phases /\ c.replayed \in Seq(Events) /\ c.pending \in Seq(Events)
      /\ c.chan \in Seq(Events) /\ ConnectionFits(c, bcast, stored)
  BY ConnectionParts DEF Connections
<1>2. /\ Carried(s) \in Seq(Events) /\ Len(Carried(s)) \in Nat /\ Len(c.replayed) \in Nat
      /\ i \in 1..Len(Carried(s)) /\ j \in 1..Len(Carried(s)) /\ i # j
      /\ DOMAIN c.replayed = 1..Len(c.replayed)
  BY <1>1, CarriedParts
<1>3. CASE c.phase \in {"off", "query"}
  <2>1. Carried(s) = << >>
    BY <1>3, CarriedParts
  <2> QED  BY <2>1
<1>4. CASE c.phase = "replay"
  <2>1. Carried(s) = c.chan /\ c.replayed = c.chan \o c.pending
    BY <1>1, <1>4, CarriedParts DEF ConnectionFits
  <2>2. c.replayed[i] = c.replayed[j] /\ i \in DOMAIN c.replayed /\ j \in DOMAIN c.replayed
    <3>1. \A k \in DOMAIN c.chan : k \in DOMAIN c.replayed /\ c.replayed[k] = c.chan[k]
      BY <1>1, <2>1, ReplayParts
    <3>2. i \in DOMAIN c.chan /\ j \in DOMAIN c.chan /\ c.chan[i] = c.chan[j]
      BY <2>1
    <3> QED  BY <3>1, <3>2
  <2> QED  BY <1>1, <1>2, <2>2 DEF ConnectionFits, Distinct
<1>5. CASE c.phase \in {"live", "gone"}
  <2>1. ReplayThen(Carried(s), c.replayed, Received(c, bcast)) /\ Distinct(c.replayed)
    BY <1>5, ForwardingParts, CarriedParts
  <2>2. ~(j <= Len(c.replayed))
    <3>1. SUFFICES ASSUME j <= Len(c.replayed) PROVE FALSE
      OBVIOUS
    <3>2. i \in 1..Len(c.replayed) /\ j \in 1..Len(c.replayed)
      BY <1>2, <3>1
    <3>3. c.replayed[i] = c.replayed[j]
      BY <2>1, <3>2 DEF ReplayThen
    <3> QED  BY <1>2, <2>1, <3>2, <3>3 DEF Distinct
  <2>3. ~(i > Len(c.replayed))
    <3>1. SUFFICES ASSUME i > Len(c.replayed) PROVE FALSE
      OBVIOUS
    <3>2. i \in (Len(c.replayed) + 1)..Len(Carried(s)) /\ j \in (Len(c.replayed) + 1)..Len(Carried(s))
      BY <1>2, <3>1
    <3> QED  BY <1>2, <2>1, <3>2 DEF ReplayThen
  <2> QED  BY <1>2, <2>2, <2>3
<1> QED  BY <1>1, <1>3, <1>4, <1>5 DEF Phases

-----------------------------------------------------------------------------
(***************************************************************************)
(* Exactness: as long as it has not lagged, a connection that went live    *)
(* carries its replay and then every broadcast event that was due.         *)
(***************************************************************************)
PassesBy(c, e) == c.filter = {} \/ TypeOf[e] \in c.filter
DueTo(c, log)  == {k \in (c.start + 1)..c.cursor : PassesBy(c, log[k])}

ExactStream(c, log) ==
  c.phase \in {"live", "gone"} /\ ~c.lagged =>
    ReplayThenExactly(CarriedBy(c), c.replayed, DueTo(c, log), log)

ExactInv == \A s \in Subscribers : ExactStream(conn[s], bcast)

\* The next position of the log becomes due, and its entry is appended.
LEMMA AppendDue ==
  ASSUME NEW seq \in Seq(Events), NEW replayed \in Seq(Events), NEW log,
         NEW from \in Nat, NEW to \in Nat, NEW due \in SUBSET (from..to),
         log[to + 1] \in Events, ReplayThenExactly(seq, replayed, due, log)
  PROVE  ReplayThenExactly(Append(seq, log[to + 1]), replayed, due \cup {to + 1}, log)
<1> DEFINE event  == log[to + 1]
           longer == Append(seq, event)
           more   == due \cup {to + 1}
           Upto(set, k) == {d \in set : d <= k}
<1>1. IsFiniteSet(due) /\ Cardinality(due) \in Nat
  <2>1. IsFiniteSet(from..to)
    BY FS_Interval
  <2> QED  BY <2>1, FS_Subset, FS_CardinalityType
<1>2. to + 1 \notin due /\ \A k \in due : k \in Int /\ k <= to
  OBVIOUS
<1>3. Cardinality(more) = Cardinality(due) + 1
  BY <1>1, <1>2, FS_AddElement
<1>4. /\ Len(longer) = Len(seq) + 1 /\ longer[Len(seq) + 1] = event
      /\ \A i \in 1..Len(seq) : longer[i] = seq[i]
      /\ Len(seq) \in Nat /\ Len(replayed) \in Nat /\ DOMAIN replayed = 1..Len(replayed)
  BY AppendProperties
<1> HIDE DEF longer
<1>5. /\ Len(seq) = Len(replayed) + Cardinality(due)
      /\ \A i \in DOMAIN replayed : seq[i] = replayed[i]
      /\ \A k \in due : seq[Len(replayed) + Cardinality(Upto(due, k))] = log[k]
  BY DEF ReplayThenExactly
<1>6. \A i \in DOMAIN replayed : longer[i] = replayed[i]
  <2>1. \A i \in DOMAIN replayed : i \in 1..Len(seq)
    BY <1>1, <1>4, <1>5
  <2> QED  BY <1>4, <1>5, <2>1
<1>7. ASSUME NEW k \in due
      PROVE  longer[Len(replayed) + Cardinality(Upto(more, k))] = log[k]
  <2>1. Upto(more, k) = Upto(due, k)
    BY <1>2
  <2>2. Upto(due, k) \in SUBSET due /\ k \in Upto(due, k)
    BY <1>2
  <2> HIDE DEF Upto
  <2>3. /\ IsFiniteSet(Upto(due, k)) /\ Cardinality(Upto(due, k)) \in Nat
        /\ Cardinality(Upto(due, k)) <= Cardinality(due)
    BY <1>1, <2>2, FS_Subset, FS_CardinalityType
  <2>4. Cardinality(Upto(due, k)) # 0
    BY <2>2, <2>3, FS_EmptySet
  <2>5. Len(replayed) + Cardinality(Upto(due, k)) \in 1..Len(seq)
    BY <1>1, <1>4, <1>5, <2>3, <2>4
  <2> QED  BY <1>4, <1>5, <2>1, <2>5
<1>8. longer[Len(replayed) + Cardinality(Upto(more, to + 1))] = event
  <2>1. Upto(more, to + 1) = more
    <3>1. \A d \in more : d <= to + 1
      BY <1>2
    <3> HIDE DEF more
    <3> QED  BY <3>1
  <2>2. Len(replayed) + Cardinality(more) = Len(seq) + 1
    BY <1>1, <1>3, <1>4, <1>5
  <2> QED  BY <1>4, <2>1, <2>2
<1>9. Len(longer) = Len(replayed) + Cardinality(more)
  BY <1>1, <1>3, <1>4, <1>5
<1>10. \A k \in more : longer[Len(replayed) + Cardinality(Upto(more, k))] = log[k]
  BY <1>7, <1>8
<1> HIDE DEF more
<1>11. ReplayThenExactly(longer, replayed, more, log)
  BY <1>6, <1>9, <1>10 DEF ReplayThenExactly
<1> QED  BY <1>11 DEF longer, more

\* Nothing is due at the subscription.
LEMMA ReplayExactly ==
  ASSUME NEW replayed \in Seq(Events), NEW log
  PROVE  ReplayThenExactly(replayed, replayed, {}, log)
<1>1. Cardinality({}) = 0 /\ Len(replayed) \in Nat
  BY FS_EmptySet
<1> QED  BY <1>1 DEF ReplayThenExactly

\* A step of one connection and of nothing else.
LEMMA OneConnection ==
  ASSUME TypeOK, ExactInv, NEW s \in Subscribers, NEW new,
         conn' = [conn EXCEPT ![s] = new], bcast' = bcast, ExactStream(new, bcast)
  PROVE  ExactInv'
<1>1. \A r \in Subscribers : conn'[r] = IF r = s THEN new ELSE conn[r]
  BY DEF TypeOK
<1> QED  BY <1>1 DEF ExactInv

LEMMA ClosedExact == \A log : ExactStream(Closed, log)
<1>1. Closed.phase = "off"
  BY DEF Closed
<1> QED  BY <1>1 DEF ExactStream

LEMMA SameStreamExact ==
  ASSUME AuditInv, ExactInv, NEW s \in Subscribers, conn[s].phase \in {"live", "gone"},
         NEW new, SameStream(conn[s], new),
         conn' = [conn EXCEPT ![s] = new], bcast' = bcast
  PROVE  ExactInv'
<1>1. DueTo(new, bcast) = DueTo(conn[s], bcast)
  BY DEF SameStream, DueTo, PassesBy
<1>2. ~conn[s].lagged =>
        ReplayThenExactly(CarriedBy(conn[s]), conn[s].replayed, DueTo(conn[s], bcast), bcast)
  BY DEF ExactInv, ExactStream
<1>3. ExactStream(new, bcast)
  BY <1>1, <1>2 DEF ExactStream, SameStream
<1> QED  BY <1>3, OneConnection DEF AuditInv

LEMMA RecvExact ==
  ASSUME AuditInv, ExactInv, NEW s \in Subscribers, Recv(s)
  PROVE  ExactInv'
<1> DEFINE c == conn[s]
           e == bcast[c.cursor + 1]
<1>1. /\ c.phase \in {"live", "gone"} /\ e \in Events /\ CarriedBy(c) \in Seq(Events)
  BY RecvCarries
<1>2. PICK new \in Connections :
        /\ conn' = [conn EXCEPT ![s] = new]
        /\ new.cursor = c.cursor + 1 /\ new.phase = c.phase
        /\ new.start = c.start /\ new.replayed = c.replayed
        /\ new.filter = c.filter /\ new.lagged = c.lagged
        /\ CarriedBy(new) = IF Passes(s, e) THEN Append(CarriedBy(c), e) ELSE CarriedBy(c)
  BY RecvCarries
<1>3. c.replayed \in Seq(Events) /\ c.cursor \in Nat /\ c.start \in Nat /\ c.start <= c.cursor
  BY <1>1, ConnectionParts, ForwardingParts
<1>4. PassesBy(new, e) = Passes(s, e) /\ \A f : PassesBy(new, f) = PassesBy(c, f)
  BY <1>2 DEF PassesBy, Passes
<1> DEFINE due == DueTo(c, bcast)
<1>5. DueTo(new, bcast) = IF Passes(s, e) THEN due \cup {c.cursor + 1} ELSE due
  <2>1. (c.start + 1)..(c.cursor + 1) = ((c.start + 1)..c.cursor) \cup {c.cursor + 1}
    BY <1>3
  <2> QED  BY <1>2, <1>4, <2>1 DEF DueTo
<1>6. due \in SUBSET ((c.start + 1)..c.cursor) /\ c.start + 1 \in Nat
  BY <1>3 DEF DueTo
<1> HIDE DEF due, e
<1>7. ASSUME ~c.lagged
      PROVE  ReplayThenExactly(CarriedBy(new), c.replayed, DueTo(new, bcast), bcast)
  <2>1. ReplayThenExactly(CarriedBy(c), c.replayed, due, bcast)
    BY <1>1, <1>7 DEF ExactInv, ExactStream, due
  <2>2. CASE ~Passes(s, e)
    BY <1>2, <1>5, <2>1, <2>2 DEF e
  <2>3. CASE Passes(s, e)
    <3>1. ReplayThenExactly(Append(CarriedBy(c), e), c.replayed, due \cup {c.cursor + 1}, bcast)
      BY <1>1, <1>3, <1>6, <2>1, AppendDue DEF e
    <3> QED  BY <1>2, <1>5, <2>3, <3>1 DEF e
  <2> QED  BY <2>2, <2>3
<1>8. ExactStream(new, bcast)
  BY <1>2, <1>7 DEF ExactStream
<1> QED  BY <1>2, <1>8, OneConnection DEF Recv, AuditInv

LEMMA SubscribeExact ==
  ASSUME AuditInv, ExactInv, NEW s \in Subscribers, Subscribe(s)
  PROVE  ExactInv'
<1>1. PICK new \in Connections :
        /\ conn' = [conn EXCEPT ![s] = new] /\ UNCHANGED <<pub, order, stored, bcast>>
        /\ new.cursor = Len(bcast) /\ new.start = Len(bcast) /\ Len(bcast) \in Nat
        /\ CarriedBy(new) = new.replayed /\ new.replayed \in Seq(Events)
  BY SubscribeCarries
<1>2. DueTo(new, bcast) = {}
  BY <1>1 DEF DueTo
<1>3. ExactStream(new, bcast)
  BY <1>1, <1>2, ReplayExactly DEF ExactStream
<1> QED  BY <1>1, <1>3, OneConnection DEF AuditInv

\* The steps of a handler that is not live, and of a stream that lags or ends.
LEMMA NotExact ==
  ASSUME AuditInv, ExactInv, NEW s \in Subscribers,
         Open(s) \/ ReadRecent(s) \/ SendReplay(s) \/ Lag(s) \/ SendFails(s)
  PROVE  ExactInv'
<1>1. TypeOK /\ conn[s] \in Connections
  BY ConnectionParts DEF AuditInv
<1>2. CASE Open(s)
  <2>1. PICK f \in Filters, t \in 0..(Len(order) + 1) :
          conn' = [conn EXCEPT ![s] = [Closed EXCEPT !.phase = "query", !.filter = f, !.since = t]]
    BY <1>2 DEF Open
  <2> DEFINE new == [Closed EXCEPT !.phase = "query", !.filter = f, !.since = t]
  <2>2. new.phase = "query"
    BY DEF Closed
  <2>3. conn' = [conn EXCEPT ![s] = new] /\ bcast' = bcast
    BY <1>2, <2>1 DEF Open
  <2> HIDE DEF new
  <2>4. ExactStream(new, bcast)
    BY <2>2 DEF ExactStream
  <2> QED  BY <1>1, <2>3, <2>4, OneConnection
<1>3. CASE ReadRecent(s)
  <2>1. PICK p \in Recent(s) :
          LET events == [i \in DOMAIN p |-> order[p[i]]] IN
          conn' = [conn EXCEPT ![s].phase = "replay", ![s].pending = events, ![s].replayed = events]
    BY <1>3 DEF ReadRecent
  <2> DEFINE events == [i \in DOMAIN p |-> order[p[i]]]
             new == [conn[s] EXCEPT !.phase = "replay", !.pending = events, !.replayed = events]
  <2>2. conn' = [conn EXCEPT ![s] = new] /\ bcast' = bcast
    BY <1>3, <2>1 DEF ReadRecent
  <2> HIDE DEF events
  <2>3. new.phase = "replay"
    BY <1>1 DEF Connections
  <2> HIDE DEF new
  <2>4. ExactStream(new, bcast)
    BY <2>3 DEF ExactStream
  <2> QED  BY <1>1, <2>2, <2>4, OneConnection
<1>4. CASE SendReplay(s)
  <2> DEFINE c == conn[s]
             new == [c EXCEPT !.chan = Append(c.chan, Head(c.pending)), !.pending = Tail(c.pending)]
  <2>1. conn' = [conn EXCEPT ![s] = new] /\ bcast' = bcast /\ c.phase = "replay"
    BY <1>4 DEF SendReplay
  <2>2. new.phase = "replay"
    BY <1>1, <2>1 DEF Connections
  <2> HIDE DEF new
  <2>3. ExactStream(new, bcast)
    BY <2>2 DEF ExactStream
  <2> QED  BY <1>1, <2>1, <2>3, OneConnection
<1>5. CASE Lag(s)
  <2> DEFINE new == [conn[s] EXCEPT !.cursor = Len(bcast) - BroadcastCap, !.lagged = TRUE]
  <2>1. conn' = [conn EXCEPT ![s] = new] /\ bcast' = bcast
    BY <1>5 DEF Lag
  <2>2. new.lagged = TRUE
    BY <1>1 DEF Connections
  <2> HIDE DEF new
  <2>3. ExactStream(new, bcast)
    BY <2>2 DEF ExactStream
  <2> QED  BY <1>1, <2>1, <2>3, OneConnection
<1>6. CASE SendFails(s)
  BY <1>1, <1>6, ClosedExact, OneConnection DEF SendFails
<1> QED  BY <1>2, <1>3, <1>4, <1>5, <1>6

LEMMA DisconnectExact ==
  ASSUME AuditInv, ExactInv, NEW s \in Subscribers, Disconnect(s)
  PROVE  ExactInv'
<1>1. CASE conn[s].phase = "live"
  BY <1>1, DisconnectCarries, SameStreamExact
<1>2. CASE conn[s].phase # "live"
  BY <1>2, DisconnectCloses, ClosedExact, OneConnection DEF AuditInv
<1> QED  BY <1>1, <1>2

LEMMA StepExactInv ==
  ASSUME AuditInv, ExactInv, [Next]_vars
  PROVE  ExactInv'
<1>1. CASE \E e \in Events : Publish(e)
  <2>1. PICK e \in Events : Publish(e)
    BY <1>1
  <2>2. conn' = conn /\ (bcast' = bcast \/ bcast' = Append(bcast, e))
    BY <2>1 DEF Publish, Stamp, Store, Broadcast, PublishFails
  <2>3. ASSUME NEW s \in Subscribers PROVE ExactStream(conn[s], bcast')
    <3> DEFINE c == conn[s]
    <3>1. /\ c.start \in Nat /\ c.cursor \in Nat /\ c.cursor <= Len(bcast)
          /\ bcast \in Seq(Events) /\ Len(bcast) \in Nat
      BY ConnectionParts DEF AuditInv, TypeOK
    <3>2. \A k \in (c.start + 1)..c.cursor : k \in 1..Len(bcast)
      BY <3>1
    <3>3. \A k \in 1..Len(bcast) : bcast'[k] = bcast[k]
      BY <2>2, <3>1, AppendProperties
    <3>4. DueTo(c, bcast') = DueTo(c, bcast)
      BY <3>2, <3>3 DEF DueTo
    <3>5. \A k \in DueTo(c, bcast) : bcast'[k] = bcast[k]
      BY <3>2, <3>3 DEF DueTo
    <3>6. ExactStream(c, bcast)
      BY DEF ExactInv
    <3> QED  BY <3>4, <3>5, <3>6 DEF ExactStream, ReplayThenExactly
  <2> QED  BY <2>2, <2>3 DEF ExactInv
<1>2. CASE \E s \in Subscribers : Stream(s)
  <2>1. PICK s \in Subscribers : Stream(s)
    BY <1>2
  <2>2. CASE Open(s) \/ ReadRecent(s) \/ SendReplay(s) \/ Lag(s) \/ SendFails(s)
    BY <2>2, NotExact
  <2>3. CASE Subscribe(s)
    BY <2>3, SubscribeExact
  <2>4. CASE Recv(s)
    BY <2>4, RecvExact
  <2>5. CASE Forward(s)
    BY <2>5, ForwardCarries, SameStreamExact
  <2>6. CASE Drain(s)
    BY <2>6, DrainCarries, SameStreamExact
  <2>7. CASE Disconnect(s)
    BY <2>7, DisconnectExact
  <2> QED  BY <2>1, <2>2, <2>3, <2>4, <2>5, <2>6, <2>7 DEF Stream, Serve
<1>3. CASE Restart
  <2>1. \A s \in Subscribers : conn'[s] = Closed
    BY <1>3 DEF Restart
  <2> QED  BY <2>1, ClosedExact DEF ExactInv
<1>4. CASE UNCHANGED vars
  BY <1>4 DEF ExactInv, vars
<1> QED  BY <1>1, <1>2, <1>3, <1>4 DEF Next

-----------------------------------------------------------------------------
(***************************************************************************)
(* The inductive invariant of publish_event and stream_audit_events: what  *)
(* is on its way to a client is its replay, each event once, followed by   *)
(* broadcast events it received, each once.                                *)
(***************************************************************************)
THEOREM AuditSafety == Spec => []AuditInv
<1>1. AuditInv /\ [Next]_vars => AuditInv'
  BY StepAuditInv
<1> QED  BY InitAuditInv, <1>1, PTL DEF Spec

\* The variables keep their types, and no step overfills the channel of a client.
THEOREM AuditTypeCorrect == Spec => []TypeOK
<1>1. AuditInv => TypeOK
  BY DEF AuditInv
<1> QED  BY AuditSafety, <1>1, PTL

(***************************************************************************)
(* publish_event stores before it broadcasts, and nothing leaves the       *)
(* table: no failed insert, cancelled call or restart lets a client see an *)
(* event that the audit log does not keep.                                 *)
(***************************************************************************)
THEOREM StreamsAreStored == Spec => []StreamedIsStored
<1>1. AuditInv => StreamedIsStored
  BY CarriedIsStored DEF StreamedIsStored
<1> QED  BY AuditSafety, <1>1, PTL

(***************************************************************************)
(* A stream repeats an event only across the switch of stream_audit_events *)
(* from the replay to the broadcast, however often it lags.                *)
(***************************************************************************)
THEOREM RepeatsOnlyAcrossSwitch == Spec => []RepeatOnlyAcrossSwitch
<1>1. AuditInv => RepeatOnlyAcrossSwitch
  BY CarriedRepeats DEF RepeatOnlyAcrossSwitch
<1> QED  BY AuditSafety, <1>1, PTL

(***************************************************************************)
(* A live stream that has not lagged is its replay followed by exactly the *)
(* broadcast events since the subscription that pass its filter, in order: *)
(* the forwarding task of stream_audit_events waits for room, it neither   *)
(* drops nor reorders.                                                     *)
(***************************************************************************)
THEOREM LiveStreamsAreExact == Spec => []LiveStreamExact
<1>1. Init => AuditInv /\ ExactInv
  <2>1. Init => ExactInv
    BY ClosedExact DEF Init, ExactInv
  <2> QED  BY <2>1, InitAuditInv
<1>2. AuditInv /\ ExactInv /\ [Next]_vars => (AuditInv /\ ExactInv)'
  BY StepAuditInv, StepExactInv
<1>3. AuditInv /\ ExactInv => LiveStreamExact
  <2> SUFFICES ASSUME AuditInv, ExactInv, NEW s \in Subscribers,
                      conn[s].phase = "live", ~conn[s].lagged
               PROVE  ReplayThenExactly(Carried(s), conn[s].replayed, Due(s), bcast)
    BY DEF LiveStreamExact
  <2>1. Carried(s) = CarriedBy(conn[s])
    BY CarriedParts
  <2>2. Due(s) = DueTo(conn[s], bcast)
    BY DEF Due, DueTo, Passes, PassesBy
  <2> QED  BY <2>1, <2>2 DEF ExactInv, ExactStream
<1> QED  BY <1>1, <1>2, <1>3, PTL DEF Spec
=============================================================================
