-------------------------- MODULE ListEventsProofs --------------------------
(***************************************************************************)
(* The event publisher for any number of requests, any queue size and any  *)
(* faults: it publishes no event of a failed request, implements           *)
(* LossyFifo, keeps the order a client can tell, and loses events for the  *)
(* named reasons only.                                                     *)
(*                                                                         *)
(* EventsInv adds to the types what doPublish has in hand and why it       *)
(* reconnects, and that committed requests have changed the list.          *)
(***************************************************************************)
EXTENDS ListEvents, SequenceTheorems, TLAPS

(* doPublish has an event exactly while it works on one, and reconnects     *)
(* only because it found its channel closed.                               *)
HandInv ==
  /\ msg = NoEvent <=> loop \in {"idle", "down"}
  /\ loop = "reconnect" => ~chOpen

CommittedChanged == \A r \in Requests : request[r] = "committed" => r \in changed

EventsInv ==
  /\ EventsTypeOK
  /\ HandInv
  /\ CommittedChanged
  /\ NoPhantomEvents

----------------------------------------------------------------------------
(* Lemmas about sequences                                                  *)

LEMMA AppendRange ==
  ASSUME NEW S, NEW s \in Seq(S), NEW e \in S
  PROVE  Append(s, e) \in Seq(S) /\ Range(Append(s, e)) = Range(s) \cup {e}
<1>1. Append(s, e) = s \o <<e>> /\ <<e>> \in Seq(S)
  BY AppendIsConcat
<1>2. Range(<<e>>) = {e}
  BY DEF Range
<1>3. Range(s \o <<e>>) = Range(s) \cup Range(<<e>>)
  BY <1>1, RangeConcatenation
<1>4. Append(s, e) \in Seq(S)
  BY AppendProperties
<1> QED BY <1>1, <1>2, <1>3, <1>4

LEMMA HeadTailConcat ==
  ASSUME NEW S, NEW s \in Seq(S), s # <<>>
  PROVE  /\ Head(s) \in S /\ Tail(s) \in Seq(S)
         /\ s = <<Head(s)>> \o Tail(s)
         /\ Len(Tail(s)) < Len(s)
         /\ Range(s) = {Head(s)} \cup Range(Tail(s))
<1>1. Head(s) \in S /\ Tail(s) \in Seq(S) /\ Len(Tail(s)) = Len(s) - 1 /\ Len(s) \in Nat
  BY HeadTailProperties, LenProperties
<1>2. <<Head(s)>> \in Seq(S)
  BY <1>1
<1>3. s = <<Head(s)>> \o Tail(s)
  <2>1. <<Head(s)>> \o Tail(s) \in Seq(S) /\ Len(<<Head(s)>> \o Tail(s)) = Len(s)
    BY <1>1, <1>2, ConcatProperties
  <2>2. ASSUME NEW i \in 1 .. Len(s)
        PROVE  s[i] = (<<Head(s)>> \o Tail(s))[i]
    BY <1>1, <1>2, ConcatProperties, HeadTailProperties
  <2> QED BY <2>1, <2>2, SeqEqual
<1>4. Range(<<Head(s)>>) = {Head(s)}
  BY DEF Range
<1>5. Range(<<Head(s)>> \o Tail(s)) = Range(<<Head(s)>>) \cup Range(Tail(s))
  BY <1>1, <1>2, RangeConcatenation
<1>6. Len(Tail(s)) < Len(s)
  BY <1>1
<1>7. Range(s) = {Head(s)} \cup Range(Tail(s))
  BY <1>3, <1>4, <1>5, Zenon
<1> QED BY <1>1, <1>3, <1>6, <1>7

LEMMA ConsParts ==
  ASSUME NEW S, NEW e \in S, NEW t \in Seq(S)
  PROVE  <<e>> \o t # <<>> /\ Head(<<e>> \o t) = e /\ Tail(<<e>> \o t) = t
<1> DEFINE p == <<e>> \o t
<1>1. Len(t) \in Nat
  BY LenProperties
<1>2. /\ p \in Seq(S) /\ Len(p) = 1 + Len(t) /\ p[1] = e
      /\ \A i \in 1 .. Len(t) : p[1 + i] = t[i]
  <2>1. <<e>> \in Seq(S) /\ Len(<<e>>) = 1 /\ <<e>>[1] = e
    OBVIOUS
  <2> QED BY <1>1, <2>1, ConcatProperties
<1> HIDE DEF p
<1>3. p # <<>>
  BY <1>1, <1>2, EmptySeq
<1>4. /\ Head(p) = p[1] /\ Tail(p) \in Seq(S) /\ Len(Tail(p)) = Len(p) - 1
      /\ \A i \in 1 .. Len(Tail(p)) : Tail(p)[i] = p[i + 1]
  BY <1>2, <1>3, HeadTailProperties
<1>5. Tail(p) = t
  BY <1>1, <1>2, <1>4, SeqEqual
<1> QED BY <1>2, <1>3, <1>4, <1>5 DEF p

(* The two parts of a concatenation. *)
LEMMA ConcatParts ==
  ASSUME NEW S, NEW s \in Seq(S), NEW t \in Seq(S)
  PROVE  /\ SubSeq(s \o t, 1, Len(s)) = s
         /\ SubSeq(s \o t, Len(s \o t) - Len(t) + 1, Len(s \o t)) = t
         /\ Len(s \o t) = Len(s) + Len(t) /\ Len(s) \in Nat /\ Len(t) \in Nat
<1> DEFINE p == s \o t
<1>1. Len(s) \in Nat /\ Len(t) \in Nat
  BY LenProperties
<1>2. /\ p \in Seq(S) /\ Len(p) = Len(s) + Len(t)
      /\ \A i \in 1 .. Len(s) : p[i] = s[i]
      /\ \A i \in 1 .. Len(t) : p[Len(s) + i] = t[i]
  BY <1>1, ConcatProperties
<1> HIDE DEF p
<1>3. SubSeq(p, 1, Len(s)) = s
  <2>1. \A i \in 1 .. Len(s) : p[i] \in S
    BY <1>1, <1>2, ElementOfSeq
  <2>2. /\ SubSeq(p, 1, Len(s)) \in Seq(S)
        /\ Len(SubSeq(p, 1, Len(s))) = Len(s)
        /\ \A i \in 1 .. Len(s) : SubSeq(p, 1, Len(s))[i] = p[i]
    BY <1>1, <2>1, SubSeqProperties
  <2> QED BY <1>2, <2>2, SeqEqual
<1>4. SubSeq(p, Len(p) - Len(t) + 1, Len(p)) = t
  <2>1. \A i \in Len(p) - Len(t) + 1 .. Len(p) : p[i] \in S
    BY <1>1, <1>2, ElementOfSeq
  <2>2. /\ SubSeq(p, Len(p) - Len(t) + 1, Len(p)) \in Seq(S)
        /\ Len(SubSeq(p, Len(p) - Len(t) + 1, Len(p))) = Len(t)
        /\ \A i \in 1 .. Len(t) :
             SubSeq(p, Len(p) - Len(t) + 1, Len(p))[i] = p[Len(s) + i]
    BY <1>1, <1>2, <2>1, SubSeqProperties
  <2> QED BY <1>2, <2>2, SeqEqual
<1> QED BY <1>1, <1>2, <1>3, <1>4 DEF p

----------------------------------------------------------------------------
(* The invariant over one step                                             *)

(* The publisher starts with nothing in it. *)
LEMMA EventsInitInv == EventsInit => EventsInv
<1> SUFFICES ASSUME EventsInit PROVE EventsInv
  OBVIOUS
<1>1. EventsTypeOK
  BY ListEventsAssumption, MaxFaultsAssumption, EmptySeq DEF EventsInit, EventsTypeOK, FaultsInit
<1>2. Range(events) = {} /\ Range(wire) = {} /\ Range(exchange) = {}
  BY DEF EventsInit, Range
<1> QED BY <1>1, <1>2 DEF EventsInit, EventsInv, HandInv, CommittedChanged, NoPhantomEvents, Waiting

(* The types and what is in hand. *)
LEMMA EventsTypeStep ==
  ASSUME EventsInv, EventsNext
  PROVE  EventsTypeOK' /\ HandInv'
<1> USE ListEventsAssumption DEF EventsInv, EventsTypeOK, HandInv, publisherVars, amqpVars, NoFault
<1> DEFINE Good == EventsTypeOK' /\ HandInv'
<1>f. ASSUME NEW k, Fault(k) PROVE faults' \in 0..MaxFaults
  BY <1>f, MaxFaultsAssumption DEF Fault
<1>e. <<>> \in Seq(Requests) /\ Len(<<>>) = 0
  BY EmptySeq
<1>s. ASSUME Sent, msg \in Requests
      PROVE  wire' \in Seq(Requests) /\ chOpen' \in BOOLEAN /\ exchange' \in Seq(Requests)
               /\ rabbitUp' \in BOOLEAN
  BY <1>s, AppendProperties DEF Sent
<1>1. ASSUME NEW r \in Requests, Statement(r) PROVE Good
  BY <1>f, <1>1 DEF Statement, Answer
<1>2. ASSUME NEW r \in Requests, Publish(r) PROVE Good
  <2>1. CASE Len(events) < QueueSize
    <3>1. events' = Append(events, r) /\ events \in Seq(Requests)
      BY <1>2, <2>1 DEF Publish
    <3>2. events' \in Seq(Requests) /\ Len(events') = Len(events) + 1
      BY ONLY <3>1, r \in Requests, AppendProperties
    <3>3. Len(events) \in Nat
      BY ONLY <3>1, LenProperties
    <3>4. Len(events') <= QueueSize
      BY <2>1, <3>2, <3>3
    <3> QED BY <1>2, <2>1, <3>2, <3>4 DEF Publish, Answer
  <2>2. CASE ~(Len(events) < QueueSize)
    BY <1>2, <2>2 DEF Publish, Answer
  <2> QED BY <2>1, <2>2
<1>3. ASSUME Take PROVE Good
  <2>1. Head(events) \in Requests /\ Tail(events) \in Seq(Requests)
        /\ Len(Tail(events)) < Len(events) /\ Len(events) \in Nat /\ Len(Tail(events)) \in Nat
    BY <1>3, HeadTailConcat, LenProperties DEF Take
  <2> QED BY <1>3, <2>1 DEF Take
<1>4. ASSUME PublishOnce PROVE Good
  BY <1>4, <1>s DEF PublishOnce, Return
<1>5. ASSUME ReconnectOnce PROVE Good
  BY <1>5, <1>f DEF ReconnectOnce, Return
<1>6. ASSUME Retry PROVE Good
  BY <1>6, <1>s DEF Retry, Return
<1>7. ASSUME Arrive PROVE Good
  <2>1. exchange' \in Seq(Requests) /\ wire' \in Seq(Requests)
    BY <1>7, HeadTailConcat, AppendProperties DEF Arrive
  <2> QED BY <1>7, <2>1 DEF Arrive
<1>8. ASSUME ConnectionBreaks PROVE Good
  BY <1>8, <1>f, <1>e DEF ConnectionBreaks, BreakChannel
<1>9. ASSUME RabbitStops PROVE Good
  BY <1>9, <1>f, <1>e DEF RabbitStops, BreakChannel
<1>10. ASSUME RabbitStarts PROVE Good
  BY <1>10 DEF RabbitStarts
<1>11. ASSUME Crash PROVE Good
  <2>1. request' \in [Requests -> {"new", "committed", "accepted", "dropped", "failed"}]
    BY <1>11 DEF Crash
  <2>2. faults' \in 0..MaxFaults
    BY <1>11, <1>f DEF Crash
  <2>3. Len(events') <= QueueSize
    BY <1>11, <1>e DEF Crash
  <2> QED BY <1>11, <1>e, <2>1, <2>2, <2>3 DEF Crash, BreakChannel
<1>12. ASSUME Restart PROVE Good
  BY <1>12 DEF Restart
<1> QED
  BY <1>1, <1>2, <1>3, <1>4, <1>5, <1>6, <1>7, <1>8, <1>9, <1>10, <1>11, <1>12
  DEF EventsNext, PublishLoop

(* No step puts anything into the publisher but what a committed request   *)
(* hands over.                                                             *)
LEMMA NoPhantomStep ==
  ASSUME EventsInv, EventsNext
  PROVE  CommittedChanged' /\ NoPhantomEvents'
<1> DEFINE All == Waiting \cup Range(exchange)
<1>0. /\ events \in Seq(Requests) /\ wire \in Seq(Requests) /\ exchange \in Seq(Requests)
      /\ request \in [Requests -> {"new", "committed", "accepted", "dropped", "failed"}]
      /\ All \subseteq changed /\ msg \in Requests \cup {NoEvent}
      /\ loop \in {"publish", "reconnect", "retry"} => msg \in Requests
      /\ Range(<<>>) = {}
  <2>1. Range(<<>>) = {}
    BY DEF Range
  <2> QED BY <2>1 DEF EventsInv, EventsTypeOK, HandInv, NoPhantomEvents
<1> USE DEF publisherVars, amqpVars, NoFault, EventsInv, CommittedChanged, NoPhantomEvents, Waiting
<1> SUFFICES CommittedChanged' /\ All' \subseteq changed'
  OBVIOUS
<1>1. ASSUME NEW r \in Requests, Statement(r) PROVE CommittedChanged' /\ All' \subseteq changed'
  BY <1>0, <1>1 DEF Statement, Answer
<1>2. ASSUME NEW r \in Requests, Publish(r) PROVE CommittedChanged' /\ All' \subseteq changed'
  <2>1. CommittedChanged' /\ changed' = changed /\ r \in changed
    BY <1>0, <1>2 DEF Publish, Answer
  <2>2. Range(events') \subseteq Range(events) \cup {r}
    <3>1. events' = Append(events, r) \/ events' = events
      BY <1>2 DEF Publish
    <3>2. Range(Append(events, r)) = Range(events) \cup {r}
      BY <1>0, AppendRange
    <3> QED BY <3>1, <3>2
  <2> QED BY <1>0, <1>2, <2>1, <2>2 DEF Publish
<1>3. ASSUME Take PROVE CommittedChanged' /\ All' \subseteq changed'
  <2>1. Range(events) = {msg'} \cup Range(events')
    BY <1>0, <1>3, HeadTailConcat DEF Take
  <2> QED BY <1>0, <1>3, <2>1 DEF Take
<1>s. ASSUME msg \in Requests, Sent PROVE Range(wire') = Range(wire) \cup {msg} /\ exchange' = exchange
  BY <1>0, <1>s, AppendRange DEF Sent
<1>4. ASSUME PublishOnce PROVE CommittedChanged' /\ All' \subseteq changed'
  <2>1. Range(wire') \subseteq Range(wire) \cup ({msg} \ {NoEvent}) /\ exchange' = exchange
    BY <1>0, <1>4, <1>s, ListEventsAssumption DEF PublishOnce
  <2> QED BY <1>0, <1>4, <2>1 DEF PublishOnce, Return
<1>5. ASSUME ReconnectOnce PROVE CommittedChanged' /\ All' \subseteq changed'
  BY <1>0, <1>5 DEF ReconnectOnce, Return
<1>6. ASSUME Retry PROVE CommittedChanged' /\ All' \subseteq changed'
  <2>1. Range(wire') \subseteq Range(wire) \cup ({msg} \ {NoEvent}) /\ exchange' = exchange
    BY <1>0, <1>6, <1>s, ListEventsAssumption DEF Retry
  <2> QED BY <1>0, <1>6, <2>1 DEF Retry, Return
<1>7. ASSUME Arrive PROVE CommittedChanged' /\ All' \subseteq changed'
  <2>1. /\ Range(wire) = {Head(wire)} \cup Range(wire')
        /\ Range(exchange') = Range(exchange) \cup {Head(wire)}
    <3>1. wire # <<>> /\ exchange' = Append(exchange, Head(wire)) /\ wire' = Tail(wire)
      BY <1>7 DEF Arrive
    <3>2. Head(wire) \in Requests /\ Range(wire) = {Head(wire)} \cup Range(Tail(wire))
      BY <1>0, <3>1, HeadTailConcat
    <3>3. Range(Append(exchange, Head(wire))) = Range(exchange) \cup {Head(wire)}
      BY <1>0, <3>2, AppendRange
    <3> QED BY <3>1, <3>2, <3>3
  <2> QED BY <1>0, <1>7, <2>1 DEF Arrive
<1>8. ASSUME ConnectionBreaks PROVE CommittedChanged' /\ All' \subseteq changed'
  BY <1>0, <1>8 DEF ConnectionBreaks, BreakChannel
<1>9. ASSUME RabbitStops PROVE CommittedChanged' /\ All' \subseteq changed'
  BY <1>0, <1>9 DEF RabbitStops, BreakChannel
<1>10. ASSUME RabbitStarts PROVE CommittedChanged' /\ All' \subseteq changed'
  BY <1>0, <1>10 DEF RabbitStarts
<1>11. ASSUME Crash PROVE CommittedChanged' /\ All' \subseteq changed'
  BY <1>0, <1>11 DEF Crash, BreakChannel
<1>12. ASSUME Restart PROVE CommittedChanged' /\ All' \subseteq changed'
  BY <1>0, <1>12 DEF Restart
<1> QED
  BY <1>1, <1>2, <1>3, <1>4, <1>5, <1>6, <1>7, <1>8, <1>9, <1>10, <1>11, <1>12
  DEF EventsNext, PublishLoop

(* The invariant is inductive. *)
LEMMA EventsInvariant == EventsSpec => []EventsInv
<1>1. EventsInv /\ [EventsNext]_eventVars => EventsInv'
  <2>1. CASE EventsNext
    BY <2>1, EventsTypeStep, NoPhantomStep DEF EventsInv
  <2>2. CASE UNCHANGED eventVars
    BY <2>2 DEF eventVars, publisherVars, amqpVars, EventsInv, EventsTypeOK, HandInv,
       CommittedChanged, NoPhantomEvents, Waiting
  <2> QED BY <2>1, <2>2
<1> QED BY <1>1, EventsInitInv, PTL DEF EventsSpec

----------------------------------------------------------------------------
(* Theorems                                                                *)

(* Every variable of the publisher keeps its type, and the queue its bound *)
(* (publisher.go Publish, doPublish).                                      *)
THEOREM EventsTypesHold == EventsSpec => []EventsTypeOK
  BY EventsInvariant, PTL DEF EventsInv

(* No event is about a change that was not made (list_service.go).         *)
THEOREM EventsAreReal == EventsSpec => []NoPhantomEvents
  BY EventsInvariant, PTL DEF EventsInv

----------------------------------------------------------------------------
(* The refinement                                                          *)

Hand == IF msg = NoEvent THEN <<>> ELSE <<msg>>
Pending == wire \o Hand \o events
Accepted == {r \in Requests : request[r] = "accepted"}

(* What a step of the publisher does to the abstract sequence. *)
LEMMA PendingParts ==
  ASSUME EventsInv
  PROVE  /\ wire \in Seq(Requests) /\ Hand \in Seq(Requests) /\ events \in Seq(Requests)
         /\ wire \o Hand \in Seq(Requests) /\ Pending \in Seq(Requests)
         /\ Pending = wire \o (Hand \o events) /\ Hand \o events \in Seq(Requests)
         /\ wire \o <<>> = wire /\ wire \o events \in Seq(Requests)
<1>1. wire \in Seq(Requests) /\ events \in Seq(Requests) /\ msg \in Requests \cup {NoEvent}
  BY DEF EventsInv, EventsTypeOK
<1>2. Hand \in Seq(Requests)
  BY <1>1 DEF Hand
<1>3. wire \o Hand \in Seq(Requests) /\ Hand \o events \in Seq(Requests) /\ wire \o events \in Seq(Requests)
  BY <1>1, <1>2, ConcatProperties
<1>4. Pending \in Seq(Requests)
  BY <1>1, <1>3, ConcatProperties DEF Pending
<1>5. Pending = wire \o (Hand \o events)
  BY <1>1, <1>2, ConcatAssociative DEF Pending
<1>6. wire \o <<>> = wire
  BY <1>1, ConcatEmptySeq
<1> QED BY <1>1, <1>2, <1>3, <1>4, <1>5, <1>6

(* Writing the event in hand to the socket does not move it. *)
LEMMA SentKeepsPending ==
  ASSUME EventsInv, msg \in Requests, Sent, Return
  PROVE  Pending' = Pending
<1>1. Hand = <<msg>> /\ Hand' = <<>>
  BY ListEventsAssumption DEF Hand, Return
<1>2. wire' = wire \o <<msg>> /\ wire' \in Seq(Requests)
  BY PendingParts, AppendIsConcat, AppendProperties DEF Sent
<1>3. wire' \o <<>> = wire'
  BY <1>2, ConcatEmptySeq
<1> QED BY <1>1, <1>2, <1>3 DEF Pending, Return

(* The front of the queue comes into the hand. *)
LEMMA TakeKeepsPending ==
  ASSUME EventsInv, Take
  PROVE  Pending' = Pending
<1>1. Hand = <<>>
  BY DEF EventsInv, HandInv, Take, Hand
<1>2. /\ Head(events) \in Requests /\ Tail(events) \in Seq(Requests)
      /\ events = <<Head(events)>> \o Tail(events)
  BY PendingParts, HeadTailConcat DEF Take
<1>3. Hand' = <<Head(events)>>
  BY <1>2, ListEventsAssumption DEF Take, Hand
<1>4. (wire \o <<Head(events)>>) \o Tail(events) = wire \o (<<Head(events)>> \o Tail(events))
  <2>1. <<Head(events)>> \in Seq(Requests) /\ wire \in Seq(Requests)
    BY <1>2, PendingParts
  <2> QED BY ONLY <1>2, <2>1, ConcatAssociative
<1>5. wire' = wire /\ events' = Tail(events)
  BY DEF Take, amqpVars
<1> QED BY <1>1, <1>2, <1>3, <1>4, <1>5, PendingParts DEF Pending

(* The event in hand is given up. *)
LEMMA ReturnLoses ==
  ASSUME EventsInv, Return, wire' = wire
  PROVE  /\ Len(wire) \in 0..Len(Pending) /\ Len(events) \in 0..Len(Pending)
         /\ Len(wire) + Len(events) <= Len(Pending)
         /\ Pending' = SubSeq(Pending, 1, Len(wire))
                         \o SubSeq(Pending, Len(Pending) - Len(events) + 1, Len(Pending))
<1>1. Pending' = wire \o events
  BY PendingParts DEF Pending, Return, Hand
<1> DEFINE front == wire \o Hand
           back == Hand \o events
<1>2. /\ wire \in Seq(Requests) /\ events \in Seq(Requests)
      /\ front \in Seq(Requests) /\ back \in Seq(Requests)
      /\ Pending = front \o events /\ Pending = wire \o back
  BY PendingParts DEF Pending
<1>3. Len(front) = Len(wire) + Len(Hand) /\ Len(Hand) \in Nat
  BY PendingParts, ConcatParts
<1> HIDE DEF front, back
<1>4. SubSeq(Pending, 1, Len(wire)) = wire /\ Len(wire) \in Nat
  <2>1. wire \in Seq(Requests) /\ back \in Seq(Requests) /\ Pending = wire \o back
    BY <1>2
  <2> QED BY ONLY <2>1, ConcatParts
<1>5. /\ SubSeq(Pending, Len(Pending) - Len(events) + 1, Len(Pending)) = events
      /\ Len(Pending) = Len(front) + Len(events) /\ Len(events) \in Nat
  <2>1. events \in Seq(Requests) /\ front \in Seq(Requests) /\ Pending = front \o events
    BY <1>2
  <2>2. /\ SubSeq(front \o events, Len(front \o events) - Len(events) + 1, Len(front \o events))
             = events
        /\ Len(front \o events) = Len(front) + Len(events) /\ Len(events) \in Nat
    BY ONLY <2>1, ConcatParts
  <2> QED BY <2>1, <2>2, Zenon
<1>6. /\ Len(wire) \in 0..Len(Pending) /\ Len(events) \in 0..Len(Pending)
      /\ Len(wire) + Len(events) <= Len(Pending)
  BY ONLY <1>3, <1>4, <1>5
<1> QED BY <1>1, <1>4, <1>5, <1>6

(* What is on the wire is lost. *)
LEMMA BreakLoses ==
  ASSUME EventsInv, wire' = <<>>, msg' = msg, events' = events
  PROVE  LET k == Len(Hand \o events)
         IN  /\ k \in 0..Len(Pending)
             /\ Pending' = SubSeq(Pending, 1, 0)
                             \o SubSeq(Pending, Len(Pending) - k + 1, Len(Pending))
<1> DEFINE rest == Hand \o events
<1>1. rest \in Seq(Requests) /\ wire \in Seq(Requests) /\ Pending = wire \o rest
  BY PendingParts
<1>2. Pending' = rest
  <2>1. <<>> \o Hand = Hand
    BY PendingParts, ConcatEmptySeq
  <2>2. Pending' = (<<>> \o Hand) \o events
    BY DEF Pending, Hand
  <2> QED BY <2>1, <2>2
<1> HIDE DEF rest
<1>3. /\ SubSeq(Pending, Len(Pending) - Len(rest) + 1, Len(Pending)) = rest
      /\ Len(Pending) = Len(wire) + Len(rest) /\ Len(wire) \in Nat /\ Len(rest) \in Nat
  BY <1>1, ConcatParts
<1>4. SubSeq(Pending, 1, 0) = <<>>
  BY SubSeqEmpty
<1>5. <<>> \o rest = rest
  BY <1>1, ConcatEmptySeq
<1>6. Len(rest) \in 0..Len(Pending)
  BY ONLY <1>3
<1> QED BY <1>2, <1>3, <1>4, <1>5, <1>6 DEF rest

(* Abstract steps, in the terms of the publisher. *)
Unmoved == Accepted' = Accepted /\ Pending' = Pending /\ exchange' = exchange

Loses(i, k) ==
  /\ Pending' = SubSeq(Pending, 1, i) \o SubSeq(Pending, Len(Pending) - k + 1, Len(Pending))
  /\ Accepted' = Accepted /\ exchange' = exchange

Abstract ==
  \/ \E r \in Requests : /\ r \notin Accepted /\ Accepted' = Accepted \cup {r}
                         /\ Pending' = Append(Pending, r) /\ exchange' = exchange
  \/ /\ Pending # <<>> /\ exchange' = Append(exchange, Head(Pending))
     /\ Pending' = Tail(Pending) /\ Accepted' = Accepted
  \/ \E i, k \in 0..Len(Pending) : i + k <= Len(Pending) /\ Loses(i, k)
  \/ Unmoved

LEMMA AbstractIsFifo == Abstract => [Fifo!FifoNext]_(Fifo!fifoVars)
<1> SUFFICES ASSUME Abstract PROVE Fifo!FifoNext \/ UNCHANGED Fifo!fifoVars
  OBVIOUS
<1> USE DEF Pending, Hand, Accepted
<1>1. ASSUME NEW r \in Requests, r \notin Accepted, Accepted' = Accepted \cup {r},
             Pending' = Append(Pending, r), exchange' = exchange
      PROVE  Fifo!FifoNext
  <2>1. Fifo!Accept(r)
    BY <1>1, Zenon DEF Fifo!Accept
  <2> QED BY <2>1, Zenon DEF Fifo!FifoNext
<1>2. ASSUME Pending # <<>>, exchange' = Append(exchange, Head(Pending)),
             Pending' = Tail(Pending), Accepted' = Accepted
      PROVE  Fifo!FifoNext
  <2>1. Fifo!Deliver
    BY <1>2, Zenon DEF Fifo!Deliver
  <2> QED BY <2>1, Zenon DEF Fifo!FifoNext
<1>3. ASSUME NEW i \in 0..Len(Pending), NEW k \in 0..Len(Pending),
             i + k <= Len(Pending), Loses(i, k)
      PROVE  Fifo!FifoNext
  <2>1. Fifo!Lose(i, k)
    BY <1>3, Zenon DEF Fifo!Lose, Loses
  <2> QED BY <1>3, <2>1, Zenon DEF Fifo!FifoNext
<1>4. ASSUME Unmoved PROVE UNCHANGED Fifo!fifoVars
  BY <1>4, Zenon DEF Unmoved, Fifo!fifoVars
<1> QED BY <1>1, <1>2, <1>3, <1>4, Zenon DEF Abstract

(* Each step of the publisher is a step of the lossy FIFO or moves nothing. *)
LEMMA FifoStep == ASSUME EventsInv, EventsNext PROVE Abstract
<1> USE DEF publisherVars, amqpVars
<1>0. /\ request \in [Requests -> {"new", "committed", "accepted", "dropped", "failed"}]
      /\ msg = NoEvent <=> loop \in {"idle", "down"}
      /\ msg \in Requests \cup {NoEvent}
  BY DEF EventsInv, EventsTypeOK, HandInv
<1>s. ASSUME wire' = wire, msg' = msg, events' = events PROVE Pending' = Pending
  BY <1>s DEF Pending, Hand
<1>a. ASSUME request' = request PROVE Accepted' = Accepted
  BY <1>a DEF Accepted
(* doPublish returns without having sent the event. *)
<1>r. ASSUME Return, UNCHANGED amqpVars, request' = request PROVE Abstract
  <2>1. Loses(Len(wire), Len(events)) /\ Len(wire) \in 0..Len(Pending)
          /\ Len(events) \in 0..Len(Pending) /\ Len(wire) + Len(events) <= Len(Pending)
    BY <1>r, <1>a, ReturnLoses DEF Loses
  <2> QED BY <2>1 DEF Abstract
<1>t. ASSUME Sent, Return, msg \in Requests, request' = request PROVE Abstract
  BY <1>t, <1>a, SentKeepsPending DEF Abstract, Unmoved, Sent
<1>b. ASSUME BreakChannel, msg' = msg, events' = events, request' = request PROVE Abstract
  <2> DEFINE k == Len(Hand \o events)
  <2>1. k \in 0..Len(Pending)
        /\ Pending' = SubSeq(Pending, 1, 0) \o SubSeq(Pending, Len(Pending) - k + 1, Len(Pending))
    BY <1>b, BreakLoses DEF BreakChannel
  <2>2. Loses(0, k)
    BY <1>b, <1>a, <2>1 DEF Loses, BreakChannel
  <2>3. Len(Pending) \in Nat
    BY PendingParts, LenProperties
  <2> HIDE DEF k
  <2>4. 0 \in 0..Len(Pending) /\ 0 + k <= Len(Pending)
    BY <2>1, <2>3
  <2> QED BY <2>1, <2>2, <2>4 DEF Abstract
<1>1. ASSUME NEW r \in Requests, Statement(r) PROVE Abstract
  <2>1. Accepted' = Accepted
    BY <1>0, <1>1 DEF Statement, Answer, Accepted
  <2> QED BY <1>1, <1>s, <2>1 DEF Statement, Abstract, Unmoved
<1>2. ASSUME NEW r \in Requests, Publish(r) PROVE Abstract
  <2>1. r \notin Accepted
    BY <1>2 DEF Publish, Accepted
  <2>2. CASE Len(events) < QueueSize
    <3>1. Accepted' = Accepted \cup {r}
      BY <1>0, <1>2, <2>2 DEF Publish, Answer, Accepted
    <3>2. /\ wire' = wire /\ msg' = msg /\ events' = Append(events, r) /\ exchange' = exchange
      BY <1>2, <2>2 DEF Publish
    <3>3. Append(events, r) = events \o <<r>> /\ Append(Pending, r) = Pending \o <<r>>
          /\ <<r>> \in Seq(Requests)
      BY PendingParts, AppendIsConcat
    <3>4. (wire \o Hand) \o (events \o <<r>>) = ((wire \o Hand) \o events) \o <<r>>
      BY <3>3, PendingParts, ConcatAssociative
    <3>5. Pending' = Append(Pending, r)
      BY <3>2, <3>3, <3>4 DEF Pending, Hand
    <3> QED BY <2>1, <3>1, <3>2, <3>5 DEF Abstract
  <2>3. CASE ~(Len(events) < QueueSize)
    <3>1. Accepted' = Accepted
      BY <1>0, <1>2, <2>3 DEF Publish, Answer, Accepted
    <3> QED BY <1>2, <1>s, <2>3, <3>1 DEF Publish, Abstract, Unmoved
  <2> QED BY <2>2, <2>3
<1>3. ASSUME Take PROVE Abstract
  BY <1>3, <1>a, TakeKeepsPending DEF Take, Abstract, Unmoved
<1>4. ASSUME PublishOnce PROVE Abstract
  <2>1. CASE chOpen
    BY <1>0, <1>4, <1>t, <2>1 DEF PublishOnce
  <2>2. CASE ~chOpen
    BY <1>4, <1>s, <1>a, <2>2 DEF PublishOnce, Abstract, Unmoved
  <2> QED BY <2>1, <2>2
<1>5. ASSUME ReconnectOnce PROVE Abstract
  <2>1. CASE UNCHANGED <<events, msg, wire, exchange>>
    BY <1>5, <1>s, <1>a, <2>1 DEF ReconnectOnce, Abstract, Unmoved
  <2>2. CASE Return /\ UNCHANGED amqpVars
    BY <1>5, <1>r, <2>2 DEF ReconnectOnce
  <2> QED BY <1>5, <2>1, <2>2 DEF ReconnectOnce
<1>6. ASSUME Retry PROVE Abstract
  <2>1. CASE chOpen
    BY <1>0, <1>6, <1>t, <2>1 DEF Retry
  <2>2. CASE ~chOpen
    BY <1>6, <1>r, <2>2 DEF Retry
  <2> QED BY <2>1, <2>2
<1>7. ASSUME Arrive PROVE Abstract
  <2>1. /\ Head(wire) \in Requests /\ Tail(wire) \in Seq(Requests)
        /\ wire = <<Head(wire)>> \o Tail(wire)
    BY <1>7, PendingParts, HeadTailConcat DEF Arrive
  <2> DEFINE rest == Hand \o events
  <2>2. /\ Tail(wire) \o rest \in Seq(Requests)
        /\ Pending = <<Head(wire)>> \o (Tail(wire) \o rest)
    <3>1. rest \in Seq(Requests) /\ <<Head(wire)>> \in Seq(Requests) /\ Pending = wire \o rest
      BY <2>1, PendingParts
    <3> HIDE DEF rest
    <3>2. (<<Head(wire)>> \o Tail(wire)) \o rest = <<Head(wire)>> \o (Tail(wire) \o rest)
      BY ONLY <2>1, <3>1, ConcatAssociative
    <3>3. Tail(wire) \o rest \in Seq(Requests)
      BY ONLY <2>1, <3>1, ConcatProperties
    <3> QED BY <2>1, <3>1, <3>2, <3>3, Zenon
  <2>3. Pending # <<>> /\ Head(Pending) = Head(wire) /\ Tail(Pending) = Tail(wire) \o rest
    BY <2>1, <2>2, ConsParts
  <2>4. Pending' = Tail(wire) \o rest
    <3>1. wire' = Tail(wire) /\ msg' = msg /\ events' = events
      BY <1>7 DEF Arrive
    <3>2. Pending' = (Tail(wire) \o Hand) \o events
      BY <3>1 DEF Pending, Hand
    <3>3. (Tail(wire) \o Hand) \o events = Tail(wire) \o (Hand \o events)
      <4>1. Tail(wire) \in Seq(Requests) /\ Hand \in Seq(Requests) /\ events \in Seq(Requests)
        BY <2>1, PendingParts
      <4> QED BY ONLY <4>1, ConcatAssociative
    <3> QED BY <3>2, <3>3
  <2> QED BY <1>7, <1>a, <2>3, <2>4 DEF Arrive, Abstract
<1>8. ASSUME ConnectionBreaks PROVE Abstract
  BY <1>8, <1>b DEF ConnectionBreaks
<1>9. ASSUME RabbitStops PROVE Abstract
  BY <1>9, <1>b DEF RabbitStops
<1>10. ASSUME RabbitStarts PROVE Abstract
  BY <1>10, <1>s, <1>a DEF RabbitStarts, Abstract, Unmoved
<1>11. ASSUME Crash PROVE Abstract
  <2>1. Accepted' = Accepted
    BY <1>0, <1>11 DEF Crash, Accepted
  <2>2. Pending' = <<>> /\ exchange' = exchange
    <3>1. Pending' = (<<>> \o <<>>) \o <<>>
      BY <1>11 DEF Crash, BreakChannel, Pending, Hand
    <3>2. <<>> \o <<>> = <<>>
      BY EmptySeq, ConcatEmptySeq
    <3> QED BY <1>11, <3>1, <3>2 DEF Crash, BreakChannel
  <2>3. Len(Pending) \in Nat /\ Pending \in Seq(Requests)
    BY PendingParts, LenProperties
  <2>4. SubSeq(Pending, 1, 0) = <<>> /\ SubSeq(Pending, Len(Pending) - 0 + 1, Len(Pending)) = <<>>
    BY <2>3, SubSeqEmpty
  <2>5. Loses(0, 0)
    <3>1. <<>> \o <<>> = <<>>
      BY EmptySeq, ConcatEmptySeq
    <3> QED BY <2>1, <2>2, <2>4, <3>1, Zenon DEF Loses
  <2>6. 0 \in 0..Len(Pending) /\ 0 + 0 <= Len(Pending)
    BY <2>3
  <2> QED BY <2>5, <2>6, Zenon DEF Abstract
<1>12. ASSUME Restart PROVE Abstract
  BY <1>12, <1>s, <1>a DEF Restart, Abstract, Unmoved
<1> QED
  BY <1>1, <1>2, <1>3, <1>4, <1>5, <1>6, <1>7, <1>8, <1>9, <1>10, <1>11, <1>12
  DEF EventsNext, PublishLoop

(* The publisher implements the lossy FIFO: whatever the connection, the   *)
(* broker and the process do, no event overtakes another or comes twice    *)
(* (publisher.go publishLoop, doPublish).                                  *)
THEOREM PublisherIsLossyFifo == EventsSpec => IsLossyFifo
<1>1. EventsInit => Fifo!FifoInit
  <2>1. <<>> \o <<>> = <<>>
    BY EmptySeq, ConcatEmptySeq
  <2> QED BY <2>1 DEF EventsInit, Fifo!FifoInit
<1>2. EventsInv /\ [EventsNext]_eventVars => [Fifo!FifoNext]_(Fifo!fifoVars)
  <2>1. CASE EventsNext
    BY <2>1, FifoStep, AbstractIsFifo
  <2>2. ASSUME EventsInv, UNCHANGED eventVars PROVE Unmoved
    BY <2>2 DEF eventVars, publisherVars, amqpVars, Unmoved, Accepted, Pending, Hand
  <2> QED BY <2>1, <2>2, AbstractIsFifo DEF Abstract
<1> QED BY <1>1, <1>2, EventsInvariant, PTL DEF EventsSpec, IsLossyFifo, Fifo!FifoSpec

----------------------------------------------------------------------------
(* Losses                                                                  *)

Reason(r) ==
  \/ loop' = "down"
  \/ r \in Range(wire) /\ ~chOpen'
  \/ r = msg /\ loop \in {"reconnect", "retry"} /\ ~chOpen

(* An event that a step loses is lost for one of the reasons. *)
LEMMA LossStep ==
  ASSUME EventsInv, EventsNext, NEW r \in Requests, ~Lost(r), Lost(r)'
  PROVE  Reason(r)
<1>0. /\ events \in Seq(Requests) /\ wire \in Seq(Requests) /\ exchange \in Seq(Requests)
      /\ request \in [Requests -> {"new", "committed", "accepted", "dropped", "failed"}]
      /\ msg = NoEvent <=> loop \in {"idle", "down"}
      /\ msg \in Requests \cup {NoEvent} /\ r # NoEvent
      /\ loop = "reconnect" => ~chOpen
  BY ListEventsAssumption DEF EventsInv, EventsTypeOK, HandInv
<1> USE DEF publisherVars, amqpVars, NoFault, Lost, Waiting, Reason
<1>1. ASSUME NEW q \in Requests, Statement(q) PROVE Reason(r)
  BY <1>0, <1>1 DEF Statement, Answer
<1>2. ASSUME NEW q \in Requests, Publish(q) PROVE Reason(r)
  <2>1. CASE Len(events) < QueueSize
    <3>1. events' = Append(events, q)
      BY <1>2, <2>1 DEF Publish
    <3>2. Range(events') = Range(events) \cup {q}
      BY <1>0, <3>1, AppendRange
    <3>3. request'[r] = request[r] \/ r = q
      BY <1>0, <1>2, <2>1 DEF Publish, Answer
    <3> QED BY <1>2, <3>2, <3>3 DEF Publish
  <2>2. CASE ~(Len(events) < QueueSize)
    <3>1. request'[r] = request[r] \/ request'[r] = "dropped"
      BY <1>0, <1>2, <2>2 DEF Publish, Answer
    <3> QED BY <1>2, <2>2, <3>1 DEF Publish
  <2> QED BY <2>1, <2>2
<1>3. ASSUME Take PROVE Reason(r)
  <2>1. Range(events) = {msg'} \cup Range(events')
    BY <1>0, <1>3, HeadTailConcat DEF Take
  <2> QED BY <1>0, <1>3, <2>1 DEF Take
<1>s. ASSUME msg \in Requests, Sent PROVE Range(wire') = Range(wire) \cup {msg} /\ exchange' = exchange
  BY <1>0, <1>s, AppendRange DEF Sent
<1>4. ASSUME PublishOnce PROVE Reason(r)
  <2>1. CASE chOpen
    BY <1>0, <1>4, <1>s, <2>1 DEF PublishOnce, Return
  <2>2. CASE ~chOpen
    BY <1>0, <1>4, <2>2 DEF PublishOnce
  <2> QED BY <2>1, <2>2
<1>5. ASSUME ReconnectOnce PROVE Reason(r)
  BY <1>0, <1>5 DEF ReconnectOnce, Return
<1>6. ASSUME Retry PROVE Reason(r)
  <2>1. CASE chOpen
    BY <1>0, <1>6, <1>s, <2>1 DEF Retry, Return
  <2>2. CASE ~chOpen
    BY <1>0, <1>6, <2>2 DEF Retry, Return
  <2> QED BY <2>1, <2>2
<1>7. ASSUME Arrive PROVE Reason(r)
  <2>1. wire # <<>> /\ exchange' = Append(exchange, Head(wire)) /\ wire' = Tail(wire)
    BY <1>7 DEF Arrive
  <2>2. Head(wire) \in Requests /\ Range(wire) = {Head(wire)} \cup Range(Tail(wire))
    BY <1>0, <2>1, HeadTailConcat
  <2>3. Range(Append(exchange, Head(wire))) = Range(exchange) \cup {Head(wire)}
    BY <1>0, <2>2, AppendRange
  <2> QED BY <1>0, <1>7, <2>1, <2>2, <2>3 DEF Arrive
<1>8. ASSUME ConnectionBreaks PROVE Reason(r)
  BY <1>0, <1>8 DEF ConnectionBreaks, BreakChannel
<1>9. ASSUME RabbitStops PROVE Reason(r)
  BY <1>0, <1>9 DEF RabbitStops, BreakChannel
<1>10. ASSUME RabbitStarts PROVE Reason(r)
  BY <1>0, <1>10 DEF RabbitStarts
<1>11. ASSUME Crash PROVE Reason(r)
  BY <1>0, <1>11 DEF Crash, BreakChannel
<1>12. ASSUME Restart PROVE Reason(r)
  BY <1>0, <1>12 DEF Restart
<1> QED
  BY <1>1, <1>2, <1>3, <1>4, <1>5, <1>6, <1>7, <1>8, <1>9, <1>10, <1>11, <1>12
  DEF EventsNext, PublishLoop

(* An accepted event is lost by a crash, by a break that catches it on the *)
(* wire, or when the reconnect or the retry fails, and by nothing else     *)
(* (publisher.go doPublish).                                               *)
THEOREM LossesAreExplained == EventsSpec => LossesExplained
<1>1. EventsInv /\ [EventsNext]_eventVars
        => [\A r \in Requests : ~Lost(r) /\ Lost(r)' => Reason(r)]_eventVars
  BY LossStep
<1> QED BY <1>1, EventsInvariant, PTL DEF EventsSpec, LossesExplained, Reason

----------------------------------------------------------------------------
(* The order                                                               *)

(* Of the events received so far (e) and those under way (p), no b comes   *)
(* before an a; no event is before itself, if it is there at most once.    *)
Ordered(e, p, a, b) ==
  /\ \A i, j \in DOMAIN e : e[i] = a /\ e[j] = b => i <= j
  /\ \A i, j \in 1..Len(p) : p[i] = a /\ p[j] = b => i <= j
  /\ a \in Range(p) => b \notin Range(e)

(* One more event at the end. *)
LEMMA AcceptKeepsOrder ==
  ASSUME NEW S, NEW e \in Seq(S), NEW p \in Seq(S), NEW a, NEW b, Ordered(e, p, a, b),
         NEW r \in S, r # a
  PROVE  Ordered(e, Append(p, r), a, b)
<1>1. Range(Append(p, r)) = Range(p) \cup {r} /\ Append(p, r) \in Seq(S)
  BY AppendRange
<1>2. /\ Len(p) \in Nat /\ Len(Append(p, r)) = Len(p) + 1
      /\ \A i \in 1..Len(p) : Append(p, r)[i] = p[i]
      /\ Append(p, r)[Len(p) + 1] = r
  BY AppendProperties, LenProperties
<1> DEFINE q == Append(p, r)
<1> HIDE DEF q
<1>3. \A i, j \in 1..Len(q) : q[i] = a /\ q[j] = b => i <= j
  <2>1. ASSUME NEW i \in 1..Len(q), NEW j \in 1..Len(q), q[i] = a, q[j] = b
        PROVE  i <= j
    <3>1. i \in 1..Len(p) /\ p[i] = a
      BY <1>2, <2>1 DEF q
    <3>2. CASE j \in 1..Len(p)
      BY <1>2, <2>1, <3>1, <3>2 DEF Ordered, q
    <3>3. CASE j = Len(p) + 1
      BY <1>2, <3>1, <3>3
    <3> QED
      BY <1>2, <3>2, <3>3 DEF q
  <2> QED
    BY <2>1
<1> QED
  BY <1>1, <1>3 DEF Ordered, q

(* The first of those under way is received. *)
LEMMA DeliverKeepsOrder ==
  ASSUME NEW S, NEW e \in Seq(S), NEW p \in Seq(S), NEW a, NEW b, Ordered(e, p, a, b), p # <<>>
  PROVE  Ordered(Append(e, Head(p)), Tail(p), a, b)
<1>1. /\ Head(p) \in S /\ Tail(p) \in Seq(S) /\ Len(p) \in Nat /\ Len(p) > 0
      /\ Len(Tail(p)) = Len(p) - 1 /\ Head(p) = p[1]
      /\ \A i \in 1..Len(Tail(p)) : Tail(p)[i] = p[i + 1]
      /\ Range(p) = {Head(p)} \cup Range(Tail(p))
  <2>1. Head(p) \in S /\ Tail(p) \in Seq(S) /\ Range(p) = {Head(p)} \cup Range(Tail(p))
    BY HeadTailConcat
  <2>2. Len(p) \in Nat /\ Len(p) # 0
    BY LenProperties, EmptySeq
  <2>3. /\ Len(Tail(p)) = Len(p) - 1
        /\ \A i \in 1..Len(Tail(p)) : Tail(p)[i] = p[i + 1]
    BY HeadTailProperties
  <2>4. Head(p) = p[1]
    OBVIOUS
  <2> QED
    BY <2>1, <2>2, <2>3, <2>4
<1> DEFINE h == Head(p)
           t == Tail(p)
           f == Append(e, h)
<1>2. /\ Range(f) = Range(e) \cup {h}
      /\ Len(e) \in Nat /\ DOMAIN f = 1..Len(e) + 1 /\ DOMAIN e = 1..Len(e)
      /\ \A i \in 1..Len(e) : f[i] = e[i]
      /\ f[Len(e) + 1] = h
  BY <1>1, AppendRange, AppendProperties, LenProperties
<1> HIDE DEF h, t, f
<1>3. \A i, j \in DOMAIN f : f[i] = a /\ f[j] = b => i <= j
  <2>1. ASSUME NEW i \in DOMAIN f, NEW j \in DOMAIN f, f[i] = a, f[j] = b
        PROVE  i <= j
    <3>1. CASE i = Len(e) + 1
      <4>1. h = a /\ a \in Range(p)
        BY <1>1, <1>2, <2>1, <3>1 DEF h
      <4>2. b \notin Range(e)
        BY <4>1 DEF Ordered
      <4>3. j \notin 1..Len(e)
        BY <1>2, <2>1, <4>2 DEF Range
      <4> QED
        BY <1>2, <3>1, <4>3
    <3>2. CASE i \in 1..Len(e) /\ j = Len(e) + 1
      BY <1>2, <3>2
    <3>3. CASE i \in 1..Len(e) /\ j \in 1..Len(e)
      BY <1>2, <2>1, <3>3 DEF Ordered
    <3> QED
      BY <1>2, <3>1, <3>2, <3>3
  <2> QED
    BY <2>1
<1>4. \A i, j \in 1..Len(t) : t[i] = a /\ t[j] = b => i <= j
  <2>1. ASSUME NEW i \in 1..Len(t), NEW j \in 1..Len(t), t[i] = a, t[j] = b
        PROVE  i <= j
    <3>1. i + 1 \in 1..Len(p) /\ j + 1 \in 1..Len(p) /\ p[i + 1] = a /\ p[j + 1] = b
      BY <1>1, <2>1 DEF t
    <3>2. i + 1 <= j + 1
      BY <3>1 DEF Ordered
    <3> QED
      BY <3>2
  <2> QED
    BY <2>1
<1>5. ASSUME a \in Range(t)
      PROVE  b \notin Range(f)
  <2>1. b \notin Range(e)
    BY <1>1, <1>5 DEF Ordered, t
  <2>2. PICK i \in 1..Len(t) : t[i] = a
    BY <1>1, <1>5, LenProperties DEF Range, t
  <2>3. p[i + 1] = a /\ i + 1 \in 1..Len(p) /\ i \in Nat /\ i > 0 /\ 1 \in 1..Len(p)
    BY <1>1, <2>2 DEF t
  <2>4. h # b
    BY <1>1, <2>3 DEF Ordered, h
  <2> QED
    BY <1>2, <2>1, <2>4
<1> QED
  BY <1>3, <1>4, <1>5 DEF Ordered, h, t, f

(* A run of those under way is lost. *)
LEMMA LossKeepsOrder ==
  ASSUME NEW S, NEW e \in Seq(S), NEW p \in Seq(S), NEW a, NEW b, Ordered(e, p, a, b),
         NEW i \in 0..Len(p), NEW k \in 0..Len(p), i + k <= Len(p)
  PROVE  Ordered(e, SubSeq(p, 1, i) \o SubSeq(p, Len(p) - k + 1, Len(p)), a, b)
<1>0. Len(p) \in Nat /\ \A x \in 1..Len(p) : p[x] \in S
  BY LenProperties, ElementOfSeq
<1> DEFINE front == SubSeq(p, 1, i)
           back == SubSeq(p, Len(p) - k + 1, Len(p))
           q == front \o back
           at(x) == IF x <= i THEN x ELSE x + Len(p) - i - k
<1>1. front \in Seq(S) /\ Len(front) = i /\ \A x \in 1..i : front[x] = p[x]
  BY <1>0, SubSeqProperties
<1>2. /\ back \in Seq(S) /\ Len(back) = k
      /\ \A x \in 1..k : back[x] = p[Len(p) - k + x]
  BY <1>0, SubSeqProperties
<1> HIDE DEF front, back
<1>3. /\ q \in Seq(S) /\ Len(q) = i + k
      /\ \A x \in 1..(i + k) : q[x] = IF x <= i THEN front[x] ELSE back[x - i]
  BY <1>1, <1>2, ConcatProperties
<1> HIDE DEF q
<1>4. ASSUME NEW x \in 1..Len(q)
      PROVE  at(x) \in 1..Len(p) /\ q[x] = p[at(x)]
  <2>1. CASE x <= i
    BY <2>1, <1>0, <1>1, <1>3, <1>4
  <2>2. CASE ~(x <= i)
    <3>1. x - i \in 1..k /\ Len(p) - k + (x - i) = x + Len(p) - i - k
      BY <2>2, <1>0, <1>3, <1>4
    <3>2. q[x] = back[x - i]
      BY <2>2, <1>3, <1>4
    <3>3. back[x - i] = p[x + Len(p) - i - k]
      BY <3>1, <1>2
    <3> QED
      BY <2>2, <3>2, <3>3, <1>0, <1>3, <1>4
  <2> QED
    BY <2>1, <2>2
<1>5. ASSUME NEW x \in 1..Len(q), NEW y \in 1..Len(q), q[x] = a, q[y] = b
      PROVE  x <= y
  <2>1. at(x) <= at(y)
    BY <1>4, <1>5 DEF Ordered
  <2> QED
    BY <2>1, <1>0, <1>3, <1>5
<1>6. a \in Range(q) => a \in Range(p)
  <2>1. DOMAIN q = 1..Len(q) /\ DOMAIN p = 1..Len(p)
    BY <1>3, LenProperties
  <2> HIDE DEF at
  <2> QED
    BY <2>1, <1>4 DEF Range
<1> QED
  BY <1>5, <1>6 DEF Ordered, q, front, back

(* A request that is still to be served has no event yet. *)
NewUnchanged == \A r \in Requests : request[r] = "new" => r \notin changed

LEMMA NewUnchangedInvariant == EventsSpec => [](EventsInv /\ NewUnchanged)
<1>1. EventsInit => NewUnchanged
  BY DEF EventsInit, NewUnchanged
<1>2. EventsInv /\ NewUnchanged /\ [EventsNext]_eventVars => NewUnchanged'
  <2> SUFFICES ASSUME EventsInv, NewUnchanged, [EventsNext]_eventVars
               PROVE  NewUnchanged'
    OBVIOUS
  <2>0. request \in [Requests -> {"new", "committed", "accepted", "dropped", "failed"}]
    BY DEF EventsInv, EventsTypeOK
  <2>1. ASSUME NEW r \in Requests, Statement(r) \/ Publish(r)
        PROVE  NewUnchanged'
    BY <2>0, <2>1 DEF Statement, Publish, Answer, NewUnchanged
  <2>2. CASE Crash
    BY <2>0, <2>2 DEF Crash, NewUnchanged
  <2>3. CASE UNCHANGED <<request, changed>>
    BY <2>3 DEF NewUnchanged
  <2>4. UNCHANGED <<request, changed>> \/ Crash \/ \E r \in Requests : Statement(r) \/ Publish(r)
    BY DEF EventsNext, PublishLoop, Take, PublishOnce, ReconnectOnce, Retry, Arrive,
           ConnectionBreaks, RabbitStops, RabbitStarts, Restart, eventVars
  <2> QED
    BY <2>1, <2>2, <2>3, <2>4
<1> QED
  BY <1>1, <1>2, EventsInvariant, PTL DEF EventsSpec

InTurn(a, b) == a \in Accepted /\ Ordered(exchange, Pending, a, b)

LEMMA OrderStep ==
  ASSUME EventsInv, [EventsNext]_eventVars, NEW a \in Requests, NEW b \in Requests, InTurn(a, b)
  PROVE  InTurn(a, b)'
<1>0. exchange \in Seq(Requests) /\ Pending \in Seq(Requests)
  BY PendingParts DEF EventsInv, EventsTypeOK
<1>1. Abstract
  <2>1. CASE UNCHANGED eventVars
    BY <2>1 DEF eventVars, publisherVars, amqpVars, Abstract, Unmoved, Accepted, Pending, Hand
  <2> QED
    BY <2>1, FifoStep
<1>2. ASSUME NEW r \in Requests, r \notin Accepted, Accepted' = Accepted \cup {r},
             Pending' = Append(Pending, r), exchange' = exchange
      PROVE  InTurn(a, b)'
  <2>1. r # a
    BY <1>2 DEF InTurn
  <2>2. Ordered(exchange, Append(Pending, r), a, b)
    BY <1>0, <2>1, AcceptKeepsOrder DEF InTurn
  <2> QED
    BY <1>2, <2>2 DEF InTurn
<1>3. ASSUME Pending # <<>>, exchange' = Append(exchange, Head(Pending)),
             Pending' = Tail(Pending), Accepted' = Accepted
      PROVE  InTurn(a, b)'
  <2>1. Ordered(Append(exchange, Head(Pending)), Tail(Pending), a, b)
    BY <1>0, <1>3, DeliverKeepsOrder DEF InTurn
  <2> QED
    BY <1>3, <2>1 DEF InTurn
<1>4. ASSUME NEW i \in 0..Len(Pending), NEW k \in 0..Len(Pending), i + k <= Len(Pending),
             Loses(i, k)
      PROVE  InTurn(a, b)'
  <2>1. Ordered(exchange, SubSeq(Pending, 1, i)
                            \o SubSeq(Pending, Len(Pending) - k + 1, Len(Pending)), a, b)
    BY <1>0, <1>4, LossKeepsOrder DEF InTurn
  <2> QED
    BY <1>4, <2>1 DEF InTurn, Loses
<1>5. ASSUME Unmoved
      PROVE  InTurn(a, b)'
  BY <1>5 DEF Unmoved, InTurn
<1> QED
  BY <1>1, <1>2, <1>3, <1>4, <1>5 DEF Abstract

(* Of two requests, the second sent after the first was answered, the      *)
(* events reach the exchange in that order if both do, whatever is lost    *)
(* between them (list_service.go, publisher.go).                           *)
THEOREM AnsweredFirstIsFirst == EventsSpec => AnsweredFirstComesFirst
<1>1. ASSUME NEW a \in Requests, NEW b \in Requests
      PROVE  EventsSpec => [](request[a] = "accepted" /\ request[b] = "new" => []InOrder(a, b))
  <2>1. CASE a = b
    <3>1. ~(request[a] = "accepted" /\ request[b] = "new")
      BY <2>1
    <3> QED
      BY <3>1, PTL
  <2>2. CASE a # b
    <3>1. EventsInv /\ NewUnchanged /\ request[a] = "accepted" /\ request[b] = "new"
            => InTurn(a, b)
      <4> SUFFICES ASSUME EventsInv, NewUnchanged, request[a] = "accepted", request[b] = "new"
                   PROVE  InTurn(a, b)
        OBVIOUS
      <4>1. b \notin Waiting \cup Range(exchange)
        BY DEF NewUnchanged, EventsInv, NoPhantomEvents
      <4>2. Range(Hand) \subseteq {msg} \ {NoEvent}
        BY DEF Hand, Range
      <4>3. Range(Pending) = Range(wire) \cup Range(Hand) \cup Range(events)
        <5>1. /\ wire \in Seq(Requests) /\ Hand \in Seq(Requests) /\ events \in Seq(Requests)
              /\ wire \o Hand \in Seq(Requests)
          BY PendingParts
        <5>2. Range(wire \o Hand) = Range(wire) \cup Range(Hand)
          BY <5>1, RangeConcatenation
        <5> DEFINE sent == wire \o Hand
        <5> HIDE DEF sent
        <5>3. sent \in Seq(Requests)
          BY <5>1 DEF sent
        <5>4. Range(sent \o events) = Range(sent) \cup Range(events)
          BY <5>1, <5>3, RangeConcatenation
        <5> QED
          BY <5>2, <5>4 DEF Pending, sent
      <4>4. b \notin Range(Pending) /\ b \notin Range(exchange)
        BY <4>1, <4>2, <4>3 DEF Waiting
      <4>5. DOMAIN Pending = 1..Len(Pending)
        BY PendingParts, LenProperties
      <4>6. \A j \in DOMAIN exchange : exchange[j] # b
        BY <4>4 DEF Range
      <4>7. \A j \in 1..Len(Pending) : Pending[j] # b
        BY <4>4, <4>5 DEF Range
      <4> QED
        BY <4>4, <4>6, <4>7 DEF InTurn, Ordered, Accepted
    <3>2. EventsInv /\ InTurn(a, b) /\ [EventsNext]_eventVars => InTurn(a, b)'
      BY OrderStep
    <3>3. EventsInv /\ InTurn(a, b) => InOrder(a, b)
      <4> SUFFICES ASSUME EventsInv, InTurn(a, b), NEW i \in DOMAIN exchange,
                          NEW j \in DOMAIN exchange, exchange[i] = a, exchange[j] = b
                   PROVE  i < j
        BY DEF InOrder
      <4>1. i <= j /\ i # j
        BY <2>2 DEF InTurn, Ordered
      <4>2. i \in Nat /\ j \in Nat
        BY LenProperties DEF EventsInv, EventsTypeOK
      <4> QED
        BY <4>1, <4>2
    <3> QED
      BY <3>1, <3>2, <3>3, NewUnchangedInvariant, PTL DEF EventsSpec
  <2> QED
    BY <2>1, <2>2
<1> QED
  BY <1>1 DEF AnsweredFirstComesFirst

----------------------------------------------------------------------------
(* At most once                                                            *)

(* A loss adds nothing. *)
LEMMA LossRange ==
  ASSUME NEW S, NEW p \in Seq(S), NEW i \in 0..Len(p), NEW k \in 0..Len(p), i + k <= Len(p)
  PROVE  Range(SubSeq(p, 1, i) \o SubSeq(p, Len(p) - k + 1, Len(p))) \subseteq Range(p)
<1>0. Len(p) \in Nat /\ DOMAIN p = 1..Len(p) /\ \A x \in 1..Len(p) : p[x] \in S
  BY LenProperties, ElementOfSeq
<1> DEFINE front == SubSeq(p, 1, i)
           back == SubSeq(p, Len(p) - k + 1, Len(p))
<1>1. front \in Seq(S) /\ Len(front) = i /\ \A x \in 1..i : front[x] = p[x]
  BY <1>0, SubSeqProperties
<1>2. /\ back \in Seq(S) /\ Len(back) = k
      /\ \A x \in 1..k : back[x] = p[Len(p) - k + x]
  BY <1>0, SubSeqProperties
<1> HIDE DEF front, back
<1>3. Range(front) \subseteq Range(p)
  BY <1>0, <1>1, LenProperties DEF Range
<1>4. Range(back) \subseteq Range(p)
  <2>1. \A x \in 1..k : Len(p) - k + x \in 1..Len(p)
    BY <1>0
  <2>2. Range(back) = {back[x] : x \in 1..k}
    BY <1>2, LenProperties DEF Range
  <2>3. ASSUME NEW x \in 1..k PROVE back[x] \in Range(p)
    BY <1>0, <1>2, <2>1, <2>3 DEF Range
  <2> QED
    BY <2>2, <2>3
<1>5. Range(front \o back) = Range(front) \cup Range(back)
  BY <1>1, <1>2, RangeConcatenation
<1> QED
  BY <1>3, <1>4, <1>5 DEF front, back

(* Only accepted events are under way or have arrived. *)
OnlyAccepted == Range(Pending) \cup Range(exchange) \subseteq Accepted

(* And each of them is in one place. *)
OnceInv == OnlyAccepted /\ \A r \in Accepted : Ordered(exchange, Pending, r, r)

LEMMA OnlyAcceptedStep ==
  ASSUME EventsInv, OnlyAccepted, Abstract
  PROVE  OnlyAccepted'
<1>0. exchange \in Seq(Requests) /\ Pending \in Seq(Requests)
  BY PendingParts DEF EventsInv, EventsTypeOK
<1>1. ASSUME NEW r \in Requests, Accepted' = Accepted \cup {r},
             Pending' = Append(Pending, r), exchange' = exchange
      PROVE  OnlyAccepted'
  <2>1. Range(Append(Pending, r)) = Range(Pending) \cup {r}
    BY <1>0, AppendRange
  <2> QED
    BY <1>1, <2>1 DEF OnlyAccepted
<1>2. ASSUME Pending # <<>>, exchange' = Append(exchange, Head(Pending)),
             Pending' = Tail(Pending), Accepted' = Accepted
      PROVE  OnlyAccepted'
  <2>1. Head(Pending) \in Requests /\ Range(Pending) = {Head(Pending)} \cup Range(Tail(Pending))
    BY <1>0, <1>2, HeadTailConcat
  <2>2. Range(Append(exchange, Head(Pending))) = Range(exchange) \cup {Head(Pending)}
    BY <1>0, <2>1, AppendRange
  <2> QED
    BY <1>2, <2>1, <2>2 DEF OnlyAccepted
<1>3. ASSUME NEW i \in 0..Len(Pending), NEW k \in 0..Len(Pending), i + k <= Len(Pending),
             Loses(i, k)
      PROVE  OnlyAccepted'
  <2>1. Range(Pending') \subseteq Range(Pending)
    BY <1>0, <1>3, LossRange DEF Loses
  <2> QED
    BY <1>3, <2>1 DEF OnlyAccepted, Loses
<1>4. CASE Unmoved
  BY <1>4 DEF Unmoved, OnlyAccepted
<1> QED
  BY <1>1, <1>2, <1>3, <1>4 DEF Abstract

(* An event that is nowhere and is put at the end is there once. *)
LEMMA FreshIsOnce ==
  ASSUME NEW S, NEW e \in Seq(S), NEW p \in Seq(S), NEW r \in S,
         r \notin Range(e), r \notin Range(p)
  PROVE  Ordered(e, Append(p, r), r, r)
<1>1. /\ Len(p) \in Nat /\ Len(Append(p, r)) = Len(p) + 1
      /\ \A i \in 1..Len(p) : Append(p, r)[i] = p[i]
      /\ DOMAIN p = 1..Len(p)
  BY AppendProperties, LenProperties
<1>2. \A i \in 1..Len(p) : Append(p, r)[i] # r
  BY <1>1 DEF Range
<1>3. \A i \in DOMAIN e : e[i] # r
  BY DEF Range
<1> DEFINE q == Append(p, r)
<1> HIDE DEF q
<1>4. \A i \in 1..Len(q) : q[i] = r => i = Len(p) + 1
  BY <1>1, <1>2 DEF q
<1>5. \A i, j \in 1..Len(q) : q[i] = r /\ q[j] = r => i <= j
  BY <1>1, <1>4
<1> QED
  BY <1>3, <1>5 DEF Ordered, q

(* The event of a request reaches the exchange at most once, and only if   *)
(* the queue took it: neither the retry on a new channel nor a crash sends *)
(* one again (publisher.go Publish, doPublish).                            *)
AtMostOnce ==
  /\ \A i, j \in DOMAIN exchange : exchange[i] = exchange[j] => i = j
  /\ \A r \in Range(exchange) : request[r] = "accepted"

THEOREM EachEventOnce == EventsSpec => []AtMostOnce
<1>1. EventsInit => OnceInv
  <2> SUFFICES ASSUME EventsInit PROVE OnceInv
    OBVIOUS
  <2>1. Pending = <<>> /\ exchange = <<>> /\ Accepted = {}
    BY DEF EventsInit, Pending, Hand, Accepted
  <2>2. Range(Pending) = {} /\ Range(exchange) = {}
    BY <2>1 DEF Range
  <2> QED
    BY <2>1, <2>2 DEF OnceInv, OnlyAccepted
<1>2. EventsInv /\ OnceInv /\ [EventsNext]_eventVars => OnceInv'
  <2> SUFFICES ASSUME EventsInv, OnceInv, [EventsNext]_eventVars
               PROVE  OnceInv'
    OBVIOUS
  <2>0. exchange \in Seq(Requests) /\ Pending \in Seq(Requests)
    BY PendingParts DEF EventsInv, EventsTypeOK
  <2>1. Abstract
    <3>1. CASE UNCHANGED eventVars
      BY <3>1 DEF eventVars, publisherVars, amqpVars, Abstract, Unmoved, Accepted, Pending, Hand
    <3> QED
      BY <3>1, FifoStep
  <2>2. OnlyAccepted'
    BY <2>1, OnlyAcceptedStep DEF OnceInv
  <2>3. ASSUME NEW r \in Accepted' PROVE Ordered(exchange, Pending, r, r)'
    <3>1. CASE r \in Accepted
      BY <2>3, <3>1, OrderStep DEF OnceInv, InTurn, Accepted
    <3>2. CASE r \notin Accepted
      <4>1. r \in Requests /\ Pending' = Append(Pending, r) /\ exchange' = exchange
        BY <2>1, <2>3, <3>2 DEF Abstract, Loses, Unmoved
      <4>2. r \notin Range(exchange) /\ r \notin Range(Pending)
        BY <3>2 DEF OnceInv, OnlyAccepted
      <4>3. Ordered(exchange, Append(Pending, r), r, r)
        BY <2>0, <4>1, <4>2, FreshIsOnce
      <4> QED
        BY <4>1, <4>3
    <3> QED
      BY <3>1, <3>2
  <2> QED
    BY <2>2, <2>3 DEF OnceInv
<1>3. EventsInv /\ OnceInv => AtMostOnce
  <2> SUFFICES ASSUME EventsInv, OnceInv PROVE AtMostOnce
    OBVIOUS
  <2>1. ASSUME NEW r \in Range(exchange) PROVE request[r] = "accepted"
    BY <2>1 DEF OnceInv, OnlyAccepted, Accepted
  <2>2. ASSUME NEW i \in DOMAIN exchange, NEW j \in DOMAIN exchange, exchange[i] = exchange[j]
        PROVE  i = j
    <3>1. exchange[i] \in Accepted
      BY DEF OnceInv, OnlyAccepted, Range
    <3>2. i <= j /\ j <= i
      BY <2>2, <3>1 DEF OnceInv, Ordered
    <3>3. i \in Nat /\ j \in Nat
      BY LenProperties DEF EventsInv, EventsTypeOK
    <3> QED
      BY <3>2, <3>3
  <2> QED
    BY <2>1, <2>2 DEF AtMostOnce
<1> QED
  BY <1>1, <1>2, <1>3, EventsInvariant, PTL DEF EventsSpec
=============================================================================
