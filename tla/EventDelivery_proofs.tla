------------------------ MODULE EventDelivery_proofs ------------------------
(***************************************************************************)
(* Theorems about the way of an event, for any ids, any size of the list, of  *)
(* the channel and of the page's memory, and any number of events and        *)
(* sessions.                                                                *)
(*                                                                         *)
(* The list numbers its events without gaps (StoreInv).  What the pump has   *)
(* broadcast or is broadcasting ends at a number, the Frontier, below which   *)
(* it never reads again (PumpInv); what lies in the channel and what was      *)
(* spoken has been broadcast, in order (PageInv).                            *)
(***************************************************************************)
EXTENDS EventDelivery, SequenceTheorems, TLAPS

\* The youngest events of the session, as many as fit.
StoreInv ==
  /\ \A i \in 1 .. Len(events) : events[i].n = added - Len(events) + i
  /\ Len(events) = IF Overflowed THEN MaxEvents ELSE added - base
  /\ lastSession <= session

\* The number of the last event that the pump's cursor has passed.
Frontier ==
  IF lastSession = session THEN added - Len(events) + lastLen ELSE base

Ascending(q) == \A i, j \in 1 .. Len(q) : i < j => q[i].n < q[j].n

PumpInv ==
  /\ lastSession = session => lastLen <= Len(events)
  /\ Ascending(outq)
  /\ \A i \in 1 .. Len(outq) : outq[i].n <= Frontier
  /\ \A i \in 1 .. Len(sent) : sent[i] <= Frontier
  /\ \A i \in 1 .. Len(sent), j \in 1 .. Len(outq) : sent[i] < outq[j].n

PageInv ==
  /\ Ascending(chan)
  /\ \A i \in 1 .. Len(chan) : WasSent(chan[i].n)
  /\ \A i, j \in 1 .. Len(played) : i < j => played[i] < played[j]
  /\ \A i \in 1 .. Len(played) : WasSent(played[i])
  /\ \A i \in 1 .. Len(played), j \in 1 .. Len(chan) : played[i] < chan[j].n

IInv ==
  /\ TypeOK
  /\ StoreInv
  /\ PumpInv
  /\ BroadcastInOrder
  /\ NothingSkipped
  /\ PageInv
  /\ NoSendOnClosed

-----------------------------------------------------------------------------
(* Sequences of events                                                      *)

LEMMA NatConstants ==
  /\ MaxEvents \in Nat /\ MaxEvents > 0 /\ ChanCap \in Nat /\ SeenCap \in Nat
  /\ MaxAdded \in Nat /\ MaxSession \in Nat /\ MaxSession > 0
BY CapAssumption

LEMMA EventNumber == ASSUME NEW ev \in Event PROVE ev.n \in Nat /\ ev.n \in 1 .. MaxAdded
BY NatConstants DEF Event

\* The numbers in the state are naturals.
LEMMA Numbers ==
  ASSUME TypeOK
  PROVE  /\ added \in Nat /\ base \in Nat /\ base <= added /\ lastLen \in Nat
         /\ session \in Nat /\ lastSession \in Nat /\ Len(events) \in Nat
         /\ Len(sent) \in Nat /\ \A i \in 1 .. Len(sent) : sent[i] \in Nat
         /\ Len(outq) \in Nat /\ \A i \in 1 .. Len(outq) : outq[i].n \in Nat
         /\ Len(chan) \in Nat /\ \A i \in 1 .. Len(chan) : chan[i].n \in Nat
         /\ Len(played) \in Nat /\ \A i \in 1 .. Len(played) : played[i] \in Nat
<1> USE NatConstants
<1>1. /\ added \in Nat /\ base \in Nat /\ base <= added /\ lastLen \in Nat
      /\ session \in Nat /\ lastSession \in Nat /\ Len(events) \in Nat
      /\ Len(sent) \in Nat /\ Len(outq) \in Nat /\ Len(chan) \in Nat /\ Len(played) \in Nat
  BY LenProperties DEF TypeOK
<1>2. \A i \in 1 .. Len(sent) : sent[i] \in 1 .. MaxAdded
  BY ElementOfSeq DEF TypeOK
<1>3. \A i \in 1 .. Len(played) : played[i] \in 1 .. MaxAdded
  BY ElementOfSeq DEF TypeOK
<1>4. \A i \in 1 .. Len(outq) : outq[i] \in Event
  BY ElementOfSeq DEF TypeOK
<1>5. \A i \in 1 .. Len(chan) : chan[i] \in Event
  BY ElementOfSeq DEF TypeOK
<1> QED
  BY <1>1, <1>2, <1>3, <1>4, <1>5, EventNumber

\* What a queue of events keeps when its head is taken.
LEMMA TakeHead ==
  ASSUME NEW q \in Seq(Event), q # <<>>
  PROVE  /\ Len(q) \in Nat \ {0}
         /\ Head(q) = q[1] /\ Head(q) \in Event
         /\ Tail(q) \in Seq(Event) /\ Len(Tail(q)) = Len(q) - 1
         /\ \A i \in 1 .. Len(Tail(q)) : Tail(q)[i] = q[i + 1]
         /\ InSeq(q) = {Head(q)} \cup InSeq(Tail(q))
         /\ Ascending(q) => Ascending(Tail(q)) /\
                            \A i \in 1 .. Len(Tail(q)) : Head(q).n < Tail(q)[i].n
<1>1. Len(q) \in Nat \ {0} /\ Head(q) = q[1]
  BY EmptySeq
<1>2. /\ Head(q) \in Event
      /\ Tail(q) \in Seq(Event) /\ Len(Tail(q)) = Len(q) - 1
      /\ \A i \in 1 .. Len(Tail(q)) : Tail(q)[i] = q[i + 1]
  BY HeadTailProperties
<1>3. InSeq(q) = {Head(q)} \cup InSeq(Tail(q))
  <2>1. ASSUME NEW i \in 1 .. Len(q) PROVE q[i] \in {Head(q)} \cup InSeq(Tail(q))
    <3>1. CASE i = 1
      BY <1>1, <3>1
    <3>2. CASE i # 1
      <4>1. i - 1 \in 1 .. Len(Tail(q)) /\ Tail(q)[i - 1] = q[i]
        BY <1>1, <1>2, <3>2
      <4> QED
        BY <4>1 DEF InSeq
    <3> QED
      BY <3>1, <3>2
  <2>2. ASSUME NEW i \in 1 .. Len(Tail(q)) PROVE Tail(q)[i] \in InSeq(q)
    <3>1. i + 1 \in 1 .. Len(q) /\ Tail(q)[i] = q[i + 1]
      BY <1>1, <1>2
    <3> QED
      BY <3>1 DEF InSeq
  <2>3. Head(q) \in InSeq(q)
    BY <1>1 DEF InSeq
  <2> QED
    BY <2>1, <2>2, <2>3 DEF InSeq
<1>4. ASSUME Ascending(q)
      PROVE  /\ Ascending(Tail(q))
             /\ \A i \in 1 .. Len(Tail(q)) : Head(q).n < Tail(q)[i].n
  BY <1>1, <1>2, <1>4 DEF Ascending
<1> QED
  BY <1>1, <1>2, <1>3, <1>4

LEMMA AddLast ==
  ASSUME NEW S, NEW q \in Seq(S), NEW e \in S
  PROVE  /\ Append(q, e) \in Seq(S) /\ Len(Append(q, e)) = Len(q) + 1 /\ Len(q) \in Nat
         /\ \A i \in 1 .. Len(q) : Append(q, e)[i] = q[i]
         /\ Append(q, e)[Len(q) + 1] = e
         /\ InSeq(Append(q, e)) = InSeq(q) \cup {e}
<1>1. /\ Append(q, e) \in Seq(S) /\ Len(Append(q, e)) = Len(q) + 1 /\ Len(q) \in Nat
      /\ \A i \in 1 .. Len(q) : Append(q, e)[i] = q[i]
      /\ Append(q, e)[Len(q) + 1] = e
  BY AppendProperties, LenProperties
<1>2. 1 .. Len(q) + 1 = (1 .. Len(q)) \cup {Len(q) + 1}
  BY <1>1
<1>3. InSeq(Append(q, e)) = InSeq(q) \cup {e}
  BY <1>1, <1>2 DEF InSeq
<1> QED
  BY <1>1, <1>3

LEMMA AddSent ==
  ASSUME NEW q \in Seq(1 .. MaxAdded), NEW n \in 1 .. MaxAdded
  PROVE  InSeq(Append(q, n)) = InSeq(q) \cup {n}
<1> DEFINE N == 1 .. MaxAdded
<1>1. q \in Seq(N) /\ n \in N
  OBVIOUS
<1> HIDE DEF N
<1> QED
  BY <1>1, AddLast

-----------------------------------------------------------------------------
(* The types                                                                *)

LEMMA SnapshotType ==
  ASSUME NEW q \in Seq(Event), NEW S
  PROVE  Unseen(q, S) \subseteq Event /\ {ev.id : ev \in InSeq(q)} \subseteq Ids
<1>1. \A i \in 1 .. Len(q) : q[i] \in Event
  BY ElementOfSeq
<1>2. \A ev \in Event : ev.id \in Ids
  BY DEF Event
<1>3. Unseen(q, S) \subseteq InSeq(q)
  BY Zenon DEF Unseen, InSeq
<1>4. InSeq(q) \subseteq Event
  BY <1>1 DEF InSeq
<1> QED
  BY <1>2, <1>3, <1>4

LEMMA InitInv == Init => IInv
<1> SUFFICES ASSUME Init PROVE IInv
  OBVIOUS
<1>1. TypeOK
  <2>1. /\ events \in Seq(Event) /\ outq \in Seq(Event) /\ chan \in Seq(Event)
        /\ sent \in Seq(1 .. MaxAdded) /\ played \in Seq(1 .. MaxAdded)
        /\ Len(events) = 0 /\ Len(outq) = 0 /\ Len(chan) = 0
    BY EmptySeq DEF Init
  <2>2. poll \in [pending : BOOLEAN, session : 0 .. MaxSession, events : Seq(Event)]
    BY NatConstants, EmptySeq DEF Init, NoPoll
  <2>3. registered \in BOOLEAN
    BY Zenon DEF Init
  <2> QED
    BY <2>1, <2>2, <2>3, NatConstants DEF Init, TypeOK
<1>2. StoreInv /\ PumpInv
  BY NatConstants, EmptySeq DEF Init, StoreInv, PumpInv, Overflowed, Ascending
<1>3. BroadcastInOrder /\ NothingSkipped /\ PageInv /\ NoSendOnClosed
  BY EmptySeq DEF Init, BroadcastInOrder, NothingSkipped, PageInv, NoSendOnClosed, Ascending
<1> QED
  BY <1>1, <1>2, <1>3 DEF IInv

\* The type invariant in two parts, for the steps that touch only one of them.
StoreTypes ==
  /\ mode \in {"realtime", "historic"}
  /\ session \in 1 .. MaxSession
  /\ events \in Seq(Event) /\ Len(events) <= MaxEvents
  /\ added \in 0 .. MaxAdded /\ base \in 0 .. added

OtherTypes ==
  /\ lastSession \in 0 .. MaxSession /\ lastLen \in 0 .. MaxEvents
  /\ outq \in Seq(Event) /\ Len(outq) <= MaxEvents
  /\ sent \in Seq(1 .. MaxAdded)
  /\ client \in {"off", "on", "deleted"} /\ registered \in BOOLEAN
  /\ chan \in Seq(Event) /\ Len(chan) <= ChanCap
  /\ since \in 0 .. MaxAdded
  /\ poll \in [pending : BOOLEAN, session : 0 .. MaxSession, events : Seq(Event)]
  /\ pageSession \in 0 .. MaxSession
  /\ seen \subseteq Ids /\ rows \subseteq Event
  /\ played \in Seq(1 .. MaxAdded)

LEMMA StoreChange ==
  ASSUME TypeOK, StoreTypes', UNCHANGED <<pumpVars, hubVars, pageVars>> PROVE TypeOK'
<1>1. OtherTypes
  BY Zenon DEF TypeOK, OtherTypes
<1>2. OtherTypes'
  BY <1>1, Zenon DEF OtherTypes, pumpVars, hubVars, pageVars
<1> QED
  BY <1>2, Zenon DEF TypeOK, OtherTypes, StoreTypes

LEMMA TypeStep == ASSUME TypeOK, [Next]_vars PROVE TypeOK'
<1> USE NatConstants
<1>1. ASSUME NEW id \in Ids, AddEvent(id) PROVE TypeOK'
  <2> DEFINE ev == [n |-> added + 1, id |-> id,
                    audio |-> mode = "realtime" /\ id \in AlertIds]
             kept == IF Len(events) >= MaxEvents THEN Tail(events) ELSE events
  <2>1. ev \in Event
    <3>1. ev.n \in 1 .. MaxAdded /\ ev.id \in Ids
      BY <1>1 DEF AddEvent, TypeOK
    <3>2. ev.audio \in BOOLEAN
      BY Zenon
    <3> QED
      BY <3>1, <3>2 DEF Event
  <2>2. kept \in Seq(Event) /\ Len(kept) < MaxEvents
    <3>1. CASE Len(events) >= MaxEvents
      <4>1. events # <<>>
        BY <3>1, EmptySeq
      <4> QED
        BY <3>1, <4>1, TakeHead DEF TypeOK
    <3>2. CASE ~(Len(events) >= MaxEvents)
      BY <3>2, LenProperties DEF TypeOK
    <3> QED
      BY <3>1, <3>2
  <2>3. events' = Append(kept, ev)
    BY <1>1 DEF AddEvent
  <2> HIDE DEF ev, kept
  <2>4. events' \in Seq(Event) /\ Len(events') <= MaxEvents
    BY <2>1, <2>2, <2>3, AddLast
  <2>5. StoreTypes'
    BY <1>1, <2>4 DEF AddEvent, TypeOK, StoreTypes
  <2> QED
    BY <1>1, <2>5, StoreChange DEF AddEvent
<1>2. CASE Reset
  <2>1. StoreTypes'
    BY <1>2, EmptySeq DEF Reset, TypeOK, StoreTypes
  <2> QED
    BY <1>2, <2>1, StoreChange DEF Reset
<1>3. CASE PumpTick
  <2>1. Start \in 0 .. MaxEvents /\ Len(events) \in Nat
    BY LenProperties DEF Start, TypeOK
  <2>2. \A i \in Start + 1 .. Len(events) : events[i] \in Event
    BY <2>1 DEF TypeOK
  <2>3. /\ SubSeq(events, Start + 1, Len(events)) \in Seq(Event)
        /\ Len(SubSeq(events, Start + 1, Len(events))) <= MaxEvents
    BY <2>1, <2>2, SubSeqProperties DEF TypeOK
  <2>4. UNCHANGED <<storeVars, hubVars, pageVars, sent>>
    BY <1>3 DEF PumpTick
  <2>5. /\ lastSession' \in 0 .. MaxSession /\ lastLen' \in 0 .. MaxEvents
        /\ outq' \in Seq(Event) /\ Len(outq') <= MaxEvents
    BY <1>3, <2>1, <2>3 DEF PumpTick, TypeOK
  <2> QED
    BY <2>4, <2>5 DEF TypeOK, storeVars, hubVars, pageVars
<1>4. CASE Broadcast
  <2>1. /\ Head(outq) \in Event /\ Tail(outq) \in Seq(Event) /\ Len(Tail(outq)) <= MaxEvents
    BY <1>4, TakeHead DEF Broadcast, TypeOK
  <2>2. sent' \in Seq(1 .. MaxAdded)
    BY <1>4, <2>1, EventNumber, AddLast DEF Broadcast, TypeOK
  <2>3. chan' \in Seq(Event) /\ Len(chan') <= ChanCap
    BY <1>4, <2>1, AddLast DEF Broadcast, TypeOK
  <2> QED
    BY <1>4, <2>1, <2>2, <2>3 DEF Broadcast, TypeOK, storeVars, pageVars
<1>5. CASE Register \/ Delete \/ Close
  <2>1. registered' \in BOOLEAN
    BY <1>5, Zenon DEF Register, Delete, Close, TypeOK
  <2>2. chan' \in Seq(Event) /\ Len(chan') <= ChanCap
    <3>1. chan' \in {chan, <<>>}
      BY <1>5 DEF Register, Delete, Close
    <3>2. <<>> \in Seq(Event) /\ Len(<<>>) = 0
      BY EmptySeq
    <3>3. chan \in Seq(Event) /\ Len(chan) <= ChanCap
      BY DEF TypeOK
    <3>4. CASE chan' = chan
      BY <3>3, <3>4
    <3>5. CASE chan' = <<>>
      BY <3>2, <3>5
    <3> QED
      BY <3>1, <3>4, <3>5
  <2>3. client' \in {"off", "on", "deleted"} /\ since' \in 0 .. MaxAdded
    BY <1>5 DEF Register, Delete, Close, TypeOK
  <2>4. UNCHANGED <<storeVars, pumpVars, pageVars>>
    BY <1>5 DEF Register, Delete, Close
  <2> QED
    BY <2>1, <2>2, <2>3, <2>4 DEF TypeOK, storeVars, pumpVars, pageVars
<1>6. CASE Deliver
  <2>1. /\ Head(chan) \in Event /\ Tail(chan) \in Seq(Event) /\ Len(Tail(chan)) <= ChanCap
        /\ Head(chan).id \in Ids /\ Head(chan).n \in 1 .. MaxAdded
    <3>1. /\ Head(chan) \in Event /\ Tail(chan) \in Seq(Event)
          /\ Len(Tail(chan)) = Len(chan) - 1 /\ Len(chan) \in Nat
      BY <1>6, TakeHead DEF Deliver, TypeOK
    <3> QED
      BY <3>1 DEF TypeOK, Event
  <2>2. seen' \subseteq Ids /\ rows' \subseteq Event /\ played' \in Seq(1 .. MaxAdded)
    <3>1. Append(played, Head(chan).n) \in Seq(1 .. MaxAdded)
      BY <2>1, AddLast DEF TypeOK
    <3> QED
      BY <1>6, <2>1, <3>1 DEF Deliver, TypeOK
  <2> QED
    BY <1>6, <2>1, <2>2 DEF Deliver, TypeOK, storeVars, pumpVars
<1>7. CASE PollRequest
  BY <1>7 DEF PollRequest, TypeOK, storeVars, pumpVars, hubVars
<1>8. CASE PollApply
  <2>1. poll' = NoPoll /\ NoPoll \in [pending : BOOLEAN, session : 0 .. MaxSession, events : Seq(Event)]
    BY <1>8, EmptySeq DEF PollApply, NoPoll
  <2>2. poll.session \in 0 .. MaxSession /\ poll.events \in Seq(Event)
    BY DEF TypeOK
  <2>3. pageSession' \in 0 .. MaxSession /\ seen' \subseteq Ids /\ rows' \subseteq Event
    BY <1>8, <2>2, SnapshotType DEF PollApply, TypeOK
  <2> QED
    BY <1>8, <2>1, <2>3 DEF PollApply, TypeOK, storeVars, pumpVars, hubVars
<1>9. CASE UNCHANGED vars
  BY <1>9 DEF vars, storeVars, pumpVars, hubVars, pageVars, TypeOK
<1> QED
  BY <1>1, <1>2, <1>3, <1>4, <1>5, <1>6, <1>7, <1>8, <1>9 DEF Next

-----------------------------------------------------------------------------
(* The store and the pump                                                   *)

LEMMA AddFacts ==
  ASSUME TypeOK, StoreInv, NEW id \in Ids, AddEvent(id)
  PROVE  /\ Len(events') = IF Len(events) = MaxEvents THEN Len(events) ELSE Len(events) + 1
         /\ \A i \in 1 .. Len(events') : events'[i].n = added' - Len(events') + i
         /\ Len(events) < MaxEvents => \A i \in 1 .. Len(events) : events'[i] = events[i]
<1> DEFINE ev == [n |-> added + 1, id |-> id,
                  audio |-> mode = "realtime" /\ id \in AlertIds]
           kept == IF Len(events) >= MaxEvents THEN Tail(events) ELSE events
<1> USE NatConstants
<1>1. added' = added + 1 /\ added \in Nat /\ ev.n = added + 1 /\ Len(events) \in Nat
  BY LenProperties DEF AddEvent, TypeOK
<1>2. ev \in Event
  <2>1. ev.n \in 1 .. MaxAdded /\ ev.id \in Ids
    BY DEF AddEvent, TypeOK
  <2>2. ev.audio \in BOOLEAN
    BY Zenon
  <2> QED
    BY <2>1, <2>2 DEF Event
<1>3. events' = Append(kept, ev)
  BY DEF AddEvent
<1>4. /\ kept \in Seq(Event)
      /\ Len(kept) = IF Len(events) = MaxEvents THEN Len(events) - 1 ELSE Len(events)
      /\ \A i \in 1 .. Len(kept) : kept[i].n = added - Len(kept) + i
      /\ Len(events) < MaxEvents => kept = events
  <2>1. CASE Len(events) >= MaxEvents
    <3>1. events # <<>>
      BY <2>1, EmptySeq
    <3>2. /\ kept \in Seq(Event) /\ Len(kept) = Len(events) - 1
          /\ \A i \in 1 .. Len(kept) : kept[i] = events[i + 1]
      BY <2>1, <3>1, TakeHead DEF TypeOK
    <3> QED
      <4>1. Len(events) = MaxEvents
        BY <1>1, <2>1 DEF TypeOK
      <4> HIDE DEF kept
      <4>2. ASSUME NEW i \in 1 .. Len(kept) PROVE kept[i].n = added - Len(kept) + i
        <5>1. i + 1 \in 1 .. Len(events) /\ kept[i] = events[i + 1]
          BY <1>1, <3>2
        <5>2. kept[i].n = added - Len(events) + (i + 1)
          BY <5>1 DEF StoreInv
        <5>3. added - Len(events) + (i + 1) = added - Len(kept) + i
          BY <1>1, <3>2
        <5> QED
          BY <5>2, <5>3
      <4> QED
        BY <1>1, <3>2, <4>1, <4>2
  <2>2. CASE ~(Len(events) >= MaxEvents)
    BY <1>1, <2>2 DEF TypeOK, StoreInv
  <2> QED
    BY <2>1, <2>2
<1> HIDE DEF ev, kept
<1>5. /\ Len(events') = Len(kept) + 1 /\ Len(kept) \in Nat
      /\ \A i \in 1 .. Len(kept) : events'[i] = kept[i]
      /\ events'[Len(kept) + 1] = ev
  BY <1>2, <1>3, <1>4, AddLast
<1>6. Len(events') = IF Len(events) = MaxEvents THEN Len(events) ELSE Len(events) + 1
  BY <1>1, <1>4, <1>5
<1>7. ASSUME NEW i \in 1 .. Len(events') PROVE events'[i].n = added' - Len(events') + i
  <2>1. CASE i = Len(kept) + 1
    BY <1>1, <1>5, <2>1
  <2>2. CASE i \in 1 .. Len(kept)
    <3>1. events'[i].n = added - Len(kept) + i
      BY <1>4, <1>5, <2>2
    <3>2. added - Len(kept) + i = added' - Len(events') + i
      BY <1>1, <1>5
    <3> QED
      BY <3>1, <3>2
  <2> QED
    BY <1>5, <2>1, <2>2
<1> QED
  BY <1>4, <1>5, <1>6, <1>7

LEMMA StoreStep ==
  ASSUME TypeOK, StoreInv, [Next]_vars PROVE StoreInv'
<1> USE NatConstants
<1>1. ASSUME NEW id \in Ids, AddEvent(id) PROVE StoreInv'
  <2>1. Len(events) \in Nat /\ added \in Nat /\ base \in Nat
    BY LenProperties DEF TypeOK
  <2>2. added' = added + 1 /\ UNCHANGED <<base, session, lastSession>>
    BY <1>1 DEF AddEvent, pumpVars
  <2> QED
    BY <1>1, <2>1, <2>2, AddFacts DEF StoreInv, Overflowed
<1>2. CASE Reset
  BY <1>2, EmptySeq DEF Reset, TypeOK, StoreInv, Overflowed, pumpVars
<1>3. CASE PumpTick
  <2>1. UNCHANGED <<events, added, base, session>> /\ lastSession' = session
    BY <1>3 DEF PumpTick, storeVars
  <2>2. session \in Nat
    BY DEF TypeOK
  <2> QED
    BY <2>1, <2>2 DEF StoreInv, Overflowed
<1>4. CASE UNCHANGED <<storeVars, lastSession>>
  BY <1>4 DEF storeVars, StoreInv, Overflowed
<1> QED
  BY <1>1, <1>2, <1>3, <1>4
     DEF Next, Broadcast, Register, Delete, Close, Deliver, PollRequest, PollApply,
         vars, pumpVars

\* The cursor never moves back in the numbering of the events.
LEMMA FrontierStep ==
  ASSUME TypeOK, StoreInv, PumpInv, [Next]_vars
  PROVE  Frontier \in Int /\ Frontier' \in Int /\ Frontier <= Frontier'
<1> USE NatConstants
<1>1. /\ Len(events) \in Nat /\ added \in Nat /\ base \in Nat /\ lastLen \in Nat
      /\ base <= added /\ session \in Nat /\ lastSession \in Nat
  BY LenProperties DEF TypeOK
<1>2. ASSUME NEW id \in Ids, AddEvent(id)
      PROVE  Frontier \in Int /\ Frontier' \in Int /\ Frontier <= Frontier'
  <2>1. /\ added' = added + 1
        /\ UNCHANGED <<base, session, lastSession, lastLen>>
    BY <1>2 DEF AddEvent, pumpVars
  <2>2. Len(events') \in {Len(events), Len(events) + 1}
    BY <1>2, AddFacts
  <2> QED
    BY <1>1, <2>1, <2>2 DEF Frontier
<1>3. CASE Reset
  BY <1>1, <1>3 DEF Reset, Frontier, PumpInv, StoreInv, Overflowed, pumpVars
<1>4. CASE PumpTick
  BY <1>1, <1>4 DEF PumpTick, Frontier, PumpInv, StoreInv, Overflowed, storeVars
<1>5. CASE UNCHANGED <<storeVars, lastSession, lastLen>>
  BY <1>1, <1>5 DEF Frontier, storeVars
<1> QED
  BY <1>2, <1>3, <1>4, <1>5
     DEF Next, Broadcast, Register, Delete, Close, Deliver, PollRequest, PollApply,
         vars, pumpVars

\* What a tick reads: the events above the cursor.
LEMMA TickFacts ==
  ASSUME TypeOK, StoreInv, PumpInv, PumpTick
  PROVE  /\ Start = IF lastSession = session THEN lastLen ELSE 0
         /\ Start \in 0 .. Len(events)
         /\ Len(outq') = Len(events) - Start
         /\ \A i \in 1 .. Len(outq') : outq'[i] = events[Start + i]
         /\ Ascending(outq')
         /\ \A i \in 1 .. Len(outq') : Frontier < outq'[i].n /\ outq'[i].n <= Frontier'
<1>1. /\ Len(events) \in Nat /\ added \in Nat /\ base \in Nat /\ lastLen \in Nat
      /\ Len(events) <= added - base
  BY LenProperties, NatConstants DEF TypeOK, StoreInv, Overflowed
<1>2. /\ Start = IF lastSession = session THEN lastLen ELSE 0
      /\ Start \in 0 .. Len(events)
  BY <1>1 DEF Start, PumpInv
<1>3. \A i \in Start + 1 .. Len(events) : events[i] \in Event
  BY <1>1, <1>2 DEF TypeOK
<1>4. /\ Len(outq') = Len(events) - Start
      /\ \A i \in 1 .. Len(outq') : outq'[i] = events[Start + i]
  <2>1. outq' = SubSeq(events, Start + 1, Len(events))
    BY DEF PumpTick
  <2> HIDE DEF Start
  <2>2. /\ Len(outq') = IF Start + 1 <= Len(events) THEN Len(events) - (Start + 1) + 1 ELSE 0
        /\ \A i \in 1 .. Len(events) - (Start + 1) + 1 : outq'[i] = events[Start + 1 + i - 1]
    BY <1>1, <1>2, <1>3, <2>1, SubSeqProperties
  <2>3. Len(outq') = Len(events) - Start
    <3>1. CASE Start + 1 <= Len(events)
      BY <1>1, <1>2, <2>2, <3>1
    <3>2. CASE ~(Start + 1 <= Len(events))
      BY <1>1, <1>2, <2>2, <3>2
    <3> QED
      BY <3>1, <3>2
  <2>4. ASSUME NEW i \in 1 .. Len(outq') PROVE outq'[i] = events[Start + i]
    <3>1. i \in 1 .. Len(events) - (Start + 1) + 1 /\ Start + 1 + i - 1 = Start + i
      BY <1>1, <1>2, <2>3
    <3> QED
      BY <2>2, <3>1
  <2> QED
    BY <2>3, <2>4
<1> HIDE DEF Start
<1>5. ASSUME NEW i \in 1 .. Len(outq')
      PROVE  outq'[i].n = added - Len(events) + Start + i
  <2>1. Start + i \in 1 .. Len(events) /\ outq'[i] = events[Start + i]
    BY <1>1, <1>2, <1>4
  <2>2. outq'[i].n = added - Len(events) + (Start + i)
    BY <2>1 DEF StoreInv
  <2> QED
    BY <1>1, <1>2, <2>2
<1>6. Ascending(outq')
  BY <1>1, <1>2, <1>4, <1>5 DEF Ascending
<1>7. Frontier <= added - Len(events) + Start /\ Frontier' = added
  BY <1>1, <1>2 DEF Frontier, PumpTick, storeVars
<1>8. Frontier \in Int
  BY <1>1 DEF Frontier
<1> HIDE DEF Frontier
<1>9. ASSUME NEW i \in 1 .. Len(outq')
      PROVE  Frontier < outq'[i].n /\ outq'[i].n <= Frontier'
  BY <1>1, <1>2, <1>4, <1>5, <1>7, <1>8
<1> QED
  BY <1>2, <1>4, <1>6, <1>9

LEMMA PumpStep ==
  ASSUME TypeOK, StoreInv, PumpInv, BroadcastInOrder, [Next]_vars
  PROVE  PumpInv' /\ BroadcastInOrder'
<1>0. /\ Frontier \in Int /\ Frontier' \in Int /\ Frontier <= Frontier'
      /\ \A i \in 1 .. Len(sent) : sent[i] \in Nat
      /\ \A i \in 1 .. Len(outq) : outq[i].n \in Nat
  BY FrontierStep, Numbers
<1>1. CASE PumpTick
  <2>1. UNCHANGED sent /\ lastLen' = Len(events')
    BY <1>1 DEF PumpTick, storeVars
  <2>2. /\ Ascending(outq')
        /\ \A i \in 1 .. Len(outq') : Frontier < outq'[i].n /\ outq'[i].n <= Frontier'
    BY <1>1, TickFacts
  <2>3. Len(events') \in Nat /\ \A i \in 1 .. Len(outq') : outq'[i].n \in Nat
    <3> TypeOK'
      BY TypeStep
    <3>1. outq' \in Seq(Event) /\ events' \in Seq(Event)
      BY DEF TypeOK
    <3>2. \A i \in 1 .. Len(outq') : outq'[i] \in Event
      BY <3>1, ElementOfSeq
    <3> QED
      BY <3>1, <3>2, EventNumber, LenProperties
  <2> HIDE DEF Frontier
  <2>4. /\ \A i \in 1 .. Len(sent) : sent[i] <= Frontier'
        /\ \A i \in 1 .. Len(sent), j \in 1 .. Len(outq') : sent[i] < outq'[j].n
    <3>1. ASSUME NEW i \in 1 .. Len(sent) PROVE sent[i] <= Frontier /\ sent[i] <= Frontier'
      BY <1>0 DEF PumpInv
    <3>2. ASSUME NEW i \in 1 .. Len(sent), NEW j \in 1 .. Len(outq')
          PROVE  sent[i] < outq'[j].n
      BY <1>0, <2>2, <2>3, <3>1
    <3> QED
      BY <3>1, <3>2
  <2> QED
    BY <2>1, <2>2, <2>3, <2>4 DEF PumpInv, BroadcastInOrder
<1>2. CASE Broadcast
  <2>1. outq # <<>> /\ outq' = Tail(outq) /\ sent' = Append(sent, Head(outq).n)
    BY <1>2 DEF Broadcast
  <2>2. UNCHANGED <<events, added, base, session, lastSession, lastLen>> /\ Frontier' = Frontier
    BY <1>2 DEF Broadcast, storeVars, Frontier
  <2>3. /\ outq \in Seq(Event) /\ sent \in Seq(1 .. MaxAdded)
        /\ Head(outq).n \in 1 .. MaxAdded
    BY <2>1, TakeHead, EventNumber DEF TypeOK
  <2>4. /\ Len(outq) \in Nat \ {0} /\ Head(outq) = outq[1]
        /\ Len(outq') = Len(outq) - 1
        /\ \A i \in 1 .. Len(outq') : outq'[i] = outq[i + 1]
        /\ Ascending(outq')
        /\ \A i \in 1 .. Len(outq') : Head(outq).n < outq'[i].n
    BY <2>1, <2>3, TakeHead DEF PumpInv
  <2>5. /\ Len(sent') = Len(sent) + 1 /\ Len(sent) \in Nat
        /\ \A i \in 1 .. Len(sent) : sent'[i] = sent[i]
        /\ sent'[Len(sent) + 1] = Head(outq).n
    BY <2>1, <2>3, AddLast
  <2>6. 1 \in 1 .. Len(outq) /\ \A i \in 1 .. Len(outq') : i + 1 \in 1 .. Len(outq)
    BY <2>4
  <2>7. \A i \in 1 .. Len(sent) : sent[i] < Head(outq).n
    BY <2>4, <2>6 DEF PumpInv
  <2>8. BroadcastInOrder'
    BY <2>5, <2>7 DEF BroadcastInOrder
  <2> HIDE DEF Frontier
  <2>9. /\ \A i \in 1 .. Len(outq') : outq'[i].n <= Frontier
        /\ \A i \in 1 .. Len(sent') : sent'[i] <= Frontier
    <3>1. ASSUME NEW i \in 1 .. Len(outq') PROVE outq'[i].n <= Frontier
      BY <2>4, <2>6 DEF PumpInv
    <3>2. ASSUME NEW i \in 1 .. Len(sent') PROVE sent'[i] <= Frontier
      <4>1. CASE i \in 1 .. Len(sent)
        BY <2>5, <4>1 DEF PumpInv
      <4>2. CASE i = Len(sent) + 1
        BY <2>4, <2>5, <2>6, <4>2 DEF PumpInv
      <4> QED
        BY <2>5, <4>1, <4>2
    <3> QED
      BY <3>1, <3>2
  <2>10. ASSUME NEW i \in 1 .. Len(sent'), NEW j \in 1 .. Len(outq') PROVE sent'[i] < outq'[j].n
    <3>1. CASE i \in 1 .. Len(sent)
      BY <2>4, <2>5, <2>6, <3>1 DEF PumpInv
    <3>2. CASE i = Len(sent) + 1
      BY <2>4, <2>5, <3>2
    <3> QED
      BY <2>5, <3>1, <3>2
  <2> QED
    BY <2>2, <2>4, <2>8, <2>9, <2>10 DEF PumpInv
<1>3. CASE UNCHANGED <<outq, sent>> /\ (lastSession = session => lastLen <= Len(events))'
  <2> HIDE DEF Frontier
  <2>1. ASSUME NEW i \in 1 .. Len(outq) PROVE outq[i].n <= Frontier'
    BY <1>0 DEF PumpInv
  <2>2. ASSUME NEW i \in 1 .. Len(sent) PROVE sent[i] <= Frontier'
    BY <1>0 DEF PumpInv
  <2> QED
    BY <1>3, <2>1, <2>2 DEF PumpInv, BroadcastInOrder, Ascending
<1>4. ASSUME NEW id \in Ids, AddEvent(id)
      PROVE  UNCHANGED <<outq, sent>> /\ (lastSession = session => lastLen <= Len(events))'
  <2>1. UNCHANGED <<session, outq, sent, lastSession, lastLen>>
    BY <1>4 DEF AddEvent, pumpVars
  <2>2. Len(events) <= Len(events') /\ Len(events) \in Nat /\ Len(events') \in Nat /\ lastLen \in Nat
    BY <1>4, AddFacts, NatConstants, LenProperties DEF TypeOK
  <2> QED
    BY <2>1, <2>2 DEF PumpInv
<1>5. CASE Reset
  <2>1. UNCHANGED <<outq, sent>> /\ lastSession' # session'
    BY <1>5, NatConstants DEF Reset, pumpVars, StoreInv, TypeOK
  <2> QED
    BY <1>3, <2>1
<1>6. CASE UNCHANGED <<storeVars, lastSession, lastLen, outq, sent>>
  BY <1>3, <1>6 DEF storeVars, PumpInv
<1> QED
  BY <1>1, <1>2, <1>3, <1>4, <1>5, <1>6
     DEF Next, Register, Delete, Close, Deliver, PollRequest, PollApply, vars, pumpVars

LEMMA SkipStep ==
  ASSUME TypeOK, StoreInv, PumpInv, NothingSkipped, [Next]_vars
  PROVE  NothingSkipped'
<1>1. SUFFICES ASSUME ~Overflowed', lastSession' = session', NEW i \in 1 .. lastLen'
               PROVE  WasSent(events[i].n)' \/ events'[i] \in InSeq(outq')
  BY DEF NothingSkipped
<1>2. CASE ~Overflowed /\ lastSession = session /\ i \in 1 .. lastLen /\ events'[i] = events[i]
           /\ InSeq(sent) \subseteq InSeq(sent')
           /\ \A ev \in InSeq(outq) \ InSeq(outq') : ev.n \in InSeq(sent')
  BY <1>2 DEF NothingSkipped, WasSent
<1>3. ASSUME NEW id \in Ids, AddEvent(id)
      PROVE  WasSent(events[i].n)' \/ events'[i] \in InSeq(outq')
  <2>1. added' = added + 1 /\ UNCHANGED <<session, base, lastSession, lastLen, outq, sent>>
    BY <1>3 DEF AddEvent, pumpVars
  <2>2. ~Overflowed /\ Len(events) < MaxEvents
    BY <1>1, <2>1, Numbers, NatConstants DEF Overflowed, StoreInv
  <2>3. i \in 1 .. lastLen /\ i \in 1 .. Len(events)
    BY <1>1, <2>1, Numbers DEF PumpInv
  <2>4. events'[i] = events[i]
    BY <1>3, <2>2, <2>3, AddFacts
  <2> QED
    BY <1>1, <1>2, <2>1, <2>2, <2>3, <2>4
<1>4. CASE Reset
  BY <1>1, <1>4, Numbers DEF Reset, StoreInv, pumpVars
<1>5. CASE PumpTick
  <2>1. /\ UNCHANGED <<events, added, base, session, sent>> /\ outq = <<>>
        /\ lastLen' = Len(events)
    BY <1>5 DEF PumpTick, storeVars
  <2>2. InSeq(outq) = {}
    BY <2>1, EmptySeq DEF InSeq
  <2>3. /\ Start = IF lastSession = session THEN lastLen ELSE 0
        /\ Start \in 0 .. Len(events)
        /\ Len(outq') = Len(events) - Start
        /\ \A k \in 1 .. Len(outq') : outq'[k] = events[Start + k]
    BY <1>5, TickFacts
  <2> HIDE DEF Start
  <2>4. CASE i <= Start
    <3>1. lastSession = session /\ i \in 1 .. lastLen
      BY <1>1, <2>3, <2>4, Numbers
    <3> QED
      BY <1>1, <1>2, <2>1, <2>2, <3>1 DEF Overflowed
  <2>5. CASE ~(i <= Start)
    <3>1. i - Start \in 1 .. Len(outq') /\ Start + (i - Start) = i
      BY <1>1, <2>1, <2>3, <2>5, Numbers
    <3>2. outq'[i - Start] = events[i]
      BY <2>3, <3>1
    <3> QED
      BY <2>1, <3>1, <3>2 DEF InSeq
  <2> QED
    BY <2>4, <2>5
<1>6. CASE Broadcast
  <2>1. /\ UNCHANGED <<events, added, base, session, lastSession, lastLen>>
        /\ outq # <<>> /\ outq' = Tail(outq) /\ sent' = Append(sent, Head(outq).n)
    BY <1>6 DEF Broadcast, storeVars
  <2>2. outq \in Seq(Event) /\ sent \in Seq(1 .. MaxAdded) /\ Head(outq).n \in 1 .. MaxAdded
    BY <2>1, TakeHead, EventNumber DEF TypeOK
  <2>3. InSeq(outq) = {Head(outq)} \cup InSeq(outq')
    BY <2>1, <2>2, TakeHead, Zenon
  <2>4. InSeq(Append(sent, Head(outq).n)) = InSeq(sent) \cup {Head(outq).n}
    BY <2>2, AddSent, Zenon
  <2>5. InSeq(sent') = InSeq(sent) \cup {Head(outq).n}
    BY <2>1, <2>4 DEF InSeq
  <2> QED
    BY <1>1, <1>2, <2>1, <2>3, <2>5 DEF Overflowed
<1>7. CASE UNCHANGED <<storeVars, pumpVars>>
  BY <1>1, <1>2, <1>7 DEF storeVars, pumpVars, Overflowed
<1> QED
  BY <1>3, <1>4, <1>5, <1>6, <1>7
     DEF Next, Register, Delete, Close, Deliver, PollRequest, PollApply, vars

-----------------------------------------------------------------------------
(* The channel and the page                                                 *)

LEMMA PageStep ==
  ASSUME TypeOK, PumpInv, PageInv, [Next]_vars PROVE PageInv'
<1>1. CASE Broadcast
  <2>1. /\ outq # <<>> /\ sent' = Append(sent, Head(outq).n) /\ UNCHANGED played
        /\ chan' = IF registered /\ Len(chan) < ChanCap THEN Append(chan, Head(outq)) ELSE chan
    BY <1>1 DEF Broadcast, pageVars
  <2>2. /\ sent \in Seq(1 .. MaxAdded) /\ chan \in Seq(Event)
        /\ Head(outq) = outq[1] /\ 1 \in 1 .. Len(outq)
        /\ Head(outq) \in Event /\ Head(outq).n \in 1 .. MaxAdded
    <3>1. sent \in Seq(1 .. MaxAdded) /\ chan \in Seq(Event) /\ outq \in Seq(Event)
      BY DEF TypeOK
    <3>2. /\ Head(outq) = outq[1] /\ Head(outq) \in Event
          /\ Len(outq) \in Nat /\ Len(outq) # 0
      BY <2>1, <3>1, TakeHead, EmptySeq
    <3> QED
      BY <3>1, <3>2, EventNumber
  <2>3. InSeq(sent') = InSeq(sent) \cup {Head(outq).n}
    <3>1. InSeq(Append(sent, Head(outq).n)) = InSeq(sent) \cup {Head(outq).n}
      BY <2>2, AddSent, Zenon
    <3> QED
      BY <2>1, <3>1 DEF InSeq
  <2>4. ASSUME NEW n, WasSent(n) PROVE n < Head(outq).n
    BY <2>2, <2>4 DEF WasSent, InSeq, PumpInv
  <2>5. CASE chan' = chan
    BY <2>1, <2>3, <2>5 DEF PageInv, WasSent, Ascending
  <2>6. CASE chan' = Append(chan, Head(outq))
    <3>1. /\ Len(chan') = Len(chan) + 1 /\ Len(chan) \in Nat
          /\ \A i \in 1 .. Len(chan) : chan'[i] = chan[i]
          /\ chan'[Len(chan) + 1] = Head(outq)
      BY <2>2, <2>6, AddLast
    <3>2. \A i \in 1 .. Len(chan) : chan[i].n < Head(outq).n
      BY <2>4 DEF PageInv
    <3>3. \A i \in 1 .. Len(played) : played[i] < Head(outq).n
      BY <2>4 DEF PageInv
    <3>4. ASSUME NEW i \in 1 .. Len(chan'), NEW j \in 1 .. Len(chan'), i < j
          PROVE  chan'[i].n < chan'[j].n
      <4>1. i \in 1 .. Len(chan) /\ chan'[i] = chan[i]
        BY <3>1, <3>4
      <4>2. CASE j \in 1 .. Len(chan)
        BY <3>1, <3>4, <4>1, <4>2 DEF PageInv, Ascending
      <4>3. CASE j = Len(chan) + 1
        BY <3>1, <3>2, <4>1, <4>3
      <4> QED
        BY <3>1, <4>2, <4>3
    <3>5. ASSUME NEW j \in 1 .. Len(chan')
          PROVE  /\ WasSent(chan[j].n)'
                 /\ \A i \in 1 .. Len(played) : played[i] < chan'[j].n
      <4>1. CASE j \in 1 .. Len(chan)
        BY <2>3, <3>1, <4>1 DEF PageInv, WasSent
      <4>2. CASE j = Len(chan) + 1
        BY <2>3, <3>1, <3>3, <4>2 DEF WasSent
      <4> QED
        BY <3>1, <4>1, <4>2
    <3>6. \A i \in 1 .. Len(played) : played[i] \in InSeq(sent')
      BY <2>3 DEF PageInv, WasSent
    <3> QED
      BY <2>1, <3>4, <3>5, <3>6 DEF PageInv, WasSent, Ascending
  <2> QED
    BY <2>1, <2>5, <2>6
<1>2. CASE Deliver
  <2>1. chan # <<>> /\ chan' = Tail(chan) /\ UNCHANGED sent
    BY <1>2 DEF Deliver, pumpVars
  <2>2. played' \in {played, Append(played, Head(chan).n)}
    BY <1>2 DEF Deliver
  <2>3. chan \in Seq(Event) /\ played \in Seq(1 .. MaxAdded) /\ Head(chan).n \in 1 .. MaxAdded
    BY <2>1, TakeHead, EventNumber DEF TypeOK
  <2>4. /\ Len(chan) \in Nat \ {0} /\ Head(chan) = chan[1] /\ Len(chan') = Len(chan) - 1
        /\ \A i \in 1 .. Len(chan') : chan'[i] = chan[i + 1]
        /\ Ascending(chan')
        /\ \A i \in 1 .. Len(chan') : Head(chan).n < chan'[i].n
    BY <2>1, <2>3, TakeHead DEF PageInv
  <2>5. 1 \in 1 .. Len(chan) /\ \A i \in 1 .. Len(chan') : i + 1 \in 1 .. Len(chan)
    BY <2>4
  <2>6. /\ \A i \in 1 .. Len(chan') : WasSent(chan'[i].n)
        /\ \A i \in 1 .. Len(played), j \in 1 .. Len(chan') : played[i] < chan'[j].n
        /\ \A i \in 1 .. Len(played) : played[i] < Head(chan).n
        /\ WasSent(Head(chan).n)
    BY <2>4, <2>5 DEF PageInv
  <2>7. CASE played' = played
    BY <2>1, <2>4, <2>6, <2>7 DEF PageInv, WasSent
  <2>8. CASE played' = Append(played, Head(chan).n)
    <3>1. /\ Len(played') = Len(played) + 1 /\ Len(played) \in Nat
          /\ \A i \in 1 .. Len(played) : played'[i] = played[i]
          /\ played'[Len(played) + 1] = Head(chan).n
      BY <2>3, <2>8, AddLast
    <3>2. ASSUME NEW i \in 1 .. Len(played'), NEW j \in 1 .. Len(played'), i < j
          PROVE  played'[i] < played'[j]
      <4>1. i \in 1 .. Len(played)
        BY <3>1, <3>2
      <4>2. CASE j \in 1 .. Len(played)
        BY <3>1, <3>2, <4>1, <4>2 DEF PageInv
      <4>3. CASE j = Len(played) + 1
        BY <2>6, <3>1, <4>1, <4>3
      <4> QED
        BY <3>1, <4>2, <4>3
    <3>3. ASSUME NEW i \in 1 .. Len(played')
          PROVE  /\ WasSent(played'[i])
                 /\ \A j \in 1 .. Len(chan') : played'[i] < chan'[j].n
      <4>1. CASE i \in 1 .. Len(played)
        BY <2>6, <3>1, <4>1 DEF PageInv
      <4>2. CASE i = Len(played) + 1
        BY <2>4, <2>6, <3>1, <4>2
      <4> QED
        BY <3>1, <4>1, <4>2
    <3> QED
      BY <2>1, <2>4, <2>6, <3>2, <3>3 DEF PageInv, WasSent
  <2> QED
    BY <2>2, <2>7, <2>8
<1>3. CASE Register \/ Close
  <2>1. chan' = <<>> /\ Len(chan') = 0 /\ UNCHANGED <<sent, played>>
    BY <1>3, EmptySeq DEF Register, Close, pumpVars, pageVars
  <2> QED
    BY <2>1 DEF PageInv, WasSent, Ascending
<1>4. CASE UNCHANGED <<sent, chan, played>>
  BY <1>4 DEF PageInv, WasSent, Ascending
<1> QED
  BY <1>1, <1>2, <1>3, <1>4
     DEF Next, AddEvent, Reset, PumpTick, Delete, PollRequest, PollApply, vars,
         pumpVars, hubVars, pageVars

LEMMA SendStep == ASSUME NoSendOnClosed, [Next]_vars PROVE NoSendOnClosed'
BY DEF NoSendOnClosed, Next, AddEvent, Reset, PumpTick, Broadcast, Register, Delete, Close,
       Deliver, PollRequest, PollApply, vars, hubVars

-----------------------------------------------------------------------------
(* The theorems                                                             *)

LEMMA NextInv == ASSUME IInv, [Next]_vars PROVE IInv'
BY TypeStep, StoreStep, PumpStep, SkipStep, PageStep, SendStep DEF IInv

LEMMA Invariance == Spec => []IInv
BY InitInv, NextInv, PTL DEF Spec

\* Every reachable state has its type: list, channel and cursor keep within
\* their capacities (store.go, sse.go), for any ids and bounds.
THEOREM TypeCorrect == Spec => []TypeOK
BY Invariance, PTL DEF IInv

\* The pump broadcasts no event twice and none after a younger one, through
\* overflow and any number of resets of the list (api.go:231-245).
THEOREM PumpKeepsOrder == Spec => []BroadcastInOrder
BY Invariance, PTL DEF IInv

\* The pump skips nothing of a session whose list has not overflowed.
THEOREM PumpSkipsNothing == Spec => []NothingSkipped
BY Invariance, PTL DEF IInv

\* The hub never sends on a closed channel (sse.go:35-40, 66-72).
THEOREM HubSendsToOpen == Spec => []NoSendOnClosed
BY Invariance, PTL DEF IInv

\* No alert is spoken twice, whatever the page has forgotten: what it has
\* spoken lies below what the channel holds (app.js:417-419, 439-442).
THEOREM AlertsSpokenOnce == Spec => []SpokenOnce
<1>1. ASSUME IInv PROVE SpokenOnce
  <2> SUFFICES ASSUME NEW i \in 1 .. Len(played), NEW j \in 1 .. Len(played),
                      played[i] = played[j]
               PROVE  i = j
    BY DEF SpokenOnce
  <2>1. ~(i < j) /\ ~(j < i)
    BY <1>1, Numbers DEF IInv, PageInv
  <2> QED
    BY <1>1, <2>1, Numbers DEF IInv
<1> QED
  BY <1>1, Invariance, PTL
=============================================================================
