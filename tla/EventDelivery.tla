---------------------------- MODULE EventDelivery ----------------------------
(***************************************************************************)
(* How an event gets from the engine to the eyes and ears of a user:        *)
(*                                                                         *)
(*   engine -> store (a list that drops its oldest event when full)         *)
(*     -> eventPump -> SSE hub -> the page's EventSource   (shown, spoken)   *)
(*     -> GET /api/state, polled by the page               (shown, silent)  *)
(*                                                                         *)
(* internal/store/store.go, internal/server/api.go, internal/server/sse.go   *)
(* and internal/server/web/app.js.  The two routes race, and the page drops *)
(* the second copy of an event by its id.  One page is modelled; the hub    *)
(* serves several independently.  The user has left the audio toggle on;    *)
(* historic mode switches it off.                                           *)
(***************************************************************************)
EXTENDS Naturals, Sequences, FiniteSets

CONSTANTS
  Ids,          \* what Event.ID may be: time stamp, type and symbol
  AlertIds,     \* those whose type is BUY, PROFIT, STOP, TIME_EXIT or 11AM
  MaxEvents,    \* cfg.UI.MaxEvents
  ChanCap,      \* capacity of a client's channel (64)
  SeenCap,      \* size above which the page clears seenEventIDs (2000)
  MaxAdded,     \* bound: events ever added
  MaxSession    \* bound: sessions, the one store.New opens included

ASSUME CapAssumption ==
  /\ AlertIds \subseteq Ids
  /\ MaxEvents \in Nat \ {0} /\ ChanCap \in Nat \ {0} /\ SeenCap \in Nat
  /\ MaxAdded \in Nat /\ MaxSession \in Nat \ {0}

VARIABLES
  mode,        \* "realtime" or "historic"
  session,     \* the store's sessionID, numbered; store.New makes the first one
  events,      \* the store's events; n numbers them, the code has no number
  added,       \* how many events were ever added
  base,        \* history: how many of them before the present session
  lastSession, lastLen,   \* eventPump's cursor; 0 is its initial ""
  outq,        \* the rest of the events that the pump's tick is broadcasting
  sent,        \* history: the numbers broadcast, in order
  client,      \* the page's SSE handler: off, on, deleted
  registered,  \* whether its channel is in the hub's clients
  chan,        \* its channel
  since,       \* history: how many events were added when it registered, or 0
  poll,        \* the state request in flight
  pageSession, seen,      \* the page's currentSessionID (0: null) and seenEventIDs
  rows,        \* the events shown since the page last cleared its log
  played       \* the numbers of the events spoken, in order

storeVars == <<mode, session, events, added, base>>
pumpVars == <<lastSession, lastLen, outq, sent>>
hubVars == <<client, registered, chan, since>>
pageVars == <<poll, pageSession, seen, rows, played>>
vars == <<storeVars, pumpVars, hubVars, pageVars>>

Event == [n : 1 .. MaxAdded, id : Ids, audio : BOOLEAN]
NoPoll == [pending |-> FALSE, session |-> 0, events |-> <<>>]

TypeOK ==
  /\ mode \in {"realtime", "historic"}
  /\ session \in 1 .. MaxSession /\ lastSession \in 0 .. MaxSession
  /\ events \in Seq(Event) /\ Len(events) <= MaxEvents
  /\ added \in 0 .. MaxAdded /\ base \in 0 .. added
  /\ lastLen \in 0 .. MaxEvents
  /\ outq \in Seq(Event) /\ Len(outq) <= MaxEvents
  /\ sent \in Seq(1 .. MaxAdded)
  /\ client \in {"off", "on", "deleted"}
  /\ registered \in BOOLEAN
  /\ chan \in Seq(Event) /\ Len(chan) <= ChanCap
  /\ since \in 0 .. MaxAdded
  /\ poll \in [pending : BOOLEAN, session : 0 .. MaxSession, events : Seq(Event)]
  /\ pageSession \in 0 .. MaxSession
  /\ seen \subseteq Ids /\ rows \subseteq Event
  /\ played \in Seq(1 .. MaxAdded)

Init ==
  /\ mode \in {"realtime", "historic"}
  /\ session = 1 /\ events = <<>> /\ added = 0 /\ base = 0
  /\ lastSession = 0 /\ lastLen = 0 /\ outq = <<>> /\ sent = <<>>
  /\ client = "off" /\ registered = FALSE /\ chan = <<>> /\ since = 0
  /\ poll = NoPoll /\ pageSession = 0 /\ seen = {} /\ rows = {} /\ played = <<>>

InSeq(q) == {q[i] : i \in 1 .. Len(q)}

-----------------------------------------------------------------------------
(* The store                                                                *)

\* Variant: the list does not drop its oldest event.
AddEvent_NoDrop(id) ==
  /\ added < MaxAdded
  /\ LET ev == [n |-> added + 1, id |-> id,
                audio |-> mode = "realtime" /\ id \in AlertIds]
     IN  events' = Append(events, ev)
  /\ added' = added + 1
  /\ UNCHANGED <<mode, session, base, pumpVars, hubVars, pageVars>>

\* emit and AddEvent.  Two emits may carry the same id: Run emits two SYSTEM
\* events with one nowNY (engine.go:50,55).  Realtime alerts have audio.
AddEvent(id) ==
  /\ added < MaxAdded
  /\ LET ev == [n |-> added + 1, id |-> id,
                audio |-> mode = "realtime" /\ id \in AlertIds]
     IN  events' = Append(IF Len(events) >= MaxEvents THEN Tail(events) ELSE events, ev)
  /\ added' = added + 1
  /\ UNCHANGED <<mode, session, base, pumpVars, hubVars, pageVars>>

\* ResetForHistoricRun: a new session id, and an empty list.
Reset ==
  /\ mode = "historic"
  /\ session < MaxSession
  /\ session' = session + 1
  /\ events' = <<>>
  /\ base' = added
  /\ UNCHANGED <<mode, added, pumpVars, hubVars, pageVars>>

-----------------------------------------------------------------------------
(* eventPump and the SSE hub                                                *)

\* Variant: the cursor is not reset at a session boundary.
Start_NoSession == IF Len(events) < lastLen THEN 0 ELSE lastLen

\* Where the tick starts to broadcast in the list it has read.
Start ==
  IF session # lastSession THEN 0
  ELSE IF Len(events) < lastLen THEN 0
  ELSE lastLen

\* Variant: the cursor is not advanced.
PumpTick_NoCursor ==
  /\ outq = <<>>
  /\ outq' = SubSeq(events, Start + 1, Len(events))
  /\ lastSession' = session
  /\ UNCHANGED <<storeVars, lastLen, sent, hubVars, pageVars>>

PumpTick ==
  /\ outq = <<>>
  /\ outq' = SubSeq(events, Start + 1, Len(events))
  /\ lastSession' = session
  /\ lastLen' = Len(events)
  /\ UNCHANGED <<storeVars, sent, hubVars, pageVars>>

\* hub.Broadcast(evs[i]): a full channel loses the event.
Broadcast ==
  /\ outq # <<>>
  /\ outq' = Tail(outq)
  /\ sent' = Append(sent, Head(outq).n)
  /\ chan' = IF registered /\ Len(chan) < ChanCap THEN Append(chan, Head(outq)) ELSE chan
  /\ UNCHANGED <<storeVars, lastSession, lastLen, client, registered, since, pageVars>>

\* ServeHTTP: the page's EventSource connects, for the first time or again.
Register ==
  /\ client = "off"
  /\ client' = "on"
  /\ registered' = TRUE
  /\ chan' = <<>>
  /\ since' = added
  /\ UNCHANGED <<storeVars, pumpVars, pageVars>>

\* Variant: the channel is closed before it is taken out of the hub.
Delete_CloseFirst ==
  /\ client = "on"
  /\ client' = "deleted"
  /\ since' = 0
  /\ UNCHANGED <<storeVars, pumpVars, registered, chan, pageVars>>

\* The connection is lost: delete(h.clients, ch), and then close(ch).
Delete ==
  /\ client = "on"
  /\ client' = "deleted"
  /\ registered' = FALSE
  /\ since' = 0
  /\ UNCHANGED <<storeVars, pumpVars, chan, pageVars>>

Close ==
  /\ client = "deleted"
  /\ client' = "off"
  /\ chan' = <<>>
  /\ UNCHANGED <<storeVars, pumpVars, registered, since, pageVars>>

-----------------------------------------------------------------------------
(* The page                                                                 *)

\* The listener of connectEvents, on the message that ServeHTTP has written:
\* an event it has not seen is shown, and spoken if it has audio.
Deliver ==
  /\ client = "on"
  /\ chan # <<>>
  /\ chan' = Tail(chan)
  /\ LET ev == Head(chan)
     IN IF ev.id \in seen
          THEN UNCHANGED <<seen, rows, played>>
          ELSE /\ seen' = seen \cup {ev.id}
               /\ rows' = rows \cup {ev}
               /\ played' = IF ev.audio THEN Append(played, ev.n) ELSE played
  /\ UNCHANGED <<storeVars, pumpVars, client, registered, since, poll, pageSession>>

\* loop: fetchState; the server answers with a snapshot.
PollRequest ==
  /\ ~poll.pending
  /\ poll' = [pending |-> TRUE, session |-> session, events |-> events]
  /\ UNCHANGED <<storeVars, pumpVars, hubVars, pageSession, seen, rows, played>>

\* What syncEvents adds to a log in which the ids of S are seen: of the events
\* with one id, the first.
Unseen(q, S) ==
  {q[i] : i \in {j \in 1 .. Len(q) :
                   q[j].id \notin S \cup {q[k].id : k \in 1 .. j - 1}}}

\* Variant: a new session clears the log and not what the page has seen.
PollApply_KeepSeen ==
  /\ poll.pending
  /\ LET boundary == poll.session # pageSession
         now == seen \cup {ev.id : ev \in InSeq(poll.events)}
     IN /\ pageSession' = poll.session
        /\ rows' = (IF boundary THEN {} ELSE rows) \cup Unseen(poll.events, seen)
        /\ seen' = IF poll.events # <<>> /\ Cardinality(now) > SeenCap THEN {} ELSE now
  /\ poll' = NoPoll
  /\ UNCHANGED <<storeVars, pumpVars, hubVars, played>>

\* Variant: syncEvents is not silent.
PollApply_Loud ==
  /\ poll.pending
  /\ LET boundary == poll.session # pageSession
         known == IF boundary THEN {} ELSE seen
         now == known \cup {ev.id : ev \in InSeq(poll.events)}
         loud == SelectSeq(poll.events, LAMBDA ev :
                             ev \in Unseen(poll.events, known) /\ ev.audio)
     IN /\ pageSession' = poll.session
        /\ rows' = (IF boundary THEN {} ELSE rows) \cup Unseen(poll.events, known)
        /\ seen' = IF poll.events # <<>> /\ Cardinality(now) > SeenCap THEN {} ELSE now
        /\ played' = played \o [i \in DOMAIN loud |-> loud[i].n]
  /\ poll' = NoPoll
  /\ UNCHANGED <<storeVars, pumpVars, hubVars>>

\* renderState: a new session clears the page's log; syncEvents then adds what
\* is unseen, silently, and forgets what it has seen when that grows too large.
PollApply ==
  /\ poll.pending
  /\ LET boundary == poll.session # pageSession
         known == IF boundary THEN {} ELSE seen
         now == known \cup {ev.id : ev \in InSeq(poll.events)}
     IN /\ pageSession' = poll.session
        /\ rows' = (IF boundary THEN {} ELSE rows) \cup Unseen(poll.events, known)
        /\ seen' = IF poll.events # <<>> /\ Cardinality(now) > SeenCap THEN {} ELSE now
  /\ poll' = NoPoll
  /\ UNCHANGED <<storeVars, pumpVars, hubVars, played>>

Next ==
  \/ \E id \in Ids : AddEvent(id)
  \/ Reset
  \/ PumpTick \/ Broadcast
  \/ Register \/ Delete \/ Close
  \/ Deliver \/ PollRequest \/ PollApply

\* The pump's ticker and the page's timer go on for ever; a lost connection is
\* taken down by the server, but the page need not connect again.
Fairness ==
  /\ WF_vars(PumpTick) /\ WF_vars(Broadcast)
  /\ WF_vars(Close) /\ WF_vars(Deliver)
  /\ WF_vars(PollRequest) /\ WF_vars(PollApply)

Spec == Init /\ [][Next]_vars
FairSpec == Spec /\ Fairness

-----------------------------------------------------------------------------
(* Properties *)

Stored(n) == \E ev \in InSeq(events) : ev.n = n
WasSent(n) == n \in InSeq(sent)
Overflowed == added - base > MaxEvents

\* No event is broadcast twice or after a younger one, although the list the
\* cursor points into shrinks, shifts and is replaced (api.go:231-245).
BroadcastInOrder ==
  \A i, j \in 1 .. Len(sent) : i < j => sent[i] < sent[j]

\* As long as the list has not dropped anything of this session, the pump
\* skips nothing: the events below its cursor were sent or are being sent.
NothingSkipped ==
  ~Overflowed /\ lastSession = session =>
    \A i \in 1 .. lastLen : WasSent(events[i].n) \/ events[i] \in InSeq(outq)

\* Broadcast sends only to open channels, as a send on a closed channel would
\* panic and take the server down (sse.go:35-40, 66-72).
NoSendOnClosed == registered => client = "on"

\* An alert is never spoken twice, though it comes by two routes and the page
\* forgets the ids it has seen (app.js:417-419, 439-442): the poll that shows
\* it again is silent, and the pump pushes it once.
SpokenOnce ==
  \A i, j \in 1 .. Len(played) : played[i] = played[j] => i = j

\* "Backfill events so historic runs still show a log even if the UI loads
\* later" (app.js:1679): what stays in the store is shown, or shares its id
\* with an event that is.
StoredIsShown ==
  \A n \in 1 .. MaxAdded :
    Stored(n) ~> \/ ~Stored(n)
                 \/ \E ev \in InSeq(events) : ev.n = n /\ ev.id \in {r.id : r \in rows}

\* "Push events to SSE hub by polling store's event list" (http.go:61): every
\* event that stays in the list is pushed.
EveryEventIsPushed ==
  \A n \in 1 .. MaxAdded : Stored(n) ~> WasSent(n) \/ ~Stored(n)

\* "Audio fires on BUY/PROFIT/STOP/11AM if ... mode is realtime" (app.js:1725):
\* an alert raised while the page listens is not shown without being spoken.
ShownIsSpoken ==
  \A ev \in rows :
    ev.audio /\ client = "on" /\ ev.n > since => ev.n \in InSeq(played)
=============================================================================
