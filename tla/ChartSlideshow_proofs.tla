------------------------ MODULE ChartSlideshow_proofs ------------------------
(***************************************************************************)
(* Theorems about the slideshow, for any tickers, lists, dates and bars, and *)
(* any number of clicks and requests.                                       *)
(*                                                                         *)
(* A chart can be named only when the page has a date (DateKnown); with the  *)
(* types that makes every request and every painted chart one of a session.  *)
(***************************************************************************)
EXTENDS ChartSlideshow, SequenceTheorems, TLAPS

\* A list comes with its session.
DateKnown == list # <<>> => date # NoDate

IInv == TypeOK /\ DateKnown /\ NoSpoiler

-----------------------------------------------------------------------------
(* Lists and keys                                                           *)

LEMMA NatConstants ==
  /\ InitN \in Nat /\ InitN > 0 /\ Total \in Nat /\ InitN <= Total
  /\ MaxFetch \in Nat /\ MaxFetch > 0 /\ MaxClicks \in Nat
BY BarsAssumption, BoundAssumption

LEMMA ListType ==
  ASSUME NEW l \in Lists \cup {<<>>}
  PROVE  /\ Len(l) \in Nat /\ (Len(l) = 0 <=> l = <<>>)
         /\ \A i \in 1 .. Len(l) : l[i] \in Tickers
<1>1. l \in Seq(Tickers)
  BY ListsAssumption, EmptySeq
<1> QED
  BY <1>1, EmptySeq, ElementOfSeq, LenProperties

LEMMA SymIndex ==
  ASSUME NEW l \in Lists \cup {<<>>}, NEW s \in Syms(l)
  PROVE  IndexOf(l, s) \in 1 .. Len(l) /\ l[IndexOf(l, s)] = s
<1>1. \E i \in 1 .. Len(l) : l[i] = s
  BY DEF Syms
<1> QED
  BY <1>1 DEF IndexOf

LEMMA KeyFields ==
  ASSUME NEW k \in Keys
  PROVE  /\ k.date \in Dates /\ k.sym \in Tickers /\ k # NoKey
         /\ k = [date |-> k.date, sym |-> k.sym]
<1>1. k.date \in Dates /\ k.sym \in Tickers /\ k = [date |-> k.date, sym |-> k.sym]
  BY DEF Keys
<1>2. NoKey.date = NoDate
  BY DEF NoKey
<1> QED
  BY <1>1, <1>2, NoneAssumption

LEMMA FollowType ==
  ASSUME TypeOK, NEW l \in Lists, l # <<>>
  PROVE  Follow(l) \in 1 .. Len(l)
<1>1. Len(l) \in Nat \ {0} /\ index \in Nat \ {0}
  BY ListType DEF TypeOK
<1>2. CASE payload.sym \in Syms(l)
  BY <1>2, SymIndex DEF Follow
<1>3. CASE payload.sym \notin Syms(l)
  BY <1>1, <1>3 DEF Follow
<1> QED
  BY <1>2, <1>3

-----------------------------------------------------------------------------
(* The types                                                                *)

\* What is painted, and the network.
ShownType ==
  /\ chart \in BOOLEAN
  /\ payload \in Keys \cup {NoKey}
  /\ shownN \in 0 .. Total

NetType ==
  /\ cache \in [Keys -> {"no", "bars", "empty"}]
  /\ pending \in [Keys -> 0 .. MaxFetch]

LEMMA PaintType ==
  ASSUME ShownType, NEW k \in Keys, Paint(k) \/ PaintNothing PROVE ShownType'
<1>1. CASE Paint(k)
  BY <1>1, NatConstants DEF Paint, EnsureLWChart, ShownType
<1>2. CASE PaintNothing
  BY <1>2 DEF PaintNothing, DestroyLWChart, ShownType
<1> QED
  BY <1>1, <1>2

LEMMA ShowType ==
  ASSUME ShownType, NetType, NEW l \in Lists \cup {<<>>}, NEW i \in 1 .. Len(l),
         date \in Dates, ShowChartAt(l, i)
  PROVE  open' \in BOOLEAN /\ index' = i /\ key' \in Keys /\ ShownType' /\ NetType'
<1> DEFINE k == [date |-> date, sym |-> l[i]]
<1>1. k \in Keys
  BY ListType DEF Keys
<1>2. open' \in BOOLEAN /\ index' = i /\ key' = k
  BY DEF ShowChartAt
<1> HIDE DEF k
<1>3. CASE (Paint(k) \/ PaintNothing) /\ UNCHANGED netVars
  BY <1>1, <1>2, <1>3, PaintType DEF netVars, NetType
<1>4. CASE /\ pending' = [pending EXCEPT ![k] = IF @ < MaxFetch THEN @ + 1 ELSE @]
           /\ UNCHANGED <<shownVars, cache>>
  BY <1>1, <1>2, <1>4, NatConstants DEF shownVars, NetType, ShownType
<1> QED
  BY <1>1, <1>2, <1>3, <1>4 DEF ShowChartAt, k

LEMMA InitInv == Init => IInv
<1> SUFFICES ASSUME Init PROVE IInv
  OBVIOUS
<1>1. TypeOK
  <2>1. open \in BOOLEAN /\ chart \in BOOLEAN
    BY Zenon DEF Init
  <2>2. shownN \in 0 .. Total /\ clicks \in 0 .. MaxClicks /\ pending \in [Keys -> 0 .. MaxFetch]
    BY NatConstants DEF Init
  <2> QED
    BY <2>1, <2>2 DEF Init, TypeOK
<1>2. DateKnown /\ NoSpoiler
  BY NatConstants DEF Init, DateKnown, NoSpoiler
<1> QED
  BY <1>1, <1>2 DEF IInv

LEMMA TypeStep == ASSUME TypeOK, DateKnown, [Next]_vars PROVE TypeOK' /\ DateKnown'
<1> USE NatConstants
<1>0. ShownType /\ NetType /\ list \in Lists \cup {<<>>} /\ (list # <<>> => date \in Dates)
  BY DEF TypeOK, DateKnown, ShownType, NetType
<1>1. ASSUME NEW k \in Keys, NEW what \in {"bars", "empty"}, Respond(k, what)
      PROVE  TypeOK' /\ DateKnown'
  <2>1. ShownType'
    BY <1>0, <1>1, PaintType DEF Respond
  <2>2. NetType'
    BY <1>0, <1>1 DEF Respond, NetType
  <2>3. UNCHANGED <<uiVars, stepped, clicks>>
    BY <1>1 DEF Respond
  <2> QED
    BY <2>1, <2>2, <2>3 DEF TypeOK, DateKnown, ShownType, NetType, uiVars
<1>2. ASSUME NEW k \in Keys, RespondError(k) PROVE TypeOK' /\ DateKnown'
  <2>1. ShownType'
    BY <1>0, <1>2, PaintType DEF RespondError
  <2>2. NetType' /\ clicks' \in 0 .. MaxClicks
    BY <1>0, <1>2 DEF RespondError, NetType, TypeOK
  <2>3. UNCHANGED <<uiVars, stepped>>
    BY <1>2 DEF RespondError
  <2> QED
    BY <2>1, <2>2, <2>3 DEF TypeOK, DateKnown, ShownType, NetType, uiVars
<1>3. ASSUME Click PROVE clicks' \in 0 .. MaxClicks
  BY <1>3 DEF Click, TypeOK
<1>4. ASSUME NEW i \in 1 .. Len(list), Choose(i) PROVE TypeOK' /\ DateKnown'
  <2>1. list # <<>> /\ Len(list) \in Nat
    BY <1>0, ListType
  <2>2. /\ open' \in BOOLEAN /\ index' = i /\ key' \in Keys /\ ShownType' /\ NetType'
        /\ clicks' \in 0 .. MaxClicks
    BY <1>0, <1>3, <1>4, <2>1, ShowType DEF Choose
  <2>3. UNCHANGED <<date, list, stepped>>
    BY <1>4 DEF Choose
  <2> QED
    BY <2>1, <2>2, <2>3 DEF TypeOK, DateKnown, ShownType, NetType
<1>5. ASSUME NEW l \in Lists, ChooseList(l) PROVE TypeOK' /\ DateKnown'
  <2>1. list # <<>> /\ list' = l /\ UNCHANGED <<date, stepped>> /\ clicks' \in 0 .. MaxClicks
    BY <1>3, <1>5 DEF ChooseList
  <2>2. Len(l) \in Nat /\ (l # <<>> => 1 \in 1 .. Len(l))
    BY ListType
  <2>3. CASE l # <<>> /\ ShowChartAt(l, 1)
    <3>1. open' \in BOOLEAN /\ index' = 1 /\ key' \in Keys /\ ShownType' /\ NetType'
      BY <1>0, <2>1, <2>2, <2>3, ShowType
    <3> QED
      BY <2>1, <2>2, <3>1 DEF TypeOK, DateKnown, ShownType, NetType
  <2>4. CASE index' = 1 /\ UNCHANGED <<open, key, shownVars, netVars>>
    BY <2>1, <2>2, <2>4 DEF TypeOK, DateKnown, shownVars, netVars
  <2> QED
    BY <1>5, <2>3, <2>4 DEF ChooseList
<1>6. CASE Hide
  <2>1. chart' \in BOOLEAN /\ open' \in BOOLEAN /\ clicks' \in 0 .. MaxClicks
    BY <1>3, <1>6 DEF Hide, DestroyLWChart
  <2>2. UNCHANGED <<date, list, index, key, payload, shownN, netVars, stepped>>
    BY <1>6 DEF Hide
  <2> QED
    BY <2>1, <2>2 DEF TypeOK, DateKnown, netVars
<1>7. ASSUME NEW n \in 1 .. Total, MoreBars(n) PROVE TypeOK' /\ DateKnown'
  <2>1. shownN' \in 0 .. Total /\ stepped' \subseteq Keys /\ clicks' \in 0 .. MaxClicks
    BY <1>3, <1>7 DEF MoreBars, TypeOK
  <2>2. UNCHANGED <<uiVars, chart, payload, netVars>>
    BY <1>7 DEF MoreBars
  <2> QED
    BY <2>1, <2>2 DEF TypeOK, DateKnown, netVars, uiVars
<1>8. ASSUME NEW l \in Lists, PollHidden(l) PROVE TypeOK' /\ DateKnown'
  <2>1. date # NoDate /\ list' = l /\ chart' \in BOOLEAN
    BY <1>8 DEF PollHidden, DestroyLWChart
  <2>2. index' \in Nat \ {0} /\ (l # <<>> => index' <= Len(l))
    <3>1. Len(l) \in Nat /\ (l # <<>> => 1 <= Len(l)) /\ index \in Nat \ {0}
      BY ListType DEF TypeOK
    <3> QED
      BY <1>8, <3>1 DEF PollHidden
  <2>3. UNCHANGED <<date, open, key, payload, shownN, netVars, stepped, clicks>>
    BY <1>8 DEF PollHidden
  <2> QED
    BY <2>1, <2>2, <2>3 DEF TypeOK, DateKnown, netVars
<1>9. ASSUME NEW l \in Lists, PollShown(l) PROVE TypeOK' /\ DateKnown'
  <2>1. date # NoDate /\ list' = l /\ l # <<>> /\ UNCHANGED <<date, stepped, clicks>>
    BY <1>9 DEF PollShown
  <2>2. Follow(l) \in 1 .. Len(l) /\ Len(l) \in Nat /\ date \in Dates
    BY <2>1, FollowType, ListType DEF TypeOK
  <2>3. CASE ShowChartAt(l, Follow(l))
    <3>1. open' \in BOOLEAN /\ index' = Follow(l) /\ key' \in Keys /\ ShownType' /\ NetType'
      BY <1>0, <2>2, <2>3, ShowType
    <3> QED
      BY <2>1, <2>2, <3>1 DEF TypeOK, DateKnown, ShownType, NetType
  <2>4. CASE index' = Follow(l) /\ UNCHANGED <<open, key, shownVars, netVars>>
    BY <2>1, <2>2, <2>4 DEF TypeOK, DateKnown, shownVars, netVars
  <2> QED
    BY <1>9, <2>3, <2>4 DEF PollShown
<1>10. ASSUME NEW l \in Lists, NEW d \in Dates, PollNewSession(d, l) PROVE TypeOK' /\ DateKnown'
  <2>1. Len(l) \in Nat /\ (l # <<>> => 1 <= Len(l))
    BY ListType
  <2>2. /\ date' = d /\ list' = l /\ open' \in BOOLEAN /\ index' = 1 /\ key' = NoKey
        /\ chart' \in BOOLEAN /\ payload' = NoKey /\ shownN' = 0
        /\ cache' = [k \in Keys |-> "no"] /\ UNCHANGED <<pending, stepped, clicks>>
    BY <1>10 DEF PollNewSession, DestroyLWChart
  <2> QED
    BY <2>1, <2>2, NoneAssumption DEF TypeOK, DateKnown
<1>11. CASE UNCHANGED vars
  BY <1>11 DEF vars, uiVars, shownVars, netVars, TypeOK, DateKnown
<1> QED
  BY <1>1, <1>2, <1>4, <1>5, <1>6, <1>7, <1>8, <1>9, <1>10, <1>11 DEF Next, Poll

-----------------------------------------------------------------------------
(* The theorems                                                             *)

LEMMA SpoilerStep == ASSUME TypeOK, NoSpoiler, [Next]_vars PROVE NoSpoiler'
<1> USE NatConstants DEF NoSpoiler, shownVars
<1>1. ASSUME NEW k, Paint(k) PROVE NoSpoiler'
  BY <1>1 DEF Paint
<1>2. CASE PaintNothing /\ UNCHANGED stepped
  BY <1>2 DEF PaintNothing
<1>3. ASSUME NEW l, NEW i, ShowChartAt(l, i), UNCHANGED stepped PROVE NoSpoiler'
  BY <1>1, <1>2, <1>3 DEF ShowChartAt
<1>4. ASSUME NEW k \in Keys, RespondError(k) \/ \E what \in {"bars", "empty"} : Respond(k, what)
      PROVE  NoSpoiler'
  BY <1>1, <1>2, <1>4 DEF Respond, RespondError
<1>5. ASSUME NEW i \in 1 .. Len(list), Choose(i) PROVE NoSpoiler'
  BY <1>3, <1>5 DEF Choose
<1>6. ASSUME NEW l \in Lists, ChooseList(l) PROVE NoSpoiler'
  BY <1>3, <1>6 DEF ChooseList
<1>7. CASE Hide
  BY <1>7 DEF Hide
<1>8. ASSUME NEW n \in 1 .. Total, MoreBars(n) PROVE NoSpoiler'
  BY <1>8 DEF MoreBars
<1>9. ASSUME NEW l \in Lists, Poll(l) PROVE NoSpoiler'
  BY <1>3, <1>9 DEF Poll, PollHidden, PollShown
<1>10. ASSUME NEW l \in Lists, NEW d \in Dates, PollNewSession(d, l) PROVE NoSpoiler'
  BY <1>10 DEF PollNewSession
<1>11. CASE UNCHANGED vars
  BY <1>11 DEF vars
<1> QED
  BY <1>4, <1>5, <1>6, <1>7, <1>8, <1>9, <1>10, <1>11 DEF Next

LEMMA Invariance == Spec => []IInv
<1>1. IInv /\ [Next]_vars => IInv'
  BY TypeStep, SpoilerStep DEF IInv
<1> QED
  BY <1>1, InitInv, PTL DEF Spec

\* Every reachable state has its type: the index names an element of the list,
\* and what is requested or painted is the chart of a session.
THEOREM TypeCorrect == Spec => []TypeOK
BY Invariance, PTL DEF IInv

\* "Guess then reveal" (app.js:143): no answer, late or doubled, and no poll
\* shows more of a chart than its first minutes, unless the user asked for more.
THEOREM NothingSpoiled == Spec => []NoSpoiler
BY Invariance, PTL DEF IInv

\* "prevents jumping if list changes" (app.js:1454): a poll that finds the
\* chart loaded leaves it as it is, for any lists.
THEOREM PollsKeepChart == Spec => PollKeepsChart
<1>1. ASSUME TypeOK, NEW l \in Lists, Poll(l), open, chart, payload = key, key.date = date,
             payload.sym \in Syms(l)
      PROVE  UNCHANGED <<open, key, shownVars, pending>> /\ l[index'] = payload.sym
  <2>1. l # <<>> /\ date # NoDate
    <3>1. l # <<>>
      BY <1>1, ListType DEF Syms
    <3>2. date # NoDate
      BY <1>1 DEF Poll, PollHidden, PollShown
    <3> QED
      BY <3>1, <3>2
  <2>2. payload \in Keys /\ payload # NoKey
    <3>1. payload.date # NoDate
      BY <1>1, <2>1
    <3> QED
      BY <1>1, <3>1, KeyFields DEF TypeOK, NoKey
  <2>3. Follow(l) \in 1 .. Len(l) /\ l[Follow(l)] = payload.sym
    BY <1>1, SymIndex DEF Follow
  <2>4. key = [date |-> date, sym |-> l[Follow(l)]]
    BY <1>1, <2>2, <2>3, KeyFields
  <2>5. ~NeedsLoad(l)
    BY <1>1, <2>2, <2>4 DEF NeedsLoad
  <2>6. PollShown(l)
    BY <1>1, <2>1 DEF Poll, PollHidden
  <2>7. index' = Follow(l) /\ UNCHANGED <<open, key, shownVars, netVars>>
    BY <2>5, <2>6 DEF PollShown
  <2> QED
    BY <2>3, <2>7 DEF netVars
<1>2. IInv => [\A l \in Lists :
                 /\ Poll(l)
                 /\ open /\ chart /\ payload = key /\ key.date = date
                 /\ payload.sym \in Syms(l)
                 => /\ UNCHANGED <<open, key, shownVars, pending>>
                    /\ l[index'] = payload.sym]_vars
  BY <1>1 DEF IInv
<1> QED
  BY <1>2, Invariance, PTL DEF PollKeepsChart
=============================================================================
