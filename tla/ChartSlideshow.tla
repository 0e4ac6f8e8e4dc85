---------------------------- MODULE ChartSlideshow ----------------------------
(***************************************************************************)
(* The "Of interest" slideshow of internal/server/web/app.js.  A chart shows *)
(* the first minutes of a ticker's session, so that the user can guess, and  *)
(* then, click by click or at once, the rest.                               *)
(*                                                                         *)
(* showChartAt sets the index and the key, awaits the bars, and sets what is *)
(* painted; meanwhile the user clicks on, and once a second renderHistoric   *)
(* brings a new list, moves the index to the painted symbol, and loads what  *)
(* it finds missing.  An answer is painted whenever it comes.  A handler      *)
(* runs to its first await of the network; bars from the cache are painted   *)
(* before the next event.                                                   *)
(*                                                                         *)
(* Performance is switched off, the libraries have loaded, and the date of a *)
(* session stays what it is when its list first comes.                      *)
(***************************************************************************)
EXTENDS Naturals, Sequences

CONSTANTS
  Dates, NoDate,
  Tickers, NoTicker,
  Lists,        \* what getActiveChartTickers may return: lists of tickers
  InitN, Total, \* the bars shown first, and all bars of a chart
  MaxFetch,     \* bound: requests for one chart that are told apart
  MaxClicks     \* bound: the user's clicks, and requests that fail

ASSUME NoneAssumption == NoDate \notin Dates /\ NoTicker \notin Tickers
ASSUME ListsAssumption ==
  \A l \in Lists : /\ l \in Seq(Tickers)
                   /\ \A i, j \in 1 .. Len(l) : l[i] = l[j] => i = j
ASSUME BarsAssumption == InitN \in Nat \ {0} /\ Total \in Nat /\ InitN <= Total
ASSUME BoundAssumption == MaxFetch \in Nat \ {0} /\ MaxClicks \in Nat

VARIABLES
  date,     \* chartsDateISO
  list,     \* the active list
  open,     \* chartsOpen
  index,    \* chartIndex, from 1
  key,      \* currentChartKey
  chart,    \* whether lwChart is there
  payload,  \* currentChartPayload, by its key
  shownN,   \* currentChartShownN
  cache,    \* chartDataCache: no entry, "bars", or an "empty" list of bars
  pending,  \* the requests under way
  stepped,  \* history: the charts on which the user asked for more bars
  clicks    \* clicks made, requests failed

uiVars == <<date, list, open, index, key>>
shownVars == <<chart, payload, shownN>>
netVars == <<cache, pending>>
vars == <<uiVars, shownVars, netVars, stepped, clicks>>

Keys == [date : Dates, sym : Tickers]
NoKey == [date |-> NoDate, sym |-> NoTicker]

TypeOK ==
  /\ date \in Dates \cup {NoDate}
  /\ list \in Lists \cup {<<>>}
  /\ open \in BOOLEAN
  /\ index \in Nat \ {0} /\ (list # <<>> => index <= Len(list))
  /\ key \in Keys \cup {NoKey}
  /\ chart \in BOOLEAN
  /\ payload \in Keys \cup {NoKey}
  /\ shownN \in 0 .. Total
  /\ cache \in [Keys -> {"no", "bars", "empty"}]
  /\ pending \in [Keys -> 0 .. MaxFetch]
  /\ stepped \subseteq Keys
  /\ clicks \in 0 .. MaxClicks

Init ==
  /\ date = NoDate /\ list = <<>> /\ open = FALSE /\ index = 1 /\ key = NoKey
  /\ chart = FALSE /\ payload = NoKey /\ shownN = 0
  /\ cache = [k \in Keys |-> "no"] /\ pending = [k \in Keys |-> 0]
  /\ stepped = {} /\ clicks = 0

Syms(l) == {l[i] : i \in 1 .. Len(l)}
IndexOf(l, s) == CHOOSE i \in 1 .. Len(l) : l[i] = s

-----------------------------------------------------------------------------
(* showChartAt and fetchChartBars                                           *)

\* ensureLWChart (whose library has loaded) and destroyLWChart
EnsureLWChart == chart' = TRUE
DestroyLWChart == chart' = FALSE

\* Variant: the bars already shown are counted on.
Paint_KeepCount(k) ==
  payload' = k /\ EnsureLWChart /\ shownN' = IF shownN > InitN THEN shownN ELSE InitN

\* The bars of k are here: the first of them are painted.
Paint(k) == payload' = k /\ EnsureLWChart /\ shownN' = InitN

\* "No bars returned": the chart is destroyed, the payload stays.
PaintNothing == DestroyLWChart /\ UNCHANGED <<payload, shownN>>

\* showChartAt(i) on list l: from the cache, or a request.
ShowChartAt(l, i) ==
  LET k == [date |-> date, sym |-> l[i]]
  IN  /\ open' = TRUE /\ index' = i /\ key' = k
      /\ \/ cache[k] = "bars" /\ Paint(k) /\ UNCHANGED netVars
         \/ cache[k] = "empty" /\ PaintNothing /\ UNCHANGED netVars
         \/ /\ cache[k] = "no"
            /\ pending' = [pending EXCEPT ![k] = IF @ < MaxFetch THEN @ + 1 ELSE @]
            /\ UNCHANGED <<shownVars, cache>>

\* The answer comes, and is painted whatever the page shows by now.  A second
\* answer brings what the first has brought.
Respond(k, what) ==
  /\ pending[k] > 0
  /\ cache[k] \in {"no", what}
  /\ pending' = [pending EXCEPT ![k] = @ - 1]
  /\ cache' = [cache EXCEPT ![k] = what]
  /\ IF what = "bars" THEN Paint(k) ELSE PaintNothing
  /\ UNCHANGED <<uiVars, stepped, clicks>>

RespondError(k) ==
  /\ pending[k] > 0
  /\ clicks < MaxClicks
  /\ clicks' = clicks + 1
  /\ pending' = [pending EXCEPT ![k] = @ - 1]
  /\ PaintNothing
  /\ UNCHANGED <<uiVars, cache, stepped>>

-----------------------------------------------------------------------------
(* The user                                                                 *)

Click == clicks < MaxClicks /\ clicks' = clicks + 1

\* Show, previous, next, or a choice from the list
Choose(i) ==
  /\ Click
  /\ i \in 1 .. Len(list)
  /\ ShowChartAt(list, i)
  /\ UNCHANGED <<date, list, stepped>>

\* The other of the two lists
ChooseList(l) ==
  /\ Click
  /\ list # <<>>
  /\ list' = l
  /\ IF open /\ l # <<>>
       THEN ShowChartAt(l, 1)
       ELSE index' = 1 /\ UNCHANGED <<open, key, shownVars, netVars>>
  /\ UNCHANGED <<date, stepped>>

\* hideChartsBtn: the chart is destroyed, its data stays.
Hide ==
  /\ Click
  /\ list # <<>>
  /\ open' = FALSE
  /\ DestroyLWChart
  /\ UNCHANGED <<date, list, index, key, payload, shownN, netVars, stepped>>

\* "Show next" (n is one more) and "Show Rest" (n is all)
MoreBars(n) ==
  /\ Click
  /\ open /\ list # <<>>
  /\ payload # NoKey
  /\ shownN < Total
  /\ n \in {shownN + 1, Total}
  /\ shownN' = n
  /\ stepped' = stepped \cup {payload}
  /\ UNCHANGED <<uiVars, chart, payload, netVars>>

-----------------------------------------------------------------------------
(* The poll: renderState and renderHistoric                                 *)

\* A new session: resetChartsState, and the new list with the charts closed.
PollNewSession(d, l) ==
  /\ date' = d
  /\ list' = l
  /\ open' = FALSE /\ index' = 1 /\ key' = NoKey
  /\ DestroyLWChart /\ payload' = NoKey /\ shownN' = 0
  /\ cache' = [k \in Keys |-> "no"]
  /\ UNCHANGED <<pending, stepped, clicks>>

\* Variant: the list shrinks under the index of a closed chart.
PollHidden_KeepIndex(l) ==
  /\ date # NoDate
  /\ list' = l
  /\ l = <<>> \/ ~open
  /\ DestroyLWChart
  /\ UNCHANGED <<date, open, index, key, payload, shownN, netVars, stepped, clicks>>

\* Nothing to show, or the charts are closed: hideChartsUI(true).
PollHidden(l) ==
  /\ date # NoDate
  /\ list' = l
  /\ l = <<>> \/ ~open
  /\ index' = IF l # <<>> /\ index > Len(l) THEN 1 ELSE index
  /\ DestroyLWChart
  /\ UNCHANGED <<date, open, key, payload, shownN, netVars, stepped, clicks>>

\* Variant: the index is kept, whatever the new list has there.
Follow_Index(l) == IF index > Len(l) THEN 1 ELSE index

\* "Keep chartIndex stable by symbol when possible"
Follow(l) ==
  IF payload.sym \in Syms(l) THEN IndexOf(l, payload.sym)
  ELSE IF index > Len(l) THEN 1 ELSE index

\* Variant: only a missing chart is loaded.
NeedsLoad_NoKey(l) == ~chart \/ payload = NoKey

\* needsLoad, with the index that Follow gives
NeedsLoad(l) ==
  ~chart \/ payload = NoKey \/ key # [date |-> date, sym |-> l[Follow(l)]]

PollShown(l) ==
  /\ date # NoDate
  /\ list' = l
  /\ l # <<>> /\ open
  /\ IF NeedsLoad(l)
       THEN ShowChartAt(l, Follow(l))
       ELSE index' = Follow(l) /\ UNCHANGED <<open, key, shownVars, netVars>>
  /\ UNCHANGED <<date, stepped, clicks>>

Poll(l) == PollHidden(l) \/ PollShown(l)

Next ==
  \/ \E k \in Keys : RespondError(k) \/ \E what \in {"bars", "empty"} : Respond(k, what)
  \/ \E i \in 1 .. Len(list) : Choose(i)
  \/ \E l \in Lists : ChooseList(l)
  \/ Hide
  \/ \E n \in 1 .. Total : MoreBars(n)
  \/ \E l \in Lists : Poll(l) \/ \E d \in Dates : PollNewSession(d, l)

\* The page's timer goes on, and requests are answered; the list need not
\* change, nor the user do anything.
Fairness ==
  /\ WF_vars(Poll(list))
  /\ \A k \in Keys : WF_vars(\E what \in {"bars", "empty"} : Respond(k, what))

Spec == Init /\ [][Next]_vars
FairSpec == Spec /\ Fairness

-----------------------------------------------------------------------------
(* Properties *)

\* "Guess then reveal" (app.js:143): no answer, late or doubled, and no poll
\* shows more of a chart than its first minutes, unless the user asked for
\* more of that very chart.
NoSpoiler == shownN > InitN => payload \in stepped

\* "prevents jumping if list changes" (app.js:1454): a poll that finds the
\* chart loaded leaves it on screen with the bars it shows, wherever the new
\* list has its symbol.
PollKeepsChart ==
  [][\A l \in Lists :
       /\ Poll(l)
       /\ open /\ chart /\ payload = key /\ key.date = date
       /\ payload.sym \in Syms(l)
       => /\ UNCHANGED <<open, key, shownVars, pending>>
          /\ l[index'] = payload.sym]_vars

\* What the page shows is what its controls say: the chart of the symbol they
\* name, or that there is none, and none when the slideshow is closed.  One
\* exception: nothing removes a late chart whose symbol has left the list.
Settled ==
  IF open /\ list # <<>>
    THEN /\ key = [date |-> date, sym |-> list[index]]
         /\ \/ cache[key] = "empty"
            \/ chart /\ payload.sym = key.sym
            \/ chart /\ payload.sym \notin Syms(list)
    ELSE ~chart

\* However the clicks, answers and polls were interleaved, once the user waits
\* and the list stays as it is, so does the page (app.js:1454-1485).
Settles == (<>[][UNCHANGED <<list, clicks, date>>]_vars) => <>[]Settled

\* "Do NOT call showChartAt() every 1s poll. That resets currentChartShownN
\* and makes bars "disappear"" (app.js:1481): while a chart is on display, only
\* a click takes bars away.
BarsStay ==
  [][chart /\ chart' /\ payload' = payload /\ clicks' = clicks => shownN' >= shownN]_vars
=============================================================================
