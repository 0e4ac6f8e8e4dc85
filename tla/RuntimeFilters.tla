--------------------------- MODULE RuntimeFilters ---------------------------
(***************************************************************************)
(* The runtime filters: their start from the configuration (config.go), the  *)
(* store's copy and its validation (store.go), GET and POST /api/filters     *)
(* (api.go), and the form by which each open page shows and changes them     *)
(* (web/app.js): edits are staged, Apply posts the whole form, and a poll     *)
(* every second fills in what is neither focused nor staged.                *)
(*                                                                         *)
(* Three of the thirteen fields stand for the others.  lo and hi are a pair   *)
(* in order like open_5m_today_pct_min and _max, the one pair that only the   *)
(* store checks; frac is a fraction with a default like                     *)
(* sold_off_from_open_pct_min.                                              *)
(***************************************************************************)
EXTENDS Integers, Sequences, SequencesExt

CONSTANTS
  Pages,
  Values, One, DefaultFrac,   \* numbers in fields; the number 1, and 0.20
  Configs,    \* the filters a configuration file may give
  Typed,      \* what users type into each field
  Empty, NoField, NoPoll,
  MaxEdits, MaxSaves,   \* bounds: edits and saves, of all users together
  MaxLost     \* bound: requests whose answer never comes

ASSUME ValuesAssumption ==
  Values \subseteq Int /\ DefaultFrac \in Values
ASSUME DefaultAssumption == One \in Int /\ 0 < DefaultFrac /\ DefaultFrac < One
ASSUME EmptyAssumption == Empty \notin Values
ASSUME BoundsAssumption == {MaxEdits, MaxSaves, MaxLost} \subseteq Nat

Fields == {"lo", "hi", "frac"}
Filters == [Fields -> Values]

ASSUME ConfigsAssumption == Configs \subseteq Filters
ASSUME TypedAssumption == \A x \in Fields : Typed[x] \subseteq Values \cup {Empty}

VARIABLES
  filters,   \* the store's
  form,      \* what each page's fields hold
  dirty,     \* dirtyFilterIDs: the fields with staged edits
  focus,     \* document.activeElement, if it is a field
  saves,     \* the posts of each page that are under way
  poll,      \* the filters in the answer to each page's poll, if one is on its way
  edits, applied, lost

vars == <<filters, form, dirty, focus, saves, poll, edits, applied, lost>>
pageVars == <<form, dirty, focus>>
userVars == <<edits, applied>>

\* filtersPatch: a field that is empty is null, and is kept.
Patch == [Fields -> Values \cup {Empty}]
Save == [state : {"sent", "ok", "refused"}, patch : Patch]

-----------------------------------------------------------------------------
(* config.go and store.go                                                   *)

Default(c) == IF c["frac"] <= 0 THEN [c EXCEPT !["frac"] = DefaultFrac] ELSE c

Fraction(c) == 0 < c["frac"] /\ c["frac"] < One

\* config.validate does not look at the order of lo and hi, ...
ConfigOK(c) == Fraction(c)

\* Variant: only the order is validated.
Valid_OrderOnly(f) == f["lo"] <= f["hi"]

\* ... and validateRuntimeFilters does.
Valid(f) == f["lo"] <= f["hi"] /\ Fraction(f)

Patched(f, patch) == [x \in Fields |-> IF patch[x] = Empty THEN f[x] ELSE patch[x]]

TypeOK ==
  /\ filters \in Filters /\ Fraction(filters)
  /\ form \in [Pages -> Patch]
  /\ dirty \in [Pages -> SUBSET Fields]
  /\ focus \in [Pages -> Fields \cup {NoField}]
  /\ saves \in [Pages -> Seq(Save)]
  /\ poll \in [Pages -> Filters \cup {NoPoll}]
  /\ edits \in 0 .. MaxEdits /\ applied \in 0 .. MaxSaves /\ lost \in 0 .. MaxLost

\* main: config.Load, and store.New with runtimeFiltersFromConfig; each page
\* starts with empty fields.
Init ==
  /\ \E c \in Configs : ConfigOK(Default(c)) /\ filters = Default(c)
  /\ form = [p \in Pages |-> [x \in Fields |-> Empty]]
  /\ dirty = [p \in Pages |-> {}]
  /\ focus = [p \in Pages |-> NoField]
  /\ saves = [p \in Pages |-> <<>>]
  /\ poll = [p \in Pages |-> NoPoll]
  /\ edits = 0 /\ applied = 0 /\ lost = 0

-----------------------------------------------------------------------------
(* The users                                                                *)

\* An edit of a field, by someone who has it in focus: markFilterDirty.
Edit(p, x, v) ==
  /\ edits < MaxEdits
  /\ edits' = edits + 1
  /\ v # form[p][x]
  /\ form' = [form EXCEPT ![p][x] = v]
  /\ dirty' = [dirty EXCEPT ![p] = @ \cup {x}]
  /\ focus' = [focus EXCEPT ![p] = x]
  /\ UNCHANGED <<filters, saves, poll, applied, lost>>

Blur(p) ==
  /\ focus[p] # NoField
  /\ focus' = [focus EXCEPT ![p] = NoField]
  /\ UNCHANGED <<filters, form, dirty, saves, poll, userVars, lost>>

\* The button takes the focus; applyFilters posts every field.  It may be
\* clicked again while a post is under way.
Apply(p) ==
  /\ applied < MaxSaves
  /\ applied' = applied + 1
  /\ focus' = [focus EXCEPT ![p] = NoField]
  /\ saves' = [saves EXCEPT ![p] = Append(@, [state |-> "sent", patch |-> form[p]])]
  /\ UNCHANGED <<filters, form, dirty, poll, edits, lost>>

-----------------------------------------------------------------------------
(* handleFilters, and the answer to applyFilters                            *)

\* Variant: the patch is judged by itself, the fields it leaves out being fine.
HandlePost_PatchOnly(p, i) ==
  /\ saves[p][i].state = "sent"
  /\ LET patch == saves[p][i].patch
         ok == Empty \in {patch["lo"], patch["hi"]} \/ patch["lo"] <= patch["hi"]
     IN  /\ filters' = IF ok THEN Patched(filters, patch) ELSE filters
         /\ saves' = [saves EXCEPT ![p][i].state = IF ok THEN "ok" ELSE "refused"]
  /\ UNCHANGED <<pageVars, poll, userVars, lost>>

\* UpdateFilters: patch, validate and assign under the store's lock.  Posts of
\* one page may be handled in any order.
HandlePost(p, i) ==
  /\ saves[p][i].state = "sent"
  /\ LET next == Patched(filters, saves[p][i].patch)
     IN  /\ filters' = IF Valid(next) THEN next ELSE filters
         /\ saves' = [saves EXCEPT ![p][i].state = IF Valid(next) THEN "ok" ELSE "refused"]
  /\ UNCHANGED <<pageVars, poll, userVars, lost>>

\* The answer reaches the page: "Saved." clears every staged edit, also those
\* made since Apply; an error leaves them.
SaveAnswered(p, i) ==
  /\ saves[p][i].state # "sent"
  /\ dirty' = IF saves[p][i].state = "ok" THEN [dirty EXCEPT ![p] = {}] ELSE dirty
  /\ saves' = [saves EXCEPT ![p] = RemoveAt(@, i)]
  /\ UNCHANGED <<filters, form, focus, poll, userVars, lost>>

\* "network error": before or after the post has been handled.
SaveFails(p, i) ==
  /\ lost < MaxLost
  /\ lost' = lost + 1
  /\ saves' = [saves EXCEPT ![p] = RemoveAt(@, i)]
  /\ UNCHANGED <<filters, pageVars, poll, userVars>>

-----------------------------------------------------------------------------
(* loop, fetchState and renderState                                         *)

\* /api/state is served; the answer is on its way.
PollServed(p) ==
  /\ poll[p] = NoPoll
  /\ poll' = [poll EXCEPT ![p] = filters]
  /\ UNCHANGED <<filters, pageVars, saves, userVars, lost>>

\* Variant: a form with staged edits is not filled in at all.
PollAnswered_AllOrNothing(p) ==
  /\ poll[p] # NoPoll
  /\ form' = [form EXCEPT ![p] = [x \in Fields |->
                IF x = focus[p] \/ dirty[p] # {} THEN form[p][x] ELSE poll[p][x]]]
  /\ poll' = [poll EXCEPT ![p] = NoPoll]
  /\ UNCHANGED <<filters, dirty, focus, saves, userVars, lost>>

\* syncInput for each field, and setTimeout(loop).
PollAnswered(p) ==
  /\ poll[p] # NoPoll
  /\ form' = [form EXCEPT ![p] = [x \in Fields |->
                IF x = focus[p] \/ x \in dirty[p] THEN form[p][x] ELSE poll[p][x]]]
  /\ poll' = [poll EXCEPT ![p] = NoPoll]
  /\ UNCHANGED <<filters, dirty, focus, saves, userVars, lost>>

\* fetchState fails; loop goes on all the same.
PollFails(p) ==
  /\ lost < MaxLost
  /\ poll[p] # NoPoll
  /\ lost' = lost + 1
  /\ poll' = [poll EXCEPT ![p] = NoPoll]
  /\ UNCHANGED <<filters, pageVars, saves, userVars>>

-----------------------------------------------------------------------------
User(p) == Apply(p) \/ Blur(p) \/ \E x \in Fields : \E v \in Typed[x] : Edit(p, x, v)
Saving(p) == \E i \in DOMAIN saves[p] : HandlePost(p, i) \/ SaveAnswered(p, i)
Polling(p) == PollServed(p) \/ PollAnswered(p)
Failing(p) == PollFails(p) \/ \E i \in DOMAIN saves[p] : SaveFails(p, i)

Next == \E p \in Pages : User(p) \/ Saving(p) \/ Polling(p) \/ Failing(p)

\* The page's timer runs, and a request is answered or fails.
Fairness == \A p \in Pages : WF_vars(Polling(p)) /\ WF_vars(Saving(p))

Spec == Init /\ [][Next]_vars /\ Fairness

-----------------------------------------------------------------------------
(* Properties *)

\* A page whose own form is complete and valid is never refused for what happens
\* to be in force.
RefusedIsInvalid ==
  \A p \in Pages : \A i \in DOMAIN saves[p] :
    LET patch == saves[p][i].patch
    IN  saves[p][i].state = "refused" /\ Empty \notin Range(patch) => ~Valid(patch)

\* Whatever partial patches race, in whatever order they are handled, the filters
\* in force change only to a combination that validateRuntimeFilters accepts as a
\* whole, also when the configuration began with one that it does not; and what
\* is refused is the post's own fault or its gaps' (store.go:312, 371-386).
PostsAreJudgedWhole ==
  /\ [][filters' # filters => Valid(filters')]_filters
  /\ []RefusedIsInvalid

\* Once the users have stopped, every page comes to show the filters in force in
\* all fields but those with the focus or with an edit that was not saved: no
\* late poll, lost answer, refused or overtaken save leaves another number
\* standing (app.js:276-325, 1626-1635).
FormsSettle ==
  <>[](\A p \in Pages, x \in Fields :
         form[p][x] = filters[x] \/ x = focus[p] \/ x \in dirty[p])

\* "Mark filter fields dirty on edit so the 1s poll doesn't overwrite staged
\* changes" (app.js:1732): an edit loses its mark only when its value was posted.
StagedUntilPosted ==
  [][\A p \in Pages : \A x \in dirty[p] \ dirty'[p] :
       \E i \in DOMAIN saves[p] : saves[p][i].patch[x] = form[p][x]]_vars
=============================================================================
