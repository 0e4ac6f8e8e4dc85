------------------------ MODULE RuntimeFilters_proofs ------------------------
(***************************************************************************)
(* Theorems about the runtime filters, for any values, pages and bounds.    *)
(*                                                                         *)
(* The invariant puts every post that is under way into a set of posts which *)
(* were not refused without reason (Judged); sequences of them stay such     *)
(* sequences under every step.                                              *)
(***************************************************************************)
EXTENDS RuntimeFilters, SequenceTheorems, TLAPS

Judged ==
  {s \in Save : s.state = "refused" /\ Empty \notin Range(s.patch) => ~Valid(s.patch)}

IInv == TypeOK /\ saves \in [Pages -> Seq(Judged)]

-----------------------------------------------------------------------------
(* Operators                                                                *)

\* What is taken out of the middle leaves the rest as it was.
LEMMA RemoveAtType ==
  ASSUME NEW S, NEW s \in Seq(S), NEW i \in 1 .. Len(s) PROVE RemoveAt(s, i) \in Seq(S)
<1>1. \A j \in 1 .. Len(s) : s[j] \in S
  OBVIOUS
<1>2. SubSeq(s, 1, i - 1) \in Seq(S)
  BY <1>1, SubSeqProperties
<1>3. SubSeq(s, i + 1, Len(s)) \in Seq(S)
  BY <1>1, SubSeqProperties
<1> QED
  BY <1>2, <1>3, ConcatProperties DEF RemoveAt

LEMMA PatchedType ==
  ASSUME NEW f \in Filters, NEW patch \in Patch PROVE Patched(f, patch) \in Filters
BY DEF Filters, Patch, Patched

\* A patch without gaps is what it leads to.
LEMMA FullPatch ==
  ASSUME NEW f \in Filters, NEW patch \in Patch, Empty \notin Range(patch)
  PROVE  Patched(f, patch) = patch
<1>1. \A x \in Fields : patch[x] # Empty
  BY DEF Range, Patch
<1> QED
  BY <1>1 DEF Patched, Patch

LEMMA JudgedIsSave == Judged \subseteq Save
BY DEF Judged

-----------------------------------------------------------------------------
\* The configuration.
LEMMA InitInv == Init => IInv
<1> SUFFICES ASSUME Init PROVE IInv
  OBVIOUS
<1>1. filters \in Filters /\ Fraction(filters)
  BY ConfigsAssumption, ValuesAssumption DEF Init, Default, ConfigOK, Filters, Fields
<1>2. saves \in [Pages -> Seq(Judged)] /\ saves \in [Pages -> Seq(Save)]
  BY DEF Init
<1>3. form \in [Pages -> Patch]
  BY DEF Init, Patch
<1> QED
  BY <1>1, <1>2, <1>3, BoundsAssumption DEF Init, IInv, TypeOK

\* A step of a user.
LEMMA UserStep == ASSUME IInv, NEW p \in Pages, User(p) PROVE IInv' /\ UNCHANGED filters
<1> USE DEF IInv
<1>1. CASE Apply(p)
  <2>1. [state |-> "sent", patch |-> form[p]] \in Judged
    BY DEF TypeOK, Judged, Save
  <2>2. Append(saves[p], [state |-> "sent", patch |-> form[p]]) \in Seq(Judged)
    BY <2>1, AppendProperties
  <2>3. saves' \in [Pages -> Seq(Judged)]
    BY <1>1, <2>2 DEF Apply
  <2>4. applied' \in 0 .. MaxSaves
    BY <1>1, BoundsAssumption DEF Apply, TypeOK
  <2>5. focus' \in [Pages -> Fields \cup {NoField}]
    BY <1>1 DEF Apply, TypeOK
  <2>6. saves' \in [Pages -> Seq(Save)]
    BY <2>3, JudgedIsSave
  <2> QED
    BY <1>1, <2>3, <2>4, <2>5, <2>6 DEF Apply, TypeOK
<1>2. CASE Blur(p)
  BY <1>2 DEF Blur, TypeOK, userVars
<1>3. ASSUME NEW x \in Fields, NEW v \in Typed[x], Edit(p, x, v)
      PROVE  IInv' /\ UNCHANGED filters
  <2>1. v \in Values \cup {Empty}
    BY TypedAssumption
  <2>2. form' \in [Pages -> Patch]
    BY <1>3, <2>1 DEF Edit, TypeOK, Patch
  <2>3. dirty' \in [Pages -> SUBSET Fields] /\ focus' \in [Pages -> Fields \cup {NoField}]
    BY <1>3 DEF Edit, TypeOK
  <2>4. edits' \in 0 .. MaxEdits
    BY <1>3, BoundsAssumption DEF Edit, TypeOK
  <2> QED
    BY <1>3, <2>2, <2>3, <2>4 DEF Edit, TypeOK
<1> QED
  BY <1>1, <1>2, <1>3 DEF User

\* handleFilters: the patch is judged with what it is patched into.
LEMMA PostStep ==
  ASSUME IInv, NEW p \in Pages, NEW i \in DOMAIN saves[p], HandlePost(p, i)
  PROVE  IInv' /\ (filters' # filters => Valid(filters'))
<1> DEFINE patch == saves[p][i].patch
           next == Patched(filters, patch)
           answer == IF Valid(next) THEN "ok" ELSE "refused"
           post == [saves[p][i] EXCEPT !.state = answer]
<1>1. /\ saves[p] \in Seq(Judged) /\ i \in 1 .. Len(saves[p])
      /\ saves[p][i] \in Judged /\ saves[p][i] \in Save /\ patch \in Patch
  BY DEF IInv, Judged, Save
<1>2. filters \in Filters /\ next \in Filters
  BY <1>1, PatchedType DEF IInv, TypeOK
<1>3. filters' = (IF Valid(next) THEN next ELSE filters) /\ saves' = [saves EXCEPT ![p][i].state = answer]
  BY DEF HandlePost
<1>4. post \in Save /\ post.state = answer /\ post.patch = patch
  BY <1>1 DEF Save
<1>5. post \in Judged
  <2>1. answer = "refused" /\ Empty \notin Range(patch) => ~Valid(patch)
    BY <1>1, <1>2, FullPatch
  <2> HIDE DEF post, answer
  <2> QED
    BY <1>4, <2>1 DEF Judged
<1>6. [saves[p] EXCEPT ![i] = post] \in Seq(Judged)
  BY <1>1, <1>5, ExceptSeq
<1>7. saves' = [saves EXCEPT ![p] = [saves[p] EXCEPT ![i] = post]]
  BY <1>3 DEF IInv
<1>8. saves' \in [Pages -> Seq(Judged)]
  BY <1>6, <1>7 DEF IInv
<1>9. saves' \in [Pages -> Seq(Save)]
  BY <1>8, JudgedIsSave
<1>10. filters' \in Filters /\ Fraction(filters') /\ (filters' # filters => Valid(filters'))
  BY <1>2, <1>3 DEF IInv, TypeOK, Valid
<1> QED
  BY <1>8, <1>9, <1>10 DEF HandlePost, IInv, TypeOK, pageVars, userVars

\* A post is over, answered or lost.
LEMMA SaveEnds ==
  ASSUME IInv, NEW p \in Pages, NEW i \in DOMAIN saves[p], SaveAnswered(p, i) \/ SaveFails(p, i)
  PROVE  IInv' /\ UNCHANGED filters
<1>1. RemoveAt(saves[p], i) \in Seq(Judged)
  BY RemoveAtType DEF IInv
<1>2. saves' \in [Pages -> Seq(Judged)]
  BY <1>1 DEF SaveAnswered, SaveFails, IInv
<1>3. saves' \in [Pages -> Seq(Save)]
  BY <1>2, JudgedIsSave
<1>4. lost' \in 0 .. MaxLost
  BY BoundsAssumption DEF SaveAnswered, SaveFails, IInv, TypeOK
<1>5. dirty' \in [Pages -> SUBSET Fields]
  BY DEF SaveAnswered, SaveFails, IInv, TypeOK, pageVars
<1> QED
  BY <1>2, <1>3, <1>4, <1>5 DEF SaveAnswered, SaveFails, IInv, TypeOK, pageVars, userVars

\* The page's poll.
LEMMA PollStep ==
  ASSUME IInv, NEW p \in Pages, Polling(p) \/ PollFails(p) PROVE IInv' /\ UNCHANGED filters
<1> USE DEF IInv
<1>1. CASE PollServed(p)
  BY <1>1 DEF PollServed, TypeOK, pageVars, userVars
<1>2. CASE PollAnswered(p)
  <2>1. poll[p] \in Filters
    BY <1>2 DEF PollAnswered, TypeOK
  <2>2. form' \in [Pages -> Patch]
    BY <1>2, <2>1 DEF PollAnswered, TypeOK, Patch, Filters
  <2>3. poll' \in [Pages -> Filters \cup {NoPoll}]
    BY <1>2 DEF PollAnswered, TypeOK
  <2> QED
    BY <1>2, <2>2, <2>3 DEF PollAnswered, TypeOK, userVars
<1>3. CASE PollFails(p)
  <2>1. lost' \in 0 .. MaxLost
    BY <1>3, BoundsAssumption DEF PollFails, TypeOK
  <2> QED
    BY <1>3, <2>1 DEF PollFails, TypeOK, pageVars, userVars
<1> QED
  BY <1>1, <1>2, <1>3 DEF Polling

LEMMA NextInv ==
  ASSUME IInv, [Next]_vars PROVE IInv' /\ (filters' # filters => Valid(filters'))
<1>1. CASE UNCHANGED vars
  BY <1>1 DEF vars, IInv, TypeOK
<1>2. ASSUME NEW p \in Pages, User(p) \/ Saving(p) \/ Polling(p) \/ Failing(p)
      PROVE  IInv' /\ (filters' # filters => Valid(filters'))
  BY <1>2, UserStep, PostStep, SaveEnds, PollStep DEF Saving, Failing
<1> QED
  BY <1>1, <1>2 DEF Next

-----------------------------------------------------------------------------
LEMMA Inductive == Spec => []IInv
<1>1. Init => IInv
  BY InitInv
<1>2. IInv /\ [Next]_vars => IInv'
  BY NextInv
<1> QED
  BY <1>1, <1>2, PTL DEF Spec

\* Forms, posts, polls and filters stay well-typed, and the fractions in force stay
\* between 0 and 1 from the configuration on (config.go:184-189, store.go:322-327).
THEOREM TypeCorrect == Spec => []TypeOK
<1>1. IInv => TypeOK
  BY DEF IInv
<1> QED
  BY <1>1, Inductive, PTL

\* UpdateFilters judges the whole that a post leads to, for any number of pages
\* (store.go:371-386).
THEOREM PostsJudgedWhole == Spec => PostsAreJudgedWhole
<1>1. IInv => RefusedIsInvalid
  <2> SUFFICES ASSUME IInv, NEW p \in Pages, NEW i \in DOMAIN saves[p]
               PROVE  saves[p][i] \in Judged
    BY DEF RefusedIsInvalid, Judged
  <2> QED
    BY DEF IInv
<1>2. IInv /\ [Next]_vars => [filters' # filters => Valid(filters')]_filters
  BY NextInv
<1> QED
  BY <1>1, <1>2, Inductive, PTL DEF Spec, PostsAreJudgedWhole
=============================================================================
