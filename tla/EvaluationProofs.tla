-------------------------- MODULE EvaluationProofs --------------------------
(***************************************************************************)
(* Theorems of Evaluation and of the workflow it runs, for any items, any  *)
(* limit of a prompt, any answers, any corpus and any stores.              *)
(***************************************************************************)
EXTENDS Evaluation, FiniteSetTheorems, TLAPS

-----------------------------------------------------------------------------
(* Sorted lists. *)

(* A finite set of numbers has a sorted list: the place of a number is how *)
(* many are not above it.  The list has every item once.                   *)
LEMMA SortedList ==
    ASSUME NEW S \in SUBSET Nat, IsFiniteSet(S)
    PROVE  /\ Sorted(S) \in Seq(S)
           /\ ToSet(Sorted(S)) = S
           /\ IsInjective(Sorted(S))
  <1> DEFINE n == Cardinality(S)
             upTo(x) == {y \in S : y <= x}
             rank == [x \in S |-> Cardinality(upTo(x))]
             IsSort(s) == \A i, j \in DOMAIN s : i < j => s[i] < s[j]
  <1>0. \A x \in S : x \in Nat
    OBVIOUS
  <1>1. n \in Nat
    BY FS_CardinalityType
  <1>2. ASSUME NEW x \in S
        PROVE  IsFiniteSet(upTo(x)) /\ Cardinality(upTo(x)) \in 1..n
    <2>1. upTo(x) \in SUBSET S /\ x \in upTo(x)
      BY <1>0
    <2>2. IsFiniteSet(upTo(x)) /\ Cardinality(upTo(x)) <= n
      BY <2>1, FS_Subset
    <2>3. Cardinality(upTo(x)) \in Nat /\ Cardinality(upTo(x)) # 0
      BY <2>1, <2>2, FS_CardinalityType, FS_EmptySet
    <2> QED BY <1>1, <2>2, <2>3
  <1>3. ASSUME NEW x \in S, NEW y \in S, x < y
        PROVE  Cardinality(upTo(x)) < Cardinality(upTo(y))
    <2>0. x \in Nat /\ y \in Nat
      BY <1>0
    <2>1. upTo(x) \in SUBSET upTo(y) /\ y \in upTo(y) /\ y \notin upTo(x)
      <3>1. \A z \in S : z <= x => z <= y
        BY <1>0, <1>3, <2>0
      <3>2. y <= y /\ ~(y <= x)
        BY <1>3, <2>0
      <3> QED BY <3>1, <3>2
    <2>2. Cardinality(upTo(x)) <= Cardinality(upTo(y)) /\ Cardinality(upTo(x)) # Cardinality(upTo(y))
      BY <1>2, <2>1, FS_Subset
    <2> QED BY <1>1, <1>2, <2>2
  <1>4. rank \in Injection(S, 1..n)
    <2>1. rank \in [S -> 1..n]
      BY <1>2
    <2>2. \A x, y \in S : rank[x] = rank[y] => x = y
      BY <1>1, <1>2, <1>3
    <2> QED BY <2>1, <2>2 DEF Injection, IsInjective
  <1>5. rank \in Surjection(S, 1..n)
    <2>1. IsFiniteSet(1..n) /\ Cardinality(1..n) = n
      BY <1>1, FS_Interval
    <2> HIDE DEF rank
    <2> QED BY <1>4, <2>1, FS_Injection
  <1>6. \A i \in 1..n : \E x \in S : rank[x] = i
    BY <1>5 DEF Surjection
  <1>7. PICK g \in [1..n -> S] : \A i \in 1..n : rank[g[i]] = i
    <2> DEFINE g == [i \in 1..n |-> CHOOSE x \in S : rank[x] = i]
    <2> HIDE DEF rank
    <2>1. \A i \in 1..n : g[i] \in S /\ rank[g[i]] = i
      BY <1>6
    <2> QED BY <2>1
  <1>8. IsSort(g)
    <2> SUFFICES ASSUME NEW i \in 1..n, NEW j \in 1..n, i < j
                 PROVE  g[i] < g[j]
      OBVIOUS
    <2>1. g[i] \in S /\ g[j] \in S /\ rank[g[i]] = i /\ rank[g[j]] = j
      BY <1>7
    <2>2. g[i] \in Nat /\ g[j] \in Nat /\ g[i] # g[j]
      <3>1. i # j
        BY <1>1
      <3> HIDE DEF rank
      <3>2. g[i] # g[j]
        BY <2>1, <3>1
      <3> QED BY <1>0, <2>1, <3>2
    <2>3. ASSUME g[j] < g[i] PROVE FALSE
      <3>1. rank[g[j]] < rank[g[i]]
        BY <1>3, <2>1, <2>3
      <3> HIDE DEF rank
      <3> QED BY <1>1, <2>1, <3>1
    <2> QED BY <2>2, <2>3
  <1>9. PICK s : s = Sorted(S)
    OBVIOUS
  <1>10. s \in [1..n -> S] /\ IsSort(s)
    <2>1. \E h \in [1..n -> S] : IsSort(h)
      BY <1>8
    <2>2. s = CHOOSE h \in [1..n -> S] : IsSort(h)
      BY <1>9 DEF Sorted
    <2> HIDE DEF IsSort
    <2> QED BY <2>1, <2>2
  <1>11. s \in Seq(S)
    BY <1>1, <1>10
  <1>12. ASSUME NEW i \in 1..n, NEW j \in 1..n, s[i] = s[j] PROVE i = j
    <2>0. s[i] \in Nat
      BY <1>0, <1>10
    <2>1. ~(s[i] < s[j]) /\ ~(s[j] < s[i])
      BY <1>12, <2>0
    <2>2. DOMAIN s = 1..n
      BY <1>10
    <2>3. /\ i < j => s[i] < s[j]
          /\ j < i => s[j] < s[i]
      BY <1>10, <2>2
    <2> QED BY <1>1, <2>1, <2>3
  <1>13. s \in Injection(1..n, S)
    BY <1>10, <1>12 DEF Injection, IsInjective
  <1>14. s \in Surjection(1..n, S)
    <2>1. IsFiniteSet(1..n) /\ Cardinality(1..n) = n
      BY <1>1, FS_Interval
    <2> QED BY <1>13, <2>1, FS_Injection
  <1>15. ToSet(s) = S
    BY <1>10, <1>14 DEF Surjection, ToSet
  <1> QED BY <1>9, <1>10, <1>11, <1>12, <1>15 DEF IsInjective

(* The cut keeps items of the list, and all of them up to the limit.       *)
LEMMA CutItems ==
    ASSUME NEW S \in SUBSET Items
    PROVE  /\ Cut(S) \in SUBSET S
           /\ Cardinality(S) <= Limit => Cut(S) = S
  <1>1. IsFiniteSet(S) /\ S \subseteq Nat /\ Limit \in Nat
    BY InvestigationAssumption, FS_Subset
  <1>2. ASSUME NEW i \in S
        PROVE  Cardinality({j \in S : j < i}) < Cardinality(S)
    <2> DEFINE T == {j \in S : j < i}
    <2>1. T \in SUBSET S /\ T # S
      BY <1>1
    <2>2. IsFiniteSet(T) /\ Cardinality(T) <= Cardinality(S) /\ Cardinality(S) # Cardinality(T)
      BY <1>1, <2>1, FS_Subset
    <2>3. Cardinality(T) \in Nat /\ Cardinality(S) \in Nat
      BY <1>1, <2>2, FS_CardinalityType
    <2> QED BY <2>2, <2>3
  <1>3. ASSUME Cardinality(S) <= Limit, NEW i \in S PROVE i \in Cut(S)
    <2>1. {j \in S : j < i} \in SUBSET S
      OBVIOUS
    <2>2. Cardinality({j \in S : j < i}) \in Nat /\ Cardinality(S) \in Nat
      BY <1>1, <2>1, FS_Subset, FS_CardinalityType
    <2> QED BY <1>1, <1>2, <1>3, <2>2 DEF Cut
  <1>4. Cut(S) \in SUBSET S
    BY DEF Cut
  <1> QED BY <1>3, <1>4

(* Lists one after the other. *)
IsList(s, S) == s \in Seq(Items) /\ IsInjective(s) /\ ToSet(s) = S

LEMMA SortedIsList == ASSUME NEW S \in SUBSET Items PROVE IsList(Sorted(S), S)
  <1>1. S \in SUBSET Nat /\ IsFiniteSet(S)
    BY InvestigationAssumption, FS_Subset
  <1>2. /\ Sorted(S) \in Seq(S) /\ ToSet(Sorted(S)) = S
        /\ IsInjective(Sorted(S))
    BY <1>1, SortedList
  <1> QED BY <1>2 DEF IsList

LEMMA ConcatIsList ==
    ASSUME NEW S, NEW T, S \cap T = {}, NEW s, NEW t, IsList(s, S), IsList(t, T)
    PROVE  IsList(s \o t, S \cup T)
  <1> DEFINE u == s \o t
  <1>1. s \in Seq(Items) /\ t \in Seq(Items) /\ Len(s) \in Nat /\ Len(t) \in Nat
    BY DEF IsList
  <1>2. /\ u \in Seq(Items) /\ DOMAIN u = 1..(Len(s) + Len(t))
        /\ \A i \in 1..Len(s) : u[i] = s[i]
        /\ \A i \in 1..Len(t) : u[Len(s) + i] = t[i]
    BY <1>1
  <1>3. \A i \in DOMAIN u : \/ i \in 1..Len(s) /\ u[i] = s[i]
                          \/ \E j \in 1..Len(t) : i = Len(s) + j /\ u[i] = t[j]
    <2> SUFFICES ASSUME NEW i \in DOMAIN u, i \notin 1..Len(s)
                 PROVE  \E j \in 1..Len(t) : i = Len(s) + j /\ u[i] = t[j]
      BY <1>2
    <2>1. i - Len(s) \in 1..Len(t) /\ i = Len(s) + (i - Len(s))
      BY <1>1, <1>2
    <2> QED BY <1>2, <2>1
  <1>4. /\ \A i \in 1..Len(s) : s[i] \in S
        /\ \A i \in 1..Len(t) : t[i] \in T
        /\ \A x \in S : \E i \in 1..Len(s) : s[i] = x
        /\ \A x \in T : \E i \in 1..Len(t) : t[i] = x
    BY <1>1 DEF IsList, ToSet
  <1> HIDE DEF u
  <1>5. ToSet(u) = S \cup T
    <2>1. \A i \in DOMAIN u : u[i] \in S \cup T
      BY <1>3, <1>4
    <2>2. \A x \in S : \E i \in DOMAIN u : u[i] = x
      <3>1. \A i \in 1..Len(s) : i \in DOMAIN u
        BY <1>1, <1>2
      <3> QED BY <1>2, <1>4, <3>1
    <2>3. \A x \in T : \E i \in DOMAIN u : u[i] = x
      <3>1. \A i \in 1..Len(t) : Len(s) + i \in DOMAIN u
        BY <1>1, <1>2
      <3> QED BY <1>2, <1>4, <3>1
    <2> QED BY <2>1, <2>2, <2>3 DEF ToSet
  <1>6. IsInjective(u)
    <2> SUFFICES ASSUME NEW i \in DOMAIN u, NEW j \in DOMAIN u, u[i] = u[j] PROVE i = j
      BY DEF IsInjective
    <2>1. /\ \A a, b \in 1..Len(s) : s[a] = s[b] => a = b
          /\ \A a, b \in 1..Len(t) : t[a] = t[b] => a = b
      BY <1>1 DEF IsList, IsInjective
    <2>2. CASE i \in 1..Len(s) /\ u[i] = s[i]
      <3>1. u[j] \notin T
        BY <1>4, <2>2
      <3>2. j \in 1..Len(s) /\ u[j] = s[j]
        BY <1>3, <1>4, <3>1
      <3> QED BY <2>1, <2>2, <3>2
    <2>3. CASE \E k \in 1..Len(t) : i = Len(s) + k /\ u[i] = t[k]
      <3>1. u[j] \notin S
        BY <1>4, <2>3
      <3>2. \E k \in 1..Len(t) : j = Len(s) + k /\ u[j] = t[k]
        BY <1>3, <1>4, <3>1
      <3> QED BY <2>1, <2>3, <3>2
    <2> QED BY <1>3, <2>2, <2>3
  <1> QED BY <1>2, <1>5, <1>6 DEF u, IsList

LEMMA FollowedIsList ==
    ASSUME NEW S, NEW s, IsList(s, S), NEW T \in SUBSET Items
    PROVE  IsList(Followed(s, T), S \cup T)
  <1>1. ToSet(s) = S
    BY DEF IsList
  <1>2. IsList(Sorted(T \ S), T \ S) /\ S \cap (T \ S) = {}
    BY SortedIsList
  <1>3. IsList(s \o Sorted(T \ S), S \cup (T \ S))
    BY <1>2, ConcatIsList
  <1>4. S \cup (T \ S) = S \cup T
    OBVIOUS
  <1> QED BY <1>1, <1>3, <1>4 DEF Followed

(* What is shown: the first pins, mitigating and supporting items, each    *)
(* kind up to its own limit.                                               *)
Shown(c) == Cut(c.pinned) \cup Cut(Of(c, "MITIGATING")) \cup Cut(Of(c, "SUPPORTING"))

LEMMA OrderedEvidenceShows ==
    ASSUME NEW c \in Call, c.pinned \subseteq c.evidence
    PROVE  /\ IsList(OrderedEvidence(c), Shown(c))
           /\ Shown(c) \subseteq c.evidence
  <1> DEFINE P == Cut(c.pinned)
             M == Cut(Of(c, "MITIGATING"))
             S == Cut(Of(c, "SUPPORTING"))
  <1>1. /\ c.evidence \subseteq Items
        /\ c.pinned \in SUBSET Items
        /\ Of(c, "MITIGATING") \in SUBSET Items /\ Of(c, "SUPPORTING") \in SUBSET Items
        /\ Of(c, "MITIGATING") \subseteq c.evidence /\ Of(c, "SUPPORTING") \subseteq c.evidence
        /\ Of(c, "MITIGATING") \cap Of(c, "SUPPORTING") = {}
    BY DEF Call, Of
  <1>2. /\ P \subseteq c.pinned /\ M \subseteq Of(c, "MITIGATING") /\ S \subseteq Of(c, "SUPPORTING")
        /\ P \in SUBSET Items /\ M \in SUBSET Items /\ S \in SUBSET Items
    BY <1>1, CutItems
  <1>3. Shown(c) = P \cup M \cup S
    BY DEF Shown
  <1> HIDE DEF P, M, S
  <1>4. IsList(OrderedEvidence(c), P \cup M \cup S)
    <2>1. CASE c.snapshot \/ c.pinned # {}
      <3>1. IsList(Followed(Followed(Sorted(P), M), S), (P \cup M) \cup S)
        BY <1>2, SortedIsList, FollowedIsList
      <3> QED BY <2>1, <3>1 DEF OrderedEvidence, P, M, S
    <2>2. CASE ~(c.snapshot \/ c.pinned # {})
      <3>1. IsList(Sorted(S) \o Sorted(M), S \cup M)
        BY <1>1, <1>2, SortedIsList, ConcatIsList
      <3>2. S \cup M = P \cup M \cup S
        BY <1>2, <2>2
      <3>3. IsList(Sorted(S) \o Sorted(M), P \cup M \cup S)
        BY <3>1, <3>2
      <3>4. OrderedEvidence(c) = Sorted(S) \o Sorted(M)
        BY <2>2 DEF OrderedEvidence, P, M, S
      <3> QED BY <3>3, <3>4
    <2> QED BY <2>1, <2>2
  <1> QED BY <1>1, <1>2, <1>3, <1>4

-----------------------------------------------------------------------------
(* The stores. *)

StoreOK == store \in Store /\ corpus \in Seq(Gold) /\ populated \in Nat

(* Evidence that is put stays, and all evidence of the case is there.      *)
LEMMA PutAdds ==
    ASSUME NEW items \in [Items -> Polarities \cup {NoItem}], NEW g \in Gold
    PROVE  /\ Put(items, g) \in [Items -> Polarities \cup {NoItem}]
           /\ \A i \in Items : items[i] # NoItem => Put(items, g)[i] = items[i]
           /\ \A i \in g.evidence : Put(items, g)[i] # NoItem
  <1>1. g.evidence \subseteq Items /\ g.polarity \in [Items -> Polarities]
    BY DEF Gold
  <1> QED BY <1>1, EvaluationAssumption DEF Put

(* populate_corpus_fixtures, whose conflicts are passed over one by one:   *)
(* create always finds the evidence of the case.                           *)
LEMMA PopulateAdds ==
    ASSUME StoreOK, PopulateCase
    PROVE  /\ store' \in Store
           /\ populated' = populated + 1 /\ stage' = stage
           /\ store'.cases = [store.cases EXCEPT ![corpus[populated + 1].case] =
                                 IF @ = NoCase THEN corpus[populated + 1].evidence ELSE @]
           /\ \A c \in Cases : store.cases[c] # NoCase => store'.cases[c] = store.cases[c]
           /\ \A i \in Items : store.items[i] # NoItem => store'.items[i] = store.items[i]
  <1>1. PICK g \in Gold :
           /\ g = corpus[populated + 1]
           /\ store' = [items |-> Put(store.items, g),
                        cases |-> [store.cases EXCEPT ![g.case] = IF @ = NoCase THEN g.evidence
                                                                  ELSE @]]
           /\ populated' = populated + 1 /\ stage' = stage
    <2>1. PICK g : g = corpus[populated + 1]
      OBVIOUS
    <2>2. g \in Gold
      BY <2>1 DEF PopulateCase, StoreOK
    <2>3. PICK items : items = Put(store.items, g)
      OBVIOUS
    <2>4. \A i \in g.evidence : items[i] # NoItem
      BY <2>2, <2>3, PutAdds DEF StoreOK, Store
    <2> QED BY <2>1, <2>2, <2>3, <2>4 DEF PopulateCase
  <1>2. /\ store.items \in [Items -> Polarities \cup {NoItem}]
        /\ store.cases \in [Cases -> (SUBSET Items) \cup {NoCase}]
        /\ \A c \in Cases : store.cases[c] # NoCase =>
              \A i \in store.cases[c] : store.items[i] # NoItem
    BY DEF StoreOK, Store
  <1>3. g.case \in Cases /\ g.evidence \subseteq Items /\ g.polarity \in [Items -> Polarities]
    BY DEF Gold
  <1>4. PICK items, cases :
           /\ items = Put(store.items, g)
           /\ cases = [store.cases EXCEPT ![g.case] = IF @ = NoCase THEN g.evidence ELSE @]
    OBVIOUS
  <1>5. store' = [items |-> items, cases |-> cases] /\ store'.items = items /\ store'.cases = cases
    BY <1>1, <1>4
  <1>6. /\ items \in [Items -> Polarities \cup {NoItem}]
        /\ \A i \in Items : store.items[i] # NoItem => items[i] = store.items[i]
        /\ \A i \in g.evidence : items[i] # NoItem
    BY <1>2, <1>3, <1>4, PutAdds, EvaluationAssumption
  <1>7. /\ cases \in [Cases -> (SUBSET Items) \cup {NoCase}]
        /\ \A c \in Cases : store.cases[c] # NoCase => cases[c] = store.cases[c]
        /\ \A c \in Cases : cases[c] \in {store.cases[c], g.evidence}
        /\ \A c \in Cases : cases[c] # store.cases[c] => cases[c] = g.evidence
    BY <1>2, <1>3, <1>4
  <1>8. ASSUME NEW c \in Cases, cases[c] # NoCase, NEW i \in cases[c] PROVE items[i] # NoItem
    <2>1. CASE cases[c] = store.cases[c]
      <3>1. i \in Items /\ store.items[i] # NoItem
        BY <1>2, <1>8, <2>1
      <3> QED BY <1>6, <3>1
    <2>2. CASE cases[c] # store.cases[c]
      BY <1>6, <1>7, <1>8, <2>2
    <2> QED BY <2>1, <2>2
  <1>9. store' \in Store
    BY <1>5, <1>6, <1>7, <1>8 DEF Store
  <1> QED BY <1>1, <1>4, <1>5, <1>6, <1>7, <1>9

LEMMA EvalStoreOK ==
    ASSUME StoreOK, [EvalNext]_evalVars
    PROVE  StoreOK'
  <1>1. CASE PopulateCase
    <2>1. corpus' = corpus /\ populated' \in Nat
      BY <1>1, PopulateAdds DEF PopulateCase, StoreOK
    <2> QED BY <1>1, <2>1, PopulateAdds DEF StoreOK
  <1>2. CASE UNCHANGED << store, corpus, populated >>
    BY <1>2 DEF StoreOK
  <1>3. ASSUME \/ Next /\ UNCHANGED eval
               \/ CountCase
               \/ \E key \in BOOLEAN : RunCase(key)
               \/ UNCHANGED evalVars
        PROVE  UNCHANGED << store, corpus, populated >>
    BY <1>3 DEF CountCase, RunCase, eval, evalVars
  <1> QED BY <1>1, <1>2, <1>3 DEF EvalNext

-----------------------------------------------------------------------------
(* One call of the workflow. *)

(* The claims that were accepted are those of the answer so far, and cite  *)
(* what was shown.                                                         *)
AcceptedSoFar ==
    /\ raw \in Seq(Citations) /\ valid \in Seq(Citations) /\ Len(valid) <= Len(raw)
    /\ \A n \in 1..Len(valid) : valid[n] = raw[n] /\ valid[n] \subseteq Allowed

CallInv ==
    /\ call \in Call
    /\ stage \in {"none", "called", "raised", "asked", "checking", "returned", "counted"}
    /\ stage \in {"none", "called", "raised", "asked"} => valid = << >>
    /\ stage \in {"asked", "checking"} => /\ call.pinned \subseteq call.evidence
                                          /\ prompt = OrderedEvidence(call)
    /\ stage = "checking" => AcceptedSoFar
    /\ stage = "returned" => valid \in Seq(Citations) /\ ClaimsAreGrounded

(* All that is shown is evidence of the case.                              *)
LEMMA AllowedIsEvidence ==
    ASSUME CallInv, stage \in {"asked", "checking"}
    PROVE  Allowed \subseteq call.evidence
  <1>1. /\ call \in Call /\ call.pinned \subseteq call.evidence
        /\ prompt = OrderedEvidence(call)
    BY DEF CallInv
  <1> QED BY <1>1, OrderedEvidenceShows DEF Allowed, IsList

LEMMA NextKeepsCall ==
    ASSUME CallInv, Next
    PROVE  CallInv'
  <1>1. call' = call /\ call' \in Call
    BY DEF Next, CallInv, RaisePins, ReturnEarly, BuildPrompt, ProviderRaises,
           ProviderUnavailable, ProviderInvalid, ProviderAnswers, RejectClaim, AcceptClaim,
           ReturnHypothesis
  <1>2. CASE RaisePins \/ ProviderRaises
    BY <1>1, <1>2 DEF RaisePins, ProviderRaises, CallInv
  <1>3. CASE ReturnEarly \/ ProviderUnavailable \/ ProviderInvalid \/ RejectClaim
    <2>1. /\ stage' = "returned" /\ status' # "HYPOTHESIS_GENERATED" /\ valid' = << >>
      <3>1. CASE ReturnEarly
        BY <3>1 DEF ReturnEarly, Return, CallInv
      <3>2. CASE ProviderUnavailable \/ ProviderInvalid
        BY <3>2 DEF ProviderUnavailable, ProviderInvalid, Return, CallInv
      <3>3. CASE RejectClaim
        BY <3>3 DEF RejectClaim, Return
      <3> QED BY <1>3, <3>1, <3>2, <3>3
    <2>2. valid' \in Seq(Citations)
      BY <2>1
    <2> QED BY <1>1, <2>1, <2>2 DEF CallInv, ClaimsAreGrounded
  <1>4. CASE BuildPrompt
    BY <1>1, <1>4 DEF BuildPrompt, CallInv
  <1>5. CASE ProviderAnswers
    <2>1. PICK n \in 0..MaxClaims : raw' \in [1..n -> Citations]
      BY <1>5 DEF ProviderAnswers
    <2>2. n \in Nat
      BY <2>1, InvestigationAssumption
    <2>3. raw' \in Seq(Citations)
      BY <2>1, <2>2
    <2>4. /\ stage = "asked" /\ stage' = "checking" /\ UNCHANGED << call, prompt, valid >>
      BY <1>5 DEF ProviderAnswers
    <2>5. valid' = << >> /\ Len(valid') = 0 /\ Len(raw') \in Nat /\ valid' \in Seq(Citations)
      BY <2>3, <2>4 DEF CallInv
    <2>6. AcceptedSoFar'
      BY <2>3, <2>5 DEF AcceptedSoFar
    <2> QED BY <1>1, <2>4, <2>6 DEF CallInv
  <1>6. CASE AcceptClaim
    <2>1. /\ stage = "checking" /\ Len(valid) < Len(raw)
          /\ raw[Len(valid) + 1] \subseteq Allowed
          /\ valid' = Append(valid, raw[Len(valid) + 1])
          /\ UNCHANGED << stage, prompt, raw >>
      BY <1>6 DEF AcceptClaim
    <2>2. AcceptedSoFar /\ Len(valid) \in Nat /\ Len(raw) \in Nat
      BY <2>1 DEF CallInv, AcceptedSoFar
    <2>3. PICK claim : claim = raw[Len(valid) + 1]
      OBVIOUS
    <2>4. claim \in Citations
      BY <2>1, <2>2, <2>3 DEF AcceptedSoFar
    <2>5. /\ valid' \in Seq(Citations) /\ Len(valid') = Len(valid) + 1
          /\ valid'[Len(valid) + 1] = claim
          /\ \A n \in 1..Len(valid) : valid'[n] = valid[n]
      BY <2>1, <2>2, <2>3, <2>4 DEF AcceptedSoFar
    <2>6. Allowed' = Allowed
      BY <2>1 DEF Allowed
    <2>7. \A n \in 1..Len(valid') : valid'[n] = raw[n] /\ valid'[n] \subseteq Allowed
      BY <2>1, <2>2, <2>3, <2>5 DEF AcceptedSoFar
    <2>8. AcceptedSoFar'
      BY <2>1, <2>2, <2>5, <2>6, <2>7 DEF AcceptedSoFar
    <2> QED BY <1>1, <2>1, <2>8 DEF CallInv
  <1>7. CASE ReturnHypothesis
    <2>1. /\ stage = "checking" /\ Len(valid) = Len(raw)
          /\ stage' = "returned" /\ status' = "HYPOTHESIS_GENERATED"
          /\ UNCHANGED << call, prompt, raw, valid >>
      BY <1>7 DEF ReturnHypothesis, Return
    <2>2. AcceptedSoFar
      BY <2>1 DEF CallInv
    <2>3. valid = raw
      BY <2>1, <2>2 DEF AcceptedSoFar
    <2>4. \A n \in DOMAIN valid : valid[n] \subseteq Allowed
      BY <2>2 DEF AcceptedSoFar
    <2>5. UNION ToSet(valid) \subseteq Allowed
      BY <2>4 DEF ToSet
    <2>6. ClaimsAreGrounded'
      BY <2>1, <2>3, <2>5, AllowedIsEvidence DEF ClaimsAreGrounded, Allowed
    <2> QED BY <1>1, <2>1, <2>2, <2>6 DEF CallInv, AcceptedSoFar
  <1> QED BY <1>2, <1>3, <1>4, <1>5, <1>6, <1>7 DEF Next

LEMMA GoldTyped ==
    ASSUME NEW g \in Gold
    PROVE  g.case \in Cases /\ g.evidence \in SUBSET Items
  BY DEF Gold

(* A step of the evaluation between two calls. *)
LEMMA EvalKeepsCall ==
    ASSUME StoreOK, CallInv, [EvalNext]_evalVars,
           stage = "none" \/ stage = "counted" =>
              \A n \in 1..populated : store.cases[corpus[n].case] # NoCase,
           evaluated \in Nat
    PROVE  CallInv'
  <1>1. CASE UNCHANGED vars
    BY <1>1 DEF vars, CallInv, AcceptedSoFar, Allowed, ClaimsAreGrounded
  <1>2. CASE CountCase
    BY <1>2 DEF CountCase, CallInv
  <1>3. ASSUME NEW key \in BOOLEAN, RunCase(key) PROVE CallInv'
    <2>1. /\ populated = Len(corpus) /\ evaluated < Len(corpus)
          /\ stage' = "called" /\ valid' = << >>
      BY <1>3 DEF RunCase
    <2>2. Len(corpus) \in Nat /\ evaluated + 1 \in 1..Len(corpus)
      BY <2>1 DEF StoreOK
    <2>3. PICK g : g = corpus[evaluated + 1]
      OBVIOUS
    <2>a. g \in Gold /\ g.case \in Cases
      BY <2>2, <2>3, GoldTyped DEF StoreOK
    <2>4. store.cases[g.case] # NoCase
      <3>1. \A n \in 1..populated : store.cases[corpus[n].case] # NoCase
        BY <1>3 DEF RunCase
      <3> QED BY <2>1, <2>2, <2>3, <3>1
    <2>5. PICK ev, pol, prov :
            /\ ev = store.cases[g.case]
            /\ pol = [i \in Items |-> IF store.items[i] = NoItem THEN "UNKNOWN" ELSE store.items[i]]
            /\ prov = (key /\ g.mode # "LLM_OFF")
      OBVIOUS
    <2>6. call' = [evidence |-> ev, polarity |-> pol, pinned |-> {}, snapshot |-> FALSE,
                   provider |-> prov]
      BY <1>3, <2>3, <2>5 DEF RunCase
    <2>7. ev \in SUBSET Items
      BY <2>a, <2>4, <2>5 DEF StoreOK, Store
    <2>8. pol \in [Items -> Polarities]
      <3>1. \A i \in Items : store.items[i] \in Polarities \cup {NoItem}
        BY DEF StoreOK, Store
      <3> QED BY <2>5, <3>1 DEF Polarities
    <2>9. prov \in BOOLEAN
      BY <2>5
    <2>10. call' \in Call
      BY <2>6, <2>7, <2>8, <2>9 DEF Call
    <2> QED BY <2>1, <2>10 DEF CallInv
  <1>4. CASE PopulateCase
    <2>1. UNCHANGED vars
      BY <1>4, PopulateAdds DEF PopulateCase, vars
    <2> QED BY <1>1, <2>1
  <1> QED BY <1>1, <1>2, <1>3, <1>4, NextKeepsCall DEF EvalNext, evalVars

-----------------------------------------------------------------------------
(* The evaluation. *)

(* While a gold case runs, it runs on the case that is stored.             *)
RunInv ==
    /\ populated <= Len(corpus) /\ evaluated \in Nat /\ evaluated <= Len(corpus)
    /\ \A n \in 1..populated : store.cases[corpus[n].case] # NoCase
    /\ corpus # << >> /\ stage \notin {"none", "counted"} =>
          /\ populated = Len(corpus) /\ evaluated < Len(corpus)
          /\ call.evidence = Authorized

LEMMA PopulateKeepsRun ==
    ASSUME StoreOK, RunInv, PopulateCase
    PROVE  RunInv'
  <1>1. /\ populated < Len(corpus) /\ populated' = populated + 1
        /\ UNCHANGED << corpus, evaluated, call, stage >>
    BY PopulateAdds DEF PopulateCase
  <1>2. Len(corpus) \in Nat /\ populated \in Nat /\ populated + 1 \in 1..Len(corpus)
    BY <1>1 DEF StoreOK
  <1>3. PICK g : g = corpus[populated + 1]
    OBVIOUS
  <1>4. g \in Gold /\ g.case \in Cases /\ g.evidence \in SUBSET Items
    BY <1>2, <1>3, GoldTyped DEF StoreOK
  <1>5. store'.cases = [store.cases EXCEPT ![g.case] = IF @ = NoCase THEN g.evidence ELSE @]
    BY <1>3, PopulateAdds
  <1>6. store.cases \in [Cases -> (SUBSET Items) \cup {NoCase}] /\ g.evidence # NoCase
    BY <1>4, EvaluationAssumption DEF StoreOK, Store
  <1>7. store'.cases[g.case] # NoCase
    <2> DEFINE old == store.cases
    <2>1. old \in [Cases -> (SUBSET Items) \cup {NoCase}]
      BY <1>6
    <2>2. store'.cases = [old EXCEPT ![g.case] = IF @ = NoCase THEN g.evidence ELSE @]
      BY <1>5
    <2> HIDE DEF old
    <2> QED BY <1>4, <1>6, <2>1, <2>2
  <1>8. \A n \in 1..populated' : corpus[n].case \in Cases
    <2>1. \A n \in 1..populated' : corpus[n] \in Gold
      BY <1>1, <1>2 DEF StoreOK
    <2> QED BY <2>1, GoldTyped
  <1>9. \A n \in 1..populated' : store'.cases[corpus[n].case] # NoCase
    <2>1. \A n \in 1..populated : store'.cases[corpus[n].case] # NoCase
      BY <1>1, <1>2, <1>8, PopulateAdds DEF RunInv
    <2> QED BY <1>1, <1>2, <1>3, <1>7, <2>1
  <1>10. corpus # << >> /\ stage \notin {"none", "counted"} => FALSE
    BY <1>1, <1>2 DEF RunInv
  <1> QED BY <1>1, <1>2, <1>9, <1>10 DEF RunInv

LEMMA EvalKeepsRun ==
    ASSUME StoreOK, RunInv, [EvalNext]_evalVars
    PROVE  RunInv'
  <1>1. CASE /\ UNCHANGED << corpus, store, populated, evaluated >>
             /\ stage' \in {"none", "counted"} \/ UNCHANGED << call, stage >>
    BY <1>1 DEF RunInv, Authorized
  <1>2. CASE UNCHANGED evalVars
    BY <1>1, <1>2 DEF evalVars, vars, eval
  <1>3. CASE Next /\ UNCHANGED eval
    <2>1. call' = call /\ stage \notin {"none", "counted"} /\ stage' \notin {"none", "counted"}
      BY <1>3 DEF Next, RaisePins, ReturnEarly, BuildPrompt, ProviderRaises, ProviderUnavailable,
           ProviderInvalid, ProviderAnswers, RejectClaim, AcceptClaim, ReturnHypothesis, Return
    <2> QED BY <1>3, <2>1 DEF eval, RunInv, Authorized
  <1>4. ASSUME NEW key \in BOOLEAN, RunCase(key) PROVE RunInv'
    <2>1. /\ populated = Len(corpus) /\ evaluated < Len(corpus)
          /\ UNCHANGED << corpus, store, populated, evaluated >>
          /\ call'.evidence = Authorized
      BY <1>4 DEF RunCase, eval, Authorized
    <2> QED BY <2>1 DEF RunInv, Authorized
  <1>5. CASE CountCase
    <2>1. /\ evaluated < Len(corpus) /\ evaluated' = evaluated + 1 /\ stage' = "counted"
          /\ UNCHANGED << corpus, store, populated >>
      BY <1>5 DEF CountCase
    <2>2. Len(corpus) \in Nat
      BY DEF StoreOK
    <2> QED BY <2>1, <2>2 DEF RunInv
  <1> QED BY <1>2, <1>3, <1>4, <1>5, PopulateKeepsRun DEF EvalNext

IInv == StoreOK /\ CallInv /\ RunInv

LEMMA InitIInv == EvalInit => IInv
  <1> SUFFICES ASSUME EvalInit PROVE IInv
    OBVIOUS
  <1>1. corpus \in Seq(Gold)
    <2>1. corpus = << >> \/ corpus \in Corpora
      BY DEF EvalInit
    <2>2. << >> \in Seq(Gold)
      OBVIOUS
    <2>3. Corpora \subseteq Seq(Gold)
      BY EvaluationAssumption
    <2> QED BY <2>1, <2>2, <2>3
  <1>2. StoreOK
    BY <1>1, EvaluationAssumption DEF EvalInit, StoreOK
  <1>3. CallInv /\ stage \in {"none", "called"} /\ (stage = "none" \/ corpus = << >>)
    <2>1. CASE corpus = << >> /\ Init
      BY <2>1 DEF Init, CallInv
    <2>2. CASE corpus # << >>
      <3>1. /\ call = [evidence |-> {}, polarity |-> [i \in Items |-> "UNKNOWN"],
                       pinned |-> {}, snapshot |-> FALSE, provider |-> FALSE]
            /\ stage = "none" /\ valid = << >>
        BY <2>2 DEF EvalInit
      <3>2. [i \in Items |-> "UNKNOWN"] \in [Items -> Polarities]
        BY DEF Polarities
      <3>3. call \in Call
        BY <3>1, <3>2 DEF Call
      <3> QED BY <3>1, <3>3 DEF CallInv
    <2> QED BY <2>1, <2>2, EvaluationAssumption DEF EvalInit
  <1>4. RunInv
    BY <1>1, <1>3 DEF EvalInit, RunInv
  <1> QED BY <1>2, <1>3, <1>4 DEF IInv

LEMMA NextKeepsIInv == IInv /\ [EvalNext]_evalVars => IInv'
  <1> SUFFICES ASSUME IInv, [EvalNext]_evalVars PROVE IInv'
    OBVIOUS
  <1>1. StoreOK' /\ RunInv'
    BY EvalStoreOK, EvalKeepsRun DEF IInv
  <1>2. CallInv'
    BY EvalKeepsCall DEF IInv, RunInv
  <1> QED BY <1>1, <1>2 DEF IInv

(* The provider may answer anything: a hypothesis has every claim of the   *)
(* answer and cites only evidence of the case that the prompt named, and   *)
(* every other outcome has no claim (investigate_case_workflow).           *)
THEOREM EvalClaimsAreGrounded == EvalSpec => []ClaimsAreGrounded
  <1>1. IInv => ClaimsAreGrounded
    BY DEF IInv, CallInv, ClaimsAreGrounded
  <1> QED BY <1>1, InitIInv, NextKeepsIInv, PTL DEF EvalSpec

(* Pins take no place from other evidence in the prompt, they are all in   *)
(* it up to the limit, and nothing is in it twice.                         *)
THEOREM EvalAttentionOnlyAdds == EvalSpec => []AttentionOnlyAdds
  <1>1. IInv => AttentionOnlyAdds
    <2> SUFFICES ASSUME IInv, stage = "asked" PROVE AttentionOnlyAdds
      BY DEF AttentionOnlyAdds
    <2>1. /\ call \in Call /\ call.pinned \subseteq call.evidence
          /\ prompt = OrderedEvidence(call)
      BY DEF IInv, CallInv
    <2>2. IsList(prompt, Shown(call))
      BY <2>1, OrderedEvidenceShows
    <2>3. PICK c : c = [call EXCEPT !.pinned = {}]
      OBVIOUS
    <2>4. /\ c \in Call /\ c.pinned = {} /\ c.evidence = call.evidence
          /\ c.polarity = call.polarity
      BY <2>1, <2>3 DEF Call
    <2>5. IsList(OrderedEvidence(c), Shown(c))
      BY <2>4, OrderedEvidenceShows
    <2>6. Shown(c) \subseteq Shown(call)
      <3>1. Cut(c.pinned) = {}
        BY <2>4 DEF Cut
      <3>2. Of(c, "MITIGATING") = Of(call, "MITIGATING") /\ Of(c, "SUPPORTING") = Of(call, "SUPPORTING")
        BY <2>4 DEF Of
      <3> QED BY <3>1, <3>2 DEF Shown
    <2>7. Cardinality(call.pinned) <= Limit => call.pinned \subseteq Shown(call)
      <3>1. call.pinned \in SUBSET Items
        BY <2>1 DEF Call
      <3> QED BY <3>1, CutItems DEF Shown
    <2> QED BY <2>2, <2>3, <2>5, <2>6, <2>7 DEF AttentionOnlyAdds, IsList
  <1> QED BY <1>1, InitIInv, NextKeepsIInv, PTL DEF EvalSpec

-----------------------------------------------------------------------------
(* The sums. *)

MetricsInv ==
    /\ metrics.claims \in Nat /\ metrics.abstained \in Nat
    /\ metrics.valid_citations = metrics.total_citations
    /\ metrics.claims_with_valid = metrics.claims
    /\ metrics.unsupported = 0
    /\ metrics.abstained <= evaluated
    /\ metrics.claims > 0 => metrics.abstained < evaluated

(* A case whose claims are grounded adds to the sums in pairs.             *)
LEMMA CountedClean ==
    ASSUME NEW m, valid \in Seq(Citations),
           UNION ToSet(valid) \subseteq Authorized
    PROVE  LET c == Counted(m)
           IN  /\ m.valid_citations = m.total_citations => c.valid_citations = c.total_citations
               /\ c.claims = m.claims + Len(valid)
               /\ c.claims_with_valid = m.claims_with_valid + Len(valid)
               /\ c.unsupported = m.unsupported + 0
               /\ c.abstained = m.abstained
                     + IF status \in {"INSUFFICIENT_EVIDENCE", "AI_UNAVAILABLE"} THEN 1 ELSE 0
  <1> DEFINE bad == {n \in DOMAIN valid : valid[n] = {} \/ ~(valid[n] \subseteq Authorized)}
             good == {n \in DOMAIN valid : valid[n] \cap Authorized # {}}
  <1>1. Len(valid) \in Nat /\ DOMAIN valid = 1..Len(valid)
    OBVIOUS
  <1>2. ASSUME NEW n \in DOMAIN valid
        PROVE  valid[n] # {} /\ valid[n] \subseteq Authorized
    <2>1. valid[n] \in Citations
      BY <1>1
    <2>2. valid[n] \in ToSet(valid)
      BY DEF ToSet
    <2>3. \A ids \in Citations : ids # {}
      BY InvestigationAssumption
    <2> QED BY <2>1, <2>2, <2>3
  <1>3. bad = {} /\ good = DOMAIN valid
    BY <1>2
  <1>4. Cardinality(bad) = 0 /\ Cardinality(good) = Len(valid)
    <2>1. Cardinality(1..Len(valid)) = Len(valid)
      BY <1>1, FS_Interval
    <2> QED BY <1>1, <1>3, <2>1, FS_EmptySet
  <1>5. CitationsOf(Authorized) = CitationsOf(UNION ToSet(valid))
    <2>1. \A n \in DOMAIN valid : valid[n] \subseteq UNION ToSet(valid)
      BY DEF ToSet
    <2>2. \A cit \in (DOMAIN valid) \X (UNION ToSet(valid)) :
             cit[2] \in valid[cit[1]] \cap Authorized <=> cit[2] \in valid[cit[1]] \cap UNION ToSet(valid)
      BY <1>2, <2>1
    <2> QED BY <2>2 DEF CitationsOf
  <1> QED BY <1>4, <1>5 DEF Counted

LEMMA EvalKeepsMetrics ==
    ASSUME IInv, MetricsInv, [EvalNext]_evalVars
    PROVE  MetricsInv'
  <1>1. CASE CountCase
    <2>1. /\ evaluated < Len(corpus) /\ stage = "returned"
          /\ metrics' = Counted(metrics) /\ evaluated' = evaluated + 1 /\ evaluated \in Nat
      BY <1>1 DEF CountCase, IInv, RunInv
    <2>2. corpus # << >>
      BY <2>1
    <2>3. call.evidence = Authorized /\ valid \in Seq(Citations) /\ ClaimsAreGrounded
      BY <2>1, <2>2 DEF IInv, RunInv, CallInv
    <2>4. status = "HYPOTHESIS_GENERATED" \/ valid = << >>
      BY <2>1, <2>3 DEF ClaimsAreGrounded
    <2>5. UNION ToSet(valid) \subseteq Authorized
      <3>1. CASE status = "HYPOTHESIS_GENERATED"
        BY <2>1, <2>3, <3>1 DEF ClaimsAreGrounded
      <3>2. CASE valid = << >>
        BY <3>2 DEF ToSet
      <3> QED BY <2>4, <3>1, <3>2
    <2>6. PICK c : c = Counted(metrics)
      OBVIOUS
    <2>7. PICK ab \in {0, 1} :
            /\ ab = IF status \in {"INSUFFICIENT_EVIDENCE", "AI_UNAVAILABLE"} THEN 1 ELSE 0
            /\ metrics.valid_citations = metrics.total_citations => c.valid_citations = c.total_citations
            /\ c.claims = metrics.claims + Len(valid)
            /\ c.claims_with_valid = metrics.claims_with_valid + Len(valid)
            /\ c.unsupported = metrics.unsupported + 0
            /\ c.abstained = metrics.abstained + ab
      BY <2>3, <2>5, <2>6, CountedClean
    <2>8. Len(valid) \in Nat /\ (Len(valid) > 0 => ab = 0)
      BY <2>3, <2>4, <2>7
    <2> QED BY <2>1, <2>6, <2>7, <2>8 DEF MetricsInv
  <1>2. CASE UNCHANGED << evaluated, metrics >>
    BY <1>2 DEF MetricsInv
  <1>3. ASSUME \/ Next /\ UNCHANGED eval
               \/ PopulateCase
               \/ \E key \in BOOLEAN : RunCase(key)
               \/ UNCHANGED evalVars
        PROVE  UNCHANGED << evaluated, metrics >>
    BY <1>3 DEF PopulateCase, RunCase, eval, evalVars
  <1> QED BY <1>1, <1>2, <1>3 DEF EvalNext

(* The metrics of an evaluation cannot tell a good provider from a bad one *)
(* by its citations: evaluate_corpus counts claims of the workflow, which  *)
(* have passed the same check already.                                     *)
THEOREM EvalMetricsAreClean == EvalSpec => []MetricsAreClean
  <1> DEFINE Inv == IInv /\ MetricsInv
  <1>1. EvalInit => Inv
    <2>1. EvalInit => MetricsInv
      BY DEF EvalInit, Zero, MetricsInv
    <2> QED BY <2>1, InitIInv
  <1>2. Inv /\ [EvalNext]_evalVars => Inv'
    BY NextKeepsIInv, EvalKeepsMetrics
  <1>3. Inv => MetricsAreClean
    BY DEF MetricsInv, MetricsAreClean
  <1> QED BY <1>1, <1>2, <1>3, PTL DEF EvalSpec
=============================================================================
