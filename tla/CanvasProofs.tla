---------------------------- MODULE CanvasProofs ----------------------------
(***************************************************************************)
(* Theorems of Canvas, for any accounts, any graph over them, any case,    *)
(* any times and any two bounds.                                           *)
(***************************************************************************)
EXTENDS Canvas, FiniteSetTheorems, WellFoundedInduction, TLAPS

-----------------------------------------------------------------------------
(* Numbers. *)

LEMMA SmallestNat ==
    ASSUME NEW T \in SUBSET Nat, T # {}
    PROVE  \E m \in T : \A k \in T : m <= k
  <1>1. PICK m \in T : \A k \in T : <<k, m>> \notin OpToRel(<, Nat)
    BY NatLessThanWellFounded, WFMin
  <1>2. \A k \in T : ~(k < m)
    BY <1>1 DEF OpToRel
  <1> QED BY <1>2

LEMMA Induction ==
    ASSUME NEW m \in Nat, NEW S, 0 \in S,
           \A k \in 1..m : k - 1 \in S => k \in S
    PROVE  \A k \in 0..m : k \in S
  <1> DEFINE T == {k \in 0..m : k \notin S}
  <1> SUFFICES ASSUME T # {} PROVE FALSE
    OBVIOUS
  <1>0. T \in SUBSET Nat
    OBVIOUS
  <1>1. PICK k \in T : \A j \in T : k <= j
    <2> HIDE DEF T
    <2> QED BY <1>0, SmallestNat
  <1>2. k \in 1..m /\ k - 1 \in 0..m /\ ~(k <= k - 1)
    BY <1>1
  <1>3. k - 1 \in S
    <2>1. k - 1 \notin T
      BY <1>1, <1>2
    <2> QED BY <1>2, <2>1
  <1>4. k \in S
    BY <1>2, <1>3
  <1> QED BY <1>1, <1>4

(* A function on 0..m that is given by its first value and one step after  *)
(* another.                                                                *)
Iterates(f, m, T, a, step) ==
    f \in [0..m -> T] /\ f[0] = a /\ \A d \in 1..m : f[d] = step[d][f[d - 1]]

LEMMA Recursion ==
    ASSUME NEW m \in Nat, NEW T, NEW a \in T, NEW step \in [1..m -> [T -> T]]
    PROVE  \E f : Iterates(f, m, T, a, step)
  <1> DEFINE IsIteration(f, k) == f[0] = a /\ \A d \in 1..k : f[d] = step[d][f[d - 1]]
             S == {k \in 0..m : \E f \in [0..k -> T] : IsIteration(f, k)}
  <1>1. 0 \in S
    <2> DEFINE f == [d \in 0..0 |-> a]
    <2>1. f \in [0..0 -> T] /\ f[0] = a
      OBVIOUS
    <2>2. \A d \in 1..0 : f[d] = step[d][f[d - 1]]
      OBVIOUS
    <2> HIDE DEF f
    <2> QED BY <2>1, <2>2
  <1>2. ASSUME NEW k \in 1..m, k - 1 \in S PROVE k \in S
    <2>1. PICK f \in [0..(k - 1) -> T] : IsIteration(f, k - 1)
      BY <1>2
    <2> DEFINE g == [d \in 0..k |-> IF d = k THEN step[k][f[k - 1]] ELSE f[d]]
    <2>2. step[k][f[k - 1]] \in T /\ \A d \in 0..(k - 1) : f[d] \in T
      BY <2>1
    <2>3. g \in [0..k -> T]
      BY <2>2
    <2>4. g[0] = a
      BY <2>1
    <2>5. ASSUME NEW d \in 1..k PROVE g[d] = step[d][g[d - 1]]
      <3>1. g[d - 1] = f[d - 1]
        OBVIOUS
      <3>2. CASE d = k
        BY <3>1, <3>2
      <3>3. CASE d # k
        <4>1. d \in 1..(k - 1) /\ g[d] = f[d]
          BY <3>3
        <4> QED BY <2>1, <3>1, <4>1
      <3> QED BY <3>2, <3>3
    <2>6. \E h \in [0..k -> T] : IsIteration(h, k)
      <3> HIDE DEF g
      <3> QED BY <2>3, <2>4, <2>5
    <2>7. k \in 0..m
      OBVIOUS
    <2> HIDE DEF IsIteration
    <2> QED BY <2>6, <2>7
  <1>3. m \in S
    <2> HIDE DEF S
    <2>1. \A k \in 0..m : k \in S
      BY <1>1, <1>2, Induction
    <2> QED BY <2>1
  <1> QED BY <1>3 DEF Iterates

-----------------------------------------------------------------------------
(* The first k of a finite set in a strict order. *)

Ordered(R, S) == /\ \A x \in S : <<x, x>> \notin R
                 /\ \A x, y \in S : x # y => <<x, y>> \in R \/ <<y, x>> \in R
                 /\ \A x, y, z \in S : <<x, y>> \in R /\ <<y, z>> \in R => <<x, z>> \in R

First(R, S, k) == {x \in S : Cardinality({y \in S : <<y, x>> \in R}) < k}

Least(k, n) == IF k <= n THEN k ELSE n

(* The place of an item is how many come before it; each place is taken.   *)
LEMMA FirstCount ==
    ASSUME NEW S, IsFiniteSet(S), NEW R, Ordered(R, S), NEW k \in Nat
    PROVE  /\ First(R, S, k) \in SUBSET S
           /\ IsFiniteSet(First(R, S, k))
           /\ Cardinality(First(R, S, k)) = Least(k, Cardinality(S))
  <1> DEFINE n == Cardinality(S)
             below(x) == {y \in S : <<y, x>> \in R}
             rank == [x \in S |-> Cardinality(below(x))]
             F == First(R, S, k)
             m == Least(k, n)
  <1>1. n \in Nat /\ m \in Nat
    BY FS_CardinalityType DEF Least
  <1>2. ASSUME NEW x \in S
        PROVE  IsFiniteSet(below(x)) /\ Cardinality(below(x)) \in 0..(n - 1)
    <2>1. below(x) \in SUBSET S /\ below(x) # S
      BY DEF Ordered
    <2>2. IsFiniteSet(below(x)) /\ Cardinality(below(x)) <= n /\ Cardinality(below(x)) # n
      BY <2>1, FS_Subset
    <2>3. Cardinality(below(x)) \in Nat
      BY <2>2, FS_CardinalityType
    <2> QED BY <1>1, <2>2, <2>3
  <1>3. ASSUME NEW x \in S, NEW y \in S, <<x, y>> \in R
        PROVE  Cardinality(below(x)) < Cardinality(below(y))
    <2>1. below(x) \in SUBSET below(y) /\ x \in below(y) /\ x \notin below(x)
      BY <1>3 DEF Ordered
    <2>2. Cardinality(below(x)) <= Cardinality(below(y)) /\ Cardinality(below(x)) # Cardinality(below(y))
      BY <1>2, <2>1, FS_Subset
    <2>3. Cardinality(below(x)) \in 0..(n - 1) /\ Cardinality(below(y)) \in 0..(n - 1)
      BY <1>2
    <2> HIDE DEF below, n
    <2> QED BY <1>1, <2>2, <2>3
  <1>4. rank \in Injection(S, 0..(n - 1))
    <2>1. rank \in [S -> 0..(n - 1)]
      BY <1>2
    <2>2. ASSUME NEW x \in S, NEW y \in S, rank[x] = rank[y] PROVE x = y
      <3>1. Cardinality(below(x)) = Cardinality(below(y)) /\ Cardinality(below(x)) \in Int
        BY <1>2, <2>2
      <3>2. ~(Cardinality(below(x)) < Cardinality(below(y))) /\ ~(Cardinality(below(y)) < Cardinality(below(x)))
        BY <3>1
      <3>3. <<x, y>> \notin R /\ <<y, x>> \notin R
        BY <1>3, <3>2
      <3> QED BY <3>3 DEF Ordered
    <2> QED BY <2>1, <2>2 DEF Injection, IsInjective
  <1>5. rank \in Surjection(S, 0..(n - 1))
    <2>1. IsFiniteSet(0..(n - 1))
      BY <1>1, FS_Interval
    <2>2. Cardinality(0..(n - 1)) = n
      BY <1>1, FS_Interval
    <2> HIDE DEF rank
    <2> QED BY <1>4, <2>1, <2>2, FS_Injection
  <1>6. \A i \in 0..(n - 1) : \E x \in S : rank[x] = i
    BY <1>5 DEF Surjection
  <1>7. F = {x \in S : rank[x] < k}
    BY DEF First
  <1>8. rank \in [S -> 0..(n - 1)] /\ \A x, y \in S : rank[x] = rank[y] => x = y
    BY <1>4 DEF Injection, IsInjective
  <1> HIDE DEF rank, F
  <1>9. \A x \in S : x \in F <=> rank[x] \in 0..(m - 1)
    <2> SUFFICES ASSUME NEW x \in S PROVE x \in F <=> rank[x] \in 0..(m - 1)
      OBVIOUS
    <2>1. rank[x] \in 0..(n - 1)
      BY <1>8
    <2> QED BY <1>1, <1>7, <2>1 DEF Least
  <1> DEFINE place == [x \in F |-> rank[x]]
  <1>10. F \in SUBSET S
    BY <1>7
  <1>11. place \in Injection(F, 0..(m - 1))
    BY <1>8, <1>9, <1>10 DEF Injection, IsInjective
  <1>12. place \in Surjection(F, 0..(m - 1))
    <2>1. \A i \in 0..(m - 1) : i \in 0..(n - 1)
      BY <1>1 DEF Least
    <2>2. \A i \in 0..(m - 1) : \E x \in F : place[x] = i
      BY <1>6, <1>9, <2>1
    <2> QED BY <1>11, <2>2 DEF Surjection, Injection
  <1>13. IsFiniteSet(0..(m - 1)) /\ Cardinality(0..(m - 1)) = m
    <2>1. IsFiniteSet(0..(m - 1))
      BY <1>1, FS_Interval
    <2>2. Cardinality(0..(m - 1)) = m
      BY <1>1, FS_Interval
    <2> QED BY <2>1, <2>2
  <1>14. IsFiniteSet(F) /\ Cardinality(F) = m
    <2> HIDE DEF place, m
    <2> QED BY <1>11, <1>12, <1>13, FS_Injection
  <1> QED BY <1>10, <1>14 DEF F

-----------------------------------------------------------------------------
(* The graph. *)

(* Both ends of an edge are accounts, and there is one. *)
LEMMA EndsAreNodes ==
    ASSUME ends \in Graphs, NEW e \in Trace
    PROVE  ends[e] \in SUBSET Nodes /\ ends[e] # {}
  <1>1. ends \in [Edges -> {{n, m} : n, m \in Nodes}] /\ e \in Edges
    BY CanvasAssumption
  <1>2. PICK n \in Nodes, m \in Nodes : ends[e] = {n, m}
    BY <1>1
  <1> QED BY <1>2

LEMMA EndpointsAreNodes ==
    ASSUME ends \in Graphs, NEW E \in SUBSET Trace
    PROVE  Endpoints(E) \in SUBSET Nodes
  <1> SUFFICES ASSUME NEW n \in Endpoints(E) PROVE n \in Nodes
    OBVIOUS
  <1>1. CASE n = Seed
    BY <1>1, CanvasAssumption
  <1>2. CASE \E e \in E : n \in ends[e]
    BY <1>2, EndsAreNodes
  <1> QED BY <1>1, <1>2 DEF Endpoints

(* One hop more. *)
Grown(R) == R \cup UNION {ends[e] : e \in {f \in Trace : ends[f] \cap R # {}}}

LEMMA GrownIsNodes ==
    ASSUME ends \in Graphs, NEW R \in SUBSET Nodes
    PROVE  Grown(R) \in SUBSET Nodes
  <1> SUFFICES ASSUME NEW n \in Grown(R), n \notin R PROVE n \in Nodes
    BY DEF Grown
  <1>1. PICK e \in Trace : n \in ends[e]
    BY DEF Grown
  <1> QED BY <1>1, EndsAreNodes

(* Reach is the function its definition describes. *)
LEMMA ReachDef ==
    ASSUME ends \in Graphs
    PROVE  /\ Reach \in [0..MaxHops -> SUBSET Nodes]
           /\ Reach[0] = {Seed}
           /\ \A d \in 1..MaxHops : Reach[d] = Grown(Reach[d - 1])
  <1> DEFINE step == [d \in 1..MaxHops |-> [R \in SUBSET Nodes |-> Grown(R)]]
             Is(F) == F = [d \in 0..MaxHops |->
                             IF d = 0 THEN {Seed}
                             ELSE F[d - 1] \cup UNION {ends[e] : e \in {f \in Trace : ends[f] \cap F[d - 1] # {}}}]
  <1>1. step \in [1..MaxHops -> [SUBSET Nodes -> SUBSET Nodes]]
    BY GrownIsNodes
  <1>2. MaxHops \in Nat /\ {Seed} \in SUBSET Nodes
    BY CanvasAssumption
  <1>3. PICK f \in [0..MaxHops -> SUBSET Nodes] :
            f[0] = {Seed} /\ \A d \in 1..MaxHops : f[d] = step[d][f[d - 1]]
    <2> HIDE DEF step
    <2>1. \E f : Iterates(f, MaxHops, SUBSET Nodes, {Seed}, step)
      BY <1>1, <1>2, Recursion
    <2> QED BY <2>1 DEF Iterates
  <1>4. ASSUME NEW d \in 1..MaxHops PROVE f[d] = Grown(f[d - 1])
    <2>1. f[d - 1] \in SUBSET Nodes
      BY <1>2, <1>3
    <2> QED BY <1>3, <2>1
  <1>5. Is(f)
    <2>1. \A d \in 0..MaxHops : d # 0 => d \in 1..MaxHops
      BY <1>2
    <2> QED BY <1>3, <1>4, <2>1 DEF Grown
  <1>6. Is(Reach)
    <2>1. Reach = CHOOSE F : Is(F)
      BY DEF Reach
    <2> HIDE DEF Is
    <2> QED BY <1>5, <2>1
  <1>7. Reach[0] = {Seed}
    <2>1. 0 \in 0..MaxHops
      BY <1>2
    <2> QED BY <1>6, <2>1
  <1>8. ASSUME NEW d \in 1..MaxHops PROVE Reach[d] = Grown(Reach[d - 1])
    <2>1. d \in 0..MaxHops /\ d # 0
      BY <1>2
    <2> QED BY <1>6, <2>1 DEF Grown
  <1>9. \A d \in 0..MaxHops : Reach[d] \in SUBSET Nodes
    <2> DEFINE S == {d \in 0..MaxHops : Reach[d] \in SUBSET Nodes}
    <2>1. 0 \in S
      BY <1>2, <1>7
    <2>2. ASSUME NEW d \in 1..MaxHops, d - 1 \in S PROVE d \in S
      <3>1. Reach[d - 1] \in SUBSET Nodes
        BY <2>2
      <3>2. d \in 0..MaxHops /\ Reach[d] \in SUBSET Nodes
        BY <1>2, <1>8, <3>1, GrownIsNodes
      <3> QED BY <3>2
    <2>3. \A d \in 0..MaxHops : d \in S
      <3> HIDE DEF S
      <3> QED BY <1>2, <2>1, <2>2, Induction
    <2> QED BY <2>3
  <1>10. Reach \in [0..MaxHops -> SUBSET Nodes]
    <2>1. Reach = [d \in 0..MaxHops |-> Reach[d]]
      BY <1>6
    <2> QED BY <1>9, <2>1
  <1> QED BY <1>7, <1>8, <1>10

(* More hops reach more. *)
LEMMA ReachGrows ==
    ASSUME ends \in Graphs
    PROVE  \A d \in 0..MaxHops : \A c \in 0..d : Reach[c] \subseteq Reach[d]
  <1> DEFINE S == {d \in 0..MaxHops : \A c \in 0..d : Reach[c] \subseteq Reach[d]}
  <1>1. MaxHops \in Nat
    BY CanvasAssumption
  <1>2. 0 \in S
    BY <1>1
  <1>3. ASSUME NEW d \in 1..MaxHops, d - 1 \in S PROVE d \in S
    <2>1. d \in 0..MaxHops /\ \A c \in 0..d : c = d \/ c \in 0..(d - 1)
      BY <1>1
    <2>2. Reach[d - 1] \subseteq Reach[d]
      BY ReachDef DEF Grown
    <2> QED BY <1>3, <2>1, <2>2
  <1>4. \A d \in 0..MaxHops : d \in S
    <2> HIDE DEF S
    <2> QED BY <1>1, <1>2, <1>3, Induction
  <1> QED BY <1>4

LEMMA WithinMaxHops ==
    ASSUME ends \in Graphs
    PROVE  \A d \in 0..MaxHops : Reach[d] \subseteq Reach[MaxHops]
  <1>1. MaxHops \in 0..MaxHops
    BY CanvasAssumption
  <1> QED BY <1>1, ReachGrows

-----------------------------------------------------------------------------
(* The edges of a call. *)

(* The adjacency order is a strict order of the edges: no two edges share  *)
(* a timestamp and an id.                                                  *)
BeforePairs == {p \in Edges \X Edges : Before(p[1], p[2])}

LEMMA BeforeOrders == ASSUME NEW S \in SUBSET Edges PROVE Ordered(BeforePairs, S)
  <1>1. \A e \in S : e \in Edges /\ e \in Nat /\ (Time[e] = NoTime \/ Time[e] \in Nat)
    BY CanvasAssumption
  <1>2. \A e, f \in S : <<e, f>> \in BeforePairs <=> Before(e, f)
    BY DEF BeforePairs
  <1>3. \A e \in S : ~Before(e, e)
    BY <1>1 DEF Before
  <1>4. \A e, f \in S : e # f => Before(e, f) \/ Before(f, e)
    BY <1>1 DEF Before
  <1>5. \A e, f, g \in S : Before(e, f) /\ Before(f, g) => Before(e, g)
    BY <1>1 DEF Before
  <1> QED BY <1>2, <1>3, <1>4, <1>5 DEF Ordered

LEMMA FirstOfCount ==
    ASSUME NEW S \in SUBSET Edges, NEW k \in Nat
    PROVE  /\ FirstOf(S, k) \in SUBSET S
           /\ IsFiniteSet(S) /\ IsFiniteSet(FirstOf(S, k))
           /\ Cardinality(FirstOf(S, k)) = Least(k, Cardinality(S))
  <1>1. FirstOf(S, k) = First(BeforePairs, S, k)
    <2>1. ASSUME NEW e \in S
          PROVE  {f \in S : Before(f, e)} = {f \in S : <<f, e>> \in BeforePairs}
      BY DEF BeforePairs
    <2> QED BY <2>1 DEF FirstOf, First
  <1>2. IsFiniteSet(S)
    <2>1. IsFiniteSet(Edges)
      BY CanvasAssumption
    <2> QED BY <2>1, FS_Subset
  <1> QED BY <1>1, <1>2, BeforeOrders, FirstCount

LEMMA ScopeIsFinite == Scope \in SUBSET Trace /\ Scope \in SUBSET Edges /\ IsFiniteSet(Scope)
  <1>1. IsFiniteSet(Edges) /\ Trace \subseteq Edges
    BY CanvasAssumption
  <1>2. Scope \subseteq Trace
    BY DEF Scope
  <1>3. Scope \in SUBSET Edges
    BY <1>1, <1>2
  <1> QED BY <1>1, <1>2, <1>3, FS_Subset

(* A set of edges the canvas may show. *)
Shown == {E \in SUBSET Scope : Cardinality(E) <= Cap /\ Endpoints(E) \subseteq Joined(E)}

LEMMA ShowingIsHonest ==
    ASSUME NEW E \in SUBSET Scope, NEW K \in SUBSET E,
           Cardinality(K) < Cap => Cardinality(E) <= Cap
    PROVE  Honest(K, Showing(E))
  <1>1. IsFiniteSet(E) /\ Cardinality(E) <= Cardinality(Scope)
        /\ (Cardinality(Scope) = Cardinality(E) => Scope = E)
    BY ScopeIsFinite, FS_Subset
  <1>2. Cardinality(E) \in Nat /\ Cardinality(Scope) \in Nat
    BY <1>1, ScopeIsFinite, FS_CardinalityType
  <1>3. Showing(E).edges = E /\ Showing(E).is_truncated = (Cardinality(Scope) > Cardinality(E))
    BY DEF Showing
  <1>4. Cardinality(Scope) > Cardinality(E) <=> E # Scope
    BY <1>1, <1>2
  <1>5. Showing(E).is_truncated <=> Showing(E).edges # Scope
    BY <1>3, <1>4
  <1> QED BY <1>3, <1>5 DEF Honest

(* The answer to a valid request: the known edges, then new ones within    *)
(* reach, up to the cap, or one of them where the cap is reached.          *)
LEMMA NewEdgesFit ==
    ASSUME NEW n, NEW K \in SUBSET Edges, Valid(n, K)
    PROVE  /\ K \in SUBSET Scope
           /\ NewEdges(n, K) \in SUBSET Candidates(n, K)
           /\ Candidates(n, K) \in SUBSET Scope
           /\ Cardinality(K) < Cap => Cardinality(K \cup NewEdges(n, K)) <= Cap
           /\ Candidates(n, K) # {} => NewEdges(n, K) # {}
  <1> DEFINE C == Candidates(n, K)
             N == NewEdges(n, K)
             remaining == Cap - Cardinality(K)
             k == IF remaining > 0 THEN remaining ELSE 1
  <1>1. K \in SUBSET Scope /\ C \in SUBSET Scope
    BY DEF Valid, Scope, Candidates
  <1>2. IsFiniteSet(K) /\ Cardinality(K) \in Nat /\ Cardinality(K) <= Cap /\ Cap \in Nat \ {0}
    <2>1. IsFiniteSet(K)
      BY <1>1, ScopeIsFinite, FS_Subset
    <2>2. Cardinality(K) \in Nat
      BY <2>1, FS_CardinalityType
    <2> QED BY <2>1, <2>2, CanvasAssumption DEF Valid
  <1>3. k \in Nat \ {0} /\ (Cardinality(K) < Cap => Cardinality(K) + k <= Cap)
    BY <1>2
  <1>4. N = FirstOf(C, k) /\ C \in SUBSET Edges
    BY <1>1, ScopeIsFinite DEF NewEdges
  <1> HIDE DEF k, C, N
  <1>5. /\ N \in SUBSET C /\ IsFiniteSet(C) /\ IsFiniteSet(N)
        /\ Cardinality(N) = Least(k, Cardinality(C))
    BY <1>3, <1>4, FirstOfCount
  <1>6. Cardinality(N) \in Nat /\ Cardinality(C) \in Nat /\ Cardinality(N) <= k
    BY <1>3, <1>5, FS_CardinalityType DEF Least
  <1>7. Cardinality(K) < Cap => Cardinality(K \cup N) <= Cap
    <2>1. Cardinality(K \cup N) = Cardinality(K) + Cardinality(N) - Cardinality(K \cap N)
      BY <1>2, <1>5, FS_Union
    <2>2. Cardinality(K \cap N) \in Nat
      <3>1. K \cap N \in SUBSET K
        OBVIOUS
      <3> QED BY <1>2, <3>1, FS_Subset, FS_CardinalityType
    <2> QED BY <1>2, <1>3, <1>6, <2>1, <2>2
  <1>8. C # {} => N # {}
    <2>1. C # {} => Cardinality(C) # 0
      BY <1>5, FS_EmptySet
    <2>2. N = {} => Cardinality(N) = 0
      BY FS_EmptySet
    <2> QED BY <1>3, <1>5, <1>6, <2>1, <2>2 DEF Least
  <1> QED BY <1>1, <1>5, <1>7, <1>8 DEF C, N

(* The first trace: every edge of it ends in the seed. *)
LEMMA InitialIsShown ==
    ASSUME ends \in Graphs
    PROVE  \E E \in Shown : initial = Showing(E)
  <1> DEFINE C == {e \in Trace : Seed \in ends[e] /\ ends[e] \subseteq Reach[1]}
             E == FirstOf(C, Cap)
  <1>1. Cap \in Nat /\ MaxHops \in Nat \ {0} /\ C \in SUBSET Trace /\ C \in SUBSET Edges
    BY CanvasAssumption
  <1>2. C \in SUBSET Scope
    <2>1. 1 \in 0..MaxHops
      BY <1>1
    <2>2. Reach[1] \subseteq Reach[MaxHops]
      BY <2>1, WithinMaxHops
    <2> QED BY <2>2 DEF Scope, WithinReach
  <1> HIDE DEF C
  <1>3. E \in SUBSET C /\ IsFiniteSet(C) /\ Cardinality(E) = Least(Cap, Cardinality(C))
    BY <1>1, FirstOfCount
  <1>4. Cardinality(E) <= Cap
    <2>1. Cardinality(C) \in Nat
      BY <1>3, FS_CardinalityType
    <2> QED BY <1>1, <1>3, <2>1 DEF Least
  <1>5. \A e \in E : e \in Trace /\ Seed \in ends[e]
    BY <1>3 DEF C
  <1> HIDE DEF E
  <1>6. Endpoints(E) \subseteq Joined(E)
    <2> SUFFICES ASSUME NEW n \in Endpoints(E), NEW S \in SUBSET Nodes,
                        Seed \in S, \A e \in E : ends[e] \cap S # {} => ends[e] \subseteq S
                 PROVE  n \in S
      <3>1. Endpoints(E) \in SUBSET Nodes
        BY <1>2, <1>3, ScopeIsFinite, EndpointsAreNodes
      <3> QED BY <3>1 DEF Joined
    <2>1. CASE n = Seed
      BY <2>1
    <2>2. CASE \E e \in E : n \in ends[e]
      BY <1>5, <2>2
    <2> QED BY <2>1, <2>2 DEF Endpoints
  <1>7. E \in Shown
    BY <1>2, <1>3, <1>4, <1>6 DEF Shown
  <1> QED BY <1>7 DEF initial, C, E

LEMMA ExpandedIsShown ==
    ASSUME ends \in Graphs, NEW K \in Shown, Cardinality(K) < Cap, NEW n, Valid(n, K)
    PROVE  K \cup NewEdges(n, K) \in Shown
  <1> DEFINE E == K \cup NewEdges(n, K)
  <1>1. /\ K \in SUBSET Scope /\ Endpoints(K) \subseteq Joined(K)
        /\ K \in SUBSET Edges
    BY ScopeIsFinite DEF Shown
  <1>2. /\ NewEdges(n, K) \in SUBSET Candidates(n, K)
        /\ E \in SUBSET Scope
        /\ Cardinality(E) <= Cap
    BY <1>1, NewEdgesFit
  <1>3. \A e \in E \ K : n \in ends[e]
    BY <1>2 DEF Candidates
  <1>4. n \in Endpoints(K)
    BY DEF Valid
  <1>5. K \subseteq E
    OBVIOUS
  <1> HIDE DEF E
  <1>6. Endpoints(E) \subseteq Joined(E)
    <2> SUFFICES ASSUME NEW m \in Endpoints(E), NEW S \in SUBSET Nodes,
                        Seed \in S, \A e \in E : ends[e] \cap S # {} => ends[e] \subseteq S
                 PROVE  m \in S
      <3>1. Endpoints(E) \in SUBSET Nodes
        BY <1>2, ScopeIsFinite, EndpointsAreNodes
      <3> QED BY <3>1 DEF Joined
    <2>1. Endpoints(K) \subseteq S
      <3>1. \A e \in K : ends[e] \cap S # {} => ends[e] \subseteq S
        BY <1>5
      <3> QED BY <1>1, <3>1 DEF Joined
    <2>2. CASE m \in Endpoints(K)
      BY <2>1, <2>2
    <2>3. CASE m \notin Endpoints(K)
      <3>1. PICK e \in E : m \in ends[e]
        BY <2>3 DEF Endpoints
      <3>2. e \notin K
        BY <2>3, <3>1 DEF Endpoints
      <3>3. n \in ends[e] /\ n \in S
        BY <1>3, <1>4, <2>1, <3>2
      <3>4. ends[e] \subseteq S
        BY <3>3
      <3> QED BY <3>1, <3>4
    <2> QED BY <2>2, <2>3
  <1> QED BY <1>2, <1>6 DEF Shown, E

-----------------------------------------------------------------------------
(* The invariant. *)

IInv == /\ ends \in Graphs
        /\ view # NoView => \E E \in Shown : view = Showing(E)
        /\ request # NoRequest => /\ request.known \in Shown
                                  /\ Cardinality(request.known) < Cap

(* What the canvas may show depends on the graph and the case only. *)
LEMMA SameGraph ==
    ASSUME ends' = ends
    PROVE  Shown' = Shown /\ \A E : Showing(E)' = Showing(E)
  <1>1. Reach' = Reach
    BY DEF Reach
  <1>2. Scope' = Scope
    BY <1>1 DEF Scope, WithinReach
  <1>3. \A E : Endpoints(E)' = Endpoints(E) /\ Joined(E)' = Joined(E)
    BY DEF Endpoints, Joined
  <1>4. Shown' = Shown
    BY <1>2, <1>3 DEF Shown
  <1>5. \A E : Showing(E)' = Showing(E)
    BY <1>1, <1>2 DEF Showing, Dist
  <1> QED BY <1>4, <1>5

LEMMA CanvasInit == Init => IInv
  BY DEF Init, IInv

LEMMA CanvasNext == IInv /\ [Next]_vars => IInv'
  <1> SUFFICES ASSUME IInv, [Next]_vars PROVE IInv'
    OBVIOUS
  <1>1. ends' = ends
    BY DEF Next, vars, Open, Pin, Reconcile, SendExpand, AnswerExpand, RefuseExpand, LoseExpand
  <1>2. Shown' = Shown /\ \A E : Showing(E)' = Showing(E)
    BY <1>1, SameGraph
  <1>3. /\ ends \in Graphs
        /\ view # NoView => \E E \in Shown : view = Showing(E)
        /\ request # NoRequest => /\ request.known \in Shown
                                  /\ Cardinality(request.known) < Cap
    BY DEF IInv
  <1>4. SUFFICES /\ view' # NoView => \E E \in Shown : view' = Showing(E)
                 /\ request' # NoRequest => /\ request'.known \in Shown
                                            /\ Cardinality(request'.known) < Cap
    BY <1>1, <1>2, <1>3 DEF IInv
  <1>5. CASE Open
    BY <1>3, <1>5, InitialIsShown DEF Open
  <1>6. CASE Pin \/ Reconcile \/ RefuseExpand \/ LoseExpand \/ UNCHANGED vars
    BY <1>3, <1>6 DEF Pin, Reconcile, RefuseExpand, LoseExpand, vars
  <1>7. ASSUME NEW n \in Nodes, SendExpand(n)
        PROVE  /\ view' # NoView => \E E \in Shown : view' = Showing(E)
               /\ request' # NoRequest => /\ request'.known \in Shown
                                          /\ Cardinality(request'.known) < Cap
    <2>1. PICK E \in Shown : view = Showing(E)
      BY <1>3, <1>7 DEF SendExpand, canExpand
    <2>2. view.edges = E
      BY <2>1 DEF Showing
    <2>3. request'.known = view.edges /\ view' = view /\ Cardinality(view.edges) < Cap
      BY <1>7 DEF SendExpand, canExpand
    <2> QED BY <1>3, <2>2, <2>3
  <1>8. CASE AnswerExpand
    <2>1. PICK n, K : n = request.node /\ K = request.known
      OBVIOUS
    <2>2. K \in Shown /\ Cardinality(K) < Cap /\ Valid(n, K) /\ view' = Expanded(n, K) /\ request' = NoRequest
      BY <1>3, <1>8, <2>1 DEF AnswerExpand
    <2>3. K \cup NewEdges(n, K) \in Shown
      BY <1>3, <2>2, ExpandedIsShown
    <2> QED BY <2>2, <2>3 DEF Expanded
  <1> QED BY <1>5, <1>6, <1>7, <1>8 DEF Next

LEMMA CanvasInv == Spec => []IInv
  BY CanvasInit, CanvasNext, PTL DEF Spec

-----------------------------------------------------------------------------
(* What is shown is honest. *)

LEMMA AnswersAreHonest ==
    ASSUME NEW n, NEW K \in SUBSET Edges, Valid(n, K)
    PROVE  Honest(K, Expanded(n, K))
  <1>1. /\ K \cup NewEdges(n, K) \in SUBSET Scope
        /\ Cardinality(K) < Cap => Cardinality(K \cup NewEdges(n, K)) <= Cap
    BY NewEdgesFit
  <1>2. K \in SUBSET (K \cup NewEdges(n, K))
    OBVIOUS
  <1> QED BY <1>1, <1>2, ShowingIsHonest DEF Expanded

(* HonestAnswers: on every canvas that any sequence of expansions, pins    *)
(* and reconciliations leads to, there are no more edges than the cap,     *)
(* each edge is within reach of the seed, each account is joined to it by  *)
(* edges shown, and "not truncated" means that no edge within reach is     *)
(* missing; and each answer to known edges that any client may send has    *)
(* them, and is as honest, but that the cap needs known edges below it     *)
(* (CanvasService.initial, CanvasService.expand, canExpand of the page).   *)
THEOREM CanvasAnswersAreHonest == Spec => []HonestAnswers
  <1>1. IInv => HonestAnswers
    <2> SUFFICES ASSUME IInv PROVE HonestAnswers
      OBVIOUS
    <2>1. CASE view = NoView
      BY <2>1, AnswersAreHonest DEF HonestAnswers
    <2>2. CASE view # NoView
      <3>1. PICK E \in Shown : view = Showing(E)
        BY <2>2 DEF IInv
      <3>2. E \in SUBSET Scope /\ Cardinality(E) <= Cap /\ {} \in SUBSET E
        BY DEF Shown
      <3>3. Honest({}, view)
        BY <3>1, <3>2, ShowingIsHonest
      <3>4. DOMAIN view.hop = Endpoints(E) /\ view.edges = E
        BY <3>1 DEF Showing, Endpoints
      <3>5. DOMAIN view.hop \subseteq Joined(view.edges)
        BY <3>4 DEF Shown
      <3> QED BY <2>2, <3>3, <3>5 DEF HonestAnswers
    <2> QED BY <2>1, <2>2
  <1> QED BY <1>1, CanvasInv, PTL

-----------------------------------------------------------------------------
(* No investigator is stuck. *)

(* Where no account of the canvas has a further edge, all that is within   *)
(* reach of the seed is on it: hop by hop.                                 *)
LEMMA NothingMissing ==
    ASSUME ends \in Graphs, NEW E \in SUBSET Scope,
           \A n \in Endpoints(E) : Candidates(n, E) = {}
    PROVE  E = Scope
  <1> DEFINE S == {d \in 0..MaxHops : Reach[d] \subseteq Endpoints(E)}
  <1>1. MaxHops \in Nat
    BY CanvasAssumption
  <1>2. 0 \in S
    BY <1>1, ReachDef DEF Endpoints
  <1>3. ASSUME NEW e \in Trace, WithinReach(e), ends[e] \cap Endpoints(E) # {} PROVE e \in E
    BY <1>3 DEF Candidates
  <1>4. ASSUME NEW d \in 1..MaxHops, d - 1 \in S PROVE d \in S
    <2>1. /\ d \in 0..MaxHops /\ Reach[d] = Grown(Reach[d - 1])
          /\ Reach[d - 1] \subseteq Endpoints(E)
          /\ Reach[d] \subseteq Reach[MaxHops]
      <3>1. d \in 0..MaxHops
        BY <1>1
      <3> QED BY <1>4, <3>1, ReachDef, WithinMaxHops
    <2>2. ASSUME NEW e \in Trace, ends[e] \cap Reach[d - 1] # {}
          PROVE  ends[e] \subseteq Endpoints(E)
      <3>1. WithinReach(e)
        BY <2>1, <2>2 DEF Grown, WithinReach
      <3>2. e \in E
        BY <1>3, <2>1, <2>2, <3>1
      <3> QED BY <3>2 DEF Endpoints
    <2>3. Reach[d] \subseteq Endpoints(E)
      BY <2>1, <2>2 DEF Grown
    <2> QED BY <2>1, <2>3
  <1>5. Reach[MaxHops] \subseteq Endpoints(E)
    <2>1. \A d \in 0..MaxHops : d \in S
      <3> HIDE DEF S
      <3> QED BY <1>1, <1>2, <1>4, Induction
    <2>2. MaxHops \in S
      BY <1>1, <2>1
    <2> QED BY <2>2
  <1>6. ASSUME NEW e \in Scope PROVE e \in E
    <2>1. e \in Trace /\ WithinReach(e)
      BY DEF Scope
    <2>2. ends[e] # {} /\ ends[e] \subseteq Reach[MaxHops]
      BY <2>1, EndsAreNodes DEF WithinReach
    <2> QED BY <1>3, <1>5, <2>1, <2>2
  <1> QED BY <1>6

(* Discoverable: while the canvas says that edges are missing and is below *)
(* the cap, where the page offers an expansion, that of one of its         *)
(* accounts is valid and shows one more (CanvasService.expand, canExpand   *)
(* and handleExpandHop of the web client).                                 *)
THEOREM CanvasIsDiscoverable == Spec => []Discoverable
  <1>1. IInv => Discoverable
    <2> SUFFICES ASSUME IInv, view # NoView, view.is_truncated, Cardinality(view.edges) < Cap
                 PROVE  \E n \in DOMAIN view.hop :
                           Valid(n, view.edges) /\ Expanded(n, view.edges).edges # view.edges
      BY DEF Discoverable, canExpand
    <2>1. PICK E \in Shown : view = Showing(E)
      BY DEF IInv
    <2>2. DOMAIN view.hop = Endpoints(E) /\ view.edges = E
      BY <2>1 DEF Showing, Endpoints
    <2>3. /\ E \in SUBSET Scope /\ E \in SUBSET Edges /\ Cardinality(E) <= Cap
          /\ {} \in SUBSET E
      BY ScopeIsFinite DEF Shown
    <2>4. E # Scope
      BY <2>1, <2>2, <2>3, ShowingIsHonest DEF Honest
    <2>5. PICK n \in Endpoints(E) : Candidates(n, E) # {}
      BY <2>3, <2>4, NothingMissing DEF IInv
    <2>6. Valid(n, E)
      BY <2>2, <2>3 DEF Valid, Scope
    <2>7. PICK e \in NewEdges(n, E) : e \notin E
      BY <2>3, <2>5, <2>6, NewEdgesFit DEF Candidates
    <2>8. Expanded(n, E).edges = E \cup NewEdges(n, E)
      BY DEF Expanded, Showing
    <2> QED BY <2>2, <2>6, <2>7, <2>8
  <1> QED BY <1>1, CanvasInv, PTL

-----------------------------------------------------------------------------
(* The trace of the agent. *)

(* The edges that start less than g hops from the seed. *)
Near(g) == IF g < 1 THEN {} ELSE {e \in Trace : ends[e] \cap Reach[g - 1] # {}}

(* Each set of them gives the next: its ends are what has been reached.    *)
LEMMA NearDef ==
    ASSUME ends \in Graphs
    PROVE  /\ \A g \in Int : g < 1 => Near(g) = {}
           /\ \A g \in Int : Near(g) \in SUBSET Trace
           /\ \A g \in 0..MaxHops : /\ Reach[g] = Endpoints(Near(g))
                                    /\ Near(g + 1) = {e \in Trace : ends[e] \cap Endpoints(Near(g)) # {}}
  <1> DEFINE S == {g \in 0..MaxHops : Reach[g] = Endpoints(Near(g))}
  <1>1. MaxHops \in Nat
    BY CanvasAssumption
  <1>2. 0 \in S
    BY <1>1, ReachDef DEF Near, Endpoints
  <1>3. ASSUME NEW g \in 1..MaxHops, g - 1 \in S PROVE g \in S
    <2>1. g \in 0..MaxHops /\ ~(g < 1)
      BY <1>1
    <2>2. Near(g) = {e \in Trace : ends[e] \cap Reach[g - 1] # {}}
      BY <2>1 DEF Near
    <2>3. Reach[g] = Reach[g - 1] \cup UNION {ends[e] : e \in Near(g)}
      BY <2>2, ReachDef DEF Grown
    <2>4. Endpoints(Near(g)) \subseteq Reach[g]
      <3>1. 0 \in 0..g
        BY <2>1
      <3>2. Seed \in Reach[g]
        BY <2>1, <3>1, ReachDef, ReachGrows
      <3> QED BY <2>3, <3>2 DEF Endpoints
    <2>5. Reach[g - 1] \subseteq Endpoints(Near(g))
      <3>1. Reach[g - 1] = Endpoints(Near(g - 1))
        BY <1>3
      <3> SUFFICES ASSUME NEW n \in Reach[g - 1], n # Seed PROVE n \in Endpoints(Near(g))
        BY DEF Endpoints
      <3>2. PICK e \in Near(g - 1) : n \in ends[e]
        BY <3>1 DEF Endpoints
      <3>3. e \in Trace
        BY DEF Near
      <3>4. e \in Near(g)
        BY <2>2, <3>2, <3>3
      <3> QED BY <3>2, <3>4 DEF Endpoints
    <2>6. Reach[g] = Endpoints(Near(g))
      BY <2>3, <2>4, <2>5 DEF Endpoints
    <2> QED BY <2>1, <2>6
  <1>4. \A g \in 0..MaxHops : Reach[g] = Endpoints(Near(g))
    <2>1. \A g \in 0..MaxHops : g \in S
      <3> HIDE DEF S
      <3> QED BY <1>1, <1>2, <1>3, Induction
    <2> QED BY <2>1
  <1>5. ASSUME NEW g \in 0..MaxHops
        PROVE  Near(g + 1) = {e \in Trace : ends[e] \cap Endpoints(Near(g)) # {}}
    <2>1. ~(g + 1 < 1) /\ (g + 1) - 1 = g
      BY <1>1
    <2>2. Near(g + 1) = {e \in Trace : ends[e] \cap Reach[g] # {}}
      BY <2>1 DEF Near
    <2> QED BY <1>4, <2>2
  <1>6. \A g \in Int : (g < 1 => Near(g) = {}) /\ Near(g) \in SUBSET Trace
    BY DEF Near
  <1> QED BY <1>4, <1>5, <1>6

LEMMA NearGrows ==
    ASSUME ends \in Graphs, NEW k \in 0..(MaxHops + 1), NEW j \in Int, j <= k
    PROVE  Near(j) \subseteq Near(k)
  <1>1. MaxHops \in Nat
    BY CanvasAssumption
  <1>2. CASE j < 1
    BY <1>2, NearDef
  <1>3. CASE ~(j < 1)
    <2>1. k - 1 \in 0..MaxHops /\ j - 1 \in 0..(k - 1) /\ ~(k < 1)
      BY <1>1, <1>3
    <2>2. Reach[j - 1] \subseteq Reach[k - 1]
      BY <2>1, ReachGrows
    <2> QED BY <1>3, <2>1, <2>2 DEF Near
  <1> QED BY <1>2, <1>3

(* A hop without new edges is the last. *)
LEMMA NearEnds ==
    ASSUME ends \in Graphs, NEW g \in 0..MaxHops, Near(g + 1) = Near(g)
    PROVE  \A k \in g..(MaxHops + 1) : Near(k) = Near(g)
  <1> DEFINE m == (MaxHops + 1) - g
             S == {i \in 0..m : Near(g + i) = Near(g)}
  <1>1. MaxHops \in Nat /\ m \in Nat
    BY CanvasAssumption
  <1>2. 0 \in S
    <2>1. g + 0 = g /\ 0 \in 0..m
      BY <1>1
    <2> QED BY <2>1
  <1>3. ASSUME NEW i \in 1..m, i - 1 \in S PROVE i \in S
    <2>1. i \in 0..m /\ g + (i - 1) \in 0..MaxHops /\ (g + (i - 1)) + 1 = g + i
      BY <1>1
    <2>2. Near(g + (i - 1)) = Near(g)
      BY <1>3
    <2>3. Near(g + i) = {e \in Trace : ends[e] \cap Endpoints(Near(g)) # {}}
      BY <2>1, <2>2, NearDef
    <2>4. Near(g + 1) = {e \in Trace : ends[e] \cap Endpoints(Near(g)) # {}}
      BY NearDef
    <2> QED BY <2>1, <2>3, <2>4
  <1>4. \A i \in 0..m : i \in S
    <2> HIDE DEF S, m
    <2> QED BY <1>1, <1>2, <1>3, Induction
  <1>5. ASSUME NEW k \in g..(MaxHops + 1) PROVE Near(k) = Near(g)
    <2>1. k - g \in 0..m /\ g + (k - g) = k
      BY <1>1
    <2>2. k - g \in S
      BY <1>4, <2>1
    <2>3. Near(g + (k - g)) = Near(g)
      BY <2>2
    <2> QED BY <2>1, <2>3
  <1> QED BY <1>5

(* The next hop is found from the ends of the last one: an older edge has  *)
(* nothing new at its ends.                                                *)
LEMMA FrontierIsEnough ==
    ASSUME ends \in Graphs, NEW g \in 0..MaxHops, NEW frontier,
           g = 0 => frontier = {Seed},
           g # 0 => frontier = UNION {ends[e] : e \in Near(g) \ Near(g - 1)}
    PROVE  {e \in Trace \ Near(g) : ends[e] \cap frontier # {}} = Near(g + 1) \ Near(g)
  <1>1. MaxHops \in Nat
    BY CanvasAssumption
  <1>2. Near(g + 1) = {e \in Trace : ends[e] \cap Endpoints(Near(g)) # {}}
    BY NearDef
  <1>3. CASE g = 0
    <2>1. Near(g) = {}
      BY <1>3, NearDef
    <2>2. Endpoints(Near(g)) = frontier
      BY <1>3, <2>1 DEF Endpoints
    <2> QED BY <1>2, <2>2
  <1>4. CASE g # 0
    <2>1. g - 1 \in 0..MaxHops /\ (g - 1) + 1 = g
      BY <1>1, <1>4
    <2>2. Near(g) = {e \in Trace : ends[e] \cap Endpoints(Near(g - 1)) # {}}
      BY <2>1, NearDef
    <2>3. frontier \subseteq Endpoints(Near(g))
      BY <1>4 DEF Endpoints
    <2>4. ASSUME NEW e \in Trace \ Near(g), NEW n \in ends[e], n \in Endpoints(Near(g))
          PROVE  n \in frontier
      <3>1. n \notin Endpoints(Near(g - 1))
        BY <2>2, <2>4
      <3>2. PICK f \in Near(g) : n \in ends[f]
        BY <2>4, <3>1 DEF Endpoints
      <3>3. f \notin Near(g - 1)
        BY <3>1, <3>2 DEF Endpoints
      <3> QED BY <1>4, <3>2, <3>3
    <2> QED BY <1>2, <2>3, <2>4
  <1> QED BY <1>3, <1>4

(* One round of bounded_trace. *)
Walked(f, h) ==
    LET done == f.before \cup f.last
        new == IF Cardinality(done) >= Cap THEN {}
               ELSE {e \in Trace \ done : ends[e] \cap f.frontier # {}}
    IN  IF new = {} THEN f
        ELSE [before |-> done, last |-> new,
              frontier |-> UNION {ends[e] : e \in new}, hops |-> h]

Walk == [before : SUBSET Trace, last : SUBSET Trace, frontier : SUBSET Nodes, hops : Nat]

Start == [before |-> {}, last |-> {}, frontier |-> {Seed}, hops |-> 0]

LEMMA WalkedIsWalk ==
    ASSUME ends \in Graphs, NEW f \in Walk, NEW h \in Nat
    PROVE  Walked(f, h) \in Walk
  <1> DEFINE done == f.before \cup f.last
             new == IF Cardinality(done) >= Cap THEN {}
                    ELSE {e \in Trace \ done : ends[e] \cap f.frontier # {}}
  <1>1. done \in SUBSET Trace /\ new \in SUBSET Trace
    BY DEF Walk
  <1>2. UNION {ends[e] : e \in new} \in SUBSET Nodes
    <2> HIDE DEF new
    <2> QED BY <1>1, EndsAreNodes
  <1>3. Walked(f, h) = IF new = {} THEN f
                       ELSE [before |-> done, last |-> new,
                             frontier |-> UNION {ends[e] : e \in new}, hops |-> h]
    BY DEF Walked
  <1> HIDE DEF done, new
  <1> QED BY <1>1, <1>2, <1>3 DEF Walk

LEMMA FoundDef ==
    ASSUME ends \in Graphs
    PROVE  /\ Found[0] = Start
           /\ \A h \in 1..(MaxHops + 1) : Found[h] = Walked(Found[h - 1], h)
  <1> DEFINE top == MaxHops + 1
             step == [h \in 1..top |-> [f \in Walk |-> Walked(f, h)]]
             Is(F) == F = [h \in 0..top |->
                             IF h = 0 THEN Start ELSE Walked(F[h - 1], h)]
  <1>1. top \in Nat /\ Start \in Walk
    BY CanvasAssumption DEF Start, Walk
  <1>2. step \in [1..top -> [Walk -> Walk]]
    <2>1. \A h \in 1..top : \A f \in Walk : Walked(f, h) \in Walk
      BY <1>1, WalkedIsWalk
    <2> QED BY <2>1
  <1>3. PICK f \in [0..top -> Walk] :
            f[0] = Start /\ \A h \in 1..top : f[h] = step[h][f[h - 1]]
    <2> HIDE DEF step, top
    <2>1. \E f : Iterates(f, top, Walk, Start, step)
      BY <1>1, <1>2, Recursion
    <2> QED BY <2>1 DEF Iterates
  <1>4. ASSUME NEW h \in 1..top PROVE f[h] = Walked(f[h - 1], h)
    <2>1. f[h - 1] \in Walk
      BY <1>1, <1>3
    <2> QED BY <1>3, <2>1
  <1>5. Is(f)
    <2>1. \A h \in 0..top : h # 0 => h \in 1..top
      BY <1>1
    <2> QED BY <1>3, <1>4, <2>1
  <1>6. Is(Found)
    <2>1. Found = CHOOSE F : Is(F)
      BY DEF Found, Walked, Start
    <2> HIDE DEF Is
    <2> QED BY <1>5, <2>1
  <1>7. Found[0] = Start
    <2>1. 0 \in 0..top
      BY <1>1
    <2> QED BY <1>6, <2>1
  <1>8. ASSUME NEW h \in 1..top PROVE Found[h] = Walked(Found[h - 1], h)
    <2>1. h \in 0..top /\ h # 0
      BY <1>1
    <2> QED BY <1>6, <2>1
  <1> QED BY <1>7, <1>8

(* What the walk of h hops knows: the edges of g of them, the last of      *)
(* which were not enough for the cap before; it stopped at g because h is  *)
(* g, because there is no other edge, or because the cap is full.          *)
WalkedTo(f, h, g) ==
    /\ f.before = Near(g - 1) /\ f.last = Near(g) \ Near(g - 1)
    /\ g = 0 => f.frontier = {Seed}
    /\ g # 0 => f.frontier = UNION {ends[e] : e \in Near(g) \ Near(g - 1)}
    /\ Cardinality(Near(g - 1)) < Cap
    /\ \/ g = h
       \/ \A k \in g..(MaxHops + 1) : Near(k) = Near(g)
       \/ Cardinality(Near(g)) >= Cap

LEMMA NearIsFinite ==
    ASSUME ends \in Graphs, NEW g \in Int
    PROVE  /\ Near(g) \in SUBSET Edges /\ IsFiniteSet(Near(g))
           /\ Cardinality(Near(g)) \in Nat
  <1>1. IsFiniteSet(Edges) /\ Near(g) \in SUBSET Edges
    <2>1. Near(g) \in SUBSET Trace
      BY NearDef
    <2>2. IsFiniteSet(Edges) /\ Trace \subseteq Edges
      BY CanvasAssumption
    <2> QED BY <2>1, <2>2
  <1>2. IsFiniteSet(Near(g))
    BY <1>1, FS_Subset
  <1> QED BY <1>1, <1>2, FS_CardinalityType

LEMMA FoundWalks ==
    ASSUME ends \in Graphs
    PROVE  \A h \in 0..(MaxHops + 1) : \E g \in 0..h : WalkedTo(Found[h], h, g)
  <1> DEFINE m == MaxHops + 1
             S == {h \in 0..m : \E g \in 0..h : WalkedTo(Found[h], h, g)}
  <1>1. MaxHops \in Nat /\ m \in Nat /\ Cap \in Nat \ {0}
    BY CanvasAssumption
  <1>2. 0 \in S
    <2>1. Near(0) = {} /\ Near(0 - 1) = {}
      BY NearDef
    <2>2. Cardinality({}) = 0
      BY FS_EmptySet
    <2>3. WalkedTo(Found[0], 0, 0)
      <3>1. PICK f : f = Found[0]
        OBVIOUS
      <3>2. f = Start
        BY <3>1, FoundDef
      <3>3. f.before = {} /\ f.last = {} /\ f.frontier = {Seed}
        BY <3>2 DEF Start
      <3>4. Cardinality(Near(0 - 1)) < Cap
        BY <1>1, <2>1, <2>2
      <3>5. WalkedTo(f, 0, 0)
        BY <2>1, <3>3, <3>4 DEF WalkedTo
      <3> QED BY <3>1, <3>5
    <2>4. 0 \in 0..m /\ 0 \in 0..0
      BY <1>1
    <2> QED BY <2>3, <2>4
  <1>3. ASSUME NEW h \in 1..m, h - 1 \in S PROVE h \in S
    <2>1. PICK g \in 0..(h - 1) : WalkedTo(Found[h - 1], h - 1, g)
      BY <1>3
    <2>2. h \in 0..m /\ g \in 0..h /\ g \in 0..MaxHops /\ g \in Nat /\ h \in Nat
      BY <1>1
    <2>3. PICK f : f = Found[h - 1]
      OBVIOUS
    <2>4. WalkedTo(f, h - 1, g) /\ Found[h] = Walked(f, h)
      BY <2>1, <2>3, FoundDef
    <2> DEFINE new == IF Cardinality(Near(g)) >= Cap THEN {} ELSE Near(g + 1) \ Near(g)
    <2>5. f.before \cup f.last = Near(g)
      <3>1. Near(g - 1) \subseteq Near(g)
        BY <1>1, <2>2, NearGrows
      <3> QED BY <2>4, <3>1 DEF WalkedTo
    <2>6. {e \in Trace \ Near(g) : ends[e] \cap f.frontier # {}} = Near(g + 1) \ Near(g)
      BY <2>2, <2>4, FrontierIsEnough DEF WalkedTo
    <2>7. Found[h] = IF new = {} THEN f
                     ELSE [before |-> Near(g), last |-> new,
                           frontier |-> UNION {ends[e] : e \in new}, hops |-> h]
      BY <2>4, <2>5, <2>6 DEF Walked
    <2>8. Near(g) \subseteq Near(g + 1)
      <3>1. g + 1 \in 0..(MaxHops + 1) /\ g <= g + 1 /\ g \in Int
        BY <1>1, <2>2
      <3> QED BY <3>1, NearGrows
    <2>9. CASE Cardinality(Near(g)) >= Cap
      <3>1. Found[h] = f
        BY <2>7, <2>9
      <3>2. WalkedTo(f, h, g)
        BY <2>4, <2>9 DEF WalkedTo
      <3> QED BY <2>2, <3>1, <3>2
    <2>10. CASE Cardinality(Near(g)) < Cap /\ Near(g + 1) = Near(g)
      <3>1. ~(Cardinality(Near(g)) >= Cap)
        BY <1>1, <2>2, <2>10, NearIsFinite
      <3>2. Found[h] = f
        BY <2>7, <2>10, <3>1
      <3>3. \A k \in g..(MaxHops + 1) : Near(k) = Near(g)
        BY <2>2, <2>10, NearEnds
      <3>4. WalkedTo(f, h, g)
        BY <2>4, <3>3 DEF WalkedTo
      <3> QED BY <2>2, <3>2, <3>4
    <2>11. CASE Cardinality(Near(g)) < Cap /\ Near(g + 1) # Near(g)
      <3>1. ~(Cardinality(Near(g)) >= Cap)
        BY <1>1, <2>2, <2>11, NearIsFinite
      <3>2. g = h - 1
        <4>1. (g + 1) \in g..(MaxHops + 1)
          BY <1>1, <2>2
        <4> QED BY <2>4, <2>11, <3>1, <4>1 DEF WalkedTo
      <3>3. h = g + 1 /\ h - 1 = g /\ h # 0 /\ h \in 0..h
        BY <2>2, <3>2
      <3>4. new = Near(h) \ Near(h - 1) /\ new # {}
        BY <2>8, <2>11, <3>1, <3>3
      <3> HIDE DEF new
      <3>5. /\ Found[h].before = Near(h - 1) /\ Found[h].last = Near(h) \ Near(h - 1)
            /\ Found[h].frontier = UNION {ends[e] : e \in Near(h) \ Near(h - 1)}
        BY <2>7, <3>3, <3>4
      <3>6. WalkedTo(Found[h], h, h)
        BY <2>11, <3>3, <3>5 DEF WalkedTo
      <3> QED BY <2>2, <3>3, <3>6
    <2>12. Cardinality(Near(g)) \in Nat
      BY <2>2, NearIsFinite
    <2> QED BY <1>1, <2>8, <2>9, <2>10, <2>11, <2>12
  <1>4. \A h \in 0..m : h \in S
    <2> HIDE DEF S, m
    <2> QED BY <1>1, <1>2, <1>3, Induction
  <1> QED BY <1>4

(* The hop of an edge tells which sets have it. *)
LEMMA HopOfNear ==
    ASSUME ends \in Graphs, NEW h \in 1..(MaxHops + 1), NEW e \in Near(h)
    PROVE  /\ HopOf(e) \in Nat
           /\ \A g \in 0..(MaxHops + 1) : HopOf(e) <= g <=> e \in Near(g)
  <1>1. MaxHops \in Nat /\ h \in Nat /\ ~(h < 1)
    BY CanvasAssumption
  <1> DEFINE T == {d \in 0..MaxHops : ends[e] \cap Reach[d] # {}}
             IsHop(d) == /\ ends[e] \cap Reach[d] # {}
                         /\ \A c \in 0..(d - 1) : ends[e] \cap Reach[c] = {}
  <1>2. T \in SUBSET Nat /\ T # {}
    <2>1. h - 1 \in 0..MaxHops /\ ends[e] \cap Reach[h - 1] # {}
      BY <1>1 DEF Near
    <2> QED BY <2>1
  <1>3. PICK d \in T : \A k \in T : d <= k
    <2> HIDE DEF T
    <2> QED BY <1>2, SmallestNat
  <1>4. d \in 0..MaxHops /\ IsHop(d)
    <2>1. ASSUME NEW c \in 0..(d - 1), ends[e] \cap Reach[c] # {} PROVE FALSE
      <3>1. c \in 0..MaxHops /\ ~(d <= c)
        BY <1>1, <1>3
      <3>2. c \in T
        BY <2>1, <3>1
      <3> QED BY <1>3, <3>1, <3>2
    <2> QED BY <1>3, <2>1
  <1>5. PICK x : x = CHOOSE k \in 0..MaxHops : IsHop(k)
    OBVIOUS
  <1>6. x \in 0..MaxHops /\ IsHop(x)
    <2> HIDE DEF IsHop
    <2> QED BY <1>4, <1>5
  <1>7. HopOf(e) = 1 + x
    BY <1>5 DEF HopOf
  <1>8. ASSUME NEW g \in 0..(MaxHops + 1) PROVE 1 + x <= g <=> e \in Near(g)
    <2>1. CASE g < 1
      <3>1. Near(g) = {} /\ ~(1 + x <= g)
        BY <1>1, <1>6, <2>1, NearDef
      <3> QED BY <3>1
    <2>2. CASE ~(g < 1)
      <3>1. g - 1 \in 0..MaxHops
        BY <1>1, <2>2
      <3>2. e \in Trace
        BY DEF Near
      <3>3. e \in Near(g) <=> ends[e] \cap Reach[g - 1] # {}
        BY <2>2, <3>2 DEF Near
      <3>4. CASE x <= g - 1
        <4>1. x \in 0..(g - 1) /\ 1 + x <= g
          BY <1>1, <1>6, <3>1, <3>4
        <4>2. Reach[x] \subseteq Reach[g - 1]
          BY <3>1, <4>1, ReachGrows
        <4> QED BY <1>6, <3>3, <4>1, <4>2
      <3>5. CASE ~(x <= g - 1)
        <4>1. g - 1 \in 0..(x - 1) /\ ~(1 + x <= g)
          BY <1>1, <1>6, <3>1, <3>5
        <4> QED BY <1>6, <3>3, <4>1
      <3> QED BY <3>4, <3>5
    <2> QED BY <2>1, <2>2
  <1> QED BY <1>1, <1>6, <1>7, <1>8

LEMMA IdsOrder ==
    ASSUME NEW S \in SUBSET Edges, NEW k \in Nat, NEW F,
           F = {e \in S : Cardinality({g \in S : g < e}) < k}
    PROVE  /\ F \in SUBSET S /\ IsFiniteSet(S) /\ IsFiniteSet(F)
           /\ Cardinality(F) = Least(k, Cardinality(S))
  <1> DEFINE R == {p \in Edges \X Edges : p[1] < p[2]}
  <1>1. IsFiniteSet(Edges) /\ \A e \in S : e \in Edges /\ e \in Nat
    BY CanvasAssumption
  <1>2. IsFiniteSet(S)
    BY <1>1, FS_Subset
  <1>3. \A e, f \in S : <<e, f>> \in R <=> e < f
    BY <1>1
  <1> HIDE DEF R
  <1>4. Ordered(R, S)
    <2>1. \A e \in S : ~(e < e)
      BY <1>1
    <2>2. \A e, f \in S : e # f => e < f \/ f < e
      BY <1>1
    <2>3. \A e, f, g \in S : e < f /\ f < g => e < g
      BY <1>1
    <2> QED BY <1>3, <2>1, <2>2, <2>3 DEF Ordered
  <1>5. F = First(R, S, k)
    <2>1. ASSUME NEW e \in S PROVE {g \in S : g < e} = {g \in S : <<g, e>> \in R}
      BY <1>3
    <2> QED BY <2>1 DEF First
  <1>6. /\ First(R, S, k) \in SUBSET S /\ IsFiniteSet(First(R, S, k))
        /\ Cardinality(First(R, S, k)) = Least(k, Cardinality(S))
    BY <1>2, <1>4, FirstCount
  <1> QED BY <1>2, <1>5, <1>6

(* TraceFollowsHops: whatever the graph, the trace of the agent            *)
(* (bounded_trace) and the canvas (CanvasService) walk it alike: within h  *)
(* hops the trace has every edge that starts less than h hops from the     *)
(* seed, or as many of them as the cap allows, none of which starts        *)
(* further from the seed than one left out.                                *)
THEOREM CanvasTraceFollowsHops == Spec => []TraceFollowsHops
  <1>1. IInv => TraceFollowsHops
    <2> SUFFICES ASSUME IInv, NEW h \in 1..(MaxHops + 1),
                        NEW near, near = {e \in Trace : ends[e] \cap Reach[h - 1] # {}},
                        NEW trace, trace = BoundedTrace(h)
                 PROVE  /\ trace \subseteq near
                        /\ trace = near \/ Cardinality(trace) = Cap
                        /\ \A e \in trace, f \in near \ trace : HopOf(e) <= HopOf(f)
      BY DEF TraceFollowsHops
    <2>0. ends \in Graphs /\ MaxHops \in Nat /\ Cap \in Nat \ {0} /\ h \in Nat
      BY CanvasAssumption DEF IInv
    <2>1. near = Near(h)
      BY <2>0 DEF Near
    <2>2. PICK g \in 0..h : WalkedTo(Found[h], h, g)
      <3>1. h \in 0..(MaxHops + 1)
        BY <2>0
      <3> QED BY <2>0, <3>1, FoundWalks
    <2>3. g \in 0..(MaxHops + 1) /\ g \in Int /\ g - 1 \in Int /\ g - 1 <= g /\ g <= h
          /\ h \in 0..(MaxHops + 1)
      BY <2>0
    <2>4. Near(g - 1) \subseteq Near(g) /\ Near(g) \subseteq Near(h)
      BY <2>0, <2>3, NearGrows
    <2> DEFINE B == Near(g - 1)
               L == Near(g) \ Near(g - 1)
               k == Cap - Cardinality(B)
               F == {e \in L : Cardinality({x \in L : x < e}) < k}
    <2>5. trace = B \cup F
      BY <2>2 DEF WalkedTo, BoundedTrace
    <2>6. /\ B \in SUBSET Edges /\ IsFiniteSet(B) /\ Cardinality(B) \in Nat
          /\ Near(g) \in SUBSET Edges /\ IsFiniteSet(Near(g)) /\ Cardinality(Near(g)) \in Nat
      BY <2>0, <2>3, NearIsFinite
    <2>7. L \in SUBSET Edges /\ B \cap L = {} /\ B \cup L = Near(g) /\ k \in Nat
      BY <2>0, <2>2, <2>4, <2>6 DEF WalkedTo
    <2> HIDE DEF B, L, k
    <2>8. /\ F \in SUBSET L /\ IsFiniteSet(L) /\ IsFiniteSet(F)
          /\ Cardinality(F) = Least(k, Cardinality(L))
      BY <2>7, IdsOrder
    <2> HIDE DEF F
    <2>9. Cardinality(L) \in Nat /\ Cardinality(F) \in Nat
      BY <2>8, FS_CardinalityType
    <2>10. /\ Cardinality(Near(g)) = Cardinality(B) + Cardinality(L)
           /\ Cardinality(trace) = Cardinality(B) + Cardinality(F)
      <3>1. Cardinality({}) = 0
        BY FS_EmptySet
      <3>2. Cardinality(B \cup L) = Cardinality(B) + Cardinality(L) - Cardinality(B \cap L)
        BY <2>6, <2>8, FS_Union
      <3>3. Cardinality(B \cup F) = Cardinality(B) + Cardinality(F) - Cardinality(B \cap F)
        BY <2>6, <2>8, FS_Union
      <3>4. Cardinality(B \cap L) = 0 /\ Cardinality(B \cap F) = 0
        <4>1. B \cap L = {} /\ B \cap F = {}
          BY <2>7, <2>8
        <4> QED BY <3>1, <4>1
      <3>5. /\ Cardinality(B \cup L) = Cardinality(B) + Cardinality(L)
            /\ Cardinality(B \cup F) = Cardinality(B) + Cardinality(F)
        BY <2>6, <2>9, <3>2, <3>3, <3>4
      <3> QED BY <2>5, <2>7, <3>5
    <2>11. trace \subseteq Near(g) /\ trace \subseteq near
      BY <2>1, <2>4, <2>5, <2>7, <2>8
    <2>12. trace = near \/ Cardinality(trace) = Cap
      <3>1. CASE Cardinality(Near(g)) >= Cap
        <4>1. Cardinality(F) = k
          BY <2>0, <2>6, <2>8, <2>9, <2>10, <3>1 DEF Least, k
        <4> QED BY <2>0, <2>6, <2>10, <4>1 DEF k
      <3>2. CASE ~(Cardinality(Near(g)) >= Cap)
        <4>1. Near(h) = Near(g)
          <5>1. h \in g..(MaxHops + 1)
            BY <2>0, <2>3
          <5> QED BY <2>2, <3>2, <5>1 DEF WalkedTo
        <4>2. Cardinality(F) = Cardinality(L)
          BY <2>0, <2>6, <2>8, <2>9, <2>10, <3>2 DEF Least, k
        <4>3. F = L
          BY <2>8, <4>2, FS_Subset
        <4> QED BY <2>1, <2>5, <2>7, <4>1, <4>3
      <3> QED BY <3>1, <3>2
    <2>13. ASSUME NEW e \in trace, NEW f \in near \ trace PROVE HopOf(e) <= HopOf(f)
      <3>1. e \in Near(h) /\ f \in Near(h)
        BY <2>1, <2>11
      <3>2. /\ HopOf(e) \in Nat /\ HopOf(f) \in Nat
            /\ HopOf(e) <= g <=> e \in Near(g)
            /\ \A j \in 0..(MaxHops + 1) : HopOf(f) <= j <=> f \in Near(j)
        BY <2>0, <2>3, <3>1, HopOfNear
      <3>3. HopOf(e) <= g
        BY <2>11, <3>2
      <3>4. CASE g - 1 \in 0..(MaxHops + 1)
        <4>1. f \notin Near(g - 1)
          BY <2>5, <2>13 DEF B
        <4>2. ~(HopOf(f) <= g - 1)
          BY <3>2, <3>4, <4>1
        <4> QED BY <2>3, <3>2, <3>3, <4>2
      <3>5. CASE g - 1 \notin 0..(MaxHops + 1)
        <4>1. g = 0
          BY <2>0, <2>3, <3>5
        <4> QED BY <3>2, <3>3, <4>1
      <3> QED BY <3>4, <3>5
    <2> QED BY <2>11, <2>12, <2>13
  <1> QED BY <1>1, CanvasInv, PTL

=============================================================================
