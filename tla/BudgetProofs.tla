---------------------------- MODULE BudgetProofs ----------------------------
(***************************************************************************)
(* Theorems of Budget, for any number of threads, cases and months, any    *)
(* caps, and any bounds on attempts and restarts.                          *)
(***************************************************************************)
EXTENDS Budget, FunctionTheorems, FiniteSetTheorems, TLAPS

-----------------------------------------------------------------------------
(* Total is a sum: it is a natural number, monotone, and grows by the new  *)
(* value when a function on 1..n is extended to n + 1.                     *)

LEMMA UnitsFinite ==
    ASSUME NEW n \in Nat, NEW f \in [1..n -> Nat]
    PROVE  IsFiniteSet(Units(f)) /\ Total(f) \in Nat
  <1> DEFINE Block(i) == {i} \X (1..f[i])
             Blocks == {Block(i) : i \in 1..n}
             g == [i \in 1..n |-> Block(i)]
  <1>1. IsFiniteSet(Blocks)
    <2>1. g \in Surjection(1..n, Blocks)
      BY DEF Surjection
    <2>2. IsFiniteSet(1..n)
      BY FS_Interval
    <2> HIDE DEF g, Blocks
    <2> QED BY <2>1, <2>2, FS_Surjection
  <1>2. \A T \in Blocks : IsFiniteSet(T)
    <2> SUFFICES ASSUME NEW i \in 1..n PROVE IsFiniteSet(Block(i))
      OBVIOUS
    <2> DEFINE R == 1..f[i]
    <2>0. IsFiniteSet({i})
      BY FS_Singleton
    <2>1. IsFiniteSet({i}) /\ IsFiniteSet(R)
      <3>1. 1 \in Int /\ f[i] \in Int
        OBVIOUS
      <3> QED BY <2>0, <3>1, FS_Interval
    <2> HIDE DEF R
    <2>2. IsFiniteSet({i} \X R)
      BY <2>1, FS_Product
    <2> QED BY <2>2 DEF R
  <1>3. Units(f) = UNION Blocks
    BY DEF Units
  <1>4. IsFiniteSet(Units(f))
    <2> HIDE DEF Blocks
    <2> QED BY <1>1, <1>2, <1>3, FS_UNION
  <1> QED BY <1>4, FS_CardinalityType DEF Total

LEMMA TotalMonotone ==
    ASSUME NEW n \in Nat, NEW f \in [1..n -> Nat], NEW g \in [1..n -> Nat],
           \A i \in 1..n : f[i] <= g[i]
    PROVE  Total(f) <= Total(g)
  <1>1. Units(f) \subseteq Units(g)
    BY DEF Units
  <1>2. IsFiniteSet(Units(g))
    BY UnitsFinite
  <1> QED BY <1>1, <1>2, FS_Subset DEF Total

LEMMA TotalAppend ==
    ASSUME NEW n \in Nat, NEW f \in [1..n -> Nat], NEW g \in [1..(n+1) -> Nat],
           \A i \in 1..n : g[i] = f[i]
    PROVE  Total(g) = Total(f) + g[n+1]
  <1> DEFINE new == {n+1} \X (1..g[n+1])
  <1>1. Units(g) = Units(f) \cup new
    BY DEF Units
  <1>2. Units(f) \cap new = {}
    BY DEF Units
  <1>3. IsFiniteSet(Units(f)) /\ Total(f) \in Nat
    BY UnitsFinite
  <1>4. IsFiniteSet(new) /\ Cardinality(new) = g[n+1]
    <2>1. g[n+1] \in Nat
      OBVIOUS
    <2> DEFINE R == 1..g[n+1]
    <2>2. IsFiniteSet(R) /\ Cardinality(R) = g[n+1]
      BY <2>1, FS_Interval
    <2>3. IsFiniteSet({n+1}) /\ Cardinality({n+1}) = 1
      BY FS_Singleton
    <2> HIDE DEF R
    <2>4. /\ IsFiniteSet({n+1} \X R)
          /\ Cardinality({n+1} \X R) = Cardinality({n+1}) * Cardinality(R)
      BY <2>2, <2>3, FS_Product
    <2>5. Cardinality({n+1} \X R) = g[n+1]
      BY <2>1, <2>2, <2>3, <2>4
    <2> QED BY <2>4, <2>5 DEF R
  <1> HIDE DEF new
  <1>5. Cardinality(Units(f) \cup new) = Cardinality(Units(f)) + Cardinality(new) - 0
    BY <1>2, <1>3, <1>4, FS_Union, FS_EmptySet
  <1> QED BY <1>1, <1>3, <1>4, <1>5 DEF Total

LEMMA TotalEmpty ==
    ASSUME NEW f, DOMAIN f = {}
    PROVE  Total(f) = 0
  BY FS_EmptySet DEF Total, Units

(* A sum is within the sum of its parts: the units of f that g does not    *)
(* have are units of h, moved up by what g has.                            *)
LEMMA TotalSum ==
    ASSUME NEW n \in Nat, NEW f \in [1..n -> Nat], NEW g \in [1..n -> Nat],
           NEW h \in [1..n -> Nat], \A i \in 1..n : f[i] <= g[i] + h[i]
    PROVE  Total(f) <= Total(g) + Total(h)
  <1> DEFINE F == Units(f)
             G == Units(g)
             H == Units(h)
             s == [u \in H |-> << u[1], u[2] + g[u[1]] >>]
             T == {s[u] : u \in H}
  <1>1. IsFiniteSet(F) /\ IsFiniteSet(G) /\ IsFiniteSet(H)
    BY UnitsFinite
  <1>2. s \in Surjection(H, T)
    BY DEF Surjection
  <1>3. F \subseteq G \cup T
    <2> SUFFICES ASSUME NEW x \in F PROVE x \in G \cup T
      OBVIOUS
    <2>0. PICK i \in 1..n : x \in {i} \X (1..f[i])
      BY DEF Units
    <2>1. PICK k \in 1..f[i] : x = << i, k >>
      BY <2>0
    <2>2. CASE k <= g[i]
      <3>1. k \in 1..g[i]
        BY <2>2
      <3> QED BY <2>1, <3>1 DEF Units
    <2>3. CASE ~ (k <= g[i])
      <3>1. k - g[i] \in 1..h[i]
        BY <2>3
      <3>2. << i, k - g[i] >> \in H
        BY <3>1 DEF Units
      <3>3. PICK u \in H : u = << i, k - g[i] >>
        BY <3>2
      <3>4. u[1] = i /\ u[2] = k - g[i] /\ s[u] = << u[1], u[2] + g[u[1]] >>
        BY <3>3
      <3>5. (k - g[i]) + g[i] = k
        BY <2>1
      <3>6. s[u] = << i, k >>
        BY <3>4, <3>5
      <3>7. s[u] \in T
        BY <3>3
      <3> QED BY <2>1, <3>6, <3>7
    <2> QED BY <2>2, <2>3
  <1> HIDE DEF F, G, H, s, T
  <1>4. IsFiniteSet(T) /\ Cardinality(T) <= Cardinality(H)
    BY <1>1, <1>2, FS_Surjection
  <1>5. /\ IsFiniteSet(G \cup T)
        /\ Cardinality(G \cup T) = Cardinality(G) + Cardinality(T) - Cardinality(G \cap T)
    BY <1>1, <1>4, FS_Union
  <1>6. IsFiniteSet(G \cap T)
    <2>1. G \cap T \subseteq G
      OBVIOUS
    <2> QED BY <2>1, <1>1, FS_Subset
  <1>7. Cardinality(F) <= Cardinality(G \cup T)
    BY <1>3, <1>5, FS_Subset
  <1>8. /\ Cardinality(F) \in Nat /\ Cardinality(G) \in Nat /\ Cardinality(H) \in Nat
        /\ Cardinality(T) \in Nat /\ Cardinality(G \cap T) \in Nat
        /\ Cardinality(G \cup T) \in Nat
    BY <1>1, <1>4, <1>5, <1>6, FS_CardinalityType
  <1> QED BY <1>4, <1>5, <1>7, <1>8 DEF Total, F, G, H

(* A sum has room for those of its values that come first and one more.    *)
LEMMA TotalPrefix ==
    ASSUME NEW n \in Nat, NEW f \in [1..n -> Nat], NEW i \in 1..n,
           NEW g \in [1..(i - 1) -> Nat], \A j \in 1..(i - 1) : g[j] = f[j]
    PROVE  Total(g) + f[i] <= Total(f)
  <1> DEFINE k == i - 1
             h == [j \in 1..(k + 1) |-> f[j]]
  <1>1. k \in Nat /\ k + 1 = i /\ \A j \in 1..(k + 1) : j \in 1..n
    OBVIOUS
  <1>2. /\ h \in [1..(k + 1) -> Nat] /\ h[k + 1] = f[i]
        /\ g \in [1..k -> Nat] /\ \A j \in 1..k : h[j] = g[j]
        /\ f[i] \in Nat
    <2>1. k + 1 \in 1..(k + 1) /\ \A j \in 1..k : j \in 1..(k + 1)
      BY <1>1
    <2> QED BY <1>1, <2>1
  <1>3. Units(h) \subseteq Units(f)
    BY <1>1 DEF Units
  <1> HIDE DEF k, h
  <1>4. Total(h) = Total(g) + h[k + 1]
    BY <1>1, <1>2, TotalAppend
  <1>5. Total(h) <= Total(f)
    <2>1. IsFiniteSet(Units(f))
      BY UnitsFinite
    <2> QED BY <1>3, <2>1, FS_Subset DEF Total
  <1> QED BY <1>2, <1>4, <1>5

(* The cost formula is a natural number. *)
LEMMA CostNat ==
    ASSUME NEW i \in Nat, NEW o \in Nat
    PROVE  Cost(i, o) \in Nat
  BY DEF Cost

-----------------------------------------------------------------------------
Pending == {"RESERVED", "DISPATCHED"}

(* What an attempt's fields owe to each other, and its bill to them. *)
AttemptsWell ==
    \A i \in Ids : LET a == attempts[i]
                   IN  /\ a.resIn >= 1 /\ a.resOut >= 1
                       /\ a.resVnd = Cost(a.resIn, a.resOut)
                       /\ a.status \in {"RESERVED", "RELEASED"} => bills[i] = 0
                       /\ a.status = "RECONCILED" => /\ bills[i] <= a.actVnd
                                                     /\ a.actVnd <= a.resVnd \/ a.actVnd <= bills[i]

(* What an attempt holds, up to its reservation. *)
Least(x, y) == IF x <= y THEN x ELSE y
WithinVnd(m) == [i \in Ids |-> LET a == attempts[i]
                               IN  IF a.month = m THEN Least(Held(a, a.resVnd, a.actVnd), a.resVnd)
                                   ELSE 0]

(* The caps, as reserve keeps them: without what reports add, and with all *)
(* the output that was left.                                               *)
ReservedWithinCaps ==
    /\ \A c \in Cases : CallsOf(c) <= MaxCalls
    /\ \A i \in Ids : /\ Total(InBefore(i)) + attempts[i].resIn <= MaxInput
                      /\ Total(OutBefore(i)) + attempts[i].resOut = MaxOutput
    /\ \A m \in Months : Total(WithinVnd(m)) <= MonthlyCap

(* While a call of a case is pending, the case has no output tokens left   *)
(* and no later call.                                                      *)
PendingTakesAll ==
    \A c \in Cases : \A i \in Ids :
        attempts[i].case = c /\ attempts[i].status \in Pending =>
            Total(HeldOut(c)) = MaxOutput

PendingIsLast ==
    \A i, j \in Ids : i < j /\ attempts[i].case = attempts[j].case =>
                         attempts[i].status \notin Pending

(* What a thread knows at each step. *)
ThreadsWell ==
    \A t \in Threads :
        /\ pc[t] # "idle" => request[t] \in Request
        /\ pc[t] \in {"idle", "reserve"} => token[t] = 0
        /\ pc[t] = "replied" /\ reply[t].kind = "usage" =>
              /\ reply[t].in \in Nat \ {0} /\ reply[t].out \in Nat \ {0}
              /\ bills[token[t]] = Cost(reply[t].in, reply[t].out)

(* A charge above the reservation is reconciled or about to be. *)
BillsKnown ==
    \A i \in Ids : attempts[i].status = "DISPATCHED" /\ ~ (bills[i] <= attempts[i].resVnd) =>
        \E t \in Threads : token[t] = i /\ pc[t] = "replied" /\ reply[t].kind = "usage"

ForgottenBounded ==
    \A m \in Months : forgotten[m] <= restarts * MonthlyCap + forgottenAbove[m]

(* The parts of the invariant that speak of attempts and bills only, and   *)
(* those that speak of the threads.                                        *)
LedgerInv == ReservedWithinCaps /\ AttemptsWell /\ PendingTakesAll /\ PendingIsLast
ThreadInv == TypeOK /\ TokensValid /\ ThreadsWell /\ BillsKnown /\ ForgottenBounded

IInv == LedgerInv /\ ThreadInv

-----------------------------------------------------------------------------
(* The sums of the controller are sums of functions into Nat. *)
LEMMA AttemptFields ==
    ASSUME NEW a \in Attempt
    PROVE  /\ a.case \in Cases /\ a.month \in Months /\ a.status \in Statuses
           /\ a.resIn \in Nat /\ a.resOut \in Nat /\ a.resVnd \in Nat
           /\ a.actIn \in Nat /\ a.actOut \in Nat /\ a.actVnd \in Nat
  BY DEF Attempt

LEMMA HeldTypes ==
    ASSUME attempts \in Seq(Attempt)
    PROVE  /\ Len(attempts) \in Nat
           /\ \A c : HeldIn(c) \in [Ids -> Nat] /\ HeldOut(c) \in [Ids -> Nat]
           /\ \A m : HeldVnd(m) \in [Ids -> Nat] /\ WithinVnd(m) \in [Ids -> Nat]
  <1>1. \A i \in Ids : attempts[i] \in Attempt
    BY DEF Ids
  <1>2. ASSUME NEW i \in Ids
        PROVE  LET a == attempts[i]
               IN  /\ Held(a, a.resIn, a.actIn) \in Nat
                   /\ Held(a, a.resOut, a.actOut) \in Nat
                   /\ Held(a, a.resVnd, a.actVnd) \in Nat
                   /\ Least(Held(a, a.resVnd, a.actVnd), a.resVnd) \in Nat
    BY <1>1, AttemptFields DEF Held, Least
  <1> QED BY <1>2 DEF HeldIn, HeldOut, HeldVnd, WithinVnd

LEMMA TotalTypes ==
    ASSUME attempts \in Seq(Attempt)
    PROVE  /\ \A c : Total(HeldIn(c)) \in Nat /\ Total(HeldOut(c)) \in Nat
           /\ \A m : Total(HeldVnd(m)) \in Nat /\ Total(WithinVnd(m)) \in Nat
  <1>1. Len(attempts) \in Nat
    BY HeldTypes
  <1>2. ASSUME NEW c PROVE Total(HeldIn(c)) \in Nat /\ Total(HeldOut(c)) \in Nat
    BY <1>1, HeldTypes, UnitsFinite DEF Ids
  <1>3. ASSUME NEW m PROVE Total(HeldVnd(m)) \in Nat /\ Total(WithinVnd(m)) \in Nat
    BY <1>1, HeldTypes, UnitsFinite DEF Ids
  <1> QED BY <1>2, <1>3

LEMMA CallsTypes ==
    ASSUME attempts \in Seq(Attempt), NEW c
    PROVE  /\ IsFiniteSet({i \in Ids : attempts[i].case = c /\ attempts[i].status # "RELEASED"})
           /\ CallsOf(c) \in Nat
  <1> DEFINE S == {i \in Ids : attempts[i].case = c /\ attempts[i].status # "RELEASED"}
  <1>1. IsFiniteSet(Ids)
    <2>1. 1 \in Int /\ Len(attempts) \in Int
      OBVIOUS
    <2> QED BY <2>1, FS_Interval DEF Ids
  <1>2. S \in SUBSET Ids
    OBVIOUS
  <1> HIDE DEF S
  <1>3. IsFiniteSet(S)
    BY <1>1, <1>2, FS_Subset
  <1>4. Cardinality(S) \in Nat
    BY <1>3, FS_CardinalityType
  <1> QED BY <1>3, <1>4 DEF S, CallsOf

(* Settling, releasing or dispatching a pending attempt keeps the caps: no *)
(* later attempt of its case counts it, and up to its reservation it holds *)
(* no more than before.                                                    *)
LEMMA UpdateKeepsCaps ==
    ASSUME TypeOK, LedgerInv, NEW n \in Ids, NEW b \in Attempt,
           attempts' = [attempts EXCEPT ![n] = b],
           attempts[n].status \in Pending,
           b.case = attempts[n].case, b.month = attempts[n].month,
           b.resIn = attempts[n].resIn, b.resOut = attempts[n].resOut,
           b.resVnd = attempts[n].resVnd
    PROVE  /\ ReservedWithinCaps'
           /\ \A c : c # b.case => HeldOut(c)' = HeldOut(c)
           /\ b.status \in Pending => \A c : HeldOut(c)' = HeldOut(c)
  <1> DEFINE a == attempts[n]
  <1>1. /\ attempts' \in Seq(Attempt) /\ Len(attempts') = Len(attempts) /\ Ids' = Ids
        /\ Len(attempts) \in Nat /\ Ids = 1..Len(attempts)
        /\ attempts'[n] = b
        /\ \A i \in Ids : i # n => attempts'[i] = attempts[i]
        /\ \A i \in Ids : attempts[i] \in Attempt /\ attempts'[i] \in Attempt
    BY DEF TypeOK, Ids
  <1>2. \A i \in Ids : /\ attempts'[i].case = attempts[i].case
                       /\ attempts'[i].resIn = attempts[i].resIn
                       /\ attempts'[i].resOut = attempts[i].resOut
    BY <1>1
  <1>3. ASSUME NEW i \in Ids
        PROVE  InBefore(i)' = InBefore(i) /\ OutBefore(i)' = OutBefore(i)
    <2>1. \A j \in 1..(i - 1) : j \in Ids /\ j < i
      BY <1>1
    <2>2. \A j \in 1..(i - 1) : attempts[j].case = attempts[i].case => attempts'[j] = attempts[j]
      BY <1>1, <2>1 DEF LedgerInv, PendingIsLast
    <2> QED BY <1>2, <2>1, <2>2 DEF InBefore, OutBefore
  <1>4. ASSUME NEW m
        PROVE  Total(WithinVnd(m)') <= Total(WithinVnd(m))
    <2>1. WithinVnd(m) \in [Ids -> Nat]
      BY HeldTypes DEF TypeOK
    <2>2. \A i \in Ids : LET d == attempts'[i]
                         IN  Least(Held(d, d.resVnd, d.actVnd), d.resVnd) \in Nat
      BY <1>1, AttemptFields DEF Held, Least
    <2>3. WithinVnd(m)' \in [Ids -> Nat]
      BY <1>1, <2>2 DEF WithinVnd
    <2>4. /\ Least(Held(a, a.resVnd, a.actVnd), a.resVnd) = a.resVnd
          /\ Least(Held(b, b.resVnd, b.actVnd), b.resVnd) <= a.resVnd
      BY <1>1, AttemptFields DEF Held, Least, Pending
    <2>5. \A i \in Ids : WithinVnd(m)'[i] <= WithinVnd(m)[i]
      <3> SUFFICES ASSUME NEW i \in Ids PROVE WithinVnd(m)'[i] <= WithinVnd(m)[i]
        OBVIOUS
      <3>1. CASE i = n
        BY <1>1, <2>4, <3>1 DEF WithinVnd
      <3>2. CASE i # n
        <4>1. WithinVnd(m)'[i] = WithinVnd(m)[i]
          BY <1>1, <3>2 DEF WithinVnd
        <4> QED BY <4>1, <2>1
      <3> QED BY <3>1, <3>2
    <2> QED BY <1>1, <2>1, <2>3, <2>5, TotalMonotone
  <1>5. ASSUME NEW c
        PROVE  CallsOf(c)' <= CallsOf(c) /\ CallsOf(c)' \in Nat /\ CallsOf(c) \in Nat
    <2> DEFINE S == {i \in Ids : attempts[i].case = c /\ attempts[i].status # "RELEASED"}
               T == {i \in Ids : attempts'[i].case = c /\ attempts'[i].status # "RELEASED"}
    <2>1. T \in SUBSET S
      BY <1>1 DEF Pending
    <2>2. IsFiniteSet(S) /\ CallsOf(c) \in Nat
      BY CallsTypes DEF TypeOK
    <2>3. CallsOf(c) = Cardinality(S) /\ CallsOf(c)' = Cardinality(T)
      BY <1>1 DEF CallsOf
    <2> HIDE DEF S, T
    <2>4. IsFiniteSet(T) /\ Cardinality(T) <= Cardinality(S)
      BY <2>1, <2>2, FS_Subset
    <2>5. Cardinality(T) \in Nat
      BY <2>4, FS_CardinalityType
    <2> QED BY <2>2, <2>3, <2>4, <2>5
  <1>6. ReservedWithinCaps'
    <2>1. \A c \in Cases : CallsOf(c)' <= MaxCalls
      BY <1>5, BudgetAssumption DEF LedgerInv, ReservedWithinCaps
    <2>2. \A i \in Ids : /\ Total(InBefore(i)') + attempts'[i].resIn <= MaxInput
                         /\ Total(OutBefore(i)') + attempts'[i].resOut = MaxOutput
      BY <1>2, <1>3 DEF LedgerInv, ReservedWithinCaps
    <2>3. ASSUME NEW m \in Months
          PROVE  Total(WithinVnd(m)') <= MonthlyCap
      <3>1. Total(WithinVnd(m)) \in Nat /\ Total(WithinVnd(m)) <= MonthlyCap
        BY TotalTypes DEF TypeOK, LedgerInv, ReservedWithinCaps
      <3>2. Total(WithinVnd(m)') \in Nat
        <4>1. \A i \in Ids : LET d == attempts'[i]
                             IN  Least(Held(d, d.resVnd, d.actVnd), d.resVnd) \in Nat
          BY <1>1, AttemptFields DEF Held, Least
        <4>2. WithinVnd(m)' \in [1..Len(attempts) -> Nat]
          BY <1>1, <4>1 DEF WithinVnd
        <4> QED BY <1>1, <4>2, UnitsFinite
      <3> QED BY <3>1, <3>2, <1>4, BudgetAssumption
    <2> QED BY <1>1, <2>1, <2>2, <2>3 DEF ReservedWithinCaps
  <1>7. ASSUME NEW c, c # b.case
        PROVE  HeldOut(c)' = HeldOut(c)
    BY <1>1, <1>7 DEF HeldOut
  <1>8. ASSUME b.status \in Pending, NEW c
        PROVE  HeldOut(c)' = HeldOut(c)
    BY <1>1, <1>8 DEF HeldOut, Held, Pending
  <1> QED BY <1>6, <1>7, <1>8

(* Such a change keeps a case to one pending call, its last, which holds   *)
(* all the output tokens that are left.                                    *)
LEMMA UpdateKeepsPending ==
    ASSUME TypeOK, PendingIsLast, PendingTakesAll,
           NEW n \in Ids, NEW b \in Attempt,
           attempts' = [attempts EXCEPT ![n] = b],
           b.case = attempts[n].case,
           attempts[n].status \in Pending,
           \A c : c # b.case => HeldOut(c)' = HeldOut(c),
           b.status \in Pending => \A c : HeldOut(c)' = HeldOut(c)
    PROVE  PendingIsLast' /\ PendingTakesAll'
  <1>1. /\ Ids' = Ids /\ attempts'[n] = b /\ Ids \subseteq Nat
        /\ \A i \in Ids : i # n => attempts'[i] = attempts[i]
    BY DEF TypeOK, Ids
  <1>2. PendingIsLast'
    BY <1>1 DEF PendingIsLast, Pending
  <1>3. PendingTakesAll'
    <2> SUFFICES ASSUME NEW c \in Cases, NEW i \in Ids,
                        attempts'[i].case = c, attempts'[i].status \in Pending
                 PROVE  Total(HeldOut(c)') = MaxOutput
      BY <1>1 DEF PendingTakesAll
    <2>1. CASE i = n
      BY <1>1, <2>1 DEF PendingTakesAll
    <2>2. CASE i # n
      <3>1. attempts'[i] = attempts[i] /\ attempts[i].status \in Pending
        BY <1>1, <2>2
      <3>2. c # b.case
        <4>1. i < n \/ n < i
          BY <1>1, <2>2
        <4> QED BY <4>1, <3>1 DEF PendingIsLast
      <3> QED BY <3>1, <3>2 DEF PendingTakesAll
    <2> QED BY <2>1, <2>2
  <1> QED BY <1>2, <1>3

(* An admitted reservation keeps the caps and takes the case's last        *)
(* output token.                                                           *)
LEMMA ReserveKeepsCaps ==
    ASSUME TypeOK, ReservedWithinCaps, NEW q \in Request, Affordable(q),
           attempts' = Append(attempts, Reservation(q))
    PROVE  /\ ReservedWithinCaps'
           /\ Reservation(q) \in Attempt /\ Reservation(q).resOut >= 1
           /\ Total(HeldOut(q.case)') = MaxOutput
           /\ \A c : c # q.case => Total(HeldOut(c)') = Total(HeldOut(c))
  <1> DEFINE b == Reservation(q)
             n == Len(attempts)
  <1>q. q.case \in Cases /\ q.size \in Nat /\ q.size >= 1 /\ q.month \in Months
    <2>1. q.case \in Cases /\ q.size \in PromptSizes /\ q.month \in Months
      BY DEF Request
    <2>2. PromptSizes \subseteq Nat /\ 0 \notin PromptSizes
      BY BudgetAssumption
    <2>3. q.size \in Nat /\ q.size # 0
      BY <2>1, <2>2
    <2> QED BY <2>1, <2>3
  <1>t. /\ attempts \in Seq(Attempt) /\ n \in Nat
        /\ \A c : Total(HeldIn(c)) \in Nat /\ Total(HeldOut(c)) \in Nat
        /\ \A m : Total(HeldVnd(m)) \in Nat /\ Total(WithinVnd(m)) \in Nat
    BY TotalTypes DEF TypeOK
  <1>a. AvailableOut(q.case) \in Nat /\ AvailableOut(q.case) >= 1
    BY <1>t, BudgetAssumption DEF AvailableOut, Affordable
  <1>b. /\ b \in Attempt /\ b.case = q.case /\ b.month = q.month /\ b.status = "RESERVED"
        /\ b.resIn = q.size /\ b.resOut = AvailableOut(q.case)
        /\ b.resVnd = Cost(q.size, AvailableOut(q.case)) /\ b.resVnd \in Nat
    <2>1. Cost(q.size, AvailableOut(q.case)) \in Nat
      BY <1>q, <1>a, CostNat
    <2> QED BY <2>1, <1>q, <1>a DEF Reservation, Attempt, Statuses
  <1> HIDE DEF b
  <1>1. /\ attempts' \in Seq(Attempt) /\ Len(attempts') = n + 1
        /\ attempts'[n + 1] = b
        /\ \A i \in 1..n : attempts'[i] = attempts[i]
        /\ Ids = 1..n /\ Ids' = 1..(n+1)
    BY <1>t, <1>b DEF Ids, b
  <1>2. ASSUME NEW c
        PROVE  /\ Total(HeldIn(c)') = Total(HeldIn(c)) + (IF c = q.case THEN q.size ELSE 0)
               /\ Total(HeldOut(c)') = Total(HeldOut(c)) + (IF c = q.case THEN AvailableOut(q.case) ELSE 0)
    <2>1. HeldIn(c) \in [1..n -> Nat] /\ HeldOut(c) \in [1..n -> Nat]
      BY <1>1, <1>t, HeldTypes
    <2>2. \A i \in 1..n : HeldIn(c)'[i] = HeldIn(c)[i] /\ HeldOut(c)'[i] = HeldOut(c)[i]
      BY <1>1 DEF HeldIn, HeldOut
    <2>3. /\ HeldIn(c)'[n+1] = IF c = q.case THEN q.size ELSE 0
          /\ HeldOut(c)'[n+1] = IF c = q.case THEN AvailableOut(q.case) ELSE 0
      BY <1>1, <1>b, <1>t DEF HeldIn, HeldOut, Held
    <2>4. DOMAIN HeldIn(c)' = 1..(n+1) /\ DOMAIN HeldOut(c)' = 1..(n+1)
      BY <1>1 DEF HeldIn, HeldOut
    <2>5. HeldIn(c)' \in [1..(n+1) -> Nat] /\ HeldOut(c)' \in [1..(n+1) -> Nat]
      <3>1. \A i \in 1..(n+1) : HeldIn(c)'[i] \in Nat /\ HeldOut(c)'[i] \in Nat
        BY <2>1, <2>2, <2>3, <1>q, <1>a, <1>t
      <3> QED BY <3>1, <2>4, <1>1 DEF HeldIn, HeldOut
    <2> QED BY <2>1, <2>2, <2>3, <2>5, <1>t, TotalAppend
  <1>3. ASSUME NEW m
        PROVE  /\ Total(WithinVnd(m)') = Total(WithinVnd(m)) + (IF m = q.month THEN b.resVnd ELSE 0)
               /\ Total(WithinVnd(m)) <= Total(HeldVnd(m))
    <2>1. WithinVnd(m) \in [1..n -> Nat] /\ HeldVnd(m) \in [1..n -> Nat]
      BY <1>1, <1>t, HeldTypes
    <2>2. \A i \in 1..n : WithinVnd(m)'[i] = WithinVnd(m)[i]
      BY <1>1 DEF WithinVnd
    <2>3. WithinVnd(m)'[n+1] = IF m = q.month THEN b.resVnd ELSE 0
      <3>1. Least(Held(b, b.resVnd, b.actVnd), b.resVnd) = b.resVnd
        BY <1>b DEF Held, Least
      <3>2. n + 1 \in 1..(n+1)
        BY <1>t
      <3> QED BY <3>1, <3>2, <1>1, <1>b DEF WithinVnd
    <2>4. WithinVnd(m)' \in [1..(n+1) -> Nat]
      <3>1. \A i \in 1..(n+1) : WithinVnd(m)'[i] \in Nat
        <4>1. (IF m = q.month THEN b.resVnd ELSE 0) \in Nat
          BY <1>b
        <4>2. WithinVnd(m)'[n+1] \in Nat
          BY <2>3, <4>1
        <4>3. \A i \in 1..n : WithinVnd(m)'[i] \in Nat
          BY <2>1, <2>2
        <4>4. \A i \in 1..(n+1) : i \in 1..n \/ i = n + 1
          BY <1>t
        <4> QED BY <4>2, <4>3, <4>4
      <3> QED BY <3>1, <1>1 DEF WithinVnd
    <2>5. \A i \in 1..n : WithinVnd(m)[i] <= HeldVnd(m)[i]
      <3> SUFFICES ASSUME NEW i \in 1..n PROVE WithinVnd(m)[i] <= HeldVnd(m)[i]
        OBVIOUS
      <3>1. attempts[i] \in Attempt
        BY <1>t
      <3>2. LET a == attempts[i]
            IN  Held(a, a.resVnd, a.actVnd) \in Nat /\ a.resVnd \in Nat
        BY <3>1, AttemptFields DEF Held
      <3> QED BY <3>2, <1>1 DEF WithinVnd, HeldVnd, Least
    <2> QED BY <2>1, <2>2, <2>3, <2>4, <2>5, <1>t, TotalAppend, TotalMonotone
  <1>4. ASSUME NEW c
        PROVE  CallsOf(c)' = CallsOf(c) + (IF c = q.case THEN 1 ELSE 0)
    <2> DEFINE S == {i \in Ids : attempts[i].case = c /\ attempts[i].status # "RELEASED"}
               T == {i \in 1..(n+1) : attempts'[i].case = c /\ attempts'[i].status # "RELEASED"}
    <2>1. IsFiniteSet(S) /\ Cardinality(S) \in Nat
      BY <1>t, CallsTypes, FS_CardinalityType
    <2>2. T = IF c = q.case THEN S \cup {n+1} ELSE S
      BY <1>1, <1>b, <1>t
    <2>3. n + 1 \notin S
      BY <1>1, <1>t
    <2>4. CallsOf(c) = Cardinality(S) /\ CallsOf(c)' = Cardinality(T)
      BY <1>1 DEF CallsOf
    <2> HIDE DEF S, T
    <2>5. Cardinality(S \cup {n+1}) = Cardinality(S) + 1
      BY <2>1, <2>3, FS_AddElement
    <2> QED BY <2>1, <2>2, <2>4, <2>5
  <1>5. /\ Total(HeldOut(q.case)') = MaxOutput
        /\ \A c : c # q.case => Total(HeldOut(c)') = Total(HeldOut(c))
    BY <1>2, <1>t, BudgetAssumption DEF AvailableOut
  <1>6. ASSUME NEW i \in Ids'
        PROVE  /\ Total(InBefore(i)') + attempts'[i].resIn <= MaxInput
               /\ Total(OutBefore(i)') + attempts'[i].resOut = MaxOutput
    <2>1. CASE i \in 1..n
      <3>1. /\ attempts'[i] = attempts[i] /\ i \in Ids
            /\ \A j \in 1..(i - 1) : attempts'[j] = attempts[j]
        BY <1>1, <1>t, <2>1
      <3>2. InBefore(i)' = InBefore(i) /\ OutBefore(i)' = OutBefore(i)
        BY <3>1 DEF InBefore, OutBefore
      <3> QED BY <3>1, <3>2 DEF ReservedWithinCaps
    <2>2. CASE i = n + 1
      <3>1. /\ attempts'[i] = b /\ i - 1 = n
            /\ \A j \in 1..n : attempts'[j] = attempts[j]
        BY <1>1, <1>t, <2>2
      <3>2. InBefore(i)' = HeldIn(q.case) /\ OutBefore(i)' = HeldOut(q.case)
        BY <3>1, <1>1, <1>b DEF InBefore, OutBefore, HeldIn, HeldOut
      <3>3. Total(HeldIn(q.case)) + q.size <= MaxInput
        BY DEF Affordable
      <3>4. Total(HeldOut(q.case)) + AvailableOut(q.case) = MaxOutput
        BY <1>t, BudgetAssumption DEF AvailableOut
      <3> QED BY <3>1, <3>2, <3>3, <3>4, <1>b
    <2> QED BY <2>1, <2>2, <1>1, <1>t
  <1>7. ReservedWithinCaps'
    <2>1. ASSUME NEW c \in Cases
          PROVE  CallsOf(c)' <= MaxCalls
      <3>1. CallsOf(c) \in Nat
        BY <1>t, CallsTypes
      <3> QED BY <3>1, <1>4, BudgetAssumption DEF ReservedWithinCaps, Affordable
    <2>2. ASSUME NEW m \in Months
          PROVE  Total(WithinVnd(m)') <= MonthlyCap
      <3>1. CASE m = q.month
        <4>1. Total(HeldVnd(m)) + b.resVnd <= MonthlyCap
          BY <3>1, <1>b DEF Affordable
        <4>2. /\ Total(WithinVnd(m)') = Total(WithinVnd(m)) + b.resVnd
              /\ Total(WithinVnd(m)) <= Total(HeldVnd(m))
          BY <3>1, <1>3
        <4> QED BY <4>1, <4>2, <1>t, <1>b, BudgetAssumption
      <3>2. CASE m # q.month
        BY <3>2, <1>3, <1>t DEF ReservedWithinCaps
      <3> QED BY <3>1, <3>2
    <2> QED BY <2>1, <2>2, <1>6 DEF ReservedWithinCaps
  <1> QED BY <1>5, <1>7, <1>a, <1>b DEF b


-----------------------------------------------------------------------------
LEMMA InitIInv == Init => IInv
  <1> SUFFICES ASSUME Init PROVE IInv
    OBVIOUS
  <1>0. Ids = {} /\ attempts = << >> /\ Len(attempts) = 0
    BY DEF Init, Ids
  <1>1. TypeOK
    <2>1. NoReply \in Reply
      BY DEF NoReply, Reply
    <2>2. 1 \in Months
      BY BudgetAssumption DEF Months
    <2> QED BY <2>1, <2>2 DEF Init, TypeOK
  <1>2. ReservedWithinCaps
    <2>1. \A m : Total(WithinVnd(m)) = 0
      BY <1>0, TotalEmpty DEF WithinVnd
    <2>2. \A c : CallsOf(c) = 0
      BY <1>0, FS_EmptySet DEF CallsOf
    <2> QED BY <1>0, <2>1, <2>2, BudgetAssumption DEF ReservedWithinCaps
  <1>3. TokensValid /\ PendingIsLast /\ AttemptsWell /\ PendingTakesAll /\ BillsKnown
    BY <1>0 DEF Init, TokensValid, PendingIsLast, AttemptsWell, PendingTakesAll, BillsKnown
  <1>4. ThreadsWell
    BY DEF Init, ThreadsWell
  <1>5. ForgottenBounded
    BY BudgetAssumption DEF Init, ForgottenBounded
  <1> QED BY <1>1, <1>2, <1>3, <1>4, <1>5 DEF IInv, LedgerInv, ThreadInv

LEMMA LedgerUnchanged ==
    ASSUME LedgerInv, UNCHANGED << attempts, bills >>
    PROVE  LedgerInv'
  <1>1. /\ Ids' = Ids
        /\ \A c : HeldOut(c)' = HeldOut(c) /\ CallsOf(c)' = CallsOf(c)
        /\ \A i : InBefore(i)' = InBefore(i) /\ OutBefore(i)' = OutBefore(i)
        /\ \A m : WithinVnd(m)' = WithinVnd(m)
    BY DEF Ids, HeldOut, WithinVnd, CallsOf, InBefore, OutBefore
  <1>2. ReservedWithinCaps'
    BY <1>1 DEF LedgerInv, ReservedWithinCaps
  <1>3. PendingIsLast' /\ AttemptsWell'
    BY <1>1 DEF LedgerInv, PendingIsLast, AttemptsWell
  <1>4. PendingTakesAll'
    BY <1>1 DEF LedgerInv, PendingTakesAll
  <1> QED BY <1>2, <1>3, <1>4 DEF LedgerInv

(* A thread that leaves generate_hypothesis keeps the threads' parts,      *)
(* whatever became of its own attempt.                                     *)
LEMMA LeaveKeepsThreads ==
    ASSUME ThreadInv, NEW t \in Threads, Leave(t),
           pc[t] # "idle",
           UNCHANGED << bills, lost, month, restarts >>,
           attempts' \in Seq(Attempt), Len(attempts') = Len(attempts),
           \A i \in Ids : i # token[t] => attempts'[i] = attempts[i],
           token[t] \in Ids /\ attempts'[token[t]].status = "DISPATCHED" =>
               bills[token[t]] <= attempts'[token[t]].resVnd
    PROVE  ThreadInv'
  <1>1. /\ pc' = [pc EXCEPT ![t] = "idle"] /\ request' = [request EXCEPT ![t] = NoRequest]
        /\ token' = [token EXCEPT ![t] = 0] /\ reply' = [reply EXCEPT ![t] = NoReply]
    BY DEF Leave
  <1>2. NoReply \in Reply
    BY DEF NoReply, Reply
  <1>3. TypeOK'
    BY <1>1, <1>2 DEF ThreadInv, TypeOK, lost
  <1>4. Ids' = Ids
    BY DEF Ids
  <1>5. TokensValid'
    <2>1. ASSUME NEW u \in Threads, NEW v \in Threads, token'[u] = token'[v], token'[u] # 0
          PROVE  u = v
      BY <1>1, <2>1 DEF ThreadInv, TypeOK, TokensValid
    <2>2. ASSUME NEW u \in Threads, pc'[u] \in {"reserved", "posting", "replied"}
          PROVE  /\ token'[u] \in Ids
                 /\ attempts'[token'[u]].case = request'[u].case
                 /\ attempts'[token'[u]].status =
                      IF pc'[u] = "reserved" THEN "RESERVED" ELSE "DISPATCHED"
      <3>1. u # t /\ pc'[u] = pc[u] /\ token'[u] = token[u] /\ request'[u] = request[u]
        BY <1>1, <2>2 DEF ThreadInv, TypeOK
      <3>2. token[u] \in Ids
        BY <2>2, <3>1 DEF ThreadInv, TokensValid
      <3>3. token[u] # token[t]
        BY <3>1, <3>2 DEF ThreadInv, TokensValid, Ids, TypeOK
      <3> QED BY <2>2, <3>1, <3>2, <3>3 DEF ThreadInv, TokensValid
    <2> QED BY <2>1, <2>2, <1>4 DEF TokensValid
  <1>6. ThreadsWell'
    <2> SUFFICES ASSUME NEW u \in Threads
                 PROVE  /\ pc'[u] # "idle" => request'[u] \in Request
                        /\ pc'[u] \in {"idle", "reserve"} => token'[u] = 0
                        /\ pc'[u] = "replied" /\ reply'[u].kind = "usage" =>
                              /\ reply'[u].in \in Nat \ {0} /\ reply'[u].out \in Nat \ {0}
                              /\ bills'[token'[u]] = Cost(reply'[u].in, reply'[u].out)
      BY DEF ThreadsWell
    <2>1. CASE u = t
      BY <1>1, <2>1 DEF ThreadInv, TypeOK
    <2>2. CASE u # t
      <3>1. /\ pc'[u] = pc[u] /\ token'[u] = token[u] /\ request'[u] = request[u]
            /\ reply'[u] = reply[u] /\ bills' = bills
        BY <1>1, <2>2 DEF ThreadInv, TypeOK
      <3> QED BY <3>1 DEF ThreadInv, ThreadsWell
    <2> QED BY <2>1, <2>2
  <1>7. BillsKnown'
    <2> SUFFICES ASSUME NEW i \in Ids, attempts'[i].status = "DISPATCHED",
                        ~ (bills[i] <= attempts'[i].resVnd)
                 PROVE  \E u \in Threads : /\ token'[u] = i /\ pc'[u] = "replied"
                                          /\ reply'[u].kind = "usage"
      BY <1>4 DEF BillsKnown
    <2>1. i # token[t] /\ attempts'[i] = attempts[i]
      OBVIOUS
    <2>2. PICK u \in Threads : token[u] = i /\ pc[u] = "replied" /\ reply[u].kind = "usage"
      BY <2>1 DEF ThreadInv, BillsKnown
    <2> QED BY <2>1, <2>2, <1>1 DEF ThreadInv, TypeOK
  <1>8. ForgottenBounded'
    BY DEF ThreadInv, ForgottenBounded, lost
  <1> QED BY <1>3, <1>5, <1>6, <1>7, <1>8 DEF ThreadInv

(* The steps of a thread that leave the ledger and every reply alone keep  *)
(* the owners of charges above the reservation.                            *)
LEMMA BillsKnownUnchanged ==
    ASSUME ThreadInv, UNCHANGED << attempts, bills, token, reply >>,
           \A u \in Threads : pc[u] = "replied" => pc'[u] = "replied"
    PROVE  BillsKnown'
  BY DEF ThreadInv, BillsKnown, Ids

LEMMA CallKeepsIInv ==
    ASSUME IInv, NEW t \in Threads, Call(t)
    PROVE  IInv'
  <1>1. LedgerInv'
    BY LedgerUnchanged DEF IInv, Call
  <1>2. PICK c \in Cases, n \in PromptSizes :
           request' = [request EXCEPT ![t] = [case |-> c, size |-> n, month |-> month]]
    BY DEF Call
  <1>3. /\ pc[t] = "idle" /\ pc' = [pc EXCEPT ![t] = "reserve"]
        /\ UNCHANGED << attempts, bills, forgotten, forgottenAbove, month, restarts, token, reply >>
    BY DEF Call, lost
  <1>4. [case |-> c, size |-> n, month |-> month] \in Request
    BY DEF Request, IInv, ThreadInv, TypeOK
  <1>5. TypeOK'
    BY <1>2, <1>3, <1>4 DEF IInv, ThreadInv, TypeOK
  <1>6. TokensValid'
    BY <1>2, <1>3 DEF IInv, ThreadInv, TypeOK, TokensValid, Ids
  <1>7. ThreadsWell'
    BY <1>2, <1>3, <1>4 DEF IInv, ThreadInv, TypeOK, ThreadsWell
  <1>8. ForgottenBounded'
    BY <1>3 DEF IInv, ThreadInv, ForgottenBounded
  <1>9. BillsKnown'
    BY <1>3, BillsKnownUnchanged DEF IInv, ThreadInv, TypeOK
  <1> QED BY <1>1, <1>5, <1>6, <1>7, <1>8, <1>9 DEF IInv, ThreadInv


LEMMA ReserveKeepsIInv ==
    ASSUME IInv, NEW t \in Threads, Reserve(t)
    PROVE  IInv'
  <1>1. /\ pc[t] = "reserve" /\ Affordable(request[t])
        /\ attempts' = Append(attempts, Reservation(request[t]))
        /\ bills' = Append(bills, 0)
        /\ token' = [token EXCEPT ![t] = Len(attempts) + 1]
        /\ pc' = [pc EXCEPT ![t] = "reserved"]
        /\ UNCHANGED << forgotten, forgottenAbove, month, restarts, request, reply >>
    BY DEF Reserve, lost
  <1>2. PICK q \in Request : q = request[t]
    BY <1>1 DEF IInv, ThreadInv, ThreadsWell
  <1> DEFINE n == Len(attempts)
             b == Reservation(q)
  <1>3. /\ ReservedWithinCaps' /\ b \in Attempt /\ b.resOut >= 1
        /\ Total(HeldOut(q.case)') = MaxOutput
        /\ \A c : c # q.case => Total(HeldOut(c)') = Total(HeldOut(c))
    BY <1>1, <1>2, ReserveKeepsCaps DEF IInv, LedgerInv, ThreadInv
  <1>b. /\ b.case = q.case /\ b.resIn = q.size /\ b.status = "RESERVED"
        /\ b.resVnd = Cost(b.resIn, b.resOut) /\ q.size >= 1
    <2>1. q.size \in PromptSizes
      BY DEF Request
    <2>2. q.size \in Nat /\ q.size # 0
      BY <2>1, BudgetAssumption
    <2> QED BY <2>2 DEF Reservation
  <1> HIDE DEF b
  <1>4. /\ n \in Nat /\ Ids = 1..n /\ Ids' = 1..(n+1) /\ Len(attempts') = n + 1
        /\ attempts' \in Seq(Attempt) /\ bills' \in Seq(Nat) /\ Len(bills') = n + 1
        /\ attempts'[n+1] = b /\ bills'[n+1] = 0
        /\ \A i \in Ids : attempts'[i] = attempts[i] /\ bills'[i] = bills[i]
    BY <1>1, <1>2, <1>3 DEF IInv, ThreadInv, TypeOK, Ids, b
  <1>5. \A i \in Ids : attempts[i].case = q.case => attempts[i].status \notin Pending
    <2> SUFFICES ASSUME NEW i \in Ids, attempts[i].case = q.case, attempts[i].status \in Pending
                 PROVE  FALSE
      OBVIOUS
    <2>1. q.case \in Cases
      BY DEF Request
    <2>2. Total(HeldOut(q.case)) = MaxOutput
      BY <2>1 DEF IInv, LedgerInv, PendingTakesAll
    <2>3. MaxOutput - Total(HeldOut(q.case)) > 0
      BY <1>1, <1>2 DEF Affordable, AvailableOut
    <2> QED BY <2>2, <2>3, BudgetAssumption
  <1>6. PendingIsLast'
    <2> SUFFICES ASSUME NEW i \in Ids', NEW j \in Ids', i < j,
                        attempts'[i].case = attempts'[j].case
                 PROVE  attempts'[i].status \notin Pending
      BY DEF PendingIsLast
    <2>1. i \in Ids /\ attempts'[i] = attempts[i]
      BY <1>4
    <2>2. CASE j \in Ids
      BY <2>1, <2>2, <1>4 DEF IInv, LedgerInv, PendingIsLast
    <2>3. CASE j = n + 1
      BY <2>1, <2>3, <1>4, <1>5, <1>b
    <2> QED BY <2>2, <2>3, <1>4
  <1>7. AttemptsWell'
    BY <1>3, <1>4, <1>b DEF IInv, LedgerInv, AttemptsWell
  <1>8. PendingTakesAll'
    <2> SUFFICES ASSUME NEW c \in Cases, NEW i \in Ids',
                        attempts'[i].case = c, attempts'[i].status \in Pending
                 PROVE  Total(HeldOut(c)') = MaxOutput
      BY DEF PendingTakesAll
    <2>1. CASE c = q.case
      BY <2>1, <1>3
    <2>2. CASE c # q.case
      <3>1. i \in Ids /\ attempts'[i] = attempts[i]
        BY <1>4, <1>b, <2>2
      <3> QED BY <3>1, <2>2, <1>3 DEF IInv, LedgerInv, PendingTakesAll
    <2> QED BY <2>1, <2>2
  <1>9. TypeOK'
    BY <1>1, <1>4 DEF IInv, ThreadInv, TypeOK
  <1>10. TokensValid'
    <2>1. \A u \in Threads : token[u] # 0 => token[u] \in Ids
      BY <1>1 DEF IInv, ThreadInv, TypeOK, TokensValid, ThreadsWell
    <2>2. \A u \in Threads : u # t => /\ token'[u] = token[u] /\ pc'[u] = pc[u] /\ request'[u] = request[u]
      BY <1>1 DEF IInv, ThreadInv, TypeOK
    <2>3. token'[t] = n + 1 /\ pc'[t] = "reserved" /\ request'[t] = q
      BY <1>1, <1>2 DEF IInv, ThreadInv, TypeOK
    <2>4. ASSUME NEW u \in Threads, NEW v \in Threads, token'[u] = token'[v], token'[u] # 0
          PROVE  u = v
      BY <2>1, <2>2, <2>3, <2>4, <1>4 DEF IInv, ThreadInv, TokensValid
    <2>5. ASSUME NEW u \in Threads, pc'[u] \in {"reserved", "posting", "replied"}
          PROVE  /\ token'[u] \in Ids'
                 /\ attempts'[token'[u]].case = request'[u].case
                 /\ attempts'[token'[u]].status =
                      IF pc'[u] = "reserved" THEN "RESERVED" ELSE "DISPATCHED"
      <3>1. CASE u = t
        BY <3>1, <2>3, <1>4, <1>b
      <3>2. CASE u # t
        <4>1. /\ token[u] \in Ids
              /\ attempts[token[u]].case = request[u].case
              /\ attempts[token[u]].status =
                   IF pc[u] = "reserved" THEN "RESERVED" ELSE "DISPATCHED"
          BY <3>2, <2>2, <2>5 DEF IInv, ThreadInv, TokensValid
        <4>2. attempts'[token[u]] = attempts[token[u]] /\ token[u] \in Ids'
          BY <4>1, <1>4
        <4> QED BY <4>1, <4>2, <3>2, <2>2
      <3> QED BY <3>1, <3>2
    <2> QED BY <2>4, <2>5 DEF TokensValid
  <1>11. ThreadsWell'
    <2> SUFFICES ASSUME NEW u \in Threads
                 PROVE  /\ pc'[u] # "idle" => request'[u] \in Request
                        /\ pc'[u] \in {"idle", "reserve"} => token'[u] = 0
                        /\ pc'[u] = "replied" /\ reply'[u].kind = "usage" =>
                              /\ reply'[u].in \in Nat \ {0} /\ reply'[u].out \in Nat \ {0}
                              /\ bills'[token'[u]] = Cost(reply'[u].in, reply'[u].out)
      BY DEF ThreadsWell
    <2>1. CASE u = t
      BY <1>1, <1>2, <2>1 DEF IInv, ThreadInv, TypeOK
    <2>2. CASE u # t
      <3>1. /\ pc'[u] = pc[u] /\ token'[u] = token[u] /\ request'[u] = request[u]
            /\ reply'[u] = reply[u]
        BY <1>1, <2>2 DEF IInv, ThreadInv, TypeOK
      <3>2. pc[u] = "replied" => bills'[token[u]] = bills[token[u]]
        BY <1>4 DEF IInv, ThreadInv, TokensValid
      <3> QED BY <3>1, <3>2 DEF IInv, ThreadInv, ThreadsWell
    <2> QED BY <2>1, <2>2
  <1>12. ForgottenBounded'
    BY <1>1 DEF IInv, ThreadInv, ForgottenBounded
  <1>13. BillsKnown'
    <2> SUFFICES ASSUME NEW i \in Ids', attempts'[i].status = "DISPATCHED",
                        ~ (bills'[i] <= attempts'[i].resVnd)
                 PROVE  \E u \in Threads : /\ token'[u] = i /\ pc'[u] = "replied"
                                          /\ reply'[u].kind = "usage"
      BY DEF BillsKnown
    <2>1. i \in Ids /\ attempts'[i] = attempts[i] /\ bills'[i] = bills[i]
      BY <1>4, <1>b
    <2>2. PICK u \in Threads : token[u] = i /\ pc[u] = "replied" /\ reply[u].kind = "usage"
      BY <2>1 DEF IInv, ThreadInv, BillsKnown
    <2> QED BY <2>2, <1>1 DEF IInv, ThreadInv, TypeOK
  <1> QED BY <1>3, <1>6, <1>7, <1>8, <1>9, <1>10, <1>11, <1>12, <1>13
      DEF IInv, LedgerInv, ThreadInv


(* Changing the pending attempt of a thread, with its bill covered, keeps  *)
(* the ledger.                                                             *)
LEMMA UpdateKeepsLedger ==
    ASSUME IInv, NEW n \in Ids, NEW b \in Attempt,
           attempts' = [attempts EXCEPT ![n] = b], bills' = bills,
           attempts[n].status \in Pending, b.status \in {"DISPATCHED", "RECONCILED", "RELEASED"},
           b.case = attempts[n].case, b.month = attempts[n].month,
           b.resIn = attempts[n].resIn, b.resOut = attempts[n].resOut,
           b.resVnd = attempts[n].resVnd,
           b.status = "RECONCILED" => /\ bills[n] <= b.actVnd
                                      /\ b.actVnd <= b.resVnd \/ b.actVnd <= bills[n],
           b.status = "RELEASED" => bills[n] = 0
    PROVE  /\ LedgerInv'
           /\ attempts' \in Seq(Attempt) /\ Len(attempts') = Len(attempts)
           /\ attempts'[n] = b
           /\ \A i \in Ids : i # n => attempts'[i] = attempts[i]
  <1>1. /\ Ids' = Ids /\ attempts' \in Seq(Attempt) /\ Len(attempts') = Len(attempts)
        /\ attempts'[n] = b
        /\ \A i \in Ids : i # n => attempts'[i] = attempts[i]
    BY DEF IInv, ThreadInv, TypeOK, Ids
  <1>2. /\ ReservedWithinCaps'
        /\ \A c : c # b.case => HeldOut(c)' = HeldOut(c)
        /\ b.status \in Pending => \A c : HeldOut(c)' = HeldOut(c)
    BY UpdateKeepsCaps DEF IInv, ThreadInv
  <1>3. PendingIsLast' /\ PendingTakesAll'
    BY <1>2, UpdateKeepsPending DEF IInv, LedgerInv, ThreadInv
  <1>4. AttemptsWell'
    BY <1>1 DEF IInv, LedgerInv, AttemptsWell
  <1> QED BY <1>1, <1>2, <1>3, <1>4 DEF LedgerInv

(* The attempt a thread's token names; without a report it is charged no   *)
(* more than its reservation.                                              *)
LEMMA TokenAttempt ==
    ASSUME IInv, NEW t \in Threads, pc[t] \in {"reserved", "posting", "replied"}
    PROVE  /\ token[t] \in Ids /\ attempts[token[t]] \in Attempt
           /\ attempts[token[t]].status =
                IF pc[t] = "reserved" THEN "RESERVED" ELSE "DISPATCHED"
           /\ attempts[token[t]].case = request[t].case
           /\ bills[token[t]] \in Nat
           /\ pc[t] = "replied" /\ reply[t].kind # "usage" =>
                bills[token[t]] <= attempts[token[t]].resVnd
  <1>1. /\ token[t] \in Ids /\ attempts[token[t]] \in Attempt
        /\ attempts[token[t]].status =
                IF pc[t] = "reserved" THEN "RESERVED" ELSE "DISPATCHED"
        /\ attempts[token[t]].case = request[t].case
        /\ bills[token[t]] \in Nat
    BY DEF IInv, ThreadInv, TokensValid, TypeOK, Ids
  <1>2. ASSUME pc[t] = "replied", reply[t].kind # "usage",
               ~ (bills[token[t]] <= attempts[token[t]].resVnd)
        PROVE  FALSE
    <2>1. PICK u \in Threads : token[u] = token[t] /\ reply[u].kind = "usage"
      BY <1>1, <1>2 DEF IInv, ThreadInv, BillsKnown
    <2>2. token[t] # 0
      BY <1>1 DEF Ids
    <2> QED BY <2>1, <2>2, <1>2 DEF IInv, ThreadInv, TokensValid
  <1> QED BY <1>1, <1>2

LEMMA ReleaseKeepsIInv ==
    ASSUME IInv, NEW t \in Threads, Release(t)
    PROVE  IInv'
  <1>1. pc[t] = "reserved" /\ Leave(t) /\ UNCHANGED << bills, lost, month, restarts >>
    BY DEF Release
  <1>2. PICK n \in Ids : n = token[t]
    BY <1>1, TokenAttempt
  <1>3. PICK b \in Attempt : b = [attempts[n] EXCEPT !.status = "RELEASED"]
    BY <1>1, <1>2, TokenAttempt DEF Attempt, Statuses
  <1>4. attempts' = [attempts EXCEPT ![n] = b]
    BY <1>2, <1>3 DEF Release, SetStatus
  <1>5. /\ attempts[n].status = "RESERVED" /\ bills[n] = 0 /\ attempts[n] \in Attempt
    BY <1>1, <1>2, TokenAttempt DEF IInv, LedgerInv, AttemptsWell
  <1>6. /\ b.case = attempts[n].case /\ b.month = attempts[n].month
        /\ b.resIn = attempts[n].resIn /\ b.resOut = attempts[n].resOut
        /\ b.resVnd = attempts[n].resVnd /\ b.status = "RELEASED"
    BY <1>3, <1>5 DEF Attempt
  <1>7. /\ LedgerInv' /\ attempts' \in Seq(Attempt) /\ Len(attempts') = Len(attempts)
        /\ attempts'[n] = b
        /\ \A i \in Ids : i # n => attempts'[i] = attempts[i]
    BY <1>1, <1>4, <1>5, <1>6, UpdateKeepsLedger DEF Pending
  <1>8. ThreadInv'
    BY <1>1, <1>2, <1>6, <1>7, LeaveKeepsThreads DEF IInv
  <1> QED BY <1>7, <1>8 DEF IInv

LEMMA ReconcileKeepsIInv ==
    ASSUME IInv, NEW t \in Threads, Reconcile(t)
    PROVE  IInv'
  <1>1. pc[t] = "replied" /\ Leave(t) /\ UNCHANGED << bills, lost, month, restarts >>
    BY DEF Reconcile
  <1>2. PICK n \in Ids : n = token[t]
    BY <1>1, TokenAttempt
  <1> DEFINE a == attempts[n]
  <1>3. a.status = "DISPATCHED" /\ a \in Attempt /\ bills[n] \in Nat
    BY <1>1, <1>2, TokenAttempt
  <1>f. /\ a.resIn \in Nat /\ a.resOut \in Nat /\ a.resVnd \in Nat
        /\ a.resIn >= 1 /\ a.resOut >= 1
    BY <1>3, AttemptFields DEF IInv, LedgerInv, AttemptsWell
  <1>4. PICK in \in Nat, out \in Nat, v \in Nat :
          /\ attempts' = [attempts EXCEPT ![n] =
                           [a EXCEPT !.actIn = in, !.actOut = out, !.actVnd = v,
                                     !.status = "RECONCILED"]]
          /\ bills[n] <= v /\ (v <= a.resVnd \/ v <= bills[n])
    <2>1. CASE reply[t].kind = "usage"
      <3> DEFINE ri == reply[t].in
                 ro == reply[t].out
      <3>1. /\ attempts' = [attempts EXCEPT ![n] = Settled(a, ri, ro)]
            /\ ri \in Nat \ {0} /\ ro \in Nat \ {0} /\ bills[n] = Cost(ri, ro)
        BY <1>1, <1>2, <2>1 DEF Reconcile, IInv, ThreadInv, ThreadsWell
      <3> HIDE DEF ri, ro
      <3>2. ri > 0 /\ ro > 0 /\ Cost(ri, ro) \in Nat
        BY <3>1, CostNat
      <3>3. Settled(a, ri, ro) = [a EXCEPT !.actIn = ri, !.actOut = ro, !.actVnd = Cost(ri, ro),
                                           !.status = "RECONCILED"]
        BY <3>2 DEF Settled
      <3>4. bills[n] <= Cost(ri, ro) /\ Cost(ri, ro) <= bills[n]
        BY <3>1, <3>2
      <3> QED BY <3>1, <3>2, <3>3, <3>4
    <2>2. CASE reply[t].kind # "usage"
      <3>1. attempts' = [attempts EXCEPT ![n] = Settled(a, a.resIn, a.resOut)]
        BY <1>2, <2>2 DEF Reconcile
      <3>2. bills[n] <= a.resVnd
        BY <1>1, <1>2, <2>2, TokenAttempt
      <3>3. a.resVnd = Cost(a.resIn, a.resOut)
        BY DEF IInv, LedgerInv, AttemptsWell
      <3>4. Settled(a, a.resIn, a.resOut) =
              [a EXCEPT !.actIn = a.resIn, !.actOut = a.resOut, !.actVnd = a.resVnd,
                        !.status = "RECONCILED"]
        BY <3>3, <1>f DEF Settled
      <3>5. a.resVnd <= a.resVnd
        BY <1>f
      <3> QED BY <3>1, <3>2, <3>4, <3>5, <1>f
    <2> QED BY <2>1, <2>2
  <1>5. PICK b \in Attempt : b = [a EXCEPT !.actIn = in, !.actOut = out,
                                           !.actVnd = v, !.status = "RECONCILED"]
    BY <1>3, <1>4 DEF Attempt, Statuses
  <1>6. attempts' = [attempts EXCEPT ![n] = b]
    BY <1>4, <1>5
  <1>7. /\ b.case = a.case /\ b.month = a.month /\ b.status = "RECONCILED"
        /\ b.resIn = a.resIn /\ b.resOut = a.resOut /\ b.resVnd = a.resVnd
        /\ b.actVnd = v
    BY <1>3, <1>5 DEF Attempt
  <1>8. /\ LedgerInv' /\ attempts' \in Seq(Attempt) /\ Len(attempts') = Len(attempts)
        /\ attempts'[n] = b
        /\ \A i \in Ids : i # n => attempts'[i] = attempts[i]
    <2>1. bills' = bills /\ a.status \in Pending
      BY <1>1, <1>3 DEF Pending
    <2>2. bills[n] <= b.actVnd /\ (b.actVnd <= b.resVnd \/ b.actVnd <= bills[n])
      BY <1>4, <1>7
    <2> QED BY <2>1, <2>2, <1>6, <1>7, UpdateKeepsLedger
  <1>9. ThreadInv'
    BY <1>1, <1>2, <1>7, <1>8, LeaveKeepsThreads DEF IInv
  <1> QED BY <1>8, <1>9 DEF IInv

LEMMA RefuseKeepsIInv ==
    ASSUME IInv, NEW t \in Threads, Refuse(t) \/ EscapeUnreconciled(t)
    PROVE  IInv'
  <1>1. /\ pc[t] # "idle" /\ Leave(t)
        /\ UNCHANGED << attempts, bills, lost, month, restarts >>
    BY DEF Refuse, EscapeUnreconciled
  <1>2. LedgerInv'
    BY <1>1, LedgerUnchanged DEF IInv
  <1>3. attempts' \in Seq(Attempt) /\ Len(attempts') = Len(attempts)
    BY <1>1 DEF IInv, ThreadInv, TypeOK
  <1>4. token[t] \in Ids => bills[token[t]] <= attempts[token[t]].resVnd
    <2>1. CASE Refuse(t)
      <3>1. token[t] = 0
        BY <2>1 DEF Refuse, IInv, ThreadInv, ThreadsWell
      <3> QED BY <3>1 DEF Ids
    <2>2. CASE EscapeUnreconciled(t)
      <3>1. pc[t] = "replied" /\ reply[t].kind # "usage"
        BY <2>2 DEF EscapeUnreconciled
      <3> QED BY <3>1, TokenAttempt
    <2> QED BY <2>1, <2>2
  <1>5. ThreadInv'
    BY <1>1, <1>3, <1>4, LeaveKeepsThreads DEF IInv
  <1> QED BY <1>2, <1>5 DEF IInv

LEMMA DispatchKeepsIInv ==
    ASSUME IInv, NEW t \in Threads, MarkDispatched(t)
    PROVE  IInv'
  <1>1. /\ pc[t] = "reserved" /\ pc' = [pc EXCEPT ![t] = "posting"]
        /\ UNCHANGED << bills, forgotten, forgottenAbove, month, restarts, request, token, reply >>
    BY DEF MarkDispatched, lost
  <1>2. PICK n \in Ids : n = token[t]
    BY <1>1, TokenAttempt
  <1>3. PICK b \in Attempt : b = [attempts[n] EXCEPT !.status = "DISPATCHED"]
    BY <1>1, <1>2, TokenAttempt DEF Attempt, Statuses
  <1>4. attempts' = [attempts EXCEPT ![n] = b]
    BY <1>2, <1>3 DEF MarkDispatched, SetStatus
  <1>5. attempts[n].status = "RESERVED" /\ attempts[n] \in Attempt
    BY <1>1, <1>2, TokenAttempt
  <1>6. /\ b.case = attempts[n].case /\ b.month = attempts[n].month
        /\ b.resIn = attempts[n].resIn /\ b.resOut = attempts[n].resOut
        /\ b.resVnd = attempts[n].resVnd /\ b.status = "DISPATCHED"
    BY <1>3, <1>5 DEF Attempt
  <1>7. /\ LedgerInv' /\ attempts' \in Seq(Attempt) /\ Len(attempts') = Len(attempts)
        /\ attempts'[n] = b
        /\ \A i \in Ids : i # n => attempts'[i] = attempts[i]
    BY <1>1, <1>4, <1>5, <1>6, UpdateKeepsLedger DEF Pending
  <1>8. TypeOK'
    BY <1>1, <1>7 DEF IInv, ThreadInv, TypeOK
  <1>9. TokensValid'
    <2>1. ASSUME NEW u \in Threads, pc'[u] \in {"reserved", "posting", "replied"}
          PROVE  /\ token[u] \in Ids
                 /\ attempts'[token[u]].case = request[u].case
                 /\ attempts'[token[u]].status =
                      IF pc'[u] = "reserved" THEN "RESERVED" ELSE "DISPATCHED"
      <3>1. CASE u = t
        BY <3>1, <1>1, <1>2, <1>6, <1>7, TokenAttempt DEF IInv, ThreadInv, TypeOK
      <3>2. CASE u # t
        <4>1. pc'[u] = pc[u] /\ token[u] \in Ids
          BY <3>2, <2>1, <1>1 DEF IInv, ThreadInv, TypeOK, TokensValid
        <4>2. token[u] # n
          BY <3>2, <4>1, <1>2 DEF IInv, ThreadInv, TokensValid, Ids, TypeOK
        <4> QED BY <4>1, <4>2, <1>7, <2>1 DEF IInv, ThreadInv, TokensValid
      <3> QED BY <3>1, <3>2
    <2>2. Ids' = Ids
      BY <1>7 DEF Ids
    <2> QED BY <2>1, <2>2, <1>1 DEF IInv, ThreadInv, TokensValid
  <1>10. ThreadsWell'
    <2> SUFFICES ASSUME NEW u \in Threads
                 PROVE  /\ pc'[u] # "idle" => request[u] \in Request
                        /\ pc'[u] \in {"idle", "reserve"} => token[u] = 0
                        /\ pc'[u] = "replied" /\ reply[u].kind = "usage" =>
                              /\ reply[u].in \in Nat \ {0} /\ reply[u].out \in Nat \ {0}
                              /\ bills[token[u]] = Cost(reply[u].in, reply[u].out)
      BY <1>1 DEF ThreadsWell
    <2>1. CASE u = t
      BY <1>1, <2>1 DEF IInv, ThreadInv, TypeOK, ThreadsWell
    <2>2. CASE u # t
      <3>1. pc'[u] = pc[u]
        BY <1>1, <2>2 DEF IInv, ThreadInv, TypeOK
      <3> QED BY <3>1 DEF IInv, ThreadInv, ThreadsWell
    <2> QED BY <2>1, <2>2
  <1>11. ForgottenBounded'
    BY <1>1 DEF IInv, ThreadInv, ForgottenBounded
  <1>12. BillsKnown'
    <2>1. bills[n] = 0 /\ attempts[n].resVnd \in Nat
      BY <1>5, AttemptFields DEF IInv, LedgerInv, AttemptsWell
    <2> SUFFICES ASSUME NEW i \in Ids, attempts'[i].status = "DISPATCHED",
                        ~ (bills[i] <= attempts'[i].resVnd)
                 PROVE  \E u \in Threads : /\ token[u] = i /\ pc'[u] = "replied"
                                          /\ reply[u].kind = "usage"
      BY <1>1, <1>7 DEF BillsKnown, Ids
    <2>2. i # n
      BY <2>1, <1>6, <1>7
    <2>3. PICK u \in Threads : token[u] = i /\ pc[u] = "replied" /\ reply[u].kind = "usage"
      BY <2>2, <1>7 DEF IInv, ThreadInv, BillsKnown
    <2> QED BY <2>3, <1>1 DEF IInv, ThreadInv, TypeOK
  <1> QED BY <1>7, <1>8, <1>9, <1>10, <1>11, <1>12 DEF IInv, ThreadInv


(* The provider's answer, with or without a report. *)
LEMMA AnswerKeepsIInv ==
    ASSUME IInv, NEW t \in Threads, AnswerWithUsage(t) \/ AnswerWithout(t)
    PROVE  IInv'
  <1>1. /\ pc[t] = "posting" /\ pc' = [pc EXCEPT ![t] = "replied"]
        /\ UNCHANGED << attempts, forgotten, forgottenAbove, month, restarts, request, token >>
    BY DEF AnswerWithUsage, AnswerWithout, End, lost
  <1>2. PICK n \in Ids : n = token[t]
    BY <1>1, TokenAttempt
  <1>3. /\ attempts[n].status = "DISPATCHED" /\ attempts[n] \in Attempt
        /\ attempts[n].resVnd \in Nat
    BY <1>1, <1>2, TokenAttempt, AttemptFields
  <1>4. PICK r \in Reply, v \in Nat :
          /\ reply' = [reply EXCEPT ![t] = r]
          /\ bills' = [bills EXCEPT ![n] = v]
          /\ r.kind = "usage" => /\ r.in \in Nat \ {0} /\ r.out \in Nat \ {0}
                                 /\ v = Cost(r.in, r.out)
          /\ r.kind # "usage" => v <= attempts[n].resVnd
    <2>1. CASE AnswerWithUsage(t)
      <3>1. PICK in \in UsageCounts, out \in UsageCounts :
              /\ bills' = [bills EXCEPT ![n] = Cost(in, out)]
              /\ reply' = [reply EXCEPT ![t] = [kind |-> "usage", in |-> in, out |-> out]]
        BY <2>1, <1>2 DEF AnswerWithUsage, End
      <3>2. in \in Nat \ {0} /\ out \in Nat \ {0}
        BY <3>1, BudgetAssumption
      <3>3. Cost(in, out) \in Nat
        BY <3>2, CostNat
      <3>4. [kind |-> "usage", in |-> in, out |-> out] \in Reply
        BY <3>2 DEF Reply
      <3> QED BY <3>1, <3>2, <3>3, <3>4
    <2>2. CASE AnswerWithout(t)
      <3>1. PICK v \in 0..attempts[n].resVnd, k \in {"no_usage", "not_object", "failed"} :
              /\ bills' = [bills EXCEPT ![n] = v]
              /\ reply' = [reply EXCEPT ![t] = [kind |-> k]]
        BY <2>2, <1>2 DEF AnswerWithout, End
      <3>2. v \in Nat /\ v <= attempts[n].resVnd
        BY <3>1, <1>3
      <3>3. [kind |-> k] \in Reply /\ [kind |-> k].kind # "usage"
        BY <3>1 DEF Reply
      <3> QED BY <3>1, <3>2, <3>3
    <2> QED BY <2>1, <2>2
  <1>5. /\ bills' \in Seq(Nat) /\ Len(bills') = Len(bills) /\ bills'[n] = v
        /\ \A i \in Ids : i # n => bills'[i] = bills[i]
    BY <1>4 DEF IInv, ThreadInv, TypeOK, Ids
  <1>6. Ids' = Ids /\ attempts' = attempts
    BY <1>1 DEF Ids
  <1>7. ReservedWithinCaps' /\ PendingIsLast' /\ PendingTakesAll'
    <2>1. /\ \A c : HeldOut(c)' = HeldOut(c) /\ CallsOf(c)' = CallsOf(c)
          /\ \A i : InBefore(i)' = InBefore(i) /\ OutBefore(i)' = OutBefore(i)
          /\ \A m : WithinVnd(m)' = WithinVnd(m)
      BY <1>6 DEF Ids, HeldOut, WithinVnd, CallsOf, InBefore, OutBefore
    <2>2. ReservedWithinCaps'
      BY <2>1, <1>6 DEF IInv, LedgerInv, ReservedWithinCaps
    <2>3. PendingIsLast' /\ PendingTakesAll'
      BY <2>1, <1>6 DEF IInv, LedgerInv, PendingIsLast, PendingTakesAll
    <2> QED BY <2>2, <2>3
  <1>8. AttemptsWell'
    BY <1>3, <1>5, <1>6 DEF IInv, LedgerInv, AttemptsWell
  <1>9. TypeOK'
    BY <1>1, <1>4, <1>5 DEF IInv, ThreadInv, TypeOK
  <1>10. TokensValid'
    <2>1. \A u \in Threads : /\ pc'[u] \in {"reserved", "posting", "replied"} =>
                                  pc[u] \in {"reserved", "posting", "replied"}
                             /\ (pc'[u] = "reserved") <=> (pc[u] = "reserved")
      BY <1>1 DEF IInv, ThreadInv, TypeOK
    <2> QED BY <2>1, <1>1, <1>6 DEF IInv, ThreadInv, TokensValid
  <1>11. ThreadsWell'
    <2> SUFFICES ASSUME NEW u \in Threads
                 PROVE  /\ pc'[u] # "idle" => request[u] \in Request
                        /\ pc'[u] \in {"idle", "reserve"} => token[u] = 0
                        /\ pc'[u] = "replied" /\ reply'[u].kind = "usage" =>
                              /\ reply'[u].in \in Nat \ {0} /\ reply'[u].out \in Nat \ {0}
                              /\ bills'[token[u]] = Cost(reply'[u].in, reply'[u].out)
      BY <1>1 DEF ThreadsWell
    <2>1. CASE u = t
      BY <1>1, <1>2, <1>4, <1>5, <2>1 DEF IInv, ThreadInv, TypeOK, ThreadsWell
    <2>2. CASE u # t
      <3>1. pc'[u] = pc[u] /\ reply'[u] = reply[u]
        BY <1>1, <1>4, <2>2 DEF IInv, ThreadInv, TypeOK
      <3>2. ASSUME pc[u] = "replied"
            PROVE  bills'[token[u]] = bills[token[u]]
        <4>1. token[u] \in Ids
          BY <3>2 DEF IInv, ThreadInv, TokensValid
        <4>2. token[u] # n
          BY <2>2, <1>2, <4>1 DEF IInv, ThreadInv, TokensValid, Ids
        <4> QED BY <4>1, <4>2, <1>5
      <3> QED BY <3>1, <3>2 DEF IInv, ThreadInv, ThreadsWell
    <2> QED BY <2>1, <2>2
  <1>12. BillsKnown'
    <2> SUFFICES ASSUME NEW i \in Ids, attempts[i].status = "DISPATCHED",
                        ~ (bills'[i] <= attempts[i].resVnd)
                 PROVE  \E u \in Threads : /\ token[u] = i /\ pc'[u] = "replied"
                                          /\ reply'[u].kind = "usage"
      BY <1>1, <1>6 DEF BillsKnown
    <2>1. CASE i = n
      <3>1. r.kind = "usage"
        BY <2>1, <1>4, <1>5
      <3> QED BY <3>1, <2>1, <1>1, <1>2, <1>4 DEF IInv, ThreadInv, TypeOK
    <2>2. CASE i # n
      <3>1. PICK u \in Threads : token[u] = i /\ pc[u] = "replied" /\ reply[u].kind = "usage"
        BY <2>2, <1>5 DEF IInv, ThreadInv, BillsKnown
      <3>2. u # t
        BY <3>1, <2>2, <1>2
      <3> QED BY <3>1, <3>2, <1>1, <1>4 DEF IInv, ThreadInv, TypeOK
    <2> QED BY <2>1, <2>2
  <1>13. ForgottenBounded'
    BY <1>1 DEF IInv, ThreadInv, ForgottenBounded
  <1> QED BY <1>7, <1>8, <1>9, <1>10, <1>11, <1>12, <1>13 DEF IInv, LedgerInv, ThreadInv

-----------------------------------------------------------------------------
(* What follows from the invariant. *)

LEMMA BillsCovered == IInv => LedgerCoversBills
  <1> SUFFICES ASSUME IInv, NEW i \in Ids
               PROVE  \/ bills[i] <= Held(attempts[i], attempts[i].resVnd, attempts[i].actVnd)
                      \/ \E t \in Threads : /\ token[t] = i /\ reply[t].kind = "usage"
                                           /\ bills[i] <= Cost(reply[t].in, reply[t].out)
    BY DEF LedgerCoversBills
  <1>1. /\ attempts[i] \in Attempt /\ bills[i] \in Nat
        /\ attempts[i].resVnd \in Nat /\ attempts[i].status \in Statuses
    <2>1. attempts[i] \in Attempt /\ bills[i] \in Nat
      BY DEF IInv, ThreadInv, TypeOK, Ids
    <2> QED BY <2>1, AttemptFields
  <1>2. CASE attempts[i].status = "DISPATCHED" /\ ~ (bills[i] <= attempts[i].resVnd)
    <2>1. PICK t \in Threads : token[t] = i /\ pc[t] = "replied" /\ reply[t].kind = "usage"
      BY <1>2 DEF IInv, ThreadInv, BillsKnown
    <2>2. bills[i] = Cost(reply[t].in, reply[t].out)
      BY <2>1 DEF IInv, ThreadInv, ThreadsWell
    <2>3. bills[i] <= Cost(reply[t].in, reply[t].out)
      BY <2>2, <1>1
    <2> QED BY <2>1, <2>3
  <1>3. CASE ~ (attempts[i].status = "DISPATCHED" /\ ~ (bills[i] <= attempts[i].resVnd))
    BY <1>1, <1>3 DEF IInv, LedgerInv, AttemptsWell, Held, Statuses
  <1> QED BY <1>2, <1>3

(* What a month holds and what it is charged are within the cap, but for   *)
(* what charges are above their reservations.                              *)
LEMMA MonthWithinCap ==
    ASSUME IInv, NEW m \in Months
    PROVE  /\ Total(HeldVnd(m)) <= MonthlyCap + Total(Above(m))
           /\ Total(BilledTo(m)) <= MonthlyCap + Total(Above(m))
           /\ Total(BilledTo(m)) \in Nat /\ Total(Above(m)) \in Nat
  <1> DEFINE n == Len(attempts)
  <1>1. n \in Nat /\ Ids = 1..n /\ \A i \in 1..n : bills[i] \in Nat /\ attempts[i] \in Attempt
    BY DEF IInv, ThreadInv, TypeOK, Ids
  <1>2. HeldVnd(m) \in [1..n -> Nat] /\ WithinVnd(m) \in [1..n -> Nat]
    BY <1>1, HeldTypes DEF IInv, ThreadInv, TypeOK
  <1>3. BilledTo(m) \in [1..n -> Nat]
    BY <1>1 DEF BilledTo
  <1>4. Above(m) \in [1..n -> Nat]
    <2>1. \A i \in 1..n : bills[i] > attempts[i].resVnd => bills[i] - attempts[i].resVnd \in Nat
      BY <1>1, AttemptFields
    <2> QED BY <2>1 DEF Above
  <1>5. ASSUME NEW i \in 1..n
        PROVE  /\ HeldVnd(m)[i] <= WithinVnd(m)[i] + Above(m)[i]
               /\ BilledTo(m)[i] <= WithinVnd(m)[i] + Above(m)[i]
    <2> DEFINE a == attempts[i]
               held == Held(a, a.resVnd, a.actVnd)
               above == IF bills[i] > a.resVnd THEN bills[i] - a.resVnd ELSE 0
    <2>1. /\ a.resVnd \in Nat /\ a.actVnd \in Nat /\ a.status \in Statuses
          /\ bills[i] \in Nat
      BY <1>1, AttemptFields
    <2>2. /\ a.status \in {"RESERVED", "RELEASED"} => bills[i] = 0
          /\ a.status = "RECONCILED" => /\ bills[i] <= a.actVnd
                                        /\ a.actVnd <= a.resVnd \/ a.actVnd <= bills[i]
      BY <1>1 DEF IInv, LedgerInv, AttemptsWell
    <2>3. /\ held <= Least(held, a.resVnd) + above
          /\ bills[i] <= Least(held, a.resVnd) + above
      BY <2>1, <2>2 DEF Held, Least, Statuses
    <2>4. /\ HeldVnd(m)[i] = IF a.month = m THEN held ELSE 0
          /\ WithinVnd(m)[i] = IF a.month = m THEN Least(held, a.resVnd) ELSE 0
          /\ BilledTo(m)[i] = IF a.month = m THEN bills[i] ELSE 0
          /\ Above(m)[i] = IF a.month = m THEN above ELSE 0
      BY <1>1 DEF HeldVnd, WithinVnd, BilledTo, Above
    <2> HIDE DEF held, above, a
    <2> QED BY <2>3, <2>4
  <1> HIDE DEF n
  <1>6. /\ Total(HeldVnd(m)) <= Total(WithinVnd(m)) + Total(Above(m))
        /\ Total(BilledTo(m)) <= Total(WithinVnd(m)) + Total(Above(m))
    BY <1>1, <1>2, <1>3, <1>4, <1>5, TotalSum
  <1>7. /\ Total(HeldVnd(m)) \in Nat /\ Total(WithinVnd(m)) \in Nat
        /\ Total(BilledTo(m)) \in Nat /\ Total(Above(m)) \in Nat
    BY <1>1, <1>2, <1>3, <1>4, UnitsFinite
  <1>8. Total(WithinVnd(m)) <= MonthlyCap
    BY DEF IInv, LedgerInv, ReservedWithinCaps
  <1> QED BY <1>6, <1>7, <1>8, BudgetAssumption

-----------------------------------------------------------------------------
(* The calendar turns. *)
LEMMA NextMonthKeepsIInv ==
    ASSUME IInv, NextMonth
    PROVE  IInv'
  <1>1. /\ UNCHANGED << attempts, bills, forgotten, forgottenAbove, restarts, pc, request, token, reply >>
        /\ month' = month + 1 /\ month < LastMonth
    BY DEF NextMonth, thread, lost
  <1>2. month' \in Months
    BY <1>1, BudgetAssumption DEF IInv, ThreadInv, TypeOK, Months
  <1>3. TypeOK'
    BY <1>1, <1>2 DEF IInv, ThreadInv, TypeOK
  <1>4. LedgerInv'
    BY <1>1, LedgerUnchanged DEF IInv
  <1>5. TokensValid' /\ ThreadsWell' /\ BillsKnown'
    BY <1>1 DEF IInv, ThreadInv, TokensValid, ThreadsWell, BillsKnown, Ids
  <1>6. ForgottenBounded'
    BY <1>1 DEF IInv, ThreadInv, ForgottenBounded
  <1> QED BY <1>3, <1>4, <1>5, <1>6 DEF IInv, ThreadInv

(* A restart empties the ledger; what the lost attempts were charged is    *)
(* remembered in forgotten: one more cap's worth, and what they are above. *)
LEMMA RestartKeepsIInv ==
    ASSUME IInv, Restart
    PROVE  IInv'
  <1>1. /\ attempts' = << >> /\ bills' = << >> /\ month' = month
        /\ restarts' = restarts + 1
        /\ forgotten' = [m \in Months |-> forgotten[m] + Total(BilledTo(m))]
        /\ forgottenAbove' = [m \in Months |-> forgottenAbove[m] + Total(Above(m))]
        /\ pc' = [t \in Threads |-> "idle"] /\ request' = [t \in Threads |-> NoRequest]
        /\ token' = [t \in Threads |-> 0] /\ reply' = [t \in Threads |-> NoReply]
    BY DEF Restart
  <1>2. Ids' = {} /\ Len(attempts') = 0 /\ Len(bills') = 0
    BY <1>1 DEF Ids
  <1>3. \A m \in Months : /\ forgotten[m] \in Nat /\ forgottenAbove[m] \in Nat
                         /\ Total(BilledTo(m)) \in Nat /\ Total(Above(m)) \in Nat
                         /\ Total(BilledTo(m)) <= MonthlyCap + Total(Above(m))
    BY MonthWithinCap DEF IInv, ThreadInv, TypeOK
  <1>4. TypeOK'
    <2>1. NoReply \in Reply
      BY DEF NoReply, Reply
    <2>2. forgotten' \in [Months -> Nat] /\ forgottenAbove' \in [Months -> Nat]
      BY <1>1, <1>3
    <2>3. restarts' \in Nat /\ month' \in Months
      BY <1>1 DEF IInv, ThreadInv, TypeOK
    <2>4. attempts' \in Seq(Attempt) /\ bills' \in Seq(Nat) /\ Len(bills') = Len(attempts')
      BY <1>1
    <2> QED BY <1>1, <2>1, <2>2, <2>3, <2>4 DEF TypeOK
  <1>5. ReservedWithinCaps'
    <2>1. \A m : Total(WithinVnd(m))' = 0
      BY <1>2, TotalEmpty DEF WithinVnd
    <2>2. \A c : CallsOf(c)' = 0
      BY <1>2, FS_EmptySet DEF CallsOf
    <2> QED BY <1>2, <2>1, <2>2, BudgetAssumption DEF ReservedWithinCaps
  <1>6. TokensValid' /\ PendingIsLast' /\ AttemptsWell' /\ PendingTakesAll' /\ BillsKnown'
    BY <1>1, <1>2 DEF TokensValid, PendingIsLast, AttemptsWell, PendingTakesAll, BillsKnown
  <1>7. ThreadsWell'
    BY <1>1 DEF ThreadsWell
  <1>8. ForgottenBounded'
    <2>1. (restarts + 1) * MonthlyCap = restarts * MonthlyCap + MonthlyCap
      BY BudgetAssumption DEF IInv, ThreadInv, TypeOK
    <2>2. restarts * MonthlyCap \in Nat /\ MonthlyCap \in Nat
      BY BudgetAssumption DEF IInv, ThreadInv, TypeOK
    <2> DEFINE lives == restarts * MonthlyCap
    <2>3. \A m \in Months : forgotten[m] <= lives + forgottenAbove[m]
      BY DEF IInv, ThreadInv, ForgottenBounded
    <2> HIDE DEF lives
    <2>4. lives \in Nat /\ (restarts + 1) * MonthlyCap = lives + MonthlyCap
      BY <2>1, <2>2 DEF lives
    <2>5. \A m \in Months : forgotten'[m] <= lives + MonthlyCap + forgottenAbove'[m]
      <3> SUFFICES ASSUME NEW m \in Months
                   PROVE  forgotten'[m] <= lives + MonthlyCap + forgottenAbove'[m]
        OBVIOUS
      <3>1. /\ forgotten'[m] = forgotten[m] + Total(BilledTo(m))
            /\ forgottenAbove'[m] = forgottenAbove[m] + Total(Above(m))
        BY <1>1
      <3>2. /\ forgotten[m] \in Nat /\ forgottenAbove[m] \in Nat
            /\ Total(BilledTo(m)) \in Nat /\ Total(Above(m)) \in Nat
            /\ Total(BilledTo(m)) <= MonthlyCap + Total(Above(m))
            /\ forgotten[m] <= lives + forgottenAbove[m]
        BY <1>3, <2>3
      <3> QED BY <3>1, <3>2, <2>2, <2>4
    <2> QED BY <1>1, <2>4, <2>5 DEF ForgottenBounded
  <1> QED BY <1>4, <1>5, <1>6, <1>7, <1>8 DEF IInv, LedgerInv, ThreadInv

(* The invariant is inductive: one case per action.                        *)
LEMMA NextKeepsIInv == IInv /\ [Next]_vars => IInv'
  <1> SUFFICES ASSUME IInv, [Next]_vars PROVE IInv'
    OBVIOUS
  <1>1. CASE UNCHANGED vars
    <2>1. UNCHANGED << attempts, bills, forgotten, forgottenAbove, month, restarts,
                       pc, request, token, reply >>
      BY <1>1 DEF vars, thread, lost
    <2>2. LedgerInv'
      BY <2>1, LedgerUnchanged DEF IInv
    <2>3. ThreadInv'
      BY <2>1 DEF IInv, ThreadInv, TypeOK, TokensValid, ThreadsWell, BillsKnown,
                  ForgottenBounded, Ids
    <2> QED BY <2>2, <2>3 DEF IInv
  <1>2. ASSUME NEW t \in Threads, Call(t) \/ Proceed(t) \/ Release(t)
        PROVE  IInv'
    <2>1. CASE Call(t)
      BY <2>1, CallKeepsIInv
    <2>2. CASE Refuse(t)
      BY <2>2, RefuseKeepsIInv
    <2>3. CASE Reserve(t)
      BY <2>3, ReserveKeepsIInv
    <2>4. CASE MarkDispatched(t)
      BY <2>4, DispatchKeepsIInv
    <2>5. CASE AnswerWithUsage(t) \/ AnswerWithout(t)
      BY <2>5, AnswerKeepsIInv
    <2>6. CASE Reconcile(t)
      BY <2>6, ReconcileKeepsIInv
    <2>7. CASE EscapeUnreconciled(t)
      BY <2>7, RefuseKeepsIInv
    <2>8. CASE Release(t)
      BY <2>8, ReleaseKeepsIInv
    <2> QED BY <1>2, <2>1, <2>2, <2>3, <2>4, <2>5, <2>6, <2>7, <2>8 DEF Proceed
  <1>3. CASE NextMonth
    BY <1>3, NextMonthKeepsIInv
  <1>4. CASE Restart
    BY <1>4, RestartKeepsIInv
  <1> QED BY <1>1, <1>2, <1>3, <1>4 DEF Next

LEMMA SpecIInv == Spec => []IInv
  BY InitIInv, NextKeepsIInv, PTL DEF Spec

(* The values the variables take. *)
THEOREM BudgetTypeOK == Spec => []TypeOK
  <1>1. IInv => TypeOK
    BY DEF IInv, ThreadInv
  <1> QED BY <1>1, SpecIInv, PTL

(* The caps bound what is reserved, given all that is settled and pending  *)
(* (BudgetController.reserve and reconcile), for any number of threads and *)
(* any reports: a case passes a cap only by its last call's report, and a  *)
(* month by no more than its reports exceed their reservations by.         *)
THEOREM BudgetCaps == Spec => []CapsHold
  <1>1. IInv => CapsHold
    <2> SUFFICES ASSUME IInv PROVE CapsHold
      OBVIOUS
    <2>1. ASSUME NEW i \in Ids
          PROVE  /\ Total(InBefore(i)) + attempts[i].resIn <= MaxInput
                 /\ Total(OutBefore(i)) + attempts[i].resOut <= MaxOutput
      BY BudgetAssumption DEF IInv, LedgerInv, ReservedWithinCaps
    <2> QED BY <2>1, MonthWithinCap DEF IInv, LedgerInv, ReservedWithinCaps, CapsHold
  <1> QED BY <1>1, SpecIInv, PTL

(* A case never has two calls in flight (reserve gives a call all the      *)
(* output tokens that are left).                                           *)
THEOREM BudgetOneCallPerCase == Spec => []OneCallPerCase
  <1>1. IInv => OneCallPerCase
    <2> SUFFICES ASSUME IInv, NEW i \in Ids, NEW j \in Ids,
                        attempts[i].case = attempts[j].case,
                        attempts[i].status \in Pending, attempts[j].status \in Pending
                 PROVE  i = j
      BY DEF OneCallPerCase, Pending
    <2>1. i < j \/ j < i \/ i = j
      BY DEF Ids
    <2> QED BY <2>1 DEF IInv, LedgerInv, PendingIsLast
  <1> QED BY <1>1, SpecIInv, PTL

(* A call that failed, that reported no use or that was never settled is   *)
(* the last of its case until a restart: what it keeps is all the output   *)
(* that was left (available_out of reserve).                               *)
THEOREM BudgetNextCallNeedsReport == Spec => []NextCallNeedsReport
  <1>1. IInv => NextCallNeedsReport
    <2> SUFFICES ASSUME IInv, NEW i \in Ids, NEW j \in Ids, i < j,
                        attempts[i].case = attempts[j].case,
                        attempts[i].status # "RELEASED"
                 PROVE  attempts[i].status = "RECONCILED" /\ attempts[i].actOut < attempts[i].resOut
      BY DEF NextCallNeedsReport
    <2>1. /\ i \in Nat /\ j \in Nat /\ j - 1 \in Nat /\ i \in 1..(j - 1)
          /\ \A k \in 1..(j - 1) : k \in Ids /\ attempts[k] \in Attempt
          /\ attempts[i] \in Attempt
      BY DEF IInv, ThreadInv, TypeOK, Ids
    <2>2. /\ attempts[i].actOut \in Nat /\ attempts[i].resOut \in Nat
          /\ attempts[i].status \in Statuses
      BY <2>1, AttemptFields
    <2>3. attempts[i].status = "RECONCILED"
      BY <2>2 DEF IInv, LedgerInv, PendingIsLast, Pending, Statuses
    <2>4. /\ Total(OutBefore(i)) + attempts[i].resOut = MaxOutput
          /\ Total(OutBefore(j)) + attempts[j].resOut = MaxOutput
          /\ attempts[j].resOut >= 1 /\ attempts[j].resOut \in Nat
      <3>1. attempts[j].resOut >= 1 /\ attempts[j] \in Attempt
        BY DEF IInv, LedgerInv, AttemptsWell, ThreadInv, TypeOK, Ids
      <3> QED BY <3>1, AttemptFields DEF IInv, LedgerInv, ReservedWithinCaps
    <2>5. \A k \in 1..(j - 1) : Held(attempts[k], attempts[k].resOut, attempts[k].actOut) \in Nat
      BY <2>1, AttemptFields DEF Held
    <2>6. /\ OutBefore(j) \in [1..(j - 1) -> Nat] /\ OutBefore(i) \in [1..(i - 1) -> Nat]
          /\ \A k \in 1..(i - 1) : OutBefore(i)[k] = OutBefore(j)[k]
          /\ OutBefore(j)[i] = attempts[i].actOut
      BY <2>1, <2>3, <2>5 DEF OutBefore, Held
    <2>7. Total(OutBefore(i)) + OutBefore(j)[i] <= Total(OutBefore(j))
      BY <2>1, <2>6, TotalPrefix
    <2>8. Total(OutBefore(i)) \in Nat /\ Total(OutBefore(j)) \in Nat
      <3>1. i - 1 \in Nat
        BY <2>1
      <3> QED BY <2>1, <2>6, <3>1, UnitsFinite
    <2> QED BY <2>2, <2>3, <2>4, <2>6, <2>7, <2>8, BudgetAssumption
  <1> QED BY <1>1, SpecIInv, PTL

(* The status checks of mark_dispatched and reconcile never raise in       *)
(* generate_hypothesis: a thread's token is its own.                       *)
THEOREM BudgetTokens == Spec => []TokensValid
  <1>1. IInv => TokensValid
    BY DEF IInv, ThreadInv
  <1> QED BY <1>1, SpecIInv, PTL

(* The ledger covers every charge of the provider, when the answer is lost *)
(* or malformed too (the failure paths of generate_hypothesis).            *)
THEOREM BudgetLedgerCovers == Spec => []LedgerCoversBills
  BY BillsCovered, SpecIInv, PTL

(* The charges of a month are within the cap times the number of lives of  *)
(* the process (the ledger is in memory only), but for what reports exceed *)
(* their reservations by.                                                  *)
THEOREM BudgetCharges == Spec => []ChargesBounded
  <1>1. IInv => ChargesBounded
    <2> SUFFICES ASSUME IInv, NEW m \in Months
                 PROVE  forgotten[m] + Total(BilledTo(m))
                            <= (restarts + 1) * MonthlyCap + forgottenAbove[m] + Total(Above(m))
      BY DEF ChargesBounded
    <2> DEFINE lives == restarts * MonthlyCap
    <2>1. /\ forgotten[m] \in Nat /\ forgottenAbove[m] \in Nat
          /\ forgotten[m] <= lives + forgottenAbove[m]
          /\ Total(BilledTo(m)) \in Nat /\ Total(Above(m)) \in Nat
          /\ Total(BilledTo(m)) <= MonthlyCap + Total(Above(m))
      BY MonthWithinCap DEF IInv, ThreadInv, ForgottenBounded, TypeOK
    <2>2. (restarts + 1) * MonthlyCap = lives + MonthlyCap /\ lives \in Nat /\ MonthlyCap \in Nat
      BY BudgetAssumption DEF IInv, ThreadInv, TypeOK
    <2> HIDE DEF lives
    <2> QED BY <2>1, <2>2
  <1> QED BY <1>1, SpecIInv, PTL

(* Settled figures are final: no step changes a reconciled or released     *)
(* attempt (the status checks of reconcile and release).                   *)
THEOREM BudgetSettledIsFinal == Spec => SettledIsFinal
  <1>1. IInv /\ [Next]_vars =>
          [\A i \in Ids :
              attempts[i].status \in {"RECONCILED", "RELEASED"} /\ restarts' = restarts
              => attempts'[i] = attempts[i]]_vars
    <2> SUFFICES ASSUME IInv, [Next]_vars, NEW i \in Ids,
                        attempts[i].status \in {"RECONCILED", "RELEASED"},
                        restarts' = restarts
                 PROVE  attempts'[i] = attempts[i]
      OBVIOUS
    <2>1. attempts \in Seq(Attempt) /\ restarts \in Nat /\ i \in 1..Len(attempts)
      BY DEF IInv, ThreadInv, TypeOK, Ids
    <2>2. CASE attempts' = attempts
      BY <2>2
    <2>3. ASSUME NEW t \in Threads, Reserve(t)
          PROVE  attempts'[i] = attempts[i]
      BY <2>1, <2>3 DEF Reserve
    <2>4. ASSUME NEW t \in Threads, MarkDispatched(t) \/ Release(t) \/ Reconcile(t)
          PROVE  attempts'[i] = attempts[i]
      <3>1. token[t] # i
        BY <2>4 DEF MarkDispatched, Release, Reconcile
      <3> QED BY <2>1, <2>4, <3>1 DEF MarkDispatched, Release, Reconcile, SetStatus
    <2>5. CASE Restart
      BY <2>5, <2>1 DEF Restart
    <2> QED BY <2>2, <2>3, <2>4, <2>5
        DEF Next, Proceed, Call, Refuse, AnswerWithUsage, AnswerWithout, End,
            EscapeUnreconciled, NextMonth, vars
  <1> QED BY <1>1, SpecIInv, PTL DEF Spec, SettledIsFinal
=============================================================================
