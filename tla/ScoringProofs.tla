--------------------------- MODULE ScoringProofs ---------------------------
(***************************************************************************)
(* Theorems of Scoring, for any accounts, any finite set of events and any *)
(* stream of them.                                                         *)
(***************************************************************************)
EXTENDS Scoring, FiniteSetTheorems, TLAPS

-----------------------------------------------------------------------------
(* The order of the events of a stream ev. *)

Sooner(ev, e, f) == \/ ev[e].time < ev[f].time
                    \/ ev[e].time = ev[f].time /\ e < f

LEMMA SoonerOrders ==
    ASSUME NEW ev \in Streams
    PROVE  /\ \A e \in Events : ~Sooner(ev, e, e)
           /\ \A e, f \in Events : e # f => Sooner(ev, e, f) \/ Sooner(ev, f, e)
           /\ \A e, f \in Events : ~(Sooner(ev, e, f) /\ Sooner(ev, f, e))
           /\ \A e, f, g \in Events : Sooner(ev, e, f) /\ Sooner(ev, f, g) => Sooner(ev, e, g)
           /\ \A e, f \in Events : Sooner(ev, e, f) => ev[e].time <= ev[f].time
  <1>1. \A e \in Events : e \in Nat /\ ev[e].time \in Nat
    <2>1. ev \in [Events -> Transaction] /\ MaxTime \in Nat /\ Events \subseteq Nat
      BY ScoringAssumption
    <2> QED BY <2>1 DEF Transaction, Times
  <1> QED BY <1>1 DEF Sooner

LEMMA EarlierIsSooner == \A e, f : Earlier(e, f) <=> Sooner(event, e, f)
  BY DEF Earlier, Sooner

-----------------------------------------------------------------------------
(* The groups of an account. *)

Group == [neighbor : Accounts, edges : Seq(Events)]

(* The groups hold the edges E, each with its neighbour: a group for each  *)
(* of them, in the order of their first edges, and in a group the edges in *)
(* their order.                                                            *)
Grouping(ev, groups, E, neighbor) ==
    /\ groups \in Seq(Group)
    /\ \A i \in DOMAIN groups : groups[i].edges # << >>
    /\ \A i \in DOMAIN groups : \A j \in DOMAIN groups[i].edges :
          groups[i].edges[j] \in E /\ neighbor[groups[i].edges[j]] = groups[i].neighbor
    /\ \A i, k \in DOMAIN groups : i # k => groups[i].neighbor # groups[k].neighbor
    /\ \A e \in E : \E i \in DOMAIN groups : \E j \in DOMAIN groups[i].edges :
          groups[i].edges[j] = e
    /\ \A i \in DOMAIN groups : \A j, l \in DOMAIN groups[i].edges :
          j < l => Sooner(ev, groups[i].edges[j], groups[i].edges[l])
    /\ \A i, k \in DOMAIN groups : i < k => Sooner(ev, groups[i].edges[1], groups[k].edges[1])

LEMMA NoGroups == ASSUME NEW ev, NEW neighbor PROVE Grouping(ev, << >>, {}, neighbor)
  BY DEF Grouping

(* A later event joins the groups as ingest says. *)
LEMMA GroupedKeeps ==
    ASSUME NEW ev \in Streams, NEW groups, NEW E \in SUBSET Events, NEW neighbor,
           Grouping(ev, groups, E, neighbor),
           NEW e \in Events, \A f \in E : Sooner(ev, f, e),
           NEW n \in Accounts, neighbor[e] = n
    PROVE  Grouping(ev, Grouped(groups, n, e), E \cup {e}, neighbor)
  <1>1. /\ groups \in Seq(Group) /\ DOMAIN groups = 1..Len(groups) /\ Len(groups) \in Nat
        /\ \A i \in DOMAIN groups : /\ groups[i] \in Group
                                    /\ groups[i].neighbor \in Accounts
                                    /\ groups[i].edges \in Seq(Events)
    <2>1. groups \in Seq(Group)
      BY DEF Grouping
    <2>2. \A i \in DOMAIN groups : groups[i] \in Group
      BY <2>1
    <2>3. \A i \in DOMAIN groups : groups[i].neighbor \in Accounts /\ groups[i].edges \in Seq(Events)
      BY <2>2 DEF Group
    <2> QED BY <2>1, <2>2, <2>3
  <1>2. /\ \A i \in DOMAIN groups : groups[i].edges # << >>
        /\ \A i \in DOMAIN groups : \A j \in DOMAIN groups[i].edges :
              groups[i].edges[j] \in E /\ neighbor[groups[i].edges[j]] = groups[i].neighbor
        /\ \A i, k \in DOMAIN groups : i # k => groups[i].neighbor # groups[k].neighbor
        /\ \A f \in E : \E i \in DOMAIN groups : \E j \in DOMAIN groups[i].edges :
              groups[i].edges[j] = f
        /\ \A i \in DOMAIN groups : \A j, l \in DOMAIN groups[i].edges :
              j < l => Sooner(ev, groups[i].edges[j], groups[i].edges[l])
        /\ \A i, k \in DOMAIN groups : i < k => Sooner(ev, groups[i].edges[1], groups[k].edges[1])
    BY DEF Grouping
  <1>3. \A i \in DOMAIN groups : /\ DOMAIN groups[i].edges = 1..Len(groups[i].edges)
                                 /\ Len(groups[i].edges) \in Nat \ {0}
                                 /\ 1 \in DOMAIN groups[i].edges
    BY <1>1, <1>2
  <1>4. CASE \E x \in DOMAIN groups : groups[x].neighbor = n
    <2>1. PICK x \in DOMAIN groups : groups[x].neighbor = n
      BY <1>4
    <2> DEFINE joined == [groups[x] EXCEPT !.edges = Append(@, e)]
               new == [groups EXCEPT ![x] = joined]
               es == Append(groups[x].edges, e)
    <2>2. Grouped(groups, n, e) = new
      <3>1. \A i \in DOMAIN groups : groups[i].neighbor = n <=> i = x
        BY <1>2, <2>1
      <3> QED BY <1>1, <1>4, <3>1 DEF Grouped
    <2>3. /\ joined \in Group /\ joined.neighbor = n /\ joined.edges = es
          /\ es \in Seq(Events) /\ Len(es) = Len(groups[x].edges) + 1
          /\ DOMAIN es = 1..(Len(groups[x].edges) + 1)
          /\ \A j \in DOMAIN groups[x].edges : es[j] = groups[x].edges[j]
          /\ es[Len(groups[x].edges) + 1] = e
      <3>1. groups[x] \in Group /\ groups[x].edges \in Seq(Events)
        BY <1>1
      <3>2. es \in Seq(Events)
        BY <3>1
      <3>3. /\ Len(es) = Len(groups[x].edges) + 1
            /\ DOMAIN es = 1..(Len(groups[x].edges) + 1)
            /\ \A j \in DOMAIN groups[x].edges : es[j] = groups[x].edges[j]
            /\ es[Len(groups[x].edges) + 1] = e
        BY <3>1
      <3> HIDE DEF es
      <3>4. groups[x] = [neighbor |-> n, edges |-> groups[x].edges]
        BY <2>1, <3>1 DEF Group
      <3>5. joined = [neighbor |-> n, edges |-> es]
        BY <3>4 DEF es
      <3>6. joined \in Group /\ joined.neighbor = n /\ joined.edges = es
        <4> HIDE DEF joined
        <4> QED BY <3>2, <3>5 DEF Group
      <3> QED BY <3>2, <3>3, <3>6
    <2> HIDE DEF joined, es
    <2>4. /\ new \in Seq(Group) /\ DOMAIN new = DOMAIN groups
          /\ new[x] = joined
          /\ \A i \in DOMAIN groups : i # x => new[i] = groups[i]
          /\ \A i \in DOMAIN groups : new[i].neighbor = groups[i].neighbor
      BY <1>1, <2>1, <2>3
    <2> HIDE DEF new
    <2>5. \A j \in DOMAIN es : \/ j \in DOMAIN groups[x].edges /\ es[j] = groups[x].edges[j]
                               \/ j = Len(groups[x].edges) + 1 /\ es[j] = e
      BY <1>3, <2>1, <2>3
    <2>6. \A i \in DOMAIN new : new[i].edges # << >>
      <3>1. es # << >>
        BY <1>3, <2>1, <2>3
      <3> QED BY <1>2, <2>3, <2>4, <3>1
    <2>7. \A i \in DOMAIN new : \A j \in DOMAIN new[i].edges :
             new[i].edges[j] \in E \cup {e} /\ neighbor[new[i].edges[j]] = new[i].neighbor
      <3>1. \A j \in DOMAIN es : es[j] \in E \cup {e} /\ neighbor[es[j]] = n
        BY <1>2, <2>1, <2>5
      <3> QED BY <1>2, <2>3, <2>4, <3>1
    <2>8. \A i, k \in DOMAIN new : i # k => new[i].neighbor # new[k].neighbor
      BY <1>2, <2>4
    <2>9. \A f \in E \cup {e} : \E i \in DOMAIN new : \E j \in DOMAIN new[i].edges :
             new[i].edges[j] = f
      <3>1. ASSUME NEW f \in E
            PROVE  \E i \in DOMAIN new : \E j \in DOMAIN new[i].edges : new[i].edges[j] = f
        <4>1. PICK i \in DOMAIN groups : \E j \in DOMAIN groups[i].edges : groups[i].edges[j] = f
          BY <1>2
        <4>2. PICK j \in DOMAIN groups[i].edges : groups[i].edges[j] = f
          BY <4>1
        <4>3. CASE i = x
          <5>1. j \in DOMAIN es /\ es[j] = f
            BY <1>3, <2>3, <4>2, <4>3
          <5> QED BY <2>1, <2>3, <2>4, <5>1
        <4>4. CASE i # x
          BY <2>4, <4>2, <4>4
        <4> QED BY <4>3, <4>4
      <3>2. \E j \in DOMAIN es : es[j] = e
        BY <1>3, <2>1, <2>3
      <3>3. \E i \in DOMAIN new : \E j \in DOMAIN new[i].edges : new[i].edges[j] = e
        BY <2>1, <2>3, <2>4, <3>2
      <3> QED BY <3>1, <3>3
    <2>10. \A i \in DOMAIN new : \A j, l \in DOMAIN new[i].edges :
              j < l => Sooner(ev, new[i].edges[j], new[i].edges[l])
      <3>1. ASSUME NEW j \in DOMAIN es, NEW l \in DOMAIN es, j < l
            PROVE  Sooner(ev, es[j], es[l])
        <4>1. j \in DOMAIN groups[x].edges /\ es[j] = groups[x].edges[j]
          BY <1>3, <2>1, <2>3, <3>1
        <4>2. es[j] \in E
          BY <1>2, <2>1, <4>1
        <4>3. CASE l \in DOMAIN groups[x].edges /\ es[l] = groups[x].edges[l]
          BY <1>2, <2>1, <3>1, <4>1, <4>3
        <4>4. CASE es[l] = e
          BY <4>2, <4>4
        <4> QED BY <2>5, <4>3, <4>4
      <3> SUFFICES ASSUME NEW i \in DOMAIN new, NEW j \in DOMAIN new[i].edges,
                          NEW l \in DOMAIN new[i].edges, j < l
                   PROVE  Sooner(ev, new[i].edges[j], new[i].edges[l])
        OBVIOUS
      <3>2. CASE i = x
        BY <2>3, <2>4, <3>1, <3>2
      <3>3. CASE i # x
        BY <1>2, <2>4, <3>3
      <3> QED BY <3>2, <3>3
    <2>11. \A i, k \in DOMAIN new : i < k => Sooner(ev, new[i].edges[1], new[k].edges[1])
      <3>1. \A i \in DOMAIN new : new[i].edges[1] = groups[i].edges[1]
        <4>1. es[1] = groups[x].edges[1]
          BY <1>3, <2>3
        <4> QED BY <2>3, <2>4, <4>1
      <3> QED BY <1>2, <2>4, <3>1
    <2>12. new \in Seq(Group)
      BY <2>4
    <2>13. Grouping(ev, new, E \cup {e}, neighbor)
      BY <2>6, <2>7, <2>8, <2>9, <2>10, <2>11, <2>12 DEF Grouping
    <2> QED BY <2>2, <2>13
  <1>5. CASE ~ \E x \in DOMAIN groups : groups[x].neighbor = n
    <2> DEFINE last == [neighbor |-> n, edges |-> << e >>]
               new == Append(groups, last)
               m == Len(groups) + 1
    <2>1. Grouped(groups, n, e) = new
      BY <1>5 DEF Grouped
    <2>2. /\ last \in Group /\ last.neighbor = n /\ last.edges = << e >>
          /\ DOMAIN last.edges = {1} /\ last.edges[1] = e /\ last.edges # << >>
      BY DEF Group
    <2> HIDE DEF last
    <2>3. /\ new \in Seq(Group) /\ DOMAIN new = 1..m /\ m \in Nat
          /\ new[m] = last /\ m \in DOMAIN new
          /\ \A i \in DOMAIN groups : new[i] = groups[i] /\ i \in DOMAIN new
          /\ \A i \in DOMAIN new : i = m \/ i \in DOMAIN groups
          /\ \A i \in DOMAIN groups : i \in Nat /\ i < m
      BY <1>1, <2>2
    <2> HIDE DEF new, m
    <2>4. \A i \in DOMAIN new : new[i].edges # << >>
      BY <1>2, <2>2, <2>3
    <2>5. \A i \in DOMAIN new : \A j \in DOMAIN new[i].edges :
             new[i].edges[j] \in E \cup {e} /\ neighbor[new[i].edges[j]] = new[i].neighbor
      BY <1>2, <2>2, <2>3
    <2>6. \A i, k \in DOMAIN new : i # k => new[i].neighbor # new[k].neighbor
      BY <1>2, <1>5, <2>2, <2>3
    <2>7. \A f \in E \cup {e} : \E i \in DOMAIN new : \E j \in DOMAIN new[i].edges :
             new[i].edges[j] = f
      <3>1. \E j \in DOMAIN new[m].edges : new[m].edges[j] = e
        BY <2>2, <2>3
      <3>2. \A f \in E : \E i \in DOMAIN groups : \E j \in DOMAIN new[i].edges : new[i].edges[j] = f
        BY <1>2, <2>3
      <3> QED BY <2>3, <3>1, <3>2
    <2>8. \A i \in DOMAIN new : \A j, l \in DOMAIN new[i].edges :
             j < l => Sooner(ev, new[i].edges[j], new[i].edges[l])
      BY <1>2, <2>2, <2>3
    <2>9. \A i, k \in DOMAIN new : i < k => Sooner(ev, new[i].edges[1], new[k].edges[1])
      <3> SUFFICES ASSUME NEW i \in DOMAIN new, NEW k \in DOMAIN new, i < k
                   PROVE  Sooner(ev, new[i].edges[1], new[k].edges[1])
        OBVIOUS
      <3>1. i \in DOMAIN groups
        BY <2>3
      <3>2. CASE k \in DOMAIN groups
        BY <1>2, <2>3, <3>1, <3>2
      <3>3. CASE k = m
        <4>1. new[i].edges[1] \in E
          BY <1>2, <1>3, <2>3, <3>1
        <4> QED BY <2>2, <2>3, <3>3, <4>1
      <3> QED BY <2>3, <3>2, <3>3
    <2>10. new \in Seq(Group)
      BY <2>3
    <2>11. Grouping(ev, new, E \cup {e}, neighbor)
      BY <2>4, <2>5, <2>6, <2>7, <2>8, <2>9, <2>10 DEF Grouping
    <2> QED BY <2>1, <2>11
  <1> QED BY <1>4, <1>5

(* Groups are added up as the neighbours of a graph with the same edges    *)
(* are iterated over.                                                      *)
LEMMA GroupingAdds ==
    ASSUME event \in Streams, NEW groups, NEW E \in SUBSET Events, NEW nb, NEW neighbor,
           Grouping(event, groups, E, nb), \A e \in E : neighbor[e] = nb[e]
    PROVE  Amounts(groups) = Iterated(E, neighbor)
  <1>1. /\ groups \in Seq(Group) /\ DOMAIN groups = 1..Len(groups) /\ Len(groups) \in Nat
        /\ \A i \in DOMAIN groups : groups[i].edges \in Seq(Events)
    <2>1. groups \in Seq(Group)
      BY DEF Grouping
    <2>2. \A i \in DOMAIN groups : groups[i] \in Group
      BY <2>1
    <2>3. \A i \in DOMAIN groups : groups[i].edges \in Seq(Events)
      BY <2>2 DEF Group
    <2> QED BY <2>1, <2>3
  <1>2. /\ \A i \in DOMAIN groups : groups[i].edges # << >>
        /\ \A i \in DOMAIN groups : \A j \in DOMAIN groups[i].edges :
              groups[i].edges[j] \in E /\ neighbor[groups[i].edges[j]] = groups[i].neighbor
        /\ \A i, k \in DOMAIN groups : i # k => groups[i].neighbor # groups[k].neighbor
        /\ \A f \in E : \E i \in DOMAIN groups : \E j \in DOMAIN groups[i].edges :
              groups[i].edges[j] = f
        /\ \A i \in DOMAIN groups : \A j, l \in DOMAIN groups[i].edges :
              j < l => Earlier(groups[i].edges[j], groups[i].edges[l])
        /\ \A i, k \in DOMAIN groups : i < k => Earlier(groups[i].edges[1], groups[k].edges[1])
    BY EarlierIsSooner DEF Grouping
  <1>3. \A i \in DOMAIN groups : /\ i \in Nat
                                 /\ DOMAIN groups[i].edges = 1..Len(groups[i].edges)
                                 /\ 1 \in DOMAIN groups[i].edges
                                 /\ \A j \in DOMAIN groups[i].edges : j \in Nat /\ 1 <= j
    BY <1>1, <1>2
  <1>4. /\ \A e \in Events : ~Earlier(e, e)
        /\ \A e, f \in Events : e # f => Earlier(e, f) \/ Earlier(f, e)
        /\ \A e, f \in Events : ~(Earlier(e, f) /\ Earlier(f, e))
    BY EarlierIsSooner, SoonerOrders
  <1> DEFINE at(i, j) == groups[i].edges[j]
             head(i) == groups[i].edges[1]
  <1>5. ASSUME NEW i \in DOMAIN groups, NEW j \in DOMAIN groups[i].edges
        PROVE  First(E, neighbor, at(i, j)) = head(i)
    <2> DEFINE Is(f) == /\ neighbor[f] = neighbor[at(i, j)]
                        /\ \A g \in E : neighbor[g] = neighbor[at(i, j)] => ~Earlier(g, f)
    <2>1. head(i) \in E /\ neighbor[head(i)] = groups[i].neighbor
          /\ neighbor[at(i, j)] = groups[i].neighbor
      BY <1>2, <1>3
    <2>2. ASSUME NEW g \in E, neighbor[g] = groups[i].neighbor
          PROVE  g = head(i) \/ Earlier(head(i), g)
      <3>1. PICK k \in DOMAIN groups : \E l \in DOMAIN groups[k].edges : groups[k].edges[l] = g
        BY <1>2
      <3>2. PICK l \in DOMAIN groups[k].edges : groups[k].edges[l] = g
        BY <3>1
      <3>3. k = i
        BY <1>2, <2>2, <3>2
      <3>4. l = 1 \/ 1 < l
        BY <1>3, <3>3
      <3> QED BY <1>2, <1>3, <3>2, <3>3, <3>4
    <2>3. Is(head(i))
      BY <1>4, <2>1, <2>2
    <2>4. ASSUME NEW f \in E, Is(f) PROVE f = head(i)
      BY <2>1, <2>2, <2>4
    <2>5. First(E, neighbor, at(i, j)) = CHOOSE f \in E : Is(f)
      BY DEF First
    <2> HIDE DEF Is
    <2> QED BY <2>1, <2>3, <2>4, <2>5
  <1> DEFINE edges == UNION {Range(groups[i].edges) : i \in DOMAIN groups}
             added(e, f) == \E i, k \in DOMAIN groups :
                \E j \in DOMAIN groups[i].edges, l \in DOMAIN groups[k].edges :
                   /\ << e, f >> = << groups[i].edges[j], groups[k].edges[l] >>
                   /\ i < k \/ (i = k /\ j < l)
             iterated(e, f) ==
                IF neighbor[e] = neighbor[f] THEN Earlier(e, f)
                ELSE Earlier(First(E, neighbor, e), First(E, neighbor, f))
  <1>6. edges = E
    BY <1>2 DEF Range
  <1>7. ASSUME NEW e \in E, NEW f \in E PROVE added(e, f) <=> iterated(e, f)
    <2>1. PICK i \in DOMAIN groups : \E j \in DOMAIN groups[i].edges : groups[i].edges[j] = e
      BY <1>2
    <2>2. PICK j \in DOMAIN groups[i].edges : groups[i].edges[j] = e
      BY <2>1
    <2>3. PICK k \in DOMAIN groups : \E l \in DOMAIN groups[k].edges : groups[k].edges[l] = f
      BY <1>2
    <2>4. PICK l \in DOMAIN groups[k].edges : groups[k].edges[l] = f
      BY <2>3
    <2>5. neighbor[e] = groups[i].neighbor /\ neighbor[f] = groups[k].neighbor
      BY <1>2, <2>2, <2>4
    <2>6. First(E, neighbor, e) = head(i) /\ First(E, neighbor, f) = head(k)
      BY <1>5, <2>2, <2>4
    <2>7. head(i) \in Events /\ head(k) \in Events /\ e \in Events /\ f \in Events
      BY <1>2, <1>3
    <2>8. \A b \in DOMAIN groups : \A c \in DOMAIN groups[b].edges :
             groups[b].edges[c] = e => b = i /\ c = j
      <3> SUFFICES ASSUME NEW b \in DOMAIN groups, NEW c \in DOMAIN groups[b].edges,
                          groups[b].edges[c] = e
                   PROVE  b = i /\ c = j
        OBVIOUS
      <3>1. b = i
        BY <1>2, <2>5
      <3>2. c \in Nat /\ j \in Nat /\ ~(c < j) /\ ~(j < c)
        BY <1>2, <1>3, <1>4, <2>2, <2>7, <3>1
      <3> QED BY <3>1, <3>2
    <2>9. \A b \in DOMAIN groups : \A c \in DOMAIN groups[b].edges :
             groups[b].edges[c] = f => b = k /\ c = l
      <3> SUFFICES ASSUME NEW b \in DOMAIN groups, NEW c \in DOMAIN groups[b].edges,
                          groups[b].edges[c] = f
                   PROVE  b = k /\ c = l
        OBVIOUS
      <3>1. b = k
        BY <1>2, <2>5
      <3>2. c \in Nat /\ l \in Nat /\ ~(c < l) /\ ~(l < c)
        BY <1>2, <1>3, <1>4, <2>4, <2>7, <3>1
      <3> QED BY <3>1, <3>2
    <2>10. added(e, f) <=> i < k \/ (i = k /\ j < l)
      BY <2>2, <2>4, <2>8, <2>9
    <2> HIDE DEF added
    <2>11. i \in Nat /\ k \in Nat /\ j \in Nat /\ l \in Nat
      BY <1>3
    <2>12. CASE i = k
      <3>1. iterated(e, f) <=> Earlier(e, f)
        BY <2>5, <2>12
      <3>2. Earlier(e, f) <=> j < l
        <4>1. j < l => Earlier(e, f)
          BY <1>2, <2>2, <2>4, <2>12
        <4>2. l < j => Earlier(f, e)
          BY <1>2, <2>2, <2>4, <2>12
        <4>3. j = l => e = f
          BY <2>2, <2>4, <2>12
        <4> QED BY <1>4, <2>7, <2>11, <4>1, <4>2, <4>3
      <3> QED BY <2>10, <2>11, <2>12, <3>1, <3>2
    <2>13. CASE i # k
      <3>1. iterated(e, f) <=> Earlier(head(i), head(k))
        BY <1>2, <2>5, <2>6, <2>13
      <3>2. Earlier(head(i), head(k)) <=> i < k
        <4>1. i < k => Earlier(head(i), head(k))
          BY <1>2
        <4>2. k < i => Earlier(head(k), head(i))
          BY <1>2
        <4> QED BY <1>4, <2>7, <2>11, <2>13, <4>1, <4>2
      <3> QED BY <2>10, <2>11, <2>13, <3>1, <3>2
    <2> QED BY <2>12, <2>13
  <1> DEFINE sums == {p \in E \X E : \E i, k \in DOMAIN groups :
                \E j \in DOMAIN groups[i].edges, l \in DOMAIN groups[k].edges :
                   /\ p = << groups[i].edges[j], groups[k].edges[l] >>
                   /\ i < k \/ (i = k /\ j < l)}
             order == {p \in E \X E :
                IF neighbor[p[1]] = neighbor[p[2]] THEN Earlier(p[1], p[2])
                ELSE Earlier(First(E, neighbor, p[1]), First(E, neighbor, p[2]))}
  <1>8. \A e, f \in E : << e, f >> \in sums <=> added(e, f)
    OBVIOUS
  <1>9. \A e, f \in E : << e, f >> \in order <=> iterated(e, f)
    OBVIOUS
  <1>10. sums \subseteq E \X E /\ order \subseteq E \X E
    OBVIOUS
  <1>11. Amounts(groups) = [edges |-> E, before |-> sums]
    BY <1>6 DEF Amounts
  <1>12. Iterated(E, neighbor) = [edges |-> E, before |-> order]
    BY DEF Iterated
  <1> HIDE DEF sums, order, added, iterated
  <1>13. sums = order
    BY <1>7, <1>8, <1>9, <1>10
  <1> QED BY <1>11, <1>12, <1>13

-----------------------------------------------------------------------------
(* The invariant. *)

Sources == [e \in Events |-> event[e].source]
Targets == [e \in Events |-> event[e].target]

Into(a) == {e \in Range(seen) : event[e].target = a}
OutOf(a) == {e \in Range(seen) : event[e].source = a}

(* What was let in is in order, both tables group it, and what was not let *)
(* in came too late.                                                       *)
IInv == /\ event \in Streams
        /\ delivered \subseteq Events
        /\ seen \in Seq(Events)
        /\ \A i, j \in DOMAIN seen : i < j => Sooner(event, seen[i], seen[j])
        /\ \A e \in delivered \ Range(seen) : \E f \in Range(seen) : Sooner(event, e, f)
        /\ DOMAIN incoming = Accounts /\ DOMAIN outgoing = Accounts
        /\ \A a \in Accounts : /\ Grouping(event, incoming[a], Into(a), Sources)
                               /\ Grouping(event, outgoing[a], OutOf(a), Targets)

LEMMA StreamsAreTransactions ==
    ASSUME NEW ev \in Streams, NEW e \in Events
    PROVE  ev[e].source \in Accounts /\ ev[e].target \in Accounts /\ ev[e].time \in Times
  <1>1. ev[e] \in Transaction
    BY ScoringAssumption
  <1> QED BY <1>1 DEF Transaction

(* The last event is the latest. *)
LEMMA LastIsLatest ==
    ASSUME IInv, seen # << >>
    PROVE  /\ Last(seen) \in Range(seen) /\ Last(seen) \in Events
           /\ \A f \in Range(seen) : f = Last(seen) \/ Sooner(event, f, Last(seen))
  <1>1. seen \in Seq(Events) /\ DOMAIN seen = 1..Len(seen) /\ Len(seen) \in DOMAIN seen
        /\ Len(seen) \in Nat
    BY DEF IInv
  <1>2. \A i \in DOMAIN seen : i = Len(seen) \/ i < Len(seen)
    BY <1>1
  <1>3. \A i \in DOMAIN seen : seen[i] = seen[Len(seen)] \/ Sooner(event, seen[i], seen[Len(seen)])
    BY <1>1, <1>2 DEF IInv
  <1>4. seen[Len(seen)] \in Events
    BY <1>1
  <1> QED BY <1>1, <1>3, <1>4 DEF Last, Range

LEMMA ScoringInit == Init => IInv
  <1> SUFFICES ASSUME Init PROVE IInv
    OBVIOUS
  <1>1. /\ event \in Streams /\ delivered = {} /\ seen = << >>
        /\ incoming = [a \in Accounts |-> << >>] /\ outgoing = [a \in Accounts |-> << >>]
    BY DEF Init
  <1>2. Range(seen) = {}
    BY <1>1 DEF Range
  <1>3. \A a \in Accounts : Into(a) = {} /\ OutOf(a) = {}
    BY <1>2 DEF Into, OutOf
  <1>4. \A a \in Accounts : incoming[a] = << >> /\ outgoing[a] = << >>
    BY <1>1
  <1>5. \A a \in Accounts : /\ Grouping(event, incoming[a], Into(a), Sources)
                            /\ Grouping(event, outgoing[a], OutOf(a), Targets)
    BY <1>3, <1>4, NoGroups
  <1>6. seen \in Seq(Events) /\ \A i, j \in DOMAIN seen : i < j => Sooner(event, seen[i], seen[j])
    BY <1>1
  <1> QED BY <1>1, <1>5, <1>6 DEF IInv

LEMMA IngestKeeps ==
    ASSUME IInv, NEW e \in Events, Ingest(e)
    PROVE  IInv'
  <1>1. /\ event \in Streams /\ delivered \subseteq Events /\ seen \in Seq(Events)
        /\ \A i, j \in DOMAIN seen : i < j => Sooner(event, seen[i], seen[j])
        /\ \A f \in delivered \ Range(seen) : \E g \in Range(seen) : Sooner(event, f, g)
        /\ DOMAIN incoming = Accounts /\ DOMAIN outgoing = Accounts
        /\ \A a \in Accounts : /\ Grouping(event, incoming[a], Into(a), Sources)
                               /\ Grouping(event, outgoing[a], OutOf(a), Targets)
    BY DEF IInv
  <1>2. /\ e \notin Range(seen) /\ InOrder(e)
        /\ delivered' = delivered \cup {e} /\ seen' = Append(seen, e) /\ event' = event
        /\ incoming' = [incoming EXCEPT ![event[e].target] = Grouped(@, event[e].source, e)]
        /\ outgoing' = [outgoing EXCEPT ![event[e].source] = Grouped(@, event[e].target, e)]
    BY DEF Ingest
  <1>3. event[e].source \in Accounts /\ event[e].target \in Accounts
    BY <1>1, StreamsAreTransactions
  <1>4. Range(seen) \subseteq Events
    BY <1>1 DEF Range
  <1>5. /\ seen' \in Seq(Events) /\ DOMAIN seen' = 1..(Len(seen) + 1)
        /\ DOMAIN seen = 1..Len(seen) /\ Len(seen) \in Nat
        /\ \A i \in DOMAIN seen : seen'[i] = seen[i]
        /\ seen'[Len(seen) + 1] = e
    BY <1>1, <1>2
  <1>6. Range(seen') = Range(seen) \cup {e}
    <2>1. \A i \in DOMAIN seen' : i \in DOMAIN seen \/ i = Len(seen) + 1
      BY <1>5
    <2>2. DOMAIN seen \subseteq DOMAIN seen' /\ Len(seen) + 1 \in DOMAIN seen'
      BY <1>5
    <2> QED BY <1>5, <2>1, <2>2 DEF Range
  <1>7. \A f \in Range(seen) : Sooner(event, f, e)
    <2>1. CASE seen = << >>
      BY <2>1 DEF Range
    <2>2. CASE seen # << >>
      <3>1. Sooner(event, Last(seen), e)
        BY <1>2, <2>2, EarlierIsSooner DEF InOrder
      <3>2. /\ Last(seen) \in Events
            /\ \A f \in Range(seen) : f = Last(seen) \/ Sooner(event, f, Last(seen))
        BY <2>2, LastIsLatest
      <3> QED BY <1>1, <1>4, <3>1, <3>2, SoonerOrders
    <2> QED BY <2>1, <2>2
  <1>8. \A i, j \in DOMAIN seen' : i < j => Sooner(event, seen'[i], seen'[j])
    <2> SUFFICES ASSUME NEW i \in DOMAIN seen', NEW j \in DOMAIN seen', i < j
                 PROVE  Sooner(event, seen'[i], seen'[j])
      OBVIOUS
    <2>1. i \in DOMAIN seen /\ seen'[i] = seen[i]
      BY <1>5
    <2>2. seen[i] \in Range(seen)
      BY <2>1 DEF Range
    <2>3. j \in DOMAIN seen \/ j = Len(seen) + 1
      BY <1>5
    <2> QED BY <1>1, <1>5, <1>7, <2>1, <2>2, <2>3
  <1>9. \A f \in delivered' \ Range(seen') : \E g \in Range(seen') : Sooner(event, f, g)
    BY <1>1, <1>2, <1>6
  <1>10. DOMAIN incoming' = Accounts /\ DOMAIN outgoing' = Accounts
    BY <1>1, <1>2
  <1>11. ASSUME NEW a \in Accounts
         PROVE  Grouping(event, incoming'[a], Into(a)', Sources)
    <2>1. Into(a)' = {f \in Range(seen) \cup {e} : event[f].target = a}
      BY <1>2, <1>6 DEF Into
    <2>2. Into(a) \in SUBSET Events /\ \A f \in Into(a) : Sooner(event, f, e)
      BY <1>4, <1>7 DEF Into
    <2>3. CASE a = event[e].target
      <3>1. Into(a)' = Into(a) \cup {e}
        BY <2>1, <2>3 DEF Into
      <3>2. incoming'[a] = Grouped(incoming[a], event[e].source, e)
        BY <1>1, <1>2, <2>3
      <3>3. Sources[e] = event[e].source
        BY DEF Sources
      <3>4. PICK groups, E, neighbor, n :
               groups = incoming[a] /\ E = Into(a) /\ neighbor = Sources /\ n = event[e].source
        OBVIOUS
      <3>5. /\ Grouping(event, groups, E, neighbor) /\ event \in Streams
            /\ E \in SUBSET Events /\ \A f \in E : Sooner(event, f, e)
            /\ n \in Accounts /\ neighbor[e] = n
        BY <1>1, <1>3, <2>2, <3>3, <3>4
      <3>6. Grouping(event, Grouped(groups, n, e), E \cup {e}, neighbor)
        BY <3>5, GroupedKeeps
      <3> QED BY <3>1, <3>2, <3>4, <3>6
    <2>4. CASE a # event[e].target
      <3>1. Into(a)' = Into(a)
        BY <2>1, <2>4 DEF Into
      <3>2. incoming'[a] = incoming[a]
        BY <1>1, <1>2, <2>4
      <3> QED BY <1>1, <3>1, <3>2
    <2> QED BY <2>3, <2>4
  <1>12. ASSUME NEW a \in Accounts
         PROVE  Grouping(event, outgoing'[a], OutOf(a)', Targets)
    <2>1. OutOf(a)' = {f \in Range(seen) \cup {e} : event[f].source = a}
      BY <1>2, <1>6 DEF OutOf
    <2>2. OutOf(a) \in SUBSET Events /\ \A f \in OutOf(a) : Sooner(event, f, e)
      BY <1>4, <1>7 DEF OutOf
    <2>3. CASE a = event[e].source
      <3>1. OutOf(a)' = OutOf(a) \cup {e}
        BY <2>1, <2>3 DEF OutOf
      <3>2. outgoing'[a] = Grouped(outgoing[a], event[e].target, e)
        BY <1>1, <1>2, <2>3
      <3>3. Targets[e] = event[e].target
        BY DEF Targets
      <3>4. PICK groups, E, neighbor, n :
               groups = outgoing[a] /\ E = OutOf(a) /\ neighbor = Targets /\ n = event[e].target
        OBVIOUS
      <3>5. /\ Grouping(event, groups, E, neighbor) /\ event \in Streams
            /\ E \in SUBSET Events /\ \A f \in E : Sooner(event, f, e)
            /\ n \in Accounts /\ neighbor[e] = n
        BY <1>1, <1>3, <2>2, <3>3, <3>4
      <3>6. Grouping(event, Grouped(groups, n, e), E \cup {e}, neighbor)
        BY <3>5, GroupedKeeps
      <3> QED BY <3>1, <3>2, <3>4, <3>6
    <2>4. CASE a # event[e].source
      <3>1. OutOf(a)' = OutOf(a)
        BY <2>1, <2>4 DEF OutOf
      <3>2. outgoing'[a] = outgoing[a]
        BY <1>1, <1>2, <2>4
      <3> QED BY <1>1, <3>1, <3>2
    <2> QED BY <2>3, <2>4
  <1>13. Sources' = Sources /\ Targets' = Targets
    BY <1>2 DEF Sources, Targets
  <1>14. /\ event' \in Streams /\ delivered' \subseteq Events
         /\ \A i, j \in DOMAIN seen' : i < j => Sooner(event', seen'[i], seen'[j])
         /\ \A f \in delivered' \ Range(seen') : \E g \in Range(seen') : Sooner(event', f, g)
    BY <1>1, <1>2, <1>8, <1>9
  <1>15. \A a \in Accounts : /\ Grouping(event', incoming'[a], Into(a)', Sources')
                             /\ Grouping(event', outgoing'[a], OutOf(a)', Targets')
    BY <1>2, <1>11, <1>12, <1>13
  <1> QED BY <1>5, <1>10, <1>14, <1>15 DEF IInv

LEMMA RefuseKeeps ==
    ASSUME IInv, NEW e \in Events, Refuse(e)
    PROVE  IInv'
  <1>1. /\ e \in Range(seen) \/ ~InOrder(e)
        /\ delivered' = delivered \cup {e} /\ UNCHANGED << event, incoming, outgoing, seen >>
    BY DEF Refuse, acc
  <1>2. e \in Range(seen) \/ \E f \in Range(seen) : Sooner(event, e, f)
    <2> SUFFICES ASSUME e \notin Range(seen) PROVE \E f \in Range(seen) : Sooner(event, e, f)
      OBVIOUS
    <2>1. seen # << >> /\ ~Sooner(event, Last(seen), e)
      BY <1>1, EarlierIsSooner DEF InOrder
    <2>2. Last(seen) \in Range(seen) /\ Last(seen) \in Events
      BY <2>1, LastIsLatest
    <2>3. event \in Streams
      BY DEF IInv
    <2> QED BY <2>1, <2>2, <2>3, SoonerOrders
  <1>3. \A f \in delivered' \ Range(seen) : \E g \in Range(seen) : Sooner(event, f, g)
    BY <1>1, <1>2 DEF IInv
  <1>4. \A a : Into(a)' = Into(a) /\ OutOf(a)' = OutOf(a)
    BY <1>1 DEF Into, OutOf
  <1>5. Sources' = Sources /\ Targets' = Targets
    BY <1>1 DEF Sources, Targets
  <1> QED BY <1>1, <1>3, <1>4, <1>5 DEF IInv

LEMMA ScoringInv == Spec => []IInv
  <1>1. IInv /\ [Next]_vars => IInv'
    <2> SUFFICES ASSUME IInv, [Next]_vars PROVE IInv'
      OBVIOUS
    <2>1. ASSUME NEW e \in Events, Ingest(e) \/ Refuse(e) PROVE IInv'
      BY <2>1, IngestKeeps, RefuseKeeps
    <2>2. CASE UNCHANGED vars
      <3>1. UNCHANGED << event, delivered, incoming, outgoing, seen >>
        BY <2>2 DEF vars, acc
      <3>2. \A a : Into(a)' = Into(a) /\ OutOf(a)' = OutOf(a)
        BY <3>1 DEF Into, OutOf
      <3>3. Sources' = Sources /\ Targets' = Targets
        BY <3>1 DEF Sources, Targets
      <3> QED BY <3>1, <3>2, <3>3 DEF IInv
    <2> QED BY <2>1, <2>2 DEF Next
  <1> QED BY <1>1, ScoringInit, PTL DEF Spec

-----------------------------------------------------------------------------
(* ExactParity: at the time of the last event and at any later one, the    *)
(* online features of every account (OnlineGraphAccumulator) are those of  *)
(* the offline graph (account_features of build_graph) of the events let   *)
(* in, amount by amount in the order of the additions; and each event that *)
(* was not let in is older than one that was.                              *)
THEOREM ScoringExactParity == Spec => []ExactParity
  <1>1. IInv => ExactParity
    <2> SUFFICES ASSUME IInv PROVE ExactParity
      OBVIOUS
    <2>1. event \in Streams /\ seen \in Seq(Events) /\ Range(seen) \subseteq Events
      BY DEF IInv, Range
    <2>2. \A e \in delivered \ Range(seen) : \E f \in Range(seen) : Earlier(e, f)
      BY EarlierIsSooner DEF IInv
    <2>3. ASSUME NEW cutoff \in Times, cutoff >= LastTime
          PROVE  Graph(Range(seen), cutoff) = Range(seen)
      <3> SUFFICES ASSUME NEW e \in Range(seen) PROVE event[e].time <= cutoff
        BY DEF Graph
      <3>1. seen # << >>
        BY DEF Range
      <3>2. /\ Last(seen) \in Events
            /\ e = Last(seen) \/ Sooner(event, e, Last(seen))
        BY <3>1, LastIsLatest
      <3>3. LastTime = event[Last(seen)].time
        BY <3>1 DEF LastTime
      <3>4. e \in Events /\ event[e].time \in Nat /\ event[Last(seen)].time \in Nat /\ cutoff \in Nat
        <4>1. e \in Events /\ event[e].time \in Times /\ event[Last(seen)].time \in Times
          BY <2>1, <3>2, StreamsAreTransactions
        <4> QED BY <4>1, ScoringAssumption DEF Times
      <3>5. event[e].time <= event[Last(seen)].time
        BY <2>1, <3>2, <3>4, SoonerOrders
      <3> QED BY <2>3, <3>3, <3>4, <3>5
    <2>4. ASSUME NEW a \in Accounts, NEW cutoff \in Times, cutoff >= LastTime
          PROVE  extract_features(a) = account_features(Range(seen), cutoff, a)
      <3> DEFINE E == Range(seen)
                 source == [e \in E |-> event[e].source]
                 target == [e \in E |-> event[e].target]
      <3>1. Graph(E, cutoff) = E
        BY <2>3, <2>4
      <3>2. /\ {e \in E : target[e] = a} = Into(a) /\ {e \in E : source[e] = a} = OutOf(a)
            /\ Into(a) \in SUBSET Events /\ OutOf(a) \in SUBSET Events
            /\ \A e \in Into(a) : source[e] = Sources[e]
            /\ \A e \in OutOf(a) : target[e] = Targets[e]
        BY <2>1 DEF Into, OutOf, Sources, Targets
      <3>3. account_features(E, cutoff, a) =
               [incoming |-> Iterated({e \in E : target[e] = a}, source),
                outgoing |-> Iterated({e \in E : source[e] = a}, target)]
        BY <3>1 DEF account_features
      <3> HIDE DEF source, target, E
      <3>4. Amounts(incoming[a]) = Iterated(Into(a), source)
        BY <2>1, <3>2, GroupingAdds DEF IInv
      <3>5. Amounts(outgoing[a]) = Iterated(OutOf(a), target)
        BY <2>1, <3>2, GroupingAdds DEF IInv
      <3> QED BY <3>2, <3>3, <3>4, <3>5 DEF extract_features, E
    <2> QED BY <2>2, <2>4 DEF ExactParity
  <1> QED BY <1>1, ScoringInv, PTL

=============================================================================
