------------------------------ MODULE Scoring ------------------------------
(***************************************************************************)
(* Online and offline scoring: OnlineGraphAccumulator                      *)
(* (src/src/fincrime/streaming/scoring.py) against account_features of the *)
(* graph that build_graph makes of the same events                         *)
(* (src/src/fincrime/graph/build.py, features/point_in_time.py).           *)
(*                                                                         *)
(* Sums of floats depend on their order, so parity "to the bit" is parity  *)
(* of the order in which the amounts are added; an event stands for its    *)
(* amount.  The stream brings the events in any order over the partitions  *)
(* and more than once; the offline graph takes every event once.           *)
(***************************************************************************)
EXTENDS Integers, Sequences, FiniteSets, SequencesExt

CONSTANTS Accounts, Events, Streams, MaxTime

(* Events are numbered in the order of their edge ids; a stream gives each *)
(* its source, its target and its time.                                    *)
Times == 0..MaxTime
Transaction == [source : Accounts, target : Accounts, time : Times]

ASSUME ScoringAssumption == /\ Events \subseteq Nat /\ IsFiniteSet(Events)
                            /\ Streams \subseteq [Events -> Transaction]
                            /\ MaxTime \in Nat

VARIABLES
    event,      \* event[e]: the transaction that is event e
    delivered,  \* the events the stream has brought
    incoming,   \* incoming_neighbor_edges
    outgoing,   \* outgoing_neighbor_edges
    seen        \* seen_edge_ids; its last one has last_event_key

acc == << incoming, outgoing, seen >>
vars == << event, delivered, acc >>

(* (event_time, edge_id): ISO times in UTC sort as the times do. *)
Earlier(e, f) == \/ event[e].time < event[f].time
                 \/ event[e].time = event[f].time /\ e < f

Init == /\ event \in Streams
        /\ delivered = {}
        /\ incoming = [a \in Accounts |-> << >>]
        /\ outgoing = [a \in Accounts |-> << >>]
        /\ seen = << >>

-----------------------------------------------------------------------------
(* OnlineGraphAccumulator. *)

(* A mutant: order is asked for within a second only. *)
InOrderLoosely(e) == IF seen = << >> THEN TRUE ELSE event[Last(seen)].time <= event[e].time

(* The event comes after the last one. *)
InOrder(e) == IF seen = << >> THEN TRUE ELSE Earlier(Last(seen), e)

(* Event e joins the group of neighbour n, or makes the last group. *)
Grouped(groups, n, e) ==
    IF \E i \in DOMAIN groups : groups[i].neighbor = n
    THEN [i \in DOMAIN groups |->
             IF groups[i].neighbor = n THEN [groups[i] EXCEPT !.edges = Append(@, e)]
             ELSE groups[i]]
    ELSE Append(groups, [neighbor |-> n, edges |-> << e >>])

Ingest(e) ==
    /\ e \notin Range(seen) /\ InOrder(e)
    /\ delivered' = delivered \cup {e}
    /\ seen' = Append(seen, e)
    /\ LET tx == event[e]
       IN  /\ incoming' = [incoming EXCEPT ![tx.target] = Grouped(@, tx.source, e)]
           /\ outgoing' = [outgoing EXCEPT ![tx.source] = Grouped(@, tx.target, e)]
    /\ UNCHANGED event

(* ingest raises, and the accumulator stays what it is. *)
Refuse(e) ==
    /\ e \in Range(seen) \/ ~InOrder(e)
    /\ delivered' = delivered \cup {e}
    /\ UNCHANGED << event, acc >>

(* The amounts of the groups, one group after the other: which there are,  *)
(* and which are added before which.                                       *)
Amounts(groups) ==
    LET edges == UNION {Range(groups[i].edges) : i \in DOMAIN groups}
    IN  [edges |-> edges,
         before |-> {p \in edges \X edges : \E i, k \in DOMAIN groups :
             \E j \in DOMAIN groups[i].edges, l \in DOMAIN groups[k].edges :
                /\ p = << groups[i].edges[j], groups[k].edges[l] >>
                /\ i < k \/ (i = k /\ j < l)}]

(* extract_features: the degrees are how many there are, the sums and      *)
(* their ratio follow from the amounts in their order.                     *)
extract_features(a) == [incoming |-> Amounts(incoming[a]), outgoing |-> Amounts(outgoing[a])]

-----------------------------------------------------------------------------
(* The offline oracle. *)

(* The edges of build_graph at a cutoff. *)
Graph(events, cutoff) == {e \in events : event[e].time <= cutoff}

(* The first edge of the same neighbour. *)
First(E, neighbor, e) ==
    CHOOSE f \in E : /\ neighbor[f] = neighbor[e]
                     /\ \A g \in E : neighbor[g] = neighbor[e] => ~Earlier(g, f)

(* NetworkX (external) iterates over the neighbours in the order of their  *)
(* first edges, and over the edges of a neighbour as they were added.      *)
Iterated(E, neighbor) ==
    [edges |-> E,
     before |-> {p \in E \X E :
         IF neighbor[p[1]] = neighbor[p[2]] THEN Earlier(p[1], p[2])
         ELSE Earlier(First(E, neighbor, p[1]), First(E, neighbor, p[2]))}]

account_features(events, cutoff, a) ==
    LET E == Graph(events, cutoff)
        source == [e \in E |-> event[e].source]
        target == [e \in E |-> event[e].target]
    IN  [incoming |-> Iterated({e \in E : target[e] = a}, source),
         outgoing |-> Iterated({e \in E : source[e] = a}, target)]

Next == \E e \in Events : Ingest(e) \/ Refuse(e)

Spec == Init /\ [][Next]_vars

-----------------------------------------------------------------------------
(* Properties. *)

LastTime == IF seen = << >> THEN 0 ELSE event[Last(seen)].time

(* README.md line 65: "offline/online scoring parity".  The online         *)
(* features of every account are those of the offline graph of the events  *)
(* that were let in, to the order in which the amounts are added, at the   *)
(* time of the last event and at any later one; and what the stream has    *)
(* brought and is not in them is older than something that is.  A late     *)
(* event is all that can make the two sides differ, and it counts nowhere  *)
(* in part, a repeated one counts once.                                    *)
ExactParity ==
    /\ \A a \in Accounts, cutoff \in Times : cutoff >= LastTime =>
          extract_features(a) = account_features(Range(seen), cutoff, a)
    /\ \A e \in delivered \ Range(seen) : \E f \in Range(seen) : Earlier(e, f)
=============================================================================
