------------------------------- MODULE Canvas -------------------------------
(***************************************************************************)
(* The forensic canvas: CanvasService.initial and CanvasService.expand     *)
(* (src/src/fincrime/cases/canvas.py), the handler expand_graph            *)
(* (src/apps/case_api/main.py), the web client that holds what they have   *)
(* sent, and the bounded trace of the agent over the same edges            *)
(* (src/src/fincrime/agent/tools.py).                                      *)
(*                                                                         *)
(* The service keeps nothing between two calls: the client sends the edges *)
(* it knows with every request.  One request of a client is under way at a *)
(* time (isExpanding); analysts pin in between, which changes the hash of  *)
(* the case and never its trace.                                           *)
(*                                                                         *)
(* A trace with an edge that is not stored is refused by every call (422,  *)
(* TRACE_INTEGRITY_ERROR), and so is no behaviour of this module.          *)
(***************************************************************************)
EXTENDS Integers, FiniteSets

CONSTANTS
    Nodes, Seed,   \* the accounts, and the seed entity of the case
    Edges,         \* edge ids, ordered as the strings are
    Trace,         \* trace_edge_ids of the case
    Time, NoTime,  \* Time[e]: the timestamp of edge e, or none
    Graphs,        \* the endpoints an edge may have, as functions on Edges
    MaxHops, Cap,  \* 3 hops and 100 edges in the code
    MaxPins,       \* bound on the pins of one behaviour
    NoView, NoRequest

ASSUME CanvasAssumption ==
    /\ Seed \in Nodes
    /\ Edges \subseteq Nat /\ Trace \subseteq Edges /\ IsFiniteSet(Edges)
    /\ Time \in [Edges -> Nat \cup {NoTime}] /\ NoTime \notin Nat
    /\ Graphs \subseteq [Edges -> {{n, m} : n, m \in Nodes}]
    /\ MaxHops \in Nat \ {0} /\ Cap \in Nat \ {0} /\ MaxPins \in Nat

VARIABLES
    ends,      \* ends[e]: source and target of e, from the graph tables
    revision,  \* the number of snapshots of the case: its hash
    seen,      \* the hash of the case the client holds
    view,      \* the trace the client shows
    request    \* the expansion that is under way

vars == << ends, revision, seen, view, request >>

-----------------------------------------------------------------------------
(* _resolve_graph_facts. *)

(* Reach[d]: the nodes at most d hops from the seed, over the edges of the *)
(* case taken in both directions.                                          *)
Reach[d \in 0..MaxHops] ==
    IF d = 0 THEN {Seed}
    ELSE Reach[d - 1]
         \cup UNION {ends[e] : e \in {f \in Trace : ends[f] \cap Reach[d - 1] # {}}}

(* dist, for the nodes that have one. *)
Dist(n) == CHOOSE d \in 0..MaxHops :
               n \in Reach[d] /\ \A c \in 0..(d - 1) : n \notin Reach[c]

(* The sort key of an adjacency list: no timestamp comes last. *)
Before(e, f) ==
    \/ Time[e] # NoTime /\ Time[f] = NoTime
    \/ Time[e] # NoTime /\ Time[f] # NoTime /\ Time[e] < Time[f]
    \/ Time[e] = Time[f] /\ e < f

WithinReach(e) == ends[e] \subseteq Reach[MaxHops]

(* scope_edges. *)
Scope == {e \in Trace : WithinReach(e)}

(* The first k edges of S in adjacency order. *)
FirstOf(S, k) == {e \in S : Cardinality({f \in S : Before(f, e)}) < k}

(* A mutant that counts all edges of the case as within reach. *)
ShowingAll(E) ==
    [edges |-> E,
     hop |-> [n \in {Seed} \cup UNION {ends[e] : e \in E} |-> Dist(n)],
     is_truncated |-> Cardinality(Trace) > Cardinality(E)]

(* The CanvasTrace with edges E. *)
Showing(E) ==
    [edges |-> E,
     hop |-> [n \in {Seed} \cup UNION {ends[e] : e \in E} |-> Dist(n)],
     is_truncated |-> Cardinality(Scope) > Cardinality(E)]

(* CanvasService.initial: edges of the seed to itself and its neighbours. *)
initial == Showing(FirstOf({e \in Trace : Seed \in ends[e] /\ ends[e] \subseteq Reach[1]}, Cap))

Endpoints(K) == {Seed} \cup UNION {ends[e] : e \in K}

(* The checks of expand that raise InvalidExpansion. *)
Valid(n, K) ==
    /\ Cardinality(K) <= Cap
    /\ K \subseteq Trace
    /\ \A e \in K : WithinReach(e)
    /\ n \in Endpoints(K)

Candidates(n, K) == {e \in Trace \ K : n \in ends[e] /\ WithinReach(e)}

(* new_edges: the bound is looked at after an edge was appended, so that   *)
(* one is taken even where no capacity remains.                            *)
NewEdges(n, K) ==
    LET remaining == Cap - Cardinality(K)
    IN  FirstOf(Candidates(n, K), IF remaining > 0 THEN remaining ELSE 1)

(* A mutant: edges without a time do not come back. *)
ExpandedFewer(n, K) ==
    Showing(K \cup FirstOf({e \in Candidates(n, K) : Time[e] # NoTime}, Cap))

(* CanvasService.expand, when the hash is current and the request valid. *)
Expanded(n, K) == Showing(K \cup NewEdges(n, K))

-----------------------------------------------------------------------------
(* bounded_trace: whole hops of edges, until Cap edges are found, and then *)
(* the first Cap of them; within a hop they keep the order of their ids.   *)

(* Found[h]: the edges of the hops up to h, their ends, and the last hop.  *)
Found[h \in 0..(MaxHops + 1)] ==
    IF h = 0 THEN [before |-> {}, last |-> {}, frontier |-> {Seed}, hops |-> 0]
    ELSE LET f == Found[h - 1]
             done == f.before \cup f.last
             new == IF Cardinality(done) >= Cap THEN {}
                    ELSE {e \in Trace \ done : ends[e] \cap f.frontier # {}}
         IN  IF new = {} THEN f
             ELSE [before |-> done, last |-> new,
                   frontier |-> UNION {ends[e] : e \in new}, hops |-> h]

(* A mutant that cuts by id over all hops. *)
BoundedTraceById(h) ==
    LET all == Found[h].before \cup Found[h].last
    IN  {e \in all : Cardinality({g \in all : g < e}) < Cap}

BoundedTrace(h) ==
    LET f == Found[h]
    IN  f.before \cup {e \in f.last : Cardinality({g \in f.last : g < e})
                                        < Cap - Cardinality(f.before)}

-----------------------------------------------------------------------------
Init == /\ ends \in Graphs
        /\ revision = 0 /\ seen = 0
        /\ view = NoView
        /\ request = NoRequest

(* GET /cases/{case_id}/workbench: the case and its first trace in one     *)
(* answer.  The page is new, and so is everything it holds.                *)
Open == /\ view' = initial
        /\ seen' = revision
        /\ request' = NoRequest
        /\ UNCHANGED << ends, revision >>

(* A pin commits: the client's own, whose answer sets its case, or that of *)
(* another analyst.  No answer of a pin touches the trace.                 *)
Pin == /\ revision < MaxPins
       /\ revision' = revision + 1
       /\ seen' \in {seen, revision + 1}
       /\ UNCHANGED << ends, view, request >>

(* After a conflict the client takes over the case, and keeps its trace. *)
Reconcile == /\ view # NoView
             /\ seen' = revision
             /\ UNCHANGED << ends, revision, view, request >>

(* The page offers an expansion below the cap only. *)
canExpand == Cardinality(view.edges) < Cap

(* handleExpandHop; the selected node may have left the canvas since. *)
SendExpand(n) ==
    /\ view # NoView /\ request = NoRequest
    /\ canExpand
    /\ request' = [node |-> n, known |-> view.edges, hash |-> seen]
    /\ UNCHANGED << ends, revision, seen, view >>

(* expand_graph answers 200 with the expansion. *)
AnswerExpand ==
    /\ request # NoRequest
    /\ request.hash = revision
    /\ Valid(request.node, request.known)
    /\ view' = Expanded(request.node, request.known)
    /\ request' = NoRequest
    /\ UNCHANGED << ends, revision, seen >>

(* 409 SNAPSHOT_CONFLICT, 422 INVALID_EXPANSION: the client says so. *)
RefuseExpand ==
    /\ request # NoRequest
    /\ request.hash # revision \/ ~Valid(request.node, request.known)
    /\ request' = NoRequest
    /\ UNCHANGED << ends, revision, seen, view >>

(* The call or its answer is lost: nothing was kept anywhere. *)
LoseExpand ==
    /\ request # NoRequest
    /\ request' = NoRequest
    /\ UNCHANGED << ends, revision, seen, view >>

Next == \/ Open \/ Pin \/ Reconcile
        \/ \E n \in Nodes : SendExpand(n)
        \/ AnswerExpand \/ RefuseExpand \/ LoseExpand

Spec == Init /\ [][Next]_vars

-----------------------------------------------------------------------------
(* Properties. *)

(* The nodes that edges of E join to the seed: they are in every set that  *)
(* has the seed and, with one end of an edge of E, the other.              *)
Joined(E) ==
    {n \in Nodes : \A S \in SUBSET Nodes :
            /\ Seed \in S
            /\ \A e \in E : ends[e] \cap S # {} => ends[e] \subseteq S
        => n \in S}

(* A response that shows what its request knew and nothing out of reach,   *)
(* keeps to the cap when the request is below it, and calls itself         *)
(* complete exactly when all within reach is there.                        *)
Honest(K, v) == /\ K \subseteq v.edges /\ v.edges \subseteq Scope
                /\ Cardinality(K) < Cap => Cardinality(v.edges) <= Cap
                /\ v.is_truncated <=> v.edges # Scope

(* No sequence of expansions, pins and reconciliations shows an edge out   *)
(* of reach, more edges than the cap, an account that nothing on the       *)
(* canvas joins to the seed, or "not truncated" while an edge within reach *)
(* is missing; and no set of known edges that another client may send gets *)
(* such an answer, but that one at the cap gets an edge more (WithinCap).  *)
HonestAnswers ==
    IF view = NoView
    THEN \A n \in Nodes, K \in SUBSET Edges : Valid(n, K) => Honest(K, Expanded(n, K))
    ELSE Honest({}, view) /\ DOMAIN view.hop \subseteq Joined(view.edges)

(* An investigator is never stuck below the cap: while the canvas says     *)
(* that edges are missing and the page offers an expansion (canExpand),    *)
(* that of some node on it is valid and shows one more.                    *)
Discoverable ==
    view # NoView /\ view.is_truncated /\ canExpand =>
        \E n \in DOMAIN view.hop :
            Valid(n, view.edges) /\ Expanded(n, view.edges).edges # view.edges

(* expand "append[s] new sorted edges up to [the] remaining 100-edge       *)
(* capacity" (the comment over its loop, canvas.py line 211): no answer to *)
(* a valid request of any client has more edges than the cap.              *)
WithinCap ==
    \A n \in Nodes, K \in SUBSET Edges :
        Valid(n, K) => Cardinality(Expanded(n, K).edges) <= Cap

(* The hop in which an edge is found, by the distances of the canvas. *)
HopOf(e) == 1 + (CHOOSE d \in 0..MaxHops : /\ ends[e] \cap Reach[d] # {}
                                           /\ \A c \in 0..(d - 1) : ends[e] \cap Reach[c] = {})

(* The agent's trace and the canvas walk the same graph by two algorithms  *)
(* and agree: within h hops the trace has every edge that starts less than *)
(* h hops from the seed, or the Cap nearest of them.                       *)
TraceFollowsHops ==
    \A h \in 1..(MaxHops + 1) :
        LET near == {e \in Trace : ends[e] \cap Reach[h - 1] # {}}
            trace == BoundedTrace(h)
        IN  /\ trace \subseteq near
            /\ trace = near \/ Cardinality(trace) = Cap
            /\ \A e \in trace, f \in near \ trace : HopOf(e) <= HopOf(f)

=============================================================================
