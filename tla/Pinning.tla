------------------------------- MODULE Pinning -------------------------------
(***************************************************************************)
(* The case tables of PostgreSQL and the transactions on them: put_case    *)
(* (src/src/fincrime/storage/postgres.py), PinningService.read and         *)
(* PinningService.set_pin (src/src/fincrime/cases/pinning.py).             *)
(*                                                                         *)
(* set_pin holds the row lock of its case (FOR UPDATE) from its first      *)
(* statement to its commit, and read holds it shared, so each transaction  *)
(* is one step; one that raises is rolled back and leaves nothing.         *)
(***************************************************************************)
EXTENDS Integers, Sequences, FiniteSets

CONSTANTS
    Cases,        \* case ids
    Edges,        \* edge ids a pin command may name
    Tags,         \* typology tags, no tag included
    Sources,      \* evidence imported before the cases are created
    TraceEdges,   \* TraceEdges[c]: trace_edge_ids of case c
    StoredEdges,  \* edges whose row and endpoint nodes are in the graph tables
    MaxActions,   \* bound on the pin actions of one behaviour
    NoCase, NoPin \* no row in cases, no row in case_evidence

ASSUME PinningAssumption ==
    /\ TraceEdges \in [Cases -> SUBSET Edges]
    /\ StoredEdges \subseteq Edges
    /\ MaxActions \in Nat

VARIABLES
    cases,           \* cases[c]: the evidence ids of the current snapshot
    case_snapshots,  \* case_snapshots[c]: those of every snapshot of c
    evidence_items,  \* the ids of the evidence table
    actions,         \* payload_summary of the n-th ev:pin: evidence item
    case_evidence    \* case_evidence[c][e]: the pin row of edge e in case c

db == << cases, case_snapshots, evidence_items, actions, case_evidence >>

(* Evidence ids: imported evidence, the observed transaction of an edge    *)
(* (ev:txn:, derived from case and edge) and pin actions (ev:pin:, a fresh *)
(* uuid each).                                                             *)
Base(s)   == << "base", s >>
Obs(c, e) == << "txn", c, e >>
Act(n)    == << "pin", n >>

EvidenceIds == {Base(s) : s \in Sources}
               \cup {Obs(c, e) : c \in Cases, e \in Edges}
               \cup {Act(n) : n \in 1..MaxActions}

Command == [edge : Edges, pinned : BOOLEAN, tag : Tags]

(* A pin action names the snapshot it was made on (previous_snapshot_hash). *)
ActionType == [case : Cases, edge : Edges, pinned : BOOLEAN, tag : Tags,
               previous : SUBSET EvidenceIds]

Row == [evidence : EvidenceIds, pinned : BOOLEAN, tag : Tags]

ASSUME NoRowAssumption == /\ \A ev \in SUBSET EvidenceIds : NoCase # ev
                          /\ NoPin \notin Row

Init == /\ cases = [c \in Cases |-> NoCase]
        /\ case_snapshots = [c \in Cases |-> {}]
        /\ evidence_items = {Base(s) : s \in Sources}
        /\ actions = << >>
        /\ case_evidence = [c \in Cases |-> [e \in Edges |-> NoPin]]

(***************************************************************************)
(* The hash of a snapshot is the SHA-256 of its canonical JSON.  The other *)
(* fields of a case never change, so two snapshots of a case have the same *)
(* hash exactly when they have the same evidence ids, and the model        *)
(* compares those.                                                         *)
(***************************************************************************)

(* POST /cases, with any evidence the store has, the audit items of other  *)
(* cases included: put_case inserts the case and its first snapshot,       *)
(* returns the same case again and raises CaseConflict for any other.      *)
CreateCase(c, ev) ==
    /\ ev \subseteq evidence_items
    /\ cases[c] = NoCase
    /\ cases' = [cases EXCEPT ![c] = ev]
    /\ case_snapshots' = [case_snapshots EXCEPT ![c] = {ev}]
    /\ UNCHANGED << evidence_items, actions, case_evidence >>

(* A mutant: no hash check. *)
RejectedUnchecked(c, cmd, expected) ==
    cases[c] = NoCase \/ cmd.edge \notin TraceEdges[c] \/ cmd.edge \notin StoredEdges

(* CaseNotFound, SnapshotConflict, EdgeNotInCase, ReferentialIntegrityError. *)
Rejected(c, cmd, expected) ==
    \/ cases[c] = NoCase
    \/ cases[c] # expected
    \/ cmd.edge \notin TraceEdges[c]
    \/ cmd.edge \notin StoredEdges

(* The pin row says so already, or there is nothing to unpin. *)
NoChange(c, cmd) ==
    LET row == case_evidence[c][cmd.edge]
    IN  \/ row # NoPin /\ row.pinned = cmd.pinned /\ row.tag = cmd.tag
        \/ row = NoPin /\ ~cmd.pinned

(* Mutants of the new snapshot: no action, no observed transaction, an     *)
(* action id other than the stored one.                                    *)
NewEvidenceNoAction(c, cmd) ==
    cases[c] \cup (IF cmd.pinned THEN {Obs(c, cmd.edge)} ELSE {})
NewEvidenceNoObs(c, cmd) == cases[c] \cup {Act(Len(actions) + 1)}
NewEvidenceOther(c, cmd) == cases[c] \cup {Act(Len(actions) + 2)}

(* The evidence ids of the new snapshot. *)
NewEvidence(c, cmd) ==
    cases[c] \cup (IF cmd.pinned THEN {Obs(c, cmd.edge)} ELSE {})
             \cup {Act(Len(actions) + 1)}

(* The upsert of the pin row, and a mutant that keeps the old tag. *)
NewRowOldTag(c, cmd) ==
    LET row == case_evidence[c][cmd.edge]
    IN  IF row = NoPin
        THEN [evidence |-> Obs(c, cmd.edge), pinned |-> cmd.pinned, tag |-> cmd.tag]
        ELSE [row EXCEPT !.pinned = cmd.pinned]
NewRow(c, cmd) ==
    LET row == case_evidence[c][cmd.edge]
    IN  IF row = NoPin
        THEN [evidence |-> Obs(c, cmd.edge), pinned |-> cmd.pinned, tag |-> cmd.tag]
        ELSE [row EXCEPT !.pinned = cmd.pinned, !.tag = cmd.tag]

(* A primary key of case_snapshots that exists aborts the transaction. *)
CommitPin(c, cmd, expected) ==
    /\ Len(actions) < MaxActions
    /\ NewEvidence(c, cmd) \notin case_snapshots[c]
    /\ evidence_items' = evidence_items
                           \cup (IF cmd.pinned THEN {Obs(c, cmd.edge)} ELSE {})
                           \cup {Act(Len(actions) + 1)}
    /\ actions' = Append(actions, [case |-> c, edge |-> cmd.edge, pinned |-> cmd.pinned,
                                   tag |-> cmd.tag, previous |-> expected])
    /\ case_snapshots' = [case_snapshots EXCEPT ![c] = @ \cup {NewEvidence(c, cmd)}]
    /\ cases' = [cases EXCEPT ![c] = NewEvidence(c, cmd)]
    /\ case_evidence' = [case_evidence EXCEPT ![c][cmd.edge] = NewRow(c, cmd)]

SetPin(c, cmd, expected) ==
    /\ ~Rejected(c, cmd, expected)
    /\ \/ NoChange(c, cmd) /\ UNCHANGED db
       \/ ~NoChange(c, cmd) /\ CommitPin(c, cmd, expected)

(* The active pins of PinningService.read, and a mutant that reads every   *)
(* pin row.                                                                *)
PinnedEdgesAll(c) == {e \in StoredEdges : case_evidence[c][e] # NoPin}
PinnedEdges(c) == {e \in StoredEdges : case_evidence[c][e] # NoPin
                                       /\ case_evidence[c][e].pinned}

Next == \E c \in Cases :
            \/ \E ev \in SUBSET evidence_items : CreateCase(c, ev)
            \/ \E cmd \in Command, h \in case_snapshots[c] : SetPin(c, cmd, h)

Spec == Init /\ [][Next]_db

-----------------------------------------------------------------------------
(* Properties. *)

TypeOK ==
    /\ cases \in [Cases -> (SUBSET EvidenceIds) \cup {NoCase}]
    /\ case_snapshots \in [Cases -> SUBSET SUBSET EvidenceIds]
    /\ evidence_items \subseteq EvidenceIds
    /\ actions \in Seq(ActionType) /\ Len(actions) <= MaxActions
    /\ case_evidence \in [Cases -> [Edges -> Row \cup {NoPin}]]

(* The actions of case c that a snapshot with evidence ev knows of. *)
ActionsOf(c, ev) == {n \in 1..Len(actions) : actions[n].case = c /\ Act(n) \in ev}

(* The last action on edge e that a snapshot with evidence ev knows of. *)
LastOn(c, ev, e) ==
    LET own == {n \in ActionsOf(c, ev) : actions[n].edge = e}
    IN  {n \in own : \A m \in own : m <= n}

(* The edges pinned in a snapshot with evidence ev, by its audit trail. *)
PinsAt(c, ev) == {e \in Edges : \E n \in LastOn(c, ev, e) : actions[n].pinned}

(* Every pin that the investigator is told of is evidence of the snapshot  *)
(* it is told of, so the workflow never refuses it (workflow.py line 109). *)
PinnedIsEvidence ==
    \A c \in Cases : \A e \in PinnedEdges(c) :
        case_evidence[c][e].evidence \in cases[c]

(* No reference of any snapshot dangles: get_many finds all its evidence.  *)
SnapshotsResolve ==
    \A c \in Cases : \A ev \in case_snapshots[c] : ev \subseteq evidence_items

(* The audit trail is one unbroken chain: every snapshot of a case but the *)
(* current one is what exactly one action was made on, and no action on    *)
(* the case is missing.  Two analysts who pin on the same snapshot never   *)
(* both succeed (the hash check under FOR UPDATE).                         *)
AuditChain ==
    \A c \in Cases : cases[c] # NoCase =>
        /\ cases[c] \in case_snapshots[c]
        /\ {actions[n].previous : n \in ActionsOf(c, cases[c])}
              = case_snapshots[c] \ {cases[c]}
        /\ \A n, m \in ActionsOf(c, cases[c]) :
              actions[n].previous = actions[m].previous => n = m
        /\ \A n \in 1..Len(actions) : actions[n].case = c => Act(n) \in cases[c]

(* The pin table is what the audit trail says: the row of an edge has the  *)
(* status and tag of the last action on it, and none without an action.    *)
PinsMatchAudit ==
    \A c \in Cases, e \in Edges : cases[c] # NoCase =>
        /\ case_evidence[c][e] = NoPin <=> LastOn(c, cases[c], e) = {}
        /\ \A n \in LastOn(c, cases[c], e) :
              /\ case_evidence[c][e].pinned = actions[n].pinned
              /\ case_evidence[c][e].tag = actions[n].tag

(* set_pin never hits the primary key of case_snapshots: pinning and       *)
(* unpinning never leads back to a hash the case has had, so a client that *)
(* holds an old hash is always told of the conflict.                       *)
SnapshotsNeverRecur ==
    \A c \in Cases : cases[c] # NoCase =>
        \A cmd \in Command :
            ~NoChange(c, cmd) => NewEvidence(c, cmd) \notin case_snapshots[c]

(* The actions on case c. *)
OwnActions(c) == {n \in 1..Len(actions) : actions[n].case = c}

(* The k-th number of S. *)
Nth(S, k) == CHOOSE n \in S : Cardinality({m \in S : m <= n}) = k

(* The pins of each snapshot of case c: what the audit trail says of the   *)
(* snapshots that actions were made on, and what a read answers now.       *)
PinsOfSnapshots(c) ==
    LET own == OwnActions(c)
        past == Cardinality(own)
    IN  IF cases[c] = NoCase THEN << >>
        ELSE [k \in 1..(past + 1) |-> IF k <= past THEN PinsAt(c, actions[Nth(own, k)].previous)
                                      ELSE PinnedEdges(c)]

Chain(c) == INSTANCE PinChain WITH history <- PinsOfSnapshots(c)

(* What readers are told of each case, pin by pin, is the chain of pins    *)
(* that the page is built on: a pin changes what they are told of its own  *)
(* edge and its own case only, and what the audit trail says later of a    *)
(* snapshot is what was told of it when it was the current one.            *)
ImplementsPinChain ==
    /\ \A c \in Cases : Chain(c)!Init
    /\ [][\A c \in Cases : UNCHANGED PinsOfSnapshots(c) \/ Chain(c)!Next]_db
=============================================================================
