--------------------------- MODULE CaseApiProofs ---------------------------
(***************************************************************************)
(* Theorems of Pinning and of CaseApi, which adds the handlers and their   *)
(* threads to it, for any sets of cases, edges, tags, imported evidence    *)
(* and threads, and any number of pin actions.                             *)
(***************************************************************************)
EXTENDS CaseApi, FiniteSetTheorems, SequenceTheorems, TLAPS

-----------------------------------------------------------------------------
(* Pinning. *)

(* Ids of different kinds differ, and every action has an id of its own. *)
LEMMA IdsDiffer ==
    /\ \A n, m : Act(n) = Act(m) => n = m
    /\ \A n, c, e : Act(n) # Obs(c, e)
    /\ \A n, s : Act(n) # Base(s)
  BY DEF Act, Obs, Base

(* The evidence table has items of actions that happened only, and actions *)
(* are on cases that exist.                                                *)
ActionsKnown ==
    /\ \A n \in 1..MaxActions + 1 : Act(n) \in evidence_items => n <= Len(actions)
    /\ \A n \in 1..Len(actions) : cases[actions[n].case] # NoCase

(* A case without a row in cases has no rows at all.                       *)
NoCaseNoRows ==
    \A c \in Cases :
        /\ cases[c] = NoCase => \A e \in Edges : case_evidence[c][e] = NoPin
        /\ cases[c] # NoCase => cases[c] \in case_snapshots[c]

(* The evidence of a pin row is the observed transaction of its edge.      *)
RowsObserve ==
    \A c \in Cases, e \in Edges : case_evidence[c][e] # NoPin =>
        case_evidence[c][e].evidence = Obs(c, e)

IInv == /\ TypeOK /\ ActionsKnown /\ NoCaseNoRows /\ RowsObserve
        /\ PinnedIsEvidence /\ SnapshotsResolve /\ AuditChain /\ PinsMatchAudit

LEMMA InitIInv == Init => IInv
  <1> SUFFICES ASSUME Init PROVE IInv
    OBVIOUS
  <1>1. TypeOK
    <2>1. evidence_items \subseteq EvidenceIds
      BY DEF Init, EvidenceIds
    <2>2. actions \in Seq(ActionType) /\ Len(actions) <= MaxActions
      BY PinningAssumption DEF Init
    <2>3. cases \in [Cases -> (SUBSET EvidenceIds) \cup {NoCase}]
      BY DEF Init
    <2>4. case_snapshots \in [Cases -> SUBSET SUBSET EvidenceIds]
      <3>1. {} \in SUBSET SUBSET EvidenceIds
        OBVIOUS
      <3> HIDE DEF EvidenceIds
      <3> QED BY <3>1 DEF Init
    <2>5. case_evidence \in [Cases -> [Edges -> Row \cup {NoPin}]]
      BY DEF Init
    <2> QED BY <2>1, <2>2, <2>3, <2>4, <2>5 DEF TypeOK
  <1>2. ActionsKnown /\ NoCaseNoRows /\ RowsObserve
    BY IdsDiffer DEF Init, ActionsKnown, NoCaseNoRows, RowsObserve
  <1>3. PinnedIsEvidence
    BY PinningAssumption DEF Init, PinnedIsEvidence, PinnedEdges
  <1>4. SnapshotsResolve /\ AuditChain /\ PinsMatchAudit
    BY DEF Init, SnapshotsResolve, AuditChain, PinsMatchAudit
  <1> QED BY <1>1, <1>2, <1>3, <1>4 DEF Init, IInv

(* A new case: its snapshot may name any evidence there is, but no action  *)
(* is on a case that did not exist.                                        *)
LEMMA CreateKeepsIInv ==
    ASSUME IInv, NEW c \in Cases, NEW ev,
           CreateCase(c, ev)
    PROVE  IInv'
  <1>1. /\ cases[c] = NoCase
        /\ cases' = [cases EXCEPT ![c] = ev]
        /\ case_snapshots' = [case_snapshots EXCEPT ![c] = {ev}]
        /\ UNCHANGED << evidence_items, actions, case_evidence >>
    BY DEF CreateCase
  <1>2. ev \in SUBSET EvidenceIds /\ ev # NoCase
    <2>1. ev \in SUBSET EvidenceIds
      BY DEF CreateCase, IInv, TypeOK
    <2> QED BY <2>1, NoRowAssumption
  <1>3. /\ cases'[c] = ev /\ case_snapshots'[c] = {ev}
        /\ \A d \in Cases : d # c => cases'[d] = cases[d] /\ case_snapshots'[d] = case_snapshots[d]
    BY <1>1 DEF IInv, TypeOK
  <1>4. \A n \in 1..Len(actions) : actions[n].case # c
    BY <1>1 DEF IInv, ActionsKnown
  <1>5. TypeOK'
    <2>1. cases' \in [Cases -> (SUBSET EvidenceIds) \cup {NoCase}]
      BY <1>1, <1>2 DEF IInv, TypeOK
    <2>2. case_snapshots' \in [Cases -> SUBSET SUBSET EvidenceIds]
      BY <1>1, <1>2 DEF IInv, TypeOK
    <2> QED BY <1>1, <2>1, <2>2 DEF IInv, TypeOK
  <1>6. ActionsKnown'
    <2>1. \A n \in 1..Len(actions) : cases'[actions[n].case] # NoCase
      BY <1>1, <1>4 DEF IInv, ActionsKnown, TypeOK
    <2> QED BY <1>1, <2>1 DEF ActionsKnown, IInv
  <1>7. NoCaseNoRows'
    BY <1>1, <1>2, <1>3 DEF IInv, NoCaseNoRows
  <1>8. RowsObserve'
    BY <1>1 DEF IInv, RowsObserve
  <1>9. PinnedIsEvidence'
    BY <1>1, <1>3, PinningAssumption DEF IInv, PinnedIsEvidence, PinnedEdges, NoCaseNoRows
  <1>10. SnapshotsResolve'
    BY <1>1, <1>3 DEF IInv, SnapshotsResolve, CreateCase
  <1>11. ActionsOf(c, ev) = {} /\ \A d, sn : ActionsOf(d, sn)' = ActionsOf(d, sn)
    BY <1>1, <1>4 DEF ActionsOf
  <1>12. AuditChain'
    <2> SUFFICES ASSUME NEW d \in Cases, cases'[d] # NoCase
                 PROVE  /\ cases'[d] \in case_snapshots'[d]
                        /\ {actions[n].previous : n \in ActionsOf(d, cases'[d])}
                              = case_snapshots'[d] \ {cases'[d]}
                        /\ \A n, m \in ActionsOf(d, cases'[d]) :
                              actions[n].previous = actions[m].previous => n = m
                        /\ \A n \in 1..Len(actions) : actions[n].case = d => Act(n) \in cases'[d]
      BY <1>1 DEF AuditChain, ActionsOf
    <2>1. CASE d = c
      BY <2>1, <1>3, <1>4, <1>11
    <2>2. CASE d # c
      BY <2>2, <1>3 DEF IInv, AuditChain
    <2> QED BY <2>1, <2>2
  <1>13. PinsMatchAudit'
    <2> SUFFICES ASSUME NEW d \in Cases, NEW e \in Edges, cases'[d] # NoCase
                 PROVE  /\ case_evidence[d][e] = NoPin <=> LastOn(d, cases'[d], e) = {}
                        /\ \A n \in LastOn(d, cases'[d], e) :
                              /\ case_evidence[d][e].pinned = actions[n].pinned
                              /\ case_evidence[d][e].tag = actions[n].tag
      BY <1>1 DEF PinsMatchAudit, LastOn, ActionsOf
    <2>1. CASE d = c
      <3>1. LastOn(c, ev, e) = {}
        BY <1>11 DEF LastOn
      <3>2. case_evidence[c][e] = NoPin
        BY <1>1 DEF IInv, NoCaseNoRows
      <3> QED BY <2>1, <3>1, <3>2, <1>3
    <2>2. CASE d # c
      BY <2>2, <1>3 DEF IInv, PinsMatchAudit
    <2> QED BY <2>1, <2>2
  <1> QED BY <1>1, <1>5, <1>6, <1>7, <1>8, <1>9, <1>10, <1>12, <1>13 DEF IInv

(* A pin that commits: one more action, one more snapshot of its case, and *)
(* nothing else.                                                           *)
LEMMA CommitKeepsIInv ==
    ASSUME IInv, NEW c \in Cases, NEW cmd \in Command, NEW h,
           ~Rejected(c, cmd, h), ~NoChange(c, cmd), CommitPin(c, cmd, h)
    PROVE  IInv'
  <1> DEFINE k == Len(actions) + 1
             old == cases[c]
             new == NewEvidence(c, cmd)
             obs == Obs(c, cmd.edge)
             act == [case |-> c, edge |-> cmd.edge, pinned |-> cmd.pinned,
                     tag |-> cmd.tag, previous |-> old]
  <1>1. /\ Len(actions) < MaxActions /\ new \notin case_snapshots[c]
        /\ actions' = Append(actions, act)
        /\ case_snapshots' = [case_snapshots EXCEPT ![c] = @ \cup {new}]
        /\ cases' = [cases EXCEPT ![c] = new]
        /\ old # NoCase
    BY DEF CommitPin, Rejected
  <1>2. /\ cmd.edge \in Edges /\ cmd.pinned \in BOOLEAN /\ cmd.tag \in Tags
        /\ Len(actions) \in Nat /\ k \in 1..MaxActions
        /\ old \in SUBSET EvidenceIds /\ old \in case_snapshots[c]
    BY <1>1, PinningAssumption DEF IInv, TypeOK, Command, NoCaseNoRows
  <1>3. /\ obs \in EvidenceIds /\ Act(k) \in EvidenceIds
        /\ new \in SUBSET EvidenceIds /\ new # NoCase
        /\ old \subseteq new /\ new \subseteq old \cup {obs, Act(k)} /\ Act(k) \in new
        /\ cmd.pinned => obs \in new
    <2>1. obs \in EvidenceIds /\ Act(k) \in EvidenceIds
      BY <1>2 DEF EvidenceIds
    <2>2. new \in SUBSET EvidenceIds
      BY <1>2, <2>1 DEF NewEvidence
    <2>3. new # NoCase
      BY <2>2, NoRowAssumption
    <2> QED BY <2>1, <2>2, <2>3 DEF NewEvidence
  <1>4. /\ cases'[c] = new /\ case_snapshots'[c] = case_snapshots[c] \cup {new}
        /\ \A d \in Cases : d # c => cases'[d] = cases[d] /\ case_snapshots'[d] = case_snapshots[d]
    BY <1>1 DEF IInv, TypeOK
  <1>5. /\ Len(actions') = k /\ actions'[k] = act
        /\ \A n \in 1..Len(actions) : actions'[n] = actions[n]
        /\ act \in ActionType
    BY <1>1, <1>2 DEF IInv, TypeOK, ActionType
  <1>6. /\ act.case = c /\ act.edge = cmd.edge /\ act.pinned = cmd.pinned
        /\ act.tag = cmd.tag /\ act.previous = old
    OBVIOUS
  <1>7. \A d \in Cases, e \in Edges :
          case_evidence'[d][e] =
            IF d = c /\ e = cmd.edge
            THEN IF case_evidence[c][e] = NoPin
                 THEN [evidence |-> obs, pinned |-> cmd.pinned, tag |-> cmd.tag]
                 ELSE [case_evidence[c][e] EXCEPT !.pinned = cmd.pinned, !.tag = cmd.tag]
            ELSE case_evidence[d][e]
    BY <1>2 DEF CommitPin, NewRow, IInv, TypeOK
  <1>8. /\ case_evidence'[c][cmd.edge] \in Row
        /\ case_evidence'[c][cmd.edge] # NoPin
        /\ case_evidence'[c][cmd.edge].evidence = obs
        /\ case_evidence'[c][cmd.edge].pinned = cmd.pinned
        /\ case_evidence'[c][cmd.edge].tag = cmd.tag
    <2> DEFINE row == case_evidence[c][cmd.edge]
    <2>1. CASE row = NoPin
      <3> DEFINE fresh == [evidence |-> obs, pinned |-> cmd.pinned, tag |-> cmd.tag]
      <3>1. case_evidence'[c][cmd.edge] = fresh
        BY <2>1, <1>2, <1>7
      <3>2. fresh \in Row
        BY <1>2, <1>3 DEF Row
      <3>3. fresh.evidence = obs /\ fresh.pinned = cmd.pinned /\ fresh.tag = cmd.tag
        OBVIOUS
      <3> HIDE DEF fresh
      <3> QED BY <3>1, <3>2, <3>3, NoRowAssumption
    <2>2. CASE row # NoPin
      <3>1. row \in Row /\ row.evidence = obs
        BY <2>2, <1>2 DEF IInv, TypeOK, RowsObserve
      <3>2. case_evidence'[c][cmd.edge] = [row EXCEPT !.pinned = cmd.pinned, !.tag = cmd.tag]
        BY <2>2, <1>2, <1>7
      <3>3. case_evidence'[c][cmd.edge] \in Row
        BY <3>1, <3>2, <1>2 DEF Row
      <3> QED BY <3>1, <3>2, <3>3, NoRowAssumption DEF Row
    <2> QED BY <2>1, <2>2
  <1>9. /\ \A n \in 1..Len(actions) : Act(n) \in new <=> Act(n) \in old
        /\ \A d \in Cases : \A sn \in case_snapshots[d] : Act(k) \notin sn
    <2>1. \A d \in Cases : \A sn \in case_snapshots[d] : Act(k) \notin sn
      <3>1. k \in 1..MaxActions + 1 /\ ~(k <= Len(actions))
        BY <1>2, PinningAssumption
      <3> QED BY <3>1 DEF IInv, ActionsKnown, SnapshotsResolve
    <2>2. \A n \in 1..Len(actions) : Act(n) # Act(k) /\ Act(n) # obs
      BY <1>2, IdsDiffer
    <2> QED BY <2>1, <2>2, <1>3
  <1>u. \A d \in Cases, e \in Edges : ~(d = c /\ e = cmd.edge) =>
          case_evidence'[d][e] = case_evidence[d][e]
    BY <1>7
  <1> DEFINE After(d, ev) == {n \in 1..Len(actions') : actions'[n].case = d /\ Act(n) \in ev}
  <1>10. /\ After(c, new) = ActionsOf(c, old) \cup {k}
         /\ \A d \in Cases : d # c /\ cases[d] # NoCase =>
                After(d, cases[d]) = ActionsOf(d, cases[d])
    <2>1. After(c, new) = ActionsOf(c, old) \cup {k}
      BY <1>2, <1>3, <1>5, <1>6, <1>9 DEF ActionsOf
    <2>2. ASSUME NEW d \in Cases, d # c, cases[d] # NoCase
          PROVE  After(d, cases[d]) = ActionsOf(d, cases[d])
      <3>1. Act(k) \notin cases[d]
        BY <2>2, <1>9 DEF IInv, NoCaseNoRows
      <3> QED BY <3>1, <1>2, <1>5 DEF ActionsOf
    <2> QED BY <2>1, <2>2
  <1> HIDE DEF act, new
  <1>11. TypeOK'
    <2>1. cases' \in [Cases -> (SUBSET EvidenceIds) \cup {NoCase}]
      BY <1>1, <1>3 DEF IInv, TypeOK
    <2>2. case_snapshots' \in [Cases -> SUBSET SUBSET EvidenceIds]
      BY <1>1, <1>3 DEF IInv, TypeOK
    <2>3. evidence_items' \subseteq EvidenceIds
      BY <1>3 DEF IInv, TypeOK, CommitPin
    <2>4. actions' \in Seq(ActionType) /\ Len(actions') <= MaxActions
      BY <1>1, <1>2, <1>5 DEF IInv, TypeOK
    <2>5. case_evidence' \in [Cases -> [Edges -> Row \cup {NoPin}]]
      <3>1. case_evidence' = [case_evidence EXCEPT ![c][cmd.edge] = case_evidence'[c][cmd.edge]]
        BY <1>2 DEF CommitPin, IInv, TypeOK
      <3>2. PICK row \in Row : row = case_evidence'[c][cmd.edge]
        BY <1>8
      <3>3. case_evidence \in [Cases -> [Edges -> Row \cup {NoPin}]]
        BY DEF IInv, TypeOK
      <3>4. case_evidence' = [case_evidence EXCEPT ![c][cmd.edge] = row]
        BY <3>1, <3>2
      <3> HIDE DEF Row
      <3> QED BY <1>2, <3>3, <3>4
    <2> QED BY <2>1, <2>2, <2>3, <2>4, <2>5 DEF TypeOK
  <1>12. ActionsKnown'
    <2>1. ASSUME NEW n \in 1..MaxActions + 1, Act(n) \in evidence_items'
          PROVE  n <= k
      <3>1. Act(n) \in evidence_items \/ n = k
        BY <2>1, IdsDiffer DEF CommitPin
      <3> QED BY <3>1, <2>1, <1>2 DEF IInv, ActionsKnown
    <2>2. \A n \in 1..k : cases'[actions'[n].case] # NoCase
      <3> SUFFICES ASSUME NEW n \in 1..k PROVE cases'[actions'[n].case] # NoCase
        OBVIOUS
      <3>1. CASE n = k
        BY <3>1, <1>3, <1>4, <1>5, <1>6
      <3>2. CASE n # k
        <4>1. n \in 1..Len(actions) /\ actions'[n] = actions[n]
          BY <3>2, <1>2, <1>5
        <4>2. actions[n].case \in Cases
          <5>1. actions[n] \in ActionType
            BY <4>1 DEF IInv, TypeOK
          <5> QED BY <5>1 DEF ActionType
        <4> QED BY <4>1, <4>2, <1>3, <1>4 DEF IInv, ActionsKnown
      <3> QED BY <3>1, <3>2
    <2> QED BY <2>1, <2>2, <1>5 DEF ActionsKnown
  <1>13. NoCaseNoRows'
    BY <1>2, <1>3, <1>4, <1>u DEF IInv, NoCaseNoRows
  <1>14. RowsObserve'
    BY <1>2, <1>8, <1>u DEF IInv, RowsObserve
  <1>15. PinnedIsEvidence'
    <2> SUFFICES ASSUME NEW d \in Cases, NEW e \in StoredEdges,
                        case_evidence'[d][e] # NoPin, case_evidence'[d][e].pinned
                 PROVE  case_evidence'[d][e].evidence \in cases'[d]
      BY DEF PinnedIsEvidence, PinnedEdges
    <2>1. CASE d = c /\ e = cmd.edge
      BY <2>1, <1>3, <1>4, <1>8
    <2>2. CASE ~(d = c /\ e = cmd.edge)
      <3>1. case_evidence'[d][e] = case_evidence[d][e] /\ e \in Edges
        BY <2>2, <1>u, PinningAssumption
      <3> QED BY <3>1, <1>3, <1>4 DEF IInv, PinnedIsEvidence, PinnedEdges
    <2> QED BY <2>1, <2>2
  <1>16. SnapshotsResolve'
    <2>1. evidence_items \subseteq evidence_items' /\ new \subseteq evidence_items'
      BY <1>2 DEF CommitPin, new, NewEvidence, IInv, SnapshotsResolve
    <2> QED BY <2>1, <1>4 DEF IInv, SnapshotsResolve
  <1>17. AuditChain'
    <2> SUFFICES ASSUME NEW d \in Cases, cases'[d] # NoCase
                 PROVE  /\ cases'[d] \in case_snapshots'[d]
                        /\ {actions'[n].previous : n \in After(d, cases'[d])}
                              = case_snapshots'[d] \ {cases'[d]}
                        /\ \A n, m \in After(d, cases'[d]) :
                              actions'[n].previous = actions'[m].previous => n = m
                        /\ \A n \in 1..Len(actions') :
                              actions'[n].case = d => Act(n) \in cases'[d]
      BY DEF AuditChain, ActionsOf
    <2>0. \A a, ev : ActionsOf(a, ev) \subseteq 1..Len(actions)
      BY DEF ActionsOf
    <2>1. CASE d = c
      <3>1. /\ {actions[n].previous : n \in ActionsOf(c, old)} = case_snapshots[c] \ {old}
            /\ \A n, m \in ActionsOf(c, old) :
                  actions[n].previous = actions[m].previous => n = m
            /\ \A n \in 1..Len(actions) : actions[n].case = c => Act(n) \in old
        BY <1>1 DEF IInv, AuditChain
      <3>2. \A n \in ActionsOf(c, old) : /\ actions'[n].previous = actions[n].previous
                                          /\ actions[n].previous # old
        BY <2>0, <3>1, <1>5
      <3>3. {actions'[n].previous : n \in After(c, new)}
              = {actions[n].previous : n \in ActionsOf(c, old)} \cup {old}
        BY <1>10, <3>2, <1>5, <1>6
      <3>4. {actions'[n].previous : n \in After(c, new)} = case_snapshots'[c] \ {new}
        BY <3>1, <3>3, <1>1, <1>2, <1>4
      <3>5. \A n, m \in After(c, new) : actions'[n].previous = actions'[m].previous => n = m
        BY <1>10, <3>1, <3>2, <1>5, <1>6
      <3>6. \A n \in 1..Len(actions') : actions'[n].case = c => Act(n) \in new
        BY <3>1, <1>2, <1>3, <1>5, <1>6, <1>9
      <3> QED BY <2>1, <3>4, <3>5, <3>6, <1>4
    <2>2. CASE d # c
      <3>1. cases'[d] = cases[d] /\ case_snapshots'[d] = case_snapshots[d] /\ cases[d] # NoCase
        BY <2>2, <1>4
      <3>2. After(d, cases[d]) = ActionsOf(d, cases[d])
        BY <2>2, <3>1, <1>10
      <3>3. \A n \in ActionsOf(d, cases[d]) : actions'[n] = actions[n]
        BY <2>0, <1>5
      <3>4. Act(k) \notin cases[d]
        BY <3>1, <1>9 DEF IInv, NoCaseNoRows
      <3>5. /\ cases[d] \in case_snapshots[d]
            /\ {actions[n].previous : n \in ActionsOf(d, cases[d])} = case_snapshots[d] \ {cases[d]}
            /\ \A n, m \in ActionsOf(d, cases[d]) :
                  actions[n].previous = actions[m].previous => n = m
            /\ \A n \in 1..Len(actions) : actions[n].case = d => Act(n) \in cases[d]
        BY <3>1 DEF IInv, AuditChain
      <3>6. {actions'[n].previous : n \in ActionsOf(d, cases[d])}
              = {actions[n].previous : n \in ActionsOf(d, cases[d])}
        BY <3>3
      <3>7. \A n \in 1..Len(actions') : actions'[n].case = d => Act(n) \in cases[d]
        BY <3>4, <3>5, <2>2, <1>2, <1>5, <1>6
      <3> QED BY <3>1, <3>2, <3>3, <3>5, <3>6, <3>7
    <2> QED BY <2>1, <2>2
  <1>18. PinsMatchAudit'
    <2> DEFINE Last(d, e, S) == {n \in S : actions'[n].edge = e
                                   /\ \A m \in S : actions'[m].edge = e => m <= n}
    <2> SUFFICES ASSUME NEW d \in Cases, NEW e \in Edges, cases'[d] # NoCase
                 PROVE  /\ case_evidence'[d][e] = NoPin <=> Last(d, e, After(d, cases'[d])) = {}
                        /\ \A n \in Last(d, e, After(d, cases'[d])) :
                              /\ case_evidence'[d][e].pinned = actions'[n].pinned
                              /\ case_evidence'[d][e].tag = actions'[n].tag
      BY DEF PinsMatchAudit, LastOn, ActionsOf
    <2>0. \A a, ev : ActionsOf(a, ev) \subseteq 1..Len(actions)
      BY DEF ActionsOf
    <2>1. CASE d = c /\ e = cmd.edge
      <3>1. Last(c, e, ActionsOf(c, old) \cup {k}) = {k}
        <4>1. \A n \in ActionsOf(c, old) : n \in Int /\ n < k
          BY <2>0, <1>2
        <4> QED BY <4>1, <2>1, <1>2, <1>5, <1>6
      <3> QED BY <2>1, <3>1, <1>4, <1>5, <1>6, <1>8, <1>10
    <2>2. CASE d = c /\ e # cmd.edge
      <3>1. Last(c, e, ActionsOf(c, old) \cup {k}) = LastOn(c, old, e)
        BY <2>0, <2>2, <1>5, <1>6 DEF LastOn
      <3>2. case_evidence'[c][e] = case_evidence[c][e]
        BY <2>2, <1>u
      <3>3. \A n \in LastOn(c, old, e) : actions'[n] = actions[n]
        BY <2>0, <1>5 DEF LastOn
      <3>4. Last(c, e, After(c, new)) = LastOn(c, old, e)
        BY <3>1, <1>10
      <3>5. /\ case_evidence[c][e] = NoPin <=> LastOn(c, old, e) = {}
            /\ \A n \in LastOn(c, old, e) : /\ case_evidence[c][e].pinned = actions[n].pinned
                                           /\ case_evidence[c][e].tag = actions[n].tag
        BY <1>1 DEF IInv, PinsMatchAudit
      <3> HIDE DEF Last, After
      <3> QED BY <2>2, <3>2, <3>3, <3>4, <3>5, <1>4
    <2>3. CASE d # c
      <3>1. cases'[d] = cases[d] /\ cases[d] # NoCase
        BY <2>3, <1>4
      <3>2. Last(d, e, ActionsOf(d, cases[d])) = LastOn(d, cases[d], e)
        BY <2>0, <1>5 DEF LastOn
      <3>3. case_evidence'[d][e] = case_evidence[d][e]
        BY <2>3, <1>u
      <3>4. \A n \in LastOn(d, cases[d], e) : actions'[n] = actions[n]
        BY <2>0, <1>5 DEF LastOn
      <3>5. Last(d, e, After(d, cases[d])) = LastOn(d, cases[d], e)
        BY <2>3, <3>1, <3>2, <1>10
      <3>6. /\ case_evidence[d][e] = NoPin <=> LastOn(d, cases[d], e) = {}
            /\ \A n \in LastOn(d, cases[d], e) :
                  /\ case_evidence[d][e].pinned = actions[n].pinned
                  /\ case_evidence[d][e].tag = actions[n].tag
        BY <3>1 DEF IInv, PinsMatchAudit
      <3> HIDE DEF Last, After
      <3> QED BY <3>1, <3>3, <3>4, <3>5, <3>6
    <2> QED BY <2>1, <2>2, <2>3
  <1> QED BY <1>11, <1>12, <1>13, <1>14, <1>15, <1>16, <1>17, <1>18 DEF IInv

(* The invariant is inductive. *)
LEMMA NextKeepsIInv == IInv /\ [Next]_db => IInv'
  <1> SUFFICES ASSUME IInv, [Next]_db PROVE IInv'
    OBVIOUS
  <1>1. CASE UNCHANGED db
    <2>1. UNCHANGED << cases, case_snapshots, evidence_items, actions, case_evidence >>
      BY <1>1 DEF db
    <2>2. TypeOK' /\ ActionsKnown' /\ NoCaseNoRows' /\ RowsObserve'
      BY <2>1 DEF IInv, TypeOK, ActionsKnown, NoCaseNoRows, RowsObserve
    <2>3. PinnedIsEvidence' /\ SnapshotsResolve'
      BY <2>1 DEF IInv, PinnedIsEvidence, PinnedEdges, SnapshotsResolve
    <2>4. AuditChain'
      BY <2>1 DEF IInv, AuditChain, ActionsOf
    <2>5. PinsMatchAudit'
      BY <2>1 DEF IInv, PinsMatchAudit, ActionsOf, LastOn
    <2> QED BY <2>1, <2>2, <2>3, <2>4, <2>5 DEF IInv
  <1>2. ASSUME NEW c \in Cases, NEW ev, CreateCase(c, ev)
        PROVE  IInv'
    BY <1>2, CreateKeepsIInv
  <1>3. ASSUME NEW c \in Cases, NEW cmd \in Command, NEW h, SetPin(c, cmd, h)
        PROVE  IInv'
    <2>1. CASE UNCHANGED db
      BY <1>1, <2>1
    <2>2. CASE ~Rejected(c, cmd, h) /\ ~NoChange(c, cmd) /\ CommitPin(c, cmd, h)
      BY <2>2, CommitKeepsIInv
    <2> QED BY <1>3, <2>1, <2>2 DEF SetPin
  <1> QED BY <1>1, <1>2, <1>3 DEF Next

LEMMA SpecIInv == Spec => []IInv
  BY InitIInv, NextKeepsIInv, PTL DEF Spec

(* The values the tables hold. *)
THEOREM PinningTypeOK == Spec => []TypeOK
  <1>1. IInv => TypeOK
    BY DEF IInv
  <1> QED BY <1>1, SpecIInv, PTL

(* Every active pin is evidence of the current snapshot (set_pin adds its  *)
(* observed transaction, and no later snapshot drops it).                  *)
THEOREM PinningPinnedIsEvidence == Spec => []PinnedIsEvidence
  <1>1. IInv => PinnedIsEvidence
    BY DEF IInv
  <1> QED BY <1>1, SpecIInv, PTL

(* The audit trail of every case is one chain of snapshots without forks:  *)
(* the hash check of set_pin under the row lock.                           *)
THEOREM PinningAuditChain == Spec => []AuditChain
  <1>1. IInv => AuditChain
    BY DEF IInv
  <1> QED BY <1>1, SpecIInv, PTL

(* The pin table says what the audit trail says (set_pin writes both in    *)
(* one transaction).                                                       *)
THEOREM PinningPinsMatchAudit == Spec => []PinsMatchAudit
  <1>1. IInv => PinsMatchAudit
    BY DEF IInv
  <1> QED BY <1>1, SpecIInv, PTL

(* All evidence of all snapshots exists (put_evidence comes before the     *)
(* snapshot that names it).                                                *)
THEOREM PinningSnapshotsResolve == Spec => []SnapshotsResolve
  <1>1. IInv => SnapshotsResolve
    BY DEF IInv
  <1> QED BY <1>1, SpecIInv, PTL

(* No snapshot hash of a case ever comes back: every pin action adds a     *)
(* fresh id to the evidence.                                               *)
THEOREM PinningSnapshotsNeverRecur == Spec => []SnapshotsNeverRecur
  <1>1. IInv => SnapshotsNeverRecur
    <2> SUFFICES ASSUME IInv, NEW c \in Cases, NEW cmd \in Command
                 PROVE  NewEvidence(c, cmd) \notin case_snapshots[c]
      BY DEF SnapshotsNeverRecur
    <2>1. Len(actions) \in Nat /\ Len(actions) + 1 \in 1..MaxActions + 1
      BY PinningAssumption DEF IInv, TypeOK
    <2>2. Act(Len(actions) + 1) \in NewEvidence(c, cmd)
      BY DEF NewEvidence
    <2> QED BY <2>1, <2>2 DEF IInv, ActionsKnown, SnapshotsResolve
  <1> QED BY <1>1, SpecIInv, PTL

-----------------------------------------------------------------------------
(* The locks. *)

(* A thread in the critical section holds the lock of its key, and one     *)
(* that waits for a lock waits for one that exists.                        *)
LockInv ==
    /\ in_flight_locks = [k \in DOMAIN in_flight_locks |-> in_flight_locks[k]]
    /\ pc = [t \in Threads |-> pc[t]] /\ key = [t \in Threads |-> key[t]]
    /\ \A t \in Threads :
          /\ pc[t] = "waiting" => key[t] \in DOMAIN in_flight_locks
          /\ pc[t] \in Holding => /\ key[t] \in DOMAIN in_flight_locks
                                  /\ in_flight_locks[key[t]] = t
    /\ \A k \in DOMAIN in_flight_locks : in_flight_locks[k] # NoThread =>
          /\ in_flight_locks[k] \in Threads
          /\ pc[in_flight_locks[k]] \in Holding
          /\ key[in_flight_locks[k]] = k

(* Leaving the critical section, by an answer or not. *)
LEMMA LeaveKeepsLocks ==
    ASSUME LockInv, NEW t \in Threads, pc[t] \in Holding,
           ReleaseKey(t), Done(t)
    PROVE  LockInv'
  <1>1. /\ in_flight_locks' = [in_flight_locks EXCEPT ![key[t]] = NoThread]
        /\ pc' = [pc EXCEPT ![t] = "idle"]
        /\ key' = [key EXCEPT ![t] = NoKey]
    BY DEF ReleaseKey, Done, Goto
  <1>2. /\ key[t] \in DOMAIN in_flight_locks /\ in_flight_locks[key[t]] = t
        /\ DOMAIN in_flight_locks' = DOMAIN in_flight_locks
        /\ in_flight_locks'[key[t]] = NoThread
        /\ \A k \in DOMAIN in_flight_locks :
              k # key[t] => in_flight_locks'[k] = in_flight_locks[k]
    BY <1>1 DEF LockInv
  <1>3. /\ pc'[t] = "idle"
        /\ \A u \in Threads : u # t => pc'[u] = pc[u] /\ key'[u] = key[u]
        /\ pc' = [u \in Threads |-> pc'[u]] /\ key' = [u \in Threads |-> key'[u]]
    BY <1>1 DEF LockInv
  <1>4. \A u \in Threads : u # t /\ pc[u] \in Holding => key[u] # key[t]
    BY <1>2 DEF LockInv
  <1>5. \A u \in Threads :
          /\ pc'[u] = "waiting" => key'[u] \in DOMAIN in_flight_locks'
          /\ pc'[u] \in Holding => /\ key'[u] \in DOMAIN in_flight_locks'
                                   /\ in_flight_locks'[key'[u]] = u
    BY <1>2, <1>3, <1>4 DEF LockInv, Holding
  <1>6. \A k \in DOMAIN in_flight_locks' : in_flight_locks'[k] # NoThread =>
          /\ in_flight_locks'[k] \in Threads
          /\ pc'[in_flight_locks'[k]] \in Holding
          /\ key'[in_flight_locks'[k]] = k
    <2> SUFFICES ASSUME NEW k \in DOMAIN in_flight_locks, in_flight_locks'[k] # NoThread
                 PROVE  /\ in_flight_locks'[k] \in Threads
                        /\ pc'[in_flight_locks'[k]] \in Holding
                        /\ key'[in_flight_locks'[k]] = k
      BY <1>2
    <2>1. k # key[t] /\ in_flight_locks'[k] = in_flight_locks[k]
      BY <1>2
    <2>2. in_flight_locks[k] # t
      BY <2>1, <1>2 DEF LockInv
    <2> QED BY <2>1, <2>2, <1>3 DEF LockInv
  <1>7. in_flight_locks' = [k \in DOMAIN in_flight_locks' |-> in_flight_locks'[k]]
    BY <1>1 DEF LockInv
  <1> QED BY <1>3, <1>5, <1>6, <1>7 DEF LockInv

(* A step of a thread that neither enters nor leaves the section. *)
LEMMA OutsideKeepsLocks ==
    ASSUME LockInv, NEW t \in Threads, NEW where,
           pc[t] \notin Holding, where \notin Holding, where # "waiting",
           pc' = [pc EXCEPT ![t] = where],
           key' = [u \in Threads |-> key'[u]],
           \A u \in Threads : u # t => key'[u] = key[u],
           UNCHANGED in_flight_locks
    PROVE  LockInv'
  <1>1. /\ pc'[t] = where /\ pc' = [u \in Threads |-> pc'[u]]
        /\ \A u \in Threads : u # t => pc'[u] = pc[u]
    BY DEF LockInv
  <1>2. \A u \in Threads :
          /\ pc'[u] = "waiting" => key'[u] \in DOMAIN in_flight_locks
          /\ pc'[u] \in Holding => /\ key'[u] \in DOMAIN in_flight_locks
                                   /\ in_flight_locks[key'[u]] = u
    BY <1>1 DEF LockInv
  <1>3. \A k \in DOMAIN in_flight_locks : in_flight_locks[k] # NoThread =>
          /\ in_flight_locks[k] \in Threads
          /\ pc'[in_flight_locks[k]] \in Holding
          /\ key'[in_flight_locks[k]] = k
    BY <1>1 DEF LockInv
  <1> QED BY <1>1, <1>2, <1>3 DEF LockInv

(* A step of a thread within the section. *)
LEMMA InsideKeepsLocks ==
    ASSUME LockInv, NEW t \in Threads, NEW where,
           pc[t] \in Holding, where \in Holding,
           pc' = [pc EXCEPT ![t] = where],
           UNCHANGED << key, in_flight_locks >>
    PROVE  LockInv'
  <1>1. /\ pc'[t] = where /\ pc' = [u \in Threads |-> pc'[u]]
        /\ \A u \in Threads : u # t => pc'[u] = pc[u]
    BY DEF LockInv
  <1>2. \A u \in Threads :
          /\ pc'[u] = "waiting" => key[u] \in DOMAIN in_flight_locks
          /\ pc'[u] \in Holding => /\ key[u] \in DOMAIN in_flight_locks
                                   /\ in_flight_locks[key[u]] = u
    BY <1>1 DEF LockInv, Holding
  <1>3. \A k \in DOMAIN in_flight_locks : in_flight_locks[k] # NoThread =>
          /\ in_flight_locks[k] \in Threads
          /\ pc'[in_flight_locks[k]] \in Holding
          /\ key[in_flight_locks[k]] = k
    BY <1>1 DEF LockInv
  <1> QED BY <1>1, <1>2, <1>3 DEF LockInv

LEMMA MissKeepsLocks ==
    ASSUME LockInv, NEW t \in Threads, LookupMiss(t)
    PROVE  LockInv'
  <1> DEFINE L == in_flight_locks
  <1>1. /\ pc[t] = "lookup" /\ pc' = [pc EXCEPT ![t] = "waiting"] /\ key' = key
        /\ L' = [k \in DOMAIN L \cup {key[t]} |-> IF k \in DOMAIN L THEN L[k] ELSE NoThread]
    BY DEF LookupMiss, Goto
  <1>2. /\ DOMAIN L' = DOMAIN L \cup {key[t]}
        /\ \A k \in DOMAIN L : L'[k] = L[k]
        /\ \A k \in DOMAIN L' : k \notin DOMAIN L => L'[k] = NoThread
        /\ L' = [k \in DOMAIN L' |-> L'[k]]
    BY <1>1
  <1>3. /\ pc'[t] = "waiting" /\ pc' = [u \in Threads |-> pc'[u]]
        /\ \A u \in Threads : u # t => pc'[u] = pc[u]
    BY <1>1 DEF LockInv
  <1>4. \A u \in Threads :
          /\ pc'[u] = "waiting" => key[u] \in DOMAIN L'
          /\ pc'[u] \in Holding => key[u] \in DOMAIN L' /\ L'[key[u]] = u
    BY <1>2, <1>3 DEF LockInv, Holding
  <1>5. \A k \in DOMAIN L' : L'[k] # NoThread =>
          /\ L'[k] \in Threads /\ pc'[L'[k]] \in Holding /\ key[L'[k]] = k
    BY <1>1, <1>2, <1>3 DEF LockInv, Holding
  <1> QED BY <1>1, <1>2, <1>3, <1>4, <1>5 DEF LockInv

LEMMA AcquireKeepsLocks ==
    ASSUME LockInv, NEW t \in Threads, AcquireKey(t)
    PROVE  LockInv'
  <1> DEFINE L == in_flight_locks
  <1>1. /\ pc[t] = "waiting" /\ pc' = [pc EXCEPT ![t] = "locked"] /\ key' = key
        /\ L[key[t]] = NoThread
        /\ L' = [L EXCEPT ![key[t]] = t]
        /\ key[t] \in DOMAIN L
    BY DEF AcquireKey, Goto, LockInv
  <1>2. /\ DOMAIN L' = DOMAIN L /\ L'[key[t]] = t
        /\ \A k \in DOMAIN L : k # key[t] => L'[k] = L[k]
        /\ L' = [k \in DOMAIN L' |-> L'[k]]
    BY <1>1 DEF LockInv
  <1>3. /\ pc'[t] = "locked" /\ pc' = [u \in Threads |-> pc'[u]]
        /\ \A u \in Threads : u # t => pc'[u] = pc[u]
    BY <1>1 DEF LockInv
  <1>4. \A u \in Threads : pc[u] \in Holding => key[u] # key[t]
    BY <1>1, ThreadsAssumption DEF LockInv
  <1>5. \A u \in Threads :
          /\ pc'[u] = "waiting" => key[u] \in DOMAIN L'
          /\ pc'[u] \in Holding => key[u] \in DOMAIN L' /\ L'[key[u]] = u
    BY <1>1, <1>2, <1>3, <1>4 DEF LockInv, Holding
  <1>6. \A k \in DOMAIN L' : L'[k] # NoThread =>
          /\ L'[k] \in Threads /\ pc'[L'[k]] \in Holding /\ key[L'[k]] = k
    BY <1>1, <1>2, <1>3 DEF LockInv, Holding
  <1> QED BY <1>1, <1>2, <1>3, <1>5, <1>6 DEF LockInv

LEMMA InitLocks == ApiInit => LockInv
  BY DEF ApiInit, LockInv, Holding

LEMMA NextKeepsLocks == LockInv /\ [ApiNext]_vars => LockInv'
  <1> SUFFICES ASSUME LockInv, [ApiNext]_vars PROVE LockInv'
    OBVIOUS
  <1>1. CASE UNCHANGED << in_flight_locks, pc, key >>
    BY <1>1 DEF LockInv
  <1>2. CASE UNCHANGED vars
    BY <1>2, <1>1 DEF vars, cache, local
  <1>3. CASE \E c \in Cases, ev \in SUBSET evidence_items : Create(c, ev)
    BY <1>3, <1>1 DEF Create, cache, local
  <1>4. CASE Restart
    BY <1>4 DEF Restart, LockInv, Holding
  <1>5. ASSUME NEW t \in Threads, Request(t) PROVE LockInv'
    <2>1. PICK c \in Cases :
            \/ \E cmd \in Command, h \in case_snapshots[c] : Pin(t, c, cmd, h)
            \/ Ask(t, c)
            \/ View(t, c)
      BY <1>5 DEF Request
    <2>2. PICK where \in {"invalidate", "lookup", "viewing"} :
            /\ pc[t] = "idle" /\ pc' = [pc EXCEPT ![t] = where]
            /\ key' = [u \in Threads |-> key'[u]]
            /\ \A u \in Threads : u # t => key'[u] = key[u]
            /\ UNCHANGED in_flight_locks
      <3>1. CASE Ask(t, c)
        <4>1. /\ pc[t] = "idle" /\ pc' = [pc EXCEPT ![t] = "lookup"]
              /\ key' = [key EXCEPT ![t] = CurrentKey(c)]
              /\ UNCHANGED in_flight_locks
          BY <3>1 DEF Ask, ReadCase, Goto, cache
        <4> QED BY <4>1 DEF LockInv
      <3>2. CASE View(t, c)
        <4>1. /\ pc[t] = "idle" /\ pc' = [pc EXCEPT ![t] = "viewing"]
              /\ key' = [key EXCEPT ![t] = CurrentKey(c)]
              /\ UNCHANGED in_flight_locks
          BY <3>2 DEF View, ReadCase, Goto, cache
        <4> QED BY <4>1 DEF LockInv
      <3>3. CASE \E cmd \in Command, h \in case_snapshots[c] : Pin(t, c, cmd, h)
        <4>1. /\ pc[t] = "idle" /\ pc' = [pc EXCEPT ![t] = "invalidate"]
              /\ key' = [key EXCEPT ![t] = [key[t] EXCEPT !.case = c]]
              /\ UNCHANGED in_flight_locks
          BY <3>3 DEF Pin, Goto, cache
        <4> QED BY <4>1 DEF LockInv
      <3> QED BY <2>1, <3>1, <3>2, <3>3
    <2> QED BY <2>2, OutsideKeepsLocks DEF Holding
  <1>6. ASSUME NEW t \in Threads, Handle(t) PROVE LockInv'
    <2>1. CASE \/ Invalidate(t) \/ LookupHit(t) \/ ViewMiss(t) \/ Fetch(t) \/ FetchKeyError(t)
      <3>1. /\ pc[t] \notin Holding /\ UNCHANGED in_flight_locks
            /\ Done(t)
        BY <2>1 DEF Invalidate, LookupHit, ViewMiss, Fetch, FetchKeyError, Answer, cache, Holding
      <3>2. /\ pc' = [pc EXCEPT ![t] = "idle"]
            /\ key' = [u \in Threads |-> key'[u]]
            /\ \A u \in Threads : u # t => key'[u] = key[u]
        BY <3>1 DEF Done, Goto, LockInv
      <3> QED BY <3>1, <3>2, OutsideKeepsLocks DEF Holding
    <2>2. CASE ViewHit(t)
      <3>1. /\ pc[t] = "viewing" /\ pc' = [pc EXCEPT ![t] = "fetching"]
            /\ UNCHANGED << key, in_flight_locks >>
        BY <2>2 DEF ViewHit, Goto, cache
      <3> QED BY <3>1, OutsideKeepsLocks DEF Holding, LockInv
    <2>3. CASE LookupMiss(t)
      BY <2>3, MissKeepsLocks
    <2>4. CASE SecondLookHit(t) \/ WorkflowRaises(t) \/ RecheckConflict(t) \/ Store(t)
      <3>1. pc[t] \in Holding /\ ReleaseKey(t) /\ Done(t)
        BY <2>4 DEF SecondLookHit, WorkflowRaises, RecheckConflict, Store, Answer, Holding
      <3> QED BY <3>1, LeaveKeepsLocks
    <2>5. CASE SecondLookMiss(t) \/ Generate(t) \/ RecheckSame(t)
      <3>1. PICK where \in Holding :
              /\ pc[t] \in Holding /\ pc' = [pc EXCEPT ![t] = where]
              /\ UNCHANGED << key, in_flight_locks >>
        BY <2>5 DEF SecondLookMiss, Generate, RecheckSame, Goto, cache, Holding
      <3> QED BY <3>1, InsideKeepsLocks
    <2> QED BY <1>6, <2>1, <2>2, <2>3, <2>4, <2>5 DEF Handle
  <1> QED BY <1>2, <1>3, <1>4, <1>5, <1>6, AcquireKeepsLocks DEF ApiNext

(* Whatever threads ask, pin, view, fail and restart, one of them at most  *)
(* runs the paid workflow for a snapshot, and no path keeps its lock (the  *)
(* lock of the key, found or made under global_cache_lock).                *)
THEOREM ApiSingleFlight == ApiSpec => []SingleFlight
  <1>1. LockInv => SingleFlight
    BY DEF LockInv, SingleFlight
  <1> QED BY <1>1, InitLocks, NextKeepsLocks, PTL DEF ApiSpec

-----------------------------------------------------------------------------
(* The tables: the steps of the API on them are steps of Pinning. *)

LEMMA NextIsPinning == [ApiNext]_vars => [Next]_db
  <1> SUFFICES ASSUME [ApiNext]_vars PROVE [Next]_db
    OBVIOUS
  <1>1. CASE UNCHANGED vars
    BY <1>1 DEF vars
  <1>2. CASE \E c \in Cases, ev \in SUBSET evidence_items : Create(c, ev)
    BY <1>2 DEF Create, Next
  <1>3. ASSUME NEW t \in Threads, Request(t) PROVE [Next]_db
    <2>1. PICK c \in Cases :
            \/ \E cmd \in Command, h \in case_snapshots[c] : Pin(t, c, cmd, h)
            \/ Ask(t, c)
            \/ View(t, c)
      BY <1>3 DEF Request
    <2>2. CASE \E cmd \in Command, h \in case_snapshots[c] : Pin(t, c, cmd, h)
      BY <2>2 DEF Pin, Next
    <2>3. CASE Ask(t, c) \/ View(t, c)
      BY <2>3 DEF Ask, View, ReadCase
    <2> QED BY <2>1, <2>2, <2>3
  <1>4. ASSUME NEW t \in Threads, Handle(t) PROVE [Next]_db
    BY <1>4 DEF Handle, Invalidate, LookupHit, LookupMiss, SecondLookHit, SecondLookMiss,
                Generate, WorkflowRaises, RecheckConflict, RecheckSame, Store,
                ViewMiss, ViewHit, Fetch, FetchKeyError
  <1>5. ASSUME NEW t \in Threads, AcquireKey(t) PROVE [Next]_db
    BY <1>5 DEF AcquireKey
  <1>6. CASE Restart
    BY <1>6 DEF Restart
  <1> QED BY <1>1, <1>2, <1>3, <1>4, <1>5, <1>6 DEF ApiNext

(* Pins are on stored edges only, and a case without a row has no history. *)
RowsInv ==
    \A c \in Cases :
        /\ \A e \in Edges : case_evidence[c][e] # NoPin => e \in StoredEdges
        /\ cases[c] = NoCase => case_snapshots[c] = {}

(* What a pin does to the tables, in the words of this module. *)
LEMMA PinFacts ==
    ASSUME IInv, NEW c \in Cases, NEW cmd \in Command, NEW h,
           ~Rejected(c, cmd, h), CommitPin(c, cmd, h)
    PROVE  /\ cmd.edge \in StoredEdges
           /\ cases[c] # NoCase /\ cases'[c] # NoCase
           /\ \A d \in Cases : d # c => cases'[d] = cases[d]
           /\ \A d \in Cases : case_snapshots[d] \subseteq case_snapshots'[d]
           /\ \A d \in Cases : d # c => case_snapshots'[d] = case_snapshots[d]
           /\ \A d \in Cases, e \in Edges :
                 d # c \/ e # cmd.edge => case_evidence'[d][e] = case_evidence[d][e]
           /\ Len(actions) \in Nat /\ Len(actions) + 1 \in 1..MaxActions
           /\ Len(actions') = Len(actions) + 1
           /\ \A n \in 1..Len(actions) : actions'[n] = actions[n]
           /\ actions'[Len(actions')].case = c /\ actions'[Len(actions')].previous = cases[c]
           /\ case_evidence'[c][cmd.edge] # NoPin
           /\ case_evidence'[c][cmd.edge].pinned = cmd.pinned
  <1>1. /\ cmd.edge \in StoredEdges /\ cases[c] # NoCase /\ h = cases[c]
        /\ cmd.edge \in Edges /\ cmd.pinned \in BOOLEAN /\ cmd.tag \in Tags
    BY DEF Rejected, Command
  <1>2. /\ Len(actions) \in Nat /\ Len(actions) < MaxActions /\ MaxActions \in Nat
        /\ actions \in Seq(ActionType)
    BY PinningAssumption DEF CommitPin, IInv, TypeOK
  <1>3. /\ Len(actions') = Len(actions) + 1
        /\ \A n \in 1..Len(actions) : actions'[n] = actions[n]
    BY <1>2 DEF CommitPin
  <1>4. Obs(c, cmd.edge) \in EvidenceIds /\ Act(Len(actions) + 1) \in EvidenceIds
    BY <1>1, <1>2 DEF EvidenceIds
  <1>5. NewEvidence(c, cmd) \in SUBSET EvidenceIds
    BY <1>1, <1>4 DEF NewEvidence, IInv, TypeOK
  <1>6. NewEvidence(c, cmd) # NoCase
    BY <1>5, NoRowAssumption
  <1>7. /\ cases' = [cases EXCEPT ![c] = NewEvidence(c, cmd)]
        /\ case_snapshots' = [case_snapshots EXCEPT ![c] = @ \cup {NewEvidence(c, cmd)}]
        /\ case_evidence' = [case_evidence EXCEPT ![c][cmd.edge] = NewRow(c, cmd)]
    BY DEF CommitPin
  <1>8. /\ cases'[c] # NoCase
        /\ \A d \in Cases : d # c => cases'[d] = cases[d]
    BY <1>6, <1>7 DEF IInv, TypeOK
  <1>9. /\ \A d \in Cases : case_snapshots[d] \subseteq case_snapshots'[d]
        /\ \A d \in Cases : d # c => case_snapshots'[d] = case_snapshots[d]
    BY <1>7 DEF IInv, TypeOK
  <1>10. \A d \in Cases, e \in Edges :
            d # c \/ e # cmd.edge => case_evidence'[d][e] = case_evidence[d][e]
    BY <1>7 DEF IInv, TypeOK
  <1>11. actions'[Len(actions')].case = c /\ actions'[Len(actions')].previous = cases[c]
    BY <1>1, <1>2, <1>3 DEF CommitPin
  <1>12. NewRow(c, cmd) \in Row /\ NewRow(c, cmd).pinned = cmd.pinned
    <2> DEFINE row == case_evidence[c][cmd.edge]
    <2>1. CASE row = NoPin
      BY <1>1, <1>4, <2>1 DEF NewRow, Row
    <2>2. CASE row # NoPin
      <3>1. row \in Row
        BY <1>1, <2>2 DEF IInv, TypeOK
      <3> QED BY <1>1, <2>2, <3>1 DEF NewRow, Row
    <2> QED BY <2>1, <2>2
  <1>13. case_evidence'[c][cmd.edge] = NewRow(c, cmd)
    BY <1>1, <1>7 DEF IInv, TypeOK
  <1> QED BY <1>1, <1>2, <1>3, <1>8, <1>9, <1>10, <1>11, <1>12, <1>13, NoRowAssumption

LEMMA NextKeepsRows ==
    ASSUME IInv, RowsInv, [Next]_db
    PROVE  RowsInv'
  <1>1. CASE UNCHANGED db
    BY <1>1 DEF db, RowsInv
  <1>2. ASSUME NEW c \in Cases, NEW ev \in SUBSET evidence_items, CreateCase(c, ev)
        PROVE  RowsInv'
    <2>1. ev \in SUBSET EvidenceIds
      BY DEF IInv, TypeOK
    <2>2. ev # NoCase
      BY <2>1, NoRowAssumption
    <2> QED BY <1>2, <2>2 DEF CreateCase, RowsInv, IInv, TypeOK
  <1>3. ASSUME NEW c \in Cases, NEW cmd \in Command, NEW h, SetPin(c, cmd, h)
        PROVE  RowsInv'
    <2>1. CASE UNCHANGED db
      BY <2>1, <1>1
    <2>2. CASE ~Rejected(c, cmd, h) /\ CommitPin(c, cmd, h)
      BY <2>2, PinFacts DEF RowsInv
    <2> QED BY <1>3, <2>1, <2>2 DEF SetPin
  <1> QED BY <1>1, <1>2, <1>3 DEF Next

(* What a snapshot says of its pins is said for good: later actions have   *)
(* ids that no earlier snapshot has.                                       *)
Kept ==
    \A c \in Cases : \A ev \in case_snapshots[c] :
        ev \in case_snapshots'[c] /\ PinsAt(c, ev)' = PinsAt(c, ev)

LEMMA NextKeepsSnapshots ==
    ASSUME IInv, RowsInv, [Next]_db
    PROVE  Kept
  <1>1. CASE UNCHANGED db
    <2>1. \A c, ev : PinsAt(c, ev)' = PinsAt(c, ev)
      BY <1>1 DEF db, PinsAt, LastOn, ActionsOf
    <2> QED BY <1>1, <2>1 DEF db, Kept
  <1>2. ASSUME NEW c \in Cases, NEW ev \in SUBSET evidence_items, CreateCase(c, ev)
        PROVE  Kept
    <2>1. \A d, sn : PinsAt(d, sn)' = PinsAt(d, sn)
      BY <1>2 DEF CreateCase, PinsAt, LastOn, ActionsOf
    <2>2. \A d \in Cases : case_snapshots[d] \subseteq case_snapshots'[d]
      BY <1>2 DEF CreateCase, RowsInv, IInv, TypeOK
    <2> QED BY <2>1, <2>2 DEF Kept
  <1>3. ASSUME NEW c \in Cases, NEW cmd \in Command, NEW h,
               ~Rejected(c, cmd, h), CommitPin(c, cmd, h)
        PROVE  Kept
    <2> SUFFICES ASSUME NEW d \in Cases, NEW ev \in case_snapshots[d]
                 PROVE  PinsAt(d, ev)' = PinsAt(d, ev)
      BY <1>3, PinFacts DEF Kept
    <2> DEFINE k == Len(actions) + 1
    <2>1. /\ Len(actions) \in Nat /\ k \in 1..MaxActions /\ Len(actions') = k
          /\ \A n \in 1..Len(actions) : actions'[n] = actions[n]
      BY <1>3, PinFacts
    <2>2. Act(k) \notin ev
      BY <2>1, PinningAssumption DEF IInv, SnapshotsResolve, ActionsKnown
    <2>3. ActionsOf(d, ev)' = ActionsOf(d, ev)
      BY <2>1, <2>2 DEF ActionsOf
    <2>4. \A n \in ActionsOf(d, ev) : actions'[n] = actions[n]
      BY <2>1 DEF ActionsOf
    <2>5. \A e : LastOn(d, ev, e)' = LastOn(d, ev, e)
      BY <2>3, <2>4 DEF LastOn
    <2>6. \A e : \A n \in LastOn(d, ev, e) : actions'[n] = actions[n]
      BY <2>4 DEF LastOn
    <2> QED BY <2>5, <2>6 DEF PinsAt
  <1> QED BY <1>1, <1>2, <1>3 DEF Next, SetPin

(* What a handler reads in one transaction: the current snapshot and its   *)
(* pins.                                                                   *)
LEMMA ReadIsConsistent ==
    ASSUME IInv, RowsInv, NEW c \in Cases, cases[c] # NoCase
    PROVE  /\ cases[c] \in case_snapshots[c]
           /\ PinnedEdges(c) = PinsAt(c, cases[c])
           /\ {case_evidence[c][e].evidence : e \in PinnedEdges(c)}
                = {Obs(c, e) : e \in PinsAt(c, cases[c])}
  <1>1. cases[c] \in case_snapshots[c]
    BY DEF IInv, NoCaseNoRows
  <1>2. PinnedEdges(c) = PinsAt(c, cases[c])
    <2>1. \A e \in PinnedEdges(c) : e \in PinsAt(c, cases[c])
      BY PinningAssumption DEF PinnedEdges, PinsAt, IInv, PinsMatchAudit
    <2>2. \A e \in PinsAt(c, cases[c]) : e \in PinnedEdges(c)
      BY DEF PinnedEdges, PinsAt, IInv, PinsMatchAudit, RowsInv
    <2> QED BY <2>1, <2>2
  <1>3. \A e \in PinnedEdges(c) : case_evidence[c][e].evidence = Obs(c, e)
    BY PinningAssumption DEF PinnedEdges, IInv, RowsObserve
  <1> QED BY <1>1, <1>2, <1>3

-----------------------------------------------------------------------------
(* The chain of pins. *)

(* A number above all others comes last and moves none of them. *)
LEMMA NthOfMore ==
    ASSUME NEW N \in Nat, NEW S \in SUBSET (1..N)
    PROVE  /\ IsFiniteSet(S) /\ Cardinality(S) \in Nat
           /\ Cardinality(S \cup {N + 1}) = Cardinality(S) + 1
           /\ \A i \in 1..Cardinality(S) : Nth(S \cup {N + 1}, i) = Nth(S, i)
           /\ Nth(S \cup {N + 1}, Cardinality(S) + 1) = N + 1
  <1> DEFINE more == S \cup {N + 1}
             upto(T, n) == {m \in T : m <= n}
  <1>1. IsFiniteSet(S) /\ Cardinality(S) \in Nat
    <2>1. IsFiniteSet(1..N)
      <3>1. 1 \in Int /\ N \in Int
        OBVIOUS
      <3> QED BY <3>1, FS_Interval
    <2> QED BY <2>1, FS_Subset, FS_CardinalityType
  <1>2. Cardinality(more) = Cardinality(S) + 1
    <2>1. \A n \in S : n # N + 1
      OBVIOUS
    <2>2. \A x : x \notin S => Cardinality(S \cup {x}) = Cardinality(S) + 1
      BY <1>1, FS_AddElement
    <2> QED BY <2>1, <2>2
  <1>3. \A n \in S : upto(more, n) = upto(S, n)
    OBVIOUS
  <1>4. upto(more, N + 1) = more
    <2>1. \A m \in S : m <= N + 1
      OBVIOUS
    <2>2. \A m \in more : m <= N + 1
      BY <2>1
    <2> HIDE DEF more
    <2> QED BY <2>2
  <1>5. \A n \in S : Cardinality(upto(S, n)) \in Nat /\ Cardinality(upto(S, n)) <= Cardinality(S)
    <2>1. \A n \in S : upto(S, n) \in SUBSET S
      OBVIOUS
    <2> HIDE DEF upto
    <2> QED BY <1>1, <2>1, FS_Subset, FS_CardinalityType
  <1>6. ASSUME NEW i \in 1..Cardinality(S) PROVE Nth(more, i) = Nth(S, i)
    <2> DEFINE At(n) == n \in S /\ Cardinality(upto(S, n)) = i
               AtMore(n) == n \in more /\ Cardinality(upto(more, n)) = i
    <2>1. \A n : AtMore(n) <=> At(n)
      <3>1. i # Cardinality(S) + 1
        BY <1>1
      <3> HIDE DEF upto
      <3> QED BY <1>2, <1>3, <1>4, <3>1
    <2>2. (CHOOSE n : AtMore(n)) = (CHOOSE n : At(n))
      <3> HIDE DEF At, AtMore
      <3> QED BY <2>1
    <2> QED BY <2>2 DEF Nth
  <1>7. Nth(more, Cardinality(S) + 1) = N + 1
    <2>1. \A n \in more : Cardinality(upto(more, n)) = Cardinality(S) + 1 <=> n = N + 1
      <3>1. \A n \in S : Cardinality(upto(S, n)) # Cardinality(S) + 1 /\ n # N + 1
        <4>1. \A n \in S : n # N + 1
          OBVIOUS
        <4> HIDE DEF upto
        <4> QED BY <1>1, <1>5, <4>1
      <3> HIDE DEF upto
      <3> QED BY <1>2, <1>3, <1>4, <3>1
    <2>2. N + 1 \in more
      OBVIOUS
    <2> HIDE DEF more
    <2> QED BY <2>1, <2>2 DEF Nth
  <1> QED BY <1>1, <1>2, <1>6, <1>7

(* Every number up to the count of a case's actions is that of one.        *)
NumbersInv == \A c \in Cases : \A i \in 1..Cardinality(OwnActions(c)) :
                 Nth(OwnActions(c), i) \in OwnActions(c)

ChainInv == IInv /\ RowsInv /\ NumbersInv

(* The numbers of a case's actions, and how a pin adds to them. *)
LEMMA OwnActionsCount ==
    ASSUME IInv, NEW c \in Cases
    PROVE  /\ OwnActions(c) \in SUBSET (1..Len(actions)) /\ Len(actions) \in Nat
           /\ Cardinality(OwnActions(c)) \in Nat
  <1>1. OwnActions(c) \in SUBSET (1..Len(actions)) /\ Len(actions) \in Nat
    BY DEF OwnActions, IInv, TypeOK
  <1> QED BY <1>1, NthOfMore

LEMMA PinAddsAction ==
    ASSUME IInv, NEW c \in Cases, NEW cmd \in Command, NEW h,
           ~Rejected(c, cmd, h), CommitPin(c, cmd, h)
    PROVE  /\ OwnActions(c)' = OwnActions(c) \cup {Len(actions) + 1}
           /\ \A d \in Cases : d # c => OwnActions(d)' = OwnActions(d)
  <1>1. /\ Len(actions) \in Nat /\ Len(actions') = Len(actions) + 1
        /\ \A n \in 1..Len(actions) : actions'[n] = actions[n]
        /\ actions'[Len(actions')].case = c
    BY PinFacts
  <1> QED BY <1>1 DEF OwnActions

(* The snapshots that actions of a case were made on are snapshots of it.  *)
LEMMA MadeOnSnapshot ==
    ASSUME IInv, NEW c \in Cases, NEW n \in OwnActions(c)
    PROVE  cases[c] # NoCase /\ actions[n].previous \in case_snapshots[c]
  <1>1. n \in 1..Len(actions) /\ actions[n].case = c
    BY DEF OwnActions
  <1>2. cases[c] # NoCase
    BY <1>1 DEF IInv, ActionsKnown
  <1>3. n \in ActionsOf(c, cases[c])
    BY <1>1, <1>2 DEF IInv, AuditChain, ActionsOf
  <1> QED BY <1>2, <1>3 DEF IInv, AuditChain

LEMMA NextKeepsNumbers ==
    ASSUME ChainInv, [Next]_db
    PROVE  NumbersInv'
  <1>1. CASE UNCHANGED actions
    BY <1>1 DEF ChainInv, NumbersInv, OwnActions
  <1>2. ASSUME NEW c \in Cases, NEW cmd \in Command, NEW h,
               ~Rejected(c, cmd, h), CommitPin(c, cmd, h)
        PROVE  NumbersInv'
    <2> DEFINE S == OwnActions(c)
               k == Len(actions) + 1
    <2>1. /\ S \in SUBSET (1..Len(actions)) /\ Len(actions) \in Nat /\ Cardinality(S) \in Nat
          /\ OwnActions(c)' = S \cup {k}
          /\ \A d \in Cases : d # c => OwnActions(d)' = OwnActions(d)
      BY <1>2, OwnActionsCount, PinAddsAction DEF ChainInv
    <2>2. /\ Cardinality(S \cup {k}) = Cardinality(S) + 1
          /\ \A i \in 1..Cardinality(S) : Nth(S \cup {k}, i) = Nth(S, i)
          /\ Nth(S \cup {k}, Cardinality(S) + 1) = k
      BY <2>1, NthOfMore
    <2>3. \A i \in 1..Cardinality(S) : Nth(S, i) \in S
      BY DEF ChainInv, NumbersInv
    <2>4. \A i \in 1..Cardinality(S \cup {k}) : Nth(S \cup {k}, i) \in S \cup {k}
      <3>1. \A i \in 1..Cardinality(S \cup {k}) : i \in 1..Cardinality(S) \/ i = Cardinality(S) + 1
        BY <2>1, <2>2
      <3> HIDE DEF S, k
      <3> QED BY <2>2, <2>3, <3>1
    <2>5. \A d \in Cases : d # c =>
             \A i \in 1..Cardinality(OwnActions(d)) : Nth(OwnActions(d), i) \in OwnActions(d)
      BY DEF ChainInv, NumbersInv
    <2> HIDE DEF S, k
    <2>6. ASSUME NEW d \in Cases, NEW T, T = OwnActions(d)'
          PROVE  \A i \in 1..Cardinality(T) : Nth(T, i) \in T
      <3>1. CASE d = c
        BY <2>1, <2>4, <2>6, <3>1
      <3>2. CASE d # c
        BY <2>1, <2>5, <2>6, <3>2
      <3> QED BY <3>1, <3>2
    <2> QED BY <2>6 DEF NumbersInv
  <1> QED BY <1>1, <1>2 DEF Next, CreateCase, SetPin, db

(* The table after a pin has the pins from before, but for its own edge. *)
LEMMA PinToggles ==
    ASSUME IInv, RowsInv, NEW c \in Cases, NEW cmd \in Command, NEW h,
           ~Rejected(c, cmd, h), CommitPin(c, cmd, h)
    PROVE  /\ PinnedEdges(c)' = IF cmd.pinned THEN PinnedEdges(c) \cup {cmd.edge}
                                ELSE PinnedEdges(c) \ {cmd.edge}
           /\ \A d \in Cases : d # c => PinnedEdges(d)' = PinnedEdges(d)
  <1>1. /\ cmd.edge \in StoredEdges
        /\ \A d \in Cases, e \in Edges :
              d # c \/ e # cmd.edge => case_evidence'[d][e] = case_evidence[d][e]
        /\ case_evidence'[c][cmd.edge] # NoPin
        /\ case_evidence'[c][cmd.edge].pinned = cmd.pinned
    BY PinFacts
  <1>2. StoredEdges \subseteq Edges
    BY PinningAssumption
  <1>3. \A d \in Cases : \A e \in StoredEdges :
            d # c \/ e # cmd.edge => (e \in PinnedEdges(d)' <=> e \in PinnedEdges(d))
    BY <1>1, <1>2 DEF PinnedEdges
  <1>4. cmd.edge \in PinnedEdges(c)' <=> cmd.pinned
    BY <1>1 DEF PinnedEdges
  <1>5. \A d \in Cases : PinnedEdges(d) \subseteq StoredEdges /\ PinnedEdges(d)' \subseteq StoredEdges
    BY DEF PinnedEdges
  <1> QED BY <1>1, <1>3, <1>4, <1>5

(* The chain of a case that exists. *)
LEMMA ChainDef ==
    ASSUME NEW c \in Cases, cases[c] # NoCase
    PROVE  PinsOfSnapshots(c) =
             [i \in 1..(Cardinality(OwnActions(c)) + 1) |->
                IF i <= Cardinality(OwnActions(c))
                THEN PinsAt(c, actions[Nth(OwnActions(c), i)].previous) ELSE PinnedEdges(c)]
  BY DEF PinsOfSnapshots

(* The trail says of a snapshot what it said before the step. *)
LEMMA TrailKept ==
    ASSUME ChainInv, [Next]_db, NEW c \in Cases, NEW i \in 1..Cardinality(OwnActions(c)),
           \A n \in 1..Len(actions) : actions'[n] = actions[n]
    PROVE  \A n : n = Nth(OwnActions(c), i) =>
              PinsAt(c, actions[n].previous)' = PinsAt(c, actions[n].previous)
  <1> SUFFICES ASSUME NEW n, n = Nth(OwnActions(c), i)
               PROVE  PinsAt(c, actions[n].previous)' = PinsAt(c, actions[n].previous)
    OBVIOUS
  <1>2. n \in OwnActions(c)
    BY DEF ChainInv, NumbersInv
  <1>3. actions[n].previous \in case_snapshots[c]
    BY <1>2, MadeOnSnapshot DEF ChainInv
  <1>4. actions'[n] = actions[n]
    BY <1>2 DEF OwnActions
  <1>5. PICK ev \in case_snapshots[c] : ev = actions[n].previous
    BY <1>3
  <1>6. PinsAt(c, ev)' = PinsAt(c, ev)
    BY NextKeepsSnapshots DEF ChainInv, Kept
  <1> QED BY <1>4, <1>5, <1>6 DEF PinsAt, LastOn, ActionsOf

(* Append, position by position. *)
LEMMA AppendIs ==
    ASSUME NEW T, NEW s \in Seq(T), NEW x \in T
    PROVE  Append(s, x) = [i \in 1..(Len(s) + 1) |-> IF i <= Len(s) THEN s[i] ELSE x]
  <1>1. Append(s, x) \in Seq(T) /\ Len(Append(s, x)) = Len(s) + 1 /\ Len(s) \in Nat
    BY AppendProperties
  <1>2. \A i \in 1..(Len(s) + 1) : Append(s, x)[i] = IF i <= Len(s) THEN s[i] ELSE x
    BY AppendProperties
  <1> DEFINE f == Append(s, x)
             n == Len(s) + 1
  <1>3. f \in [1..n -> T]
    <2> HIDE DEF f, n
    <2>1. f \in Seq(T) /\ Len(f) = n
      BY <1>1 DEF f, n
    <2> QED BY <2>1, LenProperties
  <1> QED BY <1>2, <1>3

(* A pin on case c appends to its chain. *)
LEMMA PinAppends ==
    ASSUME ChainInv, NEW c \in Cases, NEW cmd \in Command, NEW h,
           ~Rejected(c, cmd, h), CommitPin(c, cmd, h), [Next]_db
    PROVE  /\ PinsOfSnapshots(c)' = Append(PinsOfSnapshots(c), PinnedEdges(c)')
           /\ PinsOfSnapshots(c) # << >>
           /\ PinsOfSnapshots(c)[Len(PinsOfSnapshots(c))] = PinnedEdges(c)
  <1>1. PICK S, N : /\ S = OwnActions(c) /\ N = Len(actions)
                    /\ S \in SUBSET (1..N) /\ N \in Nat /\ Cardinality(S) \in Nat
                    /\ OwnActions(c)' = S \cup {N + 1}
    BY OwnActionsCount, PinAddsAction DEF ChainInv
  <1> DEFINE past == Cardinality(S)
             more == S \cup {N + 1}
  <1>2. /\ Cardinality(more) = past + 1
        /\ \A i \in 1..past : Nth(more, i) = Nth(S, i)
        /\ Nth(more, past + 1) = N + 1
    BY <1>1, NthOfMore
  <1>3. /\ \A n \in 1..N : actions'[n] = actions[n]
        /\ actions'[N + 1].previous = cases[c]
        /\ cases[c] # NoCase /\ cases'[c] # NoCase
    BY <1>1, PinFacts DEF ChainInv
  <1>4. PinsOfSnapshots(c) = [i \in 1..(past + 1) |->
                                IF i <= past THEN PinsAt(c, actions[Nth(S, i)].previous)
                                ELSE PinnedEdges(c)]
    BY <1>1, <1>3, ChainDef
  <1>5. PinsOfSnapshots(c)' = [i \in 1..(past + 1 + 1) |->
                                 IF i <= past + 1 THEN PinsAt(c, actions[Nth(more, i)].previous)'
                                 ELSE PinnedEdges(c)']
    <2> HIDE DEF past, more
    <2> QED BY <1>1, <1>2, <1>3 DEF PinsOfSnapshots, more
  <1>6. ASSUME NEW i \in 1..past
        PROVE  PinsAt(c, actions[Nth(more, i)].previous)' = PinsAt(c, actions[Nth(S, i)].previous)
    <2>1. PICK n : n = Nth(S, i) /\ n = Nth(more, i)
      BY <1>2
    <2>2. PinsAt(c, actions[n].previous)' = PinsAt(c, actions[n].previous)
      BY <1>1, <1>3, <2>1, TrailKept
    <2> QED BY <2>1, <2>2
  <1>7. PinsAt(c, actions[Nth(more, past + 1)].previous)' = PinnedEdges(c)
    <2>1. PICK ev \in case_snapshots[c] : ev = cases[c] /\ PinnedEdges(c) = PinsAt(c, ev)
      BY <1>3, ReadIsConsistent DEF ChainInv
    <2>2. PinsAt(c, ev)' = PinsAt(c, ev)
      BY NextKeepsSnapshots DEF ChainInv, Kept
    <2>3. PinsAt(c, actions[N + 1].previous)' = PinsAt(c, ev)'
      BY <1>3, <2>1 DEF PinsAt, LastOn, ActionsOf
    <2> QED BY <1>2, <2>1, <2>2, <2>3
  <1> DEFINE h1 == PinsOfSnapshots(c)
             new == PinnedEdges(c)'
  <1>8. /\ h1 \in Seq(SUBSET Edges) /\ Len(h1) = past + 1 /\ h1[past + 1] = PinnedEdges(c)
        /\ \A i \in 1..past : h1[i] = PinsAt(c, actions[Nth(S, i)].previous)
    <2>1. /\ PinnedEdges(c) \in SUBSET Edges
          /\ \A ev : PinsAt(c, ev) \in SUBSET Edges
      BY PinningAssumption DEF PinnedEdges, PinsAt
    <2>2. ~(past + 1 <= past) /\ \A i \in 1..past : i <= past /\ i \in 1..(past + 1)
      BY <1>1
    <2> HIDE DEF past
    <2>3. past \in Nat
      BY <1>1 DEF past
    <2> QED BY <1>4, <2>1, <2>2, <2>3
  <1>9. Append(h1, new) = [i \in 1..(past + 1 + 1) |-> IF i <= past + 1 THEN h1[i] ELSE new]
    <2>1. new \in SUBSET Edges
      BY PinningAssumption DEF PinnedEdges
    <2> HIDE DEF h1, new, past
    <2> QED BY <1>8, <2>1, AppendIs
  <1>10. \A i \in 1..(past + 1) : PinsAt(c, actions[Nth(more, i)].previous)' = h1[i]
    <2>1. \A i \in 1..(past + 1) : i \in 1..past \/ i = past + 1
      BY <1>1
    <2> HIDE DEF h1, past, more
    <2> QED BY <1>6, <1>7, <1>8, <2>1
  <1>11. PinsOfSnapshots(c)' = Append(h1, new)
    <2>1. \A i \in 1..(past + 1 + 1) : i <= past + 1 => i \in 1..(past + 1)
      BY <1>1
    <2> HIDE DEF h1, past, more
    <2> QED BY <1>5, <1>9, <1>10, <2>1
  <1> QED BY <1>1, <1>8, <1>11

(* A pin makes the pins it says of its own edge. *)
LEMMA PinIsChainStep ==
    ASSUME ChainInv, NEW c \in Cases, NEW cmd \in Command, NEW h,
           ~Rejected(c, cmd, h), CommitPin(c, cmd, h), [Next]_db
    PROVE  Chain(c)!Next
  <1>1. PICK old, new, last :
            /\ old = PinsOfSnapshots(c) /\ new = PinsOfSnapshots(c)'
            /\ last = PinnedEdges(c)'
            /\ new = Append(old, last) /\ old # << >>
            /\ last = IF cmd.pinned THEN old[Len(old)] \cup {cmd.edge} ELSE old[Len(old)] \ {cmd.edge}
    BY PinAppends, PinToggles DEF ChainInv
  <1>2. cmd.edge \in Edges /\ cmd.pinned \in BOOLEAN
    BY DEF Command
  <1>3. Chain(c)!Pin(cmd.edge, cmd.pinned)
    BY <1>1 DEF Chain!Pin, Chain!Toggled
  <1> QED BY <1>2, <1>3 DEF Chain!Next

(* A case that is neither made nor pinned to reads as before.              *)
LEMMA OthersReadTheSame ==
    ASSUME ChainInv, [Next]_db, NEW d \in Cases, cases'[d] = cases[d],
           OwnActions(d)' = OwnActions(d), PinnedEdges(d)' = PinnedEdges(d),
           \A n \in 1..Len(actions) : actions'[n] = actions[n]
    PROVE  PinsOfSnapshots(d)' = PinsOfSnapshots(d)
  <1>1. CASE cases[d] = NoCase
    BY <1>1 DEF PinsOfSnapshots
  <1>2. CASE cases[d] # NoCase
    <2>1. PICK S : S = OwnActions(d)
      OBVIOUS
    <2>2. ASSUME NEW i \in 1..Cardinality(S)
          PROVE  PinsAt(d, actions[Nth(S, i)].previous)' = PinsAt(d, actions[Nth(S, i)].previous)
      <3>1. PICK n : n = Nth(S, i)
        OBVIOUS
      <3>2. PinsAt(d, actions[n].previous)' = PinsAt(d, actions[n].previous)
        BY <2>1, <3>1, TrailKept
      <3> QED BY <3>1, <3>2
    <2>3. Cardinality(S) \in Nat
      BY <2>1, OwnActionsCount DEF ChainInv
    <2>4. PinsOfSnapshots(d)' = [i \in 1..(Cardinality(S) + 1) |->
                                   IF i <= Cardinality(S) THEN PinsAt(d, actions[Nth(S, i)].previous)'
                                   ELSE PinnedEdges(d)']
      BY <1>2, <2>1 DEF PinsOfSnapshots
    <2>5. \A i \in 1..(Cardinality(S) + 1) : i <= Cardinality(S) => i \in 1..Cardinality(S)
      BY <2>3
    <2> QED BY <1>2, <2>1, <2>2, <2>4, <2>5, ChainDef
  <1> QED BY <1>1, <1>2

(* A case that does not exist has no chain, and a new one has one empty    *)
(* snapshot.                                                               *)
LEMMA CreateIsChainStep ==
    ASSUME ChainInv, NEW c \in Cases, NEW ev \in SUBSET evidence_items, CreateCase(c, ev)
    PROVE  Chain(c)!Create
  <1>1. OwnActions(c) = {}
    BY DEF CreateCase, OwnActions, ChainInv, IInv, ActionsKnown
  <1>2. PinnedEdges(c) = {}
    BY PinningAssumption DEF CreateCase, PinnedEdges, ChainInv, IInv, NoCaseNoRows
  <1>3. OwnActions(c)' = {} /\ PinnedEdges(c)' = {}
    BY <1>1, <1>2 DEF CreateCase, OwnActions, PinnedEdges
  <1>4. cases'[c] # NoCase
    <2>1. ev # NoCase
      BY NoRowAssumption DEF ChainInv, IInv, TypeOK
    <2> QED BY <2>1 DEF CreateCase, ChainInv, IInv, TypeOK
  <1>5. PinsOfSnapshots(c)' = << {} >>
    <2>1. Cardinality({}) = 0
      BY FS_EmptySet
    <2>2. PinsOfSnapshots(c)' = [i \in 1..1 |-> {}]
      BY <1>3, <1>4, <2>1 DEF PinsOfSnapshots
    <2> QED BY <2>2
  <1>6. PinsOfSnapshots(c) = << >>
    BY DEF CreateCase, PinsOfSnapshots
  <1> QED BY <1>5, <1>6 DEF Chain!Create

(* Every step is a step of the chain of each case, or leaves it alone.     *)
LEMMA NextIsChainStep ==
    ASSUME ChainInv, [Next]_db, NEW d \in Cases
    PROVE  Chain(d)!Next \/ UNCHANGED PinsOfSnapshots(d)
  <1>1. CASE UNCHANGED db
    BY <1>1 DEF db, PinsOfSnapshots, OwnActions, PinnedEdges, PinsAt, LastOn, ActionsOf
  <1>2. ASSUME NEW c \in Cases, NEW ev \in SUBSET evidence_items, CreateCase(c, ev)
        PROVE  Chain(d)!Next \/ UNCHANGED PinsOfSnapshots(d)
    <2>1. CASE d = c
      BY <1>2, <2>1, CreateIsChainStep DEF Chain!Next
    <2>2. CASE d # c
      <3>1. cases'[d] = cases[d]
        BY <1>2, <2>2 DEF CreateCase, ChainInv, IInv, TypeOK
      <3>2. OwnActions(d)' = OwnActions(d) /\ PinnedEdges(d)' = PinnedEdges(d)
        BY <1>2 DEF CreateCase, OwnActions, PinnedEdges
      <3> QED BY <1>2, <3>1, <3>2, OthersReadTheSame DEF CreateCase
    <2> QED BY <2>1, <2>2
  <1>3. ASSUME NEW c \in Cases, NEW cmd \in Command, NEW h,
               ~Rejected(c, cmd, h), CommitPin(c, cmd, h)
        PROVE  Chain(d)!Next \/ UNCHANGED PinsOfSnapshots(d)
    <2>1. CASE d = c
      BY <1>3, <2>1, PinIsChainStep
    <2>2. CASE d # c
      <3>1. cases'[d] = cases[d] /\ \A n \in 1..Len(actions) : actions'[n] = actions[n]
        BY <1>3, <2>2, PinFacts DEF ChainInv, CommitPin, IInv, TypeOK
      <3>2. OwnActions(d)' = OwnActions(d) /\ PinnedEdges(d)' = PinnedEdges(d)
        BY <1>3, <2>2, PinAddsAction, PinToggles DEF ChainInv
      <3> QED BY <3>1, <3>2, OthersReadTheSame
    <2> QED BY <2>1, <2>2
  <1> QED BY <1>1, <1>2, <1>3 DEF Next, SetPin

LEMMA InitIsChain ==
    ASSUME Init, NEW c \in Cases
    PROVE  Chain(c)!Init
  <1>1. PinsOfSnapshots(c) = << >>
    BY DEF Init, PinsOfSnapshots
  <1> QED BY <1>1 DEF Chain!Init

LEMMA SpecChainInv == Spec => []ChainInv
  <1>1. Init => RowsInv /\ NumbersInv
    <2> SUFFICES ASSUME Init PROVE RowsInv /\ NumbersInv
      OBVIOUS
    <2>1. RowsInv
      BY DEF Init, RowsInv
    <2>2. \A c \in Cases : OwnActions(c) = {}
      BY DEF Init, OwnActions
    <2>3. NumbersInv
      BY <2>2, FS_EmptySet DEF NumbersInv
    <2> QED BY <2>1, <2>3
  <1>2. ChainInv /\ [Next]_db => ChainInv'
    BY NextKeepsIInv, NextKeepsRows, NextKeepsNumbers DEF ChainInv
  <1>3. Init => ChainInv
    BY <1>1, InitIInv DEF ChainInv
  <1> QED BY <1>2, <1>3, PTL DEF Spec

(* What readers are told of each case is the chain of pins that the page   *)
(* builds on: in a step of the server, each case's chain makes a step of   *)
(* its own or stays (PinningService.set_pin, read).                        *)
THEOREM PinningImplementsPinChain == Spec => ImplementsPinChain
  <1>1. Init => \A c \in Cases : Chain(c)!Init
    BY InitIsChain
  <1>2. ChainInv /\ [Next]_db => [\A c \in Cases : UNCHANGED PinsOfSnapshots(c) \/ Chain(c)!Next]_db
    BY NextIsChainStep
  <1> QED BY <1>1, <1>2, SpecChainInv, PTL DEF Spec, ImplementsPinChain

(* The same for each case by itself, as a refinement of the abstract       *)
(* specification: the server is a chain of pins for each of its cases.     *)
THEOREM PinningIsChain == Spec => \A c \in Cases : Chain(c)!Spec
  <1>1. ASSUME NEW c \in Cases PROVE Spec => Chain(c)!Spec
    <2>1. Init => Chain(c)!Init
      BY InitIsChain
    <2>2. ChainInv /\ [Next]_db => [Chain(c)!Next]_(PinsOfSnapshots(c))
      BY NextIsChainStep
    <2> QED BY <2>1, <2>2, SpecChainInv, PTL DEF Spec, Chain!Spec
  <1> QED BY <1>1

-----------------------------------------------------------------------------
(* The hypotheses. *)

(* A key is of a snapshot the case has or had. *)
KeyOK(k) == k.case \in Cases /\ k.evidence \in case_snapshots[k.case]

PinsOf(k) == {Obs(k.case, e) : e \in PinsAt(k.case, k.evidence)}

Reading == {"lookup", "waiting", "viewing", "fetching"} \cup Holding

(* What a thread holds: from its reading transaction on, a key and the     *)
(* pins of that very snapshot.                                             *)
ThreadOK(t) ==
    /\ pc[t] \in Reading => KeyOK(key[t]) /\ pins[t] = PinsOf(key[t])
    /\ pc[t] \in {"generated", "storing"} => IsFor(draft[t], key[t])
    /\ reply[t] # NoReply => /\ KeyOK(reply[t].key)
                             /\ IsFor(reply[t].hypothesis, reply[t].key)

CacheOK == \A k \in Cached : KeyOK(k) /\ IsFor(hypothesis_cache[k], k)

HypInv ==
    /\ DOMAIN pc = Threads /\ DOMAIN key = Threads /\ DOMAIN pins = Threads
    /\ DOMAIN draft = Threads /\ DOMAIN reply = Threads
    /\ \A t \in Threads : ThreadOK(t)
    /\ CacheOK

LEMMA KeptFacts ==
    ASSUME Kept
    PROVE  \A k : KeyOK(k) => /\ KeyOK(k)' /\ PinsOf(k)' = PinsOf(k)
                              /\ \A h : IsFor(h, k) => IsFor(h, k)'
  <1> SUFFICES ASSUME NEW k, KeyOK(k)
               PROVE  /\ KeyOK(k)' /\ PinsOf(k)' = PinsOf(k)
                      /\ \A h : IsFor(h, k) => IsFor(h, k)'
    OBVIOUS
  <1>1. KeyOK(k)' /\ PinsAt(k.case, k.evidence)' = PinsAt(k.case, k.evidence)
    BY DEF Kept, KeyOK
  <1> QED BY <1>1 DEF PinsOf, IsFor

(* The cache and the other threads stay right when the tables move on.     *)
LEMMA CacheKept ==
    ASSUME Kept, CacheOK,
           \A k \in Cached' : k \in Cached /\ hypothesis_cache'[k] = hypothesis_cache[k]
    PROVE  CacheOK'
  <1>1. \A k \in Cached' : KeyOK(k)' /\ IsFor(hypothesis_cache[k], k)'
    BY KeptFacts DEF CacheOK
  <1> QED BY <1>1 DEF CacheOK, IsFor

LEMMA ThreadKept ==
    ASSUME Kept, NEW u, ThreadOK(u),
           pc'[u] = pc[u], key'[u] = key[u], pins'[u] = pins[u],
           draft'[u] = draft[u], reply'[u] = reply[u]
    PROVE  ThreadOK(u)'
  <1>1. pc[u] \in Reading => KeyOK(key[u])' /\ pins[u] = PinsOf(key[u])'
    BY KeptFacts DEF ThreadOK
  <1>2. pc[u] \in {"generated", "storing"} => IsFor(draft[u], key[u])'
    BY KeptFacts DEF ThreadOK, Reading, Holding
  <1>3. reply[u] # NoReply => KeyOK(reply[u].key)' /\ IsFor(reply[u].hypothesis, reply[u].key)'
    BY KeptFacts DEF ThreadOK
  <1> QED BY <1>1, <1>2, <1>3 DEF ThreadOK, KeyOK, PinsOf, IsFor

(* One step of thread t: what is left to show is its own state and what    *)
(* it has put into the cache.                                              *)
LEMMA StepKeepsHyp ==
    ASSUME HypInv, Kept, NEW t \in Threads,
           DOMAIN pc' = Threads, DOMAIN key' = Threads, DOMAIN pins' = Threads,
           DOMAIN draft' = Threads, DOMAIN reply' = Threads,
           \A u \in Threads : u # t =>
               /\ pc'[u] = pc[u] /\ key'[u] = key[u] /\ pins'[u] = pins[u]
               /\ draft'[u] = draft[u] /\ reply'[u] = reply[u],
           ThreadOK(t)', CacheOK'
    PROVE  HypInv'
  <1>1. \A u \in Threads : u # t => ThreadOK(u)'
    BY ThreadKept DEF HypInv
  <1> QED BY <1>1 DEF HypInv

LEMMA InitHyp == ApiInit => HypInv
  BY DEF ApiInit, HypInv, ThreadOK, CacheOK, Cached, Reading, Holding

(* The first transaction of a reading handler. *)
LEMMA ReadKeepsHyp ==
    ASSUME IInv, RowsInv, HypInv, NEW t \in Threads, NEW c \in Cases,
           NEW where \in {"lookup", "viewing"}, ReadCase(t, c, where)
    PROVE  HypInv'
  <1>1. /\ pc' = [pc EXCEPT ![t] = where]
        /\ key' = [key EXCEPT ![t] = CurrentKey(c)]
        /\ pins' = [pins EXCEPT ![t] = {case_evidence[c][e].evidence : e \in PinnedEdges(c)}]
        /\ cases[c] # NoCase
        /\ UNCHANGED << cases, case_snapshots, actions, hypothesis_cache, draft, reply >>
        /\ UNCHANGED db
    BY DEF ReadCase, Goto, db, cache
  <1>2. Kept
    BY <1>1, NextKeepsSnapshots
  <1>3. CacheOK'
    BY <1>1, <1>2, CacheKept DEF HypInv, Cached
  <1>4. /\ pc'[t] = where /\ key'[t] = [case |-> c, evidence |-> cases[c]]
        /\ pins'[t] = {case_evidence[c][e].evidence : e \in PinnedEdges(c)}
        /\ reply'[t] = reply[t]
    BY <1>1 DEF HypInv, CurrentKey
  <1>5. ThreadOK(t)'
    <2>1. /\ cases[c] \in case_snapshots[c]
          /\ pins'[t] = {Obs(c, e) : e \in PinsAt(c, cases[c])}
      BY <1>1, <1>4, ReadIsConsistent
    <2>2. PinsAt(c, cases[c])' = PinsAt(c, cases[c])
      BY <1>1 DEF PinsAt, LastOn, ActionsOf
    <2>3. KeyOK(key[t])' /\ (pins[t] = PinsOf(key[t]))'
      BY <2>1, <2>2, <1>1, <1>4 DEF KeyOK, PinsOf, PinsAt, LastOn, ActionsOf
    <2>4. reply[t] # NoReply =>
            KeyOK(reply[t].key)' /\ IsFor(reply[t].hypothesis, reply[t].key)'
      BY <1>1, <1>2, KeptFacts DEF HypInv, ThreadOK
    <2> QED BY <2>3, <2>4, <1>1, <1>4 DEF ThreadOK
  <1> QED BY <1>1, <1>2, <1>3, <1>5, StepKeepsHyp DEF HypInv

(* A handler is over and has sent nothing, or what the cache has. *)
LEMMA DoneKeepsHyp ==
    ASSUME HypInv, Kept, CacheOK', NEW t \in Threads, Done(t),
           \/ UNCHANGED reply
           \/ /\ pc[t] \in Reading /\ key[t] \in Cached
              /\ Answer(t, hypothesis_cache[key[t]])
           \/ /\ pc[t] \in Reading /\ IsFor(draft[t], key[t])
              /\ Answer(t, draft[t])
    PROVE  HypInv'
  <1>1. /\ pc' = [pc EXCEPT ![t] = "idle"]
        /\ key' = [key EXCEPT ![t] = NoKey]
        /\ pins' = [pins EXCEPT ![t] = {}]
        /\ draft' = [draft EXCEPT ![t] = NoDraft]
    BY DEF Done, Goto
  <1>2. /\ DOMAIN reply' = Threads
        /\ \A u \in Threads : u # t => reply'[u] = reply[u]
    BY DEF Answer, HypInv
  <1>3. reply'[t] # NoReply =>
          KeyOK(reply[t].key)' /\ IsFor(reply[t].hypothesis, reply[t].key)'
    <2>1. CASE UNCHANGED reply
      BY <2>1, KeptFacts DEF HypInv, ThreadOK
    <2>2. ASSUME NEW h, pc[t] \in Reading, IsFor(h, key[t]), Answer(t, h)
          PROVE  KeyOK(reply[t].key)' /\ IsFor(reply[t].hypothesis, reply[t].key)'
      <3>1. reply'[t].key = key[t] /\ reply'[t].hypothesis = h
        BY <2>2 DEF Answer, HypInv
      <3>2. KeyOK(key[t])
        BY <2>2 DEF HypInv, ThreadOK
      <3> DEFINE k == key[t]
      <3>3. IsFor(h, k) /\ KeyOK(k)
        BY <2>2, <3>2
      <3> HIDE DEF k
      <3> QED BY <3>1, <3>3, KeptFacts DEF k
    <2>3. CASE /\ pc[t] \in Reading /\ key[t] \in Cached
               /\ Answer(t, hypothesis_cache[key[t]])
      BY <2>3, <2>2 DEF HypInv, CacheOK
    <2>4. CASE /\ pc[t] \in Reading /\ IsFor(draft[t], key[t])
               /\ Answer(t, draft[t])
      BY <2>4, <2>2
    <2> QED BY <2>1, <2>3, <2>4
  <1>4. pc'[t] = "idle"
    BY <1>1 DEF HypInv
  <1>5. ThreadOK(t)'
    BY <1>3, <1>4 DEF ThreadOK, Reading, Holding
  <1> QED BY <1>1, <1>2, <1>5, StepKeepsHyp DEF HypInv

(* A handler goes on with the key and the pins it has read. *)
LEMMA GotoKeepsHyp ==
    ASSUME HypInv, Kept, CacheOK', NEW t \in Threads, NEW where, Goto(t, where),
           pc[t] \in Reading \/ where \notin Reading,
           DOMAIN key' = Threads,
           \A u \in Threads : u # t => key'[u] = key[u],
           where \in Reading => key'[t] = key[t],
           UNCHANGED << pins, reply >>,
           DOMAIN draft' = Threads,
           \A u \in Threads : u # t => draft'[u] = draft[u],
           where \in {"generated", "storing"} => IsFor(draft'[t], key[t])
    PROVE  HypInv'
  <1>1. /\ pc' = [pc EXCEPT ![t] = where]
        /\ pc'[t] = where
    BY DEF Goto, HypInv
  <1>2. reply'[t] # NoReply =>
          KeyOK(reply[t].key)' /\ IsFor(reply[t].hypothesis, reply[t].key)'
    BY KeptFacts DEF HypInv, ThreadOK
  <1>3. ASSUME where \in Reading
        PROVE  KeyOK(key[t])' /\ (pins[t] = PinsOf(key[t]))'
    <2> DEFINE k == key[t]
    <2>1. KeyOK(k) /\ pins[t] = PinsOf(k) /\ key'[t] = k
      BY <1>3 DEF HypInv, ThreadOK
    <2> QED BY <2>1, KeptFacts
  <1>4. ASSUME where \in {"generated", "storing"}
        PROVE  IsFor(draft[t], key[t])'
    <2> DEFINE k == key[t]
               h == draft'[t]
    <2>1. KeyOK(k) /\ IsFor(h, k) /\ key'[t] = k
      BY <1>4 DEF HypInv, ThreadOK, Reading, Holding
    <2> QED BY <2>1, KeptFacts
  <1>5. ThreadOK(t)'
    BY <1>1, <1>2, <1>3, <1>4 DEF ThreadOK
  <1> QED BY <1>1, <1>5, StepKeepsHyp DEF HypInv

(* Generate: the draft has the key and the pins of its thread. *)
LEMMA GenerateKeepsHyp ==
    ASSUME HypInv, Kept, CacheOK', NEW t \in Threads, Generate(t)
    PROVE  HypInv'
  <1>1. PICK s \in Outcomes(key[t]) :
          draft' = [draft EXCEPT ![t] = [from |-> key[t], pins |-> pins[t], status |-> s]]
    BY DEF Generate
  <1>2. draft'[t].from = key[t] /\ draft'[t].pins = pins[t]
    BY <1>1 DEF HypInv
  <1>3. pins[t] = PinsOf(key[t])
    BY DEF Generate, HypInv, ThreadOK, Reading, Holding
  <1>4. IsFor(draft'[t], key[t])
    BY <1>2, <1>3 DEF IsFor, PinsOf
  <1> QED BY <1>1, <1>4, GotoKeepsHyp DEF Generate, Reading, Holding, HypInv

(* Store: the new entry is the draft, the others of the case are gone. *)
LEMMA StoreKeepsHyp ==
    ASSUME HypInv, Kept, NEW t \in Threads, Store(t)
    PROVE  HypInv'
  <1> DEFINE k == key[t]
             rest == Without(k.case)
  <1>1. /\ pc[t] = "storing" /\ Answer(t, draft[t]) /\ Done(t)
        /\ hypothesis_cache' = [j \in DOMAIN rest \cup {k} |-> IF j = k THEN draft[t] ELSE rest[j]]
    BY DEF Store, Answer
  <1>2. KeyOK(k) /\ IsFor(draft[t], k)
    BY <1>1 DEF HypInv, ThreadOK, Reading, Holding
  <1>3. /\ Cached' = DOMAIN rest \cup {k}
        /\ DOMAIN rest \subseteq Cached
        /\ \A j \in DOMAIN rest : rest[j] = hypothesis_cache[j]
    BY <1>1 DEF Without, Restrict, Cached
  <1>4. \A j \in Cached' : \E h : /\ h = hypothesis_cache'[j]
                                 /\ KeyOK(j) /\ IsFor(h, j)
    BY <1>1, <1>2, <1>3 DEF HypInv, CacheOK
  <1>5. CacheOK'
    BY <1>4, KeptFacts DEF CacheOK
  <1> QED BY <1>1, <1>2, <1>5, DoneKeepsHyp DEF Reading, Holding

LEMMA NextKeepsHyp ==
    ASSUME IInv, RowsInv, HypInv, [ApiNext]_vars
    PROVE  HypInv'
  <1>1. Kept
    BY NextIsPinning, NextKeepsSnapshots
  <1>2. ASSUME UNCHANGED hypothesis_cache PROVE CacheOK'
    BY <1>1, <1>2, CacheKept DEF HypInv, Cached
  <1>3. CASE UNCHANGED << hypothesis_cache, local, reply >>
    <2>1. \A t \in Threads : ThreadOK(t)'
      BY <1>1, <1>3, ThreadKept DEF HypInv, local
    <2> QED BY <2>1, <1>2, <1>3 DEF HypInv, local
  <1>4. CASE Restart
    BY <1>4 DEF Restart, HypInv, ThreadOK, CacheOK, Cached, Reading, Holding
  <1>5. ASSUME NEW t \in Threads, Request(t) PROVE HypInv'
    <2>1. PICK c \in Cases :
            \/ \E cmd \in Command, h \in case_snapshots[c] : Pin(t, c, cmd, h)
            \/ Ask(t, c)
            \/ View(t, c)
      BY <1>5 DEF Request
    <2>2. CASE \E cmd \in Command, h \in case_snapshots[c] : Pin(t, c, cmd, h)
      <3>1. /\ Goto(t, "invalidate")
            /\ key' = [key EXCEPT ![t] = [key[t] EXCEPT !.case = c]]
            /\ UNCHANGED << hypothesis_cache, pins, draft, reply >>
        BY <2>2 DEF Pin, cache
      <3> QED BY <3>1, <1>1, <1>2, GotoKeepsHyp DEF HypInv, Reading, Holding
    <2>3. CASE Ask(t, c) \/ View(t, c)
      BY <2>3, ReadKeepsHyp DEF Ask, View
    <2> QED BY <2>1, <2>2, <2>3
  <1>6. ASSUME NEW t \in Threads, Handle(t) PROVE HypInv'
    <2>1. CASE Invalidate(t)
      <3>1. hypothesis_cache' = Without(key[t].case) /\ Done(t) /\ UNCHANGED reply
        BY <2>1 DEF Invalidate
      <3>2. \A k \in Cached' : k \in Cached /\ hypothesis_cache'[k] = hypothesis_cache[k]
        BY <3>1 DEF Without, Restrict, Cached
      <3> QED BY <1>1, <3>1, <3>2, CacheKept, DoneKeepsHyp DEF HypInv
    <2>2. CASE LookupHit(t) \/ SecondLookHit(t) \/ Fetch(t)
      <3>1. /\ pc[t] \in Reading /\ key[t] \in Cached
            /\ Answer(t, hypothesis_cache[key[t]]) /\ Done(t)
            /\ UNCHANGED hypothesis_cache
        BY <2>2 DEF LookupHit, SecondLookHit, Fetch, Answer, cache, Reading, Holding
      <3> QED BY <1>1, <1>2, <3>1, DoneKeepsHyp
    <2>3. CASE WorkflowRaises(t) \/ RecheckConflict(t) \/ ViewMiss(t) \/ FetchKeyError(t)
      <3>1. Done(t) /\ UNCHANGED << hypothesis_cache, reply >>
        BY <2>3 DEF WorkflowRaises, RecheckConflict, ViewMiss, FetchKeyError, cache
      <3> QED BY <1>1, <1>2, <3>1, DoneKeepsHyp
    <2>4. CASE LookupMiss(t) \/ SecondLookMiss(t) \/ ViewHit(t)
      <3>1. PICK where \in {"waiting", "generating", "fetching"} :
              /\ pc[t] \in Reading /\ Goto(t, where)
              /\ UNCHANGED << hypothesis_cache, key, pins, draft, reply >>
        BY <2>4 DEF LookupMiss, SecondLookMiss, ViewHit, cache, Reading, Holding
      <3> QED BY <1>1, <1>2, <3>1, GotoKeepsHyp DEF HypInv
    <2>5. CASE RecheckSame(t)
      <3>1. /\ pc[t] = "generated" /\ Goto(t, "storing")
            /\ UNCHANGED << hypothesis_cache, key, pins, draft, reply >>
        BY <2>5 DEF RecheckSame, cache
      <3>2. pc[t] \in Reading /\ IsFor(draft'[t], key[t])
        BY <3>1 DEF HypInv, ThreadOK, Reading, Holding
      <3> QED BY <1>1, <1>2, <3>1, <3>2, GotoKeepsHyp DEF HypInv
    <2>6. CASE Generate(t)
      <3>1. UNCHANGED hypothesis_cache
        BY <2>6 DEF Generate, cache
      <3> QED BY <2>6, <3>1, <1>1, <1>2, GenerateKeepsHyp
    <2>7. CASE Store(t)
      BY <2>7, <1>1, StoreKeepsHyp
    <2> QED BY <1>6, <2>1, <2>2, <2>3, <2>4, <2>5, <2>6, <2>7 DEF Handle
  <1>7. ASSUME NEW t \in Threads, AcquireKey(t) PROVE HypInv'
    <2>1. /\ pc[t] = "waiting" /\ Goto(t, "locked")
          /\ UNCHANGED << hypothesis_cache, key, pins, draft, reply >>
      BY <1>7 DEF AcquireKey
    <2> QED BY <1>1, <1>2, <2>1, GotoKeepsHyp DEF HypInv, Reading, Holding
  <1>8. CASE UNCHANGED vars
    BY <1>8, <1>3 DEF vars, cache
  <1>9. CASE \E c \in Cases, ev \in SUBSET evidence_items : Create(c, ev)
    BY <1>9, <1>3 DEF Create, cache
  <1> QED BY <1>4, <1>5, <1>6, <1>7, <1>8, <1>9 DEF ApiNext

(* Whatever commits between the reading of a case, the workflow, the       *)
(* second reading and the store, and whatever a thread fetches without the *)
(* lock: a hypothesis that is cached or sent is one of the snapshot and of *)
(* the pins it is shown with.                                              *)
THEOREM ApiHypothesisOfSnapshot == ApiSpec => []HypothesisOfSnapshot
  <1> DEFINE Inv == IInv /\ RowsInv /\ HypInv
  <1>1. ApiInit => Inv
    <2>1. ApiInit => IInv
      BY InitIInv DEF ApiInit
    <2>2. ApiInit => RowsInv
      BY DEF ApiInit, Init, RowsInv
    <2> QED BY <2>1, <2>2, InitHyp
  <1>2. Inv /\ [ApiNext]_vars => Inv'
    BY NextIsPinning, NextKeepsIInv, NextKeepsRows, NextKeepsHyp
  <1>3. Inv => HypothesisOfSnapshot
    BY DEF HypInv, ThreadOK, CacheOK, HypothesisOfSnapshot
  <1> QED BY <1>1, <1>2, <1>3, PTL DEF ApiSpec

(* The tables keep all that Pinning promises while the API runs on them.   *)
THEOREM ApiImplementsPinning == ApiSpec => Spec
  <1>1. ApiInit => Init
    BY DEF ApiInit
  <1> QED BY <1>1, NextIsPinning, PTL DEF ApiSpec, Spec

-----------------------------------------------------------------------------
(* Types.  What the API adds to the tables, in parts that a step leaves    *)
(* alone or changes one at a time.                                         *)

CacheTyped == /\ IsFiniteSet(Cached) /\ Cached \subseteq Key
              /\ hypothesis_cache \in [Cached -> Hypothesis]

LocksTyped == /\ DOMAIN in_flight_locks \subseteq Key
              /\ in_flight_locks \in [DOMAIN in_flight_locks -> Threads \cup {NoThread}]

PcTyped == pc \in [Threads -> {"idle", "invalidate", "lookup", "waiting", "viewing",
                               "fetching"} \cup Holding]

(* A draft is there as soon as the thread is past the workflow.            *)
LocalsTyped == /\ key \in [Threads -> Key]
               /\ pins \in [Threads -> SUBSET EvidenceIds]
               /\ draft \in [Threads -> Hypothesis \cup {NoDraft}]
               /\ \A t \in Threads : pc[t] \in {"generated", "storing"} => draft[t] \in Hypothesis

ReplyTyped == reply \in [Threads -> Reply \cup {NoReply}]

Typed == CacheTyped /\ LocksTyped /\ PcTyped /\ LocalsTyped /\ ReplyTyped

LEMMA NoKeyTyped == NoKey \in Key
  BY CasesAssumption DEF NoKey, Key

LEMMA InitTyped == ApiInit => Typed
  <1> SUFFICES ASSUME ApiInit PROVE Typed
    OBVIOUS
  <1>1. CacheTyped /\ LocksTyped
    <2>1. Cached = {} /\ DOMAIN in_flight_locks = {}
      BY DEF ApiInit, Cached
    <2>2. hypothesis_cache \in [Cached -> Hypothesis] /\ in_flight_locks \in [{} -> Threads \cup {NoThread}]
      BY <2>1 DEF ApiInit
    <2> QED BY <2>1, <2>2, FS_EmptySet DEF CacheTyped, LocksTyped
  <1>2. PcTyped /\ LocalsTyped
    BY NoKeyTyped DEF ApiInit, PcTyped, LocalsTyped
  <1>3. ReplyTyped
    BY DEF ApiInit, ReplyTyped
  <1> QED BY <1>1, <1>2, <1>3 DEF Typed

(* The lock of a key that the thread holds is left.                        *)
LEMMA ReleaseTyped ==
    ASSUME LocksTyped, NEW t, key[t] \in DOMAIN in_flight_locks, ReleaseKey(t)
    PROVE  LocksTyped'
  BY DEF LocksTyped, ReleaseKey

LEMMA DoneTyped ==
    ASSUME PcTyped, LocalsTyped, NEW t \in Threads, Done(t)
    PROVE  PcTyped' /\ LocalsTyped'
  <1>1. /\ pc' = [pc EXCEPT ![t] = "idle"] /\ key' = [key EXCEPT ![t] = NoKey]
        /\ pins' = [pins EXCEPT ![t] = {}] /\ draft' = [draft EXCEPT ![t] = NoDraft]
    BY DEF Done, Goto
  <1>2. PcTyped'
    BY <1>1 DEF PcTyped
  <1>3. \A u \in Threads : pc'[u] \in {"generated", "storing"} => u # t /\ pc[u] = pc'[u]
    BY <1>1 DEF PcTyped
  <1> QED BY <1>1, <1>2, <1>3, NoKeyTyped DEF LocalsTyped

(* A thread goes on and may take a key, pins or a draft with it.           *)
LEMMA GotoTyped ==
    ASSUME PcTyped, LocalsTyped, NEW t \in Threads,
           NEW where \in {"invalidate", "lookup", "waiting", "viewing", "fetching"} \cup Holding,
           Goto(t, where),
           NEW k \in Key, key' = [key EXCEPT ![t] = k],
           NEW p \in SUBSET EvidenceIds, pins' = [pins EXCEPT ![t] = p],
           NEW h \in Hypothesis \cup {NoDraft}, draft' = [draft EXCEPT ![t] = h],
           where \in {"generated", "storing"} => h \in Hypothesis
    PROVE  PcTyped' /\ LocalsTyped'
  <1>1. pc' = [pc EXCEPT ![t] = where]
    BY DEF Goto
  <1>2. PcTyped'
    BY <1>1 DEF PcTyped
  <1>3. \A u \in Threads : u # t => pc'[u] = pc[u]
    BY <1>1 DEF PcTyped
  <1>4. pc'[t] = where
    BY <1>1 DEF PcTyped
  <1>5. \A u \in Threads : pc'[u] \in {"generated", "storing"} => draft'[u] \in Hypothesis
    BY <1>3, <1>4 DEF LocalsTyped
  <1> QED BY <1>2, <1>5 DEF LocalsTyped

(* A handler goes on with what it has.                                     *)
LEMMA OnwardTyped ==
    ASSUME PcTyped, LocalsTyped, NEW t \in Threads,
           NEW where \in {"waiting", "fetching"} \cup Holding, Goto(t, where),
           UNCHANGED << key, pins, draft >>,
           where \in {"generated", "storing"} => draft[t] \in Hypothesis
    PROVE  PcTyped' /\ LocalsTyped'
  <1>1. /\ key' = [key EXCEPT ![t] = key[t]] /\ key[t] \in Key
        /\ pins' = [pins EXCEPT ![t] = pins[t]] /\ pins[t] \in SUBSET EvidenceIds
        /\ draft' = [draft EXCEPT ![t] = draft[t]] /\ draft[t] \in Hypothesis \cup {NoDraft}
    BY DEF LocalsTyped
  <1> QED BY <1>1, GotoTyped

LEMMA AnswerTyped ==
    ASSUME LocalsTyped, ReplyTyped, NEW t \in Threads, NEW h \in Hypothesis, Answer(t, h)
    PROVE  ReplyTyped'
  <1>1. reply' = [reply EXCEPT ![t] = [key |-> key[t], hypothesis |-> h]]
    BY DEF Answer
  <1>2. [key |-> key[t], hypothesis |-> h] \in Reply
    BY DEF LocalsTyped, Reply
  <1> QED BY <1>1, <1>2 DEF ReplyTyped

(* The first transaction of a reading handler reads a snapshot and ids.    *)
LEMMA ReadTyped ==
    ASSUME TypeOK, PcTyped, LocalsTyped, NEW t \in Threads, NEW c \in Cases,
           NEW where \in {"lookup", "viewing"}, ReadCase(t, c, where)
    PROVE  PcTyped' /\ LocalsTyped'
  <1>1. /\ Goto(t, where) /\ cases[c] # NoCase /\ draft' = draft
        /\ key' = [key EXCEPT ![t] = CurrentKey(c)]
        /\ pins' = [pins EXCEPT ![t] = {case_evidence[c][e].evidence : e \in PinnedEdges(c)}]
    BY DEF ReadCase
  <1>2. cases[c] \in SUBSET EvidenceIds
    BY <1>1 DEF TypeOK
  <1>3. CurrentKey(c) \in Key
    BY <1>2 DEF CurrentKey, Key
  <1>4. \A e \in PinnedEdges(c) : case_evidence[c][e].evidence \in EvidenceIds
    <2>1. \A e \in PinnedEdges(c) : case_evidence[c][e] \in Row
      BY PinningAssumption DEF TypeOK, PinnedEdges
    <2> QED BY <2>1 DEF Row
  <1>5. draft' = [draft EXCEPT ![t] = draft[t]] /\ draft[t] \in Hypothesis \cup {NoDraft}
    BY <1>1 DEF LocalsTyped
  <1> DEFINE p == {case_evidence[c][e].evidence : e \in PinnedEdges(c)}
  <1>6. p \in SUBSET EvidenceIds /\ pins' = [pins EXCEPT ![t] = p]
    BY <1>1, <1>4
  <1> HIDE DEF p
  <1> QED BY <1>1, <1>3, <1>5, <1>6, GotoTyped

LEMMA MissTyped ==
    ASSUME LocksTyped, LocalsTyped, NEW t \in Threads, LookupMiss(t)
    PROVE  LocksTyped'
  <1>1. key[t] \in Key
    BY DEF LocalsTyped
  <1>2. in_flight_locks' =
          [k \in DOMAIN in_flight_locks \cup {key[t]} |->
             IF k \in DOMAIN in_flight_locks THEN in_flight_locks[k] ELSE NoThread]
    BY DEF LookupMiss
  <1>3. DOMAIN in_flight_locks' = DOMAIN in_flight_locks \cup {key[t]}
    BY <1>2
  <1>4. in_flight_locks' \in [DOMAIN in_flight_locks \cup {key[t]} -> Threads \cup {NoThread}]
    BY <1>2 DEF LocksTyped
  <1> QED BY <1>1, <1>3, <1>4 DEF LocksTyped

(* What is left of the cache, and the new entry.                           *)
LEMMA WithoutTyped ==
    ASSUME CacheTyped, NEW c
    PROVE  /\ DOMAIN Without(c) \subseteq Cached /\ IsFiniteSet(DOMAIN Without(c))
           /\ Without(c) \in [DOMAIN Without(c) -> Hypothesis]
  <1>1. Without(c) = [k \in {j \in Cached : j.case # c} |-> hypothesis_cache[k]]
    BY DEF Without, Restrict
  <1>2. DOMAIN Without(c) = {j \in Cached : j.case # c}
    BY <1>1
  <1>3. IsFiniteSet(DOMAIN Without(c))
    BY <1>2, FS_Subset DEF CacheTyped
  <1>4. \A k \in Cached : hypothesis_cache[k] \in Hypothesis
    BY DEF CacheTyped
  <1> QED BY <1>1, <1>2, <1>3, <1>4

LEMMA StoreTyped ==
    ASSUME CacheTyped, LocalsTyped, NEW t \in Threads, Store(t)
    PROVE  CacheTyped' /\ draft[t] \in Hypothesis
  <1> DEFINE rest == Without(key[t].case)
  <1>1. hypothesis_cache' = [k \in DOMAIN rest \cup {key[t]} |->
                               IF k = key[t] THEN draft[t] ELSE rest[k]]
    BY DEF Store
  <1>2. draft[t] \in Hypothesis /\ key[t] \in Key
    BY DEF Store, LocalsTyped
  <1>3. /\ DOMAIN rest \subseteq Cached /\ IsFiniteSet(DOMAIN rest)
        /\ rest \in [DOMAIN rest -> Hypothesis]
    BY WithoutTyped
  <1> HIDE DEF rest
  <1>4. Cached' = DOMAIN rest \cup {key[t]}
    BY <1>1 DEF Cached
  <1>5. IsFiniteSet(Cached')
    BY <1>3, <1>4, FS_AddElement
  <1>6. Cached' \subseteq Key
    BY <1>2, <1>3, <1>4 DEF CacheTyped
  <1>7. hypothesis_cache' \in [Cached' -> Hypothesis]
    BY <1>1, <1>2, <1>3, <1>4
  <1> QED BY <1>2, <1>5, <1>6, <1>7 DEF CacheTyped

(* Generate: the draft is of the key and pins of the thread.               *)
LEMMA GenerateTyped ==
    ASSUME PcTyped, LocalsTyped, NEW t \in Threads, Generate(t)
    PROVE  PcTyped' /\ LocalsTyped'
  <1>1. PICK s \in Outcomes(key[t]) :
          draft' = [draft EXCEPT ![t] = [from |-> key[t], pins |-> pins[t], status |-> s]]
    BY DEF Generate
  <1>2. s \in Statuses
    BY DEF Outcomes, Statuses
  <1>3. key[t] \in Key /\ pins[t] \in SUBSET EvidenceIds
    BY DEF LocalsTyped
  <1>4. PICK h : h = [from |-> key[t], pins |-> pins[t], status |-> s]
    OBVIOUS
  <1>5. h \in Hypothesis
    BY <1>2, <1>3, <1>4 DEF Hypothesis
  <1>6. Goto(t, "generated") /\ key' = [key EXCEPT ![t] = key[t]] /\ pins' = [pins EXCEPT ![t] = pins[t]]
    BY DEF Generate, LocalsTyped
  <1>7. draft' = [draft EXCEPT ![t] = h]
    BY <1>1, <1>4
  <1> QED BY <1>3, <1>5, <1>6, <1>7, GotoTyped DEF Holding

LEMMA HandleTyped ==
    ASSUME LockInv, Typed, NEW t \in Threads, Handle(t)
    PROVE  Typed'
  <1>1. /\ CacheTyped /\ LocksTyped /\ PcTyped /\ LocalsTyped /\ ReplyTyped
    BY DEF Typed
  <1>2. ASSUME UNCHANGED hypothesis_cache PROVE CacheTyped'
    BY <1>1, <1>2 DEF CacheTyped, Cached
  <1>3. ASSUME UNCHANGED in_flight_locks PROVE LocksTyped'
    BY <1>1, <1>3 DEF LocksTyped
  <1>4. ASSUME UNCHANGED reply PROVE ReplyTyped'
    BY <1>1, <1>4 DEF ReplyTyped
  <1>5. ASSUME pc[t] \in Holding, ReleaseKey(t) PROVE LocksTyped'
    BY <1>1, <1>5, ReleaseTyped DEF LockInv
  <1>6. ASSUME NEW h \in Hypothesis, Answer(t, h) PROVE PcTyped' /\ LocalsTyped' /\ ReplyTyped'
    BY <1>1, <1>6, AnswerTyped, DoneTyped DEF Answer
  <1>7. ASSUME key[t] \in Cached PROVE hypothesis_cache[key[t]] \in Hypothesis
    BY <1>1, <1>7 DEF CacheTyped
  <1>8. CASE Invalidate(t)
    <2>1. hypothesis_cache' = Without(key[t].case) /\ Done(t) /\ UNCHANGED << in_flight_locks, reply >>
      BY <1>8 DEF Invalidate
    <2>2. Cached' = DOMAIN Without(key[t].case)
      BY <2>1 DEF Cached
    <2>3. CacheTyped'
      BY <1>1, <2>1, <2>2, WithoutTyped DEF CacheTyped
    <2> QED BY <1>1, <1>3, <1>4, <2>1, <2>3, DoneTyped DEF Typed
  <1>9. CASE LookupHit(t) \/ Fetch(t)
    <2>1. /\ key[t] \in Cached /\ Answer(t, hypothesis_cache[key[t]])
          /\ UNCHANGED << hypothesis_cache, in_flight_locks >>
      BY <1>9 DEF LookupHit, Fetch, cache
    <2> QED BY <1>2, <1>3, <1>6, <1>7, <2>1 DEF Typed
  <1>10. CASE SecondLookHit(t)
    <2>1. /\ key[t] \in Cached /\ Answer(t, hypothesis_cache[key[t]])
          /\ pc[t] \in Holding /\ ReleaseKey(t) /\ UNCHANGED hypothesis_cache
      BY <1>10 DEF SecondLookHit, Holding
    <2> QED BY <1>2, <1>5, <1>6, <1>7, <2>1 DEF Typed
  <1>11. CASE WorkflowRaises(t) \/ RecheckConflict(t)
    <2>1. pc[t] \in Holding /\ ReleaseKey(t) /\ Done(t) /\ UNCHANGED << hypothesis_cache, reply >>
      BY <1>11 DEF WorkflowRaises, RecheckConflict, Holding
    <2> QED BY <1>1, <1>2, <1>4, <1>5, <2>1, DoneTyped DEF Typed
  <1>12. CASE ViewMiss(t) \/ FetchKeyError(t)
    <2>1. Done(t) /\ UNCHANGED << hypothesis_cache, in_flight_locks, reply >>
      BY <1>12 DEF ViewMiss, FetchKeyError, cache
    <2> QED BY <1>1, <1>2, <1>3, <1>4, <2>1, DoneTyped DEF Typed
  <1>13. CASE LookupMiss(t)
    <2>1. Goto(t, "waiting") /\ UNCHANGED << hypothesis_cache, key, pins, draft, reply >>
      BY <1>13 DEF LookupMiss
    <2> QED BY <1>1, <1>2, <1>4, <1>13, <2>1, MissTyped, OnwardTyped DEF Typed
  <1>14. CASE SecondLookMiss(t) \/ ViewHit(t)
    <2>1. PICK where \in {"generating", "fetching"} :
            /\ Goto(t, where)
            /\ UNCHANGED << hypothesis_cache, in_flight_locks, key, pins, draft, reply >>
      BY <1>14 DEF SecondLookMiss, ViewHit, cache
    <2>2. PcTyped' /\ LocalsTyped'
      BY <1>1, <2>1, OnwardTyped DEF Holding
    <2> QED BY <1>2, <1>3, <1>4, <2>1, <2>2 DEF Typed
  <1>15. CASE RecheckSame(t)
    <2>1. /\ Goto(t, "storing") /\ pc[t] = "generated"
          /\ UNCHANGED << hypothesis_cache, in_flight_locks, key, pins, draft, reply >>
      BY <1>15 DEF RecheckSame, cache
    <2>2. draft[t] \in Hypothesis
      BY <1>1, <2>1 DEF LocalsTyped
    <2>3. PcTyped' /\ LocalsTyped'
      BY <1>1, <2>1, <2>2, OnwardTyped DEF Holding
    <2> QED BY <1>2, <1>3, <1>4, <2>1, <2>3 DEF Typed
  <1>16. CASE Generate(t)
    <2>1. UNCHANGED << hypothesis_cache, in_flight_locks, reply >>
      BY <1>16 DEF Generate, cache
    <2> QED BY <1>1, <1>2, <1>3, <1>4, <1>16, <2>1, GenerateTyped DEF Typed
  <1>17. CASE Store(t)
    <2>1. CacheTyped' /\ draft[t] \in Hypothesis
      BY <1>1, <1>17, StoreTyped
    <2>2. Answer(t, draft[t]) /\ pc[t] \in Holding /\ ReleaseKey(t)
      BY <1>17 DEF Store, Holding
    <2> QED BY <1>5, <1>6, <2>1, <2>2 DEF Typed
  <1> QED BY <1>8, <1>9, <1>10, <1>11, <1>12, <1>13, <1>14, <1>15, <1>16, <1>17 DEF Handle

LEMMA RequestTyped ==
    ASSUME TypeOK, Typed, NEW t \in Threads, Request(t)
    PROVE  Typed'
  <1>1. PICK c \in Cases :
          \/ \E cmd \in Command, h \in case_snapshots[c] : Pin(t, c, cmd, h)
          \/ Ask(t, c)
          \/ View(t, c)
    BY DEF Request
  <1>2. UNCHANGED << hypothesis_cache, in_flight_locks, reply >>
    BY <1>1 DEF Pin, Ask, View, ReadCase, cache
  <1>3. PcTyped' /\ LocalsTyped'
    <2>1. CASE Ask(t, c) \/ View(t, c)
      BY <2>1, ReadTyped DEF Ask, View, Typed
    <2>2. CASE \E cmd \in Command, h \in case_snapshots[c] : Pin(t, c, cmd, h)
      <3>1. /\ Goto(t, "invalidate") /\ UNCHANGED << pins, draft >>
            /\ key' = [key EXCEPT ![t] = [key[t] EXCEPT !.case = c]]
        BY <2>2 DEF Pin
      <3>2. /\ key[t] \in Key
            /\ pins' = [pins EXCEPT ![t] = pins[t]] /\ pins[t] \in SUBSET EvidenceIds
            /\ draft' = [draft EXCEPT ![t] = draft[t]] /\ draft[t] \in Hypothesis \cup {NoDraft}
        BY <3>1 DEF LocalsTyped, Typed
      <3>3. PICK k : k = [key[t] EXCEPT !.case = c]
        OBVIOUS
      <3>4. k \in Key
        BY <3>2, <3>3 DEF Key
      <3>5. key' = [key EXCEPT ![t] = k]
        BY <3>1, <3>3
      <3>6. PcTyped /\ LocalsTyped
        BY DEF Typed
      <3>7. PICK where \in {"invalidate"} : Goto(t, where)
        BY <3>1
      <3>8. where \notin {"generated", "storing"}
        BY <3>7
      <3> QED BY <3>2, <3>4, <3>5, <3>6, <3>7, <3>8, GotoTyped
    <2> QED BY <1>1, <2>1, <2>2
  <1> QED BY <1>2, <1>3 DEF Typed, CacheTyped, Cached, LocksTyped, ReplyTyped

LEMMA NextKeepsTyped ==
    ASSUME TypeOK, LockInv, Typed, [ApiNext]_vars
    PROVE  Typed'
  <1>1. CASE UNCHANGED << cache, local, reply >>
    BY <1>1 DEF cache, local, Typed, CacheTyped, Cached, LocksTyped, PcTyped, LocalsTyped, ReplyTyped
  <1>2. CASE Restart
    <2>1. Cached' = {} /\ DOMAIN in_flight_locks' = {}
      BY <1>2 DEF Restart, Cached
    <2>2. /\ hypothesis_cache' \in [Cached' -> Hypothesis]
          /\ in_flight_locks' \in [{} -> Threads \cup {NoThread}]
      BY <1>2, <2>1 DEF Restart
    <2>3. CacheTyped' /\ LocksTyped'
      BY <2>1, <2>2, FS_EmptySet DEF CacheTyped, LocksTyped
    <2>4. PcTyped' /\ LocalsTyped' /\ ReplyTyped'
      BY <1>2, NoKeyTyped DEF Restart, PcTyped, LocalsTyped, ReplyTyped
    <2> QED BY <2>3, <2>4 DEF Typed
  <1>3. ASSUME NEW t \in Threads, AcquireKey(t) PROVE Typed'
    <2>1. /\ in_flight_locks' = [in_flight_locks EXCEPT ![key[t]] = t]
          /\ Goto(t, "locked") /\ UNCHANGED << hypothesis_cache, key, pins, draft, reply >>
      BY <1>3 DEF AcquireKey
    <2>2. LocksTyped'
      BY <2>1 DEF Typed, LocksTyped
    <2>3. PcTyped' /\ LocalsTyped'
      BY <2>1, OnwardTyped DEF Typed, Holding
    <2> QED BY <2>1, <2>2, <2>3 DEF Typed, CacheTyped, Cached, ReplyTyped
  <1>4. CASE UNCHANGED vars
    BY <1>4, <1>1 DEF vars
  <1>5. CASE \E c \in Cases, ev \in SUBSET evidence_items : Create(c, ev)
    BY <1>5, <1>1 DEF Create
  <1> QED BY <1>2, <1>3, <1>4, <1>5, HandleTyped, RequestTyped DEF ApiNext

(* The cache, the locks and what threads hold are always of their types:   *)
(* in particular no thread stores or sends a hypothesis it has not got,    *)
(* and every lock that is left exists.                                     *)
THEOREM ApiTypes == ApiSpec => []ApiTypeOK
  <1> DEFINE Inv == IInv /\ LockInv /\ Typed
  <1>1. ApiInit => Inv
    BY InitIInv, InitLocks, InitTyped DEF ApiInit
  <1>2. Inv /\ [ApiNext]_vars => Inv'
    BY NextIsPinning, NextKeepsIInv, NextKeepsLocks, NextKeepsTyped DEF IInv
  <1>3. Inv => ApiTypeOK
    BY DEF IInv, Typed, CacheTyped, LocksTyped, PcTyped, LocalsTyped, ReplyTyped, ApiTypeOK
  <1> QED BY <1>1, <1>2, <1>3, PTL DEF ApiSpec
=============================================================================
