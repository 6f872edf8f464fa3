--------------------------- MODULE CaseDeskProofs ---------------------------
(***************************************************************************)
(* Theorems of CaseDesk, for any sets of cases, clients, analysts and      *)
(* fixtures, and any bounds.                                               *)
(***************************************************************************)
EXTENDS CaseDesk, TLAPS

(* The event of a form that leaves nothing to the server. *)
EventOf(f) == [id |-> Or(f.event_id, DefaultId(f.case, f.analyst)), case |-> f.case,
               analyst |-> f.analyst, disposition |-> f.disposition,
               created_at |-> f.created_at, snapshot_hash |-> f.snapshot_hash]

(* What a request waits with. *)
CallOK(k) ==
    \/ /\ k.kind = "create"
       /\ k.request \in Creation /\ k.item = k.request
    \/ /\ k.kind \in {"built", "feedback"}
       /\ k.request \in Form /\ k.item \in Event
       /\ Complete(k.request) => k.item = EventOf(k.request)

(* An answer on a case or on feedback, and what it says of the tables.     *)
OnCase(a) ==
    /\ a.request \in Creation /\ a.item = a.request
    /\ a.verdict = "accepted" => a.item.evidence \in case_snapshots[a.item.case]

OnFeedback(a) ==
    /\ a.request \in Form /\ a.item \in Event
    /\ Complete(a.request) => a.item = EventOf(a.request)
    /\ a.verdict = "accepted" => case_feedback[a.item.id] = a.item
    /\ a.verdict = "conflict" => case_feedback[a.item.id] \notin {NoEvent, a.item}

AnswerOK(a) ==
    /\ a.verdict \in {"accepted", "conflict", "error"}
    /\ OnCase(a) \/ OnFeedback(a)

(* The current snapshot is one of the case's, and without a case there are *)
(* none.                                                                   *)
HistoryOK ==
    \A c \in Cases : IF cases[c] = NoCase THEN case_snapshots[c] = {}
                     ELSE cases[c] \in case_snapshots[c]

DbInv == TypeOK /\ HistoryOK

CallsOK == /\ DOMAIN call = Clients
           /\ \A t \in Clients : call[t] # NoCall => CallOK(call[t])

FeedbackOK == case_feedback \in [Ids -> Event \cup {NoEvent}]

AnswersOK == \A a \in answers : AnswerOK(a)

DeskInv == /\ DbInv /\ FeedbackOK /\ CallsOK /\ AnswersOK
           /\ clock \in Times

(* No snapshot and no feedback is ever lost. *)
SnapshotsGrow == \A c \in Cases : case_snapshots[c] \subseteq case_snapshots'[c]
FeedbackGrows == \A id \in Ids : case_feedback[id] # NoEvent =>
                                    case_feedback'[id] = case_feedback[id]

-----------------------------------------------------------------------------
(* The tables of Pinning. *)

LEMMA SameDb ==
    ASSUME DbInv, UNCHANGED db
    PROVE  DbInv' /\ SnapshotsGrow
  BY DEF DbInv, db, TypeOK, HistoryOK, SnapshotsGrow

LEMMA CreateKeepsDb ==
    ASSUME DbInv, NEW c \in Cases, NEW ev, CreateCase(c, ev)
    PROVE  /\ DbInv' /\ SnapshotsGrow
           /\ ev \in case_snapshots'[c]
  <1>1. /\ cases[c] = NoCase /\ case_snapshots[c] = {}
        /\ cases' = [cases EXCEPT ![c] = ev]
        /\ case_snapshots' = [case_snapshots EXCEPT ![c] = {ev}]
        /\ UNCHANGED << evidence_items, actions, case_evidence >>
    BY DEF CreateCase, DbInv, HistoryOK
  <1>2. ev \in SUBSET EvidenceIds
    BY DEF CreateCase, DbInv, TypeOK
  <1>3. ev # NoCase
    BY <1>2, NoRowAssumption
  <1>4. TypeOK'
    <2>1. cases' \in [Cases -> (SUBSET EvidenceIds) \cup {NoCase}]
      BY <1>1, <1>2 DEF DbInv, TypeOK
    <2>2. case_snapshots' \in [Cases -> SUBSET SUBSET EvidenceIds]
      BY <1>1, <1>2 DEF DbInv, TypeOK
    <2> QED BY <1>1, <2>1, <2>2 DEF DbInv, TypeOK
  <1>5. HistoryOK' /\ SnapshotsGrow /\ ev \in case_snapshots'[c]
    BY <1>1, <1>3 DEF DbInv, TypeOK, HistoryOK, SnapshotsGrow
  <1> QED BY <1>4, <1>5 DEF DbInv

LEMMA ImportKeepsDb ==
    ASSUME DbInv, NEW c \in Cases, NEW sources \in Fixtures, Import(c, sources)
    PROVE  DbInv' /\ SnapshotsGrow
  <1> DEFINE ev == {Base(s) : s \in sources}
  <1>1. /\ evidence_items' = evidence_items \cup ev
        /\ cases' = [cases EXCEPT ![c] = IF @ = NoCase THEN ev ELSE @]
        /\ case_snapshots' = [case_snapshots EXCEPT ![c] = @ \cup {ev}]
        /\ UNCHANGED << actions, case_evidence >>
    BY DEF Import, Imported
  <1>2. ev \in SUBSET EvidenceIds
    BY DeskAssumption DEF EvidenceIds
  <1>3. ev # NoCase
    BY <1>2, NoRowAssumption
  <1> HIDE DEF ev
  <1>4. TypeOK'
    <2>1. cases' \in [Cases -> (SUBSET EvidenceIds) \cup {NoCase}]
      BY <1>1, <1>2 DEF DbInv, TypeOK
    <2>2. case_snapshots' \in [Cases -> SUBSET SUBSET EvidenceIds]
      BY <1>1, <1>2 DEF DbInv, TypeOK
    <2> QED BY <1>1, <1>2, <2>1, <2>2 DEF DbInv, TypeOK
  <1>5. HistoryOK' /\ SnapshotsGrow
    BY <1>1, <1>3 DEF DbInv, TypeOK, HistoryOK, SnapshotsGrow
  <1> QED BY <1>4, <1>5 DEF DbInv

LEMMA PinKeepsDb ==
    ASSUME DbInv, NEW c \in Cases, NEW cmd \in Command, NEW h, SetPin(c, cmd, h)
    PROVE  DbInv' /\ SnapshotsGrow
  <1>1. CASE UNCHANGED db
    BY <1>1, SameDb
  <1>2. CASE ~Rejected(c, cmd, h) /\ CommitPin(c, cmd, h)
    <2> DEFINE k == Len(actions) + 1
               new == NewEvidence(c, cmd)
               obs == Obs(c, cmd.edge)
               act == [case |-> c, edge |-> cmd.edge, pinned |-> cmd.pinned,
                       tag |-> cmd.tag, previous |-> h]
    <2>1. /\ cmd.edge \in Edges /\ cmd.pinned \in BOOLEAN /\ cmd.tag \in Tags
          /\ cases[c] = h /\ h # NoCase /\ h \in SUBSET EvidenceIds
      BY <1>2 DEF Command, Rejected, DbInv, TypeOK
    <2>2. /\ Len(actions) \in Nat /\ k \in 1..MaxActions /\ k <= MaxActions
          /\ actions \in Seq(ActionType)
      BY <1>2, PinningAssumption DEF CommitPin, DbInv, TypeOK
    <2>3. obs \in EvidenceIds /\ Act(k) \in EvidenceIds
      BY <2>1, <2>2 DEF EvidenceIds
    <2>4. new \in SUBSET EvidenceIds
      BY <2>1, <2>3 DEF NewEvidence
    <2>5. new # NoCase
      BY <2>4, NoRowAssumption
    <2>6. /\ evidence_items' = evidence_items \cup (IF cmd.pinned THEN {obs} ELSE {}) \cup {Act(k)}
          /\ actions' = Append(actions, act)
          /\ case_snapshots' = [case_snapshots EXCEPT ![c] = @ \cup {new}]
          /\ cases' = [cases EXCEPT ![c] = new]
          /\ case_evidence' = [case_evidence EXCEPT ![c][cmd.edge] = NewRow(c, cmd)]
      BY <1>2 DEF CommitPin
    <2>7. NewRow(c, cmd) \in Row
      <3> DEFINE row == case_evidence[c][cmd.edge]
      <3>1. row \in Row \cup {NoPin}
        BY <2>1 DEF DbInv, TypeOK
      <3>2. CASE row = NoPin
        BY <3>2, <2>1, <2>3 DEF NewRow, Row
      <3>3. CASE row # NoPin
        BY <3>1, <3>3, <2>1 DEF NewRow, Row
      <3> QED BY <3>2, <3>3
    <2>8. act \in ActionType
      BY <2>1 DEF ActionType
    <2> HIDE DEF act, new, obs
    <2>9. actions' \in Seq(ActionType) /\ Len(actions') <= MaxActions
      BY <2>2, <2>6, <2>8
    <2>10. evidence_items' \subseteq EvidenceIds
      BY <2>3, <2>6 DEF DbInv, TypeOK
    <2>11. /\ cases' \in [Cases -> (SUBSET EvidenceIds) \cup {NoCase}]
           /\ case_snapshots' \in [Cases -> SUBSET SUBSET EvidenceIds]
      BY <2>4, <2>6 DEF DbInv, TypeOK
    <2>12. case_evidence' \in [Cases -> [Edges -> Row \cup {NoPin}]]
      BY <2>6, <2>7 DEF DbInv, TypeOK
    <2>13. TypeOK'
      BY <2>9, <2>10, <2>11, <2>12 DEF TypeOK
    <2>14. HistoryOK' /\ SnapshotsGrow
      BY <2>5, <2>6 DEF DbInv, TypeOK, HistoryOK, SnapshotsGrow
    <2> QED BY <2>13, <2>14 DEF DbInv
  <1> QED BY <1>1, <1>2 DEF SetPin

-----------------------------------------------------------------------------
(* Answers that were given stay true. *)
LEMMA AnswerKept ==
    ASSUME FeedbackOK, SnapshotsGrow, FeedbackGrows, NEW a, AnswerOK(a)
    PROVE  AnswerOK(a)'
  <1>1. ASSUME OnCase(a) PROVE OnCase(a)'
    <2>1. a.item.case \in Cases
      BY <1>1 DEF OnCase, Creation
    <2> QED BY <1>1, <2>1 DEF OnCase, SnapshotsGrow
  <1>2. ASSUME OnFeedback(a) PROVE OnFeedback(a)'
    <2>1. a.item.id \in Ids /\ a.item # NoEvent
      BY <1>2, NoEventAssumption DEF OnFeedback, Event
    <2> QED BY <1>2, <2>1 DEF OnFeedback, FeedbackGrows
  <1> QED BY <1>1, <1>2 DEF AnswerOK

(* Whatever a step does, this is what is left to show of it. *)
LEMMA StepKeeps ==
    ASSUME DeskInv, DbInv', SnapshotsGrow, FeedbackOK', FeedbackGrows,
           CallsOK', clock' \in Times,
           \A a \in answers' : a \in answers \/ AnswerOK(a)'
    PROVE  DeskInv'
  <1>1. \A a \in answers : AnswerOK(a)'
    BY AnswerKept DEF DeskInv, AnswersOK
  <1> QED BY <1>1 DEF DeskInv, AnswersOK

LEMMA NewAnswer ==
    ASSUME DeskInv, DbInv', SnapshotsGrow, FeedbackOK', FeedbackGrows,
           CallsOK', clock' \in Times,
           NEW r, NEW item, NEW v \in {"accepted", "conflict", "error"},
           Answer(r, item, v),
           \/ /\ r \in Creation /\ item = r
              /\ v = "accepted" => item.evidence \in case_snapshots'[item.case]
           \/ /\ r \in Form /\ item \in Event
              /\ Complete(r) => item = EventOf(r)
              /\ v = "accepted" => case_feedback'[item.id] = item
              /\ v = "conflict" => case_feedback'[item.id] \notin {NoEvent, item}
    PROVE  DeskInv'
  <1>1. PICK a : a = [request |-> r, item |-> item, verdict |-> v]
    OBVIOUS
  <1>2. a.request = r /\ a.item = item /\ a.verdict = v
    BY <1>1
  <1>3. AnswerOK(a)'
    BY <1>2 DEF AnswerOK, OnCase, OnFeedback
  <1>4. answers' = answers \cup {a}
    BY <1>1 DEF Answer
  <1> QED BY <1>3, <1>4, StepKeeps

LEMMA WaitKeepsCalls ==
    ASSUME CallsOK, NEW t \in Clients, NEW kind, NEW request, NEW item,
           Wait(t, kind, request, item),
           CallOK([kind |-> kind, request |-> request, item |-> item])
    PROVE  CallsOK'
  <1> DEFINE k == [kind |-> kind, request |-> request, item |-> item]
  <1>1. call' = [call EXCEPT ![t] = k]
    BY DEF Wait
  <1> HIDE DEF k
  <1>2. DOMAIN call' = Clients /\ call'[t] = k /\ \A u \in Clients : u # t => call'[u] = call[u]
    BY <1>1 DEF CallsOK
  <1>3. CallOK(k)
    BY DEF k
  <1>4. \A u \in Clients : call'[u] # NoCall => \E j : j = call'[u] /\ CallOK(j)
    BY <1>2, <1>3 DEF CallsOK
  <1> QED BY <1>2, <1>4 DEF CallsOK, CallOK

LEMMA OverKeepsCalls ==
    ASSUME CallsOK, NEW t \in Clients, Over(t)
    PROVE  CallsOK'
  <1>1. DOMAIN call' = Clients /\ call'[t] = NoCall /\ \A u \in Clients : u # t => call'[u] = call[u]
    BY DEF Over, CallsOK
  <1>2. \A u \in Clients : call'[u] # NoCall => \E j : j = call'[u] /\ CallOK(j)
    BY <1>1 DEF CallsOK
  <1> QED BY <1>1, <1>2 DEF CallsOK, CallOK

LEMMA SameCalls ==
    ASSUME CallsOK, UNCHANGED call
    PROVE  CallsOK'
  <1>1. \A u \in Clients : call'[u] # NoCall => \E j : j = call'[u] /\ CallOK(j)
    BY DEF CallsOK
  <1> QED BY <1>1 DEF CallsOK, CallOK

(* The event that is built is one; of a complete form it is its event.     *)
LEMMA BuiltIsEvent ==
    ASSUME DbInv, clock \in Times, NEW c \in Cases, NEW f \in FormsOf(c), cases[f.case] # NoCase
    PROVE  /\ f \in Form /\ Built(f) \in Event
           /\ Complete(f) => Built(f) = EventOf(f)
  <1>1. /\ f.case = c /\ f.event_id \in EventIds \cup {Omitted} /\ f.analyst \in Analysts
        /\ f.disposition \in Dispositions /\ f.created_at \in {0, Omitted}
        /\ f.snapshot_hash \in case_snapshots[c] \cup {Omitted}
    BY DEF FormsOf
  <1>2. /\ case_snapshots[c] \subseteq SUBSET EvidenceIds
        /\ cases[c] \in SUBSET EvidenceIds
    BY <1>1 DEF DbInv, TypeOK
  <1>3. f \in Form
    BY <1>1, <1>2 DEF FormsOf, Form
  <1>4. Or(f.event_id, DefaultId(f.case, f.analyst)) \in Ids
    BY <1>1 DEF Or, Ids
  <1>5. Or(f.created_at, clock) \in Times
    BY <1>1, DeskAssumption DEF Or, Times
  <1>6. Or(f.snapshot_hash, cases[f.case]) \in SUBSET EvidenceIds
    BY <1>1, <1>2 DEF Or
  <1>7. Built(f) \in Event
    BY <1>1, <1>4, <1>5, <1>6 DEF Built, Event
  <1>8. Complete(f) => Built(f) = EventOf(f)
    BY DEF Complete, Built, EventOf, Or
  <1> QED BY <1>3, <1>7, <1>8

-----------------------------------------------------------------------------
LEMMA InitDeskInv == DeskInit => DeskInv
  <1> SUFFICES ASSUME DeskInit PROVE DeskInv
    OBVIOUS
  <1>1. TypeOK
    <2>1. actions \in Seq(ActionType) /\ Len(actions) <= MaxActions
      BY PinningAssumption DEF DeskInit
    <2>2. cases \in [Cases -> (SUBSET EvidenceIds) \cup {NoCase}]
      BY DEF DeskInit
    <2>3. case_snapshots \in [Cases -> SUBSET SUBSET EvidenceIds]
      <3>1. {} \in SUBSET SUBSET EvidenceIds
        OBVIOUS
      <3> QED BY <3>1 DEF DeskInit
    <2>4. case_evidence \in [Cases -> [Edges -> Row \cup {NoPin}]]
      BY DEF DeskInit
    <2> QED BY <2>1, <2>2, <2>3, <2>4 DEF DeskInit, TypeOK
  <1>2. HistoryOK
    BY DEF DeskInit, HistoryOK
  <1>3. FeedbackOK /\ CallsOK /\ AnswersOK
    BY DEF DeskInit, FeedbackOK, CallsOK, AnswersOK
  <1>4. clock \in Times
    BY DeskAssumption DEF DeskInit, Times
  <1> QED BY <1>1, <1>2, <1>3, <1>4 DEF DeskInv, DbInv

LEMMA CreationKeeps ==
    ASSUME DeskInv, NEW t \in Clients,
           \/ \E c \in Cases, ev \in SUBSET evidence_items :
                 LookForCase(t, [case |-> c, evidence |-> ev])
           \/ InsertCase(t)
    PROVE  DeskInv'
  <1>1. /\ FeedbackOK' /\ FeedbackGrows /\ clock' \in Times
    BY DEF LookForCase, InsertCase, DeskInv, FeedbackOK, FeedbackGrows
  <1>2. ASSUME NEW c \in Cases, NEW ev \in SUBSET evidence_items,
               LookForCase(t, [case |-> c, evidence |-> ev])
        PROVE  DeskInv'
    <2>1. PICK r : r = [case |-> c, evidence |-> ev]
      OBVIOUS
    <2>2. r \in Creation /\ r.case = c /\ r.evidence = ev /\ LookForCase(t, r)
      BY <1>2, <2>1 DEF Creation, DeskInv, DbInv, TypeOK
    <2>3. DbInv' /\ SnapshotsGrow
      BY <2>2, SameDb DEF LookForCase, DeskInv
    <2>4. CASE cases[c] = NoCase
      <3>1. Wait(t, "create", r, r) /\ UNCHANGED answers
        BY <2>2, <2>4 DEF LookForCase
      <3>2. CallOK([kind |-> "create", request |-> r, item |-> r])
        BY <2>2 DEF CallOK
      <3>3. CallsOK'
        BY <3>1, <3>2, WaitKeepsCalls DEF DeskInv
      <3> QED BY <1>1, <2>3, <3>1, <3>3, StepKeeps
    <2>5. CASE cases[c] # NoCase
      <3>1. PICK v \in {"accepted", "conflict", "error"} :
               v = IF cases[c] = ev THEN "accepted" ELSE "conflict"
        OBVIOUS
      <3>2. Answer(r, r, v) /\ UNCHANGED << db, call >>
        BY <2>2, <2>5, <3>1 DEF LookForCase
      <3>3. case_snapshots'[c] = case_snapshots[c] /\ cases[c] \in case_snapshots[c]
        BY <3>2, <2>5 DEF db, DeskInv, DbInv, HistoryOK
      <3>4. v = "accepted" => r.evidence \in case_snapshots'[r.case]
        BY <2>2, <3>1, <3>3
      <3>5. CallsOK'
        BY <3>2, SameCalls DEF DeskInv
      <3> QED BY <1>1, <2>2, <2>3, <3>2, <3>4, <3>5, NewAnswer
    <2> QED BY <2>4, <2>5
  <1>3. CASE InsertCase(t)
    <2>1. PICK r : r = call[t].item
      OBVIOUS
    <2>2. r \in Creation /\ r.case \in Cases
      BY <1>3, <2>1 DEF InsertCase, DeskInv, CallsOK, CallOK, Creation
    <2>3. CallsOK'
      BY <1>3, OverKeepsCalls DEF InsertCase, DeskInv
    <2>4. CASE CreateCase(r.case, r.evidence) /\ Answer(r, r, "accepted")
      <3>1. DbInv' /\ SnapshotsGrow /\ r.evidence \in case_snapshots'[r.case]
        BY <2>2, <2>4, CreateKeepsDb DEF DeskInv
      <3> QED BY <1>1, <2>2, <2>3, <2>4, <3>1, NewAnswer
    <2>5. CASE Answer(r, r, "error") /\ UNCHANGED db
      <3>1. DbInv' /\ SnapshotsGrow
        BY <2>5, SameDb DEF DeskInv
      <3> QED BY <1>1, <2>2, <2>3, <2>5, <3>1, NewAnswer
    <2> QED BY <1>3, <2>1, <2>4, <2>5 DEF InsertCase
  <1> QED BY <1>2, <1>3

LEMMA FeedbackKeeps ==
    ASSUME DeskInv, NEW t \in Clients,
           \/ \E c \in Cases : \E f \in FormsOf(c) : BuildFeedback(t, f)
           \/ LookForFeedback(t)
           \/ InsertFeedback(t)
    PROVE  DeskInv'
  <1>1. DbInv' /\ SnapshotsGrow /\ clock' \in Times
    BY SameDb DEF BuildFeedback, LookForFeedback, InsertFeedback, DeskInv
  <1>2. ASSUME NEW c \in Cases, NEW f \in FormsOf(c), BuildFeedback(t, f)
        PROVE  DeskInv'
    <2>1. PICK e : e = Built(f)
      OBVIOUS
    <2>2. Wait(t, "built", f, e) /\ cases[f.case] # NoCase /\ UNCHANGED << case_feedback, answers >>
      BY <1>2, <2>1 DEF BuildFeedback
    <2>3. f \in Form /\ e \in Event /\ (Complete(f) => e = EventOf(f))
      BY <2>1, <2>2, BuiltIsEvent DEF DeskInv
    <2>4. CallOK([kind |-> "built", request |-> f, item |-> e])
      BY <2>3 DEF CallOK
    <2>5. CallsOK'
      BY <2>2, <2>4, WaitKeepsCalls DEF DeskInv
    <2> QED BY <1>1, <2>2, <2>5, StepKeeps DEF DeskInv, FeedbackOK, FeedbackGrows
  <1>3. ASSUME LookForFeedback(t) \/ InsertFeedback(t) PROVE DeskInv'
    <2>1. PICK f, e : f = call[t].request /\ e = call[t].item
      OBVIOUS
    <2>2. f \in Form /\ e \in Event /\ (Complete(f) => e = EventOf(f))
      BY <1>3, <2>1 DEF LookForFeedback, InsertFeedback, DeskInv, CallsOK, CallOK
    <2>3. e.id \in Ids /\ e # NoEvent
      BY <2>2, NoEventAssumption DEF Event
    <2>4. ASSUME LookForFeedback(t), case_feedback[e.id] = NoEvent PROVE DeskInv'
      <3>1. Wait(t, "feedback", f, e) /\ UNCHANGED << case_feedback, answers >>
        BY <2>1, <2>4 DEF LookForFeedback
      <3>2. CallOK([kind |-> "feedback", request |-> f, item |-> e])
        BY <2>2 DEF CallOK
      <3>3. CallsOK'
        BY <3>1, <3>2, WaitKeepsCalls DEF DeskInv
      <3> QED BY <1>1, <3>1, <3>3, StepKeeps DEF DeskInv, FeedbackOK, FeedbackGrows
    <2>5. ASSUME LookForFeedback(t), case_feedback[e.id] # NoEvent PROVE DeskInv'
      <3>1. PICK v \in {"accepted", "conflict", "error"} :
               v = IF case_feedback[e.id] = e THEN "accepted" ELSE "conflict"
        OBVIOUS
      <3>2. Answer(f, e, v) /\ Over(t) /\ UNCHANGED case_feedback
        BY <2>1, <2>5, <3>1 DEF LookForFeedback, SameEvent
      <3>3. CallsOK'
        BY <3>2, OverKeepsCalls DEF DeskInv
      <3>4. /\ v = "accepted" => case_feedback'[e.id] = e
            /\ v = "conflict" => case_feedback'[e.id] \notin {NoEvent, e}
        BY <2>5, <3>1, <3>2
      <3>5. FeedbackOK' /\ FeedbackGrows
        BY <3>2 DEF DeskInv, FeedbackOK, FeedbackGrows
      <3> QED BY <1>1, <2>2, <3>2, <3>3, <3>4, <3>5, NewAnswer
    <2>6. ASSUME InsertFeedback(t) PROVE DeskInv'
      <3>1. CallsOK'
        BY <2>6, OverKeepsCalls DEF InsertFeedback, DeskInv
      <3>2. CASE /\ case_feedback[e.id] = NoEvent
                 /\ case_feedback' = [case_feedback EXCEPT ![e.id] = e]
                 /\ Answer(f, e, "accepted")
        <4>1. FeedbackOK' /\ FeedbackGrows /\ case_feedback'[e.id] = e
          BY <2>2, <2>3, <3>2 DEF DeskInv, FeedbackOK, FeedbackGrows
        <4> QED BY <1>1, <2>2, <3>1, <3>2, <4>1, NewAnswer
      <3>3. CASE Answer(f, e, "error") /\ UNCHANGED case_feedback
        <4>1. FeedbackOK' /\ FeedbackGrows
          BY <3>3 DEF DeskInv, FeedbackOK, FeedbackGrows
        <4> QED BY <1>1, <2>2, <3>1, <3>3, <4>1, NewAnswer
      <3> QED BY <2>1, <2>6, <3>2, <3>3 DEF InsertFeedback
    <2> QED BY <1>3, <2>4, <2>5, <2>6
  <1> QED BY <1>2, <1>3

(* Every step keeps the invariant. *)
LEMMA NextDeskInv == DeskInv /\ [DeskNext]_vars => DeskInv'
  <1> SUFFICES ASSUME DeskInv, [DeskNext]_vars PROVE DeskInv'
    OBVIOUS
  <1>1. ASSUME NEW t \in Clients, Drop(t) PROVE DeskInv'
    <2>1. DbInv' /\ SnapshotsGrow /\ CallsOK'
      BY <1>1, SameDb, OverKeepsCalls DEF Drop, DeskInv
    <2> QED BY <1>1, <2>1, StepKeeps DEF Drop, DeskInv, FeedbackOK, FeedbackGrows
  <1>2. ASSUME DbInv', SnapshotsGrow, UNCHANGED desk PROVE DeskInv'
    <2>1. CallsOK'
      BY <1>2, SameCalls DEF desk, DeskInv
    <2> QED BY <1>2, <2>1, StepKeeps DEF desk, DeskInv, FeedbackOK, FeedbackGrows
  <1>3. ASSUME NEW c \in Cases, NEW sources \in Fixtures, Import(c, sources) PROVE DeskInv'
    BY <1>2, <1>3, ImportKeepsDb DEF Import, DeskInv
  <1>4. ASSUME NEW c \in Cases, NEW cmd \in Command, Pin(c, cmd, cases[c]) PROVE DeskInv'
    BY <1>2, <1>4, PinKeepsDb DEF Pin, DeskInv
  <1>5. CASE Tick
    <2>1. DbInv' /\ SnapshotsGrow /\ CallsOK'
      BY <1>5, SameDb, SameCalls DEF Tick, DeskInv
    <2>2. clock' \in Times
      BY <1>5, DeskAssumption DEF Tick, DeskInv, Times
    <2> QED BY <1>5, <2>1, <2>2, StepKeeps DEF Tick, DeskInv, FeedbackOK, FeedbackGrows
  <1>6. CASE UNCHANGED vars
    BY <1>2, <1>6, SameDb DEF vars, DeskInv
  <1>7. ASSUME NEW t \in Clients, Handle(t) PROVE DeskInv'
    BY <1>1, <1>7, CreationKeeps, FeedbackKeeps DEF Handle
  <1> QED BY <1>3, <1>4, <1>5, <1>6, <1>7 DEF DeskNext

THEOREM DeskInvariant == DeskSpec => []DeskInv
  BY InitDeskInv, NextDeskInv, PTL DEF DeskSpec

-----------------------------------------------------------------------------
(* What the invariant says of the properties that are checked.             *)
LEMMA AnswersOfFeedback ==
    ASSUME DeskInv, NEW a \in answers
    PROVE  IF a \in OfFeedback THEN OnFeedback(a) ELSE OnCase(a)
  <1>1. ASSUME OnCase(a) PROVE a \notin OfFeedback
    BY <1>1 DEF OnCase, Creation, OfFeedback
  <1>2. ASSUME OnFeedback(a) PROVE a \in OfFeedback
    BY <1>2 DEF OnFeedback, Form, OfFeedback
  <1> QED BY <1>1, <1>2 DEF DeskInv, AnswersOK, AnswerOK

(* Every variable of the desk has its type: waiting requests and answers   *)
(* are those of the handlers.                                              *)
THEOREM DeskTypes == DeskSpec => []DeskTypeOK
  <1>1. DeskInv => DeskTypeOK
    BY DEF DeskInv, DbInv, FeedbackOK, CallsOK, CallOK, AnswersOK, AnswerOK, DeskTypeOK
  <1> QED BY <1>1, DeskInvariant, PTL

(* What put_case and put_feedback have accepted stays in their tables.     *)
THEOREM DeskAccepted == DeskSpec => []AcceptedIsStored
  <1>1. DeskInv => AcceptedIsStored
    BY AnswersOfFeedback DEF AcceptedIsStored, OnCase, OnFeedback
  <1> QED BY <1>1, DeskInvariant, PTL

(* A complete form is the same event every time it is sent, so that an     *)
(* accepted one never meets another event under its id, nor the reverse.   *)
THEOREM DeskRetry == DeskSpec => []CompleteRetry
  <1>1. ASSUME DeskInv, NEW a \in OfFeedback, NEW b \in OfFeedback,
               Complete(a.request), Clash(a, b)
        PROVE  FALSE
    <2>1. OnFeedback(a) /\ OnFeedback(b)
      BY <1>1, AnswersOfFeedback DEF OfFeedback
    <2>2. a.item = b.item
      BY <1>1, <2>1 DEF OnFeedback, Clash
    <2> QED BY <1>1, <2>1, <2>2 DEF OnFeedback, Clash
  <1>2. DeskInv => CompleteRetry
    BY <1>1 DEF CompleteRetry
  <1> QED BY <1>2, DeskInvariant, PTL

(* set_pin alone moves a case that is there, and from its current snapshot.*)
THEOREM DeskOnlyPinsMove == DeskSpec => OnlyPinsMove
  <1> DEFINE Moved(c) == /\ Len(actions') = Len(actions) + 1
                         /\ actions'[Len(actions')].case = c
                         /\ actions'[Len(actions')].previous = cases[c]
  <1>1. ASSUME DeskInv, [DeskNext]_vars, NEW c \in Cases,
               cases[c] # NoCase, cases'[c] # cases[c]
        PROVE  Moved(c)
    <2>1. ASSUME NEW d \in Cases, NEW ev, CreateCase(d, ev) PROVE FALSE
      BY <1>1, <2>1 DEF CreateCase, DeskInv, DbInv, TypeOK
    <2>2. ASSUME NEW d \in Cases, NEW sources \in Fixtures, Import(d, sources) PROVE FALSE
      BY <1>1, <2>2 DEF Import, Imported, DeskInv, DbInv, TypeOK
    <2>3. ASSUME NEW d \in Cases, NEW cmd \in Command, Pin(d, cmd, cases[d]) PROVE Moved(c)
      <3>1. PICK h : h = cases[d]
        OBVIOUS
      <3>2. CommitPin(d, cmd, h)
        BY <1>1, <2>3, <3>1 DEF Pin, SetPin, db
      <3>3. d = c
        BY <1>1, <3>2 DEF CommitPin, DeskInv, DbInv, TypeOK
      <3>4. PICK act : act = [case |-> d, edge |-> cmd.edge, pinned |-> cmd.pinned,
                              tag |-> cmd.tag, previous |-> h]
        OBVIOUS
      <3>5. act.case = c /\ act.previous = cases[c]
        BY <3>1, <3>3, <3>4
      <3>6. actions' = Append(actions, act) /\ actions \in Seq(ActionType)
        BY <1>1, <3>2, <3>4 DEF CommitPin, DeskInv, DbInv, TypeOK
      <3> QED BY <3>5, <3>6
    <2>4. ASSUME UNCHANGED cases PROVE FALSE
      BY <1>1, <2>4
    <2>5. ASSUME NEW t \in Clients, Handle(t) PROVE FALSE
      <3>1. CASE InsertCase(t)
        <4>1. PICK r : r = call[t].item
          OBVIOUS
        <4>2. r.case \in Cases
          BY <1>1, <3>1, <4>1 DEF InsertCase, DeskInv, CallsOK, CallOK, Creation
        <4> QED BY <3>1, <4>1, <4>2, <2>1, <2>4 DEF InsertCase, db
      <3> QED BY <2>4, <2>5, <3>1
            DEF Handle, LookForCase, BuildFeedback, LookForFeedback, InsertFeedback, Drop, db
    <2> QED BY <1>1, <2>2, <2>3, <2>4, <2>5 DEF DeskNext, Tick, vars, db
  <1>2. DeskInv /\ [DeskNext]_vars =>
           [\A c \in Cases : cases[c] # NoCase /\ cases'[c] # cases[c] => Moved(c)]_vars
    BY <1>1
  <1> QED BY <1>2, DeskInvariant, PTL DEF DeskSpec, OnlyPinsMove

=============================================================================
