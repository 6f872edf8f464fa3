------------------------------ MODULE CaseDesk ------------------------------
(***************************************************************************)
(* What changes a case besides pins: POST /cases and the feedback handler  *)
(* (src/apps/case_api/main.py) over put_case and put_feedback              *)
(* (src/src/fincrime/storage/postgres.py), and import_canvas_case          *)
(* (src/src/fincrime/cases/import_canvas.py), which other processes run on *)
(* the tables of Pinning.                                                  *)
(*                                                                         *)
(* put_case and put_feedback look for the row and insert it in two         *)
(* statements at READ COMMITTED: what commits in between is seen by the    *)
(* primary key only, whose IntegrityError no handler names (status 500).   *)
(* An import is one transaction; one that meets another is rolled back.    *)
(* A request without a valid body, a known case or stored evidence is      *)
(* refused before it changes anything, and is no step.                     *)
(***************************************************************************)
EXTENDS Pinning

CONSTANTS
    Clients,
    Analysts, Dispositions,
    EventIds,          \* event ids a client may choose
    Fixtures,          \* sets of sources that are imported together
    Omitted,           \* an optional field of a form that is not sent
    MaxTime,           \* bound on the clock
    MaxAnswers,        \* bound on the answers of one behaviour
    NoEvent, NoCall    \* no row in case_feedback; the client waits for nothing

ASSUME DeskAssumption == /\ MaxTime \in Nat /\ MaxAnswers \in Nat
                         /\ Fixtures \subseteq SUBSET Sources

VARIABLES
    case_feedback,  \* case_feedback[id]: the event that is stored
    clock,          \* datetime.now
    call,           \* call[t]: the request of client t that is past its look
    answers         \* every answer of the API

desk == << case_feedback, clock, call, answers >>
vars == << db, desk >>

Times == 0..MaxTime

(* `fb-{case_id}-{analyst_id}', where the client gives no id. *)
DefaultId(c, a) == << "fb", c, a >>

Ids == EventIds \cup {DefaultId(c, a) : c \in Cases, a \in Analysts}

Event == [id : Ids, case : Cases, analyst : Analysts, disposition : Dispositions,
          created_at : Times, snapshot_hash : SUBSET EvidenceIds]

ASSUME NoEventAssumption == NoEvent \notin Event

(* FeedbackRequest; an explicit hash is not compared with anything. *)
FormsOf(c) == [case : {c}, event_id : EventIds \cup {Omitted}, analyst : Analysts,
               disposition : Dispositions, created_at : {0, Omitted},
               snapshot_hash : case_snapshots[c] \cup {Omitted}]

Form == [case : Cases, event_id : EventIds \cup {Omitted}, analyst : Analysts,
         disposition : Dispositions, created_at : {0, Omitted},
         snapshot_hash : (SUBSET EvidenceIds) \cup {Omitted}]

(* CreateCaseRequest; created_at is in the hash, which the client sends.   *)
Creation == [case : Cases, evidence : SUBSET EvidenceIds]

Or(given, default) == IF given = Omitted THEN default ELSE given

(* Mutants: no default id; the hash is always the current one. *)
BuiltNoDefault(f) == [id |-> f.event_id, case |-> f.case, analyst |-> f.analyst,
                      disposition |-> f.disposition, created_at |-> Or(f.created_at, clock),
                      snapshot_hash |-> Or(f.snapshot_hash, cases[f.case])]
BuiltCurrent(f) == [id |-> Or(f.event_id, DefaultId(f.case, f.analyst)), case |-> f.case,
                    analyst |-> f.analyst, disposition |-> f.disposition,
                    created_at |-> Or(f.created_at, clock), snapshot_hash |-> cases[f.case]]

(* The AnalystFeedbackEvent of a form, with service.get and the clock, in  *)
(* seconds: canonical bytes have no more.                                  *)
Built(f) == [id |-> Or(f.event_id, DefaultId(f.case, f.analyst)), case |-> f.case,
             analyst |-> f.analyst, disposition |-> f.disposition,
             created_at |-> Or(f.created_at, clock),
             snapshot_hash |-> Or(f.snapshot_hash, cases[f.case])]

DeskInit == /\ cases = [c \in Cases |-> NoCase]
            /\ case_snapshots = [c \in Cases |-> {}]
            /\ evidence_items = {}
            /\ actions = << >>
            /\ case_evidence = [c \in Cases |-> [e \in Edges |-> NoPin]]
            /\ case_feedback = [id \in Ids |-> NoEvent]
            /\ clock = 0
            /\ call = [t \in Clients |-> NoCall]
            /\ answers = {}

Answer(request, item, verdict) ==
    /\ Cardinality(answers) < MaxAnswers
    /\ answers' = answers \cup {[request |-> request, item |-> item, verdict |-> verdict]}

Wait(t, kind, request, item) ==
    call' = [call EXCEPT ![t] = [kind |-> kind, request |-> request, item |-> item]]

Over(t) == call' = [call EXCEPT ![t] = NoCall]

-----------------------------------------------------------------------------
(* POST /cases: the service finds all evidence, and put_case looks. *)
LookForCase(t, r) ==
    /\ call[t] = NoCall
    /\ r.evidence \subseteq evidence_items
    /\ IF cases[r.case] = NoCase
       THEN Wait(t, "create", r, r) /\ UNCHANGED answers
       ELSE /\ Answer(r, r, IF cases[r.case] = r.evidence THEN "accepted" ELSE "conflict")
            /\ UNCHANGED call
    /\ UNCHANGED << db, case_feedback, clock >>

(* A mutant: the second writer wins. *)
InsertCaseOver(t) ==
    /\ call[t] # NoCall /\ call[t].kind = "create"
    /\ LET r == call[t].item
       IN  /\ cases' = [cases EXCEPT ![r.case] = r.evidence]
           /\ case_snapshots' = [case_snapshots EXCEPT ![r.case] = @ \cup {r.evidence}]
           /\ Answer(r, r, "accepted")
    /\ Over(t)
    /\ UNCHANGED << evidence_items, actions, case_evidence, case_feedback, clock >>

(* put_case inserts the case and its first snapshot. *)
InsertCase(t) ==
    /\ call[t] # NoCall /\ call[t].kind = "create"
    /\ LET r == call[t].item
       IN  \/ CreateCase(r.case, r.evidence) /\ Answer(r, r, "accepted")
           \/ cases[r.case] # NoCase /\ Answer(r, r, "error") /\ UNCHANGED db
    /\ Over(t)
    /\ UNCHANGED << case_feedback, clock >>

(* POST /cases/{case_id}/feedback: the event is built from the current     *)
(* case, and put_feedback looks for its id.                                *)
BuildFeedback(t, f) ==
    /\ call[t] = NoCall
    /\ cases[f.case] # NoCase
    /\ Wait(t, "built", f, Built(f))
    /\ UNCHANGED << db, case_feedback, clock, answers >>

(* A mutant: an id that is there is taken for the same event. *)
SameEventById(stored, event) == stored.id = event.id

(* The canonical bytes of two events are equal. *)
SameEvent(stored, event) == stored = event

LookForFeedback(t) ==
    /\ call[t] # NoCall /\ call[t].kind = "built"
    /\ LET stored == case_feedback[call[t].item.id]
       IN  IF stored = NoEvent
           THEN Wait(t, "feedback", call[t].request, call[t].item) /\ UNCHANGED answers
           ELSE /\ Answer(call[t].request, call[t].item,
                          IF SameEvent(stored, call[t].item) THEN "accepted" ELSE "conflict")
                /\ Over(t)
    /\ UNCHANGED << db, case_feedback, clock >>

InsertFeedback(t) ==
    /\ call[t] # NoCall /\ call[t].kind = "feedback"
    /\ LET event == call[t].item
       IN  \/ /\ case_feedback[event.id] = NoEvent
              /\ case_feedback' = [case_feedback EXCEPT ![event.id] = event]
              /\ Answer(call[t].request, event, "accepted")
           \/ /\ case_feedback[event.id] # NoEvent
              /\ Answer(call[t].request, event, "error")
              /\ UNCHANGED case_feedback
    /\ Over(t)
    /\ UNCHANGED << db, clock >>

(* The process dies, or the connection to the client does: the call goes   *)
(* with its transaction.                                                   *)
Drop(t) == /\ call[t] # NoCall
           /\ Over(t)
           /\ UNCHANGED << db, case_feedback, clock, answers >>

-----------------------------------------------------------------------------
(* put_case where there is no case; the current snapshot is left as it is. *)
Imported(c, ev) == [cases EXCEPT ![c] = IF @ = NoCase THEN ev ELSE @]

(* import_canvas_case of a fixture of case c: a snapshot the case has had  *)
(* is a no-op, any other is added together with its evidence.              *)
Import(c, sources) ==
    /\ LET ev == {Base(s) : s \in sources}
       IN  /\ ev \notin case_snapshots[c]
           /\ evidence_items' = evidence_items \cup ev
           /\ cases' = Imported(c, ev)
           /\ case_snapshots' = [case_snapshots EXCEPT ![c] = @ \cup {ev}]
    /\ UNCHANGED << actions, case_evidence, desk >>

(* Pins of the workspace, by SetPin of Pinning. *)
Pin(c, cmd, expected) == SetPin(c, cmd, expected) /\ UNCHANGED desk

Tick == /\ clock < MaxTime
        /\ clock' = clock + 1
        /\ UNCHANGED << db, case_feedback, call, answers >>

Handle(t) ==
    \/ \E c \in Cases, ev \in SUBSET evidence_items :
          LookForCase(t, [case |-> c, evidence |-> ev])
    \/ \E c \in Cases : \E f \in FormsOf(c) : BuildFeedback(t, f)
    \/ InsertCase(t) \/ LookForFeedback(t) \/ InsertFeedback(t)
    \/ Drop(t)

DeskNext ==
    \/ \E t \in Clients : Handle(t)
    \/ \E c \in Cases : \/ \E sources \in Fixtures : Import(c, sources)
                        \/ \E cmd \in Command : Pin(c, cmd, cases[c])
    \/ Tick

DeskSpec == DeskInit /\ [][DeskNext]_vars

-----------------------------------------------------------------------------
(* Properties. *)

DeskTypeOK ==
    /\ TypeOK
    /\ case_feedback \in [Ids -> Event \cup {NoEvent}]
    /\ clock \in Times
    /\ \A t \in Clients : call[t] # NoCall =>
          \/ /\ call[t].kind = "create"
             /\ call[t].request \in Creation /\ call[t].item = call[t].request
          \/ /\ call[t].kind \in {"built", "feedback"}
             /\ call[t].request \in Form /\ call[t].item \in Event
    /\ \A a \in answers : a.verdict \in {"accepted", "conflict", "error"}

OfFeedback == {a \in answers : "disposition" \in DOMAIN a.request}

(* What the API has accepted is kept, whoever writes at the same time: the *)
(* very event under its id, the snapshot among those of its case.          *)
AcceptedIsStored ==
    \A a \in answers : a.verdict = "accepted" =>
        IF a \in OfFeedback THEN case_feedback[a.item.id] = a.item
                            ELSE a.item.evidence \in case_snapshots[a.item.case]

Complete(f) == f.created_at # Omitted /\ f.snapshot_hash # Omitted

Clash(a, b) == /\ a.request = b.request
               /\ a.verdict = "accepted" /\ b.verdict = "conflict"

(* A client that sends the time and the hash may send its feedback again:  *)
(* an accepted form is never called a conflict, and a conflict is never    *)
(* accepted afterwards, whatever is pinned and whoever races.              *)
CompleteRetry ==
    \A a, b \in OfFeedback : Complete(a.request) => ~Clash(a, b)

(* A case moves on by pins only, and only from its current snapshot: a     *)
(* repeated or racing creation and a later import leave it where it is.    *)
OnlyPinsMove ==
    [][\A c \in Cases : cases[c] # NoCase /\ cases'[c] # cases[c] =>
          /\ Len(actions') = Len(actions) + 1
          /\ actions'[Len(actions')].case = c
          /\ actions'[Len(actions')].previous = cases[c]]_vars

=============================================================================
