----------------------------- MODULE Workspace -----------------------------
(***************************************************************************)
(* The investigator's page: optimistic pins and the debounced refresh of   *)
(* the hypothesis (src/apps/investigator-web/src/CaseWorkspace.tsx, with   *)
(* the calls of api.ts), while other analysts pin the same case.           *)
(*                                                                         *)
(* The server is its promise: a pin commits on the current snapshot only,  *)
(* as a step of PinChain, which Pinning implements; a hypothesis is of the *)
(* snapshot that was asked for (CaseApi).                                  *)
(* A call is on its way to the server, then its answer is on its way back, *)
(* and either may be lost; api.ts makes that an answer too.  isMutating    *)
(* allows one pin call at a time; refreshes and the workbenches they fetch *)
(* overlap with it and with each other.                                    *)
(***************************************************************************)
EXTENDS Integers, Sequences, FiniteSets

CONSTANTS
    Edges,
    MaxRevision,   \* bound on the snapshots of one behaviour
    MaxRefreshes,  \* bound on the refreshes that are sent
    None           \* no timer, no hypothesis

ASSUME WorkspaceAssumption == /\ MaxRevision \in Nat \ {0} /\ MaxRefreshes \in Nat
                              /\ Edges # {}

VARIABLES
    history,     \* history[r]: the edges pinned in snapshot r, for the server
    cached,      \* the server has the hypothesis of its current snapshot
    shown,       \* what the page shows: currentCase, pins, hypothesisSnapshotHash
    isMutating,
    click,       \* the pin call: what was clicked, and how far the call is
    timer,       \* the snapshot the refresh timer will ask for
    refresh,     \* the refresh calls that were sent
    isRefreshingHypothesis,
    astray       \* history: the pins were rolled back under another case

Chain == INSTANCE PinChain

server == << history, cached >>
page == << shown, isMutating, timer, isRefreshingHypothesis, astray >>
vars == << server, page, click, refresh >>

Current == Len(history)
Revisions == 1..MaxRevision
Snapshot == [case : Revisions, pins : SUBSET Edges, label : Revisions \cup {None}]

(* What GET /cases/{case_id}/workbench answers now. *)
Workbench == [case |-> Current, pins |-> history[Current],
              label |-> IF cached THEN Current ELSE None]

Init == /\ history = << {} >>
        /\ cached \in BOOLEAN
        /\ shown = Workbench
        /\ isMutating = FALSE
        /\ click = [at |-> "over", edge |-> CHOOSE e \in Edges : TRUE, pinned |-> FALSE,
                    old |-> shown, answer |-> shown, crossed |-> FALSE]
        /\ timer = None
        /\ refresh = << >>
        /\ isRefreshingHypothesis = FALSE
        /\ astray = FALSE

-----------------------------------------------------------------------------
(* handleTogglePin. *)

Toggled(pins, e, pinned) == IF pinned THEN pins \cup {e} ELSE pins \ {e}

Toggle(e) ==
    /\ ~isMutating
    /\ LET pinned == e \notin shown.pins
       IN  /\ shown' = [shown EXCEPT !.pins = Toggled(@, e, pinned)]
           /\ click' = [at |-> "sent", edge |-> e, pinned |-> pinned,
                        old |-> shown, answer |-> shown, crossed |-> FALSE]
    /\ isMutating' = TRUE
    /\ UNCHANGED << server, timer, refresh, isRefreshingHypothesis, astray >>

Commit(e, pinned) == /\ Current < MaxRevision
                     /\ Chain!Pin(e, pinned)
                     /\ cached' = FALSE

(* The server handles the pin call: 409, nothing to change, or a snapshot, *)
(* which a pin that changes only the tag of its edge makes as well.        *)
ServePin ==
    /\ click.at = "sent"
    /\ \/ /\ click.old.case # Current
          /\ click' = [click EXCEPT !.at = "conflict"]
          /\ UNCHANGED server
       \/ /\ click.old.case = Current
          /\ \/ Toggled(history[Current], click.edge, click.pinned) = history[Current]
                /\ UNCHANGED server
             \/ Commit(click.edge, click.pinned)
          /\ click' = [click EXCEPT !.at = "ok",
                                   !.answer = [case |-> Len(history'),
                                               pins |-> history'[Len(history')], label |-> None]]
    /\ UNCHANGED << page, refresh >>

(* finally. *)
MutationOver == /\ isMutating' = FALSE
                /\ click' = [click EXCEPT !.at = "over"]

(* The answer sets case and pins, and the timer is set anew. *)
PinOk ==
    /\ click.at = "ok"
    /\ shown' = [click.answer EXCEPT !.label = shown.label]
    /\ timer' = click.answer.case
    /\ isRefreshingHypothesis' = TRUE
    /\ MutationOver
    /\ astray' = FALSE
    /\ UNCHANGED << server, refresh >>

(* A mutant: the optimistic pins stay. *)
KeptPins == shown

(* setPins(oldPins) *)
RolledBack == [shown EXCEPT !.pins = click.old.pins]

(* The rollback restores the pins under whatever case is shown by now. *)
RollBack == /\ shown' = RolledBack
            /\ astray' = (astray \/ click.crossed)

(* The call or its answer is lost, before or after the server's work, or   *)
(* the server answers another error.                                       *)
PinFails ==
    /\ click.at \in {"sent", "ok", "conflict"}
    /\ RollBack
    /\ MutationOver
    /\ UNCHANGED << server, timer, refresh, isRefreshingHypothesis >>

PinConflict ==
    /\ click.at = "conflict"
    /\ RollBack
    /\ click' = [click EXCEPT !.at = "fetch"]
    /\ UNCHANGED << server, isMutating, timer, refresh, isRefreshingHypothesis >>

(* A mutant: the workbench comes from a cache of the client. *)
FetchedStale == click.old

(* The workbench that the server answers after a conflict. *)
Fetched == Workbench

ServeFetch ==
    /\ click.at = "fetch"
    /\ click' = [click EXCEPT !.at = "fetched", !.answer = Fetched]
    /\ UNCHANGED << server, page, refresh >>

(* The case and the pins are set; the hypothesis and its label stay. *)
PinFetched ==
    /\ click.at = "fetched"
    /\ shown' = [click.answer EXCEPT !.label = shown.label]
    /\ MutationOver
    /\ astray' = FALSE
    /\ UNCHANGED << server, timer, refresh, isRefreshingHypothesis >>

(* A mutant: the controls stay disabled. *)
FetchFailsDisabled ==
    /\ click.at \in {"fetch", "fetched"}
    /\ click' = [click EXCEPT !.at = "over"]
    /\ UNCHANGED << server, page, refresh >>

FetchFails ==
    /\ click.at \in {"fetch", "fetched"}
    /\ MutationOver
    /\ UNCHANGED << server, shown, timer, refresh, isRefreshingHypothesis, astray >>

-----------------------------------------------------------------------------
(* scheduleHypothesisRefresh: a pin clears the timer, and never a call     *)
(* that the timer has already sent.                                        *)
TimerFires ==
    /\ timer # None
    /\ Len(refresh) < MaxRefreshes
    /\ refresh' = Append(refresh, [at |-> "sent", case |-> timer, answer |-> shown])
    /\ timer' = None
    /\ UNCHANGED << server, shown, isMutating, click, isRefreshingHypothesis, astray >>

RefreshAt(i, where) == refresh' = [refresh EXCEPT ![i].at = where]

ServeRefresh(i) ==
    /\ refresh[i].at = "sent"
    /\ IF refresh[i].case = Current
       THEN RefreshAt(i, "ok") /\ cached' = TRUE
       ELSE RefreshAt(i, "conflict") /\ UNCHANGED cached
    /\ UNCHANGED << history, page, click >>

(* finally. *)
RefreshOver(i) == /\ RefreshAt(i, "over")
                  /\ isRefreshingHypothesis' = FALSE

(* A mutant: the case of the hypothesis is set with it. *)
RefreshedWithCase(i) == [case |-> refresh[i].case, pins |-> history[refresh[i].case],
                         label |-> refresh[i].case]

Refreshed(i) == [shown EXCEPT !.label = refresh[i].case]

RefreshOk(i) ==
    /\ refresh[i].at = "ok"
    /\ shown' = Refreshed(i)
    /\ RefreshOver(i)
    /\ UNCHANGED << server, isMutating, click, timer, astray >>

ServeRefreshFetch(i) ==
    /\ refresh[i].at = "conflict"
    /\ refresh' = [refresh EXCEPT ![i].at = "fetched", ![i].answer = Workbench]
    /\ UNCHANGED << server, page, click >>

(* The workbench sets everything, whatever was answered in the meantime    *)
(* (crossed is a history variable: it came during the pin call).           *)
RefreshFetched(i) ==
    /\ refresh[i].at = "fetched"
    /\ shown' = refresh[i].answer
    /\ click' = [click EXCEPT !.crossed = TRUE]
    /\ astray' = FALSE
    /\ RefreshOver(i)
    /\ UNCHANGED << server, isMutating, timer >>

RefreshFails(i) ==
    /\ refresh[i].at # "over"
    /\ RefreshOver(i)
    /\ UNCHANGED << server, shown, isMutating, click, timer, astray >>

(* Another analyst pins or unpins, or changes the tag of a pin. *)
OtherPin(e, pinned) ==
    /\ Commit(e, pinned)
    /\ UNCHANGED << page, click, refresh >>

PinCall == \/ ServePin \/ PinOk \/ PinFails \/ PinConflict
           \/ ServeFetch \/ PinFetched \/ FetchFails

RefreshCall(i) == \/ ServeRefresh(i) \/ RefreshOk(i) \/ ServeRefreshFetch(i)
                  \/ RefreshFetched(i) \/ RefreshFails(i)

Next == \/ \E e \in Edges : Toggle(e)
        \/ \E e \in Edges, pinned \in BOOLEAN : OtherPin(e, pinned)
        \/ PinCall
        \/ TimerFires
        \/ \E i \in 1..Len(refresh) : RefreshCall(i)

(* The browser ends every call, with an answer or a network error, and     *)
(* runs its timers.                                                        *)
Fairness == /\ WF_vars(PinCall) /\ WF_vars(TimerFires)
            /\ \A i \in 1..MaxRefreshes : WF_vars(i <= Len(refresh) /\ RefreshCall(i))

Spec == Init /\ [][Next]_vars /\ Fairness

-----------------------------------------------------------------------------
(* Properties. *)

Stages == {"sent", "ok", "conflict", "fetched", "over"}

TypeOK ==
    /\ history \in Seq(SUBSET Edges) /\ Current \in Revisions
    /\ cached \in BOOLEAN
    /\ shown \in Snapshot /\ shown.case <= Current
    /\ isMutating \in BOOLEAN /\ (isMutating <=> click.at # "over")
    /\ click \in [at : Stages \cup {"fetch"}, edge : Edges, pinned : BOOLEAN,
                  old : Snapshot, answer : Snapshot, crossed : BOOLEAN]
    /\ timer \in Revisions \cup {None}
    /\ refresh \in Seq([at : Stages, case : Revisions, answer : Snapshot])
    /\ isRefreshingHypothesis \in BOOLEAN /\ astray \in BOOLEAN

(* However calls fail, conflict and overlap, the pins that are shown while *)
(* no pin call is under way are those of the snapshot that is shown: an    *)
(* optimistic pin never outlives its call.  The exception is a workbench   *)
(* of a refresh that arrives during a pin call that then fails: the        *)
(* rollback restores pins of the snapshot before it.                       *)
PinsOfCaseShown == isMutating \/ astray \/ shown.pins = history[shown.case]

(* The page goes back to an older snapshot only where the workbench that a *)
(* refresh fetched after a conflict crosses a pin call: it arrives after   *)
(* the answer, or the answer after it.  Neither pins and the conflicts of  *)
(* pins alone nor hypotheses, however late, take it back.                  *)
OnlyOverlapGoesBack ==
    [][shown'.case < shown.case =>
          \/ click.crossed
          \/ \E i \in 1..Len(refresh) : refresh[i].at = "fetched" /\ shown' = refresh[i].answer]_vars

(* A conflict is not met twice for the same reason: the workbench that is  *)
(* fetched after it is newer than the snapshot that was clicked on.        *)
ConflictMovesOn == [][PinFetched => shown'.case > click.old.case]_vars

(* The controls that a click disables come back on every path of the call: *)
(* accepted, refused, in conflict, with the workbench fetched or not.      *)
ControlsComeBack == isMutating ~> ~isMutating
=============================================================================
