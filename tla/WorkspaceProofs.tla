-------------------------- MODULE WorkspaceProofs --------------------------
(***************************************************************************)
(* Theorems of Workspace, for any edges, any number of snapshots and any   *)
(* number of refreshes that overlap.                                       *)
(***************************************************************************)
EXTENDS Workspace, TLAPS

(* A workbench of a snapshot that is there, and one with its very pins.    *)
Known(w) == w \in Snapshot /\ w.case <= Len(history)
Right(w) == w.pins = history[w.case]

HistoryOK == history \in Seq(SUBSET Edges) /\ Len(history) \in Revisions

Click == [at : Stages \cup {"fetch"}, edge : Edges, pinned : BOOLEAN,
          old : Snapshot, answer : Snapshot, crossed : BOOLEAN]

Refresh == [at : Stages, case : Revisions, answer : Snapshot]

(* A pin answers with the clicked snapshot or a newer one; a conflict      *)
(* means there is a newer one, which the workbench brings.                 *)
ClickOK ==
    /\ click \in Click /\ Known(click.old) /\ Known(click.answer)
    /\ click.at \in {"ok", "fetched"} => Right(click.answer)
    /\ click.at = "ok" => click.old.case <= click.answer.case
    /\ click.at \in {"conflict", "fetch"} => click.old.case < Len(history)
    /\ click.at = "fetched" => click.old.case < click.answer.case

RefreshOK ==
    /\ refresh \in Seq(Refresh)
    /\ \A i \in 1..Len(refresh) :
          /\ Known(refresh[i].answer)
          /\ refresh[i].at = "fetched" => Right(refresh[i].answer)

(* Unless a workbench crossed it, a pin call ends under the case it began  *)
(* with; the pins to roll back to are then those of that case.             *)
ShownOK ==
    /\ Known(shown)
    /\ click.at # "over" /\ ~click.crossed => shown.case = click.old.case
    /\ click.at \in {"sent", "ok", "conflict"} /\ ~click.crossed /\ ~astray => Right(click.old)
    /\ click.at \in {"fetch", "fetched", "over"} /\ ~astray => Right(shown)

RestOK == /\ cached \in BOOLEAN
          /\ isMutating \in BOOLEAN /\ (isMutating <=> click.at # "over")
          /\ timer \in Revisions \cup {None}
          /\ isRefreshingHypothesis \in BOOLEAN /\ astray \in BOOLEAN

IInv == HistoryOK /\ ClickOK /\ RefreshOK /\ ShownOK /\ RestOK

-----------------------------------------------------------------------------
(* Snapshots are only added. *)
Grows == /\ HistoryOK' /\ Len(history) <= Len(history')
         /\ \A r \in 1..Len(history) : history'[r] = history[r]

LEMMA SameGrows ==
    ASSUME HistoryOK, UNCHANGED history
    PROVE  Grows
  BY DEF HistoryOK, Grows, Revisions

LEMMA CommitGrows ==
    ASSUME HistoryOK, NEW e \in Edges, NEW pinned, Commit(e, pinned)
    PROVE  Grows /\ Len(history') \in Revisions /\ cached' \in BOOLEAN
  <1>1. history[Current] \in SUBSET Edges /\ Current = Len(history)
    BY DEF HistoryOK, Current, Revisions
  <1>2. PICK pins \in SUBSET Edges : history' = Append(history, pins)
    <2>1. Chain!Toggled(history[Len(history)], e, pinned) \in SUBSET Edges
      BY <1>1 DEF Chain!Toggled
    <2> QED BY <2>1 DEF Commit, Chain!Pin
  <1>3. /\ history' \in Seq(SUBSET Edges) /\ Len(history') = Len(history) + 1
        /\ \A r \in 1..Len(history) : history'[r] = history[r]
    BY <1>2 DEF HistoryOK
  <1>4. Len(history) < MaxRevision /\ cached' = FALSE
    BY DEF Commit, Current
  <1>5. Len(history') \in Revisions
    BY <1>3, <1>4, WorkspaceAssumption DEF HistoryOK, Revisions
  <1>6. Grows
    BY <1>3, <1>5 DEF HistoryOK, Grows, Revisions
  <1> QED BY <1>4, <1>5, <1>6

(* What is known of a workbench stays so. *)
LEMMA KnownKept ==
    ASSUME Grows, NEW w, Known(w)
    PROVE  /\ w \in Snapshot /\ w.case <= Len(history')
           /\ w.pins = history[w.case] => w.pins = history'[w.case]
  BY DEF Grows, Known, HistoryOK, Snapshot, Revisions

(* A workbench that is answered now is of the last snapshot.               *)
LEMMA WorkbenchRight ==
    ASSUME HistoryOK, cached \in BOOLEAN
    PROVE  /\ Workbench \in Snapshot /\ Workbench.case = Len(history)
           /\ Workbench.pins = history[Workbench.case]
  BY DEF HistoryOK, Workbench, Snapshot, Current, Revisions

LEMMA ToggledEdges ==
    ASSUME NEW pins \in SUBSET Edges, NEW e \in Edges, NEW pinned
    PROVE  Toggled(pins, e, pinned) \in SUBSET Edges
  BY DEF Toggled

LEMMA RefreshKept ==
    ASSUME RefreshOK, Grows, UNCHANGED refresh
    PROVE  RefreshOK'
  <1>1. ASSUME NEW i \in 1..Len(refresh)
        PROVE  /\ refresh[i].answer \in Snapshot /\ refresh[i].answer.case <= Len(history')
               /\ refresh[i].at = "fetched" =>
                     refresh[i].answer.pins = history'[refresh[i].answer.case]
    BY <1>1, KnownKept DEF RefreshOK, Right
  <1> QED BY <1>1 DEF RefreshOK, Known, Right

(* A step that leaves click and shown alone only adds snapshots.           *)
LEMMA PageKept ==
    ASSUME HistoryOK, ClickOK, ShownOK, Grows, UNCHANGED << click, shown, astray >>
    PROVE  ClickOK' /\ ShownOK'
  <1>1. /\ click.old \in Snapshot /\ click.old.case <= Len(history')
        /\ click.answer \in Snapshot /\ click.answer.case <= Len(history')
        /\ Right(click.old) => click.old.pins = history'[click.old.case]
        /\ Right(click.answer) => click.answer.pins = history'[click.answer.case]
        /\ shown \in Snapshot /\ shown.case <= Len(history')
        /\ Right(shown) => shown.pins = history'[shown.case]
    BY KnownKept DEF ClickOK, ShownOK, Right
  <1>2. Len(history) <= Len(history') /\ Len(history) \in Nat /\ Len(history') \in Nat
    BY DEF Grows, HistoryOK, ClickOK
  <1>3. click.old.case \in Nat
    BY DEF ClickOK, Known, Snapshot, Revisions
  <1>4. click.old.case < Len(history) => click.old.case < Len(history')
    BY <1>2, <1>3
  <1>5. ClickOK'
    BY <1>1, <1>4 DEF ClickOK, Known, Right
  <1>6. ShownOK'
    BY <1>1 DEF ShownOK, Known, Right
  <1> QED BY <1>5, <1>6

(* What a new pair of click and page has to fulfil.                        *)
LEMMA NewPage ==
    ASSUME HistoryOK, ClickOK, ShownOK, Grows, NEW k \in Click, NEW s \in Snapshot,
           click' = k, shown' = s,
           k.old.case <= Len(history'), k.answer.case <= Len(history'),
           s.case <= Len(history'),
           k.at \in {"ok", "fetched"} => k.answer.pins = history'[k.answer.case],
           k.at = "ok" => k.old.case <= k.answer.case,
           k.at \in {"conflict", "fetch"} => k.old.case < Len(history'),
           k.at = "fetched" => k.old.case < k.answer.case,
           k.at # "over" /\ ~k.crossed => s.case = k.old.case,
           k.at \in {"sent", "ok", "conflict"} /\ ~k.crossed /\ ~astray' =>
              k.old.pins = history'[k.old.case],
           k.at \in {"fetch", "fetched", "over"} /\ ~astray' => s.pins = history'[s.case]
    PROVE  ClickOK' /\ ShownOK'
  <1>1. ClickOK'
    BY DEF ClickOK, Known, Right, Click
  <1>2. ShownOK'
    BY DEF ShownOK, Known, Right
  <1> QED BY <1>1, <1>2

LEMMA InitInv == Init => IInv
  <1> SUFFICES ASSUME Init PROVE IInv
    OBVIOUS
  <1>1. HistoryOK /\ Len(history) = 1 /\ history[1] = {}
    BY WorkspaceAssumption DEF Init, HistoryOK, Revisions
  <1>2. Workbench \in Snapshot /\ Known(Workbench) /\ Right(Workbench)
    BY <1>1, WorkbenchRight DEF Init, Known, Right, HistoryOK, Revisions
  <1>3. shown = Workbench /\ refresh = << >> /\ ~astray
    BY DEF Init
  <1>4. (CHOOSE e \in Edges : TRUE) \in Edges
    BY WorkspaceAssumption
  <1>5. ClickOK /\ ShownOK
    <2>1. click = [at |-> "over", edge |-> CHOOSE e \in Edges : TRUE, pinned |-> FALSE,
                   old |-> shown, answer |-> shown, crossed |-> FALSE]
      BY DEF Init
    <2>2. click \in Click /\ click.at = "over" /\ click.old = shown /\ click.answer = shown
      BY <1>2, <1>3, <1>4, <2>1 DEF Click, Stages
    <2> QED BY <1>2, <1>3, <2>2 DEF ClickOK, ShownOK
  <1>6. RefreshOK
    BY <1>3 DEF RefreshOK
  <1>7. RestOK
    BY DEF Init, RestOK
  <1> QED BY <1>1, <1>5, <1>6, <1>7 DEF IInv

(* handleTogglePin up to its call. *)
LEMMA ToggleKeeps ==
    ASSUME IInv, NEW e \in Edges, Toggle(e)
    PROVE  IInv'
  <1>1. /\ click.at = "over" /\ Grows
        /\ Known(shown) /\ (~astray => Right(shown))
    BY SameGrows DEF Toggle, IInv, RestOK, ShownOK, server
  <1> DEFINE pinned == e \notin shown.pins
             s == [shown EXCEPT !.pins = Toggled(@, e, pinned)]
             k == [at |-> "sent", edge |-> e, pinned |-> pinned,
                   old |-> shown, answer |-> shown, crossed |-> FALSE]
  <1>2. shown' = s /\ click' = k /\ isMutating' = TRUE
    BY DEF Toggle
  <1>3. /\ UNCHANGED << history, cached, timer, refresh, isRefreshingHypothesis, astray >>
    BY DEF Toggle, server
  <1>4. shown \in Snapshot /\ shown.case <= Len(history')
    BY <1>1, <1>3 DEF Known
  <1>5. s \in Snapshot /\ s.case = shown.case
    BY <1>4, ToggledEdges DEF Snapshot
  <1>6. k \in Click /\ k.at = "sent" /\ k.old = shown /\ k.answer = shown /\ ~k.crossed
    BY <1>4 DEF Click, Stages
  <1>7. k.at # "over" /\ (~astray => shown.pins = history'[shown.case])
    BY <1>1, <1>3, <1>6 DEF Right
  <1> HIDE DEF s, k
  <1>8. ClickOK' /\ ShownOK'
    BY <1>1, <1>2, <1>3, <1>4, <1>5, <1>6, <1>7, NewPage DEF IInv
  <1>9. RestOK'
    BY <1>2, <1>3, <1>6 DEF RestOK, IInv
  <1> QED BY <1>1, <1>3, <1>8, <1>9, RefreshKept DEF IInv, Grows

(* The step of a pin call that only moves it on: the page stays.           *)
LEMMA ServeKeeps ==
    ASSUME IInv, ServePin \/ ServeFetch
    PROVE  IInv'
  <1>1. UNCHANGED << shown, isMutating, timer, isRefreshingHypothesis, astray, refresh >>
    BY DEF ServePin, ServeFetch, page
  <1>2. ASSUME NEW k \in Click, click' = k, Grows, k.at # "over", click.at # "over",
               cached' \in BOOLEAN, ClickOK' /\ ShownOK'
        PROVE  IInv'
    <2>1. RestOK'
      BY <1>1, <1>2 DEF RestOK, IInv
    <2> QED BY <1>1, <1>2, <2>1, RefreshKept DEF IInv, Grows
  <1>3. /\ click \in Click /\ click.old \in Snapshot /\ click.old.case <= Len(history)
        /\ click.answer \in Snapshot /\ click.answer.case <= Len(history)
        /\ shown \in Snapshot /\ shown.case <= Len(history)
        /\ HistoryOK /\ ClickOK /\ ShownOK /\ cached \in BOOLEAN
    BY DEF IInv, ClickOK, ShownOK, Known, RestOK
  <1>4. CASE ServePin
    <2>1. click.at = "sent"
      BY <1>4 DEF ServePin
    <2>2. /\ ~click.crossed => shown.case = click.old.case
          /\ ~click.crossed /\ ~astray => Right(click.old)
      BY <1>3, <2>1 DEF ShownOK
    <2>3. CASE /\ click.old.case # Current
               /\ click' = [click EXCEPT !.at = "conflict"]
               /\ UNCHANGED server
      <3> DEFINE k == [click EXCEPT !.at = "conflict"]
      <3>1. /\ k \in Click /\ k.at = "conflict" /\ k.old = click.old
            /\ k.answer = click.answer /\ k.crossed = click.crossed
        BY <1>3 DEF Click, Stages
      <3> HIDE DEF k
      <3>2. UNCHANGED << history, cached >> /\ click' = k /\ Grows
        BY <1>3, <2>3, SameGrows DEF server, k
      <3>3. k.old.case < Len(history')
        BY <1>3, <2>3, <3>1, <3>2 DEF Current, HistoryOK, Revisions, Snapshot
      <3>4. ClickOK' /\ ShownOK'
        BY <1>1, <1>3, <2>2, <3>1, <3>2, <3>3, NewPage DEF Right
      <3> QED BY <1>2, <1>3, <2>1, <3>1, <3>2, <3>4
    <2>4. ASSUME click.old.case = Current,
                 UNCHANGED server \/ Commit(click.edge, click.pinned),
                 click' = [click EXCEPT !.at = "ok",
                                        !.answer = [case |-> Len(history'),
                                                    pins |-> history'[Len(history')],
                                                    label |-> None]]
          PROVE  IInv'
      <3> DEFINE pins == history'[Len(history')]
                 a == [case |-> Len(history'), pins |-> pins, label |-> None]
                 k == [click EXCEPT !.at = "ok", !.answer = a]
      <3>1. Grows /\ Len(history') \in Revisions /\ cached' \in BOOLEAN
        <4>1. CASE UNCHANGED server
          BY <1>3, <4>1, SameGrows DEF server, HistoryOK
        <4>2. CASE Commit(click.edge, click.pinned)
          BY <1>3, <4>2, CommitGrows DEF Click
        <4> QED BY <2>4, <4>1, <4>2
      <3>2. pins \in SUBSET Edges /\ Len(history) <= Len(history')
        BY <3>1 DEF Grows, HistoryOK, Revisions
      <3> HIDE DEF pins
      <3>4. a \in Snapshot /\ a.case = Len(history') /\ a.pins = pins
        BY <3>1, <3>2 DEF Snapshot
      <3> HIDE DEF a
      <3>5. /\ k \in Click /\ k.at = "ok" /\ k.old = click.old
            /\ k.answer = a /\ k.crossed = click.crossed /\ click' = k
        BY <1>3, <2>4, <3>4 DEF Click, Stages, a, pins
      <3> HIDE DEF k
      <3>6. /\ shown.case <= Len(history') /\ click.old.case <= Len(history')
            /\ click.old.case <= a.case
        BY <1>3, <2>4, <3>2, <3>4 DEF HistoryOK, Revisions, Snapshot, Current
      <3>7. Right(click.old) => click.old.pins = history'[click.old.case]
        BY <1>3, <3>1, KnownKept DEF Known, Right
      <3>8. ClickOK' /\ ShownOK'
        BY <1>1, <1>3, <2>2, <3>1, <3>4, <3>5, <3>6, <3>7, NewPage DEF pins
      <3> QED BY <1>2, <2>1, <3>1, <3>5, <3>8
    <2> QED BY <1>4, <2>3, <2>4 DEF ServePin
  <1>5. CASE ServeFetch
    <2> DEFINE w == Workbench
               k == [click EXCEPT !.at = "fetched", !.answer = w]
    <2>1. /\ click.at = "fetch" /\ click' = k /\ UNCHANGED << history, cached >> /\ Grows
      BY <1>3, <1>5, SameGrows DEF ServeFetch, Fetched, server
    <2>2. w \in Snapshot /\ w.case = Len(history) /\ w.pins = history[w.case]
      BY <1>3, WorkbenchRight
    <2> HIDE DEF w
    <2>3. /\ k \in Click /\ k.at = "fetched" /\ k.old = click.old
          /\ k.answer = w /\ k.crossed = click.crossed
      BY <1>3, <2>2 DEF Click, Stages
    <2> HIDE DEF k
    <2>4. /\ click.old.case < w.case /\ w.case <= Len(history')
          /\ ~click.crossed => shown.case = click.old.case
          /\ ~astray => Right(shown)
      BY <1>3, <2>1, <2>2 DEF ClickOK, ShownOK, HistoryOK, Revisions
    <2>5. ClickOK' /\ ShownOK'
      BY <1>1, <1>3, <2>1, <2>2, <2>3, <2>4, NewPage DEF Right
    <2> QED BY <1>2, <1>3, <2>1, <2>3, <2>5
  <1> QED BY <1>4, <1>5

(* A step of a pin call that changes what the page shows or ends the call. *)
LEMMA AnswerKeeps ==
    ASSUME IInv, PinOk \/ PinFails \/ PinConflict \/ PinFetched \/ FetchFails
    PROVE  /\ IInv'
           /\ shown'.case < shown.case => click.crossed
           /\ PinFetched => shown'.case > click.old.case
  <1>1. UNCHANGED << history, cached, refresh >>
    BY DEF PinOk, PinFails, PinConflict, PinFetched, FetchFails, server
  <1>2. /\ click \in Click /\ click.old \in Snapshot /\ click.old.case <= Len(history)
        /\ click.answer \in Snapshot /\ click.answer.case <= Len(history)
        /\ shown \in Snapshot /\ shown.case <= Len(history)
        /\ HistoryOK /\ ClickOK /\ ShownOK /\ astray \in BOOLEAN
        /\ cached \in BOOLEAN /\ Len(history) \in Nat
    BY DEF IInv, ClickOK, ShownOK, Known, RestOK, HistoryOK, Revisions
  <1>3. Grows
    BY <1>1, <1>2, SameGrows
  <1>4. shown.case \in Nat /\ click.old.case \in Nat /\ click.answer.case \in Nat
    BY <1>2 DEF Snapshot, Revisions
  <1>5. ASSUME ClickOK', ShownOK', isMutating' \in BOOLEAN, isMutating' <=> click'.at # "over",
               timer' \in Revisions \cup {None}, isRefreshingHypothesis' \in BOOLEAN,
               astray' \in BOOLEAN
        PROVE  IInv'
    <2>1. RestOK'
      BY <1>1, <1>2, <1>5 DEF RestOK
    <2> QED BY <1>1, <1>3, <1>5, <2>1, RefreshKept DEF IInv, Grows
  <1>6. PICK over : over = [click EXCEPT !.at = "over"]
    OBVIOUS
  <1>7. /\ over \in Click /\ over.at = "over" /\ over.old = click.old /\ over.answer = click.answer
    BY <1>2, <1>6 DEF Click, Stages
  <1>8. ASSUME PinOk \/ PinFetched
        PROVE  /\ IInv' /\ shown'.case = click.answer.case
    <2> DEFINE s == [click.answer EXCEPT !.label = shown.label]
    <2>1. shown' = s /\ click' = over /\ isMutating' = FALSE /\ astray' = FALSE
      BY <1>6, <1>8 DEF PinOk, PinFetched, MutationOver
    <2>2. s \in Snapshot /\ s.case = click.answer.case /\ s.pins = click.answer.pins
      BY <1>2 DEF Snapshot
    <2>3. click.answer.pins = history[click.answer.case]
      BY <1>2, <1>8 DEF PinOk, PinFetched, ClickOK, Right
    <2>4. /\ timer' \in Revisions \cup {None} /\ isRefreshingHypothesis' \in BOOLEAN
      BY <1>2, <1>8 DEF PinOk, PinFetched, IInv, RestOK, Snapshot
    <2> HIDE DEF s
    <2>5. ClickOK' /\ ShownOK'
      BY <1>1, <1>2, <1>3, <1>7, <2>1, <2>2, <2>3, NewPage
    <2>6. isMutating' \in BOOLEAN /\ astray' \in BOOLEAN /\ (isMutating' <=> click'.at # "over")
      BY <1>7, <2>1
    <2> QED BY <1>5, <2>1, <2>2, <2>4, <2>5, <2>6
  <1>9. ASSUME RollBack, click.at \in {"sent", "ok", "conflict"},
               UNCHANGED << timer, isRefreshingHypothesis >>,
               NEW k \in Click, click' = k, k.at \in {"over", "fetch"},
               k.old = click.old, k.answer = click.answer, k.crossed = click.crossed,
               k.at = "fetch" => click.at = "conflict",
               isMutating' \in BOOLEAN, isMutating' <=> k.at # "over"
        PROVE  IInv' /\ shown'.case = shown.case
    <2> DEFINE s == [shown EXCEPT !.pins = click.old.pins]
    <2>1. shown' = s /\ astray' = (astray \/ click.crossed)
      BY <1>9 DEF RollBack, RolledBack
    <2>2. s \in Snapshot /\ s.case = shown.case /\ s.pins = click.old.pins
      BY <1>2 DEF Snapshot
    <2>3. /\ ~click.crossed => shown.case = click.old.case
          /\ ~click.crossed /\ ~astray => click.old.pins = history[click.old.case]
      BY <1>2, <1>9 DEF ShownOK, Right
    <2>4. k.at = "fetch" => click.old.case < Len(history)
      BY <1>2, <1>9 DEF ClickOK
    <2>5. astray' \in BOOLEAN /\ (~astray' => ~astray /\ ~click.crossed)
      BY <2>1
    <2> HIDE DEF s
    <2>6. ~astray' => s.pins = history'[s.case]
      BY <1>1, <2>2, <2>3, <2>5
    <2>7. ~k.crossed => s.case = k.old.case
      BY <1>9, <2>2, <2>3
    <2>8. ClickOK' /\ ShownOK'
      BY <1>1, <1>2, <1>3, <1>9, <2>1, <2>2, <2>4, <2>6, <2>7, NewPage
    <2> QED BY <1>5, <1>9, <2>1, <2>2, <2>5, <2>8 DEF IInv, RestOK
  <1>10. CASE PinOk
    <2>1. click.at = "ok" /\ click.old.case <= click.answer.case
      BY <1>2, <1>10 DEF PinOk, ClickOK
    <2>2. ~click.crossed => shown.case = click.old.case
      BY <1>2, <2>1 DEF ShownOK
    <2>3. ~PinFetched
      BY <2>1 DEF PinFetched
    <2>4. IInv' /\ shown'.case = click.answer.case
      BY <1>8, <1>10
    <2>5. shown'.case < shown.case => click.crossed
      BY <1>4, <2>1, <2>2, <2>4
    <2> QED BY <2>3, <2>4, <2>5
  <1>11. CASE PinFetched
    <2>1. click.at = "fetched" /\ click.old.case < click.answer.case
      BY <1>2, <1>11 DEF PinFetched, ClickOK
    <2>2. ~click.crossed => shown.case = click.old.case
      BY <1>2, <2>1 DEF ShownOK
    <2> QED BY <1>4, <1>8, <1>11, <2>1, <2>2
  <1>12. CASE PinFails
    <2>1. click' = over /\ isMutating' = FALSE /\ over.crossed = click.crossed
      BY <1>2, <1>6, <1>12 DEF PinFails, MutationOver, Click
    <2>2. IInv' /\ shown'.case = shown.case
      BY <1>7, <1>9, <1>12, <2>1 DEF PinFails
    <2> QED BY <1>4, <1>12, <2>2 DEF PinFails, PinFetched
  <1>13. CASE PinConflict
    <2> DEFINE k == [click EXCEPT !.at = "fetch"]
    <2>1. click' = k /\ isMutating' = isMutating /\ click.at = "conflict"
      BY <1>13 DEF PinConflict
    <2>2. /\ k \in Click /\ k.at = "fetch" /\ k.old = click.old /\ k.answer = click.answer
          /\ k.crossed = click.crossed
      BY <1>2 DEF Click
    <2> HIDE DEF k
    <2>3. isMutating' \in BOOLEAN /\ (isMutating' <=> k.at # "over")
      BY <2>1, <2>2 DEF IInv, RestOK
    <2>4. IInv' /\ shown'.case = shown.case
      BY <1>9, <1>13, <2>1, <2>2, <2>3 DEF PinConflict
    <2> QED BY <1>4, <1>13, <2>1, <2>4 DEF PinFetched
  <1>14. CASE FetchFails
    <2>1. /\ click' = over /\ isMutating' = FALSE
          /\ UNCHANGED << shown, timer, isRefreshingHypothesis, astray >>
      BY <1>6, <1>14 DEF FetchFails, MutationOver
    <2>2. ~astray => shown.pins = history[shown.case]
      BY <1>2, <1>14 DEF FetchFails, ShownOK, Right
    <2>3. ClickOK' /\ ShownOK'
      BY <1>1, <1>2, <1>3, <1>7, <2>1, <2>2, NewPage
    <2>4. isMutating' \in BOOLEAN /\ (isMutating' <=> click'.at # "over")
      BY <1>7, <2>1
    <2>5. IInv'
      BY <1>5, <2>1, <2>3, <2>4 DEF IInv, RestOK
    <2>6. PinFetched => shown'.case > click.old.case
      BY <1>11
    <2> QED BY <1>4, <2>1, <2>5, <2>6
  <1> QED BY <1>10, <1>11, <1>12, <1>13, <1>14

(* The refresh calls. *)
LEMMA RefreshSet ==
    ASSUME HistoryOK, RefreshOK, Grows, NEW i \in 1..Len(refresh), NEW r \in Refresh,
           refresh' = [refresh EXCEPT ![i] = r], r.answer.case <= Len(history'),
           r.at = "fetched" => r.answer.pins = history'[r.answer.case]
    PROVE  RefreshOK'
  <1>1. refresh' \in Seq(Refresh) /\ Len(refresh') = Len(refresh) /\ refresh'[i] = r
        /\ \A j \in 1..Len(refresh) : j # i => refresh'[j] = refresh[j]
    BY DEF RefreshOK
  <1>2. r.answer \in Snapshot
    BY DEF Refresh
  <1>3. ASSUME NEW j \in 1..Len(refresh'), NEW q, q = refresh'[j]
        PROVE  /\ q.answer \in Snapshot /\ q.answer.case <= Len(history')
               /\ q.at = "fetched" => q.answer.pins = history'[q.answer.case]
    <2>1. CASE j = i
      BY <1>1, <1>2, <1>3, <2>1
    <2>2. CASE j # i
      <3>1. q = refresh[j] /\ j \in 1..Len(refresh)
        BY <1>1, <1>3, <2>2
      <3>2. Known(q.answer) /\ (q.at = "fetched" => Right(q.answer))
        BY <3>1 DEF RefreshOK
      <3> QED BY <3>2, KnownKept DEF Right
    <2> QED BY <2>1, <2>2
  <1> QED BY <1>1, <1>3 DEF RefreshOK, Known, Right

LEMMA RefreshKeeps ==
    ASSUME IInv, NEW i \in 1..Len(refresh), RefreshCall(i)
    PROVE  /\ IInv'
           /\ shown'.case < shown.case => refresh[i].at = "fetched" /\ shown' = refresh[i].answer
  <1>1. /\ Grows /\ UNCHANGED << history, isMutating, timer >>
        /\ isRefreshingHypothesis' \in BOOLEAN /\ cached' \in BOOLEAN
    <2>1. UNCHANGED << history, isMutating, timer >>
      BY DEF RefreshCall, ServeRefresh, RefreshOk, ServeRefreshFetch, RefreshFetched,
             RefreshFails, server, page
    <2>2. cached' \in BOOLEAN
      BY DEF RefreshCall, ServeRefresh, RefreshOk, ServeRefreshFetch, RefreshFetched,
             RefreshFails, server, IInv, RestOK
    <2>3. isRefreshingHypothesis' \in BOOLEAN
      BY DEF RefreshCall, ServeRefresh, RefreshOk, ServeRefreshFetch, RefreshFetched,
             RefreshFails, RefreshOver, page, IInv, RestOK
    <2> QED BY <2>1, <2>2, <2>3, SameGrows DEF IInv
  <1>2. PICK q : q = refresh[i]
    OBVIOUS
  <1>3. /\ q \in Refresh /\ q.at \in Stages /\ q.case \in Revisions
        /\ q.answer \in Snapshot /\ q.answer.case <= Len(history)
        /\ q.at = "fetched" => q.answer.pins = history[q.answer.case]
        /\ refresh \in Seq(Refresh)
    <2>1. refresh \in Seq(Refresh) /\ q \in Refresh
      BY <1>2 DEF IInv, RefreshOK
    <2>2. Known(q.answer) /\ (q.at = "fetched" => Right(q.answer))
      BY <1>2 DEF IInv, RefreshOK
    <2> QED BY <2>1, <2>2 DEF Known, Right, Refresh
  <1>4. /\ click \in Click /\ click.old \in Snapshot /\ click.old.case <= Len(history)
        /\ click.answer \in Snapshot /\ click.answer.case <= Len(history)
        /\ shown \in Snapshot /\ shown.case <= Len(history) /\ shown.case \in Nat
        /\ HistoryOK /\ ClickOK /\ ShownOK /\ RefreshOK
    BY DEF IInv, ClickOK, ShownOK, Known, Snapshot, Revisions
  <1>5. ASSUME NEW where \in Stages, RefreshAt(i, where), where # "fetched" PROVE RefreshOK'
    <2> DEFINE r == [q EXCEPT !.at = where]
    <2>1. r \in Refresh /\ r.at = where /\ r.answer = q.answer
      BY <1>3 DEF Refresh
    <2>2. refresh' = [refresh EXCEPT ![i] = r]
      BY <1>2, <1>3, <1>5 DEF RefreshAt
    <2> HIDE DEF r
    <2> QED BY <1>1, <1>3, <1>4, <1>5, <2>1, <2>2, RefreshSet
  <1>6. ASSUME ClickOK', ShownOK', RefreshOK', click'.at = click.at, astray' \in BOOLEAN PROVE IInv'
    <2>1. RestOK'
      BY <1>1, <1>6 DEF IInv, RestOK
    <2> QED BY <1>1, <1>6, <2>1 DEF IInv, Grows
  <1>7. CASE ServeRefresh(i) \/ RefreshFails(i)
    <2>1. UNCHANGED << click, shown, astray >>
      BY <1>7 DEF ServeRefresh, RefreshFails, page
    <2>2. RefreshOK'
      BY <1>5, <1>7 DEF ServeRefresh, RefreshFails, RefreshOver, Stages
    <2>3. astray' \in BOOLEAN
      BY <2>1 DEF IInv, RestOK
    <2> QED BY <1>1, <1>4, <1>6, <2>1, <2>2, <2>3, PageKept
  <1>8. CASE ServeRefreshFetch(i)
    <2> DEFINE r == [q EXCEPT !.at = "fetched", !.answer = Workbench]
    <2>1. UNCHANGED << click, shown, astray >> /\ refresh' = [refresh EXCEPT ![i] = r]
      BY <1>2, <1>3, <1>8 DEF ServeRefreshFetch, page
    <2>2. /\ Workbench \in Snapshot /\ Workbench.case = Len(history)
          /\ Workbench.pins = history[Workbench.case]
      BY WorkbenchRight DEF IInv, RestOK
    <2>3. PICK w : w = Workbench
      OBVIOUS
    <2>4. r \in Refresh /\ r.answer = w
      BY <1>3, <2>2, <2>3 DEF Refresh, Stages
    <2> HIDE DEF r
    <2>5. w.case <= Len(history') /\ w.pins = history'[w.case]
      BY <1>1, <1>4, <2>2, <2>3 DEF HistoryOK, Revisions
    <2>6. RefreshOK'
      BY <1>1, <1>4, <2>1, <2>4, <2>5, RefreshSet
    <2>7. astray' \in BOOLEAN
      BY <2>1 DEF IInv, RestOK
    <2> QED BY <1>1, <1>4, <1>6, <2>1, <2>6, <2>7, PageKept
  <1>9. CASE RefreshOk(i)
    <2> DEFINE s == [shown EXCEPT !.label = q.case]
    <2>1. shown' = s /\ UNCHANGED << click, astray >>
      BY <1>2, <1>9 DEF RefreshOk, Refreshed
    <2>2. s \in Snapshot /\ s.case = shown.case /\ s.pins = shown.pins
      BY <1>3, <1>4 DEF Snapshot
    <2> HIDE DEF s
    <2>3. RefreshOK'
      BY <1>5, <1>9 DEF RefreshOk, RefreshOver, Stages
    <2>4. astray' \in BOOLEAN
      BY <2>1 DEF IInv, RestOK
    <2>5. ClickOK' /\ ShownOK'
      BY <1>1, <1>4, <2>1, <2>2, NewPage DEF ClickOK, ShownOK, Right
    <2> QED BY <1>4, <1>6, <2>1, <2>2, <2>3, <2>4, <2>5
  <1>10. CASE RefreshFetched(i)
    <2> DEFINE k == [click EXCEPT !.crossed = TRUE]
    <2>1. /\ shown' = q.answer /\ click' = k /\ astray' = FALSE /\ q.at = "fetched"
      BY <1>2, <1>10 DEF RefreshFetched
    <2>2. k \in Click /\ k.at = click.at /\ k.old = click.old /\ k.answer = click.answer /\ k.crossed
      BY <1>4 DEF Click
    <2> HIDE DEF k
    <2>3. RefreshOK'
      BY <1>5, <1>10 DEF RefreshFetched, RefreshOver, Stages
    <2>4. ClickOK' /\ ShownOK'
      BY <1>1, <1>3, <1>4, <2>1, <2>2, NewPage DEF ClickOK, Right
    <2> QED BY <1>2, <1>6, <2>1, <2>2, <2>3, <2>4
  <1> QED BY <1>7, <1>8, <1>9, <1>10 DEF RefreshCall

LEMMA RemainingKeeps ==
    ASSUME IInv, \/ TimerFires
                 \/ \E e \in Edges, pinned \in BOOLEAN : OtherPin(e, pinned)
                 \/ UNCHANGED vars
    PROVE  IInv' /\ shown' = shown
  <1>1. UNCHANGED << click, shown, astray, isMutating, isRefreshingHypothesis >>
    BY DEF TimerFires, OtherPin, page, vars
  <1>2. ASSUME Grows, RefreshOK', cached' \in BOOLEAN, timer' \in Revisions \cup {None} PROVE IInv'
    <2>1. RestOK'
      BY <1>1, <1>2 DEF IInv, RestOK
    <2>2. ClickOK' /\ ShownOK'
      BY <1>1, <1>2, PageKept DEF IInv
    <2> QED BY <1>2, <2>1, <2>2 DEF IInv, Grows
  <1>3. CASE TimerFires
    <2> DEFINE r == [at |-> "sent", case |-> timer, answer |-> shown]
    <2>1. /\ refresh' = Append(refresh, r) /\ timer' = None /\ timer # None
          /\ UNCHANGED << history, cached >>
      BY <1>3 DEF TimerFires, server
    <2>2. /\ r \in Refresh /\ r.at = "sent" /\ r.answer = shown /\ shown \in Snapshot
          /\ shown.case <= Len(history)
      BY <2>1 DEF IInv, RestOK, ShownOK, Known, Refresh, Stages
    <2> HIDE DEF r
    <2>3. RefreshOK'
      <3>1. refresh' \in Seq(Refresh) /\ Len(refresh') = Len(refresh) + 1
            /\ refresh'[Len(refresh')] = r
            /\ \A j \in 1..Len(refresh) : refresh'[j] = refresh[j]
        BY <2>1, <2>2 DEF IInv, RefreshOK
      <3>2. ASSUME NEW j \in 1..Len(refresh'), NEW q, q = refresh'[j]
            PROVE  /\ q.answer \in Snapshot /\ q.answer.case <= Len(history)
                   /\ q.at = "fetched" => q.answer.pins = history[q.answer.case]
        BY <2>2, <3>1, <3>2 DEF IInv, RefreshOK, Known, Right
      <3> QED BY <2>1, <3>1, <3>2 DEF RefreshOK, Known, Right
    <2> QED BY <1>1, <1>2, <2>1, <2>3, SameGrows DEF IInv, RestOK
  <1>4. ASSUME NEW e \in Edges, NEW pinned \in BOOLEAN, OtherPin(e, pinned) PROVE IInv'
    <2>1. Commit(e, pinned) /\ UNCHANGED << timer, refresh >>
      BY <1>4 DEF OtherPin, page
    <2>2. Grows /\ cached' \in BOOLEAN
      BY <2>1, CommitGrows DEF IInv
    <2> QED BY <1>2, <2>1, <2>2, RefreshKept DEF IInv, RestOK
  <1>5. CASE UNCHANGED vars
    BY <1>2, <1>5, SameGrows, RefreshKept DEF vars, server, page, IInv, RestOK
  <1> QED BY <1>1, <1>3, <1>4, <1>5

-----------------------------------------------------------------------------
GoesBack == \/ click.crossed
            \/ \E i \in 1..Len(refresh) : refresh[i].at = "fetched" /\ shown' = refresh[i].answer

(* Every step keeps the invariant, and says how it moves the page.         *)
LEMMA NextInv ==
    ASSUME IInv, [Next]_vars
    PROVE  /\ IInv'
           /\ shown'.case < shown.case => GoesBack
           /\ PinFetched => shown'.case > click.old.case
  <1>1. shown.case \in Nat
    BY DEF IInv, ShownOK, Known, Snapshot, Revisions
  <1>2. ASSUME PinFetched
        PROVE  IInv' /\ shown'.case > click.old.case /\ (shown'.case < shown.case => GoesBack)
    BY <1>2, AnswerKeeps DEF GoesBack
  <1>3. ASSUME NEW e \in Edges, Toggle(e) PROVE IInv' /\ shown'.case = shown.case
    BY <1>3, ToggleKeeps DEF Toggle, IInv, ShownOK, Known, Snapshot
  <1>4. ASSUME ServePin \/ ServeFetch PROVE IInv' /\ shown' = shown
    BY <1>4, ServeKeeps DEF ServePin, ServeFetch, page
  <1>5. ASSUME PinOk \/ PinFails \/ PinConflict \/ FetchFails
        PROVE  IInv' /\ (shown'.case < shown.case => GoesBack)
    BY <1>5, AnswerKeeps DEF GoesBack
  <1>6. ASSUME NEW i \in 1..Len(refresh), RefreshCall(i)
        PROVE  IInv' /\ (shown'.case < shown.case => GoesBack)
    BY <1>6, RefreshKeeps DEF GoesBack
  <1>7. ASSUME \/ TimerFires
               \/ \E e \in Edges, pinned \in BOOLEAN : OtherPin(e, pinned)
               \/ UNCHANGED vars
        PROVE  IInv' /\ shown' = shown
    BY <1>7, RemainingKeeps
  <1>8. IInv' /\ (shown'.case < shown.case => GoesBack)
    BY <1>1, <1>2, <1>3, <1>4, <1>5, <1>6, <1>7 DEF Next, PinCall
  <1> QED BY <1>2, <1>8

THEOREM PageInvariant == Spec => []IInv
  <1>1. IInv /\ [Next]_vars => IInv'
    BY NextInv
  <1> QED BY <1>1, InitInv, PTL DEF Spec

(* Every variable of the page and of its calls has its type.               *)
THEOREM PageTypes == Spec => []TypeOK
  <1>1. IInv => TypeOK
    BY DEF IInv, HistoryOK, ClickOK, RefreshOK, ShownOK, RestOK, Known, Click, Refresh,
           TypeOK, Current
  <1> QED BY <1>1, PageInvariant, PTL

(* handleTogglePin, however its call ends, leaves no pin on the page that  *)
(* the shown snapshot does not have, unless a workbench crossed the call.  *)
THEOREM PagePins == Spec => []PinsOfCaseShown
  <1>1. IInv => PinsOfCaseShown
    BY DEF IInv, ClickOK, Click, Stages, ShownOK, RestOK, Right, PinsOfCaseShown
  <1> QED BY <1>1, PageInvariant, PTL

(* setCurrentCase goes back only by a workbench that crosses a pin call.   *)
THEOREM PageGoesForward == Spec => OnlyOverlapGoesBack
  <1>1. IInv /\ [Next]_vars => [shown'.case < shown.case => GoesBack]_vars
    BY NextInv
  <1> QED BY <1>1, PageInvariant, PTL DEF Spec, OnlyOverlapGoesBack, GoesBack

(* The workbench that handleTogglePin fetches on a conflict is newer.      *)
THEOREM PageConflict == Spec => ConflictMovesOn
  <1>1. IInv /\ [Next]_vars => [PinFetched => shown'.case > click.old.case]_vars
    BY NextInv
  <1> QED BY <1>1, PageInvariant, PTL DEF Spec, ConflictMovesOn

=============================================================================
