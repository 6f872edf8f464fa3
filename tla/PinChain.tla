------------------------------ MODULE PinChain ------------------------------
(***************************************************************************)
(* What pinning promises the page of an investigator, with no mention of   *)
(* tables, hashes, evidence, tags or transactions: the snapshots of a case *)
(* are one chain that only grows at its end, each has the edges that are   *)
(* pinned in it, and a pin adds one snapshot, made from the last one by    *)
(* one edge.  A pin that changes only the tag of its edge adds a snapshot  *)
(* with the same edges.                                                    *)
(***************************************************************************)
EXTENDS Integers, Sequences

CONSTANT Edges    \* the edges of the case

VARIABLE history  \* history[r]: the edges pinned in the r-th snapshot

(* The case is not there yet, or was just made. *)
Init == history \in {<< >>, << {} >>}

Create == history = << >> /\ history' = << {} >>

Toggled(pins, e, pinned) == IF pinned THEN pins \cup {e} ELSE pins \ {e}

Pin(e, pinned) ==
    /\ history # << >>
    /\ history' = Append(history, Toggled(history[Len(history)], e, pinned))

Next == Create \/ \E e \in Edges, pinned \in BOOLEAN : Pin(e, pinned)

Spec == Init /\ [][Next]_history
=============================================================================
