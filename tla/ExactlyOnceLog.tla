--------------------------- MODULE ExactlyOnceLog ---------------------------
(***************************************************************************)
(* What the streaming replay of fincrime promises to the scoring and case  *)
(* services downstream, with no mention of batches, offsets, quarantine or *)
(* crashes: each topic-partition has a log of applied events; a log only   *)
(* ever grows at its end, and no event id is ever applied twice, in the    *)
(* same partition or in two of them.                                       *)
(***************************************************************************)
EXTENDS Integers, Sequences

CONSTANTS Keys,      \* topic-partitions, the keys of partition_offsets
          EventIds   \* event identifiers

VARIABLE log         \* log[k]: the event ids applied from k, in order

TypeOK == log \in [Keys -> Seq(EventIds)]

Init == log = [k \in Keys |-> << >>]

(* Every position of every log holds an event id of its own. *)
AtMostOnce(l) ==
    \A k1, k2 \in Keys : \A i \in 1..Len(l[k1]), j \in 1..Len(l[k2]) :
        l[k1][i] = l[k2][j] => k1 = k2 /\ i = j

(* l2 continues l1: nothing that was applied is removed or reordered. *)
Continues(l1, l2) ==
    \A k \in Keys : /\ Len(l1[k]) <= Len(l2[k])
                    /\ \A i \in 1..Len(l1[k]) : l2[k][i] = l1[k][i]

(* One replayed batch becomes visible as one step. *)
Advance == /\ log' \in [Keys -> Seq(EventIds)]
           /\ Continues(log, log')
           /\ AtMostOnce(log')

Spec == Init /\ [][Advance]_log
=============================================================================
