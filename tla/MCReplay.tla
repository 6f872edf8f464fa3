------------------------------ MODULE MCReplay ------------------------------
(***************************************************************************)
(* Replay on two partitions.  Partition p0 holds two good records and a    *)
(* third that reuses the first one's event id; p1 holds a good record, its *)
(* redelivery with another payload, a malformed record and a good record   *)
(* behind it.                                                              *)
(***************************************************************************)
EXTENDS Replay

Rec(k, o, e, h, v) ==
    [key |-> k, offset |-> o, eid |-> e, hash |-> h, valid |-> v]

MCKeys     == {"p0", "p1"}
MCEventIds == {"e0", "e1", "e2", "e3"}
MCHashes   == {"h", "g"}

P0First    == Rec("p0", 0, "e0", "h", TRUE)
P0Second   == Rec("p0", 1, "e1", "h", TRUE)
P0Reused   == Rec("p0", 2, "e0", "h", TRUE)
P1First    == Rec("p1", 0, "e2", "h", TRUE)
P1Changed  == Rec("p1", 0, "e2", "g", TRUE)
P1Poison   == Rec("p1", 1, "e3", "h", FALSE)
P1Behind   == Rec("p1", 2, "e3", "h", TRUE)

MCRecords == {P0First, P0Second, P0Reused, P1First, P1Changed, P1Poison,
              P1Behind}

(* Any delivery of up to three records: repeated, reordered, with gaps.    *)
MCBatches == UNION {[1..n -> MCRecords] : n \in 1..3}

(* What a broker that was told of no progress redelivers: both partitions  *)
(* from their start.                                                       *)
LiveBatches == {<< P1First, P0First, P1Poison, P1Behind, P0Second >>,
                << P0First, P0Second, P1First, P1Poison, P1Behind >>}

(* Two deliveries of any kind, and then two from the start of the          *)
(* partitions, of which a crash can lose one.                              *)
MCDeliveries == << MCBatches, MCBatches, LiveBatches, LiveBatches >>

(* The records of a partition before its first malformed one.              *)
GoodPrefix == [k \in MCKeys |-> IF k = "p0" THEN 2 ELSE 1]

(* A poison message in one partition holds up that partition only, and     *)
(* nothing delivered before spoils what comes after: once the consumer     *)
(* stops crashing, each partition ends with all the records before its     *)
(* first malformed one applied, stored and committed (the                  *)
(* halted_partitions set of replay_records).  A first record that was      *)
(* applied with another payload than the broker repeats is a conflict that *)
(* ends every batch with it, for all partitions.                           *)
IsolatedProgress ==
    <>[](\/ saved.offsets = GoodPrefix /\ committed = GoodPrefix
         \/ IsExact(saved, P1Changed))
=============================================================================
