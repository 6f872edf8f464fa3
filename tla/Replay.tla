------------------------------- MODULE Replay -------------------------------
(***************************************************************************)
(* Streaming replay: ReplayState (src/src/fincrime/streaming/state.py) and *)
(* replay_records (src/src/fincrime/streaming/replay.py), with the         *)
(* durable quarantine store, driven by a consumer that may crash, get      *)
(* records again, out of order or with gaps, and that stores the returned  *)
(* state and then commits the returned offsets.                            *)
(*                                                                         *)
(* replay_records is a loop over one batch, so its locals are variables of *)
(* the model and each loop iteration is an action: a crash can fall        *)
(* between any two of them, after some quarantine rows are on disk.        *)
(***************************************************************************)
EXTENDS Integers, Sequences, FiniteSets

CONSTANTS
    Keys,        \* (topic, partition) pairs
    EventIds,    \* event ids of the transaction envelopes
    Hashes,      \* canonical hashes of the envelopes
    Records,     \* the broker records that can be delivered
    Batches,     \* the n-th batch the consumer is handed is one of Batches[n]
    MaxCrashes   \* bound on the crashes of one behaviour

(***************************************************************************)
(* A broker record.  `valid' is the verdict of Step 1: the payload parses  *)
(* as a TransactionEnvelope and its source coordinates are the record's;   *)
(* eid and hash are the event id and the canonical hash of that envelope.  *)
(***************************************************************************)
RecordType == [key : Keys, offset : Nat, eid : EventIds, hash : Hashes,
               valid : BOOLEAN]

ASSUME RecordsAssumption == Records \subseteq RecordType
ASSUME BatchesAssumption == Batches \in Seq(SUBSET Seq(Records))
ASSUME BoundsAssumption == MaxCrashes \in Nat

Reasons == {"INVALID_SCHEMA", "NON_CONTIGUOUS_OFFSET"}

VARIABLES
    saved,       \* the ReplayState the consumer has stored durably
    committed,   \* committed[k]: the offset committed to the broker for k
    quarantine,  \* quarantine[k]: the rows of k's JSONL file
    batches,     \* how many batches were handed out, at most Len(Batches)
    crashes,     \* how many times the consumer died (bounded)
    pc,          \* "idle", "replaying", "returned" or "saved"
    pending,     \* the records of the batch not yet looked at
    state,       \* replay_records: the local `state'
    committable, \* replay_records: the local dict `committable'
    halted       \* replay_records: the local set `halted_partitions'

local == << pending, state, committable, halted >>
vars == << saved, committed, quarantine, batches, crashes, pc, local >>

-----------------------------------------------------------------------------
(* ReplayState: event_entries as a function on the applied event ids, and  *)
(* partition_offsets as a total function, 0 where the tuple has no entry.  *)

Entry == [key : Keys, offset : Nat, hash : Hashes]

Applied(s) == DOMAIN s.entries

emptyAtMinusOne == [entries |-> [e \in {} |-> 0], offsets |-> [k \in Keys |-> -1]]

empty == [entries |-> [e \in {} |-> 0], offsets |-> [k \in Keys |-> 0]]

(* The entry get_entry returns is the exact coordinate and hash of r. *)
IsExact(s, r) ==
    /\ r.eid \in Applied(s)
    /\ s.entries[r.eid] = [key |-> r.key, offset |-> r.offset, hash |-> r.hash]

(* A mutant of apply: the entry records the next offset. *)
WithEventAtNext(s, r) ==
    [entries |-> [e \in Applied(s) \cup {r.eid} |->
                    IF e = r.eid
                    THEN [key |-> r.key, offset |-> r.offset + 1, hash |-> r.hash]
                    ELSE s.entries[e]],
     offsets |-> [s.offsets EXCEPT ![r.key] = r.offset + 1]]

(* The state ReplayState.apply constructs for a new event. *)
WithEvent(s, r) ==
    [entries |-> [e \in Applied(s) \cup {r.eid} |->
                    IF e = r.eid
                    THEN [key |-> r.key, offset |-> r.offset, hash |-> r.hash]
                    ELSE s.entries[e]],
     offsets |-> [s.offsets EXCEPT ![r.key] = r.offset + 1]]

(* The rejections of apply itself, which replay_records relies on being    *)
(* unreachable after its own Steps 2 and 3.                                *)
ApplyRaises(s, r) ==
    \/ r.eid \in Applied(s) /\ ~IsExact(s, r)
    \/ r.eid \notin Applied(s) /\ r.offset # s.offsets[r.key]

apply(s, r) == IF IsExact(s, r) THEN s ELSE WithEvent(s, r)

-----------------------------------------------------------------------------
Init == /\ saved = empty
        /\ committed = [k \in Keys |-> 0]
        /\ quarantine = [k \in Keys |-> << >>]
        /\ batches = 0
        /\ crashes = 0
        /\ pc = "idle"
        /\ pending = << >>
        /\ state = empty
        /\ committable = [k \in Keys |-> 0]
        /\ halted = {}

(* The initial_state argument is the stored state, an old one in a mutant. *)
initial_state_lost == empty
initial_state == saved

(* The consumer calls replay_records with a batch and the stored state. *)
StartBatch ==
    /\ pc = "idle"
    /\ batches < Len(Batches)
    /\ \E b \in Batches[batches + 1] : pending' = b
    /\ batches' = batches + 1
    /\ pc' = "replaying"
    /\ state' = initial_state
    /\ committable' = initial_state.offsets
    /\ halted' = {}
    /\ UNCHANGED << saved, committed, quarantine, crashes >>

AtRecord == pc = "replaying" /\ pending # << >>

(* The record is looked at: its partition is not halted. *)
Examines == AtRecord /\ Head(pending).key \notin halted

(* A later record of a halted partition is passed over. *)
SkipHalted ==
    /\ AtRecord
    /\ Head(pending).key \in halted
    /\ pending' = Tail(pending)
    /\ UNCHANGED << saved, committed, quarantine, batches, crashes, pc,
                    state, committable, halted >>

(* Mutants of the quarantine: the cursor passes the poison record, every   *)
(* partition is halted.                                                    *)
QuarantineAndPass(r, why) ==
    /\ quarantine' = [quarantine EXCEPT ![r.key] =
                        Append(@, [offset |-> r.offset, reason |-> why])]
    /\ halted' = halted \cup {r.key}
    /\ committable' = [committable EXCEPT ![r.key] = r.offset + 1]
    /\ pending' = Tail(pending)
    /\ UNCHANGED << saved, committed, batches, crashes, pc, state >>
QuarantineHaltsAll(r, why) ==
    /\ quarantine' = [quarantine EXCEPT ![r.key] =
                        Append(@, [offset |-> r.offset, reason |-> why])]
    /\ halted' = Keys
    /\ pending' = Tail(pending)
    /\ UNCHANGED << saved, committed, batches, crashes, pc, state,
                    committable >>

(* The row is on disk before the partition is halted. *)
QuarantineRecord(r, why) ==
    /\ quarantine' = [quarantine EXCEPT ![r.key] =
                        Append(@, [offset |-> r.offset, reason |-> why])]
    /\ halted' = halted \cup {r.key}
    /\ pending' = Tail(pending)
    /\ UNCHANGED << saved, committed, batches, crashes, pc, state,
                    committable >>

(* Step 1: the envelope does not parse or has other coordinates. *)
RejectInvalid ==
    /\ Examines
    /\ LET r == Head(pending)
       IN  /\ ~r.valid
           /\ QuarantineRecord(r, "INVALID_SCHEMA")

(* Step 2: the event was applied from this coordinate; nothing to do. *)
SkipRedelivered ==
    /\ Examines
    /\ LET r == Head(pending)
       IN  /\ r.valid
           /\ IsExact(state, r)
    /\ pending' = Tail(pending)
    /\ UNCHANGED << saved, committed, quarantine, batches, crashes, pc,
                    state, committable, halted >>

(* The locals are gone; what is durable stays. *)
Forget == /\ pc' = "idle"
          /\ pending' = << >>
          /\ state' = saved
          /\ committable' = saved.offsets
          /\ halted' = {}
          /\ UNCHANGED << saved, committed, quarantine, batches >>

(* Step 2: the event id is known from another coordinate or with another   *)
(* hash.  ReplayConflict leaves replay_records: every partition of the     *)
(* batch loses its progress.                                               *)
RaiseConflict ==
    /\ Examines
    /\ LET r == Head(pending)
       IN  /\ r.valid
           /\ r.eid \in Applied(state)
           /\ ~IsExact(state, r)
    /\ Forget
    /\ UNCHANGED crashes

(* A mutant: Step 3 before Step 2. *)
RejectGapFirst ==
    /\ Examines
    /\ LET r == Head(pending)
       IN  /\ r.valid
           /\ r.offset # committable[r.key]
           /\ QuarantineRecord(r, "NON_CONTIGUOUS_OFFSET")

(* Step 3: a new event, but not at the partition's cursor. *)
RejectGap ==
    /\ Examines
    /\ LET r == Head(pending)
       IN  /\ r.valid
           /\ r.eid \notin Applied(state)
           /\ r.offset # committable[r.key]
           /\ QuarantineRecord(r, "NON_CONTIGUOUS_OFFSET")

(* Step 4: apply, and advance the cursor.  apply may raise as well.        *)
Accept ==
    /\ Examines
    /\ LET r == Head(pending)
       IN  /\ r.valid
           /\ r.eid \notin Applied(state)
           /\ r.offset = committable[r.key]
           /\ IF ApplyRaises(state, r)
              THEN Forget /\ UNCHANGED crashes
              ELSE /\ state' = apply(state, r)
                   /\ committable' = [committable EXCEPT ![r.key] = r.offset + 1]
                   /\ pending' = Tail(pending)
                   /\ UNCHANGED << saved, committed, quarantine, batches,
                                   crashes, pc, halted >>

(* The loop is over: the ReplayOutcome goes back to the consumer. *)
ReturnOutcome ==
    /\ pc = "replaying"
    /\ pending = << >>
    /\ pc' = "returned"
    /\ UNCHANGED << saved, committed, quarantine, batches, crashes, local >>

(* The consumer stores outcome.state ... *)
SaveState ==
    /\ pc = "returned"
    /\ saved' = state
    /\ pc' = "saved"
    /\ UNCHANGED << committed, quarantine, batches, crashes, local >>

(* ... and then commits outcome.committable_offsets to the broker. *)
CommitOffsets ==
    /\ pc = "saved"
    /\ committed' = committable
    /\ pc' = "idle"
    /\ halted' = {}
    /\ UNCHANGED << saved, quarantine, batches, crashes, pending, state,
                    committable >>

(* The consumer process dies and comes back with what it had stored. *)
Crash == /\ pc # "idle"
         /\ crashes < MaxCrashes
         /\ crashes' = crashes + 1
         /\ Forget

Step == \/ SkipHalted \/ RejectInvalid \/ SkipRedelivered \/ RaiseConflict
        \/ RejectGap \/ Accept \/ ReturnOutcome \/ SaveState \/ CommitOffsets

Next == StartBatch \/ Step \/ Crash

Spec == Init /\ [][Next]_vars

(* A called function runs to its end, and a running consumer asks for work. *)
FairSpec == Spec /\ WF_vars(StartBatch) /\ WF_vars(Step)
-----------------------------------------------------------------------------
(* Properties. *)

ValidState(s) ==
    /\ s = [entries |-> s.entries, offsets |-> s.offsets]
    /\ Applied(s) \subseteq EventIds
    /\ s.entries \in [Applied(s) -> Entry]
    /\ s.offsets \in [Keys -> Nat]

(* The values the variables can take: a stored state always validates. *)
TypeOK ==
    /\ ValidState(saved) /\ ValidState(state)
    /\ committed \in [Keys -> Nat] /\ committable \in [Keys -> Nat]
    /\ quarantine \in [Keys -> Seq([offset : Nat, reason : Reasons])]
    /\ batches \in Nat /\ crashes \in Nat
    /\ pc \in {"idle", "replaying", "returned", "saved"}
    /\ pending \in Seq(Records)
    /\ halted \subseteq Keys

(* An entry lies below its partition's offset. *)
EntriesBelowOffset(s) ==
    \A e \in Applied(s) : s.entries[e].offset < s.offsets[s.entries[e].key]

(* No two events were applied from the same coordinate. *)
OneEventPerOffset(s) ==
    \A e, f \in Applied(s) :
        /\ s.entries[e].key = s.entries[f].key
        /\ s.entries[e].offset = s.entries[f].offset
        => e = f

(* Every offset below the partition's offset was applied. *)
NoGap(s) ==
    \A k \in Keys : \A o \in 0..(s.offsets[k] - 1) :
        \E e \in Applied(s) : s.entries[e].key = k /\ s.entries[e].offset = o

(* Whatever was redelivered, reordered, quarantined or lost in a crash,    *)
(* the applied events of each partition are exactly the offsets            *)
(* 0 .. n - 1, one event each: the contiguous cursor of Steps 3 and 4.     *)
ContiguousLog ==
    \A s \in {saved, state} :
        EntriesBelowOffset(s) /\ OneEventPerOffset(s) /\ NoGap(s)

(* The broker is never told to forget a record whose event is not in the   *)
(* durable state: a crash can lose no event (committable_offsets).         *)
CommittedIsApplied == \A k \in Keys : committed[k] <= saved.offsets[k]

(* While a batch runs, the cursor replay_records keeps and the offset      *)
(* ReplayState keeps are the same number, so apply, which checks the       *)
(* latter, never raises after Step 3 checked the former.                   *)
CursorsAgree == pc # "idle" => committable = state.offsets

(* Every applied event is the event of a valid record delivered at that    *)
(* very coordinate with that very hash: nothing is fabricated or coerced.  *)
Genuine(s) ==
    \A e \in Applied(s) :
        \E r \in Records : r.valid /\ r.eid = e /\ IsExact(s, r)

OnlyGenuineEvents == Genuine(saved) /\ Genuine(state)

Poisoned(k, o) == \A r \in Records : r.key = k /\ r.offset = o => ~r.valid

(* A poison record is a barrier: neither the durable state nor the offset  *)
(* committed to the broker ever passes a coordinate that delivers only     *)
(* malformed payloads, however often it is retried.                        *)
PoisonBarrier ==
    \A r \in Records : Poisoned(r.key, r.offset) =>
        saved.offsets[r.key] <= r.offset /\ committed[r.key] <= r.offset

(* The applied history is append-only across batches and crashes.          *)
HistoryKept ==
    [][\A e \in Applied(saved) :
          e \in Applied(saved)' /\ saved'.entries[e] = saved.entries[e]]_vars

(* Redelivery is a no-op: a record that was already applied is never taken *)
(* for a gap, a conflict or a poison message (Step 2 comes before Step 3). *)
RedeliveryIsNoOp ==
    [][(/\ AtRecord /\ Head(pending).key \notin halted
        /\ Head(pending).valid /\ IsExact(state, Head(pending)) /\ Step)
       => /\ pending' = Tail(pending)
          /\ UNCHANGED << state, committable, halted, quarantine >>]_vars

(* The events of the stored state, partition by partition. *)
LogOf(s) ==
    [k \in Keys |-> [i \in 1..s.offsets[k] |->
        CHOOSE e \in Applied(s) :
            s.entries[e].key = k /\ s.entries[e].offset = i - 1]]

Log == INSTANCE ExactlyOnceLog WITH log <- LogOf(saved)

(* Batches, redelivery, quarantine and crashes implement an exactly-once,  *)
(* in-order log of events per partition.                                   *)
ImplementsExactlyOnceLog == Log!Spec
=============================================================================
