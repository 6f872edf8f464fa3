---------------------------- MODULE ReplayProofs ----------------------------
(***************************************************************************)
(* Theorems of Replay, for every set of partitions, events, records and    *)
(* batches and every bound on batches and crashes.                         *)
(***************************************************************************)
EXTENDS Replay, TLAPS

Contiguous(s) == EntriesBelowOffset(s) /\ OneEventPerOffset(s) /\ NoGap(s)

(* t continues s: it keeps every entry and no offset goes back. *)
Extends(s, t) ==
    /\ \A e \in Applied(s) : e \in Applied(t) /\ t.entries[e] = s.entries[e]
    /\ \A k \in Keys : s.offsets[k] <= t.offsets[k]

(* What a running batch owes to the stored state it started from. *)
BatchExtendsSaved ==
    /\ pc # "idle" => Extends(saved, state)
    /\ pc = "saved" => saved = state

IInv == /\ TypeOK
        /\ Contiguous(saved) /\ Contiguous(state)
        /\ CursorsAgree
        /\ OnlyGenuineEvents
        /\ BatchExtendsSaved
        /\ CommittedIsApplied

-----------------------------------------------------------------------------
(* A record on the batch is a record with typed fields. *)
LEMMA HeadRecord ==
    ASSUME TypeOK, AtRecord
    PROVE  /\ Head(pending) \in Records
           /\ Head(pending) \in RecordType
           /\ Tail(pending) \in Seq(Records)
  BY RecordsAssumption DEF TypeOK, AtRecord

(* The empty state ReplayState.empty returns is a good state. *)
LEMMA EmptyGood ==
    ValidState(empty) /\ Contiguous(empty) /\ Genuine(empty)
  BY DEF empty, ValidState, Applied, Contiguous, EntriesBelowOffset,
         OneEventPerOffset, NoGap, Genuine

(* Applying a new event at the cursor keeps a good state good. *)
LEMMA WithEventGood ==
    ASSUME NEW s, NEW r \in Records, r \in RecordType,
           ValidState(s), Contiguous(s), Genuine(s),
           r.valid, r.eid \notin Applied(s), r.offset = s.offsets[r.key]
    PROVE  LET t == WithEvent(s, r)
           IN  ValidState(t) /\ Contiguous(t) /\ Genuine(t) /\ Extends(s, t)
  <1> DEFINE t == WithEvent(s, r)
             new == [key |-> r.key, offset |-> r.offset, hash |-> r.hash]
  <1> HIDE DEF new
  <1>r. r.key \in Keys /\ r.offset \in Nat /\ r.eid \in EventIds /\ r.hash \in Hashes
    BY DEF RecordType
  <1>new. new \in Entry /\ new.key = r.key /\ new.offset = r.offset /\ new.hash = r.hash
    BY <1>r DEF new, Entry
  <1>1. /\ Applied(t) = Applied(s) \cup {r.eid}
        /\ t.entries[r.eid] = new
        /\ \A e \in Applied(s) : t.entries[e] = s.entries[e]
        /\ t.offsets = [s.offsets EXCEPT ![r.key] = r.offset + 1]
    BY DEF WithEvent, Applied, new
  <1>2. ValidState(t)
    <2>1. t = [entries |-> t.entries, offsets |-> t.offsets]
      BY DEF WithEvent
    <2>2. t.entries \in [Applied(t) -> Entry]
      <3>1. \A e \in Applied(s) : s.entries[e] \in Entry
        BY DEF ValidState
      <3>2. t.entries = [e \in Applied(t) |-> IF e = r.eid THEN new ELSE s.entries[e]]
        BY <1>1 DEF WithEvent, new
      <3> QED BY <3>1, <3>2, <1>1, <1>new
    <2>3. t.offsets \in [Keys -> Nat]
      BY <1>1, <1>r DEF ValidState
    <2> QED BY <2>1, <2>2, <2>3, <1>1, <1>r DEF ValidState
  <1>s. /\ \A e \in Applied(s) : /\ s.entries[e].key \in Keys
                                 /\ s.entries[e].offset \in Nat
        /\ \A k \in Keys : s.offsets[k] \in Nat
    BY DEF ValidState, Entry
  <1>o. /\ t.offsets[r.key] = r.offset + 1
        /\ \A k \in Keys : k # r.key => t.offsets[k] = s.offsets[k]
    BY <1>1, <1>r DEF ValidState
  <1>3. EntriesBelowOffset(t)
    BY <1>1, <1>new, <1>s, <1>o, <1>r DEF EntriesBelowOffset, Contiguous
  <1>4. OneEventPerOffset(t)
    BY <1>1, <1>new, <1>s, <1>r DEF OneEventPerOffset, Contiguous, EntriesBelowOffset
  <1>5. NoGap(t)
    <2> SUFFICES ASSUME NEW k \in Keys, NEW o \in 0..(t.offsets[k] - 1)
                 PROVE  \E e \in Applied(t) : t.entries[e].key = k /\ t.entries[e].offset = o
      BY DEF NoGap
    <2>1. CASE k = r.key /\ o = r.offset
      BY <2>1, <1>1, <1>new
    <2>2. CASE ~(k = r.key /\ o = r.offset)
      <3>1. o \in 0..(s.offsets[k] - 1)
        BY <2>2, <1>o, <1>s, <1>r
      <3> QED BY <3>1, <1>1 DEF NoGap, Contiguous
    <2> QED BY <2>1, <2>2
  <1>6. Genuine(t)
    <2> SUFFICES ASSUME NEW e \in Applied(t)
                 PROVE  \E q \in Records : q.valid /\ q.eid = e /\ IsExact(t, q)
      BY DEF Genuine
    <2>1. CASE e = r.eid
      BY <2>1, <1>1 DEF IsExact, new
    <2>2. CASE e \in Applied(s)
      BY <2>2, <1>1 DEF Genuine, IsExact
    <2> QED BY <2>1, <2>2, <1>1
  <1>7. Extends(s, t)
    BY <1>1, <1>o, <1>s, <1>r DEF Extends
  <1> QED BY <1>2, <1>3, <1>4, <1>5, <1>6, <1>7 DEF Contiguous

LEMMA ExtendsReflexive ==
    ASSUME NEW s, ValidState(s)
    PROVE  Extends(s, s)
  BY DEF Extends, ValidState

LEMMA ExtendsTransitive ==
    ASSUME NEW s, NEW t, NEW u, ValidState(s), ValidState(t), ValidState(u),
           Extends(s, t), Extends(t, u)
    PROVE  Extends(s, u)
  BY DEF Extends, ValidState

-----------------------------------------------------------------------------
(* The strengthened invariant holds initially. *)
LEMMA InitIInv == Init => IInv
  BY EmptyGood, BoundsAssumption
     DEF Init, IInv, TypeOK, CursorsAgree, OnlyGenuineEvents, BatchExtendsSaved,
         CommittedIsApplied, empty

(* Losing the locals leaves a good state: the stored one. *)
LEMMA ForgetKeepsIInv ==
    ASSUME IInv, Forget, crashes' \in Nat
    PROVE  IInv'
  <1>1. TypeOK'
    <2>1. ValidState(saved)' /\ ValidState(state)'
      BY DEF IInv, TypeOK, Forget
    <2>2. committable' \in [Keys -> Nat] /\ pending' \in Seq(Records)
      BY DEF IInv, TypeOK, Forget, ValidState
    <2> QED BY <2>1, <2>2 DEF IInv, TypeOK, Forget
  <1>2. (Contiguous(saved) /\ Contiguous(state) /\ OnlyGenuineEvents)'
    BY DEF IInv, Forget, OnlyGenuineEvents
  <1>3. (CursorsAgree /\ BatchExtendsSaved /\ CommittedIsApplied)'
    BY DEF IInv, Forget, CursorsAgree, BatchExtendsSaved, CommittedIsApplied
  <1> QED BY <1>1, <1>2, <1>3 DEF IInv

(* Steps that only take a record off the batch, or add a quarantine row. *)
LEMMA PassRecordKeepsIInv ==
    ASSUME IInv, AtRecord, pending' = Tail(pending),
           UNCHANGED << saved, committed, batches, crashes, pc, state, committable >>,
           quarantine' \in [Keys -> Seq([offset : Nat, reason : Reasons])],
           halted' \subseteq Keys
    PROVE  IInv'
  <1>1. TypeOK'
    BY HeadRecord DEF IInv, TypeOK
  <1>2. (Contiguous(saved) /\ Contiguous(state) /\ OnlyGenuineEvents)'
    BY DEF IInv, OnlyGenuineEvents
  <1>3. (CursorsAgree /\ BatchExtendsSaved /\ CommittedIsApplied)'
    BY DEF IInv, CursorsAgree, BatchExtendsSaved, CommittedIsApplied
  <1> QED BY <1>1, <1>2, <1>3 DEF IInv

(* A quarantined record leaves a well-formed file and halts its partition. *)
LEMMA QuarantineKeepsIInv ==
    ASSUME IInv, AtRecord, NEW why \in Reasons, QuarantineRecord(Head(pending), why)
    PROVE  IInv'
  <1> DEFINE r == Head(pending)
             row == [offset |-> r.offset, reason |-> why]
             Rows == [offset : Nat, reason : Reasons]
  <1>r. r.key \in Keys /\ r.offset \in Nat
    BY HeadRecord DEF IInv, RecordType
  <1>1. row \in Rows
    BY <1>r
  <1>2. quarantine' \in [Keys -> Seq(Rows)]
    <2>1. quarantine \in [Keys -> Seq(Rows)]
      BY DEF IInv, TypeOK
    <2>2. quarantine' = [quarantine EXCEPT ![r.key] = Append(@, row)]
      BY DEF QuarantineRecord
    <2> HIDE DEF Rows, row, r
    <2>3. Append(quarantine[r.key], row) \in Seq(Rows)
      BY <2>1, <1>1, <1>r
    <2> QED BY <2>1, <2>2, <2>3, <1>r
  <1>3. halted' \subseteq Keys
    BY <1>r DEF IInv, TypeOK, QuarantineRecord
  <1> QED BY <1>2, <1>3, PassRecordKeepsIInv DEF QuarantineRecord

(* Step 4 keeps the invariant: apply does not raise, and the new state *)
(* continues the old one.                                              *)
LEMMA AcceptKeepsIInv ==
    ASSUME IInv, Accept
    PROVE  IInv'
  <1> DEFINE r == Head(pending)
  <1>a. AtRecord /\ pc = "replaying"
    BY DEF Accept, Examines, AtRecord
  <1>r. /\ r \in Records /\ r \in RecordType /\ Tail(pending) \in Seq(Records)
        /\ r.key \in Keys /\ r.offset \in Nat
    BY <1>a, HeadRecord DEF IInv, RecordType
  <1>g. /\ ValidState(state) /\ Contiguous(state) /\ Genuine(state)
        /\ ValidState(saved) /\ Extends(saved, state)
        /\ committable = state.offsets
    BY <1>a DEF IInv, TypeOK, OnlyGenuineEvents, BatchExtendsSaved, CursorsAgree
  <1>1. /\ r.valid /\ r.eid \notin Applied(state) /\ r.offset = state.offsets[r.key]
    BY <1>g DEF Accept
  <1>2. ~ApplyRaises(state, r) /\ apply(state, r) = WithEvent(state, r)
    BY <1>1 DEF ApplyRaises, apply, IsExact
  <1>3. /\ state' = WithEvent(state, r)
        /\ committable' = [committable EXCEPT ![r.key] = r.offset + 1]
        /\ pending' = Tail(pending)
        /\ UNCHANGED << saved, committed, quarantine, batches, crashes, pc, halted >>
    BY <1>2 DEF Accept
  <1> HIDE DEF r
  <1>4. /\ ValidState(state') /\ Contiguous(state') /\ Genuine(state')
        /\ Extends(state, state')
    BY <1>r, <1>g, <1>1, <1>3, WithEventGood
  <1>5. Extends(saved, state')
    BY <1>4, <1>g, ExtendsTransitive
  <1>6. committable' = state'.offsets
    BY <1>3, <1>g DEF WithEvent
  <1>7. committable' \in [Keys -> Nat]
    BY <1>4, <1>6 DEF ValidState
  <1>8. TypeOK'
    BY <1>3, <1>4, <1>7, <1>r DEF IInv, TypeOK
  <1>9. (CursorsAgree /\ OnlyGenuineEvents /\ BatchExtendsSaved /\ CommittedIsApplied)'
    BY <1>3, <1>4, <1>5, <1>6, <1>a
       DEF IInv, CursorsAgree, OnlyGenuineEvents, BatchExtendsSaved, CommittedIsApplied
  <1> QED BY <1>3, <1>4, <1>8, <1>9 DEF IInv


(* Every step of the consumer keeps the invariant. *)
LEMMA NextKeepsIInv == IInv /\ [Next]_vars => IInv'
  <1> SUFFICES ASSUME IInv, [Next]_vars PROVE IInv' OBVIOUS
  <1>1. CASE StartBatch
    <2>1. TypeOK'
      <3>1. ValidState(saved)' /\ ValidState(state)'
        BY <1>1 DEF IInv, TypeOK, StartBatch, initial_state
      <3>2. committable' \in [Keys -> Nat] /\ pending' \in Seq(Records)
        BY <1>1, BatchesAssumption DEF IInv, TypeOK, StartBatch, initial_state, ValidState
      <3>3. /\ UNCHANGED << committed, quarantine, crashes >>
            /\ batches' \in Nat /\ pc' = "replaying" /\ halted' = {}
        BY <1>1 DEF IInv, TypeOK, StartBatch, initial_state
      <3> QED BY <3>1, <3>2, <3>3 DEF IInv, TypeOK
    <2>2. (Contiguous(saved) /\ Contiguous(state) /\ OnlyGenuineEvents)'
      BY <1>1 DEF IInv, StartBatch, initial_state, OnlyGenuineEvents
    <2>3. (CursorsAgree /\ BatchExtendsSaved /\ CommittedIsApplied)'
      BY <1>1, ExtendsReflexive
         DEF IInv, TypeOK, StartBatch, initial_state, CursorsAgree, BatchExtendsSaved, CommittedIsApplied
    <2> QED BY <2>1, <2>2, <2>3 DEF IInv
  <1>2. CASE SkipHalted
    BY <1>2, PassRecordKeepsIInv DEF IInv, TypeOK, SkipHalted
  <1>3. CASE RejectInvalid
    BY <1>3, QuarantineKeepsIInv DEF Examines, RejectInvalid, Reasons
  <1>4. CASE SkipRedelivered
    BY <1>4, PassRecordKeepsIInv DEF Examines, IInv, TypeOK, SkipRedelivered
  <1>5. CASE RaiseConflict
    <2>1. Forget /\ crashes' \in Nat
      BY <1>5 DEF IInv, TypeOK, RaiseConflict
    <2> QED BY <2>1, ForgetKeepsIInv
  <1>6. CASE RejectGap
    BY <1>6, QuarantineKeepsIInv DEF Examines, RejectGap, Reasons
  <1>7. CASE Accept
    BY <1>7, AcceptKeepsIInv
  <1>8. CASE ReturnOutcome
    <2>1. TypeOK'
      BY <1>8 DEF IInv, TypeOK, ReturnOutcome, local
    <2>2. (Contiguous(saved) /\ Contiguous(state) /\ OnlyGenuineEvents)'
      BY <1>8 DEF IInv, ReturnOutcome, local, OnlyGenuineEvents
    <2>3. (CursorsAgree /\ BatchExtendsSaved /\ CommittedIsApplied)'
      BY <1>8 DEF IInv, ReturnOutcome, local, CursorsAgree, BatchExtendsSaved, CommittedIsApplied
    <2> QED BY <2>1, <2>2, <2>3 DEF IInv
  <1>9. CASE SaveState
    <2>1. TypeOK'
      BY <1>9 DEF IInv, TypeOK, SaveState, local
    <2>2. (Contiguous(saved) /\ Contiguous(state) /\ OnlyGenuineEvents)'
      BY <1>9 DEF IInv, SaveState, local, OnlyGenuineEvents
    <2>3. (CursorsAgree /\ BatchExtendsSaved)'
      BY <1>9, ExtendsReflexive DEF IInv, TypeOK, SaveState, local, CursorsAgree, BatchExtendsSaved
    <2>4. CommittedIsApplied'
      BY <1>9 DEF IInv, TypeOK, ValidState, SaveState, local, BatchExtendsSaved, Extends, CommittedIsApplied
    <2> QED BY <2>1, <2>2, <2>3, <2>4 DEF IInv
  <1>10. CASE CommitOffsets
    <2>1. TypeOK'
      BY <1>10 DEF IInv, TypeOK, CommitOffsets
    <2>2. (Contiguous(saved) /\ Contiguous(state) /\ OnlyGenuineEvents)'
      BY <1>10 DEF IInv, CommitOffsets, OnlyGenuineEvents
    <2>3. committed' = saved'.offsets
      BY <1>10 DEF IInv, CommitOffsets, CursorsAgree, BatchExtendsSaved
    <2>4. (CursorsAgree /\ BatchExtendsSaved /\ CommittedIsApplied)'
      BY <1>10, <2>3, <2>1 DEF TypeOK, CommitOffsets, CursorsAgree, BatchExtendsSaved, CommittedIsApplied
    <2> QED BY <2>1, <2>2, <2>4 DEF IInv
  <1>11. CASE Crash
    <2>1. Forget /\ crashes' \in Nat
      BY <1>11 DEF IInv, TypeOK, Crash
    <2> QED BY <2>1, ForgetKeepsIInv
  <1>12. CASE UNCHANGED vars
    <2>1. TypeOK'
      BY <1>12 DEF IInv, TypeOK, vars, local
    <2>2. (Contiguous(saved) /\ Contiguous(state) /\ OnlyGenuineEvents)'
      BY <1>12 DEF IInv, vars, local, OnlyGenuineEvents
    <2>3. (CursorsAgree /\ BatchExtendsSaved /\ CommittedIsApplied)'
      BY <1>12 DEF IInv, vars, local, CursorsAgree, BatchExtendsSaved, CommittedIsApplied
    <2> QED BY <2>1, <2>2, <2>3 DEF IInv
  <1> QED BY <1>1, <1>2, <1>3, <1>4, <1>5, <1>6, <1>7, <1>8, <1>9, <1>10,
             <1>11, <1>12 DEF Next, Step


-----------------------------------------------------------------------------
(* The stored state, the running state and the cursors always have their   *)
(* types, and a stored ReplayState always passes its validators.           *)
THEOREM ReplayTypeOK == Spec => []TypeOK
  <1>1. IInv => TypeOK BY DEF IInv
  <1> QED BY <1>1, InitIInv, NextKeepsIInv, PTL DEF Spec

(* In every reachable state the applied events of each partition are the   *)
(* offsets 0 .. n - 1 with one event each, whatever was redelivered,       *)
(* reordered, quarantined or lost in a crash.                              *)
THEOREM ReplayContiguous == Spec => []ContiguousLog
  <1>1. IInv => ContiguousLog BY DEF IInv, Contiguous, ContiguousLog
  <1> QED BY <1>1, InitIInv, NextKeepsIInv, PTL DEF Spec

(* A crash at any moment loses no event: an offset committed to the broker *)
(* is covered by the stored state.                                         *)
THEOREM ReplayCommitted == Spec => []CommittedIsApplied
  <1>1. IInv => CommittedIsApplied BY DEF IInv
  <1> QED BY <1>1, InitIInv, NextKeepsIInv, PTL DEF Spec

(* The two cursors agree, so that apply never raises after Step 3.         *)
THEOREM ReplayCursors == Spec => []CursorsAgree
  <1>1. IInv => CursorsAgree BY DEF IInv
  <1> QED BY <1>1, InitIInv, NextKeepsIInv, PTL DEF Spec

(* No coordinate that delivers only malformed payloads is ever passed, by  *)
(* the stored state or by the offset committed to the broker.              *)
THEOREM ReplayPoisonBarrier == Spec => []PoisonBarrier
  <1>1. IInv => PoisonBarrier
    <2> SUFFICES ASSUME IInv, NEW r \in Records, Poisoned(r.key, r.offset)
                 PROVE  saved.offsets[r.key] <= r.offset /\ committed[r.key] <= r.offset
      BY DEF PoisonBarrier
    <2>1. /\ r.key \in Keys /\ r.offset \in Nat /\ saved.offsets[r.key] \in Nat
          /\ committed[r.key] \in Nat /\ committed[r.key] <= saved.offsets[r.key]
      BY RecordsAssumption DEF RecordType, IInv, TypeOK, ValidState, CommittedIsApplied
    <2> SUFFICES ASSUME saved.offsets[r.key] > r.offset PROVE FALSE
      BY <2>1
    <2>2. PICK e \in Applied(saved) : /\ saved.entries[e].key = r.key
                                      /\ saved.entries[e].offset = r.offset
      <3>1. r.offset \in 0..(saved.offsets[r.key] - 1)
        BY <2>1
      <3> QED BY <2>1, <3>1 DEF IInv, Contiguous, NoGap
    <2>3. PICK q \in Records : q.valid /\ IsExact(saved, q) /\ q.eid = e
      BY <2>2 DEF IInv, OnlyGenuineEvents, Genuine
    <2>4. q.key = r.key /\ q.offset = r.offset
      BY <2>2, <2>3 DEF IsExact
    <2> QED BY <2>3, <2>4 DEF Poisoned
  <1> QED BY <1>1, InitIInv, NextKeepsIInv, PTL DEF Spec

-----------------------------------------------------------------------------
(* A record that was applied from this very coordinate is passed over and  *)
(* leaves no trace: Step 2 looks before Step 3, and the other steps do not *)
(* run while there is such a record to look at.                            *)
THEOREM ReplayRedelivery == Spec => RedeliveryIsNoOp
  <1>1. ASSUME AtRecord, Head(pending).key \notin halted, Head(pending).valid,
               IsExact(state, Head(pending)), Step
        PROVE  /\ pending' = Tail(pending)
               /\ UNCHANGED << state, committable, halted, quarantine >>
    <2>1. Head(pending).eid \in Applied(state)
      BY <1>1 DEF IsExact
    <2>2. ~SkipHalted /\ ~RejectInvalid
      BY <1>1 DEF SkipHalted, RejectInvalid
    <2>3. ~RaiseConflict /\ ~RejectGap /\ ~Accept
      BY <1>1, <2>1 DEF RaiseConflict, RejectGap, Accept
    <2>4. ~ReturnOutcome /\ ~SaveState /\ ~CommitOffsets
      BY <1>1 DEF AtRecord, ReturnOutcome, SaveState, CommitOffsets
    <2>5. SkipRedelivered
      BY <1>1, <2>2, <2>3, <2>4 DEF Step
    <2> QED BY <2>5 DEF SkipRedelivered
  <1>2. [Next]_vars =>
          [(/\ AtRecord /\ Head(pending).key \notin halted
            /\ Head(pending).valid /\ IsExact(state, Head(pending)) /\ Step)
           => /\ pending' = Tail(pending)
              /\ UNCHANGED << state, committable, halted, quarantine >>]_vars
    BY <1>1
  <1> QED BY <1>2, PTL DEF Spec, RedeliveryIsNoOp

-----------------------------------------------------------------------------
(* A step of the consumer can only continue the stored state. *)
LEMMA StepExtendsSaved == IInv /\ [Next]_vars => saved' = saved \/ (saved' = state /\ Extends(saved, state))
  BY DEF IInv, BatchExtendsSaved, Next, Step, vars, StartBatch, initial_state, SkipHalted,
         RejectInvalid, SkipRedelivered, RaiseConflict, RejectGap, Accept,
         ReturnOutcome, SaveState, CommitOffsets, Crash, Forget, QuarantineRecord

(* The applied history is append-only across batches and crashes.          *)
THEOREM ReplayHistoryKept == Spec => HistoryKept
  <1>1. IInv /\ [Next]_vars =>
          [\A e \in Applied(saved) :
             e \in Applied(saved)' /\ saved'.entries[e] = saved.entries[e]]_vars
    BY StepExtendsSaved DEF Extends, Applied
  <1> QED BY <1>1, InitIInv, NextKeepsIInv, PTL DEF Spec, HistoryKept

(* The i-th event of a partition's log is the event applied from offset i - 1. *)
LEMMA LogEntry ==
    ASSUME NEW s, ValidState(s), Contiguous(s),
           NEW k \in Keys, NEW i \in 1..Len(LogOf(s)[k])
    PROVE  LET e == LogOf(s)[k][i]
           IN  /\ e \in Applied(s)
               /\ s.entries[e].key = k
               /\ s.entries[e].offset = i - 1
  <1> DEFINE P(e) == s.entries[e].key = k /\ s.entries[e].offset = i - 1
  <1>1. s.offsets[k] \in Nat
    BY DEF ValidState
  <1>2. i \in 1..s.offsets[k] /\ LogOf(s)[k][i] = CHOOSE e \in Applied(s) : P(e)
    BY <1>1 DEF LogOf
  <1>3. \E e \in Applied(s) : P(e)
    <2>1. i - 1 \in 0..(s.offsets[k] - 1)
      BY <1>1, <1>2
    <2> QED BY <2>1 DEF Contiguous, NoGap
  <1> QED BY <1>2, <1>3

LEMMA LogType ==
    ASSUME NEW s, ValidState(s), Contiguous(s)
    PROVE  /\ LogOf(s) \in [Keys -> Seq(EventIds)]
           /\ \A k \in Keys : Len(LogOf(s)[k]) = s.offsets[k]
  <1>1. ASSUME NEW k \in Keys
        PROVE  LogOf(s)[k] \in Seq(EventIds) /\ Len(LogOf(s)[k]) = s.offsets[k]
    <2>1. s.offsets[k] \in Nat
      BY DEF ValidState
    <2>2. Len(LogOf(s)[k]) = s.offsets[k]
      BY <2>1 DEF LogOf
    <2>3. \A i \in 1..s.offsets[k] : LogOf(s)[k][i] \in EventIds
      BY <2>2, LogEntry DEF ValidState
    <2>4. LogOf(s)[k] = [i \in 1..s.offsets[k] |-> LogOf(s)[k][i]]
      BY DEF LogOf
    <2> HIDE DEF LogOf
    <2>5. LogOf(s)[k] \in [1..s.offsets[k] -> EventIds]
      BY <2>3, <2>4
    <2> QED BY <2>1, <2>2, <2>5
  <1> QED BY <1>1 DEF LogOf

LEMMA LogAtMostOnce ==
    ASSUME NEW s, ValidState(s), Contiguous(s)
    PROVE  Log!AtMostOnce(LogOf(s))
  <1> SUFFICES ASSUME NEW k1 \in Keys, NEW k2 \in Keys,
                      NEW i \in 1..Len(LogOf(s)[k1]), NEW j \in 1..Len(LogOf(s)[k2]),
                      LogOf(s)[k1][i] = LogOf(s)[k2][j]
               PROVE  k1 = k2 /\ i = j
    BY DEF Log!AtMostOnce
  <1> DEFINE e == LogOf(s)[k1][i]
  <1>1. /\ s.offsets[k1] \in Nat /\ Len(LogOf(s)[k1]) = s.offsets[k1]
        /\ s.offsets[k2] \in Nat /\ Len(LogOf(s)[k2]) = s.offsets[k2]
    BY LogType DEF ValidState
  <1>2. i \in Int /\ j \in Int
    BY <1>1
  <1>3. s.entries[e].key = k1 /\ s.entries[e].offset = i - 1
    BY LogEntry
  <1>4. s.entries[e].key = k2 /\ s.entries[e].offset = j - 1
    BY LogEntry
  <1> QED BY <1>2, <1>3, <1>4

LEMMA LogContinues ==
    ASSUME NEW s, NEW t, ValidState(s), Contiguous(s), ValidState(t), Contiguous(t),
           Extends(s, t)
    PROVE  Log!Continues(LogOf(s), LogOf(t))
  <1> SUFFICES ASSUME NEW k \in Keys
               PROVE  /\ Len(LogOf(s)[k]) <= Len(LogOf(t)[k])
                      /\ \A i \in 1..Len(LogOf(s)[k]) : LogOf(t)[k][i] = LogOf(s)[k][i]
    BY DEF Log!Continues
  <1>1. /\ Len(LogOf(s)[k]) = s.offsets[k] /\ Len(LogOf(t)[k]) = t.offsets[k]
        /\ s.offsets[k] \in Nat /\ t.offsets[k] \in Nat /\ s.offsets[k] <= t.offsets[k]
    BY LogType DEF ValidState, Extends
  <1>2. ASSUME NEW i \in 1..Len(LogOf(s)[k])
        PROVE  LogOf(t)[k][i] = LogOf(s)[k][i]
    <2>0. i \in 1..Len(LogOf(t)[k])
      BY <1>1
    <2> DEFINE e == LogOf(s)[k][i]
               f == LogOf(t)[k][i]
    <2>1. e \in Applied(s) /\ s.entries[e].key = k /\ s.entries[e].offset = i - 1
      BY LogEntry
    <2>2. f \in Applied(t) /\ t.entries[f].key = k /\ t.entries[f].offset = i - 1
      BY <2>0, LogEntry
    <2> HIDE DEF e, f
    <2>3. e \in Applied(t) /\ t.entries[e].key = k /\ t.entries[e].offset = i - 1
      BY <2>1 DEF Extends
    <2>4. e = f
      BY <2>2, <2>3 DEF Contiguous, OneEventPerOffset
    <2> QED BY <2>4 DEF e, f
  <1> QED BY <1>1, <1>2

(* Replay with redelivery, quarantine and crashes implements a log that    *)
(* applies every event at most once and in order.                          *)
THEOREM ReplayImplementsLog == Spec => ImplementsExactlyOnceLog
  <1>1. Init => Log!Init
    <2> SUFFICES ASSUME Init PROVE LogOf(saved) = [k \in Keys |-> << >>]
      BY DEF Log!Init
    <2>1. \A k \in Keys : saved.offsets[k] = 0
      BY DEF Init, empty
    <2>2. \A k \in Keys : LogOf(saved)[k] = << >>
      BY <2>1 DEF LogOf
    <2> QED BY <2>2 DEF LogOf
  <1>2. IInv /\ [Next]_vars => [Log!Advance]_(LogOf(saved))
    <2> SUFFICES ASSUME IInv, [Next]_vars, saved' # saved
                 PROVE  Log!Advance
      BY DEF LogOf
    <2>1. saved' = state /\ Extends(saved, state)
      BY StepExtendsSaved
    <2>2. LogOf(saved)' = LogOf(state)
      BY <2>1 DEF LogOf, Applied
    <2>3. /\ ValidState(saved) /\ Contiguous(saved)
          /\ ValidState(state) /\ Contiguous(state)
      BY DEF IInv, TypeOK
    <2>4. /\ LogOf(state) \in [Keys -> Seq(EventIds)]
          /\ Log!AtMostOnce(LogOf(state))
          /\ Log!Continues(LogOf(saved), LogOf(state))
      BY <2>1, <2>3, LogType, LogAtMostOnce, LogContinues
    <2> QED BY <2>2, <2>4 DEF Log!Advance
  <1> QED BY <1>1, <1>2, InitIInv, NextKeepsIInv, PTL
          DEF Spec, ImplementsExactlyOnceLog, Log!Spec

=============================================================================
