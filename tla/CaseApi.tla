------------------------------ MODULE CaseApi ------------------------------
(***************************************************************************)
(* The request handlers of the case API (src/apps/case_api/main.py) that   *)
(* share the hypothesis cache: pin_evidence, generate_hypothesis and       *)
(* get_workbench, run by a pool of threads over the transactions of        *)
(* Pinning.  What a handler holds between two accesses to shared state is  *)
(* a local of its thread; the cache, the locks and the threads are lost    *)
(* when the process restarts, the tables are not.                          *)
(*                                                                         *)
(* A request that is refused before it changes anything (no such case,     *)
(* another hash than the current one, an edge outside the case) is no step.*)
(***************************************************************************)
EXTENDS Pinning, Functions

CONSTANTS Threads, NoThread, NoReply, NoDraft

ASSUME ThreadsAssumption == NoThread \notin Threads

ASSUME CasesAssumption == Cases # {}

VARIABLES
    hypothesis_cache,  \* dict from keys to hypotheses
    in_flight_locks,   \* dict from keys to locks: the thread that holds it
    pc,                \* where each thread is
    key,               \* cache_key of the thread's request
    pins,              \* pinned_ids the thread has read
    draft,             \* res of the thread's workflow call
    reply              \* the last hypothesis the thread sent, and for what key

cache == << hypothesis_cache, in_flight_locks >>
local == << pc, key, pins, draft >>
vars == << db, cache, local, reply >>

Key == [case : Cases, evidence : SUBSET EvidenceIds]

Statuses == {"HYPOTHESIS_GENERATED", "AI_UNAVAILABLE", "INSUFFICIENT_EVIDENCE",
             "AI_INVALID_OUTPUT"}

(* A hypothesis: the snapshot and the pins it was generated from. *)
Hypothesis == [from : Key, pins : SUBSET EvidenceIds, status : Statuses]

Reply == [key : Key, hypothesis : Hypothesis]

NoKey == [case |-> CHOOSE c \in Cases : TRUE, evidence |-> {}]

Cached == DOMAIN hypothesis_cache

ApiInit == /\ Init
           /\ hypothesis_cache = [k \in {} |-> NoDraft]
           /\ in_flight_locks = [k \in {} |-> NoThread]
           /\ pc = [t \in Threads |-> "idle"]
           /\ key = [t \in Threads |-> NoKey]
           /\ pins = [t \in Threads |-> {}]
           /\ draft = [t \in Threads |-> NoDraft]
           /\ reply = [t \in Threads |-> NoReply]

Goto(t, where) == pc' = [pc EXCEPT ![t] = where]

(* The handler is over; its locals are gone. *)
Done(t) == /\ Goto(t, "idle")
           /\ key' = [key EXCEPT ![t] = NoKey]
           /\ pins' = [pins EXCEPT ![t] = {}]
           /\ draft' = [draft EXCEPT ![t] = NoDraft]

Answer(t, h) ==
    /\ reply' = [reply EXCEPT ![t] = [key |-> key[t], hypothesis |-> h]]
    /\ Done(t)

(* A mutant: the lock is never left. *)
KeepKey(t) == UNCHANGED in_flight_locks

(* Leaving `with key_lock', by return or by exception. *)
ReleaseKey(t) == in_flight_locks' = [in_flight_locks EXCEPT ![key[t]] = NoThread]

CurrentKey(c) == [case |-> c, evidence |-> cases[c]]

-----------------------------------------------------------------------------
(* POST /cases. *)
Create(c, ev) == /\ CreateCase(c, ev)
                 /\ UNCHANGED << cache, local, reply >>

(* POST /cases/{case_id}/evidence/pin: set_pin commits or finds nothing to *)
(* change ...                                                              *)
Pin(t, c, cmd, expected) ==
    /\ pc[t] = "idle"
    /\ SetPin(c, cmd, expected)
    /\ Goto(t, "invalidate")
    /\ key' = [key EXCEPT ![t].case = c]
    /\ UNCHANGED << cache, pins, draft, reply >>

(* The cache without the entries of a case; a mutant that clears them and  *)
(* keeps the keys.                                                         *)
WithoutValues(c) ==
    [k \in Cached |-> IF k.case = c THEN NoDraft ELSE hypothesis_cache[k]]
Without(c) == Restrict(hypothesis_cache, {k \in Cached : k.case # c})

(* ... and then, under global_cache_lock, the cache of the case is emptied. *)
Invalidate(t) ==
    /\ pc[t] = "invalidate"
    /\ hypothesis_cache' = Without(key[t].case)
    /\ Done(t)
    /\ UNCHANGED << db, in_flight_locks, reply >>

-----------------------------------------------------------------------------
(* Both reading handlers take the case and its pins in one transaction.    *)
ReadCase(t, c, where) ==
    /\ pc[t] = "idle"
    /\ cases[c] # NoCase
    /\ key' = [key EXCEPT ![t] = CurrentKey(c)]
    /\ pins' = [pins EXCEPT ![t] = {case_evidence[c][e].evidence : e \in PinnedEdges(c)}]
    /\ Goto(t, where)
    /\ UNCHANGED << db, cache, draft, reply >>

(* POST /cases/{case_id}/hypothesis, with the current hash as body. *)
Ask(t, c) == ReadCase(t, c, "lookup")

(* Under global_cache_lock: answer from the cache, or find or create the   *)
(* lock of the key.                                                        *)
LookupHit(t) ==
    /\ pc[t] = "lookup"
    /\ key[t] \in Cached
    /\ Answer(t, hypothesis_cache[key[t]])
    /\ UNCHANGED << db, cache >>

LookupMiss(t) ==
    /\ pc[t] = "lookup"
    /\ key[t] \notin Cached
    /\ in_flight_locks' =
         [k \in DOMAIN in_flight_locks \cup {key[t]} |->
            IF k \in DOMAIN in_flight_locks THEN in_flight_locks[k] ELSE NoThread]
    /\ Goto(t, "waiting")
    /\ UNCHANGED << db, hypothesis_cache, key, pins, draft, reply >>

(* A mutant: nobody waits for the lock. *)
AcquireKeyAnyway(t) ==
    /\ pc[t] = "waiting"
    /\ in_flight_locks' = [in_flight_locks EXCEPT ![key[t]] = t]
    /\ Goto(t, "locked")
    /\ UNCHANGED << db, hypothesis_cache, key, pins, draft, reply >>

AcquireKey(t) ==
    /\ pc[t] = "waiting"
    /\ in_flight_locks[key[t]] = NoThread
    /\ in_flight_locks' = [in_flight_locks EXCEPT ![key[t]] = t]
    /\ Goto(t, "locked")
    /\ UNCHANGED << db, hypothesis_cache, key, pins, draft, reply >>

(* The second look at the cache, now with the key's lock. *)
SecondLookHit(t) ==
    /\ pc[t] = "locked"
    /\ key[t] \in Cached
    /\ Answer(t, hypothesis_cache[key[t]])
    /\ ReleaseKey(t)
    /\ UNCHANGED << db, hypothesis_cache >>

SecondLookMiss(t) ==
    /\ pc[t] = "locked"
    /\ key[t] \notin Cached
    /\ Goto(t, "generating")
    /\ UNCHANGED << db, cache, key, pins, draft, reply >>

PinsBelong(t) == pins[t] \subseteq key[t].evidence

(* What investigate_case_workflow returns: the provider (external) may     *)
(* answer, fail, be over budget or give no valid output.                   *)
Outcomes(k) == IF k.evidence = {} THEN {"INSUFFICIENT_EVIDENCE"}
               ELSE {"HYPOTHESIS_GENERATED", "AI_UNAVAILABLE", "AI_INVALID_OUTPUT"}

Generate(t) ==
    /\ pc[t] = "generating"
    /\ PinsBelong(t)
    /\ \E s \in Outcomes(key[t]) :
          draft' = [draft EXCEPT ![t] = [from |-> key[t], pins |-> pins[t], status |-> s]]
    /\ Goto(t, "generated")
    /\ UNCHANGED << db, cache, key, pins, reply >>

(* The workflow raises: pins outside the snapshot, or an exception of the  *)
(* provider that nobody catches.                                           *)
WorkflowRaises(t) ==
    /\ pc[t] = "generating"
    /\ ReleaseKey(t)
    /\ Done(t)
    /\ UNCHANGED << db, hypothesis_cache, reply >>

(* The case is read again; 409 if it moved while the workflow ran. *)
RecheckConflict(t) ==
    /\ pc[t] = "generated"
    /\ CurrentKey(key[t].case) # key[t]
    /\ ReleaseKey(t)
    /\ Done(t)
    /\ UNCHANGED << db, hypothesis_cache, reply >>

RecheckSame(t) ==
    /\ pc[t] = "generated"
    /\ CurrentKey(key[t].case) = key[t]
    /\ Goto(t, "storing")
    /\ UNCHANGED << db, cache, key, pins, draft, reply >>

(* Under global_cache_lock the new hypothesis replaces those of the case;  *)
(* then the thread answers and leaves the key's lock.                      *)
Store(t) ==
    /\ pc[t] = "storing"
    /\ LET rest == Without(key[t].case)
       IN  hypothesis_cache' = [k \in DOMAIN rest \cup {key[t]} |->
                                   IF k = key[t] THEN draft[t] ELSE rest[k]]
    /\ Answer(t, draft[t])
    /\ ReleaseKey(t)
    /\ UNCHANGED db

-----------------------------------------------------------------------------
(* GET /cases/{case_id}/workbench takes no lock: it asks whether the key   *)
(* is cached, and then fetches it.                                         *)
View(t, c) == ReadCase(t, c, "viewing")

ViewMiss(t) ==
    /\ pc[t] = "viewing"
    /\ key[t] \notin Cached
    /\ Done(t)
    /\ UNCHANGED << db, cache, reply >>

ViewHit(t) ==
    /\ pc[t] = "viewing"
    /\ key[t] \in Cached
    /\ Goto(t, "fetching")
    /\ UNCHANGED << db, cache, key, pins, draft, reply >>

Fetch(t) ==
    /\ pc[t] = "fetching"
    /\ key[t] \in Cached
    /\ Answer(t, hypothesis_cache[key[t]])
    /\ UNCHANGED << db, cache >>

(* The entry went away after the look: KeyError, status 500. *)
FetchKeyError(t) ==
    /\ pc[t] = "fetching"
    /\ key[t] \notin Cached
    /\ Done(t)
    /\ UNCHANGED << db, cache, reply >>

(* The process restarts: lifespan and create_app build everything anew.    *)
Restart ==
    /\ hypothesis_cache' = [k \in {} |-> NoDraft]
    /\ in_flight_locks' = [k \in {} |-> NoThread]
    /\ pc' = [t \in Threads |-> "idle"]
    /\ key' = [t \in Threads |-> NoKey]
    /\ pins' = [t \in Threads |-> {}]
    /\ draft' = [t \in Threads |-> NoDraft]
    /\ reply' = [t \in Threads |-> NoReply]
    /\ UNCHANGED db

Request(t) ==
    \E c \in Cases :
        \/ \E cmd \in Command, h \in case_snapshots[c] : Pin(t, c, cmd, h)
        \/ Ask(t, c)
        \/ View(t, c)

(* The steps of a handler that is under way, but for the wait on the lock. *)
Handle(t) ==
    \/ Invalidate(t)
    \/ LookupHit(t) \/ LookupMiss(t)
    \/ SecondLookHit(t) \/ SecondLookMiss(t)
    \/ Generate(t) \/ WorkflowRaises(t)
    \/ RecheckConflict(t) \/ RecheckSame(t) \/ Store(t)
    \/ ViewMiss(t) \/ ViewHit(t) \/ Fetch(t) \/ FetchKeyError(t)

ApiNext ==
    \/ \E c \in Cases, ev \in SUBSET evidence_items : Create(c, ev)
    \/ \E t \in Threads : Request(t) \/ Handle(t) \/ AcquireKey(t)
    \/ Restart

ApiSpec == ApiInit /\ [][ApiNext]_vars

(* A handler that can run runs on, and a lock that is free again and again *)
(* is given to a thread that waits for it.                                 *)
FairApiSpec ==
    /\ ApiSpec
    /\ \A t \in Threads : WF_vars(Handle(t)) /\ SF_vars(AcquireKey(t))

-----------------------------------------------------------------------------
(* Properties. *)

Holding == {"locked", "generating", "generated", "storing"}

ApiTypeOK ==
    /\ TypeOK
    /\ IsFiniteSet(Cached) /\ Cached \subseteq Key
    /\ hypothesis_cache \in [Cached -> Hypothesis]
    /\ DOMAIN in_flight_locks \subseteq Key
    /\ in_flight_locks \in [DOMAIN in_flight_locks -> Threads \cup {NoThread}]
    /\ pc \in [Threads -> {"idle", "invalidate", "lookup", "waiting", "viewing",
                           "fetching"} \cup Holding]
    /\ key \in [Threads -> Key]
    /\ pins \in [Threads -> SUBSET EvidenceIds]
    /\ draft \in [Threads -> Hypothesis \cup {NoDraft}]
    /\ reply \in [Threads -> Reply \cup {NoReply}]

(* h was generated from the snapshot k and from exactly the pins that the  *)
(* audit trail of k says were active in it.                                *)
IsFor(h, k) == /\ h.from = k
               /\ h.pins = {Obs(k.case, e) : e \in PinsAt(k.case, k.evidence)}

(* Whatever pins commit while hypotheses are generated, stored, evicted    *)
(* and read without a lock, every cached and every delivered hypothesis is *)
(* one of the very snapshot it is shown with.                              *)
HypothesisOfSnapshot ==
    /\ \A k \in Cached : IsFor(hypothesis_cache[k], k)
    /\ \A t \in Threads : reply[t] # NoReply => IsFor(reply[t].hypothesis, reply[t].key)

(* Two threads never run the paid workflow for the same snapshot at once,  *)
(* and a key's lock is held by a thread that is between taking and leaving *)
(* it: no path leaves the handler with the lock.                           *)
SingleFlight ==
    /\ \A t, u \in Threads :
          pc[t] \in Holding /\ pc[u] \in Holding /\ key[t] = key[u] => t = u
    /\ \A k \in DOMAIN in_flight_locks :
          in_flight_locks[k] # NoThread =>
             pc[in_flight_locks[k]] \in Holding /\ key[in_flight_locks[k]] = k

(* Every request ends, also those that wait for another one's hypothesis.  *)
RequestsEnd == \A t \in Threads : pc[t] # "idle" ~> pc[t] = "idle"

(* README line 117: the workbench retrieves the hypothesis.  An entry that *)
(* get_workbench has seen in the cache is there when it fetches it.        *)
ViewNeverFails == \A t \in Threads : pc[t] = "fetching" => key[t] \in Cached

=============================================================================
