----------------------------- MODULE Evaluation -----------------------------
(***************************************************************************)
(* evaluate_corpus (src/src/fincrime/agent/evaluation.py): gold cases are  *)
(* put into a store that may hold other content under their ids, and the   *)
(* workflow of Investigation runs on each of them, one after the other.    *)
(* The mock provider of the corpus is one of the providers Investigation   *)
(* allows; latencies, and the tokens and costs of the attempts, are left   *)
(* out (the ledger is Budget).                                             *)
(*                                                                         *)
(* With an empty corpus the behaviours are those of Investigation: one     *)
(* call by the API, with pins and a snapshot.                              *)
(***************************************************************************)
EXTENDS Investigation

CONSTANTS
    Cases,           \* case ids
    Corpora,         \* the manifests: sequences of gold cases
    Stores,          \* what the stores hold before the evaluation
    NoCase, NoItem   \* no case under an id; no evidence under an id

(* A gold case; item i stands for its evidence id, polarity[i] for what    *)
(* the manifest says the evidence is.                                      *)
Gold == [case : Cases, evidence : SUBSET Items, polarity : [Items -> Polarities],
         mode : {"DEEPSEEK_ON", "LLM_OFF"}, expected : Statuses]

(* Stored cases have stored evidence: CaseService.create looks.            *)
Store == {s \in [cases : [Cases -> (SUBSET Items) \cup {NoCase}],
                 items : [Items -> Polarities \cup {NoItem}]] :
             \A c \in Cases : s.cases[c] # NoCase =>
                 \A i \in s.cases[c] : s.items[i] # NoItem}

ASSUME EvaluationAssumption == /\ Corpora \subseteq Seq(Gold) /\ << >> \notin Corpora
                               /\ Stores \subseteq Store
                               /\ NoItem \notin Polarities
                               /\ \A ev \in SUBSET Items : NoCase # ev

VARIABLES
    corpus,     \* manifest_data.cases
    store,      \* the case service and the evidence store
    populated,  \* how many gold cases were put
    evaluated,  \* how many of them were evaluated
    metrics     \* the sums of evaluate_corpus

eval == << corpus, store, populated, evaluated, metrics >>
evalVars == << vars, eval >>

Zero == [valid_citations |-> 0, total_citations |-> 0, claims |-> 0,
         claims_with_valid |-> 0, unsupported |-> 0, abstained |-> 0, passed |-> 0]

EvalInit ==
    /\ store \in Stores
    /\ populated = 0 /\ evaluated = 0 /\ metrics = Zero
    /\ \/ corpus = << >> /\ Init
       \/ /\ corpus \in Corpora
          /\ call = [evidence |-> {}, polarity |-> [i \in Items |-> "UNKNOWN"],
                     pinned |-> {}, snapshot |-> FALSE, provider |-> FALSE]
          /\ stage = "none" /\ status = "none"
          /\ prompt = << >> /\ raw = << >> /\ valid = << >>

-----------------------------------------------------------------------------
(* populate_corpus_fixtures. *)

(* Evidence that is there stays; EvidenceConflict is passed over. *)
Put(items, g) ==
    [i \in Items |-> IF i \in g.evidence /\ items[i] = NoItem THEN g.polarity[i] ELSE items[i]]

(* The case is put when the evidence store has all its evidence, and       *)
(* CaseConflict is passed over; EvidenceNotFound ends the evaluation.      *)
PopulateCase ==
    /\ populated < Len(corpus) /\ stage # "raised"
    /\ LET g == corpus[populated + 1]
           items == Put(store.items, g)
       IN  IF \E i \in g.evidence : items[i] = NoItem
           THEN /\ store' = [store EXCEPT !.items = items]
                /\ stage' = "raised"
                /\ UNCHANGED populated
           ELSE /\ store' = [items |-> items,
                             cases |-> [store.cases EXCEPT ![g.case] =
                                          IF @ = NoCase THEN g.evidence ELSE @]]
                /\ populated' = populated + 1
                /\ UNCHANGED stage
    /\ UNCHANGED << call, prompt, raw, valid, status, corpus, evaluated, metrics >>

-----------------------------------------------------------------------------
(* The loop over the cases. *)

(* wf.run(cid): no snapshot is given and nothing is pinned, and LLM_OFF    *)
(* has settings without a key (key: whether the active settings have one). *)
(* A call that raised has ended the evaluation.                            *)
RunCase(key) ==
    /\ populated = Len(corpus) /\ evaluated < Len(corpus)
    /\ stage \in {"none", "counted"}
    /\ LET g == corpus[evaluated + 1]
       IN  call' = [evidence |-> store.cases[g.case],
                    polarity |-> [i \in Items |-> IF store.items[i] = NoItem THEN "UNKNOWN"
                                                  ELSE store.items[i]],
                    pinned |-> {}, snapshot |-> FALSE,
                    provider |-> key /\ g.mode # "LLM_OFF"]
    /\ stage' = "called" /\ status' = "none"
    /\ prompt' = << >> /\ raw' = << >> /\ valid' = << >>
    /\ UNCHANGED eval

(* A mutant: the evidence of the manifest is what may be cited. *)
AuthorizedByManifest == corpus[evaluated + 1].evidence

(* authorized_eids: of the case as it is stored. *)
Authorized == store.cases[corpus[evaluated + 1].case]

(* The citations of S: one for each claim and each id it cites. *)
CitationsOf(S) ==
    {cit \in (DOMAIN valid) \X (UNION ToSet(valid)) : cit[2] \in valid[cit[1]] \cap S}

(* The sums after a case: hyp.claims is valid. *)
Counted(m) ==
    LET bad == {n \in DOMAIN valid : valid[n] = {} \/ ~(valid[n] \subseteq Authorized)}
        good == {n \in DOMAIN valid : valid[n] \cap Authorized # {}}
    IN  [valid_citations |-> m.valid_citations + Cardinality(CitationsOf(Authorized)),
         total_citations |-> m.total_citations + Cardinality(CitationsOf(UNION ToSet(valid))),
         claims |-> m.claims + Len(valid),
         claims_with_valid |-> m.claims_with_valid + Cardinality(good),
         unsupported |-> m.unsupported + Cardinality(bad),
         abstained |-> m.abstained
                       + IF status \in {"INSUFFICIENT_EVIDENCE", "AI_UNAVAILABLE"} THEN 1 ELSE 0,
         passed |-> m.passed + IF status = corpus[evaluated + 1].expected THEN 1 ELSE 0]

CountCase ==
    /\ evaluated < Len(corpus) /\ stage = "returned"
    /\ metrics' = Counted(metrics)
    /\ evaluated' = evaluated + 1
    /\ stage' = "counted"
    /\ UNCHANGED << call, prompt, raw, valid, status, corpus, store, populated >>

EvalNext == \/ Next /\ UNCHANGED eval
            \/ PopulateCase \/ CountCase
            \/ \E key \in BOOLEAN : RunCase(key)

EvalSpec == EvalInit /\ [][EvalNext]_evalVars

-----------------------------------------------------------------------------
(* Properties. *)

(* What the evaluation reports of citations says nothing of the provider:  *)
(* whatever it answers, and whatever the stores held, precision and        *)
(* coverage are 1 and no claim is unsupported (evaluation.py lines         *)
(* 449-462), because the workflow drops an answer with a bad citation as a *)
(* whole.  Such an answer shows in the statuses only, and is not counted   *)
(* as abstention.                                                          *)
MetricsAreClean ==
    /\ metrics.valid_citations = metrics.total_citations
    /\ metrics.claims_with_valid = metrics.claims
    /\ metrics.unsupported = 0
    /\ metrics.claims > 0 => metrics.abstained < evaluated
=============================================================================
