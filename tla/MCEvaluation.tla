---------------------------- MODULE MCEvaluation ----------------------------
(***************************************************************************)
(* Two gold cases, which may be one case twice and may share an item of    *)
(* which they say different things, on stores that are empty or hold the   *)
(* first case with other evidence.  With the empty corpus: every call of   *)
(* the API on a case of up to four items.  The limit is two items, and     *)
(* answers have up to two claims, which may cite item 5 of another case.   *)
(***************************************************************************)
EXTENDS Evaluation

MCCases == {"gold-1", "gold-2"}

Supporting == [i \in Items |-> "SUPPORTING"]
Mixed      == [i \in Items |-> IF i = 1 THEN "MITIGATING" ELSE "SUPPORTING"]

First(m) == [case |-> "gold-1", evidence |-> {1, 2, 3}, polarity |-> Supporting, mode |-> m,
             expected |-> "HYPOTHESIS_GENERATED"]

Seconds == {[case |-> c, evidence |-> ev, polarity |-> Mixed, mode |-> "DEEPSEEK_ON",
             expected |-> "INSUFFICIENT_EVIDENCE"] : c \in MCCases, ev \in {{}, {1, 4}}}

MCCorpora == {<< First(m), g >> : m \in {"DEEPSEEK_ON", "LLM_OFF"}, g \in Seconds}

Empty == [cases |-> [c \in MCCases |-> NoCase], items |-> [i \in Items |-> NoItem]]
InUse == [cases |-> [c \in MCCases |-> IF c = "gold-1" THEN {1, 4} ELSE NoCase],
          items |-> [i \in Items |-> IF i = 1 THEN "MITIGATING"
                                     ELSE IF i = 4 THEN "SUPPORTING" ELSE NoItem]]

MCStores == {Empty, InUse}
=============================================================================
