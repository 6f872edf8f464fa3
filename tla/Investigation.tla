--------------------------- MODULE Investigation ---------------------------
(***************************************************************************)
(* investigate_case_workflow (src/src/fincrime/agent/workflow.py): which   *)
(* evidence of a case goes into the prompt, what the provider may answer,  *)
(* and what of its answer becomes a hypothesis.  One call of it, for every *)
(* case, set of pins and answer; the budget of the call is Budget, the     *)
(* threads that make such calls are CaseApi.                               *)
(***************************************************************************)
EXTENDS Integers, Sequences, FiniteSets, SequencesExt

CONSTANTS
    Items,      \* evidence ids, numbered in their order
    Limit,      \* 50 in the code: items of each kind in a prompt
    Citations,  \* the citations the provider may put into a claim
    MaxClaims   \* bound on the claims of an answer

ASSUME InvestigationAssumption ==
    /\ Items \subseteq Nat /\ IsFiniteSet(Items)
    /\ Limit \in Nat \ {0} /\ MaxClaims \in Nat
    /\ \A ids \in Citations : ids # {}

(* "UNKNOWN" also stands for MISSING: neither tool asks for them. *)
Polarities == {"SUPPORTING", "MITIGATING", "UNKNOWN"}

(* A call: the evidence of the case and its polarities, the pins, whether  *)
(* the caller gives the snapshot, and whether there is a provider.         *)
Call == [evidence : SUBSET Items, polarity : [Items -> Polarities],
         pinned : SUBSET Items, snapshot : BOOLEAN, provider : BOOLEAN]

Statuses == {"HYPOTHESIS_GENERATED", "INSUFFICIENT_EVIDENCE", "AI_UNAVAILABLE",
             "AI_INVALID_OUTPUT"}

VARIABLES
    call,    \* the arguments, and the case they lead to
    stage,   \* how far the call is
    prompt,  \* ordered_evidence
    raw,     \* the citations of raw_output.claims, one set for each claim
    valid,   \* valid_claims
    status   \* of the hypothesis that is returned

vars == << call, stage, prompt, raw, valid, status >>

Init == /\ call \in Call
        /\ stage = "called"
        /\ prompt = << >> /\ raw = << >> /\ valid = << >>
        /\ status = "none"

Return(s) == /\ stage' = "returned"
             /\ status' = s

(* The workflow raises: a pin is no evidence of the case. *)
RaisePins ==
    /\ stage = "called"
    /\ ~(call.pinned \subseteq call.evidence)
    /\ stage' = "raised"
    /\ UNCHANGED << call, prompt, raw, valid, status >>

(* Neither costs a call: a case without evidence, and LLM_OFF. *)
ReturnEarly ==
    /\ stage = "called"
    /\ call.pinned \subseteq call.evidence
    /\ \/ call.evidence = {} /\ Return("INSUFFICIENT_EVIDENCE")
       \/ call.evidence # {} /\ ~call.provider /\ Return("AI_UNAVAILABLE")
    /\ UNCHANGED << call, prompt, raw, valid >>

-----------------------------------------------------------------------------
(* sorted(S) *)
Sorted(S) == CHOOSE s \in [1..Cardinality(S) -> S] :
                \A m, n \in DOMAIN s : m < n => s[m] < s[n]

(* The first items of a sorted list, S[:50]. *)
Cut(S) == {i \in S : Cardinality({j \in S : j < i}) < Limit}

Of(c, p) == {i \in c.evidence : c.polarity[i] = p}

(* A list, and after it the items that are not there yet (seen_ids): those *)
(* come sorted.                                                            *)
Followed(s, S) == s \o Sorted(S \ ToSet(s))

(* A mutant: one limit for pins and mitigating items together. *)
OrderedEvidenceCrowded(c) ==
    LET both == Followed(Sorted(Cut(c.pinned)), Cut(Of(c, "MITIGATING")))
    IN  Followed([n \in {m \in DOMAIN both : m <= Limit} |-> both[n]], Cut(Of(c, "SUPPORTING")))

(* ordered_evidence of a call. *)
OrderedEvidence(c) ==
    IF c.snapshot \/ c.pinned # {}
    THEN Followed(Followed(Sorted(Cut(c.pinned)), Cut(Of(c, "MITIGATING"))),
                  Cut(Of(c, "SUPPORTING")))
    ELSE Sorted(Cut(Of(c, "SUPPORTING"))) \o Sorted(Cut(Of(c, "MITIGATING")))

(* The evidence and the trace are read; a trace that fails is logged only. *)
BuildPrompt ==
    /\ stage = "called"
    /\ call.pinned \subseteq call.evidence
    /\ call.evidence # {} /\ call.provider
    /\ prompt' = OrderedEvidence(call)
    /\ stage' = "asked"
    /\ UNCHANGED << call, raw, valid, status >>

(* The provider raises what the workflow does not catch (the JSON body of  *)
(* its answer was no object): so does the workflow.                        *)
ProviderRaises ==
    /\ stage = "asked"
    /\ stage' = "raised"
    /\ UNCHANGED << call, prompt, raw, valid, status >>

(* Over budget, or the call failed. *)
ProviderUnavailable ==
    /\ stage = "asked"
    /\ Return("AI_UNAVAILABLE")
    /\ UNCHANGED << call, prompt, raw, valid >>

(* The content is no RawHypothesisOutput. *)
ProviderInvalid ==
    /\ stage = "asked"
    /\ Return("AI_INVALID_OUTPUT")
    /\ UNCHANGED << call, prompt, raw, valid >>

(* A well-formed answer, which may cite anything. *)
ProviderAnswers ==
    /\ stage = "asked"
    /\ \E n \in 0..MaxClaims : raw' \in [1..n -> Citations]
    /\ stage' = "checking"
    /\ UNCHANGED << call, prompt, valid, status >>

-----------------------------------------------------------------------------
(* A mutant: whatever the case has may be cited. *)
AllowedOfCase == call.evidence

(* allowed_ids: what the provider was shown. *)
Allowed == ToSet(prompt)

(* One citation of something else, and nothing of the answer is kept. *)
RejectClaim ==
    /\ stage = "checking" /\ Len(valid) < Len(raw)
    /\ ~(raw[Len(valid) + 1] \subseteq Allowed)
    /\ valid' = << >>
    /\ Return("AI_INVALID_OUTPUT")
    /\ UNCHANGED << call, prompt, raw >>

AcceptClaim ==
    /\ stage = "checking" /\ Len(valid) < Len(raw)
    /\ raw[Len(valid) + 1] \subseteq Allowed
    /\ valid' = Append(valid, raw[Len(valid) + 1])
    /\ UNCHANGED << call, stage, prompt, raw, status >>

ReturnHypothesis ==
    /\ stage = "checking" /\ Len(valid) = Len(raw)
    /\ Return("HYPOTHESIS_GENERATED")
    /\ UNCHANGED << call, prompt, raw, valid >>

Next == \/ RaisePins \/ ReturnEarly \/ BuildPrompt
        \/ ProviderRaises \/ ProviderUnavailable \/ ProviderInvalid \/ ProviderAnswers
        \/ RejectClaim \/ AcceptClaim \/ ReturnHypothesis

Spec == Init /\ [][Next]_vars

-----------------------------------------------------------------------------
(* Properties. *)

(* A hypothesis has every claim of the answer and cites only evidence of   *)
(* the snapshot that the provider was shown; any other outcome has no      *)
(* claim at all, not even those that were found good before a bad one.     *)
ClaimsAreGrounded ==
    stage = "returned" =>
        IF status = "HYPOTHESIS_GENERATED"
        THEN /\ valid = raw
             /\ UNION ToSet(valid) \subseteq ToSet(prompt) \cap call.evidence
        ELSE valid = << >>

(* Attention only adds: with pins the provider sees everything it would    *)
(* have seen without them, the mitigating items ("retain mitigating        *)
(* evidence") as well as the supporting ones; up to the limit it sees      *)
(* every pin, whatever its polarity, so that an answer which cites a pin   *)
(* the prompt names is not thrown away; and no item is shown twice.        *)
AttentionOnlyAdds ==
    stage = "asked" =>
        /\ ToSet(OrderedEvidence([call EXCEPT !.pinned = {}])) \subseteq ToSet(prompt)
        /\ Cardinality(call.pinned) <= Limit => call.pinned \subseteq ToSet(prompt)
        /\ IsInjective(prompt)
=============================================================================
