------------------------------- MODULE Budget -------------------------------
(***************************************************************************)
(* The AI budget: BudgetController (src/src/fincrime/agent/settings.py)    *)
(* used by the request threads of the case API through                     *)
(* GuardedDeepSeekProvider.generate_hypothesis (agent/deepseek.py).  Each  *)
(* thread reserves, marks its attempt dispatched, posts to the provider    *)
(* and reconciles; every controller method runs under the controller's     *)
(* lock and is one step.  The provider and the calendar are external; the  *)
(* ledger is in memory only, so a restart of the process forgets it.       *)
(***************************************************************************)
EXTENDS Integers, Sequences, FiniteSets

CONSTANTS
    Threads,      \* request threads of the API process
    Cases,        \* case ids
    PromptSizes,  \* sizes in bytes of the prompts
    UsageCounts,  \* token counts that a provider's reports may hold
    LastMonth,    \* months are 1..LastMonth (bound on the calendar)
    MaxCalls,     \* max_calls_per_case
    MaxInput,     \* max_input_tokens_per_case
    MaxOutput,    \* max_output_tokens_per_case
    MonthlyCap,   \* monthly_cap_vnd
    MaxAttempts,  \* bound on the attempts recorded between two restarts
    MaxRestarts,  \* bound on the restarts of the process
    NoRequest     \* no request: the thread is idle

ASSUME BudgetAssumption ==
    /\ PromptSizes \subseteq Nat \ {0}   \* a prompt is never empty
    /\ UsageCounts \subseteq Nat \ {0}   \* strict ints above zero
    /\ LastMonth \in Nat \ {0}
    /\ MaxAttempts \in Nat /\ MaxRestarts \in Nat
    /\ MaxCalls \in Nat /\ MaxInput \in Nat /\ MaxOutput \in Nat
    /\ MonthlyCap \in Nat

Months == 1..LastMonth

VARIABLES
    attempts,  \* _attempts: attempt id n is att-00000n
    bills,     \* what the provider charges for each of the attempts
    forgotten, \* forgotten[m]: charges of m whose attempts a restart lost
    forgottenAbove, \* how much of them was above the attempts' reservations
    month,     \* the calendar month
    restarts,  \* restarts so far (bounded)
    pc,        \* where each thread is in generate_hypothesis
    request,   \* case, prompt size and month key of the thread's reserve call
    token,     \* the attempt id of the thread's ReservationToken, or 0
    reply      \* what the thread's HTTP call ended with

thread == << pc, request, token, reply >>
lost == << forgotten, forgottenAbove >>
vars == << attempts, bills, lost, month, restarts, thread >>

Statuses == {"RESERVED", "DISPATCHED", "RECONCILED", "RELEASED"}

Attempt == [case : Cases, month : Months, resIn : Nat, resOut : Nat,
            resVnd : Nat, actIn : Nat, actOut : Nat, actVnd : Nat,
            status : Statuses]

Request == [case : Cases, size : PromptSizes, month : Months]

ASSUME NoRequestAssumption == NoRequest \notin Request

(* How a call ends: usage counts that are strict ints above zero, a body   *)
(* without such counts, a JSON body that is no object, or no usable answer *)
(* at all (transport error, timeout, HTTP status, body that is no JSON).   *)
Reply == [kind : {"usage"}, in : Nat, out : Nat]
         \cup [kind : {"no_usage", "not_object", "failed", "none"}]

NoReply == [kind |-> "none"]

-----------------------------------------------------------------------------
(* calc_reserved_cost, in VND; calc_actual_cost is the same formula. *)
Cost(in, out) == (7 * in + 28 * out + 1999) \div 2000

(* The sum of a function into Nat, as the size of a disjoint union.        *)
Units(f) == UNION {{i} \X (1..f[i]) : i \in DOMAIN f}
Total(f) == Cardinality(Units(f))

(* What an attempt counts for: its actual figures once settled, its        *)
(* reservation while pending, nothing once released.                       *)
Held(a, reserved, actual) ==
    IF a.status = "RECONCILED" THEN actual
    ELSE IF a.status = "RELEASED" THEN 0 ELSE reserved

Ids == 1..Len(attempts)

CallsOf(c) == Cardinality({i \in Ids : /\ attempts[i].case = c
                                       /\ attempts[i].status # "RELEASED"})

HeldIn(c) == [i \in Ids |-> LET a == attempts[i]
                            IN  IF a.case = c THEN Held(a, a.resIn, a.actIn) ELSE 0]
(* A mutant: output counts while a call is pending only. *)
HeldOutPending(c) ==
    [i \in Ids |-> LET a == attempts[i]
                   IN  IF a.case = c /\ a.status \in {"RESERVED", "DISPATCHED"} THEN a.resOut ELSE 0]
HeldOut(c) == [i \in Ids |-> LET a == attempts[i]
                             IN  IF a.case = c THEN Held(a, a.resOut, a.actOut) ELSE 0]
HeldVnd(m) == [i \in Ids |-> LET a == attempts[i]
                             IN  IF a.month = m THEN Held(a, a.resVnd, a.actVnd) ELSE 0]

(* available_out: a reservation takes all of it. *)
AvailableOut(c) == MaxOutput - Total(HeldOut(c))

(* Mutants of the checks: no monthly cap, the current month in place of the *)
(* month the request was made in.                                          *)
AffordableAnyMonth(q) ==
    /\ CallsOf(q.case) + 1 <= MaxCalls
    /\ Total(HeldIn(q.case)) + q.size <= MaxInput
    /\ AvailableOut(q.case) > 0
AffordableThisMonth(q) ==
    /\ AffordableAnyMonth(q)
    /\ Total(HeldVnd(month)) + Cost(q.size, AvailableOut(q.case)) <= MonthlyCap

(* The checks of reserve, in its order; any of them failing raises         *)
(* BudgetExceededError.                                                    *)
Affordable(q) ==
    /\ CallsOf(q.case) + 1 <= MaxCalls
    /\ Total(HeldIn(q.case)) + q.size <= MaxInput
    /\ AvailableOut(q.case) > 0
    /\ Total(HeldVnd(q.month)) + Cost(q.size, AvailableOut(q.case)) <= MonthlyCap

(* Mutants of the record: one output token only, the month after. *)
ReservationOfOne(q) ==
    [case |-> q.case, month |-> q.month, resIn |-> q.size, resOut |-> 1,
     resVnd |-> Cost(q.size, 1),
     actIn |-> 0, actOut |-> 0, actVnd |-> 0, status |-> "RESERVED"]
ReservationNextMonth(q) ==
    [case |-> q.case, month |-> q.month + 1, resIn |-> q.size,
     resOut |-> AvailableOut(q.case),
     resVnd |-> Cost(q.size, AvailableOut(q.case)),
     actIn |-> 0, actOut |-> 0, actVnd |-> 0, status |-> "RESERVED"]

(* The pending AttemptRecord of reserve. *)
Reservation(q) ==
    [case |-> q.case, month |-> q.month, resIn |-> q.size,
     resOut |-> AvailableOut(q.case),
     resVnd |-> Cost(q.size, AvailableOut(q.case)),
     actIn |-> 0, actOut |-> 0, actVnd |-> 0, status |-> "RESERVED"]

-----------------------------------------------------------------------------
Init == /\ attempts = << >>
        /\ bills = << >>
        /\ forgotten = [m \in Months |-> 0]
        /\ forgottenAbove = [m \in Months |-> 0]
        /\ month = 1
        /\ restarts = 0
        /\ pc = [t \in Threads |-> "idle"]
        /\ request = [t \in Threads |-> NoRequest]
        /\ token = [t \in Threads |-> 0]
        /\ reply = [t \in Threads |-> NoReply]

(* reserve reads the clock and sizes the prompt before it takes the lock. *)
Call(t) ==
    /\ pc[t] = "idle"
    /\ Len(attempts) < MaxAttempts
    /\ \E c \in Cases, n \in PromptSizes :
          request' = [request EXCEPT ![t] = [case |-> c, size |-> n, month |-> month]]
    /\ pc' = [pc EXCEPT ![t] = "reserve"]
    /\ UNCHANGED << attempts, bills, lost, month, restarts, token, reply >>

(* The thread leaves generate_hypothesis, by return or by exception. *)
Leave(t) == /\ pc' = [pc EXCEPT ![t] = "idle"]
            /\ request' = [request EXCEPT ![t] = NoRequest]
            /\ token' = [token EXCEPT ![t] = 0]
            /\ reply' = [reply EXCEPT ![t] = NoReply]

Refuse(t) == /\ pc[t] = "reserve"
             /\ ~Affordable(request[t])
             /\ Leave(t)
             /\ UNCHANGED << attempts, bills, lost, month, restarts >>

Reserve(t) ==
    /\ pc[t] = "reserve"
    /\ Affordable(request[t])
    /\ attempts' = Append(attempts, Reservation(request[t]))
    /\ bills' = Append(bills, 0)
    /\ token' = [token EXCEPT ![t] = Len(attempts) + 1]
    /\ pc' = [pc EXCEPT ![t] = "reserved"]
    /\ UNCHANGED << lost, month, restarts, request, reply >>

(* The status of attempt n, and a mutant that takes the last attempt. *)
SetStatusOfLast(n, s) == attempts' = [attempts EXCEPT ![Len(attempts)].status = s]
SetStatus(n, s) == attempts' = [attempts EXCEPT ![n].status = s]

MarkDispatched(t) ==
    /\ pc[t] = "reserved"
    /\ attempts[token[t]].status = "RESERVED"
    /\ SetStatus(token[t], "DISPATCHED")
    /\ pc' = [pc EXCEPT ![t] = "posting"]
    /\ UNCHANGED << bills, lost, month, restarts, request, token, reply >>

(* release is for a client that gives up before it dispatches. *)
Release(t) ==
    /\ pc[t] = "reserved"
    /\ attempts[token[t]].status = "RESERVED"
    /\ SetStatus(token[t], "RELEASED")
    /\ Leave(t)
    /\ UNCHANGED << bills, lost, month, restarts >>

(* The provider (external) ends the call of thread t, at a charge of v.    *)
End(t, v, r) == /\ bills' = [bills EXCEPT ![token[t]] = v]
                /\ reply' = [reply EXCEPT ![t] = r]
                /\ pc' = [pc EXCEPT ![t] = "replied"]
                /\ UNCHANGED << attempts, lost, month, restarts, request, token >>

(* An answer that reports its use charges for what it reports.  Nothing    *)
(* ties the report to the reservation: it may be above it.                 *)
AnswerWithUsage(t) ==
    /\ pc[t] = "posting"
    /\ \E in, out \in UsageCounts :
          End(t, Cost(in, out), [kind |-> "usage", in |-> in, out |-> out])

(* No report: the body has none, is no object, or never arrives.  The      *)
(* provider is taken to keep to the prompt it was sent and the max_tokens  *)
(* it was given (the reservation); it charges nothing when the request did *)
(* not reach it.                                                           *)
AnswerWithout(t) ==
    /\ pc[t] = "posting"
    /\ \E v \in 0..attempts[token[t]].resVnd, k \in {"no_usage", "not_object", "failed"} :
          End(t, v, [kind |-> k])

(* A mutant: the two counts are swapped in the cost. *)
SettledSwapped(a, in, out) ==
    [a EXCEPT !.actIn = in, !.actOut = out, !.actVnd = Cost(out, in),
              !.status = "RECONCILED"]

(* reconcile: counts that are not strict ints above zero keep the          *)
(* reservation.                                                            *)
Settled(a, in, out) ==
    IF in > 0 /\ out > 0
    THEN [a EXCEPT !.actIn = in, !.actOut = out, !.actVnd = Cost(in, out),
                   !.status = "RECONCILED"]
    ELSE [a EXCEPT !.actIn = a.resIn, !.actOut = a.resOut, !.actVnd = a.resVnd,
                   !.status = "RECONCILED"]

(* generate_hypothesis reconciles with the reported use, or with the       *)
(* reservation when the call failed or reported none.  The status check is *)
(* reconcile's own.                                                        *)
Reconcile(t) ==
    /\ pc[t] = "replied"
    /\ reply[t].kind \in {"usage", "no_usage", "failed"}
    /\ attempts[token[t]].status = "DISPATCHED"
    /\ LET a == attempts[token[t]]
       IN  attempts' = [attempts EXCEPT ![token[t]] =
                          IF reply[t].kind = "usage"
                          THEN Settled(a, reply[t].in, reply[t].out)
                          ELSE Settled(a, a.resIn, a.resOut)]
    /\ Leave(t)
    /\ UNCHANGED << bills, lost, month, restarts >>

(* resp_data.get on a JSON body that is no object: AttributeError passes   *)
(* the except clause, and nobody reconciles the attempt.                   *)
EscapeUnreconciled(t) ==
    /\ pc[t] = "replied"
    /\ reply[t].kind = "not_object"
    /\ Leave(t)
    /\ UNCHANGED << attempts, bills, lost, month, restarts >>

NextMonth == /\ month < LastMonth
             /\ month' = month + 1
             /\ UNCHANGED << attempts, bills, lost, restarts, thread >>

BilledTo(m) == [i \in 1..Len(attempts) |->
                  IF attempts[i].month = m THEN bills[i] ELSE 0]

(* What the charges of a month are above the reservations made for them.   *)
Above(m) == [i \in 1..Len(attempts) |->
               LET a == attempts[i]
               IN  IF a.month = m /\ bills[i] > a.resVnd THEN bills[i] - a.resVnd ELSE 0]

(* The process restarts with an empty BudgetController. *)
Restart ==
    /\ restarts < MaxRestarts
    /\ restarts' = restarts + 1
    /\ forgotten' = [m \in Months |-> forgotten[m] + Total(BilledTo(m))]
    /\ forgottenAbove' = [m \in Months |-> forgottenAbove[m] + Total(Above(m))]
    /\ attempts' = << >>
    /\ bills' = << >>
    /\ pc' = [t \in Threads |-> "idle"]
    /\ request' = [t \in Threads |-> NoRequest]
    /\ token' = [t \in Threads |-> 0]
    /\ reply' = [t \in Threads |-> NoReply]
    /\ UNCHANGED month

Proceed(t) == \/ Refuse(t) \/ Reserve(t) \/ MarkDispatched(t)
              \/ AnswerWithUsage(t) \/ AnswerWithout(t) \/ Reconcile(t) \/ EscapeUnreconciled(t)

Next == \/ \E t \in Threads : Call(t) \/ Proceed(t) \/ Release(t)
        \/ NextMonth
        \/ Restart

Spec == Init /\ [][Next]_vars

-----------------------------------------------------------------------------
(* Properties. *)

TypeOK ==
    /\ attempts \in Seq(Attempt)
    /\ bills \in Seq(Nat) /\ Len(bills) = Len(attempts)
    /\ forgotten \in [Months -> Nat] /\ forgottenAbove \in [Months -> Nat]
    /\ month \in Months /\ restarts \in Nat
    /\ pc \in [Threads -> {"idle", "reserve", "reserved", "posting", "replied"}]
    /\ request \in [Threads -> Request \cup {NoRequest}]
    /\ token \in [Threads -> Nat]
    /\ reply \in [Threads -> Reply]

(* What the attempts of the case before attempt i hold. *)
InBefore(i) == [j \in 1..(i - 1) |->
                  LET a == attempts[j]
                  IN  IF a.case = attempts[i].case THEN Held(a, a.resIn, a.actIn) ELSE 0]
OutBefore(i) == [j \in 1..(i - 1) |->
                   LET a == attempts[j]
                   IN  IF a.case = attempts[i].case THEN Held(a, a.resOut, a.actOut) ELSE 0]

(* The caps bound what is reserved, given all that is settled and pending  *)
(* (the four checks of reserve), however reservations, late answers,       *)
(* failures, releases and leaks interleave.  A case passes a cap only by   *)
(* what the report on its last call exceeds the reservation by: no call is *)
(* reserved on top.  A month passes its cap by no more than its reports    *)
(* exceed their reservations by.                                           *)
CapsHold ==
    /\ \A c \in Cases : CallsOf(c) <= MaxCalls
    /\ \A i \in Ids : /\ Total(InBefore(i)) + attempts[i].resIn <= MaxInput
                      /\ Total(OutBefore(i)) + attempts[i].resOut <= MaxOutput
    /\ \A m \in Months : Total(HeldVnd(m)) <= MonthlyCap + Total(Above(m))

(* A case never has two calls in flight: a reservation takes all the       *)
(* output tokens that are left (reserved_output = available_out).          *)
OneCallPerCase ==
    \A i, j \in Ids :
        /\ attempts[i].case = attempts[j].case
        /\ attempts[i].status \in {"RESERVED", "DISPATCHED"}
        /\ attempts[j].status \in {"RESERVED", "DISPATCHED"}
        => i = j

(* A case gets another call only after one that was released or reported   *)
(* less output than it had reserved.  A call that failed, that reported no *)
(* use or that was never settled is the last of its case until a restart,  *)
(* whatever max_calls_per_case allows (available_out counts what it keeps).*)
NextCallNeedsReport ==
    \A i, j \in Ids :
        i < j /\ attempts[i].case = attempts[j].case =>
            \/ attempts[i].status = "RELEASED"
            \/ attempts[i].status = "RECONCILED" /\ attempts[i].actOut < attempts[i].resOut

(* The ledger never underestimates: every charge of the provider is        *)
(* covered by what the attempt holds, when the answer is lost, malformed   *)
(* or never reconciled too; a charge above that is in the report a thread  *)
(* still holds, and covered once it is reconciled.                         *)
LedgerCoversBills ==
    \A i \in Ids :
        \/ bills[i] <= Held(attempts[i], attempts[i].resVnd, attempts[i].actVnd)
        \/ \E t \in Threads : /\ token[t] = i /\ reply[t].kind = "usage"
                             /\ bills[i] <= Cost(reply[t].in, reply[t].out)

(* What the provider charges for a month in all stays within the monthly   *)
(* cap times the number of lives of the process (the ledger bounds what    *)
(* one life reserves, and every restart starts an empty one), but for what *)
(* charges are above the reservations made for them.                       *)
ChargesBounded ==
    \A m \in Months :
        forgotten[m] + Total(BilledTo(m))
            <= (restarts + 1) * MonthlyCap + forgottenAbove[m] + Total(Above(m))

(* No two threads hold the same attempt, and a thread's token names an     *)
(* attempt of the case it asked for in the status its step requires: the   *)
(* status checks of mark_dispatched, release and reconcile never raise.    *)
TokensValid ==
    /\ \A t, u \in Threads : token[t] = token[u] /\ token[t] # 0 => t = u
    /\ \A t \in Threads :
          pc[t] \in {"reserved", "posting", "replied"} =>
            /\ token[t] \in Ids
            /\ attempts[token[t]].case = request[t].case
            /\ attempts[token[t]].status =
                  IF pc[t] = "reserved" THEN "RESERVED" ELSE "DISPATCHED"

(* Settled figures are final: a reconciled or released attempt never       *)
(* changes, so no call is counted twice or given back twice.               *)
SettledIsFinal ==
    [][\A i \in Ids :
          attempts[i].status \in {"RECONCILED", "RELEASED"} /\ restarts' = restarts
          => attempts'[i] = attempts[i]]_vars

(* deepseek.py line 79: a successful HTTP call is reconciled.  No attempt  *)
(* stays dispatched once the thread that posted it is gone.                *)
DispatchedHasOwner ==
    \A i \in Ids : attempts[i].status = "DISPATCHED" => \E t \in Threads : token[t] = i

=============================================================================
