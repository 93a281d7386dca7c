---------------------------- MODULE ExecutionHost ----------------------------
(***************************************************************************)
(* One execution Host (createExecutionHost, kdna-core/src/public-contract/ *)
(* execution.js): consume runs to its end in one turn, but it calls the    *)
(* configured clock, authorize, observeDelivery and observeOutcome, and    *)
(* any of these may call consume again.  Calls in progress form a stack    *)
(* and share seenRequests, seenRuns and lastTime.  The protection          *)
(* operation behind a request's source may be disposed meanwhile, also     *)
(* inside a callback of the call that uses it.                             *)
(***************************************************************************)
EXTENDS Naturals, Sequences, FiniteSets, SequencesExt

CONSTANTS
  Calls,
  RequestIds, RunIds,
  Sources,            \* admitted sources, a protected one until its operation is disposed
  MaxTime,            \* bound on the times the clock and the authorizations name
  Capacity,           \* limit of remembered requests
  NoRequest, NoAuthorization

Requests == [request: RequestIds, run: RunIds, source: Sources]
Authorizations == [issued: 0..MaxTime, expires: 0..MaxTime]

ASSUME ConstantsAssumption ==
  /\ MaxTime \in Nat /\ Capacity \in Nat
  /\ NoRequest \notin Requests
  /\ NoAuthorization \notin Authorizations

\* What consume awaits, in order: a provider's answer or, for an event, the clock.
Steps == <<"request_admitted", "delivery", "delivery_verified", "execution", "execution_authorized",
           "outcome", "outcome_observed", "output", "output_authorized", "terminal">>

Providers == {"delivery", "execution", "outcome", "output"}
Authorized == {"execution_authorized", "output_authorized"}

HostRefusals == {"EXECUTION_HOST_DENIED", "EXECUTION_HOST_EXPIRED"}
Codes == HostRefusals \cup
  {"none", "EXECUTION_SOURCE_UNATTESTED", "EXECUTION_REPLAY", "EXECUTION_BUDGET_EXCEEDED",
   "EXECUTION_HOST_INVALID", "EXECUTION_PROVIDER_FAILED", "EXECUTION_DELIVERY_INVALID",
   "EXECUTION_OUTCOME_FAILED", "EXECUTION_BINDING_INVALID"}

VARIABLES
  spent,          \* seenRequests and seenRuns, as the requests they come from
  lastTime,
  stack,          \* calls in progress, the innermost last
  step,           \* position in Steps, 0 before the call
  request,        \* what the call reserved
  times,          \* at of the call's events; their kinds follow from their number
  authorization,  \* the last authorization the call was given
  failure,        \* the first cause
  result,         \* what the call returned
  disposed        \* sources inspectSnapshot finds no more

calls == <<stack, step, request, times, authorization, failure, result>>
vars == <<spent, lastTime, calls, disposed>>

Statuses == {"none", "rejected", "completed", "denied", "failed"}

TypeOK ==
  /\ spent \subseteq Requests
  /\ lastTime \in 0..MaxTime
  /\ stack \in Seq(Calls)
  /\ step \in [Calls -> 0..Len(Steps)]
  /\ request \in [Calls -> Requests \cup {NoRequest}]
  /\ times \in [Calls -> Seq(0..MaxTime)]
  /\ authorization \in [Calls -> Authorizations \cup {NoAuthorization}]
  /\ failure \in [Calls -> Codes]
  /\ result \in [Calls -> [status: Statuses, code: Codes, at: 0..MaxTime]]
  /\ disposed \subseteq Sources

NoResult == [status |-> "none", code |-> "none", at |-> 0]

Init ==
  /\ spent = {} /\ lastTime = 0 /\ stack = <<>>
  /\ step = [c \in Calls |-> 0]
  /\ request = [c \in Calls |-> NoRequest]
  /\ times = [c \in Calls |-> <<>>]
  /\ authorization = [c \in Calls |-> NoAuthorization]
  /\ failure = [c \in Calls |-> "none"]
  /\ result = [c \in Calls |-> NoResult]
  /\ disposed = {}

-----------------------------------------------------------------------------

Idle(c) == step[c] = 0 /\ result[c] = NoResult
Awaits(c, name) == stack # <<>> /\ Last(stack) = c /\ step[c] \in DOMAIN Steps /\ Steps[step[c]] = name

Rejected(code) == [status |-> "rejected", code |-> code, at |-> 0]

\* Fault: identifiers are remembered once the call has returned.
FreshOnceDone(r) == \A s \in {request[c] : c \in Calls \ Range(stack)} \ {NoRequest} :
                      s.request # r.request /\ s.run # r.run

\* Neither identifier has been attempted.
Fresh(r) == \A s \in spent : s.request # r.request /\ s.run # r.run

\* A token that is no request or whose source is gone, a request of another Host or
\* epoch, or one seen before, is refused and spends nothing.
Refuse(c) ==
  /\ Idle(c)
  /\ \/ \E code \in {"EXECUTION_SOURCE_UNATTESTED", "EXECUTION_HOST_INVALID"} :
          result' = [result EXCEPT ![c] = Rejected(code)]
     \/ /\ \E r \in Requests : r.source \notin disposed /\ (~Fresh(r) \/ Cardinality(spent) >= Capacity)
        /\ result' = [result EXCEPT ![c] = Rejected("EXECUTION_REPLAY")]
  /\ UNCHANGED <<spent, lastTime, stack, step, request, times, authorization, failure, disposed>>

\* Both identifiers are reserved before any callback; a trace budget that is too
\* small has spent them.
Reserve(c) ==
  /\ Idle(c)
  /\ Cardinality(spent) < Capacity
  /\ \E r \in Requests :
       /\ r.source \notin disposed
       /\ Fresh(r)
       /\ spent' = spent \cup {r}
       /\ request' = [request EXCEPT ![c] = r]
  /\ \/ /\ stack' = Append(stack, c)
        /\ step' = [step EXCEPT ![c] = 1]
        /\ UNCHANGED result
     \/ /\ result' = [result EXCEPT ![c] = Rejected("EXECUTION_BUDGET_EXCEEDED")]
        /\ UNCHANGED <<stack, step>>
  /\ UNCHANGED <<lastTime, times, authorization, failure, disposed>>

Return(c, value) ==
  /\ result' = [result EXCEPT ![c] = value]
  /\ step' = [step EXCEPT ![c] = 0]
  /\ stack' = Front(stack)

\* The try block is left with its cause, for the terminal record.
Fail(c, code) ==
  /\ failure' = [failure EXCEPT ![c] = code]
  /\ step' = [step EXCEPT ![c] = Len(Steps)]
  /\ UNCHANGED <<stack, result>>

Advance(c) ==
  /\ step' = [step EXCEPT ![c] = @ + 1]
  /\ UNCHANGED <<stack, result>>

\* What each provider's answer can be refused with.
Refusals(name) == {"EXECUTION_PROVIDER_FAILED"} \cup
  CASE name = "delivery" -> {"EXECUTION_DELIVERY_INVALID"}
    [] name = "outcome" -> {"EXECUTION_OUTCOME_FAILED", "EXECUTION_BUDGET_EXCEEDED"}
    [] OTHER -> {"EXECUTION_HOST_INVALID", "EXECUTION_HOST_DENIED"}

ProviderAnswers(c) ==
  /\ \E name \in Providers :
       /\ Awaits(c, name)
       /\ \/ \E code \in Refusals(name) : Fail(c, code) /\ UNCHANGED authorization
          \/ /\ Advance(c)
             /\ IF name \in {"execution", "output"}
                THEN \E a \in Authorizations : authorization' = [authorization EXCEPT ![c] = a]
                ELSE UNCHANGED authorization
             /\ UNCHANGED failure
  /\ UNCHANGED <<spent, lastTime, request, times, disposed>>

\* Times of the clock that now() accepts.
Accepted == {t \in 0..MaxTime : t >= lastTime}

\* Codes now() throws: the clock threw, or its answer is no time or an earlier one.
ClockErrors == {"EXECUTION_PROVIDER_FAILED", "EXECUTION_HOST_INVALID"}

Valid(a, t) == a.issued <= t /\ t < a.expires

\* now() answers inside the try block, or for the first event before it.
EventAnswers(c) ==
  /\ \E n \in 1..Len(Steps) - 1 :
       /\ Awaits(c, Steps[n]) /\ Steps[n] \notin Providers
       /\ \/ \E t \in Accepted :
               /\ lastTime' = t
               /\ IF Steps[n] \in Authorized /\ ~Valid(authorization[c], t)
                  THEN Fail(c, "EXECUTION_HOST_EXPIRED") /\ UNCHANGED times
                  ELSE /\ Advance(c)
                       /\ times' = [times EXCEPT ![c] = Append(@, t)]
                       /\ UNCHANGED failure
          \/ \E code \in ClockErrors :
               /\ IF n = 1 THEN Return(c, Rejected(code)) /\ UNCHANGED failure ELSE Fail(c, code)
               /\ UNCHANGED <<lastTime, times>>
  /\ UNCHANGED <<spent, request, authorization, disposed>>

\* The receipt and the trace of the call agree with each other and with its authorization.
SelfChecked(c, status, t) ==
  LET at == Append(times[c], t)
  IN  /\ \A i \in 1..Len(at) : at[i] <= t /\ (i > 1 => at[i - 1] <= at[i])
      /\ status = "completed" => Len(at) = 6 /\ t < authorization[c].expires

\* The source of the call's request is found by inspectSnapshot.
Live(c) == request[c] # NoRequest /\ request[c].source \notin disposed

\* Fault: the source found when the call began is not looked up again.
CheckCodeOnce(c, status, t) ==
  IF SelfChecked(c, status, t) THEN "none" ELSE "EXECUTION_BINDING_INVALID"

\* checkedTrace and checkedReceipt of the call's own record: they look the request up
\* again before anything else.  One code stands for whatever else they refuse.
CheckCode(c, status, t) ==
  IF ~Live(c) THEN "EXECUTION_SOURCE_UNATTESTED"
  ELSE IF SelfChecked(c, status, t) THEN "none" ELSE "EXECUTION_BINDING_INVALID"

\* Fault: a budget that is too small hides the first cause.
BudgetCodeAlone(code) == "EXECUTION_BUDGET_EXCEEDED"

BudgetCode(code) == IF code = "none" THEN "EXECUTION_BUDGET_EXCEEDED" ELSE code

\* The call returns its record, unless the record fails its own check or is too large.
ReturnRecord(c, status, code, t) ==
  LET check == CheckCode(c, status, t)
  IN  \/ check = "none" /\ Return(c, [status |-> status, code |-> code, at |-> t])
      \/ check = "none" /\ Return(c, Rejected(BudgetCode(code)))
      \/ check # "none" /\ Return(c, Rejected(check))

Refused(code) == IF code \in HostRefusals THEN "denied" ELSE "failed"

\* Fault: the time of the call's last event stands in for a clock that fails.
FallbackOwnTime(c) == Last(times[c])

\* The last time the Host accepted, also in a call that ran inside this one.
Fallback(c) == lastTime

Lapsed(c, t) == t >= authorization[c].expires

\* now() answers for the terminal record, then the record is built, checked and returned.
TerminalAnswers(c) ==
  /\ Awaits(c, "terminal")
  /\ \/ \E t \in Accepted :
          /\ lastTime' = t
          /\ IF failure[c] # "none" THEN ReturnRecord(c, Refused(failure[c]), failure[c], t)
             ELSE IF Lapsed(c, t) THEN ReturnRecord(c, "denied", "EXECUTION_HOST_EXPIRED", t)
             ELSE ReturnRecord(c, "completed", "none", t)
     \/ /\ failure[c] = "none"
        /\ \E code \in ClockErrors : Return(c, Rejected(code))
        /\ UNCHANGED lastTime
     \/ /\ failure[c] = "EXECUTION_HOST_INVALID"
        /\ Return(c, Rejected(failure[c]))
        /\ UNCHANGED lastTime
     \/ /\ failure[c] \notin {"none", "EXECUTION_HOST_INVALID"}
        /\ ReturnRecord(c, Refused(failure[c]), failure[c], Fallback(c))
        /\ UNCHANGED lastTime
  /\ UNCHANGED <<spent, request, times, authorization, failure, disposed>>

\* disposeProtectionOperation, between calls or inside any callback of one.
Dispose(s) ==
  /\ s \notin disposed
  /\ disposed' = disposed \cup {s}
  /\ UNCHANGED <<spent, lastTime, calls>>

Next ==
  \/ \E c \in Calls :
       Refuse(c) \/ Reserve(c) \/ ProviderAnswers(c) \/ EventAnswers(c) \/ TerminalAnswers(c)
  \/ \E s \in Sources : Dispose(s)

Spec == Init /\ [][Next]_vars

-----------------------------------------------------------------------------
(* Properties                                                               *)

\* execution.js:234-236 "Reserve before external callbacks, including reentrant
\* callbacks": no two calls ever act on one request or one run, finished or not.
AttemptedOnce ==
  \A c, d \in Calls :
    c # d /\ request[c] # NoRequest /\ request[d] # NoRequest =>
      request[c].request # request[d].request /\ request[c].run # request[d].run

\* The record consume builds fails its own check for one reason only, whatever ran inside
\* its callbacks: its source was disposed meanwhile.
SelfCheckPasses ==
  \A c \in Calls :
    /\ result[c].code # "EXECUTION_BINDING_INVALID"
    /\ result[c].code = "EXECUTION_SOURCE_UNATTESTED" /\ request[c] # NoRequest => ~Live(c)

\* A completed record is dated inside the output authorization it names.
OutputWithinAuthorization ==
  \A c \in Calls : result[c].status = "completed" =>
    /\ authorization[c].issued <= result[c].at
    /\ result[c].at < authorization[c].expires

\* What holds between any two callbacks of a Host.
AttemptInvariant == TypeOK /\ AttemptedOnce /\ SelfCheckPasses /\ OutputWithinAuthorization

\* Receipts of a Host are dated in the order in which they are returned, inner calls
\* included.
ReceiptsInOrder ==
  [][\A c, d \in Calls :
       /\ result[c].status \in {"completed", "denied", "failed"}
       /\ result[d] = NoResult /\ result'[d].status \in {"completed", "denied", "failed"}
       => result[c].at <= result'[d].at]_vars

\* A source that is disposed while a call works on it, up to its last clock answer, yields
\* no receipt and no output of that call (execution.js:57-61, 143, 165, 298).
NoReceiptWithoutSource ==
  [][\A c \in Calls :
       result[c] = NoResult /\ result'[c].status \in {"completed", "denied", "failed"} => Live(c)]_vars

\* No clock, expiry or budget replaces the first cause of a call (execution.js:279-291,
\* 300-302): only a source disposed during the call does, and then with its own code.
FirstCauseKept ==
  [][\A c \in Calls : failure[c] # "none" /\ result'[c] # NoResult =>
       \/ result'[c].code = failure[c]
       \/ ~Live(c) /\ result'[c] = Rejected("EXECUTION_SOURCE_UNATTESTED")]_vars

\* execution.js:279 "An already decided refusal keeps its first cause": would hold if no
\* source were disposed inside a callback.
RefusalKeepsItsCause ==
  [][\A c \in Calls : failure[c] # "none" /\ result'[c] # NoResult => result'[c].code = failure[c]]_vars
=============================================================================
