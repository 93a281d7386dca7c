------------------------- MODULE ExecutionHostProofs -------------------------
(***************************************************************************)
(* Proofs about ExecutionHost, for any calls, identifiers, capacity and    *)
(* times, and any depth of calls inside callbacks.  The inductive          *)
(* invariant bounds every time a call has recorded by lastTime: that is    *)
(* what lets a call resume behind the ones that ran inside it.             *)
(***************************************************************************)
EXTENDS ExecutionHost, TLAPS

Receipts == {"completed", "denied", "failed"}

\* What a call has reserved is spent, by it alone.
ReservedIsSpent == \A c \in Calls : request[c] # NoRequest => request[c] \in spent

\* A call holds its reservation from the step it starts with; it has no result yet.
InProgress ==
  \A c \in Calls :
    /\ step[c] # 0 => result[c] = NoResult /\ request[c] # NoRequest
    /\ step[c] = 0 /\ result[c] = NoResult => request[c] = NoRequest /\ failure[c] = "none" /\ times[c] = <<>>

\* Recorded times rise, up to the last one the Host accepted.
TimesBounded ==
  \A c \in Calls :
    /\ \A i \in 1..Len(times[c]) : times[c][i] <= lastTime
    /\ \A i \in 2..Len(times[c]) : times[c][i - 1] <= times[c][i]
    /\ result[c].at <= lastTime

\* The events a call has recorded when it awaits step n without a failure.
EventsBefore(n) == CASE n = 1 -> 0 [] n \in {2, 3} -> 1 [] n \in {4, 5} -> 2
                     [] n \in {6, 7} -> 3 [] n \in {8, 9} -> 4 [] OTHER -> 5

EventsFollowSteps ==
  \A c \in Calls : step[c] # 0 =>
    /\ failure[c] = "none" => Len(times[c]) = EventsBefore(step[c])
    /\ failure[c] # "none" => step[c] = 10

\* The authorization in hand was given for the phase under way and, at the end, holds.
AuthorizationInHand ==
  \A c \in Calls : step[c] # 0 =>
    /\ step[c] \in 5..9 => authorization[c] \in Authorizations
    /\ step[c] = 10 /\ failure[c] = "none" =>
         /\ authorization[c] \in Authorizations
         /\ authorization[c].issued <= lastTime

\* The codes of the call's own check of its record.
CheckCodes == {"EXECUTION_BINDING_INVALID", "EXECUTION_SOURCE_UNATTESTED"}

\* A first cause is never one of them.
NoBindingFailure == \A c \in Calls : failure[c] \notin CheckCodes

IInv ==
  /\ TypeOK /\ NoBindingFailure
  /\ ReservedIsSpent /\ AttemptedOnce
  /\ InProgress
  /\ TimesBounded
  /\ EventsFollowSteps
  /\ AuthorizationInHand
  /\ SelfCheckPasses
  /\ OutputWithinAuthorization

-----------------------------------------------------------------------------
(* The steps of a call                                                      *)

LEMMA StepCount == Len(Steps) = 10 /\ DOMAIN Steps = 1..10
BY DEF Steps

LEMMA StepNames ==
  /\ Steps[1] = "request_admitted" /\ Steps[2] = "delivery" /\ Steps[3] = "delivery_verified"
  /\ Steps[4] = "execution" /\ Steps[5] = "execution_authorized" /\ Steps[6] = "outcome"
  /\ Steps[7] = "outcome_observed" /\ Steps[8] = "output" /\ Steps[9] = "output_authorized"
  /\ Steps[10] = "terminal"
BY DEF Steps

\* Every step has a name of its own.
LEMMA StepOfName ==
  \A n \in 1..10 :
    /\ Steps[n] \in Providers <=> n \in {2, 4, 6, 8}
    /\ Steps[n] = "terminal" <=> n = 10
    /\ Steps[n] \in Authorized <=> n \in {5, 9}
    /\ Steps[n] \in {"execution", "output"} <=> n \in {4, 8}
    /\ \A k \in 1..10 : Steps[n] = Steps[k] => n = k
<1>. SUFFICES ASSUME NEW n \in 1..10, NEW k \in 1..10
              PROVE  /\ Steps[n] \in Providers <=> n \in {2, 4, 6, 8}
                     /\ Steps[n] = "terminal" <=> n = 10
                     /\ Steps[n] \in Authorized <=> n \in {5, 9}
                     /\ Steps[n] \in {"execution", "output"} <=> n \in {4, 8}
                     /\ Steps[n] = Steps[k] => n = k
  OBVIOUS
<1>1. n \in {1, 2, 3, 4, 5, 6, 7, 8, 9, 10} /\ k \in {1, 2, 3, 4, 5, 6, 7, 8, 9, 10}
  OBVIOUS
<1>. QED  BY <1>1, StepNames DEF Providers, Authorized

LEMMA StepType == ASSUME TypeOK PROVE step \in [Calls -> 0..10]
<1>1. step \in [Calls -> 0..Len(Steps)]
  BY DEF TypeOK
<1>. QED  BY <1>1, StepCount

LEMMA AwaitsStep ==
  ASSUME TypeOK, NEW c \in Calls, NEW name, Awaits(c, name)
  PROVE  step[c] \in 1..10 /\ Steps[step[c]] = name
BY StepCount DEF TypeOK, Awaits

\* Elements of a sequence come from its set.
LEMMA Element ==
  ASSUME NEW S, NEW s \in Seq(S), NEW i \in 1..Len(s)  PROVE s[i] \in S
OBVIOUS

LEMMA FrontOfStack ==
  ASSUME TypeOK, stack # <<>>  PROVE Front(stack) \in Seq(Calls)
BY DEF TypeOK, Front

-----------------------------------------------------------------------------

LEMMA RefuseStep ==
  ASSUME IInv, NEW c \in Calls, Refuse(c)  PROVE IInv'
<1>. USE DEF IInv
<1>1. PICK code \in Codes \ {"EXECUTION_BINDING_INVALID"} : result' = [result EXCEPT ![c] = Rejected(code)]
  BY DEF Refuse, Codes, HostRefusals
<1>2. /\ UNCHANGED <<spent, lastTime, stack, step, request, times, authorization, failure, disposed>>
      /\ step[c] = 0 /\ request[c] = NoRequest
  BY DEF Refuse, Idle, InProgress
<1>3. Rejected(code) = [status |-> "rejected", code |-> code, at |-> 0]
  BY DEF Rejected
<1>4. TypeOK'
  BY <1>1, <1>2, <1>3, ConstantsAssumption DEF TypeOK, Statuses
<1>5. ReservedIsSpent' /\ AttemptedOnce' /\ EventsFollowSteps' /\ AuthorizationInHand' /\ NoBindingFailure'
  BY <1>2 DEF NoBindingFailure, ReservedIsSpent, AttemptedOnce, EventsFollowSteps, AuthorizationInHand
<1>6. InProgress'
  BY <1>1, <1>2, <1>3 DEF InProgress, TypeOK, NoResult
<1>7. TimesBounded'
  BY <1>1, <1>2, <1>3, ConstantsAssumption DEF TimesBounded, TypeOK
<1>8. OutputWithinAuthorization'
  BY <1>1, <1>2, <1>3 DEF OutputWithinAuthorization, TypeOK
<1>9. SelfCheckPasses'
  <2>1. result'[c].code = code /\ \A d \in Calls : d # c => result'[d] = result[d]
    BY <1>1, <1>3 DEF TypeOK
  <2>2. \A d \in Calls : Live(d)' <=> Live(d)
    BY <1>2 DEF Live
  <2>. QED  BY <1>2, <2>1, <2>2 DEF SelfCheckPasses
<1>. QED  BY <1>4, <1>5, <1>6, <1>7, <1>8, <1>9

LEMMA ReserveStep ==
  ASSUME IInv, NEW c \in Calls, Reserve(c)  PROVE IInv'
<1>. USE DEF IInv
<1>1. PICK r \in Requests : Fresh(r) /\ spent' = spent \cup {r} /\ request' = [request EXCEPT ![c] = r]
  BY DEF Reserve
<1>2. /\ UNCHANGED <<lastTime, times, authorization, failure, disposed>>
      /\ step[c] = 0 /\ result[c] = NoResult
  BY DEF Reserve, Idle
<1>3. /\ step' \in [Calls -> 0..10] /\ step'[c] \in {0, 1}
      /\ \A d \in Calls : d # c => step'[d] = step[d]
  <2>1. step \in [Calls -> 0..10]
    BY StepCount DEF TypeOK
  <2>2. step' = step \/ step' = [step EXCEPT ![c] = 1]
    BY DEF Reserve
  <2>. QED  BY <1>2, <2>1, <2>2
<1>4. /\ result' \in [Calls -> [status: Statuses, code: Codes, at: 0..MaxTime]]
      /\ \A d \in Calls : d # c => result'[d] = result[d]
      /\ result'[c].status \in {"none", "rejected"} /\ result'[c].at = 0
      /\ result'[c].code \notin CheckCodes
      /\ step'[c] = 1 => result'[c] = NoResult
      /\ step'[c] = 0 => result'[c] # NoResult
  <2>1. CASE UNCHANGED result /\ step' = [step EXCEPT ![c] = 1]
    BY <1>2, <2>1 DEF TypeOK, NoResult, CheckCodes
  <2>2. CASE UNCHANGED step /\ result' = [result EXCEPT ![c] = Rejected("EXECUTION_BUDGET_EXCEEDED")]
    <3>1. Rejected("EXECUTION_BUDGET_EXCEEDED") \in [status: Statuses, code: Codes, at: 0..MaxTime]
      BY ConstantsAssumption DEF Rejected, Statuses, Codes
    <3>. QED  BY <1>2, <2>2, <3>1 DEF TypeOK, Rejected, NoResult, CheckCodes
  <2>. QED  BY <2>1, <2>2 DEF Reserve
<1>5. stack' \in Seq(Calls)
  <2>1. stack' = Append(stack, c) \/ stack' = stack
    BY DEF Reserve
  <2>2. stack \in Seq(Calls)
    BY DEF TypeOK
  <2>. QED  BY <2>1, <2>2
<1>6. TypeOK'
  <2>1. step' \in [Calls -> 0..Len(Steps)]
    BY <1>3, StepCount
  <2>2. spent' \subseteq Requests /\ request' \in [Calls -> Requests \cup {NoRequest}]
    BY <1>1 DEF TypeOK
  <2>3. /\ lastTime' \in 0..MaxTime /\ times' \in [Calls -> Seq(0..MaxTime)]
        /\ authorization' \in [Calls -> Authorizations \cup {NoAuthorization}]
        /\ failure' \in [Calls -> Codes] /\ disposed' \subseteq Sources
    BY <1>2 DEF TypeOK
  <2>4. result' \in [Calls -> [status: Statuses, code: Codes, at: 0..MaxTime]]
    BY <1>4
  <2>. QED  BY <1>5, <2>1, <2>2, <2>3, <2>4 DEF TypeOK
<1>7. ReservedIsSpent' /\ NoBindingFailure'
  BY <1>1, <1>2 DEF ReservedIsSpent, NoBindingFailure, TypeOK
<1>8. AttemptedOnce'
  BY <1>1, ConstantsAssumption DEF AttemptedOnce, ReservedIsSpent, Fresh, TypeOK
<1>9. InProgress'
  BY <1>1, <1>2, <1>3, <1>4, ConstantsAssumption DEF InProgress, TypeOK
<1>10. TimesBounded'
  <2>1. lastTime \in Nat
    BY ConstantsAssumption DEF TypeOK
  <2>2. ASSUME NEW d \in Calls PROVE result'[d].at <= lastTime
    BY <1>4, <2>1 DEF TimesBounded
  <2>. QED  BY <1>2, <2>2 DEF TimesBounded
<1>11. EventsFollowSteps' /\ AuthorizationInHand'
  <2>1. EventsBefore(1) = 0 /\ Len(times[c]) = 0 /\ failure[c] = "none"
    BY <1>2 DEF EventsBefore, InProgress
  <2>2. ASSUME NEW d \in Calls, step'[d] # 0, d # c PROVE step'[d] = step[d] /\ step[d] # 0
    BY <1>3, <2>2
  <2>. QED  BY <1>2, <1>3, <2>1, <2>2 DEF EventsFollowSteps, AuthorizationInHand
<1>12. SelfCheckPasses'
  <2>1. \A d \in Calls : d # c => request'[d] = request[d]
    BY <1>1 DEF TypeOK
  <2>2. \A d \in Calls : d # c => (Live(d)' <=> Live(d))
    BY <1>2, <2>1 DEF Live
  <2>. QED  BY <1>4, <2>1, <2>2 DEF SelfCheckPasses, CheckCodes
<1>13. OutputWithinAuthorization'
  BY <1>2, <1>4 DEF OutputWithinAuthorization
<1>. QED  BY <1>6, <1>7, <1>8, <1>9, <1>10, <1>11, <1>12, <1>13

-----------------------------------------------------------------------------
(* Steps inside a call                                                      *)

\* A call in progress has no result.
LEMMA NoResultYet ==
  ASSUME InProgress, NEW c \in Calls, step[c] # 0  PROVE result[c].status = "none"
BY DEF InProgress, NoResult

\* A call in progress that fails or advances keeps the invariant, if its times do.
LEMMA WithinCall ==
  ASSUME IInv, NEW c \in Calls, step[c] \in 1..10,
         UNCHANGED <<spent, request, stack, result, disposed>>,
         lastTime' \in 0..MaxTime, lastTime <= lastTime',
         step' \in [Calls -> 0..10], step'[c] \in 1..10,
         times' \in [Calls -> Seq(0..MaxTime)],
         authorization' \in [Calls -> Authorizations \cup {NoAuthorization}],
         failure' \in [Calls -> Codes], failure'[c] \notin CheckCodes,
         \A d \in Calls : d # c => /\ step'[d] = step[d] /\ times'[d] = times[d]
                                   /\ authorization'[d] = authorization[d] /\ failure'[d] = failure[d],
         \A i \in 1..Len(times'[c]) : times'[c][i] <= lastTime',
         \A i \in 2..Len(times'[c]) : times'[c][i - 1] <= times'[c][i],
         failure'[c] = "none" => Len(times'[c]) = EventsBefore(step'[c]),
         failure'[c] # "none" => step'[c] = 10,
         step'[c] \in 5..9 => authorization'[c] \in Authorizations,
         step'[c] = 10 /\ failure'[c] = "none" =>
           authorization'[c] \in Authorizations /\ authorization'[c].issued <= lastTime'
  PROVE  IInv'
<1>. USE DEF IInv
<1>1. lastTime \in Nat /\ lastTime' \in Nat
  BY ConstantsAssumption DEF TypeOK
<1>2. TypeOK'
  BY StepCount DEF TypeOK
<1>3. ReservedIsSpent' /\ AttemptedOnce' /\ SelfCheckPasses' /\ NoBindingFailure'
  BY DEF NoBindingFailure, ReservedIsSpent, AttemptedOnce, SelfCheckPasses, Live
<1>4. InProgress'
  <2>1. ASSUME NEW d \in Calls, step'[d] # 0 PROVE step[d] # 0
    BY <2>1
  <2>2. ASSUME NEW d \in Calls, step'[d] = 0 PROVE d # c /\ step[d] = 0
    BY <2>2
  <2>. QED  BY <2>1, <2>2 DEF InProgress
<1>5. TimesBounded'
  <2>1. ASSUME NEW d \in Calls PROVE result'[d].at <= lastTime'
    <3>1. result[d].at \in Nat /\ result[d].at <= lastTime
      BY ConstantsAssumption DEF TypeOK, TimesBounded
    <3>. QED  BY <1>1, <3>1
  <2>2. ASSUME NEW d \in Calls, d # c, NEW i \in 1..Len(times[d]) PROVE times'[d][i] <= lastTime'
    <3>1. times[d] \in Seq(0..MaxTime)
      BY DEF TypeOK
    <3>2. times[d][i] \in 0..MaxTime
      BY <2>2, <3>1, Element
    <3>3. times[d][i] <= lastTime /\ times'[d] = times[d]
      BY <2>2 DEF TimesBounded
    <3>. QED  BY <1>1, <3>2, <3>3, ConstantsAssumption
  <2>3. ASSUME NEW d \in Calls, d # c, NEW i \in 2..Len(times[d]) PROVE times'[d][i - 1] <= times'[d][i]
    BY <2>3 DEF TimesBounded
  <2>. QED  BY <2>1, <2>2, <2>3 DEF TimesBounded
<1>6. EventsFollowSteps'
  BY DEF EventsFollowSteps
<1>7. AuthorizationInHand'
  <2>1. ASSUME NEW d \in Calls, d # c, step[d] = 10, failure[d] = "none"
        PROVE  authorization[d].issued <= lastTime'
    <3>1. authorization[d].issued \in Nat /\ authorization[d].issued <= lastTime
      BY <2>1, ConstantsAssumption DEF AuthorizationInHand, Authorizations
    <3>. QED  BY <1>1, <3>1
  <2>. QED  BY <2>1 DEF AuthorizationInHand
<1>8. OutputWithinAuthorization'
  <2>1. ASSUME NEW d \in Calls, result[d].status = "completed" PROVE d # c
    <3>1. step[c] # 0
      OBVIOUS
    <3>2. result[c].status = "none"
      BY <3>1, NoResultYet
    <3>. QED  BY <2>1, <3>2
  <2>2. ASSUME NEW d \in Calls, d # c
        PROVE  result'[d] = result[d] /\ authorization'[d] = authorization[d]
    BY <2>2
  <2>3. ASSUME NEW d \in Calls PROVE result'[d] = result[d]
    BY <2>3
  <2>. QED  BY <2>1, <2>2, <2>3 DEF OutputWithinAuthorization
<1>. QED  BY <1>2, <1>3, <1>4, <1>5, <1>6, <1>7, <1>8

LEMMA ProviderStep ==
  ASSUME IInv, NEW c \in Calls, ProviderAnswers(c)  PROVE IInv'
<1>. USE DEF IInv
<1>1. PICK name \in Providers :
        /\ Awaits(c, name)
        /\ \/ \E code \in Refusals(name) : Fail(c, code) /\ UNCHANGED authorization
           \/ /\ Advance(c)
              /\ IF name \in {"execution", "output"}
                 THEN \E a \in Authorizations : authorization' = [authorization EXCEPT ![c] = a]
                 ELSE UNCHANGED authorization
              /\ UNCHANGED failure
  BY DEF ProviderAnswers
<1>2. UNCHANGED <<spent, lastTime, request, times, stack, result, disposed>>
  BY <1>1 DEF ProviderAnswers, Fail, Advance
<1>3. step[c] \in {2, 4, 6, 8} /\ Steps[step[c]] = name
  BY <1>1, AwaitsStep, StepOfName
<1>4. name \in {"execution", "output"} <=> step[c] \in {4, 8}
  BY <1>3, StepOfName
<1>5. step \in [Calls -> 0..10] /\ step[c] # 10 /\ failure[c] = "none"
  BY <1>3, StepCount DEF TypeOK, EventsFollowSteps
<1>6. lastTime' \in 0..MaxTime /\ lastTime <= lastTime' /\ times' \in [Calls -> Seq(0..MaxTime)]
  BY <1>2, ConstantsAssumption DEF TypeOK
<1>7. /\ \A i \in 1..Len(times'[c]) : times'[c][i] <= lastTime'
      /\ \A i \in 2..Len(times'[c]) : times'[c][i - 1] <= times'[c][i]
  BY <1>2 DEF TimesBounded
<1>8. CASE \E code \in Refusals(name) : Fail(c, code) /\ UNCHANGED authorization
  <2>1. PICK code \in Refusals(name) : Fail(c, code) /\ UNCHANGED authorization
    BY <1>8
  <2>2. code \in Codes \ ({"none"} \cup CheckCodes)
    BY <1>1 DEF Refusals, Codes, HostRefusals, Providers, CheckCodes
  <2>3. step' = [step EXCEPT ![c] = 10] /\ failure' = [failure EXCEPT ![c] = code]
    BY <2>1, StepCount DEF Fail
  <2>4. failure' \in [Calls -> Codes] /\ failure'[c] \notin {"none"} \cup CheckCodes
    BY <2>2, <2>3 DEF TypeOK
  <2>5. authorization' \in [Calls -> Authorizations \cup {NoAuthorization}]
    BY <2>1 DEF TypeOK
  <2>6. step' \in [Calls -> 0..10] /\ step'[c] = 10
    BY <1>5, <2>3
  <2>7. \A d \in Calls : d # c => /\ step'[d] = step[d] /\ times'[d] = times[d]
                                  /\ authorization'[d] = authorization[d] /\ failure'[d] = failure[d]
    BY <1>2, <1>5, <2>1, <2>3 DEF TypeOK
  <2>8. step[c] \in 1..10 /\ step'[c] \in 1..10 /\ step'[c] \notin 5..9
    BY <1>3, <2>6
  <2>. QED  BY <1>2, <1>6, <1>7, <2>4, <2>5, <2>6, <2>7, <2>8, WithinCall
<1>9. CASE /\ Advance(c)
           /\ IF name \in {"execution", "output"}
              THEN \E a \in Authorizations : authorization' = [authorization EXCEPT ![c] = a]
              ELSE UNCHANGED authorization
           /\ UNCHANGED failure
  <2>1. step' = [step EXCEPT ![c] = step[c] + 1] /\ failure' = failure
    BY <1>9 DEF Advance
  <2>2. step' \in [Calls -> 0..10] /\ step'[c] = step[c] + 1 /\ step[c] \in 1..10
    BY <1>3, <1>5, <2>1
  <2>3. /\ authorization' \in [Calls -> Authorizations \cup {NoAuthorization}]
        /\ step'[c] \in 5..9 => authorization'[c] \in Authorizations
    <3>1. CASE step[c] \in {4, 8}
      <4>1. PICK a \in Authorizations : authorization' = [authorization EXCEPT ![c] = a]
        BY <1>4, <1>9, <3>1
      <4>. QED  BY <4>1 DEF TypeOK
    <3>2. CASE step[c] \in {2, 6}
      <4>1. UNCHANGED authorization
        BY <1>4, <1>9, <3>2
      <4>2. step[c] = 6 => authorization[c] \in Authorizations
        BY DEF AuthorizationInHand
      <4>. QED  BY <2>2, <3>2, <4>1, <4>2 DEF TypeOK
    <3>. QED  BY <1>3, <3>1, <3>2
  <2>4. Len(times'[c]) = EventsBefore(step'[c]) /\ step'[c] # 10
    <3>1. Len(times[c]) = EventsBefore(step[c])
      BY <1>3, <1>5 DEF EventsFollowSteps
    <3>. QED  BY <1>2, <1>3, <2>2, <3>1 DEF EventsBefore
  <2>5. \A d \in Calls : d # c => /\ step'[d] = step[d] /\ times'[d] = times[d]
                                  /\ authorization'[d] = authorization[d] /\ failure'[d] = failure[d]
    BY <1>2, <1>5, <1>9, <2>1 DEF TypeOK
  <2>6. /\ failure' \in [Calls -> Codes] /\ failure'[c] = "none" /\ step'[c] \in 1..10
        /\ failure'[c] \notin CheckCodes
    BY <1>3, <1>5, <2>1, <2>2 DEF TypeOK, CheckCodes
  <2>. QED  BY <1>2, <1>6, <1>7, <2>2, <2>3, <2>4, <2>5, <2>6, WithinCall
<1>. QED  BY <1>1, <1>8, <1>9

\* A rising sequence stays rising under a later time.
LEMMA AppendRising ==
  ASSUME NEW s \in Seq(0..MaxTime), NEW t \in 0..MaxTime,
         \A i \in 1..Len(s) : s[i] <= t,
         \A i \in 2..Len(s) : s[i - 1] <= s[i]
  PROVE  LET r == Append(s, t) IN
         /\ r \in Seq(0..MaxTime) /\ Len(r) = Len(s) + 1
         /\ \A i \in 1..Len(r) : r[i] <= t
         /\ \A i \in 2..Len(r) : r[i - 1] <= r[i]
<1>. DEFINE r == Append(s, t)
<1>1. r \in Seq(0..MaxTime) /\ Len(r) = Len(s) + 1 /\ Len(s) \in Nat
  OBVIOUS
<1>2. r[Len(s) + 1] = t /\ \A i \in 1..Len(s) : r[i] = s[i]
  OBVIOUS
<1>3. t <= t
  BY ConstantsAssumption
<1>. HIDE DEF r
<1>4. ASSUME NEW i \in 1..Len(r) PROVE r[i] <= t
  <2>1. i \in 1..Len(s) \/ i = Len(s) + 1
    BY <1>1
  <2>. QED  BY <1>2, <1>3, <2>1
<1>5. ASSUME NEW i \in 2..Len(r) PROVE r[i - 1] <= r[i]
  <2>1. i \in 2..Len(s) \/ i = Len(s) + 1
    BY <1>1
  <2>2. i - 1 \in 1..Len(s)
    BY <1>1, <2>1
  <2>3. i \in 2..Len(s) => i \in 1..Len(s)
    BY <1>1
  <2>. QED  BY <1>2, <2>1, <2>2, <2>3
<1>6. /\ \A i \in 1..Len(r) : r[i] <= t
      /\ \A i \in 2..Len(r) : r[i - 1] <= r[i]
  BY <1>4, <1>5
<1>. QED  BY <1>1, <1>6 DEF r

LEMMA ReturnStep ==
  ASSUME IInv, NEW c \in Calls, step[c] \in 1..10, stack # <<>>,
         NEW value \in [status: Statuses, code: Codes, at: 0..MaxTime], Return(c, value),
         lastTime' \in 0..MaxTime, lastTime <= lastTime', value.at <= lastTime',
         value.status # "none", value.code # "EXECUTION_BINDING_INVALID",
         value.code = "EXECUTION_SOURCE_UNATTESTED" => ~Live(c),
         value.status = "completed" => authorization[c].issued <= value.at /\ value.at < authorization[c].expires,
         UNCHANGED <<spent, request, times, authorization, failure, disposed>>
  PROVE  IInv'
<1>. USE DEF IInv
<1>1. lastTime \in Nat /\ lastTime' \in Nat
  BY ConstantsAssumption DEF TypeOK
<1>2. result' = [result EXCEPT ![c] = value] /\ step' = [step EXCEPT ![c] = 0] /\ stack' \in Seq(Calls)
  BY FrontOfStack DEF Return
<1>3. step \in [Calls -> 0..10] /\ step' \in [Calls -> 0..10]
  BY <1>2, StepType
<1>4. TypeOK'
  BY <1>2, <1>3, StepCount DEF TypeOK
<1>5. ReservedIsSpent' /\ AttemptedOnce' /\ NoBindingFailure'
  BY DEF NoBindingFailure, ReservedIsSpent, AttemptedOnce
<1>6. InProgress'
  <2>1. result'[c] = value /\ \A d \in Calls : d # c => result'[d] = result[d] /\ step'[d] = step[d]
    BY <1>2, <1>3 DEF TypeOK
  <2>2. result'[c] # NoResult /\ step'[c] = 0
    BY <1>2, <1>3, <2>1 DEF NoResult
  <2>. QED  BY <2>1, <2>2 DEF InProgress
<1>7. TimesBounded'
  <2>1. ASSUME NEW d \in Calls PROVE result'[d].at <= lastTime'
    <3>1. result[d].at \in Nat /\ result[d].at <= lastTime
      BY ConstantsAssumption DEF TypeOK, TimesBounded
    <3>. QED  BY <1>1, <1>2, <3>1 DEF TypeOK
  <2>2. ASSUME NEW d \in Calls, NEW i \in 1..Len(times[d]) PROVE times'[d][i] <= lastTime'
    <3>1. times[d] \in Seq(0..MaxTime)
      BY DEF TypeOK
    <3>2. times[d][i] \in 0..MaxTime
      BY <2>2, <3>1, Element
    <3>3. times[d][i] <= lastTime
      BY <2>2 DEF TimesBounded
    <3>. QED  BY <1>1, <3>2, <3>3, ConstantsAssumption
  <2>. QED  BY <2>1, <2>2 DEF TimesBounded
<1>8. EventsFollowSteps'
  BY <1>2, <1>3 DEF EventsFollowSteps
<1>9. AuthorizationInHand'
  <2>1. ASSUME NEW d \in Calls, step'[d] # 0 PROVE d # c /\ step'[d] = step[d]
    BY <1>2, <1>3, <2>1
  <2>2. ASSUME NEW d \in Calls, step[d] = 10, failure[d] = "none"
        PROVE  authorization[d].issued <= lastTime'
    <3>1. authorization[d].issued \in Nat /\ authorization[d].issued <= lastTime
      BY <2>2, ConstantsAssumption DEF AuthorizationInHand, Authorizations
    <3>. QED  BY <1>1, <3>1
  <2>. QED  BY <2>1, <2>2 DEF AuthorizationInHand
<1>10. SelfCheckPasses' /\ OutputWithinAuthorization'
  <2>1. result'[c] = value /\ \A d \in Calls : d # c => result'[d] = result[d]
    BY <1>2 DEF TypeOK
  <2>2. \A d \in Calls : Live(d)' <=> Live(d)
    BY DEF Live
  <2>. QED  BY <2>1, <2>2 DEF SelfCheckPasses, OutputWithinAuthorization
<1>. QED  BY <1>4, <1>5, <1>6, <1>7, <1>8, <1>9, <1>10

LEMMA ClockErrorCodes == ClockErrors \subseteq Codes \ ({"none"} \cup CheckCodes)
BY DEF ClockErrors, Codes, CheckCodes

LEMMA RejectedRecord ==
  ASSUME NEW code \in Codes
  PROVE  /\ Rejected(code) \in [status: Statuses, code: Codes, at: 0..MaxTime]
         /\ Rejected(code).status = "rejected" /\ Rejected(code).at = 0 /\ Rejected(code).code = code
BY ConstantsAssumption DEF Rejected, Statuses

\* A failure of the clock or of an authorization inside the try block.
LEMMA FailStep ==
  ASSUME IInv, NEW c \in Calls, step[c] \in 1..10, NEW code \in Codes \ ({"none"} \cup CheckCodes), Fail(c, code),
         lastTime' \in 0..MaxTime, lastTime <= lastTime',
         UNCHANGED <<spent, request, times, authorization, disposed>>
  PROVE  IInv'
<1>. USE DEF IInv
<1>1. step \in [Calls -> 0..10]
  BY StepCount DEF TypeOK
<1>2. step' = [step EXCEPT ![c] = 10] /\ failure' = [failure EXCEPT ![c] = code] /\ UNCHANGED <<stack, result>>
  BY StepCount DEF Fail
<1>3. step' \in [Calls -> 0..10] /\ step'[c] = 10 /\ failure' \in [Calls -> Codes] /\ failure'[c] = code
  BY <1>1, <1>2 DEF TypeOK
<1>4. step'[c] \in 1..10 /\ step'[c] \notin 5..9
  BY <1>3
<1>5. \A d \in Calls : d # c => /\ step'[d] = step[d] /\ times'[d] = times[d]
                                /\ authorization'[d] = authorization[d] /\ failure'[d] = failure[d]
  BY <1>1, <1>2 DEF TypeOK
<1>6. times' \in [Calls -> Seq(0..MaxTime)] /\ authorization' \in [Calls -> Authorizations \cup {NoAuthorization}]
  BY DEF TypeOK
<1>7. ASSUME NEW i \in 1..Len(times[c]) PROVE times'[c][i] <= lastTime'
  <2>1. times[c] \in Seq(0..MaxTime)
    BY DEF TypeOK
  <2>2. times[c][i] \in 0..MaxTime /\ lastTime \in 0..MaxTime
    BY <1>7, <2>1, Element DEF TypeOK
  <2>3. times[c][i] <= lastTime
    BY <1>7 DEF TimesBounded
  <2>. QED  BY <2>2, <2>3, ConstantsAssumption
<1>8. \A i \in 2..Len(times'[c]) : times'[c][i - 1] <= times'[c][i]
  BY DEF TimesBounded
<1>. QED  BY <1>2, <1>3, <1>4, <1>5, <1>6, <1>7, <1>8, WithinCall

LEMMA EventStep ==
  ASSUME IInv, NEW c \in Calls, EventAnswers(c)  PROVE IInv'
<1>. USE DEF IInv
<1>1. PICK n \in 1..9 :
        /\ Awaits(c, Steps[n]) /\ Steps[n] \notin Providers
        /\ \/ \E t \in Accepted :
                /\ lastTime' = t
                /\ IF Steps[n] \in Authorized /\ ~Valid(authorization[c], t)
                   THEN Fail(c, "EXECUTION_HOST_EXPIRED") /\ UNCHANGED times
                   ELSE /\ Advance(c)
                        /\ times' = [times EXCEPT ![c] = Append(@, t)]
                        /\ UNCHANGED failure
           \/ \E code \in ClockErrors :
                /\ IF n = 1 THEN Return(c, Rejected(code)) /\ UNCHANGED failure ELSE Fail(c, code)
                /\ UNCHANGED <<lastTime, times>>
  BY StepCount DEF EventAnswers
<1>2. UNCHANGED <<spent, request, authorization, disposed>>
  BY DEF EventAnswers
<1>3. step[c] = n /\ n \in {1, 3, 5, 7, 9}
  <2>1. step[c] \in 1..10 /\ Steps[step[c]] = Steps[n]
    BY <1>1, AwaitsStep
  <2>2. n \in 1..10 /\ n \notin {2, 4, 6, 8}
    BY <1>1, StepOfName
  <2>. QED  BY <2>1, <2>2, StepOfName
<1>4. step \in [Calls -> 0..10] /\ failure[c] = "none" /\ lastTime \in 0..MaxTime /\ stack # <<>>
  <2>1. step \in [Calls -> 0..10] /\ step[c] # 10 /\ step[c] # 0
    BY <1>3, StepType
  <2>2. lastTime \in 0..MaxTime /\ stack # <<>>
    BY <1>1 DEF TypeOK, Awaits
  <2>. QED  BY <2>1, <2>2 DEF EventsFollowSteps
<1>5. ASSUME NEW t \in Accepted, lastTime' = t, Fail(c, "EXECUTION_HOST_EXPIRED"), UNCHANGED times
      PROVE  IInv'
  <2>1. "EXECUTION_HOST_EXPIRED" \in Codes \ ({"none"} \cup CheckCodes)
    BY DEF Codes, HostRefusals, CheckCodes
  <2>. QED  BY <1>2, <1>3, <1>5, <2>1, FailStep DEF Accepted
<1>6. ASSUME NEW t \in Accepted, lastTime' = t, Advance(c),
             Steps[n] \in Authorized => Valid(authorization[c], t),
             times' = [times EXCEPT ![c] = Append(times[c], t)], UNCHANGED failure
      PROVE  IInv'
  <2>1. t \in 0..MaxTime /\ lastTime <= t
    BY DEF Accepted
  <2>2. times[c] \in Seq(0..MaxTime)
    BY DEF TypeOK
  <2>3. ASSUME NEW i \in 1..Len(times[c]) PROVE times[c][i] <= t
    <3>1. times[c][i] \in 0..MaxTime
      BY <2>2, <2>3, Element
    <3>2. times[c][i] <= lastTime
      BY <2>3 DEF TimesBounded
    <3>. QED  BY <1>4, <2>1, <3>1, <3>2, ConstantsAssumption
  <2>4. \A i \in 2..Len(times[c]) : times[c][i - 1] <= times[c][i]
    BY DEF TimesBounded
  <2>5. times'[c] = Append(times[c], t)
    BY <1>6 DEF TypeOK
  <2>6. /\ times'[c] \in Seq(0..MaxTime) /\ Len(times'[c]) = Len(times[c]) + 1
        /\ \A i \in 1..Len(times'[c]) : times'[c][i] <= lastTime'
        /\ \A i \in 2..Len(times'[c]) : times'[c][i - 1] <= times'[c][i]
    BY <1>6, <2>1, <2>2, <2>3, <2>4, <2>5, AppendRising
  <2>7. step' = [step EXCEPT ![c] = step[c] + 1] /\ UNCHANGED <<stack, result, failure>>
    BY <1>6 DEF Advance
  <2>8. step' \in [Calls -> 0..10] /\ step'[c] = n + 1 /\ step'[c] \in 1..10
    BY <1>3, <1>4, <2>7
  <2>9. times' \in [Calls -> Seq(0..MaxTime)]
    BY <1>6, <2>5, <2>6 DEF TypeOK
  <2>10. \A d \in Calls : d # c => /\ step'[d] = step[d] /\ times'[d] = times[d]
                                   /\ authorization'[d] = authorization[d] /\ failure'[d] = failure[d]
    BY <1>2, <1>4, <1>6, <2>7 DEF TypeOK
  <2>11. Len(times'[c]) = EventsBefore(step'[c])
    <3>1. Len(times[c]) = EventsBefore(n)
      BY <1>3, <1>4 DEF EventsFollowSteps
    <3>2. EventsBefore(n + 1) = EventsBefore(n) + 1
      <4>1. EventsBefore(1) = 0 /\ EventsBefore(2) = 1 /\ EventsBefore(3) = 1 /\ EventsBefore(4) = 2
            /\ EventsBefore(5) = 2 /\ EventsBefore(6) = 3 /\ EventsBefore(7) = 3 /\ EventsBefore(8) = 4
            /\ EventsBefore(9) = 4 /\ EventsBefore(10) = 5
        BY DEF EventsBefore
      <4>. QED  BY <1>3, <4>1
    <3>. QED  BY <2>6, <2>8, <3>1, <3>2
  <2>12. step'[c] \in 5..9 => authorization'[c] \in Authorizations
    <3>1. step[c] \in {5, 7} => authorization[c] \in Authorizations
      BY DEF AuthorizationInHand
    <3>. QED  BY <1>2, <1>3, <2>8, <3>1
  <2>13. step'[c] = 10 => authorization'[c] \in Authorizations /\ authorization'[c].issued <= lastTime'
    <3>1. step[c] = 9 => authorization[c] \in Authorizations /\ Steps[9] \in Authorized
      BY StepNames DEF AuthorizationInHand, Authorized
    <3>. QED  BY <1>2, <1>3, <1>6, <2>8, <3>1 DEF Valid
  <2>14. /\ authorization' \in [Calls -> Authorizations \cup {NoAuthorization}]
         /\ failure' \in [Calls -> Codes] /\ failure'[c] = "none" /\ failure'[c] \notin CheckCodes
         /\ lastTime' \in 0..MaxTime /\ lastTime <= lastTime' /\ step[c] \in 1..10
    BY <1>2, <1>3, <1>4, <1>6, <2>1 DEF TypeOK, CheckCodes
  <2>. QED  BY <1>2, <2>6, <2>7, <2>8, <2>9, <2>10, <2>11, <2>12, <2>13, <2>14, WithinCall
<1>7. ASSUME NEW code \in ClockErrors, UNCHANGED <<lastTime, times, failure>>, Return(c, Rejected(code))
      PROVE  IInv'
  <2>1. code \in Codes /\ code \notin CheckCodes
    BY ClockErrorCodes
  <2>2. /\ Rejected(code) \in [status: Statuses, code: Codes, at: 0..MaxTime]
        /\ Rejected(code).status = "rejected" /\ Rejected(code).at = 0 /\ Rejected(code).code = code
    BY <2>1, RejectedRecord
  <2>3. lastTime' \in 0..MaxTime /\ lastTime <= lastTime' /\ 0 <= lastTime' /\ step[c] \in 1..10
    BY <1>3, <1>4, <1>7, ConstantsAssumption
  <2>. QED  BY <1>2, <1>4, <1>7, <2>1, <2>2, <2>3, ReturnStep DEF CheckCodes
<1>8. ASSUME NEW code \in ClockErrors, UNCHANGED <<lastTime, times>>, Fail(c, code)
      PROVE  IInv'
  <2>1. code \in Codes \ ({"none"} \cup CheckCodes)
    BY ClockErrorCodes
  <2>2. lastTime' \in 0..MaxTime /\ lastTime <= lastTime' /\ step[c] \in 1..10
    BY <1>3, <1>4, <1>8, ConstantsAssumption
  <2>. QED  BY <1>2, <1>8, <2>1, <2>2, FailStep
<1>. QED  BY <1>1, <1>5, <1>6, <1>7, <1>8

\* What a call in progress has recorded, and its end at time t, pass the check.
LEMMA RecordPasses ==
  ASSUME IInv, NEW c \in Calls, step[c] = 10, NEW status \in Receipts, NEW t \in 0..MaxTime, lastTime <= t,
         status = "completed" => failure[c] = "none" /\ t < authorization[c].expires
  PROVE  SelfChecked(c, status, t)
<1>. USE DEF IInv
<1>1. times[c] \in Seq(0..MaxTime) /\ lastTime \in 0..MaxTime
  BY DEF TypeOK
<1>2. ASSUME NEW i \in 1..Len(times[c]) PROVE times[c][i] <= t
  <2>1. times[c][i] \in 0..MaxTime
    BY <1>1, <1>2, Element
  <2>2. times[c][i] <= lastTime
    BY <1>2 DEF TimesBounded
  <2>. QED  BY <1>1, <2>1, <2>2, ConstantsAssumption
<1>3. \A i \in 2..Len(times[c]) : times[c][i - 1] <= times[c][i]
  BY DEF TimesBounded
<1>. DEFINE r == Append(times[c], t)
<1>4. /\ Len(r) = Len(times[c]) + 1 /\ Len(times[c]) \in Nat
      /\ \A i \in 1..Len(r) : r[i] <= t
      /\ \A i \in 2..Len(r) : r[i - 1] <= r[i]
  <2>1. Len(times[c]) \in Nat
    BY <1>1
  <2>. DEFINE s == times[c]
  <2>2. /\ s \in Seq(0..MaxTime)
        /\ \A i \in 1..Len(s) : s[i] <= t
        /\ \A i \in 2..Len(s) : s[i - 1] <= s[i]
    BY <1>1, <1>2, <1>3
  <2>. HIDE DEF s
  <2>3. /\ Len(Append(s, t)) = Len(s) + 1
        /\ \A i \in 1..Len(Append(s, t)) : Append(s, t)[i] <= t
        /\ \A i \in 2..Len(Append(s, t)) : Append(s, t)[i - 1] <= Append(s, t)[i]
    BY <2>2, AppendRising
  <2>. QED  BY <2>1, <2>3 DEF s
<1>5. status = "completed" => Len(r) = 6
  <2>1. failure[c] = "none" => Len(times[c]) = EventsBefore(10)
    BY DEF EventsFollowSteps
  <2>2. EventsBefore(10) = 5
    BY DEF EventsBefore
  <2>. QED  BY <1>4, <2>1, <2>2
<1>. HIDE DEF r
<1>6. \A i \in 1..Len(r) : r[i] <= t /\ (i > 1 => r[i - 1] <= r[i])
  BY <1>4
<1>. QED  BY <1>5, <1>6 DEF SelfChecked, r

LEMMA RecordStep ==
  ASSUME IInv, NEW c \in Calls, step[c] = 10, stack # <<>>,
         NEW status \in Receipts, NEW code \in Codes, code \notin CheckCodes,
         NEW t \in 0..MaxTime, lastTime <= t, lastTime' = t,
         status = "completed" => failure[c] = "none" /\ t < authorization[c].expires,
         ReturnRecord(c, status, code, t),
         UNCHANGED <<spent, request, times, authorization, failure, disposed>>
  PROVE  IInv'
<1>. USE DEF IInv
<1>1. CheckCode(c, status, t) = IF Live(c) THEN "none" ELSE "EXECUTION_SOURCE_UNATTESTED"
  BY RecordPasses DEF CheckCode
<1>2. t \in Nat /\ t <= t /\ 0 <= t /\ lastTime \in Nat
  BY ConstantsAssumption DEF TypeOK
<1>3. CASE Return(c, [status |-> status, code |-> code, at |-> t])
  <2>. DEFINE value == [status |-> status, code |-> code, at |-> t]
  <2>1. value \in [status: Statuses, code: Codes, at: 0..MaxTime]
    BY DEF Receipts, Statuses
  <2>2. /\ value.status = status /\ value.code = code /\ value.at = t /\ status # "none"
        /\ value.code # "EXECUTION_BINDING_INVALID" /\ value.code # "EXECUTION_SOURCE_UNATTESTED"
    BY DEF Receipts, CheckCodes
  <2>3. status = "completed" => authorization[c].issued <= t
    <3>1. failure[c] = "none" => authorization[c] \in Authorizations /\ authorization[c].issued <= lastTime
      BY DEF AuthorizationInHand
    <3>2. authorization[c] \in Authorizations => authorization[c].issued \in Nat
      BY ConstantsAssumption DEF Authorizations
    <3>. QED  BY <1>2, <3>1, <3>2
  <2>. HIDE DEF value
  <2>4. Return(c, value)
    BY <1>3 DEF value
  <2>. QED  BY <1>2, <2>1, <2>2, <2>3, <2>4, ReturnStep
<1>4. CASE Return(c, Rejected(BudgetCode(code)))
  <2>1. /\ BudgetCode(code) \in Codes /\ BudgetCode(code) # "EXECUTION_BINDING_INVALID"
        /\ BudgetCode(code) # "EXECUTION_SOURCE_UNATTESTED"
    BY DEF BudgetCode, Codes, CheckCodes
  <2>. QED  BY <1>2, <1>4, <2>1, RejectedRecord, ReturnStep
<1>5. CASE ~Live(c) /\ Return(c, Rejected("EXECUTION_SOURCE_UNATTESTED"))
  <2>1. "EXECUTION_SOURCE_UNATTESTED" \in Codes
    BY DEF Codes
  <2>. QED  BY <1>2, <1>5, <2>1, RejectedRecord, ReturnStep
<1>. QED  BY <1>1, <1>3, <1>4, <1>5 DEF ReturnRecord

LEMMA TerminalStep ==
  ASSUME IInv, NEW c \in Calls, TerminalAnswers(c)  PROVE IInv'
<1>. USE DEF IInv
<1>1. step[c] = 10 /\ stack # <<>>
  <2>1. step[c] \in 1..10 /\ Steps[step[c]] = "terminal" /\ stack # <<>>
    BY AwaitsStep DEF TerminalAnswers, Awaits
  <2>. QED  BY <2>1, StepOfName
<1>2. UNCHANGED <<spent, request, times, authorization, failure, disposed>>
  BY DEF TerminalAnswers
<1>3. failure[c] \in Codes /\ lastTime \in 0..MaxTime /\ lastTime <= lastTime
  BY ConstantsAssumption DEF TypeOK
<1>4. failure[c] \notin CheckCodes
  BY DEF NoBindingFailure
<1>5. ASSUME NEW t \in Accepted, lastTime' = t, failure[c] # "none",
             ReturnRecord(c, Refused(failure[c]), failure[c], t)
      PROVE  IInv'
  <2>1. Refused(failure[c]) \in Receipts /\ Refused(failure[c]) # "completed" /\ t \in 0..MaxTime /\ lastTime <= t
    BY DEF Refused, Receipts, Accepted
  <2>. QED  BY <1>1, <1>2, <1>3, <1>4, <1>5, <2>1, RecordStep
<1>6. ASSUME NEW t \in Accepted, lastTime' = t, ReturnRecord(c, "denied", "EXECUTION_HOST_EXPIRED", t)
      PROVE  IInv'
  <2>1. /\ "denied" \in Receipts /\ t \in 0..MaxTime /\ lastTime <= t
        /\ "EXECUTION_HOST_EXPIRED" \in Codes \ CheckCodes
    BY DEF Receipts, Accepted, Codes, HostRefusals, CheckCodes
  <2>. QED  BY <1>1, <1>2, <1>6, <2>1, RecordStep
<1>7. ASSUME NEW t \in Accepted, lastTime' = t, failure[c] = "none", ~Lapsed(c, t),
             ReturnRecord(c, "completed", "none", t)
      PROVE  IInv'
  <2>1. "completed" \in Receipts /\ t \in 0..MaxTime /\ lastTime <= t /\ "none" \in Codes \ CheckCodes
    BY DEF Receipts, Accepted, Codes, CheckCodes
  <2>2. t < authorization[c].expires
    <3>1. authorization[c] \in Authorizations
      BY <1>1, <1>7 DEF AuthorizationInHand
    <3>2. authorization[c].expires \in Nat /\ t \in Nat
      BY <2>1, <3>1, ConstantsAssumption DEF Authorizations
    <3>. QED  BY <1>7, <3>2 DEF Lapsed
  <2>. QED  BY <1>1, <1>2, <1>7, <2>1, <2>2, RecordStep
<1>8. ASSUME NEW code \in Codes, code \notin CheckCodes, Return(c, Rejected(code)), UNCHANGED lastTime
      PROVE  IInv'
  <2>1. /\ Rejected(code) \in [status: Statuses, code: Codes, at: 0..MaxTime]
        /\ Rejected(code).status = "rejected" /\ Rejected(code).at = 0 /\ Rejected(code).code = code
    BY RejectedRecord
  <2>2. lastTime' \in 0..MaxTime /\ lastTime <= lastTime' /\ 0 <= lastTime' /\ step[c] \in 1..10
    BY <1>1, <1>3, <1>8, ConstantsAssumption
  <2>. QED  BY <1>1, <1>2, <1>8, <2>1, <2>2, ReturnStep DEF CheckCodes
<1>9. ASSUME failure[c] # "none", UNCHANGED lastTime,
             ReturnRecord(c, Refused(failure[c]), failure[c], Fallback(c))
      PROVE  IInv'
  <2>1. Refused(failure[c]) \in Receipts /\ Refused(failure[c]) # "completed" /\ Fallback(c) = lastTime
    BY DEF Refused, Receipts, Fallback
  <2>. QED  BY <1>1, <1>2, <1>3, <1>4, <1>9, <2>1, RecordStep
<1>10. ClockErrors \subseteq Codes \ ({"none"} \cup CheckCodes)
  BY ClockErrorCodes
<1>. QED  BY <1>3, <1>4, <1>5, <1>6, <1>7, <1>8, <1>9, <1>10 DEF TerminalAnswers

-----------------------------------------------------------------------------

\* Disposal changes no call; what was refused for want of a source stays without it.
LEMMA DisposeStep ==
  ASSUME IInv, NEW s \in Sources, Dispose(s)  PROVE IInv'
<1>. USE DEF IInv
<1>1. UNCHANGED <<spent, lastTime, stack, step, request, times, authorization, failure, result>>
  BY DEF Dispose, calls
<1>2. disposed \subseteq disposed' /\ disposed' \subseteq Sources
  BY DEF Dispose, TypeOK
<1>3. TypeOK'
  BY <1>1, <1>2 DEF TypeOK
<1>4. /\ ReservedIsSpent' /\ AttemptedOnce' /\ EventsFollowSteps' /\ AuthorizationInHand'
      /\ NoBindingFailure' /\ InProgress' /\ TimesBounded' /\ OutputWithinAuthorization'
  BY <1>1 DEF ReservedIsSpent, AttemptedOnce, EventsFollowSteps, AuthorizationInHand, NoBindingFailure,
              InProgress, TimesBounded, OutputWithinAuthorization
<1>5. SelfCheckPasses'
  BY <1>1, <1>2 DEF SelfCheckPasses, Live
<1>. QED  BY <1>3, <1>4, <1>5

LEMMA Inductive == Spec => []IInv
<1>1. Init => IInv
  <2>1. ASSUME Init PROVE TypeOK
    BY <2>1, StepCount, ConstantsAssumption DEF Init, TypeOK, NoResult, Statuses, Codes
  <2>. QED
    BY <2>1, ConstantsAssumption
    DEF Init, IInv, ReservedIsSpent, AttemptedOnce, InProgress, TimesBounded, EventsFollowSteps,
        NoBindingFailure, CheckCodes, AuthorizationInHand, SelfCheckPasses, OutputWithinAuthorization, NoResult
<1>2. IInv /\ [Next]_vars => IInv'
  <2>. SUFFICES ASSUME IInv, [Next]_vars PROVE IInv'
    OBVIOUS
  <2>1. CASE UNCHANGED vars
    BY <2>1
    DEF vars, calls, Live, IInv, TypeOK, ReservedIsSpent, AttemptedOnce, InProgress, TimesBounded, EventsFollowSteps,
        NoBindingFailure, AuthorizationInHand, SelfCheckPasses, OutputWithinAuthorization
  <2>2. CASE Next
    BY <2>2, RefuseStep, ReserveStep, ProviderStep, EventStep, TerminalStep, DisposeStep DEF Next
  <2>. QED  BY <2>1, <2>2
<1>. QED  BY <1>1, <1>2, PTL DEF Spec

\* Every variable keeps its type.
THEOREM TypeCorrect == Spec => []TypeOK
<1>1. IInv => TypeOK
  BY DEF IInv
<1>. QED  BY <1>1, Inductive, PTL

\* execution.js:233-236: no request and no run is attempted twice, reentrant and failed
\* attempts included.
THEOREM NoSecondAttempt == Spec => []AttemptedOnce
<1>1. IInv => AttemptedOnce
  BY DEF IInv
<1>. QED  BY <1>1, Inductive, PTL

\* execution.js:298: at any depth of calls inside callbacks, the check of the record fails
\* for a source disposed during the call and for nothing else.
THEOREM RecordsPassTheirCheck == Spec => []SelfCheckPasses
<1>1. IInv => SelfCheckPasses
  BY DEF IInv
<1>. QED  BY <1>1, Inductive, PTL

\* execution.js:248, 293: output is released inside the authorization it names.
THEOREM OutputIsAuthorized == Spec => []OutputWithinAuthorization
<1>1. IInv => OutputWithinAuthorization
  BY DEF IInv
<1>. QED  BY <1>1, Inductive, PTL

\* execution.js:291: a receipt is never dated before one that was returned earlier.
THEOREM ReceiptsAreOrdered == Spec => ReceiptsInOrder
<1>1. ASSUME IInv, IInv', [Next]_vars
      PROVE  [\A c, d \in Calls :
                /\ result[c].status \in {"completed", "denied", "failed"}
                /\ result[d] = NoResult /\ result'[d].status \in {"completed", "denied", "failed"}
                => result[c].at <= result'[d].at]_vars
  <2>. SUFFICES ASSUME Next, NEW c \in Calls, NEW d \in Calls,
                       result[d] = NoResult, result'[d].status \in Receipts
                PROVE  result[c].at <= result'[d].at
    BY <1>1 DEF vars, Receipts
  <2>1. result[c].at \in Nat /\ lastTime \in Nat /\ result[c].at <= lastTime
    BY <1>1, ConstantsAssumption DEF IInv, TypeOK, TimesBounded
  <2>2. ASSUME NEW e \in Calls, NEW value, result' = [result EXCEPT ![e] = value]
        PROVE  e = d /\ result'[d] = value
    <3>1. result'[d] # NoResult
      BY DEF NoResult, Receipts
    <3>2. DOMAIN result = Calls
      BY <1>1 DEF IInv, TypeOK
    <3>. QED  BY <2>2, <3>1, <3>2
  <2>3. ASSUME NEW e \in Calls, NEW code, result' = [result EXCEPT ![e] = Rejected(code)]
        PROVE  FALSE
    <3>1. result'[d] = Rejected(code)
      BY <2>2, <2>3
    <3>2. Rejected(code).status = "rejected"
      BY DEF Rejected
    <3>. QED  BY <3>1, <3>2 DEF Receipts
  <2>4. result # result'
    BY DEF NoResult, Receipts
  <2>5. CASE \E e \in Calls : Refuse(e) \/ Reserve(e)
    BY <2>3, <2>4, <2>5 DEF Refuse, Reserve
  <2>6. CASE \E e \in Calls : ProviderAnswers(e) \/ EventAnswers(e)
    BY <2>3, <2>4, <2>6 DEF ProviderAnswers, EventAnswers, Fail, Advance, Return
  <2>7. ASSUME NEW e \in Calls, NEW status, NEW code, NEW t, lastTime <= t, t \in Nat, ReturnRecord(e, status, code, t)
        PROVE  result[c].at <= result'[d].at
    <3>1. CASE Return(e, [status |-> status, code |-> code, at |-> t])
      <4>1. result'[d] = [status |-> status, code |-> code, at |-> t]
        BY <2>2, <3>1 DEF Return
      <4>. QED  BY <2>1, <2>7, <4>1
    <3>2. CASE \E other : Return(e, Rejected(other))
      BY <2>3, <3>2 DEF Return
    <3>. QED  BY <2>7, <3>1, <3>2 DEF ReturnRecord
  <2>8. ASSUME NEW e \in Calls, TerminalAnswers(e) PROVE result[c].at <= result'[d].at
    <3>1. \A t \in Accepted : t \in Nat /\ lastTime <= t
      BY ConstantsAssumption DEF Accepted
    <3>2. Fallback(e) \in Nat /\ lastTime <= Fallback(e)
      BY <2>1 DEF Fallback
    <3>3. \/ \E t \in Accepted : \E status, code : ReturnRecord(e, status, code, t)
          \/ \E status, code : ReturnRecord(e, status, code, Fallback(e))
          \/ \E code : Return(e, Rejected(code))
      BY <2>8 DEF TerminalAnswers
    <3>. QED  BY <2>3, <2>7, <3>1, <3>2, <3>3 DEF Return
  <2>9. ASSUME NEW s \in Sources, Dispose(s) PROVE FALSE
    BY <2>4, <2>9 DEF Dispose, calls
  <2>. QED  BY <2>5, <2>6, <2>8, <2>9 DEF Next
<1>. QED  BY <1>1, Inductive, PTL DEF Spec, ReceiptsInOrder

\* execution.js:57-61, 143, 165, 298: no receipt is returned for a source that was disposed
\* before the last clock answer, however deep in callbacks that happened.
THEOREM ReceiptsNeedTheirSource == Spec => NoReceiptWithoutSource
<1>1. ASSUME IInv, [Next]_vars
      PROVE  [\A c \in Calls :
                result[c] = NoResult /\ result'[c].status \in {"completed", "denied", "failed"} => Live(c)]_vars
  <2>. SUFFICES ASSUME Next, NEW c \in Calls, result[c] = NoResult, result'[c].status \in Receipts
                PROVE  Live(c)
    BY <1>1 DEF vars, Receipts
  <2>1. ASSUME NEW e \in Calls, NEW value, result' = [result EXCEPT ![e] = value]
        PROVE  e = c /\ result'[c] = value
    <3>1. result'[c] # NoResult
      BY DEF NoResult, Receipts
    <3>2. DOMAIN result = Calls
      BY <1>1 DEF IInv, TypeOK
    <3>. QED  BY <2>1, <3>1, <3>2
  <2>2. ASSUME NEW e \in Calls, NEW code, result' = [result EXCEPT ![e] = Rejected(code)]
        PROVE  FALSE
    <3>1. result'[c] = Rejected(code)
      BY <2>1, <2>2
    <3>2. Rejected(code).status = "rejected"
      BY DEF Rejected
    <3>. QED  BY <3>1, <3>2 DEF Receipts
  <2>3. result # result'
    BY DEF NoResult, Receipts
  <2>4. ASSUME NEW e \in Calls, Refuse(e) \/ Reserve(e) \/ ProviderAnswers(e) \/ EventAnswers(e)
        PROVE  FALSE
    BY <2>2, <2>3, <2>4 DEF Refuse, Reserve, ProviderAnswers, EventAnswers, Fail, Advance, Return
  <2>5. ASSUME NEW e \in Calls, NEW status, NEW code, NEW t, ReturnRecord(e, status, code, t)
        PROVE  Live(c)
    <3>1. CASE CheckCode(e, status, t) = "none"
      <4>1. Live(e)
        BY <3>1 DEF CheckCode
      <4>2. \E value : result' = [result EXCEPT ![e] = value]
        BY <2>5 DEF ReturnRecord, Return
      <4>. QED  BY <2>1, <4>1, <4>2
    <3>2. CASE \E other : Return(e, Rejected(other))
      BY <2>2, <3>2 DEF Return
    <3>. QED  BY <2>5, <3>1, <3>2 DEF ReturnRecord
  <2>6. ASSUME NEW e \in Calls, TerminalAnswers(e) PROVE Live(c)
    <3>1. \/ \E status, code, t : ReturnRecord(e, status, code, t)
          \/ \E code : Return(e, Rejected(code))
      BY <2>6 DEF TerminalAnswers
    <3>. QED  BY <2>2, <2>5, <3>1 DEF Return
  <2>7. ASSUME NEW s \in Sources, Dispose(s) PROVE FALSE
    BY <2>3, <2>7 DEF Dispose, calls
  <2>. QED  BY <2>4, <2>6, <2>7 DEF Next
<1>. QED  BY <1>1, Inductive, PTL DEF Spec, NoReceiptWithoutSource

\* Between any two callbacks the run's invariant of an execution Host (execution.js) holds,
\* however calls are nested.
THEOREM AttemptInvariantHolds == Spec => []AttemptInvariant
<1>1. TypeOK /\ AttemptedOnce /\ SelfCheckPasses /\ OutputWithinAuthorization => AttemptInvariant
  BY DEF AttemptInvariant
<1>. QED  BY <1>1, TypeCorrect, NoSecondAttempt, RecordsPassTheirCheck, OutputIsAuthorized, PTL

\* What a call may answer once it has met its first cause.
Tells(c, value) ==
  \/ value.code = failure[c]
  \/ ~Live(c) /\ value = Rejected("EXECUTION_SOURCE_UNATTESTED")

\* A call that met a cause and has returned tells it, or that its source is gone.
CauseTold == \A c \in Calls : failure[c] # "none" /\ result[c] # NoResult => Tells(c, result[c])

LEMMA CauseKept ==
  ASSUME IInv, CauseTold, [Next]_vars, NEW d \in Calls, result'[d] # NoResult
  PROVE  /\ failure[d] # "none" => Tells(d, result'[d])
         /\ failure'[d] = failure[d]
         /\ failure[d] # "none" => request'[d] = request[d]
         /\ disposed \subseteq disposed'
<1>1. CASE UNCHANGED vars
  BY <1>1 DEF vars, calls, CauseTold
<1>2. ASSUME NEW c \in Calls, Refuse(c) \/ Reserve(c)
      PROVE  /\ failure[d] # "none" => Tells(d, result'[d])
             /\ failure'[d] = failure[d] /\ (failure[d] # "none" => request'[d] = request[d])
             /\ UNCHANGED disposed
  <2>1. UNCHANGED <<failure, disposed>> /\ failure[c] = "none"
    BY <1>2 DEF Refuse, Reserve, Idle, IInv, InProgress
  <2>2. d # c => result'[d] = result[d] /\ request'[d] = request[d]
    BY <1>2 DEF Refuse, Reserve, IInv, TypeOK
  <2> QED BY <2>1, <2>2 DEF CauseTold
<1>3. ASSUME NEW c \in Calls, NEW name, Awaits(c, name)
      PROVE  result[c] = NoResult /\ step[c] \in 1..10 /\ Steps[step[c]] = name
  BY <1>3, AwaitsStep DEF IInv, InProgress
<1>4. ASSUME NEW c \in Calls, ProviderAnswers(c)
      PROVE  /\ failure[d] # "none" => Tells(d, result'[d])
             /\ failure'[d] = failure[d] /\ UNCHANGED <<request, disposed>>
  <2>1. result[c] = NoResult
    BY <1>3, <1>4 DEF ProviderAnswers
  <2>2. UNCHANGED <<result, request, disposed>> /\ (d # c => failure'[d] = failure[d])
    BY <1>4 DEF ProviderAnswers, Fail, Advance, IInv, TypeOK
  <2> QED BY <2>1, <2>2 DEF CauseTold
<1>5. ASSUME NEW c \in Calls, EventAnswers(c)
      PROVE  /\ failure[d] # "none" => Tells(d, result'[d])
             /\ failure'[d] = failure[d] /\ UNCHANGED <<request, disposed>>
  <2>1. PICK n \in 1..Len(Steps) - 1 :
          /\ Awaits(c, Steps[n])
          /\ \/ UNCHANGED result /\ (d # c => failure'[d] = failure[d])
             \/ n = 1 /\ UNCHANGED failure /\ (d # c => result'[d] = result[d])
    BY <1>5 DEF EventAnswers, Fail, Advance, Return, IInv, TypeOK
  <2>2. result[c] = NoResult /\ step[c] = n
    BY <1>3, <2>1, StepCount, StepOfName
  <2>3. n = 1 => failure[c] = "none"
    BY <2>2 DEF IInv, EventsFollowSteps
  <2>4. UNCHANGED <<request, disposed>>
    BY <1>5 DEF EventAnswers
  <2> QED BY <2>1, <2>2, <2>3, <2>4 DEF CauseTold
<1>6. ASSUME NEW c \in Calls, TerminalAnswers(c)
      PROVE  /\ failure[d] # "none" => Tells(d, result'[d])
             /\ failure'[d] = failure[d] /\ UNCHANGED <<request, disposed>>
  <2>1. UNCHANGED <<failure, request, disposed>> /\ step[c] = 10
    <3>1. step[c] \in 1..10 /\ Steps[step[c]] = "terminal"
      BY <1>3, <1>6 DEF TerminalAnswers
    <3> QED BY <1>6, <3>1, StepOfName DEF TerminalAnswers
  <2>2. ASSUME NEW t \in 0..MaxTime, lastTime <= t, failure[c] # "none",
               ReturnRecord(c, Refused(failure[c]), failure[c], t)
        PROVE  \E value : Tells(c, value) /\ Return(c, value)
    <3>1. Refused(failure[c]) \in Receipts /\ Refused(failure[c]) # "completed"
      BY DEF Refused, Receipts
    <3>2. SelfChecked(c, Refused(failure[c]), t)
      BY <2>1, <2>2, <3>1, RecordPasses
    <3>3. CheckCode(c, Refused(failure[c]), t) = IF Live(c) THEN "none" ELSE "EXECUTION_SOURCE_UNATTESTED"
      BY <3>2 DEF CheckCode
    <3>4. CASE Return(c, [status |-> Refused(failure[c]), code |-> failure[c], at |-> t])
      BY <3>4 DEF Tells
    <3>5. CASE Return(c, Rejected(BudgetCode(failure[c])))
      BY <2>2, <3>5 DEF Tells, BudgetCode, Rejected
    <3>6. CASE ~Live(c) /\ Return(c, Rejected("EXECUTION_SOURCE_UNATTESTED"))
      BY <3>6 DEF Tells
    <3> QED BY <2>2, <3>3, <3>4, <3>5, <3>6 DEF ReturnRecord
  <2>3. \/ failure[c] = "none" /\ \E value : Return(c, value)
        \/ failure[c] # "none" /\ \E value : Tells(c, value) /\ Return(c, value)
    <3>1. CASE failure[c] = "none"
      BY <1>6, <3>1 DEF TerminalAnswers, ReturnRecord
    <3>2. CASE failure[c] # "none"
      <4>1. \/ \E t \in Accepted : ReturnRecord(c, Refused(failure[c]), failure[c], t)
            \/ ReturnRecord(c, Refused(failure[c]), failure[c], lastTime)
            \/ Return(c, Rejected(failure[c]))
        BY <1>6, <3>2 DEF TerminalAnswers, Fallback
      <4>2. \A t \in Accepted : t \in 0..MaxTime /\ lastTime <= t
        BY DEF Accepted
      <4>3. lastTime \in 0..MaxTime /\ lastTime <= lastTime
        BY ConstantsAssumption DEF IInv, TypeOK
      <4>4. Tells(c, Rejected(failure[c]))
        BY DEF Tells, Rejected
      <4> QED BY <2>2, <3>2, <4>1, <4>2, <4>3, <4>4
    <3> QED BY <3>1, <3>2
  <2>4. PICK value :
          /\ failure[c] # "none" => Tells(c, value)
          /\ result' = [result EXCEPT ![c] = value]
    BY <2>3 DEF Return
  <2>5. result'[c] = value /\ (d # c => result'[d] = result[d])
    BY <2>4 DEF IInv, TypeOK
  <2> QED BY <2>1, <2>4, <2>5 DEF CauseTold
<1>7. ASSUME NEW s \in Sources, Dispose(s)
      PROVE  /\ failure[d] # "none" => Tells(d, result'[d])
             /\ failure'[d] = failure[d] /\ UNCHANGED request /\ disposed \subseteq disposed'
  BY <1>7 DEF Dispose, calls, CauseTold
<1> QED BY <1>1, <1>2, <1>4, <1>5, <1>6, <1>7 DEF Next, vars

\* execution.js:279-291, 300-302: whatever the clock, an expiry or a budget does afterwards, a
\* call tells the first cause it met; only a source disposed meanwhile takes its place (298).
THEOREM FirstCauseIsKept == Spec => FirstCauseKept
<1>1. Init => CauseTold
  BY DEF Init, CauseTold
<1>2. IInv /\ CauseTold /\ [Next]_vars => CauseTold'
  <2> SUFFICES ASSUME IInv, CauseTold, [Next]_vars, NEW d \in Calls, failure'[d] # "none", result'[d] # NoResult
               PROVE  Tells(d, result[d])'
    BY DEF CauseTold
  <2>1. failure'[d] = failure[d]
    BY CauseKept
  <2>2. /\ \/ result'[d].code = failure[d]
           \/ ~Live(d) /\ result'[d] = Rejected("EXECUTION_SOURCE_UNATTESTED")
        /\ request'[d] = request[d] /\ disposed \subseteq disposed'
    BY <2>1, CauseKept DEF Tells
  <2>3. ~Live(d) => ~Live(d)'
    BY <2>2 DEF Live
  <2>4. Rejected("EXECUTION_SOURCE_UNATTESTED")' = Rejected("EXECUTION_SOURCE_UNATTESTED")
    BY DEF Rejected
  <2> QED BY <2>1, <2>2, <2>3, <2>4 DEF Tells
<1>3. IInv /\ CauseTold /\ [Next]_vars =>
        [\A c \in Calls : failure[c] # "none" /\ result'[c] # NoResult =>
           \/ result'[c].code = failure[c]
           \/ ~Live(c) /\ result'[c] = Rejected("EXECUTION_SOURCE_UNATTESTED")]_vars
  BY CauseKept DEF Tells
<1> QED BY <1>1, <1>2, <1>3, Inductive, PTL DEF Spec, FirstCauseKept

-----------------------------------------------------------------------------
(* Calls inside calls                                                       *)

\* The calls in progress, each once, from the outermost to the innermost.
StackHoldsCalls ==
  /\ \A i, j \in 1..Len(stack) : stack[i] = stack[j] => i = j
  /\ \A c \in Calls : step[c] # 0 <=> \E i \in 1..Len(stack) : stack[i] = c

Innermost(c) == stack # <<>> /\ Last(stack) = c

\* What a step does to the call it belongs to: it is rejected at once, begins, goes on
\* behind its callback, or returns.
Rejects(c) == step[c] = 0 /\ result[c] = NoResult /\ result'[c] # NoResult /\ UNCHANGED <<step, stack>>
Begins(c) ==
  /\ step[c] = 0 /\ result[c] = NoResult /\ result' = result
  /\ step' = [step EXCEPT ![c] = 1] /\ stack' = Append(stack, c)
GoesOn(c) ==
  /\ Innermost(c) /\ step[c] \in 1..9 /\ result' = result /\ stack' = stack
  /\ \E n \in 2..10 : step[c] < n /\ step' = [step EXCEPT ![c] = n]
Returns(c) ==
  /\ Innermost(c) /\ step[c] \in 1..10 /\ result'[c] # NoResult
  /\ step' = [step EXCEPT ![c] = 0] /\ stack' = Front(stack)

\* The locals of a call.
Same(c) ==
  /\ step'[c] = step[c] /\ result'[c] = result[c] /\ request'[c] = request[c]
  /\ times'[c] = times[c] /\ authorization'[c] = authorization[c] /\ failure'[c] = failure[c]

LEMMA StepShape ==
  ASSUME IInv, NEW c \in Calls,
         Refuse(c) \/ Reserve(c) \/ ProviderAnswers(c) \/ EventAnswers(c) \/ TerminalAnswers(c)
  PROVE  /\ Rejects(c) \/ Begins(c) \/ GoesOn(c) \/ Returns(c)
         /\ \A d \in Calls \ {c} : Same(d)
<1>0. /\ TypeOK /\ step \in [Calls -> 0..10] /\ Len(Steps) = 10
      /\ result \in [Calls -> [status: Statuses, code: Codes, at: 0..MaxTime]]
      /\ step[c] # 0 => result[c] = NoResult
  BY StepType, StepCount DEF IInv, TypeOK, InProgress
<1>1. ASSUME NEW code PROVE Rejected(code) # NoResult
  BY DEF Rejected, NoResult
<1>2. ASSUME NEW value, Return(c, value), value # NoResult, Innermost(c), step[c] \in 1..10
      PROVE  Returns(c) /\ \A d \in Calls \ {c} : step'[d] = step[d] /\ result'[d] = result[d]
  BY <1>0, <1>2 DEF Return, Returns
<1>3. ASSUME NEW code, Fail(c, code), Innermost(c), step[c] \in 1..9
      PROVE  GoesOn(c) /\ \A d \in Calls \ {c} : step'[d] = step[d] /\ result'[d] = result[d] /\ failure'[d] = failure[d]
  <2>1. step' = [step EXCEPT ![c] = 10] /\ step[c] < 10
    BY <1>0, <1>3 DEF Fail
  <2>2. failure' = [failure EXCEPT ![c] = code] /\ failure \in [Calls -> Codes] /\ UNCHANGED <<stack, result>>
    BY <1>0, <1>3 DEF Fail, TypeOK
  <2>. QED  BY <1>0, <1>3, <2>1, <2>2 DEF GoesOn
<1>4. ASSUME Advance(c), Innermost(c), step[c] \in 1..9
      PROVE  GoesOn(c) /\ \A d \in Calls \ {c} : step'[d] = step[d] /\ result'[d] = result[d]
  <2>1. step' = [step EXCEPT ![c] = step[c] + 1] /\ UNCHANGED <<stack, result>>
    BY <1>4 DEF Advance
  <2>2. step[c] + 1 \in 2..10 /\ step[c] < step[c] + 1
    BY <1>4
  <2>. QED  BY <1>0, <1>4, <2>1, <2>2 DEF GoesOn
<1>5. ASSUME NEW name, Awaits(c, name)
      PROVE  Innermost(c) /\ step[c] \in 1..10 /\ Steps[step[c]] = name
  BY <1>0, <1>5, AwaitsStep DEF Awaits, Innermost
<1>6. CASE Refuse(c)
  <2>1. \E code : result' = [result EXCEPT ![c] = Rejected(code)]
    BY <1>6 DEF Refuse
  <2>2. step[c] = 0 /\ result[c] = NoResult /\ UNCHANGED <<stack, step, request, times, authorization, failure>>
    BY <1>6 DEF Refuse, Idle
  <2>. QED  BY <1>0, <1>1, <2>1, <2>2 DEF Rejects, Same
<1>7. CASE Reserve(c)
  <2>1. /\ step[c] = 0 /\ result[c] = NoResult /\ UNCHANGED <<times, authorization, failure>>
        /\ \E r \in Requests : request' = [request EXCEPT ![c] = r]
    BY <1>7 DEF Reserve, Idle
  <2>2. \A d \in Calls \ {c} : request'[d] = request[d]
    BY <1>0, <2>1 DEF TypeOK
  <2>3. CASE stack' = Append(stack, c) /\ step' = [step EXCEPT ![c] = 1] /\ UNCHANGED result
    BY <1>0, <2>1, <2>2, <2>3 DEF Begins, Same
  <2>4. CASE /\ result' = [result EXCEPT ![c] = Rejected("EXECUTION_BUDGET_EXCEEDED")]
             /\ UNCHANGED <<stack, step>>
    BY <1>0, <1>1, <2>1, <2>2, <2>4 DEF Rejects, Same
  <2>. QED  BY <1>7, <2>3, <2>4 DEF Reserve
<1>8. CASE ProviderAnswers(c)
  <2>1. PICK name \in Providers :
          /\ Awaits(c, name)
          /\ \/ \E code \in Refusals(name) : Fail(c, code) /\ UNCHANGED authorization
             \/ /\ Advance(c) /\ UNCHANGED failure
                /\ \/ \E a \in Authorizations : authorization' = [authorization EXCEPT ![c] = a]
                   \/ UNCHANGED authorization
    BY <1>8 DEF ProviderAnswers
  <2>2. Innermost(c) /\ step[c] \in 1..9
    <3>1. Innermost(c) /\ step[c] \in 1..10 /\ Steps[step[c]] \in Providers
      BY <1>5, <2>1
    <3>. QED  BY <3>1, StepOfName
  <2>3. UNCHANGED <<request, times>>
    BY <1>8 DEF ProviderAnswers
  <2>4. \A d \in Calls \ {c} : authorization'[d] = authorization[d]
    BY <1>0, <2>1 DEF TypeOK
  <2>. QED  BY <1>3, <1>4, <2>1, <2>2, <2>3, <2>4 DEF Same
<1>9. CASE EventAnswers(c)
  <2>1. PICK n \in 1..Len(Steps) - 1 :
          /\ Awaits(c, Steps[n]) /\ Steps[n] \notin Providers
          /\ \/ (\E code : Fail(c, code)) /\ UNCHANGED times
             \/ /\ Advance(c) /\ UNCHANGED failure
                /\ \E t : times' = [times EXCEPT ![c] = Append(@, t)]
             \/ (\E code : Return(c, Rejected(code))) /\ UNCHANGED <<failure, times>>
    BY <1>9 DEF EventAnswers
  <2>2. Innermost(c) /\ step[c] \in 1..9
    <3>1. Innermost(c) /\ step[c] \in 1..10 /\ Steps[step[c]] = Steps[n] /\ n \in 1..9
      BY <1>0, <1>5, <2>1
    <3>2. \A k, m \in 1..10 : Steps[k] = Steps[m] => k = m
      BY StepOfName
    <3>3. n \in 1..10
      BY <3>1
    <3>. QED  BY <3>1, <3>2, <3>3
  <2>3. UNCHANGED <<request, authorization>>
    BY <1>9 DEF EventAnswers
  <2>4. \A d \in Calls \ {c} : times'[d] = times[d]
    BY <1>0, <2>1 DEF TypeOK
  <2>5. CASE (\E code : Return(c, Rejected(code))) /\ UNCHANGED <<failure, times>>
    BY <1>1, <1>2, <2>2, <2>3, <2>5 DEF Same
  <2>. QED  BY <1>3, <1>4, <2>1, <2>2, <2>3, <2>4, <2>5 DEF Same
<1>10. CASE TerminalAnswers(c)
  <2>1. /\ Awaits(c, "terminal") /\ UNCHANGED <<request, times, authorization, failure>>
        /\ \/ \E code : Return(c, Rejected(code))
           \/ \E status \in {"denied", "failed", "completed"} : \E code, t : ReturnRecord(c, status, code, t)
    BY <1>10 DEF TerminalAnswers, Refused
  <2>2. Innermost(c) /\ step[c] \in 1..10
    BY <1>5, <2>1
  <2>3. \E value : Return(c, value) /\ value # NoResult
    <3>1. ASSUME NEW status \in {"denied", "failed", "completed"}, NEW code, NEW t
          PROVE  [status |-> status, code |-> code, at |-> t] # NoResult
      BY DEF NoResult
    <3>. QED  BY <1>1, <2>1, <3>1 DEF ReturnRecord
  <2>. QED  BY <1>2, <2>1, <2>2, <2>3 DEF Same
<1>. QED  BY <1>6, <1>7, <1>8, <1>9, <1>10

LEMMA PrefixKeeps ==
  ASSUME NEW S, NEW s, NEW n \in Nat, \A i \in 1..n : s[i] \in S
  PROVE  Len(SubSeq(s, 1, n)) = n /\ \A i \in 1..n : SubSeq(s, 1, n)[i] = s[i]
OBVIOUS

LEMMA FrontKeeps ==
  ASSUME NEW S, NEW s \in Seq(S), s # <<>>
  PROVE  /\ Len(s) \in Nat \ {0} /\ Len(Front(s)) = Len(s) - 1
         /\ \A i \in 1..Len(s) - 1 : Front(s)[i] = s[i]
<1>1. Len(s) \in Nat \ {0}
  OBVIOUS
<1>2. PICK n \in Nat : n = Len(s) - 1
  BY <1>1
<1>3. Front(s) = SubSeq(s, 1, n)
  BY <1>2 DEF Front
<1>4. \A i \in 1..n : s[i] \in S
  BY <1>1, <1>2
<1>. QED  BY <1>1, <1>2, <1>3, <1>4, PrefixKeeps

LEMMA StackKept ==
  ASSUME IInv, StackHoldsCalls, [Next]_vars
  PROVE  StackHoldsCalls'
<1>0. stack \in Seq(Calls) /\ step \in [Calls -> 0..10]
  BY StepType DEF IInv, TypeOK
<1>1. CASE UNCHANGED <<stack, step>>
  BY <1>1 DEF StackHoldsCalls
<1>2. ASSUME NEW c \in Calls, Begins(c) PROVE StackHoldsCalls'
  <2>1. step[c] = 0 /\ step' = [step EXCEPT ![c] = 1] /\ stack' = Append(stack, c)
    BY <1>2 DEF Begins
  <2>2. /\ Len(stack') = Len(stack) + 1 /\ stack'[Len(stack) + 1] = c /\ Len(stack) \in Nat
        /\ \A i \in 1..Len(stack) : stack'[i] = stack[i]
    BY <1>0, <2>1
  <2>3. \A i \in 1..Len(stack) : stack[i] # c
    BY <2>1 DEF StackHoldsCalls
  <2>4. ASSUME NEW i \in 1..Len(stack'), NEW j \in 1..Len(stack'), stack'[i] = stack'[j] PROVE i = j
    BY <2>2, <2>3, <2>4 DEF StackHoldsCalls
  <2>5. ASSUME NEW d \in Calls PROVE step'[d] # 0 <=> \E i \in 1..Len(stack') : stack'[i] = d
    <3>1. CASE d = c
      BY <1>0, <2>1, <2>2, <3>1
    <3>2. CASE d # c
      <4>1. step'[d] = step[d]
        BY <1>0, <2>1, <3>2
      <4>2. (\E i \in 1..Len(stack') : stack'[i] = d) <=> \E i \in 1..Len(stack) : stack[i] = d
        BY <2>2, <3>2
      <4>. QED  BY <4>1, <4>2 DEF StackHoldsCalls
    <3>. QED  BY <3>1, <3>2
  <2>. QED  BY <2>4, <2>5 DEF StackHoldsCalls
<1>3. ASSUME NEW c \in Calls, GoesOn(c) PROVE StackHoldsCalls'
  <2>1. \A d \in Calls : step'[d] # 0 <=> step[d] # 0
    BY <1>0, <1>3 DEF GoesOn
  <2>2. stack' = stack
    BY <1>3 DEF GoesOn
  <2>. QED  BY <2>1, <2>2 DEF StackHoldsCalls
<1>4. ASSUME NEW c \in Calls, Returns(c) PROVE StackHoldsCalls'
  <2>1. /\ stack # <<>> /\ Last(stack) = c /\ step' = [step EXCEPT ![c] = 0] /\ stack' = Front(stack)
    BY <1>4 DEF Returns, Innermost
  <2>2. /\ Len(stack') = Len(stack) - 1 /\ stack[Len(stack)] = c /\ Len(stack) \in Nat \ {0}
        /\ \A i \in 1..Len(stack) - 1 : stack'[i] = stack[i]
    BY <1>0, <2>1, FrontKeeps DEF Last
  <2>3. \A i \in 1..Len(stack) - 1 : stack[i] # c
    BY <2>2 DEF StackHoldsCalls
  <2>4. ASSUME NEW i \in 1..Len(stack'), NEW j \in 1..Len(stack'), stack'[i] = stack'[j] PROVE i = j
    BY <2>2, <2>4 DEF StackHoldsCalls
  <2>5. ASSUME NEW d \in Calls PROVE step'[d] # 0 <=> \E i \in 1..Len(stack') : stack'[i] = d
    <3>1. CASE d = c
      BY <1>0, <2>1, <2>2, <2>3, <3>1
    <3>2. CASE d # c
      <4>1. step'[d] = step[d]
        BY <1>0, <2>1, <3>2
      <4>2. (\E i \in 1..Len(stack') : stack'[i] = d) <=> \E i \in 1..Len(stack) : stack[i] = d
        BY <2>2, <3>2
      <4>. QED  BY <4>1, <4>2 DEF StackHoldsCalls
    <3>. QED  BY <3>1, <3>2
  <2>. QED  BY <2>4, <2>5 DEF StackHoldsCalls
<1>5. ASSUME NEW c \in Calls, Rejects(c) PROVE StackHoldsCalls'
  BY <1>1, <1>5 DEF Rejects
<1>6. ASSUME NEW s \in Sources, Dispose(s) PROVE StackHoldsCalls'
  BY <1>1, <1>6 DEF Dispose, calls
<1>. QED  BY <1>1, <1>2, <1>3, <1>4, <1>5, <1>6, StepShape DEF Next, vars, calls

\* The stack of a Host (the JavaScript stack under consume) holds the calls in progress and
\* no other, each once, however deeply callbacks call consume again.
THEOREM StackIsExact == Spec => []StackHoldsCalls
<1>1. Init => StackHoldsCalls
  BY DEF Init, StackHoldsCalls
<1>. QED  BY <1>1, StackKept, Inductive, PTL DEF Spec

\* The answers a call still waits for, at most.
AnswersLeft == [c \in Calls |->
  IF result[c] # NoResult THEN 0 ELSE IF step[c] = 0 THEN 11 ELSE 11 - step[c]]

\* A source is disposed for good, or a step takes one call nearer to its result.  It is a
\* new call or the innermost one: the calls that wait for it in a callback find their locals
\* as they left them.
EveryExecutionStepAdvances ==
  \/ /\ disposed \subseteq disposed' /\ disposed # disposed'
     /\ \A c \in Calls : Same(c)
  \/ \E c \in Calls :
       /\ AnswersLeft'[c] < AnswersLeft[c]
       /\ step[c] # 0 => Innermost(c)
       /\ \A d \in Calls \ {c} : Same(d)

\* Each call of a Host ends after at most eleven steps of its own, whatever its clock and
\* providers answer, whatever runs and whatever is disposed inside its callbacks.
THEOREM NoExecutionStepRepeats == Spec => [][EveryExecutionStepAdvances]_vars
<1>1. ASSUME IInv, NEW c \in Calls, Rejects(c) \/ Begins(c) \/ GoesOn(c) \/ Returns(c)
      PROVE  AnswersLeft'[c] < AnswersLeft[c] /\ (step[c] # 0 => Innermost(c))
  <2>1. step \in [Calls -> 0..10] /\ (step[c] # 0 => result[c] = NoResult)
    BY <1>1, StepType DEF IInv, InProgress
  <2>2. AnswersLeft[c] = IF result[c] # NoResult THEN 0 ELSE IF step[c] = 0 THEN 11 ELSE 11 - step[c]
    BY DEF AnswersLeft
  <2>3. AnswersLeft'[c] = IF result'[c] # NoResult THEN 0 ELSE IF step'[c] = 0 THEN 11 ELSE 11 - step'[c]
    BY DEF AnswersLeft
  <2>4. CASE Rejects(c)
    BY <2>1, <2>2, <2>3, <2>4 DEF Rejects
  <2>5. CASE Begins(c)
    BY <2>1, <2>2, <2>3, <2>5 DEF Begins
  <2>6. CASE GoesOn(c)
    BY <2>1, <2>2, <2>3, <2>6 DEF GoesOn
  <2>7. CASE Returns(c)
    BY <2>1, <2>2, <2>3, <2>7 DEF Returns
  <2>. QED  BY <1>1, <2>4, <2>5, <2>6, <2>7
<1>2. ASSUME IInv, [Next]_vars PROVE [EveryExecutionStepAdvances]_vars
  <2>1. ASSUME NEW s \in Sources, Dispose(s) PROVE EveryExecutionStepAdvances
    BY <2>1 DEF Dispose, calls, EveryExecutionStepAdvances, Same
  <2>2. ASSUME NEW c \in Calls,
               Refuse(c) \/ Reserve(c) \/ ProviderAnswers(c) \/ EventAnswers(c) \/ TerminalAnswers(c)
        PROVE  EveryExecutionStepAdvances
    BY <1>1, <1>2, <2>2, StepShape DEF EveryExecutionStepAdvances
  <2>. QED  BY <1>2, <2>1, <2>2 DEF Next
<1>. QED  BY <1>2, Inductive, PTL DEF Spec

\* What it answers if it waits for the clock of its first event or of its record.
GivesUpWith(c) ==
  IF failure[c] = "none" THEN "EXECUTION_PROVIDER_FAILED"
  ELSE IF ~Live(c) /\ failure[c] # "EXECUTION_HOST_INVALID" THEN "EXECUTION_SOURCE_UNATTESTED"
  ELSE failure[c]

\* The step the innermost call has whatever its clock and providers do: an assignment of
\* every variable, in which what it waits for throws.
GivesUp(c) ==
  /\ UNCHANGED <<spent, lastTime, request, times, authorization, disposed>>
  /\ IF step[c] \in 2..9
     THEN Fail(c, "EXECUTION_PROVIDER_FAILED")
     ELSE /\ Return(c, Rejected(GivesUpWith(c)))
          /\ UNCHANGED failure

\* execution.js:234-302: no call of a Host is ever stuck behind another.  While calls are
\* in progress one of them is the innermost, and it has a step that changes its state.
THEOREM InnermostGoesOn ==
  ASSUME IInv, StackHoldsCalls, \E c \in Calls : step[c] # 0
  PROVE  \E c \in Calls : Innermost(c) /\ (GivesUp(c) => <<Next>>_vars)
<1>0. TypeOK /\ stack \in Seq(Calls) /\ step \in [Calls -> 0..10] /\ Len(Steps) = 10
  BY StepType, StepCount DEF IInv, TypeOK
<1>1. stack # <<>>
  BY <1>0 DEF StackHoldsCalls
<1>2. PICK c \in Calls : c = Last(stack)
  BY <1>0, <1>1, FrontKeeps, Element DEF Last
<1>3. step[c] \in 1..10
  <2>1. Len(stack) \in Nat \ {0} /\ stack[Len(stack)] = c
    BY <1>0, <1>1, <1>2, FrontKeeps DEF Last
  <2>2. Len(stack) \in 1..Len(stack)
    BY <2>1
  <2>3. step[c] # 0
    BY <2>1, <2>2 DEF StackHoldsCalls
  <2>. QED  BY <1>0, <2>3
<1>4. Innermost(c) /\ Awaits(c, Steps[step[c]])
  BY <1>1, <1>2, <1>3, StepCount DEF Innermost, Awaits
<1>5. ASSUME GivesUp(c) PROVE <<Next>>_vars
  <2>1. vars' # vars
    <3>1. step'[c] # step[c]
      <4>1. CASE step[c] \in 2..9
        BY <1>0, <1>5, <4>1 DEF GivesUp, Fail
      <4>2. CASE step[c] \notin 2..9
        BY <1>0, <1>3, <1>5, <4>2 DEF GivesUp, Return
      <4>. QED  BY <4>1, <4>2
    <3>. QED  BY <3>1 DEF vars, calls
  <2>2. CASE step[c] \in {2, 4, 6, 8}
    <3>1. Steps[step[c]] \in Providers
      BY <1>3, <2>2, StepOfName
    <3>2. /\ Fail(c, "EXECUTION_PROVIDER_FAILED") /\ "EXECUTION_PROVIDER_FAILED" \in Refusals(Steps[step[c]])
          /\ UNCHANGED <<spent, lastTime, request, times, authorization, disposed>>
      BY <1>5, <2>2 DEF GivesUp, Refusals
    <3>3. ProviderAnswers(c)
      BY <1>4, <3>1, <3>2 DEF ProviderAnswers
    <3>. QED  BY <2>1, <3>3 DEF Next
  <2>3. CASE step[c] \in {1, 3, 5, 7, 9}
    <3>1. Steps[step[c]] \notin Providers /\ step[c] \in 1..Len(Steps) - 1
      BY <1>0, <1>3, <2>3, StepOfName
    <3>2. "EXECUTION_PROVIDER_FAILED" \in ClockErrors
      BY DEF ClockErrors
    <3>3. IF step[c] = 1 THEN Return(c, Rejected("EXECUTION_PROVIDER_FAILED")) /\ UNCHANGED failure
                         ELSE Fail(c, "EXECUTION_PROVIDER_FAILED")
      <4>1. step[c] = 1 => failure[c] = "none"
        BY DEF IInv, EventsFollowSteps
      <4>. QED  BY <1>5, <2>3, <4>1 DEF GivesUp, GivesUpWith
    <3>4. UNCHANGED <<spent, lastTime, request, times, authorization, disposed>>
      BY <1>5 DEF GivesUp
    <3>5. EventAnswers(c)
      BY <1>4, <3>1, <3>2, <3>3, <3>4 DEF EventAnswers
    <3>. QED  BY <2>1, <3>5 DEF Next
  <2>4. CASE step[c] = 10
    <3>1. Awaits(c, "terminal")
      BY <1>4, <2>4, StepNames
    <3>2. /\ Return(c, Rejected(GivesUpWith(c)))
          /\ UNCHANGED <<spent, lastTime, request, times, authorization, failure, disposed>>
      BY <1>5, <2>4 DEF GivesUp
    <3>3. CASE failure[c] = "none"
      <4>1. "EXECUTION_PROVIDER_FAILED" \in ClockErrors
        BY DEF ClockErrors
      <4>. QED  BY <2>1, <3>1, <3>2, <3>3, <4>1 DEF GivesUpWith, TerminalAnswers, Next
    <3>4. CASE failure[c] = "EXECUTION_HOST_INVALID"
      BY <2>1, <3>1, <3>2, <3>4 DEF GivesUpWith, TerminalAnswers, Next
    <3>5. CASE failure[c] \notin {"none", "EXECUTION_HOST_INVALID"}
      <4>1. ReturnRecord(c, Refused(failure[c]), failure[c], lastTime)
        <5>1. SelfChecked(c, Refused(failure[c]), lastTime)
          <6>1. Refused(failure[c]) \in Receipts /\ Refused(failure[c]) # "completed"
            BY DEF Refused, Receipts
          <6>2. lastTime \in 0..MaxTime /\ lastTime <= lastTime
            BY <1>0 DEF TypeOK
          <6>. QED  BY <2>4, <6>1, <6>2, RecordPasses
        <5>2. CheckCode(c, Refused(failure[c]), lastTime)
                = IF Live(c) THEN "none" ELSE "EXECUTION_SOURCE_UNATTESTED"
          BY <5>1 DEF CheckCode
        <5>3. Return(c, Rejected(IF Live(c) THEN BudgetCode(failure[c]) ELSE "EXECUTION_SOURCE_UNATTESTED"))
          BY <3>2, <3>5 DEF BudgetCode, GivesUpWith
        <5>. QED  BY <5>2, <5>3 DEF ReturnRecord
      <4>. QED  BY <2>1, <3>1, <3>2, <3>5, <4>1 DEF TerminalAnswers, Fallback, Next
    <3>. QED  BY <3>3, <3>4, <3>5
  <2>. QED  BY <1>3, <2>2, <2>3, <2>4
<1>. QED  BY <1>2, <1>4, <1>5
=============================================================================
