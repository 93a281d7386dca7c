--------------------------- MODULE PackageSetRead ---------------------------
(***************************************************************************)
(* Reads of package sets that share one member provider: the admission of  *)
(* kdna-core's package-set-admission.js, and in kdna-read the own Host of  *)
(* each Read (package-set-host.js) and readPackageSetNode.                 *)
(*                                                                         *)
(* Every member observation is a synchronous provider callback, whose own  *)
(* code may abort a Read or run parts of another.  With the admission      *)
(* fixed, decidePackageSet (package-set.js) refuses a recheck only for     *)
(* want of a grant: an observation allows all members, revokes one, or     *)
(* fails.                                                                  *)
(***************************************************************************)
EXTENDS Naturals

CONSTANTS
  SetReads,
  RowTimes    \* current_ms of observed rows

ASSUME RowAssumption == RowTimes \subseteq Nat

VARIABLES
  clock,       \* current_ms of the member provider, 0 before the first row
  stage,       \* the step a Read is about to take or the await it is in
  round,       \* which of the pipeline's two Host observations is under way
  aborted,     \* the caller's signal
  failure,     \* facts.local_failure
  revoked,     \* facts.r07_revocation is set
  sink,        \* facts.sink_invoked and facts.sink_confirmed
  hasHandles,  \* the Read's handles are registered
  result,      \* channel of readResult
  token,       \* a delivered token is minted
  clean,       \* history: no observation of the Read was other than an allow
  newest       \* history: the newest row ever taken, by rejected observations too

packageVars == <<clock, stage, round, aborted, failure, revoked, sink, hasHandles, result, token,
          clean, newest>>

\* invalid_read_request stands for every code of an input that cannot be captured.
Causes == {"cancelled", "invalid_read_request", "provider_failed", "provider_invalid",
          "provider_observation_invalid", "delivery_unconfirmed"}

PackageTypeOK ==
  /\ clock \in RowTimes \cup {0} /\ newest \in RowTimes \cup {0}
  /\ stage \in [SetReads -> {"idle", "admitting", "checking", "observing", "deliver", "sink",
                         "confirming", "confirmed", "final", "done"}]
  /\ round \in [SetReads -> 1..2]
  /\ aborted \in [SetReads -> BOOLEAN]
  /\ failure \in [SetReads -> Causes \cup {"none"}]
  /\ revoked \in [SetReads -> BOOLEAN]
  /\ sink \in [SetReads -> {"not_invoked", "invoked", "confirmed"}]
  /\ hasHandles \in [SetReads -> BOOLEAN]
  /\ result \in [SetReads -> {"none", "ready", "refused", "transport_failure"}]
  /\ token \in [SetReads -> BOOLEAN] /\ clean \in [SetReads -> BOOLEAN]

PackageInit ==
  /\ clock = 0 /\ newest = 0
  /\ stage = [r \in SetReads |-> "idle"]
  /\ round = [r \in SetReads |-> 1]
  /\ aborted = [r \in SetReads |-> FALSE]
  /\ failure = [r \in SetReads |-> "none"]
  /\ revoked = [r \in SetReads |-> FALSE]
  /\ sink = [r \in SetReads |-> "not_invoked"]
  /\ hasHandles = [r \in SetReads |-> FALSE]
  /\ result = [r \in SetReads |-> "none"]
  /\ token = [r \in SetReads |-> FALSE]
  /\ clean = [r \in SetReads |-> TRUE]

-----------------------------------------------------------------------------

At(r, at) == stage[r] = at
Goes(r, to) == stage' = [stage EXCEPT ![r] = to]

\* The first cause is kept.
Latch(r, code) == failure' = [failure EXCEPT ![r] = IF @ = "none" THEN code ELSE @]

\* Fault: a rejected observation gives the clock back.
ObservationRestored(r, outcome) ==
  /\ \E row \in {clock} \cup {t \in RowTimes : t >= clock} :
       /\ outcome = "provider_failed" => row = clock
       /\ clock' = IF outcome \in {"allowed", "revoked"} THEN row ELSE clock
       /\ newest' = IF row > newest THEN row ELSE newest
  /\ clean' = [clean EXCEPT ![r] = @ /\ outcome = "allowed"]

\* captureObservation: rows are taken one by one, each no older than the clock and
\* moving it; row is the last one taken.  A later row may make the whole observation
\* invalid, and the clock stays where the rows before it put it.
Observation(r, outcome) ==
  /\ \E row \in {clock} \cup {t \in RowTimes : t >= clock} :
       /\ outcome = "provider_failed" => row = clock
       /\ clock' = row
       /\ newest' = IF row > newest THEN row ELSE newest
  /\ clean' = [clean EXCEPT ![r] = @ /\ outcome = "allowed"]

NoObservation == UNCHANGED <<clock, newest, clean>>

\* A recheck met a revocation: observe throws it, as a local failure of its own beside
\* the decision, where deliver only stops and throws none.
Revokes(r, thrown) ==
  /\ Observation(r, "revoked")
  /\ revoked' = [revoked EXCEPT ![r] = TRUE]
  /\ Latch(r, thrown)

\* Fault: a failed observation is taken for no answer and the Read goes on.
RecheckLenient(r, next, stop, thrown) ==
  \/ /\ aborted[r] /\ NoObservation
     /\ Latch(r, "cancelled") /\ Goes(r, stop) /\ UNCHANGED revoked
  \/ /\ ~aborted[r]
     /\ \/ \E outcome \in {"allowed", "provider_failed", "provider_observation_invalid"} :
             Observation(r, outcome) /\ Goes(r, next) /\ UNCHANGED <<failure, revoked>>
        \/ Revokes(r, thrown) /\ Goes(r, stop)

\* memberRecheck of the own Host: go on, or stop with a named cause.
Recheck(r, next, stop, thrown) ==
  \/ /\ aborted[r] /\ NoObservation
     /\ Latch(r, "cancelled") /\ Goes(r, stop) /\ UNCHANGED revoked
  \/ /\ ~aborted[r]
     /\ \/ Observation(r, "allowed") /\ Goes(r, next) /\ UNCHANGED <<failure, revoked>>
        \/ Revokes(r, thrown) /\ Goes(r, stop)
        \/ \E code \in {"provider_failed", "provider_observation_invalid"} :
             /\ Observation(r, code) /\ Latch(r, code) /\ Goes(r, stop)
             /\ UNCHANGED revoked

\* Capture of the input and the initial observation of the admission.  A set of the
\* wrong shape is a decision (R07_INPUT), any other unusable input a local failure.
StartPackageRead(r) ==
  /\ At(r, "idle")
  /\ \/ /\ Goes(r, "done") /\ NoObservation
        /\ \/ \E code \in {"cancelled", "invalid_read_request", "provider_invalid"} :
                Latch(r, code)
           \/ UNCHANGED failure
     \/ /\ \E outcome \in {"allowed", "revoked"} : Observation(r, outcome)
        /\ Goes(r, "admitting") /\ UNCHANGED failure
     \/ \E code \in {"provider_failed", "provider_observation_invalid"} :
          Observation(r, code) /\ Latch(r, code) /\ Goes(r, "done")
  /\ UNCHANGED <<round, aborted, revoked, sink, hasHandles, result, token>>

\* The members are admitted and the set decided on the initial rows; the pipeline may
\* refuse the request before it observes the Host.
Admitted(r) ==
  /\ At(r, "admitting") /\ NoObservation
  /\ \/ Goes(r, "done") /\ UNCHANGED <<failure, revoked, result>>
     \/ /\ clean[r] /\ Goes(r, "done") /\ Latch(r, "provider_invalid")
        /\ UNCHANGED <<revoked, result>>
     \/ clean[r] /\ Goes(r, "checking") /\ UNCHANGED <<failure, revoked, result>>
     \/ /\ clean[r] /\ Goes(r, "final") /\ result' = [result EXCEPT ![r] = "refused"]
        /\ UNCHANGED <<failure, revoked>>
  /\ UNCHANGED <<round, aborted, sink, hasHandles, token>>

\* Fault: a Read aborted between two steps is left without an answer.
CheckBeforeUnaborted(r) ==
  /\ At(r, "checking") /\ ~aborted[r]
  /\ Recheck(r, "observing", "final", "provider_observation_invalid")
  /\ result' = [result EXCEPT ![r] = IF stage'[r] = "final" THEN "transport_failure" ELSE @]
  /\ UNCHANGED <<round, aborted, sink, hasHandles, token>>

\* observe of the own Host: the member recheck before the provider is asked.
CheckBefore(r) ==
  /\ At(r, "checking")
  /\ Recheck(r, "observing", "final", "provider_observation_invalid")
  /\ result' = [result EXCEPT ![r] = IF stage'[r] = "final" THEN "transport_failure" ELSE @]
  /\ UNCHANGED <<round, aborted, sink, hasHandles, token>>

\* observeRead throws, or returns a context captureHostContext does not take: only
\* the first is latched.
HostFails(r) ==
  /\ At(r, "observing") /\ NoObservation
  /\ \/ Latch(r, "provider_failed")
     \/ UNCHANGED failure
  /\ Goes(r, "final")
  /\ result' = [result EXCEPT ![r] = "transport_failure"]
  /\ UNCHANGED <<round, aborted, revoked, sink, hasHandles, token>>

\* The recheck after the answer, then the Host's identity and the gate.
HostAnswers(r) ==
  /\ At(r, "observing")
  /\ \/ /\ Recheck(r, IF round[r] = 1 THEN "checking" ELSE "deliver", "final",
                   "provider_observation_invalid")
        /\ result' = [result EXCEPT ![r] = IF stage'[r] = "final" THEN "transport_failure" ELSE @]
     \/ /\ ~aborted[r] /\ Observation(r, "allowed") /\ Goes(r, "final")
        /\ \/ Latch(r, "provider_invalid") /\ result' = [result EXCEPT ![r] = "transport_failure"]
           \/ result' = [result EXCEPT ![r] = "refused"] /\ UNCHANGED failure
        /\ UNCHANGED revoked
  /\ round' = [round EXCEPT ![r] = 2]
  /\ UNCHANGED <<aborted, sink, hasHandles, token>>

\* deliver, up to the sink.
DeliverPackage(r) ==
  /\ At(r, "deliver")
  /\ \/ Recheck(r, "sink", "final", "none")
     \/ /\ ~aborted[r] /\ Observation(r, "allowed")
        /\ Latch(r, "delivery_unconfirmed") /\ Goes(r, "final") /\ UNCHANGED revoked
  /\ result' = [result EXCEPT ![r] = IF stage'[r] = "final" THEN "transport_failure" ELSE @]
  /\ UNCHANGED <<round, aborted, sink, hasHandles, token>>

\* One synchronous attempt; only true confirms, and is followed by a recheck.
SinkAnswers(r) ==
  /\ At(r, "sink")
  /\ \/ /\ sink' = [sink EXCEPT ![r] = "invoked"] /\ NoObservation
        /\ Latch(r, "delivery_unconfirmed") /\ Goes(r, "final") /\ UNCHANGED revoked
     \/ /\ sink' = [sink EXCEPT ![r] = "confirmed"]
        /\ Recheck(r, "confirming", "final", "none")
  /\ result' = [result EXCEPT ![r] = IF stage'[r] = "final" THEN "transport_failure" ELSE @]
  /\ UNCHANGED <<round, aborted, hasHandles, token>>

\* The fresh context after the sink, and the recheck that confirms the delivery.
HostConfirms(r) ==
  /\ At(r, "confirming")
  /\ \/ /\ \E code \in {"provider_failed", "provider_invalid", "provider_observation_invalid"} :
             Latch(r, code)
        /\ NoObservation /\ Goes(r, "final") /\ UNCHANGED revoked
     \/ Recheck(r, "confirmed", "final", "none")
  /\ result' = [result EXCEPT ![r] = IF stage'[r] = "final" THEN "transport_failure" ELSE @]
  /\ UNCHANGED <<round, aborted, sink, hasHandles, token>>

\* deliverResult returns the prepared object itself.
Register(r) ==
  /\ At(r, "confirmed") /\ NoObservation
  /\ hasHandles' = [hasHandles EXCEPT ![r] = TRUE]
  /\ result' = [result EXCEPT ![r] = "ready"]
  /\ Goes(r, "final")
  /\ UNCHANGED <<round, aborted, failure, revoked, sink, token>>

Successful(r) ==
  /\ result[r] = "ready" /\ sink[r] = "confirmed"
  /\ failure[r] = "none" /\ ~revoked[r]

\* The final synchronous section: its recheck latches a revocation, no other failure.
FinishPackageRead(r) ==
  /\ At(r, "final") /\ Goes(r, "done")
  /\ \/ /\ aborted[r] /\ NoObservation
        /\ Latch(r, "cancelled") /\ UNCHANGED <<revoked, token>>
     \/ /\ ~aborted[r] /\ UNCHANGED failure
        /\ \/ /\ Observation(r, "allowed")
              /\ token' = [token EXCEPT ![r] = Successful(r)] /\ UNCHANGED revoked
           \/ /\ Observation(r, "revoked")
              /\ revoked' = [revoked EXCEPT ![r] = TRUE] /\ UNCHANGED token
           \/ /\ \E code \in {"provider_failed", "provider_observation_invalid"} :
                   Observation(r, code)
              /\ UNCHANGED <<revoked, token>>
  /\ UNCHANGED <<round, aborted, sink, hasHandles, result>>

Abort(r) ==
  /\ stage[r] \notin {"idle", "done"} /\ ~aborted[r]
  /\ aborted' = [aborted EXCEPT ![r] = TRUE]
  /\ NoObservation
  /\ UNCHANGED <<stage, round, failure, revoked, sink, hasHandles, result, token>>

PackageStep(r) ==
  \/ Admitted(r) \/ CheckBefore(r) \/ HostFails(r) \/ HostAnswers(r) \/ DeliverPackage(r)
  \/ SinkAnswers(r) \/ HostConfirms(r) \/ Register(r) \/ FinishPackageRead(r)

PackageNext == \E r \in SetReads : StartPackageRead(r) \/ PackageStep(r) \/ Abort(r)

PackageSpec == PackageInit /\ [][PackageNext]_packageVars

\* The Host's observeRead and the admissions settle; nobody has to start a Read.
FairPackageSpec == PackageSpec /\ \A r \in SetReads : WF_packageVars(PackageStep(r))

-----------------------------------------------------------------------------

\* A token is minted only for a Read none of whose observations, from the admission to
\* the final section and on both sides of the sink, was a revocation or a failure.
TokenMeansClean == \A r \in SetReads : token[r] => clean[r] /\ sink[r] = "confirmed"

\* Handles are registered only once the sink confirmed and everything after it held; a
\* Read that ends with them and without a token learnt its cause in the final section.
RegistrationFollowsConfirmation ==
  \A r \in SetReads :
    /\ hasHandles[r] => sink[r] = "confirmed" /\ result[r] = "ready"
    /\ hasHandles[r] /\ stage[r] = "final" => clean[r] /\ failure[r] = "none" /\ ~revoked[r]

\* What holds between any two steps of the Reads under one provider.
PackageInvariant == PackageTypeOK /\ TokenMeansClean /\ RegistrationFollowsConfirmation

\* A revocation any recheck met is the reported decision, and the first failure the Read
\* latched, which may be the one observe throws for a revocation, is the reported one,
\* whatever fails after them.
FirstCauseStays ==
  [][\A r \in SetReads :
       /\ revoked[r] => revoked'[r]
       /\ failure[r] # "none" => failure'[r] = failure[r]]_packageVars

\* Once any Read took a row, no Read takes an older one: not after the observation of
\* that row was rejected for a later row either.
MemberTimeNeverGoesBack == [][clock' # clock => clock' >= newest]_packageVars

\* What a Read has met stays: its decision, its cause, and the time of its members.
WhatWasMetStays == FirstCauseStays /\ MemberTimeNeverGoesBack

\* package-set-host.js:133: the own Host latches its failures "so the caller is never
\* told about a nameless failure".
OwnHostFailuresAreNamed ==
  \A r \in SetReads :
    stage[r] = "done" /\ result[r] = "transport_failure" => failure[r] # "none" \/ revoked[r]

\* No answer or refusal leaves a Read suspended.
EveryReadReturns == \A r \in SetReads : stage[r] # "idle" ~> stage[r] = "done"
=============================================================================
