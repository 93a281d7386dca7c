------------------------ MODULE ProtectionOperation ------------------------
(***************************************************************************)
(* One opaque protection operation of kdna-core                            *)
(* (public-contract/protection-operation.js, protection-grant.js): the     *)
(* record behind issueOperation, bindProtectionOperation (observe and      *)
(* assertCurrent) and disposeProtectionOperation.                          *)
(*                                                                         *)
(* Every await of the source is a boundary between two actions, so other   *)
(* callers, assertCurrent and dispose run between any two of them.  The    *)
(* trusted provider (clock, refresh, readAdvance) is host code: it may     *)
(* answer anything the operation does not reject by shape, may throw, and  *)
(* its clock may dispose the operation while the operation is calling it.  *)
(***************************************************************************)
EXTENDS Naturals, Sequences

CONSTANTS
  Observers,     \* concurrent callers of the binding
  Issuer,        \* the admission that issues the operation
  Kind,          \* credential.kind: "external" is an external grant, "local" the rest
  Mode,          \* "online" or "offline"
  CanRefresh,    \* provider.capabilities.status_refresh and a refresh callback
  Grants,        \* grants that verify for this asset, device and issuer
  Advances,      \* high-water views readAdvance may return
  Times,         \* clock samples
  NoGrant, NoView, NoObserver,
  MaxGeneration  \* bound: no observe is called that could pass this generation

Statuses == {"active", "revoked", "expired"}
GrantRecord == [version: Nat, status: Statuses,
                issued: Nat, refresh: Nat, grace: Nat, expires: Nat]
ViewRecord == [version: Nat, status: Statuses, time: Nat, revision: Nat]

ASSUME ConstantsAssumption ==
  /\ Issuer \notin Observers
  /\ NoObserver \notin Observers
  /\ Kind \in {"external", "local"}
  /\ Mode \in {"online", "offline"}
  /\ CanRefresh \in BOOLEAN
  /\ Grants \subseteq GrantRecord
  /\ Advances \subseteq ViewRecord
  /\ Times \subseteq Nat
  /\ NoGrant \notin Grants
  /\ NoView \notin ViewRecord
  /\ MaxGeneration \in Nat

Callers == Observers \cup {Issuer}

VARIABLES
  issued,      \* "issuing", "issued" or "refused": is the operation reachable?
  disposed, generation, lastTime,
  verified,    \* record.verified, NoGrant for a local credential and once disposed
  highWater,   \* record.highWater
  queue,       \* record.queue: callers whose observe has not settled, oldest first
  pc,          \* where each caller's observe is suspended
  captured,    \* generation captured by the running `current`
  seen,        \* the clock sample handed to readAdvance
  checkpoint,  \* generation of the newest checkpoint each observer holds, 0 for none
  outcome,     \* how the observe that settled last ended
  ruling,      \* the last answer of assertCurrent
  ended        \* history: versions of revoked or expired views that became the high water

core == <<issued, disposed, generation, lastTime, verified, highWater>>
calls == <<queue, pc, captured, seen, checkpoint, outcome>>
vars == <<core, calls, ruling, ended>>

InFlight == {"refreshing", "advancing", "resuming", "publishing"}

RefreshCodes == {"PROVIDER_FAILED", "GRANT_INVALID", "GRANT_BINDING_MISMATCH",
                 "AUTHENTICATION_FAILED", "STATE_ROLLBACK"}
Codes == RefreshCodes \cup
         {"OPERATION_DISPOSED", "REFRESH_REQUIRED",
          "AUTHORIZATION_REVOKED", "AUTHORIZATION_EXPIRED"}
Refusal == [by |-> NoObserver, generation |-> 0]

TypeOK ==
  /\ issued \in {"issuing", "issued", "refused"}
  /\ disposed \in BOOLEAN
  /\ generation \in Nat
  /\ lastTime \in Nat
  /\ verified \in Grants \cup {NoGrant}
  /\ highWater \in ViewRecord \cup {NoView}
  /\ queue \in Seq(Callers)
  /\ pc \in [Callers -> InFlight \cup {"idle", "queued"}]
  /\ captured \in [Callers -> Nat]
  /\ seen \in [Callers -> Nat]
  /\ checkpoint \in [Observers -> Nat]
  /\ outcome \in Codes \cup {"none", "current"}
  /\ ruling \in [by: Observers \cup {NoObserver}, generation: Nat]
  /\ ended \in SUBSET Nat

Init ==
  /\ issued = "issuing" /\ disposed = FALSE /\ generation = 0 /\ lastTime = 0
  /\ verified \in (IF Kind = "external" THEN Grants ELSE {NoGrant})
  /\ highWater = NoView
  /\ queue = <<Issuer>>
  /\ pc = [c \in Callers |-> IF c = Issuer THEN "queued" ELSE "idle"]
  /\ captured = [c \in Callers |-> 0]
  /\ seen = [c \in Callers |-> 0]
  /\ checkpoint = [o \in Observers |-> 0]
  /\ outcome = "none"
  /\ ruling = Refusal
  /\ ended = {}

-----------------------------------------------------------------------------
(* The trusted clock.  A callback may dispose the operation it serves, but  *)
(* only once the operation has been issued to somebody.                     *)

ClockAnswers ==
  [fault: {"none"}, time: Times, disposes: BOOLEAN] \cup
  [fault: {"throw", "invalid"}, time: {0}, disposes: BOOLEAN]

Possible(a) == a.disposes => issued = "issued" /\ ~disposed

\* Error precedence of clock(): disposal found before the call, the callback's
\* own fault, its sample, and disposal found after the call.
ClockCode(a) ==
  IF disposed THEN "OPERATION_DISPOSED"
  ELSE IF (a.fault = "throw" /\ ~a.disposes) \/ a.fault = "invalid" THEN "PROVIDER_FAILED"
  ELSE IF a.fault = "none" /\ a.time < lastTime THEN "STATE_ROLLBACK"
  ELSE IF a.disposes THEN "OPERATION_DISPOSED"
  ELSE "ok"

\* What a clock call changes; grant is what record.verified held when it was made.
Clock(a, grant) ==
  /\ Possible(a)
  /\ disposed' = (disposed \/ a.disposes)
  /\ generation' = IF a.disposes THEN generation + 1 ELSE generation
  /\ verified' = IF a.disposes THEN NoGrant ELSE grant
  /\ lastTime' = IF ClockCode(a) = "ok" THEN a.time ELSE lastTime

\* Fault: only the expiry is looked at, not the mode's own limit.
ValidityCodeModeless(g, now) ==
  IF g.status = "revoked" THEN "AUTHORIZATION_REVOKED"
  ELSE IF g.status = "expired" \/ now >= g.expires \/ now < g.issued
  THEN "AUTHORIZATION_EXPIRED"
  ELSE "ok"

ValidityCode(g, now) ==
  IF g.status = "revoked" THEN "AUTHORIZATION_REVOKED"
  ELSE IF g.status = "expired" \/ now >= g.expires \/ now < g.issued
  THEN "AUTHORIZATION_EXPIRED"
  ELSE IF Mode = "offline" /\ now > g.grace THEN "AUTHORIZATION_EXPIRED"
  ELSE IF Mode = "online" /\ now >= g.refresh THEN "REFRESH_REQUIRED"
  ELSE "ok"

NeedsRefresh(g, now) ==
  Mode = "online" /\ now >= g.refresh /\ g.status = "active" /\ now < g.expires

-----------------------------------------------------------------------------
(* Ends of a step: the observe settles and the queue moves on, or it        *)
(* suspends at the next await.                                              *)

\* Fault: the promise chain does not survive an observe that failed.
SettleBreakingQueue(c, code) ==
  /\ pc' = [pc EXCEPT ![c] = "idle"]
  /\ captured' = [captured EXCEPT ![c] = 0]
  /\ seen' = [seen EXCEPT ![c] = 0]
  /\ outcome' = code
  /\ queue' = IF code = "current" THEN Tail(queue) ELSE queue
  /\ issued' = IF c # Issuer THEN issued
               ELSE IF code = "current" THEN "issued" ELSE "refused"

\* The invocation's locals end with it.
Settle(c, code) ==
  /\ pc' = [pc EXCEPT ![c] = "idle"]
  /\ captured' = [captured EXCEPT ![c] = 0]
  /\ seen' = [seen EXCEPT ![c] = 0]
  /\ outcome' = code
  /\ queue' = Tail(queue)
  /\ issued' = IF c # Issuer THEN issued
               ELSE IF code = "current" THEN "issued" ELSE "refused"

\* Fault: the next caller starts as soon as this one awaits.
SuspendReleasingQueue(c, where) ==
  /\ pc' = [pc EXCEPT ![c] = where]
  /\ queue' = Tail(queue)
  /\ UNCHANGED <<outcome, issued>>

Suspend(c, where) ==
  /\ pc' = [pc EXCEPT ![c] = where]
  /\ UNCHANGED <<outcome, queue, issued>>

\* Fault: disposal during an await is reported as a rollback.
InterruptCodeRollback == "STATE_ROLLBACK"

\* check() after an await: disposal first, then a generation that moved.
Interrupted(c) == disposed \/ captured[c] # generation
InterruptCode == IF disposed THEN "OPERATION_DISPOSED" ELSE "STATE_ROLLBACK"

Interrupt(c) ==
  /\ pc[c] \in {"refreshing", "advancing", "resuming"}
  /\ Interrupted(c)
  /\ Settle(c, InterruptCode)
  /\ UNCHANGED <<disposed, generation, lastTime, verified, highWater,
                 checkpoint, ruling, ended>>

-----------------------------------------------------------------------------
(* observe                                                                  *)

CallObserve(o) ==
  /\ issued = "issued"
  /\ pc[o] = "idle"
  /\ generation + Len(queue) < MaxGeneration
  /\ pc' = [pc EXCEPT ![o] = "queued"]
  /\ queue' = Append(queue, o)
  /\ UNCHANGED <<core, captured, seen, checkpoint, outcome, ruling, ended>>

\* The queued task of the oldest caller starts `current`: the first clock call
\* and, for an external grant, the call of refresh or readAdvance.
Begin(c) ==
  /\ pc[c] = "queued"
  /\ queue # <<>> /\ Head(queue) = c
  /\ \E a \in ClockAnswers :
       /\ Clock(a, verified)
       /\ \/ /\ ClockCode(a) # "ok"
             /\ Settle(c, ClockCode(a))
          \/ /\ ClockCode(a) = "ok" /\ Kind = "external"
             /\ NeedsRefresh(verified, a.time) /\ ~CanRefresh
             /\ Settle(c, "REFRESH_REQUIRED")
          \/ /\ ClockCode(a) = "ok" /\ Kind = "external"
             /\ NeedsRefresh(verified, a.time) /\ CanRefresh
             /\ Suspend(c, "refreshing")
             /\ captured' = [captured EXCEPT ![c] = generation]
             /\ UNCHANGED seen
          \/ /\ ClockCode(a) = "ok" /\ Kind = "external"
             /\ ~NeedsRefresh(verified, a.time)
             /\ Suspend(c, "advancing")
             /\ captured' = [captured EXCEPT ![c] = generation]
             /\ seen' = [seen EXCEPT ![c] = a.time]
          \/ /\ ClockCode(a) = "ok" /\ Kind = "local"
             /\ Suspend(c, "publishing")
             /\ captured' = [captured EXCEPT ![c] = generation]
             /\ UNCHANGED seen
  /\ UNCHANGED <<highWater, checkpoint, ruling, ended>>

\* refresh throws, or answers with bytes that do not verify, do not decrypt the
\* admitted payload or carry an older status version.
RefreshFails(c) ==
  /\ pc[c] = "refreshing"
  /\ ~Interrupted(c)
  /\ \E code \in RefreshCodes : Settle(c, code)
  /\ UNCHANGED <<disposed, generation, lastTime, verified, highWater,
                 checkpoint, ruling, ended>>

RefreshAnswers(c) ==
  /\ pc[c] = "refreshing"
  /\ ~Interrupted(c)
  /\ \E g \in Grants, a \in ClockAnswers :
       /\ g.version >= verified.version
       /\ Clock(a, g)
       /\ \/ /\ ClockCode(a) # "ok"
             /\ Settle(c, ClockCode(a))
          \/ /\ ClockCode(a) = "ok"
             /\ Suspend(c, "advancing")
             /\ seen' = [seen EXCEPT ![c] = a.time]
             /\ UNCHANGED captured
  /\ UNCHANGED <<highWater, checkpoint, ruling, ended>>

AdvanceFails(c) ==
  /\ pc[c] = "advancing"
  /\ ~Interrupted(c)
  /\ Settle(c, "PROVIDER_FAILED")
  /\ UNCHANGED <<disposed, generation, lastTime, verified, highWater,
                 checkpoint, ruling, ended>>

\* Fault: a status may change without a new version.
RegressesReinstated(s, c) ==
  \/ s.version < verified.version
  \/ s.time # seen[c]
  \/ /\ highWater # NoView
     /\ \/ s.version < highWater.version
        \/ s.revision < highWater.revision
        \/ s.time < highWater.time

\* A view the operation refuses as a rollback of the persisted high water.
Regresses(s, c) ==
  \/ s.version < verified.version
  \/ s.time # seen[c]
  \/ /\ highWater # NoView
     /\ \/ s.version < highWater.version
        \/ s.revision < highWater.revision
        \/ s.time < highWater.time
        \/ s.version = highWater.version /\ s.status # highWater.status

AdvanceCode(s) ==
  IF s.status = "revoked" THEN "AUTHORIZATION_REVOKED"
  ELSE IF s.status = "expired" THEN "AUTHORIZATION_EXPIRED"
  ELSE IF s.version > verified.version THEN "REFRESH_REQUIRED"
  ELSE IF s.status # verified.status THEN "STATE_ROLLBACK"
  ELSE "ok"

AdvanceAnswers(c) ==
  /\ pc[c] = "advancing"
  /\ ~Interrupted(c)
  /\ \E s \in Advances :
       \/ /\ Regresses(s, c)
          /\ Settle(c, "STATE_ROLLBACK")
          /\ UNCHANGED <<highWater, ended>>
       \/ /\ ~Regresses(s, c)
          /\ highWater' = s
          /\ ended' = IF s.status = "active" THEN ended ELSE ended \cup {s.version}
          /\ \/ AdvanceCode(s) # "ok" /\ Settle(c, AdvanceCode(s))
             \/ /\ AdvanceCode(s) = "ok"
                /\ Suspend(c, "resuming")
                /\ UNCHANGED <<captured, seen>>
  /\ UNCHANGED <<disposed, generation, lastTime, verified, checkpoint, ruling>>

\* `current` resumes after readAdvance: a fresh clock sample decides validity.
Resume(c) ==
  /\ pc[c] = "resuming"
  /\ ~Interrupted(c)
  /\ \E a \in ClockAnswers :
       /\ Clock(a, verified)
       /\ LET code == IF ClockCode(a) = "ok" THEN ValidityCode(verified, a.time)
                                             ELSE ClockCode(a)
          IN  \/ code # "ok" /\ Settle(c, code)
              \/ code = "ok" /\ Suspend(c, "publishing") /\ UNCHANGED <<captured, seen>>
  /\ UNCHANGED <<highWater, checkpoint, ruling, ended>>

\* The task behind observe resumes: a new generation and its checkpoint.
Publish(o) ==
  /\ pc[o] = "publishing"
  /\ ~disposed
  /\ generation' = generation + 1
  /\ checkpoint' = [checkpoint EXCEPT ![o] = generation + 1]
  /\ Settle(o, "current")
  /\ UNCHANGED <<disposed, lastTime, verified, highWater, ruling, ended>>

PublishDisposed(o) ==
  /\ pc[o] = "publishing"
  /\ disposed
  /\ Settle(o, "OPERATION_DISPOSED")
  /\ UNCHANGED <<disposed, generation, lastTime, verified, highWater,
                 checkpoint, ruling, ended>>

\* The admission's own `current` returns and the operation becomes reachable.
Issue ==
  /\ pc[Issuer] = "publishing"
  /\ Settle(Issuer, "current")
  /\ UNCHANGED <<disposed, generation, lastTime, verified, highWater,
                 checkpoint, ruling, ended>>

-----------------------------------------------------------------------------
(* assertCurrent is synchronous: only its clock callback can interleave.    *)

AssertCode(a) ==
  IF ClockCode(a) = "ok" /\ Kind = "external"
  THEN ValidityCode(verified, a.time)
  ELSE ClockCode(a)

\* A checkpoint of an earlier generation is refused before the clock is called.  (The
\* older checkpoints of one observer are refused alike; its newest stands for them.)
AssertStale(o) ==
  /\ checkpoint[o] # 0
  /\ disposed \/ checkpoint[o] # generation
  /\ ruling' = Refusal
  /\ UNCHANGED <<core, calls, ended>>

\* Fault: any checkpoint of the operation is ruled upon.
AssertAnyCheckpoint(o) ==
  /\ checkpoint[o] # 0
  /\ ~disposed
  /\ \E a \in ClockAnswers :
       /\ Clock(a, verified)
       /\ ruling' = IF AssertCode(a) = "ok"
                    THEN [by |-> o, generation |-> generation]
                    ELSE Refusal
  /\ UNCHANGED <<issued, highWater, calls, ended>>

AssertCurrent(o) ==
  /\ checkpoint[o] # 0
  /\ ~disposed /\ checkpoint[o] = generation
  /\ \E a \in ClockAnswers :
       /\ Clock(a, verified)
       /\ ruling' = IF AssertCode(a) = "ok"
                    THEN [by |-> o, generation |-> generation]
                    ELSE Refusal
  /\ UNCHANGED <<issued, highWater, calls, ended>>

Dispose ==
  /\ issued = "issued"
  /\ ~disposed
  /\ disposed' = TRUE
  /\ generation' = generation + 1
  /\ verified' = NoGrant
  /\ UNCHANGED <<issued, lastTime, highWater, calls, ruling, ended>>

-----------------------------------------------------------------------------

\* The host answers a pending callback, or a promise continuation runs.
Progress(c) ==
  \/ Begin(c)
  \/ Interrupt(c)
  \/ RefreshFails(c) \/ RefreshAnswers(c)
  \/ AdvanceFails(c) \/ AdvanceAnswers(c)
  \/ Resume(c)

ObserverProgress(o) == Progress(o) \/ Publish(o) \/ PublishDisposed(o)

Next ==
  \/ Progress(Issuer)
  \/ Issue
  \/ \E o \in Observers : CallObserve(o) \/ ObserverProgress(o)
                         \/ AssertStale(o) \/ AssertCurrent(o)
  \/ Dispose

Spec == Init /\ [][Next]_vars

\* The event loop runs every continuation, and every provider promise settles.
FairSpec ==
  /\ Spec
  /\ WF_vars(Progress(Issuer) \/ Issue)
  /\ \A o \in Observers : WF_vars(ObserverProgress(o))

-----------------------------------------------------------------------------
(* Properties                                                               *)

\* At most one observe runs between its first clock call and its settlement, and
\* nothing but disposal moves the generation it captured: the promise chain in
\* record.queue makes the STATE_ROLLBACK of check() unreachable by concurrency.
SerialisedObservation ==
  \A c \in Callers : pc[c] \in InFlight =>
    /\ queue # <<>> /\ Head(queue) = c
    /\ disposed \/ captured[c] = generation

\* A caller about to receive a checkpoint runs on a grant the newest high-water
\* view confirms: same status version, both active.  Nothing else may move either
\* between the readAdvance answer and the checkpoint.
PublicationAgreesWithHighWater ==
  \A c \in Callers :
    Kind = "external" /\ ~disposed /\ pc[c] \in {"resuming", "publishing"} =>
      /\ verified # NoGrant /\ highWater # NoView
      /\ verified.status = "active" /\ highWater.status = "active"
      /\ verified.version = highWater.version

\* The persisted trusted time the operation remembers is never ahead of its own
\* clock, so an honest clock and store cannot lock the operation out.
HighWaterNeverAheadOfClock ==
  highWater # NoView => highWater.time <= lastTime

\* What holds between any two steps of an operation, whoever waits for what.
OperationInvariant ==
  /\ TypeOK
  /\ SerialisedObservation
  /\ PublicationAgreesWithHighWater
  /\ HighWaterNeverAheadOfClock

\* Once the operation took a revoked or expired view as its high water, no checkpoint is
\* issued under that status version or an older one, whatever grants and views arrive later
\* (protection-grant.js:73-77).  A view that contradicts an active high water of its own
\* version is not taken: it is refused as a rollback and leaves no trace.
RevocationIsFinal ==
  [][\A o \in Observers : checkpoint'[o] # checkpoint[o] /\ Kind = "external" =>
       \A v \in ended : verified.version > v]_vars

ValidAt(g, now) ==
  /\ g.status = "active"
  /\ g.issued <= now /\ now < g.expires
  /\ Mode = "offline" => now <= g.grace
  /\ Mode = "online" => now < g.refresh

\* An observe that passes its last check, and an affirmed checkpoint, rest on a
\* grant that is valid at the newest clock sample the operation accepted, however
\* long the readAdvance before it took.
AuthorityIsCurrent ==
  [][Kind = "external" =>
       /\ \A c \in Callers :
            pc[c] # "publishing" /\ pc'[c] = "publishing" => ValidAt(verified', lastTime')
       /\ ruling'.by # NoObserver /\ ruling' # ruling => ValidAt(verified', lastTime')]_vars

\* Whatever the provider answers, an observe that settles after the operation was
\* disposed says so: no provider result is used and no other error is reported.
DisposalWins ==
  [][\A c \in Callers : disposed /\ pc[c] # "idle" /\ pc'[c] = "idle" =>
       outcome' = "OPERATION_DISPOSED"]_vars

\* Holders see a checkpoint authority: only the newest checkpoint is affirmed and
\* disposal ends it.
Authority == INSTANCE CheckpointAuthority WITH
  Holders <- Observers, NoHolder <- NoObserver,
  live <- ~disposed, epoch <- generation, held <- checkpoint,
  ruling <- [by |-> ruling.by, epoch |-> ruling.generation]

ImplementsCheckpointAuthority == Authority!ASpec

\* Every observe settles, also behind one that failed or was overtaken by disposal.
EveryObserveSettles ==
  \A o \in Observers : pc[o] = "queued" ~> pc[o] = "idle"

\* specs/protection-admission.md:386 "Known newer revoked state rejects": an
\* affirmed checkpoint would never coexist with a high water that is not active.
KnownRevocationRejects ==
  [][ruling'.by # NoObserver /\ ruling' # ruling /\ highWater # NoView =>
       highWater.status = "active"]_vars
=============================================================================
