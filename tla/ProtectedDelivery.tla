------------------------- MODULE ProtectedDelivery -------------------------
(***************************************************************************)
(* Protected Read and its one-use external commit, on one protected        *)
(* operation: readProtectedNode (kdna-read/src/protection-node.js),        *)
(* prepareDelivery, closeOwner and commitProtectedTransport                *)
(* (protected-delivery.js), with the Host denial history they share        *)
(* (host-gate.js).  The operation's binding is the checkpoint authority of *)
(* CheckpointAuthority, which ProtectionOperation implements: a successful *)
(* observe is one new generation at a clock sample.                        *)
(*                                                                         *)
(* The Reads run concurrently on one event loop.  Each await is a boundary *)
(* between actions.  From the attempt record to the end of a commit the    *)
(* code is synchronous: `running` names that commit, and only what a host  *)
(* callback can do reentrantly (dispose, call commit) happens meanwhile.   *)
(***************************************************************************)
EXTENDS Naturals

CONSTANTS
  Reads,     \* calls of readProtectedNode on the operation
  Commits,   \* calls of commitProtectedTransport
  Times,     \* samples of the trusted clock
  NoTime, NoRead, NoCommit

ASSUME ConstantsAssumption ==
  /\ Times \subseteq Nat
  /\ NoTime \notin Nat
  /\ NoRead \notin Reads
  /\ NoCommit \notin Commits

VARIABLES
  disposed, generation, lastTime,  \* the operation, as its binding shows it
  tombstone,  \* the Host's denial of this asset stands in hostState.revocations
  pc,         \* where each Read is suspended
  allowed,    \* did the Read's last Host observation pass the gate?
  token,      \* the state behind the Read's prepared delivery
  returned,   \* how each Read returned
  cpc,        \* where each commit call is suspended
  target,     \* the Read whose token the commit call was given
  authority,  \* generation of the commit's checkpoint
  scoped,     \* did the commit's scope observation pass the gate?
  committed,  \* how each commit call returned
  running,    \* the commit whose synchronous part runs
  sent,       \* history: calls of the commit sink with the Read's body
  blocked     \* history: denial standing since the commit was called

binding == <<disposed, generation, lastTime>>
owner == <<pc, allowed, returned>>
caller == <<cpc, target, authority, scoped, committed>>
vars == <<binding, tombstone, owner, token, caller, running, sent, blocked>>

NotInvoked == [state |-> "not_invoked", attempted |-> NoTime, confirmed |-> NoTime]
NoToken == [active |-> FALSE, lifecycle |-> "none", pending |-> FALSE, failed |-> FALSE,
            at |-> NoTime, expires |-> NoTime, commit |-> NotInvoked]

\* A check by the binding, and the phase that follows when it passes.
After == [projection |-> "admission", admission |-> "gate1", checking1 |-> "gate2",
          checking2 |-> "handoff", handoff |-> "callback", returning |-> "done"]
Checks == DOMAIN After

TypeOK ==
  /\ disposed \in BOOLEAN /\ generation \in Nat /\ lastTime \in Nat
  /\ tombstone \in BOOLEAN
  /\ pc \in [Reads -> Checks \cup {"gate1", "gate2", "callback", "done"}]
  /\ allowed \in [Reads -> BOOLEAN]
  /\ token \in [Reads ->
       [active: BOOLEAN, lifecycle: {"none", "available", "reserved", "closed"},
        pending: BOOLEAN, failed: BOOLEAN, at: Nat \cup {NoTime}, expires: Nat \cup {NoTime},
        commit: [state: {"not_invoked", "outcome_unknown", "confirmed"},
                 attempted: Nat \cup {NoTime}, confirmed: Nat \cup {NoTime}]]]
  /\ returned \in [Reads -> {"none", "ready", "rejected", "delivery_failed", "protection_failed"}]
  /\ cpc \in [Commits -> {"idle", "observing", "gating", "attempting", "sinking",
                          "acknowledged", "done"}]
  /\ target \in [Commits -> Reads \cup {NoRead}]
  /\ authority \in [Commits -> Nat]
  /\ scoped \in [Commits -> BOOLEAN]
  /\ committed \in [Commits -> {"none", "refused", "failed", "committed"}]
  /\ running \in Commits \cup {NoCommit}
  /\ sent \in [Reads -> Nat]
  /\ blocked \in [Commits -> BOOLEAN]

Init ==
  /\ disposed = FALSE /\ generation = 0 /\ lastTime = 0
  /\ tombstone = FALSE
  /\ pc = [r \in Reads |-> "projection"]
  /\ allowed = [r \in Reads |-> FALSE]
  /\ token = [r \in Reads |-> NoToken]
  /\ returned = [r \in Reads |-> "none"]
  /\ cpc = [c \in Commits |-> "idle"]
  /\ target = [c \in Commits |-> NoRead]
  /\ authority = [c \in Commits |-> 0]
  /\ scoped = [c \in Commits |-> FALSE]
  /\ committed = [c \in Commits |-> "none"]
  /\ running = NoCommit
  /\ sent = [r \in Reads |-> 0]
  /\ blocked = [c \in Commits |-> FALSE]

-----------------------------------------------------------------------------
(* The binding and the Host gate.                                           *)

\* observe settles with a checkpoint, sampled at t.
Observed(t) ==
  /\ ~disposed /\ t >= lastTime
  /\ generation' = generation + 1
  /\ lastTime' = t
  /\ UNCHANGED disposed

\* An observation that fails, with or without having sampled the clock.
Unobserved ==
  \/ UNCHANGED binding
  \/ /\ ~disposed
     /\ \E t \in Times : t >= lastTime /\ lastTime' = t
     /\ UNCHANGED <<disposed, generation>>

\* Fault: an answer is judged without the history other answers left.
GateAnswerAlone(ok) ==
  \/ /\ ~ok
     /\ UNCHANGED <<tombstone, blocked>>
  \/ \E lift, deny \in BOOLEAN :
       /\ tombstone' = (deny \/ (tombstone /\ ~lift))
       /\ ok = ~deny
       /\ blocked' = [c \in Commits |-> blocked[c] /\ ~lift]

\* host-gate.js observe: the answer moves the denial history, then is judged by it.
\* Every other refusal (binding, window, epoch, expiry) leaves the history alone.
GateAnswer(ok) ==
  \/ /\ ~ok
     /\ UNCHANGED <<tombstone, blocked>>
  \/ \E lift, deny \in BOOLEAN :
       /\ tombstone' = (deny \/ (tombstone /\ ~lift))
       /\ ok = ~tombstone'
       /\ blocked' = [c \in Commits |-> blocked[c] /\ ~lift]

CloseOwner(s) ==
  [s EXCEPT !.active = FALSE,
            !.failed = @ \/ s.lifecycle = "reserved",
            !.lifecycle = IF @ = "none" THEN @ ELSE "closed"]

\* The Read returns; its `finally` closes whatever authority its token still has
\* (closing twice changes nothing).
Return(r, result) ==
  /\ pc' = [pc EXCEPT ![r] = "done"]
  /\ returned' = [returned EXCEPT ![r] = result]
  /\ token' = [token EXCEPT ![r] = CloseOwner(@)]

-----------------------------------------------------------------------------
(* readProtectedNode                                                        *)

\* context.check: observe then assertCurrent, adjacent in one turn of the loop.
\* The check before "callback" prepares the delivery and enters the Host callback;
\* the check after it ends the Read and registers its handles.
CheckPasses(r) ==
  /\ pc[r] \in Checks
  /\ running = NoCommit
  /\ \E t \in Times : Observed(t)
  /\ \/ /\ pc[r] \in {"projection", "admission", "checking1", "checking2"}
        /\ pc[r] \in {"checking1", "checking2"} => allowed[r]
        /\ pc' = [pc EXCEPT ![r] = After[pc[r]]]
        /\ UNCHANGED <<token, returned>>
     \/ /\ pc[r] = "handoff"
        /\ pc' = [pc EXCEPT ![r] = "callback"]
        /\ \E e \in Times \cup {NoTime} :   \* NoTime: the body carries no handle
             token' = [token EXCEPT ![r] =
               [NoToken EXCEPT !.active = TRUE, !.lifecycle = "available",
                               !.at = lastTime', !.expires = e]]
        /\ UNCHANGED returned
     \/ /\ pc[r] = "returning"
        /\ Return(r, "ready")
  /\ UNCHANGED <<tombstone, allowed, caller, running, sent, blocked>>

CheckFails(r) ==
  /\ pc[r] \in Checks
  /\ running = NoCommit
  /\ Return(r, "protection_failed")
  /\ Unobserved \/ \E t \in Times : Observed(t)   \* the latter when assertCurrent fails
  /\ UNCHANGED <<tombstone, allowed, caller, running, sent, blocked>>

\* A passing check after which the Read ends without a body: Core, selection, Host,
\* scope, projection or budget refusal.
Reject(r) ==
  /\ pc[r] \in {"admission", "checking1", "checking2"}
  /\ running = NoCommit
  /\ \E t \in Times : Observed(t)
  /\ Return(r, "rejected")
  /\ UNCHANGED <<tombstone, allowed, caller, running, sent, blocked>>

\* The Host's observe callback settles and host-gate judges the answer; a throw
\* ends the Read.
HostObserves(r) ==
  /\ pc[r] \in {"gate1", "gate2"}
  /\ running = NoCommit
  /\ \/ \E ok \in BOOLEAN :
          /\ GateAnswer(ok)
          /\ allowed' = [allowed EXCEPT ![r] = ok]
          /\ pc' = [pc EXCEPT ![r] = IF @ = "gate1" THEN "checking1" ELSE "checking2"]
          /\ UNCHANGED <<token, returned>>
     \/ /\ Return(r, "rejected")
        /\ UNCHANGED <<tombstone, blocked, allowed>>
  /\ UNCHANGED <<binding, caller, running, sent>>

\* The Host callback settles.  A commit still pending, or one that failed, outweighs
\* the acknowledgement.
CallbackReturns(r) ==
  /\ pc[r] = "callback"
  /\ running = NoCommit
  /\ \E acknowledged \in BOOLEAN :
       IF acknowledged /\ ~token[r].pending /\ ~token[r].failed
       THEN /\ pc' = [pc EXCEPT ![r] = "returning"]
            /\ token' = [token EXCEPT ![r] = CloseOwner(@)]
            /\ UNCHANGED returned
       ELSE Return(r, "delivery_failed")
  /\ UNCHANGED <<binding, tombstone, allowed, caller, running, sent, blocked>>

-----------------------------------------------------------------------------
(* commitProtectedTransport                                                 *)

\* Fault: the failure of a commit is not kept for the owning Read.
FailForgotten(c) ==
  /\ token' = [token EXCEPT ![target[c]].lifecycle = "closed", ![target[c]].pending = FALSE]
  /\ cpc' = [cpc EXCEPT ![c] = "done"]
  /\ committed' = [committed EXCEPT ![c] = "failed"]
  /\ UNCHANGED target

\* failed(): the token is spent, and `finally` clears pending.
Fail(c) ==
  /\ token' = [token EXCEPT ![target[c]].failed = TRUE,
                            ![target[c]].lifecycle = "closed",
                            ![target[c]].pending = FALSE]
  /\ cpc' = [cpc EXCEPT ![c] = "done"]
  /\ committed' = [committed EXCEPT ![c] = "failed"]
  /\ UNCHANGED target

ReserveValid(c) ==
  token[target[c]].active /\ token[target[c]].lifecycle = "reserved"

\* Fault: any token of a Read still in its callback may be reserved.
AvailableAgain(r) == token[r].active

\* Reservation precedes every look at the transport and every callback.
Available(r) == token[r].active /\ token[r].lifecycle = "available"

CallCommit(c, r) ==
  /\ cpc[c] = "idle"
  /\ token[r].lifecycle # "none"
  /\ target' = [target EXCEPT ![c] = r]
  /\ blocked' = [blocked EXCEPT ![c] = tombstone]
  /\ \/ /\ ~Available(r)
        /\ cpc' = [cpc EXCEPT ![c] = "done"]
        /\ committed' = [committed EXCEPT ![c] = "refused"]
        /\ UNCHANGED token
     \/ /\ Available(r)
        /\ token' = [token EXCEPT ![r].lifecycle = "reserved", ![r].pending = TRUE]
        /\ cpc' = [cpc EXCEPT ![c] = "observing"]
        /\ UNCHANGED committed
     \/ /\ Available(r)   \* malformed transport
        /\ token' = [token EXCEPT ![r].lifecycle = "closed", ![r].failed = TRUE]
        /\ cpc' = [cpc EXCEPT ![c] = "done"]
        /\ committed' = [committed EXCEPT ![c] = "failed"]
  /\ UNCHANGED <<binding, tombstone, owner, authority, scoped, running, sent>>

\* binding.observe('transport_commit') settles and the commit resumes.
CommitObserved(c) ==
  /\ cpc[c] = "observing"
  /\ running = NoCommit
  /\ \/ /\ Unobserved
        /\ Fail(c)
        /\ UNCHANGED authority
     \/ /\ \E t \in Times : Observed(t)
        /\ authority' = [authority EXCEPT ![c] = generation']
        /\ \/ ~ReserveValid(c) /\ Fail(c)
           \/ /\ ReserveValid(c)
              /\ cpc' = [cpc EXCEPT ![c] = "gating"]
              /\ UNCHANGED <<token, target, committed>>
  /\ UNCHANGED <<tombstone, owner, scoped, running, sent, blocked>>

\* The transport's observeScope settles; the gate judges it on the owning Host's
\* denial history, whatever has become of the reservation.
ScopeObserved(c) ==
  /\ cpc[c] = "gating"
  /\ running = NoCommit
  /\ \/ \E ok \in BOOLEAN :
          /\ GateAnswer(ok)
          /\ scoped' = [scoped EXCEPT ![c] = ok]
          /\ cpc' = [cpc EXCEPT ![c] = "attempting"]
          /\ UNCHANGED <<token, target, committed>>
     \/ /\ Fail(c)
        /\ UNCHANGED <<tombstone, scoped, blocked>>
  /\ UNCHANGED <<binding, owner, authority, running, sent>>

\* The commit resumes with a refused scope, another Host, a filtered body, a dead
\* handle, a lost reservation, a stale checkpoint or a failing clock.
AttemptFails(c) ==
  /\ cpc[c] = "attempting"
  /\ running = NoCommit
  /\ Unobserved
  /\ Fail(c)
  /\ UNCHANGED <<tombstone, owner, authority, scoped, running, sent, blocked>>

\* The final clock sample against the operation, the handles and the disclosure.
InTime(r, t) ==
  /\ t >= lastTime /\ t >= token[r].at
  /\ token[r].expires # NoTime => t < token[r].expires

\* Every check passes: the token is consumed and the attempt recorded, then the sink
\* is entered.
Attempt(c) ==
  LET r == target[c]
  IN  /\ cpc[c] = "attempting"
      /\ running = NoCommit
      /\ ReserveValid(c) /\ scoped[c]
      /\ ~disposed /\ authority[c] = generation
      /\ \E t \in Times :
           /\ InTime(r, t)
           /\ lastTime' = t
           /\ token' = [token EXCEPT
                ![r].lifecycle = "closed",
                ![r].commit = [NotInvoked EXCEPT !.state = "outcome_unknown", !.attempted = t]]
      /\ running' = c
      /\ cpc' = [cpc EXCEPT ![c] = "sinking"]
      /\ UNCHANGED <<disposed, generation, tombstone, owner, target, authority, scoped,
                     committed, sent, blocked>>

\* The synchronous sink returns true, or throws or returns anything else.
SinkReturns(c) ==
  LET r == target[c]
  IN  /\ cpc[c] = "sinking" /\ running = c
      /\ sent' = [sent EXCEPT ![r] = @ + 1]
      /\ \/ /\ cpc' = [cpc EXCEPT ![c] = "acknowledged"]
            /\ token' = [token EXCEPT ![r].commit.state = "confirmed"]
            /\ UNCHANGED <<running, target, committed>>
         \/ /\ Fail(c)
            /\ running' = NoCommit
      /\ UNCHANGED <<binding, tombstone, owner, authority, scoped, blocked>>

\* assertCurrent after the acknowledgement: its sample is the confirmation time,
\* unless there is none.  Only a current checkpoint makes the commit a success.  (A
\* clock that disposes while it answers is this step followed by Dispose.)
Confirm(c) ==
  LET r == target[c]
  IN  /\ cpc[c] = "acknowledged" /\ running = c
      /\ \/ /\ Fail(c)                   \* no sample: disposed, stale or a failing clock
            /\ UNCHANGED binding
         \/ /\ ~disposed /\ authority[c] = generation
            /\ \E t \in Times, current \in BOOLEAN :
                 /\ t >= lastTime
                 /\ lastTime' = t
                 /\ token' = [token EXCEPT
                      ![r].commit.confirmed = t, ![r].pending = FALSE,
                      ![r].failed = @ \/ ~current]
                 /\ committed' = [committed EXCEPT ![c] =
                      IF current THEN "committed" ELSE "failed"]
            /\ cpc' = [cpc EXCEPT ![c] = "done"]
            /\ UNCHANGED <<disposed, generation, target>>
      /\ running' = NoCommit
      /\ UNCHANGED <<tombstone, owner, authority, scoped, sent, blocked>>

Dispose ==
  /\ ~disposed
  /\ disposed' = TRUE
  /\ generation' = generation + 1
  /\ UNCHANGED <<lastTime, tombstone, owner, token, caller, running, sent, blocked>>

-----------------------------------------------------------------------------

ReadStep(r) ==
  CheckPasses(r) \/ CheckFails(r) \/ Reject(r) \/ HostObserves(r) \/ CallbackReturns(r)

CommitStep(c) ==
  \/ CommitObserved(c) \/ ScopeObserved(c) \/ AttemptFails(c) \/ Attempt(c)
  \/ SinkReturns(c) \/ Confirm(c)

Next ==
  \/ \E r \in Reads : ReadStep(r)
  \/ \E c \in Commits : CommitStep(c) \/ \E r \in Reads : CallCommit(c, r)
  \/ Dispose

Spec == Init /\ [][Next]_vars

-----------------------------------------------------------------------------
(* Properties                                                               *)

\* The sink runs only inside the callback that owns the body, with the attempt
\* already on record: a commit left unawaited cannot send after the Read settled.
SendOnlyWhileOwned ==
  \A c \in Commits : cpc[c] \in {"sinking", "acknowledged"} =>
    /\ running = c
    /\ pc[target[c]] = "callback" /\ token[target[c]].active
    /\ token[target[c]].commit.state # "not_invoked"

\* A Read returns ready only if no commit that reserved its delivery is unfinished
\* or failed, in any order of the commit's and the callback's settlements.
ReadyHidesNoFailedCommit ==
  \A r \in Reads, c \in Commits :
    returned[r] = "ready" /\ target[c] = r => committed[c] \in {"refused", "committed"}

\* "When known, Host at_ms <= attempted_at_ms <= confirmed_at_ms", and the delivery is
\* attempted before its handles expire on the trusted clock.
DisclosureTimesOrdered ==
  \A r \in Reads : LET s == token[r] IN
    /\ s.commit.attempted # NoTime =>
         /\ s.at <= s.commit.attempted
         /\ s.expires # NoTime => s.commit.attempted < s.expires
    /\ s.commit.confirmed # NoTime =>
         s.commit.attempted # NoTime /\ s.commit.attempted <= s.commit.confirmed

\* What holds between any two steps of the Reads and commits of one operation.
DeliveryInvariant ==
  /\ TypeOK
  /\ SendOnlyWhileOwned
  /\ ReadyHidesNoFailedCommit
  /\ DisclosureTimesOrdered

\* Later failures, disposal or repeated calls never rewrite a recorded fact.
RecordedFactsAreKept ==
  [][\A r \in Reads :
       /\ token[r].commit.state = "confirmed" => token'[r].commit.state = "confirmed"
       /\ token[r].commit.attempted # NoTime =>
            token'[r].commit.attempted = token[r].commit.attempted
       /\ token[r].commit.confirmed # NoTime =>
            token'[r].commit.confirmed = token[r].commit.confirmed]_vars

\* A denial of the asset that stood in the Host's history when the commit was called,
\* whichever Read recorded it, and that nobody lifted since, keeps the body from the
\* sink even though the commit brings its own scope observer.
StandingDenialBlocksSend ==
  \A c \in Commits : cpc[c] = "sinking" => ~blocked[c]

\* Each prepared delivery behaves as a disclosure history.
History == INSTANCE DisclosureHistory WITH
  Deliveries <- Reads,
  history <- [r \in Reads |-> token[r].commit.state],
  sent <- [r \in Reads |-> sent[r] > 0],
  open <- [r \in Reads |-> pc[r] \notin {"returning", "done"}]

ImplementsDisclosureHistory == History!HSpec
=============================================================================
