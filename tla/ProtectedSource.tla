-------------------------- MODULE ProtectedSource --------------------------
(***************************************************************************)
(* One opening of a protected source (kdna-core/src/public-contract:       *)
(* withProtectedSourceNode, commitProtectedSourceTransport, and the        *)
(* preview and produce calls of protected-source-revision.js).  The Host   *)
(* gets a prepared token and a revision context inside its deliver         *)
(* callback, and may keep and use them afterwards.                         *)
(*                                                                         *)
(* All calls check the same operation, whose observes run one at a time    *)
(* (ProtectionOperation).  The continuation of an observe runs before the  *)
(* next one ends, so the generation assertCurrent compares is its own; but *)
(* a revision goes on one microtask after that check ("fresh"), and the    *)
(* callback may settle in between.                                         *)
(***************************************************************************)
EXTENDS Naturals, Sequences, Functions

CONSTANTS
  Opening,                  \* the opening as a caller of observe
  SourceCommits, Revisions, \* calls made with its token and with its context
  HostTimes,                \* times and expiries the Host reports
  Deadline, MaxTime         \* of the opening; bound on Date.now

ASSUME SourceAssumption ==
  /\ HostTimes \subseteq Nat /\ Deadline \in Nat /\ MaxTime \in Nat
  /\ Opening \notin SourceCommits \cup Revisions /\ SourceCommits \cap Revisions = {}

VARIABLES
  wall,      \* Date.now
  stage,     \* the await the opening is in
  report,    \* the opening's answer and the external commit it discloses
  host,      \* record.lastMs and record.originalExpiresAt
  closed,    \* record.closed; the operation is disposed with it
  delivery,  \* the token's phase, closed and external_commit.state
  context,   \* state of the revision context
  cstage, rstage,  \* where each commit and each revision is, or how it ended
  kind,      \* "preview" or "produce"
  secrets,   \* holds the output secrets: the second refresh is under way
  queue      \* observes of the operation, in the order they were called

sourceVars == <<wall, stage, report, host, closed, delivery, context, cstage, rstage, kind, secrets,
          queue>>

Observers == {Opening} \cup SourceCommits \cup Revisions
States == {"not_invoked", "outcome_unknown", "confirmed"}

SourceTypeOK ==
  /\ wall \in 0..MaxTime
  /\ stage \in {"admitting", "observing", "checking", "delivering", "returning", "done"}
  /\ report \in [status: {"none", "source_failed", "source_delivered"}, commit: States]
  /\ host \in [last: HostTimes \cup {0}, expires: HostTimes \cup {0}]
  /\ closed \in BOOLEAN
  /\ delivery \in [phase: {"open", "pending", "committed", "failed", "closed"},
                   closed: BOOLEAN, commit: States]
  /\ context \in {"none", "available", "reserved", "closed"}
  /\ cstage \in [SourceCommits -> {"idle", "scope", "queued", "sink", "committed", "failed"}]
  /\ rstage \in [Revisions -> {"idle", "observing", "queued", "fresh", "asking",
                            "valid", "produced", "rejected"}]
  /\ kind \in [Revisions -> {"preview", "produce"}]
  /\ secrets \in [Revisions -> BOOLEAN]
  /\ queue \in Seq(Observers)

SourceInit ==
  /\ wall = 0 /\ stage = "admitting" /\ closed = FALSE /\ context = "none" /\ queue = << >>
  /\ report = [status |-> "none", commit |-> "not_invoked"]
  /\ host = [last |-> 0, expires |-> 0]
  /\ delivery = [phase |-> "open", closed |-> FALSE, commit |-> "not_invoked"]
  /\ cstage = [c \in SourceCommits |-> "idle"]
  /\ rstage = [r \in Revisions |-> "idle"]
  /\ kind = [r \in Revisions |-> "preview"]
  /\ secrets = [r \in Revisions |-> FALSE]

-----------------------------------------------------------------------------

\* The transport callback runs synchronously: only a commit it calls itself gets in.
Quiet == \A c \in SourceCommits : cstage[c] # "sink"

\* Fault: disposal drops the observes still queued.
AnsweredWhileOpen(c) ==
  /\ queue # << >> /\ Head(queue) = c /\ ~closed
  /\ queue' = Tail(queue)
  /\ \A r \in Revisions : rstage[r] # "fresh"

Answered(c) ==
  /\ queue # << >> /\ Head(queue) = c
  /\ queue' = Tail(queue)
  /\ \A r \in Revisions : rstage[r] # "fresh"

Observe(c) == queue' = Append(queue, c)

CloseDelivery(d) ==
  [d EXCEPT !.closed = TRUE, !.phase = IF @ = "open" THEN "closed" ELSE @]

\* The answer and the finally block.
Finish(status) ==
  /\ stage' = "done" /\ closed' = TRUE
  /\ report' = [status |-> status, commit |-> delivery.commit]
  /\ delivery' = CloseDelivery(delivery)
  /\ context' = IF context = "available" THEN "closed" ELSE context
  /\ UNCHANGED <<wall, host, cstage, rstage, kind, secrets>>

\* Admission, the expected digest or the binding refuses, or it is too late.
Admitted ==
  /\ Quiet /\ stage = "admitting"
  /\ \/ Finish("source_failed")
     \/ /\ wall <= Deadline
        /\ stage' = "observing"
        /\ UNCHANGED <<wall, report, host, closed, delivery, context, cstage, rstage, kind, secrets>>
  /\ UNCHANGED queue

HostAuthorizes ==
  /\ Quiet /\ stage = "observing"
  /\ \/ Finish("source_failed") /\ UNCHANGED queue
     \/ /\ wall <= Deadline
        /\ \E now, expires \in HostTimes :
             now < expires /\ host' = [last |-> now, expires |-> expires]
        /\ stage' = "checking" /\ Observe(Opening)
        /\ UNCHANGED <<wall, report, closed, delivery, context, cstage, rstage, kind, secrets>>

HandOff ==
  /\ Quiet /\ stage = "checking" /\ Answered(Opening)
  /\ \/ Finish("source_failed")
     \/ /\ stage' = "delivering" /\ context' = "available"
        /\ UNCHANGED <<wall, report, host, closed, delivery, cstage, rstage, kind, secrets>>

\* A commit settles in the turn that begins it, so hadPendingCommit is false here.
DeliverSettles ==
  /\ Quiet /\ stage = "delivering"
  /\ \/ Finish("source_failed") /\ UNCHANGED queue
     \/ /\ stage' = "returning" /\ Observe(Opening)
        /\ delivery' = CloseDelivery(delivery)
        /\ UNCHANGED <<wall, report, host, closed, context, cstage, rstage, kind, secrets>>

ReturnSource ==
  /\ Quiet /\ stage = "returning" /\ Answered(Opening)
  /\ \/ Finish("source_failed")
     \/ wall <= Deadline /\ Finish("source_delivered")

-----------------------------------------------------------------------------

Delivered == context # "none"

CommitGoes(c, to) ==
  /\ cstage' = [cstage EXCEPT ![c] = to]
  /\ UNCHANGED <<wall, stage, report, host, closed, context, rstage, kind, secrets>>

CallSourceCommit(c) ==
  /\ Delivered /\ cstage[c] = "idle"
  /\ CommitGoes(c, IF delivery.phase = "open" /\ ~delivery.closed THEN "scope" ELSE "failed")
  /\ UNCHANGED <<delivery, queue>>

ScopeAnswers(c) ==
  /\ Quiet /\ cstage[c] = "scope"
  /\ \/ CommitGoes(c, "failed") /\ UNCHANGED queue
     \/ CommitGoes(c, "queued") /\ Observe(c)
  /\ UNCHANGED delivery

\* Fault: the phase is checked on entry only.
MayBeginAgain == ~delivery.closed

MayBegin == ~delivery.closed /\ delivery.phase = "open"

\* beginCommit, and the sink is entered.
BeginCommit(c) ==
  /\ Quiet /\ cstage[c] = "queued" /\ Answered(c)
  /\ \/ CommitGoes(c, "failed") /\ UNCHANGED delivery
     \/ /\ ~closed /\ MayBegin
        /\ CommitGoes(c, "sink")
        /\ delivery' = [delivery EXCEPT !.phase = "pending", !.commit = "outcome_unknown"]

SinkAnswers(c) ==
  /\ cstage[c] = "sink"
  /\ \/ /\ CommitGoes(c, "failed")
        /\ delivery' = [delivery EXCEPT !.phase = "failed"]
     \/ /\ CommitGoes(c, "committed")
        /\ delivery' = [delivery EXCEPT !.phase = "committed", !.commit = "confirmed"]
  /\ UNCHANGED queue

-----------------------------------------------------------------------------

\* checkLocal
Local == ~closed /\ wall <= Deadline

\* Every end of a revision zeroes its secrets.
RevisionGoes(r, to) ==
  /\ rstage' = [rstage EXCEPT ![r] = to]
  /\ secrets' = [secrets EXCEPT ![r] = @ /\ to \notin {"valid", "produced", "rejected"}]
  /\ UNCHANGED <<wall, stage, report, closed, delivery, cstage>>

\* Fault: a call that is admitted leaves the context available.
CallRevisionKeeping(r) ==
  /\ Quiet /\ Delivered /\ rstage[r] = "idle"
  /\ \E k \in {"preview", "produce"} : kind' = [kind EXCEPT ![r] = k]
  /\ \/ RevisionGoes(r, "rejected")
     \/ context = "available" /\ Local /\ RevisionGoes(r, "observing")
  /\ UNCHANGED <<host, queue, context>>

\* reserveContext, the capture of the arguments, and the start of refreshOwner.
CallRevision(r) ==
  /\ Quiet /\ Delivered /\ rstage[r] = "idle"
  /\ \E k \in {"preview", "produce"} : kind' = [kind EXCEPT ![r] = k]
  /\ \/ RevisionGoes(r, "rejected")
     \/ context = "available" /\ Local /\ RevisionGoes(r, "observing")
  /\ context' = IF context = "available" THEN "reserved" ELSE context
  /\ UNCHANGED <<host, queue>>

\* Fault: the Host's time may go back.
AuthorizedAnyTime(now) == now < host.expires

\* verifyObservation: the context, epoch and expiry are those of the opening.
Authorized(now) == now >= host.last /\ now < host.expires

HostObservesRevision(r) ==
  /\ Quiet /\ rstage[r] = "observing"
  /\ \/ RevisionGoes(r, "rejected") /\ UNCHANGED <<host, queue>>
     \/ /\ Local
        /\ \E now \in HostTimes : Authorized(now) /\ host' = [host EXCEPT !.last = now]
        /\ RevisionGoes(r, "queued") /\ Observe(r)
  /\ UNCHANGED <<kind, context>>

Checked(r) ==
  /\ Quiet /\ rstage[r] = "queued" /\ Answered(r)
  /\ \/ RevisionGoes(r, "rejected")
     \/ Local /\ RevisionGoes(r, "fresh")
  /\ UNCHANGED <<host, kind, context>>

\* The call goes on after refreshOwner has returned.
Continue(r) ==
  /\ Quiet /\ rstage[r] = "fresh"
  /\ \/ kind[r] = "preview" /\ \E to \in {"valid", "rejected"} : RevisionGoes(r, to)
     \/ kind[r] = "produce" /\ RevisionGoes(r, IF secrets[r] THEN "produced" ELSE "asking")
  /\ UNCHANGED <<host, kind, context, queue>>

\* The secrets arrive, the revision is validated and built, and published after a
\* second refresh.
SecretsAnswer(r) ==
  /\ Quiet /\ rstage[r] = "asking"
  /\ \/ RevisionGoes(r, "rejected")
     \/ /\ Local
        /\ rstage' = [rstage EXCEPT ![r] = "observing"]
        /\ secrets' = [secrets EXCEPT ![r] = TRUE]
        /\ UNCHANGED <<wall, stage, report, closed, delivery, cstage>>
  /\ UNCHANGED <<host, kind, context, queue>>

Tick ==
  /\ Quiet /\ wall < MaxTime /\ \A r \in Revisions : rstage[r] # "fresh"
  /\ wall' = wall + 1
  /\ UNCHANGED <<stage, report, host, closed, delivery, context, cstage, rstage, kind, secrets, queue>>

OpeningStep == Admitted \/ HostAuthorizes \/ HandOff \/ DeliverSettles \/ ReturnSource
SourceCommitStep(c) == ScopeAnswers(c) \/ BeginCommit(c) \/ SinkAnswers(c)
RevisionStep(r) == HostObservesRevision(r) \/ Checked(r) \/ Continue(r) \/ SecretsAnswer(r)

SourceNext ==
  \/ OpeningStep
  \/ \E c \in SourceCommits : CallSourceCommit(c) \/ SourceCommitStep(c)
  \/ \E r \in Revisions : CallRevision(r) \/ RevisionStep(r)
  \/ Tick

SourceSpec == SourceInit /\ [][SourceNext]_sourceVars

\* Callbacks and observes of the operation settle; nobody has to call or be in time.
FairSourceSpec ==
  /\ SourceSpec /\ WF_sourceVars(OpeningStep)
  /\ \A c \in SourceCommits : WF_sourceVars(SourceCommitStep(c))
  /\ \A r \in Revisions : WF_sourceVars(RevisionStep(r))

-----------------------------------------------------------------------------

\* What the opening reported about the external commit stays true: no commit that was
\* on its way when the callback settled sends or confirms anything afterwards.
ReportIsFinal == stage = "done" => report.commit = delivery.commit

\* One context serves one revision: two calls, at whatever awaits, never both work or
\* succeed, and output secrets are held by one call that is between its refreshes.
ContextServesOnce ==
  /\ \A q, r \in Revisions :
       {rstage[q], rstage[r]} \cap {"idle", "rejected"} = {} => q = r
  /\ \A r \in Revisions :
       secrets[r] => kind[r] = "produce" /\ rstage[r] \in {"observing", "queued", "fresh"}

Waits(c) ==
  \/ c = Opening /\ stage \in {"checking", "returning"}
  \/ c \in SourceCommits /\ cstage[c] = "queued"
  \/ c \in Revisions /\ rstage[c] = "queued"

\* Exactly the calls that wait for a check are in the queue, once each: no check is
\* lost, and no call that ended meanwhile holds up the ones behind it.
QueueHoldsWaiters ==
  IsInjective(queue) /\ \A c \in Observers : c \in Range(queue) <=> Waits(c)

\* What holds between any two steps of an opening and the calls made with it.
SourceInvariant == SourceTypeOK /\ ReportIsFinal /\ ContextServesOnce /\ QueueHoldsWaiters

\* An answer of the Host, the operation or the secret provider that comes after the
\* deadline, or after the opening ended, launches no work.
LateAnswersAreDropped ==
  [][\A r \in Revisions :
       /\ closed \/ wall > Deadline
       /\ rstage[r] \in {"idle", "observing", "queued", "asking"}
       => rstage'[r] \in {rstage[r], "rejected"}]_sourceVars

\* A revision is never produced once the opening has reported source_delivered: its
\* last check shares a queue with the check that precedes that report.
NoRevisionAfterReport ==
  [][\A r \in Revisions :
       rstage'[r] = "produced" /\ report.status = "source_delivered" => rstage[r] = "produced"]_sourceVars

\* Once the Host has authorized the opening, a later observation neither renews the
\* original expiry nor rolls the Host's time back.
AuthorityIsNotRenewed ==
  [][stage # "observing" => host'.expires = host.expires /\ host'.last >= host.last]_sourceVars

\* A revision lives on what its opening had: no late answer, no later authority and no
\* report that is already out is overtaken by it.
RevisionsKeepTheirOpening ==
  LateAnswersAreDropped /\ NoRevisionAfterReport /\ AuthorityIsNotRenewed

\* protected-source-revision.js:16 "only the still-open owning callback may publish".
PublishedInsideCallback ==
  [][\A r \in Revisions :
       rstage'[r] = "produced" /\ rstage[r] # "produced" => stage = "delivering"]_sourceVars

SourceHistory == INSTANCE DisclosureHistory WITH
  Deliveries <- {Opening},
  history <- [o \in {Opening} |-> delivery.commit],
  sent <- [o \in {Opening} |-> delivery.phase \in {"committed", "failed"}],
  open <- [o \in {Opening} |-> ~delivery.closed]

\* The token implements the same disclosure history as a protected Read's: one send,
\* recorded before it happens, never taken back, none after the callback settled.
ImplementsSourceHistory == SourceHistory!HSpec

\* No order of callback, commits, revisions and disposal leaves a call suspended.
SourceCallsReturn ==
  /\ <>(stage = "done")
  /\ \A c \in SourceCommits : cstage[c] # "idle" ~> cstage[c] \in {"committed", "failed"}
  /\ \A r \in Revisions : rstage[r] # "idle" ~> rstage[r] \in {"valid", "produced", "rejected"}
=============================================================================
