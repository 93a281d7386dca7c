----------------------------- MODULE GrantIssuer -----------------------------
(***************************************************************************)
(* The external grant issuer (kdna-core/src/public-contract/               *)
(* grant-issuer.js): the calls of one process share the counter `reserved` *)
(* of at most MAX_CONCURRENT running issues.  A call captures its          *)
(* arguments, may read the asset from a file, and then issues in one       *)
(* synchronous unit.  Its timer may answer for it at any await; the work   *)
(* goes on behind that answer and keeps its reservation and its secrets.   *)
(***************************************************************************)
EXTENDS Naturals, FiniteSets

CONSTANTS
  Calls,
  Capacity,   \* MAX_CONCURRENT
  MaxTime,    \* bound on the monotonic clock
  Timeouts    \* timeout_ms of the options

ASSUME ConstantsAssumption ==
  /\ IsFiniteSet(Calls)
  /\ Capacity \in Nat /\ MaxTime \in Nat
  /\ Timeouts \subseteq Nat \ {0}

VARIABLES
  now,        \* process.hrtime
  reserved,   \* the module's count of reservations
  pc,         \* the file operation the work awaits, or "settling" once it has ended
  deadline,
  outcome,    \* what the work ends with: "none" while nothing is decided
  answer,     \* what the caller's promise resolved with
  secrets,    \* the call's owned buffers hold secret bytes
  grant       \* grantBytes: "none", "live" or "zeroed"

vars == <<now, reserved, pc, deadline, outcome, answer, secrets, grant>>

FileSteps == {"open", "stat", "read", "close"}
\* "rejected" stands for the codes of the capture, the asset and Core.
Outcomes == {"INPUT_INVALID", "OUTPUT_INVALID", "rejected", "issued"}

TypeOK ==
  /\ now \in 0..MaxTime
  /\ reserved \in Nat
  /\ pc \in [Calls -> FileSteps \cup {"idle", "settling", "done"}]
  /\ deadline \in [Calls -> 0..MaxTime]
  /\ outcome \in [Calls -> Outcomes \cup {"none"}]
  /\ answer \in [Calls -> Outcomes \cup {"none"}]
  /\ secrets \in [Calls -> BOOLEAN]
  /\ grant \in [Calls -> {"none", "live", "zeroed"}]

Init ==
  /\ now = 0 /\ reserved = 0
  /\ pc = [c \in Calls |-> "idle"]
  /\ deadline = [c \in Calls |-> 0]
  /\ outcome = [c \in Calls |-> "none"]
  /\ answer = [c \in Calls |-> "none"]
  /\ secrets = [c \in Calls |-> FALSE]
  /\ grant = [c \in Calls |-> "none"]

-----------------------------------------------------------------------------

\* checkpoint() throws: the caller has its answer, or its time is over.
Stopped(c) == answer[c] # "none" \/ now >= deadline[c]

Publish(c, result) == answer' = IF answer[c] = "none" THEN [answer EXCEPT ![c] = result] ELSE answer

\* No reservation is free, or the arguments are refused and the reservation with them.
Refuse(c) ==
  /\ pc[c] = "idle"
  /\ \/ Publish(c, "INPUT_INVALID")
     \/ reserved < Capacity /\ Publish(c, "rejected")
  /\ pc' = [pc EXCEPT ![c] = "done"]
  /\ UNCHANGED <<now, reserved, deadline, outcome, secrets, grant>>

\* A call with a path: its secrets are captured and its timer runs.
StartFile(c) ==
  /\ pc[c] = "idle"
  /\ reserved < Capacity
  /\ \E t \in Timeouts : now + t <= MaxTime /\ deadline' = [deadline EXCEPT ![c] = now + t]
  /\ reserved' = reserved + 1
  /\ secrets' = [secrets EXCEPT ![c] = TRUE]
  /\ pc' = [pc EXCEPT ![c] = "open"]
  /\ UNCHANGED <<now, outcome, answer, grant>>

\* Fault: only an issued grant gives its reservation back.
EndWorkLeaking(c, result) ==
  /\ outcome' = [outcome EXCEPT ![c] = result]
  /\ grant' = IF result = "issued" THEN [grant EXCEPT ![c] = "live"] ELSE grant
  /\ secrets' = [secrets EXCEPT ![c] = FALSE]
  /\ reserved' = IF result = "issued" THEN reserved - 1 ELSE reserved
  /\ pc' = [pc EXCEPT ![c] = "settling"]
  /\ UNCHANGED <<now, deadline, answer>>

\* The work returns or throws through its finally block.
EndWork(c, result) ==
  /\ outcome' = [outcome EXCEPT ![c] = result]
  /\ grant' = IF result = "issued" THEN [grant EXCEPT ![c] = "live"] ELSE grant
  /\ secrets' = [secrets EXCEPT ![c] = FALSE]
  /\ reserved' = reserved - 1
  /\ pc' = [pc EXCEPT ![c] = "settling"]
  /\ UNCHANGED <<now, deadline, answer>>

\* A call with bytes issues before it returns its promise.
StartBytes(c) ==
  /\ pc[c] = "idle"
  /\ reserved < Capacity
  /\ \E t \in Timeouts : now + t <= MaxTime /\ deadline' = [deadline EXCEPT ![c] = now + t]
  /\ \E result \in Outcomes :
       /\ outcome' = [outcome EXCEPT ![c] = result]
       /\ grant' = IF result = "issued" THEN [grant EXCEPT ![c] = "live"] ELSE grant
  /\ pc' = [pc EXCEPT ![c] = "settling"]
  /\ UNCHANGED <<now, reserved, answer, secrets>>

\* An open handle is closed on every path.
Close(c, result) ==
  /\ pc' = [pc EXCEPT ![c] = "close"]
  /\ outcome' = [outcome EXCEPT ![c] = result]
  /\ UNCHANGED <<now, reserved, deadline, answer, secrets, grant>>

Await(c, step) ==
  /\ pc' = [pc EXCEPT ![c] = step]
  /\ UNCHANGED <<now, reserved, deadline, outcome, answer, secrets, grant>>

OpenAnswers(c) ==
  /\ pc[c] = "open"
  /\ \/ EndWork(c, "INPUT_INVALID")
     \/ Stopped(c) /\ Close(c, "OUTPUT_INVALID")
     \/ ~Stopped(c) /\ Await(c, "stat")

\* stat and read may fail, or show something that is not a file within the limit.
StatAnswers(c) ==
  /\ pc[c] = "stat"
  /\ \/ Close(c, "INPUT_INVALID")
     \/ Stopped(c) /\ Close(c, "OUTPUT_INVALID")
     \/ ~Stopped(c) /\ Await(c, "read")

\* Another chunk, or the end of the file.
ReadAnswers(c) ==
  /\ pc[c] = "read"
  /\ \/ Close(c, "INPUT_INVALID")
     \/ Stopped(c) /\ Close(c, "OUTPUT_INVALID")
     \/ ~Stopped(c) /\ (Await(c, "read") \/ Close(c, "none"))

\* A close that fails hides what was pending; otherwise the whole issue runs in the
\* turn in which close answers.
CloseAnswers(c) ==
  /\ pc[c] = "close"
  /\ \/ EndWork(c, "OUTPUT_INVALID")
     \/ outcome[c] # "none" /\ EndWork(c, outcome[c])
     \/ outcome[c] = "none" /\ ~Stopped(c) /\ \E result \in Outcomes : EndWork(c, result)

\* Fault: the timer gives the reservation back.
TimerFiresReleasing(c) ==
  /\ pc[c] \in FileSteps
  /\ answer[c] = "none" /\ now >= deadline[c]
  /\ \A d \in Calls : pc[d] # "settling"
  /\ Publish(c, "OUTPUT_INVALID")
  /\ reserved' = reserved - 1
  /\ UNCHANGED <<now, pc, deadline, outcome, secrets, grant>>

\* Fault: the timer runs only while the file is read.
TimerFiresReading(c) ==
  /\ pc[c] \in {"stat", "read"}
  /\ answer[c] = "none" /\ now >= deadline[c]
  /\ \A d \in Calls : pc[d] # "settling"
  /\ Publish(c, "OUTPUT_INVALID")
  /\ UNCHANGED <<now, reserved, pc, deadline, outcome, secrets, grant>>

\* A timer runs between turns: never before a settled work is observed.
TimerFires(c) ==
  /\ pc[c] \in FileSteps
  /\ answer[c] = "none" /\ now >= deadline[c]
  /\ \A d \in Calls : pc[d] # "settling"
  /\ Publish(c, "OUTPUT_INVALID")
  /\ UNCHANGED <<now, reserved, pc, deadline, outcome, secrets, grant>>

\* Fault: a result that is late is not published and keeps its bytes.
WithdrawKeeping(c) ==
  /\ Publish(c, "OUTPUT_INVALID")
  /\ UNCHANGED grant

\* The result is late: its bytes are zeroed.
Withdraw(c) ==
  /\ Publish(c, "OUTPUT_INVALID")
  /\ grant' = [grant EXCEPT ![c] = "zeroed"]

\* The continuation of the work, in a later microtask.
Settle(c) ==
  /\ pc[c] = "settling"
  /\ \/ outcome[c] = "issued" /\ Stopped(c) /\ Withdraw(c)
     \/ /\ outcome[c] = "issued" => ~Stopped(c)
        /\ Publish(c, outcome[c])
        /\ UNCHANGED grant
  /\ pc' = [pc EXCEPT ![c] = "done"]
  /\ UNCHANGED <<now, reserved, deadline, outcome, secrets>>

Tick ==
  /\ now < MaxTime
  /\ now' = now + 1
  /\ UNCHANGED <<reserved, pc, deadline, outcome, answer, secrets, grant>>

FileAnswers(c) == OpenAnswers(c) \/ StatAnswers(c) \/ ReadAnswers(c) \/ CloseAnswers(c)

Next ==
  \/ \E c \in Calls :
       \/ Refuse(c) \/ StartFile(c) \/ StartBytes(c)
       \/ FileAnswers(c) \/ TimerFires(c) \/ Settle(c)
  \/ Tick

Spec == Init /\ [][Next]_vars

\* Time passes, and due timers and microtasks run; file operations may hang for ever.
FairSpec ==
  /\ Spec /\ WF_vars(Tick)
  /\ \A c \in Calls : WF_vars(TimerFires(c)) /\ WF_vars(Settle(c))

-----------------------------------------------------------------------------
(* Properties                                                               *)

Working == {c \in Calls : pc[c] \in FileSteps}

\* grant-issuer.js:89-91, 120: the counter is the number of works that have not ended,
\* on every path through failure, timeout and late answers, and stays in its limit.
PoolIsExact == reserved = Cardinality(Working) /\ reserved <= Capacity

\* grant-issuer.js:120: captured secrets never outlive the reservation, so no more than
\* MAX_CONCURRENT calls hold root keys in memory, the ones that have timed out included.
SecretsHoldReservations == \A c \in Calls : secrets[c] => c \in Working

\* What holds of the shared pool between any two turns.
PoolInvariant == TypeOK /\ PoolIsExact /\ SecretsHoldReservations

\* grant-issuer.js:122: when a call is over, its grant bytes exist exactly if its caller
\* was given them.
NoGrantSurvives == \A c \in Calls : pc[c] = "done" => (grant[c] = "live" <=> answer[c] = "issued")

\* grant-issuer.js:96: the timer, the work and its continuation answer a call once.
OneAnswer == [][\A c \in Calls : answer[c] # "none" => answer'[c] = answer[c]]_vars

\* A grant is handed over before the call's deadline, however long the issue took.
IssuedInTime == [][\A c \in Calls : answer[c] # answer'[c] /\ answer'[c] = "issued" => now < deadline[c]]_vars

\* A caller is answered although the file system may never answer.
EveryCallAnswers == \A c \in Calls : pc[c] # "idle" ~> answer[c] # "none"

\* Every reservation comes back, provided that file operations answer.
ReservationsReturn ==
  (\A c \in Calls : WF_vars(FileAnswers(c))) => (reserved > 0 ~> reserved = 0)
=============================================================================
