-------------------------- MODULE GrantIssuerProofs --------------------------
(***************************************************************************)
(* Proofs about GrantIssuer, for any finite set of calls, any capacity and *)
(* any timeouts.  The inductive invariant adds to the properties what a    *)
(* work in progress may already have decided: nothing that is issued while *)
(* a file is read, and live bytes exactly behind an issued result.         *)
(***************************************************************************)
EXTENDS GrantIssuer, FiniteSetTheorems, TLAPS

\* Grant bytes follow the work's result until its continuation has run.
GrantFollowsWork ==
  \A c \in Calls :
    /\ pc[c] \in FileSteps \cup {"idle"} => grant[c] = "none" /\ outcome[c] # "issued"
    /\ pc[c] = "settling" => (grant[c] = "live" <=> outcome[c] = "issued")
    /\ answer[c] = "issued" => pc[c] = "done"

IInv ==
  /\ TypeOK
  /\ PoolIsExact
  /\ SecretsHoldReservations
  /\ GrantFollowsWork
  /\ NoGrantSurvives

USE DEF FileSteps, Outcomes

-----------------------------------------------------------------------------
(* The pool                                                                 *)

\* What the count says when one call starts or ends its work, or none does.
LEMMA WorkingSize ==
  ASSUME TypeOK, PoolIsExact, NEW c \in Calls, pc' \in [Calls -> FileSteps \cup {"idle", "settling", "done"}],
         \A d \in Calls : d # c => pc'[d] = pc[d]
  PROVE  /\ (c \notin Working /\ pc'[c] \in FileSteps) => Cardinality(Working') = reserved + 1
         /\ (c \in Working /\ pc'[c] \notin FileSteps) => Cardinality(Working') = reserved - 1 /\ reserved > 0
         /\ (c \in Working <=> pc'[c] \in FileSteps) => Cardinality(Working') = reserved
<1>1. IsFiniteSet(Working)
  BY FS_Subset, ConstantsAssumption DEF Working
<1>2. ASSUME c \notin Working, pc'[c] \in FileSteps
      PROVE  Cardinality(Working') = reserved + 1
  <2>1. Working' = Working \cup {c}
    BY <1>2 DEF Working
  <2>. QED  BY <1>1, <1>2, <2>1, FS_AddElement DEF PoolIsExact
<1>3. ASSUME c \in Working, pc'[c] \notin FileSteps
      PROVE  Cardinality(Working') = reserved - 1 /\ reserved > 0
  <2>1. Working' = Working \ {c}
    BY <1>3 DEF Working
  <2>2. Cardinality(Working) > 0
    BY <1>1, <1>3, FS_EmptySet, FS_CardinalityType
  <2>. QED  BY <1>1, <1>3, <2>1, <2>2, FS_RemoveElement DEF PoolIsExact
<1>4. ASSUME c \in Working <=> pc'[c] \in FileSteps
      PROVE  Cardinality(Working') = reserved
  <2>1. Working' = Working
    BY <1>4 DEF Working
  <2>. QED  BY <2>1 DEF PoolIsExact
<1>. QED  BY <1>2, <1>3, <1>4

\* The end of a work, in whatever way it is reached.
LEMMA EndWorkStep ==
  ASSUME IInv, NEW c \in Calls, NEW result \in Outcomes, pc[c] \in FileSteps, EndWork(c, result)
  PROVE  IInv'
<1>. USE DEF IInv
<1>1. Cardinality(Working') = reserved - 1 /\ reserved > 0
  <2>1. pc' \in [Calls -> FileSteps \cup {"idle", "settling", "done"}]
    BY DEF TypeOK, EndWork
  <2>2. pc'[c] = "settling" /\ \A d \in Calls : d # c => pc'[d] = pc[d]
    BY DEF TypeOK, EndWork
  <2>3. c \in Working /\ pc'[c] \notin FileSteps
    BY <2>2 DEF Working
  <2>. QED  BY <2>1, <2>2, <2>3, WorkingSize
<1>2. TypeOK'
  BY <1>1 DEF TypeOK, EndWork
<1>3. PoolIsExact'
  BY <1>1, ConstantsAssumption DEF PoolIsExact, TypeOK, EndWork
<1>4. SecretsHoldReservations'
  BY DEF SecretsHoldReservations, Working, TypeOK, EndWork
<1>5. GrantFollowsWork'
  BY DEF GrantFollowsWork, TypeOK, EndWork
<1>6. NoGrantSurvives'
  BY DEF NoGrantSurvives, TypeOK, EndWork
<1>. QED  BY <1>2, <1>3, <1>4, <1>5, <1>6

\* A file step that stays within the work: another operation is awaited.
LEMMA FileStep ==
  ASSUME IInv, NEW c \in Calls, pc[c] \in FileSteps,
         NEW step \in FileSteps, NEW result \in Outcomes \cup {"none"}, result # "issued",
         pc' = [pc EXCEPT ![c] = step],
         outcome' = outcome \/ outcome' = [outcome EXCEPT ![c] = result],
         UNCHANGED <<now, reserved, deadline, answer, secrets, grant>>
  PROVE  IInv'
<1>. USE DEF IInv
<1>1. Cardinality(Working') = reserved
  <2>1. pc' \in [Calls -> FileSteps \cup {"idle", "settling", "done"}] /\ pc'[c] = step
        /\ \A d \in Calls : d # c => pc'[d] = pc[d]
    BY DEF TypeOK
  <2>. QED  BY <2>1, WorkingSize DEF Working
<1>2. TypeOK'
  BY DEF TypeOK
<1>3. PoolIsExact'
  BY <1>1 DEF PoolIsExact
<1>4. SecretsHoldReservations'
  BY DEF SecretsHoldReservations, Working, TypeOK
<1>5. GrantFollowsWork'
  BY DEF GrantFollowsWork, TypeOK
<1>6. NoGrantSurvives'
  BY DEF NoGrantSurvives, TypeOK
<1>. QED  BY <1>2, <1>3, <1>4, <1>5, <1>6

-----------------------------------------------------------------------------
(* One step of each kind                                                    *)

LEMMA RefuseStep ==
  ASSUME IInv, NEW c \in Calls, Refuse(c)  PROVE IInv'
<1>. USE DEF IInv
<1>1. Cardinality(Working') = reserved
  <2>1. pc' \in [Calls -> FileSteps \cup {"idle", "settling", "done"}] /\ pc'[c] = "done"
        /\ pc[c] = "idle" /\ \A d \in Calls : d # c => pc'[d] = pc[d]
    BY DEF TypeOK, Refuse
  <2>. QED  BY <2>1, WorkingSize DEF Working
<1>2. TypeOK'
  BY DEF TypeOK, Refuse, Publish
<1>3. PoolIsExact'
  BY <1>1 DEF PoolIsExact, Refuse
<1>4. SecretsHoldReservations'
  BY DEF SecretsHoldReservations, Working, TypeOK, Refuse
<1>5. GrantFollowsWork'
  BY DEF GrantFollowsWork, TypeOK, Refuse, Publish
<1>6. NoGrantSurvives'
  BY DEF NoGrantSurvives, GrantFollowsWork, TypeOK, Refuse, Publish
<1>. QED  BY <1>2, <1>3, <1>4, <1>5, <1>6

LEMMA StartFileStep ==
  ASSUME IInv, NEW c \in Calls, StartFile(c)  PROVE IInv'
<1>. USE DEF IInv
<1>1. Cardinality(Working') = reserved + 1
  <2>1. pc' \in [Calls -> FileSteps \cup {"idle", "settling", "done"}] /\ pc'[c] = "open"
        /\ pc[c] = "idle" /\ \A d \in Calls : d # c => pc'[d] = pc[d]
    BY DEF TypeOK, StartFile
  <2>. QED  BY <2>1, WorkingSize DEF Working
<1>2. TypeOK'
  <2>1. PICK t \in Timeouts : now + t <= MaxTime /\ deadline' = [deadline EXCEPT ![c] = now + t]
    BY DEF StartFile
  <2>2. now + t \in 0..MaxTime
    BY <2>1, ConstantsAssumption DEF TypeOK
  <2>. QED  BY <2>1, <2>2 DEF TypeOK, StartFile
<1>3. PoolIsExact'
  BY <1>1, ConstantsAssumption DEF PoolIsExact, TypeOK, StartFile
<1>4. SecretsHoldReservations'
  BY DEF SecretsHoldReservations, Working, TypeOK, StartFile
<1>5. GrantFollowsWork'
  BY DEF GrantFollowsWork, TypeOK, StartFile
<1>6. NoGrantSurvives'
  BY DEF NoGrantSurvives, TypeOK, StartFile
<1>. QED  BY <1>2, <1>3, <1>4, <1>5, <1>6

LEMMA StartBytesStep ==
  ASSUME IInv, NEW c \in Calls, StartBytes(c)  PROVE IInv'
<1>. USE DEF IInv
<1>1. Cardinality(Working') = reserved
  <2>1. pc' \in [Calls -> FileSteps \cup {"idle", "settling", "done"}] /\ pc'[c] = "settling"
        /\ pc[c] = "idle" /\ \A d \in Calls : d # c => pc'[d] = pc[d]
    BY DEF TypeOK, StartBytes
  <2>. QED  BY <2>1, WorkingSize DEF Working
<1>2. TypeOK'
  <2>1. PICK t \in Timeouts : now + t <= MaxTime /\ deadline' = [deadline EXCEPT ![c] = now + t]
    BY DEF StartBytes
  <2>2. now + t \in 0..MaxTime
    BY <2>1, ConstantsAssumption DEF TypeOK
  <2>. QED  BY <2>1, <2>2 DEF TypeOK, StartBytes
<1>3. PoolIsExact'
  BY <1>1 DEF PoolIsExact, StartBytes
<1>4. SecretsHoldReservations'
  BY DEF SecretsHoldReservations, Working, TypeOK, StartBytes
<1>5. GrantFollowsWork'
  BY DEF GrantFollowsWork, TypeOK, StartBytes
<1>6. NoGrantSurvives'
  BY DEF NoGrantSurvives, TypeOK, StartBytes
<1>. QED  BY <1>2, <1>3, <1>4, <1>5, <1>6

LEMMA FileAnswersStep ==
  ASSUME IInv, NEW c \in Calls, FileAnswers(c)  PROVE IInv'
<1>1. pc[c] \in FileSteps
  BY DEF FileAnswers, OpenAnswers, StatAnswers, ReadAnswers, CloseAnswers
<1>2. \/ \E result \in Outcomes : EndWork(c, result)
      \/ \E result \in (Outcomes \cup {"none"}) \ {"issued"} : Close(c, result)
      \/ \E step \in FileSteps : Await(c, step)
  BY DEF FileAnswers, OpenAnswers, StatAnswers, ReadAnswers, CloseAnswers, IInv, TypeOK
<1>3. CASE \E result \in Outcomes : EndWork(c, result)
  BY <1>1, <1>3, EndWorkStep
<1>4. CASE \E result \in (Outcomes \cup {"none"}) \ {"issued"} : Close(c, result)
  <2>1. PICK result \in (Outcomes \cup {"none"}) \ {"issued"} : Close(c, result)
    BY <1>4
  <2>2. "close" \in FileSteps
    OBVIOUS
  <2>. QED  BY <1>1, <2>1, <2>2, FileStep DEF Close
<1>5. CASE \E step \in FileSteps : Await(c, step)
  <2>1. PICK step \in FileSteps : Await(c, step)
    BY <1>5
  <2>. QED  BY <1>1, <2>1, FileStep DEF Await
<1>. QED  BY <1>2, <1>3, <1>4, <1>5

LEMMA TimerFiresStep ==
  ASSUME IInv, NEW c \in Calls, TimerFires(c)  PROVE IInv'
<1>. USE DEF IInv
<1>1. Working' = Working
  BY DEF Working, TimerFires
<1>2. TypeOK'
  BY DEF TypeOK, TimerFires, Publish
<1>3. PoolIsExact' /\ SecretsHoldReservations'
  BY <1>1 DEF PoolIsExact, SecretsHoldReservations, TimerFires
<1>4. GrantFollowsWork'
  BY DEF GrantFollowsWork, TypeOK, TimerFires, Publish
<1>5. NoGrantSurvives'
  BY DEF NoGrantSurvives, TypeOK, TimerFires, Publish
<1>. QED  BY <1>2, <1>3, <1>4, <1>5

LEMMA SettleStep ==
  ASSUME IInv, NEW c \in Calls, Settle(c)  PROVE IInv'
<1>. USE DEF IInv
<1>1. Cardinality(Working') = reserved
  <2>1. pc' \in [Calls -> FileSteps \cup {"idle", "settling", "done"}] /\ pc'[c] = "done"
        /\ pc[c] = "settling" /\ \A d \in Calls : d # c => pc'[d] = pc[d]
    BY DEF TypeOK, Settle
  <2>. QED  BY <2>1, WorkingSize DEF Working
<1>2. TypeOK'
  <2>1. answer' \in [Calls -> Outcomes \cup {"none"}]
    BY DEF TypeOK, Settle, Publish, Withdraw
  <2>. QED  BY <2>1 DEF TypeOK, Settle, Withdraw
<1>3. PoolIsExact'
  BY <1>1 DEF PoolIsExact, Settle
<1>4. SecretsHoldReservations'
  BY DEF SecretsHoldReservations, Working, TypeOK, Settle
<1>5. GrantFollowsWork'
  BY DEF GrantFollowsWork, TypeOK, Settle, Publish, Withdraw
<1>6. NoGrantSurvives'
  BY DEF NoGrantSurvives, GrantFollowsWork, TypeOK, Settle, Stopped, Publish, Withdraw
<1>. QED  BY <1>2, <1>3, <1>4, <1>5, <1>6

LEMMA TickStep ==
  ASSUME IInv, Tick  PROVE IInv'
<1>1. now + 1 \in 0..MaxTime
  BY ConstantsAssumption DEF IInv, TypeOK, Tick
<1>. QED
  BY <1>1 DEF IInv, TypeOK, PoolIsExact, SecretsHoldReservations, Working, GrantFollowsWork, NoGrantSurvives, Tick

-----------------------------------------------------------------------------

LEMMA Inductive == Spec => []IInv
<1>1. Init => IInv
  <2>1. ASSUME Init PROVE Working = {}
    BY <2>1 DEF Init, Working
  <2>2. Cardinality({}) = 0
    BY FS_EmptySet
  <2>. QED
    BY <2>1, <2>2, ConstantsAssumption
    DEF Init, IInv, TypeOK, PoolIsExact, SecretsHoldReservations, GrantFollowsWork, NoGrantSurvives
<1>2. IInv /\ [Next]_vars => IInv'
  <2>. SUFFICES ASSUME IInv, [Next]_vars PROVE IInv'
    OBVIOUS
  <2>1. CASE UNCHANGED vars
    BY <2>1 DEF IInv, TypeOK, PoolIsExact, SecretsHoldReservations, Working, GrantFollowsWork, NoGrantSurvives, vars
  <2>2. CASE Next
    BY <2>2, RefuseStep, StartFileStep, StartBytesStep, FileAnswersStep, TimerFiresStep, SettleStep, TickStep DEF Next
  <2>. QED  BY <2>1, <2>2
<1>. QED  BY <1>1, <1>2, PTL DEF Spec

\* Every variable keeps its type.
THEOREM TypeCorrect == Spec => []TypeOK
<1>1. IInv => TypeOK
  BY DEF IInv
<1>. QED  BY <1>1, Inductive, PTL

\* grant-issuer.js:89-91, 120: the counter counts the works that have not ended and
\* never passes its limit, whatever fails, hangs or answers late.
THEOREM PoolStaysExact == Spec => []PoolIsExact
<1>1. IInv => PoolIsExact
  BY DEF IInv
<1>. QED  BY <1>1, Inductive, PTL

\* grant-issuer.js:120: secrets are in memory only behind a reservation.
THEOREM SecretsStayReserved == Spec => []SecretsHoldReservations
<1>1. IInv => SecretsHoldReservations
  BY DEF IInv
<1>. QED  BY <1>1, Inductive, PTL

\* grant-issuer.js:122: grant bytes outlive a call exactly when its caller has them.
THEOREM GrantsAreHandedOverOrZeroed == Spec => []NoGrantSurvives
<1>1. IInv => NoGrantSurvives
  BY DEF IInv
<1>. QED  BY <1>1, Inductive, PTL

\* grant-issuer.js:96: timer, work and continuation answer a call once.
THEOREM AnsweredOnce == Spec => OneAnswer
<1>1. ASSUME IInv, [Next]_vars
      PROVE  [\A c \in Calls : answer[c] # "none" => answer'[c] = answer[c]]_vars
  <2>. SUFFICES ASSUME Next, NEW c \in Calls, answer[c] # "none" PROVE answer'[c] = answer[c]
    BY <1>1 DEF vars
  <2>1. ASSUME NEW d \in Calls, NEW result, Publish(d, result) PROVE answer'[c] = answer[c]
    BY <1>1, <2>1 DEF Publish, IInv, TypeOK
  <2>2. answer' = answer \/ \E d \in Calls : \E result \in Outcomes \cup {"none"} : Publish(d, result)
    <3>1. CASE \E d \in Calls : Refuse(d)
      BY <3>1 DEF Refuse
    <3>2. CASE \E d \in Calls : StartFile(d) \/ StartBytes(d)
      BY <3>2 DEF StartFile, StartBytes
    <3>3. CASE \E d \in Calls : FileAnswers(d)
      BY <3>3 DEF FileAnswers, OpenAnswers, StatAnswers, ReadAnswers, CloseAnswers, EndWork, Close, Await
    <3>4. CASE \E d \in Calls : TimerFires(d)
      BY <3>4 DEF TimerFires
    <3>5. ASSUME NEW d \in Calls, Settle(d) PROVE \E result \in Outcomes \cup {"none"} : Publish(d, result)
      BY <1>1, <3>5 DEF Settle, Withdraw, IInv, TypeOK
    <3>6. CASE Tick
      BY <3>6 DEF Tick
    <3>. QED  BY <3>1, <3>2, <3>3, <3>4, <3>5, <3>6 DEF Next
  <2>. QED  BY <2>1, <2>2
<1>. QED  BY <1>1, Inductive, PTL DEF Spec, OneAnswer

\* A grant is handed over before the call's deadline, however long the issue took.
THEOREM IssuedBeforeDeadline == Spec => IssuedInTime
<1>1. ASSUME IInv, [Next]_vars
      PROVE  [\A c \in Calls : answer[c] # answer'[c] /\ answer'[c] = "issued" => now < deadline[c]]_vars
  <2>. SUFFICES ASSUME Next, NEW c \in Calls, answer[c] # answer'[c], answer'[c] = "issued"
                PROVE  now < deadline[c]
    BY <1>1 DEF vars
  <2>1. ASSUME NEW d \in Calls, NEW result, Publish(d, result)
        PROVE  d = c /\ result = "issued"
    BY <1>1, <2>1 DEF Publish, IInv, TypeOK
  <2>2. CASE \E d \in Calls : Refuse(d) \/ TimerFires(d)
    BY <2>1, <2>2 DEF Refuse, TimerFires
  <2>3. CASE \E d \in Calls : StartFile(d) \/ StartBytes(d) \/ FileAnswers(d)
    BY <2>3 DEF StartFile, StartBytes, FileAnswers, OpenAnswers, StatAnswers, ReadAnswers, CloseAnswers,
                EndWork, Close, Await
  <2>4. ASSUME NEW d \in Calls, Settle(d) PROVE now < deadline[c]
    <3>1. d = c /\ outcome[d] = "issued" /\ ~Stopped(d)
      BY <2>1, <2>4 DEF Settle, Withdraw
    <3>. QED  BY <1>1, <3>1, ConstantsAssumption DEF Stopped, IInv, TypeOK
  <2>5. CASE Tick
    BY <2>5 DEF Tick
  <2>. QED  BY <2>2, <2>3, <2>4, <2>5 DEF Next
<1>. QED  BY <1>1, Inductive, PTL DEF Spec, IssuedInTime

\* Between any two turns the run's invariant of the shared pool (grant-issuer.js) holds, for
\* any number of calls.
THEOREM PoolInvariantHolds == Spec => []PoolInvariant
<1>1. TypeOK /\ PoolIsExact /\ SecretsHoldReservations => PoolInvariant
  BY DEF PoolInvariant
<1>. QED  BY <1>1, TypeCorrect, PoolStaysExact, SecretsStayReserved, PTL

-----------------------------------------------------------------------------
(* Answers need no file                                                     *)

\* A continuation has something to publish, and a call that is over was answered.
Decided == \A c \in Calls :
  /\ pc[c] = "settling" => outcome[c] # "none"
  /\ pc[c] = "done" => answer[c] # "none"

LEMMA DecidedKept ==
  ASSUME TypeOK, Decided, [Next]_vars
  PROVE  Decided'
<1>. USE DEF Decided
<1>0. /\ pc \in [Calls -> FileSteps \cup {"idle", "settling", "done"}]
      /\ outcome \in [Calls -> Outcomes \cup {"none"}] /\ answer \in [Calls -> Outcomes \cup {"none"}]
  BY DEF TypeOK
<1>1. CASE UNCHANGED vars
  BY <1>1 DEF vars
<1>2. ASSUME NEW c \in Calls, Refuse(c) \/ TimerFires(c) PROVE Decided'
  BY <1>0, <1>2 DEF Refuse, TimerFires, Publish
<1>3. ASSUME NEW c \in Calls, StartFile(c) \/ StartBytes(c) PROVE Decided'
  <2>1. /\ UNCHANGED answer
        /\ \/ pc' = [pc EXCEPT ![c] = "open"] /\ UNCHANGED outcome
           \/ /\ pc' = [pc EXCEPT ![c] = "settling"]
              /\ \E result \in Outcomes : outcome' = [outcome EXCEPT ![c] = result]
    BY <1>3 DEF StartFile, StartBytes
  <2>. QED  BY <1>0, <2>1
<1>4. ASSUME NEW c \in Calls, FileAnswers(c) PROVE Decided'
  <2>1. /\ UNCHANGED answer
        /\ \/ /\ pc' = [pc EXCEPT ![c] = "settling"]
              /\ \E result \in Outcomes : outcome' = [outcome EXCEPT ![c] = result]
           \/ /\ pc' = [pc EXCEPT ![c] = "close"]
              /\ \E result : outcome' = [outcome EXCEPT ![c] = result]
           \/ UNCHANGED outcome /\ \E where \in FileSteps : pc' = [pc EXCEPT ![c] = where]
    BY <1>0, <1>4 DEF FileAnswers, OpenAnswers, StatAnswers, ReadAnswers, CloseAnswers, EndWork, Close, Await
  <2>. QED  BY <1>0, <2>1
<1>5. ASSUME NEW c \in Calls, Settle(c) PROVE Decided'
  BY <1>0, <1>5 DEF Settle, Withdraw, Publish
<1>6. CASE Tick
  BY <1>6 DEF Tick
<1>. QED  BY <1>1, <1>2, <1>3, <1>4, <1>5, <1>6 DEF Next

LEMMA DecidedHolds == Spec => []Decided
<1>1. Init => Decided
  BY DEF Init, Decided
<1>. QED  BY <1>1, DecidedKept, TypeCorrect, PTL DEF Spec

\* The steps a call needs for its answer, as assignments of every variable: its timer's,
\* a continuation's, and the clock's.
TimerAnswers(c) ==
  answer' = [answer EXCEPT ![c] = "OUTPUT_INVALID"]
  /\ UNCHANGED <<now, reserved, pc, deadline, outcome, secrets, grant>>
ContinuationAnswers(c) ==
  LET late == outcome[c] = "issued" /\ Stopped(c)
  IN  /\ answer' = IF answer[c] # "none" THEN answer
                   ELSE [answer EXCEPT ![c] = IF late THEN "OUTPUT_INVALID" ELSE outcome[c]]
      /\ grant' = IF late THEN [grant EXCEPT ![c] = "zeroed"] ELSE grant
      /\ pc' = [pc EXCEPT ![c] = "done"]
      /\ UNCHANGED <<now, reserved, deadline, outcome, secrets>>
TimePasses == now' = now + 1 /\ UNCHANGED <<reserved, pc, deadline, outcome, answer, secrets, grant>>

\* However file operations hang, a call that has no answer yet has a way to it: some
\* continuation is due, or its own timer is, or its deadline lies ahead of the clock.
AnswersNeedNoFile == \A c \in Calls :
  pc[c] # "idle" /\ answer[c] = "none" =>
    \/ \E d \in Calls : pc[d] = "settling" /\ (ContinuationAnswers(d) => <<Settle(d)>>_vars)
    \/ now >= deadline[c] /\ (TimerAnswers(c) => <<TimerFires(c)>>_vars)
    \/ now < deadline[c] /\ now < MaxTime /\ (TimePasses => <<Tick>>_vars)

\* In every state of the issuer (TypeCorrect, DecidedHolds), for any number of calls: an
\* answer of issueExternalKeyGrantForAsset waits for a timer or a microtask, never for the
\* file system alone.
THEOREM NoAnswerNeedsItsFile ==
  ASSUME TypeOK, Decided
  PROVE  AnswersNeedNoFile
<1>. SUFFICES ASSUME NEW c \in Calls, pc[c] # "idle", answer[c] = "none"
              PROVE  \/ \E d \in Calls : pc[d] = "settling" /\ (ContinuationAnswers(d) => <<Settle(d)>>_vars)
                     \/ now >= deadline[c] /\ (TimerAnswers(c) => <<TimerFires(c)>>_vars)
                     \/ now < deadline[c] /\ now < MaxTime /\ (TimePasses => <<Tick>>_vars)
  BY DEF AnswersNeedNoFile
<1>1. now \in Nat /\ deadline[c] \in Nat /\ deadline[c] <= MaxTime /\ MaxTime \in Nat
  BY ConstantsAssumption DEF TypeOK
<1>2. ASSUME NEW d \in Calls, pc[d] = "settling", ContinuationAnswers(d) PROVE <<Settle(d)>>_vars
  <2>1. pc' # pc
    BY <1>2 DEF ContinuationAnswers, TypeOK
  <2>2. CASE outcome[d] = "issued" /\ Stopped(d)
    BY <1>2, <2>1, <2>2 DEF ContinuationAnswers, Settle, Withdraw, Publish, vars
  <2>3. CASE ~(outcome[d] = "issued" /\ Stopped(d))
    BY <1>2, <2>1, <2>3 DEF ContinuationAnswers, Settle, Publish, vars
  <2>. QED  BY <2>2, <2>3
<1>3. CASE \E d \in Calls : pc[d] = "settling"
  BY <1>2, <1>3
<1>4. CASE now >= deadline[c] /\ \A d \in Calls : pc[d] # "settling"
  <2>1. pc[c] \in FileSteps
    BY <1>4 DEF TypeOK, Decided
  <2>2. ASSUME TimerAnswers(c) PROVE <<TimerFires(c)>>_vars
    <3>1. answer' # answer
      BY <2>2 DEF TimerAnswers, TypeOK
    <3>. QED  BY <1>4, <2>1, <2>2, <3>1 DEF TimerAnswers, TimerFires, Publish, vars
  <2>. QED  BY <1>4, <2>2
<1>5. CASE now < deadline[c]
  <2>1. ASSUME TimePasses PROVE <<Tick>>_vars
    BY <1>1, <1>5, <2>1 DEF TimePasses, Tick, vars
  <2>. QED  BY <1>1, <1>5, <2>1
<1>. QED  BY <1>1, <1>3, <1>4, <1>5

\* Where a call is on its way.  Another chunk of a file changes nothing here.
CallPhases == [idle |-> 6, open |-> 5, stat |-> 4, read |-> 3, close |-> 2, settling |-> 1,
               done |-> 0]

CallAdvances(c) ==
  /\ CallPhases[pc'[c]] < CallPhases[pc[c]] \/ (pc' = pc /\ answer[c] = "none" /\ answer'[c] # "none")
  /\ \A d \in Calls \ {c} : pc'[d] = pc[d] /\ answer'[d] = answer[d]
  /\ now' = now

\* Every step takes one call nearer to its end or answers it, and takes none back, or
\* lets the time pass that the model bounds.
EveryIssueStepAdvances ==
  \/ \E c \in Calls : CallAdvances(c)
  \/ now' = now + 1 /\ now < MaxTime /\ UNCHANGED <<pc, answer>>

LEMMA FileAdvances ==
  ASSUME TypeOK, NEW c \in Calls, FileAnswers(c), ~UNCHANGED vars
  PROVE  CallAdvances(c)
<1>1. ASSUME NEW result, EndWork(c, result) \/ Close(c, result)
      PROVE  /\ pc'[c] \in {"close", "settling"} /\ UNCHANGED <<now, answer>>
             /\ pc'[c] = "close" => Close(c, result)
             /\ \A d \in Calls \ {c} : pc'[d] = pc[d]
  BY <1>1 DEF TypeOK, EndWork, Close
<1>2. ASSUME NEW step, Await(c, step)
      PROVE  pc'[c] = step /\ step # pc[c] /\ UNCHANGED <<now, answer>> /\ \A d \in Calls \ {c} : pc'[d] = pc[d]
  BY <1>2 DEF TypeOK, Await, vars
<1>3. CASE OpenAnswers(c)
  <2>1. pc[c] = "open" /\ ((\E result : EndWork(c, result) \/ Close(c, result)) \/ Await(c, "stat"))
    BY <1>3 DEF OpenAnswers
  <2>. QED  BY <1>1, <1>2, <2>1 DEF CallAdvances, CallPhases
<1>4. CASE StatAnswers(c)
  <2>1. pc[c] = "stat" /\ ((\E result : EndWork(c, result) \/ Close(c, result)) \/ Await(c, "read"))
    BY <1>4 DEF StatAnswers
  <2>. QED  BY <1>1, <1>2, <2>1 DEF CallAdvances, CallPhases
<1>5. CASE ReadAnswers(c)
  <2>1. pc[c] = "read" /\ ((\E result : EndWork(c, result) \/ Close(c, result)) \/ Await(c, "read"))
    BY <1>5 DEF ReadAnswers
  <2>. QED  BY <1>1, <1>2, <2>1 DEF CallAdvances, CallPhases
<1>6. CASE CloseAnswers(c)
  <2>1. PICK result : EndWork(c, result)
    BY <1>6 DEF CloseAnswers
  <2>2. pc[c] = "close" /\ pc'[c] = "settling"
    BY <1>6, <2>1 DEF CloseAnswers, EndWork, TypeOK
  <2>. QED  BY <1>1, <2>1, <2>2 DEF CallAdvances, CallPhases
<1>. QED  BY <1>3, <1>4, <1>5, <1>6 DEF FileAnswers

\* A call of the issuer takes at most six steps and one answer, whatever its file, its
\* timer and the other calls do: nothing goes round in a circle.
THEOREM NoIssueStepRepeats == Spec => [][EveryIssueStepAdvances]_vars
<1>1. ASSUME TypeOK, NEW c \in Calls, Refuse(c) \/ StartFile(c) \/ StartBytes(c) \/ Settle(c)
      PROVE  CallAdvances(c)
  <2>1. CASE Refuse(c) \/ Settle(c)
    <3>1. /\ pc' = [pc EXCEPT ![c] = "done"] /\ pc[c] \in {"idle", "settling"} /\ now' = now
          /\ \E result : Publish(c, result)
      BY <2>1 DEF Refuse, Settle, Withdraw
    <3>2. \A d \in Calls \ {c} : answer'[d] = answer[d]
      BY <1>1, <3>1 DEF Publish, TypeOK
    <3>. QED  BY <1>1, <3>1, <3>2 DEF TypeOK, CallAdvances, CallPhases
  <2>2. CASE StartFile(c) \/ StartBytes(c)
    <3>1. /\ pc' = [pc EXCEPT ![c] = "open"] \/ pc' = [pc EXCEPT ![c] = "settling"]
          /\ pc[c] = "idle" /\ now' = now /\ answer' = answer
      BY <2>2 DEF StartFile, StartBytes
    <3>. QED  BY <1>1, <3>1 DEF TypeOK, CallAdvances, CallPhases
  <2>. QED  BY <1>1, <2>1, <2>2
<1>2. ASSUME TypeOK, NEW c \in Calls, TimerFires(c) PROVE CallAdvances(c)
  BY <1>2 DEF TimerFires, Publish, TypeOK, CallAdvances
<1>3. ASSUME TypeOK, [Next]_vars PROVE [EveryIssueStepAdvances]_vars
  <2>1. CASE Tick
    BY <2>1 DEF Tick, EveryIssueStepAdvances
  <2>. QED  BY <1>1, <1>2, <1>3, <2>1, FileAdvances DEF Next, EveryIssueStepAdvances
<1>. QED  BY <1>3, TypeCorrect, PTL DEF Spec
=============================================================================
