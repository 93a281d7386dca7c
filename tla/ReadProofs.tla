------------------------------ MODULE ReadProofs ------------------------------
(***************************************************************************)
(* Proofs about the parts of a Read: the Host's gate (HostReadGate), a     *)
(* Read from a package set (PackageSetRead) and the budget of an answer    *)
(* (ReadBudget), for any Reads, operations, epochs, times, provider        *)
(* answers, budgets and projections.                                       *)
(*                                                                         *)
(* HostReadGate: a handle a Read presented stays that of a delivered Read, *)
(* and the denials it started with stand unless an answer lifts them.      *)
(* PackageSetRead: a Read that goes on met nothing but allows.             *)
(* ReadBudget: every figure on record was told of a projection of which    *)
(* fewer handles were found than there are.                                *)
(***************************************************************************)
EXTENDS HostReadGate, PackageSetRead, ReadBudget, FiniteSetTheorems, TLAPS

Minted == {"delivering", "ready", "undelivered"}

\* A Read has its handles' window from the disclosure it was let through to.
MintedByDisclosure == \A r \in Reads :
  /\ fresh[r] # NoAnswer <=> pc[r] \in Minted
  /\ fresh[r] # NoAnswer => fresh[r] \in Windows /\ fresh[r].now < fresh[r].expires

\* What an admitted Read expands was delivered, under its own operation.
AdmittedHandle == \A r \in Reads :
  pc[r] \in {"gate1", "gate2"} \cup Minted /\ handle[r] # NoHandle =>
    /\ handle[r] \in Reads /\ pc[handle[r]] = "ready"
    /\ op[r] # Public => op[handle[r]] = op[r]

BarredIsDenied == \A r \in Reads : barred[r] \subseteq denied

IInv ==
  /\ TypeOK /\ MintedByDisclosure
  /\ HandlesWereDelivered /\ AdmittedHandle
  /\ ExpansionStaysInWindow
  /\ BarredIsDenied /\ StandingDenialBars

LEMMA Initially == Init => IInv
<1> SUFFICES ASSUME Init PROVE IInv OBVIOUS
<1> USE ConstantsAssumption DEF Init
<1>1. TypeOK
  BY DEF TypeOK
<1>2. MintedByDisclosure /\ HandlesWereDelivered /\ AdmittedHandle
  BY DEF MintedByDisclosure, HandlesWereDelivered, AdmittedHandle, Minted
<1>3. ExpansionStaysInWindow /\ BarredIsDenied /\ StandingDenialBars
  BY DEF ExpansionStaysInWindow, BarredIsDenied, StandingDenialBars
<1> QED BY <1>1, <1>2, <1>3 DEF IInv

-----------------------------------------------------------------------------
(* Steps that only move one Read on                                         *)

\* A Read ends, or passes admission with a handle that was honoured.
LEMMA MovesOn ==
  ASSUME IInv, NEW r \in Reads,
         NEW where \in {"gate1", "rejected", "undelivered"},
         pc' = [pc EXCEPT ![r] = where],
         UNCHANGED <<denied, registered, owners, op, handle, fresh, barred>>,
         where = "undelivered" => pc[r] = "delivering",
         where # "undelivered" => pc[r] \in {"admitting", "gate1", "gate2"},
         where = "gate1" /\ handle[r] # NoHandle => Honoured(r, handle[r])
  PROVE  IInv'
<1> USE DEF IInv
<1>1. TypeOK'
  BY DEF TypeOK
<1>2. MintedByDisclosure'
  BY DEF TypeOK, MintedByDisclosure, Minted
<1>3. HandlesWereDelivered'
  BY DEF TypeOK, HandlesWereDelivered
<1>4. AdmittedHandle'
  <2>1. ASSUME where = "gate1", handle[r] # NoHandle
        PROVE  handle[r] \in Reads /\ pc[handle[r]] = "ready"
               /\ (op[r] # Public => op[handle[r]] = op[r])
    BY <2>1 DEF Honoured, HandlesWereDelivered, TypeOK
  <2>2. \A q \in Reads : pc[q] = "ready" => pc'[q] = "ready"
    BY DEF TypeOK
  <2> QED BY <2>1, <2>2 DEF AdmittedHandle, TypeOK, Minted
<1>5. ExpansionStaysInWindow'
  BY DEF ExpansionStaysInWindow, TypeOK, AdmittedHandle, MintedByDisclosure, Minted
<1>6. BarredIsDenied' /\ StandingDenialBars'
  BY DEF BarredIsDenied, StandingDenialBars, TypeOK
<1> QED BY <1>1, <1>2, <1>3, <1>4, <1>5, <1>6

LEMMA StartKeeps == ASSUME IInv, NEW r \in Reads, Start(r) PROVE IInv'
<1> USE DEF IInv
<1>1. /\ pc[r] = "idle" /\ pc' = [pc EXCEPT ![r] = "admitting"]
      /\ barred' = [barred EXCEPT ![r] = denied]
      /\ UNCHANGED <<denied, registered, owners, fresh>>
  BY DEF Start
<1>2. PICK o \in Operations \cup {Public}, h \in {NoHandle} \cup Reads :
        op' = [op EXCEPT ![r] = o] /\ handle' = [handle EXCEPT ![r] = h]
  BY DEF Start
<1>3. fresh[r] = NoAnswer /\ r \notin registered \cup owners
  BY <1>1 DEF MintedByDisclosure, HandlesWereDelivered, TypeOK, Minted
<1>4. TypeOK'
  BY <1>1, <1>2 DEF TypeOK
<1>5. MintedByDisclosure' /\ HandlesWereDelivered'
  BY <1>1, <1>3 DEF TypeOK, MintedByDisclosure, HandlesWereDelivered, Minted
<1>6. AdmittedHandle'
  BY <1>1, <1>2 DEF TypeOK, AdmittedHandle, Minted
<1>7. ExpansionStaysInWindow'
  BY <1>1, <1>2, <1>3 DEF TypeOK, ExpansionStaysInWindow
<1>8. BarredIsDenied' /\ StandingDenialBars'
  BY <1>1 DEF TypeOK, BarredIsDenied, StandingDenialBars
<1> QED BY <1>4, <1>5, <1>6, <1>7, <1>8

LEMMA DeliverKeeps == ASSUME IInv, NEW r \in Reads, Deliver(r) PROVE IInv'
<1> USE DEF IInv
<1>1. /\ pc[r] = "delivering" /\ pc' = [pc EXCEPT ![r] = "ready"]
      /\ UNCHANGED <<denied, op, handle, fresh, barred>>
  BY DEF Deliver
<1>2. registered' \subseteq registered \cup {r} /\ owners' \subseteq owners \cup {r}
  BY DEF Deliver, Unexpired
<1>3. TypeOK' /\ HandlesWereDelivered'
  BY <1>1, <1>2 DEF TypeOK, HandlesWereDelivered
<1>4. MintedByDisclosure' /\ AdmittedHandle'
  BY <1>1 DEF TypeOK, MintedByDisclosure, AdmittedHandle, Minted
<1>5. ExpansionStaysInWindow'
  <2>1. \A q \in Reads : pc[q] = "ready" => pc'[q] = "ready"
    BY <1>1 DEF TypeOK
  <2> QED BY <1>1, <2>1 DEF ExpansionStaysInWindow, AdmittedHandle, MintedByDisclosure, TypeOK
<1>6. BarredIsDenied' /\ StandingDenialBars'
  BY <1>1 DEF TypeOK, BarredIsDenied, StandingDenialBars
<1> QED BY <1>3, <1>4, <1>5, <1>6

-----------------------------------------------------------------------------
(* A Host observation                                                       *)

\* An answer lifts for every Read what it lifts from the history.
LEMMA JudgeKeeps ==
  ASSUME IInv, NEW a \in Windows, NEW lift \in BOOLEAN, NEW deny \in BOOLEAN, Judge(a, lift, deny)
  PROVE  /\ denied' \subseteq Epochs /\ barred' \in [Reads -> SUBSET Epochs]
         /\ BarredIsDenied'
         /\ \A q \in Reads : barred'[q] \subseteq barred[q]
<1>1. a.epoch \in Epochs
  BY DEF Windows
<1>2. \A q \in Reads : barred'[q] = IF lift THEN barred[q] \ {a.epoch} ELSE barred[q]
  BY DEF Judge
<1>3. denied' \subseteq Epochs /\ barred' \in [Reads -> SUBSET Epochs]
  BY <1>1 DEF Judge, IInv, TypeOK
<1>4. (IF lift THEN denied \ {a.epoch} ELSE denied) \subseteq denied'
  BY DEF Judge
<1> QED BY <1>2, <1>3, <1>4 DEF IInv, BarredIsDenied

\* The Read goes on to the second observation, or ends.
LEMMA NotYetThrough ==
  ASSUME IInv, NEW r \in Reads, pc[r] \in {"gate1", "gate2"},
         NEW where \in {"gate2", "rejected"}, pc' = [pc EXCEPT ![r] = where],
         denied' \subseteq Epochs, barred' \in [Reads -> SUBSET Epochs], BarredIsDenied',
         \A q \in Reads : barred'[q] \subseteq barred[q],
         UNCHANGED <<registered, owners, op, handle, fresh>>
  PROVE  IInv'
<1> USE DEF IInv
<1>1. TypeOK'
  BY DEF TypeOK
<1>2. MintedByDisclosure' /\ HandlesWereDelivered' /\ AdmittedHandle'
  BY DEF TypeOK, MintedByDisclosure, HandlesWereDelivered, AdmittedHandle, Minted
<1>3. ExpansionStaysInWindow'
  <2>1. \A q \in Reads : pc[q] = "ready" => pc'[q] = "ready"
    BY DEF TypeOK
  <2> QED BY <2>1 DEF ExpansionStaysInWindow, AdmittedHandle, MintedByDisclosure, TypeOK
<1>4. StandingDenialBars'
  BY DEF StandingDenialBars, TypeOK
<1> QED BY <1>1, <1>2, <1>3, <1>4

\* The second observation lets the Read through.
LEMMA Through ==
  ASSUME IInv, NEW r \in Reads, pc[r] = "gate2", NEW a \in Windows, Usable(r, a),
         a.epoch \notin denied', pc' = [pc EXCEPT ![r] = "delivering"],
         fresh' = [fresh EXCEPT ![r] = a],
         denied' \subseteq Epochs, barred' \in [Reads -> SUBSET Epochs], BarredIsDenied',
         \A q \in Reads : barred'[q] \subseteq barred[q],
         UNCHANGED <<registered, owners, op, handle>>
  PROVE  IInv'
<1> USE DEF IInv
<1>1. TypeOK'
  BY DEF TypeOK
<1>2. a # NoAnswer /\ a.now < a.expires
  BY ConstantsAssumption DEF Usable
<1>3. MintedByDisclosure'
  BY <1>2 DEF TypeOK, MintedByDisclosure, Minted
<1>4. \A q \in Reads : pc[q] = "ready" => pc'[q] = "ready" /\ q # r /\ fresh'[q] = fresh[q]
  BY DEF TypeOK
<1>5. HandlesWereDelivered' /\ AdmittedHandle'
  BY <1>4 DEF TypeOK, HandlesWereDelivered, AdmittedHandle, Minted
<1>6. ExpansionStaysInWindow'
  <2> SUFFICES ASSUME NEW q \in Reads, fresh'[q] # NoAnswer, handle[q] # NoHandle
               PROVE  /\ pc'[handle[q]] = "ready"
                      /\ fresh'[q].epoch = fresh'[handle[q]].epoch
                      /\ fresh'[handle[q]].now <= fresh'[q].now
                      /\ fresh'[q].now < fresh'[handle[q]].expires
    BY DEF ExpansionStaysInWindow
  <2>1. handle[q] \in Reads /\ pc[handle[q]] = "ready"
    BY DEF AdmittedHandle, MintedByDisclosure, TypeOK
  <2>2. pc'[handle[q]] = "ready" /\ fresh'[handle[q]] = fresh[handle[q]]
    BY <1>4, <2>1
  <2>3. CASE q = r
    BY <2>2, <2>3 DEF Usable, TypeOK
  <2>4. CASE q # r
    BY <2>2, <2>4 DEF ExpansionStaysInWindow, TypeOK
  <2> QED BY <2>3, <2>4
<1>7. StandingDenialBars'
  BY DEF StandingDenialBars, BarredIsDenied, TypeOK
<1> QED BY <1>1, <1>3, <1>5, <1>6, <1>7

LEMMA ObserveKeeps == ASSUME IInv, NEW r \in Reads, Observe(r) PROVE IInv'
<1>1. PICK a \in Windows, lift \in BOOLEAN, deny \in BOOLEAN :
        /\ Usable(r, a) /\ Judge(a, lift, deny)
        /\ \/ /\ a.epoch \in denied'
              /\ pc' = [pc EXCEPT ![r] = "rejected"]
              /\ UNCHANGED fresh
           \/ /\ a.epoch \notin denied' /\ pc[r] = "gate1"
              /\ pc' = [pc EXCEPT ![r] = "gate2"]
              /\ UNCHANGED fresh
           \/ /\ a.epoch \notin denied' /\ pc[r] = "gate2"
              /\ pc' = [pc EXCEPT ![r] = "delivering"]
              /\ fresh' = [fresh EXCEPT ![r] = a]
  BY DEF Observe
<1>2. pc[r] \in {"gate1", "gate2"} /\ UNCHANGED <<registered, owners, op, handle>>
  BY DEF Observe
<1>3. /\ denied' \subseteq Epochs /\ barred' \in [Reads -> SUBSET Epochs] /\ BarredIsDenied'
      /\ \A q \in Reads : barred'[q] \subseteq barred[q]
  BY <1>1, JudgeKeeps
<1>4. CASE pc' = [pc EXCEPT ![r] = "delivering"] /\ a.epoch \notin denied'
           /\ pc[r] = "gate2" /\ fresh' = [fresh EXCEPT ![r] = a]
  BY <1>1, <1>2, <1>3, <1>4, Through
<1>5. CASE UNCHANGED fresh /\ \E where \in {"gate2", "rejected"} : pc' = [pc EXCEPT ![r] = where]
  BY <1>2, <1>3, <1>5, NotYetThrough
<1> QED BY <1>1, <1>4, <1>5

-----------------------------------------------------------------------------
(* Theorems                                                                 *)

LEMMA Inductive == IInv /\ [Next]_vars => IInv'
<1> SUFFICES ASSUME IInv, [Next]_vars PROVE IInv' OBVIOUS
<1>1. ASSUME NEW r \in Reads, Reject(r) PROVE IInv'
  BY <1>1, MovesOn DEF Reject
<1>2. ASSUME NEW r \in Reads, Admit(r) PROVE IInv'
  BY <1>2, MovesOn DEF Admit
<1>3. ASSUME NEW r \in Reads, FailDelivery(r) PROVE IInv'
  BY <1>3, MovesOn DEF FailDelivery
<1>4. CASE UNCHANGED vars
  BY <1>4 DEF vars, IInv, TypeOK, MintedByDisclosure, HandlesWereDelivered, AdmittedHandle,
              ExpansionStaysInWindow, BarredIsDenied, StandingDenialBars
<1> QED BY <1>1, <1>2, <1>3, <1>4, StartKeeps, ObserveKeeps, DeliverKeeps DEF Next

LEMMA Always == Spec => []IInv
<1> QED BY Initially, Inductive, PTL DEF Spec

\* Every variable keeps its type.
THEOREM TypeCorrect == Spec => []TypeOK
<1>1. IInv => TypeOK BY DEF IInv
<1> QED BY <1>1, Always, PTL

\* A handle is registered only for a Read whose delivery was acknowledged.
THEOREM OnlyDeliveredHandles == Spec => []HandlesWereDelivered
<1>1. IInv => HandlesWereDelivered BY DEF IInv
<1> QED BY <1>1, Always, PTL

\* An expansion discloses in its handle's epoch and lifetime.
THEOREM ExpansionsStayInWindow == Spec => []ExpansionStaysInWindow
<1>1. IInv => ExpansionStaysInWindow BY DEF IInv
<1> QED BY <1>1, Always, PTL

\* A denial that stands since a Read started keeps it from disclosing.
THEOREM StandingDenialsBar == Spec => []StandingDenialBars
<1>1. IInv => StandingDenialBars BY DEF IInv
<1> QED BY <1>1, Always, PTL

\* A protected Read expands only its own operation's handles.
THEOREM HandlesKeepTheirOperation == Spec => []OperationsKeepTheirHandles
<1>1. IInv => OperationsKeepTheirHandles
  BY DEF IInv, MintedByDisclosure, AdmittedHandle, OperationsKeepTheirHandles
<1> QED BY <1>1, Always, PTL

\* The run's invariant of a Host and its Reads (pipeline.js, host-gate.js) holds for any
\* number of Reads, operations and epochs.
THEOREM GateInvariantHolds == Spec => []GateInvariant
<1>1. TypeOK /\ HandlesWereDelivered /\ OperationsKeepTheirHandles /\ ExpansionStaysInWindow => GateInvariant
  BY DEF GateInvariant
<1>. QED  BY <1>1, TypeCorrect, OnlyDeliveredHandles, HandlesKeepTheirOperation, ExpansionsStayInWindow, PTL

-----------------------------------------------------------------------------
(* A Read from a package set                                                *)

Going == {"checking", "observing", "deliver", "sink", "confirming", "confirmed"}

\* A Read that still goes on met nothing but allows, and its sink confirmed before
\* anything that follows the sink.
GoingIsClean == \A r \in SetReads :
  /\ stage[r] \notin {"final", "done"} => failure[r] = "none" /\ ~revoked[r]
  /\ stage[r] \in Going => clean[r]
  /\ stage[r] \in {"confirming", "confirmed"} => sink[r] = "confirmed"

\* A Read has a result once it reached its final section, and a token once it passed it.
ResultsComeLast == \A r \in SetReads :
  /\ stage[r] \notin {"final", "done"} => result[r] = "none" /\ ~hasHandles[r]
  /\ result[r] = "ready" => hasHandles[r]
  /\ token[r] => stage[r] = "done"

\* The clock stands at the newest row, whether its observation was rejected or not.
NewestIsClock == newest = clock

PackageIInv ==
  /\ PackageTypeOK /\ TokenMeansClean /\ RegistrationFollowsConfirmation
  /\ GoingIsClean /\ ResultsComeLast /\ NewestIsClock

\* What no step takes back.
MetStays ==
  /\ clock' >= clock
  /\ \A r \in SetReads :
       /\ revoked[r] => revoked'[r]
       /\ failure[r] # "none" => failure'[r] = failure[r]

LEMMA PackageInitially == ASSUME PackageInit PROVE PackageIInv
<1> USE DEF PackageInit
<1>1. PackageTypeOK
  BY DEF PackageTypeOK
<1>2. TokenMeansClean /\ RegistrationFollowsConfirmation
  BY DEF TokenMeansClean, RegistrationFollowsConfirmation
<1>3. GoingIsClean /\ ResultsComeLast /\ NewestIsClock
  BY DEF GoingIsClean, ResultsComeLast, Going, NewestIsClock
<1> QED BY <1>1, <1>2, <1>3 DEF PackageIInv

\* An observation takes rows no older than the clock, and is recorded for one Read.
LEMMA ObservationMoves ==
  ASSUME PackageTypeOK, NEW r \in SetReads, NEW outcome,
         Observation(r, outcome)
  PROVE  /\ clock' \in RowTimes \cup {0} /\ newest' \in RowTimes \cup {0} /\ clock' >= clock
         /\ newest = clock => newest' = clock'
         /\ clean' \in [SetReads -> BOOLEAN]
         /\ \A q \in SetReads \ {r} : clean'[q] = clean[q]
         /\ outcome = "allowed" => clean'[r] = clean[r]
BY RowAssumption DEF PackageTypeOK, Observation

LEMMA NoObservationMoves ==
  ASSUME PackageTypeOK, NoObservation
  PROVE  /\ clock' \in RowTimes \cup {0} /\ newest' \in RowTimes \cup {0} /\ clock' >= clock
         /\ newest = clock => newest' = clock'
         /\ clean' = clean
BY RowAssumption DEF PackageTypeOK, NoObservation

\* A recheck goes on with nothing changed but the clock, or stops with what it met.
Rechecked(r, next, stop) ==
  /\ clock' \in RowTimes \cup {0} /\ newest' \in RowTimes \cup {0} /\ clock' >= clock
  /\ newest = clock => newest' = clock'
  /\ clean' \in [SetReads -> BOOLEAN] /\ revoked' \in [SetReads -> BOOLEAN]
  /\ failure' \in [SetReads -> Causes \cup {"none"}]
  /\ \A q \in SetReads \ {r} :
       clean'[q] = clean[q] /\ failure'[q] = failure[q] /\ revoked'[q] = revoked[q]
  /\ failure[r] # "none" => failure'[r] = failure[r]
  /\ revoked[r] => revoked'[r]
  /\ \/ stage' = [stage EXCEPT ![r] = stop]
     \/ stage' = [stage EXCEPT ![r] = next] /\ UNCHANGED <<failure, revoked>>
        /\ clean'[r] = clean[r]

LEMMA RecheckMoves ==
  ASSUME PackageTypeOK, NEW r \in SetReads, NEW next, NEW stop,
         NEW thrown \in Causes \cup {"none"},
         Recheck(r, next, stop, thrown)
  PROVE  Rechecked(r, next, stop)
<1>1. CASE aborted[r] /\ NoObservation /\ Latch(r, "cancelled") /\ Goes(r, stop)
           /\ UNCHANGED revoked
  BY <1>1, NoObservationMoves DEF Rechecked, Latch, Goes, PackageTypeOK, Causes
<1>2. CASE Observation(r, "allowed") /\ Goes(r, next) /\ UNCHANGED <<failure, revoked>>
  BY <1>2, ObservationMoves DEF Rechecked, Goes, PackageTypeOK
<1>3. CASE Revokes(r, thrown) /\ Goes(r, stop)
  <2>1. /\ failure' \in [SetReads -> Causes \cup {"none"}]
        /\ \A q \in SetReads \ {r} : failure'[q] = failure[q]
        /\ failure[r] # "none" => failure'[r] = failure[r]
    BY <1>3 DEF Revokes, Latch, PackageTypeOK, Causes
  <2> QED BY <1>3, <2>1, ObservationMoves DEF Revokes, Rechecked, Goes, PackageTypeOK
<1>4. ASSUME NEW code \in {"provider_failed", "provider_observation_invalid"},
             Observation(r, code), Latch(r, code), Goes(r, stop),
             UNCHANGED revoked
      PROVE  Rechecked(r, next, stop)
  BY <1>4, ObservationMoves DEF Rechecked, Latch, Goes, PackageTypeOK, Causes
<1> QED BY <1>1, <1>2, <1>3, <1>4 DEF Recheck

-----------------------------------------------------------------------------
(* One lemma for each step of a Read                                        *)

LEMMA PackageStartKeeps ==
  ASSUME PackageIInv, NEW r \in SetReads,
         StartPackageRead(r) PROVE PackageIInv' /\ MetStays
<1> USE DEF PackageIInv, PackageTypeOK
<1>1. /\ clock' \in RowTimes \cup {0} /\ newest' \in RowTimes \cup {0} /\ clock' >= clock
      /\ newest = clock => newest' = clock'
      /\ clean' \in [SetReads -> BOOLEAN]
      /\ \A q \in SetReads \ {r} : clean'[q] = clean[q]
  BY ObservationMoves, NoObservationMoves DEF StartPackageRead
<1>2. /\ stage[r] = "idle"
      /\ UNCHANGED <<round, aborted, revoked, sink, hasHandles, result, token>>
      /\ \/ stage' = [stage EXCEPT ![r] = "admitting"] /\ UNCHANGED failure
         \/ /\ stage' = [stage EXCEPT ![r] = "done"]
            /\ UNCHANGED failure \/ \E code \in Causes : Latch(r, code)
  BY DEF StartPackageRead, At, Goes, Causes
<1>3. PackageTypeOK'
  BY <1>1, <1>2 DEF Latch, Causes
<1>4. TokenMeansClean' /\ RegistrationFollowsConfirmation'
  BY <1>1, <1>2 DEF TokenMeansClean, RegistrationFollowsConfirmation, ResultsComeLast, Latch
<1>5. GoingIsClean' /\ ResultsComeLast'
  BY <1>1, <1>2 DEF GoingIsClean, ResultsComeLast, Going, Latch
<1>6. MetStays /\ NewestIsClock'
  BY <1>1, <1>2 DEF MetStays, Latch, NewestIsClock
<1> QED BY <1>3, <1>4, <1>5, <1>6

LEMMA AdmittedKeeps ==
  ASSUME PackageIInv, NEW r \in SetReads,
         Admitted(r) PROVE PackageIInv' /\ MetStays
<1> USE NoObservationMoves DEF PackageIInv, PackageTypeOK
<1>1. /\ stage[r] = "admitting" /\ NoObservation
      /\ UNCHANGED <<round, aborted, revoked, sink, hasHandles, token>>
  BY DEF Admitted, At
<1>2. \/ /\ stage' = [stage EXCEPT ![r] = "done"] /\ UNCHANGED result
         /\ UNCHANGED failure \/ Latch(r, "provider_invalid")
      \/ /\ clean[r] /\ stage' = [stage EXCEPT ![r] = "checking"]
         /\ UNCHANGED <<failure, result>>
      \/ /\ stage' = [stage EXCEPT ![r] = "final"] /\ UNCHANGED failure
         /\ result' = [result EXCEPT ![r] = "refused"]
  BY DEF Admitted, Goes
<1>3. PackageTypeOK'
  BY <1>1, <1>2 DEF Latch, Causes
<1>4. TokenMeansClean' /\ RegistrationFollowsConfirmation'
  BY <1>1, <1>2 DEF TokenMeansClean, RegistrationFollowsConfirmation, ResultsComeLast, Latch
<1>5. GoingIsClean' /\ ResultsComeLast'
  BY <1>1, <1>2 DEF GoingIsClean, ResultsComeLast, Going, Latch
<1>6. MetStays /\ NewestIsClock'
  BY <1>1, <1>2 DEF MetStays, Latch, NewestIsClock
<1> QED BY <1>3, <1>4, <1>5, <1>6

LEMMA CheckBeforeKeeps ==
  ASSUME PackageIInv, NEW r \in SetReads,
         CheckBefore(r) PROVE PackageIInv' /\ MetStays
<1> USE RecheckMoves DEF PackageIInv, PackageTypeOK, CheckBefore, At, Rechecked, Causes
<1>1. PackageTypeOK'
  OBVIOUS
<1>2. TokenMeansClean' /\ RegistrationFollowsConfirmation'
  BY DEF TokenMeansClean, RegistrationFollowsConfirmation, GoingIsClean, ResultsComeLast, Going
<1>3. GoingIsClean' /\ ResultsComeLast'
  BY DEF GoingIsClean, ResultsComeLast, Going
<1>4. MetStays /\ NewestIsClock'
  BY DEF MetStays, NewestIsClock
<1> QED BY <1>1, <1>2, <1>3, <1>4

LEMMA HostFailsKeeps ==
  ASSUME PackageIInv, NEW r \in SetReads,
         HostFails(r) PROVE PackageIInv' /\ MetStays
<1> USE NoObservationMoves DEF PackageIInv, PackageTypeOK, HostFails, At,
Goes, Latch, Causes
<1>1. PackageTypeOK'
  OBVIOUS
<1>2. TokenMeansClean' /\ RegistrationFollowsConfirmation'
  BY DEF TokenMeansClean, RegistrationFollowsConfirmation, GoingIsClean, ResultsComeLast, Going
<1>3. GoingIsClean' /\ ResultsComeLast'
  BY DEF GoingIsClean, ResultsComeLast, Going
<1>4. MetStays /\ NewestIsClock'
  BY DEF MetStays, NewestIsClock
<1> QED BY <1>1, <1>2, <1>3, <1>4

LEMMA HostAnswersKeeps ==
  ASSUME PackageIInv, NEW r \in SetReads,
         HostAnswers(r) PROVE PackageIInv' /\ MetStays
<1> USE RecheckMoves, ObservationMoves DEF PackageIInv, PackageTypeOK, HostAnswers,
At, Goes, Latch, Causes, Rechecked
<1>1. PackageTypeOK'
  OBVIOUS
<1>2. TokenMeansClean' /\ RegistrationFollowsConfirmation'
  BY DEF TokenMeansClean, RegistrationFollowsConfirmation, GoingIsClean, ResultsComeLast, Going
<1>3. GoingIsClean' /\ ResultsComeLast'
  BY DEF GoingIsClean, ResultsComeLast, Going
<1>4. MetStays /\ NewestIsClock'
  BY DEF MetStays, NewestIsClock
<1> QED BY <1>1, <1>2, <1>3, <1>4

LEMMA PackageDeliverKeeps ==
  ASSUME PackageIInv, NEW r \in SetReads,
         DeliverPackage(r) PROVE PackageIInv' /\ MetStays
<1> USE RecheckMoves, ObservationMoves DEF PackageIInv, PackageTypeOK, DeliverPackage,
At, Goes, Latch, Causes, Rechecked
<1>1. PackageTypeOK'
  OBVIOUS
<1>2. TokenMeansClean' /\ RegistrationFollowsConfirmation'
  BY DEF TokenMeansClean, RegistrationFollowsConfirmation, GoingIsClean, ResultsComeLast, Going
<1>3. GoingIsClean' /\ ResultsComeLast'
  BY DEF GoingIsClean, ResultsComeLast, Going
<1>4. MetStays /\ NewestIsClock'
  BY DEF MetStays, NewestIsClock
<1> QED BY <1>1, <1>2, <1>3, <1>4

LEMMA SinkAnswersKeeps ==
  ASSUME PackageIInv, NEW r \in SetReads,
         SinkAnswers(r) PROVE PackageIInv' /\ MetStays
<1> USE RecheckMoves, NoObservationMoves DEF PackageIInv, PackageTypeOK, SinkAnswers,
At, Goes, Latch, Causes, Rechecked
<1>1. PackageTypeOK'
  OBVIOUS
<1>2. TokenMeansClean' /\ RegistrationFollowsConfirmation'
  BY DEF TokenMeansClean, RegistrationFollowsConfirmation, GoingIsClean, ResultsComeLast, Going
<1>3. GoingIsClean' /\ ResultsComeLast'
  BY DEF GoingIsClean, ResultsComeLast, Going
<1>4. MetStays /\ NewestIsClock'
  BY DEF MetStays, NewestIsClock
<1> QED BY <1>1, <1>2, <1>3, <1>4

LEMMA HostConfirmsKeeps ==
  ASSUME PackageIInv, NEW r \in SetReads,
         HostConfirms(r) PROVE PackageIInv' /\ MetStays
<1> USE RecheckMoves, NoObservationMoves DEF PackageIInv, PackageTypeOK, HostConfirms,
At, Goes, Latch, Causes, Rechecked
<1>1. PackageTypeOK'
  OBVIOUS
<1>2. TokenMeansClean' /\ RegistrationFollowsConfirmation'
  BY DEF TokenMeansClean, RegistrationFollowsConfirmation, GoingIsClean, ResultsComeLast, Going
<1>3. GoingIsClean' /\ ResultsComeLast'
  BY DEF GoingIsClean, ResultsComeLast, Going
<1>4. MetStays /\ NewestIsClock'
  BY DEF MetStays, NewestIsClock
<1> QED BY <1>1, <1>2, <1>3, <1>4

LEMMA RegisterKeeps ==
  ASSUME PackageIInv, NEW r \in SetReads,
         Register(r) PROVE PackageIInv' /\ MetStays
<1> USE NoObservationMoves DEF PackageIInv, PackageTypeOK, Register, At,
Goes
<1>1. PackageTypeOK'
  OBVIOUS
<1>2. TokenMeansClean' /\ RegistrationFollowsConfirmation'
  BY DEF TokenMeansClean, RegistrationFollowsConfirmation, GoingIsClean, ResultsComeLast, Going
<1>3. GoingIsClean' /\ ResultsComeLast'
  BY DEF GoingIsClean, ResultsComeLast, Going
<1>4. MetStays /\ NewestIsClock'
  BY DEF MetStays, NewestIsClock
<1> QED BY <1>1, <1>2, <1>3, <1>4

LEMMA FinishKeeps ==
  ASSUME PackageIInv, NEW r \in SetReads,
         FinishPackageRead(r) PROVE PackageIInv' /\ MetStays
<1> USE ObservationMoves, NoObservationMoves DEF PackageIInv, PackageTypeOK, FinishPackageRead,
Successful, At, Goes, Latch, Causes
<1>1. PackageTypeOK'
  OBVIOUS
<1>2. TokenMeansClean' /\ RegistrationFollowsConfirmation'
  BY DEF TokenMeansClean, RegistrationFollowsConfirmation, GoingIsClean, ResultsComeLast, Going
<1>3. GoingIsClean' /\ ResultsComeLast'
  BY DEF GoingIsClean, ResultsComeLast, Going
<1>4. MetStays /\ NewestIsClock'
  BY DEF MetStays, NewestIsClock
<1> QED BY <1>1, <1>2, <1>3, <1>4

LEMMA AbortKeeps ==
  ASSUME PackageIInv, NEW r \in SetReads,
         Abort(r) PROVE PackageIInv' /\ MetStays
<1> USE NoObservationMoves DEF PackageIInv, PackageTypeOK, Abort
<1>1. PackageTypeOK'
  OBVIOUS
<1>2. TokenMeansClean' /\ RegistrationFollowsConfirmation'
  BY DEF TokenMeansClean, RegistrationFollowsConfirmation, GoingIsClean, ResultsComeLast, Going
<1>3. GoingIsClean' /\ ResultsComeLast'
  BY DEF GoingIsClean, ResultsComeLast, Going
<1>4. MetStays /\ NewestIsClock'
  BY DEF MetStays, NewestIsClock
<1> QED BY <1>1, <1>2, <1>3, <1>4

LEMMA PackageInductive ==
  ASSUME PackageIInv, [PackageNext]_packageVars
  PROVE  PackageIInv' /\ MetStays
<1>1. CASE UNCHANGED packageVars
  <2>1. PackageIInv'
    BY <1>1 DEF packageVars, PackageIInv, PackageTypeOK, TokenMeansClean,
         RegistrationFollowsConfirmation, GoingIsClean, ResultsComeLast, NewestIsClock
  <2>2. MetStays
    BY <1>1, RowAssumption DEF packageVars, MetStays, PackageIInv, PackageTypeOK
  <2> QED BY <2>1, <2>2
<1>2. ASSUME NEW r \in SetReads, StartPackageRead(r) \/ PackageStep(r) \/ Abort(r)
      PROVE  PackageIInv' /\ MetStays
  BY <1>2, PackageStartKeeps, AdmittedKeeps, CheckBeforeKeeps, HostFailsKeeps,
       HostAnswersKeeps, PackageDeliverKeeps, SinkAnswersKeeps, HostConfirmsKeeps,
       RegisterKeeps, FinishKeeps, AbortKeeps DEF PackageStep
<1> QED BY <1>1, <1>2 DEF PackageNext

\* A token, a registration and a result of a package-set Read mean what they say, for
\* any Reads under one provider (PackageInvariant).
THEOREM PackageInvariantHolds == PackageSpec => []PackageInvariant
<1>1. PackageInit => PackageIInv
  BY PackageInitially
<1>2. PackageIInv /\ [PackageNext]_packageVars => PackageIInv'
  BY PackageInductive
<1>3. PackageIInv => PackageInvariant
  BY DEF PackageIInv, PackageInvariant
<1> QED BY <1>1, <1>2, <1>3, PTL DEF PackageSpec

\* The decision and the first failure a Read latched stay what it reports, and no Read
\* takes a member row older than one already taken, by a rejected observation too,
\* whatever else the Reads of one provider meet (WhatWasMetStays).
THEOREM WhatWasMetStaysHolds == PackageSpec => WhatWasMetStays
<1>1. PackageInit => PackageIInv
  BY PackageInitially
<1>2. PackageIInv /\ [PackageNext]_packageVars => PackageIInv'
  BY PackageInductive
<1>3. PackageIInv /\ [PackageNext]_packageVars =>
        [\A r \in SetReads :
           /\ revoked[r] => revoked'[r]
           /\ failure[r] # "none" => failure'[r] = failure[r]]_packageVars
  BY PackageInductive DEF MetStays
<1>4. PackageIInv /\ [PackageNext]_packageVars => [clock' # clock => clock' >= newest]_packageVars
  BY PackageInductive DEF MetStays, PackageIInv, NewestIsClock
<1>5. PackageSpec => FirstCauseStays
  BY <1>1, <1>2, <1>3, PTL DEF PackageSpec, FirstCauseStays
<1>6. PackageSpec => MemberTimeNeverGoesBack
  BY <1>1, <1>2, <1>4, PTL DEF PackageSpec, MemberTimeNeverGoesBack
<1> QED BY <1>5, <1>6 DEF WhatWasMetStays

-----------------------------------------------------------------------------
(* Every Read from a package set returns                                    *)

\* How many answers a Read still waits for, at most; the Host is observed twice.
Remaining == [done |-> 0, final |-> 1, confirmed |-> 2, confirming |-> 3, sink |-> 4,
              deliver |-> 5, observing |-> 6, checking |-> 7, admitting |-> 10, idle |-> 11]
StepsLeft == [r \in SetReads |->
  IF stage[r] \in {"observing", "checking"} /\ round[r] = 1 THEN Remaining[stage[r]] + 2
  ELSE Remaining[stage[r]]]

PackageWaits(r) == stage[r] \notin {"idle", "done"}

LEMMA StepsLeftType ==
  ASSUME PackageTypeOK, NEW r \in SetReads
  PROVE  /\ StepsLeft[r] \in 0..11
         /\ StepsLeft[r] = 11 <=> stage[r] = "idle"
         /\ StepsLeft[r] = 0 <=> stage[r] = "done"
BY DEF StepsLeft, Remaining, PackageTypeOK

\* Each answer takes a Read nearer to its end: no recheck and no second observation is
\* entered twice.
LEMMA PackageStepAdvances ==
  ASSUME PackageTypeOK, NEW r \in SetReads, PackageStep(r)
  PROVE  StepsLeft'[r] < StepsLeft[r] /\ \A q \in SetReads \ {r} : StepsLeft'[q] = StepsLeft[q]
<1> USE DEF PackageTypeOK, Remaining
<1>0. \A next, stop, thrown : Recheck(r, next, stop, thrown) => Goes(r, next) \/ Goes(r, stop)
  BY DEF Recheck
<1>1. CASE Admitted(r)
  BY <1>1 DEF Admitted, At, Goes, StepsLeft
<1>2. CASE CheckBefore(r)
  BY <1>2, <1>0 DEF CheckBefore, At, Goes, StepsLeft
<1>3. CASE HostFails(r)
  BY <1>3 DEF HostFails, At, Goes, StepsLeft
<1>4. CASE HostAnswers(r)
  <2>1. /\ stage[r] = "observing" /\ round' = [round EXCEPT ![r] = 2]
        /\ \/ stage' = [stage EXCEPT ![r] = IF round[r] = 1 THEN "checking" ELSE "deliver"]
           \/ stage' = [stage EXCEPT ![r] = "final"]
    BY <1>4, <1>0 DEF HostAnswers, At, Goes
  <2> QED BY <2>1 DEF StepsLeft
<1>5. CASE DeliverPackage(r)
  BY <1>5, <1>0 DEF DeliverPackage, At, Goes, StepsLeft
<1>6. CASE SinkAnswers(r)
  BY <1>6, <1>0 DEF SinkAnswers, At, Goes, StepsLeft
<1>7. CASE HostConfirms(r)
  BY <1>7, <1>0 DEF HostConfirms, At, Goes, StepsLeft
<1>8. CASE Register(r)
  BY <1>8 DEF Register, At, Goes, StepsLeft
<1>9. CASE FinishPackageRead(r)
  BY <1>9 DEF FinishPackageRead, At, Goes, StepsLeft
<1> QED BY <1>1, <1>2, <1>3, <1>4, <1>5, <1>6, <1>7, <1>8, <1>9 DEF PackageStep

\* Nothing takes a Read back: not another Read, and not an abort.
LEMMA PackageNeverGoesBack ==
  ASSUME PackageTypeOK, PackageTypeOK', NEW r \in SetReads, [PackageNext]_packageVars
  PROVE  StepsLeft'[r] <= StepsLeft[r]
<1>0. StepsLeft[r] \in 0..11 /\ StepsLeft'[r] \in 0..11
  BY StepsLeftType DEF StepsLeft, Remaining, PackageTypeOK
<1>1. CASE UNCHANGED packageVars
  BY <1>0, <1>1 DEF packageVars, StepsLeft
<1>2. ASSUME NEW q \in SetReads, StartPackageRead(q) PROVE StepsLeft'[r] <= StepsLeft[r]
  BY <1>2 DEF StartPackageRead, At, Goes, StepsLeft, Remaining, PackageTypeOK
<1>3. ASSUME NEW q \in SetReads, PackageStep(q) PROVE StepsLeft'[r] <= StepsLeft[r]
  <2>1. StepsLeft'[q] < StepsLeft[q] /\ \A p \in SetReads \ {q} : StepsLeft'[p] = StepsLeft[p]
    BY <1>3, PackageStepAdvances
  <2> QED BY <2>1, <1>0
<1>4. ASSUME NEW q \in SetReads, Abort(q) PROVE StepsLeft'[r] <= StepsLeft[r]
  BY <1>0, <1>4 DEF Abort, StepsLeft
<1> QED BY <1>1, <1>2, <1>3, <1>4 DEF PackageNext

\* A waiting Read has a step: this assignment of every variable, in which whatever the
\* Read waits for fails.
PackageFails(r) ==
  /\ stage' = [stage EXCEPT ![r] = IF @ \in {"admitting", "final"} THEN "done" ELSE "final"]
  /\ clean' = [clean EXCEPT ![r] =
       @ /\ ~(stage[r] \in {"checking", "deliver", "final"} /\ ~aborted[r])]
  /\ failure' = [failure EXCEPT ![r] =
       IF @ # "none" \/ stage[r] \in {"admitting", "observing", "confirmed"} THEN @
       ELSE IF stage[r] = "sink" THEN "delivery_unconfirmed"
       ELSE IF stage[r] = "confirming" THEN "provider_failed"
       ELSE IF aborted[r] THEN "cancelled"
       ELSE IF stage[r] = "final" THEN @ ELSE "provider_failed"]
  /\ sink' = [sink EXCEPT ![r] = IF stage[r] = "sink" THEN "invoked" ELSE @]
  /\ hasHandles' = [hasHandles EXCEPT ![r] = @ \/ stage[r] = "confirmed"]
  /\ result' = [result EXCEPT ![r] =
       IF stage[r] \in {"admitting", "final"} THEN @
       ELSE IF stage[r] = "confirmed" THEN "ready" ELSE "transport_failure"]
  /\ UNCHANGED <<clock, newest, round, aborted, revoked, token>>

LEMMA PackageHasAStep ==
  ASSUME PackageTypeOK, NewestIsClock, NEW r \in SetReads, PackageWaits(r), PackageFails(r)
  PROVE  <<PackageStep(r)>>_packageVars
<1> USE RowAssumption DEF PackageTypeOK, NewestIsClock, PackageFails
<1>0. stage'[r] # stage[r] /\ stage' # stage
  BY DEF PackageWaits
<1>1. CASE stage[r] = "admitting"
  <2>1. NoObservation /\ UNCHANGED <<failure, sink, hasHandles, result>> /\ Goes(r, "done")
    BY <1>1 DEF NoObservation, Goes
  <2> QED BY <1>0, <1>1, <2>1 DEF Admitted, At, PackageStep, packageVars
<1>2. CASE stage[r] \in {"checking", "deliver"}
  <2>1. Recheck(r, "observing", "final", "provider_observation_invalid") /\ Recheck(r, "sink", "final", "none")
    <3>1. CASE aborted[r]
      BY <1>2, <3>1 DEF Recheck, NoObservation, Latch, Goes
    <3>2. CASE ~aborted[r]
      <4>1. Observation(r, "provider_failed") /\ Latch(r, "provider_failed") /\ Goes(r, "final")
        BY <1>2, <3>2 DEF Observation, Latch, Goes
      <4> QED BY <3>2, <4>1 DEF Recheck
    <3> QED BY <3>1, <3>2
  <2>2. /\ result' = [result EXCEPT ![r] = IF stage'[r] = "final" THEN "transport_failure" ELSE @]
        /\ UNCHANGED <<sink, hasHandles>>
    BY <1>2
  <2>3. CheckBefore(r) \/ DeliverPackage(r)
    BY <1>2, <2>1, <2>2 DEF CheckBefore, DeliverPackage, At
  <2> QED BY <1>0, <2>3 DEF PackageStep, packageVars
<1>3. CASE stage[r] = "observing"
  <2>1. HostFails(r)
    BY <1>3 DEF HostFails, At, NoObservation, Goes
  <2> QED BY <1>0, <2>1 DEF PackageStep, packageVars
<1>4. CASE stage[r] = "sink"
  <2>1. SinkAnswers(r)
    BY <1>4 DEF SinkAnswers, At, NoObservation, Goes, Latch
  <2> QED BY <1>0, <2>1 DEF PackageStep, packageVars
<1>5. CASE stage[r] = "confirming"
  <2>1. HostConfirms(r)
    BY <1>5 DEF HostConfirms, At, NoObservation, Goes, Latch
  <2> QED BY <1>0, <2>1 DEF PackageStep, packageVars
<1>6. CASE stage[r] = "confirmed"
  <2>1. Register(r)
    BY <1>6 DEF Register, At, NoObservation, Goes
  <2> QED BY <1>0, <2>1 DEF PackageStep, packageVars
<1>7. CASE stage[r] = "final"
  <2>1. FinishPackageRead(r)
    <3>1. CASE aborted[r]
      BY <1>7, <3>1 DEF FinishPackageRead, At, NoObservation, Goes, Latch
    <3>2. CASE ~aborted[r]
      <4>1. Observation(r, "provider_failed") /\ UNCHANGED <<failure, sink, hasHandles, result>>
        BY <1>7, <3>2 DEF Observation
      <4> QED BY <1>7, <3>2, <4>1 DEF FinishPackageRead, At, Goes
    <3> QED BY <3>1, <3>2
  <2> QED BY <1>0, <2>1 DEF PackageStep, packageVars
<1> QED BY <1>1, <1>2, <1>3, <1>4, <1>5, <1>6, <1>7 DEF PackageWaits

\* PackageHasAStep in the words of fairness.
PackageGoesOn(r) == PackageWaits(r) => ENABLED <<PackageStep(r)>>_packageVars

\* Whenever m answers or fewer are left, n or fewer are left some time.
PackageComesTo(r, m, n) ==
  PackageSpec /\ WF_packageVars(PackageStep(r)) /\ []PackageGoesOn(r)
    => (StepsLeft[r] <= m ~> StepsLeft[r] <= n)

LEMMA PackageComesNearer ==
  ASSUME NEW r \in SetReads, NEW m \in 1..10, NEW n \in 0..9, m = n + 1
  PROVE  PackageComesTo(r, m, n)
<1> DEFINE Far == StepsLeft[r] <= m
           Near == StepsLeft[r] <= n
           Enabled == ENABLED <<PackageStep(r)>>_packageVars
<1>1. PackageTypeOK /\ Far /\ ~Near => PackageWaits(r)
  BY StepsLeftType DEF PackageWaits
<1>2. PackageTypeOK /\ PackageTypeOK' => StepsLeft[r] \in 0..11 /\ StepsLeft'[r] \in 0..11
  BY StepsLeftType DEF StepsLeft, Remaining, PackageTypeOK
<1>3. PackageTypeOK /\ PackageTypeOK' /\ Far /\ [PackageNext]_packageVars => Far'
  BY <1>2, PackageNeverGoesBack
<1>4. PackageTypeOK /\ PackageTypeOK' /\ Far /\ <<PackageStep(r)>>_packageVars => Near'
  BY <1>2, PackageStepAdvances
<1>5. PackageSpec => []PackageTypeOK
  <2>1. PackageInvariant => PackageTypeOK
    BY DEF PackageInvariant
  <2> QED BY <2>1, PackageInvariantHolds, PTL
<1>6. PackageGoesOn(r) /\ PackageWaits(r) => Enabled
  BY DEF PackageGoesOn
<1> HIDE DEF Near, Far
<1>7. PackageSpec /\ WF_packageVars(PackageStep(r)) /\ []PackageGoesOn(r) => (Far ~> Near)
  BY <1>1, <1>3, <1>4, <1>5, <1>6, PTL DEF PackageSpec
<1> QED BY <1>7, PTL DEF Near, Far, PackageComesTo

\* A Read from a package set returns, whatever the provider, the Host and the sink answer,
\* provided that they answer, and that fairness counts the step a waiting Read has
\* (PackageHasAStep) as enabled: EveryReadReturns.
THEOREM ReadsFromSetsReturn ==
  FairPackageSpec /\ (\A r \in SetReads : []PackageGoesOn(r)) => EveryReadReturns
<1>1. ASSUME NEW r \in SetReads
      PROVE  PackageSpec /\ WF_packageVars(PackageStep(r)) /\ []PackageGoesOn(r)
             => (stage[r] # "idle" ~> stage[r] = "done")
  <2>1. PackageComesTo(r, 10, 9) /\ PackageComesTo(r, 9, 8) /\ PackageComesTo(r, 8, 7)
    BY PackageComesNearer
  <2>2. PackageComesTo(r, 7, 6) /\ PackageComesTo(r, 6, 5) /\ PackageComesTo(r, 5, 4)
    BY PackageComesNearer
  <2>3. PackageComesTo(r, 4, 3) /\ PackageComesTo(r, 3, 2) /\ PackageComesTo(r, 2, 1)
    BY PackageComesNearer
  <2>4. PackageComesTo(r, 1, 0)
    BY PackageComesNearer
  <2>5. PackageComesTo(r, 10, 0)
    BY <2>1, <2>2, <2>3, <2>4, PTL DEF PackageComesTo
  <2>6. PackageInvariant => (stage[r] # "idle" => StepsLeft[r] <= 10)
    BY StepsLeftType DEF PackageInvariant
  <2>7. PackageInvariant => (StepsLeft[r] <= 0 => stage[r] = "done")
    BY StepsLeftType DEF PackageInvariant
  <2> QED BY <2>5, <2>6, <2>7, PackageInvariantHolds, PTL DEF PackageComesTo
<1> DEFINE Returns(r) == stage[r] # "idle" ~> stage[r] = "done"
           Fair(r) == WF_packageVars(PackageStep(r))
           GoesOn(r) == []PackageGoesOn(r)
<1>2. ASSUME NEW r \in SetReads PROVE PackageSpec /\ Fair(r) /\ GoesOn(r) => Returns(r)
  BY <1>1, PTL
<1>3. FairPackageSpec => PackageSpec /\ \A r \in SetReads : Fair(r)
  BY PTL DEF FairPackageSpec
<1>4. (\A r \in SetReads : Returns(r)) => EveryReadReturns
  BY DEF EveryReadReturns
<1> HIDE DEF Returns, Fair, GoesOn
<1>5. FairPackageSpec /\ (\A r \in SetReads : GoesOn(r)) => EveryReadReturns
  BY <1>2, <1>3, <1>4
<1> QED BY <1>5 DEF GoesOn

-----------------------------------------------------------------------------
(* The budget of an answer                                                  *)

\* A caller that was told a figure.
Told(r) == answer[r].kind = "rejected" /\ answer[r].code = Insufficient

\* The serial its receipt took.
Last(r) == answer[r].serial + body[r].handles + 1

\* What a refusal told, and that the caller asks for nothing else.
ToldFigure == \A r \in Readers :
  /\ Told(r) =>
       /\ answer[r].required =
            ReadyBare(body[r], answer[r].serial) + Width(answer[r].limit) + Padding + Padding
       /\ answer[r].required > answer[r].limit
       /\ Last(r) <= serial
       /\ budget[r] = (IF found[r] = "none" THEN answer[r].required ELSE answer[r].limit)
  /\ found[r] = "none" => Told(r) \/ attempts[r] = 0
  /\ attempts[r] = 0 => answer[r] = Unanswered /\ budget[r] = opening.budget[r]

\* Nothing a caller prints began longer than it is now.
Growing ==
  /\ opening.serial <= serial
  /\ \A r \in Readers : Told(r) =>
       opening.budget[r] <= answer[r].limit /\ opening.serial <= answer[r].serial

\* Each refusal but the first is paid for by a digit the limit gained, or by one that the
\* serials gained on the way to the caller's receipt or to its first handle.
Paid == \A r \in Readers : Told(r) =>
  attempts[r] + Width(opening.budget[r]) + 2 * Width(opening.serial)
    <= 1 + Width(answer[r].limit) + Width(Last(r)) + Width(answer[r].serial + 1)

BudgetIInv == AnswerInvariant /\ ToldFigure /\ Growing /\ Paid /\ RetriesConverge

-----------------------------------------------------------------------------
(* Printed numbers                                                          *)

Powers(n) == {d \in 1..MaxWidth : n >= 10^d}

LEMMA PowersFinite ==
  ASSUME NEW n
  PROVE  IsFiniteSet(Powers(n)) /\ Cardinality(Powers(n)) \in Nat
<1>1. IsFiniteSet(1..MaxWidth)
  BY FS_Interval, BudgetAssumption
<1>2. Powers(n) \in SUBSET (1..MaxWidth)
  BY DEF Powers
<1> QED BY <1>1, <1>2, FS_Subset, FS_CardinalityType

LEMMA WidthIs == ASSUME NEW n PROVE Width(n) = 1 + Cardinality(Powers(n))
BY DEF Width, Powers

LEMMA WidthType == ASSUME NEW n PROVE Width(n) \in Nat
BY PowersFinite, WidthIs

\* A larger number is not shorter.
LEMMA WidthGrows ==
  ASSUME NEW m \in Nat, NEW n \in Nat, m <= n
  PROVE  Width(m) <= Width(n)
<1>1. Powers(m) \in SUBSET Powers(n)
  BY DEF Powers
<1>2. Cardinality(Powers(m)) <= Cardinality(Powers(n))
  BY <1>1, PowersFinite, FS_Subset
<1> QED BY <1>2, PowersFinite, WidthIs

\* A number that is not longer reaches no power of ten that the other does not reach.
LEMMA WidthTells ==
  ASSUME NEW m \in Nat, NEW n \in Nat, Width(m) <= Width(n)
  PROVE  Powers(m) \subseteq Powers(n)
<1>1. CASE m <= n
  BY <1>1 DEF Powers
<1>2. CASE n < m
  <2>1. Powers(n) \in SUBSET Powers(m)
    BY <1>2 DEF Powers
  <2>2. Cardinality(Powers(n)) <= Cardinality(Powers(m))
    BY <2>1, PowersFinite, FS_Subset
  <2>3. Cardinality(Powers(m)) <= Cardinality(Powers(n))
    BY PowersFinite, WidthIs
  <2>4. Cardinality(Powers(m)) = Cardinality(Powers(n))
    BY <2>2, <2>3, PowersFinite
  <2> QED BY <2>1, <2>4, PowersFinite, FS_Subset
<1> QED BY <1>1, <1>2

Reached(b, first) ==
  {p \in b.ids \X (1..MaxWidth) : first + p[1][1] >= 10^p[2]}

LEMMA ReadyBareIs ==
  ASSUME NEW b, NEW first
  PROVE  ReadyBare(b, first) = b.base + Cardinality(b.ids) + Cardinality(Reached(b, first))
BY DEF ReadyBare, Reached

LEMMA ReachedFinite ==
  ASSUME NEW b \in Bodies, NEW first \in Nat
  PROVE  IsFiniteSet(Reached(b, first)) /\ Cardinality(Reached(b, first)) \in Nat
<1>1. 1 \in Int /\ MaxWidth \in Int
  BY BudgetAssumption
<1>2. IsFiniteSet(b.ids) /\ IsFiniteSet(1..MaxWidth)
  BY <1>1, IdsAssumption, FS_Interval
<1>3. IsFiniteSet(b.ids \X (1..MaxWidth))
  BY <1>2, FS_Product
<1>4. Reached(b, first) \in SUBSET (b.ids \X (1..MaxWidth))
  BY DEF Reached
<1> QED BY <1>3, <1>4, FS_Subset, FS_CardinalityType

LEMMA ReadyBareType ==
  ASSUME NEW b \in Bodies, NEW first \in Nat
  PROVE  ReadyBare(b, first) \in Nat
<1>1. b.base \in Nat /\ Cardinality(b.ids) \in Nat
  BY BudgetAssumption, IdsAssumption, FS_CardinalityType
<1> QED BY <1>1, ReachedFinite, ReadyBareIs

\* An envelope that names later serials is no longer, unless the last of them has more
\* digits than the first of the others.
LEMMA ReadyBareGrows ==
  ASSUME NEW b \in Bodies, NEW early \in Nat, NEW late \in Nat,
         Width(late + b.handles + 1) <= Width(early + 1)
  PROVE  ReadyBare(b, late) <= ReadyBare(b, early)
<1>1. b.base \in Nat /\ b.handles \in Nat /\ Cardinality(b.ids) \in Nat
  BY BudgetAssumption, IdsAssumption, FS_CardinalityType
<1>2. Powers(late + b.handles + 1) \subseteq Powers(early + 1)
  BY <1>1, WidthTells
<1>3. ASSUME NEW i \in 1..b.handles + 1, NEW d \in 1..MaxWidth, late + i >= 10^d
      PROVE  early + i >= 10^d
  <2>1. d \in Powers(late + b.handles + 1)
    BY <1>1, <1>3, BudgetAssumption DEF Powers
  <2>2. early + 1 >= 10^d
    BY <1>2, <2>1 DEF Powers
  <2> QED BY <1>1, <2>2, BudgetAssumption
<1>4. Reached(b, late) \in SUBSET Reached(b, early)
  BY <1>3, IdsAssumption DEF Reached
<1>5. Cardinality(Reached(b, late)) <= Cardinality(Reached(b, early))
  BY <1>4, ReachedFinite, FS_Subset
<1> QED BY <1>1, <1>5, ReachedFinite, ReadyBareIs

-----------------------------------------------------------------------------
(* What an attempt is answered                                              *)

\* What is said is what is sent.
Honest(a) ==
  a.kind \in {"ready", "rejected"} => a.length = a.actual /\ a.length <= a.limit

LEMMA ReadyAnswer ==
  ASSUME NEW limit \in Nat, NEW bare \in Nat,
         NEW first \in 0..MaxSerial,
         NEW a, a = Finish(limit, "none", bare, first)
  PROVE  /\ a \in Answers /\ Honest(a) /\ a.serial = first
         /\ \/ a.kind = "ready" /\ a.code = "none"
            \/ /\ a.kind \in {"rejected", "control"} /\ a.code = Insufficient
               /\ bare + Width(limit) + Padding + Padding > limit
               /\ a.kind = "rejected" =>
                    /\ a.limit = limit
                    /\ a.required = bare + Width(limit) + Padding + Padding
<1> DEFINE success == Measure(bare, limit, 0)
           rejection == Measure(RejectedBase, limit, success)
<1>1. /\ Padding \in Nat /\ RejectedBase \in Nat /\ Width(limit) \in Nat
  BY WidthType, BudgetAssumption
<1>2. /\ success \in Nat /\ success = bare + Width(limit) + Padding + Padding
      /\ \A x, y : Length(bare, limit, x, y) = success
      /\ rejection \in Nat /\ \A x, y : Length(RejectedBase, limit, x, y) = rejection
  BY <1>1 DEF Measure, Length, Fixed
<1>3. a = IF success <= limit
          THEN [kind |-> "ready", code |-> "none", limit |-> limit, required |-> success,
                actual |-> success, length |-> success, serial |-> first]
          ELSE IF rejection <= limit
          THEN [kind |-> "rejected", code |-> Insufficient, limit |-> limit,
                required |-> success, actual |-> rejection, length |-> rejection,
                serial |-> first]
          ELSE [kind |-> "control", code |-> Insufficient, limit |-> limit, required |-> 0,
                actual |-> 0, length |-> 0, serial |-> first]
  BY <1>2 DEF Finish, Cause, Required
<1> HIDE DEF success, rejection
<1> QED BY <1>1, <1>2, <1>3 DEF Answers, Honest, Insufficient

LEMMA FailedAnswer ==
  ASSUME NEW limit \in Nat, NEW code \in Codes,
         NEW first \in 0..MaxSerial,
         NEW a, a = Finish(limit, code, 0, first)
  PROVE  /\ a \in Answers /\ Honest(a)
         /\ a.kind \in {"rejected", "control"} /\ a.code = code
<1> DEFINE rejection == Measure(RejectedBase, limit, 0)
<1>1. /\ Padding \in Nat /\ RejectedBase \in Nat /\ Width(limit) \in Nat /\ code # "none"
  BY WidthType, BudgetAssumption
<1>2. rejection \in Nat /\ \A x, y : Length(RejectedBase, limit, x, y) = rejection
  BY <1>1 DEF Measure, Length, Fixed
<1>3. a = IF rejection <= limit
          THEN [kind |-> "rejected", code |-> code, limit |-> limit, required |-> rejection,
                actual |-> rejection, length |-> rejection, serial |-> first]
          ELSE [kind |-> "control", code |-> code, limit |-> limit, required |-> 0,
                actual |-> 0, length |-> 0, serial |-> first]
  BY <1>1, <1>2 DEF Finish, Cause, Required
<1> HIDE DEF rejection
<1> QED BY <1>1, <1>2, <1>3 DEF Answers, Honest

-----------------------------------------------------------------------------
(* The inductive invariant                                                  *)

LEMMA BudgetInitially == ASSUME BudgetInit PROVE BudgetIInv
<1> USE BudgetAssumption DEF BudgetInit
<1>1. BudgetTypeOK
  <2>1. Unanswered \in Answers
    BY BudgetAssumption DEF Unanswered, Answers
  <2>2. serial \in 0..MaxSerial /\ 0 \in 0..MaxAttempts
    BY BudgetAssumption
  <2>3. budget \in [Readers -> Nat] /\ opening \in [budget: [Readers -> Budgets], serial: 0..MaxSerial]
    BY <2>2, BudgetAssumption
  <2> QED BY <2>1, <2>2, <2>3 DEF BudgetTypeOK
<1>2. CountsAreHonest /\ FirstCauseIsNamed
  BY DEF CountsAreHonest, FirstCauseIsNamed, Unanswered
<1>3. ToldFigure /\ Growing /\ Paid
  BY BudgetAssumption DEF ToldFigure, Growing, Paid, Told, Unanswered
<1>4. RetriesConverge
  <2>1. ASSUME NEW r \in Readers
        PROVE  /\ attempts[r] = 0 /\ budget[r] = opening.budget[r] /\ serial = opening.serial
               /\ Width(budget[r]) \in Nat /\ Width(serial) \in Nat
    BY WidthType
  <2> QED BY <2>1 DEF RetriesConverge
<1> QED BY <1>1, <1>2, <1>3, <1>4 DEF BudgetIInv, AnswerInvariant

\* What the attempt of one caller makes of its answer.
Answered(r, a) ==
  /\ found[r] = "none" /\ found' = [found EXCEPT ![r] = found'[r]]
  /\ attempts[r] < MaxAttempts /\ attempts' = [attempts EXCEPT ![r] = @ + 1]
  /\ answer' = [answer EXCEPT ![r] = a] /\ a \in Answers /\ Honest(a)
  /\ serial <= serial' /\ serial' \in 0..MaxSerial
  /\ UNCHANGED <<body, budget, opening>>

\* The length of what a caller would be answered now.
Needed(r) == ReadyBare(body[r], serial) + Width(budget[r]) + Padding + Padding

\* An attempt found its body, and was told at most what that needed.
Judged(r, a) ==
  /\ Answered(r, a) /\ found'[r] = "ready" /\ a.serial = serial
  /\ serial' = serial + body[r].handles + 1
  /\ \/ a.kind = "ready" /\ a.code = "none"
     \/ /\ a.kind \in {"rejected", "control"} /\ a.code = Insufficient
        /\ Needed(r) > budget[r]
        /\ a.kind = "rejected" => a.limit = budget[r] /\ a.required = Needed(r)

LEMMA PrepareJudges ==
  ASSUME BudgetIInv, NEW r \in Readers, Prepare(r)
  PROVE  Judged(r, answer'[r])
<1> DEFINE a == Finish(budget[r], "none", ReadyBare(body[r], serial), serial)
<1>1. /\ budget[r] \in Nat /\ serial \in 0..MaxSerial /\ serial \in Nat /\ body[r] \in Bodies
      /\ body[r].handles \in Nat /\ MaxSerial \in Nat /\ answer \in [Readers -> Answers]
  BY BudgetAssumption DEF BudgetIInv, AnswerInvariant, BudgetTypeOK
<1>2. ReadyBare(body[r], serial) \in Nat
  BY <1>1, ReadyBareType
<1>3. /\ answer' = [answer EXCEPT ![r] = a] /\ answer'[r] = a
      /\ a = Finish(budget[r], "none", ReadyBare(body[r], serial), serial)
  BY <1>1 DEF Prepare
<1> HIDE DEF a
<1>4. /\ a \in Answers /\ Honest(a) /\ a.serial = serial
      /\ \/ a.kind = "ready" /\ a.code = "none"
         \/ /\ a.kind \in {"rejected", "control"} /\ a.code = Insufficient
            /\ Needed(r) > budget[r]
            /\ a.kind = "rejected" => a.limit = budget[r] /\ a.required = Needed(r)
  <2> DEFINE bare == ReadyBare(body[r], serial)
  <2>1. bare \in Nat /\ a = Finish(budget[r], "none", bare, serial)
        /\ Needed(r) = bare + Width(budget[r]) + Padding + Padding
    BY <1>2, <1>3 DEF Needed
  <2> HIDE DEF bare
  <2> QED BY <1>1, <2>1, ReadyAnswer
<1>5. /\ found[r] = "none" /\ found' = [found EXCEPT ![r] = "ready"]
      /\ attempts[r] < MaxAttempts /\ attempts' = [attempts EXCEPT ![r] = @ + 1]
      /\ serial' = serial + body[r].handles + 1 /\ serial' <= MaxSerial
      /\ UNCHANGED <<body, budget, opening>>
  BY DEF Prepare, Attempt
<1>6. found'[r] = "ready"
  BY <1>5 DEF BudgetIInv, AnswerInvariant, BudgetTypeOK
<1>7. serial <= serial' /\ serial' \in 0..MaxSerial
  BY <1>1, <1>5
<1>8. Answered(r, a)
  BY <1>3, <1>4, <1>5, <1>6, <1>7 DEF Answered
<1> QED BY <1>3, <1>4, <1>5, <1>6, <1>8 DEF Judged

LEMMA FailAnswers ==
  ASSUME BudgetIInv, NEW r \in Readers, Fail(r)
  PROVE  /\ Answered(r, answer'[r]) /\ found'[r] \in Codes
         /\ answer'[r].kind \in {"rejected", "control"} /\ answer'[r].code = found'[r]
<1>1. PICK code \in Codes, minted \in 0..body[r].handles :
        /\ Attempt(r, code) /\ serial + minted <= MaxSerial /\ serial' = serial + minted
        /\ answer' = [answer EXCEPT ![r] = Finish(budget[r], code, 0, serial)]
  BY DEF Fail
<1> DEFINE a == Finish(budget[r], code, 0, serial)
<1>2. /\ budget[r] \in Nat /\ serial \in 0..MaxSerial /\ serial \in Nat /\ body[r] \in Bodies
      /\ body[r].handles \in Nat /\ MaxSerial \in Nat /\ answer \in [Readers -> Answers]
  BY BudgetAssumption DEF BudgetIInv, AnswerInvariant, BudgetTypeOK
<1>3. answer' = [answer EXCEPT ![r] = a] /\ answer'[r] = a
  BY <1>1, <1>2
<1>4. a \in Answers /\ Honest(a) /\ a.kind \in {"rejected", "control"} /\ a.code = code
  BY <1>2, FailedAnswer
<1> HIDE DEF a
<1>5. found'[r] = code
  BY <1>1 DEF Attempt, BudgetIInv, AnswerInvariant, BudgetTypeOK
<1>6. serial <= serial' /\ serial' \in 0..MaxSerial
  BY <1>1, <1>2
<1>7. Answered(r, a)
  BY <1>1, <1>3, <1>4, <1>5, <1>6 DEF Answered, Attempt
<1> QED BY <1>3, <1>4, <1>5, <1>7

\* An attempt keeps the answers honest and named.
LEMMA AttemptKeepsAnswers ==
  ASSUME BudgetIInv, NEW r \in Readers, Answered(r, answer'[r]),
         \/ /\ found'[r] = "ready"
            /\ answer'[r].kind # "ready" => answer'[r].code = Insufficient
         \/ found'[r] \in Codes /\ answer'[r].code = found'[r]
  PROVE  AnswerInvariant'
<1> USE DEF BudgetIInv, AnswerInvariant
<1>1. BudgetTypeOK'
  BY BudgetAssumption DEF BudgetTypeOK, Answered
<1>2. CountsAreHonest'
  BY DEF BudgetTypeOK, Answered, CountsAreHonest, Honest
<1>3. FirstCauseIsNamed'
  <2>1. ASSUME NEW q \in Readers \ {r}
        PROVE  found'[q] = found[q] /\ answer'[q] = answer[q]
    BY DEF BudgetTypeOK, Answered
  <2>2. found'[r] \in Codes => found'[r] # "ready"
    BY BudgetAssumption
  <2> QED BY <2>1, <2>2 DEF FirstCauseIsNamed
<1> QED BY <1>1, <1>2, <1>3

\* An attempt keeps what holds of the other callers, whose digits it does not touch.
LEMMA OthersKept ==
  ASSUME BudgetIInv, NEW r \in Readers, Answered(r, answer'[r]),
         NEW q \in Readers \ {r}
  PROVE  /\ Told(q) = Told(q)' /\ Last(q)' = Last(q) /\ found'[q] = found[q]
         /\ answer'[q] = answer[q] /\ attempts'[q] = attempts[q] /\ budget'[q] = budget[q]
BY DEF Answered, Told, Last, BudgetIInv, AnswerInvariant, BudgetTypeOK

\* No attempt of a caller is one too many.
LEMMA AttemptConverges ==
  ASSUME BudgetIInv, NEW r \in Readers, Answered(r, answer'[r])
  PROVE  RetriesConverge'
<1>1. /\ BudgetTypeOK /\ opening.serial \in Nat /\ serial \in Nat /\ serial' \in Nat
      /\ serial <= serial' /\ opening' = opening /\ budget' = budget /\ MaxAttempts \in Nat
      /\ opening.serial <= serial
  BY BudgetAssumption DEF BudgetIInv, AnswerInvariant, BudgetTypeOK, Answered, Growing
<1>2. /\ Width(opening.serial) \in Nat /\ Width(serial) \in Nat
      /\ Width(serial') \in Nat
      /\ Width(opening.serial) <= Width(serial)
      /\ Width(serial) <= Width(serial')
  BY <1>1, WidthType, WidthGrows
<1>3. \A q \in Readers : /\ attempts[q] \in Nat
                         /\ Width(budget[q]) \in Nat /\ Width(opening.budget[q]) \in Nat
  BY <1>1, WidthType, BudgetAssumption DEF BudgetTypeOK
<1>4. ASSUME NEW q \in Readers, q # r
      PROVE  attempts'[q] <= 2 + (Width(budget'[q]) - Width(opening'.budget[q]))
                               + 2 * (Width(serial') - Width(opening'.serial))
  <2>1. attempts'[q] = attempts[q]
    BY <1>4, OthersKept
  <2>2. attempts[q] <= 2 + (Width(budget[q]) - Width(opening.budget[q]))
                         + 2 * (Width(serial) - Width(opening.serial))
    BY DEF BudgetIInv, RetriesConverge
  <2> QED BY <1>1, <1>2, <1>3, <2>1, <2>2
<1>5. attempts'[r] = attempts[r] + 1
  BY <1>1 DEF Answered, BudgetTypeOK
<1>6. CASE attempts[r] = 0
  <2>1. budget[r] = opening.budget[r]
    BY <1>6 DEF BudgetIInv, ToldFigure
  <2> QED BY <1>1, <1>2, <1>3, <1>4, <1>5, <1>6, <2>1 DEF RetriesConverge
<1>7. CASE Told(r)
  <2>1. /\ answer[r].limit < budget[r] /\ answer[r].limit \in Nat /\ budget[r] \in Nat
        /\ answer[r].serial \in Nat /\ body[r].handles \in Nat
        /\ Last(r) <= serial /\ Last(r) \in Nat
        /\ answer[r].serial + 1 <= Last(r)
    BY <1>1, <1>7, BudgetAssumption DEF BudgetIInv, ToldFigure, Answered, BudgetTypeOK,
         Answers, Last
  <2>2. /\ Width(answer[r].limit) <= Width(budget[r])
        /\ Width(Last(r)) <= Width(serial)
        /\ Width(answer[r].serial + 1) <= Width(Last(r))
    BY <1>1, <2>1, WidthGrows
  <2>3. attempts[r] + Width(opening.budget[r]) + 2 * Width(opening.serial)
          <= 1 + Width(answer[r].limit) + Width(Last(r))
            + Width(answer[r].serial + 1)
    BY <1>7 DEF BudgetIInv, Paid
  <2>4. /\ Width(answer[r].limit) \in Nat /\ Width(Last(r)) \in Nat
        /\ Width(answer[r].serial + 1) \in Nat
    BY WidthType
  <2>5. attempts'[r] <= 2 + (Width(budget'[r]) - Width(opening'.budget[r]))
                          + 2 * (Width(serial') - Width(opening'.serial))
    BY <1>1, <1>2, <1>3, <1>5, <2>2, <2>3, <2>4
  <2> QED BY <1>4, <2>5 DEF RetriesConverge
<1> QED BY <1>6, <1>7 DEF BudgetIInv, ToldFigure, Answered

\* A caller that asked for the figure it was told is refused again only for a digit.
LEMMA RefusalNeedsADigit ==
  ASSUME BudgetIInv, NEW r \in Readers, Prepare(r),
         Told(r), answer'[r].code = Insufficient
  PROVE  \/ Width(budget[r]) > Width(answer[r].limit)
         \/ Width(serial') > Width(answer[r].serial + 1)
<1> DEFINE first == answer[r].serial
<1>1. /\ first \in Nat /\ serial \in Nat /\ budget[r] \in Nat /\ body[r] \in Bodies
      /\ Padding \in Nat /\ body[r].handles \in Nat
  BY BudgetAssumption DEF BudgetIInv, AnswerInvariant, BudgetTypeOK, Answers
<1>2. /\ Needed(r) > budget[r] /\ found[r] = "none"
      /\ serial' = serial + body[r].handles + 1
  BY PrepareJudges, BudgetAssumption DEF Judged, Answered, Insufficient
<1>3. budget[r] = ReadyBare(body[r], first) + Width(answer[r].limit) + Padding + Padding
  BY <1>2 DEF BudgetIInv, ToldFigure
<1>4. /\ ReadyBare(body[r], serial) \in Nat /\ ReadyBare(body[r], first) \in Nat
      /\ Width(budget[r]) \in Nat /\ Width(answer[r].limit) \in Nat
      /\ Width(serial') \in Nat /\ Width(first + 1) \in Nat
  BY <1>1, ReadyBareType, WidthType
<1>5. ASSUME Width(budget[r]) <= Width(answer[r].limit),
             Width(serial') <= Width(first + 1)
      PROVE  FALSE
  <2>1. ReadyBare(body[r], serial) <= ReadyBare(body[r], first)
    BY <1>1, <1>2, <1>5, ReadyBareGrows
  <2> QED BY <1>1, <1>2, <1>3, <1>4, <1>5, <2>1 DEF Needed
<1> QED BY <1>4, <1>5

LEMMA PrepareKeeps ==
  ASSUME BudgetIInv, NEW r \in Readers,
         Prepare(r) PROVE BudgetIInv'
<1> DEFINE a == answer'[r]
<1>1. Judged(r, a) /\ Answered(r, a)
  BY PrepareJudges DEF Judged
<1>2. AnswerInvariant'
  BY <1>1, AttemptKeepsAnswers DEF Judged
<1>3. RetriesConverge'
  BY <1>1, AttemptConverges
<1>4. /\ BudgetTypeOK /\ BudgetTypeOK' /\ opening' = opening /\ body' = body /\ budget' = budget
      /\ serial' = serial + body[r].handles + 1 /\ attempts'[r] = attempts[r] + 1
      /\ attempts[r] \in Nat /\ found'[r] = "ready" /\ found[r] = "none"
      /\ serial \in Nat /\ serial' \in Nat /\ serial <= serial' /\ opening.serial \in Nat
      /\ body[r].handles \in Nat /\ MaxSerial \in Nat
  BY <1>1, <1>2, BudgetAssumption DEF BudgetIInv, AnswerInvariant, BudgetTypeOK, Judged, Answered
<1>5. Told(r)' =>
        /\ a.kind = "rejected" /\ a.code = Insufficient /\ a.limit = budget[r]
        /\ a.required = Needed(r) /\ a.required > budget[r] /\ a.serial = serial /\ Last(r)' = serial'
  BY <1>1, <1>4 DEF Judged, Told, Last
<1>6. ToldFigure'
  <2>1. ASSUME NEW q \in Readers \ {r}
        PROVE  /\ Told(q)' =>
                    /\ answer'[q].required = ReadyBare(body'[q], answer'[q].serial)
                                              + Width(answer'[q].limit) + Padding + Padding
                    /\ answer'[q].required > answer'[q].limit
                    /\ Last(q)' <= serial'
                    /\ budget'[q] = (IF found'[q] = "none" THEN answer'[q].required
                                                           ELSE answer'[q].limit)
               /\ found'[q] = "none" => Told(q)' \/ attempts'[q] = 0
               /\ attempts'[q] = 0 =>
                    answer'[q] = Unanswered /\ budget'[q] = opening'.budget[q]
    <3>1. Told(q) => Last(q) \in Nat
      BY <1>4, BudgetAssumption DEF Last, BudgetTypeOK, Answers
    <3> QED BY <1>1, <1>4, <3>1, OthersKept DEF BudgetIInv, ToldFigure
  <2>2. ASSUME Told(r)'
        PROVE  /\ answer'[r].required = ReadyBare(body'[r], answer'[r].serial)
                                         + Width(answer'[r].limit) + Padding + Padding
               /\ answer'[r].required > answer'[r].limit
               /\ Last(r)' <= serial'
               /\ budget'[r] = (IF found'[r] = "none" THEN answer'[r].required
                                                      ELSE answer'[r].limit)
    BY <1>4, <1>5, <2>2 DEF Needed
  <2>3. attempts'[r] # 0 /\ found'[r] # "none"
    BY <1>4
  <2> QED BY <2>1, <2>2, <2>3 DEF ToldFigure
<1>7. Growing'
  <2>1. ASSUME NEW q \in Readers \ {r}, Told(q)'
        PROVE  opening.budget[q] <= answer'[q].limit /\ opening.serial <= answer'[q].serial
    BY <1>1, <2>1, OthersKept DEF BudgetIInv, Growing
  <2>2. ASSUME Told(r)'
        PROVE  opening.budget[r] <= answer'[r].limit /\ opening.serial <= answer'[r].serial
    <3>1. opening.budget[r] <= budget[r]
      <4>1. opening.budget[r] \in Nat /\ budget[r] \in Nat
        BY <1>4, BudgetAssumption DEF BudgetTypeOK
      <4>2. CASE attempts[r] = 0
        BY <4>1, <4>2 DEF BudgetIInv, ToldFigure
      <4>3. CASE Told(r)
        <5>1. answer[r].limit \in Nat /\ answer[r].required \in Nat
          BY <1>4 DEF BudgetTypeOK, Answers
        <5> QED BY <1>4, <4>1, <4>3, <5>1 DEF BudgetIInv, ToldFigure, Growing
      <4> QED BY <1>4, <4>2, <4>3 DEF BudgetIInv, ToldFigure
    <3> QED BY <1>4, <1>5, <2>2, <3>1 DEF BudgetIInv, Growing
  <2> QED BY <1>4, <2>1, <2>2 DEF BudgetIInv, Growing
<1>8. Paid'
  <2>1. ASSUME NEW q \in Readers \ {r}, Told(q)'
        PROVE  attempts'[q] + Width(opening'.budget[q]) + 2 * Width(opening'.serial)
                 <= 1 + Width(answer'[q].limit) + Width(Last(q)')
                   + Width(answer'[q].serial + 1)
    BY <1>1, <1>4, <2>1, OthersKept DEF BudgetIInv, Paid
  <2>2. ASSUME Told(r)'
        PROVE  attempts'[r] + Width(opening'.budget[r]) + 2 * Width(opening'.serial)
                 <= 1 + Width(answer'[r].limit) + Width(Last(r)')
                   + Width(answer'[r].serial + 1)
    <3>1. answer'[r].limit = budget[r] /\ answer'[r].serial = serial /\ Last(r)' = serial'
      BY <1>5, <2>2
    <3>2. /\ Width(opening.serial) <= Width(serial + 1)
          /\ Width(serial + 1) <= Width(serial')
          /\ Width(opening.serial) \in Nat /\ Width(serial + 1) \in Nat
          /\ Width(serial') \in Nat
          /\ Width(opening.budget[r]) \in Nat /\ Width(budget[r]) \in Nat
      <4>1. opening.serial <= serial + 1 /\ serial + 1 <= serial' /\ serial + 1 \in Nat
        BY <1>4 DEF BudgetIInv, Growing
      <4> QED BY <1>4, <4>1, WidthType, WidthGrows
    <3>3. CASE attempts[r] = 0
      <4>1. budget[r] = opening.budget[r]
        BY <3>3 DEF BudgetIInv, ToldFigure
      <4> QED BY <1>4, <3>1, <3>2, <3>3, <4>1
    <3>4. CASE Told(r)
      <4> DEFINE first == answer[r].serial
      <4>1. /\ first \in Nat /\ answer[r].limit \in Nat /\ answer[r].required \in Nat
            /\ budget[r] \in Nat /\ body[r] \in Bodies
        BY <1>4, BudgetAssumption DEF BudgetTypeOK, Answers
      <4>2. /\ budget[r] = answer[r].required /\ answer[r].limit < budget[r]
            /\ budget[r] = ReadyBare(body[r], first) + Width(answer[r].limit)
               + Padding + Padding
            /\ Last(r) <= serial /\ Last(r) \in Nat /\ first + 1 <= Last(r)
        BY <1>4, <3>4, <4>1 DEF BudgetIInv, ToldFigure, Last
      <4>3. attempts[r] + Width(opening.budget[r]) + 2 * Width(opening.serial)
              <= 1 + Width(answer[r].limit) + Width(Last(r)) + Width(first + 1)
        BY <3>4 DEF BudgetIInv, Paid
      <4>4. /\ Width(answer[r].limit) <= Width(budget[r])
            /\ Width(Last(r)) <= Width(serial + 1)
            /\ Width(first + 1) <= Width(serial')
            /\ Width(answer[r].limit) \in Nat /\ Width(Last(r)) \in Nat
            /\ Width(first + 1) \in Nat
        <5>1. serial \in Nat /\ serial' \in Nat /\ first + 1 <= serial'
          BY <1>4, <4>1, <4>2, BudgetAssumption DEF BudgetTypeOK
        <5>2. Width(answer[r].limit) <= Width(budget[r])
          BY <4>1, <4>2, WidthGrows
        <5>3. Width(Last(r)) <= Width(serial + 1)
          BY <4>2, <5>1, WidthGrows
        <5>4. Width(first + 1) <= Width(serial')
          BY <4>1, <5>1, WidthGrows
        <5> QED BY <5>2, <5>3, <5>4, WidthType
      <4>5. \/ Width(budget[r]) > Width(answer[r].limit)
            \/ Width(serial') > Width(first + 1)
        BY <3>4, <1>5, <2>2, RefusalNeedsADigit
      <4> HIDE DEF first
      <4> QED BY <1>4, <3>1, <3>2, <4>3, <4>4, <4>5 DEF first
    <3> QED BY <1>4, <3>3, <3>4 DEF BudgetIInv, ToldFigure
  <2> QED BY <1>4, <2>1, <2>2 DEF Paid
<1> QED BY <1>2, <1>3, <1>6, <1>7, <1>8 DEF BudgetIInv

LEMMA FailKeeps ==
  ASSUME BudgetIInv, NEW r \in Readers,
         Fail(r) PROVE BudgetIInv'
<1>1. /\ Answered(r, answer'[r]) /\ found'[r] \in Codes
      /\ answer'[r].kind \in {"rejected", "control"} /\ answer'[r].code = found'[r]
  BY FailAnswers
<1>2. AnswerInvariant' /\ RetriesConverge'
  BY <1>1, AttemptKeepsAnswers, AttemptConverges
<1>3. /\ ~Told(r)' /\ found'[r] # "none"
      /\ serial <= serial' /\ serial \in Nat /\ serial' \in Nat /\ opening.serial \in Nat
      /\ opening' = opening /\ body' = body /\ BudgetTypeOK
      /\ attempts'[r] # 0
  BY <1>1, BudgetAssumption DEF Told, Answered, BudgetIInv, AnswerInvariant, BudgetTypeOK
<1>4. ToldFigure'
  <2>1. ASSUME NEW q \in Readers \ {r}
        PROVE  Told(q) => Last(q) \in Nat
    BY <1>3, BudgetAssumption DEF Last, BudgetTypeOK, Answers
  <2> QED BY <1>1, <1>3, <2>1, OthersKept DEF BudgetIInv, ToldFigure
<1>5. Growing'
  BY <1>1, <1>3, OthersKept DEF BudgetIInv, Growing
<1>6. Paid'
  BY <1>1, <1>3, OthersKept DEF BudgetIInv, Paid
<1> QED BY <1>2, <1>4, <1>5, <1>6 DEF BudgetIInv

LEMMA RetryKeeps ==
  ASSUME BudgetIInv, NEW r \in Readers,
         Retry(r) PROVE BudgetIInv'
<1>1. /\ BudgetTypeOK /\ Told(r) /\ found[r] # "none"
      /\ budget' = [budget EXCEPT ![r] = answer[r].required]
      /\ found' = [found EXCEPT ![r] = "none"]
      /\ UNCHANGED <<serial, body, attempts, answer, opening>>
  BY DEF Retry, Told, BudgetIInv, AnswerInvariant
<1>2. /\ answer[r].required \in Nat /\ budget[r] \in Nat
      /\ budget[r] = answer[r].limit /\ answer[r].required > answer[r].limit
      /\ attempts[r] # 0
  BY <1>1 DEF BudgetIInv, ToldFigure, BudgetTypeOK, Answers, Unanswered, Told
<1>3. BudgetTypeOK'
  BY <1>1, <1>2 DEF BudgetTypeOK
<1>4. CountsAreHonest' /\ FirstCauseIsNamed'
  BY <1>1 DEF BudgetIInv, AnswerInvariant, BudgetTypeOK, CountsAreHonest, FirstCauseIsNamed
<1>5. ToldFigure'
  <2>1. \A q \in Readers : Told(q)' = Told(q) /\ Last(q)' = Last(q)
    BY <1>1 DEF Told, Last
  <2>2. \A q \in Readers \ {r} : budget'[q] = budget[q] /\ found'[q] = found[q]
    BY <1>1 DEF BudgetTypeOK
  <2>3. budget'[r] = answer[r].required /\ found'[r] = "none"
    BY <1>1 DEF BudgetTypeOK
  <2> QED BY <1>1, <1>2, <2>1, <2>2, <2>3 DEF BudgetIInv, ToldFigure
<1>6. Growing' /\ Paid'
  BY <1>1 DEF BudgetIInv, Growing, Paid, Told, Last
<1>7. RetriesConverge'
  <2>1. ASSUME NEW q \in Readers
        PROVE  /\ Width(budget[q]) <= Width(budget'[q])
               /\ Width(opening.budget[q]) \in Nat
               /\ Width(budget[q]) \in Nat /\ Width(budget'[q]) \in Nat
               /\ attempts[q] \in Nat
               /\ Width(serial) \in Nat /\ Width(opening.serial) \in Nat
    <3>1. budget[q] \in Nat /\ budget'[q] \in Nat /\ budget[q] <= budget'[q] /\ attempts[q] \in Nat
      BY <1>1, <1>2, BudgetAssumption DEF BudgetTypeOK
    <3> QED BY <3>1, WidthType, WidthGrows
  <2> QED BY <1>1, <2>1 DEF BudgetIInv, RetriesConverge
<1> QED BY <1>3, <1>4, <1>5, <1>6, <1>7 DEF BudgetIInv, AnswerInvariant

LEMMA BudgetInductive ==
  ASSUME BudgetIInv, [BudgetNext]_budgetVars PROVE BudgetIInv'
<1>1. CASE UNCHANGED budgetVars
  BY <1>1 DEF budgetVars, BudgetIInv, AnswerInvariant, BudgetTypeOK, CountsAreHonest,
       FirstCauseIsNamed, ToldFigure, Growing, Paid, RetriesConverge, Told, Last
<1>2. ASSUME NEW r \in Readers, Prepare(r) \/ Fail(r) \/ Retry(r)
      PROVE  BudgetIInv'
  BY <1>2, PrepareKeeps, FailKeeps, RetryKeeps
<1> QED BY <1>1, <1>2 DEF BudgetNext

\* An answer's counts are those of what is sent, and a failure keeps its cause, for any
\* bodies and budgets (AnswerInvariant).
THEOREM AnswerInvariantHolds == BudgetSpec => []AnswerInvariant
<1>1. BudgetInit => BudgetIInv
  BY BudgetInitially
<1>2. BudgetIInv /\ [BudgetNext]_budgetVars => BudgetIInv'
  BY BudgetInductive
<1>3. BudgetIInv => AnswerInvariant
  BY DEF BudgetIInv
<1> QED BY <1>1, <1>2, <1>3, PTL DEF BudgetSpec

\* A caller that asks for what it is told needs few attempts, for any bodies, budgets and
\* number of callers that move the serial (RetriesConverge).
THEOREM RetriesAreFew == BudgetSpec => []RetriesConverge
<1>1. BudgetInit => BudgetIInv
  BY BudgetInitially
<1>2. BudgetIInv /\ [BudgetNext]_budgetVars => BudgetIInv'
  BY BudgetInductive
<1>3. BudgetIInv => RetriesConverge
  BY DEF BudgetIInv
<1> QED BY <1>1, <1>2, <1>3, PTL DEF BudgetSpec

\* The figure told is enough unless a number in the envelope got longer
\* (ToldFigureIsEnough).
THEOREM FigureIsEnough == BudgetSpec => ToldFigureIsEnough
<1>1. BudgetInit => BudgetIInv
  BY BudgetInitially
<1>2. BudgetIInv /\ [BudgetNext]_budgetVars => BudgetIInv'
  BY BudgetInductive
<1>3. ASSUME BudgetIInv, BudgetNext, NEW r \in Readers,
             found[r] = "none", found'[r] = "ready",
             answer[r].kind = "rejected", answer'[r].code = Insufficient
      PROVE  \/ Width(budget[r]) > Width(answer[r].limit)
             \/ Width(serial') > Width(answer[r].serial + 1)
  <2>1. Told(r)
    BY <1>3 DEF BudgetIInv, ToldFigure, Told, Unanswered
  <2>2. Prepare(r)
    <3>1. PICK q \in Readers : Prepare(q) \/ Fail(q) \/ Retry(q)
      BY <1>3 DEF BudgetNext
    <3>2. found \in [Readers -> Codes \cup {"none", "ready"}]
      BY <1>3 DEF BudgetIInv, AnswerInvariant, BudgetTypeOK
    <3>3. q = r
      BY <1>3, <3>1, <3>2 DEF Prepare, Fail, Retry, Attempt
    <3>4. ~Fail(r) /\ ~Retry(r)
      BY <1>3, <3>2, BudgetAssumption DEF Fail, Retry, Attempt
    <3> QED BY <3>1, <3>3, <3>4
  <2> QED BY <1>3, <2>1, <2>2, RefusalNeedsADigit
<1>4. BudgetIInv /\ [BudgetNext]_budgetVars =>
        [\A r \in Readers :
           /\ found[r] = "none" /\ found'[r] = "ready"
           /\ answer[r].kind = "rejected" /\ answer'[r].code = Insufficient
           => \/ Width(budget[r]) > Width(answer[r].limit)
              \/ Width(serial') > Width(answer[r].serial + 1)]_budgetVars
  BY <1>3
<1> QED BY <1>1, <1>2, <1>4, PTL DEF BudgetSpec, ToldFigureIsEnough
=============================================================================
