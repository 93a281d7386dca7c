--------------------- MODULE ProtectionOperationProofs ---------------------
(***************************************************************************)
(* Theorems about ProtectionOperation, for every set of observers, grants, *)
(* store views and clock samples, both credential kinds and both modes.    *)
(***************************************************************************)
EXTENDS ProtectionOperation, TLAPS

\* An external operation that is alive holds a verified grant.
GrantHeld == Kind = "external" /\ ~disposed => verified \in Grants

\* The sample handed to readAdvance was accepted by the clock.
SeenIsPast == \A c \in Callers : pc[c] = "advancing" => seen[c] <= lastTime

\* Every ended version is behind the high water, or is the high water and not active.
EndedIsBehind ==
  \A v \in ended :
    /\ highWater # NoView
    /\ v <= highWater.version
    /\ v = highWater.version => highWater.status # "active"

\* Inductive invariant: what the running observe knows about the record.
IInv ==
  /\ TypeOK
  /\ SerialisedObservation
  /\ PublicationAgreesWithHighWater
  /\ HighWaterNeverAheadOfClock
  /\ GrantHeld
  /\ SeenIsPast
  /\ EndedIsBehind

\* c's task is the one the promise chain lets run.
Running(c) == queue # <<>> /\ Head(queue) = c

\* A clock call never moves the operation's time back, and when it is answered "ok" it
\* changes nothing but that time.
LEMMA ClockSample ==
  ASSUME TypeOK, NEW a \in ClockAnswers, NEW g \in Grants \cup {NoGrant}, Clock(a, g)
  PROVE  /\ disposed' \in BOOLEAN /\ generation' \in Nat
         /\ verified' \in Grants \cup {NoGrant}
         /\ lastTime' \in Nat /\ lastTime <= lastTime'
         /\ a.time \in Nat
         /\ ClockCode(a) \in Codes \cup {"ok"}
         /\ ~disposed' => ~disposed /\ generation' = generation /\ verified' = g
         /\ ClockCode(a) = "ok" => /\ lastTime' = a.time /\ ~disposed /\ disposed' = disposed
                                   /\ generation' = generation /\ verified' = g
  <1>1. a.time \in Nat /\ a.disposes \in BOOLEAN /\ a.fault \in {"none", "throw", "invalid"}
    <2>1. CASE a \in [fault: {"none"}, time: Times, disposes: BOOLEAN]
      <3>1. a.time \in Times /\ a.disposes \in BOOLEAN /\ a.fault \in {"none"}
        BY <2>1
      <3>2. QED
        BY <3>1, ConstantsAssumption
    <2>2. CASE a \in [fault: {"throw", "invalid"}, time: {0}, disposes: BOOLEAN]
      BY <2>2
    <2>3. QED
      BY <2>1, <2>2 DEF ClockAnswers
  <1>2. ClockCode(a) \in Codes \cup {"ok"}
    BY DEF ClockCode, Codes, RefreshCodes
  <1>3. ClockCode(a) = "ok" => ~disposed /\ ~a.disposes /\ a.time >= lastTime
    BY <1>1 DEF ClockCode, ClockAnswers, TypeOK
  <1>4. QED
    BY <1>1, <1>2, <1>3 DEF Clock, TypeOK

\* The caller whose observe runs is the only one in flight, so when it settles nobody
\* is, and the queue had it in front.
LEMMA SettleIsolates ==
  ASSUME IInv, NEW c \in Callers, NEW code \in Codes \cup {"current"},
         Running(c), Settle(c, code)
  PROVE  /\ issued' \in {"issuing", "issued", "refused"}
         /\ queue' \in Seq(Callers)
         /\ pc' \in [Callers -> InFlight \cup {"idle", "queued"}]
         /\ captured' \in [Callers -> Nat] /\ seen' \in [Callers -> Nat]
         /\ outcome' \in Codes \cup {"none", "current"}
         /\ \A d \in Callers : pc'[d] \notin InFlight
  <1>2. \A d \in Callers : pc[d] \in InFlight => d = c
    BY DEF IInv, SerialisedObservation, Running
  <1>3. queue' \in Seq(Callers)
    BY DEF Settle, IInv, TypeOK, Running
  <1>4. \A d \in Callers : pc'[d] \notin InFlight
    BY <1>2 DEF Settle, IInv, TypeOK, InFlight
  <1>5. QED
    BY <1>3, <1>4 DEF Settle, IInv, TypeOK

\* What remains to be shown of a step after which no observe is in flight.
LEMMA QuietStep ==
  ASSUME \A d \in Callers : pc'[d] \notin InFlight,
         TypeOK', HighWaterNeverAheadOfClock', GrantHeld', EndedIsBehind'
  PROVE  IInv'
  <1>1. SerialisedObservation'
    BY DEF SerialisedObservation
  <1>2. PublicationAgreesWithHighWater'
    BY DEF PublicationAgreesWithHighWater, InFlight
  <1>3. SeenIsPast'
    BY DEF SeenIsPast, InFlight
  <1>4. QED
    BY <1>1, <1>2, <1>3 DEF IInv

\* The steps on which an observe ends without touching the record.
LEMMA SettleUnchanged ==
  ASSUME IInv, NEW c \in Callers, NEW code \in Codes \cup {"current"},
         Running(c), Settle(c, code),
         UNCHANGED <<disposed, generation, lastTime, verified, highWater,
                     checkpoint, ruling, ended>>
  PROVE  IInv'
  <1>0. /\ issued' \in {"issuing", "issued", "refused"} /\ queue' \in Seq(Callers)
        /\ pc' \in [Callers -> InFlight \cup {"idle", "queued"}]
        /\ captured' \in [Callers -> Nat] /\ seen' \in [Callers -> Nat]
        /\ outcome' \in Codes \cup {"none", "current"}
        /\ \A d \in Callers : pc'[d] \notin InFlight
    BY SettleIsolates
  <1>1. TypeOK' /\ \A d \in Callers : pc'[d] \notin InFlight
    BY <1>0 DEF IInv, TypeOK
  <1>2. HighWaterNeverAheadOfClock'
    BY DEF IInv, HighWaterNeverAheadOfClock
  <1>3. GrantHeld'
    BY DEF IInv, GrantHeld
  <1>4. EndedIsBehind'
    BY DEF IInv, EndedIsBehind
  <1>5. QED
    BY <1>1, <1>2, <1>3, <1>4, QuietStep

\* The steps on which an observe ends after a clock call.
LEMMA SettleAfterClock ==
  ASSUME IInv, NEW c \in Callers, NEW code \in Codes \cup {"current"},
         Running(c), Settle(c, code),
         NEW a \in ClockAnswers, NEW g \in Grants \cup {NoGrant}, Clock(a, g),
         Kind = "external" /\ ~disposed => g \in Grants,
         UNCHANGED <<highWater, checkpoint, ruling, ended>>
  PROVE  IInv'
  <1>0. /\ issued' \in {"issuing", "issued", "refused"} /\ queue' \in Seq(Callers)
        /\ pc' \in [Callers -> InFlight \cup {"idle", "queued"}]
        /\ captured' \in [Callers -> Nat] /\ seen' \in [Callers -> Nat]
        /\ outcome' \in Codes \cup {"none", "current"}
        /\ \A d \in Callers : pc'[d] \notin InFlight
    BY SettleIsolates
  <1>clock. /\ disposed' \in BOOLEAN /\ generation' \in Nat
            /\ verified' \in Grants \cup {NoGrant}
            /\ lastTime' \in Nat /\ lastTime <= lastTime'
            /\ ~disposed' => ~disposed /\ verified' = g
    BY ClockSample DEF IInv
  <1>1. TypeOK' /\ \A d \in Callers : pc'[d] \notin InFlight
    BY <1>0, <1>clock DEF IInv, TypeOK
  <1>2. HighWaterNeverAheadOfClock'
    <2>1. SUFFICES ASSUME highWater # NoView PROVE highWater.time <= lastTime'
      BY DEF HighWaterNeverAheadOfClock
    <2>2. highWater.time \in Nat /\ lastTime \in Nat /\ highWater.time <= lastTime
      BY <2>1 DEF IInv, TypeOK, HighWaterNeverAheadOfClock, ViewRecord
    <2>3. QED
      BY <2>2, <1>clock
  <1>3. GrantHeld'
    BY <1>clock DEF IInv, GrantHeld
  <1>4. EndedIsBehind'
    BY DEF IInv, EndedIsBehind
  <1>5. QED
    BY <1>1, <1>2, <1>3, <1>4, QuietStep

\* The steps on which an observe goes on to its next await.  What is left to show is
\* what the caller then relies on.
LEMMA SuspendStep ==
  ASSUME IInv, NEW c \in Callers, NEW where \in InFlight, Suspend(c, where),
         Running(c),
         UNCHANGED <<disposed, generation, checkpoint, ruling>>,
         lastTime' \in Nat, verified' \in Grants \cup {NoGrant},
         captured' \in [Callers -> Nat], seen' \in [Callers -> Nat],
         disposed \/ captured'[c] = generation,
         where = "advancing" => seen'[c] <= lastTime',
         highWater' \in ViewRecord \cup {NoView}, ended' \in SUBSET Nat,
         HighWaterNeverAheadOfClock', EndedIsBehind', GrantHeld',
         Kind = "external" /\ ~disposed /\ where \in {"resuming", "publishing"} =>
           /\ verified' # NoGrant /\ highWater' # NoView
           /\ verified'.status = "active" /\ highWater'.status = "active"
           /\ verified'.version = highWater'.version
  PROVE  IInv'
  <1>1. \A d \in Callers : pc'[d] \in InFlight => d = c
    BY DEF Suspend, IInv, TypeOK, SerialisedObservation, Running
  <1>2. pc'[c] = where /\ queue' = queue
    BY DEF Suspend, IInv, TypeOK
  <1>3. TypeOK'
    BY DEF Suspend, IInv, TypeOK
  <1>4. SerialisedObservation'
    BY <1>1, <1>2 DEF SerialisedObservation, Running
  <1>5. PublicationAgreesWithHighWater'
    BY <1>1, <1>2 DEF PublicationAgreesWithHighWater, InFlight
  <1>6. SeenIsPast'
    BY <1>1, <1>2 DEF SeenIsPast, InFlight
  <1>7. QED
    BY <1>3, <1>4, <1>5, <1>6 DEF IInv

\* The steps taken between the awaits of a running observe: the record's time may move,
\* or the operation is disposed; nothing the observe relies on changes unless it is.
LEMMA ClockBetween ==
  ASSUME IInv, NEW a \in ClockAnswers, Clock(a, verified),
         ruling' \in [by: Observers \cup {NoObserver}, generation: Nat],
         UNCHANGED <<issued, highWater, calls, ended>>
  PROVE  IInv'
  <1>clock. /\ disposed' \in BOOLEAN /\ generation' \in Nat
            /\ verified' \in Grants \cup {NoGrant}
            /\ lastTime' \in Nat /\ lastTime <= lastTime'
            /\ ~disposed' => ~disposed /\ generation' = generation /\ verified' = verified
    <2>1. TypeOK /\ verified \in Grants \cup {NoGrant}
      BY DEF IInv, TypeOK
    <2>2. QED
      BY <2>1, ClockSample
  <1>1. TypeOK'
    BY <1>clock DEF IInv, TypeOK, calls
  <1>2. SerialisedObservation'
    BY <1>clock DEF IInv, SerialisedObservation, calls
  <1>3. PublicationAgreesWithHighWater'
    BY <1>clock DEF IInv, PublicationAgreesWithHighWater, calls
  <1>4. HighWaterNeverAheadOfClock'
    <2>1. SUFFICES ASSUME highWater # NoView PROVE highWater.time <= lastTime'
      BY DEF HighWaterNeverAheadOfClock
    <2>2. highWater.time \in Nat /\ lastTime \in Nat /\ highWater.time <= lastTime
      BY <2>1 DEF IInv, TypeOK, HighWaterNeverAheadOfClock, ViewRecord
    <2>3. QED
      BY <2>2, <1>clock
  <1>5. GrantHeld'
    BY <1>clock DEF IInv, GrantHeld
  <1>6. SeenIsPast'
    BY <1>clock DEF IInv, TypeOK, SeenIsPast, calls
  <1>7. EndedIsBehind'
    BY DEF IInv, EndedIsBehind
  <1>8. QED
    BY <1>1, <1>2, <1>3, <1>4, <1>5, <1>6, <1>7 DEF IInv

\* A caller suspended at an await is the one the chain lets run.
LEMMA FlightRuns ==
  ASSUME IInv, NEW c \in Callers, pc[c] \in InFlight
  PROVE  Running(c) /\ (disposed \/ captured[c] = generation)
  BY DEF IInv, SerialisedObservation, Running

\* Disposal or a moved generation found after an await keeps the invariant.
LEMMA InterruptPreserves ==
  ASSUME IInv, NEW c \in Callers, Interrupt(c)
  PROVE  IInv'
  <1>1. pc[c] \in InFlight
    BY DEF Interrupt, InFlight
  <1>2. Running(c)
    BY <1>1, FlightRuns
  <1>3. InterruptCode \in Codes \cup {"current"}
    BY DEF InterruptCode, Codes, RefreshCodes
  <1>4. QED
    BY <1>2, <1>3, SettleUnchanged DEF Interrupt

\* Queueing another caller behind the running observe keeps the invariant.
LEMMA CallObservePreserves ==
  ASSUME IInv, NEW o \in Observers, CallObserve(o)
  PROVE  IInv'
  <1>1. o \in Callers /\ pc \in [Callers -> InFlight \cup {"idle", "queued"}]
        /\ queue \in Seq(Callers) /\ queue' = Append(queue, o)
    BY DEF Callers, CallObserve, IInv, TypeOK
  <1>2. queue' \in Seq(Callers) /\ (queue # <<>> => queue' # <<>> /\ Head(queue') = Head(queue))
    BY <1>1
  <1>3. \A d \in Callers : pc'[d] \in InFlight => pc[d] = pc'[d]
    BY <1>1 DEF CallObserve, InFlight
  <1>4. TypeOK'
    BY <1>1, <1>2 DEF CallObserve, IInv, TypeOK, core
  <1>5. SerialisedObservation'
    BY <1>2, <1>3 DEF CallObserve, IInv, SerialisedObservation, core
  <1>6. PublicationAgreesWithHighWater'
    BY <1>3 DEF CallObserve, IInv, PublicationAgreesWithHighWater, InFlight, core
  <1>7. SeenIsPast'
    BY <1>3 DEF CallObserve, IInv, SeenIsPast, InFlight, core
  <1>8. HighWaterNeverAheadOfClock' /\ GrantHeld' /\ EndedIsBehind'
    BY DEF CallObserve, IInv, HighWaterNeverAheadOfClock, GrantHeld, EndedIsBehind, core
  <1>9. QED
    BY <1>4, <1>5, <1>6, <1>7, <1>8 DEF IInv

\* A refresh that fails or answers with an unusable grant keeps the invariant.
LEMMA RefreshFailsPreserves ==
  ASSUME IInv, NEW c \in Callers, RefreshFails(c)
  PROVE  IInv'
  <1>1. PICK code \in RefreshCodes : Settle(c, code)
    BY DEF RefreshFails
  <1>2. Running(c)
    BY FlightRuns DEF RefreshFails, InFlight
  <1>3. code \in Codes \cup {"current"}
    BY DEF Codes
  <1>4. QED
    BY <1>1, <1>2, <1>3, SettleUnchanged DEF RefreshFails

\* A readAdvance that fails keeps the invariant.
LEMMA AdvanceFailsPreserves ==
  ASSUME IInv, NEW c \in Callers, AdvanceFails(c)
  PROVE  IInv'
  <1>1. Running(c)
    BY FlightRuns DEF AdvanceFails, InFlight
  <1>2. "PROVIDER_FAILED" \in Codes \cup {"current"}
    BY DEF Codes, RefreshCodes
  <1>3. QED
    BY <1>1, <1>2, SettleUnchanged DEF AdvanceFails

\* What a step knows of a clock call answered "ok" for a record that keeps its grant.
LEMMA ClockAccepts ==
  ASSUME IInv, NEW a \in ClockAnswers, NEW g \in Grants \cup {NoGrant}, Clock(a, g),
         ClockCode(a) = "ok"
  PROVE  /\ lastTime' = a.time /\ a.time \in Nat /\ lastTime <= lastTime'
         /\ ~disposed /\ UNCHANGED <<disposed, generation>> /\ verified' = g
  BY ClockSample DEF IInv

\* What goes on holding of the record when only its time and its grant move.
LEMMA RecordKeeps ==
  ASSUME IInv, UNCHANGED <<disposed, highWater, ended>>,
         lastTime' \in Nat, lastTime <= lastTime',
         Kind = "external" /\ ~disposed => verified' \in Grants
  PROVE  HighWaterNeverAheadOfClock' /\ EndedIsBehind' /\ GrantHeld'
  <1>1. HighWaterNeverAheadOfClock'
    <2>1. SUFFICES ASSUME highWater # NoView PROVE highWater.time <= lastTime'
      BY DEF HighWaterNeverAheadOfClock
    <2>2. highWater.time \in Nat /\ lastTime \in Nat /\ highWater.time <= lastTime
      BY <2>1 DEF IInv, TypeOK, HighWaterNeverAheadOfClock, ViewRecord
    <2>3. QED
      BY <2>2
  <1>2. EndedIsBehind' /\ GrantHeld'
    BY DEF IInv, EndedIsBehind, GrantHeld
  <1>3. QED
    BY <1>1, <1>2

\* The start of `current`, up to its first await, keeps the invariant.
LEMMA BeginPreserves ==
  ASSUME IInv, NEW c \in Callers, Begin(c)
  PROVE  IInv'
  <1>1. Running(c)
    BY DEF Begin, Running
  <1>2. /\ verified \in Grants \cup {NoGrant} /\ (Kind = "external" /\ ~disposed => verified \in Grants)
        /\ captured \in [Callers -> Nat] /\ seen \in [Callers -> Nat] /\ generation \in Nat
        /\ highWater \in ViewRecord \cup {NoView} /\ ended \in SUBSET Nat
    BY DEF IInv, TypeOK, GrantHeld
  <1>3. PICK a \in ClockAnswers :
       /\ Clock(a, verified)
       /\ \/ ClockCode(a) # "ok" /\ Settle(c, ClockCode(a))
          \/ ClockCode(a) = "ok" /\ Settle(c, "REFRESH_REQUIRED")
          \/ /\ ClockCode(a) = "ok" /\ Kind = "external"
             /\ Suspend(c, "refreshing")
             /\ captured' = [captured EXCEPT ![c] = generation]
             /\ UNCHANGED seen
          \/ /\ ClockCode(a) = "ok" /\ Kind = "external"
             /\ Suspend(c, "advancing")
             /\ captured' = [captured EXCEPT ![c] = generation]
             /\ seen' = [seen EXCEPT ![c] = a.time]
          \/ /\ ClockCode(a) = "ok" /\ Kind = "local"
             /\ Suspend(c, "publishing")
             /\ captured' = [captured EXCEPT ![c] = generation]
             /\ UNCHANGED seen
    BY DEF Begin
  <1>4. UNCHANGED <<highWater, checkpoint, ruling, ended>>
    BY DEF Begin
  <1>5. CASE \E code \in Codes \cup {"current"} : Settle(c, code)
    BY <1>1, <1>2, <1>3, <1>4, <1>5, SettleAfterClock
  <1>6. ClockCode(a) # "ok" => ClockCode(a) \in Codes
    BY <1>2, <1>3, ClockSample DEF IInv
  <1>7. CASE /\ ClockCode(a) = "ok"
             /\ captured' = [captured EXCEPT ![c] = generation]
             /\ \/ Kind = "external" /\ Suspend(c, "refreshing") /\ UNCHANGED seen
                \/ Kind = "external" /\ Suspend(c, "advancing") /\ seen' = [seen EXCEPT ![c] = a.time]
                \/ Kind = "local" /\ Suspend(c, "publishing") /\ UNCHANGED seen
    <2>1. /\ lastTime' = a.time /\ a.time \in Nat /\ lastTime <= lastTime'
          /\ ~disposed /\ UNCHANGED <<disposed, generation>> /\ verified' = verified
      BY <1>2, <1>3, <1>7, ClockAccepts
    <2>2. HighWaterNeverAheadOfClock' /\ EndedIsBehind' /\ GrantHeld'
      BY <1>2, <1>4, <2>1, RecordKeeps
    <2>3. captured' \in [Callers -> Nat] /\ captured'[c] = generation
      BY <1>2, <1>7
    <2>4. seen' \in [Callers -> Nat]
      BY <1>2, <1>7, <2>1
    <2>5. CASE Kind = "external" /\ Suspend(c, "refreshing") /\ UNCHANGED seen
      <3>1. "refreshing" \in InFlight
        BY DEF InFlight
      <3>2. QED
        BY <1>1, <1>2, <1>4, <2>1, <2>2, <2>3, <2>4, <2>5, <3>1, SuspendStep
    <2>6. CASE Kind = "external" /\ Suspend(c, "advancing") /\ seen' = [seen EXCEPT ![c] = a.time]
      <3>1. "advancing" \in InFlight
        BY DEF InFlight
      <3>2. seen'[c] <= lastTime'
        BY <1>2, <2>1, <2>6
      <3>3. QED
        BY <1>1, <1>2, <1>4, <2>1, <2>2, <2>3, <2>4, <2>6, <3>1, <3>2, SuspendStep
    <2>7. CASE Kind = "local" /\ Suspend(c, "publishing") /\ UNCHANGED seen
      <3>1. "publishing" \in InFlight
        BY DEF InFlight
      <3>2. QED
        BY <1>1, <1>2, <1>4, <2>1, <2>2, <2>3, <2>4, <2>7, <3>1, SuspendStep
    <2>8. QED
      BY <1>7, <2>5, <2>6, <2>7
  <1>8. QED
    BY <1>3, <1>5, <1>6, <1>7 DEF Codes

\* A refreshed grant, taken up after a second clock call, keeps the invariant.
LEMMA RefreshAnswersPreserves ==
  ASSUME IInv, NEW c \in Callers, RefreshAnswers(c)
  PROVE  IInv'
  <1>1. Running(c) /\ ~disposed /\ captured[c] = generation
    BY FlightRuns DEF RefreshAnswers, InFlight, Interrupted
  <1>2. /\ captured \in [Callers -> Nat] /\ seen \in [Callers -> Nat]
        /\ highWater \in ViewRecord \cup {NoView} /\ ended \in SUBSET Nat
    BY DEF IInv, TypeOK
  <1>3. PICK g \in Grants, a \in ClockAnswers :
       /\ Clock(a, g)
       /\ \/ ClockCode(a) # "ok" /\ Settle(c, ClockCode(a))
          \/ /\ ClockCode(a) = "ok" /\ Suspend(c, "advancing")
             /\ seen' = [seen EXCEPT ![c] = a.time] /\ UNCHANGED captured
    BY DEF RefreshAnswers
  <1>4. UNCHANGED <<highWater, checkpoint, ruling, ended>>
    BY DEF RefreshAnswers
  <1>5. CASE ClockCode(a) # "ok" /\ Settle(c, ClockCode(a))
    <2>1. ClockCode(a) \in Codes \cup {"current"}
      BY <1>3, <1>5, ClockSample DEF IInv
    <2>2. QED
      BY <1>1, <1>3, <1>4, <1>5, <2>1, SettleAfterClock
  <1>6. CASE /\ ClockCode(a) = "ok" /\ Suspend(c, "advancing")
             /\ seen' = [seen EXCEPT ![c] = a.time] /\ UNCHANGED captured
    <2>1. /\ lastTime' = a.time /\ a.time \in Nat /\ lastTime <= lastTime'
          /\ UNCHANGED <<disposed, generation>> /\ verified' = g
      BY <1>3, <1>6, ClockAccepts
    <2>2. HighWaterNeverAheadOfClock' /\ EndedIsBehind' /\ GrantHeld'
      BY <1>4, <2>1, RecordKeeps
    <2>3. seen' \in [Callers -> Nat] /\ seen'[c] <= lastTime'
      BY <1>2, <1>6, <2>1
    <2>4. "advancing" \in InFlight
      BY DEF InFlight
    <2>5. QED
      BY <1>1, <1>2, <1>4, <1>6, <2>1, <2>2, <2>3, <2>4, SuspendStep
  <1>7. QED
    BY <1>3, <1>5, <1>6

\* A view accepted as the new high water agrees with the ended versions: an older one
\* is a rollback, and so is another status at the same version.
LEMMA AdvanceKeepsRefusals ==
  ASSUME IInv, NEW c \in Callers, NEW s \in Advances, ~Regresses(s, c),
         highWater' = s,
         ended' = IF s.status = "active" THEN ended ELSE ended \cup {s.version}
  PROVE  EndedIsBehind'
  <1>1. s.version \in Nat /\ s # NoView
    BY ConstantsAssumption DEF ViewRecord
  <1>2. highWater # NoView =>
          /\ highWater.version \in Nat /\ highWater.version <= s.version
          /\ s.version = highWater.version => s.status = highWater.status
    BY <1>1 DEF Regresses, IInv, TypeOK, ViewRecord
  <1>3. SUFFICES ASSUME NEW v \in ended'
                 PROVE  v <= s.version /\ (v = s.version => s.status # "active")
    BY <1>1 DEF EndedIsBehind
  <1>4. CASE v \in ended
    <2>1. /\ highWater # NoView /\ v <= highWater.version /\ v \in Nat
          /\ v = highWater.version => highWater.status # "active"
      BY <1>4 DEF IInv, TypeOK, EndedIsBehind
    <2>2. QED
      BY <1>1, <1>2, <2>1
  <1>5. CASE s.status # "active" /\ v = s.version
    BY <1>1, <1>5
  <1>6. QED
    BY <1>3, <1>4, <1>5

\* A readAdvance answer, rolled back or remembered as the high water, keeps the invariant.
LEMMA AdvanceAnswersPreserves ==
  ASSUME IInv, NEW c \in Callers, AdvanceAnswers(c)
  PROVE  IInv'
  <1>1. Running(c) /\ ~disposed /\ captured[c] = generation
    BY FlightRuns DEF AdvanceAnswers, InFlight, Interrupted
  <1>2. seen[c] <= lastTime
    BY DEF AdvanceAnswers, IInv, SeenIsPast
  <1>3. UNCHANGED <<disposed, generation, lastTime, verified, checkpoint, ruling>>
    BY DEF AdvanceAnswers
  <1>4. PICK s \in Advances :
       \/ /\ Settle(c, "STATE_ROLLBACK")
          /\ UNCHANGED <<highWater, ended>>
       \/ /\ ~Regresses(s, c)
          /\ highWater' = s
          /\ ended' = IF s.status = "active" THEN ended ELSE ended \cup {s.version}
          /\ \/ AdvanceCode(s) # "ok" /\ Settle(c, AdvanceCode(s))
             \/ /\ AdvanceCode(s) = "ok"
                /\ Suspend(c, "resuming")
                /\ UNCHANGED <<captured, seen>>
    BY DEF AdvanceAnswers
  <1>5. s \in ViewRecord /\ s # NoView
    BY ConstantsAssumption
  <1>6. CASE Settle(c, "STATE_ROLLBACK") /\ UNCHANGED <<highWater, ended>>
    <2>1. "STATE_ROLLBACK" \in Codes \cup {"current"}
      BY DEF Codes, RefreshCodes
    <2>2. QED
      BY <1>1, <1>3, <1>6, <2>1, SettleUnchanged
  <1>7. CASE /\ ~Regresses(s, c)
             /\ highWater' = s
             /\ ended' = IF s.status = "active" THEN ended ELSE ended \cup {s.version}
             /\ \/ AdvanceCode(s) # "ok" /\ Settle(c, AdvanceCode(s))
                \/ /\ AdvanceCode(s) = "ok"
                   /\ Suspend(c, "resuming")
                   /\ UNCHANGED <<captured, seen>>
    <2>1. EndedIsBehind'
      BY <1>7, AdvanceKeepsRefusals
    <2>2. HighWaterNeverAheadOfClock'
      BY <1>2, <1>3, <1>7 DEF HighWaterNeverAheadOfClock, Regresses
    <2>3. GrantHeld'
      BY <1>3 DEF IInv, GrantHeld
    <2>4. highWater' \in ViewRecord \cup {NoView} /\ ended' \in SUBSET Nat
      BY <1>5, <1>7 DEF IInv, TypeOK, ViewRecord
    <2>5. CASE AdvanceCode(s) # "ok" /\ Settle(c, AdvanceCode(s))
      <3>1. AdvanceCode(s) \in Codes \cup {"current"}
        BY <2>5 DEF AdvanceCode, Codes, RefreshCodes
      <3>2. /\ issued' \in {"issuing", "issued", "refused"}
            /\ queue' \in Seq(Callers)
            /\ pc' \in [Callers -> InFlight \cup {"idle", "queued"}]
            /\ captured' \in [Callers -> Nat] /\ seen' \in [Callers -> Nat]
            /\ outcome' \in Codes \cup {"none", "current"}
            /\ \A d \in Callers : pc'[d] \notin InFlight
        BY <1>1, <2>5, <3>1, SettleIsolates
      <3>3. TypeOK'
        BY <1>3, <2>4, <3>2 DEF IInv, TypeOK
      <3>4. QED
        BY <2>1, <2>2, <2>3, <3>2, <3>3, QuietStep
    <2>6. CASE AdvanceCode(s) = "ok" /\ Suspend(c, "resuming") /\ UNCHANGED <<captured, seen>>
      <3>1. "resuming" \in InFlight
        BY DEF InFlight
      <3>2. Kind = "external" =>
              /\ verified' # NoGrant /\ highWater' # NoView
              /\ verified'.status = "active" /\ highWater'.status = "active"
              /\ verified'.version = highWater'.version
        <4>1. SUFFICES ASSUME Kind = "external"
                       PROVE  /\ verified # NoGrant
                              /\ verified.status = "active" /\ s.status = "active"
                              /\ verified.version = s.version
          BY <1>3, <1>5, <1>7
        <4>2. verified \in Grants /\ verified.version \in Nat /\ s.version \in Nat
              /\ s.status \in Statuses
          BY <1>1, <1>5, <4>1, ConstantsAssumption DEF IInv, GrantHeld, GrantRecord, ViewRecord
        <4>3. s.status = "active" /\ s.status = verified.status /\ ~(s.version > verified.version)
          BY <2>6, <4>2 DEF AdvanceCode, Statuses
        <4>4. ~(s.version < verified.version)
          BY <1>7 DEF Regresses
        <4>5. QED
          BY <4>2, <4>3, <4>4, ConstantsAssumption
      <3>3. TypeOK
        BY DEF IInv
      <3>4. /\ lastTime' \in Nat /\ verified' \in Grants \cup {NoGrant}
            /\ captured' \in [Callers -> Nat] /\ seen' \in [Callers -> Nat]
            /\ captured'[c] = generation
        BY <1>1, <1>3, <2>6, <3>3 DEF TypeOK
      <3>5. QED
        BY <1>1, <1>3, <2>1, <2>2, <2>3, <2>4, <2>6, <3>1, <3>2, <3>4, SuspendStep
    <2>7. QED
      BY <1>7, <2>5, <2>6
  <1>8. QED
    BY <1>4, <1>6, <1>7

\* The clock call and the validity decision after readAdvance keep the invariant.
LEMMA ResumePreserves ==
  ASSUME IInv, NEW c \in Callers, Resume(c)
  PROVE  IInv'
  <1>1. Running(c) /\ ~disposed /\ captured[c] = generation
    BY FlightRuns DEF Resume, InFlight, Interrupted
  <1>2. /\ verified \in Grants \cup {NoGrant} /\ (Kind = "external" => verified \in Grants)
        /\ captured \in [Callers -> Nat] /\ seen \in [Callers -> Nat]
        /\ highWater \in ViewRecord \cup {NoView} /\ ended \in SUBSET Nat
    BY <1>1 DEF IInv, TypeOK, GrantHeld
  <1>3. PICK a \in ClockAnswers :
       /\ Clock(a, verified)
       /\ \/ ClockCode(a) # "ok" /\ Settle(c, ClockCode(a))
          \/ \E code \in Codes : Settle(c, code)
          \/ ClockCode(a) = "ok" /\ Suspend(c, "publishing") /\ UNCHANGED <<captured, seen>>
    BY DEF Resume, ValidityCode, Codes, RefreshCodes
  <1>4. UNCHANGED <<highWater, checkpoint, ruling, ended>>
    BY DEF Resume
  <1>5. ClockCode(a) # "ok" => ClockCode(a) \in Codes
    BY <1>2, <1>3, ClockSample DEF IInv
  <1>6. CASE \E code \in Codes : Settle(c, code)
    <2>1. PICK code \in Codes : Settle(c, code)
      BY <1>6
    <2>2. QED
      BY <1>1, <1>2, <1>3, <1>4, <2>1, SettleAfterClock
  <1>7. CASE ClockCode(a) = "ok" /\ Suspend(c, "publishing") /\ UNCHANGED <<captured, seen>>
    <2>1. /\ a.time \in Nat /\ lastTime' = a.time /\ lastTime <= lastTime'
          /\ UNCHANGED <<disposed, generation>> /\ verified' = verified
      BY <1>2, <1>3, <1>7, ClockAccepts
    <2>2. HighWaterNeverAheadOfClock' /\ EndedIsBehind' /\ GrantHeld'
      BY <1>2, <1>4, <2>1, RecordKeeps
    <2>3. Kind = "external" =>
            /\ verified' # NoGrant /\ highWater' # NoView
            /\ verified'.status = "active" /\ highWater'.status = "active"
            /\ verified'.version = highWater'.version
      BY <1>1, <1>4, <2>1 DEF Resume, IInv, PublicationAgreesWithHighWater
    <2>4. "publishing" \in InFlight
      BY DEF InFlight
    <2>5. QED
      BY <1>1, <1>2, <1>4, <1>7, <2>1, <2>2, <2>3, <2>4, SuspendStep
  <1>8. QED
    BY <1>3, <1>5, <1>6, <1>7

\* A new generation and its checkpoint keep the invariant.
LEMMA PublishPreserves ==
  ASSUME IInv, NEW o \in Observers, Publish(o)
  PROVE  IInv'
  <1>1. o \in Callers /\ Running(o)
    BY FlightRuns DEF Publish, InFlight, Callers
  <1>2. "current" \in Codes \cup {"current"}
    OBVIOUS
  <1>3. /\ issued' \in {"issuing", "issued", "refused"}
        /\ queue' \in Seq(Callers)
        /\ pc' \in [Callers -> InFlight \cup {"idle", "queued"}]
        /\ captured' \in [Callers -> Nat] /\ seen' \in [Callers -> Nat]
        /\ outcome' \in Codes \cup {"none", "current"}
        /\ \A d \in Callers : pc'[d] \notin InFlight
    BY <1>1, <1>2, SettleIsolates DEF Publish
  <1>4. TypeOK'
    BY <1>3 DEF Publish, IInv, TypeOK
  <1>5. HighWaterNeverAheadOfClock' /\ GrantHeld' /\ EndedIsBehind'
    BY DEF Publish, IInv, HighWaterNeverAheadOfClock, GrantHeld, EndedIsBehind
  <1>6. QED
    BY <1>3, <1>4, <1>5, QuietStep

\* The ends of an observe that hand out no checkpoint keep the invariant.
LEMMA EndPreserves ==
  ASSUME IInv, (\E o \in Observers : PublishDisposed(o)) \/ Issue
  PROVE  IInv'
  <1>1. PICK c \in Callers, code \in Codes \cup {"current"} :
          pc[c] \in InFlight /\ Settle(c, code)
    BY DEF PublishDisposed, Issue, InFlight, Callers, Codes
  <1>2. UNCHANGED <<disposed, generation, lastTime, verified, highWater,
                    checkpoint, ruling, ended>>
    BY DEF PublishDisposed, Issue
  <1>3. QED
    BY <1>1, <1>2, FlightRuns, SettleUnchanged

\* Both ways assertCurrent ends keep the invariant.
LEMMA AssertPreserves ==
  ASSUME IInv, NEW o \in Observers, AssertStale(o) \/ AssertCurrent(o)
  PROVE  IInv'
  <1>1. CASE AssertStale(o)
    <2>1. TypeOK'
      BY <1>1 DEF AssertStale, Refusal, IInv, TypeOK, core, calls
    <2>2. UNCHANGED <<core, calls, ended>>
      BY <1>1 DEF AssertStale
    <2>3. QED
      BY <2>1, <2>2 DEF IInv, SerialisedObservation, PublicationAgreesWithHighWater,
         HighWaterNeverAheadOfClock, GrantHeld, SeenIsPast, EndedIsBehind, core, calls
  <1>2. CASE AssertCurrent(o)
    <2>1. PICK a \in ClockAnswers : Clock(a, verified)
      BY <1>2 DEF AssertCurrent
    <2>2. generation \in Nat
      BY DEF IInv, TypeOK
    <2>3. ruling' \in [by: Observers \cup {NoObserver}, generation: Nat]
      BY <1>2, <2>2 DEF AssertCurrent, Refusal
    <2>4. QED
      BY <1>2, <2>1, <2>3, ClockBetween DEF AssertCurrent
  <1>3. QED
    BY <1>1, <1>2

\* Disposal keeps the invariant.
LEMMA DisposePreserves ==
  ASSUME IInv, Dispose
  PROVE  IInv'
  <1>1. TypeOK'
    BY DEF Dispose, IInv, TypeOK, calls
  <1>2. disposed' /\ UNCHANGED <<issued, lastTime, highWater, calls, ruling, ended>>
    BY DEF Dispose
  <1>3. QED
    BY <1>1, <1>2 DEF IInv, SerialisedObservation, PublicationAgreesWithHighWater,
       HighWaterNeverAheadOfClock, GrantHeld, SeenIsPast, EndedIsBehind, calls

\* Every step between the start of an observe and its last check keeps the invariant.
LEMMA ProgressPreserves ==
  ASSUME IInv, NEW c \in Callers, Progress(c)
  PROVE  IInv'
  BY BeginPreserves, InterruptPreserves, RefreshFailsPreserves, RefreshAnswersPreserves,
     AdvanceFailsPreserves, AdvanceAnswersPreserves, ResumePreserves DEF Progress

\* The invariant is inductive.
LEMMA StepPreserves ==
  ASSUME IInv, [Next]_vars
  PROVE  IInv'
  <1>1. CASE Progress(Issuer)
    BY <1>1, ProgressPreserves DEF Callers
  <1>2. CASE Issue
    BY <1>2, EndPreserves
  <1>3. ASSUME NEW o \in Observers, CallObserve(o) PROVE IInv'
    BY <1>3, CallObservePreserves
  <1>4. ASSUME NEW o \in Observers, ObserverProgress(o) PROVE IInv'
    <2>1. o \in Callers
      BY DEF Callers
    <2>2. QED
      BY <1>4, <2>1, ProgressPreserves, PublishPreserves, EndPreserves DEF ObserverProgress
  <1>5. ASSUME NEW o \in Observers, AssertStale(o) \/ AssertCurrent(o) PROVE IInv'
    BY <1>5, AssertPreserves
  <1>6. CASE Dispose
    BY <1>6, DisposePreserves
  <1>7. CASE UNCHANGED vars
    BY <1>7 DEF vars, core, calls, IInv, TypeOK, SerialisedObservation,
       PublicationAgreesWithHighWater, HighWaterNeverAheadOfClock, GrantHeld, SeenIsPast,
       EndedIsBehind
  <1>8. QED
    BY <1>1, <1>2, <1>3, <1>4, <1>5, <1>6, <1>7 DEF Next

\* The invariant holds of an operation that is being issued.
LEMMA InitEstablishes ==
  ASSUME Init
  PROVE  IInv
  <1>1. Issuer \in Callers /\ Observers \subseteq Callers /\ queue \in Seq(Callers)
    BY DEF Init, Callers
  <1>2. verified \in Grants \cup {NoGrant} /\ GrantHeld
    BY DEF Init, GrantHeld
  <1>3. \A c \in Callers : pc[c] \notin InFlight
    BY DEF Init, InFlight
  <1>4. TypeOK
    BY <1>1, <1>2 DEF Init, TypeOK, Refusal
  <1>5. HighWaterNeverAheadOfClock /\ EndedIsBehind
    BY DEF Init, HighWaterNeverAheadOfClock, EndedIsBehind
  <1>6. SerialisedObservation
    BY <1>3 DEF SerialisedObservation
  <1>7. PublicationAgreesWithHighWater /\ SeenIsPast
    BY <1>3 DEF PublicationAgreesWithHighWater, SeenIsPast, InFlight
  <1>8. QED
    BY <1>2, <1>4, <1>5, <1>6, <1>7 DEF IInv

\* The record behind an operation satisfies the inductive invariant at every step of
\* every run: all the safety theorems below follow from it.
THEOREM Invariance == Spec => []IInv
  BY InitEstablishes, StepPreserves, PTL DEF Spec

\* Every variable keeps its type, whatever the provider answers.
THEOREM TypeCorrect == Spec => []TypeOK
  BY Invariance, PTL DEF IInv

\* Observes are serialised and disposal alone moves the generation of a running one,
\* for any number of callers.
THEOREM Serialised == Spec => []SerialisedObservation
  BY Invariance, PTL DEF IInv

\* Whatever a checkpoint is about to be issued for is confirmed by the newest view of
\* the shared store, for every set of grants and views.
THEOREM PublicationAgrees == Spec => []PublicationAgreesWithHighWater
  BY Invariance, PTL DEF IInv

\* The remembered high water is never ahead of the operation's clock.
THEOREM HighWaterBehindClock == Spec => []HighWaterNeverAheadOfClock
  BY Invariance, PTL DEF IInv

-----------------------------------------------------------------------------
(* Action properties                                                        *)

\* Only Publish hands out a checkpoint.
LEMMA OnlyPublishGrants ==
  ASSUME [Next]_vars, checkpoint' # checkpoint
  PROVE  \E o \in Observers : Publish(o)
  BY DEF Next, Progress, ObserverProgress, Begin, Interrupt, RefreshFails, RefreshAnswers,
     AdvanceFails, AdvanceAnswers, Resume, PublishDisposed, Issue, CallObserve, AssertStale,
     AssertCurrent, Dispose, vars, calls

\* Once a revoked or expired view became the high water (protection-grant.js:73-77), neither
\* its status version nor an older one backs a checkpoint again, for any sequence of grants
\* and store views.
THEOREM RevocationFinal == Spec => RevocationIsFinal
  <1>1. ASSUME IInv, [Next]_vars
        PROVE  [\A o \in Observers : checkpoint'[o] # checkpoint[o] /\ Kind = "external" =>
                  \A v \in ended : verified.version > v]_vars
    <2>1. SUFFICES ASSUME checkpoint' # checkpoint, Kind = "external", NEW v \in ended
                   PROVE  verified.version > v
      OBVIOUS
    <2>2. PICK o \in Observers : Publish(o)
      BY <1>1, <2>1, OnlyPublishGrants
    <2>3. /\ verified \in Grants /\ highWater # NoView /\ highWater.status = "active"
          /\ verified.version = highWater.version
      BY <1>1, <2>1, <2>2 DEF Publish, Callers, IInv, PublicationAgreesWithHighWater, GrantHeld
    <2>4. highWater.version \in Nat /\ v \in Nat /\ v <= highWater.version /\ v # highWater.version
      BY <1>1, <2>1, <2>3 DEF IInv, TypeOK, EndedIsBehind, ViewRecord
    <2>5. QED
      BY <2>3, <2>4
  <1>2. QED
    BY <1>1, Invariance, PTL DEF Spec, RevocationIsFinal

\* A grant that passes assertValidity at a sample is valid at that sample.
LEMMA ValidityDecides ==
  ASSUME NEW g \in Grants, NEW now \in Nat, ValidityCode(g, now) = "ok"
  PROVE  ValidAt(g, now)
  <1>1. /\ g.status \in Statuses /\ g.issued \in Nat /\ g.refresh \in Nat
        /\ g.grace \in Nat /\ g.expires \in Nat
    BY ConstantsAssumption DEF GrantRecord
  <1>2. QED
    BY <1>1 DEF ValidityCode, ValidAt, Statuses

\* Resume lets an external observe on only with a grant valid at its own sample.
LEMMA ResumeIsValid ==
  ASSUME IInv, NEW c \in Callers, Resume(c), pc' # [pc EXCEPT ![c] = "idle"], Kind = "external"
  PROVE  ValidAt(verified', lastTime')
  <1>1. verified \in Grants
    BY DEF Resume, Interrupted, IInv, GrantHeld
  <1>2. PICK a \in ClockAnswers :
          Clock(a, verified) /\ ClockCode(a) = "ok" /\ ValidityCode(verified, a.time) = "ok"
    BY DEF Resume, Settle
  <1>3. lastTime' = a.time /\ a.time \in Nat /\ verified' = verified
    BY <1>1, <1>2, ClockAccepts
  <1>4. QED
    BY <1>1, <1>2, <1>3, ValidityDecides

\* Only Resume ends with the caller waiting to publish, for an external grant.
LEMMA OnlyResumePublishes ==
  ASSUME IInv, [Next]_vars, Kind = "external", NEW c \in Callers,
         pc[c] # "publishing", pc'[c] = "publishing"
  PROVE  Resume(c) /\ pc' # [pc EXCEPT ![c] = "idle"]
  <1>1. pc \in [Callers -> InFlight \cup {"idle", "queued"}]
    BY DEF IInv, TypeOK
  <1>2. ASSUME NEW d \in Callers, Progress(d) PROVE Resume(c)
    <2>1. CASE \E code \in Codes : Settle(d, code)
      BY <1>1, <2>1 DEF Settle
    <2>2. CASE \E where \in {"refreshing", "advancing", "resuming"} : Suspend(d, where)
      BY <1>1, <2>2 DEF Suspend
    <2>3. CASE Resume(d)
      BY <1>1, <2>3 DEF Resume, Settle, Suspend
    <2>4. QED
      <3>1. CASE \E code : Settle(d, code)
        BY <1>1, <3>1 DEF Settle
      <3>2. QED
        BY <1>2, <2>2, <2>3, <3>1 DEF Progress, Begin, Interrupt, RefreshFails, RefreshAnswers,
           AdvanceFails, AdvanceAnswers
  <1>3. Issuer \in Callers /\ Observers \subseteq Callers
    BY DEF Callers
  <1>4. ASSUME NEW d \in Callers, NEW code, Settle(d, code) PROVE FALSE
    BY <1>1, <1>4 DEF Settle
  <1>5. ASSUME NEW o \in Observers, CallObserve(o) PROVE FALSE
    BY <1>1, <1>5 DEF CallObserve
  <1>6. pc' # pc
    OBVIOUS
  <1>7. Resume(c)
    BY <1>2, <1>3, <1>4, <1>5, <1>6 DEF Next, ObserverProgress, Publish, PublishDisposed,
       Issue, AssertStale, AssertCurrent, Dispose, vars, calls
  <1>8. QED
    BY <1>1, <1>7

\* No observe passes its last check, and no checkpoint is affirmed, on a grant that is
\* not valid at the newest sample of the trusted clock.
THEOREM AuthorityCurrent == Spec => AuthorityIsCurrent
  <1>1. ASSUME IInv, [Next]_vars
        PROVE  [Kind = "external" =>
                 /\ \A c \in Callers :
                      pc[c] # "publishing" /\ pc'[c] = "publishing" => ValidAt(verified', lastTime')
                 /\ ruling'.by # NoObserver /\ ruling' # ruling => ValidAt(verified', lastTime')]_vars
    <2>1. SUFFICES ASSUME Kind = "external"
                   PROVE  /\ \A c \in Callers : pc[c] # "publishing" /\ pc'[c] = "publishing" =>
                                                  ValidAt(verified', lastTime')
                          /\ ruling'.by # NoObserver /\ ruling' # ruling => ValidAt(verified', lastTime')
      OBVIOUS
    <2>2. ASSUME NEW c \in Callers, pc[c] # "publishing", pc'[c] = "publishing"
          PROVE  ValidAt(verified', lastTime')
      BY <1>1, <2>1, <2>2, OnlyResumePublishes, ResumeIsValid
    <2>3. ASSUME ruling'.by # NoObserver, ruling' # ruling
          PROVE  ValidAt(verified', lastTime')
      <3>1. PICK o \in Observers : AssertCurrent(o)
        BY <1>1, <2>3 DEF Next, Progress, ObserverProgress, Begin, Interrupt, RefreshFails,
           RefreshAnswers, AdvanceFails, AdvanceAnswers, Resume, Publish, PublishDisposed,
           Issue, CallObserve, AssertStale, Refusal, Dispose, vars
      <3>2. verified \in Grants
        BY <1>1, <2>1, <3>1 DEF AssertCurrent, IInv, GrantHeld
      <3>3. PICK a \in ClockAnswers : Clock(a, verified) /\ AssertCode(a) = "ok"
        BY <2>3, <3>1 DEF AssertCurrent, Refusal
      <3>4. ClockCode(a) = "ok" /\ ValidityCode(verified, a.time) = "ok"
        BY <2>1, <3>3 DEF AssertCode
      <3>5. lastTime' = a.time /\ a.time \in Nat /\ verified' = verified
        BY <1>1, <3>2, <3>3, <3>4, ClockAccepts
      <3>6. QED
        BY <3>2, <3>4, <3>5, ValidityDecides
    <2>4. QED
      BY <2>2, <2>3
  <1>2. QED
    BY <1>1, Invariance, PTL DEF Spec, AuthorityIsCurrent

-----------------------------------------------------------------------------
(* Refinement: the operation implements the checkpoint authority.           *)

\* A clock call inside an observe is invisible to the authority unless it disposes.
LEMMA ClockRefines ==
  ASSUME TypeOK, NEW a \in ClockAnswers, NEW g, Clock(a, g), UNCHANGED <<checkpoint, ruling>>
  PROVE  [Authority!ANext]_(Authority!avars)
  <1>1. CASE ~a.disposes
    BY <1>1 DEF Clock, Authority!avars, TypeOK
  <1>2. CASE a.disposes
    <2>1. ~disposed /\ disposed' /\ generation' = generation + 1
      BY <1>2 DEF Clock, Possible
    <2>2. Authority!Close
      BY <2>1 DEF Authority!Close
    <2>3. QED
      BY <2>2 DEF Authority!ANext
  <1>3. QED
    BY <1>1, <1>2

\* A step that leaves disposal, generation, checkpoints and ruling alone is invisible.
LEMMA AuthorityStutters ==
  ASSUME UNCHANGED <<disposed, generation, checkpoint, ruling>>
  PROVE  [Authority!ANext]_(Authority!avars)
  BY DEF Authority!avars

\* Between its first clock call and its last check an observe is invisible.
LEMMA ProgressRefines ==
  ASSUME TypeOK, NEW c \in Callers, Progress(c)
  PROVE  [Authority!ANext]_(Authority!avars)
  <1>1. CASE Begin(c) \/ RefreshAnswers(c) \/ Resume(c)
    <2>1. PICK a \in ClockAnswers, g \in Grants \cup {NoGrant} : Clock(a, g)
      BY <1>1 DEF Begin, RefreshAnswers, Resume, TypeOK
    <2>2. UNCHANGED <<checkpoint, ruling>>
      BY <1>1 DEF Begin, RefreshAnswers, Resume
    <2>3. QED
      BY <2>1, <2>2, ClockRefines
  <1>2. CASE Interrupt(c) \/ RefreshFails(c) \/ AdvanceFails(c) \/ AdvanceAnswers(c)
    <2>1. UNCHANGED <<disposed, generation, checkpoint, ruling>>
      BY <1>2 DEF Interrupt, RefreshFails, AdvanceFails, AdvanceAnswers
    <2>2. QED
      BY <2>1, AuthorityStutters
  <1>3. QED
    BY <1>1, <1>2 DEF Progress

\* Issuing a checkpoint is the authority granting the next epoch.
LEMMA PublishRefines ==
  ASSUME NEW o \in Observers, Publish(o)
  PROVE  [Authority!ANext]_(Authority!avars)
  <1>1. Authority!Grant(o)
    BY DEF Publish, Authority!Grant
  <1>2. QED
    BY <1>1 DEF Authority!ANext

\* assertCurrent affirms the newest checkpoint, refuses, or closes with its clock.
LEMMA AssertRefines ==
  ASSUME TypeOK, NEW o \in Observers, AssertStale(o) \/ AssertCurrent(o)
  PROVE  [Authority!ANext]_(Authority!avars)
  <1>denied. [by |-> Refusal.by, epoch |-> Refusal.generation] = Authority!Denied
    BY DEF Refusal, Authority!Denied
  <1>1. CASE AssertStale(o)
    <2>1. Authority!Refuse
      BY <1>1, <1>denied DEF AssertStale, core, calls, Authority!Refuse
    <2>2. QED
      BY <2>1 DEF Authority!ANext
  <1>2. CASE AssertCurrent(o)
    <2>1. PICK a \in ClockAnswers :
            /\ Clock(a, verified)
            /\ ruling' = IF AssertCode(a) = "ok"
                         THEN [by |-> o, generation |-> generation]
                         ELSE Refusal
      BY <1>2 DEF AssertCurrent
    <2>2. ~disposed /\ checkpoint[o] # 0 /\ checkpoint[o] = generation /\ UNCHANGED checkpoint
      BY <1>2 DEF AssertCurrent, calls
    <2>3. CASE a.disposes
      <3>1. AssertCode(a) # "ok"
        BY <2>3, <2>2 DEF AssertCode, ClockCode
      <3>2. disposed' /\ generation' = generation + 1 /\ ruling' = Refusal
        BY <2>1, <2>3, <3>1 DEF Clock
      <3>3. Authority!Close
        BY <2>2, <3>2, <1>denied DEF Authority!Close
      <3>4. QED
        BY <3>3 DEF Authority!ANext
    <2>4. CASE ~a.disposes
      <3>1. disposed' = disposed /\ generation' = generation
        BY <2>1, <2>4 DEF Clock, TypeOK
      <3>2. CASE AssertCode(a) = "ok"
        <4>1. Authority!Affirm(o)
          BY <2>1, <2>2, <3>1, <3>2 DEF Authority!Affirm
        <4>2. QED
          BY <4>1 DEF Authority!ANext
      <3>3. CASE AssertCode(a) # "ok"
        <4>1. Authority!Refuse
          BY <2>1, <2>2, <3>1, <3>3, <1>denied DEF Authority!Refuse
        <4>2. QED
          BY <4>1 DEF Authority!ANext
      <3>4. QED
        BY <3>2, <3>3
    <2>5. QED
      BY <2>3, <2>4
  <1>3. QED
    BY <1>1, <1>2

\* disposeProtectionOperation closes the authority.
LEMMA DisposeRefines ==
  ASSUME Dispose
  PROVE  [Authority!ANext]_(Authority!avars)
  <1>1. Authority!Close
    BY DEF Dispose, calls, Authority!Close
  <1>2. QED
    BY <1>1 DEF Authority!ANext

\* Every step of the operation is a step of the authority or invisible to it.
LEMMA StepRefines ==
  ASSUME TypeOK, [Next]_vars
  PROVE  [Authority!ANext]_(Authority!avars)
  <1>1. CASE Progress(Issuer)
    BY <1>1, ProgressRefines DEF Callers
  <1>2. CASE Issue \/ \E o \in Observers : CallObserve(o) \/ PublishDisposed(o)
    <2>1. UNCHANGED <<disposed, generation, checkpoint, ruling>>
      BY <1>2 DEF Issue, CallObserve, PublishDisposed, core
    <2>2. QED
      BY <2>1, AuthorityStutters
  <1>3. ASSUME NEW o \in Observers,
               Progress(o) \/ Publish(o) \/ AssertStale(o) \/ AssertCurrent(o)
        PROVE  [Authority!ANext]_(Authority!avars)
    BY <1>3, ProgressRefines, PublishRefines, AssertRefines DEF Callers
  <1>4. CASE Dispose
    BY <1>4, DisposeRefines
  <1>5. CASE UNCHANGED vars
    BY <1>5, AuthorityStutters DEF vars, core, calls
  <1>6. QED
    BY <1>1, <1>2, <1>3, <1>4, <1>5 DEF Next, ObserverProgress

\* What readers see of an operation is a checkpoint authority: however observes, refreshes
\* and disposal interleave, at most the newest checkpoint is ever affirmed.
THEOREM Refinement == Spec => ImplementsCheckpointAuthority
  <1>1. ASSUME Init PROVE Authority!AInit
    BY <1>1 DEF Init, Refusal, Authority!AInit, Authority!Denied
  <1>2. ASSUME TypeOK, [Next]_vars PROVE [Authority!ANext]_(Authority!avars)
    BY <1>2, StepRefines
  <1>3. QED
    BY <1>1, <1>2, TypeCorrect, PTL DEF Spec, ImplementsCheckpointAuthority, Authority!ASpec

-----------------------------------------------------------------------------
(* What the checkpoint authority means for its readers                      *)

\* A checkpoint belongs to one reader: observe never hands out a generation twice.
OneReaderPerGeneration ==
  \A o, p \in Observers :
    /\ checkpoint[o] <= generation
    /\ checkpoint[o] # 0 /\ checkpoint[p] = checkpoint[o] => p = o

\* The checkpoint of o was overtaken by a newer one or by disposal.
Overtaken(o) == checkpoint[o] # 0 /\ (disposed \/ checkpoint[o] # generation)

\* A reader that is affirmed is the only one that could have been.  A reader that was
\* overtaken stays so, and is not affirmed before an observe gives it a new checkpoint.
AffirmsAlone ==
  \A o \in Observers :
    /\ ruling' # ruling /\ ruling'.by = o =>
         ~Overtaken(o)' /\ \A p \in Observers : checkpoint'[p] = 0 \/ p = o \/ Overtaken(p)'
    /\ Overtaken(o) /\ checkpoint'[o] = checkpoint[o] =>
         Overtaken(o)' /\ (ruling' # ruling => ruling'.by # o)

\* Both follow from what the operation promises its readers, the checkpoint authority.
LEMMA AuthorityKeepsReadersApart ==
  ASSUME TypeOK, TypeOK', OneReaderPerGeneration, [Next]_vars
  PROVE  OneReaderPerGeneration' /\ AffirmsAlone
  <1> DEFINE Seen == [by |-> ruling.by, epoch |-> ruling.generation]
  <1>1. /\ generation \in Nat /\ checkpoint \in [Observers -> Nat] /\ NoObserver \notin Observers
        /\ disposed \in BOOLEAN
    BY ConstantsAssumption DEF TypeOK
  <1>2. Seen' = Seen => ruling' = ruling
    <2>1. /\ ruling \in [by: Observers \cup {NoObserver}, generation: Nat]
          /\ ruling' \in [by: Observers \cup {NoObserver}, generation: Nat]
      BY DEF TypeOK
    <2>2. QED
      BY <2>1
  <1>3. [Authority!ANext]_(Authority!avars)
    BY StepRefines
  <1> HIDE DEF Seen
  <1>4. ASSUME NEW h \in Observers, Authority!Grant(h) PROVE
          /\ ~disposed /\ ~disposed' /\ generation' = generation + 1
          /\ checkpoint' = [checkpoint EXCEPT ![h] = generation + 1] /\ ruling' = ruling
    BY <1>1, <1>2, <1>4 DEF Authority!Grant, Seen
  <1>5. ASSUME NEW h \in Observers, Authority!Affirm(h) PROVE
          /\ ~disposed /\ ~disposed' /\ generation' = generation /\ checkpoint' = checkpoint
          /\ checkpoint[h] # 0 /\ checkpoint[h] = generation /\ ruling'.by = h
    BY <1>1, <1>5 DEF Authority!Affirm
  <1>6. ASSUME Authority!Refuse PROVE
          /\ disposed' = disposed /\ generation' = generation /\ checkpoint' = checkpoint
          /\ ruling'.by = NoObserver
    <2>1. Authority!Denied.by = NoObserver
      BY DEF Authority!Denied
    <2>2. QED
      BY <1>6, <2>1 DEF Authority!Refuse, TypeOK
  <1>7. ASSUME Authority!Close PROVE
          /\ disposed' /\ generation' = generation + 1 /\ checkpoint' = checkpoint
          /\ ruling' = ruling \/ ruling'.by = NoObserver
    <2>1. Authority!Denied.by = NoObserver
      BY DEF Authority!Denied
    <2>2. QED
      BY <1>2, <1>7, <2>1 DEF Authority!Close, TypeOK, Seen
  <1>8. ASSUME UNCHANGED Authority!avars PROVE
          disposed' = disposed /\ generation' = generation /\ checkpoint' = checkpoint /\ ruling' = ruling
    BY <1>2, <1>8 DEF Authority!avars, TypeOK, Seen
  <1>9. OneReaderPerGeneration'
    BY <1>1, <1>3, <1>4, <1>5, <1>6, <1>7, <1>8 DEF OneReaderPerGeneration, Authority!ANext
  <1>10. ASSUME NEW o \in Observers, ruling' # ruling, ruling'.by = o
         PROVE  ~Overtaken(o)' /\ \A p \in Observers : checkpoint'[p] = 0 \/ p = o \/ Overtaken(p)'
    BY <1>1, <1>3, <1>4, <1>5, <1>6, <1>7, <1>8, <1>10
       DEF OneReaderPerGeneration, Overtaken, Authority!ANext
  <1>11. ASSUME NEW o \in Observers, Overtaken(o), checkpoint'[o] = checkpoint[o]
         PROVE  Overtaken(o)' /\ (ruling' # ruling => ruling'.by # o)
    BY <1>1, <1>3, <1>4, <1>5, <1>6, <1>7, <1>8, <1>11
       DEF OneReaderPerGeneration, Overtaken, Authority!ANext
  <1>12. QED
    BY <1>9, <1>10, <1>11 DEF AffirmsAlone

\* No two readers of an operation hold the same checkpoint, however their observes, its
\* refreshes and its disposal interleave.
THEOREM CheckpointsDiffer == Spec => []OneReaderPerGeneration
  <1>1. ASSUME Init PROVE OneReaderPerGeneration
    BY <1>1 DEF Init, OneReaderPerGeneration
  <1>2. ASSUME TypeOK, TypeOK', OneReaderPerGeneration, [Next]_vars PROVE OneReaderPerGeneration'
    BY <1>2, AuthorityKeepsReadersApart
  <1>3. QED
    BY <1>1, <1>2, TypeCorrect, PTL DEF Spec

\* assertCurrent affirms one reader at a time, and never again a checkpoint that a newer
\* one or the disposal overtook.
THEOREM AffirmationIsExclusive == Spec => [][AffirmsAlone]_vars
  <1>1. ASSUME TypeOK, TypeOK', OneReaderPerGeneration, [Next]_vars PROVE AffirmsAlone
    BY <1>1, AuthorityKeepsReadersApart
  <1>2. QED
    BY <1>1, CheckpointsDiffer, TypeCorrect, PTL DEF Spec

-----------------------------------------------------------------------------
(* Disposal                                                                 *)

\* Nobody can dispose an operation whose admission has not returned it.
IssuedFirst ==
  /\ pc[Issuer] # "idle" => issued = "issuing"
  /\ issued # "issued" => ~disposed

\* The order of admission and disposal is kept by every step.
LEMMA IssuedFirstPreserved ==
  ASSUME TypeOK, IssuedFirst, [Next]_vars
  PROVE  IssuedFirst'
  <1>1. /\ pc \in [Callers -> InFlight \cup {"idle", "queued"}]
        /\ Issuer \in Callers /\ Observers \subseteq Callers /\ Issuer \notin Observers
    BY ConstantsAssumption DEF TypeOK, Callers
  <1>2. ASSUME NEW c \in Callers, pc[c] # "idle", NEW code, Settle(c, code),
               issued = "issuing" \/ c # Issuer,
               disposed' # disposed => issued = "issued"
        PROVE  IssuedFirst'
    BY <1>1, <1>2 DEF Settle, IssuedFirst
  <1>3. ASSUME NEW c \in Callers, pc[c] # "idle", NEW where, Suspend(c, where),
               disposed' # disposed => issued = "issued"
        PROVE  IssuedFirst'
    BY <1>1, <1>3 DEF Suspend, IssuedFirst
  <1>4. ASSUME NEW c \in Callers, Progress(c) PROVE IssuedFirst'
    <2>1. pc[c] # "idle"
      BY <1>4 DEF Progress, Begin, Interrupt, RefreshFails, RefreshAnswers, AdvanceFails,
         AdvanceAnswers, Resume
    <2>2. issued = "issuing" \/ c # Issuer
      BY <2>1 DEF IssuedFirst
    <2>3. disposed' # disposed => issued = "issued"
      BY <1>4 DEF TypeOK, Progress, Begin, Interrupt, RefreshFails, RefreshAnswers, AdvanceFails,
         AdvanceAnswers, Resume, Clock, Possible
    <2>4. (\E code : Settle(c, code)) \/ (\E where : Suspend(c, where))
      BY <1>4 DEF Progress, Begin, Interrupt, RefreshFails, RefreshAnswers, AdvanceFails,
         AdvanceAnswers, Resume
    <2>5. QED
      BY <1>2, <1>3, <2>1, <2>2, <2>3, <2>4
  <1>5. ASSUME Issue PROVE IssuedFirst'
    BY <1>1, <1>2, <1>5 DEF Issue, IssuedFirst
  <1>6. ASSUME NEW o \in Observers, Publish(o) \/ PublishDisposed(o) PROVE IssuedFirst'
    BY <1>1, <1>2, <1>6 DEF Publish, PublishDisposed
  <1>7. ASSUME NEW o \in Observers, CallObserve(o) PROVE IssuedFirst'
    BY <1>1, <1>7 DEF CallObserve, IssuedFirst, core
  <1>8. ASSUME NEW o \in Observers, AssertStale(o) \/ AssertCurrent(o) PROVE IssuedFirst'
    BY <1>8 DEF TypeOK, AssertStale, AssertCurrent, Clock, Possible, IssuedFirst, core, calls
  <1>9. ASSUME Dispose PROVE IssuedFirst'
    BY <1>9 DEF Dispose, IssuedFirst, calls
  <1>10. ASSUME UNCHANGED vars PROVE IssuedFirst'
    BY <1>10 DEF IssuedFirst, vars, core, calls
  <1>11. QED
    BY <1>1, <1>4, <1>5, <1>6, <1>7, <1>8, <1>9, <1>10 DEF Next, ObserverProgress

\* No operation is disposed before its admission has returned it.
LEMMA IssuedFirstHolds == Spec => []IssuedFirst
  <1>1. ASSUME Init PROVE IssuedFirst
    BY <1>1 DEF Init, IssuedFirst
  <1>2. QED
    BY <1>1, IssuedFirstPreserved, TypeCorrect, PTL DEF Spec

\* Once the operation is disposed every observe still in flight, queued or suspended at
\* any await, ends with OPERATION_DISPOSED.
THEOREM DisposalDecides == Spec => DisposalWins
  <1>1. ASSUME TypeOK, IssuedFirst, [Next]_vars
        PROVE  [\A c \in Callers : disposed /\ pc[c] # "idle" /\ pc'[c] = "idle" =>
                  outcome' = "OPERATION_DISPOSED"]_vars
    <2>1. SUFFICES ASSUME disposed, NEW c \in Callers, pc[c] # "idle", pc'[c] = "idle"
                   PROVE  outcome' = "OPERATION_DISPOSED"
      OBVIOUS
    <2>2. pc \in [Callers -> InFlight \cup {"idle", "queued"}] /\ Observers \subseteq Callers
      BY <1>1 DEF TypeOK, Callers
    <2>3. ASSUME NEW o \in Observers, CallObserve(o) PROVE FALSE
      BY <2>1, <2>2, <2>3 DEF CallObserve
    <2>4. ASSUME NEW d \in Callers, Begin(d) PROVE outcome' = "OPERATION_DISPOSED"
      BY <2>1, <2>4 DEF Begin, ClockCode, Settle
    <2>5. ASSUME NEW d \in Callers, Interrupt(d) PROVE outcome' = "OPERATION_DISPOSED"
      BY <2>1, <2>5 DEF Interrupt, InterruptCode, Settle
    <2>6. ASSUME NEW d \in Callers, Progress(d) PROVE outcome' = "OPERATION_DISPOSED"
      BY <2>1, <2>4, <2>5, <2>6 DEF Progress, RefreshFails, RefreshAnswers, AdvanceFails,
         AdvanceAnswers, Resume, Interrupted
    <2>7. ~Issue
      BY <1>1, <2>1 DEF Issue, IssuedFirst
    <2>8. ASSUME NEW o \in Observers, Publish(o) \/ PublishDisposed(o)
          PROVE  outcome' = "OPERATION_DISPOSED"
      BY <2>1, <2>8 DEF Publish, PublishDisposed, Settle
    <2>9. pc' # pc
      BY <2>1
    <2>10. Issuer \in Callers
      BY DEF Callers
    <2>11. QED
      BY <1>1, <2>2, <2>3, <2>6, <2>7, <2>8, <2>9, <2>10 DEF Next, ObserverProgress, AssertStale,
         AssertCurrent, Dispose, vars, calls
  <1>2. QED
    BY <1>1, IssuedFirstHolds, TypeCorrect, PTL DEF Spec, DisposalWins

\* Between any two steps of an operation (protection-operation.js) the run's invariant holds,
\* for any number of callers and any answers.
THEOREM OperationInvariantHolds == Spec => []OperationInvariant
<1>1. TypeOK /\ SerialisedObservation /\ PublicationAgreesWithHighWater /\ HighWaterNeverAheadOfClock => OperationInvariant
  BY DEF OperationInvariant
<1>. QED  BY <1>1, TypeCorrect, Serialised, PublicationAgrees, HighWaterBehindClock, PTL

-----------------------------------------------------------------------------
(* The observe in front settles                                             *)

Phases == [queued |-> 5, refreshing |-> 4, advancing |-> 3, resuming |-> 2,
           publishing |-> 1, idle |-> 0]

\* The front observe of o, n awaits from its end at most.
Front(o, n) == Running(o) /\ pc[o] # "idle" /\ Phases[pc[o]] <= n

\* A continuation settles its observe or takes it to a later await: no await of an
\* observe is entered twice.
LEMMA ProgressAdvances ==
  ASSUME IInv, NEW c \in Callers,
         Progress(c) \/ (c \in Observers /\ (Publish(c) \/ PublishDisposed(c)))
  PROVE  /\ Running(c)
         /\ \/ pc'[c] = "idle"
            \/ UNCHANGED queue /\ pc'[c] # "idle" /\ Phases[pc'[c]] < Phases[pc[c]]
  <1>0. pc \in [Callers -> InFlight \cup {"idle", "queued"}]
    BY DEF IInv, TypeOK
  <1>1. Running(c)
    BY FlightRuns DEF Progress, Begin, Interrupt, RefreshFails, RefreshAnswers, AdvanceFails,
       AdvanceAnswers, Resume, Publish, PublishDisposed, Running, InFlight
  <1>2. ASSUME NEW code, Settle(c, code) PROVE pc'[c] = "idle"
    BY <1>0, <1>2 DEF Settle
  <1>3. ASSUME NEW where, Suspend(c, where) PROVE UNCHANGED queue /\ pc'[c] = where
    BY <1>0, <1>3 DEF Suspend
  <1>4. CASE Begin(c)
    <2>1. \/ \E code : Settle(c, code)
          \/ Suspend(c, "refreshing") \/ Suspend(c, "advancing") \/ Suspend(c, "publishing")
      BY <1>4 DEF Begin
    <2>2. pc[c] = "queued"
      BY <1>4 DEF Begin
    <2>3. QED
      BY <1>1, <1>2, <1>3, <2>1, <2>2 DEF Phases
  <1>5. CASE RefreshAnswers(c)
    <2>1. (\E code : Settle(c, code)) \/ Suspend(c, "advancing")
      BY <1>5 DEF RefreshAnswers
    <2>2. pc[c] = "refreshing"
      BY <1>5 DEF RefreshAnswers
    <2>3. QED
      BY <1>1, <1>2, <1>3, <2>1, <2>2 DEF Phases
  <1>6. CASE AdvanceAnswers(c)
    <2>1. (\E code : Settle(c, code)) \/ Suspend(c, "resuming")
      BY <1>6 DEF AdvanceAnswers
    <2>2. pc[c] = "advancing"
      BY <1>6 DEF AdvanceAnswers
    <2>3. QED
      BY <1>1, <1>2, <1>3, <2>1, <2>2 DEF Phases
  <1>7. CASE Resume(c)
    <2>1. (\E code : Settle(c, code)) \/ Suspend(c, "publishing")
      BY <1>7 DEF Resume
    <2>2. pc[c] = "resuming"
      BY <1>7 DEF Resume
    <2>3. QED
      BY <1>1, <1>2, <1>3, <2>1, <2>2 DEF Phases
  <1>8. CASE Interrupt(c) \/ RefreshFails(c) \/ AdvanceFails(c)
    BY <1>1, <1>2, <1>8 DEF Interrupt, RefreshFails, AdvanceFails
  <1>9. CASE c \in Observers /\ (Publish(c) \/ PublishDisposed(c))
    BY <1>1, <1>2, <1>9 DEF Publish, PublishDisposed
  <1>10. QED
    BY <1>4, <1>5, <1>6, <1>7, <1>8, <1>9 DEF Progress

\* While an observe is in front nobody else's goes on, and callers queue up behind it.
LEMMA FrontStays ==
  ASSUME IInv, NEW o \in Observers, Running(o), pc[o] # "idle", [Next]_vars, ~ObserverProgress(o)
  PROVE  Running(o)' /\ pc'[o] = pc[o]
  <1>0. /\ pc \in [Callers -> InFlight \cup {"idle", "queued"}] /\ queue \in Seq(Callers)
        /\ Observers \subseteq Callers /\ Issuer \in Callers /\ Issuer # o
    BY ConstantsAssumption DEF IInv, TypeOK, Callers
  <1>1. ASSUME NEW c \in Callers, Progress(c) \/ (c \in Observers /\ ObserverProgress(c)) PROVE FALSE
    <2>1. Running(c)
      BY <1>1, ProgressAdvances DEF ObserverProgress
    <2>2. c = o
      BY <2>1 DEF Running
    <2>3. QED
      BY <1>1, <2>2 DEF ObserverProgress
  <1>2. ~Issue
    <2>1. ASSUME Issue PROVE Running(Issuer)
      BY <1>0, <2>1, FlightRuns DEF Issue, InFlight
    <2>2. QED
      BY <1>0, <2>1 DEF Running
  <1>3. ASSUME NEW q \in Observers, CallObserve(q) PROVE Running(o)' /\ pc'[o] = pc[o]
    <2>1. queue' = Append(queue, q) /\ pc' = [pc EXCEPT ![q] = "queued"] /\ pc[q] = "idle"
      BY <1>3 DEF CallObserve
    <2>2. queue' # <<>> /\ Head(queue') = Head(queue)
      BY <1>0, <2>1 DEF Running
    <2>3. QED
      BY <1>0, <2>1, <2>2 DEF Running
  <1>4. CASE UNCHANGED <<queue, pc>>
    BY <1>4 DEF Running
  <1>5. QED
    BY <1>0, <1>1, <1>2, <1>3, <1>4 DEF Next, AssertStale, AssertCurrent, Dispose, vars, calls

\* The step the front observe has whatever its provider does: an assignment of every
\* variable, in which the callback it waits for throws.
FrontGivesUp(o) ==
  /\ Settle(o, IF disposed THEN "OPERATION_DISPOSED"
               ELSE IF pc[o] = "publishing" THEN "current"
               ELSE IF pc[o] # "queued" /\ Interrupted(o) THEN "STATE_ROLLBACK"
               ELSE "PROVIDER_FAILED")
  /\ LET grants == pc[o] = "publishing" /\ ~disposed
     IN  /\ generation' = IF grants THEN generation + 1 ELSE generation
         /\ checkpoint' = IF grants THEN [checkpoint EXCEPT ![o] = generation + 1] ELSE checkpoint
  /\ UNCHANGED <<disposed, lastTime, verified, highWater, ruling, ended>>

LEMMA FrontHasAStep ==
  ASSUME IInv, NEW o \in Observers, Running(o), pc[o] # "idle", FrontGivesUp(o)
  PROVE  <<ObserverProgress(o)>>_vars
  <1>0. pc \in [Callers -> InFlight \cup {"idle", "queued"}] /\ o \in Callers
    BY DEF IInv, TypeOK, Callers
  <1>1. vars' # vars
    <2>1. pc'[o] = "idle"
      BY <1>0 DEF FrontGivesUp, Settle
    <2>2. QED
      BY <2>1 DEF vars, calls
  <1> DEFINE a == [fault |-> "throw", time |-> 0, disposes |-> FALSE]
  <1>2. /\ a \in ClockAnswers /\ Possible(a) /\ ~a.disposes
        /\ ClockCode(a) = IF disposed THEN "OPERATION_DISPOSED" ELSE "PROVIDER_FAILED"
    BY DEF ClockAnswers, Possible, ClockCode
  <1>3. ASSUME pc[o] # "publishing"
        PROVE  /\ Clock(a, verified)
               /\ UNCHANGED <<disposed, generation, lastTime, verified, highWater,
                              checkpoint, ruling, ended>>
    BY <1>2, <1>3 DEF FrontGivesUp, Clock, IInv, TypeOK
  <1> HIDE DEF a
  <1>4. CASE pc[o] = "queued"
    <2>1. Settle(o, ClockCode(a)) /\ ClockCode(a) # "ok"
      BY <1>2, <1>4 DEF FrontGivesUp
    <2>2. Begin(o)
      BY <1>2, <1>3, <1>4, <2>1 DEF Begin, Running
    <2>3. QED
      BY <1>1, <2>2 DEF ObserverProgress, Progress
  <1>5. CASE pc[o] \in {"refreshing", "advancing", "resuming"} /\ Interrupted(o)
    <2>1. Settle(o, InterruptCode)
      BY <1>5 DEF FrontGivesUp, InterruptCode
    <2>2. Interrupt(o)
      BY <1>3, <1>5, <2>1 DEF Interrupt
    <2>3. QED
      BY <1>1, <2>2 DEF ObserverProgress, Progress
  <1>6. CASE pc[o] \in {"refreshing", "advancing", "resuming"} /\ ~Interrupted(o)
    <2>1. Settle(o, "PROVIDER_FAILED") /\ ~disposed
      BY <1>6 DEF FrontGivesUp, Interrupted
    <2>2. RefreshFails(o) \/ AdvanceFails(o) \/ Resume(o)
      BY <1>2, <1>3, <1>6, <2>1 DEF RefreshFails, AdvanceFails, Resume, RefreshCodes
    <2>3. QED
      BY <1>1, <2>2 DEF ObserverProgress, Progress
  <1>7. CASE pc[o] = "publishing"
    <2>1. Publish(o) \/ PublishDisposed(o)
      BY <1>7 DEF FrontGivesUp, Publish, PublishDisposed
    <2>2. QED
      BY <1>1, <2>1 DEF ObserverProgress
  <1>8. QED
    BY <1>0, <1>4, <1>5, <1>6, <1>7 DEF InFlight

\* FrontHasAStep in the words of fairness.
FrontGoesOn(o) == Running(o) /\ pc[o] # "idle" => ENABLED <<ObserverProgress(o)>>_vars

\* An observe in front with m awaits left settles, or has n left, some time.
FrontComesTo(o, m, n) ==
  Spec /\ WF_vars(ObserverProgress(o)) /\ []FrontGoesOn(o)
    => (Front(o, m) ~> pc[o] = "idle" \/ Front(o, n))

LEMMA FrontComesNearer ==
  ASSUME NEW o \in Observers, NEW m \in 1..5, NEW n \in 0..4, m = n + 1
  PROVE  FrontComesTo(o, m, n)
  <1> DEFINE Far == Front(o, m)
             Near == Front(o, n)
             Idle == pc[o] = "idle"
             Enabled == ENABLED <<ObserverProgress(o)>>_vars
  <1>1. o \in Callers
    BY DEF Callers
  <1>2. IInv /\ Far /\ [Next]_vars /\ ~ObserverProgress(o) => Far'
    BY FrontStays DEF Front
  <1>3. IInv /\ IInv' /\ Far /\ ObserverProgress(o) => Idle' \/ Near'
    <2> SUFFICES ASSUME IInv, IInv', Far, ObserverProgress(o), ~Idle' PROVE Near'
      OBVIOUS
    <2>1. UNCHANGED queue /\ pc'[o] # "idle" /\ Phases[pc'[o]] < Phases[pc[o]]
      BY <1>1, ProgressAdvances DEF ObserverProgress
    <2>2. pc[o] \in InFlight \cup {"idle", "queued"} /\ pc'[o] \in InFlight \cup {"idle", "queued"}
      <3>1. /\ pc \in [Callers -> InFlight \cup {"idle", "queued"}]
            /\ pc' \in [Callers -> InFlight \cup {"idle", "queued"}]
        BY DEF IInv, TypeOK, InFlight
      <3>2. QED
        BY <1>1, <3>1
    <2>3. QED
      <3>1. Phases[pc[o]] \in Nat /\ Phases[pc'[o]] \in Nat
        BY <2>2 DEF InFlight, Phases
      <3>2. QED
        BY <2>1, <3>1 DEF Front, Running
  <1>4. FrontGoesOn(o) /\ Far => Enabled
    BY DEF FrontGoesOn, Front
  <1> HIDE DEF Far, Near, Idle
  <1>5. Spec /\ WF_vars(ObserverProgress(o)) /\ []FrontGoesOn(o) => (Far ~> Idle \/ Near)
    BY <1>2, <1>3, <1>4, Invariance, PTL DEF Spec
  <1>6. QED
    BY <1>5, PTL DEF Far, Near, Idle, FrontComesTo

\* The observe that holds the queue leaves it, whatever its provider and its clock answer
\* and whenever the operation is disposed, provided that they answer.
THEOREM FrontObserveSettles ==
  FairSpec /\ (\A o \in Observers : []FrontGoesOn(o))
    => \A o \in Observers : Running(o) ~> pc[o] = "idle"
  <1> DEFINE Settles(o) == Running(o) ~> pc[o] = "idle"
             Fair(o) == WF_vars(ObserverProgress(o))
             GoesOn(o) == []FrontGoesOn(o)
  <1>1. ASSUME NEW o \in Observers PROVE Spec /\ Fair(o) /\ GoesOn(o) => Settles(o)
    <2>1. /\ FrontComesTo(o, 5, 4) /\ FrontComesTo(o, 4, 3) /\ FrontComesTo(o, 3, 2)
          /\ FrontComesTo(o, 2, 1) /\ FrontComesTo(o, 1, 0)
      BY FrontComesNearer
    <2>2. IInv => (Running(o) => pc[o] = "idle" \/ Front(o, 5)) /\ ~Front(o, 0)
      BY DEF IInv, TypeOK, Callers, InFlight, Front, Phases
    <2>3. QED
      BY <2>1, <2>2, Invariance, PTL DEF FrontComesTo
  <1>2. FairSpec => Spec /\ \A o \in Observers : Fair(o)
    BY PTL DEF FairSpec
  <1> HIDE DEF Settles, Fair, GoesOn
  <1>3. FairSpec /\ (\A o \in Observers : GoesOn(o)) => \A o \in Observers : Settles(o)
    BY <1>1, <1>2
  <1>4. QED
    BY <1>3, PTL DEF Settles, GoesOn
=============================================================================
