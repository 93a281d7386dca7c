--------------------- MODULE TransportAssociationProofs ---------------------
(***************************************************************************)
(* Theorems about TransportAssociation, for any number of calls and ids,   *)
(* any capacity, lifetime and body ceiling.                                *)
(***************************************************************************)
EXTENDS TransportAssociation, FiniteSetTheorems, TLAPS

\* What Cardinality needs to be known of the map.
MapIsFinite == IsFiniteSet(associations)

\* The map as the process keeps it, whatever its clock does.
MapInv == TypeOK /\ MapIsFinite /\ CapacityIsBounded

\* A steady clock has not gone back behind a lifetime it has seen begin.
ConsumedInPast ==
  \A c \in Calls : context[c] # NoContext =>
    context[c].issued <= now /\ consumedAt[c] <= now

\* An association is in the map until its lifetime ends.
LiveIsKept ==
  \A c \in Calls : context[c] # NoContext /\ context[c].expires > now =>
    [id |-> context[c].id, expires |-> context[c].expires] \in associations

\* Only a call that consumed its association reads a body.
ReadersConsumed == \A c \in Calls : pc[c] = "reading" => context[c] # NoContext

\* Inductive invariant of the process under a steady clock.
LifetimeInv ==
  TypeOK /\ ConsumedInPast /\ LiveIsKept /\ ReadersConsumed /\ ConsumedOncePerLifetime

-----------------------------------------------------------------------------
(* Types and capacity, for any clock                                        *)

\* A settled call keeps the types of its locals.
LEMMA SettleType ==
  ASSUME TypeOK, NEW c \in Calls, NEW result \in RejectionCodes \cup {"accepted"}, Settle(c, result)
  PROVE  /\ pc' \in [Calls -> {"idle", "reading", "settled"}]
         /\ code' \in [Calls -> RejectionCodes \cup {"none", "accepted"}]
         /\ left' \in [Calls -> Nat]
         /\ total' \in [Calls -> 0..BodyLimit]
         /\ declared' \in [Calls -> (0..BodyLimit) \cup {NoLength}]
         /\ \A d \in Calls : pc'[d] = "reading" => pc[d] = "reading"
  BY ConstantsAssumption DEF Settle, TypeOK

\* The time a call may read is a number of ticks.
LEMMA ReadTimeType ==
  ASSUME TypeOK, NEW x \in Contexts
  PROVE  ReadTime(x) \in Nat
  <1>1. x.read \in Nat
    <2>1. x.read \in ReadLimits
      BY DEF Contexts
    <2>2. QED
      BY <2>1, ConstantsAssumption
  <1>2. x.expires \in Nat /\ now \in Nat
    <2>1. x.expires \in 0..MaxTime
      BY DEF Contexts
    <2>2. QED
      BY <2>1, ConstantsAssumption DEF TypeOK
  <1>3. QED
    BY <1>1, <1>2 DEF ReadTime

\* Every variable keeps its type.
LEMMA TypePreserved ==
  ASSUME TypeOK, [Next]_vars
  PROVE  TypeOK'
  <1>1. CASE UNCHANGED vars
    BY <1>1 DEF vars, TypeOK
  <1>2. ASSUME NEW c \in Calls, Refuse(c) PROVE TypeOK'
    <2>1. PICK result \in RejectionCodes : Settle(c, result)
      BY <1>2 DEF Refuse, RejectionCodes
    <2>2. UNCHANGED <<now, associations, context, consumedAt>>
      BY <1>2 DEF Refuse
    <2>3. QED
      BY <2>1, <2>2, SettleType DEF TypeOK
  <1>3. ASSUME NEW c \in Calls, RefuseAssociation(c) PROVE TypeOK'
    <2>1. PICK result \in RejectionCodes : Settle(c, result)
      BY <1>3 DEF RefuseAssociation, LookupCode, RejectionCodes
    <2>2. UNCHANGED <<now, context, consumedAt>> /\ associations' = Unexpired
      BY <1>3 DEF RefuseAssociation
    <2>3. QED
      BY <2>1, <2>2, SettleType DEF TypeOK, Unexpired
  <1>4. ASSUME NEW c \in Calls, Consume(c) PROVE TypeOK'
    <2>1. PICK x \in Contexts :
            /\ associations' = Unexpired \cup {[id |-> x.id, expires |-> x.expires]}
            /\ context' = [context EXCEPT ![c] = x]
            /\ consumedAt' = [consumedAt EXCEPT ![c] = now]
            /\ \/ \E result \in RejectionCodes : Settle(c, result)
               \/ /\ pc' = [pc EXCEPT ![c] = "reading"]
                  /\ left' = [left EXCEPT ![c] = ReadTime(x)]
                  /\ \E n \in (0..BodyLimit) \cup {NoLength} :
                       declared' = [declared EXCEPT ![c] = n]
                  /\ UNCHANGED <<total, code>>
      BY <1>4 DEF Consume, RejectionCodes
    <2>2. [id |-> x.id, expires |-> x.expires] \in [id: Ids, expires: 0..MaxTime]
      BY DEF Contexts
    <2>3. /\ now' \in 0..MaxTime
          /\ associations' \subseteq [id: Ids, expires: 0..MaxTime]
          /\ context' \in [Calls -> Contexts \cup {NoContext}]
          /\ consumedAt' \in [Calls -> 0..MaxTime]
      BY <1>4, <2>1, <2>2 DEF TypeOK, Unexpired, Consume
    <2>4. CASE \E result \in RejectionCodes : Settle(c, result)
      BY <2>3, <2>4, SettleType DEF TypeOK
    <2>5. CASE /\ pc' = [pc EXCEPT ![c] = "reading"]
               /\ left' = [left EXCEPT ![c] = ReadTime(x)]
               /\ \E n \in (0..BodyLimit) \cup {NoLength} : declared' = [declared EXCEPT ![c] = n]
               /\ UNCHANGED <<total, code>>
      BY <2>3, <2>5, ReadTimeType DEF TypeOK
    <2>6. QED
      BY <2>1, <2>4, <2>5
  <1>5. ASSUME NEW c \in Calls, Chunk(c) PROVE TypeOK'
    <2>1. UNCHANGED <<now, associations, context, consumedAt>>
      BY <1>5 DEF Chunk
    <2>2. CASE \E result \in RejectionCodes : Settle(c, result)
      BY <2>1, <2>2, SettleType DEF TypeOK
    <2>3. CASE ~Full(c) /\ total' = [total EXCEPT ![c] = @ + 1] /\ UNCHANGED <<pc, code, left, declared>>
      <3>1. total[c] + 1 \in 0..BodyLimit
        BY <2>3, ConstantsAssumption DEF TypeOK, Full
      <3>2. QED
        BY <2>1, <2>3, <3>1 DEF TypeOK
    <2>4. QED
      BY <1>5, <2>2, <2>3 DEF Chunk, RejectionCodes
  <1>6. ASSUME NEW c \in Calls, End(c) \/ TimerFires(c) PROVE TypeOK'
    <2>1. PICK result \in RejectionCodes \cup {"accepted"} : Settle(c, result)
      BY <1>6 DEF End, TimerFires, RejectionCodes
    <2>2. UNCHANGED <<now, associations, context, consumedAt>>
      BY <1>6 DEF End, TimerFires
    <2>3. QED
      BY <2>1, <2>2, SettleType DEF TypeOK
  <1>7. CASE Tick
    <2>1. now' \in 0..MaxTime
      BY <1>7, ConstantsAssumption DEF Tick, TypeOK
    <2>2. left' \in [Calls -> Nat]
      BY <1>7 DEF Tick, TypeOK
    <2>3. QED
      BY <1>7, <2>1, <2>2 DEF Tick, TypeOK
  <1>8. QED
    BY <1>1, <1>2, <1>3, <1>4, <1>5, <1>6, <1>7 DEF Next

\* One step of a call touches the map only to prune it, or to prune it and add the one
\* association it consumed.
LEMMA MapStep ==
  ASSUME [Next]_vars
  PROVE  \/ associations' = associations
         \/ associations' = Unexpired
         \/ \E x \in Contexts :
              /\ LookupCode(x) = "ok"
              /\ associations' = Unexpired \cup {[id |-> x.id, expires |-> x.expires]}
  <1>1. CASE UNCHANGED vars \/ Tick
    BY <1>1 DEF vars, Tick
  <1>2. ASSUME NEW c \in Calls, Refuse(c) \/ Chunk(c) \/ End(c) \/ TimerFires(c)
        PROVE  associations' = associations
    BY <1>2 DEF Refuse, Chunk, End, TimerFires
  <1>3. ASSUME NEW c \in Calls, RefuseAssociation(c)
        PROVE  associations' = Unexpired
    BY <1>3 DEF RefuseAssociation
  <1>4. ASSUME NEW c \in Calls, Consume(c)
        PROVE  \E x \in Contexts :
                 /\ LookupCode(x) = "ok"
                 /\ associations' = Unexpired \cup {[id |-> x.id, expires |-> x.expires]}
    BY <1>4 DEF Consume
  <1>5. QED
    BY <1>1, <1>2, <1>3, <1>4 DEF Next

\* An id that may be consumed has no live entry, and leaves room for one.
LEMMA LookupAllows ==
  ASSUME NEW x, LookupCode(x) = "ok"
  PROVE  /\ \A a \in Unexpired : a.id # x.id
         /\ ~(Cardinality(Unexpired) >= Capacity)
  BY DEF LookupCode

\* The map stays finite, within its capacity and without a second entry for an id.
LEMMA MapPreserved ==
  ASSUME MapInv, [Next]_vars
  PROVE  MapInv'
  <1>1. TypeOK'
    BY TypePreserved DEF MapInv
  <1>2. /\ IsFiniteSet(Unexpired)
        /\ Cardinality(Unexpired) \in Nat
        /\ Cardinality(Unexpired) <= Cardinality(associations)
        /\ Cardinality(associations) \in Nat
    <2>1. Unexpired \subseteq associations
      BY DEF Unexpired
    <2>2. QED
      BY <2>1, FS_Subset, FS_CardinalityType DEF MapInv, MapIsFinite
  <1>3. CASE associations' = associations
    BY <1>1, <1>3 DEF MapInv, MapIsFinite, CapacityIsBounded
  <1>4. CASE associations' = Unexpired
    <2>1. Cardinality(associations') <= Capacity
      BY <1>2, <1>4, ConstantsAssumption DEF MapInv, CapacityIsBounded
    <2>2. \A a, b \in associations' : a.id = b.id => a = b
      BY <1>4 DEF MapInv, CapacityIsBounded, Unexpired
    <2>3. QED
      BY <1>1, <1>2, <1>4, <2>1, <2>2 DEF MapInv, MapIsFinite, CapacityIsBounded
  <1>5. ASSUME NEW x \in Contexts, LookupCode(x) = "ok",
               associations' = Unexpired \cup {[id |-> x.id, expires |-> x.expires]}
        PROVE  MapInv'
    <2>1. /\ IsFiniteSet(associations')
          /\ \/ Cardinality(associations') = Cardinality(Unexpired)
             \/ Cardinality(associations') = Cardinality(Unexpired) + 1
      BY <1>2, <1>5, FS_AddElement
    <2>2. Cardinality(associations') <= Capacity
      BY <1>2, <1>5, <2>1, LookupAllows, ConstantsAssumption
    <2>3. \A a, b \in associations' : a.id = b.id => a = b
      <3>1. \A a, b \in Unexpired : a.id = b.id => a = b
        BY DEF MapInv, CapacityIsBounded, Unexpired
      <3>2. \A a \in Unexpired : a.id # x.id
        BY <1>5, LookupAllows
      <3>3. QED
        BY <1>5, <3>1, <3>2
    <2>4. QED
      BY <1>1, <2>1, <2>2, <2>3 DEF MapInv, MapIsFinite, CapacityIsBounded
  <1>6. QED
    BY <1>3, <1>4, <1>5, MapStep

\* The process starts with an empty map.
LEMMA MapInitially == Init => MapInv
  <1>1. SUFFICES ASSUME Init PROVE MapInv
    OBVIOUS
  <1>2. TypeOK
    BY <1>1, ConstantsAssumption DEF Init, TypeOK
  <1>3. IsFiniteSet(associations) /\ Cardinality(associations) = 0
    BY <1>1, FS_EmptySet DEF Init
  <1>4. CapacityIsBounded
    BY <1>1, <1>3, ConstantsAssumption DEF Init, CapacityIsBounded
  <1>5. QED
    BY <1>2, <1>3, <1>4 DEF MapInv, MapIsFinite

\* Whatever the wall clock is set to, every variable has its type, the map of
\* associations is finite and within limits.association_capacity, and no id has two
\* entries in it.
THEOREM MapBounded == Spec => [](TypeOK /\ CapacityIsBounded)
  <1>1. MapInv /\ [Next]_vars => MapInv'
    BY MapPreserved
  <1>2. MapInv => TypeOK /\ CapacityIsBounded
    BY DEF MapInv
  <1>3. QED
    BY <1>1, <1>2, MapInitially, PTL DEF Spec

\* The same for the types alone.
THEOREM TypeCorrect == Spec => []TypeOK
  BY MapBounded, PTL

-----------------------------------------------------------------------------
(* Lifetimes, under a steady clock                                          *)

\* A call that ends, or is refused, consumes nothing and begins no read.
LEMMA LifetimeOfOthers ==
  ASSUME LifetimeInv, TypeOK', now' = now, UNCHANGED <<context, consumedAt>>,
         associations' \in {associations, Unexpired},
         \A d \in Calls : pc'[d] = "reading" => pc[d] = "reading"
  PROVE  LifetimeInv'
  <1>1. ConsumedInPast' /\ ReadersConsumed' /\ ConsumedOncePerLifetime'
    BY DEF LifetimeInv, ConsumedInPast, ReadersConsumed, ConsumedOncePerLifetime
  <1>2. LiveIsKept'
    <2>1. SUFFICES ASSUME NEW c \in Calls, context[c] # NoContext, context[c].expires > now
                   PROVE  [id |-> context[c].id, expires |-> context[c].expires] \in associations'
      BY DEF LiveIsKept
    <2>2. [id |-> context[c].id, expires |-> context[c].expires] \in associations
      BY <2>1 DEF LifetimeInv, LiveIsKept
    <2>3. [id |-> context[c].id, expires |-> context[c].expires] \in Unexpired
      BY <2>1, <2>2 DEF Unexpired
    <2>4. QED
      BY <2>2, <2>3
  <1>3. QED
    BY <1>1, <1>2 DEF LifetimeInv

\* A consumed association begins a lifetime after all others of its id.
LEMMA LifetimeBegins ==
  ASSUME LifetimeInv, TypeOK', NEW c \in Calls, NEW x \in Contexts,
         Current(x), LookupCode(x) = "ok", now' = now,
         associations' = Unexpired \cup {[id |-> x.id, expires |-> x.expires]},
         context' = [context EXCEPT ![c] = x],
         consumedAt' = [consumedAt EXCEPT ![c] = now],
         \A d \in Calls : d # c /\ pc'[d] = "reading" => pc[d] = "reading"
  PROVE  LifetimeInv'
  <1>1. /\ x # NoContext
        /\ context'[c] = x /\ consumedAt'[c] = now
        /\ \A d \in Calls : d # c => context'[d] = context[d] /\ consumedAt'[d] = consumedAt[d]
    BY NoContextAssumption DEF LifetimeInv, TypeOK
  <1>2. now \in Nat /\ x.issued <= now
    BY ConstantsAssumption DEF LifetimeInv, TypeOK, Current
  <1>3. ConsumedInPast'
    BY <1>1, <1>2 DEF LifetimeInv, ConsumedInPast
  <1>4. ReadersConsumed'
    BY <1>1 DEF LifetimeInv, ReadersConsumed
  <1>5. LiveIsKept'
    <2>1. SUFFICES ASSUME NEW d \in Calls, d # c, context[d] # NoContext, context[d].expires > now
                   PROVE  [id |-> context[d].id, expires |-> context[d].expires] \in Unexpired
      BY <1>1 DEF LiveIsKept
    <2>2. QED
      BY <2>1 DEF LifetimeInv, LiveIsKept, Unexpired
  <1>6. ASSUME NEW d \in Calls, d # c, context[d] # NoContext, context[d].id = x.id
        PROVE  now >= context[d].expires
    <2>1. context[d] \in Contexts
      BY <1>6 DEF LifetimeInv, TypeOK
    <2>2. context[d].expires \in Nat
      <3>1. context[d].expires \in 0..MaxTime
        BY <2>1 DEF Contexts
      <3>2. QED
        BY <3>1, ConstantsAssumption
    <2>3. CASE context[d].expires > now
      <3>1. [id |-> context[d].id, expires |-> context[d].expires] \in Unexpired
        BY <1>6, <2>3 DEF LifetimeInv, LiveIsKept, Unexpired
      <3>2. QED
        BY <1>6, <3>1, LookupAllows
    <2>4. QED
      BY <1>2, <2>2, <2>3
  <1>7. ConsumedOncePerLifetime'
    BY <1>1, <1>6 DEF LifetimeInv, ConsumedOncePerLifetime
  <1>8. QED
    BY <1>3, <1>4, <1>5, <1>7 DEF LifetimeInv

\* A steady clock only moves on, past lifetimes and not back into one.
LEMMA LifetimeTick ==
  ASSUME Steady, LifetimeInv, TypeOK', Tick
  PROVE  LifetimeInv'
  <1>1. now \in Nat /\ now' \in Nat /\ now <= now'
    BY ConstantsAssumption DEF LifetimeInv, TypeOK, Tick
  <1>2. UNCHANGED <<associations, pc, context, consumedAt>>
    BY DEF Tick
  <1>3. ASSUME NEW c \in Calls, context[c] # NoContext
        PROVE  /\ context[c].issued \in Nat /\ context[c].expires \in Nat
               /\ consumedAt[c] \in Nat
    <2>1. context[c] \in Contexts
      BY <1>3 DEF LifetimeInv, TypeOK
    <2>2. context[c].issued \in 0..MaxTime /\ context[c].expires \in 0..MaxTime
      BY <2>1 DEF Contexts
    <2>3. consumedAt[c] \in 0..MaxTime
      BY DEF LifetimeInv, TypeOK
    <2>4. QED
      BY <2>2, <2>3, ConstantsAssumption
  <1>4. ConsumedInPast'
    BY <1>1, <1>2, <1>3 DEF LifetimeInv, ConsumedInPast
  <1>5. LiveIsKept'
    BY <1>1, <1>2, <1>3 DEF LifetimeInv, LiveIsKept
  <1>6. ReadersConsumed' /\ ConsumedOncePerLifetime'
    BY <1>2 DEF LifetimeInv, ReadersConsumed, ConsumedOncePerLifetime
  <1>7. QED
    BY <1>4, <1>5, <1>6 DEF LifetimeInv

\* Under a steady clock every step keeps lifetimes apart.
LEMMA LifetimePreserved ==
  ASSUME Steady, LifetimeInv, [Next]_vars
  PROVE  LifetimeInv'
  <1>1. TypeOK /\ TypeOK'
    BY TypePreserved DEF LifetimeInv
  <1>2. CASE UNCHANGED vars
    BY <1>1, <1>2, LifetimeOfOthers DEF vars
  <1>3. ASSUME NEW c \in Calls, Refuse(c) PROVE LifetimeInv'
    <2>1. PICK result \in RejectionCodes \cup {"accepted"} : Settle(c, result)
      BY <1>3 DEF Refuse, RejectionCodes
    <2>2. UNCHANGED <<now, associations, context, consumedAt>>
      BY <1>3 DEF Refuse
    <2>3. QED
      BY <1>1, <2>1, <2>2, SettleType, LifetimeOfOthers
  <1>4. ASSUME NEW c \in Calls, RefuseAssociation(c) PROVE LifetimeInv'
    <2>1. PICK result \in RejectionCodes \cup {"accepted"} : Settle(c, result)
      BY <1>4 DEF RefuseAssociation, LookupCode, RejectionCodes
    <2>2. UNCHANGED <<now, context, consumedAt>> /\ associations' = Unexpired
      BY <1>4 DEF RefuseAssociation
    <2>3. QED
      BY <1>1, <2>1, <2>2, SettleType, LifetimeOfOthers
  <1>5. ASSUME NEW c \in Calls, Consume(c) PROVE LifetimeInv'
    <2>1. PICK x \in Contexts :
            /\ Current(x) /\ LookupCode(x) = "ok"
            /\ associations' = Unexpired \cup {[id |-> x.id, expires |-> x.expires]}
            /\ context' = [context EXCEPT ![c] = x]
            /\ consumedAt' = [consumedAt EXCEPT ![c] = now]
      BY <1>5 DEF Consume
    <2>2. now' = now
      BY <1>5 DEF Consume
    <2>3. pc' = [pc EXCEPT ![c] = "settled"] \/ pc' = [pc EXCEPT ![c] = "reading"]
      BY <1>5 DEF Consume, Settle
    <2>4. \A d \in Calls : d # c /\ pc'[d] = "reading" => pc[d] = "reading"
      BY <1>1, <2>3 DEF TypeOK
    <2>5. QED
      BY <1>1, <2>1, <2>2, <2>4, LifetimeBegins
  <1>6. ASSUME NEW c \in Calls, Chunk(c) \/ End(c) \/ TimerFires(c) PROVE LifetimeInv'
    <2>1. UNCHANGED <<now, associations, context, consumedAt>>
      BY <1>6 DEF Chunk, End, TimerFires
    <2>2. pc' = pc \/ \E result \in RejectionCodes \cup {"accepted"} : Settle(c, result)
      BY <1>6 DEF Chunk, End, TimerFires, RejectionCodes
    <2>3. \A d \in Calls : pc'[d] = "reading" => pc[d] = "reading"
      BY <1>1, <2>2, SettleType
    <2>4. QED
      BY <1>1, <2>1, <2>3, LifetimeOfOthers
  <1>7. CASE Tick
    BY <1>1, <1>7, LifetimeTick
  <1>8. QED
    BY <1>2, <1>3, <1>4, <1>5, <1>6, <1>7 DEF Next

\* No call has consumed anything when the process starts.
LEMMA LifetimeInitially == Init => LifetimeInv
  <1>1. SUFFICES ASSUME Init PROVE LifetimeInv
    OBVIOUS
  <1>2. TypeOK
    BY <1>1, MapInitially DEF MapInv
  <1>3. \A c \in Calls : context[c] = NoContext /\ pc[c] = "idle"
    BY <1>1 DEF Init
  <1>4. QED
    BY <1>2, <1>3 DEF LifetimeInv, ConsumedInPast, LiveIsKept, ReadersConsumed,
                      ConsumedOncePerLifetime

\* While the wall clock is not set, any number of calls that race for an association id
\* consume it in lifetimes that do not overlap.
THEOREM ConsumedOnce == ASSUME Steady PROVE Spec => []ConsumedOncePerLifetime
  <1>1. LifetimeInv /\ [Next]_vars => LifetimeInv'
    BY LifetimePreserved
  <1>2. LifetimeInv => ConsumedOncePerLifetime
    BY DEF LifetimeInv
  <1>3. QED
    BY <1>1, <1>2, LifetimeInitially, PTL DEF Spec

\* While the wall clock is not set, a response is accepted only whole and only in the
\* lifetime of the association its call consumed, however long the body took.
THEOREM AcceptedLive == ASSUME Steady PROVE Spec => AcceptedInLifetime
  <1>1. LifetimeInv /\ [Next]_vars => LifetimeInv'
    BY LifetimePreserved
  <1>2. ASSUME LifetimeInv, [Next]_vars
        PROVE  [\A c \in Calls : code'[c] = "accepted" /\ code[c] # "accepted" =>
                  /\ context[c] # NoContext
                  /\ context[c].issued <= now /\ now < context[c].expires
                  /\ declared[c] # NoLength => total[c] = declared[c]]_vars
    <2>1. SUFFICES ASSUME NEW c \in Calls, code'[c] = "accepted", code[c] # "accepted"
                   PROVE  /\ context[c] # NoContext
                          /\ context[c].issued <= now /\ now < context[c].expires
                          /\ declared[c] # NoLength => total[c] = declared[c]
      OBVIOUS
    <2>2. pc[c] = "reading" /\ declared[c] \in {NoLength, total[c]} /\ ~Expired(c)
      <3>1. ASSUME NEW d \in Calls, NEW result, Settle(d, result)
            PROVE  d = c /\ result = "accepted"
        BY <1>2, <2>1, <3>1 DEF Settle, LifetimeInv, TypeOK
      <3>2. ~UNCHANGED code
        BY <2>1
      <3>3. ASSUME NEW d \in Calls, Refuse(d) \/ TimerFires(d) PROVE FALSE
        BY <3>1, <3>3 DEF Refuse, TimerFires
      <3>4. ASSUME NEW d \in Calls, RefuseAssociation(d) PROVE FALSE
        BY <3>1, <3>4 DEF RefuseAssociation, LookupCode
      <3>5. ASSUME NEW d \in Calls, Consume(d) PROVE FALSE
        <4>1. \E result \in {"RESPONSE_INVALID", "BINDING_MISMATCH", "HTTP_MISMATCH",
                             "LIMIT_EXCEEDED"} : Settle(d, result)
          BY <3>2, <3>5 DEF Consume
        <4>2. QED
          BY <3>1, <4>1
      <3>6. ASSUME NEW d \in Calls, Chunk(d) PROVE FALSE
        BY <3>1, <3>2, <3>6 DEF Chunk
      <3>7. ASSUME UNCHANGED vars \/ Tick PROVE FALSE
        BY <3>2, <3>7 DEF vars, Tick
      <3>8. PICK d \in Calls : End(d)
        BY <1>2, <3>3, <3>4, <3>5, <3>6, <3>7 DEF Next
      <3>9. /\ d = c /\ ~Settle(d, "HTTP_MISMATCH") /\ ~Settle(d, "ASSOCIATION_STALE")
            /\ ~Settle(d, "BODY_INVALID")
        BY <3>1, <3>8 DEF End
      <3>10. QED
        BY <3>8, <3>9 DEF End
    <2>3. context[c] # NoContext
      BY <1>2, <2>2 DEF LifetimeInv, ReadersConsumed
    <2>4. context[c].issued <= now
      BY <1>2, <2>3 DEF LifetimeInv, ConsumedInPast
    <2>5. now < context[c].expires
      <3>1. context[c] \in Contexts
        BY <1>2, <2>3 DEF LifetimeInv, TypeOK
      <3>2. context[c].expires \in 0..MaxTime
        BY <3>1 DEF Contexts
      <3>3. QED
        BY <1>2, <2>2, <3>2, ConstantsAssumption DEF Expired, LifetimeInv, TypeOK
    <2>6. QED
      BY <2>2, <2>3, <2>4, <2>5
  <1>3. QED
    BY <1>1, <1>2, LifetimeInitially, PTL DEF Spec, AcceptedInLifetime

\* Under a steady clock the run's invariant of the association map (transport.js) holds for
\* any number of calls and any capacity.
THEOREM AssociationInvariantHolds == ASSUME Steady PROVE Spec => []AssociationInvariant
<1>1. TypeOK /\ CapacityIsBounded /\ ConsumedOncePerLifetime => AssociationInvariant
  BY DEF AssociationInvariant
<1>. QED  BY <1>1, TypeCorrect, MapBounded, ConsumedOnce, PTL
-----------------------------------------------------------------------------
(* Capacity                                                                 *)

\* Every entry of the map is the association of a call, which took its context once.
EntriesHaveCalls ==
  /\ \A a \in associations : \E c \in Calls :
       /\ context[c] # NoContext
       /\ context[c].id = a.id /\ context[c].expires = a.expires
  /\ \A c \in Calls : pc[c] = "idle" => context[c] = NoContext

HoldersInv == MapInv /\ EntriesHaveCalls

Holders == {d \in Calls : context[d] # NoContext /\ context[d].expires > now}

\* A settled call is idle no more, and the others are as they were.
LEMMA SettleMoves ==
  ASSUME TypeOK, NEW c \in Calls, NEW result, Settle(c, result)
  PROVE  /\ code'[c] = result /\ pc'[c] = "settled"
         /\ \A d \in Calls : d # c => code'[d] = code[d] /\ pc'[d] = pc[d]
BY DEF Settle, TypeOK

LEMMA HoldersPreserved ==
  ASSUME HoldersInv, [Next]_vars
  PROVE  HoldersInv'
<1>1. MapInv'
  BY MapPreserved DEF HoldersInv
<1>2. TypeOK
  BY DEF HoldersInv, MapInv
<1>3. Unexpired \subseteq associations
  BY DEF Unexpired
<1>4. ASSUME associations' \subseteq associations, UNCHANGED context,
             \A d \in Calls : pc'[d] = "idle" => pc[d] = "idle"
      PROVE  EntriesHaveCalls'
  BY <1>4 DEF HoldersInv, EntriesHaveCalls
<1>5. CASE UNCHANGED vars \/ Tick
  <2>1. UNCHANGED <<associations, pc, context>>
    BY <1>5 DEF vars, Tick
  <2> QED BY <1>1, <1>4, <2>1 DEF HoldersInv
<1>6. ASSUME NEW c \in Calls, Consume(c) PROVE EntriesHaveCalls'
  <2>1. PICK x \in Contexts :
          /\ associations' = Unexpired \cup {[id |-> x.id, expires |-> x.expires]}
          /\ context' = [context EXCEPT ![c] = x]
    BY <1>6 DEF Consume
  <2>2. pc[c] = "idle" /\ pc'[c] # "idle" /\ \A d \in Calls : d # c => pc'[d] = pc[d]
    BY <1>2, <1>6, SettleMoves DEF Consume, TypeOK
  <2>3. context[c] = NoContext
    BY <2>2 DEF HoldersInv, EntriesHaveCalls
  <2>4. context'[c] = x /\ x # NoContext /\ \A d \in Calls : d # c => context'[d] = context[d]
    BY <1>2, <2>1, NoContextAssumption DEF TypeOK
  <2>5. ASSUME NEW a \in associations'
        PROVE  \E d \in Calls : /\ context'[d] # NoContext
                                /\ context'[d].id = a.id /\ context'[d].expires = a.expires
    <3>1. CASE a = [id |-> x.id, expires |-> x.expires]
      BY <2>4, <3>1
    <3>2. CASE a \in associations
      <4>1. PICK d \in Calls : /\ context[d] # NoContext
                               /\ context[d].id = a.id /\ context[d].expires = a.expires
        BY <3>2 DEF HoldersInv, EntriesHaveCalls
      <4> QED BY <2>3, <2>4, <4>1
    <3> QED BY <1>3, <2>1, <2>5, <3>1, <3>2
  <2>6. \A d \in Calls : pc'[d] = "idle" => context'[d] = NoContext
    BY <2>2, <2>4 DEF HoldersInv, EntriesHaveCalls
  <2> QED BY <2>5, <2>6 DEF EntriesHaveCalls
<1>7. ASSUME NEW c \in Calls,
             Refuse(c) \/ RefuseAssociation(c) \/ Chunk(c) \/ End(c) \/ TimerFires(c)
      PROVE  EntriesHaveCalls'
  <2>1. associations' \subseteq associations /\ UNCHANGED context
    BY <1>3, <1>7 DEF Refuse, RefuseAssociation, Chunk, End, TimerFires
  <2>2. UNCHANGED pc \/ \E result : Settle(c, result)
    BY <1>7 DEF Refuse, RefuseAssociation, Chunk, End, TimerFires
  <2>3. \A d \in Calls : pc'[d] = "idle" => pc[d] = "idle"
    BY <1>2, <2>2, SettleMoves
  <2> QED BY <1>4, <2>1, <2>3
<1> QED BY <1>1, <1>5, <1>6, <1>7 DEF HoldersInv, Next

\* Live entries have as many calls behind them: no two share one.
LEMMA EntriesAreHeld ==
  ASSUME HoldersInv, IsFiniteSet(Calls)
  PROVE  /\ Cardinality(Unexpired) <= Cardinality(Holders)
         /\ Cardinality(Unexpired) \in Nat /\ Cardinality(Holders) \in Nat
<1>1. \A a \in Unexpired : \E d \in Holders : context[d].id = a.id /\ context[d].expires = a.expires
  BY DEF HoldersInv, EntriesHaveCalls, Holders, Unexpired
<1> DEFINE f == [a \in Unexpired |->
                   CHOOSE d \in Holders : context[d].id = a.id /\ context[d].expires = a.expires]
<1>2. \A a \in Unexpired : f[a] \in Holders /\ context[f[a]].id = a.id
  BY <1>1
<1>3. \A a, b \in Unexpired : a.id = b.id => a = b
  BY DEF HoldersInv, MapInv, CapacityIsBounded, Unexpired
<1>4. f \in [Unexpired -> Holders]
  BY <1>2
<1> HIDE DEF f
<1>5. f \in Injection(Unexpired, Holders)
  <2>1. ASSUME NEW a \in Unexpired, NEW b \in Unexpired, f[a] = f[b] PROVE a = b
    BY <1>2, <1>3, <2>1
  <2>2. IsInjective(f)
    BY <1>4, <2>1 DEF IsInjective
  <2> QED BY <1>4, <2>2 DEF Injection
<1>6. IsFiniteSet(Holders)
  BY FS_Subset DEF Holders
<1> QED BY <1>5, <1>6, FS_Injection, FS_CardinalityType

\* Whatever the clock is set to, a call is refused for capacity only while that many calls
\* hold associations that have not expired (transport.js), for any finite number of calls.
THEOREM FullOnlyWhenLive == ASSUME IsFiniteSet(Calls) PROVE Spec => FullMeansLive
<1>1. Init => HoldersInv
  BY MapInitially DEF Init, HoldersInv, EntriesHaveCalls
<1>2. HoldersInv /\ [Next]_vars => HoldersInv'
  BY HoldersPreserved
<1>3. ASSUME HoldersInv, [Next]_vars
      PROVE  [\A c \in Calls : code'[c] = "ASSOCIATION_CAPACITY" /\ code[c] = "none" =>
                Cardinality({d \in Calls : context[d] # NoContext /\ context[d].expires > now})
                  >= Capacity]_vars
  <2> SUFFICES ASSUME Next, NEW c \in Calls, code'[c] = "ASSOCIATION_CAPACITY", code[c] = "none"
               PROVE  Cardinality(Holders) >= Capacity
    BY <1>3 DEF Holders
  <2>1. TypeOK
    BY <1>3 DEF HoldersInv, MapInv
  <2>2. ASSUME NEW e \in Calls, NEW result, Settle(e, result), result # "ASSOCIATION_CAPACITY"
        PROVE  FALSE
    BY <2>1, <2>2, SettleMoves
  <2>3. ASSUME NEW e \in Calls, RefuseAssociation(e)
        PROVE  Cardinality(Unexpired) >= Capacity
    <3>1. PICK x \in Contexts : Settle(e, LookupCode(x))
      BY <2>3 DEF RefuseAssociation
    <3>2. LookupCode(x) = "ASSOCIATION_CAPACITY"
      BY <2>2, <3>1
    <3> QED BY <3>2 DEF LookupCode
  <2>4. ~UNCHANGED code
    OBVIOUS
  <2>5. ASSUME NEW e \in Calls, Refuse(e) \/ Consume(e) \/ Chunk(e) \/ End(e) \/ TimerFires(e)
        PROVE  FALSE
    BY <2>2, <2>4, <2>5 DEF Refuse, Consume, Chunk, End, TimerFires
  <2>6. PICK e \in Calls : RefuseAssociation(e)
    BY <2>4, <2>5 DEF Next, Tick
  <2>7. Capacity \in Nat
    BY ConstantsAssumption
  <2> QED BY <1>3, <2>3, <2>6, <2>7, EntriesAreHeld
<1> QED BY <1>1, <1>2, <1>3, PTL DEF Spec, FullMeansLive

-----------------------------------------------------------------------------
(* Reading is bounded, step by step                                         *)

CallPhases == [idle |-> 2, reading |-> 1, settled |-> 0]

\* One call goes on: it begins, settles, or reads one more byte on the same timer.
CallAdvances(c) ==
  /\ \/ CallPhases[pc'[c]] < CallPhases[pc[c]]
     \/ /\ pc[c] = "reading" /\ pc' = pc /\ left' = left
        /\ total[c] < BodyLimit /\ total'[c] = total[c] + 1
  /\ \A d \in Calls \ {c} : pc'[d] = pc[d] /\ total'[d] = total[d] /\ left'[d] = left[d]

\* Time runs down every timer and touches nothing else of a call.
TimersRunDown ==
  /\ left' = [c \in Calls |-> IF left[c] > 0 THEN left[c] - 1 ELSE 0]
  /\ UNCHANGED <<pc, total>>

EveryAdmissionStepAdvances == TimersRunDown \/ \E c \in Calls : CallAdvances(c)

\* "Reading is bounded", without fairness and under any wall clock: a call takes at most
\* one step for each byte its channel allows, besides its first and last, and neither a
\* chunk nor another call ever gives time back to a timer.
THEOREM NoAdmissionStepRepeats == Spec => [][EveryAdmissionStepAdvances]_vars
<1>1. ASSUME TypeOK, NEW c \in Calls, NEW result, Settle(c, result), pc[c] # "settled"
      PROVE  CallAdvances(c)
  <2>1. /\ pc' = [pc EXCEPT ![c] = "settled"] /\ total' = [total EXCEPT ![c] = 0]
        /\ left' = [left EXCEPT ![c] = 0]
    BY <1>1 DEF Settle
  <2>2. /\ pc[c] \in {"idle", "reading"} /\ pc \in [Calls -> {"idle", "reading", "settled"}]
        /\ total \in [Calls -> 0..BodyLimit] /\ left \in [Calls -> Nat]
    BY <1>1 DEF TypeOK
  <2>3. CallPhases[pc'[c]] < CallPhases[pc[c]]
    BY <2>1, <2>2 DEF CallPhases
  <2>4. \A d \in Calls \ {c} : pc'[d] = pc[d] /\ total'[d] = total[d] /\ left'[d] = left[d]
    BY <2>1, <2>2
  <2>. QED  BY <2>3, <2>4 DEF CallAdvances
<1>2. ASSUME TypeOK, NEW c \in Calls, Refuse(c) \/ RefuseAssociation(c) \/ End(c) \/ TimerFires(c)
      PROVE  CallAdvances(c)
  <2>1. pc[c] # "settled" /\ \E result : Settle(c, result)
    BY <1>2 DEF Refuse, RefuseAssociation, End, TimerFires
  <2>. QED  BY <1>1, <1>2, <2>1
<1>3. ASSUME TypeOK, NEW c \in Calls, Consume(c) PROVE CallAdvances(c)
  <2>1. pc[c] = "idle"
    BY <1>3 DEF Consume
  <2>2. \/ \E result : Settle(c, result)
        \/ /\ pc' = [pc EXCEPT ![c] = "reading"] /\ UNCHANGED total
           /\ \E x \in Contexts : left' = [left EXCEPT ![c] = ReadTime(x)]
    BY <1>3 DEF Consume
  <2>. QED  BY <1>1, <1>3, <2>1, <2>2 DEF TypeOK, CallAdvances, CallPhases
<1>4. ASSUME TypeOK, NEW c \in Calls, Chunk(c) PROVE CallAdvances(c)
  <2>1. pc[c] = "reading" /\ total[c] \in 0..BodyLimit /\ BodyLimit \in Nat
    BY <1>4, ConstantsAssumption DEF Chunk, TypeOK
  <2>2. \/ \E result : Settle(c, result)
        \/ ~Full(c) /\ total' = [total EXCEPT ![c] = @ + 1] /\ UNCHANGED <<pc, left>>
    BY <1>4 DEF Chunk
  <2>. QED  BY <1>1, <1>4, <2>1, <2>2 DEF TypeOK, Full, CallAdvances
<1>5. ASSUME TypeOK, [Next]_vars PROVE [EveryAdmissionStepAdvances]_vars
  <2>1. CASE Tick
    BY <2>1 DEF Tick, TimersRunDown, EveryAdmissionStepAdvances
  <2>. QED  BY <1>2, <1>3, <1>4, <1>5, <2>1 DEF Next, EveryAdmissionStepAdvances
<1>. QED  BY <1>5, TypeCorrect, PTL DEF Spec

\* The step of a timer that has run out, and that of a clock in which time passes, as
\* assignments of every variable.
TimerEnds(c) == Settle(c, "TIMEOUT") /\ UNCHANGED <<now, associations, context, consumedAt>>
TimePasses ==
  /\ now' = IF now < MaxTime THEN now + 1 ELSE now
  /\ left' = [c \in Calls |-> IF left[c] > 0 THEN left[c] - 1 ELSE 0]
  /\ UNCHANGED <<associations, pc, context, total, declared, code, consumedAt>>

\* A call that reads needs nothing of its peer: its timer has run out, or the next tick
\* of the clock takes a unit from it.
ReadingNeedsNoPeer == \A c \in Calls :
  pc[c] = "reading" =>
    \/ left[c] = 0 /\ (TimerEnds(c) => <<TimerFires(c)>>_vars)
    \/ left[c] > 0 /\ (TimePasses => <<Tick>>_vars /\ left'[c] = left[c] - 1)

\* However the peer stalls and the wall clock is set, a reading call has a step of its own
\* in every state of the transport (TypeCorrect).
THEOREM NoReadingNeedsItsPeer ==
  ASSUME TypeOK  PROVE ReadingNeedsNoPeer
<1>. SUFFICES ASSUME NEW c \in Calls, pc[c] = "reading"
              PROVE  \/ left[c] = 0 /\ (TimerEnds(c) => <<TimerFires(c)>>_vars)
                     \/ left[c] > 0 /\ (TimePasses => <<Tick>>_vars /\ left'[c] = left[c] - 1)
  BY DEF ReadingNeedsNoPeer
<1>1. left[c] \in Nat
  BY DEF TypeOK
<1>2. ASSUME left[c] = 0, TimerEnds(c) PROVE <<TimerFires(c)>>_vars
  <2>1. pc' # pc
    BY <1>2 DEF TimerEnds, Settle, TypeOK
  <2>. QED  BY <1>2, <2>1 DEF TimerEnds, TimerFires, vars
<1>3. ASSUME left[c] > 0, TimePasses PROVE <<Tick>>_vars /\ left'[c] = left[c] - 1
  <2>1. left'[c] = left[c] - 1 /\ Tick
    BY <1>3 DEF TimePasses, Tick
  <2>. QED  BY <1>1, <2>1 DEF vars
<1>. QED  BY <1>1, <1>2, <1>3
=============================================================================
