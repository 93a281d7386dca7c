------------------------ MODULE TransportAssociation ------------------------
(***************************************************************************)
(* Admission of remote Read responses: admitReadTransportResponse and      *)
(* boundedBody (kdna-read/src/transport.js).  All calls of a process share *)
(* the module's `associations` map; a call runs in one turn up to the      *)
(* first read of the body, then once per chunk, against its own timer.     *)
(*                                                                         *)
(* Lifetimes are compared with Date.now(), which follows the wall clock;   *)
(* the timer counts elapsed time.  With Steady the two advance together.   *)
(***************************************************************************)
EXTENDS Naturals, FiniteSets

CONSTANTS
  Calls,
  Ids,          \* association ids of the callers' contexts
  MaxTime,      \* bound on the wall clock
  Steady,       \* the wall clock is never set
  Capacity,     \* limits.association_capacity
  Ttl,          \* limits.association_ttl_ms
  ReadLimits,   \* the contexts' max_read_ms
  BodyLimit,    \* the per-call byte ceiling of the response's channel
  NoLength, NoContext

ASSUME ConstantsAssumption ==
  /\ MaxTime \in Nat /\ Capacity \in Nat /\ Ttl \in Nat
  /\ Steady \in BOOLEAN
  /\ ReadLimits \subseteq Nat \ {0}
  /\ BodyLimit \in Nat
  /\ NoLength \notin Nat

Contexts == [id: Ids, issued: 0..MaxTime, expires: 0..MaxTime, read: ReadLimits]

ASSUME NoContextAssumption == NoContext \notin Contexts

VARIABLES
  now,           \* Date.now()
  associations,  \* the map: id -> expires_at_ms, as a set of pairs
  pc,            \* "idle", "reading" or "settled"
  context,       \* the call's context, once it has consumed its association
  left,          \* time left on the call's timer
  total,         \* bytes read
  declared,      \* content-length
  code,          \* how the call settled: "accepted" or a rejection code
  consumedAt     \* history: the wall clock when the association was consumed

vars == <<now, associations, pc, context, left, total, declared, code, consumedAt>>

RejectionCodes ==
  {"CONTEXT_INVALID", "ASSOCIATION_STALE", "ASSOCIATION_REPLAYED", "ASSOCIATION_CAPACITY",
   "BINDING_MISMATCH",
   "RESPONSE_INVALID", "LIMIT_EXCEEDED", "TIMEOUT", "HTTP_MISMATCH", "BODY_INVALID"}

TypeOK ==
  /\ now \in 0..MaxTime
  /\ associations \subseteq [id: Ids, expires: 0..MaxTime]
  /\ pc \in [Calls -> {"idle", "reading", "settled"}]
  /\ context \in [Calls -> Contexts \cup {NoContext}]
  /\ left \in [Calls -> Nat]
  /\ total \in [Calls -> 0..BodyLimit]
  /\ declared \in [Calls -> (0..BodyLimit) \cup {NoLength}]
  /\ code \in [Calls -> RejectionCodes \cup {"none", "accepted"}]
  /\ consumedAt \in [Calls -> 0..MaxTime]

Init ==
  /\ now = 0 /\ associations = {}
  /\ pc = [c \in Calls |-> "idle"]
  /\ context = [c \in Calls |-> NoContext]
  /\ left = [c \in Calls |-> 0]
  /\ total = [c \in Calls |-> 0]
  /\ declared = [c \in Calls |-> NoLength]
  /\ code = [c \in Calls |-> "none"]
  /\ consumedAt = [c \in Calls |-> 0]

-----------------------------------------------------------------------------

\* The context is current, and lives no longer than the ttl.
Current(x) == x.issued <= now /\ now < x.expires /\ x.expires - x.issued <= Ttl

\* Fault: expired entries are never dropped.
Unpruned == associations

Unexpired == {a \in associations : a.expires > now}

\* Fault: a known id renews its association.
LookupCodeRenewing(x) ==
  IF \E a \in Unexpired : a.id = x.id THEN "ok"
  ELSE IF Cardinality(Unexpired) >= Capacity THEN "ASSOCIATION_CAPACITY"
  ELSE "ok"

LookupCode(x) ==
  IF \E a \in Unexpired : a.id = x.id THEN "ASSOCIATION_REPLAYED"
  ELSE IF Cardinality(Unexpired) >= Capacity THEN "ASSOCIATION_CAPACITY"
  ELSE "ok"

ReadTime(x) ==
  LET lifetime == IF x.expires - now > 1 THEN x.expires - now ELSE 1
  IN  IF x.read < lifetime THEN x.read ELSE lifetime

\* The call's locals and its timer end with it.
Settle(c, result) ==
  /\ pc' = [pc EXCEPT ![c] = "settled"]
  /\ code' = [code EXCEPT ![c] = result]
  /\ left' = [left EXCEPT ![c] = 0]
  /\ total' = [total EXCEPT ![c] = 0]
  /\ declared' = [declared EXCEPT ![c] = NoLength]

\* The context or its lifetime is refused: the map is not touched.
Refuse(c) ==
  /\ pc[c] = "idle"
  /\ \/ Settle(c, "CONTEXT_INVALID")
     \/ \E x \in Contexts : ~Current(x) /\ Settle(c, "ASSOCIATION_STALE")
  /\ UNCHANGED <<now, associations, context, consumedAt>>

\* Pruning precedes the lookup and stands when the lookup refuses.
RefuseAssociation(c) ==
  /\ pc[c] = "idle"
  /\ \E x \in Contexts :
       /\ Current(x)
       /\ LookupCode(x) # "ok"
       /\ Settle(c, LookupCode(x))
  /\ associations' = Unexpired
  /\ UNCHANGED <<now, context, consumedAt>>

\* The association is consumed before the response is looked at: a response whose
\* url, headers, status or declared length is refused has spent it.
Consume(c) ==
  /\ pc[c] = "idle"
  /\ \E x \in Contexts :
       /\ Current(x)
       /\ LookupCode(x) = "ok"
       /\ associations' = Unexpired \cup {[id |-> x.id, expires |-> x.expires]}
       /\ context' = [context EXCEPT ![c] = x]
       /\ consumedAt' = [consumedAt EXCEPT ![c] = now]
       /\ \/ /\ \E result \in {"RESPONSE_INVALID", "BINDING_MISMATCH", "HTTP_MISMATCH",
                            "LIMIT_EXCEEDED"} :
                  Settle(c, result)
          \/ /\ pc' = [pc EXCEPT ![c] = "reading"]
             /\ left' = [left EXCEPT ![c] = ReadTime(x)]
             /\ \E n \in (0..BodyLimit) \cup {NoLength} : declared' = [declared EXCEPT ![c] = n]
             /\ UNCHANGED <<total, code>>
  /\ UNCHANGED now

\* One more byte passes the ceiling.
Full(c) == total[c] = BodyLimit

\* A chunk arrives, or the stream errs.
Chunk(c) ==
  /\ pc[c] = "reading"
  /\ \/ /\ Full(c)
        /\ Settle(c, "LIMIT_EXCEEDED")
     \/ /\ ~Full(c) /\ total[c] = declared[c]
        /\ Settle(c, "HTTP_MISMATCH")
     \/ /\ ~Full(c) /\ total[c] # declared[c]
        /\ total' = [total EXCEPT ![c] = @ + 1]
        /\ UNCHANGED <<pc, code, left, declared>>
     \/ Settle(c, "RESPONSE_INVALID")
  /\ UNCHANGED <<now, associations, context, consumedAt>>

\* Fault: the lifetime is not looked at again once the body is read.
NeverExpired(c) == FALSE

Expired(c) == now >= context[c].expires

\* The stream ends; length, lifetime and content decide, in that order.
End(c) ==
  /\ pc[c] = "reading"
  /\ \/ declared[c] \notin {NoLength, total[c]} /\ Settle(c, "HTTP_MISMATCH")
     \/ declared[c] \in {NoLength, total[c]} /\ Expired(c) /\ Settle(c, "ASSOCIATION_STALE")
     \/ /\ declared[c] \in {NoLength, total[c]} /\ ~Expired(c)
        /\ \/ Settle(c, "BODY_INVALID")
           \/ Settle(c, "accepted")
  /\ UNCHANGED <<now, associations, context, consumedAt>>

\* Fault: the time left is looked at only between chunks.
TimerFiresBetweenChunks(c) ==
  /\ pc[c] = "reading" /\ total[c] > 0
  /\ left[c] = 0
  /\ Settle(c, "TIMEOUT")
  /\ UNCHANGED <<now, associations, context, consumedAt>>

\* The timer wins the race when its callback runs before the next chunk.
TimerFires(c) ==
  /\ pc[c] = "reading"
  /\ left[c] = 0
  /\ Settle(c, "TIMEOUT")
  /\ UNCHANGED <<now, associations, context, consumedAt>>

\* Time passes; a wall clock that is not steady may be set to any time instead.
Tick ==
  /\ \/ now' = IF now < MaxTime THEN now + 1 ELSE now
     \/ ~Steady /\ now' \in 0..MaxTime
  /\ left' = [c \in Calls |-> IF left[c] > 0 THEN left[c] - 1 ELSE 0]
  /\ UNCHANGED <<associations, pc, context, total, declared, code, consumedAt>>

Next ==
  \/ \E c \in Calls :
       \/ Refuse(c) \/ RefuseAssociation(c) \/ Consume(c)
       \/ Chunk(c) \/ End(c) \/ TimerFires(c)
  \/ Tick

Spec == Init /\ [][Next]_vars

\* Time passes and due timers run; the remote peer owes nothing.
FairSpec == Spec /\ WF_vars(Tick) /\ \A c \in Calls : WF_vars(TimerFires(c))

-----------------------------------------------------------------------------
(* Properties                                                               *)

\* specs/public-semantic-source.json:32855 "Association IDs are consumed once per
\* process for their bounded lifetime": calls that consumed one id did so in
\* lifetimes that do not overlap.
ConsumedOncePerLifetime ==
  \A c, d \in Calls :
    c # d /\ context[c] # NoContext /\ context[d] # NoContext /\ context[c].id = context[d].id =>
      \/ consumedAt[c] >= context[d].expires
      \/ consumedAt[d] >= context[c].expires

\* The map never outgrows its capacity, and never has two entries for an id.
CapacityIsBounded ==
  /\ Cardinality(associations) <= Capacity
  /\ \A a, b \in associations : a.id = b.id => a = b

\* What holds of the map and the calls at any time.
AssociationInvariant == TypeOK /\ CapacityIsBounded /\ ConsumedOncePerLifetime

\* Admission is refused for capacity only while that many calls hold associations
\* that have not expired: dead entries deny nobody.
FullMeansLive ==
  [][\A c \in Calls : code'[c] = "ASSOCIATION_CAPACITY" /\ code[c] = "none" =>
       Cardinality({d \in Calls : context[d] # NoContext /\ context[d].expires > now}) >= Capacity]_vars

\* "The association must remain unexpired through body consumption and final admission":
\* an accepted response is whole and was accepted in the lifetime of an association
\* that the call itself consumed.
AcceptedInLifetime ==
  [][\A c \in Calls : code'[c] = "accepted" /\ code[c] # "accepted" =>
       /\ context[c] # NoContext
       /\ context[c].issued <= now /\ now < context[c].expires
       /\ declared[c] # NoLength => total[c] = declared[c]]_vars

\* "Reading is bounded": a call settles however the peer stalls.
ReadingIsBounded == \A c \in Calls : pc[c] = "reading" ~> pc[c] = "settled"
=============================================================================
