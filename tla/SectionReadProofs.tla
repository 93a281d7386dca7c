-------------------------- MODULE SectionReadProofs --------------------------
(***************************************************************************)
(* Proofs about SectionRead, for any Reads, preparations, versions and     *)
(* clock.  The inductive invariant says what each stage of a Read has      *)
(* fixed for good: its snapshot once admitted, its preparation once        *)
(* consumed, its handle's delivery once presented.                         *)
(***************************************************************************)
EXTENDS SectionRead, TLAPS

Phases == {"none", "authorizing", "available", "reserved", "closed"}
Stages == {"idle", "opening", "loading", "gate1", "gate2", "delivering",
           "ready", "rejected", "undelivered"}
Serving == {"gate1", "gate2", "delivering"}

\* What a capture has read lies between its opening and now, and an admitted snapshot
\* is past every read.
Captured == \A r \in Reads :
  /\ pc[r] = "idle" => token[r] = None /\ handle[r] = None
  /\ pc[r] \in {"idle", "opening", "loading"} => r \notin admitted /\ ~Retained(r)
  /\ pc[r] \in {"idle", "opening"} => seen[r] = {}
  /\ pc[r] = "loading" =>
       /\ version[r] \in Versions /\ version[r] <= file
       /\ \A v \in seen[r] : version[r] <= v /\ v <= file
  /\ r \in admitted => seen[r] = {version[r]} /\ ~Retained(r)

\* A preparation is fixed when it is made, and belongs to the Read that consumed it.
Preparing ==
  /\ \A t \in Preparations : phase[t] = "none" <=> prepared[t] = None
  /\ \A t \in Preparations : prepared[t] # None /\ prepared[t].handle # None =>
       LET h == prepared[t].handle
       IN  fresh[h] # None /\ Retained(h) /\ prepared[token[h]].snapshot = prepared[t].snapshot
  /\ \A r \in Reads : Retained(r) =>
       /\ prepared[token[r]] # None /\ handle[r] = prepared[token[r]].handle
       /\ phase[token[r]] \in {"reserved", "closed"}
       /\ pc[r] \in Serving <=> phase[token[r]] = "reserved"
  /\ \A t \in Preparations : phase[t] = "reserved" => \E r \in Reads : token[r] = t
  /\ PreparationServesOnce

\* A handle that a Read presented was delivered, and its delivery does not change.
Handling ==
  /\ registered \subseteq issued
  /\ \A h \in issued : pc[h] = "ready"
  /\ \A r \in Reads : fresh[r] # None <=> pc[r] \in {"delivering", "ready", "undelivered"}
  /\ \A r \in Reads : handle[r] # None /\ pc[r] # "rejected" =>
       LET h == handle[r]
       IN  /\ h \in issued /\ (Retained(r) <=> Retained(h))
           /\ ~Retained(r) /\ pc[r] # "opening" => version[r] = version[h]
           /\ fresh[r] # None => fresh[h].now <= fresh[r].now /\ fresh[r].now < fresh[h].expires

Denying ==
  /\ \A r \in Reads : barred[r] => denied
  /\ DenialBarsBothFamilies

IInv == TypeOK /\ Captured /\ Preparing /\ Handling /\ Denying /\ DeliveredHandlesStay

-----------------------------------------------------------------------------

LEMMA Nones ==
  /\ None \notin Reads /\ None \notin Preparations /\ None \notin Versions
  /\ None \notin Windows /\ None \notin Modes /\ None \notin Preparation
BY ConstantsAssumption

LEMMA WindowTimes ==
  ASSUME NEW a \in Windows
  PROVE  a.now \in Nat /\ a.expires \in Nat
<1>1. \A x \in Times : x \in Nat
  BY ConstantsAssumption
<1>2. \A t \in Times, w \in 1..Window : t + w \in Nat
  BY <1>1, ConstantsAssumption
<1>3. a.now \in Times /\ a.expires \in {t + w : t \in Times, w \in 1..Window}
  BY DEF Windows
<1>4. \E t \in Times, w \in 1..Window : a.expires = t + w
  BY <1>3
<1>5. a.expires \in Nat
  <2>1. PICK t \in Times, w \in 1..Window : a.expires = t + w
    BY <1>4
  <2>2. t + w \in Nat
    BY <1>2
  <2> QED BY <2>1, <2>2
<1>6. a.now \in Nat
  <2>1. a.now \in Times
    BY <1>3
  <2> QED BY <1>1, <2>1
<1> QED BY <1>5, <1>6

LEMMA Initially == Init => IInv
<1> SUFFICES ASSUME Init PROVE IInv
  OBVIOUS
<1>0. 1 \in Versions
  BY ConstantsAssumption DEF Versions
<1> USE DEF Init
<1>1. TypeOK
  BY <1>0 DEF TypeOK
<1>2. Captured
  BY Nones DEF Captured, Retained
<1>3. Preparing
  BY Nones DEF Preparing, PreparationServesOnce, Retained
<1>4. Handling
  BY Nones DEF Handling, Retained
<1>5. Denying /\ DeliveredHandlesStay
  BY DEF Denying, DenialBarsBothFamilies, DeliveredHandlesStay
<1> QED BY <1>1, <1>2, <1>3, <1>4, <1>5 DEF IInv

-----------------------------------------------------------------------------
(* Steps                                                                    *)

\* A Read that takes no part in a step, or only moves on, leaves the facts of the others.
LEMMA RewriteKeeps == ASSUME IInv, Rewrite PROVE IInv'
<1>0. /\ UNCHANGED <<version, seen, admitted, prepared, phase, registered, lineage, denied, issued,
                     latest, pc, mode, handle, token, fresh, barred>>
      /\ file \in Versions /\ file < MaxVersion /\ file' = file + 1
  BY DEF Rewrite, tokens, hostState, IInv, TypeOK
<1>1. file \in Nat /\ file' \in Versions
  BY <1>0, ConstantsAssumption DEF Versions
<1>2. TypeOK'
  BY <1>0, <1>1 DEF IInv, TypeOK
<1>3. Captured'
  <2>1. \A r \in Reads : pc[r] = "loading" =>
          /\ version[r] \in Versions /\ version[r] <= file'
          /\ \A v \in seen[r] : version[r] <= v /\ v <= file'
    <3>1. ASSUME NEW r \in Reads, pc[r] = "loading", NEW v \in seen[r]
          PROVE  v <= file'
      <4>1. v \in Nat /\ v <= file
        BY <3>1, ConstantsAssumption DEF IInv, TypeOK, Captured, Versions
      <4> QED BY <1>0, <1>1, <4>1
    <3>2. ASSUME NEW r \in Reads, pc[r] = "loading"
          PROVE  version[r] <= file'
      <4>1. version[r] \in Nat /\ version[r] <= file
        BY <3>2, ConstantsAssumption DEF IInv, TypeOK, Captured, Versions
      <4> QED BY <1>0, <1>1, <4>1
    <3> QED BY <3>1, <3>2 DEF IInv, Captured
  <2> QED BY <1>0, <2>1 DEF IInv, Captured, Retained
<1>4. Preparing' /\ Handling'
  BY <1>0 DEF IInv, Preparing, Handling, Retained, PreparationServesOnce
<1>5. Denying' /\ DeliveredHandlesStay'
  BY <1>0 DEF IInv, Denying, DenialBarsBothFamilies, DeliveredHandlesStay, Retained
<1> QED BY <1>2, <1>3, <1>4, <1>5 DEF IInv

LEMMA StartSectionKeeps == ASSUME IInv, NEW r \in Reads, StartSection(r) PROVE IInv'
<1>1. PICK m \in Modes, h \in Shown \cup {None} :
        /\ h # None <=> m = "expand"
        /\ h # None => Lookup(h)
        /\ mode' = [mode EXCEPT ![r] = m] /\ handle' = [handle EXCEPT ![r] = h]
  BY DEF StartSection
<1>2. /\ pc[r] = "idle" /\ pc' = [pc EXCEPT ![r] = "opening"] /\ barred' = [barred EXCEPT ![r] = denied]
      /\ UNCHANGED <<file, version, seen, admitted, prepared, phase, registered, lineage, denied,
                     issued, latest, token, fresh>>
  BY DEF StartSection, captures, tokens, hostState
<1>3. /\ pc \in [Reads -> Stages] /\ handle \in [Reads -> Reads \cup {None}]
      /\ mode \in [Reads -> Modes \cup {None}] /\ barred \in [Reads -> BOOLEAN]
      /\ denied \in BOOLEAN /\ h \in Reads \cup {None}
  BY DEF IInv, TypeOK, Stages, Shown
<1>4. /\ pc'[r] = "opening" /\ handle'[r] = h /\ barred'[r] = denied
      /\ \A q \in Reads : q # r => pc'[q] = pc[q] /\ handle'[q] = handle[q] /\ barred'[q] = barred[q]
  BY <1>1, <1>2, <1>3
<1>5. TypeOK'
  BY <1>1, <1>2, <1>3 DEF IInv, TypeOK
<1>6. Captured'
  BY <1>2, <1>4 DEF IInv, Captured, Retained
<1>7. Preparing'
  <2>1. ~Retained(r)
    BY <1>2 DEF IInv, Captured
  <2> QED BY <1>2, <1>4, <2>1 DEF IInv, Preparing, Retained, PreparationServesOnce, Serving
<1>8. Handling'
  <2>1. h # None => h \in issued /\ ~Retained(h)
    BY <1>1 DEF Lookup, IInv, Handling
  <2>2. ~Retained(r) /\ fresh[r] = None /\ r \notin issued
    BY <1>2 DEF IInv, Captured, Handling
  <2> QED BY <1>2, <1>4, <2>1, <2>2 DEF IInv, Handling, Retained
<1>9. Denying' /\ DeliveredHandlesStay'
  BY <1>2, <1>4 DEF IInv, Denying, DenialBarsBothFamilies, DeliveredHandlesStay, Retained
<1> QED BY <1>5, <1>6, <1>7, <1>8, <1>9 DEF IInv

LEMMA OpenKeeps == ASSUME IInv, NEW r \in Reads, Open(r) PROVE IInv'
<1>2. /\ pc[r] = "opening" /\ pc' = [pc EXCEPT ![r] = "loading"]
      /\ version' = [version EXCEPT ![r] = file] /\ SameSource(r)
      /\ UNCHANGED <<file, seen, admitted, prepared, phase, registered, lineage, denied,
                     issued, latest, mode, handle, token, fresh, barred>>
  BY DEF Open, tokens, hostState
<1>3. /\ pc \in [Reads -> Stages] /\ version \in [Reads -> Versions \cup {None}] /\ file \in Versions
  BY DEF IInv, TypeOK, Stages
<1>4. /\ pc'[r] = "loading" /\ version'[r] = file
      /\ \A q \in Reads : q # r => pc'[q] = pc[q] /\ version'[q] = version[q]
  BY <1>2, <1>3
<1>5. TypeOK'
  BY <1>2, <1>3 DEF IInv, TypeOK
<1>6. Captured'
  <2>1. file <= file /\ seen[r] = {}
    BY <1>2, <1>3 DEF IInv, Captured, Versions
  <2> QED BY <1>2, <1>3, <1>4, <2>1 DEF IInv, Captured, Retained
<1>7. Preparing'
  BY <1>2, <1>4 DEF IInv, Captured, Preparing, Retained, PreparationServesOnce, Serving
<1>8. Handling'
  <2>1. r \notin issued /\ fresh[r] = None /\ ~Retained(r)
    BY <1>2 DEF IInv, Captured, Handling
  <2>2. handle[r] # None => version'[r] = version'[handle[r]]
    <3>1. handle[r] # None => handle[r] \in issued /\ handle[r] \in Reads
      BY <1>2 DEF IInv, TypeOK, Handling
    <3> QED BY <1>2, <1>4, <2>1, <3>1 DEF SameSource
  <2>3. \A h \in issued : version'[h] = version[h]
    BY <1>4, <2>1 DEF IInv, TypeOK
  <2> QED BY <1>2, <1>4, <2>1, <2>2, <2>3 DEF IInv, Handling, Retained
<1>9. Denying' /\ DeliveredHandlesStay'
  BY <1>2, <1>4 DEF IInv, Denying, DenialBarsBothFamilies, DeliveredHandlesStay, Retained
<1> QED BY <1>5, <1>6, <1>7, <1>8, <1>9 DEF IInv

LEMMA LoadKeeps == ASSUME IInv, NEW r \in Reads, Load(r) PROVE IInv'
<1>2. /\ pc[r] = "loading" /\ seen' = [seen EXCEPT ![r] = @ \cup {file}]
      /\ UNCHANGED <<file, version, admitted, prepared, phase, registered, lineage, denied,
                     issued, latest, pc, mode, handle, token, fresh, barred>>
  BY DEF Load, tokens, hostState
<1>3. /\ seen \in [Reads -> SUBSET Versions] /\ file \in Versions
      /\ version[r] \in Versions \cup {None}
  BY DEF IInv, TypeOK
<1>4. /\ seen'[r] = seen[r] \cup {file} /\ \A q \in Reads : q # r => seen'[q] = seen[q]
  BY <1>2, <1>3
<1>5. TypeOK'
  <2>1. seen' \in [Reads -> SUBSET Versions]
    BY <1>2, <1>3
  <2> QED BY <1>2, <2>1 DEF IInv, TypeOK
<1>6. Captured'
  <2>1. r \notin admitted
    BY <1>2 DEF IInv, Captured
  <2>2. version[r] <= file /\ file <= file
    BY <1>2, <1>3 DEF Captured, IInv, Versions
  <2> QED BY <1>2, <1>4, <2>1, <2>2 DEF IInv, Captured, Retained
<1>7. Preparing' /\ Handling'
  BY <1>2 DEF IInv, Preparing, Handling, Retained, PreparationServesOnce
<1>8. Denying' /\ DeliveredHandlesStay'
  BY <1>2 DEF IInv, Denying, DenialBarsBothFamilies, DeliveredHandlesStay, Retained
<1> QED BY <1>5, <1>6, <1>7, <1>8 DEF IInv

LEMMA AdmitKeeps == ASSUME IInv, NEW r \in Reads, Admit(r) PROVE IInv'
<1>2. /\ pc[r] = "loading" /\ pc' = [pc EXCEPT ![r] = "gate1"] /\ seen[r] # {}
      /\ file = version[r] /\ admitted' = admitted \cup {r}
      /\ UNCHANGED <<file, version, seen, prepared, phase, registered, lineage, denied,
                     issued, latest, mode, handle, token, fresh, barred>>
  BY DEF Admit, Unchanged, tokens, hostState
<1>3. /\ pc \in [Reads -> Stages] /\ seen[r] \subseteq Versions /\ file \in Nat
  BY DEF IInv, TypeOK, Stages, Versions
<1>4. /\ pc'[r] = "gate1" /\ \A q \in Reads : q # r => pc'[q] = pc[q]
  BY <1>2, <1>3
<1>5. TypeOK'
  BY <1>2, <1>3 DEF IInv, TypeOK
<1>6. Captured'
  <2>1. \A v \in seen[r] : v = version[r]
    <3> TAKE v \in seen[r]
    <3>1. v \in Nat /\ version[r] <= v /\ v <= file
      BY <1>2, <1>3 DEF IInv, Captured, Versions
    <3> QED BY <1>2, <1>3, <3>1
  <2>2. seen[r] = {version[r]}
    BY <1>2, <2>1
  <2> QED BY <1>2, <1>4, <2>2 DEF IInv, Captured, Retained
<1>7. Preparing'
  BY <1>2, <1>4 DEF IInv, Captured, Preparing, Retained, PreparationServesOnce, Serving
<1>8. Handling'
  BY <1>2, <1>4 DEF IInv, Handling, Retained
<1>9. Denying' /\ DeliveredHandlesStay'
  BY <1>2, <1>4 DEF IInv, Denying, DenialBarsBothFamilies, DeliveredHandlesStay, Retained
<1> QED BY <1>5, <1>6, <1>7, <1>8, <1>9 DEF IInv

LEMMA PrepareKeeps == ASSUME IInv, NEW t \in Preparations, Prepare(t) PROVE IInv'
<1>1. PICK s \in admitted, m \in Modes, h \in Shown \cup {None} :
        /\ h # None => SameOrigin(h, s)
        /\ prepared' = [prepared EXCEPT ![t] = [snapshot |-> s, mode |-> m, handle |-> h]]
  BY DEF Prepare
<1>2. /\ phase[t] = "none" /\ phase' = [phase EXCEPT ![t] = "authorizing"]
      /\ UNCHANGED <<file, version, seen, admitted, registered, lineage, denied,
                     issued, latest, pc, mode, handle, token, fresh, barred>>
  BY DEF Prepare, captures, hostState
<1>3. /\ prepared \in [Preparations -> Preparation \cup {None}] /\ phase \in [Preparations -> Phases]
      /\ s \in Reads /\ h \in Reads \cup {None} /\ token \in [Reads -> Preparations \cup {None}]
      /\ handle \in [Reads -> Reads \cup {None}]
  BY DEF IInv, TypeOK, Phases, Shown
<1> DEFINE p == [snapshot |-> s, mode |-> m, handle |-> h]
<1>4. /\ p \in Preparation /\ p.snapshot = s /\ p.handle = h /\ p # None
  <2>1. p \in Preparation /\ p.snapshot = s /\ p.handle = h
    BY <1>1, <1>3 DEF Preparation
  <2> QED BY <2>1, Nones
<1> HIDE DEF p
<1>5. /\ prepared' = [prepared EXCEPT ![t] = p]
      /\ prepared'[t] = p /\ \A u \in Preparations : u # t => prepared'[u] = prepared[u]
      /\ phase'[t] = "authorizing" /\ \A u \in Preparations : u # t => phase'[u] = phase[u]
  BY <1>1, <1>2, <1>3 DEF p
<1>6. \A r \in Reads : Retained(r) => token[r] # t /\ token[r] \in Preparations
  BY <1>2, <1>3 DEF IInv, Preparing, Retained
<1>7. TypeOK'
  BY <1>2, <1>3, <1>4, <1>5 DEF IInv, TypeOK
<1>8. Captured'
  BY <1>2 DEF IInv, Captured, Retained
<1>9. Preparing'
  <2>1. \A u \in Preparations : phase'[u] = "none" <=> prepared'[u] = None
    BY <1>4, <1>5 DEF IInv, Preparing
  <2>2. ASSUME NEW u \in Preparations, prepared'[u] # None, prepared'[u].handle # None
        PROVE  LET x == prepared'[u].handle
               IN  fresh[x] # None /\ Retained(x) /\ prepared'[token[x]].snapshot = prepared'[u].snapshot
    <3>1. CASE u = t
      <4>1. h \in Reads /\ fresh[h] # None /\ Retained(h) /\ Snapshot(h) = s
        BY <1>1, <1>4, <1>5, <2>2, <3>1 DEF SameOrigin, Shown
      <4> QED BY <1>4, <1>5, <1>6, <3>1, <4>1 DEF Snapshot
    <3>2. CASE u # t
      <4>1. prepared'[u] = prepared[u] /\ prepared[u].handle \in Reads
        BY <1>3, <1>5, <2>2, <3>2 DEF Preparation
      <4> QED BY <1>5, <1>6, <2>2, <4>1 DEF IInv, Preparing
    <3> QED BY <3>1, <3>2
  <2>3. \A r \in Reads : Retained(r) =>
          /\ prepared'[token[r]] # None /\ handle[r] = prepared'[token[r]].handle
          /\ phase'[token[r]] \in {"reserved", "closed"}
          /\ pc[r] \in Serving <=> phase'[token[r]] = "reserved"
    BY <1>5, <1>6 DEF IInv, Preparing
  <2>4. \A u \in Preparations : phase'[u] = "reserved" => \E r \in Reads : token[r] = u
    BY <1>5 DEF IInv, Preparing
  <2> QED BY <1>2, <2>1, <2>2, <2>3, <2>4 DEF IInv, Preparing, Retained, PreparationServesOnce
<1>10. Handling' /\ Denying' /\ DeliveredHandlesStay'
  BY <1>2 DEF IInv, Handling, Retained, Denying, DenialBarsBothFamilies, DeliveredHandlesStay
<1> QED BY <1>7, <1>8, <1>9, <1>10 DEF IInv

LEMMA AuthorizeKeeps == ASSUME IInv, NEW t \in Preparations, Authorize(t) PROVE IInv'
<1>1. PICK outcome \in {"available", "closed"} : phase' = [phase EXCEPT ![t] = outcome]
  BY DEF Authorize
<1>2. /\ phase[t] = "authorizing"
      /\ UNCHANGED <<file, version, seen, admitted, prepared, registered, lineage, denied,
                     issued, latest, pc, mode, handle, token, fresh, barred>>
  BY DEF Authorize, captures, hostState
<1>3. phase \in [Preparations -> Phases] /\ token \in [Reads -> Preparations \cup {None}]
  BY DEF IInv, TypeOK, Phases
<1>4. phase'[t] = outcome /\ \A u \in Preparations : u # t => phase'[u] = phase[u]
  BY <1>1, <1>3
<1>5. TypeOK'
  BY <1>1, <1>2, <1>3 DEF IInv, TypeOK
<1>6. Captured'
  BY <1>2 DEF IInv, Captured, Retained
<1>7. Preparing'
  <2>1. \A r \in Reads : Retained(r) => token[r] # t /\ token[r] \in Preparations
    BY <1>2, <1>3 DEF IInv, Preparing, Retained
  <2> QED BY <1>2, <1>4, <2>1 DEF IInv, Preparing, Retained, PreparationServesOnce
<1>8. Handling' /\ Denying' /\ DeliveredHandlesStay'
  BY <1>2 DEF IInv, Handling, Retained, Denying, DenialBarsBothFamilies, DeliveredHandlesStay
<1> QED BY <1>5, <1>6, <1>7, <1>8 DEF IInv

LEMMA StartRetainedKeeps == ASSUME IInv, NEW r \in Reads, StartRetained(r) PROVE IInv'
<1>1. PICK t \in Preparations :
       LET p == prepared[t]
           honoured == p.handle # None => p.handle \in registered
       IN  /\ phase[t] = "available"
           /\ token' = [token EXCEPT ![r] = t]
           /\ mode' = [mode EXCEPT ![r] = p.mode]
           /\ handle' = [handle EXCEPT ![r] = p.handle]
           /\ pc' = [pc EXCEPT ![r] = IF honoured THEN "gate1" ELSE "rejected"]
           /\ phase' = IF honoured THEN Consume(t) ELSE [phase EXCEPT ![t] = "closed"]
  BY DEF StartRetained
<1> DEFINE p == prepared[t]
           honoured == p.handle # None => p.handle \in registered
<1>2. /\ pc[r] = "idle" /\ barred' = [barred EXCEPT ![r] = denied]
      /\ UNCHANGED <<file, version, seen, admitted, prepared, registered, lineage, denied,
                     issued, latest, fresh>>
  BY DEF StartRetained, captures, hostState
<1>3. /\ prepared \in [Preparations -> Preparation \cup {None}] /\ phase \in [Preparations -> Phases]
      /\ token \in [Reads -> Preparations \cup {None}] /\ handle \in [Reads -> Reads \cup {None}]
      /\ pc \in [Reads -> Stages] /\ mode \in [Reads -> Modes \cup {None}]
      /\ barred \in [Reads -> BOOLEAN] /\ denied \in BOOLEAN
  BY DEF IInv, TypeOK, Phases, Stages
<1>4. p # None /\ p.handle \in Reads \cup {None} /\ p.mode \in Modes /\ p \in Preparation
  BY <1>1, <1>3 DEF IInv, Preparing, Preparation
<1>5. /\ token'[r] = t /\ handle'[r] = p.handle /\ barred'[r] = denied
      /\ pc'[r] = (IF honoured THEN "gate1" ELSE "rejected")
      /\ phase'[t] = (IF honoured THEN "reserved" ELSE "closed")
      /\ \A q \in Reads : q # r => /\ pc'[q] = pc[q] /\ handle'[q] = handle[q]
                                   /\ barred'[q] = barred[q] /\ token'[q] = token[q]
      /\ \A u \in Preparations : u # t => phase'[u] = phase[u]
  BY <1>1, <1>2, <1>3 DEF Consume
<1>6. /\ token' \in [Reads -> Preparations \cup {None}] /\ handle' \in [Reads -> Reads \cup {None}]
      /\ pc' \in [Reads -> Stages] /\ mode' \in [Reads -> Modes \cup {None}]
      /\ phase' \in [Preparations -> Phases] /\ barred' \in [Reads -> BOOLEAN]
  <2>1. token' \in [Reads -> Preparations \cup {None}] /\ handle' \in [Reads -> Reads \cup {None}]
    BY <1>1, <1>3, <1>4
  <2>2. mode' \in [Reads -> Modes \cup {None}] /\ barred' \in [Reads -> BOOLEAN]
    BY <1>1, <1>2, <1>3, <1>4
  <2>3. pc' \in [Reads -> Stages]
    BY <1>1, <1>3 DEF Stages
  <2>4. phase' \in [Preparations -> Phases]
    BY <1>1, <1>3 DEF Phases, Consume
  <2> QED BY <2>1, <2>2, <2>3, <2>4
<1>7. t # None /\ ~Retained(r) /\ r \notin issued /\ fresh[r] = None /\ r \notin admitted
  BY <1>2, Nones DEF IInv, Captured, Handling
<1>8. \A q \in Reads : Retained(q) => token[q] # t
  BY <1>1, <1>3 DEF IInv, Preparing, Retained
<1> HIDE DEF p, honoured
<1>11. TypeOK'
  BY <1>2, <1>6 DEF IInv, TypeOK, Phases, Stages
<1>12. Captured'
  BY <1>2, <1>5, <1>7 DEF IInv, Captured, Retained
<1>13. Preparing'
  <2>1. \A u \in Preparations : phase'[u] = "none" <=> prepared'[u] = None
    BY <1>2, <1>4, <1>5 DEF IInv, Preparing, p
  <2>2. ASSUME NEW u \in Preparations, prepared[u] # None, prepared[u].handle # None
        PROVE  LET x == prepared[u].handle
               IN  fresh[x] # None /\ token'[x] # None /\ prepared[token'[x]].snapshot = prepared[u].snapshot
    <3>1. prepared[u].handle \in Reads
      BY <1>3, <2>2 DEF Preparation
    <3>2. prepared[u].handle # r
      BY <1>7, <2>2 DEF IInv, Preparing
    <3> QED BY <1>5, <2>2, <3>1, <3>2 DEF IInv, Preparing, Retained
  <2>3. ASSUME NEW q \in Reads, token'[q] # None
        PROVE  /\ prepared[token'[q]] # None /\ handle'[q] = prepared[token'[q]].handle
               /\ phase'[token'[q]] \in {"reserved", "closed"}
               /\ pc'[q] \in Serving <=> phase'[token'[q]] = "reserved"
    <3>1. CASE q = r
      BY <1>4, <1>5, <3>1 DEF p, Serving
    <3>2. CASE q # r
      <4>1. Retained(q) /\ token[q] \in Preparations /\ token'[q] = token[q]
        BY <1>3, <1>5, <2>3, <3>2 DEF Retained
      <4> QED BY <1>5, <1>8, <3>2, <4>1 DEF IInv, Preparing
    <3> QED BY <3>1, <3>2
  <2>4. ASSUME NEW u \in Preparations, phase'[u] = "reserved"
        PROVE  \E q \in Reads : token'[q] = u
    <3>1. CASE u = t
      BY <1>5, <3>1
    <3>2. CASE u # t
      <4>1. PICK q \in Reads : token[q] = u
        BY <1>5, <2>4, <3>2 DEF IInv, Preparing
      <4>2. q # r
        BY <1>7, <4>1, Nones DEF Retained
      <4> QED BY <1>5, <4>1, <4>2
    <3> QED BY <3>1, <3>2
  <2>5. PreparationServesOnce'
    BY <1>5, <1>8 DEF IInv, Preparing, PreparationServesOnce, Retained
  <2> QED BY <1>2, <2>1, <2>2, <2>3, <2>4, <2>5 DEF Preparing, Retained
<1>14. Handling'
  <2>1. p.handle # None => Retained(p.handle) /\ p.handle # r
    BY <1>4, <1>7 DEF IInv, Preparing, p
  <2>2. p.handle # None /\ pc'[r] # "rejected" => p.handle \in issued
    BY <1>5 DEF IInv, Handling, honoured
  <2>3. \A h \in issued : h # r /\ h \in Reads
    BY <1>7 DEF IInv, TypeOK
  <2>4. r \notin registered /\ pc'[r] \notin {"delivering", "ready", "undelivered"}
    BY <1>5, <1>7 DEF IInv, Handling
  <2> QED BY <1>2, <1>5, <1>7, <2>1, <2>2, <2>3, <2>4 DEF IInv, Handling, Retained
<1>15. Denying' /\ DeliveredHandlesStay'
  <2>1. \A h \in issued : h # r /\ h \in Reads
    BY <1>7 DEF IInv, TypeOK
  <2> QED BY <1>2, <1>5, <2>1 DEF IInv, Denying, DenialBarsBothFamilies, DeliveredHandlesStay, Retained
<1> QED BY <1>11, <1>12, <1>13, <1>14, <1>15 DEF IInv

\* A Read that ends closes the preparation it consumed.
LEMMA Ends ==
  ASSUME IInv, NEW r \in Reads, NEW p \in Stages \ (Serving \cup {"idle", "opening", "loading"}),
         pc' = [pc EXCEPT ![r] = p], phase' = Close(r, phase),
         UNCHANGED <<prepared, token, handle>>,
         \A h \in Reads : fresh[h] # None => fresh'[h] # None
  PROVE  Preparing' /\ phase' \in [Preparations -> Phases] /\ pc' \in [Reads -> Stages]
<1>1. /\ phase \in [Preparations -> Phases] /\ token \in [Reads -> Preparations \cup {None}]
      /\ pc \in [Reads -> Stages] /\ prepared \in [Preparations -> Preparation \cup {None}]
  BY DEF IInv, TypeOK, Phases, Stages
<1>2. /\ pc'[r] = p /\ \A q \in Reads : q # r => pc'[q] = pc[q]
      /\ pc' \in [Reads -> Stages]
  BY <1>1
<1>3. phase' \in [Preparations -> Phases]
  BY <1>1 DEF Close, Retained, Phases
<1>4. \A h \in Reads : fresh[h] # None => fresh'[h] # None
  OBVIOUS
<1>5. \A t \in Preparations : prepared[t] # None /\ prepared[t].handle # None => prepared[t].handle \in Reads
  BY <1>1 DEF Preparation
<1>6. CASE ~Retained(r)
  <2>1. phase' = phase
    BY <1>6 DEF Close
  <2>2. \A q \in Reads : Retained(q) => pc'[q] = pc[q]
    BY <1>2, <1>6
  <2> QED BY <1>2, <1>3, <1>4, <1>5, <2>1, <2>2 DEF IInv, Preparing, Retained, PreparationServesOnce
<1>7. CASE Retained(r)
  <2>1. /\ token[r] \in Preparations /\ phase'[token[r]] = "closed"
        /\ \A u \in Preparations : u # token[r] => phase'[u] = phase[u]
        /\ phase[token[r]] # "none"
    BY <1>1, <1>7 DEF Close, Retained, IInv, Preparing
  <2>2. \A q \in Reads : Retained(q) /\ q # r => token[q] # token[r] /\ token[q] \in Preparations
    BY <1>1, <1>7 DEF IInv, Preparing, PreparationServesOnce, Retained
  <2>3. \A u \in Preparations : phase'[u] = "none" <=> prepared[u] = None
    BY <2>1 DEF IInv, Preparing
  <2>4. \A q \in Reads : Retained(q) =>
          /\ phase'[token[q]] \in {"reserved", "closed"}
          /\ pc'[q] \in Serving <=> phase'[token[q]] = "reserved"
    BY <1>2, <2>1, <2>2 DEF IInv, Preparing
  <2>5. \A u \in Preparations : phase'[u] = "reserved" => \E q \in Reads : token[q] = u
    BY <2>1 DEF IInv, Preparing
  <2> QED BY <1>2, <1>3, <1>4, <1>5, <2>3, <2>4, <2>5 DEF IInv, Preparing, Retained, PreparationServesOnce
<1> QED BY <1>6, <1>7

LEMMA RejectKeeps == ASSUME IInv, NEW r \in Reads, Reject(r) PROVE IInv'
<1>1. /\ pc[r] \in {"opening", "loading", "gate1", "gate2"} /\ pc' = [pc EXCEPT ![r] = "rejected"]
      /\ phase' = Close(r, phase)
      /\ UNCHANGED <<file, version, seen, admitted, prepared, registered, lineage, denied,
                     issued, latest, mode, handle, token, fresh, barred>>
  BY DEF Reject, captures, hostState
<1>2. Preparing' /\ phase' \in [Preparations -> Phases] /\ pc' \in [Reads -> Stages]
  <2>1. "rejected" \in Stages \ (Serving \cup {"idle", "opening", "loading"})
    BY DEF Stages, Serving
  <2> QED BY <1>1, <2>1, Ends
<1>3. pc'[r] = "rejected" /\ \A q \in Reads : q # r => pc'[q] = pc[q]
  BY <1>1 DEF IInv, TypeOK
<1>4. TypeOK'
  BY <1>1, <1>2 DEF IInv, TypeOK, Phases, Stages
<1>5. Captured'
  BY <1>1, <1>3 DEF IInv, Captured, Retained
<1>6. Handling' /\ Denying' /\ DeliveredHandlesStay'
  <2>1. r \notin issued /\ fresh[r] = None
    BY <1>1 DEF IInv, Handling
  <2>2. \A h \in issued : h # r /\ h \in Reads
    BY <2>1 DEF IInv, TypeOK
  <2> QED BY <1>1, <1>3, <2>1, <2>2
          DEF IInv, Handling, Retained, Denying, DenialBarsBothFamilies, DeliveredHandlesStay
<1> QED BY <1>2, <1>4, <1>5, <1>6 DEF IInv

LEMMA FailDeliveryKeeps == ASSUME IInv, NEW r \in Reads, FailDelivery(r) PROVE IInv'
<1>1. /\ pc[r] = "delivering" /\ pc' = [pc EXCEPT ![r] = "undelivered"]
      /\ phase' = Close(r, phase)
      /\ UNCHANGED <<file, version, seen, admitted, prepared, registered, lineage, denied,
                     issued, latest, mode, handle, token, fresh, barred>>
  BY DEF FailDelivery, captures, hostState
<1>2. Preparing' /\ phase' \in [Preparations -> Phases] /\ pc' \in [Reads -> Stages]
  <2>1. "undelivered" \in Stages \ (Serving \cup {"idle", "opening", "loading"})
    BY DEF Stages, Serving
  <2> QED BY <1>1, <2>1, Ends
<1>3. pc'[r] = "undelivered" /\ \A q \in Reads : q # r => pc'[q] = pc[q]
  BY <1>1 DEF IInv, TypeOK
<1>4. TypeOK'
  BY <1>1, <1>2 DEF IInv, TypeOK, Phases, Stages
<1>5. Captured'
  BY <1>1, <1>3 DEF IInv, Captured, Retained
<1>6. Handling' /\ Denying' /\ DeliveredHandlesStay'
  <2>1. r \notin issued /\ fresh[r] # None
    BY <1>1 DEF IInv, Handling
  <2>2. \A h \in issued : h # r /\ h \in Reads
    BY <2>1 DEF IInv, TypeOK
  <2> QED BY <1>1, <1>3, <2>1, <2>2
          DEF IInv, Handling, Retained, Denying, DenialBarsBothFamilies, DeliveredHandlesStay
<1> QED BY <1>2, <1>4, <1>5, <1>6 DEF IInv

LEMMA ObserveKeeps == ASSUME IInv, NEW r \in Reads, Observe(r) PROVE IInv'
<1>1. PICK a \in Windows, lift \in BOOLEAN, deny \in BOOLEAN :
       /\ InWindow(r, a) /\ Judge(lift, deny)
       /\ barred' = [q \in Reads |-> barred[q] /\ ~lift]
       /\ \/ /\ pc' = [pc EXCEPT ![r] = "rejected"]
             /\ phase' = Close(r, phase)
             /\ UNCHANGED fresh
          \/ /\ pc[r] = "gate1" /\ ~denied'
             /\ pc' = [pc EXCEPT ![r] = "gate2"]
             /\ UNCHANGED <<phase, fresh>>
          \/ /\ pc[r] = "gate2" /\ ~denied'
             /\ pc' = [pc EXCEPT ![r] = "delivering"]
             /\ fresh' = [fresh EXCEPT ![r] = a]
             /\ UNCHANGED phase
  BY DEF Observe
<1>2. /\ pc[r] \in {"gate1", "gate2"}
      /\ UNCHANGED <<file, version, seen, admitted, prepared, registered, lineage, issued, latest,
                     mode, handle, token>>
  BY DEF Observe, captures
<1>3. /\ pc \in [Reads -> Stages] /\ denied \in BOOLEAN /\ barred \in [Reads -> BOOLEAN]
      /\ fresh \in [Reads -> Windows \cup {None}] /\ issued \subseteq Reads
      /\ handle \in [Reads -> Reads \cup {None}] /\ phase \in [Preparations -> Phases]
  BY DEF IInv, TypeOK, Stages, Phases
<1>4. /\ r \notin issued /\ fresh[r] = None
      /\ \A h \in issued : h # r /\ h \in Reads
  BY <1>2, <1>3 DEF IInv, Handling
<1>5. /\ denied' \in BOOLEAN /\ barred' \in [Reads -> BOOLEAN]
      /\ \A q \in Reads : barred'[q] => barred[q] /\ denied'
  <2>1. \A q \in Reads : barred[q] => denied
    BY DEF IInv, Denying
  <2> QED BY <1>1, <1>3, <2>1 DEF Judge
\* The Read goes on, to p.
<1>6. ASSUME NEW p \in {"gate2", "delivering"}, pc' = [pc EXCEPT ![r] = p], UNCHANGED phase, ~denied',
             p = "gate2" => fresh' = fresh,
             p = "delivering" => fresh' = [fresh EXCEPT ![r] = a]
      PROVE  IInv'
  <2>1. /\ pc'[r] = p /\ \A q \in Reads : q # r => pc'[q] = pc[q] /\ fresh'[q] = fresh[q]
        /\ fresh'[r] # None <=> p = "delivering"
        /\ p = "delivering" => fresh'[r] = a
    BY <1>3, <1>4, <1>6, Nones
  <2>2. TypeOK'
    <3>1. pc' \in [Reads -> Stages] /\ fresh' \in [Reads -> Windows \cup {None}]
      BY <1>3, <1>6 DEF Stages
    <3> QED BY <1>2, <1>5, <1>6, <3>1 DEF IInv, TypeOK, Stages
  <2>3. Captured'
    BY <1>2, <2>1 DEF IInv, Captured, Retained
  <2>4. Preparing'
    <3>1. \A q \in Reads : pc'[q] \in Serving <=> pc[q] \in Serving
      BY <1>2, <2>1 DEF Serving
    <3>2. \A u \in Preparations : prepared[u] # None /\ prepared[u].handle # None =>
            prepared[u].handle \in Reads /\ prepared[u].handle # r
      BY <1>4 DEF IInv, TypeOK, Preparing, Preparation
    <3> QED BY <1>2, <1>6, <2>1, <3>1, <3>2 DEF IInv, Preparing, Retained, PreparationServesOnce
  <2>5. Handling'
    <3>1. p = "delivering" /\ handle[r] # None =>
            fresh[handle[r]].now <= a.now /\ a.now < fresh[handle[r]].expires
      BY <1>1 DEF InWindow
    <3>2. \A q \in Reads : handle[q] # None /\ pc[q] # "rejected" => handle[q] \in issued
      BY DEF IInv, Handling
    <3>3. \A h \in issued : fresh'[h] = fresh[h] /\ pc'[h] = pc[h]
      BY <1>4, <2>1
    <3>4. ASSUME NEW q \in Reads, handle[q] # None, pc'[q] # "rejected"
          PROVE  LET h == handle[q]
                 IN  /\ h \in issued /\ (Retained(q) <=> Retained(h))
                     /\ ~Retained(q) /\ pc'[q] # "opening" => version[q] = version[h]
                     /\ fresh'[q] # None =>
                          fresh'[h].now <= fresh'[q].now /\ fresh'[q].now < fresh'[h].expires
      <4>1. CASE q = r
        <5>1. pc[r] # "rejected" /\ pc[r] # "opening"
          BY <1>2
        <5> QED BY <2>1, <3>1, <3>2, <3>3, <3>4, <4>1, <5>1 DEF IInv, Handling
      <4>2. CASE q # r
        BY <2>1, <3>2, <3>3, <3>4, <4>2 DEF IInv, Handling
      <4> QED BY <4>1, <4>2
    <3>5. \A q \in Reads : fresh'[q] # None <=> pc'[q] \in {"delivering", "ready", "undelivered"}
      BY <1>6, <2>1 DEF IInv, Handling
    <3> QED BY <1>2, <3>3, <3>4, <3>5 DEF IInv, Handling, Retained
  <2>6. Denying'
    BY <1>5, <1>6, <2>1 DEF IInv, Denying, DenialBarsBothFamilies
  <2>7. DeliveredHandlesStay'
    BY <1>2, <1>4, <2>1 DEF IInv, DeliveredHandlesStay, Retained
  <2> QED BY <2>2, <2>3, <2>4, <2>5, <2>6, <2>7 DEF IInv
\* The Read is refused.
<1>7. CASE pc' = [pc EXCEPT ![r] = "rejected"] /\ phase' = Close(r, phase) /\ UNCHANGED fresh
  <2>1. Preparing' /\ phase' \in [Preparations -> Phases] /\ pc' \in [Reads -> Stages]
    <3>1. "rejected" \in Stages \ (Serving \cup {"idle", "opening", "loading"})
      BY DEF Stages, Serving
    <3> QED BY <1>2, <1>7, <3>1, Ends
  <2>2. pc'[r] = "rejected" /\ \A q \in Reads : q # r => pc'[q] = pc[q]
    BY <1>3, <1>7
  <2>3. TypeOK'
    BY <1>2, <1>5, <1>7, <2>1 DEF IInv, TypeOK, Stages, Phases
  <2>4. Captured'
    BY <1>2, <2>2 DEF IInv, Captured, Retained
  <2>5. Handling'
    BY <1>2, <1>4, <1>7, <2>2 DEF IInv, Handling, Retained
  <2>6. Denying' /\ DeliveredHandlesStay'
    BY <1>2, <1>4, <1>5, <1>7, <2>2
       DEF IInv, Denying, DenialBarsBothFamilies, DeliveredHandlesStay, Retained
  <2> QED BY <2>1, <2>3, <2>4, <2>5, <2>6 DEF IInv
<1> QED BY <1>1, <1>6, <1>7

LEMMA DeliverKeeps == ASSUME IInv, NEW r \in Reads, Deliver(r) PROVE IInv'
<1>1. /\ pc[r] = "delivering" /\ pc' = [pc EXCEPT ![r] = "ready"] /\ phase' = Close(r, phase)
      /\ UNCHANGED <<file, version, seen, admitted, prepared, denied, mode, handle, token, fresh, barred>>
  BY DEF Deliver, captures
<1>2. Preparing' /\ phase' \in [Preparations -> Phases] /\ pc' \in [Reads -> Stages]
  <2>1. "ready" \in Stages \ (Serving \cup {"idle", "opening", "loading"})
    BY DEF Stages, Serving
  <2> QED BY <1>1, <2>1, Ends
<1>3. pc'[r] = "ready" /\ \A q \in Reads : q # r => pc'[q] = pc[q]
  BY <1>1 DEF IInv, TypeOK
<1>4. /\ r \notin issued /\ fresh[r] # None
      /\ registered \subseteq Reads /\ lineage \subseteq Reads /\ issued \subseteq Reads
      /\ fresh \in [Reads -> Windows \cup {None}] /\ latest \in Nat
      /\ registered \subseteq issued
  BY <1>1 DEF IInv, TypeOK, Handling
<1>5. \A h \in issued : h \in Reads /\ h # r /\ fresh[h] # None
  BY <1>4 DEF IInv, Handling
<1>6. Captured' /\ Denying'
  BY <1>1, <1>3 DEF IInv, Captured, Retained, Denying, DenialBarsBothFamilies
\* What becomes of the registry.
<1>7. ASSUME NEW minted \in {{}, {r}},
             registered' = (registered \ ExpiredAt(fresh[r].now)) \cup minted,
             lineage' = KeepLineage(r, ExpiredAt(fresh[r].now)) \cup (IF Retained(r) THEN {} ELSE minted),
             issued' = issued \cup minted,
             latest' = IF fresh[r].now > latest THEN fresh[r].now ELSE latest
      PROVE  IInv'
  <2> DEFINE now == fresh[r].now
  <2>1. now \in Nat /\ latest' \in Nat /\ now <= latest' /\ latest <= latest'
    <3>1. now \in Nat
      BY <1>4, WindowTimes
    <3> HIDE DEF now
    <3>2. latest' = IF now > latest THEN now ELSE latest
      BY <1>7 DEF now
    <3> QED BY <1>4, <3>1, <3>2
  <2> HIDE DEF now
  <2>2. minted \subseteq {r}
    BY <1>7
  <2>3. TypeOK'
    <3>1. registered' \subseteq Reads /\ lineage' \subseteq Reads /\ issued' \subseteq Reads
      BY <1>4, <1>7, <2>2 DEF KeepLineage
    <3> QED BY <1>1, <1>2, <2>1, <3>1 DEF IInv, TypeOK, Phases, Stages
  <2>4. Handling'
    <3>1. registered' \subseteq issued' /\ issued \subseteq issued'
      BY <1>4, <1>7
    <3>2. \A h \in issued' : pc'[h] = "ready"
      BY <1>3, <1>5, <1>7, <2>2 DEF IInv, Handling
    <3>3. \A q \in Reads : handle[q] # None /\ pc'[q] # "rejected" => pc[q] # "rejected"
      BY <1>1, <1>3
    <3>4. \A q \in Reads : pc'[q] # "opening" => pc[q] # "opening"
      BY <1>1, <1>3
    <3>5. \A q \in Reads : fresh[q] # None <=> pc'[q] \in {"delivering", "ready", "undelivered"}
      BY <1>1, <1>3 DEF IInv, Handling
    <3> QED BY <1>1, <3>1, <3>2, <3>3, <3>4, <3>5 DEF IInv, Handling, Retained
  <2>5. DeliveredHandlesStay'
    <3> SUFFICES ASSUME NEW h \in issued', latest' < fresh[h].expires
                 PROVE  h \in registered' /\ (h \in lineage' \/ Retained(h))
      BY <1>1 DEF DeliveredHandlesStay, Retained
    <3>1. CASE h \in minted
      <4>1. h = r
        BY <2>2, <3>1
      <4> QED BY <1>7, <3>1, <4>1
    <3>2. CASE h \in issued
      <4>1. fresh[h].expires \in Nat
        BY <1>4, <1>5, <3>2, WindowTimes
      <4>2. h \in registered /\ (h \in lineage \/ Retained(h))
        <5>1. latest < fresh[h].expires
          BY <1>4, <2>1, <4>1
        <5> QED BY <3>2, <5>1 DEF IInv, DeliveredHandlesStay
      <4>3. ~(fresh[h].expires <= now)
        BY <2>1, <4>1
      <4>4. h \notin ExpiredAt(fresh[r].now)
        BY <4>3 DEF ExpiredAt, now
      <4> QED BY <1>7, <4>2, <4>4 DEF KeepLineage
    <3> QED BY <1>7, <3>1, <3>2
  <2> QED BY <1>2, <1>6, <2>3, <2>4, <2>5 DEF IInv
<1>8. CASE UNCHANGED <<registered, lineage, issued, latest>>
  <2>1. TypeOK'
    BY <1>1, <1>2, <1>8 DEF IInv, TypeOK, Phases, Stages
  <2>2. Handling' /\ DeliveredHandlesStay'
    BY <1>1, <1>3, <1>5, <1>8 DEF IInv, Handling, Retained, DeliveredHandlesStay
  <2> QED BY <1>2, <1>6, <2>1, <2>2 DEF IInv
<1>9. \/ UNCHANGED <<registered, lineage, issued, latest>>
      \/ \E minted \in {{}, {r}} :
           /\ registered' = (registered \ ExpiredAt(fresh[r].now)) \cup minted
           /\ lineage' = KeepLineage(r, ExpiredAt(fresh[r].now)) \cup (IF Retained(r) THEN {} ELSE minted)
           /\ issued' = issued \cup minted
           /\ latest' = IF fresh[r].now > latest THEN fresh[r].now ELSE latest
  BY DEF Deliver
<1> QED BY <1>7, <1>8, <1>9

-----------------------------------------------------------------------------
(* The invariant and the theorems                                           *)

LEMMA Inductive == IInv /\ [Next]_vars => IInv'
<1> SUFFICES ASSUME IInv, [Next]_vars PROVE IInv'
  OBVIOUS
<1>1. CASE UNCHANGED vars
  BY <1>1 DEF vars, captures, tokens, hostState, IInv, TypeOK, Captured, Preparing, Handling, Denying,
              Retained, PreparationServesOnce, DenialBarsBothFamilies, DeliveredHandlesStay
<1> QED BY <1>1, RewriteKeeps, StartSectionKeeps, OpenKeeps, LoadKeeps, AdmitKeeps, PrepareKeeps,
           AuthorizeKeeps, StartRetainedKeeps, RejectKeeps, ObserveKeeps, DeliverKeeps,
           FailDeliveryKeeps DEF Next

LEMMA Always == Spec => []IInv
<1> QED BY Initially, Inductive, PTL DEF Spec

\* Every state of the section Reads is well typed.
THEOREM TypeCorrect == Spec => []TypeOK
<1> QED BY Always, PTL DEF IInv

\* However the file is rewritten meanwhile, an admitted snapshot is made of bytes of the
\* one version its identity names (section-capture-node.js assertUnchanged).
THEOREM OneVersion == Spec => []SnapshotIsOneVersion
<1>1. IInv => SnapshotIsOneVersion
  BY DEF IInv, TypeOK, Captured, SnapshotIsOneVersion
<1> QED BY <1>1, Always, PTL

\* An expansion discloses the version its handle was minted for, in the family that minted
\* it, after that delivery was confirmed and within its window.
THEOREM OriginKept == Spec => []ExpansionKeepsItsOrigin
<1>1. IInv => ExpansionKeepsItsOrigin
  <2> SUFFICES ASSUME IInv, NEW r \in Reads, fresh[r] # None, handle[r] # None
               PROVE  LET h == handle[r]
                      IN  /\ pc[h] = "ready" /\ (Retained(r) <=> Retained(h))
                          /\ version[Snapshot(r)] = version[Snapshot(h)]
                          /\ Retained(r) => Snapshot(r) = Snapshot(h)
                          /\ fresh[h].now <= fresh[r].now /\ fresh[r].now < fresh[h].expires
    BY DEF ExpansionKeepsItsOrigin, Disclosing
  <2> DEFINE h == handle[r]
  <2>1. pc[r] \notin {"rejected", "opening"}
    BY DEF IInv, Handling
  <2>2. /\ h \in issued /\ (Retained(r) <=> Retained(h))
        /\ ~Retained(r) => version[r] = version[h]
        /\ fresh[h].now <= fresh[r].now /\ fresh[r].now < fresh[h].expires
    BY <2>1 DEF IInv, Handling
  <2>3. pc[h] = "ready"
    BY <2>2 DEF IInv, Handling
  <2>4. Retained(r) => Snapshot(r) = Snapshot(h)
    <3> SUFFICES ASSUME Retained(r) PROVE Snapshot(r) = Snapshot(h)
      OBVIOUS
    <3>1. /\ token[r] \in Preparations /\ prepared[token[r]] # None
          /\ prepared[token[r]].handle = h
      BY DEF IInv, TypeOK, Preparing, Retained
    <3> QED BY <2>2, <3>1 DEF IInv, Preparing, Snapshot
  <2> QED BY <2>2, <2>3, <2>4 DEF Snapshot
<1> QED BY <1>1, Always, PTL

\* A preparation serves one Read, however many calls hold its token.
THEOREM ServedOnce == Spec => []PreparationServesOnce
<1> QED BY Always, PTL DEF IInv, Preparing

\* A preparation is reserved from its consumption to the end of its Read, and no longer.
THEOREM ReservedOnlyWhileReading == Spec => []ReservedWhileReading
<1>1. IInv => ReservedWhileReading
  BY Nones DEF IInv, Preparing, Retained, Serving, ReservedWhileReading
<1> QED BY <1>1, Always, PTL

\* A denial brought by a Read of either family bars the Reads of both until it is lifted.
THEOREM DenialsBarBoth == Spec => []DenialBarsBothFamilies
<1> QED BY Always, PTL DEF IInv, Denying

\* Neither family drops the other's handles, or their origins, before they expire.
THEOREM HandlesStay == Spec => []DeliveredHandlesStay
<1> QED BY Always, PTL DEF IInv

\* The run's invariant of preparations (retained-state.js) holds for any number of them and
\* of Reads.
THEOREM PreparationInvariantHolds == Spec => []PreparationInvariant
<1>1. TypeOK /\ PreparationServesOnce /\ ReservedWhileReading => PreparationInvariant
  BY DEF PreparationInvariant
<1>. QED  BY <1>1, TypeCorrect, ServedOnce, ReservedOnlyWhileReading, PTL
=============================================================================
