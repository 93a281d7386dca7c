----------------------------- MODULE SectionRead -----------------------------
(***************************************************************************)
(* Section Reads of one asset file through one Host (kdna-read/src:        *)
(* sections-node.js readSectionNode, section-handles.js,                   *)
(* section-host-gate.js, retained-sections-node.js readRetainedSection,    *)
(* retained-read-project.js mint; kdna-core/src/public-contract:           *)
(* section-capture-node.js, section-expansion.js, section-partial-node.js, *)
(* retained-sections-node.js prepareRetainedSectionRead, retained-state.js)*)
(*                                                                         *)
(* A section Read captures the file; a retained Read works from a snapshot *)
(* that an earlier Read admitted, under a one-shot preparation.  Both      *)
(* families share the Host's denials and handle registry; only section     *)
(* Reads also keep the lineage of their handles.  The file is rewritten in *)
(* place at any time, and every rewrite changes what stat says of it.  A   *)
(* Read's name stands for its snapshot and for the handles it mints.       *)
(***************************************************************************)
EXTENDS Naturals

CONSTANTS
  Reads,
  Preparations,   \* tokens of prepareRetainedSectionRead
  MaxVersion,     \* bound: versions the file goes through
  Times,          \* times the Host may report
  Window,         \* longest validity of a Host answer
  None

Versions == 1..MaxVersion
Modes == {"catalog", "select", "whole", "expand"}
Preparation == [snapshot: Reads, mode: Modes, handle: Reads \cup {None}]
Windows == [now: Times, expires: {t + w : t \in Times, w \in 1..Window}]

ASSUME ConstantsAssumption ==
  /\ MaxVersion \in Nat \ {0} /\ Times \subseteq Nat /\ Window \in Nat
  /\ None \notin Reads \cup Preparations \cup Versions
  /\ None \notin Modes /\ None \notin Windows /\ None \notin Preparation

VARIABLES
  file,        \* version of the file's bytes and stat
  pc,          \* where each Read is suspended, or how it ended
  mode,        \* what each Read asks for
  handle,      \* the handle it presents, None unless it expands
  token,       \* the preparation it consumed, None in a section Read
  version,     \* stat of the file when its capture was opened
  seen,        \* versions its capture took bytes from
  admitted,    \* section Reads Core admitted: their snapshots exist
  prepared,    \* what each preparation is for
  phase,       \* retained-state.js: the phase of each preparation
  registered,  \* hosts.get(host).handles
  lineage,     \* section-handles.js: Reads whose handles have a recorded origin
  denied,      \* state.revocations holds the asset
  fresh,       \* window of each Read's second Host observation
  barred,      \* history: denied when the Read started and not lifted since
  issued,      \* history: Reads whose handles were registered
  latest       \* history: latest disclosure that dropped expired handles

captures == <<file, version, seen, admitted>>
tokens == <<prepared, phase>>
hostState == <<registered, lineage, denied, issued, latest>>
vars == <<captures, tokens, hostState, pc, mode, handle, token, fresh, barred>>

TypeOK ==
  /\ file \in Versions
  /\ pc \in [Reads -> {"idle", "opening", "loading", "gate1", "gate2", "delivering",
                       "ready", "rejected", "undelivered"}]
  /\ mode \in [Reads -> Modes \cup {None}]
  /\ handle \in [Reads -> Reads \cup {None}]
  /\ token \in [Reads -> Preparations \cup {None}]
  /\ version \in [Reads -> Versions \cup {None}]
  /\ seen \in [Reads -> SUBSET Versions]
  /\ prepared \in [Preparations -> Preparation \cup {None}]
  /\ phase \in [Preparations -> {"none", "authorizing", "available", "reserved", "closed"}]
  /\ admitted \subseteq Reads /\ registered \subseteq Reads
  /\ lineage \subseteq Reads /\ issued \subseteq Reads
  /\ denied \in BOOLEAN /\ barred \in [Reads -> BOOLEAN]
  /\ fresh \in [Reads -> Windows \cup {None}]
  /\ latest \in Nat

Init ==
  /\ file = 1 /\ denied = FALSE /\ latest = 0
  /\ pc = [r \in Reads |-> "idle"]
  /\ mode = [r \in Reads |-> None]
  /\ handle = [r \in Reads |-> None]
  /\ token = [r \in Reads |-> None]
  /\ version = [r \in Reads |-> None]
  /\ seen = [r \in Reads |-> {}]
  /\ prepared = [t \in Preparations |-> None]
  /\ phase = [t \in Preparations |-> "none"]
  /\ admitted = {} /\ registered = {} /\ lineage = {} /\ issued = {}
  /\ fresh = [r \in Reads |-> None]
  /\ barred = [r \in Reads |-> FALSE]

Retained(r) == token[r] # None

\* The snapshot a Read discloses: its own capture, or the one it was prepared for.
Snapshot(r) == IF Retained(r) THEN prepared[token[r]].snapshot ELSE r

-----------------------------------------------------------------------------
(* Captures                                                                 *)

\* Another process rewrites the file in place.
Rewrite ==
  /\ file < MaxVersion
  /\ file' = file + 1
  /\ UNCHANGED <<version, seen, admitted, tokens, hostState,
                 pc, mode, handle, token, fresh, barred>>

\* section-handles.js lookup and section-expansion.js bind: the handle is registered,
\* has an origin, and is of the kind section Reads mint.
Lookup(h) == h \in registered /\ h \in lineage /\ ~Retained(h)

\* A delivery shows its handles whether or not it is then confirmed.
Shown == {h \in Reads : fresh[h] # None /\ mode[h] \in {"select", "whole"}}

StartSection(r) ==
  /\ pc[r] = "idle"
  /\ \E m \in Modes, h \in Shown \cup {None} :
       /\ h # None <=> m = "expand"
       /\ h # None => Lookup(h)
       /\ mode' = [mode EXCEPT ![r] = m]
       /\ handle' = [handle EXCEPT ![r] = h]
  /\ pc' = [pc EXCEPT ![r] = "opening"]
  /\ barred' = [barred EXCEPT ![r] = denied]
  /\ UNCHANGED <<captures, tokens, hostState, token, fresh>>

\* Fault: the handle's origin is not compared with the new capture.
AnyCapture(r) == TRUE

\* section-expansion.js checkCapture: the file has the identity it had for the origin.
SameSource(r) == handle[r] # None => version[handle[r]] = file

Open(r) ==
  /\ pc[r] = "opening"
  /\ SameSource(r)
  /\ version' = [version EXCEPT ![r] = file]
  /\ pc' = [pc EXCEPT ![r] = "loading"]
  /\ UNCHANGED <<file, seen, admitted, tokens, hostState, mode, handle, token, fresh, barred>>

\* One read of the open file: metadata before the authority answers, content after.
Load(r) ==
  /\ pc[r] = "loading"
  /\ seen' = [seen EXCEPT ![r] = @ \cup {file}]
  /\ UNCHANGED <<file, version, admitted, tokens, hostState,
                 pc, mode, handle, token, fresh, barred>>

\* Fault: only the capture's opening is compared, not what was read since.
OpenedOnce(r) == version[r] # None

\* capture.assertUnchanged after the last read.
Unchanged(r) == file = version[r]

Admit(r) ==
  /\ pc[r] = "loading" /\ seen[r] # {}
  /\ Unchanged(r)
  /\ admitted' = admitted \cup {r}
  /\ pc' = [pc EXCEPT ![r] = "gate1"]
  /\ UNCHANGED <<file, version, seen, tokens, hostState, mode, handle, token, fresh, barred>>

-----------------------------------------------------------------------------
(* Preparations                                                             *)

\* The handle was minted by a retained Read of the same snapshot.
SameOrigin(h, s) == Retained(h) /\ Snapshot(h) = s

\* A catalog or whole snapshot, a request it can serve; the authority is then awaited.
Prepare(t) ==
  /\ phase[t] = "none"
  /\ \E s \in admitted, m \in Modes, h \in Shown \cup {None} :
       /\ mode[s] = "whole" \/ (mode[s] = "catalog" /\ m = "catalog")
       /\ h # None <=> m = "expand"
       /\ h # None => SameOrigin(h, s)
       /\ prepared' = [prepared EXCEPT ![t] = [snapshot |-> s, mode |-> m, handle |-> h]]
  /\ phase' = [phase EXCEPT ![t] = "authorizing"]
  /\ UNCHANGED <<captures, hostState, pc, mode, handle, token, fresh, barred>>

\* The authority answers; only true, under a satisfied signature policy, prepares.
Authorize(t) ==
  /\ phase[t] = "authorizing"
  /\ \E outcome \in {"available", "closed"} : phase' = [phase EXCEPT ![t] = outcome]
  /\ UNCHANGED <<captures, prepared, hostState, pc, mode, handle, token, fresh, barred>>

\* Fault: the preparation is reserved only once the Host has answered.
ConsumeLate(t) == phase

\* retained-state.js consume, before any await.
Consume(t) == [phase EXCEPT ![t] = "reserved"]

\* retained-state.js close, in the finally of a retained Read.
Close(r, p) == IF Retained(r) THEN [p EXCEPT ![token[r]] = "closed"] ELSE p

\* A token that is not available refuses the call and leaves no Read (no step).  One
\* whose handle is not registered is consumed and closed all the same.
StartRetained(r) ==
  /\ pc[r] = "idle"
  /\ \E t \in Preparations :
       LET p == prepared[t]
           honoured == p.handle # None => p.handle \in registered
       IN  /\ phase[t] = "available"
           /\ token' = [token EXCEPT ![r] = t]
           /\ mode' = [mode EXCEPT ![r] = p.mode]
           /\ handle' = [handle EXCEPT ![r] = p.handle]
           /\ pc' = [pc EXCEPT ![r] = IF honoured THEN "gate1" ELSE "rejected"]
           /\ phase' = IF honoured THEN Consume(t) ELSE [phase EXCEPT ![t] = "closed"]
  /\ barred' = [barred EXCEPT ![r] = denied]
  /\ UNCHANGED <<captures, prepared, hostState, fresh>>

-----------------------------------------------------------------------------
(* The Host gate and the delivery                                           *)

Reject(r) ==
  /\ pc[r] \in {"opening", "loading", "gate1", "gate2"}
  /\ pc' = [pc EXCEPT ![r] = "rejected"]
  /\ phase' = Close(r, phase)
  /\ UNCHANGED <<captures, prepared, hostState, mode, handle, token, fresh, barred>>

\* Fault: an answer is judged by itself, whatever was denied before.
JudgeAlone(lift, deny) == denied' = deny

Judge(lift, deny) == denied' = ((denied /\ ~lift) \/ deny)

InWindow(r, a) ==
  /\ a.now < a.expires /\ a.expires <= a.now + Window
  /\ handle[r] # None =>
       fresh[handle[r]].now <= a.now /\ a.now < fresh[handle[r]].expires

\* A usable answer moves the denial, then denies; scope, projection or budget may still
\* refuse.  Delivering a rejection is part of the step that rejects.
Observe(r) ==
  /\ pc[r] \in {"gate1", "gate2"}
  /\ \E a \in Windows, lift, deny \in BOOLEAN :
       /\ InWindow(r, a)
       /\ Judge(lift, deny)
       /\ barred' = [q \in Reads |-> barred[q] /\ ~lift]
       /\ \/ /\ pc' = [pc EXCEPT ![r] = "rejected"]
             /\ phase' = Close(r, phase)
             /\ UNCHANGED fresh
          \/ /\ pc[r] = "gate1" /\ ~denied'
             /\ pc' = [pc EXCEPT ![r] = "gate2"]
             /\ UNCHANGED <<phase, fresh>>
          \/ /\ pc[r] = "gate2" /\ ~denied'
             /\ pc' = [pc EXCEPT ![r] = "delivering"]
             /\ fresh' = [fresh EXCEPT ![r] = a]
             /\ UNCHANGED phase
  /\ UNCHANGED <<captures, prepared, registered, lineage, issued, latest,
                 mode, handle, token>>

ExpiredAt(t) == {h \in registered : fresh[h].expires <= t}

\* section-handles.js commit keeps the lineage beside the registry; the retained
\* registration knows nothing of it.
KeepLineage(r, gone) == IF Retained(r) THEN lineage ELSE lineage \ gone

\* A catalog touches no handle; a confirmed ready Read drops what has expired at its
\* disclosure and registers what it minted, if anything was deferred.
Deliver(r) ==
  /\ pc[r] = "delivering"
  /\ pc' = [pc EXCEPT ![r] = "ready"]
  /\ phase' = Close(r, phase)
  /\ \/ /\ mode[r] = "catalog"
        /\ UNCHANGED <<registered, lineage, issued, latest>>
     \/ /\ mode[r] # "catalog"
        /\ \E minted \in {{}} \cup (IF mode[r] = "expand" THEN {} ELSE {{r}}) :
             LET gone == ExpiredAt(fresh[r].now)
             IN  /\ registered' = (registered \ gone) \cup minted
                 /\ lineage' = KeepLineage(r, gone) \cup (IF Retained(r) THEN {} ELSE minted)
                 /\ issued' = issued \cup minted
        /\ latest' = IF fresh[r].now > latest THEN fresh[r].now ELSE latest
  /\ UNCHANGED <<captures, prepared, denied, mode, handle, token, fresh, barred>>

\* The deliver callback throws or answers anything but true.
FailDelivery(r) ==
  /\ pc[r] = "delivering"
  /\ pc' = [pc EXCEPT ![r] = "undelivered"]
  /\ phase' = Close(r, phase)
  /\ UNCHANGED <<captures, prepared, hostState, mode, handle, token, fresh, barred>>

Next ==
  \/ Rewrite
  \/ \E t \in Preparations : Prepare(t) \/ Authorize(t)
  \/ \E r \in Reads :
       \/ StartSection(r) \/ Open(r) \/ Load(r) \/ Admit(r) \/ StartRetained(r)
       \/ Reject(r) \/ Observe(r) \/ Deliver(r) \/ FailDelivery(r)

Spec == Init /\ [][Next]_vars

-----------------------------------------------------------------------------
(* Properties                                                               *)

Disclosing(r) == fresh[r] # None

\* A snapshot holds bytes of one version of the file, the one its identity names,
\* however the file is rewritten while it is captured (section-capture-node.js).
SnapshotIsOneVersion == \A r \in admitted : seen[r] = {version[r]}

\* What an expansion discloses comes from the version the handle was minted for (a
\* retained one: from the same snapshot), in the family that minted it, after that
\* delivery was confirmed and within its window.
ExpansionKeepsItsOrigin ==
  \A r \in Reads : Disclosing(r) /\ handle[r] # None =>
    LET h == handle[r]
    IN  /\ pc[h] = "ready" /\ (Retained(r) <=> Retained(h))
        /\ version[Snapshot(r)] = version[Snapshot(h)]
        /\ Retained(r) => Snapshot(r) = Snapshot(h)
        /\ fresh[h].now <= fresh[r].now /\ fresh[r].now < fresh[h].expires

\* A preparation serves one Read, although several calls may hold it and each awaits the
\* Host twice.
PreparationServesOnce ==
  \A q, r \in Reads : Retained(q) /\ token[q] = token[r] => q = r

\* A preparation is reserved exactly while its Read is under way.
ReservedWhileReading ==
  \A t \in Preparations :
    phase[t] = "reserved" <=>
      \E r \in Reads : token[r] = t /\ pc[r] \in {"gate1", "gate2", "delivering"}

\* A denial brought by a Read of either family bars the Reads of both until it is lifted.
DenialBarsBothFamilies == \A r \in Reads : pc[r] = "delivering" => ~barred[r]

\* What holds of the preparations between any two steps of the Reads of both families.
PreparationInvariant == TypeOK /\ PreparationServesOnce /\ ReservedWhileReading

\* A delivered handle stays usable until a disclosure reaches its expiry: neither family
\* loses the other's handles, nor their origins.
DeliveredHandlesStay ==
  \A h \in issued : latest < fresh[h].expires =>
    h \in registered /\ (h \in lineage \/ Retained(h))
=============================================================================
