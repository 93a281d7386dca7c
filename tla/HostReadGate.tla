---------------------------- MODULE HostReadGate ----------------------------
(***************************************************************************)
(* One Host and the Reads of one asset that share its state: the denial    *)
(* history and the registry of expansion handles (kdna-read/src:           *)
(* pipeline.js prepareRead, runRead and registerPreparedHandles,           *)
(* host-gate.js observe and handleRegistered, delivery.js, and the         *)
(* handleOperations of protection-node.js).                                *)
(*                                                                         *)
(* A Read awaits Core, two Host observations and its delivery, and other   *)
(* Reads run between.  Host answers carry their own time and epoch, and    *)
(* answers to different Reads need not be in order.  The handles one Read  *)
(* mints share their fields and their fate: the Read's name stands for     *)
(* them.  A handle whose fields differ from the registered copy is one     *)
(* that is not registered.                                                 *)
(***************************************************************************)
EXTENDS Naturals

CONSTANTS
  Reads,
  Operations, Public,   \* protected operations; Public: a Read of plain bytes
  Epochs,               \* host epochs
  Times,                \* times the Host may report
  Window,               \* longest validity of a Host answer
  NoHandle, NoAnswer

Expiries == {t + w : t \in Times, w \in 1..Window}
Windows == [epoch: Epochs, now: Times, expires: Expiries]

ASSUME ConstantsAssumption ==
  /\ Public \notin Operations
  /\ Times \subseteq Nat /\ Window \in Nat
  /\ NoHandle \notin Reads
  /\ NoAnswer \notin Windows

VARIABLES
  denied,      \* epochs in which state.revocations holds the asset
  registered,  \* hostState.handles: Reads whose handles are registered
  owners,      \* handleOperations: Reads of operations whose handles were registered
  pc,          \* where each Read is suspended, or how it ended
  op,          \* what each Read reads
  handle,      \* the handle each Read presents, NoHandle unless it expands
  fresh,       \* the window of the second Host observation: issue and expiry of the
               \* handles the Read mints
  barred       \* history: epochs denied when the Read started and not lifted since

vars == <<denied, registered, owners, pc, op, handle, fresh, barred>>

TypeOK ==
  /\ denied \subseteq Epochs
  /\ registered \subseteq Reads /\ owners \subseteq Reads
  /\ pc \in [Reads -> {"idle", "admitting", "gate1", "gate2", "delivering",
                       "ready", "rejected", "undelivered"}]
  /\ op \in [Reads -> Operations \cup {Public}]
  /\ handle \in [Reads -> Reads \cup {NoHandle}]
  /\ fresh \in [Reads -> Windows \cup {NoAnswer}]
  /\ barred \in [Reads -> SUBSET Epochs]

Init ==
  /\ denied = {} /\ registered = {} /\ owners = {}
  /\ pc = [r \in Reads |-> "idle"]
  /\ op = [r \in Reads |-> Public]
  /\ handle = [r \in Reads |-> NoHandle]
  /\ fresh = [r \in Reads |-> NoAnswer]
  /\ barred = [r \in Reads |-> {}]

-----------------------------------------------------------------------------

\* Whoever took part in the delivery of a Read, confirmed or not, may present its
\* handles.
Start(r) ==
  /\ pc[r] = "idle"
  /\ \E o \in Operations \cup {Public},
        h \in {NoHandle} \cup {q \in Reads : fresh[q] # NoAnswer} :
       /\ op' = [op EXCEPT ![r] = o]
       /\ handle' = [handle EXCEPT ![r] = h]
  /\ pc' = [pc EXCEPT ![r] = "admitting"]
  /\ barred' = [barred EXCEPT ![r] = denied]
  /\ UNCHANGED <<denied, registered, owners, fresh>>

\* Admission, projection, scope, budget or protection refuses the Read.
Reject(r) ==
  /\ pc[r] \in {"admitting", "gate1", "gate2"}
  /\ pc' = [pc EXCEPT ![r] = "rejected"]
  /\ UNCHANGED <<denied, registered, owners, op, handle, fresh, barred>>

\* Fault: any registered handle is honoured, whatever operation minted it.
HonouredAnywhere(r, h) == h \in registered

\* checkHandle of a protected Read, then handleRegistered.
Honoured(r, h) ==
  /\ op[r] # Public => h \in owners /\ op[h] = op[r]
  /\ h \in registered

Admit(r) ==
  /\ pc[r] = "admitting"
  /\ handle[r] # NoHandle => Honoured(r, handle[r])
  /\ pc' = [pc EXCEPT ![r] = "gate1"]
  /\ UNCHANGED <<denied, registered, owners, op, handle, fresh, barred>>

\* An answer for this Read, current by its own clock and in the presented handle's
\* epoch and lifetime.
Usable(r, a) ==
  /\ a.now < a.expires /\ a.expires <= a.now + Window
  /\ handle[r] # NoHandle =>
       LET h == fresh[handle[r]]
       IN  h.epoch = a.epoch /\ h.now <= a.now /\ a.now < h.expires

\* Fault: every answer replaces the denial before it.
JudgeAfresh(a, lift, deny) ==
  /\ denied' = (denied \ {a.epoch}) \cup (IF deny THEN {a.epoch} ELSE {})
  /\ barred' = [q \in Reads |-> IF lift THEN barred[q] \ {a.epoch} ELSE barred[q]]

\* A usable answer moves the denial history before it is judged by it; any other
\* answer leaves the history alone (Reject).
Judge(a, lift, deny) ==
  /\ denied' = (IF lift THEN denied \ {a.epoch} ELSE denied)
               \cup (IF deny THEN {a.epoch} ELSE {})
  /\ barred' = [q \in Reads |-> IF lift THEN barred[q] \ {a.epoch} ELSE barred[q]]

Observe(r) ==
  /\ pc[r] \in {"gate1", "gate2"}
  /\ \E a \in Windows, lift, deny \in BOOLEAN :
       /\ Usable(r, a)
       /\ Judge(a, lift, deny)
       /\ \/ /\ a.epoch \in denied'
             /\ pc' = [pc EXCEPT ![r] = "rejected"]
             /\ UNCHANGED fresh
          \/ /\ a.epoch \notin denied' /\ pc[r] = "gate1"
             /\ pc' = [pc EXCEPT ![r] = "gate2"]
             /\ UNCHANGED fresh
          \/ /\ a.epoch \notin denied' /\ pc[r] = "gate2"
             /\ pc' = [pc EXCEPT ![r] = "delivering"]
             /\ fresh' = [fresh EXCEPT ![r] = a]
  /\ UNCHANGED <<registered, owners, op, handle>>

\* Only a delivery acknowledged with true registers the handles, after dropping
\* those expired at this Read's disclosure.
Unexpired(r) == {h \in registered : fresh[r].now < fresh[h].expires}

Deliver(r) ==
  /\ pc[r] = "delivering"
  /\ pc' = [pc EXCEPT ![r] = "ready"]
  /\ \E minted \in {{}, {r}} :
       /\ registered' = Unexpired(r) \cup minted
       /\ owners' = IF op[r] = Public THEN owners ELSE owners \cup minted
  /\ UNCHANGED <<denied, op, handle, fresh, barred>>

\* The callback throws, answers anything else, or the operation's last check fails.
FailDelivery(r) ==
  /\ pc[r] = "delivering"
  /\ pc' = [pc EXCEPT ![r] = "undelivered"]
  /\ UNCHANGED <<denied, registered, owners, op, handle, fresh, barred>>

Next ==
  \E r \in Reads :
    \/ Start(r) \/ Reject(r) \/ Admit(r) \/ Observe(r)
    \/ Deliver(r) \/ FailDelivery(r)

Spec == Init /\ [][Next]_vars

-----------------------------------------------------------------------------
(* Properties                                                               *)

\* A handle is honoured only if the Read that minted it was delivered and
\* acknowledged: an interrupted delivery leaves nothing to expand.
HandlesWereDelivered ==
  \A h \in registered \cup owners : pc[h] = "ready"

\* A Read that expands a handle discloses in the handle's epoch and lifetime, and
\* after the minting Read was delivered, however the Reads' answers interleave.
ExpansionStaysInWindow ==
  \A r \in Reads : fresh[r] # NoAnswer /\ handle[r] # NoHandle =>
    LET h == fresh[handle[r]]
    IN  /\ pc[handle[r]] = "ready"
        /\ fresh[r].epoch = h.epoch
        /\ h.now <= fresh[r].now /\ fresh[r].now < h.expires

\* A denial that stood when the Read started, whichever Read brought it, and that no
\* answer lifted since, keeps the Read from disclosing in that epoch.
StandingDenialBars ==
  \A r \in Reads : pc[r] = "delivering" => fresh[r].epoch \notin barred[r]

\* A protected Read expands only handles minted under its own operation.
OperationsKeepTheirHandles ==
  \A r \in Reads : fresh[r] # NoAnswer /\ handle[r] # NoHandle /\ op[r] # Public =>
    op[handle[r]] = op[r]

\* What holds between any two steps of the Reads of a Host.
GateInvariant ==
  /\ TypeOK
  /\ HandlesWereDelivered
  /\ OperationsKeepTheirHandles
  /\ ExpansionStaysInWindow

\* "a host's live registry is bounded by its unexpired handles" (pipeline.js:102): the
\* map that a protected Host keeps beside it, filled with the same ids, is not.
OwnersAreUnexpired ==
  [][\A r \in Reads : pc[r] = "delivering" /\ pc'[r] = "ready" =>
       \A h \in owners' : fresh[r].now < fresh[h].expires]_vars
=============================================================================
