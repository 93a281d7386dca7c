------------------------- MODULE DisclosureHistory -------------------------
(***************************************************************************)
(* What section 6.1 of specs/protection-admission.md promises about one    *)
(* prepared delivery: at most one send, recorded as outcome_unknown before *)
(* it happens, promoted by an acknowledgement only, never taken back, and  *)
(* none once the Read that owns the delivery has settled.                  *)
(***************************************************************************)
CONSTANT Deliveries

VARIABLES history,  \* external_commit.state of each delivery
          sent,     \* has the transport been entered with the body?
          open      \* may the owning Read still send?

hvars == <<history, sent, open>>

HInit ==
  /\ history = [d \in Deliveries |-> "not_invoked"]
  /\ sent = [d \in Deliveries |-> FALSE]
  /\ open = [d \in Deliveries |-> TRUE]

Attempt(d) ==
  /\ open[d] /\ history[d] = "not_invoked"
  /\ history' = [history EXCEPT ![d] = "outcome_unknown"]
  /\ UNCHANGED <<sent, open>>

Send(d) ==
  /\ open[d] /\ history[d] = "outcome_unknown" /\ ~sent[d]
  /\ sent' = [sent EXCEPT ![d] = TRUE]
  /\ \E outcome \in {"outcome_unknown", "confirmed"} :
       history' = [history EXCEPT ![d] = outcome]
  /\ UNCHANGED open

\* The owner never settles between the record of an attempt and its send.
SettleOwner(d) ==
  /\ open[d]
  /\ history[d] = "outcome_unknown" => sent[d]
  /\ open' = [open EXCEPT ![d] = FALSE]
  /\ UNCHANGED <<history, sent>>

HNext == \E d \in Deliveries : Attempt(d) \/ Send(d) \/ SettleOwner(d)

HSpec == HInit /\ [][HNext]_hvars
=============================================================================
