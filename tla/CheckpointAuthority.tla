------------------------ MODULE CheckpointAuthority ------------------------
(***************************************************************************)
(* What a bound protection operation promises to the readers that hold its *)
(* checkpoints, without clocks, grants or providers: a checkpoint opens a  *)
(* new epoch, only the holder of the newest one may be told "current", and *)
(* closing the authority is irrevocable.                                   *)
(***************************************************************************)
EXTENDS Naturals

CONSTANTS Holders,   \* readers that may hold one checkpoint each
          NoHolder   \* not a holder: nobody was affirmed by the last ruling

VARIABLES live,    \* the authority has not been closed
          epoch,   \* number of checkpoints and closures so far
          held,    \* held[h]: epoch of the checkpoint h holds, 0 for none
          ruling   \* the last answer to a holder: who was affirmed, in which epoch

avars == <<live, epoch, held, ruling>>

Denied == [by |-> NoHolder, epoch |-> 0]

ATypeOK ==
  /\ live \in BOOLEAN
  /\ epoch \in Nat
  /\ held \in [Holders -> Nat]
  /\ ruling \in [by: Holders \cup {NoHolder}, epoch: Nat]

AInit ==
  /\ live = TRUE
  /\ epoch = 0
  /\ held = [h \in Holders |-> 0]
  /\ ruling = Denied

Grant(h) ==
  /\ live
  /\ epoch' = epoch + 1
  /\ held' = [held EXCEPT ![h] = epoch + 1]
  /\ UNCHANGED <<live, ruling>>

Affirm(h) ==
  /\ live
  /\ held[h] # 0
  /\ held[h] = epoch
  /\ ruling' = [by |-> h, epoch |-> epoch]
  /\ UNCHANGED <<live, epoch, held>>

Refuse ==
  /\ ruling' = Denied
  /\ UNCHANGED <<live, epoch, held>>

\* A refusal during which the host itself closed the authority.
Close ==
  /\ live
  /\ live' = FALSE
  /\ epoch' = epoch + 1
  /\ ruling' \in {ruling, Denied}
  /\ UNCHANGED held

ANext ==
  \/ \E h \in Holders : Grant(h) \/ Affirm(h)
  \/ Refuse
  \/ Close

ASpec == AInit /\ [][ANext]_avars
=============================================================================
