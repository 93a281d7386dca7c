---------------------------- MODULE ChannelRelease ----------------------------
(***************************************************************************)
(* The Core and Read release of the stable or the preview channel          *)
(* (scripts/release-channel-authority.js: build, guard, publish,           *)
(* awaitDistTag, validateChannel, verifyPublic; .github/workflows/         *)
(* publish.yml).                                                           *)
(*                                                                         *)
(* One workflow per release tag, so one at a time per version, while those *)
(* of different versions overlap.  A workflow may be run again however it  *)
(* ended.  Its build is reproducible: every run of a version has the       *)
(* approved bytes.  A lookup that fails, a killed client and a crashed     *)
(* runner all end the run as "lost"; "refused" is a check that failed.     *)
(***************************************************************************)
EXTENDS NpmRegistry

CONSTANTS
  Moved,     \* the dist-tag of the channel
  MaxRuns    \* bound: runs of each version's workflow

ASSUME ChannelAssumption == Moved \in Tags /\ MaxRuns \in Nat

VARIABLES
  pc,        \* the step each version's workflow is at, or how it ended
  runs,      \* runs of it started
  before,    \* evidence.registry_before
  uploaded,  \* this run's own upload was acknowledged
  settled,   \* history: the run started with its version published, visible and
             \* tagged, and no tag has moved since
  replaced   \* history: the tags just before the version was accepted

workflow == <<pc, runs, before, uploaded>>
vars == <<registry, workflow, settled, replaced>>

TypeOK ==
  /\ RegistryTypeOK
  /\ pc \in [Versions -> {"idle", "prepared", "guarded", "uploading", "awaiting",
                          "published", "green", "refused", "lost"}]
  /\ runs \in [Versions -> 0..MaxRuns]
  /\ before \in [Versions -> TagMaps]
  /\ uploaded \in [Versions -> BOOLEAN] /\ settled \in [Versions -> BOOLEAN]
  /\ replaced \in [Versions -> TagMaps]

Init ==
  /\ RegistryInit
  /\ pc = [v \in Versions |-> "idle"]
  /\ runs = [v \in Versions |-> 0]
  /\ before = [v \in Versions |-> tags]
  /\ uploaded = [v \in Versions |-> FALSE]
  /\ settled = [v \in Versions |-> FALSE]
  /\ replaced = [v \in Versions |-> tags]

Running == {"prepared", "guarded", "uploading", "awaiting", "published"}

-----------------------------------------------------------------------------
(* The checks                                                               *)

\* Fault: any existing version is a collision.
DecideCollision(v) == IF shownPublished[v] = "absent" THEN "publish" ELSE "collision"

\* Fault: an existing version is taken for the release's own.
DecideByName(v) == IF shownPublished[v] = "absent" THEN "publish" ELSE "skip"

\* registryDecision: absent, identical (bytes and gitHead), or another's.
Decide(v) == [absent |-> "publish", approved |-> "skip", foreign |-> "collision"][shownPublished[v]]

\* validateChannel: stable tags are the baseline, with latest moved if required; of the
\* preview channel's only latest is compared, and the channel's own tag if required.
Channel(v, require) ==
  IF Moved = "latest"
    THEN shownTags = IF require THEN [before[v] EXCEPT !["latest"] = v] ELSE before[v]
    ELSE /\ shownTags["latest"] = before[v]["latest"]
         /\ require => shownTags[Moved] = v

\* guard and the start of publish make the same two lookups.  They are separate, but
\* what they show changes separately too: any pair they can see, they can see at once.
Passes(v) == Decide(v) # "collision" /\ Channel(v, Decide(v) = "skip")

Ends(v, how) == pc' = [pc EXCEPT ![v] = how]

-----------------------------------------------------------------------------
(* The workflow                                                             *)

\* check, build and smoke: the dist-tags shown now are the baseline of this run.
Prepare(v) ==
  /\ pc[v] \in {"idle", "green", "refused", "lost"} /\ runs[v] < MaxRuns
  /\ runs' = [runs EXCEPT ![v] = @ + 1]
  /\ before' = [before EXCEPT ![v] = shownTags]
  /\ uploaded' = [uploaded EXCEPT ![v] = FALSE]
  /\ settled' = [settled EXCEPT ![v] =
       /\ shownPublished[v] = "approved"
       /\ shownTags = tags /\ tags[Moved] = v]
  /\ Ends(v, "prepared")
  /\ UNCHANGED <<registry, replaced>>

Guard(v) ==
  /\ pc[v] = "prepared"
  /\ Ends(v, IF Passes(v) THEN "guarded" ELSE "refused")
  /\ UNCHANGED <<registry, runs, before, uploaded, settled, replaced>>

Publish(v) ==
  /\ pc[v] = "guarded"
  /\ Ends(v, CASE ~Passes(v) -> "refused"
               [] Passes(v) /\ Decide(v) = "skip" -> "published"
               [] Passes(v) /\ Decide(v) = "publish" -> "uploading")
  /\ UNCHANGED <<registry, runs, before, uploaded, settled, replaced>>

\* A tag has moved: no run is settled any more.
Moves == settled' = [v \in Versions |-> FALSE]

\* The request arrives; its answer may be lost.
Upload(v) ==
  /\ pc[v] = "uploading"
  /\ \/ /\ Accept(v, Moved)
        /\ Moves
        /\ replaced' = [replaced EXCEPT ![v] = tags]
        /\ \/ Ends(v, "awaiting") /\ uploaded' = [uploaded EXCEPT ![v] = TRUE]
           \/ Ends(v, "lost") /\ UNCHANGED uploaded
     \/ /\ Refuse(v)
        /\ Ends(v, "lost")
        /\ UNCHANGED <<uploaded, settled, replaced>>
  /\ UNCHANGED <<stray, runs, before>>

\* The publisher is killed while its request is under way, or a stray one arrives.
Abandon(v) ==
  /\ pc[v] = "uploading"
  /\ stray' = stray \cup {v}
  /\ Ends(v, "lost")
  /\ UNCHANGED <<published, tags, shownPublished, shownTags, meddling,
                 runs, before, uploaded, settled, replaced>>

Stray(v) ==
  /\ StrayArrives(v, Moved)
  /\ IF tags' # tags THEN Moves /\ replaced' = [replaced EXCEPT ![v] = tags]
                     ELSE UNCHANGED <<settled, replaced>>
  /\ UNCHANGED workflow

\* awaitDistTag (stable): only the approved version ends the wait, the whole map is then
\* compared.  The preview channel looks once.
Observe(v) ==
  /\ pc[v] = "awaiting"
  /\ Moved = "latest" => shownTags["latest"] = v
  /\ Ends(v, IF Channel(v, TRUE) THEN "published" ELSE "refused")
  /\ UNCHANGED <<registry, runs, before, uploaded, settled, replaced>>

\* The thirteenth attempt shows another version still.
GiveUp(v) ==
  /\ pc[v] = "awaiting"
  /\ Ends(v, "refused")
  /\ UNCHANGED <<registry, runs, before, uploaded, settled, replaced>>

VerifyPublic(v) ==
  /\ pc[v] = "published"
  /\ Ends(v, IF Decide(v) = "skip" /\ Channel(v, TRUE) THEN "green" ELSE "refused")
  /\ UNCHANGED <<registry, runs, before, uploaded, settled, replaced>>

\* A lookup fails or times out, or the runner goes away.
Vanish(v) ==
  /\ pc[v] \in Running
  /\ Ends(v, "lost")
  /\ UNCHANGED <<registry, runs, before, uploaded, settled, replaced>>

Step(v) ==
  \/ Guard(v) \/ Publish(v) \/ Upload(v) \/ Observe(v) \/ GiveUp(v) \/ VerifyPublic(v)

Others ==
  \/ (ShowPublished \/ ShowTags) /\ UNCHANGED <<workflow, settled, replaced>>
  \/ Meddle /\ Moves /\ UNCHANGED <<workflow, replaced>>

Next ==
  \/ Others
  \/ \E v \in Versions : Step(v) \/ Prepare(v) \/ Abandon(v) \/ Stray(v) \/ Vanish(v)

Spec == Init /\ [][Next]_vars

-----------------------------------------------------------------------------
(* Properties                                                               *)

\* A green run vouches for the approved bytes, whatever was published under its version
\* by others, by an earlier run or by a request given up on.
GreenMeansApproved == \A v \in Versions : pc[v] = "green" => published[v] = "approved"

\* What holds between any two steps of the workflows, whatever others do to the registry.
ReleaseInvariant == TypeOK /\ GreenMeansApproved

\* "A matching existing version is an idempotent verification" (release-stable.md:105): a
\* run that starts after its version is published, visible and tagged is not refused
\* while the tags stand, however the run that published it ended.
RerunIsIdempotent == \A v \in Versions : settled[v] => pc[v] # "refused"

\* "altered tags fail closed" (release-stable.md:107): the tags that the accepted upload
\* of a green run replaced are the run's baseline.
AlteredTagsFailClosed ==
  \A v \in Versions : pc[v] = "green" /\ uploaded[v] => replaced[v] = before[v]
=============================================================================
