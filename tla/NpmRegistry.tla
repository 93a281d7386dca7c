----------------------------- MODULE NpmRegistry -----------------------------
(***************************************************************************)
(* The npm registry as the release scripts use it (external to this        *)
(* repository): a version is published once and never changes, publishing  *)
(* moves the publication's dist-tag to it, and what a lookup shows of      *)
(* either may lag.  A request whose client gave up may still arrive.       *)
(***************************************************************************)
EXTENDS Naturals

CONSTANTS
  Versions,     \* versions with a release, in their order
  Previous,     \* the version the dist-tags name before
  Lagging,      \* what lookups show may lag behind what was published
  MaxMeddling   \* bound: publications and tag changes by others

Tags == {"latest", "preview"}
TagMaps == [Tags -> Versions \cup {Previous}]

ASSUME RegistryAssumption ==
  /\ Versions \subseteq Nat \ {0} /\ Previous = 0
  /\ Lagging \in BOOLEAN /\ MaxMeddling \in Nat

VARIABLES
  published,       \* whose bytes each version has: the release's own or another's
  tags,            \* the dist-tags
  shownPublished,  \* what a version lookup shows
  shownTags,       \* what a dist-tag lookup shows
  stray,           \* versions with a request in flight that nobody waits for
  meddling         \* publications and tag changes by others

registry == <<published, tags, shownPublished, shownTags, stray, meddling>>

Contents == {"absent", "approved", "foreign"}

RegistryTypeOK ==
  /\ published \in [Versions -> Contents] /\ shownPublished \in [Versions -> Contents]
  /\ tags \in TagMaps /\ shownTags \in TagMaps
  /\ stray \subseteq Versions /\ meddling \in 0..MaxMeddling

RegistryInit ==
  /\ published = [v \in Versions |-> "absent"] /\ shownPublished = published
  /\ tags = [t \in Tags |-> Previous] /\ shownTags = tags
  /\ stray = {} /\ meddling = 0

Shows ==
  IF Lagging THEN UNCHANGED <<shownPublished, shownTags>>
             ELSE shownPublished' = published' /\ shownTags' = tags'

\* The registry takes version v, with the dist-tag the request names.
Accept(v, tag) ==
  /\ published[v] = "absent"
  /\ published' = [published EXCEPT ![v] = "approved"]
  /\ tags' = [tags EXCEPT ![tag] = v]
  /\ Shows
  /\ UNCHANGED meddling

\* A version that exists is never replaced.
Refuse(v) ==
  /\ published[v] # "absent"
  /\ UNCHANGED <<published, tags, shownPublished, shownTags, meddling>>

\* A request its client gave up on arrives after all.
StrayArrives(v, tag) ==
  /\ v \in stray
  /\ stray' = stray \ {v}
  /\ Accept(v, tag) \/ Refuse(v)

ShowPublished ==
  /\ shownPublished' = published
  /\ UNCHANGED <<published, tags, shownTags, stray, meddling>>

ShowTags ==
  /\ shownTags' = tags
  /\ UNCHANGED <<published, tags, shownPublished, stray, meddling>>

\* Someone else publishes other bytes as v, or moves a tag to a published version.
Meddle ==
  /\ meddling < MaxMeddling
  /\ meddling' = meddling + 1
  /\ \/ \E t \in Tags, v \in Versions :
          /\ published[v] = "absent"
          /\ published' = [published EXCEPT ![v] = "foreign"]
          /\ tags' = [tags EXCEPT ![t] = v]
     \/ \E t \in Tags, v \in {Previous} \cup {w \in Versions : published[w] # "absent"} :
          /\ tags' = [tags EXCEPT ![t] = v]
          /\ UNCHANGED published
  /\ Shows
  /\ UNCHANGED stray
=============================================================================
