------------------------- MODULE ChannelReleaseProofs -------------------------
(***************************************************************************)
(* Proofs about ChannelRelease, for any versions, either channel, and any  *)
(* number of runs and of publications by others.  Both results rest on one *)
(* fact about the registry: a version that lookups show is the one that is *)
(* there, however late they show it, since no version is ever replaced.    *)
(***************************************************************************)
EXTENDS ChannelRelease, TLAPS

ShownIsPublished == \A v \in Versions :
  shownPublished[v] # "absent" => published[v] = shownPublished[v]

\* What a run that started settled still sees, and how far it can have got.
SettledStands == \A v \in Versions : settled[v] =>
  /\ shownPublished[v] = "approved"
  /\ shownTags = tags /\ before[v] = tags /\ tags[Moved] = v
  /\ pc[v] \in {"prepared", "guarded", "published", "green", "lost"}

IInv == TypeOK /\ ShownIsPublished /\ GreenMeansApproved /\ SettledStands

-----------------------------------------------------------------------------
(* The registry                                                             *)

\* Whatever happens to the registry, what is published stays, and lookups show no more
\* than that.
LEMMA RegistryKeeps ==
  ASSUME RegistryTypeOK, ShownIsPublished,
         \/ \E v \in Versions : Accept(v, Moved) \/ Refuse(v)
         \/ ShowPublished \/ ShowTags \/ Meddle
  PROVE  /\ published' \in [Versions -> Contents] /\ shownPublished' \in [Versions -> Contents]
         /\ tags' \in TagMaps /\ shownTags' \in TagMaps /\ meddling' \in 0..MaxMeddling
         /\ \A v \in Versions : published[v] # "absent" => published'[v] = published[v]
         /\ ShownIsPublished'
         /\ \A v \in Versions : shownPublished[v] # "absent" => shownPublished'[v] = shownPublished[v]
<1> USE DEF RegistryTypeOK, ShownIsPublished, Contents
<1>0. Moved \in Tags /\ Lagging \in BOOLEAN /\ MaxMeddling \in Nat
  BY ChannelAssumption, RegistryAssumption
<1>1. ASSUME NEW v \in Versions, NEW t \in Tags, NEW w \in Versions \cup {Previous}
      PROVE  [tags EXCEPT ![t] = w] \in TagMaps
  BY DEF TagMaps
<1>2. ASSUME NEW v \in Versions, Accept(v, Moved)
      PROVE  /\ published' \in [Versions -> Contents] /\ shownPublished' \in [Versions -> Contents]
             /\ tags' \in TagMaps /\ shownTags' \in TagMaps /\ meddling' \in 0..MaxMeddling
             /\ \A w \in Versions : published[w] # "absent" => published'[w] = published[w]
             /\ ShownIsPublished'
             /\ \A w \in Versions : shownPublished[w] # "absent" => shownPublished'[w] = shownPublished[w]
  <2>1. published' = [published EXCEPT ![v] = "approved"] /\ published[v] = "absent"
        /\ tags' = [tags EXCEPT ![Moved] = v] /\ meddling' = meddling
    BY <1>2 DEF Accept
  <2>2. tags' \in TagMaps
    BY <2>1, <1>0, <1>1
  <2>3. CASE Lagging
    BY <2>1, <2>2, <2>3, <1>2 DEF Accept, Shows
  <2>4. CASE ~Lagging
    <3>1. shownPublished' = published' /\ shownTags' = tags'
      BY <2>4, <1>2 DEF Accept, Shows
    <3>2. /\ published' \in [Versions -> Contents]
          /\ \A w \in Versions : published[w] # "absent" => published'[w] = published[w]
      BY <2>1
    <3>3. ShownIsPublished'
      BY <3>1
    <3>4. ASSUME NEW w \in Versions, shownPublished[w] # "absent"
          PROVE  shownPublished'[w] = shownPublished[w]
      <4>1. shownPublished[w] = published[w]
        BY <3>4
      <4> QED BY <4>1, <3>1, <3>2, <3>4
    <3> QED BY <2>1, <2>2, <3>1, <3>2, <3>3, <3>4
  <2> QED BY <2>3, <2>4
<1>3. CASE \E v \in Versions : Refuse(v)
  BY <1>3 DEF Refuse
<1>4. CASE ShowPublished
  BY <1>4 DEF ShowPublished
<1>5. CASE ShowTags
  BY <1>5 DEF ShowTags
<1>6. CASE Meddle
  <2>1. meddling' \in 0..MaxMeddling
    BY <1>0, <1>6 DEF Meddle
  <2>2. \/ published' = published
        \/ \E v \in Versions : published[v] = "absent" /\ published' = [published EXCEPT ![v] = "foreign"]
    BY <1>6 DEF Meddle
  <2>3. tags' \in TagMaps
    <3>1. PICK t \in Tags, w \in Versions \cup {Previous} : tags' = [tags EXCEPT ![t] = w]
      BY <1>6 DEF Meddle
    <3> QED BY <3>1 DEF TagMaps
  <2>4. published' \in [Versions -> Contents]
        /\ \A v \in Versions : published[v] # "absent" => published'[v] = published[v]
    BY <2>2
  <2>5. CASE Lagging
    BY <2>1, <2>3, <2>4, <2>5, <1>6 DEF Meddle, Shows
  <2>6. CASE ~Lagging
    BY <2>1, <2>3, <2>4, <2>6, <1>6 DEF Meddle, Shows
  <2> QED BY <2>5, <2>6
<1> QED BY <1>2, <1>3, <1>4, <1>5, <1>6

LEMMA Initially == Init => IInv
<1> SUFFICES ASSUME Init PROVE IInv OBVIOUS
<1> USE DEF Init, RegistryInit
<1>0. Previous \in Versions \cup {Previous} /\ tags \in TagMaps
  BY DEF TagMaps
<1>1. TypeOK
  BY <1>0, RegistryAssumption, ChannelAssumption DEF TypeOK, RegistryTypeOK, Contents
<1> QED BY <1>1 DEF IInv, ShownIsPublished, GreenMeansApproved, SettledStands

-----------------------------------------------------------------------------
(* A run's own steps                                                        *)

\* What the checks answer a run that started with its version settled.
LEMMA SettledPasses ==
  ASSUME IInv, NEW v \in Versions, settled[v]
  PROVE  Decide(v) = "skip" /\ Channel(v, TRUE) /\ Passes(v)
<1>1. /\ shownPublished[v] = "approved" /\ shownTags = tags /\ before[v] = tags
      /\ tags[Moved] = v /\ tags \in TagMaps
  BY DEF IInv, SettledStands, TypeOK, RegistryTypeOK
<1>2. Decide(v) = "skip"
  BY <1>1 DEF Decide
<1>3. [tags EXCEPT !["latest"] = v] = tags \/ Moved # "latest"
  BY <1>1 DEF TagMaps
<1> QED BY <1>1, <1>2, <1>3 DEF Channel, Passes

\* A check that finds the version there has found the approved bytes there.
LEMMA SkipMeansApproved ==
  ASSUME IInv, NEW v \in Versions, Decide(v) = "skip"
  PROVE  published[v] = "approved"
<1>1. shownPublished[v] \in Contents
  BY DEF IInv, TypeOK, RegistryTypeOK
<1>2. shownPublished[v] = "approved"
  <2>1. CASE shownPublished[v] = "absent" BY <2>1 DEF Decide
  <2>2. CASE shownPublished[v] = "foreign" BY <2>2 DEF Decide
  <2> QED BY <1>1, <2>1, <2>2 DEF Contents
<1> QED BY <1>2 DEF IInv, ShownIsPublished

\* A step that only moves a run on, where the invariant allows it.
LEMMA Onward ==
  ASSUME IInv, NEW v \in Versions,
         NEW how \in {"guarded", "uploading", "awaiting", "published", "green", "refused", "lost"},
         Ends(v, how), UNCHANGED <<registry, runs, before, uploaded, settled, replaced>>,
         how = "green" => published[v] = "approved",
         settled[v] => how \in {"guarded", "published", "green", "lost"}
  PROVE  IInv'
<1>1. pc' = [pc EXCEPT ![v] = how] /\ UNCHANGED <<published, tags, shownPublished, shownTags,
                                                 stray, meddling>>
  BY DEF Ends, registry
<1>2. TypeOK'
  BY <1>1 DEF IInv, TypeOK, RegistryTypeOK, TagMaps
<1>3. GreenMeansApproved'
  BY <1>1 DEF IInv, TypeOK, GreenMeansApproved
<1>4. SettledStands'
  BY <1>1 DEF IInv, TypeOK, SettledStands
<1> QED BY <1>1, <1>2, <1>3, <1>4 DEF IInv, ShownIsPublished

\* A step of the registry that leaves the runs where they are, or ends the upload of one.
LEMMA Elsewhere ==
  ASSUME IInv,
         \/ \E v \in Versions : Accept(v, Moved) \/ Refuse(v)
         \/ ShowPublished \/ ShowTags \/ Meddle,
         stray' \subseteq Versions,
         \A v \in Versions : pc'[v] = pc[v] \/ (pc[v] = "uploading" /\ pc'[v] \in {"awaiting", "lost"}),
         pc' \in [Versions -> {"idle", "prepared", "guarded", "uploading", "awaiting",
                               "published", "green", "refused", "lost"}],
         UNCHANGED <<runs, before>>,
         uploaded' \in [Versions -> BOOLEAN], replaced' \in [Versions -> TagMaps],
         Moves \/ (settled' = settled /\ (tags' = tags) /\ (shownTags' = shownTags \/ shownTags' = tags'))
  PROVE  IInv'
<1>1. RegistryTypeOK /\ ShownIsPublished
  BY DEF IInv, TypeOK
<1>2. /\ RegistryTypeOK' /\ ShownIsPublished'
      /\ \A v \in Versions : published[v] # "absent" => published'[v] = published[v]
      /\ \A v \in Versions : shownPublished[v] # "absent" => shownPublished'[v] = shownPublished[v]
  BY <1>1, RegistryKeeps DEF RegistryTypeOK
<1>3. TypeOK'
  BY <1>2 DEF IInv, TypeOK, Moves
<1>4. GreenMeansApproved'
  BY <1>2 DEF IInv, GreenMeansApproved
<1>5. SettledStands'
  <2>1. CASE Moves
    BY <2>1 DEF SettledStands, Moves
  <2>2. CASE settled' = settled /\ (tags' = tags) /\ (shownTags' = shownTags \/ shownTags' = tags')
    BY <1>2, <2>2 DEF IInv, SettledStands
  <2> QED BY <2>1, <2>2
<1> QED BY <1>2, <1>3, <1>4, <1>5 DEF IInv

-----------------------------------------------------------------------------
(* Induction                                                                *)

LEMMA Inductive == IInv /\ [Next]_vars => IInv'
<1> SUFFICES ASSUME IInv, [Next]_vars PROVE IInv' OBVIOUS
<1>1. ASSUME NEW v \in Versions, Prepare(v) PROVE IInv'
  <2>1. UNCHANGED <<published, tags, shownPublished, shownTags, stray, meddling, replaced>>
    BY <1>1 DEF Prepare, registry
  <2>2. runs[v] \in 0..MaxRuns /\ runs[v] < MaxRuns /\ MaxRuns \in Nat
    BY <1>1, ChannelAssumption DEF Prepare, IInv, TypeOK
  <2>3. TypeOK'
    <3>1. runs' \in [Versions -> 0..MaxRuns]
      BY <1>1, <2>2 DEF Prepare, IInv, TypeOK
    <3>2. before' \in [Versions -> TagMaps]
      BY <1>1 DEF Prepare, IInv, TypeOK, RegistryTypeOK
    <3>3. settled' \in [Versions -> BOOLEAN] /\ uploaded' \in [Versions -> BOOLEAN]
      BY <1>1 DEF Prepare, IInv, TypeOK
    <3>4. RegistryTypeOK' /\ replaced' \in [Versions -> TagMaps]
      BY <2>1 DEF IInv, TypeOK, RegistryTypeOK
    <3>5. pc' = [pc EXCEPT ![v] = "prepared"]
      BY <1>1 DEF Prepare, Ends
    <3> QED BY <3>1, <3>2, <3>3, <3>4, <3>5 DEF IInv, TypeOK
  <2>4. pc' = [pc EXCEPT ![v] = "prepared"]
    BY <1>1 DEF Prepare, Ends
  <2>5. GreenMeansApproved'
    BY <2>1, <2>4 DEF IInv, TypeOK, GreenMeansApproved
  <2>6. SettledStands'
    <3> SUFFICES ASSUME NEW w \in Versions, settled'[w]
                 PROVE  /\ shownPublished[w] = "approved"
                        /\ shownTags = tags /\ before'[w] = tags /\ tags[Moved] = w
                        /\ pc'[w] \in {"prepared", "guarded", "published", "green", "lost"}
      BY <2>1 DEF SettledStands
    <3>1. CASE w = v
      BY <1>1, <2>4, <3>1 DEF Prepare, IInv, TypeOK
    <3>2. CASE w # v
      BY <1>1, <2>4, <3>2 DEF Prepare, IInv, TypeOK, SettledStands
    <3> QED BY <3>1, <3>2
  <2> QED BY <2>1, <2>3, <2>5, <2>6 DEF IInv, ShownIsPublished
<1>2. ASSUME NEW v \in Versions, Guard(v) PROVE IInv'
  BY <1>2, Onward, SettledPasses DEF Guard
<1>3. ASSUME NEW v \in Versions, Publish(v) PROVE IInv'
  <2>1. CASE ~Passes(v)
    BY <1>3, <2>1, Onward, SettledPasses DEF Publish
  <2>2. CASE Passes(v) /\ Decide(v) = "skip"
    BY <1>3, <2>2, Onward DEF Publish
  <2>3. CASE Passes(v) /\ Decide(v) = "publish"
    BY <1>3, <2>3, Onward, SettledPasses DEF Publish
  <2>4. Decide(v) \in {"publish", "skip", "collision"}
    <3>1. shownPublished[v] \in Contents
      BY DEF IInv, TypeOK, RegistryTypeOK
    <3> QED BY <3>1 DEF Contents, Decide
  <2> QED BY <2>1, <2>2, <2>3, <2>4 DEF Passes
<1>4. ASSUME NEW v \in Versions, Upload(v) PROVE IInv'
  <2>1. /\ stray' = stray /\ UNCHANGED <<runs, before>> /\ pc[v] = "uploading"
    BY <1>4 DEF Upload
  <2>2. stray' \subseteq Versions
    BY <2>1 DEF IInv, TypeOK, RegistryTypeOK
  <2>3. pc' = [pc EXCEPT ![v] = "awaiting"] \/ pc' = [pc EXCEPT ![v] = "lost"]
    BY <1>4 DEF Upload, Ends
  <2>4. uploaded' \in [Versions -> BOOLEAN]
    BY <1>4 DEF Upload, IInv, TypeOK
  <2>5. replaced' \in [Versions -> TagMaps]
    BY <1>4 DEF Upload, IInv, TypeOK, RegistryTypeOK
  <2>6. CASE Accept(v, Moved) /\ Moves
    BY <2>1, <2>2, <2>3, <2>4, <2>5, <2>6, Elsewhere DEF IInv, TypeOK
  <2>7. CASE Refuse(v) /\ UNCHANGED settled
    BY <2>1, <2>2, <2>3, <2>4, <2>5, <2>7, Elsewhere DEF IInv, TypeOK, Refuse
  <2> QED BY <1>4, <2>6, <2>7 DEF Upload
<1>5. ASSUME NEW v \in Versions, Observe(v) PROVE IInv'
  <2>1. ~settled[v]
    BY <1>5 DEF Observe, IInv, SettledStands
  <2> QED BY <1>5, <2>1, Onward DEF Observe
<1>6. ASSUME NEW v \in Versions, GiveUp(v) PROVE IInv'
  <2>1. ~settled[v]
    BY <1>6 DEF GiveUp, IInv, SettledStands
  <2> QED BY <1>6, <2>1, Onward DEF GiveUp
<1>7. ASSUME NEW v \in Versions, VerifyPublic(v) PROVE IInv'
  <2>1. CASE Decide(v) = "skip" /\ Channel(v, TRUE)
    BY <1>7, <2>1, Onward, SkipMeansApproved DEF VerifyPublic
  <2>2. CASE ~(Decide(v) = "skip" /\ Channel(v, TRUE))
    BY <1>7, <2>2, Onward, SettledPasses DEF VerifyPublic
  <2> QED BY <2>1, <2>2
<1>8. ASSUME NEW v \in Versions, Vanish(v) PROVE IInv'
  BY <1>8, Onward DEF Vanish
<1>9. ASSUME NEW v \in Versions, Abandon(v) PROVE IInv'
  <2>1. pc' = [pc EXCEPT ![v] = "lost"] /\ stray' = stray \cup {v}
    BY <1>9 DEF Abandon, Ends
  <2>2. TypeOK'
    BY <1>9, <2>1 DEF Abandon, IInv, TypeOK, RegistryTypeOK
  <2>3. GreenMeansApproved' /\ SettledStands' /\ ShownIsPublished'
    BY <1>9, <2>1 DEF Abandon, IInv, TypeOK, GreenMeansApproved, SettledStands, ShownIsPublished
  <2> QED BY <2>2, <2>3 DEF IInv
<1>10. ASSUME NEW v \in Versions, Stray(v) PROVE IInv'
  <2>1. /\ stray' = stray \ {v} /\ (Accept(v, Moved) \/ Refuse(v))
        /\ UNCHANGED <<pc, runs, before, uploaded>>
    BY <1>10 DEF Stray, StrayArrives, workflow
  <2>2. stray' \subseteq Versions
    BY <2>1 DEF IInv, TypeOK, RegistryTypeOK
  <2>3. replaced' \in [Versions -> TagMaps]
    BY <1>10 DEF Stray, IInv, TypeOK, RegistryTypeOK
  <2>4. CASE tags' # tags
    <3>1. Moves
      BY <1>10, <2>4 DEF Stray
    <3> QED BY <2>1, <2>2, <2>3, <3>1, Elsewhere DEF IInv, TypeOK
  <2>5. CASE tags' = tags
    <3>1. settled' = settled
      BY <1>10, <2>5 DEF Stray
    <3>2. shownTags' = shownTags \/ shownTags' = tags'
      BY <2>1 DEF Accept, Refuse, Shows
    <3> QED BY <2>1, <2>2, <2>3, <2>5, <3>1, <3>2, Elsewhere DEF IInv, TypeOK
  <2> QED BY <2>4, <2>5
<1>11. ASSUME Others PROVE IInv'
  <2>1. /\ UNCHANGED <<pc, runs, before, uploaded, replaced>> /\ stray' = stray
    BY <1>11 DEF Others, workflow, ShowPublished, ShowTags, Meddle
  <2>2. stray' \subseteq Versions /\ replaced' \in [Versions -> TagMaps]
        /\ uploaded' \in [Versions -> BOOLEAN]
    BY <2>1 DEF IInv, TypeOK, RegistryTypeOK
  <2>3. CASE Meddle /\ Moves
    BY <2>1, <2>2, <2>3, Elsewhere DEF IInv, TypeOK
  <2>4. CASE ShowPublished /\ UNCHANGED settled
    BY <2>1, <2>2, <2>4, Elsewhere DEF IInv, TypeOK, ShowPublished
  <2>5. CASE ShowTags /\ UNCHANGED settled
    BY <2>1, <2>2, <2>5, Elsewhere DEF IInv, TypeOK, ShowTags
  <2> QED BY <1>11, <2>3, <2>4, <2>5 DEF Others
<1>12. CASE UNCHANGED vars
  BY <1>12 DEF vars, registry, workflow, IInv, TypeOK, RegistryTypeOK, ShownIsPublished,
               GreenMeansApproved, SettledStands
<1> QED BY <1>1, <1>2, <1>3, <1>4, <1>5, <1>6, <1>7, <1>8, <1>9, <1>10, <1>11, <1>12
        DEF Next, Step

LEMMA Always == Spec => []IInv
<1> QED BY Initially, Inductive, PTL DEF Spec

\* Every variable keeps its type.
THEOREM TypeCorrect == Spec => []TypeOK
<1>1. IInv => TypeOK BY DEF IInv
<1> QED BY <1>1, Always, PTL

\* A run that ends green vouches for the approved bytes: its last lookup showed them,
\* and no version is ever replaced.
THEOREM GreenIsApproved == Spec => []GreenMeansApproved
<1>1. IInv => GreenMeansApproved BY DEF IInv
<1> QED BY <1>1, Always, PTL

\* A run that starts with its version published, visible and tagged is never refused
\* while the tags stand: each of its checks answers "skip" on an unchanged baseline.
THEOREM RerunPasses == Spec => []RerunIsIdempotent
<1>1. IInv => RerunIsIdempotent BY DEF IInv, SettledStands, RerunIsIdempotent
<1> QED BY <1>1, Always, PTL

\* The run's invariant of the release workflows (release-channel-authority.js) holds for any
\* number of versions, on either channel.
THEOREM ReleaseInvariantHolds == Spec => []ReleaseInvariant
<1>1. TypeOK /\ GreenMeansApproved => ReleaseInvariant
  BY DEF ReleaseInvariant
<1>. QED  BY <1>1, TypeCorrect, GreenIsApproved, PTL
=============================================================================
