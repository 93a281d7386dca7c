--------------------------- MODULE DisclosureProofs ---------------------------
(***************************************************************************)
(* Proofs about what discloses a prepared body: a protected Read           *)
(* (ProtectedDelivery), for any Reads, commits and clock, and a protected  *)
(* source (ProtectedSource), for any commits and revisions.  Both are      *)
(* shown to implement DisclosureHistory.                                   *)
(*                                                                         *)
(* The inductive invariant of the Reads is about who may still touch a     *)
(* prepared delivery: one commit at most ever reserved it, the delivery    *)
(* remembers that until the commit has ended, and its owner returns        *)
(* "ready" on what it then remembers.  That of a source ties the token's   *)
(* phase to its record and to the one sink that may be running.            *)
(***************************************************************************)
EXTENDS ProtectedDelivery, ProtectedSource, TLAPS

CommitRecords == [state: {"not_invoked", "outcome_unknown", "confirmed"},
                  attempted: Nat \cup {NoTime}, confirmed: Nat \cup {NoTime}]
Tokens == [active: BOOLEAN, lifecycle: {"none", "available", "reserved", "closed"},
           pending: BOOLEAN, failed: BOOLEAN, at: Nat \cup {NoTime}, expires: Nat \cup {NoTime},
           commit: CommitRecords]

Early == {"projection", "admission", "gate1", "checking1", "gate2", "checking2", "handoff"}
Waiting == {"observing", "gating", "attempting"}
Sending == {"sinking", "acknowledged"}

\* A denial that stood when a commit was called stands, or somebody lifted it.
Denials ==
  /\ \A c \in Commits : blocked[c] => tombstone
  /\ \A c \in Commits : cpc[c] \in {"attempting", "sinking"} /\ scoped[c] => ~blocked[c]
  /\ \A c \in Commits : cpc[c] = "sinking" => scoped[c]

\* What a prepared delivery tells about its Read.
Ownership == \A r \in Reads :
  /\ token[r].active <=> pc[r] = "callback"
  /\ token[r].active => token[r].lifecycle # "none"
  /\ pc[r] \in Early => token[r] = NoToken
  /\ token[r].lifecycle \in {"none", "available"} =>
       token[r].commit = NotInvoked /\ ~token[r].pending /\ ~token[r].failed
  /\ token[r].lifecycle # "none" => token[r].at \in Nat
  /\ token[r].lifecycle = "reserved" => token[r].pending
  /\ pc[r] = "returning" \/ returned[r] = "ready" =>
       token[r].lifecycle = "closed" /\ ~token[r].pending /\ ~token[r].failed
  /\ returned[r] = "ready" => pc[r] = "done"

\* The record of a commit's attempt and confirmation.
Record == \A r \in Reads : LET s == token[r] IN
  /\ s.commit.state = "not_invoked" <=> s.commit.attempted = NoTime
  /\ s.commit.attempted # NoTime =>
       /\ s.at \in Nat /\ s.at <= s.commit.attempted /\ s.commit.attempted <= lastTime
       /\ s.expires # NoTime => s.commit.attempted < s.expires
  /\ s.commit.confirmed # NoTime =>
       s.commit.attempted # NoTime /\ s.commit.attempted <= s.commit.confirmed

\* What a commit call holds while it waits and while it sends.
Callers == \A c \in Commits :
  /\ cpc[c] = "idle" <=> target[c] = NoRead
  /\ cpc[c] = "done" <=> committed[c] # "none"
  /\ target[c] # NoRead => token[target[c]].lifecycle # "none"
  /\ cpc[c] \in Waiting \cup Sending =>
       token[target[c]].pending /\ token[target[c]].lifecycle \in {"reserved", "closed"}
  /\ cpc[c] \in Waiting => token[target[c]].commit = NotInvoked
  /\ cpc[c] \in Sending =>
       /\ token[target[c]].lifecycle = "closed" /\ token[target[c]].commit.confirmed = NoTime
       /\ running = c /\ pc[target[c]] = "callback"
  /\ cpc[c] = "sinking" => token[target[c]].commit.state = "outcome_unknown" /\ sent[target[c]] = 0
  /\ cpc[c] = "acknowledged" => token[target[c]].commit.state = "confirmed"
  /\ committed[c] = "failed" => token[target[c]].failed
  /\ running = c => cpc[c] \in Sending

\* One commit call at most ever had a delivery; the others were refused.
Single ==
  /\ \A c, d \in Commits : c # d /\ target[c] = target[d] /\ target[c] # NoRead =>
       committed[c] = "refused" \/ committed[d] = "refused"
  /\ \A c \in Commits : target[c] # NoRead =>
       (token[target[c]].lifecycle = "available" => committed[c] = "refused")

\* The sink was entered as often as an attempt is on record, but for the one running.
Sends == \A r \in Reads :
  /\ token[r].commit.state = "not_invoked" => sent[r] = 0
  /\ token[r].commit.state # "not_invoked" =>
       sent[r] > 0 \/ \E c \in Commits : running = c /\ cpc[c] = "sinking" /\ target[c] = r

IInv == TypeOK /\ Denials /\ Ownership /\ Record /\ Callers /\ Single /\ Sends

-----------------------------------------------------------------------------
(* Records                                                                  *)

LEMMA EmptyToken ==
  /\ NoToken \in Tokens /\ NoToken.commit = NotInvoked
  /\ NoToken.lifecycle = "none" /\ ~NoToken.active /\ ~NoToken.pending /\ ~NoToken.failed
  /\ NotInvoked \in CommitRecords
  /\ NotInvoked.state = "not_invoked" /\ NotInvoked.attempted = NoTime /\ NotInvoked.confirmed = NoTime
<1>1. NotInvoked \in CommitRecords
  BY DEF NotInvoked, CommitRecords
<1>2. NoToken.commit = NotInvoked
  BY DEF NoToken
<1> QED BY <1>1, <1>2 DEF NoToken, Tokens, NotInvoked

LEMMA ClosedToken ==
  ASSUME NEW s \in Tokens
  PROVE  /\ CloseOwner(s) \in Tokens
         /\ ~CloseOwner(s).active
         /\ CloseOwner(s).failed = (s.failed \/ s.lifecycle = "reserved")
         /\ CloseOwner(s).lifecycle = IF s.lifecycle = "none" THEN "none" ELSE "closed"
         /\ CloseOwner(s).pending = s.pending /\ CloseOwner(s).at = s.at
         /\ CloseOwner(s).expires = s.expires /\ CloseOwner(s).commit = s.commit
BY DEF CloseOwner, Tokens

\* What Fail does to the delivery of the commit.
LEMMA FailedToken ==
  ASSUME NEW c \in Commits, target[c] \in Reads, token \in [Reads -> Tokens], Fail(c)
  PROVE  LET r == target[c] IN
         /\ token' \in [Reads -> Tokens]
         /\ \A q \in Reads : q # r => token'[q] = token[q]
         /\ token'[r].failed /\ token'[r].lifecycle = "closed" /\ ~token'[r].pending
         /\ token'[r].active = token[r].active /\ token'[r].at = token[r].at
         /\ token'[r].expires = token[r].expires /\ token'[r].commit = token[r].commit
<1> DEFINE r == target[c]
           s == [token[r] EXCEPT !.failed = TRUE, !.lifecycle = "closed", !.pending = FALSE]
<1>1. token[r] \in Tokens
  OBVIOUS
<1>2. /\ s \in Tokens /\ s.failed /\ s.lifecycle = "closed" /\ ~s.pending
      /\ s.active = token[r].active /\ s.at = token[r].at /\ s.expires = token[r].expires
      /\ s.commit = token[r].commit
  BY <1>1 DEF Tokens
<1>3. token' = [token EXCEPT ![r] = s]
  BY DEF Fail
<1> HIDE DEF s
<1> QED BY <1>2, <1>3

LEMMA Initially == Init => IInv
<1> SUFFICES ASSUME Init PROVE IInv OBVIOUS
<1> USE DEF Init
<1>1. TypeOK
  BY EmptyToken, ConstantsAssumption DEF TypeOK, Tokens, CommitRecords, Checks, After
<1>2. Denials /\ Single
  BY DEF Denials, Single
<1>3. Ownership
  BY EmptyToken DEF Ownership, Early
<1>4. Record /\ Sends
  BY EmptyToken DEF Record, Sends
<1>5. Callers
  BY ConstantsAssumption DEF Callers, Waiting, Sending
<1> QED BY <1>1, <1>2, <1>3, <1>4, <1>5 DEF IInv

-----------------------------------------------------------------------------
(* The binding and the gate                                                 *)

LEMMA BindingMoves ==
  ASSUME TypeOK, (\E t \in Times : Observed(t)) \/ Unobserved
  PROVE  disposed' \in BOOLEAN /\ generation' \in Nat /\ lastTime' \in Nat /\ lastTime <= lastTime'
<1>1. disposed \in BOOLEAN /\ generation \in Nat /\ lastTime \in Nat
  BY DEF TypeOK
<1>2. CASE \E t \in Times : Observed(t)
  BY <1>1, <1>2, ConstantsAssumption DEF Observed
<1>3. CASE Unobserved
  BY <1>1, <1>3, ConstantsAssumption DEF Unobserved, binding
<1> QED BY <1>2, <1>3

LEMMA GateMoves ==
  ASSUME IInv, NEW ok \in BOOLEAN, GateAnswer(ok)
  PROVE  /\ tombstone' \in BOOLEAN /\ blocked' \in [Commits -> BOOLEAN]
         /\ \A c \in Commits : blocked'[c] => blocked[c] /\ tombstone'
         /\ ok => ~tombstone'
<1>0. tombstone \in BOOLEAN /\ blocked \in [Commits -> BOOLEAN] /\ \A c \in Commits : blocked[c] => tombstone
  BY DEF IInv, TypeOK, Denials
<1>1. CASE ~ok /\ UNCHANGED <<tombstone, blocked>>
  BY <1>0, <1>1
<1>2. CASE \E lift, deny \in BOOLEAN :
             /\ tombstone' = (deny \/ (tombstone /\ ~lift))
             /\ ok = ~tombstone'
             /\ blocked' = [c \in Commits |-> blocked[c] /\ ~lift]
  BY <1>0, <1>2
<1> QED BY <1>1, <1>2 DEF GateAnswer

-----------------------------------------------------------------------------
(* Steps of a Read                                                          *)

\* What a step of a Read leaves to its commits.
Elsewhere ==
  /\ UNCHANGED <<caller, running, sent>>
  /\ disposed' \in BOOLEAN /\ generation' \in Nat /\ lastTime' \in Nat /\ lastTime <= lastTime'
  /\ tombstone' \in BOOLEAN /\ blocked' \in [Commits -> BOOLEAN]
  /\ \A c \in Commits : blocked'[c] => blocked[c] /\ tombstone'
  /\ allowed' \in [Reads -> BOOLEAN]

LEMMA DenialsKept == ASSUME IInv, Elsewhere PROVE Denials'
BY DEF IInv, Elsewhere, Denials, caller

\* A Read goes from one await to the next.
LEMMA Advances ==
  ASSUME IInv, NEW r \in Reads, pc[r] \in Early, NEW p \in Early,
         pc' = [pc EXCEPT ![r] = p], Elsewhere, UNCHANGED <<token, returned>>
  PROVE  IInv'
<1>1. TypeOK'
  BY DEF IInv, TypeOK, Elsewhere, caller, Early, Checks, After
<1>2. Ownership'
  BY DEF IInv, TypeOK, Ownership, Early
<1>3. Record'
  <2>1. lastTime \in Nat /\ lastTime' \in Nat /\ lastTime <= lastTime' /\ token \in [Reads -> Tokens]
    BY DEF IInv, TypeOK, Elsewhere, Tokens, CommitRecords
  <2>2. \A q \in Reads : token[q].commit.attempted \in Nat \cup {NoTime}
    BY <2>1 DEF Tokens, CommitRecords
  <2> QED BY <2>1, <2>2, ConstantsAssumption DEF IInv, Record
<1>4. Callers'
  BY DEF IInv, TypeOK, Callers, Elsewhere, caller, Early
<1>5. Single' /\ Sends'
  BY DEF IInv, Single, Sends, Elsewhere, caller
<1> QED BY <1>1, <1>2, <1>3, <1>4, <1>5, DenialsKept DEF IInv

\* The delivery is prepared and the Host callback entered.
LEMMA Prepares ==
  ASSUME IInv, NEW r \in Reads, pc[r] = "handoff", NEW s \in Tokens,
         s.active, s.lifecycle = "available", ~s.pending, ~s.failed, s.at \in Nat,
         s.commit = NotInvoked,
         pc' = [pc EXCEPT ![r] = "callback"], token' = [token EXCEPT ![r] = s],
         Elsewhere, UNCHANGED returned
  PROVE  IInv'
<1>0. /\ token \in [Reads -> Tokens] /\ pc \in [Reads -> Checks \cup {"gate1", "gate2", "callback", "done"}]
      /\ token[r] = NoToken
  BY DEF IInv, TypeOK, Tokens, CommitRecords, Ownership, Early
<1>a. \A c \in Commits : target[c] # r
  BY <1>0, EmptyToken, ConstantsAssumption DEF IInv, Callers
<1>b. \A q \in Reads : q # r => token'[q] = token[q] /\ pc'[q] = pc[q]
  BY <1>0
<1>c. token'[r] = s /\ pc'[r] = "callback"
  BY <1>0
<1>1. TypeOK'
  <2>1. token' \in [Reads -> Tokens]
    BY <1>0
  <2>2. pc' \in [Reads -> Checks \cup {"gate1", "gate2", "callback", "done"}]
    BY <1>0
  <2> QED BY <2>1, <2>2 DEF IInv, TypeOK, Elsewhere, caller, Tokens, CommitRecords
<1>2. Ownership'
  BY <1>b, <1>c DEF IInv, Ownership, Early
<1>3. Record'
  <2>1. lastTime \in Nat /\ lastTime' \in Nat /\ lastTime <= lastTime'
    BY DEF IInv, TypeOK, Elsewhere
  <2>2. \A q \in Reads : token[q].commit.attempted \in Nat \cup {NoTime}
    BY <1>0 DEF Tokens, CommitRecords
  <2> QED BY <1>b, <1>c, <2>1, <2>2, EmptyToken, ConstantsAssumption DEF IInv, Record
<1>4. Callers'
  BY <1>a, <1>b DEF IInv, TypeOK, Callers, Elsewhere, caller
<1>5. Single'
  BY <1>a, <1>b DEF IInv, TypeOK, Single, Elsewhere, caller
<1>6. Sends'
  <2>1. sent[r] = 0
    BY <1>0, EmptyToken DEF IInv, Sends
  <2> QED BY <1>b, <1>c, <2>1, EmptyToken DEF IInv, Sends, Elsewhere, caller
<1> QED BY <1>1, <1>2, <1>3, <1>4, <1>5, <1>6, DenialsKept DEF IInv

\* The owner loses the delivery: it returns, or goes on to its last check.
LEMMA Closes ==
  ASSUME IInv, NEW r \in Reads, running = NoCommit,
         NEW p \in {"returning", "done"}, pc' = [pc EXCEPT ![r] = p],
         token' = [token EXCEPT ![r] = CloseOwner(@)], Elsewhere,
         NEW result \in {"none", "ready", "rejected", "delivery_failed", "protection_failed"},
         returned' = [returned EXCEPT ![r] = result],
         p = "returning" =>
           pc[r] = "callback" /\ ~token[r].pending /\ ~token[r].failed /\ result # "ready",
         result = "ready" => pc[r] = "returning"
  PROVE  IInv'
<1>0. /\ token \in [Reads -> Tokens] /\ pc \in [Reads -> Checks \cup {"gate1", "gate2", "callback", "done"}]
      /\ returned \in [Reads -> {"none", "ready", "rejected", "delivery_failed", "protection_failed"}]
      /\ target \in [Commits -> Reads \cup {NoRead}]
  BY DEF IInv, TypeOK, Tokens, CommitRecords
<1> DEFINE s == CloseOwner(token[r])
<1>a. /\ s \in Tokens /\ ~s.active /\ s.failed = (token[r].failed \/ token[r].lifecycle = "reserved")
      /\ s.lifecycle = IF token[r].lifecycle = "none" THEN "none" ELSE "closed"
      /\ s.pending = token[r].pending /\ s.at = token[r].at /\ s.expires = token[r].expires
      /\ s.commit = token[r].commit
  BY <1>0, ClosedToken
<1>b. /\ \A q \in Reads : q # r => token'[q] = token[q] /\ pc'[q] = pc[q] /\ returned'[q] = returned[q]
      /\ token'[r] = s /\ pc'[r] = p /\ returned'[r] = result
      /\ token' \in [Reads -> Tokens]
  BY <1>0, <1>a
<1>c. \A c \in Commits : cpc[c] \notin Sending
  BY ConstantsAssumption DEF IInv, Callers
<1>d. /\ UNCHANGED <<cpc, target, authority, scoped, committed, running, sent>>
  BY DEF Elsewhere, caller
<1> HIDE DEF s
<1>1. TypeOK'
  <2>1. pc' \in [Reads -> Checks \cup {"gate1", "gate2", "callback", "done"}]
    BY <1>0 DEF Checks, After
  <2>2. returned' \in [Reads -> {"none", "ready", "rejected", "delivery_failed", "protection_failed"}]
    BY <1>0
  <2> QED BY <1>b, <1>d, <2>1, <2>2 DEF IInv, TypeOK, Elsewhere, Tokens, CommitRecords
<1>2. Ownership'
  <2>1. \A q \in Reads : q # r =>
          /\ token'[q].active <=> pc'[q] = "callback"
          /\ token'[q].active => token'[q].lifecycle # "none"
          /\ pc'[q] \in Early => token'[q] = NoToken
          /\ token'[q].lifecycle \in {"none", "available"} =>
               token'[q].commit = NotInvoked /\ ~token'[q].pending /\ ~token'[q].failed
          /\ token'[q].lifecycle # "none" => token'[q].at \in Nat
          /\ token'[q].lifecycle = "reserved" => token'[q].pending
          /\ pc'[q] = "returning" \/ returned'[q] = "ready" =>
               token'[q].lifecycle = "closed" /\ ~token'[q].pending /\ ~token'[q].failed
          /\ returned'[q] = "ready" => pc'[q] = "done"
    BY <1>b DEF IInv, Ownership
  <2>2. s.lifecycle \in {"none", "available"} => s.commit = NotInvoked /\ ~s.pending /\ ~s.failed
    BY <1>a DEF IInv, Ownership
  <2>3. s.lifecycle # "none" => s.at \in Nat
    BY <1>a DEF IInv, Ownership
  <2>4. p = "returning" \/ result = "ready" =>
          token[r].lifecycle # "none" /\ ~token[r].pending /\ ~token[r].failed /\ token[r].lifecycle # "reserved"
    <3>1. CASE p = "returning"
      <4>1. token[r].active /\ ~token[r].pending /\ ~token[r].failed
        BY <3>1 DEF IInv, Ownership
      <4>2. token[r].lifecycle # "none"
        BY <3>1 DEF IInv, Ownership
      <4> QED BY <3>1, <4>1, <4>2 DEF IInv, Ownership
    <3>2. CASE result = "ready"
      BY <3>2 DEF IInv, Ownership
    <3> QED BY <3>1, <3>2
  <2>5. p = "returning" \/ result = "ready" => s.lifecycle = "closed" /\ ~s.pending /\ ~s.failed
    BY <2>4, <1>a
  <2> QED BY <1>a, <1>b, <2>1, <2>2, <2>3, <2>5 DEF Ownership, Early
<1>3. Record'
  <2>1. lastTime \in Nat /\ lastTime' \in Nat /\ lastTime <= lastTime'
    BY DEF IInv, TypeOK, Elsewhere
  <2>2. \A q \in Reads : token[q].commit.attempted \in Nat \cup {NoTime}
    BY <1>0 DEF Tokens, CommitRecords
  <2>3. \A q \in Reads : /\ token'[q].commit = token[q].commit /\ token'[q].at = token[q].at
                         /\ token'[q].expires = token[q].expires
    BY <1>a, <1>b
  <2> QED BY <2>1, <2>2, <2>3, ConstantsAssumption DEF IInv, Record
<1>4. Callers'
  <2>1. \A q \in Reads : /\ token'[q].commit = token[q].commit /\ token'[q].pending = token[q].pending
                         /\ token[q].failed => token'[q].failed
                         /\ token[q].lifecycle # "none" => token'[q].lifecycle # "none"
                         /\ token[q].lifecycle \in {"reserved", "closed"} =>
                              token'[q].lifecycle \in {"reserved", "closed"}
    BY <1>a, <1>b
  <2> QED BY <1>0, <1>c, <1>d, <2>1 DEF IInv, Callers
<1>5. Single'
  BY <1>0, <1>a, <1>b, <1>d DEF IInv, Single
<1>6. Sends'
  BY <1>a, <1>b, <1>d DEF IInv, Sends
<1> QED BY <1>1, <1>2, <1>3, <1>4, <1>5, <1>6, DenialsKept DEF IInv

-----------------------------------------------------------------------------
(* Steps of a commit                                                        *)

\* What a step of a commit leaves to the Reads, and to the other commits.
Aside(c) ==
  /\ UNCHANGED owner
  /\ disposed' \in BOOLEAN /\ generation' \in Nat /\ lastTime' \in Nat /\ lastTime <= lastTime'
  /\ tombstone' \in BOOLEAN /\ blocked' \in [Commits -> BOOLEAN]
  /\ authority' \in [Commits -> Nat] /\ scoped' \in [Commits -> BOOLEAN]
  /\ \A d \in Commits : d # c => scoped'[d] = scoped[d] /\ (blocked'[d] => blocked[d])
  /\ \A d \in Commits : blocked'[d] => tombstone'

\* Whoever waits or sends has its delivery to itself.
LEMMA Alone ==
  ASSUME IInv, NEW c \in Commits, cpc[c] \in Waiting \cup Sending
  PROVE  /\ target[c] \in Reads /\ committed[c] = "none"
         /\ \A d \in Commits : d # c /\ target[d] = target[c] => committed[d] = "refused" /\ cpc[d] = "done"
         /\ pc[target[c]] \notin Early \cup {"returning"} /\ returned[target[c]] # "ready"
<1>1. target[c] \in Reads \cup {NoRead} /\ committed[c] \in {"none", "refused", "failed", "committed"}
  BY DEF IInv, TypeOK
<1>2. target[c] # NoRead /\ committed[c] = "none" /\ token[target[c]].pending
      /\ token[target[c]].lifecycle # "none"
  BY <1>1 DEF IInv, Callers, Waiting, Sending
<1>3. \A d \in Commits : d # c /\ target[d] = target[c] => committed[d] = "refused" /\ cpc[d] = "done"
  BY <1>2 DEF IInv, Single, Callers
<1>4. pc[target[c]] \notin Early \cup {"returning"} /\ returned[target[c]] # "ready"
  BY <1>1, <1>2, EmptyToken DEF IInv, Ownership
<1> QED BY <1>1, <1>2, <1>3, <1>4

\* Time passes over the records of the deliveries a step does not touch.
LEMMA RecordPasses ==
  ASSUME IInv, NEW q \in Reads, lastTime' \in Nat, lastTime <= lastTime',
         token'[q].commit = token[q].commit, token'[q].at = token[q].at,
         token'[q].expires = token[q].expires
  PROVE  LET s == token'[q] IN
         /\ s.commit.state = "not_invoked" <=> s.commit.attempted = NoTime
         /\ s.commit.attempted # NoTime =>
              /\ s.at \in Nat /\ s.at <= s.commit.attempted /\ s.commit.attempted <= lastTime'
              /\ s.expires # NoTime => s.commit.attempted < s.expires
         /\ s.commit.confirmed # NoTime =>
              s.commit.attempted # NoTime /\ s.commit.attempted <= s.commit.confirmed
<1>1. lastTime \in Nat /\ token[q] \in Tokens
  BY DEF IInv, TypeOK, Tokens, CommitRecords
<1>2. token[q].commit.attempted \in Nat \cup {NoTime}
  BY <1>1 DEF Tokens, CommitRecords
<1> QED BY <1>1, <1>2, ConstantsAssumption DEF IInv, Record

LEMMA CommitFails ==
  ASSUME IInv, NEW c \in Commits, cpc[c] \in Waiting \cup Sending, Fail(c), Aside(c),
         running \in {NoCommit, c}, running' = NoCommit,
         sent' = IF cpc[c] = "sinking" THEN [sent EXCEPT ![target[c]] = @ + 1] ELSE sent
  PROVE  IInv'
<1> DEFINE r == target[c]
<1>0. /\ token \in [Reads -> Tokens] /\ sent \in [Reads -> Nat]
      /\ cpc \in [Commits -> {"idle", "observing", "gating", "attempting", "sinking",
                              "acknowledged", "done"}]
      /\ committed \in [Commits -> {"none", "refused", "failed", "committed"}]
  BY DEF IInv, TypeOK, Tokens, CommitRecords
<1>a. /\ r \in Reads
      /\ \A d \in Commits : d # c /\ target[d] = r => committed[d] = "refused" /\ cpc[d] = "done"
      /\ pc[r] \notin Early \cup {"returning"} /\ returned[r] # "ready"
  BY Alone
<1>b. /\ token' \in [Reads -> Tokens]
      /\ \A q \in Reads : q # r => token'[q] = token[q]
      /\ token'[r].failed /\ token'[r].lifecycle = "closed" /\ ~token'[r].pending
      /\ token'[r].active = token[r].active /\ token'[r].at = token[r].at
      /\ token'[r].expires = token[r].expires /\ token'[r].commit = token[r].commit
  BY <1>0, <1>a, FailedToken
<1>c. /\ cpc' = [cpc EXCEPT ![c] = "done"] /\ committed' = [committed EXCEPT ![c] = "failed"]
      /\ target' = target /\ UNCHANGED <<pc, allowed, returned>>
  BY DEF Fail, Aside, owner
<1>d. token[r].lifecycle # "none" /\ NoCommit \notin Commits
  BY <1>a, ConstantsAssumption DEF IInv, Callers
<1>e. sent' \in [Reads -> Nat] /\ (\A q \in Reads : sent'[q] >= sent[q])
      /\ \A q \in Reads : q # r \/ cpc[c] # "sinking" => sent'[q] = sent[q]
  BY <1>0, <1>a
<1> HIDE DEF r
<1>1. TypeOK'
  BY <1>0, <1>b, <1>c, <1>e DEF IInv, TypeOK, Aside, Tokens, CommitRecords
<1>2. Denials'
  BY <1>0, <1>c DEF IInv, Denials, Aside
<1>3. Ownership'
  <2>1. /\ token'[r].active <=> pc[r] = "callback"
        /\ token'[r].at \in Nat
    BY <1>a, <1>b, <1>d DEF IInv, Ownership
  <2> QED BY <1>a, <1>b, <1>c, <2>1 DEF IInv, Ownership
<1>4. Record'
  BY <1>b, RecordPasses DEF Record, Aside
<1>5. Callers'
  <2>1. \A d \in Commits : d # c => cpc[d] \notin Sending
    BY <1>d DEF IInv, Callers
  <2>2. ASSUME NEW d \in Commits, d # c
        PROVE  /\ cpc'[d] = cpc[d] /\ committed'[d] = committed[d] /\ target'[d] = target[d]
               /\ target[d] # r /\ target[d] # NoRead => token'[target[d]] = token[target[d]]
    BY <1>0, <1>b, <1>c, <2>2 DEF IInv, TypeOK
  <2>3. target[c] = r /\ r # NoRead
    BY <1>a, ConstantsAssumption DEF r
  <2> QED BY <1>0, <1>a, <1>b, <1>c, <1>d, <2>1, <2>2, <2>3 DEF IInv, Callers, Waiting, Sending
<1>6. Single'
  <2>1. target[c] = r
    BY DEF r
  <2> QED BY <1>0, <1>a, <1>b, <1>c, <2>1 DEF IInv, TypeOK, Single
<1>7. Sends'
  <2>1. target[c] = r
    BY DEF r
  <2>2. \A q \in Reads : token'[q].commit = token[q].commit
    BY <1>b
  <2>3. ASSUME NEW q \in Reads, token[q].commit.state = "not_invoked"
        PROVE  sent'[q] = 0
    <3>1. sent[q] = 0
      BY <2>3 DEF IInv, Sends
    <3>2. q # r \/ cpc[c] # "sinking"
      BY <2>1, <2>3 DEF IInv, Callers
    <3> QED BY <1>e, <3>1, <3>2
  <2>4. ASSUME NEW q \in Reads, token[q].commit.state # "not_invoked"
        PROVE  sent'[q] > 0
    <3>1. CASE q = r /\ cpc[c] = "sinking"
      BY <1>0, <1>a, <2>1, <3>1
    <3>2. CASE ~(q = r /\ cpc[c] = "sinking")
      <4>1. sent[q] > 0
        BY <1>d, <2>1, <2>4, <3>2 DEF IInv, Sends
      <4> QED BY <1>0, <1>e, <4>1
    <3> QED BY <3>1, <3>2
  <2> QED BY <2>2, <2>3, <2>4 DEF Sends
<1> QED BY <1>1, <1>2, <1>3, <1>4, <1>5, <1>6, <1>7 DEF IInv

\* A commit goes from one await to the next.
LEMMA CommitWaits ==
  ASSUME IInv, NEW c \in Commits, cpc[c] \in {"observing", "gating"},
         NEW p \in {"gating", "attempting"}, cpc' = [cpc EXCEPT ![c] = p], Aside(c),
         p = "attempting" /\ scoped'[c] => ~blocked'[c],
         UNCHANGED <<token, target, committed, running, sent>>
  PROVE  IInv'
<1>0. cpc \in [Commits -> {"idle", "observing", "gating", "attempting", "sinking",
                           "acknowledged", "done"}]
  BY DEF IInv, TypeOK
<1>1. TypeOK'
  BY <1>0 DEF IInv, TypeOK, Aside, owner
<1>2. Denials'
  BY <1>0 DEF IInv, Denials, Aside
<1>3. Ownership'
  BY DEF IInv, Ownership, Aside, owner
<1>4. Record'
  BY RecordPasses DEF Record, Aside
<1>5. Callers'
  BY <1>0 DEF IInv, Callers, Aside, owner, Waiting, Sending
<1>6. Single' /\ Sends'
  BY <1>0 DEF IInv, Single, Sends
<1> QED BY <1>1, <1>2, <1>3, <1>4, <1>5, <1>6 DEF IInv

\* A commit in flight changes its own delivery, to s, and goes on to p.
Moves(c, s, p, how) ==
  /\ cpc[c] \in Waiting \cup Sending /\ Aside(c)
  /\ s \in Tokens /\ token' = [token EXCEPT ![target[c]] = s]
  /\ s.active = token[target[c]].active /\ s.at = token[target[c]].at
  /\ s.expires = token[target[c]].expires /\ s.lifecycle = "closed"
  /\ p \in {"sinking", "acknowledged", "done"} /\ cpc' = [cpc EXCEPT ![c] = p]
  /\ how \in {"none", "failed", "committed"} /\ committed' = [committed EXCEPT ![c] = how]
  /\ running' \in Commits \cup {NoCommit} /\ sent' \in [Reads -> Nat]
  /\ \A q \in Reads : q # target[c] => sent'[q] = sent[q]
  /\ \A d \in Commits : d # c => cpc[d] \notin Sending
  /\ target' = target

LEMMA CommitMoves ==
  ASSUME IInv, NEW c \in Commits, NEW s, NEW p, NEW how, Moves(c, s, p, how)
  PROVE  /\ TypeOK' /\ Ownership' /\ Single'
         /\ \A d \in Commits : d # c => /\ cpc'[d] = cpc[d] /\ committed'[d] = committed[d]
                                        /\ target[d] # target[c] /\ target[d] # NoRead
                                             => token'[target[d]] = token[target[d]]
         /\ \A q \in Reads : q # target[c] => token'[q] = token[q]
         /\ token'[target[c]] = s /\ cpc'[c] = p /\ committed'[c] = how
<1> DEFINE r == target[c]
<1>0. /\ token \in [Reads -> Tokens]
      /\ cpc \in [Commits -> {"idle", "observing", "gating", "attempting", "sinking",
                              "acknowledged", "done"}]
      /\ committed \in [Commits -> {"none", "refused", "failed", "committed"}]
      /\ target \in [Commits -> Reads \cup {NoRead}]
  BY DEF IInv, TypeOK, Tokens, CommitRecords
<1>a. /\ r \in Reads
      /\ \A d \in Commits : d # c /\ target[d] = r => committed[d] = "refused" /\ cpc[d] = "done"
      /\ pc[r] \notin Early \cup {"returning"} /\ returned[r] # "ready"
  BY Alone DEF Moves
<1>b. token' \in [Reads -> Tokens] /\ (\A q \in Reads : q # r => token'[q] = token[q]) /\ token'[r] = s
  BY <1>0, <1>a DEF Moves
<1>c. /\ \A d \in Commits : d # c => cpc'[d] = cpc[d] /\ committed'[d] = committed[d]
      /\ cpc'[c] = p /\ committed'[c] = how
      /\ UNCHANGED <<pc, allowed, returned>>
  BY <1>0 DEF Moves, Aside, owner
<1>d. token[r].lifecycle # "none" /\ r # NoRead
  BY <1>a, ConstantsAssumption DEF IInv, Callers, Moves
<1>e. target[c] = r
  OBVIOUS
<1> HIDE DEF r
<1>1. TypeOK'
  <2>1. cpc' \in [Commits -> {"idle", "observing", "gating", "attempting", "sinking",
                              "acknowledged", "done"}]
        /\ committed' \in [Commits -> {"none", "refused", "failed", "committed"}]
    BY <1>0 DEF Moves
  <2> QED BY <1>0, <1>b, <1>c, <2>1 DEF IInv, TypeOK, Aside, Tokens, CommitRecords, Moves
<1>2. Ownership'
  <2>1. /\ s.active <=> pc[r] = "callback"
        /\ s.at \in Nat
    BY <1>a, <1>d, <1>e DEF IInv, Ownership, Moves
  <2> QED BY <1>a, <1>b, <1>c, <2>1 DEF IInv, Ownership, Moves
<1>3. Single'
  BY <1>0, <1>a, <1>b, <1>c, <1>d, <1>e DEF IInv, Single, Moves
<1> QED BY <1>0, <1>1, <1>2, <1>3, <1>b, <1>c, <1>e

LEMMA AttemptKeeps == ASSUME IInv, NEW c \in Commits, Attempt(c) PROVE IInv'
<1> DEFINE r == target[c]
<1>1. PICK t \in Times :
        /\ InTime(r, t) /\ lastTime' = t
        /\ token' = [token EXCEPT
             ![r].lifecycle = "closed",
             ![r].commit = [NotInvoked EXCEPT !.state = "outcome_unknown", !.attempted = t]]
  BY DEF Attempt
<1>2. /\ cpc[c] = "attempting" /\ running = NoCommit /\ ReserveValid(c) /\ scoped[c]
      /\ running' = c /\ cpc' = [cpc EXCEPT ![c] = "sinking"]
      /\ UNCHANGED <<disposed, generation, tombstone, pc, allowed, returned, target, authority,
                     scoped, committed, sent, blocked>>
  BY DEF Attempt, owner
<1>3. /\ token \in [Reads -> Tokens] /\ lastTime \in Nat /\ t \in Nat /\ lastTime <= t
      /\ token[r] \in Tokens /\ r \in Reads /\ token[r].active
      /\ sent \in [Reads -> Nat] /\ committed[c] = "none"
      /\ committed \in [Commits -> {"none", "refused", "failed", "committed"}]
  BY <1>1, <1>2, Alone, ConstantsAssumption DEF IInv, TypeOK, Tokens, CommitRecords, InTime,
     ReserveValid, Waiting
<1> DEFINE h == [NotInvoked EXCEPT !.state = "outcome_unknown", !.attempted = t]
           s == [[token[r] EXCEPT !.lifecycle = "closed"] EXCEPT !.commit = h]
<1>4. /\ h \in CommitRecords /\ h.state = "outcome_unknown" /\ h.attempted = t /\ h.confirmed = NoTime
  BY <1>3 DEF NotInvoked, CommitRecords
<1>5. token' = [token EXCEPT ![r] = s]
  BY <1>1, <1>3
<1> HIDE DEF h
<1>6. /\ s \in Tokens /\ s.active = token[r].active /\ s.lifecycle = "closed" /\ s.commit = h
      /\ s.at = token[r].at /\ s.expires = token[r].expires /\ s.pending = token[r].pending
  BY <1>3, <1>4 DEF Tokens
<1> HIDE DEF s
<1>7. /\ \A d \in Commits : cpc[d] \notin Sending
      /\ NoCommit \notin Commits
  BY <1>2, ConstantsAssumption DEF IInv, Callers
<1>8. Aside(c)
  BY <1>1, <1>2, <1>3 DEF Aside, owner, IInv, TypeOK, Denials
<1>9. committed' = [committed EXCEPT ![c] = "none"]
  BY <1>2, <1>3
<1>m. Moves(c, s, "sinking", "none")
  BY <1>2, <1>3, <1>5, <1>6, <1>7, <1>8, <1>9 DEF Moves, Waiting
<1>10. /\ TypeOK' /\ Ownership' /\ Single'
       /\ \A d \in Commits : d # c => /\ cpc'[d] = cpc[d] /\ committed'[d] = committed[d]
                                      /\ target[d] # r /\ target[d] # NoRead
                                           => token'[target[d]] = token[target[d]]
       /\ \A q \in Reads : q # r => token'[q] = token[q]
       /\ token'[r] = s /\ cpc'[c] = "sinking" /\ committed'[c] = "none"
  BY <1>m, CommitMoves
<1>11. Denials'
  BY <1>2, <1>10 DEF IInv, Denials, Sending
<1>12. Record'
  <2>1. token[r].at \in Nat
    BY <1>2, <1>3 DEF IInv, Ownership, ReserveValid
  <2>2. token[r].at <= t /\ (token[r].expires # NoTime => t < token[r].expires)
    BY <1>1 DEF InTime
  <2>5. /\ h.state # "not_invoked" /\ h.attempted # NoTime
        /\ s.at \in Nat /\ s.at <= h.attempted /\ h.attempted <= lastTime'
        /\ s.expires # NoTime => h.attempted < s.expires
    BY <1>1, <1>3, <1>4, <1>6, <2>1, <2>2, ConstantsAssumption
  <2>3. LET z == token'[r] IN
         /\ z.commit.state = "not_invoked" <=> z.commit.attempted = NoTime
         /\ z.commit.attempted # NoTime =>
              /\ z.at \in Nat /\ z.at <= z.commit.attempted /\ z.commit.attempted <= lastTime'
              /\ z.expires # NoTime => z.commit.attempted < z.expires
         /\ z.commit.confirmed # NoTime =>
              z.commit.attempted # NoTime /\ z.commit.attempted <= z.commit.confirmed
    BY <1>4, <1>6, <1>10, <2>5
  <2>4. lastTime' \in Nat /\ lastTime <= lastTime'
    BY <1>1, <1>3
  <2> QED BY <1>10, <2>3, <2>4, RecordPasses DEF Record
<1>13. Callers'
  <2>1. /\ token[r].pending /\ pc[r] = "callback" /\ token[r].commit = NotInvoked /\ sent[r] = 0
    BY <1>2, <1>3, EmptyToken DEF IInv, Callers, Ownership, Sends, Waiting
  <2>2. \A d \in Commits : d # c /\ target[d] = r => committed[d] = "refused" /\ cpc[d] = "done"
    BY <1>2, Alone DEF Waiting
  <2>3. r # NoRead
    BY <1>3, ConstantsAssumption
  <2>4. ASSUME NEW d \in Commits, d # c
        PROVE  /\ cpc'[d] = cpc[d] /\ committed'[d] = committed[d] /\ target'[d] = target[d]
               /\ cpc[d] \notin Sending /\ running' # d
               /\ target[d] = r => committed[d] = "refused" /\ cpc[d] = "done"
               /\ target[d] # r /\ target[d] # NoRead => token'[target[d]] = token[target[d]]
    BY <1>2, <1>7, <1>10, <2>2, <2>4
  <2>5. pc' = pc /\ sent' = sent /\ running' = c /\ target' = target
    BY <1>2
  <2>6. /\ token'[r].lifecycle = "closed" /\ token'[r].pending /\ token'[r].commit = h
        /\ cpc'[c] = "sinking" /\ committed'[c] = "none"
    BY <1>6, <1>10, <2>1
  <2>7. target[c] = r
    OBVIOUS
  <2> HIDE DEF r
  <2> QED BY <1>4, <2>1, <2>3, <2>4, <2>5, <2>6, <2>7 DEF IInv, Callers, Waiting, Sending
<1>14. Sends'
  BY <1>2, <1>4, <1>6, <1>7, <1>10 DEF IInv, Sends
<1> QED BY <1>10, <1>11, <1>12, <1>13, <1>14 DEF IInv

\* The sink has acknowledged.
LEMMA AcknowledgeKeeps ==
  ASSUME IInv, NEW c \in Commits, cpc[c] = "sinking", running = c,
         sent' = [sent EXCEPT ![target[c]] = @ + 1],
         cpc' = [cpc EXCEPT ![c] = "acknowledged"],
         token' = [token EXCEPT ![target[c]].commit.state = "confirmed"],
         UNCHANGED <<binding, tombstone, owner, authority, scoped, blocked, running, target, committed>>
  PROVE  IInv'
<1> DEFINE r == target[c]
<1>1. UNCHANGED <<disposed, generation, lastTime, pc, allowed, returned>>
  BY DEF binding, owner
<1>2. /\ token \in [Reads -> Tokens] /\ lastTime \in Nat
      /\ token[r] \in Tokens /\ r \in Reads /\ sent \in [Reads -> Nat] /\ committed[c] = "none"
      /\ committed \in [Commits -> {"none", "refused", "failed", "committed"}]
  BY Alone DEF IInv, TypeOK, Tokens, CommitRecords, Sending
<1>3. /\ token[r].lifecycle = "closed" /\ token[r].commit.confirmed = NoTime
      /\ token[r].commit.state = "outcome_unknown" /\ token[r].pending /\ pc[r] = "callback"
  BY DEF IInv, Callers, Sending
<1> DEFINE h == [token[r].commit EXCEPT !.state = "confirmed"]
           s == [token[r] EXCEPT !.commit = h]
<1>4. token[r].commit \in CommitRecords
  BY <1>2 DEF Tokens
<1>5. /\ h \in CommitRecords /\ h.state = "confirmed" /\ h.attempted = token[r].commit.attempted
      /\ h.confirmed = NoTime
  BY <1>3, <1>4 DEF CommitRecords
<1>6. token' = [token EXCEPT ![r] = s]
  BY <1>2
<1> HIDE DEF h
<1>7. /\ s \in Tokens /\ s.active = token[r].active /\ s.lifecycle = "closed" /\ s.commit = h
      /\ s.at = token[r].at /\ s.expires = token[r].expires /\ s.pending
  BY <1>2, <1>3, <1>5 DEF Tokens
<1> HIDE DEF s
<1>8. /\ \A d \in Commits : d # c => cpc[d] \notin Sending
      /\ NoCommit \notin Commits
  BY ConstantsAssumption DEF IInv, Callers
<1>9. Aside(c)
  BY <1>1, <1>2 DEF Aside, owner, IInv, TypeOK, Denials
<1>10. /\ sent' \in [Reads -> Nat] /\ sent'[r] > 0 /\ \A q \in Reads : q # r => sent'[q] = sent[q]
  BY <1>2
<1>11. committed' = [committed EXCEPT ![c] = "none"]
  BY <1>2
<1>m. Moves(c, s, "acknowledged", "none")
  BY <1>2, <1>6, <1>7, <1>8, <1>9, <1>10, <1>11 DEF Moves, Sending
<1>12. /\ TypeOK' /\ Ownership' /\ Single'
       /\ \A d \in Commits : d # c => /\ cpc'[d] = cpc[d] /\ committed'[d] = committed[d]
                                      /\ target[d] # r /\ target[d] # NoRead
                                           => token'[target[d]] = token[target[d]]
       /\ \A q \in Reads : q # r => token'[q] = token[q]
       /\ token'[r] = s /\ cpc'[c] = "acknowledged" /\ committed'[c] = "none"
  BY <1>m, CommitMoves
<1>13. Denials'
  BY <1>12 DEF IInv, Denials
<1>14. Record'
  <2>1. LET z == token'[r] IN
         /\ z.commit.state = "not_invoked" <=> z.commit.attempted = NoTime
         /\ z.commit.attempted # NoTime =>
              /\ z.at \in Nat /\ z.at <= z.commit.attempted /\ z.commit.attempted <= lastTime'
              /\ z.expires # NoTime => z.commit.attempted < z.expires
         /\ z.commit.confirmed # NoTime =>
              z.commit.attempted # NoTime /\ z.commit.attempted <= z.commit.confirmed
    BY <1>1, <1>2, <1>3, <1>5, <1>7, <1>12 DEF IInv, Record
  <2> QED BY <1>1, <1>2, <1>12, <2>1, RecordPasses DEF Record
<1>15. Callers'
  <2>1. r # NoRead /\ target[c] = r
    BY <1>2, ConstantsAssumption
  <2>2. \A d \in Commits : d # c /\ target[d] = r => committed[d] = "refused" /\ cpc[d] = "done"
    BY Alone DEF Sending
  <2>3. ASSUME NEW d \in Commits, d # c
        PROVE  /\ cpc'[d] = cpc[d] /\ committed'[d] = committed[d] /\ target'[d] = target[d]
               /\ cpc[d] \notin Sending /\ running' # d
               /\ target[d] = r => committed[d] = "refused" /\ cpc[d] = "done"
               /\ target[d] # r /\ target[d] # NoRead => token'[target[d]] = token[target[d]]
    BY <1>8, <1>12, <2>2, <2>3
  <2>4. /\ token'[r].lifecycle = "closed" /\ token'[r].pending /\ token'[r].commit = h
        /\ cpc'[c] = "acknowledged" /\ committed'[c] = "none" /\ pc' = pc /\ running' = c
    BY <1>1, <1>7, <1>12
  <2> HIDE DEF r
  <2> QED BY <1>3, <1>5, <2>1, <2>3, <2>4 DEF IInv, Callers, Waiting, Sending
<1>16. Sends'
  BY <1>5, <1>7, <1>8, <1>10, <1>12 DEF IInv, Sends
<1> QED BY <1>12, <1>13, <1>14, <1>15, <1>16 DEF IInv

\* The delivery of a commit that is confirmed by a sample of the clock.
Confirms(c, t, current) ==
  token' = [token EXCEPT ![target[c]].commit.confirmed = t, ![target[c]].pending = FALSE,
                         ![target[c]].failed = @ \/ ~current]

LEMMA ConfirmedToken ==
  ASSUME IInv, NEW c \in Commits, cpc[c] = "acknowledged", NEW t \in Times, NEW current \in BOOLEAN,
         Confirms(c, t, current)
  PROVE  \E s \in Tokens :
           /\ token' = [token EXCEPT ![target[c]] = s]
           /\ s.active = token[target[c]].active /\ s.lifecycle = "closed"
           /\ s.at = token[target[c]].at /\ s.expires = token[target[c]].expires
           /\ ~s.pending /\ (~current => s.failed)
           /\ s.commit.state = "confirmed" /\ s.commit.confirmed = t
           /\ s.commit.attempted = token[target[c]].commit.attempted
<1> DEFINE r == target[c]
<1>2. /\ token \in [Reads -> Tokens] /\ t \in Nat /\ token[r] \in Tokens /\ r \in Reads
  BY Alone, ConstantsAssumption DEF IInv, TypeOK, Tokens, CommitRecords, Sending
<1>3. /\ token[r].lifecycle = "closed" /\ token[r].commit.state = "confirmed"
  BY DEF IInv, Callers, Sending
<1> DEFINE h == [token[r].commit EXCEPT !.confirmed = t]
           s == [token[r] EXCEPT !.commit = h, !.pending = FALSE, !.failed = @ \/ ~current]
<1>4. token[r].commit \in CommitRecords
  BY <1>2 DEF Tokens
<1>5. /\ h \in CommitRecords /\ h.state = "confirmed" /\ h.attempted = token[r].commit.attempted
      /\ h.confirmed = t
  BY <1>2, <1>3, <1>4 DEF CommitRecords
<1>6. token' = [token EXCEPT ![r] = s]
  BY <1>2 DEF Confirms
<1> HIDE DEF h
<1>7. /\ s \in Tokens /\ s.active = token[r].active /\ s.lifecycle = "closed" /\ s.commit = h
      /\ s.at = token[r].at /\ s.expires = token[r].expires /\ ~s.pending
      /\ ~current => s.failed
  BY <1>2, <1>3, <1>5 DEF Tokens
<1> HIDE DEF s
<1> QED BY <1>5, <1>6, <1>7

\* The acknowledgement is confirmed.
LEMMA ConfirmKeeps ==
  ASSUME IInv, NEW c \in Commits, cpc[c] = "acknowledged", running = c,
         NEW t \in Times, t >= lastTime, lastTime' = t,
         NEW s \in Tokens, token' = [token EXCEPT ![target[c]] = s],
         s.active = token[target[c]].active, s.lifecycle = "closed",
         s.at = token[target[c]].at, s.expires = token[target[c]].expires, ~s.pending,
         s.commit.state = "confirmed", s.commit.confirmed = t,
         s.commit.attempted = token[target[c]].commit.attempted,
         NEW how \in {"committed", "failed"}, how = "failed" => s.failed,
         committed' = [committed EXCEPT ![c] = how],
         cpc' = [cpc EXCEPT ![c] = "done"], running' = NoCommit,
         UNCHANGED <<disposed, generation, target, tombstone, owner, authority, scoped, sent, blocked>>
  PROVE  IInv'
<1> DEFINE r == target[c]
           h == s.commit
<1> HIDE DEF r
<1>r. target[c] = r
  BY DEF r
<1>1. UNCHANGED <<disposed, generation, pc, allowed, returned, target, sent, scoped, blocked>>
  BY DEF owner
<1>2. /\ token \in [Reads -> Tokens] /\ lastTime \in Nat /\ t \in Nat /\ lastTime <= t
      /\ token[r] \in Tokens /\ r \in Reads /\ sent \in [Reads -> Nat]
      /\ committed \in [Commits -> {"none", "refused", "failed", "committed"}]
  BY <1>r, Alone, ConstantsAssumption DEF IInv, TypeOK, Tokens, CommitRecords, Sending
<1>3. /\ token[r].lifecycle = "closed" /\ token[r].commit.state = "confirmed"
  BY <1>r DEF IInv, Callers, Sending
<1>8. /\ \A d \in Commits : d # c => cpc[d] \notin Sending
      /\ NoCommit \notin Commits
  BY ConstantsAssumption DEF IInv, Callers
<1>9. Aside(c)
  BY <1>1, <1>2 DEF Aside, owner, IInv, TypeOK, Denials
<1>11. sent' \in [Reads -> Nat] /\ (\A q \in Reads : sent'[q] = sent[q])
  BY <1>2
<1>a. /\ cpc[c] \in Waiting \cup Sending /\ "done" \in {"sinking", "acknowledged", "done"}
      /\ how \in {"none", "failed", "committed"} /\ running' \in Commits \cup {NoCommit}
      /\ target' = target
  BY <1>1 DEF Sending
<1>b. sent' \in [Reads -> Nat] /\ \A q \in Reads : q # target[c] => sent'[q] = sent[q]
  BY <1>11
<1>m. Moves(c, s, "done", how)
  BY <1>a, <1>b, <1>8, <1>9 DEF Moves
<1>c. /\ TypeOK' /\ Ownership' /\ Single'
      /\ \A d \in Commits : d # c => /\ cpc'[d] = cpc[d] /\ committed'[d] = committed[d]
                                     /\ target[d] # target[c] /\ target[d] # NoRead
                                          => token'[target[d]] = token[target[d]]
      /\ \A q \in Reads : q # target[c] => token'[q] = token[q]
      /\ token'[target[c]] = s /\ cpc'[c] = "done" /\ committed'[c] = how
  BY <1>m, CommitMoves
<1>12. /\ TypeOK' /\ Ownership' /\ Single'
       /\ \A d \in Commits : d # c => /\ cpc'[d] = cpc[d] /\ committed'[d] = committed[d]
                                      /\ target[d] # r /\ target[d] # NoRead
                                           => token'[target[d]] = token[target[d]]
       /\ \A q \in Reads : q # r => token'[q] = token[q]
       /\ token'[r] = s /\ cpc'[c] = "done" /\ committed'[c] = how
  BY <1>c, <1>r
<1>13. Denials'
  BY <1>12 DEF IInv, Denials
<1>14. Record'
  <2>0. token[r].commit.attempted \in Nat \cup {NoTime} /\ token[r].commit.attempted # NoTime
    BY <1>2, <1>3 DEF IInv, Record, Tokens, CommitRecords
  <2>1. /\ h.state # "not_invoked" /\ h.attempted # NoTime /\ h.attempted \in Nat
        /\ s.at \in Nat /\ s.at <= h.attempted /\ h.attempted <= t
        /\ s.expires # NoTime => h.attempted < s.expires
    BY <1>r, <1>2, <2>0 DEF IInv, Record
  <2>2. LET z == token'[r] IN
         /\ z.commit.state = "not_invoked" <=> z.commit.attempted = NoTime
         /\ z.commit.attempted # NoTime =>
              /\ z.at \in Nat /\ z.at <= z.commit.attempted /\ z.commit.attempted <= lastTime'
              /\ z.expires # NoTime => z.commit.attempted < z.expires
         /\ z.commit.confirmed # NoTime =>
              z.commit.attempted # NoTime /\ z.commit.attempted <= z.commit.confirmed
    BY <1>12, <2>1
  <2> QED BY <1>2, <1>12, <2>2, RecordPasses DEF Record
<1>15. Callers'
  <2>1. r # NoRead /\ target[c] = r
    BY <1>r, <1>2, ConstantsAssumption
  <2>2. \A d \in Commits : d # c /\ target[d] = r => committed[d] = "refused" /\ cpc[d] = "done"
    BY <1>r, Alone DEF Sending
  <2>3. ASSUME NEW d \in Commits, d # c
        PROVE  /\ cpc'[d] = cpc[d] /\ committed'[d] = committed[d] /\ target'[d] = target[d]
               /\ cpc[d] \notin Sending /\ running' # d
               /\ target[d] = r => committed[d] = "refused" /\ cpc[d] = "done"
               /\ target[d] # r /\ target[d] # NoRead => token'[target[d]] = token[target[d]]
    BY <1>8, <1>12, <2>2, <2>3
  <2>4. /\ token'[r].lifecycle = "closed" /\ (how = "failed" => token'[r].failed)
        /\ cpc'[c] = "done" /\ committed'[c] = how /\ how # "none" /\ pc' = pc /\ running' # c
        /\ target' = target /\ sent' = sent
    BY <1>1, <1>8, <1>12
  <2>5. ASSUME NEW d \in Commits, d # c
        PROVE  /\ cpc[d] = "idle" <=> target[d] = NoRead
               /\ cpc[d] = "done" <=> committed[d] # "none"
               /\ target[d] # NoRead => token'[target[d]].lifecycle # "none"
               /\ cpc[d] \in Waiting =>
                    /\ token'[target[d]].pending /\ token'[target[d]].lifecycle \in {"reserved", "closed"}
                    /\ token'[target[d]].commit = NotInvoked
               /\ committed[d] = "failed" => token'[target[d]].failed
    <3>1. CASE target[d] = r
      BY <2>1, <2>3, <2>4, <2>5, <3>1 DEF IInv, Callers, Waiting
    <3>2. CASE target[d] # r /\ target[d] # NoRead
      BY <2>3, <2>5, <3>2 DEF IInv, Callers, Waiting, Sending
    <3>3. CASE target[d] = NoRead
      BY <2>5, <3>3 DEF IInv, Callers, Waiting
    <3> QED BY <3>1, <3>2, <3>3
  <2> QED BY <2>1, <2>3, <2>4, <2>5 DEF Callers, Waiting, Sending
<1>16. Sends'
  <2>1. sent[r] > 0
    BY <1>2, <1>3 DEF IInv, Sends
  <2>2. ASSUME NEW q \in Reads, q # r, token[q].commit.state # "not_invoked"
        PROVE  sent[q] > 0
    BY <2>2 DEF IInv, Sends
  <2>3. token'[r].commit.state = "confirmed"
    BY <1>12
  <2>4. \A q \in Reads : q # r /\ token[q].commit.state = "not_invoked" => sent[q] = 0
    BY DEF IInv, Sends
  <2> QED BY <1>11, <1>12, <2>1, <2>2, <2>3, <2>4 DEF Sends
<1> QED BY <1>12, <1>13, <1>14, <1>15, <1>16 DEF IInv

\* A commit call takes a delivery, spends it on a malformed transport, or is refused.
Calls(c, r, s, p, how) ==
  /\ cpc[c] = "idle" /\ token[r].lifecycle # "none"
  /\ target' = [target EXCEPT ![c] = r] /\ blocked' = [blocked EXCEPT ![c] = tombstone]
  /\ cpc' = [cpc EXCEPT ![c] = p] /\ committed' = [committed EXCEPT ![c] = how]
  /\ s \in Tokens /\ token' = [token EXCEPT ![r] = s]
  /\ s.active = token[r].active /\ s.at = token[r].at /\ s.expires = token[r].expires
  /\ s.commit = token[r].commit
  /\ \/ s = token[r] /\ p = "done" /\ how = "refused"
     \/ /\ token[r].lifecycle = "available" /\ s.lifecycle = "reserved" /\ s.pending
        /\ p = "observing" /\ how = "none"
     \/ /\ token[r].lifecycle = "available" /\ s.lifecycle = "closed" /\ s.failed
        /\ p = "done" /\ how = "failed"
  /\ UNCHANGED <<disposed, generation, lastTime, tombstone, pc, allowed, returned, authority,
                 scoped, running, sent>>

LEMMA CallTakes ==
  ASSUME IInv, NEW c \in Commits, NEW r \in Reads, CallCommit(c, r)
  PROVE  \E s \in Tokens, p \in {"observing", "done"}, how \in {"none", "refused", "failed"} :
           Calls(c, r, s, p, how)
<1>1. /\ token \in [Reads -> Tokens] /\ committed \in [Commits -> {"none", "refused", "failed", "committed"}]
      /\ token[r] \in Tokens
  BY DEF IInv, TypeOK, Tokens, CommitRecords
<1>2. /\ cpc[c] = "idle" /\ token[r].lifecycle # "none"
      /\ target' = [target EXCEPT ![c] = r] /\ blocked' = [blocked EXCEPT ![c] = tombstone]
      /\ UNCHANGED <<disposed, generation, lastTime, tombstone, pc, allowed, returned, authority,
                     scoped, running, sent>>
  BY DEF CallCommit, binding, owner
<1>3. CASE /\ cpc' = [cpc EXCEPT ![c] = "done"]
           /\ committed' = [committed EXCEPT ![c] = "refused"] /\ token' = token
  <2>1. token' = [token EXCEPT ![r] = token[r]]
    BY <1>1, <1>3
  <2>2. Calls(c, r, token[r], "done", "refused")
    BY <1>1, <1>2, <1>3, <2>1 DEF Calls
  <2> QED BY <1>1, <2>2
<1>4. CASE /\ Available(r)
           /\ token' = [token EXCEPT ![r].lifecycle = "reserved", ![r].pending = TRUE]
           /\ cpc' = [cpc EXCEPT ![c] = "observing"] /\ committed' = committed
  <2> DEFINE s == [token[r] EXCEPT !.lifecycle = "reserved", !.pending = TRUE]
  <2>1. /\ s \in Tokens /\ s.active = token[r].active /\ s.at = token[r].at
        /\ s.expires = token[r].expires /\ s.commit = token[r].commit
        /\ s.lifecycle = "reserved" /\ s.pending
    BY <1>1 DEF Tokens
  <2>2. token' = [token EXCEPT ![r] = s] /\ token[r].lifecycle = "available"
    BY <1>1, <1>4 DEF Available
  <2>3. committed' = [committed EXCEPT ![c] = "none"]
    <3>1. committed[c] = "none"
      BY <1>1, <1>2 DEF IInv, Callers
    <3> QED BY <1>1, <1>4, <3>1
  <2> HIDE DEF s
  <2>4. Calls(c, r, s, "observing", "none")
    BY <1>2, <1>4, <2>1, <2>2, <2>3 DEF Calls
  <2> QED BY <2>1, <2>4
<1>5. CASE /\ Available(r)
           /\ token' = [token EXCEPT ![r].lifecycle = "closed", ![r].failed = TRUE]
           /\ cpc' = [cpc EXCEPT ![c] = "done"]
           /\ committed' = [committed EXCEPT ![c] = "failed"]
  <2> DEFINE s == [token[r] EXCEPT !.lifecycle = "closed", !.failed = TRUE]
  <2>1. /\ s \in Tokens /\ s.active = token[r].active /\ s.at = token[r].at
        /\ s.expires = token[r].expires /\ s.commit = token[r].commit
        /\ s.lifecycle = "closed" /\ s.failed
    BY <1>1 DEF Tokens
  <2>2. token' = [token EXCEPT ![r] = s] /\ token[r].lifecycle = "available"
    BY <1>1, <1>5 DEF Available
  <2> HIDE DEF s
  <2>4. Calls(c, r, s, "done", "failed")
    BY <1>2, <1>5, <2>1, <2>2 DEF Calls
  <2> QED BY <2>1, <2>4
<1> QED BY <1>3, <1>4, <1>5 DEF CallCommit

LEMMA CallKeeps ==
  ASSUME IInv, NEW c \in Commits, NEW r \in Reads, NEW s \in Tokens,
         NEW p \in {"observing", "done"}, NEW how \in {"none", "refused", "failed"},
         Calls(c, r, s, p, how)
  PROVE  IInv'
<1>1. /\ token \in [Reads -> Tokens] /\ target \in [Commits -> Reads \cup {NoRead}]
      /\ cpc \in [Commits -> {"idle", "observing", "gating", "attempting", "sinking",
                              "acknowledged", "done"}]
      /\ committed \in [Commits -> {"none", "refused", "failed", "committed"}]
      /\ blocked \in [Commits -> BOOLEAN] /\ tombstone \in BOOLEAN /\ lastTime \in Nat
  BY DEF IInv, TypeOK, Tokens, CommitRecords
<1>2. /\ target[c] = NoRead /\ running # c /\ r # NoRead /\ cpc[c] = "idle"
  BY ConstantsAssumption DEF IInv, Callers, Calls, Sending
<1>3. /\ \A d \in Commits : d # c => /\ cpc'[d] = cpc[d] /\ committed'[d] = committed[d]
                                      /\ target'[d] = target[d] /\ blocked'[d] = blocked[d]
      /\ cpc'[c] = p /\ committed'[c] = how /\ target'[c] = r /\ blocked'[c] = tombstone
      /\ \A q \in Reads : q # r => token'[q] = token[q]
      /\ token'[r] = s /\ \A q \in Reads : token'[q].commit = token[q].commit
  BY <1>1 DEF Calls
<1>4. /\ token[r].lifecycle # "none" /\ s.active = token[r].active /\ s.at = token[r].at
      /\ s.expires = token[r].expires /\ s.commit = token[r].commit
      /\ UNCHANGED <<disposed, generation, lastTime, tombstone, pc, allowed, returned, authority,
                     scoped, running, sent>>
  BY DEF Calls
<1>5. \/ s = token[r] /\ p = "done" /\ how = "refused"
      \/ /\ token[r].lifecycle = "available" /\ s.lifecycle = "reserved" /\ s.pending
         /\ p = "observing" /\ how = "none"
      \/ /\ token[r].lifecycle = "available" /\ s.lifecycle = "closed" /\ s.failed
         /\ p = "done" /\ how = "failed"
  BY DEF Calls
<1>6. \A d \in Commits : token[r].lifecycle = "available" /\ target[d] = r =>
        committed[d] = "refused" /\ cpc[d] = "done"
  BY <1>2 DEF IInv, Single, Callers
<1>11. TypeOK'
  <2>1. /\ token' \in [Reads -> Tokens] /\ target' \in [Commits -> Reads \cup {NoRead}]
        /\ blocked' \in [Commits -> BOOLEAN]
        /\ cpc' \in [Commits -> {"idle", "observing", "gating", "attempting", "sinking",
                                 "acknowledged", "done"}]
        /\ committed' \in [Commits -> {"none", "refused", "failed", "committed"}]
    BY <1>1 DEF Calls
  <2> QED BY <1>4, <2>1 DEF IInv, TypeOK, Tokens, CommitRecords
<1>12. Denials'
  BY <1>3, <1>4 DEF IInv, Denials
<1>13. Ownership'
  <2>1. /\ s.active <=> pc[r] = "callback"
        /\ s.lifecycle # "none" /\ s.at \in Nat /\ pc[r] \notin Early
        /\ s.lifecycle = "available" =>
             s.commit = NotInvoked /\ ~s.pending /\ ~s.failed
        /\ s.lifecycle = "reserved" => s.pending
        /\ pc[r] = "returning" \/ returned[r] = "ready" =>
             s.lifecycle = "closed" /\ ~s.pending /\ ~s.failed
    BY <1>4, <1>5, EmptyToken DEF IInv, Ownership
  <2> QED BY <1>3, <1>4, <2>1 DEF IInv, Ownership
<1>14. Record'
  <2>1. \A q \in Reads : token'[q].at = token[q].at /\ token'[q].expires = token[q].expires
    BY <1>3, <1>4
  <2>2. lastTime' \in Nat /\ lastTime <= lastTime'
    BY <1>1, <1>4
  <2> QED BY <1>3, <2>1, <2>2, RecordPasses DEF Record
<1>15. Callers'
  <2>1. ASSUME NEW d \in Commits, d # c, target[d] # r \/ s = token[r]
        PROVE  target[d] # NoRead => token'[target[d]] = token[target[d]]
    BY <1>1, <1>3, <2>1
  <2>2. p = "observing" => s.commit = NotInvoked /\ s.pending /\ s.lifecycle = "reserved"
    BY <1>4, <1>5 DEF IInv, Ownership
  <2>3. how = "failed" => s.failed
    BY <1>5
  <2>4. /\ s.lifecycle # "none" /\ (p = "done" <=> how # "none") /\ running' # c
    BY <1>2, <1>4, <1>5
  <2>5. ASSUME NEW d \in Commits, d # c
        PROVE  /\ cpc[d] = "idle" <=> target[d] = NoRead
               /\ cpc[d] = "done" <=> committed[d] # "none"
               /\ target[d] # NoRead => token'[target[d]].lifecycle # "none"
               /\ cpc[d] \in Waiting \cup Sending =>
                    token'[target[d]].pending /\ token'[target[d]].lifecycle \in {"reserved", "closed"}
               /\ cpc[d] \in Waiting => token'[target[d]].commit = NotInvoked
               /\ cpc[d] \in Sending =>
                    /\ token'[target[d]].lifecycle = "closed"
                    /\ token'[target[d]].commit.confirmed = NoTime
                    /\ running = d /\ pc[target[d]] = "callback"
               /\ cpc[d] = "sinking" =>
                    token'[target[d]].commit.state = "outcome_unknown" /\ sent[target[d]] = 0
               /\ cpc[d] = "acknowledged" => token'[target[d]].commit.state = "confirmed"
               /\ committed[d] = "failed" => token'[target[d]].failed
               /\ running = d => cpc[d] \in Sending
    <3>1. CASE target[d] = NoRead
      BY <2>5, <3>1 DEF IInv, Callers, Waiting, Sending
    <3>2. CASE target[d] # NoRead /\ (target[d] # r \/ s = token[r])
      <4>1. token'[target[d]] = token[target[d]]
        BY <2>1, <2>5, <3>2
      <4> QED BY <3>2, <4>1 DEF IInv, Callers
    <3>3. CASE target[d] = r /\ s # token[r]
      <4>1. committed[d] = "refused" /\ cpc[d] = "done"
        BY <1>5, <1>6, <3>3
      <4> QED BY <1>2, <1>3, <2>4, <3>3, <4>1 DEF IInv, Callers, Waiting, Sending
    <3> QED BY <3>1, <3>2, <3>3
  <2> QED BY <1>2, <1>3, <1>4, <2>2, <2>3, <2>4, <2>5 DEF Callers, Waiting, Sending
<1>16. Single'
  <2>1. s.lifecycle = "available" => how = "refused"
    BY <1>5
  <2>2. \A d \in Commits : target[d] = r =>
          committed[d] = "refused" \/ how = "refused"
    BY <1>5, <1>6
  <2>3. \A d \in Commits : d # c /\ target[d] = r /\ s.lifecycle = "available" => committed[d] = "refused"
    BY <1>5, <1>6
  <2>4. ASSUME NEW d \in Commits, d # c, target[d] # NoRead, token'[target[d]].lifecycle = "available"
        PROVE  committed[d] = "refused"
    <3>1. CASE target[d] = r
      BY <1>3, <2>3, <2>4, <3>1
    <3>2. CASE target[d] # r
      BY <1>1, <1>3, <2>4, <3>2 DEF IInv, Single
    <3> QED BY <3>1, <3>2
  <2>5. ASSUME NEW d \in Commits, NEW e \in Commits, d # e, target'[d] = target'[e], target'[d] # NoRead
        PROVE  committed'[d] = "refused" \/ committed'[e] = "refused"
    <3>1. CASE d # c /\ e # c
      BY <1>3, <2>5, <3>1 DEF IInv, Single
    <3>2. CASE d = c \/ e = c
      BY <1>3, <2>2, <2>5, <3>2
    <3> QED BY <3>1, <3>2
  <2> QED BY <1>2, <1>3, <2>1, <2>4, <2>5 DEF Single
<1>17. Sends'
  BY <1>2, <1>3, <1>4 DEF IInv, Sends
<1> QED BY <1>11, <1>12, <1>13, <1>14, <1>15, <1>16, <1>17 DEF IInv

-----------------------------------------------------------------------------
(* The invariant                                                            *)

LEMMA DisposeKeeps == ASSUME IInv, Dispose PROVE IInv'
<1>1. /\ UNCHANGED <<lastTime, tombstone, pc, allowed, returned, token, cpc, target, authority,
                     scoped, committed, running, sent, blocked>>
      /\ disposed' = TRUE /\ generation' = generation + 1
  BY DEF Dispose, owner, caller
<1>2. TypeOK'
  BY <1>1 DEF IInv, TypeOK
<1>3. Denials' /\ Ownership' /\ Single' /\ Sends'
  BY <1>1 DEF IInv, Denials, Ownership, Single, Sends
<1>4. Record' /\ Callers'
  BY <1>1 DEF IInv, Record, Callers
<1> QED BY <1>2, <1>3, <1>4 DEF IInv

LEMMA ReadStepKeeps == ASSUME IInv, NEW r \in Reads, ReadStep(r) PROVE IInv'
<1>0. /\ allowed \in [Reads -> BOOLEAN] /\ tombstone \in BOOLEAN /\ blocked \in [Commits -> BOOLEAN]
      /\ \A c \in Commits : blocked[c] => tombstone
      /\ returned \in [Reads -> {"none", "ready", "rejected", "delivery_failed", "protection_failed"}]
      /\ disposed \in BOOLEAN /\ generation \in Nat /\ lastTime \in Nat
  BY DEF IInv, TypeOK, Denials
<1>1. CASE CheckPasses(r)
  <2>1. /\ UNCHANGED <<tombstone, allowed, caller, running, sent, blocked>>
        /\ running = NoCommit /\ pc[r] \in Checks /\ \E t \in Times : Observed(t)
    BY <1>1 DEF CheckPasses
  <2>2. Elsewhere
    BY <1>0, <2>1, BindingMoves DEF Elsewhere, IInv
  <2>3. CASE /\ pc[r] \in {"projection", "admission", "checking1", "checking2"}
             /\ pc' = [pc EXCEPT ![r] = After[pc[r]]] /\ UNCHANGED <<token, returned>>
    <3>1. After[pc[r]] \in Early /\ pc[r] \in Early
      BY <2>3 DEF After, Early
    <3> QED BY <2>2, <2>3, <3>1, Advances
  <2>4. CASE /\ pc[r] = "handoff" /\ pc' = [pc EXCEPT ![r] = "callback"]
             /\ \E e \in Times \cup {NoTime} :
                  token' = [token EXCEPT ![r] =
                    [NoToken EXCEPT !.active = TRUE, !.lifecycle = "available",
                                    !.at = lastTime', !.expires = e]]
             /\ UNCHANGED returned
    <3>1. PICK e \in Times \cup {NoTime} :
            token' = [token EXCEPT ![r] =
              [NoToken EXCEPT !.active = TRUE, !.lifecycle = "available",
                              !.at = lastTime', !.expires = e]]
      BY <2>4
    <3> DEFINE s == [NoToken EXCEPT !.active = TRUE, !.lifecycle = "available",
                                    !.at = lastTime', !.expires = e]
    <3>2. lastTime' \in Nat /\ e \in Nat \cup {NoTime}
      BY <2>2, ConstantsAssumption DEF Elsewhere
    <3>3. /\ s \in Tokens /\ s.active /\ s.lifecycle = "available" /\ ~s.pending /\ ~s.failed
          /\ s.at \in Nat /\ s.commit = NotInvoked
      BY <3>2, EmptyToken DEF NoToken, Tokens
    <3>4. token' = [token EXCEPT ![r] = s]
      BY <3>1
    <3> HIDE DEF s
    <3> QED BY <2>2, <2>4, <3>3, <3>4, Prepares
  <2>5. CASE pc[r] = "returning" /\ Return(r, "ready")
    BY <2>1, <2>2, <2>5, Closes DEF Return
  <2> QED BY <1>1, <2>3, <2>4, <2>5 DEF CheckPasses
<1>2. CASE CheckFails(r)
  <2>1. /\ UNCHANGED <<tombstone, allowed, caller, running, sent, blocked>>
        /\ running = NoCommit /\ Return(r, "protection_failed")
        /\ (\E t \in Times : Observed(t)) \/ Unobserved
    BY <1>2 DEF CheckFails
  <2>2. Elsewhere
    BY <1>0, <2>1, BindingMoves DEF Elsewhere, IInv
  <2> QED BY <2>1, <2>2, Closes DEF Return
<1>3. CASE Reject(r)
  <2>1. /\ UNCHANGED <<tombstone, allowed, caller, running, sent, blocked>>
        /\ running = NoCommit /\ Return(r, "rejected")
        /\ \E t \in Times : Observed(t)
    BY <1>3 DEF Reject
  <2>2. Elsewhere
    BY <1>0, <2>1, BindingMoves DEF Elsewhere, IInv
  <2> QED BY <2>1, <2>2, Closes DEF Return
<1>4. CASE HostObserves(r)
  <2>1. /\ UNCHANGED <<binding, caller, running, sent>> /\ running = NoCommit
        /\ pc[r] \in {"gate1", "gate2"}
        /\ UNCHANGED <<disposed, generation, lastTime>>
    BY <1>4 DEF HostObserves, binding
  <2>2. ASSUME NEW ok \in BOOLEAN, GateAnswer(ok), allowed' = [allowed EXCEPT ![r] = ok],
               pc' = [pc EXCEPT ![r] = IF @ = "gate1" THEN "checking1" ELSE "checking2"],
               UNCHANGED <<token, returned>>
        PROVE  IInv'
    <3>1. Elsewhere
      BY <1>0, <2>1, <2>2, GateMoves DEF Elsewhere
    <3>2. /\ (IF pc[r] = "gate1" THEN "checking1" ELSE "checking2") \in Early
          /\ pc[r] \in Early
      BY <2>1 DEF Early
    <3> QED BY <2>2, <3>1, <3>2, Advances
  <2>3. CASE Return(r, "rejected") /\ UNCHANGED <<tombstone, blocked, allowed>>
    <3>1. Elsewhere
      BY <1>0, <2>1, <2>3 DEF Elsewhere
    <3> QED BY <2>1, <2>3, <3>1, Closes DEF Return
  <2> QED BY <1>4, <2>2, <2>3 DEF HostObserves
<1>5. CASE CallbackReturns(r)
  <2>1. /\ UNCHANGED <<tombstone, allowed, caller, running, sent, blocked>>
        /\ running = NoCommit /\ pc[r] = "callback" /\ UNCHANGED <<disposed, generation, lastTime>>
    BY <1>5 DEF CallbackReturns, binding
  <2>2. Elsewhere
    BY <1>0, <2>1 DEF Elsewhere
  <2>3. CASE /\ ~token[r].pending /\ ~token[r].failed
             /\ pc' = [pc EXCEPT ![r] = "returning"]
             /\ token' = [token EXCEPT ![r] = CloseOwner(@)] /\ UNCHANGED returned
    <3>1. /\ returned' = [returned EXCEPT ![r] = returned[r]] /\ returned[r] # "ready"
          /\ returned[r] \in {"none", "ready", "rejected", "delivery_failed", "protection_failed"}
      BY <1>0, <2>1, <2>3 DEF IInv, Ownership
    <3> QED BY <2>1, <2>2, <2>3, <3>1, Closes
  <2>4. CASE Return(r, "delivery_failed")
    BY <2>1, <2>2, <2>4, Closes DEF Return
  <2> QED BY <1>5, <2>3, <2>4 DEF CallbackReturns
<1> QED BY <1>1, <1>2, <1>3, <1>4, <1>5 DEF ReadStep

LEMMA CommitStepKeeps == ASSUME IInv, NEW c \in Commits, CommitStep(c) PROVE IInv'
<1>0. /\ tombstone \in BOOLEAN /\ blocked \in [Commits -> BOOLEAN]
      /\ \A d \in Commits : blocked[d] => tombstone
      /\ authority \in [Commits -> Nat] /\ scoped \in [Commits -> BOOLEAN]
      /\ disposed \in BOOLEAN /\ generation \in Nat /\ lastTime \in Nat
  BY DEF IInv, TypeOK, Denials
<1>1. CASE CommitObserved(c)
  <2>1. /\ UNCHANGED <<tombstone, owner, scoped, running, sent, blocked>> /\ running = NoCommit
        /\ cpc[c] = "observing"
        /\ (\E t \in Times : Observed(t)) \/ Unobserved
    BY <1>1 DEF CommitObserved
  <2>2. disposed' \in BOOLEAN /\ generation' \in Nat /\ lastTime' \in Nat /\ lastTime <= lastTime'
    BY <2>1, BindingMoves DEF IInv
  <2>3. authority' \in [Commits -> Nat]
    BY <1>0, <1>1, <2>2 DEF CommitObserved
  <2>4. Aside(c)
    BY <1>0, <2>1, <2>2, <2>3 DEF Aside
  <2>a. /\ cpc[c] = "observing" /\ cpc[c] \in Waiting \cup Sending /\ running \in {NoCommit, c}
        /\ running' = NoCommit /\ running' = running /\ sent' = sent
        /\ sent' = IF cpc[c] = "sinking" THEN [sent EXCEPT ![target[c]] = @ + 1] ELSE sent
    BY <2>1 DEF Waiting
  <2>5. CASE Fail(c)
    BY <2>a, <2>4, <2>5, CommitFails
  <2>6. CASE cpc' = [cpc EXCEPT ![c] = "gating"] /\ UNCHANGED <<token, target, committed>>
    <3>1. "gating" \in {"gating", "attempting"} /\ cpc[c] \in {"observing", "gating"}
      BY <2>1
    <3> QED BY <2>a, <2>4, <2>6, <3>1, CommitWaits
  <2> QED BY <1>1, <2>5, <2>6 DEF CommitObserved
<1>2. CASE ScopeObserved(c)
  <2>1. /\ UNCHANGED <<disposed, generation, lastTime, owner, authority, running, sent>>
        /\ running = NoCommit /\ cpc[c] = "gating"
    BY <1>2 DEF ScopeObserved, binding
  <2>2. ASSUME NEW ok \in BOOLEAN, GateAnswer(ok), scoped' = [scoped EXCEPT ![c] = ok],
               cpc' = [cpc EXCEPT ![c] = "attempting"], UNCHANGED <<token, target, committed>>
        PROVE  IInv'
    <3>1. /\ tombstone' \in BOOLEAN /\ blocked' \in [Commits -> BOOLEAN]
          /\ \A d \in Commits : blocked'[d] => blocked[d] /\ tombstone'
          /\ ok => ~tombstone'
      BY <2>2, GateMoves
    <3>2. /\ scoped' \in [Commits -> BOOLEAN] /\ scoped'[c] = ok
          /\ \A d \in Commits : d # c => scoped'[d] = scoped[d]
      BY <1>0, <2>2
    <3>3. Aside(c)
      BY <1>0, <2>1, <3>1, <3>2 DEF Aside
    <3>4. scoped'[c] => ~blocked'[c]
      BY <3>1, <3>2
    <3> QED BY <2>1, <2>2, <3>3, <3>4, CommitWaits
  <2>3. CASE Fail(c) /\ UNCHANGED <<tombstone, scoped, blocked>>
    <3>1. Aside(c)
      BY <1>0, <2>1, <2>3 DEF Aside
    <3> QED BY <2>1, <2>3, <3>1, CommitFails DEF Waiting
  <2> QED BY <1>2, <2>2, <2>3 DEF ScopeObserved
<1>3. CASE AttemptFails(c)
  <2>1. /\ UNCHANGED <<tombstone, owner, authority, scoped, running, sent, blocked>>
        /\ running = NoCommit /\ cpc[c] = "attempting" /\ Unobserved /\ Fail(c)
    BY <1>3 DEF AttemptFails
  <2>2. disposed' \in BOOLEAN /\ generation' \in Nat /\ lastTime' \in Nat /\ lastTime <= lastTime'
    BY <2>1, BindingMoves DEF IInv
  <2>3. Aside(c)
    BY <1>0, <2>1, <2>2 DEF Aside
  <2> QED BY <2>1, <2>3, CommitFails DEF Waiting
<1>4. CASE Attempt(c)
  BY <1>4, AttemptKeeps
<1>5. CASE SinkReturns(c)
  <2>1. /\ UNCHANGED <<binding, tombstone, owner, authority, scoped, blocked>>
        /\ UNCHANGED <<disposed, generation, lastTime>>
        /\ cpc[c] = "sinking" /\ running = c /\ sent' = [sent EXCEPT ![target[c]] = @ + 1]
    BY <1>5 DEF SinkReturns, binding
  <2>2. CASE /\ cpc' = [cpc EXCEPT ![c] = "acknowledged"]
             /\ token' = [token EXCEPT ![target[c]].commit.state = "confirmed"]
             /\ UNCHANGED <<running, target, committed>>
    BY <2>1, <2>2, AcknowledgeKeeps
  <2>3. CASE Fail(c) /\ running' = NoCommit
    <3>1. Aside(c)
      BY <1>0, <2>1 DEF Aside
    <3> QED BY <2>1, <2>3, <3>1, CommitFails DEF Sending
  <2> QED BY <1>5, <2>2, <2>3 DEF SinkReturns
<1>6. CASE Confirm(c)
  <2>1. /\ UNCHANGED <<tombstone, owner, authority, scoped, sent, blocked>>
        /\ cpc[c] = "acknowledged" /\ running = c /\ running' = NoCommit
    BY <1>6 DEF Confirm
  <2>2. CASE Fail(c) /\ UNCHANGED binding
    <3>1. Aside(c)
      BY <1>0, <2>1, <2>2 DEF Aside, binding
    <3> QED BY <2>1, <2>2, <3>1, CommitFails DEF Sending
  <2>3. ASSUME NEW t \in Times, NEW current \in BOOLEAN, t >= lastTime, lastTime' = t,
               token' = [token EXCEPT ![target[c]].commit.confirmed = t, ![target[c]].pending = FALSE,
                                      ![target[c]].failed = @ \/ ~current],
               committed' = [committed EXCEPT ![c] = IF current THEN "committed" ELSE "failed"],
               cpc' = [cpc EXCEPT ![c] = "done"], UNCHANGED <<disposed, generation, target>>
        PROVE  IInv'
    <3> DEFINE how == IF current THEN "committed" ELSE "failed"
    <3>0. Confirms(c, t, current)
      BY <2>3 DEF Confirms
    <3>1. PICK s \in Tokens :
           /\ token' = [token EXCEPT ![target[c]] = s]
           /\ s.active = token[target[c]].active /\ s.lifecycle = "closed"
           /\ s.at = token[target[c]].at /\ s.expires = token[target[c]].expires
           /\ ~s.pending /\ (~current => s.failed)
           /\ s.commit.state = "confirmed" /\ s.commit.confirmed = t
           /\ s.commit.attempted = token[target[c]].commit.attempted
      BY <2>1, <3>0, ConfirmedToken
    <3>2. how \in {"committed", "failed"} /\ (how = "failed" => s.failed)
          /\ committed' = [committed EXCEPT ![c] = how]
      BY <2>3, <3>1
    <3> HIDE DEF how
    <3>3. UNCHANGED <<disposed, generation, target, tombstone, owner, authority, scoped, sent, blocked>>
      BY <2>1, <2>3
    <3> QED BY <2>1, <2>3, <3>1, <3>2, <3>3, ConfirmKeeps
  <2> QED BY <1>6, <2>2, <2>3 DEF Confirm
<1> QED BY <1>1, <1>2, <1>3, <1>4, <1>5, <1>6 DEF CommitStep

LEMMA Inductive == IInv /\ [Next]_vars => IInv'
<1> SUFFICES ASSUME IInv, [Next]_vars PROVE IInv' OBVIOUS
<1>1. ASSUME NEW c \in Commits, NEW r \in Reads, CallCommit(c, r) PROVE IInv'
  BY <1>1, CallTakes, CallKeeps
<1>2. CASE UNCHANGED vars
  <2>1. /\ UNCHANGED <<disposed, generation, lastTime, tombstone, pc, allowed, returned, token>>
        /\ UNCHANGED <<cpc, target, authority, scoped, committed, running, sent, blocked>>
    BY <1>2 DEF vars, binding, owner, caller
  <2>2. TypeOK' /\ Denials' /\ Ownership' /\ Single' /\ Sends'
    BY <2>1 DEF IInv, TypeOK, Denials, Ownership, Single, Sends
  <2>3. Record' /\ Callers'
    BY <2>1 DEF IInv, Record, Callers
  <2> QED BY <2>2, <2>3 DEF IInv
<1> QED BY <1>1, <1>2, ReadStepKeeps, CommitStepKeeps, DisposeKeeps DEF Next

LEMMA Always == Spec => []IInv
<1> QED BY Initially, Inductive, PTL DEF Spec

-----------------------------------------------------------------------------
(* What a step does to the records                                          *)

SameRecords == \A q \in Reads : token'[q].commit = token[q].commit

Silent == SameRecords /\ UNCHANGED <<sent, pc>>

ReadMoves(r) ==
  /\ SameRecords /\ UNCHANGED sent /\ running = NoCommit
  /\ pc[r] # "done" /\ (pc[r] = "returning" => pc'[r] = "done")
  /\ \A q \in Reads : q # r => pc'[q] = pc[q]

\* The record of r is the only one that changes.
Records(r) ==
  /\ pc[r] = "callback" /\ UNCHANGED pc
  /\ \A q \in Reads : q # r => token'[q].commit = token[q].commit /\ sent'[q] = sent[q]

AttemptRecorded(r) ==
  /\ Records(r) /\ UNCHANGED sent
  /\ token[r].commit = NotInvoked /\ token'[r].commit.state = "outcome_unknown"

SendRecorded(r) ==
  /\ Records(r) /\ sent[r] = 0 /\ sent'[r] = 1
  /\ token[r].commit.state = "outcome_unknown"
  /\ token'[r].commit.state \in {"outcome_unknown", "confirmed"}
  /\ token'[r].commit.attempted = token[r].commit.attempted
  /\ token'[r].commit.confirmed = token[r].commit.confirmed

ConfirmRecorded(r) ==
  /\ Records(r) /\ UNCHANGED sent
  /\ token[r].commit.state = "confirmed" /\ token'[r].commit.state = "confirmed"
  /\ token[r].commit.confirmed = NoTime
  /\ token'[r].commit.attempted = token[r].commit.attempted

LEMMA ReadRecords == ASSUME IInv, NEW r \in Reads, ReadStep(r) PROVE ReadMoves(r)
<1>0. /\ token \in [Reads -> Tokens] /\ pc \in [Reads -> Checks \cup {"gate1", "gate2", "callback", "done"}]
  BY DEF IInv, TypeOK, Tokens, CommitRecords
<1>1. ASSUME NEW result, Return(r, result), pc[r] # "done", running = NoCommit, UNCHANGED sent
      PROVE  ReadMoves(r)
  <2>1. SameRecords
    BY <1>0, <1>1, ClosedToken DEF Return, SameRecords
  <2> QED BY <1>0, <1>1, <2>1 DEF Return, ReadMoves
<1>2. CASE CheckPasses(r)
  <2>1. running = NoCommit /\ UNCHANGED sent /\ pc[r] \in Checks /\ pc[r] # "done"
    BY <1>2 DEF CheckPasses, Checks, After
  <2>2. CASE /\ pc[r] \in {"projection", "admission", "checking1", "checking2"}
             /\ pc' = [pc EXCEPT ![r] = After[pc[r]]] /\ UNCHANGED <<token, returned>>
    BY <1>0, <2>1, <2>2 DEF ReadMoves, SameRecords
  <2>3. CASE /\ pc[r] = "handoff" /\ pc' = [pc EXCEPT ![r] = "callback"]
             /\ \E e \in Times \cup {NoTime} :
                  token' = [token EXCEPT ![r] =
                    [NoToken EXCEPT !.active = TRUE, !.lifecycle = "available",
                                    !.at = lastTime', !.expires = e]]
    <3>1. PICK e \in Times \cup {NoTime} :
            token' = [token EXCEPT ![r] =
              [NoToken EXCEPT !.active = TRUE, !.lifecycle = "available",
                              !.at = lastTime', !.expires = e]]
      BY <2>3
    <3> DEFINE s == [NoToken EXCEPT !.active = TRUE, !.lifecycle = "available",
                                    !.at = lastTime', !.expires = e]
    <3>2. s.commit = NotInvoked
      BY EmptyToken DEF NoToken
    <3>3. token' = [token EXCEPT ![r] = s]
      BY <3>1
    <3>4. token[r].commit = NotInvoked
      BY <2>3, EmptyToken DEF IInv, Ownership, Early
    <3> HIDE DEF s
    <3>5. SameRecords
      BY <1>0, <3>2, <3>3, <3>4 DEF SameRecords
    <3> QED BY <1>0, <2>1, <2>3, <3>5 DEF ReadMoves
  <2>4. CASE pc[r] = "returning" /\ Return(r, "ready")
    BY <1>1, <2>1, <2>4
  <2> QED BY <1>2, <2>2, <2>3, <2>4 DEF CheckPasses
<1>3. CASE CheckFails(r) \/ Reject(r)
  BY <1>1, <1>3 DEF CheckFails, Reject, Checks, After
<1>4. CASE HostObserves(r)
  <2>1. running = NoCommit /\ UNCHANGED sent /\ pc[r] \in {"gate1", "gate2"}
    BY <1>4 DEF HostObserves
  <2>2. CASE /\ pc' = [pc EXCEPT ![r] = IF @ = "gate1" THEN "checking1" ELSE "checking2"]
             /\ UNCHANGED <<token, returned>>
    BY <1>0, <2>1, <2>2 DEF ReadMoves, SameRecords
  <2>3. CASE Return(r, "rejected")
    BY <1>1, <2>1, <2>3
  <2> QED BY <1>4, <2>2, <2>3 DEF HostObserves
<1>5. CASE CallbackReturns(r)
  <2>1. running = NoCommit /\ UNCHANGED sent /\ pc[r] = "callback"
    BY <1>5 DEF CallbackReturns
  <2>2. CASE pc' = [pc EXCEPT ![r] = "returning"] /\ token' = [token EXCEPT ![r] = CloseOwner(@)]
    <3>1. SameRecords
      BY <1>0, <2>2, ClosedToken DEF SameRecords
    <3> QED BY <1>0, <2>1, <2>2, <3>1 DEF ReadMoves
  <2>3. CASE Return(r, "delivery_failed")
    BY <1>1, <2>1, <2>3
  <2> QED BY <1>5, <2>2, <2>3 DEF CallbackReturns
<1> QED BY <1>2, <1>3, <1>4, <1>5 DEF ReadStep

LEMMA CommitStepRecords ==
  ASSUME IInv, NEW c \in Commits, CommitStep(c)
  PROVE  \/ Silent
         \/ target[c] \in Reads /\ AttemptRecorded(target[c])
         \/ target[c] \in Reads /\ SendRecorded(target[c])
         \/ target[c] \in Reads /\ ConfirmRecorded(target[c])
<1> DEFINE r == target[c]
<1>0. /\ token \in [Reads -> Tokens] /\ sent \in [Reads -> Nat]
  BY DEF IInv, TypeOK, Tokens, CommitRecords
<1>1. cpc[c] \in Waiting \cup Sending
  BY DEF CommitStep, CommitObserved, ScopeObserved, AttemptFails, Attempt, SinkReturns, Confirm,
         Waiting, Sending
<1>2. r \in Reads /\ token[r] \in Tokens
  BY <1>0, <1>1, Alone
<1>3. Fail(c) => SameRecords
  BY <1>0, <1>2, FailedToken DEF SameRecords
<1>4. CASE CommitObserved(c) \/ ScopeObserved(c) \/ AttemptFails(c)
  <2>1. UNCHANGED <<sent, pc>>
    BY <1>4 DEF CommitObserved, ScopeObserved, AttemptFails, owner
  <2>2. Fail(c) \/ UNCHANGED token
    BY <1>4 DEF CommitObserved, ScopeObserved, AttemptFails
  <2> QED BY <1>3, <2>1, <2>2 DEF Silent, SameRecords
<1>5. CASE Attempt(c)
  <2>1. PICK t \in Times :
          token' = [token EXCEPT
             ![r].lifecycle = "closed",
             ![r].commit = [NotInvoked EXCEPT !.state = "outcome_unknown", !.attempted = t]]
    BY <1>5 DEF Attempt
  <2>2. UNCHANGED <<sent, pc>> /\ cpc[c] = "attempting" /\ token[r].active
    BY <1>5 DEF Attempt, ReserveValid, owner
  <2>3. token[r].commit = NotInvoked /\ pc[r] = "callback"
    BY <1>2, <2>2 DEF IInv, Callers, Ownership, Waiting
  <2> DEFINE h == [NotInvoked EXCEPT !.state = "outcome_unknown", !.attempted = t]
             s == [[token[r] EXCEPT !.lifecycle = "closed"] EXCEPT !.commit = h]
  <2>4. h.state = "outcome_unknown"
    BY DEF NotInvoked
  <2>5. token' = [token EXCEPT ![r] = s]
    BY <1>0, <1>2, <2>1
  <2> HIDE DEF h
  <2>6. s.commit = h
    BY <1>2 DEF Tokens
  <2> HIDE DEF s
  <2>7. token'[r] = s /\ \A q \in Reads : q # r => token'[q] = token[q]
    BY <1>0, <1>2, <2>5
  <2>8. AttemptRecorded(r)
    BY <2>2, <2>3, <2>4, <2>6, <2>7 DEF AttemptRecorded, Records
  <2> QED BY <1>2, <2>8
<1>6. CASE SinkReturns(c)
  <2>1. /\ UNCHANGED pc /\ cpc[c] = "sinking" /\ sent' = [sent EXCEPT ![r] = @ + 1]
    BY <1>6 DEF SinkReturns, owner
  <2>2. /\ pc[r] = "callback" /\ token[r].commit.state = "outcome_unknown" /\ sent[r] = 0
    BY <2>1 DEF IInv, Callers, Sending
  <2>3. sent'[r] = 1 /\ \A q \in Reads : q # r => sent'[q] = sent[q]
    BY <1>0, <1>2, <2>1, <2>2
  <2>4. CASE token' = [token EXCEPT ![r].commit.state = "confirmed"]
    <3> DEFINE h == [token[r].commit EXCEPT !.state = "confirmed"]
               s == [token[r] EXCEPT !.commit = h]
    <3>1. token[r].commit \in CommitRecords
      BY <1>2 DEF Tokens
    <3>2. /\ h.state = "confirmed" /\ h.attempted = token[r].commit.attempted
          /\ h.confirmed = token[r].commit.confirmed
      BY <3>1 DEF CommitRecords
    <3>3. token' = [token EXCEPT ![r] = s]
      BY <1>0, <1>2, <2>4
    <3> HIDE DEF h
    <3>4. s.commit = h
      BY <1>2 DEF Tokens
    <3> HIDE DEF s
    <3>5. token'[r] = s /\ \A q \in Reads : q # r => token'[q] = token[q]
      BY <1>0, <1>2, <3>3
    <3>6. SendRecorded(r)
      BY <2>1, <2>2, <2>3, <3>2, <3>4, <3>5 DEF SendRecorded, Records
    <3> QED BY <1>2, <3>6
  <2>5. CASE Fail(c)
    <3>1. SendRecorded(r)
      BY <1>2, <1>3, <2>1, <2>2, <2>3, <2>5 DEF SendRecorded, Records, SameRecords
    <3> QED BY <1>2, <3>1
  <2> QED BY <1>6, <2>4, <2>5 DEF SinkReturns
<1>7. CASE Confirm(c)
  <2>1. UNCHANGED <<sent, pc>> /\ cpc[c] = "acknowledged"
    BY <1>7 DEF Confirm, owner
  <2>2. /\ pc[r] = "callback" /\ token[r].commit.state = "confirmed"
        /\ token[r].commit.confirmed = NoTime
    BY <2>1 DEF IInv, Callers, Sending
  <2>3. CASE Fail(c)
    BY <1>3, <2>1, <2>3 DEF Silent
  <2>4. ASSUME NEW t \in Times, NEW current \in BOOLEAN, Confirms(c, t, current)
        PROVE  ConfirmRecorded(r)
    <3>1. PICK s \in Tokens :
           /\ token' = [token EXCEPT ![r] = s]
           /\ s.commit.state = "confirmed" /\ s.commit.confirmed = t
           /\ s.commit.attempted = token[r].commit.attempted
      BY <2>1, <2>4, ConfirmedToken
    <3>2. token'[r] = s /\ \A q \in Reads : q # r => token'[q] = token[q]
      BY <1>0, <1>2, <3>1
    <3> QED BY <2>1, <2>2, <3>1, <3>2 DEF ConfirmRecorded, Records
  <2>5. Fail(c) \/ \E t \in Times, current \in BOOLEAN : Confirms(c, t, current)
    BY <1>7 DEF Confirm, Confirms
  <2> QED BY <1>2, <2>3, <2>4, <2>5
<1> QED BY <1>4, <1>5, <1>6, <1>7 DEF CommitStep

LEMMA StepRecords ==
  ASSUME IInv, [Next]_vars
  PROVE  \/ Silent
         \/ \E r \in Reads :
              \/ ReadMoves(r) \/ AttemptRecorded(r) \/ SendRecorded(r) \/ ConfirmRecorded(r)
<1>1. ASSUME NEW c \in Commits, NEW r \in Reads, CallCommit(c, r) PROVE Silent
  <2>1. PICK s \in Tokens, p \in {"observing", "done"}, how \in {"none", "refused", "failed"} :
          Calls(c, r, s, p, how)
    BY <1>1, CallTakes
  <2>2. token \in [Reads -> Tokens]
    BY DEF IInv, TypeOK, Tokens, CommitRecords
  <2> QED BY <2>1, <2>2 DEF Calls, Silent, SameRecords
<1>2. CASE Dispose \/ UNCHANGED vars
  BY <1>2 DEF Dispose, vars, owner, Silent, SameRecords
<1> QED BY <1>1, <1>2, ReadRecords, CommitStepRecords DEF Next

-----------------------------------------------------------------------------
(* Theorems                                                                 *)

\* Every state a protected delivery reaches is well typed.
THEOREM TypeCorrect == Spec => []TypeOK
<1> QED BY Always, PTL DEF IInv

\* The sink is entered only inside the callback that owns the body, with the attempt on
\* record: protected-delivery.js commitProtectedTransport.
THEOREM SendsAreOwned == Spec => []SendOnlyWhileOwned
<1>1. IInv => SendOnlyWhileOwned
  <2> SUFFICES ASSUME IInv, NEW c \in Commits, cpc[c] \in Sending
               PROVE  /\ running = c
                      /\ pc[target[c]] = "callback" /\ token[target[c]].active
                      /\ token[target[c]].commit.state # "not_invoked"
    BY DEF SendOnlyWhileOwned, Sending
  <2>1. target[c] \in Reads
    BY Alone
  <2>2. running = c /\ pc[target[c]] = "callback"
    BY DEF IInv, Callers
  <2>3. token[target[c]].commit.state # "not_invoked"
    BY DEF IInv, Callers, Sending
  <2> QED BY <2>1, <2>2, <2>3 DEF IInv, Ownership
<1> QED BY <1>1, Always, PTL

\* A Read returns ready only when no commit of its delivery is unfinished or failed.
THEOREM ReadyIsHonest == Spec => []ReadyHidesNoFailedCommit
<1>1. IInv => ReadyHidesNoFailedCommit
  <2> SUFFICES ASSUME IInv, NEW r \in Reads, NEW c \in Commits, returned[r] = "ready", target[c] = r
               PROVE  committed[c] \in {"refused", "committed"}
    BY DEF ReadyHidesNoFailedCommit
  <2>1. ~token[r].pending /\ ~token[r].failed /\ r # NoRead
    BY ConstantsAssumption DEF IInv, Ownership
  <2>2. cpc[c] = "done"
    BY <2>1 DEF IInv, TypeOK, Callers, Waiting, Sending
  <2> QED BY <2>1, <2>2 DEF IInv, TypeOK, Callers
<1> QED BY <1>1, Always, PTL

\* The Host's time, the attempt and the confirmation of a disclosure are in order, and
\* the attempt precedes the expiry of every handle in the body.
THEOREM TimesOrdered == Spec => []DisclosureTimesOrdered
<1>1. IInv => DisclosureTimesOrdered
  BY DEF IInv, Record, DisclosureTimesOrdered
<1> QED BY <1>1, Always, PTL

\* A denial that stood when the commit was called, and that nobody lifted, keeps the
\* body from the sink.
THEOREM DenialBlocksSend == Spec => []StandingDenialBlocksSend
<1>1. IInv => StandingDenialBlocksSend
  BY DEF IInv, Denials, StandingDenialBlocksSend
<1> QED BY <1>1, Always, PTL

\* No later step rewrites the record of an attempt or of its confirmation.
THEOREM FactsKept == Spec => RecordedFactsAreKept
<1>1. ASSUME IInv, [Next]_vars
      PROVE  \A r \in Reads :
               /\ token[r].commit.state = "confirmed" => token'[r].commit.state = "confirmed"
               /\ token[r].commit.attempted # NoTime =>
                    token'[r].commit.attempted = token[r].commit.attempted
               /\ token[r].commit.confirmed # NoTime =>
                    token'[r].commit.confirmed = token[r].commit.confirmed
  <2>1. CASE SameRecords
    BY <2>1 DEF SameRecords
  <2>2. ASSUME NEW r \in Reads,
               AttemptRecorded(r) \/ SendRecorded(r) \/ ConfirmRecorded(r)
        PROVE  /\ \A q \in Reads : q # r => token'[q].commit = token[q].commit
               /\ token[r].commit.state = "confirmed" => token'[r].commit.state = "confirmed"
               /\ token[r].commit.attempted # NoTime =>
                    token'[r].commit.attempted = token[r].commit.attempted
               /\ token[r].commit.confirmed # NoTime =>
                    token'[r].commit.confirmed = token[r].commit.confirmed
    BY <2>2, EmptyToken DEF AttemptRecorded, SendRecorded, ConfirmRecorded, Records
  <2>3. SameRecords \/ \E r \in Reads :
          AttemptRecorded(r) \/ SendRecorded(r) \/ ConfirmRecorded(r)
    BY <1>1, StepRecords DEF Silent, ReadMoves
  <2> QED BY <2>1, <2>2, <2>3
<1>2. ASSUME IInv, [Next]_vars
      PROVE  [\A r \in Reads :
               /\ token[r].commit.state = "confirmed" => token'[r].commit.state = "confirmed"
               /\ token[r].commit.attempted # NoTime =>
                    token'[r].commit.attempted = token[r].commit.attempted
               /\ token[r].commit.confirmed # NoTime =>
                    token'[r].commit.confirmed = token[r].commit.confirmed]_vars
  BY <1>1, <1>2
<1> QED BY <1>2, Always, PTL DEF Spec, RecordedFactsAreKept

-----------------------------------------------------------------------------
(* The disclosure history                                                   *)

Histories == [r \in Reads |-> token[r].commit.state]
Entered == [r \in Reads |-> sent[r] > 0]
Opened == [r \in Reads |-> pc[r] \notin {"returning", "done"}]

LEMMA MapsInitially == Init => History!HInit
<1> SUFFICES ASSUME Init PROVE History!HInit OBVIOUS
<1>1. \A r \in Reads : token[r].commit.state = "not_invoked" /\ sent[r] = 0 /\ pc[r] = "projection"
  BY EmptyToken DEF Init
<1>2. [r \in Reads |-> token[r].commit.state] = [d \in Reads |-> "not_invoked"]
  BY <1>1
<1>3. [r \in Reads |-> sent[r] > 0] = [d \in Reads |-> FALSE]
  <2>1. (0 > 0) = FALSE
    OBVIOUS
  <2>2. \A r \in Reads : (sent[r] > 0) = FALSE
    BY <1>1, <2>1, Zenon
  <2> QED BY <2>2, Zenon
<1>4. [r \in Reads |-> pc[r] \notin {"returning", "done"}] = [d \in Reads |-> TRUE]
  <2>1. \A r \in Reads : (pc[r] \notin {"returning", "done"}) = TRUE
    BY <1>1
  <2> QED BY <2>1, Zenon
<1> QED BY <1>2, <1>3, <1>4 DEF History!HInit

LEMMA MapsStep == IInv /\ [Next]_vars => [History!HNext]_(History!hvars)
<1> SUFFICES ASSUME IInv, [Next]_vars PROVE [History!HNext]_(History!hvars)
  OBVIOUS
<1>0. sent \in [Reads -> Nat]
  BY DEF IInv, TypeOK
<1>1. CASE Silent
  <2>1. Histories' = Histories /\ Entered' = Entered /\ Opened' = Opened
    BY <1>1 DEF Silent, SameRecords, Histories, Entered, Opened
  <2> QED BY <2>1 DEF Histories, Entered, Opened, History!hvars
<1>2. ASSUME NEW r \in Reads, ReadMoves(r) PROVE [History!HNext]_(History!hvars)
  <2>1. Histories' = Histories /\ Entered' = Entered
    BY <1>2 DEF ReadMoves, SameRecords, Histories, Entered
  <2>2. CASE Opened[r] /\ ~Opened'[r]
    <3>1. Opened' = [Opened EXCEPT ![r] = FALSE]
      BY <1>2, <2>2 DEF ReadMoves, Opened
    <3>2. Histories[r] = "outcome_unknown" => Entered[r]
      <4>1. running \notin Commits
        BY <1>2, ConstantsAssumption DEF ReadMoves
      <4> QED BY <4>1 DEF IInv, Sends, Histories, Entered
    <3>3. History!SettleOwner(r)
      BY <2>1, <2>2, <3>1, <3>2 DEF History!SettleOwner, Histories, Entered, Opened
    <3> QED BY <3>3 DEF History!HNext
  <2>3. CASE ~(Opened[r] /\ ~Opened'[r])
    <3>3. \A q \in Reads : (pc'[q] \notin {"returning", "done"}) <=> (pc[q] \notin {"returning", "done"})
      <4>1. ~(pc[r] \notin {"returning", "done"} /\ pc'[r] \in {"returning", "done"})
        BY <2>3, Zenon DEF Opened
      <4> QED BY <1>2, <4>1 DEF ReadMoves
    <3>2. \A q \in Reads : (pc'[q] \notin {"returning", "done"}) = (pc[q] \notin {"returning", "done"})
      BY <3>3, Zenon
    <3>1. Opened' = Opened
      BY <3>2, Zenon DEF Opened
    <3> QED BY <2>1, <3>1 DEF Histories, Entered, Opened, History!hvars
  <2> QED BY <2>2, <2>3
<1>3. ASSUME NEW r \in Reads, AttemptRecorded(r) PROVE [History!HNext]_(History!hvars)
  <2>1. Histories' = [Histories EXCEPT ![r] = "outcome_unknown"]
    BY <1>3 DEF AttemptRecorded, Records, Histories
  <2>2. Entered' = Entered /\ Opened' = Opened /\ Opened[r] /\ Histories[r] = "not_invoked"
    BY <1>3, EmptyToken DEF AttemptRecorded, Records, Histories, Entered, Opened
  <2>3. History!Attempt(r)
    BY <2>1, <2>2 DEF History!Attempt, Histories, Entered, Opened
  <2> QED BY <2>3 DEF History!HNext
<1>4. ASSUME NEW r \in Reads, SendRecorded(r) PROVE [History!HNext]_(History!hvars)
  <2>1. Histories' = [Histories EXCEPT ![r] = token'[r].commit.state]
    BY <1>4 DEF SendRecorded, Records, Histories
  <2>2. Entered' = [Entered EXCEPT ![r] = TRUE]
    <3>1. sent'[r] > 0 /\ \A q \in Reads : q # r => sent'[q] = sent[q]
      BY <1>4 DEF SendRecorded, Records
    <3>2. \A q \in Reads : (sent'[q] > 0) = IF q = r THEN TRUE ELSE (sent[q] > 0)
      <4> TAKE q \in Reads
      <4>1. CASE q = r
        <5>1. sent'[q] > 0
          BY <3>1, <4>1
        <5> QED BY <4>1, <5>1, Zenon
      <4>2. CASE q # r
        BY <3>1, <4>2, Zenon
      <4> QED BY <4>1, <4>2
    <3> QED BY <3>2, Zenon DEF Entered
  <2>3. Opened' = Opened /\ Opened[r] /\ Histories[r] = "outcome_unknown" /\ ~Entered[r]
    <3>1. /\ UNCHANGED pc /\ pc[r] = "callback" /\ sent[r] = 0
          /\ token[r].commit.state = "outcome_unknown"
      BY <1>4 DEF SendRecorded, Records
    <3>2. ~(sent[r] > 0)
      BY <3>1
    <3>3. ~Entered[r]
      BY <3>2, Zenon DEF Entered
    <3> QED BY <3>1, <3>3 DEF Histories, Opened
  <2>4. token'[r].commit.state \in {"outcome_unknown", "confirmed"}
    BY <1>4 DEF SendRecorded
  <2>5. History!Send(r)
    BY <2>1, <2>2, <2>3, <2>4 DEF History!Send, Histories, Entered, Opened
  <2> QED BY <2>5 DEF History!HNext
<1>5. ASSUME NEW r \in Reads, ConfirmRecorded(r) PROVE [History!HNext]_(History!hvars)
  <2>1. Histories' = Histories /\ Entered' = Entered /\ Opened' = Opened
    BY <1>5 DEF ConfirmRecorded, Records, Histories, Entered, Opened
  <2> QED BY <2>1 DEF Histories, Entered, Opened, History!hvars
<1> QED BY <1>1, <1>2, <1>3, <1>4, <1>5, StepRecords

\* Each prepared delivery is a disclosure history: at most one send, on record before
\* it happens, and none after the owning Read has settled.
THEOREM RefinesDisclosureHistory == Spec => ImplementsDisclosureHistory
<1>1. Spec => History!HInit
  BY MapsInitially DEF Spec
<1> QED BY <1>1, MapsStep, Always, PTL DEF Spec, ImplementsDisclosureHistory, History!HSpec

\* The run's invariant of one operation's Reads and commits (protected-delivery.js) holds for
\* any number of them.
THEOREM DeliveryInvariantHolds == Spec => []DeliveryInvariant
<1>1. TypeOK /\ SendOnlyWhileOwned /\ ReadyHidesNoFailedCommit /\ DisclosureTimesOrdered => DeliveryInvariant
  BY DEF DeliveryInvariant
<1>. QED  BY <1>1, TypeCorrect, SendsAreOwned, ReadyIsHonest, TimesOrdered, PTL

-----------------------------------------------------------------------------
(* Nothing repeats                                                          *)

\* Where a Read and a commit are on their way.
ReadPhases == [projection |-> 9, admission |-> 8, gate1 |-> 7, checking1 |-> 6, gate2 |-> 5,
               checking2 |-> 4, handoff |-> 3, callback |-> 2, returning |-> 1, done |-> 0]
CommitPhases == [idle |-> 6, observing |-> 5, gating |-> 4, attempting |-> 3,
                 sinking |-> 2, acknowledged |-> 1, done |-> 0]

ReadAdvances(r) ==
  ReadPhases[pc'[r]] < ReadPhases[pc[r]] /\ \A q \in Reads \ {r} : pc'[q] = pc[q]
CommitAdvances(c) ==
  CommitPhases[cpc'[c]] < CommitPhases[cpc[c]] /\ \A d \in Commits \ {c} : cpc'[d] = cpc[d]

\* Every step takes one call one phase nearer to its end, or disposes, and takes no call
\* back.  So no order of settlements, commits and callbacks goes round in a circle: a
\* Read takes at most nine steps, a commit at most six, and disposal one.
EveryStepAdvances ==
  \/ UNCHANGED <<cpc, disposed>> /\ \E r \in Reads : ReadAdvances(r)
  \/ UNCHANGED <<pc, disposed>> /\ \E c \in Commits : CommitAdvances(c)
  \/ UNCHANGED <<pc, cpc>> /\ ~disposed /\ disposed'

LEMMA ReadStepAdvances ==
  ASSUME TypeOK, NEW r \in Reads, ReadStep(r)
  PROVE  ReadAdvances(r) /\ UNCHANGED <<cpc, disposed>>
<1> USE DEF TypeOK, ReadPhases, Checks, After, ReadAdvances, caller
<1>0. (\E t \in Times : Observed(t)) \/ Unobserved => UNCHANGED disposed
  BY DEF Observed, Unobserved, binding
<1>1. CASE CheckPasses(r)
  <2>1. UNCHANGED <<cpc, disposed>>
    BY <1>0, <1>1 DEF CheckPasses
  <2>2. \/ pc[r] \in {"projection", "admission", "checking1", "checking2"}
           /\ pc' = [pc EXCEPT ![r] = After[pc[r]]]
        \/ pc[r] = "handoff" /\ pc' = [pc EXCEPT ![r] = "callback"]
        \/ pc[r] = "returning" /\ pc' = [pc EXCEPT ![r] = "done"]
    BY <1>1 DEF CheckPasses, Return
  <2> QED BY <2>1, <2>2
<1>2. CASE CheckFails(r)
  BY <1>0, <1>2 DEF CheckFails, Return
<1>3. CASE Reject(r)
  BY <1>0, <1>3 DEF Reject, Return
<1>4. CASE HostObserves(r)
  BY <1>4 DEF HostObserves, Return, binding
<1>5. CASE CallbackReturns(r)
  BY <1>5 DEF CallbackReturns, Return, binding
<1> QED BY <1>1, <1>2, <1>3, <1>4, <1>5 DEF ReadStep

LEMMA CommitStepAdvances ==
  ASSUME TypeOK, NEW c \in Commits, CommitStep(c)
  PROVE  CommitAdvances(c) /\ UNCHANGED <<pc, disposed>>
<1> USE DEF TypeOK, CommitPhases, CommitAdvances, owner
<1>0. (\E t \in Times : Observed(t)) \/ Unobserved => UNCHANGED disposed
  BY DEF Observed, Unobserved, binding
<1>1. CASE CommitObserved(c)
  BY <1>0, <1>1 DEF CommitObserved, Fail
<1>2. CASE ScopeObserved(c)
  BY <1>2 DEF ScopeObserved, Fail, binding
<1>3. CASE AttemptFails(c)
  BY <1>0, <1>3 DEF AttemptFails, Fail
<1>4. CASE Attempt(c)
  BY <1>4 DEF Attempt
<1>5. CASE SinkReturns(c)
  BY <1>5 DEF SinkReturns, Fail, binding
<1>6. CASE Confirm(c)
  <2>1. cpc[c] = "acknowledged" /\ cpc' = [cpc EXCEPT ![c] = "done"] /\ UNCHANGED <<pc, disposed>>
    BY <1>6 DEF Confirm, Fail, binding
  <2> QED BY <2>1
<1> QED BY <1>1, <1>2, <1>3, <1>4, <1>5, <1>6 DEF CommitStep

\* The Reads and commits of one operation come to an end: see EveryStepAdvances.
THEOREM NoStepRepeats == Spec => [][EveryStepAdvances]_vars
<1>1. TypeOK /\ [Next]_vars => [EveryStepAdvances]_vars
  <2> SUFFICES ASSUME TypeOK, Next PROVE EveryStepAdvances
    OBVIOUS
  <2>1. ASSUME NEW r \in Reads, ReadStep(r) PROVE EveryStepAdvances
    BY <2>1, ReadStepAdvances DEF EveryStepAdvances
  <2>2. ASSUME NEW c \in Commits, CommitStep(c) PROVE EveryStepAdvances
    BY <2>2, CommitStepAdvances DEF EveryStepAdvances
  <2>3. ASSUME NEW c \in Commits, NEW r \in Reads, CallCommit(c, r) PROVE EveryStepAdvances
    <3>1. CommitAdvances(c)
      BY <2>3 DEF CallCommit, CommitAdvances, CommitPhases, TypeOK
    <3> QED BY <2>3, <3>1 DEF CallCommit, EveryStepAdvances, binding, owner
  <2>4. CASE Dispose
    BY <2>4 DEF Dispose, EveryStepAdvances, owner, caller
  <2> QED BY <2>1, <2>2, <2>3, <2>4 DEF Next
<1> QED BY <1>1, TypeCorrect, PTL DEF Spec

-----------------------------------------------------------------------------
(* Protected sources                                                        *)

\* The phase of a token tells what is on record of its commit, and whether its sink runs.
PhaseTells ==
  /\ delivery.commit = (CASE delivery.phase \in {"open", "closed"} -> "not_invoked"
                          [] delivery.phase \in {"pending", "failed"} -> "outcome_unknown"
                          [] delivery.phase = "committed" -> "confirmed")
  /\ delivery.phase = "open" \/ delivery.phase = "pending" => ~delivery.closed
  /\ delivery.phase = "pending" <=> \E c \in SourceCommits : cstage[c] = "sink"
  /\ \A c, d \in SourceCommits : cstage[c] = "sink" /\ cstage[d] = "sink" => c = d

\* A token ends with the callback, and the record with the opening.
EndsFollow ==
  /\ closed <=> stage = "done"
  /\ delivery.closed <=> stage \in {"returning", "done"}
  /\ report.status = "none" <=> stage # "done"

\* A context is given away once, to the call that works with it.
ContextGiven ==
  /\ stage \in {"admitting", "observing", "checking"} => context = "none"
  /\ \A r \in Revisions :
       /\ rstage[r] \notin {"idle", "rejected"} => context = "reserved"
       /\ rstage[r] = "asking" => kind[r] = "produce"

\* No check of a revision is ahead of a report that a source was delivered.
ReportComesLast ==
  report.status = "source_delivered" => \A r \in Revisions : rstage[r] # "fresh"

SourceIInv ==
  /\ SourceTypeOK /\ ReportIsFinal /\ ContextServesOnce
  /\ PhaseTells /\ EndsFollow /\ ContextGiven /\ ReportComesLast

DropsLate == \A r \in Revisions :
  /\ closed \/ wall > Deadline
  /\ rstage[r] \in {"idle", "observing", "queued", "asking"}
  => rstage'[r] \in {rstage[r], "rejected"}

NoneAfterReport == \A r \in Revisions :
  rstage'[r] = "produced" /\ report.status = "source_delivered" => rstage[r] = "produced"

KeepsAuthority ==
  stage # "observing" => host'.expires = host.expires /\ host'.last >= host.last

\* What no step does to a revision.
SourceStep == DropsLate /\ NoneAfterReport /\ KeepsAuthority

LEMMA SourceInitially == ASSUME SourceInit PROVE SourceIInv
<1> USE DEF SourceInit
<1>1. SourceTypeOK
  <2>1. wall \in 0..MaxTime
    BY SourceAssumption
  <2>2. queue \in Seq(Observers)
    OBVIOUS
  <2>3. /\ report \in [status: {"none", "source_failed", "source_delivered"}, commit: States]
        /\ host \in [last: HostTimes \cup {0}, expires: HostTimes \cup {0}]
        /\ delivery \in [phase: {"open", "pending", "committed", "failed", "closed"},
                         closed: BOOLEAN, commit: States]
    BY DEF States
  <2>4. /\ cstage \in [SourceCommits -> {"idle", "scope", "queued", "sink", "committed", "failed"}]
        /\ rstage \in [Revisions -> {"idle", "observing", "queued", "fresh", "asking",
                            "valid", "produced", "rejected"}]
        /\ kind \in [Revisions -> {"preview", "produce"}]
        /\ secrets \in [Revisions -> BOOLEAN]
    OBVIOUS
  <2> QED BY <2>1, <2>2, <2>3, <2>4 DEF SourceTypeOK
<1>2. ReportIsFinal /\ ContextServesOnce
  BY DEF ReportIsFinal, ContextServesOnce
<1>3. PhaseTells /\ EndsFollow /\ ContextGiven /\ ReportComesLast
  BY DEF PhaseTells, EndsFollow, ContextGiven, ReportComesLast
<1> QED BY <1>1, <1>2, <1>3 DEF SourceIInv

\* The Host's authority as it was.
LEMMA AuthorityStands ==
  ASSUME SourceTypeOK PROVE host.last >= host.last
<1>1. \A t \in HostTimes \cup {0} : t >= t
  BY SourceAssumption
<1>2. host.last \in HostTimes \cup {0}
  BY DEF SourceTypeOK
<1> QED BY <1>1, <1>2

\* What an answered observe and a new one leave of the queue.
LEMMA QueueMoves ==
  ASSUME SourceTypeOK, NEW c \in Observers
  PROVE  /\ Answered(c) => queue' \in Seq(Observers)
            /\ \A r \in Revisions : rstage[r] # "fresh"
         /\ Observe(c) => queue' \in Seq(Observers)
<1>1. queue \in Seq(Observers)
  BY DEF SourceTypeOK
<1>2. queue # << >> => Tail(queue) \in Seq(Observers)
  BY <1>1
<1>3. Append(queue, c) \in Seq(Observers)
  BY <1>1
<1> QED BY <1>2, <1>3 DEF Answered, Observe

\* The state of the token is a matter of its phase alone.
LEMMA ClosedDelivery ==
  ASSUME SourceIInv, Quiet
  PROVE  /\ CloseDelivery(delivery) \in
              [phase: {"committed", "failed", "closed"}, closed: {TRUE}, commit: States]
         /\ CloseDelivery(delivery).commit = delivery.commit
         /\ CloseDelivery(delivery).phase =
              (IF delivery.phase = "open" THEN "closed" ELSE delivery.phase)
<1>1. delivery.phase # "pending"
  BY DEF SourceIInv, PhaseTells, Quiet
<1> QED BY <1>1 DEF SourceIInv, SourceTypeOK, CloseDelivery

-----------------------------------------------------------------------------
(* The steps of the opening                                                 *)

\* The opening answers, and its callback's token and context end with it.
LEMMA FinishKeeps ==
  ASSUME SourceIInv, Quiet, stage # "done",
         NEW status \in {"source_failed", "source_delivered"},
         Finish(status), queue' \in Seq(Observers),
         status = "source_delivered" => \A r \in Revisions : rstage[r] # "fresh"
  PROVE  SourceIInv' /\ SourceStep
<1> USE DEF SourceIInv
<1>1. /\ stage' = "done" /\ closed' = TRUE /\ delivery' = CloseDelivery(delivery)
      /\ report' = [status |-> status, commit |-> delivery.commit]
      /\ context' = IF context = "available" THEN "closed" ELSE context
      /\ UNCHANGED <<wall, host, cstage, rstage, kind, secrets>>
  BY DEF Finish
<1>2. SourceTypeOK'
  BY <1>1, ClosedDelivery DEF SourceTypeOK
<1>3. ReportIsFinal' /\ ContextServesOnce'
  <2>1. delivery'.commit = delivery.commit /\ report'.commit = delivery.commit
    BY <1>1, ClosedDelivery
  <2> QED BY <1>1, <2>1 DEF ReportIsFinal, ContextServesOnce
<1>4. PhaseTells'
  BY <1>1, ClosedDelivery DEF PhaseTells, Quiet
<1>5. EndsFollow' /\ ContextGiven' /\ ReportComesLast'
  BY <1>1, ClosedDelivery DEF EndsFollow, ContextGiven, ReportComesLast, SourceTypeOK
<1>6. SourceStep
  BY <1>1, AuthorityStands DEF SourceStep, DropsLate, NoneAfterReport, KeepsAuthority,
       SourceTypeOK
<1> QED BY <1>2, <1>3, <1>4, <1>5, <1>6

\* The opening goes on to its next await.
LEMMA OpeningGoes ==
  ASSUME SourceIInv, queue' \in Seq(Observers),
         \/ stage = "admitting" /\ stage' = "observing" /\ UNCHANGED <<host, context, delivery>>
         \/ /\ stage = "observing" /\ stage' = "checking" /\ UNCHANGED <<context, delivery>>
            /\ host' \in [last: HostTimes \cup {0}, expires: HostTimes \cup {0}]
         \/ /\ stage = "checking" /\ stage' = "delivering" /\ context' = "available"
            /\ UNCHANGED <<host, delivery>>
         \/ /\ stage = "delivering" /\ stage' = "returning" /\ Quiet
            /\ delivery' = CloseDelivery(delivery) /\ UNCHANGED <<host, context>>,
         UNCHANGED <<wall, report, closed, cstage, rstage, kind, secrets>>
  PROVE  SourceIInv' /\ SourceStep
<1> USE DEF SourceIInv
<1>1. SourceTypeOK'
  BY ClosedDelivery DEF SourceTypeOK
<1>2. ReportIsFinal' /\ ContextServesOnce'
  BY DEF ReportIsFinal, ContextServesOnce
<1>3. PhaseTells'
  <2>1. CASE UNCHANGED delivery
    BY <2>1 DEF PhaseTells
  <2>2. CASE Quiet /\ delivery' = CloseDelivery(delivery)
    BY <2>2, ClosedDelivery DEF PhaseTells, Quiet
  <2> QED BY <2>1, <2>2
<1>4. EndsFollow' /\ ContextGiven' /\ ReportComesLast'
  BY ClosedDelivery DEF EndsFollow, ContextGiven, ReportComesLast, SourceTypeOK
<1>5. SourceStep
  BY AuthorityStands DEF SourceStep, DropsLate, NoneAfterReport, KeepsAuthority, SourceTypeOK
<1> QED BY <1>1, <1>2, <1>3, <1>4, <1>5

LEMMA OpeningKeeps ==
  ASSUME SourceIInv,
         OpeningStep PROVE SourceIInv' /\ SourceStep
<1> USE QueueMoves, FinishKeeps, OpeningGoes DEF Observers
<1>0. SourceTypeOK /\ queue \in Seq(Observers)
  BY DEF SourceIInv, SourceTypeOK
<1>1. CASE Admitted
  BY <1>0, <1>1 DEF Admitted
<1>2. CASE HostAuthorizes
  <2>1. CASE Finish("source_failed") /\ UNCHANGED queue
    BY <1>0, <1>2, <2>1 DEF HostAuthorizes
  <2>2. CASE ~(Finish("source_failed") /\ UNCHANGED queue)
    BY <1>0, <1>2, <2>2 DEF HostAuthorizes
  <2> QED BY <2>1, <2>2
<1>3. CASE HandOff
  BY <1>0, <1>3 DEF HandOff
<1>4. CASE DeliverSettles
  BY <1>0, <1>4 DEF DeliverSettles
<1>5. CASE ReturnSource
  BY <1>0, <1>5 DEF ReturnSource
<1> QED BY <1>1, <1>2, <1>3, <1>4, <1>5 DEF OpeningStep

-----------------------------------------------------------------------------
(* The steps of a commit                                                    *)

\* A commit that does not reach the sink leaves the token as it is.
LEMMA CommitGoesOn ==
  ASSUME SourceIInv, NEW c \in SourceCommits, cstage[c] # "sink",
         NEW to \in {"scope", "queued", "failed"}, CommitGoes(c, to),
         UNCHANGED delivery, queue' \in Seq(Observers)
  PROVE  SourceIInv' /\ SourceStep
<1> USE DEF SourceIInv, CommitGoes
<1>1. SourceTypeOK'
  BY DEF SourceTypeOK
<1>2. ReportIsFinal' /\ ContextServesOnce'
  BY DEF ReportIsFinal, ContextServesOnce
<1>3. PhaseTells'
  BY DEF PhaseTells, SourceTypeOK
<1>4. EndsFollow' /\ ContextGiven' /\ ReportComesLast'
  BY DEF EndsFollow, ContextGiven, ReportComesLast
<1>5. SourceStep
  BY AuthorityStands DEF SourceStep, DropsLate, NoneAfterReport, KeepsAuthority, SourceTypeOK
<1> QED BY <1>1, <1>2, <1>3, <1>4, <1>5

\* The sink is entered by one commit and for one token, while its callback is open.
LEMMA SinkEntered ==
  ASSUME SourceIInv, NEW c \in SourceCommits, Quiet,
         CommitGoes(c, "sink"),
         ~closed, MayBegin, queue' \in Seq(Observers),
         delivery' = [delivery EXCEPT !.phase = "pending", !.commit = "outcome_unknown"]
  PROVE  SourceIInv' /\ SourceStep
<1> USE DEF SourceIInv, CommitGoes
<1>1. SourceTypeOK'
  BY DEF SourceTypeOK, States
<1>2. ReportIsFinal' /\ ContextServesOnce'
  BY DEF ReportIsFinal, ContextServesOnce, EndsFollow
<1>3. PhaseTells'
  BY DEF PhaseTells, SourceTypeOK, Quiet, MayBegin
<1>4. EndsFollow' /\ ContextGiven' /\ ReportComesLast'
  BY DEF EndsFollow, ContextGiven, ReportComesLast, SourceTypeOK
<1>5. SourceStep
  BY AuthorityStands DEF SourceStep, DropsLate, NoneAfterReport, KeepsAuthority, SourceTypeOK
<1> QED BY <1>1, <1>2, <1>3, <1>4, <1>5

LEMMA SinkLeft ==
  ASSUME SourceIInv, NEW c \in SourceCommits, SinkAnswers(c)
  PROVE  SourceIInv' /\ SourceStep
<1> USE DEF SourceIInv
<1>1. /\ cstage[c] = "sink" /\ delivery.phase = "pending" /\ ~delivery.closed /\ stage # "done"
  BY DEF SinkAnswers, PhaseTells, EndsFollow, SourceTypeOK
<1>2. /\ UNCHANGED <<wall, stage, report, host, closed, context, rstage, kind, secrets, queue>>
      /\ \/ /\ cstage' = [cstage EXCEPT ![c] = "failed"]
            /\ delivery' = [delivery EXCEPT !.phase = "failed"]
         \/ /\ cstage' = [cstage EXCEPT ![c] = "committed"]
            /\ delivery' = [delivery EXCEPT !.phase = "committed", !.commit = "confirmed"]
  BY DEF SinkAnswers, CommitGoes
<1>3. /\ delivery' \in [phase: {"committed", "failed"}, closed: {FALSE}, commit: States]
      /\ delivery'.phase = "failed" => delivery'.commit = "outcome_unknown"
      /\ delivery'.phase = "committed" => delivery'.commit = "confirmed"
      /\ cstage' \in [SourceCommits -> {"idle", "scope", "queued", "sink", "committed", "failed"}]
      /\ \A d \in SourceCommits : cstage'[d] # "sink"
  <2>1. /\ \A d \in SourceCommits \ {c} : cstage[d] # "sink"
        /\ cstage \in [SourceCommits -> {"idle", "scope", "queued", "sink", "committed", "failed"}]
        /\ delivery \in [phase: {"pending"}, closed: {FALSE}, commit: {"outcome_unknown"}]
    BY <1>1 DEF PhaseTells, SourceTypeOK
  <2>2. /\ cstage' \in [SourceCommits -> {"idle", "scope", "queued", "sink", "committed", "failed"}]
        /\ \A d \in SourceCommits : cstage'[d] # "sink"
    BY <1>2, <2>1
  <2>3. CASE delivery' = [delivery EXCEPT !.phase = "failed"]
    BY <2>1, <2>2, <2>3 DEF States
  <2>4. CASE delivery' = [delivery EXCEPT !.phase = "committed", !.commit = "confirmed"]
    BY <2>1, <2>2, <2>4 DEF States
  <2> QED BY <1>2, <2>3, <2>4
<1>4. SourceTypeOK'
  BY <1>2, <1>3 DEF SourceTypeOK
<1>8. ReportIsFinal' /\ ContextServesOnce'
  BY <1>1, <1>2 DEF ReportIsFinal, ContextServesOnce
<1>5. PhaseTells'
  BY <1>3 DEF PhaseTells
<1>6. EndsFollow' /\ ContextGiven' /\ ReportComesLast'
  BY <1>1, <1>2 DEF EndsFollow, ContextGiven, ReportComesLast, SourceTypeOK
<1>7. SourceStep
  BY <1>2, AuthorityStands DEF SourceStep, DropsLate, NoneAfterReport, KeepsAuthority,
       SourceTypeOK
<1> QED BY <1>4, <1>5, <1>6, <1>7, <1>8

LEMMA CommitKeeps ==
  ASSUME SourceIInv, NEW c \in SourceCommits,
         CallSourceCommit(c) \/ SourceCommitStep(c)
  PROVE  SourceIInv' /\ SourceStep
<1> USE QueueMoves, CommitGoesOn DEF Observers
<1>0. SourceTypeOK /\ queue \in Seq(Observers)
  BY DEF SourceIInv, SourceTypeOK
<1>1. CASE CallSourceCommit(c)
  BY <1>0, <1>1 DEF CallSourceCommit
<1>2. CASE ScopeAnswers(c)
  BY <1>0, <1>2 DEF ScopeAnswers
<1>3. CASE BeginCommit(c)
  <2>1. CASE CommitGoes(c, "failed") /\ UNCHANGED delivery
    BY <1>0, <1>3, <2>1 DEF BeginCommit
  <2>2. CASE ~(CommitGoes(c, "failed") /\ UNCHANGED delivery)
    BY <1>0, <1>3, <2>2, SinkEntered DEF BeginCommit
  <2> QED BY <2>1, <2>2
<1>4. CASE SinkAnswers(c)
  BY <1>4, SinkLeft
<1> QED BY <1>1, <1>2, <1>3, <1>4 DEF SourceCommitStep

-----------------------------------------------------------------------------
(* The steps of a revision                                                  *)

\* A revision goes on, or is rejected; only one that has its context works.
LEMMA RevisionGoesOn ==
  ASSUME SourceIInv, NEW r \in Revisions,
         NEW to \in {"queued", "fresh", "asking", "valid", "produced", "rejected"},
         RevisionGoes(r, to), rstage[r] # "rejected",
         to # "rejected" => rstage[r] # "idle",
         to = "asking" => kind[r] = "produce" /\ ~secrets[r],
         to \in {"queued", "fresh"} => Local,
         to \in {"valid", "produced", "asking"} => rstage[r] = "fresh",
         host' \in [last: HostTimes \cup {0}, expires: HostTimes \cup {0}],
         host'.expires = host.expires, host'.last >= host.last,
         queue' \in Seq(Observers), UNCHANGED <<kind, context>>
  PROVE  SourceIInv' /\ SourceStep
<1> USE DEF SourceIInv, RevisionGoes
<1>1. SourceTypeOK'
  BY DEF SourceTypeOK
<1>2. ReportIsFinal'
  BY DEF ReportIsFinal
<1>3. ContextServesOnce'
  <2>1. rstage \in [Revisions -> {"idle", "observing", "queued", "fresh", "asking",
                              "valid", "produced", "rejected"}]
    BY DEF SourceTypeOK
  <2>2. \A q \in Revisions : rstage'[q] \notin {"idle", "rejected"} => rstage[q] \notin {"idle", "rejected"}
    BY <2>1
  <2>3. \A q, s \in Revisions :
          {rstage'[q], rstage'[s]} \cap {"idle", "rejected"} = {} => q = s
    BY <2>2 DEF ContextServesOnce
  <2>4. secrets' \in [Revisions -> BOOLEAN] /\ \A q \in Revisions : secrets'[q] => secrets[q]
    BY DEF SourceTypeOK
  <2>5. \A q \in Revisions :
          secrets'[q] => kind[q] = "produce" /\ rstage'[q] \in {"observing", "queued", "fresh"}
    <3>1. secrets'[r] => secrets[r] /\ to \in {"queued", "fresh"}
      BY <2>4 DEF SourceTypeOK
    <3>2. rstage'[r] = to /\ \A q \in Revisions : q # r => rstage'[q] = rstage[q]
      BY <2>1
    <3> QED BY <2>4, <3>1, <3>2 DEF ContextServesOnce
  <2> QED BY <2>3, <2>5 DEF ContextServesOnce
<1>4. PhaseTells'
  BY DEF PhaseTells
<1>5. EndsFollow' /\ ContextGiven'
  BY DEF EndsFollow, ContextGiven, SourceTypeOK
<1>6. ReportComesLast'
  BY DEF ReportComesLast, EndsFollow, Local, SourceTypeOK
<1>7. SourceStep
  BY SourceAssumption DEF SourceStep, DropsLate, NoneAfterReport, KeepsAuthority,
       SourceTypeOK, Local, ReportComesLast
<1> QED BY <1>1, <1>2, <1>3, <1>4, <1>5, <1>6, <1>7

\* A call takes the context, whether it is admitted or not.
LEMMA CallRevisionKeeps ==
  ASSUME SourceIInv, NEW r \in Revisions, CallRevision(r)
  PROVE  SourceIInv' /\ SourceStep
<1> USE DEF SourceIInv
<1>1. /\ context # "none" /\ rstage[r] = "idle"
      /\ UNCHANGED <<wall, stage, report, closed, delivery, cstage, host, queue>>
      /\ \E k \in {"preview", "produce"} : kind' = [kind EXCEPT ![r] = k]
      /\ context' = IF context = "available" THEN "reserved" ELSE context
      /\ ~secrets[r]
  BY DEF CallRevision, Delivered, RevisionGoes, ContextServesOnce
<1>2. \/ /\ rstage' = [rstage EXCEPT ![r] = "rejected"]
         /\ secrets' = [secrets EXCEPT ![r] = FALSE]
      \/ /\ context = "available" /\ Local
         /\ rstage' = [rstage EXCEPT ![r] = "observing"]
         /\ secrets' = [secrets EXCEPT ![r] = FALSE]
  BY <1>1 DEF CallRevision, RevisionGoes, SourceTypeOK
<1>3. SourceTypeOK'
  <2>1. /\ rstage' \in [Revisions -> {"idle", "observing", "queued", "fresh", "asking",
                                  "valid", "produced", "rejected"}]
        /\ secrets' \in [Revisions -> BOOLEAN]
    BY <1>2 DEF SourceTypeOK
  <2>2. kind' \in [Revisions -> {"preview", "produce"}]
    BY <1>1 DEF SourceTypeOK
  <2>3. context' \in {"none", "available", "reserved", "closed"}
    BY <1>1 DEF SourceTypeOK
  <2> QED BY <1>1, <2>1, <2>2, <2>3 DEF SourceTypeOK
<1>4. ReportIsFinal' /\ PhaseTells' /\ EndsFollow'
  BY <1>1 DEF ReportIsFinal, PhaseTells, EndsFollow
<1>5. ContextServesOnce'
  BY <1>1, <1>2 DEF ContextServesOnce, ContextGiven, SourceTypeOK
<1>6. ContextGiven' /\ ReportComesLast'
  BY <1>1, <1>2 DEF ContextGiven, ReportComesLast, SourceTypeOK
<1>7. SourceStep
  BY <1>1, <1>2, AuthorityStands, SourceAssumption
       DEF SourceStep, DropsLate, NoneAfterReport, KeepsAuthority, SourceTypeOK, Local
<1> QED BY <1>3, <1>4, <1>5, <1>6, <1>7

\* The secrets begin the second refresh of their call.
LEMMA SecretsKeep ==
  ASSUME SourceIInv, NEW r \in Revisions, SecretsAnswer(r)
  PROVE  SourceIInv' /\ SourceStep
<1>1. CASE RevisionGoes(r, "rejected")
  <2>1. /\ queue' \in Seq(Observers)
        /\ host' \in [last: HostTimes \cup {0}, expires: HostTimes \cup {0}]
    BY DEF SecretsAnswer, SourceIInv, SourceTypeOK
  <2> QED BY <1>1, <2>1, RevisionGoesOn, AuthorityStands DEF SecretsAnswer, SourceIInv
<1>2. CASE ~RevisionGoes(r, "rejected")
  <2> USE DEF SourceIInv
  <2>1. /\ rstage[r] = "asking" /\ kind[r] = "produce" /\ Local
        /\ rstage' = [rstage EXCEPT ![r] = "observing"]
        /\ secrets' = [secrets EXCEPT ![r] = TRUE]
        /\ UNCHANGED <<wall, stage, report, closed, delivery, cstage, host, kind, context, queue>>
    BY <1>2 DEF SecretsAnswer, ContextGiven
  <2>2. SourceTypeOK'
    BY <2>1 DEF SourceTypeOK
  <2>3. ReportIsFinal' /\ PhaseTells' /\ EndsFollow'
    BY <2>1 DEF ReportIsFinal, PhaseTells, EndsFollow
  <2>4. ContextServesOnce'
    BY <2>1 DEF ContextServesOnce, SourceTypeOK
  <2>5. ContextGiven' /\ ReportComesLast'
    BY <2>1 DEF ContextGiven, ReportComesLast, SourceTypeOK
  <2>6. SourceStep
    BY <2>1, AuthorityStands, SourceAssumption
         DEF SourceStep, DropsLate, NoneAfterReport, KeepsAuthority, SourceTypeOK, Local
  <2> QED BY <2>2, <2>3, <2>4, <2>5, <2>6
<1> QED BY <1>1, <1>2

LEMMA RevisionKeeps ==
  ASSUME SourceIInv, NEW r \in Revisions, RevisionStep(r)
  PROVE  SourceIInv' /\ SourceStep
<1> USE QueueMoves, RevisionGoesOn DEF Observers
<1>0. /\ SourceTypeOK /\ queue \in Seq(Observers)
      /\ host \in [last: HostTimes \cup {0}, expires: HostTimes \cup {0}]
      /\ host.last >= host.last
  BY AuthorityStands DEF SourceIInv, SourceTypeOK
<1>1. CASE HostObservesRevision(r)
  <2>1. CASE RevisionGoes(r, "rejected") /\ UNCHANGED <<host, queue>>
    BY <1>0, <1>1, <2>1 DEF HostObservesRevision
  <2>2. CASE ~(RevisionGoes(r, "rejected") /\ UNCHANGED <<host, queue>>)
    <3>1. PICK now \in HostTimes : Authorized(now) /\ host' = [host EXCEPT !.last = now]
      BY <1>1, <2>2 DEF HostObservesRevision
    <3>2. /\ host' \in [last: HostTimes \cup {0}, expires: HostTimes \cup {0}]
          /\ host'.expires = host.expires /\ host'.last >= host.last
      BY <1>0, <3>1 DEF Authorized
    <3>3. queue' \in Seq(Observers)
      BY <1>0, <1>1, <2>2 DEF HostObservesRevision
    <3> QED BY <1>1, <2>2, <3>2, <3>3 DEF HostObservesRevision
  <2> QED BY <2>1, <2>2
<1>2. CASE Checked(r)
  BY <1>0, <1>2 DEF Checked
<1>3. CASE Continue(r)
  BY <1>0, <1>3 DEF Continue
<1>4. CASE SecretsAnswer(r)
  BY <1>4, SecretsKeep
<1> QED BY <1>1, <1>2, <1>3, <1>4 DEF RevisionStep

-----------------------------------------------------------------------------

LEMMA TickKeeps ==
  ASSUME SourceIInv, Tick PROVE SourceIInv' /\ SourceStep
<1> USE DEF SourceIInv, Tick
<1>1. SourceTypeOK'
  BY SourceAssumption DEF SourceTypeOK
<1>2. ReportIsFinal' /\ ContextServesOnce' /\ PhaseTells'
  BY DEF ReportIsFinal, ContextServesOnce, PhaseTells
<1>3. EndsFollow' /\ ContextGiven' /\ ReportComesLast'
  BY DEF EndsFollow, ContextGiven, ReportComesLast
<1>4. SourceStep
  BY AuthorityStands DEF SourceStep, DropsLate, NoneAfterReport, KeepsAuthority
<1> QED BY <1>1, <1>2, <1>3, <1>4

LEMMA SourceInductive ==
  ASSUME SourceIInv,
         [SourceNext]_sourceVars PROVE SourceIInv' /\ SourceStep
<1>1. CASE UNCHANGED sourceVars
  <2>1. SourceIInv'
    BY <1>1 DEF SourceIInv, sourceVars, SourceTypeOK, ReportIsFinal, ContextServesOnce,
         PhaseTells, EndsFollow, ContextGiven, ReportComesLast
  <2>2. SourceStep
    BY <1>1, AuthorityStands DEF SourceIInv, sourceVars, SourceStep, DropsLate,
         NoneAfterReport, KeepsAuthority
  <2> QED BY <2>1, <2>2
<1>2. CASE SourceNext
  BY <1>2, OpeningKeeps, CommitKeeps, CallRevisionKeeps, RevisionKeeps, TickKeeps DEF SourceNext
<1> QED BY <1>1, <1>2

-----------------------------------------------------------------------------
(* The queue of the operation                                               *)

\* A caller that begins to wait comes last.
LEMMA QueueGains ==
  ASSUME SourceTypeOK, QueueHoldsWaiters, NEW c \in Observers, ~Waits(c),
         Observe(c),
         \A d \in Observers : Waits(d)' <=> Waits(d) \/ d = c
  PROVE  QueueHoldsWaiters'
<1>1. queue \in Seq(Observers) /\ queue' = Append(queue, c)
  BY DEF SourceTypeOK, Observe
<1>2. /\ DOMAIN queue' = 1..Len(queue) + 1 /\ DOMAIN queue = 1..Len(queue) /\ Len(queue) \in Nat
      /\ \A i \in 1..Len(queue) : queue'[i] = queue[i]
      /\ queue'[Len(queue) + 1] = c
  BY <1>1
<1>3. \A d : d \in Range(queue') <=> d \in Range(queue) \/ d = c
  BY <1>2 DEF Range
<1>4. \A i \in 1..Len(queue) : queue[i] # c
  BY <1>2 DEF QueueHoldsWaiters, Range
<1>5. IsInjective(queue')
  BY <1>2, <1>4 DEF QueueHoldsWaiters, IsInjective
<1> QED BY <1>3, <1>5 DEF QueueHoldsWaiters

\* The first caller stops waiting.
LEMMA QueueLoses ==
  ASSUME SourceTypeOK, QueueHoldsWaiters, NEW c \in Observers, Answered(c),
         \A d \in Observers : Waits(d)' <=> Waits(d) /\ d # c
  PROVE  QueueHoldsWaiters'
<1>1. queue \in Seq(Observers) /\ queue # << >> /\ queue[1] = c /\ queue' = Tail(queue)
  BY DEF SourceTypeOK, Answered
<1>2. /\ DOMAIN queue' = 1..Len(queue) - 1 /\ DOMAIN queue = 1..Len(queue)
      /\ Len(queue) \in Nat \ {0}
      /\ \A i \in 1..Len(queue) - 1 : queue'[i] = queue[i + 1]
  BY <1>1
<1>3. IsInjective(queue')
  BY <1>2 DEF QueueHoldsWaiters, IsInjective
<1>4. \A i \in 1..Len(queue) : i # 1 => queue[i] # c /\ i - 1 \in 1..Len(queue) - 1
  BY <1>1, <1>2 DEF QueueHoldsWaiters, IsInjective
<1>5. \A d : d \in Range(queue') <=> d \in Range(queue) /\ d # c
  <2>1. ASSUME NEW d \in Range(queue') PROVE d \in Range(queue) /\ d # c
    BY <1>2, <1>4 DEF Range
  <2>2. ASSUME NEW d \in Range(queue), d # c PROVE d \in Range(queue')
    <3>1. PICK i \in 1..Len(queue) : queue[i] = d
      BY <1>2 DEF Range
    <3>2. i - 1 \in 1..Len(queue) - 1 /\ queue'[i - 1] = d
      BY <1>1, <1>2, <1>4, <2>2, <3>1
    <3> QED BY <1>2, <3>2 DEF Range
  <2> QED BY <2>1, <2>2
<1> QED BY <1>3, <1>5 DEF QueueHoldsWaiters

\* A step that leaves the queue leaves those who wait.
LEMMA QueueRests ==
  ASSUME QueueHoldsWaiters, UNCHANGED queue,
         \A d \in Observers : Waits(d)' <=> Waits(d)
  PROVE  QueueHoldsWaiters'
BY DEF QueueHoldsWaiters

\* Who waits is a matter of its own state alone.
LEMMA WaitsIs ==
  /\ Waits(Opening) <=> stage \in {"checking", "returning"}
  /\ \A c \in SourceCommits : Waits(c) <=> cstage[c] = "queued"
  /\ \A r \in Revisions : Waits(r) <=> rstage[r] = "queued"
BY SourceAssumption DEF Waits

\* The same of the next state.
LEMMA WaitsWillBe ==
  /\ Waits(Opening)' <=> stage' \in {"checking", "returning"}
  /\ \A c \in SourceCommits : Waits(c)' <=> cstage'[c] = "queued"
  /\ \A r \in Revisions : Waits(r)' <=> rstage'[r] = "queued"
BY SourceAssumption DEF Waits

LEMMA OpeningQueues ==
  ASSUME SourceTypeOK, QueueHoldsWaiters, OpeningStep
  PROVE  QueueHoldsWaiters'
<1>1. UNCHANGED <<cstage, rstage>>
  BY DEF OpeningStep, Admitted, HostAuthorizes, HandOff, DeliverSettles, ReturnSource, Finish
<1>2. /\ \A d \in Observers \ {Opening} : Waits(d)' <=> Waits(d)
      /\ Opening \in Observers
  BY <1>1, SourceAssumption DEF Waits, Observers
<1>3. \/ /\ stage \in {"admitting", "observing", "delivering"} /\ stage' \in {"observing", "done"}
         /\ UNCHANGED queue
      \/ /\ stage \in {"observing", "delivering"} /\ stage' \in {"checking", "returning"}
         /\ Observe(Opening)
      \/ /\ stage \in {"checking", "returning"} /\ stage' \in {"delivering", "done"}
         /\ Answered(Opening)
  BY DEF OpeningStep, Admitted, HostAuthorizes, HandOff, DeliverSettles, ReturnSource, Finish
<1>4. CASE UNCHANGED queue /\ (Waits(Opening)' <=> Waits(Opening))
  BY <1>2, <1>4, QueueRests
<1>5. CASE Observe(Opening) /\ ~Waits(Opening) /\ Waits(Opening)'
  BY <1>2, <1>5, QueueGains
<1>6. CASE Answered(Opening) /\ Waits(Opening) /\ ~Waits(Opening)'
  BY <1>2, <1>6, QueueLoses
<1> QED BY <1>3, <1>4, <1>5, <1>6, WaitsIs, WaitsWillBe

LEMMA CommitQueues ==
  ASSUME SourceTypeOK, QueueHoldsWaiters,
         NEW c \in SourceCommits, CallSourceCommit(c) \/ SourceCommitStep(c)
  PROVE  QueueHoldsWaiters'
<1>1. /\ UNCHANGED <<stage, rstage>> /\ \A d \in SourceCommits : d # c => cstage'[d] = cstage[d]
      /\ c \in Observers
  BY DEF CallSourceCommit, SourceCommitStep, ScopeAnswers, BeginCommit, SinkAnswers,
       CommitGoes, SourceTypeOK, Observers
<1>2. \A d \in Observers \ {c} : Waits(d)' <=> Waits(d)
  BY <1>1, SourceAssumption DEF Waits, Observers
<1>3. \/ cstage[c] # "queued" /\ cstage'[c] # "queued" /\ UNCHANGED queue
      \/ cstage[c] # "queued" /\ cstage'[c] = "queued" /\ Observe(c)
      \/ cstage[c] = "queued" /\ cstage'[c] # "queued" /\ Answered(c)
  BY DEF CallSourceCommit, SourceCommitStep, ScopeAnswers, BeginCommit, SinkAnswers,
       CommitGoes, SourceTypeOK
<1>4. CASE UNCHANGED queue /\ (Waits(c)' <=> Waits(c))
  BY <1>2, <1>4, QueueRests
<1>5. CASE Observe(c) /\ ~Waits(c) /\ Waits(c)'
  BY <1>1, <1>2, <1>5, QueueGains
<1>6. CASE Answered(c) /\ Waits(c) /\ ~Waits(c)'
  BY <1>1, <1>2, <1>6, QueueLoses
<1> QED BY <1>3, <1>4, <1>5, <1>6, WaitsIs, WaitsWillBe

LEMMA RevisionQueues ==
  ASSUME SourceTypeOK, QueueHoldsWaiters,
         NEW r \in Revisions, CallRevision(r) \/ RevisionStep(r)
  PROVE  QueueHoldsWaiters'
<1> DEFINE Turns == \/ rstage[r] # "queued" /\ rstage'[r] # "queued" /\ UNCHANGED queue
                    \/ rstage[r] # "queued" /\ rstage'[r] = "queued" /\ Observe(r)
                    \/ rstage[r] = "queued" /\ rstage'[r] # "queued" /\ Answered(r)
<1>0. rstage \in [Revisions -> {"idle", "observing", "queued", "fresh", "asking",
                            "valid", "produced", "rejected"}]
  BY DEF SourceTypeOK
<1>1. /\ UNCHANGED <<stage, cstage>> /\ \A q \in Revisions : q # r => rstage'[q] = rstage[q]
      /\ r \in Observers
  BY <1>0 DEF CallRevision, RevisionStep, HostObservesRevision, Checked, Continue,
       SecretsAnswer, RevisionGoes, Observers
<1>2. \A d \in Observers \ {r} : Waits(d)' <=> Waits(d)
  BY <1>1, SourceAssumption DEF Waits, Observers
<1>3. Turns
  <2>1. CASE CallRevision(r)
    BY <1>0, <2>1 DEF CallRevision, RevisionGoes
  <2>2. CASE HostObservesRevision(r)
    BY <1>0, <2>2 DEF HostObservesRevision, RevisionGoes
  <2>3. CASE Checked(r)
    BY <1>0, <2>3 DEF Checked, RevisionGoes
  <2>4. CASE Continue(r)
    BY <1>0, <2>4 DEF Continue, RevisionGoes
  <2>5. CASE SecretsAnswer(r)
    BY <1>0, <2>5 DEF SecretsAnswer, RevisionGoes
  <2> QED BY <2>1, <2>2, <2>3, <2>4, <2>5 DEF RevisionStep
<1>4. CASE UNCHANGED queue /\ (Waits(r)' <=> Waits(r))
  BY <1>2, <1>4, QueueRests
<1>5. CASE Observe(r) /\ ~Waits(r) /\ Waits(r)'
  BY <1>1, <1>2, <1>5, QueueGains
<1>6. CASE Answered(r) /\ Waits(r) /\ ~Waits(r)'
  BY <1>1, <1>2, <1>6, QueueLoses
<1> QED BY <1>3, <1>4, <1>5, <1>6, WaitsIs, WaitsWillBe

LEMMA QueueInitially == ASSUME SourceInit PROVE QueueHoldsWaiters
<1>1. Range(queue) = {} /\ IsInjective(queue)
  BY DEF SourceInit, Range, IsInjective
<1>2. \A c \in Observers : ~Waits(c)
  BY SourceAssumption DEF SourceInit, Waits
<1> QED BY <1>1, <1>2 DEF QueueHoldsWaiters

LEMMA QueueKept ==
  ASSUME SourceTypeOK, QueueHoldsWaiters, [SourceNext]_sourceVars
  PROVE  QueueHoldsWaiters'
<1>1. CASE UNCHANGED <<stage, cstage, rstage, queue>>
  <2>1. \A d \in Observers : Waits(d)' <=> Waits(d)
    BY <1>1 DEF Waits
  <2> QED BY <1>1, <2>1, QueueRests
<1>2. UNCHANGED sourceVars \/ Tick => UNCHANGED <<stage, cstage, rstage, queue>>
  BY DEF sourceVars, Tick
<1> QED BY <1>1, <1>2, OpeningQueues, CommitQueues, RevisionQueues DEF SourceNext

\* What an opening reports of its commit is final, and one context serves one revision,
\* and the queue holds who waits, for any calls made with them (SourceInvariant).
THEOREM SourceInvariantHolds == SourceSpec => []SourceInvariant
<1>1. SourceInit => SourceIInv /\ QueueHoldsWaiters
  BY SourceInitially, QueueInitially
<1>2. SourceIInv => SourceTypeOK
  BY DEF SourceIInv
<1>3. SourceIInv /\ QueueHoldsWaiters /\ [SourceNext]_sourceVars =>
        SourceIInv' /\ QueueHoldsWaiters'
  BY <1>2, SourceInductive, QueueKept
<1>4. SourceIInv /\ QueueHoldsWaiters => SourceInvariant
  BY DEF SourceIInv, SourceInvariant
<1> QED BY <1>1, <1>3, <1>4, PTL DEF SourceSpec

\* A revision overtakes no late answer, no later authority and no report of its opening,
\* for any revisions (RevisionsKeepTheirOpening).
THEOREM RevisionsStayInOpening == SourceSpec => RevisionsKeepTheirOpening
<1>1. SourceInit => SourceIInv
  BY SourceInitially
<1>2. SourceIInv /\ [SourceNext]_sourceVars => SourceIInv'
  BY SourceInductive
<1>3. SourceIInv /\ [SourceNext]_sourceVars =>
        [\A r \in Revisions :
           /\ closed \/ wall > Deadline
           /\ rstage[r] \in {"idle", "observing", "queued", "asking"}
           => rstage'[r] \in {rstage[r], "rejected"}]_sourceVars
  BY SourceInductive DEF SourceStep, DropsLate
<1>4. SourceIInv /\ [SourceNext]_sourceVars =>
        [\A r \in Revisions :
           rstage'[r] = "produced" /\ report.status = "source_delivered"
             => rstage[r] = "produced"]_sourceVars
  BY SourceInductive DEF SourceStep, NoneAfterReport
<1>5. SourceIInv /\ [SourceNext]_sourceVars =>
        [stage # "observing" => host'.expires = host.expires
          /\ host'.last >= host.last]_sourceVars
  BY SourceInductive DEF SourceStep, KeepsAuthority
<1>6. SourceSpec => LateAnswersAreDropped
  BY <1>1, <1>2, <1>3, PTL DEF SourceSpec, LateAnswersAreDropped
<1>7. SourceSpec => NoRevisionAfterReport
  BY <1>1, <1>2, <1>4, PTL DEF SourceSpec, NoRevisionAfterReport
<1>8. SourceSpec => AuthorityIsNotRenewed
  BY <1>1, <1>2, <1>5, PTL DEF SourceSpec, AuthorityIsNotRenewed
<1> QED BY <1>6, <1>7, <1>8 DEF RevisionsKeepTheirOpening

-----------------------------------------------------------------------------
(* The token's disclosure history                                           *)

SourceHistories == [o \in {Opening} |-> delivery.commit]
SourceSent == [o \in {Opening} |-> delivery.phase \in {"committed", "failed"}]
SourceOpen == [o \in {Opening} |-> ~delivery.closed]

LEMMA SourceMapsInitially == ASSUME SourceInit PROVE SourceHistory!HInit
<1>0. delivery.commit = "not_invoked" /\ ~delivery.closed /\ delivery.phase = "open"
  BY DEF SourceInit
<1>1. SourceHistories = [o \in {Opening} |-> "not_invoked"]
  BY <1>0 DEF SourceHistories
<1>2. SourceSent = [o \in {Opening} |-> FALSE]
  <2>1. (delivery.phase \in {"committed", "failed"}) = FALSE
    BY <1>0
  <2> QED BY <2>1 DEF SourceSent
<1>3. SourceOpen = [o \in {Opening} |-> TRUE]
  <2>1. (~delivery.closed) = TRUE
    BY <1>0
  <2> QED BY <2>1 DEF SourceOpen
<1> QED BY <1>1, <1>2, <1>3 DEF SourceHistory!HInit, SourceHistories, SourceSent, SourceOpen

\* A step that settles nothing and commits nothing is a stutter of the history.
LEMMA SourceStutters ==
  ASSUME delivery'.commit = delivery.commit, delivery'.closed = delivery.closed,
         delivery'.phase \in {"committed", "failed"} <=> delivery.phase \in {"committed", "failed"}
  PROVE  UNCHANGED SourceHistory!hvars
BY DEF SourceHistory!hvars

\* The callback settles once, and no send is under way then.
LEMMA SourceSettles ==
  ASSUME SourceIInv, Quiet, delivery' = CloseDelivery(delivery)
  PROVE  [SourceHistory!HNext]_(SourceHistory!hvars)
<1>1. CASE delivery.closed
  <2>1. delivery.phase # "open"
    BY <1>1 DEF SourceIInv, PhaseTells
  <2> QED BY <1>1, <2>1, ClosedDelivery, SourceStutters
<1>2. CASE ~delivery.closed
  <2>1. /\ delivery'.closed /\ delivery'.commit = delivery.commit
        /\ delivery'.phase \in {"committed", "failed"} <=> delivery.phase \in {"committed", "failed"}
    BY ClosedDelivery DEF SourceIInv, SourceTypeOK
  <2>2. delivery.commit = "outcome_unknown" => delivery.phase \in {"committed", "failed"}
    BY DEF SourceIInv, PhaseTells, Quiet, SourceTypeOK
  <2>3. SourceHistory!SettleOwner(Opening)
    <3>1. SourceOpen[Opening] /\ (SourceHistories[Opening] = "outcome_unknown" => SourceSent[Opening])
      BY <1>2, <2>2 DEF SourceOpen, SourceHistories, SourceSent
    <3>2. SourceOpen' = [SourceOpen EXCEPT ![Opening] = FALSE]
      BY <2>1 DEF SourceOpen
    <3>3. UNCHANGED <<SourceHistories, SourceSent>>
      BY <2>1 DEF SourceHistories, SourceSent
    <3> QED BY <3>1, <3>2, <3>3 DEF SourceHistory!SettleOwner, SourceOpen, SourceHistories,
           SourceSent
  <2> QED BY <2>3 DEF SourceHistory!HNext
<1> QED BY <1>1, <1>2 DEF SourceIInv, SourceTypeOK

LEMMA CommitsDisclose ==
  ASSUME SourceIInv, NEW c \in SourceCommits,
         CallSourceCommit(c) \/ SourceCommitStep(c)
  PROVE  [SourceHistory!HNext]_(SourceHistory!hvars)
<1>1. CASE UNCHANGED delivery
  BY <1>1, SourceStutters
<1>2. CASE BeginCommit(c) /\ delivery' # delivery
  <2>1. /\ delivery.phase = "open" /\ ~delivery.closed /\ delivery.commit = "not_invoked"
        /\ delivery' = [delivery EXCEPT !.phase = "pending", !.commit = "outcome_unknown"]
    BY <1>2 DEF BeginCommit, MayBegin, SourceIInv, PhaseTells
  <2>2. /\ delivery'.phase = "pending" /\ delivery'.commit = "outcome_unknown" /\ ~delivery'.closed
    BY <2>1 DEF SourceIInv, SourceTypeOK
  <2>3. SourceHistory!Attempt(Opening)
    <3>1. SourceOpen[Opening] /\ SourceHistories[Opening] = "not_invoked"
      BY <2>1 DEF SourceOpen, SourceHistories
    <3>2. SourceHistories' = [SourceHistories EXCEPT ![Opening] = "outcome_unknown"]
      BY <2>2 DEF SourceHistories
    <3>3. UNCHANGED <<SourceSent, SourceOpen>>
      BY <2>1, <2>2 DEF SourceSent, SourceOpen
    <3> QED BY <3>1, <3>2, <3>3 DEF SourceHistory!Attempt, SourceOpen, SourceHistories,
           SourceSent
  <2> QED BY <2>3 DEF SourceHistory!HNext
<1>3. CASE SinkAnswers(c)
  <2>1. /\ delivery.phase = "pending" /\ ~delivery.closed /\ delivery.commit = "outcome_unknown"
    BY <1>3 DEF SinkAnswers, SourceIInv, PhaseTells
  <2>2. PICK outcome \in {"outcome_unknown", "confirmed"} :
          delivery'.phase \in {"committed", "failed"} /\ ~delivery'.closed /\ delivery'.commit = outcome
    BY <1>3, <2>1 DEF SinkAnswers, SourceIInv, SourceTypeOK
  <2>3. SourceHistory!Send(Opening)
    <3>1. SourceOpen[Opening] /\ SourceHistories[Opening] = "outcome_unknown" /\ ~SourceSent[Opening]
      BY <2>1 DEF SourceOpen, SourceHistories, SourceSent
    <3>2. SourceSent' = [SourceSent EXCEPT ![Opening] = TRUE]
      BY <2>2 DEF SourceSent
    <3>3. SourceHistories' = [SourceHistories EXCEPT ![Opening] = outcome]
      BY <2>2 DEF SourceHistories
    <3>4. UNCHANGED SourceOpen
      BY <2>1, <2>2 DEF SourceOpen
    <3> QED BY <3>1, <3>2, <3>3, <3>4 DEF SourceHistory!Send, SourceOpen, SourceHistories,
           SourceSent
  <2> QED BY <2>3 DEF SourceHistory!HNext
<1> QED BY <1>1, <1>2, <1>3 DEF CallSourceCommit, SourceCommitStep, ScopeAnswers

LEMMA SourceMapsStep ==
  ASSUME SourceIInv, [SourceNext]_sourceVars
  PROVE  [SourceHistory!HNext]_(SourceHistory!hvars)
<1>1. CASE UNCHANGED delivery
  BY <1>1, SourceStutters
<1>2. CASE OpeningStep
  BY <1>1, <1>2, SourceSettles DEF OpeningStep, Admitted, HostAuthorizes, HandOff,
       DeliverSettles, ReturnSource, Finish
<1>3. ASSUME NEW c \in SourceCommits, CallSourceCommit(c) \/ SourceCommitStep(c)
      PROVE  [SourceHistory!HNext]_(SourceHistory!hvars)
  BY <1>3, CommitsDisclose
<1>4. ASSUME NEW r \in Revisions, CallRevision(r) \/ RevisionStep(r)
      PROVE  UNCHANGED delivery
  BY <1>4 DEF CallRevision, RevisionStep, HostObservesRevision, Checked, Continue,
       SecretsAnswer, RevisionGoes
<1>5. Tick => UNCHANGED delivery
  BY DEF Tick
<1> QED BY <1>1, <1>2, <1>3, <1>4, <1>5 DEF SourceNext, sourceVars

\* The token of a source keeps the disclosure history of a protected Read: one send, on
\* record before it happens, none after its callback settled (ImplementsSourceHistory).
THEOREM RefinesSourceHistory == SourceSpec => ImplementsSourceHistory
<1>1. SourceInit => SourceIInv
  BY SourceInitially
<1>2. SourceIInv /\ [SourceNext]_sourceVars => SourceIInv'
  BY SourceInductive
<1>3. SourceInit => SourceHistory!HInit
  BY SourceMapsInitially
<1>4. SourceIInv /\ [SourceNext]_sourceVars => [SourceHistory!HNext]_(SourceHistory!hvars)
  BY SourceMapsStep
<1> QED BY <1>1, <1>2, <1>3, <1>4, PTL DEF SourceSpec, ImplementsSourceHistory,
       SourceHistory!HSpec

-----------------------------------------------------------------------------
(* No opening is wedged, and none goes round in a circle                    *)

Under(x) ==
  \/ x = Opening /\ stage # "done"
  \/ x \in SourceCommits /\ cstage[x] \in {"scope", "queued", "sink"}
  \/ x \in Revisions /\ rstage[x] \in {"observing", "queued", "fresh", "asking"}

\* A call that waits for nobody but the Host, the microtask queue or its sink.
OnItsOwn(x) ==
  \/ x = Opening /\ stage \in {"admitting", "observing", "delivering"}
  \/ x \in SourceCommits /\ cstage[x] = "scope"
  \/ x \in Revisions /\ rstage[x] \in {"observing", "fresh", "asking"}

\* Who may go on: a sink holds the thread, a microtask holds the queue of checks.
GoesNext(x) ==
  \/ x \in SourceCommits /\ cstage[x] = "sink"
  \/ Quiet /\ OnItsOwn(x)
  \/ /\ Quiet /\ \A r \in Revisions : rstage[r] # "fresh"
     /\ queue # << >> /\ x = Head(queue)

\* The step it has whatever it waits for does: an assignment of every variable, in which
\* a callback or a check fails and a microtask runs.
SourceGivesUp(x) ==
  /\ queue' = IF Waits(x) THEN Tail(queue) ELSE queue
  /\ IF x = Opening THEN Finish("source_failed")
     ELSE IF x \in SourceCommits THEN
       /\ CommitGoes(x, "failed")
       /\ delivery' = IF cstage[x] = "sink" THEN [delivery EXCEPT !.phase = "failed"] ELSE delivery
     ELSE
       /\ RevisionGoes(x, IF rstage[x] = "fresh" /\ kind[x] = "produce"
                          THEN IF secrets[x] THEN "produced" ELSE "asking"
                          ELSE "rejected")
       /\ UNCHANGED <<host, kind, context>>

SourceStepOf(x) ==
  \/ x = Opening /\ OpeningStep
  \/ x \in SourceCommits /\ SourceCommitStep(x)
  \/ x \in Revisions /\ RevisionStep(x)

\* The head of the queue is a call that waits for its check.
LEMMA HeadWaits ==
  ASSUME SourceTypeOK, QueueHoldsWaiters, queue # << >>
  PROVE  Head(queue) \in Observers /\ Waits(Head(queue))
<1>1. queue \in Seq(Observers) /\ 1 \in DOMAIN queue /\ Head(queue) = queue[1]
  BY DEF SourceTypeOK
<1>2. Head(queue) \in Observers /\ Head(queue) \in Range(queue)
  BY <1>1 DEF Range
<1> QED BY <1>2 DEF QueueHoldsWaiters

LEMMA NextHasAStep ==
  ASSUME SourceIInv, QueueHoldsWaiters, NEW x \in Observers, GoesNext(x), SourceGivesUp(x)
  PROVE  <<SourceStepOf(x)>>_sourceVars
<1>0. /\ SourceTypeOK /\ Opening \notin SourceCommits \cup Revisions /\ SourceCommits \cap Revisions = {}
  BY SourceAssumption DEF SourceIInv
<1>1. CASE x = Opening
  <2>0. Finish("source_failed")
    BY <1>1 DEF SourceGivesUp
  <2>1. stage' = "done" /\ Quiet
    BY <1>0, <1>1, <2>0 DEF Finish, GoesNext, OnItsOwn
  <2>2. CASE stage \in {"admitting", "observing", "delivering"}
    <3>1. UNCHANGED queue
      BY <1>0, <1>1, <2>2 DEF SourceGivesUp, Waits
    <3> QED BY <1>1, <2>0, <2>1, <2>2, <3>1
         DEF SourceStepOf, OpeningStep, Admitted, HostAuthorizes, DeliverSettles, sourceVars
  <2>3. CASE stage \notin {"admitting", "observing", "delivering"}
    <3>1. /\ \A r \in Revisions : rstage[r] # "fresh"
          /\ queue # << >> /\ x = Head(queue)
      BY <1>0, <1>1, <2>3 DEF GoesNext, OnItsOwn
    <3>2. Waits(x)
      BY <1>0, <3>1, HeadWaits
    <3>3. Answered(Opening) /\ stage \in {"checking", "returning"}
      BY <1>0, <1>1, <3>1, <3>2 DEF SourceGivesUp, Answered, Waits
    <3> QED BY <1>1, <2>0, <2>1, <3>3 DEF SourceStepOf, OpeningStep, HandOff, ReturnSource, sourceVars
  <2> QED BY <2>2, <2>3
<1>2. CASE x \in SourceCommits
  <2>0. /\ CommitGoes(x, "failed")
        /\ delivery' = IF cstage[x] = "sink" THEN [delivery EXCEPT !.phase = "failed"] ELSE delivery
    BY <1>0, <1>2 DEF SourceGivesUp
  <2>1. cstage'[x] = "failed" /\ cstage \in [SourceCommits -> {"idle", "scope", "queued", "sink", "committed", "failed"}]
    BY <1>0, <1>2, <2>0 DEF CommitGoes, SourceTypeOK
  <2>2. CASE cstage[x] = "sink"
    <3>1. UNCHANGED queue
      BY <1>0, <1>2, <2>2 DEF SourceGivesUp, Waits
    <3> QED BY <1>2, <2>0, <2>1, <2>2, <3>1 DEF SourceStepOf, SourceCommitStep, SinkAnswers, sourceVars
  <2>3. CASE cstage[x] = "scope"
    <3>1. UNCHANGED queue /\ Quiet
      BY <1>0, <1>2, <2>3 DEF SourceGivesUp, Waits, GoesNext
    <3> QED BY <1>2, <2>0, <2>1, <2>3, <3>1 DEF SourceStepOf, SourceCommitStep, ScopeAnswers, sourceVars
  <2>4. CASE cstage[x] \notin {"sink", "scope"}
    <3>1. /\ Quiet /\ \A r \in Revisions : rstage[r] # "fresh"
          /\ queue # << >> /\ x = Head(queue)
      BY <1>0, <1>2, <2>4 DEF GoesNext, OnItsOwn
    <3>2. Waits(x)
      BY <1>0, <3>1, HeadWaits
    <3>3. Answered(x) /\ cstage[x] = "queued"
      BY <1>0, <1>2, <3>1, <3>2 DEF SourceGivesUp, Answered, Waits
    <3> QED BY <1>2, <2>0, <2>1, <3>1, <3>3 DEF SourceStepOf, SourceCommitStep, BeginCommit, sourceVars
  <2> QED BY <2>2, <2>3, <2>4
<1>3. CASE x \in Revisions
  <2> DEFINE to == IF rstage[x] = "fresh" /\ kind[x] = "produce"
                   THEN IF secrets[x] THEN "produced" ELSE "asking"
                   ELSE "rejected"
  <2>0. RevisionGoes(x, to) /\ UNCHANGED <<host, kind, context>>
    BY <1>0, <1>3 DEF SourceGivesUp
  <2>1. rstage'[x] = to /\ kind[x] \in {"preview", "produce"} /\ Quiet
    BY <1>0, <1>3, <2>0 DEF RevisionGoes, SourceTypeOK, GoesNext
  <2>2. CASE rstage[x] = "fresh"
    <3>1. UNCHANGED queue
      BY <1>0, <1>3, <2>2 DEF SourceGivesUp, Waits
    <3> QED BY <1>3, <2>0, <2>1, <2>2, <3>1 DEF SourceStepOf, RevisionStep, Continue, sourceVars
  <2>3. CASE rstage[x] \in {"observing", "asking"}
    <3>1. UNCHANGED queue
      BY <1>0, <1>3, <2>3 DEF SourceGivesUp, Waits
    <3> QED BY <1>3, <2>0, <2>1, <2>3, <3>1
         DEF SourceStepOf, RevisionStep, HostObservesRevision, SecretsAnswer, sourceVars
  <2>4. CASE rstage[x] \notin {"fresh", "observing", "asking"}
    <3>1. /\ \A r \in Revisions : rstage[r] # "fresh"
          /\ queue # << >> /\ x = Head(queue)
      BY <1>0, <1>3, <2>4 DEF GoesNext, OnItsOwn
    <3>2. Waits(x)
      BY <1>0, <3>1, HeadWaits
    <3>3. Answered(x) /\ rstage[x] = "queued"
      BY <1>0, <1>3, <3>1, <3>2 DEF SourceGivesUp, Answered, Waits
    <3> QED BY <1>3, <2>0, <2>1, <3>3 DEF SourceStepOf, RevisionStep, Checked, sourceVars
  <2> QED BY <2>2, <2>3, <2>4
<1> QED BY <1>1, <1>2, <1>3 DEF Observers

\* No order of callback, commits, revisions and disposal wedges an opening
\* (withProtectedSourceNode): while any call is under way there is one that may go next, and
\* each that may has a step that changes something.
THEOREM NoOpeningIsWedged ==
  ASSUME SourceIInv, QueueHoldsWaiters
  PROVE  /\ (\E x \in Observers : Under(x)) => \E x \in Observers : GoesNext(x)
         /\ \A x \in Observers : GoesNext(x) /\ SourceGivesUp(x) => <<SourceStepOf(x)>>_sourceVars
<1>1. SourceTypeOK
  BY DEF SourceIInv
<1>2. ASSUME NEW x \in Observers, Under(x) PROVE \E y \in Observers : GoesNext(y)
  <2>1. CASE ~Quiet
    <3>1. PICK c \in SourceCommits : cstage[c] = "sink"
      BY <2>1 DEF Quiet
    <3> QED BY <3>1 DEF GoesNext, Observers
  <2>2. CASE Quiet /\ \E r \in Revisions : rstage[r] = "fresh"
    <3>1. PICK r \in Revisions : rstage[r] = "fresh"
      BY <2>2
    <3> QED BY <2>2, <3>1 DEF GoesNext, OnItsOwn, Observers
  <2>3. CASE Quiet /\ \A r \in Revisions : rstage[r] # "fresh"
    <3>1. OnItsOwn(x) \/ Waits(x)
      BY <1>1, <1>2, <2>3 DEF Under, OnItsOwn, Waits, Quiet, SourceTypeOK
    <3>2. ASSUME Waits(x) PROVE queue # << >>
      <4>1. x \in Range(queue)
        BY <3>2 DEF QueueHoldsWaiters
      <4> QED BY <1>1, <4>1 DEF Range
    <3> QED BY <1>1, <2>3, <3>1, <3>2, HeadWaits DEF GoesNext
  <2> QED BY <2>1, <2>2, <2>3
<1> QED BY <1>2, NextHasAStep

\* Where an opening, a commit and a revision are on their way; a revision that is to
\* produce is refreshed twice, holding the secrets the second time.
OpeningPhases == [admitting |-> 5, observing |-> 4, checking |-> 3, delivering |-> 2,
                  returning |-> 1, done |-> 0]
SourceCommitPhases == [idle |-> 4, scope |-> 3, queued |-> 2, sink |-> 1,
                       committed |-> 0, failed |-> 0]
RevisionPhases == [idle |-> 8, observing |-> 7, queued |-> 6, fresh |-> 5, asking |-> 4,
                   valid |-> 0, produced |-> 0, rejected |-> 0]
RevisionPhase == [r \in Revisions |->
  IF secrets[r] THEN RevisionPhases[rstage[r]] - 4 ELSE RevisionPhases[rstage[r]]]

OpeningAdvances ==
  OpeningPhases[stage'] < OpeningPhases[stage] /\ UNCHANGED <<wall, cstage, rstage, secrets>>
SourceCommitAdvances(c) ==
  /\ SourceCommitPhases[cstage'[c]] < SourceCommitPhases[cstage[c]]
  /\ \A d \in SourceCommits \ {c} : cstage'[d] = cstage[d]
  /\ UNCHANGED <<wall, stage, rstage, secrets>>
RevisionAdvances(r) ==
  /\ RevisionPhase'[r] < RevisionPhase[r]
  /\ \A q \in Revisions \ {r} : rstage'[q] = rstage[q] /\ secrets'[q] = secrets[q]
  /\ UNCHANGED <<wall, stage, cstage>>

\* Every step takes the opening, one commit or one revision nearer to its end and takes
\* none back, or lets the time pass that the model bounds.
EverySourceStepAdvances ==
  \/ OpeningAdvances
  \/ \E c \in SourceCommits : SourceCommitAdvances(c)
  \/ \E r \in Revisions : RevisionAdvances(r)
  \/ wall' = wall + 1 /\ wall < MaxTime /\ UNCHANGED <<stage, cstage, rstage, secrets>>

LEMMA RevisionStepAdvances ==
  ASSUME SourceIInv, SourceIInv', NEW r \in Revisions, CallRevision(r) \/ RevisionStep(r)
  PROVE  RevisionAdvances(r)
<1>1. /\ rstage \in [Revisions -> DOMAIN RevisionPhases] /\ secrets \in [Revisions -> BOOLEAN]
      /\ rstage' \in [Revisions -> DOMAIN RevisionPhases] /\ secrets' \in [Revisions -> BOOLEAN]
      /\ secrets[r] => rstage[r] \in {"observing", "queued", "fresh"}
      /\ secrets'[r] => rstage'[r] \in {"observing", "queued", "fresh"}
  BY DEF SourceIInv, SourceTypeOK, ContextServesOnce, RevisionPhases
<1>2. RevisionPhase[r] = (IF secrets[r] THEN RevisionPhases[rstage[r]] - 4 ELSE RevisionPhases[rstage[r]])
  BY DEF RevisionPhase
<1>3. RevisionPhase'[r] = (IF secrets'[r] THEN RevisionPhases[rstage'[r]] - 4 ELSE RevisionPhases[rstage'[r]])
  BY DEF RevisionPhase
<1>4. ASSUME NEW to, RevisionGoes(r, to)
      PROVE  /\ rstage'[r] = to /\ secrets'[r] = (secrets[r] /\ to \notin {"valid", "produced", "rejected"})
             /\ \A q \in Revisions \ {r} : rstage'[q] = rstage[q] /\ secrets'[q] = secrets[q]
             /\ UNCHANGED <<wall, stage, cstage>>
  BY <1>1, <1>4 DEF RevisionGoes
<1>5. CASE \/ CallRevision(r) \/ HostObservesRevision(r) \/ Checked(r) \/ Continue(r)
  <2>1. PICK to : /\ RevisionGoes(r, to)
                  /\ \/ to \in {"valid", "produced", "rejected"} /\ rstage[r] \notin {"valid", "produced", "rejected"}
                     \/ rstage[r] = "idle" /\ to = "observing"
                     \/ rstage[r] = "observing" /\ to = "queued"
                     \/ rstage[r] = "queued" /\ to = "fresh"
                     \/ rstage[r] = "fresh" /\ to = "asking" /\ ~secrets[r]
    BY <1>5 DEF CallRevision, HostObservesRevision, Checked, Continue
  <2> QED BY <1>1, <1>2, <1>3, <1>4, <2>1 DEF RevisionAdvances, RevisionPhases
<1>6. CASE SecretsAnswer(r)
  <2>1. CASE RevisionGoes(r, "rejected")
    BY <1>1, <1>2, <1>3, <1>4, <1>6, <2>1 DEF SecretsAnswer, RevisionAdvances, RevisionPhases
  <2>2. CASE ~RevisionGoes(r, "rejected")
    <3>1. /\ rstage[r] = "asking" /\ rstage' = [rstage EXCEPT ![r] = "observing"]
          /\ secrets' = [secrets EXCEPT ![r] = TRUE] /\ UNCHANGED <<wall, stage, cstage>>
      BY <1>6, <2>2 DEF SecretsAnswer
    <3> QED BY <1>1, <1>2, <1>3, <3>1 DEF RevisionAdvances, RevisionPhases
  <2> QED BY <2>1, <2>2
<1> QED BY <1>5, <1>6 DEF RevisionStep

\* An opening and the calls made with it come to an end: see EverySourceStepAdvances.
THEOREM NoSourceStepRepeats == SourceSpec => [][EverySourceStepAdvances]_sourceVars
<1>1. ASSUME SourceIInv, OpeningStep PROVE OpeningAdvances
  BY <1>1 DEF OpeningStep, Admitted, HostAuthorizes, HandOff, DeliverSettles, ReturnSource, Finish,
     OpeningAdvances, OpeningPhases
<1>2. ASSUME SourceIInv, NEW c \in SourceCommits, CallSourceCommit(c) \/ SourceCommitStep(c)
      PROVE  SourceCommitAdvances(c)
  <2>1. cstage \in [SourceCommits -> DOMAIN SourceCommitPhases]
    BY <1>2 DEF SourceIInv, SourceTypeOK, SourceCommitPhases
  <2>2. PICK to : /\ CommitGoes(c, to)
                  /\ \/ to \in {"committed", "failed"} /\ cstage[c] \notin {"committed", "failed"}
                     \/ cstage[c] = "idle" /\ to = "scope"
                     \/ cstage[c] = "scope" /\ to = "queued"
                     \/ cstage[c] = "queued" /\ to = "sink"
    BY <1>2 DEF CallSourceCommit, SourceCommitStep, ScopeAnswers, BeginCommit, SinkAnswers
  <2> QED BY <2>1, <2>2 DEF CommitGoes, SourceCommitAdvances, SourceCommitPhases
<1>3. ASSUME SourceIInv, SourceIInv', [SourceNext]_sourceVars PROVE [EverySourceStepAdvances]_sourceVars
  <2>1. CASE Tick
    BY <2>1 DEF Tick, EverySourceStepAdvances
  <2> QED BY <1>1, <1>2, <1>3, <2>1, RevisionStepAdvances DEF SourceNext, EverySourceStepAdvances
<1>4. SourceInit => SourceIInv
  BY SourceInitially
<1>5. SourceIInv /\ [SourceNext]_sourceVars => SourceIInv'
  BY SourceInductive
<1> QED BY <1>3, <1>4, <1>5, PTL DEF SourceSpec
=============================================================================
