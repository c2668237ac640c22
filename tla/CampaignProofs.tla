--------------------------- MODULE CampaignProofs ----------------------------
(***************************************************************************)
(* A campaign's status, brief, plan and conversation stay consistent for any *)
(* number of concurrent requests and any briefs, extractions and plans.      *)
(*                                                                          *)
(* The argument: whoever may publish a write holds the conversation, from     *)
(* before it read the brief it changes; so what it computed from that brief   *)
(* is still right when it commits.  Only a generation reads the brief earlier, *)
(* and what it relies on, that the brief is complete, no turn can undo.       *)
(***************************************************************************)
EXTENDS Campaign, FiniteSetTheorems, TLAPS

UserMessage(r, n) == [sequence |-> n + 1, role |-> "user", turn |-> r]
Answer(r, n) == [sequence |-> n + 2, role |-> "assistant", turn |-> r]

\* Places of a request that holds the conversation.
Holding == {"extract", "check", "merge", "patch", "reevaluate", "restatus", "reply",
            "candidate", "commit"}
TurnEnds(q) == q.pc = "commit" /\ q.extracted # None
PlanEnds(q) == q.pc = "commit" /\ q.extracted = None

\* The brief of turn q is the committed brief c with all it extracted, whether or
\* not that was a change.
Merged(q, c) ==
    /\ q.extracted \in Brief
    /\ q.changes = BriefChanges(c.brief, q.extracted)
    /\ q.brief = Merge(c.brief, q.extracted)
    /\ q.newBrief = IF q.changes = NoChanges THEN None ELSE q.brief
    /\ q.plan = None

\* The status turn q will leave behind fits the brief it will leave behind.
Judged(q, c) ==
    LET status == IF q.status # None THEN q.status ELSE c.status
    IN  /\ status = "BRIEFING" <=> ~ Ready(q.brief)
        /\ q.changes # NoChanges => status # "PLAN_READY"
        /\ q.status \in {None, "READY", "BRIEFING"}

\* What request r is at each of its places, beside the committed campaign c, the
\* holder h of the conversation and its n messages.
Fits(q, r, c, h, n) ==
    /\ q.pc = "idle" => q = Idle
    /\ q.pc # "idle" => c # None
    /\ q.pc \in Holding => h = r
    /\ q.pc \in {"append", "extract", "check", "merge", "patch",
                 "requested", "claim", "claim_conversation"} =>
          q.status = None /\ q.newBrief = None /\ q.plan = None
    /\ q.pc \in {"append", "requested", "claim", "claim_conversation", "candidate"} =>
          q.said = {} /\ q.extracted = None
    /\ q.pc \in {"extract", "check", "merge", "patch", "reevaluate", "restatus", "reply"} =>
          q.said = {UserMessage(r, n)}
    /\ q.pc = "extract" => q.extracted = None
    /\ q.pc \in {"check", "merge"} => q.extracted \in Brief
    /\ q.pc = "patch" =>
          /\ q.extracted \in Brief
          /\ q.changes = BriefChanges(c.brief, q.extracted) /\ q.changes # NoChanges
    /\ q.pc \in {"reevaluate", "restatus"} => q.status = None
    /\ q.pc \in {"reevaluate", "restatus", "reply"} \/ TurnEnds(q) => Merged(q, c)
    /\ q.pc = "reply" \/ TurnEnds(q) => Judged(q, c)
    /\ TurnEnds(q) => q.said = {UserMessage(r, n), Answer(r, n)}
    /\ q.pc \in {"requested", "claim", "claim_conversation", "candidate"} => q.brief \in Brief
    /\ q.pc \in {"claim", "claim_conversation", "candidate"} \/ PlanEnds(q) => Ready(c.brief)
    /\ q.pc = "candidate" => q.status = "GENERATING" /\ q.newBrief = None /\ q.plan = None
    /\ PlanEnds(q) =>
          /\ q.status = "PLAN_READY" /\ q.newBrief = None /\ q.said = {}
          /\ q.plan \in Plan /\ q.brief \in Brief /\ Issues(q.brief, q.plan) = {}

Committed ==
    /\ NeverStuckGenerating /\ ReadinessAgrees /\ SavedPlanWasValid /\ NoFactLost
    /\ TurnsContiguous /\ IsFiniteSet(messages) /\ Cardinality(messages) % 2 = 0

Holder == lock["conversation"]
Count == Cardinality(messages)

Consistent ==
    /\ TypeOK /\ Committed
    /\ \A r \in Requests : Fits(req[r], r, campaign, Holder, Count)

----------------------------------------------------------------------------
\* Facts about briefs.
LEMMA BriefIsFunction == ASSUME NEW b \in Brief PROVE b = [f \in Fields |-> b[f]]
BY DEF Brief, Fields

LEMMA MergeType == ASSUME NEW b \in Brief, NEW u \in Brief PROVE Merge(b, u) \in Brief
BY DEF Brief, Fields, Merge

LEMMA ChangesType == ASSUME NEW b \in Brief, NEW u \in Brief PROVE BriefChanges(b, u) \in Brief
BY DEF Brief, Fields, BriefChanges, Word

\* Laying the changes over a brief is laying over it everything that was extracted.
LEMMA MergeChanges ==
    ASSUME NEW b \in Brief, NEW u \in Brief
    PROVE  Merge(b, BriefChanges(b, u)) = Merge(b, u)
BY DEF Merge, BriefChanges

LEMMA MergeNothing ==
    ASSUME NEW b \in Brief, NEW u \in Brief, BriefChanges(b, u) = NoChanges
    PROVE  Merge(b, u) = b
<1>1. \A f \in Fields : BriefChanges(b, u)[f] = None
  BY DEF NoChanges
<1>2. \A f \in Fields : Merge(b, u)[f] = b[f]
  BY <1>1 DEF Merge, BriefChanges
<1>3. b = [f \in Fields |-> b[f]]
  BY BriefIsFunction
<1>4. Merge(b, u) = [f \in Fields |-> Merge(b, u)[f]]
  BY DEF Merge
<1> QED BY <1>2, <1>3, <1>4

\* A turn never makes a complete brief incomplete.
LEMMA ReadyStays ==
    ASSUME NEW b \in Brief, NEW u \in Brief, Ready(b)
    PROVE  Ready(Merge(b, u))
BY DEF Ready, MissingFields, Merge, Fields

LEMMA ReadinessStatus ==
    ASSUME NEW b
    PROVE  /\ StatusForReadiness(b) \in {"READY", "BRIEFING"}
           /\ StatusForReadiness(b) = "BRIEFING" <=> ~ Ready(b)
BY DEF StatusForReadiness

LEMMA Transitions ==
    /\ \A s : Accepts(s, "GENERATION_REQUESTED") => s = "READY"
    /\ \A s : Accepts(s, "PLAN_PERSISTED") => s = "GENERATING"
    /\ Target("READY", "GENERATION_REQUESTED") = "GENERATING"
    /\ Target("GENERATING", "PLAN_PERSISTED") = "PLAN_READY"
BY DEF Accepts, Target, EventTransitions, Statuses

----------------------------------------------------------------------------
\* A step of request r that publishes nothing and takes no lock from another.
LEMMA LocalStep ==
    ASSUME Consistent, NEW r \in Requests, NEW q \in Request, Step(r, q),
           UNCHANGED <<campaign, messages, facts, basis>>,
           lock' \in [Rows -> Requests \cup {None}],
           \A s \in Requests : s # r /\ Holder = s => Holder' = s,
           Fits(q, r, campaign, Holder', Count)
    PROVE  Consistent'
<1>1. req' = [req EXCEPT ![r] = q] /\ req \in [Requests -> Request]
  BY DEF Step, Consistent, TypeOK
<1>2. TypeOK'
  BY <1>1 DEF Consistent, TypeOK
<1>3. Committed'
  BY DEF Consistent, Committed, NeverStuckGenerating, ReadinessAgrees, SavedPlanWasValid, NoFactLost,
         TurnsContiguous
<1>4. Count' = Count
  BY DEF Count
<1>5. ASSUME NEW s \in Requests PROVE Fits(req'[s], s, campaign', Holder', Count')
  <2>1. CASE s = r
    BY <1>1, <1>4, <2>1
  <2>2. CASE s # r
    <3>1. req'[s] = req[s]
      BY <1>1, <2>2
    <3>2. Fits(req[s], s, campaign, Holder, Count)
      BY DEF Consistent
    <3>3. Holder = s => Holder' = s
      BY <2>2
    <3>4. Fits(req[s], s, campaign, Holder', Count)
      BY <3>2, <3>3 DEF Fits
    <3> QED BY <1>4, <3>1, <3>4
  <2> QED BY <2>1, <2>2
<1> QED BY <1>2, <1>3, <1>5 DEF Consistent

\* Most steps leave the locks alone as well.
LEMMA QuietStep ==
    ASSUME Consistent, NEW r \in Requests, NEW q \in Request, Step(r, q),
           UNCHANGED <<campaign, messages, lock, facts, basis>>,
           Fits(q, r, campaign, Holder, Count)
    PROVE  Consistent'
<1>1. Holder' = Holder /\ lock' \in [Rows -> Requests \cup {None}]
  BY DEF Holder, Consistent, TypeOK
<1> QED BY <1>1, LocalStep

\* A request that ends without a commit gives its locks back.
LEMMA RollbackKeeps ==
    ASSUME Consistent, NEW r \in Requests, Rollback(r)
    PROVE  Consistent'
<1>1. lock \in [Rows -> Requests \cup {None}] /\ None \notin Requests
  BY CampaignConstants DEF Consistent, TypeOK
<1>2. lock' = [row \in Rows |-> IF lock[row] = r THEN None ELSE lock[row]]
  BY DEF Rollback, Released
<1>3. lock' \in [Rows -> Requests \cup {None}]
  BY <1>1, <1>2
<1>4. \A s \in Requests : s # r /\ Holder = s => Holder' = s
  BY <1>1, <1>2 DEF Holder, Rows
<1>5. Idle \in Request
  BY DEF Idle, Request, PCs, MaxPlanGenerationAttempts
<1>6. Fits(Idle, r, campaign, Holder', Count)
  BY DEF Fits, Idle, Holding, TurnEnds, PlanEnds
<1> QED BY <1>3, <1>4, <1>5, <1>6, LocalStep DEF Rollback

----------------------------------------------------------------------------
\* The record of a request, one field replaced at a time.
LEMMA WithPc ==
    ASSUME NEW q \in Request, NEW p \in PCs
    PROVE  [q EXCEPT !.pc = p] \in Request
BY DEF Request

\* The places of a turn before its writes.
LEMMA TurnBegins ==
    ASSUME Consistent, NEW r \in Requests, StartTurn(r)
    PROVE  Consistent'
<1> DEFINE q == [req[r] EXCEPT !.pc = "append"]
<1>1. req[r] \in Request /\ Fits(req[r], r, campaign, Holder, Count) /\ req[r].pc = "idle" /\ campaign # None
  BY DEF Consistent, TypeOK, StartTurn, At
<1>2. q \in Request
  BY <1>1, WithPc DEF PCs
<1>3. req[r] = Idle
  BY <1>1 DEF Fits
<1>4. /\ q.pc = "append" /\ q.status = None /\ q.newBrief = None /\ q.plan = None
      /\ q.said = {} /\ q.extracted = None
  BY <1>3 DEF Idle
<1>5. Fits(q, r, campaign, Holder, Count)
  <2> HIDE DEF q
  <2> QED BY <1>1, <1>4 DEF Fits, Holding, TurnEnds, PlanEnds
<1>6. Step(r, q) /\ UNCHANGED <<campaign, messages, lock, facts, basis>>
  BY DEF StartTurn
<1> QED BY <1>2, <1>5, <1>6, QuietStep

LEMMA ExtractKeeps ==
    ASSUME Consistent, NEW r \in Requests, NEW e \in Extractions, Extract(r, e)
    PROVE  Consistent'
<1> DEFINE q == [req[r] EXCEPT !.pc = "check", !.extracted = e]
<1>1. req[r] \in Request /\ Fits(req[r], r, campaign, Holder, Count) /\ req[r].pc = "extract" /\ e \in Brief
  BY CampaignConstants DEF Consistent, TypeOK, Extract, At
<1>2. q \in Request
  BY <1>1 DEF Request, PCs
<1>3. /\ q.pc = "check" /\ q.status = req[r].status /\ q.newBrief = req[r].newBrief
      /\ q.plan = req[r].plan /\ q.said = req[r].said /\ q.extracted = e
  BY <1>1 DEF Request
<1>4. Fits(q, r, campaign, Holder, Count)
  <2> HIDE DEF q
  <2> QED BY <1>1, <1>3 DEF Fits, Holding, TurnEnds, PlanEnds
<1>5. Step(r, q) /\ UNCHANGED <<campaign, messages, lock, facts, basis>>
  BY DEF Extract
<1> QED BY <1>2, <1>4, <1>5, QuietStep

LEMMA CheckKeeps ==
    ASSUME Consistent, NEW r \in Requests, CheckNotGenerating(r)
    PROVE  Consistent'
<1> DEFINE q == [req[r] EXCEPT !.pc = "merge"]
<1>1. req[r] \in Request /\ Fits(req[r], r, campaign, Holder, Count) /\ req[r].pc = "check"
  BY DEF Consistent, TypeOK, CheckNotGenerating, At
<1>2. q \in Request
  BY <1>1, WithPc DEF PCs
<1>3. /\ q.pc = "merge" /\ q.status = req[r].status /\ q.newBrief = req[r].newBrief
      /\ q.plan = req[r].plan /\ q.said = req[r].said /\ q.extracted = req[r].extracted
  BY <1>1 DEF Request
<1>4. Fits(q, r, campaign, Holder, Count)
  <2> HIDE DEF q
  <2> QED BY <1>1, <1>3 DEF Fits, Holding, TurnEnds, PlanEnds
<1>5. Rollback(r) \/ (Step(r, q) /\ UNCHANGED <<campaign, messages, lock, facts, basis>>)
  BY DEF CheckNotGenerating
<1> QED BY <1>2, <1>4, <1>5, QuietStep, RollbackKeeps

\* A request under way works on an existing campaign.
LEMMA UnderWay ==
    ASSUME Consistent, NEW r \in Requests, req[r].pc # "idle"
    PROVE  /\ req[r] \in Request /\ Fits(req[r], r, campaign, Holder, Count)
           /\ campaign \in Record /\ campaign.brief \in Brief /\ campaign.status \in Statuses
           /\ campaign.status = "BRIEFING" <=> ~ Ready(campaign.brief)
           /\ campaign.status # "GENERATING"
<1>1. req[r] \in Request /\ Fits(req[r], r, campaign, Holder, Count) /\ campaign \in {None} \cup Record
  BY DEF Consistent, TypeOK
<1>2. campaign \in Record /\ campaign # None
  BY <1>1 DEF Fits
<1>3. campaign.brief \in Brief /\ campaign.status \in Statuses
  BY <1>2 DEF Record
<1>4. (campaign.status = "BRIEFING" <=> ~ Ready(campaign.brief)) /\ campaign.status # "GENERATING"
  BY <1>2 DEF Consistent, Committed, ReadinessAgrees, NeverStuckGenerating
<1> QED BY <1>1, <1>2, <1>3, <1>4

LEMMA ChangesComputed ==
    ASSUME Consistent, NEW r \in Requests, ComputeChanges(r)
    PROVE  Consistent'
<1> DEFINE b == campaign.brief
           e == req[r].extracted
           d == BriefChanges(b, e)
           p == IF d = NoChanges THEN "reevaluate" ELSE "patch"
           q == [req[r] EXCEPT !.changes = d, !.brief = b, !.pc = p]
<1>1. req[r].pc = "merge"
  BY DEF ComputeChanges, At
<1>2. req[r] \in Request /\ Fits(req[r], r, campaign, Holder, Count) /\ campaign # None /\ b \in Brief
  <2>1. req[r].pc # "idle"
    BY <1>1
  <2> QED BY <2>1, UnderWay DEF Fits
<1>3. e \in Brief /\ req[r].newBrief = None
  BY <1>1, <1>2 DEF Fits
<1>4. BriefSeen(r) = b
  BY <1>3 DEF BriefSeen
<1>5. d \in Brief
  BY <1>2, <1>3, ChangesType
<1>6. Step(r, q) /\ UNCHANGED <<campaign, messages, lock, facts, basis>>
  BY <1>4 DEF ComputeChanges
<1>7. q \in Request
  <2> HIDE DEF d, b
  <2> QED BY <1>2, <1>5 DEF Request, PCs
<1>8. /\ q.pc = p /\ q.status = req[r].status /\ q.newBrief = req[r].newBrief
      /\ q.plan = req[r].plan /\ q.said = req[r].said /\ q.extracted = e
      /\ q.changes = d /\ q.brief = b
  <2> HIDE DEF d, p
  <2> QED BY <1>2 DEF Request
<1>9. d = NoChanges => Merge(b, e) = b
  BY <1>2, <1>3, MergeNothing
<1>10. Fits(q, r, campaign, Holder, Count)
  <2>1. CASE d = NoChanges
    <3>1. q.pc = "reevaluate"
      BY <1>8, <2>1
    <3>2. Merged(q, campaign)
      <4> HIDE DEF q
      <4> QED BY <1>1, <1>2, <1>3, <1>8, <1>9, <2>1 DEF Merged, Fits
    <3> HIDE DEF q
    <3> QED BY <1>1, <1>2, <1>3, <1>8, <3>1, <3>2 DEF Fits, Holding, TurnEnds, PlanEnds
  <2>2. CASE d # NoChanges
    <3>1. q.pc = "patch"
      BY <1>8, <2>2
    <3> HIDE DEF q, p
    <3> QED BY <1>1, <1>2, <1>3, <1>8, <2>2, <3>1 DEF Fits, Holding, TurnEnds, PlanEnds
  <2> QED BY <2>1, <2>2
<1> HIDE DEF q
<1> QED BY <1>6, <1>7, <1>10, QuietStep

\* Whoever locks both rows did not take the conversation from another.
LEMMA LocksBoth ==
    ASSUME Consistent, NEW r \in Requests, Free("conversation", r), lock' = [row \in Rows |-> r]
    PROVE  /\ lock' \in [Rows -> Requests \cup {None}]
           /\ Holder' = r
           /\ \A s \in Requests : s # r /\ Holder = s => Holder' = s
BY CampaignConstants DEF Holder, Rows, Free

LEMMA PatchKeeps ==
    ASSUME Consistent, NEW r \in Requests, PatchBrief(r)
    PROVE  Consistent'
<1> DEFINE b == campaign.brief
           e == req[r].extracted
           m == Merge(b, e)
           q == [req[r] EXCEPT !.pc = "reevaluate", !.newBrief = m, !.brief = m]
<1>1. req[r].pc = "patch"
  BY DEF PatchBrief, At
<1>2. req[r] \in Request /\ Fits(req[r], r, campaign, Holder, Count) /\ campaign # None /\ b \in Brief
  <2>1. req[r].pc # "idle"
    BY <1>1
  <2> QED BY <2>1, UnderWay DEF Fits
<1>3. /\ e \in Brief /\ req[r].newBrief = None
      /\ req[r].changes = BriefChanges(b, e) /\ req[r].changes # NoChanges
  BY <1>1, <1>2 DEF Fits
<1>4. BriefSeen(r) = b /\ Merge(b, req[r].changes) = m
  BY <1>2, <1>3, MergeChanges DEF BriefSeen
<1>5. m \in Brief
  BY <1>2, <1>3, MergeType
<1>6. /\ Step(r, q) /\ UNCHANGED <<campaign, messages, facts, basis>>
      /\ lock' = [row \in Rows |-> r] /\ Free("conversation", r)
  BY <1>4 DEF PatchBrief
<1>7. q \in Request
  <2> HIDE DEF m
  <2> QED BY <1>2, <1>5 DEF Request, PCs
<1>8. /\ q.pc = "reevaluate" /\ q.status = req[r].status /\ q.newBrief = m
      /\ q.plan = req[r].plan /\ q.said = req[r].said /\ q.extracted = e
      /\ q.changes = req[r].changes /\ q.brief = m
  <2> HIDE DEF m
  <2> QED BY <1>2 DEF Request
<1>9. Merged(q, campaign)
  <2> HIDE DEF q
  <2> QED BY <1>1, <1>2, <1>3, <1>8 DEF Merged, Fits
<1>10. /\ lock' \in [Rows -> Requests \cup {None}] /\ Holder' = r
       /\ \A s \in Requests : s # r /\ Holder = s => Holder' = s
  BY <1>6, LocksBoth
<1>11. Fits(q, r, campaign, Holder', Count)
  <2> HIDE DEF q, m
  <2> QED BY <1>1, <1>2, <1>3, <1>8, <1>9, <1>10 DEF Fits, Holding, TurnEnds, PlanEnds
<1> HIDE DEF q
<1> QED BY <1>6, <1>7, <1>10, <1>11, LocalStep

\* The test of _reevaluate_readiness: what it leaves as it is fits the new brief.
LEMMA ReevaluateKeeps ==
    ASSUME Consistent, NEW r \in Requests, Reevaluate(r)
    PROVE  Consistent'
<1> DEFINE b == campaign.brief
           changed == req[r].changes # NoChanges
           target == StatusForReadiness(req[r].brief)
           settled == \/ StatusSeen(r) \in {"GENERATING", "PLAN_READY"} /\ ~ changed
                      \/ StatusSeen(r) = target
           p == IF settled THEN "reply" ELSE "restatus"
           q == [req[r] EXCEPT !.pc = p]
<1>1. req[r].pc = "reevaluate"
  BY DEF Reevaluate, At
<1>2. /\ req[r] \in Request /\ Fits(req[r], r, campaign, Holder, Count) /\ campaign # None /\ b \in Brief
      /\ campaign.status = "BRIEFING" <=> ~ Ready(b)
      /\ campaign.status # "GENERATING" /\ campaign.status \in Statuses
  <2>1. req[r].pc # "idle"
    BY <1>1
  <2>2. campaign # None
    BY <1>1 DEF Consistent, Fits
  <2> QED BY <2>1, <2>2, UnderWay
<1>3. Merged(req[r], campaign) /\ req[r].status = None
  BY <1>1, <1>2 DEF Fits
<1>4. StatusSeen(r) = campaign.status
  BY <1>3 DEF StatusSeen
<1>5. Rollback(r) \/ (Step(r, q) /\ UNCHANGED <<campaign, messages, lock, facts, basis>>)
  BY DEF Reevaluate
<1>6. q \in Request
  <2>1. p \in PCs
    BY DEF PCs
  <2> HIDE DEF p
  <2> QED BY <1>2, <2>1, WithPc
<1>7. /\ q.pc = p /\ q.status = None /\ q.newBrief = req[r].newBrief
      /\ q.plan = req[r].plan /\ q.said = req[r].said /\ q.extracted = req[r].extracted
      /\ q.changes = req[r].changes /\ q.brief = req[r].brief
  <2> HIDE DEF p
  <2> QED BY <1>2, <1>3 DEF Request
<1>8. Merged(q, campaign)
  <2> HIDE DEF q
  <2> QED BY <1>3, <1>7 DEF Merged
<1>9. settled => Judged(q, campaign)
  <2>1. ~ changed => req[r].brief = b
    BY <1>2, <1>3, MergeNothing DEF Merged
  <2>2. target \in {"READY", "BRIEFING"} /\ (target = "BRIEFING" <=> ~ Ready(req[r].brief))
    BY ReadinessStatus
  <2> HIDE DEF q, target
  <2> QED BY <1>2, <1>3, <1>4, <1>7, <2>1, <2>2 DEF Judged
<1>10. Fits(q, r, campaign, Holder, Count)
  <2>1. CASE settled
    <3>1. q.pc = "reply"
      BY <1>7, <2>1
    <3> HIDE DEF q, p, settled
    <3> QED BY <1>1, <1>2, <1>7, <1>8, <1>9, <2>1, <3>1 DEF Fits, Holding, TurnEnds, PlanEnds
  <2>2. CASE ~ settled
    <3>1. q.pc = "restatus"
      BY <1>7, <2>2
    <3> HIDE DEF q, p, settled
    <3> QED BY <1>1, <1>2, <1>7, <1>8, <2>2, <3>1 DEF Fits, Holding, TurnEnds, PlanEnds
  <2> QED BY <2>1, <2>2
<1> HIDE DEF q
<1> QED BY <1>5, <1>6, <1>10, QuietStep, RollbackKeeps

LEMMA ReadinessWritten ==
    ASSUME Consistent, NEW r \in Requests, WriteReadiness(r)
    PROVE  Consistent'
<1> DEFINE target == StatusForReadiness(req[r].brief)
           q == [req[r] EXCEPT !.pc = "reply", !.status = target]
<1>1. req[r].pc = "restatus"
  BY DEF WriteReadiness, At
<1>2. req[r] \in Request /\ Fits(req[r], r, campaign, Holder, Count) /\ campaign # None
  BY <1>1, CampaignConstants DEF Consistent, TypeOK, Fits
<1>3. target \in {"READY", "BRIEFING"} /\ (target = "BRIEFING" <=> ~ Ready(req[r].brief))
  BY ReadinessStatus
<1>4. /\ Step(r, q) /\ UNCHANGED <<campaign, messages, facts, basis>>
      /\ lock' = [row \in Rows |-> r] /\ Free("conversation", r)
  BY DEF WriteReadiness
<1>5. q \in Request
  <2> HIDE DEF target
  <2> QED BY <1>2, <1>3 DEF Request, PCs, Statuses
<1>6. /\ q.pc = "reply" /\ q.status = target /\ q.newBrief = req[r].newBrief
      /\ q.plan = req[r].plan /\ q.said = req[r].said /\ q.extracted = req[r].extracted
      /\ q.changes = req[r].changes /\ q.brief = req[r].brief
  <2> HIDE DEF target
  <2> QED BY <1>2 DEF Request
<1>7. Merged(q, campaign)
  <2>1. Merged(req[r], campaign)
    BY <1>1, <1>2 DEF Fits
  <2> HIDE DEF q
  <2> QED BY <1>6, <2>1 DEF Merged
<1>8. Judged(q, campaign)
  <2>1. target # None
    BY <1>3, CampaignConstants DEF Statuses
  <2> HIDE DEF q, target
  <2> QED BY <1>3, <1>6, <2>1 DEF Judged
<1>9. /\ lock' \in [Rows -> Requests \cup {None}] /\ Holder' = r
      /\ \A s \in Requests : s # r /\ Holder = s => Holder' = s
  BY <1>4, LocksBoth
<1>10. Fits(q, r, campaign, Holder', Count)
  <2> HIDE DEF q, target
  <2> QED BY <1>1, <1>2, <1>6, <1>7, <1>8, <1>9 DEF Fits, Holding, TurnEnds, PlanEnds
<1> HIDE DEF q
<1> QED BY <1>4, <1>5, <1>9, <1>10, LocalStep

----------------------------------------------------------------------------
\* append_message numbers a message after every one it sees.
LEMMA LargestOf ==
    ASSUME NEW n \in Nat, NEW S, S = 0 .. n
    PROVE  Max(S) = n
<1>1. n \in S /\ \A y \in S : n >= y
  OBVIOUS
<1>2. \A x \in S : (\A y \in S : x >= y) => x = n
  BY <1>1
<1> QED BY <1>1, <1>2 DEF Max

LEMMA Numbered ==
    ASSUME Consistent
    PROVE  Count \in Nat /\ {m.sequence : m \in messages} = 1 .. Count
BY FS_CardinalityType DEF Consistent, Committed, TurnsContiguous, Count

LEMMA UserAppended ==
    ASSUME Consistent, NEW r \in Requests, AppendUser(r)
    PROVE  Consistent'
<1> DEFINE u == UserMessage(r, Count)
           q == [req[r] EXCEPT !.pc = "extract", !.said = @ \cup {u}]
<1>1. req[r].pc = "append"
  BY DEF AppendUser, At
<1>2. /\ req[r] \in Request /\ Fits(req[r], r, campaign, Holder, Count) /\ campaign # None
      /\ lock \in [Rows -> Requests \cup {None}]
  BY <1>1 DEF Consistent, TypeOK, Fits
<1>3. req[r].said = {}
  BY <1>1, <1>2 DEF Fits
<1>4. NextSequence(r) = Count + 1
  <2>1. Count \in Nat /\ {m.sequence : m \in messages} = 1 .. Count
    BY Numbered
  <2>2. {0} \cup {m.sequence : m \in messages \cup req[r].said} = 0 .. Count
    BY <1>3, <2>1
  <2>3. Max({0} \cup {m.sequence : m \in messages \cup req[r].said}) = Count
    BY <2>1, <2>2, LargestOf
  <2> QED BY <2>1, <2>3 DEF NextSequence
<1>5. u = [sequence |-> NextSequence(r), role |-> "user", turn |-> r]
  BY <1>4 DEF UserMessage
<1>6. /\ Step(r, q) /\ UNCHANGED <<campaign, messages, facts, basis>>
      /\ lock' = [lock EXCEPT !["conversation"] = r] /\ Free("conversation", r)
  <2> HIDE DEF u
  <2> QED BY <1>5 DEF AppendUser, AppendMessage
<1>7. u \in Message
  BY Numbered DEF Message, UserMessage
<1>8. q \in Request
  <2> HIDE DEF u
  <2> QED BY <1>2, <1>7 DEF Request, PCs
<1>9. /\ q.pc = "extract" /\ q.status = req[r].status /\ q.newBrief = req[r].newBrief
      /\ q.plan = req[r].plan /\ q.said = {u} /\ q.extracted = req[r].extracted
  <2> HIDE DEF u
  <2> QED BY <1>2, <1>3 DEF Request
<1>10. /\ lock' \in [Rows -> Requests \cup {None}] /\ Holder' = r
       /\ \A s \in Requests : s # r /\ Holder = s => Holder' = s
  BY <1>2, <1>6, CampaignConstants DEF Holder, Rows, Free
<1>11. Fits(q, r, campaign, Holder', Count)
  <2> HIDE DEF q
  <2> QED BY <1>1, <1>2, <1>9, <1>10 DEF Fits, Holding, TurnEnds, PlanEnds
<1> HIDE DEF q
<1> QED BY <1>6, <1>8, <1>10, <1>11, LocalStep

LEMMA AssistantAppended ==
    ASSUME Consistent, NEW r \in Requests, AppendAssistant(r)
    PROVE  Consistent'
<1> DEFINE u == UserMessage(r, Count)
           a == Answer(r, Count)
           q == [req[r] EXCEPT !.pc = "commit", !.said = @ \cup {a}]
<1>1. req[r].pc = "reply"
  BY DEF AppendAssistant, At
<1>2. /\ req[r] \in Request /\ Fits(req[r], r, campaign, Holder, Count) /\ campaign # None
      /\ lock \in [Rows -> Requests \cup {None}]
  BY <1>1 DEF Consistent, TypeOK, Fits
<1>3. req[r].said = {u} /\ Merged(req[r], campaign) /\ Judged(req[r], campaign)
  BY <1>1, <1>2 DEF Fits
<1>4. NextSequence(r) = Count + 2
  <2>1. Count \in Nat /\ {m.sequence : m \in messages} = 1 .. Count
    BY Numbered
  <2>2. u.sequence = Count + 1
    BY DEF UserMessage
  <2>3. {m.sequence : m \in messages \cup {u}} = {m.sequence : m \in messages} \cup {Count + 1}
    <3> HIDE DEF u
    <3> QED BY <2>2
  <2>4. {0} \cup {m.sequence : m \in messages \cup req[r].said} = 0 .. (Count + 1)
    <3> HIDE DEF u
    <3> QED BY <1>3, <2>1, <2>3
  <2>5. Max({0} \cup {m.sequence : m \in messages \cup req[r].said}) = Count + 1
    <3>1. Count + 1 \in Nat
      BY <2>1
    <3> HIDE DEF u
    <3> QED BY <2>4, <3>1, LargestOf
  <2> QED BY <2>1, <2>5 DEF NextSequence
<1>5. a = [sequence |-> NextSequence(r), role |-> "assistant", turn |-> r]
  BY <1>4 DEF Answer
<1>6. /\ Step(r, q) /\ UNCHANGED <<campaign, messages, facts, basis>>
      /\ lock' = [lock EXCEPT !["conversation"] = r] /\ Free("conversation", r)
  <2> HIDE DEF a
  <2> QED BY <1>5 DEF AppendAssistant, AppendMessage
<1>7. a \in Message
  BY Numbered DEF Message, Answer
<1>8. q \in Request
  <2> HIDE DEF a
  <2> QED BY <1>2, <1>7 DEF Request, PCs
<1>9. /\ q.pc = "commit" /\ q.status = req[r].status /\ q.newBrief = req[r].newBrief
      /\ q.plan = req[r].plan /\ q.said = {u, a} /\ q.extracted = req[r].extracted
      /\ q.changes = req[r].changes /\ q.brief = req[r].brief
  <2> HIDE DEF u, a
  <2> QED BY <1>2, <1>3 DEF Request
<1>10. /\ lock' \in [Rows -> Requests \cup {None}] /\ Holder' = r
       /\ \A s \in Requests : s # r /\ Holder = s => Holder' = s
  BY <1>2, <1>6, CampaignConstants DEF Holder, Rows, Free
<1>11. Merged(q, campaign)
  <2> HIDE DEF q
  <2> QED BY <1>3, <1>9 DEF Merged
<1>12. Judged(q, campaign)
  <2> HIDE DEF q
  <2> QED BY <1>3, <1>9 DEF Judged
<1>13. q.extracted # None
  <2> HIDE DEF q
  <2> QED BY <1>11, NoneIsAbsent DEF Merged
<1>14. Fits(q, r, campaign, Holder', Count)
  <2> HIDE DEF q
  <2> QED BY <1>1, <1>2, <1>9, <1>10, <1>11, <1>12, <1>13 DEF Fits, Holding, TurnEnds, PlanEnds
<1> HIDE DEF q
<1> QED BY <1>6, <1>8, <1>10, <1>14, LocalStep

----------------------------------------------------------------------------
\* A generation.
LEMMA GenerationRequested ==
    ASSUME Consistent, NEW r \in Requests, RequestGeneration(r)
    PROVE  Consistent'
<1> DEFINE b == campaign.brief
           q == [req[r] EXCEPT !.pc = "requested", !.brief = b]
<1>1. /\ req[r] \in Request /\ Fits(req[r], r, campaign, Holder, Count)
      /\ req[r].pc = "idle" /\ campaign # None /\ b \in Brief
  BY DEF Consistent, TypeOK, RequestGeneration, At, Record
<1>2. req[r] = Idle
  BY <1>1 DEF Fits
<1>3. q \in Request
  <2> HIDE DEF b
  <2> QED BY <1>1 DEF Request, PCs
<1>4. /\ q.pc = "requested" /\ q.status = None /\ q.newBrief = None /\ q.plan = None
      /\ q.said = {} /\ q.extracted = None /\ q.brief = b
  <2> HIDE DEF b
  <2> QED BY <1>2 DEF Idle
<1>5. Fits(q, r, campaign, Holder, Count)
  <2> HIDE DEF q
  <2> QED BY <1>1, <1>4 DEF Fits, Holding, TurnEnds, PlanEnds
<1>6. Step(r, q) /\ UNCHANGED <<campaign, messages, lock, facts, basis>>
  BY DEF RequestGeneration
<1> HIDE DEF q
<1> QED BY <1>3, <1>5, <1>6, QuietStep

\* READY is seen only of a complete brief.
LEMMA ReadyChecked ==
    ASSUME Consistent, NEW r \in Requests, CheckReady(r)
    PROVE  Consistent'
<1> DEFINE q == [req[r] EXCEPT !.pc = "claim"]
<1>1. req[r].pc = "requested"
  BY DEF CheckReady, At
<1>2. /\ req[r] \in Request /\ Fits(req[r], r, campaign, Holder, Count)
      /\ campaign.status = "BRIEFING" <=> ~ Ready(campaign.brief)
  <2>1. req[r].pc # "idle"
    BY <1>1
  <2> QED BY <2>1, UnderWay
<1>3. req[r].status = None /\ campaign # None
  BY <1>1, <1>2 DEF Fits
<1>4. CASE Rollback(r)
  BY <1>4, RollbackKeeps
<1>5. CASE ~ Rollback(r)
  <2>1. /\ Accepts(StatusSeen(r), "GENERATION_REQUESTED")
        /\ Step(r, q) /\ UNCHANGED <<campaign, messages, lock, facts, basis>>
    BY <1>5 DEF CheckReady
  <2>2. StatusSeen(r) = "READY" /\ StatusSeen(r) = campaign.status
    BY <1>3, <2>1, Transitions DEF StatusSeen
  <2>3. Ready(campaign.brief)
    BY <1>2, <2>2
  <2>4. q \in Request
    BY <1>2, WithPc DEF PCs
  <2>5. /\ q.pc = "claim" /\ q.status = req[r].status /\ q.newBrief = req[r].newBrief
        /\ q.plan = req[r].plan /\ q.said = req[r].said /\ q.extracted = req[r].extracted
        /\ q.brief = req[r].brief
    BY <1>2 DEF Request
  <2>6. Fits(q, r, campaign, Holder, Count)
    <3> HIDE DEF q
    <3> QED BY <1>1, <1>2, <1>3, <2>3, <2>5 DEF Fits, Holding, TurnEnds, PlanEnds
  <2> HIDE DEF q
  <2> QED BY <2>1, <2>4, <2>6, QuietStep
<1> QED BY <1>4, <1>5

LEMMA CampaignClaimed ==
    ASSUME Consistent, NEW r \in Requests, ClaimCampaign(r)
    PROVE  Consistent'
<1> DEFINE q == [req[r] EXCEPT !.pc = "claim_conversation"]
<1>1. req[r].pc = "claim"
  BY DEF ClaimCampaign, At
<1>2. /\ req[r] \in Request /\ Fits(req[r], r, campaign, Holder, Count)
      /\ lock \in [Rows -> Requests \cup {None}]
  BY DEF Consistent, TypeOK
<1>3. Step(r, q) /\ UNCHANGED <<campaign, messages, facts, basis>> /\ lock' = [lock EXCEPT !["campaign"] = r]
  BY DEF ClaimCampaign
<1>4. lock' \in [Rows -> Requests \cup {None}] /\ Holder' = Holder
  BY <1>2, <1>3 DEF Holder, Rows
<1>5. q \in Request
  BY <1>2, WithPc DEF PCs
<1>6. /\ q.pc = "claim_conversation" /\ q.status = req[r].status /\ q.newBrief = req[r].newBrief
      /\ q.plan = req[r].plan /\ q.said = req[r].said /\ q.extracted = req[r].extracted
      /\ q.brief = req[r].brief
  BY <1>2 DEF Request
<1>7. Fits(q, r, campaign, Holder', Count)
  <2> HIDE DEF q
  <2> QED BY <1>1, <1>2, <1>4, <1>6 DEF Fits, Holding, TurnEnds, PlanEnds
<1> HIDE DEF q
<1> QED BY <1>3, <1>4, <1>5, <1>7, LocalStep

LEMMA GenerationStarts ==
    ASSUME Consistent, NEW r \in Requests, StartGenerating(r)
    PROVE  Consistent'
<1> DEFINE q == [req[r] EXCEPT !.pc = "candidate", !.attempt = 1, !.status = "GENERATING"]
<1>1. req[r].pc = "claim_conversation"
  BY DEF StartGenerating, At
<1>2. /\ req[r] \in Request /\ Fits(req[r], r, campaign, Holder, Count)
      /\ lock \in [Rows -> Requests \cup {None}]
  BY DEF Consistent, TypeOK
<1>3. /\ Step(r, q) /\ UNCHANGED <<campaign, messages, facts, basis>>
      /\ lock' = [lock EXCEPT !["conversation"] = r] /\ Free("conversation", r)
  BY Transitions DEF StartGenerating
<1>4. /\ lock' \in [Rows -> Requests \cup {None}] /\ Holder' = r
      /\ \A s \in Requests : s # r /\ Holder = s => Holder' = s
  BY <1>2, <1>3, CampaignConstants DEF Holder, Rows, Free
<1>5. q \in Request
  <2> DEFINE q1 == [req[r] EXCEPT !.pc = "candidate", !.attempt = 1]
  <2>1. 1 \in 0 .. MaxPlanGenerationAttempts
    BY DEF MaxPlanGenerationAttempts
  <2>2. q1 \in Request
    BY <1>2, <2>1 DEF Request, PCs
  <2>3. q = [q1 EXCEPT !.status = "GENERATING"]
    BY <1>2 DEF Request
  <2> HIDE DEF q1
  <2>4. [q1 EXCEPT !.status = "GENERATING"] \in Request
    BY <2>2 DEF Request, Statuses
  <2> QED BY <2>3, <2>4
<1>6. /\ q.pc = "candidate" /\ q.status = "GENERATING" /\ q.newBrief = req[r].newBrief
      /\ q.plan = req[r].plan /\ q.said = req[r].said /\ q.extracted = req[r].extracted
      /\ q.brief = req[r].brief
  BY <1>2 DEF Request
<1>7. Fits(q, r, campaign, Holder', Count)
  <2> HIDE DEF q
  <2> QED BY <1>1, <1>2, <1>4, <1>6 DEF Fits, Holding, TurnEnds, PlanEnds
<1> HIDE DEF q
<1> QED BY <1>3, <1>4, <1>5, <1>7, LocalStep

LEMMA PlanSaved ==
    ASSUME Consistent, NEW r \in Requests, NEW plan \in Candidates, SavePlan(r, plan)
    PROVE  Consistent'
<1> DEFINE q == [req[r] EXCEPT !.pc = "commit", !.plan = plan, !.status = "PLAN_READY"]
<1>1. req[r].pc = "candidate" /\ plan \in Plan /\ Issues(req[r].brief, plan) = {}
  BY CampaignConstants DEF SavePlan, At
<1>2. req[r] \in Request /\ Fits(req[r], r, campaign, Holder, Count)
  BY DEF Consistent, TypeOK
<1>3. req[r].status = "GENERATING"
  BY <1>1, <1>2 DEF Fits
<1>4. StatusSeen(r) = "GENERATING"
  BY <1>3, CampaignConstants DEF StatusSeen, Statuses
<1>5. Step(r, q) /\ UNCHANGED <<campaign, messages, lock, facts, basis>>
  BY <1>4, Transitions DEF SavePlan
<1>6. q \in Request
  BY <1>1, <1>2 DEF Request, PCs, Statuses
<1>7. /\ q.pc = "commit" /\ q.status = "PLAN_READY" /\ q.newBrief = req[r].newBrief
      /\ q.plan = plan /\ q.said = req[r].said /\ q.extracted = req[r].extracted
      /\ q.brief = req[r].brief
  BY <1>2 DEF Request
<1>8. Fits(q, r, campaign, Holder, Count)
  <2> HIDE DEF q
  <2> QED BY <1>1, <1>2, <1>7 DEF Fits, Holding, TurnEnds, PlanEnds
<1> HIDE DEF q
<1> QED BY <1>5, <1>6, <1>8, QuietStep

LEMMA CandidateRejected ==
    ASSUME Consistent, NEW r \in Requests, RejectCandidate(r)
    PROVE  Consistent'
<1> DEFINE q == [req[r] EXCEPT !.attempt = @ + 1]
<1>1. req[r].pc = "candidate"
  BY DEF RejectCandidate, At
<1>2. req[r] \in Request /\ Fits(req[r], r, campaign, Holder, Count)
  BY DEF Consistent, TypeOK
<1>3. CASE Rollback(r)
  BY <1>3, RollbackKeeps
<1>4. CASE ~ Rollback(r)
  <2>1. /\ Step(r, q) /\ UNCHANGED <<campaign, messages, lock, facts, basis>>
        /\ req[r].attempt # 2
    BY <1>4 DEF RejectCandidate, MaxPlanGenerationAttempts
  <2>2. req[r].attempt + 1 \in 0 .. 2
    BY <1>2, <2>1 DEF Request, MaxPlanGenerationAttempts
  <2>3. q \in Request
    BY <1>2, <2>2 DEF Request, MaxPlanGenerationAttempts
  <2>4. /\ q.pc = "candidate" /\ q.status = req[r].status /\ q.newBrief = req[r].newBrief
        /\ q.plan = req[r].plan /\ q.said = req[r].said /\ q.extracted = req[r].extracted
        /\ q.brief = req[r].brief
    BY <1>1, <1>2 DEF Request
  <2>5. Fits(q, r, campaign, Holder, Count)
    <3> HIDE DEF q
    <3> QED BY <1>1, <1>2, <2>4 DEF Fits, Holding, TurnEnds, PlanEnds
  <2> HIDE DEF q
  <2> QED BY <2>1, <2>3, <2>5, QuietStep
<1> QED BY <1>3, <1>4

----------------------------------------------------------------------------
\* A committed turn adds its two messages behind all others.
LEMMA TurnAdded ==
    ASSUME Consistent, NEW r \in Requests,
           messages' = messages \cup {UserMessage(r, Count), Answer(r, Count)}
    PROVE  TurnsContiguous' /\ IsFiniteSet(messages)' /\ (Cardinality(messages) % 2 = 0)'
<1> DEFINE u == UserMessage(r, Count)
           a == Answer(r, Count)
           M1 == messages \cup {u}
<1>1. /\ Count \in Nat /\ IsFiniteSet(messages) /\ Count % 2 = 0
      /\ {m.sequence : m \in messages} = 1 .. Count
  BY Numbered DEF Consistent, Committed, Count
<1>2. \A m \in messages : m.sequence \in 1 .. Count
  BY <1>1
<1>3. u.sequence = Count + 1 /\ u.role = "user" /\ u.turn = r
  BY DEF UserMessage
<1>4. a.sequence = Count + 2 /\ a.role = "assistant"
  BY DEF Answer
<1>5. a = [sequence |-> u.sequence + 1, role |-> "assistant", turn |-> u.turn]
  BY <1>1, <1>3 DEF Answer
<1> HIDE DEF u, a
<1>6. u \notin messages
  BY <1>1, <1>2, <1>3
<1>7. a \notin M1
  BY <1>1, <1>2, <1>3, <1>4
<1>8. IsFiniteSet(M1) /\ Cardinality(M1) = Count + 1
  BY <1>1, <1>6, FS_AddElement DEF Count
<1>9. messages' = M1 \cup {a}
  BY DEF u, a
<1>10. IsFiniteSet(messages') /\ Cardinality(messages') = Count + 2
  <2>1. IsFiniteSet(M1 \cup {a}) /\ Cardinality(M1 \cup {a}) = Cardinality(M1) + 1
    <3> HIDE DEF M1
    <3> QED BY <1>7, <1>8, FS_AddElement
  <2>2. Cardinality(M1) + 1 = Count + 2
    <3> HIDE DEF M1
    <3> QED BY <1>1, <1>8
  <2> HIDE DEF M1
  <2> QED BY <1>9, <2>1, <2>2
<1>11. {m.sequence : m \in messages'} = 1 .. (Count + 2)
  <2>1. {m.sequence : m \in messages'} = {m.sequence : m \in messages} \cup {Count + 1, Count + 2}
    BY <1>3, <1>4, <1>9
  <2>2. \A n \in Nat : 1 .. (n + 2) = (1 .. n) \cup {n + 1, n + 2}
    OBVIOUS
  <2> QED BY <1>1, <2>1, <2>2
<1>12. ASSUME NEW m \in messages'
       PROVE  IF m.sequence % 2 = 1
              THEN /\ m.role = "user"
                   /\ [sequence |-> m.sequence + 1, role |-> "assistant", turn |-> m.turn] \in messages'
              ELSE m.role = "assistant"
  <2>1. CASE m \in messages
    <3>1. IF m.sequence % 2 = 1
          THEN /\ m.role = "user"
               /\ [sequence |-> m.sequence + 1, role |-> "assistant", turn |-> m.turn] \in messages
          ELSE m.role = "assistant"
      BY <2>1 DEF Consistent, Committed, TurnsContiguous
    <3> QED BY <1>9, <3>1
  <2>2. CASE m = u
    <3>1. u.sequence % 2 = 1
      BY <1>1, <1>3
    <3> QED BY <1>3, <1>5, <1>9, <2>2, <3>1
  <2>3. CASE m = a
    <3>1. a.sequence % 2 # 1
      BY <1>1, <1>4
    <3> QED BY <1>4, <2>3, <3>1
  <2> QED BY <1>9, <2>1, <2>2, <2>3
<1>13. TurnsContiguous'
  BY <1>10, <1>11, <1>12 DEF TurnsContiguous
<1>14. (Count + 2) % 2 = 0
  BY <1>1
<1> QED BY <1>10, <1>13, <1>14

\* A commit by r: nobody else held the conversation, so nobody relied on what the
\* commit changes, except that the brief is complete.
LEMMA Publishes ==
    ASSUME Consistent, NEW r \in Requests, Commit(r), Committed', campaign' \in Record,
           messages' \subseteq Message, facts' \in {None} \cup Brief, basis' \in {None} \cup Brief,
           Ready(campaign.brief) => Ready(campaign'.brief)
    PROVE  Consistent'
<1>1. /\ req' = [req EXCEPT ![r] = Idle] /\ req \in [Requests -> Request]
      /\ lock \in [Rows -> Requests \cup {None}] /\ lock' = Released(r)
      /\ req[r].pc = "commit" /\ campaign' # None
  BY NoneIsAbsent DEF Commit, Step, Consistent, TypeOK, At
<1>2. Idle \in Request
  BY DEF Idle, Request, PCs, MaxPlanGenerationAttempts
<1>3. lock' \in [Rows -> Requests \cup {None}]
  BY <1>1 DEF Released
<1>4. TypeOK'
  BY <1>1, <1>2, <1>3 DEF TypeOK
<1>5. Holder = r
  <2>1. Fits(req[r], r, campaign, Holder, Count)
    BY DEF Consistent
  <2> QED BY <1>1, <2>1 DEF Fits, Holding
<1>6. ASSUME NEW s \in Requests PROVE Fits(req'[s], s, campaign', Holder', Count')
  <2>1. CASE s = r
    <3>1. req'[s] = Idle
      BY <1>1, <2>1
    <3>2. Fits(Idle, s, campaign', Holder', Count')
      BY DEF Fits, Idle, Holding, TurnEnds, PlanEnds
    <3> QED BY <3>1, <3>2
  <2>2. CASE s # r
    <3>1. req'[s] = req[s] /\ Fits(req[s], s, campaign, Holder, Count)
      BY <1>1, <2>2 DEF Consistent
    <3>2. req[s].pc \notin Holding
      BY <1>5, <2>2, <3>1 DEF Fits
    <3>3. Fits(req[s], s, campaign', Holder', Count')
      BY <1>1, <3>1, <3>2 DEF Fits, Holding, TurnEnds, PlanEnds
    <3> QED BY <3>1, <3>3
  <2> QED BY <2>1, <2>2
<1> QED BY <1>4, <1>6 DEF Consistent

\* What a committed turn publishes.
LEMMA TurnPublishes ==
    ASSUME Consistent, NEW r \in Requests, Commit(r), req[r].extracted # None
    PROVE  /\ campaign \in Record /\ Merged(req[r], campaign) /\ Judged(req[r], campaign)
           /\ campaign'.brief = req[r].brief /\ campaign'.plan = campaign.plan
           /\ campaign'.status = StatusSeen(r) /\ campaign' \in Record
           /\ req[r].said = {UserMessage(r, Count), Answer(r, Count)}
           /\ req[r].changes = NoChanges => req[r].brief = campaign.brief
<1>1. req[r].pc = "commit" /\ TurnEnds(req[r])
  BY DEF Commit, At, TurnEnds
<1>2. /\ req[r] \in Request /\ Fits(req[r], r, campaign, Holder, Count)
      /\ campaign \in Record /\ campaign.brief \in Brief /\ campaign.status \in Statuses
  <2>1. req[r].pc # "idle"
    BY <1>1
  <2> QED BY <2>1, UnderWay
<1>3. /\ Merged(req[r], campaign) /\ Judged(req[r], campaign)
      /\ req[r].said = {UserMessage(r, Count), Answer(r, Count)}
  BY <1>1, <1>2 DEF Fits
<1>4. /\ req[r].extracted \in Brief /\ req[r].brief = Merge(campaign.brief, req[r].extracted)
      /\ req[r].changes = BriefChanges(campaign.brief, req[r].extracted) /\ req[r].plan = None
      /\ req[r].newBrief = IF req[r].changes = NoChanges THEN None ELSE req[r].brief
  BY <1>3 DEF Merged
<1>5. req[r].brief \in Brief /\ (req[r].changes = NoChanges => req[r].brief = campaign.brief)
  BY <1>2, <1>4, MergeType, MergeNothing
<1>6. BriefSeen(r) = req[r].brief
  BY <1>4, <1>5, NoneIsAbsent DEF BriefSeen
<1>7. PlanSeen(r) = campaign.plan /\ campaign.plan \in {None} \cup Plan
  BY <1>2, <1>4 DEF PlanSeen, Record
<1>8. StatusSeen(r) \in Statuses
  BY <1>2 DEF StatusSeen, Request
<1>9. campaign' = [status |-> StatusSeen(r), brief |-> BriefSeen(r), plan |-> PlanSeen(r)]
  BY DEF Commit
<1>10. campaign' \in Record
  BY <1>5, <1>6, <1>7, <1>8, <1>9 DEF Record
<1> QED BY <1>2, <1>3, <1>5, <1>6, <1>7, <1>9, <1>10

LEMMA TurnCommitted ==
    ASSUME Consistent, NEW r \in Requests, Commit(r), req[r].extracted # None
    PROVE  Consistent'
<1> DEFINE e == req[r].extracted
           b == campaign.brief
<1>1. /\ campaign \in Record /\ Merged(req[r], campaign) /\ Judged(req[r], campaign)
      /\ campaign'.brief = req[r].brief /\ campaign'.plan = campaign.plan
      /\ campaign'.status = StatusSeen(r) /\ campaign' \in Record
      /\ req[r].said = {UserMessage(r, Count), Answer(r, Count)}
  BY TurnPublishes
<1>2. /\ e \in Brief /\ req[r].brief = Merge(b, e) /\ req[r].plan = None
  BY <1>1 DEF Merged
<1>3. b \in Brief /\ campaign # None /\ campaign' # None /\ Merge(b, e) \in Brief
  BY <1>1, <1>2, NoneIsAbsent, MergeType DEF Record
<1>4. messages' = messages \cup {UserMessage(r, Count), Answer(r, Count)} /\ messages' \subseteq Message
  <2>1. messages' = messages \cup req[r].said /\ req[r].said \subseteq Message /\ messages \subseteq Message
    BY DEF Commit, Consistent, TypeOK, Request
  <2> QED BY <1>1, <2>1
<1>5. facts = b
  BY <1>3 DEF Consistent, Committed, NoFactLost
<1>6. facts' = Merge(b, e)
  BY <1>5 DEF Commit
<1>7. basis' = basis /\ basis \in {None} \cup Brief
  BY <1>2 DEF Commit, Consistent, TypeOK
<1>8. NoFactLost'
  BY <1>1, <1>2, <1>6 DEF NoFactLost
<1>9. ReadinessAgrees'
  <2>1. StatusSeen(r) = "BRIEFING" <=> ~ Ready(req[r].brief)
    BY <1>1 DEF Judged, StatusSeen
  <2> QED BY <1>1, <2>1 DEF ReadinessAgrees
<1>10. req[r].status \in {None, "READY", "BRIEFING"}
  BY <1>1 DEF Judged
<1>11. NeverStuckGenerating'
  <2>1. campaign.status # "GENERATING"
    BY <1>3 DEF Consistent, Committed, NeverStuckGenerating
  <2>2. StatusSeen(r) # "GENERATING"
    BY <1>10, <2>1 DEF StatusSeen
  <2> QED BY <1>1, <2>2 DEF NeverStuckGenerating
<1>12. SavedPlanWasValid'
  <2>1. /\ campaign.plan # None => basis # None /\ Issues(basis, campaign.plan) = {}
        /\ campaign.status = "PLAN_READY" => campaign.plan # None
    BY <1>3 DEF Consistent, Committed, SavedPlanWasValid
  <2>2. StatusSeen(r) = "PLAN_READY" => campaign.status = "PLAN_READY"
    BY <1>10 DEF StatusSeen
  <2> QED BY <1>1, <1>7, <2>1, <2>2 DEF SavedPlanWasValid
<1>13. TurnsContiguous' /\ IsFiniteSet(messages)' /\ (Cardinality(messages) % 2 = 0)'
  BY <1>4, TurnAdded
<1>14. Committed'
  BY <1>8, <1>9, <1>11, <1>12, <1>13 DEF Committed
<1>15. Ready(b) => Ready(campaign'.brief)
  BY <1>1, <1>2, <1>3, ReadyStays
<1> QED BY <1>1, <1>3, <1>4, <1>6, <1>7, <1>14, <1>15, Publishes

LEMMA PlanPublishes ==
    ASSUME Consistent, NEW r \in Requests, Commit(r), req[r].extracted = None
    PROVE  /\ campaign \in Record /\ campaign' \in Record
           /\ campaign'.brief = campaign.brief /\ campaign'.plan = req[r].plan
           /\ campaign'.status = "PLAN_READY" /\ Ready(campaign.brief)
           /\ req[r].plan \in Plan /\ req[r].brief \in Brief /\ req[r].said = {}
           /\ Issues(req[r].brief, req[r].plan) = {}
<1>1. req[r].pc = "commit" /\ PlanEnds(req[r])
  BY DEF Commit, At, PlanEnds
<1>2. /\ Fits(req[r], r, campaign, Holder, Count)
      /\ campaign \in Record /\ campaign.brief \in Brief
  <2>1. req[r].pc # "idle"
    BY <1>1
  <2> QED BY <2>1, UnderWay
<1>3. /\ req[r].status = "PLAN_READY" /\ req[r].newBrief = None /\ req[r].said = {}
      /\ req[r].plan \in Plan /\ req[r].brief \in Brief /\ Issues(req[r].brief, req[r].plan) = {}
      /\ Ready(campaign.brief)
  BY <1>1, <1>2 DEF Fits
<1>4. /\ StatusSeen(r) = "PLAN_READY" /\ BriefSeen(r) = campaign.brief /\ PlanSeen(r) = req[r].plan
  BY <1>3, CampaignConstants, NoneIsAbsent DEF StatusSeen, BriefSeen, PlanSeen, Statuses
<1>5. campaign' = [status |-> StatusSeen(r), brief |-> BriefSeen(r), plan |-> PlanSeen(r)]
  BY DEF Commit
<1>6. campaign' \in Record
  BY <1>2, <1>3, <1>4, <1>5 DEF Record, Statuses
<1> QED BY <1>2, <1>3, <1>4, <1>5, <1>6

LEMMA PlanCommitted ==
    ASSUME Consistent, NEW r \in Requests, Commit(r), req[r].extracted = None
    PROVE  Consistent'
<1>1. /\ campaign \in Record /\ campaign' \in Record
      /\ campaign'.brief = campaign.brief /\ campaign'.plan = req[r].plan
      /\ campaign'.status = "PLAN_READY" /\ Ready(campaign.brief)
      /\ req[r].plan \in Plan /\ req[r].brief \in Brief /\ req[r].said = {}
      /\ Issues(req[r].brief, req[r].plan) = {}
  BY PlanPublishes
<1>2. campaign # None /\ campaign' # None /\ req[r].plan # None /\ req[r].brief # None
  BY <1>1, NoneIsAbsent
<1>3. messages' = messages /\ facts' = facts /\ basis' = req[r].brief
  BY <1>1, <1>2 DEF Commit
<1>4. NeverStuckGenerating' /\ ReadinessAgrees'
  BY <1>1 DEF NeverStuckGenerating, ReadinessAgrees
<1>5. SavedPlanWasValid'
  BY <1>1, <1>2, <1>3 DEF SavedPlanWasValid
<1>6. NoFactLost'
  BY <1>1, <1>2, <1>3 DEF NoFactLost, Consistent, Committed
<1>7. Committed'
  BY <1>3, <1>4, <1>5, <1>6 DEF Committed, TurnsContiguous, Consistent
<1> QED BY <1>1, <1>3, <1>7, Publishes DEF Consistent, TypeOK

\* Before its creation a campaign has no request under way.
LEMMA CreationKeeps ==
    ASSUME Consistent, NEW b \in InitialBriefs, CreateCampaign(b)
    PROVE  Consistent'
<1>1. /\ b \in Brief /\ campaign = None /\ facts' = b
      /\ campaign' = [status |-> StatusForReadiness(b), brief |-> b, plan |-> None]
      /\ UNCHANGED <<messages, lock, req, basis>>
  BY CampaignConstants DEF CreateCampaign
<1>2. StatusForReadiness(b) \in {"READY", "BRIEFING"} /\ (StatusForReadiness(b) = "BRIEFING" <=> ~ Ready(b))
  BY ReadinessStatus
<1>3. campaign' \in Record
  BY <1>1, <1>2 DEF Record, Statuses
<1>4. TypeOK'
  BY <1>1, <1>3 DEF Consistent, TypeOK
<1>5. NeverStuckGenerating' /\ ReadinessAgrees' /\ SavedPlanWasValid' /\ NoFactLost'
  BY <1>1, <1>2 DEF NeverStuckGenerating, ReadinessAgrees, SavedPlanWasValid, NoFactLost
<1>6. Committed'
  BY <1>1, <1>5 DEF Committed, TurnsContiguous, Consistent
<1>7. ASSUME NEW s \in Requests PROVE Fits(req'[s], s, campaign', Holder', Count')
  <2>1. Fits(req[s], s, campaign, Holder, Count) /\ req'[s] = req[s]
    BY <1>1 DEF Consistent
  <2>2. req[s] = Idle
    BY <1>1, <2>1 DEF Fits
  <2>3. Fits(Idle, s, campaign', Holder', Count')
    BY DEF Fits, Idle, Holding, TurnEnds, PlanEnds
  <2> QED BY <2>1, <2>2, <2>3
<1> QED BY <1>4, <1>6, <1>7 DEF Consistent

LEMMA ConsistentInit == Init => Consistent
<1> SUFFICES ASSUME Init PROVE Consistent
  OBVIOUS
<1>1. Idle \in Request
  BY DEF Idle, Request, PCs, MaxPlanGenerationAttempts
<1>2. TypeOK
  BY <1>1 DEF Init, TypeOK
<1>3. messages = {} /\ IsFiniteSet(messages) /\ Cardinality(messages) = 0
  BY FS_EmptySet DEF Init
<1>4. Committed
  BY <1>3 DEF Init, Committed, NeverStuckGenerating, ReadinessAgrees, SavedPlanWasValid, NoFactLost,
              TurnsContiguous
<1>5. ASSUME NEW r \in Requests PROVE Fits(req[r], r, campaign, Holder, Count)
  BY DEF Init, Fits, Idle, Holding, TurnEnds, PlanEnds
<1> QED BY <1>2, <1>4, <1>5 DEF Consistent

LEMMA ConsistentStep == Consistent /\ [Next]_vars => Consistent'
<1> SUFFICES ASSUME Consistent, [Next]_vars PROVE Consistent'
  OBVIOUS
<1>1. CASE UNCHANGED vars
  BY <1>1 DEF vars, Consistent, TypeOK, Committed, NeverStuckGenerating, ReadinessAgrees,
              SavedPlanWasValid, NoFactLost, TurnsContiguous, Holder, Count
<1>2. ASSUME NEW b \in InitialBriefs, CreateCampaign(b) PROVE Consistent'
  BY <1>2, CreationKeeps
<1>3. ASSUME NEW r \in Requests, Acquire(r) PROVE Consistent'
  BY <1>3, UserAppended, PatchKeeps, ReadinessWritten, CampaignClaimed, GenerationStarts DEF Acquire
<1>4. ASSUME NEW r \in Requests, Commit(r) PROVE Consistent'
  BY <1>4, TurnCommitted, PlanCommitted
<1>5. ASSUME NEW r \in Requests, Proceed(r) PROVE Consistent'
  BY <1>4, <1>5, ExtractKeeps, CheckKeeps, ChangesComputed, ReevaluateKeeps, AssistantAppended,
     ReadyChecked, PlanSaved, CandidateRejected DEF Proceed
<1>6. ASSUME NEW r \in Requests, Fail(r) \/ BreakDeadlock(r) PROVE Consistent'
  BY <1>6, RollbackKeeps DEF Fail, BreakDeadlock
<1>7. ASSUME NEW r \in Requests, StartTurn(r) \/ RequestGeneration(r) PROVE Consistent'
  BY <1>7, TurnBegins, GenerationRequested
<1> QED BY <1>1, <1>2, <1>3, <1>5, <1>6, <1>7 DEF Next

LEMMA AlwaysConsistent == Spec => []Consistent
BY ConsistentInit, ConsistentStep, PTL DEF Spec

----------------------------------------------------------------------------
\* Whatever turns and generations overlap, fail or are ended to break a deadlock, the
\* committed status says whether the committed brief is complete, a campaign is never
\* left GENERATING, and PLAN_READY has a plan that was valid for its brief.
THEOREM StatusIsTrue == Spec => []StatusTellsTruth
<1>1. Consistent => StatusTellsTruth
  BY DEF Consistent, Committed, StatusTellsTruth
<1> QED BY <1>1, AlwaysConsistent, PTL

\* No committed turn loses a fact another stored, and messages are numbered without
\* gaps, the two of a turn next to each other.
THEOREM TurnsKept == Spec => []TurnsAreKept
<1>1. Consistent => TurnsAreKept
  BY DEF Consistent, Committed, TurnsAreKept
<1> QED BY <1>1, AlwaysConsistent, PTL

\* A commit that changes the brief never leaves PLAN_READY behind: the status is judged by
\* the brief the turn writes, and the conversation's lock keeps that the newest one.
THEOREM ChangeOutdatesPlan == Spec => BriefChangeOutdatesPlan
<1> DEFINE A == campaign # None /\ campaign'.brief # campaign.brief => campaign'.status # "PLAN_READY"
<1>1. Consistent /\ [Next]_vars => [A]_vars
  <2> SUFFICES ASSUME Consistent, Next, campaign # None, campaign'.brief # campaign.brief,
                      campaign'.status = "PLAN_READY"
               PROVE  FALSE
    OBVIOUS
  <2>1. ASSUME NEW r \in Requests, Commit(r) PROVE FALSE
    <3>1. req[r].extracted # None
      BY <2>1, PlanPublishes
    <3>2. /\ campaign'.brief = req[r].brief /\ Judged(req[r], campaign)
          /\ campaign'.status = StatusSeen(r)
          /\ req[r].changes = NoChanges => req[r].brief = campaign.brief
      BY <2>1, <3>1, TurnPublishes
    <3> QED BY <3>2 DEF Judged, StatusSeen
  <2>2. \E r \in Requests : Commit(r) \/ UNCHANGED campaign
    BY DEF Next, CreateCampaign, StartTurn, RequestGeneration, Acquire, AppendUser, AppendMessage,
           PatchBrief, WriteReadiness, ClaimCampaign, StartGenerating, Proceed, Extract,
           CheckNotGenerating, ComputeChanges, Reevaluate, AppendAssistant, CheckReady, SavePlan,
           RejectCandidate, Fail, BreakDeadlock, Rollback
  <2> QED BY <2>1, <2>2
<1> QED BY <1>1, AlwaysConsistent, PTL DEF Spec, BriefChangeOutdatesPlan
=============================================================================
