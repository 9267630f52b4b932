----------------------- MODULE GovernanceRecordsProofs ----------------------
(***************************************************************************)
(* Proofs about GovernanceRecords, for any number of threads, projects and *)
(* requests.                                                               *)
(*                                                                         *)
(* A request is its plan.  What a thread has left to do is the rest of the *)
(* plan (Follows), and whatever it has done passed: the tests and gates    *)
(* before the next step have left something behind in the log (Met) or in  *)
(* the mind of the request (Judged), where it stays.  So what a step may   *)
(* rely on can be read off the text of the plan: Shaped says what the      *)
(* plans have in common, kind by kind.  The table is compared with the log *)
(* (TableIsLogged) since gates read tables and the properties speak of the *)
(* log.  The last part, on the tools, has an invariant of its own          *)
(* (ToolInv) on top of the first.                                          *)
(***************************************************************************)
EXTENDS GovernanceRecords, FiniteSetTheorems, TLAPS

Writing == {"write", "file", "row"}
Counted == {"cso_review", "ceo_proposal_decision"}
Decision == "ceo_proposal_decision"

-----------------------------------------------------------------------------
(* Plans.                                                                  *)

\* Step s of the plan is f, or the write f under way.
Begun(s, f) ==
  /\ f.op = "write" /\ s.op \in {"file", "row"}
  /\ s.type = f.type /\ s.role = f.role /\ s.status = f.status
  /\ s.about = f.about /\ s.says = f.says /\ s.soft = f.soft

\* left is what remains of full; only its first step may be under way.
Follows(full, left) ==
  /\ Len(left) <= Len(full)
  /\ \A i \in DOMAIN left :
       \/ left[i] = full[Len(full) - Len(left) + i]
       \/ i = 1 /\ Begun(left[1], full[Len(full) - Len(left) + 1])

\* Tests and steps that make sense for a project only.
ProjectTests == {"cwo_coapproval", "ceo_coapproval", "completion_report",
                 "cso_review", "ceo_approval"}
NeedsProject(s) ==
  \/ s.op \in {"write", "bind", "quarantine", "GATE-006", "state"}
  \/ s.op = "test" /\ s.test \in ProjectTests

IsTest(s, test) == s.op = "test" /\ s.test = test

\* What the plan full of request r is like.
Scoped(r, full) ==
  \A i \in DOMAIN full : NeedsProject(full[i]) =>
    \/ r.project \in Projects
    \/ \E j \in 1..(i - 1) : IsTest(full[j], "scope") \/ full[j].op = "project"

Skipping(full) ==
  \A i \in DOMAIN full :
    /\ full[i].op \notin {"file", "row"}
    /\ full[i].op = "skip" =>
         i + 1 \in DOMAIN full /\ full[i + 1].op = "write"

Deciding(r, full) ==
  \A i \in DOMAIN full :
    /\ /\ full[i].op = "write" /\ full[i].type = Decision
       /\ r.kind \in {"ceo", "cwo"}
       => /\ full[i].about = r.about
          /\ \E j \in 1..(i - 1) : full[j].op = "GATE-005"
          /\ \E j \in 1..(i - 1) : full[j].op = "GATE-003"
    /\ full[i].op = "GATE-003" =>
         \E j \in 1..(i - 1) : full[j].op = "conflicts"
    /\ full[i].op \in {"GATE-005", "GATE-006"} =>
         \A j \in 1..(i - 1) : full[j].op # "GATE-003"
    /\ full[i].op = "conflicts" =>
         \A j \in 1..(i - 1) : full[j].op \notin {"GATE-003", "conflicts"}

Binding(full) ==
  \A i \in DOMAIN full : full[i].op = "bind" =>
    \A test \in {"completion_report", "cso_review", "ceo_approval"} :
      \E j \in 1..(i - 1) : IsTest(full[j], test)

Agreeing(r, full) ==
  \A i \in DOMAIN full : full[i].op = "write" =>
    /\ r.kind \in Coapprovals =>
         /\ full[i].about = r.about
         /\ \E j \in 1..(i - 1) : full[j].op = "test"
                                  /\ full[j].test \in Coapprovals
    /\ full[i].type \in Coapprovals =>
         \/ r.kind \in Coapprovals
         \/ r.kind \in {"cwo_initialization", "pm_mutation", "tool"}
         \/ /\ full[i].type = r.type
            /\ \E j \in 1..(i - 1) : IsTest(full[j], "controlled")

WritesOnce(full) ==
  \A i, j \in DOMAIN full :
    /\ full[i].op = "write" /\ full[j].op = "write"
    /\ full[i].type \in Counted /\ full[i].type = full[j].type
    => i = j

Keyed(r, full) ==
  \/ r.kind = "tool"
  \/ \A i \in DOMAIN full : full[i].op # "replay"

Shaped(r, full) ==
  /\ full \in Seq(Steps)
  /\ Scoped(r, full) /\ Skipping(full) /\ Deciding(r, full) /\ Binding(full)
  /\ Agreeing(r, full) /\ WritesOnce(full) /\ Keyed(r, full)

-----------------------------------------------------------------------------
(* The invariant.                                                          *)

\* The unresolved cycles of a proposal among the first k documents.
Conflicts(topic, k) ==
  {j \in 1..k : /\ log[j].type = "cso_review" /\ log[j].about = topic
                /\ log[j].says = Conflict}
Revisions(topic, k) ==
  {j \in 1..k : /\ log[j].type = Decision /\ log[j].about = topic
                /\ log[j].says = "needs_revision"}

\* What step s of request r left behind in the log.
Met(r, s) ==
  /\ IsTest(s, "scope") \/ s.op = "project" => r.project \in Projects
  /\ s.op = "test" /\ s.test \in Coapprovals =>
       \E i \in DOMAIN log : /\ log[i].project = r.project
                             /\ log[i].type \in Coapprovals
                             /\ log[i].about = r.about
  /\ s.op = "test" /\ s.test \in {"completion_report", "cso_review"} =>
       \E i \in DOMAIN log : log[i].project = r.project
                             /\ log[i].type = s.test
  /\ IsTest(s, "ceo_approval") =>
       \E i \in DOMAIN log : /\ log[i].project = r.project
                             /\ log[i].type = Decision
                             /\ log[i].says = "approved"
  /\ IsTest(s, "controlled") => r.type \in Conditional
  /\ s.op = "GATE-005" =>
       \E i \in DOMAIN log : /\ log[i].type = "cso_review"
                             /\ log[i].about = r.about

\* What step s of request r decided by what the request remembers in m.
Judged(r, m, s) ==
  /\ s.op = "conflicts" =>
       Overwritten \/ Cardinality(Conflicts(r.about, m.from)) <= m.cycles
  /\ s.op = "GATE-003" /\ m.outcome = Conflict /\ ~r.override =>
       \/ Overwritten
       \/ Cardinality(Conflicts(r.about, m.from)
                        \union Revisions(r.about, m.from)) < 3

\* Request r, with left to do and m in mind, follows its plan, and what it
\* did passed.
Proper(r, left, m) ==
  /\ Follows(PlanOf(r), left)
  /\ m.from <= Len(log)
  /\ r.project \in Projects => status[r.project] \in m.seen
  /\ left # <<>> =>
       \A j \in 1..(Len(PlanOf(r)) - Len(left)) :
         Met(r, PlanOf(r)[j]) /\ Judged(r, m, PlanOf(r)[j])

\* A write under way has a revision: counted before, and within the cap.
Counting(r, left, m) ==
  left # <<>> /\ left[1].op \in {"file", "row"} =>
    /\ left[1].type \in Types /\ r.project \in Projects
    /\ 1 <= m.rev /\ m.rev <= Len(rows[r.project][left[1].type]) + 1
    /\ left[1].type \in AppendOnly => m.rev <= allowed_type_caps[left[1].type]
    /\ left[1].status = "resolved" => m.state \in ProjectWritable

OnPlan(t) ==
  mind[t].on => /\ Proper(Req(t), plan[t], mind[t])
                /\ Counting(Req(t), plan[t], mind[t])

Within ==
  \A p \in Projects, ty \in AppendOnly :
    Len(rows[p][ty]) <= allowed_type_caps[ty]

\* The table holds what the log says was written, less what was replaced.
TableIsLogged ==
  \A p \in Projects, ty \in Types :
    /\ ToSet(rows[p][ty]) \subseteq {DocOf(log[j]) : j \in Places(log, p, ty)}
    /\ Len(rows[p][ty]) <= Cardinality(Places(log, p, ty))
    /\ \/ Len(rows[p][ty]) < Cardinality(Places(log, p, ty))
       \/ \A j \in Places(log, p, ty) : DocOf(log[j]) \in ToSet(rows[p][ty])

\* Reviews and decisions differ in their number; a request that has written
\* one of them has no second one ahead.
Numbered ==
  \A i \in DOMAIN log :
    /\ log[i].type \in Counted =>
         \A j \in DOMAIN log :
           log[j].type = log[i].type /\ log[j].n = log[i].n => i = j
    /\ \A t \in Threads, k \in Nat : log[i].n = <<t, k>> =>
         /\ k >= Len(inbox[t])
         /\ mind[t].on \/ k > Len(inbox[t])
         /\ k = Len(inbox[t]) /\ log[i].type \in Counted =>
              \A x \in DOMAIN plan[t] :
                plan[t][x].op \in Writing => plan[t][x].type # log[i].type

\* Who writes co-approvals.
Agreed ==
  \A i \in DOMAIN log : log[i].type \in Coapprovals =>
    log[i].by \in Coapprovals \union {"cwo_initialization", "pm_mutation",
                                      "tool"}

\* A request began before it wrote.
Dated ==
  \A i \in DOMAIN log : log[i].by # "before" => log[i].from <= Len(log)

IInv ==
  /\ TypeOK
  /\ \A t \in Threads : OnPlan(t)
  /\ Within /\ TableIsLogged /\ Numbered /\ Agreed /\ Dated
  /\ GatesKeepOrder /\ ConflictEndsAfterThree /\ CoapprovalHasAnOrigin

\* Thread t is in a call with key k that has passed the lookup.
Calls(t, k) ==
  mind[t].on /\ Req(t).kind = "tool" /\ Req(t).key = k /\ mind[t].keyed

\* What a call that passed the lookup has written when no other interfered.
Wrote(t) == IF plan[t] = <<>> /\ mind[t].ok THEN 1 ELSE 0

\* A tool call: not looked up yet, looked up, or over.
Calling(t) ==
  mind[t].on =>
    /\ Req(t).kind # "tool" => ~mind[t].keyed
    /\ Req(t).kind = "tool" =>
         /\ Len(plan[t]) > 3 => ~mind[t].keyed
         /\ Len(plan[t]) > 0 => mind[t].ok
         /\ Len(plan[t]) \in 1..3 => mind[t].keyed
         /\ Len(plan[t]) = 1 => mind[t].state \in mind[t].seen
         /\ plan[t] = <<>> /\ mind[t].keyed /\ mind[t].ok =>
              effects[Req(t).key].rows >= 1

\* Key k as long as no two calls with it overlapped and none raised after its
\* row: what is remembered or under way accounts for the rows.
Orderly(k) ==
  /\ memo[k] = "ok" => effects[k].rows = 1
  /\ memo[k] = "denied" => effects[k].rows = 0
  /\ memo[k] = "none" /\ (\A t \in Threads : ~Calls(t, k)) =>
       effects[k].rows = 0
  /\ \A t \in Threads : Calls(t, k) =>
       /\ memo[k] = "none" /\ effects[k].rows = Wrote(t)
       /\ \A u \in Threads : Calls(u, k) => t = u

ToolInv ==
  /\ \A t \in Threads : Calling(t)
  /\ \A k \in Keys : /\ memo[k] = "ok" => effects[k].rows >= 1
                     /\ ~effects[k].upset => Orderly(k)
  /\ \A i \in DOMAIN log : log[i].by = "tool" => log[i].open

-----------------------------------------------------------------------------
(* The shape of the plans.                                                 *)

\* Two sequences one after the other.
LEMMA Joined ==
  ASSUME NEW S, NEW s \in Seq(S), NEW u \in Seq(S)
  PROVE  /\ s \o u \in Seq(S)
         /\ Len(s \o u) = Len(s) + Len(u)
         /\ \A i \in 1..Len(s) : (s \o u)[i] = s[i]
         /\ \A i \in 1..Len(u) : (s \o u)[Len(s) + i] = u[i]
  OBVIOUS

\* The fields of a request.
LEMMA RequestIs ==
  ASSUME NEW r \in Request
  PROVE  /\ r.kind \in Kinds /\ r.about \in Topics
         /\ r.outcome \in Outcomes /\ r.decision \in Decisions
         /\ r.told \in Outcomes \union {"none"} /\ r.override \in BOOLEAN
         /\ r.state \in OptionalState /\ r.type \in Types \union {"none"}
         /\ r.recipient \in Roles /\ r.key \in Keys \union {"none"}
         /\ r.kind \in {"pm_completion", "quarantine"} =>
              r.project \in Projects
         /\ r.kind = "tool" => r.key \in Keys
  BY DEF Request, RequestFields

\* The steps of a plan.
LEMMA StepsAre ==
  /\ \A ty \in Types \union {"none"}, who \in Roles,
        st \in OptionalState \union {"resolved"}, topic \in Topics,
        words \in Words :
       /\ Write(ty, who, st, topic, words) \in Steps
       /\ Write(ty, who, st, topic, words).op = "write"
       /\ Write(ty, who, st, topic, words).type = ty
       /\ Write(ty, who, st, topic, words).role = who
       /\ Write(ty, who, st, topic, words).status = st
       /\ Write(ty, who, st, topic, words).about = topic
       /\ Write(ty, who, st, topic, words).says = words
       /\ Write(ty, who, st, topic, words).soft = FALSE
  BY DEF Write, Steps

Tests == {"scope", "cwo_coapproval", "ceo_coapproval", "completion_report",
          "package", "cso_review", "ceo_approval", "charter", "inactive",
          "pm_writer", "both_approve", "controlled", "running", "fresh",
          "allowed"}

\* The steps that test.
LEMMA TestsAre ==
  ASSUME NEW test \in Tests
  PROVE  /\ Test(test) \in Steps /\ SkipIf(test) \in Steps
         /\ Test(test).op = "test" /\ Test(test).test = test
         /\ SkipIf(test).op = "skip" /\ SkipIf(test).test = test
  BY DEF Test, SkipIf, Steps, Tests

\* The steps that do something else.
LEMMA DoesAre ==
  ASSUME NEW what \in {"GATE-005", "GATE-006", "GATE-003", "conflicts",
                       "bind", "state", "block", "quarantine", "replay",
                       "reserve", "project"}
  PROVE  Do(what) \in Steps /\ Do(what).op = what
  BY DEF Do, Steps

\* The types of documents the handlers name.
LEMMA TypesAre ==
  /\ AppendOnly \subseteq Types /\ GovernanceEvents \subseteq Types
  /\ ManagerForbidden \subseteq Types /\ "bind" \notin Types
  BY RecordConstants

\* The CSO's review is recorded by a soft write.
LEMMA CsoWriteIs ==
  ASSUME NEW r \in Request
  PROVE  LET c == [Write("cso_review", "ceo", "active", r.about, r.outcome)
                     EXCEPT !.soft = TRUE]
         IN  c \in Steps /\ c.op = "write" /\ c.type = "cso_review"
<1>1. /\ r.about \in Topics /\ r.outcome \in Words /\ "ceo" \in Roles
      /\ "cso_review" \in Types
      /\ "active" \in OptionalState
  BY RequestIs, TypesAre DEF Words, Roles, GovernanceEvents, OptionalState,
                             ProjectStatuses
<1> QED  BY <1>1 DEF Write, Steps

\* The plan of a CSO's review.
LEMMA ShapedCso ==
  ASSUME NEW r \in Request, r.kind = "cso"
  PROVE  Shaped(r, PlanOf(r))
<1> DEFINE c == [Write("cso_review", "ceo", "active", r.about, r.outcome)
                   EXCEPT !.soft = TRUE]
           f == PlanOf(r)
<1>1. f = CsoHandle(r)
  BY DEF PlanOf
<1>2. c \in Steps /\ c.op = "write" /\ c.type = "cso_review"
  BY CsoWriteIs
<1>3. \/ CsoHandle(r) = <<c>> /\ r.project \in Projects
      \/ CsoHandle(r) = <<>>
  BY DEF CsoHandle, If
<1> HIDE DEF c
<1>4. /\ f \in Seq(Steps)
      /\ \/ Len(f) = 1 /\ f[1] = c /\ r.project \in Projects
         \/ Len(f) = 0
  <2>1. CASE CsoHandle(r) = <<c>> /\ r.project \in Projects
    BY <2>1, <1>1, <1>2
  <2>2. CASE CsoHandle(r) = <<>>
    BY <2>2, <1>1
  <2> QED  BY <2>1, <2>2, <1>3
<1> HIDE DEF f
<1>5. Scoped(r, f) /\ Skipping(f)
  BY <1>2, <1>3, <1>4
     DEF Scoped, Skipping, IsTest, NeedsProject, ProjectTests
<1>6. Deciding(r, f) /\ Binding(f)
  BY <1>2, <1>3, <1>4 DEF Deciding, Binding, IsTest, Decision
<1>7. Agreeing(r, f) /\ WritesOnce(f)
  BY <1>2, <1>3, <1>4
     DEF Agreeing, WritesOnce, IsTest, Coapprovals, Counted
<1>8. Keyed(r, f)
  BY <1>2, <1>3, <1>4 DEF Keyed, IsTest
<1> QED  BY <1>4, <1>5, <1>6, <1>7, <1>8 DEF Shaped, f

\* The plan of a CEO's co-approval.
LEMMA ShapedCeoCoapproval ==
  ASSUME NEW r \in Request, r.kind = "ceo_coapproval"
  PROVE  Shaped(r, PlanOf(r))
<1> DEFINE w == Write("ceo_coapproval", "ceo", "active", r.about,
                      "approved")
           f == PlanOf(r)
<1>1. f = <<Test("scope"), Test("cwo_coapproval"), w>>
  BY DEF PlanOf, CeoCoapproval
<1>s. "active" \in OptionalState
  BY RequestIs DEF OrActive, OptionalState, ProjectStatuses
<1>2. /\ w \in Steps /\ w.op = "write" /\ w.type = "ceo_coapproval"
      /\ w.about = r.about
  BY <1>s, StepsAre, TypesAre, RequestIs
     DEF GovernanceEvents, Roles, Words, Decisions
<1>3. \A test \in {"scope", "cwo_coapproval"} :
        /\ Test(test) \in Steps /\ IsTest(Test(test), test)
        /\ SkipIf(test) \in Steps /\ SkipIf(test).op = "skip"
  BY TestsAre DEF Tests, IsTest
<1> HIDE DEF w
<1>4. /\ f \in Seq(Steps) /\ Len(f) = 3 /\ f[1] = Test("scope")
      /\ f[2] = Test("cwo_coapproval") /\ f[3] = w
  BY <1>1, <1>2, <1>3
<1> HIDE DEF f
<1>5. Scoped(r, f) /\ Skipping(f)
  BY <1>2, <1>3, <1>4
     DEF Scoped, Skipping, IsTest, NeedsProject, ProjectTests
<1>6. Deciding(r, f) /\ Binding(f)
  BY <1>2, <1>3, <1>4 DEF Deciding, Binding, IsTest, Decision
<1>7. Agreeing(r, f) /\ WritesOnce(f)
  BY <1>2, <1>3, <1>4
     DEF Agreeing, WritesOnce, IsTest, Coapprovals, Counted
<1>8. Keyed(r, f)
  BY <1>2, <1>3, <1>4 DEF Keyed, IsTest
<1> QED  BY <1>4, <1>5, <1>6, <1>7, <1>8 DEF Shaped, f

\* The plan of a CWO's co-approval.
LEMMA ShapedCwoCoapproval ==
  ASSUME NEW r \in Request, r.kind = "cwo_coapproval"
  PROVE  Shaped(r, PlanOf(r))
<1> DEFINE w == Write("cwo_coapproval", "cwo", OrActive(r.state), r.about,
                      "approved")
           f == PlanOf(r)
<1>1. f = <<Test("scope"), Test("ceo_coapproval"), w>>
  BY DEF PlanOf, CwoCoapproval
<1>s. OrActive(r.state) \in OptionalState
  BY RequestIs DEF OrActive, OptionalState, ProjectStatuses
<1>2. /\ w \in Steps /\ w.op = "write" /\ w.type = "cwo_coapproval"
      /\ w.about = r.about
  <2>1. /\ "cwo_coapproval" \in Types /\ "cwo" \in Roles
        /\ r.about \in Topics /\ "approved" \in Words
    BY TypesAre, RequestIs DEF GovernanceEvents, Roles, Words, Decisions
  <2> QED  BY <2>1, <1>s, StepsAre
<1>3. \A test \in {"scope", "ceo_coapproval"} :
        /\ Test(test) \in Steps /\ IsTest(Test(test), test)
        /\ SkipIf(test) \in Steps /\ SkipIf(test).op = "skip"
  BY TestsAre DEF Tests, IsTest
<1> HIDE DEF w
<1>4. /\ f \in Seq(Steps) /\ Len(f) = 3 /\ f[1] = Test("scope")
      /\ f[2] = Test("ceo_coapproval") /\ f[3] = w
  BY <1>1, <1>2, <1>3
<1> HIDE DEF f
<1>5. Scoped(r, f) /\ Skipping(f)
  BY <1>2, <1>3, <1>4
     DEF Scoped, Skipping, IsTest, NeedsProject, ProjectTests
<1>6. Deciding(r, f) /\ Binding(f)
  BY <1>2, <1>3, <1>4 DEF Deciding, Binding, IsTest, Decision
<1>7. Agreeing(r, f) /\ WritesOnce(f)
  BY <1>2, <1>3, <1>4
     DEF Agreeing, WritesOnce, IsTest, Coapprovals, Counted
<1>8. Keyed(r, f)
  BY <1>2, <1>3, <1>4 DEF Keyed, IsTest
<1> QED  BY <1>4, <1>5, <1>6, <1>7, <1>8 DEF Shaped, f

\* The plan of a workforce initialization.
LEMMA ShapedInitialization ==
  ASSUME NEW r \in Request, r.kind = "cwo_initialization"
  PROVE  Shaped(r, PlanOf(r))
<1> DEFINE w == Write("workforce_plan", "cwo", "approved", r.about, "plan")
           c == Write("project_charter", "cwo", "approved", r.about,
                      "charter")
           a == Write("cwo_coapproval", "cwo", OrActive(r.state), r.about,
                      "approved")
           f == PlanOf(r)
<1>1. f = <<Test("scope"), Test("completion_report"), Test("package")>>
            \o <<Test("cso_review"), Test("ceo_approval"), w, Do("bind"),
                 SkipIf("charter"), c>>
            \o <<a>>
  BY DEF PlanOf, CwoInitialization, Initialize
<1>s. OrActive(r.state) \in OptionalState
  BY RequestIs DEF OrActive, OptionalState, ProjectStatuses
<1>a. a \in Steps /\ a.op = "write" /\ a.type = "cwo_coapproval"
  BY <1>s, StepsAre, TypesAre, RequestIs
     DEF GovernanceEvents, Roles, Words, Decisions
<1>2. /\ w \in Steps /\ w.op = "write" /\ w.type = "workforce_plan"
      /\ c \in Steps /\ c.op = "write" /\ c.type = "project_charter"
  BY StepsAre, TypesAre, RequestIs
     DEF ManagerForbidden, Roles, OptionalState, ProjectStatuses, Words
<1>3. \A test \in {"scope", "completion_report", "package", "cso_review",
                     "ceo_approval", "charter"} :
        /\ Test(test) \in Steps /\ IsTest(Test(test), test)
        /\ SkipIf(test) \in Steps /\ SkipIf(test).op = "skip"
  BY TestsAre DEF Tests, IsTest
<1>d. \A what \in {"bind"} :
        Do(what) \in Steps /\ Do(what).op = what
  BY DoesAre
<1> HIDE DEF w, c, a
<1>4. /\ f \in Seq(Steps) /\ Len(f) = 10 /\ f[1] = Test("scope")
      /\ f[2] = Test("completion_report") /\ f[3] = Test("package")
      /\ f[4] = Test("cso_review") /\ f[5] = Test("ceo_approval")
      /\ f[6] = w /\ f[7] = Do("bind") /\ f[8] = SkipIf("charter")
      /\ f[9] = c /\ f[10] = a
  BY <1>1, <1>2, <1>3, <1>a, <1>d
<1> HIDE DEF f
<1>5. Scoped(r, f) /\ Skipping(f)
  BY <1>2, <1>3, <1>4, <1>a, <1>d
     DEF Scoped, Skipping, IsTest, NeedsProject, ProjectTests
<1>6. Deciding(r, f)
  BY <1>2, <1>3, <1>4, <1>a, <1>d DEF Deciding, IsTest, Decision
<1>b. Binding(f)
  BY <1>2, <1>3, <1>4, <1>a, <1>d DEF Binding, IsTest, Decision
<1>7. Agreeing(r, f) /\ WritesOnce(f)
  BY <1>2, <1>3, <1>4, <1>a, <1>d
     DEF Agreeing, WritesOnce, IsTest, Coapprovals, Counted
<1>8. Keyed(r, f)
  BY <1>2, <1>3, <1>4, <1>a, <1>d DEF Keyed, IsTest
<1> QED  BY <1>4, <1>5, <1>6, <1>b, <1>7, <1>8 DEF Shaped, f

\* The plan of a proposal's review by the CEO, on its own...
LEMMA ShapedCeo ==
  ASSUME NEW r \in Request, r.kind = "ceo"
  PROVE  Shaped(r, PlanOf(r))
<1> DEFINE w == Write("ceo_proposal_decision", "ceo", "proposed", r.about,
                      r.decision)
           f == PlanOf(r)
<1>1. f = <<Do("GATE-005"), Do("conflicts"), Do("GATE-003"), Test("scope"), w>>
  BY DEF PlanOf, CeoProposalReview
<1>s. /\ r.decision \in Words /\ "proposed" \in OptionalState
      /\ Decision \in Types /\ "ceo" \in Roles
  BY RequestIs, TypesAre DEF Words, OptionalState, ProjectStatuses,
                             GovernanceEvents, Decision, Roles
<1>2. /\ w \in Steps /\ w.op = "write" /\ w.type = Decision
      /\ w.about = r.about
  BY <1>s, StepsAre, RequestIs DEF Decision
<1>3. \A test \in {"scope"} :
        /\ Test(test) \in Steps /\ IsTest(Test(test), test)
        /\ SkipIf(test) \in Steps /\ SkipIf(test).op = "skip"
  BY TestsAre DEF Tests, IsTest
<1>d. \A what \in {"GATE-005", "conflicts", "GATE-003"} :
        Do(what) \in Steps /\ Do(what).op = what
  BY DoesAre
<1> HIDE DEF w
<1>4. /\ f \in Seq(Steps) /\ Len(f) = 5 /\ f[1] = Do("GATE-005")
      /\ f[2] = Do("conflicts") /\ f[3] = Do("GATE-003")
      /\ f[4] = Test("scope") /\ f[5] = w
  BY <1>1, <1>2, <1>3, <1>d
<1> HIDE DEF f
<1>5. Scoped(r, f) /\ Skipping(f)
  BY <1>2, <1>3, <1>4, <1>d
     DEF Scoped, Skipping, IsTest, NeedsProject, ProjectTests
<1>6. Deciding(r, f) /\ Binding(f)
  BY <1>2, <1>3, <1>4, <1>d DEF Deciding, Binding, IsTest, Decision
<1>7. Agreeing(r, f) /\ WritesOnce(f)
  BY <1>2, <1>3, <1>4, <1>d
     DEF Agreeing, WritesOnce, IsTest, Coapprovals, Counted, Decision
<1>8. Keyed(r, f)
  BY <1>2, <1>3, <1>4, <1>d
     DEF Keyed, IsTest, Decision
<1> QED  BY <1>4, <1>5, <1>6, <1>7, <1>8 DEF Shaped, f

\* ... and with the CSO's review before it, when there is one to record.
LEMMA ShapedCwo ==
  ASSUME NEW r \in Request, r.kind = "cwo"
  PROVE  Shaped(r, PlanOf(r))
<1> DEFINE w == Write("ceo_proposal_decision", "ceo", "proposed", r.about,
                      r.decision)
           c == [Write("cso_review", "ceo", "active", r.about, r.outcome)
                   EXCEPT !.soft = TRUE]
           f == PlanOf(r)
<1>1. f = <<Test("scope")>> \o CsoHandle(r) \o <<Do("GATE-006")>>
            \o <<Do("GATE-005"), Do("conflicts"), Do("GATE-003"),
                 Test("scope"), w>>
  BY DEF PlanOf, CwoProposalFlow, CeoProposalReview
<1>s. /\ r.decision \in Words /\ "proposed" \in OptionalState
      /\ Decision \in Types /\ "ceo" \in Roles
  BY RequestIs, TypesAre DEF Words, OptionalState, ProjectStatuses,
                             GovernanceEvents, Decision, Roles
<1>2. /\ w \in Steps /\ w.op = "write" /\ w.type = Decision
      /\ w.about = r.about
  BY <1>s, StepsAre, RequestIs DEF Decision
<1>c. c \in Steps /\ c.op = "write" /\ c.type = "cso_review"
  BY CsoWriteIs
<1>3. \A test \in {"scope"} :
        /\ Test(test) \in Steps /\ IsTest(Test(test), test)
        /\ SkipIf(test) \in Steps /\ SkipIf(test).op = "skip"
  BY TestsAre DEF Tests, IsTest
<1>d. \A what \in {"GATE-006", "GATE-005", "conflicts", "GATE-003"} :
        Do(what) \in Steps /\ Do(what).op = what
  BY DoesAre
<1>e. CsoHandle(r) = <<c>> \/ CsoHandle(r) = <<>>
  BY DEF CsoHandle, If
<1> HIDE DEF w, c
<1> DEFINE With == /\ Len(f) = 8
                   /\ f[1] = Test("scope") /\ f[2] = c /\ f[3] = Do("GATE-006")
                   /\ f[4] = Do("GATE-005") /\ f[5] = Do("conflicts")
                   /\ f[6] = Do("GATE-003") /\ f[7] = Test("scope") /\ f[8] = w
           Without == /\ Len(f) = 7
                      /\ f[1] = Test("scope") /\ f[2] = Do("GATE-006")
                      /\ f[3] = Do("GATE-005") /\ f[4] = Do("conflicts")
                      /\ f[5] = Do("GATE-003") /\ f[6] = Test("scope") /\ f[7] = w
<1>4. f \in Seq(Steps) /\ (With \/ Without)
  <2>1. CASE CsoHandle(r) = <<c>>
    BY <2>1, <1>1, <1>2, <1>3, <1>c, <1>d
  <2>2. CASE CsoHandle(r) = <<>>
    BY <2>2, <1>1, <1>2, <1>3, <1>c, <1>d
  <2> QED  BY <2>1, <2>2, <1>e
<1> HIDE DEF f
<1>5. Scoped(r, f) /\ Skipping(f)
  <2>1. CASE With
    <3>1. Scoped(r, f)
      BY <2>1, <1>2, <1>3, <1>4, <1>c, <1>d
         DEF Scoped, IsTest, NeedsProject, ProjectTests
    <3>2. Skipping(f)
      BY <2>1, <1>2, <1>3, <1>4, <1>c, <1>d DEF Skipping, IsTest
    <3> QED  BY <3>1, <3>2
  <2>2. CASE Without
    BY <2>2, <1>2, <1>3, <1>4, <1>c, <1>d
       DEF Scoped, Skipping, IsTest, NeedsProject, ProjectTests
  <2> QED  BY <2>1, <2>2, <1>4
<1>6. Deciding(r, f) /\ Binding(f)
  <2>1. CASE With
    <3>1. Deciding(r, f)
      BY <2>1, <1>2, <1>3, <1>4, <1>c, <1>d DEF Deciding, IsTest, Decision
    <3>2. Binding(f)
      BY <2>1, <1>2, <1>3, <1>4, <1>c, <1>d DEF Binding, IsTest, Decision
    <3> QED  BY <3>1, <3>2
  <2>2. CASE Without
    <3>1. Deciding(r, f)
      BY <2>2, <1>2, <1>3, <1>4, <1>c, <1>d DEF Deciding, IsTest, Decision
    <3>2. Binding(f)
      BY <2>2, <1>2, <1>3, <1>4, <1>c, <1>d DEF Binding, IsTest, Decision
    <3> QED  BY <3>1, <3>2
  <2> QED  BY <2>1, <2>2, <1>4
<1>7. Agreeing(r, f) /\ WritesOnce(f)
  <2>1. CASE With
    BY <2>1, <1>2, <1>3, <1>4, <1>c, <1>d
       DEF Agreeing, WritesOnce, IsTest, Coapprovals, Counted, Decision
  <2>2. CASE Without
    BY <2>2, <1>2, <1>3, <1>4, <1>c, <1>d
       DEF Agreeing, WritesOnce, IsTest, Coapprovals, Counted, Decision
  <2> QED  BY <2>1, <2>2, <1>4
<1>8. Keyed(r, f)
  <2>1. CASE With
    BY <2>1, <1>2, <1>3, <1>4, <1>c, <1>d
       DEF Keyed, IsTest, Decision
  <2>2. CASE Without
    BY <2>2, <1>2, <1>3, <1>4, <1>c, <1>d
       DEF Keyed, IsTest, Decision
  <2> QED  BY <2>1, <2>2, <1>4
<1> QED  BY <1>4, <1>5, <1>6, <1>7, <1>8 DEF Shaped, f

\* A plan without gates that writes neither reviews, decisions nor
\* co-approvals has the shape, once it is scoped.
PlainStep(s) ==
  \/ s.op \in {"test", "skip", "block", "state", "quarantine"}
  \/ s.op = "write" /\ s.type \notin Counted \union Coapprovals

\* A plan of plain steps is shaped if it minds its scope and skips.
LEMMA PlainIsShaped ==
  ASSUME NEW r \in Request, NEW f \in Seq(Steps),
         \A i \in DOMAIN f : PlainStep(f[i]),
         Scoped(r, f), Skipping(f), r.kind \notin Coapprovals
  PROVE  Shaped(r, f)
<1>1. Deciding(r, f) /\ Binding(f)
  BY DEF Deciding, Binding, PlainStep, Counted, Decision
<1>2. Agreeing(r, f) /\ WritesOnce(f) /\ Keyed(r, f)
  BY DEF Agreeing, WritesOnce, Keyed, PlainStep
<1> QED  BY <1>1, <1>2 DEF Shaped

\* What the auditor writes.
LEMMA AuditorWrites ==
  ASSUME NEW r \in Request, NEW ty \in GovernanceEvents
  PROVE  /\ AuditorWrite(r, ty) \in Steps
         /\ AuditorWrite(r, ty).op = "write"
         /\ AuditorWrite(r, ty).type = ty
<1>1. /\ ty \in Types /\ "auditor" \in Roles /\ "active" \in OptionalState
      /\ r.about \in Topics /\ r.kind \in Words
  BY TypesAre, RequestIs DEF Roles, OptionalState, ProjectStatuses, Words
<1> QED  BY <1>1, StepsAre DEF AuditorWrite

\* The documents of the auditor.
LEMMA AuditorWrote ==
  ASSUME NEW r \in Request
  PROVE  /\ Finding(r) \in Steps /\ Finding(r).op = "write"
         /\ Finding(r).type = "auditor_finding"
         /\ Escalation(r) \in Steps /\ Escalation(r).op = "write"
         /\ Escalation(r).type = "auditor_owner_escalation"
         /\ CeoNotice(r) \in Steps /\ CeoNotice(r).op = "write"
         /\ CeoNotice(r).type = "auditor_ceo_notification"
<1>1. /\ "auditor_finding" \in GovernanceEvents
      /\ "auditor_owner_escalation" \in GovernanceEvents
      /\ "auditor_ceo_notification" \in GovernanceEvents
  BY DEF GovernanceEvents
<1>2. /\ Finding(r) \in Steps /\ Finding(r).op = "write"
      /\ Finding(r).type = "auditor_finding"
  BY <1>1, AuditorWrites, Zenon DEF Finding
<1>3. /\ Escalation(r) \in Steps /\ Escalation(r).op = "write"
      /\ Escalation(r).type = "auditor_owner_escalation"
  BY <1>1, AuditorWrites, Zenon DEF Escalation
<1>4. /\ CeoNotice(r) \in Steps /\ CeoNotice(r).op = "write"
      /\ CeoNotice(r).type = "auditor_ceo_notification"
  BY <1>1, AuditorWrites, Zenon DEF CeoNotice
<1> QED  BY <1>2, <1>3, <1>4

\* The plans of the auditor.
LEMMA ShapedGovernanceViolation ==
  ASSUME NEW r \in Request, r.kind = "governance_violation"
  PROVE  Shaped(r, PlanOf(r))
<1> DEFINE f == PlanOf(r)
<1>1. f = <<Test("scope"), Finding(r), Escalation(r)>>
            \o If(r.severity \in {"high", "critical"}, <<CeoNotice(r)>>)
  BY DEF PlanOf, GovernanceViolation
<1>3. Test("scope") \in Steps /\ IsTest(Test("scope"), "scope")
  BY TestsAre DEF Tests, IsTest
<1>4. /\ f \in Seq(Steps) /\ Len(f) \in {3, 4} /\ f[1] = Test("scope")
      /\ f[2] = Finding(r) /\ f[3] = Escalation(r)
      /\ Len(f) = 4 => f[4] = CeoNotice(r)
  <2>1. CASE r.severity \in {"high", "critical"}
    BY <2>1, <1>1, <1>3, AuditorWrote DEF If
  <2>2. CASE r.severity \notin {"high", "critical"}
    BY <2>2, <1>1, <1>3, AuditorWrote DEF If
  <2> QED  BY <2>1, <2>2
<1> HIDE DEF f
<1>5. Scoped(r, f) /\ Skipping(f)
  BY <1>3, <1>4, AuditorWrote
     DEF Scoped, Skipping, IsTest, NeedsProject, ProjectTests
<1>6. \A i \in DOMAIN f : PlainStep(f[i])
  BY <1>3, <1>4, AuditorWrote
     DEF PlainStep, IsTest, Counted, Coapprovals
<1> QED  BY <1>4, <1>5, <1>6, PlainIsShaped DEF Coapprovals, f

\* _handle_behavioral_violation.
LEMMA ShapedBehavioralViolation ==
  ASSUME NEW r \in Request, r.kind = "behavioral_violation"
  PROVE  Shaped(r, PlanOf(r))
<1> DEFINE f == PlanOf(r)
<1>1. f = <<Test("fresh"), Test("scope"), Finding(r), Escalation(r),
            CeoNotice(r)>>
  BY DEF PlanOf, BehavioralViolation
<1>3. \A test \in {"scope", "fresh"} :
        Test(test) \in Steps /\ IsTest(Test(test), test)
  BY TestsAre DEF Tests, IsTest
<1>4. /\ f \in Seq(Steps) /\ Len(f) = 5 /\ f[1] = Test("fresh")
      /\ f[2] = Test("scope") /\ f[3] = Finding(r) /\ f[4] = Escalation(r)
      /\ f[5] = CeoNotice(r)
  BY <1>1, <1>3, AuditorWrote
<1> HIDE DEF f
<1>5. Scoped(r, f) /\ Skipping(f)
  BY <1>3, <1>4, AuditorWrote
     DEF Scoped, Skipping, IsTest, NeedsProject, ProjectTests
<1>6. \A i \in DOMAIN f : PlainStep(f[i])
  BY <1>3, <1>4, AuditorWrote
     DEF PlainStep, IsTest, Counted, Coapprovals
<1> QED  BY <1>4, <1>5, <1>6, PlainIsShaped DEF Coapprovals, f

\* _handle_document_violation.
LEMMA ShapedDocumentViolation ==
  ASSUME NEW r \in Request, r.kind \in {"document_violation", "unknown_event"}
  PROVE  Shaped(r, PlanOf(r))
<1> DEFINE f == PlanOf(r)
<1>1. \/ f = <<Test("scope"), Finding(r), Escalation(r)>>
      \/ f = <<Test("scope"), Finding(r)>> /\ r.kind = "unknown_event"
  <2>1. CASE r.kind = "document_violation"
    BY <2>1 DEF PlanOf, DocumentViolation
  <2>2. CASE r.kind = "unknown_event"
    BY <2>2 DEF PlanOf, UnknownEvent
  <2> QED  BY <2>1, <2>2
<1>3. Test("scope") \in Steps /\ IsTest(Test("scope"), "scope")
  BY TestsAre DEF Tests, IsTest
<1>4. /\ f \in Seq(Steps) /\ f[1] = Test("scope") /\ f[2] = Finding(r)
      /\ \/ Len(f) = 3 /\ f[3] = Escalation(r)
         \/ Len(f) = 2 /\ r.kind = "unknown_event"
  <2>1. CASE f = <<Test("scope"), Finding(r), Escalation(r)>>
    BY <2>1, <1>3, AuditorWrote
  <2>2. CASE f = <<Test("scope"), Finding(r)>> /\ r.kind = "unknown_event"
    BY <2>2, <1>3, AuditorWrote
  <2> QED  BY <2>1, <2>2, <1>1
<1> HIDE DEF f
<1>5. Scoped(r, f) /\ Skipping(f)
  BY <1>3, <1>4, AuditorWrote
     DEF Scoped, Skipping, IsTest, NeedsProject, ProjectTests
<1>6. \A i \in DOMAIN f : PlainStep(f[i])
  BY <1>3, <1>4, AuditorWrote
     DEF PlainStep, IsTest, Counted, Coapprovals
<1> QED  BY <1>4, <1>5, <1>6, PlainIsShaped DEF Coapprovals, f

\* _handle_budget_breach, with and without a task.
LEMMA ShapedBudgetBreach ==
  ASSUME NEW r \in Request, r.kind = "budget_breach"
  PROVE  Shaped(r, PlanOf(r))
<1> DEFINE f == PlanOf(r)
           e == AuditorWrite(r, "auditor_enforcement")
           o == AuditorWrite(r, "auditor_owner_alert")
<1>1. f = IF r.about # "none"
          THEN <<Do("block"), Test("scope"), e, CeoNotice(r)>>
                 \o If(r.severity = "critical", <<o>>) \o <<Escalation(r)>>
          ELSE <<Test("scope"), Escalation(r), Finding(r)>>
  BY DEF PlanOf, BudgetBreach
<1>2. /\ e \in Steps /\ e.op = "write" /\ e.type = "auditor_enforcement"
      /\ o \in Steps /\ o.op = "write" /\ o.type = "auditor_owner_alert"
  <2>1. /\ "auditor_enforcement" \in GovernanceEvents
        /\ "auditor_owner_alert" \in GovernanceEvents
    BY DEF GovernanceEvents
  <2> QED  BY <2>1, AuditorWrites
<1>3. /\ Test("scope") \in Steps /\ IsTest(Test("scope"), "scope")
      /\ Do("block") \in Steps /\ Do("block").op = "block"
  BY TestsAre, DoesAre DEF Tests, IsTest
<1> HIDE DEF e, o
<1> DEFINE Unknown == /\ Len(f) = 3 /\ f[1] = Test("scope")
                      /\ f[2] = Escalation(r) /\ f[3] = Finding(r)
           Known == /\ Len(f) \in {5, 6} /\ f[1] = Do("block")
                    /\ f[2] = Test("scope") /\ f[3] = e
                    /\ f[4] = CeoNotice(r) /\ f[5] \in {o, Escalation(r)}
                    /\ Len(f) = 6 => f[6] = Escalation(r)
<1>4. f \in Seq(Steps) /\ (Known \/ Unknown)
  <2>1. CASE r.about = "none"
    BY <2>1, <1>1, <1>3, AuditorWrote
  <2>2. CASE r.about # "none" /\ r.severity = "critical"
    BY <2>2, <1>1, <1>2, <1>3, AuditorWrote DEF If
  <2>3. CASE r.about # "none" /\ r.severity # "critical"
    BY <2>3, <1>1, <1>2, <1>3, AuditorWrote DEF If
  <2> QED  BY <2>1, <2>2, <2>3
<1> HIDE DEF f
<1>5. Scoped(r, f) /\ Skipping(f)
  <2>1. CASE Known
    <3>1. Scoped(r, f)
      BY <2>1, <1>2, <1>3, <1>4, AuditorWrote
         DEF Scoped, IsTest, NeedsProject, ProjectTests
    <3>2. Skipping(f)
      BY <2>1, <1>2, <1>3, <1>4, AuditorWrote DEF Skipping, IsTest
    <3> QED  BY <3>1, <3>2
  <2>2. CASE Unknown
    BY <2>2, <1>3, <1>4, AuditorWrote
       DEF Scoped, Skipping, IsTest, NeedsProject, ProjectTests
  <2> QED  BY <2>1, <2>2, <1>4
<1>6. \A i \in DOMAIN f : PlainStep(f[i])
  <2>1. CASE Known
    BY <2>1, <1>2, <1>3, <1>4, AuditorWrote
       DEF PlainStep, IsTest, Counted, Coapprovals
  <2>2. CASE Unknown
    BY <2>2, <1>3, <1>4, AuditorWrote
       DEF PlainStep, IsTest, Counted, Coapprovals
  <2> QED  BY <2>1, <2>2, <1>4
<1> QED  BY <1>4, <1>5, <1>6, PlainIsShaped DEF Coapprovals, f

\* What the administrator writes, and its plans.
LEMMA AdminWrites ==
  ASSUME NEW r \in Request, NEW ty \in GovernanceEvents, NEW words \in Words
  PROVE  /\ AdminWrite(r, ty, words) \in Steps
         /\ AdminWrite(r, ty, words).op = "write"
         /\ AdminWrite(r, ty, words).type = ty
<1>1. /\ ty \in Types /\ "administrator" \in Roles /\ r.about \in Topics
      /\ "active" \in OptionalState
  BY TypesAre, RequestIs DEF Roles, OptionalState, ProjectStatuses
<1> QED  BY <1>1, StepsAre DEF AdminWrite

\* RetentionEnforcer.
LEMMA ShapedRetention ==
  ASSUME NEW r \in Request, r.kind = "retention"
  PROVE  Shaped(r, PlanOf(r))
<1> DEFINE f == PlanOf(r)
           c == AdminWrite(r, "administrator_retention", "completed")
           e == AdminWrite(r, "administrator_retention", "terminated")
<1>1. f = <<Test("scope"), c>> \o If(r.terminated, <<e>>)
  BY DEF PlanOf, EnforceRetention
<1>2. /\ c \in Steps /\ c.op = "write" /\ c.type = "administrator_retention"
      /\ e \in Steps /\ e.op = "write" /\ e.type = "administrator_retention"
  BY AdminWrites DEF GovernanceEvents, Words
<1>3. Test("scope") \in Steps /\ IsTest(Test("scope"), "scope")
  BY TestsAre DEF Tests, IsTest
<1> HIDE DEF c, e
<1>4. /\ f \in Seq(Steps) /\ Len(f) \in {2, 3} /\ f[1] = Test("scope")
      /\ f[2] = c /\ (Len(f) = 3 => f[3] = e)
  <2>1. CASE r.terminated
    BY <2>1, <1>1, <1>2, <1>3 DEF If
  <2>2. CASE ~r.terminated
    BY <2>2, <1>1, <1>2, <1>3 DEF If
  <2> QED  BY <2>1, <2>2
<1> HIDE DEF f
<1>5. Scoped(r, f) /\ Skipping(f)
  BY <1>2, <1>3, <1>4
     DEF Scoped, Skipping, IsTest, NeedsProject, ProjectTests
<1>6. \A i \in DOMAIN f : PlainStep(f[i])
  BY <1>2, <1>3, <1>4 DEF PlainStep, IsTest, Counted, Coapprovals
<1> QED  BY <1>4, <1>5, <1>6, PlainIsShaped DEF Coapprovals, f

\* _handle_quarantine_agent: the request names its project.
LEMMA ShapedQuarantine ==
  ASSUME NEW r \in Request, r.kind = "quarantine"
  PROVE  Shaped(r, PlanOf(r))
<1> DEFINE f == PlanOf(r)
           c == AdminWrite(r, "administrator_containment", "quarantined")
           o == AdminWrite(r, "administrator_owner_notification",
                           "quarantined")
           e == AdminWrite(r, "administrator_ceo_notification",
                           "quarantined")
           a == AdminWrite(r, "administrator_owner_alert", "quarantined")
<1>1. f = <<Do("quarantine"), c, o, e>>
            \o If(r.severity = "critical", <<a>>)
  BY DEF PlanOf, QuarantineAgent
<1>2. /\ c \in Steps /\ c.op = "write"
      /\ c.type = "administrator_containment"
      /\ o \in Steps /\ o.op = "write"
      /\ o.type = "administrator_owner_notification"
      /\ e \in Steps /\ e.op = "write"
      /\ e.type = "administrator_ceo_notification"
      /\ a \in Steps /\ a.op = "write"
      /\ a.type = "administrator_owner_alert"
  BY AdminWrites DEF GovernanceEvents, Words
<1>3. Do("quarantine") \in Steps /\ Do("quarantine").op = "quarantine"
  BY DoesAre
<1> HIDE DEF c, o, e, a
<1>4. /\ f \in Seq(Steps) /\ Len(f) \in {4, 5} /\ f[1] = Do("quarantine")
      /\ f[2] = c /\ f[3] = o /\ f[4] = e /\ (Len(f) = 5 => f[5] = a)
  <2>1. CASE r.severity = "critical"
    BY <2>1, <1>1, <1>2, <1>3 DEF If
  <2>2. CASE r.severity # "critical"
    BY <2>2, <1>1, <1>2, <1>3 DEF If
  <2> QED  BY <2>1, <2>2
<1> HIDE DEF f
<1>5. Scoped(r, f) /\ Skipping(f)
  BY <1>2, <1>3, <1>4, RequestIs DEF Scoped, Skipping
<1>6. \A i \in DOMAIN f : PlainStep(f[i])
  BY <1>2, <1>3, <1>4 DEF PlainStep, Counted, Coapprovals
<1> QED  BY <1>4, <1>5, <1>6, PlainIsShaped DEF Coapprovals, f

\* The project manager's document is written last, in the state found before.
LEMMA PmWriteIs ==
  ASSUME NEW r \in Request
  PROVE  LET w == Write(r.type, "project_manager", "resolved", r.about,
                        "document")
         IN  /\ PmWrite(r) = <<Test("pm_writer"), w>>
             /\ PmWrite(r) \in Seq(Steps) /\ Len(PmWrite(r)) = 2
             /\ w \in Steps /\ w.op = "write" /\ w.type = r.type
<1> DEFINE w == Write(r.type, "project_manager", "resolved", r.about,
                      "document")
<1>1. /\ "project_manager" \in Roles /\ "document" \in Words
      /\ "resolved" \in OptionalState \union {"resolved"}
      /\ r.type \in Types \union {"none"} /\ r.about \in Topics
  BY RequestIs DEF Roles, Words
<1>2. w \in Steps /\ w.op = "write" /\ w.type = r.type
  BY <1>1 DEF Write, Steps
<1>3. Test("pm_writer") \in Steps
  BY TestsAre DEF Tests
<1>4. PmWrite(r) = <<Test("pm_writer"), w>>
  BY DEF PmWrite
<1> HIDE DEF w
<1>5. PmWrite(r) \in Seq(Steps) /\ Len(PmWrite(r)) = 2
  BY <1>2, <1>3, <1>4
<1> QED  BY <1>2, <1>4, <1>5 DEF w

\* The plans of the project manager.
LEMMA ShapedPmMutation ==
  ASSUME NEW r \in Request, r.kind = "pm_mutation"
  PROVE  Shaped(r, PlanOf(r))
<1> DEFINE f == PlanOf(r)
           d == Write("decision_log", "project_manager", "active", r.about,
                      "budget_risk")
           w == Write(r.type, "project_manager", "resolved", r.about,
                      "document")
<1>1. f = <<Test("scope"), Do("state")>>
            \o If(r.risk, <<SkipIf("inactive"), d>>)
            \o If(r.type # "none", PmWrite(r))
  BY DEF PlanOf, PmTaskMutation
<1>2. /\ w \in Steps /\ w.op = "write" /\ w.type = r.type
      /\ PmWrite(r) = <<Test("pm_writer"), w>>
  BY PmWriteIs
<1>s. /\ "decision_log" \in Types /\ "project_manager" \in Roles
      /\ "active" \in OptionalState /\ "budget_risk" \in Words
  BY TypesAre DEF AppendOnly, Roles, OptionalState, ProjectStatuses, Words
<1>d. d \in Steps /\ d.op = "write" /\ d.type = "decision_log"
  BY <1>s, StepsAre, RequestIs
<1>3. \A test \in {"scope", "inactive", "pm_writer"} :
        /\ Test(test) \in Steps /\ IsTest(Test(test), test)
        /\ SkipIf(test) \in Steps /\ SkipIf(test).op = "skip"
  BY TestsAre DEF Tests, IsTest
<1>o. Do("state") \in Steps /\ Do("state").op = "state"
  BY DoesAre
<1> HIDE DEF d, w
<1> DEFINE Neither == Len(f) = 2
           Risk == Len(f) = 4 /\ f[3] = SkipIf("inactive") /\ f[4] = d
           Report == Len(f) = 4 /\ f[3] = Test("pm_writer") /\ f[4] = w
           Both == /\ Len(f) = 6 /\ f[3] = SkipIf("inactive") /\ f[4] = d
                   /\ f[5] = Test("pm_writer") /\ f[6] = w
<1>4. /\ f \in Seq(Steps) /\ f[1] = Test("scope") /\ f[2] = Do("state")
      /\ Neither \/ Risk \/ Report \/ Both
  <2>1. CASE ~r.risk /\ r.type = "none"
    BY <2>1, <1>1, <1>3, <1>o DEF If
  <2>2. CASE r.risk /\ r.type = "none"
    BY <2>2, <1>1, <1>3, <1>d, <1>o DEF If
  <2>3. CASE ~r.risk /\ r.type # "none"
    BY <2>3, <1>1, <1>2, <1>3, <1>o DEF If
  <2>4. CASE r.risk /\ r.type # "none"
    BY <2>4, <1>1, <1>2, <1>3, <1>d, <1>o DEF If
  <2> QED  BY <2>1, <2>2, <2>3, <2>4
<1> HIDE DEF f
<1>5. Scoped(r, f)
  BY <1>3, <1>4 DEF Scoped, IsTest, NeedsProject, ProjectTests
<1>6. Skipping(f)
  BY <1>2, <1>3, <1>4, <1>d, <1>o DEF Skipping, IsTest
<1>7. Deciding(r, f) /\ Binding(f)
  <2>1. CASE Neither
    BY <2>1, <1>2, <1>3, <1>4, <1>d, <1>o
       DEF Deciding, Binding, IsTest
  <2>2. CASE Risk
    BY <2>2, <1>2, <1>3, <1>4, <1>d, <1>o
       DEF Deciding, Binding, IsTest
  <2>3. CASE Report
    BY <2>3, <1>2, <1>3, <1>4, <1>d, <1>o
       DEF Deciding, Binding, IsTest
  <2>4. CASE Both
    BY <2>4, <1>2, <1>3, <1>4, <1>d, <1>o
       DEF Deciding, Binding, IsTest
  <2> QED  BY <2>1, <2>2, <2>3, <2>4, <1>4
<1>8. Agreeing(r, f) /\ WritesOnce(f)
  <2>1. CASE Neither
    BY <2>1, <1>2, <1>3, <1>4, <1>d, <1>o
       DEF Agreeing, WritesOnce, IsTest, Coapprovals, Counted
  <2>2. CASE Risk
    BY <2>2, <1>2, <1>3, <1>4, <1>d, <1>o
       DEF Agreeing, WritesOnce, IsTest, Coapprovals, Counted
  <2>3. CASE Report
    BY <2>3, <1>2, <1>3, <1>4, <1>d, <1>o
       DEF Agreeing, WritesOnce, IsTest, Coapprovals, Counted
  <2>4. CASE Both
    BY <2>4, <1>2, <1>3, <1>4, <1>d, <1>o
       DEF Agreeing, WritesOnce, IsTest, Coapprovals, Counted
  <2> QED  BY <2>1, <2>2, <2>3, <2>4, <1>4
<1>9. Keyed(r, f)
  <2>1. CASE Neither
    BY <2>1, <1>2, <1>3, <1>4, <1>d, <1>o DEF Keyed, IsTest
  <2>2. CASE Risk
    BY <2>2, <1>2, <1>3, <1>4, <1>d, <1>o DEF Keyed, IsTest
  <2>3. CASE Report
    BY <2>3, <1>2, <1>3, <1>4, <1>d, <1>o DEF Keyed, IsTest
  <2>4. CASE Both
    BY <2>4, <1>2, <1>3, <1>4, <1>d, <1>o DEF Keyed, IsTest
  <2> QED  BY <2>1, <2>2, <2>3, <2>4, <1>4
<1> QED  BY <1>4, <1>5, <1>6, <1>7, <1>8, <1>9 DEF Shaped, f

\* _handle_document_admin.
LEMMA ShapedPmDocument ==
  ASSUME NEW r \in Request, r.kind = "pm_document"
  PROVE  Shaped(r, PlanOf(r))
<1> DEFINE f == PlanOf(r)
           w == Write(r.type, "project_manager", "resolved", r.about,
                      "document")
<1>1. f = <<Test("scope"), Test("both_approve"), Test("controlled"),
            Do("state")>> \o <<Test("pm_writer"), w>>
  BY PmWriteIs DEF PlanOf, PmDocumentAdmin
<1>2. w \in Steps /\ w.op = "write" /\ w.type = r.type
  BY PmWriteIs
<1>3. \A test \in {"scope", "both_approve", "controlled", "pm_writer"} :
        Test(test) \in Steps /\ IsTest(Test(test), test)
  BY TestsAre DEF Tests, IsTest
<1>o. Do("state") \in Steps /\ Do("state").op = "state"
  BY DoesAre
<1> HIDE DEF w
<1>4. /\ f \in Seq(Steps) /\ Len(f) = 6 /\ f[1] = Test("scope")
      /\ f[2] = Test("both_approve") /\ f[3] = Test("controlled")
      /\ f[4] = Do("state") /\ f[5] = Test("pm_writer") /\ f[6] = w
  BY <1>1, <1>2, <1>3, <1>o
<1> HIDE DEF f
<1>5. Scoped(r, f) /\ Skipping(f)
  BY <1>2, <1>3, <1>4, <1>o
     DEF Scoped, Skipping, IsTest, NeedsProject, ProjectTests
<1>6. Deciding(r, f) /\ Binding(f)
  BY <1>2, <1>3, <1>4, <1>o DEF Deciding, Binding, IsTest
<1>7. Agreeing(r, f) /\ WritesOnce(f)
  BY <1>2, <1>3, <1>4, <1>o
     DEF Agreeing, WritesOnce, IsTest, Coapprovals, Counted
<1>8. Keyed(r, f)
  BY <1>2, <1>3, <1>4, <1>o DEF Keyed, IsTest
<1> QED  BY <1>4, <1>5, <1>6, <1>7, <1>8 DEF Shaped, f

\* write_completion_report: the request names its project.
LEMMA ShapedPmCompletion ==
  ASSUME NEW r \in Request, r.kind = "pm_completion"
  PROVE  Shaped(r, PlanOf(r))
<1> DEFINE f == PlanOf(r)
           w == Write("completion_report", "project_manager", r.state,
                      r.about, "document")
<1>1. f = <<Test("running"), w>>
  BY DEF PlanOf, PmCompletionReport
<1>s. /\ "completion_report" \in Types /\ "project_manager" \in Roles
      /\ "document" \in Words
  BY TypesAre DEF AppendOnly, Roles, Words
<1>2. w \in Steps /\ w.op = "write" /\ w.type = "completion_report"
  BY <1>s, StepsAre, RequestIs
<1>3. Test("running") \in Steps /\ IsTest(Test("running"), "running")
  BY TestsAre DEF Tests, IsTest
<1> HIDE DEF w
<1>4. /\ f \in Seq(Steps) /\ Len(f) = 2 /\ f[1] = Test("running")
      /\ f[2] = w
  BY <1>1, <1>2, <1>3
<1> HIDE DEF f
<1>5. Scoped(r, f) /\ Skipping(f)
  BY <1>2, <1>3, <1>4, RequestIs DEF Scoped, Skipping, IsTest
<1>6. \A i \in DOMAIN f : PlainStep(f[i])
  BY <1>2, <1>3, <1>4 DEF PlainStep, IsTest, Counted, Coapprovals
<1> QED  BY <1>4, <1>5, <1>6, PlainIsShaped DEF Coapprovals, f

\* The plan of a tool call, step by step.
LEMMA ToolPlan ==
  ASSUME NEW r \in Request, r.kind = "tool"
  PROVE  /\ PlanOf(r) \in Seq(Steps) /\ Len(PlanOf(r)) = 5
         /\ IsTest(PlanOf(r)[1], "allowed") /\ PlanOf(r)[2].op = "replay"
         /\ PlanOf(r)[3].op = "reserve" /\ PlanOf(r)[4].op = "project"
         /\ PlanOf(r)[5].op = "write" /\ PlanOf(r)[5].status = "resolved"
         /\ ~PlanOf(r)[5].soft
<1> DEFINE f == PlanOf(r)
           w == Write(r.type, r.recipient, "resolved", r.about, r.decision)
<1>1. f = <<Test("allowed"), Do("replay"), Do("reserve"), Do("project"), w>>
  BY DEF PlanOf, CallTool
<1>s. r.decision \in Words /\ "resolved" \in OptionalState \union {"resolved"}
  BY RequestIs DEF Words
<1>2. w \in Steps /\ w.op = "write" /\ w.status = "resolved" /\ ~w.soft
  BY <1>s, RequestIs DEF Write, Steps
<1>3. Test("allowed") \in Steps /\ IsTest(Test("allowed"), "allowed")
  BY TestsAre DEF Tests, IsTest
<1>4. \A what \in {"replay", "reserve", "project"} :
        Do(what) \in Steps /\ Do(what).op = what
  BY DoesAre
<1> HIDE DEF w
<1> QED  BY <1>1, <1>2, <1>3, <1>4

\* call_tool: the project is resolved before the write.
LEMMA ShapedTool ==
  ASSUME NEW r \in Request, r.kind = "tool"
  PROVE  Shaped(r, PlanOf(r))
<1> DEFINE f == PlanOf(r)
<1>1. /\ f \in Seq(Steps) /\ Len(f) = 5 /\ f[1].op = "test"
      /\ f[1].test = "allowed" /\ f[2].op = "replay"
      /\ f[3].op = "reserve" /\ f[4].op = "project" /\ f[5].op = "write"
  BY ToolPlan DEF IsTest
<1> HIDE DEF f
<1>2. Scoped(r, f) /\ Skipping(f)
  BY <1>1 DEF Scoped, Skipping, NeedsProject, ProjectTests
<1>3. Deciding(r, f) /\ Binding(f)
  BY <1>1 DEF Deciding, Binding
<1>4. Agreeing(r, f) /\ WritesOnce(f)
  BY <1>1 DEF Agreeing, WritesOnce, Coapprovals
<1>5. Keyed(r, f)
  BY DEF Keyed
<1> QED  BY <1>1, <1>2, <1>3, <1>4, <1>5 DEF Shaped, f

\* Whatever the request, its plan has the shape.
LEMMA PlansAreShaped ==
  ASSUME NEW r \in Request
  PROVE  Shaped(r, PlanOf(r))
<1>1. r.kind \in Kinds
  BY RequestIs
<1> QED
  BY <1>1, ShapedCso, ShapedCeo, ShapedCwo, ShapedCeoCoapproval,
     ShapedCwoCoapproval, ShapedInitialization, ShapedPmMutation,
     ShapedPmDocument, ShapedPmCompletion, ShapedBudgetBreach,
     ShapedGovernanceViolation, ShapedBehavioralViolation,
     ShapedDocumentViolation, ShapedRetention, ShapedQuarantine, ShapedTool
     DEF Kinds

-----------------------------------------------------------------------------
(* What a request did stays done.                                          *)

\* The next step is the one the plan has at that place.
LEMMA HeadFollows ==
  ASSUME NEW full \in Seq(Steps), NEW left \in Seq(Steps),
         Follows(full, left), left # <<>>
  PROVE  /\ Head(left) = left[1] /\ left[1] \in Steps
         /\ Len(full) - Len(left) \in Nat
         /\ Len(full) - Len(left) + 1 \in DOMAIN full
         /\ \/ left[1] = full[Len(full) - Len(left) + 1]
            \/ Begun(left[1], full[Len(full) - Len(left) + 1])
  BY DEF Follows

\* Dropping the next step leaves the rest of the plan.
LEMMA TailFollows ==
  ASSUME NEW full \in Seq(Steps), NEW left \in Seq(Steps),
         Follows(full, left), left # <<>>
  PROVE  /\ Tail(left) \in Seq(Steps) /\ Len(Tail(left)) = Len(left) - 1
         /\ \A i \in DOMAIN Tail(left) : Tail(left)[i] = left[i + 1]
         /\ Follows(full, Tail(left))
<1>1. /\ Tail(left) \in Seq(Steps) /\ Len(Tail(left)) = Len(left) - 1
      /\ \A i \in DOMAIN Tail(left) : Tail(left)[i] = left[i + 1]
  OBVIOUS
<1>2. PICK k, n, rest : /\ k = Len(full) /\ n = Len(left) /\ rest = Tail(left)
  OBVIOUS
<1>3. /\ k \in Nat /\ n \in Nat /\ n >= 1 /\ n <= k
      /\ DOMAIN left = 1..n /\ DOMAIN rest = 1..(n - 1)
      /\ Len(rest) = n - 1
  BY <1>1, <1>2 DEF Follows
<1>4. \A i \in 1..n : i # 1 => left[i] = full[k - n + i]
  BY <1>2, <1>3 DEF Follows
<1>5. ASSUME NEW i \in 1..(n - 1)
      PROVE  rest[i] = full[k - (n - 1) + i]
  <2>1. /\ i + 1 \in 1..n /\ i + 1 # 1 /\ k - n + (i + 1) = k - (n - 1) + i
    BY <1>3
  <2>2. rest[i] = left[i + 1]
    BY <1>1, <1>2, <1>3
  <2> QED  BY <2>1, <2>2, <1>4
<1>6. Follows(full, rest)
  <2>1. Len(rest) <= Len(full)
    BY <1>2, <1>3
  <2> QED  BY <2>1, <1>2, <1>3, <1>5 DEF Follows
<1> QED  BY <1>1, <1>2, <1>6

\* What is first once the first element is dropped.
LEMMA TailHead ==
  ASSUME NEW S, NEW q \in Seq(S), q # <<>>, Tail(q) # <<>>
  PROVE  Len(q) >= 2 /\ Tail(q)[1] = q[2]
  OBVIOUS

\* The step after a skip is the one the plan has there.
LEMMA SecondFollows ==
  ASSUME NEW full \in Seq(Steps), NEW left \in Seq(Steps),
         Follows(full, left), Len(left) >= 2
  PROVE  /\ 2 \in DOMAIN left
         /\ left[2] = full[Len(full) - Len(left) + 2]
         /\ Len(full) - Len(left) + 2 \in DOMAIN full
  BY DEF Follows

\* Every plan follows itself; nothing left follows any plan.
LEMMA FollowsEnds ==
  ASSUME NEW full \in Seq(Steps)
  PROVE  Follows(full, full) /\ Follows(full, <<>>)
  BY DEF Follows

\* The log only grows, at its end.
LogGrows == log' = log \/ \E e \in LogEntry : log' = Append(log, e)

\* The log keeps its entries.
LEMMA LogKept ==
  ASSUME log \in Seq(LogEntry), LogGrows
  PROVE  /\ log' \in Seq(LogEntry) /\ Len(log) <= Len(log')
         /\ DOMAIN log \subseteq DOMAIN log'
         /\ \A i \in DOMAIN log : log'[i] = log[i]
  BY DEF LogGrows

\* What a step left behind stays.
LEMMA MetStays ==
  ASSUME TypeOK, LogGrows, NEW r, NEW s, Met(r, s)
  PROVE  Met(r, s)'
<1>1. /\ DOMAIN log \subseteq DOMAIN log'
      /\ \A i \in DOMAIN log : log'[i] = log[i]
  BY LogKept DEF TypeOK
<1> QED  BY <1>1 DEF Met

\* The cycles before a request stay the same.
LEMMA CyclesStay ==
  ASSUME TypeOK, LogGrows, NEW topic, NEW k \in Nat, k <= Len(log)
  PROVE  /\ Conflicts(topic, k)' = Conflicts(topic, k)
         /\ Revisions(topic, k)' = Revisions(topic, k)
<1>1. \A j \in 1..k : log'[j] = log[j]
  BY LogKept DEF TypeOK
<1> QED  BY <1>1 DEF Conflicts, Revisions

\* What a step decided stays decided.
LEMMA JudgedStays ==
  ASSUME TypeOK, LogGrows, Overwritten => Overwritten', NEW r, NEW s,
         NEW m \in Mind, NEW mm \in Mind, m.from <= Len(log),
         mm.from = m.from, mm.cycles = m.cycles, mm.outcome = m.outcome,
         Judged(r, m, s)
  PROVE  Judged(r, mm, s)'
<1>1. m.from \in Nat
  BY DEF Mind
<1>2. /\ Conflicts(r.about, m.from)' = Conflicts(r.about, m.from)
      /\ Revisions(r.about, m.from)' = Revisions(r.about, m.from)
  BY <1>1, CyclesStay
<1> QED  BY <1>2 DEF Judged

\* A request that goes on to its next step.
LEMMA ProperRest ==
  ASSUME TypeOK, LogGrows, NEW r \in Request, NEW left \in Seq(Steps),
         left # <<>>, NEW m \in Mind, NEW mm \in Mind, Proper(r, left, m),
         status' = status, mm.from = m.from, mm.seen = m.seen,
         \A j \in 1..(Len(PlanOf(r)) - Len(left) + 1) :
           Judged(r, mm, PlanOf(r)[j])',
         Met(r, PlanOf(r)[Len(PlanOf(r)) - Len(left) + 1])'
  PROVE  Proper(r, Tail(left), mm)'
<1> DEFINE f == PlanOf(r)
           d == Len(f) - Len(left)
<1>1. f \in Seq(Steps)
  BY PlansAreShaped DEF Shaped
<1> HIDE DEF f
<1>2. /\ Follows(f, left) /\ m.from <= Len(log)
      /\ r.project \in Projects => status[r.project] \in m.seen
      /\ \A j \in 1..d : Met(r, f[j])
  BY DEF Proper, f
<1>3. d \in Nat /\ d + 1 \in DOMAIN f
  BY <1>1, <1>2, HeadFollows
<1>4. Follows(f, Tail(left)) /\ Len(Tail(left)) = Len(left) - 1
  BY <1>1, <1>2, TailFollows
<1>5. Len(f) - Len(Tail(left)) = d + 1
  BY <1>1, <1>4
<1>6. \A j \in 1..d : Met(r, f[j])'
  BY <1>2, MetStays
<1>7. Len(log) \in Nat /\ Len(log') \in Nat /\ Len(log) <= Len(log')
  BY LogKept DEF TypeOK
<1>8. m.from \in Nat
  BY DEF Mind
<1>9. mm.from <= Len(log')
  BY <1>2, <1>7, <1>8
<1>10. \A j \in 1..(d + 1) : Met(r, f[j])' /\ Judged(r, mm, f[j])'
  BY <1>3, <1>6 DEF f
<1> HIDE DEF d
<1> QED  BY <1>2, <1>4, <1>5, <1>9, <1>10 DEF Proper, f

\* A request that is refused, and one that goes on with its write.
LEMMA ProperRefused ==
  ASSUME TypeOK, LogGrows, NEW r \in Request, NEW left, NEW m \in Mind,
         NEW mm \in Mind, Proper(r, left, m), status' = status,
         mm.from = m.from, mm.seen = m.seen
  PROVE  Proper(r, <<>>, mm)' /\ Counting(r, <<>>, mm)'
<1>1. PlanOf(r) \in Seq(Steps)
  BY PlansAreShaped DEF Shaped
<1>2. Follows(PlanOf(r), <<>>)
  BY <1>1, FollowsEnds
<1>3. Len(log) \in Nat /\ Len(log') \in Nat /\ Len(log) <= Len(log')
  BY LogKept DEF TypeOK
<1>4. mm.from <= Len(log')
  BY <1>3 DEF Proper, Mind
<1> QED  BY <1>2, <1>4 DEF Proper, Counting

\* A request that does not move stays proper.
LEMMA ProperKept ==
  ASSUME TypeOK, LogGrows, Overwritten => Overwritten',
         NEW r \in Request, NEW left \in Seq(Steps), NEW rest \in Seq(Steps),
         NEW m \in Mind, NEW mm \in Mind, Proper(r, left, m),
         mm.from = m.from, mm.cycles = m.cycles, mm.outcome = m.outcome,
         r.project \in Projects => status'[r.project] \in mm.seen,
         Follows(PlanOf(r), rest), Len(rest) = Len(left)
  PROVE  Proper(r, rest, mm)'
<1>1. m.from \in Nat /\ m.from <= Len(log)
  BY DEF Mind, Proper
<1>2. Len(log) \in Nat /\ Len(log') \in Nat /\ Len(log) <= Len(log')
  BY LogKept DEF TypeOK
<1>3. mm.from <= Len(log')
  BY <1>1, <1>2
<1>4. ASSUME rest # <<>>, NEW j \in 1..(Len(PlanOf(r)) - Len(rest))
      PROVE  Met(r, PlanOf(r)[j])' /\ Judged(r, mm, PlanOf(r)[j])'
  <2>1. Met(r, PlanOf(r)[j]) /\ Judged(r, m, PlanOf(r)[j])
    BY <1>4 DEF Proper
  <2> QED  BY <2>1, <1>1, MetStays, JudgedStays
<1> QED  BY <1>3, <1>4 DEF Proper

-----------------------------------------------------------------------------
(* Steps of a thread.                                                      *)

WriteSteps ==
  [op : {"write", "file", "row"}, type : Types \union {"none"}, role : Roles,
   status : OptionalState \union {"resolved"}, about : Topics, says : Words,
   soft : BOOLEAN]

\* A writing step has the fields of a write.
LEMMA WritesAre ==
  ASSUME NEW s \in Steps, s.op \in Writing
  PROVE  s \in WriteSteps
  BY DEF Steps, WriteSteps, Writing

\* EXCEPT on an element of a sequence.
LEMMA ExceptSeq ==
  ASSUME NEW S, NEW s \in Seq(S), NEW i \in 1..Len(s), NEW x \in S
  PROVE  /\ [s EXCEPT ![i] = x] \in Seq(S)
         /\ Len([s EXCEPT ![i] = x]) = Len(s)
         /\ [s EXCEPT ![i] = x][i] = x
         /\ \A j \in 1..Len(s) : j # i => [s EXCEPT ![i] = x][j] = s[j]
  OBVIOUS

\* The write under way: its next step is what the same, otherwise.
LEMMA GotoIs ==
  ASSUME NEW s \in WriteSteps, NEW what \in {"file", "row"}
  PROVE  LET x == [s EXCEPT !.op = what]
         IN  /\ x \in Steps /\ x.op = what
             /\ x.type = s.type /\ x.role = s.role /\ x.status = s.status
             /\ x.about = s.about /\ x.says = s.says /\ x.soft = s.soft
  BY DEF WriteSteps, Steps

\* A write under way still follows the plan.
LEMMA GotoKeeps ==
  ASSUME TypeOK, NEW t \in Threads, plan[t] # <<>>,
         Step(t).op \in {"write", "file"}, NEW what \in {"file", "row"},
         Goto(t, what), NEW full \in Seq(Steps), Follows(full, plan[t]),
         Skipping(full)
  PROVE  /\ plan' \in [Threads -> Seq(Steps)]
         /\ \A u \in Threads : u # t => plan'[u] = plan[u]
         /\ plan'[t] # <<>> /\ Len(plan'[t]) = Len(plan[t])
         /\ plan'[t][1].op = what /\ plan'[t][1].type = plan[t][1].type
         /\ plan'[t][1].role = plan[t][1].role
         /\ plan'[t][1].status = plan[t][1].status
         /\ \A i \in DOMAIN plan[t] : i # 1 => plan'[t][i] = plan[t][i]
         /\ Follows(full, plan'[t])
<1>1. plan[t] \in Seq(Steps) /\ plan \in [Threads -> Seq(Steps)]
  BY DEF TypeOK
<1>2. plan[t][1] \in Steps /\ plan[t][1].op \in {"write", "file"}
  BY <1>1 DEF Step
<1>3. plan[t][1] \in WriteSteps
  BY <1>2, WritesAre DEF Writing
<1>4. PICK x : x = [plan[t][1] EXCEPT !.op = what]
  OBVIOUS
<1>5. /\ x \in Steps /\ x.op = what /\ x.type = plan[t][1].type
      /\ x.role = plan[t][1].role /\ x.status = plan[t][1].status
      /\ x.about = plan[t][1].about /\ x.says = plan[t][1].says
      /\ x.soft = plan[t][1].soft
  BY <1>3, <1>4, GotoIs
<1>6. PICK q : q = [plan[t] EXCEPT ![1] = x]
  OBVIOUS
<1>7. plan' = [plan EXCEPT ![t] = q]
  BY <1>4, <1>6 DEF Goto
<1>8. /\ q \in Seq(Steps) /\ Len(q) = Len(plan[t]) /\ q[1] = x
      /\ \A i \in 1..Len(plan[t]) : i # 1 => q[i] = plan[t][i]
  BY <1>1, <1>5, <1>6, ExceptSeq
<1>9. Begun(x, full[Len(full) - Len(plan[t]) + 1])
  <2>1. /\ Len(full) - Len(plan[t]) + 1 \in DOMAIN full
        /\ \/ plan[t][1] = full[Len(full) - Len(plan[t]) + 1]
           \/ Begun(plan[t][1], full[Len(full) - Len(plan[t]) + 1])
    BY <1>1, HeadFollows
  <2> QED  BY <2>1, <1>2, <1>5 DEF Begun, Skipping
<1>10. Follows(full, q)
  <2>1. Len(q) <= Len(full)
    BY <1>1, <1>8 DEF Follows
  <2>2. ASSUME NEW i \in DOMAIN q, i # 1
        PROVE  q[i] = full[Len(full) - Len(q) + i]
    <3>1. i \in 1..Len(plan[t]) /\ i \in DOMAIN plan[t]
      BY <1>1, <1>8
    <3>2. plan[t][i] = full[Len(full) - Len(plan[t]) + i]
      BY <2>2, <3>1 DEF Follows
    <3> QED  BY <2>2, <3>1, <3>2, <1>8
  <2> QED  BY <2>1, <2>2, <1>8, <1>9 DEF Follows
<1> QED  BY <1>1, <1>5, <1>7, <1>8, <1>10

\* The writes ahead are among those that were.
Thinner(left, rest) ==
  \A x \in DOMAIN rest : rest[x].op \in Writing =>
    \E y \in DOMAIN left : left[y].op \in Writing
                           /\ left[y].type = rest[x].type

ThreadsOK ==
  /\ inbox \in [Threads -> Seq(Request)]
  /\ plan \in [Threads -> Seq(Steps)]
  /\ mind \in [Threads -> Mind]
  /\ \A t \in Threads : /\ ~mind[t].on => plan[t] = <<>>
                        /\ mind[t].on => inbox[t] # <<>>

OthersOK ==
  /\ rows \in [Projects -> [Types -> Seq(Document)]]
  /\ files \in [Projects -> [Types -> Seq(Document)]]
  /\ status \in [Projects -> ProjectStatuses]
  /\ workforce \in [Projects -> {"absent", "active", "inactive"}]
  /\ blocked \subseteq Tasks
  /\ memo \in [Keys -> {"none", "ok", "denied"}]
  /\ bound \in [changes : Nat, faults : Nat]
  /\ effects \in [Keys -> [rows : Nat, upset : BOOLEAN]]
  /\ log \in Seq(LogEntry)

\* The type of the state: threads and the rest.
LEMMA TypesSplit ==
  TypeOK <=> ThreadsOK /\ OthersOK
  BY DEF TypeOK, ThreadsOK, OthersOK

\* The same for the next state.
LEMMA TypesSplitNext ==
  ThreadsOK' /\ OthersOK' => TypeOK'
  BY DEF TypeOK, ThreadsOK, OthersOK

\* A running thread, its request and its plan.
LEMMA Running ==
  ASSUME TypeOK, NEW t \in Threads, mind[t].on
  PROVE  /\ inbox[t] \in Seq(Request) /\ inbox[t] # <<>>
         /\ Len(inbox[t]) \in Nat /\ Req(t) \in Request
         /\ plan[t] \in Seq(Steps) /\ mind[t] \in Mind
         /\ PlanOf(Req(t)) \in Seq(Steps)
         /\ Shaped(Req(t), PlanOf(Req(t)))
<1>1. /\ inbox[t] \in Seq(Request) /\ inbox[t] # <<>>
      /\ plan[t] \in Seq(Steps) /\ mind[t] \in Mind
  BY DEF TypeOK
<1>2. Req(t) \in Request /\ Len(inbox[t]) \in Nat
  BY <1>1 DEF Req
<1> QED  BY <1>1, <1>2, PlansAreShaped DEF Shaped

\* A thread that stays where it is while tables and log do.
LEMMA OnPlanSame ==
  ASSUME NEW t \in Threads, OnPlan(t), Req(t)' = Req(t), plan'[t] = plan[t],
         mind'[t] = mind[t], rows' = rows, log' = log, status' = status
  PROVE  OnPlan(t)'
<1>1. PICK r, left, m : r = Req(t) /\ left = plan[t] /\ m = mind[t]
  OBVIOUS
<1>2. Overwritten' = Overwritten
  BY DEF Overwritten
<1>3. m.on => Proper(r, left, m) /\ Counting(r, left, m)
  BY <1>1 DEF OnPlan
<1>4. Proper(r, left, m) => Proper(r, left, m)'
  BY <1>2 DEF Proper, Met, Judged, Conflicts, Revisions
<1>5. Counting(r, left, m) => Counting(r, left, m)'
  BY DEF Counting
<1>6. r = Req(t)' /\ left = plan'[t] /\ m = mind'[t]
  BY <1>1
<1> QED  BY <1>3, <1>4, <1>5, <1>6 DEF OnPlan

\* A step of one thread that touches neither the tables nor the log.
LEMMA LocalKeeps ==
  ASSUME IInv, TypeOK', NEW t \in Threads, mind[t].on, mind'[t].on,
         inbox' = inbox, rows' = rows, log' = log, status' = status,
         \A u \in Threads : u # t => plan'[u] = plan[u] /\ mind'[u] = mind[u],
         OnPlan(t)', Thinner(plan[t], plan'[t])
  PROVE  IInv'
<1>1. \A u \in Threads : Req(u)' = Req(u)
  BY DEF Req
<1>2. \A u \in Threads : OnPlan(u)'
  <2> SUFFICES ASSUME NEW u \in Threads, u # t
               PROVE  OnPlan(u)'
    OBVIOUS
  <2>1. OnPlan(u) /\ plan'[u] = plan[u] /\ mind'[u] = mind[u]
    BY DEF IInv
  <2> QED  BY <2>1, <1>1, OnPlanSame
<1>3. Within' /\ TableIsLogged' /\ Agreed' /\ Dated'
  BY DEF IInv, Within, TableIsLogged, Agreed, Dated
<1>7. GatesKeepOrder'
  BY DEF IInv, GatesKeepOrder, DecisionAfterReview, BindAfterApproval, Before
<1>8. CoapprovalHasAnOrigin'
  BY DEF IInv, CoapprovalHasAnOrigin, Before
<1>4. ConflictEndsAfterThree'
  BY DEF IInv, ConflictEndsAfterThree, Cycles, Overwritten
<1>5. Numbered'
  <2> SUFFICES ASSUME NEW i \in DOMAIN log, NEW u \in Threads, NEW k \in Nat,
                      log[i].n = <<u, k>>
               PROVE  /\ k >= Len(inbox[u])
                      /\ mind'[u].on \/ k > Len(inbox[u])
                      /\ k = Len(inbox[u]) /\ log[i].type \in Counted =>
                           \A x \in DOMAIN plan'[u] :
                             plan'[u][x].op \in Writing =>
                               plan'[u][x].type # log[i].type
    BY DEF IInv, Numbered
  <2>1. /\ k >= Len(inbox[u])
        /\ mind[u].on \/ k > Len(inbox[u])
        /\ k = Len(inbox[u]) /\ log[i].type \in Counted =>
             \A x \in DOMAIN plan[u] :
               plan[u][x].op \in Writing => plan[u][x].type # log[i].type
    BY DEF IInv, Numbered
  <2>2. CASE u # t
    BY <2>1, <2>2
  <2>3. CASE u = t
    BY <2>1, <2>3 DEF Thinner
  <2> QED  BY <2>2, <2>3
<1> QED  BY <1>2, <1>3, <1>4, <1>5, <1>7, <1>8 DEF IInv

\* What is left after a step is part of what was left.
LEMMA TailThinner ==
  ASSUME NEW left \in Seq(Steps), left # <<>>
  PROVE  Thinner(left, Tail(left))
<1>1. \A i \in DOMAIN Tail(left) : /\ i + 1 \in DOMAIN left
                                   /\ Tail(left)[i] = left[i + 1]
  OBVIOUS
<1> QED  BY <1>1 DEF Thinner

\* A thread's new place in its plan, named.
LEMMA OnPlanIs ==
  ASSUME NEW t \in Threads, inbox'[t] = inbox[t], NEW r, r = Req(t),
         NEW rest, rest = plan'[t], NEW mm, mm = mind'[t],
         Proper(r, rest, mm)', Counting(r, rest, mm)'
  PROVE  OnPlan(t)'
<1>1. r = Req(t)'
  BY DEF Req
<1> QED  BY <1>1 DEF OnPlan

\* A request whose rest is dropped.
LEMMA DropKeeps ==
  ASSUME IInv, OthersOK', NEW t \in Threads, mind[t].on,
         NEW m, m = mind[t], NEW mm \in Mind, mm.on, mm.from = m.from,
         mm.seen = m.seen, plan' = [plan EXCEPT ![t] = <<>>],
         mind' = [mind EXCEPT ![t] = mm],
         inbox' = inbox, rows' = rows, log' = log, status' = status
  PROVE  IInv'
<1>1. TypeOK /\ LogGrows
  BY DEF IInv, LogGrows
<1>2. PICK r, left : r = Req(t) /\ left = plan[t]
  OBVIOUS
<1>3. r \in Request /\ left \in Seq(Steps) /\ m \in Mind
  BY <1>1, <1>2, Running
<1>4. plan \in [Threads -> Seq(Steps)] /\ mind \in [Threads -> Mind]
  BY <1>1 DEF TypeOK
<1>5. plan'[t] = <<>> /\ mind'[t] = mm
  BY <1>4
<1>6. ThreadsOK'
  <2>1. ThreadsOK
    BY <1>1, TypesSplit
  <2>2. <<>> \in Seq(Steps)
    OBVIOUS
  <2> QED  BY <2>1, <2>2, <1>4 DEF ThreadsOK
<1>7. Proper(r, left, m)
  BY <1>2 DEF IInv, OnPlan
<1>8. Proper(r, <<>>, mm)' /\ Counting(r, <<>>, mm)'
  BY <1>1, <1>3, <1>7, ProperRefused
<1>9. OnPlan(t)'
  BY <1>2, <1>5, <1>8, OnPlanIs
<1>10. Thinner(plan[t], plan'[t])
  BY <1>5 DEF Thinner
<1>11. \A u \in Threads : u # t => plan'[u] = plan[u] /\ mind'[u] = mind[u]
  BY <1>4
<1>12. mind'[t].on /\ TypeOK'
  BY <1>5, <1>6, TypesSplitNext
<1> QED  BY <1>9, <1>10, <1>11, <1>12, LocalKeeps

\* A request that is refused.
LEMMA RefuseKeeps ==
  ASSUME IInv, OthersOK', NEW t \in Threads, mind[t].on, Refuse(t),
         inbox' = inbox, rows' = rows, log' = log, status' = status
  PROVE  IInv'
<1>1. mind[t] \in Mind
  BY DEF IInv, TypeOK
<1>2. PICK m, mm : m = mind[t] /\ mm = [m EXCEPT !.ok = FALSE]
  OBVIOUS
<1>3. mm \in Mind /\ mm.on = m.on /\ mm.from = m.from /\ mm.seen = m.seen
  BY <1>1, <1>2 DEF Mind
<1>4. /\ plan' = [plan EXCEPT ![t] = <<>>]
      /\ mind' = [mind EXCEPT ![t] = mm]
  BY <1>2 DEF Refuse
<1> QED  BY <1>2, <1>3, <1>4, DropKeeps

\* What the steps before decided, where they look at.
LEMMA JudgedSame ==
  ASSUME NEW r, NEW s, NEW m, NEW mm, Judged(r, m, s),
         mm.from = m.from,
         mm.cycles = m.cycles \/ s.op # "conflicts",
         mm.outcome = m.outcome \/ s.op # "GATE-003"
  PROVE  Judged(r, mm, s)
  BY DEF Judged

\* Only two steps decide anything.
LEMMA OneMore ==
  ASSUME NEW r, NEW m, NEW d \in Nat,
         \A j \in 1..d : Judged(r, m, PlanOf(r)[j]),
         \/ PlanOf(r)[d + 1].op \notin {"conflicts", "GATE-003"}
         \/ Judged(r, m, PlanOf(r)[d + 1])
  PROVE  \A j \in 1..(d + 1) : Judged(r, m, PlanOf(r)[j])
<1>1. Judged(r, m, PlanOf(r)[d + 1])
  BY DEF Judged
<1>2. \A j \in 1..(d + 1) : j \in 1..d \/ j = d + 1
  OBVIOUS
<1> QED  BY <1>1, <1>2

\* A request that passes to its next step.
LEMMA ContinueKeeps ==
  ASSUME IInv, OthersOK', NEW t \in Threads, mind[t].on, plan[t] # <<>>,
         Continue(t), inbox' = inbox, rows' = rows, log' = log,
         status' = status,
         NEW r, r = Req(t), NEW m, m = mind[t], NEW mm \in Mind,
         mind' = [mind EXCEPT ![t] = mm], mm.on, mm.from = m.from,
         mm.seen = m.seen,
         NEW d, d = Len(PlanOf(r)) - Len(plan[t]),
         \A j \in 1..(d + 1) : Judged(r, mm, PlanOf(r)[j]),
         Met(r, PlanOf(r)[d + 1])
  PROVE  IInv'
<1>1. TypeOK /\ LogGrows
  BY DEF IInv, LogGrows
<1>2. PICK left : left = plan[t]
  OBVIOUS
<1>3. /\ r \in Request /\ left \in Seq(Steps) /\ m \in Mind
      /\ Shaped(r, PlanOf(r)) /\ PlanOf(r) \in Seq(Steps)
  BY <1>1, <1>2, Running
<1>4. PICK rest : rest = Tail(left)
  OBVIOUS
<1>5. plan \in [Threads -> Seq(Steps)] /\ mind \in [Threads -> Mind]
  BY <1>1 DEF TypeOK
<1>6. /\ rest \in Seq(Steps) /\ plan' = [plan EXCEPT ![t] = rest]
      /\ plan'[t] = rest /\ mind'[t] = mm
  BY <1>2, <1>3, <1>4, <1>5 DEF Continue
<1>7. ThreadsOK'
  <2>1. ThreadsOK
    BY <1>1, TypesSplit
  <2> QED  BY <2>1, <1>5, <1>6 DEF ThreadsOK
<1>8. Proper(r, left, m)
  BY <1>2 DEF IInv, OnPlan
<1>9. Overwritten' = Overwritten
  BY DEF Overwritten
<1>10. \A j \in 1..(d + 1) : Judged(r, mm, PlanOf(r)[j])'
  BY <1>9 DEF Judged, Conflicts, Revisions
<1>11. Met(r, PlanOf(r)[d + 1])'
  BY DEF Met
<1>12. Proper(r, rest, mm)'
  BY <1>1, <1>2, <1>3, <1>4, <1>8, <1>10, <1>11, ProperRest
<1>13. Counting(r, rest, mm)'
  <2>1. Follows(PlanOf(r), left)
    BY <1>8 DEF Proper
  <2>2. rest # <<>> =>
          /\ 2 \in DOMAIN left /\ rest[1] = left[2]
          /\ left[2] = PlanOf(r)[d + 2] /\ d + 2 \in DOMAIN PlanOf(r)
    <3>1. rest # <<>> => Len(left) >= 2 /\ rest[1] = left[2]
      BY <1>2, <1>3, <1>4
    <3> QED  BY <3>1, <2>1, <1>2, <1>3, SecondFollows
  <2>3. rest # <<>> => PlanOf(r)[d + 2].op \notin {"file", "row"}
    BY <2>2, <1>3 DEF Shaped, Skipping
  <2>4. rest # <<>> => rest[1].op \notin {"file", "row"}
    BY <2>2, <2>3
  <2> QED  BY <2>4 DEF Counting
<1>14. OnPlan(t)'
  BY <1>6, <1>12, <1>13, OnPlanIs
<1>15. Thinner(plan[t], plan'[t])
  BY <1>2, <1>3, <1>4, <1>6, TailThinner
<1>16. \A u \in Threads : u # t => plan'[u] = plan[u] /\ mind'[u] = mind[u]
  BY <1>5, <1>6
<1>17. mind'[t].on /\ TypeOK'
  BY <1>6, <1>7, TypesSplitNext
<1> QED  BY <1>14, <1>15, <1>16, <1>17, LocalKeeps

\* A thread about to run a step of its plan.
LEMMA AtStep ==
  ASSUME IInv, NEW t \in Threads, mind[t].on, plan[t] # <<>>,
         NEW r, r = Req(t), NEW m, m = mind[t],
         NEW d, d = Len(PlanOf(r)) - Len(plan[t])
  PROVE  /\ TypeOK /\ r \in Request /\ m \in Mind /\ d \in Nat
         /\ plan[t] \in Seq(Steps) /\ Step(t) = plan[t][1] /\ Step(t) \in Steps
         /\ PlanOf(r) \in Seq(Steps) /\ Shaped(r, PlanOf(r))
         /\ d + 1 \in DOMAIN PlanOf(r)
         /\ Step(t) = PlanOf(r)[d + 1] \/ Begun(Step(t), PlanOf(r)[d + 1])
         /\ Step(t).op \notin {"file", "row"} => Step(t) = PlanOf(r)[d + 1]
         /\ Proper(r, plan[t], m)
         /\ \A j \in 1..d : Met(r, PlanOf(r)[j]) /\ Judged(r, m, PlanOf(r)[j])
<1>1. TypeOK
  BY DEF IInv
<1>2. /\ r \in Request /\ m \in Mind /\ plan[t] \in Seq(Steps)
      /\ PlanOf(r) \in Seq(Steps) /\ Shaped(r, PlanOf(r))
  BY <1>1, Running
<1>3. Proper(r, plan[t], m)
  BY DEF IInv, OnPlan
<1>4. /\ Follows(PlanOf(r), plan[t])
      /\ \A j \in 1..d : Met(r, PlanOf(r)[j]) /\ Judged(r, m, PlanOf(r)[j])
  BY <1>3 DEF Proper
<1>5. /\ Step(t) = plan[t][1] /\ plan[t][1] \in Steps
      /\ d \in Nat /\ d + 1 \in DOMAIN PlanOf(r)
      /\ \/ plan[t][1] = PlanOf(r)[d + 1]
         \/ Begun(plan[t][1], PlanOf(r)[d + 1])
  BY <1>2, <1>4, HeadFollows DEF Step
<1>6. Step(t).op \notin {"file", "row"} => Step(t) = PlanOf(r)[d + 1]
  BY <1>5 DEF Begun
<1> QED  BY <1>1, <1>2, <1>3, <1>4, <1>5, <1>6

\* How many steps of its plan a thread has behind it.
Done(t) == Len(PlanOf(Req(t))) - Len(plan[t])

\* The same, of the thread's own request and place.
LEMMA AtPlace ==
  ASSUME IInv, NEW t \in Threads, mind[t].on, plan[t] # <<>>
  PROVE  /\ TypeOK /\ Req(t) \in Request /\ mind[t] \in Mind /\ Done(t) \in Nat
         /\ plan[t] \in Seq(Steps) /\ Step(t) = plan[t][1] /\ Step(t) \in Steps
         /\ PlanOf(Req(t)) \in Seq(Steps) /\ Shaped(Req(t), PlanOf(Req(t)))
         /\ Done(t) + 1 \in DOMAIN PlanOf(Req(t))
         /\ \/ Step(t) = PlanOf(Req(t))[Done(t) + 1]
            \/ Begun(Step(t), PlanOf(Req(t))[Done(t) + 1])
         /\ Step(t).op \notin {"file", "row"} =>
              Step(t) = PlanOf(Req(t))[Done(t) + 1]
         /\ Proper(Req(t), plan[t], mind[t])
         /\ \A j \in 1..Done(t) :
              /\ Met(Req(t), PlanOf(Req(t))[j])
              /\ Judged(Req(t), mind[t], PlanOf(Req(t))[j])
<1>1. PICK r, m, d : r = Req(t) /\ m = mind[t] /\ d = Done(t)
  OBVIOUS
<1>2. d = Len(PlanOf(r)) - Len(plan[t])
  BY <1>1 DEF Done
<1>3. /\ TypeOK /\ r \in Request /\ m \in Mind /\ d \in Nat
      /\ plan[t] \in Seq(Steps) /\ Step(t) = plan[t][1] /\ Step(t) \in Steps
      /\ PlanOf(r) \in Seq(Steps) /\ Shaped(r, PlanOf(r))
      /\ d + 1 \in DOMAIN PlanOf(r)
      /\ Step(t) = PlanOf(r)[d + 1] \/ Begun(Step(t), PlanOf(r)[d + 1])
      /\ Step(t).op \notin {"file", "row"} => Step(t) = PlanOf(r)[d + 1]
      /\ Proper(r, plan[t], m)
      /\ \A j \in 1..d : Met(r, PlanOf(r)[j]) /\ Judged(r, m, PlanOf(r)[j])
  BY <1>1, <1>2, AtStep
<1> QED  BY <1>1, <1>3

-----------------------------------------------------------------------------
(* The steps that read.                                                    *)

\* A document of the table is in the log.
LEMMA RowIsLogged ==
  ASSUME IInv, NEW p \in Projects, NEW ty \in Types,
         NEW x \in ToSet(rows[p][ty])
  PROVE  \E i \in DOMAIN log : /\ log[i].project = p /\ log[i].type = ty
                               /\ log[i].about = x.about
                               /\ log[i].says = x.says
<1>1. PICK j \in Places(log, p, ty) : x = DocOf(log[j])
  BY DEF IInv, TableIsLogged
<1>2. x.about = log[j].about /\ x.says = log[j].says
  BY <1>1 DEF DocOf, Doc
<1> QED  BY <1>1, <1>2 DEF Places

\* A test that passes leaves behind what Met says.
LEMMA PassesMeets ==
  ASSUME IInv, NEW t \in Threads, NEW r, r = Req(t),
         NEW s \in Steps, s.op = "test", Passes(t, s.test),
         s.test \in ProjectTests => r.project \in Projects
  PROVE  Met(r, s)
<1> DEFINE p == r.project
<1>1. /\ "cwo_coapproval" \in Types /\ "ceo_coapproval" \in Types
      /\ "completion_report" \in Types /\ "cso_review" \in Types
      /\ Decision \in Types
  BY TypesAre DEF GovernanceEvents, AppendOnly, Decision
<1>2. CASE s.test = "scope"
  <2>1. p \in Projects
    BY <1>2 DEF Passes
  <2> QED  BY <1>2, <2>1 DEF Met, IsTest, Coapprovals
<1>3. CASE s.test \in Coapprovals
  <2>1. PICK x \in ToSet(rows[p][s.test]) : x.about = r.about
    BY <1>3 DEF Passes, Coapprovals
  <2>2. s.test \in Types /\ p \in Projects
    BY <1>1, <1>3 DEF Coapprovals, ProjectTests
  <2>3. \E i \in DOMAIN log : /\ log[i].project = p /\ log[i].type = s.test
                              /\ log[i].about = r.about
    BY <2>1, <2>2, RowIsLogged
  <2> QED  BY <1>3, <2>3 DEF Met, IsTest, Coapprovals
<1>4. CASE s.test \in {"completion_report", "cso_review"}
  <2>1. rows[p][s.test] # <<>>
    BY <1>4 DEF Passes, Present
  <2>2. s.test \in Types /\ p \in Projects
    BY <1>1, <1>4 DEF ProjectTests
  <2>3. rows[p][s.test] \in Seq(Document)
    BY <2>2 DEF IInv, TypeOK
  <2>4. rows[p][s.test][1] \in ToSet(rows[p][s.test])
    <3>1. PICK q : q = rows[p][s.test]
      OBVIOUS
    <3>2. q \in Seq(Document) /\ q # <<>>
      BY <3>1, <2>1, <2>3
    <3>3. 1 \in DOMAIN q
      BY <3>2
    <3> QED  BY <3>1, <3>3 DEF ToSet
  <2>5. \E i \in DOMAIN log : log[i].project = p /\ log[i].type = s.test
    BY <2>2, <2>4, RowIsLogged
  <2> QED  BY <1>4, <2>5 DEF Met, IsTest, Coapprovals
<1>5. CASE s.test = "ceo_approval"
  <2>1. PICK x \in ToSet(rows[p][Decision]) : x.says = "approved"
    BY <1>5 DEF Passes, Decision
  <2>2. p \in Projects
    BY <1>5 DEF ProjectTests
  <2>3. \E i \in DOMAIN log : /\ log[i].project = p /\ log[i].type = Decision
                              /\ log[i].says = "approved"
    BY <1>1, <2>1, <2>2, RowIsLogged
  <2> QED  BY <1>5, <2>3 DEF Met, IsTest, Coapprovals
<1>6. CASE s.test = "controlled"
  <2>1. r.type \in Conditional
    BY <1>6 DEF Passes
  <2> QED  BY <1>6, <2>1 DEF Met, IsTest, Coapprovals
<1>7. CASE s.test \notin {"scope", "completion_report", "cso_review",
                          "ceo_approval", "controlled"} \union Coapprovals
  BY <1>7 DEF Met, IsTest
<1> QED  BY <1>2, <1>3, <1>4, <1>5, <1>6, <1>7

\* By the time a step needs a project, there is one.
LEMMA InScope ==
  ASSUME IInv, NEW t \in Threads, mind[t].on, plan[t] # <<>>,
         NEW r, r = Req(t),
         NEW d, d = Len(PlanOf(r)) - Len(plan[t]),
         NeedsProject(PlanOf(r)[d + 1])
  PROVE  r.project \in Projects
<1>1. PICK m : m = mind[t]
  OBVIOUS
<1>2. /\ d \in Nat /\ d + 1 \in DOMAIN PlanOf(r) /\ Shaped(r, PlanOf(r))
      /\ \A j \in 1..d : Met(r, PlanOf(r)[j])
  BY <1>1, AtStep
<1>3. \/ r.project \in Projects
      \/ \E j \in 1..d : IsTest(PlanOf(r)[j], "scope")
                         \/ PlanOf(r)[j].op = "project"
  <2>1. Scoped(r, PlanOf(r)) /\ (d + 1) - 1 = d
    BY <1>2 DEF Shaped
  <2> QED  BY <2>1, <1>2 DEF Scoped
<1> QED  BY <1>2, <1>3 DEF Met

\* What the steps that only read leave alone.
Reads ==
  /\ inbox' = inbox /\ rows' = rows /\ files' = files /\ status' = status
  /\ bound' = bound /\ workforce' = workforce /\ blocked' = blocked
  /\ memo' = memo /\ effects' = effects /\ log' = log

\* A step that only reads keeps the type of the stores.
LEMMA ReadsOK ==
  ASSUME TypeOK, Reads
  PROVE  OthersOK'
  BY DEF TypeOK, Reads, OthersOK

\* Gate.
LEMMA GateKeeps ==
  ASSUME IInv, NEW t \in Threads, Gate(t)
  PROVE  IInv'
<1>1. PICK r, m, d : /\ r = Req(t) /\ m = mind[t]
                     /\ d = Len(PlanOf(r)) - Len(plan[t])
  OBVIOUS
<1>2. /\ mind[t].on /\ plan[t] # <<>> /\ Step(t).op = "test"
      /\ IF Passes(t, Step(t).test) THEN Continue(t) /\ UNCHANGED mind
         ELSE Refuse(t)
      /\ Reads
  BY DEF Gate, Runs, Reads, stores, others
<1>3. /\ TypeOK /\ r \in Request /\ m \in Mind /\ d \in Nat
      /\ Step(t) = plan[t][1] /\ Step(t) \in Steps
      /\ Step(t) = PlanOf(r)[d + 1]
      /\ \A j \in 1..d : Met(r, PlanOf(r)[j]) /\ Judged(r, m, PlanOf(r)[j])
  BY <1>1, <1>2, AtStep
<1>4. OthersOK'
  BY <1>2, <1>3, ReadsOK DEF Reads
<1>5. CASE Refuse(t)
  BY <1>2, <1>4, <1>5, RefuseKeeps DEF Reads
<1>6. CASE Passes(t, Step(t).test) /\ Continue(t) /\ UNCHANGED mind
  <2>1. Step(t).test \in ProjectTests => r.project \in Projects
    BY <1>1, <1>2, <1>3, InScope DEF NeedsProject
  <2>2. Met(r, PlanOf(r)[d + 1])
    BY <1>1, <1>2, <1>3, <1>6, <2>1, PassesMeets
  <2>3. \A j \in 1..(d + 1) : Judged(r, m, PlanOf(r)[j])
    BY <1>2, <1>3, OneMore
  <2>4. mind' = [mind EXCEPT ![t] = m] /\ m.on
    BY <1>1, <1>2, <1>3, <1>6 DEF TypeOK
  <2> QED  BY <1>1, <1>2, <1>3, <1>4, <1>6, <2>2, <2>3, <2>4, ContinueKeeps
           DEF Reads
<1> QED  BY <1>2, <1>5, <1>6

\* The request reads, or skips, what comes next.
LEMMA ProperNext ==
  ASSUME NEW r \in Request, NEW left \in Seq(Steps),
         left # <<>>, NEW m, Proper(r, left, m),
         Met(r, PlanOf(r)[Len(PlanOf(r)) - Len(left) + 1]),
         Judged(r, m, PlanOf(r)[Len(PlanOf(r)) - Len(left) + 1])
  PROVE  Proper(r, Tail(left), m)
<1> DEFINE f == PlanOf(r)
           d == Len(f) - Len(left)
<1>1. f \in Seq(Steps)
  BY PlansAreShaped DEF Shaped
<1> HIDE DEF f
<1>2. /\ Follows(f, left) /\ m.from <= Len(log)
      /\ r.project \in Projects => status[r.project] \in m.seen
      /\ \A j \in 1..d : Met(r, f[j]) /\ Judged(r, m, f[j])
  BY DEF Proper, f
<1>3. d \in Nat
  BY <1>1, <1>2, HeadFollows
<1>4. Follows(f, Tail(left)) /\ Len(Tail(left)) = Len(left) - 1
  BY <1>1, <1>2, TailFollows
<1>5. Len(f) - Len(Tail(left)) = d + 1
  BY <1>1, <1>4
<1>6. \A j \in 1..(d + 1) : j \in 1..d \/ j = d + 1
  BY <1>3
<1>7. \A j \in 1..(d + 1) : Met(r, f[j]) /\ Judged(r, m, f[j])
  BY <1>2, <1>6 DEF f
<1> HIDE DEF d
<1> QED  BY <1>2, <1>4, <1>5, <1>7 DEF Proper, f

\* Tables, log and statuses alone decide what is proper.
LEMMA ProperSame ==
  ASSUME rows' = rows, log' = log, status' = status, NEW r, NEW left, NEW m,
         Proper(r, left, m)
  PROVE  Proper(r, left, m)'
<1>1. Overwritten' = Overwritten
  BY DEF Overwritten
<1> QED  BY <1>1 DEF Proper, Met, Judged, Conflicts, Revisions

\* Steps without a trace.
LEMMA NothingToMeet ==
  ASSUME NEW r, NEW m, NEW s,
         s.op \notin {"test", "project", "GATE-005", "conflicts", "GATE-003"}
  PROVE  Met(r, s) /\ Judged(r, m, s)
  BY DEF Met, Judged, IsTest

\* Skip: one step more or two.
LEMMA SkipKeeps ==
  ASSUME IInv, NEW t \in Threads, Skip(t)
  PROVE  IInv'
<1>1. PICK r, m, d : /\ r = Req(t) /\ m = mind[t]
                     /\ d = Len(PlanOf(r)) - Len(plan[t])
  OBVIOUS
<1>2. /\ mind[t].on /\ plan[t] # <<>> /\ Step(t).op = "skip"
      /\ \/ plan' = [plan EXCEPT ![t] = Tail(Tail(plan[t]))]
         \/ Continue(t)
      /\ Reads /\ mind' = mind
  BY DEF Skip, Runs, Reads, stores, others, Continue
<1>3. /\ TypeOK /\ r \in Request /\ m \in Mind /\ d \in Nat
      /\ Step(t) = plan[t][1] /\ Step(t) \in Steps
      /\ Step(t) = PlanOf(r)[d + 1] /\ plan[t] \in Seq(Steps)
      /\ PlanOf(r) \in Seq(Steps) /\ Shaped(r, PlanOf(r))
      /\ Proper(r, plan[t], m) /\ d + 1 \in DOMAIN PlanOf(r)
      /\ \A j \in 1..d : Met(r, PlanOf(r)[j]) /\ Judged(r, m, PlanOf(r)[j])
  BY <1>1, <1>2, AtStep
<1>4. OthersOK'
  BY <1>2, <1>3, ReadsOK DEF Reads
<1>5. Met(r, PlanOf(r)[d + 1]) /\ Judged(r, m, PlanOf(r)[d + 1])
  BY <1>2, <1>3, NothingToMeet
<1>6. CASE Continue(t)
  <2>1. \A j \in 1..(d + 1) : Judged(r, m, PlanOf(r)[j])
    BY <1>3, <1>5, OneMore
  <2>2. mind' = [mind EXCEPT ![t] = m] /\ m.on
    BY <1>1, <1>2, <1>3 DEF TypeOK
  <2> QED  BY <1>1, <1>2, <1>3, <1>4, <1>5, <1>6, <2>1, <2>2, ContinueKeeps
           DEF Reads
<1>7. CASE plan' = [plan EXCEPT ![t] = Tail(Tail(plan[t]))]
  <2>1. PICK left, next, rest : /\ left = plan[t] /\ next = Tail(left)
                                /\ rest = Tail(next)
    OBVIOUS
  <2>2. Follows(PlanOf(r), left)
    BY <1>3, <2>1 DEF Proper
  <2>3. /\ next \in Seq(Steps) /\ Len(next) = Len(left) - 1
        /\ Follows(PlanOf(r), next) /\ Proper(r, next, m)
    BY <1>1, <1>2, <1>3, <1>5, <2>1, <2>2, TailFollows, ProperNext
  <2>4. d + 2 \in DOMAIN PlanOf(r) /\ PlanOf(r)[d + 2].op = "write"
    <3>1. /\ d + 1 + 1 \in DOMAIN PlanOf(r)
          /\ PlanOf(r)[d + 1 + 1].op = "write"
      BY <1>2, <1>3 DEF Shaped, Skipping
    <3> QED  BY <3>1, <1>3
  <2>5. next # <<>> /\ Len(PlanOf(r)) - Len(next) + 1 = d + 2
    <3>0. PICK f : f = PlanOf(r)
      OBVIOUS
    <3>a. f \in Seq(Steps) /\ d + 2 \in DOMAIN f /\ left \in Seq(Steps)
      BY <3>0, <1>3, <2>1, <2>4
    <3>b. /\ Len(f) \in Nat /\ d + 2 <= Len(f) /\ Len(left) \in Nat
      BY <3>a
    <3>1. /\ Len(PlanOf(r)) \in Nat /\ d + 2 <= Len(PlanOf(r))
          /\ Len(left) \in Nat /\ d = Len(PlanOf(r)) - Len(left)
      BY <3>0, <3>b, <1>1, <2>1
    <3>2. Len(next) >= 1 /\ Len(PlanOf(r)) - Len(next) + 1 = d + 2
      BY <3>1, <1>3, <2>3
    <3> QED  BY <3>2, <2>3
  <2>6. Met(r, PlanOf(r)[d + 2]) /\ Judged(r, m, PlanOf(r)[d + 2])
    BY <2>4, NothingToMeet
  <2>7. /\ rest \in Seq(Steps) /\ Len(rest) = Len(next) - 1
        /\ Follows(PlanOf(r), rest) /\ Proper(r, rest, m)
    BY <1>3, <2>1, <2>3, <2>5, <2>6, TailFollows, ProperNext
  <2>8. Proper(r, rest, m)'
    BY <1>2, <2>7, ProperSame DEF Reads
  <2>9. Counting(r, rest, m)'
    <3>1. rest # <<>> => Len(next) >= 2 /\ rest[1] = next[2]
      <4>1. next \in Seq(Steps) /\ next # <<>> /\ rest = Tail(next)
        BY <2>1, <2>3, <2>5
      <4> QED  BY <4>1, TailHead
    <3>2. Len(next) >= 2 =>
            /\ next[2] = PlanOf(r)[Len(PlanOf(r)) - Len(next) + 2]
            /\ Len(PlanOf(r)) - Len(next) + 2 \in DOMAIN PlanOf(r)
      BY <1>3, <2>3, SecondFollows
    <3> QED  BY <3>1, <3>2, <1>3 DEF Counting, Shaped, Skipping
  <2>10. plan'[t] = rest /\ mind'[t] = m
    BY <1>1, <1>2, <1>3, <1>7, <2>1 DEF TypeOK
  <2>11. OnPlan(t)'
    BY <1>1, <1>2, <2>8, <2>9, <2>10, OnPlanIs DEF Reads
  <2>12. Thinner(plan[t], plan'[t])
    <3>1. Thinner(left, next) /\ Thinner(next, rest)
      BY <1>2, <1>3, <2>1, <2>3, <2>5, TailThinner
    <3> QED  BY <3>1, <2>1, <2>10 DEF Thinner
  <2>13. \A u \in Threads : u # t => plan'[u] = plan[u] /\ mind'[u] = mind[u]
    BY <1>2, <1>3, <1>7 DEF TypeOK
  <2>14. TypeOK'
    <3>1. ThreadsOK
      BY <1>3, TypesSplit
    <3>2. ThreadsOK'
      BY <3>1, <1>2, <1>7, <2>1, <2>7 DEF ThreadsOK, Reads
    <3> QED  BY <3>2, <1>4, TypesSplitNext
  <2> QED  BY <1>2, <1>4, <2>11, <2>12, <2>13, <2>14, LocalKeeps DEF Reads
<1> QED  BY <1>2, <1>6, <1>7

\* The documents of a type are finitely many.
LEMMA RangeFinite ==
  ASSUME NEW S, NEW s \in Seq(S)
  PROVE  IsFiniteSet(ToSet(s))
<1>1. s \in Surjection(1..Len(s), ToSet(s))
  BY DEF Surjection, ToSet
<1>2. IsFiniteSet(1..Len(s))
  BY FS_Interval
<1> QED  BY <1>1, <1>2, FS_Surjection

\* The documents of a type are finitely many.
LEMMA OfTypeFinite ==
  ASSUME TypeOK, NEW ty \in Types
  PROVE  IsFiniteSet(OfType(ty))
<1> DEFINE F == {ToSet(rows[p][ty]) : p \in Projects}
           f == [p \in Projects |-> ToSet(rows[p][ty])]
<1>1. f \in Surjection(Projects, F)
  BY DEF Surjection
<1>2. IsFiniteSet(Projects)
  BY RecordConstants
<1>3. IsFiniteSet(F)
  BY <1>1, <1>2, FS_Surjection
<1>4. \A x \in F : IsFiniteSet(x)
  <2>1. \A p \in Projects : rows[p][ty] \in Seq(Document)
    BY DEF TypeOK
  <2> QED  BY <2>1, RangeFinite
<1> QED  BY <1>3, <1>4, FS_UNION DEF OfType

\* A count of documents is a number.
LEMMA CountIsNat ==
  ASSUME TypeOK, NEW ty \in Types, NEW topic, NEW words
  PROVE  /\ IsFiniteSet({x \in OfType(ty) : x.about = topic
                                            /\ x.says = words})
         /\ CountOf(ty, topic, words) \in Nat
<1>1. IsFiniteSet({x \in OfType(ty) : x.about = topic /\ x.says = words})
  BY OfTypeFinite, FS_Subset
<1> QED  BY <1>1, FS_CardinalityType DEF CountOf

\* While no row was replaced, the count misses nothing that was on record.
LEMMA CountsAll ==
  ASSUME IInv, ~Overwritten, NEW ty \in Counted, NEW topic, NEW words,
         NEW k \in Nat, k <= Len(log),
         NEW A, A = {j \in 1..k : /\ log[j].type = ty /\ log[j].about = topic
                                  /\ log[j].says = words}
  PROVE  IsFiniteSet(A) /\ Cardinality(A) <= CountOf(ty, topic, words)
<1> DEFINE B == {x \in OfType(ty) : x.about = topic /\ x.says = words}
           f == [j \in A |-> DocOf(log[j])]
<1>1. ty \in Types
  BY TypesAre DEF Counted, GovernanceEvents
<1>2. TypeOK /\ log \in Seq(LogEntry) /\ DOMAIN log = 1..Len(log)
        /\ Len(log) \in Nat
  BY DEF IInv, TypeOK
<1>3. \A j \in A : /\ j \in DOMAIN log /\ log[j].type = ty
                   /\ log[j].about = topic /\ log[j].says = words
                   /\ log[j] \in LogEntry
  BY <1>2
<1>4. ASSUME NEW j \in A
      PROVE  f[j] \in B
  <2>1. PICK p : p = log[j].project
    OBVIOUS
  <2>2. p \in Projects /\ j \in Places(log, p, ty)
    BY <1>3, <2>1 DEF LogEntry, Places
  <2>3. rows[p][ty] \in Seq(Document)
    BY <1>1, <1>2, <2>2 DEF TypeOK
  <2>5. ~(Len(rows[p][ty]) < Cardinality(Places(log, p, ty)))
    BY <1>1, <2>2 DEF Overwritten
  <2>6. DocOf(log[j]) \in ToSet(rows[p][ty])
    BY <1>1, <2>2, <2>5 DEF IInv, TableIsLogged
  <2>7. DocOf(log[j]).about = topic /\ DocOf(log[j]).says = words
    BY <1>3 DEF DocOf, Doc
  <2> QED  BY <2>2, <2>6, <2>7 DEF OfType
<1>5. \A i, j \in A : f[i] = f[j] => i = j
  <2>1. SUFFICES ASSUME NEW i \in A, NEW j \in A, f[i] = f[j]
                 PROVE  i = j
    OBVIOUS
  <2>2. log[i].n = log[j].n
    BY <2>1 DEF DocOf, Doc
  <2> QED  BY <2>2, <1>3 DEF IInv, Numbered
<1>6. f \in Injection(A, B)
  BY <1>4, <1>5 DEF Injection, IsInjective
<1>7. IsFiniteSet(B)
  BY <1>1, <1>2, OfTypeFinite, FS_Subset
<1> QED  BY <1>6, <1>7, FS_Injection DEF CountOf

\* A gate that looks for a review: the outcome it keeps is one on record, and
\* what came before does not depend on the outcome.
LEMMA ReviewGateKeeps ==
  ASSUME IInv, NEW t \in Threads, NEW gate \in {"GATE-005", "GATE-006"},
         NEW found \in SUBSET Words, ReviewGate(t, gate, found),
         found # {} /\ gate = "GATE-005" =>
           \E i \in DOMAIN log : /\ log[i].type = "cso_review"
                                 /\ log[i].about = Req(t).about
  PROVE  IInv'
<1>1. PICK r, m, d : /\ r = Req(t) /\ m = mind[t]
                     /\ d = Len(PlanOf(r)) - Len(plan[t])
  OBVIOUS
<1>2. /\ mind[t].on /\ plan[t] # <<>> /\ Step(t).op = gate /\ Reads
      /\ \/ found = {} /\ Refuse(t)
         \/ /\ \E outcome \in found : mind' = [mind EXCEPT ![t].outcome =
                 IF @ = "none" \/ gate = "GATE-006" THEN outcome ELSE @]
            /\ Continue(t)
  BY DEF ReviewGate, Runs, Reads, stores, others
<1>3. /\ TypeOK /\ r \in Request /\ m \in Mind /\ d \in Nat
      /\ Step(t) = plan[t][1] /\ Step(t) \in Steps
      /\ Step(t) = PlanOf(r)[d + 1] /\ d + 1 \in DOMAIN PlanOf(r)
      /\ Shaped(r, PlanOf(r)) /\ PlanOf(r) \in Seq(Steps)
      /\ \A j \in 1..d : Met(r, PlanOf(r)[j]) /\ Judged(r, m, PlanOf(r)[j])
  <2>1. Step(t).op \notin {"file", "row"} /\ mind[t].on /\ plan[t] # <<>>
    BY <1>2
  <2> HIDE <1>2
  <2>2. Step(t).op \notin {"file", "row"} => Step(t) = PlanOf(r)[d + 1]
    BY <2>1, <1>1, AtStep
  <2> QED  BY <2>1, <2>2, <1>1, AtStep
<1>4. OthersOK'
  BY <1>2, <1>3, ReadsOK DEF Reads
<1>5. CASE Refuse(t)
  BY <1>2, <1>4, <1>5, RefuseKeeps DEF Reads
<1>6. CASE Continue(t) /\ \E outcome \in found : mind' = [mind EXCEPT
             ![t].outcome = IF @ = "none" \/ gate = "GATE-006" THEN outcome
                            ELSE @]
  <2>1. PICK outcome \in found : mind' = [mind EXCEPT
             ![t].outcome = IF @ = "none" \/ gate = "GATE-006" THEN outcome
                            ELSE @]
    BY <1>6
  <2>2. PICK o : o = IF m.outcome = "none" \/ gate = "GATE-006" THEN outcome
                     ELSE m.outcome
    OBVIOUS
  <2>3. o \in Words
    BY <1>3, <2>1, <2>2 DEF Mind
  <2>4. PICK mm : mm = [m EXCEPT !.outcome = o]
    OBVIOUS
  <2>5. /\ mm \in Mind /\ mm.on /\ mm.from = m.from /\ mm.seen = m.seen
        /\ mm.cycles = m.cycles
    BY <1>1, <1>2, <1>3, <2>3, <2>4 DEF Mind
  <2>6. mind' = [mind EXCEPT ![t] = mm]
    BY <1>1, <2>1, <2>2, <2>4
  <2>7. \A j \in 1..d : PlanOf(r)[j].op # "GATE-003"
    <3>1. d + 1 - 1 = d
      BY <1>3
    <3> QED  BY <3>1, <1>2, <1>3 DEF Shaped, Deciding
  <2>8. \A j \in 1..d : Judged(r, mm, PlanOf(r)[j])
    BY <1>3, <2>5, <2>7, JudgedSame
  <2>9. \A j \in 1..(d + 1) : Judged(r, mm, PlanOf(r)[j])
    BY <1>2, <1>3, <2>8, OneMore
  <2>10. Met(r, PlanOf(r)[d + 1])
    BY <1>1, <1>2, <1>3, <2>1 DEF Met, IsTest
  <2> QED  BY <1>1, <1>2, <1>4, <1>6, <2>5, <2>6, <2>9, <2>10, ContinueKeeps
           DEF Reads
<1> QED  BY <1>2, <1>5, <1>6

\* The newest review is one of the rows.
LEMMA NewestIsRow ==
  ASSUME NEW ds \in Seq(Document), NEW topic, NEW words,
         words \in NewestReview(ds, topic)
  PROVE  words \in Words /\ \E x \in ToSet(ds) : x.about = topic
<1>1. PICK j \in DOMAIN ds : ds[j].about = topic /\ ds[j].says = words
  BY DEF NewestReview
<1>2. ds[j] \in Document
  BY <1>1
<1> QED  BY <1>1, <1>2 DEF ToSet, Document

\* VerifyCsoReviewRecord: the review found is in the log.
LEMMA VerifyKeeps ==
  ASSUME IInv, NEW t \in Threads, VerifyCsoReviewRecord(t)
  PROVE  IInv'
<1> DEFINE Found(p) == NewestReview(rows[p]["cso_review"], Req(t).about)
<1>1. PICK found : found = UNION {Found(p) : p \in Projects}
  OBVIOUS
<1>2. "cso_review" \in Types
  BY TypesAre DEF GovernanceEvents
<1>3. \A p \in Projects : rows[p]["cso_review"] \in Seq(Document)
  BY <1>2 DEF IInv, TypeOK
<1>4. found \in SUBSET Words
  BY <1>1, <1>3, NewestIsRow
<1>5. ReviewGate(t, "GATE-005", found)
  BY <1>1 DEF VerifyCsoReviewRecord
<1>6. found # {} => \E i \in DOMAIN log : /\ log[i].type = "cso_review"
                                          /\ log[i].about = Req(t).about
  <2> SUFFICES ASSUME found # {}
               PROVE  \E i \in DOMAIN log : /\ log[i].type = "cso_review"
                                            /\ log[i].about = Req(t).about
    OBVIOUS
  <2>1. PICK p \in Projects : Found(p) # {}
    BY <1>1
  <2>3. PICK words : words \in Found(p)
    BY <2>1
  <2>2. PICK x \in ToSet(rows[p]["cso_review"]) : x.about = Req(t).about
    BY <1>3, <2>3, NewestIsRow
  <2> QED  BY <1>2, <2>2, RowIsLogged
<1> QED  BY <1>4, <1>5, <1>6, ReviewGateKeeps

\* ReadCsoReviewOutcome.
LEMMA ReadReviewKeeps ==
  ASSUME IInv, NEW t \in Threads, ReadCsoReviewOutcome(t)
  PROVE  IInv'
<1>1. PICK r, d, found :
        /\ r = Req(t) /\ d = Len(PlanOf(r)) - Len(plan[t])
        /\ found = NewestReview(rows[r.project]["cso_review"], r.about)
  OBVIOUS
<1>2. ReviewGate(t, "GATE-006", found)
  BY <1>1 DEF ReadCsoReviewOutcome
<1>3. mind[t].on /\ plan[t] # <<>> /\ Step(t).op = "GATE-006"
  BY <1>2 DEF ReviewGate, Runs
<1>4. PlanOf(r)[d + 1].op = "GATE-006"
  <2>1. PICK m : m = mind[t]
    OBVIOUS
  <2> QED  BY <2>1, <1>1, <1>3, AtStep
<1>5. r.project \in Projects
  BY <1>1, <1>3, <1>4, InScope DEF NeedsProject
<1>6. "cso_review" \in Types
  BY TypesAre DEF GovernanceEvents
<1>7. rows[r.project]["cso_review"] \in Seq(Document)
  BY <1>5, <1>6 DEF IInv, TypeOK
<1>8. found \in SUBSET Words
  BY <1>1, <1>7, NewestIsRow
<1> QED  BY <1>2, <1>8, ReviewGateKeeps

\* The count of the conflicts...
LEMMA CountKeeps ==
  ASSUME IInv, NEW t \in Threads, CountConflicts(t)
  PROVE  IInv'
<1>1. PICK r, m, d : /\ r = Req(t) /\ m = mind[t]
                     /\ d = Len(PlanOf(r)) - Len(plan[t])
  OBVIOUS
<1>0. PICK c : c = CountOf("cso_review", r.about, Conflict)
  OBVIOUS
<1>2. /\ mind[t].on /\ plan[t] # <<>> /\ Step(t).op = "conflicts" /\ Reads
      /\ mind' = [mind EXCEPT ![t].cycles = c] /\ Continue(t)
  BY <1>0, <1>1 DEF CountConflicts, Runs, Reads, stores, others
<1>3. /\ TypeOK /\ r \in Request /\ m \in Mind /\ d \in Nat
      /\ Step(t) = plan[t][1] /\ Step(t) \in Steps
      /\ Step(t) = PlanOf(r)[d + 1] /\ d + 1 \in DOMAIN PlanOf(r)
      /\ Shaped(r, PlanOf(r)) /\ PlanOf(r) \in Seq(Steps)
      /\ Proper(r, plan[t], m)
      /\ \A j \in 1..d : Met(r, PlanOf(r)[j]) /\ Judged(r, m, PlanOf(r)[j])
  BY <1>1, <1>2, AtStep
<1>4. OthersOK'
  BY <1>2, <1>3, ReadsOK DEF Reads
<1>5. c \in Nat
  <2>1. "cso_review" \in Types
    BY TypesAre DEF GovernanceEvents
  <2> QED  BY <1>0, <1>3, <2>1, CountIsNat
<1>6. PICK mm : mm = [m EXCEPT !.cycles = c]
  OBVIOUS
<1>7. /\ mm \in Mind /\ mm.on /\ mm.from = m.from /\ mm.seen = m.seen
      /\ mm.outcome = m.outcome /\ mm.cycles = c
  BY <1>1, <1>2, <1>3, <1>5, <1>6 DEF Mind
<1>8. mind' = [mind EXCEPT ![t] = mm]
  BY <1>1, <1>2, <1>6
<1>9. \A j \in 1..d : PlanOf(r)[j].op # "conflicts"
  <2>1. d + 1 - 1 = d
    BY <1>3
  <2> QED  BY <2>1, <1>2, <1>3 DEF Shaped, Deciding
<1>10. \A j \in 1..d : Judged(r, mm, PlanOf(r)[j])
  BY <1>3, <1>7, <1>9, JudgedSame
<1>11. Overwritten \/ Cardinality(Conflicts(r.about, m.from)) <= c
  <2>1. PICK A : A = Conflicts(r.about, m.from)
    OBVIOUS
  <2>2. m.from \in Nat /\ m.from <= Len(log)
    BY <1>3 DEF Mind, Proper
  <2>3. "cso_review" \in Counted
    BY DEF Counted
  <2> QED  BY <1>0, <2>1, <2>2, <2>3, CountsAll DEF Conflicts
<1>12. Judged(r, mm, PlanOf(r)[d + 1])
  BY <1>2, <1>3, <1>7, <1>11 DEF Judged
<1>13. \A j \in 1..(d + 1) : Judged(r, mm, PlanOf(r)[j])
  BY <1>3, <1>10, <1>12, OneMore
<1>14. Met(r, PlanOf(r)[d + 1])
  BY <1>2, <1>3 DEF Met, IsTest
<1> QED  BY <1>1, <1>2, <1>4, <1>7, <1>8, <1>13, <1>14, ContinueKeeps
         DEF Reads

\* ... and the gate behind it.
LEMMA CycleGateKeeps ==
  ASSUME IInv, NEW t \in Threads, CycleGate(t)
  PROVE  IInv'
<1>1. PICK r, m, d : /\ r = Req(t) /\ m = mind[t]
                     /\ d = Len(PlanOf(r)) - Len(plan[t])
  OBVIOUS
<1>0. PICK c : c = CountOf(Decision, r.about, "needs_revision")
  OBVIOUS
<1>2. /\ mind[t].on /\ plan[t] # <<>> /\ Step(t).op = "GATE-003" /\ Reads
      /\ \/ Refuse(t)
         \/ /\ Continue(t) /\ mind' = mind
            /\ ~(m.outcome = Conflict /\ m.cycles + c >= 3 /\ ~r.override)
  BY <1>0, <1>1 DEF CycleGate, Runs, Reads, stores, others, Decision
<1>3. /\ TypeOK /\ r \in Request /\ m \in Mind /\ d \in Nat
      /\ Step(t) = plan[t][1] /\ Step(t) \in Steps
      /\ Step(t) = PlanOf(r)[d + 1] /\ d + 1 \in DOMAIN PlanOf(r)
      /\ Shaped(r, PlanOf(r)) /\ PlanOf(r) \in Seq(Steps)
      /\ Proper(r, plan[t], m)
      /\ \A j \in 1..d : Met(r, PlanOf(r)[j]) /\ Judged(r, m, PlanOf(r)[j])
  BY <1>1, <1>2, AtStep
<1>4. OthersOK'
  BY <1>2, <1>3, ReadsOK DEF Reads
<1>5. CASE Refuse(t)
  BY <1>2, <1>4, <1>5, RefuseKeeps DEF Reads
<1>6. ASSUME Continue(t), mind' = mind,
             ~(m.outcome = Conflict /\ m.cycles + c >= 3 /\ ~r.override)
      PROVE  IInv'
  <2>1. PICK A, B : /\ A = Conflicts(r.about, m.from)
                    /\ B = Revisions(r.about, m.from)
    OBVIOUS
  <2>2. m.from \in Nat /\ m.from <= Len(log) /\ m.cycles \in Nat
    BY <1>3 DEF Mind, Proper
  <2>3. Decision \in Types /\ Decision \in Counted
    BY TypesAre DEF Counted, Decision, GovernanceEvents
  <2>4. c \in Nat
    BY <1>0, <1>3, <2>3, CountIsNat
  <2>5. PICK j \in 1..d : PlanOf(r)[j].op = "conflicts"
    <3>1. d + 1 - 1 = d
      BY <1>3
    <3> QED  BY <3>1, <1>2, <1>3 DEF Shaped, Deciding
  <2>6. Overwritten \/ Cardinality(A) <= m.cycles
    BY <1>3, <2>1, <2>5 DEF Judged
  <2>7. Overwritten \/ (IsFiniteSet(B) /\ Cardinality(B) <= c)
    BY <1>0, <2>1, <2>2, <2>3, CountsAll DEF Revisions
  <2>8. IsFiniteSet(A)
    <3>1. A \subseteq 1..m.from
      BY <2>1 DEF Conflicts
    <3>2. IsFiniteSet(1..m.from)
      <4>1. PICK k \in Int : k = m.from
        BY <2>2
      <4> QED  BY <4>1, FS_Interval
    <3> QED  BY <3>1, <3>2, FS_Subset
  <2>9. Overwritten \/ m.outcome # Conflict \/ r.override
          \/ Cardinality(A \union B) < 3
    <3>1. IsFiniteSet(B) => /\ Cardinality(A \union B) =
                                 Cardinality(A) + Cardinality(B)
                                   - Cardinality(A \intersect B)
                            /\ Cardinality(A \intersect B) \in Nat
                            /\ Cardinality(A) \in Nat
                            /\ Cardinality(B) \in Nat
      BY <2>8, FS_Union, FS_Intersection, FS_CardinalityType
    <3> QED  BY <3>1, <2>2, <2>4, <2>6, <2>7, <1>6
  <2>10. Judged(r, m, PlanOf(r)[d + 1])
    BY <1>2, <1>3, <2>1, <2>9 DEF Judged
  <2>11. \A k \in 1..(d + 1) : Judged(r, m, PlanOf(r)[k])
    BY <1>3, <2>10, OneMore
  <2>12. Met(r, PlanOf(r)[d + 1])
    BY <1>2, <1>3 DEF Met, IsTest
  <2>13. mind' = [mind EXCEPT ![t] = m] /\ m.on
    BY <1>1, <1>2, <1>3, <1>6 DEF TypeOK
  <2> QED  BY <1>1, <1>2, <1>3, <1>4, <1>6, <2>11, <2>12, <2>13,
              ContinueKeeps DEF Reads
<1> QED  BY <1>2, <1>5, <1>6

\* A request that passes with what its gates decided by unchanged.
LEMMA PassKeeps ==
  ASSUME IInv, OthersOK', NEW t \in Threads, mind[t].on, plan[t] # <<>>,
         Continue(t), inbox' = inbox, rows' = rows, log' = log,
         status' = status,
         NEW r, r = Req(t), NEW m, m = mind[t], NEW mm \in Mind,
         mind' = [mind EXCEPT ![t] = mm], mm.on, mm.from = m.from,
         mm.seen = m.seen, mm.cycles = m.cycles, mm.outcome = m.outcome,
         NEW d, d = Len(PlanOf(r)) - Len(plan[t]),
         PlanOf(r)[d + 1].op \notin {"conflicts", "GATE-003"},
         Met(r, PlanOf(r)[d + 1])
  PROVE  IInv'
<1>1. d \in Nat /\ \A j \in 1..d : Judged(r, m, PlanOf(r)[j])
  BY AtStep
<1>2. \A j \in 1..d : Judged(r, mm, PlanOf(r)[j])
  BY <1>1, JudgedSame
<1>3. \A j \in 1..(d + 1) : Judged(r, mm, PlanOf(r)[j])
  BY <1>1, <1>2, OneMore
<1> QED  BY <1>3, ContinueKeeps

\* The project manager's state of the project.
LEMMA ResolveStateKeeps ==
  ASSUME IInv, NEW t \in Threads, ResolveState(t)
  PROVE  IInv'
<1>1. PICK r, m, d, st : /\ r = Req(t) /\ m = mind[t]
                         /\ d = Len(PlanOf(r)) - Len(plan[t])
                         /\ st = IF r.state # "none" THEN r.state
                                 ELSE status[r.project]
  OBVIOUS
<1>2. /\ mind[t].on /\ plan[t] # <<>> /\ Step(t).op = "state" /\ Reads
      /\ mind' = [mind EXCEPT ![t].state = st] /\ Continue(t)
  BY <1>1 DEF ResolveState, Runs, Reads, stores, others
<1>3. /\ TypeOK /\ r \in Request /\ m \in Mind /\ d \in Nat
      /\ Step(t) = plan[t][1] /\ Step(t) = PlanOf(r)[d + 1]
  <2>1. mind[t].on /\ plan[t] # <<>> /\ Step(t).op \notin {"file", "row"}
    BY <1>2
  <2> HIDE <1>2
  <2> QED  BY <2>1, <1>1, AtStep
<1>4. OthersOK'
  BY <1>2, <1>3, ReadsOK DEF Reads
<1>5. r.project \in Projects
  BY <1>1, <1>2, <1>3, InScope DEF NeedsProject
<1>6. st \in OptionalState
  <2>1. r.state \in OptionalState
    BY <1>3 DEF Request, RequestFields
  <2>2. status[r.project] \in OptionalState
    BY <1>3, <1>5 DEF TypeOK, OptionalState
  <2> QED  BY <1>1, <2>1, <2>2
<1>7. PICK mm : mm = [m EXCEPT !.state = st]
  OBVIOUS
<1>8. /\ mm \in Mind /\ mm.on /\ mm.from = m.from /\ mm.seen = m.seen
      /\ mm.outcome = m.outcome /\ mm.cycles = m.cycles
  BY <1>1, <1>2, <1>3, <1>6, <1>7 DEF Mind
<1>9. mind' = [mind EXCEPT ![t] = mm]
  BY <1>1, <1>2, <1>7
<1>10. Met(r, PlanOf(r)[d + 1])
  BY <1>2, <1>3, NothingToMeet
<1> QED  BY <1>1, <1>2, <1>3, <1>4, <1>8, <1>9, <1>10, PassKeeps DEF Reads

\* The tool's project.
LEMMA ResolveProjectKeeps ==
  ASSUME IInv, NEW t \in Threads, ResolveProject(t)
  PROVE  IInv'
<1>1. PICK r, m, d, st : /\ r = Req(t) /\ m = mind[t]
                         /\ d = Len(PlanOf(r)) - Len(plan[t])
                         /\ st = status[r.project]
  OBVIOUS
<1>2. /\ mind[t].on /\ plan[t] # <<>> /\ Step(t).op = "project" /\ Reads
      /\ \/ /\ mind' = [mind EXCEPT ![t].state = st] /\ Continue(t)
            /\ r.project \in Projects
         \/ Refuse(t)
  BY <1>1 DEF ResolveProject, Runs, Reads, stores, others
<1>3. /\ TypeOK /\ r \in Request /\ m \in Mind /\ d \in Nat
      /\ Step(t) = plan[t][1] /\ Step(t) = PlanOf(r)[d + 1]
  <2>1. mind[t].on /\ plan[t] # <<>> /\ Step(t).op \notin {"file", "row"}
    BY <1>2
  <2> HIDE <1>2
  <2> QED  BY <2>1, <1>1, AtStep
<1>4. OthersOK'
  BY <1>2, <1>3, ReadsOK DEF Reads
<1>5. CASE Refuse(t)
  BY <1>2, <1>4, <1>5, RefuseKeeps DEF Reads
<1>6. ASSUME mind' = [mind EXCEPT ![t].state = st], Continue(t),
             r.project \in Projects
      PROVE  IInv'
  <2>1. st \in OptionalState
    BY <1>1, <1>3, <1>6 DEF TypeOK, OptionalState
  <2>2. PICK mm : mm = [m EXCEPT !.state = st]
    OBVIOUS
  <2>3. /\ mm \in Mind /\ mm.on /\ mm.from = m.from /\ mm.seen = m.seen
        /\ mm.outcome = m.outcome /\ mm.cycles = m.cycles
    BY <1>1, <1>2, <1>3, <2>1, <2>2 DEF Mind
  <2>4. mind' = [mind EXCEPT ![t] = mm]
    BY <1>1, <1>6, <2>2
  <2>5. Met(r, PlanOf(r)[d + 1])
    BY <1>2, <1>3, <1>6 DEF Met, IsTest
  <2> QED  BY <1>1, <1>2, <1>3, <1>4, <1>6, <2>3, <2>4, <2>5, PassKeeps
           DEF Reads
<1> QED  BY <1>2, <1>5, <1>6

\* The budget.
LEMMA ReserveKeeps ==
  ASSUME IInv, NEW t \in Threads, ReserveBudget(t)
  PROVE  IInv'
<1>1. PICK r, m, d : /\ r = Req(t) /\ m = mind[t]
                     /\ d = Len(PlanOf(r)) - Len(plan[t])
  OBVIOUS
<1>2. /\ mind[t].on /\ plan[t] # <<>> /\ Step(t).op = "reserve" /\ Reads
      /\ (mind' = mind /\ Continue(t)) \/ Refuse(t)
  BY <1>1 DEF ReserveBudget, Runs, Reads, stores, others
<1>3. /\ TypeOK /\ r \in Request /\ m \in Mind /\ d \in Nat
      /\ Step(t) = plan[t][1] /\ Step(t) = PlanOf(r)[d + 1]
  <2>1. mind[t].on /\ plan[t] # <<>> /\ Step(t).op \notin {"file", "row"}
    BY <1>2
  <2> HIDE <1>2
  <2> QED  BY <2>1, <1>1, AtStep
<1>4. OthersOK'
  BY <1>2, <1>3, ReadsOK DEF Reads
<1>5. CASE Refuse(t)
  BY <1>2, <1>4, <1>5, RefuseKeeps DEF Reads
<1>6. CASE mind' = mind /\ Continue(t)
  <2>1. mind' = [mind EXCEPT ![t] = m] /\ m.on
    BY <1>1, <1>2, <1>3, <1>6 DEF TypeOK
  <2>2. Met(r, PlanOf(r)[d + 1])
    BY <1>2, <1>3, NothingToMeet
  <2> QED  BY <1>1, <1>2, <1>3, <1>4, <1>6, <2>1, <2>2, PassKeeps DEF Reads
<1> QED  BY <1>2, <1>5, <1>6

\* What is noted of a key.
LEMMA EffectsTyped ==
  ASSUME TypeOK, NEW k, NEW b \in BOOLEAN
  PROVE  /\ [effects EXCEPT ![k].upset = b]
              \in [Keys -> [rows : Nat, upset : BOOLEAN]]
         /\ [effects EXCEPT ![k].rows = @ + 1]
              \in [Keys -> [rows : Nat, upset : BOOLEAN]]
<1>1. PICK f, T : f = effects /\ T = [rows : Nat, upset : BOOLEAN]
  OBVIOUS
<1>2. f \in [Keys -> T]
  BY <1>1 DEF TypeOK
<1>3. PICK e, n : /\ e = [f[k] EXCEPT !.upset = b]
                  /\ n = [f[k] EXCEPT !.rows = @ + 1]
  OBVIOUS
<1>4. k \in Keys => e \in T /\ n \in T
  BY <1>1, <1>2, <1>3
<1>5. [f EXCEPT ![k] = e] \in [Keys -> T] /\ [f EXCEPT ![k] = n] \in [Keys -> T]
  BY <1>2, <1>4
<1> QED  BY <1>1, <1>3, <1>5

\* The remembered results: a call that is known is over.
LEMMA ReplayKeeps ==
  ASSUME IInv, NEW t \in Threads, Replay(t)
  PROVE  IInv'
<1>1. PICK r, m, d : /\ r = Req(t) /\ m = mind[t]
                     /\ d = Len(PlanOf(r)) - Len(plan[t])
  OBVIOUS
<1>2. PICK ok \in BOOLEAN, b \in BOOLEAN :
        /\ ok = (memo[r.key] = "ok")
        /\ b = (effects[r.key].upset \/ Overlaps(t, r.key))
  OBVIOUS
<1>3. /\ mind[t].on /\ plan[t] # <<>> /\ Step(t).op = "replay"
      /\ inbox' = inbox /\ rows' = rows /\ files' = files
      /\ status' = status /\ bound' = bound /\ workforce' = workforce
      /\ blocked' = blocked /\ memo' = memo /\ log' = log
      /\ \/ /\ plan' = [plan EXCEPT ![t] = <<>>]
            /\ mind' = [mind EXCEPT ![t].ok = ok] /\ effects' = effects
         \/ /\ mind' = [mind EXCEPT ![t].keyed = TRUE] /\ Continue(t)
            /\ effects' = [effects EXCEPT ![r.key].upset = b]
  BY <1>1, <1>2 DEF Replay, Runs, stores, others
<1>4. /\ TypeOK /\ r \in Request /\ m \in Mind /\ d \in Nat
      /\ Step(t) = plan[t][1] /\ Step(t) = PlanOf(r)[d + 1]
  <2>1. mind[t].on /\ plan[t] # <<>> /\ Step(t).op \notin {"file", "row"}
    BY <1>3
  <2> HIDE <1>2, <1>3
  <2> QED  BY <2>1, <1>1, AtStep
<1>5. OthersOK'
  <2>1. effects' \in [Keys -> [rows : Nat, upset : BOOLEAN]]
    <3>1. effects \in [Keys -> [rows : Nat, upset : BOOLEAN]]
      BY <1>4 DEF TypeOK
    <3>2. [effects EXCEPT ![r.key].upset = b]
            \in [Keys -> [rows : Nat, upset : BOOLEAN]]
      BY <1>4, EffectsTyped
    <3> QED  BY <3>1, <3>2, <1>3
  <2> QED  BY <2>1, <1>3, <1>4 DEF TypeOK, OthersOK
<1>6. ASSUME plan' = [plan EXCEPT ![t] = <<>>],
             mind' = [mind EXCEPT ![t].ok = ok]
      PROVE  IInv'
  <2>1. PICK mm : mm = [m EXCEPT !.ok = ok]
    OBVIOUS
  <2>2. mm \in Mind /\ mm.on /\ mm.from = m.from /\ mm.seen = m.seen
    BY <1>1, <1>3, <1>4, <2>1 DEF Mind
  <2>3. mind' = [mind EXCEPT ![t] = mm]
    BY <1>1, <1>6, <2>1
  <2> QED  BY <1>1, <1>3, <1>5, <1>6, <2>2, <2>3, DropKeeps
<1>7. ASSUME mind' = [mind EXCEPT ![t].keyed = TRUE], Continue(t)
      PROVE  IInv'
  <2>1. PICK mm : mm = [m EXCEPT !.keyed = TRUE]
    OBVIOUS
  <2>2. /\ mm \in Mind /\ mm.on /\ mm.from = m.from /\ mm.seen = m.seen
        /\ mm.outcome = m.outcome /\ mm.cycles = m.cycles
    BY <1>1, <1>3, <1>4, <2>1 DEF Mind
  <2>3. mind' = [mind EXCEPT ![t] = mm]
    BY <1>1, <1>7, <2>1
  <2>4. Met(r, PlanOf(r)[d + 1])
    BY <1>3, <1>4, NothingToMeet
  <2> QED  BY <1>1, <1>3, <1>4, <1>5, <1>7, <2>2, <2>3, <2>4, PassKeeps
<1> QED  BY <1>3, <1>6, <1>7

\* A call that raises and is forgotten.
LEMMA ForgetKeeps ==
  ASSUME IInv, OthersOK', NEW t \in Threads, mind[t].on, Forget(t),
         inbox' = inbox, rows' = rows, log' = log, status' = status
  PROVE  IInv'
<1>1. mind[t] \in Mind
  BY DEF IInv, TypeOK
<1>2. PICK m, mm : m = mind[t] /\ mm = [m EXCEPT !.keyed = FALSE, !.ok = FALSE]
  OBVIOUS
<1>3. mm \in Mind /\ mm.on = m.on /\ mm.from = m.from /\ mm.seen = m.seen
  BY <1>1, <1>2 DEF Mind
<1>4. /\ plan' = [plan EXCEPT ![t] = <<>>]
      /\ mind' = [mind EXCEPT ![t] = mm]
  BY <1>2 DEF Forget
<1> QED  BY <1>2, <1>3, <1>4, DropKeeps

\* A fault is one less that may still happen.
LEMMA FaultTyped ==
  ASSUME TypeOK, Fault
  PROVE  bound' \in [changes : Nat, faults : Nat]
  BY DEF TypeOK, Fault

\* The budget runtime or the audit writer raises.
LEMMA RaisesKeep ==
  ASSUME IInv, NEW t \in Threads, BudgetRaises(t) \/ AuditRaises(t)
  PROVE  IInv'
<1>1. TypeOK
  BY DEF IInv
<1>2. PICK b \in BOOLEAN : b = (effects[Req(t).key].upset \/ mind[t].ok)
  OBVIOUS
<1>3. /\ mind[t].on /\ Forget(t) /\ inbox' = inbox /\ rows' = rows
      /\ files' = files /\ status' = status /\ workforce' = workforce
      /\ blocked' = blocked /\ memo' = memo /\ log' = log
      /\ \/ effects' = effects
         \/ effects' = [effects EXCEPT ![Req(t).key].upset = b]
  BY <1>2 DEF BudgetRaises, AuditRaises, Runs, stores
<1>4. bound' \in [changes : Nat, faults : Nat]
  BY <1>1, <1>3, FaultTyped DEF Forget
<1>5. effects' \in [Keys -> [rows : Nat, upset : BOOLEAN]]
  <2>1. effects \in [Keys -> [rows : Nat, upset : BOOLEAN]]
    BY <1>1 DEF TypeOK
  <2>2. [effects EXCEPT ![Req(t).key].upset = b]
          \in [Keys -> [rows : Nat, upset : BOOLEAN]]
    BY <1>1, EffectsTyped
  <2> QED  BY <2>1, <2>2, <1>3
<1>6. OthersOK'
  BY <1>1, <1>3, <1>4, <1>5 DEF TypeOK, OthersOK
<1> QED  BY <1>3, <1>6, ForgetKeeps

-----------------------------------------------------------------------------
(* The steps that write.                                                   *)

\* A write, begun or not, is a write of the plan.
LEMMA WriteOfPlan ==
  ASSUME IInv, NEW t \in Threads, mind[t].on, plan[t] # <<>>,
         Step(t).op \in Writing, NEW r, r = Req(t),
         NEW d, d = Len(PlanOf(r)) - Len(plan[t])
  PROVE  /\ PlanOf(r)[d + 1].op = "write"
         /\ PlanOf(r)[d + 1].type = Step(t).type
         /\ PlanOf(r)[d + 1].about = Step(t).about
         /\ PlanOf(r)[d + 1].says = Step(t).says
         /\ Step(t) \in WriteSteps
         /\ r.project \in Projects
<1>1. PICK m : m = mind[t]
  OBVIOUS
<1>2. /\ Step(t) \in Steps /\ Shaped(r, PlanOf(r))
      /\ d + 1 \in DOMAIN PlanOf(r)
      /\ Step(t) = PlanOf(r)[d + 1] \/ Begun(Step(t), PlanOf(r)[d + 1])
  BY <1>1, AtStep
<1>3. /\ PlanOf(r)[d + 1].op = "write"
      /\ PlanOf(r)[d + 1].type = Step(t).type
      /\ PlanOf(r)[d + 1].about = Step(t).about
      /\ PlanOf(r)[d + 1].says = Step(t).says
  BY <1>2 DEF Begun, Shaped, Skipping, Writing
<1>4. r.project \in Projects
  BY <1>3, InScope DEF NeedsProject
<1> QED  BY <1>2, <1>3, <1>4, WritesAre

\* The same, of the thread's own request and place.
LEMMA WriteAtPlace ==
  ASSUME IInv, NEW t \in Threads, mind[t].on, plan[t] # <<>>,
         Step(t).op \in Writing
  PROVE  /\ PlanOf(Req(t))[Done(t) + 1].op = "write"
         /\ PlanOf(Req(t))[Done(t) + 1].type = Step(t).type
         /\ PlanOf(Req(t))[Done(t) + 1].about = Step(t).about
         /\ PlanOf(Req(t))[Done(t) + 1].says = Step(t).says
<1>1. PICK r, d : r = Req(t) /\ d = Done(t)
  OBVIOUS
<1>2. /\ Shaped(r, PlanOf(r)) /\ d + 1 \in DOMAIN PlanOf(r)
      /\ Step(t) = PlanOf(r)[d + 1] \/ Begun(Step(t), PlanOf(r)[d + 1])
  BY <1>1, AtPlace
<1>3. /\ PlanOf(r)[d + 1].op = "write"
      /\ PlanOf(r)[d + 1].type = Step(t).type
      /\ PlanOf(r)[d + 1].about = Step(t).about
      /\ PlanOf(r)[d + 1].says = Step(t).says
  BY <1>2 DEF Begun, Shaped, Skipping, Writing
<1> QED  BY <1>1, <1>3

\* A write that raises.
LEMMA RaiseKeeps ==
  ASSUME IInv, OthersOK', NEW t \in Threads, mind[t].on, plan[t] # <<>>,
         Step(t).op \in Writing, Raise(t),
         inbox' = inbox, rows' = rows, log' = log, status' = status
  PROVE  IInv'
<1>1. PICK r, m, d : /\ r = Req(t) /\ m = mind[t]
                     /\ d = Len(PlanOf(r)) - Len(plan[t])
  OBVIOUS
<1>2. CASE Refuse(t)
  BY <1>2, RefuseKeeps
<1>3. CASE Continue(t) /\ mind' = mind
  <2>1. TypeOK /\ m \in Mind
    BY <1>1, AtStep
  <2>2. PlanOf(r)[d + 1].op = "write"
    BY <1>1, WriteOfPlan
  <2>3. mind' = [mind EXCEPT ![t] = m] /\ m.on
    BY <1>1, <1>3, <2>1 DEF TypeOK
  <2>4. Met(r, PlanOf(r)[d + 1])
    BY <2>2, NothingToMeet
  <2> QED  BY <1>1, <1>3, <2>1, <2>2, <2>3, <2>4, PassKeeps
<1> QED  BY <1>2, <1>3 DEF Raise

\* A write that goes on, with a revision that was counted.
LEMMA WriteGoesOn ==
  ASSUME IInv, OthersOK', NEW t \in Threads, mind[t].on, plan[t] # <<>>,
         Step(t).op \in {"write", "file"}, NEW what \in {"file", "row"},
         Goto(t, what),
         inbox' = inbox, rows' = rows, log' = log, status' = status,
         NEW r, r = Req(t), NEW m, m = mind[t], NEW mm \in Mind,
         mind' = [mind EXCEPT ![t] = mm], mm.on, mm.from = m.from,
         mm.seen = m.seen, mm.cycles = m.cycles, mm.outcome = m.outcome,
         NEW w, w = Step(t), w.type \in Types, r.project \in Projects,
         1 <= mm.rev, mm.rev <= Len(rows[r.project][w.type]) + 1,
         w.type \in AppendOnly => mm.rev <= allowed_type_caps[w.type],
         w.status = "resolved" => mm.state \in ProjectWritable
  PROVE  IInv'
<1>1. PICK left, rest, d : /\ left = plan[t] /\ rest = plan'[t]
                           /\ d = Len(PlanOf(r)) - Len(plan[t])
  OBVIOUS
<1>2. /\ TypeOK /\ r \in Request /\ m \in Mind /\ left \in Seq(Steps)
      /\ PlanOf(r) \in Seq(Steps) /\ Shaped(r, PlanOf(r))
      /\ Proper(r, left, m) /\ w = left[1]
  BY <1>1, AtStep
<1>3. Follows(PlanOf(r), left) /\ Skipping(PlanOf(r))
  BY <1>2 DEF Proper, Shaped
<1>4. /\ plan' \in [Threads -> Seq(Steps)]
      /\ \A u \in Threads : u # t => plan'[u] = plan[u]
      /\ rest # <<>> /\ Len(rest) = Len(left)
      /\ rest[1].op = what /\ rest[1].type = left[1].type
      /\ rest[1].role = left[1].role
      /\ rest[1].status = left[1].status
      /\ \A i \in DOMAIN left : i # 1 => rest[i] = left[i]
      /\ Follows(PlanOf(r), rest)
  <2>1. PICK full \in Seq(Steps) : full = PlanOf(r)
    BY <1>2
  <2>2. Follows(full, plan[t]) /\ Skipping(full) /\ TypeOK
    BY <2>1, <1>1, <1>2, <1>3
  <2>3. /\ plan' \in [Threads -> Seq(Steps)]
        /\ \A u \in Threads : u # t => plan'[u] = plan[u]
        /\ rest # <<>> /\ Len(rest) = Len(left)
        /\ rest[1].op = what /\ rest[1].type = left[1].type
        /\ rest[1].role = left[1].role
        /\ rest[1].status = left[1].status
        /\ \A i \in DOMAIN left : i # 1 => rest[i] = left[i]
        /\ Follows(full, rest)
    BY <2>2, <1>1, GotoKeeps
  <2> QED  BY <2>1, <2>3
<1>5. rest \in Seq(Steps) /\ LogGrows /\ mind \in [Threads -> Mind]
  BY <1>1, <1>2, <1>4 DEF LogGrows, TypeOK
<1>6. r.project \in Projects => status'[r.project] \in mm.seen
  BY <1>2 DEF Proper
<1>7. Overwritten => Overwritten'
  BY DEF Overwritten
<1>8. Proper(r, rest, mm)'
  BY <1>2, <1>4, <1>5, <1>6, <1>7, ProperKept
<1>9. Counting(r, rest, mm)'
  BY <1>2, <1>4 DEF Counting
<1>10. mind'[t] = mm /\ \A u \in Threads : u # t => mind'[u] = mind[u]
  BY <1>5
<1>11. OnPlan(t)'
  BY <1>1, <1>8, <1>9, <1>10, OnPlanIs
<1>12. Thinner(left, rest)
  <2>1. DOMAIN rest = DOMAIN left /\ 1 \in DOMAIN left
    BY <1>2, <1>4, <1>5
  <2>2. left[1].op \in Writing
    BY <1>2 DEF Writing
  <2> QED  BY <2>1, <2>2, <1>4 DEF Thinner
<1>13. TypeOK'
  <2>1. ThreadsOK
    BY <1>2, TypesSplit
  <2>2. /\ inbox' \in [Threads -> Seq(Request)]
        /\ mind' \in [Threads -> Mind]
    BY <2>1, <1>5 DEF ThreadsOK
  <2>3. \A u \in Threads : /\ ~mind'[u].on => plan'[u] = <<>>
                           /\ mind'[u].on => inbox'[u] # <<>>
    BY <2>1, <1>4, <1>10 DEF ThreadsOK
  <2>4. ThreadsOK'
    BY <2>2, <2>3, <1>4 DEF ThreadsOK
  <2> QED  BY <2>4, TypesSplitNext
<1>14. Thinner(plan[t], plan'[t])
  BY <1>1, <1>12
<1> QED  BY <1>4, <1>10, <1>11, <1>13, <1>14, LocalKeeps

\* The first step of a write.
LEMMA CountRevisionsKeeps ==
  ASSUME IInv, NEW t \in Threads, CountRevisions(t)
  PROVE  IInv'
<1>1. PICK r, m, d, w, st :
        /\ r = Req(t) /\ m = mind[t] /\ w = Step(t)
        /\ d = Len(PlanOf(r)) - Len(plan[t])
        /\ st = IF w.status = "resolved" THEN m.state ELSE w.status
  OBVIOUS
<1>2. PICK n : n = Len(rows[r.project][w.type])
  OBVIOUS
<1>3. /\ mind[t].on /\ plan[t] # <<>> /\ Step(t).op = "write" /\ Reads
      /\ IF Authorized(w.type, w.role, st) /\ w.type \in Types
              /\ WithinCaps(r.project, w.type)
         THEN /\ mind' = [mind EXCEPT ![t].rev = n + 1]
              /\ Goto(t, "file")
         ELSE Raise(t)
  BY <1>1, <1>2 DEF CountRevisions, Runs, Reads, stores, others
<1>4. /\ TypeOK /\ r \in Request /\ m \in Mind /\ w = plan[t][1]
  <2>1. mind[t].on /\ plan[t] # <<>>
    BY <1>3
  <2> HIDE <1>3
  <2> QED  BY <1>1, <2>1, AtStep
<1>5. OthersOK'
  BY <1>3, <1>4, ReadsOK DEF Reads
<1>6. r.project \in Projects
  BY <1>1, <1>3, WriteOfPlan DEF Writing
<1>7. CASE Raise(t)
  BY <1>3, <1>5, <1>7, RaiseKeeps DEF Reads, Writing
<1>8. ASSUME mind' = [mind EXCEPT ![t].rev = n + 1], Goto(t, "file"),
             Authorized(w.type, w.role, st), w.type \in Types,
             WithinCaps(r.project, w.type)
      PROVE  IInv'
  <2>1. n \in Nat
    <3>1. rows[r.project][w.type] \in Seq(Document)
      BY <1>4, <1>6, <1>8 DEF TypeOK
    <3> QED  BY <3>1, <1>2
  <2>2. PICK k : k = n + 1
    OBVIOUS
  <2>3. k \in Nat /\ 1 <= k /\ k <= n + 1
    BY <2>1, <2>2
  <2>4. PICK mm : mm = [m EXCEPT !.rev = k]
    OBVIOUS
  <2>5. /\ mm \in Mind /\ mm.on /\ mm.from = m.from /\ mm.seen = m.seen
        /\ mm.outcome = m.outcome /\ mm.cycles = m.cycles /\ mm.rev = k
        /\ mm.state = m.state
    BY <1>1, <1>3, <1>4, <2>3, <2>4 DEF Mind
  <2>6. mind' = [mind EXCEPT ![t] = mm]
    BY <1>1, <1>8, <2>2, <2>4
  <2>7. w.type \in AppendOnly => mm.rev <= allowed_type_caps[w.type]
    <3>1. w.type \in AppendOnly => n < allowed_type_caps[w.type]
      BY <1>2, <1>8 DEF WithinCaps
    <3>2. allowed_type_caps[w.type] \in Nat
      BY <1>8, RecordConstants
    <3> QED  BY <3>1, <3>2, <2>1, <2>2, <2>5
  <2>8. w.status = "resolved" => mm.state \in ProjectWritable
    BY <1>1, <1>8, <2>5 DEF Authorized
  <2> HIDE <1>3
  <2>9. /\ mind[t].on /\ plan[t] # <<>> /\ Step(t).op = "write"
        /\ inbox' = inbox /\ rows' = rows /\ log' = log /\ status' = status
    BY <1>3 DEF Reads
  <2> QED  BY <1>1, <1>2, <1>5, <1>6, <1>8, <2>3, <2>5, <2>6, <2>7, <2>8,
              <2>9, WriteGoesOn
<1> QED  BY <1>3, <1>7, <1>8

\* The document a write is about to leave.
LEMMA DocByIs ==
  ASSUME IInv, NEW t \in Threads, mind[t].on, plan[t] # <<>>,
         Step(t).op \in Writing
  PROVE  /\ DocBy(t) \in Document
         /\ DocBy(t).about = Step(t).about /\ DocBy(t).says = Step(t).says
         /\ DocBy(t).by = Req(t).kind
         /\ DocBy(t).n = <<t, Len(inbox[t])>>
<1>1. PICK r, d, w : /\ r = Req(t) /\ d = Len(PlanOf(r)) - Len(plan[t])
                     /\ w = Step(t)
  OBVIOUS
<1>2. w \in WriteSteps
  BY <1>1, WriteOfPlan
<1>3. Len(inbox[t]) \in Nat /\ r \in Request
  BY <1>1, Running DEF IInv
<1>4. w.about \in Topics /\ w.says \in Words
  BY <1>2 DEF WriteSteps
<1>5. r.kind \in Kinds
  BY <1>3 DEF Request, RequestFields
<1>6. <<t, Len(inbox[t])>> \in Numbers
  BY <1>3 DEF Numbers
<1> QED  BY <1>1, <1>4, <1>5, <1>6 DEF DocBy, Doc, Document

\* A row is replaced, or one is added at the end.
LEMMA UpsertIs ==
  ASSUME NEW S, NEW docs \in Seq(S), NEW rev \in Nat, NEW x \in S
  PROVE  /\ Upsert(docs, rev, x) \in Seq(S)
         /\ ToSet(Upsert(docs, rev, x)) \subseteq ToSet(docs) \union {x}
         /\ x \in ToSet(Upsert(docs, rev, x))
         /\ \/ /\ rev \in DOMAIN docs
               /\ Len(Upsert(docs, rev, x)) = Len(docs)
            \/ /\ rev \notin DOMAIN docs
               /\ Len(Upsert(docs, rev, x)) = Len(docs) + 1
               /\ ToSet(docs) \subseteq ToSet(Upsert(docs, rev, x))
<1>1. CASE rev \in DOMAIN docs
  <2>1. PICK y : y = [docs EXCEPT ![rev] = x]
    OBVIOUS
  <2>2. /\ y \in Seq(S) /\ Len(y) = Len(docs) /\ y[rev] = x
        /\ \A j \in 1..Len(docs) : j # rev => y[j] = docs[j]
    BY <1>1, <2>1, ExceptSeq
  <2>3. DOMAIN y = 1..Len(docs) /\ DOMAIN docs = 1..Len(docs)
    BY <2>2
  <2>4. ToSet(y) \subseteq ToSet(docs) \union {x} /\ x \in ToSet(y)
    BY <1>1, <2>2, <2>3 DEF ToSet
  <2> QED  BY <1>1, <2>1, <2>2, <2>4 DEF Upsert
<1>2. CASE rev \notin DOMAIN docs
  <2>1. PICK y : y = Append(docs, x)
    OBVIOUS
  <2>2. /\ y \in Seq(S) /\ Len(y) = Len(docs) + 1 /\ y[Len(docs) + 1] = x
        /\ \A j \in 1..Len(docs) : y[j] = docs[j]
    BY <2>1
  <2>3. DOMAIN y = 1..(Len(docs) + 1) /\ DOMAIN docs = 1..Len(docs)
          /\ Len(docs) \in Nat
    BY <2>2
  <2>4. \A j \in DOMAIN y : j \in DOMAIN docs \/ j = Len(docs) + 1
    BY <2>3
  <2>5. Len(docs) + 1 \in DOMAIN y /\ \A j \in DOMAIN docs : j \in DOMAIN y
    BY <2>3
  <2>6. /\ ToSet(y) \subseteq ToSet(docs) \union {x} /\ x \in ToSet(y)
        /\ ToSet(docs) \subseteq ToSet(y)
    BY <2>2, <2>3, <2>4, <2>5 DEF ToSet
  <2> QED  BY <1>2, <2>1, <2>2, <2>6 DEF Upsert
<1> QED  BY <1>1, <1>2

\* The second.
LEMMA WriteFileKeeps ==
  ASSUME IInv, NEW t \in Threads, WriteFile(t)
  PROVE  IInv'
<1>1. PICK r, m, w : /\ r = Req(t) /\ m = mind[t] /\ w = Step(t)
  OBVIOUS
<1>2. PICK p, ty, docs : /\ p = r.project /\ ty = w.type
                         /\ docs = Upsert(files[p][ty], m.rev, DocBy(t))
  OBVIOUS
<1>3. /\ mind[t].on /\ plan[t] # <<>> /\ Step(t).op = "file"
      /\ files' = [files EXCEPT ![p][ty] = docs] /\ Goto(t, "row")
      /\ inbox' = inbox /\ mind' = mind /\ rows' = rows /\ status' = status
      /\ bound' = bound /\ workforce' = workforce
      /\ blocked' = blocked /\ memo' = memo /\ effects' = effects
      /\ log' = log
  BY <1>1, <1>2 DEF WriteFile, Runs, others
<1>4. /\ TypeOK /\ r \in Request /\ m \in Mind /\ w = plan[t][1]
  <2>1. PICK d : d = Len(PlanOf(r)) - Len(plan[t])
    OBVIOUS
  <2>2. mind[t].on /\ plan[t] # <<>>
    BY <1>3
  <2> HIDE <1>3
  <2> QED  BY <1>1, <2>1, <2>2, AtStep
<1>5. Counting(r, plan[t], m)
  BY <1>1, <1>3 DEF IInv, OnPlan
<1>6. /\ ty \in Types /\ p \in Projects /\ m.rev \in Nat
      /\ 1 <= m.rev /\ m.rev <= Len(rows[p][ty]) + 1
      /\ ty \in AppendOnly => m.rev <= allowed_type_caps[ty]
      /\ w.status = "resolved" => m.state \in ProjectWritable
  BY <1>1, <1>2, <1>3, <1>4, <1>5 DEF Counting, Mind
<1>7. OthersOK'
  <2>1. DocBy(t) \in Document
    BY <1>3, DocByIs DEF Writing
  <2>2. files \in [Projects -> [Types -> Seq(Document)]]
    BY <1>4 DEF TypeOK
  <2>3. docs \in Seq(Document)
    <3>1. PICK old : old = files[p][ty]
      OBVIOUS
    <3>2. old \in Seq(Document) /\ m.rev \in Nat
      BY <3>1, <1>6, <2>2
    <3>3. Upsert(old, m.rev, DocBy(t)) \in Seq(Document)
      BY <3>2, <2>1, UpsertIs
    <3> QED  BY <3>1, <3>3, <1>2
  <2>4. files' \in [Projects -> [Types -> Seq(Document)]]
    BY <1>3, <1>6, <2>2, <2>3
  <2> QED  BY <2>4, <1>3, <1>4 DEF TypeOK, OthersOK
<1>8. mind' = [mind EXCEPT ![t] = m] /\ m.on
  BY <1>1, <1>3, <1>4 DEF TypeOK
<1>9. /\ mind[t].on /\ plan[t] # <<>> /\ Step(t).op = "file"
      /\ Goto(t, "row") /\ inbox' = inbox /\ rows' = rows /\ log' = log
      /\ status' = status
  BY <1>3
<1> HIDE <1>3
<1> QED  BY <1>1, <1>2, <1>4, <1>6, <1>7, <1>8, <1>9, WriteGoesOn

\* The registry and the task.
LEMMA QuarantineKeeps ==
  ASSUME IInv, NEW t \in Threads, Quarantine(t)
  PROVE  IInv'
<1>1. PICK r, m, d : /\ r = Req(t) /\ m = mind[t]
                     /\ d = Len(PlanOf(r)) - Len(plan[t])
  OBVIOUS
<1>2. /\ mind[t].on /\ plan[t] # <<>> /\ Step(t).op = "quarantine"
      /\ \/ Refuse(t) /\ workforce' = workforce
         \/ /\ workforce' = [workforce EXCEPT ![r.project] = "inactive"]
            /\ Continue(t) /\ mind' = mind
      /\ inbox' = inbox /\ rows' = rows /\ files' = files /\ status' = status
      /\ bound' = bound
      /\ blocked' = blocked /\ memo' = memo /\ effects' = effects
      /\ log' = log
  BY <1>1 DEF Quarantine, Runs, stores, others
<1>3. /\ TypeOK /\ r \in Request /\ m \in Mind /\ d \in Nat
      /\ Step(t) = plan[t][1] /\ Step(t) = PlanOf(r)[d + 1]
  <2>1. mind[t].on /\ plan[t] # <<>> /\ Step(t).op \notin {"file", "row"}
    BY <1>2
  <2> HIDE <1>2
  <2> QED  BY <2>1, <1>1, AtStep
<1>4. r.project \in Projects
  <2>1. mind[t].on /\ plan[t] # <<>> /\ NeedsProject(PlanOf(r)[d + 1])
    BY <1>2, <1>3 DEF NeedsProject
  <2> HIDE <1>2
  <2> QED  BY <2>1, <1>1, InScope
<1>5. OthersOK'
  <2>1. workforce' \in [Projects -> {"absent", "active", "inactive"}]
    BY <1>2, <1>3, <1>4 DEF TypeOK
  <2> QED  BY <1>2, <1>3, <2>1 DEF TypeOK, OthersOK
<1>6. CASE Refuse(t)
  BY <1>2, <1>5, <1>6, RefuseKeeps
<1>7. CASE mind' = mind /\ Continue(t)
  <2>1. mind' = [mind EXCEPT ![t] = m] /\ m.on
    BY <1>1, <1>2, <1>3, <1>7 DEF TypeOK
  <2>2. Met(r, PlanOf(r)[d + 1])
    BY <1>2, <1>3, NothingToMeet
  <2> QED  BY <1>1, <1>2, <1>3, <1>5, <1>7, <2>1, <2>2, PassKeeps
<1> QED  BY <1>2, <1>6, <1>7

\* BlockTask.
LEMMA BlockTaskKeeps ==
  ASSUME IInv, NEW t \in Threads, BlockTask(t)
  PROVE  IInv'
<1>1. PICK r, m, d : /\ r = Req(t) /\ m = mind[t]
                     /\ d = Len(PlanOf(r)) - Len(plan[t])
  OBVIOUS
<1>2. /\ mind[t].on /\ plan[t] # <<>> /\ Step(t).op = "block"
      /\ \/ Refuse(t) /\ blocked' = blocked
         \/ /\ r.about \in Tasks /\ blocked' = blocked \union {r.about}
            /\ Continue(t) /\ mind' = mind
      /\ inbox' = inbox /\ rows' = rows /\ files' = files /\ status' = status
      /\ bound' = bound
      /\ workforce' = workforce /\ memo' = memo /\ effects' = effects
      /\ log' = log
  BY <1>1 DEF BlockTask, Runs, stores, others
<1>3. /\ TypeOK /\ r \in Request /\ m \in Mind /\ d \in Nat
      /\ Step(t) = plan[t][1] /\ Step(t) = PlanOf(r)[d + 1]
  <2>1. mind[t].on /\ plan[t] # <<>> /\ Step(t).op \notin {"file", "row"}
    BY <1>2
  <2> HIDE <1>2
  <2> QED  BY <2>1, <1>1, AtStep
<1>5. OthersOK'
  <2>1. blocked' \subseteq Tasks
    BY <1>2, <1>3 DEF TypeOK
  <2> QED  BY <1>2, <1>3, <2>1 DEF TypeOK, OthersOK
<1>6. CASE Refuse(t)
  BY <1>2, <1>5, <1>6, RefuseKeeps
<1>7. CASE mind' = mind /\ Continue(t)
  <2>1. mind' = [mind EXCEPT ![t] = m] /\ m.on
    BY <1>1, <1>2, <1>3, <1>7 DEF TypeOK
  <2>2. Met(r, PlanOf(r)[d + 1])
    BY <1>2, <1>3, NothingToMeet
  <2> QED  BY <1>1, <1>2, <1>3, <1>5, <1>7, <2>1, <2>2, PassKeeps
<1> QED  BY <1>2, <1>6, <1>7

\* A store that fails.
LEMMA StoreFailsKeeps ==
  ASSUME IInv, NEW t \in Threads, StoreFails(t)
  PROVE  IInv'
<1>1. /\ mind[t].on /\ plan[t] # <<>> /\ Step(t).op \in Writing /\ Raise(t)
      /\ Fault
      /\ inbox' = inbox /\ rows' = rows /\ files' = files /\ status' = status
      /\ workforce' = workforce /\ blocked' = blocked
      /\ memo' = memo /\ effects' = effects /\ log' = log
  BY DEF StoreFails, Writing, stores
<1>2. OthersOK'
  <2>1. TypeOK
    BY DEF IInv
  <2>2. bound' \in [changes : Nat, faults : Nat]
    BY <1>1, <2>1, FaultTyped
  <2> QED  BY <1>1, <2>1, <2>2 DEF TypeOK, OthersOK
<1> QED  BY <1>1, <1>2, RaiseKeeps

-----------------------------------------------------------------------------
(* The steps that enter something in the log.                              *)

\* Thread t enters e: the row of a write, or the binding of a workforce.
Records(t, e) ==
  /\ mind[t].on /\ plan[t] # <<>> /\ Step(t).op \in {"row", "bind"}
  /\ e \in LogEntry /\ log' = Append(log, e) /\ Continue(t)
  /\ inbox' = inbox /\ mind' = mind /\ status' = status
  /\ e.project = Req(t).project /\ e.by = Req(t).kind
  /\ e.n = <<t, Len(inbox[t])>> /\ e.from = mind[t].from
  /\ e.outcome = mind[t].outcome /\ e.override = Req(t).override
  /\ Step(t).op = "row" => /\ e.type = Step(t).type /\ e.type \in Types
                           /\ e.about = Step(t).about
                           /\ e.says = Step(t).says
  /\ Step(t).op = "bind" => e.type = "bind"
  /\ Overwritten => Overwritten'
  /\ \A p \in Projects, ty \in Types :
       /\ rows'[p][ty] \in Seq(Document)
       /\ Len(rows[p][ty]) <= Len(rows'[p][ty])

\* What was in the log, and the new entry.
LEMMA LogHas ==
  ASSUME log \in Seq(LogEntry), NEW e \in LogEntry, log' = Append(log, e),
         NEW n, n = Len(log)
  PROVE  /\ n \in Nat /\ Len(log') = n + 1 /\ log'[n + 1] = e
         /\ DOMAIN log = 1..n /\ DOMAIN log' = 1..(n + 1)
         /\ \A i \in DOMAIN log : i \in DOMAIN log' /\ log'[i] = log[i]
         /\ \A i \in DOMAIN log' : i \in DOMAIN log \/ i = n + 1
         /\ n + 1 \in DOMAIN log'
         /\ \A i \in DOMAIN log : \A p, ty :
              Before(i, p, ty)' = Before(i, p, ty)
         /\ \A p, ty : Before(n + 1, p, ty)' = Places(log, p, ty)
<1>1. /\ n \in Nat /\ Len(log') = n + 1 /\ log'[n + 1] = e
      /\ DOMAIN log = 1..n /\ DOMAIN log' = 1..(n + 1)
      /\ \A i \in 1..n : log'[i] = log[i]
  OBVIOUS
<1>2. /\ \A i \in DOMAIN log : i \in DOMAIN log' /\ log'[i] = log[i]
      /\ \A i \in DOMAIN log' : i \in DOMAIN log \/ i = n + 1
      /\ n + 1 \in DOMAIN log'
  BY <1>1
<1>3. \A i \in DOMAIN log : \A p, ty :
              Before(i, p, ty)' = Before(i, p, ty)
  <2> SUFFICES ASSUME NEW i \in DOMAIN log, NEW p, NEW ty
               PROVE  Before(i, p, ty)' = Before(i, p, ty)
    OBVIOUS
  <2>1. \A j \in 1..(i - 1) : log'[j] = log[j]
    BY <1>1
  <2> QED  BY <2>1 DEF Before
<1>4. \A p, ty : Before(n + 1, p, ty)' = Places(log, p, ty)
  <2>1. 1..(n + 1 - 1) = DOMAIN log
    BY <1>1
  <2> QED  BY <2>1, <1>2 DEF Before, Places
<1> QED  BY <1>1, <1>2, <1>3, <1>4

\* The threads.
LEMMA RecordsOnPlan ==
  ASSUME IInv, NEW t \in Threads, NEW e, Records(t, e)
  PROVE  \A u \in Threads : OnPlan(u)'
<1>1. TypeOK /\ LogGrows /\ \A u \in Threads : Req(u)' = Req(u)
  BY DEF IInv, LogGrows, Records, Req
<1>2. ASSUME NEW u \in Threads, u # t, mind[u].on
      PROVE  OnPlan(u)'
  <2>1. PICK r, left, m : r = Req(u) /\ left = plan[u] /\ m = mind[u]
    OBVIOUS
  <2>2. r \in Request /\ left \in Seq(Steps) /\ m \in Mind
    BY <1>1, <1>2, <2>1, Running
  <2>3. Proper(r, left, m) /\ Counting(r, left, m)
    BY <1>2, <2>1 DEF IInv, OnPlan
  <2>4. plan'[u] = left /\ mind'[u] = m /\ inbox'[u] = inbox[u]
    BY <1>1, <1>2, <2>1 DEF Records, Continue, TypeOK
  <2>5. /\ Follows(PlanOf(r), left) /\ (Overwritten => Overwritten')
        /\ r.project \in Projects => status'[r.project] \in m.seen
    BY <2>3 DEF Proper, Records
  <2>6. Proper(r, left, m)'
    BY <1>1, <2>2, <2>3, <2>5, ProperKept
  <2>7. Counting(r, left, m)'
    <3>1. SUFFICES ASSUME left # <<>>, left[1].op \in {"file", "row"}
                   PROVE  m.rev <= Len(rows'[r.project][left[1].type]) + 1
      BY <2>3 DEF Counting
    <3>2. PICK p, ty : p = r.project /\ ty = left[1].type
      OBVIOUS
    <3>3. /\ p \in Projects /\ ty \in Types
          /\ m.rev <= Len(rows[p][ty]) + 1
      BY <2>3, <3>1, <3>2 DEF Counting
    <3>4. Len(rows[p][ty]) \in Nat /\ Len(rows'[p][ty]) \in Nat
            /\ m.rev \in Nat
      <4>1. rows[p][ty] \in Seq(Document) /\ rows'[p][ty] \in Seq(Document)
        BY <1>1, <3>3 DEF TypeOK, Records
      <4> QED  BY <4>1, <2>2 DEF Mind
    <3>5. Len(rows[p][ty]) <= Len(rows'[p][ty])
      BY <3>3 DEF Records
    <3>6. PICK old, new : old = Len(rows[p][ty]) /\ new = Len(rows'[p][ty])
      OBVIOUS
    <3>7. /\ old \in Nat /\ new \in Nat /\ m.rev \in Nat /\ old <= new
          /\ m.rev <= old + 1
      BY <3>3, <3>4, <3>5, <3>6
    <3>8. m.rev <= new + 1
      BY <3>7
    <3> QED  BY <3>2, <3>6, <3>8
  <2> QED  BY <2>1, <2>4, <2>6, <2>7, OnPlanIs
<1>3. ASSUME NEW u \in Threads, ~mind[u].on
      PROVE  OnPlan(u)'
  BY <1>3 DEF OnPlan, Records
<1>4. OnPlan(t)'
  <2>1. PICK r, left, m, d, rest :
          /\ r = Req(t) /\ left = plan[t] /\ m = mind[t]
          /\ d = Len(PlanOf(r)) - Len(plan[t]) /\ rest = Tail(left)
    OBVIOUS
  <2>2. mind[t].on /\ plan[t] # <<>> /\ Step(t).op \in {"row", "bind"}
    BY DEF Records
  <2>3. /\ r \in Request /\ left \in Seq(Steps) /\ m \in Mind /\ d \in Nat
        /\ PlanOf(r) \in Seq(Steps) /\ Shaped(r, PlanOf(r))
        /\ Proper(r, left, m)
        /\ Step(t) = PlanOf(r)[d + 1] \/ Begun(Step(t), PlanOf(r)[d + 1])
        /\ \A j \in 1..d : Judged(r, m, PlanOf(r)[j])
    BY <2>1, <2>2, AtStep
  <2>4. PlanOf(r)[d + 1].op \notin {"test", "project", "GATE-005",
                                    "conflicts", "GATE-003"}
    BY <2>2, <2>3 DEF Begun
  <2>5. Met(r, PlanOf(r)[d + 1])' /\ Judged(r, m, PlanOf(r)[d + 1])'
    BY <2>4 DEF Met, Judged, IsTest
  <2>6. m.from <= Len(log) /\ (Overwritten => Overwritten')
    BY <2>3 DEF Proper, Records
  <2>7. \A j \in 1..d : Judged(r, m, PlanOf(r)[j])'
    BY <1>1, <2>3, <2>6, JudgedStays
  <2>8. \A j \in 1..(d + 1) : j \in 1..d \/ j = d + 1
    BY <2>3
  <2>9. \A j \in 1..(d + 1) : Judged(r, m, PlanOf(r)[j])'
    BY <2>5, <2>7, <2>8
  <2>10. status' = status
    BY DEF Records
  <2>11. Proper(r, rest, m)'
    BY <1>1, <2>1, <2>2, <2>3, <2>5, <2>9, <2>10, ProperRest
  <2>12. Counting(r, rest, m)'
    <3>1. Follows(PlanOf(r), left)
      BY <2>3 DEF Proper
    <3>2. rest # <<>> => Len(left) >= 2 /\ rest[1] = left[2]
      BY <2>1, <2>2, <2>3
    <3>3. rest # <<>> =>
            /\ rest[1] = PlanOf(r)[d + 2] /\ d + 2 \in DOMAIN PlanOf(r)
      BY <3>1, <3>2, <2>1, <2>3, SecondFollows
    <3> QED  BY <3>3, <2>3 DEF Counting, Shaped, Skipping
  <2>13. plan'[t] = rest /\ mind'[t] = m /\ inbox'[t] = inbox[t]
    BY <1>1, <2>1 DEF Records, Continue, TypeOK
  <2> QED  BY <2>1, <2>11, <2>12, <2>13, OnPlanIs
<1> QED  BY <1>2, <1>3, <1>4

\* The numbers: a request has no second review and no second decision.
LEMMA RecordsNumbered ==
  ASSUME IInv, NEW t \in Threads, NEW e, Records(t, e)
  PROVE  Numbered'
<1>1. PICK n, k0, r, left, m, d :
        /\ n = Len(log) /\ k0 = Len(inbox[t]) /\ r = Req(t)
        /\ left = plan[t] /\ m = mind[t]
        /\ d = Len(PlanOf(r)) - Len(plan[t])
  OBVIOUS
<1>2. /\ TypeOK /\ log \in Seq(LogEntry) /\ e \in LogEntry
      /\ log' = Append(log, e)
  BY DEF IInv, TypeOK, Records
<1>3. /\ n \in Nat /\ log'[n + 1] = e /\ n + 1 \in DOMAIN log'
      /\ \A i \in DOMAIN log : i \in DOMAIN log' /\ log'[i] = log[i]
      /\ \A i \in DOMAIN log' : i \in DOMAIN log \/ i = n + 1
  BY <1>1, <1>2, LogHas
<1>4. /\ mind[t].on /\ plan[t] # <<>> /\ Step(t).op \in {"row", "bind"}
      /\ e.n = <<t, k0>>
      /\ Step(t).op = "row" => e.type = Step(t).type
      /\ Step(t).op = "bind" => e.type = "bind"
      /\ inbox' = inbox /\ mind' = mind
  BY <1>1 DEF Records
<1>5. /\ k0 \in Nat /\ r \in Request /\ left \in Seq(Steps) /\ left # <<>>
      /\ PlanOf(r) \in Seq(Steps) /\ Shaped(r, PlanOf(r))
  BY <1>1, <1>2, <1>4, Running
<1>6. /\ Step(t) = left[1] /\ d \in Nat /\ d + 1 \in DOMAIN PlanOf(r)
      /\ Follows(PlanOf(r), left)
  <2>1. /\ mind[t].on /\ plan[t] # <<>>
    BY <1>4
  <2>2. /\ Step(t) = left[1] /\ d \in Nat /\ d + 1 \in DOMAIN PlanOf(r)
        /\ Proper(r, left, m)
    BY <2>1, <1>1, AtStep
  <2> QED  BY <2>2 DEF Proper
<1>7. e.type \in Counted =>
        /\ left[1].op = "row" /\ left[1].type = e.type
        /\ PlanOf(r)[d + 1].op = "write" /\ PlanOf(r)[d + 1].type = e.type
  <2> SUFFICES ASSUME e.type \in Counted
               PROVE  /\ left[1].op = "row" /\ left[1].type = e.type
                      /\ PlanOf(r)[d + 1].op = "write"
                      /\ PlanOf(r)[d + 1].type = e.type
    OBVIOUS
  <2>1. Step(t).op = "row" /\ e.type = Step(t).type
    BY <1>4 DEF Counted
  <2>2. mind[t].on /\ plan[t] # <<>> /\ Step(t).op \in Writing
    BY <1>4, <2>1 DEF Writing
  <2>3. d = Done(t)
    BY <1>1 DEF Done
  <2>4. /\ PlanOf(r)[d + 1].op = "write"
        /\ PlanOf(r)[d + 1].type = Step(t).type
    BY <2>2, <2>3, <1>1, WriteAtPlace
  <2> QED  BY <2>1, <2>4, <1>6
<1>8. plan'[t] = Tail(left) /\ \A u \in Threads : u # t => plan'[u] = plan[u]
  BY <1>1, <1>2 DEF Records, Continue, TypeOK
<1>9. Thinner(left, Tail(left))
  BY <1>5, TailThinner
<1>10. ASSUME NEW i \in DOMAIN log, e.type \in Counted,
              log[i].type = e.type
       PROVE  log[i].n # e.n
  <2>1. SUFFICES ASSUME log[i].n = <<t, k0>>
                 PROVE  FALSE
    BY <1>4
  <2>2. \A x \in DOMAIN left :
          left[x].op \in Writing => left[x].type # log[i].type
    BY <1>1, <1>5, <1>10, <2>1 DEF IInv, Numbered
  <2>3. 1 \in DOMAIN left
    BY <1>5
  <2> QED  BY <2>2, <2>3, <1>7, <1>10 DEF Writing
<1>11. ASSUME e.type \in Counted, NEW x \in DOMAIN Tail(left),
              Tail(left)[x].op \in Writing
       PROVE  Tail(left)[x].type # e.type
  <2>1. /\ Follows(PlanOf(r), Tail(left)) /\ Len(Tail(left)) = Len(left) - 1
        /\ x + 1 \in DOMAIN left /\ Tail(left)[x] = left[x + 1]
        /\ x \in Nat /\ x >= 1
    BY <1>5, <1>6, TailFollows
  <2>2. PICK z : z = d + 1 + x
    OBVIOUS
  <2>3. /\ left[x + 1] = PlanOf(r)[z] /\ z \in DOMAIN PlanOf(r)
        /\ z # d + 1
    <3>1. PICK full : full = PlanOf(r)
      OBVIOUS
    <3>2. full \in Seq(Steps) /\ Follows(full, left)
            /\ d = Len(full) - Len(left)
      BY <3>1, <1>1, <1>5, <1>6
    <3>3. z = Len(full) - Len(left) + (x + 1) /\ z \in DOMAIN full
            /\ z # d + 1 /\ x + 1 # 1
      <4>1. PICK a, b : a = Len(full) /\ b = Len(left)
        OBVIOUS
      <4>2. /\ a \in Nat /\ b \in Nat /\ b <= a /\ x \in Nat /\ x >= 1
            /\ x + 1 <= b /\ d = a - b
        BY <4>1, <3>2, <2>1, <1>5, <1>6 DEF Follows
      <4>3. z = a - b + (x + 1) /\ z \in 1..a /\ z # d + 1 /\ x + 1 # 1
        BY <4>2, <2>2
      <4>4. DOMAIN full = 1..a
        BY <4>1, <3>2
      <4> QED  BY <4>1, <4>3, <4>4
    <3>4. left[x + 1] = full[z]
      BY <3>2, <3>3, <2>1 DEF Follows
    <3> QED  BY <3>1, <3>3, <3>4
  <2>4. PlanOf(r)[z].op = "write"
    BY <2>1, <2>3, <1>5, <1>11 DEF Shaped, Skipping, Writing
  <2> QED  BY <2>1, <2>3, <2>4, <1>5, <1>6, <1>7, <1>11
           DEF Shaped, WritesOnce
<1>12. ASSUME NEW i \in DOMAIN log', log'[i].type \in Counted,
              NEW j \in DOMAIN log', log'[j].type = log'[i].type,
              log'[j].n = log'[i].n
       PROVE  i = j
  <2>1. CASE i \in DOMAIN log /\ j \in DOMAIN log
    BY <2>1, <1>3, <1>12 DEF IInv, Numbered
  <2>2. CASE i \in DOMAIN log /\ j = n + 1
    BY <2>2, <1>3, <1>10, <1>12
  <2>3. CASE i = n + 1 /\ j \in DOMAIN log
    BY <2>3, <1>3, <1>10, <1>12
  <2> QED  BY <2>1, <2>2, <2>3, <1>3
<1>13. ASSUME NEW i \in DOMAIN log', NEW u \in Threads, NEW k \in Nat,
              log'[i].n = <<u, k>>
       PROVE  /\ k >= Len(inbox'[u])
              /\ mind'[u].on \/ k > Len(inbox'[u])
              /\ k = Len(inbox'[u]) /\ log'[i].type \in Counted =>
                   \A x \in DOMAIN plan'[u] :
                     plan'[u][x].op \in Writing =>
                       plan'[u][x].type # log'[i].type
  <2>1. CASE i \in DOMAIN log
    <3>1. log[i].n = <<u, k>> /\ log'[i] = log[i]
      BY <2>1, <1>3, <1>13
    <3>2. /\ k >= Len(inbox[u])
          /\ mind[u].on \/ k > Len(inbox[u])
          /\ k = Len(inbox[u]) /\ log[i].type \in Counted =>
               \A x \in DOMAIN plan[u] :
                 plan[u][x].op \in Writing => plan[u][x].type # log[i].type
      BY <2>1, <3>1 DEF IInv, Numbered
    <3>3. CASE u # t
      BY <3>1, <3>2, <3>3, <1>4, <1>8
    <3>4. CASE u = t
      BY <3>1, <3>2, <3>4, <1>1, <1>4, <1>8, <1>9 DEF Thinner
    <3> QED  BY <3>3, <3>4
  <2>2. CASE i = n + 1
    <3>1. u = t /\ k = k0 /\ log'[i] = e
      BY <2>2, <1>3, <1>4, <1>13
    <3> QED  BY <3>1, <1>1, <1>4, <1>5, <1>8, <1>11
  <2> QED  BY <2>1, <2>2, <1>3
<1> QED  BY <1>12, <1>13 DEF Numbered

\* Who agreed, and when requests began.
LEMMA RecordsAgreed ==
  ASSUME IInv, NEW t \in Threads, NEW e, Records(t, e)
  PROVE  Agreed' /\ Dated'
<1>1. PICK n, r, m, d : /\ n = Len(log) /\ r = Req(t) /\ m = mind[t]
                        /\ d = Len(PlanOf(r)) - Len(plan[t])
  OBVIOUS
<1>2. /\ TypeOK /\ log \in Seq(LogEntry) /\ e \in LogEntry
      /\ log' = Append(log, e)
  BY DEF IInv, TypeOK, Records
<1>3. /\ n \in Nat /\ log'[n + 1] = e /\ Len(log') = n + 1
      /\ \A i \in DOMAIN log : i \in DOMAIN log' /\ log'[i] = log[i]
      /\ \A i \in DOMAIN log' : i \in DOMAIN log \/ i = n + 1
  BY <1>1, <1>2, LogHas
<1>4. /\ mind[t].on /\ plan[t] # <<>> /\ e.by = r.kind /\ e.from = m.from
      /\ e.type \in Types => Step(t).op = "row" /\ e.type = Step(t).type
  <2>1. "bind" \notin Types
    BY RecordConstants
  <2> QED  BY <1>1, <2>1 DEF Records
<1>5. /\ d \in Nat /\ d + 1 \in DOMAIN PlanOf(r) /\ Shaped(r, PlanOf(r))
      /\ Proper(r, plan[t], m) /\ m \in Mind
      /\ \A j \in 1..d : Met(r, PlanOf(r)[j])
  BY <1>1, <1>4, AtStep
<1>6. e.type \in Coapprovals =>
        r.kind \in Coapprovals \union {"cwo_initialization", "pm_mutation",
                                       "tool"}
  <2> SUFFICES ASSUME e.type \in Coapprovals,
                      r.kind \notin Coapprovals,
                      r.kind \notin {"cwo_initialization", "pm_mutation",
                                     "tool"}
               PROVE  FALSE
    OBVIOUS
  <2>1. e.type \in Types
    BY TypesAre DEF Coapprovals, GovernanceEvents
  <2>2. mind[t].on /\ plan[t] # <<>> /\ Step(t).op \in Writing
          /\ e.type = Step(t).type
    BY <2>1, <1>4 DEF Writing
  <2>3. PlanOf(r)[d + 1].op = "write" /\ PlanOf(r)[d + 1].type = e.type
    BY <2>2, <1>1, WriteOfPlan
  <2>4. d + 1 - 1 = d
    BY <1>5
  <2>5. e.type = r.type /\ \E j \in 1..d : IsTest(PlanOf(r)[j], "controlled")
    BY <2>3, <2>4, <1>5 DEF Shaped, Agreeing
  <2>6. r.type \in Conditional
    BY <2>5, <1>5 DEF Met
  <2> QED  BY <2>5, <2>6 DEF Conditional, Coapprovals
<1>7. Agreed'
  BY <1>3, <1>4, <1>6 DEF IInv, Agreed
<1>8. Dated'
  <2>1. m.from \in Nat /\ m.from <= n
    BY <1>1, <1>5 DEF Mind, Proper
  <2>2. SUFFICES ASSUME NEW i \in DOMAIN log', log'[i].by # "before"
                 PROVE  log'[i].from <= n + 1
    BY <1>3 DEF Dated
  <2>3. CASE i = n + 1
    BY <2>1, <2>3, <1>3, <1>4
  <2>4. CASE i \in DOMAIN log
    <3>1. log[i].from <= n /\ log[i].from \in Nat
      <4>1. log[i] \in LogEntry
        BY <2>4, <1>2
      <4> QED  BY <4>1, <2>2, <2>4, <1>1, <1>3 DEF IInv, Dated, LogEntry
    <3> QED  BY <3>1, <2>4, <1>3
  <2> QED  BY <2>3, <2>4, <1>3
<1> QED  BY <1>7, <1>8

\* No co-approval binds a workforce.
LEMMA AgreementsBindNothing ==
  ASSUME NEW r \in Request, r.kind \in Coapprovals
  PROVE  \A i \in DOMAIN PlanOf(r) : PlanOf(r)[i].op # "bind"
<1>1. CASE r.kind = "ceo_coapproval"
  <2>1. PlanOf(r) = CeoCoapproval(r)
    BY <1>1 DEF PlanOf
  <2> QED  BY <2>1 DEF CeoCoapproval, Test, Write
<1>2. CASE r.kind = "cwo_coapproval"
  <2>1. PlanOf(r) = CwoCoapproval(r)
    BY <1>2 DEF PlanOf
  <2> QED  BY <2>1 DEF CwoCoapproval, Test, Write
<1> QED  BY <1>1, <1>2 DEF Coapprovals

\* What the step that records has behind it.
After(t, e, r, m, d) ==
  /\ r \in Request /\ m \in Mind /\ d \in Nat /\ d + 1 - 1 = d
  /\ d + 1 \in DOMAIN PlanOf(r) /\ Shaped(r, PlanOf(r))
  /\ PlanOf(r) \in Seq(Steps) /\ Proper(r, plan[t], m)
  /\ \A j \in 1..d : Met(r, PlanOf(r)[j]) /\ Judged(r, m, PlanOf(r)[j])
  /\ e.type \in Types =>
       /\ Step(t).op = "row" /\ e.type = Step(t).type
       /\ PlanOf(r)[d + 1].op = "write"
       /\ PlanOf(r)[d + 1].type = e.type
       /\ PlanOf(r)[d + 1].about = e.about
       /\ PlanOf(r)[d + 1].says = e.says
  /\ e.type \notin Types =>
       e.type = "bind" /\ PlanOf(r)[d + 1].op = "bind"

\* Whoever records e has followed the plan up to there.
LEMMA RecordsAfter ==
  ASSUME IInv, NEW t \in Threads, NEW e, Records(t, e),
         NEW r, r = Req(t), NEW m, m = mind[t],
         NEW d, d = Len(PlanOf(r)) - Len(plan[t])
  PROVE  After(t, e, r, m, d)
<1>1. /\ mind[t].on /\ plan[t] # <<>> /\ Step(t).op \in {"row", "bind"}
      /\ e.type \in Types <=> Step(t).op = "row"
      /\ Step(t).op = "row" => /\ e.type = Step(t).type
                               /\ e.about = Step(t).about
                               /\ e.says = Step(t).says
      /\ Step(t).op = "bind" => e.type = "bind"
  <2>1. "bind" \notin Types
    BY RecordConstants
  <2> QED  BY <2>1 DEF Records
<1>2. /\ r \in Request /\ m \in Mind /\ d \in Nat
      /\ d + 1 \in DOMAIN PlanOf(r) /\ Shaped(r, PlanOf(r))
      /\ PlanOf(r) \in Seq(Steps) /\ Proper(r, plan[t], m)
      /\ \A j \in 1..d : Met(r, PlanOf(r)[j]) /\ Judged(r, m, PlanOf(r)[j])
      /\ Step(t).op \notin {"file", "row"} => Step(t) = PlanOf(r)[d + 1]
  BY <1>1, AtStep
<1>3. Step(t).op = "row" => /\ PlanOf(r)[d + 1].op = "write"
                            /\ PlanOf(r)[d + 1].type = Step(t).type
                            /\ PlanOf(r)[d + 1].about = Step(t).about
                            /\ PlanOf(r)[d + 1].says = Step(t).says
  <2> SUFFICES ASSUME Step(t).op = "row"
               PROVE  /\ PlanOf(r)[d + 1].op = "write"
                      /\ PlanOf(r)[d + 1].type = Step(t).type
                      /\ PlanOf(r)[d + 1].about = Step(t).about
                      /\ PlanOf(r)[d + 1].says = Step(t).says
    OBVIOUS
  <2>1. mind[t].on /\ plan[t] # <<>> /\ Step(t).op \in Writing
    BY <1>1 DEF Writing
  <2>2. d = Done(t)
    BY DEF Done
  <2> QED  BY <2>1, <2>2, WriteAtPlace
<1>4. d + 1 - 1 = d
  BY <1>2
<1> QED  BY <1>1, <1>2, <1>3, <1>4 DEF After

\* The gates.
LEMMA RecordsGated ==
  ASSUME IInv, NEW t \in Threads, NEW e, Records(t, e)
  PROVE  GatesKeepOrder'
<1>1. PICK n, r, m, d : /\ n = Len(log) /\ r = Req(t) /\ m = mind[t]
                        /\ d = Len(PlanOf(r)) - Len(plan[t])
  OBVIOUS
<1>2. /\ log \in Seq(LogEntry) /\ e \in LogEntry /\ log' = Append(log, e)
      /\ e.by = r.kind /\ e.project = r.project
  BY <1>1 DEF IInv, TypeOK, Records
<1>3. /\ n \in Nat /\ log'[n + 1] = e
      /\ \A i \in DOMAIN log : i \in DOMAIN log' /\ log'[i] = log[i]
      /\ \A i \in DOMAIN log' : i \in DOMAIN log \/ i = n + 1
      /\ \A i \in DOMAIN log : \A p, ty :
           Before(i, p, ty)' = Before(i, p, ty)
      /\ \A p, ty : Before(n + 1, p, ty)' = Places(log, p, ty)
      /\ DOMAIN log = 1..n
  BY <1>1, <1>2, LogHas
<1>4. \A i \in DOMAIN log : \A p, ty : \A j \in Before(i, p, ty) :
        j \in DOMAIN log
  BY <1>3 DEF Before
<1>5. /\ d \in Nat /\ d + 1 - 1 = d /\ d + 1 \in DOMAIN PlanOf(r)
      /\ Shaped(r, PlanOf(r))
      /\ \A j \in 1..d : Met(r, PlanOf(r)[j])
      /\ e.type \in Types =>
           /\ PlanOf(r)[d + 1].op = "write" /\ PlanOf(r)[d + 1].type = e.type
           /\ PlanOf(r)[d + 1].about = e.about
      /\ e.type \notin Types =>
           e.type = "bind" /\ PlanOf(r)[d + 1].op = "bind"
  <2>1. After(t, e, r, m, d)
    BY <1>1, RecordsAfter
  <2> QED  BY <2>1 DEF After
<1>6. ASSUME NEW i \in DOMAIN log
      PROVE  DecisionAfterReview(i)' /\ BindAfterApproval(i)'
  <2>1. DecisionAfterReview(i) /\ BindAfterApproval(i)
    BY DEF IInv, GatesKeepOrder
  <2>2. log'[i] = log[i]
    BY <1>3
  <2>3. DecisionAfterReview(i)'
    <3> SUFFICES ASSUME log[i].type = "ceo_proposal_decision",
                        log[i].by \in {"ceo", "cwo"}
                 PROVE  \E p \in Projects : \E j \in Before(i, p, "cso_review")' :
                          log'[j].about = log'[i].about
      BY <2>2 DEF DecisionAfterReview
    <3>1. PICK p \in Projects : \E j \in Before(i, p, "cso_review") :
            log[j].about = log[i].about
      BY <2>1 DEF DecisionAfterReview
    <3>2. PICK j \in Before(i, p, "cso_review") :
            log[j].about = log[i].about
      BY <3>1
    <3>3. log'[j] = log[j] /\ j \in Before(i, p, "cso_review")'
      BY <3>2, <1>3, <1>4
    <3> QED  BY <3>1, <3>2, <3>3, <2>2
  <2>4. BindAfterApproval(i)'
    <3> SUFFICES ASSUME log[i].type = "bind", NEW p, p = log[i].project
                 PROVE  /\ Before(i, p, "cso_review")' # {}
                        /\ Before(i, p, "completion_report")' # {}
                        /\ \E j \in Before(i, p, "ceo_proposal_decision")' :
                             log'[j].says = "approved"
      BY <2>2 DEF BindAfterApproval
    <3>1. /\ Before(i, p, "cso_review") # {}
          /\ Before(i, p, "completion_report") # {}
          /\ \E j \in Before(i, p, "ceo_proposal_decision") :
               log[j].says = "approved"
      BY <2>1 DEF BindAfterApproval
    <3>2. PICK j \in Before(i, p, "ceo_proposal_decision") :
            log[j].says = "approved"
      BY <3>1
    <3>3. log'[j].says = "approved"
            /\ j \in Before(i, p, "ceo_proposal_decision")'
      BY <3>2, <1>3, <1>4
    <3> QED  BY <3>1, <3>3, <1>3
  <2> QED  BY <2>3, <2>4
<1>7. DecisionAfterReview(n + 1)'
  <2> SUFFICES ASSUME e.type = "ceo_proposal_decision",
                      r.kind \in {"ceo", "cwo"}
               PROVE  \E p \in Projects :
                        \E j \in Before(n + 1, p, "cso_review")' :
                          log'[j].about = e.about
    BY <1>2, <1>3 DEF DecisionAfterReview
  <2>1. e.type \in Types
    BY TypesAre DEF GovernanceEvents
  <2>2. e.about = r.about /\ \E j \in 1..d : PlanOf(r)[j].op = "GATE-005"
    BY <2>1, <1>5 DEF Shaped, Deciding, Decision
  <2>3. PICK j \in DOMAIN log : log[j].type = "cso_review"
                                /\ log[j].about = r.about
    BY <2>2, <1>5 DEF Met
  <2>4. PICK p : p = log[j].project
    OBVIOUS
  <2>5. p \in Projects /\ j \in Places(log, p, "cso_review")
    <3>1. log[j] \in LogEntry
      BY <2>3, <1>2
    <3> QED  BY <3>1, <2>3, <2>4 DEF LogEntry, Places
  <2> QED  BY <2>2, <2>3, <2>5, <1>3
<1>8. BindAfterApproval(n + 1)'
  <2> SUFFICES ASSUME e.type = "bind", NEW p, p = r.project
               PROVE  /\ Before(n + 1, p, "cso_review")' # {}
                      /\ Before(n + 1, p, "completion_report")' # {}
                      /\ \E j \in Before(n + 1, p, "ceo_proposal_decision")' :
                           log'[j].says = "approved"
    BY <1>2, <1>3 DEF BindAfterApproval
  <2>1. e.type \notin Types
    BY RecordConstants
  <2>2. \A test \in {"completion_report", "cso_review", "ceo_approval"} :
          \E j \in 1..d : IsTest(PlanOf(r)[j], test)
    BY <2>1, <1>5 DEF Shaped, Binding
  <2>3. PICK j \in DOMAIN log : log[j].project = p
                                /\ log[j].type = "cso_review"
    <3>1. PICK k \in 1..d : IsTest(PlanOf(r)[k], "cso_review")
      BY <2>2
    <3> QED  BY <3>1, <1>5 DEF Met, IsTest
  <2>4. PICK k \in DOMAIN log : log[k].project = p
                                /\ log[k].type = "completion_report"
    <3>1. PICK k \in 1..d : IsTest(PlanOf(r)[k], "completion_report")
      BY <2>2
    <3> QED  BY <3>1, <1>5 DEF Met, IsTest
  <2>5. PICK l \in DOMAIN log : /\ log[l].project = p
                                /\ log[l].type = "ceo_proposal_decision"
                                /\ log[l].says = "approved"
    <3>1. PICK k1 \in 1..d : IsTest(PlanOf(r)[k1], "ceo_approval")
      BY <2>2
    <3> QED  BY <3>1, <1>5 DEF Met, IsTest, Decision
  <2>6. /\ j \in Places(log, p, "cso_review")
        /\ k \in Places(log, p, "completion_report")
        /\ l \in Places(log, p, "ceo_proposal_decision")
    BY <2>3, <2>4, <2>5 DEF Places
  <2> QED  BY <2>5, <2>6, <1>3
<1> QED  BY <1>3, <1>6, <1>7, <1>8 DEF GatesKeepOrder

\* The origin of a co-approval.
LEMMA RecordsOrigin ==
  ASSUME IInv, NEW t \in Threads, NEW e, Records(t, e)
  PROVE  CoapprovalHasAnOrigin'
<1> DEFINE First == {"cwo_initialization", "tool", "pm_mutation"}
<1>1. PICK n, r, m, d : /\ n = Len(log) /\ r = Req(t) /\ m = mind[t]
                        /\ d = Len(PlanOf(r)) - Len(plan[t])
  OBVIOUS
<1>2. /\ log \in Seq(LogEntry) /\ e \in LogEntry /\ log' = Append(log, e)
      /\ e.by = r.kind /\ e.project = r.project
  BY <1>1 DEF IInv, TypeOK, Records
<1>3. /\ n \in Nat /\ log'[n + 1] = e
      /\ \A i \in DOMAIN log : i \in DOMAIN log' /\ log'[i] = log[i]
      /\ \A i \in DOMAIN log' : i \in DOMAIN log \/ i = n + 1
      /\ \A i \in DOMAIN log : \A p, ty :
           Before(i, p, ty)' = Before(i, p, ty)
      /\ \A p, ty : Before(n + 1, p, ty)' = Places(log, p, ty)
      /\ DOMAIN log = 1..n
  BY <1>1, <1>2, LogHas
<1>4. \A i \in DOMAIN log : \A p, ty : \A j \in Before(i, p, ty) :
        j \in Places(log, p, ty)
  BY <1>3 DEF Before, Places
<1>5. /\ r \in Request /\ d \in Nat /\ d + 1 - 1 = d
      /\ d + 1 \in DOMAIN PlanOf(r) /\ Shaped(r, PlanOf(r))
      /\ \A j \in 1..d : Met(r, PlanOf(r)[j])
      /\ e.type \in Types =>
           PlanOf(r)[d + 1].op = "write" /\ PlanOf(r)[d + 1].about = e.about
      /\ e.type \notin Types => PlanOf(r)[d + 1].op = "bind"
  <2>1. After(t, e, r, m, d)
    BY <1>1, RecordsAfter
  <2> QED  BY <2>1 DEF After
<1>6. ASSUME NEW i \in DOMAIN log, log[i].by \in Coapprovals
      PROVE  \E j \in Places(log, log[i].project, "cwo_coapproval")
                      \union Places(log, log[i].project, "ceo_coapproval") :
               log[j].about = log[i].about /\ log[j].by \in First
  <2>1. PICK j \in Before(i, log[i].project, "cwo_coapproval")
                     \union Before(i, log[i].project, "ceo_coapproval") :
          log[j].about = log[i].about /\ log[j].by \in First
    BY <1>6 DEF IInv, CoapprovalHasAnOrigin
  <2> QED  BY <2>1, <1>4
<1>7. ASSUME NEW i \in DOMAIN log, log'[i].by \in Coapprovals
      PROVE  \E j \in Before(i, log[i].project, "cwo_coapproval")'
                      \union Before(i, log[i].project, "ceo_coapproval")' :
               log'[j].about = log'[i].about /\ log'[j].by \in First
  <2>1. log'[i] = log[i]
    BY <1>3
  <2>2. PICK j \in Before(i, log[i].project, "cwo_coapproval")
                     \union Before(i, log[i].project, "ceo_coapproval") :
          log[j].about = log[i].about /\ log[j].by \in First
    BY <1>7, <2>1 DEF IInv, CoapprovalHasAnOrigin
  <2>3. j \in DOMAIN log
    BY <2>2, <1>4 DEF Places
  <2>4. /\ Before(i, log[i].project, "cwo_coapproval")' =
             Before(i, log[i].project, "cwo_coapproval")
        /\ Before(i, log[i].project, "ceo_coapproval")' =
             Before(i, log[i].project, "ceo_coapproval")
    <3>1. PICK p : p = log[i].project
      OBVIOUS
    <3>2. p = log'[i].project
      BY <3>1, <2>1
    <3> QED  BY <3>1, <3>2, <1>3
  <2> QED  BY <2>1, <2>2, <2>3, <2>4, <1>3
<1>8. ASSUME e.by \in Coapprovals
      PROVE  \E j \in Before(n + 1, e.project, "cwo_coapproval")'
                      \union Before(n + 1, e.project, "ceo_coapproval")' :
               log'[j].about = e.about /\ log'[j].by \in First
  <2>1. r.kind \in Coapprovals
    BY <1>2, <1>8
  <2>2. e.type \in Types
    BY <2>1, <1>5, AgreementsBindNothing
  <2>3. /\ e.about = r.about
        /\ \E j \in 1..d : PlanOf(r)[j].op = "test"
                           /\ PlanOf(r)[j].test \in Coapprovals
    BY <2>1, <2>2, <1>5 DEF Shaped, Agreeing
  <2>4. PICK i \in DOMAIN log : /\ log[i].project = r.project
                                /\ log[i].type \in Coapprovals
                                /\ log[i].about = r.about
    BY <2>3, <1>5 DEF Met
  <2>5. PICK j \in Places(log, r.project, "cwo_coapproval")
                     \union Places(log, r.project, "ceo_coapproval") :
          log[j].about = r.about /\ log[j].by \in First
    <3>1. CASE log[i].by \in Coapprovals
      BY <3>1, <2>4, <1>6
    <3>2. CASE log[i].by \in First
      <4>1. i \in Places(log, r.project, "cwo_coapproval")
                    \union Places(log, r.project, "ceo_coapproval")
        BY <2>4 DEF Places, Coapprovals
      <4> QED  BY <4>1, <3>2, <2>4
    <3> QED  BY <3>1, <3>2, <2>4 DEF IInv, Agreed
  <2>6. j \in DOMAIN log
    BY <2>5 DEF Places
  <2> QED  BY <2>3, <2>5, <2>6, <1>2, <1>3
<1> QED  BY <1>3, <1>7, <1>8 DEF CoapprovalHasAnOrigin

\* The cycles of a proposal in conflict.
LEMMA RecordsCycles ==
  ASSUME IInv, NEW t \in Threads, NEW e, Records(t, e)
  PROVE  ConflictEndsAfterThree'
<1>1. PICK n, r, m, d : /\ n = Len(log) /\ r = Req(t) /\ m = mind[t]
                        /\ d = Len(PlanOf(r)) - Len(plan[t])
  OBVIOUS
<1>2. /\ log \in Seq(LogEntry) /\ e \in LogEntry /\ log' = Append(log, e)
      /\ e.by = r.kind /\ e.from = m.from /\ e.outcome = m.outcome
      /\ e.override = r.override /\ (Overwritten => Overwritten')
  BY <1>1 DEF IInv, TypeOK, Records
<1>3. /\ n \in Nat /\ log'[n + 1] = e /\ DOMAIN log = 1..n
      /\ \A i \in DOMAIN log : i \in DOMAIN log' /\ log'[i] = log[i]
      /\ \A i \in DOMAIN log' : i \in DOMAIN log \/ i = n + 1
  BY <1>1, <1>2, LogHas
<1>4. After(t, e, r, m, d)
  BY <1>1, RecordsAfter
<1>5. ASSUME NEW i \in DOMAIN log, log[i].type = "ceo_proposal_decision",
             log[i].by \in {"ceo", "cwo"}, log[i].outcome = Conflict,
             ~log[i].override
      PROVE  Cycles(i)' < 3 \/ Overwritten'
  <2>1. Cycles(i) < 3 \/ Overwritten
    BY <1>5 DEF IInv, ConflictEndsAfterThree
  <2>2. log[i].from \in Nat /\ log[i].from <= n
    <3>1. log[i] \in LogEntry
      BY <1>2
    <3> QED  BY <3>1, <1>1, <1>5 DEF IInv, Dated, LogEntry
  <2>3. \A j \in 1..log[i].from : log'[j] = log[j]
    BY <2>2, <1>3
  <2>4. log'[i] = log[i]
    BY <1>3
  <2>5. Cycles(i)' = Cycles(i)
    BY <2>3, <2>4 DEF Cycles
  <2> QED  BY <2>1, <2>5, <1>2
<1>6. ASSUME e.type = "ceo_proposal_decision", e.by \in {"ceo", "cwo"},
             e.outcome = Conflict, ~e.override
      PROVE  Cycles(n + 1)' < 3 \/ Overwritten'
  <2>1. e.type \in Types
    BY <1>6, TypesAre DEF GovernanceEvents
  <2>2. e.about = r.about /\ \E j \in 1..d : PlanOf(r)[j].op = "GATE-003"
    BY <2>1, <1>2, <1>4, <1>6 DEF After, Shaped, Deciding, Decision
  <2>3. \/ Overwritten
        \/ Cardinality(Conflicts(r.about, m.from)
                         \union Revisions(r.about, m.from)) < 3
    BY <2>2, <1>2, <1>4, <1>6 DEF After, Judged
  <2>4. m.from \in Nat /\ m.from <= n
    BY <1>1, <1>4 DEF After, Proper, Mind
  <2>5. \A j \in 1..m.from : log'[j] = log[j]
    BY <2>4, <1>3
  <2>6. Cycles(n + 1)' = Cardinality(Conflicts(r.about, m.from)
                                       \union Revisions(r.about, m.from))
    <3>1. PICK S : S = {j \in 1..m.from :
            /\ log[j].about = r.about
            /\ \/ log[j].type = "cso_review" /\ log[j].says = Conflict
               \/ /\ log[j].type = "ceo_proposal_decision"
                  /\ log[j].says = "needs_revision"}
      OBVIOUS
    <3>2. S = Conflicts(r.about, m.from) \union Revisions(r.about, m.from)
      BY <3>1 DEF Conflicts, Revisions, Decision
    <3>3. Cycles(n + 1)' = Cardinality(S)
      <4>1. PICK T : T = {j \in 1..e.from :
              /\ log'[j].about = e.about
              /\ \/ log'[j].type = "cso_review" /\ log'[j].says = Conflict
                 \/ /\ log'[j].type = "ceo_proposal_decision"
                    /\ log'[j].says = "needs_revision"}
        OBVIOUS
      <4>2. T = S
        BY <4>1, <3>1, <2>2, <2>5, <1>2
      <4>3. Cycles(n + 1)' = Cardinality(T)
        BY <4>1, <1>3 DEF Cycles
      <4> QED  BY <4>2, <4>3
    <3> QED  BY <3>2, <3>3
  <2> QED  BY <2>3, <2>6, <1>2
<1> QED  BY <1>3, <1>5, <1>6 DEF ConflictEndsAfterThree

\* All of it, with the table in order.
LEMMA RecordsKeep ==
  ASSUME IInv, NEW t \in Threads, NEW e, Records(t, e), OthersOK', Within',
         TableIsLogged'
  PROVE  IInv'
<1>1. TypeOK'
  <2>1. ThreadsOK
    BY TypesSplit DEF IInv
  <2>2. plan[t] \in Seq(Steps) /\ plan[t] # <<>> /\ mind[t].on
    BY <2>1 DEF ThreadsOK, Records
  <2>3. Tail(plan[t]) \in Seq(Steps)
    BY <2>2
  <2>4. ThreadsOK'
    BY <2>1, <2>2, <2>3 DEF ThreadsOK, Records, Continue
  <2> QED  BY <2>4, TypesSplitNext
<1> QED  BY <1>1, RecordsOnPlan, RecordsNumbered, RecordsAgreed, RecordsGated,
            RecordsOrigin, RecordsCycles DEF IInv

\* A finite log has finitely many places.
LEMMA IntervalFinite ==
  \A n \in Nat : IsFiniteSet(1..n)
  BY FS_Interval

\* The table after a row was inserted.
LEMMA TableGrows ==
  ASSUME IInv, NEW p \in Projects, NEW ty \in Types, NEW rev \in Nat,
         1 <= rev, rev <= Len(rows[p][ty]) + 1,
         ty \in AppendOnly => rev <= allowed_type_caps[ty],
         NEW e \in LogEntry, log' = Append(log, e), e.project = p,
         e.type = ty, DocOf(e) \in Document,
         rows' = [rows EXCEPT ![p][ty] = Upsert(@, rev, DocOf(e))]
  PROVE  /\ rows' \in [Projects -> [Types -> Seq(Document)]]
         /\ Within' /\ TableIsLogged' /\ (Overwritten => Overwritten')
         /\ \A q \in Projects, tz \in Types :
              /\ rows'[q][tz] \in Seq(Document)
              /\ Len(rows[q][tz]) <= Len(rows'[q][tz])
<1>1. PICK n, x, old, new :
        /\ n = Len(log) /\ x = DocOf(e) /\ old = rows[p][ty]
        /\ new = Upsert(old, rev, x)
  OBVIOUS
<1>2. /\ rows \in [Projects -> [Types -> Seq(Document)]]
      /\ log \in Seq(LogEntry)
  BY DEF IInv, TypeOK
<1>3. old \in Seq(Document) /\ Len(old) \in Nat /\ x \in Document
  BY <1>1, <1>2
<1>4. /\ new \in Seq(Document) /\ ToSet(new) \subseteq ToSet(old) \union {x}
      /\ x \in ToSet(new)
      /\ \/ Len(new) = Len(old) /\ rev \in DOMAIN old
         \/ /\ Len(new) = Len(old) + 1 /\ rev \notin DOMAIN old
            /\ ToSet(old) \subseteq ToSet(new)
  <2>1. PICK u : u = Upsert(old, rev, x)
    OBVIOUS
  <2>2. /\ u \in Seq(Document) /\ ToSet(u) \subseteq ToSet(old) \union {x}
        /\ x \in ToSet(u)
        /\ \/ rev \in DOMAIN old /\ Len(u) = Len(old)
           \/ /\ rev \notin DOMAIN old /\ Len(u) = Len(old) + 1
              /\ ToSet(old) \subseteq ToSet(u)
    <3>1. /\ u \in Seq(Document) /\ ToSet(u) \subseteq ToSet(old) \union {x}
          /\ x \in ToSet(u)
      BY <2>1, <1>3, UpsertIs
    <3>2. \/ rev \in DOMAIN old /\ Len(u) = Len(old)
          \/ /\ rev \notin DOMAIN old /\ Len(u) = Len(old) + 1
             /\ ToSet(old) \subseteq ToSet(u)
      BY <2>1, <1>3, UpsertIs
    <3> QED  BY <3>1, <3>2
  <2> QED  BY <2>1, <2>2, <1>1
<1>5. rows' = [rows EXCEPT ![p][ty] = new]
  BY <1>1
<1>6. /\ rows' \in [Projects -> [Types -> Seq(Document)]]
      /\ rows'[p][ty] = new
      /\ \A q \in Projects, tz \in Types :
           q # p \/ tz # ty => rows'[q][tz] = rows[q][tz]
  BY <1>2, <1>4, <1>5
<1>7. Len(new) \in Nat /\ Len(old) <= Len(new) /\ Len(new) <= Len(old) + 1
  BY <1>3, <1>4
<1>8. /\ n \in Nat /\ log'[n + 1] = e
      /\ DOMAIN log = 1..n /\ DOMAIN log' = 1..(n + 1)
      /\ \A i \in DOMAIN log : i \in DOMAIN log' /\ log'[i] = log[i]
      /\ \A i \in DOMAIN log' : i \in DOMAIN log \/ i = n + 1
      /\ n + 1 \in DOMAIN log'
  BY <1>1, <1>2, LogHas
<1>9. ASSUME NEW q \in Projects, NEW tz \in Types, q # p \/ tz # ty
      PROVE  Places(log', q, tz) = Places(log, q, tz)
  BY <1>8, <1>9 DEF Places
<1>10. PICK S, T : S = Places(log, p, ty) /\ T = Places(log', p, ty)
  OBVIOUS
<1>11. T = S \union {n + 1} /\ n + 1 \notin S /\ S \subseteq 1..n
  BY <1>8, <1>10 DEF Places
<1>12. /\ IsFiniteSet(S) /\ Cardinality(S) \in Nat
       /\ Cardinality(T) = Cardinality(S) + 1
  <2>1. IsFiniteSet(1..n)
    BY <1>8, IntervalFinite
  <2>2. IsFiniteSet(S)
    BY <2>1, <1>11, FS_Subset
  <2> QED  BY <2>2, <1>11, FS_AddElement, FS_CardinalityType
<1>13. /\ ToSet(old) \subseteq {DocOf(log[j]) : j \in S}
       /\ Len(old) <= Cardinality(S)
       /\ \/ Len(old) < Cardinality(S)
          \/ \A j \in S : DocOf(log[j]) \in ToSet(old)
  BY <1>1, <1>10 DEF IInv, TableIsLogged
<1>14. \A j \in S : log'[j] = log[j]
  BY <1>8, <1>11
<1>15. Within'
  <2> SUFFICES ASSUME NEW q \in Projects, NEW tz \in AppendOnly
               PROVE  Len(rows'[q][tz]) <= allowed_type_caps[tz]
    BY DEF Within
  <2>1. /\ tz \in Types /\ allowed_type_caps[tz] \in Nat
        /\ Len(rows[q][tz]) <= allowed_type_caps[tz]
    BY TypesAre, RecordConstants DEF IInv, Within
  <2>2. CASE q # p \/ tz # ty
    BY <2>1, <2>2, <1>6
  <2>3. CASE q = p /\ tz = ty
    <3>1. Len(old) <= allowed_type_caps[tz] /\ rev <= allowed_type_caps[tz]
      BY <2>1, <2>3, <1>1
    <3>2. Len(new) = Len(old) \/ Len(new) = rev
      <4>1. DOMAIN old = 1..Len(old)
        BY <1>3
      <4>2. rev \notin DOMAIN old => rev = Len(old) + 1
        BY <4>1, <1>1, <1>3
      <4> QED  BY <4>2, <1>4
    <3> QED  BY <3>1, <3>2, <2>3, <1>6
  <2> QED  BY <2>2, <2>3
<1>16. TableIsLogged'
  <2>1. ASSUME NEW q \in Projects, NEW tz \in Types
        PROVE  LET P == Places(log', q, tz)
               IN  /\ ToSet(rows'[q][tz]) \subseteq {DocOf(log'[j]) : j \in P}
                   /\ Len(rows'[q][tz]) <= Cardinality(P)
                   /\ \/ Len(rows'[q][tz]) < Cardinality(P)
                      \/ \A j \in P : DocOf(log'[j]) \in ToSet(rows'[q][tz])
    <3>1. CASE q # p \/ tz # ty
      <4>1. PICK P : P = Places(log, q, tz)
        OBVIOUS
      <4>2. P = Places(log', q, tz) /\ \A j \in P : log'[j] = log[j]
        BY <4>1, <3>1, <1>8, <1>9 DEF Places
      <4>3. /\ ToSet(rows[q][tz]) \subseteq {DocOf(log[j]) : j \in P}
            /\ Len(rows[q][tz]) <= Cardinality(P)
            /\ \/ Len(rows[q][tz]) < Cardinality(P)
               \/ \A j \in P : DocOf(log[j]) \in ToSet(rows[q][tz])
        BY <4>1 DEF IInv, TableIsLogged
      <4>4. rows'[q][tz] = rows[q][tz]
        BY <3>1, <1>6
      <4>5. {DocOf(log'[j]) : j \in P} = {DocOf(log[j]) : j \in P}
        BY <4>2
      <4> QED  BY <4>2, <4>3, <4>4, <4>5
    <3>2. CASE q = p /\ tz = ty
      <4>1. ToSet(new) \subseteq {DocOf(log'[j]) : j \in T}
        <5> SUFFICES ASSUME NEW y \in ToSet(new)
                     PROVE  \E j \in T : y = DocOf(log'[j])
          OBVIOUS
        <5>1. CASE y = x
          BY <5>1, <1>1, <1>8, <1>11
        <5>2. CASE y \in ToSet(old)
          BY <5>2, <1>11, <1>13, <1>14
        <5> QED  BY <5>1, <5>2, <1>4
      <4>2. Len(new) <= Cardinality(T)
        BY <1>3, <1>7, <1>12, <1>13
      <4>3. \/ Len(new) < Cardinality(T)
            \/ \A j \in T : DocOf(log'[j]) \in ToSet(new)
        <5>1. CASE Len(new) = Len(old)
          BY <5>1, <1>3, <1>12, <1>13
        <5>2. CASE Len(old) < Cardinality(S)
          BY <5>2, <1>3, <1>7, <1>12
        <5>3. CASE /\ ToSet(old) \subseteq ToSet(new)
                   /\ \A j \in S : DocOf(log[j]) \in ToSet(old)
          BY <5>3, <1>1, <1>4, <1>8, <1>11, <1>14
        <5> QED  BY <5>1, <5>2, <5>3, <1>4, <1>13
      <4> QED  BY <4>1, <4>2, <4>3, <3>2, <1>6, <1>10
    <3> QED  BY <3>1, <3>2
  <2> QED  BY <2>1 DEF TableIsLogged
<1>17. ASSUME Overwritten
       PROVE  Overwritten'
  <2>1. PICK q \in Projects, tz \in Types :
          Len(rows[q][tz]) < Cardinality(Places(log, q, tz))
    BY <1>17 DEF Overwritten
  <2>2. Len(rows'[q][tz]) < Cardinality(Places(log', q, tz))
    <3>1. CASE q # p \/ tz # ty
      BY <2>1, <3>1, <1>6, <1>9
    <3>2. CASE q = p /\ tz = ty
      <4>1. Len(old) < Cardinality(S)
        BY <2>1, <3>2, <1>1, <1>10
      <4>2. Len(new) < Cardinality(T)
        BY <4>1, <1>3, <1>7, <1>12
      <4> QED  BY <4>2, <3>2, <1>6, <1>10
    <3> QED  BY <3>1, <3>2
  <2> QED  BY <2>2 DEF Overwritten
<1>18. ASSUME NEW q \in Projects, NEW tz \in Types
       PROVE  /\ rows'[q][tz] \in Seq(Document)
              /\ Len(rows[q][tz]) <= Len(rows'[q][tz])
  <2>1. rows'[q][tz] \in Seq(Document) /\ rows[q][tz] \in Seq(Document)
    BY <1>2, <1>6
  <2>2. CASE q # p \/ tz # ty
    BY <2>1, <2>2, <1>6
  <2>3. CASE q = p /\ tz = ty
    BY <2>1, <2>3, <1>1, <1>6, <1>7
  <2> QED  BY <2>1, <2>2, <2>3
<1> QED  BY <1>6, <1>15, <1>16, <1>17, <1>18

\* The last step of a write.
LEMMA InsertRowKeeps ==
  ASSUME IInv, NEW t \in Threads, InsertRow(t)
  PROVE  IInv'
<1>1. PICK r, m, w, x, e, p, ty :
        /\ r = Req(t) /\ m = mind[t] /\ w = Step(t) /\ x = DocBy(t)
        /\ e = Entry(t, w.type, x) /\ p = r.project /\ ty = w.type
  OBVIOUS
<1>2. /\ mind[t].on /\ plan[t] # <<>> /\ Step(t).op = "row"
      /\ rows' = [rows EXCEPT ![p][ty] = Upsert(@, m.rev, x)]
      /\ effects' = IF r.kind = "tool"
                    THEN [effects EXCEPT ![r.key].rows = @ + 1] ELSE effects
      /\ log' = Append(log, e) /\ Continue(t)
      /\ inbox' = inbox /\ mind' = mind /\ files' = files
      /\ status' = status /\ bound' = bound
      /\ workforce' = workforce /\ blocked' = blocked /\ memo' = memo
  BY <1>1 DEF InsertRow, Runs, others
<1>3. /\ TypeOK /\ r \in Request /\ m \in Mind /\ w = plan[t][1]
  <2>1. PICK d : d = Len(PlanOf(r)) - Len(plan[t])
    OBVIOUS
  <2>2. mind[t].on /\ plan[t] # <<>>
    BY <1>2
  <2> HIDE <1>2
  <2> QED  BY <1>1, <2>1, <2>2, AtStep
<1>4. Counting(r, plan[t], m)
  BY <1>1, <1>2 DEF IInv, OnPlan
<1>5. /\ ty \in Types /\ p \in Projects /\ m.rev \in Nat
      /\ 1 <= m.rev /\ m.rev <= Len(rows[p][ty]) + 1
      /\ ty \in AppendOnly => m.rev <= allowed_type_caps[ty]
  BY <1>1, <1>2, <1>3, <1>4 DEF Counting, Mind
<1>6. /\ x \in Document /\ x.about = w.about /\ x.says = w.says
      /\ x.by = r.kind /\ x.n = <<t, Len(inbox[t])>>
  BY <1>1, <1>2, DocByIs DEF Writing
<1>7. /\ e \in LogEntry /\ e.project = p /\ e.type = ty
      /\ e.about = x.about /\ e.says = x.says /\ e.by = x.by /\ e.n = x.n
      /\ e.from = m.from /\ e.outcome = m.outcome
      /\ e.override = r.override
  <2>1. PICK open : open = (m.seen \intersect ProjectWritable # {})
    OBVIOUS
  <2>2. e = [project |-> p, type |-> ty, about |-> x.about, says |-> x.says,
             by |-> x.by, n |-> x.n, from |-> m.from, outcome |-> m.outcome,
             override |-> r.override, open |-> open]
    BY <2>1, <1>1 DEF Entry
  <2>3. /\ m.from \in Nat /\ m.outcome \in Words /\ r.override \in BOOLEAN
        /\ open \in BOOLEAN
    BY <2>1, <1>3 DEF Mind, Request, RequestFields
  <2> QED  BY <2>2, <2>3, <1>5, <1>6 DEF LogEntry, Document
<1>8. DocOf(e) = x
  <2>1. x = [about |-> x.about, says |-> x.says, by |-> x.by, n |-> x.n]
    BY <1>6 DEF Document
  <2> QED  BY <2>1, <1>7 DEF DocOf, Doc
<1>9. /\ rows' \in [Projects -> [Types -> Seq(Document)]]
      /\ Within' /\ TableIsLogged' /\ (Overwritten => Overwritten')
      /\ \A q \in Projects, tz \in Types :
           /\ rows'[q][tz] \in Seq(Document)
           /\ Len(rows[q][tz]) <= Len(rows'[q][tz])
  <2>1. PICK rev : rev = m.rev
    OBVIOUS
  <2>2. /\ rows' = [rows EXCEPT ![p][ty] = Upsert(@, rev, DocOf(e))]
        /\ log' = Append(log, e) /\ DocOf(e) \in Document
        /\ rev \in Nat /\ 1 <= rev /\ rev <= Len(rows[p][ty]) + 1
        /\ ty \in AppendOnly => rev <= allowed_type_caps[ty]
    BY <2>1, <1>2, <1>5, <1>6, <1>8
  <2> HIDE <1>2
  <2> QED  BY <2>2, <1>5, <1>7, TableGrows
<1>10. Records(t, e)
  BY <1>1, <1>2, <1>5, <1>6, <1>7, <1>9 DEF Records
<1>11. OthersOK'
  <2>1. effects' \in [Keys -> [rows : Nat, upset : BOOLEAN]]
    <3>1. effects \in [Keys -> [rows : Nat, upset : BOOLEAN]]
      BY <1>3 DEF TypeOK
    <3>2. [effects EXCEPT ![r.key].rows = @ + 1]
            \in [Keys -> [rows : Nat, upset : BOOLEAN]]
      BY <1>3, EffectsTyped
    <3> QED  BY <3>1, <3>2, <1>2
  <2>2. log' \in Seq(LogEntry)
    BY <1>2, <1>3, <1>7 DEF TypeOK
  <2> QED  BY <2>1, <2>2, <1>2, <1>3, <1>9 DEF TypeOK, OthersOK
<1> QED  BY <1>9, <1>10, <1>11, RecordsKeep

\* The binding of a workforce.
LEMMA BindKeeps ==
  ASSUME IInv, NEW t \in Threads, BindWorkforce(t)
  PROVE  IInv'
<1>1. PICK r, m, x, e, p, d :
        /\ r = Req(t) /\ m = mind[t] /\ p = r.project
        /\ x = Doc(r.about, "bound", r.kind, <<t, Len(inbox[t])>>)
        /\ e = Entry(t, "bind", x) /\ d = Len(PlanOf(r)) - Len(plan[t])
  OBVIOUS
<1>2. /\ mind[t].on /\ plan[t] # <<>> /\ Step(t).op = "bind"
      /\ workforce' = [workforce EXCEPT ![p] = "active"]
      /\ log' = Append(log, e) /\ Continue(t)
      /\ inbox' = inbox /\ mind' = mind /\ rows' = rows /\ files' = files
      /\ status' = status /\ bound' = bound
      /\ blocked' = blocked /\ memo' = memo /\ effects' = effects
  BY <1>1 DEF BindWorkforce, Runs, stores, others
<1>3. /\ TypeOK /\ r \in Request /\ m \in Mind
      /\ Step(t) = PlanOf(r)[d + 1]
  <2>1. mind[t].on /\ plan[t] # <<>> /\ Step(t).op \notin {"file", "row"}
    BY <1>2
  <2> HIDE <1>2
  <2> QED  BY <1>1, <2>1, AtStep
<1>4. p \in Projects
  <2>1. mind[t].on /\ plan[t] # <<>> /\ NeedsProject(PlanOf(r)[d + 1])
    BY <1>2, <1>3 DEF NeedsProject
  <2> HIDE <1>2
  <2> QED  BY <1>1, <2>1, InScope
<1>5. /\ x.about = r.about /\ x.says = "bound" /\ x.by = r.kind
      /\ x.n = <<t, Len(inbox[t])>>
  BY <1>1 DEF Doc
<1>6. /\ r.about \in Topics /\ r.kind \in Kinds /\ "bound" \in Words
      /\ r.override \in BOOLEAN /\ <<t, Len(inbox[t])>> \in Numbers
      /\ m.from \in Nat /\ m.outcome \in Words
  <2>1. Len(inbox[t]) \in Nat
    BY <1>2, <1>3, Running
  <2>2. r.about \in Topics /\ r.kind \in Kinds /\ r.override \in BOOLEAN
    BY <1>3 DEF Request, RequestFields
  <2>3. m.from \in Nat /\ m.outcome \in Words
    BY <1>3 DEF Mind
  <2>4. "bound" \in Words
    BY DEF Words
  <2> QED  BY <2>1, <2>2, <2>3, <2>4 DEF Numbers
<1>7. /\ e \in LogEntry /\ e.project = p /\ e.type = "bind"
      /\ e.by = r.kind /\ e.n = <<t, Len(inbox[t])>>
      /\ e.from = m.from /\ e.outcome = m.outcome
      /\ e.override = r.override
  <2>1. PICK open : open = (m.seen \intersect ProjectWritable # {})
    OBVIOUS
  <2>2. e = [project |-> p, type |-> "bind", about |-> x.about,
             says |-> x.says, by |-> x.by, n |-> x.n, from |-> m.from,
             outcome |-> m.outcome, override |-> r.override, open |-> open]
    BY <2>1, <1>1 DEF Entry
  <2>3. open \in BOOLEAN
    BY <2>1
  <2> QED  BY <2>2, <2>3, <1>4, <1>5, <1>6 DEF LogEntry
<1>8. /\ log \in Seq(LogEntry)
      /\ \A q \in Projects, tz \in Types :
           /\ Places(log', q, tz) = Places(log, q, tz)
           /\ \A j \in Places(log, q, tz) : log'[j] = log[j]
  <2>1. log \in Seq(LogEntry)
    BY <1>3 DEF TypeOK
  <2>2. PICK n : n = Len(log)
    OBVIOUS
  <2>3. /\ log'[n + 1] = e
        /\ \A i \in DOMAIN log : i \in DOMAIN log' /\ log'[i] = log[i]
        /\ \A i \in DOMAIN log' : i \in DOMAIN log \/ i = n + 1
    BY <2>1, <2>2, <1>2, <1>7, LogHas
  <2>4. "bind" \notin Types
    BY RecordConstants
  <2> QED  BY <2>1, <2>3, <2>4, <1>7 DEF Places
<1>9. Within' /\ TableIsLogged' /\ (Overwritten => Overwritten')
  <2>1. Within'
    BY <1>2 DEF IInv, Within
  <2>2. Overwritten => Overwritten'
    BY <1>2, <1>8 DEF Overwritten
  <2>3. ASSUME NEW q \in Projects, NEW tz \in Types
        PROVE  LET P == Places(log', q, tz)
               IN  /\ ToSet(rows'[q][tz]) \subseteq {DocOf(log'[j]) : j \in P}
                   /\ Len(rows'[q][tz]) <= Cardinality(P)
                   /\ \/ Len(rows'[q][tz]) < Cardinality(P)
                      \/ \A j \in P : DocOf(log'[j]) \in ToSet(rows'[q][tz])
    <3>1. PICK P : P = Places(log, q, tz)
      OBVIOUS
    <3>2. P = Places(log', q, tz) /\ \A j \in P : log'[j] = log[j]
      BY <3>1, <1>8
    <3>3. /\ ToSet(rows[q][tz]) \subseteq {DocOf(log[j]) : j \in P}
          /\ Len(rows[q][tz]) <= Cardinality(P)
          /\ \/ Len(rows[q][tz]) < Cardinality(P)
             \/ \A j \in P : DocOf(log[j]) \in ToSet(rows[q][tz])
      BY <3>1 DEF IInv, TableIsLogged
    <3>4. rows'[q][tz] = rows[q][tz]
      BY <1>2
    <3>5. {DocOf(log'[j]) : j \in P} = {DocOf(log[j]) : j \in P}
      BY <3>2
    <3> QED  BY <3>2, <3>3, <3>4, <3>5
  <2> QED  BY <2>1, <2>2, <2>3 DEF TableIsLogged
<1>10. \A q \in Projects, tz \in Types :
         /\ rows'[q][tz] \in Seq(Document)
         /\ Len(rows[q][tz]) <= Len(rows'[q][tz])
  BY <1>2, <1>3 DEF TypeOK
<1>11. Records(t, e)
  BY <1>1, <1>2, <1>7, <1>9, <1>10 DEF Records
<1>12. OthersOK'
  <2>1. workforce' \in [Projects -> {"absent", "active", "inactive"}]
    BY <1>2, <1>3, <1>4 DEF TypeOK
  <2>2. log' \in Seq(LogEntry)
    BY <1>2, <1>7, <1>8
  <2> QED  BY <2>1, <2>2, <1>2, <1>3 DEF TypeOK, OthersOK
<1> QED  BY <1>9, <1>11, <1>12, RecordsKeep

-----------------------------------------------------------------------------
(* What happens around the requests.                                       *)

\* Threads move while tables and log stay.
LEMMA AroundKeeps ==
  ASSUME IInv, TypeOK', rows' = rows, log' = log,
         \A t \in Threads : OnPlan(t)', Numbered'
  PROVE  IInv'
<1>1. Within' /\ TableIsLogged' /\ Agreed' /\ Dated'
  BY DEF IInv, Within, TableIsLogged, Agreed, Dated
<1>2. GatesKeepOrder'
  BY DEF IInv, GatesKeepOrder, DecisionAfterReview, BindAfterApproval, Before
<1>3. CoapprovalHasAnOrigin'
  BY DEF IInv, CoapprovalHasAnOrigin, Before
<1>4. ConflictEndsAfterThree'
  BY DEF IInv, ConflictEndsAfterThree, Cycles, Overwritten
<1> QED  BY <1>1, <1>2, <1>3, <1>4 DEF IInv

\* A request begins.
LEMMA BeginKeeps ==
  ASSUME IInv, NEW t \in Threads, Begin(t)
  PROVE  IInv'
<1>1. PICK r, full, mm :
        /\ r = Req(t) /\ full = PlanOf(r)
        /\ mm = [Idle EXCEPT !.on = TRUE, !.outcome = r.told,
                   !.from = Len(log),
                   !.seen = IF r.project \in Projects THEN {status[r.project]}
                            ELSE {}]
  OBVIOUS
<1>2. /\ ~mind[t].on /\ inbox[t] # <<>> /\ plan' = [plan EXCEPT ![t] = full]
      /\ mind' = [mind EXCEPT ![t] = mm] /\ Reads
  BY <1>1 DEF Begin, Reads, stores, others
<1>3. /\ TypeOK /\ inbox[t] \in Seq(Request) /\ Len(log) \in Nat
      /\ plan \in [Threads -> Seq(Steps)] /\ mind \in [Threads -> Mind]
  BY DEF IInv, TypeOK
<1>4. r \in Request
  BY <1>1, <1>2, <1>3 DEF Req
<1>5. Shaped(r, full) /\ full \in Seq(Steps)
  BY <1>1, <1>4, PlansAreShaped DEF Shaped
<1>6. r.told \in Words
  BY <1>4 DEF Request, RequestFields, Words
<1>7. r.project \in Projects => status[r.project] \in ProjectStatuses
  BY <1>3 DEF TypeOK
<1>8. /\ mm \in Mind /\ mm.on /\ mm.from = Len(log)
      /\ r.project \in Projects => status[r.project] \in mm.seen
  <2>1. PICK seen : seen = IF r.project \in Projects THEN {status[r.project]}
                           ELSE {}
    OBVIOUS
  <2>2. seen \in SUBSET ProjectStatuses
    BY <2>1, <1>7
  <2>3. mm = [on |-> TRUE, outcome |-> r.told, cycles |-> 0, state |-> "none",
              keyed |-> FALSE, ok |-> TRUE, rev |-> 0, seen |-> seen,
              from |-> Len(log)]
    BY <2>1, <1>1 DEF Idle
  <2>4. "none" \in OptionalState
    BY DEF OptionalState
  <2> QED  BY <2>1, <2>2, <2>3, <2>4, <1>3, <1>6 DEF Mind
<1>9. /\ plan'[t] = full /\ mind'[t] = mm
      /\ \A u \in Threads : u # t => plan'[u] = plan[u] /\ mind'[u] = mind[u]
  BY <1>2, <1>3, <1>5
<1>10. TypeOK'
  <2>1. ThreadsOK /\ OthersOK'
    BY <1>2, <1>3, TypesSplit, ReadsOK
  <2>2. ThreadsOK'
    BY <2>1, <1>2, <1>3, <1>5, <1>8 DEF ThreadsOK, Reads
  <2> QED  BY <2>1, <2>2, TypesSplitNext
<1>11. OnPlan(t)'
  <2>1. Follows(full, full) /\ Len(full) \in Nat
    BY <1>5, FollowsEnds
  <2>2. Len(log') = Len(log) /\ status' = status /\ inbox' = inbox
    BY <1>2 DEF Reads
  <2>3. \A j \in 1..(Len(full) - Len(full)) : FALSE
    BY <2>1
  <2>4. Proper(r, full, mm)'
    BY <2>1, <2>2, <2>3, <1>1, <1>3, <1>8 DEF Proper
  <2>5. Counting(r, full, mm)'
    <3>1. full # <<>> => 1 \in DOMAIN full
      BY <1>5
    <3> QED  BY <3>1, <1>5 DEF Counting, Shaped, Skipping
  <2> QED  BY <2>2, <2>4, <2>5, <1>1, <1>9, OnPlanIs
<1>12. \A u \in Threads : Req(u)' = Req(u)
  BY <1>2 DEF Req, Reads
<1>13. \A u \in Threads : OnPlan(u)'
  <2> SUFFICES ASSUME NEW u \in Threads, u # t
               PROVE  OnPlan(u)'
    BY <1>11
  <2>1. /\ OnPlan(u) /\ plan'[u] = plan[u] /\ mind'[u] = mind[u]
        /\ rows' = rows /\ log' = log /\ status' = status
    BY <1>2, <1>9 DEF IInv, Reads
  <2> QED  BY <2>1, <1>12, OnPlanSame
<1>14. Numbered'
  <2> SUFFICES ASSUME NEW i \in DOMAIN log, NEW u \in Threads, NEW k \in Nat,
                      log[i].n = <<u, k>>
               PROVE  /\ k >= Len(inbox[u])
                      /\ mind'[u].on \/ k > Len(inbox[u])
                      /\ k = Len(inbox[u]) /\ log[i].type \in Counted =>
                           \A x \in DOMAIN plan'[u] :
                             plan'[u][x].op \in Writing =>
                               plan'[u][x].type # log[i].type
    BY <1>2 DEF IInv, Numbered, Reads
  <2>1. /\ k >= Len(inbox[u])
        /\ mind[u].on \/ k > Len(inbox[u])
        /\ k = Len(inbox[u]) /\ log[i].type \in Counted =>
             \A x \in DOMAIN plan[u] :
               plan[u][x].op \in Writing => plan[u][x].type # log[i].type
    BY DEF IInv, Numbered
  <2>2. CASE u # t
    BY <2>1, <2>2, <1>9
  <2>3. CASE u = t
    <3>1. Len(inbox[u]) \in Nat
      BY <2>3, <1>3
    <3>2. k > Len(inbox[u])
      BY <2>1, <2>3, <1>2
    <3> QED  BY <3>1, <3>2
  <2> QED  BY <2>2, <2>3
<1> QED  BY <1>2, <1>10, <1>13, <1>14, AroundKeeps DEF Reads

\* A request ends.
LEMMA FinishKeeps ==
  ASSUME IInv, NEW t \in Threads, Finish(t)
  PROVE  IInv'
<1>1. PICK r, rest : r = Req(t) /\ rest = Tail(inbox[t])
  OBVIOUS
<1>2. /\ mind[t].on /\ plan[t] = <<>>
      /\ memo' = IF mind[t].keyed
                 THEN [memo EXCEPT ![r.key] = IF mind[t].ok THEN "ok"
                                              ELSE "denied"]
                 ELSE memo
      /\ inbox' = [inbox EXCEPT ![t] = rest]
      /\ mind' = [mind EXCEPT ![t] = Idle]
      /\ plan' = plan /\ rows' = rows /\ files' = files /\ status' = status
      /\ bound' = bound /\ workforce' = workforce
      /\ blocked' = blocked /\ effects' = effects /\ log' = log
  BY <1>1 DEF Finish, stores, others
<1>3. /\ TypeOK /\ inbox[t] \in Seq(Request) /\ inbox[t] # <<>>
      /\ inbox \in [Threads -> Seq(Request)]
      /\ plan \in [Threads -> Seq(Steps)] /\ mind \in [Threads -> Mind]
  BY <1>2 DEF IInv, TypeOK
<1>4. /\ rest \in Seq(Request) /\ Len(inbox[t]) \in Nat
      /\ Len(rest) = Len(inbox[t]) - 1 /\ Len(rest) \in Nat
  BY <1>1, <1>3
<1>5. Idle \in Mind /\ ~Idle.on
  <2>1. "none" \in OptionalState /\ "none" \in Words
    BY DEF OptionalState, Words
  <2> QED  BY <2>1 DEF Idle, Mind
<1>6. /\ inbox'[t] = rest /\ mind'[t] = Idle
      /\ \A u \in Threads : u # t => /\ inbox'[u] = inbox[u]
                                     /\ mind'[u] = mind[u]
  BY <1>2, <1>3
<1>7. memo' \in [Keys -> {"none", "ok", "denied"}]
  <2>1. memo \in [Keys -> {"none", "ok", "denied"}]
    BY <1>3 DEF TypeOK
  <2> QED  BY <2>1, <1>2
<1>8. TypeOK'
  <2>1. ThreadsOK'
    <3>1. ThreadsOK
      BY <1>3, TypesSplit
    <3>2. inbox' \in [Threads -> Seq(Request)] /\ mind' \in [Threads -> Mind]
      BY <1>2, <1>3, <1>4, <1>5
    <3>3. \A u \in Threads : /\ ~mind'[u].on => plan'[u] = <<>>
                             /\ mind'[u].on => inbox'[u] # <<>>
      BY <3>1, <1>2, <1>5, <1>6 DEF ThreadsOK
    <3> QED  BY <3>2, <3>3, <1>2, <1>3 DEF ThreadsOK
  <2>2. OthersOK'
    BY <1>2, <1>3, <1>7 DEF TypeOK, OthersOK
  <2> QED  BY <2>1, <2>2, TypesSplitNext
<1>9. \A u \in Threads : OnPlan(u)'
  <2> SUFFICES ASSUME NEW u \in Threads, u # t
               PROVE  OnPlan(u)'
    BY <1>5, <1>6 DEF OnPlan
  <2>1. /\ OnPlan(u) /\ plan'[u] = plan[u] /\ mind'[u] = mind[u]
        /\ rows' = rows /\ log' = log /\ status' = status
        /\ Req(u)' = Req(u)
    BY <1>2, <1>6 DEF IInv, Req
  <2> QED  BY <2>1, OnPlanSame
<1>10. Numbered'
  <2> SUFFICES ASSUME NEW i \in DOMAIN log, NEW u \in Threads, NEW k \in Nat,
                      log[i].n = <<u, k>>
               PROVE  /\ k >= Len(inbox'[u])
                      /\ mind'[u].on \/ k > Len(inbox'[u])
                      /\ k = Len(inbox'[u]) /\ log[i].type \in Counted =>
                           \A x \in DOMAIN plan[u] :
                             plan[u][x].op \in Writing =>
                               plan[u][x].type # log[i].type
    BY <1>2 DEF IInv, Numbered
  <2>1. /\ k >= Len(inbox[u])
        /\ mind[u].on \/ k > Len(inbox[u])
        /\ k = Len(inbox[u]) /\ log[i].type \in Counted =>
             \A x \in DOMAIN plan[u] :
               plan[u][x].op \in Writing => plan[u][x].type # log[i].type
    BY DEF IInv, Numbered
  <2>2. CASE u # t
    BY <2>1, <2>2, <1>6
  <2>3. CASE u = t
    <3>1. k >= Len(rest) /\ k > Len(rest)
      BY <2>1, <2>3, <1>4
    <3> QED  BY <3>1, <2>3, <1>4, <1>6
  <2> QED  BY <2>2, <2>3
<1> QED  BY <1>2, <1>8, <1>9, <1>10, AroundKeeps

\* The process ends.
LEMMA RestartKeeps ==
  ASSUME IInv, Restart
  PROVE  IInv'
<1>1. /\ Fault
      /\ inbox' = [t \in Threads |-> IF mind[t].on THEN Tail(inbox[t])
                                     ELSE inbox[t]]
      /\ plan' = [t \in Threads |-> <<>>]
      /\ mind' = [t \in Threads |-> Idle]
      /\ memo' = [k \in Keys |-> "none"]
      /\ effects' = [k \in Keys |-> NoEffect]
      /\ rows' = rows /\ files' = files /\ status' = status
      /\ workforce' = workforce /\ blocked' = blocked /\ log' = log
  BY DEF Restart, stores
<1>2. TypeOK
  BY DEF IInv
<1>3. Idle \in Mind /\ ~Idle.on
  <2>1. "none" \in OptionalState /\ "none" \in Words
    BY DEF OptionalState, Words
  <2> QED  BY <2>1 DEF Idle, Mind
<1>4. \A t \in Threads :
        /\ inbox[t] \in Seq(Request) /\ inbox'[t] \in Seq(Request)
        /\ Len(inbox[t]) \in Nat /\ Len(inbox'[t]) \in Nat
        /\ mind[t].on => Len(inbox'[t]) = Len(inbox[t]) - 1
        /\ ~mind[t].on => inbox'[t] = inbox[t]
  <2> SUFFICES ASSUME NEW t \in Threads
               PROVE  /\ inbox[t] \in Seq(Request)
                      /\ inbox'[t] \in Seq(Request)
                      /\ Len(inbox[t]) \in Nat /\ Len(inbox'[t]) \in Nat
                      /\ mind[t].on => Len(inbox'[t]) = Len(inbox[t]) - 1
                      /\ ~mind[t].on => inbox'[t] = inbox[t]
    OBVIOUS
  <2>1. /\ inbox[t] \in Seq(Request) /\ mind[t].on => inbox[t] # <<>>
    BY <1>2 DEF TypeOK
  <2>2. inbox[t] \in Seq(Request)
    BY <1>2 DEF TypeOK
  <2>3. inbox'[t] = IF mind[t].on THEN Tail(inbox[t]) ELSE inbox[t]
    BY <1>1
  <2> QED  BY <2>1, <2>2, <2>3
<1>5. TypeOK'
  <2>1. <<>> \in Seq(Steps)
    OBVIOUS
  <2>2. ThreadsOK'
    <3>1. inbox' \in [Threads -> Seq(Request)]
      BY <1>1, <1>4
    <3>2. plan' \in [Threads -> Seq(Steps)] /\ mind' \in [Threads -> Mind]
      BY <1>1, <1>3, <2>1
    <3>3. \A t \in Threads : ~mind'[t].on /\ plan'[t] = <<>>
      BY <1>1, <1>3
    <3> QED  BY <3>1, <3>2, <3>3 DEF ThreadsOK
  <2>3. bound' \in [changes : Nat, faults : Nat]
    BY <1>1, <1>2, FaultTyped
  <2>4. /\ memo' \in [Keys -> {"none", "ok", "denied"}]
        /\ effects' \in [Keys -> [rows : Nat, upset : BOOLEAN]]
    BY <1>1 DEF NoEffect
  <2>5. OthersOK'
    BY <2>3, <2>4, <1>1, <1>2 DEF TypeOK, OthersOK
  <2> QED  BY <2>2, <2>5, TypesSplitNext
<1>6. \A t \in Threads : OnPlan(t)'
  BY <1>1, <1>3 DEF OnPlan
<1>7. Numbered'
  <2> SUFFICES ASSUME NEW i \in DOMAIN log, NEW u \in Threads, NEW k \in Nat,
                      log[i].n = <<u, k>>
               PROVE  k > Len(inbox'[u])
    BY <1>1, <1>4 DEF IInv, Numbered
  <2>1. k >= Len(inbox[u]) /\ (mind[u].on \/ k > Len(inbox[u]))
    BY DEF IInv, Numbered
  <2> QED  BY <2>1, <1>4
<1> QED  BY <1>1, <1>5, <1>6, <1>7, AroundKeeps

\* A project changes status.
LEMMA TransitionKeeps ==
  ASSUME IInv, NEW p \in Projects, Transition(p)
  PROVE  IInv'
<1>1. PICK st \in ALLOWED_TRANSITIONS[status[p]] \ {status[p]} :
        /\ bound.changes > 0 /\ bound' = [bound EXCEPT !.changes = @ - 1]
        /\ status' = [status EXCEPT ![p] = st]
        /\ mind' = [t \in Threads |->
             IF mind[t].on /\ Req(t).project = p
             THEN [mind[t] EXCEPT !.seen = @ \union {st}] ELSE mind[t]]
        /\ inbox' = inbox /\ plan' = plan /\ rows' = rows /\ files' = files
        /\ workforce' = workforce /\ blocked' = blocked /\ memo' = memo
        /\ effects' = effects /\ log' = log
  BY DEF Transition, stores
<1>2. TypeOK /\ status \in [Projects -> ProjectStatuses]
  BY DEF IInv, TypeOK
<1>3. st \in ProjectStatuses
  <2>1. \A s \in ProjectStatuses :
          ALLOWED_TRANSITIONS[s] \subseteq ProjectStatuses
    BY DEF ALLOWED_TRANSITIONS, ProjectStatuses
  <2> QED  BY <2>1, <1>1, <1>2
<1>4. ASSUME NEW t \in Threads, NEW m, m = mind[t], NEW mm, mm = mind'[t]
      PROVE  /\ m \in Mind /\ mm \in Mind /\ mm.on = m.on
             /\ mm.from = m.from /\ mm.cycles = m.cycles
             /\ mm.outcome = m.outcome /\ mm.rev = m.rev
             /\ mm.state = m.state /\ m.seen \subseteq mm.seen
             /\ m.on /\ Req(t).project = p => st \in mm.seen
  <2>1. m \in Mind
    BY <1>2, <1>4 DEF TypeOK
  <2>2. PICK seen : seen = m.seen \union {st}
    OBVIOUS
  <2>3. seen \in SUBSET ProjectStatuses
    BY <2>1, <2>2, <1>3 DEF Mind
  <2>4. mm = IF m.on /\ Req(t).project = p THEN [m EXCEPT !.seen = seen]
             ELSE m
    BY <2>2, <1>1, <1>4
  <2> QED  BY <2>1, <2>2, <2>3, <2>4 DEF Mind
<1>5. \A t \in Threads : mind'[t] \in Mind /\ mind'[t].on = mind[t].on
  BY <1>4
<1>6. TypeOK'
  <2>1. ThreadsOK'
    <3>1. ThreadsOK
      BY <1>2, TypesSplit
    <3>2. mind' \in [Threads -> Mind]
      BY <1>1, <1>5
    <3> QED  BY <3>1, <3>2, <1>1, <1>5 DEF ThreadsOK
  <2>2. bound' \in [changes : Nat, faults : Nat]
    <3>1. bound \in [changes : Nat, faults : Nat]
      BY <1>2 DEF TypeOK
    <3>2. PICK n : n = bound.changes - 1
      OBVIOUS
    <3>3. n \in Nat
      BY <3>1, <3>2, <1>1
    <3>4. bound' = [bound EXCEPT !.changes = n]
      BY <3>2, <1>1
    <3> QED  BY <3>1, <3>3, <3>4
  <2>3. status' \in [Projects -> ProjectStatuses]
    BY <1>1, <1>2, <1>3
  <2>4. OthersOK'
    BY <2>2, <2>3, <1>1, <1>2 DEF TypeOK, OthersOK
  <2> QED  BY <2>1, <2>4, TypesSplitNext
<1>7. ASSUME NEW t \in Threads
      PROVE  OnPlan(t)'
  <2>1. CASE ~mind[t].on
    BY <2>1, <1>5 DEF OnPlan
  <2>2. CASE mind[t].on
    <3>1. PICK r, left, m, mm : /\ r = Req(t) /\ left = plan[t]
                                /\ m = mind[t] /\ mm = mind'[t]
      OBVIOUS
    <3>2. r \in Request /\ left \in Seq(Steps)
      BY <3>1, <2>2, <1>2, Running
    <3>3. Proper(r, left, m) /\ Counting(r, left, m)
      BY <3>1, <2>2 DEF IInv, OnPlan
    <3>4. /\ m \in Mind /\ mm \in Mind /\ mm.from = m.from
          /\ mm.cycles = m.cycles /\ mm.outcome = m.outcome
          /\ mm.rev = m.rev /\ mm.state = m.state /\ m.seen \subseteq mm.seen
          /\ r.project = p => st \in mm.seen
      BY <3>1, <2>2, <1>4
    <3>5. r.project \in Projects => status'[r.project] \in mm.seen
      BY <3>3, <3>4, <1>1, <1>2 DEF Proper
    <3>6. LogGrows /\ (Overwritten => Overwritten') /\ Follows(PlanOf(r), left)
      BY <3>3, <1>1 DEF LogGrows, Overwritten, Proper
    <3>7. Proper(r, left, mm)'
      BY <3>2, <3>3, <3>4, <3>5, <3>6, <1>2, ProperKept
    <3>8. Counting(r, left, mm)'
      BY <3>3, <3>4, <1>1 DEF Counting
    <3>9. left = plan'[t] /\ inbox'[t] = inbox[t]
      BY <3>1, <1>1
    <3> QED  BY <3>1, <3>7, <3>8, <3>9, OnPlanIs
  <2> QED  BY <2>1, <2>2
<1>8. Numbered'
  <2>1. /\ Numbered /\ log' = log /\ plan' = plan /\ inbox' = inbox
        /\ \A t \in Threads : mind'[t].on = mind[t].on
    BY <1>1, <1>5 DEF IInv
  <2> QED  BY <2>1 DEF Numbered
<1> QED  BY <1>1, <1>6, <1>7, <1>8, AroundKeeps

\* The beginning.
LEMMA InitHolds ==
  Init => IInv
<1> SUFFICES ASSUME Init
             PROVE  IInv
  OBVIOUS
<1>1. PICK c \in Cases : /\ inbox = c.requests
                         /\ log = c.stage /\ rows = c.rows
                         /\ status = [p \in Projects |-> c.status]
                         /\ bound = [changes |-> c.changes,
                                     faults |-> c.faults]
  BY DEF Init
<1>2. CaseOK(c)
  BY RecordConstants
<1>3. /\ plan = [t \in Threads |-> <<>>] /\ mind = [t \in Threads |-> Idle]
      /\ files = rows /\ workforce = [p \in Projects |-> "absent"]
      /\ blocked = {} /\ memo = [k \in Keys |-> "none"]
      /\ effects = [k \in Keys |-> NoEffect]
  BY DEF Init
<1>4. Idle \in Mind /\ ~Idle.on
  <2>1. "none" \in OptionalState /\ "none" \in Words
    BY DEF OptionalState, Words
  <2> QED  BY <2>1 DEF Idle, Mind
<1>5. /\ log \in Seq(LogEntry)
      /\ rows \in [Projects -> [Types -> Seq(Document)]]
      /\ inbox \in [Threads -> Seq(Request)]
      /\ \A i \in DOMAIN log :
           /\ log[i].by = "before" /\ log[i].type # "bind"
           /\ log[i].type \notin Coapprovals
           /\ log[i].n \notin Threads \X Nat
           /\ \A j \in DOMAIN log : log[i].n = log[j].n => i = j
      /\ Holds(rows, log)
  BY <1>1, <1>2 DEF CaseOK
<1>6. TypeOK
  <2>1. <<>> \in Seq(Steps)
    OBVIOUS
  <2>2. ThreadsOK
    BY <2>1, <1>3, <1>4, <1>5 DEF ThreadsOK
  <2>3. /\ status \in [Projects -> ProjectStatuses]
        /\ bound \in [changes : Nat, faults : Nat]
    BY <1>1, <1>2 DEF CaseOK
  <2>4. OthersOK
    BY <2>3, <1>3, <1>5 DEF OthersOK, NoEffect
  <2> QED  BY <2>2, <2>4, TypesSplit
<1>7. \A t \in Threads : OnPlan(t)
  BY <1>3, <1>4 DEF OnPlan
<1>8. Within
  BY <1>5, TypesAre DEF Holds, Within
<1>9. TableIsLogged
  <2> SUFFICES ASSUME NEW p \in Projects, NEW ty \in Types
               PROVE  /\ ToSet(rows[p][ty]) \subseteq
                           {DocOf(log[j]) : j \in Places(log, p, ty)}
                      /\ Len(rows[p][ty]) <= Cardinality(Places(log, p, ty))
                      /\ \A j \in Places(log, p, ty) :
                           DocOf(log[j]) \in ToSet(rows[p][ty])
    BY DEF TableIsLogged
  <2>1. /\ ToSet(rows[p][ty]) = {DocOf(log[j]) : j \in Places(log, p, ty)}
        /\ Len(rows[p][ty]) = Cardinality(Places(log, p, ty))
    BY <1>5 DEF Holds
  <2>2. Len(rows[p][ty]) \in Nat
    BY <1>5
  <2> QED  BY <2>1, <2>2
<1>10. Numbered /\ Agreed /\ Dated
  <2>1. \A i \in DOMAIN log : \A t \in Threads, k \in Nat :
          log[i].n # <<t, k>>
    <3>1. \A i \in DOMAIN log : log[i].n \notin Threads \X Nat
      BY <1>5
    <3>2. \A t \in Threads, k \in Nat : <<t, k>> \in Threads \X Nat
      OBVIOUS
    <3> HIDE <1>5
    <3> QED  BY <3>1, <3>2
  <2>2. Numbered
    BY <2>1, <1>5 DEF Numbered
  <2> QED  BY <2>2, <1>5 DEF Agreed, Dated
<1>11. GatesKeepOrder /\ ConflictEndsAfterThree /\ CoapprovalHasAnOrigin
  BY <1>5 DEF GatesKeepOrder, DecisionAfterReview, BindAfterApproval,
     ConflictEndsAfterThree, CoapprovalHasAnOrigin, Coapprovals
<1> QED  BY <1>6, <1>7, <1>8, <1>9, <1>10, <1>11 DEF IInv

\* Nothing happens.
LEMMA StutterKeeps ==
  ASSUME IInv, UNCHANGED vars
  PROVE  IInv'
<1>1. /\ inbox' = inbox /\ plan' = plan /\ mind' = mind /\ rows' = rows
      /\ files' = files /\ status' = status /\ workforce' = workforce
      /\ blocked' = blocked /\ memo' = memo /\ bound' = bound
      /\ effects' = effects /\ log' = log
  BY DEF vars
<1>2. TypeOK'
  BY <1>1 DEF IInv, TypeOK
<1>3. \A t \in Threads : Req(t)' = Req(t)
  BY <1>1 DEF Req
<1>4. \A t \in Threads : OnPlan(t)'
  BY <1>1, <1>3, OnPlanSame DEF IInv
<1>5. Numbered'
  BY <1>1 DEF IInv, Numbered
<1> QED  BY <1>1, <1>2, <1>4, <1>5, AroundKeeps

\* Every step of every handler keeps the invariant, whatever the other
\* threads do between its steps.
THEOREM RecordsInvariant ==
  Spec => []IInv
<1>1. ASSUME IInv, [Next]_vars
      PROVE  IInv'
  <2>1. ASSUME NEW t \in Threads,
               \/ Begin(t) \/ Finish(t) \/ Gate(t) \/ Skip(t)
               \/ VerifyCsoReviewRecord(t) \/ ReadCsoReviewOutcome(t)
               \/ CountConflicts(t) \/ CycleGate(t)
        PROVE  IInv'
    BY <1>1, <2>1, BeginKeeps, FinishKeeps, GateKeeps, SkipKeeps,
       VerifyKeeps, ReadReviewKeeps, CountKeeps, CycleGateKeeps
  <2>2. ASSUME NEW t \in Threads,
               \/ ResolveState(t) \/ ResolveProject(t) \/ Replay(t)
               \/ ReserveBudget(t) \/ CountRevisions(t) \/ WriteFile(t)
               \/ InsertRow(t) \/ BindWorkforce(t) \/ Quarantine(t)
               \/ BlockTask(t) \/ StoreFails(t) \/ BudgetRaises(t)
               \/ AuditRaises(t)
        PROVE  IInv'
    BY <1>1, <2>2, ResolveStateKeeps, ResolveProjectKeeps, ReplayKeeps,
       ReserveKeeps, CountRevisionsKeeps, WriteFileKeeps, InsertRowKeeps,
       BindKeeps, QuarantineKeeps, BlockTaskKeeps, StoreFailsKeeps,
       RaisesKeep
  <2>3. CASE Restart
    BY <1>1, <2>3, RestartKeeps
  <2>4. CASE \E p \in Projects : Transition(p)
    BY <1>1, <2>4, TransitionKeeps
  <2>5. CASE UNCHANGED vars
    BY <1>1, <2>5, StutterKeeps
  <2> QED  BY <1>1, <2>1, <2>2, <2>3, <2>4, <2>5 DEF Next
<1> QED  BY <1>1, InitHolds, PTL DEF Spec

\* The variables keep their types.
THEOREM RecordsTypes ==
  Spec => []TypeOK
<1>1. IInv => TypeOK
  BY DEF IInv
<1> QED  BY <1>1, RecordsInvariant, PTL

\* PostgresGovernanceArtifactRepository.write_project_artifact: the caps of
\* the append-only types hold, however many writers counted together; and the
\* administrator's check never allows what the repository then refuses.
THEOREM CapsAreKept ==
  Spec => []CapsHold
<1>1. IInv => CapsHold
  BY DEF IInv, Within, CapsHold, check_artifact_cap, WithinCaps
<1> QED  BY <1>1, RecordsInvariant, PTL

\* GATE-005, GATE-006 and the workforce gates keep the order of review,
\* decision and binding, for any number of competing requests.
THEOREM GatesAreInOrder ==
  Spec => []GatesKeepOrder
<1>1. IInv => GatesKeepOrder
  BY DEF IInv
<1> QED  BY <1>1, RecordsInvariant, PTL

\* GATE-003 ends a proposal in conflict after three cycles, unless the caller
\* overrides it or a row of the count was replaced.
THEOREM ConflictsEnd ==
  Spec => []ConflictEndsAfterThree
<1>1. IInv => ConflictEndsAfterThree
  BY DEF IInv
<1> QED  BY <1>1, RecordsInvariant, PTL

\* CeoAgent._handle_coapproval and CwoAgent._handle_coapproval wait for each
\* other: no chain of co-approvals starts with one of them.
THEOREM CoapprovalsHaveAnOrigin ==
  Spec => []CoapprovalHasAnOrigin
<1>1. IInv => CoapprovalHasAnOrigin
  BY DEF IInv
<1> QED  BY <1>1, RecordsInvariant, PTL

-----------------------------------------------------------------------------
(* The calls of the tools.                                                 *)

\* Where a tool call is in its plan, by what it has left.
LEMMA ToolAt ==
  ASSUME IInv, NEW t \in Threads, mind[t].on, plan[t] # <<>>,
         Req(t).kind = "tool"
  PROVE  /\ Len(plan[t]) \in 1..5 /\ Req(t).key \in Keys
         /\ Len(plan[t]) = 5 => Step(t).op = "test"
         /\ Len(plan[t]) = 4 => Step(t).op = "replay"
         /\ Len(plan[t]) = 3 => Step(t).op = "reserve"
         /\ Len(plan[t]) = 2 => Step(t).op = "project"
         /\ Len(plan[t]) = 1 => /\ Step(t).op \in Writing /\ ~Step(t).soft
                                /\ Step(t).status = "resolved"
<1>1. PICK r, m, f, l, d : /\ r = Req(t) /\ m = mind[t] /\ f = PlanOf(r)
                           /\ l = Len(plan[t]) /\ d = Len(f) - l
  OBVIOUS
<1>2. /\ r \in Request /\ d \in Nat /\ d + 1 \in DOMAIN f
      /\ plan[t] \in Seq(Steps) /\ f \in Seq(Steps)
      /\ Step(t) = f[d + 1] \/ Begun(Step(t), f[d + 1])
  BY <1>1, AtStep
<1>3. /\ Len(f) = 5 /\ f[1].op = "test" /\ f[2].op = "replay"
      /\ f[3].op = "reserve" /\ f[4].op = "project" /\ f[5].op = "write"
      /\ f[5].status = "resolved" /\ ~f[5].soft
  BY <1>1, <1>2, ToolPlan DEF IsTest
<1>4. l \in 1..5 /\ d + 1 = 6 - l
  <2>1. l \in Nat /\ l # 0
    BY <1>1, <1>2
  <2>2. d + 1 <= 5 /\ d = 5 - l
    BY <1>1, <1>2, <1>3
  <2> QED  BY <2>1, <2>2, <1>2
<1>5. Req(t).key \in Keys
  BY <1>1, <1>2 DEF Request
<1>6. /\ l = 5 => d + 1 = 1 /\ Step(t).op = "test"
      /\ l = 4 => d + 1 = 2 /\ Step(t).op = "replay"
      /\ l = 3 => d + 1 = 3 /\ Step(t).op = "reserve"
      /\ l = 2 => d + 1 = 4 /\ Step(t).op = "project"
  BY <1>2, <1>3, <1>4 DEF Begun
<1>7. l = 1 => /\ Step(t).op \in Writing /\ ~Step(t).soft
               /\ Step(t).status = "resolved"
  <2>1. l = 1 => d + 1 = 5
    BY <1>4
  <2> QED  BY <2>1, <1>2, <1>3 DEF Begun, Writing
<1> QED  BY <1>1, <1>4, <1>5, <1>6, <1>7

\* What only the agents do.
LEMMA NotATool ==
  ASSUME IInv, NEW t \in Threads, mind[t].on, plan[t] # <<>>,
         Step(t).op \notin {"test", "replay", "reserve", "project"}
                             \union Writing
  PROVE  Req(t).kind # "tool"
<1> SUFFICES ASSUME Req(t).kind = "tool"
             PROVE  FALSE
  OBVIOUS
<1>1. PICK l, s : l = Len(plan[t]) /\ s = Step(t).op
  OBVIOUS
<1>2. /\ l \in 1..5 /\ (l = 5 => s = "test") /\ (l = 4 => s = "replay")
      /\ (l = 3 => s = "reserve") /\ (l = 2 => s = "project")
      /\ (l = 1 => s \in Writing)
  BY <1>1, ToolAt
<1>3. l = 1 \/ l = 2 \/ l = 3 \/ l = 4 \/ l = 5
  BY <1>2
<1> QED  BY <1>1, <1>2, <1>3

\* Only a tool call is looked up.
LEMMA OnlyToolsReplay ==
  ASSUME IInv, NEW t \in Threads, mind[t].on, plan[t] # <<>>,
         Step(t).op = "replay"
  PROVE  Req(t).kind = "tool"
<1>1. PICK r, m, d : /\ r = Req(t) /\ m = mind[t]
                     /\ d = Len(PlanOf(r)) - Len(plan[t])
  OBVIOUS
<1>2. Step(t).op \notin {"file", "row"}
  OBVIOUS
<1>3. /\ Shaped(r, PlanOf(r)) /\ d + 1 \in DOMAIN PlanOf(r)
      /\ Step(t) = PlanOf(r)[d + 1]
  BY <1>1, <1>2, AtStep
<1> QED  BY <1>1, <1>3 DEF Shaped, Keyed

\* A call under way with a key that was never upset is the only one, and what
\* it wrote is all that was written.
LEMMA KeyIsOwn ==
  ASSUME ToolInv, NEW t \in Threads, NEW k \in Keys, Calls(t, k),
         ~effects[k].upset
  PROVE  /\ memo[k] = "none" /\ effects[k].rows = Wrote(t)
         /\ \A u \in Threads : Calls(u, k) => u = t
<1>1. Orderly(k)
  BY DEF ToolInv
<1> QED  BY <1>1 DEF Orderly

ToolsAreOpen(l) == \A i \in DOMAIN l : l[i].by = "tool" => l[i].open

\* The other threads when one takes a step.
Others(t) ==
  \A u \in Threads : u # t => /\ plan'[u] = plan[u] /\ mind'[u] = mind[u]
                              /\ Req(u)' = Req(u)

\* The calls of the other threads go on: no row is taken back.
LEMMA OthersCall ==
  ASSUME IInv, ToolInv, NEW t \in Threads, Others(t),
         \A k \in Keys : effects[k].rows >= 1 => effects'[k].rows >= 1,
         NEW u \in Threads, u # t
  PROVE  Calling(u)'
<1>1. /\ plan'[u] = plan[u] /\ mind'[u] = mind[u] /\ Req(u)' = Req(u)
      /\ Calling(u)
  BY DEF Others, ToolInv
<1>2. CASE ~mind[u].on
  BY <1>1, <1>2 DEF Calling
<1>3. CASE mind[u].on /\ Req(u).kind # "tool"
  BY <1>1, <1>3 DEF Calling
<1>4. CASE mind[u].on /\ Req(u).kind = "tool"
  <2>1. PICK k \in Keys : k = Req(u).key
    BY <1>4, Running, RequestIs DEF IInv
  <2>2. effects[k].rows >= 1 => effects'[k].rows >= 1
    BY <2>1
  <2> QED  BY <2>1, <2>2, <1>1, <1>4 DEF Calling
<1> QED  BY <1>2, <1>3, <1>4

\* A key that the step of a thread has nothing to do with.
LEMMA OtherKey ==
  ASSUME NEW t \in Threads, Others(t), NEW k \in Keys, Orderly(k),
         ~Calls(t, k), ~Calls(t, k)', memo'[k] = memo[k],
         effects'[k].rows = effects[k].rows
  PROVE  Orderly(k)'
<1>1. \A u \in Threads : Calls(u, k)' <=> Calls(u, k)
  BY DEF Others, Calls
<1>2. \A u \in Threads : Calls(u, k) => Wrote(u)' = Wrote(u)
  BY DEF Others, Wrote
<1> QED  BY <1>1, <1>2 DEF Orderly

\* The key of the only call with it.
LEMMA OneCall ==
  ASSUME NEW t \in Threads, NEW k \in Keys, Calls(t, k)', memo'[k] = "none",
         effects'[k].rows = Wrote(t)',
         \A u \in Threads : Calls(u, k)' => u = t
  PROVE  Orderly(k)'
  BY DEF Orderly

\* The key of no call.
LEMMA NoCall ==
  ASSUME NEW k \in Keys, \A u \in Threads : ~Calls(u, k)',
         memo'[k] = "ok" => effects'[k].rows = 1,
         memo'[k] # "ok" => effects'[k].rows = 0
  PROVE  Orderly(k)'
  BY DEF Orderly

\* A step of one thread that leaves results and effects alone.
LEMMA CallStep ==
  ASSUME IInv, ToolInv, NEW t \in Threads, mind[t].on, mind'[t].on,
         inbox' = inbox, memo' = memo, effects' = effects,
         \A u \in Threads : u # t => plan'[u] = plan[u] /\ mind'[u] = mind[u],
         mind'[t].keyed = mind[t].keyed,
         mind[t].keyed => Wrote(t)' = Wrote(t),
         Calling(t)', ToolsAreOpen(log')
  PROVE  ToolInv'
<1>1. \A u \in Threads : Req(u)' = Req(u)
  BY DEF Req
<1>2. \A u \in Threads : Calling(u)'
  <2> SUFFICES ASSUME NEW u \in Threads, u # t
               PROVE  Calling(u)'
    OBVIOUS
  <2>1. Calling(u) /\ plan'[u] = plan[u] /\ mind'[u] = mind[u]
    BY DEF ToolInv
  <2> QED  BY <2>1, <1>1 DEF Calling
<1>3. \A u \in Threads, k \in Keys : Calls(u, k)' <=> Calls(u, k)
  BY <1>1 DEF Calls
<1>4. \A u \in Threads, k \in Keys : Calls(u, k) => Wrote(u)' = Wrote(u)
  <2> SUFFICES ASSUME NEW u \in Threads, NEW k \in Keys, Calls(u, k), u # t
               PROVE  Wrote(u)' = Wrote(u)
    BY DEF Calls
  <2> QED  BY DEF Wrote
<1>5. \A k \in Keys : Orderly(k) => Orderly(k)'
  BY <1>3, <1>4 DEF Orderly
<1> QED  BY <1>2, <1>5 DEF ToolInv, ToolsAreOpen

\* A step of an agent's request.
LEMMA PlainCall ==
  ASSUME IInv, ToolInv, NEW t \in Threads, mind[t].on, mind'[t].on,
         Req(t).kind # "tool", mind'[t].keyed = mind[t].keyed,
         inbox' = inbox, memo' = memo, effects' = effects,
         \A u \in Threads : u # t => plan'[u] = plan[u] /\ mind'[u] = mind[u],
         ToolsAreOpen(log')
  PROVE  ToolInv'
<1>1. ~mind[t].keyed
  BY DEF ToolInv, Calling
<1>2. Req(t)' = Req(t)
  BY DEF Req
<1>3. Calling(t)'
  BY <1>1, <1>2 DEF Calling
<1>4. mind[t].keyed => Wrote(t)' = Wrote(t)
  BY <1>1
<1> QED  BY <1>3, <1>4, CallStep

\* What a tool call has left after one more step.
LEMMA NextOfTool ==
  ASSUME NEW l, l = 2 \/ l = 3 \/ l = 5, NEW k, k = l - 1
  PROVE  /\ k > 3 => l = 5
         /\ k \in 1..3 => l # 5
         /\ k = 1 => l = 2
  OBVIOUS

\* A call that is refused wrote nothing.
LEMMA CallRefused ==
  ASSUME IInv, ToolInv, NEW t \in Threads, mind[t].on, plan[t] # <<>>,
         Refuse(t), inbox' = inbox, memo' = memo, effects' = effects,
         log' = log
  PROVE  ToolInv'
<1>1. PICK r, m, mm : /\ r = Req(t) /\ m = mind[t]
                      /\ mm = [m EXCEPT !.ok = FALSE]
  OBVIOUS
<1>2. m \in Mind /\ TypeOK /\ plan[t] \in Seq(Steps)
  BY <1>1, Running DEF IInv
<1>3. mm.on = m.on /\ mm.keyed = m.keyed /\ ~mm.ok
  BY <1>1, <1>2 DEF Mind
<1>4. /\ plan'[t] = <<>> /\ mind'[t] = mm
      /\ \A u \in Threads : u # t => plan'[u] = plan[u] /\ mind'[u] = mind[u]
  BY <1>1, <1>2 DEF Refuse, TypeOK
<1>5. Len(plan'[t]) = 0 /\ Req(t)' = r
  BY <1>1, <1>4 DEF Req
<1>6. ToolsAreOpen(log')
  BY DEF ToolInv, ToolsAreOpen
<1>7. CASE r.kind # "tool"
  BY <1>1, <1>3, <1>4, <1>6, <1>7, PlainCall
<1>8. CASE r.kind = "tool"
  <2>1. Wrote(t)' = Wrote(t)
    BY <1>3, <1>4 DEF Wrote
  <2>2. Calling(t)'
    BY <1>3, <1>4, <1>5, <1>8 DEF Calling
  <2> QED  BY <2>1, <2>2, <1>1, <1>3, <1>4, <1>6, CallStep
<1> QED  BY <1>7, <1>8

\* A step that only an agent takes, and that enters no tool's row.
LEMMA AgentStep ==
  ASSUME IInv, ToolInv, NEW t \in Threads, mind[t].on, plan[t] # <<>>,
         Step(t).op \notin {"test", "replay", "reserve", "project"}
                             \union Writing,
         inbox' = inbox, memo' = memo, effects' = effects,
         NEW mm, mind' = [mind EXCEPT ![t] = mm], mm.on,
         mm.keyed = mind[t].keyed,
         \A u \in Threads : u # t => plan'[u] = plan[u],
         ToolsAreOpen(log')
  PROVE  ToolInv'
<1>1. Req(t).kind # "tool"
  BY NotATool
<1>2. mind \in [Threads -> Mind]
  BY DEF IInv, TypeOK
<1>3. mind'[t] = mm /\ \A u \in Threads : u # t => mind'[u] = mind[u]
  BY <1>2
<1> QED  BY <1>1, <1>3, PlainCall

\* No tool call skips.
LEMMA SkipCalls ==
  ASSUME IInv, ToolInv, NEW t \in Threads, Skip(t)
  PROVE  ToolInv'
<1>1. /\ mind[t].on /\ plan[t] # <<>> /\ Step(t).op = "skip"
      /\ inbox' = inbox /\ memo' = memo /\ effects' = effects
      /\ log' = log /\ mind' = mind
  BY DEF Skip, Runs
<1>2. /\ mind \in [Threads -> Mind] /\ plan \in [Threads -> Seq(Steps)]
  BY DEF IInv, TypeOK
<1>3. mind' = [mind EXCEPT ![t] = mind[t]]
  BY <1>1, <1>2
<1>4. \A u \in Threads : u # t => plan'[u] = plan[u]
  BY <1>2 DEF Skip
<1>5. ToolsAreOpen(log')
  BY <1>1 DEF ToolInv, ToolsAreOpen
<1> QED  BY <1>1, <1>3, <1>4, <1>5, AgentStep DEF Writing

\* No tool call asks for a review.
LEMMA ReviewCalls ==
  ASSUME IInv, ToolInv, NEW t \in Threads, NEW gate \in {"GATE-005", "GATE-006"},
         NEW found, ReviewGate(t, gate, found)
  PROVE  ToolInv'
<1>1. /\ mind[t].on /\ plan[t] # <<>> /\ Step(t).op = gate
      /\ inbox' = inbox /\ memo' = memo /\ effects' = effects
      /\ log' = log
      /\ \/ Refuse(t)
         \/ /\ \E outcome \in found : mind' = [mind EXCEPT ![t].outcome =
                 IF @ = "none" \/ gate = "GATE-006" THEN outcome ELSE @]
            /\ Continue(t)
  BY DEF ReviewGate, Runs
<1>2. /\ mind \in [Threads -> Mind] /\ plan \in [Threads -> Seq(Steps)]
  BY DEF IInv, TypeOK
<1>3. CASE Refuse(t)
  BY <1>1, <1>3, CallRefused
<1>4. CASE Continue(t) /\ \E o : mind' = [mind EXCEPT ![t].outcome = o]
  <2>1. PICK o : mind' = [mind EXCEPT ![t].outcome = o]
    BY <1>4
  <2>2. PICK mm : mm = [mind[t] EXCEPT !.outcome = o]
    OBVIOUS
  <2>3. mm.on /\ mm.keyed = mind[t].keyed
    BY <2>2, <1>1, <1>2 DEF Mind
  <2>4. mind' = [mind EXCEPT ![t] = mm]
    BY <2>1, <2>2
  <2>5. \A u \in Threads : u # t => plan'[u] = plan[u]
    BY <1>2, <1>4 DEF Continue
  <2>6. ToolsAreOpen(log')
    BY <1>1 DEF ToolInv, ToolsAreOpen
  <2>7. Step(t).op \notin {"test", "replay", "reserve", "project"}
                             \union Writing
    BY <1>1 DEF Writing
  <2>8. /\ mind[t].on /\ plan[t] # <<>> /\ inbox' = inbox /\ memo' = memo
        /\ effects' = effects
    BY <1>1
  <2> HIDE <1>1
  <2> QED  BY <2>3, <2>4, <2>5, <2>6, <2>7, <2>8, AgentStep
<1>5. ASSUME Continue(t), \E outcome \in found : mind' = [mind EXCEPT
        ![t].outcome = IF @ = "none" \/ gate = "GATE-006" THEN outcome ELSE @]
      PROVE  \E o : mind' = [mind EXCEPT ![t].outcome = o]
  <2>1. PICK outcome \in found : mind' = [mind EXCEPT ![t].outcome =
          IF @ = "none" \/ gate = "GATE-006" THEN outcome ELSE @]
    BY <1>5
  <2>2. PICK o : o = IF mind[t].outcome = "none" \/ gate = "GATE-006"
                     THEN outcome ELSE mind[t].outcome
    OBVIOUS
  <2>3. mind' = [mind EXCEPT ![t].outcome = o]
    BY <2>1, <2>2
  <2> QED  BY <2>3
<1> QED  BY <1>1, <1>3, <1>4, <1>5

\* No tool call counts cycles.
LEMMA CountingCalls ==
  ASSUME IInv, ToolInv, NEW t \in Threads,
         CountConflicts(t) \/ CycleGate(t) \/ ResolveState(t)
  PROVE  ToolInv'
<1>1. /\ mind[t].on /\ plan[t] # <<>>
      /\ Step(t).op \in {"conflicts", "GATE-003", "state"}
      /\ inbox' = inbox /\ memo' = memo /\ effects' = effects
      /\ log' = log
  BY DEF CountConflicts, CycleGate, ResolveState, Runs
<1>2. \/ Refuse(t)
      \/ Continue(t) /\ mind' = mind
      \/ Continue(t) /\ \E c : mind' = [mind EXCEPT ![t].cycles = c]
      \/ Continue(t) /\ \E st : mind' = [mind EXCEPT ![t].state = st]
  <2>1. CASE CountConflicts(t)
    BY <2>1 DEF CountConflicts
  <2>2. CASE CycleGate(t)
    BY <2>2 DEF CycleGate
  <2>3. CASE ResolveState(t)
    <3>1. PICK st : st = IF Req(t).state # "none" THEN Req(t).state
                         ELSE status[Req(t).project]
      OBVIOUS
    <3>2. Continue(t) /\ mind' = [mind EXCEPT ![t].state = st]
      BY <3>1, <2>3 DEF ResolveState
    <3> QED  BY <3>2
  <2> QED  BY <2>1, <2>2, <2>3
<1>3. mind \in [Threads -> Mind] /\ plan \in [Threads -> Seq(Steps)]
  BY DEF IInv, TypeOK
<1>4. ToolsAreOpen(log')
  BY <1>1 DEF ToolInv, ToolsAreOpen
<1>5. CASE Refuse(t)
  BY <1>1, <1>5, CallRefused
<1>6. ASSUME Continue(t), NEW mm, mind' = [mind EXCEPT ![t] = mm], mm.on,
             mm.keyed = mind[t].keyed
      PROVE  ToolInv'
  <2>1. \A u \in Threads : u # t => plan'[u] = plan[u]
    BY <1>3, <1>6 DEF Continue
  <2>2. Step(t).op \notin {"test", "replay", "reserve", "project"}
                             \union Writing
    BY <1>1 DEF Writing
  <2> QED  BY <2>1, <2>2, <1>1, <1>4, <1>6, AgentStep
<1>7. CASE Continue(t) /\ mind' = mind
  <2>1. mind' = [mind EXCEPT ![t] = mind[t]]
    BY <1>3, <1>7
  <2> QED  BY <2>1, <1>1, <1>6, <1>7
<1>8. CASE Continue(t) /\ \E c : mind' = [mind EXCEPT ![t].cycles = c]
  <2>1. PICK c : mind' = [mind EXCEPT ![t].cycles = c]
    BY <1>8
  <2>2. PICK mm : mm = [mind[t] EXCEPT !.cycles = c]
    OBVIOUS
  <2>3. /\ mm.on /\ mm.keyed = mind[t].keyed
        /\ mind' = [mind EXCEPT ![t] = mm]
    BY <2>1, <2>2, <1>1, <1>3 DEF Mind
  <2> QED  BY <2>3, <1>6, <1>8
<1>9. CASE Continue(t) /\ \E st : mind' = [mind EXCEPT ![t].state = st]
  <2>1. PICK st : mind' = [mind EXCEPT ![t].state = st]
    BY <1>9
  <2>2. PICK mm : mm = [mind[t] EXCEPT !.state = st]
    OBVIOUS
  <2>3. /\ mm.on /\ mm.keyed = mind[t].keyed
        /\ mind' = [mind EXCEPT ![t] = mm]
    BY <2>1, <2>2, <1>1, <1>3 DEF Mind
  <2> QED  BY <2>3, <1>6, <1>9
<1> QED  BY <1>2, <1>5, <1>7, <1>8, <1>9

\* No tool call binds, quarantines or blocks.
LEMMA RegistryCalls ==
  ASSUME IInv, ToolInv, NEW t \in Threads,
         BindWorkforce(t) \/ Quarantine(t) \/ BlockTask(t)
  PROVE  ToolInv'
<1>1. /\ mind[t].on /\ plan[t] # <<>>
      /\ Step(t).op \in {"bind", "quarantine", "block"}
      /\ inbox' = inbox /\ memo' = memo /\ effects' = effects
      /\ \/ Refuse(t) /\ log' = log
         \/ /\ Continue(t) /\ mind' = mind
            /\ \/ log' = log
               \/ \E e : log' = Append(log, e) /\ e.by = Req(t).kind
  <2>1. CASE BindWorkforce(t)
    <3>1. PICK e : e = Entry(t, "bind", Doc(Req(t).about, "bound",
                                            Req(t).kind,
                                            <<t, Len(inbox[t])>>))
      OBVIOUS
    <3>2. e.by = Req(t).kind
      BY <3>1 DEF Entry, Doc
    <3>3. log' = Append(log, e)
      BY <2>1, <3>1 DEF BindWorkforce
    <3> QED  BY <2>1, <3>2, <3>3 DEF BindWorkforce, Runs
  <2>2. CASE Quarantine(t)
    BY <2>2 DEF Quarantine, Runs
  <2>3. CASE BlockTask(t)
    BY <2>3 DEF BlockTask, Runs
  <2> QED  BY <2>1, <2>2, <2>3
<1>2. mind \in [Threads -> Mind] /\ plan \in [Threads -> Seq(Steps)]
        /\ log \in Seq(LogEntry)
  BY DEF IInv, TypeOK
<1>3. CASE Refuse(t) /\ log' = log
  BY <1>1, <1>3, CallRefused
<1>4. ASSUME Continue(t), mind' = mind,
             \/ log' = log
             \/ \E e : log' = Append(log, e) /\ e.by = Req(t).kind
      PROVE  ToolInv'
  <2>1. mind' = [mind EXCEPT ![t] = mind[t]]
    BY <1>2, <1>4
  <2>2. \A u \in Threads : u # t => plan'[u] = plan[u]
    BY <1>2, <1>4 DEF Continue
  <2>3. Step(t).op \notin {"test", "replay", "reserve", "project"}
                             \union Writing
    BY <1>1 DEF Writing
  <2>4. mind[t].on /\ plan[t] # <<>> /\ Req(t).kind # "tool"
    BY <2>3, <1>1, NotATool
  <2>5. ToolsAreOpen(log')
    <3>1. ToolsAreOpen(log)
      BY DEF ToolInv, ToolsAreOpen
    <3>2. CASE log' = log
      BY <3>1, <3>2
    <3>3. CASE \E e : log' = Append(log, e) /\ e.by = Req(t).kind
      <4>1. PICK e : log' = Append(log, e) /\ e.by # "tool"
        BY <3>3, <2>4
      <4>2. \A i \in DOMAIN log' : \/ i \in DOMAIN log /\ log'[i] = log[i]
                                   \/ log'[i] = e
        BY <4>1, <1>2
      <4> QED  BY <4>1, <4>2, <3>1 DEF ToolsAreOpen
    <3> QED  BY <3>2, <3>3, <1>4
  <2> QED  BY <2>1, <2>2, <2>3, <2>4, <2>5, <1>1, AgentStep
<1> QED  BY <1>1, <1>3, <1>4

\* What a tool call does says how much it has left.
LEMMA ToolIsAt ==
  ASSUME IInv, NEW t \in Threads, mind[t].on, plan[t] # <<>>,
         Req(t).kind = "tool"
  PROVE  /\ Step(t).op = "test" => Len(plan[t]) = 5
         /\ Step(t).op = "replay" => Len(plan[t]) = 4
         /\ Step(t).op = "reserve" => Len(plan[t]) = 3
         /\ Step(t).op = "project" => Len(plan[t]) = 2
         /\ Step(t).op \in Writing => Len(plan[t]) = 1
<1>1. PICK l, s : l = Len(plan[t]) /\ s = Step(t).op
  OBVIOUS
<1>2. /\ l \in 1..5 /\ (l = 5 => s = "test") /\ (l = 4 => s = "replay")
      /\ (l = 3 => s = "reserve") /\ (l = 2 => s = "project")
      /\ (l = 1 => s \in Writing)
  BY <1>1, ToolAt
<1>3. l = 1 \/ l = 2 \/ l = 3 \/ l = 4 \/ l = 5
  BY <1>2
<1> QED  BY <1>1, <1>2, <1>3 DEF Writing

\* Where a place of the tool's plan is.
LEMMA PlaceInTool ==
  ASSUME NEW l, l = 2 \/ l = 3 \/ l = 5
  PROVE  l > 0 /\ (l = 5 => l > 3) /\ (l # 5 => l \in 1..3)
  OBVIOUS

\* A tool call goes on to its next step; at its second step from the end its
\* project is looked up.
LEMMA ToolGoesOn ==
  ASSUME IInv, ToolInv, NEW t \in Threads, mind[t].on, plan[t] # <<>>,
         Req(t).kind = "tool", Continue(t),
         NEW l, l = Len(plan[t]), l # 1, l # 4,
         NEW mm, mind' = [mind EXCEPT ![t] = mm], mm.on,
         mm.ok = mind[t].ok,
         mm.keyed = mind[t].keyed,
         l = 2 => mm.state \in mm.seen,
         inbox' = inbox, memo' = memo, effects' = effects, log' = log
  PROVE  ToolInv'
<1>1. PICK r : r = Req(t)
  OBVIOUS
<1>2. /\ mind \in [Threads -> Mind] /\ plan \in [Threads -> Seq(Steps)]
  BY DEF IInv, TypeOK
<1>3. l \in 1..5 /\ r.key \in Keys
  BY <1>1, ToolAt
<1>4. l = 2 \/ l = 3 \/ l = 5
  BY <1>3
<1>5. /\ mind'[t] = mm
      /\ \A u \in Threads : u # t => plan'[u] = plan[u] /\ mind'[u] = mind[u]
  BY <1>2 DEF Continue
<1>6. Len(plan'[t]) = l - 1 /\ Req(t)' = r
  BY <1>1, <1>2 DEF Continue, Req
<1>7. mind[t].ok /\ (l = 5 => ~mind[t].keyed) /\ (l # 5 => mind[t].keyed)
  <2>1. Calling(t) /\ mind[t].on /\ r.kind = "tool"
    BY <1>1 DEF ToolInv
  <2> HIDE DEF ToolInv, IInv
  <2>2. l > 0 => mind[t].ok
    BY <2>1, <1>1 DEF Calling
  <2>3. l > 3 => ~mind[t].keyed
    BY <2>1, <1>1 DEF Calling
  <2>4. l \in 1..3 => mind[t].keyed
    BY <2>1, <1>1 DEF Calling
  <2>5. l > 0 /\ (l = 5 => l > 3) /\ (l # 5 => l \in 1..3)
    BY <1>4, PlaceInTool
  <2> QED  BY <2>2, <2>3, <2>4, <2>5
<1>8. plan'[t] # <<>>
  <2>1. l - 1 # 0
    BY <1>4
  <2> QED  BY <2>1, <1>6
<1>9. Calling(t)'
  <2>1. mind'[t].ok
    BY <1>5, <1>7
  <2>2. l = 5 => ~mind'[t].keyed
    BY <1>5, <1>7
  <2>3. l # 5 => mind'[t].keyed
    BY <1>5, <1>7
  <2>4. l = 2 => mind'[t].state \in mind'[t].seen
    BY <1>5
  <2>5. PICK k : k = Len(plan'[t])
    OBVIOUS
  <2>6. k = l - 1
    BY <2>5, <1>6
  <2>7. /\ k > 3 => l = 5
        /\ k \in 1..3 => l # 5
        /\ k = 1 => l = 2
    BY <2>6, <1>4, NextOfTool
  <2> QED  BY <2>1, <2>2, <2>3, <2>4, <2>5, <2>7, <1>1, <1>6, <1>8
           DEF Calling
<1>10. ToolsAreOpen(log')
  BY DEF ToolInv, ToolsAreOpen
<1>11. mind'[t].keyed = mind[t].keyed /\ Wrote(t)' = Wrote(t)
  BY <1>5, <1>8 DEF Wrote
<1> QED  BY <1>5, <1>9, <1>10, <1>11, CallStep

\* GATE: a tool call's first step is the role of its caller.
LEMMA GateCalls ==
  ASSUME IInv, ToolInv, NEW t \in Threads, Gate(t) \/ ReserveBudget(t)
  PROVE  ToolInv'
<1>1. /\ mind[t].on /\ plan[t] # <<>> /\ Step(t).op \in {"test", "reserve"}
      /\ inbox' = inbox /\ memo' = memo /\ effects' = effects
      /\ log' = log
      /\ Refuse(t) \/ (Continue(t) /\ mind' = mind)
  BY DEF Gate, ReserveBudget, Runs
<1>2. mind \in [Threads -> Mind] /\ plan \in [Threads -> Seq(Steps)]
  BY DEF IInv, TypeOK
<1>3. CASE Refuse(t)
  BY <1>1, <1>3, CallRefused
<1>4. CASE Continue(t) /\ mind' = mind /\ Req(t).kind # "tool"
  <2>1. \A u \in Threads : u # t => plan'[u] = plan[u] /\ mind'[u] = mind[u]
    BY <1>2, <1>4 DEF Continue
  <2>2. ToolsAreOpen(log')
    BY <1>1 DEF ToolInv, ToolsAreOpen
  <2> QED  BY <2>1, <2>2, <1>1, <1>4, PlainCall
<1>5. CASE Continue(t) /\ mind' = mind /\ Req(t).kind = "tool"
  <2>1. PICK l, mm : l = Len(plan[t]) /\ mm = mind[t]
    OBVIOUS
  <2>2. l = 5 \/ l = 3
    BY <2>1, <1>1, <1>5, ToolIsAt
  <2>3. mind' = [mind EXCEPT ![t] = mm]
    BY <2>1, <1>2, <1>5
  <2>4. l # 1 /\ l # 2 /\ l # 4
    BY <2>2
  <2>5. /\ mind[t].on /\ plan[t] # <<>> /\ log' = log
        /\ inbox' = inbox /\ memo' = memo /\ effects' = effects
    BY <1>1
  <2>6. mm.on /\ mm.ok = mind[t].ok /\ mm.keyed = mind[t].keyed
    BY <2>1, <1>1
  <2> HIDE <1>1
  <2> QED  BY <2>1, <2>3, <2>4, <2>5, <2>6, <1>5, ToolGoesOn
<1> QED  BY <1>1, <1>3, <1>4, <1>5

\* _resolve_project keeps the status of that moment.
LEMMA ResolveCalls ==
  ASSUME IInv, ToolInv, NEW t \in Threads, ResolveProject(t)
  PROVE  ToolInv'
<1>1. /\ mind[t].on /\ plan[t] # <<>> /\ Step(t).op = "project"
      /\ inbox' = inbox /\ memo' = memo /\ effects' = effects
      /\ log' = log
      /\ \/ Refuse(t)
         \/ /\ Continue(t) /\ Req(t).project \in Projects
            /\ mind' = [mind EXCEPT ![t].state = status[Req(t).project]]
  BY DEF ResolveProject, Runs
<1>2. mind \in [Threads -> Mind] /\ plan \in [Threads -> Seq(Steps)]
  BY DEF IInv, TypeOK
<1>3. CASE Refuse(t)
  BY <1>1, <1>3, CallRefused
<1>4. CASE /\ Continue(t) /\ Req(t).project \in Projects
           /\ mind' = [mind EXCEPT ![t].state = status[Req(t).project]]
  <2>1. PICK l, mm : /\ l = Len(plan[t])
                     /\ mm = [mind[t] EXCEPT !.state = status[Req(t).project]]
    OBVIOUS
  <2>2. mind[t] \in Mind
    BY <1>2
  <2>3. /\ mm.on = mind[t].on /\ mm.ok = mind[t].ok
        /\ mm.keyed = mind[t].keyed /\ mm.seen = mind[t].seen
        /\ mm.state = status[Req(t).project]
    BY <2>1, <2>2 DEF Mind
  <2>4. mm.state \in mm.seen
    BY <2>3, <1>1, <1>4 DEF IInv, OnPlan, Proper
  <2>5. mind' = [mind EXCEPT ![t] = mm]
    BY <2>1, <1>4
  <2>6. \A u \in Threads : u # t => plan'[u] = plan[u] /\ mind'[u] = mind[u]
    BY <2>5, <1>2, <1>4 DEF Continue
  <2>7. ToolsAreOpen(log')
    BY <1>1 DEF ToolInv, ToolsAreOpen
  <2>8. mind'[t] = mm
    BY <2>5, <1>2
  <2>9. CASE Req(t).kind # "tool"
    BY <2>3, <2>6, <2>7, <2>8, <2>9, <1>1, PlainCall
  <2>10. CASE Req(t).kind = "tool"
    <3>1. l = 2
      BY <2>1, <2>10, <1>1, ToolIsAt
    <3>2. /\ mm.on /\ l # 1 /\ l # 4 /\ mind[t].on /\ plan[t] # <<>>
          /\ inbox' = inbox /\ memo' = memo /\ effects' = effects
          /\ log' = log /\ Continue(t) /\ l = Len(plan[t])
      BY <3>1, <2>1, <2>3, <1>1, <1>4
    <3> HIDE <1>1
    <3> QED  BY <3>2, <2>3, <2>4, <2>5, <2>10, ToolGoesOn
  <2> QED  BY <2>9, <2>10
<1> QED  BY <1>1, <1>3, <1>4

\* The lookup: a known call is over, a new one has written nothing unless
\* another with its key is under way.
LEMMA ReplayCalls ==
  ASSUME IInv, ToolInv, NEW t \in Threads, Replay(t)
  PROVE  ToolInv'
<1>1. PICK k : k = Req(t).key
  OBVIOUS
<1>2. /\ mind[t].on /\ plan[t] # <<>> /\ Step(t).op = "replay"
      /\ inbox' = inbox /\ memo' = memo /\ log' = log
      /\ \/ /\ plan' = [plan EXCEPT ![t] = <<>>] /\ effects' = effects
            /\ \E b : mind' = [mind EXCEPT ![t].ok = b]
         \/ /\ memo[k] = "none" /\ Continue(t)
            /\ mind' = [mind EXCEPT ![t].keyed = TRUE]
            /\ effects' = [effects EXCEPT ![k].upset = @ \/ Overlaps(t, k)]
  <2>1. PICK b : b = (memo[Req(t).key] = "ok")
    OBVIOUS
  <2> QED  BY <2>1, <1>1 DEF Replay, Runs
<1>3. /\ mind \in [Threads -> Mind] /\ plan \in [Threads -> Seq(Steps)]
      /\ mind[t] \in Mind /\ plan[t] \in Seq(Steps)
      /\ effects \in [Keys -> [rows : Nat, upset : BOOLEAN]]
  BY DEF IInv, TypeOK
<1>4. Req(t).kind = "tool" /\ \A u \in Threads : Req(u)' = Req(u)
  BY <1>2, OnlyToolsReplay DEF Req
<1>5. Len(plan[t]) = 4 /\ k \in Keys
  BY <1>1, <1>2, <1>4, ToolIsAt, ToolAt
<1>6. ~mind[t].keyed /\ mind[t].ok
  <2>1. PICK l : l = Len(plan[t])
    OBVIOUS
  <2>2. l > 3 /\ l > 0
    BY <2>1, <1>5
  <2> QED  BY <2>1, <2>2, <1>2, <1>4 DEF ToolInv, Calling
<1>7. ToolsAreOpen(log')
  BY <1>2 DEF ToolInv, ToolsAreOpen
<1>8. CASE /\ plan' = [plan EXCEPT ![t] = <<>>] /\ effects' = effects
           /\ \E b : mind' = [mind EXCEPT ![t].ok = b]
  <2>1. PICK b : mind' = [mind EXCEPT ![t].ok = b]
    BY <1>8
  <2>2. PICK mm : mm = [mind[t] EXCEPT !.ok = b]
    OBVIOUS
  <2>3. mm.on /\ mm.keyed = mind[t].keyed
    BY <2>2, <1>2, <1>3 DEF Mind
  <2>4. /\ mind'[t] = mm /\ plan'[t] = <<>> /\ Len(plan'[t]) = 0
        /\ \A u \in Threads : u # t => plan'[u] = plan[u] /\ mind'[u] = mind[u]
    BY <2>1, <2>2, <1>3, <1>8
  <2>5. Calling(t)'
    BY <2>3, <2>4, <1>4, <1>6 DEF Calling
  <2> QED  BY <2>3, <2>4, <2>5, <1>2, <1>6, <1>7, <1>8, CallStep
<1>9. CASE /\ memo[k] = "none" /\ Continue(t)
           /\ mind' = [mind EXCEPT ![t].keyed = TRUE]
           /\ effects' = [effects EXCEPT ![k].upset = @ \/ Overlaps(t, k)]
  <2>1. PICK mm : mm = [mind[t] EXCEPT !.keyed = TRUE]
    OBVIOUS
  <2>2. mm.on /\ mm.ok /\ mm.keyed
    BY <2>1, <1>2, <1>3, <1>6 DEF Mind
  <2>3. mind'[t] = mm /\ Others(t)
    BY <2>1, <1>3, <1>4, <1>9 DEF Continue, Others
  <2>4. Len(plan'[t]) = 3
    <3>1. plan'[t] = Tail(plan[t])
      BY <1>3, <1>9 DEF Continue
    <3>2. Len(Tail(plan[t])) = Len(plan[t]) - 1
      BY <1>2, <1>3
    <3> QED  BY <3>1, <3>2, <1>5
  <2>5. plan'[t] # <<>>
    BY <2>4
  <2>6. Calling(t)'
    <3>1. PICK l : l = Len(plan'[t])
      OBVIOUS
    <3>2. ~(l > 3) /\ l # 1
      BY <3>1, <2>4
    <3> QED  BY <3>1, <3>2, <2>2, <2>3, <2>5, <1>4 DEF Calling
  <2>7. /\ \A x \in Keys : effects'[x].rows = effects[x].rows
        /\ \A x \in Keys : x # k => effects'[x] = effects[x]
        /\ ~effects'[k].upset => ~effects[k].upset /\ ~Overlaps(t, k)
    BY <1>3, <1>5, <1>9
  <2>8. \A u \in Threads : Calling(u)'
    <3>1. \A x \in Keys : effects[x].rows >= 1 => effects'[x].rows >= 1
      BY <2>7
    <3> QED  BY <3>1, <2>3, <2>6, OthersCall
  <2>9. \A x \in Keys : ~Calls(t, x)
    BY <1>6 DEF Calls
  <2>10. ASSUME NEW x \in Keys, ~effects'[x].upset
         PROVE  Orderly(x)'
    <3>1. CASE x # k
      <4>1. ~Calls(t, x)'
        BY <3>1, <1>1, <1>4 DEF Calls
      <4>2. Orderly(x)
        BY <3>1, <2>7, <2>10 DEF ToolInv
      <4> QED  BY <4>1, <4>2, <2>3, <2>7, <2>9, <1>2, OtherKey
    <3>2. CASE x = k
      <4>1. \A u \in Threads : u # t => ~Calls(u, k)
        BY <3>2, <2>7, <2>10 DEF Overlaps, Calls
      <4>2. effects[k].rows = 0
        BY <4>1, <3>2, <2>7, <2>9, <2>10, <1>5, <1>9 DEF ToolInv, Orderly
      <4>3. \A u \in Threads : Calls(u, k)' => u = t
        BY <4>1, <2>3 DEF Others, Calls
      <4>4. Calls(t, k)'
        BY <2>2, <2>3, <1>1, <1>4 DEF Calls
      <4>5. Wrote(t)' = 0
        BY <2>5 DEF Wrote
      <4> QED  BY <4>2, <4>3, <4>4, <4>5, <3>2, <2>7, <1>2, <1>9, OneCall
    <3> QED  BY <3>1, <3>2
  <2>11. \A x \in Keys : memo'[x] = "ok" => effects'[x].rows >= 1
    BY <2>7, <1>2 DEF ToolInv
  <2> QED  BY <2>8, <2>10, <2>11, <1>7 DEF ToolInv, ToolsAreOpen
<1> QED  BY <1>2, <1>8, <1>9

\* A write that goes on to its next step.
LEMMA GotoCalls ==
  ASSUME IInv, ToolInv, NEW t \in Threads, mind[t].on, plan[t] # <<>>,
         NEW what, Goto(t, what), NEW mm, mind' = [mind EXCEPT ![t] = mm],
         mm.on, mm.keyed = mind[t].keyed, mm.ok = mind[t].ok,
         mm.state = mind[t].state, mm.seen = mind[t].seen,
         inbox' = inbox, memo' = memo, effects' = effects, log' = log
  PROVE  ToolInv'
<1>1. /\ mind \in [Threads -> Mind] /\ plan \in [Threads -> Seq(Steps)]
  BY DEF IInv, TypeOK
<1>2. /\ mind'[t] = mm
      /\ \A u \in Threads : u # t => plan'[u] = plan[u] /\ mind'[u] = mind[u]
  BY <1>1 DEF Goto
<1>3. Len(plan'[t]) = Len(plan[t]) /\ Req(t)' = Req(t)
  <2>1. PICK s, x : s = plan[t] /\ x = [plan[t][1] EXCEPT !.op = what]
    OBVIOUS
  <2>2. s \in Seq(Steps) /\ s # <<>> /\ plan'[t] = [s EXCEPT ![1] = x]
    BY <2>1, <1>1 DEF Goto
  <2>3. Len([s EXCEPT ![1] = x]) = Len(s)
    BY <2>2
  <2> QED  BY <2>1, <2>2, <2>3 DEF Req
<1>4. Calling(t)' /\ Wrote(t)' = Wrote(t)
  <2>1. plan'[t] # <<>> /\ Len(plan[t]) # 0
    BY <1>1, <1>3
  <2> QED  BY <2>1, <1>2, <1>3 DEF ToolInv, Calling, Wrote
<1>5. ToolsAreOpen(log')
  BY DEF ToolInv, ToolsAreOpen
<1> QED  BY <1>2, <1>4, <1>5, CallStep

\* A write that raises.
LEMMA RaiseCalls ==
  ASSUME IInv, ToolInv, NEW t \in Threads, mind[t].on, plan[t] # <<>>,
         Step(t).op \in Writing, Raise(t),
         inbox' = inbox, memo' = memo, effects' = effects, log' = log
  PROVE  ToolInv'
<1>1. mind \in [Threads -> Mind] /\ plan \in [Threads -> Seq(Steps)]
  BY DEF IInv, TypeOK
<1>2. CASE Refuse(t)
  BY <1>2, CallRefused
<1>3. CASE Step(t).soft
  <2>1. Continue(t) /\ mind' = mind
    BY <1>3 DEF Raise
  <2>2. Req(t).kind # "tool"
    <3> SUFFICES ASSUME Req(t).kind = "tool"
                 PROVE  FALSE
      OBVIOUS
    <3>1. Len(plan[t]) = 1
      BY ToolIsAt
    <3> QED  BY <3>1, <1>3, ToolAt
  <2>3. \A u \in Threads : u # t => plan'[u] = plan[u] /\ mind'[u] = mind[u]
    BY <2>1, <1>1 DEF Continue
  <2>4. ToolsAreOpen(log')
    BY DEF ToolInv, ToolsAreOpen
  <2> QED  BY <2>1, <2>2, <2>3, <2>4, PlainCall
<1> QED  BY <1>2, <1>3 DEF Raise

\* The steps of a write up to the row.
LEMMA WriteCalls ==
  ASSUME IInv, ToolInv, NEW t \in Threads,
         CountRevisions(t) \/ WriteFile(t) \/ StoreFails(t)
  PROVE  ToolInv'
<1>1. /\ mind[t].on /\ plan[t] # <<>> /\ Step(t).op \in Writing
      /\ inbox' = inbox /\ memo' = memo /\ effects' = effects
      /\ log' = log
      /\ \/ Raise(t)
         \/ \E what : Goto(t, what) /\ mind' = mind
         \/ \E what, n : Goto(t, what) /\ mind' = [mind EXCEPT ![t].rev = n]
  <2>1. CASE CountRevisions(t)
    BY <2>1 DEF CountRevisions, Runs, Writing
  <2>2. CASE WriteFile(t)
    BY <2>2 DEF WriteFile, Runs, Writing
  <2>3. CASE StoreFails(t)
    BY <2>3 DEF StoreFails, Writing
  <2> QED  BY <2>1, <2>2, <2>3
<1>2. mind \in [Threads -> Mind] /\ mind[t] \in Mind
  BY DEF IInv, TypeOK
<1>3. CASE Raise(t)
  BY <1>1, <1>3, RaiseCalls
<1>4. CASE \E what : Goto(t, what) /\ mind' = mind
  <2>1. PICK what : Goto(t, what) /\ mind' = mind
    BY <1>4
  <2>2. mind' = [mind EXCEPT ![t] = mind[t]]
    BY <2>1, <1>2
  <2> QED  BY <2>1, <2>2, <1>1, GotoCalls
<1>5. CASE \E what, n : Goto(t, what) /\ mind' = [mind EXCEPT ![t].rev = n]
  <2>1. PICK what, n : Goto(t, what) /\ mind' = [mind EXCEPT ![t].rev = n]
    BY <1>5
  <2>2. PICK mm : mm = [mind[t] EXCEPT !.rev = n]
    OBVIOUS
  <2>3. /\ mm.on = mind[t].on /\ mm.keyed = mind[t].keyed
        /\ mm.ok = mind[t].ok /\ mm.state = mind[t].state
        /\ mm.seen = mind[t].seen
    BY <2>2, <1>2 DEF Mind
  <2>4. mind' = [mind EXCEPT ![t] = mm]
    BY <2>1, <2>2
  <2> QED  BY <2>1, <2>3, <2>4, <1>1, GotoCalls
<1> QED  BY <1>1, <1>3, <1>4, <1>5

\* Entering a row keeps what the tools did apart.
LEMMA OneMoreEntry ==
  ASSUME NEW l, NEW S, l \in Seq(S), NEW e, ToolsAreOpen(l),
         e.by = "tool" => e.open
  PROVE  ToolsAreOpen(Append(l, e))
<1>1. \A i \in DOMAIN Append(l, e) :
        \/ i \in DOMAIN l /\ Append(l, e)[i] = l[i]
        \/ Append(l, e)[i] = e
  OBVIOUS
<1> QED  BY <1>1 DEF ToolsAreOpen

\* The row of a tool call: its one effect, on a project open to writes.
LEMMA InsertCalls ==
  ASSUME IInv, ToolInv, NEW t \in Threads, InsertRow(t)
  PROVE  ToolInv'
<1>1. PICK r, m, e : /\ r = Req(t) /\ m = mind[t]
                     /\ e = Entry(t, Step(t).type, DocBy(t))
  OBVIOUS
<1>2. /\ m.on /\ plan[t] # <<>> /\ Step(t).op = "row"
      /\ inbox' = inbox /\ memo' = memo /\ mind' = mind
      /\ log' = Append(log, e) /\ Continue(t)
      /\ effects' = IF r.kind = "tool" THEN
                      [effects EXCEPT ![r.key].rows = @ + 1] ELSE effects
  BY <1>1 DEF InsertRow, Runs
<1>3. /\ mind \in [Threads -> Mind] /\ plan \in [Threads -> Seq(Steps)]
      /\ log \in Seq(LogEntry)
      /\ effects \in [Keys -> [rows : Nat, upset : BOOLEAN]]
  BY DEF IInv, TypeOK
<1>4. /\ \A u \in Threads : u # t => plan'[u] = plan[u]
      /\ \A u \in Threads : Req(u)' = Req(u)
  BY <1>2, <1>3 DEF Continue, Req
<1>5. e.by = r.kind /\ e.open = (m.seen \intersect ProjectWritable # {})
  BY <1>1 DEF Entry, DocBy, Doc
<1>6. ToolsAreOpen(log)
  BY DEF ToolInv, ToolsAreOpen
<1>7. CASE r.kind # "tool"
  <2>1. ToolsAreOpen(log')
    BY <1>2, <1>3, <1>5, <1>6, <1>7, OneMoreEntry
  <2> QED  BY <2>1, <1>1, <1>2, <1>4, <1>7, PlainCall
<1>8. CASE r.kind = "tool"
  <2>1. /\ mind[t].on /\ Req(t).kind = "tool" /\ Step(t).op \in Writing
        /\ plan[t] # <<>>
    BY <1>1, <1>2, <1>8 DEF Writing
  <2>2. Len(plan[t]) = 1
    BY <2>1, ToolIsAt
  <2>3. r.key \in Keys /\ Step(t).status = "resolved"
    BY <2>1, <2>2, <1>1, ToolAt
  <2>4. m.keyed /\ m.ok /\ m.state \in m.seen
    <3>1. Calling(t)
      BY DEF ToolInv
    <3>2. PICK l : l = Len(plan[t])
      OBVIOUS
    <3>3. l > 0 /\ l \in 1..3 /\ l = 1
      BY <3>2, <2>2
    <3> QED  BY <3>1, <3>2, <3>3, <2>1, <1>1 DEF Calling
  <2>5. m.state \in ProjectWritable
    <3>1. Counting(r, plan[t], m) /\ plan[t] # <<>> /\ plan[t][1] = Step(t)
      BY <1>1, <2>1 DEF IInv, OnPlan, Step
    <3> QED  BY <3>1, <2>3, <1>2 DEF Counting
  <2>6. ToolsAreOpen(log')
    <3>1. e.open
      BY <2>4, <2>5, <1>5
    <3> QED  BY <3>1, <1>2, <1>3, <1>6, OneMoreEntry
  <2>7. /\ effects'[r.key].rows = effects[r.key].rows + 1
        /\ effects'[r.key].upset = effects[r.key].upset
        /\ effects[r.key].rows \in Nat
        /\ \A k \in Keys : k # r.key => effects'[k] = effects[k]
    BY <2>3, <1>2, <1>3, <1>8
  <2>8. Others(t) /\ plan'[t] = <<>> /\ mind'[t] = m /\ Req(t)' = r
    <3>1. Len(plan'[t]) = 0 /\ plan'[t] \in Seq(Steps)
      BY <2>2, <1>2, <1>3 DEF Continue
    <3> QED  BY <3>1, <1>1, <1>2, <1>4 DEF Others
  <2>9. \A k \in Keys : effects[k].rows >= 1 => effects'[k].rows >= 1
    <3>1. effects'[r.key].rows >= 1
      BY <2>7
    <3> QED  BY <3>1, <2>7
  <2>10. \A u \in Threads : Calling(u)'
    <3>1. Len(plan'[t]) = 0
      BY <2>8
    <3>2. effects'[r.key].rows >= 1
      BY <2>7
    <3>3. Calling(t)'
      BY <3>1, <3>2, <2>8, <1>8 DEF Calling
    <3> QED  BY <3>3, <2>8, <2>9, OthersCall
  <2>11. ASSUME NEW k \in Keys, ~effects'[k].upset
         PROVE  Orderly(k)'
    <3>1. CASE k # r.key
      <4>1. ~Calls(t, k) /\ ~Calls(t, k)'
        BY <3>1, <2>8, <1>1 DEF Calls
      <4>2. Orderly(k) /\ effects'[k] = effects[k]
        BY <3>1, <2>7, <2>11 DEF ToolInv
      <4> QED  BY <4>1, <4>2, <2>8, <1>2, OtherKey
    <3>2. CASE k = r.key
      <4>1. Calls(t, k) /\ Calls(t, k)'
        BY <3>2, <2>1, <2>4, <2>8, <1>1, <1>2 DEF Calls
      <4>2. /\ memo[k] = "none" /\ effects[k].rows = Wrote(t)
            /\ \A u \in Threads : Calls(u, k) => u = t
        BY <4>1, <3>2, <2>7, <2>11, KeyIsOwn
      <4>3. Wrote(t) = 0 /\ Wrote(t)' = 1
        BY <2>1, <2>4, <2>8 DEF Wrote
      <4>4. \A u \in Threads : Calls(u, k)' => u = t
        BY <4>2, <2>8 DEF Others, Calls
      <4>5. effects'[k].rows = 1
        BY <4>2, <4>3, <3>2, <2>7
      <4> QED  BY <4>1, <4>2, <4>3, <4>4, <4>5, <1>2, OneCall
    <3> QED  BY <3>1, <3>2
  <2>12. \A k \in Keys : memo'[k] = "ok" => effects'[k].rows >= 1
    <3>1. \A k \in Keys : memo[k] = "ok" => effects[k].rows >= 1
      BY DEF ToolInv
    <3>2. effects'[r.key].rows >= 1
      BY <2>7
    <3> QED  BY <3>1, <3>2, <2>7, <1>2
  <2> QED  BY <2>6, <2>10, <2>11, <2>12 DEF ToolInv, ToolsAreOpen
<1> QED  BY <1>7, <1>8

\* A call begins without its key.
LEMMA BeginCalls ==
  ASSUME IInv, ToolInv, NEW t \in Threads, Begin(t)
  PROVE  ToolInv'
<1>1. PICK r, mm : /\ r = Req(t)
                   /\ mm = [Idle EXCEPT !.on = TRUE, !.outcome = r.told,
                              !.from = Len(log),
                              !.seen = IF r.project \in Projects
                                       THEN {status[r.project]} ELSE {}]
  OBVIOUS
<1>2. /\ ~mind[t].on /\ inbox[t] # <<>>
      /\ plan' = [plan EXCEPT ![t] = PlanOf(r)]
      /\ mind' = [mind EXCEPT ![t] = mm]
      /\ inbox' = inbox /\ memo' = memo /\ effects' = effects /\ log' = log
  BY <1>1 DEF Begin
<1>3. mm.on /\ ~mm.keyed /\ mm.ok
  BY <1>1 DEF Idle
<1>4. mind \in [Threads -> Mind] /\ plan \in [Threads -> Seq(Steps)]
  BY DEF IInv, TypeOK
<1>5. /\ mind'[t] = mm /\ plan'[t] = PlanOf(r)
      /\ \A u \in Threads : u # t => plan'[u] = plan[u] /\ mind'[u] = mind[u]
      /\ \A u \in Threads : Req(u)' = Req(u)
  BY <1>2, <1>4 DEF Req
<1>6. Calling(t)'
  <2>1. r.kind = "tool" => Len(plan'[t]) = 5
    <3>1. r \in Request
      <4>1. inbox[t] \in Seq(Request)
        BY DEF IInv, TypeOK
      <4> QED  BY <4>1, <1>1, <1>2 DEF Req
    <3> QED  BY <3>1, <1>5, ToolPlan
  <2>2. CASE r.kind # "tool"
    BY <2>2, <1>1, <1>3, <1>5 DEF Calling
  <2>3. CASE r.kind = "tool"
    <3>1. PICK l : l = Len(plan'[t])
      OBVIOUS
    <3>2. l = 5
      BY <3>1, <2>1, <2>3
    <3>3. l \notin 1..3 /\ l # 1 /\ l # 0
      BY <3>2
    <3> QED  BY <3>1, <3>3, <1>1, <1>3, <1>5 DEF Calling
  <2> QED  BY <2>2, <2>3
<1>7. \A u \in Threads : Calling(u)'
  <2> SUFFICES ASSUME NEW u \in Threads, u # t
               PROVE  Calling(u)'
    BY <1>6
  <2>1. Calling(u) /\ plan'[u] = plan[u] /\ mind'[u] = mind[u]
    BY <1>5 DEF ToolInv
  <2> QED  BY <2>1, <1>2, <1>5 DEF Calling
<1>8. \A k \in Keys : Orderly(k) => Orderly(k)'
  <2>1. Others(t)
    BY <1>5 DEF Others
  <2>2. \A k \in Keys : ~Calls(t, k) /\ ~Calls(t, k)'
    BY <1>2, <1>3, <1>5 DEF Calls
  <2> QED  BY <2>1, <2>2, <1>2, OtherKey
<1> QED  BY <1>2, <1>7, <1>8 DEF ToolInv

\* What a finished call remembers is what it did.
LEMMA FinishCalls ==
  ASSUME IInv, ToolInv, NEW t \in Threads, Finish(t)
  PROVE  ToolInv'
<1>1. PICK r, m : r = Req(t) /\ m = mind[t]
  OBVIOUS
<1>2. /\ m.on /\ plan[t] = <<>> /\ plan' = plan
      /\ memo' = IF m.keyed
                 THEN [memo EXCEPT ![r.key] = IF m.ok THEN "ok" ELSE "denied"]
                 ELSE memo
      /\ inbox' = [inbox EXCEPT ![t] = Tail(@)]
      /\ mind' = [mind EXCEPT ![t] = Idle]
      /\ effects' = effects /\ log' = log
  BY <1>1 DEF Finish
<1>3. /\ mind \in [Threads -> Mind] /\ inbox \in [Threads -> Seq(Request)]
      /\ memo \in [Keys -> {"none", "ok", "denied"}]
      /\ inbox[t] # <<>>
  BY <1>1, <1>2 DEF IInv, TypeOK
<1>4. /\ ~mind'[t].on
      /\ \A u \in Threads : u # t => mind'[u] = mind[u] /\ Req(u)' = Req(u)
  BY <1>2, <1>3 DEF Idle, Req
<1>5. Others(t) /\ \A k \in Keys : ~Calls(t, k)'
  BY <1>2, <1>4 DEF Others, Calls
<1>6. m.keyed => /\ r.key \in Keys /\ Calls(t, r.key)
                 /\ m.ok => effects[r.key].rows >= 1
  <2> SUFFICES ASSUME m.keyed
               PROVE  /\ r.key \in Keys /\ Calls(t, r.key)
                      /\ m.ok => effects[r.key].rows >= 1
    OBVIOUS
  <2>1. Calling(t)
    BY DEF ToolInv
  <2>2. r.kind = "tool"
    BY <2>1, <1>1, <1>2 DEF Calling
  <2>3. r \in Request
    BY <1>1, <1>3 DEF Req
  <2>4. r.key \in Keys
    BY <2>2, <2>3, RequestIs
  <2> QED  BY <2>1, <2>2, <2>4, <1>1, <1>2 DEF Calling, Calls
<1>7. \A k \in Keys : (m.keyed /\ k = r.key) \/ memo'[k] = memo[k]
  BY <1>2, <1>3
<1>8. \A u \in Threads : Calling(u)'
  <2>1. \A k \in Keys : effects[k].rows >= 1 => effects'[k].rows >= 1
    BY <1>2
  <2> QED  BY <2>1, <1>4, <1>5, OthersCall DEF Calling
<1>9. ASSUME NEW k \in Keys
      PROVE  /\ memo'[k] = "ok" => effects'[k].rows >= 1
             /\ ~effects'[k].upset => Orderly(k)'
  <2>1. CASE m.keyed /\ k = r.key
    <3>1. memo'[k] = IF m.ok THEN "ok" ELSE "denied"
      BY <2>1, <1>2, <1>3
    <3>2. ASSUME ~effects'[k].upset
          PROVE  Orderly(k)'
      <4>1. /\ effects[k].rows = Wrote(t)
            /\ \A u \in Threads : Calls(u, k) => u = t
        BY <3>2, <2>1, <1>2, <1>6, KeyIsOwn
      <4>2. \A u \in Threads : ~Calls(u, k)'
        BY <4>1, <1>5 DEF Others, Calls
      <4>3. effects'[k].rows = IF m.ok THEN 1 ELSE 0
        BY <4>1, <1>1, <1>2 DEF Wrote
      <4> QED  BY <4>2, <4>3, <3>1, NoCall
    <3> QED  BY <3>1, <3>2, <2>1, <1>2, <1>6
  <2>2. CASE ~(m.keyed /\ k = r.key)
    <3>1. memo'[k] = memo[k]
      BY <2>2, <1>7
    <3>2. ~Calls(t, k)
      BY <2>2, <1>1 DEF Calls
    <3> QED  BY <3>1, <3>2, <1>2, <1>5, OtherKey DEF ToolInv
  <2> QED  BY <2>1, <2>2
<1> QED  BY <1>2, <1>8, <1>9 DEF ToolInv

\* A call that raises outside of its try is forgotten, with the key upset if
\* it had written.
LEMMA RaisesCalls ==
  ASSUME IInv, ToolInv, NEW t \in Threads, BudgetRaises(t) \/ AuditRaises(t)
  PROVE  ToolInv'
<1>1. PICK r, m, mm : /\ r = Req(t) /\ m = mind[t]
                      /\ mm = [m EXCEPT !.keyed = FALSE, !.ok = FALSE]
  OBVIOUS
<1>2. /\ m.on /\ Forget(t) /\ inbox' = inbox /\ memo' = memo /\ log' = log
      /\ \/ plan[t] # <<>> /\ effects' = effects
         \/ /\ m.keyed /\ plan[t] = <<>>
            /\ effects' = [effects EXCEPT ![r.key].upset = @ \/ m.ok]
  BY <1>1 DEF BudgetRaises, AuditRaises, Runs
<1>3. /\ mind \in [Threads -> Mind] /\ plan \in [Threads -> Seq(Steps)]
      /\ m \in Mind
      /\ effects \in [Keys -> [rows : Nat, upset : BOOLEAN]]
  BY <1>1 DEF IInv, TypeOK
<1>4. mm.on = m.on /\ ~mm.keyed
  BY <1>1, <1>3 DEF Mind
<1>5. mind'[t] = mm /\ plan'[t] = <<>> /\ Others(t)
  <2>1. mind' = [mind EXCEPT ![t] = mm]
    BY <1>1, <1>2 DEF Forget
  <2> QED  BY <2>1, <1>2, <1>3 DEF Forget, Others, Req
<1>6. m.keyed => r.key \in Keys
  <2>1. m.keyed => r.kind = "tool"
    BY <1>1, <1>2 DEF ToolInv, Calling
  <2> QED  BY <2>1, <1>1, <1>2, Running, RequestIs DEF IInv
<1>7. /\ \A k \in Keys : effects'[k].rows = effects[k].rows
      /\ \A k \in Keys : ~effects'[k].upset => ~effects[k].upset
      /\ m.keyed /\ ~effects'[r.key].upset => plan[t] # <<>> \/ ~m.ok
  <2>1. CASE plan[t] # <<>> /\ effects' = effects
    BY <2>1
  <2>2. CASE /\ m.keyed /\ plan[t] = <<>>
             /\ effects' = [effects EXCEPT ![r.key].upset = @ \/ m.ok]
    <3>1. PICK k, e : k = r.key /\ e = [effects[k] EXCEPT !.upset = @ \/ m.ok]
      OBVIOUS
    <3>2. k \in Keys /\ effects' = [effects EXCEPT ![k] = e]
      BY <3>1, <2>2, <1>6
    <3>3. /\ effects'[k] = e /\ e.rows = effects[k].rows
          /\ e.upset <=> effects[k].upset \/ m.ok
          /\ \A x \in Keys : x # k => effects'[x] = effects[x]
      BY <3>1, <3>2, <1>3
    <3> QED  BY <3>1, <3>3
  <2> QED  BY <2>1, <2>2, <1>2
<1>8. \A u \in Threads : Calling(u)'
  <2>1. Calling(t)'
    <3>1. Len(plan'[t]) = 0
      BY <1>5
    <3> QED  BY <3>1, <1>4, <1>5 DEF Calling
  <2>2. \A k \in Keys : effects[k].rows >= 1 => effects'[k].rows >= 1
    BY <1>7
  <2> QED  BY <2>1, <2>2, <1>5, OthersCall
<1>9. \A k \in Keys : ~Calls(t, k)'
  BY <1>4, <1>5 DEF Calls
<1>10. ASSUME NEW k \in Keys, ~effects'[k].upset
       PROVE  Orderly(k)'
  <2>1. Orderly(k) /\ ~effects[k].upset
    BY <1>7, <1>10 DEF ToolInv
  <2>2. CASE ~Calls(t, k)
    BY <2>1, <2>2, <1>2, <1>5, <1>7, <1>9, OtherKey
  <2>3. CASE Calls(t, k)
    <3>1. /\ memo[k] = "none" /\ effects[k].rows = Wrote(t)
          /\ \A u \in Threads : Calls(u, k) => u = t
      BY <2>1, <2>3, KeyIsOwn
    <3>2. Wrote(t) = 0
      BY <2>3, <1>1, <1>7, <1>10 DEF Calls, Wrote
    <3>3. \A u \in Threads : ~Calls(u, k)'
      BY <3>1, <1>5, <1>9 DEF Others, Calls
    <3> QED  BY <3>1, <3>2, <3>3, <1>2, <1>7, NoCall
  <2> QED  BY <2>2, <2>3
<1>11. \A k \in Keys : memo'[k] = "ok" => effects'[k].rows >= 1
  BY <1>2, <1>7 DEF ToolInv
<1> QED  BY <1>2, <1>8, <1>10, <1>11 DEF ToolInv

\* After a restart nothing is remembered and nothing was done.
LEMMA RestartCalls ==
  ASSUME IInv, ToolInv, Restart
  PROVE  ToolInv'
<1>1. /\ mind' = [t \in Threads |-> Idle] /\ log' = log
      /\ memo' = [k \in Keys |-> "none"]
      /\ effects' = [k \in Keys |-> NoEffect]
  BY DEF Restart
<1>2. \A u \in Threads : ~mind'[u].on
  BY <1>1 DEF Idle
<1>3. \A u \in Threads : Calling(u)'
  BY <1>2 DEF Calling
<1>4. \A k \in Keys : \A u \in Threads : ~Calls(u, k)'
  BY <1>2 DEF Calls
<1>5. \A k \in Keys : memo'[k] = "none" /\ effects'[k].rows = 0
  BY <1>1 DEF NoEffect
<1>6. \A k \in Keys : Orderly(k)'
  BY <1>4, <1>5, NoCall
<1> QED  BY <1>1, <1>3, <1>5, <1>6 DEF ToolInv

\* A status change is seen by the calls under way.
LEMMA TransitionCalls ==
  ASSUME IInv, ToolInv, NEW p \in Projects, Transition(p)
  PROVE  ToolInv'
<1>1. PICK st : mind' = [t \in Threads |->
                  IF mind[t].on /\ Req(t).project = p
                  THEN [mind[t] EXCEPT !.seen = @ \union {st}] ELSE mind[t]]
  BY DEF Transition
<1>2. /\ inbox' = inbox /\ plan' = plan /\ memo' = memo
      /\ effects' = effects /\ log' = log
  BY DEF Transition
<1>3. \A u \in Threads :
        /\ mind'[u].on = mind[u].on /\ mind'[u].keyed = mind[u].keyed
        /\ mind'[u].ok = mind[u].ok /\ mind'[u].state = mind[u].state
        /\ mind[u].seen \subseteq mind'[u].seen
        /\ Req(u)' = Req(u)
  <2> SUFFICES ASSUME NEW u \in Threads
               PROVE  /\ mind'[u].on = mind[u].on
                      /\ mind'[u].keyed = mind[u].keyed
                      /\ mind'[u].ok = mind[u].ok
                      /\ mind'[u].state = mind[u].state
                      /\ mind[u].seen \subseteq mind'[u].seen
    BY <1>2 DEF Req
  <2>1. PICK mm : mm = [mind[u] EXCEPT !.seen = @ \union {st}]
    OBVIOUS
  <2>2. mind[u] \in Mind
    BY DEF IInv, TypeOK
  <2>3. /\ mm.on = mind[u].on /\ mm.keyed = mind[u].keyed
        /\ mm.ok = mind[u].ok /\ mm.state = mind[u].state
        /\ mind[u].seen \subseteq mm.seen
    BY <2>1, <2>2 DEF Mind
  <2>4. mind'[u] = mm \/ mind'[u] = mind[u]
    BY <2>1, <1>1
  <2> QED  BY <2>3, <2>4
<1>4. \A u \in Threads : Calling(u)'
  <2> SUFFICES ASSUME NEW u \in Threads
               PROVE  Calling(u)'
    OBVIOUS
  <2>1. Calling(u)
    BY DEF ToolInv
  <2> QED  BY <2>1, <1>2, <1>3 DEF Calling
<1>5. \A u \in Threads, k \in Keys : Calls(u, k)' <=> Calls(u, k)
  BY <1>3 DEF Calls
<1>6. \A u \in Threads : Wrote(u)' = Wrote(u)
  BY <1>2, <1>3 DEF Wrote
<1>7. \A k \in Keys : Orderly(k) => Orderly(k)'
  BY <1>2, <1>5, <1>6 DEF Orderly
<1> QED  BY <1>2, <1>4, <1>7 DEF ToolInv

\* GovernedWriteToolService.call_tool: what is remembered of a call is what
\* was done under its key, for any number of callers, keys, repetitions and
\* failures.
THEOREM ToolsDoWhatTheySay ==
  Spec => []ToolResultIsTheEffect
<1>1. Init => ToolInv
  <2> SUFFICES ASSUME Init
               PROVE  ToolInv
    OBVIOUS
  <2>1. PICK c \in Cases : log = c.stage
    BY DEF Init
  <2>2. /\ mind = [t \in Threads |-> Idle]
        /\ memo = [k \in Keys |-> "none"]
        /\ effects = [k \in Keys |-> NoEffect]
    BY DEF Init
  <2>3. CaseOK(c)
    BY RecordConstants
  <2>4. \A i \in DOMAIN log : log[i].by # "tool"
    BY <2>1, <2>3 DEF CaseOK
  <2>5. \A t \in Threads : ~mind[t].on
    BY <2>2 DEF Idle
  <2>6. \A t \in Threads : Calling(t)
    BY <2>5 DEF Calling
  <2>7. \A k \in Keys : Orderly(k)
    BY <2>2, <2>5 DEF Orderly, Calls, NoEffect
  <2> QED  BY <2>2, <2>4, <2>6, <2>7 DEF ToolInv
<1>2. IInv /\ ToolInv /\ [Next]_vars => ToolInv'
  <2> SUFFICES ASSUME IInv, ToolInv, [Next]_vars
               PROVE  ToolInv'
    OBVIOUS
  <2>1. ASSUME NEW t \in Threads,
               VerifyCsoReviewRecord(t) \/ ReadCsoReviewOutcome(t)
        PROVE  ToolInv'
    BY <2>1, ReviewCalls DEF VerifyCsoReviewRecord, ReadCsoReviewOutcome
  <2>2. ASSUME NEW t \in Threads,
               Begin(t) \/ Finish(t) \/ Gate(t) \/ Skip(t)
        PROVE  ToolInv'
    BY <2>2, BeginCalls, FinishCalls, GateCalls, SkipCalls
  <2>3. ASSUME NEW t \in Threads,
               CountConflicts(t) \/ CycleGate(t) \/ ResolveState(t)
        PROVE  ToolInv'
    BY <2>3, CountingCalls
  <2>4. ASSUME NEW t \in Threads,
               ResolveProject(t) \/ Replay(t) \/ ReserveBudget(t)
        PROVE  ToolInv'
    BY <2>4, ResolveCalls, ReplayCalls, GateCalls
  <2>5. ASSUME NEW t \in Threads,
               \/ CountRevisions(t) \/ WriteFile(t) \/ StoreFails(t)
               \/ InsertRow(t)
        PROVE  ToolInv'
    BY <2>5, WriteCalls, InsertCalls
  <2>6. ASSUME NEW t \in Threads,
               \/ BindWorkforce(t) \/ Quarantine(t) \/ BlockTask(t)
               \/ BudgetRaises(t) \/ AuditRaises(t)
        PROVE  ToolInv'
    BY <2>6, RegistryCalls, RaisesCalls
  <2>7. ASSUME Restart \/ \E p \in Projects : Transition(p)
        PROVE  ToolInv'
    BY <2>7, RestartCalls, TransitionCalls
  <2>8. CASE UNCHANGED vars
    BY <2>8 DEF vars, ToolInv, Calling, Calls, Req, Orderly, Wrote
  <2> QED  BY <2>1, <2>2, <2>3, <2>4, <2>5, <2>6, <2>7, <2>8 DEF Next
<1>3. ToolInv => ToolResultIsTheEffect
  BY DEF ToolInv, Orderly, ToolResultIsTheEffect
<1> QED  BY <1>1, <1>2, <1>3, RecordsInvariant, PTL DEF Spec

=============================================================================
