------------------------- MODULE MCGovernanceRecords ------------------------
(***************************************************************************)
(* A small instance of GovernanceRecords for TLC.                          *)
(***************************************************************************)
EXTENDS GovernanceRecords, TLC

CONSTANTS th1, th2, p1, prop, edit, task, call, other

\* The policy, with smaller caps.
Caps ==
  [ty \in AppendOnly \union GovernanceEvents \union ManagerForbidden
            \union Conditional |->
     CASE ty \in {"progress_report", "decision_log"} -> 2
       [] ty \in GovernanceEvents -> 3
       [] OTHER -> 1]

Wrote(ty, topic, words, i) ==
  [project |-> p1, type |-> ty, about |-> topic, says |-> words,
   by |-> "before", n |-> <<i>>, from |-> 0, outcome |-> "none",
   override |-> FALSE, open |-> TRUE]

Approved == <<Wrote("cso_review", prop, "Aligned", 1),
              Wrote("ceo_proposal_decision", prop, "approved", 2)>>
Disputed == <<Wrote("cso_review", prop, Conflict, 1),
              Wrote("ceo_proposal_decision", prop, "needs_revision", 2)>>
DisputedTwice ==
  Append(Disputed, Wrote("ceo_proposal_decision", prop, "needs_revision", 3))

Completed ==
  Append(Approved, Wrote("completion_report", "none", "document", 3))

Plain ==
  [kind |-> "cso", project |-> p1, about |-> prop, outcome |-> "Aligned",
   decision |-> "approved", told |-> "none", override |-> FALSE,
   state |-> "none", risk |-> FALSE, package |-> TRUE, evidence |-> {},
   type |-> "none", severity |-> "high", terminated |-> FALSE, key |-> "none",
   principal |-> "ceo", recipient |-> "ceo"]

Submit == [Plain EXCEPT !.kind = "cwo"]
Again == [Submit EXCEPT !.outcome = Conflict, !.decision = "needs_revision"]
Decide == [Plain EXCEPT !.kind = "ceo"]
Readiness == [Plain EXCEPT !.kind = "cwo_initialization", !.about = edit]
CeoAgrees == [Plain EXCEPT !.kind = "ceo_coapproval", !.about = edit]
CwoAgrees == [Plain EXCEPT !.kind = "cwo_coapproval", !.about = edit]
Report == [Plain EXCEPT !.kind = "pm_mutation", !.about = "none",
                        !.type = "progress_report"]
Controlled == [Report EXCEPT !.kind = "pm_document", !.type = "budget_plan",
                             !.evidence = {"ceo", "cwo"}]
Complete == [Plain EXCEPT !.kind = "pm_completion", !.about = "none",
                          !.state = "active"]
Violation == [Plain EXCEPT !.kind = "behavioral_violation", !.about = task]
Breach == [Violation EXCEPT !.kind = "budget_breach", !.severity = "critical"]
Tool == [Plain EXCEPT !.kind = "tool", !.about = "none", !.key = call,
                      !.type = "decision_log", !.recipient = "project_manager"]

\* The table that holds the documents of stage s.
RowsAt(s) ==
  [p \in Projects |-> [ty \in Types |->
     LET Here(e) == e.project = p /\ e.type = ty
         mine == SelectSeq(s, Here)
     IN  [i \in DOMAIN mine |-> DocOf(mine[i])]]]

\* th1 does a while th2 does b.
Case(stage, a, b, changes, faults) ==
  [requests |-> th1 :> a @@ th2 :> b, stage |-> stage, rows |-> RowsAt(stage),
   status |-> "active", changes |-> changes, faults |-> faults]

\* The threads compete for a proposal, for the revisions of one type, for the
\* co-approvals, for the registry, for the same finding, for one key.
Given ==
  {Case(Disputed, <<Again, Again>>, <<[Plain EXCEPT !.outcome = Conflict]>>,
        0, 0),
   Case(DisputedTwice, <<Again, [Again EXCEPT !.override = TRUE]>>,
        <<Again>>, 0, 0),
   Case(<<>>, <<Submit>>, <<Again>>, 0, 1),
   Case(<<>>, <<Submit, Readiness>>, <<Complete>>, 0, 0),
   Case(<<>>, <<[Submit EXCEPT !.decision = "denied"], Readiness>>,
        <<Complete>>, 0, 0),
   Case(<<>>, <<Decide, [Decide EXCEPT !.told = Conflict]>>, <<Plain>>, 0, 1),
   Case(Completed, <<Readiness, CeoAgrees>>, <<CwoAgrees>>, 0, 1),
   Case(Completed, <<Readiness, [Plain EXCEPT !.kind = "quarantine"]>>,
        <<Readiness>>, 0, 0),
   Case(<<>>, <<Tool, Tool>>, <<[Report EXCEPT !.risk = TRUE]>>, 1, 1),
   Case(<<>>, <<Tool, [Tool EXCEPT !.principal = "auditor"]>>,
        <<[Tool EXCEPT !.key = other]>>, 1, 1),
   Case(<<>>, <<Tool, Tool>>, <<Tool>>, 0, 1),
   Case(<<>>, <<[Tool EXCEPT !.type = "cwo_coapproval", !.about = edit],
                CeoAgrees>>, <<CwoAgrees>>, 1, 0),
   Case(<<>>, <<[Report EXCEPT !.type = "cwo_coapproval", !.about = edit]>>,
        <<CeoAgrees>>, 0, 0),
   Case(<<>>, <<Violation, [Violation EXCEPT !.project = "none"]>>,
        <<Violation>>, 0, 1),
   Case(<<>>, <<Breach>>,
        <<[Violation EXCEPT !.kind = "governance_violation"]>>, 0, 0),
   Case(<<>>, <<[Breach EXCEPT !.about = "none"],
                [Breach EXCEPT !.project = "none"]>>,
        <<[Violation EXCEPT !.kind = "document_violation"]>>, 0, 0),
   Case(<<>>, <<[Violation EXCEPT !.kind = "unknown_event"],
                [Tool EXCEPT !.project = "none"]>>,
        <<[Plain EXCEPT !.kind = "retention", !.terminated = TRUE]>>, 1, 0),
   Case(Completed, <<Controlled, Report>>, <<Complete, Complete>>, 1, 0),
   Case(<<>>, <<Report, Complete>>, <<Complete, Report>>, 0, 1),
   Case(<<>>, <<[Controlled EXCEPT !.evidence = {"ceo"}]>>,
        <<[Plain EXCEPT !.project = "none"]>>, 0, 0)}

\* An auditor that is told twice of one violation, with one failure.
ToldTwice == {Case(<<>>, <<Violation, Violation>>, <<>>, 0, 1)}

=============================================================================
