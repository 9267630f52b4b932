--------------------------- MODULE MCConversations --------------------------
(***************************************************************************)
(* A small instance of Conversations for TLC.                              *)
(***************************************************************************)
EXTENDS Conversations, TLC

CONSTANTS r1, r2, r3, r4, r5, ch, other, doc, project

Agent == [kind |-> "agent", scope |-> ch, command |-> "none",
          role |-> "ceo", prompt |-> "plain", project |-> "none",
          valid |-> TRUE, profile |-> "dev_gemini_free", reserves |-> FALSE]
Nobody == [Agent EXCEPT !.kind = "nobody"]
Secretary == [Agent EXCEPT !.kind = "secretary", !.role = "secretary"]
Elsewhere == [Agent EXCEPT !.scope = other]
Chat == [Agent EXCEPT !.kind = "dispatch", !.command = "llm_chat",
                      !.role = "runtime_agent", !.reserves = TRUE]
Reason == [Chat EXCEPT !.command = "llm_reason", !.role = "ceo",
                       !.project = project]
Tool == [Chat EXCEPT !.command = "tool_read", !.role = "auditor"]

\* The requests of the threads after the earlier exchanges of ch.
Case(earlier, asked, answers, summarises, failures) ==
  [requests |-> [r \in Requests |-> IF r \in DOMAIN asked
                                      THEN asked[r] ELSE Nobody],
   earlier |-> earlier, answers |-> answers, summarises |-> summarises,
   backend |-> "gemini_flash_free", faults |-> failures]

One == r1 :> 1
Two == r1 :> 1 @@ r2 :> 2
Three == Two @@ r3 :> 3

Given ==
  \* three appends overlap
  {Case(Two, r3 :> Agent @@ r4 :> Chat @@ r5 :> Secretary, {"ok"}, TRUE, 0),
   \* windows follow one another, one append fails
   Case(One, r2 :> Agent @@ r3 :> Secretary @@ r4 :> Elsewhere, {"ok"},
        TRUE, 1),
   \* a window fills between the two reads of the worker
   Case(One, r2 :> Agent @@ r3 :> Secretary @@ r4 :> Chat, {"ok"}, TRUE, 0),
   Case(Three, r4 :> Chat @@ r5 :> Agent, {"ok"}, TRUE, 2),
   Case(Three, r4 :> Agent @@ r5 :> Reason, {"ok"}, FALSE, 1),
   \* the provider fails
   Case(Three, r4 :> Agent @@ r5 :> Reason, ProviderAnswers, TRUE, 0),
   Case(Three, r5 :> Reason, ProviderAnswers, TRUE, 1),
   Case(Three, r5 :> [Reason EXCEPT !.role = "specialist"], {"ok"}, TRUE, 1),
   Case(Three, r4 :> [Agent EXCEPT !.profile = "prod_controlled"]
                 @@ r5 :> Secretary,
        ProviderAnswers, FALSE, 0),
   [Case(Three, r4 :> Agent @@ r5 :> Chat, {"ok"}, FALSE, 0)
      EXCEPT !.backend = "keyless"]}
  \union
  \* the guards of dispatch
  {Case(Three, r4 :> q @@ r5 :> Chat, {"ok", "transient"}, FALSE, 0) :
     q \in {Tool, [Tool EXCEPT !.role = "specialist"],
            [Chat EXCEPT !.prompt = "injection"],
            [Reason EXCEPT !.prompt = "mutation"],
            [Reason EXCEPT !.project = "none"],
            [Reason EXCEPT !.prompt = "mutation",
                           !.command = "llm_reason_more"],
            [Chat EXCEPT !.profile = "unknown"],
            [Chat EXCEPT !.valid = FALSE]}}

=============================================================================
