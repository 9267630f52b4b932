------------------------------ MODULE MCIngress -----------------------------
(***************************************************************************)
(* A small instance of Ingress for TLC.                                    *)
(***************************************************************************)
EXTENDS Ingress, TLC

CONSTANTS th1, th2, ann, council, chat

ClassOf == council :> "leadership_council" @@ chat :> "project"

\* A command of ann that nothing is wrong with, to be varied.
Plain ==
  [kind |-> "command", ask |-> FALSE, connector |-> "discord", actor |-> ann,
   channel |-> chat, bot |-> "none", everyone |-> FALSE, signed |-> TRUE,
   wellFormed |-> TRUE, to |-> "none", names_project |-> TRUE, bound |-> TRUE,
   hits |-> [r \in AdvisoryRoles |-> 0], query_ |-> FALSE,
   header_role |-> "owner"]

Text == [Plain EXCEPT !.kind = "freetext", !.hits["ceo"] = 1]

\* One message for each way through the routers.
Every ==
  {Plain, [Plain EXCEPT !.channel = council, !.bound = FALSE],
   [Plain EXCEPT !.signed = FALSE], [Plain EXCEPT !.wellFormed = FALSE],
   [Plain EXCEPT !.names_project = FALSE, !.bound = FALSE],
   [Plain EXCEPT !.kind = "context"],
   [Plain EXCEPT !.kind = "context", !.signed = FALSE],
   [Plain EXCEPT !.ask = TRUE, !.to = "auditor"],
   [Plain EXCEPT !.ask = TRUE, !.to = "secretary"],
   [Plain EXCEPT !.ask = TRUE, !.to = "ceo", !.signed = FALSE],
   Text, [Text EXCEPT !.everyone = TRUE, !.signed = FALSE],
   [Text EXCEPT !.everyone = TRUE, !.bot = "auditor"],
   [Text EXCEPT !.bot = "ceo", !.signed = FALSE],
   [Text EXCEPT !.channel = council, !.bot = "ceo"],
   [Text EXCEPT !.channel = council, !.hits["auditor"] = 2, !.bound = FALSE],
   [Text EXCEPT !.channel = council, !.hits["auditor"] = 2],
   [Text EXCEPT !.channel = council, !.signed = FALSE, !.bound = FALSE],
   [Plain EXCEPT !.kind = "api", !.query_ = TRUE],
   [Plain EXCEPT !.kind = "api", !.connector = "internal",
                 !.header_role = "ceo"],
   [Plain EXCEPT !.kind = "api", !.wellFormed = FALSE]}

\* The second thread competes for the mapping, or for the cached intent.
Competing == {Plain, [Text EXCEPT !.channel = council, !.bound = FALSE,
                                  !.hits["cwo"] = 1]}

Sent == th1 :> Every @@ th2 :> Competing

=============================================================================
