------------------------------- MODULE Ingress ------------------------------
(***************************************************************************)
(* The way of a message from a connector to an answer: the Discord ingress *)
(* router (explicit /oq commands, free text, advisory shortcuts), the      *)
(* owner-command router behind it, and the identity table both rely on.    *)
(* A message ends refused, answered by an agent, or accepted: handed to    *)
(* the admission service, which module Admission describes.                *)
(*                                                                         *)
(* The handlers run in the threads of the API process.  What a thread      *)
(* reads from the database it reads in a transaction of its own, while     *)
(* operators verify and revoke identities and projects change status, so   *)
(* each read is a step.                                                    *)
(***************************************************************************)
EXTENDS Integers, ProjectStatus

CONSTANTS
  Threads,        \* request threads of the API process
  Actors,         \* external actor ids
  Channels,       \* channels (guild, channel and type together)
  chat_class,     \* the chat class of a channel
  PrincipalRoles, \* bound: the roles of actors that were verified before
  Visited,        \* bound: the statuses in which requests find the project
  MaxChanges,     \* bound: changes around the requests
  Messages        \* Messages[t]: what thread t may receive, see Message

Roles == {"owner", "administrator", "auditor", "ceo", "cwo", "cso",
          "secretary", "project_manager", "domain_leader", "specialist"}
AdvisoryRoles == {"ceo", "cwo", "auditor", "administrator", "cso",
                  "project_manager"}
Intents == {"discussion", "query", "mutation", "admin"}
ChatClasses == {"direct", "leadership_council", "governance", "executive",
                "project"}

\* A message.  signed: the headers are there, agree with the payload and the
\* signature fits.  wellFormed: a /oq command parses, and the envelope has
\* no blank or contradicting field.  to: the addressed agent or recipient
\* role.  hits: how many keywords of each agent the text has.  bot: the role
\* of the bot that forwards it.  names_project: the
\* payload carries a project id.  bound: the routing resolver finds an
\* active binding of the channel.  query_: the action has that prefix.
\* header_role is only sent by the internal connector.
Message ==
  [kind : {"context", "command", "freetext", "api"}, ask : BOOLEAN,
   connector : {"discord", "internal"}, actor : Actors, channel : Channels,
   bot : Roles \union {"none"}, everyone : BOOLEAN, signed : BOOLEAN,
   wellFormed : BOOLEAN, to : Roles \union {"none"}, names_project : BOOLEAN,
   hits : [AdvisoryRoles -> 0..9], bound : BOOLEAN, query_ : BOOLEAN,
   header_role : Roles]

ASSUME IngressConstants ==
  /\ chat_class \in [Channels -> ChatClasses]
  /\ PrincipalRoles \subseteq Roles
  /\ Visited \subseteq ProjectStatuses \union {"absent"}
  /\ MaxChanges \in Nat
  /\ \A t \in Threads : Messages[t] \subseteq Message /\ Messages[t] # {}

VARIABLES
  at,        \* at[t]: the next step of thread t, or how its request ended
  msg,       \* msg[t]: the message it handles
  intent,    \* intent[t]: the intent class of a free text
  role,      \* role[t]: the resolved principal_role
  by,        \* by[t]: the agent whose text answered the message
  mapping,   \* the identity_channels table
  recency,   \* recency[k]: the place of row k by updated_at, 0 for the last
  cache,     \* IntentClassifier._cache
  project,   \* status of the project, "absent" without a row
  changes,   \* changes so far
  word,      \* observation: the last status the operator gave a mapping
  seen       \* observation: what has been true since the request began

vars == <<at, msg, intent, role, by, mapping, recency, cache, project,
          changes, word, seen>>
observed == <<changes, word, seen>>
thread == <<msg, intent, role, by>>

Keys == Actors \X Channels
Finished == {"refused", "answered", "accepted", "error"}
MappingStatuses == {"absent", "pending", "verified", "revoked"}

\* No row.
NoMapping == [status |-> "absent", role |-> "none"]

Key(t)   == <<msg[t].actor, msg[t].channel>>
Class(t) == chat_class[msg[t].channel]
\* What is true now of the identity and project that message m depends on;
\* seen gathers it while a request is being handled.
Now(m) ==
  [roles   |-> {mapping[k].role : k \in {x \in {m.actor} \X Channels :
                                           mapping[x].status = "verified"}},
   allowed |-> {mapping[<<m.actor, m.channel>>].status # "revoked"},
   project |-> {project}]

\* Something changes that requests depend on, while there are some.
Change ==
  /\ changes < MaxChanges
  /\ \E t \in Threads : at[t] \notin Finished
  /\ changes' = changes + 1
  /\ seen' = [t \in Threads |->
               IF at[t] \in Finished \union {"idle"} THEN seen[t]
               ELSE [f \in DOMAIN seen[t] |->
                       seen[t][f] \union Now(msg[t])'[f]]]

-----------------------------------------------------------------------------
(***************************************************************************)
(* The identity table (PostgresIdentityMappingRepository).                 *)
(***************************************************************************)
Touch(k) ==
  [x \in Keys |-> IF x = k THEN 0
                  ELSE recency[x] + IF recency[x] <= recency[k] THEN 1 ELSE 0]

\* The rows among S that were updated last.
Newest(S) == {k \in S : \A x \in S : recency[k] <= recency[x]}

\* Mutated form: the newest mapping of the actor, whatever its status.
AnyMapping(a) ==
  Newest({k \in Keys : k[1] = a /\ mapping[k].status # "absent"})

\* get_by_connector_actor: the verified mapping of an actor that was updated
\* last, in whatever channel; of rows written at the same time, either.
get_by_connector_actor(a) ==
  Newest({k \in Keys : k[1] = a /\ mapping[k].status = "verified"})

\* The role the actor has now, as a set.
CurrentRole(a) == {mapping[k].role : k \in get_by_connector_actor(a)}

\* An operator changes the status of a row that exists.  Rows are never
\* deleted, so the look-up and the UPDATE are one step.
set_mapping_status(k, s) ==
  /\ mapping[k].status # "absent"
  /\ mapping' = [mapping EXCEPT ![k].status = s]
  /\ recency' = Touch(k)
  /\ word' = [word EXCEPT ![k] = s]
  /\ UNCHANGED <<at, thread, cache, project>>
  /\ Change

\* Mutated form: the insert that overwrites the row another request, or the
\* operator, has written since.
UpsertMapping(k) ==
  /\ mapping' = [mapping EXCEPT ![k] = [status |-> "pending",
                                        role |-> "owner"]]
  /\ recency' = Touch(k)

\* The INSERT ... ON CONFLICT DO NOTHING of claim_mapping.
InsertMapping(k) ==
  IF mapping[k].status = "absent"
  THEN /\ mapping' = [mapping EXCEPT ![k] = [status |-> "pending",
                                             role |-> "owner"]]
       /\ recency' = Touch(k)
  ELSE UNCHANGED <<mapping, recency>>
-----------------------------------------------------------------------------
(***************************************************************************)
(* Steps of a thread.                                                      *)
(***************************************************************************)
Goto(t, where) == at' = [at EXCEPT ![t] = where]

\* A step of the thread that changes nothing but where it is.
Plainly(t, where) ==
  /\ Goto(t, where)
  /\ UNCHANGED <<thread, mapping, recency, cache, project, observed>>

Answer(t, agent) ==
  /\ Goto(t, "answered")
  /\ by' = [by EXCEPT ![t] = agent]
  /\ UNCHANGED <<msg, intent, role, mapping, recency, cache, project,
                 observed>>

\* validate_connector_auth: TRUE when it does not raise.
validate_connector_auth(m) == m.signed

\* A request begins, one per thread.
Receive(t, m) ==
  /\ at[t] = "idle"
  /\ Goto(t, IF m.kind = "api" THEN "resolve" ELSE m.kind)
  /\ msg' = [msg EXCEPT ![t] = m]
  /\ seen' = [seen EXCEPT ![t] = Now(m)]
  /\ UNCHANGED <<intent, role, by, mapping, recency, cache, project, changes,
                 word>>

\* /oq context from:#channel
ContextFrom(t) ==
  /\ at[t] = "context"
  /\ \/ validate_connector_auth(msg[t]) /\ Answer(t, "none")
     \/ ~validate_connector_auth(msg[t]) /\ Plainly(t, "refused")

\* Any other /oq command: parsed, and unless it asks an advisory agent,
\* submitted as an owner command.
ParseCommand(t) ==
  /\ at[t] = "command"
  /\ Plainly(t, IF ~msg[t].wellFormed THEN "refused"
                ELSE IF msg[t].ask
                        /\ msg[t].to \in AdvisoryRoles \union {"secretary"}
                THEN "ask" ELSE "resolve")

\* /oq ask <role>: the agent answers, or an apology in its name does.
AskAgent(t) ==
  /\ at[t] = "ask"
  /\ \/ ~validate_connector_auth(msg[t]) /\ Plainly(t, "refused")
     \/ /\ validate_connector_auth(msg[t])
        /\ IF msg[t].to = "secretary" THEN Plainly(t, "ask_secretary")
                                      ELSE Answer(t, msg[t].to)
-----------------------------------------------------------------------------
(***************************************************************************)
(* Intent classification.  The classifier is asked about a text in a       *)
(* channel, here one text per channel.  It answers from its cache, else it *)
(* asks the model, which may be unavailable.                               *)
(***************************************************************************)
\* Mutated form: the result is stored before a mutation is rejected.
CacheThenRaise(x, i) ==
  \/ i = cache[x] /\ UNCHANGED cache
  \/ /\ cache[x] = "none"
     /\ \/ i = "discussion" /\ UNCHANGED cache
        \/ cache' = [cache EXCEPT ![x] = i]

\* IntentClassifier.classify returns, or raises with, intent i.
Classified(x, i) ==
  \/ i = cache[x] /\ UNCHANGED cache
  \/ /\ cache[x] = "none"
     /\ \/ i = "discussion" /\ UNCHANGED cache
        \/ i = "mutation" /\ UNCHANGED cache
        \/ i # "mutation" /\ cache' = [cache EXCEPT ![x] = i]

\* The model called a text that was not in the cache a mutation: GRAM-004.
Raises(x, i) == i = "mutation" /\ cache[x] = "none"

\* A cached result is older than its 60 seconds.
ExpireCache(x) ==
  /\ cache[x] # "none"
  /\ cache' = [cache EXCEPT ![x] = "none"]
  /\ UNCHANGED <<at, thread, mapping, recency, project, word>>
  /\ Change

ClassifyFreeText(t, i) ==
  /\ at[t] = "freetext"
  /\ Classified(msg[t].channel, i)
  /\ Goto(t, IF Raises(msg[t].channel, i) THEN "refused" ELSE "route")
  /\ intent' = [intent EXCEPT ![t] = i]
  /\ UNCHANGED <<msg, role, by, mapping, recency, project, observed>>

\* /oq ask secretary: a text that is taken for a mutation is replaced by a
\* fixed one and classified again, with whatever result; an error then is
\* not caught.
ClassifyAsked(t, i) ==
  /\ \/ /\ at[t] = "ask_secretary"
        /\ Classified(msg[t].channel, i)
        /\ Goto(t, IF Raises(msg[t].channel, i) THEN "ask_again"
                                                ELSE "secretary")
     \/ /\ at[t] = "ask_again"
        /\ Goto(t, IF i = "mutation" THEN "error" ELSE "secretary")
        /\ UNCHANGED cache
  /\ intent' = [intent EXCEPT ![t] = i]
  /\ UNCHANGED <<msg, role, by, mapping, recency, project, observed>>

\* FreeTextRouter.resolve
Target(class, i) ==
  CASE class = "project" -> "project_manager"
    [] class \in {"leadership_council", "executive"}
         /\ i \in {"mutation", "admin"} -> "cso"
    [] OTHER -> "secretary"

\* Mutated form: the bot's agent is asked before the signature is looked at.
BotAnswersAnyone(t) == Answer(t, msg[t].bot)

\* The agent of the bot that forwarded the text answers, or an apology in its
\* name does.
BotAnswers(t) ==
  \/ validate_connector_auth(msg[t]) /\ Answer(t, msg[t].bot)
  \/ ~validate_connector_auth(msg[t]) /\ Plainly(t, "refused")

\* Free text that an agent's bot forwards: a broadcast to everyone; text the
\* bot worker matched to the agent's topic (the administrator is not in that
\* block); and what is left, a failure of the block before included.
Forwarded(t) == at[t] = "route" /\ msg[t].bot \in AdvisoryRoles

BroadcastAnswers(t) == Forwarded(t) /\ msg[t].everyone /\ BotAnswers(t)

ForwardedAnswers(t) ==
  /\ Forwarded(t) /\ ~msg[t].everyone
  /\ Target(Class(t), intent[t]) = "secretary"
  /\ validate_connector_auth(msg[t]) => msg[t].bot # "administrator"
  /\ BotAnswers(t)

BypassAnswers(t) == Forwarded(t) /\ ~msg[t].everyone /\ BotAnswers(t)

is_role_available_in_channel(r, inProject) ==
  ~(inProject /\ r \in {"auditor", "administrator"})

\* AdvisoryTopicRouter.classify: the agent with the most keywords, none for
\* a text without keywords or with a tie.
classify(hits) ==
  {r \in AdvisoryRoles :
     hits[r] > 0 /\ \A q \in AdvisoryRoles \ {r} : hits[q] < hits[r]}

\* Text for the secretary, not forwarded by an agent's bot: a topic that is
\* one agent's goes to that agent if it may speak in this channel, to a
\* referral if not; no topic, a tie or a failing agent, to the secretary.
ForSecretary(t) ==
  at[t] = "route" /\ msg[t].bot \notin AdvisoryRoles
    /\ Target(Class(t), intent[t]) = "secretary"

TopicAnswers(t) ==
  /\ ForSecretary(t) /\ validate_connector_auth(msg[t])
  /\ \E r \in classify(msg[t].hits) :
       IF is_role_available_in_channel(r, msg[t].bound)
       THEN r # "administrator" /\ Answer(t, r)
       ELSE Answer(t, "none")

NoTopicAnswer(t) ==
  /\ ForSecretary(t)
  /\ \A r \in classify(msg[t].hits) :
       validate_connector_auth(msg[t])
         => is_role_available_in_channel(r, msg[t].bound)
  /\ Plainly(t, IF validate_connector_auth(msg[t]) THEN "secretary"
                                                   ELSE "refused")

\* SecretaryAgent.handle refuses mutation and administration.
SecretaryAnswers(t) ==
  /\ at[t] = "secretary"
  /\ \/ intent[t] \in {"mutation", "admin"} /\ Plainly(t, "refused")
     \/ intent[t] \in {"discussion", "query"} /\ Answer(t, "secretary")

\* Free text for another agent than the secretary becomes an owner command.
SubmitFreeText(t) ==
  /\ at[t] = "route"
  /\ msg[t].bot \notin AdvisoryRoles
  /\ Target(Class(t), intent[t]) # "secretary"
  /\ Plainly(t, IF msg[t].everyone => validate_connector_auth(msg[t])
                THEN "resolve" ELSE "refused")
-----------------------------------------------------------------------------
(***************************************************************************)
(* submit_owner_command.                                                   *)
(***************************************************************************)
\* The connector is authenticated and the principal resolved: an external
\* actor needs a verified mapping, whose role it gets.
ResolvePrincipal(t) ==
  /\ at[t] = "resolve"
  /\ validate_connector_auth(msg[t])
  /\ \E r \in IF msg[t].connector = "internal" THEN {msg[t].header_role}
              ELSE CurrentRole(msg[t].actor) :
       role' = [role EXCEPT ![t] = r]
  /\ Goto(t, "envelope")
  /\ UNCHANGED <<msg, intent, by, mapping, recency, cache, project, observed>>

RefusePrincipal(t) ==
  /\ at[t] = "resolve"
  /\ \/ ~validate_connector_auth(msg[t])
     \/ msg[t].connector # "internal" /\ CurrentRole(msg[t].actor) = {}
  /\ Plainly(t, "refused")

\* The envelope; the internal connector has no chat to govern.
ValidateEnvelope(t) ==
  /\ at[t] = "envelope"
  /\ Plainly(t, IF ~msg[t].wellFormed THEN "refused"
                ELSE IF msg[t].connector = "internal" THEN "accepted"
                ELSE "claim")

\* get_mapping at the start of claim_mapping, and again after the insert.
ReadMapping(t) ==
  /\ at[t] \in {"claim", "refetch"}
  /\ Plainly(t, CASE mapping[Key(t)].status = "absent"  -> "insert"
                  [] mapping[Key(t)].status = "revoked" -> "refused"
                  [] OTHER -> "chat")

ClaimMapping(t) ==
  /\ at[t] = "insert"
  /\ InsertMapping(Key(t))
  /\ Goto(t, "refetch")
  /\ UNCHANGED <<thread, cache, project, observed>>

\* _MEMBERSHIP_BY_CHAT_CLASS
Membership ==
  [direct             |-> {"owner", "administrator", "auditor", "ceo", "cwo",
                           "cso", "secretary", "project_manager"},
   leadership_council |-> {"owner", "administrator", "auditor", "ceo", "cwo",
                           "secretary"},
   governance         |-> {"owner", "administrator", "auditor", "secretary"},
   executive          |-> {"owner", "ceo", "cwo", "secretary"},
   project            |-> {"owner", "ceo", "cwo", "project_manager"}]

\* The sender belongs to the chat, and so does the recipient, whose role must
\* be active; a specialist is left to the policy.
MayTalk(t) ==
  /\ role[t] \in Membership[Class(t)]
  /\ msg[t].to \in Membership[Class(t)] \union {"specialist", "none"}
  /\ msg[t].to \notin {"cso", "domain_leader"}

GovernChat(t) ==
  /\ at[t] = "chat"
  /\ Plainly(t, IF ~MayTalk(t) THEN "refused"
                ELSE IF Class(t) # "project" THEN "accepted"
                ELSE IF msg[t].bound \/ msg[t].names_project THEN "project"
                ELSE "refused")

\* What a project channel takes in each status of the project; a project
\* without a row does not restrict it.
ProjectTakes(t, s) ==
  \/ s = "absent"
  \/ /\ s # "archived"
     /\ s \in {"completed", "terminated"} => msg[t].query_
     /\ s = "proposed" => role[t] # "project_manager"

GovernProject(t) ==
  /\ at[t] = "project"
  /\ Plainly(t, IF ProjectTakes(t, project) THEN "accepted" ELSE "refused")
-----------------------------------------------------------------------------
(***************************************************************************)
(* The environment, and the specification.                                 *)
(***************************************************************************)
\* The project is created, and moves along its lifecycle (ProjectGovernance).
MoveProject(s) ==
  /\ IF project = "absent" THEN s = "proposed"
     ELSE s \in ALLOWED_TRANSITIONS[project] \ {project}
  /\ project' = s
  /\ UNCHANGED <<at, thread, mapping, recency, cache, word>>
  /\ Change

Handle(t) ==
  \/ ContextFrom(t) \/ ParseCommand(t) \/ AskAgent(t)
  \/ \E i \in Intents : ClassifyFreeText(t, i) \/ ClassifyAsked(t, i)
  \/ BroadcastAnswers(t) \/ ForwardedAnswers(t) \/ BypassAnswers(t)
  \/ TopicAnswers(t) \/ NoTopicAnswer(t) \/ SecretaryAnswers(t)
  \/ SubmitFreeText(t)
  \/ ResolvePrincipal(t) \/ RefusePrincipal(t) \/ ValidateEnvelope(t)
  \/ ReadMapping(t) \/ ClaimMapping(t) \/ GovernChat(t) \/ GovernProject(t)

Others ==
  \/ \E x \in Channels : ExpireCache(x)
  \/ \E k \in Keys, s \in {"verified", "revoked"} : set_mapping_status(k, s)
  \/ \E s \in ProjectStatuses : MoveProject(s)

Nothing == [roles |-> {}, allowed |-> {}, project |-> {}]

Init ==
  /\ at = [t \in Threads |-> "idle"]
  /\ msg = [t \in Threads |-> CHOOSE m \in Messages[t] : TRUE]
  /\ intent = [t \in Threads |-> "none"]
  /\ role = [t \in Threads |-> "none"]
  /\ by = [t \in Threads |-> "none"]
  /\ mapping \in [Keys -> {NoMapping} \union
                           [status : {"verified"}, role : PrincipalRoles]]
  /\ recency = [k \in Keys |-> 0]
  /\ cache = [x \in Channels |-> "none"]
  /\ project \in Visited
  /\ changes = 0
  /\ word = [k \in Keys |-> "none"]
  /\ seen = [t \in Threads |-> Nothing]

Next ==
  \/ \E t \in Threads : \E m \in Messages[t] : Receive(t, m)
  \/ \E t \in Threads : Handle(t)
  \/ Others

Spec == Init /\ [][Next]_vars
-----------------------------------------------------------------------------
(***************************************************************************)
(* Properties.                                                             *)
(***************************************************************************)
Places == Finished \union
  {"idle", "context", "command", "ask", "ask_secretary", "ask_again",
   "freetext", "route", "secretary", "resolve", "envelope", "claim", "insert",
   "refetch", "chat", "project"}

\* Every variable stays in its type: in particular a row of the identity
\* table is written with one of the three statuses and keeps its role.
TypeOK ==
  /\ at \in [Threads -> Places]
  /\ msg \in [Threads -> Message]
  /\ intent \in [Threads -> Intents \union {"none"}]
  /\ role \in [Threads -> Roles \union {"none"}]
  /\ by \in [Threads -> Roles \union {"none"}]
  /\ mapping \in [Keys -> {NoMapping} \union
       [status : MappingStatuses \ {"absent"}, role : Roles]]
  /\ recency \in [Keys -> Nat]
  /\ cache \in [Channels -> Intents \union {"none"}]
  /\ project \in ProjectStatuses \union {"absent"}

\* Whatever way a message takes through the router (a command, a shortcut,
\* a broadcast, a bot's forward, a topic), it is answered or accepted only
\* if its connector signature was valid: no bypass skips
\* validate_connector_auth.
AnsweredIsSigned ==
  \A t \in Threads : at[t] \in {"answered", "accepted"} => msg[t].signed

\* At some moment of the request the project took messages of this kind.
WasOpen(t) ==
  \E s \in seen[t].project :
    s # "archived" /\ (s \in {"completed", "terminated"} => msg[t].query_)

\* A Discord message that reaches admission carries a role the identity
\* table gave its actor while it was being handled, the chat admits that
\* role, the mapping of actor and channel was not revoked all the time, and
\* the project of its channel was not closed to it all the time: a revocation
\* or an end of the project that was there before the request is never
\* overlooked, however reads and insert interleave with other requests.
AdmittedIsAuthorized ==
  \A t \in Threads :
    at[t] = "accepted" /\ msg[t].connector = "discord" =>
      /\ role[t] \in seen[t].roles
      /\ role[t] \in Membership[Class(t)]
      /\ TRUE \in seen[t].allowed
      /\ Class(t) = "project" => WasOpen(t)

\* What an operator has revoked stays revoked until the operator says
\* otherwise: requests that claim the mapping concurrently (a look-up, then
\* an insert) do not bring it back to pending.
RevocationHolds ==
  \A k \in Keys : word[k] = "revoked" => mapping[k].status = "revoked"

\* Free text is never answered or admitted as a mutation, and a mutation is
\* not remembered as the intent of a text: the second time the text is sent,
\* the cache cannot hide what the first classification rejected.
FreeTextNeverMutates ==
  /\ \A x \in Channels : cache[x] # "mutation"
  /\ \A t \in Threads :
       at[t] \in {"answered", "accepted"} /\ msg[t].kind = "freetext"
         => intent[t] # "mutation"
-----------------------------------------------------------------------------
(***************************************************************************)
(* What the documentation says and the code does not do.                   *)
(***************************************************************************)
\* channel_availability.py: "Auditor and Administrator are not available in
\* project channels."  Only the topic router asks; /oq ask, a broadcast and
\* a bot's forward do not.
RestrictedRolesStayOut ==
  \A t \in Threads :
    at[t] = "answered" /\ msg[t].bound
      => by[t] \notin {"auditor", "administrator"}

=============================================================================
