---------------------------- MODULE Conversations ---------------------------
(***************************************************************************)
(* Answers written by a language model: the free-text handlers of the      *)
(* agents and the secretary (threads of the API process) and the worker's  *)
(* LlmGatewayDispatchAdapter read the conversation of a channel, call the  *)
(* LLM gateway, and append the exchange to the same channel.  The gateway  *)
(* retries and falls back between models; the worker's calls are settled   *)
(* against the budget ledger; every so many exchanges the store closes a   *)
(* window, tags its rows, has it summarised and embeds the summary in a    *)
(* thread of its own.                                                      *)
(*                                                                         *)
(* One action is one transaction of the store or the ledger, or one HTTP   *)
(* request to a provider.  An exchange (the question and the answer) is    *)
(* two rows written by one INSERT with one created_at; rows are therefore  *)
(* counted in exchanges, half of max_turns and of window_size.             *)
(***************************************************************************)
EXTENDS Integers, FiniteSets

CONSTANTS
  Requests,        \* one question each, and the exchange it leaves
  Scopes,          \* channels: guild::<g>::channel::<c>
  Sources,         \* ids of governed evidence
  MaxExchanges,    \* max_turns, in exchanges
  WindowExchanges, \* window_size, in exchanges
  WarmLimit,       \* LIMIT of list_windows
  MaxRetries,      \* max_retries of the provider adapters
  QuotaLimit,      \* allocation of project-default, in task estimates
  Cases            \* the situations to look at; each gives the request of
                   \* every thread, the exchanges already stored, and faults

ASSUME BoundsAssumption ==
  /\ MaxExchanges \in Nat \ {0} /\ WindowExchanges \in Nat \ {0, 1}
  /\ WarmLimit \in Nat /\ MaxRetries \in Nat /\ QuotaLimit \in Nat
  /\ IsFiniteSet(Requests)

\* The exchanges that are already stored are none of the requests of the
\* threads, and were stamped one after the other.
ASSUME CasesAssumption ==
  \A c \in Cases :
    /\ c.faults \in Nat /\ c.summarises \in BOOLEAN
    /\ \A r \in Requests : c.requests[r].scope \in Scopes
    /\ DOMAIN c.earlier \subseteq Requests
    /\ \A r \in DOMAIN c.earlier :
         /\ c.requests[r].kind = "nobody"
         /\ c.earlier[r] \in 1..Cardinality(DOMAIN c.earlier)
    /\ \A r, x \in DOMAIN c.earlier : c.earlier[r] = c.earlier[x] => r = x

\* window_index IS NULL
Untagged == -1

\* A citation of something that is no governed source.
Foreign == "foreign"

VARIABLES
  case,     \* the situation, fixed
  run,      \* the local state of each request
  turn,     \* conversation_messages: created_at, window_index and presence
  windows,  \* conversation_windows: summaries and their embeddings
  embeds,   \* started _embed_and_store_window threads
  ledger,   \* budget_reservations.status per task
  charged,  \* tasks with a budget_events row
  clock,    \* number of datetime.now() so far
  faults,   \* failures still to come
  \* observation, read by no action
  upset     \* scopes where two appends overlapped or one was cut short

vars == <<case, run, turn, windows, embeds, ledger, charged, clock, faults,
          upset>>

Q(r) == case.requests[r]
Scope(r) == Q(r).scope

-----------------------------------------------------------------------------
(* The conversation store *)

Stored(s) == {r \in Requests : turn[r].stored /\ Scope(r) = s}

\* ORDER BY created_at: the number of rows of s that are newer.
Newer(r, rows) == {x \in rows : turn[x].at > turn[r].at}
Older(r, rows) == {x \in rows : turn[x].at < turn[r].at}

\* Mutated form: one exchange fewer than max_turns allows.
NewestButOne(s) ==
  {r \in Stored(s) : Cardinality(Newer(r, Stored(s))) + 1 < MaxExchanges}

\* Mutated form: ORDER BY created_at ASC LIMIT.
OldestTurns(s) ==
  {r \in Stored(s) : Cardinality(Older(r, Stored(s))) < MaxExchanges}

\* PostgresConversationStore.list_turns
list_turns(s) ==
  {r \in Stored(s) : Cardinality(Newer(r, Stored(s))) < MaxExchanges}

\* list_windows: the oldest WarmLimit summaries.
list_windows(s) ==
  {w \in DOMAIN windows :
     /\ w[1] = s
     /\ Cardinality({v \in DOMAIN windows : v[1] = s /\ v[2] < w[2]})
          < WarmLimit}

\* fetch_window
fetch_window(s, i) == {r \in Stored(s) : turn[r].window = i}

\* The sub-select of _close_window: the oldest rows without a window.
OldestUntagged(s) ==
  LET open == {r \in Stored(s) : turn[r].window = Untagged}
  IN  {r \in open : Cardinality(Older(r, open)) < WindowExchanges}

\* Mutated form: windows counted from one.
WindowFromOne(total) == total \div WindowExchanges

\* completed_window_index
CompletedWindow(total) == (total \div WindowExchanges) - 1

-----------------------------------------------------------------------------
(* The routing profiles *)

\* profile_resolver._ROUTING_PROFILES: the number of aliases of a model class.
aliases(p) == CASE p = "dev_gemini_free" -> 2
                [] p = "dev_deepseek" -> 2
                [] p = "prod_controlled" -> 1
                [] OTHER -> 0
max_fallback_hops == 1

\* The adapters raise before any request without an API key; Gemini's alias
\* map has the aliases of one profile, DeepSeek's adapter ignores the alias.
Unusable(p) ==
  \/ case.backend = "keyless"
  \/ case.backend = "gemini_flash_free" /\ p # "dev_gemini_free"

fallback_limit(p) ==
  IF aliases(p) - 1 < max_fallback_hops THEN aliases(p) - 1
                                        ELSE max_fallback_hops

-----------------------------------------------------------------------------
Start ==
  [pc |-> "idle", route |-> 0, attempt |-> 0, posts |-> 0, last |-> "none",
   decision |-> "none", evidence |-> {}, cites |-> {}, history |-> {},
   warm |-> {}, before |-> {}, read |-> FALSE, seen |-> 0, total |-> 0,
   covers |-> {}, result |-> "none", ledgerFault |-> FALSE]

\* What serial appends of the case's earlier exchanges left behind: in each
\* channel, the full windows tagged and, with a summarize_fn, summarised.
Init ==
  /\ case \in Cases
  /\ run = [r \in Requests |->
              IF r \in DOMAIN case.earlier
                THEN [Start EXCEPT !.pc = "done", !.decision = "served",
                                   !.result = "answered"]
                ELSE Start]
  /\ LET Earlier(s) == {r \in DOMAIN case.earlier : Scope(r) = s}
         Slot(r) == Cardinality({x \in Earlier(Scope(r)) :
                                   case.earlier[x] < case.earlier[r]})
                      \div WindowExchanges
         Closed(r) ==
           Slot(r) < Cardinality(Earlier(Scope(r))) \div WindowExchanges
     IN  /\ turn = [r \in Requests |->
              IF r \in DOMAIN case.earlier
                THEN [stored |-> TRUE, at |-> case.earlier[r],
                      window |-> IF Closed(r) THEN Slot(r) ELSE Untagged]
                ELSE [stored |-> FALSE, at |-> 0, window |-> Untagged]]
         /\ windows =
              [w \in {<<Scope(r), Slot(r)>> :
                        r \in {x \in DOMAIN case.earlier :
                                 case.summarises /\ Closed(x)}}
                 |-> LET rows == {x \in Earlier(w[1]) : Slot(x) = w[2]}
                     IN  [summary |-> rows, embedding |-> {rows}]]
  /\ embeds = {}
  /\ ledger = [r \in Requests |-> "none"]
  /\ charged = {}
  /\ clock = Cardinality(DOMAIN case.earlier)
  /\ faults = case.faults
  /\ upset = {}

\* The other requests and the rest of the state stay as they are.
StoreUnchanged == UNCHANGED <<turn, windows, embeds, clock, upset>>
LedgerUnchanged == UNCHANGED <<ledger, charged>>

Goto(r, l) == run' = [run EXCEPT ![r].pc = l]
End(r, res) == run' = [run EXCEPT ![r].pc = "done", ![r].result = res]

\* A call that may raise: it may be the one that fails.
Raises == faults > 0 /\ faults' = faults - 1

InProgress(r) == run[r].pc \notin {"idle", "done"}

\* Exchanges of the channel whose request had ended when this one begins.
Ended(r) == {x \in Stored(Scope(r)) : run[x].pc = "done"}

-----------------------------------------------------------------------------
(* The beginning of a request *)

\* handle_free_text of an agent, SecretaryAgent._generate_advisory
AskAgent(r) ==
  /\ run[r].pc = "idle" /\ Q(r).kind \in {"agent", "secretary"}
  /\ run' = [run EXCEPT ![r].pc = "history", ![r].before = Ended(r)]
  /\ StoreUnchanged /\ LedgerUnchanged /\ UNCHANGED <<case, faults>>

\* The worker runs one graph at a time.  An obligation reserves budget first;
\* only project-default has an allocation, to which every project falls back.
Dispatch(r) ==
  /\ run[r].pc = "idle" /\ Q(r).kind = "dispatch"
  /\ \A x \in Requests : Q(x).kind = "dispatch" => ~InProgress(x)
  /\ \/ /\ ~Q(r).reserves
        /\ run' = [run EXCEPT ![r].pc = "guards", ![r].before = Ended(r)]
        /\ UNCHANGED ledger
     \/ /\ Q(r).reserves
        /\ LET live == {x \in Requests : ledger[x] = "reserved"}
           IN  IF Cardinality(live) + 1 > QuotaLimit
                 THEN End(r, "refused") /\ UNCHANGED ledger
                 ELSE /\ ledger' = [ledger EXCEPT ![r] = "reserved"]
                      /\ run' = [run EXCEPT ![r].pc = "guards",
                                            ![r].before = Ended(r)]
  /\ StoreUnchanged /\ UNCHANGED <<case, charged, faults>>

-----------------------------------------------------------------------------
(* LlmGatewayDispatchAdapter.dispatch, up to the prompt *)

\* skill_binding_resolver: the roles bound to tools and to citations.
ToolRoles == {"ceo", "cwo", "project_manager", "auditor", "administrator",
              "owner"}

\* _requires_strict_grounding: the command begins with llm_reason.
strict(q) == q.command \in {"llm_reason", "llm_reason_more"}

\* invoke_tool_command: a tool command with arguments that parse is answered
\* without the model.  What a write tool changes is in GovernanceRecords; a
\* read tool is refused to a role without it, out of the project's scope, or
\* when it raises.
ToolCommand(r) ==
  /\ run[r].pc = "guards" /\ Q(r).command = "tool_read"
  /\ \/ Q(r).role \in ToolRoles /\ End(r, "answered")
     \/ End(r, "refused")
  /\ StoreUnchanged /\ LedgerUnchanged /\ UNCHANGED <<case, faults>>

\* _contains_role_injection_attempt and, for the very command llm_reason,
\* _prompt_requests_mutation
PromptRefused(q) ==
  \/ q.prompt = "injection"
  \/ q.command = "llm_reason" /\ q.prompt = "mutation"

Guards(r) ==
  /\ run[r].pc = "guards" /\ Q(r).command # "tool_read"
  /\ IF PromptRefused(Q(r)) THEN End(r, "refused")
     ELSE Goto(r, IF strict(Q(r)) THEN "ground" ELSE "windows")
  /\ StoreUnchanged /\ LedgerUnchanged /\ UNCHANGED <<case, faults>>

\* _resolve_grounding_context: the sources of the tool results or, for the
\* other roles, of the project record and the retrieval hits, whose readers
\* may raise; none, or no project, denies.
ResolveGrounding(r) ==
  /\ run[r].pc = "ground"
  /\ \/ /\ \E found \in SUBSET Sources :
            IF Q(r).project = "none" \/ found = {}
              THEN End(r, "refused")
              ELSE run' = [run EXCEPT ![r].pc = "windows",
                                      ![r].evidence = found]
        /\ UNCHANGED faults
     \/ /\ Q(r).role \notin ToolRoles /\ Q(r).project # "none"
        /\ Raises /\ End(r, "raised")
  /\ StoreUnchanged /\ LedgerUnchanged /\ UNCHANGED case

\* list_windows.  The adapter is built without an embedding service and
\* without context sources, so no other window enters the prompt.
ReadWindows(r) ==
  /\ run[r].pc = "windows"
  /\ \/ /\ run' = [run EXCEPT ![r].pc = "history",
              ![r].warm = UNION {windows[w].summary :
                                   w \in list_windows(Scope(r))},
              ![r].seen = Cardinality(Stored(Scope(r)))]
        /\ UNCHANGED faults
     \/ Raises /\ End(r, "raised")
  /\ StoreUnchanged /\ LedgerUnchanged /\ UNCHANGED case

\* list_turns.  An agent goes on without history when the store fails.
ReadHistory(r) ==
  /\ run[r].pc = "history"
  /\ \/ /\ run' = [run EXCEPT ![r].pc = "gateway",
              ![r].history = list_turns(Scope(r)), ![r].read = TRUE]
        /\ UNCHANGED faults
     \/ /\ Raises
        /\ IF Q(r).kind = "agent"
             THEN Goto(r, "gateway") ELSE End(r, "raised")
  /\ StoreUnchanged /\ LedgerUnchanged /\ UNCHANGED case

-----------------------------------------------------------------------------
(* LlmGatewayService.complete and the provider adapters *)

Denied(r) == run' = [run EXCEPT ![r].pc = "reply", ![r].decision = "denied"]

\* validate_llm_request, resolve_routing_profile and the first alias
Route(r) ==
  /\ run[r].pc = "gateway"
  /\ IF ~Q(r).valid \/ aliases(Q(r).profile) = 0 \/ Unusable(Q(r).profile)
       THEN Denied(r) ELSE Goto(r, "post")
  /\ StoreUnchanged /\ LedgerUnchanged /\ UNCHANGED <<case, faults>>

\* What a POST comes back with: a usable completion; a transport error, 429 or
\* 5xx; another 4xx; a 200 without text or usage; or what the adapter's own
\* parsing raises.
ProviderAnswers == {"ok", "transient", "rejected", "invalid", "unexpected"}

\* Mutated form: any error of the provider moves on to the next model.
NextRouteAlways(r, error) ==
  IF run[r].route < fallback_limit(Q(r).profile)
    THEN run' = [run EXCEPT ![r].route = @ + 1, ![r].attempt = 0,
                            ![r].posts = @ + 1, ![r].last = error]
    ELSE run' = [run EXCEPT ![r].pc = "reply", ![r].decision = "denied",
                            ![r].posts = @ + 1, ![r].last = error]

\* The "except LiteLLMProviderError" of complete: the next alias for a
\* retryable error, if one is left.
NextRoute(r, error) ==
  IF error = "transient" /\ run[r].route < fallback_limit(Q(r).profile)
    THEN run' = [run EXCEPT ![r].route = @ + 1, ![r].attempt = 0,
                            ![r].posts = @ + 1, ![r].last = error]
    ELSE run' = [run EXCEPT ![r].pc = "reply", ![r].decision = "denied",
                            ![r].posts = @ + 1, ![r].last = error]

\* complete of the Gemini or the DeepSeek adapter, one attempt.
Post(r) ==
  /\ run[r].pc = "post"
  /\ \E a \in case.answers :
       \/ /\ a = "ok"
          /\ run' = [run EXCEPT ![r].pc = "reply", ![r].decision = "served",
                                ![r].posts = @ + 1, ![r].last = a]
       \/ /\ a = "transient" /\ run[r].attempt < MaxRetries
          /\ run' = [run EXCEPT ![r].attempt = @ + 1, ![r].posts = @ + 1,
                                ![r].last = a]
       \/ a = "transient" /\ run[r].attempt >= MaxRetries /\ NextRoute(r, a)
       \/ a \in {"rejected", "invalid"} /\ NextRoute(r, a)
       \/ /\ a = "unexpected"
          /\ IF Q(r).kind = "agent"
               THEN run' = [run EXCEPT ![r].pc = "stamp", ![r].last = a,
                                       ![r].posts = @ + 1,
                                       ![r].result = "fallback"]
               ELSE run' = [run EXCEPT ![r].pc = "done", ![r].last = a,
                                       ![r].posts = @ + 1,
                                       ![r].result = "raised"]
  /\ StoreUnchanged /\ LedgerUnchanged /\ UNCHANGED <<case, faults>>

-----------------------------------------------------------------------------
(* What is made of the completion *)

\* Agents and secretary: the text, or the fixed fallback advice.
Advise(r) ==
  /\ run[r].pc = "reply" /\ Q(r).kind # "dispatch"
  /\ run' = [run EXCEPT ![r].pc = "stamp",
                        ![r].result = IF run[r].decision = "served"
                                        THEN "answered" ELSE "fallback"]
  /\ StoreUnchanged /\ LedgerUnchanged /\ UNCHANGED <<case, faults>>

\* Mutated form: the usage is settled once the answer is accepted.
ServedUnsettled(r) ==
  /\ run[r].pc = "reply" /\ Q(r).kind = "dispatch"
  /\ IF run[r].decision = "served" THEN Goto(r, "validate")
                                   ELSE End(r, "refused")
  /\ StoreUnchanged /\ LedgerUnchanged /\ UNCHANGED <<case, faults>>

\* Dispatch: a denied request is refused, a served one is settled first.
Served(r) ==
  /\ run[r].pc = "reply" /\ Q(r).kind = "dispatch"
  /\ IF run[r].decision = "served" THEN Goto(r, "settle")
                                   ELSE End(r, "refused")
  /\ StoreUnchanged /\ LedgerUnchanged /\ UNCHANGED <<case, faults>>

LedgerFails(r) ==
  /\ Raises
  /\ run' = [run EXCEPT ![r].pc = "validate", ![r].ledgerFault = TRUE]

\* find_active_reservation_id and settle_reservation: nothing to settle ends
\* settle, and so does any failure.
Settle(r) ==
  /\ run[r].pc = "settle"
  /\ \/ /\ ledger[r] = "reserved"
        /\ ledger' = [ledger EXCEPT ![r] = "settled"]
        /\ Goto(r, "event") /\ UNCHANGED faults
     \/ /\ ledger[r] # "reserved"
        /\ Goto(r, "validate") /\ UNCHANGED <<ledger, faults>>
     \/ LedgerFails(r) /\ UNCHANGED ledger
  /\ StoreUnchanged /\ UNCHANGED <<case, charged>>

\* insert_event
RecordUsage(r) ==
  /\ run[r].pc = "event"
  /\ \/ charged' = charged \union {r} /\ Goto(r, "validate")
        /\ UNCHANGED faults
     \/ LedgerFails(r) /\ UNCHANGED charged
  /\ StoreUnchanged /\ UNCHANGED <<case, ledger>>

\* Mutated form: one governed source among the citations is enough.
CitesSomeEvidence(cites, evidence) == cites \intersect evidence # {}

\* _validate_grounded_response of a text with citations
CitesEvidence(cites, evidence) == cites # {} /\ cites \subseteq evidence

\* The text cites what it likes; "insufficient evidence" without a citation
\* is given one.
Validate(r) ==
  /\ run[r].pc = "validate"
  /\ \/ /\ ~(strict(Q(r)) /\ Q(r).role \in ToolRoles)
        /\ run' = [run EXCEPT ![r].pc = "stamp", ![r].result = "answered"]
     \/ /\ strict(Q(r)) /\ Q(r).role \in ToolRoles
        /\ \E cites \in SUBSET (Sources \union {Foreign}) :
             IF CitesEvidence(cites, run[r].evidence)
               THEN run' = [run EXCEPT ![r].pc = "stamp", ![r].cites = cites,
                                       ![r].result = "answered"]
               ELSE run' = [run EXCEPT ![r].pc = "done", ![r].cites = cites,
                                       ![r].result = "refused"]
     \/ /\ strict(Q(r)) /\ Q(r).role \in ToolRoles
        /\ \E s \in run[r].evidence :
             run' = [run EXCEPT ![r].pc = "stamp", ![r].cites = {s},
                                ![r].result = "answered"]
  /\ StoreUnchanged /\ LedgerUnchanged /\ UNCHANGED <<case, faults>>

-----------------------------------------------------------------------------
(* append_turns *)

Appending == {"insert", "count", "tag", "fetch", "summary"}

\* Another append of the channel is under way.
Overlaps(r) ==
  \E x \in Requests : x # r /\ Scope(x) = Scope(r) /\ run[x].pc \in Appending

\* now = datetime.now(): the order of the rows is fixed here, before the
\* transaction that makes them visible.
Stamp(r) ==
  /\ run[r].pc = "stamp"
  /\ clock' = clock + 1
  /\ turn' = [turn EXCEPT ![r].at = clock + 1]
  /\ upset' = IF Overlaps(r) THEN upset \union {Scope(r)} ELSE upset
  /\ Goto(r, "insert")
  /\ LedgerUnchanged /\ UNCHANGED <<case, windows, embeds, faults>>

\* Mutated form: no handler around the append.
AppendRaises(r) == End(r, "raised")

\* A raise in append_turns: only the agents catch it, and keep their answer.
AppendFails(r) ==
  IF Q(r).kind = "agent" THEN Goto(r, "done") ELSE End(r, "raised")

\* The INSERT of both rows
Insert(r) ==
  /\ run[r].pc = "insert"
  /\ \/ /\ turn' = [turn EXCEPT ![r].stored = TRUE]
        /\ Goto(r, "count") /\ UNCHANGED <<faults, upset>>
     \/ /\ Raises /\ AppendFails(r)
        /\ upset' = upset \union {Scope(r)} /\ UNCHANGED turn
  /\ LedgerUnchanged /\ UNCHANGED <<case, windows, embeds, clock>>

\* SELECT COUNT(*) after the commit: the last row of a window closes it.
Count(r) ==
  /\ run[r].pc = "count"
  /\ LET total == Cardinality(Stored(Scope(r)))
     IN  \/ /\ run' = [run EXCEPT ![r].total = total,
                  ![r].pc = IF total % WindowExchanges = 0
                              THEN "tag" ELSE "done"]
            /\ UNCHANGED <<faults, upset>>
         \/ /\ Raises /\ AppendFails(r)
            /\ upset' = upset \union {Scope(r)}
  /\ LedgerUnchanged /\ UNCHANGED <<case, turn, windows, embeds, clock>>

\* _close_window, first transaction; its failure ends the closing.  The UPDATE
\* is one step here.  Two that really overlap pick the same rows, and the
\* second, which rechecks window_index IS NULL, tags none; here it tags the
\* next ones.  The channel is then in upset, where all that is claimed is
\* that no row is in two windows.
Tag(r) ==
  /\ run[r].pc = "tag"
  /\ \/ /\ LET rows == OldestUntagged(Scope(r))
           IN  turn' = [x \in Requests |->
                  IF x \in rows
                    THEN [turn[x] EXCEPT !.window =
                            CompletedWindow(run[r].total)]
                    ELSE turn[x]]
        /\ Goto(r, IF case.summarises THEN "fetch" ELSE "done")
        /\ UNCHANGED <<faults, upset>>
     \/ /\ Raises /\ Goto(r, "done")
        /\ upset' = upset \union {Scope(r)} /\ UNCHANGED turn
  /\ LedgerUnchanged /\ UNCHANGED <<case, windows, embeds, clock>>

\* fetch_window and summarize_fn: an empty window or summary, or a raise, ends
\* the closing.
Fetch(r) ==
  /\ run[r].pc = "fetch"
  /\ LET rows == fetch_window(Scope(r), CompletedWindow(run[r].total))
     IN  \/ /\ run' = [run EXCEPT ![r].covers = rows,
                  ![r].pc = IF rows = {} THEN "done" ELSE "summary"]
            /\ UNCHANGED <<faults, upset>>
         \/ Raises /\ Goto(r, "done") /\ upset' = upset \union {Scope(r)}
  /\ LedgerUnchanged /\ UNCHANGED <<case, turn, windows, embeds, clock>>

\* INSERT ... ON CONFLICT (scope, window_index) DO NOTHING
OnConflictNothing(w, text) ==
  IF w \in DOMAIN windows THEN windows
  ELSE [v \in DOMAIN windows \union {w} |->
          IF v = w THEN [summary |-> text, embedding |-> {}] ELSE windows[v]]

\* The summary row, and the thread that is to embed it.
StoreSummary(r) ==
  /\ run[r].pc = "summary"
  /\ LET w == <<Scope(r), CompletedWindow(run[r].total)>>
     IN  \/ /\ windows' = OnConflictNothing(w, run[r].covers)
            /\ embeds' = embeds \union {[window |-> w,
                                         text |-> run[r].covers]}
            /\ UNCHANGED <<faults, upset>>
         \/ /\ Raises /\ upset' = upset \union {Scope(r)}
            /\ UNCHANGED <<windows, embeds>>
  /\ Goto(r, "done")
  /\ LedgerUnchanged /\ UNCHANGED <<case, turn, clock>>

\* _embed_and_store_window, in a daemon thread; it may come to nothing.
Embed(e) ==
  /\ embeds' = embeds \ {e}
  /\ \/ windows' = [windows EXCEPT ![e.window].embedding = {e.text}]
     \/ UNCHANGED windows
  /\ LedgerUnchanged
  /\ UNCHANGED <<case, run, turn, clock, faults, upset>>

-----------------------------------------------------------------------------
\* The process of a request ends.
Crash(r) ==
  /\ InProgress(r) /\ Raises
  /\ End(r, "lost")
  /\ upset' = IF run[r].pc \in Appending THEN upset \union {Scope(r)}
                                         ELSE upset
  /\ LedgerUnchanged /\ UNCHANGED <<case, turn, windows, embeds, clock>>

Next ==
  \/ \E r \in Requests : AskAgent(r)
  \/ \E r \in Requests : Dispatch(r)
  \/ \E r \in Requests : ToolCommand(r)
  \/ \E r \in Requests : Guards(r)
  \/ \E r \in Requests : ResolveGrounding(r)
  \/ \E r \in Requests : ReadWindows(r)
  \/ \E r \in Requests : ReadHistory(r)
  \/ \E r \in Requests : Route(r)
  \/ \E r \in Requests : Post(r)
  \/ \E r \in Requests : Advise(r)
  \/ \E r \in Requests : Served(r)
  \/ \E r \in Requests : Settle(r)
  \/ \E r \in Requests : RecordUsage(r)
  \/ \E r \in Requests : Validate(r)
  \/ \E r \in Requests : Stamp(r)
  \/ \E r \in Requests : Insert(r)
  \/ \E r \in Requests : Count(r)
  \/ \E r \in Requests : Tag(r)
  \/ \E r \in Requests : Fetch(r)
  \/ \E r \in Requests : StoreSummary(r)
  \/ \E e \in embeds : Embed(e)
  \/ \E r \in Requests : Crash(r)

Spec == Init /\ [][Next]_vars

-----------------------------------------------------------------------------
(* Properties *)

Steps == {"idle", "guards", "ground", "windows", "history", "gateway", "post",
          "reply", "settle", "event", "validate", "stamp", "done"}
           \union Appending

\* Every variable ranges over what the code can hold there.
TypeOK ==
  /\ \A r \in Requests :
       /\ run[r].pc \in Steps
       /\ run[r].decision \in {"none", "served", "denied"}
       /\ run[r].last \in ProviderAnswers \union {"none"}
       /\ run[r].result \in {"none", "answered", "fallback", "refused",
                             "raised", "lost"}
       /\ run[r].evidence \subseteq Sources
       /\ run[r].history \union run[r].warm \union run[r].before
            \subseteq Stored(Scope(r))
       /\ turn[r].window \in Nat \union {Untagged}
       /\ turn[r].at \in 0..clock
       /\ turn[r].stored => turn[r].at > 0
  /\ DOMAIN windows \subseteq Scopes \X Nat
  /\ \A e \in embeds : e.window \in DOMAIN windows
  /\ ledger \in [Requests -> {"none", "reserved", "settled"}]
  /\ charged \subseteq Requests
  /\ faults \in 0..case.faults /\ upset \subseteq Scopes

\* A question asked after an earlier one of the channel was answered and
\* stored is put to the model with that exchange, whichever agent or process
\* wrote it, unless the prompt is already full of newer ones.
AnsweredIsRemembered ==
  \A r \in Requests : run[r].read =>
    \A x \in run[r].before \ run[r].history :
      Cardinality(Newer(x, run[r].history)) = MaxExchanges

Rank(r) == Cardinality(Older(r, Stored(Scope(r))))
QuietIn(s) == \A r \in Requests : Scope(r) = s => run[r].pc \notin Appending

\* Windows partition the conversation: as long as appends of a channel do not
\* overlap and none is cut short, window i is exchanges i*W to i*W + W - 1,
\* every full window is tagged once its append returns, and summary and
\* embedding are of all of the window and nothing else.  And however appends
\* overlap or fail, no exchange is in two summaries.
WindowsAreSlices ==
  /\ \A v, w \in DOMAIN windows :
       v # w => windows[v].summary \intersect windows[w].summary = {}
  /\ \A s \in Scopes \ upset :
       /\ \A r \in Stored(s) :
            \/ turn[r].window = Rank(r) \div WindowExchanges
            \/ /\ turn[r].window = Untagged
               /\ \/ ~QuietIn(s)
                  \/ Rank(r) \div WindowExchanges
                       = Cardinality(Stored(s)) \div WindowExchanges
       /\ \A w \in DOMAIN windows : w[1] = s =>
            /\ windows[w].summary = fetch_window(s, w[2])
            /\ windows[w].embedding \subseteq {windows[w].summary}

\* What a prompt leaves out is in a closed window.  In a channel whose appends
\* neither overlap nor fail, an exchange that was over when the request began
\* and no longer fits in the history has been tagged by then, although rows
\* become visible before their window is closed; so no open exchange is lost,
\* with or without summaries.  If the store was built with a summarize_fn,
\* which the program's own wiring does not pass (WarmSummariesAreLoaded below),
\* and list_windows still returns every window, the worker misses an exchange
\* in both tiers only through the gap between its two reads: the window was
\* not full, or only just, when the summaries were read.
LeftOutIsClosed ==
  \A r \in Requests : run[r].read /\ Scope(r) \notin upset =>
    \A x \in run[r].before \ run[r].history :
      /\ turn[x].window # Untagged
      /\ /\ Q(r).kind = "dispatch" /\ case.summarises /\ x \notin run[r].warm
         /\ Cardinality({w \in DOMAIN windows : w[1] = Scope(r)}) <= WarmLimit
         => (turn[x].window + 1) * WindowExchanges >= run[r].seen

\* The ledger follows what the provider served: usage is recorded and a
\* reservation settled for served calls only, and for each of them, whatever
\* becomes of the answer, unless the ledger failed or the process ended.
LedgerFollowsService ==
  \A r \in Requests :
    /\ r \in charged => ledger[r] = "settled"
    /\ ledger[r] = "settled" => run[r].decision = "served"
    /\ /\ run[r].decision = "served" /\ Q(r).kind = "dispatch"
       /\ Q(r).reserves /\ ~run[r].ledgerFault
       /\ run[r].result \in {"answered", "refused", "raised"}
       => r \in charged

\* An answer that must be grounded reaches the asker, or the conversation
\* later prompts are built from, only with citations that are all governed
\* evidence of its own request.
OnlyGroundedIsRemembered ==
  \A r \in Requests :
    /\ Q(r).kind = "dispatch" /\ strict(Q(r)) /\ Q(r).role \in ToolRoles
    /\ turn[r].stored \/ run[r].result = "answered"
    => run[r].cites # {} /\ run[r].cites \subseteq run[r].evidence

\* The provider is asked again after transient failures only, no more than
\* retries and fallbacks allow, and a request is denied for them only when
\* all of those are used up.
RetriesAreExact ==
  \A r \in Requests :
    LET most == (MaxRetries + 1) * (fallback_limit(Q(r).profile) + 1)
    IN  /\ run[r].posts > 0 => run[r].posts <= most
        /\ run[r].pc = "post" => run[r].last \in {"none", "transient"}
        /\ run[r].decision = "denied" /\ run[r].last = "transient"
             => run[r].posts = most

\* An agent's answer survives every failure of the conversation store: the
\* request never raises, and a served completion is what is answered.
AgentsKeepTheirAnswer ==
  \A r \in Requests :
    Q(r).kind = "agent" /\ run[r].pc = "done" /\ run[r].result # "lost" =>
      run[r].result = IF run[r].decision = "served"
                        THEN "answered" ELSE "fallback"

-----------------------------------------------------------------------------
(* What the documentation says and the code does not do *)

\* conversation_store.py, "When total turns for a scope reach a multiple of
\* window_size, the completed window is tagged with a window_index": with
\* overlapping appends a window is skipped, or takes rows of the next.
CompletedWindowsAreTagged ==
  \A r \in Requests : turn[r].stored /\ turn[r].window # Untagged =>
    Cardinality(fetch_window(Scope(r), turn[r].window)) = WindowExchanges

\* conversation_store.py, "Return all closed window summaries": it returns
\* the oldest WarmLimit, so the newest never reach a prompt.
AllWindowsAreListed ==
  \A s \in Scopes : list_windows(s) = {w \in DOMAIN windows : w[1] = s}

\* implementation/v2/planning/05-milestones/M17-WorkPackages-v1.md:219, "Warm
\* summaries generated and loaded after a window fills (40 rows)": what a
\* worker's prompt leaves out of the history, it holds in a summary.  The
\* program builds its store without a summarize_fn, so there is none.
WarmSummariesAreLoaded ==
  \A r \in Requests : run[r].read /\ Q(r).kind = "dispatch" =>
    run[r].before \subseteq run[r].history \union run[r].warm

\* "Generate embedding for one closed window and store it": the thread of an
\* append whose summary was not stored still stores its embedding.
EmbeddingIsOfTheSummary ==
  \A w \in DOMAIN windows : windows[w].embedding \subseteq {windows[w].summary}

=============================================================================
