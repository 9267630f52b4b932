---------------------------- MODULE IngressProofs ---------------------------
(***************************************************************************)
(* Proofs about Ingress for every set of request threads, actors, channels *)
(* and messages, and any number of changes around the requests.            *)
(***************************************************************************)
EXTENDS Ingress, TLAPS

-----------------------------------------------------------------------------
(* The inductive invariant *)

Observations == {"roles", "allowed", "project"}

\* The types the proofs need, the observations included.
Typed ==
  /\ TypeOK
  /\ DOMAIN word = Keys
  /\ DOMAIN seen = Threads
  /\ \A t \in Threads : DOMAIN seen[t] = Observations

\* Where a request is after its signature was checked.
Authenticated ==
  {"ask_secretary", "ask_again", "secretary", "envelope", "claim", "insert",
   "refetch", "chat", "project", "answered", "accepted"}

SignedSoFar == \A t \in Threads : at[t] \in Authenticated => msg[t].signed

\* What is true now has been observed by every request in progress.
SeenIsCurrent ==
  \A t \in Threads : at[t] \notin Finished \union {"idle"} =>
    \A f \in Observations : Now(msg[t])[f] \subseteq seen[t][f]

\* What submit_owner_command has established when thread t, with role r, is at
\* one of its steps.
AuthorizedAt(t, where, r) ==
  /\ where \in {"envelope", "claim", "insert", "refetch", "chat", "project",
                "accepted"} => r \in seen[t].roles
  /\ where \in {"chat", "project", "accepted"} => TRUE \in seen[t].allowed
  /\ where \in {"project", "accepted"} => r \in Membership[Class(t)]
  /\ where = "accepted" /\ Class(t) = "project" => WasOpen(t)

AuthorizedSoFar ==
  \A t \in Threads :
    msg[t].connector = "discord" => AuthorizedAt(t, at[t], role[t])

\* Only /oq ask classifies outside the way of free text, and what goes on from
\* there is not a mutation.
IntentAt(t, where, i) ==
  /\ where \in {"command", "ask", "ask_secretary", "ask_again"} =>
       msg[t].kind = "command"
  /\ where \notin {"idle", "freetext", "refused", "error"}
       /\ msg[t].kind = "freetext" => i # "mutation"

IntentSoFar == \A t \in Threads : IntentAt(t, at[t], intent[t])

CacheIsClean == \A x \in Channels : cache[x] # "mutation"

IInv ==
  /\ Typed /\ SignedSoFar /\ SeenIsCurrent /\ AuthorizedSoFar
  /\ IntentSoFar /\ CacheIsClean /\ RevocationHolds

\* The initial states satisfy the invariant.
LEMMA InitInvariant == Init => IInv
  <1> SUFFICES ASSUME Init PROVE IInv
    OBVIOUS
  <1>1. TypeOK
    <2>1. msg \in [Threads -> Message]
      BY IngressConstants DEF Init
    <2>2. mapping \in [Keys -> {NoMapping} \union
            [status : MappingStatuses \ {"absent"}, role : Roles]]
      BY IngressConstants DEF Init, MappingStatuses
    <2>3. project \in ProjectStatuses \union {"absent"}
      BY IngressConstants DEF Init
    <2> QED
      BY <2>1, <2>2, <2>3 DEF Init, TypeOK, Places
  <1>2. Typed
    BY <1>1 DEF Init, Typed, Nothing, Observations
  <1>3. SignedSoFar /\ SeenIsCurrent
    BY DEF Init, SignedSoFar, Authenticated, SeenIsCurrent
  <1>4. AuthorizedSoFar /\ IntentSoFar
    BY DEF Init, AuthorizedSoFar, AuthorizedAt, IntentSoFar, IntentAt
  <1>5. CacheIsClean /\ RevocationHolds
    BY DEF Init, CacheIsClean, RevocationHolds
  <1> QED
    BY <1>2, <1>3, <1>4, <1>5 DEF IInv

-----------------------------------------------------------------------------
(* Steps of a thread *)

\* A step of a request that changes neither its message nor what is true of
\* it keeps the invariant if where it goes next is justified.
LEMMA ThreadMoves ==
  ASSUME IInv, TypeOK', CacheIsClean', RevocationHolds',
         NEW t \in Threads, NEW where \in Places,
         at' = [at EXCEPT ![t] = where], at[t] \notin Finished \union {"idle"},
         UNCHANGED <<msg, word, seen>>,
         \A u \in Threads \ {t} : role'[u] = role[u] /\ intent'[u] = intent[u],
         \A u \in Threads : Now(msg[u])' = Now(msg[u]),
         where \in Authenticated => msg[t].signed,
         msg[t].connector = "discord" => AuthorizedAt(t, where, role'[t]),
         IntentAt(t, where, intent'[t])
  PROVE  IInv'
  <1>1. /\ at'[t] = where
        /\ \A u \in Threads \ {t} : at'[u] = at[u]
    BY DEF IInv, Typed, TypeOK
  <1>2. Typed'
    BY DEF IInv, Typed
  <1>3. SignedSoFar'
    BY <1>1 DEF IInv, SignedSoFar
  <1>4. SeenIsCurrent'
    BY <1>1 DEF IInv, SeenIsCurrent
  <1>5. AuthorizedSoFar'
    <2> SUFFICES ASSUME NEW u \in Threads, msg[u].connector = "discord"
                 PROVE  AuthorizedAt(u, at[u], role[u])'
      BY DEF AuthorizedSoFar
    <2>1. AuthorizedAt(u, at'[u], role'[u])
      <3>1. CASE u = t
        BY <1>1, <3>1
      <3>2. CASE u # t
        BY <1>1, <3>2 DEF IInv, AuthorizedSoFar
      <3> QED
        BY <3>1, <3>2
    <2> QED
      BY <2>1 DEF AuthorizedAt, Class, WasOpen
  <1>6. IntentSoFar'
    <2> SUFFICES ASSUME NEW u \in Threads
                 PROVE  IntentAt(u, at[u], intent[u])'
      BY DEF IntentSoFar
    <2>1. IntentAt(u, at'[u], intent'[u])
      <3>1. CASE u = t
        BY <1>1, <3>1
      <3>2. CASE u # t
        BY <1>1, <3>2 DEF IInv, IntentSoFar
      <3> QED
        BY <3>1, <3>2
    <2> QED
      BY <2>1 DEF IntentAt
  <1> QED
    BY <1>2, <1>3, <1>4, <1>5, <1>6 DEF IInv

\* A step that only goes somewhere.
LEMMA PlainKeeps ==
  ASSUME IInv, NEW t \in Threads, NEW where \in Places, Plainly(t, where),
         at[t] \notin Finished \union {"idle"},
         where \in Authenticated => msg[t].signed,
         msg[t].connector = "discord" => AuthorizedAt(t, where, role[t]),
         IntentAt(t, where, intent[t])
  PROVE  IInv'
  <1>1. /\ at' = [at EXCEPT ![t] = where]
        /\ UNCHANGED <<msg, intent, role, by, mapping, recency, cache,
                       project, changes, word, seen>>
    BY DEF Plainly, Goto, thread, observed
  <1>2. TypeOK'
    BY <1>1 DEF IInv, Typed, TypeOK
  <1>3. CacheIsClean' /\ RevocationHolds'
    BY <1>1 DEF IInv, CacheIsClean, RevocationHolds
  <1>4. \A u \in Threads : Now(msg[u])' = Now(msg[u])
    BY <1>1 DEF Now
  <1>5. AuthorizedAt(t, where, role[t]) => AuthorizedAt(t, where, role'[t])
    BY <1>1
  <1>6. IntentAt(t, where, intent'[t])
    BY <1>1
  <1> QED
    BY <1>1, <1>2, <1>3, <1>4, <1>5, <1>6, ThreadMoves

\* An agent answers.
LEMMA AnswerKeeps ==
  ASSUME IInv, NEW t \in Threads, NEW agent \in Roles \union {"none"},
         Answer(t, agent), at[t] \notin Finished \union {"idle"},
         msg[t].signed, msg[t].kind = "freetext" => intent[t] # "mutation"
  PROVE  IInv'
  <1>1. /\ at' = [at EXCEPT ![t] = "answered"]
        /\ by' = [by EXCEPT ![t] = agent]
        /\ UNCHANGED <<msg, intent, role, mapping, recency, cache,
                       project, changes, word, seen>>
    BY DEF Answer, Goto, observed
  <1>2. TypeOK'
    BY <1>1 DEF IInv, Typed, TypeOK, Places, Finished
  <1>3. CacheIsClean' /\ RevocationHolds'
    BY <1>1 DEF IInv, CacheIsClean, RevocationHolds
  <1>4. \A u \in Threads : Now(msg[u])' = Now(msg[u])
    BY <1>1 DEF Now
  <1>5. AuthorizedAt(t, "answered", role'[t])
    BY DEF AuthorizedAt
  <1>6. IntentAt(t, "answered", intent'[t])
    BY <1>1 DEF IntentAt
  <1>7. "answered" \in Places
    BY DEF Places, Finished
  <1> QED
    BY <1>1, <1>2, <1>3, <1>4, <1>5, <1>6, <1>7, ThreadMoves

\* A refusal needs no justification.
LEMMA RefuseKeeps ==
  ASSUME IInv, NEW t \in Threads, Plainly(t, "refused"),
         at[t] \notin Finished \union {"idle"}
  PROVE  IInv'
  <1>1. /\ "refused" \in Places /\ "refused" \notin Authenticated
        /\ AuthorizedAt(t, "refused", role[t])
        /\ IntentAt(t, "refused", intent[t])
    BY DEF Places, Finished, Authenticated, AuthorizedAt, IntentAt
  <1> QED
    BY <1>1, PlainKeeps

\* What holds of a request in progress.
LEMMA InProgress ==
  ASSUME IInv, NEW t \in Threads
  PROVE  /\ msg[t] \in Message /\ role[t] \in Roles \union {"none"}
         /\ intent[t] \in Intents \union {"none"}
         /\ IntentAt(t, at[t], intent[t])
         /\ at[t] \in Authenticated => msg[t].signed
         /\ msg[t].connector = "discord" => AuthorizedAt(t, at[t], role[t])
  BY DEF IInv, Typed, TypeOK, IntentSoFar, SignedSoFar, AuthorizedSoFar

\* The /oq commands.
LEMMA CommandKeeps ==
  ASSUME IInv, NEW t \in Threads,
         ContextFrom(t) \/ ParseCommand(t) \/ AskAgent(t)
  PROVE  IInv'
  <1>1. CASE ContextFrom(t)
    <2>1. at[t] \notin Finished \union {"idle"} /\ at[t] = "context"
      BY <1>1 DEF ContextFrom, Finished
    <2>2. CASE validate_connector_auth(msg[t]) /\ Answer(t, "none")
      BY <2>1, <2>2, InProgress, AnswerKeeps
      DEF IntentAt, validate_connector_auth
    <2>3. CASE Plainly(t, "refused")
      BY <2>1, <2>3, RefuseKeeps
    <2> QED
      BY <1>1, <2>2, <2>3 DEF ContextFrom
  <1>2. CASE ParseCommand(t)
    <2>1. at[t] \notin Finished \union {"idle"} /\ at[t] = "command"
      BY <1>2 DEF ParseCommand, Finished
    <2>2. msg[t].kind = "command"
      BY <2>1, InProgress DEF IntentAt
    <2>3. \/ Plainly(t, "refused") \/ Plainly(t, "ask") \/ Plainly(t, "resolve")
      BY <1>2 DEF ParseCommand
    <2>4. ASSUME NEW w \in {"ask", "resolve"}
          PROVE  /\ w \in Places /\ w \notin Authenticated
                 /\ AuthorizedAt(t, w, role[t]) /\ IntentAt(t, w, intent[t])
      BY <2>2 DEF Places, Authenticated, AuthorizedAt, IntentAt
    <2>5. CASE Plainly(t, "refused")
      BY <2>1, <2>5, RefuseKeeps
    <2>6. CASE Plainly(t, "ask")
      BY <2>1, <2>4, <2>6, PlainKeeps
    <2>7. CASE Plainly(t, "resolve")
      BY <2>1, <2>4, <2>7, PlainKeeps
    <2> QED
      BY <2>3, <2>5, <2>6, <2>7
  <1>3. CASE AskAgent(t)
    <2>1. at[t] \notin Finished \union {"idle"} /\ at[t] = "ask"
      BY <1>3 DEF AskAgent, Finished
    <2>2. msg[t].kind = "command" /\ msg[t].to \in Roles \union {"none"}
      BY <2>1, InProgress DEF IntentAt, Message
    <2>3. CASE Plainly(t, "refused")
      BY <2>1, <2>3, RefuseKeeps
    <2>4. CASE msg[t].signed /\ Plainly(t, "ask_secretary")
      <3>1. /\ "ask_secretary" \in Places
            /\ AuthorizedAt(t, "ask_secretary", role[t])
            /\ IntentAt(t, "ask_secretary", intent[t])
        BY <2>2 DEF Places, AuthorizedAt, IntentAt
      <3> QED
        BY <2>1, <2>4, <3>1, PlainKeeps
    <2>5. CASE msg[t].signed /\ Answer(t, msg[t].to)
      BY <2>1, <2>2, <2>5, AnswerKeeps
    <2> QED
      BY <1>3, <2>3, <2>4, <2>5 DEF AskAgent, validate_connector_auth
  <1> QED
    BY <1>1, <1>2, <1>3

\* A mutation that the classifier does not raise for was in the cache, and the
\* cache has none.
LEMMA ClassifiedKeeps ==
  ASSUME IInv, NEW t \in Threads, NEW i \in Intents,
         Classified(msg[t].channel, i)
  PROVE  /\ cache' \in [Channels -> Intents \union {"none"}]
         /\ CacheIsClean'
         /\ i = "mutation" => Raises(msg[t].channel, i)
  <1> DEFINE x == msg[t].channel
  <1>1. /\ x \in Channels /\ cache \in [Channels -> Intents \union {"none"}]
        /\ CacheIsClean
    BY InProgress DEF IInv, Typed, TypeOK, Message
  <1>2. i # "none"
    BY DEF Intents
  <1> HIDE DEF x
  <1>3. /\ \/ i = cache[x] /\ UNCHANGED cache
           \/ cache[x] = "none" /\ UNCHANGED cache
           \/ i # "mutation" /\ cache' = [cache EXCEPT ![x] = i]
        /\ i = cache[x] \/ cache[x] = "none"
    BY DEF Classified, x
  <1>4. i = "mutation" => Raises(x, i)
    BY <1>1, <1>3 DEF Raises, CacheIsClean
  <1>5. cache' \in [Channels -> Intents \union {"none"}] /\ CacheIsClean'
    BY <1>1, <1>3 DEF CacheIsClean
  <1> QED
    BY <1>4, <1>5 DEF x

\* A text is classified.
LEMMA ClassifyKeeps ==
  ASSUME IInv, NEW t \in Threads, NEW i \in Intents,
         ClassifyFreeText(t, i) \/ ClassifyAsked(t, i)
  PROVE  IInv'
  <1>1. /\ intent' = [intent EXCEPT ![t] = i]
        /\ UNCHANGED <<msg, role, by, mapping, recency, project, changes,
                       word, seen>>
    BY DEF ClassifyFreeText, ClassifyAsked, observed
  <1>2. /\ cache' \in [Channels -> Intents \union {"none"}]
        /\ CacheIsClean'
    BY ClassifiedKeeps
    DEF ClassifyFreeText, ClassifyAsked, IInv, Typed, TypeOK, CacheIsClean
  <1>3. RevocationHolds'
    BY <1>1 DEF IInv, RevocationHolds
  <1>4. \A u \in Threads : Now(msg[u])' = Now(msg[u])
    BY <1>1 DEF Now
  <1>5. /\ \A u \in Threads \ {t} : role'[u] = role[u] /\ intent'[u] = intent[u]
        /\ intent'[t] = i
        /\ intent' \in [Threads -> Intents \union {"none"}]
    BY <1>1 DEF IInv, Typed, TypeOK
  <1>6. at[t] \notin Finished \union {"idle"}
    BY DEF ClassifyFreeText, ClassifyAsked, Finished
  <1>7. ASSUME NEW w \in Places, at' = [at EXCEPT ![t] = w],
               w \in Authenticated => msg[t].signed,
               AuthorizedAt(t, w, role[t]), IntentAt(t, w, i)
        PROVE  IInv'
    <2>1. TypeOK'
      BY <1>1, <1>2, <1>5, <1>7 DEF IInv, Typed, TypeOK
    <2>2. AuthorizedAt(t, w, role'[t]) /\ IntentAt(t, w, intent'[t])
      BY <1>1, <1>5, <1>7
    <2> QED
      BY <1>1, <1>2, <1>3, <1>4, <1>5, <1>6, <1>7, <2>1, <2>2, ThreadMoves
  <1>8. CASE ClassifyFreeText(t, i)
    <2>1. /\ at[t] = "freetext" /\ Classified(msg[t].channel, i)
          /\ \/ at' = [at EXCEPT ![t] = "refused"]
             \/ at' = [at EXCEPT ![t] = "route"] /\ ~Raises(msg[t].channel, i)
      BY <1>8 DEF ClassifyFreeText, Goto
    <2>2. CASE at' = [at EXCEPT ![t] = "refused"]
      <3>1. /\ "refused" \in Places /\ "refused" \notin Authenticated
            /\ AuthorizedAt(t, "refused", role[t])
            /\ IntentAt(t, "refused", i)
        BY DEF Places, Finished, Authenticated, AuthorizedAt, IntentAt
      <3> QED
        BY <1>7, <2>2, <3>1
    <2>3. CASE /\ at' = [at EXCEPT ![t] = "route"]
               /\ ~Raises(msg[t].channel, i)
      <3>1. i # "mutation"
        BY <2>1, <2>3, ClassifiedKeeps
      <3>2. /\ "route" \in Places /\ "route" \notin Authenticated
            /\ AuthorizedAt(t, "route", role[t])
            /\ IntentAt(t, "route", i)
        BY <3>1 DEF Places, Authenticated, AuthorizedAt, IntentAt
      <3> QED
        BY <1>7, <2>3, <3>2
    <2> QED
      BY <2>1, <2>2, <2>3
  <1>9. CASE ClassifyAsked(t, i)
    <2>1. /\ at[t] \in {"ask_secretary", "ask_again"}
          /\ \/ at' = [at EXCEPT ![t] = "ask_again"]
             \/ at' = [at EXCEPT ![t] = "secretary"]
             \/ at' = [at EXCEPT ![t] = "error"]
      BY <1>9 DEF ClassifyAsked, Goto
    <2>2. msg[t].kind = "command" /\ msg[t].signed
      BY <2>1, InProgress DEF IntentAt, Authenticated
    <2>3. ASSUME NEW w \in {"ask_again", "secretary", "error"}
          PROVE  /\ w \in Places
                 /\ AuthorizedAt(t, w, role[t]) /\ IntentAt(t, w, i)
      BY <2>2 DEF Places, Finished, AuthorizedAt, IntentAt
    <2> QED
      BY <1>7, <2>1, <2>2, <2>3
  <1> QED
    BY <1>8, <1>9

\* Free text is answered, refused, or becomes an owner command.
LEMMA FreeTextKeeps ==
  ASSUME IInv, NEW t \in Threads,
         \/ BroadcastAnswers(t) \/ ForwardedAnswers(t) \/ BypassAnswers(t)
         \/ TopicAnswers(t) \/ NoTopicAnswer(t) \/ SecretaryAnswers(t)
         \/ SubmitFreeText(t)
  PROVE  IInv'
  <1>1. at[t] \in {"route", "secretary"} /\ at[t] \notin Finished \union {"idle"}
    BY DEF BroadcastAnswers, ForwardedAnswers, BypassAnswers, Forwarded,
      TopicAnswers, NoTopicAnswer, ForSecretary, SecretaryAnswers,
      SubmitFreeText, Finished
  <1>2. /\ msg[t].kind = "freetext" => intent[t] # "mutation"
        /\ msg[t].bot \in Roles \union {"none"}
        /\ at[t] = "secretary" => msg[t].signed
    BY <1>1, InProgress DEF IntentAt, Message, Authenticated
  <1>3. CASE Plainly(t, "refused")
    BY <1>1, <1>3, RefuseKeeps
  <1>4. ASSUME NEW r \in Roles \union {"none"}, msg[t].signed, Answer(t, r)
        PROVE  IInv'
    BY <1>1, <1>2, <1>4, AnswerKeeps
  <1>5. ASSUME NEW w \in {"secretary", "resolve"}, Plainly(t, w),
               w = "secretary" => msg[t].signed
        PROVE  IInv'
    <2>1. /\ w \in Places /\ (w \in Authenticated => msg[t].signed)
          /\ AuthorizedAt(t, w, role[t]) /\ IntentAt(t, w, intent[t])
      BY <1>2, <1>5 DEF Places, Authenticated, AuthorizedAt, IntentAt
    <2> QED
      BY <1>1, <1>5, <2>1, PlainKeeps
  <1>6. CASE BotAnswers(t)
    BY <1>2, <1>3, <1>4, <1>6 DEF BotAnswers, validate_connector_auth
  <1>7. CASE TopicAnswers(t)
    <2>1. classify(msg[t].hits) \subseteq Roles
      BY DEF classify, AdvisoryRoles, Roles
    <2> QED
      BY <1>4, <1>7, <2>1 DEF TopicAnswers, validate_connector_auth
  <1>8. CASE NoTopicAnswer(t)
    BY <1>3, <1>5, <1>8 DEF NoTopicAnswer, validate_connector_auth
  <1>9. CASE SecretaryAnswers(t)
    <2>1. "secretary" \in Roles
      BY DEF Roles
    <2> QED
      BY <1>2, <1>3, <1>4, <1>9, <2>1 DEF SecretaryAnswers
  <1>10. CASE SubmitFreeText(t)
    BY <1>3, <1>5, <1>10 DEF SubmitFreeText
  <1> QED
    BY <1>6, <1>7, <1>8, <1>9, <1>10
    DEF BroadcastAnswers, ForwardedAnswers, BypassAnswers

\* A role the identity table gives now is one that was observed.
LEMMA CurrentRoleIsSeen ==
  ASSUME IInv, NEW t \in Threads, at[t] = "resolve",
         NEW r \in CurrentRole(msg[t].actor)
  PROVE  r \in seen[t].roles /\ r \in Roles
  <1>1. PICK k \in Keys : /\ k[1] = msg[t].actor
                          /\ mapping[k].status = "verified"
                          /\ r = mapping[k].role
    BY DEF CurrentRole, get_by_connector_actor, Newest
  <1>2. k \in {msg[t].actor} \X Channels
    BY <1>1 DEF Keys
  <1>3. r \in Now(msg[t]).roles
    BY <1>1, <1>2 DEF Now
  <1>4. Now(msg[t])["roles"] \subseteq seen[t]["roles"]
    BY DEF IInv, SeenIsCurrent, Observations, Finished
  <1>5. r \in Roles
    BY <1>1 DEF IInv, Typed, TypeOK, NoMapping
  <1> QED
    BY <1>3, <1>4, <1>5

\* The principal is resolved, or refused.
LEMMA PrincipalKeeps ==
  ASSUME IInv, NEW t \in Threads, ResolvePrincipal(t) \/ RefusePrincipal(t)
  PROVE  IInv'
  <1>1. at[t] = "resolve" /\ at[t] \notin Finished \union {"idle"}
    BY DEF ResolvePrincipal, RefusePrincipal, Finished
  <1>2. CASE RefusePrincipal(t)
    BY <1>1, <1>2, RefuseKeeps DEF RefusePrincipal
  <1>3. CASE ResolvePrincipal(t)
    <2>1. /\ msg[t].signed
          /\ at' = [at EXCEPT ![t] = "envelope"]
          /\ UNCHANGED <<msg, intent, by, mapping, recency, cache, project,
                         changes, word, seen>>
      BY <1>3 DEF ResolvePrincipal, validate_connector_auth, Goto, observed
    <2>2. PICK r \in IF msg[t].connector = "internal" THEN {msg[t].header_role}
                     ELSE CurrentRole(msg[t].actor) :
            role' = [role EXCEPT ![t] = r]
      BY <1>3 DEF ResolvePrincipal
    <2>3. /\ r \in Roles
          /\ msg[t].connector = "discord" => r \in seen[t].roles
      BY <1>1, <2>2, CurrentRoleIsSeen, InProgress DEF Message
    <2>4. /\ role' \in [Threads -> Roles \union {"none"}] /\ role'[t] = r
          /\ \A u \in Threads \ {t} : role'[u] = role[u]
      BY <2>2, <2>3 DEF IInv, Typed, TypeOK
    <2>5. "envelope" \in Places
      BY DEF Places
    <2>6. TypeOK'
      BY <2>1, <2>4, <2>5 DEF IInv, Typed, TypeOK
    <2>7. CacheIsClean' /\ RevocationHolds'
      BY <2>1 DEF IInv, CacheIsClean, RevocationHolds
    <2>8. \A u \in Threads : Now(msg[u])' = Now(msg[u])
      BY <2>1 DEF Now
    <2>9. msg[t].connector = "discord" => AuthorizedAt(t, "envelope", role'[t])
      BY <2>3, <2>4 DEF AuthorizedAt
    <2>10. IntentAt(t, "envelope", intent'[t])
      BY <1>1, <2>1, InProgress DEF IntentAt
    <2> QED
      BY <1>1, <2>1, <2>4, <2>5, <2>6, <2>7, <2>8, <2>9, <2>10, ThreadMoves
  <1> QED
    BY <1>2, <1>3

\* What is true of the message now was observed.
LEMMA NowIsSeen ==
  ASSUME IInv, NEW t \in Threads, at[t] \notin Finished \union {"idle"}
  PROVE  /\ project \in seen[t].project
         /\ (mapping[Key(t)].status # "revoked") \in seen[t].allowed
  <1>1. /\ Now(msg[t])["project"] \subseteq seen[t]["project"]
        /\ Now(msg[t])["allowed"] \subseteq seen[t]["allowed"]
    BY DEF IInv, SeenIsCurrent, Observations
  <1>2. /\ Now(msg[t])["project"] = {project}
        /\ Now(msg[t])["allowed"] = {mapping[Key(t)].status # "revoked"}
    BY DEF Now, Key
  <1> QED
    BY <1>1, <1>2

\* The envelope, the mapping, the chat and the project are looked at.
LEMMA GovernKeeps ==
  ASSUME IInv, NEW t \in Threads,
         ValidateEnvelope(t) \/ ReadMapping(t) \/ GovernChat(t)
           \/ GovernProject(t)
  PROVE  IInv'
  <1>1. /\ at[t] \in {"envelope", "claim", "refetch", "chat", "project"}
        /\ at[t] \notin Finished \union {"idle"}
    BY DEF ValidateEnvelope, ReadMapping, GovernChat, GovernProject, Finished
  <1>2. /\ msg[t].signed
        /\ msg[t].kind = "freetext" => intent[t] # "mutation"
        /\ msg[t].connector = "discord" => AuthorizedAt(t, at[t], role[t])
    BY <1>1, InProgress DEF IntentAt, Authenticated
  <1>3. CASE Plainly(t, "refused")
    BY <1>1, <1>3, RefuseKeeps
  <1>4. ASSUME NEW w \in {"claim", "insert", "chat", "project", "accepted"},
               Plainly(t, w),
               msg[t].connector = "discord" => AuthorizedAt(t, w, role[t])
        PROVE  IInv'
    <2>1. w \in Places /\ IntentAt(t, w, intent[t])
      BY <1>2 DEF Places, Finished, IntentAt
    <2> QED
      BY <1>1, <1>2, <1>4, <2>1, PlainKeeps
  <1>5. CASE ValidateEnvelope(t)
    <2>1. \/ Plainly(t, "refused")
          \/ Plainly(t, "accepted") /\ msg[t].connector = "internal"
          \/ Plainly(t, "claim")
      BY <1>5 DEF ValidateEnvelope
    <2>2. msg[t].connector = "discord" => AuthorizedAt(t, "claim", role[t])
      BY <1>2, <1>5 DEF ValidateEnvelope, AuthorizedAt
    <2>3. "internal" # "discord"
      OBVIOUS
    <2> QED
      BY <1>3, <1>4, <2>1, <2>2, <2>3
  <1>6. CASE ReadMapping(t)
    <2>1. \/ Plainly(t, "refused")
          \/ Plainly(t, "insert")
          \/ Plainly(t, "chat") /\ mapping[Key(t)].status # "revoked"
      BY <1>6 DEF ReadMapping
    <2>2. msg[t].connector = "discord" => AuthorizedAt(t, "insert", role[t])
      BY <1>2, <1>6 DEF ReadMapping, AuthorizedAt
    <2>3. ASSUME mapping[Key(t)].status # "revoked",
                 msg[t].connector = "discord"
          PROVE  AuthorizedAt(t, "chat", role[t])
      <3>1. (mapping[Key(t)].status # "revoked") = TRUE
        BY <2>3
      <3>2. TRUE \in seen[t].allowed
        BY <1>1, <3>1, NowIsSeen
      <3> QED
        BY <1>2, <1>6, <2>3, <3>2 DEF ReadMapping, AuthorizedAt
    <2> QED
      BY <1>3, <1>4, <2>1, <2>2, <2>3
  <1>7. CASE GovernChat(t)
    <2>1. \/ Plainly(t, "refused")
          \/ Plainly(t, "accepted") /\ MayTalk(t) /\ Class(t) # "project"
          \/ Plainly(t, "project") /\ MayTalk(t)
      BY <1>7 DEF GovernChat
    <2>2. ASSUME NEW w \in {"accepted", "project"}, MayTalk(t),
                 w = "accepted" => Class(t) # "project",
                 msg[t].connector = "discord"
          PROVE  AuthorizedAt(t, w, role[t])
      BY <1>2, <1>7, <2>2 DEF GovernChat, AuthorizedAt, MayTalk
    <2> QED
      BY <1>3, <1>4, <2>1, <2>2
  <1>8. CASE GovernProject(t)
    <2>1. \/ Plainly(t, "refused")
          \/ Plainly(t, "accepted") /\ ProjectTakes(t, project)
      BY <1>8 DEF GovernProject
    <2>2. ASSUME ProjectTakes(t, project), msg[t].connector = "discord"
          PROVE  AuthorizedAt(t, "accepted", role[t])
      <3>1. project \in seen[t].project
        BY <1>1, NowIsSeen
      <3>2. WasOpen(t)
        BY <2>2, <3>1 DEF WasOpen, ProjectTakes
      <3> QED
        BY <1>2, <1>8, <2>2, <3>2 DEF GovernProject, AuthorizedAt
    <2> QED
      BY <1>3, <1>4, <2>1, <2>2
  <1> QED
    BY <1>5, <1>6, <1>7, <1>8

\* A row that was not there is inserted: nobody is verified or revoked by it.
LEMMA ClaimKeeps ==
  ASSUME IInv, NEW t \in Threads, ClaimMapping(t)
  PROVE  IInv'
  <1> DEFINE k == Key(t)
             row == [status |-> "pending", role |-> "owner"]
  <1>1. /\ at[t] = "insert" /\ at[t] \notin Finished \union {"idle"}
        /\ at' = [at EXCEPT ![t] = "refetch"]
        /\ UNCHANGED <<msg, intent, role, by, cache, project, changes, word,
                       seen>>
    BY DEF ClaimMapping, Goto, thread, observed, Finished
  <1>2. k \in Keys
    BY InProgress DEF Key, Keys, Message
  <1>3. row \in [status : MappingStatuses \ {"absent"}, role : Roles]
    BY DEF MappingStatuses, Roles
  <1>4. /\ mapping \in [Keys -> {NoMapping} \union
             [status : MappingStatuses \ {"absent"}, role : Roles]]
        /\ recency \in [Keys -> Nat]
    BY DEF IInv, Typed, TypeOK
  <1> HIDE DEF k
  <1>5. \/ /\ mapping[k].status = "absent"
           /\ mapping' = [mapping EXCEPT ![k] = row] /\ recency' = Touch(k)
        \/ UNCHANGED <<mapping, recency>>
    BY DEF ClaimMapping, InsertMapping, k
  <1>6. /\ \A x \in Keys :
             \/ mapping'[x] = mapping[x]
             \/ /\ mapping[x].status = "absent"
                /\ mapping'[x].status = "pending"
        /\ mapping' \in [Keys -> {NoMapping} \union
             [status : MappingStatuses \ {"absent"}, role : Roles]]
    <2>1. row.status = "pending"
      OBVIOUS
    <2> HIDE DEF row
    <2>2. CASE UNCHANGED <<mapping, recency>>
      BY <1>4, <2>2
    <2>3. CASE /\ mapping[k].status = "absent"
               /\ mapping' = [mapping EXCEPT ![k] = row]
      BY <1>2, <1>3, <1>4, <2>1, <2>3
    <2> QED
      BY <1>5, <2>2, <2>3
  <1>7. recency' \in [Keys -> Nat]
    BY <1>2, <1>4, <1>5 DEF Touch
  <1>8. "refetch" \in Places
    BY DEF Places
  <1>9. TypeOK'
    BY <1>1, <1>6, <1>7, <1>8 DEF IInv, Typed, TypeOK
  <1>10. CacheIsClean' /\ RevocationHolds'
    BY <1>1, <1>6 DEF IInv, CacheIsClean, RevocationHolds
  <1>11. ASSUME NEW u \in Threads
         PROVE  Now(msg[u])' = Now(msg[u])
    <2> DEFINE m == msg[u]
               V == {x \in {m.actor} \X Channels : mapping[x].status = "verified"}
               W == {x \in {m.actor} \X Channels :
                       mapping'[x].status = "verified"}
    <2>1. m \in Message
      BY InProgress
    <2>2. <<m.actor, m.channel>> \in Keys /\ {m.actor} \X Channels \subseteq Keys
      BY <2>1 DEF Keys, Message
    <2> HIDE DEF m
    <2>3. V = W /\ \A x \in V : mapping'[x].role = mapping[x].role
      BY <1>6, <2>2
    <2>4. (mapping'[<<m.actor, m.channel>>].status # "revoked")
            = (mapping[<<m.actor, m.channel>>].status # "revoked")
      BY <1>6, <2>2
    <2>5. {mapping'[x].role : x \in W} = {mapping[x].role : x \in V}
      BY <2>3
    <2> QED
      BY <1>1, <2>4, <2>5 DEF Now, m
  <1>12. msg[t].connector = "discord" => AuthorizedAt(t, "refetch", role'[t])
    BY <1>1, InProgress DEF AuthorizedAt
  <1>13. IntentAt(t, "refetch", intent'[t])
    BY <1>1, InProgress DEF IntentAt
  <1>14. msg[t].signed
    BY <1>1, InProgress DEF Authenticated
  <1> QED
    BY <1>1, <1>8, <1>9, <1>10, <1>11, <1>12, <1>13, <1>14, ThreadMoves

\* A request begins.
LEMMA ReceiveKeeps ==
  ASSUME IInv, NEW t \in Threads, NEW m \in Messages[t], Receive(t, m)
  PROVE  IInv'
  <1> DEFINE w == IF m.kind = "api" THEN "resolve" ELSE m.kind
  <1>1. m \in Message
    BY IngressConstants
  <1>2. /\ at' = [at EXCEPT ![t] = w] /\ msg' = [msg EXCEPT ![t] = m]
        /\ seen' = [seen EXCEPT ![t] = Now(m)]
        /\ UNCHANGED <<intent, role, by, mapping, recency, cache, project,
                       changes, word>>
    BY DEF Receive, Goto
  <1>3. /\ w \in {"resolve", "context", "command", "freetext"}
        /\ w \in {"command", "freetext"} => m.kind = w
        /\ m.kind = "freetext" => w = "freetext"
    BY <1>1 DEF Message
  <1> HIDE DEF w
  <1>4. DOMAIN Now(m) = Observations
    BY DEF Now, Observations
  <1>5. /\ at'[t] = w /\ msg'[t] = m /\ seen'[t] = Now(m)
        /\ \A u \in Threads \ {t} : /\ at'[u] = at[u] /\ msg'[u] = msg[u]
                                    /\ seen'[u] = seen[u]
        /\ msg' \in [Threads -> Message]
        /\ DOMAIN seen' = Threads
    BY <1>1, <1>2 DEF IInv, Typed, TypeOK
  <1>6. TypeOK'
    BY <1>2, <1>3, <1>5 DEF IInv, Typed, TypeOK, Places
  <1>7. Typed'
    BY <1>2, <1>4, <1>5, <1>6 DEF IInv, Typed
  <1>8. SignedSoFar'
    BY <1>3, <1>5 DEF IInv, SignedSoFar, Authenticated
  <1>9. SeenIsCurrent'
    <2>1. \A u \in Threads : Now(msg[u])' = Now(msg'[u])
      BY <1>2 DEF Now
    <2> QED
      BY <1>5, <2>1 DEF IInv, SeenIsCurrent
  <1>10. AuthorizedSoFar'
    <2> SUFFICES ASSUME NEW u \in Threads, msg'[u].connector = "discord"
                 PROVE  AuthorizedAt(u, at[u], role[u])'
      BY DEF AuthorizedSoFar
    <2>1. CASE u = t
      BY <1>3, <1>5, <2>1 DEF AuthorizedAt
    <2>2. CASE u # t
      <3>1. AuthorizedAt(u, at[u], role[u])
        BY <1>5, <2>2 DEF IInv, AuthorizedSoFar
      <3> QED
        BY <1>2, <1>5, <2>2, <3>1 DEF AuthorizedAt, Class, WasOpen
    <2> QED
      BY <2>1, <2>2
  <1>11. IntentSoFar'
    BY <1>2, <1>3, <1>5 DEF IInv, IntentSoFar, IntentAt
  <1>12. CacheIsClean' /\ RevocationHolds'
    BY <1>2 DEF IInv, CacheIsClean, RevocationHolds
  <1> QED
    BY <1>7, <1>8, <1>9, <1>10, <1>11, <1>12 DEF IInv

-----------------------------------------------------------------------------
(* Changes around the requests *)

\* A change is observed by the requests in progress, and takes nothing from
\* what they have observed.
LEMMA ChangeKeeps ==
  ASSUME IInv, Change, UNCHANGED <<at, msg, intent, role, by>>,
         TypeOK', CacheIsClean', RevocationHolds', DOMAIN word' = Keys
  PROVE  IInv'
  <1>1. seen' = [t \in Threads |->
                   IF at[t] \in Finished \union {"idle"} THEN seen[t]
                   ELSE [f \in DOMAIN seen[t] |->
                           seen[t][f] \union Now(msg[t])'[f]]]
    BY DEF Change
  <1>2. \A t \in Threads : DOMAIN seen[t] = Observations
    BY DEF IInv, Typed
  <1>3. ASSUME NEW t \in Threads
        PROVE  /\ DOMAIN seen'[t] = Observations
               /\ \A f \in Observations : seen[t][f] \subseteq seen'[t][f]
               /\ at[t] \notin Finished \union {"idle"} =>
                    \A f \in Observations : Now(msg[t])'[f] \subseteq seen'[t][f]
    BY <1>1, <1>2
  <1>4. Typed'
    BY <1>1, <1>3 DEF Typed
  <1>5. SignedSoFar' /\ IntentSoFar'
    BY DEF IInv, SignedSoFar, IntentSoFar, IntentAt
  <1>6. SeenIsCurrent'
    BY <1>3 DEF SeenIsCurrent
  <1>7. AuthorizedSoFar'
    <2> SUFFICES ASSUME NEW t \in Threads, msg[t].connector = "discord"
                 PROVE  AuthorizedAt(t, at[t], role[t])'
      BY DEF AuthorizedSoFar
    <2>1. AuthorizedAt(t, at[t], role[t])
      BY DEF IInv, AuthorizedSoFar
    <2>2. /\ seen[t].roles \subseteq seen'[t].roles
          /\ seen[t].allowed \subseteq seen'[t].allowed
          /\ seen[t].project \subseteq seen'[t].project
      BY <1>3 DEF Observations
    <2> QED
      BY <2>1, <2>2 DEF AuthorizedAt, Class, WasOpen
  <1> QED
    BY <1>4, <1>5, <1>6, <1>7 DEF IInv

\* The cache expires, an operator verifies or revokes, the project moves.
LEMMA OthersKeep ==
  ASSUME IInv, Others
  PROVE  IInv'
  <1>1. ASSUME NEW x \in Channels, ExpireCache(x) PROVE IInv'
    <2>1. /\ cache' = [cache EXCEPT ![x] = "none"] /\ Change
          /\ UNCHANGED <<at, msg, intent, role, by, mapping, recency, project,
                         word>>
      BY <1>1 DEF ExpireCache, thread
    <2>2. TypeOK'
      BY <2>1 DEF IInv, Typed, TypeOK
    <2>3. CacheIsClean' /\ RevocationHolds' /\ DOMAIN word' = Keys
      BY <2>1 DEF IInv, Typed, TypeOK, CacheIsClean, RevocationHolds
    <2> QED
      BY <2>1, <2>2, <2>3, ChangeKeeps
  <1>2. ASSUME NEW k \in Keys, NEW s \in {"verified", "revoked"},
               set_mapping_status(k, s)
        PROVE  IInv'
    <2>1. /\ mapping[k].status # "absent"
          /\ mapping' = [mapping EXCEPT ![k].status = s]
          /\ recency' = Touch(k) /\ word' = [word EXCEPT ![k] = s] /\ Change
          /\ UNCHANGED <<at, msg, intent, role, by, cache, project>>
      BY <1>2 DEF set_mapping_status, thread
    <2>2. /\ mapping \in [Keys -> {NoMapping} \union
               [status : MappingStatuses \ {"absent"}, role : Roles]]
          /\ mapping[k] \in [status : MappingStatuses \ {"absent"},
                             role : Roles]
          /\ recency \in [Keys -> Nat]
      BY <2>1 DEF IInv, Typed, TypeOK, NoMapping
    <2>3. PICK row : row = [mapping[k] EXCEPT !.status = s]
      OBVIOUS
    <2>4. /\ row \in [status : MappingStatuses \ {"absent"}, role : Roles]
          /\ row.status = s
      BY <2>2, <2>3 DEF MappingStatuses
    <2>5. mapping' = [mapping EXCEPT ![k] = row]
      BY <2>1, <2>2, <2>3
    <2>6. /\ mapping' \in [Keys -> {NoMapping} \union
               [status : MappingStatuses \ {"absent"}, role : Roles]]
          /\ mapping'[k].status = s
          /\ \A x \in Keys \ {k} : mapping'[x] = mapping[x]
      BY <2>2, <2>4, <2>5
    <2>7. recency' \in [Keys -> Nat]
      BY <2>1, <2>2 DEF Touch
    <2>8. TypeOK'
      BY <2>1, <2>6, <2>7 DEF IInv, Typed, TypeOK
    <2>9. /\ DOMAIN word' = Keys /\ word'[k] = s
          /\ \A x \in Keys \ {k} : word'[x] = word[x]
      BY <2>1 DEF IInv, Typed
    <2>10. CacheIsClean' /\ RevocationHolds'
      BY <2>1, <2>6, <2>9 DEF IInv, CacheIsClean, RevocationHolds
    <2> QED
      BY <2>1, <2>8, <2>9, <2>10, ChangeKeeps
  <1>3. ASSUME NEW s \in ProjectStatuses, MoveProject(s) PROVE IInv'
    <2>1. /\ project' = s /\ Change
          /\ UNCHANGED <<at, msg, intent, role, by, mapping, recency, cache,
                         word>>
      BY <1>3 DEF MoveProject, thread
    <2>2. TypeOK'
      BY <2>1 DEF IInv, Typed, TypeOK
    <2>3. CacheIsClean' /\ RevocationHolds' /\ DOMAIN word' = Keys
      BY <2>1 DEF IInv, Typed, CacheIsClean, RevocationHolds
    <2> QED
      BY <2>1, <2>2, <2>3, ChangeKeeps
  <1> QED
    BY <1>1, <1>2, <1>3 DEF Others

\* Every step keeps the invariant.
LEMMA StepInvariant == IInv /\ [Next]_vars => IInv'
  <1> SUFFICES ASSUME IInv, [Next]_vars PROVE IInv'
    OBVIOUS
  <1>1. ASSUME NEW t \in Threads, NEW m \in Messages[t], Receive(t, m)
        PROVE  IInv'
    BY <1>1, ReceiveKeeps
  <1>2. ASSUME NEW t \in Threads, Handle(t) PROVE IInv'
    BY <1>2, CommandKeeps, ClassifyKeeps, FreeTextKeeps, PrincipalKeeps,
       GovernKeeps, ClaimKeeps DEF Handle
  <1>3. CASE Others
    BY <1>3, OthersKeep
  <1>4. CASE UNCHANGED vars
    <2> USE <1>4 DEF vars
    <2>1. Typed'
      BY DEF IInv, Typed, TypeOK
    <2>2. SignedSoFar' /\ CacheIsClean' /\ RevocationHolds'
      BY DEF IInv, SignedSoFar, CacheIsClean, RevocationHolds
    <2>3. SeenIsCurrent'
      <3>1. \A t \in Threads : Now(msg[t])' = Now(msg[t])
        BY DEF Now
      <3> QED
        BY <3>1 DEF IInv, SeenIsCurrent
    <2>4. AuthorizedSoFar'
      BY DEF IInv, AuthorizedSoFar, AuthorizedAt, Class, WasOpen
    <2>5. IntentSoFar'
      BY DEF IInv, IntentSoFar, IntentAt
    <2> QED
      BY <2>1, <2>2, <2>3, <2>4, <2>5 DEF IInv
  <1> QED
    BY <1>1, <1>2, <1>3, <1>4 DEF Next

-----------------------------------------------------------------------------
(* Theorems *)

\* The requests, the identity table and what was observed keep the invariant.
THEOREM IngressInvariant == Spec => []IInv
  BY InitInvariant, StepInvariant, PTL DEF Spec

\* Requests, the identity table, the cache and the project stay typed.
THEOREM IngressTypes == Spec => []TypeOK
  <1>1. IInv => TypeOK
    BY DEF IInv, Typed
  <1> QED
    BY <1>1, IngressInvariant, PTL

\* No way through the routers answers or admits a message whose connector
\* signature was not valid.
THEOREM EveryWayIsSigned == Spec => []AnsweredIsSigned
  <1>1. IInv => AnsweredIsSigned
    BY DEF IInv, SignedSoFar, Authenticated, AnsweredIsSigned
  <1> QED
    BY <1>1, IngressInvariant, PTL

\* An admitted Discord message was authorized by what was true while it was
\* being handled.
THEOREM EveryAdmissionIsAuthorized == Spec => []AdmittedIsAuthorized
  <1>1. IInv => AdmittedIsAuthorized
    BY DEF IInv, AuthorizedSoFar, AuthorizedAt, AdmittedIsAuthorized
  <1> QED
    BY <1>1, IngressInvariant, PTL

\* A concurrent claim_mapping does not undo a revocation.
THEOREM RevocationIsKept == Spec => []RevocationHolds
  <1>1. IInv => RevocationHolds
    BY DEF IInv
  <1> QED
    BY <1>1, IngressInvariant, PTL

\* Neither the cache nor a second classification lets free text mutate.
THEOREM FreeTextIsHarmless == Spec => []FreeTextNeverMutates
  <1>1. IInv => FreeTextNeverMutates
    BY DEF IInv, CacheIsClean, IntentSoFar, IntentAt, FreeTextNeverMutates
  <1> QED
    BY <1>1, IngressInvariant, PTL

=============================================================================
