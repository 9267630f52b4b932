------------------------- MODULE ConversationsProofs ------------------------
(***************************************************************************)
(* Proofs about Conversations, for every set of requests, every case, and  *)
(* every bound: what the ledger, the provider and the asker see of a       *)
(* request, and what the store keeps of it.                                *)
(***************************************************************************)
EXTENDS Conversations, TLAPS, FiniteSetTheorems

-----------------------------------------------------------------------------
(* The local state of a request *)

Answered == {"answered", "fallback", "refused", "raised", "lost"}

RunState ==
  [pc : Steps, route : Nat, attempt : Nat, posts : Nat,
   last : ProviderAnswers \union {"none"},
   decision : {"none", "served", "denied"}, evidence : SUBSET Sources,
   cites : SUBSET (Sources \union {Foreign}), history : SUBSET Requests,
   warm : SUBSET Requests, before : SUBSET Requests, read : BOOLEAN,
   seen : Nat, total : Nat, covers : SUBSET Requests,
   result : Answered \union {"none"}, ledgerFault : BOOLEAN]

Typed ==
  /\ case \in Cases
  /\ run \in [Requests -> RunState]
  /\ turn \in [Requests -> [stored : BOOLEAN, at : Nat, window : Int]]
  /\ ledger \in [Requests -> {"none", "reserved", "settled"}]
  /\ charged \subseteq Requests
  /\ clock \in Nat

\* Before the provider has answered, and while the answer is being kept.
Asking == {"idle", "guards", "ground", "windows", "history", "gateway", "post"}
Keeping == {"stamp"} \union Appending

\* Where a request is tells whether it was decided and answered, and which
\* places only the worker reaches.
Ordered(r, R) ==
  /\ R.pc \in Asking => R.decision = "none" /\ R.result = "none"
  /\ R.pc = "reply" => R.result = "none"
  /\ R.pc \in {"settle", "event", "validate"} =>
       R.decision = "served" /\ R.result = "none"
  /\ R.pc \in Keeping => R.result \in {"answered", "fallback"}
  /\ R.pc \in {"guards", "ground", "windows", "settle", "event", "validate"} =>
       Q(r).kind = "dispatch"
  /\ turn[r].stored => R.pc \in {"count", "tag", "fetch", "summary", "done"}

\* A reservation is held until it is settled, the settlement precedes the
\* usage, and the usage precedes the use of the answer.
Accounted(r, R) ==
  /\ r \in charged => ledger[r] = "settled"
  /\ ledger[r] = "settled" => R.decision = "served"
  /\ /\ Q(r).kind = "dispatch" /\ Q(r).reserves
     /\ R.pc \in (Asking \ {"idle"}) \union {"reply", "settle"}
     => ledger[r] = "reserved"
  /\ R.pc = "event" => ledger[r] = "settled"
  /\ /\ Q(r).kind = "dispatch" /\ Q(r).reserves
     /\ R.pc \in Keeping \union {"validate", "done"}
     /\ R.decision = "served" /\ ~R.ledgerFault /\ R.result # "lost"
     => r \in charged

\* What is kept of a grounded request cites its evidence.
Grounded(r, R) ==
  /\ Q(r).kind = "dispatch" /\ strict(Q(r)) /\ Q(r).role \in ToolRoles
  /\ R.pc \in Keeping \/ R.result = "answered" \/ turn[r].stored
  => CitesEvidence(R.cites, R.evidence)

Most(p) == (MaxRetries + 1) * (fallback_limit(p) + 1)

\* The requests sent so far, counted by alias and attempt.
Counted(r, R) ==
  /\ R.pc \in Asking \ {"post"} =>
       R.posts = 0 /\ R.route = 0 /\ R.attempt = 0 /\ R.last = "none"
  /\ R.pc = "post" =>
       /\ aliases(Q(r).profile) # 0
       /\ R.last \in {"none", "transient"}
       /\ R.attempt <= MaxRetries /\ R.route <= fallback_limit(Q(r).profile)
       /\ R.posts = IF R.route = 0 THEN R.attempt
                                   ELSE MaxRetries + 1 + R.attempt
  /\ R.posts > 0 => R.posts <= Most(Q(r).profile)
  /\ R.decision = "denied" /\ R.last = "transient"
       => R.posts = Most(Q(r).profile)

\* From the moment an agent has an answer, it is that answer.
Kept(r, R) ==
  Q(r).kind = "agent" /\ R.pc \in Keeping \union {"done"} /\ R.result # "lost"
    => R.result = IF R.decision = "served" THEN "answered" ELSE "fallback"

Phase(r, R) ==
  /\ Ordered(r, R) /\ Accounted(r, R) /\ Grounded(r, R) /\ Counted(r, R)
  /\ Kept(r, R)

IInv == Typed /\ \A r \in Requests : Phase(r, run[r])

-----------------------------------------------------------------------------
(* Lemmas about the operators *)

\* A profile has two aliases at most, and so one fallback at most.
LEMMA FallbackLimit ==
  ASSUME NEW p
  PROVE  /\ aliases(p) \in {0, 1, 2}
         /\ fallback_limit(p) = aliases(p) - 1
         /\ aliases(p) # 0 => Most(p) = IF fallback_limit(p) = 0
                                THEN MaxRetries + 1 ELSE 2 * (MaxRetries + 1)
<1>1. aliases(p) \in {0, 1, 2}
  BY DEF aliases
<1>2. fallback_limit(p) = aliases(p) - 1
  BY <1>1 DEF fallback_limit, max_fallback_hops
<1>3. MaxRetries \in Nat
  BY BoundsAssumption
<1>4. ASSUME aliases(p) # 0
      PROVE  Most(p) = IF fallback_limit(p) = 0
                         THEN MaxRetries + 1 ELSE 2 * (MaxRetries + 1)
  <2>1. CASE aliases(p) = 1
    BY <1>2, <1>3, <2>1 DEF Most
  <2>2. CASE aliases(p) = 2
    BY <1>2, <1>3, <2>2 DEF Most
  <2> QED
    BY <1>1, <1>4, <2>1, <2>2
<1> QED
  BY <1>1, <1>2, <1>4

\* The state before the request.
LEMMA StartIsTyped == Start \in RunState
  BY DEF Start, RunState, Steps, ProviderAnswers, Answered

\* The initial state satisfies the invariant.
LEMMA InitInvariant == Init => IInv
<1> SUFFICES ASSUME Init PROVE IInv
  OBVIOUS
<1>1. case \in Cases /\ DOMAIN case.earlier \subseteq Requests
  BY CasesAssumption DEF Init
<1>2. PICK R : R = [Start EXCEPT !.pc = "done", !.decision = "served",
                                 !.result = "answered"]
  OBVIOUS
<1>3. R \in RunState
  BY <1>2, StartIsTyped DEF RunState, Steps, Answered
<1>4. /\ R.pc = "done" /\ R.decision = "served" /\ R.result = "answered"
      /\ R.posts = 0 /\ R.last = "none"
  BY <1>2 DEF Start
<1>5. /\ run = [r \in Requests |-> IF r \in DOMAIN case.earlier
                                     THEN R ELSE Start]
      /\ charged = {} /\ ledger = [r \in Requests |-> "none"]
      /\ clock = Cardinality(DOMAIN case.earlier)
  BY <1>2 DEF Init
<1>6. IsFiniteSet(DOMAIN case.earlier)
  BY <1>1, BoundsAssumption, FS_Subset
<1>7. clock \in Nat
  BY <1>5, <1>6, FS_CardinalityType
<1>8. ASSUME NEW r \in DOMAIN case.earlier
      PROVE  Q(r).kind = "nobody" /\ case.earlier[r] \in Nat
  <2>1. Q(r).kind = "nobody" /\ case.earlier[r] \in 1..clock
    BY <1>1, <1>5, CasesAssumption DEF Q
  <2> QED
    BY <1>7, <2>1
<1>9. ASSUME NEW r \in Requests
      PROVE  /\ turn[r] \in [stored : BOOLEAN, at : Nat, window : Int]
             /\ turn[r].stored => r \in DOMAIN case.earlier
  <2> DEFINE older == {x \in {z \in DOMAIN case.earlier : Scope(z) = Scope(r)} :
                         case.earlier[x] < case.earlier[r]}
  <2>1. IsFiniteSet(older)
    BY <1>6, FS_Subset
  <2>2. Cardinality(older) \in Nat
    BY <2>1, FS_CardinalityType
  <2>3. PICK i : i = Cardinality(older) \div WindowExchanges
    OBVIOUS
  <2>4. i \in Int
    BY <2>2, <2>3, BoundsAssumption
  <2>5. r \in DOMAIN case.earlier =>
          \E j \in {i, Untagged} :
            turn[r] = [stored |-> TRUE, at |-> case.earlier[r], window |-> j]
    BY <2>3 DEF Init
  <2>6. r \notin DOMAIN case.earlier =>
          turn[r] = [stored |-> FALSE, at |-> 0, window |-> Untagged]
    BY DEF Init
  <2>7. Untagged \in Int
    BY DEF Untagged
  <2> HIDE DEF older
  <2>8. CASE r \in DOMAIN case.earlier
    <3>1. case.earlier[r] \in Nat
      BY <1>8, <2>8
    <3>2. PICK j \in Int :
            turn[r] = [stored |-> TRUE, at |-> case.earlier[r], window |-> j]
      BY <2>4, <2>5, <2>7, <2>8
    <3> QED
      BY <2>8, <3>1, <3>2
  <2>9. CASE r \notin DOMAIN case.earlier
    <3>1. PICK j \in Int : turn[r] = [stored |-> FALSE, at |-> 0, window |-> j]
      BY <2>6, <2>7, <2>9
    <3> QED
      BY <3>1
  <2> QED
    BY <2>8, <2>9
<1>10. turn \in [Requests -> [stored : BOOLEAN, at : Nat, window : Int]]
  BY <1>9 DEF Init
<1>11. Typed
  BY <1>1, <1>3, <1>5, <1>7, <1>10, StartIsTyped DEF Typed
<1>12. ASSUME NEW r \in Requests PROVE Phase(r, run[r])
  <2>1. CASE r \in DOMAIN case.earlier
    BY <1>4, <1>5, <1>8, <2>1
    DEF Phase, Ordered, Accounted, Grounded, Counted, Kept, Asking, Keeping,
        Appending
  <2>2. CASE r \notin DOMAIN case.earlier
    BY <1>5, <1>9, <2>2
    DEF Phase, Ordered, Accounted, Grounded, Counted, Kept, Asking, Keeping,
        Appending, Start
  <2> QED
    BY <2>1, <2>2
<1> QED
  BY <1>11, <1>12 DEF IInv

-----------------------------------------------------------------------------
(* One step of one request *)

\* The stored and ledger state of x is what it was.
SameFor(x) ==
  /\ ledger'[x] = ledger[x] /\ (x \in charged' <=> x \in charged)
  /\ turn'[x].stored = turn[x].stored

\* A step replaces the local state of one request; the other requests keep
\* theirs, and what the stores say of them.
LEMMA OneRunChanges ==
  ASSUME IInv, NEW r \in Requests, NEW R \in RunState,
         run' = [run EXCEPT ![r] = R], UNCHANGED case,
         turn' \in [Requests -> [stored : BOOLEAN, at : Nat, window : Int]],
         ledger' \in [Requests -> {"none", "reserved", "settled"}],
         charged' \subseteq Requests, clock' \in Nat,
         \A x \in Requests \ {r} : SameFor(x),
         Phase(r, R)'
  PROVE  IInv'
<1>1. /\ run' \in [Requests -> RunState] /\ run'[r] = R
      /\ \A x \in Requests \ {r} : run'[x] = run[x]
  BY DEF IInv, Typed
<1>2. Typed'
  BY <1>1 DEF IInv, Typed
<1>3. ASSUME NEW x \in Requests \ {r} PROVE Phase(x, run[x])'
  <2>1. Phase(x, run[x]) /\ SameFor(x) /\ run'[x] = run[x]
    BY <1>1 DEF IInv
  <2>2. Ordered(x, run[x])' /\ Grounded(x, run[x])' /\ Counted(x, run[x])'
    BY <2>1 DEF SameFor, Phase, Ordered, Grounded, Counted, Q
  <2>3. Kept(x, run[x])'
    BY <2>1 DEF SameFor, Phase, Kept, Q
  <2>4. Accounted(x, run[x])'
    BY <2>1 DEF SameFor, Phase, Accounted, Q
  <2> QED
    BY <2>2, <2>3, <2>4 DEF Phase
<1> QED
  BY <1>1, <1>2, <1>3 DEF IInv

\* The same for a step that touches neither ledger nor conversation.
LEMMA OnlyRunChanges ==
  ASSUME IInv, NEW r \in Requests, NEW R \in RunState,
         run' = [run EXCEPT ![r] = R],
         UNCHANGED <<case, turn, clock, ledger, charged>>, Phase(r, R)
  PROVE  IInv'
<1>1. /\ turn' \in [Requests -> [stored : BOOLEAN, at : Nat, window : Int]]
      /\ ledger' \in [Requests -> {"none", "reserved", "settled"}]
      /\ charged' \subseteq Requests /\ clock' \in Nat
  BY DEF IInv, Typed
<1>2. \A x \in Requests \ {r} : SameFor(x)
  BY DEF SameFor
<1>3. Phase(r, R)'
  BY DEF Phase, Ordered, Accounted, Grounded, Counted, Kept, Q
<1> QED
  BY <1>1, <1>2, <1>3, OneRunChanges

\* Everything the invariant says of R but its place is as in S.
Alike(R, S) ==
  /\ R.decision = S.decision /\ R.result = S.result
  /\ R.ledgerFault = S.ledgerFault
  /\ R.cites = S.cites /\ R.evidence = S.evidence
  /\ R.posts = S.posts /\ R.route = S.route
  /\ R.attempt = S.attempt /\ R.last = S.last

\* What Goto and End make of a local state.
Moved(S, l) == [S EXCEPT !.pc = l]
Over(S, res) == [S EXCEPT !.pc = "done", !.result = res]

\* A request that moves on keeps its other fields.
LEMMA MovedFields ==
  ASSUME NEW S \in RunState, NEW l \in Steps
  PROVE  /\ Moved(S, l) \in RunState
         /\ Moved(S, l).pc = l /\ Alike(Moved(S, l), S)
  BY DEF Moved, RunState, Alike

\* A request that is over keeps what it answered.
LEMMA OverFields ==
  ASSUME NEW S \in RunState, NEW res \in Answered
  PROVE  LET R == Over(S, res)
         IN  /\ R \in RunState
             /\ R.pc = "done" /\ R.result = res
             /\ R.decision = S.decision /\ R.ledgerFault = S.ledgerFault
             /\ R.cites = S.cites /\ R.evidence = S.evidence
             /\ R.posts = S.posts /\ R.last = S.last
  BY DEF Over, RunState, Steps

\* Goto moves one request on.
LEMMA GotoIs ==
  ASSUME IInv, NEW r \in Requests, NEW l, Goto(r, l)
  PROVE  run' = [run EXCEPT ![r] = Moved(run[r], l)]
  BY DEF Goto, Moved, IInv, Typed

\* End ends one request.
LEMMA EndIs ==
  ASSUME IInv, NEW r \in Requests, NEW res, End(r, res)
  PROVE  run' = [run EXCEPT ![r] = Over(run[r], res)]
  BY DEF End, Over, IInv, Typed

\* The steps from the beginning to the provider, and those of an append, only
\* move on.
Onward(r, from, to) ==
  \/ /\ from \in Asking \ {"post"} /\ to \in Asking \ {"idle"}
     /\ from = "idle" => ~(Q(r).kind = "dispatch" /\ Q(r).reserves)
     /\ to = "post" => aliases(Q(r).profile) # 0
     /\ to \in {"guards", "ground", "windows"} => Q(r).kind = "dispatch"
  \/ /\ from \in Appending
     /\ to \in {"count", "tag", "fetch", "summary", "done"}

\* A step that only moves on keeps the invariant of the request.
LEMMA MovingKeeps ==
  ASSUME IInv, NEW r \in Requests, NEW R \in RunState,
         run' = [run EXCEPT ![r] = R], Alike(R, run[r]),
         Onward(r, run[r].pc, R.pc),
         UNCHANGED <<case, turn, clock, ledger, charged>>
  PROVE  IInv'
<1>1. run[r] \in RunState /\ Phase(r, run[r])
  BY DEF IInv, Typed
<1>2. Ordered(r, R) /\ Kept(r, R) /\ Grounded(r, R)
  BY <1>1 DEF Alike, Onward, Phase, Ordered, Kept, Grounded, Asking, Keeping,
    Appending
<1>3. Accounted(r, R)
  BY <1>1 DEF Alike, Onward, Phase, Ordered, Accounted, Asking, Keeping,
    Appending
<1>4. Counted(r, R)
  <2>1. MaxRetries \in Nat
    BY BoundsAssumption
  <2>2. aliases(Q(r).profile) # 0 => fallback_limit(Q(r).profile) \in Nat
    BY FallbackLimit
  <2> QED
    BY <1>1, <2>1, <2>2 DEF Alike, Onward, Phase, Counted, Asking, Appending,
      RunState
<1> QED
  BY <1>2, <1>3, <1>4, OnlyRunChanges DEF Phase

\* A request that ends, but not with an answer of the model.
LEMMA EndKeeps ==
  ASSUME IInv, NEW r \in Requests, NEW res \in Answered, End(r, res),
         Q(r).kind = "agent" => res = "lost",
         res = "answered" => ~strict(Q(r)),
         Q(r).kind = "dispatch" /\ run[r].decision = "served" =>
           \/ res = "lost" \/ run[r].ledgerFault \/ ~Q(r).reserves
           \/ r \in charged,
         UNCHANGED <<case, turn, clock, ledger, charged>>
  PROVE  IInv'
<1>1. run[r] \in RunState /\ Phase(r, run[r])
  BY DEF IInv, Typed
<1>2. PICK R : R = Over(run[r], res)
  OBVIOUS
<1>3. run' = [run EXCEPT ![r] = R]
  BY <1>2, EndIs
<1>4. /\ R \in RunState /\ R.pc = "done" /\ R.result = res
      /\ R.decision = run[r].decision /\ R.ledgerFault = run[r].ledgerFault
      /\ R.cites = run[r].cites /\ R.evidence = run[r].evidence
      /\ R.posts = run[r].posts /\ R.last = run[r].last
  BY <1>1, <1>2, OverFields
<1>5. Phase(r, R)
  BY <1>1, <1>4 DEF Phase, Ordered, Kept, Grounded, Accounted, Counted, Asking,
    Keeping, Appending
<1> QED
  BY <1>3, <1>4, <1>5, OnlyRunChanges

\* The beginning of a request.
LEMMA BeginningKeeps ==
  ASSUME IInv, NEW r \in Requests, AskAgent(r) \/ Dispatch(r) PROVE IInv'
<1>1. run[r] \in RunState /\ Phase(r, run[r]) /\ run[r].pc = "idle"
  BY DEF IInv, Typed, AskAgent, Dispatch
<1>2. UNCHANGED <<case, turn, clock, charged>>
  BY DEF AskAgent, Dispatch, StoreUnchanged, LedgerUnchanged
<1>3. ASSUME NEW l \in {"history", "guards"},
             run' = [run EXCEPT ![r].pc = l, ![r].before = Ended(r)]
      PROVE  \E R \in RunState : /\ run' = [run EXCEPT ![r] = R]
                                 /\ Alike(R, run[r]) /\ R.pc = l
  <2>1. PICK R : R = [run[r] EXCEPT !.pc = l, !.before = Ended(r)]
    OBVIOUS
  <2>2. Ended(r) \subseteq Requests
    BY DEF Ended, Stored
  <2>3. R \in RunState /\ Alike(R, run[r]) /\ R.pc = l
    BY <1>1, <2>1, <2>2 DEF RunState, Steps, Alike
  <2>4. run' = [run EXCEPT ![r] = R]
    BY <1>3, <2>1 DEF IInv, Typed
  <2> QED
    BY <2>3, <2>4
<1>4. CASE AskAgent(r) \/ (Dispatch(r) /\ ~Q(r).reserves)
  <2>1. PICK l \in {"history", "guards"} :
          /\ run' = [run EXCEPT ![r].pc = l, ![r].before = Ended(r)]
          /\ UNCHANGED ledger
          /\ l = "guards" => Q(r).kind = "dispatch" /\ ~Q(r).reserves
          /\ l = "history" => Q(r).kind # "dispatch"
    BY <1>4 DEF AskAgent, Dispatch, LedgerUnchanged
  <2>2. PICK R \in RunState : /\ run' = [run EXCEPT ![r] = R]
                              /\ Alike(R, run[r]) /\ R.pc = l
    BY <1>3, <2>1
  <2>3. Onward(r, run[r].pc, R.pc)
    BY <1>1, <2>1, <2>2 DEF Onward, Asking
  <2> QED
    BY <1>2, <2>1, <2>2, <2>3, MovingKeeps
<1>5. CASE Dispatch(r) /\ Q(r).reserves
  <2>0. Q(r).kind = "dispatch"
    BY <1>5 DEF Dispatch
  <2>1. CASE End(r, "refused") /\ UNCHANGED ledger
    BY <1>1, <1>2, <2>0, <2>1, EndKeeps DEF Answered, Phase, Ordered, Asking
  <2>2. CASE /\ ledger' = [ledger EXCEPT ![r] = "reserved"]
             /\ run' = [run EXCEPT ![r].pc = "guards", ![r].before = Ended(r)]
    <3>1. PICK R \in RunState : /\ run' = [run EXCEPT ![r] = R]
                                /\ Alike(R, run[r]) /\ R.pc = "guards"
      BY <1>3, <2>2
    <3>2. /\ ledger' \in [Requests -> {"none", "reserved", "settled"}]
          /\ ledger'[r] = "reserved"
          /\ \A x \in Requests \ {r} : ledger'[x] = ledger[x]
      BY <2>2 DEF IInv, Typed
    <3>3. ledger[r] # "settled" /\ r \notin charged
      BY <1>1 DEF Phase, Accounted, Ordered, Asking
    <3>4. Phase(r, R)'
      BY <1>1, <1>2, <2>0, <3>1, <3>2, <3>3
      DEF Q, Alike, Phase, Ordered, Kept, Grounded, Accounted, Counted, Asking,
          Keeping, Appending
    <3>5. \A x \in Requests \ {r} : SameFor(x)
      BY <1>2, <3>2 DEF SameFor
    <3>6. /\ turn' \in [Requests -> [stored : BOOLEAN, at : Nat, window : Int]]
          /\ charged' \subseteq Requests /\ clock' \in Nat
      BY <1>2 DEF IInv, Typed
    <3> QED
      BY <1>2, <3>1, <3>2, <3>4, <3>5, <3>6, OneRunChanges
  <2> QED
    BY <1>5, <2>1, <2>2 DEF Dispatch
<1> QED
  BY <1>4, <1>5

\* What the steps around the conversation leave alone.
LEMMA ReadOnly ==
  ASSUME StoreUnchanged, LedgerUnchanged, UNCHANGED case
  PROVE  UNCHANGED <<case, turn, clock, ledger, charged>>
  BY DEF StoreUnchanged, LedgerUnchanged

\* A worker's request that the provider was not asked for ends.
LEMMA EarlyEndKeeps ==
  ASSUME IInv, NEW r \in Requests, run[r].pc \in Asking,
         Q(r).kind # "agent", NEW res \in Answered, End(r, res),
         res = "answered" => ~strict(Q(r)),
         UNCHANGED <<case, turn, clock, ledger, charged>>
  PROVE  IInv'
<1>1. run[r].decision # "served"
  BY DEF IInv, Phase, Ordered
<1> QED
  BY <1>1, EndKeeps

\* The guards of dispatch.
LEMMA GuardsKeep ==
  ASSUME IInv, NEW r \in Requests, ToolCommand(r) \/ Guards(r) PROVE IInv'
<1>1. /\ run[r] \in RunState /\ Phase(r, run[r]) /\ run[r].pc = "guards"
      /\ UNCHANGED <<case, turn, clock, ledger, charged>>
  BY ReadOnly DEF IInv, Typed, ToolCommand, Guards
<1>2. Q(r).kind = "dispatch" /\ run[r].pc \in Asking
  BY <1>1 DEF Phase, Ordered, Asking
<1>3. ASSUME NEW res \in {"answered", "refused"}, End(r, res),
             res = "answered" => Q(r).command = "tool_read"
      PROVE  IInv'
  BY <1>1, <1>2, <1>3, EarlyEndKeeps DEF strict, Answered
<1>4. ASSUME NEW l \in {"ground", "windows"}, Goto(r, l) PROVE IInv'
  <2>1. run' = [run EXCEPT ![r] = Moved(run[r], l)]
    BY <1>4, GotoIs
  <2>2. /\ Moved(run[r], l) \in RunState /\ Moved(run[r], l).pc = l
        /\ Alike(Moved(run[r], l), run[r])
    BY <1>1, MovedFields DEF Steps
  <2>3. Onward(r, run[r].pc, Moved(run[r], l).pc)
    BY <1>1, <1>2, <2>2 DEF Onward, Asking
  <2> QED
    BY <1>1, <2>1, <2>2, <2>3, MovingKeeps
<1> QED
  BY <1>3, <1>4 DEF ToolCommand, Guards

\* The evidence is gathered before anything is cited.
LEMMA ResolveGroundingKeeps ==
  ASSUME IInv, NEW r \in Requests, ResolveGrounding(r) PROVE IInv'
<1>1. /\ run[r] \in RunState /\ Phase(r, run[r]) /\ run[r].pc = "ground"
      /\ UNCHANGED <<case, turn, clock, ledger, charged>>
  BY ReadOnly DEF IInv, Typed, ResolveGrounding
<1>2. Q(r).kind = "dispatch" /\ run[r].pc \in Asking
  BY <1>1 DEF Phase, Ordered, Asking
<1>3. ASSUME NEW res \in {"refused", "raised"}, End(r, res) PROVE IInv'
  BY <1>1, <1>2, <1>3, EarlyEndKeeps DEF Answered
<1>4. ASSUME NEW found \in SUBSET Sources,
             run' = [run EXCEPT ![r].pc = "windows", ![r].evidence = found]
      PROVE  IInv'
  <2>1. PICK R : R = [run[r] EXCEPT !.pc = "windows", !.evidence = found]
    OBVIOUS
  <2>2. run' = [run EXCEPT ![r] = R]
    BY <1>4, <2>1 DEF IInv, Typed
  <2>3. /\ R \in RunState /\ R.pc = "windows" /\ R.decision = run[r].decision
        /\ R.result = run[r].result /\ R.ledgerFault = run[r].ledgerFault
        /\ R.posts = run[r].posts /\ R.route = run[r].route
        /\ R.attempt = run[r].attempt /\ R.last = run[r].last
    BY <1>1, <2>1 DEF RunState, Steps
  <2>4. Phase(r, R)
    BY <1>1, <1>2, <2>3
    DEF Phase, Ordered, Kept, Grounded, Accounted, Counted, Asking, Keeping,
        Appending
  <2> QED
    BY <1>1, <2>2, <2>3, <2>4, OnlyRunChanges
<1> QED
  BY <1>3, <1>4 DEF ResolveGrounding

\* The number of rows of a channel.
LEMMA StoredIsCounted ==
  ASSUME NEW s
  PROVE  /\ Stored(s) \subseteq Requests /\ IsFiniteSet(Stored(s))
         /\ Cardinality(Stored(s)) \in Nat
<1>1. Stored(s) \subseteq Requests
  BY DEF Stored
<1>2. IsFiniteSet(Stored(s))
  BY <1>1, BoundsAssumption, FS_Subset
<1> QED
  BY <1>1, <1>2, FS_CardinalityType

\* Summaries and embeddings are of rows of the store.
SummariesTyped ==
  /\ \A w \in DOMAIN windows :
       windows[w] \in [summary : SUBSET Requests,
                      embedding : SUBSET (SUBSET Requests)]
  /\ \A e \in embeds : e.text \subseteq Requests

\* The two reads of the prompt.
LEMMA ReadWindowsKeeps ==
  ASSUME IInv, SummariesTyped, NEW r \in Requests, ReadWindows(r) PROVE IInv'
<1>1. /\ run[r] \in RunState /\ Phase(r, run[r]) /\ run[r].pc = "windows"
      /\ UNCHANGED <<case, turn, clock, ledger, charged>>
  BY ReadOnly DEF IInv, Typed, ReadWindows
<1>2. Q(r).kind = "dispatch" /\ run[r].pc \in Asking
  BY <1>1 DEF Phase, Ordered, Asking
<1>3. CASE End(r, "raised")
  BY <1>1, <1>2, <1>3, EarlyEndKeeps DEF Answered
<1>4. CASE ~End(r, "raised")
  <2> DEFINE text == UNION {windows[w].summary : w \in list_windows(Scope(r))}
             n == Cardinality(Stored(Scope(r)))
  <2>1. PICK R : R = [run[r] EXCEPT !.pc = "history", !.warm = text,
                                    !.seen = n]
    OBVIOUS
  <2>2. run' = [run EXCEPT ![r] = R]
    BY <1>4, <2>1 DEF ReadWindows, IInv, Typed
  <2>3. text \subseteq Requests
    <3>1. \A w \in list_windows(Scope(r)) : windows[w].summary \subseteq Requests
      BY DEF SummariesTyped, list_windows
    <3> QED
      BY <3>1
  <2>4. n \in Nat
    BY StoredIsCounted
  <2> HIDE DEF text, n
  <2>5. R \in RunState /\ Alike(R, run[r]) /\ R.pc = "history"
    BY <1>1, <2>1, <2>3, <2>4 DEF RunState, Steps, Alike
  <2>6. Onward(r, run[r].pc, R.pc)
    BY <1>1, <2>5 DEF Onward, Asking
  <2> QED
    BY <1>1, <2>2, <2>5, <2>6, MovingKeeps
<1> QED
  BY <1>3, <1>4

\* Reading the history keeps the invariant.
LEMMA ReadHistoryKeeps ==
  ASSUME IInv, NEW r \in Requests, ReadHistory(r) PROVE IInv'
<1>1. /\ run[r] \in RunState /\ Phase(r, run[r]) /\ run[r].pc = "history"
      /\ UNCHANGED <<case, turn, clock, ledger, charged>>
  BY ReadOnly DEF IInv, Typed, ReadHistory
<1>2. run[r].pc \in Asking
  BY <1>1 DEF Asking
<1>3. ASSUME NEW R \in RunState, Alike(R, run[r]), R.pc = "gateway",
             run' = [run EXCEPT ![r] = R]
      PROVE  IInv'
  <2>1. Onward(r, run[r].pc, R.pc)
    BY <1>1, <1>3 DEF Onward, Asking
  <2> QED
    BY <1>1, <1>3, <2>1, MovingKeeps
<1>4. CASE Goto(r, "gateway")
  <2>1. run' = [run EXCEPT ![r] = Moved(run[r], "gateway")]
    BY <1>4, GotoIs
  <2>2. LET R == Moved(run[r], "gateway")
        IN  R \in RunState /\ Alike(R, run[r]) /\ R.pc = "gateway"
    BY <1>1, MovedFields DEF Steps
  <2> QED
    BY <1>3, <2>1, <2>2
<1>5. CASE End(r, "raised") /\ Q(r).kind # "agent"
  BY <1>1, <1>2, <1>5, EarlyEndKeeps DEF Answered
<1>6. CASE run' = [run EXCEPT ![r].pc = "gateway",
                              ![r].history = list_turns(Scope(r)),
                              ![r].read = TRUE]
  <2>2. PICK R : R = [run[r] EXCEPT !.pc = "gateway",
                        !.history = list_turns(Scope(r)), !.read = TRUE]
    OBVIOUS
  <2>3. run' = [run EXCEPT ![r] = R]
    BY <1>6, <2>2 DEF IInv, Typed
  <2>4. list_turns(Scope(r)) \subseteq Requests
    BY DEF list_turns, Stored
  <2>5. R \in RunState /\ Alike(R, run[r]) /\ R.pc = "gateway"
    BY <1>1, <2>2, <2>4 DEF RunState, Steps, Alike
  <2> QED
    BY <1>3, <2>3, <2>5
<1> QED
  BY <1>4, <1>5, <1>6 DEF ReadHistory

-----------------------------------------------------------------------------
(* The provider and what is made of its answer *)

\* The gateway asks, or denies without having asked.
LEMMA RouteKeeps ==
  ASSUME IInv, NEW r \in Requests, Route(r) PROVE IInv'
<1>1. /\ run[r] \in RunState /\ Phase(r, run[r]) /\ run[r].pc = "gateway"
      /\ UNCHANGED <<case, turn, clock, ledger, charged>>
  BY ReadOnly DEF IInv, Typed, Route
<1>2. CASE Goto(r, "post") /\ aliases(Q(r).profile) # 0
  <2>1. run' = [run EXCEPT ![r] = Moved(run[r], "post")]
    BY <1>2, GotoIs
  <2>2. /\ Moved(run[r], "post") \in RunState /\ Moved(run[r], "post").pc = "post"
        /\ Alike(Moved(run[r], "post"), run[r])
    BY <1>1, MovedFields DEF Steps
  <2>3. Onward(r, run[r].pc, Moved(run[r], "post").pc)
    BY <1>1, <1>2, <2>2 DEF Onward, Asking
  <2> QED
    BY <1>1, <2>1, <2>2, <2>3, MovingKeeps
<1>3. CASE Denied(r)
  <2>1. PICK R : R = [run[r] EXCEPT !.pc = "reply", !.decision = "denied"]
    OBVIOUS
  <2>2. run' = [run EXCEPT ![r] = R]
    BY <1>3, <2>1 DEF Denied, IInv, Typed
  <2>3. /\ R \in RunState /\ R.pc = "reply" /\ R.decision = "denied"
        /\ R.result = run[r].result /\ R.ledgerFault = run[r].ledgerFault
        /\ R.cites = run[r].cites /\ R.evidence = run[r].evidence
        /\ R.posts = run[r].posts /\ R.last = run[r].last
    BY <1>1, <2>1 DEF RunState, Steps
  <2>4. Phase(r, R)
    BY <1>1, <2>3
    DEF Phase, Ordered, Kept, Grounded, Accounted, Counted, Asking, Keeping,
        Appending
  <2> QED
    BY <1>1, <2>2, <2>3, <2>4, OnlyRunChanges
<1> QED
  BY <1>2, <1>3 DEF Route

\* One attempt: the requests of the earlier aliases and attempts stay counted.
LEMMA PostKeeps ==
  ASSUME IInv, NEW r \in Requests, Post(r) PROVE IInv'
<1> DEFINE S == run[r]
           limit == fallback_limit(Q(r).profile)
<1>1. /\ S \in RunState /\ Phase(r, S) /\ S.pc = "post"
      /\ UNCHANGED <<case, turn, clock, ledger, charged>>
  BY ReadOnly DEF IInv, Typed, Post
<1>2. /\ S.posts \in Nat /\ S.route \in Nat /\ S.attempt \in Nat
      /\ S.decision = "none" /\ S.result = "none" /\ ~turn[r].stored
      /\ ledger[r] # "settled" /\ r \notin charged
      /\ Q(r).kind = "dispatch" /\ Q(r).reserves => ledger[r] = "reserved"
  BY <1>1 DEF RunState, Phase, Ordered, Accounted, Asking
<1>3. /\ S.attempt <= MaxRetries /\ S.route <= limit
      /\ S.posts = IF S.route = 0 THEN S.attempt ELSE MaxRetries + 1 + S.attempt
      /\ limit \in {0, 1} /\ aliases(Q(r).profile) # 0
      /\ Most(Q(r).profile) = IF limit = 0 THEN MaxRetries + 1
                                           ELSE 2 * (MaxRetries + 1)
  BY <1>1, FallbackLimit DEF Phase, Counted
<1>4. MaxRetries \in Nat
  BY BoundsAssumption
<1>5. run \in [Requests -> RunState]
  BY DEF IInv, Typed
<1>n. PICK n \in Nat : n = S.posts + 1
  BY <1>2
<1>m. PICK m \in Nat : m = S.attempt + 1
  BY <1>2
<1>k. PICK k \in Nat : k = S.route + 1
  BY <1>2
<1> HIDE DEF S, limit
<1>6. ASSUME NEW R \in RunState, run' = [run EXCEPT ![r] = R],
             Phase(r, R)
      PROVE  IInv'
  BY <1>1, <1>6, OnlyRunChanges
<1>7. ASSUME run' = [run EXCEPT ![r].pc = "reply", ![r].decision = "served",
                                ![r].posts = @ + 1, ![r].last = "ok"]
      PROVE  IInv'
  <2>1. PICK R : R = [S EXCEPT !.pc = "reply", !.decision = "served",
                               !.posts = n, !.last = "ok"]
    OBVIOUS
  <2>2. run' = [run EXCEPT ![r] = R]
    BY <1>5, <1>7, <1>n, <2>1 DEF S
  <2>3. /\ R \in RunState /\ R.pc = "reply" /\ R.decision = "served"
        /\ R.result = "none" /\ R.posts = n /\ R.last = "ok"
    BY <1>1, <1>2, <2>1 DEF RunState, Steps, ProviderAnswers
  <2>4. Ordered(r, R) /\ Kept(r, R) /\ Grounded(r, R) /\ Accounted(r, R)
    BY <1>2, <2>3 DEF Ordered, Kept, Grounded, Accounted, Asking, Keeping,
      Appending
  <2>5. Counted(r, R)
    BY <1>2, <1>3, <1>4, <1>n, <1>m, <1>k, <2>3 DEF Counted, Asking
  <2> QED
    BY <1>6, <2>2, <2>3, <2>4, <2>5 DEF Phase
<1>8. ASSUME S.attempt < MaxRetries,
             run' = [run EXCEPT ![r].attempt = @ + 1, ![r].posts = @ + 1,
                                ![r].last = "transient"]
      PROVE  IInv'
  <2>1. PICK R : R = [S EXCEPT !.attempt = m,
                               !.posts = n, !.last = "transient"]
    OBVIOUS
  <2>2. run' = [run EXCEPT ![r] = R]
    BY <1>5, <1>8, <1>n, <1>m, <2>1 DEF S
  <2>3. /\ R \in RunState /\ R.pc = "post" /\ R.decision = "none"
        /\ R.result = "none" /\ R.posts = n /\ R.last = "transient"
        /\ R.attempt = m /\ R.route = S.route
    BY <1>1, <1>2, <2>1 DEF RunState, ProviderAnswers
  <2>4. Ordered(r, R) /\ Kept(r, R) /\ Grounded(r, R) /\ Accounted(r, R)
    BY <1>2, <2>3 DEF Ordered, Kept, Grounded, Accounted, Asking, Keeping,
      Appending
  <2>5. Counted(r, R)
    BY <1>2, <1>3, <1>4, <1>n, <1>m, <1>k, <1>8, <2>3 DEF Counted, Asking, limit
  <2> QED
    BY <1>6, <2>2, <2>3, <2>4, <2>5 DEF Phase
<1>9. ASSUME NEW a \in {"transient", "rejected", "invalid"}, NextRoute(r, a),
             a = "transient" => S.attempt >= MaxRetries
      PROVE  IInv'
  <2>1. CASE a = "transient" /\ S.route < limit
    <3>1. PICK R : R = [S EXCEPT !.route = k, !.attempt = 0,
                                 !.posts = n, !.last = a]
      OBVIOUS
    <3>2. run' = [run EXCEPT ![r] = R]
      BY <1>5, <1>9, <1>n, <1>k, <2>1, <3>1 DEF S, limit, NextRoute
    <3>3. /\ R \in RunState /\ R.pc = "post" /\ R.decision = "none"
          /\ R.result = "none" /\ R.posts = n /\ R.last = a
          /\ R.attempt = 0 /\ R.route = k
      BY <1>1, <1>2, <3>1 DEF RunState, ProviderAnswers
    <3>4. Ordered(r, R) /\ Kept(r, R) /\ Grounded(r, R) /\ Accounted(r, R)
      BY <1>2, <3>3 DEF Ordered, Kept, Grounded, Accounted, Asking, Keeping,
        Appending
    <3>5. Counted(r, R)
      BY <1>2, <1>3, <1>4, <1>n, <1>m, <1>k, <1>9, <2>1, <3>3 DEF Counted, Asking, limit
    <3> QED
      BY <1>6, <3>2, <3>3, <3>4, <3>5 DEF Phase
  <2>2. CASE ~(a = "transient" /\ S.route < limit)
    <3>1. PICK R : R = [S EXCEPT !.pc = "reply", !.decision = "denied",
                                 !.posts = n, !.last = a]
      OBVIOUS
    <3>2. run' = [run EXCEPT ![r] = R]
      BY <1>5, <1>9, <1>n, <2>2, <3>1 DEF S, limit, NextRoute
    <3>3. /\ R \in RunState /\ R.pc = "reply" /\ R.decision = "denied"
          /\ R.result = "none" /\ R.posts = n /\ R.last = a
      BY <1>1, <1>2, <3>1 DEF RunState, Steps, ProviderAnswers
    <3>4. Ordered(r, R) /\ Kept(r, R) /\ Grounded(r, R) /\ Accounted(r, R)
      BY <1>2, <3>3 DEF Ordered, Kept, Grounded, Accounted, Asking, Keeping,
        Appending
    <3>5. Counted(r, R)
      BY <1>2, <1>3, <1>4, <1>n, <1>m, <1>k, <1>9, <2>2, <3>3 DEF Counted, Asking
    <3> QED
      BY <1>6, <3>2, <3>3, <3>4, <3>5 DEF Phase
  <2> QED
    BY <2>1, <2>2
<1>10. ASSUME NEW l \in {"stamp", "done"}, NEW res \in {"fallback", "raised"},
              run' = [run EXCEPT ![r].pc = l, ![r].last = "unexpected",
                                 ![r].posts = @ + 1, ![r].result = res],
              Q(r).kind = "agent" => res = "fallback",
              Q(r).kind # "agent" => l = "done"
       PROVE  IInv'
  <2>1. PICK R : R = [S EXCEPT !.pc = l, !.last = "unexpected",
                               !.posts = n, !.result = res]
    OBVIOUS
  <2>2. run' = [run EXCEPT ![r] = R]
    BY <1>5, <1>10, <1>n, <2>1 DEF S
  <2>3. /\ R \in RunState /\ R.pc = l /\ R.decision = "none"
        /\ R.result = res /\ R.posts = n /\ R.last = "unexpected"
    BY <1>1, <1>2, <2>1 DEF RunState, Steps, ProviderAnswers, Answered
  <2>4. Ordered(r, R) /\ Kept(r, R) /\ Grounded(r, R) /\ Accounted(r, R)
    BY <1>2, <1>10, <2>3 DEF Ordered, Kept, Grounded, Accounted, Asking, Keeping,
      Appending
  <2>5. Counted(r, R)
    BY <1>2, <1>3, <1>4, <1>n, <1>m, <1>k, <2>3 DEF Counted, Asking
  <2> QED
    BY <1>6, <2>2, <2>3, <2>4, <2>5 DEF Phase
<1> QED
  BY <1>7, <1>8, <1>9, <1>10 DEF Post, S

\* An agent's answer.
LEMMA AdviseKeeps ==
  ASSUME IInv, NEW r \in Requests, Advise(r) PROVE IInv'
<1>1. /\ run[r] \in RunState /\ Phase(r, run[r]) /\ run[r].pc = "reply"
      /\ Q(r).kind # "dispatch"
      /\ UNCHANGED <<case, turn, clock, ledger, charged>>
  BY ReadOnly DEF IInv, Typed, Advise
<1>2. PICK res \in Answered : res = IF run[r].decision = "served"
                                      THEN "answered" ELSE "fallback"
  BY DEF Answered
<1>3. PICK R : R = [run[r] EXCEPT !.pc = "stamp", !.result = res]
  OBVIOUS
<1>4. run' = [run EXCEPT ![r] = R]
  BY <1>2, <1>3 DEF Advise, IInv, Typed
<1>5. /\ R \in RunState /\ R.pc = "stamp" /\ R.decision = run[r].decision
      /\ R.result = res /\ R.ledgerFault = run[r].ledgerFault
      /\ R.posts = run[r].posts /\ R.last = run[r].last
  BY <1>1, <1>3 DEF RunState, Steps
<1>6. Phase(r, R)
  BY <1>1, <1>2, <1>5
  DEF Phase, Ordered, Kept, Grounded, Accounted, Counted, Asking, Keeping,
      Appending
<1> QED
  BY <1>1, <1>4, <1>5, <1>6, OnlyRunChanges

\* The worker refuses what was denied and settles what was served.
LEMMA ServedKeeps ==
  ASSUME IInv, NEW r \in Requests, Served(r) PROVE IInv'
<1>1. /\ run[r] \in RunState /\ Phase(r, run[r]) /\ run[r].pc = "reply"
      /\ Q(r).kind = "dispatch"
      /\ UNCHANGED <<case, turn, clock, ledger, charged>>
  BY ReadOnly DEF IInv, Typed, Served
<1>2. CASE run[r].decision = "served"
  <2>1. PICK R : R = Moved(run[r], "settle")
    OBVIOUS
  <2>2. run' = [run EXCEPT ![r] = R]
    BY <1>2, <2>1, GotoIs DEF Served
  <2>3. R \in RunState /\ R.pc = "settle" /\ Alike(R, run[r])
    BY <1>1, <2>1, MovedFields DEF Steps
  <2>4. Phase(r, R)
    BY <1>1, <1>2, <2>3
    DEF Alike, Phase, Ordered, Kept, Grounded, Accounted, Counted, Asking,
        Keeping, Appending
  <2> QED
    BY <1>1, <2>2, <2>3, <2>4, OnlyRunChanges
<1>3. CASE run[r].decision # "served"
  BY <1>1, <1>3, EndKeeps DEF Served, Answered
<1> QED
  BY <1>2, <1>3

\* The ledger fails: the answer is used all the same.
LEMMA LedgerFaultIs ==
  ASSUME IInv, NEW r \in Requests, LedgerFails(r),
         Phase(r, run[r]), run[r].pc \in {"settle", "event"},
         UNCHANGED <<case, turn, clock, ledger, charged>>
  PROVE  IInv'
<1>1. run[r] \in RunState
  BY DEF IInv, Typed
<1>2. PICK R : R = [run[r] EXCEPT !.pc = "validate", !.ledgerFault = TRUE]
  OBVIOUS
<1>3. run' = [run EXCEPT ![r] = R]
  BY <1>2 DEF LedgerFails, IInv, Typed
<1>4. /\ R \in RunState /\ R.pc = "validate" /\ R.decision = run[r].decision
      /\ R.result = run[r].result /\ R.ledgerFault
      /\ R.cites = run[r].cites /\ R.evidence = run[r].evidence
      /\ R.posts = run[r].posts /\ R.last = run[r].last
  BY <1>1, <1>2 DEF RunState, Steps
<1>5. Phase(r, R)
  BY <1>4
  DEF Phase, Ordered, Kept, Grounded, Accounted, Counted, Asking, Keeping,
      Appending
<1> QED
  BY <1>3, <1>4, <1>5, OnlyRunChanges

\* The reservation is settled, then the usage recorded.
LEMMA SettlementKeeps ==
  ASSUME IInv, NEW r \in Requests, Settle(r) \/ RecordUsage(r) PROVE IInv'
<1>1. /\ run[r] \in RunState /\ Phase(r, run[r])
      /\ run[r].pc \in {"settle", "event"}
      /\ UNCHANGED <<case, turn, clock>>
  BY DEF IInv, Typed, Settle, RecordUsage, StoreUnchanged
<1>2. ASSUME LedgerFails(r), UNCHANGED <<ledger, charged>> PROVE IInv'
  BY <1>1, <1>2, LedgerFaultIs
<1>3. ASSUME NEW l \in {"event", "validate"}, Goto(r, l),
             ledger' \in [Requests -> {"none", "reserved", "settled"}],
             charged' \subseteq Requests,
             \A x \in Requests \ {r} : ledger'[x] = ledger[x],
             \A x \in Requests \ {r} : x \in charged' <=> x \in charged,
             r \in charged' \/ l = "event" => ledger'[r] = "settled",
             /\ Q(r).kind = "dispatch" /\ Q(r).reserves /\ l = "validate"
             => r \in charged'
      PROVE  IInv'
  <2>1. PICK R : R = Moved(run[r], l)
    OBVIOUS
  <2>2. run' = [run EXCEPT ![r] = R]
    BY <1>3, <2>1, GotoIs
  <2>3. R \in RunState /\ R.pc = l /\ Alike(R, run[r])
    BY <1>1, <2>1, MovedFields DEF Steps
  <2>4. Phase(r, R)'
    BY <1>1, <1>3, <2>3
    DEF Q, Alike, Phase, Ordered, Kept, Grounded, Accounted, Counted, Asking,
        Keeping, Appending
  <2>5. \A x \in Requests \ {r} : SameFor(x)
    BY <1>1, <1>3 DEF SameFor
  <2>6. /\ turn' \in [Requests -> [stored : BOOLEAN, at : Nat, window : Int]]
        /\ clock' \in Nat
    BY <1>1 DEF IInv, Typed
  <2> QED
    BY <1>1, <1>3, <2>2, <2>3, <2>4, <2>5, <2>6, OneRunChanges
<1>4. /\ ledger \in [Requests -> {"none", "reserved", "settled"}]
      /\ charged \subseteq Requests
      /\ r \in charged => ledger[r] = "settled"
      /\ run[r].pc = "event" => ledger[r] = "settled"
      /\ /\ run[r].pc = "settle" /\ Q(r).kind = "dispatch" /\ Q(r).reserves
         => ledger[r] = "reserved"
  BY <1>1 DEF IInv, Typed, Phase, Accounted
<1>5. CASE Settle(r)
  <2>1. ASSUME ledger' = [ledger EXCEPT ![r] = "settled"], Goto(r, "event"),
               UNCHANGED charged
        PROVE  IInv'
    BY <1>3, <1>4, <2>1
  <2>2. ASSUME ledger[r] # "reserved", Goto(r, "validate"),
               UNCHANGED <<ledger, charged>>
        PROVE  IInv'
    BY <1>3, <1>4, <1>5, <2>2 DEF Settle
  <2> QED
    BY <1>2, <1>5, <2>1, <2>2 DEF Settle
<1>6. CASE RecordUsage(r)
  <2>1. ASSUME charged' = charged \union {r}, Goto(r, "validate"),
               UNCHANGED ledger
        PROVE  IInv'
    BY <1>3, <1>4, <1>6, <2>1 DEF RecordUsage
  <2> QED
    BY <1>2, <1>6, <2>1 DEF RecordUsage
<1> QED
  BY <1>5, <1>6

\* A grounded answer goes on only with its citations.
LEMMA ValidateKeeps ==
  ASSUME IInv, NEW r \in Requests, Validate(r) PROVE IInv'
<1>1. /\ run[r] \in RunState /\ Phase(r, run[r]) /\ run[r].pc = "validate"
      /\ UNCHANGED <<case, turn, clock, ledger, charged>>
  BY ReadOnly DEF IInv, Typed, Validate
<1>2. /\ Q(r).kind = "dispatch" /\ run[r].decision = "served"
      /\ ~turn[r].stored /\ ledger[r] \in {"none", "reserved", "settled"}
  BY <1>1 DEF Phase, Ordered, IInv, Typed
<1>3. CASE /\ ~(strict(Q(r)) /\ Q(r).role \in ToolRoles)
           /\ run' = [run EXCEPT ![r].pc = "stamp", ![r].result = "answered"]
  <2>1. PICK R : R = [run[r] EXCEPT !.pc = "stamp", !.result = "answered"]
    OBVIOUS
  <2>2. run' = [run EXCEPT ![r] = R]
    BY <1>3, <2>1 DEF IInv, Typed
  <2>3. /\ R \in RunState /\ R.pc = "stamp" /\ R.decision = run[r].decision
        /\ R.result = "answered" /\ R.ledgerFault = run[r].ledgerFault
        /\ R.posts = run[r].posts /\ R.last = run[r].last
    BY <1>1, <2>1 DEF RunState, Steps, Answered
  <2>4. Phase(r, R)
    BY <1>1, <1>2, <1>3, <2>3
    DEF Phase, Ordered, Kept, Grounded, Accounted, Counted, Asking, Keeping,
        Appending
  <2> QED
    BY <1>1, <2>2, <2>3, <2>4, OnlyRunChanges
<1>4. ASSUME NEW cites \in SUBSET (Sources \union {Foreign}),
             NEW l \in {"stamp", "done"}, NEW res \in {"answered", "refused"},
             l = "stamp" => res = "answered",
             res = "answered" => CitesEvidence(cites, run[r].evidence),
             run' = [run EXCEPT ![r].pc = l, ![r].cites = cites,
                                ![r].result = res]
      PROVE  IInv'
  <2>1. PICK R : R = [run[r] EXCEPT !.pc = l, !.cites = cites, !.result = res]
    OBVIOUS
  <2>2. run' = [run EXCEPT ![r] = R]
    BY <1>4, <2>1 DEF IInv, Typed
  <2>3. /\ R \in RunState /\ R.pc = l /\ R.decision = run[r].decision
        /\ R.result = res /\ R.ledgerFault = run[r].ledgerFault
        /\ R.cites = cites /\ R.evidence = run[r].evidence
        /\ R.posts = run[r].posts /\ R.last = run[r].last
    BY <1>1, <1>4, <2>1 DEF RunState, Steps, Answered
  <2>4. Phase(r, R)
    BY <1>1, <1>2, <1>4, <2>3
    DEF Phase, Ordered, Kept, Grounded, Accounted, Counted, Asking, Keeping,
        Appending
  <2> QED
    BY <1>1, <2>2, <2>3, <2>4, OnlyRunChanges
<1>5. ASSUME NEW cites \in SUBSET (Sources \union {Foreign}),
             IF CitesEvidence(cites, run[r].evidence)
               THEN run' = [run EXCEPT ![r].pc = "stamp", ![r].cites = cites,
                                       ![r].result = "answered"]
               ELSE run' = [run EXCEPT ![r].pc = "done", ![r].cites = cites,
                                       ![r].result = "refused"]
      PROVE  IInv'
  BY <1>4, <1>5
<1>6. ASSUME NEW s \in run[r].evidence,
             run' = [run EXCEPT ![r].pc = "stamp", ![r].cites = {s},
                                ![r].result = "answered"]
      PROVE  IInv'
  <2>1. /\ {s} \in SUBSET (Sources \union {Foreign})
        /\ CitesEvidence({s}, run[r].evidence)
    BY <1>1, <1>6 DEF RunState, CitesEvidence
  <2> QED
    BY <1>4, <1>6, <2>1
<1> QED
  BY <1>3, <1>5, <1>6 DEF Validate

-----------------------------------------------------------------------------
(* The append *)

\* A failed append: an agent goes on, the others raise.
LEMMA AppendFailsKeeps ==
  ASSUME IInv, NEW r \in Requests, run[r].pc \in {"insert", "count"},
         AppendFails(r), UNCHANGED <<case, turn, clock, ledger, charged>>
  PROVE  IInv'
<1>1. run[r] \in RunState /\ Phase(r, run[r])
  BY DEF IInv, Typed
<1>2. CASE Q(r).kind = "agent"
  <2>1. PICK R : R = Moved(run[r], "done")
    OBVIOUS
  <2>2. run' = [run EXCEPT ![r] = R]
    BY <1>2, <2>1, GotoIs DEF AppendFails
  <2>3. R \in RunState /\ R.pc = "done" /\ Alike(R, run[r])
    BY <1>1, <2>1, MovedFields DEF Steps
  <2>4. Onward(r, run[r].pc, R.pc)
    BY <2>3 DEF Onward, Appending
  <2> QED
    BY <2>2, <2>3, <2>4, MovingKeeps
<1>3. CASE Q(r).kind # "agent"
  <2>1. Q(r).kind = "dispatch" /\ run[r].decision = "served" =>
          \/ run[r].result = "lost" \/ run[r].ledgerFault \/ ~Q(r).reserves
          \/ r \in charged
    BY <1>1 DEF Phase, Accounted, Keeping, Appending
  <2>2. run[r].result # "lost"
    BY <1>1 DEF Phase, Ordered, Keeping, Appending
  <2> QED
    BY <1>3, <2>1, <2>2, EndKeeps DEF AppendFails, Answered
<1> QED
  BY <1>2, <1>3

\* A move within the append that leaves the ledger alone and stores nothing
\* but, at most, the exchange itself.
LEMMA AppendMoveKeeps ==
  ASSUME IInv, NEW r \in Requests, NEW R \in RunState,
         run' = [run EXCEPT ![r] = R], Alike(R, run[r]),
         \/ run[r].pc = "stamp" /\ R.pc = "insert" /\ ~turn'[r].stored
         \/ /\ run[r].pc \in Appending
            /\ R.pc \in {"count", "tag", "fetch", "summary", "done"},
         UNCHANGED <<case, ledger, charged>>, clock' \in Nat,
         turn' \in [Requests -> [stored : BOOLEAN, at : Nat, window : Int]],
         \A x \in Requests \ {r} : turn'[x].stored = turn[x].stored
  PROVE  IInv'
<1>1. run[r] \in RunState /\ Phase(r, run[r])
  BY DEF IInv, Typed
<1>2. (Ordered(r, R) /\ Kept(r, R) /\ Grounded(r, R))'
  BY <1>1 DEF Q, Alike, Phase, Ordered, Kept, Grounded, Asking, Keeping,
    Appending
<1>3. Accounted(r, R)'
  BY <1>1 DEF Q, Alike, Phase, Ordered, Accounted, Asking, Keeping, Appending
<1>4. Counted(r, R)'
  BY <1>1 DEF Q, Alike, Phase, Counted, Asking, Appending
<1>5. \A x \in Requests \ {r} : SameFor(x)
  BY DEF SameFor
<1>6. /\ ledger' \in [Requests -> {"none", "reserved", "settled"}]
      /\ charged' \subseteq Requests
  BY DEF IInv, Typed
<1>7. Phase(r, R)'
  BY <1>2, <1>3, <1>4 DEF Phase
<1> QED
  BY <1>5, <1>6, <1>7, OneRunChanges

\* created_at is taken.
LEMMA StampKeeps ==
  ASSUME IInv, NEW r \in Requests, Stamp(r) PROVE IInv'
<1>1. /\ run[r] \in RunState /\ Phase(r, run[r]) /\ run[r].pc = "stamp"
      /\ turn \in [Requests -> [stored : BOOLEAN, at : Nat, window : Int]]
      /\ UNCHANGED <<case, ledger, charged>>
      /\ clock' \in Nat /\ turn' = [turn EXCEPT ![r].at = clock + 1]
      /\ clock + 1 \in Nat
  BY DEF IInv, Typed, Stamp, LedgerUnchanged
<1>2. PICK R : R = Moved(run[r], "insert")
  OBVIOUS
<1>3. run' = [run EXCEPT ![r] = R]
  BY <1>2, GotoIs DEF Stamp
<1>4. R \in RunState /\ R.pc = "insert" /\ Alike(R, run[r])
  BY <1>1, <1>2, MovedFields DEF Steps, Appending
<1>5. /\ turn' \in [Requests -> [stored : BOOLEAN, at : Nat, window : Int]]
      /\ \A x \in Requests : turn'[x].stored = turn[x].stored
  BY <1>1
<1>6. ~turn[r].stored
  BY <1>1 DEF Phase, Ordered
<1> QED
  BY <1>1, <1>3, <1>4, <1>5, <1>6, AppendMoveKeeps

\* The rows are inserted, and counted.
LEMMA InsertKeeps ==
  ASSUME IInv, NEW r \in Requests, Insert(r) PROVE IInv'
<1>1. /\ run[r] \in RunState /\ run[r].pc = "insert"
      /\ turn \in [Requests -> [stored : BOOLEAN, at : Nat, window : Int]]
      /\ clock \in Nat /\ UNCHANGED <<case, clock, ledger, charged>>
  BY DEF IInv, Typed, Insert, LedgerUnchanged
<1>2. CASE AppendFails(r) /\ UNCHANGED turn
  BY <1>1, <1>2, AppendFailsKeeps
<1>3. CASE turn' = [turn EXCEPT ![r].stored = TRUE] /\ Goto(r, "count")
  <2>1. PICK R : R = Moved(run[r], "count")
    OBVIOUS
  <2>2. run' = [run EXCEPT ![r] = R]
    BY <1>3, <2>1, GotoIs
  <2>3. R \in RunState /\ R.pc = "count" /\ Alike(R, run[r])
    BY <1>1, <2>1, MovedFields DEF Steps, Appending
  <2>4. /\ turn' \in [Requests -> [stored : BOOLEAN, at : Nat, window : Int]]
        /\ \A x \in Requests \ {r} : turn'[x].stored = turn[x].stored
    BY <1>1, <1>3
  <2>5. run[r].pc \in Appending
    BY <1>1 DEF Appending
  <2> QED
    BY <1>1, <2>2, <2>3, <2>4, <2>5, AppendMoveKeeps
<1> QED
  BY <1>2, <1>3 DEF Insert

\* Counting the exchanges keeps the invariant.
LEMMA CountKeeps ==
  ASSUME IInv, NEW r \in Requests, Count(r) PROVE IInv'
<1>1. /\ run[r] \in RunState /\ run[r].pc = "count"
      /\ UNCHANGED <<case, turn, clock, ledger, charged>>
  BY DEF IInv, Typed, Count, LedgerUnchanged
<1>2. CASE AppendFails(r)
  BY <1>1, <1>2, AppendFailsKeeps
<1>3. CASE ~AppendFails(r)
  <2> DEFINE n == Cardinality(Stored(Scope(r)))
  <2>1. PICK l \in {"tag", "done"} :
          run' = [run EXCEPT ![r].total = n, ![r].pc = l]
    BY <1>3 DEF Count
  <2>2. n \in Nat
    BY StoredIsCounted
  <2> HIDE DEF n
  <2>3. PICK R : R = [run[r] EXCEPT !.total = n, !.pc = l]
    OBVIOUS
  <2>4. run' = [run EXCEPT ![r] = R]
    BY <2>1, <2>3 DEF IInv, Typed
  <2>5. R \in RunState /\ R.pc = l /\ Alike(R, run[r])
    BY <1>1, <2>2, <2>3 DEF RunState, Steps, Appending, Alike
  <2>6. Onward(r, run[r].pc, R.pc)
    BY <1>1, <2>5 DEF Onward, Appending
  <2> QED
    BY <1>1, <2>4, <2>5, <2>6, MovingKeeps
<1> QED
  BY <1>2, <1>3

\* A window is closed: tagged, read and summarised.
LEMMA CloseKeeps ==
  ASSUME IInv, NEW r \in Requests, Tag(r) \/ Fetch(r) \/ StoreSummary(r)
  PROVE  IInv'
<1>1. /\ run[r] \in RunState /\ run[r].pc \in {"tag", "fetch", "summary"}
      /\ turn \in [Requests -> [stored : BOOLEAN, at : Nat, window : Int]]
      /\ clock \in Nat /\ UNCHANGED <<case, clock, ledger, charged>>
      /\ run[r].pc \in Appending
  BY DEF IInv, Typed, Tag, Fetch, StoreSummary, LedgerUnchanged, Appending
<1>2. ASSUME NEW l \in {"fetch", "done"}, Goto(r, l),
             turn' \in [Requests -> [stored : BOOLEAN, at : Nat, window : Int]],
             \A x \in Requests : turn'[x].stored = turn[x].stored
      PROVE  IInv'
  <2>1. PICK R : R = Moved(run[r], l)
    OBVIOUS
  <2>2. run' = [run EXCEPT ![r] = R]
    BY <1>2, <2>1, GotoIs
  <2>3. R \in RunState /\ R.pc = l /\ Alike(R, run[r])
    BY <1>1, <2>1, MovedFields DEF Steps, Appending
  <2> QED
    BY <1>1, <1>2, <2>2, <2>3, AppendMoveKeeps
<1>3. ASSUME NEW l \in {"fetch", "done"}, Goto(r, l), UNCHANGED turn
      PROVE  IInv'
  BY <1>1, <1>2, <1>3
<1>4. CASE Tag(r)
  <2> DEFINE i == CompletedWindow(run[r].total)
             rows == OldestUntagged(Scope(r))
  <2>1. i \in Int
    BY <1>1, BoundsAssumption DEF CompletedWindow, RunState
  <2>2. CASE turn' = [x \in Requests |->
               IF x \in rows THEN [turn[x] EXCEPT !.window = i] ELSE turn[x]]
    <3> HIDE DEF i, rows
    <3>1. /\ turn' \in [Requests -> [stored : BOOLEAN, at : Nat, window : Int]]
          /\ \A x \in Requests : turn'[x].stored = turn[x].stored
      BY <1>1, <2>1, <2>2
    <3> QED
      BY <1>2, <1>4, <3>1 DEF Tag
  <2> QED
    BY <1>3, <1>4, <2>2 DEF Tag
<1>5. CASE Fetch(r)
  <2>1. CASE Goto(r, "done")
    BY <1>3, <1>5, <2>1 DEF Fetch
  <2>2. CASE ~Goto(r, "done")
    <3> DEFINE rows == fetch_window(Scope(r), CompletedWindow(run[r].total))
    <3>1. rows \subseteq Requests
      BY DEF fetch_window, Stored
    <3>2. PICK l \in {"done", "summary"} :
            run' = [run EXCEPT ![r].covers = rows, ![r].pc = l]
      BY <1>5, <2>2 DEF Fetch
    <3> HIDE DEF rows
    <3>3. PICK R : R = [run[r] EXCEPT !.covers = rows, !.pc = l]
      OBVIOUS
    <3>4. run' = [run EXCEPT ![r] = R]
      BY <3>2, <3>3 DEF IInv, Typed
    <3>5. R \in RunState /\ R.pc = l /\ Alike(R, run[r])
      BY <1>1, <3>1, <3>3 DEF RunState, Steps, Appending, Alike
    <3>6. Onward(r, run[r].pc, R.pc)
      BY <1>1, <3>5 DEF Onward
    <3> QED
      BY <1>1, <1>5, <3>4, <3>5, <3>6, MovingKeeps DEF Fetch
  <2> QED
    BY <2>1, <2>2
<1>6. CASE StoreSummary(r)
  BY <1>3, <1>6 DEF StoreSummary
<1> QED
  BY <1>4, <1>5, <1>6

\* The summaries are typed, and stay so.
LEMMA InitSummaries == Init => SummariesTyped
<1> SUFFICES ASSUME Init PROVE SummariesTyped
  OBVIOUS
<1>1. DOMAIN case.earlier \subseteq Requests
  BY CasesAssumption DEF Init
<1>2. ASSUME NEW w \in DOMAIN windows
      PROVE  windows[w] \in [summary : SUBSET Requests,
                             embedding : SUBSET (SUBSET Requests)]
  <2>1. \E rows \in SUBSET Requests :
          windows[w] = [summary |-> rows, embedding |-> {rows}]
    BY <1>1 DEF Init
  <2> QED
    BY <2>1
<1> QED
  BY <1>2 DEF SummariesTyped, Init

\* A new summary has the type of one.
LEMMA SummariesStayTyped ==
  ASSUME Typed, SummariesTyped, [Next]_vars PROVE SummariesTyped'
<1>1. ASSUME NEW r \in Requests, StoreSummary(r) PROVE SummariesTyped'
  <2>1. PICK text \in SUBSET Requests : text = run[r].covers
    BY DEF Typed, RunState
  <2>2. PICK w : w = <<Scope(r), CompletedWindow(run[r].total)>>
    OBVIOUS
  <2>3. PICK d \in [summary : SUBSET Requests,
                    embedding : SUBSET (SUBSET Requests)] :
          d = [summary |-> text, embedding |-> {}]
    OBVIOUS
  <2>4. CASE /\ windows' = OnConflictNothing(w, text)
             /\ embeds' = embeds \union {[window |-> w, text |-> text]}
    <3>1. \A v \in DOMAIN windows' :
            windows'[v] = d \/ (v \in DOMAIN windows /\ windows'[v] = windows[v])
      BY <2>3, <2>4 DEF OnConflictNothing
    <3>2. \A e \in embeds' : e.text \subseteq Requests
      BY <2>1, <2>4 DEF SummariesTyped
    <3> QED
      BY <3>1, <3>2 DEF SummariesTyped
  <2>5. CASE UNCHANGED <<windows, embeds>>
    BY <2>5 DEF SummariesTyped
  <2> QED
    BY <1>1, <2>1, <2>2, <2>4, <2>5 DEF StoreSummary
<1>2. ASSUME NEW e \in embeds, Embed(e) PROVE SummariesTyped'
  <2>0. embeds' \subseteq embeds /\ e.text \subseteq Requests
    BY <1>2 DEF Embed, SummariesTyped
  <2>1. CASE UNCHANGED windows
    BY <2>0, <2>1 DEF SummariesTyped
  <2>2. CASE windows' = [windows EXCEPT ![e.window].embedding = {e.text}]
    <3>1. PICK d : d = [windows[e.window] EXCEPT !.embedding = {e.text}]
      OBVIOUS
    <3>2. /\ DOMAIN windows' = DOMAIN windows
          /\ \A w \in DOMAIN windows :
               windows'[w] = IF w = e.window THEN d ELSE windows[w]
      BY <2>2, <3>1
    <3>3. e.window \in DOMAIN windows =>
            d \in [summary : SUBSET Requests,
                   embedding : SUBSET (SUBSET Requests)]
      BY <2>0, <3>1 DEF SummariesTyped
    <3> QED
      BY <2>0, <3>2, <3>3 DEF SummariesTyped
  <2> QED
    BY <1>2, <2>1, <2>2 DEF Embed
<1>3. CASE UNCHANGED <<windows, embeds>>
  BY <1>3 DEF SummariesTyped
<1> QED
  BY <1>1, <1>2, <1>3
  DEF Next, vars, StoreUnchanged, AskAgent, Dispatch, ToolCommand, Guards,
      ResolveGrounding, ReadWindows, ReadHistory, Route, Post, Advise, Served,
      Settle, RecordUsage, Validate, Stamp, Insert, Count, Tag, Fetch, Crash

\* The process of a request ends: the answer is lost, the ledger is not.
LEMMA CrashKeeps ==
  ASSUME IInv, NEW r \in Requests, Crash(r) PROVE IInv'
  BY EndKeeps DEF Crash, LedgerUnchanged, Answered

-----------------------------------------------------------------------------
(* The theorems *)

\* Every step keeps the invariant.
LEMMA StepInvariant ==
  ASSUME IInv, SummariesTyped, [Next]_vars PROVE IInv' /\ SummariesTyped'
<1>1. SummariesTyped'
  BY SummariesStayTyped DEF IInv
<1>2. ASSUME UNCHANGED <<case, run, turn, ledger, charged, clock>> PROVE IInv'
  <2>1. Typed'
    BY <1>2 DEF IInv, Typed
  <2>2. ASSUME NEW r \in Requests PROVE Phase(r, run[r])'
    <3>1. Phase(r, run[r]) /\ run'[r] = run[r]
      BY <1>2 DEF IInv
    <3> QED
      BY <1>2, <3>1 DEF Phase, Ordered, Accounted, Grounded, Counted, Kept, Q
  <2> QED
    BY <2>1, <2>2 DEF IInv
<1>3. ASSUME UNCHANGED vars PROVE IInv'
  BY <1>2, <1>3 DEF vars
<1>4. ASSUME NEW e \in embeds, Embed(e) PROVE IInv'
  BY <1>2, <1>4 DEF Embed, LedgerUnchanged
<1>5. ASSUME NEW r \in Requests,
             \/ AskAgent(r) \/ Dispatch(r) \/ ToolCommand(r) \/ Guards(r)
             \/ ResolveGrounding(r) \/ ReadWindows(r) \/ ReadHistory(r)
             \/ Route(r) \/ Post(r) \/ Advise(r) \/ Served(r)
      PROVE  IInv'
  BY <1>5, BeginningKeeps, GuardsKeep, ResolveGroundingKeeps, ReadWindowsKeeps,
    ReadHistoryKeeps, RouteKeeps, PostKeeps, AdviseKeeps, ServedKeeps
<1>6. ASSUME NEW r \in Requests,
             \/ Settle(r) \/ RecordUsage(r) \/ Validate(r) \/ Stamp(r)
             \/ Insert(r) \/ Count(r) \/ Tag(r) \/ Fetch(r) \/ StoreSummary(r)
             \/ Crash(r)
      PROVE  IInv'
  BY <1>6, SettlementKeeps, ValidateKeeps, StampKeeps, InsertKeeps, CountKeeps,
    CloseKeeps, CrashKeeps
<1> QED
  BY <1>1, <1>3, <1>4, <1>5, <1>6 DEF Next

\* The invariant of a request holds for every case and every schedule.
THEOREM RequestInvariant == Spec => [](IInv /\ SummariesTyped)
<1>1. IInv /\ SummariesTyped /\ [Next]_vars => (IInv /\ SummariesTyped)'
  BY StepInvariant
<1> QED
  BY <1>1, InitInvariant, InitSummaries, PTL DEF Spec

\* The ledger follows the provider: usage and settlement for every served call
\* of the worker, and for no other.
THEOREM LedgerIsExact == Spec => []LedgerFollowsService
<1>1. IInv => LedgerFollowsService
  <2> SUFFICES ASSUME IInv, NEW r \in Requests
               PROVE  /\ r \in charged => ledger[r] = "settled"
                      /\ ledger[r] = "settled" => run[r].decision = "served"
                      /\ /\ run[r].decision = "served" /\ Q(r).kind = "dispatch"
                         /\ Q(r).reserves /\ ~run[r].ledgerFault
                         /\ run[r].result \in {"answered", "refused", "raised"}
                         => r \in charged
    BY DEF LedgerFollowsService
  <2>1. Phase(r, run[r]) /\ run[r].pc \in Steps
    BY DEF IInv, Typed, RunState
  <2> QED
    BY <2>1 DEF Phase, Ordered, Accounted, Steps, Asking, Keeping, Appending
<1> QED
  BY <1>1, RequestInvariant, PTL

\* What is remembered of a request that must be grounded, or reaches its
\* asker, cites the evidence of that request and nothing else.
THEOREM MemoryIsGrounded == Spec => []OnlyGroundedIsRemembered
<1>1. IInv => OnlyGroundedIsRemembered
  BY DEF IInv, Phase, Grounded, CitesEvidence, OnlyGroundedIsRemembered
<1> QED
  BY <1>1, RequestInvariant, PTL

\* The provider is asked as often as retries and fallbacks allow, and never
\* given up earlier for transient failures.
THEOREM ProviderIsAskedEnough == Spec => []RetriesAreExact
<1>1. IInv => RetriesAreExact
  BY DEF IInv, Phase, Counted, Most, RetriesAreExact
<1> QED
  BY <1>1, RequestInvariant, PTL

\* An agent answers what it has, whatever the store does.
THEOREM AgentsAnswer == Spec => []AgentsKeepTheirAnswer
<1>1. IInv => AgentsKeepTheirAnswer
  BY DEF IInv, Phase, Kept, AgentsKeepTheirAnswer
<1> QED
  BY <1>1, RequestInvariant, PTL

-----------------------------------------------------------------------------
(* Places in an order: ORDER BY without ties *)

Above(S, f, x) == {z \in S : f[z] > f[x]}
Place(S, f, x) == Cardinality(Above(S, f, x))
Between(S, f, a, b) == {x \in S : a <= Place(S, f, x) /\ Place(S, f, x) < b}

Apart(S, f) ==
  /\ IsFiniteSet(S) /\ f \in [S -> Int]
  /\ \A x, y \in S : f[x] = f[y] => x = y

\* A place is a number below the size of the set.
LEMMA PlaceRange ==
  ASSUME NEW S, NEW f, Apart(S, f), NEW x \in S
  PROVE  /\ Cardinality(S) \in Nat /\ Cardinality(S) > 0
         /\ IsFiniteSet(Above(S, f, x))
         /\ Place(S, f, x) \in 0..(Cardinality(S) - 1)
<1>1. Above(S, f, x) \in SUBSET S /\ x \notin Above(S, f, x)
  BY DEF Above, Apart
<1>2. /\ IsFiniteSet(Above(S, f, x)) /\ Place(S, f, x) <= Cardinality(S)
      /\ Cardinality(S) = Place(S, f, x) => S = Above(S, f, x)
  BY <1>1, FS_Subset DEF Apart, Place
<1>3. Cardinality(S) \in Nat /\ Place(S, f, x) \in Nat
  BY <1>2, FS_CardinalityType DEF Apart, Place
<1>4. Cardinality(S) # Place(S, f, x)
  BY <1>1, <1>2
<1> QED
  BY <1>2, <1>3, <1>4

\* A greater element has a smaller place.
LEMMA PlaceOrder ==
  ASSUME NEW S, NEW f, Apart(S, f), NEW x \in S, NEW y \in S, f[y] > f[x]
  PROVE  Place(S, f, y) < Place(S, f, x)
<1>1. /\ Above(S, f, y) \in SUBSET Above(S, f, x)
      /\ y \in Above(S, f, x) /\ y \notin Above(S, f, y)
  BY DEF Above, Apart
<1>2. IsFiniteSet(Above(S, f, x))
  BY PlaceRange
<1>3. /\ Place(S, f, y) <= Place(S, f, x)
      /\ Place(S, f, x) = Place(S, f, y) => Above(S, f, x) = Above(S, f, y)
  BY <1>1, <1>2, FS_Subset DEF Place
<1>4. Place(S, f, x) \in Nat /\ Place(S, f, y) \in Nat
  BY PlaceRange
<1> QED
  BY <1>1, <1>3, <1>4

\* The first n numbers are n.
LEMMA InitialInterval ==
  ASSUME NEW n \in Nat
  PROVE  IsFiniteSet(0..(n - 1)) /\ Cardinality(0..(n - 1)) = n
<1>1. PICK b \in Int : b = n - 1
  OBVIOUS
<1>2. /\ IsFiniteSet(0..b)
      /\ Cardinality(0..b) = IF 0 > b THEN 0 ELSE b - 0 + 1
  BY FS_Interval
<1>3. (IF 0 > b THEN 0 ELSE b - 0 + 1) = n
  BY <1>1
<1> QED
  BY <1>1, <1>2, <1>3

\* Every element has a place of its own, and every place is taken.
LEMMA PlacesAreTaken ==
  ASSUME NEW S, NEW f, Apart(S, f)
  PROVE  /\ \A x, y \in S : Place(S, f, x) = Place(S, f, y) => x = y
         /\ \A k \in 0..(Cardinality(S) - 1) :
              \E x \in S : Place(S, f, x) = k
<1> DEFINE n == Cardinality(S)
           T == 0..(n - 1)
           g == [x \in S |-> Place(S, f, x)]
<1>1. n \in Nat
  BY FS_CardinalityType DEF Apart
<1>2. g \in [S -> T]
  BY PlaceRange
<1>3. ASSUME NEW x \in S, NEW y \in S, Place(S, f, x) = Place(S, f, y)
      PROVE  x = y
  <2>1. Place(S, f, x) \in Nat /\ Place(S, f, y) \in Nat
    BY PlaceRange
  <2>2. ~(f[y] > f[x]) /\ ~(f[x] > f[y])
    BY <1>3, <2>1, PlaceOrder
  <2>3. f[x] \in Int /\ f[y] \in Int
    BY DEF Apart
  <2>4. f[x] = f[y]
    BY <2>2, <2>3
  <2> QED
    BY <2>4 DEF Apart
<1>4. \A x, y \in S : g[x] = g[y] => x = y
  BY <1>3
<1> HIDE DEF g
<1>5. g \in Injection(S, T)
  BY <1>2, <1>4 DEF Injection, IsInjective
<1>6. IsFiniteSet(T) /\ Cardinality(T) = n
  BY <1>1, InitialInterval
<1> HIDE DEF T
<1>7. g \in Surjection(S, T)
  BY <1>5, <1>6, FS_Injection
<1>8. \A k \in T : \E x \in S : g[x] = k
  BY <1>7 DEF Surjection
<1> QED
  BY <1>3, <1>8 DEF g, T

\* As many elements have a place from a to b - 1 as there are such places.
LEMMA PlacesCounted ==
  ASSUME NEW S, NEW f, Apart(S, f), NEW a \in Nat, NEW b \in Nat,
         a <= b, b <= Cardinality(S)
  PROVE  /\ IsFiniteSet(Between(S, f, a, b))
         /\ Cardinality(Between(S, f, a, b)) = b - a
<1> USE DEF Between
<1> DEFINE U == Between(S, f, a, b)
           T == a..(b - 1)
           g == [x \in U |-> Place(S, f, x)]
<1>1. \A x \in U : Place(S, f, x) \in T
  BY PlaceRange
<1>2. g \in [U -> T]
  BY <1>1
<1>3. \A x, y \in U : g[x] = g[y] => x = y
  BY PlacesAreTaken
<1>4. \A k \in T : \E x \in U : g[x] = k
  <2> SUFFICES ASSUME NEW k \in T PROVE \E x \in U : g[x] = k
    OBVIOUS
  <2>1. Cardinality(S) \in Nat
    BY FS_CardinalityType DEF Apart
  <2>2. k \in 0..(Cardinality(S) - 1) /\ a <= k /\ k < b
    BY <2>1
  <2>3. PICK x \in S : Place(S, f, x) = k
    BY <2>2, PlacesAreTaken
  <2>4. x \in U
    BY <2>2, <2>3
  <2> QED
    BY <2>3, <2>4
<1>5. IsFiniteSet(T) /\ Cardinality(T) = b - a
  <2>1. a \in Int /\ b - 1 \in Int
    OBVIOUS
  <2>2. /\ IsFiniteSet(T)
        /\ Cardinality(T) = IF a > b - 1 THEN 0 ELSE (b - 1) - a + 1
    BY <2>1, FS_Interval
  <2> QED
    BY <2>2
<1>6. U \in SUBSET S
  OBVIOUS
<1> HIDE DEF U, T, g
<1>7. g \in Injection(U, T)
  BY <1>2, <1>3 DEF Injection, IsInjective, g
<1>8. g \in Surjection(U, T)
  BY <1>2, <1>4 DEF Surjection
<1>9. IsFiniteSet(U) /\ Cardinality(U) = Cardinality(T)
  BY <1>5, <1>7, <1>8, FS_Injection
<1> QED
  BY <1>5, <1>9 DEF U

-----------------------------------------------------------------------------
(* What a prompt holds of the conversation *)

Reading == {"idle", "guards", "ground", "windows", "history"}

\* What the step of another part of the request leaves of its prompt.
PromptKept(x) ==
  /\ run'[x].before = run[x].before /\ run'[x].history = run[x].history
  /\ run'[x].read = run[x].read
  /\ run'[x].pc \in Reading => run[x].pc \in Reading
  /\ run'[x].pc \in Appending => run[x].pc \in Appending

\* What the reads of a request left in its local state, untouched.
SameReads(R, S) ==
  /\ R.before = S.before /\ R.history = S.history /\ R.read = S.read
  /\ R.warm = S.warm /\ R.total = S.total /\ R.seen = S.seen

\* Where a request is once its provider call has begun.
Called == {"post", "reply", "stamp", "event", "validate", "done"}

\* The gateway, and what is made of its answer, leave the reads alone.
LEMMA CallKeepsReads ==
  ASSUME IInv, NEW r \in Requests,
         \/ Route(r) \/ Post(r) \/ Advise(r) \/ Settle(r) \/ RecordUsage(r)
         \/ Validate(r)
  PROVE  \E R : /\ run' = [run EXCEPT ![r] = R] /\ SameReads(R, run[r])
               /\ R.pc \in Called
<1> DEFINE Keeps == \E R : /\ run' = [run EXCEPT ![r] = R]
                          /\ SameReads(R, run[r]) /\ R.pc \in Called
<1>1. PICK S : S = run[r]
  OBVIOUS
<1>2. run \in [Requests -> RunState] /\ S \in RunState
  BY <1>1 DEF IInv, Typed
<1>3. ASSUME NEW l \in Called, Goto(r, l)
      PROVE  Keeps
  <2>1. PICK R : R = [S EXCEPT !.pc = l]
    OBVIOUS
  <2>2. run' = [run EXCEPT ![r] = R]
    BY <1>1, <1>2, <1>3, <2>1 DEF Goto
  <2>3. SameReads(R, S) /\ R.pc = l
    BY <1>2, <2>1 DEF RunState, SameReads
  <2> QED
    BY <1>1, <1>3, <2>2, <2>3
<1>4. ASSUME NEW l \in Called, NEW res,
             run' = [run EXCEPT ![r].pc = l, ![r].result = res]
      PROVE  Keeps
  <2>1. PICK R : R = [S EXCEPT !.pc = l, !.result = res]
    OBVIOUS
  <2>2. run' = [run EXCEPT ![r] = R]
    BY <1>1, <1>2, <1>4, <2>1
  <2>3. SameReads(R, S) /\ R.pc = l
    BY <1>2, <2>1 DEF RunState, SameReads
  <2> QED
    BY <1>1, <1>4, <2>2, <2>3
<1>5. ASSUME NEW l \in Called, NEW d,
             run' = [run EXCEPT ![r].pc = l, ![r].decision = d]
      PROVE  Keeps
  <2>1. PICK R : R = [S EXCEPT !.pc = l, !.decision = d]
    OBVIOUS
  <2>2. run' = [run EXCEPT ![r] = R]
    BY <1>1, <1>2, <1>5, <2>1
  <2>3. SameReads(R, S) /\ R.pc = l
    BY <1>2, <2>1 DEF RunState, SameReads
  <2> QED
    BY <1>1, <1>5, <2>2, <2>3
<1>6. ASSUME NEW l \in Called, NEW b,
             run' = [run EXCEPT ![r].pc = l, ![r].ledgerFault = b]
      PROVE  Keeps
  <2>1. PICK R : R = [S EXCEPT !.pc = l, !.ledgerFault = b]
    OBVIOUS
  <2>2. run' = [run EXCEPT ![r] = R]
    BY <1>1, <1>2, <1>6, <2>1
  <2>3. SameReads(R, S) /\ R.pc = l
    BY <1>2, <2>1 DEF RunState, SameReads
  <2> QED
    BY <1>1, <1>6, <2>2, <2>3
<1>7. ASSUME NEW l \in Called, NEW d, NEW a,
             run' = [run EXCEPT ![r].pc = l, ![r].decision = d,
                                ![r].posts = @ + 1, ![r].last = a]
      PROVE  Keeps
  <2>1. PICK R : R = [S EXCEPT !.pc = l, !.decision = d,
                               !.posts = S.posts + 1, !.last = a]
    OBVIOUS
  <2>2. run' = [run EXCEPT ![r] = R]
    BY <1>1, <1>2, <1>7, <2>1
  <2>3. SameReads(R, S) /\ R.pc = l
    BY <1>2, <2>1 DEF RunState, SameReads
  <2> QED
    BY <1>1, <1>7, <2>2, <2>3
<1>8. ASSUME NEW l \in Called, NEW a, NEW res,
             run' = [run EXCEPT ![r].pc = l, ![r].last = a,
                                ![r].posts = @ + 1, ![r].result = res]
      PROVE  Keeps
  <2>1. PICK R : R = [S EXCEPT !.pc = l, !.last = a,
                               !.posts = S.posts + 1, !.result = res]
    OBVIOUS
  <2>2. run' = [run EXCEPT ![r] = R]
    BY <1>1, <1>2, <1>8, <2>1
  <2>3. SameReads(R, S) /\ R.pc = l
    BY <1>2, <2>1 DEF RunState, SameReads
  <2> QED
    BY <1>1, <1>8, <2>2, <2>3
<1>9. ASSUME NEW a, S.pc \in Called,
             run' = [run EXCEPT ![r].attempt = @ + 1, ![r].posts = @ + 1,
                                ![r].last = a]
      PROVE  Keeps
  <2>1. PICK R : R = [S EXCEPT !.attempt = S.attempt + 1,
                               !.posts = S.posts + 1, !.last = a]
    OBVIOUS
  <2>2. run' = [run EXCEPT ![r] = R]
    BY <1>1, <1>2, <1>9, <2>1
  <2>3. SameReads(R, S) /\ R.pc = S.pc
    BY <1>2, <2>1 DEF RunState, SameReads
  <2> QED
    BY <1>1, <1>9, <2>2, <2>3
<1>10. ASSUME NEW a, S.pc \in Called,
             run' = [run EXCEPT ![r].route = @ + 1, ![r].attempt = 0,
                                ![r].posts = @ + 1, ![r].last = a]
      PROVE  Keeps
  <2>1. PICK R : R = [S EXCEPT !.route = S.route + 1, !.attempt = 0,
                               !.posts = S.posts + 1, !.last = a]
    OBVIOUS
  <2>2. run' = [run EXCEPT ![r] = R]
    BY <1>1, <1>2, <1>10, <2>1
  <2>3. SameReads(R, S) /\ R.pc = S.pc
    BY <1>2, <2>1 DEF RunState, SameReads
  <2> QED
    BY <1>1, <1>10, <2>2, <2>3
<1>18. ASSUME NEW l \in Called, NEW cites, NEW res,
             run' = [run EXCEPT ![r].pc = l, ![r].cites = cites,
                                ![r].result = res]
      PROVE  Keeps
  <2>1. PICK R : R = [S EXCEPT !.pc = l, !.cites = cites, !.result = res]
    OBVIOUS
  <2>2. run' = [run EXCEPT ![r] = R]
    BY <1>1, <1>2, <1>18, <2>1
  <2>3. SameReads(R, S) /\ R.pc = l
    BY <1>2, <2>1 DEF RunState, SameReads
  <2> QED
    BY <1>1, <1>18, <2>2, <2>3
<1> SUFFICES Keeps
  OBVIOUS
<1> HIDE DEF Keeps
<1>11. "post" \in Called /\ "reply" \in Called /\ "stamp" \in Called
       /\ "event" \in Called /\ "validate" \in Called /\ "done" \in Called
  BY DEF Called
<1>12. CASE Route(r)
  BY <1>3, <1>5, <1>11, <1>12 DEF Route, Denied
<1>13. CASE Advise(r)
  BY <1>4, <1>11, <1>13 DEF Advise
<1>14. CASE Settle(r)
  BY <1>3, <1>6, <1>11, <1>14 DEF Settle, LedgerFails
<1>15. CASE RecordUsage(r)
  BY <1>3, <1>6, <1>11, <1>15 DEF RecordUsage, LedgerFails
<1>16. ASSUME NEW a, S.pc = "post", NextRoute(r, a)
       PROVE  Keeps
  <2>1. CASE run' = [run EXCEPT ![r].route = @ + 1, ![r].attempt = 0,
                                ![r].posts = @ + 1, ![r].last = a]
    BY <1>10, <1>11, <1>16, <2>1
  <2>2. CASE run' = [run EXCEPT ![r].pc = "reply", ![r].decision = "denied",
                                ![r].posts = @ + 1, ![r].last = a]
    BY <1>7, <1>11, <2>2
  <2> QED
    BY <1>16, <2>1, <2>2 DEF NextRoute
<1>17. CASE Post(r)
  <2>1. S.pc = "post"
    BY <1>1, <1>17 DEF Post
  <2>2. PICK a \in case.answers :
          \/ run' = [run EXCEPT ![r].pc = "reply", ![r].decision = "served",
                                ![r].posts = @ + 1, ![r].last = a]
          \/ run' = [run EXCEPT ![r].attempt = @ + 1, ![r].posts = @ + 1,
                                ![r].last = a]
          \/ NextRoute(r, a)
          \/ run' = [run EXCEPT ![r].pc = "stamp", ![r].last = a,
                                ![r].posts = @ + 1, ![r].result = "fallback"]
          \/ run' = [run EXCEPT ![r].pc = "done", ![r].last = a,
                                ![r].posts = @ + 1, ![r].result = "raised"]
    BY <1>17, Zenon DEF Post
  <2>3. CASE run' = [run EXCEPT ![r].pc = "reply", ![r].decision = "served",
                                ![r].posts = @ + 1, ![r].last = a]
    BY <1>7, <1>11, <2>3
  <2>4. CASE run' = [run EXCEPT ![r].attempt = @ + 1, ![r].posts = @ + 1,
                                ![r].last = a]
    BY <1>9, <1>11, <2>1, <2>4
  <2>5. CASE NextRoute(r, a)
    BY <1>16, <2>1, <2>5
  <2>6. CASE run' = [run EXCEPT ![r].pc = "stamp", ![r].last = a,
                                ![r].posts = @ + 1, ![r].result = "fallback"]
    BY <1>8, <1>11, <2>6
  <2>7. CASE run' = [run EXCEPT ![r].pc = "done", ![r].last = a,
                                ![r].posts = @ + 1, ![r].result = "raised"]
    BY <1>8, <1>11, <2>7
  <2> QED
    BY <2>2, <2>3, <2>4, <2>5, <2>6, <2>7
<1>19. CASE Validate(r)
  BY <1>4, <1>11, <1>18, <1>19 DEF Validate
<1> QED
  BY <1>12, <1>13, <1>14, <1>15, <1>17, <1>19

\* A step that leaves prompts and stores alone keeps what they say.
LEMMA PromptFrame ==
  ASSUME IInv, NEW r \in Requests,
         \/ ToolCommand(r) \/ Guards(r) \/ ResolveGrounding(r)
         \/ ReadWindows(r) \/ Route(r) \/ Post(r) \/ Advise(r) \/ Served(r)
         \/ Settle(r) \/ RecordUsage(r) \/ Validate(r) \/ Insert(r) \/ Count(r)
         \/ Tag(r) \/ Fetch(r) \/ StoreSummary(r) \/ Crash(r)
  PROVE  \A x \in Requests : PromptKept(x)
<1>1. run \in [Requests -> RunState] /\ run[r] \in RunState
  BY DEF IInv, Typed
<1>2. ASSUME NEW R, R.before = run[r].before, R.history = run[r].history,
             R.read = run[r].read, run' = [run EXCEPT ![r] = R],
             R.pc \in Reading => run[r].pc \in Reading,
             R.pc \in Appending => run[r].pc \in Appending
      PROVE  \A x \in Requests : PromptKept(x)
  BY <1>1, <1>2 DEF PromptKept
<1>3. ASSUME NEW l \in Steps, Goto(r, l), l \in Reading => run[r].pc \in Reading,
             l \in Appending => run[r].pc \in Appending
      PROVE  \A x \in Requests : PromptKept(x)
  <2>1. PICK R : R = [run[r] EXCEPT !.pc = l]
    OBVIOUS
  <2>2. /\ R.before = run[r].before /\ R.history = run[r].history
        /\ R.read = run[r].read /\ R.pc = l
    BY <1>1, <2>1 DEF RunState
  <2>3. run' = [run EXCEPT ![r] = R]
    BY <1>1, <1>3, <2>1 DEF Goto
  <2> QED
    BY <1>2, <1>3, <2>2, <2>3
<1>4. ASSUME NEW res, End(r, res) PROVE \A x \in Requests : PromptKept(x)
  <2>1. PICK R : R = [run[r] EXCEPT !.pc = "done", !.result = res]
    OBVIOUS
  <2>2. /\ R.before = run[r].before /\ R.history = run[r].history
        /\ R.read = run[r].read /\ R.pc = "done"
    BY <1>1, <2>1 DEF RunState
  <2>3. run' = [run EXCEPT ![r] = R]
    BY <1>1, <1>4, <2>1 DEF End
  <2> QED
    BY <1>2, <2>2, <2>3 DEF Reading, Appending
<1> USE DEF Reading, Appending, Steps
<1>5. CASE ToolCommand(r) \/ Guards(r) \/ Served(r)
  BY <1>3, <1>4, <1>5 DEF ToolCommand, Guards, Served
<1>6. CASE ResolveGrounding(r) \/ ReadWindows(r)
  <2>1. ASSUME NEW found,
               run' = [run EXCEPT ![r].pc = "windows", ![r].evidence = found],
               run[r].pc = "ground"
        PROVE  \A x \in Requests : PromptKept(x)
    BY <1>1, <2>1 DEF RunState, PromptKept
  <2>2. ASSUME NEW text, NEW n, run[r].pc = "windows",
               run' = [run EXCEPT ![r].pc = "history", ![r].warm = text,
                                  ![r].seen = n]
        PROVE  \A x \in Requests : PromptKept(x)
    BY <1>1, <2>2 DEF RunState, PromptKept
  <2> QED
    BY <1>4, <1>6, <2>1, <2>2 DEF ResolveGrounding, ReadWindows
<1>7. CASE \/ Route(r) \/ Post(r) \/ Advise(r) \/ Settle(r)
           \/ RecordUsage(r) \/ Validate(r)
  <2>1. PICK R : /\ run' = [run EXCEPT ![r] = R] /\ SameReads(R, run[r])
                 /\ R.pc \in Called
    BY <1>7, CallKeepsReads
  <2>2. R.pc \notin Reading /\ R.pc \notin Appending
    BY <2>1 DEF Called
  <2> QED
    BY <1>2, <2>1, <2>2 DEF SameReads
<1>11. CASE Insert(r) \/ Tag(r) \/ StoreSummary(r) \/ Crash(r)
  BY <1>3, <1>4, <1>11 DEF Insert, AppendFails, Tag, StoreSummary, Crash
<1>12. CASE Count(r)
  <2>1. ASSUME NEW n, NEW l \in {"tag", "done"}, run[r].pc = "count",
               run' = [run EXCEPT ![r].total = n, ![r].pc = l]
        PROVE  \A x \in Requests : PromptKept(x)
    BY <1>1, <2>1 DEF RunState, PromptKept
  <2> QED
    BY <1>3, <1>4, <1>12, <2>1 DEF Count, AppendFails
<1>13. CASE Fetch(r)
  <2>1. ASSUME NEW rows, NEW l \in {"summary", "done"}, run[r].pc = "fetch",
               run' = [run EXCEPT ![r].covers = rows, ![r].pc = l]
        PROVE  \A x \in Requests : PromptKept(x)
    BY <1>1, <2>1 DEF RunState, PromptKept
  <2> QED
    BY <1>3, <1>13, <2>1 DEF Fetch
<1> QED
  BY <1>5, <1>6, <1>7, <1>11, <1>12, <1>13

\* created_at is never ahead of the clock, and never the same twice.
Stamped(x) ==
  /\ turn[x].at <= clock
  /\ turn[x].stored \/ run[x].pc \in Appending => turn[x].at > 0
StampsApart ==
  \A x, y \in Requests : turn[x].at = turn[y].at /\ turn[x].at > 0 => x = y

\* What a prompt is made of was stored in its channel, and is read once.
PromptIsStored(x) ==
  /\ run[x].before \subseteq Stored(Scope(x))
  /\ run[x].history \subseteq Stored(Scope(x))
  /\ run[x].pc \in Reading => ~run[x].read

\* What was over when the request began is in its history, or the history is
\* full of newer exchanges.
Remembers(x) ==
  run[x].read => \A y \in run[x].before \ run[x].history :
                   Cardinality(Newer(y, run[x].history)) = MaxExchanges

MemoryInv ==
  /\ StampsApart
  /\ \A x \in Requests : Stamped(x) /\ PromptIsStored(x) /\ Remembers(x)

\* The initial state satisfies the invariant.
LEMMA InitMemory == Init => MemoryInv
<1> SUFFICES ASSUME Init PROVE MemoryInv
  OBVIOUS
<1>1. /\ case \in Cases /\ DOMAIN case.earlier \subseteq Requests
      /\ clock = Cardinality(DOMAIN case.earlier) /\ clock \in Nat
  BY InitInvariant, CasesAssumption DEF Init, IInv, Typed
<1>2. /\ \A x \in DOMAIN case.earlier : case.earlier[x] \in 1..clock
      /\ \A x, y \in DOMAIN case.earlier :
           case.earlier[x] = case.earlier[y] => x = y
  BY <1>1, CasesAssumption
<1>3. \A x \in Requests :
        IF x \in DOMAIN case.earlier
          THEN turn[x].stored /\ turn[x].at = case.earlier[x]
          ELSE ~turn[x].stored /\ turn[x].at = 0
  BY DEF Init
<1>4. \A x \in Requests :
        /\ run[x].before = {} /\ run[x].history = {} /\ ~run[x].read
        /\ run[x].pc \in {"idle", "done"}
  <2>1. PICK R : R = [Start EXCEPT !.pc = "done", !.decision = "served",
                                   !.result = "answered"]
    OBVIOUS
  <2>2. /\ R.before = {} /\ R.history = {} /\ R.read = FALSE /\ R.pc = "done"
        /\ Start.before = {} /\ Start.history = {} /\ Start.read = FALSE
        /\ Start.pc = "idle"
    BY <2>1 DEF Start
  <2>3. \A x \in Requests : run[x] = R \/ run[x] = Start
    BY <2>1 DEF Init
  <2> QED
    BY <2>2, <2>3
<1>5. StampsApart
  BY <1>2, <1>3 DEF StampsApart
<1>6. \A x \in Requests : Stamped(x)
  BY <1>1, <1>2, <1>3, <1>4 DEF Stamped, Appending
<1>7. \A x \in Requests : PromptIsStored(x) /\ Remembers(x)
  BY <1>4 DEF PromptIsStored, Remembers
<1> QED
  BY <1>5, <1>6, <1>7 DEF MemoryInv

\* A row stays, with its created_at.
RowKept(x) == turn[x].stored => turn'[x].stored /\ turn'[x].at = turn[x].at

\* A store that grows still holds what a prompt was read from.
LEMMA StoreGrows ==
  ASSUME UNCHANGED case, \A x \in Requests : RowKept(x), NEW s
  PROVE  Stored(s) \subseteq Stored(s)'
  BY DEF Stored, Scope, Q, RowKept

\* The prompt of a request that did not change still remembers.
LEMMA PromptKeptRemembers ==
  ASSUME UNCHANGED case, \A z \in Requests : RowKept(z),
         NEW x \in Requests, PromptIsStored(x), Remembers(x), PromptKept(x)
  PROVE  PromptIsStored(x)' /\ Remembers(x)'
<1>1. Scope(x)' = Scope(x) /\ Stored(Scope(x)) \subseteq Stored(Scope(x))'
  BY StoreGrows DEF Scope, Q
<1>2. PromptIsStored(x)'
  BY <1>1 DEF PromptIsStored, PromptKept
<1>3. ASSUME NEW y \in run[x].before \ run[x].history
      PROVE  Newer(y, run[x].history)' = Newer(y, run[x].history)
  <2>1. y \in Stored(Scope(x)) /\ run[x].history \in SUBSET Stored(Scope(x))
    BY <1>3 DEF PromptIsStored
  <2>2. run'[x].history = run[x].history
    BY DEF PromptKept
  <2>3. turn'[y].at = turn[y].at
        /\ \A z \in run[x].history : turn'[z].at = turn[z].at
    BY <2>1 DEF Stored, RowKept
  <2> QED
    BY <2>2, <2>3 DEF Newer
<1>4. Remembers(x)'
  BY <1>3 DEF Remembers, PromptKept
<1> QED
  BY <1>2, <1>4

\* A step that changes neither a prompt nor the clock.
LEMMA QuietMemory ==
  ASSUME IInv, MemoryInv, UNCHANGED <<case, clock>>,
         \A x \in Requests : PromptKept(x),
         \A x \in Requests :
           /\ turn'[x].at = turn[x].at
           /\ turn[x].stored => turn'[x].stored
           /\ turn'[x].stored => turn[x].stored \/ run[x].pc \in Appending
  PROVE  MemoryInv'
<1>1. \A x \in Requests : RowKept(x)
  BY DEF RowKept
<1>2. StampsApart'
  BY DEF MemoryInv, StampsApart
<1>3. \A x \in Requests : Stamped(x)'
  BY DEF MemoryInv, Stamped, PromptKept
<1>4. \A x \in Requests : PromptIsStored(x)' /\ Remembers(x)'
  BY <1>1, PromptKeptRemembers DEF MemoryInv
<1> QED
  BY <1>2, <1>3, <1>4 DEF MemoryInv

\* datetime.now() is after every created_at so far.
LEMMA StampMemory ==
  ASSUME IInv, MemoryInv, NEW r \in Requests, Stamp(r) PROVE MemoryInv'
<1>1. /\ run[r].pc = "stamp" /\ ~turn[r].stored /\ clock \in Nat
      /\ clock' = clock + 1 /\ UNCHANGED case
      /\ turn \in [Requests -> [stored : BOOLEAN, at : Nat, window : Int]]
      /\ turn' = [turn EXCEPT ![r].at = clock + 1]
  BY DEF IInv, Typed, Phase, Ordered, Stamp
<1>2. /\ turn'[r].at = clock + 1 /\ turn'[r].stored = turn[r].stored
      /\ \A x \in Requests \ {r} : turn'[x] = turn[x]
  BY <1>1
<1>3. \A x \in Requests : turn[x].at \in Nat /\ turn[x].at <= clock
  BY <1>1 DEF MemoryInv, Stamped
<1>4. run[r] \in RunState /\ run' = [run EXCEPT ![r] = Moved(run[r], "insert")]
  BY GotoIs DEF Stamp, IInv, Typed
<1>5. PICK R : R = Moved(run[r], "insert")
  OBVIOUS
<1>6. /\ R.before = run[r].before /\ R.history = run[r].history
      /\ R.read = run[r].read /\ R.pc = "insert"
  BY <1>4, <1>5 DEF RunState, Moved
<1>7. run'[r] = R /\ \A x \in Requests \ {r} : run'[x] = run[x]
  BY <1>4, <1>5 DEF IInv, Typed
<1>8. StampsApart'
  BY <1>1, <1>2, <1>3 DEF MemoryInv, StampsApart
<1>9. \A x \in Requests : Stamped(x)'
  BY <1>1, <1>2, <1>3, <1>7 DEF MemoryInv, Stamped
<1>10. \A x \in Requests : RowKept(x)
  BY <1>1, <1>2 DEF RowKept
<1>11. ASSUME NEW x \in Requests PROVE PromptIsStored(x)' /\ Remembers(x)'
  <2>1. CASE x # r
    <3>1. PromptKept(x)
      BY <1>7, <2>1 DEF PromptKept
    <3> QED
      BY <1>1, <1>10, <3>1, PromptKeptRemembers DEF MemoryInv
  <2>2. CASE x = r
    <3>1. Scope(r)' = Scope(r) /\ Stored(Scope(r)) \subseteq Stored(Scope(r))'
      BY <1>1, <1>10, StoreGrows DEF Scope, Q
    <3>2. PromptIsStored(r)'
      BY <1>6, <1>7, <3>1 DEF MemoryInv, PromptIsStored, Reading
    <3>3. ASSUME NEW y \in run[r].before \ run[r].history
          PROVE  Newer(y, run[r].history)' = Newer(y, run[r].history)
      <4>1. y \in Stored(Scope(r)) /\ run[r].history \in SUBSET Stored(Scope(r))
        BY <3>3 DEF MemoryInv, PromptIsStored
      <4>2. turn'[y].at = turn[y].at
            /\ \A z \in run[r].history : turn'[z].at = turn[z].at
        BY <1>10, <4>1 DEF Stored, RowKept
      <4> QED
        BY <1>6, <1>7, <4>2 DEF Newer
    <3>4. /\ run'[r].before = run[r].before /\ run'[r].read = run[r].read
          /\ run'[r].history = run[r].history /\ Remembers(r)
      BY <1>6, <1>7 DEF MemoryInv
    <3>5. Remembers(r)'
      BY <3>3, <3>4 DEF Remembers
    <3> QED
      BY <2>2, <3>2, <3>5
  <2> QED
    BY <2>1, <2>2
<1> QED
  BY <1>8, <1>9, <1>11 DEF MemoryInv

\* A request begins: it has read nothing yet.
LEMMA BeginMemory ==
  ASSUME IInv, MemoryInv, NEW r \in Requests, AskAgent(r) \/ Dispatch(r)
  PROVE  MemoryInv'
<1>1. /\ run[r] \in RunState /\ run[r].pc = "idle"
      /\ UNCHANGED <<case, turn, clock>>
  BY DEF IInv, Typed, AskAgent, Dispatch, StoreUnchanged
<1>2. ~run[r].read /\ run[r].history \subseteq Stored(Scope(r))
  BY <1>1 DEF MemoryInv, PromptIsStored, Reading
<1>3. \A x \in Requests : RowKept(x)
  BY <1>1 DEF RowKept
<1>4. CASE End(r, "refused")
  <2>1. \A x \in Requests : PromptKept(x)
    BY <1>1, <1>4 DEF End, IInv, Typed, RunState, PromptKept, Reading, Appending
  <2> QED
    BY <1>1, <2>1, QuietMemory
<1>5. CASE ~End(r, "refused")
  <2>1. PICK l \in {"history", "guards"} :
          run' = [run EXCEPT ![r].pc = l, ![r].before = Ended(r)]
    BY <1>5 DEF AskAgent, Dispatch
  <2>2. PICK R : R = [run[r] EXCEPT !.pc = l, !.before = Ended(r)]
    OBVIOUS
  <2>3. /\ R.before = Ended(r) /\ R.history = run[r].history
        /\ R.read = run[r].read /\ R.pc = l
    BY <1>1, <2>2 DEF RunState
  <2>4. run'[r] = R /\ \A x \in Requests \ {r} : run'[x] = run[x]
    BY <2>1, <2>2 DEF IInv, Typed
  <2>5. StampsApart' /\ \A x \in Requests : Stamped(x)'
    BY <1>1, <2>3, <2>4 DEF MemoryInv, StampsApart, Stamped, Appending
  <2>6. ASSUME NEW x \in Requests PROVE PromptIsStored(x)' /\ Remembers(x)'
    <3>1. CASE x # r
      <4>1. PromptKept(x)
        BY <2>4, <3>1 DEF PromptKept
      <4> QED
        BY <1>1, <1>3, <4>1, PromptKeptRemembers DEF MemoryInv
    <3>2. CASE x = r
      <4>1. Ended(r) \subseteq Stored(Scope(r))
        BY DEF Ended
      <4>2. Stored(Scope(r))' = Stored(Scope(r))
        BY <1>1 DEF Stored, Scope, Q
      <4> QED
        BY <1>2, <2>3, <2>4, <3>2, <4>1, <4>2 DEF PromptIsStored, Remembers
    <3> QED
      BY <3>1, <3>2
  <2> QED
    BY <2>5, <2>6 DEF MemoryInv
<1> QED
  BY <1>4, <1>5

\* list_turns returns all of the channel, or MaxExchanges that are newer than
\* anything it leaves out.
LEMMA HistoryIsNewest ==
  ASSUME IInv, MemoryInv, NEW s, NEW y \in Stored(s) \ list_turns(s)
  PROVE  Cardinality(Newer(y, list_turns(s))) = MaxExchanges
<1> DEFINE S == Stored(s)
           f == [x \in S |-> turn[x].at]
           U == Between(S, f, 0, MaxExchanges)
<1>1. MaxExchanges \in Nat
  BY BoundsAssumption
<1>2. /\ IsFiniteSet(S) /\ S \subseteq Requests /\ Cardinality(S) \in Nat
      /\ \A x \in S : turn[x].at \in Nat /\ turn[x].at > 0
  BY StoredIsCounted DEF IInv, Typed, MemoryInv, Stamped, Stored
<1>3. f \in [S -> Int]
  BY <1>2
<1>4. \A x, z \in S : f[x] = f[z] => x = z
  BY <1>2 DEF MemoryInv, StampsApart
<1>5. Apart(S, f)
  BY <1>2, <1>3, <1>4 DEF Apart
<1>6. \A x \in S : Newer(x, S) = Above(S, f, x)
  BY DEF Newer, Above
<1>7. \A x \in S : Place(S, f, x) = Cardinality(Newer(x, S))
  BY <1>6 DEF Place
<1>8. \A x \in S : Place(S, f, x) \in 0..(Cardinality(S) - 1)
  BY <1>5, PlaceRange
<1>9. list_turns(s) = {x \in S : Place(S, f, x) < MaxExchanges}
  BY <1>7 DEF list_turns
<1>10. list_turns(s) = U
  BY <1>8, <1>9 DEF Between
<1>11. y \in S /\ MaxExchanges <= Place(S, f, y)
  BY <1>1, <1>8, <1>9
<1>12. MaxExchanges <= Cardinality(S)
  BY <1>1, <1>2, <1>8, <1>11
<1>13. Newer(y, U) = U
  <2> SUFFICES ASSUME NEW x \in U PROVE turn[x].at > turn[y].at
    BY DEF Newer
  <2>0. x \in S /\ Place(S, f, x) < MaxExchanges
    BY DEF Between
  <2>1. Place(S, f, x) < Place(S, f, y)
    BY <1>1, <1>8, <1>11, <2>0
  <2>2. ~(f[y] > f[x])
    BY <1>5, <1>8, <1>11, <2>0, <2>1, PlaceOrder
  <2>3. f[y] # f[x]
    BY <1>4, <1>8, <1>11, <2>0, <2>1
  <2> QED
    BY <1>2, <1>11, <2>0, <2>2, <2>3
<1>14. Cardinality(U) = MaxExchanges - 0
  <2> HIDE DEF S, f
  <2>1. 0 \in Nat /\ 0 <= MaxExchanges
    BY <1>1
  <2> QED
    BY <1>1, <1>5, <1>12, <2>1, PlacesCounted
<1> HIDE DEF U
<1>15. Newer(y, list_turns(s)) = U
  BY <1>10, <1>13
<1> QED
  BY <1>1, <1>14, <1>15

\* The history is read.
LEMMA ReadMemory ==
  ASSUME IInv, MemoryInv, NEW r \in Requests, ReadHistory(r) PROVE MemoryInv'
<1>1. /\ run[r] \in RunState /\ run[r].pc = "history"
      /\ UNCHANGED <<case, turn, clock>>
  BY DEF IInv, Typed, ReadHistory, StoreUnchanged
<1>2. ASSUME \/ Goto(r, "gateway") \/ End(r, "raised")
      PROVE  MemoryInv'
  <2>1. ASSUME Goto(r, "gateway") PROVE \A x \in Requests : PromptKept(x)
    BY <1>1, <2>1 DEF Goto, IInv, Typed, RunState, PromptKept, Reading, Appending
  <2>2. ASSUME End(r, "raised") PROVE \A x \in Requests : PromptKept(x)
    BY <1>1, <2>2 DEF End, IInv, Typed, RunState, PromptKept, Reading, Appending
  <2> QED
    BY <1>1, <1>2, <2>1, <2>2, QuietMemory
<1>3. CASE run' = [run EXCEPT ![r].pc = "gateway",
                              ![r].history = list_turns(Scope(r)),
                              ![r].read = TRUE]
  <2>1. PICK R : R = [run[r] EXCEPT !.pc = "gateway",
                        !.history = list_turns(Scope(r)), !.read = TRUE]
    OBVIOUS
  <2>2. /\ R.before = run[r].before /\ R.history = list_turns(Scope(r))
        /\ R.pc = "gateway"
    BY <1>1, <2>1 DEF RunState
  <2>3. run'[r] = R /\ \A x \in Requests \ {r} : run'[x] = run[x]
    BY <1>3, <2>1 DEF IInv, Typed
  <2>4. StampsApart' /\ \A x \in Requests : Stamped(x)'
    BY <1>1, <2>2, <2>3 DEF MemoryInv, StampsApart, Stamped, Appending
  <2>5. ASSUME NEW x \in Requests PROVE PromptIsStored(x)' /\ Remembers(x)'
    <3>1. CASE x # r
      <4>1. PromptKept(x) /\ \A z \in Requests : RowKept(z)
        BY <1>1, <2>3, <3>1 DEF PromptKept, RowKept
      <4> QED
        BY <1>1, <4>1, PromptKeptRemembers DEF MemoryInv
    <3>2. CASE x = r
      <4>1. Stored(Scope(r))' = Stored(Scope(r))
        BY <1>1 DEF Stored, Scope, Q
      <4>2. list_turns(Scope(r)) \subseteq Stored(Scope(r))
        BY DEF list_turns
      <4>3. PromptIsStored(r)'
        BY <2>2, <2>3, <4>1, <4>2 DEF MemoryInv, PromptIsStored, Reading
      <4>4. ASSUME NEW y \in run[r].before \ list_turns(Scope(r))
            PROVE  Cardinality(Newer(y, list_turns(Scope(r)))) = MaxExchanges
        <5>1. y \in Stored(Scope(r))
          BY <4>4 DEF MemoryInv, PromptIsStored
        <5> QED
          BY <4>4, <5>1, HistoryIsNewest
      <4>5. Remembers(r)'
        BY <1>1, <2>2, <2>3, <4>4 DEF Remembers, Newer
      <4> QED
        BY <3>2, <4>3, <4>5
    <3> QED
      BY <3>1, <3>2
  <2> QED
    BY <2>4, <2>5 DEF MemoryInv
<1> QED
  BY <1>2, <1>3 DEF ReadHistory

\* Every step keeps what the prompts remember.
LEMMA StepMemory ==
  ASSUME IInv, MemoryInv, [Next]_vars PROVE MemoryInv'
<1>1. ASSUME UNCHANGED <<case, run, turn, clock>> PROVE MemoryInv'
  <2>1. \A x \in Requests : PromptKept(x)
    BY <1>1 DEF PromptKept
  <2> QED
    BY <1>1, <2>1, QuietMemory
<1>2. ASSUME UNCHANGED vars PROVE MemoryInv'
  BY <1>1, <1>2 DEF vars
<1>3. ASSUME NEW e \in embeds, Embed(e) PROVE MemoryInv'
  BY <1>1, <1>3 DEF Embed
<1>4. ASSUME NEW r \in Requests,
             \/ ToolCommand(r) \/ Guards(r) \/ ResolveGrounding(r)
             \/ ReadWindows(r) \/ Route(r) \/ Post(r) \/ Advise(r) \/ Served(r)
             \/ Settle(r) \/ RecordUsage(r) \/ Validate(r) \/ Count(r)
             \/ Fetch(r) \/ StoreSummary(r) \/ Crash(r)
      PROVE  MemoryInv'
  <2>1. \A x \in Requests : PromptKept(x)
    BY <1>4, PromptFrame
  <2>2. UNCHANGED <<case, turn, clock>>
    BY <1>4 DEF ToolCommand, Guards, ResolveGrounding, ReadWindows, Route, Post,
      Advise, Served, Settle, RecordUsage, Validate, Count, Fetch, StoreSummary,
      Crash, StoreUnchanged
  <2> QED
    BY <2>1, <2>2, QuietMemory
<1>5. ASSUME NEW r \in Requests, Insert(r) PROVE MemoryInv'
  <2>1. \A x \in Requests : PromptKept(x)
    BY <1>5, PromptFrame
  <2>2. /\ UNCHANGED <<case, clock>> /\ run[r].pc \in Appending
        /\ UNCHANGED turn \/ turn' = [turn EXCEPT ![r].stored = TRUE]
        /\ turn \in [Requests -> [stored : BOOLEAN, at : Nat, window : Int]]
    BY <1>5 DEF Insert, Appending, IInv, Typed
  <2>3. \A x \in Requests :
          /\ turn'[x].at = turn[x].at
          /\ turn[x].stored => turn'[x].stored
          /\ turn'[x].stored => turn[x].stored \/ x = r
    BY <2>2
  <2> QED
    BY <2>1, <2>2, <2>3, QuietMemory
<1>6. ASSUME NEW r \in Requests, Tag(r) PROVE MemoryInv'
  <2>1. \A x \in Requests : PromptKept(x)
    BY <1>6, PromptFrame
  <2>2. \A x \in Requests :
          turn'[x].at = turn[x].at /\ turn'[x].stored = turn[x].stored
    <3> DEFINE i == CompletedWindow(run[r].total)
               rows == OldestUntagged(Scope(r))
    <3>1. \/ UNCHANGED turn
          \/ turn' = [x \in Requests |->
               IF x \in rows THEN [turn[x] EXCEPT !.window = i] ELSE turn[x]]
      BY <1>6 DEF Tag
    <3>2. turn \in [Requests -> [stored : BOOLEAN, at : Nat, window : Int]]
      BY DEF IInv, Typed
    <3> HIDE DEF i, rows
    <3> QED
      BY <3>1, <3>2
  <2>3. UNCHANGED <<case, clock>>
    BY <1>6 DEF Tag
  <2> QED
    BY <2>1, <2>2, <2>3, QuietMemory
<1> QED
  BY <1>2, <1>3, <1>4, <1>5, <1>6, BeginMemory, ReadMemory, StampMemory DEF Next

\* A question is put to the model with every exchange of its channel that was
\* over when it was asked, or with MaxExchanges newer ones.
THEOREM PromptsRemember == Spec => []AnsweredIsRemembered
<1>1. IInv /\ MemoryInv /\ [Next]_vars => MemoryInv'
  BY StepMemory
<1>2. MemoryInv => AnsweredIsRemembered
  BY DEF MemoryInv, Remembers, AnsweredIsRemembered
<1> QED
  BY <1>1, <1>2, InitMemory, RequestInvariant, PTL DEF Spec

-----------------------------------------------------------------------------
(* The windows of a channel *)

Closing == {"count", "tag", "fetch", "summary"}

\* What is true of an append however appends overlap: it closes a window after
\* it stored its rows, the count says there is one to close, and it
\* summarises rows that are tagged with it.
Closes(r) ==
  /\ run[r].pc \in Closing => turn[r].stored
  /\ ~turn[r].stored => turn[r].window = Untagged
  /\ run[r].pc \in Closing \ {"count"} =>
       run[r].total > 0 /\ run[r].total % WindowExchanges = 0
  /\ run[r].pc = "summary" =>
       run[r].covers \subseteq
         fetch_window(Scope(r), CompletedWindow(run[r].total))

\* A summary is of rows tagged with its window.
TagInv ==
  /\ \A r \in Requests : Closes(r)
  /\ \A w \in DOMAIN windows :
       /\ w \in Scopes \X Nat
       /\ windows[w].summary \subseteq fetch_window(w[1], w[2])
  /\ \A e \in embeds : e.window \in DOMAIN windows

\* The rows whose append is past the tagging, and past the summary.
Decided(s) == {x \in Stored(s) : run[x].pc \notin {"count", "tag"}}
Finished(s) == {x \in Stored(s) : run[x].pc \notin Closing}

\* Appends follow one another, and each is the newest.
Serial(s) ==
  \A r \in Requests : Scope(r) = s /\ run[r].pc \in Appending =>
    /\ \A x \in Requests : Scope(x) = s /\ run[x].pc \in Appending => x = r
    /\ \A x \in Stored(s) \ {r} : turn[x].at < turn[r].at

\* Rows are tagged in their order, WindowExchanges to a window.
Sliced(s) ==
  \A x \in Stored(s) :
    turn[x].window =
      IF Rank(x) \div WindowExchanges
           < Cardinality(Decided(s)) \div WindowExchanges
        THEN Rank(x) \div WindowExchanges ELSE Untagged

\* An append that closes a window is the last of it, and reads all of it.
ClosesLast(s) ==
  \A r \in Requests : Scope(r) = s =>
    /\ run[r].pc \in Closing \ {"count"} =>
         run[r].total = Cardinality(Stored(s))
    /\ run[r].pc = "summary" =>
         run[r].covers = fetch_window(s, CompletedWindow(run[r].total))

\* Summaries and embeddings are of all of a closed window.
Summarised(s) ==
  /\ \A w \in DOMAIN windows : w[1] = s =>
       /\ w[2] < Cardinality(Decided(s)) \div WindowExchanges
       /\ windows[w].summary = fetch_window(s, w[2])
       /\ windows[w].embedding \subseteq {windows[w].summary}
  /\ \A e \in embeds : e.window[1] = s =>
       e.text = windows[e.window].summary

\* With a summarize_fn, every window that was closed has its summary.
Complete(s) ==
  case.summarises =>
    \A i \in 0..((Cardinality(Finished(s)) \div WindowExchanges) - 1) :
      <<s, i>> \in DOMAIN windows

SliceInv(s) ==
  Serial(s) /\ Sliced(s) /\ ClosesLast(s) /\ Summarised(s) /\ Complete(s)

WindowInv == TagInv /\ \A s \in Scopes \ upset : SliceInv(s)

\* One row less is a full window less exactly at a multiple of the size.
LEMMA DivStep ==
  ASSUME NEW a \in Nat \ {0}, NEW w \in Nat \ {0}
  PROVE  (a - 1) \div w = IF a % w = 0 THEN (a \div w) - 1 ELSE a \div w
  OBVIOUS

\* The window of a later rank is no earlier.
LEMMA DivMonotone ==
  ASSUME NEW a \in Nat, NEW b \in Nat, a <= b, NEW w \in Nat \ {0}
  PROVE  a \div w \in Nat /\ b \div w \in Nat /\ a \div w <= b \div w
  OBVIOUS

\* The window before the last of full windows.
LEMMA FullWindows ==
  ASSUME NEW a \in Nat, a > 0, NEW w \in Nat \ {0}, a % w = 0
  PROVE  /\ a \div w \in Nat /\ a \div w > 0 /\ (a \div w) * w = a
         /\ (a - 1) \div w = (a \div w) - 1
         /\ ((a \div w) - 1) * w \in Nat /\ ((a \div w) - 1) * w = a - w
<1>1. PICK q \in Nat : q = a \div w /\ a = q * w
  OBVIOUS
<1>2. q > 0
  BY <1>1
<1>3. (q - 1) * w = q * w - w
  BY <1>1
<1>4. (q - 1) * w \in Nat
  BY <1>1, <1>2
<1>5. (a - 1) \div w = q - 1
  <2>1. a \in Nat \ {0}
    OBVIOUS
  <2>2. (a - 1) \div w = IF a % w = 0 THEN (a \div w) - 1 ELSE a \div w
    BY <2>1, DivStep, Zenon
  <2> QED
    BY <1>1, <2>2
<1> QED
  BY <1>1, <1>2, <1>3, <1>4, <1>5

\* A number belongs to the last of the windows exactly from its first on.
LEMMA DivAtLeast ==
  ASSUME NEW a \in Nat, NEW q \in Nat, NEW w \in Nat \ {0}
  PROVE  a \div w >= q <=> a >= q * w
<1>1. PICK d \in Nat : d = a \div w /\ d * w <= a /\ a < d * w + w
  OBVIOUS
<1>2. CASE d >= q
  BY <1>1, <1>2
<1>3. CASE d < q
  <2>1. d + 1 <= q
    BY <1>3
  <2>2. (d + 1) * w <= q * w
    BY <2>1
  <2>3. (d + 1) * w = d * w + w
    OBVIOUS
  <2> QED
    BY <1>1, <1>3, <2>2, <2>3
<1> QED
  BY <1>1, <1>2, <1>3

\* Ranks are places in the order of created_at.
LEMMA Ranks ==
  ASSUME IInv, MemoryInv, NEW s
  PROVE  LET S == Stored(s)
             f == [x \in S |-> 0 - turn[x].at]
         IN  /\ Apart(S, f)
             /\ \A x \in S : /\ Older(x, S) = Above(S, f, x)
                             /\ Rank(x) = Place(S, f, x)
                             /\ Rank(x) \in 0..(Cardinality(S) - 1)
<1> DEFINE S == Stored(s)
           f == [x \in S |-> 0 - turn[x].at]
<1>1. /\ IsFiniteSet(S) /\ S \subseteq Requests
      /\ \A x \in S : turn[x].at \in Nat /\ turn[x].at > 0 /\ Scope(x) = s
  BY StoredIsCounted DEF IInv, Typed, MemoryInv, Stamped, Stored
<1>2. f \in [S -> Int]
  BY <1>1
<1>3. \A x, z \in S : f[x] = f[z] => x = z
  BY <1>1 DEF MemoryInv, StampsApart
<1>4. Apart(S, f)
  BY <1>1, <1>2, <1>3 DEF Apart
<1>5. \A x \in S : Older(x, S) = Above(S, f, x)
  BY <1>1 DEF Older, Above
<1>6. \A x \in S : Rank(x) = Place(S, f, x)
  BY <1>1, <1>5 DEF Rank, Place
<1>7. \A x \in S : Place(S, f, x) \in 0..(Cardinality(S) - 1)
  BY <1>4, PlaceRange
<1> HIDE DEF S, f
<1>8. /\ Apart(S, f)
      /\ \A x \in S : /\ Older(x, S) = Above(S, f, x)
                      /\ Rank(x) = Place(S, f, x)
                      /\ Rank(x) \in 0..(Cardinality(S) - 1)
  BY <1>4, <1>5, <1>6, <1>7
<1> QED
  BY <1>8 DEF S, f

\* Up to the stamp a request is no append, and leaves the store alone.
LEMMA OutsideAppends ==
  ASSUME IInv, NEW r \in Requests,
         \/ AskAgent(r) \/ Dispatch(r) \/ ToolCommand(r) \/ Guards(r)
         \/ ResolveGrounding(r) \/ ReadWindows(r) \/ ReadHistory(r)
         \/ Route(r) \/ Post(r) \/ Advise(r) \/ Served(r)
         \/ Settle(r) \/ RecordUsage(r) \/ Validate(r)
  PROVE  /\ UNCHANGED <<case, turn, windows, embeds, clock, upset>>
         /\ \A x \in Requests \ {r} : run'[x] = run[x]
         /\ run[r].pc \notin Appending /\ run'[r].pc \notin Appending
<1>1. run \in [Requests -> RunState] /\ run[r] \in RunState
  BY DEF IInv, Typed
<1>2. UNCHANGED <<case, turn, windows, embeds, clock, upset>>
  BY DEF StoreUnchanged, AskAgent, Dispatch, ToolCommand, Guards,
    ResolveGrounding, ReadWindows, ReadHistory, Route, Post, Advise, Served,
    Settle, RecordUsage, Validate
<1>3. run[r].pc \notin Appending
  BY DEF Appending, AskAgent, Dispatch, ToolCommand, Guards,
    ResolveGrounding, ReadWindows, ReadHistory, Route, Post, Advise, Served,
    Settle, RecordUsage, Validate
<1>4. run'[r].pc \notin Appending
  <2>1. CASE AskAgent(r) \/ Dispatch(r) \/ ReadHistory(r)
    BY <1>1, <2>1 DEF AskAgent, Dispatch, ReadHistory, Appending, Goto, End,
      RunState
  <2>2. CASE ~(AskAgent(r) \/ Dispatch(r) \/ ReadHistory(r))
    BY <1>3, <2>2, PromptFrame DEF PromptKept
  <2> QED
    BY <2>1, <2>2
<1>5. ASSUME NEW x \in Requests \ {r} PROVE run'[x] = run[x]
  <2>1. CASE \/ AskAgent(r) \/ Dispatch(r) \/ ToolCommand(r) \/ Guards(r)
             \/ ResolveGrounding(r) \/ ReadWindows(r) \/ ReadHistory(r)
    BY <1>1, <2>1 DEF Goto, End, AskAgent, Dispatch, ToolCommand, Guards,
      ResolveGrounding, ReadWindows, ReadHistory
  <2>2. CASE Route(r) \/ Advise(r) \/ Served(r) \/ Settle(r)
             \/ RecordUsage(r) \/ Validate(r)
    BY <1>1, <2>2 DEF Goto, End, Denied, LedgerFails, Route, Advise,
      Served, Settle, RecordUsage, Validate
  <2>3. CASE Post(r)
    BY <1>1, <2>3 DEF Post, NextRoute
  <2> QED
    BY <2>1, <2>2, <2>3
<1> QED
  BY <1>2, <1>3, <1>4, <1>5

\* An append that goes on, ends, or is a step of another request.
LEMMA OthersKept ==
  ASSUME IInv, NEW r \in Requests,
         \/ Stamp(r) \/ Insert(r) \/ Count(r) \/ Tag(r) \/ Fetch(r)
         \/ StoreSummary(r) \/ Crash(r)
  PROVE  UNCHANGED case /\ \A x \in Requests \ {r} : run'[x] = run[x]
<1>1. run \in [Requests -> RunState]
  BY DEF IInv, Typed
<1> QED
  BY <1>1 DEF Stamp, Insert, Count, Tag, Fetch, StoreSummary, Crash, Goto, End,
    AppendFails

\* Where a step of an append takes it when it fails, and otherwise.
LEMMA AppendSteps ==
  ASSUME IInv, NEW r \in Requests
  PROVE  /\ \A l \in Steps : Goto(r, l) =>
              /\ run'[r].pc = l /\ run'[r].total = run[r].total
              /\ run'[r].covers = run[r].covers
         /\ \A res : End(r, res) => run'[r].pc = "done"
         /\ AppendFails(r) => run'[r].pc = "done"
<1>1. run \in [Requests -> RunState] /\ run[r] \in RunState
  BY DEF IInv, Typed
<1>2. ASSUME NEW l \in Steps, Goto(r, l)
      PROVE  /\ run'[r].pc = l /\ run'[r].total = run[r].total
             /\ run'[r].covers = run[r].covers
  BY <1>1, <1>2 DEF Goto, RunState
<1>3. ASSUME NEW res, End(r, res) PROVE run'[r].pc = "done"
  BY <1>1, <1>3 DEF End, RunState
<1> QED
  BY <1>2, <1>3 DEF AppendFails, Steps

\* The place, the count and the rows of an append are what they were, or the
\* request is in none of the places it closes a window in.
Still(x) ==
  \/ /\ run'[x].pc = run[x].pc /\ run'[x].total = run[x].total
     /\ run'[x].covers = run[x].covers
  \/ run[x].pc \notin Closing /\ run'[x].pc \notin Closing

\* A step that leaves rows and tags alone.
LEMMA QuietTags ==
  ASSUME TagInv, UNCHANGED <<case, windows, embeds>>,
         \A x \in Requests :
           /\ turn'[x].stored = turn[x].stored /\ turn'[x].window = turn[x].window
           /\ run'[x].pc \notin Closing \/ Still(x)
  PROVE  TagInv'
<1>1. ASSUME NEW s, NEW i PROVE fetch_window(s, i)' = fetch_window(s, i)
  BY DEF fetch_window, Stored, Scope, Q
<1>2. ASSUME NEW x \in Requests PROVE Closes(x)'
  <2>1. Closes(x) /\ Scope(x)' = Scope(x)
    BY DEF TagInv, Scope, Q
  <2>2. CASE run'[x].pc \notin Closing
    BY <2>1, <2>2 DEF Closes, Closing
  <2>3. CASE run'[x].pc \in Closing
    <3>1. /\ run'[x].pc = run[x].pc /\ run'[x].total = run[x].total
          /\ run'[x].covers = run[x].covers
      BY <2>3 DEF Still
    <3>2. fetch_window(Scope(x), CompletedWindow(run[x].total))'
            = fetch_window(Scope(x), CompletedWindow(run[x].total))
      BY <2>1, <3>1 DEF fetch_window, Stored, Scope, Q, CompletedWindow
    <3> QED
      BY <2>1, <3>1, <3>2 DEF Closes
  <2> QED
    BY <2>2, <2>3
<1>3. \A w \in DOMAIN windows' :
        windows'[w].summary \subseteq fetch_window(w[1], w[2])'
  BY DEF TagInv, fetch_window, Stored, Scope, Q
<1> QED
  BY <1>2, <1>3 DEF TagInv

\* Rows stay where they are tagged: a window only gains rows.
LEMMA TagsStay ==
  ASSUME UNCHANGED case,
         \A x \in Requests : turn[x].stored =>
           /\ turn'[x].stored
           /\ turn[x].window # Untagged => turn'[x].window = turn[x].window,
         NEW s, NEW i \in Nat
  PROVE  fetch_window(s, i) \subseteq fetch_window(s, i)'
  BY DEF fetch_window, Stored, Scope, Q, Untagged

\* The window that an append closes has a number.
LEMMA CompletedWindowIsNat ==
  ASSUME IInv, TagInv, NEW r \in Requests, run[r].pc \in Closing \ {"count"}
  PROVE  CompletedWindow(run[r].total) \in Nat
<1>1. /\ run[r].total \in Nat /\ run[r].total > 0
      /\ run[r].total % WindowExchanges = 0
  BY DEF IInv, Typed, RunState, TagInv, Closes
<1>2. WindowExchanges \in Nat \ {0}
  BY BoundsAssumption
<1>3. /\ run[r].total \div WindowExchanges \in Nat
      /\ run[r].total \div WindowExchanges > 0
  BY <1>1, <1>2, FullWindows
<1> QED
  BY <1>3 DEF CompletedWindow

\* A step that stores or tags rows.
LEMMA StoreTags ==
  ASSUME IInv, TagInv, NEW r \in Requests, UNCHANGED <<case, windows, embeds>>,
         \A x \in Requests :
           /\ turn[x].stored =>
                /\ turn'[x].stored
                /\ turn[x].window # Untagged => turn'[x].window = turn[x].window
           /\ ~turn'[x].stored => turn'[x].window = Untagged,
         \A x \in Requests \ {r} : run'[x] = run[x],
         Closes(r)'
  PROVE  TagInv'
<1>1. ASSUME NEW x \in Requests \ {r} PROVE Closes(x)'
  <2>1. Closes(x) /\ run'[x] = run[x] /\ Scope(x)' = Scope(x)
    BY DEF TagInv, Scope, Q
  <2>2. PICK s : s = Scope(x)
    OBVIOUS
  <2>3. PICK i : i = CompletedWindow(run[x].total)
    OBVIOUS
  <2>4. ASSUME run[x].pc = "summary"
        PROVE  fetch_window(s, i) \subseteq fetch_window(s, i)'
    BY <2>3, <2>4, CompletedWindowIsNat, TagsStay DEF Closing
  <2>5. /\ fetch_window(Scope(x), CompletedWindow(run[x].total))
             = fetch_window(s, i)
        /\ fetch_window(Scope(x), CompletedWindow(run[x].total))'
             = fetch_window(s, i)'
    BY <2>1, <2>2, <2>3 DEF fetch_window, Stored, CompletedWindow, Scope, Q
  <2> QED
    BY <2>1, <2>4, <2>5 DEF Closes
<1>2. ASSUME NEW w \in DOMAIN windows'
      PROVE  windows'[w].summary \subseteq fetch_window(w[1], w[2])'
  <2>1. /\ w \in DOMAIN windows /\ w[2] \in Nat /\ windows'[w] = windows[w]
        /\ windows[w].summary \subseteq fetch_window(w[1], w[2])
    BY DEF TagInv
  <2> QED
    BY <2>1, TagsStay
<1> QED
  BY <1>1, <1>2 DEF TagInv

\* An append that is over, or has not come to the count, closes nothing.
LEMMA NoCloseTags ==
  ASSUME IInv, TagInv, NEW r \in Requests, UNCHANGED <<case, windows, embeds>>,
         \A x \in Requests :
           turn'[x].stored = turn[x].stored /\ turn'[x].window = turn[x].window,
         \A x \in Requests \ {r} : run'[x] = run[x], run'[r].pc \notin Closing
  PROVE  TagInv'
<1>1. \A x \in Requests : run'[x].pc \notin Closing \/ Still(x)
  BY DEF Still
<1> QED
  BY <1>1, QuietTags

\* The stamp and the INSERT.
LEMMA InsertTags ==
  ASSUME IInv, TagInv, NEW r \in Requests, Stamp(r) \/ Insert(r) PROVE TagInv'
<1>1. /\ turn \in [Requests -> [stored : BOOLEAN, at : Nat, window : Int]]
      /\ UNCHANGED <<case, windows, embeds>>
      /\ \A x \in Requests \ {r} : run'[x] = run[x]
  BY OthersKept DEF IInv, Typed, Stamp, Insert
<1>2. CASE Stamp(r)
  <2>1. \A x \in Requests :
          turn'[x].stored = turn[x].stored /\ turn'[x].window = turn[x].window
    BY <1>1, <1>2 DEF Stamp
  <2>2. run'[r].pc = "insert"
    BY <1>2, AppendSteps DEF Stamp, Steps, Appending
  <2> QED
    BY <1>1, <2>1, <2>2, NoCloseTags DEF Closing
<1>3. CASE Insert(r) /\ AppendFails(r) /\ UNCHANGED turn
  BY <1>1, <1>3, AppendSteps, NoCloseTags DEF Closing
<1>4. CASE turn' = [turn EXCEPT ![r].stored = TRUE] /\ Goto(r, "count")
  <2>1. /\ turn'[r].stored /\ turn'[r].window = turn[r].window
        /\ \A x \in Requests \ {r} : turn'[x] = turn[x]
    BY <1>1, <1>4
  <2>2. run'[r].pc = "count"
    BY <1>4, AppendSteps DEF Steps, Appending
  <2>3. Closes(r)'
    BY <2>1, <2>2 DEF Closes
  <2>4. \A x \in Requests : ~turn[x].stored => turn[x].window = Untagged
    BY DEF TagInv, Closes
  <2> QED
    BY <1>1, <2>1, <2>3, <2>4, StoreTags
<1> QED
  BY <1>2, <1>3, <1>4 DEF Insert

\* The count: a multiple of the window size, and not zero.
LEMMA CountTags ==
  ASSUME IInv, TagInv, NEW r \in Requests, Count(r) PROVE TagInv'
<1>1. /\ UNCHANGED <<case, turn, windows, embeds>> /\ run[r].pc = "count"
      /\ \A x \in Requests \ {r} : run'[x] = run[x]
      /\ run \in [Requests -> RunState] /\ run[r] \in RunState
  BY OthersKept DEF IInv, Typed, Count
<1>2. CASE AppendFails(r)
  BY <1>1, <1>2, AppendSteps, NoCloseTags DEF Closing
<1>3. CASE ~AppendFails(r)
  <2>1. PICK n : n = Cardinality(Stored(Scope(r)))
    OBVIOUS
  <2>2. PICK l : l = IF n % WindowExchanges = 0 THEN "tag" ELSE "done"
    OBVIOUS
  <2>3. run' = [run EXCEPT ![r].total = n, ![r].pc = l]
    BY <1>3, <2>1, <2>2 DEF Count
  <2>4. run'[r].total = n /\ run'[r].pc = l
    BY <1>1, <2>3 DEF RunState
  <2>5. turn[r].stored /\ r \in Stored(Scope(r)) /\ Closes(r)
    BY <1>1 DEF TagInv, Closes, Closing, Stored
  <2>6. n \in Nat /\ n # 0
    BY <2>1, <2>5, StoredIsCounted, FS_EmptySet
  <2>7. Closes(r)'
    BY <1>1, <2>2, <2>4, <2>5, <2>6 DEF Closes, Closing
  <2>8. \A x \in Requests : ~turn[x].stored => turn[x].window = Untagged
    BY DEF TagInv, Closes
  <2> QED
    BY <1>1, <2>7, <2>8, StoreTags
<1> QED
  BY <1>2, <1>3

\* The tagging: only rows without a window get one.
LEMMA TagTags ==
  ASSUME IInv, TagInv, NEW r \in Requests, Tag(r) PROVE TagInv'
<1>1. /\ UNCHANGED <<case, windows, embeds>> /\ run[r].pc = "tag"
      /\ \A x \in Requests \ {r} : run'[x] = run[x]
      /\ turn \in [Requests -> [stored : BOOLEAN, at : Nat, window : Int]]
  BY OthersKept DEF IInv, Typed, Tag
<1>2. CASE Goto(r, "done") /\ UNCHANGED turn
  BY <1>1, <1>2, AppendSteps, NoCloseTags DEF Closing, Steps
<1>3. CASE ~(Goto(r, "done") /\ UNCHANGED turn)
  <2>1. PICK i : i = CompletedWindow(run[r].total)
    OBVIOUS
  <2>2. PICK rows : rows = OldestUntagged(Scope(r))
    OBVIOUS
  <2>3. turn' = [x \in Requests |->
          IF x \in rows THEN [turn[x] EXCEPT !.window = i] ELSE turn[x]]
    BY <1>3, <2>1, <2>2 DEF Tag
  <2>4. \A x \in rows : turn[x].stored /\ turn[x].window = Untagged
    BY <2>2 DEF OldestUntagged, Stored
  <2>5. \A x \in Requests :
          /\ turn'[x].stored = turn[x].stored
          /\ x \notin rows => turn'[x].window = turn[x].window
    BY <1>1, <2>3
  <2>6. PICK l \in {"fetch", "done"} : Goto(r, l)
    BY <1>3 DEF Tag
  <2>7. run'[r].pc = l /\ run'[r].total = run[r].total
    BY <2>6, AppendSteps DEF Steps, Appending
  <2>8. Closes(r) /\ \A x \in Requests : ~turn[x].stored => turn[x].window = Untagged
    BY DEF TagInv, Closes
  <2>9. \A x \in Requests :
          /\ turn[x].stored =>
               /\ turn'[x].stored
               /\ turn[x].window # Untagged => turn'[x].window = turn[x].window
          /\ ~turn'[x].stored => turn'[x].window = Untagged
    BY <2>4, <2>5, <2>8
  <2>10. Closes(r)'
    BY <1>1, <2>5, <2>7, <2>8, <2>9 DEF Closes, Closing
  <2> QED
    BY <1>1, <2>9, <2>10, StoreTags
<1> QED
  BY <1>2, <1>3

\* The window is read again, and its summary is stored.
LEMMA SummaryTags ==
  ASSUME IInv, TagInv, NEW r \in Requests, Fetch(r) \/ StoreSummary(r)
  PROVE  TagInv'
<1>1. /\ UNCHANGED <<case, turn>>
      /\ \A x \in Requests \ {r} : run'[x] = run[x]
      /\ run \in [Requests -> RunState] /\ run[r] \in RunState
      /\ Scope(r) \in Scopes
  BY OthersKept, CasesAssumption DEF IInv, Typed, Fetch, StoreSummary, Scope, Q
<1>2. CASE Fetch(r)
  <2>1. UNCHANGED <<windows, embeds>> /\ run[r].pc = "fetch"
    BY <1>2 DEF Fetch
  <2>2. CASE Goto(r, "done")
    BY <1>1, <2>1, <2>2, AppendSteps, NoCloseTags DEF Closing, Steps
  <2>3. CASE ~Goto(r, "done")
    <3>1. PICK rows : rows = fetch_window(Scope(r), CompletedWindow(run[r].total))
      OBVIOUS
    <3>2. PICK l \in {"done", "summary"} :
            run' = [run EXCEPT ![r].covers = rows, ![r].pc = l]
      BY <1>2, <2>3, <3>1 DEF Fetch
    <3>3. /\ run'[r].covers = rows /\ run'[r].pc = l
          /\ run'[r].total = run[r].total
      BY <1>1, <3>2 DEF RunState
    <3>4. fetch_window(Scope(r), CompletedWindow(run[r].total))' = rows
      BY <1>1, <3>1, <3>3 DEF fetch_window, Stored, Scope, Q, CompletedWindow
    <3>5. Closes(r)
      BY DEF TagInv
    <3>6. Closes(r)'
      BY <1>1, <2>1, <3>3, <3>4, <3>5 DEF Closes, Closing
    <3>7. \A x \in Requests : ~turn[x].stored => turn[x].window = Untagged
      BY DEF TagInv, Closes
    <3> QED
      BY <1>1, <2>1, <3>6, <3>7, StoreTags
  <2> QED
    BY <2>2, <2>3
<1>3. CASE StoreSummary(r)
  <2>1. run[r].pc = "summary" /\ Goto(r, "done")
    BY <1>3 DEF StoreSummary
  <2>2. run'[r].pc \notin Closing
    BY <2>1, AppendSteps DEF Steps, Closing
  <2>3. CASE UNCHANGED <<windows, embeds>>
    BY <1>1, <2>2, <2>3, NoCloseTags
  <2>4. CASE ~UNCHANGED <<windows, embeds>>
    <3>1. PICK i : i = CompletedWindow(run[r].total)
      OBVIOUS
    <3>2. PICK text : text = run[r].covers
      OBVIOUS
    <3>3. PICK w : w = <<Scope(r), i>>
      OBVIOUS
    <3>4. /\ windows' = OnConflictNothing(w, text)
          /\ embeds' = embeds \union {[window |-> w, text |-> text]}
      BY <1>3, <2>4, <3>1, <3>2, <3>3 DEF StoreSummary
    <3>5. i \in Nat /\ w \in Scopes \X Nat
      BY <1>1, <2>1, <3>1, <3>3, CompletedWindowIsNat DEF Closing
    <3>6. text \subseteq fetch_window(w[1], w[2])
      BY <2>1, <3>1, <3>2, <3>3 DEF TagInv, Closes
    <3>7. ASSUME NEW v \in DOMAIN windows'
          PROVE  /\ v \in Scopes \X Nat
                 /\ windows'[v].summary \subseteq fetch_window(v[1], v[2])
      BY <3>4, <3>5, <3>6 DEF OnConflictNothing, TagInv
    <3>8. \A e \in embeds' : e.window \in DOMAIN windows'
      BY <3>4 DEF OnConflictNothing, TagInv
    <3>9. ASSUME NEW v PROVE fetch_window(v[1], v[2])' = fetch_window(v[1], v[2])
      BY <1>1 DEF fetch_window, Stored, Scope, Q
    <3>10. ASSUME NEW x \in Requests PROVE Closes(x)'
      <4>1. Closes(x)
        BY DEF TagInv
      <4>2. CASE x = r
        BY <1>1, <2>2, <4>1, <4>2 DEF Closes, Closing
      <4>3. CASE x # r
        BY <1>1, <4>1, <4>3
        DEF Closes, fetch_window, Stored, Scope, Q, CompletedWindow
      <4> QED
        BY <4>2, <4>3
    <3> QED
      BY <3>7, <3>8, <3>9, <3>10 DEF TagInv
  <2> QED
    BY <2>3, <2>4
<1> QED
  BY <1>2, <1>3

\* The thread that embeds a summary, and every other step.
LEMMA StepTags ==
  ASSUME IInv, TagInv, [Next]_vars PROVE TagInv'
<1>1. ASSUME NEW r \in Requests,
             \/ AskAgent(r) \/ Dispatch(r) \/ ToolCommand(r) \/ Guards(r)
             \/ ResolveGrounding(r) \/ ReadWindows(r) \/ ReadHistory(r)
             \/ Route(r) \/ Post(r) \/ Advise(r) \/ Served(r)
             \/ Settle(r) \/ RecordUsage(r) \/ Validate(r)
      PROVE  TagInv'
  <2>1. /\ UNCHANGED <<case, turn, windows, embeds>>
        /\ \A x \in Requests \ {r} : run'[x] = run[x]
        /\ run'[r].pc \notin Appending
    BY <1>1, OutsideAppends
  <2> QED
    BY <2>1, NoCloseTags DEF Appending, Closing
<1>2. ASSUME NEW r \in Requests, Crash(r) PROVE TagInv'
  <2>1. /\ UNCHANGED <<case, turn, windows, embeds>>
        /\ \A x \in Requests \ {r} : run'[x] = run[x]
        /\ run'[r].pc = "done"
    BY <1>2, OthersKept, AppendSteps DEF Crash
  <2> QED
    BY <2>1, NoCloseTags DEF Closing
<1>3. ASSUME UNCHANGED vars PROVE TagInv'
  BY <1>3, QuietTags DEF vars, Still
<1>4. ASSUME NEW e \in embeds, Embed(e) PROVE TagInv'
  <2>1. UNCHANGED <<case, run, turn>> /\ embeds' \subseteq embeds
    BY <1>4 DEF Embed
  <2>2. CASE UNCHANGED windows
    <3>1. \A x \in Requests : Closes(x)'
      BY <2>1 DEF TagInv, Closes, fetch_window, Stored, Scope, Q, CompletedWindow
    <3>2. \A w \in DOMAIN windows' :
            windows'[w].summary \subseteq fetch_window(w[1], w[2])'
      BY <2>1, <2>2 DEF TagInv, fetch_window, Stored, Scope, Q
    <3> QED
      BY <2>1, <2>2, <3>1, <3>2 DEF TagInv
  <2>3. CASE windows' = [windows EXCEPT ![e.window].embedding = {e.text}]
    <3>1. \A x \in Requests : Closes(x)'
      BY <2>1 DEF TagInv, Closes, fetch_window, Stored, Scope, Q, CompletedWindow
    <3>2. PICK d : d = [windows[e.window] EXCEPT !.embedding = {e.text}]
      OBVIOUS
    <3>3. /\ DOMAIN windows' = DOMAIN windows
          /\ \A w \in DOMAIN windows :
               windows'[w] = IF w = e.window THEN d ELSE windows[w]
      BY <2>3, <3>2
    <3>4. d.summary = windows[e.window].summary
      BY <3>2
    <3>5. \A w \in DOMAIN windows :
            /\ windows'[w].summary = windows[w].summary
            /\ fetch_window(w[1], w[2])' = fetch_window(w[1], w[2])
      BY <2>1, <3>3, <3>4 DEF fetch_window, Stored, Scope, Q
    <3> QED
      BY <2>1, <3>1, <3>3, <3>5 DEF TagInv
  <2> QED
    BY <1>4, <2>2, <2>3 DEF Embed
<1> QED
  BY <1>1, <1>2, <1>3, <1>4, InsertTags, CountTags, TagTags, SummaryTags
  DEF Next

\* The rows and windows that earlier appends left behind.
LEMMA InitRows ==
  ASSUME Init
  PROVE  /\ \A s : Stored(s) = {x \in DOMAIN case.earlier : Scope(x) = s}
         /\ \A x \in DOMAIN case.earlier :
              turn[x].window =
                IF Rank(x) \div WindowExchanges
                     < Cardinality(Stored(Scope(x))) \div WindowExchanges
                  THEN Rank(x) \div WindowExchanges ELSE Untagged
         /\ DOMAIN windows =
              {<<Scope(r), Rank(r) \div WindowExchanges>> :
                 r \in {x \in DOMAIN case.earlier :
                   /\ case.summarises
                   /\ Rank(x) \div WindowExchanges
                        < Cardinality(Stored(Scope(x))) \div WindowExchanges}}
         /\ \A w \in DOMAIN windows : \E rows :
              /\ rows = {x \in Stored(w[1]) :
                           Rank(x) \div WindowExchanges = w[2]}
              /\ windows[w] = [summary |-> rows, embedding |-> {rows}]
<1>1. DOMAIN case.earlier \subseteq Requests
  BY CasesAssumption DEF Init
<1>2. \A x \in Requests :
        IF x \in DOMAIN case.earlier
          THEN turn[x].stored /\ turn[x].at = case.earlier[x]
          ELSE ~turn[x].stored
  BY DEF Init
<1>3. \A s : Stored(s) = {x \in DOMAIN case.earlier : Scope(x) = s}
  BY <1>1, <1>2 DEF Stored
<1>4. ASSUME NEW r \in DOMAIN case.earlier
      PROVE  {x \in {z \in DOMAIN case.earlier : Scope(z) = Scope(r)} :
                case.earlier[x] < case.earlier[r]} = Older(r, Stored(Scope(r)))
  BY <1>1, <1>2, <1>3 DEF Older
<1>5. ASSUME NEW r \in DOMAIN case.earlier
      PROVE  Cardinality({x \in {z \in DOMAIN case.earlier : Scope(z) = Scope(r)} :
                            case.earlier[x] < case.earlier[r]}) = Rank(r)
  BY <1>4 DEF Rank
<1>6. ASSUME NEW r \in DOMAIN case.earlier
      PROVE  turn[r].window =
               IF Rank(r) \div WindowExchanges
                    < Cardinality(Stored(Scope(r))) \div WindowExchanges
                 THEN Rank(r) \div WindowExchanges ELSE Untagged
  BY <1>1, <1>3, <1>5 DEF Init
<1>7. DOMAIN windows =
        {<<Scope(r), Rank(r) \div WindowExchanges>> :
           r \in {x \in DOMAIN case.earlier :
             /\ case.summarises
             /\ Rank(x) \div WindowExchanges
                  < Cardinality(Stored(Scope(x))) \div WindowExchanges}}
  BY <1>3, <1>5 DEF Init
<1>8. ASSUME NEW w \in DOMAIN windows
      PROVE  \E rows : /\ rows = {x \in Stored(w[1]) :
                                    Rank(x) \div WindowExchanges = w[2]}
                       /\ windows[w] = [summary |-> rows, embedding |-> {rows}]
  BY <1>3, <1>5 DEF Init
<1> QED
  BY <1>3, <1>6, <1>7, <1>8

\* What a step leaves alone in channel s: the order and the tags of its rows,
\* the appends that close a window, its summaries and their embeddings.
LeavesAlone(s) ==
  /\ UNCHANGED case
  /\ \A x \in Requests : Scope(x) = s =>
       /\ turn'[x].stored = turn[x].stored
       /\ turn[x].stored => turn'[x] = turn[x]
       /\ Still(x)
  /\ \A w : w[1] = s =>
       /\ w \in DOMAIN windows' <=> w \in DOMAIN windows
       /\ w \in DOMAIN windows => windows'[w] = windows[w]
  /\ \A e \in embeds' : e.window[1] = s => e \in embeds

\* Then its windows are what they were.
LEMMA QuietSlice ==
  ASSUME TagInv, NEW s, LeavesAlone(s), SliceInv(s), Serial(s)'
  PROVE  SliceInv(s)'
<1>1. Stored(s)' = Stored(s) /\ \A x \in Requests : Scope(x)' = Scope(x)
  BY DEF LeavesAlone, Stored, Scope, Q
<1>2. \A x \in Stored(s) : /\ x \in Requests /\ Scope(x) = s
                           /\ turn'[x] = turn[x] /\ Still(x)
  BY DEF LeavesAlone, Stored
<1>3. Decided(s)' = Decided(s) /\ Finished(s)' = Finished(s)
  BY <1>1, <1>2 DEF Decided, Finished, Still, Closing
<1>4. ASSUME NEW i PROVE fetch_window(s, i)' = fetch_window(s, i)
  BY <1>1, <1>2 DEF fetch_window
<1>5. ASSUME NEW x \in Stored(s) PROVE Rank(x)' = Rank(x)
  <2>1. Older(x, Stored(s))' = Older(x, Stored(s))
    BY <1>1, <1>2 DEF Older
  <2>2. Scope(x) = s /\ Scope(x)' = s
    BY <1>1, <1>2
  <2> QED
    BY <2>1, <2>2 DEF Rank
<1>6. Sliced(s)'
  BY <1>1, <1>2, <1>3, <1>5 DEF Sliced, SliceInv
<1>7. ASSUME NEW r \in Requests, Scope(r) = s, run'[r].pc \in Closing \ {"count"}
      PROVE  /\ run'[r].total = Cardinality(Stored(s)')
             /\ run'[r].pc = "summary" =>
                  run'[r].covers = fetch_window(s, CompletedWindow(run[r].total))'
  <2>1. /\ run'[r].pc = run[r].pc /\ run'[r].total = run[r].total
        /\ run'[r].covers = run[r].covers
    BY <1>7 DEF LeavesAlone, Still
  <2>2. PICK i : i = CompletedWindow(run[r].total)
    OBVIOUS
  <2>3. CompletedWindow(run[r].total)' = i
    BY <2>1, <2>2 DEF CompletedWindow
  <2>4. fetch_window(s, CompletedWindow(run[r].total))' = fetch_window(s, i)
    BY <1>4, <2>3 DEF fetch_window
  <2> QED
    BY <1>1, <1>7, <2>1, <2>2, <2>4 DEF SliceInv, ClosesLast
<1>8. ClosesLast(s)'
  BY <1>1, <1>7 DEF ClosesLast, Closing
<1>9. Summarised(s)'
  <2>1. ASSUME NEW w \in DOMAIN windows', w[1] = s
        PROVE  /\ w[2] < Cardinality(Decided(s)') \div WindowExchanges
               /\ windows'[w].summary = fetch_window(s, w[2])'
               /\ windows'[w].embedding \subseteq {windows'[w].summary}
    <3>1. w \in DOMAIN windows /\ windows'[w] = windows[w]
      BY <2>1 DEF LeavesAlone
    <3> QED
      BY <1>3, <1>4, <2>1, <3>1 DEF SliceInv, Summarised
  <2>2. ASSUME NEW e \in embeds', e.window[1] = s
        PROVE  e.text = windows'[e.window].summary
    <3>1. e \in embeds /\ e.window \in DOMAIN windows
      BY <2>2 DEF LeavesAlone, TagInv
    <3>2. windows'[e.window] = windows[e.window]
      BY <2>2, <3>1 DEF LeavesAlone
    <3> QED
      BY <2>2, <3>1, <3>2 DEF SliceInv, Summarised
  <2> QED
    BY <2>1, <2>2 DEF Summarised
<1>10. Complete(s)'
  <2>1. case' = case
    BY DEF LeavesAlone
  <2>2. ASSUME NEW i PROVE <<s, i>> \in DOMAIN windows => <<s, i>> \in DOMAIN windows'
    BY DEF LeavesAlone
  <2> QED
    BY <1>3, <2>1, <2>2 DEF SliceInv, Complete
<1> QED
  BY <1>6, <1>8, <1>9, <1>10 DEF SliceInv

\* Appends of s still follow one another when none begins.
LEMMA QuietSerial ==
  ASSUME NEW s, UNCHANGED case, Serial(s),
         \A x \in Requests : Scope(x) = s =>
           /\ turn'[x].at = turn[x].at
           /\ turn'[x].stored => turn[x].stored \/ run[x].pc \in Appending
           /\ run'[x].pc \in Appending => run[x].pc \in Appending
  PROVE  Serial(s)'
<1> SUFFICES ASSUME NEW r \in Requests, Scope(r) = s, run'[r].pc \in Appending
             PROVE  /\ \A x \in Requests : Scope(x) = s /\ run'[x].pc \in Appending
                                             => x = r
                    /\ \A x \in Stored(s)' \ {r} : turn'[x].at < turn'[r].at
  BY DEF Serial, Scope, Q
<1>1. /\ run[r].pc \in Appending
      /\ \A x \in Requests : Scope(x) = s /\ run[x].pc \in Appending => x = r
      /\ \A x \in Stored(s) \ {r} : turn[x].at < turn[r].at
  BY DEF Serial
<1>2. \A x \in Stored(s)' \ {r} : x \in Requests /\ Scope(x) = s /\ x \in Stored(s)
  BY <1>1 DEF Stored, Scope, Q
<1> QED
  BY <1>1, <1>2

\* The rows of a channel whose only append is r.
LEMMA OnlyAppend ==
  ASSUME IInv, MemoryInv, NEW s, Serial(s),
         NEW r \in Stored(s), run[r].pc \in Closing
  PROVE  /\ Finished(s) = Stored(s) \ {r}
         /\ Decided(s) = IF run[r].pc \in {"count", "tag"}
                           THEN Stored(s) \ {r} ELSE Stored(s)
         /\ Cardinality(Stored(s) \ {r}) = Cardinality(Stored(s)) - 1
         /\ Cardinality(Stored(s)) \in Nat /\ Cardinality(Stored(s)) > 0
         /\ Rank(r) = Cardinality(Stored(s)) - 1
<1>1. r \in Requests /\ Scope(r) = s /\ run[r].pc \in Appending
  BY DEF Stored, Closing, Appending
<1>2. \A x \in Stored(s) : x \in Requests /\ Scope(x) = s
  BY DEF Stored
<1>3. \A x \in Stored(s) \ {r} : run[x].pc \notin Closing /\ turn[x].at < turn[r].at
  BY <1>1, <1>2 DEF Serial, Closing, Appending
<1>4. Finished(s) = Stored(s) \ {r}
  BY <1>3 DEF Finished
<1>5. Decided(s) = IF run[r].pc \in {"count", "tag"}
                     THEN Stored(s) \ {r} ELSE Stored(s)
  BY <1>3 DEF Decided, Closing
<1>6. /\ Cardinality(Stored(s) \ {r}) = Cardinality(Stored(s)) - 1
      /\ Cardinality(Stored(s)) \in Nat
  BY StoredIsCounted, FS_RemoveElement
<1>7. IsFiniteSet(Stored(s) \ {r})
  BY StoredIsCounted, FS_Subset
<1>8. Cardinality(Stored(s) \ {r}) \in Nat
  BY <1>7, FS_CardinalityType
<1>9. turn[r].at \in Nat
  BY <1>1 DEF IInv, Typed
<1>10. Older(r, Stored(s)) = Stored(s) \ {r}
  BY <1>3, <1>9 DEF Older
<1>11. Rank(r) = Cardinality(Stored(s)) - 1
  BY <1>1, <1>6, <1>10 DEF Rank
<1> QED
  BY <1>4, <1>5, <1>6, <1>8, <1>11

\* Before the stamp a request changes the windows of no channel.
LEMMA AskingSlices ==
  ASSUME IInv, TagInv, NEW r \in Requests, NEW s, SliceInv(s),
         UNCHANGED <<case, turn, windows, embeds>>,
         \A x \in Requests \ {r} : run'[x] = run[x],
         run[r].pc \notin Appending, run'[r].pc \notin Appending
  PROVE  SliceInv(s)'
<1>1. \A x \in Requests : Still(x)
  BY DEF Still, Appending, Closing
<1>2. LeavesAlone(s)
  BY <1>1 DEF LeavesAlone
<1>3. Serial(s)'
  BY QuietSerial DEF SliceInv
<1> QED
  BY <1>2, <1>3, QuietSlice

\* An append changes nothing in the other channels.
LEMMA OtherChannel ==
  ASSUME IInv, TagInv, NEW r \in Requests, NEW s, Scope(r) # s, SliceInv(s),
         \/ Stamp(r) \/ Insert(r) \/ Count(r) \/ Tag(r) \/ Fetch(r)
         \/ StoreSummary(r) \/ Crash(r)
  PROVE  SliceInv(s)'
<1>1. /\ UNCHANGED case /\ \A x \in Requests \ {r} : run'[x] = run[x]
      /\ turn \in [Requests -> [stored : BOOLEAN, at : Nat, window : Int]]
  BY OthersKept DEF IInv, Typed
<1>2. ASSUME NEW x \in Requests, Scope(x) = s
      PROVE  turn'[x] = turn[x] /\ run'[x] = run[x]
  <2>1. x # r
    BY <1>2
  <2>2. x \notin OldestUntagged(Scope(r))
    BY <1>2 DEF OldestUntagged, Stored
  <2>3. turn'[x] = turn[x]
    BY <1>1, <2>1, <2>2 DEF Stamp, Insert, Count, Tag, Fetch, StoreSummary, Crash
  <2> QED
    BY <1>1, <2>1, <2>3
<1>3. /\ \A w : w[1] = s =>
           /\ w \in DOMAIN windows' <=> w \in DOMAIN windows
           /\ w \in DOMAIN windows => windows'[w] = windows[w]
      /\ \A e \in embeds' : e.window[1] = s => e \in embeds
  <2>1. CASE UNCHANGED <<windows, embeds>>
    BY <2>1
  <2>2. CASE ~UNCHANGED <<windows, embeds>>
    <3>1. PICK v : v = <<Scope(r), CompletedWindow(run[r].total)>>
      OBVIOUS
    <3>2. /\ windows' = OnConflictNothing(v, run[r].covers)
          /\ embeds' = embeds \union {[window |-> v, text |-> run[r].covers]}
      BY <2>2, <3>1 DEF Stamp, Insert, Count, Tag, Fetch, StoreSummary, Crash
    <3>3. v[1] # s
      BY <3>1
    <3> QED
      BY <3>2, <3>3 DEF OnConflictNothing
  <2> QED
    BY <2>1, <2>2
<1>4. LeavesAlone(s)
  BY <1>1, <1>2, <1>3 DEF LeavesAlone, Still
<1>5. Serial(s)'
  BY <1>1, <1>2, QuietSerial DEF SliceInv
<1> QED
  BY <1>4, <1>5, QuietSlice

\* The stamp is later than that of every row of the channel, unless another
\* append is under way.
LEMMA StampSlices ==
  ASSUME IInv, MemoryInv, TagInv, NEW r \in Requests, Stamp(r),
         NEW s, Scope(r) = s, s \notin upset', SliceInv(s)
  PROVE  SliceInv(s)'
<1>1. /\ UNCHANGED <<case, windows, embeds>> /\ run[r].pc = "stamp"
      /\ \A x \in Requests \ {r} : run'[x] = run[x]
      /\ turn \in [Requests -> [stored : BOOLEAN, at : Nat, window : Int]]
      /\ clock \in Nat /\ turn' = [turn EXCEPT ![r].at = clock + 1]
  BY OthersKept DEF IInv, Typed, Stamp
<1>2. run'[r].pc = "insert"
  BY AppendSteps DEF Stamp, Steps, Appending
<1>3. ~turn[r].stored
  BY <1>1 DEF IInv, Phase, Ordered
<1>4. \A x \in Requests : x # r /\ Scope(x) = s => run[x].pc \notin Appending
  BY DEF Stamp, Overlaps
<1>5. /\ turn'[r].at = clock + 1 /\ turn'[r].stored = turn[r].stored
      /\ \A x \in Requests \ {r} : turn'[x] = turn[x]
  BY <1>1
<1>6. \A x \in Requests : turn[x].at \in Nat /\ turn[x].at <= clock
  BY <1>1 DEF MemoryInv, Stamped
<1>7. LeavesAlone(s)
  <2>1. \A x \in Requests : Still(x)
    BY <1>1, <1>2 DEF Still, Closing
  <2> QED
    BY <1>1, <1>3, <1>5, <2>1 DEF LeavesAlone
<1>8. Serial(s)'
  <2>1. ASSUME NEW x \in Requests, Scope(x) = s, run'[x].pc \in Appending
        PROVE  x = r
    BY <1>1, <1>4, <2>1
  <2>2. \A x \in Stored(s)' \ {r} : turn'[x].at < turn'[r].at
    BY <1>1, <1>5, <1>6 DEF Stored
  <2>3. \A x \in Requests : Scope(x)' = Scope(x)
    BY <1>1 DEF Scope, Q
  <2> QED
    BY <2>1, <2>2, <2>3 DEF Serial
<1> QED
  BY <1>7, <1>8, QuietSlice

\* The new rows are the newest, and without a window.
LEMMA InsertSlices ==
  ASSUME IInv, MemoryInv, TagInv, NEW r \in Requests, Insert(r),
         NEW s, Scope(r) = s, s \notin upset', SliceInv(s)
  PROVE  SliceInv(s)'
<1>1. /\ UNCHANGED <<case, windows, embeds>> /\ run[r].pc = "insert"
      /\ \A x \in Requests \ {r} : run'[x] = run[x]
      /\ turn \in [Requests -> [stored : BOOLEAN, at : Nat, window : Int]]
      /\ turn' = [turn EXCEPT ![r].stored = TRUE] /\ Goto(r, "count")
  BY OthersKept DEF IInv, Typed, Insert
<1>2. run'[r].pc = "count"
  BY <1>1, AppendSteps DEF Steps, Appending
<1>3. ~turn[r].stored /\ turn[r].window = Untagged
  BY <1>1 DEF IInv, Phase, Ordered, TagInv, Closes
<1>4. /\ turn'[r].stored /\ turn'[r].window = Untagged
      /\ turn'[r].at = turn[r].at
      /\ \A x \in Requests \ {r} : turn'[x] = turn[x]
  BY <1>1, <1>3
<1>5. \A x \in Requests : Scope(x)' = Scope(x)
  BY <1>1 DEF Scope, Q
<1>6. Stored(s)' = Stored(s) \union {r} /\ r \notin Stored(s)
  BY <1>3, <1>4, <1>5 DEF Stored
<1>7. \A x \in Stored(s) : /\ x \in Requests /\ x # r /\ Scope(x) = s
                           /\ turn'[x] = turn[x] /\ run'[x] = run[x]
  BY <1>1, <1>4, <1>6 DEF Stored
<1>8. /\ \A x \in Requests : Scope(x) = s /\ run[x].pc \in Appending => x = r
      /\ \A x \in Stored(s) : turn[x].at < turn[r].at
  BY <1>1, <1>6 DEF SliceInv, Serial, Appending
<1>9. \A x \in Stored(s) : run[x].pc \notin Appending
  BY <1>7, <1>8
<1>10. /\ Decided(s) = Stored(s) /\ Decided(s)' = Stored(s)
       /\ Finished(s) = Stored(s) /\ Finished(s)' = Stored(s)
  BY <1>2, <1>6, <1>7, <1>9 DEF Decided, Finished, Closing, Appending
<1>11. Serial(s)'
  BY <1>1, <1>2, <1>4, QuietSerial DEF SliceInv, Appending
<1>12. Sliced(s)'
  <2>1. ASSUME NEW x \in Stored(s) PROVE Rank(x)' = Rank(x)
    <3>1. ~(turn'[r].at < turn'[x].at)
      BY <1>1, <1>4, <1>7, <1>8
    <3>2. Older(x, Stored(s))' = Older(x, Stored(s))
      BY <1>6, <1>7, <3>1 DEF Older
    <3> QED
      BY <1>5, <1>7, <3>2 DEF Rank
  <2>2. Rank(r)' = Cardinality(Stored(s))
    <3>1. turn[r].at \in Nat
      BY <1>1
    <3>2. Older(r, Stored(s))' = Stored(s)
      BY <1>4, <1>6, <1>7, <1>8, <3>1 DEF Older
    <3> QED
      BY <1>5, <3>2 DEF Rank
  <2>3. Cardinality(Stored(s)) \div WindowExchanges \in Int
    BY StoredIsCounted, BoundsAssumption
  <2>4. ~(Cardinality(Stored(s)) \div WindowExchanges
            < Cardinality(Stored(s)) \div WindowExchanges)
    BY <2>3
  <2>5. ASSUME NEW x \in Stored(s)' 
        PROVE  turn'[x].window =
                 IF Rank(x)' \div WindowExchanges
                      < Cardinality(Decided(s)') \div WindowExchanges
                   THEN Rank(x)' \div WindowExchanges ELSE Untagged
    <3>1. CASE x = r
      BY <1>4, <1>10, <2>2, <2>4, <3>1
    <3>2. CASE x # r
      BY <1>6, <1>7, <1>10, <2>1, <3>2 DEF SliceInv, Sliced
    <3> QED
      BY <3>1, <3>2
  <2> QED
    BY <2>5 DEF Sliced
<1>13. ClosesLast(s)'
  <2>1. \A x \in Requests : Scope(x) = s => run'[x].pc \notin Closing \ {"count"}
    BY <1>1, <1>2, <1>8 DEF Closing, Appending
  <2> QED
    BY <1>5, <2>1 DEF ClosesLast, Closing
<1>14. ASSUME NEW i \in Nat PROVE fetch_window(s, i)' = fetch_window(s, i)
  BY <1>4, <1>6, <1>7 DEF fetch_window, Untagged
<1>15. Summarised(s)'
  <2>1. \A w \in DOMAIN windows : w[1] = s =>
          fetch_window(s, w[2])' = fetch_window(s, w[2])
    BY <1>14 DEF TagInv
  <2> QED
    BY <1>1, <1>10, <2>1 DEF SliceInv, Summarised
<1>16. Complete(s)'
  BY <1>1, <1>10 DEF SliceInv, Complete
<1> QED
  BY <1>11, <1>12, <1>13, <1>15, <1>16 DEF SliceInv

\* The count tells whether a window is full.
LEMMA CountSlices ==
  ASSUME IInv, MemoryInv, TagInv, NEW r \in Requests, Count(r),
         NEW s, Scope(r) = s, s \notin upset', SliceInv(s)
  PROVE  SliceInv(s)'
<1> DEFINE n == Cardinality(Stored(s))
<1>1. /\ UNCHANGED <<case, turn, windows, embeds>> /\ run[r].pc = "count"
      /\ \A x \in Requests \ {r} : run'[x] = run[x]
      /\ run \in [Requests -> RunState] /\ run[r] \in RunState
  BY OthersKept DEF IInv, Typed, Count
<1>2. PICK l : l = IF n % WindowExchanges = 0 THEN "tag" ELSE "done"
  OBVIOUS
<1>3. run' = [run EXCEPT ![r].total = n, ![r].pc = l]
  BY <1>2 DEF Count
<1>4. run'[r].total = n /\ run'[r].pc = l
  BY <1>1, <1>3 DEF RunState
<1>5. r \in Stored(s) /\ run[r].pc \in Closing
  BY <1>1 DEF TagInv, Closes, Closing, Stored
<1>6. /\ Decided(s) = Stored(s) \ {r} /\ Finished(s) = Stored(s) \ {r}
      /\ Cardinality(Stored(s) \ {r}) = n - 1 /\ n \in Nat /\ n > 0
  BY <1>1, <1>5, OnlyAppend DEF SliceInv
<1>7. /\ Stored(s)' = Stored(s) /\ \A x \in Requests : Scope(x)' = Scope(x)
      /\ \A x \in Stored(s) : x \in Requests /\ Scope(x) = s
  BY <1>1 DEF Stored, Scope, Q
<1>8. ASSUME NEW i PROVE fetch_window(s, i)' = fetch_window(s, i)
  BY <1>1, <1>7 DEF fetch_window
<1>9. ASSUME NEW x \in Stored(s) PROVE Rank(x)' = Rank(x)
  BY <1>1, <1>7 DEF Rank, Older
<1>10. \A x \in Requests : Scope(x) = s /\ run[x].pc \in Appending => x = r
  BY <1>1 DEF SliceInv, Serial, Appending
<1>11. Serial(s)'
  BY <1>1, <1>4, QuietSerial DEF SliceInv, Appending
<1>12. \A x \in Stored(s) \ {r} : run[x].pc \notin Closing
  BY <1>7, <1>10 DEF Closing, Appending
<1>13. /\ Cardinality(Decided(s)') \div WindowExchanges
            = Cardinality(Decided(s)) \div WindowExchanges
       /\ Cardinality(Finished(s)') \div WindowExchanges
            = Cardinality(Finished(s)) \div WindowExchanges
  <2>1. CASE l = "tag"
    <3>1. Decided(s)' = Stored(s) \ {r} /\ Finished(s)' = Stored(s) \ {r}
      BY <1>1, <1>4, <1>7, <1>12, <2>1 DEF Decided, Finished, Closing
    <3> QED
      BY <1>6, <3>1
  <2>2. CASE l # "tag"
    <3>1. Decided(s)' = Stored(s) /\ Finished(s)' = Stored(s)
      BY <1>1, <1>2, <1>4, <1>7, <1>12, <2>2 DEF Decided, Finished, Closing
    <3>2. n \in Nat \ {0} /\ WindowExchanges \in Nat \ {0}
      BY <1>6, BoundsAssumption
    <3>3. (n - 1) \div WindowExchanges = IF n % WindowExchanges = 0
            THEN (n \div WindowExchanges) - 1 ELSE n \div WindowExchanges
      BY <3>2, DivStep
    <3>4. n % WindowExchanges # 0
      BY <1>2, <2>2
    <3> QED
      BY <1>6, <3>1, <3>3, <3>4
  <2> QED
    BY <2>1, <2>2
<1>14. Sliced(s)'
  BY <1>1, <1>7, <1>9, <1>13 DEF SliceInv, Sliced
<1>15. ClosesLast(s)'
  <2>1. \A x \in Requests : Scope(x) = s => run'[x].pc # "summary"
    BY <1>1, <1>2, <1>4, <1>10 DEF Appending
  <2>2. \A x \in Requests : Scope(x) = s /\ run'[x].pc \in Closing \ {"count"} =>
          run'[x].total = n
    BY <1>1, <1>4, <1>10 DEF Appending, Closing
  <2> QED
    BY <1>7, <2>1, <2>2 DEF ClosesLast
<1>16. Summarised(s)'
  BY <1>1, <1>8, <1>13 DEF SliceInv, Summarised
<1>17. Complete(s)'
  BY <1>1, <1>13 DEF SliceInv, Complete
<1> QED
  BY <1>11, <1>14, <1>15, <1>16, <1>17 DEF SliceInv

\* In a full channel of N rows, the rows without a window are those of the
\* last window, and the sub-select returns all of them.
LEMMA OpenIsLastWindow ==
  ASSUME IInv, MemoryInv, NEW s, Sliced(s),
         NEW n \in Nat, n = Cardinality(Stored(s)), n > 0,
         n % WindowExchanges = 0, Cardinality(Decided(s)) = n - 1
  PROVE  /\ \A x \in Stored(s) :
              /\ Rank(x) \in Nat /\ Rank(x) \div WindowExchanges \in Nat
              /\ Rank(x) \div WindowExchanges <= CompletedWindow(n)
              /\ turn[x].window =
                   IF Rank(x) \div WindowExchanges < CompletedWindow(n)
                     THEN Rank(x) \div WindowExchanges ELSE Untagged
         /\ OldestUntagged(s) =
              {x \in Stored(s) :
                 Rank(x) \div WindowExchanges = CompletedWindow(n)}
<1> DEFINE S == Stored(s)
           f == [x \in S |-> 0 - turn[x].at]
           W == WindowExchanges
           k == n \div W
           open == {x \in S : turn[x].window = Untagged}
<1>1. W \in Nat \ {0}
  BY BoundsAssumption
<1>2. /\ k \in Nat /\ k > 0 /\ (n - 1) \div W = k - 1
      /\ (k - 1) * W \in Nat /\ (k - 1) * W = n - W
  BY <1>1, FullWindows
<1>3. /\ Apart(S, f)
      /\ \A x \in S : /\ Older(x, S) = Above(S, f, x) /\ Rank(x) = Place(S, f, x)
                      /\ Rank(x) \in 0..(n - 1)
  BY Ranks
<1>4. CompletedWindow(n) = k - 1
  BY DEF CompletedWindow
<1> HIDE DEF f, k, W
<1>5. ASSUME NEW x \in S
      PROVE  /\ Rank(x) \in Nat /\ Rank(x) \div W \in Nat
             /\ Rank(x) \div W <= k - 1
  <2>1. Rank(x) \in Nat /\ n - 1 \in Nat /\ Rank(x) <= n - 1
    BY <1>3
  <2> QED
    BY <1>1, <1>2, <2>1, DivMonotone
<1>6. ASSUME NEW x \in S
      PROVE  turn[x].window = IF Rank(x) \div W < k - 1
                                THEN Rank(x) \div W ELSE Untagged
  BY <1>2 DEF Sliced, W
<1>7. open = {x \in S : Rank(x) \div W = k - 1}
  <2>1. ASSUME NEW x \in S
        PROVE  turn[x].window = Untagged <=> Rank(x) \div W = k - 1
    BY <1>2, <1>5, <1>6 DEF Untagged
  <2> QED
    BY <2>1
<1>8. open = Between(S, f, (k - 1) * W, n)
  <2>1. ASSUME NEW x \in S
        PROVE  Rank(x) \div W = k - 1
                 <=> (k - 1) * W <= Place(S, f, x) /\ Place(S, f, x) < n
    <3>1. k - 1 \in Nat
      BY <1>2
    <3>2. Rank(x) \div W >= k - 1 <=> Rank(x) >= (k - 1) * W
      BY <1>1, <1>5, <3>1, DivAtLeast
    <3> QED
      BY <1>2, <1>3, <1>5, <3>1, <3>2
  <2> QED
    BY <1>7, <2>1 DEF Between
<1>9. IsFiniteSet(open) /\ Cardinality(open) = W
  <2>1. (k - 1) * W <= n /\ n <= Cardinality(S)
    BY <1>1, <1>2
  <2>2. PICK a \in Nat : a = (k - 1) * W
    BY <1>2
  <2> HIDE DEF S, open
  <2>3. Apart(S, f) /\ open = Between(S, f, a, n) /\ a <= n
    BY <1>3, <1>8, <2>1, <2>2
  <2>4. IsFiniteSet(open) /\ Cardinality(open) = n - a
    BY <2>1, <2>3, PlacesCounted
  <2> QED
    BY <1>1, <1>2, <2>2, <2>4
<1>10. ASSUME NEW x \in open PROVE Cardinality(Older(x, open)) < W
  <2>1. Older(x, open) \in SUBSET open /\ x \notin Older(x, open)
    <3>1. turn[x].at \in Nat
      BY DEF IInv, Typed, Stored
    <3> QED
      BY <3>1 DEF Older
  <2>2. /\ IsFiniteSet(Older(x, open))
        /\ Cardinality(Older(x, open)) <= Cardinality(open)
        /\ Cardinality(open) = Cardinality(Older(x, open))
             => open = Older(x, open)
    BY <1>9, <2>1, FS_Subset
  <2>3. Cardinality(Older(x, open)) \in Nat
    BY <2>2, FS_CardinalityType
  <2> QED
    BY <1>1, <1>9, <2>1, <2>2, <2>3
<1>11. OldestUntagged(s) = open
  BY <1>10 DEF OldestUntagged, W
<1> QED
  BY <1>4, <1>5, <1>6, <1>7, <1>11 DEF W

\* The tagging completes the last window, and touches no other.
LEMMA TagSlices ==
  ASSUME IInv, MemoryInv, TagInv, NEW r \in Requests, Tag(r),
         NEW s, Scope(r) = s, s \notin upset', SliceInv(s)
  PROVE  SliceInv(s)'
<1> DEFINE W == WindowExchanges
<1>1. /\ UNCHANGED <<case, windows, embeds>> /\ run[r].pc = "tag"
      /\ \A x \in Requests \ {r} : run'[x] = run[x]
      /\ turn \in [Requests -> [stored : BOOLEAN, at : Nat, window : Int]]
  BY OthersKept DEF IInv, Typed, Tag
<1>2. PICK n : n = Cardinality(Stored(s))
  OBVIOUS
<1>3. PICK i : i = CompletedWindow(n)
  OBVIOUS
<1>4. r \in Stored(s) /\ run[r].pc \in Closing
  BY <1>1 DEF TagInv, Closes, Closing, Stored
<1>5. /\ run[r].total = n /\ n > 0 /\ n % W = 0 /\ n \in Nat
  BY <1>1, <1>2, StoredIsCounted
  DEF SliceInv, ClosesLast, TagInv, Closes, Closing
<1>6. /\ Decided(s) = Stored(s) \ {r} /\ Finished(s) = Stored(s) \ {r}
      /\ Cardinality(Decided(s)) = n - 1
  BY <1>1, <1>2, <1>4, OnlyAppend DEF SliceInv
<1>7. /\ W \in Nat \ {0} /\ n \div W \in Nat /\ n \div W > 0
      /\ (n - 1) \div W = (n \div W) - 1
  <2>1. PICK w \in Nat \ {0} : w = W
    BY BoundsAssumption
  <2>2. n % w = 0 /\ n \in Nat /\ n > 0
    BY <1>5, <2>1
  <2>3. n \div w \in Nat /\ n \div w > 0 /\ (n - 1) \div w = (n \div w) - 1
    BY <2>2, FullWindows
  <2> QED
    BY <2>1, <2>3
<1>8. i = (n \div W) - 1 /\ i \in Nat /\ Cardinality(Decided(s)) \div W = i
  BY <1>3, <1>6, <1>7 DEF CompletedWindow
<1>9. /\ \A x \in Stored(s) :
           /\ Rank(x) \div W \in Nat /\ Rank(x) \div W <= i
           /\ turn[x].window = IF Rank(x) \div W < i
                                 THEN Rank(x) \div W ELSE Untagged
      /\ OldestUntagged(s) = {x \in Stored(s) : Rank(x) \div W = i}
  <2>1. Sliced(s)
    BY DEF SliceInv
  <2>2. /\ n \in Nat /\ n = Cardinality(Stored(s)) /\ n > 0
        /\ n % WindowExchanges = 0 /\ Cardinality(Decided(s)) = n - 1
    BY <1>2, <1>5, <1>6
  <2> HIDE <1>5, <1>6
  <2>3. /\ \A x \in Stored(s) :
             /\ Rank(x) \div W \in Nat /\ Rank(x) \div W <= CompletedWindow(n)
             /\ turn[x].window = IF Rank(x) \div W < CompletedWindow(n)
                                   THEN Rank(x) \div W ELSE Untagged
        /\ OldestUntagged(s) = {x \in Stored(s) :
                                  Rank(x) \div W = CompletedWindow(n)}
    BY <2>1, <2>2, OpenIsLastWindow
  <2> QED
    BY <2>3, <1>3
<1>10. turn' = [x \in Requests |->
         IF x \in OldestUntagged(s)
           THEN [turn[x] EXCEPT !.window = i] ELSE turn[x]]
  BY <1>3, <1>5 DEF Tag
<1>11. PICK l : /\ l = IF case.summarises THEN "fetch" ELSE "done"
                /\ Goto(r, l)
  BY DEF Tag
<1>12. run'[r].pc = l /\ run'[r].total = n
  BY <1>5, <1>11, AppendSteps DEF Steps, Appending
<1>13. \A x \in Requests :
         /\ turn'[x].stored = turn[x].stored /\ turn'[x].at = turn[x].at
         /\ turn'[x].window = IF x \in OldestUntagged(s)
                                THEN i ELSE turn[x].window
  BY <1>1, <1>10
<1>14. /\ Stored(s)' = Stored(s) /\ \A x \in Requests : Scope(x)' = Scope(x)
       /\ \A x \in Stored(s) : x \in Requests /\ Scope(x) = s
  BY <1>1, <1>13 DEF Stored, Scope, Q
<1>15. ASSUME NEW x \in Stored(s) PROVE Rank(x)' = Rank(x)
  <2>1. Older(x, Stored(s))' = Older(x, Stored(s))
    BY <1>13, <1>14 DEF Older
  <2> QED
    BY <1>14, <2>1 DEF Rank
<1>16. \A x \in Requests : Scope(x) = s /\ run[x].pc \in Appending => x = r
  BY <1>1 DEF SliceInv, Serial, Appending
<1>17. Serial(s)'
  BY <1>1, <1>12, <1>13, QuietSerial DEF SliceInv, Appending
<1>18. \A x \in Stored(s) \ {r} : run[x].pc \notin Closing
  BY <1>14, <1>16 DEF Closing, Appending
<1>19. Decided(s)' = Stored(s)
  BY <1>1, <1>11, <1>12, <1>14, <1>18 DEF Decided, Closing
<1>20. Sliced(s)'
  <2>1. ASSUME NEW x \in Stored(s)
        PROVE  turn'[x].window =
                 IF Rank(x)' \div W < Cardinality(Decided(s)') \div W
                   THEN Rank(x)' \div W ELSE Untagged
    <3>1. Rank(x)' = Rank(x) /\ Cardinality(Decided(s)') = n
      BY <1>2, <1>15, <1>19
    <3>2. Rank(x) \div W \in Nat /\ Rank(x) \div W <= i /\ i < n \div W
      BY <1>7, <1>8, <1>9
    <3>3. turn'[x].window = Rank(x) \div W
      BY <1>8, <1>9, <1>13, <1>14, <3>2
    <3> QED
      BY <1>7, <1>8, <3>1, <3>2, <3>3
  <2> QED
    BY <1>14, <2>1 DEF Sliced
<1>21. ClosesLast(s)'
  <2>1. \A x \in Requests : Scope(x) = s => run'[x].pc # "summary"
    BY <1>1, <1>11, <1>12, <1>16 DEF Appending
  <2>2. \A x \in Requests : Scope(x) = s /\ run'[x].pc \in Closing \ {"count"} =>
          run'[x].total = n
    BY <1>1, <1>12, <1>16 DEF Appending, Closing
  <2> QED
    BY <1>2, <1>14, <2>1, <2>2 DEF ClosesLast
<1>22. ASSUME NEW j \in Nat, j < i
       PROVE  fetch_window(s, j)' = fetch_window(s, j)
  <2>1. \A x \in OldestUntagged(s) : turn[x].window = Untagged
    BY DEF OldestUntagged
  <2> QED
    BY <1>8, <1>13, <1>14, <1>22, <2>1 DEF fetch_window, Untagged
<1>23. Summarised(s)'
  <2>1. ASSUME NEW w \in DOMAIN windows, w[1] = s
        PROVE  /\ w[2] < Cardinality(Decided(s)') \div W
               /\ windows[w].summary = fetch_window(s, w[2])'
               /\ windows[w].embedding \subseteq {windows[w].summary}
    <3>1. /\ w[2] \in Nat /\ w[2] < i /\ windows[w].summary = fetch_window(s, w[2])
          /\ windows[w].embedding \subseteq {windows[w].summary}
      BY <1>8, <2>1 DEF TagInv, SliceInv, Summarised
    <3>2. fetch_window(s, w[2])' = fetch_window(s, w[2])
      BY <1>22, <3>1
    <3>3. Cardinality(Decided(s)') \div W = n \div W
      BY <1>2, <1>19
    <3> QED
      BY <1>7, <1>8, <3>1, <3>2, <3>3
  <2> QED
    BY <1>1, <2>1 DEF SliceInv, Summarised
<1>24. Complete(s)'
  <2>1. CASE ~case.summarises
    BY <1>1, <2>1 DEF Complete
  <2>2. CASE case.summarises
    <3>1. Finished(s)' = Finished(s)
      BY <1>1, <1>6, <1>11, <1>12, <1>14, <1>18, <2>2 DEF Finished, Closing
    <3> QED
      BY <1>1, <3>1 DEF SliceInv, Complete
  <2> QED
    BY <2>1, <2>2
<1> QED
  BY <1>17, <1>20, <1>21, <1>23, <1>24 DEF SliceInv

\* The last row of the channel is in the window that its append closes.
LEMMA LastIsInWindow ==
  ASSUME IInv, MemoryInv, TagInv, NEW r \in Requests,
         run[r].pc \in {"fetch", "summary"},
         NEW s, Scope(r) = s, SliceInv(s)
  PROVE  LET n == Cardinality(Stored(s))
             W == WindowExchanges
         IN  /\ run[r].total = n /\ n \in Nat /\ n > 0
             /\ r \in Stored(s) /\ Decided(s) = Stored(s)
             /\ Finished(s) = Stored(s) \ {r}
             /\ Cardinality(Finished(s)) \div W = (n \div W) - 1
             /\ n \div W \in Nat /\ CompletedWindow(n) = (n \div W) - 1
             /\ CompletedWindow(n) \in Nat
             /\ r \in fetch_window(s, CompletedWindow(n))
<1> DEFINE n == Cardinality(Stored(s))
           W == WindowExchanges
<1>1. r \in Stored(s) /\ run[r].pc \in Closing
  BY DEF TagInv, Closes, Closing, Stored
<1>2. run[r].total = n /\ n > 0 /\ n % W = 0 /\ n \in Nat
  BY StoredIsCounted DEF SliceInv, ClosesLast, TagInv, Closes, Closing
<1>3. /\ Decided(s) = Stored(s) /\ Finished(s) = Stored(s) \ {r}
      /\ Cardinality(Finished(s)) = n - 1 /\ Rank(r) = n - 1
  BY <1>1, OnlyAppend DEF SliceInv
<1>4. /\ n \div W \in Nat /\ n \div W > 0 /\ (n - 1) \div W = (n \div W) - 1
  BY <1>2, BoundsAssumption, FullWindows
<1>5. CompletedWindow(n) = (n \div W) - 1 /\ CompletedWindow(n) \in Nat
  BY <1>4 DEF CompletedWindow
<1>6. turn[r].window = CompletedWindow(n)
  <2>1. turn[r].window = IF Rank(r) \div W < n \div W
                           THEN Rank(r) \div W ELSE Untagged
    BY <1>1, <1>3 DEF SliceInv, Sliced
  <2>2. Rank(r) \div W = (n \div W) - 1
    BY <1>3, <1>4
  <2> QED
    BY <1>4, <1>5, <2>1, <2>2
<1>7. r \in fetch_window(s, CompletedWindow(n))
  BY <1>1, <1>6 DEF fetch_window
<1>8. Cardinality(Finished(s)) \div W = (n \div W) - 1
  BY <1>3, <1>4
<1> HIDE DEF n, W
<1>9. /\ run[r].total = n /\ n \in Nat /\ n > 0
      /\ r \in Stored(s) /\ Decided(s) = Stored(s)
      /\ Finished(s) = Stored(s) \ {r}
      /\ Cardinality(Finished(s)) \div W = (n \div W) - 1
      /\ n \div W \in Nat /\ CompletedWindow(n) = (n \div W) - 1
      /\ CompletedWindow(n) \in Nat
      /\ r \in fetch_window(s, CompletedWindow(n))
  BY <1>1, <1>2, <1>3, <1>4, <1>5, <1>7, <1>8
<1> QED
  BY <1>9 DEF n, W

\* The window is read as it was tagged.
LEMMA FetchSlices ==
  ASSUME IInv, MemoryInv, TagInv, NEW r \in Requests, Fetch(r),
         NEW s, Scope(r) = s, s \notin upset', SliceInv(s)
  PROVE  SliceInv(s)'
<1>1. /\ UNCHANGED <<case, turn, windows, embeds>> /\ run[r].pc = "fetch"
      /\ \A x \in Requests \ {r} : run'[x] = run[x]
      /\ run \in [Requests -> RunState] /\ run[r] \in RunState
  BY OthersKept DEF IInv, Typed, Fetch
<1>2. PICK rows : rows = fetch_window(s, CompletedWindow(run[r].total))
  OBVIOUS
<1>3. rows # {}
  BY <1>1, <1>2, LastIsInWindow
<1>4. run' = [run EXCEPT ![r].covers = rows, ![r].pc = "summary"]
  BY <1>2, <1>3 DEF Fetch
<1>5. /\ run'[r].covers = rows /\ run'[r].pc = "summary"
      /\ run'[r].total = run[r].total
  BY <1>1, <1>4 DEF RunState
<1>6. /\ Stored(s)' = Stored(s) /\ \A x \in Requests : Scope(x)' = Scope(x)
      /\ \A x \in Stored(s) : x \in Requests /\ Scope(x) = s
  BY <1>1 DEF Stored, Scope, Q
<1>7. ASSUME NEW i PROVE fetch_window(s, i)' = fetch_window(s, i)
  BY <1>1, <1>6 DEF fetch_window
<1>8. ASSUME NEW x \in Stored(s) PROVE Rank(x)' = Rank(x)
  BY <1>1, <1>6 DEF Rank, Older
<1>9. Serial(s)'
  BY <1>1, <1>5, QuietSerial DEF SliceInv, Appending
<1>10. Decided(s)' = Decided(s) /\ Finished(s)' = Finished(s)
  BY <1>1, <1>5, <1>6 DEF Decided, Finished, Closing
<1>11. Sliced(s)'
  BY <1>1, <1>6, <1>8, <1>10 DEF SliceInv, Sliced
<1>12. ClosesLast(s)'
  <2>1. \A x \in Requests : Scope(x) = s /\ run[x].pc \in Appending => x = r
    BY <1>1 DEF SliceInv, Serial, Appending
  <2>2. run[r].total = Cardinality(Stored(s))
    BY <1>1 DEF SliceInv, ClosesLast, Closing
  <2>3. CompletedWindow(run[r].total)' = CompletedWindow(run[r].total)
    BY <1>5 DEF CompletedWindow
  <2>4. fetch_window(s, CompletedWindow(run[r].total))' = rows
    BY <1>2, <1>6, <1>1, <2>3 DEF fetch_window
  <2>5. \A x \in Requests \ {r} : Scope(x) = s => run'[x].pc \notin Closing
    BY <1>1, <2>1 DEF Closing, Appending
  <2>6. ASSUME NEW x \in Requests, Scope(x)' = s
        PROVE  /\ run'[x].pc \in Closing \ {"count"} =>
                    run'[x].total = Cardinality(Stored(s)')
               /\ run'[x].pc = "summary" =>
                    run'[x].covers = fetch_window(s, CompletedWindow(run[x].total))'
    <3>1. CASE x = r
      BY <1>5, <1>6, <2>2, <2>4, <3>1
    <3>2. CASE x # r
      BY <1>6, <2>5, <2>6, <3>2 DEF Closing
    <3> QED
      BY <3>1, <3>2
  <2> QED
    BY <2>6 DEF ClosesLast
<1>13. Summarised(s)'
  BY <1>1, <1>7, <1>10 DEF SliceInv, Summarised
<1>14. Complete(s)'
  BY <1>1, <1>10 DEF SliceInv, Complete
<1> QED
  BY <1>9, <1>11, <1>12, <1>13, <1>14 DEF SliceInv

\* The summary is of the whole window, which was without one.
LEMMA SummarySlices ==
  ASSUME IInv, MemoryInv, TagInv, NEW r \in Requests, StoreSummary(r),
         NEW s, Scope(r) = s, s \notin upset', SliceInv(s)
  PROVE  SliceInv(s)'
<1> DEFINE n == Cardinality(Stored(s))
           W == WindowExchanges
<1>1. /\ UNCHANGED <<case, turn>> /\ run[r].pc = "summary" /\ Goto(r, "done")
      /\ \A x \in Requests \ {r} : run'[x] = run[x]
  BY OthersKept DEF StoreSummary
<1>2. run'[r].pc = "done"
  BY <1>1, AppendSteps DEF Steps
<1>3. /\ run[r].total = n /\ n \in Nat /\ n > 0
      /\ r \in Stored(s) /\ Decided(s) = Stored(s)
      /\ Finished(s) = Stored(s) \ {r}
      /\ Cardinality(Finished(s)) \div W = (n \div W) - 1
      /\ n \div W \in Nat /\ CompletedWindow(n) = (n \div W) - 1
      /\ CompletedWindow(n) \in Nat
  BY <1>1, LastIsInWindow
<1>4. PICK i \in Nat : i = CompletedWindow(n) /\ i = (n \div W) - 1
  BY <1>3
<1>5. PICK text : text = run[r].covers /\ text = fetch_window(s, i)
  BY <1>1, <1>3, <1>4 DEF SliceInv, ClosesLast
<1>6. PICK w : w = <<s, i>>
  OBVIOUS
<1>7. /\ windows' = OnConflictNothing(w, text)
      /\ embeds' = embeds \union {[window |-> w, text |-> text]}
  BY <1>3, <1>4, <1>5, <1>6 DEF StoreSummary
<1>8. /\ Stored(s)' = Stored(s) /\ \A x \in Requests : Scope(x)' = Scope(x)
      /\ \A x \in Stored(s) : x \in Requests /\ Scope(x) = s
  BY <1>1 DEF Stored, Scope, Q
<1>9. ASSUME NEW j PROVE fetch_window(s, j)' = fetch_window(s, j)
  BY <1>1, <1>8 DEF fetch_window
<1>10. ASSUME NEW x \in Stored(s) PROVE Rank(x)' = Rank(x)
  BY <1>1, <1>8 DEF Rank, Older
<1>11. \A x \in Requests : Scope(x) = s /\ run[x].pc \in Appending => x = r
  BY <1>1 DEF SliceInv, Serial, Appending
<1>12. Serial(s)'
  BY <1>1, <1>2, QuietSerial DEF SliceInv, Appending
<1>13. \A x \in Stored(s) \ {r} : run[x].pc \notin Closing
  BY <1>8, <1>11 DEF Closing, Appending
<1>14. Decided(s)' = Stored(s) /\ Finished(s)' = Stored(s)
  BY <1>1, <1>2, <1>8, <1>13 DEF Decided, Finished, Closing
<1>15. Sliced(s)'
  BY <1>1, <1>3, <1>8, <1>10, <1>14 DEF SliceInv, Sliced
<1>16. ClosesLast(s)'
  <2>1. \A x \in Requests : Scope(x) = s => run'[x].pc \notin Closing
    BY <1>1, <1>2, <1>11 DEF Closing, Appending
  <2> QED
    BY <1>8, <2>1 DEF ClosesLast, Closing
<1>17. /\ DOMAIN windows' = DOMAIN windows \union {w}
       /\ \A v \in DOMAIN windows : windows'[v] = windows[v]
       /\ w \notin DOMAIN windows =>
            windows'[w] = [summary |-> text, embedding |-> {}]
  BY <1>7 DEF OnConflictNothing
<1>18. ASSUME NEW v \in DOMAIN windows', v[1] = s
       PROVE  /\ v[2] < n \div W
              /\ windows'[v].summary = fetch_window(s, v[2])
              /\ windows'[v].embedding \subseteq {windows'[v].summary}
  <2>1. CASE v \in DOMAIN windows
    BY <1>3, <1>17, <1>18, <2>1 DEF SliceInv, Summarised
  <2>2. CASE v \notin DOMAIN windows
    <3>1. v = w /\ windows'[v] = [summary |-> text, embedding |-> {}]
      BY <1>17, <2>2
    <3>2. v[2] = i
      BY <1>6, <3>1
    <3> QED
      BY <1>3, <1>4, <1>5, <3>1, <3>2
  <2> QED
    BY <2>1, <2>2
<1>19. ASSUME NEW e \in embeds', e.window[1] = s
       PROVE  e.text = windows'[e.window].summary
  <2>1. CASE e \in embeds
    <3>1. e.window \in DOMAIN windows /\ e.text = windows[e.window].summary
      BY <1>19, <2>1 DEF TagInv, SliceInv, Summarised
    <3> QED
      BY <1>17, <3>1
  <2>2. CASE e \notin embeds
    <3>1. e.window = w /\ e.text = text
      BY <1>7, <2>2
    <3>2. w \in DOMAIN windows' /\ w[1] = s /\ w[2] = i
      BY <1>6, <1>17
    <3>3. windows'[w].summary = fetch_window(s, i)
      BY <1>18, <3>2
    <3> QED
      BY <1>5, <3>1, <3>3
  <2> QED
    BY <2>1, <2>2
<1>20. Summarised(s)'
  <2>1. ASSUME NEW v \in DOMAIN windows', v[1] = s
        PROVE  /\ v[2] < Cardinality(Decided(s)') \div W
               /\ windows'[v].summary = fetch_window(s, v[2])'
               /\ windows'[v].embedding \subseteq {windows'[v].summary}
    BY <1>9, <1>14, <1>18, <2>1
  <2> QED
    BY <1>19, <2>1 DEF Summarised
<1>21. Complete(s)'
  <2> SUFFICES ASSUME case.summarises, NEW j \in 0..((n \div W) - 1)
               PROVE  <<s, j>> \in DOMAIN windows'
    BY <1>1, <1>14 DEF Complete
  <2>1. CASE j = i
    BY <1>6, <1>17, <2>1
  <2>2. CASE j # i
    <3>1. j \in 0..((Cardinality(Finished(s)) \div W) - 1)
      BY <1>3, <1>4, <2>2
    <3>2. <<s, j>> \in DOMAIN windows
      BY <3>1 DEF SliceInv, Complete
    <3> QED
      BY <1>17, <3>2
  <2> QED
    BY <2>1, <2>2
<1> QED
  BY <1>12, <1>15, <1>16, <1>20, <1>21 DEF SliceInv

\* The embedding is of the summary.
LEMMA EmbedSlices ==
  ASSUME IInv, TagInv, NEW e \in embeds, Embed(e), NEW s, SliceInv(s)
  PROVE  SliceInv(s)'
<1>1. UNCHANGED <<case, run, turn>> /\ embeds' \subseteq embeds
  BY DEF Embed
<1>2. Serial(s)' /\ \A x \in Requests : Still(x)
  BY <1>1, QuietSerial DEF SliceInv, Still
<1>3. CASE UNCHANGED windows \/ e.window[1] # s
  <2>1. \A w : w[1] = s =>
          /\ w \in DOMAIN windows' <=> w \in DOMAIN windows
          /\ w \in DOMAIN windows => windows'[w] = windows[w]
    BY <1>3 DEF Embed
  <2>2. LeavesAlone(s)
    BY <1>1, <1>2, <2>1 DEF LeavesAlone
  <2> QED
    BY <1>2, <2>2, QuietSlice
<1>4. CASE ~UNCHANGED windows /\ e.window[1] = s
  <2>1. PICK d : d = [windows[e.window] EXCEPT !.embedding = {e.text}]
    OBVIOUS
  <2>2. /\ DOMAIN windows' = DOMAIN windows
        /\ \A w \in DOMAIN windows :
             windows'[w] = IF w = e.window THEN d ELSE windows[w]
    BY <1>4, <2>1 DEF Embed
  <2>3. /\ e.window \in DOMAIN windows
        /\ e.text = windows[e.window].summary
    BY <1>4 DEF TagInv, SliceInv, Summarised
  <2>4. d.summary = windows[e.window].summary
    BY <2>1
  <2>5. d.embedding \subseteq {d.summary}
    <3>1. windows[e.window].embedding \subseteq {windows[e.window].summary}
      BY <1>4, <2>3 DEF SliceInv, Summarised
    <3> QED
      BY <2>1, <2>3, <2>4, <3>1
  <2>6. \A w \in DOMAIN windows : w[1] = s =>
          /\ windows'[w].summary = windows[w].summary
          /\ windows'[w].embedding \subseteq {windows'[w].summary}
    BY <2>2, <2>4, <2>5 DEF SliceInv, Summarised
  <2>7. /\ Stored(s)' = Stored(s) /\ Decided(s)' = Decided(s)
        /\ Finished(s)' = Finished(s)
        /\ \A i : fetch_window(s, i)' = fetch_window(s, i)
    BY <1>1 DEF Stored, Decided, Finished, fetch_window, Scope, Q
  <2>8. Summarised(s)'
    BY <1>1, <2>2, <2>6, <2>7 DEF SliceInv, Summarised, TagInv
  <2>9. Complete(s)'
    BY <1>1, <2>2, <2>7 DEF SliceInv, Complete
  <2>10. Sliced(s)' /\ ClosesLast(s)'
    BY <1>1 DEF SliceInv, Sliced, ClosesLast, Rank, Older, Stored, Decided,
      fetch_window, CompletedWindow, Scope, Q
  <2> QED
    BY <1>2, <2>8, <2>9, <2>10 DEF SliceInv
<1> QED
  BY <1>3, <1>4

\* The initial state satisfies the invariant.
LEMMA InitWindows == Init => WindowInv
<1> SUFFICES ASSUME Init PROVE WindowInv
  OBVIOUS
<1> DEFINE W == WindowExchanges
<1>1. IInv /\ MemoryInv /\ W \in Nat \ {0}
  BY InitInvariant, InitMemory, BoundsAssumption
<1>2. DOMAIN case.earlier \subseteq Requests /\ embeds = {}
  BY CasesAssumption DEF Init
<1>3. \A x \in Requests : run[x].pc \in {"idle", "done"}
  <2>1. PICK R : R = [Start EXCEPT !.pc = "done", !.decision = "served",
                                   !.result = "answered"]
    OBVIOUS
  <2>2. R.pc = "done" /\ Start.pc = "idle"
    BY <2>1 DEF Start
  <2>3. \A x \in Requests : run[x] = R \/ run[x] = Start
    BY <2>1 DEF Init
  <2> QED
    BY <2>2, <2>3
<1>4. \A x \in Requests : run[x].pc \notin Appending /\ run[x].pc \notin Closing
  BY <1>3 DEF Appending, Closing
<1>5. \A s : Stored(s) = {x \in DOMAIN case.earlier : Scope(x) = s}
  BY InitRows
<1>6. ASSUME NEW s, NEW x \in Stored(s)
      PROVE  /\ x \in DOMAIN case.earlier /\ Scope(x) = s
             /\ Rank(x) \in 0..(Cardinality(Stored(s)) - 1)
             /\ Rank(x) \div W \in Nat
             /\ turn[x].window =
                  IF Rank(x) \div W < Cardinality(Stored(s)) \div W
                    THEN Rank(x) \div W ELSE Untagged
  <2>1. x \in DOMAIN case.earlier /\ Scope(x) = s
    BY <1>5, <1>6
  <2>2. Rank(x) \in 0..(Cardinality(Stored(s)) - 1)
    BY <1>1, <1>6, Ranks
  <2>3. Rank(x) \div W \in Nat
    BY <1>1, <2>2, DivMonotone
  <2>4. turn[x].window =
          IF Rank(x) \div W < Cardinality(Stored(Scope(x))) \div W
            THEN Rank(x) \div W ELSE Untagged
    BY <2>1, InitRows
  <2> QED
    BY <2>1, <2>2, <2>3, <2>4
<1>7. ASSUME NEW w \in DOMAIN windows
      PROVE  /\ w \in Scopes \X Nat
             /\ w[2] < Cardinality(Stored(w[1])) \div W
             /\ windows[w].summary = fetch_window(w[1], w[2])
             /\ windows[w].embedding = {windows[w].summary}
  <2>1. PICK r \in DOMAIN case.earlier :
          /\ w = <<Scope(r), Rank(r) \div W>>
          /\ Rank(r) \div W < Cardinality(Stored(Scope(r))) \div W
    BY <1>7, InitRows
  <2>2. PICK s : s = Scope(r)
    OBVIOUS
  <2>3. PICK i : i = Rank(r) \div W
    OBVIOUS
  <2>4. w[1] = s /\ w[2] = i /\ w = <<s, i>>
    BY <2>1, <2>2, <2>3
  <2>5. s \in Scopes
    BY <1>1, <1>2, <2>1, <2>2, CasesAssumption DEF IInv, Typed, Scope, Q
  <2>6. i \in Nat /\ i < Cardinality(Stored(s)) \div W
    BY <1>2, <1>5, <1>6, <2>1, <2>2, <2>3
  <2>7. PICK rows : /\ rows = {x \in Stored(s) : Rank(x) \div W = i}
                    /\ windows[w] = [summary |-> rows, embedding |-> {rows}]
    BY <1>7, <2>4, InitRows
  <2>8. \A x \in Stored(s) : turn[x].window = i <=> Rank(x) \div W = i
    BY <1>6, <2>6 DEF Untagged
  <2>9. rows = fetch_window(s, i)
    BY <2>7, <2>8 DEF fetch_window
  <2> QED
    BY <2>4, <2>5, <2>6, <2>7, <2>9
<1>8. TagInv
  <2>1. ASSUME NEW x \in Requests PROVE Closes(x)
    <3>1. ~turn[x].stored => turn[x].window = Untagged
      BY <1>2 DEF Init
    <3> QED
      BY <1>4, <3>1 DEF Closes, Closing
  <2> QED
    BY <1>2, <1>7, <2>1 DEF TagInv
<1>9. ASSUME NEW s \in Scopes PROVE SliceInv(s)
  <2>1. Decided(s) = Stored(s) /\ Finished(s) = Stored(s)
    BY <1>4 DEF Decided, Finished, Closing, Stored
  <2>2. Serial(s) /\ ClosesLast(s)
    BY <1>4 DEF Serial, ClosesLast, Closing
  <2>3. Sliced(s)
    BY <1>6, <2>1 DEF Sliced
  <2>4. Summarised(s)
    BY <1>2, <1>7, <2>1 DEF Summarised
  <2>5. Complete(s)
    <3> SUFFICES ASSUME case.summarises,
                        NEW i \in 0..((Cardinality(Stored(s)) \div W) - 1)
                 PROVE  <<s, i>> \in DOMAIN windows
      BY <2>1 DEF Complete
    <3>1. PICK n \in Nat : n = Cardinality(Stored(s))
      BY StoredIsCounted
    <3>2. i \in Nat /\ i < n \div W /\ n \div W \in Nat
      BY <1>1, <3>1, DivMonotone
    <3>3. PICK a \in Nat : a = i * W
      BY <1>1, <3>2
    <3>4. a \div W = i /\ a < n
      <4>1. n \div W >= i + 1 <=> n >= (i + 1) * W
        BY <1>1, <3>1, <3>2, DivAtLeast
      <4>2. (i + 1) * W = a + W
        BY <1>1, <3>2, <3>3
      <4>3. a < n
        BY <1>1, <3>1, <3>2, <3>3, <4>1, <4>2
      <4>4. a \div W = i
        BY <1>1, <3>2, <3>3
      <4> QED
        BY <4>3, <4>4
    <3>5. PICK x \in Stored(s) : Rank(x) = a
      <4> DEFINE S == Stored(s)
                 f == [z \in S |-> 0 - turn[z].at]
      <4>1. Apart(S, f) /\ \A z \in S : Rank(z) = Place(S, f, z)
        BY <1>1, Ranks
      <4>2. a \in 0..(Cardinality(S) - 1)
        BY <3>1, <3>3, <3>4
      <4> HIDE DEF S, f
      <4>3. \E z \in S : Place(S, f, z) = a
        BY <4>1, <4>2, PlacesAreTaken
      <4> QED
        BY <4>1, <4>3 DEF S
    <3>6. x \in DOMAIN case.earlier /\ Scope(x) = s
      BY <1>6
    <3>7. Rank(x) \div W < Cardinality(Stored(Scope(x))) \div W
      BY <3>1, <3>2, <3>4, <3>5, <3>6
    <3>8. <<Scope(x), Rank(x) \div W>> \in DOMAIN windows
      BY <3>6, <3>7, InitRows
    <3> QED
      BY <3>4, <3>5, <3>6, <3>8
  <2> QED
    BY <2>2, <2>3, <2>4, <2>5 DEF SliceInv
<1> QED
  BY <1>8, <1>9 DEF WindowInv

\* Every step keeps the windows of the channels that are not upset.
LEMMA StepWindows ==
  ASSUME IInv, MemoryInv, WindowInv, [Next]_vars PROVE WindowInv'
<1>1. TagInv /\ TagInv'
  BY StepTags DEF WindowInv
<1>2. upset \subseteq upset'
  BY DEF Next, vars, StoreUnchanged, AskAgent, Dispatch, ToolCommand, Guards,
    ResolveGrounding, ReadWindows, ReadHistory, Route, Post, Advise, Served,
    Settle, RecordUsage, Validate, Stamp, Insert, Count, Tag, Fetch,
    StoreSummary, Embed, Crash
<1>3. ASSUME NEW s \in Scopes \ upset' PROVE SliceInv(s)'
  <2>1. SliceInv(s)
    BY <1>2 DEF WindowInv
  <2>2. ASSUME NEW r \in Requests,
               \/ AskAgent(r) \/ Dispatch(r) \/ ToolCommand(r) \/ Guards(r)
               \/ ResolveGrounding(r) \/ ReadWindows(r) \/ ReadHistory(r)
               \/ Route(r) \/ Post(r) \/ Advise(r) \/ Served(r)
               \/ Settle(r) \/ RecordUsage(r) \/ Validate(r)
        PROVE  SliceInv(s)'
    <3>1. /\ UNCHANGED <<case, turn, windows, embeds>>
          /\ \A x \in Requests \ {r} : run'[x] = run[x]
          /\ run[r].pc \notin Appending /\ run'[r].pc \notin Appending
      BY <2>2, OutsideAppends
    <3> QED
      BY <1>1, <2>1, <3>1, AskingSlices
  <2>3. ASSUME NEW r \in Requests,
               \/ Stamp(r) \/ Insert(r) \/ Count(r) \/ Tag(r) \/ Fetch(r)
               \/ StoreSummary(r) \/ Crash(r)
        PROVE  SliceInv(s)'
    <3>1. CASE Scope(r) # s
      BY <1>1, <2>1, <2>3, <3>1, OtherChannel
    <3>2. CASE Scope(r) = s /\ ~Crash(r)
      BY <1>1, <2>1, <2>3, <3>2, StampSlices, InsertSlices, CountSlices,
        TagSlices, FetchSlices, SummarySlices
    <3>3. CASE Scope(r) = s /\ Crash(r)
      <4>1. /\ UNCHANGED <<case, turn, windows, embeds>>
            /\ \A x \in Requests \ {r} : run'[x] = run[x]
            /\ run[r].pc \notin Appending /\ run'[r].pc = "done"
        BY <3>3, OthersKept, AppendSteps DEF Crash
      <4> QED
        BY <1>1, <2>1, <4>1, AskingSlices DEF Appending
    <3> QED
      BY <3>1, <3>2, <3>3
  <2>4. ASSUME NEW e \in embeds, Embed(e) PROVE SliceInv(s)'
    BY <1>1, <2>1, <2>4, EmbedSlices
  <2>5. ASSUME UNCHANGED vars PROVE SliceInv(s)'
    <3>1. LeavesAlone(s) /\ Serial(s)'
      BY <2>1, <2>5, QuietSerial DEF vars, LeavesAlone, Still, SliceInv
    <3> QED
      BY <1>1, <2>1, <3>1, QuietSlice
  <2> QED
    BY <2>2, <2>3, <2>4, <2>5 DEF Next
<1> QED
  BY <1>1, <1>3 DEF WindowInv

\* What the requests, the memory and the windows satisfy together.
THEOREM WindowInvariant == Spec => [](IInv /\ MemoryInv /\ WindowInv)
<1>1. IInv /\ MemoryInv /\ [Next]_vars => MemoryInv'
  BY StepMemory
<1>2. IInv /\ MemoryInv /\ WindowInv /\ [Next]_vars => WindowInv'
  BY StepWindows
<1> QED
  BY <1>1, <1>2, InitMemory, InitWindows, RequestInvariant, PTL DEF Spec

\* Summaries never share an exchange; and as long as the appends of a channel
\* do not overlap and none is cut short, its windows are slices of the
\* conversation, each tagged, summarised and embedded as a whole.
THEOREM WindowsPartition == Spec => []WindowsAreSlices
<1>1. ASSUME IInv, MemoryInv, WindowInv PROVE WindowsAreSlices
  <2> DEFINE W == WindowExchanges
  <2>1. ASSUME NEW v \in DOMAIN windows, NEW w \in DOMAIN windows, v # w
        PROVE  windows[v].summary \intersect windows[w].summary = {}
    <3>1. /\ v \in Scopes \X Nat /\ w \in Scopes \X Nat
          /\ windows[v].summary \subseteq fetch_window(v[1], v[2])
          /\ windows[w].summary \subseteq fetch_window(w[1], w[2])
      BY <1>1, <2>1 DEF WindowInv, TagInv
    <3>2. v[1] # w[1] \/ v[2] # w[2]
      BY <2>1, <3>1
    <3> QED
      BY <3>1, <3>2 DEF fetch_window, Stored
  <2>2. ASSUME NEW s \in Scopes \ upset, NEW r \in Stored(s)
        PROVE  \/ turn[r].window = Rank(r) \div W
               \/ /\ turn[r].window = Untagged
                  /\ \/ ~QuietIn(s)
                     \/ Rank(r) \div W = Cardinality(Stored(s)) \div W
    <3>1. /\ Sliced(s) /\ W \in Nat \ {0} /\ Cardinality(Stored(s)) \in Nat
          /\ Rank(r) \in 0..(Cardinality(Stored(s)) - 1)
      BY <1>1, <2>2, Ranks, StoredIsCounted, BoundsAssumption
      DEF WindowInv, SliceInv
    <3>2. /\ Rank(r) \div W \in Nat /\ Cardinality(Stored(s)) \div W \in Nat
          /\ Rank(r) \div W <= Cardinality(Stored(s)) \div W
      BY <3>1, DivMonotone
    <3>3. QuietIn(s) => Decided(s) = Stored(s)
      BY DEF QuietIn, Decided, Stored, Appending
    <3> QED
      BY <2>2, <3>1, <3>2, <3>3 DEF Sliced
  <2>3. ASSUME NEW s \in Scopes \ upset, NEW w \in DOMAIN windows, w[1] = s
        PROVE  /\ windows[w].summary = fetch_window(s, w[2])
               /\ windows[w].embedding \subseteq {windows[w].summary}
    BY <1>1, <2>3 DEF WindowInv, SliceInv, Summarised
  <2> QED
    BY <2>1, <2>2, <2>3 DEF WindowsAreSlices
<1> QED
  BY <1>1, WindowInvariant, PTL

-----------------------------------------------------------------------------
(* What a prompt leaves out *)

WindowsOf(s) == {w \in DOMAIN windows : w[1] = s}

\* The condition under which every summary is made and listed.
Orderly(s) ==
  /\ case.summarises /\ s \notin upset
  /\ Cardinality(WindowsOf(s)) <= WarmLimit

\* The number of exchanges of a channel when its window i is full.
EndOf(i) == (i + 1) * WindowExchanges

\* Windows are read before rows are added to them: from the first read on, a
\* row in no summary that was read is in a window that was not full before
\* it; and what is missing in the history was tagged.
Covers(r) ==
  /\ run[r].seen <= Cardinality(Stored(Scope(r)))
  /\ /\ Q(r).kind = "dispatch" /\ Orderly(Scope(r))
     /\ run[r].pc = "history" \/ run[r].read
     => \A x \in Stored(Scope(r)) \ run[r].warm :
          turn[x].window = Untagged \/ EndOf(turn[x].window) >= run[r].seen
  /\ run[r].read /\ Scope(r) \notin upset =>
       \A x \in run[r].before \ run[r].history : turn[x].window # Untagged

CoverInv == \A r \in Requests : Covers(r)

\* As many rows are newer as are not older.
LEMMA NewerAndOlder ==
  ASSUME IInv, MemoryInv, NEW s, NEW x \in Stored(s)
  PROVE  /\ Cardinality(Newer(x, Stored(s))) \in Nat
         /\ Cardinality(Newer(x, Stored(s)))
              = Cardinality(Stored(s)) - 1 - Rank(x)
<1> DEFINE S == Stored(s)
           O == Older(x, S)
           N == Newer(x, S)
<1>1. /\ IsFiniteSet(S) /\ Scope(x) = s
      /\ \A z \in S : turn[z].at \in Nat /\ turn[z].at > 0 /\ z \in Requests
  BY StoredIsCounted DEF IInv, Typed, MemoryInv, Stamped, Stored
<1>2. \A z \in S : turn[z].at = turn[x].at => z = x
  BY <1>1 DEF MemoryInv, StampsApart
<1>3. N = S \ (O \union {x}) /\ x \notin O /\ O \subseteq S
  BY <1>1, <1>2 DEF Newer, Older
<1>4. IsFiniteSet(O) /\ Rank(x) = Cardinality(O)
  BY <1>1, <1>3, FS_Subset DEF Rank
<1> HIDE DEF S, O, N
<1>5. /\ IsFiniteSet(O \union {x})
      /\ Cardinality(O \union {x}) = Cardinality(O) + 1
  BY <1>3, <1>4, FS_AddElement
<1>6. S \cap (O \union {x}) = O \union {x}
  BY <1>3 DEF S
<1>7. IsFiniteSet(N) /\ Cardinality(N) = Cardinality(S) - Cardinality(O \union {x})
  <2>1. PICK T : T = O \union {x}
    OBVIOUS
  <2>2. N = S \ T /\ S \cap T = T
    BY <1>3, <1>6, <2>1
  <2>3. /\ IsFiniteSet(S \ T)
        /\ Cardinality(S \ T) = Cardinality(S) - Cardinality(S \cap T)
    BY <1>1, FS_Difference
  <2> QED
    BY <2>1, <2>2, <2>3
<1>8. Cardinality(N) \in Nat /\ Cardinality(S) \in Nat /\ Cardinality(O) \in Nat
  BY <1>1, <1>4, <1>7, FS_CardinalityType
<1>9. /\ Cardinality(N) \in Nat /\ Cardinality(N) = Cardinality(S) - 1 - Rank(x)
  BY <1>4, <1>5, <1>7, <1>8
<1> QED
  BY <1>9 DEF S, N

\* At most the append under way is not finished.
LEMMA FinishedCount ==
  ASSUME IInv, MemoryInv, TagInv, NEW s, SliceInv(s)
  PROVE  /\ Cardinality(Finished(s)) \in Nat /\ Cardinality(Decided(s)) \in Nat
         /\ Cardinality(Stored(s)) \in Nat
         /\ Cardinality(Finished(s)) <= Cardinality(Decided(s))
         /\ Cardinality(Finished(s)) <= Cardinality(Stored(s))
         /\ Cardinality(Finished(s)) >= Cardinality(Stored(s)) - 1
<1>0. Cardinality(Stored(s)) \in Nat
  BY StoredIsCounted
<1>1. CASE \E r \in Stored(s) : run[r].pc \in Closing
  <2>1. PICK r \in Stored(s) : run[r].pc \in Closing
    BY <1>1
  <2>2. /\ Finished(s) = Stored(s) \ {r}
        /\ Decided(s) = Stored(s) \ {r} \/ Decided(s) = Stored(s)
        /\ Cardinality(Stored(s) \ {r}) = Cardinality(Stored(s)) - 1
        /\ Cardinality(Stored(s)) > 0
    BY <2>1, OnlyAppend DEF SliceInv
  <2> QED
    BY <1>0, <2>2
<1>2. CASE ~\E r \in Stored(s) : run[r].pc \in Closing
  <2>1. Finished(s) = Stored(s) /\ Decided(s) = Stored(s)
    BY <1>2 DEF Finished, Decided, Closing
  <2> QED
    BY <1>0, <2>1
<1> QED
  BY <1>1, <1>2

\* A channel has finitely many windows.
LEMMA WindowsAreFinite ==
  ASSUME IInv, MemoryInv, TagInv, NEW s, SliceInv(s)
  PROVE  IsFiniteSet(WindowsOf(s)) /\ Cardinality(WindowsOf(s)) \in Nat
<1>1. PICK k \in Nat : k = Cardinality(Decided(s)) \div WindowExchanges
  <2>1. Cardinality(Decided(s)) \in Nat
    BY FinishedCount
  <2> QED
    BY <2>1, BoundsAssumption, DivMonotone
<1>2. \A w \in WindowsOf(s) : w \in Scopes \X Nat /\ w[1] = s /\ w[2] \in 0..k
  BY <1>1 DEF WindowsOf, TagInv, SliceInv, Summarised
<1> DEFINE g == [w \in WindowsOf(s) |-> w[2]]
<1>3. g \in [WindowsOf(s) -> 0..k]
  BY <1>2
<1>4. \A v, w \in WindowsOf(s) : g[v] = g[w] => v = w
  BY <1>2
<1> HIDE DEF g
<1>5. g \in Injection(WindowsOf(s), 0..k)
  BY <1>3, <1>4 DEF Injection, IsInjective
<1>6. IsFiniteSet(0..k)
  BY FS_Interval
<1>7. IsFiniteSet(WindowsOf(s))
  BY <1>5, <1>6, FS_Injection
<1> QED
  BY <1>7, FS_CardinalityType

\* list_windows returns every window while there are no more than its LIMIT.
LEMMA AllWindowsListed ==
  ASSUME IInv, MemoryInv, TagInv, NEW s, SliceInv(s),
         Cardinality(WindowsOf(s)) <= WarmLimit
  PROVE  list_windows(s) = WindowsOf(s)
<1>1. IsFiniteSet(WindowsOf(s)) /\ Cardinality(WindowsOf(s)) \in Nat
  BY WindowsAreFinite
<1>2. WarmLimit \in Nat
  BY BoundsAssumption
<1>3. ASSUME NEW w \in WindowsOf(s)
      PROVE  Cardinality({v \in DOMAIN windows : v[1] = s /\ v[2] < w[2]})
               < WarmLimit
  <2> DEFINE T == {v \in DOMAIN windows : v[1] = s /\ v[2] < w[2]}
  <2>1. w[2] \in Nat
    BY <1>3 DEF WindowsOf, TagInv
  <2>2. T \in SUBSET WindowsOf(s) /\ w \notin T
    BY <2>1 DEF WindowsOf
  <2> HIDE DEF T
  <2>3. /\ IsFiniteSet(T) /\ Cardinality(T) <= Cardinality(WindowsOf(s))
        /\ Cardinality(WindowsOf(s)) = Cardinality(T) => WindowsOf(s) = T
    BY <1>1, <2>2, FS_Subset
  <2>4. Cardinality(T) \in Nat /\ Cardinality(T) # Cardinality(WindowsOf(s))
    BY <1>3, <2>2, <2>3, FS_CardinalityType
  <2>5. Cardinality(T) < WarmLimit
    BY <1>1, <1>2, <2>3, <2>4
  <2> QED
    BY <2>5 DEF T
<1> QED
  BY <1>3 DEF list_windows, WindowsOf

\* A row that list_turns leaves out is older than a whole window of others, so
\* its own window was closed by the append that completed it.
LEMMA LeftOutIsTagged ==
  ASSUME WindowExchanges <= MaxExchanges,
         IInv, MemoryInv, TagInv, NEW s, SliceInv(s),
         NEW x \in Stored(s) \ list_turns(s)
  PROVE  turn[x].window # Untagged
<1> DEFINE W == WindowExchanges
           n == Cardinality(Stored(s))
           m == Cardinality(Finished(s))
           d == Cardinality(Decided(s))
           i == Rank(x) \div W
<1>1. W \in Nat \ {0} /\ MaxExchanges \in Nat /\ W <= MaxExchanges
  BY BoundsAssumption
<1>2. /\ m \in Nat /\ d \in Nat /\ n \in Nat /\ m <= d /\ m >= n - 1
  BY FinishedCount
<1>3. /\ Cardinality(Newer(x, Stored(s))) \in Nat
      /\ Cardinality(Newer(x, Stored(s))) = n - 1 - Rank(x)
  BY NewerAndOlder
<1>4. Rank(x) \in 0..(n - 1)
  BY Ranks
<1>5. n - 1 - Rank(x) >= MaxExchanges
  BY <1>1, <1>3 DEF list_turns
<1> HIDE DEF n, m, d
<1>6. Rank(x) \in Nat /\ d >= Rank(x) + W
  BY <1>1, <1>2, <1>4, <1>5 DEF W
<1>7. /\ i \in Nat /\ d \div W \in Nat /\ i < d \div W
  <2>1. i \in Nat /\ i * W <= Rank(x) /\ d \div W \in Nat
    BY <1>1, <1>2, <1>6
  <2>2. (i + 1) * W = i * W + W /\ i * W \in Nat
    BY <1>1, <2>1
  <2>3. i + 1 \in Nat /\ d >= (i + 1) * W
    <3>1. PICK t \in Nat : t = i * W
      BY <2>2
    <3>2. (i + 1) * W = t + W /\ t <= Rank(x)
      BY <2>1, <2>2, <3>1
    <3> HIDE DEF i
    <3>3. d >= t + W
      BY <1>1, <1>2, <1>6, <3>2
    <3> QED
      BY <2>1, <3>2, <3>3
  <2>4. d \div W >= i + 1 <=> d >= (i + 1) * W
    BY <1>1, <1>2, <2>3, DivAtLeast
  <2> HIDE DEF i
  <2> QED
    BY <2>1, <2>3, <2>4
<1>8. turn[x].window = i
  BY <1>7 DEF SliceInv, Sliced, d
<1> QED
  BY <1>7, <1>8 DEF Untagged

\* A row that is in no summary of the channel is in the last full window, or
\* behind it.
LEMMA UnsummarisedIsNew ==
  ASSUME IInv, MemoryInv, TagInv, NEW s, SliceInv(s), Orderly(s),
         NEW x \in Stored(s), turn[x].window # Untagged,
         \A w \in list_windows(s) : x \notin windows[w].summary
  PROVE  EndOf(turn[x].window) >= Cardinality(Stored(s))
<1> DEFINE W == WindowExchanges
           n == Cardinality(Stored(s))
           m == Cardinality(Finished(s))
<1>1. W \in Nat \ {0} /\ m \in Nat /\ n \in Nat /\ m >= n - 1
  BY FinishedCount, BoundsAssumption
<1>2. PICK i \in Nat : turn[x].window = i
  <2>1. Rank(x) \in 0..(n - 1)
    BY Ranks
  <2>2. Rank(x) \div W \in Nat
    BY <1>1, <2>1
  <2> QED
    BY <2>2 DEF SliceInv, Sliced
<1> HIDE DEF n, m
<1>3. ASSUME i < m \div W PROVE FALSE
  <2>1. i \in 0..((m \div W) - 1)
    BY <1>1, <1>3
  <2>2. PICK w : w = <<s, i>>
    OBVIOUS
  <2>3. w \in DOMAIN windows /\ w[1] = s /\ w[2] = i
    BY <2>1, <2>2 DEF SliceInv, Complete, Orderly, m
  <2>4. windows[w].summary = fetch_window(s, i)
    BY <2>3 DEF SliceInv, Summarised
  <2>5. w \in list_windows(s)
    BY <2>3, AllWindowsListed DEF Orderly, WindowsOf
  <2>6. x \in fetch_window(s, i)
    BY <1>2 DEF fetch_window
  <2> QED
    BY <2>4, <2>5, <2>6
<1>4. m \div W \in Nat /\ ~(m \div W >= i + 1)
  BY <1>1, <1>3
<1>5. i + 1 \in Nat /\ (m \div W >= i + 1 <=> m >= (i + 1) * W)
  BY <1>1, DivAtLeast
<1>6. (i + 1) * W \in Nat
  BY <1>1, <1>5
<1>7. (i + 1) * W >= n
  BY <1>1, <1>4, <1>5, <1>6
<1> QED
  BY <1>2, <1>7 DEF EndOf, n

\* What a step leaves of the two tiers of a prompt.
TiersKept(x) ==
  /\ run'[x].warm = run[x].warm /\ run'[x].seen = run[x].seen
  /\ Q(x).kind = "dispatch" /\ run'[x].pc = "history" => run[x].pc = "history"
  /\ run'[x].read => /\ run[x].read /\ run'[x].before = run[x].before
                     /\ run'[x].history = run[x].history

\* What a step may do to the window of a row: a tag stays, and in an orderly
\* channel a new one is of the window that all rows of the channel complete.
Tagging(z) ==
  /\ turn[z].window # Untagged => turn'[z].window = turn[z].window
  /\ turn'[z].window # turn[z].window =>
       \/ Scope(z) \in upset
       \/ EndOf(turn'[z].window) = Cardinality(Stored(Scope(z)))

\* Fewer windows than the LIMIT now, so fewer before.
LEMMA OrderlyBefore ==
  ASSUME IInv, MemoryInv, WindowInv,
         UNCHANGED case, upset \subseteq upset',
         NEW v, DOMAIN windows \subseteq DOMAIN windows',
         DOMAIN windows' \subseteq DOMAIN windows \union {v},
         NEW s \in Scopes, Orderly(s)'
  PROVE  Orderly(s)
<1>1. s \notin upset /\ case.summarises
  BY DEF Orderly
<1>2. SliceInv(s)
  BY <1>1 DEF WindowInv
<1>3. IsFiniteSet(WindowsOf(s)) /\ Cardinality(WindowsOf(s)) \in Nat
  BY <1>2, WindowsAreFinite DEF WindowInv
<1>4. IsFiniteSet(WindowsOf(s) \union {v})
  BY <1>3, FS_AddElement
<1>5. /\ WindowsOf(s)' \in SUBSET (WindowsOf(s) \union {v})
      /\ WindowsOf(s) \in SUBSET (WindowsOf(s)')
  BY DEF WindowsOf
<1>6. IsFiniteSet(WindowsOf(s)')
  BY <1>4, <1>5, FS_Subset
<1>7. /\ Cardinality(WindowsOf(s)') \in Nat
      /\ Cardinality(WindowsOf(s)) <= Cardinality(WindowsOf(s)')
  BY <1>5, <1>6, FS_Subset, FS_CardinalityType
<1>8. Cardinality(WindowsOf(s)') <= WarmLimit /\ WarmLimit \in Nat
  BY BoundsAssumption DEF Orderly
<1>9. Cardinality(WindowsOf(s)) <= WarmLimit
  BY <1>3, <1>7, <1>8
<1> QED
  BY <1>1, <1>9 DEF Orderly

\* A step that reads neither tier keeps what the prompt may miss.
LEMMA CoversKept ==
  ASSUME IInv, MemoryInv, WindowInv,
         UNCHANGED case, upset \subseteq upset',
         NEW v, DOMAIN windows \subseteq DOMAIN windows',
         DOMAIN windows' \subseteq DOMAIN windows \union {v},
         \A z \in Requests : RowKept(z) /\ Tagging(z),
         NEW x \in Requests, Covers(x), TiersKept(x)
  PROVE  Covers(x)'
<1>1. PICK s \in Scopes : s = Scope(x) /\ s = Scope(x)'
  BY CasesAssumption DEF Scope, Q, IInv, Typed
<1>2. /\ run'[x].seen = run[x].seen /\ run'[x].warm = run[x].warm
      /\ run[x].seen \in Nat
  BY DEF TiersKept, IInv, Typed, RunState
<1>3. /\ Cardinality(Stored(s)) \in Nat /\ Cardinality(Stored(s)') \in Nat
      /\ Cardinality(Stored(s)) <= Cardinality(Stored(s)')
  <2>1. Stored(s) \in SUBSET (Stored(s)') /\ Stored(s)' \in SUBSET Requests
    BY StoreGrows DEF Stored
  <2>2. IsFiniteSet(Stored(s)') /\ Cardinality(Stored(s)) \in Nat
    BY <2>1, BoundsAssumption, FS_Subset, StoredIsCounted
  <2> QED
    BY <2>1, <2>2, FS_Subset, FS_CardinalityType
<1>4. run[x].seen <= Cardinality(Stored(s))
  BY <1>1 DEF Covers
<1>5. run'[x].seen <= Cardinality(Stored(s)')
  BY <1>2, <1>3, <1>4
<1>6. ASSUME Q(x).kind = "dispatch", Orderly(s)',
             run'[x].pc = "history" \/ run'[x].read,
             NEW z \in Stored(s)' \ run'[x].warm, turn'[z].window # Untagged
      PROVE  EndOf(turn'[z].window) >= run'[x].seen
  <2>1. Orderly(s)
    BY <1>6, OrderlyBefore
  <2>2. run[x].pc = "history" \/ run[x].read
    BY <1>6 DEF TiersKept
  <2>3. z \in Requests /\ Scope(z) = s /\ Tagging(z)
    BY <1>6 DEF Stored, Scope, Q
  <2>4. CASE turn'[z].window = turn[z].window
    <3>1. turn[z].stored
      BY <1>6, <2>3, <2>4 DEF WindowInv, TagInv, Closes
    <3>2. z \in Stored(s) \ run[x].warm
      BY <1>2, <1>6, <2>3, <3>1 DEF Stored
    <3>3. EndOf(turn[z].window) >= run[x].seen
      BY <1>1, <1>6, <2>1, <2>2, <2>4, <3>2 DEF Covers
    <3> QED
      BY <1>2, <2>4, <3>3
  <2>5. CASE turn'[z].window # turn[z].window
    <3>1. EndOf(turn'[z].window) = Cardinality(Stored(s))
      BY <2>1, <2>3, <2>5 DEF Tagging, Orderly
    <3> QED
      BY <1>2, <1>3, <1>4, <3>1
  <2> QED
    BY <2>4, <2>5
<1>7. ASSUME run'[x].read, s \notin upset',
             NEW z \in run'[x].before \ run'[x].history
      PROVE  turn'[z].window # Untagged
  <2>1. /\ run[x].read /\ s \notin upset /\ z \in run[x].before \ run[x].history
    BY <1>7 DEF TiersKept
  <2>2. turn[z].window # Untagged
    BY <1>1, <2>1 DEF Covers
  <2>3. z \in Requests
    BY <2>1 DEF IInv, Typed, RunState
  <2> QED
    BY <2>2, <2>3 DEF Tagging
<1>8. /\ Q(x)' = Q(x) /\ Stored(Scope(x))' = Stored(s)'
      /\ Orderly(Scope(x))' = Orderly(s)'
  BY <1>1 DEF Q, Stored, Orderly, WindowsOf
<1>9. \A z \in Stored(s)' : EndOf(turn[z].window)' = EndOf(turn'[z].window)
  BY DEF EndOf
<1> QED
  BY <1>1, <1>5, <1>6, <1>7, <1>8, <1>9 DEF Covers

\* The tagging closes the window that the rows of the channel complete.
LEMMA TagIsLast ==
  ASSUME IInv, MemoryInv, WindowInv, NEW r \in Requests, Tag(r)
  PROVE  \A z \in Requests : RowKept(z) /\ Tagging(z)
<1>1. /\ turn \in [Requests -> [stored : BOOLEAN, at : Nat, window : Int]]
      /\ run[r].pc \in Closing \ {"count"} /\ TagInv
  BY DEF IInv, Typed, Tag, Closing, WindowInv
<1>2. PICK i \in Nat : i = CompletedWindow(run[r].total)
  BY <1>1, CompletedWindowIsNat
<1>3. PICK s \in Scopes : s = Scope(r)
  BY CasesAssumption DEF Scope, Q, IInv, Typed
<1>4. PICK rows : rows = OldestUntagged(s)
  OBVIOUS
<1>5. \A z \in rows : Scope(z) = s /\ turn[z].window = Untagged
  BY <1>4 DEF OldestUntagged, Stored
<1>6. \/ UNCHANGED turn
      \/ turn' = [z \in Requests |->
           IF z \in rows THEN [turn[z] EXCEPT !.window = i] ELSE turn[z]]
  BY <1>2, <1>3, <1>4 DEF Tag
<1>7. \A z \in Requests :
        /\ turn'[z].stored = turn[z].stored /\ turn'[z].at = turn[z].at
        /\ \/ turn'[z].window = turn[z].window
           \/ z \in rows /\ turn'[z].window = i
  BY <1>1, <1>6
<1>8. s \in upset \/ EndOf(i) = Cardinality(Stored(s))
  <2>1. SUFFICES ASSUME s \notin upset PROVE EndOf(i) = Cardinality(Stored(s))
    OBVIOUS
  <2>2. run[r].total = Cardinality(Stored(s))
    BY <1>1, <1>3, <2>1 DEF WindowInv, SliceInv, ClosesLast
  <2>3. PICK n \in Nat : /\ n = run[r].total /\ n > 0
                         /\ n % WindowExchanges = 0
    BY <1>1 DEF IInv, Typed, RunState, TagInv, Closes
  <2>4. WindowExchanges \in Nat \ {0}
    BY BoundsAssumption
  <2>5. /\ n \div WindowExchanges \in Nat
        /\ (n \div WindowExchanges) * WindowExchanges = n
    BY <2>3, <2>4, FullWindows
  <2>6. i + 1 = n \div WindowExchanges
    BY <1>2, <2>3, <2>5 DEF CompletedWindow
  <2> QED
    BY <2>2, <2>3, <2>5, <2>6 DEF EndOf
<1>9. ASSUME NEW z \in Requests PROVE RowKept(z) /\ Tagging(z)
  <2>1. CASE turn'[z].window = turn[z].window
    BY <1>7, <2>1 DEF RowKept, Tagging
  <2>2. CASE z \in rows /\ turn'[z].window = i
    BY <1>5, <1>7, <1>8, <2>2 DEF RowKept, Tagging
  <2> QED
    BY <1>7, <2>1, <2>2
<1> QED
  BY <1>9

\* After the reads, no step of a request changes what it read.
LEMMA TiersFrame ==
  ASSUME IInv, NEW r \in Requests,
         \/ Route(r) \/ Post(r) \/ Advise(r) \/ Served(r) \/ Settle(r)
         \/ RecordUsage(r) \/ Validate(r) \/ Stamp(r) \/ Insert(r) \/ Count(r)
         \/ Tag(r) \/ Fetch(r) \/ StoreSummary(r) \/ Crash(r)
  PROVE  TiersKept(r)
<1>1. run \in [Requests -> RunState] /\ run[r] \in RunState
  BY DEF IInv, Typed
<1>2. ASSUME NEW l \in Steps \ {"history"}, Goto(r, l) PROVE TiersKept(r)
  BY <1>1, <1>2 DEF Goto, RunState, TiersKept
<1>3. ASSUME NEW res, End(r, res) PROVE TiersKept(r)
  BY <1>1, <1>3 DEF End, RunState, TiersKept
<1> USE DEF Steps, Appending
<1>4. CASE Served(r)
  BY <1>2, <1>3, <1>4 DEF Served
<1>5. CASE \/ Route(r) \/ Post(r) \/ Advise(r) \/ Settle(r)
           \/ RecordUsage(r) \/ Validate(r)
  <2>1. PICK R : /\ run' = [run EXCEPT ![r] = R] /\ SameReads(R, run[r])
                 /\ R.pc \in Called
    BY <1>5, CallKeepsReads
  <2>2. R.pc # "history"
    BY <2>1 DEF Called
  <2>3. run'[r] = R
    <3>1. DOMAIN run = Requests /\ run' = [run EXCEPT ![r] = R]
      BY <1>1, <2>1
    <3> QED
      BY <3>1
  <2> QED
    BY <2>1, <2>2, <2>3 DEF SameReads, TiersKept
<1>8. CASE Stamp(r) \/ Insert(r) \/ Tag(r) \/ StoreSummary(r) \/ Crash(r)
  BY <1>2, <1>3, <1>8
  DEF Stamp, Insert, AppendFails, Tag, StoreSummary, Crash
<1>9. CASE Count(r) \/ Fetch(r)
  BY <1>1, <1>2, <1>3, <1>9 DEF Count, Fetch, AppendFails, RunState, TiersKept
<1> QED
  BY <1>4, <1>5, <1>8, <1>9

\* Before the reads there is nothing to miss.
LEMMA NothingRead ==
  ASSUME IInv, MemoryInv, NEW r \in Requests,
         \/ AskAgent(r) \/ Dispatch(r) \/ ToolCommand(r) \/ Guards(r)
         \/ ResolveGrounding(r)
  PROVE  TiersKept(r)
<1>1. run \in [Requests -> RunState] /\ run[r] \in RunState
  BY DEF IInv, Typed
<1>2. ~run[r].read
  BY DEF MemoryInv, PromptIsStored, Reading, AskAgent, Dispatch, ToolCommand,
    Guards, ResolveGrounding
<1>3. /\ run'[r].read = run[r].read /\ run'[r].warm = run[r].warm
      /\ run'[r].seen = run[r].seen
  BY <1>1 DEF AskAgent, Dispatch, ToolCommand, Guards, ResolveGrounding, Goto,
    End, RunState
<1>4. Q(r).kind = "dispatch" => run'[r].pc # "history"
  BY <1>1 DEF AskAgent, Dispatch, ToolCommand, Guards, ResolveGrounding, Goto,
    End, RunState
<1> QED
  BY <1>2, <1>3, <1>4 DEF TiersKept

\* The first read: the summaries.
LEMMA ReadWindowsCovers ==
  ASSUME IInv, MemoryInv, WindowInv,
         NEW r \in Requests, Covers(r), ReadWindows(r)
  PROVE  Covers(r)'
<1>1. /\ run \in [Requests -> RunState] /\ run[r] \in RunState
      /\ run[r].pc = "windows" /\ UNCHANGED <<case, turn, windows, upset>>
  BY DEF IInv, Typed, ReadWindows, StoreUnchanged
<1>2. PICK s \in Scopes : s = Scope(r) /\ s = Scope(r)'
  BY <1>1, CasesAssumption DEF Scope, Q, IInv, Typed
<1>3. ~run[r].read /\ run'[r].read = run[r].read
  BY <1>1, PromptFrame DEF MemoryInv, PromptIsStored, Reading, PromptKept
<1>4. /\ Stored(Scope(r))' = Stored(s) /\ Orderly(Scope(r))' = Orderly(s)
      /\ Q(r)' = Q(r)
  BY <1>1, <1>2 DEF Stored, Scope, Q, Orderly, WindowsOf
<1>5. CASE End(r, "raised")
  <2>1. run'[r].pc = "done" /\ run'[r].seen = run[r].seen
    BY <1>1, <1>5 DEF End, RunState
  <2> QED
    BY <1>2, <1>3, <1>4, <2>1 DEF Covers
<1>6. CASE ~End(r, "raised")
  <2> DEFINE U == UNION {windows[w].summary : w \in list_windows(s)}
  <2>1. run' = [run EXCEPT ![r].pc = "history", ![r].warm = U,
                           ![r].seen = Cardinality(Stored(s))]
    BY <1>2, <1>6 DEF ReadWindows
  <2>2. ASSUME Orderly(s), NEW x \in Stored(s) \ U, turn[x].window # Untagged
        PROVE  EndOf(turn[x].window) >= Cardinality(Stored(s))
    <3>1. \A w \in list_windows(s) : x \notin windows[w].summary
      BY <2>2
    <3>2. TagInv /\ SliceInv(s)
      BY <2>2 DEF WindowInv, Orderly
    <3> QED
      BY <2>2, <3>1, <3>2, UnsummarisedIsNew
  <2> HIDE DEF U
  <2>3. run'[r].warm = U /\ run'[r].seen = Cardinality(Stored(s))
    BY <1>1, <2>1 DEF RunState
  <2>4. Cardinality(Stored(s)) \in Nat
    BY StoredIsCounted
  <2>5. \A x \in Stored(s) : EndOf(turn[x].window)' = EndOf(turn[x].window)
    BY <1>1 DEF EndOf
  <2> QED
    BY <1>1, <1>3, <1>4, <2>2, <2>3, <2>4, <2>5 DEF Covers
<1> QED
  BY <1>5, <1>6

\* The second read: the newest rows.
LEMMA ReadHistoryCovers ==
  ASSUME WindowExchanges <= MaxExchanges, IInv, MemoryInv, WindowInv,
         NEW r \in Requests, Covers(r), ReadHistory(r)
  PROVE  Covers(r)'
<1>1. /\ run \in [Requests -> RunState] /\ run[r] \in RunState
      /\ run[r].pc = "history" /\ UNCHANGED <<case, turn, windows, upset>>
  BY DEF IInv, Typed, ReadHistory, StoreUnchanged
<1>2. PICK s \in Scopes : s = Scope(r) /\ s = Scope(r)'
  BY <1>1, CasesAssumption DEF Scope, Q, IInv, Typed
<1>3. ~run[r].read /\ run[r].before \subseteq Stored(s)
  BY <1>1, <1>2 DEF MemoryInv, PromptIsStored, Reading
<1>4. /\ Stored(Scope(r))' = Stored(s) /\ Orderly(Scope(r))' = Orderly(s)
      /\ Q(r)' = Q(r)
      /\ \A x \in Stored(s) : EndOf(turn[x].window)' = EndOf(turn[x].window)
  BY <1>1, <1>2 DEF Stored, Scope, Q, Orderly, WindowsOf, EndOf
<1>5. CASE Goto(r, "gateway") \/ End(r, "raised")
  <2>1. /\ run'[r].read = run[r].read /\ run'[r].pc # "history"
        /\ run'[r].seen = run[r].seen
    BY <1>1, <1>5 DEF Goto, End, RunState
  <2> QED
    BY <1>2, <1>3, <1>4, <2>1 DEF Covers
<1>6. CASE run' = [run EXCEPT ![r].pc = "gateway",
                              ![r].history = list_turns(Scope(r)),
                              ![r].read = TRUE]
  <2>1. /\ run'[r].history = list_turns(s) /\ run'[r].before = run[r].before
        /\ run'[r].warm = run[r].warm /\ run'[r].seen = run[r].seen
    <3>1. PICK h : h = list_turns(s)
      OBVIOUS
    <3>2. run' = [run EXCEPT ![r].pc = "gateway", ![r].history = h,
                             ![r].read = TRUE]
      BY <1>2, <1>6, <3>1
    <3> QED
      BY <1>1, <3>1, <3>2 DEF RunState
  <2>2. ASSUME s \notin upset, NEW x \in run[r].before \ list_turns(s)
        PROVE  turn[x].window # Untagged
    <3>1. TagInv /\ SliceInv(s)
      BY <2>2 DEF WindowInv
    <3>2. x \in Stored(s) \ list_turns(s)
      BY <1>3
    <3> QED
      BY <3>1, <3>2, LeftOutIsTagged
  <2> QED
    BY <1>1, <1>2, <1>4, <2>1, <2>2 DEF Covers
<1> QED
  BY <1>5, <1>6 DEF ReadHistory

\* Every step keeps what prompts may miss.
LEMMA StepCovers ==
  ASSUME WindowExchanges <= MaxExchanges, IInv, MemoryInv, WindowInv, CoverInv,
         [Next]_vars
  PROVE  CoverInv'
<1>1. UNCHANGED case /\ upset \subseteq upset'
  BY DEF Next, vars, StoreUnchanged, AskAgent, Dispatch, ToolCommand, Guards,
    ResolveGrounding, ReadWindows, ReadHistory, Route, Post, Advise, Served,
    Settle, RecordUsage, Validate, Stamp, Insert, Count, Tag, Fetch,
    StoreSummary, Embed, Crash
<1>2. ASSUME NEW r \in Requests,
             \/ AskAgent(r) \/ Dispatch(r) \/ ToolCommand(r) \/ Guards(r)
             \/ ResolveGrounding(r) \/ ReadWindows(r) \/ ReadHistory(r)
             \/ Route(r) \/ Post(r) \/ Advise(r) \/ Served(r)
             \/ Settle(r) \/ RecordUsage(r) \/ Validate(r)
      PROVE  CoverInv'
  <2>1. /\ UNCHANGED <<turn, windows>>
        /\ \A x \in Requests \ {r} : run'[x] = run[x]
    BY <1>2, OutsideAppends
  <2>2. \A z \in Requests : RowKept(z) /\ Tagging(z)
    BY <2>1 DEF RowKept, Tagging
  <2>3. ASSUME NEW x \in Requests, TiersKept(x) PROVE Covers(x)'
    BY <1>1, <2>1, <2>2, <2>3, CoversKept DEF CoverInv
  <2>4. \A x \in Requests \ {r} : TiersKept(x)
    BY <2>1 DEF TiersKept
  <2>5. Covers(r)'
    BY <1>2, <2>3, TiersFrame, NothingRead, ReadWindowsCovers, ReadHistoryCovers
    DEF CoverInv
  <2> QED
    BY <2>3, <2>4, <2>5 DEF CoverInv
<1>3. ASSUME NEW r \in Requests,
             \/ Stamp(r) \/ Insert(r) \/ Count(r) \/ Tag(r) \/ Fetch(r)
             \/ StoreSummary(r) \/ Crash(r)
      PROVE  CoverInv'
  <2>1. \A x \in Requests \ {r} : run'[x] = run[x]
    BY <1>3, OthersKept
  <2>2. \A x \in Requests : TiersKept(x)
    BY <1>3, <2>1, TiersFrame DEF TiersKept
  <2>3. \A z \in Requests : RowKept(z) /\ Tagging(z)
    <3>1. turn \in [Requests -> [stored : BOOLEAN, at : Nat, window : Int]]
      BY DEF IInv, Typed
    <3>2. CASE Stamp(r)
      BY <3>1, <3>2 DEF Stamp, RowKept, Tagging, IInv, Phase, Ordered
    <3>3. CASE Insert(r)
      BY <3>1, <3>3 DEF Insert, RowKept, Tagging
    <3>4. CASE Tag(r)
      BY <3>4, TagIsLast
    <3>5. CASE Count(r) \/ Fetch(r) \/ StoreSummary(r) \/ Crash(r)
      BY <3>5 DEF Count, Fetch, StoreSummary, Crash, RowKept, Tagging
    <3> QED
      BY <1>3, <3>2, <3>3, <3>4, <3>5
  <2>4. PICK v : /\ DOMAIN windows \subseteq DOMAIN windows'
                 /\ DOMAIN windows' \subseteq DOMAIN windows \union {v}
    BY <1>3 DEF Stamp, Insert, Count, Tag, Fetch, StoreSummary, Crash,
      OnConflictNothing
  <2>5. ASSUME NEW x \in Requests PROVE Covers(x)'
    BY <1>1, <2>2, <2>3, <2>4, CoversKept DEF CoverInv
  <2> QED
    BY <2>5 DEF CoverInv
<1>4. ASSUME UNCHANGED <<run, turn>>, DOMAIN windows' = DOMAIN windows
      PROVE  CoverInv'
  <2>1. \A x \in Requests : RowKept(x) /\ Tagging(x) /\ TiersKept(x)
    BY <1>4 DEF RowKept, Tagging, TiersKept
  <2> QED
    BY <1>1, <1>4, <2>1, CoversKept DEF CoverInv
<1>5. ASSUME NEW e \in embeds, Embed(e) PROVE CoverInv'
  BY <1>4, <1>5 DEF Embed
<1>6. ASSUME UNCHANGED vars PROVE CoverInv'
  BY <1>4, <1>6 DEF vars
<1> QED
  BY <1>2, <1>3, <1>5, <1>6 DEF Next

\* max_turns is no less than window_size (both are 40), so in a channel whose
\* appends neither overlap nor fail a prompt leaves out only exchanges whose
\* window is closed, whether or not windows are summarised.  With a
\* summarize_fn, and while list_windows returns every window, what the worker
\* has in neither tier was not in a full window before the one that the store
\* had just filled when it read the summaries: rows that others add between
\* its two reads cost it that much and no more.
THEOREM LeftOutWasClosed ==
  ASSUME WindowExchanges <= MaxExchanges
  PROVE  Spec => []LeftOutIsClosed
<1>1. Init => CoverInv
  <2> SUFFICES ASSUME Init, NEW r \in Requests PROVE Covers(r)
    BY DEF CoverInv
  <2>1. run[r].pc \in {"idle", "done"} /\ ~run[r].read /\ run[r].seen = 0
    <3>1. PICK R : R = [Start EXCEPT !.pc = "done", !.decision = "served",
                                     !.result = "answered"]
      OBVIOUS
    <3>2. /\ R.pc = "done" /\ Start.pc = "idle" /\ ~R.read /\ ~Start.read
          /\ R.seen = 0 /\ Start.seen = 0
      BY <3>1 DEF Start
    <3>3. run[r] = R \/ run[r] = Start
      BY <3>1 DEF Init
    <3> QED
      BY <3>2, <3>3
  <2>2. Cardinality(Stored(Scope(r))) \in Nat
    BY StoredIsCounted
  <2> QED
    BY <2>1, <2>2 DEF Covers
<1>2. IInv /\ MemoryInv /\ WindowInv /\ CoverInv /\ [Next]_vars => CoverInv'
  BY StepCovers
<1>3. IInv /\ MemoryInv /\ CoverInv => LeftOutIsClosed
  <2> SUFFICES ASSUME MemoryInv, CoverInv, NEW r \in Requests,
                      run[r].read, Scope(r) \notin upset,
                      NEW x \in run[r].before \ run[r].history
               PROVE  /\ turn[x].window # Untagged
                      /\ /\ Q(r).kind = "dispatch" /\ case.summarises
                         /\ x \notin run[r].warm
                         /\ Cardinality(WindowsOf(Scope(r))) <= WarmLimit
                         => EndOf(turn[x].window) >= run[r].seen
    BY DEF LeftOutIsClosed, WindowsOf, EndOf
  <2>1. x \in Stored(Scope(r))
    BY DEF MemoryInv, PromptIsStored
  <2>2. Covers(r)
    BY DEF CoverInv
  <2> QED
    BY <2>1, <2>2 DEF Covers, Orderly
<1> QED
  BY <1>1, <1>2, <1>3, WindowInvariant, PTL DEF Spec

=============================================================================
