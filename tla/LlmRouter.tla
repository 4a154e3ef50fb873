------------------------------ MODULE LlmRouter ------------------------------
(***************************************************************************)
(* LLMRouter.complete with the one live network provider, GeminiProvider,  *)
(* behind it: selection, cost boundary, failover, the pacing gate that all *)
(* instances share, the retry budgets of one call and the cooldown that    *)
(* outlives it.                                                            *)
(*                                                                         *)
(* Callers are concurrent calls on one event loop; an action is the code   *)
(* from one await to the next.  Time is discrete: Tick lets one unit pass, *)
(* and a timer may fire late but never early.                              *)
(***************************************************************************)
EXTENDS Integers, Sequences

CONSTANTS
  Caller,      \* concurrent callers of complete, each one call at a time
  Priority,    \* llmProviderPriority
  Gemini,      \* the provider that paces, retries and cools down
  Healthy,     \* providers whose healthCheck answers true
  Paid,        \* providers with isPaid
  AllowPaid,   \* config.allowPaidProviders
  Cost,        \* request.estimatedCost of each caller
  MaxDaily,    \* maxDailySpend
  MaxContent,  \* maxCumulativeCostPerContent, all callers serving one item
  Interval,    \* MIN_REQUEST_INTERVAL_MS
  Backoff,     \* TRANSIENT_BACKOFF_BASE_MS
  RetryAfter,  \* waits the service may ask for
  MaxDelay     \* MAX_TRANSIENT_RETRY_DELAY_MS

Provider == {Priority[n] : n \in DOMAIN Priority}

ASSUME LlmRouterAssumption ==
  /\ {Interval, Backoff} \subseteq Nat \ {0}
  /\ {MaxDelay, MaxDaily, MaxContent} \subseteq Nat /\ RetryAfter \subseteq Nat
  /\ Cost \in [Caller -> Nat] /\ AllowPaid \in BOOLEAN
  /\ Gemini \in Provider /\ Healthy \cup Paid \subseteq Provider

\* The retries left of one provider call: MAX_ATTEMPTS_ON_429 - 1, and the two
\* budgets MAX_RETRIES_ON_TRANSIENT_STATUS and MAX_RETRIES_ON_NETWORK_FAILURE.
Retries == [rate |-> 1, status |-> 2, network |-> 1]

VARIABLES
  pc,       \* idle, invoke, queued, granted, sent or asleep, of each caller
  rest,     \* the eligible providers a call has still to try
  retries,  \* retries left of the provider call in progress
  delay,    \* what is left of a retry sleep
  queue,    \* the FIFO chain behind tail: holders and waiters of the slot
  stamp,    \* time since lastRequestStartedAt, as far as it matters
  silence,  \* history: time since a request really started
  cooling,  \* what is left of cooldownUntilByProvider
  ledger,   \* provider_calls: cost recorded today, and for the item
  invoked   \* history: cost of the calls that were made, likewise

gate == <<queue, stamp, silence>>
budget == <<ledger, invoked>>
routerVars == <<pc, rest, retries, delay, gate, cooling, budget>>

Pc == {"idle", "invoke", "queued", "granted", "sent", "asleep"}
Spend == [today : Nat, content : Nat]

RouterTypeOK ==
  /\ pc \in [Caller -> Pc]
  /\ rest \in [Caller -> Seq(Provider)]
  /\ retries \in [Caller -> [rate : 0..1, status : 0..2, network : 0..1]]
  /\ delay \in [Caller -> Nat]
  /\ queue \in Seq(Caller)
  /\ stamp \in 0..Interval /\ silence \in 0..Interval
  /\ cooling \in Nat
  /\ ledger \in Spend /\ invoked \in Spend

RouterInit ==
  /\ pc = [c \in Caller |-> "idle"]
  /\ rest = [c \in Caller |-> <<>>]
  /\ retries = [c \in Caller |-> Retries]
  /\ delay = [c \in Caller |-> 0]
  /\ queue = <<>> /\ stamp = Interval /\ silence = Interval
  /\ cooling = 0
  /\ ledger = [today |-> 0, content |-> 0] /\ invoked = ledger

Become(c, p) == pc' = [pc EXCEPT ![c] = p]

-----------------------------------------------------------------------------
(* router.js, providerHealth.js and CostTracker.js                         *)

\* Only Gemini ever records a cooldown.
IsEligible(p) ==
  /\ p \in Paid => AllowPaid
  /\ p = Gemini => cooling = 0
  /\ p \in Healthy

\* _selectEligibleProviders; with none the call throws NO_USABLE_PROVIDER.
Select(c) ==
  /\ pc[c] = "idle"
  /\ rest' = [rest EXCEPT ![c] = SelectSeq(Priority, IsEligible)]
  /\ rest'[c] # <<>>
  /\ Become(c, "invoke")
  /\ UNCHANGED <<retries, delay, gate, cooling, budget>>

\* The limits of record; a free call passes, a limit of 0 admits no other.
WithinBudget(c) ==
  Cost[c] > 0 => /\ ledger.today + Cost[c] <= MaxDaily
                 /\ ledger.content + Cost[c] <= MaxContent

Plus(spend, c) == [today |-> spend.today + Cost[c], content |-> spend.content + Cost[c]]

\* Mutant: a call is recorded once, not once for every provider it reaches.
RecordOnce(c) ==
  IF rest[c] = SelectSeq(Priority, IsEligible) THEN Plus(ledger, c) ELSE ledger
Record(c) == Plus(ledger, c)

\* The provider call: recorded before it is made.  A provider that needs no
\* network answers at once; Gemini joins the chain before its first await.
CallProvider(c) ==
  /\ pc[c] = "invoke" /\ rest[c] # <<>>
  /\ WithinBudget(c)
  /\ ledger' = Record(c)
  /\ invoked' = Plus(invoked, c)
  /\ rest' = [rest EXCEPT ![c] = Tail(@)]
  /\ retries' = [retries EXCEPT ![c] = Retries]
  /\ IF Head(rest[c]) = Gemini
     THEN Become(c, "queued") /\ queue' = Append(queue, c)
     ELSE Become(c, "idle") /\ UNCHANGED queue
  /\ UNCHANGED <<delay, stamp, silence, cooling>>

\* BudgetExceededError, or every eligible provider has failed.
GiveUp(c) ==
  /\ pc[c] = "invoke"
  /\ rest[c] = <<>> \/ ~WithinBudget(c)
  /\ Become(c, "idle")
  /\ UNCHANGED <<rest, retries, delay, gate, cooling, budget>>

-----------------------------------------------------------------------------
(* GeminiProvider.js                                                       *)

\* Mutant: a caller looks at the clock without waiting for those before it.
TurnOfAnyone(c) == TRUE
Turn(c) == queue # <<>> /\ Head(queue) = c

\* _acquirePacingSlot resolves: the predecessor has let go, the interval is over.
PassGate(c) ==
  /\ pc[c] = "queued" /\ Turn(c)
  /\ stamp >= Interval
  /\ Become(c, "granted")
  /\ UNCHANGED <<rest, retries, delay, gate, cooling, budget>>

\* markStart and fetch, with nothing in between.
Start(c) ==
  /\ pc[c] = "granted"
  /\ stamp' = 0 /\ silence' = 0
  /\ queue' = Tail(queue)
  /\ Become(c, "sent")
  /\ UNCHANGED <<rest, retries, delay, cooling, budget>>

\* Mutant: the slot is given back by markStart only.
KeepSlot == queue
\* The release in the finally block.
Release == Tail(queue)

\* The attempt throws before fetch: the provider call fails.
Abandon(c) ==
  /\ pc[c] = "granted"
  /\ queue' = Release
  /\ Become(c, "invoke")
  /\ UNCHANGED <<rest, retries, delay, stamp, silence, cooling, budget>>

Answered(c) == pc[c] = "sent" /\ UNCHANGED <<rest, gate, budget>>

\* A completion: the call returns.
Complete(c) ==
  /\ Answered(c)
  /\ Become(c, "idle")
  /\ UNCHANGED <<retries, delay, cooling>>

\* EMPTY_COMPLETION, or a status that is not retried: on to the next provider.
Fail(c) ==
  /\ Answered(c)
  /\ Become(c, "invoke")
  /\ UNCHANGED <<retries, delay, cooling>>

Sleep(c, kind, d) ==
  /\ retries[c][kind] > 0
  /\ retries' = [retries EXCEPT ![c][kind] = @ - 1]
  /\ delay' = [delay EXCEPT ![c] = d]
  /\ Become(c, "asleep")
  /\ UNCHANGED cooling

\* Timeout, abort, network: one retry, after the base of transientBackoffMs.
RetryNetwork(c) == Answered(c) /\ Sleep(c, "network", Backoff)

\* 500, 502, 503, 504: Retry-After, or a backoff that doubles.
RetryStatus(c) ==
  /\ Answered(c)
  /\ \E d \in {Backoff * (3 - retries[c].status)} \cup RetryAfter :
       d <= MaxDelay /\ Sleep(c, "status", d)

\* 429: the wait the service asks for.
RetryRate(c) ==
  /\ Answered(c)
  /\ \E d \in RetryAfter : d <= MaxDelay /\ Sleep(c, "rate", d)

\* recordProviderRateLimit never shortens a cooldown.
Cool(d) == cooling' = IF d > cooling THEN d ELSE cooling

\* A 429 that is not retried: the cooldown, and on to the next provider.
RateLimited(c) ==
  /\ Answered(c)
  /\ \E d \in RetryAfter : (d > MaxDelay \/ retries[c].rate = 0) /\ Cool(d)
  /\ Become(c, "invoke")
  /\ UNCHANGED <<retries, delay>>

\* The retry takes its place at the end of the chain.
Wake(c) ==
  /\ pc[c] = "asleep" /\ delay[c] = 0
  /\ queue' = Append(queue, c)
  /\ Become(c, "queued")
  /\ UNCHANGED <<rest, retries, delay, stamp, silence, cooling, budget>>

Less(n) == IF n > 0 THEN n - 1 ELSE 0
More(n) == IF n < Interval THEN n + 1 ELSE Interval

Tick ==
  /\ delay' = [c \in Caller |-> Less(delay[c])]
  /\ cooling' = Less(cooling)
  /\ stamp' = More(stamp) /\ silence' = More(silence)
  /\ UNCHANGED <<pc, rest, retries, queue, budget>>

\* Midnight: what was spent for the item stays spent.
NewDay ==
  /\ ledger' = [ledger EXCEPT !.today = 0]
  /\ invoked' = [invoked EXCEPT !.today = 0]
  /\ UNCHANGED <<pc, rest, retries, delay, gate, cooling>>

Step(c) ==
  \/ CallProvider(c) \/ GiveUp(c) \/ PassGate(c) \/ Start(c) \/ Abandon(c)
  \/ Complete(c) \/ Fail(c) \/ RetryNetwork(c) \/ RetryStatus(c) \/ RetryRate(c)
  \/ RateLimited(c) \/ Wake(c)

RouterNext == Tick \/ NewDay \/ \E c \in Caller : Select(c) \/ Step(c)

\* A request is answered or aborted by its timer; no caller has to ask again.
RouterSpec == RouterInit /\ [][RouterNext]_routerVars /\ WF_routerVars(Tick) /\ \A c \in Caller : WF_routerVars(Step(c))

-----------------------------------------------------------------------------
(* Properties.                                                             *)

\* The invariant the comment of MIN_REQUEST_INTERVAL_MS states: every request,
\* retries included, starts an interval after the one before it, whoever made
\* either.
RequestsArePaced ==
  [][\A c \in Caller : pc[c] # "sent" /\ pc'[c] = "sent" => silence >= Interval]_routerVars

\* Every call returns, however many wait at the gate, retry or die on the way.
CallsReturn == \A c \in Caller : (pc[c] # "idle") ~> (pc[c] = "idle")

\* With a cost tracker, what has been called for never exceeds the day's limit
\* nor the item's, failovers included.
SpendWithinLimits == invoked.today <= MaxDaily /\ invoked.content <= MaxContent
=============================================================================
