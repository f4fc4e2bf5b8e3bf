# AEP-X core: a verification project in TLA+

This directory holds TLA+ models of the parts of AEP-X that carry its own
logic, TLC configurations that check them on small instances, and theorems
about them that the TLA+ proof system has checked for every value of the
constants. File and line references are to the repository under `src/`.

## 1. The system

AEP-X is a set of FastAPI services. Agents call external systems through one
choke point, the Connector Bus, which asks other services whether a call may
go ahead; every call leaves an event in Kafka; Governance records all events
and seals them in a hash chain; the Brain reads them back and opens or closes
the circuit the Bus obeys. That is one loop:

    agent --> Connector Bus --(trust? policy? circuit?)--> connector service
                   |                              ^
                   | connector.invoked/failed     | open / half_open / closed
                   v                              |
                 Kafka ----> Governance (audit log, anchors) ----> Brain

### 1.1 Inventory

"Sync" and "async" say how handlers run: `async def` handlers share one event
loop and interleave only at `await`; `def` handlers run in a thread pool and
interleave anywhere.

| Component | State it keeps | Operations that change state | Interaction | What is hard | What makes it correct |
|---|---|---|---|---|---|
| connector-bus (`connector-bus/app/main.py`) | catalogue (read once), lazy Kafka producer | `POST /bus/route` (async) | HTTP to Trust, Governance, Brain, one connector service; Kafka out | five awaits per call, each with its own failure policy; at-most-once events; restarts | no ungated call; the audit trail is true, and complete for answered calls; every call is answered |
| governance: audit trail and ledger (`services/governance/app/main.py`, `ledger.py`) | `audit_log`, `ledger_anchors` in Postgres; `_AUDIT_FALLBACK`, `_LEDGER_FALLBACK` in memory | consumer thread: record, anchor; `GET /audit`, `/ledger/*` only read | Kafka in; Postgres; HTTP out to readers | two stores that never meet, re-reading from offset 0 after every reconnect, a swallowed anchor failure | nothing consumed is lost; anchors seal rows in order without gap or overlap; honest history verifies, altered history does not |
| governance: policy | environment (risk ceiling), optional chain | `POST /policy/evaluate` (reads) | HTTP from Bus and Marketplace; RPC to chain | label parsing, the stricter of two ceilings | a label above the ceiling is refused |
| brain: circuit breaker (`services/brain/app/main.py`) | `circuit_state`, `incidents` in Postgres; two fallbacks in memory | monitor thread: one pass per 10 s; `GET /brain/circuit/{c}` reads | HTTP to Governance; Kafka out; read by Bus and consoles | a pass works on a stale snapshot, may stop half-way, and picks its store per call | streaks open, cooldowns are held, healthy connectors recover, incidents tell the state |
| brain: service monitor | `_service_state` in memory | the same thread: `_check_services`, `_check_ollama` | HTTP to `/health` of the services | an incident that raises aborts the pass | each outage reported once, each recovery reported |
| trust (`services/trust/app/main.py`) | `trust_scores` in Postgres; `_FALLBACK` | `GET /trust/{id}` (creates), `POST /trust/{id}/adjust` (sync) | HTTP from Bus, Marketplace, Gateway | two first reads at once; an outage shows defaults again | scores within 0..100; adjustments not lost |
| oracle-bridge (`services/oracle-bridge/app/main.py`) with `AEPXOracle.sol` | `_LAST_BLOCK`, `_HISTORY`; on-chain decisions | poll loop and `POST /oracle/poll` (threads), `POST /oracle/decide` | Bus, Verification, chain RPC, Kafka | two polls at once, log scan falling back to id scan, restart | each request is fulfilled once, none is missed |
| marketplace | `_LISTINGS` | create, publish (sync) | HTTP to Trust, Governance | a publish that is denied after an earlier one succeeded | a listing is published only through the gate |
| registry | `agents` in Postgres; `_AGENTS` | create (mints a DID), get, list | HTTP to Identity | agents registered in an outage vanish when it ends | what was created can be found |
| workflow | `_WORKFLOWS`, Kafka producer | create, execute (async) | HTTP to Registry, Kafka out | two executions of one workflow; a step that raises | a workflow ends `COMPLETED` or is known to have failed |
| safety | none (consumer thread) | flags events | Kafka in and out | messages missed while reconnecting | an empty result is flagged, once |
| verification | none | `POST /verify` scores | event only printed | band boundaries | a band matches its score |
| cache | Redis | get, set | Redis | expiry against lookup | L5 only with policy |
| discovery | rankings in Redis, with a TTL | `POST /discover` (async) | HTTP to Registry and Trust, Redis | a slow collection overwrites a fresher ranking | no answer older than TTL and collection |
| gateway, cost-optimiser | none | `POST /execute`: a choice of tier | HTTP to Registry and to the optimiser, which asks Trust | every candidate is scored with a trust score of its own moment | the cheapest tier wins unless trust moved |
| billing | none | `POST /billing/checkout` | one vendor | a session opened whose answer is lost | what is answered is what happened |
| memory, knowledge, ml-integration, identity | a dictionary, a static corpus, or none | get and put, lookups, I/O | HTTP | little | as their unit tests say |
| category connector services and adapters | none | `POST /execute`; three adapters change something outside | vendor APIs, a chain | an effect whose answer is lost, two writes with one nonce | an answer of success means the effect is there |
| conformance (`sdk/python/aepx/conformance`, `platform/conformance`) | ring buffer of reports | `POST /runs` | HTTP to nearly every service | several calls per check while the deployment lives | a conforming deployment does not fail |
| consoles, workbench, SDK, CLI, scripts | sessions at most | clients of the endpoints | HTTP | little | - |

`PROJECT.json` lists every component with its status, and under `hazards` the
40 places in this code where a step can go wrong in a way a unit test would
hardly reach, with the properties that watch them or the reason why none does.

## 2. Modules

| Module | Models | Role |
|---|---|---|
| `ConnectorBus` | `connector-bus/app/main.py` | one coroutine per call, the Kafka client, the services around it |
| `MCConnectorBus` | | constants for TLC |
| `ConnectorBusProofs` | | types, gating, a true trail, one event per call, and replies with their event proved |
| `Hashing` | hashes of `ledger.py` | shared operators, no state |
| `HashChain` | what `LocalHashChainAnchor` promises | abstract specification |
| `AuditLedger` | `governance/app/main.py`, the audit part | consumer, two stores, anchoring, verification; refines `HashChain` |
| `MCAuditLedger` | | module TLC runs |
| `AuditLedgerProofs` | | types, soundness, no loss, bounded copies, verification both ways and the refinement proved |
| `CircuitBreaker` | `brain/app/main.py`, the circuit part | monitor pass, two stores, incidents |
| `MCCircuitBreaker` | | symmetry for TLC |
| `CircuitBreakerProofs` | | types, dates, cooldown, incidents and streaks proved |
| `SelfHealing` | bus, trail and breaker as one loop | extends `CircuitBreaker`, whose free events become the events of calls |
| `MCSelfHealing`, `SelfHealingProofs` | | module TLC runs; types, dates and "only denials open" proved |
| `OracleContract` | what `AEPXOracle.sol` and its fulfiller promise | abstract specification |
| `OracleBridge` | `oracle-bridge/app/main.py`, `AEPXOracle.sol`, the score of `verification/app/main.py` | pollers, node, contract; refines `OracleContract` |
| `MCOracleBridge`, `OracleBridgeProofs` | | module TLC runs; types, four invariants or action properties and the refinement proved |
| `TrustStore` | `trust/app/main.py` | both stores, row locks, threads |
| `TrustStoreProofs` | | scale and no lost update proved |
| `Marketplace` | `marketplace/app/main.py`, `evaluate_policy` | publications; extends `TrustStore` |
| `MarketplaceProofs` | | types and earned publications proved |
| `Registry` | `registry/app/main.py` | both stores, and what a request may answer |
| `WorkflowEngine` | `workflow/app/main.py`, consumer of `safety/app/main.py` | executions and reviews; extends `Registry` |
| `Discovery` | `discovery/app/main.py` | cached ranking; extends `Registry` |
| `ServiceMonitor` | `brain/app/main.py`, the service part | passes over the services |
| `Routing` | `gateway/app/main.py`, `cost-optimiser/app/main.py` | choice of a tier |
| `Connectors` | `connectors/*/app/main.py` and `adapters.py`, `billing/app/main.py` | calls to vendors and a chain |
| `Conformance` | `sdk/python/aepx/conformance`, `platform/conformance/app/main.py` | the twelve checks against a living deployment |
| `MCServices` | | the services above, `TrustStore` to `Conformance`, in one run |
| `ServicesProofs` | | what `MCServices` is checked for proved, service by service and for all of them together |

Definitions called "Mutant of X" are plausible bugs in X, used to confirm that
a property would notice them. They are not part of any specification.

### 2.1 ConnectorBus

`pc[r]` is the await at which the coroutine of request `r` is suspended:
`"trust"` (line 105), `"policy"` (117), `"circuit"` (130), `"forward"` (145),
`"adjust"` (151). The code between two awaits is one action, because all
coroutines share one event loop. `seen[r]` remembers what the checks read, and
`reply[r]` what the caller was told.

- A failure of Trust or Governance raises out of the handler: a 500 and no
  event (`CheckFails`). An answer of Governance other than 200 is a denial
  (`PolicyDenies`). A failure of the Brain lets the call through
  (`BrainUnreachable`).
- `_audit` is `Audit` and `AuditRaises`. `KafkaProducer.send` only queues; a
  sender thread delivers (`Deliver`) or gives up (`DropBatch`). These and
  `BrokerFlips` are external. There is one queue per topic, since events of
  different topics may arrive in either order.
- The body of an answer is parsed after the event has been queued and after
  the trust call (`AdjustReturns`), so `"garbled"` becomes an error there.
- The forward may time out before or after the connector handled the envelope:
  `ForwardFails` leaves the envelope on the wire or takes it away.
- Trust scores, the ceiling and the circuits change freely at any time; the
  bus must be right whatever its neighbours do.
- `Crash` is a restart of the container (`restart: unless-stopped`).

Abstracted: scores and classes are small ordinals; envelopes carry sender and
receiver only; the five trust components are one number, which a bump raises
by one or leaves as it is.

### 2.2 AuditLedger

The i-th message of the topics is the number i. `pgLog` is a function from the
ids of `governance.audit_log` to messages, with gaps where an insert was rolled
back; `memLog` is `_AUDIT_FALLBACK`. `stage` is the position of the consumer
thread between recording and anchoring. A hash is modelled as the sequence of
the roots it commits to, and a root as the function from the ids of its rows to
their events; this takes sha256 to be injective, and the Merkle tree to be
injective on batches of one size, which is the only case the code reaches.

- `RecordPg`, `RecordMem` and `RecordPgRaises` are the three ways through
  `_record`. A transaction that raises may have taken an id, and may have been
  committed with the answer lost.
- `AnchorPg` runs on the connection that `with conn` has just left. `ExitCloses`
  says whether leaving it closes the connection. In psycopg 3, which
  `requirements.txt` pins, it does, and nothing in Postgres is ever sealed;
  `AnchoringKeepsUp` (run `ledger_keeps_up`) shows it. `ledger_faults` and
  `ledger_settles` set `ExitCloses` to FALSE so that the chain in Postgres can be
  examined, as it will run once the connection is kept; in `ledger_faults` the
  fault `"anchor"`, by which any anchoring may fail, makes that setting cover
  the behaviours of the other one. The theorems hold for both settings.
- The consumer has no group id and `auto_offset_reset="earliest"`: `Reconnect`
  and `Restart` rewind it to the first message.
- `Alter` changes one stored value behind the service's back, as
  `tests/test_ledger.py` does: the event of a row, or of an anchor a hash (its root,
  its own or the previous one), an end of its range of ids, or its place in the list,
  since `verify_anchor` sorts by `seq_no`. A stored `entry_count`, `backend` or
  `tx_ref`, or a new `seq_no` that keeps the order, decides nothing and is left out. `_LOCAL_ANCHOR` hashes the root with the
  previous hash only, so `ReportsWhatIsHashed` has two halves: after a change
  of a hash or of the place, every row of that anchor and of the later ones is answered
  as invalid; after a change of a range or of a row, verification goes on
  confirming every id that an anchor claims.

### 2.3 CircuitBreaker

`Fetch` is the read of `GET /audit?limit=300` with `now`; `Process(c)` is the
body of the loop for one connector, up to the save; `RecordIncident` is
`_record_incident`. Between them events arrive, time passes and the process may
die. `history` is what Governance would answer. It is a window: events of other
topics (`Other`) push connectors out of it. `age` is `now - opened_at`, capped at
the cooldown, with -1 for no `opened_at`; `elapsed` is the time since `now` was
taken, so `age + elapsed` is how long a circuit has really been open.

`_record_incident` writes to Postgres or to a list in memory, and `GET /brain/incidents`
shows one of the two. `recorded` is the newest incident written in either, which is what
the record is compared with; that a reader may not see it is item 6 of section 5.

Every load and every save picks its store anew (`_get_conn` may fail, a query
may raise, a commit may succeed and its answer be lost). An entry of the
fallback is a dict that the pass mutates in place, so `Save` changes it even if
the result goes to Postgres. The auxiliary variable `missed` remembers that
this has happened; the properties that only hold until then name it.

A send that raises in `RecordIncident` ends the pass (`CutShort`): the connectors
not yet judged and the snapshot of the pass are gone with it. A pass that
`_check_services` aborts, or whose fetch fails, is a pass that has not started.
`StreakNotClosed` speaks of a pass that got through its snapshot, so a pass cut
short must not leave one behind: the proof attempt found that an earlier form of
the model did, and that a window of three was too small for the run to notice. Reliability scores and stored failure counts decide nothing and
are left out.

### 2.4 SelfHealing

`CircuitBreaker` lets any event happen at any time. Here the events are those of
calls: `Call` starts one, `Deny` (trust or policy), `Reject` (open circuit) and
`Answer` leave the event that `_audit` writes, `TimeOut` leaves none, because an
exception of `client.post` passes every call of `_audit`. Which topic an event
has is all the breaker sees, and a denial has the topic of a failure. Other
topics share the window (`OtherTraffic`). `answers` and `accepted` are the world:
connectors stop answering and callers lose their trust at any time. The pass, the
stores, restarts and incidents are those of `CircuitBreaker` unchanged.

### 2.5 OracleBridge

`step[p]` is where a poller stands between two calls to the node: `_poll_once`
chooses log scan or id scan (`Poll`), `Scan` and `Count` find the range, `Look` is
`getDecision` and, if there is none, the governed call with its score, `ReadNonce`,
`Build` (whose gas estimate raises for a call that would revert) and `Send` end
`_fulfill`, `Finish` moves `_LAST_BLOCK`. The background thread and
`POST /oracle/poll` run this concurrently. An exception of the log scan leads to the
id scan, one of that ends the poll (`Raise`). An answer that cannot be encoded or
estimated raises in the same place; as a fault (`NodeFails`) it does so a bounded number
of times. One that fails every time is not represented: it would end every id
scan at its request, and `EveryRequestFulfilled` excludes it.

The node is external: one pending transaction of the account, with the next
nonce, which is mined, dropped or replaced. A block carries at most one request, so blocks
are numbered by requests. `AEPXOracle.sol` is `RequestDecision` and `Mine`. `vanished`
is auxiliary and says that a pending transaction was dropped or replaced, after
which an announcement of the bridge may be untrue.

### 2.6 The other services

- `TrustStore`. A request is a thread between two statements. `Lock` is
  `SELECT ... FOR UPDATE`, `Insert` the insert of a first use, which waits for
  another of the same key and raises when that commits. Whatever raises goes on
  in the dictionary (`"away"`), whose four steps interleave freely. `due` is
  what the committed adjustments add up to.
- `Marketplace`. `gate[k]` is the HTTP call publication `k` waits for. The trust it
  reads is the real `get_trust` of `TrustStore`, with its outages and first uses,
  and the policy is `evaluate_policy` with both label scales. A refusal puts the
  listing in review whatever it was.
- `Registry` gives `GetAgent` and `ListAgents` as the set of answers possible at a
  moment, for the two services that ask it. A listing (`Listed`) is the one
  arrangement of a store's agents in which each name is `Earlier` than the next.
- `WorkflowEngine`. One execution is one coroutine; a step that raises leaves its
  workflow `RUNNING`. The safety engine's consumer has no group and starts at the
  end of the topic, so what was completed meanwhile is passed by.
- `Discovery`. The ages are of the listing of the agents; a unit of time is what one
  request to another service may take at most, and `Elapse` waits for a request
  that has had its time.
- `ServiceMonitor`. `_record_incident` stores and then sends; a send that raises cuts
  the pass. An outage is noted before it is recorded, a recovery after.
- `Routing`. The utility is computed with the gateway's default estimates, scaled by
  10 000; trust may move between two candidates.
- `Connectors`. Eleven categories share one handler: an adapter, a stub or an error;
  the enterprise service (`Enterprise`) checks the domain first. An adapter that only reads has
  no state; a Slack message, a checkout session and a contract write (`Effects`, pairs
  of a connector and an operation) do.
- `Conformance`. The services are taken to conform. A run goes through the list of
  checks by position (`suite.at`), and `After` is the next one asked for. What moves between two calls of
  a check is the store at hand, the ledgers, which grow (`AnchorRows`) and of which a
  restart of governance empties the one in memory, the risk ceiling and whether a
  service is down. `ledger.verify` reads the newest anchor of one ledger (`suite.newest`)
  and has it verified in the ledger at hand by then: `Covers` says whether that one has its
  last row, and a ledger longer than `VerifyLimit` fails the replay from genesis.

## 3. Runs

| Run | Bounds | What it shows |
|---|---|---|
| `bus_governed` | 2 calls, 1 agent, 1 connector of the catalogue and 1 unknown name, scores and levels 0..1, every fault | `TypeOK`, `GatedExecution`, `AuditTruthful`, `AuditedOnce` |
| `bus_answers` | same, no broker failure and no crash, `FairSpec` | `RepliesAudited`, `EveryCallAnswered` |
| `bus_open_circuit` | broker may fail | violated: `OpenCircuitBlocks` |
| `ledger_faults` | batches of 2, 4 messages, 1 replay, verification of 3 anchors, every fault but alteration | `TypeOK`, `ConsumedRecorded`, `LedgersSound`, `HonestHistoryVerifies`, `CopiesBounded`, `PgChainSpec` |
| `ledger_settles` | batches of 2, 4 messages, 1 replay, verification of 3 anchors, outages, failing inserts, one stored value changed, `FairSpec` | `ReportsWhatIsHashed`, `EventuallyRecorded` |
| `ledger_keeps_up` | no fault, psycopg 3 | violated: `AnchoringKeepsUp` |
| `breaker_safe` | 2 connectors, threshold 2, cooldown 2 ticks, window 4, 4 events, 1 restart, every fault | `TypeOK`, `NeverWedged`, `StreakNotClosed`, `IncidentsTellState`, `OpenHoldsCooldown` |
| `loop_heals` | 1 connector, 1 call at a time but any number of them, other traffic, window 2, 1 restart, `LoopFairSpec` | `OpensOnDenialsOnly`, `AnsweringCloses`, `AlwaysTriedAgain`, `VisibleOpenIsRetried` |
| `loop_bad_day` | 1 connector that stops answering | violated: `BadDayIsCutOff` |
| `oracle_once` | 2 pollers, both modes, 2 requests, 2 faults of any kind, `FairSpec` | `TypeOK`, `PendingStillOpen`, `AnnouncedTruthfully`, `ScannedAreServed`, `ContractSpec`, `EveryRequestFulfilled` |
| `oracle_missed` | 1 poller, log scan, a dropped transaction | violated: `NeverMissesARequest` |
| `services` | trust and marketplace: 2 callers, 1 entity, 1 listing; workflow: 2 executions of 1 workflow, 2 completions; discovery: 2 requests, 2 agents; monitor: 3 services, threshold 2; routing: 3 candidates, 5 scores; connectors: 3 calls of 13 kinds; conformance: 2 runs, 2 ceilings, verification of 1 anchor, ledgers of 0 to 2 | `ServicesTypeOK`, `NoLostUpdate`, `PublishedEarned`, `FlaggedOnce`, `EmptyReviewed`, `AnswersFresh`, `IncidentsMatch`, `CircuitsReached`, `DearerOnlyIfTrustRose`, `EffectMatchesAnswer`, `FalseAlarmsExplained` |

`services` covers seven state machines that meet neither each other nor the
governed call. A behaviour is one of one of them, chosen at the start, so that
its state space is the sum of theirs and not the product: 506 000 states, about
two minutes.

Why the bounds are enough for the interesting cases to happen. Two calls meet
at every pair of awaits, and the events of both share the queues. Four messages
fill two batches in one store, or one in each, and with one replay rows are
recorded twice and batches span the replay. A threshold and a batch of two are
the smallest for which "one short" and "one over" differ from "none". A window
of four holds a full streak of each of two connectors, so that a pass may be cut
short between them (2.7 million states, about 90 seconds); that a window forgets
is for `loop_heals`, whose window of two is overrun without end, and for the
theorems, which hold for any window. A cooldown of two ticks distinguishes "not yet",
"just now" and "long ago". In the loop the number of calls is not bounded at all,
since the window forgets: its state space is finite. Two requests to the oracle are
the smallest number at which one can be passed over for another, and two faults let
a second one hit the recovery from the first. Two threads of the trust service with
one row already race for the first use, the lock and the dictionary, and a
publication can be overtaken by an adjustment and by another publication. The scores
of `Routing` lie on both sides of the one and the eight points that decide. Three
calls of the chain meet as pending, replaced and mined. The ceilings of
`Conformance` are the lowest and one inside the labels it asks for, so that a rise and
a fall are seen, and its ledgers are empty, listed as a whole, or longer than
a verification lists.

Deadlock is checked for the bus, the breaker, the loop and the oracle, where
something can always move. `services` has parts that end: vendor calls are made
once, and the conformance runs are counted. The ledger's cfgs say `CHECK_DEADLOCK FALSE`: when every message is
recorded and nothing may fail any more the service waits for the next
message, and the bound `MaxLog` says there is none. `VerifyLimit`, the number of
anchors that verification lists, is 3: with one replay a chain reaches four, so
both sides of the limit are seen, in which honest history verifies and in which no row
does. `HonestHistoryVerifies` says exactly that, and `ReportsWhatIsHashed` speaks of
chains within the limit (`HistoryFits`).

### 3.1 Fairness

- `ConnectorBus!FairSpec`: weak fairness of the steps of each coroutine. Every
  await in `route()` has an httpx timeout, so a suspended coroutine resumes.
  Connectors, callers, the broker and the neighbours promise nothing.
- `AuditLedger!FairSpec`: weak fairness of the consumer. Its loop never ends, a
  poll returns what is there, and a connection attempt has a timeout of 3 s.
  Postgres may be away for ever and may come and go. Replays are finite because
  of `MaxReplays`: a consumer that is rewound for ever needs no further events
  to be behind, and the property is about what happens once that stops.
- `CircuitBreaker!FairSpec`: weak fairness of the pass and of the clock. The
  thread catches every exception and every call has a timeout. Events, faults
  and restarts are not fair.
- `SelfHealing!LoopFairSpec`: the same for the pass and the clock; every call that is
  under way ends, and another one is made. The strong fairness conjuncts are an
  assumption about traffic and not about the code: a connector has enough calls that,
  again and again, one is made, let through and answered while the monitor sleeps
  (ten seconds), and the next pass finds the event in its window. Without it a
  connector that nobody calls stays open, as item 8 below says.
- `OracleBridge!FairSpec`: the listener polls for ever (`_listen_loop` catches
  everything), a poll that has begun goes on since its calls have timeouts, and a
  pending transaction that does not vanish is mined. `POST /oracle/poll` is not fair.
- `MCServices!ServicesSpec`: weak fairness of the safety engine's consumer and of the
  monitor's pass, two threads that never end.

## 4. Proofs

`tlapm` checks every step of the eight proof modules. They assume only the
named assumptions of the constants: for any sets of requests, agents,
connectors, any scale, batch size, threshold, cooldown, window and number of
messages, and every combination of faults. What the code justifies the others by:

- `RegistryAssumption`, `VendorAssumption`: the agents that exist, and the calls ever made,
  are finitely many, so that listings have a length and the account a transaction count;
- `RoutingAssumption`: scores are 0..100 (`trust/app/main.py:128`); in the gateway's list
  no tier follows the large model or a human, and none stands twice, as in
  `DEFAULT_CANDIDATES` (a route that the caller names is the only candidate);
- `SuiteAssumption`: a selection is of checks that exist and is not empty, since
  `run_conformance` takes an empty one for all of them;
- `DiscoveryAssumption`, `MonitorAssumption`, `WorkflowAssumption`, `MarketAssumption`: a
  time to live and a threshold of at least 1, at least one service, steps that are agents,
  and something to choose from in `Init`.

| Theorem | States | Argument |
|---|---|---|
| `ConnectorBusProofs!TypeCorrect` | `Spec => []TypeOK` | one lemma per action group; queues element-wise |
| `ConnectorBusProofs!Gated` | `Spec => []GatedExecution` | strengthened: the score read is above the threshold from the policy await on, the ceiling from the circuit await on; an envelope leaves only from there |
| `ConnectorBusProofs!Truthful` | `Spec => []AuditTruthful` | strengthened: an untouched request has not reached the forward, and a finished one never moves again, so a denied request cannot be forwarded later |
| `ConnectorBusProofs!OneEventPerCall` | `Spec => []AuditedOnce` | `OnceInv`: an event is at one place only, in one queue or in one entry of the topics, and a coroutine that has sent one never returns to a stage that sends |
| `ConnectorBusProofs!AnswersAudited` | `Spec => []RepliesAudited` | `AnsweredInv`: as long as nothing was lost, the event of a reply stays where `Deliver` can only move it along |
| `AuditLedgerProofs!LedgerTypeCorrect` | `Spec => []TypeOK` | - |
| `AuditLedgerProofs!Soundness` | `Spec => []LedgersSound` | both stores share one lemma: sealing the first `Batch` pending rows extends a sound chain; new rows have an id above every sealed one |
| `AuditLedgerProofs!NothingLost` | `Spec => []ConsumedRecorded` | logs only grow, except at a restart, which rewinds the consumer |
| `AuditLedgerProofs!NoSurplusCopies` | `Spec => []CopiesBounded` | `Counted`: a message the consumer has passed counts once for each reading so far, one it has yet to reach once less, and the two copies of a commit without answer fall under the same reading |
| `AuditLedgerProofs!HonestRowsVerify` | `Spec => []HonestHistoryVerifies` | with `BothSound`, the replay from genesis meets every listed anchor if the list starts at the first, and fails at its head if not |
| `AuditLedgerProofs!AlterationsReported` | `Spec => []ReportsWhatIsHashed` | `Marked`: after a change of what is hashed the chain is broken at that place and no later anchor mends it (`BrokenAt`); after any other change all links are whole (`Linked`); and unless a range was changed, a row is claimed by the one anchor that seals it (`Apart`) |
| `AuditLedgerProofs!Refinement` | without alteration, `Spec => PgChainSpec` | every step of the ledger is a step of `HashChain` or a stutter, from the form of `Seal` |
| `CircuitBreakerProofs!BreakerTypeCorrect` | `Spec => []TypeOK` | needs `NeverWedged`: an age of -1 must not be added to |
| `CircuitBreakerProofs!NotWedged` | `Spec => []NeverWedged` | every judgement and every store keep `opened_at` set exactly while not closed |
| `CircuitBreakerProofs!CooldownHeld` | `Spec => OpenHoldsCooldown` | a step that changes a stored state is a judgement of the stored circuit, or Postgres was missed |
| `CircuitBreakerProofs!IncidentsTell` | `Spec => []IncidentsTellState` | the pending incident is of the connector that was just saved, and a pass does not go on before it is recorded |
| `CircuitBreakerProofs!StreakOpens` | `Spec => []StreakNotClosed` | `PassedJudged`: a connector with a full streak in the snapshot is either still to be judged or not closed, which no later step of the pass undoes |
| `SelfHealingProofs!LoopTypeCorrect` | `LoopSpec => []LoopTypeOK` and the breaker's types | the lemmas of `CircuitBreakerProofs` for its actions; an event of a call changes `history` only |
| `SelfHealingProofs!LoopNotWedged` | `LoopSpec => []NeverWedged` | likewise |
| `SelfHealingProofs!OnlyDenialsOpen` | `LoopSpec => []OpensOnDenialsOnly` | strengthened: the trail and the snapshot of the pass hold only successes of a connector that was never denied |
| `OracleBridgeProofs!OracleTypeCorrect` | `Spec => []TypeOK` | - |
| `OracleBridgeProofs!NothingReverts` | `Spec => []PendingStillOpen` | strengthened: if a poller past its estimate holds the next nonce of the account, nothing was mined since it was read, so its request is still open |
| `OracleBridgeProofs!AnnouncementsTrue` | `Spec => []AnnouncedTruthfully` | strengthened with the same nonce argument: what is announced was neither announced nor fulfilled before |
| `OracleBridgeProofs!LogScanComplete` | `Spec => []ScannedAreServed` | strengthened: in log mode, what a poller has passed is served |
| `OracleBridgeProofs!OracleRefinement` | `Spec => ContractSpec` | by `PendingStillOpen`, `Mine` answers an open request; every other step leaves what the asker sees |
| `TrustStoreProofs!TrustTypeCorrect` | `TrustSpec => []TrustTypeOK` | clamping |
| `TrustStoreProofs!NothingLost` | `TrustSpec => []NoLostUpdate` | strengthened: a request that holds a row has read its committed value, no two hold the same row, and a row that is not there counts as the default |
| `MarketplaceProofs!MarketTypeCorrect` | `MarketSpec => []MarketTypeOK` | every step of the marketplace is one of `TrustStore` or leaves it alone, so `TrustInv` holds here too |
| `MarketplaceProofs!PublicationsEarned` | `MarketSpec => PublishedEarned` | `MarketInv`: a publication that waits for the policy has cleared the score, and one that waits for trust has a request for its own publisher under way, whose answer vouches for it |
| `ServicesProofs!FlagsOnce` | `FlowSpec => []FlaggedOnce` | `FlowInv`: an event tells the number of steps its workflow has for good, only what the consumer has read is flagged, and it never reads backwards |
| `ServicesProofs!AnswersAreFresh` | `SeekSpec => []AnswersFresh` | `SeekInv`: the listing of a collection under way is older than it by at most one unit for each agent asked, and that of an entry by at most what a collection takes more than the entry itself |
| `ServicesProofs!IncidentsMatchState` | `MonitorSpec => []IncidentsMatch` | `MonitorInv`: a service held down has its failures counted to the threshold, so only the branch that tells of a recovery holds it up again |
| `ServicesProofs!CheapestUnlessTrustRose` | `RouteSpec => []DearerOnlyIfTrustRose` | `max` finds the first of the best (the least element of a set of numbers), and a dearer tier's utility is made up for only by the trust read for it |
| `ServicesProofs!EffectsToldTruly` | `VendorSpec => []EffectMatchesAnswer` | `VendorInv`: what a call has outside is in exactly one of the four sets, in none before it is answered, and what sending moves out of the pool it moves among the displaced |
| `ServicesProofs!AlarmsExplained` | `SuiteSpec => FalseAlarmsExplained` | `SuiteInv`: the entity of a run is untouched until its trust check ends; an undisturbed check has read one ceiling, so its answers never rise again, and the ledger at hand still holds the anchor it read, however much it has grown |
| `ServicesProofs!ServicesTypeCorrect`, `ServicesSafe` | `ServicesSpec => []ServicesTypeOK`, and all safety properties of the services | the conjunction of the seven invariants: a step of one service leaves the others' variables alone, and of the registry, which two of them share, they ask only its type |

Every type invariant, safety invariant and action property that a run checks is
proved, and both refinements are. Only model-checked are the liveness properties:
`EveryCallAnswered`, `EventuallyRecorded`, `AnsweringCloses`, `AlwaysTriedAgain`,
`VisibleOpenIsRetried`, `EveryRequestFulfilled`, `EmptyReviewed` and `CircuitsReached`. They
rest on fairness and so on ENABLED, which the prover does not handle. No module
declares a `RECURSIVE` operator. The theorems hold without the fairness assumptions.

## 5. Where the code and what is said of it differ

Four of these have a run that shows them (`findings` in `PROJECT.json`).

1. `bus_open_circuit`: the audit of a circuit denial runs inside the `try` whose
   `except` means "the Brain is unreachable". When `send` raises, the denied
   call is forwarded (`connector-bus/app/main.py:139`, comment at 127).
2. `ledger_keeps_up`: with psycopg 3 no row in Postgres is ever anchored
   (`governance/app/main.py:124`; RFC-0006 section 4.2).
3. `oracle_missed`: the log scan advances once a fulfilment was sent, without
   waiting for a receipt. One that is dropped from the pool afterwards is never
   sent again (`oracle-bridge/app/main.py:293`; RFC-0008: "so it never misses a request").
4. `loop_bad_day`: a connector that times out leaves no event and one that answers
   errors leaves `connector.invoked`, so a failing connector never opens its
   circuit; only denials do (`connector-bus/app/main.py:145`; `brain/app/main.py:9`).
   `OnlyDenialsOpen` proves it for every number of calls.

The others were met while modelling and are visible in the models:

5. An answer that is not JSON leaves an `invoked` event and a 500
   (`connector-bus/app/main.py:164`; `skills/aepx-connector-bus/SKILL.md:31`). It is
   `answer[r] = "garbled"` in `AdjustReturns`. A forward that times out leaves no
   event although the connector may have handled it (line 145).
6. Rows recorded in memory during an outage are invisible in `GET /audit` once
   Postgres is back (`ViewLog`; `governance/app/main.py:246-250`). The same holds of
   the registry's agents (`GetAgent`), of the Brain's incidents
   (`brain/app/main.py:96-109`) and of trust scores, where an outage shows the
   default 50 for any agent (`SpareCreate`).
7. `verify_anchor` hashes neither the rows nor the ids an anchor claims, so an altered
   row, or an anchor whose range was widened, still verifies (lines 220 and 229; the
   second half of `ReportsWhatIsHashed`),
   and it replays the newest 10 000 anchors from genesis, so past that number honest
   history does not verify (`Listed`; line 219).
8. Only connectors in the newest 300 events are processed: an open circuit
   whose connector drops out of them stays open (`Turn`; `brain/app/main.py:186`).
   `VisibleOpenIsRetried` is the part that does hold. The event that closes or
   re-opens a half-open circuit may be older than the half-open state (line 206).
9. Without a broker a transition is never published (`published` in
   `RecordIncident`; `brain/app/main.py:16-19`).
10. One load that misses Postgres lets a pass overwrite an open circuit before
    its cooldown (`Save`; line 134). Hence `missed` in `OpenHoldsCooldown`.
11. A recovery that cannot be sent is recorded again by every pass and cuts every
    one of them, so the circuits are not looked at while it lasts (`Healthy`;
    `brain/app/main.py:246`). `CircuitsReached` shows that outages do not do this.
    A restart forgets which services were down.
12. Of two publications of one listing the one that finishes last wins, and a
    publication that a silent service refuses withdraws a published listing (`Deny`;
    `marketplace/app/main.py:107`). The score is read before the policy, so it may
    have fallen by the time of publication; `PublishedEarned` asks only that
    the publisher had it at some moment of the publication.
13. A workflow takes a 404 of the registry for its agent (`Step`), and a step that
    raises leaves it `RUNNING` (`workflow/app/main.py:65`).
14. A ranking may be answered with for TTL and a collection's time after the agents
    were listed (`AnswersFresh`).
15. The cheapest tier is chosen unless the caller's trust rises between two readings,
    by 1 for the small model, by 8 for the large one (`DearerOnlyIfTrustRose`).
16. A second contract write before the first is mined gets the same nonce
    and is refused or outbids the first, whose caller was told that it was sent,
    as is the caller whose transaction the node drops (`displaced`, `ContractWrite`; `connectors/blockchain/app/adapters.py:164`).
17. `policy-ordinal` and `ledger.verify` can fail for a conforming deployment when the
    ceiling or the ledger moves between their calls, `ledger.verify` fails for any that has
    more than 10 000 anchors (`checks.py:155` asks for the chain that item 7 says is not
    valid by then), and `gateway.health` fails for a
    service that is offline although `checks.py:5-7` calls that a state of the deployment
    (`FalseAlarmsExplained`).
18. A claim with one source always scores 35 and is `GREY`, so every decision the
    oracle writes is (`TruthScore`; `verification/app/main.py:25`).
19. The trust dictionary is not locked: two adjustments in an outage may lose one
    (`SpareWrite`). `NoLostUpdate` is about Postgres.

## 6. Not modelled, and why

- The optional EVM anchor adds a reference to an anchor; it never changes the local
  chain.
- Cache: every request is one Redis command. Memory: one dictionary behind two
  endpoints. Knowledge: a lookup in a static corpus. ML integration: a
  scaffold that answers constants. None has a step that another one could come between.
- Identity: encodings and keys, out of a model checker's reach.
- `POST /safety/validate`, the event of `POST /verify` and `GET /health` of the gateway
  keep no state and decide nothing that another modelled part reads.
- Consoles, workbench, SDK, CLI: clients without state of their own beyond a session.
- `AEPXAnchor.sol` emits one event; `AEPXPolicyRegistry.sol` holds one number, which
  `Marketplace` and `Conformance` read as one that may change or be unreadable.
- Scripts, deployment files and the catalogue: tooling and data. The restart policy
  of the containers is the crash action of the models.

## 7. Plan

The order follows what the system most depends on; 1 to 10 are done: the bus, the
ledger, the breaker, the loop they form, the oracle bridge, trust with registry and
marketplace, the monitor, workflow, discovery, routing, connectors and conformance.

9. Done: the safety properties of the bus, the ledger and the breaker proved. The attempts
   corrected the models: `CutShort` (2.3), and `HonestHistoryVerifies`, which was too weak
   to notice the limit of verification.
10. Done: the safety properties of the services proved, one by one and together.
11. Reference definitions over bounded inputs for the Merkle tree and the policy
    labels.
