---------------------------- MODULE AuditLedger -----------------------------
(***************************************************************************)
(* The Governance Engine's audit trail and its anchors                     *)
(* (services/governance/app/main.py, app/ledger.py).                       *)
(*                                                                         *)
(* One consumer thread takes every event from Kafka and records it in      *)
(* Postgres, or in process memory when Postgres is away.  After each       *)
(* record it tries to seal the oldest Batch unsealed rows of that store    *)
(* under a Merkle root chained to the previous anchor.  The two stores     *)
(* never meet: each has its own ids, rows and chain.                       *)
(*                                                                         *)
(* The i-th message of the topics is the number i.  A Merkle root is the   *)
(* function from row ids to events it was computed over: batches have one  *)
(* size, for which merkle_root is injective.  A list of anchors is in the  *)
(* order of seq_no, which is unique; entry_count, backend, tx_ref and      *)
(* anchored_at are stored for the reader and nothing computes with them.   *)
(***************************************************************************)
EXTENDS Hashing, FiniteSets, SequencesExt

CONSTANTS
    Batch,        \* _ANCHOR_BATCH_SIZE
    VerifyLimit,  \* the limit verify_anchor puts on the anchors it replays
    ExitCloses,   \* psycopg 3: leaving "with conn" closes the connection
    FaultKinds,   \* what may go wrong, a subset of AllFaults
    MaxLog,       \* bound: messages published
    MaxReplays    \* bound: reconnects and restarts of the consumer

AllFaults == {"outage", "insert", "commit", "anchor", "reconnect", "restart", "alter"}

ASSUME BatchAssumption == Batch \in Nat \ {0} /\ VerifyLimit \in Nat \ {0}
ASSUME BoundAssumption == MaxLog \in Nat /\ MaxReplays \in Nat
ASSUME FaultAssumption == FaultKinds \subseteq AllFaults /\ ExitCloses \in BOOLEAN

VARIABLES
    published,   \* how many messages the topics hold
    pos,         \* how many of them the consumer has taken since it connected
    stage,       \* what the consumer thread does next
    pgUp,        \* whether Postgres accepts connections
    pgLog,       \* governance.audit_log: id -> event
    nextId,      \* its BIGSERIAL
    pgAnchors,   \* governance.ledger_anchors, by seq_no
    memLog,      \* _AUDIT_FALLBACK, whose ids are its positions
    memAnchors,  \* _LEDGER_FALLBACK
    replays,     \* reconnects and restarts so far
    altered      \* the one row or anchor changed behind the service's back

pgVars  == <<pgLog, nextId, pgAnchors>>
memVars == <<memLog, memAnchors>>
vars == <<published, pos, stage, pgUp, pgVars, memVars, replays, altered>>

Unaltered == [store |-> "none", what |-> "none", at |-> 0]

Init ==
    /\ published = 0
    /\ pos = 0
    /\ stage = "idle"
    /\ pgUp \in (IF "outage" \in FaultKinds THEN BOOLEAN ELSE {TRUE})
    /\ pgLog = <<>>
    /\ nextId = 1
    /\ pgAnchors = <<>>
    /\ memLog = <<>>
    /\ memAnchors = <<>>
    /\ replays = 0
    /\ altered = Unaltered

-----------------------------------------------------------------------------
(* Anchoring, the same computation for either store.                       *)

\* Mutant of Pending: "id >=" for "id >".
PendingOverlap(log, anchors) ==
    {i \in DOMAIN log : \A k \in DOMAIN anchors : anchors[k].last <= i}

\* The rows after MAX(last_audit_id).  In memory it is the last anchor's, the
\* greatest as long as nobody changes an id range.
Pending(log, anchors) ==
    {i \in DOMAIN log : \A k \in DOMAIN anchors : anchors[k].last < i}

\* ORDER BY id LIMIT Batch, when that many ids are pending: the batch is
\* every pending id up to its last one.
FullBatches(pending) ==
    {b \in [first : pending, last : pending] :
        LET ids == {i \in pending : i <= b.last}
        IN Cardinality(ids) = Batch /\ \A i \in ids : b.first <= i}

\* Mutant of Seal: every anchor is chained to genesis.
SealToGenesis(log, anchors, b) ==
    LET root == [i \in {j \in Pending(log, anchors) : j <= b.last} |-> log[i]]
    IN [prev |-> Genesis, root |-> root, hash |-> Hash(Genesis, root),
        first |-> b.first, last |-> b.last]

\* The anchor over a batch: its root, chained to the tip.
Seal(log, anchors, b) ==
    LET root == [i \in {j \in Pending(log, anchors) : j <= b.last} |-> log[i]]
    IN [prev  |-> Tip(anchors),
        root  |-> root,
        hash  |-> Hash(Tip(anchors), root),
        first |-> b.first,
        last  |-> b.last]

-----------------------------------------------------------------------------
(* The consumer thread.                                                    *)

Publish ==
    /\ published < MaxLog
    /\ published' = published + 1
    /\ UNCHANGED <<pos, stage, pgUp, pgVars, memVars, replays, altered>>

CanTake == stage = "idle" /\ pos < published

InsertPg ==
    /\ pgLog' = [i \in DOMAIN pgLog \cup {nextId} |-> IF i = nextId THEN pos + 1 ELSE pgLog[i]]
    /\ nextId' = nextId + 1

\* Mutant of AppendMem: audit_id = len(_AUDIT_FALLBACK), so that row 0 is
\* never greater than the last id anchored.
AppendMemFromZero ==
    /\ LET id == Cardinality(DOMAIN memLog)
       IN memLog' = [i \in DOMAIN memLog \cup {id} |-> IF i = id THEN pos + 1 ELSE memLog[i]]
    /\ stage' = "anchor_mem"

AppendMem ==
    /\ memLog' = Append(memLog, pos + 1)
    /\ stage' = "anchor_mem"

\* Mutant of RecordPg: the offset does not advance.
RecordPgAgain ==
    /\ CanTake /\ pgUp
    /\ InsertPg
    /\ stage' = "anchor_pg"
    /\ UNCHANGED <<published, pos, pgUp, pgAnchors, memVars, replays, altered>>

\* INSERT, committed: the row is durable before anchoring starts.
RecordPg ==
    /\ CanTake /\ pgUp
    /\ InsertPg
    /\ pos' = pos + 1
    /\ stage' = "anchor_pg"
    /\ UNCHANGED <<published, pgUp, pgAnchors, memVars, replays, altered>>

\* Mutant of RecordMem: no fallback.
RecordNowhere ==
    /\ CanTake /\ ~pgUp
    /\ pos' = pos + 1
    /\ UNCHANGED <<published, stage, pgUp, pgVars, memVars, replays, altered>>

\* No connection: the row goes to memory.
RecordMem ==
    /\ CanTake /\ ~pgUp
    /\ AppendMem
    /\ pos' = pos + 1
    /\ UNCHANGED <<published, pgUp, pgVars, memAnchors, replays, altered>>

\* The transaction raises: rolled back, with or without an id drawn from the
\* sequence ("insert"), or committed with the answer lost ("commit").
RecordPgRaises ==
    /\ CanTake /\ pgUp
    /\ \/ /\ "insert" \in FaultKinds
          /\ nextId' \in {nextId, nextId + 1}
          /\ UNCHANGED pgLog
       \/ "commit" \in FaultKinds /\ InsertPg
    /\ AppendMem
    /\ pos' = pos + 1
    /\ UNCHANGED <<published, pgUp, pgAnchors, memAnchors, replays, altered>>

\* _maybe_anchor_pg reuses the connection its caller has just left.  It does
\* nothing when that connection is closed, too few rows are pending, or
\* anything raises.
AnchorPg ==
    /\ stage = "anchor_pg"
    /\ stage' = "idle"
    /\ \/ /\ ~ExitCloses /\ pgUp
          /\ \E b \in FullBatches(Pending(pgLog, pgAnchors)) :
                pgAnchors' = Append(pgAnchors, Seal(pgLog, pgAnchors, b))
       \/ /\ \/ ExitCloses \/ ~pgUp \/ "anchor" \in FaultKinds
             \/ FullBatches(Pending(pgLog, pgAnchors)) = {}
          /\ UNCHANGED pgAnchors
    /\ UNCHANGED <<published, pos, pgUp, pgLog, nextId, memVars, replays, altered>>

AnchorMem ==
    /\ stage = "anchor_mem"
    /\ stage' = "idle"
    /\ \/ \E b \in FullBatches(Pending(memLog, memAnchors)) :
             memAnchors' = Append(memAnchors, Seal(memLog, memAnchors, b))
       \/ FullBatches(Pending(memLog, memAnchors)) = {} /\ UNCHANGED memAnchors
    /\ UNCHANGED <<published, pos, pgUp, pgVars, memLog, replays, altered>>

\* The consumer has no group id and resets to the earliest offset: whenever
\* it is built anew it takes the whole log again.
Reconnect ==
    /\ "reconnect" \in FaultKinds
    /\ stage = "idle" /\ pos > 0 /\ replays < MaxReplays
    /\ pos' = 0
    /\ replays' = replays + 1
    /\ UNCHANGED <<published, stage, pgUp, pgVars, memVars, altered>>

\* Mutant of Restart: auto_offset_reset="latest".
RestartAtLatest ==
    /\ "restart" \in FaultKinds
    /\ replays < MaxReplays
    /\ stage' = "idle"
    /\ memLog' = <<>> /\ memAnchors' = <<>>
    /\ altered' = IF altered.store = "mem" THEN Unaltered ELSE altered
    /\ replays' = replays + 1
    /\ UNCHANGED <<published, pos, pgUp, pgVars>>

\* A restart also loses everything kept in memory.
Restart ==
    /\ "restart" \in FaultKinds
    /\ replays < MaxReplays
    /\ pos' = 0
    /\ stage' = "idle"
    /\ memLog' = <<>> /\ memAnchors' = <<>>
    /\ altered' = IF altered.store = "mem" THEN Unaltered ELSE altered
    /\ replays' = replays + 1
    /\ UNCHANGED <<published, pgUp, pgVars>>

PgFlips ==
    /\ "outage" \in FaultKinds
    /\ pgUp' = ~pgUp
    /\ UNCHANGED <<published, pos, stage, pgVars, memVars, replays, altered>>

-----------------------------------------------------------------------------
(* One stored value changes behind the service's back: a column of a row   *)
(* in Postgres, or what tests/test_ledger.py changes in memory.            *)

Tamper(root) == [i \in DOMAIN root |-> 0]

\* A column the hashes are computed over or compared with.
HashedChanges(anchors, k) ==
    {[anchors EXCEPT ![k].hash = Genesis],
     [anchors EXCEPT ![k].prev = Append(@, Tamper(anchors[k].root))],
     [anchors EXCEPT ![k].root = Tamper(@)]}

\* first_audit_id or last_audit_id, to the oldest id or one not drawn yet.
RangeChanges(anchors, k) ==
    {[anchors EXCEPT ![k].first = id] : id \in {1, nextId}} \cup
    {[anchors EXCEPT ![k].last = id] : id \in {1, nextId}}

\* seq_no: all values between are taken, so the anchor becomes the first one
\* or the last one.
MovedFirst(anchors, k) == <<anchors[k]>> \o RemoveAt(anchors, k)
MovedLast(anchors, k)  == Append(RemoveAt(anchors, k), anchors[k])

\* An edit of the "chain" is one the hashes cover: its place is the first
\* anchor that is no longer what it was.
AlterPgAnchor ==
    \E k \in DOMAIN pgAnchors :
        \/ /\ pgAnchors' \in HashedChanges(pgAnchors, k)
           /\ altered' = [store |-> "pg", what |-> "chain", at |-> k]
        \/ /\ pgAnchors' \in RangeChanges(pgAnchors, k)
           /\ altered' = [store |-> "pg", what |-> "range", at |-> k]
        \/ /\ k > 1 /\ pgAnchors' = MovedFirst(pgAnchors, k)
           /\ altered' = [store |-> "pg", what |-> "chain", at |-> 1]
        \/ /\ k < Len(pgAnchors) /\ pgAnchors' = MovedLast(pgAnchors, k)
           /\ altered' = [store |-> "pg", what |-> "chain", at |-> k]

Alter ==
    /\ "alter" \in FaultKinds
    /\ altered = Unaltered
    /\ \/ AlterPgAnchor /\ UNCHANGED <<pgLog, memVars>>
       \/ \E k \in DOMAIN memAnchors :
            /\ memAnchors' \in HashedChanges(memAnchors, k)
            /\ altered' = [store |-> "mem", what |-> "chain", at |-> k]
            /\ UNCHANGED <<pgLog, pgAnchors, memLog>>
       \/ \E i \in DOMAIN pgLog \ Pending(pgLog, pgAnchors) :
            /\ pgLog' = [pgLog EXCEPT ![i] = 0]
            /\ altered' = [store |-> "pg", what |-> "row", at |-> i]
            /\ UNCHANGED <<pgAnchors, memVars>>
       \/ \E i \in DOMAIN memLog \ Pending(memLog, memAnchors) :
            /\ memLog' = [memLog EXCEPT ![i] = 0]
            /\ altered' = [store |-> "mem", what |-> "row", at |-> i]
            /\ UNCHANGED <<pgLog, pgAnchors, memAnchors>>
    /\ UNCHANGED <<published, pos, stage, pgUp, nextId, replays>>

Consume == RecordPg \/ RecordMem \/ RecordPgRaises \/ AnchorPg \/ AnchorMem

Next ==
    \/ Publish \/ Consume
    \/ Reconnect \/ Restart \/ PgFlips \/ Alter

Spec == Init /\ [][Next]_vars

\* The consumer thread is a loop that never blocks for ever: a poll returns
\* what is there, a connection attempt gives up after 3 s.
FairSpec == Spec /\ WF_vars(Consume)

-----------------------------------------------------------------------------
(* What the endpoints answer: Postgres if it can be reached, else memory.  *)

ViewLog     == IF pgUp THEN pgLog ELSE memLog
ViewAnchors == IF pgUp THEN pgAnchors ELSE memAnchors

\* list_anchors(limit): the newest VerifyLimit anchors, oldest first.
Listed(anchors) ==
    LET first == IF Len(anchors) > VerifyLimit THEN Len(anchors) - VerifyLimit + 1 ELSE 1
    IN SubSeq(anchors, first, Len(anchors))

\* Mutant of Covers: the first row of a batch is missed.
CoversLate(a, id) == a.first < id /\ id <= a.last

Covers(a, id) == a.first <= id /\ id <= a.last

\* Mutant of VerifyAnchor: the links are followed, the hashes not recomputed.
VerifyLinks(anchors, id) ==
    LET listed == Listed(anchors)
        hits == {k \in DOMAIN listed : Covers(listed[k], id)}
        match == CHOOSE k \in hits : \A j \in hits : k <= j
    IN [anchored |-> hits # {},
        valid |-> hits # {} /\ \A k \in 1..match :
                     listed[k].prev = IF k = 1 THEN Genesis ELSE listed[k - 1].hash]

\* verify_anchor: the listed anchor that covers the id, and whether the
\* listed anchors up to it replay from genesis.
VerifyAnchor(anchors, id) ==
    LET listed == Listed(anchors)
        hits == {k \in DOMAIN listed : Covers(listed[k], id)}
        match == CHOOSE k \in hits : \A j \in hits : k <= j
        before(k) == IF k = 1 THEN Genesis ELSE listed[k - 1].hash
    IN IF hits = {}
       THEN [anchored |-> FALSE, valid |-> FALSE]
       ELSE [anchored |-> TRUE,
             valid |-> \A k \in 1..match : /\ listed[k].prev = before(k)
                                           /\ listed[k].hash = Hash(before(k), listed[k].root)]
-----------------------------------------------------------------------------
IsLog(log) == DOMAIN log \subseteq Nat \ {0} /\ \A i \in DOMAIN log : log[i] \in 0..MaxLog

IsAnchorList(anchors) ==
    \A k \in DOMAIN anchors :
        /\ DOMAIN anchors[k] = {"prev", "root", "hash", "first", "last"}
        /\ anchors[k].first \in Nat /\ anchors[k].last \in Nat

TypeOK ==
    /\ published \in 0..MaxLog
    /\ pos \in 0..published
    /\ stage \in {"idle", "anchor_pg", "anchor_mem"}
    /\ pgUp \in BOOLEAN
    /\ nextId \in Nat \ {0}
    /\ IsLog(pgLog) /\ IsLog(memLog)
    /\ IsAnchorList(pgAnchors) /\ IsAnchorList(memAnchors)
    /\ replays \in 0..MaxReplays

Holds(log, m) == \E i \in DOMAIN log : log[i] = m
Copies(log, m) == Cardinality({i \in DOMAIN log : log[i] = m})

\* Full audit coverage, as far as it goes: whatever the consumer has taken is
\* in one of the stores, through outages, failing inserts, reconnects and
\* restarts that wipe the memory (they also rewind the consumer).
ConsumedRecorded ==
    altered = Unaltered =>
        \A m \in 1..pos : Holds(pgLog, m) \/ Holds(memLog, m)

\* An event is recorded twice only because the topics were read again, or
\* because a commit succeeded whose answer was lost.
CopiesBounded ==
    altered = Unaltered =>
        \A m \in 1..published :
            Copies(pgLog, m) + Copies(memLog, m)
                <= (1 + replays) * (IF "commit" \in FaultKinds THEN 2 ELSE 1)

\* The anchors of a store seal its rows in id order, without a gap or an
\* overlap, Batch at a time, with the content the rows still have.
SealsInOrder(log, anchors) ==
    \A k \in DOMAIN anchors :
        LET a == anchors[k]
            after == IF k = 1 THEN 0 ELSE anchors[k - 1].last
            rows == {i \in DOMAIN log : after < i /\ i <= a.last}
        IN /\ a.root = [i \in rows |-> log[i]]
           /\ Cardinality(rows) = Batch
           /\ a.first \in rows /\ a.last \in rows
           /\ \A i \in rows : a.first <= i

\* Both ledgers are chains from genesis that seal their rows in order, even
\* when anchoring fails, lags behind, or a crash separates row and anchor.
LedgersSound ==
    altered = Unaltered =>
        /\ Linked(pgAnchors) /\ SealsInOrder(pgLog, pgAnchors)
        /\ Linked(memAnchors) /\ SealsInOrder(memLog, memAnchors)

\* Whether verify_anchor gets to see the whole chain.
HistoryFits == Len(ViewAnchors) <= VerifyLimit

\* GET /ledger/verify confirms every row that was sealed and not altered, and
\* does so exactly as long as the chain fits into the list it asks for: from
\* then on the first anchor listed is not the first one and no row verifies.
HonestHistoryVerifies ==
    altered = Unaltered =>
        \A id \in DOMAIN ViewLog \ Pending(ViewLog, ViewAnchors) :
            VerifyAnchor(ViewAnchors, id).valid <=> HistoryFits

\* What GET /ledger/verify reports of one changed value, as long as the chain
\* fits.  If it is one the hashes cover (prev_hash, merkle_root, anchor_hash)
\* or the order of the anchors, every row of that anchor and of the later ones
\* is answered as invalid, although new anchors keep being chained to it.  If
\* it is an id range, which no hash covers, or an audit row, whose hash is not
\* computed again, every id some anchor claims is still confirmed.
ReportsWhatIsHashed ==
    HistoryFits /\ (altered.store = "pg" <=> pgUp) =>
        /\ altered.what = "chain" =>
               \A k \in altered.at..Len(ViewAnchors) : \A id \in DOMAIN ViewAnchors[k].root :
                   VerifyAnchor(ViewAnchors, id) = [anchored |-> TRUE, valid |-> FALSE]
        /\ altered.what \in {"range", "row"} =>
               \A id \in DOMAIN ViewLog \cup {nextId} :
                   VerifyAnchor(ViewAnchors, id).anchored => VerifyAnchor(ViewAnchors, id).valid

\* The Postgres ledger implements the append-only hash chain: no failure,
\* replay or restart removes, rewrites or re-links an anchor.
PgChain == INSTANCE HashChain WITH chain <- pgAnchors
PgChainSpec == PgChain!Spec

\* Once outages and replays are over, every published message is recorded and
\* stays recorded, unless somebody alters a row.
EventuallyRecorded ==
    <>[](altered.what # "row" =>
            \A m \in 1..published : Holds(pgLog, m) \/ Holds(memLog, m))

\* The claim of RFC-0006 section 4.2: a batch is sealed as soon as it is full.
AnchoringKeepsUp ==
    stage = "idle" => Cardinality(Pending(ViewLog, ViewAnchors)) < Batch
=============================================================================
