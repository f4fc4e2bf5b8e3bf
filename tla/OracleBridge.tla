---------------------------- MODULE OracleBridge -----------------------------
(***************************************************************************)
(* The oracle bridge (services/oracle-bridge/app/main.py): it finds the    *)
(* requests made to AEPXOracle.sol, obtains a governed and scored answer   *)
(* for each and writes it back.                                            *)
(*                                                                         *)
(* Two threads may poll at once, the listener and POST /oracle/poll.  Each *)
(* decision takes tens of seconds, a transaction is mined some time after  *)
(* it was sent, and the bridge never waits for it.  Numbers of blocks are  *)
(* counted in requests: block b is the one that carries request b.         *)
(*                                                                         *)
(* Left out: _HISTORY, which nothing reads back to decide anything.        *)
(***************************************************************************)
EXTENDS Integers

CONSTANTS
    Pollers,
    Listener,     \* the poller that never stops
    LogModes,     \* values ORACLE_USE_LOGS may have
    AiAnswers,    \* whether the governed call may answer, a subset of BOOLEAN
    EngineScores, \* whether the Verification Engine may be reached, likewise
    FaultKinds,   \* what may go wrong, a subset of AllFaults
    MaxRequests,  \* bound: requests made
    MaxFaults     \* bound: faults

\* rpc: a call to the node raises.  answer: a transaction is taken, but the
\* call that sent it raises.  drop, replace: a pending transaction vanishes.
\* broker: an event is not published.
\* foreign: another service signs with the same account.
AllFaults == {"rpc", "answer", "drop", "replace", "foreign", "broker", "restart"}

ASSUME OracleAssumption ==
    /\ Listener \in Pollers
    /\ LogModes \subseteq BOOLEAN /\ AiAnswers \subseteq BOOLEAN /\ EngineScores \subseteq BOOLEAN
    /\ FaultKinds \subseteq AllFaults
ASSUME OracleBounds == MaxRequests \in Nat /\ MaxFaults \in Nat

Requests == 0..(MaxRequests - 1)

VARIABLES
    \* the chain
    asked,      \* nextRequestId
    decision,   \* the stored decision of each request
    spent,      \* fulfilments mined
    txCount,    \* transactions of the account mined: its next nonce
    pool,       \* the pending transaction with that nonce
    \* the bridge
    useLogs,    \* USE_LOGS
    lastBlock,  \* _LAST_BLOCK
    announced,  \* oracle.fulfilled events of each request, counted to 2
    \* each poller
    step, mode,
    at,         \* the request it is about
    until,      \* the first request it will not look at
    nonce,
    draft,      \* the decision it is about to write
    \* auxiliary
    faults,
    vanished    \* whether a pending transaction has vanished

chainVars == <<asked, decision, spent, txCount, pool>>
pollVars  == <<step, mode, at, until, nonce, draft>>
auxVars   == <<faults, vanished>>
vars == <<chainVars, useLogs, lastBlock, announced, pollVars, auxVars>>

-----------------------------------------------------------------------------
(* A decision.                                                             *)

\* truth_score and band_for of the Verification Engine.
TruthScore(sources) == IF sources * 35 < 100 THEN sources * 35 ELSE 100
BandFor(score) ==
    CASE score >= 95 -> "GREEN" [] score >= 80 -> "AMBER" [] score >= 60 -> "RED" [] OTHER -> "GREY"

Decision(answered, score) == [answered |-> answered, confidence |-> score, band |-> BandFor(score)]

\* Without an answer there is nothing to score.
Verify(answered, reachable) ==
    Decision(answered, IF answered /\ reachable THEN TruthScore(1) ELSE 0)

\* The governed call may be denied or fail, the engine may be away.
Decisions == {Verify(answered, reachable) : answered \in AiAnswers, reachable \in EngineScores}

NoDecision == [answered |-> FALSE, confidence |-> -1, band |-> ""]

NoTx == [id |-> -1, decision |-> NoDecision]
ForeignTx == [id |-> -2, decision |-> NoDecision]
Txs == [id : Requests, decision : Decisions] \cup {NoTx, ForeignTx}

Init ==
    /\ asked = 0 /\ spent = 0 /\ txCount = 0
    /\ decision = [r \in Requests |-> NoDecision]
    /\ pool = NoTx
    /\ useLogs \in LogModes
    /\ lastBlock = 0
    /\ announced = [r \in Requests |-> 0]
    /\ step = [p \in Pollers |-> "idle"]
    /\ mode = [p \in Pollers |-> "ids"]
    /\ at = [p \in Pollers |-> 0]
    /\ until = [p \in Pollers |-> 0]
    /\ nonce = [p \in Pollers |-> 0]
    /\ draft = [p \in Pollers |-> NoDecision]
    /\ faults = 0
    /\ vanished = FALSE

-----------------------------------------------------------------------------
(* A poll.                                                                 *)

Goto(p, s) == step' = [step EXCEPT ![p] = s]

Fault(kind) == kind \in FaultKinds /\ faults < MaxFaults /\ faults' = faults + 1

\* The locals of _fulfill and of the scan go out of scope.
ForgetRequest(p) ==
    /\ nonce' = [nonce EXCEPT ![p] = 0]
    /\ draft' = [draft EXCEPT ![p] = NoDecision]
ForgetScan(p) ==
    /\ at' = [at EXCEPT ![p] = 0]
    /\ until' = [until EXCEPT ![p] = 0]

\* An exception: the log scan is followed by an id scan, that one is over.
Raise(p) ==
    /\ Goto(p, IF mode[p] = "logs" THEN "count" ELSE "idle")
    /\ mode' = [mode EXCEPT ![p] = "ids"]
    /\ ForgetRequest(p) /\ ForgetScan(p)

Poll(p) ==
    /\ step[p] = "idle"
    /\ IF useLogs
       THEN /\ mode' = [mode EXCEPT ![p] = "logs"]
            /\ until' = [until EXCEPT ![p] = asked]
            /\ Goto(p, "scan")
       ELSE Goto(p, "count") /\ UNCHANGED <<mode, until>>
    /\ UNCHANGED <<chainVars, useLogs, lastBlock, announced, at, nonce, draft, auxVars>>

\* get_logs from _LAST_BLOCK to the block that was the latest before.
Scan(p) ==
    /\ step[p] = "scan"
    /\ at' = [at EXCEPT ![p] = lastBlock]
    /\ Goto(p, "next")
    /\ UNCHANGED <<chainVars, useLogs, lastBlock, announced, mode, until, nonce, draft, auxVars>>

\* Mutant of Count: the newest request is not in the range.
CountShort(p) ==
    /\ step[p] = "count"
    /\ at' = [at EXCEPT ![p] = 0]
    /\ until' = [until EXCEPT ![p] = IF asked = 0 THEN 0 ELSE asked - 1]
    /\ Goto(p, "next")
    /\ UNCHANGED <<chainVars, useLogs, lastBlock, announced, mode, nonce, draft, auxVars>>

\* The id scan begins.
Count(p) ==
    /\ step[p] = "count"
    /\ at' = [at EXCEPT ![p] = 0]
    /\ until' = [until EXCEPT ![p] = asked]
    /\ Goto(p, "next")
    /\ UNCHANGED <<chainVars, useLogs, lastBlock, announced, mode, nonce, draft, auxVars>>

\* getDecision: a fulfilled request is passed over, for another a decision is
\* made, which takes long and never raises.
Look(p) ==
    /\ step[p] = "next" /\ at[p] < until[p]
    /\ IF decision[at[p]] # NoDecision
       THEN at' = [at EXCEPT ![p] = @ + 1] /\ UNCHANGED <<step, draft>>
       ELSE /\ \E d \in Decisions : draft' = [draft EXCEPT ![p] = d]
            /\ Goto(p, "nonce") /\ UNCHANGED at
    /\ UNCHANGED <<chainVars, useLogs, lastBlock, announced, mode, until, nonce, auxVars>>

\* get_transaction_count, which does not count pending transactions.
ReadNonce(p) ==
    /\ step[p] = "nonce"
    /\ nonce' = [nonce EXCEPT ![p] = txCount]
    /\ Goto(p, "build")
    /\ UNCHANGED <<chainVars, useLogs, lastBlock, announced, mode, at, until, draft, auxVars>>

\* Mutant of Build: the gas is given, so nothing is estimated.
BuildBlind(p) ==
    /\ step[p] = "build"
    /\ Goto(p, "send")
    /\ UNCHANGED <<chainVars, useLogs, lastBlock, announced, mode, at, until, nonce, draft, auxVars>>

\* build_transaction encodes the answer and estimates the gas, which raises if
\* the call would revert.  An answer that cannot be encoded, or costs more than
\* a block holds, raises here as NodeFails does, a bounded number of times; one
\* that fails whenever it is given is not represented.
Build(p) ==
    /\ step[p] = "build"
    /\ IF decision[at[p]] = NoDecision
       THEN Goto(p, "send") /\ UNCHANGED <<mode, at, until, nonce, draft>>
       ELSE Raise(p)
    /\ UNCHANGED <<chainVars, useLogs, lastBlock, announced, auxVars>>

\* Mutant of Submit: the nonce is read again when the transaction is signed.
SubmitFresh(p) ==
    /\ pool' = [id |-> at[p], decision |-> draft[p]]
    /\ vanished' = (vanished \/ pool # NoTx)
    /\ UNCHANGED <<asked, decision, spent, txCount>>

\* The node takes a transaction with the next nonce if none is pending, or in
\* the place of the pending one if it offers enough.
Submit(p) ==
    /\ nonce[p] = txCount
    /\ pool' = [id |-> at[p], decision |-> draft[p]]
    /\ vanished' = (vanished \/ pool # NoTx)
    /\ UNCHANGED <<asked, decision, spent, txCount>>

Refused(p) == nonce[p] # txCount \/ pool # NoTx

\* Counted to 2.
Announce(r) == announced' = [announced EXCEPT ![r] = IF @ < 2 THEN @ + 1 ELSE 2]

\* send_raw_transaction, then oracle.fulfilled without waiting for a receipt.
Send(p) ==
    /\ step[p] = "send"
    /\ \/ /\ Submit(p)
          /\ \/ pool = NoTx /\ Announce(at[p]) /\ UNCHANGED faults
             \/ pool = NoTx /\ Fault("broker") /\ UNCHANGED announced
             \/ pool # NoTx /\ Fault("replace") /\ Announce(at[p])
          /\ at' = [at EXCEPT ![p] = @ + 1]
          /\ Goto(p, "next")
          /\ ForgetRequest(p)
          /\ UNCHANGED <<mode, until>>
       \/ /\ pool = NoTx
          /\ Submit(p)
          /\ Fault("answer")
          /\ Raise(p)
          /\ UNCHANGED announced
       \/ /\ Refused(p)
          /\ Raise(p)
          /\ UNCHANGED <<chainVars, announced, auxVars>>
    /\ UNCHANGED <<useLogs, lastBlock>>

\* Mutants of Finish: the blocks up to the present head count as scanned; one
\* block is skipped.
FinishAtHead(p) ==
    /\ step[p] = "next" /\ at[p] >= until[p]
    /\ lastBlock' = IF mode[p] = "logs" THEN asked ELSE lastBlock
    /\ Goto(p, "idle")
    /\ mode' = [mode EXCEPT ![p] = "ids"]
    /\ ForgetScan(p)
    /\ UNCHANGED <<chainVars, useLogs, announced, nonce, draft, auxVars>>
FinishPast(p) ==
    /\ step[p] = "next" /\ at[p] >= until[p]
    /\ lastBlock' = IF mode[p] = "logs" THEN until[p] + 1 ELSE lastBlock
    /\ Goto(p, "idle")
    /\ mode' = [mode EXCEPT ![p] = "ids"]
    /\ ForgetScan(p)
    /\ UNCHANGED <<chainVars, useLogs, announced, nonce, draft, auxVars>>

\* The events up to the block that was the latest when the scan began.
Finish(p) ==
    /\ step[p] = "next" /\ at[p] >= until[p]
    /\ lastBlock' = IF mode[p] = "logs" THEN until[p] ELSE lastBlock
    /\ Goto(p, "idle")
    /\ mode' = [mode EXCEPT ![p] = "ids"]
    /\ ForgetScan(p)
    /\ UNCHANGED <<chainVars, useLogs, announced, nonce, draft, auxVars>>

\* Every step of a poll calls the node.
NodeFails(p) ==
    /\ step[p] # "idle"
    /\ Fault("rpc")
    /\ Raise(p)
    /\ UNCHANGED <<chainVars, useLogs, lastBlock, announced, vanished>>

Work(p) ==
    \/ Scan(p) \/ Count(p) \/ Look(p)
    \/ ReadNonce(p) \/ Build(p) \/ Send(p) \/ Finish(p)

-----------------------------------------------------------------------------
(* Around the bridge.                                                      *)

RequestDecision ==
    /\ asked < MaxRequests
    /\ asked' = asked + 1
    /\ UNCHANGED <<decision, spent, txCount, pool, useLogs, lastBlock, announced, pollVars, auxVars>>

\* fulfillDecision reverts for a request that is fulfilled already.
Mine ==
    /\ pool # NoTx
    /\ pool' = NoTx
    /\ txCount' = txCount + 1
    /\ IF pool = ForeignTx THEN UNCHANGED <<decision, spent>>
       ELSE /\ spent' = spent + 1
            /\ decision' = IF decision[pool.id] = NoDecision
                           THEN [decision EXCEPT ![pool.id] = pool.decision] ELSE decision
    /\ UNCHANGED <<asked, useLogs, lastBlock, announced, pollVars, auxVars>>

Drop ==
    /\ pool # NoTx
    /\ Fault("drop")
    /\ pool' = NoTx
    /\ vanished' = TRUE
    /\ UNCHANGED <<asked, decision, spent, txCount, useLogs, lastBlock, announced, pollVars>>

ForeignSends ==
    /\ pool = NoTx
    /\ Fault("foreign")
    /\ pool' = ForeignTx
    /\ UNCHANGED <<asked, decision, spent, txCount, useLogs, lastBlock, announced, pollVars, vanished>>

\* The bridge is started again and scans from block 0.
Restart ==
    /\ Fault("restart")
    /\ step' = [p \in Pollers |-> "idle"]
    /\ mode' = [p \in Pollers |-> "ids"]
    /\ at' = [p \in Pollers |-> 0]
    /\ until' = [p \in Pollers |-> 0]
    /\ nonce' = [p \in Pollers |-> 0]
    /\ draft' = [p \in Pollers |-> NoDecision]
    /\ lastBlock' = 0
    /\ UNCHANGED <<chainVars, useLogs, announced, vanished>>

Next ==
    \/ \E p \in Pollers : Poll(p) \/ Work(p) \/ NodeFails(p)
    \/ RequestDecision \/ Mine \/ Drop \/ ForeignSends \/ Restart

Spec == Init /\ [][Next]_vars

\* The listener loops for ever, a poll goes on once begun since all its calls
\* have timeouts, and a pending transaction is mined if it does not vanish.
FairSpec ==
    /\ Spec /\ WF_vars(Mine) /\ WF_vars(Poll(Listener))
    /\ \A p \in Pollers : WF_vars(Work(p))

-----------------------------------------------------------------------------
Steps == {"idle", "scan", "count", "next", "nonce", "build", "send"}

TypeOK ==
    /\ asked \in 0..MaxRequests
    /\ decision \in [Requests -> Decisions \cup {NoDecision}]
    /\ spent \in Nat /\ txCount \in Nat
    /\ pool \in Txs
    /\ useLogs \in LogModes
    /\ lastBlock \in 0..MaxRequests
    /\ announced \in [Requests -> 0..2]
    /\ step \in [Pollers -> Steps]
    /\ mode \in [Pollers -> {"logs", "ids"}]
    /\ at \in [Pollers -> 0..MaxRequests]
    /\ until \in [Pollers -> 0..MaxRequests]
    /\ nonce \in [Pollers -> Nat]
    /\ draft \in [Pollers -> Decisions \cup {NoDecision}]
    /\ faults \in 0..MaxFaults
    /\ vanished \in BOOLEAN

\* No transaction the bridge has sent can revert: whatever the two pollers,
\* restarts and lost answers do, a pending fulfilment is of a request that is
\* still open.  It is the nonce, read before the estimate, that sees to it.
PendingStillOpen ==
    pool \notin {NoTx, ForeignTx} => decision[pool.id] = NoDecision

\* Unless a pending transaction vanished, oracle.fulfilled is published at
\* most once for a request, and only if it is fulfilled or about to be.
AnnouncedTruthfully ==
    ~vanished =>
        \A r \in Requests :
            /\ announced[r] <= 1
            /\ announced[r] = 1 => decision[r] # NoDecision \/ pool.id = r

\* The scanned blocks hold no request that is neither fulfilled nor pending,
\* as long as no transaction vanished: nothing is left behind by the log scan.
ScannedAreServed ==
    ~vanished =>
        \A r \in Requests : r < lastBlock => decision[r] # NoDecision \/ pool.id = r

\* The bridge and the contract together keep the promise to those who ask.
Contract == INSTANCE OracleContract
ContractSpec == Contract!Spec

\* Every request is fulfilled in the end, in both modes, unless in log mode a
\* transaction vanished.
EveryRequestFulfilled ==
    \A r \in Requests :
        asked > r ~> (decision[r] # NoDecision \/ (useLogs /\ vanished))

\* The claim of RFC-0008 section 9 about the log scan and its fallback: "so it
\* never misses a request".
NeverMissesARequest ==
    \A r \in Requests : asked > r ~> decision[r] # NoDecision
=============================================================================
