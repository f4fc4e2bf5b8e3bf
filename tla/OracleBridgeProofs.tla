-------------------------- MODULE OracleBridgeProofs -------------------------
(***************************************************************************)
(* Proofs about OracleBridge for any number of pollers and requests, both  *)
(* modes and every combination of faults.                                  *)
(***************************************************************************)
EXTENDS OracleBridge, TLAPS

Served(r) == decision[r] # NoDecision \/ pool.id = r

\* What a poller knows about the chain.  A transaction it may still send is of
\* a request that was open after its nonce was read, so if the nonce is still
\* the next one the request is still open.
Knows(p) ==
    /\ nonce[p] <= txCount
    /\ until[p] <= asked
    /\ step[p] \in {"nonce", "build", "send"} => at[p] < until[p] /\ draft[p] \in Decisions
    /\ step[p] = "send" /\ nonce[p] = txCount => decision[at[p]] = NoDecision
    /\ ~vanished /\ mode[p] = "logs" /\ step[p] # "scan" =>
           \A r \in Requests : r < at[p] => Served(r)

ChainOK ==
    /\ PendingStillOpen
    /\ pool \notin {NoTx, ForeignTx} => pool.id < asked
    /\ lastBlock <= asked

Inv ==
    /\ TypeOK /\ ChainOK
    /\ AnnouncedTruthfully /\ ScannedAreServed
    /\ \A p \in Pollers : Knows(p)

LEMMA Bounds == MaxRequests \in Nat /\ MaxFaults \in Nat
BY OracleBounds

LEMMA DecisionTypes ==
    /\ NoDecision \notin Decisions
    /\ NoTx.id = -1 /\ ForeignTx.id = -2 /\ NoTx # ForeignTx
<1>1. \A a, b \in BOOLEAN : Verify(a, b).confidence >= 0
  BY DEF Verify, Decision, TruthScore
<1>2. NoDecision.confidence = -1
  BY DEF NoDecision
<1>3. NoDecision \notin Decisions
  BY <1>1, <1>2, OracleAssumption DEF Decisions
<1>4. QED
  BY <1>3 DEF NoTx, ForeignTx

\* A pending fulfilment names a request and a decision.
LEMMA PoolTypes ==
    ASSUME pool \in Txs, pool # NoTx, pool # ForeignTx
    PROVE  pool.id \in Requests /\ pool.decision \in Decisions
BY DEF Txs

LEMMA InvInit == Init => Inv
<1> SUFFICES ASSUME Init PROVE Inv
  OBVIOUS
<1>1. TypeOK
  <2>1. pool \in Txs /\ useLogs \in LogModes
    BY DEF Init, Txs
  <2>2. step \in [Pollers -> Steps] /\ mode \in [Pollers -> {"logs", "ids"}]
    BY DEF Init, Steps
  <2>3. /\ at \in [Pollers -> 0..MaxRequests] /\ until \in [Pollers -> 0..MaxRequests]
        /\ nonce \in [Pollers -> Nat]
        /\ draft \in [Pollers -> Decisions \cup {NoDecision}]
    BY Bounds DEF Init
  <2>4. /\ decision \in [Requests -> Decisions \cup {NoDecision}]
        /\ announced \in [Requests -> 0..2]
    BY Bounds DEF Init
  <2>5. /\ asked \in 0..MaxRequests /\ lastBlock \in 0..MaxRequests /\ faults \in 0..MaxFaults
        /\ spent \in Nat /\ txCount \in Nat
    BY Bounds DEF Init
  <2>v. vanished \in BOOLEAN
    BY Zenon DEF Init
  <2>6. QED
    BY <2>1, <2>2, <2>3, <2>4, <2>5, <2>v DEF TypeOK
<1>2. ChainOK
  BY DEF Init, ChainOK, PendingStillOpen
<1>3. AnnouncedTruthfully /\ ScannedAreServed
  BY Bounds DEF Init, AnnouncedTruthfully, ScannedAreServed, Requests
<1>4. ASSUME NEW p \in Pollers PROVE Knows(p)
  BY Bounds DEF Init, Knows, Requests
<1>5. QED
  BY <1>1, <1>2, <1>3, <1>4 DEF Inv

-----------------------------------------------------------------------------
(* The steps of a poller that leave the chain alone.                       *)

ChainStays == UNCHANGED <<chainVars, useLogs, lastBlock, announced, vanished>>

LocalsTyped ==
    /\ step \in [Pollers -> Steps]
    /\ mode \in [Pollers -> {"logs", "ids"}]
    /\ at \in [Pollers -> 0..MaxRequests]
    /\ until \in [Pollers -> 0..MaxRequests]
    /\ nonce \in [Pollers -> Nat]
    /\ draft \in [Pollers -> Decisions \cup {NoDecision}]
    /\ faults \in 0..MaxFaults

\* The locals of the other pollers.
OthersStay(p) ==
    \A q \in Pollers \ {p} :
        /\ step'[q] = step[q] /\ mode'[q] = mode[q] /\ at'[q] = at[q]
        /\ until'[q] = until[q] /\ nonce'[q] = nonce[q] /\ draft'[q] = draft[q]

LEMMA LocalStep ==
    ASSUME Inv, NEW p \in Pollers, ChainStays, OthersStay(p), LocalsTyped', Knows(p)'
    PROVE  Inv'
<1>1. TypeOK'
  BY DEF Inv, TypeOK, ChainStays, chainVars, LocalsTyped
<1>2. ChainOK' /\ AnnouncedTruthfully' /\ ScannedAreServed'
  BY DEF Inv, ChainOK, PendingStillOpen, AnnouncedTruthfully, ScannedAreServed, ChainStays, chainVars
<1>3. ASSUME NEW q \in Pollers PROVE Knows(q)'
  <2>1. CASE q = p
    BY <2>1
  <2>2. CASE q # p
    BY <2>2 DEF Inv, Knows, Served, OthersStay, ChainStays, chainVars
  <2>3. QED
    BY <2>1, <2>2
<1>4. QED
  BY <1>1, <1>2, <1>3 DEF Inv

LEMMA RaiseLocal ==
    ASSUME Inv, NEW p \in Pollers, Raise(p), faults' \in 0..MaxFaults,
           txCount' = txCount, asked' = asked
    PROVE  OthersStay(p) /\ LocalsTyped' /\ Knows(p)'
<1>1. LocalsTyped'
  BY Bounds DEF Inv, TypeOK, Raise, Goto, ForgetRequest, ForgetScan, LocalsTyped, Steps
<1>2. OthersStay(p)
  BY DEF Inv, TypeOK, Raise, Goto, ForgetRequest, ForgetScan, OthersStay
<1>3. Knows(p)'
  BY Bounds DEF Inv, TypeOK, Raise, Goto, ForgetRequest, ForgetScan, Knows
<1>4. QED
  BY <1>1, <1>2, <1>3

LEMMA PollOK == ASSUME Inv, NEW p \in Pollers, Poll(p) PROVE Inv'
<1>1. ChainStays
  BY DEF Poll, ChainStays, auxVars
<1>2. OthersStay(p) /\ LocalsTyped'
  BY Bounds DEF Inv, TypeOK, Poll, Goto, OthersStay, LocalsTyped, Steps, chainVars, auxVars
<1>3. Knows(p)'
  BY Bounds DEF Inv, TypeOK, Poll, Goto, Knows, Steps, chainVars, auxVars, Served
<1>4. QED
  BY <1>1, <1>2, <1>3, LocalStep

LEMMA ScanOK == ASSUME Inv, NEW p \in Pollers, Scan(p) PROVE Inv'
<1>1. ChainStays
  BY DEF Scan, ChainStays, auxVars
<1>2. OthersStay(p) /\ LocalsTyped'
  BY Bounds DEF Inv, TypeOK, Scan, Goto, OthersStay, LocalsTyped, Steps, chainVars, auxVars
<1>3. Knows(p)'
  BY Bounds DEF Inv, TypeOK, ScannedAreServed, Scan, Goto, Knows, Steps, chainVars, auxVars, Served
<1>4. QED
  BY <1>1, <1>2, <1>3, LocalStep

LEMMA CountOK == ASSUME Inv, NEW p \in Pollers, Count(p) PROVE Inv'
<1>1. ChainStays
  BY DEF Count, ChainStays, auxVars
<1>2. OthersStay(p) /\ LocalsTyped'
  BY Bounds DEF Inv, TypeOK, Count, Goto, OthersStay, LocalsTyped, Steps, chainVars, auxVars
<1>3. Knows(p)'
  BY Bounds DEF Inv, TypeOK, Count, Goto, Knows, Steps, chainVars, auxVars, Served, Requests
<1>4. QED
  BY <1>1, <1>2, <1>3, LocalStep

LEMMA LookOK == ASSUME Inv, NEW p \in Pollers, Look(p) PROVE Inv'
<1>1. ChainStays
  BY DEF Look, ChainStays, auxVars
<1>t. at[p] \in Requests /\ Knows(p) /\ at[p] + 1 <= MaxRequests
  BY Bounds DEF Inv, TypeOK, Look, Requests
<1>2. OthersStay(p) /\ LocalsTyped'
  BY <1>t, Bounds DEF Inv, TypeOK, Look, Goto, OthersStay, LocalsTyped, Steps, chainVars, auxVars
<1>3. Knows(p)'
  <2>1. CASE decision[at[p]] # NoDecision
    <3>1. at'[p] = at[p] + 1 /\ step'[p] = "next" /\ nonce' = nonce /\ until' = until /\ mode' = mode
      BY <2>1, <1>t DEF Inv, TypeOK, Look
    <3>2. \A r \in Requests : r < at[p] + 1 => r < at[p] \/ r = at[p]
      BY <1>t, Bounds DEF Requests
    <3>3. UNCHANGED <<decision, pool, vanished, asked, txCount>>
      BY DEF Look, chainVars, auxVars
    <3>4. step[p] = "next"
      BY DEF Look
    <3>5. QED
      BY <1>t, <2>1, <3>1, <3>2, <3>3, <3>4 DEF Knows, Served
  <2>2. CASE decision[at[p]] = NoDecision
    BY <2>2, <1>t, Bounds DEF Inv, TypeOK, Look, Goto, Knows, Steps, chainVars, auxVars, Served
  <2>3. QED
    BY <2>1, <2>2
<1>4. QED
  BY <1>1, <1>2, <1>3, LocalStep

LEMMA ReadNonceOK == ASSUME Inv, NEW p \in Pollers, ReadNonce(p) PROVE Inv'
<1>1. ChainStays
  BY DEF ReadNonce, ChainStays, auxVars
<1>2. OthersStay(p) /\ LocalsTyped'
  BY Bounds DEF Inv, TypeOK, ReadNonce, Goto, OthersStay, LocalsTyped, Steps, chainVars, auxVars
<1>3. Knows(p)'
  BY Bounds DEF Inv, TypeOK, ReadNonce, Goto, Knows, Steps, chainVars, auxVars, Served
<1>4. QED
  BY <1>1, <1>2, <1>3, LocalStep

LEMMA BuildOK == ASSUME Inv, NEW p \in Pollers, Build(p) PROVE Inv'
<1>1. ChainStays
  BY DEF Build, ChainStays, auxVars
<1>2. CASE decision[at[p]] = NoDecision
  <2>1. OthersStay(p) /\ LocalsTyped'
    BY <1>2, Bounds DEF Inv, TypeOK, Build, Goto, OthersStay, LocalsTyped, Steps, chainVars, auxVars
  <2>2. Knows(p)'
    BY <1>2, Bounds DEF Inv, TypeOK, Build, Goto, Knows, Steps, chainVars, auxVars, Served
  <2>3. QED
    BY <1>1, <2>1, <2>2, LocalStep
<1>3. CASE decision[at[p]] # NoDecision
  <2>1. Raise(p) /\ faults' \in 0..MaxFaults /\ txCount' = txCount /\ asked' = asked
    BY <1>3 DEF Inv, TypeOK, Build, chainVars, auxVars
  <2>2. OthersStay(p) /\ LocalsTyped' /\ Knows(p)'
    BY <2>1, RaiseLocal
  <2>3. QED
    BY <1>1, <2>2, LocalStep
<1>4. QED
  BY <1>2, <1>3

LEMMA FaultOK == ASSUME Inv, NEW kind, Fault(kind) PROVE faults' \in 0..MaxFaults
BY Bounds DEF Inv, TypeOK, Fault

LEMMA NodeFailsOK == ASSUME Inv, NEW p \in Pollers, NodeFails(p) PROVE Inv'
<1>1. ChainStays
  BY DEF NodeFails, ChainStays, auxVars
<1>2. Raise(p) /\ faults' \in 0..MaxFaults /\ txCount' = txCount /\ asked' = asked
  BY FaultOK DEF NodeFails, chainVars
<1>3. OthersStay(p) /\ LocalsTyped' /\ Knows(p)'
  BY <1>2, RaiseLocal
<1>4. QED
  BY <1>1, <1>3, LocalStep

\* The log scan ends: what it has walked through is served.
LEMMA FinishOK == ASSUME Inv, NEW p \in Pollers, Finish(p) PROVE Inv'
<1>1. UNCHANGED <<chainVars, useLogs, announced, vanished, faults, nonce, draft>>
  BY DEF Finish, auxVars
<1>2. Knows(p) /\ until[p] \in 0..MaxRequests /\ at[p] \in 0..MaxRequests /\ at[p] >= until[p]
  BY DEF Inv, TypeOK, Finish
<1>3. OthersStay(p) /\ LocalsTyped' /\ Knows(p)'
  BY <1>1, <1>2, Bounds DEF Inv, TypeOK, Finish, Goto, ForgetScan, OthersStay, LocalsTyped, Steps, chainVars, Knows, Served, Requests
<1>4. lastBlock' \in 0..MaxRequests /\ lastBlock' <= asked
  BY <1>2 DEF Inv, TypeOK, ChainOK, Finish, Knows
<1>5. TypeOK'
  BY <1>1, <1>3, <1>4 DEF Inv, TypeOK, chainVars, LocalsTyped
<1>6. ChainOK' /\ AnnouncedTruthfully'
  BY <1>1, <1>4 DEF Inv, ChainOK, PendingStillOpen, AnnouncedTruthfully, chainVars
<1>7. ScannedAreServed'
  <2>1. CASE mode[p] = "logs"
    <3>1. lastBlock' = until[p] /\ step[p] = "next"
      BY <2>1 DEF Finish
    <3>2. \A r \in Requests : r < until[p] => r < at[p]
      BY <1>2, Bounds DEF Requests
    <3>3. QED
      BY <1>1, <1>2, <2>1, <3>1, <3>2 DEF Knows, Served, ScannedAreServed, chainVars
  <2>2. CASE mode[p] # "logs"
    BY <1>1, <2>2 DEF Inv, Finish, ScannedAreServed, chainVars
  <2>3. QED
    BY <2>1, <2>2
<1>8. ASSUME NEW q \in Pollers PROVE Knows(q)'
  <2>1. CASE q = p
    BY <2>1, <1>3
  <2>2. CASE q # p
    BY <1>1, <1>3, <2>2 DEF Inv, Knows, Served, OthersStay, chainVars
  <2>3. QED
    BY <2>1, <2>2
<1>9. QED
  BY <1>5, <1>6, <1>7, <1>8 DEF Inv

-----------------------------------------------------------------------------
(* The transaction is sent.                                                *)

\* What a submission changes on the chain.
LEMMA SubmitOK ==
    ASSUME Inv, NEW p \in Pollers, step[p] = "send", Submit(p)
    PROVE  /\ at[p] \in Requests /\ at[p] < asked /\ at[p] + 1 <= until[p]
           /\ pool' \in Txs /\ pool'.id = at[p]
           /\ decision[at[p]] = NoDecision
           /\ UNCHANGED <<asked, decision, spent, txCount>>
           /\ vanished' \in BOOLEAN /\ (~vanished' => ~vanished /\ pool = NoTx)
<1>1. Knows(p) /\ nonce[p] = txCount
  BY DEF Inv, Submit
<1>2. at[p] \in Requests /\ at[p] < asked /\ draft[p] \in Decisions /\ at[p] + 1 <= until[p]
  BY <1>1, Bounds DEF Inv, TypeOK, Knows, Requests
<1>3. pool' = [id |-> at[p], decision |-> draft[p]]
  BY DEF Submit
<1>4. pool' \in Txs /\ pool'.id = at[p]
  BY <1>2, <1>3 DEF Txs
<1>5. QED
  BY <1>1, <1>2, <1>4 DEF Submit, Knows, Inv, TypeOK

\* Whether the event was published, lost or never sent.
LEMMA SubmittedOK ==
    ASSUME Inv, NEW p \in Pollers, step[p] = "send", Submit(p),
           Announce(at[p]) \/ UNCHANGED announced,
           UNCHANGED <<useLogs, lastBlock>>,
           LocalsTyped', OthersStay(p),
           nonce'[p] = 0 /\ until'[p] <= asked /\ step'[p] \in {"idle", "count", "next"},
           mode'[p] = "ids" \/ (mode'[p] = mode[p] /\ at'[p] = at[p] + 1)
    PROVE  Inv'
<1>1. /\ at[p] \in Requests /\ at[p] < asked /\ pool' \in Txs /\ pool'.id = at[p]
      /\ decision[at[p]] = NoDecision
      /\ UNCHANGED <<asked, decision, spent, txCount>>
      /\ vanished' \in BOOLEAN /\ (~vanished' => ~vanished /\ pool = NoTx)
  BY SubmitOK
<1>2. announced' \in [Requests -> 0..2]
  BY <1>1 DEF Inv, TypeOK, Announce
<1>3. TypeOK'
  BY <1>1, <1>2 DEF Inv, TypeOK, LocalsTyped
<1>4. ChainOK'
  BY <1>1 DEF Inv, ChainOK, PendingStillOpen
<1>5. \A r \in Requests : ~vanished' /\ Served(r) => Served(r)'
  BY <1>1, DecisionTypes DEF Served, Requests
<1>6. AnnouncedTruthfully'
  <2> SUFFICES ASSUME ~vanished', NEW r \in Requests
               PROVE  announced'[r] <= 1 /\ (announced'[r] = 1 => Served(r)')
    BY DEF AnnouncedTruthfully, Served
  <2>1. announced[r] <= 1 /\ (announced[r] = 1 => Served(r)) /\ announced[r] \in 0..2
    BY <1>1 DEF Inv, TypeOK, AnnouncedTruthfully, Served
  <2>2. CASE r = at[p]
    <3>1. ~Served(r)
      BY <2>2, <1>1, DecisionTypes DEF Served, Requests
    <3>2. announced[r] = 0
      BY <2>1, <3>1
    <3>3. announced'[r] <= 1
      BY <1>1, <2>2, <3>2 DEF Inv, TypeOK, Announce
    <3>4. Served(r)'
      BY <1>1, <2>2 DEF Served
    <3>5. QED
      BY <3>3, <3>4
  <2>3. CASE r # at[p]
    <3>1. announced'[r] = announced[r]
      BY <2>3, <1>1 DEF Inv, TypeOK, Announce
    <3>2. QED
      BY <3>1, <2>1, <1>5
  <2>4. QED
    BY <2>2, <2>3
<1>7. ScannedAreServed'
  BY <1>1, <1>5 DEF Inv, ScannedAreServed, Served
<1>8. ASSUME NEW q \in Pollers PROVE Knows(q)'
  <2>1. CASE q = p
    <3>1. ASSUME ~vanished', mode'[p] = "logs", NEW r \in Requests, r < at'[p]
          PROVE  Served(r)'
      <4>1. mode[p] = "logs" /\ at'[p] = at[p] + 1
        BY <3>1
      <4>2. r < at[p] \/ r = at[p]
        BY <1>1, <3>1, <4>1, Bounds DEF Requests
      <4>3. r < at[p] => Served(r)
        BY <1>1, <3>1, <4>1 DEF Inv, Knows
      <4>4. r = at[p] => Served(r)'
        BY <1>1 DEF Served
      <4>5. QED
        BY <3>1, <4>2, <4>3, <4>4, <1>5
    <3>2. nonce'[p] <= txCount'
      BY <1>1 DEF Inv, TypeOK
    <3>3. QED
      BY <1>1, <2>1, <3>1, <3>2 DEF Knows
  <2>2. CASE q # p
    <3>1. Knows(q)
      BY DEF Inv
    <3>2. \A r \in Requests : ~vanished' /\ r < at[q] /\ mode[q] = "logs" /\ step[q] # "scan" => Served(r)'
      BY <3>1, <1>1, <1>5 DEF Knows
    <3>3. QED
      BY <2>2, <3>1, <3>2, <1>1 DEF Knows, OthersStay
  <2>3. QED
    BY <2>1, <2>2
<1>9. QED
  BY <1>3, <1>4, <1>6, <1>7, <1>8 DEF Inv

LEMMA SendOK == ASSUME Inv, NEW p \in Pollers, Send(p) PROVE Inv'
<1>s. step[p] = "send" /\ Knows(p) /\ UNCHANGED <<useLogs, lastBlock>>
  BY DEF Send, Inv
<1>1. CASE /\ Submit(p)
           /\ \/ pool = NoTx /\ Announce(at[p]) /\ UNCHANGED faults
              \/ pool = NoTx /\ Fault("broker") /\ UNCHANGED announced
              \/ pool # NoTx /\ Fault("replace") /\ Announce(at[p])
           /\ at' = [at EXCEPT ![p] = @ + 1]
           /\ Goto(p, "next")
           /\ ForgetRequest(p)
           /\ UNCHANGED <<mode, until>>
  <2>1. Announce(at[p]) \/ UNCHANGED announced
    BY <1>1
  <2>2. faults' \in 0..MaxFaults
    BY <1>1, FaultOK DEF Inv, TypeOK
  <2>3. at[p] + 1 <= until[p] /\ at[p] \in Requests /\ until[p] \in 0..MaxRequests
    BY <1>1, <1>s, SubmitOK DEF Inv, TypeOK
  <2>4. LocalsTyped' /\ OthersStay(p)
    BY <1>1, <2>2, <2>3, Bounds DEF Inv, TypeOK, Goto, ForgetRequest, LocalsTyped, OthersStay, Steps, Requests
  <2>5. /\ nonce'[p] = 0 /\ until'[p] <= asked /\ step'[p] = "next"
        /\ mode'[p] = mode[p] /\ at'[p] = at[p] + 1
    BY <1>1, <1>s DEF Inv, TypeOK, Goto, ForgetRequest, Knows
  <2>6. QED
    BY <1>1, <1>s, <2>1, <2>4, <2>5, SubmittedOK
<1>2. CASE pool = NoTx /\ Submit(p) /\ Fault("answer") /\ Raise(p) /\ UNCHANGED announced
  <2>1. faults' \in 0..MaxFaults /\ txCount' = txCount /\ asked' = asked
    BY <1>2, FaultOK DEF Submit
  <2>2. LocalsTyped' /\ OthersStay(p)
    BY <1>2, <2>1, RaiseLocal
  <2>3. /\ nonce'[p] = 0 /\ until'[p] <= asked /\ step'[p] \in {"idle", "count"}
        /\ mode'[p] = "ids"
    BY <1>2 DEF Inv, TypeOK, Raise, Goto, ForgetRequest, ForgetScan
  <2>4. QED
    BY <1>2, <1>s, <2>2, <2>3, SubmittedOK
<1>3. CASE Refused(p) /\ Raise(p) /\ UNCHANGED <<chainVars, announced, auxVars>>
  <2>1. ChainStays /\ faults' \in 0..MaxFaults /\ txCount' = txCount /\ asked' = asked
    BY <1>3, <1>s DEF ChainStays, chainVars, auxVars, Inv, TypeOK
  <2>2. OthersStay(p) /\ LocalsTyped' /\ Knows(p)'
    BY <1>3, <2>1, RaiseLocal
  <2>3. QED
    BY <2>1, <2>2, LocalStep
<1>4. QED
  BY <1>1, <1>2, <1>3, Zenon DEF Send

-----------------------------------------------------------------------------
(* The chain and its other users.                                          *)

\* A step of somebody else: what the pollers know stays true.
LEMMA PollersStay ==
    ASSUME Inv, UNCHANGED pollVars, txCount' >= txCount, asked' >= asked,
           txCount' \in Nat, asked' \in 0..MaxRequests,
           txCount' = txCount => UNCHANGED decision,
           vanished => vanished',
           \A r \in Requests : ~vanished' /\ Served(r) => Served(r)'
    PROVE  \A p \in Pollers : Knows(p)'
<1> SUFFICES ASSUME NEW p \in Pollers PROVE Knows(p)'
  OBVIOUS
<1>1. Knows(p) /\ nonce[p] \in Nat /\ txCount \in Nat /\ asked \in Int /\ until[p] \in Int
  BY Bounds DEF Inv, TypeOK
<1>2. nonce'[p] = txCount' => txCount' = txCount
  BY <1>1 DEF pollVars, Knows
<1>3. QED
  BY <1>1, <1>2 DEF pollVars, Knows

LEMMA RequestOK == ASSUME Inv, RequestDecision PROVE Inv'
<1>1. UNCHANGED <<decision, spent, txCount, pool, useLogs, lastBlock, announced, pollVars, auxVars>>
      /\ asked' = asked + 1 /\ asked' \in 0..MaxRequests
  BY Bounds DEF Inv, TypeOK, RequestDecision
<1>2. TypeOK'
  BY <1>1 DEF Inv, TypeOK, pollVars, auxVars
<1>3. ChainOK' /\ AnnouncedTruthfully' /\ ScannedAreServed'
  BY <1>1, Bounds, PoolTypes DEF Inv, TypeOK, ChainOK, PendingStillOpen, AnnouncedTruthfully, ScannedAreServed, auxVars, Requests
<1>4. \A p \in Pollers : Knows(p)'
  BY <1>1, PollersStay DEF Served, auxVars, Inv, TypeOK
<1>5. QED
  BY <1>2, <1>3, <1>4 DEF Inv

LEMMA MineOK == ASSUME Inv, Mine PROVE Inv'
<1>1. UNCHANGED <<asked, useLogs, lastBlock, announced, pollVars, auxVars>>
      /\ pool' = NoTx /\ pool # NoTx /\ txCount' = txCount + 1
  BY DEF Mine
<1>2. /\ decision' \in [Requests -> Decisions \cup {NoDecision}] /\ spent' \in Nat
      /\ \A r \in Requests : Served(r) => Served(r)'
  <2>1. CASE pool = ForeignTx
    BY <2>1, DecisionTypes DEF Mine, Inv, TypeOK, Served, Requests
  <2>2. CASE pool # ForeignTx
    <3>1. pool.id \in Requests /\ pool.decision \in Decisions /\ decision[pool.id] = NoDecision
      BY <1>1, <2>2, PoolTypes DEF Inv, TypeOK, ChainOK, PendingStillOpen
    <3>2. decision' = [decision EXCEPT ![pool.id] = pool.decision] /\ spent' = spent + 1
      BY <3>1, <2>2 DEF Mine
    <3>3. QED
      BY <3>1, <3>2, DecisionTypes DEF Inv, TypeOK, Served
  <2>3. QED
    BY <2>1, <2>2
<1>3. TypeOK'
  <2>1. NoTx \in Txs
    BY DEF Txs
  <2>2. QED
    BY <1>1, <1>2, <2>1 DEF Inv, TypeOK, pollVars, auxVars
<1>4. ChainOK' /\ AnnouncedTruthfully' /\ ScannedAreServed'
  BY <1>1, <1>2 DEF Inv, ChainOK, PendingStillOpen, AnnouncedTruthfully, ScannedAreServed, Served, auxVars
<1>5. \A p \in Pollers : Knows(p)'
  <2>1. /\ txCount' >= txCount /\ txCount' \in Nat /\ txCount' # txCount
        /\ asked' = asked /\ asked \in 0..MaxRequests /\ asked' >= asked
    BY <1>1, Bounds DEF Inv, TypeOK
  <2>2. QED
    BY <1>1, <1>2, <2>1, PollersStay DEF auxVars
<1>6. QED
  BY <1>3, <1>4, <1>5 DEF Inv

\* A pending transaction vanishes, or somebody else's takes the nonce.
LEMMA PoolMovesOK == ASSUME Inv, Drop \/ ForeignSends PROVE Inv'
<1>1. UNCHANGED <<asked, decision, spent, txCount, useLogs, lastBlock, announced, pollVars>>
      /\ faults' \in 0..MaxFaults /\ pool' \in {NoTx, ForeignTx}
      /\ (vanished' = TRUE \/ (vanished' = vanished /\ pool = NoTx))
  BY FaultOK DEF Drop, ForeignSends
<1>2. TypeOK'
  BY <1>1 DEF Inv, TypeOK, pollVars, Txs
<1>3. \A r \in Requests : ~vanished' /\ Served(r) => Served(r)'
  BY <1>1, DecisionTypes DEF Served, Requests
<1>4. ChainOK' /\ AnnouncedTruthfully' /\ ScannedAreServed'
  BY <1>1, <1>3 DEF Inv, ChainOK, PendingStillOpen, AnnouncedTruthfully, ScannedAreServed, Served
<1>5. \A p \in Pollers : Knows(p)'
  BY <1>1, <1>3, Bounds, PollersStay DEF Inv, TypeOK
<1>6. QED
  BY <1>2, <1>4, <1>5 DEF Inv

LEMMA RestartOK == ASSUME Inv, Restart PROVE Inv'
<1>1. UNCHANGED <<chainVars, useLogs, announced, vanished>>
      /\ lastBlock' = 0 /\ faults' \in 0..MaxFaults
  BY FaultOK DEF Restart
<1>2. LocalsTyped'
  BY <1>1, Bounds DEF Restart, LocalsTyped, Steps
<1>3. TypeOK'
  BY <1>1, <1>2, Bounds DEF Inv, TypeOK, LocalsTyped, chainVars
<1>4. ChainOK' /\ AnnouncedTruthfully' /\ ScannedAreServed'
  BY <1>1, Bounds DEF Inv, TypeOK, ChainOK, PendingStillOpen, AnnouncedTruthfully, ScannedAreServed, chainVars, Requests
<1>5. \A p \in Pollers : Knows(p)'
  BY <1>1, Bounds DEF Inv, TypeOK, Restart, Knows, chainVars
<1>6. QED
  BY <1>3, <1>4, <1>5 DEF Inv

LEMMA InvStutter == ASSUME Inv, UNCHANGED vars PROVE Inv'
<1>1. TypeOK' /\ ChainOK' /\ AnnouncedTruthfully' /\ ScannedAreServed'
  BY DEF Inv, vars, chainVars, pollVars, auxVars, TypeOK, ChainOK, PendingStillOpen, AnnouncedTruthfully, ScannedAreServed
<1>2. \A p \in Pollers : Knows(p)'
  BY DEF Inv, vars, chainVars, pollVars, auxVars, Knows, Served
<1>3. QED
  BY <1>1, <1>2 DEF Inv

LEMMA InvNext == Inv /\ [Next]_vars => Inv'
<1> SUFFICES ASSUME Inv, [Next]_vars PROVE Inv'
  OBVIOUS
<1>1. ASSUME NEW p \in Pollers, Poll(p) PROVE Inv'
  BY <1>1, PollOK
<1>2. ASSUME NEW p \in Pollers, Work(p) PROVE Inv'
  BY <1>2, ScanOK, CountOK, LookOK, ReadNonceOK, BuildOK, SendOK, FinishOK DEF Work
<1>3. ASSUME NEW p \in Pollers, NodeFails(p) PROVE Inv'
  BY <1>3, NodeFailsOK
<1>4. CASE RequestDecision
  BY <1>4, RequestOK
<1>5. CASE Mine
  BY <1>5, MineOK
<1>6. CASE Drop \/ ForeignSends
  BY <1>6, PoolMovesOK
<1>7. CASE Restart
  BY <1>7, RestartOK
<1>8. CASE UNCHANGED vars
  BY <1>8, InvStutter
<1>9. QED
  BY <1>1, <1>2, <1>3, <1>4, <1>5, <1>6, <1>7, <1>8 DEF Next

\* The bridge keeps its types for any number of pollers and requests.
THEOREM OracleTypeCorrect == Spec => []TypeOK
BY InvInit, InvNext, PTL DEF Spec, Inv

\* No fulfilment the bridge has sent can revert: the nonce read before the gas
\* estimate makes the pollers, and other users of the account, exclude each
\* other.
THEOREM NothingReverts == Spec => []PendingStillOpen
<1>1. Inv => PendingStillOpen
  BY DEF Inv, ChainOK
<1>2. QED
  BY <1>1, InvInit, InvNext, PTL DEF Spec

\* Until a pending transaction vanishes, an oracle.fulfilled event is unique
\* and tells the truth.
THEOREM AnnouncementsTrue == Spec => []AnnouncedTruthfully
BY InvInit, InvNext, PTL DEF Spec, Inv

\* Until a pending transaction vanishes, the log scan leaves no request behind.
THEOREM LogScanComplete == Spec => []ScannedAreServed
BY InvInit, InvNext, PTL DEF Spec, Inv

-----------------------------------------------------------------------------
(* Refinement.                                                             *)

LEMMA MineAnswers ==
    ASSUME Inv, Mine
    PROVE  (\E r \in Requests : Contract!Answer(r)) \/ UNCHANGED Contract!vars
<1>1. CASE pool = ForeignTx
  BY <1>1 DEF Mine, Contract!vars
<1>2. CASE pool # ForeignTx
  <2>1. /\ pool.id \in Requests /\ pool.decision \in Decisions
        /\ decision[pool.id] = NoDecision /\ pool.id < asked
    BY <1>2, PoolTypes DEF Mine, Inv, TypeOK, ChainOK, PendingStillOpen
  <2>2. /\ decision' = [decision EXCEPT ![pool.id] = pool.decision]
        /\ spent' = spent + 1 /\ asked' = asked
    BY <1>2, <2>1 DEF Mine
  <2>3. Contract!Answer(pool.id)
    BY <2>1, <2>2 DEF Contract!Answer
  <2>4. QED
    BY <2>1, <2>3
<1>3. QED
  BY <1>1, <1>2

LEMMA ContractStep ==
    ASSUME Inv, [Next]_vars
    PROVE  [Contract!Ask \/ \E r \in Requests : Contract!Answer(r)]_(Contract!vars)
<1>1. CASE RequestDecision
  <2>1. Contract!Ask
    BY <1>1, Bounds DEF RequestDecision, Contract!Ask, Requests, Inv, TypeOK
  <2>2. QED
    BY <2>1
<1>2. CASE Mine
  BY <1>2, MineAnswers
<1>3. ASSUME NEW p \in Pollers, Poll(p) \/ Work(p) \/ NodeFails(p) PROVE UNCHANGED Contract!vars
  BY <1>3 DEF Poll, Work, NodeFails, Scan, Count, Look, ReadNonce, Build, Send, Submit, Finish, chainVars, Contract!vars
<1>4. CASE Drop \/ ForeignSends \/ Restart \/ UNCHANGED vars
  BY <1>4 DEF Drop, ForeignSends, Restart, vars, chainVars, Contract!vars
<1>5. QED
  BY <1>1, <1>2, <1>3, <1>4 DEF Next

\* The bridge and AEPXOracle.sol implement OracleContract: each request is
\* answered at most once, and every fulfilment paid for answers one.
THEOREM OracleRefinement == Spec => ContractSpec
<1>1. Init => Contract!Init
  BY DEF Init, Contract!Init
<1>2. Inv /\ [Next]_vars => [Contract!Ask \/ \E r \in Requests : Contract!Answer(r)]_(Contract!vars)
  BY ContractStep
<1>3. QED
  BY <1>1, <1>2, InvInit, InvNext, PTL DEF Spec, ContractSpec, Contract!Spec
=============================================================================
