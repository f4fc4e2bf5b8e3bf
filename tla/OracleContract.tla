--------------------------- MODULE OracleContract ----------------------------
(***************************************************************************)
(* What governance/contracts/AEPXOracle.sol and its fulfiller promise to a *)
(* contract that asks: requests are answered in any order, each at most    *)
(* once and for ever, and no fulfilment is paid for that answers nothing.  *)
(***************************************************************************)
EXTENDS Integers

CONSTANTS Requests, Decisions, NoDecision

VARIABLES
    asked,     \* nextRequestId
    decision,  \* what getDecision returns for each request
    spent      \* fulfilment transactions the fulfiller has paid for

vars == <<asked, decision, spent>>

Init ==
    /\ asked = 0
    /\ decision = [r \in Requests |-> NoDecision]
    /\ spent = 0

Ask ==
    /\ asked \in Requests
    /\ asked' = asked + 1
    /\ UNCHANGED <<decision, spent>>

Answer(r) ==
    /\ r < asked
    /\ decision[r] = NoDecision
    /\ \E d \in Decisions : decision' = [decision EXCEPT ![r] = d]
    /\ spent' = spent + 1
    /\ UNCHANGED asked

Spec == Init /\ [][Ask \/ \E r \in Requests : Answer(r)]_vars
=============================================================================
