------------------------------- MODULE Registry -------------------------------
(***************************************************************************)
(* The agents of services/registry/app/main.py: rows of a table, or entries*)
(* of the process's dictionary when an agent is registered while Postgres  *)
(* cannot be used.  The two never meet: an agent of the dictionary is not  *)
(* found once Postgres is back, nor one of the table while it is away.     *)
(***************************************************************************)
EXTENDS Naturals, Sequences, FiniteSets

CONSTANTS
    Agents,          \* the agents that may be registered
    Names,           \* the agents in the order of their names
    RegistryFaults   \* a subset of {"outage"}

ASSUME RegistryAssumption == IsFiniteSet(Agents)

VARIABLES
    agentRows,   \* the agents of the table
    agentSpare   \* _AGENTS

registryVars == <<agentRows, agentSpare>>

RegistryInit == agentRows = {} /\ agentSpare = {}

\* With a did or, when the identity service cannot be reached, without.  A
\* commit whose answer is lost leaves a second agent, with an id of its own.
CreateAgent(a) ==
    /\ a \notin agentRows \cup agentSpare
    /\ \/ agentRows' = agentRows \cup {a} /\ UNCHANGED agentSpare
       \/ /\ "outage" \in RegistryFaults
          /\ agentSpare' = agentSpare \cup {a}
          /\ \/ UNCHANGED agentRows
             \/ \E b \in Agents \ (agentRows \cup agentSpare \cup {a}) : agentRows' = agentRows \cup {b}

RegistryRestart ==
    /\ "outage" \in RegistryFaults
    /\ agentSpare' = {}
    /\ UNCHANGED agentRows

\* What GET /agents/{id} may answer: a query that raises is a 404, too.
GetAgent(a) ==
    LET Found(store) == IF a \in store THEN "200" ELSE "404"
    IN {Found(agentRows)} \cup IF "outage" \in RegistryFaults THEN {"404", Found(agentSpare)} ELSE {}

Earlier(a, b) == \E p, q \in DOMAIN Names : p < q /\ Names[p] = a /\ Names[q] = b

\* Best score first: nothing writes the score column, so this is the order of
\* the names.
Listed(store) == {s \in [1..Cardinality(store) -> store] :
    \A i, j \in DOMAIN s : i < j => Earlier(s[i], s[j])}

\* What GET /agents may list.
ListAgents == Listed(agentRows) \cup IF "outage" \in RegistryFaults THEN Listed(agentSpare) ELSE {}

RegistryTypeOK == agentRows \subseteq Agents /\ agentSpare \subseteq Agents
=============================================================================
