---------------------------- MODULE ServiceMonitor ----------------------------
(***************************************************************************)
(* The passes of the brain over the platform's services                    *)
(* (services/brain/app/main.py, 95-113 and 224-264).                       *)
(*                                                                         *)
(* One thread checks one service after the other, then Ollama, then the    *)
(* circuits (CircuitBreaker).  An incident is stored, in Postgres or in    *)
(* memory, and then sent; a send that raises ends the whole pass, so that  *)
(* neither the services after it nor the circuits are looked at.           *)
(***************************************************************************)
EXTENDS Naturals, Sequences

CONSTANTS
    Services,       \* MONITORED_SERVICES, in their order
    DownThreshold,  \* DOWN_THRESHOLD
    MonitorFaults   \* a subset of {"down", "send", "restart"}

ASSUME MonitorAssumption == DownThreshold \in Nat \ {0} /\ Len(Services) \in Nat \ {0}

VARIABLES
    service,  \* _service_state; failures are counted up to the threshold
    passing,  \* where the pass is
    told,     \* the last incident recorded of each service by this process
    unsent    \* auxiliary: the services whose recovery was recorded but not sent

monitorVars == <<service, passing, told, unsent>>

Ids == 1..Len(Services)

MonitorInit ==
    /\ service = [s \in Ids |-> [up |-> TRUE, failures |-> 0]]
    /\ passing = [stage |-> "sleep", next |-> 1, cut |-> FALSE]
    /\ told = [s \in Ids |-> "none"]
    /\ unsent = {}

-----------------------------------------------------------------------------
Wake ==
    /\ passing.stage = "sleep"
    /\ passing' = [stage |-> "services", next |-> 1, cut |-> FALSE]
    /\ UNCHANGED <<service, told, unsent>>

Moves ==
    passing' = IF passing.next = Len(Services) THEN [passing EXCEPT !.stage = "ollama"]
               ELSE [passing EXCEPT !.next = @ + 1]

\* The send of an incident raises; cut tells that it was a recovery's.
Cuts(recovery) ==
    /\ "send" \in MonitorFaults
    /\ passing' = [stage |-> "sleep", next |-> 1, cut |-> recovery]

Checked(healthy) == passing.stage = "services" /\ (healthy \/ "down" \in MonitorFaults)

\* Mutant of Healthy: the state is reset before it is looked at.
HealthyReset(s) ==
    /\ Checked(TRUE)
    /\ service' = [service EXCEPT ![s] = [up |-> TRUE, failures |-> 0]]
    /\ Moves /\ UNCHANGED <<told, unsent>>

\* A recovery is recorded and sent before the state is reset.
Healthy(s) ==
    /\ Checked(TRUE)
    /\ IF ~service[s].up /\ service[s].failures >= DownThreshold
       THEN /\ told' = [told EXCEPT ![s] = "recovered"]
            /\ \/ /\ service' = [service EXCEPT ![s] = [up |-> TRUE, failures |-> 0]]
                  /\ unsent' = unsent \ {s}
                  /\ Moves
               \/ Cuts(TRUE) /\ unsent' = unsent \cup {s} /\ UNCHANGED service
       ELSE /\ service' = [service EXCEPT ![s] = [up |-> TRUE, failures |-> 0]]
            /\ Moves /\ UNCHANGED <<told, unsent>>

\* Mutant of Unhealthy: the outage is reported before it is noted.
UnhealthyReports(s) ==
    /\ Checked(FALSE)
    /\ LET n == IF service[s].failures < DownThreshold THEN service[s].failures + 1 ELSE DownThreshold IN
       IF service[s].up /\ n >= DownThreshold
       THEN /\ told' = [told EXCEPT ![s] = "down"]
            /\ \/ Moves /\ service' = [service EXCEPT ![s] = [up |-> FALSE, failures |-> n]]
               \/ Cuts(FALSE) /\ service' = [service EXCEPT ![s].failures = n]
       ELSE Moves /\ service' = [service EXCEPT ![s].failures = n] /\ UNCHANGED told
    /\ UNCHANGED unsent

\* An outage is noted before it is recorded and sent.
Unhealthy(s) ==
    /\ Checked(FALSE)
    /\ LET n == IF service[s].failures < DownThreshold THEN service[s].failures + 1 ELSE DownThreshold IN
       IF service[s].up /\ n >= DownThreshold
       THEN /\ service' = [service EXCEPT ![s] = [up |-> FALSE, failures |-> n]]
            /\ told' = [told EXCEPT ![s] = "down"]
            /\ Moves \/ Cuts(FALSE)
       ELSE Moves /\ service' = [service EXCEPT ![s].failures = n] /\ UNCHANGED told
    /\ UNCHANGED unsent

\* Whatever goes wrong with Ollama or with what is told of it is swallowed.
CheckOllama ==
    /\ passing.stage = "ollama"
    /\ passing' = [passing EXCEPT !.stage = "circuits"]
    /\ UNCHANGED <<service, told, unsent>>

Circuits ==
    /\ passing.stage = "circuits"
    /\ passing' = [stage |-> "sleep", next |-> 1, cut |-> FALSE]
    /\ UNCHANGED <<service, told, unsent>>

MonitorRestart ==
    /\ "restart" \in MonitorFaults
    /\ service' = [s \in Ids |-> [up |-> TRUE, failures |-> 0]]
    /\ passing' = [stage |-> "sleep", next |-> 1, cut |-> TRUE]
    /\ told' = [s \in Ids |-> "none"]
    /\ unsent' = {}

MonitorPass == Wake \/ Healthy(passing.next) \/ Unhealthy(passing.next) \/ CheckOllama \/ Circuits

MonitorNext == MonitorPass \/ MonitorRestart

MonitorSpec == MonitorInit /\ [][MonitorNext]_monitorVars

-----------------------------------------------------------------------------
MonitorTypeOK ==
    /\ service \in [Ids -> [up : BOOLEAN, failures : 0..DownThreshold]]
    /\ passing \in [stage : {"sleep", "services", "ollama", "circuits"}, next : Ids, cut : BOOLEAN]
    /\ told \in [Ids -> {"none", "down", "recovered"}]
    /\ unsent \subseteq Ids

\* What this process last recorded of a service is what it holds of it: none
\* held up was last recorded down, and one held down was recorded so unless
\* its recovery has been recorded but could not be sent.
IncidentsMatch ==
    \A s \in Ids :
        IF service[s].up THEN told[s] # "down" ELSE told[s] = "down" \/ s \in unsent

\* A pass that begins is followed by one that gets to the circuits, unless a
\* recovery or a restart cuts a pass short: outages whose incidents cannot be
\* sent never keep the passes from the circuits for good.
CircuitsReached == passing.stage = "services" ~> (passing.stage = "circuits" \/ passing.cut)
=============================================================================
