---------------------------- MODULE WorkflowEngine ----------------------------
(***************************************************************************)
(* Workflows (services/workflow/app/main.py), the completion events they   *)
(* publish, and the safety engine that reviews them                        *)
(* (services/safety/app/main.py).                                          *)
(*                                                                         *)
(* Executions are coroutines of one event loop: each asks the registry for *)
(* the agent of one step after the other, several executions of a workflow *)
(* may overlap, and a request that raises leaves the workflow RUNNING.  The*)
(* safety engine reads the topic without a group: whenever it connects, it *)
(* starts after the last event.                                            *)
(***************************************************************************)
EXTENDS Registry, SequencesExt

CONSTANTS
    Workflows, StepLists,  \* the workflows, and the steps one may have
    Executions,            \* the executions under way
    MaxCompleted,          \* bound on the events
    WorkflowFaults         \* a subset of {"broker", "raise", "restart"}

ASSUME WorkflowAssumption == Workflows # {} /\ StepLists \subseteq Seq(Agents)

VARIABLES
    workflows,  \* _WORKFLOWS
    execution,  \* the coroutines, each with its own results
    completed,  \* the topic workflow.completed
    reader,     \* the safety engine's consumer
    flagged,    \* the events it sent on as safety.flagged
    passedBy    \* auxiliary: the events it never got, or had no producer for

flowVars == <<registryVars, workflows, execution, completed, reader, flagged, passedBy>>
safetyVars == <<reader, flagged, passedBy>>

Idling == [stage |-> "idle", of |-> CHOOSE w \in Workflows : TRUE, results |-> <<>>]

FlowInit ==
    /\ RegistryInit
    /\ workflows = [w \in Workflows |-> [status |-> "none", steps |-> <<>>, results |-> <<>>]]
    /\ execution = [x \in Executions |-> Idling]
    /\ completed = <<>>
    /\ reader = [connected |-> FALSE, read |-> 0] /\ flagged = <<>> /\ passedBy = {}

-----------------------------------------------------------------------------
CreateWorkflow(w, steps) ==
    /\ workflows[w].status = "none"
    /\ workflows' = [workflows EXCEPT ![w] = [status |-> "CREATED", steps |-> steps, results |-> <<>>]]
    /\ UNCHANGED <<registryVars, execution, completed, safetyVars>>

ExecuteWorkflow(x, w) ==
    /\ execution[x].stage = "idle" /\ workflows[w].status \notin {"none", "gone"}
    /\ workflows' = [workflows EXCEPT ![w].status = "RUNNING"]
    /\ execution' = [execution EXCEPT ![x] = [stage |-> "steps", of |-> w, results |-> <<>>]]
    /\ UNCHANGED <<registryVars, completed, safetyVars>>

Remaining(x) == Len(workflows[execution[x].of].steps) - Len(execution[x].results)

\* Whatever the registry answers, a 404 too, is taken for the agent.
Step(x) ==
    /\ execution[x].stage = "steps" /\ Remaining(x) > 0
    /\ LET e == execution[x] IN
       \E answer \in GetAgent(workflows[e.of].steps[Len(e.results) + 1]) :
            execution' = [execution EXCEPT ![x].results = Append(@, answer)]
    /\ UNCHANGED <<registryVars, workflows, completed, safetyVars>>

\* The request of a step times out, or its answer cannot be read.
StepRaises(x) ==
    /\ "raise" \in WorkflowFaults
    /\ execution[x].stage = "steps" /\ Remaining(x) > 0
    /\ execution' = [execution EXCEPT ![x] = Idling]
    /\ UNCHANGED <<registryVars, workflows, completed, safetyVars>>

\* Without a broker there is no event.
Complete(x) ==
    /\ execution[x].stage = "steps" /\ Remaining(x) = 0
    /\ LET e == execution[x] IN
       /\ workflows' = [workflows EXCEPT ![e.of] = [@ EXCEPT !.status = "COMPLETED", !.results = e.results]]
       /\ \/ /\ Len(completed) < MaxCompleted
             /\ completed' = Append(completed, [workflow |-> e.of, steps |-> Len(e.results)])
          \/ "broker" \in WorkflowFaults /\ UNCHANGED completed
    /\ execution' = [execution EXCEPT ![x] = Idling]
    /\ UNCHANGED <<registryVars, safetyVars>>

FlowRestart ==
    /\ "restart" \in WorkflowFaults
    /\ workflows' = [w \in Workflows |-> [workflows[w] EXCEPT !.status = "gone"]]
    /\ execution' = [x \in Executions |-> Idling]
    /\ UNCHANGED <<registryVars, completed, safetyVars>>

\* The registry's own clients.
Registers ==
    /\ (\E a \in Agents : CreateAgent(a)) \/ RegistryRestart
    /\ UNCHANGED <<workflows, execution, completed, safetyVars>>

-----------------------------------------------------------------------------
Skipped == {i \in 1..Len(completed) : i > reader.read}

\* Mutant of Connect: a reconnection that reads the topic from its start.
ConnectEarliest ==
    /\ ~reader.connected
    /\ reader' = [connected |-> TRUE, read |-> 0]
    /\ UNCHANGED <<registryVars, workflows, execution, completed, flagged, passedBy>>

\* No group, no offsets: the consumer starts at the end.
Connect ==
    /\ ~reader.connected
    /\ reader' = [connected |-> TRUE, read |-> Len(completed)]
    /\ passedBy' = passedBy \cup Skipped
    /\ UNCHANGED <<registryVars, workflows, execution, completed, flagged>>

\* The broker goes, or the process restarts.
Disconnect ==
    /\ "broker" \in WorkflowFaults
    /\ reader.connected
    /\ reader' = [reader EXCEPT !.connected = FALSE]
    /\ UNCHANGED <<registryVars, workflows, execution, completed, flagged, passedBy>>

\* Mutant of Empty: nothing is.
EmptyNever(event) == event.steps < 0

Empty(event) == event.steps = 0

\* A workflow without steps is flagged, if there is a producer.
Review ==
    /\ reader.connected /\ reader.read < Len(completed)
    /\ LET i == reader.read + 1 IN
       /\ reader' = [reader EXCEPT !.read = i]
       /\ IF Empty(completed[i])
          THEN \/ flagged' = Append(flagged, i) /\ UNCHANGED passedBy
               \/ /\ "broker" \in WorkflowFaults
                  /\ passedBy' = passedBy \cup {i} /\ UNCHANGED flagged
          ELSE UNCHANGED <<flagged, passedBy>>
    /\ UNCHANGED <<registryVars, workflows, execution, completed>>

FlowNext ==
    \/ \E w \in Workflows :
        \/ \E steps \in StepLists : CreateWorkflow(w, steps)
        \/ \E x \in Executions : ExecuteWorkflow(x, w)
    \/ \E x \in Executions : Step(x) \/ StepRaises(x) \/ Complete(x)
    \/ FlowRestart \/ Registers \/ Connect \/ Disconnect \/ Review

FlowSpec == FlowInit /\ [][FlowNext]_flowVars

-----------------------------------------------------------------------------
FlowTypeOK ==
    /\ RegistryTypeOK
    /\ workflows \in [Workflows -> [status : {"none", "CREATED", "RUNNING", "COMPLETED", "gone"},
                                   steps : Seq(Agents), results : Seq({"200", "404"})]]
    /\ execution \in [Executions -> [stage : {"idle", "steps"}, of : Workflows, results : Seq({"200", "404"})]]
    /\ completed \in Seq([workflow : Workflows, steps : Nat])
    /\ reader \in [connected : BOOLEAN, read : 0..Len(completed)]
    /\ flagged \in Seq(1..Len(completed)) /\ passedBy \subseteq 1..Len(completed)

\* Only completions of workflows without steps are flagged, and none twice,
\* however executions overlap and the consumer comes and goes.
FlaggedOnce ==
    /\ \A i \in DOMAIN flagged : workflows[completed[flagged[i]].workflow].steps = <<>>
    /\ IsInjective(flagged)

\* A completion without steps that is waiting for a connected consumer is
\* flagged, unless the consumer loses its place or the producer.
EmptyReviewed ==
    \A i \in 1..MaxCompleted :
        (/\ i <= Len(completed) /\ reader.connected /\ i > reader.read /\ completed[i].steps = 0)
            ~> (~reader.connected \/ i \in ToSet(flagged) \/ i \in passedBy)
=============================================================================
