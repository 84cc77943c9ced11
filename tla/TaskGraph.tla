----------------------------- MODULE TaskGraph ------------------------------
(***************************************************************************)
(* What the task pool promises to its callers, without threads, lists,     *)
(* parts or counters: a task becomes runnable in the very step that meets  *)
(* the last of its inputs, never before and never later, it finishes once, *)
(* and finishing it is what meets its output.  TaskPool implements this    *)
(* module.                                                                 *)
(***************************************************************************)
EXTENDS Integers, FiniteSets

CONSTANTS Task, Group, NoGroup, Dep, NoDep

VARIABLES node,    \* the tasks: their phase, group, inputs and output
          met,     \* of each group: the dependencies that are met
          paused   \* groups whose tasks are not to become runnable

graphVars == <<node, met, paused>>

NodeRec == [phase : {"absent", "pending", "runnable", "done"},
            group : Group \cup {NoGroup}, inputs : SUBSET Dep, output : Dep \cup {NoDep}]
Absent == [phase |-> "absent", group |-> NoGroup, inputs |-> {}, output |-> NoDep]

(* Pending tasks of groups that are not paused become runnable as soon as  *)
(* their inputs are met.                                                   *)
Release(nodes) ==
    [t \in Task |->
        IF /\ nodes[t].phase = "pending"
           /\ nodes[t].group # NoGroup =>
                 /\ nodes[t].group \notin paused'
                 /\ nodes[t].inputs \subseteq met'[nodes[t].group]
        THEN [nodes[t] EXCEPT !.phase = "runnable"]
        ELSE nodes[t]]

MetAlso(g, d) == IF g = NoGroup \/ d = NoDep THEN met ELSE [met EXCEPT ![g] = @ \cup {d}]

Admit(t, g, inputs, output) ==
    /\ node[t].phase = "absent"
    /\ UNCHANGED <<met, paused>>
    /\ node' = Release([node EXCEPT ![t] =
          [phase |-> "pending", group |-> g, inputs |-> inputs, output |-> output]])

(* A running task hands its output over to a new task with the same inputs. *)
Delegate(p, t) ==
    /\ node[p].phase = "runnable" /\ node[t].phase = "absent"
    /\ UNCHANGED <<met, paused>>
    /\ node' = Release([node EXCEPT ![p].output = NoDep,
                                    ![t] = [node[p] EXCEPT !.phase = "pending"]])

Complete(t) ==
    /\ node[t].phase = "runnable"
    /\ met' = MetAlso(node[t].group, node[t].output)
    /\ UNCHANGED paused
    /\ \/ node' = Release([node EXCEPT ![t].phase = "done"])
       \/ node' = Release([node EXCEPT ![t] = Absent])

Forget(t) == /\ node[t].phase = "done"
             /\ node' = [node EXCEPT ![t] = Absent]
             /\ UNCHANGED <<met, paused>>

Supply(g, d) == /\ met' = MetAlso(g, d)
                /\ UNCHANGED paused
                /\ node' = Release(node)

Pause(g) == paused' = paused \cup {g} /\ UNCHANGED <<node, met>>

Resume(g) == /\ paused' = paused \ {g}
             /\ UNCHANGED met
             /\ node' = Release(node)

(* A group starts, and ends, without tasks. *)
Reset(g) == /\ \A t \in Task : node[t].group # g
            /\ met' = [met EXCEPT ![g] = {}]
            /\ paused' = paused \ {g}
            /\ UNCHANGED node

Discard == node' = [t \in Task |-> Absent] /\ UNCHANGED <<met, paused>>

GraphInit == /\ node = [t \in Task |-> Absent]
             /\ met = [g \in Group |-> {}]
             /\ paused = {}

GraphNext ==
    \/ \E t \in Task : Complete(t) \/ Forget(t)
    \/ \E t \in Task, g \in Group \cup {NoGroup}, inputs \in SUBSET Dep,
          output \in Dep \cup {NoDep} : Admit(t, g, inputs, output)
    \/ \E p, t \in Task : Delegate(p, t)
    \/ \E g \in Group : Pause(g) \/ Resume(g) \/ Reset(g) \/ \E d \in Dep : Supply(g, d)
    \/ Discard

GraphSpec == GraphInit /\ [][GraphNext]_graphVars
=============================================================================
