--------------------------- MODULE MCK8sDiagnose ---------------------------
(* The clusters TLC tries: each varies in one part, as a run looks at one  *)
(* or two, and moves on in any.                                            *)
EXTENDS K8sDiagnose

MCPods == {"p", "q"}
MCMachines == {"m", "n"}
MCKilo == 10
MCKibi == 16

C(waiting, last, restarts) == [waiting |-> waiting, last |-> last, restarts |-> restarts]
Fine    == C("none", "none", 0)
Crash   == C("CrashLoopBackOff", "Error", 2)
Oom     == C("none", "OOMKilled", 1)
OomLoop == C("CrashLoopBackOff", "OOMKilled", 1)
NoImage == C("ErrImagePull", "none", 0)
Creates == C("ContainerCreating", "none", 0)

ContainerLists ==
  {<<>>} \union {<<c>> : c \in {Fine, Crash, Oom, OomLoop, NoImage, Creates}}
  \union {<<c, d>> : c \in {Fine, Crash}, d \in {Fine, Oom, NoImage}}

\* What a kubelet may report of a pod.
Reportable(pod) ==
  /\ pod.ready = "True" => pod.phase = "Running" /\ \A i \in DOMAIN pod.containers : pod.containers[i].waiting = "none"
  /\ pod.containers = <<>> => pod.phase \in {"Pending", "Failed"}
  /\ pod.ready = "absent" => pod.containers = <<>>
  /\ \A i \in DOMAIN pod.inits : pod.inits[i].waiting # "none" => pod.phase = "Pending"
  /\ pod.phase = "Succeeded" => \A i \in DOMAIN pod.containers : pod.containers[i].waiting = "none"

PodStates ==
  {pod \in [phase : {"Pending", "Running", "Succeeded", "Failed"}, containers : ContainerLists,
            inits : {<<>>, <<Fine>>, <<Fine, Crash>>, <<Oom>>}, ready : {"True", "False", "Unknown", "absent"}] :
     Reportable(pod)}

Pod(phase, containers, ready) == [phase |-> phase, containers |-> containers, inits |-> <<>>, ready |-> ready]
Healthy  == Pod("Running", <<Fine>>, "True")
Crashing == Pod("Running", <<Crash, Fine>>, "False")

Q(number, suffix) == [number |-> number, suffix |-> suffix]
NodeState(conditions, cpu, mem) == [conditions |-> conditions, cpu |-> cpu, mem |-> mem]
Usage(cpu, mem) == [cpu |-> cpu, mem |-> mem]

Conditions == {{}, {"MemoryPressure"}, {"PIDPressure"}, {"NotReady", "DiskPressure"}}
Cpus   == {Q(2, "cores"), Q(19, "u"), Q(-1, "cores")}
Mems   == {Q(2, "Ki"), Q(1, "M"), Q(1, "E")}
Loads  == {Q(1700, "n"), Q(1701, "n"), Q(17, "m"), Q(18, "m"), Q(161, "n"), Q(162, "n"), Q(0, "n")}
Fills  == {Q(27, "bytes"), Q(28, "bytes"), Q(8, "k"), Q(9, "k"), Q(5, "Ki"), Q(6, "Ki"), Q(1, "Gi")}

Idle      == Usage(Q(1, "m"), Q(1, "bytes"))
NodeStates  == {NodeState(cs, Q(2, "cores"), Q(2, "Ki")) : cs \in Conditions}
               \union {NodeState({}, c, m) : c \in Cpus, m \in Mems}
UsageStates == {Usage(l, Q(1, "bytes")) : l \in Loads} \union {Usage(Q(1, "m"), f) : f \in Fills} \union {Gone}

Counts ==
  {c \in [new_ready : 0 .. 2, new_unready : 0 .. 1, old_ready : 0 .. 1, old_unready : 0 .. 1, available : 0 .. 3] :
     c.available <= c.new_ready + c.old_ready}

\* Getting on; given up at the deadline; a ReplicaSet that could not be made;
\* paused or just resumed; and the deadline without the status.
Progress ==
  {[status |-> s, reason |-> "other"] : s \in {"True", "False", "Unknown"}}
  \union {[status |-> s, reason |-> "ProgressDeadlineExceeded"] : s \in {"True", "False"}}

Workloads ==
  {w \in [kind : {"Deployment", "StatefulSet", "DaemonSet"}, desired : 0 .. 2, counted : Counts,
          progressing : {{}} \union {{p} : p \in Progress}] :
     w.kind # "Deployment" => w.progressing = {}}

Event(object, warning) == [object |-> object, warning |-> warning]

Plain ==
  [pods       |-> [p |-> Healthy, q |-> Crashing],
   nodes      |-> [m |-> NodeState({}, Q(2, "cores"), Q(2, "Ki")), n |-> NodeState({}, Q(19, "u"), Q(1, "M"))],
   metrics    |-> [m |-> Idle, n |-> Usage(Q(17, "m"), Q(28, "bytes"))],
   podMetrics |-> [p |-> <<Q(1, "m")>>, q |-> <<Q(150, "u"), Q(60, "u")>>],
   events     |-> {Event("p", TRUE), Event("p", FALSE), Event("q", TRUE)},
   workload   |-> CHOOSE w \in Workloads : TRUE]

PodClusters      == {[Plain EXCEPT !.pods.p = s] : s \in PodStates}
NodeClusters     == {[Plain EXCEPT !.nodes.m = s, !.metrics.m = u] : s \in NodeStates, u \in UsageStates}
WorkloadClusters == {[Plain EXCEPT !.workload = w] : w \in Workloads}

Input(pod, defect) == [pod |-> pod, defect |-> defect]
Case(ops, inputs, clusters) == [op : ops, input : inputs, cluster : clusters]

MCCases ==
  Case({"find_unhealthy_pods", "triage_namespace", "triage_cluster", "analyze_crashloop"},
       {Input("p", "none")}, PodClusters)
  \union Case({"report_node_pressure", "triage_cluster", "top_nodes"}, {Input("p", "none")}, NodeClusters)
  \union Case({"check_rollout_status"}, {Input("p", "none")}, WorkloadClusters)
  \union Case(DOMAIN Gets, {Input("q", d) : d \in {"none", "field", "secret", "cluster", "segment"}}, {Plain})

MCMoved(c) ==
  {[c EXCEPT !.pods.p = s] : s \in {Gone, Healthy, Crashing}}
  \union {[c EXCEPT !.nodes.m = s] : s \in {Gone, Plain.nodes.n}}
  \union {[c EXCEPT !.metrics.m = u] : u \in {Gone, Idle, Usage(Q(18, "m"), Q(9, "k"))}}
  \union {[c EXCEPT !.events = c.events \union {Event("p", TRUE)}],
          [c EXCEPT !.events = c.events \ {Event("p", TRUE)}]}
  \union {[c EXCEPT !.workload.desired = 1]}

MCListed(m, n) == m = "m" /\ n = "n"
============================================================================
