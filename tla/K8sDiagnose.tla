---------------------------- MODULE K8sDiagnose ----------------------------
(***************************************************************************)
(* The read operations of component-k8s (ops.rs, tools/observe.rs,         *)
(* tools/diagnose.rs): a run of a node makes one to three GETs, one after  *)
(* the other, while the cluster moves on, and answers with a report made   *)
(* of what the GETs returned.                                              *)
(*                                                                         *)
(* Abstracted: lists are sets, names are model values, messages are left   *)
(* out; a quantity is a number and a suffix.  External: the cluster, which *)
(* serves each GET from its state of that moment.  A workload is known by  *)
(* the pods its controller counted when it last wrote the status, which    *)
(* may be before the template or the replicas were last edited.            *)
(***************************************************************************)
EXTENDS Integers, Sequences, FiniteSets, SequencesExt, FiniteSetsExt

CONSTANTS
  Cases,             \* runs: an operation, its input and the cluster then
  Pods, Machines,    \* the names of pods and of nodes
  Moved(_),          \* the states a cluster may move on to from one
  MaxMoves,          \* bound: how many states a run may see
  Gone,              \* there is no such pod or node, or nothing measured of it
  Kilo, Kibi,        \* 1000 and 1024
  TopMax,            \* how many consumers a triage names: 5
  Listed(_, _)       \* the order of a list of nodes

VARIABLES cluster, op, input, got, pc, reply,
          past       \* history: the states of the cluster during the run
vars == <<cluster, op, input, got, pc, reply, past>>

\* What each operation GETs, in order.
Gets ==
  [list_namespaces |-> <<"namespaces">>, list_resources |-> <<"pods">>,
   get_resource |-> <<"pod">>, describe_resource |-> <<"pod", "events of pod">>,
   get_pod_logs |-> <<"logs">>, get_events |-> <<"events">>,
   top_pods |-> <<"pod metrics">>, top_nodes |-> <<"node metrics">>,
   get_server_version |-> <<"version">>, find_unhealthy_pods |-> <<"pods">>,
   triage_namespace |-> <<"pods", "events">>,
   triage_cluster |-> <<"nodes", "pods", "node metrics">>,
   analyze_crashloop |-> <<"pod", "previous logs", "events of pod">>,
   report_node_pressure |-> <<"nodes", "node metrics">>,
   check_rollout_status |-> <<"workload">>]

Error    == [ok |-> FALSE, report |-> "error"]
NoReply  == [ok |-> FALSE, report |-> "none"]

(* What an API server can answer: counts are numbers, the ready replicas   *)
(* are among those that are there, and a container waits for other reasons *)
(* than it ends of.                                                        *)
Containers(c) ==
  /\ c \in Seq(ToSet(c))
  /\ \A k \in ToSet(c) :
       /\ k.waiting # "OOMKilled"
       /\ k.last \notin {"CrashLoopBackOff", "ImagePullBackOff", "ErrImagePull"}

WellFormed(c) ==
  /\ DOMAIN c.pods = Pods /\ DOMAIN c.nodes = Machines /\ DOMAIN c.metrics = Machines
  /\ \A p \in Pods : c.pods[p] # Gone =>
       /\ Containers(c.pods[p].containers) /\ Containers(c.pods[p].inits)
       /\ c.pods[p].ready \in {"True", "False", "Unknown", "absent"}
  /\ c.workload.desired \in Nat
  /\ c.workload.progressing \subseteq [status : {"True", "False", "Unknown"},
                                      reason : {"ProgressDeadlineExceeded", "other"}]
  /\ \A a, b \in c.workload.progressing : a = b
  /\ LET k == c.workload.counted
     IN  /\ {k.new_ready, k.new_unready, k.old_ready, k.old_unready, k.available} \subseteq Nat
         /\ k.available <= k.new_ready + k.old_ready

ASSUME CasesAssumption ==
  \A c \in Cases : c.op \in DOMAIN Gets /\ WellFormed(c.cluster)

Init ==
  /\ \E c \in Cases : op = c.op /\ input = c.input /\ cluster = c.cluster
  /\ got = <<>> /\ pc = "start" /\ reply = NoReply /\ past = {cluster}

Present(f) == {x \in DOMAIN f : f[x] # Gone}

-----------------------------------------------------------------------------
(* Quantities: what does not parse, or has a suffix the tables do not      *)
(* know, counts as nothing.                                                *)
ASSUME UnitsAssumption == Kilo \in Nat /\ Kibi \in Nat

CpuUnits == [n |-> 1, u |-> Kilo, m |-> Kilo * Kilo, cores |-> Kilo * Kilo * Kilo]
MemUnits == [Ki |-> Kibi, Mi |-> Kibi * Kibi, Gi |-> Kibi * Kibi * Kibi,
             Ti |-> Kibi * Kibi * Kibi * Kibi,
             k |-> Kilo, M |-> Kilo * Kilo, G |-> Kilo * Kilo * Kilo, bytes |-> 1]

Parsed(quantity, units) ==
  IF quantity.suffix \in DOMAIN units /\ quantity.number \in Nat
  THEN quantity.number * units[quantity.suffix] ELSE 0
parse_cpu_nanocores(quantity) == Parsed(quantity, CpuUnits)
parse_mem_bytes(quantity)     == Parsed(quantity, MemUnits)

\* A pod's usage is that of all its containers, in millicores.
top_pods(usages) ==
  LET Cpu(quantities) ==
        FoldFunction(+, 0, [i \in DOMAIN quantities |-> parse_cpu_nanocores(quantities[i])])
  IN  {[name |-> p, cpu |-> Cpu(usages[p]) \div Kilo ^ 2] : p \in DOMAIN usages}

-----------------------------------------------------------------------------
(* Pods.                                                                   *)
detect_container_issue(c) ==
  IF c.waiting \in {"CrashLoopBackOff", "ImagePullBackOff", "ErrImagePull"} THEN c.waiting
  ELSE IF c.last = "OOMKilled" THEN "OOMKilled" ELSE "none"

\* The first container in trouble, if there is one.
FirstIssue(containers) ==
  LET bad == SelectInSeq(containers, LAMBDA c : detect_container_issue(c) # "none")
  IN  IF bad = 0 THEN "none" ELSE detect_container_issue(containers[bad])

restart_count(pod) ==
  FoldFunction(+, 0, [i \in DOMAIN pod.containers |-> pod.containers[i].restarts])

\* A Ready condition that says anything but True.
NotReady(pod) == pod.ready \notin {"True", "absent"}

\* A defect: a pending pod is not looked into.
PendingFirst(pod) ==
  LET main == FirstIssue(pod.containers)
  IN  CASE main # "none"          -> [reason |-> main, init |-> FALSE]
        [] main = "none" /\ pod.phase = "Pending" -> [reason |-> "Pending", init |-> FALSE]
        [] main = "none" /\ pod.phase # "Pending" /\ NotReady(pod)
                                  -> [reason |-> "NotReady", init |-> FALSE]
        [] OTHER                  -> [reason |-> FirstIssue(pod.inits), init |-> TRUE]

\* The reason a pod counts as unhealthy, and whether an init container is it.
classify_pod(pod) ==
  LET main  == FirstIssue(pod.containers)
      first == FirstIssue(pod.inits)
  IN  CASE main # "none"         -> [reason |-> main, init |-> FALSE]
        [] main = "none" /\ first # "none" -> [reason |-> first, init |-> TRUE]
        [] main = "none" /\ first = "none" /\ pod.phase = "Pending"
                                 -> [reason |-> "Pending", init |-> FALSE]
        [] main = "none" /\ first = "none" /\ pod.phase # "Pending" /\ NotReady(pod)
                                 -> [reason |-> "NotReady", init |-> FALSE]
        [] OTHER                 -> [reason |-> "none", init |-> FALSE]

unhealthy_pods(pods) ==
  {[name |-> p, issue |-> classify_pod(pods[p]), restart_count |-> restart_count(pods[p])] :
     p \in {q \in Present(pods) : classify_pod(pods[q]).reason # "none"}}

find_unhealthy_pods(pods) ==
  [unhealthy_pods |-> unhealthy_pods(pods), count |-> Cardinality(unhealthy_pods(pods))]

Warnings(events) == {e \in events : e.warning}

summarize_namespace(pods, events) ==
  [unhealthy_pods |-> unhealthy_pods(pods), count |-> Cardinality(unhealthy_pods(pods)),
   warning_events |-> Warnings(events),
   total_restarts |-> MapThenSumSet(LAMBDA p : restart_count(pods[p]), Present(pods))]

\* The first container that has ended before, whatever it ended of.
last_termination(pod) ==
  LET ended == SelectInSeq(pod.containers, LAMBDA c : c.last # "none")
  IN  IF ended = 0 THEN "none" ELSE pod.containers[ended].last

crashloop_report(pod, logs, events) ==
  [phase |-> pod.phase, last_termination |-> last_termination(pod),
   previous_logs |-> logs, warning_events |-> Warnings(events)]

describe_resource(pod, events) ==
  [phase |-> pod.phase, conditions |-> {pod.ready}, recent_events |-> events]

-----------------------------------------------------------------------------
(* Nodes.                                                                  *)
Measured(usages, n) ==
  IF n \in Present(usages)
  THEN [cpu |-> parse_cpu_nanocores(usages[n].cpu), mem |-> parse_mem_bytes(usages[n].mem)]
  ELSE [cpu |-> 0, mem |-> 0]

MoreCpu(usages, m, n) ==
  LET Cpu(k) == Measured(usages, k).cpu
  IN  Cpu(m) > Cpu(n) \/ (Cpu(m) = Cpu(n) /\ Listed(m, n))
MoreMem(usages, m, n) ==
  LET Mem(k) == Measured(usages, k).mem
  IN  Mem(m) > Mem(n) \/ (Mem(m) = Mem(n) /\ MoreCpu(usages, m, n))
\* The nodes before which fewer than TopMax come.
top_cpu(usages) ==
  {n \in Present(usages) :
     Cardinality({m \in Present(usages) : MoreCpu(usages, m, n)}) < TopMax}
top_mem(usages) ==
  {n \in Present(usages) :
     Cardinality({m \in Present(usages) : MoreMem(usages, m, n)}) < TopMax}

\* A conditions field holds the conditions that tell of trouble.
summarize_cluster(nodes, pods, usages) ==
  [node_issues |-> {[name |-> n, conditions |-> nodes[n].conditions] :
                      n \in {m \in Present(nodes) : nodes[m].conditions # {}}},
   unhealthy_pods |-> unhealthy_pods(pods), count |-> Cardinality(unhealthy_pods(pods)),
   top_cpu |-> top_cpu(usages), top_mem |-> top_mem(usages),
   node_count |-> Cardinality(Present(nodes))]

\* A defect: the share is rounded before it is multiplied.
RoundedThreshold(usage, capacity) == capacity > 0 /\ usage > (capacity \div 100) * 85

OverThreshold(usage, capacity) == capacity > 0 /\ usage > (capacity * 85) \div 100

pressure_report(nodes, usages) ==
  LET Capacity(n)   == [cpu |-> parse_cpu_nanocores(nodes[n].cpu), mem |-> parse_mem_bytes(nodes[n].mem)]
      Conditions(n) == nodes[n].conditions \intersect {"MemoryPressure", "DiskPressure"}
      Pressured(n)  == \/ Conditions(n) # {}
                       \/ OverThreshold(Measured(usages, n).cpu, Capacity(n).cpu)
                       \/ OverThreshold(Measured(usages, n).mem, Capacity(n).mem)
  IN  [pressured_nodes |-> {[name |-> n, conditions |-> Conditions(n),
                             usage |-> Measured(usages, n), capacity |-> Capacity(n)] :
                              n \in {m \in Present(nodes) : Pressured(m)}},
       total_nodes |-> Cardinality(Present(nodes))]

-----------------------------------------------------------------------------
(* Workloads: the counts of a status are those of its controller's last    *)
(* look at the pods.  A workload's progressing holds its condition of that *)
(* type, if it has one.                                                    *)
updatedReplicas(w) == w.counted.new_ready + w.counted.new_unready
readyReplicas(w)   == w.counted.new_ready + w.counted.old_ready

\* A defect: pods of the template before count as the rollout's.
ReadyIsComplete(w) ==
  [status |-> IF readyReplicas(w) = w.desired /\ w.counted.available = w.desired
              THEN "complete" ELSE "progressing",
   desired |-> w.desired, ready |-> readyReplicas(w), updated |-> updatedReplicas(w)]

rollout_status(w) ==
  LET failing  == w.kind = "Deployment" /\ \E p \in w.progressing :
                    p.status # "True" \/ p.reason = "ProgressDeadlineExceeded"
      complete == \/ w.desired = 0
                  \/ /\ updatedReplicas(w) = w.desired /\ readyReplicas(w) = w.desired
                     /\ w.counted.available = w.desired
  IN  [status |-> IF complete THEN "complete" ELSE IF failing THEN "stuck" ELSE "progressing",
       desired |-> w.desired, ready |-> readyReplicas(w), updated |-> updatedReplicas(w)]

-----------------------------------------------------------------------------
(* The API server's answer to a GET: an error, or what there is.           *)
EventsOf(c, p) == {e \in c.events : e.object = p}
Log(c, p)      == [of |-> p, restarts |-> restart_count(c.pods[p])]

Found(c, p, what) ==
  /\ what \in {"pod", "logs", "previous logs"} => p \in Present(c.pods)
  /\ what = "previous logs" => restart_count(c.pods[p]) > 0

Served(c, p, what) ==
  CASE what = "pods"           -> c.pods
    [] what = "pod"            -> c.pods[p]
    [] what = "nodes"          -> c.nodes
    [] what = "node metrics"   -> c.metrics
    [] what = "events"         -> c.events
    [] what = "events of pod"  -> EventsOf(c, p)
    [] what \in {"logs", "previous logs"} -> Log(c, p)
    [] what = "workload"       -> c.workload
    [] what = "pod metrics"    -> c.podMetrics
    [] what \in {"namespaces", "version"} -> what

\* Names of what there is; a manifest or what was measured, as it came.
list_resources(items) == Present(items)
get_resource(item)    == item
get_events(events)    == events
top_nodes(usages)     == {[name |-> n, usage |-> usages[n]] : n \in Present(usages)}

\* What the handler makes of its answers.
Report(o, g) ==
  CASE o = "find_unhealthy_pods"  -> find_unhealthy_pods(g[1])
    [] o = "triage_namespace"     -> summarize_namespace(g[1], g[2])
    [] o = "triage_cluster"       -> summarize_cluster(g[1], g[2], g[3])
    [] o = "analyze_crashloop"    -> crashloop_report(g[1], g[2], g[3])
    [] o = "describe_resource"    -> describe_resource(g[1], g[2])
    [] o = "report_node_pressure" -> pressure_report(g[1], g[2])
    [] o = "check_rollout_status" -> rollout_status(g[1])
    [] o = "top_pods"             -> top_pods(g[1])
    [] o = "top_nodes"            -> top_nodes(g[1])
    [] o = "list_resources"       -> list_resources(g[1])
    [] o = "get_resource"         -> get_resource(g[1])
    [] o = "get_events"           -> get_events(g[1])
    [] OTHER                       -> g[1]

-----------------------------------------------------------------------------
(* The node.                                                               *)
Asked == Gets[op][Len(got) + 1]

\* get_events and the two tops put what they are given into a path unseen.
Checked == op \notin {"get_events", "top_pods", "top_nodes", "list_namespaces",
                      "get_server_version", "triage_cluster", "report_node_pressure"}

\* Fields, the token, the cluster's name; then the segments of the path.
Begin ==
  /\ pc = "start"
  /\ IF input.defect \in {"field", "secret", "cluster"} \union (IF Checked THEN {"segment"} ELSE {})
     THEN pc' = "done" /\ reply' = Error
     ELSE pc' = "get" /\ UNCHANGED reply
  /\ UNCHANGED <<cluster, op, input, got, past>>

Take(answer) ==
  /\ got' = Append(got, answer)
  /\ IF Len(got') = Len(Gets[op])
     THEN pc' = "done" /\ reply' = [ok |-> TRUE, report |-> Report(op, got')]
     ELSE UNCHANGED <<pc, reply>>

Receive ==
  /\ pc = "get" /\ Found(cluster, input.pod, Asked)
  /\ Take(Served(cluster, input.pod, Asked))
  /\ UNCHANGED <<cluster, op, input, past>>

\* A defect: the logs of a crash are asked for like everything else.
LogsAreNeeded ==
  /\ pc = "get" /\ pc' = "done" /\ reply' = Error
  /\ UNCHANGED <<cluster, op, input, got, past>>

\* A defect: a request that fails is made again.
AskAgain == pc = "get" /\ UNCHANGED vars

\* A status, no answer in time or one that does not decode: logs of a crash
\* are done without, nothing else is.
ReceiveNothing ==
  /\ pc = "get"
  /\ IF Asked = "previous logs" THEN Take(Gone)
     ELSE pc' = "done" /\ reply' = Error /\ UNCHANGED got
  /\ UNCHANGED <<cluster, op, input, past>>

\* Kubelets, controllers, the metrics server and everybody else.
ClusterMoves ==
  /\ pc = "get" /\ Cardinality(past) < MaxMoves
  /\ cluster' \in Moved(cluster) /\ WellFormed(cluster')
  /\ past' = past \union {cluster'}
  /\ UNCHANGED <<op, input, got, pc, reply>>

Next == Begin \/ Receive \/ ReceiveNothing \/ ClusterMoves

\* A run goes on to its next request, and a request ends within the client's
\* timeout, one way or the other.
Fairness == WF_vars(Begin) /\ WF_vars(Receive \/ ReceiveNothing)
Spec     == Init /\ [][Next]_vars /\ Fairness

-----------------------------------------------------------------------------
(* A list of unhealthy pods names the cause: for every pod there was a     *)
(* moment of the run whose pod it describes.  A pod with a failing         *)
(* container is listed with one of its own failures, a main container's    *)
(* before an init container's, and never as just Pending or NotReady; a    *)
(* pod without is listed if it is pending or not ready; no other pod is    *)
(* blamed, and the count is that of the list (diagnose.rs, classify_pod    *)
(* and its four callers).                                                  *)
Failures(containers) ==
  {"CrashLoopBackOff", "ImagePullBackOff", "ErrImagePull", "OOMKilled"}
    \intersect UNION {{c.waiting, c.last} : c \in ToSet(containers)}

Describes(issues, pod) ==
  IF pod = Gone THEN issues = {}
  ELSE LET main == Failures(pod.containers)
           init == Failures(pod.inits)
           waits == (IF pod.phase = "Pending" THEN {"Pending"} ELSE {})
                    \union (IF pod.ready \in {"False", "Unknown"} THEN {"NotReady"} ELSE {})
           causes == IF main # {} THEN main ELSE IF init # {} THEN init ELSE waits
       IN  IF causes = {} THEN issues = {}
           ELSE \E i \in issues : issues = {i} /\ i.issue.reason \in causes
                                  /\ (i.issue.init <=> main = {} /\ init # {})

CauseIsNamed ==
  reply.ok /\ op \in {"find_unhealthy_pods", "triage_namespace", "triage_cluster"} =>
    /\ reply.report.count = Cardinality(reply.report.unhealthy_pods)
    /\ \A p \in DOMAIN cluster.pods : \E c \in past :
         Describes({i \in reply.report.unhealthy_pods : i.name = p}, c.pods[p])

(* A crash is analysed even when the logs of the crash cannot be had, and  *)
(* what the analysis puts together was so during the run: the phase and    *)
(* the last termination of one moment's pod, warnings about that pod only, *)
(* and logs, if any, of a pod that had restarted.  All else that does not  *)
(* answer ends the run (diagnose.rs, analyze_crashloop).                   *)
CrashReportIsTrue ==
  op = "analyze_crashloop" /\ pc = "done" /\ got # <<>> =>
    /\ Len(got) >= 2
    /\ reply.ok =>
         /\ \E c \in past : LET pod == c.pods[input.pod] IN
              /\ pod # Gone /\ reply.report.phase = pod.phase
              /\ (reply.report.last_termination = "none" <=>
                    \A i \in DOMAIN pod.containers : pod.containers[i].last = "none")
              /\ reply.report.last_termination \in {"none"} \union {k.last : k \in ToSet(pod.containers)}
         /\ \E c \in past : \A e \in reply.report.warning_events :
              e \in c.events /\ e.object = input.pod /\ e.warning
         /\ reply.report.previous_logs # Gone => \E c \in past : LET pod == c.pods[input.pod] IN
              pod # Gone /\ reply.report.previous_logs.restarts = restart_count(pod)
              /\ reply.report.previous_logs.restarts > 0

(* A ladder of units: each is worth `base` of the one before it.           *)
Ladder(base, names) ==
  LET worth[i \in DOMAIN names] == IF i = 1 THEN 1 ELSE base * worth[i - 1]
  IN  [i \in DOMAIN names |-> [name |-> names[i], worth |-> worth[i]]]

Worth(quantity, units) ==
  IF quantity.number \notin Nat \/ ~ \E i \in DOMAIN units : units[i].name = quantity.suffix THEN 0
  ELSE quantity.number *
         units[CHOOSE i \in DOMAIN units : units[i].name = quantity.suffix].worth

CpuWorth(q) == Worth(q, Ladder(Kilo, <<"n", "u", "m", "cores">>))
MemWorth(q) == Worth(q, Ladder(Kilo, <<"bytes", "k", "M", "G">>)
                          \o Ladder(Kibi, <<"bytes", "Ki", "Mi", "Gi", "Ti">>))

Uses(usage, capacity) == capacity > 0 /\ 100 * usage > 85 * capacity

UnderPressure(node, usage) ==
  \/ node.conditions \intersect {"MemoryPressure", "DiskPressure"} # {}
  \/ usage # Gone /\ Uses(CpuWorth(usage.cpu), CpuWorth(node.cpu))
  \/ usage # Gone /\ Uses(MemWorth(usage.mem), MemWorth(node.mem))

(* A node is reported as pressured exactly when it says so itself or uses  *)
(* more than 85 % of what it has, by what it was and what was measured of  *)
(* it at two moments of the run: nodes and metrics come from two GETs,     *)
(* joined by name, with nodes coming and going in between, in units of     *)
(* their own, and the threshold is rounded in integers (diagnose.rs,       *)
(* pressure_report; observe.rs, parse_cpu_nanocores, parse_mem_bytes).     *)
PressureIsMeasured ==
  reply.ok /\ op = "report_node_pressure" =>
    \A n \in DOMAIN cluster.nodes : \E c \in past, d \in past :
      LET reported == \E r \in reply.report.pressured_nodes : r.name = n
      IN  reported <=> c.nodes[n] # Gone /\ UnderPressure(c.nodes[n], d.metrics[n])

(* A verdict on a rollout is true of the pods its controller counted at    *)
(* one moment of the run.                                                  *)
(*   complete     As many pods as desired are available; every pod beyond  *)
(*                the desired number is of an older template; and as many  *)
(*                of the new template are ready as are desired, but for    *)
(*                those an older one, beyond that number, still stands in  *)
(*                for: without a surge all are.  Nothing is claimed of a   *)
(*                workload that is scaled to nothing.                      *)
(*   stuck        A Deployment with work left, whose controller says that  *)
(*                it is not getting on: it gave up or failed (False), it   *)
(*                is paused or only just resumed (Unknown), or its         *)
(*                deadline passed.  A condition that is absent says no     *)
(*                such thing.                                              *)
(*   progressing  Work is left, and no Deployment says such a thing.       *)
(* (diagnose.rs, rollout_status.)                                          *)
Total(k)    == k.new_ready + k.new_unready + k.old_ready + k.old_unready
Stalled(w)  == w.kind = "Deployment" /\ \E p \in w.progressing :
                 p.status \in {"False", "Unknown"} \/ p.reason = "ProgressDeadlineExceeded"
Replaced(w) ==
  LET k == w.counted
      surge == Total(k) - w.desired
  IN  /\ surge = k.old_ready + k.old_unready
      /\ k.available = w.desired
      /\ k.new_ready + surge >= w.desired
      /\ surge = 0 => k.new_ready = w.desired
Unfinished(w) ==
  \/ w.counted.new_ready < w.desired \/ w.counted.available < w.desired
  \/ Total(w.counted) > w.desired

RolledOutMeansRolledOut ==
  reply.ok /\ op = "check_rollout_status" =>
    \E c \in past : LET w == c.workload IN
      /\ reply.report.status = "complete"    => w.desired = 0 \/ Replaced(w)
      /\ reply.report.status = "stuck"       => Stalled(w) /\ Unfinished(w)
      /\ reply.report.status = "progressing" => ~ Stalled(w) /\ Unfinished(w)

(* Every run answers, whatever the cluster does or does not say.           *)
EveryReadIsAnswered == pc = "start" ~> pc = "done"
============================================================================
