---------------------------- MODULE K8sRemediate ----------------------------
(***************************************************************************)
(* The write operations of component-k8s (ops.rs, tools/remediate.rs,      *)
(* clusters.rs, transport.rs, k8s.rs) run by concurrent flow nodes against *)
(* one cluster.                                                            *)
(*                                                                         *)
(* A run of a node resolves its inputs, reads the write gate from the      *)
(* secret store, and only then builds a client and sends HTTP requests.    *)
(* rollout_restart and rollout_undo read before they write; every other    *)
(* operation is one request.  The component keeps no state between runs,   *)
(* never retries and takes no lock, so two runs meet only in the cluster.  *)
(*                                                                         *)
(* Abstracted: names, namespaces and manifests are elements of small sets. *)
(* A pod template is its main image, whether it also has a container that  *)
(* the caller's patch does not name, and the restart-nonce annotation.     *)
(* Error texts are dropped: every Err becomes the reply "error".           *)
(*                                                                         *)
(* External, modelled from how the code uses them: the API server (patch   *)
(* semantics, dryRun), the Deployment controller (ReplicaSets and their    *)
(* revision annotations), other writers, and the operator who provisions   *)
(* the allow_write secret.                                                 *)
(***************************************************************************)
EXTENDS Integers

CONSTANTS
  Runs,                 \* runs of k8s nodes, each invoked once
  Workloads,            \* Deployments
  Pods, Nodes,
  Images,               \* images of the main container
  Unset,                \* "the patch does not mention an image"
  NonceMod,             \* restart nonces are u64: NonceMod stands for 2^64
  MaxRevision,          \* bound: the controller stops numbering here
  MaxEdits,             \* bound: template changes by other writers
  Replicas,             \* replica counts
  Inputs,               \* the inputs nodes are invoked with
  InitialTemplates,     \* the pod templates workloads start from
  InitialRevisions,     \* 0: a Deployment just created, 1: annotated
  GateValues            \* what the operator sets the allow_write secret to

WorkloadOps == {"scale", "restart", "undo", "patch", "apply"}
TemplateOps == WorkloadOps \ {"scale"}
NodeOps     == {"cordon", "uncordon"}
Ops         == WorkloadOps \union NodeOps \union {"delete"}

(* Where an input is wrong, if anywhere: a required field, the token's     *)
(* secret reference, the cluster name (all checked before the gate), or an *)
(* argument the handler itself rejects (checked after the gate).           *)
Defects    == {"none", "field", "secret", "cluster", "argument"}
PatchTypes == {"none", "merge", "strategic", "json"}

Targets(op) == IF op \in WorkloadOps THEN Workloads
               ELSE IF op \in NodeOps THEN Nodes ELSE Pods

Input ==
  {i \in [op : Ops, target : Workloads \union Pods \union Nodes,
          dry : BOOLEAN, defect : Defects, patchType : PatchTypes,
          image : Images, replicas : Replicas] : i.target \in Targets(i.op)}

Absent    == -1                              \* no (readable) nonce annotation
Nonces    == {Absent} \union 0 .. NonceMod - 1
Revisions == 0 .. MaxRevision                \* 0: no revision annotation
Template  == [image : Images, sidecar : BOOLEAN, nonce : Nonces]
Patch     == [image : Images \union {Unset}, sidecar : BOOLEAN, nonce : Nonces]
NoPatch   == [image |-> Unset, sidecar |-> FALSE, nonce |-> Absent]

ASSUME ConstantsAssumption ==
  /\ Unset \notin Images
  /\ NonceMod \in Nat /\ NonceMod > 1
  /\ MaxRevision \in Nat /\ MaxRevision > 0
  /\ MaxEdits \in Nat
  /\ Inputs \subseteq Input /\ Inputs # {}
  /\ InitialTemplates \subseteq Template
  /\ InitialRevisions \subseteq {0, 1}
  /\ GateValues \subseteq {"true", "false", "absent"}

VARIABLES
  (* the secret store *)
  allowWrite,           \* the secret k8s/<cluster>/allow_write
  (* the cluster *)
  template,             \* template[w]: the Deployment's spec.template
  replicas,             \* replicas[w]: its spec.replicas
  revision,             \* revision[w]: its revision annotation
  replicaSets,          \* the ReplicaSets, with owner and revision
  cordoned,             \* nodes with spec.unschedulable
  pods,                 \* the pods there are
  edits,                \* how many times another writer changed a template
  (* the runs *)
  pc,                   \* where each run is
  input,                \* its input
  seen,                 \* the nonce or revision its GET returned
  reply,                \* what it answered the flow
  (* the write request of each run *)
  wire,                 \* "none", "sent", "2xx" or "bad" (answered)
  req,                  \* its query, content type and body
  (* history, read by no action's guard *)
  granted,              \* the gate stood open at some moment of the run
  sent,                 \* HTTP requests the run has sent
  applied,              \* writes of the run the cluster has committed
  contended,            \* the template changed since the run's GET
  found, landed,        \* the template before and after the run's commit
  deployed              \* every (owner, revision, template) there has been

clusterVars == <<template, replicas, revision, replicaSets, cordoned, pods,
                 edits>>
runVars     == <<pc, input, seen, reply>>
wireVars    == <<wire, req>>
ghostVars   == <<granted, sent, applied, contended, found, landed, deployed>>
vars == <<allowWrite, clusterVars, runVars, wireVars, ghostVars>>

ReplicaSet   == [owner : Workloads, revision : Revisions, template : Template]
Queries      == {"dryRun", "fieldManager", "force"}
ContentTypes == {"none", "merge", "strategic", "json", "apply"}
Request      == [query : SUBSET Queries, ctype : ContentTypes, patch : Patch]
NoRequest    == [query |-> {}, ctype |-> "none", patch |-> NoPatch]

PCs     == {"idle", "resolving", "gate", "fallback", "open", "fetching",
            "listing", "writing", "done"}
Replies == {"none", "ok", "refused", "error"}

ClusterTypes ==
  /\ allowWrite \in {"true", "false", "absent"}
  /\ template \in [Workloads -> Template]
  /\ replicas \in [Workloads -> Replicas]
  /\ revision \in [Workloads -> Revisions]
  /\ replicaSets \in SUBSET ReplicaSet
  /\ cordoned \in SUBSET Nodes
  /\ pods \in SUBSET Pods
  /\ edits \in 0 .. MaxEdits

RunTypes ==
  /\ pc \in [Runs -> PCs]
  /\ input \in [Runs -> Inputs]
  /\ seen \in [Runs -> Nonces \union Revisions]
  /\ reply \in [Runs -> Replies]
  /\ wire \in [Runs -> {"none", "sent", "2xx", "bad"}]
  /\ req \in [Runs -> Request]

HistoryTypes ==
  /\ granted \in [Runs -> BOOLEAN]
  /\ sent \in [Runs -> Nat]
  /\ applied \in [Runs -> Nat]
  /\ contended \in [Runs -> BOOLEAN]
  /\ found \in [Runs -> Patch]
  /\ landed \in [Runs -> Patch]
  /\ deployed \in SUBSET ReplicaSet

(* Every request a run builds is one the API server knows: its query, one  *)
(* of the four patch media types, and a restart nonce within u64.          *)
TypeOK == ClusterTypes /\ RunTypes /\ HistoryTypes

Init ==
  /\ allowWrite \in GateValues
  /\ template \in [Workloads -> InitialTemplates]
  /\ replicas \in [Workloads -> Replicas]
  /\ revision \in [Workloads -> InitialRevisions]
  /\ replicaSets = {[owner |-> w, revision |-> 1, template |-> template[w]] :
                      w \in Workloads}
  /\ cordoned = {}
  /\ pods = Pods
  /\ edits = 0
  /\ pc = [p \in Runs |-> "idle"]
  /\ input \in [Runs -> Inputs]
  /\ seen = [p \in Runs |-> 0]
  /\ reply = [p \in Runs |-> "none"]
  /\ wire = [p \in Runs |-> "none"]
  /\ req = [p \in Runs |-> NoRequest]
  /\ granted = [p \in Runs |-> FALSE]
  /\ sent = [p \in Runs |-> 0]
  /\ applied = [p \in Runs |-> 0]
  /\ contended = [p \in Runs |-> FALSE]
  /\ found = [p \in Runs |-> NoPatch]
  /\ landed = [p \in Runs |-> NoPatch]
  /\ deployed = replicaSets

-----------------------------------------------------------------------------
(* What the handlers compute.                                              *)

(* Mutants of this section: a saturating and an unwrapped increment, a     *)
(* history searched without its owners, a hand-built query, a patch type   *)
(* handed on as it is.                                                     *)
SaturatingNonce(n) == IF n = Absent THEN 1 ELSE IF n = NonceMod - 1 THEN n ELSE n + 1
UnwrappedNonce(n)  == IF n = Absent THEN 1 ELSE n + 1

AnyOwnersCandidates(w, current) ==
  {rs \in replicaSets : rs.revision = current - 1}

ApplyForgetsDryRun(i) == IF i.op = "apply" THEN {"fieldManager", "force"}
                         ELSE IF i.dry THEN {"dryRun"} ELSE {}

RawContentType(t) == IF t = "merge" THEN "merge" ELSE t

(* The nonce rollout_restart writes: the annotation as a u64, 0 when it is *)
(* absent or unparseable, plus one (the release build wraps).              *)
NextNonce(n) == IF n = Absent THEN 1 ELSE (n + 1) % NonceMod

RestartPatch(n) == [image |-> Unset, sidecar |-> FALSE, nonce |-> NextNonce(n)]

(* The ReplicaSets rollout_undo may pick: owned by the Deployment of that  *)
(* name, one revision before the one just read.  The controller writes a   *)
(* revision on both; one that cannot be read counts as 0 on a Deployment   *)
(* and as -1 on a ReplicaSet, and so only such a pair would match.         *)
UndoCandidates(w, current) ==
  {rs \in replicaSets : rs.owner = w /\ rs.revision = current - 1}

DryRunQuery(dry) == IF dry THEN {"dryRun"} ELSE {}

Query(i) == DryRunQuery(i.dry) \union
            (IF i.op = "apply" THEN {"fieldManager", "force"} ELSE {})

(* patch_resource: the operation's default and the handler's match on it.  *)
PatchTypeArgument(t) ==
  IF t = "none" THEN "application/strategic-merge-patch+json" ELSE t

PatchContentType(t) == IF t \in {"strategic", "json"} THEN t ELSE "merge"

ContentType(i) ==
  CASE i.op \in {"restart", "undo"}            -> "strategic"
    [] i.op \in {"scale", "cordon", "uncordon"} -> "merge"
    [] i.op = "apply"                          -> "apply"
    [] i.op = "patch" -> PatchContentType(PatchTypeArgument(i.patchType))
    [] OTHER                                   -> "none"

(* The body of an operation that does not read first, as far as it speaks  *)
(* of the pod template.                                                    *)
DirectPatch(i) ==
  IF i.op \in {"patch", "apply"} THEN [NoPatch EXCEPT !.image = i.image]
  ELSE NoPatch

(* What the API server does with a patch.  A strategic merge, a JSON patch *)
(* of the image and a forced apply keep what the patch does not name; a    *)
(* JSON merge patch replaces a list it mentions as a whole.                *)
StrategicMerge(t, q) ==
  [image   |-> IF q.image = Unset THEN t.image ELSE q.image,
   sidecar |-> t.sidecar \/ q.sidecar,
   nonce   |-> IF q.nonce = Absent THEN t.nonce ELSE q.nonce]

ApplyPatch(ctype, t, q) ==
  IF ctype = "merge" /\ q.image # Unset
  THEN [StrategicMerge(t, q) EXCEPT !.sidecar = q.sidecar]
  ELSE StrategicMerge(t, q)

-----------------------------------------------------------------------------
(* Steps of a run.                                                         *)

Invoke(p) ==
  /\ pc[p] = "idle"
  /\ pc' = [pc EXCEPT ![p] = "resolving"]
  /\ granted' = [granted EXCEPT ![p] = allowWrite = "true"]
  /\ UNCHANGED <<allowWrite, clusterVars, input, seen, reply, wireVars, sent,
                 applied, contended, found, landed, deployed>>

(* The local end of a run: no request goes out with it.                    *)
Answer(p, r) ==
  /\ pc' = [pc EXCEPT ![p] = "done"]
  /\ reply' = [reply EXCEPT ![p] = r]

StepTo(p, where) ==
  /\ pc' = [pc EXCEPT ![p] = where]
  /\ UNCHANGED reply

(* The handler's required fields, the token reference and the cluster name *)
ResolveInputs(p) ==
  /\ pc[p] = "resolving"
  /\ IF input[p].defect \in {"field", "secret", "cluster"}
     THEN Answer(p, "error") ELSE StepTo(p, "gate")
  /\ UNCHANGED <<allowWrite, clusterVars, input, seen, wireVars, ghostVars>>

(* resolve_cluster asks for .../allow_write and, if that read fails, for   *)
(* the unqualified name; NodeSecrets answers both from the same secret.    *)
(* A read may fail because the secret is absent or cannot be read.         *)
GateValueRead(p) ==
  /\ allowWrite # "absent"
  /\ IF allowWrite = "true" THEN StepTo(p, "open") ELSE Answer(p, "refused")

ReadGate(p) ==
  /\ pc[p] = "gate"
  /\ GateValueRead(p) \/ StepTo(p, "fallback")
  /\ UNCHANGED <<allowWrite, clusterVars, input, seen, wireVars, ghostVars>>

(* Mutant: an unreadable gate reads as an open one.                        *)
FallbackFailsOpen(p) ==
  /\ pc[p] = "fallback"
  /\ GateValueRead(p) \/ StepTo(p, "open")
  /\ UNCHANGED <<allowWrite, clusterVars, input, seen, wireVars, ghostVars>>

ReadGateFallback(p) ==
  /\ pc[p] = "fallback"
  /\ GateValueRead(p) \/ Answer(p, "refused")
  /\ UNCHANGED <<allowWrite, clusterVars, input, seen, wireVars, ghostVars>>

SendWrite(p, q) ==
  /\ StepTo(p, "writing")
  /\ wire' = [wire EXCEPT ![p] = "sent"]
  /\ req' = [req EXCEPT ![p] = [query |-> Query(input[p]),
                                ctype |-> ContentType(input[p]),
                                patch |-> q]]
  /\ sent' = [sent EXCEPT ![p] = @ + 1]

(* With a client in hand the handler rejects arguments of its own, sends   *)
(* its only request, or sends the GET it reads from.                       *)
RejectArgument(p) ==
  /\ pc[p] = "open"
  /\ input[p].defect = "argument"
  /\ Answer(p, "error")
  /\ UNCHANGED <<allowWrite, clusterVars, input, seen, wireVars, ghostVars>>

SendDirect(p) ==
  /\ pc[p] = "open"
  /\ input[p].defect # "argument"
  /\ input[p].op \notin {"restart", "undo"}
  /\ SendWrite(p, DirectPatch(input[p]))
  /\ UNCHANGED <<allowWrite, clusterVars, input, seen, granted, applied,
                 contended, found, landed, deployed>>

SendGet(p) ==
  /\ pc[p] = "open"
  /\ input[p].defect # "argument"
  /\ input[p].op \in {"restart", "undo"}
  /\ StepTo(p, "fetching")
  /\ sent' = [sent EXCEPT ![p] = @ + 1]
  /\ UNCHANGED <<allowWrite, clusterVars, input, seen, wireVars, granted,
                 applied, contended, found, landed, deployed>>

(* A GET or LIST that fails in any way ends the run; a read has no effect  *)
(* on the cluster, so its answer and its receipt are one step.             *)
ReadFails(p) ==
  /\ pc[p] \in {"fetching", "listing"}
  /\ Answer(p, "error")
  /\ UNCHANGED <<allowWrite, clusterVars, input, seen, wireVars, ghostVars>>

RestartReads(p) ==
  LET nonce == template[input[p].target].nonce IN
  /\ pc[p] = "fetching"
  /\ input[p].op = "restart"
  /\ seen' = [seen EXCEPT ![p] = nonce]
  /\ contended' = [contended EXCEPT ![p] = FALSE]
  /\ SendWrite(p, RestartPatch(nonce))
  /\ UNCHANGED <<allowWrite, clusterVars, input, granted, applied, found,
                 landed, deployed>>

UndoReadsRevision(p) ==
  /\ pc[p] = "fetching"
  /\ input[p].op = "undo"
  /\ seen' = [seen EXCEPT ![p] = revision[input[p].target]]
  /\ contended' = [contended EXCEPT ![p] = FALSE]
  /\ StepTo(p, "listing")
  /\ sent' = [sent EXCEPT ![p] = @ + 1]
  /\ UNCHANGED <<allowWrite, clusterVars, input, wireVars, granted, applied,
                 found, landed, deployed>>

UndoReadsHistory(p) ==
  /\ pc[p] = "listing"
  /\ \E rs \in UndoCandidates(input[p].target, seen[p]) :
       SendWrite(p, rs.template)
  /\ UNCHANGED <<allowWrite, clusterVars, input, seen, granted, applied,
                 contended, found, landed, deployed>>

UndoFindsNothing(p) ==
  /\ pc[p] = "listing"
  /\ UndoCandidates(input[p].target, seen[p]) = {}
  /\ Answer(p, "error")
  /\ UNCHANGED <<allowWrite, clusterVars, input, seen, wireVars, ghostVars>>

(* Mutants: the status of the response is not looked at; a request that    *)
(* timed out is sent again; no timeout is set.                             *)
StatusIgnored(p) ==
  /\ pc[p] = "writing"
  /\ wire[p] \in {"2xx", "bad"}
  /\ Answer(p, "ok")
  /\ UNCHANGED <<allowWrite, clusterVars, input, seen, wireVars, ghostVars>>

ResendOnTimeout(p) ==
  /\ pc[p] = "writing"
  /\ sent[p] < 3
  /\ SendWrite(p, req[p].patch)
  /\ UNCHANGED <<allowWrite, clusterVars, input, seen, granted, applied,
                 contended, found, landed, deployed>>

WaitForever(p) == pc[p] = "writing" /\ FALSE /\ UNCHANGED vars

(* K8sClient::send: a 2xx with a JSON (or empty) body is a success; a      *)
(* non-2xx status, or a 2xx whose body does not decode, is an error.       *)
Receive(p) ==
  /\ pc[p] = "writing"
  /\ wire[p] \in {"2xx", "bad"}
  /\ Answer(p, IF wire[p] = "2xx" THEN "ok" ELSE "error")
  /\ UNCHANGED <<allowWrite, clusterVars, input, seen, wireVars, ghostVars>>

(* TIMEOUT_MS, or a broken connection: the run gives up, the request may   *)
(* still be on its way.                                                    *)
GiveUp(p) ==
  /\ pc[p] = "writing"
  /\ Answer(p, "error")
  /\ UNCHANGED <<allowWrite, clusterVars, input, seen, wireVars, ghostVars>>

-----------------------------------------------------------------------------
(* The API server (external).                                              *)

(* A status the client takes as an error may follow a committed write: a   *)
(* gateway timeout, or a body that does not decode.                        *)
Reply(p) == \E s \in {"2xx", "bad"} : wire' = [wire EXCEPT ![p] = s]

Commits(p) ==
  /\ wire[p] = "sent"
  /\ "dryRun" \notin req[p].query
  /\ Reply(p)
  /\ applied' = [applied EXCEPT ![p] = @ + 1]
  /\ UNCHANGED <<allowWrite, revision, replicaSets, edits, runVars, req, granted,
                 sent, deployed>>

(* History: a change of w overtakes the runs between their GET and the     *)
(* commit of their PATCH.                                                  *)
Overtake(w, exempt) ==
  contended' = [p \in Runs |-> contended[p] \/
                  /\ p \notin exempt
                  /\ input[p].target = w
                  /\ pc[p] = "listing" \/ wire[p] = "sent"]

CommitTemplate(p) ==
  LET w == input[p].target
      t == ApplyPatch(req[p].ctype, template[w], req[p].patch) IN
  /\ input[p].op \in TemplateOps
  /\ Commits(p)
  /\ template' = [template EXCEPT ![w] = t]
  /\ Overtake(w, {p})
  /\ found' = [found EXCEPT ![p] = template[w]]
  /\ landed' = [landed EXCEPT ![p] = t]
  /\ UNCHANGED <<replicas, cordoned, pods>>

CommitScale(p) ==
  /\ input[p].op = "scale"
  /\ Commits(p)
  /\ replicas' = [replicas EXCEPT ![input[p].target] = input[p].replicas]
  /\ UNCHANGED <<template, cordoned, pods, contended, found, landed>>

CommitSchedulable(p) ==
  /\ input[p].op \in NodeOps
  /\ Commits(p)
  /\ cordoned' = IF input[p].op = "cordon" THEN cordoned \union {input[p].target}
                 ELSE cordoned \ {input[p].target}
  /\ UNCHANGED <<template, replicas, pods, contended, found, landed>>

CommitDelete(p) ==
  /\ input[p].op = "delete"
  /\ input[p].target \in pods
  /\ Commits(p)
  /\ pods' = pods \ {input[p].target}
  /\ UNCHANGED <<template, replicas, cordoned, contended, found, landed>>

Commit(p) == \/ CommitTemplate(p) \/ CommitScale(p)
             \/ CommitSchedulable(p) \/ CommitDelete(p)

(* dryRun=All: validated and answered, nothing stored.                     *)
Rehearse(p) ==
  /\ wire[p] = "sent"
  /\ "dryRun" \in req[p].query
  /\ Reply(p)
  /\ UNCHANGED <<allowWrite, clusterVars, runVars, req, ghostVars>>

(* 404, 403, 409, a validation error, or lost before the server saw it.    *)
Reject(p) ==
  /\ wire[p] = "sent"
  /\ wire' = [wire EXCEPT ![p] = "bad"]
  /\ UNCHANGED <<allowWrite, clusterVars, runVars, req, ghostVars>>

-----------------------------------------------------------------------------
(* Everyone else (external).                                               *)

(* The operator provisions, changes or removes the allow_write secret.     *)
MoveGate ==
  /\ allowWrite' \in GateValues \ {allowWrite}
  /\ granted' = [p \in Runs |-> granted[p] \/
                   (allowWrite' = "true" /\ pc[p] \notin {"idle", "done"})]
  /\ UNCHANGED <<clusterVars, runVars, wireVars, sent, applied, contended,
                 found, landed, deployed>>

(* Somebody else changes the image of a workload.                          *)
Edit(w) ==
  /\ edits < MaxEdits
  /\ edits' = edits + 1
  /\ \E img \in Images \ {template[w].image} :
       template' = [template EXCEPT ![w].image = img]
  /\ Overtake(w, {})
  /\ UNCHANGED <<allowWrite, replicas, revision, replicaSets, cordoned, pods,
                 runVars, wireVars, granted, sent, applied, found, landed,
                 deployed>>

(* n follows the highest revision among the ReplicaSets rss.               *)
Follows(n, rss) ==
  /\ \A rs \in rss : rs.revision < n
  /\ n = 1 \/ \E rs \in rss : rs.revision = n - 1

(* The Deployment controller gives the current template a ReplicaSet with  *)
(* the newest revision, re-using the one that already has that template... *)
Reconcile(w) ==
  LET current == {rs \in replicaSets : rs.owner = w /\ rs.template = template[w]}
      others  == {rs \in replicaSets : rs.owner = w} \ current
  IN
  /\ \E n \in Revisions :
       LET new == [owner |-> w, revision |-> n, template |-> template[w]] IN
       /\ Follows(n, others)
       /\ \A rs \in current : rs.revision < n
       /\ replicaSets' = (replicaSets \ current) \union {new}
       /\ deployed' = deployed \union {new}
  /\ UNCHANGED <<allowWrite, template, replicas, revision, cordoned, pods, edits,
                 runVars, wireVars, granted, sent, applied, contended, found,
                 landed>>

(* ... and then copies that revision to the Deployment: until it does, the *)
(* annotation is behind the template.                                      *)
Annotate(w) ==
  /\ \E rs \in replicaSets :
       /\ rs.owner = w
       /\ rs.template = template[w]
       /\ rs.revision # revision[w]
       /\ revision' = [revision EXCEPT ![w] = rs.revision]
  /\ UNCHANGED <<allowWrite, template, replicas, replicaSets, cordoned, pods, edits,
                 runVars, wireVars, ghostVars>>

(* revisionHistoryLimit: an old ReplicaSet is garbage-collected.           *)
Prune(rs) ==
  /\ rs.template # template[rs.owner]
  /\ replicaSets' = replicaSets \ {rs}
  /\ UNCHANGED <<allowWrite, template, replicas, revision, cordoned, pods, edits,
                 runVars, wireVars, ghostVars>>

-----------------------------------------------------------------------------
RunStep(p) ==
  \/ ResolveInputs(p) \/ ReadGate(p) \/ ReadGateFallback(p)
  \/ RejectArgument(p) \/ SendDirect(p) \/ SendGet(p)
  \/ ReadFails(p) \/ RestartReads(p)
  \/ UndoReadsRevision(p) \/ UndoReadsHistory(p) \/ UndoFindsNothing(p)
  \/ Receive(p) \/ GiveUp(p)

ServerStep(p) == Commit(p) \/ Rehearse(p) \/ Reject(p)

Others ==
  \/ MoveGate
  \/ \E w \in Workloads : Edit(w) \/ Reconcile(w) \/ Annotate(w)
  \/ \E rs \in replicaSets : Prune(rs)

Next == \/ \E p \in Runs : Invoke(p) \/ RunStep(p) \/ ServerStep(p)
        \/ Others

Spec == Init /\ [][Next]_vars

(* The runner carries an invocation to its end: a step of local code or a  *)
(* request, which answers, fails or times out (TIMEOUT_MS).  Nothing is    *)
(* assumed of the server, the controller or the operator.                  *)
Fairness == \A p \in Runs : WF_vars(RunStep(p))

FairSpec == Spec /\ Fairness

-----------------------------------------------------------------------------
(* Properties.                                                             *)

(* The gate protects the cluster (ops.rs with_write_client, transport.rs   *)
(* NodeSecrets): a run that has sent any HTTP request, a GET included, saw *)
(* allow_write = true stand in the secret store at some moment of its own  *)
(* life, whatever was read, revoked or unreadable around it.               *)
NoCallUnlessGranted == \A p \in Runs : sent[p] > 0 => granted[p]

(* What a flow may conclude from a reply: "ok" means the one write was     *)
(* committed (or rehearsed), "refused" that nothing was sent, and no reply *)
(* hides a second write, even when a timed-out request lands later.        *)
ReplyTellsEffect ==
  \A p \in Runs :
    /\ applied[p] <= 1
    /\ reply[p] = "ok" => applied[p] = IF input[p].dry THEN 0 ELSE 1
    /\ reply[p] = "refused" => sent[p] = 0 /\ applied[p] = 0

(* dry_run: no answer the server gives to a rehearsing run comes with a    *)
(* change of the cluster (remediate.rs, "validates without committing").   *)
DryRunLeavesCluster ==
  [][\A p \in Runs : wire[p] = "sent" /\ wire'[p] # "sent" /\ input[p].dry
       => UNCHANGED clusterVars]_vars

(* rollout_restart: unless the template changed between its GET and its    *)
(* PATCH, a restart that the cluster committed really changed the pod      *)
(* template, so the controller recreates the pods, also at the u64 limit.  *)
UncontendedRestartRolls ==
  \A p \in Runs : input[p].op = "restart" /\ applied[p] > 0 /\ ~contended[p]
                    => landed[p] # found[p]

(* rollout_undo: the image a rollback leaves is the one this Deployment,   *)
(* not another, had at the revision before the one the run read, although  *)
(* the Deployment, the history and the PATCH are read and written apart.   *)
UndoRestoresPredecessor ==
  \A p \in Runs : input[p].op = "undo" /\ applied[p] > 0
    => \E d \in deployed : /\ d.owner = input[p].target
                           /\ d.revision = seen[p] - 1
                           /\ d.template.image = landed[p].image

(* Every run that was invoked answers its flow: no step waits on the       *)
(* cluster without a way out (transport.rs TIMEOUT_MS).                    *)
EveryRunAnswers == \A p \in Runs : pc[p] = "resolving" ~> pc[p] = "done"

(* The runs keep the promise of a one-shot write.                          *)
OneShot == INSTANCE OneShotWrite WITH
  gate      <- allowWrite = "true",
  phase     <- [p \in Runs |-> IF pc[p] = "idle" THEN "idle"
                               ELSE IF pc[p] = "done" THEN "answered"
                               ELSE "running"],
  rehearsal <- [p \in Runs |-> input[p].dry],
  allowed   <- granted,
  effect    <- {p \in Runs : applied[p] > 0},
  verdict   <- reply

KeepsOneShotPromise == OneShot!AbsSpec

-----------------------------------------------------------------------------
(* What the source says of the program and the program does not do.        *)

(* remediate.rs 99-101: "Because the value always changes, Kubernetes      *)
(* always detects a pod-template diff and progressively recreates pods".   *)
RestartAlwaysRolls ==
  \A p \in Runs : input[p].op = "restart" /\ applied[p] > 0
                    => landed[p] # found[p]

(* remediate.rs 179-181: rollout_undo rolls back by patching "the          *)
(* Deployment's pod template back to the previous revision's pod template".*)
UndoRestoresTemplate ==
  \A p \in Runs : input[p].op = "undo" /\ applied[p] > 0 /\ ~contended[p]
                    => landed[p] = req[p].patch
=============================================================================
