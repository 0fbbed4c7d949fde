------------------------- MODULE K8sRemediateProofs -------------------------
(***************************************************************************)
(* Proofs about K8sRemediate for every set of runs, every cluster and      *)
(* every set of inputs that satisfy ConstantsAssumption: type correctness, *)
(* the gate, what a reply tells, that a dry run leaves the cluster alone,  *)
(* that an undo restores the images of the revision before, and that the   *)
(* runs implement OneShotWrite.                                            *)
(***************************************************************************)
EXTENDS K8sRemediate, TLAPS

-----------------------------------------------------------------------------
(* Lemmas about what the handlers and the API server compute.              *)

(* The nonce rollout_restart writes is a u64 again (remediate.rs, "+ 1" in *)
(* a release build): the increment wraps instead of leaving the range.     *)
LEMMA NonceStaysInRange ==
  ASSUME NEW n \in Nonces
  PROVE  NextNonce(n) \in Nonces \ {Absent}
<1>1. NonceMod \in Nat /\ NonceMod > 1  BY ConstantsAssumption
<1>2. CASE n = Absent
  BY <1>1, <1>2 DEF NextNonce, Nonces, Absent
<1>3. CASE n # Absent
  <2>1. n + 1 \in Int  BY <1>1, <1>3 DEF Nonces, Absent
  <2>2. (n + 1) % NonceMod \in 0 .. NonceMod - 1  BY <1>1, <2>1
  <2> QED  BY <1>1, <1>3, <2>2 DEF NextNonce, Nonces, Absent
<1> QED  BY <1>2, <1>3

(* The API server turns a template and a patch into a template, whatever   *)
(* the media type: an image the patch does not mention stays.              *)
LEMMA ApplyPatchType ==
  ASSUME NEW c, NEW t \in Template, NEW q \in Patch
  PROVE  ApplyPatch(c, t, q) \in Template
<1>1. StrategicMerge(t, q) \in Template
  BY DEF StrategicMerge, Template, Patch
<1> QED  BY <1>1 DEF ApplyPatch, Template, Patch

LEMMA TemplateIsPatch == Template \subseteq Patch /\ NoPatch \in Patch
BY DEF Template, Patch, NoPatch, Nonces

(* Every input the nodes are invoked with asks for an operation on a       *)
(* target of its kind.                                                     *)
LEMMA InputFields ==
  ASSUME NEW i \in Inputs
  PROVE  /\ i \in [op : Ops, target : Workloads \union Pods \union Nodes,
                   dry : BOOLEAN, defect : Defects, patchType : PatchTypes,
                   image : Images, replicas : Replicas]
         /\ i.target \in Targets(i.op)
BY ConstantsAssumption DEF Input

LEMMA TargetKinds ==
  ASSUME NEW i \in Inputs
  PROVE  /\ i.op \in WorkloadOps => i.target \in Workloads
         /\ i.op \in NodeOps => i.target \in Nodes
         /\ i.op \notin WorkloadOps /\ i.op \notin NodeOps => i.target \in Pods
BY InputFields DEF Targets, WorkloadOps, NodeOps

(* Every request the handlers build is one the API server knows.           *)
LEMMA RequestType ==
  ASSUME NEW i \in Inputs, NEW q \in Patch
  PROVE  [query |-> Query(i), ctype |-> ContentType(i), patch |-> q] \in Request
<1>1. Query(i) \in SUBSET Queries  BY DEF Query, DryRunQuery, Queries
<1>2. ContentType(i) \in ContentTypes
  BY InputFields DEF ContentType, ContentTypes, PatchContentType
<1> QED  BY <1>1, <1>2 DEF Request

LEMMA DirectPatchType ==
  ASSUME NEW i \in Inputs
  PROVE  DirectPatch(i) \in Patch
BY InputFields, TemplateIsPatch DEF DirectPatch, NoPatch, Patch

LEMMA RestartPatchType ==
  ASSUME NEW n \in Nonces
  PROVE  RestartPatch(n) \in Patch
BY NonceStaysInRange DEF RestartPatch, Patch

(* dry_run = true is in the query of every operation, never without it.    *)
LEMMA QueryTellsDryRun ==
  ASSUME NEW i \in Inputs
  PROVE  "dryRun" \in Query(i) <=> i.dry
BY InputFields DEF Query, DryRunQuery

-----------------------------------------------------------------------------
(* Type correctness.                                                       *)

(* The states the program starts in are typed.                             *)
LEMMA InitTypes == Init => TypeOK
<1> SUFFICES ASSUME Init PROVE TypeOK  OBVIOUS
<1>1. {0, 1} \subseteq Revisions  BY ConstantsAssumption DEF Revisions
<1>2. replicaSets \in SUBSET ReplicaSet
  BY <1>1, ConstantsAssumption DEF Init, ReplicaSet
<1>3. ClusterTypes
  <2>1. revision \in [Workloads -> Revisions]
    BY <1>1, ConstantsAssumption DEF Init
  <2> QED  BY <1>2, <2>1, ConstantsAssumption DEF Init, ClusterTypes
<1>4. NoRequest \in Request
  BY TemplateIsPatch DEF NoRequest, Request, Queries, ContentTypes
<1>5. 0 \in Nonces \union Revisions  BY ConstantsAssumption DEF Revisions
<1>6. RunTypes  BY <1>4, <1>5 DEF Init, RunTypes, PCs, Replies
<1>7. HistoryTypes  BY <1>2, TemplateIsPatch DEF Init, HistoryTypes
<1> QED  BY <1>3, <1>6, <1>7 DEF TypeOK

(* The steps that only move a run through its local code.                  *)
LEMMA LocalSteps ==
  ASSUME TypeOK, NEW p \in Runs,
         ResolveInputs(p) \/ ReadGate(p) \/ ReadGateFallback(p)
           \/ RejectArgument(p) \/ ReadFails(p) \/ UndoFindsNothing(p)
           \/ Receive(p) \/ GiveUp(p)
  PROVE  TypeOK'
<1>1. UNCHANGED <<allowWrite, clusterVars, input, seen, wireVars, ghostVars>>
  BY DEF ResolveInputs, ReadGate, ReadGateFallback, RejectArgument, ReadFails,
         UndoFindsNothing, Receive, GiveUp
<1>2. \/ \E r \in Replies : Answer(p, r)
      \/ \E c \in PCs : StepTo(p, c)
  BY DEF ResolveInputs, ReadGate, ReadGateFallback, GateValueRead,
         RejectArgument, ReadFails, UndoFindsNothing, Receive, GiveUp, PCs,
         Replies
<1>3. ClusterTypes' /\ HistoryTypes'
  BY <1>1 DEF TypeOK, ClusterTypes, HistoryTypes, clusterVars, ghostVars
<1>4. RunTypes'
  BY <1>1, <1>2 DEF TypeOK, RunTypes, wireVars, Answer, StepTo, PCs
<1> QED  BY <1>3, <1>4 DEF TypeOK

(* The steps that send a request: a GET, or the run's one write.           *)
LEMMA SendWriteTypes ==
  ASSUME TypeOK, NEW p \in Runs, NEW q \in Patch, SendWrite(p, q)
  PROVE  /\ pc' \in [Runs -> PCs] /\ reply' \in [Runs -> Replies]
         /\ wire' \in [Runs -> {"none", "sent", "2xx", "bad"}]
         /\ req' \in [Runs -> Request]
         /\ sent' \in [Runs -> Nat]
<1>1. input[p] \in Inputs  BY DEF TypeOK, RunTypes
<1>2. [query |-> Query(input[p]), ctype |-> ContentType(input[p]),
       patch |-> q] \in Request
  BY <1>1, RequestType
<1> QED
  BY <1>2 DEF TypeOK, RunTypes, HistoryTypes, SendWrite, StepTo, PCs

LEMMA SendSteps ==
  ASSUME TypeOK, NEW p \in Runs,
         SendDirect(p) \/ SendGet(p) \/ RestartReads(p)
           \/ UndoReadsRevision(p) \/ UndoReadsHistory(p)
  PROVE  TypeOK'
<1>1. input[p] \in Inputs  BY DEF TypeOK, RunTypes
<1>2. ClusterTypes'
  BY DEF SendDirect, SendGet, RestartReads, UndoReadsRevision,
         UndoReadsHistory, TypeOK, ClusterTypes, clusterVars
<1>3. CASE SendDirect(p)
  <2>1. DirectPatch(input[p]) \in Patch  BY <1>1, DirectPatchType
  <2>2. SendWrite(p, DirectPatch(input[p]))  BY <1>3 DEF SendDirect
  <2> QED  BY <1>2, <1>3, <2>1, <2>2, SendWriteTypes
           DEF SendDirect, TypeOK, RunTypes, HistoryTypes
<1>4. CASE SendGet(p)
  BY <1>2, <1>4 DEF SendGet, StepTo, TypeOK, RunTypes, HistoryTypes, PCs,
                    wireVars
<1>5. CASE RestartReads(p)
  <2> DEFINE nonce == template[input[p].target].nonce
  <2>1. input[p].target \in Workloads
    BY <1>1, <1>5, TargetKinds DEF RestartReads, WorkloadOps
  <2>2. nonce \in Nonces
    BY <2>1 DEF TypeOK, ClusterTypes, Template
  <2>3. RestartPatch(nonce) \in Patch  BY <2>2, RestartPatchType
  <2>4. SendWrite(p, RestartPatch(nonce))  BY <1>5 DEF RestartReads
  <2> QED  BY <1>2, <1>5, <2>2, <2>3, <2>4, SendWriteTypes
           DEF RestartReads, TypeOK, RunTypes, HistoryTypes
<1>6. CASE UndoReadsRevision(p)
  <2>1. input[p].target \in Workloads
    BY <1>1, <1>6, TargetKinds DEF UndoReadsRevision, WorkloadOps
  <2>2. revision[input[p].target] \in Revisions
    BY <2>1 DEF TypeOK, ClusterTypes
  <2> QED  BY <1>2, <1>6, <2>2
           DEF UndoReadsRevision, StepTo, TypeOK, RunTypes, HistoryTypes, PCs,
               wireVars
<1>7. CASE UndoReadsHistory(p)
  <2>1. PICK rs \in UndoCandidates(input[p].target, seen[p]) :
          SendWrite(p, rs.template)
    BY <1>7 DEF UndoReadsHistory
  <2>2. rs.template \in Patch
    BY <2>1, TemplateIsPatch
    DEF UndoCandidates, TypeOK, ClusterTypes, ReplicaSet
  <2> QED  BY <1>2, <1>7, <2>1, <2>2, SendWriteTypes
           DEF UndoReadsHistory, TypeOK, RunTypes, HistoryTypes
<1> QED  BY <1>3, <1>4, <1>5, <1>6, <1>7

(* The API server commits a request, rehearses it or turns it down.        *)
LEMMA CommitTypes ==
  ASSUME TypeOK, NEW p \in Runs, Commits(p)
  PROVE  /\ RunTypes'
         /\ applied' \in [Runs -> Nat]
BY DEF Commits, Reply, TypeOK, RunTypes, HistoryTypes, runVars

LEMMA OvertakeType ==
  ASSUME NEW w, NEW e, Overtake(w, e)
  PROVE  contended' \in [Runs -> BOOLEAN]
BY DEF Overtake

LEMMA ServerSteps ==
  ASSUME TypeOK, NEW p \in Runs, ServerStep(p)
  PROVE  TypeOK'
<1>1. input[p] \in Inputs  BY DEF TypeOK, RunTypes
<1>2. CASE CommitTemplate(p)
  <2> DEFINE w == input[p].target
             t == ApplyPatch(req[p].ctype, template[w], req[p].patch)
  <2>1. w \in Workloads
    BY <1>1, <1>2, TargetKinds DEF CommitTemplate, TemplateOps
  <2>2. template[w] \in Template /\ req[p].patch \in Patch
    BY <2>1 DEF TypeOK, ClusterTypes, RunTypes, Request
  <2>3. t \in Template  BY <2>2, ApplyPatchType
  <2>4. template[w] \in Patch /\ t \in Patch  BY <2>2, <2>3, TemplateIsPatch
  <2>5. RunTypes' /\ applied' \in [Runs -> Nat]
    BY <1>2, CommitTypes DEF CommitTemplate
  <2>6. contended' \in [Runs -> BOOLEAN]
    BY <1>2, OvertakeType DEF CommitTemplate
  <2>7. /\ template' = [template EXCEPT ![w] = t]
        /\ found' = [found EXCEPT ![p] = template[w]]
        /\ landed' = [landed EXCEPT ![p] = t]
        /\ UNCHANGED <<allowWrite, replicas, revision, replicaSets, cordoned,
                       pods, edits, granted, sent, deployed>>
    BY <1>2 DEF CommitTemplate, Commits
  <2>8. ClusterTypes'  BY <2>1, <2>3, <2>7 DEF TypeOK, ClusterTypes
  <2>9. HistoryTypes'
    BY <2>4, <2>5, <2>6, <2>7 DEF TypeOK, HistoryTypes
  <2> QED  BY <2>5, <2>8, <2>9 DEF TypeOK
<1>3. CASE CommitScale(p) \/ CommitSchedulable(p) \/ CommitDelete(p)
  <2>1. RunTypes' /\ applied' \in [Runs -> Nat]
    BY <1>3, CommitTypes DEF CommitScale, CommitSchedulable, CommitDelete
  <2>2. UNCHANGED <<allowWrite, template, revision, replicaSets, edits, granted,
                    sent, contended, found, landed, deployed>>
    BY <1>3 DEF CommitScale, CommitSchedulable, CommitDelete, Commits
  <2>3. replicas' \in [Workloads -> Replicas]
    BY <1>1, <1>3, InputFields
    DEF CommitScale, CommitSchedulable, CommitDelete, TypeOK, ClusterTypes
  <2>4. cordoned' \in SUBSET Nodes /\ pods' \in SUBSET Pods
    BY <1>1, <1>3, TargetKinds
    DEF CommitScale, CommitSchedulable, CommitDelete, TypeOK, ClusterTypes
  <2>5. ClusterTypes'  BY <2>2, <2>3, <2>4 DEF TypeOK, ClusterTypes
  <2>6. HistoryTypes'  BY <2>1, <2>2 DEF TypeOK, HistoryTypes
  <2> QED  BY <2>1, <2>5, <2>6 DEF TypeOK
<1>4. CASE Rehearse(p) \/ Reject(p)
  BY <1>4 DEF Rehearse, Reject, Reply, TypeOK, ClusterTypes, RunTypes,
              HistoryTypes, clusterVars, runVars, ghostVars
<1> QED  BY <1>2, <1>3, <1>4 DEF ServerStep, Commit

(* The operator, other writers and the Deployment controller.              *)
LEMMA OtherSteps ==
  ASSUME TypeOK, Others
  PROVE  TypeOK'
<1>1. CASE MoveGate
  BY <1>1, ConstantsAssumption
  DEF MoveGate, TypeOK, ClusterTypes, RunTypes, HistoryTypes, clusterVars,
      runVars, wireVars
<1>2. ASSUME NEW w \in Workloads, Edit(w)
      PROVE  TypeOK'
  <2>1. PICK img \in Images : template' = [template EXCEPT ![w].image = img]
    BY <1>2 DEF Edit
  <2>2. template' \in [Workloads -> Template]
    BY <1>2, <2>1 DEF TypeOK, ClusterTypes, Template
  <2>3. edits' \in 0 .. MaxEdits
    BY <1>2, ConstantsAssumption DEF Edit, TypeOK, ClusterTypes
  <2>4. contended' \in [Runs -> BOOLEAN]  BY <1>2, OvertakeType DEF Edit
  <2> QED
    BY <1>2, <2>2, <2>3, <2>4
    DEF Edit, TypeOK, ClusterTypes, RunTypes, HistoryTypes, runVars, wireVars
<1>3. ASSUME NEW w \in Workloads, Reconcile(w)
      PROVE  TypeOK'
  <2>1. PICK n \in Revisions, current \in SUBSET replicaSets :
          LET new == [owner |-> w, revision |-> n, template |-> template[w]] IN
          /\ replicaSets' = (replicaSets \ current) \union {new}
          /\ deployed' = deployed \union {new}
    BY <1>3 DEF Reconcile
  <2>2. [owner |-> w, revision |-> n, template |-> template[w]] \in ReplicaSet
    BY <1>3 DEF TypeOK, ClusterTypes, ReplicaSet
  <2>3. replicaSets' \in SUBSET ReplicaSet /\ deployed' \in SUBSET ReplicaSet
    BY <2>1, <2>2 DEF TypeOK, ClusterTypes, HistoryTypes
  <2> QED
    BY <1>3, <2>3
    DEF Reconcile, TypeOK, ClusterTypes, RunTypes, HistoryTypes, runVars,
        wireVars
<1>4. ASSUME NEW w \in Workloads, Annotate(w)
      PROVE  TypeOK'
  <2>1. PICK rs \in replicaSets : revision' = [revision EXCEPT ![w] = rs.revision]
    BY <1>4 DEF Annotate
  <2>2. revision' \in [Workloads -> Revisions]
    BY <2>1 DEF TypeOK, ClusterTypes, ReplicaSet
  <2> QED
    BY <1>4, <2>2
    DEF Annotate, TypeOK, ClusterTypes, RunTypes, HistoryTypes, runVars,
        wireVars, ghostVars
<1>5. ASSUME NEW rs \in replicaSets, Prune(rs)
      PROVE  TypeOK'
  BY <1>5 DEF Prune, TypeOK, ClusterTypes, RunTypes, HistoryTypes, runVars,
              wireVars, ghostVars
<1> QED  BY <1>1, <1>2, <1>3, <1>4, <1>5 DEF Others

LEMMA NextTypes == TypeOK /\ [Next]_vars => TypeOK'
<1> SUFFICES ASSUME TypeOK, [Next]_vars PROVE TypeOK'  OBVIOUS
<1>1. ASSUME NEW p \in Runs, Invoke(p)
      PROVE  TypeOK'
  BY <1>1 DEF Invoke, TypeOK, ClusterTypes, RunTypes, HistoryTypes, clusterVars,
              wireVars, PCs
<1>2. ASSUME NEW p \in Runs, RunStep(p)
      PROVE  TypeOK'
  BY <1>2, LocalSteps, SendSteps DEF RunStep
<1>3. ASSUME NEW p \in Runs, ServerStep(p)
      PROVE  TypeOK'
  BY <1>3, ServerSteps
<1>4. CASE Others  BY <1>4, OtherSteps
<1>5. CASE UNCHANGED vars
  BY <1>5 DEF vars, TypeOK, ClusterTypes, RunTypes, HistoryTypes, clusterVars,
              runVars, wireVars, ghostVars
<1> QED  BY <1>1, <1>2, <1>3, <1>4, <1>5 DEF Next

(* Every state the program reaches is typed: in particular every request   *)
(* has one of the four patch media types and a nonce within u64.           *)
THEOREM TypeCorrect == Spec => []TypeOK
BY InitTypes, NextTypes, PTL DEF Spec

-----------------------------------------------------------------------------
(* The inductive invariant of a run.                                       *)

(* The gate is read once, and may be moved at any time after: what a run   *)
(* past the gate can rely on is that it stood open at some moment.         *)
GateSeen(p) ==
  /\ pc[p] \notin {"idle", "done"} /\ allowWrite = "true" => granted[p]
  /\ pc[p] \in {"open", "fetching", "listing", "writing"} => granted[p]
  /\ sent[p] > 0 => granted[p]

(* A run has at most one write on the wire, which asks for a dry run as    *)
(* the input does; nothing is committed before it is sent, and a success   *)
(* means it was committed, or rehearsed.                                   *)
OneWrite(p) ==
  /\ pc[p] \in {"idle", "resolving", "gate", "fallback", "open"} => sent[p] = 0
  /\ pc[p] \notin {"writing", "done"} => wire[p] = "none"
  /\ wire[p] # "none" => /\ sent[p] > 0
                         /\ "dryRun" \in req[p].query <=> input[p].dry
  /\ wire[p] \in {"none", "sent"} => applied[p] = 0
  /\ applied[p] <= 1
  /\ input[p].dry => applied[p] = 0
  /\ wire[p] = "2xx" => applied[p] = IF input[p].dry THEN 0 ELSE 1

(* The reply is the end of the run, and says what was on the wire.         *)
ReplyFollows(p) ==
  /\ reply[p] # "none" <=> pc[p] = "done"
  /\ reply[p] = "ok" => wire[p] = "2xx"
  /\ reply[p] = "refused" => sent[p] = 0

RunInv(p) == GateSeen(p) /\ OneWrite(p) /\ ReplyFollows(p)

IInv == TypeOK /\ \A p \in Runs : RunInv(p)

LEMMA InitInv == Init => IInv
<1> SUFFICES ASSUME Init PROVE IInv  OBVIOUS
<1>1. TypeOK  BY InitTypes
<1>2. ASSUME NEW p \in Runs PROVE RunInv(p)
  BY <1>1 DEF Init, RunInv, GateSeen, OneWrite, ReplyFollows
<1> QED  BY <1>1, <1>2 DEF IInv

(* A step leaves the invariant of run r alone when it changes nothing the  *)
(* invariant speaks of.                                                    *)
LEMMA RunInvFrame ==
  ASSUME NEW r \in Runs, RunInv(r), UNCHANGED input,
         allowWrite' = allowWrite, pc'[r] = pc[r], reply'[r] = reply[r],
         wire'[r] = wire[r], req'[r] = req[r], granted'[r] = granted[r],
         sent'[r] = sent[r], applied'[r] = applied[r]
  PROVE  RunInv(r)'
BY DEF RunInv, GateSeen, OneWrite, ReplyFollows

(* A run that begins has seen the gate if it stands open.                  *)
LEMMA InvokeInv ==
  ASSUME IInv, NEW p \in Runs, NEW r \in Runs, Invoke(p)
  PROVE  RunInv(r)'
<1>1. RunInv(r) /\ TypeOK  BY DEF IInv
<1>2. UNCHANGED <<allowWrite, input, reply, wire, req, sent, applied>>
  BY DEF Invoke, wireVars
<1>3. CASE r # p
  <2>1. pc'[r] = pc[r] /\ granted'[r] = granted[r]
    BY <1>1, <1>3 DEF Invoke, TypeOK, RunTypes, HistoryTypes
  <2> QED  BY <1>1, <1>2, <2>1, RunInvFrame
<1>4. CASE r = p
  <2>1. pc[r] = "idle" /\ pc'[r] = "resolving"
    BY <1>1, <1>4 DEF Invoke, TypeOK, RunTypes
  <2>2. allowWrite = "true" => granted'[r]
    BY <1>1, <1>4 DEF Invoke, TypeOK, HistoryTypes
  <2>3. sent'[r] = 0  BY <1>1, <1>2, <2>1 DEF RunInv, OneWrite
  <2>4. GateSeen(r)'  BY <1>2, <2>1, <2>2, <2>3 DEF GateSeen
  <2>5. OneWrite(r)' /\ ReplyFollows(r)'
    BY <1>1, <1>2, <2>1 DEF RunInv, OneWrite, ReplyFollows
  <2> QED  BY <2>4, <2>5 DEF RunInv
<1> QED  BY <1>3, <1>4

(* Local steps.  The gate lets a run pass only while it stands open.       *)
LEMMA LocalInv ==
  ASSUME IInv, NEW p \in Runs, NEW r \in Runs,
         ResolveInputs(p) \/ ReadGate(p) \/ ReadGateFallback(p)
           \/ RejectArgument(p) \/ ReadFails(p) \/ UndoFindsNothing(p)
           \/ Receive(p) \/ GiveUp(p)
  PROVE  RunInv(r)'
<1>1. UNCHANGED <<allowWrite, input, wire, req, granted, sent, applied>>
  BY DEF ResolveInputs, ReadGate, ReadGateFallback, RejectArgument, ReadFails,
         UndoFindsNothing, Receive, GiveUp, wireVars, ghostVars
<1>2. RunInv(r) /\ RunInv(p) /\ TypeOK  BY DEF IInv
<1>3. CASE r # p
  <2>1. pc'[r] = pc[r] /\ reply'[r] = reply[r]
    BY <1>2, <1>3
    DEF ResolveInputs, ReadGate, ReadGateFallback, GateValueRead,
        RejectArgument, ReadFails, UndoFindsNothing, Receive, GiveUp, Answer,
        StepTo, TypeOK, RunTypes
  <2> QED  BY <1>1, <1>2, <2>1, RunInvFrame
<1>4. CASE r = p
  <2>1. CASE ResolveInputs(p)
    BY <1>1, <1>2, <1>4, <2>1
    DEF ResolveInputs, Answer, StepTo, TypeOK, RunTypes, HistoryTypes, RunInv,
        GateSeen, OneWrite, ReplyFollows
  <2>2. CASE ReadGate(p) \/ ReadGateFallback(p)
    BY <1>1, <1>2, <1>4, <2>2
    DEF ReadGate, ReadGateFallback, GateValueRead, Answer, StepTo, TypeOK,
        RunTypes, HistoryTypes, RunInv, GateSeen, OneWrite, ReplyFollows
  <2>3. CASE RejectArgument(p) \/ ReadFails(p) \/ UndoFindsNothing(p)
               \/ GiveUp(p)
    BY <1>1, <1>2, <1>4, <2>3
    DEF RejectArgument, ReadFails, UndoFindsNothing, GiveUp, Answer, TypeOK,
        RunTypes, HistoryTypes, RunInv, GateSeen, OneWrite, ReplyFollows
  <2>4. CASE Receive(p)
    BY <1>1, <1>2, <1>4, <2>4
    DEF Receive, Answer, TypeOK, RunTypes, HistoryTypes, RunInv, GateSeen,
        OneWrite, ReplyFollows
  <2> QED  BY <2>1, <2>2, <2>3, <2>4
<1> QED  BY <1>3, <1>4

(* The steps that send: a run sends its write once, from a place where     *)
(* nothing is on the wire yet.                                             *)
LEMMA SendInv ==
  ASSUME IInv, NEW p \in Runs, NEW r \in Runs,
         SendDirect(p) \/ SendGet(p) \/ RestartReads(p)
           \/ UndoReadsRevision(p) \/ UndoReadsHistory(p)
  PROVE  RunInv(r)'
<1>1. UNCHANGED <<allowWrite, input, granted, applied>>
  BY DEF SendDirect, SendGet, RestartReads, UndoReadsRevision,
         UndoReadsHistory
<1>2. RunInv(r) /\ RunInv(p) /\ TypeOK  BY DEF IInv
<1>3. /\ pc[p] \in {"open", "fetching", "listing"}
      /\ sent' = [sent EXCEPT ![p] = @ + 1]
      /\ UNCHANGED reply
      /\ \/ UNCHANGED wireVars /\ pc' \in {[pc EXCEPT ![p] = "fetching"],
                                            [pc EXCEPT ![p] = "listing"]}
         \/ \E q : SendWrite(p, q)
  BY DEF SendDirect, SendGet, RestartReads, UndoReadsRevision,
         UndoReadsHistory, SendWrite, StepTo
<1>4. CASE r # p
  <2>1. /\ pc'[r] = pc[r] /\ reply'[r] = reply[r] /\ wire'[r] = wire[r]
        /\ req'[r] = req[r] /\ sent'[r] = sent[r]
    BY <1>2, <1>3, <1>4
    DEF SendWrite, StepTo, wireVars, TypeOK, RunTypes, HistoryTypes
  <2> QED  BY <1>1, <1>2, <2>1, RunInvFrame
<1>5. CASE r = p /\ \E q : SendWrite(p, q)
  <2>1. /\ pc'[p] = "writing" /\ wire'[p] = "sent" /\ reply'[p] = reply[p]
        /\ req'[p].query = Query(input[p]) /\ sent'[p] = sent[p] + 1
    BY <1>2, <1>5 DEF SendWrite, StepTo, TypeOK, RunTypes, HistoryTypes
  <2>2. "dryRun" \in req'[p].query <=> input[p].dry
    BY <1>2, <2>1, QueryTellsDryRun DEF TypeOK, RunTypes
  <2>3. /\ wire[p] = "none" /\ applied[p] = 0 /\ granted[p]
        /\ reply[p] = "none" /\ sent[p] \in Nat
    BY <1>2, <1>3 DEF RunInv, GateSeen, OneWrite, ReplyFollows, TypeOK,
                      HistoryTypes
  <2> QED
    BY <1>1, <1>5, <2>1, <2>2, <2>3
    DEF RunInv, GateSeen, OneWrite, ReplyFollows
<1>6. CASE r = p /\ UNCHANGED wireVars
             /\ pc' \in {[pc EXCEPT ![p] = "fetching"],
                         [pc EXCEPT ![p] = "listing"]}
  BY <1>1, <1>2, <1>3, <1>6
  DEF wireVars, TypeOK, RunTypes, HistoryTypes, RunInv, GateSeen, OneWrite,
      ReplyFollows
<1> QED  BY <1>3, <1>4, <1>5, <1>6

(* The server answers a request once, and commits it only if it is not a   *)
(* dry run; this may well happen after the run gave up.                    *)
LEMMA CommitIsOneOf ==
  ASSUME NEW p, Commit(p)
  PROVE  Commits(p)
BY DEF Commit, CommitTemplate, CommitScale, CommitSchedulable, CommitDelete

LEMMA ServerInv ==
  ASSUME IInv, NEW p \in Runs, NEW r \in Runs, ServerStep(p)
  PROVE  RunInv(r)'
<1>1. RunInv(r) /\ RunInv(p) /\ TypeOK  BY DEF IInv
<1>2. /\ UNCHANGED <<allowWrite, pc, input, reply, req, granted, sent>>
      /\ wire[p] = "sent"
      /\ \/ /\ Reply(p) /\ applied' = [applied EXCEPT ![p] = @ + 1]
            /\ "dryRun" \notin req[p].query
         \/ Reply(p) /\ UNCHANGED applied /\ "dryRun" \in req[p].query
         \/ wire' = [wire EXCEPT ![p] = "bad"] /\ UNCHANGED applied
  BY CommitIsOneOf
  DEF ServerStep, Commits, Rehearse, Reject, runVars, ghostVars
<1>3. CASE r # p
  <2>1. wire'[r] = wire[r] /\ applied'[r] = applied[r]
    BY <1>1, <1>2, <1>3 DEF Reply, TypeOK, RunTypes, HistoryTypes
  <2> QED  BY <1>1, <1>2, <2>1, RunInvFrame
<1>4. CASE r = p
  BY <1>1, <1>2, <1>4
  DEF Reply, TypeOK, RunTypes, HistoryTypes, RunInv, GateSeen, OneWrite,
      ReplyFollows
<1> QED  BY <1>3, <1>4

(* Everyone else touches a run's gate at most.                             *)
LEMMA OtherInv ==
  ASSUME IInv, Others, NEW r \in Runs
  PROVE  RunInv(r)'
<1>1. RunInv(r) /\ TypeOK  BY DEF IInv
<1>2. UNCHANGED <<pc, input, reply, wire, req, sent, applied>>
  BY DEF Others, MoveGate, Edit, Reconcile, Annotate, Prune, runVars, wireVars,
         ghostVars
<1>3. CASE MoveGate
  BY <1>1, <1>2, <1>3
  DEF MoveGate, TypeOK, RunTypes, HistoryTypes, RunInv, GateSeen, OneWrite,
      ReplyFollows
<1>4. CASE UNCHANGED <<allowWrite, granted>>
  BY <1>1, <1>2, <1>4, RunInvFrame
<1>5. MoveGate \/ UNCHANGED <<allowWrite, granted>>
  BY DEF Others, Edit, Reconcile, Annotate, Prune, ghostVars
<1> QED  BY <1>3, <1>4, <1>5

LEMMA NextInv == IInv /\ [Next]_vars => IInv'
<1> SUFFICES ASSUME IInv, [Next]_vars PROVE IInv'  OBVIOUS
<1>1. TypeOK'  BY NextTypes DEF IInv
<1>2. ASSUME NEW r \in Runs PROVE RunInv(r)'
  <2>1. ASSUME NEW p \in Runs, Invoke(p)
        PROVE  RunInv(r)'
    BY <2>1, InvokeInv
  <2>2. ASSUME NEW p \in Runs, RunStep(p)
        PROVE  RunInv(r)'
    BY <2>2, LocalInv, SendInv DEF RunStep
  <2>3. ASSUME NEW p \in Runs, ServerStep(p)
        PROVE  RunInv(r)'
    BY <2>3, ServerInv
  <2>4. ASSUME Others PROVE RunInv(r)'  BY <2>4, OtherInv
  <2>5. ASSUME UNCHANGED vars PROVE RunInv(r)'
    BY <2>5, RunInvFrame DEF IInv, vars, runVars, wireVars, ghostVars
  <2> QED  BY <2>1, <2>2, <2>3, <2>4, <2>5 DEF Next
<1> QED  BY <1>1, <1>2 DEF IInv

LEMMA InvHolds == Spec => []IInv
BY InitInv, NextInv, PTL DEF Spec

-----------------------------------------------------------------------------
(* The theorems.                                                           *)

(* The gate protects the cluster: no run sends any HTTP request unless     *)
(* allow_write = true stood in the secret store while it ran.              *)
THEOREM GateHolds == Spec => []NoCallUnlessGranted
<1>1. IInv => NoCallUnlessGranted
  BY DEF IInv, RunInv, GateSeen, NoCallUnlessGranted
<1> QED  BY <1>1, InvHolds, PTL

(* "ok" tells of one committed (or rehearsed) write, "refused" of no       *)
(* request at all, and no run ever commits twice.                          *)
THEOREM RepliesHold == Spec => []ReplyTellsEffect
<1>1. IInv => ReplyTellsEffect
  <2> SUFFICES ASSUME IInv, NEW p \in Runs
               PROVE  /\ applied[p] <= 1
                      /\ reply[p] = "ok" =>
                            applied[p] = IF input[p].dry THEN 0 ELSE 1
                      /\ reply[p] = "refused" => sent[p] = 0 /\ applied[p] = 0
    BY DEF ReplyTellsEffect
  <2>1. RunInv(p) /\ sent[p] \in Nat  BY DEF IInv, TypeOK, HistoryTypes
  <2> QED  BY <2>1 DEF RunInv, OneWrite, ReplyFollows
<1> QED  BY <1>1, InvHolds, PTL

(* A run that was asked for a dry run never has its request answered       *)
(* together with a change of the cluster.                                  *)
THEOREM DryRunHolds == Spec => DryRunLeavesCluster
<1>1. ASSUME IInv, [Next]_vars, NEW p \in Runs, wire[p] = "sent",
             wire'[p] # "sent", input[p].dry
      PROVE  UNCHANGED clusterVars
  <2>1. RunInv(p) /\ TypeOK  BY <1>1 DEF IInv
  <2>2. "dryRun" \in req[p].query  BY <1>1, <2>1 DEF RunInv, OneWrite
  <2>3. PICK q \in Runs : Invoke(q) \/ RunStep(q) \/ ServerStep(q)
    BY <1>1 DEF Next, Others, MoveGate, Edit, Reconcile, Annotate, Prune, vars,
                wireVars
  <2>4. CASE Invoke(q)  BY <1>1, <2>4 DEF Invoke, wireVars
  <2>5. CASE RunStep(q)
    BY <2>5
    DEF RunStep, ResolveInputs, ReadGate, ReadGateFallback, RejectArgument,
        SendDirect, SendGet, ReadFails, RestartReads, UndoReadsRevision,
        UndoReadsHistory, UndoFindsNothing, Receive, GiveUp
  <2>6. CASE ServerStep(q)
    <3>1. q = p
      BY <1>1, <2>1, <2>6, CommitIsOneOf
      DEF ServerStep, Commits, Rehearse, Reject, Reply, TypeOK, RunTypes
    <3> QED  BY <2>2, <2>6, <3>1, CommitIsOneOf
             DEF ServerStep, Commits, Rehearse, Reject
  <2> QED  BY <2>3, <2>4, <2>5, <2>6
<1>2. IInv /\ [Next]_vars =>
        [\A p \in Runs : wire[p] = "sent" /\ wire'[p] # "sent" /\ input[p].dry
           => UNCHANGED clusterVars]_vars
  BY <1>1
<1> QED  BY <1>2, InvHolds, PTL DEF Spec, DryRunLeavesCluster

-----------------------------------------------------------------------------
(* The runs implement OneShotWrite.                                        *)

LEMMA RefinesInit == Init => OneShot!AbsInit
<1> SUFFICES ASSUME Init PROVE OneShot!AbsInit  OBVIOUS
<1>1. TypeOK  BY InitTypes
<1>2. ASSUME NEW p \in Runs PROVE input[p].dry \in BOOLEAN
  BY <1>1, InputFields DEF TypeOK, RunTypes
<1>3. [p \in Runs |-> input[p].dry] \in [Runs -> BOOLEAN]  BY <1>2
<1>4. [p \in Runs |-> IF pc[p] = "idle" THEN "idle"
                     ELSE IF pc[p] = "done" THEN "answered" ELSE "running"]
        = [r \in Runs |-> "idle"]
  BY DEF Init
<1>5. {p \in Runs : applied[p] > 0} = {}
  <2>1. applied = [p \in Runs |-> 0]  BY DEF Init
  <2> QED  BY <2>1
<1>6. granted = [r \in Runs |-> FALSE] /\ reply = [r \in Runs |-> "none"]
  BY DEF Init
<1>7. (allowWrite = "true") \in BOOLEAN  OBVIOUS
<1> QED  BY <1>3, <1>4, <1>5, <1>6, <1>7 DEF OneShot!AbsInit

(* A step that touches none of gate, pc, input, granted, applied and reply *)
(* is invisible to the abstract specification, and so is one that moves a  *)
(* run from one place under way to another.                                *)
LEMMA InvisibleSteps ==
  ASSUME TypeOK, TypeOK', UNCHANGED <<allowWrite, input, granted, applied, reply>>,
         \A r \in Runs : \/ pc'[r] = pc[r]
                         \/ {pc[r], pc'[r]} \cap {"idle", "done"} = {}
  PROVE  UNCHANGED OneShot!absVars
BY DEF OneShot!absVars

LEMMA RefinesBegin ==
  ASSUME TypeOK, NEW p \in Runs, Invoke(p)
  PROVE  OneShot!Begin(p)
<1>1. input[p].dry \in BOOLEAN  BY InputFields DEF TypeOK, RunTypes
<1>2. UNCHANGED <<allowWrite, input, applied, reply>>  BY DEF Invoke
<1> QED
  BY <1>1, <1>2 DEF Invoke, TypeOK, RunTypes, HistoryTypes, OneShot!Begin

LEMMA RefinesAnswer ==
  ASSUME IInv, IInv', NEW p \in Runs, NEW v \in Replies \ {"none"},
         pc[p] \notin {"idle", "done"}, Answer(p, v),
         UNCHANGED <<allowWrite, input, granted, applied>>
  PROVE  OneShot!Answer(p, v)
<1>1. pc'[p] = "done" /\ reply'[p] = v
  BY DEF Answer, IInv, TypeOK, RunTypes
<1>2. RunInv(p)' /\ applied'[p] \in Nat /\ sent'[p] \in Nat
  BY DEF IInv, TypeOK, HistoryTypes
<1>3. v = "ok" => granted[p] /\ (applied[p] > 0 <=> ~input[p].dry)
  <2> SUFFICES ASSUME v = "ok"
               PROVE  granted[p] /\ (applied[p] > 0 <=> ~input[p].dry)
    OBVIOUS
  <2>1. wire'[p] = "2xx"  BY <1>1, <1>2 DEF RunInv, ReplyFollows
  <2>2. sent'[p] > 0 /\ applied'[p] = IF input'[p].dry THEN 0 ELSE 1
    BY <1>2, <2>1 DEF RunInv, OneWrite
  <2> QED  BY <1>2, <2>2 DEF RunInv, GateSeen
<1>4. v = "refused" => ~(applied[p] > 0)
  BY <1>1, <1>2 DEF RunInv, OneWrite, ReplyFollows
<1>5. input[p].dry \in BOOLEAN  BY InputFields DEF IInv, TypeOK, RunTypes
<1> QED
  BY <1>3, <1>4, <1>5
  DEF Answer, IInv, TypeOK, RunTypes, HistoryTypes, OneShot!Answer

LEMMA RefinesEffect ==
  ASSUME IInv, NEW p \in Runs, Commits(p)
  PROVE  OneShot!Effect(p)
<1>1. RunInv(p) /\ applied \in [Runs -> Nat]
  BY DEF IInv, TypeOK, HistoryTypes
<1>2. wire[p] = "sent" /\ "dryRun" \notin req[p].query  BY DEF Commits
<1>3. ~input[p].dry /\ applied[p] = 0 /\ granted[p]
  BY <1>1, <1>2 DEF RunInv, OneWrite, GateSeen
<1>4. reply[p] \in {"none", "error"} /\ pc[p] # "idle"
  BY <1>1, <1>2 DEF RunInv, OneWrite, ReplyFollows, IInv, TypeOK, RunTypes,
                    HistoryTypes, Replies
<1>5. applied' = [applied EXCEPT ![p] = 1]
  BY <1>1, <1>3 DEF Commits
<1>6. UNCHANGED <<allowWrite, pc, input, granted, reply>>
  BY DEF Commits, runVars
<1>7. {r \in Runs : applied[r] > 0}' = {r \in Runs : applied[r] > 0} \union {p}
  BY <1>1, <1>5
<1> QED
  BY <1>3, <1>4, <1>6, <1>7 DEF OneShot!Effect

LEMMA RefinesMoveGate ==
  ASSUME TypeOK, MoveGate
  PROVE  OneShot!MoveGate
BY DEF MoveGate, runVars, TypeOK, RunTypes, HistoryTypes, OneShot!MoveGate

(* A local step answers the flow, or moves the run along unseen.           *)
LEMMA RefinesLocal ==
  ASSUME IInv, IInv', NEW p \in Runs,
         ResolveInputs(p) \/ ReadGate(p) \/ ReadGateFallback(p)
           \/ RejectArgument(p) \/ ReadFails(p) \/ UndoFindsNothing(p)
           \/ Receive(p) \/ GiveUp(p)
  PROVE  [OneShot!AbsNext]_(OneShot!absVars)
<1>1. UNCHANGED <<allowWrite, input, granted, applied>>
  BY DEF ResolveInputs, ReadGate, ReadGateFallback, RejectArgument, ReadFails,
         UndoFindsNothing, Receive, GiveUp, ghostVars
<1>2. pc[p] \notin {"idle", "done"}
  BY DEF ResolveInputs, ReadGate, ReadGateFallback, RejectArgument, ReadFails,
         UndoFindsNothing, Receive, GiveUp
<1>3. \/ \E v \in Replies \ {"none"} : Answer(p, v)
      \/ \E c \in PCs \ {"idle", "done"} : StepTo(p, c)
  BY DEF ResolveInputs, ReadGate, ReadGateFallback, GateValueRead,
         RejectArgument, ReadFails, UndoFindsNothing, Receive, GiveUp, PCs,
         Replies
<1>4. ASSUME NEW v \in Replies \ {"none"}, Answer(p, v)
      PROVE  OneShot!AbsNext
  <2>1. OneShot!Answer(p, v)  BY <1>1, <1>2, <1>4, RefinesAnswer
  <2>2. v \in OneShot!Verdicts \ {"none"}
    BY <1>4 DEF Replies, OneShot!Verdicts
  <2> QED  BY <2>1, <2>2 DEF OneShot!AbsNext
<1>5. ASSUME NEW c \in PCs \ {"idle", "done"}, StepTo(p, c)
      PROVE  UNCHANGED OneShot!absVars
  <2>1. \A r \in Runs : \/ pc'[r] = pc[r]
                        \/ {pc[r], pc'[r]} \cap {"idle", "done"} = {}
    BY <1>2, <1>5 DEF StepTo, IInv, TypeOK, RunTypes
  <2>2. UNCHANGED reply  BY <1>5 DEF StepTo
  <2> QED  BY <1>1, <2>1, <2>2, InvisibleSteps DEF IInv
<1> QED  BY <1>3, <1>4, <1>5

(* Sending a request is not an effect yet.                                 *)
LEMMA RefinesSend ==
  ASSUME IInv, IInv', NEW p \in Runs,
         SendDirect(p) \/ SendGet(p) \/ RestartReads(p)
           \/ UndoReadsRevision(p) \/ UndoReadsHistory(p)
  PROVE  UNCHANGED OneShot!absVars
<1>1. /\ UNCHANGED <<allowWrite, input, granted, applied, reply>>
      /\ pc[p] \in {"open", "fetching", "listing"}
      /\ \E c \in {"fetching", "listing", "writing"} :
           pc' = [pc EXCEPT ![p] = c]
  BY DEF SendDirect, SendGet, RestartReads, UndoReadsRevision,
         UndoReadsHistory, SendWrite, StepTo
<1>2. \A r \in Runs : \/ pc'[r] = pc[r]
                      \/ {pc[r], pc'[r]} \cap {"idle", "done"} = {}
  BY <1>1 DEF IInv, TypeOK, RunTypes
<1> QED  BY <1>1, <1>2, InvisibleSteps DEF IInv

(* Committing is the effect; a rehearsal and a rejection are none.         *)
LEMMA RefinesServer ==
  ASSUME IInv, IInv', NEW p \in Runs, ServerStep(p)
  PROVE  [OneShot!AbsNext]_(OneShot!absVars)
<1>1. CASE Commit(p)
  BY <1>1, CommitIsOneOf, RefinesEffect DEF OneShot!AbsNext
<1>2. CASE Rehearse(p) \/ Reject(p)
  <2>1. UNCHANGED <<allowWrite, pc, input, granted, applied, reply>>
    BY <1>2 DEF Rehearse, Reject, runVars, ghostVars
  <2> QED  BY <2>1, InvisibleSteps DEF IInv
<1> QED  BY <1>1, <1>2 DEF ServerStep

LEMMA RefinesOthers ==
  ASSUME IInv, IInv', Others
  PROVE  [OneShot!AbsNext]_(OneShot!absVars)
<1>1. CASE MoveGate
  BY <1>1, RefinesMoveGate DEF IInv, OneShot!AbsNext
<1>2. ASSUME UNCHANGED <<allowWrite, pc, input, granted, applied, reply>>
      PROVE  UNCHANGED OneShot!absVars
  BY <1>2, InvisibleSteps DEF IInv
<1>3. \/ MoveGate
      \/ UNCHANGED <<allowWrite, pc, input, granted, applied, reply>>
  BY DEF Others, Edit, Reconcile, Annotate, Prune, runVars, ghostVars
<1> QED  BY <1>1, <1>2, <1>3

LEMMA RefinesNext ==
  IInv /\ IInv' /\ [Next]_vars => [OneShot!AbsNext]_(OneShot!absVars)
<1> SUFFICES ASSUME IInv, IInv', [Next]_vars
             PROVE  [OneShot!AbsNext]_(OneShot!absVars)
  OBVIOUS
<1>1. ASSUME NEW p \in Runs, Invoke(p)
      PROVE  OneShot!AbsNext
  BY <1>1, RefinesBegin DEF IInv, OneShot!AbsNext
<1>2. ASSUME NEW p \in Runs, RunStep(p)
      PROVE  [OneShot!AbsNext]_(OneShot!absVars)
  BY <1>2, RefinesLocal, RefinesSend DEF RunStep
<1>3. ASSUME NEW p \in Runs, ServerStep(p)
      PROVE  [OneShot!AbsNext]_(OneShot!absVars)
  BY <1>3, RefinesServer
<1>4. ASSUME Others
      PROVE  [OneShot!AbsNext]_(OneShot!absVars)
  BY <1>4, RefinesOthers
<1>5. ASSUME UNCHANGED vars
      PROVE  UNCHANGED OneShot!absVars
  BY <1>5, InvisibleSteps DEF IInv, vars, runVars, ghostVars
<1> QED  BY <1>1, <1>2, <1>3, <1>4, <1>5 DEF Next

(* The runs implement the one-shot write: whatever the requests a node     *)
(* takes to get there, its flow sees at most one effect, inside the gate,  *)
(* none when rehearsed, and none after an "ok" or a "refused".             *)
THEOREM ImplementsOneShot == Spec => KeepsOneShotPromise
<1>1. Init => OneShot!AbsInit  BY RefinesInit
<1>2. IInv /\ IInv' /\ [Next]_vars => [OneShot!AbsNext]_(OneShot!absVars)
  BY RefinesNext
<1> QED
  BY <1>1, <1>2, InvHolds, PTL DEF Spec, KeepsOneShotPromise, OneShot!AbsSpec

-----------------------------------------------------------------------------
(* An uncontended restart rolls the pods.                                  *)

(* The next nonce always differs, also where the increment wraps.          *)
LEMMA NonceChanges ==
  ASSUME NEW n \in Nonces
  PROVE  NextNonce(n) # n
<1>1. NonceMod \in Nat /\ NonceMod > 1  BY ConstantsAssumption
<1>2. CASE n = Absent  BY <1>2 DEF NextNonce, Absent
<1>3. CASE n \in 0 .. NonceMod - 2
  <2>1. (n + 1) % NonceMod = n + 1  BY <1>1, <1>3
  <2> QED  BY <1>1, <1>3, <2>1 DEF NextNonce, Absent
<1>4. CASE n = NonceMod - 1
  <2>1. (n + 1) % NonceMod = 0  BY <1>1, <1>4
  <2> QED  BY <1>1, <1>4, <2>1 DEF NextNonce, Absent
<1> QED  BY <1>1, <1>2, <1>3, <1>4 DEF Nonces

(* So the PATCH of a restart changes the template its nonce was read from. *)
LEMMA RestartPatchRolls ==
  ASSUME NEW t \in Template
  PROVE  ApplyPatch("strategic", t, RestartPatch(t.nonce)) # t
<1>1. t.nonce \in Nonces  BY DEF Template
<1>2. NextNonce(t.nonce) # t.nonce /\ NextNonce(t.nonce) # Absent
  BY <1>1, NonceChanges, NonceStaysInRange
<1>3. ApplyPatch("strategic", t, RestartPatch(t.nonce)).nonce = NextNonce(t.nonce)
  BY <1>2 DEF ApplyPatch, StrategicMerge, RestartPatch
<1> QED  BY <1>2, <1>3

(* A restart never lists the history.  While the template has not moved    *)
(* on, a restart on the wire carries the successor of the nonce the        *)
(* template has; the cluster commits it to a different template.           *)
RestartInv(p) ==
  input[p].op = "restart" =>
    /\ pc[p] # "listing"
    /\ ~contended[p] /\ wire[p] = "sent" =>
         /\ req[p].ctype = "strategic"
         /\ req[p].patch = RestartPatch(template[input[p].target].nonce)
    /\ ~contended[p] /\ applied[p] > 0 => landed[p] # found[p]

RInv == IInv /\ \A p \in Runs : RestartInv(p)

LEMMA InitRestart == Init => RInv
BY InitInv DEF Init, RInv, RestartInv

LEMMA RestartFrame ==
  ASSUME NEW r \in Runs, RestartInv(r), UNCHANGED <<input, template>>,
         pc'[r] = "listing" => pc[r] = "listing",
         wire'[r] # "sent" \/ wire'[r] = wire[r],
         req'[r] = req[r], contended'[r] = contended[r],
         applied'[r] = applied[r], landed'[r] = landed[r], found'[r] = found[r]
  PROVE  RestartInv(r)'
BY DEF RestartInv

(* Only RestartReads and CommitTemplate bear on it: the run's own read,    *)
(* its own commit, and the commits of others, which contend with it.       *)
LEMMA RestartReadsInv ==
  ASSUME IInv, IInv', NEW p \in Runs, NEW r \in Runs, RestartReads(p),
         RestartInv(r)
  PROVE  RestartInv(r)'
<1>1. /\ UNCHANGED <<input, template, applied, landed, found>>
      /\ req' = [req EXCEPT ![p] = [query |-> Query(input[p]),
            ctype |-> ContentType(input[p]),
            patch |-> RestartPatch(template[input[p].target].nonce)]]
      /\ wire' = [wire EXCEPT ![p] = "sent"]
      /\ contended' = [contended EXCEPT ![p] = FALSE]
      /\ pc' = [pc EXCEPT ![p] = "writing"]
      /\ input[p].op = "restart"
  BY DEF RestartReads, SendWrite, StepTo, clusterVars
<1>2. TypeOK  BY DEF IInv
<1>3. CASE r # p
  <2>1. /\ wire'[r] = wire[r] /\ req'[r] = req[r]
        /\ contended'[r] = contended[r] /\ pc'[r] = pc[r]
    BY <1>1, <1>2, <1>3 DEF TypeOK, RunTypes, HistoryTypes
  <2> QED  BY <1>1, <2>1, RestartFrame
<1>4. CASE r = p
  <2>1. /\ req'[p].ctype = ContentType(input[p])
        /\ req'[p].patch = RestartPatch(template[input[p].target].nonce)
    BY <1>1, <1>2 DEF TypeOK, RunTypes
  <2>2. ContentType(input[p]) = "strategic"  BY <1>1 DEF ContentType
  <2>3. applied'[p] = 0
    <3>1. wire'[p] = "sent"  BY <1>1, <1>2 DEF TypeOK, RunTypes
    <3> QED  BY <3>1 DEF IInv, RunInv, OneWrite
  <2>4. pc'[p] = "writing"  BY <1>1, <1>2 DEF TypeOK, RunTypes
  <2> QED  BY <1>1, <1>4, <2>1, <2>2, <2>3, <2>4 DEF RestartInv
<1> QED  BY <1>3, <1>4

LEMMA CommitTemplateInv ==
  ASSUME IInv, NEW p \in Runs, NEW r \in Runs, CommitTemplate(p),
         RestartInv(r)
  PROVE  RestartInv(r)'
<1> DEFINE w == input[p].target
           t == ApplyPatch(req[p].ctype, template[w], req[p].patch)
<1>1. TypeOK  BY DEF IInv
<1>2. /\ UNCHANGED <<pc, input, req>>
      /\ template' = [template EXCEPT ![w] = t]
      /\ found' = [found EXCEPT ![p] = template[w]]
      /\ landed' = [landed EXCEPT ![p] = t]
      /\ applied' = [applied EXCEPT ![p] = @ + 1]
      /\ wire[p] = "sent" /\ Reply(p) /\ Overtake(w, {p})
  BY DEF CommitTemplate, Commits, runVars
<1>3. CASE r # p
  <2>1. /\ wire'[r] = wire[r] /\ found'[r] = found[r]
        /\ landed'[r] = landed[r] /\ applied'[r] = applied[r]
    BY <1>1, <1>2, <1>3 DEF Reply, TypeOK, RunTypes, HistoryTypes
  <2>2. contended'[r] <=> contended[r] \/ (input[r].target = w
                            /\ (pc[r] = "listing" \/ wire[r] = "sent"))
    BY <1>2, <1>3 DEF Overtake
  <2>3. input[r].target # w => template'[input[r].target]
                                 = template[input[r].target]
    BY <1>1, <1>2 DEF TypeOK, ClusterTypes
  <2> QED  BY <1>2, <2>1, <2>2, <2>3 DEF RestartInv
<1>4. CASE r = p
  <2>1. /\ wire'[p] # "sent" /\ found'[p] = template[w] /\ landed'[p] = t
    BY <1>1, <1>2 DEF Reply, TypeOK, RunTypes, HistoryTypes
  <2>2. contended'[p] <=> contended[p]  BY <1>2 DEF Overtake
  <2>3. input[p].op = "restart" /\ ~contended[p] => t # template[w]
    <3> SUFFICES ASSUME input[p].op = "restart", ~contended[p]
                 PROVE  t # template[w]
      OBVIOUS
    <3>1. t = ApplyPatch("strategic", template[w], RestartPatch(template[w].nonce))
      BY <1>2, <1>4 DEF RestartInv
    <3>2. input[p] \in Inputs  BY <1>1 DEF TypeOK, RunTypes
    <3>3. w \in Workloads  BY <3>2, TargetKinds DEF WorkloadOps
    <3>4. template[w] \in Template  BY <1>1, <3>3 DEF TypeOK, ClusterTypes
    <3> QED  BY <3>1, <3>4, RestartPatchRolls
  <2> QED  BY <1>2, <1>4, <2>1, <2>2, <2>3 DEF RestartInv
<1> QED  BY <1>3, <1>4

LEMMA NextRestart == RInv /\ [Next]_vars => RInv'
<1> SUFFICES ASSUME RInv, [Next]_vars PROVE RInv'  OBVIOUS
<1>1. IInv /\ IInv' /\ TypeOK /\ TypeOK'  BY NextInv DEF RInv, IInv
<1>2. ASSUME NEW r \in Runs PROVE RestartInv(r)'
  <2>1. RestartInv(r)  BY <1>2 DEF RInv
  <2>2. ASSUME NEW p \in Runs, Invoke(p)
        PROVE  RestartInv(r)'
    <3>1. pc'[r] = pc[r] \/ pc'[r] = "resolving"
      BY <1>1, <2>2 DEF Invoke, TypeOK, RunTypes
    <3> QED
      BY <2>1, <2>2, <3>1, RestartFrame DEF Invoke, clusterVars, wireVars
  <2>3. ASSUME NEW p \in Runs,
               ResolveInputs(p) \/ ReadGate(p) \/ ReadGateFallback(p)
                 \/ RejectArgument(p) \/ ReadFails(p) \/ UndoFindsNothing(p)
                 \/ Receive(p) \/ GiveUp(p)
        PROVE  RestartInv(r)'
    <3>1. UNCHANGED <<clusterVars, input, wireVars, ghostVars>>
      BY <2>3
      DEF ResolveInputs, ReadGate, ReadGateFallback, RejectArgument,
          ReadFails, UndoFindsNothing, Receive, GiveUp
    <3>2. \E c \in PCs \ {"listing"} : pc' = [pc EXCEPT ![p] = c]
      BY <2>3
      DEF ResolveInputs, ReadGate, ReadGateFallback, GateValueRead,
          RejectArgument, ReadFails, UndoFindsNothing, Receive, GiveUp,
          Answer, StepTo, PCs
    <3>3. pc'[r] = pc[r] \/ pc'[r] # "listing"
      BY <1>1, <3>2 DEF TypeOK, RunTypes
    <3> QED
      BY <2>1, <3>1, <3>3, RestartFrame DEF clusterVars, wireVars, ghostVars
  <2>4. ASSUME NEW p \in Runs, SendGet(p)
        PROVE  RestartInv(r)'
    <3>1. pc'[r] = pc[r] \/ pc'[r] = "fetching"
      BY <1>1, <2>4 DEF SendGet, StepTo, TypeOK, RunTypes
    <3> QED
      BY <2>1, <2>4, <3>1, RestartFrame DEF SendGet, clusterVars, wireVars
  <2>5. ASSUME NEW p \in Runs,
               SendDirect(p) \/ UndoReadsRevision(p) \/ UndoReadsHistory(p)
        PROVE  RestartInv(r)'
    <3>1. input[p].op # "restart"
      <4>1. RestartInv(p)  BY DEF RInv
      <4> QED  BY <2>5, <4>1
               DEF SendDirect, UndoReadsRevision, UndoReadsHistory, RestartInv
    <3>2. UNCHANGED <<input, template, applied, landed, found>>
      BY <2>5 DEF SendDirect, UndoReadsRevision, UndoReadsHistory, clusterVars
    <3>3. CASE r = p  BY <3>1, <3>2, <3>3 DEF RestartInv
    <3>4. CASE r # p
      <4>1. /\ pc'[r] = pc[r] /\ wire'[r] = wire[r] /\ req'[r] = req[r]
            /\ contended'[r] = contended[r]
        BY <1>1, <2>5, <3>4
        DEF SendDirect, UndoReadsRevision, UndoReadsHistory, SendWrite, StepTo,
            wireVars, TypeOK, RunTypes, HistoryTypes
      <4> QED  BY <2>1, <3>2, <4>1, RestartFrame
    <3> QED  BY <3>3, <3>4
  <2>6. ASSUME NEW p \in Runs, RestartReads(p)
        PROVE  RestartInv(r)'
    BY <1>1, <2>1, <2>6, RestartReadsInv
  <2>7. ASSUME NEW p \in Runs, CommitTemplate(p)
        PROVE  RestartInv(r)'
    BY <1>1, <2>1, <2>7, CommitTemplateInv
  <2>8. ASSUME NEW p \in Runs,
               CommitScale(p) \/ CommitSchedulable(p) \/ CommitDelete(p)
        PROVE  RestartInv(r)'
    <3>1. /\ UNCHANGED <<pc, input, template, req, contended, found, landed>>
          /\ input[p].op # "restart" /\ Reply(p)
          /\ applied' = [applied EXCEPT ![p] = @ + 1]
      BY <2>8 DEF CommitScale, CommitSchedulable, CommitDelete, Commits,
                  runVars, NodeOps
    <3>2. CASE r = p  BY <3>1, <3>2 DEF RestartInv
    <3>3. CASE r # p
      <4>1. wire'[r] = wire[r] /\ applied'[r] = applied[r]
        BY <1>1, <3>1, <3>3 DEF Reply, TypeOK, RunTypes, HistoryTypes
      <4> QED  BY <2>1, <3>1, <4>1, RestartFrame
    <3> QED  BY <3>2, <3>3
  <2>9. ASSUME NEW p \in Runs, Rehearse(p) \/ Reject(p)
        PROVE  RestartInv(r)'
    <3>1. UNCHANGED <<clusterVars, runVars, req, ghostVars>>
      BY <2>9 DEF Rehearse, Reject
    <3>2. wire'[r] = wire[r] \/ wire'[r] # "sent"
      BY <1>1, <2>9 DEF Rehearse, Reject, Reply, TypeOK, RunTypes
    <3> QED
      BY <2>1, <3>1, <3>2, RestartFrame DEF clusterVars, runVars, ghostVars
  <2>10. ASSUME NEW w \in Workloads, Edit(w)
         PROVE  RestartInv(r)'
    <3>1. /\ UNCHANGED <<pc, input, wire, req, applied, found, landed>>
          /\ \E img : template' = [template EXCEPT ![w].image = img]
      BY <2>10 DEF Edit, runVars, wireVars
    <3>2. contended'[r] <=> contended[r] \/ (input[r].target = w
                             /\ (pc[r] = "listing" \/ wire[r] = "sent"))
      BY <2>10 DEF Edit, Overtake
    <3>3. input[r].target # w => template'[input[r].target]
                                   = template[input[r].target]
      BY <1>1, <3>1 DEF TypeOK, ClusterTypes
    <3> QED  BY <2>1, <3>1, <3>2, <3>3 DEF RestartInv
  <2>11. ASSUME MoveGate \/ (\E w \in Workloads : Reconcile(w) \/ Annotate(w))
                  \/ \E rs \in replicaSets : Prune(rs)
         PROVE  RestartInv(r)'
    <3>1. UNCHANGED <<pc, input, template, wire, req, contended, applied, found,
                      landed>>
      BY <2>11 DEF MoveGate, Reconcile, Annotate, Prune, clusterVars, runVars,
                   wireVars, ghostVars
    <3> QED  BY <2>1, <3>1, RestartFrame
  <2>12. ASSUME UNCHANGED vars PROVE RestartInv(r)'
    BY <2>1, <2>12, RestartFrame
    DEF vars, clusterVars, runVars, wireVars, ghostVars
  <2> QED
    BY <2>2, <2>3, <2>4, <2>5, <2>6, <2>7, <2>8, <2>9, <2>10, <2>11, <2>12
    DEF Next, RunStep, ServerStep, Commit, Others
<1> QED  BY <1>1, <1>2 DEF RInv

(* Unless the template changed between its GET and its PATCH, a committed  *)
(* restart changed the pod template, at the limit of u64 too.              *)
THEOREM UncontendedRestart == Spec => []UncontendedRestartRolls
<1>1. RInv => UncontendedRestartRolls
  BY DEF RInv, RestartInv, UncontendedRestartRolls
<1> QED  BY <1>1, InitRestart, NextRestart, PTL DEF Spec

-----------------------------------------------------------------------------
(* A rollback restores the predecessor.                                    *)

(* The revision is read, the history is read and the PATCH is committed at *)
(* three moments, and the history may be pruned and renumbered in between. *)
(* What stays true: the template on the wire is one this Deployment had    *)
(* under the revision before the one read, and the image that lands is the *)
(* one on the wire.                                                        *)
UndoInv(p) ==
  input[p].op = "undo" =>
    /\ wire[p] # "none" =>
         /\ req[p].ctype = "strategic"
         /\ [owner |-> input[p].target, revision |-> seen[p] - 1,
             template |-> req[p].patch] \in deployed
    /\ applied[p] > 0 => landed[p].image = req[p].patch.image

(* What the history shows has been deployed.                               *)
UInv == /\ IInv
        /\ replicaSets \subseteq deployed
        /\ \A p \in Runs : UndoInv(p)

LEMMA InitUndo == Init => UInv
BY InitInv DEF Init, UInv, UndoInv

(* The image of a template that a strategic merge patch names is the       *)
(* patch's.                                                                *)
LEMMA StrategicImageLands ==
  ASSUME NEW t \in Template, NEW q \in Template
  PROVE  ApplyPatch("strategic", t, q).image = q.image
<1>1. q.image # Unset  BY ConstantsAssumption DEF Template
<1> QED  BY <1>1 DEF ApplyPatch, StrategicMerge

LEMMA UndoFrame ==
  ASSUME NEW r \in Runs, UndoInv(r), UNCHANGED input,
         deployed \subseteq deployed',
         wire'[r] # "none" => wire[r] # "none",
         req'[r] = req[r], seen'[r] = seen[r],
         applied'[r] = applied[r], landed'[r] = landed[r]
  PROVE  UndoInv(r)'
BY DEF UndoInv

(* The reads come before anything is on the wire.                          *)
LEMMA UndoReadsInv ==
  ASSUME IInv, NEW p \in Runs, NEW r \in Runs,
         UndoReadsRevision(p) \/ RestartReads(p) \/ SendDirect(p),
         UndoInv(r)
  PROVE  UndoInv(r)'
<1>1. TypeOK  BY DEF IInv
<1>2. UNCHANGED <<input, applied, landed, deployed>>
  BY DEF UndoReadsRevision, RestartReads, SendDirect
<1>3. CASE r # p
  <2>1. /\ wire'[r] = wire[r] /\ req'[r] = req[r] /\ seen'[r] = seen[r]
    BY <1>1, <1>3 DEF UndoReadsRevision, RestartReads, SendDirect, SendWrite,
                      wireVars, TypeOK, RunTypes
  <2> QED  BY <1>2, <2>1, UndoFrame
<1>4. CASE r = p /\ UndoReadsRevision(p)
  <2>1. wire[p] = "none" /\ applied[p] = 0
    BY <1>4 DEF IInv, RunInv, OneWrite, UndoReadsRevision
  <2>2. wire'[p] = "none"  BY <1>4, <2>1 DEF UndoReadsRevision, wireVars
  <2> QED  BY <1>2, <1>4, <2>1, <2>2 DEF UndoInv
<1>5. CASE r = p /\ (RestartReads(p) \/ SendDirect(p))
  BY <1>2, <1>5 DEF UndoInv, RestartReads, SendDirect
<1> QED  BY <1>3, <1>4, <1>5

(* The template that goes on the wire is the one of a candidate.           *)
LEMMA UndoSendsInv ==
  ASSUME UInv, NEW p \in Runs, NEW r \in Runs, UndoReadsHistory(p)
  PROVE  UndoInv(r)'
<1>1. IInv /\ TypeOK /\ UndoInv(r)  BY DEF UInv, IInv
<1>2. PICK rs \in UndoCandidates(input[p].target, seen[p]) :
        SendWrite(p, rs.template)
  BY DEF UndoReadsHistory
<1>3. /\ pc[p] = "listing"
      /\ UNCHANGED <<input, seen, applied, landed, deployed>>
  BY DEF UndoReadsHistory
<1>4. CASE r # p
  <2>1. wire'[r] = wire[r] /\ req'[r] = req[r]
    BY <1>1, <1>2, <1>4 DEF SendWrite, TypeOK, RunTypes
  <2> QED  BY <1>1, <1>3, <2>1, UndoFrame
<1>5. CASE r = p /\ input[p].op = "undo"
  <2>1. /\ req'[p].ctype = ContentType(input[p])
        /\ req'[p].patch = rs.template
    BY <1>1, <1>2 DEF SendWrite, TypeOK, RunTypes
  <2>2. ContentType(input[p]) = "strategic"  BY <1>5 DEF ContentType
  <2>3. rs \in deployed /\ rs \in ReplicaSet
    BY <1>1, <1>2 DEF UndoCandidates, UInv, TypeOK, HistoryTypes
  <2>4. rs = [owner |-> input[p].target, revision |-> seen[p] - 1,
              template |-> rs.template]
    BY <1>2, <2>3 DEF UndoCandidates, ReplicaSet
  <2>5. applied[p] = 0  BY <1>1, <1>3 DEF IInv, RunInv, OneWrite
  <2> QED  BY <1>3, <1>5, <2>1, <2>2, <2>3, <2>4, <2>5 DEF UndoInv
<1> QED  BY <1>3, <1>4, <1>5 DEF UndoInv

(* What lands has the image that was sent.                                 *)
LEMMA UndoLandsInv ==
  ASSUME IInv, NEW p \in Runs, NEW r \in Runs, CommitTemplate(p),
         UndoInv(r)
  PROVE  UndoInv(r)'
<1> DEFINE w == input[p].target
           t == ApplyPatch(req[p].ctype, template[w], req[p].patch)
<1>1. TypeOK  BY DEF IInv
<1>2. /\ UNCHANGED <<input, seen, req, deployed>>
      /\ landed' = [landed EXCEPT ![p] = t]
      /\ applied' = [applied EXCEPT ![p] = @ + 1]
      /\ wire[p] = "sent" /\ Reply(p)
  BY DEF CommitTemplate, Commits, runVars
<1>3. CASE r # p
  <2>1. /\ wire'[r] = wire[r] /\ landed'[r] = landed[r]
        /\ applied'[r] = applied[r]
    BY <1>1, <1>2, <1>3 DEF Reply, TypeOK, RunTypes, HistoryTypes
  <2> QED  BY <1>2, <2>1, UndoFrame
<1>4. CASE r = p /\ input[p].op = "undo"
  <2>1. landed'[p] = t  BY <1>1, <1>2 DEF TypeOK, HistoryTypes
  <2>2. /\ req[p].ctype = "strategic"
        /\ [owner |-> w, revision |-> seen[p] - 1,
            template |-> req[p].patch] \in deployed
    BY <1>2, <1>4 DEF UndoInv
  <2>3. req[p].patch \in Template
    BY <1>1, <2>2 DEF TypeOK, HistoryTypes, ReplicaSet
  <2>4. template[w] \in Template
    BY <1>1, <1>4, TargetKinds DEF TypeOK, ClusterTypes, RunTypes, WorkloadOps
  <2>5. t.image = req[p].patch.image
    BY <2>2, <2>3, <2>4, StrategicImageLands
  <2> QED  BY <1>2, <1>4, <2>1, <2>2, <2>5 DEF UndoInv
<1> QED  BY <1>2, <1>3, <1>4 DEF UndoInv

(* The history loses what is pruned or renumbered; what has been deployed  *)
(* stays known.                                                            *)
LEMMA HistoryInv ==
  ASSUME replicaSets \subseteq deployed, [Next]_vars
  PROVE  replicaSets' \subseteq deployed' /\ deployed \subseteq deployed'
<1>1. ASSUME NEW w \in Workloads, Reconcile(w)
      PROVE  replicaSets' \subseteq deployed' /\ deployed \subseteq deployed'
  BY <1>1 DEF Reconcile
<1>2. ASSUME NEW rs \in replicaSets, Prune(rs)
      PROVE  replicaSets' \subseteq deployed' /\ deployed \subseteq deployed'
  BY <1>2 DEF Prune, ghostVars
<1>3. ASSUME NEW p \in Runs, RunStep(p) \/ Invoke(p)
      PROVE  UNCHANGED <<replicaSets, deployed>>
  BY <1>3 DEF RunStep, Invoke, ResolveInputs, ReadGate, ReadGateFallback,
              RejectArgument, SendDirect, SendGet, ReadFails, RestartReads,
              UndoReadsRevision, UndoReadsHistory, UndoFindsNothing, Receive,
              GiveUp, clusterVars, ghostVars
<1>4. ASSUME NEW p \in Runs, ServerStep(p)
      PROVE  UNCHANGED <<replicaSets, deployed>>
  BY <1>4 DEF ServerStep, Commit, CommitTemplate, CommitScale,
              CommitSchedulable, CommitDelete, Commits, Rehearse, Reject,
              clusterVars, ghostVars
<1>5. ASSUME MoveGate \/ \E w \in Workloads : Edit(w) \/ Annotate(w)
      PROVE  UNCHANGED <<replicaSets, deployed>>
  BY <1>5 DEF MoveGate, Edit, Annotate, clusterVars, ghostVars
<1>6. ASSUME UNCHANGED vars PROVE UNCHANGED <<replicaSets, deployed>>
  BY <1>6 DEF vars, clusterVars, ghostVars
<1> QED  BY <1>1, <1>2, <1>3, <1>4, <1>5, <1>6 DEF Next, Others

LEMMA NextUndo == UInv /\ [Next]_vars => UInv'
<1> SUFFICES ASSUME UInv, [Next]_vars PROVE UInv'  OBVIOUS
<1>1. IInv /\ IInv' /\ TypeOK  BY NextInv DEF UInv, IInv
<1>2. replicaSets' \subseteq deployed' /\ deployed \subseteq deployed'
  BY HistoryInv DEF UInv
<1>3. ASSUME NEW r \in Runs PROVE UndoInv(r)'
  <2>1. UndoInv(r)  BY <1>3 DEF UInv
  <2>2. ASSUME NEW p \in Runs,
               Invoke(p) \/ ResolveInputs(p) \/ ReadGate(p)
                 \/ ReadGateFallback(p) \/ RejectArgument(p) \/ SendGet(p)
                 \/ ReadFails(p) \/ UndoFindsNothing(p) \/ Receive(p)
                 \/ GiveUp(p)
        PROVE  UndoInv(r)'
    <3>1. UNCHANGED <<input, seen, wire, req, applied, landed>>
      BY <2>2
      DEF Invoke, ResolveInputs, ReadGate, ReadGateFallback, RejectArgument,
          SendGet, ReadFails, UndoFindsNothing, Receive, GiveUp, wireVars,
          ghostVars
    <3> QED  BY <1>2, <2>1, <3>1, UndoFrame
  <2>3. ASSUME NEW p \in Runs,
               UndoReadsRevision(p) \/ RestartReads(p) \/ SendDirect(p)
        PROVE  UndoInv(r)'
    BY <1>1, <2>1, <2>3, UndoReadsInv
  <2>4. ASSUME NEW p \in Runs, UndoReadsHistory(p)
        PROVE  UndoInv(r)'
    BY <2>4, UndoSendsInv
  <2>5. ASSUME NEW p \in Runs, CommitTemplate(p)
        PROVE  UndoInv(r)'
    BY <1>1, <2>1, <2>5, UndoLandsInv
  <2>6. ASSUME NEW p \in Runs,
               CommitScale(p) \/ CommitSchedulable(p) \/ CommitDelete(p)
        PROVE  UndoInv(r)'
    <3>1. /\ UNCHANGED <<input, seen, req, landed, deployed>>
          /\ input[p].op # "undo" /\ Reply(p)
          /\ applied' = [applied EXCEPT ![p] = @ + 1]
      BY <2>6 DEF CommitScale, CommitSchedulable, CommitDelete, Commits,
                  runVars, NodeOps
    <3>2. CASE r = p  BY <3>1, <3>2 DEF UndoInv
    <3>3. CASE r # p
      <4>1. wire'[r] = wire[r] /\ applied'[r] = applied[r]
        BY <1>1, <3>1, <3>3 DEF Reply, TypeOK, RunTypes, HistoryTypes
      <4> QED  BY <2>1, <3>1, <4>1, UndoFrame
    <3> QED  BY <3>2, <3>3
  <2>7. ASSUME NEW p \in Runs, Rehearse(p) \/ Reject(p)
        PROVE  UndoInv(r)'
    <3>1. UNCHANGED <<input, seen, req, applied, landed, deployed>>
      BY <2>7 DEF Rehearse, Reject, runVars, ghostVars
    <3>2. wire'[r] # "none" => wire[r] # "none"
      BY <1>1, <2>7 DEF Rehearse, Reject, Reply, TypeOK, RunTypes
    <3> QED  BY <2>1, <3>1, <3>2, UndoFrame
  <2>8. ASSUME Others \/ UNCHANGED vars
        PROVE  UndoInv(r)'
    <3>1. UNCHANGED <<input, seen, wire, req, applied, landed>>
      BY <2>8 DEF Others, MoveGate, Edit, Reconcile, Annotate, Prune, vars,
                  runVars, wireVars, ghostVars
    <3> QED  BY <1>2, <2>1, <3>1, UndoFrame
  <2> QED
    BY <2>2, <2>3, <2>4, <2>5, <2>6, <2>7, <2>8
    DEF Next, RunStep, ServerStep, Commit
<1> QED  BY <1>1, <1>2, <1>3 DEF UInv

(* The image a committed rollback leaves is the one this Deployment, and   *)
(* no other, had at the revision before the one the run read.              *)
THEOREM RollbackRestoresPredecessor == Spec => []UndoRestoresPredecessor
<1>1. UInv => UndoRestoresPredecessor
  <2> SUFFICES ASSUME UInv, NEW p \in Runs, input[p].op = "undo",
                      applied[p] > 0
               PROVE  \E d \in deployed : /\ d.owner = input[p].target
                                          /\ d.revision = seen[p] - 1
                                          /\ d.template.image = landed[p].image
    BY DEF UndoRestoresPredecessor
  <2>1. wire[p] # "none"  BY DEF UInv, IInv, RunInv, OneWrite
  <2>2. /\ [owner |-> input[p].target, revision |-> seen[p] - 1,
            template |-> req[p].patch] \in deployed
        /\ landed[p].image = req[p].patch.image
    BY <2>1 DEF UInv, UndoInv
  <2> QED  BY <2>2
<1> QED  BY <1>1, InitUndo, NextUndo, PTL DEF Spec
====
