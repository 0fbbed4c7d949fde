--------------------------- MODULE MCK8sRemediate ---------------------------
(***************************************************************************)
(* Instances of K8sRemediate for TLC: two runs meet in one cluster, each   *)
(* with any of a set of inputs chosen per question.                        *)
(***************************************************************************)
EXTENDS K8sRemediate, TLC

CONSTANTS r1, r2, w1, w2, pod1, node1, img1, img2

MCImages == {img1, img2}

(* Run of op on target with the given dry_run, everything else in order.   *)
Plain(o, t, d) ==
  [op |-> o, target |-> t, dry |-> d, defect |-> "none", patchType |-> "none",
   image |-> img2, replicas |-> 2]

(* Workload operations, real and rehearsed, and a patch of each kind.      *)
WorkloadInputs == {Plain(o, w1, FALSE) : o \in {"restart", "undo", "patch"}}

(* One input of every operation, of every defect and of every patch type.  *)
GateInputs ==
  {Plain("scale", w1, FALSE), Plain("scale", w1, TRUE),
   Plain("apply", w1, FALSE), Plain("apply", w1, TRUE),
   Plain("restart", w1, TRUE), Plain("undo", w1, FALSE),
   Plain("cordon", node1, FALSE), Plain("uncordon", node1, FALSE),
   Plain("delete", pod1, FALSE), Plain("delete", pod1, TRUE)}
  \union {[Plain("restart", w1, FALSE) EXCEPT !.defect = d] : d \in Defects}
  \union {[Plain("patch", w1, FALSE) EXCEPT !.patchType = t] : t \in PatchTypes}

RestartInputs == {Plain("restart", w1, FALSE)}
UndoInputs    == {Plain(o, w1, FALSE) : o \in {"restart", "undo"}}

Symmetry == Permutations({r1, r2})

PlainTemplates ==
  {[image |-> img1, sidecar |-> FALSE, nonce |-> Absent],
   [image |-> img2, sidecar |-> FALSE, nonce |-> NonceMod - 1]}

SidecarTemplates == {[image |-> img1, sidecar |-> TRUE, nonce |-> Absent]}
====
