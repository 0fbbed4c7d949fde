---------------------------- MODULE OneShotWrite ----------------------------
(***************************************************************************)
(* What a node of a flow that changes a remote system promises, whatever   *)
(* requests it takes to get there: a run of the node                       *)
(*                                                                         *)
(*   - changes the remote system at most once,                             *)
(*   - only if the operator's gate stood open at some moment of the run,   *)
(*   - never when it was asked to rehearse,                                *)
(*   - never after it answered "ok" or "refused".                          *)
(*                                                                         *)
(* An "ok" says the change was made (or rehearsed).  An "error" says       *)
(* nothing: the change may have been made already, or be made later by a   *)
(* request still on its way.                                               *)
(*                                                                         *)
(* K8sRemediate implements this module; it is stated on its own because    *)
(* the tool nodes of the other crates keep the same promise.               *)
(***************************************************************************)
CONSTANT Runs           \* the runs of the node

VARIABLES
  gate,                 \* TRUE while the operator allows changes
  phase,                \* phase[r]: "idle", "running" or "answered"
  rehearsal,            \* rehearsal[r]: r was asked to change nothing
  allowed,              \* allowed[r]: the gate stood open while r ran
  effect,               \* the runs that have changed the remote system
  verdict               \* verdict[r]: r's answer, "none" before it

absVars == <<gate, phase, rehearsal, allowed, effect, verdict>>

Phases   == {"idle", "running", "answered"}
Verdicts == {"none", "ok", "refused", "error"}

AbsTypeOK ==
  /\ gate \in BOOLEAN
  /\ phase \in [Runs -> Phases]
  /\ rehearsal \in [Runs -> BOOLEAN]
  /\ allowed \in [Runs -> BOOLEAN]
  /\ effect \in SUBSET Runs
  /\ verdict \in [Runs -> Verdicts]

AbsInit ==
  /\ gate \in BOOLEAN
  /\ phase = [r \in Runs |-> "idle"]
  /\ rehearsal \in [Runs -> BOOLEAN]
  /\ allowed = [r \in Runs |-> FALSE]
  /\ effect = {}
  /\ verdict = [r \in Runs |-> "none"]

-----------------------------------------------------------------------------
(* The operator moves the gate; every run under way while it stands open   *)
(* has seen it open.                                                       *)
MoveGate ==
  /\ gate' \in BOOLEAN
  /\ allowed' = [r \in Runs |-> allowed[r] \/ (gate' /\ phase[r] = "running")]
  /\ UNCHANGED <<phase, rehearsal, effect, verdict>>

Begin(r) ==
  /\ phase[r] = "idle"
  /\ phase' = [phase EXCEPT ![r] = "running"]
  /\ \E b \in BOOLEAN : rehearsal' = [rehearsal EXCEPT ![r] = b]
  /\ allowed' = [allowed EXCEPT ![r] = gate]
  /\ UNCHANGED <<gate, effect, verdict>>

(* The one change of the remote system: while the run is under way, or     *)
(* after it gave up waiting.                                               *)
Effect(r) ==
  /\ phase[r] # "idle"
  /\ verdict[r] \in {"none", "error"}
  /\ allowed[r]
  /\ ~rehearsal[r]
  /\ r \notin effect
  /\ effect' = effect \union {r}
  /\ UNCHANGED <<gate, phase, rehearsal, allowed, verdict>>

Answer(r, v) ==
  /\ phase[r] = "running"
  /\ v = "ok" => allowed[r] /\ (r \in effect <=> ~rehearsal[r])
  /\ v = "refused" => r \notin effect
  /\ phase' = [phase EXCEPT ![r] = "answered"]
  /\ verdict' = [verdict EXCEPT ![r] = v]
  /\ UNCHANGED <<gate, rehearsal, allowed, effect>>

AbsNext ==
  \/ MoveGate
  \/ \E r \in Runs :
       \/ Begin(r)
       \/ Effect(r)
       \/ \E v \in Verdicts \ {"none"} : Answer(r, v)

AbsSpec == AbsInit /\ [][AbsNext]_absVars
=============================================================================
