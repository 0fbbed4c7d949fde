-------------------------------- MODULE Ask --------------------------------
(***************************************************************************)
(* A flow that answers questions about data, with the chain of chat2data   *)
(* nodes or with the sql node: two ways from a sentence to rows, each with *)
(* a model's text in the middle.  The flow has one of the two.             *)
(***************************************************************************)
EXTENDS Chat2Data, SqlAsk

VARIABLE node       \* the way this flow takes

vars == <<node, chatVars, sqlVars>>

\* The nodes of the other way are not configured.
Init ==
  /\ node \in {"chat2data", "sql"} /\ ChatInit /\ SqlInit
  /\ node = "sql" => cfg = CHOOSE c \in Configs : TRUE
  /\ node = "chat2data" => wanted = NotGiven

Ended == IF node = "sql" THEN step = "done" ELSE pc = "done"

Next ==
  \/ node = "chat2data" /\ ChatNext /\ UNCHANGED <<node, sqlVars>>
  \/ node = "sql" /\ SqlNext /\ UNCHANGED <<node, chatVars>>

\* A node runs to its next request; a request ends within the host's timeout.
\* Nothing bounds the runtime's execution of a prepared statement, and nobody
\* has to answer a question back.
Fairness ==
  /\ WF_vars(node = "chat2data" /\ (Nodes \/ Replies) /\ UNCHANGED <<node, sqlVars>>)
  /\ WF_vars(node = "sql" /\ SqlNext /\ UNCHANGED <<node, chatVars>>)

Spec == Init /\ [][Next]_vars /\ Fairness

-----------------------------------------------------------------------------
TypeInvariant == node \in {"chat2data", "sql"} /\ ChatTypeInvariant /\ SqlTypeInvariant

(* Every question is answered, with rows, a question back or the reason    *)
(* why not, or else waits for the runtime that was handed a prepared       *)
(* statement: whatever the model, GitHub and the gateway do with their     *)
(* turn, no node is left without a next step.                              *)
EveryQuestionIsAnswered ==
  (pc = "llm" /\ step = "start") ~> (Ended \/ pc = "runtime")
============================================================================
