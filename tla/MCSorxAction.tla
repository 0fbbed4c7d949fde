---------------------------- MODULE MCSorxAction ----------------------------
(***************************************************************************)
(* Instances of SorxAction for TLC.                                        *)
(***************************************************************************)
EXTENDS SorxAction, TLC

CONSTANTS r1, r2, pay, refund, payOp, refundOp, payTool, metric, p1, p2, tmpl

MCTools ==
  <<[name |-> payTool, endpoint |-> pay, operation |-> payOp],
    [name |-> metric, endpoint |-> refund, operation |-> refundOp]>>
R(e, o, g, p) == [endpoint |-> e, operation |-> o, get |-> g, path |-> p]

(* Published one after the other: the catalog as the flow was reviewed;    *)
(* its paths exchanged, and a tool without an endpoint; routes that cannot *)
(* be invoked, and an endpoint that takes over another one's tool name.    *)
Reviewed == [tools  |-> MCTools,
             routes |-> <<R(pay, payOp, FALSE, p1), R(refund, refundOp, FALSE, p2)>>]
Exchanged == [Reviewed EXCEPT
             !.tools[1] = [name |-> payTool, endpoint |-> Nothing, operation |-> pay],
             !.routes = <<R(refund, refundOp, FALSE, p1), R(pay, payOp, FALSE, p2)>>]
Disabled == [tools  |-> <<MCTools[2]>>,
             routes |-> <<R(pay, payOp, FALSE, tmpl), R(refund, refundOp, FALSE, Nothing),
                          R(refund, payTool, TRUE, p1), R(refund, metric, TRUE, p2)>>]
MCCatalogs == {Reviewed, Exchanged, Disabled}

Sound(o, i, d) == [op |-> o, id |-> i, defect |-> "none", dryFirst |-> d]

MCInputs ==
  {Sound("invoke", i, d) : i \in {pay, refundOp, payTool, metric}, d \in BOOLEAN}
  \union {Sound(o, pay, FALSE) : o \in Ops \ {"invoke"}}
  \union {[Sound("invoke", pay, TRUE) EXCEPT !.defect = x] : x \in Defects}

Symmetry == Permutations({r1, r2})
=============================================================================
