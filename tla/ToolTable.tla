----------------------------- MODULE ToolTable -----------------------------
(***************************************************************************)
(* How the tables of the tool nodes are written.                           *)
(*                                                                         *)
(* A tool is a function from its operations to the call each one makes:    *)
(* the HTTP method, whether the service changes something when it carries  *)
(* the call out, the fields of the input the handler insists on, what the  *)
(* handler makes of the body of a successful answer, and whether that body *)
(* is empty.  The last is a fact about the service, whatever the handler   *)
(* expects; it is taken from the handlers' comments and tests where they   *)
(* say it, and from the service's own reference where they do not (an      *)
(* issue of Jira's that is updated).                                       *)
(*                                                                         *)
(* A field counts as given when it is present, of the right type, not      *)
(* empty and, where it is encoded, decodes; the texts, paths and bodies    *)
(* built from it are left out.                                             *)
(***************************************************************************)
EXTENDS Naturals, Sequences

(* What must be given: all of some fields, at least one of some others,    *)
(* exactly one of yet others.                                              *)
Needs(fields) == [all |-> fields, some |-> {}, one |-> {}]

Satisfied(needs, given) ==
  /\ needs.all \subseteq given
  /\ needs.some = {} \/ needs.some \intersect given # {}
  /\ needs.one = {} \/ \E f \in needs.one : needs.one \intersect given = {f}

(* What a handler makes of the body of a successful answer: it must be     *)
(* JSON, it must be JSON unless it is empty, or it may be anything.        *)
BodyPolicies == {"json", "json_or_empty", "any"}
Bodies       == {"json", "empty", "garbled"}

Readable(policy, body) ==
  \/ body = "json"
  \/ policy = "any"
  \/ policy = "json_or_empty" /\ body = "empty"

-----------------------------------------------------------------------------
Call(method, writes, fields, body) ==
  [method |-> method, writes |-> writes, needs |-> Needs(fields),
   body |-> body, empty |-> FALSE, served |-> TRUE]

Get(fields)            == Call("GET", FALSE, fields, "json")
Query(fields)          == Call("POST", FALSE, fields, "json")
Change(method, fields) == Call(method, TRUE, fields, "json")
Ack(method, fields)    == Call(method, TRUE, fields, "any")

(* The call, its answer read by a parser with this policy.                 *)
ParsedBy(policy, call) == [call EXCEPT !.body = policy]

(* The service answers this call with an empty body (external).            *)
Bodiless(call) == [call EXCEPT !.empty = TRUE]

SomeOf(fields, call)  == [call EXCEPT !.needs.some = fields]
OneOf(fields, call)   == [call EXCEPT !.needs.one = fields]

(* The operation parses, and is then always refused.                       *)
Unserved(call) == [call EXCEPT !.served = FALSE]

(* What a tool's metadata says: its side effects, and the operations with  *)
(* the fields each one needs.                                              *)
Doc(effects, ops) == [effects |-> effects, ops |-> ops]

(* A crate's way to the host, of which each crate has a copy of its own:   *)
(* whether a credential may be given as a literal, whether a send comes    *)
(* back after a bounded wait, and the statuses it takes for success.  A    *)
(* secret is looked up at every call, and a send is tried once.            *)
HostTransport(succeeds) == [literals |-> TRUE, bounded |-> TRUE, succeeds |-> succeeds]

(* A crate: how it obtains a credential ("static": from its fields,        *)
(* "refresh": by exchanging them, "either": as it can), what it makes of   *)
(* the answer to an exchange, which fields it reads for that and which of  *)
(* them it must not find empty, its transport,                             *)
(* its tools, their metadata, and the credential fields its descriptor     *)
(* declares.                                                               *)
NodeWith(auth, fields, transport, tools, docs, schema) ==
  [auth |-> auth, grant |-> "none", fields |-> fields, nonempty |-> {},
   transport |-> transport, tools |-> tools, docs |-> docs, schema |-> schema]
=============================================================================
