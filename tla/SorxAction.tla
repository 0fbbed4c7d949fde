----------------------------- MODULE SorxAction -----------------------------
(***************************************************************************)
(* component-sorx-business (lib.rs): flow nodes that call business actions *)
(* of a Sorx server through its published catalog of tools and routes.     *)
(*                                                                         *)
(* A run checks its input locally, then reads the catalog over HTTP: the   *)
(* tools for a dry run, the routes for an invocation, both for an          *)
(* invocation that dry-runs first.  The route it found is invoked with one *)
(* more request, by which time the catalog may have been published anew.   *)
(* Nothing is kept between runs, and nothing is retried.                   *)
(*                                                                         *)
(* Abstracted: ids are elements of a small set, values and schemas are     *)
(* well-formed or not, a template is a path that contains a '{'.           *)
(*                                                                         *)
(* External, modelled from how the code uses them: the Sorx server, and    *)
(* the operator who publishes catalogs.                                    *)
(***************************************************************************)
EXTENDS Naturals, Sequences, SequencesExt

CONSTANTS
  Runs,                 \* runs of sorx nodes, each invoked once
  Ids,                  \* endpoint ids, operation ids and tool names
  MetricIds,            \* the ids of the form metrics.query.<name>
  Paths, Templates,     \* the paths of routes; those that contain a '{'
  Nothing,              \* no route, no path, no endpoint
  Catalogs,             \* the catalogs the operator publishes
  Inputs                \* the inputs nodes are invoked with

Tool    == [name : Ids, endpoint : Ids \union {Nothing}, operation : Ids]
Route   == [endpoint : Ids, operation : Ids, get : BOOLEAN,
            path : Paths \union {Nothing}]
Catalog == [tools : Seq(Tool), routes : Seq(Route)]

Ops == {"list", "schema", "dry_run", "explain", "invoke"}

(* What an input can get wrong: the action_ref or values, the options, the *)
(* supplied metadata (another contract hash, a required idempotency key    *)
(* that is missing, a schema the values do not fit), the configuration.    *)
Defects == {"none", "envelope", "options", "drift", "key", "schema", "config"}
Input   == [op : Ops, id : Ids, defect : Defects, dryFirst : BOOLEAN]

(* Sorx serves one route for a method and a path.                          *)
ASSUME CatalogAssumption ==
  /\ MetricIds \subseteq Ids
  /\ Templates \subseteq Paths
  /\ Nothing \notin Ids \union Paths
  /\ Catalogs \subseteq Catalog
  /\ \A c \in Catalogs : \A i, j \in DOMAIN c.routes :
       i # j /\ c.routes[i].path # Nothing =>
         <<c.routes[i].path, c.routes[i].get>> # <<c.routes[j].path, c.routes[j].get>>
  /\ Inputs \subseteq Input

VARIABLES
  catalog,              \* what Sorx serves under /v1/sorx/tools and /routes
  pc, input, reply,     \* the runs: where, invoked with what, answered what
  wire,                 \* the invocation: "none", "sent", or its answer
  req,                  \* its method and path, or the metric it queries
  (* history, read by no action's guard *)
  rehearsed,            \* the endpoint its dry run resolved to
  stale,                \* the catalog was published anew since its first read
  executed              \* the endpoint or metric Sorx carried out for the run

runVars   == <<pc, input, reply>>
wireVars  == <<wire, req>>
ghostVars == <<rehearsed, stale, executed>>
vars == <<catalog, runVars, wireVars, ghostVars>>

PCs     == {"idle", "checking", "tools", "routes", "invoking", "done"}
(* "held": an answer with ok true and approval_required under "sorx"; Sorx *)
(* holds the action until somebody approves it.                            *)
Answers == {"ok", "held", "drift", "error"}
Replies == {"none", "refused"} \union Answers
Requests == [path : (Paths \ Templates) \union {Nothing}, get : BOOLEAN,
             metric : MetricIds \union {Nothing}]
NoRequest == [path |-> Nothing, get |-> FALSE, metric |-> Nothing]

(* Every variable is typed; a template is never requested.                 *)
TypeOK ==
  /\ catalog \in Catalogs
  /\ pc \in [Runs -> PCs]
  /\ input \in [Runs -> Inputs]
  /\ reply \in [Runs -> Replies]
  /\ wire \in [Runs -> {"none", "sent"} \union Answers]
  /\ req \in [Runs -> Requests]
  /\ rehearsed \in [Runs -> Ids \union {Nothing}]
  /\ stale \in [Runs -> BOOLEAN]
  /\ executed \in [Runs -> Ids \union {Nothing}]

Init ==
  /\ catalog \in Catalogs
  /\ pc = [p \in Runs |-> "idle"]
  /\ input \in [Runs -> Inputs]
  /\ reply = [p \in Runs |-> "none"]
  /\ wire = [p \in Runs |-> "none"]
  /\ req = [p \in Runs |-> NoRequest]
  /\ rehearsed = [p \in Runs |-> Nothing]
  /\ stale = [p \in Runs |-> FALSE]
  /\ executed = [p \in Runs |-> Nothing]

-----------------------------------------------------------------------------
(* What the handlers compute.                                              *)

(* What each check refuses: a base URL that is none, a reference or values *)
(* that are incomplete, an unknown option, metadata that the input does    *)
(* not agree with.                                                         *)
load_config              == {"config"}
validate_action_ref      == {"envelope"}
validate_options_shape   == {"options"}
validate_json_schema     == {"schema"}
validate_action_metadata == {"drift", "key"} \union validate_json_schema

(* Mutant of Checks: an invocation that dry-runs first leaves the checks   *)
(* of its metadata to the dry run.                                         *)
ChecksBeforeDryRun(i) ==
  load_config
  \union (IF i.op = "list" THEN {} ELSE validate_action_ref)
  \union (IF i.op \in {"dry_run", "invoke"} /\ ~i.dryFirst
          THEN validate_options_shape \union validate_action_metadata ELSE {})

(* The local checks of each operation, all of them before any request.     *)
Checks(i) ==
  load_config
  \union (IF i.op = "list" THEN {} ELSE validate_action_ref)
  \union (IF i.op \in {"dry_run", "invoke"}
          THEN validate_options_shape \union validate_action_metadata ELSE {})

(* The endpoint a dry run shows for a tool: the id itself where the tool   *)
(* has none.                                                               *)
Target(tool, id) == IF tool.endpoint = Nothing THEN id ELSE tool.endpoint

(* Mutant of FindTool: the first tool, whatever it is.                     *)
FirstTool(c, id) == IF c.tools = <<>> THEN Nothing ELSE Target(c.tools[1], id)

(* Iterator::find on the tools by name, endpoint or operation...           *)
FindTool(c, id) ==
  LET Matches(t) == id \in {t.name, t.endpoint, t.operation}
      i == SelectInSeq(c.tools, Matches) IN
  IF i = 0 THEN Nothing ELSE Target(c.tools[i], id)

(* Mutant of FindRoute: the first route, whatever it is.                   *)
FirstRoute(c, id) == IF c.routes = <<>> THEN Nothing ELSE c.routes[1]

(* ... and on the routes, which have no name.                              *)
FindRoute(c, id) ==
  LET Matches(r) == id \in {r.endpoint, r.operation}
      i == SelectInSeq(c.routes, Matches) IN
  IF i = 0 THEN Nothing ELSE c.routes[i]

(* Mutant of Invocable: only a missing path is refused.                    *)
HasPath(route) == route.path # Nothing

Invocable(route) == route.path \notin Templates \union {Nothing}

(* A body that is no catalog lists nothing.                                *)
EmptyCatalog == [tools |-> <<>>, routes |-> <<>>]
Bodies == {catalog, EmptyCatalog}

-----------------------------------------------------------------------------
(* Steps of a run.                                                         *)

Answer(p, r) ==
  /\ pc' = [pc EXCEPT ![p] = "done"]
  /\ reply' = [reply EXCEPT ![p] = r]

Goto(p, where) ==
  /\ pc' = [pc EXCEPT ![p] = where]
  /\ UNCHANGED reply

(* The token is read from the secret store anew for every request, so any  *)
(* request may fail before it is sent.                                     *)
SendGet(p, where) == Goto(p, where) \/ Answer(p, "refused")

Begin(p) ==
  /\ pc[p] = "idle"
  /\ Goto(p, "checking")
  /\ UNCHANGED <<catalog, input, wireVars, ghostVars>>

RejectInput(p) ==
  /\ pc[p] = "checking"
  /\ input[p].defect \in Checks(input[p])
  /\ Answer(p, IF input[p].defect = "drift" THEN "drift" ELSE "refused")
  /\ UNCHANGED <<catalog, input, wireVars, ghostVars>>

Start(p) ==
  /\ pc[p] = "checking"
  /\ input[p].defect \notin Checks(input[p])
  /\ SendGet(p, IF input[p].op = "invoke" /\ ~input[p].dryFirst THEN "routes"
                ELSE "tools")
  /\ UNCHANGED <<catalog, input, wireVars, ghostVars>>

(* A read that fails, or is answered with a status of 400 or more (whose   *)
(* body may say drift), ends the run.                                      *)
ReadFails(p) ==
  /\ pc[p] \in {"tools", "routes"}
  /\ \E r \in {"drift", "error"} : Answer(p, r)
  /\ UNCHANGED <<catalog, input, wireVars, ghostVars>>

ReadTools(p) ==
  /\ pc[p] = "tools"
  /\ stale' = [stale EXCEPT ![p] = FALSE]
  /\ \E body \in Bodies :
       LET tool == FindTool(body, input[p].id) IN
       \/ /\ input[p].op = "list"
          /\ Answer(p, "ok")
          /\ UNCHANGED rehearsed
       \/ /\ input[p].op # "list" /\ tool = Nothing
          /\ Answer(p, "refused")
          /\ UNCHANGED rehearsed
       \/ /\ input[p].op # "list" /\ tool # Nothing
          /\ rehearsed' = [rehearsed EXCEPT ![p] = tool]
          /\ IF input[p].op = "invoke" THEN SendGet(p, "routes")
             ELSE Answer(p, "ok")
  /\ UNCHANGED <<catalog, input, wireVars, executed>>

(* The invocation itself: the route's method and path, or the metric's.    *)
SendInvocation(p, r) ==
  \/ /\ Goto(p, "invoking")
     /\ wire' = [wire EXCEPT ![p] = "sent"]
     /\ req' = [req EXCEPT ![p] = r]
  \/ /\ Answer(p, "refused")
     /\ UNCHANGED wireVars

ReadRoutes(p) ==
  /\ pc[p] = "routes"
  /\ stale' = [stale EXCEPT ![p] = @ /\ input[p].dryFirst]
  /\ \E body \in Bodies :
       LET id    == input[p].id
           route == FindRoute(body, id) IN
       \/ /\ route # Nothing /\ Invocable(route)
          /\ SendInvocation(p, [path |-> route.path, get |-> route.get,
                                metric |-> Nothing])
       \/ /\ route = Nothing /\ id \in MetricIds
          /\ SendInvocation(p, [NoRequest EXCEPT !.metric = id])
       \/ /\ \/ route = Nothing /\ id \notin MetricIds
             \/ route # Nothing /\ ~Invocable(route)
          /\ Answer(p, "refused")
          /\ UNCHANGED wireVars
  /\ UNCHANGED <<catalog, input, rehearsed, executed>>

(* Mutant of Receive: normalize_response without its check of the status.  *)
StatusIgnored(p) ==
  /\ pc[p] = "invoking"
  /\ wire[p] \in Answers
  /\ Answer(p, IF wire[p] = "error" THEN "ok" ELSE wire[p])
  /\ UNCHANGED <<catalog, input, wireVars, ghostVars>>

Receive(p) ==
  /\ pc[p] = "invoking"
  /\ wire[p] \in Answers
  /\ Answer(p, wire[p])
  /\ UNCHANGED <<catalog, input, wireVars, ghostVars>>

(* Mutant of GiveUp: no timeout while the invocation is unanswered.        *)
WaitForever(p) ==
  /\ pc[p] = "invoking" /\ wire[p] # "sent"
  /\ Answer(p, "error")
  /\ UNCHANGED <<catalog, input, wireVars, ghostVars>>

(* config.timeout_ms, or a broken connection: the request may still be on  *)
(* its way.                                                                *)
GiveUp(p) ==
  /\ pc[p] = "invoking"
  /\ Answer(p, "error")
  /\ UNCHANGED <<catalog, input, wireVars, ghostVars>>

-----------------------------------------------------------------------------
(* The Sorx server and its operator.                                       *)

(* Sorx carries out what it serves under the request's path at that time,  *)
(* maybe for approval of what it held; its answer may come out an error.   *)
Serves(r, e) ==
  \/ r.metric # Nothing /\ e = r.metric
  \/ \E i \in DOMAIN catalog.routes :
       /\ r.path = catalog.routes[i].path /\ r.path # Nothing
       /\ r.get = catalog.routes[i].get
       /\ e = catalog.routes[i].endpoint

Execute(p) ==
  /\ wire[p] \in {"sent", "held"}
  /\ executed[p] = Nothing
  /\ \E e \in Ids : Serves(req[p], e) /\ executed' = [executed EXCEPT ![p] = e]
  /\ \E a \in {"ok", "error"} :
       wire' = [wire EXCEPT ![p] = IF @ = "held" THEN @ ELSE a]
  /\ UNCHANGED <<catalog, runVars, req, rehearsed, stale>>

(* Held for approval, refused by policy or for drift, or lost.             *)
Decline(p) ==
  /\ wire[p] = "sent"
  /\ \E a \in Answers \ {"ok"} : wire' = [wire EXCEPT ![p] = a]
  /\ UNCHANGED <<catalog, runVars, req, ghostVars>>

Publish ==
  /\ catalog' \in Catalogs \ {catalog}
  /\ stale' = [p \in Runs |-> TRUE]
  /\ UNCHANGED <<runVars, wireVars, rehearsed, executed>>

-----------------------------------------------------------------------------
Run(p) ==
  \/ Begin(p) \/ RejectInput(p) \/ Start(p)
  \/ ReadFails(p) \/ ReadTools(p) \/ ReadRoutes(p)
  \/ Receive(p) \/ GiveUp(p)

Next ==
  \/ \E p \in Runs : Run(p)
  \/ \E p \in Runs : Execute(p) \/ Decline(p)
  \/ Publish

Spec == Init /\ [][Next]_vars

(* A run goes on because its host runs it and every request of it times    *)
(* out.  Neither Sorx nor the operator has to do anything.                 *)
Fairness == \A p \in Runs : WF_vars(Run(p))
FairSpec == Spec /\ Fairness

-----------------------------------------------------------------------------
(* Properties.                                                             *)

(* Sorx carries something out for a run only if it was an invocation whose *)
(* input passed every local check and, where it asked for a dry run first, *)
(* whose dry run found the tool: also through the metric fallback, and     *)
(* after the run gave up waiting (lib.rs:336-351).                         *)
ExecutesOnlyChecked ==
  \A p \in Runs : executed[p] # Nothing =>
    /\ input[p].op = "invoke" /\ input[p].defect = "none"
    /\ input[p].dryFirst => rehearsed[p] # Nothing

(* Unless the operator publishes another catalog in between, what Sorx     *)
(* carries out is the action that was locked: the endpoint of a route with *)
(* that endpoint or operation id, or the metric of that id (lib.rs:519).   *)
ExecutesTheAction ==
  \A p \in Runs : executed[p] # Nothing /\ ~stale[p] =>
    \/ executed[p] = input[p].id /\ input[p].id \in MetricIds
    \/ \E i \in DOMAIN catalog.routes :
         LET r == catalog.routes[i] IN
         executed[p] = r.endpoint /\ input[p].id \in {r.endpoint, r.operation}

(* id names the same endpoint in the tools and the routes.                 *)
Unambiguous(id) ==
  \A i \in DOMAIN catalog.tools, j \in DOMAIN catalog.routes :
    LET t == catalog.tools[i]
        r == catalog.routes[j] IN
    id \in {t.name, t.endpoint, t.operation} /\ id \in {r.endpoint, r.operation}
      => Target(t, id) = r.endpoint

(* What a dry run shows as the execution target is what the invocation     *)
(* then executes, in a catalog whose tools and routes agree on the id and  *)
(* that is not published anew in between; only a metric query that has no  *)
(* route goes elsewhere (lib.rs:339-353, 523-527).                         *)
RehearsalForetells ==
  \A p \in Runs :
    executed[p] # Nothing /\ rehearsed[p] # Nothing
      /\ ~stale[p] /\ Unambiguous(input[p].id) =>
        executed[p] \in {rehearsed[p]} \union (MetricIds \intersect {input[p].id})

(* Every node that is invoked answers, whatever Sorx does.                 *)
EveryRunAnswers == \A p \in Runs : pc[p] = "checking" ~> pc[p] = "done"

(* A run is a one-shot write with an open gate: it has Sorx carry out one  *)
(* action at most, none when it rehearses, and "ok" says it was done.      *)
Phase(p) ==
  CASE pc[p] = "idle" -> "idle" [] pc[p] = "done" -> "answered" [] OTHER -> "running"

(* "held" promises no more than an error does: the action may be carried   *)
(* out later, or never.                                                    *)
Verdict(p) == IF reply[p] \in {"drift", "held"} THEN "error" ELSE reply[p]

OneShot == INSTANCE OneShotWrite WITH
  gate      <- TRUE,
  phase     <- [p \in Runs |-> Phase(p)],
  rehearsal <- [p \in Runs |-> input[p].op # "invoke"],
  allowed   <- [p \in Runs |-> pc[p] # "idle"],
  effect    <- {p \in Runs : executed[p] # Nothing},
  verdict   <- [p \in Runs |-> Verdict(p)]

(* OneShotWrite is implemented: no sequence of dry run, fallback, held     *)
(* approval and late answer makes an "ok" or a "refused" untrue.           *)
KeepsOneShotPromise == OneShot!AbsSpec
=============================================================================
