-------------------------- MODULE SorxActionProofs --------------------------
(***************************************************************************)
(* Theorems about SorxAction, for any number of runs and any catalogs.     *)
(***************************************************************************)
EXTENDS SorxAction, PositionLemmas, TLAPS

-----------------------------------------------------------------------------
(* What Iterator::find returns.                                            *)

LEMMA ElementOfSeq ==
  ASSUME NEW T, NEW s \in Seq(T), NEW i \in 1 .. Len(s)
  PROVE  s[i] \in T /\ i \in DOMAIN s
OBVIOUS

(* The first tool that matches is a tool of the catalog whose name,        *)
(* endpoint or operation is the id that was looked for.                    *)
LEMMA FindToolType ==
  ASSUME NEW c \in Catalog, NEW id \in Ids
  PROVE  FindTool(c, id) # Nothing =>
           /\ FindTool(c, id) \in Ids
           /\ \E i \in DOMAIN c.tools :
                /\ FindTool(c, id) = Target(c.tools[i], id)
                /\ id \in {c.tools[i].name, c.tools[i].endpoint,
                           c.tools[i].operation}
<1> DEFINE Matches(t) == id \in {t.name, t.endpoint, t.operation}
           I == {i \in 1 .. Len(c.tools) : Matches(c.tools[i])}
           k == SelectInSeq(c.tools, Matches)
<1>1. c.tools \in Seq(Tool)  BY DEF Catalog
<1>2. k = IF I # {} THEN Min(I) ELSE 0  BY DEF SelectInSeq
<1>3. FindTool(c, id) = IF k = 0 THEN Nothing ELSE Target(c.tools[k], id)
  BY DEF FindTool
<1>4. CASE I = {}
  BY <1>2, <1>3, <1>4
<1>5. CASE I # {}
  <2>1. I \subseteq Nat  OBVIOUS
  <2>2. Min(I) \in I  BY <1>5, <2>1, MinIsLeast
  <2>3. Matches(c.tools[Min(I)])  BY <2>2
  <2>4. Min(I) \in 1 .. Len(c.tools)  BY <2>2
  <2>5. c.tools[Min(I)] \in Tool  BY <1>1, <2>4, ElementOfSeq
  <2>6. Min(I) \in DOMAIN c.tools  BY <1>1, <2>4, ElementOfSeq
  <2>7. Target(c.tools[Min(I)], id) \in Ids  BY <2>5 DEF Tool, Target
  <2>8. k = Min(I) /\ k # 0  BY <1>2, <1>5, <2>4
  <2>9. FindTool(c, id) = Target(c.tools[Min(I)], id)  BY <1>3, <2>8
  <2> QED  BY <2>3, <2>6, <2>7, <2>9
<1> QED  BY <1>4, <1>5

(* The first route that matches is a route of the catalog, and its         *)
(* endpoint or its operation is the id that was looked for.                *)
LEMMA FindRouteType ==
  ASSUME NEW c \in Catalog, NEW id
  PROVE  FindRoute(c, id) # Nothing =>
           /\ FindRoute(c, id) \in Route
           /\ \E i \in DOMAIN c.routes :
                /\ FindRoute(c, id) = c.routes[i]
                /\ id \in {c.routes[i].endpoint, c.routes[i].operation}
<1> DEFINE Matches(r) == id \in {r.endpoint, r.operation}
           I == {i \in 1 .. Len(c.routes) : Matches(c.routes[i])}
           k == SelectInSeq(c.routes, Matches)
<1>1. c.routes \in Seq(Route)  BY DEF Catalog
<1>2. k = IF I # {} THEN Min(I) ELSE 0  BY DEF SelectInSeq
<1>3. FindRoute(c, id) = IF k = 0 THEN Nothing ELSE c.routes[k]
  BY DEF FindRoute
<1>4. CASE I = {}
  BY <1>2, <1>3, <1>4
<1>5. CASE I # {}
  <2>1. I \subseteq Nat  OBVIOUS
  <2>2. Min(I) \in I  BY <1>5, <2>1, MinIsLeast
  <2>3. Min(I) \in 1 .. Len(c.routes) /\ Matches(c.routes[Min(I)])  BY <2>2
  <2>4. Min(I) \in 1 .. Len(c.routes)  BY <2>3
  <2>7. c.routes[Min(I)] \in Route  BY <1>1, <2>4, ElementOfSeq
  <2>8. Min(I) \in DOMAIN c.routes  BY <1>1, <2>4, ElementOfSeq
  <2>5. k = Min(I) /\ k # 0  BY <1>2, <1>5, <2>3
  <2>6. FindRoute(c, id) = c.routes[Min(I)]  BY <1>3, <2>5
  <2> QED  BY <2>3, <2>7, <2>8, <2>6
<1> QED  BY <1>4, <1>5

LEMMA BodiesAreCatalogs ==
  ASSUME catalog \in Catalogs, NEW body \in Bodies
  PROVE  body \in Catalog
<1>1. EmptyCatalog \in Catalog  BY DEF EmptyCatalog, Catalog
<1> QED  BY <1>1, CatalogAssumption DEF Bodies

LEMMA InputFields ==
  ASSUME NEW i \in Inputs
  PROVE  /\ i.op \in Ops /\ i.id \in Ids
         /\ i.defect \in Defects /\ i.dryFirst \in BOOLEAN
BY CatalogAssumption DEF Input

-----------------------------------------------------------------------------
(* Types.                                                                  *)

LEMMA NoRequestType == NoRequest \in Requests
BY DEF NoRequest, Requests

LEMMA InitTypes == Init => TypeOK
<1> SUFFICES ASSUME Init PROVE TypeOK  OBVIOUS
<1>1. NoRequest \in Requests  BY NoRequestType
<1>2. catalog \in Catalogs /\ input \in [Runs -> Inputs]  BY DEF Init
<1>3. "idle" \in PCs /\ "none" \in Replies  BY DEF PCs, Replies
<1> QED  BY <1>1, <1>2, <1>3 DEF Init, TypeOK

(* Moving a run and answering its flow are typed.                          *)
LEMMA MoveTypes ==
  ASSUME TypeOK, NEW p \in Runs,
         \/ \E c \in PCs : Goto(p, c)
         \/ \E r \in Replies : Answer(p, r)
  PROVE  pc' \in [Runs -> PCs] /\ reply' \in [Runs -> Replies]
BY DEF TypeOK, Goto, Answer, PCs

(* What is sent is a typed request for a path that is no template.         *)
LEMMA InvocationTypes ==
  ASSUME TypeOK, NEW p \in Runs, NEW r \in Requests, SendInvocation(p, r)
  PROVE  /\ pc' \in [Runs -> PCs] /\ reply' \in [Runs -> Replies]
         /\ wire' \in [Runs -> {"none", "sent"} \union Answers]
         /\ req' \in [Runs -> Requests]
<1>1. "invoking" \in PCs /\ "refused" \in Replies  BY DEF PCs, Replies
<1>2. pc' \in [Runs -> PCs] /\ reply' \in [Runs -> Replies]
  BY <1>1, MoveTypes DEF SendInvocation
<1> QED  BY <1>2 DEF SendInvocation, wireVars, TypeOK

LEMMA RouteRequestType ==
  ASSUME NEW c \in Catalog, NEW id, FindRoute(c, id) # Nothing,
         Invocable(FindRoute(c, id))
  PROVE  [path |-> FindRoute(c, id).path, get |-> FindRoute(c, id).get,
          metric |-> Nothing] \in Requests
<1>1. FindRoute(c, id) \in Route  BY FindRouteType
<1>2. /\ FindRoute(c, id).path \in Paths \union {Nothing}
      /\ FindRoute(c, id).get \in BOOLEAN
  BY <1>1 DEF Route
<1> QED  BY <1>2 DEF Invocable, Requests

LEMMA LocalTypes ==
  ASSUME TypeOK, NEW p \in Runs,
         \/ Begin(p) \/ RejectInput(p) \/ Start(p) \/ ReadFails(p)
         \/ Receive(p) \/ GiveUp(p)
  PROVE  TypeOK'
<1>1. UNCHANGED <<catalog, input, wire, req, rehearsed, stale, executed>>
  BY DEF Begin, RejectInput, Start, ReadFails, Receive, GiveUp, wireVars, ghostVars
<1>2. \/ \E c \in PCs : Goto(p, c)
      \/ \E r \in Replies : Answer(p, r)
  BY DEF Begin, RejectInput, Start, ReadFails, Receive, GiveUp, SendGet, PCs,
         Replies, Answers
<1>3. pc' \in [Runs -> PCs] /\ reply' \in [Runs -> Replies]
  BY <1>2, MoveTypes
<1> QED  BY <1>1, <1>3 DEF TypeOK

LEMMA ReadToolsTypes ==
  ASSUME TypeOK, NEW p \in Runs, ReadTools(p)
  PROVE  TypeOK'
<1>1. PICK body \in Bodies :
        \/ Answer(p, "ok") /\ UNCHANGED rehearsed
        \/ Answer(p, "refused") /\ UNCHANGED rehearsed
        \/ /\ rehearsed' = [rehearsed EXCEPT ![p] = FindTool(body, input[p].id)]
           /\ SendGet(p, "routes") \/ Answer(p, "ok")
  BY DEF ReadTools
<1>2. FindTool(body, input[p].id) \in Ids \union {Nothing}
  <2>1. body \in Catalog  BY BodiesAreCatalogs DEF TypeOK
  <2>2. input[p].id \in Ids  BY CatalogAssumption DEF TypeOK, Input
  <2> QED  BY <2>1, <2>2, FindToolType
<1>3. rehearsed' \in [Runs -> Ids \union {Nothing}]
  BY <1>1, <1>2 DEF TypeOK
<1>4. pc' \in [Runs -> PCs] /\ reply' \in [Runs -> Replies]
  <2>1. "routes" \in PCs /\ {"ok", "refused"} \subseteq Replies
    BY DEF PCs, Replies, Answers
  <2> QED  BY <1>1, <2>1, MoveTypes DEF SendGet
<1>5. /\ stale' = [stale EXCEPT ![p] = FALSE]
      /\ UNCHANGED <<catalog, input, wire, req, executed>>
  BY DEF ReadTools, wireVars
<1> QED  BY <1>3, <1>4, <1>5 DEF TypeOK

LEMMA ReadRoutesTypes ==
  ASSUME TypeOK, NEW p \in Runs, ReadRoutes(p)
  PROVE  TypeOK'
<1>1. /\ stale' = [stale EXCEPT ![p] = @ /\ input[p].dryFirst]
      /\ UNCHANGED <<catalog, input, rehearsed, executed>>
  BY DEF ReadRoutes
<1>2. \/ \E r \in Requests : SendInvocation(p, r)
      \/ Answer(p, "refused") /\ UNCHANGED wireVars
  <2>1. PICK body \in Bodies :
          LET id    == input[p].id
              route == FindRoute(body, id) IN
          \/ /\ route # Nothing /\ Invocable(route)
             /\ SendInvocation(p, [path |-> route.path, get |-> route.get,
                                   metric |-> Nothing])
          \/ /\ id \in MetricIds
             /\ SendInvocation(p, [NoRequest EXCEPT !.metric = id])
          \/ Answer(p, "refused") /\ UNCHANGED wireVars
    BY DEF ReadRoutes
  <2>2. body \in Catalog  BY BodiesAreCatalogs DEF TypeOK
  <2>3. \A id \in MetricIds : [NoRequest EXCEPT !.metric = id] \in Requests
    BY DEF NoRequest, Requests
  <2> QED  BY <2>1, <2>2, <2>3, RouteRequestType
<1>3. /\ pc' \in [Runs -> PCs] /\ reply' \in [Runs -> Replies]
      /\ wire' \in [Runs -> {"none", "sent"} \union Answers]
      /\ req' \in [Runs -> Requests]
  <2>1. CASE \E r \in Requests : SendInvocation(p, r)
    BY <2>1, InvocationTypes
  <2>2. CASE Answer(p, "refused") /\ UNCHANGED wireVars
    <3>1. "refused" \in Replies  BY DEF Replies
    <3>2. UNCHANGED <<wire, req>>  BY <2>2 DEF wireVars
    <3> QED  BY <2>2, <3>1, <3>2, MoveTypes DEF TypeOK
  <2> QED  BY <1>2, <2>1, <2>2
<1>4. input[p].dryFirst \in BOOLEAN  BY InputFields DEF TypeOK
<1> QED  BY <1>1, <1>3, <1>4 DEF TypeOK

LEMMA ServerTypes ==
  ASSUME TypeOK, NEW p \in Runs, Execute(p) \/ Decline(p)
  PROVE  TypeOK'
<1>1. UNCHANGED <<catalog, pc, input, reply, req, rehearsed, stale>>
  BY DEF Execute, Decline, runVars, ghostVars
<1>2. wire' \in [Runs -> {"none", "sent"} \union Answers]
  BY DEF Execute, Decline, Answers, TypeOK
<1>3. executed' \in [Runs -> Ids \union {Nothing}]
  BY DEF Execute, Decline, ghostVars, TypeOK
<1> QED  BY <1>1, <1>2, <1>3 DEF TypeOK

LEMMA PublishTypes == TypeOK /\ Publish => TypeOK'
BY DEF TypeOK, Publish, runVars, wireVars

LEMMA NextTypes == TypeOK /\ [Next]_vars => TypeOK'
<1> SUFFICES ASSUME TypeOK, [Next]_vars PROVE TypeOK'  OBVIOUS
<1>1. ASSUME NEW p \in Runs, Run(p) PROVE TypeOK'
  BY <1>1, LocalTypes, ReadToolsTypes, ReadRoutesTypes DEF Run
<1>2. ASSUME NEW p \in Runs, Execute(p) \/ Decline(p) PROVE TypeOK'
  BY <1>2, ServerTypes
<1>3. CASE Publish  BY <1>3, PublishTypes
<1>4. CASE UNCHANGED vars
  BY <1>4 DEF vars, runVars, wireVars, ghostVars, TypeOK
<1> QED  BY <1>1, <1>2, <1>3, <1>4 DEF Next

(* Every reachable state is typed; in particular no run ever requests a    *)
(* path with parameters in it, or a route that has no path.                *)
THEOREM SorxTypeCorrect == Spec => []TypeOK
BY InitTypes, NextTypes, PTL DEF Spec

-----------------------------------------------------------------------------
(* The inductive invariant.                                                *)

(* Where a run is, and what it has sent and answered by then.              *)
PlaceInv(p) ==
  /\ pc[p] \notin {"invoking", "done"} => wire[p] = "none"
  /\ pc[p] = "invoking" => wire[p] # "none"
  /\ pc[p] = "done" <=> reply[p] # "none"
  /\ pc[p] \in {"idle", "checking", "tools"} => rehearsed[p] = Nothing
  /\ wire[p] = "none" => executed[p] = Nothing

(* An input that passed the checks at one place has passed them later, and *)
(* a dry run that was asked for has found a tool.                          *)
CheckedInv(p) ==
  /\ pc[p] \in {"tools", "routes"} => input[p].defect \notin Checks(input[p])
  /\ pc[p] = "routes" \/ wire[p] # "none" =>
       /\ input[p].op = "invoke"
       /\ input[p].dryFirst => rehearsed[p] # Nothing
  /\ wire[p] # "none" => input[p].defect = "none"
  /\ pc[p] = "tools" /\ input[p].op = "invoke" => input[p].dryFirst
  /\ rehearsed[p] # Nothing /\ input[p].op = "invoke" => input[p].dryFirst

(* What an answer on the wire, and a reply, say of what was executed.      *)
AnswerInv(p) ==
  /\ wire[p] = "sent" => executed[p] = Nothing
  /\ wire[p] = "ok" => executed[p] # Nothing
  /\ reply[p] = "refused" => wire[p] = "none"
  /\ reply[p] = "ok" /\ input[p].op = "invoke" => wire[p] = "ok"

(* The endpoint the dry run showed is one the id has among the tools.      *)
FromTools(p) ==
  \E i \in DOMAIN catalog.tools :
    LET t == catalog.tools[i] IN
    rehearsed[p] = Target(t, input[p].id) /\ input[p].id \in {t.name, t.endpoint, t.operation}

(* The request is for the metric, or for a route the id has.               *)
AsksForMetric(p) ==
  /\ req[p].metric = input[p].id
  /\ input[p].id \in MetricIds
  /\ req[p].path = Nothing

AsksForRoute(p) ==
  \E i \in DOMAIN catalog.routes :
    LET r == catalog.routes[i] IN
    /\ input[p].id \in {r.endpoint, r.operation}
    /\ req[p].metric = Nothing
    /\ req[p].path = r.path /\ r.path # Nothing
    /\ req[p].get = r.get

Executes(p) ==
  \/ executed[p] = input[p].id /\ input[p].id \in MetricIds
  \/ \E i \in DOMAIN catalog.routes :
       LET r == catalog.routes[i] IN
       executed[p] = r.endpoint /\ input[p].id \in {r.endpoint, r.operation}

(* Until the next catalog is published, the run is true to this one.       *)
CatalogInv(p) ==
  ~stale[p] =>
    /\ rehearsed[p] # Nothing => FromTools(p)
    /\ wire[p] # "none" => AsksForMetric(p) \/ AsksForRoute(p)
    /\ executed[p] # Nothing => Executes(p)

RunInv(p) == PlaceInv(p) /\ CheckedInv(p) /\ AnswerInv(p) /\ CatalogInv(p)

SInv == TypeOK /\ \A p \in Runs : RunInv(p)

LEMMA InitInv == Init => SInv
<1> SUFFICES ASSUME Init, NEW p \in Runs PROVE RunInv(p)
  BY InitTypes DEF SInv
<1>1. /\ pc[p] = "idle" /\ wire[p] = "none" /\ reply[p] = "none"
      /\ rehearsed[p] = Nothing /\ executed[p] = Nothing
  BY DEF Init
<1> QED
  BY <1>1 DEF RunInv, PlaceInv, CheckedInv, AnswerInv, CatalogInv

(* A step that leaves a run, its request and the catalog alone.            *)
LEMMA Frame ==
  ASSUME NEW p \in Runs, RunInv(p), UNCHANGED <<catalog, input>>,
         pc'[p] = pc[p], reply'[p] = reply[p], wire'[p] = wire[p],
         req'[p] = req[p], rehearsed'[p] = rehearsed[p],
         stale'[p] = stale[p], executed'[p] = executed[p]
  PROVE  RunInv(p)'
<1>1. PlaceInv(p)' /\ CheckedInv(p)' /\ AnswerInv(p)'
  BY DEF RunInv, PlaceInv, CheckedInv, AnswerInv
<1>2. CatalogInv(p)'
  BY DEF RunInv, CatalogInv, FromTools, AsksForMetric, AsksForRoute, Executes
<1> QED  BY <1>1, <1>2 DEF RunInv

(* The part about the catalog survives a step that neither publishes nor   *)
(* sends, rehearses or executes anything.                                  *)
LEMMA CatalogFrame ==
  ASSUME NEW p \in Runs, CatalogInv(p), UNCHANGED <<catalog, input>>,
         wire'[p] = "none" \/ wire[p] # "none", req'[p] = req[p],
         rehearsed'[p] = rehearsed[p], stale'[p] = stale[p],
         executed'[p] = executed[p]
  PROVE  CatalogInv(p)'
BY DEF CatalogInv, FromTools, AsksForMetric, AsksForRoute, Executes

LEMMA LocalInv ==
  ASSUME SInv, NEW p \in Runs,
         \/ Begin(p) \/ RejectInput(p) \/ Start(p) \/ ReadFails(p)
         \/ Receive(p) \/ GiveUp(p)
  PROVE  RunInv(p)'
<1>1. UNCHANGED <<catalog, input, wire, req, rehearsed, stale, executed>>
  BY DEF Begin, RejectInput, Start, ReadFails, Receive, GiveUp, wireVars, ghostVars
<1>2. RunInv(p) /\ pc \in [Runs -> PCs] /\ reply \in [Runs -> Replies]
  BY DEF SInv, TypeOK
<1>3. CatalogInv(p)'
  BY <1>1, <1>2, CatalogFrame DEF RunInv
<1>4. CASE Begin(p)
  BY <1>1, <1>2, <1>3, <1>4
  DEF Begin, Goto, RunInv, PlaceInv, CheckedInv, AnswerInv
<1>5. CASE RejectInput(p)
  BY <1>1, <1>2, <1>3, <1>5
  DEF RejectInput, Answer, RunInv, PlaceInv, CheckedInv, AnswerInv
<1>6. CASE Start(p)
  <2>1. input[p] \in Inputs /\ input[p].dryFirst \in BOOLEAN
    BY InputFields DEF SInv, TypeOK
  <2> QED
    BY <1>1, <1>2, <1>3, <1>6, <2>1
    DEF Start, SendGet, Goto, Answer, RunInv, PlaceInv, CheckedInv, AnswerInv
<1>7. CASE ReadFails(p)
  BY <1>1, <1>2, <1>3, <1>7
  DEF ReadFails, Answer, RunInv, PlaceInv, CheckedInv, AnswerInv
<1>8. CASE Receive(p)
  BY <1>1, <1>2, <1>3, <1>8
  DEF Receive, Answer, Answers, RunInv, PlaceInv, CheckedInv, AnswerInv
<1>9. CASE GiveUp(p)
  BY <1>1, <1>2, <1>3, <1>9
  DEF GiveUp, Answer, RunInv, PlaceInv, CheckedInv, AnswerInv
<1> QED  BY <1>4, <1>5, <1>6, <1>7, <1>8, <1>9

(* A garbled body lists no tool, so a tool that was found is one of the    *)
(* catalog.                                                                *)
LEMMA FoundTool ==
  ASSUME SInv, NEW body \in Bodies, NEW id \in Ids, FindTool(body, id) # Nothing
  PROVE  \E i \in DOMAIN catalog.tools :
           /\ FindTool(body, id) = Target(catalog.tools[i], id)
           /\ id \in {catalog.tools[i].name, catalog.tools[i].endpoint,
                      catalog.tools[i].operation}
<1>1. body \in Catalog  BY BodiesAreCatalogs DEF SInv, TypeOK
<1>2. DOMAIN EmptyCatalog.tools = {}  BY DEF EmptyCatalog
<1>3. body = catalog \/ body = EmptyCatalog  BY DEF Bodies
<1> QED  BY <1>1, <1>2, <1>3, FindToolType

LEMMA FoundRoute ==
  ASSUME SInv, NEW body \in Bodies, NEW id, FindRoute(body, id) # Nothing
  PROVE  \E i \in DOMAIN catalog.routes :
           /\ FindRoute(body, id) = catalog.routes[i]
           /\ id \in {catalog.routes[i].endpoint, catalog.routes[i].operation}
<1>1. body \in Catalog  BY BodiesAreCatalogs DEF SInv, TypeOK
<1>2. DOMAIN EmptyCatalog.routes = {}  BY DEF EmptyCatalog
<1>3. body = catalog \/ body = EmptyCatalog  BY DEF Bodies
<1> QED  BY <1>1, <1>2, <1>3, FindRouteType

LEMMA ReadToolsInv ==
  ASSUME SInv, NEW p \in Runs, ReadTools(p)
  PROVE  RunInv(p)'
<1>1. /\ pc[p] = "tools" /\ stale' = [stale EXCEPT ![p] = FALSE]
      /\ UNCHANGED <<catalog, input, wire, req, executed>>
  BY DEF ReadTools, wireVars
<1>2. /\ RunInv(p) /\ pc \in [Runs -> PCs] /\ reply \in [Runs -> Replies]
      /\ rehearsed \in [Runs -> Ids \union {Nothing}]
  BY DEF SInv, TypeOK
<1>3. /\ wire[p] = "none" /\ executed[p] = Nothing /\ rehearsed[p] = Nothing
      /\ reply[p] = "none" /\ input[p].defect \notin Checks(input[p])
      /\ input[p].op = "invoke" => input[p].dryFirst
  BY <1>1, <1>2 DEF RunInv, PlaceInv, CheckedInv
<1>4. PICK body \in Bodies :
        \/ /\ input[p].op = "list"
           /\ Answer(p, "ok") /\ UNCHANGED rehearsed
        \/ Answer(p, "refused") /\ UNCHANGED rehearsed
        \/ /\ FindTool(body, input[p].id) # Nothing
           /\ rehearsed' = [rehearsed EXCEPT ![p] = FindTool(body, input[p].id)]
           /\ IF input[p].op = "invoke" THEN SendGet(p, "routes")
              ELSE Answer(p, "ok")
  BY DEF ReadTools
<1>5. CASE \/ /\ input[p].op = "list"
              /\ Answer(p, "ok") /\ UNCHANGED rehearsed
           \/ Answer(p, "refused") /\ UNCHANGED rehearsed
  BY <1>1, <1>2, <1>3, <1>5
  DEF Answer, RunInv, PlaceInv, CheckedInv, AnswerInv, CatalogInv
<1>6. CASE /\ FindTool(body, input[p].id) # Nothing
           /\ rehearsed' = [rehearsed EXCEPT ![p] = FindTool(body, input[p].id)]
           /\ IF input[p].op = "invoke" THEN SendGet(p, "routes")
              ELSE Answer(p, "ok")
  <2>1. rehearsed'[p] = FindTool(body, input[p].id)  BY <1>2, <1>6
  <2>2. FromTools(p)'
    <3>1. input[p].id \in Ids  BY CatalogAssumption DEF SInv, TypeOK, Input
    <3> QED  BY <1>1, <1>6, <2>1, <3>1, FoundTool DEF FromTools
  <2>3. CatalogInv(p)'
    BY <1>1, <1>3, <2>2 DEF CatalogInv
  <2>4. PlaceInv(p)' /\ CheckedInv(p)' /\ AnswerInv(p)'
    BY <1>1, <1>2, <1>3, <1>6, <2>1
    DEF SendGet, Goto, Answer, PlaceInv, CheckedInv, AnswerInv
  <2> QED  BY <2>3, <2>4 DEF RunInv
<1> QED  BY <1>4, <1>5, <1>6

LEMMA ReadRoutesInv ==
  ASSUME SInv, NEW p \in Runs, ReadRoutes(p)
  PROVE  RunInv(p)'
<1>1. /\ pc[p] = "routes"
      /\ stale' = [stale EXCEPT ![p] = @ /\ input[p].dryFirst]
      /\ UNCHANGED <<catalog, input, rehearsed, executed>>
  BY DEF ReadRoutes
<1>2. /\ RunInv(p) /\ pc \in [Runs -> PCs] /\ reply \in [Runs -> Replies]
      /\ wire \in [Runs -> {"none", "sent"} \union Answers]
      /\ req \in [Runs -> Requests] /\ stale \in [Runs -> BOOLEAN]
      /\ input[p].dryFirst \in BOOLEAN /\ input[p].defect \in Defects
  BY InputFields DEF SInv, TypeOK
<1>3. /\ wire[p] = "none" /\ executed[p] = Nothing /\ reply[p] = "none"
      /\ input[p].op = "invoke"
      /\ input[p].dryFirst => rehearsed[p] # Nothing
      /\ rehearsed[p] # Nothing => input[p].dryFirst
  BY <1>1, <1>2 DEF RunInv, PlaceInv, CheckedInv
<1>4. input[p].defect = "none"
  <2>1. input[p].defect \notin Checks(input[p])
    BY <1>1, <1>2 DEF RunInv, CheckedInv
  <2>2. Checks(input[p]) = Defects \ {"none"}
    BY <1>3 DEF Checks, load_config, validate_action_ref, validate_options_shape,
                validate_action_metadata, validate_json_schema, Defects
  <2> QED  BY <1>2, <2>1, <2>2
<1>5. ~stale'[p] /\ rehearsed'[p] # Nothing => FromTools(p)'
  <2>1. rehearsed[p] # Nothing => stale'[p] = stale[p]  BY <1>1, <1>2, <1>3
  <2> QED  BY <1>1, <1>2, <2>1 DEF RunInv, CatalogInv, FromTools
<1>6. ASSUME NEW r, SendInvocation(p, r),
             \/ /\ r.metric = input[p].id /\ input[p].id \in MetricIds
                /\ r.path = Nothing
             \/ \E i \in DOMAIN catalog.routes :
                  LET t == catalog.routes[i] IN
                  /\ input[p].id \in {t.endpoint, t.operation}
                  /\ r.metric = Nothing /\ r.path = t.path /\ t.path # Nothing
                  /\ r.get = t.get
      PROVE  RunInv(p)'
  <2>1. CASE /\ Goto(p, "invoking") /\ wire' = [wire EXCEPT ![p] = "sent"]
             /\ req' = [req EXCEPT ![p] = r]
    <3>1. /\ pc'[p] = "invoking" /\ wire'[p] = "sent" /\ req'[p] = r
          /\ reply' = reply
      BY <1>2, <2>1 DEF Goto
    <3>2. AsksForMetric(p)' \/ AsksForRoute(p)'
      BY <1>1, <1>6, <3>1 DEF AsksForMetric, AsksForRoute
    <3>3. CatalogInv(p)'
      BY <1>1, <1>3, <1>5, <3>2 DEF CatalogInv
    <3>4. PlaceInv(p)' /\ CheckedInv(p)' /\ AnswerInv(p)'
      BY <1>1, <1>3, <1>4, <3>1 DEF PlaceInv, CheckedInv, AnswerInv
    <3> QED  BY <3>3, <3>4 DEF RunInv
  <2>2. CASE Answer(p, "refused") /\ UNCHANGED wireVars
    BY <1>1, <1>2, <1>3, <1>5, <2>2
    DEF Answer, wireVars, RunInv, PlaceInv, CheckedInv, AnswerInv, CatalogInv
  <2> QED  BY <1>6, <2>1, <2>2 DEF SendInvocation
<1>7. CASE Answer(p, "refused") /\ UNCHANGED wireVars
  BY <1>1, <1>2, <1>3, <1>5, <1>7
  DEF Answer, wireVars, RunInv, PlaceInv, CheckedInv, AnswerInv, CatalogInv
<1>8. PICK body \in Bodies :
        LET id    == input[p].id
            route == FindRoute(body, id) IN
        \/ /\ route # Nothing /\ Invocable(route)
           /\ SendInvocation(p, [path |-> route.path, get |-> route.get,
                                 metric |-> Nothing])
        \/ /\ id \in MetricIds
           /\ SendInvocation(p, [NoRequest EXCEPT !.metric = id])
        \/ Answer(p, "refused") /\ UNCHANGED wireVars
  BY DEF ReadRoutes
<1>9. CASE LET route == FindRoute(body, input[p].id) IN
           /\ route # Nothing /\ Invocable(route)
           /\ SendInvocation(p, [path |-> route.path, get |-> route.get,
                                 metric |-> Nothing])
  BY <1>6, <1>9, FoundRoute DEF Invocable
<1>10. CASE /\ input[p].id \in MetricIds
            /\ SendInvocation(p, [NoRequest EXCEPT !.metric = input[p].id])
  BY <1>6, <1>10 DEF NoRequest
<1> QED  BY <1>7, <1>8, <1>9, <1>10

(* What Sorx serves for a request of this catalog is the action.           *)
LEMMA ServedAction ==
  ASSUME SInv, NEW p \in Runs, AsksForMetric(p) \/ AsksForRoute(p),
         NEW e \in Ids, Serves(req[p], e)
  PROVE  \/ e = input[p].id /\ input[p].id \in MetricIds
         \/ \E i \in DOMAIN catalog.routes :
              /\ e = catalog.routes[i].endpoint
              /\ input[p].id \in {catalog.routes[i].endpoint,
                                  catalog.routes[i].operation}
<1>1. CASE AsksForMetric(p)
  BY <1>1 DEF AsksForMetric, Serves
<1>2. CASE AsksForRoute(p)
  <2>1. PICK i \in DOMAIN catalog.routes :
          /\ input[p].id \in {catalog.routes[i].endpoint, catalog.routes[i].operation}
          /\ req[p].metric = Nothing
          /\ req[p].path = catalog.routes[i].path
          /\ catalog.routes[i].path # Nothing
          /\ req[p].get = catalog.routes[i].get
    BY <1>2 DEF AsksForRoute
  <2>2. PICK j \in DOMAIN catalog.routes :
          /\ req[p].path = catalog.routes[j].path
          /\ req[p].get = catalog.routes[j].get
          /\ e = catalog.routes[j].endpoint
    BY <2>1 DEF Serves
  <2>3. catalog \in Catalogs  BY DEF SInv, TypeOK
  <2>4. i = j  BY <2>1, <2>2, <2>3, CatalogAssumption
  <2> QED  BY <2>1, <2>2, <2>4
<1> QED  BY <1>1, <1>2

LEMMA ServerInv ==
  ASSUME SInv, NEW p \in Runs, Execute(p) \/ Decline(p)
  PROVE  RunInv(p)'
<1>1. UNCHANGED <<catalog, pc, input, reply, req, rehearsed, stale>>
  BY DEF Execute, Decline, runVars, ghostVars
<1>2. /\ RunInv(p) /\ executed \in [Runs -> Ids \union {Nothing}]
      /\ wire \in [Runs -> {"none", "sent"} \union Answers]
  BY DEF SInv, TypeOK
<1>3. CASE Decline(p)
  <2>1. wire[p] = "sent" /\ wire'[p] \in Answers \ {"ok"} /\ executed' = executed
    BY <1>2, <1>3 DEF Decline, ghostVars
  <2>2. CatalogInv(p)'
    BY <1>1, <1>2, <2>1, CatalogFrame DEF RunInv
  <2>3. PlaceInv(p)' /\ CheckedInv(p)' /\ AnswerInv(p)'
    BY <1>1, <1>2, <2>1 DEF RunInv, PlaceInv, CheckedInv, AnswerInv, Answers
  <2> QED  BY <2>2, <2>3 DEF RunInv
<1>4. CASE Execute(p)
  <2>1. PICK e \in Ids :
          Serves(req[p], e) /\ executed' = [executed EXCEPT ![p] = e]
    BY <1>4 DEF Execute
  <2>2. /\ wire[p] \in {"sent", "held"} /\ wire'[p] \in {"ok", "held", "error"}
        /\ wire[p] = "held" => wire'[p] = "held"
        /\ executed'[p] = e /\ e # Nothing
    BY <1>2, <1>4, <2>1, CatalogAssumption DEF Execute
  <2>3. PlaceInv(p)' /\ CheckedInv(p)' /\ AnswerInv(p)'
    BY <1>1, <1>2, <2>2 DEF RunInv, PlaceInv, CheckedInv, AnswerInv
  <2>4. ASSUME ~stale[p]
        PROVE  /\ rehearsed[p] # Nothing => FromTools(p)'
               /\ AsksForMetric(p)' \/ AsksForRoute(p)'
               /\ Executes(p)'
    <3>1. /\ rehearsed[p] # Nothing => FromTools(p)
          /\ AsksForMetric(p) \/ AsksForRoute(p)
      BY <1>2, <2>2, <2>4 DEF RunInv, CatalogInv
    <3>2. Executes(p)'
      BY <1>1, <2>1, <2>2, <3>1, ServedAction DEF Executes
    <3> QED
      BY <1>1, <3>1, <3>2 DEF FromTools, AsksForMetric, AsksForRoute
  <2>5. CatalogInv(p)'
    BY <1>1, <2>4 DEF CatalogInv
  <2> QED  BY <2>3, <2>5 DEF RunInv
<1> QED  BY <1>3, <1>4

LEMMA PublishInv ==
  ASSUME SInv, Publish, NEW p \in Runs
  PROVE  RunInv(p)'
<1>1. stale'[p] /\ UNCHANGED <<pc, input, reply, wire, req, rehearsed, executed>>
  BY DEF Publish, runVars, wireVars
<1>2. RunInv(p)  BY DEF SInv
<1> QED
  BY <1>1, <1>2 DEF RunInv, PlaceInv, CheckedInv, AnswerInv, CatalogInv

(* Every step changes one run only, or publishes a catalog.                *)
LEMMA OneRunAtATime ==
  ASSUME SInv, NEW p \in Runs, Run(p) \/ Execute(p) \/ Decline(p),
         NEW q \in Runs, q # p
  PROVE  RunInv(q)'
<1>1. RunInv(q) /\ TypeOK  BY DEF SInv
<1>2. UNCHANGED <<catalog, input>>
  BY DEF Run, Begin, RejectInput, Start, ReadFails, ReadTools, ReadRoutes,
         Receive, GiveUp, Execute, Decline, runVars
<1>3. pc'[q] = pc[q] /\ reply'[q] = reply[q]
  BY <1>1 DEF TypeOK, Run, Begin, RejectInput, Start, ReadFails, ReadTools,
              ReadRoutes, Receive, GiveUp, Execute, Decline, runVars, SendGet,
              SendInvocation, Goto, Answer
<1>4. wire'[q] = wire[q] /\ req'[q] = req[q]
  BY <1>1 DEF TypeOK, Run, Begin, RejectInput, Start, ReadFails, ReadTools,
              ReadRoutes, Receive, GiveUp, Execute, Decline, SendInvocation,
              wireVars
<1>5. rehearsed'[q] = rehearsed[q] /\ stale'[q] = stale[q]
  BY <1>1 DEF TypeOK, Run, Begin, RejectInput, Start, ReadFails, ReadTools,
              ReadRoutes, Receive, GiveUp, Execute, Decline, ghostVars
<1>6. executed'[q] = executed[q]
  BY <1>1 DEF TypeOK, Run, Begin, RejectInput, Start, ReadFails, ReadTools,
              ReadRoutes, Receive, GiveUp, Execute, Decline, ghostVars
<1> QED  BY <1>1, <1>2, <1>3, <1>4, <1>5, <1>6, Frame

LEMMA NextInv == SInv /\ [Next]_vars => SInv'
<1> SUFFICES ASSUME SInv, [Next]_vars, NEW q \in Runs PROVE RunInv(q)'
  BY NextTypes DEF SInv
<1>1. ASSUME NEW p \in Runs, Run(p) \/ Execute(p) \/ Decline(p)
      PROVE  RunInv(q)'
  <2>1. CASE q # p  BY <1>1, <2>1, OneRunAtATime
  <2>2. CASE q = p
    BY <1>1, <2>2, LocalInv, ReadToolsInv, ReadRoutesInv, ServerInv DEF Run
  <2> QED  BY <2>1, <2>2
<1>2. CASE Publish  BY <1>2, PublishInv
<1>3. CASE UNCHANGED vars
  <2>1. RunInv(q)  BY DEF SInv
  <2> QED  BY <1>3, <2>1, Frame DEF vars, runVars, wireVars, ghostVars
<1> QED  BY <1>1, <1>2, <1>3 DEF Next

LEMMA SInvHolds == Spec => []SInv
BY InitInv, NextInv, PTL DEF Spec

-----------------------------------------------------------------------------
(* What Sorx carries out.                                                  *)

(* Sorx carries out only invocations that passed every local check, and    *)
(* whose dry run, if they asked for one, found its tool.                   *)
THEOREM OnlyCheckedIsExecuted == Spec => []ExecutesOnlyChecked
<1>1. SInv => ExecutesOnlyChecked
  <2> SUFFICES ASSUME SInv, NEW p \in Runs, executed[p] # Nothing
               PROVE  /\ input[p].op = "invoke" /\ input[p].defect = "none"
                      /\ input[p].dryFirst => rehearsed[p] # Nothing
    BY DEF ExecutesOnlyChecked
  <2>1. RunInv(p)  BY DEF SInv
  <2> QED  BY <2>1 DEF RunInv, PlaceInv, CheckedInv
<1> QED  BY <1>1, SInvHolds, PTL

(* While the catalog is not published anew, Sorx carries out the locked    *)
(* action and no other.                                                    *)
THEOREM TheActionIsExecuted == Spec => []ExecutesTheAction
<1>1. SInv => ExecutesTheAction
  <2> SUFFICES ASSUME SInv, NEW p \in Runs, executed[p] # Nothing, ~stale[p]
               PROVE  Executes(p)
    BY DEF ExecutesTheAction, Executes
  <2>1. RunInv(p)  BY DEF SInv
  <2> QED  BY <2>1 DEF RunInv, CatalogInv
<1> QED  BY <1>1, SInvHolds, PTL

(* In a catalog that stays, and whose tools and routes agree on the id,    *)
(* the endpoint a dry run shows is the one the invocation carries out.     *)
THEOREM RehearsalIsTrue == Spec => []RehearsalForetells
<1>1. SInv => RehearsalForetells
  <2> SUFFICES ASSUME SInv, NEW p \in Runs, executed[p] # Nothing,
                      rehearsed[p] # Nothing, ~stale[p], Unambiguous(input[p].id)
               PROVE  executed[p] \in {rehearsed[p]}
                                        \union (MetricIds \intersect {input[p].id})
    BY DEF RehearsalForetells
  <2>1. FromTools(p) /\ Executes(p)
    BY DEF SInv, RunInv, CatalogInv
  <2>2. CASE executed[p] = input[p].id /\ input[p].id \in MetricIds
    BY <2>2
  <2>3. ASSUME NEW j \in DOMAIN catalog.routes,
               executed[p] = catalog.routes[j].endpoint,
               input[p].id \in {catalog.routes[j].endpoint,
                                catalog.routes[j].operation}
        PROVE  executed[p] = rehearsed[p]
    <3>1. PICK i \in DOMAIN catalog.tools :
            /\ rehearsed[p] = Target(catalog.tools[i], input[p].id)
            /\ input[p].id \in {catalog.tools[i].name, catalog.tools[i].endpoint,
                                catalog.tools[i].operation}
      BY <2>1 DEF FromTools
    <3>2. Target(catalog.tools[i], input[p].id) = catalog.routes[j].endpoint
      BY <2>3, <3>1 DEF Unambiguous
    <3> QED  BY <2>3, <3>1, <3>2
  <2> QED  BY <2>1, <2>2, <2>3 DEF Executes
<1> QED  BY <1>1, SInvHolds, PTL

-----------------------------------------------------------------------------
(* The runs implement OneShotWrite.                                        *)

LEMMA PhaseOf ==
  ASSUME NEW p
  PROVE  /\ pc[p] = "idle" => Phase(p) = "idle"
         /\ pc[p] = "done" => Phase(p) = "answered"
         /\ pc[p] \notin {"idle", "done"} => Phase(p) = "running"
BY DEF Phase

LEMMA PhaseAfter ==
  ASSUME NEW p
  PROVE  /\ pc'[p] = "idle" => Phase(p)' = "idle"
         /\ pc'[p] = "done" => Phase(p)' = "answered"
         /\ pc'[p] \notin {"idle", "done"} => Phase(p)' = "running"
BY DEF Phase

LEMMA RefinesInit == Init => OneShot!AbsInit
<1> SUFFICES ASSUME Init PROVE OneShot!AbsInit  OBVIOUS
<1>1. [p \in Runs |-> Phase(p)] = [r \in Runs |-> "idle"]
  BY PhaseOf DEF Init
<1>2. [p \in Runs |-> input[p].op # "invoke"] \in [Runs -> BOOLEAN]  OBVIOUS
<1>3. [p \in Runs |-> pc[p] # "idle"] = [r \in Runs |-> FALSE]  BY DEF Init
<1>4. {p \in Runs : executed[p] # Nothing} = {}  BY DEF Init
<1>5. [p \in Runs |-> Verdict(p)] = [r \in Runs |-> "none"]
  BY DEF Init, Verdict
<1> QED  BY <1>1, <1>2, <1>3, <1>4, <1>5 DEF OneShot!AbsInit

(* What moves a run from one place under way to another, and executes and  *)
(* answers nothing, is invisible to the abstract specification.            *)
LEMMA InvisibleSteps ==
  ASSUME UNCHANGED <<input, executed, reply>>,
         \A r \in Runs : \/ pc'[r] = pc[r]
                         \/ {pc[r], pc'[r]} \cap {"idle", "done"} = {}
  PROVE  UNCHANGED OneShot!absVars
<1>1. \A r \in Runs : Phase(r)' = Phase(r)  BY DEF Phase
<1>2. [p \in Runs |-> Phase(p)]' = [p \in Runs |-> Phase(p)]  BY <1>1
<1>3. [p \in Runs |-> pc[p] # "idle"]' = [p \in Runs |-> pc[p] # "idle"]
  OBVIOUS
<1>4. [p \in Runs |-> Verdict(p)]' = [p \in Runs |-> Verdict(p)]
  BY DEF Verdict
<1> QED  BY <1>2, <1>3, <1>4 DEF OneShot!absVars

LEMMA RefinesBegin ==
  ASSUME TypeOK, NEW p \in Runs, Begin(p)
  PROVE  OneShot!Begin(p)
<1>1. /\ pc[p] = "idle" /\ pc' = [pc EXCEPT ![p] = "checking"]
      /\ UNCHANGED <<input, executed, reply>>
  BY DEF Begin, Goto, ghostVars
<1>2. \A r \in Runs : pc'[r] = IF r = p THEN "checking" ELSE pc[r]
  BY <1>1 DEF TypeOK
<1>3. [r \in Runs |-> Phase(r)]'
        = [[r \in Runs |-> Phase(r)] EXCEPT ![p] = "running"]
  BY <1>2 DEF Phase
<1>4. [r \in Runs |-> pc[r] # "idle"]'
        = [[r \in Runs |-> pc[r] # "idle"] EXCEPT ![p] = TRUE]
  BY <1>2
<1>5. \E b \in BOOLEAN :
        [r \in Runs |-> input[r].op # "invoke"]'
          = [[r \in Runs |-> input[r].op # "invoke"] EXCEPT ![p] = b]
  <2> WITNESS (input[p].op # "invoke") \in BOOLEAN
  <2> QED  BY <1>1
<1>6. [r \in Runs |-> Verdict(r)]' = [r \in Runs |-> Verdict(r)]
  BY <1>1 DEF Verdict
<1>7. [r \in Runs |-> Phase(r)][p] = "idle"  BY <1>1, PhaseOf
<1> QED  BY <1>1, <1>3, <1>4, <1>5, <1>6, <1>7 DEF OneShot!Begin

(* An answer of the run is the answer of the abstract specification: after *)
(* an "ok" the invocation was carried out, after a "refused" none was sent.*)
LEMMA RefinesAnswer ==
  ASSUME SInv, SInv', NEW p \in Runs, NEW r \in Replies \ {"none"},
         pc[p] \notin {"idle", "done"}, Answer(p, r),
         UNCHANGED <<input, wire, executed>>
  PROVE  \E v \in OneShot!Verdicts \ {"none"} : OneShot!Answer(p, v)
<1> DEFINE v == IF r \in {"drift", "held"} THEN "error" ELSE r
<1>1. /\ \A q \in Runs : pc'[q] = IF q = p THEN "done" ELSE pc[q]
      /\ \A q \in Runs : reply'[q] = IF q = p THEN r ELSE reply[q]
  BY DEF Answer, SInv, TypeOK
<1>2. RunInv(p)'  BY DEF SInv
<1>3. v \in OneShot!Verdicts \ {"none"}
  BY DEF Replies, Answers, OneShot!Verdicts
<1>4. v = "ok" => (executed[p] # Nothing <=> ~(input[p].op # "invoke"))
  <2> SUFFICES ASSUME r = "ok"
               PROVE  executed[p] # Nothing <=> input[p].op = "invoke"
    OBVIOUS
  <2>1. reply'[p] = "ok"  BY <1>1
  <2>2. input[p].op = "invoke" => executed[p] # Nothing
    BY <1>2, <2>1 DEF RunInv, AnswerInv
  <2>3. executed[p] # Nothing => input[p].op = "invoke"
    BY <1>2 DEF RunInv, PlaceInv, CheckedInv
  <2> QED  BY <2>2, <2>3
<1>5. v = "refused" => executed[p] = Nothing
  BY <1>1, <1>2 DEF RunInv, AnswerInv, PlaceInv
<1>6. [q \in Runs |-> Phase(q)]'
        = [[q \in Runs |-> Phase(q)] EXCEPT ![p] = "answered"]
  BY <1>1 DEF Phase
<1>7. [q \in Runs |-> Verdict(q)]'
        = [[q \in Runs |-> Verdict(q)] EXCEPT ![p] = v]
  BY <1>1 DEF Verdict
<1>8. [q \in Runs |-> pc[q] # "idle"]' = [q \in Runs |-> pc[q] # "idle"]
  BY <1>1
<1>9. [q \in Runs |-> Phase(q)][p] = "running" /\ pc[p] # "idle"
  BY PhaseOf
<1>10. OneShot!Answer(p, v)
  BY <1>4, <1>5, <1>6, <1>7, <1>8, <1>9 DEF OneShot!Answer
<1> QED  BY <1>3, <1>10

(* What Sorx carries out is the one effect of the run.                     *)
LEMMA RefinesEffect ==
  ASSUME SInv, NEW p \in Runs, Execute(p)
  PROVE  OneShot!Effect(p)
<1>1. RunInv(p) /\ executed \in [Runs -> Ids \union {Nothing}]
      /\ reply \in [Runs -> Replies]
  BY DEF SInv, TypeOK
<1>2. /\ wire[p] \in {"sent", "held"} /\ executed[p] = Nothing
      /\ UNCHANGED <<pc, input, reply>>
  BY DEF Execute, runVars
<1>3. pc[p] # "idle" /\ input[p].op = "invoke"
  BY <1>1, <1>2 DEF RunInv, PlaceInv, CheckedInv
<1>4. Verdict(p) \in {"none", "error"}
  BY <1>1, <1>2, <1>3 DEF RunInv, AnswerInv, Verdict, Replies, Answers
<1>5. {q \in Runs : executed[q] # Nothing}'
        = {q \in Runs : executed[q] # Nothing} \union {p}
  <2>1. PICK e \in Ids : executed' = [executed EXCEPT ![p] = e]
    BY DEF Execute
  <2>2. e # Nothing  BY CatalogAssumption
  <2> QED  BY <1>1, <2>1, <2>2
<1>6. Phase(p) # "idle"  BY <1>3, PhaseOf
<1>7. [q \in Runs |-> Phase(q)]' = [q \in Runs |-> Phase(q)]
  BY <1>2 DEF Phase
<1>8. [q \in Runs |-> Verdict(q)]' = [q \in Runs |-> Verdict(q)]
  BY <1>2 DEF Verdict
<1> QED
  BY <1>2, <1>3, <1>4, <1>5, <1>6, <1>7, <1>8 DEF OneShot!Effect

(* A step of a run under way answers the flow, or goes on unseen.          *)
LEMMA RefinesRunStep ==
  ASSUME SInv, SInv', NEW p \in Runs, Run(p), ~ Begin(p)
  PROVE  [OneShot!AbsNext]_(OneShot!absVars)
<1>1. /\ pc[p] \notin {"idle", "done"}
      /\ UNCHANGED <<input, executed>>
  BY DEF Run, RejectInput, Start, ReadFails, ReadTools, ReadRoutes, Receive,
         GiveUp, ghostVars
<1>2. \/ \E r \in Replies \ {"none"} : Answer(p, r) /\ UNCHANGED wire
      \/ \E c \in PCs \ {"idle", "done"} : Goto(p, c)
  <2>1. CASE RejectInput(p) \/ Start(p) \/ ReadFails(p) \/ Receive(p) \/ GiveUp(p)
    BY <2>1 DEF RejectInput, Start, ReadFails, Receive, GiveUp, SendGet,
                wireVars, Replies, Answers, PCs
  <2>2. CASE ReadTools(p)
    BY <2>2 DEF ReadTools, SendGet, wireVars, Replies, Answers, PCs
  <2>3. CASE ReadRoutes(p)
    BY <2>3 DEF ReadRoutes, SendInvocation, wireVars, Replies, PCs
  <2> QED  BY <2>1, <2>2, <2>3 DEF Run
<1>3. CASE \E r \in Replies \ {"none"} : Answer(p, r) /\ UNCHANGED wire
  BY <1>1, <1>3, RefinesAnswer DEF OneShot!AbsNext
<1>4. ASSUME NEW c \in PCs \ {"idle", "done"}, Goto(p, c)
      PROVE  UNCHANGED OneShot!absVars
  <2>1. pc \in [Runs -> PCs]  BY DEF SInv, TypeOK
  <2>2. \A q \in Runs : \/ pc'[q] = pc[q]
                        \/ {pc[q], pc'[q]} \cap {"idle", "done"} = {}
    BY <1>1, <1>4, <2>1 DEF Goto
  <2> QED  BY <1>1, <1>4, <2>2, InvisibleSteps DEF Goto
<1> QED  BY <1>2, <1>3, <1>4

LEMMA RefinesNext ==
  SInv /\ SInv' /\ [Next]_vars => [OneShot!AbsNext]_(OneShot!absVars)
<1> SUFFICES ASSUME SInv, SInv', [Next]_vars
             PROVE  [OneShot!AbsNext]_(OneShot!absVars)
  OBVIOUS
<1>1. ASSUME NEW p \in Runs, Begin(p)
      PROVE  OneShot!AbsNext
  BY <1>1, RefinesBegin DEF SInv, OneShot!AbsNext
<1>2. ASSUME NEW p \in Runs, Run(p), ~ Begin(p)
      PROVE  [OneShot!AbsNext]_(OneShot!absVars)
  BY <1>2, RefinesRunStep
<1>3. ASSUME NEW p \in Runs, Execute(p)
      PROVE  OneShot!AbsNext
  BY <1>3, RefinesEffect DEF OneShot!AbsNext
<1>4. ASSUME UNCHANGED <<pc, input, reply, executed>>
      PROVE  UNCHANGED OneShot!absVars
  BY <1>4, InvisibleSteps
<1>5. ASSUME NEW p \in Runs, Decline(p)
      PROVE  UNCHANGED <<pc, input, reply, executed>>
  BY <1>5 DEF Decline, runVars, ghostVars
<1>6. ASSUME Publish \/ UNCHANGED vars
      PROVE  UNCHANGED <<pc, input, reply, executed>>
  BY <1>6 DEF Publish, vars, runVars, ghostVars
<1> QED  BY <1>1, <1>2, <1>3, <1>4, <1>5, <1>6 DEF Next

(* The runs implement the one-shot write: through the dry run, the metric  *)
(* fallback, a held approval and a late answer, a flow sees one effect at  *)
(* most, none of an operation that only reads, and none after an "ok" or a *)
(* "refused".                                                              *)
THEOREM SorxImplementsOneShot == Spec => KeepsOneShotPromise
<1>1. Init => OneShot!AbsInit  BY RefinesInit
<1>2. SInv /\ SInv' /\ [Next]_vars => [OneShot!AbsNext]_(OneShot!absVars)
  BY RefinesNext
<1> QED
  BY <1>1, <1>2, SInvHolds, PTL DEF Spec, KeepsOneShotPromise, OneShot!AbsSpec
=============================================================================
