------------------------------ MODULE ToolCall -----------------------------
(***************************************************************************)
(* A run of a tool node: component-jira, -trello, -stripe, -clickup,       *)
(* -calendly, -gcal, -hubspot, -notion, -tavily, -firecrawl, -resend or    *)
(* -twilio.  The twelve crates differ in their tables (the *Tools modules) *)
(* and in how they obtain a credential; the rest is the same handler:      *)
(*                                                                         *)
(*   read the credentials, one secret at a time                            *)
(*   exchange them for an access token       gcal; hubspot when it can     *)
(*   build the call, which checks the input                                *)
(*   send it, and wait for the answer for thirty seconds                   *)
(*   classify the status, then read the body                               *)
(*                                                                         *)
(* Around the run the operator provisions, removes and rotates secrets,    *)
(* and the service carries the request out, turns it away, or never        *)
(* answers; it may also carry it out after the run gave up waiting.        *)
(***************************************************************************)
EXTENDS Integers, Sequences, FiniteSets, SequencesExt, ToolTable

CONSTANTS
  Runs,             \* runs of the nodes
  Nodes,            \* the crates: [auth, grant, fields, nonempty, transport, tools, docs, schema]
  Inputs,           \* what a run is asked: [node, tool, op, given, creds]
  Concurrent,       \* bound: the inputs of a second run and of the run it meets
  Statuses,         \* bound: the HTTP statuses that are told apart
  MaxRotations,     \* bound: how often the secrets change their values
  none              \* no input yet

ASSUME StatusesAssumption == Statuses \subseteq 100..599
ASSUME RotationsAssumption == MaxRotations \in Nat
ASSUME NoneAssumption == none \notin Inputs
ASSUME ConcurrentAssumption == Concurrent \subseteq Inputs

VARIABLES
  provisioned,      \* the secrets the store holds
  rotation,         \* how often the values have been changed
  pc,               \* pc[r]: how far run r has come
  input,            \* input[r]: what it was asked
  left,             \* left[r]: the credential fields still to be read
  got,              \* got[r]: the fields read, with the rotation of each value
  since,            \* since[r]: the rotation when r began
  exchange,         \* exchange[r]: the token exchange of r
  wire,             \* wire[r]: the call of r on its way
  answer,           \* answer[r]: the service's answer to it
  effect,           \* effect[r]: how often the service has made r's change
  reply             \* reply[r]: what the flow is told

vars == <<provisioned, rotation, pc, input, left, got, since, exchange, wire,
          answer, effect, reply>>

store == <<provisioned, rotation>>

Steps     == {"idle", "credentials", "exchanging", "validate", "calling", "done"}
Exchanges == {"none", "sent", "granted"}
Wires     == {"unsent", "sent", "answered"}
Replies   == {"none", "ok", "refused", "error"}
NoAnswer  == [status |-> 0, body |-> "empty"]
Answers   == [status : Statuses, body : Bodies]

NodeOf(i)   == Nodes[i.node]
CallOf(i)   == NodeOf(i).tools[i.tool][i.op]
Secrets(i)  == {f \in DOMAIN i.creds : i.creds[f] = "secret"}
Reads(got_r) == {g.field : g \in got_r}

AllFields   == UNION {DOMAIN i.creds : i \in Inputs}

(* What the tables have in common: a credential is read from fields of its *)
(* own, and no crate takes a status outside 200..299 for success.          *)
ASSUME NodesAssumption ==
  \A i \in Inputs :
    /\ NodeOf(i).auth \in {"static", "refresh", "either"}
    /\ NodeOf(i).fields \in Seq(DOMAIN i.creds)
    /\ NodeOf(i).auth = "either" =>
         "access_token" \in DOMAIN i.creds \ ToSet(NodeOf(i).fields)
    /\ CallOf(i).writes \in BOOLEAN
    /\ NodeOf(i).transport.succeeds \subseteq 200..299

TypeOK ==
  /\ provisioned \subseteq AllFields
  /\ rotation \in 0..MaxRotations
  /\ pc \in [Runs -> Steps]
  /\ input \in [Runs -> Inputs \union {none}]
  /\ \A r \in Runs : pc[r] = "idle" <=> input[r] = none
  /\ left \in [Runs -> Seq(AllFields)]
  /\ got \in [Runs -> SUBSET [field : AllFields, at : 0..MaxRotations]]
  /\ since \in [Runs -> 0..MaxRotations]
  /\ exchange \in [Runs -> Exchanges]
  /\ wire \in [Runs -> Wires]
  /\ answer \in [Runs -> Answers \union {NoAnswer}]
  /\ effect \in [Runs -> 0..1]
  /\ reply \in [Runs -> Replies]

Init ==
  /\ provisioned = AllFields
  /\ rotation = 0
  /\ pc = [r \in Runs |-> "idle"]
  /\ input = [r \in Runs |-> none]
  /\ left = [r \in Runs |-> <<>>]
  /\ got = [r \in Runs |-> {}]
  /\ since = [r \in Runs |-> 0]
  /\ exchange = [r \in Runs |-> "none"]
  /\ wire = [r \in Runs |-> "unsent"]
  /\ answer = [r \in Runs |-> NoAnswer]
  /\ effect = [r \in Runs |-> 0]
  /\ reply = [r \in Runs |-> "none"]

-----------------------------------------------------------------------------
(* A secret that is not in the store, like a field that is absent, does    *)
(* not resolve; a literal, an empty one too, is taken as it stands.        *)
Resolves(i, f) ==
  \/ i.creds[f] \in {"literal", "empty"} /\ NodeOf(i).transport.literals
  \/ i.creds[f] = "secret" /\ f \in provisioned

(* Mutant: the value is kept from the first time it was read.              *)
ValueCached(f) == 0

(* The value read is the one the store holds now: nothing is cached.       *)
ValueReadAt(f) == rotation

Begin(r) ==
  /\ pc[r] = "idle"
  /\ \A q \in Runs : pc[q] # "idle" => input[q] \in Concurrent
  /\ \E i \in IF \A q \in Runs : pc[q] = "idle" THEN Inputs ELSE Concurrent :
       /\ input' = [input EXCEPT ![r] = i]
       /\ left' = [left EXCEPT ![r] = NodeOf(i).fields]
  /\ pc' = [pc EXCEPT ![r] = "credentials"]
  /\ since' = [since EXCEPT ![r] = rotation]
  /\ UNCHANGED <<provisioned, rotation, got, exchange, wire, answer, effect, reply>>

(* Mutant: the instance is ready for the next run, the last one's state   *)
(* still in it.                                                            *)
FinishAndForget(r, verdict) ==
  /\ pc' = [pc EXCEPT ![r] = "idle"]
  /\ reply' = [reply EXCEPT ![r] = verdict]

Finish(r, verdict) ==
  /\ pc' = [pc EXCEPT ![r] = "done"]
  /\ reply' = [reply EXCEPT ![r] = verdict]

(* One field: a node that must have it stops without it, the node that can *)
(* do otherwise goes on.                                                   *)
ReadCredential(r) ==
  /\ pc[r] = "credentials"
  /\ left[r] # <<>>
  /\ LET f == Head(left[r])
         i == input[r]
     IN  \/ /\ Resolves(i, f)
            /\ got' = [got EXCEPT ![r] = @ \union {[field |-> f, at |-> ValueReadAt(f)]}]
            /\ left' = [left EXCEPT ![r] = Tail(@)]
            /\ UNCHANGED <<pc, reply>>
         \/ /\ ~Resolves(i, f)
            /\ NodeOf(i).auth = "either"
            /\ left' = [left EXCEPT ![r] = Tail(@)]
            /\ UNCHANGED <<got, pc, reply>>
         \/ /\ ~Resolves(i, f)
            /\ NodeOf(i).auth # "either"
            /\ Finish(r, "refused")
            /\ UNCHANGED <<got, left>>
  /\ UNCHANGED <<store, input, since, exchange, wire, answer, effect>>

-----------------------------------------------------------------------------
(* Whether the run asks for an access token: always, never, or when all    *)
(* three fields resolved and the refresh token is not empty.               *)
Exchanging(i, fields) ==
  \/ NodeOf(i).auth = "refresh"
  \/ /\ NodeOf(i).auth = "either"
     /\ ToSet(NodeOf(i).fields) \subseteq fields
     /\ i.creds[Head(NodeOf(i).fields)] # "empty"

SendExchange(r) ==
  /\ pc[r] = "credentials"
  /\ left[r] = <<>>
  /\ Exchanging(input[r], Reads(got[r]))
  /\ exchange' = [exchange EXCEPT ![r] = "sent"]
  /\ pc' = [pc EXCEPT ![r] = "exchanging"]
  /\ UNCHANGED <<store, input, left, got, since, wire, answer, effect, reply>>

UseStatic(r) ==
  /\ pc[r] = "credentials"
  /\ left[r] = <<>>
  /\ NodeOf(input[r]).auth = "static"
  /\ pc' = [pc EXCEPT ![r] = "validate"]
  /\ UNCHANGED <<store, input, left, got, since, exchange, wire, answer, effect, reply>>

(* Without the three fields the access token of the input must resolve to  *)
(* something that is not empty.                                            *)
FallBack(r) ==
  /\ pc[r] = "credentials"
  /\ left[r] = <<>>
  /\ NodeOf(input[r]).auth = "either"
  /\ ~Exchanging(input[r], Reads(got[r]))
  /\ LET f == "access_token"
     IN  \/ /\ Resolves(input[r], f)
            /\ input[r].creds[f] # "empty"
            /\ got' = [got EXCEPT ![r] = @ \union {[field |-> f, at |-> ValueReadAt(f)]}]
            /\ pc' = [pc EXCEPT ![r] = "validate"]
            /\ UNCHANGED reply
         \/ /\ ~Resolves(input[r], f) \/ input[r].creds[f] = "empty"
            /\ Finish(r, "refused")
            /\ UNCHANGED got
  /\ UNCHANGED <<store, input, left, since, exchange, wire, answer, effect>>

(* The token service answers, and its answer holds a token or does not.    *)
ExchangeAnswered(r) ==
  /\ pc[r] = "exchanging"
  /\ \E status \in Statuses, body \in Bodies :
       IF /\ status \in NodeOf(input[r]).transport.succeeds
          /\ Readable(NodeOf(input[r]).grant, body)
         THEN /\ exchange' = [exchange EXCEPT ![r] = "granted"]
              /\ pc' = [pc EXCEPT ![r] = "validate"]
              /\ UNCHANGED reply
         ELSE /\ Finish(r, "refused")
              /\ UNCHANGED exchange
  /\ UNCHANGED <<store, input, left, got, since, wire, answer, effect>>

(* Mutant: a grant that is not answered makes way for the access token.    *)
ExchangeTimesOutOnly(r) ==
  /\ pc[r] = "exchanging"
  /\ IF /\ NodeOf(input[r]).auth = "either"
        /\ Resolves(input[r], "access_token")
       THEN /\ got' = [got EXCEPT ![r] = @ \union {[field |-> "access_token", at |-> rotation]}]
            /\ pc' = [pc EXCEPT ![r] = "validate"]
            /\ UNCHANGED reply
       ELSE /\ Finish(r, "refused")
            /\ UNCHANGED got
  /\ UNCHANGED <<store, input, left, since, exchange, wire, answer, effect>>

ExchangeTimesOut(r) ==
  /\ pc[r] = "exchanging"
  /\ NodeOf(input[r]).transport.bounded
  /\ Finish(r, "refused")
  /\ UNCHANGED <<store, input, left, got, since, exchange, wire, answer, effect>>

-----------------------------------------------------------------------------
(* Building the call checks the input: the operation is one the handler    *)
(* serves, what it needs is given, and a credential it writes into the     *)
(* body is not empty.                                                      *)
Buildable(i) ==
  /\ CallOf(i).served
  /\ Satisfied(CallOf(i).needs, i.given)
  /\ \A f \in NodeOf(i).nonempty : i.creds[f] # "empty"

RefuseInput(r) ==
  /\ pc[r] = "validate"
  /\ ~Buildable(input[r])
  /\ Finish(r, "refused")
  /\ UNCHANGED <<store, input, left, got, since, exchange, wire, answer, effect>>

SendCall(r) ==
  /\ pc[r] = "validate"
  /\ Buildable(input[r])
  /\ wire' = [wire EXCEPT ![r] = "sent"]
  /\ pc' = [pc EXCEPT ![r] = "calling"]
  /\ UNCHANGED <<store, input, left, got, since, exchange, answer, effect, reply>>

(* The answer: a status outside the good range is an error whatever the    *)
(* body says; then the body must be one the tool can read.                 *)
Verdict(i, a) ==
  IF a.status \in NodeOf(i).transport.succeeds /\ Readable(CallOf(i).body, a.body)
    THEN "ok" ELSE "error"

(* Mutant: a server error is tried again.                                  *)
ReceiveAndRetry(r) ==
  /\ pc[r] = "calling"
  /\ wire[r] = "answered"
  /\ IF answer[r].status >= 500
       THEN /\ wire' = [wire EXCEPT ![r] = "sent"]
            /\ UNCHANGED <<pc, reply>>
       ELSE /\ Finish(r, Verdict(input[r], answer[r]))
            /\ UNCHANGED wire
  /\ UNCHANGED <<store, input, left, got, since, exchange, answer, effect>>

Receive(r) ==
  /\ pc[r] = "calling"
  /\ wire[r] = "answered"
  /\ Finish(r, Verdict(input[r], answer[r]))
  /\ UNCHANGED <<store, input, left, got, since, exchange, wire, answer, effect>>

(* Mutant: no deadline on the wait.                                        *)
GiveUpNever(r) == FALSE /\ UNCHANGED vars

(* An answer that comes too late is one that never came.                   *)
GiveUp(r) ==
  /\ pc[r] = "calling"
  /\ wire[r] = "sent"
  /\ NodeOf(input[r]).transport.bounded
  /\ Finish(r, "error")
  /\ UNCHANGED <<store, input, left, got, since, exchange, wire, answer, effect>>

-----------------------------------------------------------------------------
(* The service carries the call out and says so, or fails while answering. *)
(* Where it answers with an empty body, nothing can garble it.             *)
CarryOut(r) ==
  /\ wire[r] = "sent"
  /\ wire' = [wire EXCEPT ![r] = "answered"]
  /\ effect' = [effect EXCEPT ![r] = IF CallOf(input[r]).writes THEN @ + 1 ELSE @]
  /\ \E status \in Statuses \ 300..499, body \in Bodies :
       /\ status < 300 /\ CallOf(input[r]).empty => body = "empty"
       /\ answer' = [answer EXCEPT ![r] = [status |-> status, body |-> body]]
  /\ UNCHANGED <<store, pc, input, left, got, since, exchange, reply>>

(* It turns the call away.                                                 *)
TurnAway(r) ==
  /\ wire[r] = "sent"
  /\ wire' = [wire EXCEPT ![r] = "answered"]
  /\ \E status \in Statuses \ 200..299, body \in Bodies :
       answer' = [answer EXCEPT ![r] = [status |-> status, body |-> body]]
  /\ UNCHANGED <<store, pc, input, left, got, since, exchange, effect, reply>>

(* The operator adds or removes a secret.  Bound: only one that a run      *)
(* under way has yet to read.                                              *)
Provision ==
  /\ \E r \in Runs :
       /\ pc[r] = "credentials"
       /\ \E f \in Secrets(input[r]) \ Reads(got[r]) :
            provisioned' = IF f \in provisioned THEN provisioned \ {f}
                                                ELSE provisioned \union {f}
  /\ UNCHANGED <<rotation, pc, input, left, got, since, exchange, wire, answer, effect, reply>>

(* The operator changes the values.                                        *)
Rotate ==
  /\ rotation < MaxRotations
  /\ rotation' = rotation + 1
  /\ UNCHANGED <<provisioned, pc, input, left, got, since, exchange, wire, answer, effect, reply>>

-----------------------------------------------------------------------------
Step(r) ==
  \/ ReadCredential(r) \/ SendExchange(r) \/ UseStatic(r) \/ FallBack(r)
  \/ ExchangeAnswered(r) \/ ExchangeTimesOut(r)
  \/ RefuseInput(r) \/ SendCall(r)
  \/ Receive(r) \/ GiveUp(r)

Next ==
  \/ \E r \in Runs : Begin(r) \/ Step(r) \/ CarryOut(r) \/ TurnAway(r)
  \/ Provision
  \/ Rotate

Spec == Init /\ [][Next]_vars

(* The runner keeps a run going, and the host ends every wait after thirty *)
(* seconds.  Neither the services nor the operator owe anybody a step.     *)
Fairness == \A r \in Runs : WF_vars(Step(r))

FairSpec == Spec /\ Fairness

-----------------------------------------------------------------------------
(* What a run answers for: OneShotWrite, with a gate that always stands    *)
(* open and a read in the place of a rehearsal.                            *)
Phase(r) == CASE pc[r] = "idle" -> "idle"
              [] pc[r] = "done" -> "answered"
              [] OTHER          -> "running"

OnlyReads(r) == pc[r] # "idle" /\ ~CallOf(input[r]).writes

Changed == {r \in Runs : effect[r] = 1}

OneShot == INSTANCE OneShotWrite WITH
  gate      <- TRUE,
  phase     <- [r \in Runs |-> Phase(r)],
  rehearsal <- [r \in Runs |-> OnlyReads(r)],
  allowed   <- [r \in Runs |-> pc[r] # "idle"],
  effect    <- Changed,
  verdict   <- reply

(* A run changes the service at most once, never for a tool that reads,    *)
(* never once it has been refused, and "ok" means that the change was      *)
(* made: whatever the token service and the service answer, and however    *)
(* late (ops.rs of each crate; HttpHost's send and check).                 *)
KeepsOneShotPromise == OneShot!AbsSpec

-----------------------------------------------------------------------------
Documented(i) == i.tool \in DOMAIN NodeOf(i).docs
                 /\ i.op \in DOMAIN NodeOf(i).docs[i.tool].ops

GivesWhatIsAsked(i) ==
  /\ Documented(i)
  /\ Satisfied(NodeOf(i).docs[i.tool].ops[i.op], i.given)

HasNoEmptyCredential(i) == \A f \in DOMAIN i.creds : i.creds[f] # "empty"

(* The model of an agent, or the author of a flow, sees the metadata only  *)
(* (tool_meta.rs against tools/).  An input that gives what the metadata   *)
(* asks for is not turned away once the credentials are in hand, but for   *)
(* the one operation that is always refused; and nothing is changed for an *)
(* input the metadata calls incomplete.                                    *)
MetadataMatchesChecks ==
  \A r \in Runs :
    /\ /\ pc[r] = "validate"
       /\ GivesWhatIsAsked(input[r])
       /\ HasNoEmptyCredential(input[r])
       /\ <<input[r].tool, input[r].op>> # <<"gcal_events", "respond">>
       => Buildable(input[r])
    /\ r \in Changed /\ Documented(input[r]) => GivesWhatIsAsked(input[r])

(* Whatever is sent carries secrets as they stood at some moment of this   *)
(* very run: after a rotation no later run uses the old value (the comment *)
(* at ops.rs:26 of component-stripe says why nothing is cached).           *)
SecretsAreReadByTheRun ==
  \A r \in Runs :
    /\ \A g \in got[r] : g.at >= since[r]
    /\ wire[r] # "unsent" /\ NodeOf(input[r]).auth # "either"
         => ToSet(NodeOf(input[r]).fields) \subseteq Reads(got[r])

(* An OAuth grant that is refused or not answered ends the run: it is      *)
(* never papered over with the stored access token, which may belong to    *)
(* another account.  That token stands in only for a grant that could not  *)
(* be asked for (component-hubspot/src/ops.rs:48).                         *)
RefusedGrantEndsTheRun ==
  \A r \in Runs : wire[r] # "unsent" =>
    CASE NodeOf(input[r]).auth = "refresh" -> exchange[r] = "granted"
      [] NodeOf(input[r]).auth = "static"  -> exchange[r] = "none"
      [] NodeOf(input[r]).auth = "either"  ->
           \/ exchange[r] = "granted" /\ "access_token" \notin Reads(got[r])
           \/ exchange[r] = "none" /\ "access_token" \in Reads(got[r])

(* The service made the change and confirmed it the way it documents: a    *)
(* deletion, a transition, an association, an issue that is updated with   *)
(* an empty body, the others with what was changed.                        *)
Confirmed(r) ==
  /\ pc[r] = "calling" /\ pc'[r] = "done"
  /\ r \in Changed
  /\ wire[r] = "answered" /\ answer[r].status \in 200..299
  /\ answer[r].body = IF CallOf(input[r]).empty THEN "empty" ELSE "json"

UpdatesAnIssue(i) == <<i.tool, i.op>> = <<"jira_issues", "update">>

(* A change that was made and confirmed is not reported as an error, on    *)
(* which a flow would try again: every handler's reading of an answer      *)
(* takes the body the service confirms with, the update of a Jira issue    *)
(* excepted (IssueUpdateIsAnswered).                                       *)
ConfirmedChangeIsNotAnError ==
  [][\A r \in Runs :
       Confirmed(r) /\ ~ UpdatesAnIssue(input[r]) => reply'[r] = "ok"]_vars

(* What component-jira says of its own output (tool_meta.rs:115): an       *)
(* update is answered with the issue.  Jira confirms the PUT with 204 and  *)
(* nothing in it, normalize_record wants JSON, and the run reports an      *)
(* error for the issue it updated.                                         *)
IssueUpdateIsAnswered ==
  [][\A r \in Runs :
       Confirmed(r) /\ UpdatesAnIssue(input[r]) => reply'[r] = "ok"]_vars

(* Every run ends with an answer for the flow.                             *)
EveryRunAnswers == \A r \in Runs : pc[r] # "idle" ~> reply[r] # "none"

=============================================================================
