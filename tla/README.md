# Verification of components-public

TLA+ models of the Greentic WASM components in `src/crates`, model-checked with
TLC, with theorems checked by TLAPS. `PROJECT.json` lists, by line, which code
every definition stands for, and every run, theorem, hazard and finding.

## 1. The system

The repository is a workspace of WebAssembly components. A flow runner invokes
an operation of a component with a CBOR payload; the component resolves its
secrets from the host's secret store, sends HTTP requests through the host,
normalises the answer and returns it. Beside the components stand the designer's
extensions, which help an author to write a node or a trigger, and each
component's setup wizard. **No component keeps state between invocations, none
starts threads, and none retries.** Two invocations therefore meet only in the
systems they act on, and in the secret store and catalogs that operators change
meanwhile. That is where the hard behaviour is: reads that are stale by the time
of the write, answers that are lost although the write happened, several reads
put together into one verdict, stages that each see only what the one before
left, and texts that a later stage changes again.

| Component | State it acts on | Operations | What is hard | What makes it correct |
| --- | --- | --- | --- | --- |
| `component-k8s`, write side | a cluster, the `allow_write` secret | scale, restart, undo, delete, cordon, uncordon, patch, apply | read-modify-write without a precondition; controller and other writers in between; gate revoked during a run; late commits; u64 nonce | gate, one write per run, honest replies, dry runs write nothing, a restart rolls, an undo restores its predecessor |
| `component-k8s`, read side | a cluster | 15 reads and diagnoses | up to three GETs make one verdict while the cluster moves; quantities in twelve units, a threshold in integers | verdicts true of some moment of the run |
| `component-sorx-business` | a Sorx server's catalog | list, schema, dry run, explain, invoke | the catalog is read up to twice and used once more; fallback to metric queries; held approvals | only checked actions execute, the rehearsed action is the one executed, one-shot |
| twelve tool crates: `jira`, `trello`, `stripe`, `clickup`, `calendly`, `gcal`, `hubspot`, `notion`, `tavily`, `firecrawl`, `resend`, `twilio` | the named services, the secret store | 72 tools with 209 operations | credentials read one by one while they rotate; a token exchange before the call; answers lost after the effect; metadata written beside the handler's own checks | one-shot; every secret read by the run; a refused grant ends the run; metadata and checks agree |
| `component-chat2data-*` (llm, validator, translator, executor, renderer) | a database or GitHub | a pipeline from question to intent, validated intent, SQL, rows, card | conditions that lose an argument; limits and page sizes of three stages; columns dropped by leniency; truncation told or not | the query that runs means the intent, the limit holds, what is missing is admitted |
| `component-sql` | a database behind an HTTP gateway, a language model | ask, query, schema | a statement cut out of a model's text; a guard on it; row limits | the answer is to the statement the model wrote |
| `component-http`, `http-core`, `http-extension` | any HTTP server | request, stream; author, import, suggest, validate | what the wizard and the designer write, against what the node reads | an accepted node authenticates, or the flow is told |
| `schedule-`, `webhook-`, `email-trigger-extension` | a draft of a trigger; a mailbox | suggest, describe, import, validate | a suggestion made by one crate and fired by another; presets over what was written before | suggestions add up; a mail is dealt with once |
| setup wizards of all components | a configuration | `apply_answers` in four modes | answers of an earlier round kept, replaced or forgotten | the answers accepted are in force |
| `guardrail-*` | none | judge and mask a text | five guards in a chain, each changing the text for the next | a masked text has none of what was to be masked |
| `msg2events`, `pack2flow`, `events2msg` | the runner's messages and events | route, jump, convert | defaults and fallbacks; jumps whose defaults conflict with the message | a reply returns to its sender |
| `component-transform` | none | select, sort, flatten, unflatten, patch | order and stability over several keys; inverse operations | agreement with reference definitions |
| `jev-`, `llm-generic-`, `platform-extension` | none | design-time descriptors | nothing dynamic | - |
| `gtest-fixture-exporter`, `ci`, `scripts` | files | development tools | nothing dynamic | - |

*How they interact.* A message comes in through guardrails and `msg2events`,
runs along a flow (whose jumps are `pack2flow`), in which tool nodes, the k8s and
sorx nodes or the question-answering nodes are invoked, and goes out through
`events2msg` and guardrails. The runner carries data between the nodes and is
not in the repository: where a model needs it, it is marked external. Nodes
share the secret store, which the operator changes at any time, and nothing else.

## 2. The modules

| Module | What it is |
| --- | --- |
| `OneShotWrite` | the abstract promise of a node that changes a remote system |
| `K8sRemediate`, `K8sRemediateProofs` | the write side of `component-k8s` with the cluster around it; theorems |
| `K8sDiagnose`, `K8sDiagnoseProofs` | the read side of `component-k8s`; theorems |
| `SorxAction`, `SorxActionProofs` | `component-sorx-business` with the Sorx server around it; theorems |
| `ToolCall`, `ToolCallProofs` | the handler of the twelve tool crates, with store and services around it; theorems |
| `ToolTable`, `JiraTools`, `TrelloTools`, `StripeTools`, `ClickupTools`, `HubspotTools`, `CalendarTools`, `ServiceTools` | the vocabulary of the tables, and the tables of the crates (`CalendarTools`: calendly, gcal; `ServiceTools`: tavily, firecrawl, resend, twilio, notion) |
| `Validator`, `Translator`, `Chat2Data` | two stages of chat2data as operators, and the pipeline with llm, executor and renderer |
| `SqlAsk` | `component-sql` |
| `Ask`, `AskProofs` | composes `Chat2Data` and `SqlAsk`: a flow that answers questions takes either way; theorems |
| `HttpNode`, `TimedTriggers`, `WebhookTrigger`, `NodeSetup` | the HTTP node with the designer's tools for it; the schedule and email triggers; the webhook trigger; the setup wizards |
| `Authoring`, `AuthoringProofs` | composes them: a sitting at the designer or at the wizard, then the invocation; theorems |
| `Guardrails`, `Bridge`, `Transform` | the guards; the bridges `msg2events`, `pack2flow` and `events2msg`; the conversions |
| `Conversation`, `ConversationProofs` | composes guards and bridges: a message's way in, through jumps, and out; theorems |
| `MessageFlow` | a flow: a conversation, or conversions of documents |
| `PositionLemmas` | lemmas the proofs share: the least and the greatest of a set of positions |
| `MCK8sRemediate`, `MCK8sDiagnose`, `MCSorxAction`, `MCToolCall`, `MCAsk`, `MCAuthoring`, `MCMessageFlow` | instances for TLC |

In every module an operation of the code is an action of its name, or an operator
of the function's name where the function is pure; what is not under `src/` (API
servers, services, models, operators at their desks) are actions of their own
marked external. Definitions under "A defect" are variants of the code's
definitions that a property has to tell apart; no specification uses them.

### OneShotWrite

A run of a node changes the remote system at most once, only if the operator's
gate stood open at some moment of the run, never if it was asked to rehearse,
and never after it answered `ok` or `refused`. An `ok` says that the change was
made (or rehearsed); an `error` says nothing: the change may have been made or
may still be made by a request on its way. `gate` is `TRUE` throughout for the
components that have none. `K8sRemediate`, `SorxAction` and `ToolCall` implement
it, by an `INSTANCE OneShotWrite WITH ...` in each, and TLAPS checks all three.

### K8sRemediate

*State.* The secret `allowWrite`; of the cluster, each Deployment's pod
template, replicas and revision annotation, the ReplicaSets with owner, revision
and template, cordoned nodes and pods; of each run, where it is (`pc`), its
input, what its GET returned (`seen`), its reply, and its write request with the
state of the answer (`req`, `wire`). History variables (granted, applied,
contended, found, landed, deployed) are read by no guard.

*Steps of a run*, in the order of `ops.rs`: `Invoke`, `ResolveInputs` (required
fields, token reference, cluster name), `ReadGate` and `ReadGateFallback` (the
gate is read from the secret store in one scope and then the other; absent or
unreadable is closed), `RejectArgument`, `SendDirect` for the operations that are
one request, `SendGet`, `RestartReads`, `UndoReadsRevision`, `UndoReadsHistory`,
`UndoFindsNothing` for the two that read first, `ReadFails`, `Receive`, `GiveUp`.
A request in flight survives its run: the server may commit it after `GiveUp`.

*Others.* `Commit`, `Rehearse` and `Reject` are the API server; `Reconcile`,
`Annotate` and `Prune` the Deployment controller (a ReplicaSet per template, its
revision, the annotation that follows later, the history limit); `Edit` another
writer; `MoveGate` the operator. All are external: modelled from how the code
uses them, with the documented semantics of merge, strategic merge and JSON
patches and of `dryRun=All`.

*Abstraction.* Names and manifests are elements of small sets. A pod template is
its main image, whether it has a second container (which tells a merge of lists
from their replacement), and the restart nonce modulo `NonceMod` for 2^64. Error
texts are dropped. A ReplicaSet's revision can always be read (its controller
writes it); one that cannot defaults as in the code on the Deployment only. The
pod-template-hash label of a ReplicaSet's template is left out.

### K8sDiagnose

*State.* The cluster, the operation with its input, the answers received so far
(`got`), where the run is, the reply, and as history the states the cluster had
during the run (`past`).

*Steps.* `Begin` checks the input; then one GET of `Gets[op]` after the other,
each answered from the cluster of that moment (`Receive`) or not at all
(`ReceiveNothing`: refused, garbled or late); the last makes the report.
`ClusterMoves` is everybody else and may come between any two. The reports
(`classify_pod`, `summarize_cluster`, `pressure_report`, `rollout_status`, ...)
are operators over what was got, of the same names as in `tools/diagnose.rs` and
`tools/observe.rs`.

*Abstraction.* Lists are sets except where the order decides (the first failing
container, the top consumers); a quantity is a number and a suffix; messages are
left out. `WellFormed` states what an API server can answer: counts are numbers,
the available replicas are among the ready ones, a container waits for other
reasons than it ends of. Quantities stay below 2^64 / 85, above which the
product in the threshold wraps. A 2xx with an empty body is left out.

### SorxAction

*State.* The catalog (tools and routes) that Sorx serves; of each run `pc`,
input, reply, and the invocation (`req`: method and path, or metric; `wire`: its
answer). History: the endpoint a dry run showed, whether the catalog was
published anew since the first read, what Sorx carried out.

*Steps of a run*: `Begin`, `RejectInput` (every local check, before any
request), `Start`, `ReadTools` (list, schema, dry run, explain, and the first
half of an invocation with `dry_run_first`), `ReadRoutes` (the route, a template
or missing path refused, the metric fallback), `Receive`, `GiveUp`, `ReadFails`.
Every request may fail before it is sent because its token is read anew. A body
that is no catalog lists nothing, so such an answer to the routes request also
reaches the metric fallback. A tool without an endpoint id is shown by the id that
was asked for (`Target`). An invocation that Sorx holds for approval is a reply of
its own, `held` (`ok` with `approval_required` in the code); to `OneShotWrite` it
promises no more than an error, as the action may be carried out later or never. *Others*: `Execute`, `Decline` (Sorx), `Publish`
(the operator). An unsupported operation name and an undecodable payload are
answered before all of this and are left out.

### ToolCall and its tables

The twelve crates share one handler (each has its own copy of `transport.rs`,
all alike): read the credential fields one secret at a time, exchange them for an
access token (`gcal` on every call, `hubspot` if all three OAuth options
resolve), build the call, which checks the input, send it, wait at most thirty
seconds, classify the status and then the body. A crate is a record
`[auth, grant, fields, nonempty, transport, tools, docs, schema]`; `tools` has for
every operation its method, its effect, the fields its handler demands and what
it makes of the body; `docs` and `schema` say what `tool_meta.rs` and the
descriptor tell a caller, which is a second table written by hand.

*State.* The secret store and how often its values were rotated; of each run the
fields still to be read, those read with the rotation of each, the exchange, the
call on its way, the service's answer, how often the service made the change, the
reply. *Others*: the operator provisions, removes and rotates secrets; the
service carries out, turns away, garbles or never answers, also after the run
has given up.

*Abstraction.* Texts, paths and bodies built from fields are left out; a body is
of the required shape or not. Crawls started by firecrawl count as reads, as they
are declared. `component-http` answers `ok` for every status and is not a row
here but a part of `Authoring`. `base64_decode` of stripe is left out.

### Ask: Chat2Data and SqlAsk

`Chat2Data` carries one question through llm (a model's text becomes an intent, a
message or an error), validator (`Validator`: whitelist, identifiers, strict or
lenient), translator (`Translator`: conditions, placeholders, parameters, limit
and offset, prepared call), executor (GitHub, or the runtime that executes the
prepared call; row counts and truncation) and renderer (what is said of the rows
and of those missing). Values of another JSON shape than the code expects are
`Other`: a `where`, `having` or `columns` that is no object or no list, an item of a
list that is no string; what each stage makes of them is modelled. `SqlAsk` is the `sql` node: schema GET, model,
fences, read-only guard, clamped limit, query. A condition is evaluated as the
set of rows it selects, so that a lost argument or a swapped parameter shows as
a different set. `Ask` composes the two.

*Abstraction.* Names, values and messages are members of small sets; a model's
text is a sequence of pieces (prose, fence, statement). Prompts, the layout of
cards and `load_whitelist`, `translate_batch` are left out. A `limit` is cut to a
`usize` of 32 bits as the code does, so a large one may come to nothing, and a
table may allow no rows at all.

### Authoring

In the designer an author makes one node: the extension's tools write into the
draft in any order, a field may be changed by hand, the validator judges, and
what is published runs against whatever the store holds then. In the wizard the
operator goes through the setup of one of 25 components, twice, in any mode, and
the component is invoked. The operators of `HttpNode`, `TimedTriggers`,
`WebhookTrigger` and `NodeSetup` are the tools, the node and the wizards
(`apply_answers`). Numbers are scaled: an hour has
`Minutes`, a day `Hours`, and so on; a cron expression is the set of times at
which the `cron` crate fires it.

### Conversation and MessageFlow

A message passes the guards of the way in one by one (`Guard`), is routed by
`msg2events` (`RouteMessage`, or `RefuseMessage` where the flow has it validated
first), jumps between flows (`Jump`, which is `pack2flow`), is answered
(`RouteEvent`, `RefuseEvent`, which are `events2msg`) and passes the guards of the
way out until `Deliver`. `Conversation` is that; `MessageFlow` extends it with
the conversions of `component-transform`. A flow does one or the other: a step of
`MessageFlow` is a step of `Conversation` with the documents unchanged, or a
conversion with the conversation unchanged. So what is proved of `Conversation`
holds of `MessageFlow`, whose own modules the prover cannot read (`Transform` is
recursive).

A text is a sequence of pieces (`Pieces`), of the kinds the guards tell apart: white
space, letters, a profane word (also capitalised, as it is found without regard to
case and replaced with regard to it), a mark, a full stop or hyphen, a parenthesis,
four or seven digits, an address, a key known by its prefix or by prefix and length,
..., and what the masks put in their place. Pieces without white space between them
are one word of `split_whitespace`, so that a key may be glued to a letter. What is
cut off a token depends on the guard: the full stop stays on a token of
`guardrail-secrets` (so that a key of a fixed length before one is not found), and
separates the digits of a number for `guardrail-pii`. A plus, an underscore and a
PEM block are left out, and two addresses never run together.
`Guardrails` says what each of the five guards finds and what it leaves behind;
`Bridge` what the three bridges make of a message, with every field missing, of
the wrong type or null; `Transform` the conversions over small documents, whose keys
are lists of segments (any digits are an index, leading zeros or not).

## 3. The runs

| Run | Bounds | Question |
| --- | --- | --- |
| `k8s_gate` | 2 runs, one target of each kind, 19 inputs, gate true, false or absent | types, gate, replies, dry runs, one-shot promise, termination |
| `k8s_rollout` | 2 runs of restart, undo or patch, 2 Deployments, 3 revisions, 1 edit, nonce modulo 3 | does a restart roll, does an undo restore its predecessor |
| `k8s_reads` | one run of each of the 15 reads, a cluster that varies in a pod, a node with what is measured of it, or a workload, 2 moves during the run | is the cause named a cause, is the crash report of one pod, is the threshold where it is said to be, was a rollout called complete ever complete, termination |
| `sorx_action` | 2 runs, 19 inputs, 3 catalogs | checks, agreement of dry run and invocation, one-shot promise, termination |
| `tool_call` | one run of each of the 209 operations with every subset of the fields handler or metadata mention, and of one operation per crate with every way to give each credential; 2 runs for the inputs in `Concurrent`; 1 rotation | agreement of metadata and handler, origin of secrets, refused grants, one-shot promise, confirmed changes, termination |
| `ask` | one question; 458 intents, 8 row counts, 688 texts of a model, 1 repeated turn | meaning of the query, limits, truncation told, strict projection, the statement that is run, termination |
| `authoring` | 3 steps of tools and 2 edits per draft, 2 rounds of setup answers, each of the 25 wizards | suggestions against their own validators, mails, authentication of accepted nodes, answers in force |
| `flow` | texts of 3 pieces of sixteen kinds, of 4 of seven, twelve longer ones, 3 jumps, 2 conversions | what masking leaves, where a reply goes, conversions against reference definitions |
| `k8s_restart_rolls` | 2 restarts | violated: finding 1 |
| `k8s_undo_restores` | restart and undo | violated: finding 2 |
| `schedule_days` | the phrases of `authoring`, schedules only | violated: finding 3 |
| `issue_update` | the updates of an issue | violated: finding 4 |

### Why these bounds suffice for the questions

*Concurrent runs.* Runs meet only in shared state, so two of them show every
pairwise race, and a third is no different to either from the `Edit`, `Publish`,
`MoveGate` and rotation steps, which are there besides. Three revisions give an
undo a predecessor, a successor and a re-used revision; the second Deployment
gives the ReplicaSet list something that belongs to another owner. A nonce modulo
3 wraps within two restarts. The three Sorx catalogs are one to review, one with
the paths exchanged and a tool without an endpoint, and one with a template, a missing path and ids that name
other endpoints. `k8s_gate` uses one initial revision and no edits because its
properties do not read templates. The twelve crates run the same handler, so two
runs at once are tried on one crate with a static credential (`stripe`, from a
secret) and one that exchanges (`hubspot`), and every row of the tables by a
single run beside the operator. How a credential is obtained depends on the crate
alone, so one operation of each tries the ways to give it.
One rotation suffices to make a value read stale.

*Reads.* A report is made of at most three GETs, so two moves show every way in
which they can disagree. Clusters vary in one part at a time because no report
relates a pod to a workload. Quantities lie just below, on and just above 85 % in
every unit, with `Kilo` 10 and `Kibi` 16 for the powers of 1000 and 1024 (the
theorem `ThresholdIsExact` holds for the real ones).

*Sizes.* `UsizeSize` (1000) stands for 2^32, `Rows32` (2000) for the width of
`max_results`; the row counts are those around the three page sizes and the card
and list limits (0, 1, 2, 11, 21, 99, 100, 101), so that every comparison sees
both sides and the boundary; offsets are 0, within, and beyond all rows. Conditions come alone and in pairs, which is enough
for numbering and for the placing of `AND`: a third repeats the step from the
first to the second. In `authoring` an hour has 4 minutes, a day 6 hours, a month
4 days; two rounds of answers show what the second does to the first. In `flow`
three pieces put a piece before and after each boundary a guard may move, and two
of the wrong kind next to each other; four are tried of the seven kinds that can
grow together. The longer texts (`LongTexts`) are those on which a mask meets what
it, or another, passed over; `MaskedMeansClean` proves that no other length has a
surprise left. Three jumps pass the default `max_redirects`, which the runtime
enforces.

*Deadlock* is checked in `k8s_gate` (the operator can always move the gate),
`sorx_action` (and always publish) and `flow`. The other runs turn it off: when
every run has answered, and the controller or the operator has nothing left to do
within the bounds, the system really stops.

### Fairness

`EveryRunAnswers` (`K8sRemediate`, `SorxAction`, `ToolCall`) is checked under weak
fairness of each run's own steps and nothing else: the host runs the component,
and its HTTP client ends every request after a timeout (`TIMEOUT_MS` of each
`transport.rs`; `timeout_ms` of the Sorx configuration). `EveryReadIsAnswered` is
checked under weak fairness of `Begin` and of `Receive \/ ReceiveNothing`, for the
same reason; the cluster may go on moving for ever. No fairness of servers,
controllers or operators is assumed, so these say that the timeout is the way
out. `EveryQuestionIsAnswered` is checked under weak fairness of the nodes and of
the requests they send. Nothing in the repository bounds the runtime that executes a
prepared query, so nothing is assumed of it, and the property allows a question
to stay there: it says that no node loses a question.

### What the properties say

*Writes* (`K8sRemediate`, `SorxAction`, `ToolCall`). `NoCallUnlessGranted`: no
request without an open gate during the run. `ReplyTellsEffect`: what `ok`,
`refused` and `error` say of the cluster. `KeepsOneShotPromise`: the refinement of
`OneShotWrite`. `ExecutesOnlyChecked`, `ExecutesTheAction`, `RehearsalForetells`:
what Sorx carries out passed the checks, is the action named, and, unless the
catalog was published in between, the one the dry run showed.
`MetadataMatchesChecks`: a caller who gives what `tool_meta.rs` asks for is not
turned away once the credentials are in hand (but for `respond` of `gcal_events`,
which always is), and nothing is changed for an input the metadata calls
incomplete.
`SecretsAreReadByTheRun`: no credential of an earlier run is used.
`RefusedGrantEndsTheRun`: no call follows a refused exchange, and in
`hubspot` a call goes out on either the exchange or the static token, never both.
`ConfirmedChangeIsNotAnError`: a change that the service made and confirmed with the
body its API documents, or with none where the API sends none, is not turned into an
error by the parser. The one exception is named in the property: the update of a
Jira issue (finding 4).

*Reads.* `CauseIsNamed`: the reason given for an unhealthy pod is one that pod
had. `CrashReportIsTrue`: logs, events and pod of a crash report belong to the pod
asked for, at moments of the run. `PressureIsMeasured`: a node is reported for
more than 85 % exactly if it is above it, units and all.
`RolledOutMeansRolledOut`: the three verdicts, each true of what the controller had
counted at one moment of the run. "complete": as many pods as desired are available,
all beyond that number are old, and the new ones are ready but for those that a
surplus old one still stands in for (the code asks for equalities of totals, which
a surge can meet; nothing is claimed of a workload scaled to nothing). "stuck": a
Deployment with work left whose controller says it is not getting on, by a
`Progressing` condition that is not `True`, which is also `Unknown` (paused), or by
its deadline. "progressing": work left, and no such word. An absent condition is
never stuck.

*Questions.* `QueryThatRunsMeansTheIntent`: if the database accepts the statement,
the rows it selects are those of the intent's `where`, which is then an object (one
of another shape is refused), and of its `having` when that is an object. A `having`
of another shape is skipped by every node and nothing is claimed of it.
`RowsStayWithinTheLimit`: no more rows than allowed. `OmissionsAreMarked`: a list or
table of GitHub's that leaves rows out carries the notice "Showing so many of",
whoever cut them; the number in it is the rows at hand and never more than there are;
"No results found" is said only when there are none, when limit, offset or the
table's `max_rows` leave none, or when GitHub answers JSON that holds no rows, and
never of an answer that failed. `StrictProjectionIsTheOneAsked`: in strict mode the
columns selected are the strings among those asked for, and all of them only if
there is no such string. `AnswerIsToTheStatementWritten`: what the gateway runs is
one read within the limit, for every text; and it is the statement the model wrote,
all of it, but for texts whose opening fence line carries SQL (`FenceLineIsBare`),
where the code runs what is left below that line.

*Authoring.* `SuggestionsAddUp`: a complete draft made by the tools alone, in any
order, passes its own crate's validator, and a suggested schedule is read back as it
was announced or as the bare expression. `MailIsDealtWithOnce`: an accepted
trigger that lists unread mail hands no mail to the flow twice.
`AcceptedNodeAuthenticates`: a published HTTP node sends its request with the
credential it names, or says that it could not. `AnswersAreInForce`: after two rounds a
component has the configuration its kind of wizard promises (the last setup's
answers, each question's last answer, or the first answers), and can load it.

*Messages.* `MaskedTextIsClean`: in the order profanity, secrets, personal data,
each mask is idempotent on what it left and none undoes another; no address is
left, and nothing, anywhere, of a secret or a profane word that stood alone, in the
case it had there. What stands alone is each guard's own matter: a key with a full
stop is not alone for `guardrail-secrets`, and one of a fixed length goes out then.
Where two profane words or two keys are in one word, where the masks are in another
order, or where a list has an entry that is no word, the masks do less
(`WithinReach`).
`ReplyReturnsToItsSender`: channel, provider and conversation survive the
way in and out. `TransformsAgree`: conversions agree with their definitions by
quantifiers (a sort is an ordered permutation, stable within equal keys;
unflatten undoes flatten where no key is a number, and flatten undoes unflatten with
the indices written anew; a patch made of a difference turns one document into
the other).

Each has a mutant in `PROJECT.json`: a plausible defect of one definition, under
which TLC finds the property violated.

### Findings

1. `RestartAlwaysRolls`. The doc of `rollout_restart` says the value always
   changes. The nonce is read by a GET and written by a PATCH that carries no
   resource version: two restarts that read the same nonce write the same value
   and the second changes nothing. (`UncontendedRestartRolls` is what does hold.)
2. `UndoRestoresTemplate`. The doc of `rollout_undo` says the pod template is
   patched back to the previous revision's. The strategic merge keeps what the
   old template does not mention: an undo of a restart leaves the nonce, changes
   nothing and answers `rolled_back`. (`UndoRestoresPredecessor` holds for images.)
3. `SuggestedDaysAreTheDaysNamed`. `suggest_cron` numbers the days of the week
   from Sunday 0 and says "Monday to Friday" of `1-5`; the `cron` crate, with which
   the same extension validates and lists the next times, counts from Sunday 1:
   the schedule fires Sunday to Thursday, and "every sunday" is refused.
4. `IssueUpdateIsAnswered`. The metadata of `jira_issues` promises the issue for an
   update. The PUT does not ask for the issue back, Jira confirms it with 204 and no
   body, and the row's parser wants JSON: the issue was updated and the flow is told
   of an error, on which it would try again.

### Differences met on the way, without a run

Met while modelling, in the models as the code has them:

- *Tools.* `trello_boards` and `gcal_calendars` are declared `side_effects: read`
  (trello `tool_meta.rs:232`, gcal `tool_meta.rs:181`) and can create. The
  descriptors say that every operation takes a `token` (jira `describe.rs:49` and
  eight others) where the handlers read other names. `respond` of `gcal_events` is
  listed (`tool_meta.rs:79`) and always refused (`events.rs:94-104`). Firecrawl's
  `success` flag is not read. Six of Notion's eight operations accept any JSON.
- *SQL.* A comment of `component-sql` (`ops.rs:58-59`) says that a `max_results` out
  of range is clamped. One above `u32::MAX` counts as absent and gets the default of
  100 rows instead of 1000 (the last clause of `AnswerIsToTheStatementWritten`).
  The line of an opening fence is dropped with what it carries: of a statement
  that begins there, the rest is run if it is a statement of its own
  (`protocol.rs:97-103`).
- *chat2data.* `validated_intent` is returned beside `valid: false` although its
  comment says "if valid" (validator 265-267). In lenient mode, dropping the last
  column makes the translator write `*`. A malformed `$in` leaves a dangling
  `AND`. `$eq: null` compares with NULL where a plain null is `IS NULL`.
  `items_rendered` of a card is 1 for no rows. The 1000 rows of an MCP tool do not
  reach the prepared call. A `having` that is no object is dropped without a word
  (translator 937-938), `columns` that is no list means all columns, and items of it
  that are no strings are passed over in strict mode too (validator 752-755). The
  notice of a cut result counts the rows at hand, "Showing 100 of 100" (renderer
  655-663). An answer of GitHub's that is JSON but holds no rows is shown as "No
  results found" (executor 907).
- *Kubernetes.* The header of `diagnose.rs` (22-31) calls a rollout stuck when the
  `Progressing` condition is absent, and only if too few pods are ready; the code
  (562-671) does neither. A comment says that a patch without a type is a strategic
  merge (`ops.rs:322-326`); the handler's match names only "strategic" and "json"
  (`remediate.rs:411-415`), so it goes out as a JSON merge patch and replaces lists. A comment near `ops.rs:71` says that remediate is not
  compiled in.
- *Conversions.* A test of `flatten.rs` (404-405) promises the round trip for any
  value whose keys hold no dot. Any segment of digits is an index: `{"1": 1}` comes
  back as `[null, 1]`. (An object whose only key is empty, with a leaf, also comes back
  as the leaf.) `TransformsAgree` exempts both by name (`Proper`, `NamesItsLeaf`).
- *HTTP authoring.* Generated nodes carry `method`, `path` and `body_template`,
  where `component-http` reads `url` or `endpoint` and `body`. Authorization
  schemes other than Bearer and Basic are dropped without a word. The timeout is
  15000 in the rules and 30000 in the code. The wizard does not demand a token
  for `bearer`, the designer's validator does. `default_headers` are asked for as a
  text and accepted as an object.
- *Triggers.* A phrase that names several days suggests the first. `*/90` is
  described as every 90 minutes and fires hourly. `infer_auth_from_curl` can suggest
  a method its validator refuses.
- *Wizards.* `pack2flow` and `sorx-business` keep their first answers for ever.
- *Guards.* `mask_pem_block` covers the header line only, though its comment
  (`guardrail-secrets/src/lib.rs:114-116`) says to the trailer. The profanity mask
  also covers matches inside other words, though its doc says per token. A key of a fixed
  length before a full stop, a hyphen or an underscore is not masked
  (`guardrail-secrets/src/lib.rs:83-84`, 109), and of `Damn goddamn` the second stays
  (profanity `lib.rs:105-113`). The number mask takes the space before it; adjacent addresses are garbled; a topic guard
  after a mask may miss its keyword.
- *Bridges.* A `source_provider` of the wrong type hides `provider`. `msg2events`
  accepts a text that is no string and then loses it. The wizard's default event
  type switches detection off. `null` fields of an event win over a jump's defaults.

## 4. The proofs

Seven modules of theorems, each about one component or composition, for every
value of its constants that keeps the named assumptions, and the lemmas they
share (`PositionLemmas`). No theorem assumes fairness.

### K8sRemediateProofs

From `ConstantsAssumption` alone: any number of runs, workloads, revisions and
images, any modulus of the nonce above one.

| Theorem | States |
| --- | --- |
| `TypeCorrect` | `TypeOK` |
| `GateHolds` | no HTTP request without an open gate during the run |
| `RepliesHold` | `ok`, `refused` and `error` mean what `ReplyTellsEffect` says |
| `DryRunHolds` | a rehearsing request never comes with a change of the cluster |
| `UncontendedRestart` | an uncontended committed restart changes the template |
| `RollbackRestoresPredecessor` | `UndoRestoresPredecessor`: an undo that was committed restores the image (not the whole template: finding 2) of a revision the Deployment had just before the one it saw |
| `ImplementsOneShot` | `Spec => OneShot!AbsSpec` |

*Argument.* `ReplyTellsEffect` is not inductive: it speaks of replies only, and
says nothing of a request under way. The inductive invariant `IInv` adds for
every run (`RunInv`): past the gate the grant was recorded, and a request is sent
only past the gate (`GateSeen`); a commit only ever happens to a request that is
in flight, which it then no longer is, and the request carries `dryRun` exactly
if the input asked for it (`OneWrite`); and a reply that is not an error was made
from an answer of its kind (`ReplyFollows`). For restarts, `RestartInv` ties the
nonce in the PATCH to the template seen by the GET as long as the run is not
contended. For an undo the property needs the history of revisions, which the
cluster forgets (`Prune`, or a revision number given to another template):
`UInv` adds that every ReplicaSet there is was deployed, and `UndoInv` that the
template in the PATCH was deployed for this Deployment as the revision before the one the run saw, that the
PATCH is a strategic merge, and that what landed has its image. Each is preserved action by action, with frame lemmas for the actions
that touch nothing it reads. The refinement is proved step by step: `Commit` is
the abstract `Effect`, `MoveGate` itself, `Receive`, `GiveUp` and the refusals are
`Answer`, the rest stutters. The proofs use one lemma of arithmetic,
`NonceStaysInRange`: an increment modulo `NonceMod > 1` stays in range.

### SorxActionProofs

For every number of runs, all inputs and all catalogs that keep
`CatalogAssumption`: catalogs and inputs are typed, and no two routes of one
catalog have the same method and path. The second part is what
`TheActionIsExecuted` rests on: the code resolves an id to a route but sends only
that route's method and path, and the server resolves them back.

| Theorem | States |
| --- | --- |
| `SorxTypeCorrect` | `TypeOK`: also that no template path is ever requested |
| `OnlyCheckedIsExecuted` | `ExecutesOnlyChecked` |
| `TheActionIsExecuted` | `ExecutesTheAction` |
| `RehearsalIsTrue` | `RehearsalForetells` |
| `SorxImplementsOneShot` | `Spec => OneShot!AbsSpec` |

*Argument.* None of these properties is inductive: each speaks of what was
executed, and the request that led to it was decided several steps earlier. The
inductive invariant `SInv` says for every run where it can be with what on the
wire (`PlaceInv`); that past the checks the input has passed them, and past the
dry run a tool was found (`CheckedInv`); that an `ok` answers something carried
out and a `refused` nothing sent (`AnswerInv`); and, until the next `Publish`,
that the rehearsed endpoint is one the id has among the tools, the request is the
metric of the id or a route the id has, and what was executed likewise
(`CatalogInv`). `Publish` makes every run stale and so keeps it trivially; a run
is fresh again when it reads the catalog anew, and then it has sent nothing yet.
`Iterator::find` is `SelectInSeq` of the community modules, whose result is the
smallest matching index: `MinIsLeast` (`PositionLemmas`) takes that from the
library's well-foundedness of `<` on the naturals, and `FindToolType` and `FindRouteType`
say that what is found is an element that matches.

### ToolCallProofs

For every number of runs and every table of crates that keeps `NodesAssumption`
(records of the fields listed in section 2, an exchange only where the crate has
one), any statuses and rotations (`StatusesAssumption`, `NoneAssumption`,
`ConcurrentAssumption`, `RotationsAssumption`). The concrete tables are checked
against `NodesAssumption` by `tool_call`, which evaluates it. The last two theorems
are about the tables themselves: their hypothesis `InputsAreOfTheCrates` says that
every input names one of the twelve crates, a tool of it and an operation of that,
as the inputs of `tool_call` do.

| Theorem | States |
| --- | --- |
| `TInvHolds` | the inductive invariant |
| `ToolCallTypeCorrect` | `TypeOK` |
| `SecretsReadByTheRun` | every value in a request was read since the run began |
| `GrantEndsTheRun` | no call follows an exchange that was refused |
| `ToolCallImplementsOneShot` | `Spec => OneShot!AbsSpec` |
| `MetadataIsTrue` | `MetadataMatchesChecks` |
| `ConfirmedChangeIsSaid` | `ConfirmedChangeIsNotAnError` (an action property) |

*Argument.* `TInv` says for every run how its place restricts the wire
(`PlaceInv`: nothing is sent before the input was checked, an `ok` has an answer
of success behind it); that a change happened exactly with the success of a call
that makes one (`EffectInv`); that what was read is no older than the run, and
that the fields read and those still to be read make up the crate's list
(`ReadInv`, over the sequence of fields); and which credential a call goes out
with for each of the three kinds of crate (`GrantInv`), where "either" needs the
disjunction of an exchange granted and a static token read.

The tables are compared with their metadata word by word: a row is made of the words
of `ToolTable` (`Get`, `Change`, `Bodiless`, `ParsedBy`, ...), a lemma per word says
what it insists on, whether it is served and whether it understands the confirmation
it gets (`PlainCalls`, `JsonCalls`, `BodilessCalls`, `SomeOfChange`, ...), and a
lemma per crate puts its tools together (`JiraIsConsistent` to
`TwilioIsConsistent`). What the run adds is that nothing is sent that was not built
(`SentIsBuilt`), so that a change implies a complete input, and that an answer which
ends a run is judged by the policy of its row. The three exceptions are in the proof as
they are in the code: the update of a Jira issue, which the property names; `gcal_events.respond` is documented and refused (`Refused`),
and the metadata of `stripe_refunds.list` asks for more than the handler does, which
is harmless as that operation only reads (`Tells`).

### K8sDiagnoseProofs

For every set of operations, inputs and clusters that keeps `CasesAssumption`
(known operations, clusters an API server can answer from) and `UnitsAssumption`
(the two bases of the units are naturals).

| Theorem | States |
| --- | --- |
| `AnswersAreOfTheRun` | the inductive invariant |
| `RolloutVerdictIsTrue` | `RolledOutMeansRolledOut` |
| `BlameIsTrue` | `CauseIsNamed` |
| `CrashReportHolds` | `CrashReportIsTrue` |
| `ThresholdIsExact` | the integer comparison is the comparison with 85 % |
| `PressureIsTrue` | `PressureIsMeasured` |

*Argument.* The three properties speak of the reply and of the states the cluster
went through, and the answers in between are forgotten by neither: `DInv` says
that every answer got was served by some state in `past`, that `past` only grows
and stays well formed, that a reply was made of all the answers, and that a crash
analysis never ends with only the pod. The properties follow from `DInv` by the
definitions of the reports; `FirstIssue` needs that the smallest index of a
failing container is an index of one. `PressureIsMeasured` measures a quantity by
a ladder of suffixes (`Worth`), each rung so many times the one below, where the
code has a table of powers per resource: `CpuIsWorth` and `MemIsWorth` prove that
the tables are the ladders, `ShareIsExact` that the two comparisons agree, and
the theorem holds for nodes and metrics read at two different moments.

### AskProofs

For every set of configurations and intents (`ConfigsAssumption`,
`IntentsAssumption`, `OtherAssumption`: numbers are naturals; columns are a list of names
and of items that are no strings, or no list; a filter is no object, or any sequence
of conditions, each a scalar, null, an array or an object of any operators
with arguments of any shape), any whitelist whose
row limits are naturals (`WhitelistAssumption`), any sizes of the source and any number of turns
(`SizesAssumption`, `TurnsAssumption`), a `usize` of any width
(`UsizeAssumption`), every text a model can write (`TextsAssumption`: a sequence of lexemes)
and any default and ceiling of rows in order (`RowsAssumption`).

| Theorem | States |
| --- | --- |
| `TypeCorrect` | `TypeInvariant`, of both ways to an answer |
| `RowsAreWithinTheLimit` | `RowsStayWithinTheLimit` |
| `CutAnswersAreMarked` | `OmissionsAreMarked` |
| `ProjectionIsTheOneAsked` | `StrictProjectionIsTheOneAsked` |
| `QueryMeansTheIntent` | `QueryThatRunsMeansTheIntent` |
| `AnswerIsToTheQuestion` | `AnswerIsToTheStatementWritten` |

*Argument.* Each stage of the pipeline sees only what the one before it left, so
the invariant `ChatInv` says what each has left: a verdict past the validator is
the validator's of this very intent, and valid (`Judged`); a query past the
translator is bounded by that verdict and has its columns (`Asked`); what the
renderer is given was cut by that limit from that source, and says so if so
(`Fetched`); the card is the renderer's (`Shown`). One lemma per function says
what it promises the next (`ValidateIntentFacts`, `QueryFacts`, ...). For
`component-sql`, `SqlInv` says that from the moment a request is made, it is the
statement cut out of what the model wrote, read-only and within the ceiling
(`Guarded`), and that an `ok` was told of what the gateway ran. What
`strip_fences` and `Written` cut out of a text is a matter of positions in it: the
trimming, and the first fence and line break of a window of the text, are described
by lemmas on windows (`FirstInWindow`, `StartOfWindow`, `EndOfWindow`, `TrimIsCore`,
built on `MinIsLeast` and `MaxIsGreatest`). The loop that drops columns, a recursive
function in `Sanitized`, is shown to keep every column that may be kept by giving
its value at every position (`SanitizedKeepsAll`, by a least counterexample).

`QueryMeansTheIntent` is about the statement that `build_condition` writes token by
token. `IsDraft` is what holds of a statement at any moment (every placeholder
written so far has its parameter, with the name of its column), `Grows` that what
was written is never touched again, and `Writes(a, b, asked, row)` what one step
from `a` to `b` means: if `a` ends where a condition has to follow and the clause of
`b` is one the database accepts, then `b` selects a row exactly if `a` does and
`asked` holds of it. `PushWrites`, `OperatorWrites` and `ConditionWrites` show this of a
test, an operator and a condition, and `ItemsWrite` of any number of them with ANDs
between: were an item before the last left out (an `$in` without a list, an empty
object), its AND would stand at an even position, which the grammar refuses
(`OneMoreItem`). That the two recursive functions, over the operators of an object
and over the conditions of a clause, have values at all is shown by extending a
function one item at a time, past a least place where none exists. `HAVING` goes on
from the parameters of `WHERE`, so a clause is shown to select the same under any
parameters that continue its own (`SelectsStill`).

### AuthoringProofs

For every intent, curl command, phrase, mail trigger and set of answers, and any
number of steps, edits and rounds (`KindsAssumption`, `BoundsAssumption`,
`IntentsAssumption`, `CurlsAssumption`, `ProvidersAssumption`,
`PhrasesAssumption`, `AnswersAssumption`, `TimeoutAssumption`,
`SecretsAssumption`: the values are of the types the code gives them, and a
secret's name is none of the markers), and for clocks of any size
(`ClockAssumption`, `MonthAssumption`, `FirstDayAssumption`: a day has an even
number of hours up to 24, as the halves of a day need).

| Theorem | States |
| --- | --- |
| `SuggestionsAreAccepted` | `SuggestionsAddUp` |
| `MessageIsDealtWithOnce` | `MailIsDealtWithOnce` |
| `RequestsAuthenticate` | `AcceptedNodeAuthenticates` (an action property) |
| `SetupKeepsItsAnswers` | `AnswersAreInForce` |

*Argument.* `AInv` has one part for each kind of sitting. For drafts it says what
tools alone can have written (`Usable`, `Announced`, `Suggested`), which is more
than the validator asks: the validator judges only complete drafts, and a tool
may run on any. For mails, that a message dealt with is no longer among those
listed. For the wizards, `AnswersAreInForce` itself is kept by a round, given
that what was told so far is a sequence of accepted setups and that a component
that takes its first answers has none before the first round (`SetupInv`).

### ConversationProofs

From `StartsAssumption`, which types the text and the chain: any messages, texts and
chains of any length, any policies, configurations and replies, any number of jumps
with any defaults.

| Theorem | States |
| --- | --- |
| `SourceIsCarried` | the inductive invariant `CInv` |
| `ReplyReturnsHome` | `ReplyReturnsToItsSender` |
| `TextIsMasked` | the inductive invariant `MaskInv` |
| `MaskedMeansClean` | `MaskedTextIsClean` |

*Argument for the reply.* The property speaks of the reply only, which is made from the payload
that the jumps pass on. `CInv` says that the payload has the provider, channel
and conversation of the message at every jump, because what a jump adds never
replaces what is there (`MergeKeeps`), and that the tenant is the one the message
was routed under.

*Argument for the masks.* `MaskedTextIsClean` speaks of the end only. `MaskInv` says
what the text is after any guards of the chain (`MaskedTo`): before the first mask
what was said; before secrets and personal data the same but for stars; and for each
mask that was passed, what it promises (`ProfanityMasked`, `SecretsMasked`,
`PiiMasked`). One lemma per guard (`ProfanityStep`, `SecretsStep`, `PiiStep`) shows
that it does its part and leaves that of the others; on the way back every guard
accepts (`CleanIsKept`), so that the text stays.

Under these lie facts on texts of any length, by least counterexamples instead of
induction. A rewriting with one piece for every hit has a *trace* (`RewrittenOne`):
for each piece of the result the position it comes from. Traces show that nothing is
new but what is put (`TraceWithin`), that a word in which nothing was put is a word of
the text (`TraceOldWords`), and so that no profane word (`NoNewCore`) and no secret
(`NoNewSecret`) appears. A mask by stars keeps the length, so that everything is at
its place (`RewrittenAsLong`); the masks that go word by word are followed replacement
by replacement (`ProfanityMasks`, `SecretsMasks`): a replacement for one word also
hits inside others, and what it makes of them must not be a new hit, nor hide one.
The hardest is that `mask_phones` finds nothing in what it left (`NoNumberLeft`): a
number in the result was digits of the text, and what may stand between them
(spaces, hyphens, parentheses), that were passed over, because
of a digit before them, too few digits, or a letter after the last; each of the
three is still there, or the run of digits goes on in the result as it did before.

### What the proofs changed

`MaskedTextIsClean` once claimed more than the code keeps, which the short texts of
the run could not show. Trying to prove it gave the counterexamples that are now in
`LongTexts`: in `!damn word-damn` the mask for `!damn` leaves the second word alone, as
its core is not profane, though a `damn` that stands alone is replaced inside other
words; in `!damn damn!damn`, with two profane words in one, the replacement of `!damn`
leaves `damn!****`, which is profane now and which a second pass would mask; and two
keys in one word behave the same way. The property now says when a word is gone everywhere
(when it stood alone) and for which texts the masks are idempotent (`Separate`). To
reason about them the guards are written by recursive functions where they were folds.

Three other places of the models were wrong or unclear, and a failed proof showed it:
`CASE`s whose guards overlap, where TLC takes the first arm and the semantics any
of them, are now `IF` chains in the order of the code; `OmissionsAreMarked`
failed for a limit that is cut to nothing, which no bound of the run had reached
and which the run now covers; and `PressureIsMeasured` is proved for units of any base
since the powers are written as products. `Translator` writes its clauses by recursive
functions where it used folds, and a keyword is told from a condition by its word
and no longer by its empty column, which a filter may have as well.

### Only model-checked

- Liveness (`EveryRunAnswers`, `EveryReadIsAnswered`, `EveryQuestionIsAnswered`):
  fairness and `ENABLED` are out of the prover's reach.
- `MessageFlow!TransformsAgree`: it compares what conversions of nested documents
  compute with definitions by quantifiers; that is induction over data, and the
  conversions are `RECURSIVE` operators.

## 5. Not modelled, and why

- `load_whitelist` (YAML to a record), `translate_batch` (a loop over the
  modelled operation), the prompts of the language models and the layout of cards
  and tables: data or text without a decision a property could tell apart.
- PEM blocks in `guardrail-secrets` (they are found by text of many lines), a plus or
  an underscore in a text, and addresses that touch each other (garbled); see
  section 3 for what was met.
- The bindings, descriptors, manifests, JSON schemas and translations: generated
  or constant. The descriptors' fields that a caller relies on are in the tables
  of `ToolCall` and `NodeSetup`.
- `jev-`, `llm-generic-` and `platform-extension`: their functions return constants.
- `gtest-fixture-exporter`, `ci` and `scripts`: tools of the developers, without
  state that outlives them.
- The runner, the designer's host, the services and the secret store are external:
  only what the code here relies on is modelled of them. Where nothing bounds them
  nothing is assumed.
- What an idempotency key would mean across runs of a flow, and keys of a fixed length
  before a full stop: hazards without a property, with their reasons in `PROJECT.json`.
- A change of schema between the two requests of `component-sql`: the statement fails
  at the gateway, or runs, and neither is the node's doing.

*What could come next.* Conversions of flat documents (pick, omit, diff, patch) by
functions instead of recursive operators, which could then be proved about; and
larger documents in `flow` under a coarser set of kinds.
