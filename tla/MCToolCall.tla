---------------------------- MODULE MCToolCall -----------------------------
(***************************************************************************)
(* ToolCall with every tool and every operation of the twelve crates, each *)
(* with every subset of the fields the handler or the metadata asks for    *)
(* (the credentials given as literals); and, for one operation of each     *)
(* crate, every way of giving the credentials.                             *)
(***************************************************************************)
EXTENDS ToolCall, TLC

Jira     == INSTANCE JiraTools
Trello   == INSTANCE TrelloTools
Stripe   == INSTANCE StripeTools
Clickup  == INSTANCE ClickupTools
Calendar == INSTANCE CalendarTools
Hubspot  == INSTANCE HubspotTools
Service  == INSTANCE ServiceTools

MCNodes ==
  [jira |-> Jira!Node, trello |-> Trello!Node, stripe |-> Stripe!Node,
   clickup |-> Clickup!Node, hubspot |-> Hubspot!Node,
   calendly |-> Calendar!CalendlyNode, gcal |-> Calendar!GcalNode,
   notion |-> Service!NotionNode, tavily |-> Service!TavilyNode,
   firecrawl |-> Service!FirecrawlNode, resend |-> Service!ResendNode,
   twilio |-> Service!TwilioNode]

-----------------------------------------------------------------------------
Asked(needs) == needs.all \union needs.some \union needs.one

(* The fields the handler or the metadata mentions.                        *)
Mentioned(n, t, o) ==
  Asked(MCNodes[n].tools[t][o].needs)
    \union IF t \in DOMAIN MCNodes[n].docs /\ o \in DOMAIN MCNodes[n].docs[t].ops
             THEN Asked(MCNodes[n].docs[t].ops[o]) ELSE {}

CredentialFields(n) ==
  ToSet(MCNodes[n].fields) \union MCNodes[n].schema
    \union IF MCNodes[n].auth = "either" THEN {"access_token"} ELSE {}

Operations ==
  UNION {UNION {{<<n, t, o>> : o \in DOMAIN MCNodes[n].tools[t]} :
                t \in DOMAIN MCNodes[n].tools} : n \in DOMAIN MCNodes}

Requests(p, givens, credentials) ==
  {[node |-> p[1], tool |-> p[2], op |-> p[3], given |-> gc[1], creds |-> gc[2]] :
     gc \in givens \X credentials}

Arguments ==
  UNION {Requests(p, SUBSET Mentioned(p[1], p[2], p[3]),
                  [CredentialFields(p[1]) -> {"literal"}]) : p \in Operations}

(* One operation of each crate stands for all of them where credentials    *)
(* are concerned: a crate has one way of obtaining them.                   *)
Probe(n) == CHOOSE p \in Operations : p[1] = n /\ MCNodes[n].tools[p[2]][p[3]].served

(* The field the descriptor declares is a literal unless the crate uses it.*)
Unused(n) == MCNodes[n].schema \ ToSet(MCNodes[n].fields)

Credentialed(n, ways) ==
  Requests(Probe(n), {Mentioned(n, Probe(n)[2], Probe(n)[3])},
           {c \in [CredentialFields(n) -> ways \union {"literal"}] :
              \A f \in CredentialFields(n) :
                IF f \in Unused(n) THEN c[f] = "literal" ELSE c[f] \in ways})

Credentials ==
  UNION {Credentialed(n, {"absent", "empty", "literal", "secret"}) : n \in DOMAIN MCNodes}

MCInputs == Arguments \union Credentials

\* The operation whose confirmation is misread, with all it needs.
IssueUpdates == {i \in Arguments : UpdatesAnIssue(i)}
Alone        == {}

OneSecret    == Credentialed("stripe", {"secret"})
AllLiteral   == Credentialed("hubspot", {"literal"})
MCConcurrent == OneSecret \union AllLiteral
MCStatuses   == {299, 300, 500}
=============================================================================
