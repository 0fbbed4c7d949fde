---------------------------- MODULE StripeTools ----------------------------
(***************************************************************************)
(* component-stripe: its tools (tools/), what their metadata says          *)
(* (tool_meta.rs), and the credential of the node (ops.rs).                *)
(***************************************************************************)
EXTENDS ToolTable

Credentials == <<"secret_key">>
InputSchema == {"token"}
Transport   == HostTransport(200..299)

customers ==
  [create |-> Change("POST", {"params"}),
   search |-> Get({"query"}),
   get    |-> Get({"id"}),
   update |-> Change("POST", {"id", "params"}),
   delete |-> Ack("DELETE", {"id"})]

products ==
  [create |-> Change("POST", {"params"}), list |-> Get({}), get |-> Get({"id"}),
   update |-> Change("POST", {"id", "params"})]

prices == [create |-> Change("POST", {"params"}), list |-> Get({}), get |-> Get({"id"})]

payment_links ==
  [create     |-> Change("POST", {"line_items"}), get |-> Get({"id"}), list |-> Get({}),
   deactivate |-> Change("POST", {"id"})]

invoices ==
  [create   |-> Change("POST", {"customer"}), get |-> Get({"id"}), list |-> Get({}),
   finalize |-> Change("POST", {"id"}),
   send     |-> Change("POST", {"id"}),
   void     |-> Change("POST", {"id"})]

subscriptions ==
  [create |-> Change("POST", {"customer", "items"}), get |-> Get({"id"}), list |-> Get({}),
   update |-> Change("POST", {"id", "params"}),
   cancel |-> Change("DELETE", {"id"})]

checkout_sessions == [create |-> Change("POST", {"params"}), get |-> Get({"id"})]

(* Mutant: both references are asked for.                                  *)
refunds_of_both ==
  [create |-> Change("POST", {"payment_intent", "charge"}),
   get    |-> Get({"id"}),
   list   |-> Get({})]

refunds ==
  [create |-> SomeOf({"payment_intent", "charge"}, Change("POST", {})),
   get    |-> Get({"id"}),
   list   |-> Get({})]

payment_intents ==
  [create  |-> Change("POST", {"amount", "currency"}), get |-> Get({"id"}), list |-> Get({}),
   confirm |-> Change("POST", {"id"}),
   cancel  |-> Change("POST", {"id"})]

disputes ==
  [get    |-> Get({"id"}), list |-> Get({}),
   update |-> Change("POST", {"id", "params"}),
   close  |-> Change("POST", {"id"})]

coupons ==
  [create |-> Change("POST", {"params"}), get |-> Get({"id"}), list |-> Get({}),
   delete |-> Change("DELETE", {"id"})]

promotion_codes ==
  [create |-> Change("POST", {"coupon"}), get |-> Get({"id"}), list |-> Get({}),
   update |-> Change("POST", {"id", "params"})]

(* The file arrives in base64 and is decoded before anything is sent, to   *)
(* another host than the rest, by a handler of its own.                    *)
stripe_files == Change("POST", {"file_base64"})
files        == [upload |-> stripe_files]

-----------------------------------------------------------------------------
(* The metadata.                                                           *)

customers_doc == Doc("write",
  [create |-> Needs({"params"}), search |-> Needs({"query"}), get |-> Needs({"id"}),
   update |-> Needs({"id", "params"}), delete |-> Needs({"id"})])

products_doc == Doc("write",
  [create |-> Needs({"params"}), list |-> Needs({}), get |-> Needs({"id"}),
   update |-> Needs({"id", "params"})])

prices_doc == Doc("write",
  [create |-> Needs({"params"}), list |-> Needs({}), get |-> Needs({"id"})])

payment_links_doc == Doc("write",
  [create |-> Needs({"line_items"}), get |-> Needs({"id"}), list |-> Needs({}),
   deactivate |-> Needs({"id"})])

invoices_doc == Doc("write",
  [create |-> Needs({"customer"}), get |-> Needs({"id"}), list |-> Needs({}),
   finalize |-> Needs({"id"}), send |-> Needs({"id"}), void |-> Needs({"id"})])

subscriptions_doc == Doc("write",
  [create |-> Needs({"customer", "items"}), get |-> Needs({"id"}), list |-> Needs({}),
   update |-> Needs({"id", "params"}), cancel |-> Needs({"id"})])

checkout_sessions_doc == Doc("write", [create |-> Needs({"params"}), get |-> Needs({"id"})])

(* For "list" the description asks for one of the two filters as well.     *)
refunds_doc ==
  LET either == [Needs({}) EXCEPT !.some = {"payment_intent", "charge"}]
  IN  Doc("write", [create |-> either, get |-> Needs({"id"}), list |-> either])

payment_intents_doc == Doc("write",
  [create |-> Needs({"amount", "currency"}), get |-> Needs({"id"}), list |-> Needs({}),
   confirm |-> Needs({"id"}), cancel |-> Needs({"id"})])

disputes_doc == Doc("write",
  [get |-> Needs({"id"}), list |-> Needs({}), update |-> Needs({"id", "params"}),
   close |-> Needs({"id"})])

coupons_doc == Doc("write",
  [create |-> Needs({"params"}), get |-> Needs({"id"}), list |-> Needs({}),
   delete |-> Needs({"id"})])

promotion_codes_doc == Doc("write",
  [create |-> Needs({"coupon"}), get |-> Needs({"id"}), list |-> Needs({}),
   update |-> Needs({"id", "params"})])

files_doc == Doc("write", [upload |-> Needs({"file_base64"})])

-----------------------------------------------------------------------------
Tools ==
  [stripe_customers |-> customers, stripe_products |-> products, stripe_prices |-> prices,
   stripe_payment_links |-> payment_links, stripe_invoices |-> invoices,
   stripe_subscriptions |-> subscriptions, stripe_checkout_sessions |-> checkout_sessions,
   stripe_refunds |-> refunds, stripe_payment_intents |-> payment_intents,
   stripe_disputes |-> disputes, stripe_coupons |-> coupons,
   stripe_promotion_codes |-> promotion_codes, stripe_files |-> files]

Docs ==
  [stripe_customers |-> customers_doc, stripe_products |-> products_doc,
   stripe_prices |-> prices_doc, stripe_payment_links |-> payment_links_doc,
   stripe_invoices |-> invoices_doc, stripe_subscriptions |-> subscriptions_doc,
   stripe_checkout_sessions |-> checkout_sessions_doc, stripe_refunds |-> refunds_doc,
   stripe_payment_intents |-> payment_intents_doc, stripe_disputes |-> disputes_doc,
   stripe_coupons |-> coupons_doc, stripe_promotion_codes |-> promotion_codes_doc,
   stripe_files |-> files_doc]

Node == NodeWith("static", Credentials, Transport, Tools, Docs, InputSchema)
=============================================================================
