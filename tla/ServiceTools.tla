---------------------------- MODULE ServiceTools ---------------------------
(***************************************************************************)
(* The nodes whose tools are plain operations: component-tavily,           *)
(* component-firecrawl, component-resend and component-twilio, each tool   *)
(* of which is one operation, each crate with what its metadata says and   *)
(* its credentials, and component-notion, one tool of eight operations     *)
(* without metadata.  An operation is a body built and an answer mapped;   *)
(* where the answer must carry an id, data or a status, a body without one *)
(* counts as garbled, whatever its "success".                              *)
(***************************************************************************)
EXTENDS ToolTable

InputSchema == {"token"}

tavily_transport   == HostTransport(200..299)
tavily_credentials == <<"api_key">>
build_search_body    == Query({"query"})
build_extract_body   == Query({"urls"})
map_search_response  == "json"
map_extract_response == "json"
tavily_search  == [run |-> ParsedBy(map_search_response, build_search_body)]
tavily_extract == [run |-> ParsedBy(map_extract_response, build_extract_body)]

tavily_search_doc  == Doc("read", [run |-> Needs({"query"})])
tavily_extract_doc == Doc("read", [run |-> Needs({"urls"})])

-----------------------------------------------------------------------------
firecrawl_transport   == HostTransport(200..299)
firecrawl_credentials == <<"api_key">>
build_scrape_body         == Query({"url"})
build_web_extract_body    == SomeOf({"schema", "prompt"}, Query({"url"}))
build_screenshot_body     == Query({"url"})
build_web_search_body     == Query({"query"})
build_crawl_body          == Query({"url"})
build_browser_task_body   == Change("POST", {"url", "actions"})
map_scrape_response       == "json"
map_web_extract_response  == "json"
map_screenshot_response   == "json"
map_web_search_response   == "json"
map_crawl_start_response  == "json"
map_crawl_result_response == "json"
map_browser_task_response == "json"

web_scrape       == [run |-> ParsedBy(map_scrape_response, build_scrape_body)]
web_extract      == [run |-> ParsedBy(map_web_extract_response, build_web_extract_body)]
web_screenshot   == [run |-> ParsedBy(map_screenshot_response, build_screenshot_body)]
web_search       == [run |-> ParsedBy(map_web_search_response, build_web_search_body)]
web_crawl_start  == [run |-> ParsedBy(map_crawl_start_response, build_crawl_body)]
web_crawl_result == [run |-> ParsedBy(map_crawl_result_response, Get({"job_id"}))]
browser_task     == [run |-> ParsedBy(map_browser_task_response, build_browser_task_body)]

web_scrape_doc       == Doc("read", [run |-> Needs({"url"})])
web_screenshot_doc   == Doc("read", [run |-> Needs({"url"})])
web_search_doc       == Doc("read", [run |-> Needs({"query"})])
web_crawl_doc        == Doc("read", [run |-> Needs({"url"})])
web_crawl_result_doc == Doc("read", [run |-> Needs({"job_id"})])
browser_task_doc     == Doc("write", [run |-> Needs({"url", "actions"})])

(* The schema requires the url; the hint, a schema or a prompt.            *)
web_extract_doc ==
  Doc("read", [run |-> [Needs({"url"}) EXCEPT !.some = {"schema", "prompt"}]])

-----------------------------------------------------------------------------
resend_transport   == HostTransport(200..299)
resend_credentials == <<"api_key">>
build_send_email_body   == SomeOf({"text", "html"}, Change("POST", {"from", "to", "subject"}))
map_send_email_response == "json"
send_email == [run |-> ParsedBy(map_send_email_response, build_send_email_body)]

(* The schema requires three fields; the hint, a text or an html as well.  *)
send_email_doc ==
  Doc("write", [run |-> [Needs({"from", "to", "subject"}) EXCEPT !.some = {"text", "html"}]])

-----------------------------------------------------------------------------
twilio_transport   == HostTransport(200..299)
twilio_credentials == <<"account_sid", "auth_token", "from_number">>
twilio_nonempty    == {"from_number"}
build_send_sms_body   == Change("POST", {"to", "body"})
map_send_sms_response == "json"
send_sms     == [run |-> ParsedBy(map_send_sms_response, build_send_sms_body)]
send_sms_doc == Doc("write", [run |-> Needs({"to", "body"})])

-----------------------------------------------------------------------------
Tavily    == [tavily_search |-> tavily_search, tavily_extract |-> tavily_extract]
Firecrawl ==
  [web_scrape |-> web_scrape, web_extract |-> web_extract,
   web_screenshot |-> web_screenshot, web_search |-> web_search,
   web_crawl_start |-> web_crawl_start, web_crawl_result |-> web_crawl_result,
   browser_task |-> browser_task]
Resend == [send_email |-> send_email]
Twilio == [send_sms |-> send_sms]

TavilyDocs    == [tavily_search |-> tavily_search_doc, tavily_extract |-> tavily_extract_doc]
FirecrawlDocs ==
  [web_scrape |-> web_scrape_doc, web_extract |-> web_extract_doc,
   web_screenshot |-> web_screenshot_doc, web_search |-> web_search_doc,
   web_crawl_start |-> web_crawl_doc, web_crawl_result |-> web_crawl_result_doc,
   browser_task |-> browser_task_doc]
ResendDocs == [send_email |-> send_email_doc]
TwilioDocs == [send_sms |-> send_sms_doc]

TavilyNode    ==
  NodeWith("static", tavily_credentials, tavily_transport, Tavily, TavilyDocs, InputSchema)
FirecrawlNode ==
  NodeWith("static", firecrawl_credentials, firecrawl_transport, Firecrawl, FirecrawlDocs, InputSchema)
ResendNode    ==
  NodeWith("static", resend_credentials, resend_transport, Resend, ResendDocs, InputSchema)
TwilioNode    ==
  [NodeWith("static", twilio_credentials, twilio_transport, Twilio, TwilioDocs, InputSchema)
     EXCEPT !.nonempty = twilio_nonempty]

-----------------------------------------------------------------------------
notion_credentials == <<"token">>
notion_transport   == HostTransport(200..299)

(* component-notion: its operations (ops.rs), each a request built and an  *)
(* answer parsed by the modules notion.rs, notion_read.rs, notion_users.rs *)
(* and notion_write.rs.                                                    *)
(* The requests.  An id counts as given when it can stand in a path.       *)
build_query_database_request    == Query({"database_id"})
build_create_page_request       == Change("POST", {"parent_database_id", "properties"})
build_search_request            == Query({})
build_retrieve_children_request == Get({"block_id"})
build_list_users_request        == Get({})
build_update_page_request       == Change("PATCH", {"page_id", "properties"})
build_append_block_request      == Change("PATCH", {"block_id", "children"})
build_create_comment_request    ==
  OneOf({"page_id", "discussion_id"}, Change("POST", {"rich_text"}))

(* The answers.  Two operations check the shape of the page or the rows    *)
(* they are told of; the others take whatever is JSON.                     *)
as_json                    == "json"
parse_query_response       == "json"
parse_create_page_response == "json"

query_database == ParsedBy(parse_query_response, build_query_database_request)
create_page    == ParsedBy(parse_create_page_response, build_create_page_request)
search         == ParsedBy(as_json, build_search_request)
list_users     == ParsedBy(as_json, build_list_users_request)
create_comment == ParsedBy(as_json, build_create_comment_request)
update_page    == ParsedBy(as_json, build_update_page_request)
append_block   == ParsedBy(as_json, build_append_block_request)

retrieve_block_children == ParsedBy(as_json, build_retrieve_children_request)

Notion ==
  [notion |->
     [query_database |-> query_database, create_page |-> create_page, search |-> search,
      retrieve_block_children |-> retrieve_block_children, list_users |-> list_users,
      create_comment |-> create_comment, update_page |-> update_page,
      append_block |-> append_block]]

NotionDocs == [t \in {} |-> Doc("read", <<>>)]

NotionNode ==
  NodeWith("static", notion_credentials, notion_transport, Notion, NotionDocs, InputSchema)
=============================================================================
