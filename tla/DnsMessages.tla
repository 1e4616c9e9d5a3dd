---------------------------- MODULE DnsMessages ----------------------------
(***************************************************************************)
(* The messages of the dns test (packet/dns.rs) as far as dns.rs looks at  *)
(* them, and what a middlebox may do to one: alter a part of it.           *)
(***************************************************************************)
EXTENDS Naturals, Sequences

build_dns_query(id) ==
  [id |-> id, kind |-> "query", queries |-> <<"bimap.test">>, answers |-> <<>>]

\* Any message that parses is answered, under its id and questions.
build_dns_response(query) ==
  [id |-> query.id, kind |-> "response", queries |-> query.queries, answers |-> <<"A">>]

Parses(message) == message.kind # "garbage"

validate_dns_response_NotQuestion(query, response) ==
  Parses(response) /\ response.kind = "response" /\ response.id = query.id
validate_dns_response(query, response) ==
  /\ Parses(response) /\ response.kind = "response"
  /\ response.id = query.id
  /\ response.queries = query.queries /\ query.queries # <<>>

-----------------------------------------------------------------------------
Parts == {"form", "id", "kind", "question", "answer"}

\* Alterations do not undo each other.
Altered(message, part) ==
  CASE part = "form"     -> [message EXCEPT !.kind = "garbage"]
    [] part = "id"       -> [message EXCEPT !.id = @ + 1]
    [] part = "kind"     -> [message EXCEPT !.kind = IF @ = "query" THEN "response" ELSE "query"]
    [] part = "question" -> [message EXCEPT !.queries = Append(@, "other")]
    [] part = "answer"   -> [message EXCEPT !.answers = Append(@, "other")]

\* The query as the target reads it, and its response as the initiator does,
\* if the network alters that part of the messages in altered.
QueryRead(query, altered, part) ==
  IF "request" \in altered THEN Altered(query, part) ELSE query
ResponseRead(query, altered, part) ==
  LET response == build_dns_response(QueryRead(query, altered, part))
  IN IF "reply" \in altered THEN Altered(response, part) ELSE response

\* The alterations the test cannot see: of what it does not look at.
Unseen(altered, part) ==
  \/ part = "answer" \/ altered \cap {"request", "reply"} = {}
  \/ part = "kind" /\ "reply" \notin altered
=============================================================================
