------------------------------- MODULE HttpCodec -------------------------------
(***************************************************************************)
(* crates/proxy: http/parse.rs, http/decode.rs, http/cookies.rs and        *)
(* flow.rs, from the bytes of an exchange to the record that is captured.  *)
(* Bytes are symbols: [is |-> "eol"], the end of a line; [is |-> "start"], *)
(* a request or status line that is complete; [is |-> "header", name,      *)
(* value]; [is |-> "size", n], a chunk size; and others, which make no     *)
(* line of a head.                                                         *)
(***************************************************************************)
LOCAL INSTANCE Naturals
LOCAL INSTANCE Sequences
LOCAL INSTANCE SequencesExt
LOCAL INSTANCE FiniteSetsExt

None    == [some |-> FALSE]
Some(v) == [some |-> TRUE, is |-> v]
Eol     == [is |-> "eol"]

\* find_crlf and find_head_end: where the line and where the head ends, or 0.
find_crlf(bytes) == LET at == {i \in DOMAIN bytes : bytes[i] = Eol} IN IF at = {} THEN 0 ELSE Min(at)
find_head_end(bytes) ==
  LET at == {i \in 1..(Len(bytes) - 1) : bytes[i] = Eol /\ bytes[i + 1] = Eol} IN IF at = {} THEN 0 ELSE Min(at)

\* The head as [headers], when its first line and all its headers are in order.
parse_head(bytes) ==
  LET lines == SelectSeq(SubSeq(bytes, 1, find_head_end(bytes) - 1), LAMBDA b : b # Eol) IN
  IF find_head_end(bytes) > 0 /\ bytes[1].is = "start"
     /\ \A i \in 2..Len(lines) : lines[i].is = "header"
  THEN Some([i \in 1..(Len(lines) - 1) |-> lines[i + 1]]) ELSE None

valued(headers, name) == SelectSeq(headers, LAMBDA h : h.name = name)

\* The first header counts; its value is None when it is no number.
content_length(headers) ==
  LET of == valued(headers, "content-length") IN IF of = <<>> \/ ~Head(of).value.some THEN 0 ELSE Head(of).value.is

is_chunked(headers) == \E i \in DOMAIN headers : headers[i].name = "transfer-encoding" /\ headers[i].value = "chunked"

\* parse_request: nothing until the whole body is there; a body is what Content-Length says.
parse_request(bytes) ==
  LET head  == parse_head(bytes)
      start == find_head_end(bytes) + 2
      len   == content_length(head.is) IN
  IF ~head.some THEN None
  ELSE IF Len(bytes) + 1 < start + len THEN None
  ELSE Some([headers |-> head.is, consumed |-> start + len - 1,
             body |-> IF len > 0 THEN Some(SubSeq(bytes, start, start + len - 1)) ELSE None])

RECURSIVE decode_chunked(_)

\* decode_chunked: the size 0 ends it, and so does the end of the bytes between two chunks.
decode_chunked(bytes) ==
  LET eol == find_crlf(bytes)
      n   == bytes[1].n
      end == eol + n
      rest == SubSeq(bytes, end + 1, Len(bytes))
      more == decode_chunked(IF rest # <<>> /\ Head(rest) = Eol THEN Tail(rest) ELSE rest) IN
  CASE bytes = <<>> -> Some(<<>>)
    [] bytes # <<>> /\ (eol # 2 \/ bytes[1].is # "size") -> None
    [] OTHER -> IF n = 0 THEN Some(<<>>)
                ELSE IF end > Len(bytes) \/ ~more.some THEN None
                ELSE Some(SubSeq(bytes, eol + 1, end) \o more.is)

\* parse_response: the body is all that follows the head.
parse_response(bytes) ==
  LET head == parse_head(bytes)
      raw  == SubSeq(bytes, find_head_end(bytes) + 2, Len(bytes)) IN
  IF ~head.some THEN None
  ELSE Some([headers |-> head.is,
             body |-> IF raw = <<>> THEN None ELSE IF is_chunked(head.is) THEN decode_chunked(raw) ELSE Some(raw)])

------------------------------------------------------------------------------
(* A body [raw, plain, whole, text] has the bytes it was sent as, the bytes  *)
(* they unpack to until they end or break off, whether they end, and the     *)
(* byte sequences that are UTF-8.                                            *)

content_encoding(headers) ==
  LET of == valued(headers, "content-encoding") IN IF of = <<>> THEN "" ELSE Head(of).value

\* decode_body: no more than max + 1 bytes are unpacked; what breaks off before that stays as
\* it is, and all is cut to `max` bytes.
decode_body(body, encoding, max) ==
  LET unpacks == encoding \in {"br", "gzip", "deflate"} /\ (body.whole \/ Len(body.plain) > max)
      decoded == IF unpacks THEN body.plain ELSE body.raw
  IN  SubSeq(decoded, 1, Min({Len(decoded), max}))

(* The value of a Cookie header is a sequence of parts [name, value], of a    *)
(* Set-Cookie header its first part; a part without "=" has the value None.   *)

cookie_parts(headers, response) ==
  FlattenSeq([i \in DOMAIN valued(headers, IF response THEN "set-cookie" ELSE "cookie") |->
                valued(headers, IF response THEN "set-cookie" ELSE "cookie")[i].value])

\* cookie_names: a response names also what is given no value.
cookie_names(headers, response) ==
  {p.name : p \in {q \in ToSet(cookie_parts(headers, response)) : response \/ q.value # None}}

\* cookie_values: of cookies with one name the last counts.
cookie_values(headers, response) ==
  LET parts == SelectSeq(cookie_parts(headers, response), LAMBDA p : p.value # None) IN
  [n \in {parts[i].name : i \in DOMAIN parts} |-> parts[Max({i \in DOMAIN parts : parts[i].name = n})].value.is]

\* headers_to_map: the values of one name, in their order.
headers_to_map(headers) ==
  [n \in {headers[i].name : i \in DOMAIN headers} |->
     [i \in DOMAIN valued(headers, n) |-> valued(headers, n)[i].value]]

\* FlowBuilder::capture: a body that is no text, be it for the cut, is kept as a dump.
capture(req_headers, headers, body, max) ==
  LET decoded == decode_body(body.is, content_encoding(headers), max) IN
  [request_headers |-> headers_to_map(req_headers), response_headers |-> headers_to_map(headers),
   request_cookies |-> cookie_names(req_headers, FALSE), response_cookies |-> cookie_names(headers, TRUE),
   request_cookie_values |-> cookie_values(req_headers, FALSE), response_cookie_values |-> cookie_values(headers, TRUE),
   response_body |-> IF ~body.some THEN None ELSE Some([dump |-> decoded \notin body.is.text, bytes |-> decoded]),
   response_body_len |-> IF body.some THEN Len(decoded) ELSE 0]
===============================================================================
