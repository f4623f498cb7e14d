------------------------------- MODULE Wire -------------------------------
(***************************************************************************)
(* What crosses the socket on its way in: the bytes of a request as recv    *)
(* collects them, chunked or not, and the fields the server scans out of    *)
(* the body.  Scalars the engine only passes on (temperature, top_p, seed,  *)
(* ids) are left out.                                                       *)
(***************************************************************************)
EXTENDS JsonText, TLC

CRLF == "crlf"
HeaderEnd == <<CRLF, CRLF>>
Word(t) == IF t = <<>> THEN "" ELSE t[1]

-----------------------------------------------------------------------------
(* Reassembly. *)

MaxChunk == 400       \* the longest chunk an instance sends
\* strtoul of a chunk's size line; anything else reads as zero.
ChunkLen(line) ==
    LET is == {n \in 1..MaxChunk : line = <<ToString(n)>>} IN IF is = {} THEN 0 ELSE MinOf(is)
RECURSIVE DechunkFrom(_, _)
DechunkFrom(in, i) ==
    LET eol == Find(in, <<CRLF>>, i)
        len == ChunkLen(SubSeq(in, i, eol - 1))
    IN  IF eol = 0 \/ len = 0 \/ eol + len > Len(in) THEN <<>>
        ELSE SubSeq(in, eol + 1, eol + len) \o DechunkFrom(in, eol + len + 2)
dechunk(in) == DechunkFrom(in, 1)

\* recv stops: the header has ended, and the length or the last chunk is in.
Whole(head, bytes) ==
    LET h == Find(bytes, HeaderEnd, 1) IN
    h # 0 /\ IF head.chunked THEN Find(bytes, <<CRLF, "0", CRLF>>, h) # 0
             ELSE Len(bytes) >= h + 1 + head.length
BodyOf(head, bytes) ==
    LET b == Rest(bytes, Find(bytes, HeaderEnd, 1) + 2) IN IF head.chunked THEN dechunk(b) ELSE b

-----------------------------------------------------------------------------
(* parse_completion_request. *)

ScalarAt(s, key, absent) == LET p == find_top_key(s, key) IN IF p = 0 THEN absent ELSE At(s, SkipWs(s, p))

RECURSIVE StringsOf(_, _)
StringsOf(s, i) ==
    IF At(s, i) \in {"EOF", "]"} THEN <<>>
    ELSE LET r == read_json_string(s, i) IN
         IF At(s, i) = DQ THEN <<r.text>> \o StringsOf(s, r.next) ELSE StringsOf(s, i + 1)
StopsOf(body) ==
    LET p == find_top_key(body, "stop")
        q == SkipWs(body, p)
    IN  IF p = 0 THEN <<>>
        ELSE IF At(body, q) = "[" THEN StringsOf(body, q + 1)
        ELSE IF At(body, q) = DQ THEN <<read_json_string(body, q).text>> ELSE <<>>

\* The texts of an array of typed blocks, the empty ones dropped.
RECURSIVE JoinedBlocks(_, _)
JoinedBlocks(blocks, joined) ==
    IF blocks = <<>> THEN joined
    ELSE LET piece == StringAt(blocks[1], "text") IN
         JoinedBlocks(Tail(blocks),
             joined \o (IF piece = <<>> \/ joined = <<>> THEN <<>> ELSE <<LF, LF>>) \o piece)
ContentOf(sub) ==
    LET p == find_top_key(sub, "content") IN
    IF p # 0 /\ At(sub, SkipWs(sub, p)) = "[" THEN JoinedBlocks(raw_elements(raw_value(sub, "content")), <<>>)
    ELSE StringAt(sub, "content")

RoleOf(role) == CASE role = "developer" -> "system" [] role = "function" -> "tool" [] OTHER -> role
MessageOf(sub) ==
    [role |-> RoleOf(Word(StringAt(sub, "role"))), content |-> ContentOf(sub),
     reasoning |-> StringAt(sub, "reasoning_content"),
     calls |-> NamedCalls(raw_elements(raw_value(sub, "tool_calls")))]

ObjectEndAnyBrace(t) ==
    LET opens == {k \in DOMAIN t : t[k] = "{"}
        ends == {k \in DOMAIN t : t[k] = "}" /\ Cardinality({o \in opens : o < k})
                                                = Cardinality({c \in 1..k : t[c] = "}"})}
    IN  IF ends = {} THEN 1 ELSE MinOf(ends)
\* Where the object at the front of t ends: braces inside a string are text.
ObjectEnd(t) ==
    LET q == Scan(t, {"{"}, {"}"})
        ends == {k \in q.closes : Depth(q, k) = 1}
    IN  IF ends = {} THEN 1 ELSE MinOf(ends)
RECURSIVE MessagesFrom(_, _)
MessagesFrom(body, q) ==
    IF At(body, q) \in {"EOF", "]"} THEN <<>>
    ELSE IF body[q] # "{" THEN MessagesFrom(body, q + 1)
    ELSE LET end == q + ObjectEnd(Rest(body, q)) - 1 IN
         <<MessageOf(SubSeq(body, q, end))>> \o MessagesFrom(body, end + 1)
MessagesOf(body) ==
    LET p == Find(body, <<DQ, "messages", DQ>>, 1) IN
    IF p = 0 THEN <<>>
    ELSE SelectSeq(MessagesFrom(body, Find(body, <<"[">>, p) + 1), LAMBDA m : m.role # "")

Functions(tools) == [k \in DOMAIN tools |-> FunctionOf(tools[k])]
parse_completion_request(body, chat) ==
    [messages |-> IF chat THEN MessagesOf(body) ELSE <<>>,
     prompt |-> IF chat THEN <<>> ELSE StringAt(body, "prompt"),
     tools |-> Functions(raw_elements(raw_value(body, "tools"))),
     choice |-> Word(StringAt(body, "tool_choice")),
     format |-> raw_value(body, "response_format"),
     stop |-> StopsOf(body),
     n |-> ScalarAt(body, "n", "1"),
     stream |-> ScalarAt(body, "stream", "false") = "true",
     usage |-> ScalarAt(raw_value(body, "stream_options"), "include_usage", "false") = "true",
     effort |-> Word(StringAt(body, "reasoning_effort")),
     mode |-> Word(StringAt(body, "thinking_mode"))]
Parsed(r) == r.messages # <<>> \/ r.prompt # <<>>

=============================================================================
