---------------------------- MODULE ChatEncode ----------------------------
(***************************************************************************)
(* A conversation as the prompt the model is given, and a turn of its       *)
(* output read back: encode_messages and parse_completion.  A message is a *)
(* record of its role and texts.  The fixed prose of a block is one atom,  *)
(* and the quick-instruction tasks, which no caller sets, are left out.    *)
(***************************************************************************)
EXTENDS JsonText

ThinkEnd == <<"<", "/", "think", ">">>
EosStr == <<"EOS">>
ToolCallsOpen == <<LF, LF, "<", "DSML", "tool_calls">>
TcClose == <<"<", "/", "DSML", "tool_calls", ">">>
InvOpen == <<"<", "DSML", "invoke">>
InvClose == <<"<", "/", "DSML", "invoke">>
ParOpen == <<"<", "DSML", "parameter">>
ParClose == <<"/", "DSML", "parameter">>
NameEq == <<"name=", DQ>>
StringEq == <<DQ, SP, "string=", DQ>>
Blank2 == <<LF, LF>>

ChatMsg(role, content) ==
    [role |-> role, content |-> content, reasoning |-> <<>>, calls |-> <<>>,
     tools |-> <<>>, format |-> <<>>]

-----------------------------------------------------------------------------
(* Rendering. *)

tools_block(tools) ==
    <<"tools:">> \o Joined([k \in DOMAIN tools |-> json_compact(tools[k])], <<LF>>) \o <<"follow">>
response_format_block(schema) == <<"format:">> \o json_compact(schema)

RECURSIVE Trimmed(_)
Trimmed(v) == IF v # <<>> /\ IsBlank(v[Len(v)]) THEN Trimmed(SubSeq(v, 1, Len(v) - 1)) ELSE v
RECURSIVE MembersFrom(_, _)
\* (key, raw value) of each member from place i on, up to the first that is not one.
MembersFrom(s, i0) ==
    LET i == SkipWs(s, i0)
        key == Unquoted(s, i + 1)
        colon == SkipWs(s, key.next)
        v == SkipWs(s, colon + 1)
        t == Rest(s, v)
        q == Scan(t, Opens, Closes)
        stops == {k \in DOMAIN t : t[k] \in {",", "}", "]"} /\ ~InString(q, k) /\ Depth(q, k) = 0}
        e == IF stops = {} THEN Len(t) + 1 ELSE MinOf(stops)
        next == v + e - 1
    IN  IF At(s, i) # DQ \/ s[key.next - 1] # DQ \/ At(s, colon) # ":" THEN <<>>
        ELSE <<[key |-> key.text, value |-> Trimmed(SubSeq(t, 1, e - 1))]>>
             \o MembersFrom(s, IF At(s, next) = "," THEN next + 1 ELSE next)
json_members(obj) == LET i == Find(obj, <<"{">>, 1) IN IF i = 0 THEN <<>> ELSE MembersFrom(obj, i + 1)

\* Arguments without a brace are wrapped; an object that does not scan gives nothing.
Members(arguments) ==
    IF json_members(arguments) = <<>> /\ arguments # <<>> /\ Find(arguments, <<"{">>, 1) = 0
    THEN <<[key |-> <<"arguments">>, value |-> json_quote(arguments)]>> ELSE json_members(arguments)
Parameter(m) ==
    ParOpen \o <<SP>> \o NameEq \o m.key \o StringEq
    \o (IF json_is_string(m.value) THEN <<"true", DQ, ">">> \o json_unquote(m.value)
        ELSE <<"false", DQ, ">">> \o json_compact(m.value))
    \o <<"<">> \o ParClose \o <<">">>
Invoke(call) ==
    LET ms == Members(call.arguments) IN
    InvOpen \o <<SP>> \o NameEq \o call.name \o <<DQ, ">", LF>>
    \o Joined([k \in DOMAIN ms |-> Parameter(ms[k])], <<LF>>)
    \o <<LF>> \o InvClose \o <<">">>
render_tool_calls(calls) ==
    ToolCallsOpen \o <<">", LF>> \o Joined([k \in DOMAIN calls |-> Invoke(calls[k])], <<LF>>)
    \o <<LF>> \o TcClose

ToolResult(m) == <<"<tool_result>">> \o m.content \o <<"</tool_result>">>
RECURSIVE Merged(_, _, _)
\* A run of tool results, and a user message right after it, is one user message.
Merged(in, acc, run) ==
    IF in = <<>> THEN acc
    ELSE LET m == in[1]
             text == IF m.role = "tool" THEN ToolResult(m) ELSE m.content IN
         IF m.role \in {"tool", "user"} /\ run /\ acc # <<>>
         THEN Merged(Tail(in), [acc EXCEPT ![Len(acc)].content = @ \o Blank2 \o text], TRUE)
         ELSE IF m.role = "tool" THEN Merged(Tail(in), Append(acc, ChatMsg("user", text)), TRUE)
         ELSE Merged(Tail(in), Append(acc, m), FALSE)
merge_tool_messages(in) == Merged(in, <<>>, FALSE)

Asks(m) == m.role \in {"user", "developer"}
last_user_index(ms) ==
    LET us == {i \in DOMAIN ms : Asks(ms[i])} IN IF us = {} THEN 0 ELSE CHOOSE i \in us : \A j \in us : j <= i
DropsThinking(ms) == \A i \in DOMAIN ms : ms[i].tools = <<>>

Blocks(m) == (IF m.tools = <<>> THEN <<>> ELSE Blank2 \o tools_block(m.tools))
             \o (IF m.format = <<>> THEN <<>> ELSE Blank2 \o response_format_block(m.format))
KeepsLastOnly(ms, i) == i > last_user_index(ms)
Keeps(ms, i) == ~DropsThinking(ms) \/ i > last_user_index(ms)
Rendered(ms, i, thinking) ==
    LET m == ms[i] IN
    CASE m.role = "system" -> m.content \o Blocks(m)
      [] m.role = "developer" -> <<"USER">> \o m.content \o Blocks(m)
      [] m.role = "user" -> <<"USER">> \o m.content
      [] m.role = "latest_reminder" -> <<"REMINDER">> \o m.content
      [] m.role = "assistant" ->
           (IF thinking /\ Keeps(ms, i) THEN m.reasoning \o ThinkEnd ELSE <<>>) \o m.content
           \o (IF m.calls = <<>> THEN <<>> ELSE render_tool_calls(m.calls)) \o EosStr
      [] OTHER -> <<>>
\* What opens the assistant's turn, where one follows or the text ends.
Transition(ms, i, thinking) ==
    IF ~Asks(ms[i]) \/ (i < Len(ms) /\ ms[i + 1].role \notin {"assistant", "latest_reminder"}) THEN <<>>
    ELSE <<"ASSISTANT">> \o (IF thinking /\ (~DropsThinking(ms) \/ i >= last_user_index(ms))
                             THEN <<"<think>">> ELSE ThinkEnd)

RECURSIVE RenderedFrom(_, _, _)
RenderedFrom(ms, i, thinking) ==
    IF i > Len(ms) THEN <<>>
    ELSE Rendered(ms, i, thinking) \o Transition(ms, i, thinking) \o RenderedFrom(ms, i + 1, thinking)
encode_messages(in, thinking, effort) ==
    LET ms == merge_tool_messages(in) IN
    <<"BOS">> \o (IF thinking /\ effort # "low" THEN <<effort>> ELSE <<>>) \o RenderedFrom(ms, 1, thinking)

-----------------------------------------------------------------------------
(* Reading a turn. *)

\* The text up to the earliest of the stops, the stop, and the place after it.
UpTo(t, i, hit) == [chunk |-> SubSeq(t, i, hit.at - 1), stop |-> hit.stop, next |-> hit.at + Len(hit.stop)]
Earliest(hits) == CHOOSE h \in hits : \A o \in hits : h.at <= o.at
read_until(t, i, stops) ==
    LET hits == {h \in {[at |-> Find(t, s, i), stop |-> s] : s \in stops} : h.at # 0} IN
    IF hits = {} THEN [chunk |-> Rest(t, i), stop |-> <<>>, next |-> Len(t) + 1] ELSE UpTo(t, i, Earliest(hits))

\* The text between two marks, and the place after the second; 0 when either is missing.
Within(t, from, close, c) ==
    IF from = 0 \/ c = 0 THEN [text |-> <<>>, next |-> 0]
    ELSE [text |-> SubSeq(t, from, c - 1), next |-> c + Len(close)]
Begun(t, from, close) == Within(t, from, close, Find(t, close, from))
Between(t, open, close, from) ==
    LET o == Find(t, open, from) IN Begun(t, IF o = 0 THEN 0 ELSE o + Len(open), close)

Unframed == [ok |-> FALSE]

\* A parameter's block: its key, whether it is a string, and its value.
LessThan(raw) == IF raw # <<>> /\ raw[Len(raw)] = "<" THEN SubSeq(raw, 1, Len(raw) - 1) ELSE raw
ReadAs(block, key, kind) ==
    [ok |-> kind # 0 /\ SubSeq(block, key.next, kind - 1) \in {<<"true">>, <<"false">>},
     key |-> key.text, string |-> SubSeq(block, key.next, kind - 1) = <<"true">>,
     value |-> LessThan(Rest(block, kind + 2))]
KeyRead(block, key) ==
    IF key.next = 0 THEN Unframed ELSE ReadAs(block, key, Find(block, <<DQ, ">">>, key.next))
ReadParameter(block) == KeyRead(block, Between(block, NameEq, StringEq, 1))
ArgText(p) == json_quote(p.key) \o <<":", SP>> \o (IF p.string THEN json_quote(p.value) ELSE p.value)

RECURSIVE Parameters(_, _, _, _), Parameter1(_, _, _, _, _)
\* The parameters of one invoke, r being the read that ended its header; one of them, p,
\* and the read after it.
Parameters(t, r, seen, args) ==
    IF r.stop # ParOpen THEN [ok |-> TRUE, args |-> <<"{">> \o args \o <<"}">>, next |-> r.next]
    ELSE LET b == read_until(t, r.next, {ParClose}) IN
         Parameter1(t, read_until(t, b.next, {ParOpen, InvClose}), ReadParameter(b.chunk), seen, args)
Parameter1(t, after, p, seen, args) ==
    IF ~p.ok \/ p.key \in seen \/ after.chunk # <<">", LF>> THEN Unframed
    ELSE Parameters(t, after, seen \cup {p.key}, args \o (IF args = <<>> THEN <<>> ELSE <<",", SP>>) \o ArgText(p))

RECURSIVE Invokes(_, _, _), Headed(_, _, _), Invoked(_, _, _, _)
\* The invokes of a block from i on; the one whose header is h and parameters ps.
Invokes(t, i, calls) ==
    IF i > Len(t) THEN [ok |-> TRUE, calls |-> calls, next |-> i]
    ELSE LET r == read_until(t, i, {InvOpen, TcClose}) IN
         IF r.chunk # <<">", LF>> \/ r.stop = <<>> THEN Unframed
         ELSE IF r.stop = TcClose THEN [ok |-> TRUE, calls |-> calls, next |-> r.next]
         ELSE Headed(t, read_until(t, r.next, {ParOpen, InvClose}), calls)
Headed(t, h, calls) ==
    Invoked(t, Between(h.chunk, NameEq, <<DQ, ">", LF>>, 1), Parameters(t, h, {}, <<>>), calls)
Invoked(t, name, ps, calls) ==
    IF name.next = 0 \/ ~ps.ok THEN Unframed
    ELSE Invokes(t, ps.next, Append(calls, [name |-> name.text, arguments |-> ps.args]))

Loose(t) == \E s \in {<<"BOS">>, EosStr, <<"<think>">>, ThinkEnd, <<"DSML">>} : Find(t, s, 1) # 0
\* A turn's reasoning, content and calls; a turn that does not frame is all content.
Framed(text, th, c, inv) ==
    IF \/ th.stop # ThinkEnd \/ ~inv.ok \/ Loose(c.chunk) \/ Loose(th.chunk)
       \/ c.stop = ToolCallsOpen /\ read_until(text, inv.next, {EosStr}).chunk # <<>>
    THEN [ok |-> FALSE, content |-> text, reasoning |-> <<>>, calls |-> <<>>]
    ELSE [ok |-> TRUE, content |-> c.chunk, reasoning |-> th.chunk, calls |-> inv.calls]
ContentRead(text, th, c) ==
    Framed(text, th, c, IF c.stop = ToolCallsOpen THEN Invokes(text, c.next, <<>>)
                        ELSE [ok |-> TRUE, calls |-> <<>>, next |-> c.next])
ThoughtRead(text, th) == ContentRead(text, th, read_until(text, th.next, {EosStr, ToolCallsOpen}))
parse_completion(text, thinking) ==
    ThoughtRead(text, IF thinking THEN read_until(text, 1, {ThinkEnd, ToolCallsOpen})
                      ELSE [chunk |-> <<>>, stop |-> ThinkEnd, next |-> 1])

=============================================================================
