---------------------------- MODULE RequestText ----------------------------
(***************************************************************************)
(* The text of two rounds of one conversation, from the client's request to *)
(* the prompt, and from the model's tokens to what the client has read: the *)
(* connection thread of Server::serve_one and the handler it calls, as far *)
(* as text goes (Serve models the slots, the caches and the draft).  The   *)
(* client sends a request in packets of any size; the model writes a turn  *)
(* in tokens of any size, and the budget, a stop string or the client may  *)
(* cut it anywhere; the client puts the reply it read into its next        *)
(* request.                                                                *)
(***************************************************************************)
EXTENDS Wire, ChatEncode, Tokenizer

CONSTANTS
  Requests,       \* first requests: what the client means
  Turns(_, _),    \* what the model may write, by thinking mode and by whether it has tools
  Followups,      \* what the client says next: at most one message
  TokenSizes,     \* atoms in a token
  PacketSizes     \* atoms in a packet

VARIABLES
  phase,     \* "recv", "generate", "answered", "gone"
  ask,       \* the client's request, as it means it
  wire,      \* the bytes it sends: [bytes, chunked, length]
  got,       \* atoms of them received
  req,       \* the CompletionRequest, NONE before it is parsed
  prompt,    \* the prompt's text, <<>> before it is encoded
  turn,      \* what the model writes
  out,       \* the handler's locals: raw, streamed, think_streamed, open_think, saw_marker
  made,      \* atoms of the turn decoded
  heard,     \* what the client has read: [reasoning, content, calls, finish, opened]
  status,    \* the answer's status line, or "error" in a stream
  past       \* the round before: [prompt, raw, framed], NONE in the first

rvars == <<phase, ask, wire, got, req, prompt, turn, out, made, heard, status, past>>

-----------------------------------------------------------------------------
(* The client: a message is [role, texts, typed, reasoning, calls]; typed   *)
(* content is an array of blocks.                                           *)

Said(role, text) == [role |-> role, texts |-> <<text>>, typed |-> FALSE, reasoning |-> <<>>, calls |-> <<>>]
Block(text) == Object(<<Member("type", json_quote(<<"text">>)), Member("text", json_quote(text))>>)
MessageJson(m) == Object(
    <<Member("role", json_quote(<<m.role>>)),
      Member("content", IF m.typed THEN Array([k \in DOMAIN m.texts |-> Block(m.texts[k])])
                        ELSE json_quote(m.texts[1]))>>
    \o (IF m.reasoning = <<>> THEN <<>> ELSE <<Member("reasoning_content", json_quote(m.reasoning))>>)
    \o CallsMember(m.calls))
WrapTool(fn) == Object(<<Member("type", json_quote(<<"function">>)), Member("function", fn)>>)
Optional(key, value) == IF value = <<>> THEN <<>> ELSE <<Member(key, value)>>
BodyJson(a) == Object(
    Optional("tools", IF a.tools = <<>> THEN <<>> ELSE Array([k \in DOMAIN a.tools |-> WrapTool(a.tools[k])]))
    \o Optional("tool_choice", IF a.choice = "" THEN <<>> ELSE json_quote(<<a.choice>>))
    \o Optional("response_format", a.format)
    \o Optional("stop", IF a.stop = <<>> THEN <<>> ELSE Array([k \in DOMAIN a.stop |-> json_quote(a.stop[k])]))
    \o <<IF a.path = "chat" THEN Member("messages", Array([k \in DOMAIN a.messages |-> MessageJson(a.messages[k])]))
         ELSE Member("prompt", json_quote(a.messages[1].texts[1]))>>
    \o <<Member("thinking_mode", json_quote(<<a.mode>>)), Member("n", <<SP, a.n>>),
         Member("stream", <<IF a.stream THEN "true" ELSE "false">>)>>)
Chunk(data) == <<ToString(Len(data)), CRLF>> \o data \o <<CRLF>>
Sends(a) ==
    LET body == BodyJson(a)
        half == Len(body) \div 2
        chunks == Chunk(SubSeq(body, 1, half)) \o Chunk(Rest(body, half + 1)) \o <<"0", CRLF, CRLF>>
    IN  [bytes |-> <<"head">> \o HeaderEnd \o IF a.chunked THEN chunks ELSE body,
         chunked |-> a.chunked, length |-> Len(body)]

\* What the request means: the message the engine should see.
Meaning(m) == [role |-> RoleOf(m.role), reasoning |-> m.reasoning, calls |-> m.calls,
               content |-> Joined(SelectSeq(m.texts, LAMBDA t : t # <<>>), Blank2)]

Silence == [reasoning |-> <<>>, content |-> <<>>, calls |-> <<>>, finish |-> "", opened |-> FALSE]
NoOutput == [raw |-> <<>>, streamed |-> 0, think_streamed |-> 0, open_think |-> FALSE, saw_marker |-> FALSE]

RequestInit ==
    /\ phase = "recv" /\ ask \in Requests /\ wire = Sends(ask) /\ got = 0 /\ req = NONE /\ prompt = <<>>
    /\ turn = <<>> /\ out = NoOutput /\ made = 0 /\ heard = Silence /\ status = "" /\ past = NONE

-----------------------------------------------------------------------------
(* The request. *)

\* recv appends what one packet carries, and the loop looks again.
Recv ==
    /\ phase = "recv" /\ ~Whole(wire, SubSeq(wire.bytes, 1, got))
    /\ \E k \in PacketSizes : got' = MinOf({got + k, Len(wire.bytes)})
    /\ UNCHANGED <<phase, ask, wire, req, prompt, turn, out, made, heard, status, past>>

Answer(s) == phase' = "answered" /\ status' = s
Received == /\ phase = "recv" /\ req = NONE /\ Whole(wire, SubSeq(wire.bytes, 1, got))
            /\ UNCHANGED <<ask, wire, got, turn, out, made, heard, past>>
\* OPTIONS, the model list and anything unknown are answered without the engine.
Route == /\ Received /\ ask.path \notin {"chat", "completions"}
         /\ Answer(CASE ask.path = "options" -> "204" [] ask.path = "models" -> "200" [] OTHER -> "404")
         /\ UNCHANGED <<req, prompt>>
ReadBody ==
    /\ Received /\ ask.path \in {"chat", "completions"}
    /\ LET r == parse_completion_request(BodyOf(wire, SubSeq(wire.bytes, 1, got)), ask.path = "chat") IN
       IF Parsed(r) THEN req' = r /\ UNCHANGED <<phase, status>> ELSE Answer("400") /\ req' = r
    /\ UNCHANGED prompt

Thinking == req.mode # "chat"
Msgs0 == IF req.messages = <<>> THEN <<ChatMsg("user", req.prompt)>>
         ELSE [k \in DOMAIN req.messages |->
                 [ChatMsg(req.messages[k].role, req.messages[k].content)
                    EXCEPT !.reasoning = req.messages[k].reasoning, !.calls = req.messages[k].calls]]
WantTools == req.tools # <<>> /\ req.choice # "none"
\* Tools and the schema ride on the first system message; one is made to carry them.
Msgs ==
    IF ~WantTools /\ req.format = <<>> THEN Msgs0
    ELSE LET ms == IF Msgs0[1].role = "system" THEN Msgs0 ELSE <<ChatMsg("system", <<>>)>> \o Msgs0 IN
         [ms EXCEPT ![1].tools = IF WantTools THEN req.tools ELSE <<>>, ![1].format = req.format]
Roles == {"system", "user", "assistant", "tool", "latest_reminder"}
AnyText == \E k \in DOMAIN Msgs : Msgs[k].content # <<>> \/ Msgs[k].calls # <<>> \/ Msgs[k].tools # <<>>
Refused == \/ \E k \in DOMAIN Msgs0 : Msgs0[k].role \notin Roles
           \/ req.n # "1"
           \/ req.choice \notin {"", "auto", "none"}
           \/ ~AnyText
Effort == IF req.effort \in {"low", "high"} THEN req.effort ELSE "max"

Handling == phase = "recv" /\ req # NONE /\ prompt = <<>> /\ UNCHANGED <<ask, wire, got, req, made, heard, past>>
\* The handler sets the error; a stream carries it as an event under its 200.
Refuse == Handling /\ Refused /\ Answer(IF req.stream THEN "error" ELSE "400") /\ UNCHANGED <<prompt, turn, out>>
Encode ==
    /\ Handling /\ ~Refused
    /\ phase' = "generate"
    /\ prompt' = encode_messages(Msgs, Thinking, Effort)
    /\ turn' \in IF past = NONE THEN Turns(Thinking, WantTools) ELSE {<<>>}
    /\ out' = [NoOutput EXCEPT !.open_think = Thinking]
    /\ UNCHANGED status

-----------------------------------------------------------------------------
(* The reply, a token at a time: the lambda the handler hands spec_decode.   *)

\* The cut backed up to the last complete character of two bytes.
utf8_end(s, end) == IF end > 0 /\ s[end] = "lead" THEN end - 1 ELSE end
\* How much of the text before `safe' could still become the sentinel.
HalfSeen(raw, from, safe, sen) ==
    LET backs == {b \in 1..Len(sen) - 1 : b <= safe - from /\ MatchAt(raw, safe - b + 1, SubSeq(sen, 1, b))} IN
    IF backs = {} THEN 0 ELSE CHOOSE b \in backs : \A c \in backs : c <= b
HeldMarkerOnly(raw, from, safe, sentinels) ==
    IF sentinels = <<>> THEN safe ELSE safe - HalfSeen(raw, from, safe, sentinels[Len(sentinels)])
RECURSIVE HeldBack(_, _, _, _)
HeldBack(raw, from, safe, sentinels) ==
    IF sentinels = <<>> THEN safe
    ELSE HeldBack(raw, from, safe - HalfSeen(raw, from, safe, sentinels[1]), Tail(sentinels))

\* The stream's own reading of a delta: an object with the piece, escaped.
Read(channel, piece) == StringAt(DeltaJson(channel, piece, heard.opened), channel)
Hear(h, channel, piece) ==
    IF ~req.stream \/ piece = <<>> \/ (ask.path # "chat" /\ channel = "reasoning_content") THEN h
    ELSE IF channel = "content" THEN [h EXCEPT !.content = @ \o Read(channel, piece), !.opened = TRUE]
    ELSE [h EXCEPT !.reasoning = @ \o Read(channel, piece), !.opened = TRUE]

\* While the block is open: what may go out as reasoning, and whether it has closed.
Think(o) ==
    LET te == Find(o.raw, ThinkEnd, 1)
        safe == IF te # 0 THEN te - 1
                ELSE utf8_end(o.raw, HeldBack(o.raw, o.think_streamed, Len(o.raw), <<ThinkEnd>>))
        end == IF safe > o.think_streamed THEN safe ELSE o.think_streamed
    IN  [piece |-> SubSeq(o.raw, o.think_streamed + 1, end),
         out |-> [o EXCEPT !.think_streamed = end, !.open_think = te = 0,
                           !.streamed = IF te = 0 THEN @ ELSE te - 1 + Len(ThinkEnd)]]
\* After it: what may go out as content, up to the tool marker or a stop string.
Speak(o) ==
    LET at == Find(o.raw, ToolCallsOpen, o.streamed + 1)
        marked == at # 0
        stops == {Find(o.raw, req.stop[k], o.streamed + 1) : k \in DOMAIN req.stop} \ {0}
        limit == IF marked THEN at - 1 ELSE Len(o.raw)
        hit == stops # {} /\ MinOf(stops) - 1 <= limit
        safe == IF hit THEN MinOf(stops) - 1
                ELSE IF marked THEN limit
                ELSE utf8_end(o.raw, HeldBack(o.raw, o.streamed, limit, req.stop \o <<ToolCallsOpen>>))
        end == IF safe > o.streamed THEN safe ELSE o.streamed
    IN  [piece |-> SubSeq(o.raw, o.streamed + 1, end), stopped |-> hit,
         out |-> [o EXCEPT !.streamed = end, !.saw_marker = marked,
                           !.raw = IF hit THEN SubSeq(@, 1, safe) ELSE @]]

\* How a turn ends: the last of what was held back, then the whole text parsed.
Flushed(o, h) ==
    IF o.open_think THEN Hear(h, "reasoning_content", Rest(o.raw, o.think_streamed + 1))
    ELSE IF ~o.saw_marker THEN Hear(h, "content", Rest(o.raw, o.streamed + 1)) ELSE h
\* Thinking that never closed: calls made inside it are recovered.
Unclosed(raw, r) ==
    IF r.ok /\ r.calls # <<>>
    THEN [content |-> <<>>, reasoning |-> r.content, calls |-> r.calls, finish |-> "tool_calls"]
    ELSE [content |-> <<>>, reasoning |-> raw, calls |-> <<>>, finish |-> "length"]
Closing(raw, pm, end) ==
    IF ~pm.ok THEN [content |-> raw, reasoning |-> <<>>, calls |-> <<>>, finish |-> end]
    ELSE [content |-> pm.content, reasoning |-> pm.reasoning, calls |-> pm.calls,
          finish |-> IF pm.calls = <<>> THEN end ELSE "tool_calls"]
Finished(raw, hit_budget) ==
    LET open == Thinking /\ Find(raw, ThinkEnd, 1) = 0
        read == parse_completion(raw \o EosStr, Thinking /\ ~open)
    IN  IF open THEN Unclosed(raw, read) ELSE Closing(raw, read, IF hit_budget THEN "length" ELSE "stop")

\* What the client makes of the answer: the deltas and the last events of a stream,
\* or one reply read with a JSON reader.
ReadCalls(j) == NamedCalls(raw_elements(raw_value(j, "tool_calls")))
ReplyRead(j, m) ==
    [reasoning |-> StringAt(m, "reasoning_content"), calls |-> ReadCalls(m), opened |-> TRUE,
     content |-> IF ask.path = "chat" THEN StringAt(m, "content") ELSE StringAt(j, "text"),
     finish |-> Word(StringAt(j, "finish_reason"))]
ObjectRead(j) == ReplyRead(j, raw_value(j, "message"))
Closed(h, res) ==
    IF req.stream
    THEN [h EXCEPT !.finish = res.finish,
                   !.calls = IF ask.path # "chat" THEN <<>> ELSE ReadCalls(Object(CallsMember(res.calls)))]
    ELSE ObjectRead(ReplyJson(res, ask.path = "chat"))
Ended(o, h, hit_budget) ==
    /\ out' = o
    /\ heard' = Closed(Flushed(o, h), Finished(o.raw, hit_budget))
    /\ Answer("200")

\* The second round's turn is not followed: its prompt is what the first is compared with.
Generating == phase = "generate" /\ past = NONE /\ UNCHANGED <<ask, wire, got, req, prompt, turn, past>>
\* One token: decoded, and as much as is safe put on its channel.
Token ==
    /\ Generating /\ made < Len(turn)
    /\ \E k \in TokenSizes :
       LET upto == MinOf({made + k, Len(turn)})
           o1 == [out EXCEPT !.raw = @ \o SubSeq(turn, made + 1, upto)]
           r == IF o1.open_think THEN Think(o1) ELSE [piece |-> <<>>, out |-> o1]
           h1 == Hear(heard, "reasoning_content", r.piece)
           c == IF r.out.open_think \/ r.out.saw_marker THEN [piece |-> <<>>, stopped |-> FALSE, out |-> r.out]
                ELSE Speak(r.out)
           h2 == Hear(h1, "content", c.piece)
       IN  /\ made' = upto
           /\ IF c.stopped THEN Ended(c.out, h2, FALSE)
              ELSE out' = c.out /\ heard' = h2 /\ UNCHANGED <<phase, status>>
\* The turn ends with EOS, which may also be the last token of the budget.
Eos == Generating /\ made = Len(turn) /\ (\E hit \in BOOLEAN : Ended(out, heard, hit)) /\ UNCHANGED made
\* The budget ends it at any token.
Budget == Generating /\ made > 0 /\ made < Len(turn) /\ Ended(out, heard, TRUE) /\ UNCHANGED made
\* A send fails: the sink returns false, the generation stops and nothing more is written.
Hangup == Generating /\ req.stream /\ made > 0 /\ phase' = "gone" /\ UNCHANGED <<out, made, heard, status>>

-----------------------------------------------------------------------------
(* The next round: the client appends the reply it read. *)

Reply == [role |-> "assistant", texts |-> <<heard.content>>, typed |-> FALSE,
          reasoning |-> heard.reasoning, calls |-> heard.calls]
Again ==
    /\ phase = "answered" /\ status = "200" /\ past = NONE /\ ask.path = "chat" /\ prompt # <<>>
    /\ \E next \in Followups : ask' = [ask EXCEPT !.messages = @ \o <<Reply>> \o next]
    /\ past' = [prompt |-> prompt, raw |-> out.raw,
                framed |-> parse_completion(out.raw \o EosStr, Thinking).ok
                           /\ (heard.calls = <<>> \/ made = Len(turn))]
    /\ phase' = "recv" /\ wire' = Sends(ask') /\ got' = Len(wire'.bytes) /\ req' = NONE /\ prompt' = <<>> /\ turn' = <<>>
    /\ out' = NoOutput /\ made' = 0 /\ heard' = Silence /\ status' = ""

RequestNext == Recv \/ Route \/ ReadBody \/ Refuse \/ Encode \/ Token \/ Eos \/ Budget \/ Hangup \/ Again

-----------------------------------------------------------------------------
(* Properties. *)

\* The handler is given what the client meant: its messages, tools, stops and switches,
\* through any packets, chunks and escapes, whatever brackets and quotes the texts hold; and
\* the ids of the prompt decode to the prompt.
RequestReadsBack ==
    /\ req # NONE =>
         /\ req.tools = ask.tools /\ req.format = ask.format /\ req.stop = ask.stop
         /\ req.choice = ask.choice /\ req.stream = ask.stream /\ req.n = ask.n /\ req.mode = ask.mode
         /\ IF ask.path = "chat" THEN req.messages = [k \in DOMAIN ask.messages |-> Meaning(ask.messages[k])]
            ELSE req.prompt = ask.messages[1].texts[1]
    /\ phase = "generate" /\ made = 0 => decode(encode(prompt)) = prompt

\* A client that sends its reply back asks for a prompt that extends the last one and what
\* the model wrote after it, which is what the prefix cache holds.  It does not when a later
\* user turn drops the reasoning, which the encoder does only without tools.
ReplayExtendsTranscript ==
    past # NONE /\ past.framed /\ prompt # <<>> /\ (~Thinking \/ WantTools \/ Msgs[Len(Msgs)].role = "assistant")
    => LET was == past.prompt \o past.raw \o EosStr IN MatchAt(prompt, 1, was)

\* A streaming client has been given exactly the reply a waiting one gets, on the same
\* channels: no markup, no half of a stop string, and nothing held back for ever.
StreamSaysTheReply ==
    phase = "answered" /\ status = "200" /\ prompt # <<>>
        /\ parse_completion(out.raw \o EosStr, Thinking).ok
    => LET res == Finished(out.raw, FALSE) IN
       /\ heard.content = res.content /\ heard.calls = (IF ask.path = "chat" THEN res.calls ELSE <<>>)
       /\ ask.path = "chat" => heard.reasoning = res.reasoning
       /\ \A k \in DOMAIN req.stop : Find(heard.content, req.stop[k], 1) = 0
=============================================================================
