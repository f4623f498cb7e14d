----------------------------- MODULE JsonText -----------------------------
(***************************************************************************)
(* JSON as the server and the chat encoder read it, by scanning text and    *)
(* never by building a value, and as the server writes it.  A text is a     *)
(* sequence of atoms; an atom is a quote, a backslash, a bracket, a          *)
(* separator, a blank, or a word that stands for any run of characters the  *)
(* scanners treat alike.  Numbers, the many escapes and the encoding of     *)
(* characters are not told apart: an escape is a backslash and one atom,    *)
(* and LF stands for every control character.                               *)
(***************************************************************************)
EXTENDS Integers, Sequences, FiniteSets, SequencesExt

DQ == "\""
BS == "\\"
LF == "\n"
SP == " "

NONE == [none |-> TRUE]            \* std::string::npos, a null pointer

At(s, i) == IF i \in DOMAIN s THEN s[i] ELSE "EOF"
Rest(s, i) == SubSeq(s, i, Len(s))
MinOf(S) == CHOOSE x \in S : \A y \in S : x <= y
\* s.compare(i, len(pat), pat) == 0
MatchAt(s, i, pat) == i + Len(pat) - 1 <= Len(s) /\ \A k \in DOMAIN pat : s[i + k - 1] = pat[k]
\* s.find(pat, i): 0 is npos
Find(s, pat, i) == LET at == {k \in i..Len(s) : MatchAt(s, k, pat)} IN IF at = {} THEN 0 ELSE MinOf(at)
Flat(parts) == FlattenSeq(parts)
Joined(parts, sep) ==
    Flat([k \in 1..2 * Len(parts) - 1 |-> IF k % 2 = 1 THEN parts[(k + 1) \div 2] ELSE sep])

Opens == {"{", "["}
Closes == {"}", "]"}
IsBlank(a) == a \in {SP, LF}
SkipWs(s, i) == CHOOSE k \in i..i + Len(s) : ~IsBlank(At(s, k)) /\ \A b \in i..k - 1 : IsBlank(At(s, b))

-----------------------------------------------------------------------------
(* The scan every reader shares: inside a string or not, and the depth of    *)
(* brackets, which only text outside a string can change.                    *)

\* An atom is escaped after an odd run of backslashes.
Escaped(s, i) ==
    /\ i > 1 /\ s[i - 1] = BS
    /\ Cardinality({k \in 1..i - 1 : \A m \in k..i - 1 : s[m] = BS}) % 2 = 1
InString(q, i) == Cardinality({k \in q.quotes : k < i}) % 2 = 1
Scan(s, open, close) ==
    LET q == [quotes |-> {i \in DOMAIN s : s[i] = DQ /\ ~Escaped(s, i)}]
        Outside(kind) == {i \in DOMAIN s : s[i] \in kind /\ ~InString(q, i)}
    IN  [quotes |-> q.quotes, opens |-> Outside(open), closes |-> Outside(close)]
\* The depth before atom i.
Depth(q, i) == Cardinality({k \in q.opens : k < i}) - Cardinality({k \in q.closes : k < i})

\* The place after the colon of a top-level key; 0 when there is none.
TopKeys(s, key, q) ==
    {i \in DOMAIN s : /\ MatchAt(s, i, <<DQ, key, DQ>>) /\ At(s, SkipWs(s, i + 3)) = ":"
                      /\ ~InString(q, i) /\ Depth(q, i) = 1}
AfterColon(s, keys) == IF keys = {} THEN 0 ELSE SkipWs(s, MinOf(keys) + 3) + 1
find_top_key(s, key) == AfterColon(s, TopKeys(s, key, Scan(s, Opens, Closes)))

Unescaped(a) == IF a = "n" THEN LF ELSE a
\* The text from i up to the closing quote, and the place after it.
Unquoted(s, i) ==
    LET t == Rest(s, i)
        ends == {k \in DOMAIN t : t[k] = DQ /\ ~Escaped(t, k)}
        end == IF ends = {} THEN Len(t) ELSE MinOf(ends) - 1
        Char(k) == IF Escaped(t, k) THEN <<Unescaped(t[k])>> ELSE IF t[k] = BS THEN <<>> ELSE <<t[k]>>
    IN  [text |-> Flat([k \in 1..end |-> Char(k)]), next |-> i + end + (IF ends = {} THEN 0 ELSE 1)]
read_json_string(s, p) ==
    LET i == SkipWs(s, p) IN IF At(s, i) = DQ THEN Unquoted(s, i + 1) ELSE [text |-> <<>>, next |-> i]
\* A member that is a string; the empty string when it is absent.
StringFrom(s, p) == IF p = 0 THEN <<>> ELSE read_json_string(s, p).text
StringAt(s, key) == StringFrom(s, find_top_key(s, key))

\* The span of a bracketed value: only brackets of its own kind are counted.
UpToClose(t, q) ==
    LET ends == {k \in q.closes : Depth(q, k) = 1} IN IF ends = {} THEN <<>> ELSE SubSeq(t, 1, MinOf(ends))
Bracketed(t) ==
    IF At(t, 1) \in Opens THEN UpToClose(t, Scan(t, {t[1]}, {IF t[1] = "{" THEN "}" ELSE "]"})) ELSE <<>>
ValueFrom(s, p) == IF p = 0 THEN <<>> ELSE Bracketed(Rest(s, SkipWs(s, p)))
raw_value(s, key) == ValueFrom(s, find_top_key(s, key))

\* The bracketed elements of an array, in order.
ElementEnd(arr, q, k) == MinOf({e \in q.closes : e > k /\ Depth(q, e) = 2} \cup {Len(arr) + 1})
Element(arr, q, k) ==
    IF k \in q.opens /\ Depth(q, k) = 1 /\ ElementEnd(arr, q, k) <= Len(arr)
    THEN <<SubSeq(arr, k, ElementEnd(arr, q, k))>> ELSE <<>>
raw_elements(arr) == LET q == Scan(arr, Opens, Closes) IN Flat([k \in DOMAIN arr |-> Element(arr, q, k)])

EscapedChar(a) == IF a \in {DQ, BS} THEN <<BS, a>> ELSE IF a = LF THEN <<BS, "n">> ELSE <<a>>
json_escape(t) == Flat([k \in DOMAIN t |-> EscapedChar(t[k])])
json_quote(t) == <<DQ>> \o json_escape(t) \o <<DQ>>
json_unquote(v) == LET i == Find(v, <<DQ>>, 1) IN IF i = 0 THEN v ELSE Unquoted(v, i + 1).text
json_is_string(v) == At(v, SkipWs(v, 1)) = DQ

Commas(parts) == Joined(parts, <<",">>)
Member(key, value) == <<DQ, key, DQ, ":">> \o value
Object(members) == <<"{">> \o Commas(members) \o <<"}">>
Array(elements) == <<"[">> \o Commas(elements) \o <<"]">>

\* The separators of json.dumps around the caller's own tokens.
json_compact(s) ==
    LET q == Scan(s, {}, {})
        Token(i) == IF InString(q, i) THEN <<s[i]>>
                    ELSE IF IsBlank(s[i]) THEN <<>>
                    ELSE IF s[i] \in {",", ":"} THEN <<s[i], SP>> ELSE <<s[i]>>
    IN  Flat([i \in DOMAIN s |-> Token(i)])

-----------------------------------------------------------------------------
(* Tool calls as they are read, and what is written: a delta of a stream,    *)
(* the reply.                                                                *)

FunctionOf(tool) == LET fn == raw_value(tool, "function") IN IF fn = <<>> THEN tool ELSE fn
Signature(src) == [name |-> StringAt(src, "name"), arguments |-> StringAt(src, "arguments")]
CallOf(tc) == Signature(FunctionOf(tc))
NamedCalls(tcs) == Flat([k \in DOMAIN tcs |-> IF CallOf(tcs[k]).name = <<>> THEN <<>> ELSE <<CallOf(tcs[k])>>])

CallJson(call) == Object(<<Member("type", json_quote(<<"function">>)),
    Member("function", Object(<<Member("name", json_quote(call.name)),
                                Member("arguments", json_quote(call.arguments))>>))>>)
CallsMember(calls) ==
    IF calls = <<>> THEN <<>> ELSE <<Member("tool_calls", Array([k \in DOMAIN calls |-> CallJson(calls[k])]))>>

DeltaJson(channel, piece, opened) ==
    Object((IF opened THEN <<>> ELSE <<Member("role", json_quote(<<"assistant">>))>>)
           \o <<Member(channel, json_quote(piece))>>)
ReplyJson(res, chat) ==
    Object(<<IF chat
             THEN Member("message", Object(<<Member("role", json_quote(<<"assistant">>)),
                                            Member("content", json_quote(res.content))>>
                  \o (IF res.reasoning = <<>> THEN <<>>
                      ELSE <<Member("reasoning_content", json_quote(res.reasoning))>>)
                  \o CallsMember(res.calls)))
             ELSE Member("text", json_quote(res.content)),
             Member("finish_reason", json_quote(<<res.finish>>))>>)

=============================================================================
