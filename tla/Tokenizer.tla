----------------------------- MODULE Tokenizer -----------------------------
(***************************************************************************)
(* Text to ids and back: the added tokens, the three stages of the          *)
(* pre-tokeniser, the merges, and the reading of tokenizer.json.  An atom  *)
(* stands for a byte and for its printable image, which are one to one; an *)
(* id is the text it decodes to and whether it is an added token.  The     *)
(* vocabulary is whole: it has every single atom and every merge.          *)
(***************************************************************************)
EXTENDS JsonText

CONSTANTS TokenizerJson     \* the file's text
CJK == {"kanji"}
Digits == {"0", "1", "2"}
Punct == {"<", "/", ">", "{", "}", "[", "]", DQ, BS, ",", ":"}
NonAscii == {"lead", "trail"}      \* the two bytes of a character outside ASCII
is_digit_cp(a) == a \in Digits
is_cjk_cp(a) == a \in CJK
is_nl_cp(a) == a = LF
is_space_cp(a) == a \in {SP, LF}
is_punct_cp(a) == a \in Punct
is_letter_cp(a) == a \notin Digits \cup Punct \cup {SP, LF}
IsAsciiLetter(a) == is_letter_cp(a) /\ a \notin NonAscii \cup CJK

Atoms(s) == {s[k] : k \in DOMAIN s}

\* The end of the run of atoms of a kind that starts at i; i when there is none.
RunEnd(s, i, kind) == MinOf({k \in i..Len(s) : s[k] \notin kind} \cup {Len(s) + 1})

-----------------------------------------------------------------------------
(* tokenizer.json. *)

\* The closing quote of the string that opens at q0: one after an even run of backslashes.
json_string_end(j, q0) ==
    LET Slashes(i) == i - 1 - MinOf({k \in 0..i - 1 : \A m \in k + 1..i - 1 : j[m] = BS})
        ends == {i \in q0 + 1..Len(j) : j[i] = DQ /\ Slashes(i) % 2 = 0}
    IN  IF ends = {} THEN 0 ELSE MinOf(ends)
RECURSIVE MatchFrom(_, _, _, _, _)
MatchFrom(j, i, open, close, depth) ==
    IF i > Len(j) THEN 0
    ELSE IF j[i] = DQ THEN IF json_string_end(j, i) = 0 THEN 0
                           ELSE MatchFrom(j, json_string_end(j, i) + 1, open, close, depth)
    ELSE IF j[i] = close /\ depth = 1 THEN i
    ELSE MatchFrom(j, i + 1, open, close,
                   IF j[i] = open THEN depth + 1 ELSE IF j[i] = close THEN depth - 1 ELSE depth)
json_match(j, i) == MatchFrom(j, i, j[i], IF j[i] = "{" THEN "}" ELSE "]", 0)

RECURSIVE StringsFrom(_, _, _)
\* Each string from i up to the end of the object or array, with the atom two places
\* after it: in an object, the id.  The id is passed before the next string is looked for.
StringsFrom(j, i, end) ==
    LET q0 == Find(j, <<DQ>>, i)
        q1 == json_string_end(j, q0)
    IN  IF q0 = 0 \/ q0 >= end \/ q1 = 0 THEN <<>>
        ELSE <<[text |-> Unquoted(j, q0 + 1).text, id |-> At(j, q1 + 2)]>>
             \o StringsFrom(j, IF At(j, q1 + 1) = ":" THEN q1 + 3 ELSE q1 + 1, end)
Section(j, name, open) ==
    LET p == Find(j, <<open>>, Find(j, <<DQ, name, DQ>>, 1)) IN StringsFrom(j, p + 1, json_match(j, p))
RECURSIVE ObjectsFrom(_, _, _)
ObjectsFrom(j, i, end) ==
    LET ob == Find(j, <<"{">>, i) IN
    IF ob = 0 \/ ob >= end THEN <<>>
    ELSE <<SubSeq(j, ob, json_match(j, ob))>> \o ObjectsFrom(j, json_match(j, ob) + 1, end)
Content(ent) == Unquoted(ent, Find(ent, <<DQ>>, Find(ent, <<":">>, Find(ent, <<DQ, "content", DQ>>, 1))) + 1).text
RECURSIVE LongestFirst(_)
LongestFirst(ts) ==
    IF ts = {} THEN <<>>
    ELSE LET t == CHOOSE x \in ts : \A y \in ts : Len(y) <= Len(x) IN <<t>> \o LongestFirst(ts \ {t})
load(j) ==
    LET p == Find(j, <<"[">>, Find(j, <<DQ, "added_tokens", DQ>>, 1))
        entries == ObjectsFrom(j, p + 1, json_match(j, p))
    IN  [vocab |-> Section(j, "vocab", "{"), merges |-> Section(j, "merges", "["),
         added |-> LongestFirst({Content(entries[k]) : k \in DOMAIN entries})]
Loaded == load(TokenizerJson)

-----------------------------------------------------------------------------
(* Encoding. *)

\* A merge's place in the file is its rank; 0 is none.
RankIn(merges, text) == LET at == {k \in DOMAIN merges : merges[k].text = text} IN IF at = {} THEN 0 ELSE MinOf(at)
merge_rank(l, r) == RankIn(Loaded.merges, l \o <<SP>> \o r)
\* The pair that merges first, leftmost of its rank; 0 when none merges.
FirstPair(rank) ==
    LET pairs == {i \in DOMAIN rank : rank[i] # 0} IN
    IF pairs = {} THEN 0
    ELSE CHOOSE i \in pairs : \A k \in pairs : rank[i] < rank[k] \/ (rank[i] = rank[k] /\ i <= k)
BestPair(sym) == FirstPair([i \in 1..Len(sym) - 1 |-> merge_rank(sym[i], sym[i + 1])])
RECURSIVE Merge(_, _)
Merge(sym, at) ==
    IF at = 0 THEN sym
    ELSE LET merged == SubSeq(sym, 1, at - 1) \o <<sym[at] \o sym[at + 1]>> \o Rest(sym, at + 2) IN
         Merge(merged, BestPair(merged))
BytesOf(piece) == [i \in DOMAIN piece |-> <<piece[i]>>]
bpe(piece) == Merge(BytesOf(piece), BestPair(BytesOf(piece)))

RECURSIVE DigitRuns(_, _)
DigitRuns(s, i) ==
    IF i > Len(s) THEN <<>>
    ELSE LET j == RunEnd(s, i, {a \in Atoms(s) : is_digit_cp(a) = is_digit_cp(s[i])})
             k == IF is_digit_cp(s[i]) /\ j - i > 3 THEN i + 3 ELSE j
         IN  <<SubSeq(s, i, k - 1)>> \o DigitRuns(s, k)
RECURSIVE CjkRuns(_, _)
CjkRuns(s, i) ==
    IF i > Len(s) THEN <<>>
    ELSE LET j == RunEnd(s, i, {a \in Atoms(s) : is_cjk_cp(a) = is_cjk_cp(s[i])})
         IN  <<SubSeq(s, i, j - 1)>> \o CjkRuns(s, j)

\* The end of the piece the pattern finds at i, its alternatives in their order; i for none.
PieceEnd(s, i) ==
    LET c == s[i]
        letter == {a \in Atoms(s) : is_letter_cp(a)}
        ascii == {a \in Atoms(s) : IsAsciiLetter(a)}
        mark == {a \in Atoms(s) : is_punct_cp(a)}
        space == {a \in Atoms(s) : is_space_cp(a)}
        newline == {a \in Atoms(s) : is_nl_cp(a)}
        word == IF is_punct_cp(c) THEN RunEnd(s, i + 1, ascii) ELSE i + 1
        b0 == IF is_nl_cp(c) \/ is_letter_cp(c) \/ is_punct_cp(c) THEN i ELSE i + 1
        b == RunEnd(s, b0, letter)
        c0 == IF c = SP THEN i + 1 ELSE i
        c1 == RunEnd(s, c0, mark)
        d0 == RunEnd(s, i, space \ newline)
        d == RunEnd(s, d0, newline)
        e == RunEnd(s, i, space)
    IN  IF word > i + 1 THEN word
        ELSE IF b > b0 THEN b
        ELSE IF c1 > c0 THEN RunEnd(s, c1, newline)
        ELSE IF d > d0 THEN d
        ELSE IF e <= Len(s) /\ e - i > 1 THEN e - 1 ELSE e
RECURSIVE PatternPieces(_, _, _)
\* What no alternative matches waits in pending and is one piece.
PatternPieces(s, pending, i) ==
    LET e == PieceEnd(s, i)
        held == IF i > pending THEN <<SubSeq(s, pending, i - 1)>> ELSE <<>>
    IN  IF i > Len(s) THEN held
        ELSE IF e = i THEN PatternPieces(s, pending, i + 1)
        ELSE held \o <<SubSeq(s, i, e - 1)>> \o PatternPieces(s, e, e)

OverAll(F(_), parts) == Flat([k \in DOMAIN parts |-> F(parts[k])])
Pattern(s) == PatternPieces(s, 1, 1)
Cjk(s) == CjkRuns(s, 1)
pretokenize(text) == OverAll(Pattern, OverAll(Cjk, DigitRuns(text, 1)))

Pieces(sym) == [k \in DOMAIN sym |-> [added |-> FALSE, text |-> sym[k]]]
Ids(piece) == Pieces(bpe(piece))
Plain(span) == OverAll(Ids, pretokenize(span))
RECURSIVE EncodeFrom(_, _, _)
\* The added tokens are matched in the raw text from `at' on, longest first.
EncodeFrom(text, added, at) ==
    LET Hits(i) == {k \in DOMAIN added : MatchAt(text, i, added[k])}
        i == MinOf({k \in at..Len(text) : Hits(k) # {}} \cup {Len(text) + 1})
        hit == added[MinOf(Hits(i))]
    IN  Plain(SubSeq(text, at, i - 1))
        \o (IF i > Len(text) THEN <<>>
            ELSE <<[added |-> TRUE, text |-> hit]>> \o EncodeFrom(text, added, i + Len(hit)))
encode(text) == EncodeFrom(text, Loaded.added, 1)
decode_one(id) == id.text
decode(ids) == OverAll(decode_one, ids)

=============================================================================
