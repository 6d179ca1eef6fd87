----------------------------- MODULE CJsonText -----------------------------
(***************************************************************************)
(* Parsing and printing of cJSON.c, on two levels.  String literals are    *)
(* sequences of bytes, which are numbers: parse_string with its estimate   *)
(* of the memory it needs, the conversion of UTF-16 escapes to UTF-8, and  *)
(* print_string_ptr.  Texts are sequences of tokens: "n" a number, "s" a   *)
(* string literal, "l" null, true or false, " " a blank, and "0" the byte  *)
(* that ends the text, which counts as a blank; what was parsed is printed *)
(* into a buffer that is grown when needed.  The literal or text grows     *)
(* piece by piece and is parsed as a whole.                                *)
(***************************************************************************)
EXTENDS Integers, Sequences

CONSTANTS Pieces,              \* sequences of bytes or of tokens a text is put together from
          MaxPieces,           \* bound on the number of pieces
          CJSON_NESTING_LIMIT

VARIABLES text, count

vars == <<text, count>>

-----------------------------------------------------------------------------
(* String literals.                                                        *)

Quote == 34
Backslash == 92
Failure == [ok |-> FALSE, out |-> <<>>, room |-> 0]

HexDigit == [c \in 0 .. 255 |->
    CASE c \in 48 .. 57 -> c - 48 [] c \in 65 .. 70 -> c - 55 [] c \in 97 .. 102 -> c - 87
      [] OTHER -> -1]

\* An invalid digit makes the whole number 0
parse_hex4(b, i) ==
    LET d == [k \in 0 .. 3 |-> HexDigit[b[i + k]]]
    IN  IF \E k \in 0 .. 3 : d[k] < 0 THEN 0
        ELSE d[0] * 4096 + d[1] * 256 + d[2] * 16 + d[3]

\* Mutant: two bytes for everything below 65536
Utf8Short(cp) ==
    IF cp < 128 THEN <<cp>>
    ELSE IF cp < 65536 THEN <<192 + cp \div 64, 128 + (cp % 64)>>
    ELSE <<240 + cp \div 262144, 128 + ((cp \div 4096) % 64), 128 + ((cp \div 64) % 64), 128 + (cp % 64)>>

Utf8(cp) ==
    IF cp < 128 THEN <<cp>>
    ELSE IF cp < 2048 THEN <<192 + cp \div 64, 128 + (cp % 64)>>
    ELSE IF cp < 65536 THEN <<224 + cp \div 4096, 128 + ((cp \div 64) % 64), 128 + (cp % 64)>>
    ELSE <<240 + cp \div 262144, 128 + ((cp \div 4096) % 64), 128 + ((cp \div 64) % 64), 128 + (cp % 64)>>

\* How many bytes of b from i on, and before end, make one character, and the
\* character; no byte when the literal is wrong
utf16_literal_to_utf8(b, i, end) ==
    LET first == parse_hex4(b, i + 2)
        second == parse_hex4(b, i + 8)
        bad == [len |-> 0, utf8 |-> <<>>]
    IN  IF end - i < 6 THEN bad
        ELSE IF first \in 56320 .. 57343 THEN bad
        ELSE IF first \notin 55296 .. 56319 THEN [len |-> 6, utf8 |-> Utf8(first)]
        ELSE IF end - (i + 6) < 6 THEN bad
        ELSE IF b[i + 6] # Backslash \/ b[i + 7] # 117 THEN bad
        ELSE IF second \notin 56320 .. 57343 THEN bad
        ELSE [len |-> 12, utf8 |-> Utf8(65536 + (first % 1024) * 1024 + (second % 1024))]

\* What a backslash and the byte c stand for
Unescaped == [c \in {98, 102, 110, 114, 116, Quote, Backslash, 47} |->
    CASE c = 98 -> 8 [] c = 102 -> 12 [] c = 110 -> 10 [] c = 114 -> 13 [] c = 116 -> 9
      [] OTHER -> c]

RECURSIVE Scan(_, _, _)
\* The first loop: where the literal ends, and how many bytes escapes save
Scan(b, i, skipped) ==
    IF i > Len(b) THEN [end |-> 0, skipped |-> skipped]
    ELSE IF b[i] = Quote THEN [end |-> i, skipped |-> skipped]
    ELSE IF b[i] # Backslash THEN Scan(b, i + 1, skipped)
    ELSE IF i + 1 > Len(b) THEN [end |-> 0, skipped |-> skipped]
    ELSE Scan(b, i + 2, skipped + 1)

RECURSIVE Copy(_, _, _, _)
\* The second loop
Copy(b, i, end, out) ==
    IF i >= end THEN [ok |-> TRUE, out |-> out]
    ELSE IF b[i] # Backslash THEN Copy(b, i + 1, end, Append(out, b[i]))
    ELSE IF b[i + 1] \in DOMAIN Unescaped
    THEN Copy(b, i + 2, end, Append(out, Unescaped[b[i + 1]]))
    ELSE IF b[i + 1] # 117 THEN [ok |-> FALSE, out |-> out]
    ELSE LET u == utf16_literal_to_utf8(b, i, end)
         IN  IF u.len = 0 THEN [ok |-> FALSE, out |-> out]
             ELSE Copy(b, i + u.len, end, out \o u.utf8)

\* The string at the first byte of b and the room that is allocated for it
parse_string(b) ==
    LET s == Scan(b, 2, 0)
        c == Copy(b, 2, s.end, <<>>)
    IN  IF b[1] # Quote \/ s.end = 0 THEN Failure
        ELSE [ok |-> c.ok, out |-> c.out, room |-> s.end - 1 - s.skipped]

\* A byte as print_string_ptr writes it
Escaped(c) ==
    IF \E e \in DOMAIN Unescaped \ {47} : Unescaped[e] = c
    THEN <<Backslash, CHOOSE e \in DOMAIN Unescaped \ {47} : Unescaped[e] = c>>
    ELSE IF c < 32
    THEN <<Backslash, 117, 48, 48, 48 + c \div 16, IF c % 16 < 10 THEN 48 + (c % 16) ELSE 87 + (c % 16)>>
    ELSE <<c>>

RECURSIVE PrintFrom(_, _)
PrintFrom(s, i) == IF i > Len(s) THEN <<>> ELSE Escaped(s[i]) \o PrintFrom(s, i + 1)

\* A C string ends at its first 0
CString(s) ==
    IF \E i \in 1 .. Len(s) : s[i] = 0
    THEN SubSeq(s, 1, (CHOOSE i \in 1 .. Len(s) : s[i] = 0 /\ \A j \in 1 .. i - 1 : s[j] # 0) - 1)
    ELSE s

print_string_ptr(s) == <<Quote>> \o PrintFrom(CString(s), 1) \o <<Quote>>

RECURSIVE skip_oneline_comment(_, _), skip_multiline_comment(_, _), minify_string(_, _, _)
skip_oneline_comment(b, i) ==
    IF b[i] = 0 THEN i ELSE IF b[i] = 10 THEN i + 1 ELSE skip_oneline_comment(b, i + 1)

skip_multiline_comment(b, i) ==
    IF b[i] = 0 THEN i
    ELSE IF b[i] = 42 /\ b[i + 1] = 47 THEN i + 2 ELSE skip_multiline_comment(b, i + 1)

\* The rest of a string literal is copied; a backslash before a quote takes it along
minify_string(b, i, out) ==
    IF b[i] = 0 THEN [at |-> i, out |-> out]
    ELSE IF b[i] = Quote THEN [at |-> i + 1, out |-> Append(out, Quote)]
    ELSE IF b[i] = Backslash /\ b[i + 1] = Quote
    THEN minify_string(b, i + 2, out \o <<Backslash, Quote>>)
    ELSE minify_string(b, i + 1, Append(out, b[i]))

RECURSIVE cJSON_Minify(_, _, _)
cJSON_Minify(b, i, out) ==
    IF b[i] = 0 THEN out
    ELSE IF b[i] \in {32, 9, 13, 10} THEN cJSON_Minify(b, i + 1, out)
    ELSE IF b[i] = 47
    THEN cJSON_Minify(b, CASE b[i + 1] = 47 -> skip_oneline_comment(b, i + 2)
                           [] b[i + 1] = 42 -> skip_multiline_comment(b, i + 2)
                           [] OTHER -> i + 1, out)
    ELSE IF b[i] = Quote
    THEN LET m == minify_string(b, i + 1, Append(out, Quote)) IN cJSON_Minify(b, m.at, m.out)
    ELSE cJSON_Minify(b, i + 1, Append(out, b[i]))
-----------------------------------------------------------------------------
(* Texts.                                                                  *)

Leaf(t) == [type |-> t, kids |-> <<>>]
Error(i) == [ok |-> FALSE, at |-> i, item |-> Leaf("invalid")]
Parsed(i, item) == [ok |-> TRUE, at |-> i, item |-> item]

RECURSIVE buffer_skip_whitespace(_, _)
\* Blanks are skipped, but never the last token
buffer_skip_whitespace(b, i) ==
    IF i > Len(b) THEN Len(b)
    ELSE IF b[i] \in {" ", "0"} THEN buffer_skip_whitespace(b, i + 1) ELSE i

RECURSIVE parse_value(_, _, _), ArrayFrom(_, _, _, _), ObjectFrom(_, _, _, _)

\* Mutant: the nesting limit is tested after the brackets are counted
parse_array_late(b, i, depth) ==
    LET j == buffer_skip_whitespace(b, i + 1)
    IN  IF depth > CJSON_NESTING_LIMIT THEN Error(i)
        ELSE IF b[j] = "]" THEN Parsed(j + 1, Leaf("array"))
        ELSE ArrayFrom(b, j, depth + 1, <<>>)

parse_array(b, i, depth) ==
    LET j == buffer_skip_whitespace(b, i + 1)
    IN  IF depth >= CJSON_NESTING_LIMIT THEN Error(i)
        ELSE IF b[j] = "]" THEN Parsed(j + 1, Leaf("array"))
        ELSE ArrayFrom(b, j, depth + 1, <<>>)

\* The elements of an array, the next of which starts at i
ArrayFrom(b, i, depth, kids) ==
    LET v == parse_value(b, i, depth)
        j == buffer_skip_whitespace(b, v.at)
        all == Append(kids, v.item)
    IN  IF ~v.ok THEN v
        ELSE IF b[j] = "," THEN ArrayFrom(b, buffer_skip_whitespace(b, j + 1), depth, all)
        ELSE IF b[j] = "]" THEN Parsed(j + 1, [type |-> "array", kids |-> all])
        ELSE Error(j)

parse_object(b, i, depth) ==
    LET j == buffer_skip_whitespace(b, i + 1)
    IN  IF depth >= CJSON_NESTING_LIMIT THEN Error(i)
        ELSE IF b[j] = "}" THEN Parsed(j + 1, Leaf("object"))
        ELSE ObjectFrom(b, j, depth + 1, <<>>)

\* The members of an object, the next of which starts at i
ObjectFrom(b, i, depth, kids) ==
    LET c == buffer_skip_whitespace(b, i + 1)
        v == parse_value(b, buffer_skip_whitespace(b, c + 1), depth)
        j == buffer_skip_whitespace(b, v.at)
        all == Append(kids, v.item)
    IN  IF b[i] # "s" THEN Error(i)
        ELSE IF b[c] # ":" THEN Error(c)
        ELSE IF ~v.ok THEN v
        ELSE IF b[j] = "," THEN ObjectFrom(b, buffer_skip_whitespace(b, j + 1), depth, all)
        ELSE IF b[j] = "}" THEN Parsed(j + 1, [type |-> "object", kids |-> all])
        ELSE Error(j)

parse_value(b, i, depth) ==
    CASE b[i] \in {"n", "s", "l"} -> Parsed(i + 1, Leaf(b[i]))
      [] b[i] = "[" -> parse_array(b, i, depth)
      [] b[i] = "{" -> parse_object(b, i, depth)
      [] OTHER -> Error(i)

cJSON_ParseWithOpts(b, require_null_terminated) ==
    LET v == parse_value(b, buffer_skip_whitespace(b, 1), 0)
    IN  IF v.ok /\ require_null_terminated /\ b[buffer_skip_whitespace(b, v.at)] # "0"
        THEN Error(v.at) ELSE v
-----------------------------------------------------------------------------
(* Printing.  over: something was written behind the end of the buffer.    *)

Printbuffer(length, noalloc, format) ==
    [length |-> length, offset |-> 0, depth |-> 0, noalloc |-> noalloc, format |-> format,
     out |-> <<>>, ok |-> TRUE, over |-> FALSE]

Width(t) == CASE t = "n" -> 3 [] t = "s" -> 3 [] t = "l" -> 4 [] OTHER -> 1

RECURSIVE WidthOf(_)
WidthOf(toks) == IF toks = <<>> THEN 0 ELSE Width(Head(toks)) + WidthOf(Tail(toks))

ensure(p, needed) ==
    LET all == needed + p.offset + 1
    IN  IF ~p.ok \/ (p.length > 0 /\ p.offset >= p.length) THEN [p EXCEPT !.ok = FALSE]
        ELSE IF all <= p.length THEN p
        ELSE IF p.noalloc THEN [p EXCEPT !.ok = FALSE]
        ELSE [p EXCEPT !.length = 2 * all]

\* Room is asked for, then toks and nul ending bytes are written
Emit(p, needed, toks, nul) ==
    LET q == ensure(p, needed)
    IN  IF ~q.ok THEN q
        ELSE [q EXCEPT !.out = @ \o toks, !.offset = @ + WidthOf(toks),
                       !.over = @ \/ q.offset + WidthOf(toks) + nul > q.length]

Blanks(n) == [i \in 1 .. n |-> " "]
If(c, toks) == IF c THEN toks ELSE <<>>

RECURSIVE print_value(_, _), print_array(_, _, _), print_object(_, _, _)

\* Mutant: the room for a string is its length without the second quote
StringRoomShort(t) == IF t = "s" THEN Width(t) - 1 ELSE Width(t) + 1

\* The room print_number, print_string_ptr and print_value ask for
LeafRoom(t) == Width(t) + 1

print_value(p, item) ==
    CASE item.type = "array" -> print_array([Emit(p, 1, <<"[">>, 0) EXCEPT !.depth = @ + 1], item, 1)
      [] item.type = "object" ->
            print_object([Emit(p, IF p.format THEN 3 ELSE 2, <<"{">> \o If(p.format, <<" ">>), 0)
                          EXCEPT !.depth = @ + 1], item, 1)
      [] OTHER -> Emit(p, LeafRoom(item.type), <<item.type>>, 1)

\* The elements from the kth on, then the bracket
print_array(p, item, k) ==
    IF k > Len(item.kids)
    THEN [Emit(p, 2, <<"]">>, 1) EXCEPT !.depth = @ - 1]
    ELSE LET q == print_value(p, item.kids[k])
             sep == <<",">> \o If(p.format, <<" ">>)
         IN  print_array(IF k = Len(item.kids) THEN q ELSE Emit(q, Len(sep) + 1, sep, 1), item, k + 1)

\* The members from the kth on, then the brace
print_object(p, item, k) ==
    IF k > Len(item.kids)
    THEN [Emit(p, IF p.format THEN p.depth + 1 ELSE 2, Blanks(IF p.format THEN p.depth - 1 ELSE 0) \o <<"}">>, 1)
          EXCEPT !.depth = @ - 1]
    ELSE LET indented == IF p.format THEN Emit(p, p.depth, Blanks(p.depth), 0) ELSE p
             key == Emit(indented, LeafRoom("s"), <<"s">>, 1)
             colon == <<":">> \o If(p.format, <<" ">>)
             value == print_value(Emit(key, Len(colon), colon, 0), item.kids[k])
             sep == If(k < Len(item.kids), <<",">>) \o If(p.format, <<" ">>)
         IN  print_object(Emit(value, Len(sep) + 1, sep, 1), item, k + 1)
-----------------------------------------------------------------------------
Init == text = <<>> /\ count = 0

Write(p) ==
    /\ count < MaxPieces
    /\ text' = text \o p
    /\ count' = count + 1

Next == \E p \in Pieces : Write(p)

Spec == Init /\ [][Next]_vars
-----------------------------------------------------------------------------
(* Literals: the text between two quotes.                                  *)

Literal == <<Quote>> \o text \o <<Quote, 0>>

\* The string never needs more room than parse_string reckoned from its escapes,
\* whatever mixture of escapes, pairs and halves of pairs the literal holds
StringFits == LET r == parse_string(Literal) IN Len(r.out) <= r.room

\* What is parsed and printed is parsed to the same string again
StringsRoundTrip ==
    LET r == parse_string(Literal)
        again == parse_string(print_string_ptr(r.out) \o <<0>>)
    IN  r.ok => again.ok /\ again.out = CString(r.out)

\* A lead byte that announces n bytes is followed by n - 1 trailing bytes and no
\* trailing byte is on its own: ASCII text is parsed to well-formed UTF-8
Utf8IsWellFormed ==
    LET s == parse_string(Literal).out
        Size(c) == IF c < 128 THEN 1 ELSE IF c < 192 THEN 0 ELSE IF c < 224 THEN 2
                   ELSE IF c < 240 THEN 3 ELSE 4
        Trailing(c) == c \in 128 .. 191
    IN  \A i \in 1 .. Len(s) :
            IF Trailing(s[i])
            THEN \E k \in 1 .. 3 : i - k >= 1 /\ Size(s[i - k]) > k
            ELSE \A k \in 1 .. Size(s[i]) - 1 : i + k <= Len(s) /\ Trailing(s[i + k])

\* Blanks and comments inside a string survive minification
MinifyKeepsStrings ==
    LET r == parse_string(Literal)
        minified == cJSON_Minify(Literal, 1, <<>>) \o <<0>>
    IN  Len(minified) <= Len(Literal) /\ (r.ok => parse_string(minified) = r)
-----------------------------------------------------------------------------
(* The grammar of JSON on texts without blanks.                            *)

RECURSIVE IsValue(_), IsElements(_), IsMembers(_)
IsValue(s) ==
    \/ Len(s) = 1 /\ s[1] \in {"n", "s", "l"}
    \/ /\ Len(s) > 1 /\ s[1] = "[" /\ s[Len(s)] = "]"
       /\ Len(s) = 2 \/ IsElements(SubSeq(s, 2, Len(s) - 1))
    \/ /\ Len(s) > 1 /\ s[1] = "{" /\ s[Len(s)] = "}"
       /\ Len(s) = 2 \/ IsMembers(SubSeq(s, 2, Len(s) - 1))
IsElements(s) ==
    \/ IsValue(s)
    \/ \E k \in 2 .. Len(s) - 1 : s[k] = "," /\ IsValue(SubSeq(s, 1, k - 1)) /\ IsElements(SubSeq(s, k + 1, Len(s)))
IsMembers(s) ==
    LET IsMember(m) == Len(m) > 2 /\ m[1] = "s" /\ m[2] = ":" /\ IsValue(SubSeq(m, 3, Len(m)))
    IN  \/ IsMember(s)
        \/ \E k \in 2 .. Len(s) - 1 : s[k] = "," /\ IsMember(SubSeq(s, 1, k - 1)) /\ IsMembers(SubSeq(s, k + 1, Len(s)))

Nesting(s) ==
    LET N[i \in 0 .. Len(s)] ==
            IF i = 0 THEN 0
            ELSE N[i - 1] + IF s[i] \in {"[", "{"} THEN 1 ELSE IF s[i] \in {"]", "}"} THEN -1 ELSE 0
    IN  {N[i] : i \in 0 .. Len(s)}

\* A text is accepted exactly when it is JSON and not nested too deeply, however
\* blanks are spread over it and wherever it breaks off
ParserAcceptsJson ==
    LET s == SelectSeq(text, LAMBDA t : t # " ")
    IN  cJSON_ParseWithOpts(Append(text, "0"), TRUE).ok
            <=> IsValue(s) /\ \A d \in Nesting(s) : d <= CJSON_NESTING_LIMIT

Tree == cJSON_ParseWithOpts(Append(text, "0"), TRUE)

\* What is printed, with layout or without, is parsed to the same tree again,
\* and no byte is written behind the buffer, however small it was at first
PrintedTextParses ==
    Tree.ok =>
        \A format \in BOOLEAN, length \in 0 .. 3 :
            LET p == print_value(Printbuffer(length, FALSE, format), Tree.item)
                again == cJSON_ParseWithOpts(Append(p.out, "0"), TRUE)
            IN  p.ok /\ ~p.over /\ p.depth = 0 /\ again.ok /\ again.item = Tree.item

\* "allocate 5 bytes more than you actually need": cJSON_PrintPreallocated succeeds
\* in such a buffer, and in none does it write behind the end
PreallocatedSuffices ==
    Tree.ok =>
        \A format \in BOOLEAN :
            LET needed == print_value(Printbuffer(0, FALSE, format), Tree.item).offset + 1
                Into(length) == print_value(Printbuffer(length, TRUE, format), Tree.item)
            IN  Into(needed + 5).ok /\ \A length \in 1 .. needed + 5 : ~Into(length).over
=============================================================================
