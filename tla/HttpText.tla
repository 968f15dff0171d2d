------------------------------ MODULE HttpText ------------------------------
(***************************************************************************)
(* The functions that take a request's text apart, and the conversion of   *)
(* numbers, checked over bounded inputs.  A character is a small number;   *)
(* 0 is the terminator every string ends with.                             *)
(***************************************************************************)
EXTENDS Integers, Sequences, SequencesExt

CONSTANTS
    HtInputs,       \* cases: [f, s], the function and its argument
    PathPrealloc    \* HTTP_PATH_PREALLOC

VARIABLE hcase

Amp == 38
Dot == 46
Eq == 61
Pct == 37
Plus == 43
Quest == 63
Slash == 47
Sp == 32
HexVal(c) == IF c \in 48..57 THEN c - 48 ELSE IF c \in 97..102 THEN c - 87 ELSE IF c \in 65..70 THEN c - 55 ELSE -1
KeyChars == (48..57) \cup (65..90) \cup (97..122) \cup {45, 95}
ValueChars == KeyChars \cup {Plus, Pct}
PathChars == KeyChars \cup {Slash, Dot, 44, 58, 126}

At(s, i) == IF i <= Len(s) THEN s[i] ELSE 0
Until(s, i, P(_)) == CHOOSE j \in i..(Len(s) + 1) :     \* the first character with P; 0 always has it
    /\ P(At(s, j)) \/ At(s, j) = 0
    /\ \A k \in i..(j - 1) : ~P(At(s, k))

-----------------------------------------------------------------------------
(* http_hex_to_ascii: two tables, one per digit.  The table of the first   *)
(* digit has 0x20 where the character is '0' or no digit.                  *)
h2a_table_1(c) == IF HexVal(c) > 0 THEN 16 * HexVal(c) ELSE 32
h2a_table_2(c) == IF HexVal(c) > 0 THEN HexVal(c) ELSE 0
http_hex_to_ascii(c, d) == h2a_table_1(c) + h2a_table_2(d)

-----------------------------------------------------------------------------
(* http_parse__: a first pass counts arguments and the room for their      *)
(* values and checks the characters; a second one fills them in.           *)

NoArgs == [ok |-> FALSE, args |-> 0, vals |-> 0]

RECURSIVE Counted(_, _, _, _, _)
Counted(s, i, sep, args, vals) ==
    IF At(s, i) \in {sep, Eq, Sp} THEN Counted(s, i + 1, sep, args, vals)
    ELSE LET k == Until(s, i, LAMBDA c : c \notin KeyChars)
             v == Until(s, k + 1, LAMBDA c : c \notin ValueChars)
         IN  CASE At(s, k) = 0 -> [ok |-> TRUE, args |-> args, vals |-> vals]
               [] At(s, k) # Eq /\ At(s, k) # 0 -> NoArgs
               [] At(s, k) = Eq /\ At(s, v) = 0 -> [ok |-> TRUE, args |-> args + 1, vals |-> vals + (v - k - 1)]
               [] At(s, k) = Eq /\ At(s, v) = sep -> Counted(s, v + 1, sep, args + 1, vals + (v - k - 1))
               [] OTHER -> NoArgs

\* A value from position c on, up to the separator: [out, at].
RECURSIVE Decoded(_, _, _, _)
Decoded(s, c, sep, out) ==
    IF At(s, c) \in {sep, 0} THEN [out |-> out, at |-> c]
    ELSE IF At(s, c) = Plus THEN Decoded(s, c + 1, sep, Append(out, Sp))
    ELSE IF At(s, c) = Pct /\ At(s, c + 1) # 0 /\ At(s, c + 2) # 0
    THEN Decoded(s, c + 3, sep, Append(out, http_hex_to_ascii(At(s, c + 1), At(s, c + 2))))
    ELSE Decoded(s, c + 1, sep, Append(out, At(s, c)))

Overrun == [over |-> TRUE, args |-> <<>>]

RECURSIVE Filled(_, _, _, _, _)
Filled(s, i, sep, n, args) ==
    IF Len(args) = n THEN [over |-> FALSE, args |-> args]
    ELSE IF i > Len(s) + 1 THEN Overrun
    ELSE IF At(s, i) \in {sep, Eq, Sp} THEN Filled(s, i + 1, sep, n, args)
    ELSE LET k == Until(s, i, LAMBDA c : c = Eq)
             v == Decoded(s, k + 1, sep, <<>>)
         IN  IF At(s, k) = 0 THEN Overrun
             ELSE Filled(s, v.at + 1, sep, n, Append(args, [key |-> SubSeq(s, i, k - 1), val |-> v.out]))

\* Room for every value and its terminator.
ValuesRoom(e) == e.vals + e.args

http_parse__(s, sep) ==
    LET e == Counted(s, 1, sep, 0, 0)
        f == Filled(s, 1, sep, e.args, <<>>)
    IN  [over |-> f.over, args |-> f.args, room |-> ValuesRoom(e)]

\* What the second pass writes.
UsedRoom(args) == FoldLeft(LAMBDA n, a : n + Len(a.val) + 1, 0, args)

-----------------------------------------------------------------------------
(* http_divide_uri: the path, decoded, and the query string.               *)
Divided0(path, c) == IF c \in {Slash, Dot} THEN path ELSE Append(path, c)

RECURSIVE Divided(_, _, _)
Divided(d, i, path) ==
    IF At(d, i) \in {0, Quest}
    THEN [ok |-> TRUE, path |-> path, query |-> SubSeq(d, i + 1, Len(d))]
    ELSE IF At(d, i) = Pct /\ i < Len(d) - 1
    THEN Divided(d, i + 3, Divided0(path, http_hex_to_ascii(At(d, i + 1), At(d, i + 2))))
    ELSE IF At(d, i) = Dot /\ At(d, i + 1) = Dot /\ At(d, i + 2) = Slash THEN Divided(d, i + 3, path)
    ELSE IF At(d, i) \in PathChars THEN Divided(d, i + 1, Append(path, At(d, i)))
    ELSE [ok |-> FALSE, path |-> path, query |-> <<>>]

http_divide_uri(d) == Divided(d, 2, <<Slash>>)

-----------------------------------------------------------------------------
(* http_response's choice of a handler.  web_set_callback makes an entry   *)
(* strict when its URI does not end in a slash.                            *)
strict_comparison(m) == m.uri[Len(m.uri)] # Slash
MatchKind(path, m) ==
    IF ~m.full_match THEN IF IsPrefix(m.uri, path) THEN "handler" ELSE "no"
    ELSE IF strict_comparison(m) \/ path[Len(path)] = Slash
    THEN IF path = m.uri THEN "handler" ELSE "no"
    ELSE IF path = SubSeq(m.uri, 1, Len(m.uri) - 1) THEN "redirect" ELSE "no"
Dispatch(path, uri_map) ==            \* the first entry that matches: [kind, at]
    LET at == {i \in 1..Len(uri_map) : MatchKind(path, uri_map[i]) # "no"}
    IN  IF at = {} THEN [kind |-> "file", at |-> 0]
        ELSE LET i == Min(at) IN [kind |-> MatchKind(path, uri_map[i]), at |-> i]

(* http_set_mime_type: the extension begins at the last dot of the path.   *)
(* The table's last entry, with no extension, is the default type.         *)
LookupExt(e, types) ==
    LET at == {i \in 1..Len(types) : types[i] = e} IN IF at = {} THEN Len(types) + 1 ELSE Min(at)
LastDotFrom(path, at) == IF at = {} THEN <<>> ELSE SubSeq(path, Max(at), Len(path))
http_set_mime_type(path, types) == LookupExt(LastDotFrom(path, {i \in 2..Len(path) : path[i] = Dot}), types)

-----------------------------------------------------------------------------
(* int_to_str, long_to_str, int64_to_str: digits by truncating division,   *)
(* the sign read off the last value, and the result reversed.  The table   *)
(* of digits is symmetric about the digit 0.                               *)
Minus == -1                           \* the character '-'; digits stand for themselves
DivTrunc(a, b) == IF a < 0 THEN -((-a) \div b) ELSE a \div b
Digit(n) == IF n < 0 THEN -n ELSE n

RECURSIVE DigitsOf(_, _, _)
DigitsOf(value, base, out) ==
    LET q == DivTrunc(value, base)
        o == Append(out, Digit(value - q * base))
    IN  IF q # 0 THEN DigitsOf(q, base, o) ELSE IF value < 0 THEN Append(o, Minus) ELSE o

int_to_str(value, base) == Reverse(DigitsOf(value, base, <<>>))

RECURSIVE digits_in_int(_)
digits_in_int(n) == IF DivTrunc(n, 10) = 0 THEN 1 ELSE 1 + digits_in_int(DivTrunc(n, 10))

-----------------------------------------------------------------------------
(* http_parse_post of a multipart body.  The body is a sequence of tokens: *)
(* "nl" (CR LF), "--", a header line "name:k" or "file:k" (a disposition   *)
(* with a name, or with a name and a file name), "type" (content-type),    *)
(* "other" (any other header), and data without a colon or a newline.      *)
Dispositions == {"name:k", "name:l", "file:k", "file:l"}
HasColon == Dispositions \cup {"type", "other"}
Tok(b, i) == IF i <= Len(b) THEN b[i] ELSE ""
NextTok(b, i, S) ==                   \* the first position with a token of S, or 0
    LET at == {j \in i..Len(b) : b[j] \in S} IN IF at = {} THEN 0 ELSE Min(at)
DataEnd(b, i) ==
    LET at == {j \in i..(Len(b) - 1) : b[j] = "nl" /\ b[j + 1] = "--"} IN IF at = {} THEN 0 ELSE Min(at)

NoPart == [disp |-> "", type |-> FALSE]
HeaderKept(p, t) ==
    IF t \in Dispositions THEN [p EXCEPT !.disp = t] ELSE IF t = "type" THEN [p EXCEPT !.type = TRUE] ELSE p

\* The headers from position i on: [at, part]; at = 0 when the body ends.
RECURSIVE PartHeaders(_, _, _)
PartHeaders(b, i, p) ==
    IF Tok(b, i) = "nl" THEN [at |-> i + 1, part |-> p]
    ELSE LET c == NextTok(b, i, HasColon)
             e == NextTok(b, c, {"nl"})
         IN  IF c = 0 \/ e = 0 THEN [at |-> 0, part |-> p]
             ELSE PartHeaders(b, e + 1, IF c = i THEN HeaderKept(p, b[c]) ELSE p)

\* What a part starts from: name, filename and content_type are reset.
PartKept(p) == p                      \* mutant: nothing is reset between parts
PartReset(p) == NoPart

RECURSIVE Parts(_, _, _, _)
Parts(b, i, prev, out) ==
    LET n == NextTok(b, i, {"nl"})
        h == PartHeaders(b, n + 1, PartReset(prev))
        e == DataEnd(b, h.at)
    IN  IF n = 0 \/ n = Len(b) THEN out
        ELSE IF h.at = 0 THEN out
        ELSE IF h.part.disp = "" THEN Parts(b, h.at, h.part, out)
        ELSE IF e = 0 THEN out
        ELSE Parts(b, e + 1, h.part, Append(out, [part |-> h.part, data |-> SubSeq(b, h.at, e - 1)]))
http_parse_post(b) == Parts(b, 1, NoPart, <<>>)

-----------------------------------------------------------------------------
HttpTextInit == hcase \in HtInputs
HttpTextNext == UNCHANGED hcase

-----------------------------------------------------------------------------
Joined(args, sep) ==                  \* the text of a list of arguments
    FoldLeft(LAMBDA s, a : (IF s = <<>> THEN s ELSE Append(s, sep)) \o a.key \o <<Eq>> \o a.raw, <<>>, args)

\* Parsing a query string or a cookie gives back the arguments it was made
\* of, in order and in number, each with its decoded value.
ArgsRoundTrip ==
    hcase.f = "args" =>
        LET r == http_parse__(Joined(hcase.s, Amp), Amp)
        IN  ~r.over /\ r.args = [i \in 1..Len(hcase.s) |-> [key |-> hcase.s[i].key, val |-> hcase.s[i].val]]

\* For any text, the second pass stays inside the text and inside the room
\* the first pass has counted, unless an escape reaches over a separator.
ArgsInBounds ==
    hcase.f = "text" =>
        LET s == hcase.s
            r == http_parse__(s, Amp)
        IN  (\A i \in 1..Len(s) : s[i] = Pct => At(s, i + 1) # Amp /\ At(s, i + 2) # Amp) =>
                ~r.over /\ UsedRoom(r.args) <= r.room

\* The tables decode what the version they replaced decodes, for every pair
\* of hexadecimal digits whose first one is not 0.
HexTablesAgree ==
    hcase.f = "hex" =>
        http_hex_to_ascii(hcase.s[1], hcase.s[2]) = 16 * HexVal(hcase.s[1]) + HexVal(hcase.s[2])

\* A URI's query string is what stands behind its first question mark, its
\* path what stands before it when nothing in it is escaped or a dot; the
\* path with its terminator fits the buffer of a URI shorter than
\* HTTP_PATH_PREALLOC.
UriDivided ==
    hcase.f = "uri" =>
        LET s == <<Slash>> \o hcase.s
            r == http_divide_uri(s)
            q == Until(s, 1, LAMBDA c : c = Quest)
        IN  /\ r.ok /\ (\A i \in 1..(q - 1) : s[i] # Pct) => r.query = SubSeq(s, q + 1, Len(s))
            /\ r.ok /\ (\A i \in 1..(q - 1) : s[i] \in PathChars \ {Dot}) => r.path = SubSeq(s, 1, q - 1)
            /\ Len(s) < PathPrealloc => Len(r.path) + 1 <= PathPrealloc

\* Every handler of the table is reached by its URI, and by no path that is
\* not that URI, or does not begin with it where a prefix is enough.
HandlersReached ==
    hcase.f = "map" =>
        \A i \in 1..Len(hcase.s.map) :
            LET m == hcase.s.map[i]
            IN  /\ Dispatch(m.uri, hcase.s.map) = [kind |-> "handler", at |-> i]
                /\ Dispatch(hcase.s.path, hcase.s.map) = [kind |-> "handler", at |-> i]
                      => IF m.full_match THEN hcase.s.path = m.uri ELSE IsPrefix(m.uri, hcase.s.path)

\* The type of a file follows from its own name: searching the whole path for
\* the last dot chooses what the last segment's extension chooses.
MimeOfOwnName ==
    hcase.f = "path" =>
        LET p == <<Slash>> \o hcase.s.path
            base == SubSeq(p, 1 + Max({i \in 1..Len(p) : p[i] = Slash}), Len(p))
            dots == {i \in 1..Len(base) : base[i] = Dot}
        IN  http_set_mime_type(p, hcase.s.types)
                = LookupExt(IF dots = {} THEN <<>> ELSE SubSeq(base, Max(dots), Len(base)), hcase.s.types)

\* The text of the multipart body of a list of parts.
PartText(p) == <<"--", "nl", p.part.disp, "nl">> \o (IF p.part.type THEN <<"type", "nl">> ELSE <<>>) \o <<"nl">> \o p.data \o <<"nl">>
MultipartText(ps) == FoldLeft(LAMBDA s, p : s \o PartText(p), <<>>, ps) \o <<"--", "--", "nl">>

\* Parsing a multipart body gives back its fields and files, each with its
\* own name, kind, type and data: nothing of a part is left in the next.
PartsRoundTrip ==
    hcase.f = "parts" => http_parse_post(MultipartText(hcase.s)) = hcase.s

\* A number written in any base reads back as the number, and digits_in_int
\* counts its decimal digits.
NumbersReadBack ==
    hcase.f = "number" =>
        LET n == hcase.s.n
            ds == int_to_str(n, hcase.s.base)
            mag == FoldLeft(LAMBDA m, d : m * hcase.s.base + d, 0, SelectSeq(ds, LAMBDA d : d # Minus))
        IN  /\ n = IF ds[1] = Minus THEN -mag ELSE mag
            /\ \A i \in 2..Len(ds) : ds[i] # Minus
            /\ hcase.s.base = 10 => Len(ds) = digits_in_int(n) + (IF n < 0 THEN 1 ELSE 0)

\* The request's text is read as it was written: arguments and multipart parts
\* come back decoded and inside their buffers, the target is divided and routed
\* to the handler whose pattern it matches, the type follows the file's own name,
\* and numbers are written so that they read back.
RequestRead ==
    /\ ArgsRoundTrip /\ ArgsInBounds /\ HexTablesAgree /\ PartsRoundTrip
    /\ UriDivided /\ HandlersReached /\ MimeOfOwnName /\ NumbersReadBack

=============================================================================
