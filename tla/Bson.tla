------------------------------- MODULE Bson -------------------------------
(***************************************************************************)
(* Building and reading documents (bson.c), and the check of the texts in    *)
(* them (encoding.c).  A buffer is a sequence of                             *)
(* cells, one for each byte: <<"t", type>>, <<"c", byte of text>>, the first *)
(* byte <<"n", value>> of a number and Pad for its others; End is the byte   *)
(* 0.  A builder b holds                                                     *)
(*   data, size   the bytes written, dataSize                                *)
(*   stack        the offsets of the open objects                            *)
(*   finished, err                                                           *)
(* History: want, for the document and each open object the elements that    *)
(* were appended; spilt, a byte was written past dataSize; late, an element  *)
(* was copied into a finished document or one with a bad name.               *)
(***************************************************************************)
EXTENDS Integers, Sequences, SequencesExt, FiniteSets, TLC

-----------------------------------------------------------------------------
(* The check of strings and field names before they enter a document        *)
(* (encoding.c), on sequences of bytes, against a reference that decodes    *)
(* code points.                                                             *)

CONSTANT Texts            \* the byte sequences tried

VARIABLE utfcase

DotByte == 46
DollarByte == 36

\* trailingBytesForUTF8, by the ranges of its table.
TrailingBytes(c) ==
    CASE c < 192 -> 0 [] c \in 192..223 -> 1 [] c \in 224..239 -> 2
      [] c \in 240..247 -> 3 [] c \in 248..251 -> 4 [] OTHER -> 5

\* isLegalUTF8 of a whole sequence; the bytes are looked at from the last one.
\* The lower bound of the second byte is only tested for first bytes that are
\* not E0, F0 or F4.
IsLegalUTF8(s) ==
    /\ Len(s) <= 4
    /\ \A i \in 3..Len(s) : s[i] \in 128..191
    /\ Len(s) >= 2 => /\ s[2] <= 191
                      /\ CASE s[1] = 224 -> s[2] >= 160
                           [] s[1] = 240 -> s[2] >= 144
                           [] s[1] = 244 -> s[2] <= 143
                           [] OTHER -> s[2] >= 128
    /\ s[1] \notin 128..193
    /\ s[1] <= 244

\* The loop of bson_validate_string from position i on.
RECURSIVE Utf8From(_, _)
Utf8From(s, i) ==
    i > Len(s) \/ LET n == TrailingBytes(s[i]) + 1
                  IN i + n - 1 <= Len(s) /\ IsLegalUTF8(SubSeq(s, i, i + n - 1)) /\ Utf8From(s, i + n)

\* The dots met: the loop looks at the first byte of each sequence.
RECURSIVE DotFrom(_, _)
DotFrom(s, i) ==
    /\ i <= Len(s)
    /\ \/ s[i] = DotByte
       \/ LET n == TrailingBytes(s[i]) + 1
          IN i + n - 1 <= Len(s) /\ IsLegalUTF8(SubSeq(s, i, i + n - 1)) /\ DotFrom(s, i + n)

NotUtf8(s) == IF Utf8From(s, 1) THEN {} ELSE {"NOT_UTF8"}

\* bson_check_string and bson_check_field_name: the bits they add to b->err.
bson_check_string(s) == NotUtf8(s)
bson_check_field_name(s) ==
    NotUtf8(s) \cup (IF DotFrom(s, 1) THEN {"HAS_DOT"} ELSE {})
               \cup (IF Len(s) > 0 /\ s[1] = DollarByte THEN {"INIT_DOLLAR"} ELSE {})

EncInit == utfcase \in Texts
EncNext == UNCHANGED utfcase

-----------------------------------------------------------------------------
\* Reference: a byte sequence is UTF-8 when it divides into encodings of code
\* points, each the shortest one.
Payload(c, n) == CASE n = 1 -> c [] n = 2 -> c - 192 [] n = 3 -> c - 224 [] n = 4 -> c - 240
CodePoint(s) == FoldLeft(LAMBDA acc, c : acc * 64 + (c - 128), Payload(s[1], Len(s)), Tail(s))
Shortest(n) == CASE n = 1 -> 0..127 [] n = 2 -> 128..2047 [] n = 3 -> 2048..65535 [] n = 4 -> 65536..1114111
Encodes(s) ==
    \E n \in 1..4 :
        /\ Len(s) = n
        /\ s[1] \in (CASE n = 1 -> 0..127 [] n = 2 -> 192..223 [] n = 3 -> 224..239 [] n = 4 -> 240..247)
        /\ \A i \in 2..n : s[i] \in 128..191
        /\ CodePoint(s) \in Shortest(n)

\* The one encoding that is let through without being one: F4 followed by a
\* byte of ASCII and two continuation bytes.
LetThrough(s) == Len(s) = 4 /\ s[1] = 244 /\ s[2] < 128 /\ s[3] \in 128..191 /\ s[4] \in 128..191

RECURSIVE Divides(_)
Divides(s) == s = <<>> \/ \E n \in 1..4 : /\ n <= Len(s)
                                         /\ (Encodes(SubSeq(s, 1, n)) \/ LetThrough(SubSeq(s, 1, n)))
                                         /\ Divides(SubSeq(s, n + 1, Len(s)))

\* bson_check_string accepts exactly the strings that divide into shortest
\* encodings of code points (surrogates among them) up to 10FFFF, but for the
\* sequences LetThrough describes; an accepted field name is reported to hold
\* a dot exactly when it holds one.
TextsChecked ==
    /\ bson_check_string(utfcase) = {} <=> Divides(utfcase)
    /\ Divides(utfcase) /\ 244 \notin ToSet(utfcase) =>
          ("HAS_DOT" \in bson_check_field_name(utfcase) <=> DotByte \in ToSet(utfcase))

-----------------------------------------------------------------------------
(* Documents.                                                               *)

CONSTANTS BufferSize,     \* initialBufferSize
          Appends,        \* elements that may be appended: [name, elem]; see Encoded
          Copies,         \* elements of other documents that may be copied
          IntMax,         \* INT_MAX for sizes and numbers
          ShortMax,       \* INT_MAX for the cases of SpaceExact
          MaxDepth,       \* bound on open objects; the array stack holds 32
          MaxCalls        \* bound on calls to one builder

VARIABLE bs

Pad == <<"-", 0>>
End == <<"c", 0>>
NumCells(v, n) == [i \in 1..n |-> IF i = 1 THEN <<"n", v>> ELSE Pad]
Int32(v) == NumCells(v, 4)
Chars(s) == [i \in 1..Len(s) |-> <<"c", s[i]>>]
CString(s) == Append(Chars(s), End)

\* bson_append, bson_append_byte, bson_append32, bson_append64: a copy to cur.
Put(b, cells) ==
    [b EXCEPT !.data = @ \o cells, !.spilt = @ \/ Len(b.data) + Len(cells) > b.size]

\* An int of the width whose greatest value is max; a double too large for it
\* becomes the least one.
Wrapped(x, max) == ((x + max + 1) % (2 * (max + 1))) - (max + 1)
HalfMore(x, max) ==
    LET y == IF x >= 0 THEN (3 * x) \div 2 ELSE -((-3 * x) \div 2)
    IN IF y \in -(max + 1)..max THEN y ELSE -(max + 1)

\* bson_ensure_space.
EnsureSpace(size, pos, n, max) ==
    LET sum == Wrapped(size + n, max)
        new == HalfMore(sum, max)
    IN CASE Wrapped(pos + n, max) <= size -> [ok |-> TRUE, size |-> size]
         [] Wrapped(pos + n, max) > size /\ new >= size -> [ok |-> TRUE, size |-> new]
         [] Wrapped(pos + n, max) > size /\ new < size /\ sum < max -> [ok |-> TRUE, size |-> max]
         [] OTHER -> [ok |-> FALSE, size |-> size]

\* In a builder, whose documents stay far below INT_MAX, it always succeeds.
Room(b, n) == [b EXCEPT !.size = EnsureSpace(@, Len(b.data), n, IntMax).size]

bson_init(n) ==
    [data |-> NumCells(0, 4), size |-> n, stack |-> <<>>, finished |-> FALSE, err |-> {},
     want |-> <<[name |-> <<>>, type |-> "object", list |-> <<>>]>>, spilt |-> n < 4, late |-> FALSE, calls |-> 0]

\* bson_append_estart; ok says whether it returned BSON_OK.
Estart(b, type, name, n) ==
    LET room == Room(b, 1 + Len(name) + 1 + n)
        e == bson_check_field_name(name)
        marked == [room EXCEPT !.err = @ \cup e]
    IN CASE b.finished -> [ok |-> FALSE, b |-> [b EXCEPT !.err = @ \cup {"ALREADY_FINISHED"}]]
         [] ~b.finished /\ "NOT_UTF8" \in e -> [ok |-> FALSE, b |-> marked]
         [] OTHER -> [ok |-> TRUE, b |-> Put(marked, <<<<"t", type>>>> \o CString(name))]

\* The bytes each bson_append_* asks room for.
Asked(e) ==
    CASE e.type \in {"null", "undefined"} -> 0
      [] e.type = "bool" -> 1
      [] e.type = "int" -> 4
      [] e.type \in {"long", "double", "date", "timestamp"} -> 8
      [] e.type = "oid" -> 12
      [] e.type \in {"string", "symbol", "code"} -> 4 + Len(e.text) + 1
      [] e.type = "codewscope" -> 4 + 4 + Len(e.text) + 1 + e.sub[1][2]
      [] e.type = "bindata" -> IF e.old THEN 4 + 1 + 4 + Len(e.text) ELSE 4 + 1 + Len(e.text)
      [] e.type = "regex" -> Len(e.text) + 1 + Len(e.opts) + 1
      [] e.type = "object" -> e.sub[1][2]

\* What each of them then writes.
Encoded(e) ==
    CASE e.type \in {"null", "undefined"} -> <<>>
      [] e.type = "bool" -> <<<<"n", IF e.num = 0 THEN 0 ELSE 1>>>>
      [] e.type = "int" -> Int32(e.num)
      [] e.type \in {"long", "double", "date"} -> NumCells(e.num, 8)
      [] e.type = "timestamp" -> Int32(e.num) \o Int32(e.num)
      [] e.type = "oid" -> NumCells(e.num, 12)
      [] e.type \in {"string", "symbol", "code"} -> Int32(Len(e.text) + 1) \o CString(e.text)
      [] e.type = "codewscope" -> Int32(Asked(e)) \o Int32(Len(e.text) + 1) \o CString(e.text) \o e.sub
      [] e.type = "bindata" -> IF e.old THEN Int32(Len(e.text) + 4) \o <<<<"n", 2>>>> \o Int32(Len(e.text)) \o Chars(e.text)
                                        ELSE Int32(Len(e.text)) \o <<<<"n", 0>>>> \o Chars(e.text)
      [] e.type = "regex" -> CString(e.text) \o CString(e.opts)
      [] e.type = "object" -> e.sub

Appended(b, name, e) == [b EXCEPT !.want[Len(b.want)].list = Append(@, [name |-> name, elem |-> e])]

\* The innermost open object becomes an element of the one around it.
Enclosed(want) ==
    LET inner == Last(want)
        outer == Front(want)
    IN [outer EXCEPT ![Len(outer)].list =
            Append(@, [name |-> inner.name, elem |-> [type |-> inner.type, list |-> inner.list]])]

\* bson_append_string_base looks at the text before the element is started,
\* bson_append_regex after, when type and name are already in the buffer.
Added(b, name, e) ==
    LET early == IF e.type \in {"string", "symbol", "code"} THEN bson_check_string(e.text) ELSE {}
        s == Estart(b, e.type, name, Asked(e))
        late == IF e.type = "regex" THEN bson_check_string(e.text) ELSE {}
    IN CASE early # {} -> [b EXCEPT !.err = @ \cup early]
         [] early = {} /\ ~s.ok -> s.b
         [] early = {} /\ s.ok /\ late # {} -> [s.b EXCEPT !.err = @ \cup late]
         [] OTHER -> Appended(Put(s.b, Encoded(e)), name, e)

\* bson_append_element with a name goes on when the element was not started.
CopiedElement(b, name, e) ==
    LET s == Estart(b, e.type, name, Len(Encoded(e)))
    IN IF s.ok THEN Appended(Put(s.b, Encoded(e)), name, e)
       ELSE [Put(s.b, Encoded(e)) EXCEPT !.late = TRUE]
\* Without one it copies type, name and value, into a finished document too.
CopiedName == <<99>>
CopiedWhole(b, name, e) ==
    LET cells == <<<<"t", e.type>>>> \o CString(name) \o Encoded(e)
    IN [Appended(Put(Room(b, Len(cells)), cells), name, e) EXCEPT !.late = @ \/ b.finished]

\* bson_append_start_object and bson_append_start_array.
Started(b, type, name) ==
    LET s == Estart(b, type, name, 5)
    IN IF ~s.ok THEN s.b
       ELSE [Put(s.b, Int32(0)) EXCEPT !.stack = Append(@, Len(s.b.data)),
                                       !.want = Append(@, [name |-> name, type |-> type, list |-> <<>>])]

\* mutant: the length leaves out the byte that ends the object.
FinishedObjectShort(b) ==
    LET c == Put(Room(b, 1), <<End>>)
        at == Last(c.stack)
    IN [c EXCEPT !.data[at + 1] = <<"n", Len(c.data) - at - 1>>, !.stack = Front(@),
                 !.want = Enclosed(@)]

\* bson_append_finish_object, which does not look at finished.
FinishedObject(b) ==
    LET c == Put(Room(b, 1), <<End>>)
        at == Last(c.stack)
    IN [c EXCEPT !.data[at + 1] = <<"n", Len(c.data) - at>>, !.stack = Front(@), !.late = @ \/ b.finished,
                 !.want = Enclosed(@)]

\* bson_finish, which does not look at the stack.
Finished(b) ==
    LET c == Put(Room(b, 1), <<End>>)
    IN IF "NOT_UTF8" \in b.err \/ b.finished THEN b
       ELSE [c EXCEPT !.data[1] = <<"n", Len(c.data)>>, !.finished = TRUE]

Call(new) == bs.calls < MaxCalls /\ bs' = [new EXCEPT !.calls = @ + 1]

bson_append_any == \E x \in Appends : Call(Added(bs, x.name, x.elem))
bson_append_element ==
    \E x \in Copies : Call(CopiedElement(bs, x.name, x.elem)) \/ Call(CopiedWhole(bs, CopiedName, x.elem))
bson_append_start == \E x \in Appends, type \in {"object", "array"} :
    x.elem.type = "null" /\ Len(bs.stack) < MaxDepth /\ Call(Started(bs, type, x.name))
bson_append_finish_object == bs.stack # <<>> /\ bs' = FinishedObject(bs)
bson_finish == bs' = Finished(bs)

BsonInit == bs = bson_init(BufferSize)
BsonNext ==
    \/ bson_append_any
    \/ bson_append_element
    \/ bson_append_start
    \/ bson_append_finish_object
    \/ bson_finish

-----------------------------------------------------------------------------
(* Reading: positions count from 1.                                          *)

\* strlen of the text at p.
RECURSIVE StrLen(_, _)
StrLen(d, p) == IF d[p] = End THEN 0 ELSE 1 + StrLen(d, p + 1)
TextAt(d, p) == [i \in 1..StrLen(d, p) |-> d[p + i - 1][2]]

\* bson_iterator_type, _key, _value and the raw readers of an element at p.
TypeAt(d, p) == IF d[p] = End THEN "eoo" ELSE d[p][2]
KeyAt(d, p) == TextAt(d, p + 1)
ValueAt(d, p) == p + 1 + StrLen(d, p + 1) + 1
RawAt(d, p) == d[ValueAt(d, p)][2]

\* The data size of bson_iterator_next, and where the next element starts.
DataSize(d, p) ==
    LET t == TypeAt(d, p)
        v == ValueAt(d, p)
        pattern == StrLen(d, v) + 1
    IN CASE t \in {"null", "undefined"} -> 0
         [] t = "bool" -> 1
         [] t = "int" -> 4
         [] t \in {"long", "double", "timestamp", "date"} -> 8
         [] t = "oid" -> 12
         [] t \in {"string", "symbol", "code"} -> 4 + RawAt(d, p)
         [] t = "bindata" -> 5 + RawAt(d, p)
         [] t \in {"object", "array", "codewscope"} -> RawAt(d, p)
         [] t = "regex" -> pattern + StrLen(d, v + pattern) + 1
NextAt(d, p) == ValueAt(d, p) + DataSize(d, p)

\* bson_iterator_bin_type, _bin_len and _bin_data.
BinAt(d, p) ==
    LET old == d[ValueAt(d, p) + 4][2] = 2
        len == IF old THEN RawAt(d, p) - 4 ELSE RawAt(d, p)
        at == ValueAt(d, p) + (IF old THEN 9 ELSE 5)
    IN [old |-> old, text |-> [i \in 1..len |-> d[at + i - 1][2]]]

\* bson_iterator_code_scope, bson_iterator_subobject: a document in the buffer.
DocAt(d, p) == SubSeq(d, p, p + d[p][2] - 1)

\* bson_iterator_int and bson_iterator_bool: a long is cut to an int.
IntAt(d, p) == CASE TypeAt(d, p) \in {"int", "double"} -> RawAt(d, p)
                 [] TypeAt(d, p) = "long" -> RawAt(d, p) % (IntMax + 1)
                 [] OTHER -> 0
BoolAt(d, p) == CASE TypeAt(d, p) \in {"bool", "int", "long", "double"} -> RawAt(d, p) # 0
                  [] TypeAt(d, p) \in {"eoo", "null"} -> FALSE
                  [] OTHER -> TRUE

\* What the reader of the element's type gives back.
Read(d, p) ==
    LET t == TypeAt(d, p)
        v == ValueAt(d, p)
    IN CASE t \in {"null", "undefined"} -> [type |-> t]
         [] t \in {"bool", "int", "long", "double", "date", "timestamp", "oid"} -> [type |-> t, num |-> RawAt(d, p)]
         [] t \in {"string", "symbol", "code"} -> [type |-> t, text |-> TextAt(d, v + 4)]
         [] t = "codewscope" -> [type |-> t, text |-> TextAt(d, v + 8), sub |-> DocAt(d, v + 8 + d[v + 4][2])]
         [] t = "bindata" -> [type |-> t] @@ BinAt(d, p)
         [] t = "regex" -> [type |-> t, text |-> TextAt(d, v), opts |-> TextAt(d, v + StrLen(d, v) + 1)]
         [] t = "object" -> [type |-> t, sub |-> DocAt(d, v)]
         [] t = "array" -> [type |-> t, sub |-> DocAt(d, v)]

\* while (bson_iterator_next(&i)) from p on.
RECURSIVE ElementsFrom(_, _)
ElementsFrom(d, p) ==
    IF TypeAt(d, p) = "eoo" THEN <<>>
    ELSE <<[name |-> KeyAt(d, p), elem |-> Read(d, p)]>> \o ElementsFrom(d, NextAt(d, p))
Elements(d) == ElementsFrom(d, 5)

RECURSIVE Positions(_, _)
Positions(d, p) == IF TypeAt(d, p) = "eoo" THEN {} ELSE {p} \cup Positions(d, NextAt(d, p))

\* bson_find: the first element of that name.
RECURSIVE FindFrom(_, _, _)
FindFrom(d, p, name) ==
    IF TypeAt(d, p) = "eoo" \/ KeyAt(d, p) = name THEN TypeAt(d, p) ELSE FindFrom(d, NextAt(d, p), name)
bson_find(d, name) == FindFrom(d, 5, name)

\* bson_copy: bson_size bytes.
bson_copy(d) == SubSeq(d, 1, d[1][2])

-----------------------------------------------------------------------------
(* Object ids in text: bytes and characters are numbers.                     *)

HexByte(c) ==
    CASE c \in 48..57 -> c - 48 [] c \in 97..102 -> c - 87 [] c \in 65..70 -> c - 55 [] OTHER -> 0
HexDigit(d) == IF d < 10 THEN 48 + d ELSE 87 + d

bson_oid_from_string(s) == [i \in 1..(Len(s) \div 2) |-> HexByte(s[2 * i - 1]) * 16 + HexByte(s[2 * i])]
bson_oid_to_string(o) ==
    [k \in 1..(2 * Len(o)) |-> HexDigit(IF k % 2 = 1 THEN o[(k + 1) \div 2] \div 16 ELSE o[k \div 2] % 16)]

-----------------------------------------------------------------------------
\* Whether the elements read are those wanted; of an object built between start
\* and finish, the elements of the document in its place.
RECURSIVE Same(_, _)
Same(read, want) ==
    /\ Len(read) = Len(want)
    /\ \A i \in DOMAIN read :
        IF "list" \notin DOMAIN want[i].elem THEN read[i] = want[i]
        ELSE /\ read[i].name = want[i].name
             /\ read[i].elem.type = want[i].elem.type
             /\ Same(Elements(read[i].elem.sub), want[i].elem.list)

Whole(b) == b.finished /\ b.stack = <<>> /\ ~b.late

\* A document that bson_finish finished with no object left open gives back,
\* element by element and through the nested objects, exactly the names, types
\* and values that were appended, in order; its length is that of the buffer,
\* a copy by length is the document, and a number read as an int or a Boolean
\* keeps its value when an int holds it, its truth always.
DocumentExact ==
    Whole(bs) => /\ bs.data[1][2] = Len(bs.data)
                 /\ bson_copy(bs.data) = bs.data
                 /\ Same(Elements(bs.data), bs.want[1].list)
                 /\ \A x \in Appends : bson_find(bs.data, x.name) # "eoo" <=>
                        \E i \in DOMAIN bs.want[1].list : bs.want[1].list[i].name = x.name
                 /\ \A p \in Positions(bs.data, 5) :
                        LET e == Read(bs.data, p)
                        IN "num" \in DOMAIN e /\ e.type \in {"int", "long", "double"} =>
                              BoolAt(bs.data, p) = (e.num # 0) /\ (e.num <= IntMax => IntAt(bs.data, p) = e.num)

\* The writes of the builder stay inside dataSize, unless an element was copied
\* after bson_append_estart had refused it.
BufferHolds == bs.spilt => bs.late

\* bson_ensure_space leaves room whenever it succeeds, as long as the bytes
\* wanted end below INT_MAX: the sum of size and bytes may wrap around on the
\* way.  It fails only when that sum is INT_MAX itself.
SpaceExact ==
    bs.calls = 0 =>
        \A size \in 4..ShortMax : \A pos \in 4..size : \A n \in 0..(ShortMax - pos) :
            LET r == EnsureSpace(size, pos, n, ShortMax)
            IN IF r.ok THEN pos + n <= r.size /\ size <= r.size ELSE size + n = ShortMax

\* The text of an object id names one id: it is read back as the id it came from.
OidsExact ==
    bs.calls = 0 => \A x \in 0..255 : bson_oid_from_string(bson_oid_to_string(<<x, 255 - x>>)) = <<x, 255 - x>>

\* What bson.c and encoding.c promise, taken together.
BsonExact == OidsExact /\ DocumentExact /\ BufferHolds /\ SpaceExact /\ TextsChecked
=============================================================================
