------------------------------- MODULE MCLibs -------------------------------
(* The text-processing functions of the server and the libraries it is      *)
(* built with, for TLC.  A behaviour is one part, which `unit' names.  The  *)
(* parts of pure functions take one case per state and stay at it.          *)
EXTENDS Templates, HttpText, Config, Database, MongoCursor, MongoWrites, GridFS, Bson,
        RbTree, Arena, HugeAlloc, SizeClasses, Captcha, Digest, Scripts

VARIABLE unit

-----------------------------------------------------------------------------
(* Templates: texts with variables and includes, and every way to put up to *)
(* three blocks beside and inside each other.                               *)
Plain == Token("text", "t")
Flat ==
    UNION {[1..n -> {Plain, Token("var", "x"), Token("include", "h"), Token("include", "p")}] : n \in 0..3}
Tags ==
    LET A == Token("open", "a") Z == Token("end", "a")
        B == Token("open", "b") Y == Token("end", "b")
        C == Token("open", "c") X == Token("end", "c")
    IN  {<<A, Z>>, <<A, Z, B, Y>>, <<A, B, Y, Z>>, <<A, B, Y, C, X, Z>>, <<A, B, C, X, Y, Z>>,
         <<A, B, Y, Z, C, X>>, <<A, Z, B, C, X, Y>>}
Spread(tags, before, k) ==
    FoldLeft(LAMBDA acc, i : acc \o <<tags[i], IF i = k THEN Token("include", "h") ELSE Plain>>,
             before, [i \in 1..Len(tags) |-> i])
SomeTexts ==
    Flat \cup {Spread(g, x, k) :
                g \in Tags, k \in 0..3,
                x \in {<<Plain>>, <<Plain, Token("var", "x"), Plain>>, <<Token("var", "x")>>}}
SomeContexts ==
    {<<>>, <<"a">>, <<"a", "a">>, <<"b", "a">>, <<"a", "b", "b">>, <<"a", "c", "b", "c">>}
SomeLibrary ==
    [h |-> <<Plain>>, p |-> <<Token("include", "h"), Plain, Token("include", "h")>>]

-----------------------------------------------------------------------------
(* HttpText: characters by their codes; 33 stands for one that is special   *)
(* nowhere and not a letter.                                                *)
ca == 97
cb == 98
ce == 101
c2 == 50
SomeArgs ==
    UNION {[1..n -> [key : {<<ca>>}, raw : {<<>>}, val : {<<>>}]
                    \cup [key : {<<ca>>, <<cb, c2>>}, raw : {<<Plus, cb>>}, val : {<<Sp, cb>>}]
                    \cup [key : {<<cb>>}, raw : {<<Pct, c2, ce, ca>>}, val : {<<Dot, ca>>}]] : n \in 0..3}
Strings(chars, max) == UNION {[1..n -> chars] : n \in 0..max}
Mapping(u, full) == [uri |-> u, full_match |-> full]
SomeMap ==
    <<Mapping(<<Slash, ca>>, TRUE), Mapping(<<Slash, ca, cb>>, TRUE),
      Mapping(<<Slash, cb, Slash>>, FALSE), Mapping(<<Slash, ca, cb, Slash>>, TRUE)>>
Digits16(low) == (low..57) \cup (97..102) \cup (65..70)
SomeParts ==
    [part : [disp : Dispositions, type : BOOLEAN], data : {<<>>, <<"x">>, <<"x", "nl", "x">>}]
SomeInputs ==
    [f : {"args"}, s : SomeArgs]
    \cup [f : {"text"}, s : Strings({Eq, Amp, Pct, Sp, ca, 33}, 5)]
    \cup [f : {"uri"}, s : Strings({Slash, Quest, Pct, c2, ce, Dot}, 4)]
    \cup [f : {"map"}, s : [map : {SomeMap}, path : {<<Slash>> \o s : s \in Strings({Slash, ca, cb}, 4)}]]
    \cup [f : {"path"}, s : [path : Strings({Slash, Dot, ca}, 5), types : {<<<<Dot, ca>>, <<Dot, ca, ca>>>>}]]
    \cup [f : {"hex"}, s : Digits16(49) \X Digits16(48)]
    \cup [f : {"parts"}, s : Strings(SomeParts, 2)]
    \cup [f : {"number"}, s : [n : -70..70, base : {2, 10, 32}]]

-----------------------------------------------------------------------------
(* Config: a main file and two files it may include, which may include each *)
(* other and the main file again.                                           *)
Lexeme(t, v) == [t |-> t, v |-> v]
Line(n) == <<Lexeme("name", n), Lexeme(":", ""), Lexeme("int", "1"), Lexeme(";", "")>>
Including(f) == <<Lexeme("@", f), Lexeme(";", "")>>
Group(n, b) == <<Lexeme("name", n), Lexeme(":", ""), Lexeme("{", "")>> \o b \o <<Lexeme("}", "")>>
Statements ==
    {Line("a"), Line("b"), Including("f"), Including("g")}
    \cup {Group(n, b) : n \in {"a", "c"},
                        b \in {<<>>, Line("b"), Including("f"), Line("a") \o Including("g")}}
MainFiles ==
    {x \o y : x, y \in Statements}
    \cup {x \o y \o z : x, y, z \in {Line("b"), Including("f"), Group("c", Line("a"))}}
FirstFiles ==
    {<<>>, Line("a"), Line("b") \o Group("c", Line("a")), Including("g"), Including("m"),
     Group("a", Including("g") \o Line("b"))}
SecondFiles ==
    {<<>>, Line("c"), Including("f"), Including("m"), Line("a") \o <<Lexeme("}", "")>>}
SomeFiles == {[m |-> m, f |-> f, g |-> g] : m \in MainFiles, f \in FirstFiles, g \in SecondFiles}
SomeSpaces ==
    Strings({<<"s">>, <<"n">>, <<"#", "/", "*", "x", "n">>, <<"/", "/", "#", "n">>,
             <<"/", "*", "n", "#", "*", "/">>, <<"/", "*", "*", "/">>}, 3)
SomeLoads ==
    Strings([key : {"worker_threads", "prealloc", "timeout", "gzip_level", "gzip", "other"},
             type : {"int", "bool"}, v : {0, 1, 2, 9, 10}]
            \cup [key : {"limit_rate"}, type : {"int", "int64"}, v : {0, 1}], 2)

-----------------------------------------------------------------------------
(* The database driver: lists of servers with and without ports, replica    *)
(* sets of two nodes, documents of every kind of flag and of element.       *)
SomeServers == UNION {[1..n -> [host : {"a", "b"}, port : {0, 80}]] : n \in 1..3}
SomeSeeds == {<<"n1">>, <<"n1", "n2">>, <<>>}
SomeAnswer == <<"d1", "d2", "d3">>
SomeDocs ==
    {Doc("a", TRUE, TRUE, FALSE, FALSE), Doc("b", TRUE, TRUE, FALSE, TRUE),
     Doc("c", TRUE, FALSE, FALSE, FALSE), Doc("d", FALSE, TRUE, FALSE, FALSE)}
SmallDoc == Int32(12) \o <<<<"t", "int">>>> \o CString(<<ca>>) \o Int32(7) \o <<End>>
SomeAppends ==
    [name : {<<ca>>},
     elem : {[type |-> "null"], [type |-> "bool", num |-> 1], [type |-> "long", num |-> 1001],
             [type |-> "oid", num |-> 3], [type |-> "string", text |-> <<cb>>],
             [type |-> "string", text |-> <<128>>],
             [type |-> "codewscope", text |-> <<cb>>, sub |-> SmallDoc],
             [type |-> "bindata", old |-> TRUE, text |-> <<cb, 0>>], [type |-> "bindata", old |-> FALSE, text |-> <<>>],
             [type |-> "regex", text |-> <<cb>>, opts |-> <<>>], [type |-> "regex", text |-> <<128>>, opts |-> <<>>],
             [type |-> "object", sub |-> SmallDoc]}]
    \cup [name : {<<36, 46>>, <<128>>}, elem : {[type |-> "int", num |-> 1]}]
SomeCopies == [name : {<<ca>>, <<128>>}, elem : {[type |-> "string", text |-> <<cb>>]}]
FirstBytes == {46, 127, 128, 191, 193, 194, 223, 224, 225, 237, 239, 240, 241, 244, 245, 248, 252, 255}
SomeBytes ==
    UNION {{<<a>>, <<a, b>>, <<36, a, b>>, <<a, b, 128>>, <<a, b, 128, c>>, <<a, b, c, 191>>, <<46, a, b, 128, 191, c>>} :
            a \in FirstBytes, b \in {46, 127, 128, 143, 144, 159, 160, 191, 192}, c \in {46, 127, 128, 191, 192}}

\* What the driver promises about connections: the primary is found and asked,
\* sockets are kept, and lists of servers are read as they were written.
DatabaseSound == unit = "database" => ServersExact

\* What the driver promises about queries, writes and files.
DriverSound ==
    /\ unit = "cursor" => CursorSound
    /\ unit = "writes" => WritesSound
    /\ unit = "gridfs" => GridSound

\* Documents are built, grown, copied and read back whole, and texts are
\* checked as bson.c and encoding.c promise.
BsonSound == (unit = "bson" => BsonExact) /\ (unit = "encoding" => TextsChecked)

-----------------------------------------------------------------------------
(* The allocator.                                                           *)
CONSTANTS t1, t2
SomeKeys == 1..9
TwoSlots == {1, 2}
OneBin == <<[pages |-> 2, nregs |-> 2]>>
SomeHugeRequests ==
    [t \in Threads |->
        IF t = t1 THEN {[op |-> "palloc", size |-> 2, align |-> 8], [op |-> "ralloc", size |-> 4, align |-> 2]}
        ELSE {[op |-> "malloc", size |-> 2, align |-> 2]}]
Opt(l, n) == [letter |-> l, times |-> n]
SomeSizeCases ==
    [kind : {"options"}, page : {12}, opts : {<<>>, <<Opt("k", 9), Opt("Q", 2)>>}]
    \cup [kind : {"options"}, page : {10},
          opts : [1..2 -> {Opt("Q", 2), Opt("s", 3), Opt("k", 20), Opt("N", 9)}]
                 \cup {<<Opt("K", 1), Opt("f", 12), Opt("F", 1), Opt("n", 2), Opt("q", 1), Opt("S", 1)>>}]
    \cup [kind : {"align"}, alignment : {2^n : n \in 3..9}, bits : {10}, page : {4}, chunk : {7},
          arena_maxclass : {2^7 - 2^4}]
    \cup [kind : {"calloc"}, bits : {8}, num : 0..255]
    \cup [kind : {"rtree"}, bits : {9}, chunk : {2}, perLevel : {2, 3, 4}, key : {k * 4 : k \in 0..127}]

\* The trees of rb.h stay balanced, complete, iterated within the path array and
\* searched correctly, whatever is inserted and removed.
TreeSound == unit = "tree" => RbExact

\* What jemalloc.c promises about memory: the allocations of an arena and the
\* huge ones are apart and whole, and the arena's own accounts, the chunks
\* mapped and the tree of chunks agree with them.
AllocatorSound ==
    /\ unit = "arena" => AllocationsExact /\ AccountsExact
    /\ unit = "huge" => HugeSound

-----------------------------------------------------------------------------
(* Images and digests.                                                      *)
Header(w, h, max) == <<[t |-> "P6"], [t |-> "size", w |-> w, h |-> h], [t |-> "max", v |-> max]>>
LetterFile == [name |-> "a", lines |-> Header(2, 2, 255), bytes |-> 12]
NumeralFile == [name |-> "1", lines |-> <<[t |-> "comment"]>> \o Header(2, 2, 255), bytes |-> 12]
BrokenFile == [name |-> "x", lines |-> Header(2, 2, 255), bytes |-> 11]
SomeImages == {<<>>, <<LetterFile, NumeralFile>>, <<LetterFile, BrokenFile>>}
HeaderLines ==
    {[t |-> "comment"], [t |-> "P6"], [t |-> "size", w |-> 2, h |-> 1], [t |-> "size", w |-> 0, h |-> 1],
     [t |-> "max", v |-> 255], [t |-> "max", v |-> 15]}
SomeCapCases ==
    [kind : {"place"}, angle : -45..45, w : {25}, h : {25}]
    \cup [kind : {"wave"}, x : {0, 1, 100, 198, 199}, y : {0, 1, 35, 68, 69}, a : -6..6,
          v : {<<0, 0, 0, 0>>, <<255, 0, 0, 0>>, <<0, 255, 100, 7>>, <<255, 255, 0, 0>>, <<9, 8, 255, 254>>}]
    \cup [kind : {"file"}, file : [name : {"a"}, lines : UNION {[1..n -> HeaderLines] : n \in 0..4}, bytes : {5, 6}]]

Abc == <<97, 98, 99>>
TwoBlocks == [i \in 1..56 |-> 97 + ((i - 1) \div 4) + ((i - 1) % 4)]
SomeDigests ==
    {[alg |-> "md5", msg |-> Abc,
      hex |-> <<9, 0, 0, 1, 5, 0, 9, 8, 3, 12, 13, 2, 4, 15, 11, 0, 13, 6, 9, 6, 3, 15, 7, 13, 2, 8, 14, 1, 7, 15, 7, 2>>],
     [alg |-> "md5", msg |-> TwoBlocks,
      hex |-> <<8, 2, 1, 5, 14, 15, 0, 7, 9, 6, 10, 2, 0, 11, 12, 10, 10, 10, 14, 1, 1, 6, 13, 3, 8, 7, 6, 12, 6, 6,
                4, 10>>],
     [alg |-> "sha1", msg |-> Abc,
      hex |-> <<10, 9, 9, 9, 3, 14, 3, 6, 4, 7, 0, 6, 8, 1, 6, 10, 11, 10, 3, 14, 2, 5, 7, 1, 7, 8, 5, 0, 12, 2, 6, 12,
                9, 12, 13, 0, 13, 8, 9, 13>>],
     [alg |-> "sha1", msg |-> TwoBlocks,
      hex |-> <<8, 4, 9, 8, 3, 14, 4, 4, 1, 12, 3, 11, 13, 2, 6, 14, 11, 10, 10, 14, 4, 10, 10, 1, 15, 9, 5, 1, 2, 9,
                14, 5, 14, 5, 4, 6, 7, 0, 15, 1>>]}
Counting(n) == [i \in 1..n |-> i]
SomeMessages ==
    {[alg |-> k.alg, msg |-> k.msg, pieces |-> <<1, Len(k.msg) - 1>>] : k \in SomeDigests}
    \cup {[alg |-> "sha1", msg |-> Counting(n), pieces |-> <<>>] : n \in {0, 1, 54, 55, 56, 57, 63, 64, 65, 119, 120, 128}}
    \cup {[alg |-> "md5", msg |-> Counting(a + b + c), pieces |-> <<a, b, c>>] : a, b, c \in {0, 1, 8, 55, 56, 64, 129}}

\* Images and digests come out right: symbols are whole and drawn inside the
\* picture, a finished image carries its own length and checksum unless another
\* worker wrote the shared words meanwhile, and a digest does not depend on how
\* its message was divided.
UtilsSound == (unit = "captcha" => CaptchaSound) /\ (unit = "digest" => DigestsSound)

-----------------------------------------------------------------------------
(* Scripts: one or two addresses for a file, and one that is not an address. *)
SomeMaps ==
    {[file |-> "f", full |-> TRUE, uris |-> <<<<"/">>, <<"/", "a">>>>], [file |-> "g", full |-> FALSE, uris |-> <<<<"/", "b">>>>],
     [file |-> "g", full |-> TRUE, uris |-> <<>>], [file |-> "g", full |-> TRUE, uris |-> <<<<"a">>>>]}
SomePaths == {<<"/">>, <<"/", "a">>, <<"/", "b", "c">>}

\* A worker never runs a script the collector took, runs the current one, and
\* loses one only to a file that does not compile.
ScriptsSound == unit = "scripts" => ScriptsExact

\* A part that is not the one of the behaviour has no state.
LibsInit ==
    /\ unit \in {"templates", "http", "config", "database", "cursor", "writes", "gridfs", "encoding", "bson",
                 "tree", "arena", "huge", "sizes", "captcha", "digest", "scripts"}
    /\ IF unit = "templates" THEN TemplatesInit ELSE tcase = [text |-> <<>>, ctxs |-> <<>>]
    /\ IF unit = "http" THEN HttpTextInit ELSE hcase = [f |-> "none"]
    /\ IF unit = "config" THEN ConfigInit ELSE ccase = [f |-> "none"]
    /\ IF unit = "database" THEN DbInit ELSE dbconn = 0 /\ dbnodes = 0 /\ dbcase = 0
    /\ IF unit = "cursor" THEN CursorInit ELSE query = 0
    /\ IF unit = "writes" THEN WritesInit ELSE wr = 0
    /\ IF unit = "gridfs" THEN GridInit ELSE grid = 0
    /\ IF unit = "tree" THEN RbInit ELSE rbheap = 0 /\ rbroot = 0 /\ rbkeys = 0
    /\ IF unit = "arena" THEN ArenaInit ELSE arena = 0 /\ live = 0 /\ call = 0 /\ calloc_zero = 0
    /\ IF unit = "huge" THEN HugeInit
       ELSE vm = 0 /\ rtree = 0 /\ huge = 0 /\ base = 0 /\ hstats = 0 /\ job = 0 /\ held = 0
    /\ IF unit = "bson" THEN BsonInit ELSE bs = 0
    /\ IF unit = "encoding" THEN EncInit ELSE utfcase = <<>>
    /\ IF unit = "sizes" THEN SizeInit ELSE sizecase = [kind |-> "none"]
    /\ IF unit = "captcha" THEN CaptchaInit ELSE capShared = 0 /\ cap = 0 /\ capcase = 0
    /\ IF unit = "scripts" THEN ScriptsInit ELSE scr = 0
    /\ IF unit = "digest" THEN DigestInit ELSE dig = 0

OnlyLib(part) ==
    /\ unit = part /\ UNCHANGED unit
    /\ UNCHANGED <<tcase, hcase, ccase, utfcase, sizecase>>
    /\ IF part = "database" THEN TRUE ELSE UNCHANGED dbVars
    /\ IF part = "cursor" THEN TRUE ELSE UNCHANGED query
    /\ IF part = "writes" THEN TRUE ELSE UNCHANGED wr
    /\ IF part = "gridfs" THEN TRUE ELSE UNCHANGED grid
    /\ IF part = "bson" THEN TRUE ELSE UNCHANGED bs
    /\ IF part = "tree" THEN TRUE ELSE UNCHANGED rbVars
    /\ IF part = "arena" THEN TRUE ELSE UNCHANGED arenaVars
    /\ IF part = "huge" THEN TRUE ELSE UNCHANGED hugeVars
    /\ IF part = "captcha" THEN TRUE ELSE UNCHANGED capVars
    /\ IF part = "digest" THEN TRUE ELSE UNCHANGED dig
    /\ IF part = "scripts" THEN TRUE ELSE UNCHANGED scr

LibsNext ==
    \/ OnlyLib("templates") /\ TemplatesNext
    \/ OnlyLib("http") /\ HttpTextNext
    \/ OnlyLib("config") /\ ConfigNext
    \/ OnlyLib("encoding") /\ EncNext
    \/ OnlyLib("sizes") /\ SizeNext
    \/ OnlyLib("database") /\ DbNext
    \/ OnlyLib("cursor") /\ CursorNext
    \/ OnlyLib("writes") /\ WritesNext
    \/ OnlyLib("gridfs") /\ GridNext
    \/ OnlyLib("bson") /\ BsonNext
    \/ OnlyLib("tree") /\ RbNext
    \/ OnlyLib("arena") /\ ArenaNext
    \/ OnlyLib("huge") /\ HugeNext
    \/ OnlyLib("captcha") /\ CaptchaNext
    \/ OnlyLib("digest") /\ DigestNext
    \/ OnlyLib("scripts") /\ ScriptsNext

libVars == <<unit, tcase, hcase, ccase, utfcase, sizecase, dbVars, query, wr, grid, bs, rbVars, arenaVars, hugeVars,
             capVars, dig, scr>>
LibsSpec == LibsInit /\ [][LibsNext]_libVars
=============================================================================
