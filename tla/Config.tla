------------------------------- MODULE Config -------------------------------
(***************************************************************************)
(* The configuration: the parser's tree of settings with its arrays that   *)
(* move when they grow, files that include files, the lookup of required   *)
(* directives, and what each directive does to the loaded configuration.   *)
(*                                                                         *)
(* A file is a sequence of tokens [t, v]; t is "name", ":", "{", "}", ";", *)
(* "@" (an include of file v), or the type of a value.  A setting is at    *)
(* the address <<array, index>>; array 1 holds the root.                   *)
(***************************************************************************)
EXTENDS Integers, Sequences, FiniteSets, SequencesExt

CONSTANTS
    CfgFiles,       \* cases: functions from file names to token sequences
    CfgMain,        \* the file given on the command line
    CfgSpaces,      \* cases: texts before a setting, as sequences of pieces
    CfgLoads,       \* cases: sequences of directives [key, type, v]
    CfgPathLen      \* the size of process_conf's name buffer

VARIABLE ccase

Root == <<1, 1>>
NoSetting == <<0, 0>>
Blank(parent, file) == [name |-> "", type |-> "string", v |-> "", parent |-> parent, file |-> file, childs |-> 0]
Setting(st, a) == st[a[1]][a[2]]
Childs(st, a) == IF Setting(st, a).childs = 0 THEN <<>> ELSE st[Setting(st, a).childs]
ChildAt(st, a, i) == <<Setting(st, a).childs, i>>
TokAt(toks, pos) == IF pos \in 1..Len(toks) THEN toks[pos] ELSE [t |-> "end", v |-> ""]
PastSemicolon(toks, pos) == IF TokAt(toks, pos).t = ";" THEN pos + 1 ELSE pos

\* What the growth of s's array does to the parents of the settings in it:
\* those of the children of moved settings are set again.
ParentsKept(arrays, old, new) == arrays                 \* mutant: they keep the old address
ParentsMoved(arrays, old, new) ==
    LET moved(e) == IF old # 0 /\ e.parent[1] = old THEN [e EXCEPT !.parent = <<new, @[2]>>] ELSE e
        array(a) == FoldLeft(LAMBDA out, e : Append(out, moved(e)), <<>>, a)
    IN  FoldLeft(LAMBDA out, a : Append(out, array(a)), <<>>, arrays)

\* A new child of s: the array is reallocated, which moves it.
AddChild(st, s) ==
    LET new == Len(st) + 1
        old == Setting(st, s).childs
        grown == Append(Childs(st, s), Blank(s, Setting(st, s).file))
    IN  ParentsMoved([Append(st, grown) EXCEPT ![s[1]][s[2]].childs = new], old, new)

RECURSIVE Ancestors(_, _)
Ancestors(st, a) == IF a = NoSetting THEN {} ELSE {Setting(st, a).file} \cup Ancestors(st, Setting(st, a).parent)
IncludedAbove(st, c, f) == f \in Ancestors(st, Setting(st, c).parent)

DuplicateName(st, s, name) == \E i \in 1..Len(Childs(st, s)) : Childs(st, s)[i].name = name

\* Results are [st, pos, err]; pos = 0 is the null pointer.
Refused(st, why) == [st |-> st, pos |-> 0, err |-> why]

RECURSIVE config_parse_childs(_, _, _, _, _)
\* The command behind an "@", whose setting is c: a file is included.
config_parse_command(fs, st, c, toks, pos) ==
    LET f == TokAt(toks, pos).v
        included == [st EXCEPT ![c[1]][c[2]].type = "group", ![c[1]][c[2]].file = f]
        inner == config_parse_childs(fs, included, c, fs[f], 1)
    IN  IF IncludedAbove(st, c, f) THEN Refused(included, "loop")
        ELSE IF f \notin DOMAIN fs THEN Refused(included, "io")
        ELSE IF inner.pos = 0 THEN inner
        ELSE [inner EXCEPT !.pos = PastSemicolon(toks, pos + 1)]

config_parse_childs(fs, st0, s, toks, pos) ==
    LET st1 == [st0 EXCEPT ![s[1]][s[2]].type = "group"]
        st2 == AddChild(st1, s)
        c == ChildAt(st2, s, Len(Childs(st2, s)))
        tok == TokAt(toks, pos)
        named == [st2 EXCEPT ![c[1]][c[2]].name = tok.v]
        val == TokAt(toks, pos + 2)
        valued == [named EXCEPT ![c[1]][c[2]].type = val.t, ![c[1]][c[2]].v = val.v]
        then(r, next) == IF r.pos = 0 THEN r ELSE config_parse_childs(fs, r.st, s, toks, next)
        command == config_parse_command(fs, st2, c, toks, pos)
        group == config_parse_childs(fs, named, c, toks, pos + 3)
    IN  IF pos > Len(toks) THEN [st |-> st0, pos |-> pos, err |-> ""]
        ELSE IF tok.t = "}" /\ s # Root THEN [st |-> st1, pos |-> PastSemicolon(toks, pos + 1), err |-> ""]
        ELSE IF tok.t = "@" THEN then(command, command.pos)
        ELSE IF tok.t # "name" THEN Refused(st2, "no name")
        ELSE IF DuplicateName(st2, s, tok.v) THEN Refused(st2, "duplicate")
        ELSE IF TokAt(toks, pos + 1).t # ":" THEN Refused(named, "no colon")
        ELSE IF val.t = "{" THEN then(group, PastSemicolon(toks, group.pos))
        ELSE IF val.t \notin {"string", "int", "int64", "float", "bool"} THEN Refused(named, "no value")
        ELSE config_parse_childs(fs, valued, s, toks, PastSemicolon(toks, pos + 3))

config_read(fs, main) ==
    config_parse_childs(fs, <<<<Blank(NoSetting, main)>>>>, Root, fs[main], 1)

RECURSIVE Reachable(_, _)
Reachable(st, a) == {a} \cup UNION {Reachable(st, ChildAt(st, a, i)) : i \in 1..Len(Childs(st, a))}

-----------------------------------------------------------------------------
(* config_lookup_relative.  An include has no name and is looked through;  *)
(* the whole rest of the path is looked up in it, and the loop goes on     *)
(* from what was found there with "include" as the last lookup left it.    *)
Named(st, s, n) ==
    LET at == {i \in 1..Len(Childs(st, s)) : Childs(st, s)[i].name = n}
    IN  IF at = {} THEN NoSetting ELSE ChildAt(st, s, Min(at))

RECURSIVE Lookup(_, _, _, _)
Lookup(st, s, path, include) ==
    LET own == Named(st, s, path[1])
        via(i) == Lookup(st, ChildAt(st, s, i), path, NoSetting)
        includes == {i \in 1..Len(Childs(st, s)) : Childs(st, s)[i].name = ""}
        found == {i \in includes : via(i) # NoSetting}
        inc == IF found # {} THEN via(Min(found)) ELSE IF includes # {} THEN NoSetting ELSE include
        locals == IF own # NoSetting THEN own ELSE inc
    IN  IF locals = NoSetting \/ Len(path) = 1 THEN locals
        ELSE Lookup(st, locals, Tail(path), IF own # NoSetting THEN include ELSE inc)
config_lookup(st, path) == Lookup(st, Root, path, NoSetting)

\* The names on the way from the root, includes left out.
RECURSIVE NamesTo(_, _)
NamesTo(st, a) ==
    IF a = NoSetting THEN <<>>
    ELSE NamesTo(st, Setting(st, a).parent)
         \o (IF Setting(st, a).name = "" THEN <<>> ELSE <<Setting(st, a).name>>)

\* config_setting_path: names are collected upwards, each one reversed, and
\* the result reversed; it is given up when the buffer is full.  A name is a
\* single character here and "." another.
RECURSIVE PathUpwards(_, _, _)
PathUpwards(st, a, out) ==
    IF a = NoSetting THEN out
    ELSE LET n == Setting(st, a).name
             o == IF out = <<>> THEN out ELSE Append(out, ".")
         IN  IF n = "" THEN PathUpwards(st, Setting(st, a).parent, out)
             ELSE IF CfgPathLen - Len(o) <= 1 THEN <<>>
             ELSE PathUpwards(st, Setting(st, a).parent, Append(o, n))
config_setting_path(st, a) == Reverse(PathUpwards(st, a, <<>>))

-----------------------------------------------------------------------------
(* config_jump_to_nonspace over characters: "s" a space or newline-free    *)
(* blank, "n" a newline, "#", "/", "*", and "x" anything else.             *)
CharAt(c, i) == IF i <= Len(c) THEN c[i] ELSE ""
AfterMark(c, i, mark) ==              \* the position behind the next mark, or of the end
    LET at == {j \in i..(Len(c) - Len(mark) + 1) : SubSeq(c, j, j + Len(mark) - 1) = mark}
    IN  IF at = {} THEN Len(c) + 1 ELSE Min(at) + Len(mark)

RECURSIVE JumpFrom(_, _)
JumpFrom(c, i) ==
    IF CharAt(c, i) = "" THEN Len(c) + 1
    ELSE IF CharAt(c, i) = "#" \/ (CharAt(c, i) = "/" /\ CharAt(c, i + 1) = "/") THEN JumpFrom(c, AfterMark(c, i, <<"n">>))
    ELSE IF CharAt(c, i) = "/" /\ CharAt(c, i + 1) = "*" THEN JumpFrom(c, AfterMark(c, i, <<"*", "/">>))
    ELSE IF CharAt(c, i) \in {"s", "n"} THEN JumpFrom(c, i + 1)
    ELSE i
config_jump_to_nonspace(c) == JumpFrom(c, 1)

-----------------------------------------------------------------------------
(* default_config and the directives that set numbers.  The timeout is     *)
(* kept twice: as the text sent to clients and as the value used.          *)
default_config ==
    [worker_threads |-> 5, prealloc |-> 10, limit_rate |-> 64, limit_delay |-> 30, sim_threshold |-> 8,
     timeout_str |-> 25, timeout_val |-> 0, max_conn |-> 4, gzip_level |-> 6, gzip_min |-> 64, restart |-> 0,
     gzip |-> FALSE, limit_req |-> FALSE, limit_sim_req |-> FALSE]

LeastOf(key) ==                       \* the smallest value a directive accepts
    CASE key \in {"worker_threads", "prealloc"} -> 2 [] key = "restart" -> 0 [] OTHER -> 1
MostOf(key) == IF key = "gzip_level" THEN 9 ELSE 2147483647

SetTimeout(c, v) == [c EXCEPT !.timeout_str = v, !.timeout_val = v]

Switches == {"gzip", "limit_req", "limit_sim_req"}
Known == (DOMAIN default_config \ ({"timeout_str", "timeout_val"} \cup Switches)) \cup {"timeout"}

\* One directive; ok = FALSE once a name or a value is refused, which ends
\* the program.
process_directive_int(r, d) ==
    IF d.key \notin Known \/ d.v < LeastOf(d.key) \/ d.v > MostOf(d.key) THEN [r EXCEPT !.ok = FALSE]
    ELSE [r EXCEPT !.config = IF d.key = "timeout" THEN SetTimeout(@, d.v) ELSE [@ EXCEPT ![d.key] = d.v]]
process_directive_bool(r, d) ==
    IF d.key \notin Switches THEN [r EXCEPT !.ok = FALSE] ELSE [r EXCEPT !.config[d.key] = (d.v # 0)]
process_directive_other(r, d) == [r EXCEPT !.ok = FALSE]    \* 64-bit and fractional values: none is known

\* The settings in the order of the tree.
process_directive(r, d) ==
    CASE ~r.ok -> r
      [] r.ok /\ d.type = "int" -> process_directive_int(r, d)
      [] r.ok /\ d.type = "bool" -> process_directive_bool(r, d)
      [] OTHER -> process_directive_other(r, d)
process_conf(ds) == FoldLeft(process_directive, [ok |-> TRUE, config |-> default_config], ds)

-----------------------------------------------------------------------------
ConfigInit ==
    ccase \in [f : {"files"}, s : CfgFiles] \cup [f : {"space"}, s : CfgSpaces] \cup [f : {"load"}, s : CfgLoads]
ConfigNext == UNCHANGED ccase

\* Whatever arrays have moved while the files were parsed, every setting's
\* parent is the setting that holds it.
ParentsRight ==
    ccase.f = "files" =>
        \A st \in {config_read(ccase.s, CfgMain).st} :
            \A a \in Reachable(st, Root) :
                \A i \in 1..Len(Childs(st, a)) : Childs(st, a)[i].parent = a

\* Reading ends for every set of files, with an error exactly when a file
\* is reached again through the files that include it.
LoopsRefused ==
    ccase.f = "files" =>
        LET r == config_read(ccase.s, CfgMain)
            edge(f) == {ccase.s[f][i].v : i \in {j \in 1..Len(ccase.s[f]) : ccase.s[f][j].t = "@"}}
            level == <<edge(CfgMain), UNION {edge(g) : g \in edge(CfgMain)}>>
            reached == {CfgMain} \cup level[1] \cup level[2]
            looping == \E g \in reached : g \in edge(g) \cup UNION {edge(h) : h \in edge(g)}
                                            \cup UNION {edge(k) : k \in UNION {edge(h) : h \in edge(g)}}
        IN  r.err \in {"", "loop"} => ((r.err = "loop") <=> looping)

\* A directive that is set is found under its path, in whatever file it
\* stands, unless a group of the same name stands beside the include.
LookupFinds ==
    ccase.f = "files" =>
        \A r \in {config_read(ccase.s, CfgMain)} : r.err = "" =>
            \A named \in {{b \in Reachable(r.st, Root) : Setting(r.st, b).name # ""}} :
            \A a \in {b \in named : Setting(r.st, b).type # "group"} :
                (\A b \in named : IsPrefix(NamesTo(r.st, b), NamesTo(r.st, a)) => a \in Reachable(r.st, b))
                    => config_lookup(r.st, NamesTo(r.st, a)) = a

\* A directive is processed under the path its names make, whenever that
\* path fits the buffer.
PathsRight ==
    ccase.f = "files" =>
        \A r \in {config_read(ccase.s, CfgMain)} : r.err = "" =>
            \A a \in Reachable(r.st, Root) :
                2 * Len(NamesTo(r.st, a)) <= CfgPathLen =>
                    SelectSeq(config_setting_path(r.st, a), LAMBDA x : x # ".") = NamesTo(r.st, a)

\* Blanks and comments are skipped, and nothing else.
SpacesSkipped ==
    ccase.f = "space" =>
        LET skipped == FlattenSeq(ccase.s)
        IN  config_jump_to_nonspace(skipped \o <<"x", "s">>) = Len(skipped) + 1

\* What every accepted configuration guarantees to the server: at least two
\* threads and two request structures, positive limits, and, once a timeout
\* is set, the same timeout for the clients and for the server.  Switches
\* are set by Boolean values only and numbers by integers only.
ConfigGuarantees ==
    ccase.f = "load" =>
        LET r == process_conf(ccase.s)
            c == r.config
        IN  r.ok => /\ c.worker_threads >= 2 /\ c.prealloc >= 2
                    /\ c.limit_rate > 0 /\ c.limit_delay > 0 /\ c.sim_threshold > 0 /\ c.max_conn > 0
                    /\ c.gzip_level \in 1..9
                    /\ (\E i \in 1..Len(ccase.s) : ccase.s[i].key = "timeout") => c.timeout_str = c.timeout_val
                    /\ \A k \in Switches : c[k] # default_config[k] => \E i \in 1..Len(ccase.s) : ccase.s[i].key = k /\ ccase.s[i].type = "bool"

\* A configuration is read as written: the tree's links are right although its
\* arrays move, include loops are refused, look-ups and paths find what was set,
\* and the values applied keep what the rest of the program relies on.
ConfigRead ==
    ParentsRight /\ LoopsRefused /\ LookupFinds /\ PathsRight /\ SpacesSkipped /\ ConfigGuarantees

=============================================================================
