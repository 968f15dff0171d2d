------------------------------ MODULE Scripts ------------------------------
(***************************************************************************)
(* Scripts as request handlers (scripting_engine_spidermonkey.c), one        *)
(* worker: its table of compiled scripts is its own.  scr:                   *)
(*   phase     "init" while the initial script runs, "serving", "exit"       *)
(*   table     compiled_scripts: script, uri, full_match, file, mtime        *)
(*   at        where the table lies: buf_expand may move it                  *)
(*   roots     the addresses given to the collector, [at, i]                 *)
(*   stale     scripts that were at an address of a root when the table left *)
(*   live      script objects that were not collected                        *)
(*   made      objects so far; object n is made[n], [file, mtime]            *)
(*   files     the scripts on disk: mtime, and whether they compile          *)
(* History: ran, the entry run last and what came of it; bare, the entries   *)
(* compiled again at an address that is not a root.                          *)
(***************************************************************************)
EXTENDS Integers, Sequences, SequencesExt

CONSTANTS ScrFiles,      \* names
          ScrMaps,       \* calls of map_uri: [file, full, uris]
          ScrPaths,      \* paths of requests
          ScrUpdate,     \* values of config.script_update
          MaxMaps, MaxMtime

VARIABLE scr

NoScript == 0

ScriptsInit ==
    \E update \in ScrUpdate :
        scr = [phase |-> "init", update |-> update, table |-> <<>>, at |-> 0, roots |-> {}, stale |-> {},
               live |-> {}, made |-> <<>>, files |-> [f \in ScrFiles |-> [mtime |-> 1, state |-> "good"]],
               maps |-> 0, ran |-> [entry |-> 0, what |-> "none"], bare |-> {}]

-----------------------------------------------------------------------------
(* Compiling.                                                                *)

\* JS_CompileFile: a new object, or NoScript for a file that is missing or wrong.
JS_CompileFile(s, f) ==
    IF s.files[f].state # "good" THEN [s |-> s, script |-> NoScript]
    ELSE LET n == Len(s.made) + 1
         IN [s |-> [s EXCEPT !.made = Append(@, [file |-> f, mtime |-> s.files[f].mtime]), !.live = @ \cup {n}],
             script |-> n]

\* js_compile: the old object if the file has the time it was compiled at.
js_compile(s, f, orig, mtime) ==
    LET there == s.files[f].state # "missing"
    IN IF there /\ mtime = s.files[f].mtime THEN [s |-> s, script |-> orig, mtime |-> mtime]
       ELSE LET c == JS_CompileFile(s, f)
            IN [s |-> c.s, script |-> c.script, mtime |-> IF there THEN s.files[f].mtime ELSE mtime]

\* js_update_bytecode of entry i.
js_update_bytecode(s, i) ==
    IF s.update = 0 THEN s
    ELSE LET e == s.table[i]
             c == js_compile(s, e.file, e.script, e.mtime)
         IN [c.s EXCEPT !.table[i].script = c.script, !.table[i].mtime = c.mtime,
                        !.bare = IF c.script # e.script /\ [at |-> s.at, i |-> i] \notin s.roots THEN @ \cup {i} ELSE @]

-----------------------------------------------------------------------------
(* External: the collector.                                                  *)

\* What the roots hold: the scripts at their addresses; what is read through
\* the address of a table that has moved may or may not be there still.
HeldByRoots(s) == {s.table[i].script : i \in {k \in DOMAIN s.table : [at |-> s.at, i |-> k] \in s.roots}}
Collected(s) == {[s EXCEPT !.live = @ \cap (HeldByRoots(s) \cup kept)] : kept \in SUBSET s.stale}
JS_MaybeGC(s) == {s} \cup Collected(s)

-----------------------------------------------------------------------------
(* The initial script.                                                       *)

\* buf_expand by one entry: the table may move, and its roots stay behind.
TableExpanded(s, e, moves) ==
    IF moves
    THEN [s EXCEPT !.table = Append(@, e), !.at = @ + 1,
                   !.stale = @ \cup (HeldByRoots(s) \ {NoScript})]
    ELSE [s EXCEPT !.table = Append(@, e)]

\* mutant: the script is not given to the collector.
NotRooted(s, i) == s

\* JS_AddObjectRoot for the last entry of a call.
Rooted(s, i) == [s EXCEPT !.roots = @ \cup {[at |-> s.at, i |-> i]}]

\* js_function_map_uri.  moves says at which of the entries the table moves.
js_function_map_uri ==
    /\ scr.phase = "init" /\ scr.maps < MaxMaps
    /\ \E m \in ScrMaps : \E moves \in SUBSET (1..Len(m.uris)) :
        LET c == js_compile(scr, m.file, NoScript, 0)
            Add(s, k) == TableExpanded(s, [script |-> c.script, uri |-> m.uris[k], full_match |-> m.full, file |-> m.file,
                                      mtime |-> c.mtime], k \in moves)
            all == FoldLeft(Add, c.s, [k \in 1..Len(m.uris) |-> k])
        IN IF c.script = NoScript \/ \E k \in DOMAIN m.uris : Head(m.uris[k]) # "/"
           THEN scr' = [scr EXCEPT !.phase = "exit"]
           ELSE scr' \in JS_MaybeGC([(IF m.uris = <<>> THEN all ELSE Rooted(all, Len(all.table))) EXCEPT !.maps = @ + 1])

\* The initial script is at its end.
scripts_sm_init ==
    /\ scr.phase = "init"
    /\ scr' \in JS_MaybeGC([scr EXCEPT !.phase = "serving"])

-----------------------------------------------------------------------------
(* Requests.                                                                 *)
Matches(e, path) == IF e.full_match THEN e.uri = path ELSE IsPrefix(e.uri, path)

\* JS_ExecuteScript of entry i.
Execute(s, i) ==
    [s EXCEPT !.ran = [entry |-> i, what |-> CASE s.table[i].script = NoScript -> "null"
                                               [] s.table[i].script \notin s.live -> "dead"
                                               [] OTHER -> "ran"]]

\* js_web_callback: the first entry for the path.  It runs for paths that were
\* given to web_set_callback.  A dead or missing script ends the worker.
js_web_callback ==
    /\ scr.phase = "serving"
    /\ \E path \in ScrPaths :
        LET found == {i \in DOMAIN scr.table : Matches(scr.table[i], path)}
        IN /\ found # {}
           /\ LET i == CHOOSE k \in found : \A j \in found : k <= j
                  s == Execute(js_update_bytecode(scr, i), i)
              IN IF s.ran.what = "ran" THEN scr' \in JS_MaybeGC(s) ELSE scr' = [s EXCEPT !.phase = "exit"]

-----------------------------------------------------------------------------
(* External: someone edits the scripts.                                      *)
EditFile ==
    /\ scr.phase = "serving"
    /\ \E f \in ScrFiles, state \in {"good", "wrong", "missing"} :
        /\ scr.files[f].mtime < MaxMtime
        /\ scr' = [scr EXCEPT !.files[f] = [mtime |-> @.mtime + 1, state |-> state], !.ran.what = "none"]

ScriptsNext == js_function_map_uri \/ scripts_sm_init \/ js_web_callback \/ EditFile

-----------------------------------------------------------------------------
(* Properties.                                                               *)

\* A script that is run was not collected, unless the table moved after one of
\* its scripts was given to the collector, or this entry was compiled again and
\* is not the one the collector knows.
RunsLive == scr.ran.what = "dead" => scr.stale # {} \/ scr.ran.entry \in scr.bare

\* A script that ran is the file as it was then, if scripts are updated, and as
\* it was at start otherwise.
RunsCurrent ==
    scr.ran.what = "ran" =>
        LET e == scr.table[scr.ran.entry]
        IN scr.made[e.script] = [file |-> e.file, mtime |-> IF scr.update = 1 THEN scr.files[e.file].mtime ELSE 1]

\* A worker loses a script it could run only to a file that does not compile.
NullsExplained == scr.ran.what = "null" => scr.update = 1 /\ \E f \in ScrFiles : scr.files[f].mtime > 1

ScriptsExact == RunsLive /\ RunsCurrent /\ NullsExplained

=============================================================================
