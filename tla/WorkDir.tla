------------------------------ MODULE WorkDir -------------------------------
(***************************************************************************)
(* The process-wide working directory and the table of compiled templates. *)
(*                                                                         *)
(* The event thread starts the workers, enters document-root and then      *)
(* opens static files by paths relative to it.  A worker initialises       *)
(* itself under spin_queue_atomic, where the first one preprocesses the    *)
(* style sheet (init_once), and then runs handlers, which compile          *)
(* templates.  Preprocessing and compiling save the directory, enter the   *)
(* template directory and return, each under a mutex of its own.           *)
(***************************************************************************)
EXTENDS Integers, Sequences, FiniteSets

CONSTANTS
    WdWorkers,      \* worker threads
    TplFiles,       \* names of templates
    TplUpdates,     \* config.tpl_cache_update, the settings to look at: 0 "never", 1 "source-modified"
    MaxTplEdits,    \* bound: modifications of template files
    MaxRenders      \* bound: handlers run

ASSUME WorkDirAssumption == TplUpdates \subseteq {0, 1}

VARIABLES
    tupd,       \* the setting in use
    wcwd,       \* the working directory: "start", "root" or "tpl"
    wmain,      \* the event thread: "start" until it has entered document-root
    wspin,      \* spin_queue_atomic held during a worker's initialisation
    wonce,      \* init_once's flag
    wpc,        \* per worker: where it is
    wsaved,     \* per worker: the directory save_cwd has opened
    wcss,       \* the style sheet is in the cache
    tmutex,     \* tpl_compile's mutex is held
    tmtime,     \* st_mtime of each template file
    ttable,     \* compiled_templates: elements [file, mtime, tpl, from]
    tlive,      \* compiled templates in memory
    tfound,     \* per worker: what the lookup found: [at, len], an index or 0 of an array
    twant,      \* per worker: the file its handler compiles, 0 for none
    tuse,       \* per worker: the template its handler fills in, 0 for none
    wrace,      \* history: document-root was entered between a save and its return
    wcount      \* handlers run, files edited

wdVars == <<tupd, wcwd, wmain, wspin, wonce, wpc, wsaved, wcss, tmutex, tmtime, ttable, tlive,
            tfound, twant, tuse, wrace, wcount>>

Inside == {t \in WdWorkers : wpc[t] \in {"css", "compile"}}

WorkDirInit ==
    /\ tupd \in TplUpdates
    /\ wcwd = "start" /\ wmain = "start" /\ wspin = FALSE /\ wonce = FALSE
    /\ wpc = [t \in WdWorkers |-> "init"] /\ wsaved = [t \in WdWorkers |-> "none"]
    /\ wcss = FALSE /\ tmutex = FALSE /\ tmtime = [f \in TplFiles |-> 1] /\ ttable = <<>> /\ tlive = {}
    /\ tfound = [t \in WdWorkers |-> [at |-> 0, len |-> 0]] /\ twant = [t \in WdWorkers |-> 0] /\ tuse = [t \in WdWorkers |-> 0]
    /\ wrace = FALSE /\ wcount = [run |-> 0, edit |-> 0]

-----------------------------------------------------------------------------
(* http_prepare_once, after the threads are created                        *)
EnterRoot ==
    /\ wmain = "start" /\ wmain' = "serve"
    /\ wcwd' = "root"
    /\ wrace' = (Inside # {})
    /\ UNCHANGED <<wspin, wonce, wpc, wsaved, wcss, tmutex, tmtime, ttable, tlive, tfound, twant, tuse, wcount>>

-----------------------------------------------------------------------------
(* A worker's initialisation                                               *)

\* save_and_change_cwd and restore_cwd.
Save(t) == wsaved' = [wsaved EXCEPT ![t] = wcwd] /\ wcwd' = "tpl"
RestoreCwd(t) == wcwd' = wsaved[t] /\ wsaved' = [wsaved EXCEPT ![t] = "none"]

InitWorker(t) ==
    /\ wpc[t] = "init" /\ ~wspin
    /\ IF wonce THEN wpc' = [wpc EXCEPT ![t] = "idle"] /\ UNCHANGED <<wcwd, wsaved, wonce, wspin>>
       ELSE wpc' = [wpc EXCEPT ![t] = "css"] /\ wonce' = TRUE /\ wspin' = TRUE /\ Save(t)
    /\ UNCHANGED <<wmain, wcss, tmutex, tmtime, ttable, tlive, tfound, twant, tuse, wrace, wcount>>

\* static_content_preprocess_and_cache loads the files, which it finds in the
\* template directory, returns to the saved directory in either case, and
\* stores what it has loaded.
Preprocessed(t) ==
    /\ wpc[t] = "css" /\ wpc' = [wpc EXCEPT ![t] = "idle"] /\ wspin' = FALSE
    /\ wcss' = (wcwd = "tpl")
    /\ RestoreCwd(t)
    /\ UNCHANGED <<wmain, wonce, tmutex, tmtime, ttable, tlive, tfound, twant, tuse, wrace, wcount>>

-----------------------------------------------------------------------------
(* tpl_compile                                                             *)

Indices(f) == {i \in 1..Len(ttable) : ttable[i].file = f}
First(S) == CHOOSE i \in S : \A j \in S : i <= j

\* The lookup, under no lock.  Handlers run once the event thread accepts.
TplLookup(t) ==
    /\ wmain = "serve" /\ wpc[t] = "idle" /\ tuse[t] = 0 /\ wcount.run < MaxRenders
    /\ wcount' = [wcount EXCEPT !.run = @ + 1]
    /\ \E f \in TplFiles :
          /\ twant' = [twant EXCEPT ![t] = f]
          /\ tfound' = [tfound EXCEPT ![t] = [at |-> IF Indices(f) = {} THEN 0 ELSE First(Indices(f)),
                                               len |-> Len(ttable)]]
          /\ IF tupd = 0 /\ Indices(f) # {}
             THEN tuse' = [tuse EXCEPT ![t] = ttable[First(Indices(f))].tpl] /\ UNCHANGED wpc
             ELSE wpc' = [wpc EXCEPT ![t] = "lock"] /\ UNCHANGED tuse
    /\ UNCHANGED <<wcwd, wmain, wspin, wonce, wsaved, wcss, tmutex, tmtime, ttable, tlive, wrace>>

TplLockNone(t) ==                     \* mutant: the mutex is not taken
    /\ wpc[t] = "lock"
    /\ wpc' = [wpc EXCEPT ![t] = "compile"] /\ Save(t)
    /\ UNCHANGED <<wmain, wspin, wonce, wcss, tmutex, tmtime, ttable, tlive, tfound, twant, tuse, wrace,
                   wcount>>
TplLock(t) ==
    /\ wpc[t] = "lock" /\ ~tmutex /\ tmutex' = TRUE
    /\ wpc' = [wpc EXCEPT ![t] = "compile"] /\ Save(t)
    /\ UNCHANGED <<wmain, wspin, wonce, wcss, tmtime, ttable, tlive, tfound, twant, tuse, wrace, wcount>>

NewTpl == CHOOSE a \in 1..(Cardinality(tlive) + 1) : a \notin tlive      \* an address not in use

\* The element looked up before the lock was taken is replaced and its
\* template freed, or an element is added.
Stored(i, e) ==
    IF i = 0 THEN ttable' = Append(ttable, e) /\ tlive' = tlive \cup {e.tpl}
    ELSE ttable' = [ttable EXCEPT ![i] = e] /\ tlive' = (tlive \ {ttable[i].tpl}) \cup {e.tpl}

TplCompiled(t) ==
    /\ wpc[t] = "compile"
    /\ LET i == tfound[t].at
           f == twant[t]
       IN  IF i # 0 /\ tfound[t].len # Len(ttable)    \* the element has moved with the array
           THEN tuse' = [tuse EXCEPT ![t] = -1] /\ UNCHANGED <<ttable, tlive>>
           ELSE IF wcwd = "tpl" /\ tupd = 1 /\ i # 0 /\ tmtime[f] <= ttable[i].mtime
           THEN tuse' = [tuse EXCEPT ![t] = ttable[i].tpl] /\ UNCHANGED <<ttable, tlive>>
           ELSE \/ \* the file cannot be loaded or has an error in it
                   UNCHANGED <<tuse, ttable, tlive>>
                \/ \E a \in {NewTpl} :
                      /\ tuse' = [tuse EXCEPT ![t] = a]
                      /\ Stored(i, [file |-> f, mtime |-> tmtime[f], tpl |-> a, from |-> wcwd])
    /\ RestoreCwd(t) /\ tmutex' = FALSE
    /\ wpc' = [wpc EXCEPT ![t] = "idle"] /\ twant' = [twant EXCEPT ![t] = 0]
    /\ UNCHANGED <<wmain, wspin, wonce, wcss, tmtime, tfound, wrace, wcount>>

\* tpl_complete is over.
TplRendered(t) ==
    /\ wpc[t] = "idle" /\ tuse[t] # 0
    /\ tuse' = [tuse EXCEPT ![t] = 0] /\ twant' = [twant EXCEPT ![t] = 0]
    /\ UNCHANGED <<wcwd, wmain, wspin, wonce, wpc, wsaved, wcss, tmutex, tmtime, ttable, tlive, tfound, wrace, wcount>>

\* Somebody edits a template.
TplEdit ==
    /\ wcount.edit < MaxTplEdits /\ wcount' = [wcount EXCEPT !.edit = @ + 1]
    /\ \E f \in TplFiles : tmtime' = [tmtime EXCEPT ![f] = @ + 1]
    /\ UNCHANGED <<wcwd, wmain, wspin, wonce, wpc, wsaved, wcss, tmutex, ttable, tlive, tfound, twant, tuse, wrace>>

WorkDirNext ==
    /\ \/ EnterRoot \/ TplEdit
       \/ \E t \in WdWorkers :
             InitWorker(t) \/ Preprocessed(t) \/ TplLookup(t) \/ TplLock(t) \/ TplCompiled(t) \/ TplRendered(t)
    /\ UNCHANGED tupd

WorkDirSpec == WorkDirInit /\ [][WorkDirNext]_wdVars

-----------------------------------------------------------------------------
(* Properties.                                                             *)

\* When no thread is inside the template directory, the process is back in
\* document-root, where http_send_file's relative paths belong, unless the
\* event thread entered it while a worker was preprocessing, which then
\* returned to where the server had been started.
CwdBack == wmain = "serve" /\ Inside = {} => wcwd = "root" \/ wrace

\* Templates are compiled from files of the template directory, whatever the
\* other threads do to the working directory.
CompiledFromTemplates == \A i \in 1..Len(ttable) : ttable[i].from = "tpl"

\* With update-bytecode = "never", a handler never fills in a template that
\* another worker's tpl_compile has freed or moved.
RenderedAlive == tupd = 0 => \A t \in WdWorkers : tuse[t] # 0 => tuse[t] \in tlive

\* Workers that render while templates are edited: sources are read from the
\* templates' directory, the process is back in its own directory afterwards, and
\* with updates "never" no worker renders a template that was freed.
TemplatesSafe == CompiledFromTemplates /\ CwdBack /\ RenderedAlive

=============================================================================
