------------------------------ MODULE MCEngine ------------------------------
(* The parts of the server that run beside the request protocol, and the    *)
(* locks of the allocator, for TLC.                                         *)
(* A behaviour is one part, which `unit' names; the other parts stay as     *)
(* they begin, or have no state.                                            *)
EXTENDS FragPool, Limits, Receive, Output, WorkDir, MemCache, WebAlloc, TplVars,
        SelectLoop, KqueueLoop, Logger, MallocEntry

CONSTANTS b1, b2, b3, b4, b5, t1, t2

VARIABLE unit

-----------------------------------------------------------------------------
(* FragPool: five blocks and two reserved slots, so that the array grows    *)
(* beyond them and is trimmed over several slots at once.                   *)

-----------------------------------------------------------------------------
(* Limits: one limiter at a time.                                           *)
OneLimiter == {{"req"}, {"sim"}}

(* Receive: with a buffer of 8, headers that end with the first piece, in   *)
(* it and in the second one; bodies that come with the headers, behind      *)
(* them, with more behind them, in the buffer and in a file; refusals.      *)
Get(h, f, v) ==
    [head |-> h, fields |-> f, method |-> "get", verdict |-> v, clen |-> 0, sent |-> h + 4]
Post(h, v, c, s) ==
    [head |-> h, fields |-> 2, method |-> "post", verdict |-> v, clen |-> c, sent |-> s]
SomeRequests ==
    {Get(8, 3, "ok"), Get(1, 1, "501"), Post(1, "ok", 0, 5), Post(1, "ok", 1, 8), Post(2, "ok", 4, 10),
     Post(1, "ok", 9, 14), Post(1, "415", 3, 5), Post(1, "ok", 11, 5)}

(* Output: ranges with and without numbers, inside, at the end of and       *)
(* behind a file of three bytes, and beyond a 4-bit int.                    *)
SomeVectors == {<<1>>, <<2, 1>>, <<1, 2, 1>>}
SomeRanges == [first : {-1, 0, 1, 2, 3, 4, 9, 15}, last : {-1, 0, 1, 2, 3, 9, 15}]

(* MemCache: a name that begins with another and a name that ends it.       *)
SomeNames == {<<1>>, <<1, 2>>, <<2>>}

-----------------------------------------------------------------------------
(* The locks of the allocator.                                             *)
EntryCalls == [t \in {t1, t2} |-> IF t = t1 THEN {"malloc", "free", "usable", "stats"} ELSE {"memalign", "realloc", "fork"}]

\* What jemalloc.c promises about its locks: they are taken in one order, given
\* back, and free in a new process.
LocksSound == unit = "entry" => EntrySound

-----------------------------------------------------------------------------
(* The parts of the server beside the pool.                                 *)

\* Both limiters together: the rate holds over every second, no address has more
\* than its share of simultaneous requests, the counts are those of open
\* connections, and only a refusal can leave a connection waiting.
LimitsHold == unit = "limits" => LimitsExact

\* A request is taken in exactly, however the bytes are cut into reads: head and
\* body are what was sent, the buffer has room and its pointers follow it when it
\* moves, every pool fragment goes back, and an end is missed only when it spans
\* the part already looked at.
ReceiveExact == unit = "receive" => IntakeExact

\* A response goes out exactly, however the socket cuts it: in order, complete
\* before the connection goes on, inside the file, with every file closed once.
WireExact == unit = "output" => OutputExact

-----------------------------------------------------------------------------
EngineInit ==
    /\ unit \in {"frag_pool", "limits", "receive", "output", "work_dir", "cache",
                 "alloc", "tpl_vars", "select", "kqueue", "logger", "entry"}
    /\ Init /\ (unit # "frag_pool" => pool.e[1].data = b1 /\ pool.e[2].data = b2)
    /\ IF unit = "limits" THEN LimitsInit
       ELSE lon = 0 /\ lclock = 0 /\ lreq = 0 /\ lsim = 0 /\ lopen = 0 /\ ldead = 0 /\ lbacklog = 0
            /\ ledge = 0 /\ lpc = 0 /\ lrestarts = 0 /\ lleft = 0 /\ lacc = 0 /\ lpen = 0
    /\ IF unit = "receive" THEN ReceiveInit
       ELSE rwire = 0 /\ ravail = 0 /\ rgot = 0 /\ rshut = 0 /\ rpc = 0 /\ rout = 0 /\ rb = 0 /\ rptr = 0
            /\ rmethod = 0 /\ rbody = 0 /\ rfile = 0 /\ rpool = 0 /\ rcuts = 0 /\ rserved = 0
    /\ IF unit = "output" THEN OutputInit
       ELSE oresp = 0 /\ opc = 0 /\ oplan = 0 /\ ovec = 0 /\ ocur = 0 /\ ototal = 0 /\ osend = 0 /\ oopen = 0
            /\ owire = 0 /\ ocause = 0
    /\ WorkDirInit /\ (unit # "work_dir" => tupd = 0)
    /\ MemCacheInit /\ WebAllocInit /\ TplVarsInit /\ SelInit /\ KqInit
    /\ LoggerInit /\ (unit # "logger" => output = "both")
    /\ IF unit = "entry" THEN MallocInit ELSE lock = 0 /\ mstate = 0 /\ todo = 0 /\ map = 0 /\ has = 0

Only(part) ==
    /\ unit = part /\ UNCHANGED unit
    /\ IF part = "frag_pool" THEN TRUE ELSE UNCHANGED vars
    /\ IF part = "limits" THEN TRUE ELSE UNCHANGED limVars
    /\ IF part = "receive" THEN TRUE ELSE UNCHANGED recvVars
    /\ IF part = "output" THEN TRUE ELSE UNCHANGED outVars
    /\ IF part = "work_dir" THEN TRUE ELSE UNCHANGED wdVars
    /\ IF part = "cache" THEN TRUE ELSE UNCHANGED cacheVars
    /\ IF part = "alloc" THEN TRUE ELSE UNCHANGED allocVars
    /\ IF part = "tpl_vars" THEN TRUE ELSE UNCHANGED vvVars
    /\ IF part = "select" THEN TRUE ELSE UNCHANGED selVars
    /\ IF part = "kqueue" THEN TRUE ELSE UNCHANGED kqVars
    /\ IF part = "entry" THEN TRUE ELSE UNCHANGED mallocVars
    /\ IF part = "logger" THEN TRUE ELSE UNCHANGED logVars

EngineNext ==
    \/ Only("frag_pool") /\ Next
    \/ Only("limits") /\ LimitsNext
    \/ Only("receive") /\ ReceiveNext
    \/ Only("output") /\ OutputNext
    \/ Only("work_dir") /\ WorkDirNext
    \/ Only("cache") /\ MemCacheNext
    \/ Only("alloc") /\ WebAllocNext
    \/ Only("tpl_vars") /\ TplVarsNext
    \/ Only("select") /\ SelNext
    \/ Only("kqueue") /\ KqNext
    \/ Only("entry") /\ MallocNext
    \/ Only("logger") /\ LoggerNext

allVars == <<unit, vars, limVars, recvVars, outVars, wdVars, cacheVars, allocVars, vvVars, selVars,
             kqVars, logVars, mallocVars>>

EngineSpec == EngineInit /\ [][EngineNext]_allVars
=============================================================================
