------------------------------ MODULE MemCache ------------------------------
(***************************************************************************)
(* The in-memory cache of preprocessed files.  Keys are pointers into one  *)
(* buffer of names, which moves when it grows; a value and its compressed  *)
(* form share one block, which is reallocated when either changes.         *)
(***************************************************************************)
EXTENDS Integers, Sequences

CONSTANTS
    CacheNames,     \* names: sequences of characters
    CacheData,      \* contents
    MaxEntries, MaxUpdates    \* bounds

\* Names are sequences of some length; NotStored below is no file's content.
ASSUME MemCacheAssumption ==
    /\ CacheNames # {} /\ MaxEntries \in Nat /\ "not stored" \notin CacheData
    /\ \A n \in CacheNames : n \in Seq({n[i] : i \in DOMAIN n})

VARIABLES
    cnames,     \* cache_names: [addr, mem]
    centries,   \* cache: elements [key : [addr, off, len], value, gzipped, time]
    cgz,        \* gz_strm can compress (deflate has not failed without a reset)
    cclock,     \* current_time_sec
    chist,      \* history: what was stored last under each stored name
    cupdates

cacheVars == <<cnames, centries, cgz, cclock, chist, cupdates>>

NoGzip == "none"
NotStored == "not stored"

MemCacheInit ==
    /\ cnames = [addr |-> 0, mem |-> <<>>] /\ centries = <<>> /\ cgz = TRUE /\ cclock = 0
    /\ chist = [n \in CacheNames |-> NotStored] /\ cupdates = 0

\* The characters a key points at; another address is memory that was freed.
KeyOf(e) == IF e.key.addr # cnames.addr THEN <<>> ELSE SubSeq(cnames.mem, e.key.off + 1, e.key.off + e.key.len)
Matching(name) == {i \in 1..Len(centries) : KeyOf(centries[i]) = name}
FirstOf(S) == CHOOSE i \in S : \A j \in S : i <= j

\* cache_find: the first element of that name; compressed if the client takes
\* it and there is a compressed form.
cache_find(name, gzip) ==
    IF Matching(name) = {} THEN [found |-> FALSE, value |-> NotStored, gzip |-> FALSE]
    ELSE LET e == centries[FirstOf(Matching(name))]
         IN  IF gzip /\ e.gzipped # NoGzip THEN [found |-> TRUE, value |-> e.gzipped, gzip |-> TRUE]
             ELSE [found |-> TRUE, value |-> e.value, gzip |-> FALSE]

\* gen_gzipped_value: compresses the value, unless deflate fails; the stream
\* is reset only after a success.
Gzipped(value, old) == {g \in {value, NoGzip} : g = value => cgz}

\* ajust_key_ptrs, when the buffer of names has moved.
ajust_none(es, addr) == es            \* mutant: the keys stay behind
ajust_key_ptrs(es, addr) == [i \in 1..Len(es) |-> [es[i] EXCEPT !.key.addr = addr]]

\* Names are stored once each (init_once).
cache_store ==
    /\ Len(centries) < MaxEntries
    /\ \E name \in {n \in CacheNames : chist[n] = NotStored}, data \in CacheData, moved \in {0, 1} :
          LET addr == (cnames.addr + moved) % 3
          IN  \E g \in Gzipped(data, NoGzip) :
                /\ cnames' = [addr |-> addr, mem |-> cnames.mem \o name]
                /\ centries' = Append(IF moved = 0 THEN centries ELSE ajust_key_ptrs(centries, addr),
                                 [key |-> [addr |-> addr, off |-> Len(cnames.mem), len |-> Len(name)],
                                  value |-> data, gzipped |-> g, time |-> cclock])
                /\ cgz' = (g = data)
                /\ chist' = [chist EXCEPT ![name] = data]
    /\ UNCHANGED <<cclock, cupdates>>

\* cache_update: the callback gives new contents or NULL.
cache_update ==
    /\ cupdates < MaxUpdates /\ cupdates' = cupdates + 1 /\ cclock' = cclock + 1
    /\ \E name \in CacheNames :
          /\ Matching(name) # {}
          /\ LET i == FirstOf(Matching(name))
             IN  \/ UNCHANGED <<centries, cgz, chist>>
                 \/ \E data \in CacheData : \E g \in Gzipped(data, centries[i].gzipped) :
                       /\ centries' = [centries EXCEPT ![i] =
                                         [key |-> @.key, value |-> data, gzipped |-> g, time |-> cclock]]
                       /\ cgz' = (g = data)
                       /\ chist' = [chist EXCEPT ![name] = data]
    /\ UNCHANGED cnames

cache_free ==
    /\ centries # <<>> /\ centries' = <<>> /\ cnames' = [cnames EXCEPT !.mem = <<>>]
    /\ chist' = [n \in CacheNames |-> NotStored]
    /\ UNCHANGED <<cgz, cclock, cupdates>>

MemCacheNext == cache_store \/ cache_update \/ cache_free

MemCacheSpec == MemCacheInit /\ [][MemCacheNext]_cacheVars

\* A lookup gives what was stored or updated last under that name, compressed
\* or not, although the names move and prefixes of each other are stored; a
\* name that was not stored is not found.
CacheFinds ==
    \A name \in CacheNames, gzip \in BOOLEAN :
        LET r == cache_find(name, gzip)
        IN  r.value = chist[name] /\ (r.found <=> chist[name] # NotStored) /\ (r.gzip => gzip)
=============================================================================
