------------------------------ MODULE Receive -------------------------------
(***************************************************************************)
(* Receiving one request into a request structure: http_serve_client over  *)
(* the buffer r->b, the headers' pool, and the body in the buffer or in a  *)
(* mapped file, until the response starts and http_cleanup empties the     *)
(* structure for the next request.                                         *)
(*                                                                         *)
(* The client's bytes are numbered from 1: `head' bytes of request line    *)
(* and headers, four of CR LF CR LF, then the body.  Memory holds these    *)
(* numbers, so that a byte in the wrong place shows.  A parse is reduced   *)
(* to its verdict, which belongs to the request.                           *)
(***************************************************************************)
EXTENDS Integers, Sequences, FiniteSets

CONSTANTS
    RecvBuffer,     \* HTTP_RECV_BUFFER
    MaxHeaders,     \* HTTP_MAX_HEADERS_SIZE
    StoreInFile,    \* HTTP_REQUEST_BODY_SIZE_STORE_IN_FILE
    MaxBody,        \* HTTP_MAX_REQUEST_BODY_SIZE
    BufReserved,    \* reserved_len of r->b: 0 for structures made under load
    Fragments,      \* HTTP_HEADERS_POOL_RESERVED_FRAGMENTS
    Wire,           \* requests: [head, fields, method, verdict, clen, sent]
    MaxRequests,    \* bound: requests served by the structure
    UintMod         \* 2^32, scaled down: cur_len is unsigned

\* config.h.in: what arrives with the headers fits into a mapped body.
ASSUME ReceiveAssumption ==
    /\ RecvBuffer \in Nat \ {0} /\ RecvBuffer <= StoreInFile /\ StoreInFile <= MaxBody
    /\ BufReserved \in Nat /\ Fragments \in Nat

VARIABLES
    rwire,      \* the request on the connection
    ravail,     \* bytes of it that have reached the kernel
    rgot,       \* bytes of it that recv has returned
    rshut,      \* the client sends no more
    rpc,        \* "wait" for an event, "recv" in the loop, "reply", "end"
    rout,       \* how http_serve_client ended: "none", "response" or a code
    rb,         \* r->b: [cur_len, cap, addr, mem]
    rptr,       \* the address uri, version, headers and body are based on
    rmethod,    \* method_get/post/head and uri.len # 0: "none" until parsed
    rbody,      \* body.data: [at, off, len], at "buf" or "file"
    rfile,      \* the mapped file's contents
    rpool,      \* r->in.p: [cur_len, real_len, blocks]
    rcuts,      \* history: where each recv's piece of the stream began
    rserved

recvVars == <<rwire, ravail, rgot, rshut, rpc, rout, rb, rptr, rmethod, rbody, rfile, rpool, rcuts,
              rserved>>

Lesser(a, b) == IF a < b THEN a ELSE b
End(w) == w.head + 4                  \* the last byte of CR LF CR LF

-----------------------------------------------------------------------------
(* buf_t and pool_t                                                        *)

NoMem == [i \in {} |-> 0]
Store(mem, off, n, first) ==          \* n bytes of the stream from `first' on
    [i \in DOMAIN mem \cup off..(off + n - 1) |->
        IF i \in off..(off + n - 1) THEN first + (i - off) ELSE mem[i]]

\* buf_expand, buf_expand_i: beyond reserved_len the array is reallocated to
\* the new length, and may or may not move.
buf_expand(b, add) ==
    LET n == (b.cur_len + add) % UintMod
    IN  IF n > BufReserved
        THEN {[cur_len |-> n, cap |-> n, addr |-> a,
               mem |-> [i \in DOMAIN b.mem \cap 0..(n - 1) |-> b.mem[i]]] : a \in {b.addr, 1 - b.addr}}
        ELSE {[b EXCEPT !.cur_len = n]}
buf_free(b) ==
    [cur_len |-> 0, cap |-> IF b.cur_len > BufReserved THEN BufReserved ELSE b.cap,
     addr |-> b.addr, mem |-> NoMem]

\* pool_alloc n times; pool_free keeps `len' blocks.
pool_alloc(p, n) ==
    LET cur == p.cur_len + n
        real == IF cur > p.real_len THEN cur ELSE p.real_len
    IN  [cur_len |-> cur, real_len |-> real, blocks |-> p.blocks \cup (p.real_len + 1)..real]
pool_free(p, len) ==
    [cur_len |-> 0, real_len |-> len, blocks |-> p.blocks \ (len + 1)..p.real_len]

-----------------------------------------------------------------------------
ReceiveInit ==
    /\ rwire \in Wire /\ ravail = 0 /\ rgot = 0 /\ rshut = FALSE /\ rpc = "wait" /\ rout = "none"
    /\ rb = [cur_len |-> 0, cap |-> BufReserved, addr |-> 0, mem |-> NoMem] /\ rptr = 0
    /\ rmethod = "none" /\ rbody = [at |-> "buf", off |-> 0, len |-> 0] /\ rfile = NoMem
    /\ rpool = [cur_len |-> 0, real_len |-> Fragments, blocks |-> 1..Fragments]
    /\ rcuts = {} /\ rserved = 0

\* The client's bytes arrive in pieces of any size; it may stop sending.
RecvArrive ==
    /\ rpc \in {"wait", "recv"} /\ ~rshut
    /\ \/ \E n \in (ravail + 1)..rwire.sent : ravail' = n /\ UNCHANGED rshut
       \/ rshut' = TRUE /\ UNCHANGED ravail
    /\ UNCHANGED <<rwire, rgot, rpc, rout, rb, rptr, rmethod, rbody, rfile, rpool, rcuts, rserved>>

\* epoll reports the socket: level-triggered, and for nothing when the event
\* was one for the descriptor's previous owner, which a new connection gets.
RecvEvent ==
    /\ rpc = "wait" /\ rpc' = "recv"
    /\ ravail > rgot \/ rshut \/ rgot = 0
    /\ UNCHANGED <<rwire, ravail, rgot, rshut, rout, rb, rptr, rmethod, rbody, rfile, rpool, rcuts, rserved>>

\* recv has nothing, after an event for nothing or a piece that filled the
\* extension: the length is corrected.  (The code corrects it while a body is
\* received as well, where it was not extended, but asks for more of a body
\* only when epoll has reported some.)
RecvBlocks(b) == [b EXCEPT !.cur_len = (@ - RecvBuffer) % UintMod]

RecvNothing ==
    /\ rpc = "recv" /\ rmethod = "none" /\ ravail = rgot /\ ~rshut
    /\ \E b \in buf_expand(rb, RecvBuffer) :
          /\ rb' = RecvBlocks(b)
          /\ rptr' = b.addr
    /\ rpc' = "wait"
    /\ UNCHANGED <<rwire, ravail, rgot, rshut, rout, rmethod, rbody, rfile, rpool, rcuts, rserved>>

\* recv returns 0: the connection is given up.
RecvClosed ==
    /\ rpc = "recv" /\ ravail = rgot /\ rshut
    /\ \E b \in IF rmethod = "post" THEN {rb} ELSE buf_expand(rb, RecvBuffer) :
          rb' = b /\ rptr' = b.addr
    /\ rpc' = "end" /\ rout' = "closed"
    /\ UNCHANGED <<rwire, ravail, rgot, rshut, rmethod, rbody, rfile, rpool, rcuts, rserved>>

ParseErrors == {"400", "501"}         \* http_parse_headers

Reply(code) == rpc' = "reply" /\ rout' = code

\* The end of the headers is looked for from byte 4 of what this recv has
\* returned; i is the position of the last LF in it.
EndSeenFromFive(i, n) == i >= 5 /\ i < n    \* mutant: the search starts one later
EndSeen(i, n) == i >= 4 /\ i < n

\* What follows the headers of a POST, the bytes of this recv that belong to
\* the body included: the rest of the body gets room for one byte more.
BodyRoom(w, len) == (w.clen - len) + 1

\* What was sent behind the body is not part of it.
BodySoFar(w, len) == Lesser(len, w.clen)

\* When the array has moved, the pointers into it are moved with it.
http_buffer_moved(old, new) == IF old # new THEN new ELSE old

StartBody(b, n) ==
    LET w == rwire
        len == (rgot + n) - End(w)
    IN  IF w.verdict # "ok" THEN Reply(w.verdict) /\ rb' = b /\ rptr' = b.addr
                                 /\ UNCHANGED <<rbody, rfile>>
        ELSE IF w.clen > MaxBody THEN Reply("413") /\ rb' = b /\ rptr' = b.addr
                                      /\ UNCHANGED <<rbody, rfile>>
        ELSE /\ IF w.clen > StoreInFile
                THEN /\ rbody' = [at |-> "file", off |-> 0, len |-> BodySoFar(w, len)]
                     /\ rfile' = Store(NoMem, 0, len, End(w) + 1)
                     /\ rb' = b /\ rptr' = b.addr
                ELSE /\ rbody' = [at |-> "buf", off |-> End(w), len |-> BodySoFar(w, len)]
                     /\ \E c \in buf_expand(b, BodyRoom(w, len)) :
                           rb' = c /\ rptr' = http_buffer_moved(b.addr, c.addr)
                     /\ UNCHANGED rfile
             /\ IF len >= w.clen THEN Reply("response") ELSE rpc' = "wait" /\ UNCHANGED rout

\* One recv into the buffer, while no headers have been parsed.
RecvHead ==
    /\ rpc = "recv" /\ rmethod = "none" /\ ravail > rgot
    /\ LET n == Lesser(RecvBuffer, ravail - rgot)
           i == End(rwire) - rgot - 1
       IN  /\ rgot' = rgot + n
           /\ rcuts' = rcuts \cup {rgot}
           /\ \E b \in buf_expand(rb, RecvBuffer) :
                LET c == [b EXCEPT !.cur_len = @ - (RecvBuffer - n),
                                   !.mem = Store(@, b.cur_len - RecvBuffer, n, rgot + 1)]
                IN  IF EndSeen(i, n)
                    THEN IF c.cur_len > MaxHeaders
                         THEN /\ Reply("414") /\ rb' = c /\ rptr' = c.addr
                              /\ UNCHANGED <<rmethod, rbody, rfile, rpool>>
                         ELSE /\ rpool' = pool_alloc(rpool, rwire.fields)
                              /\ rmethod' = rwire.method
                              /\ IF rwire.method = "post" /\ rwire.verdict \notin ParseErrors
                                 THEN StartBody(c, n)
                                 ELSE /\ Reply(IF rwire.verdict = "ok" THEN "response" ELSE rwire.verdict)
                                      /\ rb' = c /\ rptr' = c.addr
                                      /\ UNCHANGED <<rbody, rfile>>
                    ELSE /\ rb' = c /\ rptr' = c.addr
                         /\ IF c.cur_len > MaxHeaders THEN Reply("414")
                            ELSE rpc' = (IF n < RecvBuffer THEN "wait" ELSE "recv") /\ UNCHANGED rout
                         /\ UNCHANGED <<rmethod, rbody, rfile, rpool>>
    /\ UNCHANGED <<rwire, ravail, rshut, rserved>>

\* One recv into the body, of what is missing at most.
RecvBody ==
    /\ rpc = "recv" /\ rmethod = "post" /\ ravail > rgot
    /\ LET n == Lesser(rwire.clen - rbody.len, ravail - rgot)
           off == rbody.off + rbody.len
       IN  /\ rgot' = rgot + n
           /\ rbody' = [rbody EXCEPT !.len = @ + n]
           /\ IF rbody.at = "file"
              THEN rfile' = Store(rfile, off, n, rgot + 1) /\ UNCHANGED rb
              ELSE rb' = [rb EXCEPT !.mem = Store(@, off, n, rgot + 1)] /\ UNCHANGED rfile
           /\ IF rbody.len + n >= rwire.clen THEN Reply("response") ELSE rpc' = "wait" /\ UNCHANGED rout
    /\ UNCHANGED <<rwire, ravail, rshut, rptr, rmethod, rpool, rcuts, rserved>>

\* http_cleanup after the response or the end of the connection; the next
\* request comes on this connection or on another.
RecvCleanup ==
    /\ rpc \in {"reply", "end"} /\ rserved < MaxRequests
    /\ rserved' = rserved + 1
    /\ rwire' \in Wire /\ ravail' = 0 /\ rgot' = 0 /\ rshut' = FALSE /\ rpc' = "wait" /\ rout' = "none"
    /\ rb' = buf_free(rb) /\ rptr' = rb.addr
    /\ rmethod' = "none" /\ rbody' = [at |-> "buf", off |-> 0, len |-> 0] /\ rfile' = NoMem
    /\ rpool' = pool_free(rpool, Fragments) /\ rcuts' = {}

ReceiveNext ==
    \/ RecvArrive
    \/ RecvEvent
    \/ RecvNothing
    \/ RecvClosed
    \/ RecvHead
    \/ RecvBody
    \/ RecvCleanup

ReceiveSpec == ReceiveInit /\ [][ReceiveNext]_recvVars

-----------------------------------------------------------------------------
(* Properties.                                                             *)

\* While headers are being received, the buffer's length is the number of
\* bytes received: extensions that recv did not fill are taken back.
HeadExact == rmethod = "none" /\ rpc # "end" => rb.cur_len = rgot

\* A POST is answered when its body is complete, and the body handlers see is
\* byte for byte what followed the headers, however it was cut into pieces,
\* wherever it is stored, and whatever was sent behind it.
BodyExact ==
    rout = "response" /\ rmethod = "post" =>
        LET mem == IF rbody.at = "file" THEN rfile ELSE rb.mem
        IN  /\ rbody.len = rwire.clen
            /\ \A k \in 0..(rwire.clen - 1) :
                  /\ rbody.off + k \in DOMAIN mem
                  /\ mem[rbody.off + k] = End(rwire) + 1 + k

\* Nothing is written behind the end of the buffer's array or of the mapping,
\* the zero that ends the body included.
RoomForBody ==
    /\ \A i \in DOMAIN rb.mem : i < rb.cap
    /\ rmethod = "post" /\ rwire.verdict = "ok" /\ rwire.clen <= MaxBody =>
          IF rbody.at = "file" THEN \A i \in DOMAIN rfile : i < rwire.clen + 1
          ELSE rbody.off + rwire.clen < rb.cap

\* uri, version, headers and body point into the buffer as it is now.
PointersFollow == rmethod # "none" => rptr = rb.addr

\* Complete headers stay unnoticed only if their last four bytes came in
\* more than one piece, or opened a piece.
EndMissedOnlyAtBoundary ==
    rpc = "wait" /\ rmethod = "none" /\ rgot >= End(rwire) =>
        \E cut \in rcuts : cut \in rwire.head..(rwire.head + 3)

\* The headers' pool never loses a block and frees none twice.
PoolExact == rpool.blocks = 1..rpool.real_len /\ rpool.cur_len <= rpool.real_len

\* A request is taken in exactly, however the bytes are cut into reads: head and
\* body are what was sent, the buffer has room and its pointers follow it when it
\* moves, every pool fragment goes back, and an end is missed only when it spans
\* the part already looked at.
IntakeExact ==
    HeadExact /\ BodyExact /\ RoomForBody /\ PointersFollow /\ EndMissedOnlyAtBoundary /\ PoolExact

=============================================================================
