------------------------------- MODULE Output -------------------------------
(***************************************************************************)
(* Sending responses on one kept-alive connection: http_send_file's        *)
(* decisions and byte ranges, the vector of headers and content that       *)
(* http_append_to_output_buf collects, writev and sendfile that take as    *)
(* much as the socket has room for, and events_out_data that carries on    *)
(* when epoll reports room.                                                *)
(*                                                                         *)
(* A response's header and page bytes are numbered in its vector; a byte   *)
(* of a file is named by its offset.  `owire' is what reaches the client.  *)
(***************************************************************************)
EXTENDS Integers, Sequences, SequencesExt

CONSTANTS
    Vectors,        \* vectors of a page or of headers: sequences of lengths
    FileSize,       \* st_size of the files
    RangeHeaders,   \* values of Range: [first, last], -1 where there is no number
    IntMod,         \* 2^32, scaled down: atoi returns an int
    MaxResponses    \* bound: responses on the connection

ASSUME OutputAssumption == FileSize \in Nat /\ IntMod \in Nat /\ FileSize < IntMod

VARIABLES
    oresp,      \* the response's number
    opc,        \* "idle", "busy" (EPOLLOUT is awaited) or "closed"
    oplan,      \* [vec, body, off, last]: what the headers announce
    ovec,       \* r->out_vec: elements [base, len]
    ocur,       \* temp.out_vec, temp.out_vec_len: the next element, how many
    ototal,     \* temp.writev_total
    osend,      \* temp.sendfile_fd, _offset, _last; fd 0 is none
    oopen,      \* descriptors of files that are open
    owire,      \* bytes the socket has taken, for this response
    ocause      \* history: why this connection may go wrong
outVars == <<oresp, opc, oplan, ovec, ocur, ototal, osend, oopen, owire, ocause>>

-----------------------------------------------------------------------------
(* http_send_file's range                                                  *)

ToInt(n) == LET m == n % IntMod IN IF m >= IntMod \div 2 THEN m - IntMod ELSE m
atoi(n) == IF n = -1 THEN 0 ELSE ToInt(n)    \* no digits: 0

Least(a, b) == IF a < b THEN a ELSE b
Most(a, b) == IF a > b THEN a ELSE b

\* The part of a file one Range header asks for; `last' is exclusive.  The
\* number behind the dash is read first; "bytes=-5" is the range from 0 to 5.
ByteRange(size, h) ==
    LET last == IF h.last = -1 THEN size ELSE Least(size, Most(0, atoi(h.last)) + 1)
        off == atoi(h.first)
    IN  IF off >= size THEN [code |-> "416", off |-> off, last |-> last]
        ELSE [code |-> "206", off |-> off, last |-> IF off > last THEN off + 1 ELSE last]

Whole == [code |-> "200", off |-> 0, last |-> FileSize]

-----------------------------------------------------------------------------
(* The vector                                                              *)

Total(vec) == FoldLeft(LAMBDA n, e : n + e.len, 0, vec)

\* http_append_to_output_buf, once per length: consecutive bytes.
Appended(lens) ==
    FoldLeft(LAMBDA vec, n : Append(vec, [base |-> Total(vec) + 1, len |-> n]), <<>>, lens)

Bytes(vec, n) ==                      \* the first n bytes of a vector
    SubSeq(FoldLeft(LAMBDA s, e : s \o [k \in 1..e.len |-> e.base + k - 1], <<>>, vec), 1, n)

\* The loop after writev: the element in which the last byte taken lies
\* becomes the first, shortened by what was taken of it.
Reached(vec, from, n, res) ==
    CHOOSE t \in from..(from + n - 1) :
        /\ Total(SubSeq(vec, from, t)) >= res
        /\ \A u \in from..(t - 1) : Total(SubSeq(vec, from, u)) < res
SkipWhole(vec, from, n, res) ==       \* mutant: the element is not shortened
    [vec |-> vec, cur |-> [at |-> Reached(vec, from, n, res), len |-> n - (Reached(vec, from, n, res) - from)]]
Skip(vec, from, n, res) ==
    LET t == Reached(vec, from, n, res)
        d == vec[t].len - (Total(SubSeq(vec, from, t)) - res)
    IN  [vec |-> [vec EXCEPT ![t] = [base |-> @.base + d, len |-> @.len - d]],
         cur |-> [at |-> t, len |-> n - (t - from)]]

FileBytes(h, off, n) == [k \in 1..n |-> h + off + k]

\* What the client must receive: the vector, then the announced part.
Expected(plan) ==
    [k \in 1..plan.vec |-> k] \o
    (IF plan.body THEN FileBytes(plan.vec, plan.off, plan.last - plan.off) ELSE <<>>)

-----------------------------------------------------------------------------
OutputInit ==
    /\ oresp = 0 /\ opc = "idle" /\ oplan = [vec |-> 0, body |-> FALSE, off |-> 0, last |-> 0]
    /\ ovec = <<>> /\ ocur = [at |-> 1, len |-> 0] /\ ototal = 0
    /\ osend = [fd |-> 0, off |-> 0, last |-> 0] /\ oopen = 0 /\ owire = <<>> /\ ocause = {}

NoFile == [fd |-> 0, off |-> 0, last |-> 0]

\* end_request and http_cleanup: a kept-alive connection waits for the next
\* request, any other is closed.  An open sendfile_fd is forgotten.
Ended(keep) == opc' = (IF keep THEN "idle" ELSE "closed") /\ ototal' = 0 /\ osend' = [osend EXCEPT !.fd = 0]

\* http_send: res bytes taken, or none because the socket would block.  The
\* continuation pointer is set only when something was taken.
http_send(vec, res) ==
    IF res = Total(vec)
    THEN owire' = Bytes(vec, res) /\ ovec' = vec /\ ototal' = 0 /\ UNCHANGED <<ocur, ocause>>
    ELSE LET k == IF res > 0 THEN Skip(vec, 1, Len(vec), res) ELSE [vec |-> vec, cur |-> ocur]
         IN  /\ owire' = Bytes(vec, res) /\ ovec' = k.vec /\ ocur' = k.cur
             /\ ototal' = Total(vec) - res
             /\ ocause' = IF res > 0 THEN ocause ELSE ocause \cup {"writev"}

\* A page from the cache, from a handler or of http_error and http_redirect,
\* or the headers alone (304; the file is closed at once).
OutPage ==
    /\ opc = "idle" /\ oresp < MaxResponses /\ oresp' = oresp + 1
    /\ \E lens \in Vectors, keep \in BOOLEAN :
          LET vec == Appended(lens)
          IN  /\ oplan' = [vec |-> Total(vec), body |-> FALSE, off |-> 0, last |-> 0]
              /\ \E res \in 0..Total(vec) :
                    /\ http_send(vec, res)
                    /\ opc' = IF res < Total(vec) THEN "busy" ELSE IF keep THEN "idle" ELSE "closed"
    /\ UNCHANGED <<osend, oopen>>

\* http_send_file for a regular file: headers, then as much of the file as
\* the socket takes.  sendfile's -1 for a socket that would block is compared
\* as an unsigned number and passes for "everything sent".
FileAnswers == {Whole} \cup {ByteRange(FileSize, h) : h \in RangeHeaders}

SentInFull(taken, length) == taken = -1 \/ taken >= length    \* -1: EAGAIN

CloseFile(n) == n - 1

OutFile ==
    /\ opc = "idle" /\ oresp < MaxResponses /\ oresp' = oresp + 1
    /\ \E lens \in Vectors, f \in {a \in FileAnswers : a.code # "416"}, keep \in BOOLEAN :
          LET vec == Appended(lens)
              length == f.last - f.off
          IN  /\ oplan' = [vec |-> Total(vec), body |-> TRUE, off |-> f.off, last |-> f.last]
              /\ \/ \E res \in 0..(Total(vec) - 1) :
                       /\ http_send(vec, res) /\ opc' = "busy" /\ oopen' = oopen + 1
                       /\ osend' = [fd |-> 1, off |-> f.off, last |-> f.last]
                 \/ \E taken \in IF f.off < 0 THEN {} ELSE -1..length :
                       LET n == IF taken = -1 THEN 0 ELSE taken
                       IN  /\ owire' = Bytes(vec, Total(vec)) \o FileBytes(Total(vec), f.off, n)
                           /\ ovec' = vec /\ ototal' = 0 /\ UNCHANGED ocur
                           /\ IF SentInFull(taken, length)
                              THEN /\ opc' = (IF keep THEN "idle" ELSE "closed")
                                   /\ oopen' = CloseFile(oopen + 1) /\ osend' = NoFile
                              ELSE /\ opc' = "busy" /\ oopen' = oopen + 1
                                   /\ osend' = [fd |-> 1, off |-> f.off + n, last |-> f.last]
                           /\ ocause' = IF taken = -1 THEN ocause \cup {"sendfile"} ELSE ocause
                 \/ \* writev or sendfile fails (a negative offset is refused, too):
                    \* the request ends, fd is not closed
                    /\ opc' = "closed" /\ oopen' = oopen + 1 /\ osend' = NoFile
                    /\ owire' = <<>> /\ ovec' = vec /\ ototal' = 0
                    /\ ocause' = ocause \cup {"failed"} /\ UNCHANGED ocur

\* events_out_data: EPOLLOUT for the socket.
OutRest ==
    /\ opc = "busy" /\ ototal > 0 /\ "writev" \notin ocause
    /\ \/ \E res \in 1..ototal :
             /\ owire' = owire \o Bytes(SubSeq(ovec, ocur.at, ocur.at + ocur.len - 1), res)
             /\ ototal' = ototal - res
             /\ LET k == Skip(ovec, ocur.at, ocur.len, res) IN ovec' = k.vec /\ ocur' = k.cur
             /\ UNCHANGED <<opc, osend, ocause>>
       \/ \* writev fails, or would block: http_cleanup
          Ended(FALSE) /\ ocause' = ocause \cup {"failed"} /\ UNCHANGED <<ovec, ocur, owire>>
    /\ UNCHANGED <<oresp, oplan, oopen>>

\* The same after a first writev that would block: the continuation pointer is
\* uninitialized or that of an earlier response, and what it points at, if it
\* is an array at all, is sent (a byte 0 stands for it) or refused.
OutRestStale ==
    /\ opc = "busy" /\ ototal > 0 /\ "writev" \in ocause
    /\ \/ \E res \in 0..ototal : ototal' = ototal - res /\ owire' = owire \o [k \in 1..res |-> 0]
          /\ UNCHANGED <<opc, osend, ocause>>
       \/ Ended(FALSE) /\ ocause' = ocause \cup {"failed"} /\ UNCHANGED owire
    /\ UNCHANGED <<oresp, oplan, ovec, ocur, oopen>>

OutRestFile ==
    /\ opc = "busy" /\ ototal = 0 /\ osend.fd # 0
    /\ \/ \E n \in IF osend.off < 0 THEN {} ELSE 0..(osend.last - osend.off) :
             /\ owire' = owire \o FileBytes(oplan.vec, osend.off, n)
             /\ IF osend.off + n < osend.last
                THEN osend' = [osend EXCEPT !.off = @ + n] /\ UNCHANGED <<opc, oopen, ototal>>
                ELSE \E keep \in BOOLEAN : Ended(keep) /\ oopen' = CloseFile(oopen)
             /\ UNCHANGED ocause
       \/ Ended(FALSE) /\ oopen' = CloseFile(oopen) /\ ocause' = ocause \cup {"failed"} /\ UNCHANGED owire
    /\ UNCHANGED <<oresp, oplan, ovec, ocur>>

OutDone ==
    /\ opc = "busy" /\ ototal = 0 /\ osend.fd = 0
    /\ \E keep \in BOOLEAN : Ended(keep)
    /\ UNCHANGED <<oresp, oplan, ovec, ocur, oopen, owire, ocause>>

\* The client hangs up: http_cleanup by event_find_request's caller.
OutHangUp ==
    /\ opc = "busy"
    /\ Ended(FALSE) /\ ocause' = ocause \cup {"hangup"}
    /\ UNCHANGED <<oresp, oplan, ovec, ocur, oopen, owire>>

OutputNext == OutPage \/ OutFile \/ OutRest \/ OutRestStale \/ OutRestFile \/ OutDone \/ OutHangUp

OutputSpec == OutputInit /\ [][OutputNext]_outVars

-----------------------------------------------------------------------------
(* Properties.                                                             *)

\* However the socket cuts the writes, the client receives the response's
\* bytes in order, none twice and none left out, unless the very first writev
\* of a response would block (the continuation pointer is then that of an
\* earlier response).
WireInOrder == "writev" \notin ocause => IsPrefix(owire, Expected(oplan))

\* A response that ends without an error has been sent to the last byte the
\* headers announce, unless the first writev or the first sendfile of a
\* response found the socket full.
WireComplete == opc = "idle" /\ ocause = {} => owire = Expected(oplan)

\* Between responses no file is open, and a closed connection leaves one open
\* only if the client hung up or a write failed while it was being sent.
FilesClosed == opc # "busy" /\ ocause \cap {"hangup", "failed"} = {} => oopen = 0

\* For numbers that fit an int, a satisfiable range is inside the file, starts
\* where the header says and ends no later than it says.
RangeInside ==
    \A h \in RangeHeaders :
        LET r == ByteRange(FileSize, h)
        IN  h.first < IntMod \div 2 /\ h.last < IntMod \div 2 =>
              IF r.code = "416" THEN h.first >= FileSize
              ELSE /\ 0 <= r.off /\ r.off <= r.last /\ r.last <= FileSize
                   /\ h.first # -1 => r.off = h.first
                   /\ h.first # -1 /\ h.first <= h.last => r.last = Least(FileSize, h.last + 1)

\* A response goes out exactly, however the socket cuts it: in order, complete
\* before the connection goes on, inside the file, with every file closed once.
OutputExact == WireInOrder /\ WireComplete /\ FilesClosed /\ RangeInside

=============================================================================
