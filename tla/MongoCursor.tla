---------------------------- MODULE MongoCursor -----------------------------
(***************************************************************************)
(* Queries and cursors of the MongoDB driver (mongo.c): a query is sent, its *)
(* reply holds a first batch of documents and the id of a cursor at the      *)
(* database while there are more, which are asked for batch by batch.  The   *)
(* cursor, the connection and the database are one record q:                 *)
(*   life    none, live, or gone: freed by a failing get_more while its      *)
(*           owner still has the pointer                                     *)
(*   heap, sent, seen, limit, err    flags and fields of mongo_cursor        *)
(*   valid   the query is finished and UTF-8                                 *)
(*   reply   the reply the cursor points at: num and id as its header says,  *)
(*           docs as its body holds; freed when the memory was given back    *)
(*   at      0 while current.data is NULL, else the place of current in the  *)
(*           reply (behind docs when it points past the message)             *)
(*   up      the connection works                                            *)
(*   left, open    the database: documents not sent yet, its cursor          *)
(* and history: got, the documents delivered; seenBad, what went wrong;      *)
(* cause, what happened before that.  The database is external.              *)
(***************************************************************************)
EXTENDS Integers, Sequences, FiniteSets, TLC

CONSTANTS Answer,        \* the documents a query finds, a sequence
          QueryLimits,   \* limits that queries are made with
          Tailable,      \* the database keeps a cursor that has no data yet
          MaxSeen        \* bound on documents read again after a failed query

VARIABLE query

NoId == 0
OpenId == 1       \* the id of the database's cursor
StrayId == 2      \* one it never gave out

NoReply == [num |-> 0, docs |-> <<>>, id |-> NoId, freed |-> FALSE, none |-> TRUE]
Reply(n, d, i) == [num |-> n, docs |-> d, id |-> i, freed |-> FALSE, none |-> FALSE]

Noted(q, what) == [q EXCEPT !.cause = @ \cup {what}]
Spoilt(q, what) == [q EXCEPT !.seenBad = @ \cup {what}]
Result(ok, q) == [ok |-> ok, q |-> q]

(***************************************************************************)
(* The database and the wire.                                                *)
(***************************************************************************)

\* The batches the database may answer with when it is asked for n documents
\* (0: as many as it likes): it may keep its cursor open although it has just
\* sent the last one, and closes it at once when one was asked for.
Batches(q, n) ==
    {b \in [k : 0..Len(q.left), open : BOOLEAN] :
        /\ n > 0 => b.k <= n
        /\ b.k = 0 => q.left = <<>> \/ Tailable
        /\ b.open => n # 1
        /\ ~b.open => b.k = Len(q.left) \/ n = 1}

Answered(q, n) ==
    {[q EXCEPT !.left = SubSeq(@, b.k + 1, Len(@)), !.open = b.open,
               !.reply = Reply(b.k, SubSeq(q.left, 1, b.k), IF b.open THEN OpenId ELSE NoId)] : b \in Batches(q, n)}

\* mongo_read_response on a dead connection: the results of reading the two
\* headers are ignored, so that len and num are whatever the stack held.  Most
\* values end in an error; a length without a body passes for a reply.
ReadDead(q) ==
    {Result(FALSE, q)} \cup {Result(TRUE, Noted([q EXCEPT !.reply = Reply(n, <<>>, i)], "ghost"))
                                : n \in 0..1, i \in {NoId, StrayId}}

\* Send a message and read what comes back; the connection may break between.
mongo_message_send(q, replies) ==
    IF ~q.up THEN {Result(FALSE, Noted(q, "down"))}
    ELSE {Result(TRUE, r) : r \in replies} \cup ReadDead(Noted([q EXCEPT !.up = FALSE], "down"))
            \* ... or after the database has answered
            \cup UNION {ReadDead(Noted([r EXCEPT !.up = FALSE, !.reply = q.reply], "down")) : r \in replies}

(***************************************************************************)
(* The cursor.                                                               *)
(***************************************************************************)

mongo_cursor_init(q, heap, limit, valid) ==
    [q EXCEPT !.life = "live", !.heap = heap, !.sent = FALSE, !.seen = 0, !.limit = limit, !.valid = valid,
              !.reply = NoReply, !.at = 0, !.err = "exhausted", !.got = <<>>, !.left = Answer, !.open = FALSE,
              !.cause = IF q.up THEN {} ELSE {"down"}, !.seenBad = {}]

\* The database refuses a query with a document that holds $err.
QueryRefused(q) == [q EXCEPT !.reply = Reply(1, <<"$err">>, NoId)]

mongo_cursor_op_query(q0) ==
    LET q == IF q0.reply.none THEN [q0 EXCEPT !.err = "exhausted"]
             ELSE Noted(Spoilt([q0 EXCEPT !.err = "exhausted"], "reply lost"), "asked again")
        taken(r) == IF ~r.ok THEN Result(FALSE, r.q)
                    ELSE IF r.q.reply.docs = <<"$err">>
                    THEN Result(FALSE, [r.q EXCEPT !.err = "query fail"])
                    ELSE Result(TRUE, [r.q EXCEPT !.seen = @ + r.q.reply.num, !.sent = TRUE])
    IN IF ~q.valid THEN {Result(FALSE, [q0 EXCEPT !.err = "bson error"])}
       ELSE {taken(r) : r \in mongo_message_send(q, Answered([q EXCEPT !.left = Answer], q.limit) \cup {QueryRefused(q)})}

\* The reply goes, and the database's cursor with it; memory that was freed
\* before is read and freed again.
mongo_cursor_destroy(q) ==
    LET kill == ~q.reply.none /\ q.reply.id # NoId
        used == IF q.reply.freed THEN Spoilt(q, "freed twice") ELSE q
    IN [used EXCEPT !.open = IF kill /\ q.up /\ q.reply.id = OpenId THEN FALSE ELSE @,
                    !.reply = NoReply]

\* mutant: the limit of the query is sent again.
WantedWhole(q) == q.limit

\* The documents still wanted, 0 for no limit.
Wanted(q) == IF q.limit > 0 THEN q.limit - q.seen ELSE 0

\* The database does not know a cursor it has closed.
MoreAnswered(q) ==
    IF q.open /\ q.reply.id = OpenId THEN Answered(q, Wanted(q))
    ELSE {[q EXCEPT !.reply = Reply(0, <<>>, NoId)]}

mongo_cursor_get_more(q) ==
    LET freed == [q EXCEPT !.reply.freed = TRUE]
        failed(r) == [mongo_cursor_destroy(Noted(r, "more failed")) EXCEPT !.life = "gone"]
        done(r) == IF ~r.ok THEN Result(FALSE, failed(r.q))
                   ELSE Result(TRUE, [r.q EXCEPT !.at = 0, !.seen = @ + r.q.reply.num])
    IN IF q.limit > 0 /\ q.seen >= q.limit THEN {Result(FALSE, [q EXCEPT !.err = "exhausted"])}
       ELSE IF q.reply.none THEN {Result(FALSE, [q EXCEPT !.err = "invalid"])}
       ELSE IF q.reply.id = NoId THEN {Result(FALSE, [q EXCEPT !.err = "exhausted"])}
       ELSE {done(r) : r \in mongo_message_send(freed, MoreAnswered(freed))}

\* current is the document at place k of the reply, if there is one.
Delivered(q, k) ==
    LET r == [q EXCEPT !.at = k]
    IN Result(TRUE, IF k <= Len(q.reply.docs) THEN [r EXCEPT !.got = Append(@, q.reply.docs[k])]
                    ELSE Spoilt(r, "past the message"))

\* Behind the last document of a batch: a reply with no documents and no cursor
\* is taken for one that has some.
AfterMore(q) ==
    IF q.reply.num = 0 /\ q.reply.id # NoId THEN Result(FALSE, [q EXCEPT !.err = "pending"])
    ELSE Delivered(IF q.reply.num = 0 THEN Noted(q, "empty last batch") ELSE q, 1)

NextInReply(q) ==
    IF q.at = 0 THEN {Delivered(q, 1)}
    ELSE IF q.at >= Len(q.reply.docs)
    THEN {IF r.ok THEN AfterMore(r.q) ELSE r : r \in mongo_cursor_get_more(q)}
    ELSE {Delivered(q, q.at + 1)}

NextAnswered(q) ==
    LET more == mongo_cursor_get_more(q)
    IN IF q.reply.none THEN {Result(FALSE, q)}
       ELSE IF q.reply.num > 0 THEN NextInReply(q)
       ELSE IF q.reply.id = NoId THEN {Result(FALSE, q)}
       ELSE UNION {IF ~r.ok \/ r.q.reply.num = 0 THEN {Result(FALSE, r.q)} ELSE NextInReply(r.q) : r \in more}

mongo_cursor_next(q) ==
    IF q.sent THEN NextAnswered(q)
    ELSE UNION {IF r.ok THEN NextAnswered(r.q) ELSE {r} : r \in mongo_cursor_op_query(q)}

(***************************************************************************)
(* The calls of the program.                                                 *)
(***************************************************************************)

CursorInit ==
    query = [life |-> "none", heap |-> FALSE, sent |-> FALSE, seen |-> 0, limit |-> 0, valid |-> TRUE,
             reply |-> NoReply, at |-> 0, err |-> "exhausted", up |-> TRUE, left |-> <<>>, open |-> FALSE,
             got |-> <<>>, seenBad |-> {}, cause |-> {}]

\* The owner destroys its cursor, also one that a failing call freed before.
Closed(q) ==
    LET c == IF q.life = "gone" THEN Spoilt(q, "freed twice") ELSE q
    IN [mongo_cursor_destroy(c) EXCEPT !.life = "none", !.at = 0]

mongo_find ==
    /\ query.life = "none"
    /\ \E limit \in QueryLimits, valid \in BOOLEAN :
        \E r \in mongo_cursor_op_query(mongo_cursor_init(query, TRUE, limit, valid)) :
            query' = IF r.ok THEN r.q ELSE Closed(r.q)

\* A cursor on the stack, whose query is sent by the first mongo_cursor_next.
OpenCursor ==
    /\ query.life = "none"
    /\ \E limit \in QueryLimits, valid \in BOOLEAN : query' = mongo_cursor_init(query, FALSE, limit, valid)

Advance ==
    /\ query.life = "live" /\ query.seen < MaxSeen
    /\ \E r \in mongo_cursor_next(query) : query' = r.q

CloseCursor == query.life # "none" /\ query' = Closed(query)

mongo_find_one ==
    /\ query.life = "none"
    /\ \E valid \in BOOLEAN :
        \E r \in mongo_cursor_next(mongo_cursor_init(query, FALSE, 1, valid)) : query' = Closed(r.q)

\* external: the connection breaks or is made again, the database drops an
\* idle cursor.
LinkDown == query.up /\ query' = Noted([query EXCEPT !.up = FALSE], "down")
LinkUp == ~query.up /\ query' = [query EXCEPT !.up = TRUE]
CursorTimeout == query.open /\ query' = [query EXCEPT !.open = FALSE]

CursorNext ==
    mongo_find \/ OpenCursor \/ Advance \/ CloseCursor \/ mongo_find_one
        \/ LinkDown \/ LinkUp \/ CursorTimeout

CursorSpec == CursorInit /\ [][CursorNext]_query

(***************************************************************************)
(* Properties.                                                               *)
(***************************************************************************)

\* A cursor delivers the documents of its query from the first on, each once
\* and in order over all batches, and never more than its limit.  The one
\* thing delivered that the database did not send is what lies behind an empty
\* last batch, or in a reply made up by a broken connection.
DeliversInOrder ==
    /\ query.got = SubSeq(Answer, 1, Len(query.got))
    /\ query.limit > 0 => Len(query.got) <= query.limit
    /\ "past the message" \in query.seenBad => query.cause \cap {"ghost", "empty last batch"} # {}

\* A reply is freed once and not read afterwards, unless asking for more
\* failed; no reply is dropped unfreed unless a failed query was sent again.
RepliesFreed ==
    /\ "freed twice" \in query.seenBad => "more failed" \in query.cause
    /\ "reply lost" \in query.seenBad => "asked again" \in query.cause

\* While the connection holds, the database keeps no cursor that the program
\* cannot close: it is the one the live cursor's reply names.
CursorsClosed ==
    query.open /\ "down" \notin query.cause => query.life = "live" /\ query.reply.id = OpenId /\ ~query.reply.freed

CursorSound == DeliversInOrder /\ RepliesFreed /\ CursorsClosed

=============================================================================
