---------------------------- MODULE MongoWrites -----------------------------
(***************************************************************************)
(* Writes and commands of the MongoDB driver (mongo.c).  A write is sent and *)
(* not answered; whether the database took it is asked for with a command.   *)
(* A state w:                                                                *)
(*   up      the connection works                                            *)
(*   stored, users     the database: documents it took, and passwords        *)
(*   lasterr, preverr  whether it refused the last write, or any, of this    *)
(*           connection; nonce, the one it gave out and awaits               *)
(*   err, lasterrcode  what the connection object says                       *)
(*   res, val   what the last call returned                                  *)
(* History: call, which call that was, before, what was stored then, broke,  *)
(* whether the connection broke during it, and whim, whether the database    *)
(* failed a command it could have done.                                      *)
(***************************************************************************)
EXTENDS Integers, Sequences, FiniteSets

CONSTANTS WriteDocs,      \* documents, each with the flags of its bson
          Users, Passwords

VARIABLE wr

Doc(n, finished, utf8, dot, dollar) ==
    [name |-> n, finished |-> finished, utf8 |-> utf8, dot |-> dot, dollar |-> dollar]
IndexDoc == Doc("index", TRUE, TRUE, FALSE, FALSE)

WithRes(w, r) == [w EXCEPT !.res = r]
WithErr(w, e) == [w EXCEPT !.err = e, !.res = "error"]
NoErr(w) == [w EXCEPT !.err = "none"]

\* mongo_bson_valid: the error of the first test that fails, or none.
mongo_bson_valid(d, write) ==
    IF ~d.finished THEN "not finished"
    ELSE IF ~d.utf8 THEN "invalid"
    ELSE IF write /\ (d.dot \/ d.dollar) THEN "invalid"
    ELSE "none"

(***************************************************************************)
(* The wire.  external: the database takes a document or refuses it, and a   *)
(* message that was sent may still be lost with the connection.              *)
(***************************************************************************)

LinkBroken(w) == [w EXCEPT !.up = FALSE, !.broke = TRUE]

\* done is the state if the database takes the write.
WriteSent(w, done) ==
    IF ~w.up THEN {WithErr([w EXCEPT !.broke = TRUE], "io")}
    ELSE {WithRes([done EXCEPT !.lasterr = FALSE], "ok"),
          WithRes([w EXCEPT !.lasterr = TRUE, !.preverr = TRUE], "ok"),
          WithRes(LinkBroken(w), "ok"),
          WithErr(LinkBroken(w), "io")}

\* mongo_run_command through mongo_find_one, which forgets the error before.
\* The database does the command if it accepts it, which gives done; the answer
\* may be lost, and a command may fail for a reason of its own.
mongo_run_command(w0, accepts, done) ==
    LET w == NoErr(w0)
    IN IF ~w.up THEN {WithErr([w EXCEPT !.broke = TRUE], "io")}
       ELSE {WithErr(LinkBroken(w), "io"), WithErr([w EXCEPT !.whim = @ \/ accepts], "command failed")}
            \cup IF accepts THEN {WithRes(NoErr(done), "ok"), WithErr(LinkBroken(NoErr(done)), "io")} ELSE {}

\* mongo_simple_int_command, mongo_simple_str_command.
SimpleCommand(w, done) == mongo_run_command(w, TRUE, done)

(***************************************************************************)
(* The calls: the possible states after them.                                *)
(***************************************************************************)

mongo_insert(w, d) ==
    LET v == mongo_bson_valid(d, TRUE)
    IN IF v # "none" THEN {WithErr(w, v)}
       ELSE WriteSent(NoErr(w), [NoErr(w) EXCEPT !.stored = @ \cup {d.name}])

\* Every document is looked at before the message is built.
mongo_insert_batch(w, docs) ==
    LET bad == {i \in DOMAIN docs : mongo_bson_valid(docs[i], TRUE) # "none"}
        first == CHOOSE i \in bad : \A j \in bad : i <= j
    IN IF bad # {} THEN {WithErr(w, mongo_bson_valid(docs[first], TRUE))}
       ELSE WriteSent(NoErr(w), [NoErr(w) EXCEPT !.stored = @ \cup {docs[i].name : i \in DOMAIN docs}])

\* Only op is looked at, not the document that chooses what to update.
mongo_update(w, op, done) ==
    LET v == mongo_bson_valid(op, FALSE)
    IN IF v # "none" THEN {WithErr(w, v)} ELSE WriteSent(NoErr(w), NoErr(done))

mongo_remove(w, d) ==
    LET v == mongo_bson_valid(d, FALSE)
    IN IF v # "none" THEN {WithErr(w, v)}
       ELSE WriteSent(NoErr(w), [NoErr(w) EXCEPT !.stored = @ \ {d.name}])

\* Only an answer that holds an error makes an error: a command that fails
\* leaves haserror at 0.  had is the error the database speaks of.
mongo_cmd_get_error_helper(w, had) ==
    LET asked == [w EXCEPT !.lasterrcode = 0]
        told(x) == IF x.res = "ok" /\ had
                   THEN WithRes([x EXCEPT !.lasterrcode = 1], "error") ELSE WithRes(x, "ok")
    IN {told(x) : x \in SimpleCommand(asked, asked)}

\* The result of the insertion is not looked at.
mongo_create_index(w) ==
    UNION {mongo_cmd_get_error_helper(x, x.lasterr) : x \in mongo_insert(w, IndexDoc)}

\* The documents counted: all when the query is empty.
mongo_count(w, query) ==
    LET met(x) == IF query = {} THEN x.stored ELSE x.stored \cap query
    IN {[x EXCEPT !.val = IF x.res = "ok" THEN Cardinality(met(x)) ELSE -1] :
            x \in mongo_run_command(w, TRUE, w)}

\* mongo_cmd_drop_db, mongo_cmd_drop_collection.
Drop(w) == SimpleCommand(w, [w EXCEPT !.stored = {}])

mongo_cmd_reset_error(w) == SimpleCommand(w, [w EXCEPT !.lasterr = FALSE, !.preverr = FALSE])

\* A digest is the text it is made from: two are equal only if the texts are.
mongo_pass_digest(user, pass) == <<"md5", user, ":mongo:", pass>>

mongo_cmd_add_user(w, user, pass) ==
    LET set == [w EXCEPT !.users = {r \in @ : r.user # user} \cup {[user |-> user, pwd |-> mongo_pass_digest(user, pass)]}]
    IN mongo_update(w, IndexDoc, set)

\* A nonce is asked for and used once.  external: what the database expects.
mongo_cmd_authenticate(w, user, pass) ==
    LET key(x) == <<"md5", x.nonce, user, mongo_pass_digest(user, pass)>>
        expected(x) == {<<"md5", x.nonce, user, r.pwd>> : r \in {r \in x.users : r.user = user}}
    IN UNION {IF x.res # "ok" THEN {x}
              ELSE mongo_run_command(x, x.nonce # 0 /\ key(x) \in expected(x),
                                     [x EXCEPT !.nonce = 0]) :
                x \in SimpleCommand(w, [w EXCEPT !.nonce = 1])}

(***************************************************************************)
(* The program writes and asks.                                              *)
(***************************************************************************)

WritesInit ==
    wr = [up |-> TRUE, stored |-> {}, lasterr |-> FALSE, preverr |-> FALSE, users |-> {}, nonce |-> 0,
          err |-> "none", lasterrcode |-> 0, val |-> 0, res |-> "ok",
          call |-> <<>>, before |-> {}, broke |-> FALSE, whim |-> FALSE]

\* The history of the call that is being made.
Calling(what) == [wr EXCEPT !.call = what, !.before = wr.stored, !.broke = FALSE, !.whim = FALSE, !.val = 0]

WriteOne(d) ==
    \/ \E x \in mongo_insert(Calling(<<"insert", d>>), d) : wr' = x
    \/ LET w == Calling(<<"update", d>>)
       IN \E x \in mongo_update(w, d, [w EXCEPT !.stored = @ \cup {d.name}]) : wr' = x
    \/ \E x \in mongo_remove(Calling(<<"remove", d>>), d) : wr' = x

WriteBatch(c, d) == \E x \in mongo_insert_batch(Calling(<<"batch", c, d>>), <<c, d>>) : wr' = x

CreateIndex == \E x \in mongo_create_index(Calling(<<"index">>)) : wr' = x

\* getlasterror after a write: what it says is about that write.
AskLastError ==
    /\ Len(wr.call) = 2 /\ wr.call[1] \in {"insert", "update", "remove"} /\ wr.res = "ok"
    /\ \E x \in mongo_cmd_get_error_helper([wr EXCEPT !.call = <<"asked", wr.call[1], wr.call[2]>>], wr.lasterr) : wr' = x

AskPrevError == \E x \in mongo_cmd_get_error_helper(Calling(<<"prev">>), wr.preverr) : wr' = x

Count == \E q \in {{}} \cup {{d.name} : d \in WriteDocs} : \E x \in mongo_count(Calling(<<"count", q>>), q) : wr' = x

DropAll == \E x \in Drop(Calling(<<"drop">>)) : wr' = x

ResetError == \E x \in mongo_cmd_reset_error(Calling(<<"reset">>)) : wr' = x

AddUser(u, p) == \E x \in mongo_cmd_add_user(Calling(<<"user", u, p>>), u, p) : wr' = x

Authenticate(u, p) == \E x \in mongo_cmd_authenticate(Calling(<<"auth", u, p>>), u, p) : wr' = x

\* external: the connection is made again; the database forgets its errors
\* and its nonce.
WritesLinkUp ==
    ~wr.up /\ wr' = [wr EXCEPT !.up = TRUE, !.lasterr = FALSE, !.preverr = FALSE, !.nonce = 0, !.call = <<>>]

WritesNext ==
    \/ \E d \in WriteDocs : WriteOne(d)
    \/ \E c, d \in WriteDocs : WriteBatch(c, d)
    \/ CreateIndex \/ AskLastError \/ AskPrevError \/ Count \/ DropAll \/ ResetError
    \/ \E u \in Users, p \in Passwords : AddUser(u, p) \/ Authenticate(u, p)
    \/ WritesLinkUp

WritesSpec == WritesInit /\ [][WritesNext]_wr

(***************************************************************************)
(* Properties.                                                               *)
(***************************************************************************)

\* A call that meets a document that is not valid for it changes nothing at the
\* database, the valid documents of the same batch included, and says so.
OnlyValidSent ==
    LET met(op, from) == wr.call # <<>> /\ wr.call[1] = op
                           /\ \E i \in 2..Len(wr.call) : mongo_bson_valid(wr.call[i], from) # "none"
    IN met("insert", TRUE) \/ met("batch", TRUE) \/ met("update", FALSE) \/ met("remove", FALSE)
        => wr.stored = wr.before /\ wr.res = "error" /\ wr.err \in {"invalid", "not finished"}

\* MONGO_OK from mongo_create_index, from a dropping command, or from
\* getlasterror after a write, means that the database did what was asked, and
\* a count is exact, unless the connection broke or the command itself failed.
\* Those two also give MONGO_OK where an error was asked for, and only
\* conn->err tells.
WritesKnown ==
    wr.res = "ok" /\ wr.err = "none" /\ ~wr.broke /\ wr.call # <<>> =>
        LET is(what) == wr.call[1] = what
        IN /\ is("index") => "index" \in wr.stored
           /\ is("drop") => wr.stored = {}
           /\ is("prev") => ~wr.preverr
           /\ is("count") => wr.val = Cardinality(IF wr.call[2] = {} THEN wr.stored ELSE wr.stored \cap wr.call[2])
           /\ is("asked") /\ wr.call[2] # "remove" => wr.call[3].name \in wr.stored
           /\ is("asked") /\ wr.call[2] = "remove" => wr.call[3].name \notin wr.stored

\* A failed command is told by conn->err, and by -1 where a count was asked
\* for; the error of an earlier call never stays.
FailuresTold ==
    LET commands == {"count", "drop", "reset", "prev"}
    IN wr.call # <<>> /\ wr.call[1] \in commands =>
        /\ wr.broke \/ wr.whim <=> wr.err # "none"
        /\ wr.call[1] = "count" => (wr.val = -1 <=> wr.err # "none")

\* mongo_cmd_authenticate succeeds with the password the user was added with
\* and with no other, unless the connection broke or the database failed.
AuthExact ==
    LET known == [user |-> wr.call[2], pwd |-> mongo_pass_digest(wr.call[2], wr.call[3])] \in wr.users
    IN wr.call # <<>> /\ wr.call[1] = "auth" =>
        /\ wr.res = "ok" => known
        /\ known /\ ~wr.broke /\ ~wr.whim => wr.res = "ok"

WritesSound == OnlyValidSent /\ WritesKnown /\ FailuresTold /\ AuthExact

=============================================================================
