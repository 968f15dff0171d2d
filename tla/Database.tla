------------------------------ MODULE Database ------------------------------
(***************************************************************************)
(* The server's connection to MongoDB: the list of servers in the            *)
(* configuration (database.c) and the driver's search for the primary of a   *)
(* replica set (mongo.c, net.c).  The connection object is a record:          *)
(*   sock, connected, err, primary, pconn (primary_connected), seeds, hosts   *)
(* and the call it is in: pc, node (what is left of the list being tried),    *)
(* res.  History: open, the sockets that are open and where they lead; asked, *)
(* the hosts this call has tried; master, those that said they are primary.   *)
(* Between two steps of a call the nodes may fail, return, or elect another   *)
(* primary.                                                                   *)
(***************************************************************************)
EXTENDS Integers, Sequences, FiniteSets, SequencesExt

CONSTANTS DbNodes,        \* nodes of the replica set
          DbSets,         \* set names a node may answer with, "" for none
          DbSeeds,        \* lists of seeds
          OwnSet,         \* the name in the configuration
          DbLists         \* lists of servers, as sequences of [host, port]

VARIABLES dbconn, dbnodes, dbcase

dbVars == <<dbconn, dbnodes, dbcase>>

(***************************************************************************)
(* parse_server: the text of the list is a sequence of tokens; it is cut up  *)
(* in place, Nul being written over separators.                              *)
(***************************************************************************)

DefaultPort == 27017
Nul == [t |-> "nul"]
Space == [t |-> "space"]
Comma == [t |-> "comma"]
Colon == [t |-> "colon"]

\* strchr from i: the first place of c before the end of the string, or 0.
StrChr(buf, i, c) ==
    LET at == {j \in i..Len(buf) : buf[j] = c /\ \A k \in i..j : buf[k] # Nul}
    IN IF at = {} THEN 0 ELSE CHOOSE j \in at : \A k \in at : j <= k

Atoi(buf, i) == IF buf[i].t = "number" THEN buf[i].v ELSE 0

PortOf(n) == IF n = 0 \/ n > 65535 THEN DefaultPort ELSE n

\* The server at i, the place of the next one (0: none), and what is left of the
\* text.  A NULL port compares as less than next: it is then read through.
parse_server(buf, i) ==
    LET s == CHOOSE j \in i..Len(buf) : buf[j] # Space /\ \A k \in i..(j - 1) : buf[k] = Space
        next == StrChr(buf, s, Comma)
        port == StrChr(buf, s, Colon)
        read == port < next \/ (port # 0 /\ next = 0)
        cut == [j \in 1..Len(buf) |-> IF j > 0 /\ j \in {next, port} THEN Nul ELSE buf[j]]
    IN [crash |-> read /\ port = 0,
        host |-> buf[s],
        port |-> PortOf(IF read /\ port # 0 THEN Atoi(buf, port + 1) ELSE 0),
        next |-> IF next = 0 THEN 0 ELSE next + 1,
        buf |-> cut]

\* The loop of db_init that makes seeds of the servers.
RECURSIVE SeedsFrom(_, _)
SeedsFrom(buf, i) ==
    LET r == parse_server(buf, i)
    IN IF r.crash THEN <<"crash">>
       ELSE IF r.next = 0 THEN <<>>
       ELSE <<[host |-> r.host, port |-> r.port]>> \o SeedsFrom(r.buf, r.next)

\* mongo_parse_host: the name before the last ':' of the text and the number
\* after it; a ':' at the very beginning does not count.
mongo_parse_host(text) ==
    LET marks == {i \in 2..Len(text) : text[i] = Colon}
        split == CHOOSE i \in marks : \A j \in marks : j <= i
    IN IF marks = {} THEN [host |-> Front(text), port |-> DefaultPort]
       ELSE [host |-> SubSeq(text, 1, split - 1), port |-> Atoi(text, split + 1)]

\* At the end of the list; hosts and seeds are both added with it.
mongo_replset_add_node(list, h) == Append(list, h)

(***************************************************************************)
(* Sockets.                                                                  *)
(***************************************************************************)

Fresh(c) == CHOOSE fd \in 1..(Cardinality(DOMAIN c.open) + 1) : fd \notin DOMAIN c.open
Shut(c, fd) == [c EXCEPT !.open = [f \in DOMAIN @ \ {fd} |-> @[f]]]

\* The outcomes of connecting to h; the socket before is forgotten.
mongo_socket_connect(c0, h) ==
    LET c == [c0 EXCEPT !.sock = 0, !.connected = FALSE]
        fd == Fresh(c)
        made == [c EXCEPT !.sock = fd, !.open = [f \in DOMAIN @ \cup {fd} |-> IF f = fd THEN h ELSE @[f]]]
    IN {[c EXCEPT !.err = "addr fail", !.res = "error"], [c EXCEPT !.err = "no socket", !.res = "error"],
        [Shut(made, fd) EXCEPT !.err = "conn fail", !.res = "error"]}
       \cup IF dbnodes[h].up THEN {[made EXCEPT !.connected = TRUE, !.res = "ok"]} ELSE {}

\* What the node at the other end says to ismaster: nothing if it is down, and
\* the connection may break if it is up.
IsMaster(h) == {[ok |-> FALSE]} \cup IF dbnodes[h].up THEN {[ok |-> TRUE, node |-> dbnodes[h]]} ELSE {}

\* mutant: the socket is only forgotten.
HungOpen(c) == [c EXCEPT !.sock = 0, !.connected = FALSE]

\* The socket is closed and forgotten.
Hung(c) == [Shut(c, c.sock) EXCEPT !.sock = 0, !.connected = FALSE]

mongo_replset_check_seed(c, answer) ==
    Hung(IF answer.ok THEN [c EXCEPT !.hosts = FoldLeft(mongo_replset_add_node, @, answer.node.hosts)] ELSE c)

\* check_host closes the socket of a node that is not primary, and
\* replset_connect closes it again.
mongo_replset_check_host(c, h, answer) ==
    LET no == Hung(Shut(c, c.sock))
    IN IF answer.ok /\ answer.node.set \notin {"", OwnSet}
       THEN [c EXCEPT !.err = "bad set name", !.res = "error", !.pc = "idle"]
       ELSE IF answer.ok /\ answer.node.master
       THEN [c EXCEPT !.pconn = TRUE, !.primary = h, !.res = "ok", !.pc = "idle", !.master = @ \cup {h}]
       ELSE [no EXCEPT !.node = Tail(@)]

mongo_check_is_master(c, h, answer) ==
    IF ~answer.ok THEN [c EXCEPT !.err = "io", !.res = "error"]
    ELSE IF answer.node.master THEN [c EXCEPT !.master = {h}]
    ELSE [c EXCEPT !.err = "not master", !.res = "error"]

(***************************************************************************)
(* Calls on the connection.                                                  *)
(***************************************************************************)

ConnFresh(replset, seeds) ==
    [replset |-> replset, pc |-> "idle", life |-> "fresh", sock |-> 0, connected |-> FALSE, err |-> "none", primary |-> "", pconn |-> FALSE,
     seeds |-> seeds, hosts |-> <<>>, node |-> <<>>, res |-> "none", open |-> <<>>, asked |-> {}, master |-> {}]

\* Nodes know their set; at most one is primary.
NodeStates ==
    {ns \in [DbNodes -> [up : BOOLEAN, master : BOOLEAN, set : DbSets, hosts : {SetToSeq(DbNodes), <<>>}]] :
        \A m, n \in DbNodes : ns[m].master /\ ns[n].master => m = n}

\* The text of a list, a space before all but the first server, and a reference
\* reading of it.
ServerText(s) == <<[t |-> "name", v |-> s.host]>>
                    \o (IF s.port = 0 THEN <<>> ELSE <<Colon, [t |-> "number", v |-> s.port]>>)
ListText(list) ==
    FoldLeft(LAMBDA acc, i : acc \o (IF i = 1 THEN <<>> ELSE <<Comma, Space>>) \o ServerText(list[i]),
             <<>>, [i \in 1..Len(list) |-> i]) \o <<Nul>>
Wanting(s) == [host |-> [t |-> "name", v |-> s.host], port |-> PortOf(s.port)]

\* A list to read, or a connection in use.
DbInit ==
    \/ /\ dbconn \in {ConnFresh(FALSE, <<>>)} \cup {ConnFresh(TRUE, s) : s \in DbSeeds}
       /\ dbnodes \in NodeStates
       /\ dbcase = <<>>
    \/ /\ dbconn = [ConnFresh(FALSE, <<>>) EXCEPT !.life = "destroyed"]
       /\ dbnodes = [n \in DbNodes |-> [up |-> FALSE, master |-> FALSE, set |-> "", hosts |-> <<>>]]
       /\ dbcase \in DbLists

\* mongo_replset_connect begins: the socket before is not closed.
Begun(c) ==
    [c EXCEPT !.sock = 0, !.connected = FALSE, !.node = c.seeds, !.pc = "seed", !.res = "none",
              !.asked = {}, !.master = {}, !.life = "used"]

mongo_replset_connect ==
    dbconn.replset /\ dbconn.life = "fresh" /\ dbconn' = Begun(dbconn) /\ UNCHANGED <<dbnodes, dbcase>>

TrySeed ==
    /\ dbconn.pc = "seed" /\ dbconn.node # <<>> /\ dbconn.hosts = <<>>
    /\ \E c \in mongo_socket_connect(dbconn, Head(dbconn.node)) :
        IF ~c.connected THEN dbconn' = [c EXCEPT !.pc = "idle"]
        ELSE \E a \in IsMaster(Head(dbconn.node)) :
                dbconn' = [mongo_replset_check_seed(c, a) EXCEPT !.node = Tail(@)]
    /\ UNCHANGED <<dbnodes, dbcase>>

SeedsDone ==
    /\ dbconn.pc = "seed" /\ (dbconn.node = <<>> \/ dbconn.hosts # <<>>)
    /\ dbconn' = IF dbconn.hosts = <<>>
                 THEN [dbconn EXCEPT !.err = "no primary", !.res = "error", !.pc = "idle"]
                 ELSE [dbconn EXCEPT !.node = dbconn.hosts, !.pc = "host"]
    /\ UNCHANGED <<dbnodes, dbcase>>

TryHost ==
    /\ dbconn.pc = "host" /\ dbconn.node # <<>>
    /\ LET h == Head(dbconn.node)
       IN \E c \in mongo_socket_connect([dbconn EXCEPT !.asked = @ \cup {h}], h) :
            IF ~c.connected THEN dbconn' = [c EXCEPT !.node = Tail(@)]
            ELSE \E a \in IsMaster(h) : dbconn' = mongo_replset_check_host(c, h, a)
    /\ UNCHANGED <<dbnodes, dbcase>>

HostsDone ==
    /\ dbconn.pc = "host" /\ dbconn.node = <<>>
    /\ dbconn' = [dbconn EXCEPT !.err = "no primary", !.res = "error", !.pc = "idle"]
    /\ UNCHANGED <<dbnodes, dbcase>>

\* mongo_connect, without a replica set: a node that is not primary leaves the
\* connection open and is an error.
mongo_connect ==
    /\ ~dbconn.replset /\ dbconn.life = "fresh"
    /\ \E h \in DbNodes :
        \E c \in mongo_socket_connect([dbconn EXCEPT !.life = "used", !.primary = h, !.asked = {h}], h) :
            IF ~c.connected THEN dbconn' = c
            ELSE \E a \in IsMaster(h) : dbconn' = mongo_check_is_master(c, h, a)
    /\ UNCHANGED <<dbnodes, dbcase>>

Disconnected(c) ==
    IF ~c.connected THEN c
    ELSE [Hung(c) EXCEPT !.pconn = FALSE, !.hosts = <<>>]

Idling == dbconn.pc = "idle" /\ dbconn.life = "used"

mongo_disconnect == Idling /\ dbconn' = Disconnected(dbconn) /\ UNCHANGED <<dbnodes, dbcase>>

mongo_reconnect ==
    /\ Idling
    /\ IF dbconn.replset
       THEN dbconn' = Begun([Disconnected(dbconn) EXCEPT !.pconn = FALSE, !.hosts = <<>>])
       ELSE \E c \in mongo_socket_connect([Disconnected(dbconn) EXCEPT !.master = {}], dbconn.primary) : dbconn' = c
    /\ UNCHANGED <<dbnodes, dbcase>>

mongo_destroy ==
    /\ Idling
    /\ dbconn' = [Disconnected(dbconn) EXCEPT !.seeds = <<>>, !.hosts = <<>>, !.primary = "", !.err = "none",
                                              !.res = "none", !.life = "destroyed"]
    /\ UNCHANGED <<dbnodes, dbcase>>

\* external: a node fails, returns or becomes primary in another's place.
NodeChanges ==
    /\ dbconn.life # "destroyed"
    /\ \E n \in DbNodes :
        \/ dbnodes' = [dbnodes EXCEPT ![n].up = ~@]
        \/ dbnodes' = [m \in DbNodes |-> [dbnodes[m] EXCEPT !.master = (m = n)]]
    /\ UNCHANGED <<dbconn, dbcase>>

DbNext ==
    mongo_connect \/ mongo_replset_connect \/ TrySeed \/ SeedsDone \/ TryHost \/ HostsDone
        \/ mongo_disconnect \/ mongo_reconnect \/ mongo_destroy \/ NodeChanges

DbSpec == DbInit /\ [][DbNext]_dbVars

(***************************************************************************)
(* Properties.                                                               *)
(***************************************************************************)

\* A replica set connection that was made leads to the node recorded as the
\* primary, which said during this very call that it is primary.
PrimaryAsked ==
    dbconn.replset /\ dbconn.pc = "idle" /\ dbconn.res = "ok" /\ dbconn.connected =>
        /\ dbconn.pconn /\ dbconn.open[dbconn.sock] = dbconn.primary
        /\ dbconn.primary \in dbconn.master

\* Between calls exactly the socket of a connected object is open, over failed
\* seeds, refused hosts, reconnections and the closing of one socket twice; a
\* destroyed object keeps none and no list.
SocketsKept ==
    /\ dbconn.pc = "idle" => DOMAIN dbconn.open = (IF dbconn.connected THEN {dbconn.sock} ELSE {})
    /\ dbconn.life = "destroyed" => dbconn.open = <<>> /\ dbconn.hosts = <<>> /\ dbconn.seeds = <<>>

\* "No primary" is the answer only after every host the seed named was tried.
NoPrimaryTried ==
    dbconn.pc = "idle" /\ dbconn.res = "error" /\ dbconn.err = "no primary" =>
        Range(dbconn.hosts) \subseteq dbconn.asked /\ dbconn.master = {} /\ ~dbconn.connected

\* A list in which every server has a port is read exactly, and its last server
\* is never made a seed.  A server without one takes the port of the next from
\* it, or is read through a null pointer if no port follows.  A host that a node
\* names is read as it was written.
ServersRead ==
    LET list == dbcase
        first == parse_server(ListText(list), 1)
        later == {i \in 2..Len(list) : list[i].port # 0}
    IN list # <<>> =>
       /\ (\A i \in DOMAIN list : list[i].port # 0) =>
            SeedsFrom(ListText(list), 1) = [i \in 1..Len(list) - 1 |-> Wanting(list[i])]
       /\ ~first.crash => [host |-> first.host, port |-> first.port] = Wanting(list[1])
       /\ first.crash <=> list[1].port = 0 /\ Len(list) > 1 /\ later = {}
       /\ \A i \in DOMAIN list : mongo_parse_host(Append(ServerText(list[i]), Nul)) =
            [host |-> <<Wanting(list[i]).host>>, port |-> Wanting(list[i]).port]

ServersExact == PrimaryAsked /\ SocketsKept /\ NoPrimaryTried /\ ServersRead

=============================================================================
