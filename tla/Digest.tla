------------------------------- MODULE Digest ------------------------------
(***************************************************************************)
(* The two digests: SHA-1 (web/utils/sha1.c, for the handlers) and MD5       *)
(* (md5.c of the database driver, for passwords).  A 32-bit word is a pair   *)
(* of 16-bit halves.  dig is one computation:                                *)
(*   alg, pieces     what is computed, of which pieces of the message        *)
(*   low, high, buf  the length so far, in bits, and the block being filled  *)
(*   blocks          blocks handed to the compression function               *)
(*   phase           "input", "schedule" and "rounds" for block number n,    *)
(*                   "done"                                                  *)
(*   w, reg, t       schedule, registers and step within a block             *)
(*   hash            Intermediate_Hash, abcd                                 *)
(* The blocks are collected first and compressed afterwards, and only for    *)
(* messages whose digest is known: the compression function reads nothing    *)
(* but hash and the block.                                                   *)
(***************************************************************************)
EXTENDS Integers, Sequences, SequencesExt, Bitwise

CONSTANTS DigCases,     \* [alg, pieces]: the pieces of the message to take
          KnownDigests, \* [alg, msg, hex]
          LenMod        \* values of a length word, 2^32 in the code

ASSUME LenModAssumption == LenMod \in Nat /\ LenMod % 512 = 0 /\ LenMod <= 65536

VARIABLE dig

-----------------------------------------------------------------------------
(* Words.                                                                    *)
WAdd(x, y) == <<(x[1] + y[1] + ((x[2] + y[2]) \div 65536)) % 65536, (x[2] + y[2]) % 65536>>
WAnd(x, y) == <<x[1] & y[1], x[2] & y[2]>>
WOr(x, y) == <<x[1] | y[1], x[2] | y[2]>>
WXor(x, y) == <<x[1] ^^ y[1], x[2] ^^ y[2]>>
WNot(x) == <<65535 - x[1], 65535 - x[2]>>

\* SHA1CircularShift, ROTATE_LEFT.
RotHalves(n, x) == <<((x[1] * 2^n) % 65536) + x[2] \div 2^(16 - n), ((x[2] * 2^n) % 65536) + x[1] \div 2^(16 - n)>>
Rot(n, x) == IF n < 16 THEN RotHalves(n, x) ELSE RotHalves(n - 16, <<x[2], x[1]>>)

\* The four bytes of a length word, first the lowest or the highest.
LengthBytes(v) == <<v % 256, (v \div 256) % 256, 0, 0>>

-----------------------------------------------------------------------------
(* SHA-1.                                                                    *)

\* SHA1Input, one byte.
SHA1Input(d, byte) ==
    LET low == (d.low + 8) % LenMod
        full == Len(d.buf) = 63
    IN [d EXCEPT !.low = low, !.high = IF low = 0 THEN @ + 1 ELSE @,
                 !.buf = IF full THEN <<>> ELSE Append(@, byte),
                 !.blocks = IF full THEN Append(@, Append(d.buf, byte)) ELSE @]

Zeros(n) == [i \in 1..n |-> 0]

SHA1PadMessage(d) ==
    LET length == Reverse(LengthBytes(d.high)) \o Reverse(LengthBytes(d.low))
    IN IF Len(d.buf) > 55
       THEN <<d.buf \o <<128>> \o Zeros(63 - Len(d.buf)), Zeros(56) \o length>>
       ELSE <<d.buf \o <<128>> \o Zeros(55 - Len(d.buf)) \o length>>

SHA1Reset == <<<<26437, 8961>>, <<61389, 43913>>, <<39098, 56574>>, <<4146, 21622>>, <<50130, 57840>>>>

SHA1Word(block, t) ==
    <<256 * block[4 * t + 1] + block[4 * t + 2], 256 * block[4 * t + 3] + block[4 * t + 4]>>

\* W[t], t >= 16: W[t] is w[t + 1].
SHA1Expand(w, t) == Rot(1, WXor(WXor(w[t - 2], w[t - 7]), WXor(w[t - 13], w[t - 15])))

SHA1F(t, b, c, d) ==
    CASE t < 20 -> WOr(WAnd(b, c), WAnd(WNot(b), d))
      [] t \in 40..59 -> WOr(WOr(WAnd(b, c), WAnd(b, d)), WAnd(c, d))
      [] OTHER -> WXor(WXor(b, c), d)
SHA1K(t) == <<<<23170, 31129>>, <<28377, 60321>>, <<36635, 48348>>, <<51810, 49622>>>>[(t \div 20) + 1]

\* One step of the four loops on <<A, B, C, D, E>>.
SHA1Step(r, t, w) ==
    <<WAdd(WAdd(WAdd(Rot(5, r[1]), SHA1F(t, r[2], r[3], r[4])), WAdd(r[5], w)), SHA1K(t)),
      r[1], Rot(30, r[2]), r[3], r[4]>>

-----------------------------------------------------------------------------
(* MD5.                                                                      *)
MD5Init == <<<<26437, 8961>>, <<61389, 43913>>, <<39098, 56574>>, <<4146, 21622>>>>

\* mongo_md5_append: the length, then the rest of a block begun earlier, the
\* full blocks, and what is left.
MD5Count(d, n) ==
    LET nbits == (8 * n) % LenMod
        low == (d.low + nbits) % LenMod
    IN [d EXCEPT !.low = low, !.high = @ + (8 * n) \div LenMod + (IF low < nbits THEN 1 ELSE 0)]

FullBlocks(p) == [i \in 1..(Len(p) \div 64) |-> SubSeq(p, 64 * i - 63, 64 * i)]
MD5Blocks(d, p) ==
    [d EXCEPT !.blocks = @ \o FullBlocks(p),
              !.buf = IF Len(p) % 64 = 0 THEN @ ELSE SubSeq(p, Len(p) - (Len(p) % 64) + 1, Len(p))]

mongo_md5_append(d, p) ==
    LET offset == (d.low \div 8) % 64
        begun == SubSeq(d.buf, 1, offset)
        counted == MD5Count(d, Len(p))
    IN IF p = <<>> THEN d
       ELSE IF offset > 0 /\ offset + Len(p) < 64 THEN [counted EXCEPT !.buf = begun \o p]
       ELSE IF offset > 0
            THEN MD5Blocks([counted EXCEPT !.blocks = Append(@, begun \o SubSeq(p, 1, 64 - offset))],
                           SubSeq(p, 65 - offset, Len(p)))
       ELSE MD5Blocks(counted, p)

\* mongo_md5_finish: the padding and the saved length are appended like data.
MD5Padding(low) == <<128>> \o Zeros((55 - (low \div 8)) % 64)
mongo_md5_finish(d) ==
    mongo_md5_append(mongo_md5_append(d, MD5Padding(d.low)), LengthBytes(d.low) \o LengthBytes(d.high))

MD5Word(block, t) ==
    <<block[4 * t + 3] + 256 * block[4 * t + 4], block[4 * t + 1] + 256 * block[4 * t + 2]>>

MD5T == <<<<55146, 42104>>, <<59591, 46934>>, <<9248, 28891>>, <<49597, 52974>>, <<62844, 4015>>, <<18311, 50730>>,
      <<43056, 17939>>, <<64838, 38145>>, <<27008, 39128>>, <<35652, 63407>>, <<65535, 23473>>, <<35164, 55230>>,
      <<27536, 4386>>, <<64920, 29075>>, <<42617, 17294>>, <<18868, 2081>>, <<63006, 9570>>, <<49216, 45888>>,
      <<9822, 23121>>, <<59830, 51114>>, <<54831, 4189>>, <<580, 5203>>, <<55457, 59009>>, <<59347, 64456>>,
      <<8673, 52710>>, <<49975, 2006>>, <<62677, 3463>>, <<17754, 5357>>, <<43491, 59653>>, <<64751, 41976>>,
      <<26479, 729>>, <<36138, 19594>>, <<65530, 14658>>, <<34673, 63105>>, <<28061, 24866>>, <<64997, 14348>>,
      <<42174, 59972>>, <<19422, 53161>>, <<63163, 19296>>, <<48831, 48240>>, <<10395, 32454>>, <<60065, 10234>>,
      <<54511, 12421>>, <<1160, 7429>>, <<55764, 53305>>, <<59099, 39397>>, <<8098, 31992>>, <<50348, 22117>>,
      <<62505, 8772>>, <<17194, 65431>>, <<43924, 9127>>, <<64659, 41017>>, <<25947, 22979>>, <<36620, 52370>>,
      <<65519, 62589>>, <<34180, 24017>>, <<28584, 32335>>, <<65068, 59104>>, <<41729, 17172>>, <<19976, 4513>>,
      <<63315, 32386>>, <<48442, 62005>>, <<10967, 53947>>, <<60294, 54161>>>>

\* Which word, and by how much to rotate, in step t of the four rounds.
MD5Index(t) == CASE t < 16 -> t [] t \in 16..31 -> (5 * t + 1) % 16 [] t \in 32..47 -> (3 * t + 5) % 16
                 [] OTHER -> (7 * t) % 16
MD5Shift(t) == <<<<7, 12, 17, 22>>, <<5, 9, 14, 20>>, <<4, 11, 16, 23>>, <<6, 10, 15, 21>>>>[(t \div 16) + 1][(t % 4) + 1]
MD5F(t, x, y, z) ==
    CASE t < 16 -> WOr(WAnd(x, y), WAnd(WNot(x), z))
      [] t \in 16..31 -> WOr(WAnd(x, z), WAnd(y, WNot(z)))
      [] t \in 32..47 -> WXor(WXor(x, y), z)
      [] OTHER -> WXor(y, WOr(x, WNot(z)))

\* SET on <<a, b, c, d>>; the next one is on <<d, a, b, c>>.
MD5Step(r, t, x) ==
    <<r[4], WAdd(Rot(MD5Shift(t), WAdd(WAdd(r[1], MD5F(t, r[2], r[3], r[4])), WAdd(x, MD5T[t + 1]))), r[2]), r[2], r[3]>>

-----------------------------------------------------------------------------
(* The computation.                                                          *)
Digesting(c) ==
    [alg |-> c.alg, msg |-> c.msg, pieces |-> c.pieces, low |-> 0, high |-> 0, buf |-> <<>>, blocks |-> <<>>,
     phase |-> "input", n |-> 0, w |-> <<>>, reg |-> <<>>, t |-> 0,
     hash |-> IF c.alg = "sha1" THEN SHA1Reset ELSE MD5Init]

DigestInit == \E c \in DigCases : dig = Digesting(c)

Taken(d) == 64 * Len(d.blocks) + ((d.low \div 8) % 64)

SHA1InputByte ==
    /\ dig.phase = "input" /\ dig.alg = "sha1" /\ Taken(dig) < Len(dig.msg)
    /\ dig' = SHA1Input(dig, dig.msg[Taken(dig) + 1])

MD5Append ==
    /\ dig.phase = "input" /\ dig.alg = "md5" /\ dig.pieces # <<>>
    /\ LET at == Len(dig.msg) - FoldLeft(+, 0, dig.pieces)
       IN dig' = [mongo_md5_append(dig, SubSeq(dig.msg, at + 1, at + Head(dig.pieces))) EXCEPT !.pieces = Tail(@)]

SHA1Pad ==
    /\ dig.phase = "input" /\ dig.alg = "sha1" /\ Taken(dig) = Len(dig.msg)
    /\ dig' = [dig EXCEPT !.blocks = @ \o SHA1PadMessage(dig), !.buf = <<>>, !.phase = "padded"]

MD5Finish ==
    /\ dig.phase = "input" /\ dig.alg = "md5" /\ dig.pieces = <<>>
    /\ dig' = [mongo_md5_finish(dig) EXCEPT !.phase = "padded"]

Published(d) == \E k \in KnownDigests : k.alg = d.alg /\ k.msg = d.msg

BlockBegun ==
    /\ dig.phase = "padded" /\ dig.n < Len(dig.blocks) /\ Published(dig)
    /\ dig' = [dig EXCEPT !.n = @ + 1, !.reg = dig.hash, !.t = 0,
                          !.phase = IF dig.alg = "sha1" THEN "schedule" ELSE "rounds",
                          !.w = [i \in 1..16 |-> IF dig.alg = "sha1" THEN SHA1Word(dig.blocks[dig.n + 1], i - 1)
                                                 ELSE MD5Word(dig.blocks[dig.n + 1], i - 1)]]

SHA1Schedule ==
    /\ dig.phase = "schedule"
    /\ dig' = IF Len(dig.w) = 80 THEN [dig EXCEPT !.phase = "rounds"]
              ELSE [dig EXCEPT !.w = Append(@, SHA1Expand(dig.w, Len(dig.w)))]

Rounds == IF dig.alg = "sha1" THEN 80 ELSE 64
Round ==
    /\ dig.phase = "rounds" /\ dig.t < Rounds
    /\ dig' = [dig EXCEPT !.t = @ + 1,
                          !.reg = IF dig.alg = "sha1" THEN SHA1Step(@, dig.t, dig.w[dig.t + 1])
                                  ELSE MD5Step(@, dig.t, dig.w[MD5Index(dig.t) + 1])]

BlockDone ==
    /\ dig.phase = "rounds" /\ dig.t = Rounds
    /\ dig' = [dig EXCEPT !.phase = "padded", !.w = <<>>, !.reg = <<>>, !.t = 0,
                          !.hash = [i \in DOMAIN @ |-> WAdd(@[i], dig.reg[i])]]

DigestNext ==
    SHA1InputByte \/ MD5Append \/ SHA1Pad \/ MD5Finish \/ BlockBegun \/ SHA1Schedule \/ Round \/ BlockDone

\* SHA1Result and mongo_md5_finish: the bytes of the digest.
WordBytes(x) == <<x[1] \div 256, x[1] % 256, x[2] \div 256, x[2] % 256>>
DigestBytes(d) ==
    FlattenSeq([i \in DOMAIN d.hash |-> IF d.alg = "sha1" THEN WordBytes(d.hash[i]) ELSE Reverse(WordBytes(d.hash[i]))])

\* digest2hex: the digits, as numbers.
digest2hex(bytes) == FlattenSeq([i \in DOMAIN bytes |-> <<bytes[i] \div 16, bytes[i] % 16>>])

-----------------------------------------------------------------------------
(* Properties.                                                               *)

\* What is compressed is the message, a one bit, the fewest zeros that leave
\* room for the length in the last block, and the length, however the message
\* was divided.
Padded(d) ==
    LET n == Len(d.msg)
        zeros == (119 - (n % 64)) % 64
        lo == LengthBytes((8 * n) % LenMod)
        hi == LengthBytes((8 * n) \div LenMod)
    IN d.msg \o <<128>> \o Zeros(zeros) \o (IF d.alg = "sha1" THEN Reverse(hi) \o Reverse(lo) ELSE lo \o hi)
BlocksExact == dig.phase # "input" => FlattenSeq(dig.blocks) = Padded(dig) /\ \A b \in Range(dig.blocks) : Len(b) = 64

\* While the message is taken, the blocks and the one being filled are its
\* beginning.
InputExact ==
    dig.phase = "input" =>
        FlattenSeq(dig.blocks) \o SubSeq(dig.buf, 1, (dig.low \div 8) % 64) = SubSeq(dig.msg, 1, Taken(dig))

\* The digests of the messages with a published digest are those.
DigestsKnown ==
    dig.phase = "padded" /\ dig.n = Len(dig.blocks) =>
        \A k \in KnownDigests : k.alg = dig.alg /\ k.msg = dig.msg => digest2hex(DigestBytes(dig)) = k.hex

DigestsSound == BlocksExact /\ InputExact /\ DigestsKnown

=============================================================================
