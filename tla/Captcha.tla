------------------------------ MODULE Captcha ------------------------------
(***************************************************************************)
(* Images of distorted text (web/utils/captcha.c).  The symbols are loaded   *)
(* once, by the first worker; every worker has its own pictures and output   *)
(* buffer, but png_header and png_trailer, into which the length and the     *)
(* checksum are written, are shared by all and have no lock.                 *)
(*   capShared   mutex, init, left (files not yet read), syms, length and    *)
(*               crc (those two words, with the order of their bytes),       *)
(*               alive, drawn (calls of captcha_generate, for the bound)     *)
(*   cap[t]      a worker: pc, key, size (bytes of its compressed picture),  *)
(*               png, what it has put together                               *)
(* History, in cap[t]: hit, the words another worker wrote between this      *)
(* one's writing them and copying them.                                      *)
(* The arithmetic of the pictures is a set of cases in capcase.              *)
(***************************************************************************)
EXTENDS Integers, Sequences, SequencesExt, FiniteSets

CONSTANTS Drawers,        \* workers
          CapFiles,       \* what the directory may hold, sequences of files
          MinChars, MaxChars,
          PngSizes,       \* sizes of compressed pictures
          MaxImages,      \* bound on the images drawn
          CapCases

VARIABLES capShared, cap, capcase

capVars == <<capShared, cap, capcase>>

(***************************************************************************)
(* ppm_load.  A file is its name, the lines of its header and the number of  *)
(* bytes after them.                                                         *)
(***************************************************************************)

\* ppm_get_line: the lines that are not comments.
ppm_get_line(lines) == SelectSeq(lines, LAMBDA l : l.t # "comment")

\* Accepted, refused, or "crash": fgets gives NULL at the end of the file, and
\* it is read through.
ppm_load(f) ==
    LET l == ppm_get_line(f.lines)
    IN IF l = <<>> THEN "crash"
       ELSE IF l[1].t # "P6" THEN "refused"
       ELSE IF Len(l) = 1 THEN "crash"
       ELSE IF l[2].t # "size" \/ l[2].w = 0 \/ l[2].h = 0 THEN "refused"
       ELSE IF Len(l) = 2 THEN "crash"
       ELSE IF l[3].t # "max" \/ l[3].v # 255 \/ f.bytes # l[2].w * l[2].h * 3 THEN "refused"
       ELSE "loaded"

\* The record of a loaded file: its width and height are kept in 16 bits.
Symbol(f) ==
    LET l == ppm_get_line(f.lines)
    IN [sym |-> f.name, width |-> l[2].w % 2^16, height |-> l[2].h % 2^16, rows |-> f.bytes]

(***************************************************************************)
(* captcha_init.                                                             *)
(***************************************************************************)

NoWord == [v |-> <<>>, big |-> FALSE]
NoPng == [length |-> NoWord, crc |-> NoWord]

CaptchaStart(files) ==
    /\ capShared = [mutex |-> {}, init |-> FALSE, left |-> files, syms |-> <<>>,
                    length |-> NoWord, crc |-> NoWord, alive |-> TRUE, drawn |-> 0]
    /\ cap = [t \in Drawers |-> [pc |-> "new", key |-> <<>>, size |-> 0, png |-> NoPng, hit |-> {}]]

\* A behaviour is one of the workers', or one case of the arithmetic.
CaptchaInit ==
    \/ /\ \E files \in CapFiles : CaptchaStart(files)
       /\ capcase = [kind |-> "none"]
    \/ CaptchaStart(<<>>) /\ capcase \in CapCases

\* mutant: the flag is looked at before the lock is taken.
captcha_init_early(t) ==
    /\ cap[t].pc = "new" /\ (capShared.mutex = {} \/ capShared.init)
    /\ capShared' = [capShared EXCEPT !.mutex = IF capShared.init THEN @ ELSE {t}, !.init = TRUE,
                                     !.alive = capShared.init \/ capShared.left # <<>>]
    /\ cap' = [cap EXCEPT ![t].pc = IF capShared.init THEN "ready" ELSE "load"]

\* The process ends if glob finds no file.
captcha_init(t) ==
    /\ cap[t].pc = "new" /\ capShared.mutex = {}
    /\ capShared' = [capShared EXCEPT !.mutex = {t}, !.init = TRUE,
                                     !.alive = capShared.init \/ capShared.left # <<>>]
    /\ cap' = [cap EXCEPT ![t].pc = IF capShared.init THEN "buffers" ELSE "load"]

LoadSymbol(t) ==
    /\ cap[t].pc = "load" /\ capShared.left # <<>>
    /\ capShared' = IF ppm_load(Head(capShared.left)) = "loaded"
                    THEN [capShared EXCEPT !.left = Tail(@), !.syms = Append(@, Symbol(Head(capShared.left)))]
                    ELSE [capShared EXCEPT !.alive = FALSE]
    /\ UNCHANGED cap

SymbolsLoaded(t) ==
    /\ cap[t].pc = "load" /\ capShared.left = <<>>
    /\ cap' = [cap EXCEPT ![t].pc = "buffers"]
    /\ UNCHANGED capShared

\* The worker's own pictures and buffer.
Unlocked(t) ==
    /\ cap[t].pc = "buffers"
    /\ capShared' = [capShared EXCEPT !.mutex = {}]
    /\ cap' = [cap EXCEPT ![t].pc = "ready"]

(***************************************************************************)
(* captcha_generate.                                                         *)
(***************************************************************************)

\* The text and the picture.
captcha_generate(t) ==
    /\ cap[t].pc \in {"ready", "done"} /\ capShared.syms # <<>> /\ capShared.drawn < MaxImages
    /\ \E n \in MinChars..MaxChars :
        \E pick \in [1..n -> DOMAIN capShared.syms] :
            cap' = [cap EXCEPT ![t] = [pc |-> "length", key |-> [i \in 1..n |-> capShared.syms[pick[i]].sym],
                                       size |-> 0, png |-> NoPng, hit |-> {}]]
    /\ capShared' = [capShared EXCEPT !.drawn = @ + 1]

\* No symbols, or deflateInit fails: NULL.
GenerateFails(t) ==
    /\ cap[t].pc \in {"ready", "done"} /\ capShared.drawn < MaxImages
    /\ cap' = [cap EXCEPT ![t].pc = "ready", ![t].key = <<>>, ![t].size = 0, ![t].png = NoPng, ![t].hit = {}]
    /\ capShared' = [capShared EXCEPT !.drawn = @ + 1]

\* Another worker writes the word that those in one of pcs are about to copy.
Hitting(t, word, pcs, to) ==
    [u \in Drawers |-> IF u = t THEN [cap[t] EXCEPT !.pc = to]
                       ELSE IF cap[u].pc \in pcs THEN [cap[u] EXCEPT !.hit = @ \cup {word}] ELSE cap[u]]

\* bswap_32.
Swapped(word) == [word EXCEPT !.big = ~@]

\* png_output: the picture is compressed into the worker's buffer, and its size
\* is the length.
WriteLength(t) ==
    /\ cap[t].pc = "length"
    /\ \E size \in PngSizes :
        /\ capShared' = [capShared EXCEPT !.length = [v |-> <<size>>, big |-> FALSE]]
        /\ cap' = [Hitting(t, "length", {"swap", "header"}, "swap") EXCEPT ![t].size = size]

SwapLength(t) ==
    /\ cap[t].pc = "swap"
    /\ capShared' = [capShared EXCEPT !.length = Swapped(@)]
    /\ cap' = Hitting(t, "length", {"swap", "header"}, "header")

CopyHeader(t) ==
    /\ cap[t].pc = "header"
    /\ cap' = [cap EXCEPT ![t].pc = "crc", ![t].png.length = capShared.length]
    /\ UNCHANGED capShared

\* crc32 of the picture in the worker's own buffer, behind the header.
Crc(t) == <<t, cap[t].key, cap[t].size>>

WriteCrc(t) ==
    /\ cap[t].pc = "crc"
    /\ capShared' = [capShared EXCEPT !.crc = [v |-> Crc(t), big |-> FALSE]]
    /\ cap' = Hitting(t, "crc", {"swapcrc", "trailer"}, "swapcrc")

SwapCrc(t) ==
    /\ cap[t].pc = "swapcrc"
    /\ capShared' = [capShared EXCEPT !.crc = Swapped(@)]
    /\ cap' = Hitting(t, "crc", {"swapcrc", "trailer"}, "trailer")

CopyTrailer(t) ==
    /\ cap[t].pc = "trailer"
    /\ cap' = [cap EXCEPT ![t].pc = "done", ![t].png.crc = capShared.crc]
    /\ UNCHANGED capShared

CaptchaNext ==
    /\ capShared.alive /\ capcase.kind = "none"
    /\ \E t \in Drawers :
        \/ captcha_init(t) \/ LoadSymbol(t) \/ SymbolsLoaded(t) \/ Unlocked(t)
        \/ captcha_generate(t) \/ GenerateFails(t)
        \/ WriteLength(t) \/ SwapLength(t) \/ CopyHeader(t)
        \/ WriteCrc(t) \/ SwapCrc(t) \/ CopyTrailer(t)
    /\ UNCHANGED capcase

(***************************************************************************)
(* Where the symbols are drawn, in pixels.                                   *)
(***************************************************************************)

CAPTCHA_WIDTH == 200
CAPTCHA_HEIGHT == 70
CAPTCHA_PADDING == 8
CAPTCHA_CHARS == 5..7

\* 1000 times the sine of 0..45 degrees, and of the cosine.
Sines == <<0, 17, 35, 52, 70, 87, 105, 122, 139, 156, 174, 191, 208, 225, 242, 259, 276, 292, 309, 326, 342, 358,
           375, 391, 407, 423, 438, 454, 469, 485, 500, 515, 530, 545, 559, 574, 588, 602, 616, 629, 643, 656,
           669, 682, 695, 707>>
Cosines == <<1000, 1000, 999, 999, 998, 996, 995, 993, 990, 988, 985, 982, 978, 974, 970, 966, 961, 956, 951, 946,
             940, 934, 927, 921, 914, 906, 899, 891, 883, 875, 866, 857, 848, 839, 829, 819, 809, 799, 788, 777,
             766, 755, 743, 731, 719, 707>>
Sin(a) == IF a < 0 THEN -Sines[1 - a] ELSE Sines[1 + a]
Cos(a) == IF a < 0 THEN Cosines[1 - a] ELSE Cosines[1 + a]

\* lround of n / d.
Lround(n, d) == IF n >= 0 THEN (2 * n + d) \div (2 * d) ELSE -((d - 2 * n) \div (2 * d))

\* image_overlay: the row and the column of pixel (k, i) of a w by h symbol.
RowOf(i, k, w, h, sa, ca) ==
    Lround((500 * h) + ((w - 2 * k) * sa) \div 2 + (ca * ((2 * i - h) * 1000 + (h - w) * sa)) \div 2000, 1000)
ColumnOf(i, k, w, h, sa, ca) ==
    Lround((ca * (2 * k * 1000 + w * (ca - 1000)) + sa * (2 * i * 1000 + h * (sa - 1000)) + 2 * sa * sa) \div 2000, 1000)

\* captcha_generate: the places of the n-th of nchars symbols.
XPlaces(nchars, n, w) ==
    LET st == (CAPTCHA_WIDTH - 2 * CAPTCHA_PADDING) \div nchars
        pad == IF st - w > 1 THEN st - w ELSE 1
    IN {n * st + r + CAPTCHA_PADDING : r \in 0..(pad - 1)}
YPlaces(h) == {r + CAPTCHA_PADDING : r \in 0..(CAPTCHA_HEIGHT - 2 * CAPTCHA_PADDING - h - 1)}

(***************************************************************************)
(* wave.  Positions are in 1/80 of a pixel: the displacement a is in         *)
(* quarters, and the picture is 20/7 times as wide as high.                  *)
(***************************************************************************)

Clamp(x, l, u) == IF x < l THEN l ELSE IF x > u THEN u ELSE x

\* The place read for a pixel displaced by a, and the pixel left above it.
Need(c) == [x |-> 80 * c.x + 20 * c.a, y |-> 80 * c.y + 7 * c.a]
Corner(c) ==
    [x |-> Clamp(Need(c).x, 0, 80 * (CAPTCHA_WIDTH - 2)) \div 80,
     y |-> Clamp(Need(c).y, 0, 80 * (CAPTCHA_HEIGHT - 2)) \div 80]

\* bilinear_pixels without alpha: v has the four pixels around.
bilinear_pixels(fx, fy, v) ==
    LET m0 == (80 - fx) * v[1] + fx * v[2]
        m1 == (80 - fx) * v[3] + fx * v[4]
    IN ((80 - fy) * m0 + fy * m1) \div 6400

(***************************************************************************)
(* Properties.                                                               *)
(***************************************************************************)

\* A worker that draws has all the symbols, and each has all its pixels: nobody
\* draws while the first worker still loads them.
SymbolsWhole ==
    /\ \A t \in Drawers : cap[t].pc \notin {"new", "load"} => capShared.left = <<>>
    /\ \A s \in Range(capShared.syms) : 3 * s.width * s.height <= s.rows

\* The length and the checksum in a finished image are its own, in network
\* order, unless another worker wrote the shared word in between.
PngExact ==
    \A t \in Drawers : cap[t].pc = "done" =>
        /\ "length" \notin cap[t].hit => cap[t].png.length = [v |-> <<cap[t].size>>, big |-> TRUE]
        /\ "crc" \notin cap[t].hit => cap[t].png.crc = [v |-> Crc(t), big |-> TRUE]

\* A symbol drawn at any of its places and any angle lies inside the picture,
\* with one pixel to spare for what the sines leave out.  (Row and column are
\* linear in i and k: the corners are enough.)
DrawnInside ==
    capcase.kind = "place" =>
        LET c == capcase  sa == Sin(c.angle)  ca == Cos(c.angle)
        IN \A i \in {0, c.h - 1}, k \in {0, c.w - 1} :
            /\ \A y \in YPlaces(c.h) : RowOf(i, k, c.w, c.h, sa, ca) + y \in 1..(CAPTCHA_HEIGHT - 2)
            /\ \A nchars \in CAPTCHA_CHARS : \A n \in 0..(nchars - 1) : \A x \in XPlaces(nchars, n, c.w) :
                ColumnOf(i, k, c.w, c.h, sa, ca) + x \in 1..(CAPTCHA_WIDTH - 2)

\* The wave reads four pixels of the picture for each pixel, and gives a value
\* between theirs; a pixel that is not displaced keeps its value.
WaveInside ==
    capcase.kind = "wave" =>
        LET c == capcase  at == Corner(c)
            fx == Need(c).x % 80  fy == Need(c).y % 80
            v == bilinear_pixels(fx, fy, c.v)
        IN /\ at.x \in 0..(CAPTCHA_WIDTH - 2) /\ at.y \in 0..(CAPTCHA_HEIGHT - 2)
           /\ \E lo, hi \in Range(c.v) : lo <= v /\ v <= hi
           /\ fx = 0 /\ fy = 0 => v = c.v[1]
           /\ c.a = 0 => at.x = Clamp(c.x, 0, CAPTCHA_WIDTH - 2) /\ at.y = Clamp(c.y, 0, CAPTCHA_HEIGHT - 2)

\* A file is loaded exactly if it has the three lines of a P6 file with 255
\* colours and the bytes its size calls for.
FilesChecked ==
    capcase.kind = "file" =>
        LET l == SelectSeq(capcase.file.lines, LAMBDA x : x.t # "comment")
        IN ppm_load(capcase.file) = "loaded" <=>
            /\ Len(l) >= 3 /\ l[1].t = "P6" /\ l[2].t = "size" /\ l[3] = [t |-> "max", v |-> 255]
            /\ l[2].w > 0 /\ l[2].h > 0 /\ capcase.file.bytes = 3 * l[2].w * l[2].h

CaptchaSound == SymbolsWhole /\ PngExact /\ DrawnInside /\ WaveInside /\ FilesChecked

=============================================================================
