------------------------------- MODULE GridFS -------------------------------
(***************************************************************************)
(* Files in the database (gridfs.c): a file is stored as numbered chunks of  *)
(* ChunkSize bytes and a record of its length; a writer collects bytes until *)
(* a chunk is full, a reader seeks and reads across chunks.  Bytes are       *)
(* numbered in the order they are given to the writer.  A file g:            *)
(*   mode     none, writing, stored                                          *)
(*   chunks   the chunks at the database, by number                          *)
(*   chunk_num, length, pending   the writer (gridfile)                      *)
(*   size     the length in the file's record                                *)
(*   pos      the reader's position                                          *)
(* History: given, the bytes given; skipped, those of writes that reach a    *)
(* whole chunk with nothing pending; refused, the database did not take a     *)
(* chunk; wrong, a read filled in other bytes than the file's.                *)
(***************************************************************************)
EXTENDS Integers, Sequences, SequencesExt, FiniteSets, FiniteSetsExt, TLC

CONSTANTS ChunkSize,      \* DEFAULT_CHUNK_SIZE
          MaxBytes,       \* bound on bytes given to one file
          OffsetBits,     \* width of gridfs_offset
          IntBits         \* width of int

VARIABLE grid

NoFile == [mode |-> "none", chunks |-> <<>>, chunk_num |-> 0, length |-> 0, pending |-> <<>>, size |-> 0, pos |-> 0,
           given |-> 0, skipped |-> {}, refused |-> FALSE, wrong |-> FALSE]

Bytes(from, n) == [i \in 1..n |-> from + i]

\* mongo_insert of chunk n, whose result nobody looks at: the database takes it
\* or not.
Inserted(g, n, data) ==
    {[g EXCEPT !.chunks = (n :> data) @@ @], [g EXCEPT !.refused = TRUE]}

\* The chunks of data, from number n on.
RECURSIVE InsertAll(_, _, _)
InsertAll(g, n, data) ==
    LET k == Min({ChunkSize, Len(data)})
    IN IF data = <<>> THEN {g}
       ELSE UNION {InsertAll(h, n + 1, SubSeq(data, k + 1, Len(data))) : h \in Inserted(g, n, SubSeq(data, 1, k))}

\* gridfs_insert_file: the record of the file.
gridfs_insert_file(g, n) == [g EXCEPT !.mode = "stored", !.size = n, !.pos = 0]

(***************************************************************************)
(* Writing.                                                                  *)
(***************************************************************************)

\* How many chunks are full now; none when nothing was pending.
ChunksToWrite(g, n) == IF g.pending # <<>> THEN (n + Len(g.pending)) \div ChunkSize ELSE 0

gridfile_write_buffer(g0, n) ==
    LET data == Bytes(g0.given, n)
        g == [g0 EXCEPT !.given = @ + n]
        full == ChunksToWrite(g, n)
        all == g.pending \o data
        whole == [g EXCEPT !.chunk_num = @ + full, !.length = @ + full * ChunkSize,
                           !.pending = SubSeq(all, full * ChunkSize + 1, Len(all))]
    IN IF n + Len(g.pending) < ChunkSize THEN {[g EXCEPT !.pending = @ \o data]}
       ELSE IF g.pending = <<>> THEN {[g EXCEPT !.skipped = @ \cup Range(data)]}
       ELSE InsertAll(whole, g.chunk_num, SubSeq(all, 1, full * ChunkSize))

gridfile_writer_done(g) ==
    LET closed(h) == gridfs_insert_file([h EXCEPT !.pending = <<>>], h.length)
    IN IF g.pending = <<>> THEN {closed(g)}
       ELSE {closed([h EXCEPT !.length = @ + Len(g.pending)]) : h \in Inserted(g, g.chunk_num, g.pending)}

gridfs_store_buffer(g, n) ==
    {gridfs_insert_file(h, n) : h \in InsertAll([g EXCEPT !.given = n], 0, Bytes(0, n))}

\* A file from disk: an empty one is stored as one empty chunk.
gridfs_store_file(g, n) ==
    IF n > 0 THEN gridfs_store_buffer(g, n)
    ELSE {gridfs_insert_file(h, 0) : h \in Inserted(g, 0, <<>>)}

(***************************************************************************)
(* Reading.                                                                  *)
(***************************************************************************)

\* The bytes that should be in the file.
Retained(g) == SelectSeq(Bytes(0, g.given), LAMBDA b : b \notin g.skipped)

\* Unsigned arithmetic of gridfs_offset, and its conversion to int.
Off(x) == x % 2^OffsetBits
ToInt(x) == LET r == x % 2^IntBits IN IF r >= 2^(IntBits - 1) THEN r - 2^IntBits ELSE r

gridfile_get_numchunks(g) == (g.size + ChunkSize - 1) \div ChunkSize

\* gridfile_get_chunks: size 1 asks for that chunk, others for all from start on;
\* the numbers of the chunks the cursor goes through.
gridfile_get_chunks(g, start, size) ==
    LET n == IF size = 1 THEN {start} \cap DOMAIN g.chunks ELSE {i \in DOMAIN g.chunks : i >= start}
    IN SetToSortSeq(n, <)

\* The buffer after the chunks were copied, or 0, which is no byte, when the cursor had no more.
RECURSIVE CopyChunks(_, _, _, _, _)
CopyChunks(g, order, i, total, left) ==
    LET chunk == g.chunks[order[i + 1]]
        data == IF i = 0 THEN SubSeq(chunk, (g.pos % ChunkSize) + 1, Len(chunk)) ELSE chunk
    IN IF i >= total THEN <<>>
       ELSE IF i + 1 > Len(order) THEN <<0>>
       ELSE IF left > Len(data) THEN data \o CopyChunks(g, order, i + 1, total, left - Len(data))
       ELSE SubSeq(data, 1, left) \o CopyChunks(g, order, i + 1, total, left)

gridfile_read(g, asked) ==
    LET size == IF g.size - g.pos < asked THEN g.size - g.pos ELSE asked
        first == ToInt(g.pos \div ChunkSize)
        last == ToInt(Off(g.pos + size - 1) \div ChunkSize)
        total == last - first + 1
        order == gridfile_get_chunks(g, first, total)
        buf == CopyChunks(g, order, 0, total, size)
    IN [g EXCEPT !.pos = g.pos + size,
                 !.wrong = @ \/ buf # SubSeq(Retained(g), g.pos + 1, g.pos + size)]

gridfile_seek(g, offset) == [g EXCEPT !.pos = IF g.size < offset THEN g.size ELSE offset]

\* gridfile_write_file: the chunks one after the other; a missing one (0) ends in
\* the assertion of gridfile_get_chunk.
gridfile_write_file(g) ==
    LET n == gridfile_get_numchunks(g)
    IN IF 0..(n - 1) \subseteq DOMAIN g.chunks
       THEN FoldLeft(LAMBDA acc, i : acc \o g.chunks[i - 1], <<>>, [i \in 1..n |-> i])
       ELSE <<0>>

(***************************************************************************)
(* One file: written in one of the three ways, read in any way, removed.     *)
(***************************************************************************)

GridInit == grid = NoFile

StartWriter == grid.mode = "none" /\ grid' = [NoFile EXCEPT !.mode = "writing"]

WriteBuffer ==
    /\ grid.mode = "writing"
    /\ \E n \in 0..(MaxBytes - grid.given) : \E g \in gridfile_write_buffer(grid, n) : grid' = g

WriterDone == grid.mode = "writing" /\ \E g \in gridfile_writer_done(grid) : grid' = g

StoreWhole ==
    /\ grid.mode = "none"
    /\ \E n \in 0..MaxBytes :
        \E g \in gridfs_store_buffer(NoFile, n) \cup gridfs_store_file(NoFile, n) : grid' = g

ReadFile == grid.mode = "stored" /\ \E n \in 0..MaxBytes : grid' = gridfile_read(grid, n)

SeekFile == grid.mode = "stored" /\ \E o \in 0..(MaxBytes + 1) : grid' = gridfile_seek(grid, o)

gridfs_remove_filename == grid.mode = "stored" /\ grid' = NoFile

GridNext ==
    StartWriter \/ WriteBuffer \/ WriterDone \/ StoreWhole \/ ReadFile \/ SeekFile \/ gridfs_remove_filename

GridSpec == GridInit /\ [][GridNext]_grid

(***************************************************************************)
(* Properties.                                                               *)
(***************************************************************************)

\* Whatever the sizes of the writes, a stored file holds the bytes given, in
\* order, in chunks that are full but for the last, and its record has their
\* number.  Bytes are missing only where a write of a chunk or more found
\* nothing pending, and a chunk only where the database refused it.
StoredExact ==
    LET g == grid  n == gridfile_get_numchunks(g)
        last == IF n = 0 THEN 0 ELSE n - 1
    IN g.mode = "stored" =>
        /\ g.size = Len(Retained(g))
        /\ ~g.refused => /\ gridfile_write_file(g) = Retained(g)
                         /\ DOMAIN g.chunks \in {0..(n - 1), 0..last}
                         /\ \A i \in 0..(n - 2) : Len(g.chunks[i]) = ChunkSize

\* A read returns the bytes from the position on, as many as asked for and there
\* are, across chunks, at their borders, at the end and for nothing at all.
ReadExact ==
    grid.wrong => grid.refused

GridSound == StoredExact /\ ReadExact

=============================================================================
