----------------------------- MODULE TableStore -----------------------------
(***************************************************************************)
(* Saving tables into the database file (src/storage/table/storage.c) and  *)
(* reading their definitions back (src/parse/parser.c).                    *)
(*                                                                         *)
(* A definition is a sequence of values in the stream of a meta block      *)
(* writer, each with its width in bytes; a read of another width yields    *)
(* garbage.  A string is named by its length.  The rows of a column go to  *)
(* blocks of their own: one buffer per column, flushed when it is full,    *)
(* and a DataPointer for each flush.                                       *)
(*                                                                         *)
(* The callers of these functions are commented out at this commit         *)
(* (storage.c:783-883 and 977-1111): they are modelled from that text, as  *)
(* the use the live functions are written for.                             *)
(***************************************************************************)
EXTENDS Integers, Sequences, SequencesExt

CONSTANTS
    Tables,                     \* the tables (TableCatalogEntry) that may be saved
    BLOCK_SIZE,
    FILE_BUFFER_HEADER_SIZE,    \* the checksum in front of a block's data
    MetaRoom,                   \* bytes of a stream that stay inside one meta block
    MaxChunk,                   \* the rows of a full chunk
    MaxRows,                    \* bound: rows of one table
    MaxTables                   \* bound: tables of one checkpoint

(* fb->size                                                                *)
DataSize == BLOCK_SIZE - FILE_BUFFER_HEADER_SIZE

(* A full chunk of the widest type fits the data area, and blocks are a    *)
(* multiple of the widest type.                                            *)
ASSUME StoreAssumption ==
    /\ {BLOCK_SIZE, FILE_BUFFER_HEADER_SIZE, MetaRoom, MaxChunk, MaxRows, MaxTables} \subseteq Nat
    /\ FILE_BUFFER_HEADER_SIZE >= 8 /\ 8 * MaxChunk <= DataSize /\ BLOCK_SIZE % 8 = 0

(* SQLType; TINYINT .. DOUBLE are 1 .. 6.                                  *)
SQLT_VARCHAR == 7
SQLT_VECTOR  == 8
SQLType      == 1 .. SQLT_VECTOR

i16           == -32768 .. 32767
Column(types) == [name : Nat, type : types, dim : i16]

(* A table without a column has nothing to store and is left out.          *)
ASSUME TablesAssumption ==
    \A t \in Tables : /\ t.schema \in Nat /\ t.name \in Nat
                      /\ t.columns \in Seq(Column(SQLType)) \ {<<>>}

(* The internal types have the numbers of their SQL types; the others have *)
(* none (TYPE_INVALID = 0), and so the size 0.                             *)
get_internal_type(type) == IF type < SQLT_VARCHAR THEN type ELSE 0

get_typeid_size(id) == IF id = 0 THEN 0 ELSE <<1, 2, 4, 8, 4, 8>>[id]

Width(c) == get_typeid_size(get_internal_type(c.type))

(***************************************************************************)
(* The catalog stream                                                      *)
(***************************************************************************)

(* SERIALIZER_WRITE_*: one value of w bytes.                               *)
SERIALIZER_WRITE(w, v) == <<[w |-> w, v |-> v]>>
SERIALIZER_WRITE_STRING(s) == SERIALIZER_WRITE(8, s) \o SERIALIZER_WRITE(s, s)

(* Mutant: the dimension is written for every type.                        *)
ColumnItems_dim(c) ==
    SERIALIZER_WRITE_STRING(c.name) \o SERIALIZER_WRITE(1, c.type) \o SERIALIZER_WRITE(2, c.dim)

ColumnItems(c) ==
    SERIALIZER_WRITE_STRING(c.name) \o SERIALIZER_WRITE(1, c.type)
    \o IF c.type = SQLT_VECTOR THEN SERIALIZER_WRITE(2, c.dim) ELSE <<>>

TableItems(t) ==
    SERIALIZER_WRITE_STRING(t.schema) \o SERIALIZER_WRITE_STRING(t.name)
    \o SERIALIZER_WRITE(4, Len(t.columns))
    \o FlattenSeq([i \in DOMAIN t.columns |-> ColumnItems(t.columns[i])])

(* The definition, then where the table's data pointers are: the n-th list *)
(* of tabledata_writer (its block id and offset in the code).              *)
TableEntry(t, n) == TableItems(t) \o SERIALIZER_WRITE(8, n) \o SERIALIZER_WRITE(8, n)

Bytes(items) == FoldLeft(LAMBDA n, item : n + item.w, 0, items)

Garbage == -1

(* DESERIALIZER_READ_*: the value at position p, asked for as w bytes.     *)
DESERIALIZER_READ(s, p, w) ==
    IF p \in DOMAIN s /\ s[p].w = w THEN s[p].v ELSE Garbage

DESERIALIZER_READ_STRING(s, p) == DESERIALIZER_READ(s, p + 1, DESERIALIZER_READ(s, p, 8))

(* createTableInfo_deserialize: the definition at position p, and where it *)
(* ends.  A dimension that is not read stays uninitialized (Garbage).      *)
createTableInfo_deserialize(s, p) ==
    LET col_count == DESERIALIZER_READ(s, p + 4, 4)
        type(q)   == DESERIALIZER_READ(s, q + 2, 1)
        at[i \in 0 .. col_count] ==         \* where the i-th column starts
            IF i = 0 THEN p + 5
            ELSE at[i - 1] + IF type(at[i - 1]) = SQLT_VECTOR THEN 4 ELSE 3
        column(i, q) ==
            [name |-> DESERIALIZER_READ_STRING(s, q), oid |-> i, type |-> type(q),
             dim  |-> IF type(q) = SQLT_VECTOR THEN DESERIALIZER_READ(s, q + 3, 2) ELSE Garbage]
    IN  [end  |-> IF col_count >= 0 THEN at[col_count] ELSE p,
         info |-> [schema |-> DESERIALIZER_READ_STRING(s, p),
                   name |-> DESERIALIZER_READ_STRING(s, p + 2), if_not_exists |-> TRUE,
                   columns |-> [i \in 1 .. col_count |-> column(i - 1, at[i - 1])]]]

(***************************************************************************)
(* State                                                                   *)
(***************************************************************************)

VARIABLES
    pc,             \* the checkpoint's position in its code
    meta,           \* the stream of meta_block_writer
    tabledata,      \* the stream of tabledata_writer: a list of data pointers per column
    saved,          \* the tables saved and their rows, to compare with
    file, max_block,\* the data blocks written; the manager's next id
    col, chunk,     \* the column being written, the rows of the chunk
    writer,         \* TableDataWriter: per column its buffer and counters
    loaded, pos     \* the tables read back, the reader's position

vars == <<pc, meta, tabledata, saved, file, max_block, col, chunk, writer, loaded, pos>>
load == <<loaded, pos>>

Init ==
    /\ pc = "tables"
    /\ meta = <<>> /\ tabledata = <<>> /\ saved = <<>> /\ file = <<>> /\ max_block = 1
    /\ col = 0 /\ chunk = 0 /\ writer = <<>>
    /\ loaded = <<>> /\ pos = 1

table   == saved[Len(saved)].table
columns == table.columns
rows    == saved[Len(saved)].rows

(* Byte b of row r of the column being written; a byte never written.      *)
Byte(r, b) == <<Len(saved), col, r, b>>
Unwritten  == <<>>

(***************************************************************************)
(* checkpointManager_write_table                                           *)
(***************************************************************************)

(* What TableDataWriter_init and the first loop of write_data give a column. *)
TableDataWriter_init(t) ==
    [i \in DOMAIN t.columns |->
        [buffer |-> [b \in 0 .. BLOCK_SIZE - 1 |-> Unwritten], offset |-> 0,
         tuple_count |-> 0, row_number |-> 0, data_pointers |-> <<>>]]

(* The definition goes to the stream.  A value that crosses into another   *)
(* meta block never comes back from write_data (MetaBlock).                *)
checkpointManager_write_table(t) ==
    /\ pc = "tables" /\ Len(saved) < MaxTables
    /\ \/ /\ Bytes(meta \o TableEntry(t, Len(tabledata))) <= MetaRoom
          /\ meta' = meta \o TableEntry(t, Len(tabledata))
          /\ saved' = Append(saved, [table |-> t, rows |-> 0])
          /\ writer' = TableDataWriter_init(t)
          /\ pc' = "scan"
       \/ /\ Bytes(meta \o TableEntry(t, Len(tabledata))) > MetaRoom
          /\ pc' = "stuck"
          /\ UNCHANGED <<meta, saved, writer>>
    /\ UNCHANGED <<tabledata, file, max_block, col, chunk, load>>

(* datatable_scan fills a chunk with n rows; none ends the loop.           *)
datatable_scan(n) ==
    /\ pc = "scan" /\ rows + n <= MaxRows
    /\ chunk' = n /\ col' = 1
    /\ pc' = IF n = 0 THEN "last" ELSE "column"
    /\ UNCHANGED <<meta, tabledata, saved, file, max_block, writer, load>>

(* The data pointer of a flush of column w.                                *)
DataPointer(w) ==
    [row_start |-> w.row_number, block_id |-> max_block, tuple_count |-> w.tuple_count]

(* Mutants: the offset is not reset; the row number is not advanced.       *)
Flushed_offset(w) ==
    [w EXCEPT !.tuple_count = 0, !.row_number = @ + w.tuple_count,
              !.data_pointers = Append(@, DataPointer(w))]
Flushed_row(w) ==
    [w EXCEPT !.offset = 0, !.tuple_count = 0, !.data_pointers = Append(@, DataPointer(w))]

(* TableDataWriter_flush_block: column w after it.  The buffer is not      *)
(* cleared.                                                                *)
Flushed(w) ==
    [w EXCEPT !.offset = 0, !.tuple_count = 0, !.row_number = @ + w.tuple_count,
              !.data_pointers = Append(@, DataPointer(w))]

TableDataWriter_flush_block(w) ==
    IF w.tuple_count = 0
    THEN UNCHANGED <<file, max_block>>
    ELSE /\ file' = Append(file, [b \in 0 .. DataSize - 1 |-> w.buffer[b]])
         /\ max_block' = max_block + 1

AfterFlush(w) == IF w.tuple_count = 0 THEN w ELSE Flushed(w)

(* Mutant: the buffer is filled to its last byte.                          *)
Full_to_the_end(w, write_size) == w.offset + write_size > BLOCK_SIZE

(* The test of TableDataWriter_flush_if_full.                              *)
Full(w, write_size) == w.offset + write_size >= BLOCK_SIZE

TableDataWriter_flush_if_full(w, write_size) ==
    IF Full(w, write_size) THEN TableDataWriter_flush_block(w) ELSE UNCHANGED <<file, max_block>>

(* copy_to_storage: the chunk's rows, byte by byte, to the offset; what    *)
(* would land beyond the buffer is not followed.                           *)
copy_to_storage(buffer, offset, width) ==
    [b \in DOMAIN buffer |->
        IF offset <= b /\ b < offset + chunk * width
        THEN Byte(rows + (b - offset) \div width, (b - offset) % width)
        ELSE buffer[b]]

tableDataWriter_writecolumndata ==
    /\ pc = "column"
    /\ LET width == Width(columns[col])
           size  == width * chunk
           w     == IF Full(writer[col], size) THEN AfterFlush(writer[col]) ELSE writer[col]
       IN  /\ TableDataWriter_flush_if_full(writer[col], size)
           /\ writer' = [writer EXCEPT ![col] =
                            [w EXCEPT !.buffer = copy_to_storage(@, w.offset, width),
                                      !.offset = @ + size, !.tuple_count = @ + chunk]]
    /\ IF col < Len(columns)
       THEN col' = col + 1 /\ UNCHANGED <<pc, saved>>
       ELSE /\ saved' = [saved EXCEPT ![Len(saved)].rows = @ + chunk]
            /\ pc' = "scan" /\ UNCHANGED col
    /\ UNCHANGED <<meta, tabledata, chunk, load>>

(* tableDataWriter_write_data_pointers: each list with its length (8       *)
(* bytes), 44 bytes a pointer.                                             *)
PointerBytes(lists) == FoldLeft(LAMBDA n, ps : n + 8 + 44 * Len(ps), 0, lists)

(* The last flush of each column; then the data pointers are written and   *)
(* the writer is gone.                                                     *)
LastFlush ==
    /\ pc = "last"
    /\ TableDataWriter_flush_block(writer[col])
    /\ LET after == [writer EXCEPT ![col] = AfterFlush(writer[col])]
           td    == tabledata \o [i \in DOMAIN columns |-> after[i].data_pointers]
       IN  IF col < Len(columns)
           THEN /\ writer' = after /\ col' = col + 1
                /\ UNCHANGED <<pc, tabledata>>
           ELSE /\ tabledata' = td /\ writer' = <<>> /\ col' = 0
                /\ pc' = IF PointerBytes(td) <= MetaRoom THEN "tables" ELSE "stuck"
    /\ UNCHANGED <<meta, saved, chunk, load>>

(***************************************************************************)
(* Loading, and the specification                                          *)
(***************************************************************************)

(* The checkpoint ends; the file is opened again.                          *)
Reopen ==
    /\ pc = "tables" /\ saved # <<>> /\ pc' = "load"
    /\ UNCHANGED <<meta, tabledata, saved, file, max_block, col, chunk, writer, load>>

(* checkpointManager_read_table: the definition, where its data pointers   *)
(* are, and tableDataReader_read_data_pointers.                            *)
checkpointManager_read_table ==
    /\ pc = "load" /\ Len(loaded) < Len(saved)
    /\ LET d  == createTableInfo_deserialize(meta, pos)
           td == DESERIALIZER_READ(meta, d.end + 1, 8)
           ps == [i \in DOMAIN d.info.columns |->
                     IF td + i \in DOMAIN tabledata THEN tabledata[td + i] ELSE <<>>]
       IN  /\ loaded' = Append(loaded, [info |-> d.info, data_pointers |-> ps])
           /\ pos' = d.end + 2
    /\ UNCHANGED <<pc, meta, tabledata, saved, file, max_block, col, chunk, writer>>

(* write_data is spinning, or everything has been read back.               *)
Finished ==
    /\ pc = "stuck" \/ (pc = "load" /\ Len(loaded) = Len(saved))
    /\ UNCHANGED vars

Next ==
    \/ \E t \in Tables : checkpointManager_write_table(t)
    \/ \E n \in 0 .. MaxChunk : datatable_scan(n)
    \/ tableDataWriter_writecolumndata
    \/ LastFlush
    \/ Reopen
    \/ checkpointManager_read_table
    \/ Finished

Spec == Init /\ [][Next]_vars

(***************************************************************************)
(* Properties                                                              *)
(***************************************************************************)

(* Types; a column's write position stays inside its block's memory.       *)
TypeOK ==
    /\ pc \in {"tables", "scan", "column", "last", "load", "stuck"}
    /\ max_block = Len(file) + 1
    /\ Len(saved) \in 0 .. MaxTables /\ chunk \in 0 .. MaxChunk
    /\ \A i \in DOMAIN saved : saved[i].table \in Tables /\ saved[i].rows \in 0 .. MaxRows
    /\ \A i \in DOMAIN writer :
          /\ writer[i].offset \in 0 .. BLOCK_SIZE
          /\ {writer[i].tuple_count, writer[i].row_number} \subseteq 0 .. MaxRows

(* createTableInfo_deserialize reads back, table after table from one      *)
(* stream, what checkpointManager_write_table_catalog wrote: names, types, *)
(* the dimension of the vector columns, and columns numbered in order.     *)
CatalogRoundTrip ==
    \A k \in DOMAIN loaded :
        LET t == saved[k].table
            l == loaded[k].info
        IN  /\ l.schema = t.schema /\ l.name = t.name
            /\ Len(l.columns) = Len(t.columns)
            /\ \A i \in DOMAIN t.columns :
                  /\ l.columns[i].name = t.columns[i].name
                  /\ l.columns[i].type = t.columns[i].type
                  /\ l.columns[i].oid = i - 1
                  /\ t.columns[i].type = SQLT_VECTOR => l.columns[i].dim = t.columns[i].dim

(* Pointers ps cover the rows from 0 to n without gap or overlap.          *)
Tile(ps, n) ==
    LET ends == [i \in 0 .. Len(ps) |->
                    IF i = 0 THEN 0 ELSE ps[i].row_start + ps[i].tuple_count]
    IN  /\ \A i \in DOMAIN ps : ps[i].row_start = ends[i - 1] /\ ps[i].tuple_count > 0
        /\ ends[Len(ps)] = n

(* The data pointers of every column tile its rows: those flushed while    *)
(* the table is written, all of them once it is read back, whatever the    *)
(* chunks and the widths of the other columns were.                        *)
PointersTile ==
    /\ \A i \in DOMAIN writer : Tile(writer[i].data_pointers, writer[i].row_number)
    /\ \A k \in DOMAIN loaded : \A i \in DOMAIN saved[k].table.columns :
          Tile(loaded[k].data_pointers[i], saved[k].rows)

(* The block of pointer p holds the rows it names, of column i of the k-th *)
(* table and of width w, as far as they lie inside the data area.          *)
Holds(p, k, i, w) ==
    \A j \in 0 .. p.tuple_count - 1, b \in 0 .. w - 1 :
        j * w + b < DataSize =>
            file[p.block_id][j * w + b] = <<k, i, p.row_start + j, b>>

(* What a data pointer names is in its block, for the table being written  *)
(* and for every table read back: no block is given to two columns, no row *)
(* of an earlier block shows through the buffer that is used again, and no *)
(* table is given the pointers of another.                                 *)
RowsStored ==
    /\ \A i \in DOMAIN writer : \A p \in Range(writer[i].data_pointers) :
          Holds(p, Len(saved), i, Width(columns[i]))
    /\ \A k \in DOMAIN loaded : \A i \in DOMAIN saved[k].table.columns :
          \A p \in Range(loaded[k].data_pointers[i]) :
              Holds(p, k, i, Width(saved[k].table.columns[i]))

(* How far past the data area a column can be written: flush_if_full       *)
(* compares with BLOCK_SIZE and not with fb->size, so a column narrower    *)
(* than the block's header may lose header - width bytes, and an 8-byte    *)
(* column none.                                                            *)
OverrunBounded ==
    /\ TypeOK
    /\ \A i \in DOMAIN writer :
         writer[i].offset <= DataSize + FILE_BUFFER_HEADER_SIZE - Width(columns[i])
=============================================================================
