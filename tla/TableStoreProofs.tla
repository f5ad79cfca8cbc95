-------------------------- MODULE TableStoreProofs --------------------------
(***************************************************************************)
(* Proofs about TableStore, for any tables, chunks and sizes of a block:   *)
(* the data pointers of a column tile its rows, their blocks hold these    *)
(* rows, writes stay inside the block's memory, and definitions are read   *)
(* back as they were written.                                              *)
(***************************************************************************)
EXTENDS TableStore, SequenceTheorems, WellFoundedInduction, TLAPS

(* A set of numbers that is not empty has a least element.                 *)
LEMMA Least ==
    ASSUME NEW T, T \subseteq Nat, T # {}
    PROVE  \E n \in T : \A m \in T : n <= m
<1> DEFINE R == OpToRel(<, Nat)
<1>1. IsWellFoundedOn(R, Nat)
  BY NatLessThanWellFounded
<1>2. \A x, y \in Nat : <<x, y>> \in R <=> x < y
  BY DEF OpToRel
<1> HIDE DEF R
<1>3. PICK n \in T : \A y \in T : ~(<<y, n>> \in R)
  BY <1>1, WFMin
<1>4. ASSUME NEW m \in T PROVE n <= m
  <2>1. m \in Nat /\ n \in Nat /\ ~(m < n)
    BY <1>2, <1>3
  <2> QED
    BY <2>1, SMT
<1> QED
  BY <1>4

(* Induction up to a bound, for a set of numbers.                          *)
LEMMA UpTo ==
    ASSUME NEW N \in Nat, NEW G, 0 \in G,
           \A i \in 0 .. N : i # 0 /\ i - 1 \in G => i \in G
    PROVE  \A i \in 0 .. N : i \in G
<1> DEFINE T == {i \in 0 .. N : i \notin G}
<1>1. SUFFICES ASSUME T # {} PROVE FALSE
  OBVIOUS
<1>2. T \subseteq Nat
  BY SMT
<1>3. PICK n \in T : \A m \in T : n <= m
  <2> HIDE DEF T
  <2> QED
    BY <1>1, <1>2, Least
<1>4. n \in 0 .. N /\ n \notin G /\ n # 0
  OBVIOUS
<1>5. n - 1 \in 0 .. N /\ ~(n <= n - 1)
  BY <1>4, SMT
<1>6. n - 1 \in G
  BY <1>3, <1>5, Zenon
<1> QED
  BY <1>4, <1>6

(***************************************************************************)
(* One column: its writer, its pointers and their blocks                   *)
(***************************************************************************)

Cell    == {Unwritten} \cup (Nat \X Nat \X Nat \X Nat)
Buffer  == [0 .. BLOCK_SIZE - 1 -> Cell]
Block   == [0 .. DataSize - 1 -> Cell]
Pointer == [row_start : Nat, block_id : Nat, tuple_count : Nat]
Writer  == [buffer : Buffer, offset : Nat, tuple_count : Nat, row_number : Nat,
            data_pointers : Seq(Pointer)]

Widths == {0, 1, 2, 4, 8}

(* Pointer p names a block of the contents f that holds its rows.          *)
PointerOK(f, p, k, i, w) ==
    /\ p.block_id \in 1 .. Len(f)
    /\ \A j \in 0 .. p.tuple_count - 1, b \in 0 .. w - 1 :
          j * w + b < DataSize => f[p.block_id][j * w + b] = <<k, i, p.row_start + j, b>>

ListOK(f, ps, n, k, i, w) ==
    /\ ps \in Seq(Pointer) /\ Tile(ps, n)
    /\ \A q \in 1 .. Len(ps) : PointerOK(f, ps[q], k, i, w)

(* Column writer x has taken R rows of column i of table k, of width w.    *)
ColumnOK(f, x, R, k, i, w) ==
    /\ x \in Writer
    /\ x.offset = x.tuple_count * w /\ x.row_number + x.tuple_count = R
    /\ x.offset <= BLOCK_SIZE - w
    /\ \A j \in 0 .. x.tuple_count - 1, b \in 0 .. w - 1 :
          x.buffer[j * w + b] = <<k, i, x.row_number + j, b>>
    /\ ListOK(f, x.data_pointers, x.row_number, k, i, w)

LEMMA Sizes ==
    /\ BLOCK_SIZE \in Nat /\ FILE_BUFFER_HEADER_SIZE \in Nat /\ FILE_BUFFER_HEADER_SIZE >= 8
    /\ MaxChunk \in Nat /\ MaxRows \in Nat /\ MaxTables \in Nat
    /\ DataSize \in Nat /\ DataSize <= BLOCK_SIZE - 8
    /\ 8 * MaxChunk <= DataSize /\ BLOCK_SIZE % 8 = 0
BY StoreAssumption DEF DataSize

LEMMA WidthOf ==
    ASSUME NEW c, c.type \in SQLType
    PROVE  Width(c) \in Widths
<1>1. c.type \in 1 .. 8
  BY DEF SQLType, SQLT_VECTOR
<1>2. get_internal_type(c.type) \in 0 .. 6
  BY <1>1 DEF get_internal_type, SQLT_VARCHAR
<1> DEFINE d == get_internal_type(c.type)
<1> HIDE DEF d
<1>3. d = 0 \/ d = 1 \/ d = 2 \/ d = 3 \/ d = 4 \/ d = 5 \/ d = 6
  BY <1>2 DEF d
<1>4. get_typeid_size(d) \in Widths
  BY <1>3 DEF get_typeid_size, Widths
<1> QED
  BY <1>4 DEF Width, d

(* A file that grows keeps what its pointers name.                         *)
LEMMA PointersStay ==
    ASSUME NEW f \in Seq(Block), NEW z \in Block, NEW ps, NEW n, NEW k, NEW i, NEW w,
           ListOK(f, ps, n, k, i, w)
    PROVE  ListOK(Append(f, z), ps, n, k, i, w)
<1> DEFINE g == Append(f, z)
<1>1. Len(g) = Len(f) + 1 /\ Len(f) \in Nat /\ \A q \in 1 .. Len(f) : g[q] = f[q]
  BY AppendProperties
<1> HIDE DEF g
<1>2. ASSUME NEW q \in 1 .. Len(ps) PROVE PointerOK(g, ps[q], k, i, w)
  <2>1. PointerOK(f, ps[q], k, i, w)
    BY Zenon DEF ListOK
  <2>2. ps[q].block_id \in 1 .. Len(f)
    BY <2>1, Zenon DEF PointerOK
  <2>3. ps[q].block_id \in 1 .. Len(g) /\ g[ps[q].block_id] = f[ps[q].block_id]
    BY <1>1, <2>2
  <2> QED
    BY <2>1, <2>3, Zenon DEF PointerOK
<1> QED
  BY <1>2, Zenon DEF ListOK, g

LEMMA ColumnStays ==
    ASSUME NEW f \in Seq(Block), NEW z \in Block, NEW x, NEW R, NEW k, NEW i, NEW w,
           ColumnOK(f, x, R, k, i, w)
    PROVE  ColumnOK(Append(f, z), x, R, k, i, w)
<1>1. ListOK(f, x.data_pointers, x.row_number, k, i, w)
  BY Zenon DEF ColumnOK
<1>2. ListOK(Append(f, z), x.data_pointers, x.row_number, k, i, w)
  BY <1>1, PointersStay
<1> QED
  BY <1>2, Zenon DEF ColumnOK

(* The pointer after the last one continues the tiling.                    *)
LEMMA TileGrows ==
    ASSUME NEW ps \in Seq(Pointer), NEW n \in Nat, Tile(ps, n),
           NEW p \in Pointer, p.row_start = n, p.tuple_count > 0
    PROVE  Tile(Append(ps, p), n + p.tuple_count)
<1> DEFINE qs == Append(ps, p)
           E(s) == [j \in 0 .. Len(s) |-> IF j = 0 THEN 0 ELSE s[j].row_start + s[j].tuple_count]
<1>1. /\ qs \in Seq(Pointer) /\ Len(qs) = Len(ps) + 1 /\ Len(ps) \in Nat
      /\ qs[Len(ps) + 1] = p /\ \A q \in 1 .. Len(ps) : qs[q] = ps[q]
  BY AppendProperties
<1>2. DOMAIN ps = 1 .. Len(ps) /\ DOMAIN qs = 1 .. Len(qs)
  BY <1>1
<1> HIDE DEF qs
<1>3. \A q \in 1 .. Len(ps) : ps[q].row_start = E(ps)[q - 1] /\ ps[q].tuple_count > 0
  BY <1>2, Zenon DEF Tile
<1>4. E(ps)[Len(ps)] = n
  BY Zenon DEF Tile
<1>5. \A j \in 0 .. Len(ps) : E(qs)[j] = E(ps)[j]
  BY <1>1
<1>6. E(qs)[Len(qs)] = n + p.tuple_count
  BY <1>1
<1>7. ASSUME NEW q \in 1 .. Len(qs) PROVE qs[q].row_start = E(qs)[q - 1] /\ qs[q].tuple_count > 0
  <2>1. CASE q \in 1 .. Len(ps)
    <3>1. q - 1 \in 0 .. Len(ps)
      BY <1>1, <2>1
    <3>2. E(qs)[q - 1] = E(ps)[q - 1]
      BY <1>5, <3>1, Zenon
    <3> HIDE DEF E
    <3> QED
      BY <1>1, <1>3, <2>1, <3>2
  <2>2. CASE q = Len(ps) + 1
    <3>1. q - 1 = Len(ps) /\ Len(ps) \in 0 .. Len(ps)
      BY <1>1, <2>2
    <3>2. E(qs)[q - 1] = n
      BY <1>4, <1>5, <3>1, Zenon
    <3> HIDE DEF E
    <3> QED
      BY <1>1, <2>2, <3>2
  <2> QED
    BY <1>1, <2>1, <2>2
<1>8. Tile(qs, n + p.tuple_count)
  BY <1>2, <1>6, <1>7, Zenon DEF Tile
<1> QED
  BY <1>8 DEF qs

(* Byte positions, for each width.                                         *)
LEMMA PlaceInNat ==
    ASSUME NEW w \in Widths, NEW j \in Nat, NEW b \in Nat
    PROVE  j * w + b \in Nat
<1>1. CASE w = 0
  BY <1>1
<1>2. CASE w = 1
  BY <1>2
<1>3. CASE w = 2
  BY <1>3
<1>4. CASE w = 4
  BY <1>4
<1>5. CASE w = 8
  BY <1>5
<1> QED
  BY <1>1, <1>2, <1>3, <1>4, <1>5 DEF Widths

(* A place before the end of what is written is a place of the block.      *)
LEMMA PlaceInBlock ==
    ASSUME NEW P \in Nat, NEW F \in Nat, NEW M \in Nat, NEW w \in Nat \ {0}, NEW B \in Nat,
           P < F + M, F + M <= B - w
    PROVE  P \in 0 .. B - 1
OBVIOUS

LEMMA RowMoved ==
    ASSUME NEW r \in Nat, NEW n \in Nat, NEW j \in Nat
    PROVE  (r + n) + (j - n) = r + j
OBVIOUS

LEMMA PlaceBefore ==
    ASSUME NEW w \in Widths, NEW n \in Nat, NEW j \in 0 .. n - 1, NEW b \in 0 .. w - 1
    PROVE  j * w + b < n * w
<1>1. CASE w = 0
  BY <1>1
<1>2. CASE w = 1
  BY <1>2
<1>3. CASE w = 2
  BY <1>3
<1>4. CASE w = 4
  BY <1>4
<1>5. CASE w = 8
  BY <1>5
<1> QED
  BY <1>1, <1>2, <1>3, <1>4, <1>5 DEF Widths

(* The byte b of the j-th row written from row n on.                       *)
LEMMA PlaceAfter ==
    ASSUME NEW w \in Widths, NEW n \in Nat, NEW m \in Nat, NEW j \in n .. n + m - 1, NEW b \in 0 .. w - 1,
           NEW P, P = j * w + b, NEW F, F = n * w, NEW M, M = m * w
    PROVE  F <= P /\ P < F + M /\ (P - F) \div w = j - n /\ (P - F) % w = b
<1>1. CASE w = 0
  BY <1>1
<1>2. CASE w = 1
  BY <1>2
<1>3. CASE w = 2
  BY <1>3
<1>4. CASE w = 4
  BY <1>4
<1>5. CASE w = 8
  BY <1>5
<1> QED
  BY <1>1, <1>2, <1>3, <1>4, <1>5 DEF Widths

(* A column that is not full has room for the chunk, and for one more row. *)
LEMMA RoomLeft ==
    ASSUME NEW w \in Widths, NEW n \in Nat, NEW m \in Nat,
           n * w + w * m < BLOCK_SIZE
    PROVE  n * w + w * m <= BLOCK_SIZE - w
<1>1. PICK B \in Nat : BLOCK_SIZE = 8 * B
  BY Sizes
<1>2. CASE w = 0
  BY <1>1, <1>2
<1>3. CASE w = 1
  BY <1>1, <1>3
<1>4. CASE w = 2
  BY <1>1, <1>4
<1>5. CASE w = 4
  BY <1>1, <1>5
<1>6. CASE w = 8
  BY <1>1, <1>6
<1> QED
  BY <1>2, <1>3, <1>4, <1>5, <1>6 DEF Widths

(* A chunk fits an empty buffer.                                           *)
LEMMA RoomForChunk ==
    ASSUME NEW w \in Widths, NEW m \in 0 .. MaxChunk
    PROVE  w * m <= BLOCK_SIZE - w /\ w * m \in Nat /\ m * w = w * m
<1>0. MaxChunk \in Nat /\ BLOCK_SIZE \in Nat /\ 8 * MaxChunk <= BLOCK_SIZE - 8
  BY Sizes
<1>1. CASE w = 0
  BY <1>0, <1>1
<1>2. CASE w = 1
  BY <1>0, <1>2
<1>3. CASE w = 2
  BY <1>0, <1>3
<1>4. CASE w = 4
  BY <1>0, <1>4
<1>5. CASE w = 8
  BY <1>0, <1>5
<1> QED
  BY <1>1, <1>2, <1>3, <1>4, <1>5 DEF Widths

(* TableDataWriter_flush_block: the rows of the buffer are in the block,   *)
(* and the pointer names them.                                             *)
LEMMA FlushColumn ==
    ASSUME NEW f \in Seq(Block), max_block = Len(f) + 1,
           NEW x, NEW R \in Nat, NEW k, NEW i, NEW w \in Widths,
           ColumnOK(f, x, R, k, i, w), x.tuple_count > 0
    PROVE  /\ [b \in 0 .. DataSize - 1 |-> x.buffer[b]] \in Block
           /\ ColumnOK(Append(f, [b \in 0 .. DataSize - 1 |-> x.buffer[b]]), Flushed(x), R, k, i, w)
           /\ Flushed(x).tuple_count = 0 /\ Flushed(x).offset = 0
<1> DEFINE z == [b \in 0 .. DataSize - 1 |-> x.buffer[b]]
           g == Append(f, z)
           p == DataPointer(x)
           y == Flushed(x)
           n == x.tuple_count
           r == x.row_number
<1>1. /\ x \in Writer /\ x.offset = n * w /\ r + n = R
      /\ \A j \in 0 .. n - 1, b \in 0 .. w - 1 : x.buffer[j * w + b] = <<k, i, r + j, b>>
      /\ ListOK(f, x.data_pointers, r, k, i, w)
  BY Zenon DEF ColumnOK
<1>2. /\ x.buffer \in Buffer /\ n \in Nat /\ r \in Nat /\ x.data_pointers \in Seq(Pointer)
      /\ Len(f) \in Nat
  BY <1>1 DEF Writer
<1>3. z \in Block
  BY <1>2, Sizes DEF Buffer, Block
<1>4. /\ g \in Seq(Block) /\ Len(g) = Len(f) + 1 /\ g[Len(f) + 1] = z
  <2> HIDE DEF z
  <2> QED
    BY <1>3, AppendProperties
<1>5. /\ y = [x EXCEPT !.offset = 0, !.tuple_count = 0, !.row_number = r + n,
                       !.data_pointers = Append(x.data_pointers, p)]
  BY DEF Flushed
<1>6. p = [row_start |-> r, block_id |-> Len(f) + 1, tuple_count |-> n]
  BY DEF DataPointer
<1>7. p \in Pointer /\ p.row_start = r /\ p.block_id = Len(f) + 1 /\ p.tuple_count = n
  BY <1>2, <1>6 DEF Pointer
<1> HIDE DEF z, g, p, y, n, r
<1>8. PointerOK(g, p, k, i, w)
  <2>1. p.block_id \in 1 .. Len(g)
    BY <1>2, <1>4, <1>7
  <2>2. ASSUME NEW j \in 0 .. p.tuple_count - 1, NEW b \in 0 .. w - 1, j * w + b < DataSize
        PROVE  g[p.block_id][j * w + b] = <<k, i, p.row_start + j, b>>
    <3>1. j \in Nat /\ b \in Nat /\ j \in 0 .. n - 1
      BY <1>2, <1>7 DEF Widths
    <3>2. j * w + b \in Nat
      BY <3>1, PlaceInNat
    <3> DEFINE P == j * w + b
    <3>3. P \in 0 .. DataSize - 1
      <4>1. P \in Nat /\ P < DataSize
        BY <2>2, <3>2
      <4> HIDE DEF P
      <4> QED
        BY <4>1, Sizes
    <3>4. z[P] = x.buffer[P]
      BY <3>3, Zenon DEF z
    <3>5. x.buffer[P] = <<k, i, r + j, b>>
      BY <1>1, <3>1, Zenon
    <3>6. g[p.block_id] = z /\ p.row_start = r
      BY <1>4, <1>7
    <3> HIDE DEF P
    <3>7. g[p.block_id][P] = <<k, i, p.row_start + j, b>>
      BY <3>4, <3>5, <3>6, Zenon
    <3> QED
      BY <3>7, Zenon DEF P
  <2> QED
    BY <2>1, <2>2, Zenon DEF PointerOK
<1>9. ListOK(g, x.data_pointers, r, k, i, w)
  BY <1>1, <1>3, PointersStay DEF g
<1> DEFINE qs == Append(x.data_pointers, p)
<1>10. ListOK(g, qs, r + n, k, i, w)
  <2>1. /\ qs \in Seq(Pointer) /\ Len(qs) = Len(x.data_pointers) + 1
        /\ qs[Len(x.data_pointers) + 1] = p /\ Len(x.data_pointers) \in Nat
        /\ \A q \in 1 .. Len(x.data_pointers) : qs[q] = x.data_pointers[q]
    BY <1>2, <1>7, AppendProperties
  <2>2. Tile(qs, r + p.tuple_count)
    <3>1. Tile(x.data_pointers, r)
      BY <1>9, Zenon DEF ListOK
    <3>2. p.tuple_count > 0
      BY <1>7 DEF n
    <3> QED
      BY <1>2, <1>7, <3>1, <3>2, TileGrows
  <2> HIDE DEF qs
  <2>3. ASSUME NEW q \in 1 .. Len(qs) PROVE PointerOK(g, qs[q], k, i, w)
    <3>1. CASE q \in 1 .. Len(x.data_pointers)
      <4>1. PointerOK(g, x.data_pointers[q], k, i, w)
        BY <1>9, <3>1, Zenon DEF ListOK
      <4> QED
        BY <2>1, <3>1, <4>1
    <3>2. CASE q = Len(x.data_pointers) + 1
      BY <1>8, <2>1, <3>2
    <3> QED
      BY <2>1, <3>1, <3>2
  <2>4. Tile(qs, r + n)
    BY <1>7, <2>2
  <2> QED
    BY <2>1, <2>3, <2>4, Zenon DEF ListOK
<1>11. /\ y \in Writer /\ y.offset = 0 /\ y.tuple_count = 0 /\ y.row_number = r + n
       /\ y.data_pointers = qs /\ y.buffer = x.buffer
  <2>1. qs \in Seq(Pointer) /\ r + n \in Nat
    <3>1. qs \in Seq(Pointer)
      BY <1>10, Zenon DEF ListOK
    <3> QED
      BY <1>2, <3>1
  <2> HIDE DEF qs
  <2>2. y = [x EXCEPT !.offset = 0, !.tuple_count = 0, !.row_number = r + n, !.data_pointers = qs]
    BY <1>5 DEF qs
  <2> QED
    BY <1>1, <2>1, <2>2 DEF Writer
<1> HIDE DEF qs
<1>12. ColumnOK(g, y, R, k, i, w)
  <2>1. y.offset = y.tuple_count * w /\ y.row_number + y.tuple_count = R /\ y.offset <= BLOCK_SIZE - w
    <3>1. w \in Nat /\ w <= 8 /\ 0 * w = 0
      BY DEF Widths
    <3> QED
      BY <1>1, <1>2, <1>11, <3>1, Sizes
  <2>2. \A j \in 0 .. y.tuple_count - 1, b \in 0 .. w - 1 : FALSE
    BY <1>11
  <2> QED
    BY <1>10, <1>11, <2>1, <2>2, Zenon DEF ColumnOK
<1> QED
  BY <1>3, <1>11, <1>12, Zenon DEF z, g, y

(* copy_to_storage: the chunk's rows follow the rows in the buffer.        *)
LEMMA CopyColumn ==
    ASSUME NEW f, NEW x, NEW R \in Nat, NEW k \in Nat, NEW i \in Nat, NEW w \in Widths,
           ColumnOK(f, x, R, k, i, w), R = rows, k = Len(saved), i = col,
           chunk \in 0 .. MaxChunk, x.offset + w * chunk <= BLOCK_SIZE - w
    PROVE  ColumnOK(f, [x EXCEPT !.buffer = copy_to_storage(x.buffer, x.offset, w),
                                 !.offset = x.offset + w * chunk, !.tuple_count = x.tuple_count + chunk],
                    R + chunk, k, i, w)
<1> DEFINE n == x.tuple_count
           r == x.row_number
           m == chunk
           c == copy_to_storage(x.buffer, x.offset, w)
           y == [x EXCEPT !.buffer = c, !.offset = x.offset + w * m, !.tuple_count = n + m]
<1>1. /\ x \in Writer /\ x.offset = n * w /\ r + n = R
      /\ \A j \in 0 .. n - 1, b \in 0 .. w - 1 : x.buffer[j * w + b] = <<k, i, r + j, b>>
      /\ ListOK(f, x.data_pointers, r, k, i, w)
  BY Zenon DEF ColumnOK
<1>2. /\ x.buffer \in Buffer /\ n \in Nat /\ r \in Nat /\ x.offset \in Nat /\ m \in Nat
      /\ w \in Nat /\ BLOCK_SIZE \in Nat
  BY <1>1, Sizes DEF Writer, Widths
<1>3. w * m \in Nat /\ m * w = w * m
  BY RoomForChunk
<1>4. /\ DOMAIN c = 0 .. BLOCK_SIZE - 1
      /\ \A P \in 0 .. BLOCK_SIZE - 1 :
           c[P] = IF x.offset <= P /\ P < x.offset + m * w
                  THEN <<k, i, R + (P - x.offset) \div w, (P - x.offset) % w>> ELSE x.buffer[P]
  <2>1. DOMAIN x.buffer = 0 .. BLOCK_SIZE - 1
    BY <1>2 DEF Buffer
  <2> QED
    BY <2>1, Zenon DEF copy_to_storage, Byte
<1>5. c \in Buffer
  <2>1. ASSUME NEW P \in 0 .. BLOCK_SIZE - 1 PROVE c[P] \in Cell
    <3>1. CASE ~(x.offset <= P /\ P < x.offset + m * w)
      <4>1. c[P] = x.buffer[P]
        BY <1>4, <3>1, Zenon
      <4> QED
        BY <1>2, <4>1 DEF Buffer
    <3>2. CASE x.offset <= P /\ P < x.offset + m * w
      <4>1. c[P] = <<k, i, R + (P - x.offset) \div w, (P - x.offset) % w>>
        BY <1>4, <3>2, Zenon
      <4>2. w # 0
        <5>1. m * 0 = 0
          BY <1>2
        <5> QED
          BY <1>2, <3>2, <5>1
      <4>3. P - x.offset \in Nat
        BY <1>2, <3>2
      <4> DEFINE D == P - x.offset
      <4> HIDE DEF D
      <4>4. D \in Nat
        BY <4>3 DEF D
      <4>5. D \div w \in Nat /\ D % w \in Nat
        <5>1. CASE w = 1
          BY <4>4, <5>1
        <5>2. CASE w = 2
          BY <4>4, <5>2
        <5>3. CASE w = 4
          BY <4>4, <5>3
        <5>4. CASE w = 8
          BY <4>4, <5>4
        <5> QED
          BY <4>2, <5>1, <5>2, <5>3, <5>4 DEF Widths
      <4>6. c[P] = <<k, i, R + D \div w, D % w>>
        BY <4>1, Zenon DEF D
      <4>7. R + D \div w \in Nat
        BY <4>5
      <4>8. <<k, i, R + D \div w, D % w>> \in Nat \X Nat \X Nat \X Nat
        BY <4>5, <4>7
      <4> QED
        BY <4>6, <4>8 DEF Cell
    <3> QED
      BY <3>1, <3>2
  <2>2. c = [P \in 0 .. BLOCK_SIZE - 1 |-> c[P]]
    <3>1. c = [P \in DOMAIN c |-> c[P]]
      BY Zenon DEF copy_to_storage
    <3> QED
      BY <1>4, <3>1, Zenon
  <2> HIDE DEF c
  <2> QED
    BY <2>1, <2>2, Zenon DEF Buffer
<1> HIDE DEF c
<1>6. /\ y \in Writer /\ y.offset = x.offset + w * m /\ y.tuple_count = n + m /\ y.row_number = r
      /\ y.data_pointers = x.data_pointers /\ y.buffer = c
  <2>1. x.offset + w * m \in Nat /\ n + m \in Nat
    BY <1>2, <1>3
  <2> QED
    BY <1>1, <1>5, <2>1 DEF Writer
<1> HIDE DEF y, n, r, m
<1>7. y.offset = y.tuple_count * w
  <2>1. (n + m) * w = n * w + m * w
    <3>1. CASE w = 0
      BY <1>2, <3>1
    <3>2. CASE w = 1
      BY <1>2, <3>2
    <3>3. CASE w = 2
      BY <1>2, <3>3
    <3>4. CASE w = 4
      BY <1>2, <3>4
    <3>5. CASE w = 8
      BY <1>2, <3>5
    <3> QED
      BY <3>1, <3>2, <3>3, <3>4, <3>5 DEF Widths
  <2> QED
    BY <1>1, <1>3, <1>6, <2>1
<1>8. y.row_number + y.tuple_count = R + m /\ y.offset <= BLOCK_SIZE - w
  BY <1>1, <1>2, <1>6 DEF m
<1>9. ASSUME NEW j \in 0 .. (n + m) - 1, NEW b \in 0 .. w - 1 PROVE c[j * w + b] = <<k, i, r + j, b>>
  <2> DEFINE P == j * w + b
             F == n * w
             M == m * w
  <2>1. j \in Nat /\ b \in Nat
    BY <1>2
  <2>2. P \in Nat
    BY <2>1, PlaceInNat
  <2>3. F \in Nat /\ M \in Nat /\ F = x.offset /\ F + M <= BLOCK_SIZE - w
    BY <1>1, <1>2, <1>3 DEF m
  <2>4. CASE j < n
    <3>1. j \in 0 .. n - 1
      BY <1>2, <2>4
    <3>2. P < F
      BY <1>2, <3>1, PlaceBefore
    <3>3. x.buffer[P] = <<k, i, r + j, b>>
      BY <1>1, <3>1, Zenon
    <3> HIDE DEF P, F, M
    <3>4. P \in 0 .. BLOCK_SIZE - 1 /\ ~(x.offset <= P /\ P < x.offset + m * w)
      BY <1>2, <2>2, <2>3, <3>2
    <3>5. c[P] = x.buffer[P]
      BY <1>4, <3>4, Zenon DEF m
    <3>6. c[P] = <<k, i, r + j, b>>
      BY <3>3, <3>5
    <3> QED
      BY <3>6 DEF P
  <2>5. CASE ~(j < n)
    <3>1. j \in n .. n + m - 1
      BY <1>2, <2>5
    <3>2. F <= P /\ P < F + M /\ (P - F) \div w = j - n /\ (P - F) % w = b
      <4> HIDE DEF P, F, M
      <4>1. n \in Nat /\ m \in Nat /\ w \in Widths /\ j \in n .. n + m - 1 /\ b \in 0 .. w - 1
        BY <1>2, <3>1
      <4>2. P = j * w + b /\ F = n * w /\ M = m * w
        BY DEF P, F, M
      <4> QED
        BY <4>1, <4>2, PlaceAfter
    <3> HIDE DEF P, F, M
    <3>3. P \in 0 .. BLOCK_SIZE - 1 /\ x.offset <= P /\ P < x.offset + m * w
      <4>1. M = m * w
        BY DEF M
      <4>2. w \in Nat \ {0} /\ BLOCK_SIZE \in Nat
        BY <1>2, StoreAssumption DEF Widths
      <4>3. F + M <= BLOCK_SIZE - w /\ F \in Nat /\ M \in Nat
        BY <2>3, Zenon
      <4>4. F <= P /\ P < F + M
        BY <3>2, Zenon
      <4>5. P \in 0 .. BLOCK_SIZE - 1
        BY <2>2, <4>2, <4>3, <4>4, PlaceInBlock, Zenon
      <4> QED
        BY <2>3, <4>1, <4>4, <4>5, Zenon
    <3>4. c[P] = <<k, i, R + (P - F) \div w, (P - F) % w>>
      BY <1>4, <2>3, <3>3, Zenon DEF m
    <3>5. R + (j - n) = r + j
      <4>1. r + n = R
        BY <1>1, Zenon
      <4>2. r \in Nat /\ n \in Nat /\ j \in Nat
        BY <1>2, <2>1, Zenon
      <4>3. (r + n) + (j - n) = r + j
        BY <4>2, RowMoved, Zenon
      <4> QED
        BY <4>1, <4>3, Zenon
    <3>6. c[P] = <<k, i, r + j, b>>
      BY <3>2, <3>4, <3>5, Zenon
    <3> QED
      BY <3>6 DEF P
  <2> QED
    BY <2>4, <2>5
<1>10. \A j \in 0 .. y.tuple_count - 1, b \in 0 .. w - 1 : y.buffer[j * w + b] = <<k, i, y.row_number + j, b>>
  BY <1>6, <1>9, Zenon
<1>11. ColumnOK(f, y, R + m, k, i, w)
  BY <1>1, <1>6, <1>7, <1>8, <1>10, Zenon DEF ColumnOK
<1> QED
  BY <1>11, Zenon DEF y, m, c, n

(***************************************************************************)
(* The inductive invariant                                                 *)
(***************************************************************************)

Item    == [w : Nat, v : Int]
Saved   == [table : Tables, rows : 0 .. MaxRows]
Writing == {"scan", "column", "last"}

Base ==
    /\ pc \in {"tables", "scan", "column", "last", "load", "stuck"}
    /\ saved \in Seq(Saved) /\ Len(saved) <= MaxTables
    /\ chunk \in 0 .. MaxChunk
    /\ file \in Seq(Block) /\ max_block = Len(file) + 1

(* The rows that the writer of column i has taken: those of the chunk too, *)
(* if the loop has passed it.                                              *)
Taken(i) == rows + (IF pc = "column" /\ i < col THEN chunk ELSE 0)

Columns ==
    /\ Len(saved) >= 1
    /\ DOMAIN writer = 1 .. Len(columns)
    /\ \A i \in 1 .. Len(columns) :
          ColumnOK(file, writer[i], Taken(i), Len(saved), i, Width(columns[i]))

WriterInv ==
    /\ pc \notin Writing => writer = <<>>
    /\ pc \in Writing => Columns
    /\ pc \in {"column", "last"} => col \in 1 .. Len(columns)
    /\ pc = "column" => rows + chunk <= MaxRows
    /\ pc = "last" => \A i \in 1 .. col - 1 : writer[i].tuple_count = 0

(* The tables whose data pointers are in the stream.                       *)
Done == IF pc \in Writing THEN Len(saved) - 1 ELSE Len(saved)

(* The entry of the k-th table starts at st[k] and names the data pointers *)
(* after base[k].                                                          *)
EntryAt(st, base, k) ==
    LET e == TableEntry(saved[k].table, base[k])
    IN  /\ st[k + 1] = st[k] + Len(e) /\ st[k + 1] <= Len(meta) + 1
        /\ \A q \in 1 .. Len(e) : meta[st[k] + q - 1] = e[q]

(* The lists of the k-th table are in place.                               *)
ListsAt(base, k) ==
    \A i \in 1 .. Len(saved[k].table.columns) :
        /\ base[k] + i \in 1 .. Len(tabledata)
        /\ ListOK(file, tabledata[base[k] + i], saved[k].rows, k, i,
                  Width(saved[k].table.columns[i]))

Layout(st, base) ==
    /\ st \in [1 .. Len(saved) + 1 -> Nat \ {0}] /\ base \in [1 .. Len(saved) -> Nat]
    /\ st[1] = 1 /\ st[Len(saved) + 1] = Len(meta) + 1
    /\ \A k \in 1 .. Len(saved) : EntryAt(st, base, k)
    /\ \A k \in 1 .. Done : ListsAt(base, k)
    /\ pc \in Writing => base[Len(saved)] = Len(tabledata)
    /\ pos = st[Len(loaded) + 1]

(* What has been read back of the k-th table.                              *)
ReadBack(k) ==
    LET t == saved[k].table
        l == loaded[k].info
    IN  /\ l.schema = t.schema /\ l.name = t.name
        /\ Len(l.columns) = Len(t.columns)
        /\ \A i \in 1 .. Len(t.columns) :
              /\ l.columns[i].name = t.columns[i].name
              /\ l.columns[i].type = t.columns[i].type
              /\ l.columns[i].oid = i - 1
              /\ t.columns[i].type = SQLT_VECTOR => l.columns[i].dim = t.columns[i].dim
              /\ ListOK(file, loaded[k].data_pointers[i], saved[k].rows, k, i, Width(t.columns[i]))

StreamInv ==
    /\ meta \in Seq(Item) /\ tabledata \in Seq(Seq(Pointer))
    /\ \E st, base : Layout(st, base)
    /\ pc # "load" => loaded = <<>>
    /\ Len(loaded) \in 0 .. Len(saved) /\ \E S : loaded \in Seq(S)
    /\ \A k \in 1 .. Len(loaded) : ReadBack(k)

StoreInv == Base /\ WriterInv /\ StreamInv

(***************************************************************************)
(* Writing a column                                                        *)
(***************************************************************************)

Grows == file' = file \/ \E z \in Block : file' = Append(file, z)

LEMMA FileGrows ==
    ASSUME Base, Grows
    PROVE  /\ file' \in Seq(Block)
           /\ \A ps, n, k, i, w : ListOK(file, ps, n, k, i, w) => ListOK(file', ps, n, k, i, w)
           /\ \A x, n, k, i, w : ColumnOK(file, x, n, k, i, w) => ColumnOK(file', x, n, k, i, w)
<1>1. file \in Seq(Block)
  BY DEF Base
<1>2. CASE file' = file
  BY <1>1, <1>2, Zenon
<1>3. CASE \E z \in Block : file' = Append(file, z)
  <2>1. PICK z \in Block : file' = Append(file, z)
    BY <1>3
  <2>2. Append(file, z) \in Seq(Block)
    BY <1>1, AppendProperties
  <2> QED
    BY <1>1, <2>1, <2>2, PointersStay, ColumnStays, Zenon
<1> QED
  BY <1>2, <1>3 DEF Grows

LEMMA FlushEffect ==
    ASSUME Base, NEW x, NEW R \in Nat, NEW k, NEW i, NEW w \in Widths,
           ColumnOK(file, x, R, k, i, w), TableDataWriter_flush_block(x)
    PROVE  /\ Grows /\ max_block' = Len(file') + 1
           /\ ColumnOK(file', AfterFlush(x), R, k, i, w)
           /\ AfterFlush(x).tuple_count = 0 /\ AfterFlush(x).offset = 0
<1>1. file \in Seq(Block) /\ max_block = Len(file) + 1
  BY DEF Base
<1>2. CASE x.tuple_count = 0
  <2>1. file' = file /\ max_block' = max_block /\ AfterFlush(x) = x
    BY <1>2 DEF TableDataWriter_flush_block, AfterFlush
  <2>2. x.offset = 0 * w
    BY <1>2 DEF ColumnOK
  <2>3. x.offset = 0
    BY <2>2 DEF Widths
  <2> QED
    BY <1>1, <1>2, <2>1, <2>3, Zenon DEF Grows
<1>3. CASE x.tuple_count # 0
  <2> DEFINE z == [b \in 0 .. DataSize - 1 |-> x.buffer[b]]
  <2>1. file' = Append(file, z) /\ max_block' = max_block + 1 /\ AfterFlush(x) = Flushed(x)
    BY <1>3, Zenon DEF TableDataWriter_flush_block, AfterFlush
  <2>2. x.tuple_count > 0
    BY <1>3 DEF ColumnOK, Writer
  <2>3. /\ z \in Block /\ ColumnOK(Append(file, z), Flushed(x), R, k, i, w)
        /\ Flushed(x).tuple_count = 0 /\ Flushed(x).offset = 0
    BY <1>1, <2>2, FlushColumn, Zenon
  <2> HIDE DEF z
  <2>4. Len(file') = Len(file) + 1 /\ Len(file) \in Nat
    BY <1>1, <2>1, <2>3, AppendProperties
  <2>5. max_block' = Len(file') + 1
    BY <1>1, <2>1, <2>4
  <2>6. Grows
    BY <2>1, <2>3, Zenon DEF Grows
  <2> QED
    BY <2>1, <2>3, <2>5, <2>6, Zenon
<1> QED
  BY <1>2, <1>3

LEMMA ColumnFields ==
    \A c \in Column(SQLType) : c.type \in SQLType /\ c.name \in Nat /\ c.dim \in i16
<1> DEFINE T == SQLType
<1> HIDE DEF T
<1>1. \A c \in Column(T) : c.type \in T /\ c.name \in Nat /\ c.dim \in i16
  BY DEF Column
<1> QED
  BY <1>1, Zenon DEF T

(* The table being written, its columns and their widths.                  *)
LEMMA TableBeingWritten ==
    ASSUME Base, Len(saved) >= 1
    PROVE  /\ Len(saved) \in 1 .. Len(saved) /\ saved[Len(saved)] \in Saved
           /\ table \in Tables /\ rows \in 0 .. MaxRows
           /\ columns \in Seq(Column(SQLType)) /\ Len(columns) \in Nat \ {0}
           /\ DOMAIN columns = 1 .. Len(columns)
           /\ \A i \in 1 .. Len(columns) : Width(columns[i]) \in Widths
<1>1. Len(saved) \in 1 .. Len(saved) /\ saved[Len(saved)] \in Saved
  BY DEF Base
<1>2. table \in Tables /\ rows \in 0 .. MaxRows
  BY <1>1 DEF table, rows, Saved
<1>3. columns \in Seq(Column(SQLType)) /\ columns # <<>>
  BY <1>2, TablesAssumption DEF columns
<1>4. Len(columns) \in Nat \ {0} /\ DOMAIN columns = 1 .. Len(columns)
  BY <1>3, EmptySeq
<1>5. ASSUME NEW i \in 1 .. Len(columns) PROVE Width(columns[i]) \in Widths
  <2>1. columns[i] \in Column(SQLType)
    BY <1>3
  <2>2. columns[i].type \in SQLType
    BY <2>1, ColumnFields, Zenon
  <2> QED
    BY <2>2, WidthOf
<1> QED
  BY <1>1, <1>2, <1>3, <1>4, <1>5, Zenon

(* tableDataWriter_writecolumndata: what becomes of the column.            *)
LEMMA ColumnWritten ==
    ASSUME Base, WriterInv, tableDataWriter_writecolumndata
    PROVE  /\ Grows /\ max_block' = Len(file') + 1
           /\ DOMAIN writer' = DOMAIN writer
           /\ \A i \in 1 .. Len(columns) : i # col => writer'[i] = writer[i]
           /\ ColumnOK(file', writer'[col], rows + chunk, Len(saved), col, Width(columns[col]))
<1> DEFINE w == Width(columns[col])
           x == writer[col]
           size == w * chunk
           y == IF Full(x, size) THEN AfterFlush(x) ELSE x
           k == Len(saved)
           c == copy_to_storage(y.buffer, y.offset, w)
           z == [y EXCEPT !.buffer = c, !.offset = y.offset + size, !.tuple_count = y.tuple_count + chunk]
<1>1. pc = "column" /\ Columns /\ col \in 1 .. Len(columns) /\ chunk \in 0 .. MaxChunk
  BY DEF tableDataWriter_writecolumndata, WriterInv, Writing, Base
<1>2. Len(saved) >= 1 /\ DOMAIN writer = 1 .. Len(columns)
  BY <1>1 DEF Columns
<1>3. w \in Widths /\ k \in Nat /\ rows \in Nat /\ col \in Nat /\ chunk \in Nat
  BY <1>1, <1>2, TableBeingWritten, Sizes
<1>4. Taken(col) = rows
  BY <1>1, <1>3 DEF Taken
<1>5. ColumnOK(file, x, rows, k, col, w)
  BY <1>1, <1>4, Zenon DEF Columns
<1>6. /\ TableDataWriter_flush_if_full(x, size)
      /\ writer' = [writer EXCEPT ![col] = z]
  BY Zenon DEF tableDataWriter_writecolumndata
<1> HIDE DEF w, x, k
<1>7. /\ Grows /\ max_block' = Len(file') + 1
      /\ ColumnOK(file', y, rows, k, col, w) /\ y.offset + size <= BLOCK_SIZE - w
  <2>1. CASE Full(x, size)
    <3>1. TableDataWriter_flush_block(x) /\ y = AfterFlush(x)
      BY <1>6, <2>1 DEF TableDataWriter_flush_if_full
    <3>2. /\ Grows /\ max_block' = Len(file') + 1 /\ ColumnOK(file', y, rows, k, col, w)
          /\ y.offset = 0
      BY <1>3, <1>5, <3>1, FlushEffect, Zenon
    <3> HIDE DEF y
    <3>3. y.offset + size <= BLOCK_SIZE - w
      BY <1>1, <1>3, <3>2, RoomForChunk
    <3> QED
      BY <3>2, <3>3
  <2>2. CASE ~Full(x, size)
    <3>1. UNCHANGED <<file, max_block>> /\ y = x
      BY <1>6, <2>2 DEF TableDataWriter_flush_if_full
    <3>2. x.tuple_count \in Nat /\ x.offset = x.tuple_count * w
      BY <1>5 DEF ColumnOK, Writer
    <3>3. x.tuple_count * w + w * chunk < BLOCK_SIZE
      <4>1. ~(x.tuple_count * w + w * chunk >= BLOCK_SIZE)
        BY <2>2, <3>2, Zenon DEF Full
      <4>2. x.tuple_count * w \in Nat /\ w * chunk \in Nat
        BY <1>3, <3>2 DEF Widths
      <4> QED
        BY <4>1, <4>2, Sizes
    <3>4. x.tuple_count * w + w * chunk <= BLOCK_SIZE - w
      BY <1>3, <3>2, <3>3, RoomLeft, Zenon
    <3> HIDE DEF y
    <3>5. y.offset + size <= BLOCK_SIZE - w
      BY <3>1, <3>2, <3>4, Zenon
    <3>6. Grows /\ max_block' = Len(file') + 1 /\ ColumnOK(file', y, rows, k, col, w)
      BY <1>5, <3>1, Zenon DEF Grows, Base
    <3> QED
      BY <3>5, <3>6
  <2> QED
    BY <2>1, <2>2
<1> HIDE DEF y
<1>8. k = Len(saved)
  BY DEF k
<1>9. ColumnOK(file', z, rows + chunk, k, col, w)
  BY <1>1, <1>3, <1>7, <1>8, CopyColumn, Zenon
<1> HIDE DEF z
<1>10. writer'[col] = z /\ DOMAIN writer' = DOMAIN writer
  BY <1>1, <1>2, <1>6
<1>11. \A i \in 1 .. Len(columns) : i # col => writer'[i] = writer[i]
  BY <1>1, <1>2, <1>6
<1> QED
  BY <1>7, <1>9, <1>10, <1>11, Zenon DEF k, w

(***************************************************************************)
(* The steps and the writer                                                *)
(***************************************************************************)

(* A column before its first row.                                          *)
LEMMA NewColumn ==
    ASSUME NEW f, NEW k, NEW i, NEW w \in Widths
    PROVE  ColumnOK(f, [buffer |-> [b \in 0 .. BLOCK_SIZE - 1 |-> Unwritten], offset |-> 0,
                        tuple_count |-> 0, row_number |-> 0, data_pointers |-> <<>>], 0, k, i, w)
<1> DEFINE B == [b \in 0 .. BLOCK_SIZE - 1 |-> Unwritten]
           x == [buffer |-> B, offset |-> 0, tuple_count |-> 0, row_number |-> 0,
                 data_pointers |-> <<>>]
<1>1. B \in Buffer
  BY DEF Buffer, Cell
<1> HIDE DEF B
<1>2. <<>> \in Seq(Pointer) /\ Len(<<>>) = 0
  BY EmptySeq
<1>3. x \in Writer
  BY <1>1, <1>2 DEF Writer
<1>4. Tile(<<>>, 0)
  BY DEF Tile
<1>5. ListOK(f, <<>>, 0, k, i, w)
  BY <1>2, <1>4 DEF ListOK
<1>6. 0 = 0 * w /\ 0 <= BLOCK_SIZE - w
  BY Sizes DEF Widths
<1>7. 0 .. 0 - 1 = {}
  OBVIOUS
<1>8. x.offset = 0 /\ x.tuple_count = 0 /\ x.row_number = 0 /\ x.data_pointers = <<>>
  OBVIOUS
<1> HIDE DEF x
<1>9. x.row_number + x.tuple_count = 0
  BY <1>8
<1>10. ColumnOK(f, x, 0, k, i, w)
  BY <1>3, <1>5, <1>6, <1>7, <1>8, <1>9, Zenon DEF ColumnOK
<1> QED
  BY <1>10 DEF x, B

(* What a step that only moves in the code keeps.                          *)
LEMMA BaseStays ==
    ASSUME Base, UNCHANGED <<saved, file, max_block>>, chunk' \in 0 .. MaxChunk,
           pc' \in {"tables", "scan", "column", "last", "load", "stuck"}
    PROVE  Base'
BY DEF Base

LEMMA WriteTableKeeps ==
    ASSUME Base, WriterInv, NEW t \in Tables, checkpointManager_write_table(t)
    PROVE  Base' /\ WriterInv'
<1>1. /\ pc = "tables" /\ Len(saved) < MaxTables
      /\ UNCHANGED <<tabledata, file, max_block, col, chunk>>
  BY DEF checkpointManager_write_table
<1>2. CASE pc' = "stuck" /\ UNCHANGED <<meta, saved, writer>>
  <2>1. Base'
    BY <1>1, <1>2, BaseStays DEF Base
  <2>2. WriterInv'
    BY <1>1, <1>2 DEF WriterInv, Writing
  <2> QED
    BY <2>1, <2>2
<1>3. CASE /\ saved' = Append(saved, [table |-> t, rows |-> 0])
           /\ writer' = TableDataWriter_init(t) /\ pc' = "scan"
  <2> DEFINE e == [table |-> t, rows |-> 0]
             n == Len(saved)
  <2>1. e \in Saved
    BY Sizes DEF Saved
  <2>2. saved \in Seq(Saved) /\ n \in Nat
    BY DEF Base
  <2>3. saved' \in Seq(Saved) /\ Len(saved') = n + 1 /\ saved'[n + 1] = e
    BY <1>3, <2>1, <2>2, AppendProperties
  <2>4. Len(saved') <= MaxTables
    BY <1>1, <2>2, <2>3, Sizes
  <2>5. Base'
    BY <1>1, <1>3, <2>3, <2>4 DEF Base
  <2>6. columns' = t.columns /\ rows' = 0
    BY <2>3 DEF columns, table, rows
  <2>7. Len(saved') >= 1
    BY <2>2, <2>3
  <2>8. /\ t.columns \in Seq(Column(SQLType)) /\ DOMAIN t.columns = 1 .. Len(t.columns)
        /\ \A i \in 1 .. Len(t.columns) : Width(t.columns[i]) \in Widths
    <3>1. t.columns \in Seq(Column(SQLType))
      BY TablesAssumption
    <3>2. ASSUME NEW i \in 1 .. Len(t.columns) PROVE Width(t.columns[i]) \in Widths
      <4>1. t.columns[i] \in Column(SQLType)
        BY <3>1
      <4> QED
        BY <4>1, ColumnFields, WidthOf, Zenon
    <3> QED
      BY <3>1, <3>2
  <2>9. DOMAIN writer' = 1 .. Len(columns')
    BY <1>3, <2>6, <2>8, Zenon DEF TableDataWriter_init
  <2>10. ASSUME NEW i \in 1 .. Len(t.columns)
         PROVE  ColumnOK(file', writer'[i], Taken(i)', Len(saved'), i, Width(t.columns[i]))
    <3>1. Taken(i)' = 0
      BY <1>3, <2>6 DEF Taken
    <3>2. writer'[i] = [buffer |-> [b \in 0 .. BLOCK_SIZE - 1 |-> Unwritten], offset |-> 0,
                        tuple_count |-> 0, row_number |-> 0, data_pointers |-> <<>>]
      BY <1>3, <2>8, Zenon DEF TableDataWriter_init
    <3> QED
      BY <2>8, <3>1, <3>2, NewColumn, Zenon
  <2>11. Columns'
    BY <2>6, <2>7, <2>9, <2>10, Zenon DEF Columns
  <2>12. WriterInv'
    BY <1>3, <2>11 DEF WriterInv, Writing
  <2> QED
    BY <2>5, <2>12
<1> QED
  BY <1>2, <1>3, Zenon DEF checkpointManager_write_table

LEMMA ScanKeeps ==
    ASSUME Base, WriterInv, NEW n \in 0 .. MaxChunk, datatable_scan(n)
    PROVE  Base' /\ WriterInv'
<1>1. /\ pc = "scan" /\ rows + n <= MaxRows /\ chunk' = n /\ col' = 1
      /\ pc' = (IF n = 0 THEN "last" ELSE "column")
      /\ UNCHANGED <<saved, file, max_block, writer>>
  BY DEF datatable_scan
<1>2. Columns /\ Len(saved) >= 1
  BY <1>1 DEF WriterInv, Writing, Columns
<1>3. Len(columns) \in Nat \ {0} /\ rows \in 0 .. MaxRows
  BY <1>2, TableBeingWritten
<1>4. columns' = columns /\ rows' = rows
  BY <1>1 DEF columns, table, rows
<1>5. Base'
  BY <1>1, BaseStays, Sizes
<1>6. \A i \in 1 .. Len(columns) : Taken(i)' = Taken(i)
  <2>1. \A i \in 1 .. Len(columns) : ~(i < 1)
    BY <1>3
  <2> QED
    BY <1>1, <1>4, <2>1 DEF Taken
<1>7. Columns'
  BY <1>1, <1>2, <1>4, <1>6, Zenon DEF Columns
<1>8. col' \in 1 .. Len(columns') /\ 1 .. col' - 1 = {}
  BY <1>1, <1>3, <1>4
<1>9. rows' + chunk' <= MaxRows
  BY <1>1, <1>4
<1>10. pc' \in Writing
  BY <1>1 DEF Writing
<1> QED
  BY <1>5, <1>7, <1>8, <1>9, <1>10 DEF WriterInv

LEMMA WriteColumnKeeps ==
    ASSUME Base, WriterInv, tableDataWriter_writecolumndata
    PROVE  Base' /\ WriterInv'
<1> DEFINE k == Len(saved)
           N == Len(columns)
<1>1. /\ pc = "column" /\ Columns /\ col \in 1 .. N /\ chunk \in 0 .. MaxChunk /\ chunk' = chunk
      /\ rows + chunk <= MaxRows /\ saved \in Seq(Saved) /\ k <= MaxTables
  BY DEF tableDataWriter_writecolumndata, WriterInv, Writing, Base
<1>2. k >= 1 /\ DOMAIN writer = 1 .. N
  BY <1>1 DEF Columns
<1>3. /\ k \in 1 .. k /\ saved[k] \in Saved /\ rows \in 0 .. MaxRows /\ N \in Nat \ {0}
      /\ col \in Nat /\ chunk \in Nat
  BY <1>1, <1>2, TableBeingWritten, Sizes
<1>4. /\ Grows /\ max_block' = Len(file') + 1 /\ DOMAIN writer' = 1 .. N
      /\ \A i \in 1 .. N : i # col => writer'[i] = writer[i]
      /\ ColumnOK(file', writer'[col], rows + chunk, k, col, Width(columns[col]))
  BY <1>2, ColumnWritten, Zenon
<1>5. file' \in Seq(Block)
  BY <1>4, FileGrows, Zenon
<1>6. \A i \in 1 .. N : i # col =>
         ColumnOK(file', writer'[i], Taken(i), k, i, Width(columns[i]))
  <2>1. \A i \in 1 .. N : ColumnOK(file, writer[i], Taken(i), k, i, Width(columns[i]))
    BY <1>1, Zenon DEF Columns
  <2> QED
    BY <1>4, <2>1, FileGrows, Zenon
<1>7. CASE col < N
  <2>1. col' = col + 1 /\ pc' = pc /\ saved' = saved
    BY <1>7 DEF tableDataWriter_writecolumndata
  <2>2. columns' = columns /\ rows' = rows
    BY <2>1 DEF columns, table, rows
  <2>3. Base'
    BY <1>1, <1>4, <1>5, <2>1 DEF Base
  <2>4. ASSUME NEW i \in 1 .. N
        PROVE  ColumnOK(file', writer'[i], Taken(i)', k, i, Width(columns[i]))
    <3>1. CASE i = col
      <4>1. Taken(i)' = rows + chunk
        BY <1>1, <1>3, <2>1, <2>2, <3>1 DEF Taken
      <4> QED
        BY <1>4, <3>1, <4>1, Zenon
    <3>2. CASE i # col
      <4>1. i < col' <=> i < col
        BY <1>3, <2>1, <3>2
      <4>2. Taken(i)' = Taken(i)
        BY <1>1, <2>1, <2>2, <4>1 DEF Taken
      <4> QED
        BY <1>6, <3>2, <4>2, Zenon
    <3> QED
      BY <3>1, <3>2
  <2>5. Columns'
    BY <1>2, <1>4, <2>1, <2>2, <2>4, Zenon DEF Columns
  <2>6. col' \in 1 .. Len(columns')
    BY <1>3, <1>7, <2>1, <2>2
  <2>7. WriterInv'
    BY <1>1, <2>1, <2>2, <2>5, <2>6 DEF WriterInv, Writing
  <2> QED
    BY <2>3, <2>7
<1>8. CASE ~(col < N)
  <2>1. saved' = [saved EXCEPT ![k].rows = @ + chunk] /\ pc' = "scan"
    BY <1>8 DEF tableDataWriter_writecolumndata
  <2>2. col = N
    BY <1>1, <1>3, <1>8
  <2>3. saved[k].rows = rows
    BY DEF rows
  <2>4. rows + chunk \in 0 .. MaxRows
    BY <1>1, <1>3, Sizes
  <2>5. saved' \in Seq(Saved) /\ Len(saved') = k
    <3>1. [saved[k] EXCEPT !.rows = @ + chunk] \in Saved
      BY <1>3, <2>3, <2>4 DEF Saved
    <3> QED
      BY <1>1, <1>3, <2>1, <3>1
  <2>6. saved'[k] = [saved[k] EXCEPT !.rows = @ + chunk]
    BY <1>1, <1>3, <2>1
  <2>7. saved'[k].table = saved[k].table /\ saved'[k].rows = rows + chunk
    BY <1>3, <2>3, <2>6 DEF Saved
  <2>8. columns' = columns /\ rows' = rows + chunk
    BY <2>5, <2>7 DEF columns, table, rows
  <2>9. Base'
    BY <1>1, <1>4, <1>5, <2>1, <2>5 DEF Base
  <2>10. ASSUME NEW i \in 1 .. N
         PROVE  ColumnOK(file', writer'[i], Taken(i)', k, i, Width(columns[i]))
    <3>1. Taken(i)' = rows + chunk
      BY <1>3, <2>1, <2>4, <2>8 DEF Taken
    <3>2. CASE i = col
      BY <1>4, <3>1, <3>2, Zenon
    <3>3. CASE i # col
      <4>1. i < col
        BY <1>3, <2>2, <3>3
      <4>2. Taken(i) = rows + chunk
        BY <1>1, <4>1 DEF Taken
      <4> QED
        BY <1>6, <3>1, <3>3, <4>2, Zenon
    <3> QED
      BY <3>2, <3>3
  <2>11. Columns'
    BY <1>2, <1>4, <2>5, <2>8, <2>10, Zenon DEF Columns
  <2>12. WriterInv'
    BY <2>1, <2>11 DEF WriterInv, Writing
  <2> QED
    BY <2>9, <2>12
<1> QED
  BY <1>7, <1>8

(* The last flush of a column.                                             *)
LEMMA LastFlushed ==
    ASSUME Base, WriterInv, LastFlush,
           NEW after, after = [writer EXCEPT ![col] = AfterFlush(writer[col])]
    PROVE  /\ Len(saved) >= 1 /\ col \in 1 .. Len(columns)
           /\ Grows /\ max_block' = Len(file') + 1
           /\ DOMAIN after = 1 .. Len(columns)
           /\ \A i \in 1 .. Len(columns) :
                 ColumnOK(file', after[i], rows, Len(saved), i, Width(columns[i]))
           /\ \A i \in 1 .. col : after[i].tuple_count = 0
<1> DEFINE k == Len(saved)
           N == Len(columns)
           w == Width(columns[col])
           x == writer[col]
<1>1. /\ pc = "last" /\ Columns /\ col \in 1 .. N
      /\ \A i \in 1 .. col - 1 : writer[i].tuple_count = 0
  BY DEF LastFlush, WriterInv, Writing
<1>2. k >= 1 /\ DOMAIN writer = 1 .. N
  BY <1>1 DEF Columns
<1>3. rows \in 0 .. MaxRows /\ w \in Widths /\ N \in Nat
  BY <1>1, <1>2, TableBeingWritten
<1>4. rows \in Nat /\ col \in Nat
  BY <1>1, <1>3, Sizes
<1>5. \A i \in 1 .. N : Taken(i) = rows
  BY <1>1, <1>4 DEF Taken
<1>6. \A i \in 1 .. N : ColumnOK(file, writer[i], rows, k, i, Width(columns[i]))
  BY <1>1, <1>5, Zenon DEF Columns
<1>7. TableDataWriter_flush_block(x)
  BY DEF LastFlush
<1>8. /\ Grows /\ max_block' = Len(file') + 1
      /\ ColumnOK(file', AfterFlush(x), rows, k, col, w) /\ AfterFlush(x).tuple_count = 0
  BY <1>1, <1>3, <1>4, <1>6, <1>7, FlushEffect, Zenon
<1>9. /\ DOMAIN after = 1 .. N /\ after[col] = AfterFlush(x)
      /\ \A i \in 1 .. N : i # col => after[i] = writer[i]
  BY <1>1, <1>2
<1>10. ASSUME NEW i \in 1 .. N PROVE ColumnOK(file', after[i], rows, k, i, Width(columns[i]))
  BY <1>6, <1>8, <1>9, FileGrows, Zenon
<1>11. ASSUME NEW i \in 1 .. col PROVE after[i].tuple_count = 0
  <2>1. CASE i = col
    BY <1>8, <1>9, <2>1, Zenon
  <2>2. CASE i # col
    <3>1. i \in 1 .. N /\ i \in 1 .. col - 1
      BY <1>1, <1>3, <1>4, <2>2
    <3> QED
      BY <1>1, <1>9, <2>2, <3>1, Zenon
  <2> QED
    BY <2>1, <2>2
<1> QED
  BY <1>1, <1>2, <1>8, <1>9, <1>10, <1>11, Zenon

LEMMA LastFlushKeeps ==
    ASSUME Base, WriterInv, LastFlush
    PROVE  Base' /\ WriterInv'
<1> DEFINE after == [writer EXCEPT ![col] = AfterFlush(writer[col])]
           N == Len(columns)
<1>0. PICK a : a = after
  OBVIOUS
<1>1. /\ Len(saved) >= 1 /\ col \in 1 .. N /\ Grows /\ max_block' = Len(file') + 1
      /\ DOMAIN a = 1 .. N
      /\ \A i \in 1 .. N : ColumnOK(file', a[i], rows, Len(saved), i, Width(columns[i]))
      /\ \A i \in 1 .. col : a[i].tuple_count = 0
  <2> HIDE DEF N
  <2> QED
    BY <1>0, LastFlushed, Zenon DEF N
<1>2. /\ pc = "last" /\ UNCHANGED <<saved, chunk>> /\ chunk \in 0 .. MaxChunk
      /\ saved \in Seq(Saved) /\ Len(saved) <= MaxTables
  BY DEF LastFlush, Base
<1>3. file' \in Seq(Block)
  BY <1>1, FileGrows, Zenon
<1>4. columns' = columns /\ rows' = rows
  BY <1>2 DEF columns, table, rows
<1>5. N \in Nat /\ rows \in Nat
  BY <1>1, TableBeingWritten, Sizes
<1>6. CASE col < N
  <2>1. writer' = a /\ col' = col + 1 /\ pc' = pc
    BY <1>0, <1>6 DEF LastFlush
  <2>2. Base'
    BY <1>1, <1>2, <1>3, <2>1 DEF Base
  <2>3. \A i \in 1 .. N : Taken(i)' = rows
    BY <1>2, <1>4, <1>5, <2>1 DEF Taken
  <2>4. Columns'
    BY <1>1, <1>2, <1>4, <2>1, <2>3, Zenon DEF Columns
  <2>5. col' \in 1 .. Len(columns') /\ 1 .. col' - 1 = 1 .. col
    BY <1>1, <1>4, <1>5, <1>6, <2>1
  <2>6. \A i \in 1 .. col' - 1 : writer'[i].tuple_count = 0
    BY <1>1, <2>1, <2>5, Zenon
  <2>7. WriterInv'
    BY <1>2, <2>1, <2>4, <2>5, <2>6 DEF WriterInv, Writing
  <2> QED
    BY <2>2, <2>7
<1>7. CASE ~(col < N)
  <2>1. writer' = <<>> /\ pc' \in {"tables", "stuck"}
    BY <1>7 DEF LastFlush
  <2>2. Base'
    BY <1>1, <1>2, <1>3, <2>1 DEF Base
  <2>3. WriterInv'
    BY <2>1 DEF WriterInv, Writing
  <2> QED
    BY <2>2, <2>3
<1> QED
  BY <1>6, <1>7

LEMMA OtherKeeps ==
    ASSUME Base, WriterInv,
           Reopen \/ checkpointManager_read_table \/ Finished \/ UNCHANGED vars
    PROVE  Base' /\ WriterInv'
<1>1. CASE Reopen
  <2>1. /\ pc = "tables" /\ pc' = "load"
        /\ UNCHANGED <<saved, file, max_block, col, chunk, writer>>
    BY <1>1 DEF Reopen
  <2>2. Base'
    BY <2>1, BaseStays DEF Base
  <2> QED
    BY <2>1, <2>2 DEF WriterInv, Writing
<1>2. CASE UNCHANGED <<pc, saved, file, max_block, col, chunk, writer>>
  <2>1. Base'
    BY <1>2, BaseStays DEF Base
  <2>2. columns' = columns /\ rows' = rows
    BY <1>2 DEF columns, table, rows
  <2>3. \A i \in 1 .. Len(columns) : Taken(i)' = Taken(i)
    BY <1>2, <2>2 DEF Taken
  <2>4. Columns => Columns'
    BY <1>2, <2>2, <2>3, Zenon DEF Columns
  <2> QED
    BY <1>2, <2>1, <2>2, <2>4 DEF WriterInv
<1>3. ASSUME checkpointManager_read_table \/ Finished \/ UNCHANGED vars
      PROVE  UNCHANGED <<pc, saved, file, max_block, col, chunk, writer>>
  BY <1>3 DEF checkpointManager_read_table, Finished, vars
<1> QED
  BY <1>1, <1>2, <1>3

LEMMA WriterStep == Base /\ WriterInv /\ [Next]_vars => Base' /\ WriterInv'
<1> SUFFICES ASSUME Base, WriterInv, [Next]_vars PROVE Base' /\ WriterInv'
  OBVIOUS
<1> QED
  BY WriteTableKeeps, ScanKeeps, WriteColumnKeeps, LastFlushKeeps, OtherKeeps, Zenon DEF Next

(***************************************************************************)
(* The stream of definitions                                               *)
(***************************************************************************)

(* The pieces of a flattened sequence of sequences.                        *)
LEMMA Flatten ==
    ASSUME NEW S, NEW ss \in Seq(Seq(S)), ss # <<>>
    PROVE  /\ FlattenSeq(ss) \in Seq(S)
           /\ \E off \in [0 .. Len(ss) -> Nat] :
                /\ off[0] = 0 /\ off[Len(ss)] = Len(FlattenSeq(ss))
                /\ \A i \in 1 .. Len(ss) :
                      /\ off[i] = off[i - 1] + Len(ss[i])
                      /\ \A q \in 1 .. Len(ss[i]) :
                            /\ off[i - 1] + q \in 1 .. Len(FlattenSeq(ss))
                            /\ FlattenSeq(ss)[off[i - 1] + q] = ss[i][q]
<1> DEFINE N == Len(ss)
           Step(c, j) == c \o ss[j]
           Is(g, m) == g = [j \in 1 .. m |-> IF j = 1 THEN ss[j] ELSE Step(g[j - 1], j)]
           T == {m \in Nat : ~ \E g : Is(g, m)}
<1>0. N \in Nat /\ N # 0
  BY EmptySeq
<1>1. T = {}
  <2> HIDE DEF Step
  <2>1. SUFFICES ASSUME T # {} PROVE FALSE
    OBVIOUS
  <2>2. PICK m \in T : \A l \in T : m <= l
    <3>1. T \subseteq Nat
      OBVIOUS
    <3> HIDE DEF T
    <3> QED
      BY <2>1, <3>1, Least
  <2>3. \E g : Is(g, 0)
    <3> DEFINE g == [j \in 1 .. 0 |-> ss[j]]
    <3>1. Is(g, 0)
      BY SMT
    <3> QED
      BY <3>1
  <2>4. m \in Nat /\ m # 0
    BY <2>3
  <2>5. m - 1 \in Nat /\ ~(m <= m - 1)
    BY <2>4, SMT
  <2>6. PICK g : Is(g, m - 1)
    <3>1. m - 1 \notin T
      BY <2>2, <2>5, Zenon
    <3> QED
      BY <2>5, <3>1, Zenon
  <2> DEFINE f == [j \in 1 .. m |-> IF j = 1 THEN ss[j] ELSE IF j = m THEN Step(g[m - 1], m) ELSE g[j]]
  <2>7. ASSUME NEW j \in 1 .. m PROVE f[j] = IF j = 1 THEN ss[j] ELSE Step(f[j - 1], j)
    <3>1. j # 1 => j - 1 \in 1 .. m /\ j - 1 # m /\ j - 1 \in 1 .. m - 1
      BY <2>4, SMT
    <3>2. j # m => j \in 1 .. m - 1
      BY <2>4, SMT
    <3>3. j # m => g[j] = IF j = 1 THEN ss[j] ELSE Step(g[j - 1], j)
      BY <2>6, <3>2, Zenon
    <3>4. j # 1 => f[j - 1] = g[j - 1]
      <4>1. j # 1 => g[j - 1] = IF j - 1 = 1 THEN ss[j - 1] ELSE Step(g[j - 1 - 1], j - 1)
        BY <2>6, <3>1, Zenon
      <4> QED
        BY <3>1, <4>1
    <3> QED
      BY <3>3, <3>4
  <2>8. Is(f, m)
    BY <2>7, Zenon
  <2> QED
    BY <2>8, Zenon
<1>2. \E g : Is(g, N)
  BY <1>0, <1>1
<1> DEFINE flatten[j \in 1 .. Len(ss)] == IF j = 1 THEN ss[j] ELSE flatten[j - 1] \o ss[j]
<1>3. Is(flatten, N)
  BY <1>2, Zenon DEF flatten
<1>4. FlattenSeq(ss) = flatten[N]
  BY <1>0, Zenon DEF FlattenSeq
<1> HIDE DEF flatten
<1>5. flatten[1] = ss[1]
  <2>1. 1 \in 1 .. N
    BY <1>0
  <2> QED
    BY <1>3, <2>1, Zenon
<1>6. ASSUME NEW j \in 1 .. N, j # 1 PROVE flatten[j] = flatten[j - 1] \o ss[j]
  BY <1>3, <1>6, Zenon
<1> HIDE DEF Is, T
<1> DEFINE off == [i \in 0 .. N |-> IF i = 0 THEN 0 ELSE Len(flatten[i])]
           Good(i) ==
             /\ flatten[i] \in Seq(S) /\ off[i] = Len(flatten[i])
             /\ \A j \in 1 .. i :
                  /\ off[j] = off[j - 1] + Len(ss[j])
                  /\ \A q \in 1 .. Len(ss[j]) :
                        /\ off[j - 1] + q \in 1 .. Len(flatten[i])
                        /\ flatten[i][off[j - 1] + q] = ss[j][q]
           G == {i \in 0 .. N : i = 0 \/ Good(i)}
<1>7. ASSUME NEW i \in 1 .. N PROVE ss[i] \in Seq(S) /\ Len(ss[i]) \in Nat /\ off[i] = Len(flatten[i])
  <2>1. i # 0 /\ i \in 0 .. N
    BY <1>0
  <2> QED
    BY <2>1
<1>8. off[0] = 0
  BY <1>0
<1> HIDE DEF off
<1>9. ASSUME NEW i \in 0 .. N, i # 0, i - 1 \in G PROVE i \in G
  <2>1. i \in 1 .. N
    BY <1>0, <1>9
  <2>2. CASE i = 1
    <3>1. flatten[1] \in Seq(S) /\ off[1] = Len(flatten[1])
      BY <1>5, <1>7, <2>1, <2>2
    <3>2. off[1] = off[0] + Len(ss[1]) /\ off[0] = 0
      BY <1>5, <1>7, <1>8, <2>1, <2>2
    <3>3. ASSUME NEW q \in 1 .. Len(ss[1])
          PROVE off[0] + q \in 1 .. Len(flatten[1]) /\ flatten[1][off[0] + q] = ss[1][q]
      <4>1. off[0] + q = q
        BY <3>2
      <4> QED
        BY <1>5, <4>1, Zenon
    <3>4. \A j \in 1 .. 1 : j = 1 /\ j - 1 = 0
      OBVIOUS
    <3>5. Good(1)
      BY <3>1, <3>2, <3>3, <3>4, Zenon
    <3> HIDE DEF Good
    <3> QED
      BY <1>9, <2>2, <3>5
  <2>3. CASE i # 1
    <3> DEFINE h == flatten[i - 1]
               m == Len(h)
    <3>1. i - 1 \in 1 .. N /\ i - 1 # 0 /\ i - 1 \in 0 .. N
      BY <1>0, <2>1, <2>3
    <3>2. Good(i - 1)
      <4> HIDE DEF Good
      <4> QED
        BY <1>9, <3>1
    <3>3. h \in Seq(S) /\ off[i - 1] = m /\ m \in Nat
      BY <3>2
    <3>4. ss[i] \in Seq(S) /\ Len(ss[i]) \in Nat /\ off[i] = Len(flatten[i])
      BY <1>7, <2>1, Zenon
    <3>5. flatten[i] = h \o ss[i]
      BY <1>6, <2>1, <2>3, Zenon
    <3>6. /\ flatten[i] \in Seq(S) /\ Len(flatten[i]) = m + Len(ss[i])
          /\ \A q \in 1 .. m : flatten[i][q] = h[q]
          /\ \A q \in 1 .. Len(ss[i]) : flatten[i][m + q] = ss[i][q]
      <4> HIDE DEF h
      <4> QED
        BY <3>3, <3>4, <3>5, ConcatProperties
    <3>7. ASSUME NEW j \in 1 .. i
          PROVE  /\ off[j] = off[j - 1] + Len(ss[j])
                 /\ \A q \in 1 .. Len(ss[j]) :
                       /\ off[j - 1] + q \in 1 .. Len(flatten[i])
                       /\ flatten[i][off[j - 1] + q] = ss[j][q]
      <4>1. CASE j = i
        <5>1. off[i] = off[i - 1] + Len(ss[i])
          BY <3>3, <3>4, <3>6, Zenon
        <5>2. ASSUME NEW q \in 1 .. Len(ss[i])
              PROVE  off[i - 1] + q \in 1 .. Len(flatten[i]) /\ flatten[i][off[i - 1] + q] = ss[i][q]
          <6>1. m + q \in 1 .. Len(flatten[i])
            <7> HIDE DEF m
            <7> QED
              BY <3>3, <3>4, <3>6
          <6> QED
            BY <3>3, <3>6, <6>1, Zenon
        <5> QED
          BY <4>1, <5>1, <5>2, Zenon
      <4>2. CASE j # i
        <5>1. j \in 1 .. i - 1
          BY <2>1, <4>2
        <5>2. off[j] = off[j - 1] + Len(ss[j])
          BY <3>2, <5>1, Zenon
        <5>3. ASSUME NEW q \in 1 .. Len(ss[j])
              PROVE  off[j - 1] + q \in 1 .. Len(flatten[i]) /\ flatten[i][off[j - 1] + q] = ss[j][q]
          <6>1. off[j - 1] + q \in 1 .. m /\ h[off[j - 1] + q] = ss[j][q]
            BY <3>2, <5>1, Zenon
          <6>2. off[j - 1] + q \in 1 .. Len(flatten[i])
            <7>1. PICK u : u = off[j - 1] + q
              OBVIOUS
            <7> HIDE DEF m, h
            <7>2. u \in 1 .. m
              BY <6>1, <7>1, Zenon
            <7>3. u \in 1 .. m + Len(ss[i])
              BY <3>3, <3>4, <7>2
            <7> QED
              BY <3>6, <7>1, <7>3, Zenon
          <6> QED
            BY <3>6, <6>1, <6>2, Zenon
        <5> QED
          BY <5>2, <5>3, Zenon
      <4> QED
        BY <4>1, <4>2
    <3>8. Good(i)
      BY <3>4, <3>6, <3>7, Zenon
    <3> HIDE DEF Good
    <3> QED
      BY <2>1, <3>8
  <2> QED
    BY <2>2, <2>3
<1>10. 0 \in G
  BY <1>0
<1>11. \A i \in 0 .. N : i \in G
  <2> HIDE DEF G, N
  <2> QED
    BY <1>0, <1>9, <1>10, UpTo
<1>12. Good(N)
  <2> HIDE DEF Good
  <2> QED
    BY <1>0, <1>11
<1>13. off \in [0 .. N -> Nat]
  <2>1. ASSUME NEW i \in 0 .. N PROVE (IF i = 0 THEN 0 ELSE Len(flatten[i])) \in Nat
    <3>1. i # 0 => flatten[i] \in Seq(S)
      BY <1>11, Zenon
    <3> QED
      BY <3>1
  <2> QED
    BY <2>1, Zenon DEF off
<1>14. /\ off[0] = 0 /\ off[N] = Len(flatten[N]) /\ flatten[N] \in Seq(S)
       /\ \A i \in 1 .. N :
            /\ off[i] = off[i - 1] + Len(ss[i])
            /\ \A q \in 1 .. Len(ss[i]) :
                  /\ off[i - 1] + q \in 1 .. Len(flatten[N])
                  /\ flatten[N][off[i - 1] + q] = ss[i][q]
  BY <1>8, <1>12, Zenon
<1> HIDE DEF G, Good
<1> QED
  BY <1>4, <1>13, <1>14, Zenon

(* A value of w bytes; a string is its length and its bytes.               *)
V(w, v) == [w |-> w, v |-> v]

LEMMA OneItem ==
    ASSUME NEW w \in Nat, NEW v \in Int
    PROVE  /\ SERIALIZER_WRITE(w, v) \in Seq(Item) /\ Len(SERIALIZER_WRITE(w, v)) = 1
           /\ SERIALIZER_WRITE(w, v)[1] = V(w, v)
BY DEF SERIALIZER_WRITE, Item, V

LEMMA Concat ==
    ASSUME NEW s \in Seq(Item), NEW r \in Seq(Item)
    PROVE  /\ s \o r \in Seq(Item) /\ Len(s \o r) = Len(s) + Len(r)
           /\ \A q \in 1 .. Len(s) : (s \o r)[q] = s[q]
           /\ \A q \in 1 .. Len(r) : (s \o r)[Len(s) + q] = r[q]
BY ConcatProperties

LEMMA StringItems ==
    ASSUME NEW s \in Nat
    PROVE  /\ SERIALIZER_WRITE_STRING(s) \in Seq(Item) /\ Len(SERIALIZER_WRITE_STRING(s)) = 2
           /\ SERIALIZER_WRITE_STRING(s)[1] = V(8, s) /\ SERIALIZER_WRITE_STRING(s)[2] = V(s, s)
<1> DEFINE a == SERIALIZER_WRITE(8, s)
           b == SERIALIZER_WRITE(s, s)
<1>1. /\ a \in Seq(Item) /\ Len(a) = 1 /\ a[1] = V(8, s)
      /\ b \in Seq(Item) /\ Len(b) = 1 /\ b[1] = V(s, s)
  BY OneItem
<1> HIDE DEF a, b
<1>2. a \o b \in Seq(Item) /\ Len(a \o b) = 2 /\ (a \o b)[1] = V(8, s) /\ (a \o b)[2] = V(s, s)
  BY <1>1, ConcatProperties
<1> QED
  BY <1>2 DEF SERIALIZER_WRITE_STRING, a, b

ItemsOf(c) == IF c.type = SQLT_VECTOR THEN 4 ELSE 3

LEMMA ColumnShape ==
    ASSUME NEW c \in Column(SQLType)
    PROVE  /\ ColumnItems(c) \in Seq(Item) /\ Len(ColumnItems(c)) = ItemsOf(c)
           /\ ColumnItems(c)[1] = V(8, c.name) /\ ColumnItems(c)[2] = V(c.name, c.name)
           /\ ColumnItems(c)[3] = V(1, c.type)
           /\ c.type = SQLT_VECTOR => ColumnItems(c)[4] = V(2, c.dim)
<1> DEFINE a == SERIALIZER_WRITE_STRING(c.name)
           b == SERIALIZER_WRITE(1, c.type)
           d == IF c.type = SQLT_VECTOR THEN SERIALIZER_WRITE(2, c.dim) ELSE <<>>
           ab == a \o b
           e == ab \o d
<1>1. c.name \in Nat /\ c.type \in Int /\ c.dim \in Int
  <2>1. c.name \in Nat /\ c.type \in SQLType /\ c.dim \in i16
    BY ColumnFields, Zenon
  <2>2. i16 \subseteq Int /\ SQLType \subseteq Int
    BY DEF i16, SQLType, SQLT_VECTOR
  <2> QED
    BY <2>1, <2>2, Zenon
<1>2. a \in Seq(Item) /\ Len(a) = 2 /\ a[1] = V(8, c.name) /\ a[2] = V(c.name, c.name)
  BY <1>1, StringItems
<1>3. b \in Seq(Item) /\ Len(b) = 1 /\ b[1] = V(1, c.type)
  BY <1>1, OneItem
<1>4. /\ d \in Seq(Item) /\ Len(d) = ItemsOf(c) - 3
      /\ c.type = SQLT_VECTOR => d[1] = V(2, c.dim)
  <2>1. CASE c.type = SQLT_VECTOR
    BY <1>1, <2>1, OneItem DEF ItemsOf
  <2>2. CASE c.type # SQLT_VECTOR
    BY <2>2 DEF ItemsOf
  <2> QED
    BY <2>1, <2>2
<1> HIDE DEF a, b, d
<1>5. /\ ab \in Seq(Item) /\ Len(ab) = 3 /\ ab[1] = V(8, c.name) /\ ab[2] = V(c.name, c.name)
      /\ ab[3] = V(1, c.type)
  <2>1. /\ ab \in Seq(Item) /\ Len(ab) = Len(a) + Len(b)
        /\ \A q \in 1 .. Len(a) : ab[q] = a[q]
        /\ \A q \in 1 .. Len(b) : ab[Len(a) + q] = b[q]
    <3>1. a \in Seq(Item) /\ b \in Seq(Item)
      BY <1>2, <1>3
    <3> QED
      BY <3>1, Concat, Zenon
  <2> HIDE DEF ab
  <2> QED
    BY <1>2, <1>3, <2>1
<1> HIDE DEF ab
<1>6. ItemsOf(c) \in Nat /\ (c.type = SQLT_VECTOR => ItemsOf(c) = 4)
  BY DEF ItemsOf
<1>7. /\ e \in Seq(Item) /\ Len(e) = ItemsOf(c) /\ e[1] = V(8, c.name) /\ e[2] = V(c.name, c.name)
      /\ e[3] = V(1, c.type) /\ (c.type = SQLT_VECTOR => e[4] = V(2, c.dim))
  <2>1. /\ e \in Seq(Item) /\ Len(e) = Len(ab) + Len(d)
        /\ \A q \in 1 .. Len(ab) : e[q] = ab[q]
        /\ \A q \in 1 .. Len(d) : e[Len(ab) + q] = d[q]
    <3>1. ab \in Seq(Item) /\ d \in Seq(Item)
      BY <1>4, <1>5
    <3> QED
      BY <3>1, Concat, Zenon
  <2> HIDE DEF e
  <2> QED
    BY <1>4, <1>5, <1>6, <2>1
<1> HIDE DEF e
<1>8. ColumnItems(c) = e
  BY Zenon DEF ColumnItems, e, ab, a, b, d
<1> QED
  BY <1>7, <1>8, Zenon

(* The entry of a table: where each of its columns starts.                 *)
Shape(t, n, e, off) ==
    LET cs == t.columns
        N  == Len(t.columns)
    IN  /\ off \in [0 .. N -> Nat] /\ off[0] = 5 /\ off[N] + 2 = Len(e)
        /\ e[1] = V(8, t.schema) /\ e[2] = V(t.schema, t.schema)
        /\ e[3] = V(8, t.name) /\ e[4] = V(t.name, t.name) /\ e[5] = V(4, N)
        /\ \A i \in 1 .. N :
              /\ off[i] = off[i - 1] + ItemsOf(cs[i]) /\ off[i] + 2 <= Len(e)
              /\ e[off[i - 1] + 1] = V(8, cs[i].name)
              /\ e[off[i - 1] + 2] = V(cs[i].name, cs[i].name)
              /\ e[off[i - 1] + 3] = V(1, cs[i].type)
              /\ cs[i].type = SQLT_VECTOR => e[off[i - 1] + 4] = V(2, cs[i].dim)
        /\ e[off[N] + 2] = V(8, n)

LEMMA TableColumns ==
    ASSUME NEW t \in Tables
    PROVE  /\ t.columns \in Seq(Column(SQLType)) /\ t.columns # <<>>
           /\ Len(t.columns) \in Nat \ {0} /\ DOMAIN t.columns = 1 .. Len(t.columns)
           /\ \A i \in 1 .. Len(t.columns) : t.columns[i] \in Column(SQLType)
<1>1. t.columns \in Seq(Column(SQLType)) /\ t.columns # <<>>
  BY TablesAssumption
<1> QED
  BY <1>1, EmptySeq

LEMMA EntryShape ==
    ASSUME NEW t \in Tables, NEW n \in Nat
    PROVE  /\ TableEntry(t, n) \in Seq(Item)
           /\ \E off : Shape(t, n, TableEntry(t, n), off)
<1> DEFINE cs == t.columns
           N  == Len(t.columns)
           ss == [i \in DOMAIN cs |-> ColumnItems(cs[i])]
           F  == FlattenSeq(ss)
           a  == SERIALIZER_WRITE_STRING(t.schema)
           b  == SERIALIZER_WRITE_STRING(t.name)
           c  == SERIALIZER_WRITE(4, N)
           p  == SERIALIZER_WRITE(8, n)
           ab == a \o b
           h  == ab \o c
           hF == h \o F
           g  == hF \o p
           e  == g \o p
<1>1. N \in Nat \ {0} /\ DOMAIN cs = 1 .. N /\ \A i \in 1 .. N : cs[i] \in Column(SQLType)
  BY TableColumns, Zenon
<1>2. /\ ss \in Seq(Seq(Item)) /\ ss # <<>> /\ Len(ss) = N
      /\ \A i \in 1 .. N : ss[i] = ColumnItems(cs[i])
  <2>1. \A i \in 1 .. N : ColumnItems(cs[i]) \in Seq(Item)
    BY <1>1, ColumnShape, Zenon
  <2>2. ss = [i \in 1 .. N |-> ColumnItems(cs[i])]
    BY <1>1, Zenon
  <2>3. ss \in [1 .. N -> Seq(Item)]
    BY <2>1, <2>2, Zenon
  <2>4. \A i \in 1 .. N : ss[i] = ColumnItems(cs[i])
    BY <2>2, Zenon
  <2> HIDE DEF ss, N
  <2> QED
    BY <1>1, <2>3, <2>4
<1> HIDE DEF ss
<1>3. /\ F \in Seq(Item)
      /\ \E o \in [0 .. N -> Nat] :
           /\ o[0] = 0 /\ o[N] = Len(F)
           /\ \A i \in 1 .. N :
                /\ o[i] = o[i - 1] + Len(ss[i])
                /\ \A q \in 1 .. Len(ss[i]) :
                      o[i - 1] + q \in 1 .. Len(F) /\ F[o[i - 1] + q] = ss[i][q]
  <2>1. /\ FlattenSeq(ss) \in Seq(Item)
        /\ \E off \in [0 .. Len(ss) -> Nat] :
             /\ off[0] = 0 /\ off[Len(ss)] = Len(FlattenSeq(ss))
             /\ \A i \in 1 .. Len(ss) :
                  /\ off[i] = off[i - 1] + Len(ss[i])
                  /\ \A q \in 1 .. Len(ss[i]) :
                        /\ off[i - 1] + q \in 1 .. Len(FlattenSeq(ss))
                        /\ FlattenSeq(ss)[off[i - 1] + q] = ss[i][q]
    BY <1>2, Flatten
  <2> HIDE DEF N
  <2> QED
    BY <1>2, <2>1, Zenon
<1>4. PICK o \in [0 .. N -> Nat] :
           /\ o[0] = 0 /\ o[N] = Len(F)
           /\ \A i \in 1 .. N :
                /\ o[i] = o[i - 1] + Len(ss[i])
                /\ \A q \in 1 .. Len(ss[i]) :
                      o[i - 1] + q \in 1 .. Len(F) /\ F[o[i - 1] + q] = ss[i][q]
  BY <1>3, Zenon
<1>5. /\ a \in Seq(Item) /\ Len(a) = 2 /\ a[1] = V(8, t.schema) /\ a[2] = V(t.schema, t.schema)
      /\ b \in Seq(Item) /\ Len(b) = 2 /\ b[1] = V(8, t.name) /\ b[2] = V(t.name, t.name)
  BY TablesAssumption, StringItems
<1>6. /\ c \in Seq(Item) /\ Len(c) = 1 /\ c[1] = V(4, N)
      /\ p \in Seq(Item) /\ Len(p) = 1 /\ p[1] = V(8, n)
  <2> HIDE DEF N
  <2> QED
    BY <1>1, OneItem
<1> HIDE DEF a, b, c, p, F
<1>7. /\ ab \in Seq(Item) /\ Len(ab) = 4 /\ ab[1] = V(8, t.schema) /\ ab[2] = V(t.schema, t.schema)
      /\ ab[3] = V(8, t.name) /\ ab[4] = V(t.name, t.name)
  <2>1. /\ ab \in Seq(Item) /\ Len(ab) = Len(a) + Len(b)
        /\ \A q \in 1 .. Len(a) : ab[q] = a[q]
        /\ \A q \in 1 .. Len(b) : ab[Len(a) + q] = b[q]
    <3>1. a \in Seq(Item) /\ b \in Seq(Item)
      BY <1>5
    <3> QED
      BY <3>1, Concat, Zenon
  <2> HIDE DEF ab
  <2> QED
    BY <1>5, <2>1
<1> HIDE DEF ab
<1>8. /\ h \in Seq(Item) /\ Len(h) = 5 /\ h[1] = V(8, t.schema) /\ h[2] = V(t.schema, t.schema)
      /\ h[3] = V(8, t.name) /\ h[4] = V(t.name, t.name) /\ h[5] = V(4, N)
  <2>1. /\ h \in Seq(Item) /\ Len(h) = Len(ab) + Len(c)
        /\ \A q \in 1 .. Len(ab) : h[q] = ab[q]
        /\ \A q \in 1 .. Len(c) : h[Len(ab) + q] = c[q]
    <3>1. ab \in Seq(Item) /\ c \in Seq(Item)
      BY <1>6, <1>7
    <3> QED
      BY <3>1, Concat, Zenon
  <2> HIDE DEF h
  <2> HIDE DEF N
  <2> QED
    BY <1>6, <1>7, <2>1
<1> HIDE DEF h
<1> DEFINE L == Len(F)
<1>9. L \in Nat
  BY <1>3
<1>10. /\ hF \in Seq(Item) /\ Len(hF) = 5 + L
       /\ \A q \in 1 .. 5 : hF[q] = h[q]
       /\ \A r \in 1 .. L : hF[5 + r] = F[r]
  <2>1. /\ hF \in Seq(Item) /\ Len(hF) = Len(h) + Len(F)
        /\ \A q \in 1 .. Len(h) : hF[q] = h[q]
        /\ \A q \in 1 .. Len(F) : hF[Len(h) + q] = F[q]
    <3>1. h \in Seq(Item) /\ F \in Seq(Item)
      BY <1>3, <1>8
    <3> QED
      BY <3>1, Concat, Zenon
  <2> HIDE DEF hF
  <2> QED
    BY <1>8, <2>1, Zenon
<1> HIDE DEF hF
<1>11. g \in Seq(Item) /\ Len(g) = 6 + L /\ \A q \in 1 .. 5 + L : g[q] = hF[q]
  <2>1. /\ g \in Seq(Item) /\ Len(g) = Len(hF) + Len(p)
        /\ \A q \in 1 .. Len(hF) : g[q] = hF[q]
        /\ \A q \in 1 .. Len(p) : g[Len(hF) + q] = p[q]
    <3>1. hF \in Seq(Item) /\ p \in Seq(Item)
      BY <1>6, <1>10
    <3> QED
      BY <3>1, Concat, Zenon
  <2> HIDE DEF g
  <2> HIDE DEF L
  <2> QED
    BY <1>6, <1>9, <1>10, <2>1
<1> HIDE DEF g
<1>12. /\ e \in Seq(Item) /\ Len(e) = 7 + L /\ e[7 + L] = V(8, n)
       /\ \A q \in 1 .. 5 + L : e[q] = g[q]
  <2>1. /\ e \in Seq(Item) /\ Len(e) = Len(g) + Len(p)
        /\ \A q \in 1 .. Len(g) : e[q] = g[q]
        /\ \A q \in 1 .. Len(p) : e[Len(g) + q] = p[q]
    <3>1. g \in Seq(Item) /\ p \in Seq(Item)
      BY <1>6, <1>11
    <3> QED
      BY <3>1, Concat, Zenon
  <2> HIDE DEF e
  <2> HIDE DEF L
  <2>2. Len(e) = 7 + L /\ Len(g) + 1 = 7 + L
    BY <1>6, <1>9, <1>11, <2>1
  <2>3. e[Len(g) + 1] = p[1]
    <3>1. 1 \in 1 .. Len(p)
      BY <1>6
    <3> QED
      BY <2>1, <3>1, Zenon
  <2>4. \A q \in 1 .. 5 + L : q \in 1 .. Len(g)
    BY <1>9, <1>11
  <2> QED
    BY <1>6, <2>1, <2>2, <2>3, <2>4, Zenon
<1> HIDE DEF e, L
<1>13. \A q \in 1 .. 5 : e[q] = h[q]
  BY <1>9, <1>10, <1>11, <1>12
<1>14. ASSUME NEW r \in 1 .. L PROVE e[5 + r] = F[r]
  <2>1. 5 + r \in 1 .. 5 + L
    BY <1>9
  <2> QED
    BY <1>10, <1>11, <1>12, <2>1
<1> DEFINE off == [i \in 0 .. N |-> 5 + o[i]]
<1>15. \A i \in 0 .. N : o[i] \in Nat /\ off[i] = 5 + o[i]
  BY <1>4
<1>16. off \in [0 .. N -> Nat]
  BY <1>15
<1> HIDE DEF off
<1>17. /\ off[0] = 5 /\ off[N] + 2 = Len(e) /\ e[off[N] + 2] = V(8, n)
  <2>1. off[0] = 5 + 0 /\ off[N] = 5 + L
    <3>1. 0 \in 0 .. N /\ N \in 0 .. N
      BY <1>1
    <3> QED
      BY <1>4, <1>15, <3>1, Zenon DEF L
  <2>2. off[N] + 2 = 7 + L
    BY <1>9, <2>1
  <2> QED
    BY <1>12, <2>1, <2>2
<1>18. ASSUME NEW i \in 1 .. N
       PROVE  /\ off[i] = off[i - 1] + ItemsOf(cs[i]) /\ off[i] + 2 <= Len(e)
              /\ e[off[i - 1] + 1] = V(8, cs[i].name)
              /\ e[off[i - 1] + 2] = V(cs[i].name, cs[i].name)
              /\ e[off[i - 1] + 3] = V(1, cs[i].type)
              /\ cs[i].type = SQLT_VECTOR => e[off[i - 1] + 4] = V(2, cs[i].dim)
  <2> DEFINE x == ColumnItems(cs[i])
             m == ItemsOf(cs[i])
             u == o[i - 1]
  <2>1. /\ Len(x) = m /\ x[1] = V(8, cs[i].name) /\ x[2] = V(cs[i].name, cs[i].name)
        /\ x[3] = V(1, cs[i].type) /\ (cs[i].type = SQLT_VECTOR => x[4] = V(2, cs[i].dim))
    BY <1>1, ColumnShape, Zenon
  <2>2. m \in Nat /\ m >= 3 /\ (cs[i].type = SQLT_VECTOR => m = 4)
    BY DEF ItemsOf
  <2>3. i - 1 \in 0 .. N /\ i \in 0 .. N
    BY <1>1
  <2>4. u \in Nat /\ off[i - 1] = 5 + u /\ o[i] \in Nat /\ off[i] = 5 + o[i]
    BY <1>15, <2>3
  <2>5. ss[i] = x
    BY <1>2
  <2> HIDE DEF x, m, u
  <2>6. o[i] = u + m /\ \A q \in 1 .. m : u + q \in 1 .. L /\ F[u + q] = x[q]
    BY <1>4, <2>1, <2>5, Zenon DEF u, L
  <2>7. \A q \in 1 .. m : e[5 + (u + q)] = x[q]
    BY <1>14, <2>6, Zenon
  <2>8. \A q \in 1 .. m : e[off[i - 1] + q] = x[q]
    <3>1. ASSUME NEW q \in 1 .. m PROVE off[i - 1] + q = 5 + (u + q)
      BY <2>2, <2>4
    <3> QED
      BY <2>7, <3>1, Zenon
  <2>9. 1 \in 1 .. m /\ 2 \in 1 .. m /\ 3 \in 1 .. m /\ (cs[i].type = SQLT_VECTOR => 4 \in 1 .. m)
    BY <2>2
  <2>10. off[i] = off[i - 1] + m
    BY <2>2, <2>4, <2>6
  <2>11. off[i] + 2 <= Len(e)
    <3>1. u + m \in 1 .. L
      BY <2>2, <2>6
    <3> QED
      BY <1>9, <1>12, <2>4, <2>6, <3>1
  <2> QED
    BY <2>1, <2>8, <2>9, <2>10, <2>11, Zenon DEF m
<1>19. /\ e[1] = V(8, t.schema) /\ e[2] = V(t.schema, t.schema)
       /\ e[3] = V(8, t.name) /\ e[4] = V(t.name, t.name) /\ e[5] = V(4, N)
  <2>1. 1 \in 1 .. 5 /\ 2 \in 1 .. 5 /\ 3 \in 1 .. 5 /\ 4 \in 1 .. 5 /\ 5 \in 1 .. 5
    OBVIOUS
  <2> QED
    BY <1>8, <1>13, <2>1, Zenon
<1>20. Shape(t, n, e, off)
  BY <1>16, <1>17, <1>18, <1>19, Zenon DEF Shape
<1>21. TableEntry(t, n) = e
  BY Zenon DEF TableEntry, TableItems, e, g, hF, h, ab, a, b, c, p, F, ss
<1> QED
  BY <1>12, <1>20, <1>21, Zenon

LEMMA ReadItem ==
    ASSUME NEW s \in Seq(Item), NEW q \in 1 .. Len(s), NEW w, NEW v, s[q] = V(w, v)
    PROVE  DESERIALIZER_READ(s, q, w) = v
<1>1. q \in DOMAIN s
  OBVIOUS
<1>2. s[q].w = w /\ s[q].v = v
  BY DEF V
<1> QED
  BY <1>1, <1>2 DEF DESERIALIZER_READ

LEMMA ReadString ==
    ASSUME NEW s \in Seq(Item), NEW q \in 1 .. Len(s), q + 1 \in 1 .. Len(s), NEW v,
           s[q] = V(8, v), s[q + 1] = V(v, v)
    PROVE  DESERIALIZER_READ_STRING(s, q) = v
<1>1. DESERIALIZER_READ(s, q, 8) = v
  BY ReadItem, Zenon
<1>2. DESERIALIZER_READ(s, q + 1, v) = v
  BY ReadItem, Zenon
<1> QED
  BY <1>1, <1>2, Zenon DEF DESERIALIZER_READ_STRING

(* The items e are in the stream s from position p on.                     *)
EntryIn(s, p, e) == \A q \in 1 .. Len(e) : p + q - 1 \in 1 .. Len(s) /\ s[p + q - 1] = e[q]

(* d is table t, read from position p; n is where its data pointers are.   *)
ReadFrom(d, s, p, e, t, n) ==
    /\ d.end + 2 = p + Len(e) /\ DESERIALIZER_READ(s, d.end + 1, 8) = n
    /\ d.info.schema = t.schema /\ d.info.name = t.name
    /\ DOMAIN d.info.columns = 1 .. Len(t.columns)
    /\ Len(d.info.columns) = Len(t.columns)
    /\ \A i \in 1 .. Len(t.columns) :
          /\ d.info.columns[i].name = t.columns[i].name
          /\ d.info.columns[i].type = t.columns[i].type
          /\ d.info.columns[i].oid = i - 1
          /\ t.columns[i].type = SQLT_VECTOR => d.info.columns[i].dim = t.columns[i].dim

(* What createTableInfo_deserialize yields for the entry of a table.       *)
LEMMA Deserialize ==
    ASSUME NEW s \in Seq(Item), NEW t \in Tables, NEW n \in Nat, NEW p \in Nat \ {0},
           NEW e, e = TableEntry(t, n), EntryIn(s, p, e),
           NEW d, d = createTableInfo_deserialize(s, p)
    PROVE  ReadFrom(d, s, p, e, t, n)
<1> DEFINE cs == t.columns
           N  == Len(t.columns)
           col_count == DESERIALIZER_READ(s, p + 4, 4)
           type(q) == DESERIALIZER_READ(s, q + 2, 1)
           Step(q) == q + IF type(q) = SQLT_VECTOR THEN 4 ELSE 3
           at[i \in 0 .. col_count] ==
               IF i = 0 THEN p + 5 ELSE at[i - 1] + IF type(at[i - 1]) = SQLT_VECTOR THEN 4 ELSE 3
           column(i, q) ==
               [name |-> DESERIALIZER_READ_STRING(s, q), oid |-> i, type |-> type(q),
                dim  |-> IF type(q) = SQLT_VECTOR THEN DESERIALIZER_READ(s, q + 3, 2) ELSE Garbage]
           info == [schema |-> DESERIALIZER_READ_STRING(s, p),
                    name |-> DESERIALIZER_READ_STRING(s, p + 2), if_not_exists |-> TRUE,
                    columns |-> [i \in 1 .. col_count |-> column(i - 1, at[i - 1])]]
<1>1. d = [end |-> IF col_count >= 0 THEN at[col_count] ELSE p, info |-> info]
  BY Zenon DEF createTableInfo_deserialize
<1> DEFINE E == IF col_count >= 0 THEN at[col_count] ELSE p
           C == [i \in 1 .. col_count |-> column(i - 1, at[i - 1])]
<1>0. d.end = E /\ d.info.schema = DESERIALIZER_READ_STRING(s, p)
      /\ d.info.name = DESERIALIZER_READ_STRING(s, p + 2) /\ d.info.columns = C
  <2> DEFINE a == DESERIALIZER_READ_STRING(s, p)
             b == DESERIALIZER_READ_STRING(s, p + 2)
  <2>1. d = [end |-> E, info |-> [schema |-> a, name |-> b, if_not_exists |-> TRUE, columns |-> C]]
    BY <1>1, Zenon
  <2> HIDE DEF E, C, a, b
  <2>2. d.end = E /\ d.info.schema = a /\ d.info.name = b /\ d.info.columns = C
    BY <2>1
  <2> QED
    BY <2>2 DEF a, b
<1> HIDE DEF E, C
<1>2. PICK off : Shape(t, n, e, off)
  BY EntryShape, Zenon
<1>3. N \in Nat \ {0} /\ \A i \in 1 .. N : cs[i] \in Column(SQLType)
  BY TableColumns, Zenon
<1>4. /\ off \in [0 .. N -> Nat] /\ off[0] = 5 /\ off[N] + 2 = Len(e)
      /\ e[1] = V(8, t.schema) /\ e[2] = V(t.schema, t.schema)
      /\ e[3] = V(8, t.name) /\ e[4] = V(t.name, t.name) /\ e[5] = V(4, N)
      /\ \A i \in 1 .. N :
            /\ off[i] = off[i - 1] + ItemsOf(cs[i]) /\ off[i] + 2 <= Len(e)
            /\ e[off[i - 1] + 1] = V(8, cs[i].name)
            /\ e[off[i - 1] + 2] = V(cs[i].name, cs[i].name)
            /\ e[off[i - 1] + 3] = V(1, cs[i].type)
            /\ cs[i].type = SQLT_VECTOR => e[off[i - 1] + 4] = V(2, cs[i].dim)
      /\ e[off[N] + 2] = V(8, n)
  BY <1>2, Zenon DEF Shape
<1> HIDE DEF cs, N
<1>5. /\ off[N] \in Nat /\ Len(e) \in Nat
      /\ \A i \in 1 .. N : i - 1 \in 0 .. N /\ i \in 0 .. N /\ off[i - 1] \in Nat /\ off[i] \in Nat
  <2>1. N \in 0 .. N /\ \A i \in 1 .. N : i - 1 \in 0 .. N /\ i \in 0 .. N
    BY <1>3
  <2>2. \A i \in 0 .. N : off[i] \in Nat
    BY <1>4, Zenon
  <2>3. off[N] \in Nat
    BY <2>1, <2>2, Zenon
  <2>4. off[N] + 2 \in Nat
    BY <2>3
  <2>5. Len(e) \in Nat
    BY <1>4, <2>4, Zenon
  <2> QED
    BY <2>1, <2>2, <2>3, <2>5, Zenon
<1>6. \A i \in 1 .. N : ItemsOf(cs[i]) \in {3, 4} /\ (ItemsOf(cs[i]) = 4 <=> cs[i].type = SQLT_VECTOR)
  BY DEF ItemsOf
<1>7. Len(e) >= 8 /\ off[N] + 2 \in 1 .. Len(e)
  <2>1. PICK j \in 1 .. N : j = 1
    BY <1>3
  <2>2. off[j - 1] = 5
    BY <1>4, <2>1
  <2>3. off[j] + 2 <= Len(e) /\ off[j] = 5 + ItemsOf(cs[j]) /\ ItemsOf(cs[j]) \in {3, 4}
    BY <1>4, <1>6, <2>2, Zenon
  <2>4. PICK x, m : x = off[j] /\ m = ItemsOf(cs[j])
    OBVIOUS
  <2>5. x + 2 <= Len(e) /\ x = 5 + m /\ m \in {3, 4}
    BY <2>3, <2>4, Zenon
  <2>6. Len(e) >= 8
    BY <1>5, <2>5
  <2>7. PICK y : y = off[N]
    OBVIOUS
  <2>8. y \in Nat /\ y + 2 = Len(e)
    BY <1>4, <1>5, <2>7, Zenon
  <2>9. y + 2 \in 1 .. Len(e)
    BY <2>8
  <2> QED
    BY <2>6, <2>7, <2>9, Zenon
(* the head of the entry *)
<1>8. ASSUME NEW q \in 1 .. Len(e), NEW r, r = p + q - 1 PROVE r \in 1 .. Len(s) /\ s[r] = e[q]
  BY <1>8, Zenon DEF EntryIn
<1>9. /\ p \in 1 .. Len(s) /\ s[p] = e[1] /\ p + 1 \in 1 .. Len(s) /\ s[p + 1] = e[2]
      /\ p + 2 \in 1 .. Len(s) /\ s[p + 2] = e[3] /\ p + 3 \in 1 .. Len(s) /\ s[p + 3] = e[4]
      /\ p + 4 \in 1 .. Len(s) /\ s[p + 4] = e[5]
  <2>1. /\ 1 \in 1 .. Len(e) /\ 2 \in 1 .. Len(e) /\ 3 \in 1 .. Len(e) /\ 4 \in 1 .. Len(e)
        /\ 5 \in 1 .. Len(e)
    BY <1>5, <1>7
  <2>2. /\ p = p + 1 - 1 /\ p + 1 = p + 2 - 1 /\ p + 2 = p + 3 - 1 /\ p + 3 = p + 4 - 1
        /\ p + 4 = p + 5 - 1
    OBVIOUS
  <2> QED
    BY <1>8, <2>1, <2>2, Zenon
<1>10. col_count = N
  <2>1. p + 4 \in 1 .. Len(s) /\ s[p + 4] = V(4, N)
    BY <1>4, <1>9, Zenon
  <2> QED
    BY <2>1, ReadItem
<1>11. DESERIALIZER_READ_STRING(s, p) = t.schema
  <2>1. /\ p \in 1 .. Len(s) /\ p + 1 \in 1 .. Len(s) /\ s[p] = V(8, t.schema)
        /\ s[p + 1] = V(t.schema, t.schema)
    BY <1>4, <1>9, Zenon
  <2> QED
    BY <2>1, ReadString
<1>12. DESERIALIZER_READ_STRING(s, p + 2) = t.name
  <2>1. p + 2 + 1 = p + 3
    OBVIOUS
  <2>2. /\ p + 2 \in 1 .. Len(s) /\ p + 2 + 1 \in 1 .. Len(s) /\ s[p + 2] = V(8, t.name)
        /\ s[p + 2 + 1] = V(t.name, t.name)
    BY <1>4, <1>9, <2>1, Zenon
  <2> QED
    BY <2>2, ReadString
(* the columns *)
<1>13. ASSUME NEW i \in 1 .. N, NEW q, q = p + off[i - 1]
       PROVE  /\ DESERIALIZER_READ_STRING(s, q) = cs[i].name /\ type(q) = cs[i].type
              /\ cs[i].type = SQLT_VECTOR => DESERIALIZER_READ(s, q + 3, 2) = cs[i].dim
              /\ Step(q) = p + off[i]
  <2> DEFINE u == off[i - 1]
             m == ItemsOf(cs[i])
  <2>1. /\ u \in Nat /\ off[i] = u + m /\ off[i] + 2 <= Len(e) /\ m \in {3, 4}
        /\ (m = 4 <=> cs[i].type = SQLT_VECTOR)
    BY <1>4, <1>5, <1>6, Zenon
  <2>2. q = p + u
    BY <1>13
  <2>3. /\ e[u + 1] = V(8, cs[i].name) /\ e[u + 2] = V(cs[i].name, cs[i].name)
        /\ e[u + 3] = V(1, cs[i].type)
        /\ (cs[i].type = SQLT_VECTOR => e[u + 4] = V(2, cs[i].dim))
    BY <1>4, Zenon
  <2> HIDE DEF u, m
  <2>4. /\ u + 1 \in 1 .. Len(e) /\ u + 2 \in 1 .. Len(e) /\ u + 3 \in 1 .. Len(e)
        /\ (m = 4 => u + 4 \in 1 .. Len(e))
    BY <1>5, <2>1
  <2>5. q = p + (u + 1) - 1 /\ q + 1 = p + (u + 2) - 1 /\ q + 2 = p + (u + 3) - 1 /\ q + 3 = p + (u + 4) - 1
    <3>1. p \in Nat /\ u \in Nat /\ q = p + u
      BY <2>1, <2>2
    <3> QED
      BY <3>1
  <2>6. /\ q \in 1 .. Len(s) /\ s[q] = V(8, cs[i].name)
        /\ q + 1 \in 1 .. Len(s) /\ s[q + 1] = V(cs[i].name, cs[i].name)
        /\ q + 2 \in 1 .. Len(s) /\ s[q + 2] = V(1, cs[i].type)
    BY <1>8, <2>3, <2>4, <2>5, Zenon
  <2>7. cs[i].type = SQLT_VECTOR => q + 3 \in 1 .. Len(s) /\ s[q + 3] = V(2, cs[i].dim)
    <3> SUFFICES ASSUME cs[i].type = SQLT_VECTOR
                 PROVE  q + 3 \in 1 .. Len(s) /\ s[q + 3] = V(2, cs[i].dim)
      OBVIOUS
    <3>1. u + 4 \in 1 .. Len(e) /\ e[u + 4] = V(2, cs[i].dim) /\ q + 3 = p + (u + 4) - 1
      BY <2>1, <2>3, <2>4, <2>5, Zenon
    <3> QED
      BY <1>8, <3>1, Zenon
  <2>8. DESERIALIZER_READ_STRING(s, q) = cs[i].name
    BY <2>6, ReadString, Zenon
  <2>9. type(q) = cs[i].type
    BY <2>6, ReadItem
  <2>10. cs[i].type = SQLT_VECTOR => DESERIALIZER_READ(s, q + 3, 2) = cs[i].dim
    BY <2>7, ReadItem
  <2>11. Step(q) = p + off[i]
    <3>1. Step(q) = q + m
      BY <2>1, <2>9 DEF m, ItemsOf
    <3> HIDE DEF Step
    <3> QED
      BY <2>1, <2>2, <3>1
  <2> QED
    BY <2>8, <2>9, <2>10, <2>11
<1> DEFINE Is(g) == g = [i \in 0 .. col_count |-> IF i = 0 THEN p + 5 ELSE Step(g[i - 1])]
<1>14. \E g : Is(g)
  <2> DEFINE g == [i \in 0 .. N |-> p + off[i]]
  <2>1. ASSUME NEW i \in 0 .. N PROVE g[i] = IF i = 0 THEN p + 5 ELSE Step(g[i - 1])
    <3>1. CASE i = 0
      BY <1>4, <3>1
    <3>2. CASE i # 0
      <4>1. i \in 1 .. N /\ i - 1 \in 0 .. N
        BY <1>3, <3>2
      <4>2. g[i - 1] = p + off[i - 1] /\ g[i] = p + off[i]
        BY <4>1
      <4>3. Step(g[i - 1]) = p + off[i]
        BY <1>13, <4>1, <4>2, Zenon
      <4> QED
        BY <3>2, <4>2, <4>3, Zenon
    <3> QED
      BY <3>1, <3>2
  <2>2. g = [i \in 0 .. N |-> IF i = 0 THEN p + 5 ELSE Step(g[i - 1])]
    BY <2>1, Zenon
  <2>3. Is(g)
    BY <1>10, <2>2, Zenon
  <2> QED
    BY <2>3, Zenon
<1>15. Is(at)
  BY <1>14, Zenon DEF at
<1> HIDE DEF at
<1>16. \A i \in 0 .. N : at[i] = IF i = 0 THEN p + 5 ELSE Step(at[i - 1])
  BY <1>10, <1>15, Zenon
<1> DEFINE G == {i \in 0 .. N : at[i] = p + off[i]}
<1>17. 0 \in G
  <2>1. 0 \in 0 .. N
    BY <1>3
  <2>2. at[0] = p + 5
    BY <1>16, <2>1, Zenon
  <2> QED
    BY <1>4, <2>1, <2>2
<1>18. ASSUME NEW i \in 0 .. N, i # 0, i - 1 \in G PROVE i \in G
  <2>1. i \in 1 .. N
    BY <1>3, <1>18
  <2>2. at[i - 1] = p + off[i - 1]
    BY <1>18, Zenon
  <2>3. at[i] = p + off[i]
    <3>1. Step(at[i - 1]) = p + off[i]
      BY <1>13, <2>1, <2>2, Zenon
    <3> HIDE DEF Step
    <3> QED
      BY <1>16, <1>18, <3>1, Zenon
  <2> QED
    BY <2>3
<1>19. \A i \in 0 .. N : i \in G
  <2> HIDE DEF G
  <2> QED
    BY <1>3, <1>17, <1>18, UpTo
<1>20. \A i \in 0 .. N : at[i] = p + off[i]
  BY <1>19, Zenon
<1>21. d.end = at[N]
  <2>1. col_count >= 0
    BY <1>3, <1>10
  <2>2. d.end = at[col_count]
    BY <1>0, <2>1, Zenon DEF E
  <2> QED
    BY <1>10, <2>2, Zenon
<1>22. d.end = p + off[N]
  <2>1. N \in 0 .. N
    BY <1>3
  <2> QED
    BY <1>20, <1>21, <2>1, Zenon
<1>23. d.end + 2 = p + Len(e)
  <2>1. PICK y : y = off[N]
    OBVIOUS
  <2>2. y \in Nat /\ y + 2 = Len(e) /\ d.end = p + y
    BY <1>4, <1>5, <1>22, <2>1, Zenon
  <2> QED
    BY <2>2
<1>24. DESERIALIZER_READ(s, d.end + 1, 8) = n
  <2>1. d.end + 1 = p + (off[N] + 2) - 1
    BY <1>5, <1>22
  <2>2. d.end + 1 \in 1 .. Len(s) /\ s[d.end + 1] = V(8, n)
    BY <1>4, <1>7, <1>8, <2>1, Zenon
  <2> QED
    BY <2>2, ReadItem
<1>25. d.info.schema = t.schema /\ d.info.name = t.name
  BY <1>0, <1>11, <1>12, Zenon
<1>26. d.info.columns = [i \in 1 .. N |-> column(i - 1, at[i - 1])]
  BY <1>0, <1>10, Zenon DEF C
<1>27. DOMAIN d.info.columns = 1 .. N /\ Len(d.info.columns) = N
  <2>1. DOMAIN d.info.columns = 1 .. N
    BY <1>26, Zenon
  <2> QED
    BY <1>3, <2>1
<1>28. ASSUME NEW i \in 1 .. N
       PROVE  /\ d.info.columns[i].name = cs[i].name /\ d.info.columns[i].type = cs[i].type
              /\ d.info.columns[i].oid = i - 1
              /\ cs[i].type = SQLT_VECTOR => d.info.columns[i].dim = cs[i].dim
  <2> DEFINE q == at[i - 1]
  <2>1. d.info.columns[i] = column(i - 1, q)
    BY <1>26, Zenon
  <2>2. q = p + off[i - 1]
    BY <1>5, <1>20, Zenon
  <2> HIDE DEF q
  <2>3. /\ DESERIALIZER_READ_STRING(s, q) = cs[i].name /\ type(q) = cs[i].type
        /\ cs[i].type = SQLT_VECTOR => DESERIALIZER_READ(s, q + 3, 2) = cs[i].dim
    BY <1>13, <2>2, Zenon
  <2>4. /\ column(i - 1, q).name = DESERIALIZER_READ_STRING(s, q)
        /\ column(i - 1, q).type = type(q) /\ column(i - 1, q).oid = i - 1
        /\ type(q) = SQLT_VECTOR => column(i - 1, q).dim = DESERIALIZER_READ(s, q + 3, 2)
    BY Zenon
  <2> HIDE DEF column, type
  <2> QED
    BY <2>1, <2>3, <2>4, Zenon
<1> QED
  BY <1>23, <1>24, <1>25, <1>27, <1>28, Zenon DEF ReadFrom, N, cs

(***************************************************************************)
(* The steps and the stream                                                *)
(***************************************************************************)

(* A step that adds no table to the streams keeps the layout.              *)
LEMMA LayoutKept ==
    ASSUME Base, Grows, NEW st, NEW base, Layout(st, base),
           UNCHANGED <<meta, tabledata>>, Len(saved') = Len(saved), Done' = Done,
           \A k \in 1 .. Len(saved) : saved'[k].table = saved[k].table,
           \A k \in 1 .. Done : saved'[k] = saved[k],
           pc' \in Writing => pc \in Writing, pos' = st[Len(loaded') + 1]
    PROVE  Layout(st, base)'
<1>1. /\ st \in [1 .. Len(saved) + 1 -> Nat \ {0}] /\ base \in [1 .. Len(saved) -> Nat]
      /\ st[1] = 1 /\ st[Len(saved) + 1] = Len(meta) + 1
      /\ pc \in Writing => base[Len(saved)] = Len(tabledata)
  BY DEF Layout
<1>2. ASSUME NEW k \in 1 .. Len(saved) PROVE EntryAt(st, base, k)'
  <2>1. EntryAt(st, base, k)
    BY Zenon DEF Layout
  <2> QED
    BY <2>1, Zenon DEF EntryAt
<1>3. ASSUME NEW k \in 1 .. Done PROVE ListsAt(base, k)'
  <2>1. ListsAt(base, k)
    BY Zenon DEF Layout
  <2> QED
    BY <2>1, FileGrows, Zenon DEF ListsAt
<1> QED
  BY <1>1, <1>2, <1>3, Zenon DEF Layout

(* Steps between two tables and inside one: see which tables are done.     *)
LEMMA DoneStays ==
    ASSUME Base, Len(saved') = Len(saved), pc' \in Writing <=> pc \in Writing
    PROVE  Done' = Done
BY DEF Done

LEMMA DoneInRange ==
    ASSUME Base, pc \in Writing => Len(saved) >= 1
    PROVE  Done \in Nat /\ Done <= Len(saved) /\ Len(saved) \in Nat
BY DEF Done, Base

(* Before the file is opened again nothing has been loaded.                *)
LEMMA StreamFrom ==
    ASSUME meta' \in Seq(Item), tabledata' \in Seq(Seq(Pointer)), saved' \in Seq(Saved),
           \E st, base : Layout(st, base)', loaded' = <<>>
    PROVE  StreamInv'
<1>1. <<>> \in Seq({}) /\ Len(<<>>) = 0 /\ Len(saved') \in Nat
  BY EmptySeq
<1>2. Len(loaded') \in 0 .. Len(saved') /\ 1 .. Len(loaded') = {}
  BY <1>1
<1>3. \E S : loaded' \in Seq(S)
  BY <1>1
<1> QED
  BY <1>2, <1>3, Zenon DEF StreamInv

LEMMA NothingLoaded == StreamInv /\ pc # "load" => loaded = <<>>
BY DEF StreamInv

(* Writing rows moves no definition.                                       *)
LEMMA WritingStream ==
    ASSUME Base, StreamInv, saved' \in Seq(Saved), Grows, pc \in Writing, pc' \in Writing,
           UNCHANGED <<meta, tabledata, load>>, Len(saved') = Len(saved), Len(saved) >= 1,
           saved'[Len(saved)].table = saved[Len(saved)].table,
           \A k \in 1 .. Len(saved) - 1 : saved'[k] = saved[k]
    PROVE  StreamInv'
<1>1. PICK st, base : Layout(st, base)
  BY DEF StreamInv
<1>2. loaded = <<>> /\ loaded' = loaded /\ pos' = pos /\ pos = st[Len(loaded) + 1]
  BY <1>1 DEF load, Writing, StreamInv, Layout
<1>3. Done' = Done /\ Done = Len(saved) - 1
  BY DEF Done
<1>4. \A k \in 1 .. Len(saved) : k \in 1 .. Len(saved) - 1 \/ k = Len(saved)
  BY DEF Base
<1>5. \A k \in 1 .. Len(saved) : saved'[k].table = saved[k].table
  BY <1>4, Zenon
<1>6. Layout(st, base)'
  BY <1>1, <1>2, <1>3, <1>5, LayoutKept, Zenon
<1>7. \E s, b : Layout(s, b)'
  <2> HIDE DEF Layout
  <2> QED
    BY <1>6
<1> QED
  BY <1>2, <1>7, StreamFrom, Zenon DEF StreamInv

(* checkpointManager_write_table: another entry.                           *)
LEMMA LayoutNew ==
    ASSUME Base, NEW t \in Tables, NEW st, NEW base, Layout(st, base),
           meta \in Seq(Item), tabledata \in Seq(Seq(Pointer)),
           pc = "tables", pc' = "scan", loaded = <<>>, loaded' = <<>>, pos' = pos,
           UNCHANGED <<tabledata, file>>, meta' = meta \o TableEntry(t, Len(tabledata)),
           saved' = Append(saved, [table |-> t, rows |-> 0])
    PROVE  meta' \in Seq(Item) /\ \E s1, b1 : Layout(s1, b1)'
<1> DEFINE N == Len(saved)
           L == Len(meta)
           x == Len(tabledata)
           e == TableEntry(t, Len(tabledata))
           E == Len(e)
           v == [table |-> t, rows |-> 0]
           s0 == [k \in 1 .. N + 2 |-> IF k = N + 2 THEN L + 1 + E ELSE st[k]]
           b0 == [k \in 1 .. N + 1 |-> IF k = N + 1 THEN x ELSE base[k]]
<1>1. N \in Nat /\ L \in Nat /\ x \in Nat /\ saved \in Seq(Saved)
  BY DEF Base
<1>2. v \in Saved /\ v.table = t
  BY Sizes DEF Saved
<1>3. e \in Seq(Item) /\ E \in Nat
  <2>1. e \in Seq(Item)
    BY <1>1, EntryShape, Zenon
  <2> QED
    BY <2>1
<1>4. /\ st \in [1 .. N + 1 -> Nat \ {0}] /\ base \in [1 .. N -> Nat]
      /\ st[1] = 1 /\ st[N + 1] = L + 1
      /\ \A k \in 1 .. N : EntryAt(st, base, k) /\ ListsAt(base, k)
      /\ pos = st[Len(loaded) + 1]
  BY DEF Layout, Done, Writing
<1> HIDE DEF v, e
<1>5. Len(saved') = N + 1 /\ saved'[N + 1] = v /\ \A k \in 1 .. N : saved'[k] = saved[k]
  BY <1>1, <1>2, AppendProperties DEF v
<1>6. /\ meta' \in Seq(Item) /\ Len(meta') = L + E
      /\ \A q \in 1 .. L : meta'[q] = meta[q]
      /\ \A q \in 1 .. E : meta'[L + q] = e[q]
  <2>1. meta' = meta \o e
    BY DEF e
  <2>2. /\ meta \o e \in Seq(Item) /\ Len(meta \o e) = L + E
        /\ \A q \in 1 .. L : (meta \o e)[q] = meta[q]
        /\ \A q \in 1 .. E : (meta \o e)[L + q] = e[q]
    BY <1>3, Concat, Zenon
  <2> QED
    BY <2>1, <2>2, Zenon
<1> HIDE DEF N, L, x, E
<1>0. PICK s, b : s = s0 /\ b = b0
  OBVIOUS
<1>7. /\ s \in [1 .. N + 2 -> Nat \ {0}] /\ s[N + 2] = L + 1 + E
      /\ \A k \in 1 .. N + 1 : s[k] = st[k]
  <2>1. \A k \in 1 .. N + 1 : k \in 1 .. N + 2 /\ k # N + 2
    BY <1>1
  <2>2. L + 1 + E \in Nat \ {0} /\ N + 2 \in 1 .. N + 2
    BY <1>1, <1>3
  <2>3. \A k \in 1 .. N + 2 : k # N + 2 => k \in 1 .. N + 1
    BY <1>1
  <2>4. \A k \in 1 .. N + 2 : (IF k = N + 2 THEN L + 1 + E ELSE st[k]) \in Nat \ {0}
    BY <1>4, <2>2, <2>3, Zenon
  <2>5. s0 \in [1 .. N + 2 -> Nat \ {0}]
    BY <2>4, Zenon
  <2> QED
    BY <1>0, <2>1, <2>2, <2>5, Zenon
<1>8. b \in [1 .. N + 1 -> Nat] /\ b[N + 1] = x /\ \A k \in 1 .. N : b[k] = base[k]
  <2>1. \A k \in 1 .. N : k \in 1 .. N + 1 /\ k # N + 1
    BY <1>1
  <2>2. N + 1 \in 1 .. N + 1
    BY <1>1
  <2>3. \A k \in 1 .. N + 1 : k # N + 1 => k \in 1 .. N
    BY <1>1
  <2>4. \A k \in 1 .. N + 1 : (IF k = N + 1 THEN x ELSE base[k]) \in Nat
    BY <1>1, <1>4, <2>3, Zenon
  <2>5. b0 \in [1 .. N + 1 -> Nat]
    BY <2>4, Zenon
  <2> QED
    BY <1>0, <2>1, <2>2, <2>5, Zenon
<1> HIDE DEF s0, b0
<1>9. N + 1 + 1 = N + 2 /\ 1 \in 1 .. N + 1 /\ N + 1 \in 1 .. N + 1
  BY <1>1
<1>10. ASSUME NEW k \in 1 .. N PROVE EntryAt(s, b, k)' /\ ListsAt(b, k)'
  <2> DEFINE f == TableEntry(saved[k].table, base[k])
  <2>1. /\ st[k + 1] = st[k] + Len(f) /\ st[k + 1] <= L + 1
        /\ \A q \in 1 .. Len(f) : meta[st[k] + q - 1] = f[q]
    <3>1. EntryAt(st, base, k)
      BY <1>4
    <3> QED
      BY <3>1, Zenon DEF EntryAt, L
  <2>2. k \in 1 .. N + 1 /\ k + 1 \in 1 .. N + 1
    BY <1>1
  <2>3. s[k] = st[k] /\ s[k + 1] = st[k + 1] /\ st[k] \in Nat \ {0} /\ saved'[k] = saved[k] /\ b[k] = base[k]
    BY <1>4, <1>5, <1>7, <1>8, <2>2, Zenon
  <2>4. Len(f) \in Nat
    <3>1. saved[k].table \in Tables /\ base[k] \in Nat
      <4>1. saved[k] \in Saved
        BY <1>1 DEF N
      <4> QED
        BY <1>4, <4>1 DEF Saved
    <3>2. f \in Seq(Item)
      BY <3>1, EntryShape, Zenon
    <3> QED
      BY <3>2
  <2> HIDE DEF f
  <2>5. PICK y, l : y = st[k] /\ l = Len(f)
    OBVIOUS
  <2>6. y \in Nat \ {0} /\ l \in Nat /\ st[k + 1] = y + l /\ y + l <= L + 1
    BY <2>1, <2>3, <2>4, <2>5, Zenon
  <2>7. \A q \in 1 .. l : y + q - 1 \in 1 .. L
    BY <1>1, <2>6
  <2>8. \A q \in 1 .. Len(f) : meta'[s[k] + q - 1] = f[q]
    BY <1>6, <2>1, <2>3, <2>5, <2>7, Zenon
  <2>9. s[k + 1] <= Len(meta') + 1
    BY <1>1, <1>3, <1>6, <2>3, <2>6
  <2>10. s[k + 1] = s[k] + Len(f)
    BY <2>1, <2>3, Zenon
  <2>11. EntryAt(s, b, k)'
    BY <2>3, <2>8, <2>9, <2>10, Zenon DEF EntryAt, f
  <2>12. ListsAt(b, k)'
    <3>1. ListsAt(base, k)
      BY <1>4
    <3> QED
      BY <2>3, <3>1, Zenon DEF ListsAt
  <2> QED
    BY <2>11, <2>12
<1>11. ASSUME NEW j, j = N + 1 PROVE EntryAt(s, b, j)'
  <2>1. TableEntry(saved'[j].table, b[j]) = e
    BY <1>2, <1>5, <1>8, <1>11, Zenon DEF e, x
  <2>2. s[j] = L + 1 /\ s[j + 1] = L + 1 + E
    BY <1>4, <1>7, <1>9, <1>11, Zenon
  <2>3. \A q \in 1 .. E : L + 1 + q - 1 = L + q
    BY <1>1, <1>3
  <2>4. L + 1 + E <= Len(meta') + 1
    BY <1>1, <1>3, <1>6
  <2>5. \A q \in 1 .. E : meta'[L + 1 + q - 1] = e[q]
    BY <1>6, <2>3, Zenon
  <2> DEFINE f == TableEntry(saved'[j].table, b[j])
  <2>6. /\ s[j + 1] = s[j] + Len(f) /\ s[j + 1] <= Len(meta') + 1
        /\ \A q \in 1 .. Len(f) : meta'[s[j] + q - 1] = f[q]
    BY <2>1, <2>2, <2>4, <2>5, Zenon DEF E
  <2> QED
    BY <2>6, Zenon DEF EntryAt
<1>12. \A k \in 1 .. N + 1 : k \in 1 .. N \/ k = N + 1
  BY <1>1
<1>13. pc' \in Writing /\ Done' = N
  BY <1>1, <1>5 DEF Done, Writing
<1>14. s[N + 2] = Len(meta') + 1 /\ s[1] = 1
  <2>1. L + 1 + E = L + E + 1
    BY <1>1, <1>3
  <2> QED
    BY <1>4, <1>6, <1>7, <1>9, <2>1, Zenon
<1>15. pos' = s[Len(loaded') + 1]
  <2>1. Len(loaded') + 1 = 1
    OBVIOUS
  <2> QED
    BY <1>4, <1>14, <2>1, Zenon
<1>16. b[N + 1] = Len(tabledata')
  BY <1>8, Zenon DEF x
<1>17. \A k \in 1 .. N + 1 : EntryAt(s, b, k)'
  BY <1>10, <1>11, <1>12, Zenon
<1>18. Layout(s, b)'
  <2>1. /\ s \in [1 .. Len(saved') + 1 -> Nat \ {0}] /\ b \in [1 .. Len(saved') -> Nat]
        /\ s[Len(saved') + 1] = Len(meta') + 1 /\ b[Len(saved')] = Len(tabledata')
    BY <1>5, <1>7, <1>8, <1>9, <1>14, <1>16, Zenon
  <2> QED
    BY <1>5, <1>10, <1>13, <1>14, <1>15, <1>17, <2>1, Zenon DEF Layout
<1>19. \E s1, b1 : Layout(s1, b1)'
  <2> HIDE DEF Layout
  <2> QED
    BY <1>18
<1> QED
  BY <1>6, <1>19

LEMMA ConcatLists ==
    ASSUME NEW s \in Seq(Seq(Pointer)), NEW r \in Seq(Seq(Pointer))
    PROVE  /\ s \o r \in Seq(Seq(Pointer)) /\ Len(s \o r) = Len(s) + Len(r)
           /\ \A q \in 1 .. Len(s) : (s \o r)[q] = s[q]
           /\ \A q \in 1 .. Len(r) : (s \o r)[Len(s) + q] = r[q]
<1> DEFINE T == Seq(Pointer)
<1> HIDE DEF T
<1>1. s \in Seq(T) /\ r \in Seq(T)
  BY DEF T
<1> QED
  BY <1>1, ConcatProperties DEF T

(* The last flush of the last column: the pointers go to the stream.       *)
LEMMA LayoutDone ==
    ASSUME Base, WriterInv, StreamInv, LastFlush, ~(col < Len(columns)), saved' \in Seq(Saved)
    PROVE  StreamInv'
<1> DEFINE N == Len(columns)
           k == Len(saved)
           x == Len(tabledata)
<1>1. PICK a : a = [writer EXCEPT ![col] = AfterFlush(writer[col])]
  OBVIOUS
<1>2. /\ k >= 1 /\ col \in 1 .. N /\ Grows /\ DOMAIN a = 1 .. N
      /\ \A i \in 1 .. N : ColumnOK(file', a[i], rows, k, i, Width(columns[i]))
      /\ \A i \in 1 .. col : a[i].tuple_count = 0
  BY <1>1, LastFlushed, Zenon
<1>3. /\ N \in Nat \ {0} /\ DOMAIN columns = 1 .. N /\ rows \in Nat /\ k \in Nat /\ k \in 1 .. k
  BY <1>2, TableBeingWritten, Sizes
<1> DEFINE P == [i \in DOMAIN columns |-> a[i].data_pointers]
<1>4. /\ pc = "last" /\ tabledata' = tabledata \o P /\ pc' \in {"tables", "stuck"}
      /\ UNCHANGED <<meta, saved, load>>
  <2> DEFINE after == [writer EXCEPT ![col] = AfterFlush(writer[col])]
             td == tabledata \o [i \in DOMAIN columns |-> after[i].data_pointers]
             stop == IF PointerBytes(td) <= MetaRoom THEN "tables" ELSE "stuck"
  <2>1. /\ pc = "last" /\ tabledata' = td /\ pc' = stop /\ UNCHANGED <<meta, saved, load>>
    BY Zenon DEF LastFlush
  <2>2. stop \in {"tables", "stuck"}
    BY Zenon
  <2>3. td = tabledata \o P
    <3>1. a = after
      BY <1>1
    <3> HIDE DEF after
    <3>2. \A i \in DOMAIN columns : after[i].data_pointers = a[i].data_pointers
      BY <3>1, Zenon
    <3>3. [i \in DOMAIN columns |-> after[i].data_pointers] = P
      BY <3>2, Zenon
    <3> QED
      BY <3>3, Zenon
  <2> HIDE DEF stop, td
  <2> QED
    BY <2>1, <2>2, <2>3, Zenon
<1>5. col = N
  <2>1. N \in Nat /\ col \in 1 .. N /\ ~(col < N)
    BY <1>2, <1>3
  <2> HIDE DEF N
  <2> QED
    BY <2>1
<1>6. ASSUME NEW i \in 1 .. N
      PROVE  /\ P[i] = a[i].data_pointers /\ P[i] \in Seq(Pointer)
             /\ ListOK(file', P[i], rows, k, i, Width(columns[i]))
  <2>1. P[i] = a[i].data_pointers
    BY <1>3, Zenon
  <2>2. ColumnOK(file', a[i], rows, k, i, Width(columns[i])) /\ a[i].tuple_count = 0
    BY <1>2, <1>5, Zenon
  <2>3. /\ a[i].row_number + 0 = rows /\ a[i] \in Writer
        /\ ListOK(file', a[i].data_pointers, a[i].row_number, k, i, Width(columns[i]))
    BY <2>2, Zenon DEF ColumnOK
  <2>4. a[i].row_number = rows
    BY <2>3 DEF Writer
  <2>5. ListOK(file', P[i], rows, k, i, Width(columns[i]))
    BY <2>1, <2>3, <2>4, Zenon
  <2>6. P[i] \in Seq(Pointer)
    BY <2>5, Zenon DEF ListOK
  <2> QED
    BY <2>1, <2>5, <2>6
<1>7. P \in Seq(Seq(Pointer)) /\ Len(P) = N
  <2>1. P = [i \in 1 .. N |-> P[i]]
    BY <1>3, Zenon
  <2> HIDE DEF P
  <2>2. P \in [1 .. N -> Seq(Pointer)]
    BY <1>6, <2>1, Zenon
  <2> HIDE DEF N
  <2> QED
    BY <1>3, <2>2
<1> HIDE DEF P
<1>8. tabledata \in Seq(Seq(Pointer)) /\ meta \in Seq(Item) /\ loaded = <<>>
  BY <1>4 DEF StreamInv
<1>9. /\ tabledata' \in Seq(Seq(Pointer)) /\ Len(tabledata') = x + N
      /\ \A q \in 1 .. x : tabledata'[q] = tabledata[q]
      /\ \A q \in 1 .. N : tabledata'[x + q] = P[q]
  <2>1. /\ tabledata \o P \in Seq(Seq(Pointer)) /\ Len(tabledata \o P) = x + Len(P)
        /\ \A q \in 1 .. x : (tabledata \o P)[q] = tabledata[q]
        /\ \A q \in 1 .. Len(P) : (tabledata \o P)[x + q] = P[q]
    BY <1>7, <1>8, ConcatLists, Zenon
  <2> QED
    BY <1>4, <1>7, <2>1, Zenon
<1>10. x \in Nat
  BY <1>8
<1>11. PICK st, base : Layout(st, base)
  BY DEF StreamInv
<1>12. /\ st \in [1 .. k + 1 -> Nat \ {0}] /\ base \in [1 .. k -> Nat]
       /\ st[1] = 1 /\ st[k + 1] = Len(meta) + 1 /\ base[k] = x
       /\ \A j \in 1 .. k : EntryAt(st, base, j)
       /\ \A j \in 1 .. k - 1 : ListsAt(base, j)
       /\ pos = st[Len(loaded) + 1]
  BY <1>4, <1>11, Zenon DEF Layout, Done, Writing
<1>13. \A j \in 1 .. k : EntryAt(st, base, j)'
  BY <1>4, <1>12, Zenon DEF EntryAt
<1>14. ASSUME NEW j \in 1 .. k - 1 PROVE ListsAt(base, j)'
  <2>1. ASSUME NEW i \in 1 .. Len(saved[j].table.columns)
        PROVE  /\ base[j] + i \in 1 .. Len(tabledata')
               /\ ListOK(file', tabledata'[base[j] + i], saved[j].rows, j, i,
                         Width(saved[j].table.columns[i]))
    <3>1. /\ base[j] + i \in 1 .. x
          /\ ListOK(file, tabledata[base[j] + i], saved[j].rows, j, i,
                    Width(saved[j].table.columns[i]))
      BY <1>12, Zenon DEF ListsAt
    <3>2. PICK u : u = base[j] + i
      OBVIOUS
    <3>3. u \in 1 .. x
      BY <3>1, <3>2, Zenon
    <3> HIDE DEF x, N
    <3>4. u \in 1 .. x + N
      BY <1>3, <1>10, <3>3
    <3> QED
      BY <1>2, <1>9, <3>1, <3>2, <3>3, <3>4, FileGrows, Zenon
  <2> QED
    BY <1>4, <2>1, Zenon DEF ListsAt
<1>15. ASSUME NEW j, j = k PROVE ListsAt(base, j)'
  <2>1. saved[j].table.columns = columns /\ saved[j].rows = rows
    BY <1>15 DEF columns, table, rows
  <2>2. ASSUME NEW i \in 1 .. N
        PROVE  /\ base[j] + i \in 1 .. Len(tabledata')
               /\ ListOK(file', tabledata'[base[j] + i], rows, j, i, Width(columns[i]))
    <3>1. base[j] + i = x + i
      BY <1>12, <1>15, Zenon
    <3> HIDE DEF x, N
    <3>2. x + i \in 1 .. x + N
      BY <1>3, <1>10
    <3> QED
      BY <1>6, <1>9, <1>15, <3>1, <3>2, Zenon
  <2> QED
    BY <1>4, <2>1, <2>2, Zenon DEF ListsAt
<1>16. \A j \in 1 .. k : j \in 1 .. k - 1 \/ j = k
  BY <1>3
<1>17. Done' = k /\ ~(pc' \in Writing) /\ saved' = saved /\ meta' = meta
  BY <1>4 DEF Done, Writing
<1>18. pos' = st[Len(loaded') + 1] /\ loaded' = <<>>
  BY <1>4, <1>8, <1>12, Zenon DEF load
<1>19. \A j \in 1 .. k : ListsAt(base, j)'
  BY <1>14, <1>15, <1>16, Zenon
<1>20. Layout(st, base)'
  BY <1>12, <1>13, <1>17, <1>18, <1>19, Zenon DEF Layout
<1>21. \E s, b : Layout(s, b)'
  <2> HIDE DEF Layout
  <2> QED
    BY <1>20
<1> QED
  BY <1>8, <1>9, <1>17, <1>18, <1>21, StreamFrom, Zenon

(* checkpointManager_read_table: the next table is read back.              *)
LEMMA ReadTableKeeps ==
    ASSUME Base, StreamInv, checkpointManager_read_table
    PROVE  StreamInv'
<1> DEFINE k == Len(loaded) + 1
           n == Len(saved)
           t == saved[k].table
           N == Len(t.columns)
           d == createTableInfo_deserialize(meta, pos)
           td == DESERIALIZER_READ(meta, d.end + 1, 8)
           ps == [i \in DOMAIN d.info.columns |->
                     IF td + i \in DOMAIN tabledata THEN tabledata[td + i] ELSE <<>>]
           r == [info |-> d.info, data_pointers |-> ps]
<1>1. /\ pc = "load" /\ Len(loaded) < n /\ loaded' = Append(loaded, r) /\ pos' = d.end + 2
      /\ UNCHANGED <<pc, meta, tabledata, saved, file>>
  BY Zenon DEF checkpointManager_read_table
<1>2. PICK S : loaded \in Seq(S)
  BY DEF StreamInv
<1>3. /\ meta \in Seq(Item) /\ tabledata \in Seq(Seq(Pointer)) /\ saved \in Seq(Saved)
      /\ Len(loaded) \in Nat /\ n \in Nat /\ k \in 1 .. n /\ Len(meta) \in Nat
  BY <1>1 DEF StreamInv, Base
<1>4. PICK st, base : Layout(st, base)
  BY DEF StreamInv
<1>5. /\ st \in [1 .. n + 1 -> Nat \ {0}] /\ base \in [1 .. n -> Nat]
      /\ \A j \in 1 .. n : EntryAt(st, base, j) /\ ListsAt(base, j)
      /\ pos = st[k]
  BY <1>1, <1>4, Zenon DEF Layout, Done, Writing
<1>6. t \in Tables /\ base[k] \in Nat /\ st[k] \in Nat \ {0}
  <2>1. saved[k] \in Saved /\ k \in 1 .. n + 1
    BY <1>3
  <2>2. base[k] \in Nat /\ st[k] \in Nat \ {0}
    BY <1>3, <1>5, <2>1, Zenon
  <2> QED
    BY <2>1, <2>2 DEF Saved
<1>7. PICK e : e = TableEntry(t, base[k])
  OBVIOUS
<1>8. /\ st[k + 1] = st[k] + Len(e) /\ st[k + 1] <= Len(meta) + 1
      /\ \A q \in 1 .. Len(e) : meta[st[k] + q - 1] = e[q]
  <2>1. EntryAt(st, base, k)
    BY <1>3, <1>5, Zenon
  <2> QED
    BY <1>7, <2>1, Zenon DEF EntryAt
<1>9. Len(e) \in Nat
  <2>1. e \in Seq(Item)
    BY <1>6, <1>7, EntryShape, Zenon
  <2> QED
    BY <2>1
<1> HIDE DEF k, n, t
<1>10. PICK p : p = st[k]
  OBVIOUS
<1>11. p \in Nat \ {0} /\ p + Len(e) <= Len(meta) + 1 /\ st[k + 1] = p + Len(e)
  BY <1>6, <1>8, <1>10, Zenon
<1>12. \A q \in 1 .. Len(e) : p + q - 1 \in 1 .. Len(meta)
  BY <1>3, <1>9, <1>11
<1>13. \A q \in 1 .. Len(e) : p + q - 1 \in 1 .. Len(meta) /\ meta[p + q - 1] = e[q]
  BY <1>8, <1>10, <1>12, Zenon
<1>14. d = createTableInfo_deserialize(meta, p)
  BY <1>5, <1>10, Zenon
<1> HIDE DEF d
<1>15. /\ d.end + 2 = p + Len(e) /\ td = base[k]
       /\ d.info.schema = t.schema /\ d.info.name = t.name
       /\ DOMAIN d.info.columns = 1 .. N
       /\ Len(d.info.columns) = N
       /\ \A i \in 1 .. N :
             /\ d.info.columns[i].name = t.columns[i].name
             /\ d.info.columns[i].type = t.columns[i].type
             /\ d.info.columns[i].oid = i - 1
             /\ t.columns[i].type = SQLT_VECTOR => d.info.columns[i].dim = t.columns[i].dim
  <2>1. PICK x, y, m : x = t /\ y = d /\ m = base[k]
    OBVIOUS
  <2>2. /\ meta \in Seq(Item) /\ x \in Tables /\ m \in Nat /\ p \in Nat \ {0}
        /\ e = TableEntry(x, m) /\ y = createTableInfo_deserialize(meta, p)
    BY <1>3, <1>6, <1>7, <1>11, <1>14, <2>1, Zenon
  <2>3. EntryIn(meta, p, e)
    BY <1>13, Zenon DEF EntryIn
  <2>4. ReadFrom(y, meta, p, e, x, m)
    BY <2>2, <2>3, Deserialize, Zenon
  <2> QED
    BY <2>1, <2>4, Zenon DEF ReadFrom
<1>16. ASSUME NEW i \in 1 .. N
       PROVE  ListOK(file, ps[i], saved[k].rows, k, i, Width(t.columns[i]))
  <2>1. ListsAt(base, k)
    BY <1>3, <1>5, Zenon
  <2>2. /\ base[k] + i \in 1 .. Len(tabledata)
        /\ ListOK(file, tabledata[base[k] + i], saved[k].rows, k, i, Width(t.columns[i]))
    BY <2>1, Zenon DEF ListsAt, t
  <2>3. DOMAIN tabledata = 1 .. Len(tabledata)
    BY <1>3
  <2>4. td + i \in DOMAIN tabledata /\ tabledata[td + i] = tabledata[base[k] + i]
    BY <1>15, <2>2, <2>3, Zenon
  <2> HIDE DEF td
  <2>5. ps[i] = tabledata[td + i]
    BY <1>15, <2>4, Zenon
  <2> QED
    BY <2>2, <2>4, <2>5, Zenon
<1> HIDE DEF ps, td
<1>17. r.info = d.info /\ r.data_pointers = ps
  OBVIOUS
<1> HIDE DEF r
<1>18. /\ loaded' \in Seq(S \cup {r}) /\ Len(loaded') = k /\ loaded'[k] = r
       /\ \A j \in 1 .. k - 1 : loaded'[j] = loaded[j]
  <2>1. loaded \in Seq(S \cup {r})
    BY <1>2
  <2> QED
    BY <1>1, <2>1, AppendProperties DEF k
<1>19. ASSUME NEW j \in 1 .. k - 1 PROVE ReadBack(j)'
  <2>1. ReadBack(j)
    <3>1. j \in 1 .. Len(loaded)
      BY <1>3 DEF k
    <3> QED
      BY <3>1, Zenon DEF StreamInv
  <2>2. loaded'[j] = loaded[j]
    BY <1>18
  <2> QED
    BY <1>1, <2>1, <2>2, Zenon DEF ReadBack
<1>20. ASSUME NEW j, j = k PROVE ReadBack(j)'
  <2>1. saved'[j].table = t /\ loaded'[j].info = d.info /\ loaded'[j].data_pointers = ps
    BY <1>1, <1>17, <1>18, <1>20, Zenon DEF t
  <2>2. \A i \in 1 .. N : ListOK(file', ps[i], saved'[j].rows, j, i, Width(t.columns[i]))
    BY <1>1, <1>16, <1>20, Zenon
  <2> QED
    BY <1>15, <2>1, <2>2, Zenon DEF ReadBack
<1>21. \A j \in 1 .. k : j \in 1 .. k - 1 \/ j = k
  BY <1>3
<1>22. \A j \in 1 .. Len(loaded') : ReadBack(j)'
  BY <1>18, <1>19, <1>20, <1>21, Zenon
<1>23. pos' = st[Len(loaded') + 1]
  BY <1>1, <1>11, <1>15, <1>18, Zenon
<1>24. Layout(st, base)'
  <2>1. Done' = Done /\ Grows
    BY <1>1 DEF Done, Grows
  <2> QED
    BY <1>1, <1>4, <1>23, <2>1, LayoutKept, Zenon
<1>25. \E s, b : Layout(s, b)'
  <2> HIDE DEF Layout
  <2> QED
    BY <1>24
<1>26. Len(loaded') \in 0 .. Len(saved') /\ \E Z : loaded' \in Seq(Z)
  <2>1. k \in 0 .. n
    BY <1>3
  <2> QED
    BY <1>1, <1>18, <2>1, Zenon DEF n
<1> QED
  BY <1>1, <1>3, <1>22, <1>25, <1>26, Zenon DEF StreamInv

LEMMA WriteTableStream ==
    ASSUME Base, StreamInv, NEW t \in Tables, checkpointManager_write_table(t), saved' \in Seq(Saved)
    PROVE  StreamInv'
<1>1. /\ pc = "tables" /\ UNCHANGED <<tabledata, file, max_block>> /\ loaded' = loaded /\ pos' = pos
      /\ loaded = <<>> /\ meta \in Seq(Item) /\ tabledata \in Seq(Seq(Pointer))
  BY DEF checkpointManager_write_table, load, StreamInv
<1>2. PICK st, base : Layout(st, base)
  BY DEF StreamInv
<1>3. CASE pc' = "stuck" /\ UNCHANGED <<meta, saved>>
  <2>1. pos' = st[Len(loaded') + 1] /\ Done' = Done /\ Grows /\ ~(pc' \in Writing)
    BY <1>1, <1>2, <1>3 DEF Layout, Done, Grows, Writing
  <2>2. Layout(st, base)'
    BY <1>1, <1>2, <1>3, <2>1, LayoutKept, Zenon
  <2>3. \E s, b : Layout(s, b)'
    <3> HIDE DEF Layout
    <3> QED
      BY <2>2
  <2> QED
    BY <1>1, <1>3, <2>3, StreamFrom, Zenon
<1>4. CASE /\ meta' = meta \o TableEntry(t, Len(tabledata)) /\ pc' = "scan"
           /\ saved' = Append(saved, [table |-> t, rows |-> 0])
  <2>1. meta' \in Seq(Item) /\ \E s1, b1 : Layout(s1, b1)'
    BY <1>1, <1>2, <1>4, LayoutNew, Zenon
  <2> QED
    BY <1>1, <2>1, StreamFrom, Zenon
<1> QED
  BY <1>3, <1>4, Zenon DEF checkpointManager_write_table

LEMMA ScanStream ==
    ASSUME Base, WriterInv, StreamInv, NEW n \in 0 .. MaxChunk, datatable_scan(n), saved' \in Seq(Saved)
    PROVE  StreamInv'
<1>1. /\ pc \in Writing /\ pc' \in Writing /\ UNCHANGED <<meta, tabledata, load, saved>> /\ Grows
      /\ Len(saved) >= 1
  BY DEF datatable_scan, Writing, Grows, WriterInv, Columns
<1> QED
  BY <1>1, WritingStream, Zenon

LEMMA WriteColumnStream ==
    ASSUME Base, WriterInv, StreamInv, tableDataWriter_writecolumndata, saved' \in Seq(Saved)
    PROVE  StreamInv'
<1>1. /\ pc \in Writing /\ pc' \in Writing /\ UNCHANGED <<meta, tabledata, load>> /\ Len(saved) >= 1
  BY DEF tableDataWriter_writecolumndata, Writing, WriterInv, Columns
<1>2. Grows
  BY ColumnWritten, Zenon
<1>3. saved' = saved \/ saved' = [saved EXCEPT ![Len(saved)].rows = @ + chunk]
  BY DEF tableDataWriter_writecolumndata
<1>4. Len(saved) \in 1 .. Len(saved) /\ saved[Len(saved)] \in Saved /\ saved \in Seq(Saved)
  BY <1>1, TableBeingWritten DEF Base
<1>5. Len(saved') = Len(saved)
  BY <1>3, <1>4
<1>6. saved'[Len(saved)].table = saved[Len(saved)].table
  <2>1. CASE saved' = saved
    BY <2>1
  <2>2. CASE saved' = [saved EXCEPT ![Len(saved)].rows = @ + chunk]
    <3>1. saved'[Len(saved)] = [saved[Len(saved)] EXCEPT !.rows = @ + chunk]
      BY <1>4, <2>2
    <3> QED
      BY <1>4, <3>1 DEF Saved
  <2> QED
    BY <1>3, <2>1, <2>2
<1>7. \A k \in 1 .. Len(saved) - 1 : saved'[k] = saved[k]
  BY <1>3, <1>4
<1> QED
  BY <1>1, <1>2, <1>5, <1>6, <1>7, WritingStream, Zenon

LEMMA LastFlushStream ==
    ASSUME Base, WriterInv, StreamInv, LastFlush, saved' \in Seq(Saved)
    PROVE  StreamInv'
<1>1. PICK a : a = [writer EXCEPT ![col] = AfterFlush(writer[col])]
  OBVIOUS
<1>2. Grows /\ Len(saved) >= 1
  BY <1>1, LastFlushed, Zenon
<1>3. CASE col < Len(columns)
  <2>1. /\ pc \in Writing /\ pc' \in Writing /\ UNCHANGED <<meta, tabledata, load, saved>>
    BY <1>3 DEF LastFlush, Writing
  <2> QED
    BY <1>2, <2>1, WritingStream, Zenon
<1>4. CASE ~(col < Len(columns))
  BY <1>4, LayoutDone, Zenon
<1> QED
  BY <1>3, <1>4

LEMMA OtherStream ==
    ASSUME Base, StreamInv, Reopen \/ Finished \/ UNCHANGED vars
    PROVE  StreamInv'
<1>1. /\ UNCHANGED <<meta, tabledata, saved, file, loaded, pos>>
      /\ pc' = pc \/ (pc = "tables" /\ pc' = "load")
  BY DEF Reopen, Finished, vars, load
<1>2. PICK st, base : Layout(st, base)
  BY DEF StreamInv
<1>3. Done' = Done /\ (pc' \in Writing => pc \in Writing) /\ Grows /\ pos' = st[Len(loaded') + 1]
  BY <1>1, <1>2 DEF Done, Writing, Grows, Layout
<1>4. Layout(st, base)'
  BY <1>1, <1>2, <1>3, LayoutKept, Zenon
<1>5. \E s, b : Layout(s, b)'
  <2> HIDE DEF Layout
  <2> QED
    BY <1>4
<1>6. \A k \in 1 .. Len(loaded) : ReadBack(k)'
  BY <1>1, Zenon DEF StreamInv, ReadBack
<1>7. pc' # "load" => loaded' = <<>>
  BY <1>1 DEF StreamInv
<1> QED
  BY <1>1, <1>5, <1>6, <1>7, Zenon DEF StreamInv

LEMMA StreamStep == StoreInv /\ [Next]_vars => StreamInv'
<1> SUFFICES ASSUME Base, WriterInv, StreamInv, [Next]_vars PROVE StreamInv'
  BY DEF StoreInv
<1>1. saved' \in Seq(Saved)
  <2>1. Base'
    BY WriterStep
  <2> QED
    BY <2>1 DEF Base
<1> QED
  BY <1>1, WriteTableStream, ScanStream, WriteColumnStream, LastFlushStream, OtherStream,
     ReadTableKeeps, Zenon DEF Next

LEMMA StoreInit == Init => StoreInv
<1> SUFFICES ASSUME Init PROVE StoreInv
  OBVIOUS
<1>1. /\ pc = "tables" /\ meta = <<>> /\ tabledata = <<>> /\ saved = <<>> /\ file = <<>>
      /\ max_block = 1 /\ chunk = 0 /\ writer = <<>> /\ loaded = <<>> /\ pos = 1
  BY DEF Init
<1>2. /\ <<>> \in Seq(Item) /\ <<>> \in Seq(Seq(Pointer)) /\ <<>> \in Seq(Saved)
      /\ <<>> \in Seq(Block) /\ <<>> \in Seq({}) /\ Len(<<>>) = 0
  BY EmptySeq
<1>3. Base
  BY <1>1, <1>2, Sizes DEF Base
<1>4. WriterInv
  BY <1>1 DEF WriterInv, Writing
<1>5. PICK st, base : st = [k \in 1 .. 1 |-> 1] /\ base = [k \in 1 .. 0 |-> 0]
  OBVIOUS
<1>6. /\ st \in [1 .. 0 + 1 -> Nat \ {0}] /\ base \in [1 .. 0 -> Nat] /\ st[1] = 1 /\ st[0 + 1] = 0 + 1
      /\ 1 .. 0 = {} /\ 0 + 1 = 1
  BY <1>5
<1>7. Done = 0 /\ ~(pc \in Writing) /\ Len(saved) = 0 /\ Len(meta) = 0 /\ Len(loaded) = 0
  BY <1>1, <1>2 DEF Done, Writing
<1>8. Layout(st, base)
  BY <1>1, <1>6, <1>7, Zenon DEF Layout
<1>9. StreamInv
  <2>1. 0 \in 0 .. 0 /\ 1 .. 0 = {}
    OBVIOUS
  <2>2. \E s, b : Layout(s, b)
    BY <1>8, Zenon
  <2>3. \E S : loaded \in Seq(S)
    BY <1>1, <1>2, Zenon
  <2> QED
    BY <1>1, <1>2, <1>7, <2>1, <2>2, <2>3, Zenon DEF StreamInv
<1> QED
  BY <1>3, <1>4, <1>9 DEF StoreInv

(***************************************************************************)
(* The theorems                                                            *)
(***************************************************************************)

LEMMA Invariance == Spec => []StoreInv
<1>1. StoreInv /\ [Next]_vars => StoreInv'
  BY WriterStep, StreamStep DEF StoreInv
<1> QED
  BY <1>1, StoreInit, PTL DEF Spec

(* A column that is being written.                                         *)
LEMMA OpenColumn ==
    ASSUME Base, WriterInv, NEW i \in DOMAIN writer
    PROVE  /\ pc \in Writing /\ i \in 1 .. Len(columns) /\ Len(saved) >= 1
           /\ Width(columns[i]) \in Widths /\ Taken(i) \in 0 .. MaxRows
           /\ ColumnOK(file, writer[i], Taken(i), Len(saved), i, Width(columns[i]))
<1>1. pc \in Writing
  <2>1. DOMAIN <<>> = {}
    OBVIOUS
  <2> QED
    BY <2>1, Zenon DEF WriterInv
<1>2. Columns
  BY <1>1, Zenon DEF WriterInv
<1>3. /\ i \in 1 .. Len(columns) /\ Len(saved) >= 1
      /\ ColumnOK(file, writer[i], Taken(i), Len(saved), i, Width(columns[i]))
  BY <1>2, Zenon DEF Columns
<1>4. Width(columns[i]) \in Widths /\ rows \in 0 .. MaxRows
  BY <1>3, TableBeingWritten, Zenon
<1>5. Taken(i) \in 0 .. MaxRows
  <2>1. CASE pc = "column" /\ i < col
    <3>1. rows + chunk <= MaxRows /\ chunk \in 0 .. MaxChunk
      BY <2>1 DEF WriterInv, Base
    <3> QED
      BY <1>4, <2>1, <3>1, Sizes DEF Taken
  <2>2. CASE ~(pc = "column" /\ i < col)
    <3>1. rows + 0 = rows
      BY <1>4, Sizes
    <3> QED
      BY <1>4, <2>2, <3>1, Zenon DEF Taken
  <2> QED
    BY <2>1, <2>2
<1> QED
  BY <1>1, <1>3, <1>4, <1>5

(* A table that has been read back.                                        *)
LEMMA LoadedTable ==
    ASSUME Base, StreamInv, NEW k \in DOMAIN loaded
    PROVE  /\ ReadBack(k)
           /\ DOMAIN saved[k].table.columns = 1 .. Len(saved[k].table.columns)
<1>1. PICK S : loaded \in Seq(S)
  BY DEF StreamInv
<1>2. k \in 1 .. Len(loaded) /\ Len(loaded) \in 0 .. Len(saved) /\ Len(saved) \in Nat
  BY <1>1 DEF StreamInv, Base
<1>3. ReadBack(k)
  BY <1>2, Zenon DEF StreamInv
<1>4. saved[k] \in Saved
  BY <1>2 DEF Base
<1>5. saved[k].table \in Tables
  BY <1>4 DEF Saved
<1> QED
  BY <1>3, <1>5, TableColumns, Zenon

(* createTableInfo_deserialize reads back every definition that            *)
(* checkpointManager_write_table_catalog wrote, from one stream, whatever  *)
(* tables precede it: names, types, the dimension of vector columns and    *)
(* the numbers of the columns.                                             *)
THEOREM DefinitionsAreReadBack == Spec => []CatalogRoundTrip
<1>1. ASSUME StoreInv PROVE CatalogRoundTrip
  <2>1. Base /\ StreamInv
    BY <1>1 DEF StoreInv
  <2> QED
    BY <2>1, LoadedTable, Zenon DEF CatalogRoundTrip, ReadBack
<1> QED
  BY <1>1, Invariance, PTL

(* The pointers that TableDataWriter_flush_block leaves tile the rows of   *)
(* each column, while it is written and when it is read back, for any      *)
(* chunks, any widths and any size of a block.                             *)
THEOREM PointersTileRows == Spec => []PointersTile
<1>1. ASSUME StoreInv PROVE PointersTile
  <2>1. Base /\ WriterInv /\ StreamInv
    BY <1>1 DEF StoreInv
  <2>2. ASSUME NEW i \in DOMAIN writer PROVE Tile(writer[i].data_pointers, writer[i].row_number)
    BY <2>1, OpenColumn, Zenon DEF ColumnOK, ListOK
  <2>3. ASSUME NEW k \in DOMAIN loaded, NEW i \in DOMAIN saved[k].table.columns
        PROVE  Tile(loaded[k].data_pointers[i], saved[k].rows)
    <3>1. ReadBack(k) /\ i \in 1 .. Len(saved[k].table.columns)
      BY <2>1, LoadedTable, Zenon
    <3> QED
      BY <3>1, Zenon DEF ReadBack, ListOK
  <2> QED
    BY <2>2, <2>3, Zenon DEF PointersTile
<1> QED
  BY <1>1, Invariance, PTL

(* The block a data pointer names holds the rows of that column and table, *)
(* although the buffers are used again without being cleared and the       *)
(* blocks of all columns and tables are handed out in turn.                *)
THEOREM PointersHoldTheirRows == Spec => []RowsStored
<1>1. ASSUME StoreInv PROVE RowsStored
  <2>1. Base /\ WriterInv /\ StreamInv
    BY <1>1 DEF StoreInv
  <2>2. ASSUME NEW ps, NEW n, NEW k, NEW i, NEW w, ListOK(file, ps, n, k, i, w), NEW p \in Range(ps)
        PROVE  Holds(p, k, i, w)
    <3>1. PICK q \in DOMAIN ps : p = ps[q]
      BY Zenon DEF Range
    <3>2. q \in 1 .. Len(ps)
      BY <2>2 DEF ListOK
    <3>3. PointerOK(file, p, k, i, w)
      BY <2>2, <3>1, <3>2, Zenon DEF ListOK
    <3> QED
      BY <3>3, Zenon DEF PointerOK, Holds
  <2>3. ASSUME NEW i \in DOMAIN writer, NEW p \in Range(writer[i].data_pointers)
        PROVE  Holds(p, Len(saved), i, Width(columns[i]))
    <3>1. ListOK(file, writer[i].data_pointers, writer[i].row_number, Len(saved), i, Width(columns[i]))
      BY <2>1, OpenColumn, Zenon DEF ColumnOK
    <3> QED
      BY <2>2, <3>1, Zenon
  <2>4. ASSUME NEW k \in DOMAIN loaded, NEW i \in DOMAIN saved[k].table.columns,
               NEW p \in Range(loaded[k].data_pointers[i])
        PROVE  Holds(p, k, i, Width(saved[k].table.columns[i]))
    <3>1. ReadBack(k) /\ i \in 1 .. Len(saved[k].table.columns)
      BY <2>1, LoadedTable, Zenon
    <3>2. ListOK(file, loaded[k].data_pointers[i], saved[k].rows, k, i,
                 Width(saved[k].table.columns[i]))
      BY <3>1, Zenon DEF ReadBack
    <3> QED
      BY <2>2, <3>2, Zenon
  <2> QED
    BY <2>3, <2>4, Zenon DEF RowsStored
<1> QED
  BY <1>1, Invariance, PTL

(* flush_if_full keeps every write inside the memory of the block, and     *)
(* past its data area by the header less one value at most.                *)
THEOREM OverrunIsBounded == Spec => []OverrunBounded
<1>1. ASSUME StoreInv PROVE OverrunBounded
  <2>1. Base /\ WriterInv /\ StreamInv
    BY <1>1 DEF StoreInv
  <2>2. ASSUME NEW i \in DOMAIN writer
        PROVE  /\ writer[i].offset \in 0 .. BLOCK_SIZE
               /\ {writer[i].tuple_count, writer[i].row_number} \subseteq 0 .. MaxRows
               /\ writer[i].offset <= DataSize + FILE_BUFFER_HEADER_SIZE - Width(columns[i])
    <3> DEFINE w == Width(columns[i])
               x == writer[i]
               R == Taken(i)
    <3>1. w \in Widths /\ R \in 0 .. MaxRows /\ ColumnOK(file, x, R, Len(saved), i, w)
      BY <2>1, OpenColumn, Zenon
    <3> HIDE DEF w, x, R
    <3>2. /\ x.offset \in Nat /\ x.tuple_count \in Nat /\ x.row_number \in Nat
          /\ x.row_number + x.tuple_count = R /\ x.offset <= BLOCK_SIZE - w
      BY <3>1 DEF ColumnOK, Writer
    <3>3. w \in Nat /\ DataSize + FILE_BUFFER_HEADER_SIZE = BLOCK_SIZE
      BY <3>1, Sizes DEF Widths, DataSize
    <3>4. x.offset \in 0 .. BLOCK_SIZE /\ x.offset <= DataSize + FILE_BUFFER_HEADER_SIZE - w
      BY <3>2, <3>3, Sizes
    <3>5. {x.tuple_count, x.row_number} \subseteq 0 .. MaxRows
      BY <3>1, <3>2, Sizes
    <3> QED
      BY <3>4, <3>5 DEF w, x
  <2>3. \A i \in DOMAIN saved : saved[i].table \in Tables /\ saved[i].rows \in 0 .. MaxRows
    <3>1. ASSUME NEW i \in DOMAIN saved PROVE saved[i] \in Saved
      BY <2>1 DEF Base
    <3> QED
      BY <3>1 DEF Saved
  <2>4. Len(saved) \in 0 .. MaxTables
    BY <2>1, Sizes DEF Base
  <2>5. TypeOK
    BY <2>1, <2>2, <2>3, <2>4, Zenon DEF TypeOK, Base
  <2> QED
    BY <2>2, <2>5, Zenon DEF OverrunBounded
<1> QED
  BY <1>1, Invariance, PTL
=============================================================================
