-------------------------- MODULE MetaBlockProofs --------------------------
(***************************************************************************)
(* Theorems about MetaBlock, for every block size, every length of the     *)
(* stream and every way of cutting it into calls.                          *)
(***************************************************************************)
EXTENDS MetaBlock, SequenceTheorems, TLAPS

Types ==
    /\ pc \in {"idle", "writing", "reading", "done"}
    /\ file \in [Blocks -> Block] /\ w_buf \in Block /\ r_buf \in Block
    /\ max_block \in Blocks /\ w_id \in Blocks
    /\ sent \in Nat /\ total \in Nat
    /\ w_offset \in PtrSize .. Size /\ offset \in PtrSize .. Size /\ write_size \in Nat
    /\ r_offset \in PtrSize .. Size /\ read_size \in Nat
    /\ got \in Seq(Nat)

(* What the writer's buffer holds: the stream from its first byte on up to *)
(* the offset.  A call that fills the block does not come back, so that no *)
(* second block is ever begun.                                             *)
Filled(bytes, o) ==
    \A i \in Offsets : bytes[i] = IF i < o THEN i - PtrSize + 1 ELSE 0

WriterInv ==
    /\ pc = "idle" => /\ total = sent /\ sent = w_offset - PtrSize
                      /\ Filled(w_buf.bytes, w_offset)
                      /\ w_id = 0
    /\ pc = "writing" => /\ total = sent + write_size /\ sent = offset - PtrSize
                         /\ Filled(w_buf.bytes, offset)
                         /\ w_id = 0 \/ (offset = Size /\ write_size > 0)

(* The n-th byte of a chain's k-th block.                                  *)
ByteAt(k, i) == (k - 1) * Payload + (i - PtrSize) + 1

(* The blocks of the chain c hold the stream, each with a link to the next. *)
Holds(c) ==
    /\ Len(c) > 0 /\ c[1] = 0 /\ total <= Len(c) * Payload
    /\ \A k \in 1 .. Len(c) :
         /\ \A i \in Offsets : ByteAt(k, i) <= total => file[c[k]].bytes[i] = ByteAt(k, i)
         /\ k < Len(c) => file[c[k]].next = c[k + 1]

(* The reader is in some block of the chain, at the byte that follows what *)
(* it has read.                                                            *)
ReaderAt(c) ==
    \E k \in 1 .. Len(c) :
      /\ r_buf = file[c[k]]
      /\ Len(got) = (k - 1) * Payload + (r_offset - PtrSize)

ReaderInv ==
    /\ pc \in {"idle", "writing"} => got = <<>>
    /\ pc \in {"done", "reading"} => \E c \in Seq(Blocks) : Holds(c) /\ ReaderAt(c)
    /\ pc = "reading" => Len(got) + read_size <= total

MetaInv == Types /\ WriterInv /\ ReaderInv /\ FlushedBlocksHoldStream /\ RoundTrip

(***************************************************************************)
(* Sizes                                                                   *)
(***************************************************************************)

LEMMA PayloadFacts ==
    /\ Payload \in Nat /\ Payload > 0 /\ PtrSize + Payload = Size
    /\ \A i \in Offsets : i \in Nat /\ PtrSize <= i /\ i < Size
    /\ 0 \in Blocks /\ 1 \in Blocks
BY SizesAssumption DEF Payload, Offsets, Blocks

(* Blocks of a chain lie one payload apart.                                *)
LEMMA Stride ==
    ASSUME NEW k \in Nat, k > 0
    PROVE  (k - 1) * Payload \in Nat /\ k * Payload \in Nat
           /\ k * Payload = (k - 1) * Payload + Payload
BY PayloadFacts, SMT

LEMMA StrideGrows ==
    ASSUME NEW a \in Nat, NEW b \in Nat, a * Payload < b * Payload
    PROVE  a < b
<1>1. SUFFICES ASSUME b <= a PROVE FALSE
  BY SMT
<1>2. PICK d \in Nat : a = b + d
  BY <1>1, SMT
<1>3. PICK p \in Nat : p = Payload
  BY PayloadFacts
<1>4. d * p >= 0 /\ (b + d) * p = b * p + d * p /\ b * p \in Int /\ d * p \in Int
  BY SMT
<1>5. QED
  BY <1>2, <1>3, <1>4, SMT

LEMMA ByteAtFacts ==
    ASSUME NEW k \in Nat, k > 0, NEW i \in Offsets
    PROVE  /\ ByteAt(k, i) \in Nat /\ ByteAt(k, i) > 0
           /\ i > PtrSize => i - 1 \in Offsets /\ ByteAt(k, i) = ByteAt(k, i - 1) + 1
<1>1. (k - 1) * Payload \in Nat
  BY Stride
<1>2. PICK m \in Nat : m = (k - 1) * Payload
  BY <1>1
<1> QED
  BY <1>2, PayloadFacts, SizesAssumption, SMT DEF ByteAt, Offsets

LEMMA ZeroBlockType == ZeroBlock \in Block
BY PayloadFacts, SMT DEF ZeroBlock, Block

LEMMA BlockRecord ==
    ASSUME NEW next \in Blocks \cup {NoId}, NEW bytes \in [Offsets -> Nat]
    PROVE  [next |-> next, bytes |-> bytes] \in Block
BY DEF Block

(***************************************************************************)
(* The initial states                                                      *)
(***************************************************************************)

LEMMA ChainFileHolds ==
    ASSUME NEW t \in 1 .. MaxStream, NEW c \in Chains(t)
    PROVE  /\ c \in Seq(Blocks) /\ Len(c) > 0 /\ c[1] = 0 /\ t <= Len(c) * Payload
           /\ ChainFile(c, t) \in [Blocks -> Block]
           /\ \A k \in 1 .. Len(c) :
                /\ \A i \in Offsets :
                     ByteAt(k, i) <= t => ChainFile(c, t)[c[k]].bytes[i] = ByteAt(k, i)
                /\ k < Len(c) => ChainFile(c, t)[c[k]].next = c[k + 1]
           /\ \A b \in Blocks : \A i \in Offsets :
                /\ ChainFile(c, t)[b].bytes[i] <= t
                /\ i > PtrSize /\ ChainFile(c, t)[b].bytes[i] > 0 =>
                     ChainFile(c, t)[b].bytes[i] = ChainFile(c, t)[b].bytes[i - 1] + 1
<1>1. PICK n \in 1 .. MaxBlocks : c \in [1 .. n -> Blocks]
  BY DEF Chains
<1>2. c \in Seq(Blocks) /\ Len(c) = n /\ n \in Nat /\ n > 0
  BY <1>1, SizesAssumption, SMT
<1>3. /\ \A i, j \in 1 .. n : c[i] = c[j] => i = j
      /\ c[1] = 0 /\ t <= Len(c) * Payload
  BY <1>1, <1>2 DEF Chains
<1>4. t \in Nat
  BY SizesAssumption, SMT
<1> DEFINE Link(k)   == IF k < n THEN c[k + 1] ELSE NoId
           Content(k) == [i \in Offsets |-> IF ByteAt(k, i) <= t THEN ByteAt(k, i) ELSE 0]
           Made(k)   == [next |-> Link(k), bytes |-> Content(k)]
           F == ChainFile(c, t)
<1>5. ASSUME NEW k \in 1 .. n
      PROVE  /\ F[c[k]] = Made(k) /\ c[k] \in Blocks
  <2>1. c[k] \in Blocks
    BY <1>1
  <2>2. (CHOOSE j \in 1 .. Len(c) : c[j] = c[k]) = k
    BY <1>2, <1>3
  <2>3. \E j \in 1 .. Len(c) : c[j] = c[k]
    BY <1>2
  <2> QED
    BY <2>1, <2>2, <2>3, <1>2, Zenon DEF ChainFile, ByteAt
<1>6. ASSUME NEW b \in Blocks, ~ \E k \in 1 .. n : c[k] = b
      PROVE  F[b] = ZeroBlock
  BY <1>2, <1>6, Zenon DEF ChainFile
<1>7. ASSUME NEW k \in 1 .. n
      PROVE  /\ Made(k) \in Block /\ k \in Nat /\ k > 0
             /\ \A i \in Offsets :
                  /\ Content(k)[i] = IF ByteAt(k, i) <= t THEN ByteAt(k, i) ELSE 0
                  /\ Content(k)[i] <= t
                  /\ i > PtrSize /\ Content(k)[i] > 0 => Content(k)[i] = Content(k)[i - 1] + 1
  <2>1. k \in Nat /\ k > 0
    BY <1>2, SMT
  <2>2. Link(k) \in Blocks \cup {NoId}
    BY <1>1, <1>2, SMT
  <2>3. ASSUME NEW i \in Offsets
        PROVE  /\ Content(k)[i] = IF ByteAt(k, i) <= t THEN ByteAt(k, i) ELSE 0
               /\ Content(k)[i] \in Nat
               /\ Content(k)[i] <= t
               /\ i > PtrSize /\ Content(k)[i] > 0 => Content(k)[i] = Content(k)[i - 1] + 1
    <3>1. /\ ByteAt(k, i) \in Nat /\ ByteAt(k, i) > 0
          /\ i > PtrSize => i - 1 \in Offsets /\ ByteAt(k, i) = ByteAt(k, i - 1) + 1
      BY <2>1, ByteAtFacts
    <3>2. i > PtrSize => ByteAt(k, i - 1) \in Nat
      BY <3>1, <2>1, ByteAtFacts
    <3>3. Content(k)[i] = IF ByteAt(k, i) <= t THEN ByteAt(k, i) ELSE 0
      OBVIOUS
    <3>4. i > PtrSize => Content(k)[i - 1] = IF ByteAt(k, i - 1) <= t THEN ByteAt(k, i - 1) ELSE 0
      BY <3>1
    <3> HIDE DEF Content
    <3> QED
      BY <1>4, <3>1, <3>2, <3>3, <3>4, SMT
  <2>4. Content(k) \in [Offsets -> Nat]
    BY <2>3
  <2> QED
    BY <2>1, <2>2, <2>3, <2>4 DEF Block
<1>8. ASSUME NEW b \in Blocks
      PROVE  /\ F[b] \in Block
             /\ \A i \in Offsets :
                  /\ F[b].bytes[i] <= t
                  /\ i > PtrSize /\ F[b].bytes[i] > 0 => F[b].bytes[i] = F[b].bytes[i - 1] + 1
  <2>1. CASE \E k \in 1 .. n : c[k] = b
    <3>1. PICK k \in 1 .. n : c[k] = b
      BY <2>1
    <3>2. F[b] = Made(k) /\ F[b].bytes = Content(k)
      BY <1>5, <3>1
    <3> HIDE DEF F, Content, Made
    <3> QED
      BY <1>7, <3>1, <3>2
  <2>2. CASE ~ \E k \in 1 .. n : c[k] = b
    <3>1. F[b] = ZeroBlock /\ \A i \in Offsets : F[b].bytes[i] = 0
      BY <1>6, <2>2 DEF ZeroBlock
    <3> HIDE DEF F
    <3> QED
      BY <1>4, <3>1, ZeroBlockType, SMT
  <2> QED
    BY <2>1, <2>2
<1>9. F \in [Blocks -> Block]
  <2>1. F = [b \in Blocks |-> F[b]]
    BY DEF ChainFile
  <2> HIDE DEF F
  <2> QED
    BY <1>8, <2>1
<1>10. ASSUME NEW k \in 1 .. Len(c)
       PROVE  /\ \A i \in Offsets : ByteAt(k, i) <= t => F[c[k]].bytes[i] = ByteAt(k, i)
              /\ k < Len(c) => F[c[k]].next = c[k + 1]
  <2>1. k \in 1 .. n
    BY <1>2
  <2>2. F[c[k]] = Made(k)
    BY <1>5, <2>1
  <2>3. F[c[k]].bytes = Content(k) /\ F[c[k]].next = Link(k)
    BY <2>2
  <2> HIDE DEF F
  <2> QED
    BY <1>2, <1>7, <2>1, <2>3
<1> QED
  BY <1>2, <1>3, <1>8, <1>9, <1>10

LEMMA InitInv == Init => MetaInv
<1>1. ASSUME WriterInit PROVE MetaInv
  <2>1. Types
    BY <1>1, PayloadFacts, ZeroBlockType, SizesAssumption, SMT DEF WriterInit, Types
  <2>2. WriterInv
    BY <1>1, PayloadFacts, SizesAssumption, SMT DEF WriterInit, WriterInv, Filled, ZeroBlock
  <2>3. ReaderInv
    BY <1>1 DEF WriterInit, ReaderInv
  <2>4. FlushedBlocksHoldStream
    BY <1>1, PayloadFacts, SMT DEF WriterInit, FlushedBlocksHoldStream, ZeroBlock
  <2>5. RoundTrip
    BY <1>1, SMT DEF WriterInit, RoundTrip
  <2> QED
    BY <2>1, <2>2, <2>3, <2>4, <2>5 DEF MetaInv
<1>2. ASSUME ChainInit PROVE MetaInv
  <2>0. PICK t \in 1 .. MaxStream : \E c \in Chains(t) :
          file = ChainFile(c, t) /\ total = t /\ sent = t /\ r_buf = file[0]
    BY <1>2 DEF ChainInit
  <2>1. PICK c \in Chains(t) :
          file = ChainFile(c, t) /\ total = t /\ sent = t /\ r_buf = file[0]
    BY <2>0
  <2>2. /\ c \in Seq(Blocks) /\ Len(c) > 0 /\ c[1] = 0 /\ t <= Len(c) * Payload
        /\ file \in [Blocks -> Block]
    BY <2>1, ChainFileHolds
  <2>3. Holds(c)
    BY <2>1, <2>2, ChainFileHolds DEF Holds
  <2>4. t \in Nat
    BY SizesAssumption, SMT
  <2>5. Types
    BY <1>2, <2>1, <2>2, <2>4, PayloadFacts, ZeroBlockType, SizesAssumption, SMT DEF ChainInit, Types
  <2>6. WriterInv
    BY <1>2 DEF ChainInit, WriterInv
  <2>7. ReaderAt(c)
    <3>1. 1 \in 1 .. Len(c) /\ r_buf = file[c[1]]
      BY <2>1, <2>2, SMT
    <3>2. Len(got) = (1 - 1) * Payload + (r_offset - PtrSize)
      BY <1>2, PayloadFacts, SizesAssumption, SMT DEF ChainInit
    <3> QED
      BY <3>1, <3>2 DEF ReaderAt
  <2>8. ReaderInv
    BY <1>2, <2>2, <2>3, <2>7 DEF ChainInit, ReaderInv
  <2>9. FlushedBlocksHoldStream
    BY <2>1, ChainFileHolds DEF FlushedBlocksHoldStream
  <2>10. RoundTrip
    BY <1>2, SMT DEF ChainInit, RoundTrip
  <2> QED
    BY <2>5, <2>6, <2>8, <2>9, <2>10 DEF MetaInv
<1> QED
  BY <1>1, <1>2 DEF Init

(***************************************************************************)
(* Steps of the writer                                                     *)
(***************************************************************************)

(* The bytes that follow are copied behind the ones the buffer holds.      *)
LEMMA CopyInFills ==
    ASSUME Types, NEW n \in Nat, offset + n <= Size,
           sent = offset - PtrSize, Filled(w_buf.bytes, offset)
    PROVE  /\ Filled(CopyIn(w_buf.bytes, offset, n), offset + n)
           /\ CopyIn(w_buf.bytes, offset, n) \in [Offsets -> Nat]
<1>1. ASSUME NEW i \in Offsets
      PROVE  /\ CopyIn(w_buf.bytes, offset, n)[i] = IF i < offset + n THEN i - PtrSize + 1 ELSE 0
             /\ i - PtrSize + 1 \in Nat
  <2>1. w_buf.bytes[i] = IF i < offset THEN i - PtrSize + 1 ELSE 0
    BY DEF Filled
  <2>2. offset \in Nat
    BY SizesAssumption, SMT DEF Types
  <2>3. CopyIn(w_buf.bytes, offset, n)[i] =
           IF offset <= i /\ i < offset + n THEN sent + (i - offset) + 1 ELSE w_buf.bytes[i]
    BY DEF CopyIn
  <2> QED
    BY <2>1, <2>2, <2>3, PayloadFacts, SizesAssumption, SMT
<1>2. CopyIn(w_buf.bytes, offset, n) = [i \in Offsets |-> CopyIn(w_buf.bytes, offset, n)[i]]
  BY DEF CopyIn
<1> QED
  BY <1>1, <1>2 DEF Filled

(* A block filled up to an offset holds consecutive bytes.                 *)
LEMMA FilledConsecutive ==
    ASSUME NEW bytes, NEW o \in PtrSize .. Size, Filled(bytes, o),
           NEW t \in Nat, o - PtrSize <= t
    PROVE  \A i \in Offsets :
             /\ bytes[i] <= t
             /\ i > PtrSize /\ bytes[i] > 0 => bytes[i] = bytes[i - 1] + 1
<1>1. SUFFICES ASSUME NEW i \in Offsets
               PROVE  /\ bytes[i] <= t
                      /\ i > PtrSize /\ bytes[i] > 0 => bytes[i] = bytes[i - 1] + 1
  OBVIOUS
<1>2. bytes[i] = IF i < o THEN i - PtrSize + 1 ELSE 0
  BY DEF Filled
<1>3. i > PtrSize => i - 1 \in Offsets
  BY SizesAssumption, SMT DEF Offsets
<1>4. i > PtrSize => bytes[i - 1] = IF i - 1 < o THEN i - 1 - PtrSize + 1 ELSE 0
  BY <1>3, Zenon DEF Filled
<1>5. o \in Nat
  BY SizesAssumption, SMT
<1> QED
  BY <1>2, <1>4, <1>5, PayloadFacts, SizesAssumption, SMT

LEMMA WriteDataStep ==
    ASSUME MetaInv, NEW n \in 1 .. MaxCall, metaBlockWriter_write_data(n)
    PROVE  MetaInv'
<1> USE DEF MetaInv, metaBlockWriter_write_data
<1>1. n \in Nat /\ n > 0
  BY SizesAssumption, SMT
<1>2. Types'
  BY <1>1, SMT DEF Types, reader
<1>3. WriterInv'
  BY <1>1, SMT DEF Types, WriterInv, Filled
<1>4. ReaderInv'
  BY DEF ReaderInv, reader
<1>5. FlushedBlocksHoldStream'
  <2>1. \A b \in Blocks : \A i \in Offsets : file[b].bytes[i] \in Nat
    BY DEF Types, Block
  <2> QED
    BY <2>1, <1>1, SMT DEF Types, FlushedBlocksHoldStream
<1>6. RoundTrip'
  BY DEF RoundTrip, reader
<1> QED
  BY <1>2, <1>3, <1>4, <1>5, <1>6

LEMMA WriteRestStep ==
    ASSUME MetaInv, WriteRest
    PROVE  MetaInv'
<1> USE DEF MetaInv, WriteRest
<1> DEFINE bytes == CopyIn(w_buf.bytes, offset, write_size)
<1>0. write_size \in Nat /\ offset \in PtrSize .. Size /\ offset \in Nat
  BY SizesAssumption, SMT DEF Types
<1>1. Filled(bytes, offset + write_size) /\ bytes \in [Offsets -> Nat]
  BY <1>0, CopyInFills DEF WriterInv
<1>2. w_buf' = [next |-> w_buf.next, bytes |-> bytes] /\ w_buf.next \in Blocks \cup {NoId}
  BY DEF Types, Block
<1> HIDE DEF bytes
<1>3. offset + write_size \in PtrSize .. Size
  BY <1>0, SizesAssumption, SMT
<1>4. Types'
  <2>1. w_buf' \in Block
    <3>1. [next |-> w_buf.next, bytes |-> bytes] \in Block
      BY <1>1, <1>2, BlockRecord
    <3> HIDE DEF WriteRest
    <3> QED
      BY <1>2, <3>1, Zenon
  <2> QED
    <3>1. sent' \in Nat /\ write_size' \in Nat
      BY <1>0, SMT DEF Types
    <3>2. pc' = "idle" /\ offset' \in PtrSize .. Size /\ w_offset' \in PtrSize .. Size
      BY <1>3
    <3>3. /\ file' = file /\ w_id' = w_id /\ total' = total /\ max_block' = max_block
          /\ r_buf' = r_buf /\ r_offset' = r_offset /\ read_size' = read_size /\ got' = got
      BY DEF reader
    <3> QED
      BY <2>1, <3>1, <3>2, <3>3 DEF Types
<1>5. WriterInv'
  <2>1. Filled(w_buf'.bytes, w_offset')
    BY <1>1, <1>2
  <2>2. total' = sent' /\ sent' = w_offset' - PtrSize
    BY <1>0, SizesAssumption, SMT DEF WriterInv, Types
  <2>3. w_id' = 0
    BY <1>0, SizesAssumption, SMT DEF WriterInv
  <2> QED
    BY <2>1, <2>2, <2>3 DEF WriterInv, Filled
<1>6. ReaderInv'
  BY DEF ReaderInv, reader
<1>7. FlushedBlocksHoldStream'
  BY DEF FlushedBlocksHoldStream
<1>8. RoundTrip'
  BY DEF RoundTrip, reader
<1> QED
  BY <1>4, <1>5, <1>6, <1>7, <1>8

LEMMA WriteAcrossStep ==
    ASSUME MetaInv, WriteAcross
    PROVE  MetaInv'
<1> USE DEF MetaInv
<1> DEFINE bytes == CopyIn(w_buf.bytes, offset, Size - offset)
           full  == [next |-> max_block, bytes |-> bytes]
<1>0. /\ write_size \in Nat /\ offset \in PtrSize .. Size /\ offset \in Nat
      /\ Size - offset \in Nat /\ offset + (Size - offset) = Size
      /\ write_size > Size - offset /\ pc = "writing"
  BY SizesAssumption, SMT DEF Types, WriteAcross
<1>1. Filled(bytes, Size) /\ bytes \in [Offsets -> Nat]
  <2>1. offset + (Size - offset) <= Size
    BY <1>0, SMT
  <2>2. sent = offset - PtrSize /\ Filled(w_buf.bytes, offset)
    BY <1>0 DEF WriterInv
  <2> QED
    BY <1>0, <2>1, <2>2, CopyInFills
<1>2. /\ w_buf' = full /\ file' = [file EXCEPT ![w_id] = full]
      /\ w_id' = max_block /\ max_block' = NextId(max_block)
      /\ offset' = Size /\ write_size' = write_size - (Size - offset)
      /\ sent' = sent + (Size - offset) /\ w_offset' = PtrSize
      /\ pc' = pc /\ total' = total /\ reader' = reader
  BY <1>0 DEF WriteAcross
<1> HIDE DEF bytes
<1>3. full \in Block /\ full.bytes = bytes
  BY <1>1 DEF Types, Block
<1> HIDE DEF full
<1>4. Types'
  <2>1. NextId(max_block) \in Blocks
    BY SizesAssumption, SMT DEF NextId, Blocks, Types
  <2>2. file' \in [Blocks -> Block]
    BY <1>2, <1>3 DEF Types
  <2>3. PtrSize \in PtrSize .. Size /\ Size \in PtrSize .. Size
    BY SizesAssumption, SMT
  <2>4. write_size - (Size - offset) \in Nat /\ sent + (Size - offset) \in Nat
    BY <1>0, SizesAssumption, SMT DEF Types
  <2> QED
    BY <1>2, <1>3, <2>1, <2>2, <2>3, <2>4 DEF Types, reader
<1>5. WriterInv'
  <2>1. total' = sent' + write_size' /\ sent' = offset' - PtrSize /\ write_size' > 0
    BY <1>0, <1>2, SizesAssumption, SMT DEF WriterInv, Types
  <2>2. Filled(w_buf'.bytes, offset')
    BY <1>1, <1>2, <1>3
  <2> QED
    BY <1>0, <1>2, <2>1, <2>2 DEF WriterInv, Filled
<1>6. ReaderInv'
  BY <1>0, <1>2 DEF ReaderInv, reader
<1>7. FlushedBlocksHoldStream'
  <2>1. total \in Nat /\ Size - PtrSize <= total /\ Size \in PtrSize .. Size
    BY <1>0, SizesAssumption, SMT DEF WriterInv, Types
  <2>2. \A i \in Offsets :
          /\ bytes[i] <= total
          /\ i > PtrSize /\ bytes[i] > 0 => bytes[i] = bytes[i - 1] + 1
    BY <1>1, <2>1, FilledConsecutive
  <2>3. \A b \in Blocks : file'[b] = IF b = w_id THEN full ELSE file[b]
    BY <1>2 DEF Types
  <2> QED
    BY <1>2, <1>3, <2>2, <2>3 DEF FlushedBlocksHoldStream
<1>8. RoundTrip'
  BY <1>2 DEF RoundTrip, reader
<1> QED
  BY <1>4, <1>5, <1>6, <1>7, <1>8

(***************************************************************************)
(* Steps of the reader                                                     *)
(***************************************************************************)

(* A stream that fits the first block is held by the chain of that block.  *)
LEMMA CloseStep ==
    ASSUME MetaInv, CloseAndOpenReader
    PROVE  MetaInv'
<1> USE DEF MetaInv
<1>0. /\ pc = "idle" /\ pc' = "done" /\ r_buf' = file'[0] /\ r_offset' = PtrSize
      /\ UNCHANGED <<w_id, w_buf, w_offset, offset, write_size, sent, total, max_block, read_size, got>>
      /\ total = w_offset - PtrSize /\ Filled(w_buf.bytes, w_offset) /\ w_id = 0
      /\ got = <<>> /\ total \in Nat /\ w_offset \in PtrSize .. Size
  BY DEF CloseAndOpenReader, writer, WriterInv, ReaderInv, Types
<1>1. file' = IF w_offset > PtrSize THEN [file EXCEPT ![0] = w_buf] ELSE file
  BY <1>0 DEF CloseAndOpenReader
<1>2. file' \in [Blocks -> Block] /\ r_buf' \in Block
  BY <1>0, <1>1, PayloadFacts DEF Types
<1>3. Types'
  <2>1. PtrSize \in PtrSize .. Size
    BY SizesAssumption, SMT
  <2> QED
    BY <1>0, <1>2, <2>1 DEF Types
<1>4. WriterInv'
  BY <1>0 DEF WriterInv
<1> DEFINE c == <<0>>
<1>5. c \in Seq(Blocks) /\ Len(c) = 1 /\ c[1] = 0
  BY PayloadFacts
<1>6. Holds(c)'
  <2>1. total' <= Len(c) * Payload
    BY <1>0, <1>5, PayloadFacts, SizesAssumption, SMT
  <2>2. ASSUME NEW k \in 1 .. Len(c), NEW i \in Offsets, ByteAt(k, i) <= total'
        PROVE  file'[c[k]].bytes[i] = ByteAt(k, i)
    <3>1. k = 1 /\ c[k] = 0
      BY <1>5, SMT
    <3>2. ByteAt(k, i) = i - PtrSize + 1
      BY <3>1, PayloadFacts, SizesAssumption, SMT DEF ByteAt
    <3>3. w_offset > PtrSize /\ i < w_offset
      BY <1>0, <2>2, <3>2, PayloadFacts, SizesAssumption, SMT
    <3>4. file'[0] = w_buf
      BY <1>1, <3>3, PayloadFacts DEF Types
    <3>5. w_buf.bytes[i] = i - PtrSize + 1
      BY <1>0, <3>3 DEF Filled
    <3> QED
      BY <3>1, <3>2, <3>4, <3>5
  <2>3. ASSUME NEW k \in 1 .. Len(c) PROVE ~(k < Len(c))
    BY <1>5, SMT
  <2> HIDE DEF c
  <2> QED
    BY <1>5, <2>1, <2>2, <2>3 DEF Holds, ByteAt
<1>7. ReaderAt(c)'
  <2>1. 1 \in 1 .. Len(c) /\ r_buf' = file'[c[1]]
    BY <1>0, <1>5, SMT
  <2>2. Len(got') = (1 - 1) * Payload + (r_offset' - PtrSize)
    BY <1>0, PayloadFacts, SizesAssumption, SMT
  <2> HIDE DEF c
  <2> QED
    BY <2>1, <2>2 DEF ReaderAt
<1>8. ReaderInv'
  <2> HIDE DEF c
  <2> QED
    BY <1>0, <1>5, <1>6, <1>7 DEF ReaderInv
<1>9. FlushedBlocksHoldStream'
  <2>1. \A i \in Offsets :
          /\ w_buf.bytes[i] <= total
          /\ i > PtrSize /\ w_buf.bytes[i] > 0 => w_buf.bytes[i] = w_buf.bytes[i - 1] + 1
    <3>1. w_offset - PtrSize <= total
      BY <1>0, SizesAssumption, SMT
    <3> QED
      BY <1>0, <3>1, FilledConsecutive
  <2>2. \A b \in Blocks : file'[b] = w_buf \/ file'[b] = file[b]
    BY <1>1 DEF Types
  <2> QED
    BY <1>0, <2>1, <2>2 DEF FlushedBlocksHoldStream
<1>10. RoundTrip'
  BY <1>0 DEF RoundTrip
<1> QED
  BY <1>3, <1>4, <1>8, <1>9, <1>10

LEMMA ReadDataStep ==
    ASSUME MetaInv, NEW n \in 1 .. MaxCall, metaBlockReader_read_data(n)
    PROVE  MetaInv'
<1> USE DEF MetaInv, metaBlockReader_read_data
<1>1. n \in Nat
  BY SizesAssumption, SMT
<1>2. Types'
  BY <1>1 DEF Types, writer
<1>3. WriterInv'
  BY DEF WriterInv
<1>4. ReaderInv'
  <2>1. PICK c \in Seq(Blocks) : Holds(c) /\ ReaderAt(c)
    BY DEF ReaderInv
  <2>2. Holds(c)' /\ ReaderAt(c)'
    BY <2>1 DEF Holds, ReaderAt, writer
  <2> QED
    BY <2>1, <2>2 DEF ReaderInv, writer
<1>5. FlushedBlocksHoldStream'
  BY DEF FlushedBlocksHoldStream, writer
<1>6. RoundTrip'
  BY DEF RoundTrip
<1> QED
  BY <1>2, <1>3, <1>4, <1>5, <1>6

(* What is copied out of a block of the chain continues what was read.     *)
LEMMA CopyOutContinues ==
    ASSUME Types, RoundTrip, NEW c \in Seq(Blocks), Holds(c),
           NEW k \in 1 .. Len(c), r_buf = file[c[k]],
           Len(got) = (k - 1) * Payload + (r_offset - PtrSize),
           NEW n \in Nat, r_offset + n <= Size, Len(got) + n <= total,
           NEW more, more = got \o CopyOut(r_buf.bytes, r_offset, n)
    PROVE  /\ more \in Seq(Nat) /\ Len(more) = Len(got) + n
           /\ \A j \in 1 .. Len(more) : more[j] = j
<1> DEFINE out == CopyOut(r_buf.bytes, r_offset, n)
<1>1. k \in Nat /\ k > 0 /\ (k - 1) * Payload \in Nat
  BY Stride, SMT
<1>2. PICK base \in Nat : base = (k - 1) * Payload
  BY <1>1
<1>3. r_offset \in Nat /\ PtrSize <= r_offset
  BY SizesAssumption, SMT DEF Types
<1>4. ASSUME NEW j \in 1 .. n
      PROVE  /\ r_offset + j - 1 \in Offsets
             /\ r_buf.bytes[r_offset + j - 1] = Len(got) + j
             /\ Len(got) + j \in Nat
  <2>1. r_offset + j - 1 \in Offsets /\ j \in Nat
    BY <1>3, SizesAssumption, SMT DEF Offsets
  <2>2. PICK i \in Offsets : i = r_offset + j - 1
    BY <2>1
  <2>3. ByteAt(k, i) = Len(got) + j /\ Len(got) + j \in Nat /\ ByteAt(k, i) <= total
    BY <1>2, <1>3, <2>1, <2>2, SizesAssumption, PayloadFacts, SMT DEF ByteAt, Types
  <2>4. file[c[k]].bytes[i] = ByteAt(k, i)
    BY <2>3 DEF Holds
  <2> QED
    BY <2>1, <2>2, <2>3, <2>4
<1>5. out \in Seq(Nat) /\ Len(out) = n /\ \A j \in 1 .. n : out[j] = Len(got) + j
  <2>1. out = [j \in 1 .. n |-> r_buf.bytes[r_offset + j - 1]]
    BY DEF CopyOut
  <2>2. out \in [1 .. n -> Nat] /\ \A j \in 1 .. n : out[j] = Len(got) + j
    BY <1>4, <2>1
  <2> HIDE DEF out
  <2> QED
    BY <2>2, SMT
<1> HIDE DEF out
<1>6. got \in Seq(Nat) /\ more = got \o out
  BY DEF Types, out
<1>7. /\ more \in Seq(Nat) /\ Len(more) = Len(got) + n
      /\ \A i \in 1 .. Len(got) + n :
           more[i] = IF i <= Len(got) THEN got[i] ELSE out[i - Len(got)]
  <2>1. /\ got \o out \in Seq(Nat) /\ Len(got \o out) = Len(got) + Len(out)
        /\ \A i \in 1 .. Len(got) + Len(out) :
             (got \o out)[i] = IF i <= Len(got) THEN got[i] ELSE out[i - Len(got)]
    BY <1>5, <1>6, ConcatProperties, Zenon
  <2> QED
    BY <1>5, <1>6, <2>1, Zenon
<1>8. ASSUME NEW j \in 1 .. Len(more) PROVE more[j] = j
  <2>1. PICK g \in Nat : g = Len(got)
    BY <1>6, Zenon, LenProperties
  <2>2. j \in 1 .. g + n /\ more[j] = IF j <= g THEN got[j] ELSE out[j - g]
    BY <1>7, <2>1, Zenon
  <2>3. CASE j <= g
    <3>1. j \in 1 .. g
      BY <2>1, <2>2, <2>3, SMT
    <3> QED
      BY <2>1, <2>2, <2>3, <3>1, Zenon DEF RoundTrip
  <2>4. CASE ~(j <= g)
    <3>1. PICK d \in 1 .. n : d = j - g /\ j = g + d
      BY <2>1, <2>2, <2>4, SMT
    <3>2. more[j] = out[d]
      BY <2>2, <2>4, <3>1, Zenon
    <3> QED
      BY <1>5, <2>1, <3>1, <3>2, Zenon
  <2> QED
    BY <2>3, <2>4
<1> QED
  BY <1>7, <1>8

LEMMA ReadRestStep ==
    ASSUME MetaInv, ReadRest
    PROVE  MetaInv'
<1> USE DEF MetaInv
<1>0. /\ pc = "reading" /\ pc' = "done" /\ r_offset + read_size <= Size
      /\ got' = got \o CopyOut(r_buf.bytes, r_offset, read_size)
      /\ r_offset' = r_offset + read_size /\ read_size' = 0 /\ r_buf' = r_buf /\ file' = file
      /\ UNCHANGED <<w_id, w_buf, w_offset, offset, write_size, sent, total, max_block>>
      /\ read_size \in Nat /\ r_offset \in PtrSize .. Size /\ Len(got) + read_size <= total
  BY DEF ReadRest, writer, Types, ReaderInv
<1>1. PICK c \in Seq(Blocks) : Holds(c) /\ ReaderAt(c)
  BY <1>0 DEF ReaderInv
<1>2. PICK k \in 1 .. Len(c) :
        r_buf = file[c[k]] /\ Len(got) = (k - 1) * Payload + (r_offset - PtrSize)
  BY <1>1 DEF ReaderAt
<1>3. /\ got' \in Seq(Nat) /\ Len(got') = Len(got) + read_size
      /\ \A j \in 1 .. Len(got') : got'[j] = j
  BY <1>0, <1>1, <1>2, CopyOutContinues
<1>4. Types'
  <2>1. r_offset + read_size \in PtrSize .. Size
    BY <1>0, SizesAssumption, SMT
  <2> QED
    BY <1>0, <1>3, <2>1 DEF Types
<1>5. WriterInv'
  BY <1>0 DEF WriterInv
<1>6. ReaderAt(c)'
  <2>1. Len(got') = (k - 1) * Payload + (r_offset' - PtrSize)
    <3>1. k \in Nat /\ k > 0
      BY SMT
    <3>2. PICK base \in Nat : base = (k - 1) * Payload
      BY <3>1, Stride
    <3>3. PICK g \in Nat : g = Len(got)
      BY LenProperties, Zenon DEF Types
    <3>4. PICK h \in Nat : h = Len(got') /\ h = g + read_size
      BY <1>3, <3>3, LenProperties, Zenon
    <3>5. g = base + (r_offset - PtrSize)
      BY <1>2, <3>2, <3>3, Zenon
    <3>6. h = base + (r_offset' - PtrSize)
      BY <1>0, <3>4, <3>5, SizesAssumption, SMT
    <3> QED
      BY <3>2, <3>4, <3>6, Zenon
  <2> QED
    BY <1>0, <1>2, <2>1 DEF ReaderAt
<1>7. Holds(c)'
  BY <1>0, <1>1 DEF Holds
<1>8. ReaderInv'
  BY <1>0, <1>6, <1>7 DEF ReaderInv
<1>9. FlushedBlocksHoldStream'
  BY <1>0 DEF FlushedBlocksHoldStream
<1>10. RoundTrip'
  BY <1>3 DEF RoundTrip
<1> QED
  BY <1>4, <1>5, <1>8, <1>9, <1>10

(* The reader leaves a block only when the chain goes on: more bytes are   *)
(* wanted than the blocks up to here hold.                                 *)
LEMMA ReadAcrossStep ==
    ASSUME MetaInv, ReadAcross
    PROVE  MetaInv'
<1> USE DEF MetaInv
<1> DEFINE to_read == Size - r_offset
<1>0. /\ pc = "reading" /\ pc' = "reading" /\ r_offset + read_size > Size
      /\ got' = got \o CopyOut(r_buf.bytes, r_offset, to_read)
      /\ r_offset' = PtrSize /\ read_size' = read_size - to_read
      /\ r_buf' = file[r_buf.next] /\ file' = file
      /\ UNCHANGED <<w_id, w_buf, w_offset, offset, write_size, sent, total, max_block>>
      /\ read_size \in Nat /\ r_offset \in PtrSize .. Size /\ Len(got) + read_size <= total
      /\ total \in Nat
  BY DEF ReadAcross, writer, Types, ReaderInv
<1>1. PICK c \in Seq(Blocks) : Holds(c) /\ ReaderAt(c)
  BY <1>0 DEF ReaderInv
<1>2. PICK k \in 1 .. Len(c) :
        r_buf = file[c[k]] /\ Len(got) = (k - 1) * Payload + (r_offset - PtrSize)
  BY <1>1 DEF ReaderAt
<1>3. PICK g \in Nat : g = Len(got)
  BY LenProperties, Zenon DEF Types
<1>4. k \in Nat /\ k > 0
  BY SMT
<1>5. PICK base \in Nat : base = (k - 1) * Payload /\ k * Payload = base + Payload
  BY <1>4, Stride
<1>6. g = base + (r_offset - PtrSize) /\ g + read_size <= total
  BY <1>0, <1>2, <1>3, <1>5, Zenon
<1>7. /\ to_read \in Nat /\ r_offset + to_read <= Size /\ g + to_read <= total
      /\ read_size - to_read \in Nat
      /\ base + Payload < total /\ g + to_read = base + Payload
      /\ g + to_read + (read_size - to_read) <= total
  BY <1>0, <1>6, PayloadFacts, SizesAssumption, SMT
<1> HIDE DEF to_read
<1>8. /\ got' \in Seq(Nat) /\ Len(got') = g + to_read
      /\ \A j \in 1 .. Len(got') : got'[j] = j
  <2>1. Len(got) + to_read <= total
    BY <1>3, <1>7
  <2> QED
    BY <1>0, <1>1, <1>2, <1>3, <1>7, <2>1, CopyOutContinues
<1>9. k + 1 \in 1 .. Len(c) /\ k < Len(c) /\ k + 1 - 1 = k
  <2>1. PICK l \in Nat : l = Len(c)
    BY <1>1, LenProperties, Zenon
  <2>2. total <= l * Payload
    BY <1>1, <2>1 DEF Holds
  <2>3. k * Payload \in Nat /\ l * Payload \in Nat
    BY <1>4, <2>1, PayloadFacts, SMT
  <2>4. k * Payload < l * Payload
    <3>1. PICK a \in Nat : a = k * Payload /\ a = base + Payload
      BY <1>5, <2>3
    <3>2. PICK b \in Nat : b = l * Payload /\ total <= b
      BY <2>2, <2>3
    <3>3. a < b
      <4>1. a < total /\ total <= b /\ total \in Nat
        BY <1>0, <1>7, <3>1, <3>2, Zenon
      <4> QED
        BY <4>1, SMT
    <3> QED
      BY <3>1, <3>2, <3>3, Zenon
  <2>5. k < l
    BY <1>4, <2>1, <2>4, StrideGrows
  <2>6. k + 1 \in 1 .. l /\ k + 1 - 1 = k
    BY <1>4, <2>5, SMT
  <2> QED
    BY <2>1, <2>5, <2>6, Zenon
<1>10. r_buf' = file[c[k + 1]] /\ c[k + 1] \in Blocks
  <2>1. file[c[k]].next = c[k + 1]
    BY <1>1, <1>9, Zenon DEF Holds
  <2>2. c[k + 1] \in Blocks
    BY <1>1, <1>9, ElementOfSeq
  <2> QED
    BY <1>0, <1>2, <2>1, <2>2
<1>11. Types'
  <2>1. PtrSize \in PtrSize .. Size
    BY SizesAssumption, SMT
  <2>2. r_buf' \in Block
    BY <1>10 DEF Types
  <2> QED
    BY <1>0, <1>7, <1>8, <2>1, <2>2 DEF Types
<1>12. WriterInv'
  BY <1>0 DEF WriterInv
<1>13. ReaderAt(c)'
  <2>1. PICK m \in 1 .. Len(c) : m = k + 1 /\ m - 1 = k
    BY <1>9
  <2>2. Len(got') = (m - 1) * Payload + (r_offset' - PtrSize)
    <3>1. base + Payload + (PtrSize - PtrSize) = base + Payload
      BY PayloadFacts, SizesAssumption, SMT
    <3>2. Len(got') = base + Payload
      BY <1>7, <1>8
    <3> QED
      BY <1>0, <1>5, <2>1, <3>1, <3>2, Zenon
  <2>3. r_buf' = file'[c[m]]
    BY <1>0, <1>10, <2>1
  <2> QED
    BY <2>2, <2>3 DEF ReaderAt
<1>14. Holds(c)'
  BY <1>0, <1>1 DEF Holds
<1>15. Len(got') + read_size' <= total'
  BY <1>0, <1>7, <1>8
<1>16. ReaderInv'
  BY <1>0, <1>13, <1>14, <1>15 DEF ReaderInv
<1>17. FlushedBlocksHoldStream'
  BY <1>0 DEF FlushedBlocksHoldStream
<1>18. RoundTrip'
  BY <1>8 DEF RoundTrip
<1> QED
  BY <1>11, <1>12, <1>16, <1>17, <1>18

(***************************************************************************)
(* The theorems                                                            *)
(***************************************************************************)

LEMMA StutterStep == MetaInv /\ UNCHANGED vars => MetaInv'
<1>1. SUFFICES ASSUME MetaInv, UNCHANGED vars PROVE MetaInv'
  OBVIOUS
<1> USE <1>1 DEF MetaInv, vars, writer, reader
<1>2. Types'
  BY DEF Types
<1>3. WriterInv'
  BY DEF WriterInv, Filled
<1>4. ReaderInv'
  BY DEF ReaderInv, Holds, ReaderAt
<1>5. FlushedBlocksHoldStream' /\ RoundTrip'
  BY DEF FlushedBlocksHoldStream, RoundTrip
<1> QED
  BY <1>2, <1>3, <1>4, <1>5

LEMMA MetaInvariant == Spec => []MetaInv
<1>1. Init => MetaInv
  BY InitInv
<1>2. MetaInv /\ [Next]_vars => MetaInv'
  BY WriteDataStep, WriteAcrossStep, WriteRestStep, CloseStep, ReadDataStep,
     ReadAcrossStep, ReadRestStep, StutterStep DEF Next, WriteLoop, ReadLoop
<1> QED
  BY <1>1, <1>2, PTL DEF Spec

(* metaBlockReader_read_data gives back the stream byte for byte, whatever *)
(* the block size, however the stream was cut into write_data and          *)
(* read_data calls, and in whatever order its blocks lie in the file.      *)
THEOREM StreamComesBack == Spec => []RoundTrip
BY MetaInvariant, PTL DEF MetaInv

(* A block that metaBlockWriter_flush has written holds consecutive bytes  *)
(* of the stream and none that was not handed to write_data.               *)
THEOREM FlushedBlocksSound == Spec => []FlushedBlocksHoldStream
BY MetaInvariant, PTL DEF MetaInv
=============================================================================
