----------------------------- MODULE MetaBlock -----------------------------
(***************************************************************************)
(* MetaBlockWriter and MetaBlockReader (src/storage/table/storage.c): a    *)
(* byte stream stored in a chain of blocks.  The first PtrSize bytes of a  *)
(* block's data area are the id of the next block, the rest is payload.    *)
(*                                                                         *)
(* The n-th byte of the stream is the number n, so that a lost, repeated   *)
(* or misplaced byte shows; a byte of a cleared buffer is 0.               *)
(***************************************************************************)
EXTENDS Naturals, Sequences

CONSTANTS
    Size,        \* fb->size: bytes of a block's data area
    PtrSize,     \* sizeof(block_id_t)
    MaxCall,     \* bound: bytes of one write_data or read_data call
    MaxStream,   \* bound: bytes of the whole stream
    MaxBlocks    \* bound: the allocator alternates between its last two ids from here on

ASSUME SizesAssumption ==
    /\ Size \in Nat /\ PtrSize \in Nat /\ 0 < PtrSize /\ PtrSize < Size
    /\ MaxCall \in Nat /\ MaxStream \in Nat /\ MaxBlocks \in Nat \ {0, 1}

Blocks  == 0 .. MaxBlocks - 1
Offsets == PtrSize .. Size - 1

CONSTANT NoId            \* a next pointer that leads nowhere
ASSUME NoIdAssumption == NoId \notin Blocks

Block == [next : Blocks \cup {NoId}, bytes : [Offsets -> Nat]]

ZeroBlock == [next |-> 0, bytes |-> [i \in Offsets |-> 0]]

VARIABLES
    pc,          \* "idle", "writing", "reading": inside which call; "done": writer gone
    file,        \* the blocks as written
    max_block,   \* the manager's next block id
    sent,        \* bytes of the stream copied out of the callers' buffers
    total,       \* bytes of the stream handed to write_data
    \* MetaBlockWriter, and the locals of write_data
    w_id, w_buf, w_offset, offset, write_size,
    \* MetaBlockReader, and the locals of read_data
    r_buf, r_offset, read_size,
    got          \* what the callers of read_data received

writer == <<w_id, w_buf, w_offset, offset, write_size, sent, total, max_block>>
reader == <<r_buf, r_offset, read_size, got>>
vars   == <<pc, file, writer, reader>>

(* memcpy of n bytes of the stream to the buffer's offset o.               *)
CopyIn(bytes, o, n) ==
    [i \in Offsets |-> IF o <= i /\ i < o + n THEN sent + (i - o) + 1 ELSE bytes[i]]

(* memcpy of n bytes out of the buffer from offset o.                      *)
CopyOut(bytes, o, n) == [i \in 1 .. n |-> bytes[o + i - 1]]

(***************************************************************************)
(* Writing                                                                 *)
(***************************************************************************)

(* get_free_block_id of a manager that has nothing to reuse.               *)
NextId(id) == IF id < MaxBlocks - 1 THEN id + 1 ELSE MaxBlocks - 2

metaBlockWriter_write_data(n) ==
    /\ pc = "idle"
    /\ total + n <= MaxStream
    /\ offset' = w_offset /\ write_size' = n /\ total' = total + n
    /\ pc' = "writing"
    /\ UNCHANGED <<file, w_id, w_buf, w_offset, sent, max_block, reader>>

(* One turn of the loop: the rest of the block is filled, a new id is linked
   in and the block is written.  metaBlockWriter_flush resets the writer's
   offset; the local one stays at the end of the block.                    *)
WriteAcross ==
    /\ pc = "writing" /\ offset + write_size > Size
    /\ LET copy_amount == Size - offset
           new_id      == max_block
           full        == [next |-> new_id, bytes |-> CopyIn(w_buf.bytes, offset, copy_amount)]
       IN  /\ w_buf' = full
           /\ file' = [file EXCEPT ![w_id] = full]
           /\ w_id' = new_id
           /\ max_block' = NextId(max_block)
           /\ offset' = offset + copy_amount
           /\ write_size' = write_size - copy_amount
           /\ sent' = sent + copy_amount
    /\ w_offset' = PtrSize
    /\ UNCHANGED <<pc, total, reader>>

(* Mutant: the writer's offset is set to the size just written.            *)
WriteRestAssign ==
    /\ pc = "writing" /\ offset + write_size <= Size
    /\ w_buf' = [w_buf EXCEPT !.bytes = CopyIn(w_buf.bytes, offset, write_size)]
    /\ sent' = sent + write_size
    /\ offset' = offset + write_size
    /\ w_offset' = PtrSize + write_size
    /\ write_size' = 0
    /\ pc' = "idle"
    /\ UNCHANGED <<file, w_id, total, max_block, reader>>

WriteRest ==
    /\ pc = "writing" /\ offset + write_size <= Size
    /\ w_buf' = [w_buf EXCEPT !.bytes = CopyIn(w_buf.bytes, offset, write_size)]
    /\ sent' = sent + write_size
    /\ offset' = offset + write_size
    /\ w_offset' = offset + write_size
    /\ write_size' = 0
    /\ pc' = "idle"
    /\ UNCHANGED <<file, w_id, total, max_block, reader>>

(***************************************************************************)
(* Reading                                                                 *)
(***************************************************************************)

(* metaBlockWriter_deinit flushes what is in the buffer; the reader starts
   with the chain's first block.                                           *)
CloseAndOpenReader ==
    /\ pc = "idle"
    /\ file' = IF w_offset > PtrSize THEN [file EXCEPT ![w_id] = w_buf] ELSE file
    /\ r_buf' = file'[0]
    /\ r_offset' = PtrSize
    /\ pc' = "done"
    /\ UNCHANGED <<writer, read_size, got>>

metaBlockReader_read_data(n) ==
    /\ pc = "done"
    /\ Len(got) + n <= total
    /\ read_size' = n
    /\ pc' = "reading"
    /\ UNCHANGED <<file, writer, r_buf, r_offset, got>>

(* Mutant: the block is used up and no new one is read.                    *)
ReadAcrossStay ==
    /\ pc = "reading" /\ r_offset + read_size > Size
    /\ LET to_read == Size - r_offset
       IN  /\ got' = got \o CopyOut(r_buf.bytes, r_offset, to_read)
           /\ read_size' = read_size - to_read
    /\ r_offset' = Size
    /\ UNCHANGED <<pc, file, writer, r_buf>>

(* One turn of the loop: what is left of the block, then the next block.   *)
ReadAcross ==
    /\ pc = "reading" /\ r_offset + read_size > Size
    /\ LET to_read == Size - r_offset
       IN  /\ got' = got \o CopyOut(r_buf.bytes, r_offset, to_read)
           /\ read_size' = read_size - to_read
    /\ r_buf' = file[r_buf.next]
    /\ r_offset' = PtrSize
    /\ UNCHANGED <<pc, file, writer>>

(* Mutant: the reader's offset is not advanced.                            *)
ReadRestStay ==
    /\ pc = "reading" /\ r_offset + read_size <= Size
    /\ got' = got \o CopyOut(r_buf.bytes, r_offset, read_size)
    /\ read_size' = 0
    /\ pc' = "done"
    /\ UNCHANGED <<file, writer, r_buf, r_offset>>

ReadRest ==
    /\ pc = "reading" /\ r_offset + read_size <= Size
    /\ got' = got \o CopyOut(r_buf.bytes, r_offset, read_size)
    /\ r_offset' = r_offset + read_size
    /\ read_size' = 0
    /\ pc' = "done"
    /\ UNCHANGED <<file, writer, r_buf>>

WriteLoop == WriteAcross \/ WriteRest
ReadLoop  == ReadAcross \/ ReadRest

(***************************************************************************)
(* Where a behaviour starts                                                *)
(***************************************************************************)

Payload == Size - PtrSize

(* The format: the chain c of block ids holds the bytes 1 .. t.            *)
ChainFile(c, t) ==
    [b \in Blocks |->
       IF \E k \in 1 .. Len(c) : c[k] = b
       THEN LET k == CHOOSE k \in 1 .. Len(c) : c[k] = b
                byte(i) == (k - 1) * Payload + (i - PtrSize) + 1
            IN  [next  |-> IF k < Len(c) THEN c[k + 1] ELSE NoId,
                 bytes |-> [i \in Offsets |-> IF byte(i) <= t THEN byte(i) ELSE 0]]
       ELSE ZeroBlock]

Chains(t) ==
    {c \in UNION {[1 .. n -> Blocks] : n \in 1 .. MaxBlocks} :
       /\ \A i, j \in DOMAIN c : c[i] = c[j] => i = j
       /\ c[1] = 0
       /\ (Len(c) - 1) * Payload < t /\ t <= Len(c) * Payload}

(* MetaBlockWriter_init has taken block 0 from an empty manager.           *)
WriterInit ==
    /\ pc = "idle"
    /\ file = [b \in Blocks |-> ZeroBlock]
    /\ max_block = 1
    /\ sent = 0 /\ total = 0
    /\ w_id = 0 /\ w_buf = ZeroBlock /\ w_offset = PtrSize
    /\ offset = PtrSize /\ write_size = 0
    /\ r_buf = ZeroBlock /\ r_offset = PtrSize /\ read_size = 0 /\ got = <<>>

(* An earlier process has left a chain of blocks, in any order.            *)
ChainInit ==
    /\ pc = "done"
    /\ \E t \in 1 .. MaxStream : \E c \in Chains(t) :
          /\ file = ChainFile(c, t)
          /\ total = t /\ sent = t
          /\ r_buf = file[0]
    /\ max_block = 0 /\ w_id = 0 /\ w_buf = ZeroBlock /\ w_offset = PtrSize
    /\ offset = PtrSize /\ write_size = 0
    /\ r_offset = PtrSize /\ read_size = 0 /\ got = <<>>

Init == WriterInit \/ ChainInit

Next ==
    \/ \E n \in 1 .. MaxCall : metaBlockWriter_write_data(n)
    \/ WriteLoop
    \/ CloseAndOpenReader
    \/ \E n \in 1 .. MaxCall : metaBlockReader_read_data(n)
    \/ ReadLoop

(* A call that has been entered runs on.                                   *)
Spec == Init /\ [][Next]_vars /\ WF_vars(WriteLoop) /\ WF_vars(ReadLoop)

(***************************************************************************)
(* Properties                                                              *)
(***************************************************************************)

(* The readers get the stream: no byte lost, repeated or out of place, for
   any way of cutting it into calls.                                       *)
RoundTrip == \A i \in 1 .. Len(got) : got[i] = i

(* Whatever is in the file of a stream is that stream's data: a block that
   was flushed holds consecutive bytes, and none beyond those handed in.   *)
FlushedBlocksHoldStream ==
    \A b \in Blocks : \A i \in Offsets :
      /\ file[b].bytes[i] <= total
      /\ i > PtrSize /\ file[b].bytes[i] > 0 => file[b].bytes[i] = file[b].bytes[i - 1] + 1

(* A read_data call on a chain that holds enough bytes returns.            *)
ReadReturns == pc = "reading" ~> pc = "done"

(* A write_data call returns.                                              *)
WriteReturns == pc = "writing" ~> pc = "idle"
=============================================================================
