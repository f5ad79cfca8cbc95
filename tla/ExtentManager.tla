--------------------------- MODULE ExtentManager ---------------------------
(***************************************************************************)
(* SingleFileExtentManager (src/storage/table/storage.c): the block        *)
(* allocator and the two-header checkpoint protocol of a database file.    *)
(*                                                                         *)
(* The file is three HEADER_SIZE slots (0: MasterHeader, 1: H1, 2: H2)     *)
(* followed by the data blocks.  The manager is used by one thread; what   *)
(* interleaves with it is the C library, which hands a buffered fwrite to  *)
(* the operating system when it likes, and the death of the process, which *)
(* loses what is still buffered.  A later process opens the file again.    *)
(*                                                                         *)
(* The caller is the copy-everything checkpoint that the comments of       *)
(* write_header describe: it reads blocks of the current checkpoint, writes*)
(* a complete new one into new blocks, and commits it with write_header.   *)
(* The first block of a checkpoint is its meta block and names the others. *)
(*                                                                         *)
(* Contents are abstracted to the attempt (`tag') that wrote them, so that *)
(* a block or header left over from an attempt that died is never taken    *)
(* for one of a later attempt.                                             *)
(***************************************************************************)
EXTENDS Integers, Sequences

CONSTANTS
    MaxBlocks,       \* bound: block ids are 0 .. MaxBlocks - 1
    MaxIteration,    \* bound: no checkpoint starts beyond this iteration
    MaxLifetimes,    \* bound: how many times the file is opened, creation included
    MaxFresh,        \* bound: blocks the caller writes for one checkpoint
    MaxReads,        \* bound: blocks on used_blocks
    CrashInCreate    \* whether the process may die inside create_new_database(.., true)

ASSUME BoundsAssumption ==
    /\ MaxBlocks \in Nat /\ MaxIteration \in Nat
    /\ MaxLifetimes \in Nat /\ MaxFresh \in Nat /\ MaxReads \in Nat

ASSUME FlagsAssumption == CrashInCreate \in BOOLEAN

INVALID_BLOCK  == -1
VERSION_NUMBER == 1
MAGIC_NUMBER   == 1000      \* 0x5645434442: beyond every iteration count

Blocks == 0 .. MaxBlocks - 1
Slots  == 0 .. 2

(* Both header structures, seen as the DatabaseHeader they are read as:
   magic lies where iteration is, version where meta_block is.             *)
Header == [iteration : Int, meta_block : Int, free_list_id : Int,
           block_count : Int, tag : Nat]

MkHeader(it, meta, list, count, t) ==
    [iteration |-> it, meta_block |-> meta, free_list_id |-> list,
     block_count |-> count, tag |-> t]

MasterHeader == MkHeader(MAGIC_NUMBER, VERSION_NUMBER, 0, 0, 0)
ZeroHeader   == MkHeader(0, 0, 0, 0, 0)       \* a hole in the file
NoHeader     == MkHeader(-1, 0, 0, 0, 0)      \* beyond the end of the file

Content == [kind : {"zero", "meta", "data", "free"}, tag : Nat, ids : Seq(Blocks)]

MkContent(k, t, s) == [kind |-> k, tag |-> t, ids |-> s]

ZeroBlock == MkContent("zero", 0, <<>>)

(* The one fwrite that stdio may still hold: every fseek hands it over.    *)
NoWrite     == [to |-> "none"]
HeaderWrite == [to : {"header"}, at : Slots, val : Header]
BlockWrite  == [to : {"block"}, at : Blocks, val : Content]

VARIABLES
    pc,              \* where the one thread is
    \* SingleFileExtentManager
    active_header, free_list, used_blocks, max_block, meta_block, iteration_count,
    hdr,             \* the `header' argument of write_header while it runs
    fresh,           \* caller: blocks created for the next checkpoint, meta block first
    ckpt,            \* caller: no checkpoint, one being built, or one ready to commit
    \* the file
    file_h, file_b,  \* what the operating system holds
    buf,             \* what stdio still holds
    \* bounds and history
    lifetimes,       \* how often the file was opened
    tag,             \* identifies the current checkpoint attempt
    tainted          \* a lifetime started from a free list at or beyond block_count,
                     \* or a block was read twice between two headers

mgr   == <<active_header, free_list, used_blocks, max_block, meta_block, iteration_count>>
call  == <<hdr, fresh, ckpt>>
file  == <<file_h, file_b, buf>>
hist  == <<lifetimes, tag, tainted>>
vars  == <<pc, mgr, call, file, hist>>

Creating == {"create_h1", "create_h2", "create_sync"}
Writing  == {"wh_list", "wh_header", "wh_sync"}

(***************************************************************************)
(* stdio                                                                   *)
(***************************************************************************)

(* A write beyond the end of the file turns what lies before it into zeros. *)
FillHoles(h, upto) ==
    [s \in Slots |-> IF s < upto /\ h[s] = NoHeader THEN ZeroHeader ELSE h[s]]

FlushedH ==
    IF buf.to = "header" THEN [FillHoles(file_h, buf.at) EXCEPT ![buf.at] = buf.val]
    ELSE IF buf.to = "block" THEN FillHoles(file_h, 3) ELSE file_h

FlushedB ==
    IF buf.to = "block" THEN [file_b EXCEPT ![buf.at] = buf.val] ELSE file_b

(* fseek and fflush hand the buffered write to the operating system.       *)
Flush == file_h' = FlushedH /\ file_b' = FlushedB

file_sync == Flush /\ buf' = NoWrite

file_write_at(w) == Flush /\ buf' = w

WriteHeaderAt(s, h) == file_write_at([to |-> "header", at |-> s, val |-> h])
WriteBlockAt(b, c)  == file_write_at([to |-> "block", at |-> b, val |-> c])

(* stdio may pass the write on before it has to.                           *)
Drain ==
    /\ buf # NoWrite
    /\ file_sync
    /\ UNCHANGED <<pc, mgr, call, hist>>

(***************************************************************************)
(* The operations of the vtable, and the calls the caller makes on them    *)
(***************************************************************************)

(* A free id is taken from the back of free_list; otherwise the file grows. *)
get_free_block_id(id) ==
    \/ /\ free_list # <<>>
       /\ id = free_list[Len(free_list)]
       /\ free_list' = SubSeq(free_list, 1, Len(free_list) - 1)
       /\ UNCHANGED max_block
    \/ /\ free_list = <<>>
       /\ id = max_block
       /\ max_block' = max_block + 1
       /\ UNCHANGED free_list

(* The blocks of the checkpoint the manager runs from.                     *)
CurrentBlocks ==
    IF meta_block \notin Blocks THEN {}
    ELSE {meta_block} \cup
         (IF file_b[meta_block].kind = "meta"
          THEN {file_b[meta_block].ids[i] : i \in 1 .. Len(file_b[meta_block].ids)}
          ELSE {})

(* Mutant: a block read is free at once, not only after the next header.   *)
read_frees(b) ==
    /\ pc = "idle"
    /\ b \in CurrentBlocks
    /\ \A i \in 1 .. Len(free_list) : free_list[i] # b
    /\ free_list' = Append(free_list, b)
    /\ file_sync
    /\ UNCHANGED <<pc, active_header, used_blocks, max_block, meta_block,
                   iteration_count, call, hist>>

(* The caller has read b, or opening the file has, since the last header.  *)
HasRead(b) == \E i \in 1 .. Len(used_blocks) : used_blocks[i] = b

(* read: the id goes to used_blocks, every time; fseek flushes.  A block that
   two tables share is read for each of them.                              *)
read(b) ==
    /\ pc = "idle"
    /\ b \in CurrentBlocks
    /\ Len(used_blocks) < MaxReads
    /\ used_blocks' = Append(used_blocks, b)
    /\ file_sync
    /\ tainted' = (tainted \/ HasRead(b))
    /\ UNCHANGED <<pc, active_header, free_list, max_block, meta_block,
                   iteration_count, call, lifetimes, tag>>

(* MetaBlockWriter_create: the meta block of the next checkpoint.          *)
BeginCheckpoint ==
    /\ pc = "idle" /\ ckpt = "none"
    /\ iteration_count < MaxIteration
    /\ \E id \in Blocks : get_free_block_id(id) /\ fresh' = <<id>>
    /\ ckpt' = "building"
    /\ UNCHANGED <<pc, active_header, used_blocks, meta_block, iteration_count,
                   hdr, file, hist>>

(* TableDataWriter_flush_block: one more data block, allocated and written. *)
FlushBlock ==
    /\ pc = "idle" /\ ckpt = "building"
    /\ Len(fresh) < MaxFresh
    /\ \E id \in Blocks :
          /\ get_free_block_id(id)
          /\ fresh' = Append(fresh, id)
          /\ WriteBlockAt(id, MkContent("data", tag, <<>>))
    /\ UNCHANGED <<pc, active_header, used_blocks, meta_block, iteration_count,
                   hdr, ckpt, hist>>

(* metaBlockWriter_flush: the meta block, which names the data blocks.     *)
FlushMeta ==
    /\ pc = "idle" /\ ckpt = "building"
    /\ WriteBlockAt(fresh[1], MkContent("meta", tag, SubSeq(fresh, 2, Len(fresh))))
    /\ ckpt' = "ready"
    /\ UNCHANGED <<pc, mgr, hdr, fresh, hist>>

(***************************************************************************)
(* write_header, in the steps between which the process can die            *)
(***************************************************************************)

(* block_count is taken before the free-list block is allocated.           *)
write_header_begin ==
    /\ pc = "idle" /\ ckpt = "ready"
    /\ iteration_count' = iteration_count + 1
    /\ \/ /\ used_blocks # <<>>
          /\ \E id \in Blocks :
                /\ get_free_block_id(id)
                /\ hdr' = MkHeader(iteration_count + 1, fresh[1], id, max_block, tag)
          /\ pc' = "wh_list"
       \/ /\ used_blocks = <<>>
          /\ hdr' = MkHeader(iteration_count + 1, fresh[1], INVALID_BLOCK, max_block, tag)
          /\ pc' = "wh_header"
          /\ UNCHANGED <<free_list, max_block>>
    /\ UNCHANGED <<active_header, used_blocks, meta_block, fresh, ckpt, file, hist>>

(* The blocks read since the last header, as the free list of this one.    *)
write_header_list ==
    /\ pc = "wh_list"
    /\ WriteBlockAt(hdr.free_list_id, MkContent("free", tag, used_blocks))
    /\ pc' = "wh_header"
    /\ UNCHANGED <<mgr, call, hist>>

(* Mutant: the counter of the active header is not wrapped around.         *)
write_header_slot_nowrap ==
    /\ pc = "wh_header"
    /\ WriteHeaderAt(IF active_header = 1 THEN 1 ELSE 2, hdr)
    /\ active_header' = active_header + 1
    /\ meta_block' = hdr.meta_block
    /\ pc' = "wh_sync"
    /\ UNCHANGED <<free_list, used_blocks, max_block, iteration_count, call, hist>>

(* Mutant: the active header is overwritten instead of the other one.      *)
write_header_slot_active ==
    /\ pc = "wh_header"
    /\ WriteHeaderAt(IF active_header = 1 THEN 2 ELSE 1, hdr)
    /\ active_header' = 1 - active_header
    /\ meta_block' = hdr.meta_block
    /\ pc' = "wh_sync"
    /\ UNCHANGED <<free_list, used_blocks, max_block, iteration_count, call, hist>>

(* H1 (slot 1) is written when H2 is active, H2 (slot 2) otherwise.        *)
write_header_slot ==
    /\ pc = "wh_header"
    /\ WriteHeaderAt(IF active_header = 1 THEN 1 ELSE 2, hdr)
    /\ active_header' = 1 - active_header
    /\ meta_block' = hdr.meta_block
    /\ pc' = "wh_sync"
    /\ UNCHANGED <<free_list, used_blocks, max_block, iteration_count, call, hist>>

(* Mutant: write_header returns without fileHandle_sync.                   *)
write_header_end_nosync ==
    /\ pc = "wh_sync"
    /\ free_list' = used_blocks
    /\ used_blocks' = <<>>
    /\ fresh' = <<>> /\ ckpt' = "none"
    /\ tag' = tag + 1
    /\ pc' = "idle"
    /\ UNCHANGED <<active_header, max_block, meta_block, iteration_count, hdr,
                   file, lifetimes, tainted>>

(* What was read becomes free; what was left of free_list is forgotten.    *)
write_header_end ==
    /\ pc = "wh_sync"
    /\ file_sync
    /\ free_list' = used_blocks
    /\ used_blocks' = <<>>
    /\ fresh' = <<>> /\ ckpt' = "none"
    /\ tag' = tag + 1
    /\ pc' = "idle"
    /\ UNCHANGED <<active_header, max_block, meta_block, iteration_count, hdr,
                   lifetimes, tainted>>

(***************************************************************************)
(* create_new_database and the end of a lifetime                           *)
(***************************************************************************)

EmptyHeader(it) == MkHeader(it, INVALID_BLOCK, INVALID_BLOCK, 0, 0)

create_master ==
    /\ pc = "none"
    /\ WriteHeaderAt(0, MasterHeader)
    /\ pc' = "create_h1"
    /\ lifetimes' = 1
    /\ UNCHANGED <<mgr, call, tag, tainted>>

create_h1 ==
    /\ pc = "create_h1"
    /\ WriteHeaderAt(1, EmptyHeader(0))
    /\ pc' = "create_h2"
    /\ UNCHANGED <<mgr, call, hist>>

create_h2 ==
    /\ pc = "create_h2"
    /\ WriteHeaderAt(2, EmptyHeader(1))
    /\ pc' = "create_sync"
    /\ UNCHANGED <<mgr, call, hist>>

create_sync ==
    /\ pc = "create_sync"
    /\ file_sync
    /\ active_header' = 1 /\ max_block' = 0
    /\ meta_block' = INVALID_BLOCK /\ iteration_count' = 1
    /\ pc' = "idle"
    /\ tag' = 1
    /\ UNCHANGED <<free_list, used_blocks, call, lifetimes, tainted>>

(* header_buffer after reading slot s: a read beyond the end of the file
   leaves in it what the previous read put there, zeros to begin with.     *)
BufferAt(h, s) ==
    IF h[s] # NoHeader THEN h[s]
    ELSE IF s > 0 /\ h[s-1] # NoHeader THEN h[s-1]
    ELSE IF s > 1 /\ h[0] # NoHeader THEN h[0]
    ELSE ZeroHeader

(* The active_header that opening the file h chooses, and that header.     *)
ActiveIn(h) == IF BufferAt(h, 1).iteration > BufferAt(h, 2).iteration THEN 0 ELSE 1
Newest(h)   == BufferAt(h, ActiveIn(h) + 1)

(* Mutant: iteration_count is left at the zero of mcalloc.                 *)
initialize_manager_uncounted(h, ids) ==
    /\ free_list' = ids
    /\ used_blocks' = IF h.free_list_id # INVALID_BLOCK THEN <<h.free_list_id>> ELSE <<>>
    /\ meta_block' = h.meta_block
    /\ iteration_count' = 0
    /\ max_block' = h.block_count

(* initialize_manager, given the ids that the free-list block yields.      *)
initialize_manager(h, ids) ==
    /\ free_list' = ids
    /\ used_blocks' = IF h.free_list_id # INVALID_BLOCK THEN <<h.free_list_id>> ELSE <<>>
    /\ meta_block' = h.meta_block
    /\ iteration_count' = h.iteration
    /\ max_block' = h.block_count

(* A free-list block holds its ids; a hole reads as a list of length zero. *)
ReadsAsList(b) == file_b[b].kind \in {"free", "zero"}

NewestList == Newest(file_h).free_list_id

open_database ==
    /\ pc = "closed" /\ lifetimes < MaxLifetimes
    /\ BufferAt(file_h, 0).meta_block = VERSION_NUMBER
    /\ active_header' = ActiveIn(file_h)
    /\ lifetimes' = lifetimes + 1
    /\ tag' = tag + 1
    /\ \/ /\ NewestList = INVALID_BLOCK
          /\ initialize_manager(Newest(file_h), <<>>)
          /\ pc' = "idle"
          /\ UNCHANGED tainted
       \/ /\ NewestList \in Blocks /\ ReadsAsList(NewestList)
          /\ initialize_manager(Newest(file_h), file_b[NewestList].ids)
          /\ pc' = "idle"
          /\ tainted' = (tainted \/ NewestList >= Newest(file_h).block_count)
       \/ (* Other bytes are taken for the length and the ids of a list:
             nothing is known of the manager from here on.                 *)
          /\ NewestList \in Blocks /\ ~ReadsAsList(NewestList)
          /\ initialize_manager(Newest(file_h), <<>>)
          /\ pc' = "undefined"
          /\ UNCHANGED tainted
    /\ UNCHANGED <<call, file>>

NoManager ==
    /\ active_header' = 0 /\ free_list' = <<>> /\ used_blocks' = <<>>
    /\ max_block' = 0 /\ meta_block' = INVALID_BLOCK /\ iteration_count' = 0
    /\ hdr' = ZeroHeader /\ fresh' = <<>> /\ ckpt' = "none"

(* fclose flushes; what was not committed is forgotten.                    *)
destory_single_manager ==
    /\ pc = "idle"
    /\ file_sync
    /\ NoManager
    /\ pc' = "closed"
    /\ UNCHANGED hist

(* The process dies and takes stdio's buffer with it.                      *)
Crash ==
    /\ pc \notin {"none", "closed", "undefined"}
    /\ pc \in Creating => CrashInCreate
    /\ buf' = NoWrite
    /\ NoManager
    /\ pc' = "closed"
    /\ UNCHANGED <<file_h, file_b, hist>>

Init ==
    /\ pc = "none"
    /\ active_header = 0 /\ free_list = <<>> /\ used_blocks = <<>>
    /\ max_block = 0 /\ meta_block = INVALID_BLOCK /\ iteration_count = 0
    /\ hdr = ZeroHeader /\ fresh = <<>> /\ ckpt = "none"
    /\ file_h = [s \in Slots |-> NoHeader]
    /\ file_b = [b \in Blocks |-> ZeroBlock]
    /\ buf = NoWrite
    /\ lifetimes = 0 /\ tag = 0 /\ tainted = FALSE

Next ==
    \/ create_master \/ create_h1 \/ create_h2 \/ create_sync
    \/ open_database \/ destory_single_manager \/ Crash \/ Drain
    \/ \E b \in Blocks : read(b)
    \/ BeginCheckpoint \/ FlushBlock \/ FlushMeta
    \/ write_header_begin \/ write_header_list
    \/ write_header_slot \/ write_header_end

Spec == Init /\ [][Next]_vars

(***************************************************************************)
(* Properties                                                              *)
(***************************************************************************)

(* Every variable has the type of the field it stands for.                 *)
TypeOK ==
    /\ pc \in {"none", "closed", "idle", "undefined"} \cup Creating \cup Writing
    /\ active_header \in {0, 1}
    /\ free_list \in Seq(Blocks) /\ used_blocks \in Seq(Blocks)
    /\ fresh \in Seq(Blocks)
    /\ max_block \in Int /\ meta_block \in Int /\ iteration_count \in Int
    /\ hdr \in Header /\ ckpt \in {"none", "building", "ready"}
    /\ file_h \in [Slots -> Header] /\ file_b \in [Blocks -> Content]
    /\ buf \in HeaderWrite \cup BlockWrite \cup {NoWrite}
    /\ lifetimes \in Nat /\ tag \in Nat /\ tainted \in BOOLEAN

Created == pc \notin {"none"} \cup Creating

(* The manager and the file agree on which header is the newest: its slot is
   the active one and its iteration is iteration_count, except between the
   increment at the start of write_header and the moment the new header is in
   the file; and the other slot is always strictly older, so that opening the
   file after a crash at any point is unambiguous.                         *)
HeadersAlternate ==
    Created =>
      /\ file_h[1].iteration # file_h[2].iteration
      /\ pc = "idle" =>
           ActiveIn(file_h) = active_header /\ Newest(file_h).iteration = iteration_count
      /\ pc \in {"wh_list", "wh_header"} =>
           ActiveIn(file_h) = active_header /\ Newest(file_h).iteration = iteration_count - 1
      /\ pc = "wh_sync" =>
           IF buf = NoWrite
           THEN ActiveIn(file_h) = active_header /\ Newest(file_h) = hdr
           ELSE /\ ActiveIn(file_h) = 1 - active_header
                /\ Newest(file_h).iteration = iteration_count - 1

(* A header write never touches the header that recovery would choose, and
   makes its own the one to choose with the next iteration number: a crash
   leaves either the old checkpoint or the new one in charge.              *)
HeaderSwitchAtomic ==
    [][Created /\ <<file_h[1], file_h[2]>>' # <<file_h[1], file_h[2]>> =>
         /\ file_h'[ActiveIn(file_h) + 1] = Newest(file_h)
         /\ Newest(file_h').iteration = Newest(file_h).iteration + 1]_vars

(* The blocks a header refers to hold what its checkpoint wrote there.     *)
Intact(h) ==
    /\ h.meta_block # INVALID_BLOCK =>
         LET m == file_b[h.meta_block] IN
         /\ m.kind = "meta" /\ m.tag = h.tag
         /\ \A i \in 1 .. Len(m.ids) :
               file_b[m.ids[i]] = MkContent("data", h.tag, <<>>)
    /\ h.free_list_id # INVALID_BLOCK =>
         file_b[h.free_list_id].kind = "free" /\ file_b[h.free_list_id].tag = h.tag

(* At every moment the newest header in the file leads to a complete
   checkpoint: no block of it was handed out again and overwritten.        *)
CommittedBlocksIntact ==
    Created => Intact(Newest(file_h))

LiveBlocks(h) ==
    (IF h.meta_block # INVALID_BLOCK
     THEN {h.meta_block} \cup
          {file_b[h.meta_block].ids[i] : i \in 1 .. Len(file_b[h.meta_block].ids)}
     ELSE {})
    \cup (IF h.free_list_id # INVALID_BLOCK THEN {h.free_list_id} ELSE {})

(* A block id that get_free_block_id hands out is free: the blocks of the
   checkpoint being written are pairwise distinct, and none belongs to the
   checkpoint the file would recover to.                                   *)
AllocatedBlocksAreFree ==
    pc = "idle" =>
      /\ \A i, j \in 1 .. Len(fresh) : fresh[i] = fresh[j] => i = j
      /\ \A i \in 1 .. Len(fresh) : fresh[i] \notin LiveBlocks(Newest(file_h))

(* Both of the above, as long as no process has started from a free list that
   lies at or beyond the block_count of its header, and none has read a block
   twice between two headers: such a block is on the next free list twice and
   is handed out twice.                                                    *)
CommittedUnlessTainted == ~tainted => CommittedBlocksIntact /\ AllocatedBlocksAreFree

(* Opening a file adopts a header that creation or a checkpoint wrote.     *)
OpenAdoptsValidHeader ==
    pc = "idle" =>
      iteration_count < MAGIC_NUMBER /\ (meta_block = INVALID_BLOCK \/ iteration_count > 1)

(* Refinement mapping: the checkpoint in charge is the newest header's, and
   the caller has been told of it once write_header is over.               *)
committedIteration == IF Created THEN Newest(file_h).iteration ELSE 1

servingIteration ==
    CASE pc = "idle"    -> iteration_count
      [] pc \in Writing -> iteration_count - 1
      [] OTHER          -> 0

Store == INSTANCE CheckpointStore
           WITH committed <- committedIteration, serving <- servingIteration

(* The extent manager implements the checkpoint store, whatever is lost in
   stdio when the process dies and however often the file is opened.       *)
ImplementsCheckpointStore == Store!Spec
=============================================================================
