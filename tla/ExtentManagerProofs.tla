------------------------ MODULE ExtentManagerProofs ------------------------
(***************************************************************************)
(* Proofs about ExtentManager, for every value of its bounds: types, the    *)
(* agreement of manager and file on the newest header, the atomicity of the *)
(* header switch, and the safety of the committed blocks.                   *)
(***************************************************************************)
EXTENDS ExtentManager, SequenceTheorems, TLAPS

(* What a flush leaves in the file has the type of a file.                 *)
LEMMA FlushTypes ==
    ASSUME TypeOK
    PROVE  FlushedH \in [Slots -> Header] /\ FlushedB \in [Blocks -> Content]
<1>1. ZeroHeader \in Header
  BY DEF ZeroHeader, MkHeader, Header
<1>2. \A n : FillHoles(file_h, n) \in [Slots -> Header]
  BY <1>1 DEF FillHoles, TypeOK
<1>3. FlushedH \in [Slots -> Header]
  BY <1>2 DEF FlushedH, TypeOK, HeaderWrite, BlockWrite, NoWrite
<1>4. FlushedB \in [Blocks -> Content]
  BY DEF FlushedB, TypeOK, HeaderWrite, BlockWrite, NoWrite
<1> QED
  BY <1>3, <1>4

(* A part of a sequence of blocks is a sequence of blocks.                 *)
LEMMA SubSeqTypes ==
    ASSUME NEW S, NEW s \in Seq(S), NEW m \in Nat, m > 0, NEW n \in Int, n <= Len(s)
    PROVE  SubSeq(s, m, n) \in Seq(S)
<1>1. \A i \in m .. n : s[i] \in S
  OBVIOUS
<1> QED
  BY <1>1, SubSeqProperties

(* What get_free_block_id leaves behind are block ids.                     *)
LEMMA GetFreeTypes ==
    ASSUME TypeOK, NEW id \in Blocks, get_free_block_id(id)
    PROVE  free_list' \in Seq(Blocks) /\ max_block' \in Int
<1>1. SubSeq(free_list, 1, Len(free_list) - 1) \in Seq(Blocks)
  BY SubSeqTypes DEF TypeOK
<1>2. CASE free_list # <<>>
  BY <1>1, <1>2 DEF get_free_block_id, TypeOK
<1>3. CASE free_list = <<>>
  BY <1>3 DEF get_free_block_id, TypeOK
<1> QED
  BY <1>2, <1>3

(* The constant headers and contents have their types.                     *)
LEMMA ConstantTypes ==
    /\ ZeroHeader \in Header /\ NoHeader \in Header /\ MasterHeader \in Header
    /\ EmptyHeader(0) \in Header /\ EmptyHeader(1) \in Header
    /\ ZeroBlock \in Content
  BY DEF ZeroHeader, NoHeader, MasterHeader, EmptyHeader, MkHeader, Header, ZeroBlock,
         MkContent, Content, MAGIC_NUMBER, VERSION_NUMBER, INVALID_BLOCK

(* The header that opening chooses has the type of a header.               *)
LEMMA NewestTypes ==
    ASSUME TypeOK
    PROVE  ActiveIn(file_h) \in {0, 1} /\ Newest(file_h) \in Header
<1>1. \A s \in Slots : BufferAt(file_h, s) \in Header
  BY ConstantTypes DEF TypeOK, Slots, BufferAt
<1> QED
  BY <1>1 DEF ActiveIn, Newest, Slots

(* While the free list is being written, its block is one of the file's; and
   a checkpoint, once begun, has a meta block.                             *)
ListBlockOK ==
    /\ pc = "wh_list" => hdr.free_list_id \in Blocks
    /\ ckpt # "none" => fresh # <<>>

TypeInv == TypeOK /\ ListBlockOK

(* Every step of the manager, of stdio and of the environment keeps the
   types; the block ids it handles stay block ids of the file.             *)
LEMMA TypeStep ==
    ASSUME TypeInv, [Next]_vars
    PROVE  TypeInv'
<1> USE DEF TypeInv
<1>t. FlushedH \in [Slots -> Header] /\ FlushedB \in [Blocks -> Content]
  BY FlushTypes
<1>n. NoWrite \in HeaderWrite \cup BlockWrite \cup {NoWrite}
  OBVIOUS
<1>e. <<>> \in Seq(Blocks)
  OBVIOUS
<1>h. ASSUME NEW s \in Slots, NEW h \in Header, WriteHeaderAt(s, h)
      PROVE  /\ file_h' \in [Slots -> Header] /\ file_b' \in [Blocks -> Content]
             /\ buf' \in HeaderWrite \cup BlockWrite \cup {NoWrite}
  BY <1>t, <1>h DEF WriteHeaderAt, file_write_at, Flush, HeaderWrite
<1>b. ASSUME NEW b \in Blocks, NEW c \in Content, WriteBlockAt(b, c)
      PROVE  /\ file_h' \in [Slots -> Header] /\ file_b' \in [Blocks -> Content]
             /\ buf' \in HeaderWrite \cup BlockWrite \cup {NoWrite}
  BY <1>t, <1>b DEF WriteBlockAt, file_write_at, Flush, BlockWrite
<1>s. ASSUME file_sync
      PROVE  /\ file_h' \in [Slots -> Header] /\ file_b' \in [Blocks -> Content]
             /\ buf' \in HeaderWrite \cup BlockWrite \cup {NoWrite}
  BY <1>t, <1>s DEF file_sync, Flush
<1>1. CASE create_master
  BY <1>1, <1>h, ConstantTypes DEF create_master, TypeOK, ListBlockOK, Creating, mgr, call, Slots
<1>2. CASE create_h1
  BY <1>2, <1>h, ConstantTypes DEF create_h1, TypeOK, ListBlockOK, Creating, mgr, call, hist, Slots
<1>3. CASE create_h2
  BY <1>3, <1>h, ConstantTypes DEF create_h2, TypeOK, ListBlockOK, Creating, mgr, call, hist, Slots
<1>4. CASE create_sync
  BY <1>4, <1>s DEF create_sync, TypeOK, ListBlockOK, call, INVALID_BLOCK
<1>5. CASE open_database
  <2>1. active_header' \in {0, 1} /\ meta_block' \in Int /\ iteration_count' \in Int /\ max_block' \in Int
    BY <1>5, NewestTypes DEF open_database, initialize_manager, Header
  <2>2. free_list' \in Seq(Blocks) /\ used_blocks' \in Seq(Blocks)
    <3>1. ASSUME NewestList \in Blocks
          PROVE  file_b[NewestList].ids \in Seq(Blocks) /\ <<NewestList>> \in Seq(Blocks)
      BY <3>1 DEF TypeOK, Content
    <3>2. <<>> \in Seq(Blocks)
      OBVIOUS
    <3> QED
      BY <1>5, <3>1, <3>2 DEF open_database, initialize_manager, NewestList
  <2>3. pc' \in {"idle", "undefined"} /\ tainted' \in BOOLEAN
    BY <1>5 DEF open_database, TypeOK
  <2> QED
    BY <1>5, <2>1, <2>2, <2>3 DEF open_database, TypeOK, ListBlockOK, call, file
<1>6. CASE destory_single_manager
  BY <1>6, <1>s, <1>e, ConstantTypes
  DEF destory_single_manager, NoManager, TypeOK, ListBlockOK, hist, INVALID_BLOCK
<1>7. CASE Crash
  BY <1>7, <1>n, <1>e, ConstantTypes DEF Crash, NoManager, TypeOK, ListBlockOK, hist, INVALID_BLOCK
<1>8. CASE Drain
  BY <1>8, <1>s DEF Drain, TypeOK, ListBlockOK, mgr, call, hist
<1>9. ASSUME NEW b \in Blocks, read(b) PROVE TypeInv'
  BY <1>9, <1>s, AppendProperties DEF read, TypeOK, ListBlockOK, call, hist
<1>10. CASE BeginCheckpoint
  BY <1>10, GetFreeTypes DEF BeginCheckpoint, TypeOK, ListBlockOK, file, hist
<1>11. CASE FlushBlock
  <2>1. PICK id \in Blocks :
          /\ get_free_block_id(id)
          /\ fresh' = Append(fresh, id)
          /\ WriteBlockAt(id, MkContent("data", tag, <<>>))
    BY <1>11 DEF FlushBlock
  <2>2. MkContent("data", tag, <<>>) \in Content
    BY DEF MkContent, Content, TypeOK
  <2>3. fresh' \in Seq(Blocks)
    BY <2>1 DEF TypeOK
  <2> QED
    BY <1>11, <1>b, <2>1, <2>2, <2>3, GetFreeTypes DEF FlushBlock, TypeOK, ListBlockOK, hist
<1>12. CASE FlushMeta
  <2>1. MkContent("meta", tag, SubSeq(fresh, 2, Len(fresh))) \in Content
    BY SubSeqTypes DEF MkContent, Content, TypeOK
  <2>2. fresh[1] \in Blocks
    BY <1>12 DEF FlushMeta, TypeOK, ListBlockOK
  <2> QED
    BY <1>12, <1>b, <2>1, <2>2 DEF FlushMeta, TypeOK, ListBlockOK, mgr, hist
<1>13. CASE write_header_begin
  <2>1. fresh[1] \in Blocks
    BY <1>13 DEF write_header_begin, TypeOK, ListBlockOK
  <2>2. \A id \in Int : MkHeader(iteration_count + 1, fresh[1], id, max_block, tag) \in Header
    BY <2>1 DEF MkHeader, Header, TypeOK, Blocks
  <2>3. CASE used_blocks # <<>>
    <3>1. PICK id \in Blocks :
            /\ get_free_block_id(id)
            /\ hdr' = MkHeader(iteration_count + 1, fresh[1], id, max_block, tag)
      BY <1>13, <2>3 DEF write_header_begin
    <3>2. hdr' \in Header /\ hdr'.free_list_id \in Blocks
      BY <3>1, <2>2 DEF MkHeader, Blocks
    <3> QED
      BY <1>13, <2>3, <3>1, <3>2, GetFreeTypes
      DEF write_header_begin, TypeOK, ListBlockOK, Writing, file, hist
  <2>4. CASE used_blocks = <<>>
    BY <1>13, <2>4, <2>2
    DEF write_header_begin, TypeOK, ListBlockOK, Writing, file, hist, INVALID_BLOCK
  <2> QED
    BY <2>3, <2>4
<1>14. CASE write_header_list
  <2>1. MkContent("free", tag, used_blocks) \in Content
    BY DEF MkContent, Content, TypeOK
  <2> QED
    BY <1>14, <1>b, <2>1 DEF write_header_list, TypeOK, ListBlockOK, mgr, call, hist, Writing
<1>15. CASE write_header_slot
  <2>1. (IF active_header = 1 THEN 1 ELSE 2) \in Slots
    BY DEF Slots
  <2>2. 1 - active_header \in {0, 1} /\ hdr.meta_block \in Int
    BY DEF TypeOK, Header
  <2> QED
    BY <1>15, <1>h, <2>1, <2>2 DEF write_header_slot, TypeOK, ListBlockOK, call, hist, Writing
<1>16. CASE write_header_end
  BY <1>16, <1>s, <1>e DEF write_header_end, TypeOK, ListBlockOK
<1>17. CASE UNCHANGED vars
  BY <1>17 DEF vars, mgr, call, file, hist, TypeOK, ListBlockOK
<1> QED
  BY <1>1, <1>2, <1>3, <1>4, <1>5, <1>6, <1>7, <1>8, <1>9, <1>10, <1>11, <1>12,
     <1>13, <1>14, <1>15, <1>16, <1>17 DEF Next

(* A database that does not exist yet is well typed.                       *)
LEMMA TypeInit ==
    ASSUME Init
    PROVE  TypeInv
<1>1. file_h \in [Slots -> Header] /\ file_b \in [Blocks -> Content] /\ hdr \in Header
  BY ConstantTypes DEF Init
<1>2. <<>> \in Seq(Blocks)
  OBVIOUS
<1>3. tainted \in BOOLEAN
  BY Zenon DEF Init
<1>4. /\ pc = "none" /\ active_header = 0 /\ free_list = <<>> /\ used_blocks = <<>>
      /\ max_block = 0 /\ meta_block = -1 /\ iteration_count = 0 /\ fresh = <<>>
      /\ ckpt = "none" /\ buf = NoWrite /\ lifetimes = 0 /\ tag = 0
  BY DEF Init, INVALID_BLOCK
<1> QED
  BY <1>1, <1>2, <1>3, <1>4 DEF TypeInv, TypeOK, ListBlockOK

(* In every behaviour, whatever the bounds, the manager's fields, the file
   and stdio's buffer keep their types; in particular every id in free_list,
   used_blocks and the stored free lists is a block of the file.           *)
THEOREM TypeCorrect == Spec => []TypeOK
<1>1. Init => TypeInv
  BY TypeInit
<1>2. TypeInv /\ [Next]_vars => TypeInv'
  BY TypeStep
<1>3. TypeInv => TypeOK
  BY DEF TypeInv
<1> QED
  BY <1>1, <1>2, <1>3, PTL DEF Spec

(***************************************************************************)
(* The two headers                                                         *)
(***************************************************************************)

(* The part of the inductive invariant that HeadersAlternate does not say:
   what creation has put into the file so far, that a header in stdio's
   buffer is the one write_header has just issued for the slot that is not
   the newest, and that the local header carries the new iteration number. *)
HeaderSteps ==
    /\ pc = "create_h2" => FlushedH[1] = EmptyHeader(0)
    /\ pc = "create_sync" => FlushedH[1] = EmptyHeader(0) /\ FlushedH[2] = EmptyHeader(1)
    /\ Created => file_h[1].iteration >= 0 /\ file_h[2].iteration >= 0
    /\ Created /\ buf.to = "header" =>
         pc = "wh_sync" /\ buf.at = active_header + 1 /\ buf.val = hdr
    /\ pc \in Writing => hdr.iteration = iteration_count
    /\ pc = "wh_sync" => buf.to # "block"
    /\ pc \in {"closed", "undefined"} => buf = NoWrite

HeaderInv == TypeInv /\ HeaderSteps /\ HeadersAlternate

(* In a created database the slots are read as they are.                   *)
LEMMA SlotsAreRead ==
    ASSUME NEW h \in [Slots -> Header], h[1].iteration >= 0, h[2].iteration >= 0
    PROVE  /\ BufferAt(h, 1) = h[1] /\ BufferAt(h, 2) = h[2]
           /\ h[1].iteration > h[2].iteration => ActiveIn(h) = 0 /\ Newest(h) = h[1]
           /\ ~(h[1].iteration > h[2].iteration) => ActiveIn(h) = 1 /\ Newest(h) = h[2]
<1>1. h[1] # NoHeader /\ h[2] # NoHeader
  BY DEF NoHeader, MkHeader
<1>2. BufferAt(h, 1) = h[1] /\ BufferAt(h, 2) = h[2]
  BY <1>1 DEF BufferAt
<1> QED
  BY <1>2 DEF ActiveIn, Newest

(* Flushing anything but a header leaves the two slots alone.              *)
LEMMA FlushKeepsSlots ==
    ASSUME TypeOK, buf.to # "header",
           NEW s \in {1, 2}, file_h[s].iteration >= 0
    PROVE  FlushedH[s] = file_h[s]
<1>1. file_h[s] # NoHeader
  BY DEF NoHeader, MkHeader
<1> QED
  BY <1>1 DEF FlushedH, FillHoles, Slots, TypeOK

(* Flushing a header writes its slot and leaves the other one alone.       *)
LEMMA FlushWritesSlot ==
    ASSUME TypeOK, buf.to = "header", buf.at \in {1, 2},
           NEW s \in {1, 2}, file_h[s].iteration >= 0
    PROVE  FlushedH[s] = IF s = buf.at THEN buf.val ELSE file_h[s]
<1>1. file_h[s] # NoHeader
  BY DEF NoHeader, MkHeader
<1> QED
  BY <1>1 DEF FlushedH, FillHoles, Slots, TypeOK

(* What a flush makes of the headers, in each state of a created database. *)
LEMMA FlushedHeaders ==
    ASSUME HeaderInv, Created
    PROVE  /\ FlushedH \in [Slots -> Header]
           /\ FlushedH[1].iteration >= 0 /\ FlushedH[2].iteration >= 0
           /\ FlushedH[1].iteration # FlushedH[2].iteration
           /\ pc = "wh_sync" =>
                ActiveIn(FlushedH) = active_header /\ Newest(FlushedH) = hdr
           /\ pc # "wh_sync" =>
                /\ FlushedH[1] = file_h[1] /\ FlushedH[2] = file_h[2]
                /\ ActiveIn(FlushedH) = ActiveIn(file_h)
                /\ Newest(FlushedH) = Newest(file_h)
<1> USE DEF HeaderInv, TypeInv
<1>1. FlushedH \in [Slots -> Header] /\ file_h \in [Slots -> Header]
  BY FlushTypes DEF TypeOK
<1>2. file_h[1].iteration >= 0 /\ file_h[2].iteration >= 0
  BY DEF HeaderSteps
<1>3. CASE buf.to # "header"
  <2>1. FlushedH[1] = file_h[1] /\ FlushedH[2] = file_h[2]
    BY <1>2, <1>3, FlushKeepsSlots
  <2>2. ActiveIn(FlushedH) = ActiveIn(file_h) /\ Newest(FlushedH) = Newest(file_h)
    BY <1>1, <1>2, <2>1, SlotsAreRead
  <2>3. pc = "wh_sync" => buf = NoWrite
    BY <1>3 DEF HeaderSteps, TypeOK, HeaderWrite, BlockWrite
  <2> QED
    BY <1>1, <1>2, <2>1, <2>2, <2>3 DEF HeadersAlternate
<1>4. CASE buf.to = "header"
  <2>1. pc = "wh_sync" /\ buf.at = active_header + 1 /\ buf.val = hdr /\ buf # NoWrite
    BY <1>4 DEF HeaderSteps, NoWrite
  <2>2. /\ ActiveIn(file_h) = 1 - active_header
        /\ Newest(file_h).iteration = iteration_count - 1
        /\ hdr.iteration = iteration_count
    BY <2>1 DEF HeadersAlternate, HeaderSteps, Writing
  <2>3. active_header \in {0, 1} /\ iteration_count \in Int /\ hdr \in Header
    BY DEF TypeOK
  <2>4. \A s \in {1, 2} : FlushedH[s] = IF s = active_header + 1 THEN hdr ELSE file_h[s]
    BY <1>2, <1>4, <2>1, <2>3, FlushWritesSlot
  <2>5. file_h[2 - active_header].iteration = iteration_count - 1
    BY <1>1, <1>2, <2>2, <2>3, SlotsAreRead
  <2>6. CASE active_header = 0
    <3>1. FlushedH[1] = hdr /\ FlushedH[2] = file_h[2]
      BY <2>4, <2>6
    <3> QED
      BY <1>1, <1>2, <2>1, <2>2, <2>3, <2>5, <2>6, <3>1, SlotsAreRead
  <2>7. CASE active_header = 1
    <3>1. FlushedH[2] = hdr /\ FlushedH[1] = file_h[1]
      BY <2>4, <2>7
    <3> QED
      BY <1>1, <1>2, <2>1, <2>2, <2>3, <2>5, <2>7, <3>1, SlotsAreRead
  <2> QED
    BY <2>3, <2>6, <2>7
<1> QED
  BY <1>3, <1>4

(* Every step keeps manager and file in agreement, provided the process does
   not die while the database is being created.                            *)
LEMMA HeaderStep ==
    ASSUME ~CrashInCreate, HeaderInv, [Next]_vars
    PROVE  HeaderInv'
<1> USE DEF HeaderInv
<1>t. TypeInv'
  BY TypeStep
<1>f. file_h \in [Slots -> Header] /\ file_h' \in [Slots -> Header]
  BY <1>t DEF TypeInv, TypeOK
<1>s. ASSUME Created, file_sync, pc' = pc \/ pc' = "closed", pc # "wh_sync",
             UNCHANGED <<active_header, iteration_count, hdr>> \/ pc' = "closed"
      PROVE  HeaderSteps' /\ HeadersAlternate'
  <2>1. file_h' = FlushedH /\ buf' = NoWrite
    BY <1>s DEF file_sync, Flush
  <2> QED
    BY <1>s, <2>1, FlushedHeaders
    DEF Created, Creating, Writing, HeaderSteps, HeadersAlternate, NoWrite
<1>b. ASSUME NEW b \in Blocks, NEW c \in Content, WriteBlockAt(b, c), Created, Created',
             pc \notin {"wh_sync", "closed", "undefined"},
             pc' = pc \/ (pc = "wh_list" /\ pc' = "wh_header"),
             UNCHANGED <<active_header, iteration_count, hdr>>
      PROVE  HeaderSteps' /\ HeadersAlternate'
  <2>1. file_h' = FlushedH /\ buf'.to = "block"
    BY <1>b DEF WriteBlockAt, file_write_at, Flush
  <2> QED
    BY <1>b, <2>1, FlushedHeaders
    DEF Created, Creating, Writing, HeaderSteps, HeadersAlternate
<1>1. CASE create_master
  BY <1>1, <1>t DEF create_master, HeaderSteps, HeadersAlternate, Created, Creating, Writing
<1>2. CASE create_h1
  <2>1. buf' = [to |-> "header", at |-> 1, val |-> EmptyHeader(0)]
    BY <1>2 DEF create_h1, WriteHeaderAt, file_write_at
  <2>2. FlushedH'[1] = EmptyHeader(0)
    BY <1>f, <2>1 DEF FlushedH, FillHoles, Slots
  <2> QED
    BY <1>2, <1>t, <2>2 DEF create_h1, HeaderSteps, HeadersAlternate, Created, Creating, Writing
<1>3. CASE create_h2
  <2>1. buf' = [to |-> "header", at |-> 2, val |-> EmptyHeader(1)] /\ file_h' = FlushedH
    BY <1>3 DEF create_h2, WriteHeaderAt, file_write_at, Flush
  <2>2. file_h'[1] = EmptyHeader(0) /\ EmptyHeader(0) # NoHeader
    BY <1>3, <2>1 DEF create_h2, HeaderSteps, EmptyHeader, NoHeader, MkHeader
  <2>3. FlushedH'[2] = EmptyHeader(1) /\ FlushedH'[1] = EmptyHeader(0)
    BY <1>f, <2>1, <2>2 DEF FlushedH, FillHoles, Slots
  <2> QED
    BY <1>3, <1>t, <2>3 DEF create_h2, HeaderSteps, HeadersAlternate, Created, Creating, Writing
<1>4. CASE create_sync
  <2>1. file_h' = FlushedH /\ buf' = NoWrite
    BY <1>4 DEF create_sync, file_sync, Flush
  <2>2. file_h'[1].iteration = 0 /\ file_h'[2].iteration = 1
    BY <1>4, <2>1 DEF create_sync, HeaderSteps, EmptyHeader, MkHeader
  <2>3. ActiveIn(file_h') = 1 /\ Newest(file_h') = file_h'[2]
    BY <1>f, <2>2, SlotsAreRead
  <2> QED
    BY <1>4, <1>t, <2>1, <2>2, <2>3
    DEF create_sync, HeaderSteps, HeadersAlternate, Created, Creating, Writing, NoWrite
<1>5. CASE open_database
  <2>1. buf = NoWrite /\ Created /\ UNCHANGED <<file_h, buf>>
    BY <1>5 DEF open_database, HeaderSteps, Created, Creating, file
  <2>2. pc' \in {"idle", "undefined"} /\ active_header' = ActiveIn(file_h)
    BY <1>5 DEF open_database
  <2>3. iteration_count' = Newest(file_h).iteration
    BY <1>5 DEF open_database, initialize_manager
  <2> QED
    BY <1>t, <2>1, <2>2, <2>3
    DEF HeaderSteps, HeadersAlternate, Created, Creating, Writing, NoWrite
<1>6. CASE destory_single_manager
  BY <1>6, <1>t, <1>s DEF destory_single_manager, Created, Creating
<1>7. CASE Crash
  <2>1. Created /\ pc' = "closed" /\ buf' = NoWrite /\ file_h' = file_h
    BY <1>7 DEF Crash, Created
  <2> QED
    BY <1>t, <2>1 DEF HeaderSteps, HeadersAlternate, Created, Creating, Writing, NoWrite
<1>8. CASE Drain
  <2>1. CASE Created /\ pc # "wh_sync"
    BY <1>8, <1>t, <1>s, <2>1 DEF Drain, mgr, call
  <2>2. CASE pc = "wh_sync"
    <3>1. file_h' = FlushedH /\ buf' = NoWrite /\ Created
      BY <1>8, <2>2 DEF Drain, file_sync, Flush, Created, Creating
    <3> QED
      BY <1>8, <1>t, <2>2, <3>1, FlushedHeaders
      DEF Drain, mgr, call, HeaderSteps, HeadersAlternate, Created, Creating, Writing, NoWrite
  <2>3. CASE ~Created
    <3>1. file_h' = FlushedH /\ buf' = NoWrite
      BY <1>8 DEF Drain, file_sync, Flush
    <3>2. FlushedH' = FlushedH
      BY <3>1 DEF FlushedH, NoWrite
    <3> QED
      BY <1>8, <1>t, <2>3, <3>2
      DEF Drain, mgr, call, HeaderSteps, HeadersAlternate, Created, Creating, Writing
  <2> QED
    BY <2>1, <2>2, <2>3
<1>9. ASSUME NEW b \in Blocks, read(b) PROVE HeaderInv'
  BY <1>9, <1>t, <1>s DEF read, call, Created, Creating
<1>10. CASE BeginCheckpoint
  BY <1>10, <1>t
  DEF BeginCheckpoint, file, HeaderSteps, HeadersAlternate, Created, Creating, Writing
<1>11. CASE FlushBlock
  <2>1. PICK id \in Blocks : WriteBlockAt(id, MkContent("data", tag, <<>>))
    BY <1>11 DEF FlushBlock
  <2>2. MkContent("data", tag, <<>>) \in Content
    BY DEF MkContent, Content, TypeInv, TypeOK
  <2> QED
    BY <1>11, <1>t, <1>b, <2>1, <2>2 DEF FlushBlock, Created, Creating
<1>12. CASE FlushMeta
  <2>1. MkContent("meta", tag, SubSeq(fresh, 2, Len(fresh))) \in Content
    BY SubSeqTypes DEF MkContent, Content, TypeInv, TypeOK
  <2>2. fresh[1] \in Blocks
    BY <1>12 DEF FlushMeta, TypeInv, TypeOK, ListBlockOK
  <2> QED
    BY <1>12, <1>t, <1>b, <2>1, <2>2 DEF FlushMeta, mgr, Created, Creating
<1>13. CASE write_header_begin
  <2>1. /\ pc = "idle" /\ pc' \in {"wh_list", "wh_header"}
        /\ iteration_count' = iteration_count + 1
        /\ UNCHANGED <<active_header, file_h, buf>>
    BY <1>13 DEF write_header_begin, file
  <2>2. hdr'.iteration = iteration_count + 1
    BY <1>13 DEF write_header_begin, MkHeader
  <2>3. iteration_count \in Int
    BY DEF TypeInv, TypeOK
  <2> QED
    BY <1>t, <2>1, <2>2, <2>3 DEF HeaderSteps, HeadersAlternate, Created, Creating, Writing
<1>14. CASE write_header_list
  <2>1. MkContent("free", tag, used_blocks) \in Content /\ hdr.free_list_id \in Blocks
    BY <1>14 DEF write_header_list, MkContent, Content, TypeInv, TypeOK, ListBlockOK
  <2> QED
    BY <1>14, <1>t, <1>b, <2>1 DEF write_header_list, mgr, call, Created, Creating
<1>15. CASE write_header_slot
  <2>1. /\ pc = "wh_header" /\ pc' = "wh_sync" /\ active_header' = 1 - active_header
        /\ UNCHANGED <<iteration_count, hdr>> /\ file_h' = FlushedH
        /\ buf' = [to |-> "header", at |-> IF active_header = 1 THEN 1 ELSE 2, val |-> hdr]
    BY <1>15 DEF write_header_slot, WriteHeaderAt, file_write_at, Flush, call
  <2>2. active_header \in {0, 1} /\ Created
    BY <2>1 DEF TypeInv, TypeOK, Created, Creating
  <2> QED
    BY <1>t, <2>1, <2>2, FlushedHeaders
    DEF HeaderSteps, HeadersAlternate, Created, Creating, Writing, NoWrite
<1>16. CASE write_header_end
  <2>1. /\ pc = "wh_sync" /\ pc' = "idle" /\ file_h' = FlushedH /\ buf' = NoWrite
        /\ UNCHANGED <<active_header, iteration_count, hdr>>
    BY <1>16 DEF write_header_end, file_sync, Flush
  <2>2. hdr.iteration = iteration_count /\ Created
    BY <2>1 DEF HeaderSteps, Writing, Created, Creating
  <2> QED
    BY <1>t, <2>1, <2>2, FlushedHeaders
    DEF HeaderSteps, HeadersAlternate, Created, Creating, Writing, NoWrite
<1>17. CASE UNCHANGED vars
  BY <1>17, <1>t DEF vars, mgr, call, file, HeaderSteps, HeadersAlternate, Created, FlushedH
<1> QED
  BY <1>1, <1>2, <1>3, <1>4, <1>5, <1>6, <1>7, <1>8, <1>9, <1>10, <1>11, <1>12,
     <1>13, <1>14, <1>15, <1>16, <1>17 DEF Next

(* Before creation nothing is claimed of the headers.                      *)
LEMMA HeaderInit ==
    ASSUME Init
    PROVE  HeaderInv
<1>1. pc = "none"
  BY DEF Init
<1> QED
  BY <1>1, TypeInit DEF HeaderInv, HeaderSteps, HeadersAlternate, Created, Creating, Writing

(* Whatever the bounds, however often the process dies after the database is
   created, and whatever stdio loses with it: manager and file agree on the
   newest header, and the two headers never carry the same iteration.      *)
THEOREM HeadersAlwaysAlternate ==
    ASSUME ~CrashInCreate
    PROVE  Spec => []HeadersAlternate
<1>1. Init => HeaderInv
  BY HeaderInit
<1>2. HeaderInv /\ [Next]_vars => HeaderInv'
  BY HeaderStep
<1>3. HeaderInv => HeadersAlternate
  BY DEF HeaderInv
<1> QED
  BY <1>1, <1>2, <1>3, PTL DEF Spec

(***************************************************************************)
(* The switch from one header to the other                                 *)
(***************************************************************************)

(* Every step leaves the headers alone or flushes the buffered write.      *)
LEMMA StepsFlush ==
    ASSUME [Next]_vars
    PROVE  file_h' = file_h \/ file_h' = FlushedH
  BY DEF Next, vars, mgr, call, file, hist, create_master, create_h1, create_h2, create_sync,
         open_database, destory_single_manager, Crash, Drain, read, BeginCheckpoint,
         FlushBlock, FlushMeta, write_header_begin, write_header_list, write_header_slot,
         write_header_end, WriteHeaderAt, WriteBlockAt, file_write_at, file_sync, Flush

(* The flush of a header keeps the newest one and supersedes it by one.    *)
LEMMA FlushSupersedes ==
    ASSUME HeaderInv, Created, <<FlushedH[1], FlushedH[2]>> # <<file_h[1], file_h[2]>>
    PROVE  /\ pc = "wh_sync" /\ buf # NoWrite
           /\ FlushedH[ActiveIn(file_h) + 1] = Newest(file_h)
           /\ Newest(FlushedH).iteration = Newest(file_h).iteration + 1
           /\ Newest(FlushedH).iteration = iteration_count
<1> USE DEF HeaderInv, TypeInv
<1>1. file_h[1].iteration >= 0 /\ file_h[2].iteration >= 0 /\ file_h \in [Slots -> Header]
  BY DEF HeaderSteps, TypeOK
<1>2. buf.to = "header" /\ pc = "wh_sync"
  BY <1>1, FlushKeepsSlots, FlushedHeaders
<1>3. buf # NoWrite /\ buf.at = active_header + 1 /\ hdr.iteration = iteration_count
  BY <1>2 DEF HeaderSteps, NoWrite, Writing
<1>4. /\ ActiveIn(file_h) = 1 - active_header
      /\ Newest(file_h).iteration = iteration_count - 1
      /\ active_header \in {0, 1} /\ iteration_count \in Int
  BY <1>2, <1>3 DEF HeadersAlternate, TypeOK
<1>5. Newest(FlushedH) = hdr
  BY <1>2, FlushedHeaders
<1>6. FlushedH[2 - active_header] = file_h[2 - active_header]
  BY <1>1, <1>2, <1>3, <1>4, FlushWritesSlot
<1>7. Newest(file_h) = file_h[2 - active_header]
  BY <1>1, <1>4, SlotsAreRead
<1> QED
  BY <1>2, <1>3, <1>4, <1>5, <1>6, <1>7

(* Whatever the bounds, no step overwrites the header that recovery would
   choose, and a new header supersedes it by exactly one iteration: the
   checkpoint switches atomically.                                         *)
THEOREM HeaderSwitchIsAtomic ==
    ASSUME ~CrashInCreate
    PROVE  Spec => HeaderSwitchAtomic
<1>1. Init => HeaderInv
  BY HeaderInit
<1>2. HeaderInv /\ [Next]_vars => HeaderInv'
  BY HeaderStep
<1>3. HeaderInv /\ [Next]_vars =>
        [Created /\ <<file_h[1], file_h[2]>>' # <<file_h[1], file_h[2]>> =>
           /\ file_h'[ActiveIn(file_h) + 1] = Newest(file_h)
           /\ Newest(file_h').iteration = Newest(file_h).iteration + 1]_vars
  BY StepsFlush, FlushSupersedes
<1> QED
  BY <1>1, <1>2, <1>3, PTL DEF Spec, HeaderSwitchAtomic

(***************************************************************************)
(* The checkpoint store                                                    *)
(***************************************************************************)

(* Unless a header is being flushed, a step keeps the checkpoint in charge. *)
LEMMA CommittedKept ==
    ASSUME HeaderInv, [Next]_vars, Created, Created',
           pc # "wh_sync" \/ buf = NoWrite \/ file_h' = file_h
    PROVE  committedIteration' = committedIteration
<1>1. file_h' = file_h \/ file_h' = FlushedH
  BY StepsFlush
<1>2. Newest(file_h') = Newest(file_h)
  <2>1. CASE pc # "wh_sync"
    BY <1>1, <2>1, FlushedHeaders
  <2>2. CASE buf = NoWrite
    BY <1>1, <2>2 DEF FlushedH, NoWrite
  <2> QED
    BY <2>1, <2>2
<1> QED
  BY <1>2 DEF committedIteration

(* One step of the manager is one step of the checkpoint store, or none.   *)
LEMMA StoreStep ==
    ASSUME ~CrashInCreate, HeaderInv, HeaderInv', [Next]_vars
    PROVE  [Store!Next]_(Store!vars)
<1> USE DEF HeaderInv
<1>i. iteration_count \in Int /\ iteration_count' \in Int
  BY DEF TypeInv, TypeOK
<1>1. CASE create_master \/ create_h1 \/ create_h2
  BY <1>1 DEF create_master, create_h1, create_h2, committedIteration, servingIteration,
              Created, Creating, Writing, Store!vars
<1>2. CASE create_sync
  <2>1. pc = "create_sync" /\ pc' = "idle" /\ iteration_count' = 1
    BY <1>2 DEF create_sync
  <2>2. committedIteration = 1 /\ servingIteration = 0
    BY <2>1 DEF committedIteration, servingIteration, Created, Creating, Writing
  <2>3. committedIteration' = 1 /\ servingIteration' = 1
    BY <2>1 DEF HeadersAlternate, committedIteration, servingIteration, Created, Creating, Writing
  <2> QED
    BY <2>2, <2>3 DEF Store!Next, Store!Start, Store!Down
<1>3. CASE open_database
  <2>1. pc = "closed" /\ pc' \in {"idle", "undefined"}
    BY <1>3 DEF open_database
  <2>2. committedIteration' = committedIteration
    BY <2>1, CommittedKept DEF Created, Creating
  <2>3. servingIteration = 0
    BY <2>1 DEF servingIteration, Writing
  <2>4. servingIteration' = 0 \/ servingIteration' = committedIteration'
    BY <2>1 DEF HeadersAlternate, committedIteration, servingIteration, Created, Creating, Writing
  <2> QED
    BY <2>2, <2>3, <2>4 DEF Store!Next, Store!Start, Store!Down, Store!vars
<1>4. CASE destory_single_manager \/ Crash
  <2>1. /\ Created /\ pc' = "closed"
        /\ pc # "wh_sync" \/ buf = NoWrite \/ file_h' = file_h
    BY <1>4 DEF destory_single_manager, Crash, Created, Creating
  <2>2. committedIteration' = committedIteration
    BY <2>1, CommittedKept DEF Created, Creating
  <2>3. servingIteration' = 0
    BY <2>1 DEF servingIteration, Writing
  <2> QED
    BY <2>2, <2>3 DEF Store!Next, Store!Stop, Store!Down, Store!vars
<1>5. CASE write_header_end
  <2>1. /\ pc = "wh_sync" /\ pc' = "idle" /\ Created /\ Created'
        /\ iteration_count' = iteration_count /\ file_h' = FlushedH
    BY <1>5 DEF write_header_end, Created, Creating, file_sync, Flush
  <2>2. servingIteration = iteration_count - 1 /\ servingIteration' = iteration_count
    BY <2>1 DEF servingIteration, Writing
  <2>3. committedIteration' = iteration_count
    BY <2>1 DEF HeadersAlternate, committedIteration
  <2>4. committedIteration = iteration_count \/ committedIteration = iteration_count - 1
    BY <2>1 DEF HeadersAlternate, HeaderSteps, committedIteration, Writing
  <2> QED
    BY <1>i, <2>2, <2>3, <2>4
    DEF Store!Next, Store!Acknowledge, Store!PublishAndAcknowledge
<1>6. CASE Drain
  <2>1. pc' = pc /\ iteration_count' = iteration_count /\ servingIteration' = servingIteration
        /\ file_h' = FlushedH /\ buf # NoWrite /\ buf' = NoWrite
    BY <1>6 DEF Drain, mgr, servingIteration, file_sync, Flush
  <2>2. CASE ~Created
    BY <2>1, <2>2 DEF committedIteration, Created, Store!vars
  <2>3. CASE Created /\ pc # "wh_sync"
    <3>1. Created'
      BY <2>1, <2>3 DEF Created
    <3>2. committedIteration' = committedIteration
      BY <2>3, <3>1, CommittedKept
    <3> QED
      BY <2>1, <3>2 DEF Store!vars
  <2>4. CASE pc = "wh_sync"
    <3>1. committedIteration = iteration_count - 1 /\ servingIteration = iteration_count - 1
      BY <2>1, <2>4
      DEF HeadersAlternate, committedIteration, servingIteration, Created, Creating, Writing
    <3>2. committedIteration' = iteration_count
      BY <2>1, <2>4
      DEF HeadersAlternate, HeaderSteps, committedIteration, Created, Creating, Writing
    <3> QED
      BY <1>i, <2>1, <3>1, <3>2 DEF Store!Next, Store!Publish
  <2> QED
    BY <2>2, <2>3, <2>4
<1>7. ASSUME pc = "idle", pc' = "idle", UNCHANGED iteration_count
      PROVE  [Store!Next]_(Store!vars)
  BY <1>7, CommittedKept DEF servingIteration, Created, Creating, Store!vars
<1>8. CASE (\E b \in Blocks : read(b)) \/ BeginCheckpoint \/ FlushBlock \/ FlushMeta
  BY <1>7, <1>8 DEF read, BeginCheckpoint, FlushBlock, FlushMeta, mgr
<1>9. CASE write_header_begin
  <2>1. pc = "idle" /\ pc' \in Writing /\ iteration_count' = iteration_count + 1
    BY <1>9 DEF write_header_begin, Writing
  <2> QED
    BY <1>i, <2>1, CommittedKept
    DEF servingIteration, Created, Creating, Writing, Store!vars
<1>10. CASE write_header_list \/ write_header_slot
  <2>1. pc \in Writing /\ pc' \in Writing /\ iteration_count' = iteration_count /\ pc # "wh_sync"
    BY <1>10 DEF write_header_list, write_header_slot, Writing, mgr
  <2> QED
    BY <1>i, <2>1, CommittedKept
    DEF servingIteration, Created, Creating, Writing, Store!vars
<1>11. CASE UNCHANGED vars
  BY <1>11 DEF vars, mgr, file, committedIteration, servingIteration, Created, Store!vars
<1> QED
  BY <1>1, <1>2, <1>3, <1>4, <1>5, <1>6, <1>8, <1>9, <1>10, <1>11 DEF Next

(* Whatever the bounds, the extent manager implements the checkpoint store:
   after any crash the file is at the last checkpoint whose write_header
   returned, or at the one that was being written, and never in between.   *)
THEOREM Implementation ==
    ASSUME ~CrashInCreate
    PROVE  Spec => ImplementsCheckpointStore
<1>1. Init => HeaderInv
  BY HeaderInit
<1>2. Init => Store!Init
  BY DEF Init, Store!Init, Store!Down, committedIteration, servingIteration, Created, Creating, Writing
<1>3. HeaderInv /\ [Next]_vars => HeaderInv'
  BY HeaderStep
<1>4. HeaderInv /\ HeaderInv' /\ [Next]_vars => [Store!Next]_(Store!vars)
  BY StoreStep
<1> QED
  BY <1>1, <1>2, <1>3, <1>4, PTL DEF Spec, ImplementsCheckpointStore, Store!Spec

(***************************************************************************)
(* The committed blocks: no block of the checkpoint the file would recover *)
(* to is handed out or overwritten, as long as no process has started from *)
(* a free list at or beyond the block_count of its header.                 *)
(***************************************************************************)

Elems(s)    == {s[i] : i \in 1 .. Len(s)}
Distinct(s) == \A i, j \in 1 .. Len(s) : s[i] = s[j] => i = j

Below(s, n)   == \A i \in 1 .. Len(s) : s[i] < n
Outside(s, S) == \A i \in 1 .. Len(s) : s[i] \notin S

(* The blocks that header h claims in the contents f.                      *)
LiveIn(h, f) ==
    (IF h.meta_block # INVALID_BLOCK
     THEN {h.meta_block} \cup Elems(f[h.meta_block].ids) ELSE {})
    \cup (IF h.free_list_id # INVALID_BLOCK THEN {h.free_list_id} ELSE {})

(* The checkpoint of header h is complete in the contents f, lies below its
   block_count, and its free list names other blocks, each once.           *)
MetaSound(h, f) ==
    h.meta_block # INVALID_BLOCK =>
      /\ h.meta_block \in Blocks /\ h.meta_block < h.block_count
      /\ f[h.meta_block].kind = "meta" /\ f[h.meta_block].tag = h.tag
      /\ Below(f[h.meta_block].ids, h.block_count)
      /\ \A i \in 1 .. Len(f[h.meta_block].ids) :
            f[f[h.meta_block].ids[i]] = MkContent("data", h.tag, <<>>)

ListSound(h, f) ==
    h.free_list_id # INVALID_BLOCK =>
      /\ h.free_list_id \in Blocks
      /\ f[h.free_list_id].kind = "free" /\ f[h.free_list_id].tag = h.tag
      /\ Distinct(f[h.free_list_id].ids)
      /\ Below(f[h.free_list_id].ids, h.block_count)
      /\ Outside(f[h.free_list_id].ids, LiveIn(h, f))

Sound(h, f) == MetaSound(h, f) /\ ListSound(h, f)

Live == LiveIn(Newest(file_h), file_b)

Running == {"idle", "wh_list", "wh_header"}

(* Without a manager there is nothing to allocate from.                    *)
NothingHeld ==
    /\ pc \in {"none", "closed"} \cup Creating =>
         free_list = <<>> /\ used_blocks = <<>> /\ ckpt = "none"
    /\ ckpt = "none" => fresh = <<>>
    /\ pc \in {"wh_list", "wh_header"} => ckpt = "ready"

(* The file recovers to a sound checkpoint, and stdio holds no write to one
   of its blocks.                                                          *)
NewestSound ==
    Created =>
      /\ pc # "undefined"
      /\ Sound(Newest(file_h), file_b)
      /\ buf.to = "block" => buf.at \notin Live

(* Three disjoint pools below max_block: the live blocks, some of them read,
   the blocks of the new checkpoint, and the blocks still free.            *)
PoolsDisjoint ==
    pc \in Running =>
      /\ meta_block = Newest(file_h).meta_block
      /\ \A b \in Live : b < max_block
      /\ Distinct(used_blocks) /\ Elems(used_blocks) \subseteq Live
      /\ Distinct(fresh) /\ Below(fresh, max_block) /\ Outside(fresh, Live)
      /\ Distinct(free_list) /\ Below(free_list, max_block)
      /\ Outside(free_list, Live) /\ Outside(free_list, Elems(fresh))

(* What the new checkpoint has written is in the file or on its way there. *)
FreshWritten ==
    pc \in Running =>
      /\ \A i \in 2 .. Len(fresh) : FlushedB[fresh[i]] = MkContent("data", tag, <<>>)
      /\ ckpt = "ready" =>
           FlushedB[fresh[1]] = MkContent("meta", tag, SubSeq(fresh, 2, Len(fresh)))

(* The header about to be written names the new checkpoint, and a free-list
   block apart from it and from the live blocks.                           *)
HeaderBuilt ==
    pc \in {"wh_list", "wh_header"} =>
      /\ hdr.meta_block = fresh[1] /\ hdr.tag = tag /\ hdr.block_count <= max_block
      /\ Below(fresh, hdr.block_count) /\ Below(used_blocks, hdr.block_count)
      /\ hdr.free_list_id = INVALID_BLOCK => used_blocks = <<>>
      /\ hdr.free_list_id # INVALID_BLOCK =>
           /\ hdr.free_list_id \in Blocks /\ hdr.free_list_id < max_block
           /\ hdr.free_list_id \notin Live \cup Elems(fresh)
           /\ pc = "wh_header" =>
                FlushedB[hdr.free_list_id] = MkContent("free", tag, used_blocks)

(* The header written is as sound as the one it supersedes.                *)
HeaderIssued ==
    pc = "wh_sync" =>
      /\ Sound(hdr, file_b)
      /\ meta_block = hdr.meta_block /\ hdr.block_count <= max_block
      /\ hdr.free_list_id = INVALID_BLOCK => used_blocks = <<>>
      /\ hdr.free_list_id # INVALID_BLOCK =>
           file_b[hdr.free_list_id].ids = used_blocks /\ hdr.free_list_id < max_block

Parts ==
    /\ NothingHeld /\ NewestSound /\ PoolsDisjoint
    /\ FreshWritten /\ HeaderBuilt /\ HeaderIssued

BlockInv == HeaderInv /\ (~tainted => Parts)

(***************************************************************************)
(* What the operators do                                                   *)
(***************************************************************************)

(* A checkpoint stays sound, and keeps its blocks, wherever the contents of
   these blocks are the same.                                              *)
LEMMA LiveKept ==
    ASSUME NEW h \in Header, NEW f, NEW g, Sound(h, f),
           \A b \in LiveIn(h, f) : g[b] = f[b]
    PROVE  LiveIn(h, g) = LiveIn(h, f) /\ Sound(h, g)
<1>1. h.meta_block # INVALID_BLOCK =>
        /\ g[h.meta_block] = f[h.meta_block]
        /\ \A i \in 1 .. Len(f[h.meta_block].ids) :
              g[f[h.meta_block].ids[i]] = f[f[h.meta_block].ids[i]]
  BY DEF LiveIn, Elems
<1>2. h.free_list_id # INVALID_BLOCK => g[h.free_list_id] = f[h.free_list_id]
  BY DEF LiveIn
<1>3. LiveIn(h, g) = LiveIn(h, f)
  BY <1>1, <1>2 DEF LiveIn
<1>4. MetaSound(h, g)
  BY <1>1 DEF Sound, MetaSound
<1>5. ListSound(h, g)
  BY <1>2, <1>3 DEF Sound, ListSound
<1> QED
  BY <1>3, <1>4, <1>5 DEF Sound

(* The abbreviations above say what the properties say.                    *)
LEMMA SoundIsIntact ==
    ASSUME NEW h \in Header, Sound(h, file_b)
    PROVE  Intact(h) /\ LiveBlocks(h) = LiveIn(h, file_b)
  BY DEF Sound, MetaSound, ListSound, Intact, LiveBlocks, LiveIn, Elems

(* A flush leaves the newest checkpoint sound and its blocks the same.     *)
LEMMA FlushKeepsNewest ==
    ASSUME HeaderInv, NewestSound, Created
    PROVE  /\ Sound(Newest(file_h), FlushedB)
           /\ LiveIn(Newest(file_h), FlushedB) = Live
           /\ pc # "wh_sync" => Newest(FlushedH) = Newest(file_h)
<1>1. Newest(file_h) \in Header
  BY NewestTypes DEF HeaderInv, TypeInv
<1>2. \A b \in Live : FlushedB[b] = file_b[b]
  BY DEF NewestSound, FlushedB, HeaderInv, TypeInv, TypeOK
<1>3. Sound(Newest(file_h), file_b)
  BY DEF NewestSound
<1> QED
  BY <1>1, <1>2, <1>3, LiveKept, FlushedHeaders DEF Live

(* The same, for the step that makes the flush.                            *)
LEMMA StepKeepsNewest ==
    ASSUME HeaderInv, NewestSound, Created, pc # "wh_sync", file_h' = FlushedH, file_b' = FlushedB
    PROVE  /\ Newest(file_h') = Newest(file_h) /\ Newest(file_h)' = Newest(file_h)
           /\ Sound(Newest(file_h'), file_b') /\ Live' = Live
<1>1. Newest(file_h') = Newest(file_h) /\ Newest(file_h)' = Newest(file_h)
  BY FlushKeepsNewest
<1> QED
  BY <1>1, FlushKeepsNewest DEF Live

(* A block names only blocks.                                              *)
LEMMA IdsAreBlocks ==
    ASSUME TypeOK
    PROVE  \A b \in Blocks : Elems(file_b[b].ids) \subseteq Blocks
<1>1. \A b \in Blocks : file_b[b].ids \in Seq(Blocks)
  BY DEF TypeOK, Content
<1> QED
  BY <1>1 DEF Elems

(* The blocks that the newest header claims are block ids.                 *)
LEMMA NewestLive ==
    ASSUME HeaderInv, NewestSound, Created
    PROVE  Live \subseteq Blocks
<1>1. Sound(Newest(file_h), file_b)
  BY DEF NewestSound
<1>2. \A b \in Blocks : Elems(file_b[b].ids) \subseteq Blocks
  BY IdsAreBlocks DEF HeaderInv, TypeInv
<1> QED
  BY <1>1, <1>2 DEF Live, LiveIn, Sound, MetaSound, ListSound

(* What is written is what the next flush leaves in the file.              *)
LEMMA SyncContents ==
    ASSUME file_sync
    PROVE  FlushedB' = FlushedB /\ buf'.to # "block" /\ file_h' = FlushedH /\ file_b' = FlushedB
  BY DEF file_sync, Flush, FlushedB, NoWrite

LEMMA WriteBlockContents ==
    ASSUME TypeOK, NEW b \in Blocks, NEW c, WriteBlockAt(b, c)
    PROVE  /\ FlushedB' = [FlushedB EXCEPT ![b] = c]
           /\ \A x : x # b => FlushedB'[x] = FlushedB[x]
           /\ FlushedB'[b] = c
           /\ buf'.at = b /\ file_h' = FlushedH /\ file_b' = FlushedB
<1>1. buf' = [to |-> "block", at |-> b, val |-> c] /\ file_h' = FlushedH /\ file_b' = FlushedB
  BY DEF WriteBlockAt, file_write_at, Flush
<1>2. FlushedB \in [Blocks -> Content]
  BY FlushTypes
<1>3. FlushedB' = [FlushedB EXCEPT ![b] = c]
  BY <1>1 DEF FlushedB
<1> QED
  BY <1>1, <1>2, <1>3

(* get_free_block_id hands out a block that nobody holds.                  *)
LEMMA GetFreeIsFree ==
    ASSUME TypeOK, PoolsDisjoint, pc \in Running, NEW id \in Blocks, get_free_block_id(id)
    PROVE  /\ id < max_block' /\ max_block <= max_block'
           /\ id \notin Live /\ id \notin Elems(fresh)
           /\ Distinct(free_list') /\ Below(free_list', max_block')
           /\ Outside(free_list', Live) /\ Outside(free_list', Elems(fresh))
           /\ Outside(free_list', {id})
<1>t. free_list \in Seq(Blocks) /\ max_block \in Int /\ fresh \in Seq(Blocks)
  BY DEF TypeOK
<1>u. /\ \A i \in 1 .. Len(fresh) : fresh[i] < max_block
      /\ \A b \in Live : b < max_block
  BY DEF PoolsDisjoint, Below
<1>1. CASE free_list # <<>>
  <2> DEFINE n == Len(free_list)
  <2>1. /\ n \in Nat /\ n > 0 /\ id = free_list[n] /\ max_block' = max_block
        /\ free_list' = SubSeq(free_list, 1, n - 1)
    BY <1>t, <1>1 DEF get_free_block_id
  <2>2. Len(free_list') = n - 1 /\ \A i \in 1 .. n - 1 : free_list'[i] = free_list[i]
    <3>1. \A i \in 1 .. n - 1 : free_list[i] \in Blocks
      BY <1>t
    <3> HIDE DEF n
    <3> DEFINE front == SubSeq(free_list, 1, n - 1)
    <3>2. /\ Len(front) = IF 1 <= n - 1 THEN n - 1 - 1 + 1 ELSE 0
          /\ \A i \in 1 .. n - 1 - 1 + 1 : front[i] = free_list[1 + i - 1]
      BY <2>1, <3>1, SubSeqProperties
    <3> QED
      BY <2>1, <3>2
  <2>3. \A i \in 1 .. n : /\ free_list[i] < max_block /\ free_list[i] \notin Live
                          /\ free_list[i] \notin Elems(fresh)
    BY DEF PoolsDisjoint, Below, Outside
  <2>4. \A i, j \in 1 .. n : free_list[i] = free_list[j] => i = j
    BY DEF PoolsDisjoint, Distinct
  <2> HIDE DEF n
  <2> QED
    BY <1>t, <2>1, <2>2, <2>3, <2>4 DEF Distinct, Below, Outside
<1>2. CASE free_list = <<>>
  <2>1. id = max_block /\ max_block' = max_block + 1 /\ free_list' = <<>>
    BY <1>2 DEF get_free_block_id
  <2> QED
    BY <1>t, <1>u, <2>1 DEF Distinct, Below, Outside, Elems
<1> QED
  BY <1>1, <1>2

(* The file only grows: what was below max_block stays below.              *)
LEMMA PoolsStayBelow ==
    ASSUME HeaderInv, Parts, pc \in Running, NEW id \in Blocks, get_free_block_id(id)
    PROVE  Below(fresh, max_block') /\ \A b \in Live : b < max_block'
<1>1. max_block \in Int /\ max_block' \in Int /\ max_block <= max_block'
  BY GetFreeIsFree, GetFreeTypes DEF Parts, HeaderInv, TypeInv, TypeOK
<1>2. \A b \in Live : b \in Int /\ b < max_block
  BY NewestLive DEF Parts, PoolsDisjoint, Blocks, Created, Creating, Running
<1>3. \A i \in 1 .. Len(fresh) : fresh[i] \in Int /\ fresh[i] < max_block
  <2>1. \A i \in 1 .. Len(fresh) : fresh[i] \in Blocks
    BY DEF HeaderInv, TypeInv, TypeOK
  <2> QED
    BY <2>1 DEF Parts, PoolsDisjoint, Below, Blocks
<1> QED
  BY <1>1, <1>2, <1>3 DEF Below

(***************************************************************************)
(* The steps                                                               *)
(***************************************************************************)

(* What is tainted stays tainted.                                          *)
LEMMA TaintStays ==
    ASSUME TypeOK, [Next]_vars, ~tainted'
    PROVE  ~tainted
  BY DEF TypeOK, Next, vars, mgr, call, file, hist, create_master, create_h1, create_h2, create_sync,
         open_database, destory_single_manager, Crash, Drain, read, BeginCheckpoint,
         FlushBlock, FlushMeta, write_header_begin, write_header_list, write_header_slot,
         write_header_end

(* Creation leaves a file whose newest header claims no block.             *)
LEMMA CreateStep ==
    ASSUME ~CrashInCreate, HeaderInv, HeaderInv', Parts,
           create_master \/ create_h1 \/ create_h2 \/ create_sync
    PROVE  Parts'
<1> USE DEF Parts
<1>1. CASE create_master \/ create_h1 \/ create_h2
  BY <1>1 DEF create_master, create_h1, create_h2, mgr, call, hist, Created, Creating, Running,
     NothingHeld, NewestSound, PoolsDisjoint, FreshWritten, HeaderBuilt, HeaderIssued
<1>2. CASE create_sync
  <2>1. /\ pc = "create_sync" /\ pc' = "idle" /\ meta_block' = INVALID_BLOCK
        /\ UNCHANGED <<free_list, used_blocks, fresh, ckpt>> /\ file_h' = FlushedH
        /\ buf'.to # "block"
    BY <1>2, SyncContents DEF create_sync, call
  <2>2. free_list = <<>> /\ used_blocks = <<>> /\ fresh = <<>> /\ ckpt = "none"
    BY <2>1 DEF NothingHeld, Creating
  <2>3. file_h'[1] = EmptyHeader(0) /\ file_h'[2] = EmptyHeader(1) /\ file_h' \in [Slots -> Header]
    BY <2>1 DEF HeaderInv, HeaderSteps, TypeInv, TypeOK
  <2>4. Newest(file_h') = EmptyHeader(1)
    BY <2>3, SlotsAreRead DEF EmptyHeader, MkHeader
  <2>5. Newest(file_h') = EmptyHeader(1) /\ Newest(file_h)' = EmptyHeader(1)
    BY <2>4
  <2>6. /\ EmptyHeader(1).meta_block = INVALID_BLOCK
        /\ EmptyHeader(1).free_list_id = INVALID_BLOCK
    BY DEF EmptyHeader, MkHeader
  <2>7. Live' = {} /\ Sound(Newest(file_h), file_b)'
    BY <2>5, <2>6 DEF Live, LiveIn, Sound, MetaSound, ListSound
  <2>8. NothingHeld' /\ NewestSound' /\ HeaderBuilt' /\ HeaderIssued'
    BY <2>1, <2>2, <2>7 DEF NothingHeld, NewestSound, HeaderBuilt, HeaderIssued, Creating
  <2>9. PoolsDisjoint' /\ FreshWritten'
    BY <2>1, <2>2, <2>5, <2>6, <2>7
    DEF PoolsDisjoint, FreshWritten, Distinct, Below, Outside, Elems
  <2> QED
    BY <2>8, <2>9
<1> QED
  BY <1>1, <1>2

(* Opening a file takes its pools from a sound header.                     *)
LEMMA OpenStep ==
    ASSUME HeaderInv, HeaderInv', Parts, open_database, ~tainted'
    PROVE  Parts'
<1> USE DEF Parts
<1> DEFINE N == Newest(file_h)
<1>1. pc = "closed" /\ Created /\ UNCHANGED <<fresh, ckpt, file_h, file_b, buf>>
  BY DEF open_database, call, file, Created, Creating
<1>2. fresh = <<>> /\ ckpt = "none" /\ buf = NoWrite
  BY <1>1 DEF NothingHeld, HeaderInv, HeaderSteps
<1>3. Sound(N, file_b) /\ N \in Header
  BY <1>1, NewestTypes DEF NewestSound, HeaderInv, TypeInv
<1>4. N.free_list_id # INVALID_BLOCK => ReadsAsList(N.free_list_id) /\ N.free_list_id \in Blocks
  BY <1>3 DEF Sound, ListSound, ReadsAsList
<1>5. pc' = "idle" /\ meta_block' = N.meta_block /\ max_block' = N.block_count
  BY <1>4 DEF open_database, initialize_manager, NewestList, INVALID_BLOCK, Blocks
<1>6. \/ N.free_list_id = INVALID_BLOCK /\ free_list' = <<>> /\ used_blocks' = <<>>
      \/ /\ N.free_list_id # INVALID_BLOCK /\ N.free_list_id \in Blocks
         /\ free_list' = file_b[N.free_list_id].ids /\ used_blocks' = <<N.free_list_id>>
         /\ ~(N.free_list_id >= N.block_count)
  <2>1. CASE N.free_list_id = INVALID_BLOCK
    <3>1. N.free_list_id \notin Blocks
      BY <2>1 DEF INVALID_BLOCK, Blocks
    <3>2. initialize_manager(N, <<>>)
      BY <3>1, Zenon DEF open_database, NewestList
    <3> QED
      BY <2>1, <3>2 DEF initialize_manager
  <2>2. CASE N.free_list_id # INVALID_BLOCK
    <3>1. /\ initialize_manager(N, file_b[N.free_list_id].ids)
          /\ tainted' = (tainted \/ N.free_list_id >= N.block_count)
      BY <1>4, <2>2, Zenon DEF open_database, NewestList
    <3>2. ~(N.free_list_id >= N.block_count)
      BY <3>1, Zenon
    <3> QED
      BY <1>4, <2>2, <3>1, <3>2 DEF initialize_manager
  <2> QED
    BY <2>1, <2>2
<1>7. Live' = Live /\ Newest(file_h)' = N /\ Sound(N, file_b)'
  BY <1>1, <1>3 DEF Live
<1>8. \A b \in Live : b < N.block_count
  <2>1. N.block_count \in Int /\ N.free_list_id \in Int
    BY <1>3 DEF Header
  <2> QED
    BY <1>3, <1>6, <2>1 DEF Live, LiveIn, Sound, MetaSound, Elems, Below
<1>9. Distinct(free_list') /\ Below(free_list', max_block') /\ Outside(free_list', Live)
  BY <1>3, <1>5, <1>6 DEF Sound, ListSound, Live, Distinct, Below, Outside
<1>10. Distinct(used_blocks') /\ Elems(used_blocks') \subseteq Live
  BY <1>6 DEF Distinct, Elems, Live, LiveIn
<1>11. PoolsDisjoint' /\ FreshWritten'
  BY <1>1, <1>2, <1>5, <1>7, <1>8, <1>9, <1>10
  DEF PoolsDisjoint, FreshWritten, Distinct, Below, Outside, Elems
<1>12. NothingHeld' /\ NewestSound' /\ HeaderBuilt' /\ HeaderIssued'
  BY <1>1, <1>2, <1>5, <1>7
  DEF NothingHeld, NewestSound, HeaderBuilt, HeaderIssued, NoWrite, Creating
<1> QED
  BY <1>11, <1>12

(* The end of a process, orderly or not, leaves the checkpoint in the file. *)
LEMMA CloseStep ==
    ASSUME ~CrashInCreate, HeaderInv, HeaderInv', Parts, destory_single_manager \/ Crash
    PROVE  Parts'
<1> USE DEF Parts
<1>1. /\ Created /\ pc' = "closed" /\ buf'.to # "block"
      /\ free_list' = <<>> /\ used_blocks' = <<>> /\ fresh' = <<>> /\ ckpt' = "none"
  BY DEF destory_single_manager, Crash, NoManager, Created, Creating, file_sync, NoWrite
<1>2. Sound(Newest(file_h), file_b)'
  <2>1. CASE destory_single_manager
    <3>1. file_sync /\ pc = "idle"
      BY <2>1 DEF destory_single_manager
    <3> QED
      BY <1>1, <3>1, SyncContents, StepKeepsNewest
  <2>2. CASE Crash
    BY <1>1, <2>2 DEF Crash, NewestSound
  <2> QED
    BY <2>1, <2>2
<1> QED
  BY <1>1, <1>2 DEF NothingHeld, NewestSound, PoolsDisjoint, FreshWritten, HeaderBuilt, HeaderIssued,
     Created, Creating, Running

(* A flush moves the buffered write into the file and changes nothing else
   that the invariant speaks of, but the header in charge.                 *)
LEMMA DrainStep ==
    ASSUME HeaderInv, HeaderInv', Parts, Drain
    PROVE  Parts'
<1> USE DEF Parts
<1>1. /\ UNCHANGED <<pc, free_list, used_blocks, max_block, meta_block, hdr, fresh, ckpt, tag>>
      /\ FlushedB' = FlushedB /\ buf'.to # "block" /\ file_h' = FlushedH /\ file_b' = FlushedB
  BY SyncContents DEF Drain, mgr, call, hist
<1>2. CASE ~Created
  BY <1>1, <1>2 DEF NothingHeld, NewestSound, PoolsDisjoint, FreshWritten, HeaderBuilt, HeaderIssued,
     Created, Creating, Running
<1>3. CASE Created /\ pc # "wh_sync"
  <2>1. Newest(file_h)' = Newest(file_h) /\ Sound(Newest(file_h), file_b)' /\ Live' = Live
    BY <1>1, <1>3, StepKeepsNewest
  <2>2. NothingHeld' /\ NewestSound' /\ HeaderBuilt' /\ HeaderIssued'
    BY <1>1, <1>3, <2>1 DEF NothingHeld, NewestSound, HeaderBuilt, HeaderIssued
  <2>3. PoolsDisjoint' /\ FreshWritten'
    BY <1>1, <2>1 DEF PoolsDisjoint, FreshWritten
  <2> QED
    BY <2>2, <2>3
<1>4. CASE pc = "wh_sync"
  <2>1. FlushedB = file_b /\ Created
    BY <1>4 DEF HeaderInv, HeaderSteps, FlushedB, Created, Creating
  <2>2. Newest(file_h') = hdr
    BY <1>1, <1>4, <2>1, FlushedHeaders
  <2>3. Newest(file_h)' = hdr
    BY <2>2
  <2>4. HeaderIssued' /\ Sound(hdr, file_b)'
    BY <1>1, <1>4, <2>1 DEF HeaderIssued
  <2> QED
    BY <1>1, <1>4, <2>3, <2>4 DEF NothingHeld, NewestSound, PoolsDisjoint, FreshWritten, HeaderBuilt,
       Running, Creating
<1> QED
  BY <1>2, <1>3, <1>4

(* Only blocks of the current checkpoint are read.                         *)
LEMMA CurrentIsLive ==
    ASSUME PoolsDisjoint, pc = "idle"
    PROVE  CurrentBlocks \subseteq Live
<1>1. meta_block = Newest(file_h).meta_block /\ (meta_block \in Blocks => meta_block # INVALID_BLOCK)
  BY DEF PoolsDisjoint, Running, Blocks, INVALID_BLOCK
<1> QED
  BY <1>1 DEF CurrentBlocks, Live, LiveIn, Elems

(* A block read for the first time joins used_blocks and stays live.       *)
LEMMA ReadStep ==
    ASSUME HeaderInv, HeaderInv', Parts, NEW b \in Blocks, read(b), ~tainted'
    PROVE  Parts'
<1> USE DEF Parts
<1>1. /\ pc = "idle" /\ UNCHANGED <<pc, free_list, max_block, meta_block, hdr, fresh, ckpt, tag>>
      /\ used_blocks' = Append(used_blocks, b) /\ b \in CurrentBlocks
      /\ \A i \in 1 .. Len(used_blocks) : used_blocks[i] # b
      /\ FlushedB' = FlushedB /\ buf'.to # "block" /\ file_h' = FlushedH /\ file_b' = FlushedB
  BY SyncContents DEF read, call, HasRead
<1>2. Newest(file_h)' = Newest(file_h) /\ Sound(Newest(file_h), file_b)' /\ Live' = Live
  BY <1>1, StepKeepsNewest DEF Created, Creating
<1>3. Distinct(used_blocks') /\ Elems(used_blocks') \subseteq Live
  <2>1. used_blocks \in Seq(Blocks)
    BY DEF HeaderInv, TypeInv, TypeOK
  <2>2. /\ Len(used_blocks') = Len(used_blocks) + 1 /\ Len(used_blocks) \in Nat
        /\ \A i \in 1 .. Len(used_blocks) : used_blocks'[i] = used_blocks[i]
        /\ used_blocks'[Len(used_blocks) + 1] = b
    BY <1>1, <2>1, AppendProperties
  <2>3. b \in Live /\ Distinct(used_blocks) /\ Elems(used_blocks) \subseteq Live
    BY <1>1, CurrentIsLive DEF PoolsDisjoint, Running
  <2> QED
    BY <1>1, <2>2, <2>3 DEF Distinct, Elems
<1>4. NothingHeld' /\ NewestSound' /\ HeaderBuilt' /\ HeaderIssued'
  BY <1>1, <1>2 DEF NothingHeld, NewestSound, HeaderBuilt, HeaderIssued, Creating
<1>5. PoolsDisjoint' /\ FreshWritten'
  BY <1>1, <1>2, <1>3 DEF PoolsDisjoint, FreshWritten, Running
<1> QED
  BY <1>4, <1>5

(* The meta block of a new checkpoint comes from the free blocks.          *)
LEMMA BeginStep ==
    ASSUME HeaderInv, HeaderInv', Parts, BeginCheckpoint
    PROVE  Parts'
<1> USE DEF Parts
<1>1. PICK id \in Blocks : get_free_block_id(id) /\ fresh' = <<id>>
  BY DEF BeginCheckpoint
<1>2. /\ pc = "idle" /\ pc' = "idle" /\ ckpt' = "building"
      /\ UNCHANGED <<used_blocks, meta_block, hdr, file_h, file_b, buf, tag>>
  BY DEF BeginCheckpoint, file, hist
<1>3. fresh = <<>> /\ pc \in Running /\ TypeOK
  BY DEF BeginCheckpoint, NothingHeld, HeaderInv, TypeInv, Running
<1>4. Newest(file_h)' = Newest(file_h) /\ Sound(Newest(file_h), file_b)' /\ Live' = Live
  BY <1>2 DEF NewestSound, Live, Created, Creating
<1>5. Distinct(fresh') /\ Elems(fresh') = {id}
  BY <1>1 DEF Distinct, Elems
<1>6. Below(fresh', max_block') /\ Outside(fresh', Live) /\ \A b \in Live : b < max_block'
  BY <1>1, <1>3, GetFreeIsFree, PoolsStayBelow DEF Below, Outside
<1>7. PoolsDisjoint'
  BY <1>1, <1>2, <1>3, <1>4, <1>5, <1>6, GetFreeIsFree DEF PoolsDisjoint
<1>8. NothingHeld' /\ HeaderBuilt' /\ HeaderIssued' /\ FreshWritten'
  BY <1>1, <1>2 DEF NothingHeld, HeaderBuilt, HeaderIssued, FreshWritten, Creating
<1>9. NewestSound'
  BY <1>2, <1>4 DEF NewestSound, Created, Creating
<1> QED
  BY <1>7, <1>8, <1>9

(* A new data block is written where nobody will look for another.         *)
LEMMA FlushBlockStep ==
    ASSUME HeaderInv, HeaderInv', Parts, FlushBlock
    PROVE  Parts'
<1> USE DEF Parts
<1> DEFINE n == Len(fresh)
<1>1. PICK id \in Blocks : /\ get_free_block_id(id) /\ fresh' = Append(fresh, id)
                           /\ WriteBlockAt(id, MkContent("data", tag, <<>>))
  BY DEF FlushBlock
<1>2. /\ pc = "idle" /\ pc' = "idle" /\ ckpt = "building" /\ ckpt' = "building"
      /\ UNCHANGED <<used_blocks, meta_block, hdr, tag>>
  BY DEF FlushBlock, hist
<1>3. pc \in Running /\ TypeOK /\ Created /\ fresh \in Seq(Blocks)
  BY <1>2 DEF HeaderInv, TypeInv, TypeOK, Running, Created, Creating
<1>4. /\ id < max_block' /\ id \notin Live /\ id \notin Elems(fresh)
      /\ Distinct(free_list') /\ Below(free_list', max_block') /\ Outside(free_list', Live)
      /\ Outside(free_list', Elems(fresh)) /\ Outside(free_list', {id})
      /\ Below(fresh, max_block') /\ \A b \in Live : b < max_block'
  BY <1>1, <1>3, GetFreeIsFree, PoolsStayBelow
<1>5. /\ \A x : x # id => FlushedB'[x] = FlushedB[x]
      /\ FlushedB'[id] = MkContent("data", tag, <<>>)
      /\ buf'.at = id /\ file_h' = FlushedH /\ file_b' = FlushedB
  BY <1>1, <1>3, WriteBlockContents
<1>6. Newest(file_h)' = Newest(file_h) /\ Sound(Newest(file_h), file_b)' /\ Live' = Live
  BY <1>2, <1>3, <1>5, StepKeepsNewest
<1>7. /\ n \in Nat /\ Len(fresh') = n + 1 /\ fresh'[n + 1] = id
      /\ \A i \in 1 .. n : fresh'[i] = fresh[i] /\ fresh[i] # id
  BY <1>1, <1>3, <1>4, AppendProperties DEF Elems
<1> HIDE DEF n
<1>8. Distinct(fresh') /\ Below(fresh', max_block') /\ Outside(fresh', Live)
  BY <1>3, <1>4, <1>7 DEF PoolsDisjoint, Distinct, Below, Outside, n
<1>9. Elems(fresh') = Elems(fresh) \cup {id}
  BY <1>7 DEF Elems, n
<1>10. PoolsDisjoint'
  BY <1>2, <1>3, <1>4, <1>6, <1>8, <1>9 DEF PoolsDisjoint, Outside
<1>11. FreshWritten'
  <2>1. \A i \in 2 .. n : FlushedB[fresh[i]] = MkContent("data", tag, <<>>)
    BY <1>3 DEF FreshWritten, n
  <2>2. \A i \in 2 .. n + 1 : FlushedB'[fresh'[i]] = MkContent("data", tag, <<>>)
    BY <1>5, <1>7, <2>1
  <2> QED
    BY <1>2, <1>7, <2>2 DEF FreshWritten
<1>12. NothingHeld' /\ HeaderBuilt' /\ HeaderIssued'
  BY <1>2 DEF NothingHeld, HeaderBuilt, HeaderIssued, Creating
<1>13. NewestSound'
  BY <1>2, <1>4, <1>5, <1>6 DEF NewestSound
<1> QED
  BY <1>10, <1>11, <1>12, <1>13

(* The meta block is written over no data block of its checkpoint.         *)
LEMMA FlushMetaStep ==
    ASSUME HeaderInv, HeaderInv', Parts, FlushMeta
    PROVE  Parts'
<1> USE DEF Parts
<1> DEFINE m == MkContent("meta", tag, SubSeq(fresh, 2, Len(fresh)))
<1>1. /\ pc = "idle" /\ pc' = "idle" /\ ckpt' = "ready" /\ WriteBlockAt(fresh[1], m)
      /\ UNCHANGED <<free_list, used_blocks, max_block, meta_block, hdr, fresh, tag>>
  BY DEF FlushMeta, mgr, hist
<1>2. pc \in Running /\ TypeOK /\ Created /\ fresh \in Seq(Blocks) /\ fresh # <<>>
  BY <1>1 DEF FlushMeta, HeaderInv, TypeInv, TypeOK, ListBlockOK, Running, Created, Creating
<1>3. fresh[1] \in Blocks /\ 1 \in 1 .. Len(fresh) /\ Len(fresh) \in Nat
  BY <1>2
<1>4. fresh[1] \notin Live /\ \A i \in 2 .. Len(fresh) : fresh[i] # fresh[1]
  BY <1>2, <1>3 DEF PoolsDisjoint, Outside, Distinct
<1>5. /\ \A x : x # fresh[1] => FlushedB'[x] = FlushedB[x]
      /\ FlushedB'[fresh[1]] = m
      /\ buf'.at = fresh[1] /\ file_h' = FlushedH /\ file_b' = FlushedB
  BY <1>1, <1>2, <1>3, WriteBlockContents
<1>6. Newest(file_h)' = Newest(file_h) /\ Sound(Newest(file_h), file_b)' /\ Live' = Live
  BY <1>1, <1>2, <1>5, StepKeepsNewest
<1>7. PoolsDisjoint'
  BY <1>1, <1>6 DEF PoolsDisjoint
<1>8. FreshWritten'
  BY <1>1, <1>2, <1>4, <1>5 DEF FreshWritten
<1>9. NothingHeld' /\ HeaderBuilt' /\ HeaderIssued'
  BY <1>1 DEF NothingHeld, HeaderBuilt, HeaderIssued, Creating
<1>10. NewestSound'
  BY <1>1, <1>4, <1>5, <1>6 DEF NewestSound
<1> QED
  BY <1>7, <1>8, <1>9, <1>10

(* The header is built from what has been written; its free list will name
   the live blocks that were read.                                         *)
LEMMA HeaderBeginStep ==
    ASSUME HeaderInv, HeaderInv', Parts, write_header_begin
    PROVE  Parts'
<1> USE DEF Parts
<1>1. /\ pc = "idle" /\ ckpt = "ready" /\ pc' \in {"wh_list", "wh_header"}
      /\ UNCHANGED <<used_blocks, meta_block, fresh, ckpt, file_h, file_b, buf, tag>>
  BY DEF write_header_begin, file, hist
<1>2. pc \in Running /\ pc' \in Running /\ TypeOK /\ TypeOK' /\ Created /\ Created'
  BY <1>1 DEF HeaderInv, TypeInv, Running, Created, Creating
<1>3. /\ Newest(file_h)' = Newest(file_h) /\ Live' = Live /\ FlushedB' = FlushedB
      /\ Sound(Newest(file_h), file_b)'
  BY <1>1, <1>2 DEF NewestSound, Live, FlushedB
<1>4. Below(used_blocks, max_block) /\ Below(fresh, max_block)
  BY <1>2 DEF PoolsDisjoint, Below, Elems
<1>5. NothingHeld' /\ NewestSound' /\ FreshWritten' /\ HeaderIssued'
  BY <1>1, <1>2, <1>3 DEF NothingHeld, NewestSound, FreshWritten, HeaderIssued, Creating
<1>6. CASE used_blocks # <<>>
  <2>1. PICK id \in Blocks :
          /\ get_free_block_id(id)
          /\ hdr' = MkHeader(iteration_count + 1, fresh[1], id, max_block, tag)
    BY <1>6 DEF write_header_begin
  <2>2. pc' = "wh_list"
    BY <1>6 DEF write_header_begin
  <2>3. /\ hdr'.meta_block = fresh[1] /\ hdr'.free_list_id = id
        /\ hdr'.block_count = max_block /\ hdr'.tag = tag
    BY <2>1 DEF MkHeader
  <2>4. HeaderBuilt'
    <3>1. /\ id < max_block' /\ max_block <= max_block'
          /\ id \notin Live \cup Elems(fresh) /\ id # INVALID_BLOCK
      <4>1. id # INVALID_BLOCK
        BY DEF INVALID_BLOCK, Blocks
      <4> QED
        BY <1>2, <2>1, <4>1, GetFreeIsFree
    <3> QED
      BY <1>1, <1>3, <1>4, <2>1, <2>2, <2>3, <3>1 DEF HeaderBuilt
  <2>5. PoolsDisjoint'
    BY <1>1, <1>2, <1>3, <2>1, GetFreeIsFree, PoolsStayBelow DEF PoolsDisjoint
  <2> QED
    BY <1>5, <2>4, <2>5
<1>7. CASE used_blocks = <<>>
  <2>1. /\ UNCHANGED <<free_list, max_block>>
        /\ hdr' = MkHeader(iteration_count + 1, fresh[1], INVALID_BLOCK, max_block, tag)
    BY <1>7 DEF write_header_begin
  <2>2. /\ hdr'.meta_block = fresh[1] /\ hdr'.free_list_id = INVALID_BLOCK
        /\ hdr'.block_count = max_block /\ hdr'.tag = tag
    BY <2>1 DEF MkHeader
  <2>3. HeaderBuilt'
    BY <1>1, <1>2, <1>4, <1>7, <2>1, <2>2 DEF HeaderBuilt, TypeOK
  <2>4. PoolsDisjoint'
    BY <1>1, <1>2, <1>3, <2>1 DEF PoolsDisjoint
  <2> QED
    BY <1>5, <2>3, <2>4
<1> QED
  BY <1>6, <1>7

(* The free list goes to a block of its own.                               *)
LEMMA HeaderListStep ==
    ASSUME HeaderInv, HeaderInv', Parts, write_header_list
    PROVE  Parts'
<1> USE DEF Parts
<1> DEFINE l == hdr.free_list_id
<1>1. /\ pc = "wh_list" /\ pc' = "wh_header"
      /\ WriteBlockAt(l, MkContent("free", tag, used_blocks))
      /\ UNCHANGED <<free_list, used_blocks, max_block, meta_block, hdr, fresh, ckpt, tag>>
  BY DEF write_header_list, mgr, call, hist
<1>2. pc \in Running /\ pc' \in Running /\ TypeOK /\ Created /\ ckpt = "ready"
  BY <1>1 DEF HeaderInv, TypeInv, Running, Created, Creating, NothingHeld
<1>3. fresh \in Seq(Blocks) /\ fresh # <<>> /\ l \in Blocks /\ l # INVALID_BLOCK
  BY <1>1, <1>2 DEF HeaderInv, TypeInv, TypeOK, ListBlockOK, Blocks, INVALID_BLOCK
<1>4. l \notin Live /\ l \notin Elems(fresh)
  BY <1>1, <1>3 DEF HeaderBuilt
<1>5. /\ \A x : x # l => FlushedB'[x] = FlushedB[x]
      /\ FlushedB'[l] = MkContent("free", tag, used_blocks)
      /\ buf'.at = l /\ file_h' = FlushedH /\ file_b' = FlushedB
  BY <1>1, <1>2, <1>3, WriteBlockContents
<1>6. Newest(file_h)' = Newest(file_h) /\ Sound(Newest(file_h), file_b)' /\ Live' = Live
  BY <1>1, <1>2, <1>5, StepKeepsNewest
<1>7. PoolsDisjoint'
  BY <1>1, <1>2, <1>6 DEF PoolsDisjoint
<1>8. FreshWritten'
  <2>1. \A i \in 1 .. Len(fresh) : FlushedB'[fresh[i]] = FlushedB[fresh[i]]
    BY <1>4, <1>5 DEF Elems
  <2>2. Len(fresh) \in Nat /\ 1 \in 1 .. Len(fresh) /\ 2 .. Len(fresh) \subseteq 1 .. Len(fresh)
    BY <1>3
  <2> QED
    BY <1>1, <1>2, <2>1, <2>2 DEF FreshWritten
<1>9. HeaderBuilt'
  BY <1>1, <1>3, <1>5, <1>6 DEF HeaderBuilt
<1>10. NothingHeld' /\ HeaderIssued'
  BY <1>1, <1>2 DEF NothingHeld, HeaderIssued, Creating
<1>11. NewestSound'
  BY <1>1, <1>4, <1>5, <1>6 DEF NewestSound
<1> QED
  BY <1>7, <1>8, <1>9, <1>10, <1>11

(* The header that write_header issues is sound in the file as flushed.    *)
LEMMA BuiltIsSound ==
    ASSUME HeaderInv, Parts, pc = "wh_header"
    PROVE  Sound(hdr, FlushedB)
<1> USE DEF Parts
<1> DEFINE ids == SubSeq(fresh, 2, Len(fresh))
<1>1. /\ ckpt = "ready" /\ fresh \in Seq(Blocks) /\ fresh # <<>> /\ pc \in Running
      /\ used_blocks \in Seq(Blocks)
  BY DEF NothingHeld, HeaderInv, TypeInv, TypeOK, ListBlockOK, Running
<1>2. Len(fresh) \in Nat /\ Len(fresh) > 0 /\ \A i \in 1 .. Len(fresh) : fresh[i] \in Blocks
  BY <1>1
<1>3. Len(ids) = Len(fresh) - 1 /\ \A i \in 1 .. Len(ids) : ids[i] = fresh[i + 1]
  <2>1. \A i \in 2 .. Len(fresh) : fresh[i] \in Blocks
    BY <1>2
  <2>2. /\ Len(ids) = IF 2 <= Len(fresh) THEN Len(fresh) - 2 + 1 ELSE 0
        /\ \A i \in 1 .. Len(fresh) - 2 + 1 : ids[i] = fresh[2 + i - 1]
    BY <1>2, <2>1, SubSeqProperties
  <2> HIDE DEF ids
  <2>3. Len(ids) = Len(fresh) - 1
    <3>1. \A k, n \in Int : n > 0 /\ k = (IF 2 <= n THEN n - 2 + 1 ELSE 0) => k = n - 1
      OBVIOUS
    <3>2. Len(fresh) \in Int /\ Len(ids) \in Int
      BY <1>1, <2>2
    <3> QED
      BY <1>2, <2>2, <3>1, <3>2
  <2>4. ASSUME NEW i \in 1 .. Len(ids) PROVE ids[i] = fresh[i + 1]
    <3>1. i \in 1 .. Len(fresh) - 2 + 1 /\ 2 + i - 1 = i + 1
      BY <1>2, <2>3
    <3>2. ids[i] = fresh[2 + i - 1]
      BY <2>2, <3>1
    <3> QED
      BY <3>1, <3>2
  <2> QED
    BY <2>3, <2>4
<1>4. /\ hdr.meta_block = fresh[1] /\ hdr.tag = tag /\ Below(fresh, hdr.block_count)
      /\ Below(used_blocks, hdr.block_count)
  BY DEF HeaderBuilt
<1>5. FlushedB[fresh[1]] = MkContent("meta", tag, ids)
  BY <1>1 DEF FreshWritten
<1>6. /\ FlushedB[hdr.meta_block].kind = "meta" /\ FlushedB[hdr.meta_block].tag = hdr.tag
      /\ FlushedB[hdr.meta_block].ids = ids
  BY <1>4, <1>5 DEF MkContent
<1>7. \A i \in 2 .. Len(fresh) : FlushedB[fresh[i]] = MkContent("data", tag, <<>>)
  BY <1>1 DEF FreshWritten
<1> HIDE DEF ids
<1>8. MetaSound(hdr, FlushedB)
  BY <1>2, <1>3, <1>4, <1>6, <1>7 DEF MetaSound, Below
<1>9. ASSUME hdr.free_list_id # INVALID_BLOCK
      PROVE  ListSound(hdr, FlushedB)
  <2> DEFINE l == hdr.free_list_id
  <2>1. l \in Blocks /\ l \notin Live /\ FlushedB[l] = MkContent("free", tag, used_blocks)
    BY <1>9 DEF HeaderBuilt
  <2>2. FlushedB[l].kind = "free" /\ FlushedB[l].tag = hdr.tag /\ FlushedB[l].ids = used_blocks
    BY <1>4, <2>1 DEF MkContent
  <2>3. Distinct(used_blocks) /\ \A i \in 1 .. Len(used_blocks) : used_blocks[i] \in Live
    BY <1>1 DEF PoolsDisjoint, Elems
  <2>4. Elems(ids) \subseteq Elems(fresh) /\ fresh[1] \in Elems(fresh)
    BY <1>2, <1>3 DEF Elems
  <2>5. LiveIn(hdr, FlushedB) \subseteq Elems(fresh) \cup {l}
    BY <1>4, <1>6, <2>4 DEF LiveIn
  <2>6. \A b \in Elems(fresh) : b \notin Live
    BY <1>1 DEF PoolsDisjoint, Outside, Elems
  <2>7. Outside(used_blocks, LiveIn(hdr, FlushedB))
    BY <2>1, <2>3, <2>5, <2>6 DEF Outside
  <2> QED
    BY <1>4, <2>1, <2>2, <2>3, <2>7 DEF ListSound
<1> QED
  BY <1>8, <1>9 DEF Sound, ListSound

(* The header is handed to stdio; the old one is still the one in charge.  *)
LEMMA HeaderSlotStep ==
    ASSUME HeaderInv, HeaderInv', Parts, write_header_slot
    PROVE  Parts'
<1> USE DEF Parts
<1>1. /\ pc = "wh_header" /\ pc' = "wh_sync" /\ meta_block' = hdr.meta_block
      /\ UNCHANGED <<used_blocks, max_block, hdr, fresh, ckpt, tag>>
      /\ file_h' = FlushedH /\ file_b' = FlushedB /\ buf'.to # "block"
  BY DEF write_header_slot, call, hist, WriteHeaderAt, file_write_at, Flush
<1>2. Newest(file_h)' = Newest(file_h) /\ Sound(Newest(file_h), file_b)'
  BY <1>1, StepKeepsNewest DEF Created, Creating
<1>3. Sound(hdr, file_b)'
  BY <1>1, BuiltIsSound
<1>4. hdr.free_list_id # INVALID_BLOCK => file_b'[hdr.free_list_id].ids = used_blocks
  BY <1>1 DEF HeaderBuilt, MkContent
<1>5. HeaderIssued'
  BY <1>1, <1>3, <1>4 DEF HeaderBuilt, HeaderIssued
<1>6. NothingHeld' /\ NewestSound' /\ PoolsDisjoint' /\ FreshWritten' /\ HeaderBuilt'
  BY <1>1, <1>2 DEF NothingHeld, NewestSound, PoolsDisjoint, FreshWritten, HeaderBuilt, Running, Creating
<1> QED
  BY <1>5, <1>6

(* With the new header in charge, what was read is free and what was written
   is live.                                                                *)
LEMMA HeaderEndStep ==
    ASSUME HeaderInv, HeaderInv', Parts, write_header_end
    PROVE  Parts'
<1> USE DEF Parts
<1> DEFINE l == hdr.free_list_id
<1>1. /\ pc = "wh_sync" /\ pc' = "idle" /\ free_list' = used_blocks /\ used_blocks' = <<>>
      /\ fresh' = <<>> /\ ckpt' = "none" /\ UNCHANGED <<max_block, meta_block, hdr>>
      /\ file_h' = FlushedH /\ file_b' = FlushedB /\ buf'.to # "block"
  BY SyncContents DEF write_header_end
<1>2. FlushedB = file_b /\ Created
  BY <1>1 DEF HeaderInv, HeaderSteps, FlushedB, Created, Creating
<1>3. Newest(file_h') = hdr
  BY <1>1, <1>2, FlushedHeaders
<1>4. /\ Newest(file_h)' = hdr /\ Live' = LiveIn(hdr, file_b) /\ Sound(Newest(file_h), file_b)'
  BY <1>1, <1>2, <1>3 DEF HeaderIssued, Live
<1>5. /\ Sound(hdr, file_b) /\ meta_block = hdr.meta_block /\ hdr.block_count <= max_block
      /\ l = INVALID_BLOCK => used_blocks = <<>>
      /\ l # INVALID_BLOCK => file_b[l].ids = used_blocks /\ l < max_block
  BY <1>1 DEF HeaderIssued
<1>6. hdr.block_count \in Int /\ max_block \in Int /\ used_blocks \in Seq(Blocks)
  BY DEF HeaderInv, TypeInv, TypeOK, Header
<1>7. \A b \in Blocks : b < hdr.block_count => b < max_block
  BY <1>5, <1>6 DEF Blocks
<1>8. \A b \in LiveIn(hdr, file_b) : b < max_block
  <2>1. hdr.meta_block # INVALID_BLOCK =>
          \A b \in {hdr.meta_block} \cup Elems(file_b[hdr.meta_block].ids) :
             b \in Blocks /\ b < hdr.block_count
    <3>1. \A b \in Blocks : Elems(file_b[b].ids) \subseteq Blocks
      BY IdsAreBlocks DEF HeaderInv, TypeInv
    <3> QED
      BY <1>5, <3>1 DEF Sound, MetaSound, Below, Elems
  <2> QED
    BY <1>5, <1>7, <2>1 DEF LiveIn
<1>9. /\ Distinct(used_blocks) /\ Below(used_blocks, max_block)
      /\ Outside(used_blocks, LiveIn(hdr, file_b))
  <2>1. CASE l = INVALID_BLOCK
    BY <1>5, <2>1 DEF Distinct, Below, Outside
  <2>2. CASE l # INVALID_BLOCK
    <3>1. /\ Distinct(used_blocks) /\ Below(used_blocks, hdr.block_count)
          /\ Outside(used_blocks, LiveIn(hdr, file_b))
      BY <1>5, <2>2 DEF Sound, ListSound
    <3> QED
      BY <1>6, <1>7, <3>1 DEF Below
  <2> QED
    BY <2>1, <2>2
<1>10. PoolsDisjoint' /\ FreshWritten'
  BY <1>1, <1>4, <1>5, <1>8, <1>9 DEF PoolsDisjoint, FreshWritten, Distinct, Below, Outside, Elems
<1>11. NothingHeld' /\ NewestSound' /\ HeaderBuilt' /\ HeaderIssued'
  BY <1>1, <1>4 DEF NothingHeld, NewestSound, HeaderBuilt, HeaderIssued, Creating
<1> QED
  BY <1>10, <1>11

(* Every step keeps the pools apart and the newest checkpoint sound.       *)
LEMMA BlockStep ==
    ASSUME ~CrashInCreate, BlockInv, [Next]_vars
    PROVE  BlockInv'
<1>1. HeaderInv /\ HeaderInv'
  BY HeaderStep DEF BlockInv
<1>2. SUFFICES ASSUME ~tainted' PROVE Parts'
  BY <1>1 DEF BlockInv
<1>3. Parts
  BY <1>1, <1>2, TaintStays DEF BlockInv, HeaderInv, TypeInv
<1>4. CASE UNCHANGED vars
  BY <1>3, <1>4 DEF vars, mgr, call, file, hist, Parts, NothingHeld, NewestSound, PoolsDisjoint,
     FreshWritten, HeaderBuilt, HeaderIssued, Created, Live, FlushedB
<1> QED
  BY <1>1, <1>2, <1>3, <1>4, CreateStep, OpenStep, CloseStep, DrainStep, ReadStep, BeginStep,
     FlushBlockStep, FlushMetaStep, HeaderBeginStep, HeaderListStep, HeaderSlotStep, HeaderEndStep
  DEF Next

(* Before creation the manager holds nothing.                              *)
LEMMA BlockInit ==
    ASSUME Init
    PROVE  BlockInv
<1>1. /\ pc = "none" /\ free_list = <<>> /\ used_blocks = <<>> /\ fresh = <<>> /\ ckpt = "none"
  BY DEF Init
<1> QED
  BY <1>1, HeaderInit DEF BlockInv, Parts, NothingHeld, NewestSound, PoolsDisjoint, FreshWritten,
     HeaderBuilt, HeaderIssued, Created, Creating, Running

(* Whatever the bounds: get_free_block_id hands out no block of the
   checkpoint the file would recover to and none twice, and that checkpoint
   is complete at every moment, so that a crash anywhere loses nothing but
   what was not yet committed. Assumed is that creation is not cut short;
   the property itself excepts the two ways in which the code can hand out a
   block it should not: a free list beyond its header's block_count, and a
   block that was read twice between two headers.                          *)
THEOREM CheckpointsSurvive ==
    ASSUME ~CrashInCreate
    PROVE  Spec => []CommittedUnlessTainted
<1>1. Init => BlockInv
  BY BlockInit
<1>2. BlockInv /\ [Next]_vars => BlockInv'
  BY BlockStep
<1>3. BlockInv => CommittedUnlessTainted
  <2> SUFFICES ASSUME BlockInv, ~tainted
               PROVE  CommittedBlocksIntact /\ AllocatedBlocksAreFree
    BY DEF CommittedUnlessTainted
  <2>1. Parts /\ Newest(file_h) \in Header
    BY NewestTypes DEF BlockInv, HeaderInv, TypeInv
  <2>2. Created => Intact(Newest(file_h)) /\ LiveBlocks(Newest(file_h)) = Live
    BY <2>1, SoundIsIntact DEF Parts, NewestSound, Live
  <2>3. CommittedBlocksIntact
    BY <2>2 DEF CommittedBlocksIntact
  <2>4. AllocatedBlocksAreFree
    BY <2>1, <2>2
    DEF AllocatedBlocksAreFree, Parts, PoolsDisjoint, Running, Distinct, Outside, Created, Creating
  <2> QED
    BY <2>3, <2>4
<1> QED
  BY <1>1, <1>2, <1>3, PTL DEF Spec
=============================================================================
