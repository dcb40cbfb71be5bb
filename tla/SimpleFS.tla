------------------------------ MODULE SimpleFS ------------------------------
(***************************************************************************)
(* SimpleFS (simplefs-ops.c on simplefs-disk.c): a superblock with two free*)
(* lists, inodes with direct blocks, data blocks, and handles of open      *)
(* files.  One program calls the operations one after the other; the disk  *)
(* is formatted when it starts.  Every operation is one action; its result *)
(* is in out.                                                              *)
(***************************************************************************)
EXTENDS Integers, Sequences, FiniteSets, FiniteSetsExt

CONSTANTS
  Names,
  NUM_INODES, NUM_DATA_BLOCKS,
  MAX_FILE_SIZE,        (* in blocks                                        *)
  BLOCKSIZE,
  MAX_OPEN_FILES,
  Lengths, Seeks,       (* the nbytes and nseek arguments                   *)
  Bytes,                (* what the programs write                          *)
  Absent

ASSUME SimpleFSAssumption ==
  /\ {NUM_INODES, NUM_DATA_BLOCKS, MAX_FILE_SIZE, BLOCKSIZE, MAX_OPEN_FILES}
       \subseteq Nat \ {0}
  /\ Lengths \subseteq Int /\ Seeks \subseteq Int /\ Bytes \subseteq Nat

Inodes  == 0..(NUM_INODES - 1)
Blocks  == 0..(NUM_DATA_BLOCKS - 1)
Direct  == 0..(MAX_FILE_SIZE - 1)
Handles == 0..(MAX_OPEN_FILES - 1)
MaxBytes == MAX_FILE_SIZE * BLOCKSIZE

VARIABLES
  inodes_used,          (* the inode_freelist: the inodes in use            *)
  blocks_used,          (* the datablock_freelist                           *)
  inode,                (* the inodes on the disk                           *)
  data,                 (* the data blocks; -1: never written               *)
  file_handle_array,
  out,                  (* what the last call returned, and the bytes read  *)
  lost                  (* history: blocks that a write that failed has left*)
                        (* allocated                                        *)

vars == <<inodes_used, blocks_used, inode, data, file_handle_array, out, lost>>

NoBlocks == [j \in Direct |-> -1]
Null == [k \in 0..(BLOCKSIZE - 1) |-> 0]

(* simplefs_formatDisk *)
Init ==
  /\ inodes_used = {}
  /\ blocks_used = {}
  /\ inode = [i \in Inodes |-> [status |-> "free", name |-> Absent, file_size |-> 0,
                                direct_blocks |-> NoBlocks]]
  /\ data = [b \in Blocks |-> [k \in 0..(BLOCKSIZE - 1) |-> -1]]
  /\ file_handle_array = [h \in Handles |-> [inode_number |-> -1, offset |-> 0]]
  /\ out = <<0, <<>>>>
  /\ lost = {}

Returns(r) == out' = <<r, <<>>>>
Fails == Returns(-1) /\ UNCHANGED <<inodes_used, blocks_used, inode, data,
                                    file_handle_array, lost>>

(* The inodes in which the code finds the name. *)
Found(name) == {i \in Inodes : inode[i].status = "used" /\ inode[i].name = name}

-----------------------------------------------------------------------------
FreeInodes == Inodes \ inodes_used

simplefs_create(name) ==
  \/ /\ Found(name) # {} \/ FreeInodes = {}
     /\ Fails
  \/ /\ Found(name) = {} /\ FreeInodes # {}
     /\ LET i == Min(FreeInodes) IN
        /\ inodes_used' = inodes_used \cup {i}
        /\ inode' = [inode EXCEPT ![i] =
                       [status |-> "used", name |-> name, file_size |-> 0,
                        direct_blocks |-> NoBlocks]]
        /\ Returns(i)
     /\ UNCHANGED <<blocks_used, data, file_handle_array, lost>>

(* The blocks simplefs_delete frees. *)
BlocksOf(i) == {inode[i].direct_blocks[j] : j \in Direct} \ {-1}

simplefs_delete(name) ==
  /\ IF Found(name) = {}
       THEN UNCHANGED <<inodes_used, blocks_used, inode>>
       ELSE LET i == Min(Found(name)) IN
            /\ blocks_used' = blocks_used \ BlocksOf(i)
            /\ inodes_used' = inodes_used \ {i}
            /\ inode' = [inode EXCEPT ![i].status = "free", ![i].file_size = 0,
                                      ![i].direct_blocks = NoBlocks]
  /\ Returns(0)
  /\ UNCHANGED <<data, file_handle_array, lost>>

FreeHandles == {h \in Handles : file_handle_array[h].inode_number = -1}

simplefs_open(name) ==
  \/ /\ Found(name) = {} \/ FreeHandles = {}
     /\ Fails
  \/ /\ Found(name) # {} /\ FreeHandles # {}
     /\ LET h == Min(FreeHandles) IN
        /\ file_handle_array' = [file_handle_array EXCEPT
             ![h] = [inode_number |-> Min(Found(name)), offset |-> 0]]
        /\ Returns(h)
     /\ UNCHANGED <<inodes_used, blocks_used, inode, data, lost>>

simplefs_close(h) ==
  /\ file_handle_array' =
       [file_handle_array EXCEPT ![h] = [inode_number |-> -1, offset |-> 0]]
  /\ Returns(0)
  /\ UNCHANGED <<inodes_used, blocks_used, inode, data, lost>>

-----------------------------------------------------------------------------
Number(h) == file_handle_array[h].inode_number
Offset(h) == file_handle_array[h].offset
Bad(h) == Number(h) < 0 \/ inode[Number(h)].status = "free"

(* The byte at position p of the file in inode i. *)
ByteAt(i, p) ==
  data[inode[i].direct_blocks[p \div BLOCKSIZE]][p % BLOCKSIZE]

(* Mutant: the size is not looked at. *)
InAllocated(h, n) == Offset(h) + n <= Cardinality(BlocksOf(Number(h))) * BLOCKSIZE
InFile(h, n) == Offset(h) + n <= inode[Number(h)].file_size

CanRead(h, n) == n > 0 /\ ~Bad(h) /\ InFile(h, n)

simplefs_read(h, n) ==
  \/ ~CanRead(h, n) /\ Fails
  \/ /\ CanRead(h, n)
     /\ out' = <<0, [k \in 1..n |-> ByteAt(Number(h), Offset(h) + k - 1)]>>
     /\ UNCHANGED <<inodes_used, blocks_used, inode, data, file_handle_array, lost>>

CanSeek(h, k) == /\ Number(h) # -1
                 /\ Offset(h) >= -k /\ Offset(h) + k <= inode[Number(h)].file_size

simplefs_seek(h, k) ==
  \/ ~CanSeek(h, k) /\ Fails
  \/ /\ CanSeek(h, k)
     /\ file_handle_array' = [file_handle_array EXCEPT ![h].offset = @ + k]
     /\ Returns(0)
     /\ UNCHANGED <<inodes_used, blocks_used, inode, data, lost>>

-----------------------------------------------------------------------------
(* simplefs_write *)

(* The k lowest blocks that are not in use: k calls of allocDataBlock.     *)
Lowest(k, used) ==
  CHOOSE S \in kSubset(k, Blocks \ used) :
    \A b \in S : \A c \in Blocks \ (used \cup S) : b < c

Nth(S, k) == CHOOSE b \in S : Cardinality({c \in S : c < b}) = k

(* The edge case: the offset is at the end of the last block. *)
AtEdge(h) ==
  LET nd == inode[Number(h)] IN
  /\ Offset(h) % BLOCKSIZE = 0
  /\ Offset(h) \div BLOCKSIZE < MAX_FILE_SIZE
  /\ Offset(h) = nd.file_size
  /\ nd.direct_blocks[Offset(h) \div BLOCKSIZE] = -1

CeilDiv(n, d) == n \div d + (IF n % d # 0 THEN 1 ELSE 0)

(* nblocks_req, for n bytes at the offset of h when the file has num blocks.*)
Required(h, n, num) ==
  LET avail == (num - (Offset(h) \div BLOCKSIZE + 1)) * BLOCKSIZE
                 + (BLOCKSIZE - (Offset(h) % BLOCKSIZE))
  IN CeilDiv(IF n > avail THEN n - avail ELSE 0, BLOCKSIZE)

(* The disk after the bytes have been written to the file in inode i, whose*)
(* blocks are now d; fresh blocks are filled with zeros first.  Mutant:    *)
(* they are not.                                                           *)
NotFilled(fresh) == data
Filled(fresh) == [b \in Blocks |-> IF b \in fresh THEN Null ELSE data[b]]

Stored(old, d, off, n, v) ==
  [b \in Blocks |-> [k \in 0..(BLOCKSIZE - 1) |->
     IF \E j \in Direct : d[j] = b /\ off <= j * BLOCKSIZE + k
                                   /\ j * BLOCKSIZE + k < off + n
       THEN v ELSE old[b][k]]]

(* The blocks in use when the others are allocated.  Mutant: as they were  *)
(* before the edge case.                                                   *)
AsBefore(edge) == blocks_used
WithEdge(edge) == blocks_used \cup edge

(* A write that passes the checks and has its block of the edge case.  When*)
(* the others cannot be allocated it frees those it got, but not that one, *)
(* which it has filled with zeros.                                         *)
WriteBytes(h, n, v) ==
  LET i     == Number(h)
      old   == inode[i].direct_blocks
      edge  == IF AtEdge(h) THEN Lowest(1, blocks_used) ELSE {}
      first == Cardinality({j \in Direct : old[j] # -1})
      num   == first + Cardinality(edge)
      used  == WithEdge(edge)
      req   == Required(h, n, num)
      fresh == Lowest(req, used)
      new   == [j \in Direct |->
                  IF first <= j /\ j < num THEN Min(edge)
                  ELSE IF num <= j /\ j < num + req THEN Nth(fresh, j - num)
                  ELSE old[j]]
  IN \/ /\ Cardinality(Blocks \ used) < req
        /\ blocks_used' = used
        /\ data' = Filled(edge)
        /\ lost' = lost \cup edge
        /\ Returns(-1)
        /\ UNCHANGED inode
     \/ /\ Cardinality(Blocks \ used) >= req
        /\ blocks_used' = used \cup fresh
        /\ data' = Stored(Filled(edge \cup fresh), new, Offset(h), n, v)
        /\ inode' = [inode EXCEPT
             ![i].direct_blocks = new,
             ![i].file_size = IF Offset(h) + n > @ THEN Offset(h) + n ELSE @]
        /\ Returns(0)
        /\ UNCHANGED lost

TooLong(h, n) == Offset(h) + n > MaxBytes

CanWrite(h, n) ==
  ~Bad(h) /\ ~TooLong(h, n) /\ ~(AtEdge(h) /\ blocks_used = Blocks)

simplefs_write(h, n, v) ==
  \/ /\ n = 0
     /\ Returns(0)
     /\ UNCHANGED <<inodes_used, blocks_used, inode, data, file_handle_array, lost>>
  \/ n # 0 /\ ~CanWrite(h, n) /\ Fails
  \/ /\ n # 0 /\ CanWrite(h, n)
     /\ WriteBytes(h, n, v)
     /\ UNCHANGED <<inodes_used, file_handle_array>>

-----------------------------------------------------------------------------
Next ==
  \/ \E name \in Names : \/ simplefs_create(name)
                         \/ simplefs_delete(name)
                         \/ simplefs_open(name)
  \/ \E h \in Handles : \/ simplefs_close(h)
                        \/ \E n \in Lengths : simplefs_read(h, n)
                        \/ \E n \in Lengths, v \in Bytes : simplefs_write(h, n, v)
                        \/ \E k \in Seeks : simplefs_seek(h, k)

Spec == Init /\ [][Next]_vars

-----------------------------------------------------------------------------
(* Properties *)

TypeOK ==
  /\ inodes_used \subseteq Inodes
  /\ blocks_used \subseteq Blocks
  /\ inode \in [Inodes -> [status : {"free", "used"}, name : Names \cup {Absent},
                           file_size : 0..MaxBytes,
                           direct_blocks : [Direct -> Blocks \cup {-1}]]]
  /\ data \in [Blocks -> [0..(BLOCKSIZE - 1) -> Bytes \cup {-1, 0}]]
  /\ file_handle_array \in [Handles -> [inode_number : Inodes \cup {-1},
                                        offset : 0..MaxBytes]]
  /\ lost \subseteq Blocks

(* The disk is consistent: the free list of inodes agrees with the inodes, *)
(* a file's blocks come first in its inode, are in use, are nobody else's  *)
(* and hold all its bytes.  (The assertions of freeInode, freeDataBlock and*)
(* simplefs_write rest on this.)                                           *)
Consistent ==
  /\ \A i \in Inodes :
       LET nd == inode[i] IN
       /\ i \in inodes_used <=> nd.status = "used"
       /\ nd.status = "free" => BlocksOf(i) = {}
       /\ BlocksOf(i) \subseteq blocks_used
       /\ \A j, k \in Direct :
            /\ j < k /\ nd.direct_blocks[k] # -1 => nd.direct_blocks[j] # -1
            /\ nd.direct_blocks[j] # -1 /\ nd.direct_blocks[j] = nd.direct_blocks[k]
                 => j = k
       /\ nd.file_size <= Cardinality(BlocksOf(i)) * BLOCKSIZE
  /\ \A i, k \in Inodes : i # k => BlocksOf(i) \cap BlocksOf(k) = {}

Owned == UNION {BlocksOf(i) : i \in Inodes}

(* No block is lost except by the write that fails in its edge case: the   *)
(* blocks in use are those of the files and those it has left behind.      *)
Accounted == blocks_used \ Owned = lost /\ lost \cap Owned = {}

(* The name of a file is no other file's.                                  *)
Named ==
  \A i, k \in Inodes :
    /\ inode[i].status = "used" /\ inode[k].status = "used"
    /\ inode[i].name = inode[k].name
    => i = k

(* Behind the last byte of a file its blocks are zeros: nothing of the     *)
(* file that had a block before comes to light when this one grows.        *)
Blank ==
  \A i \in Inodes :
    \A p \in inode[i].file_size .. Cardinality(BlocksOf(i)) * BLOCKSIZE - 1 :
      ByteAt(i, p) = 0

(* What holds in every state. *)
Invariants == TypeOK /\ Consistent /\ Accounted /\ Named /\ Blank

(* For the programs that use it SimpleFS is a file system: what is read is *)
(* what was written, a call that fails changes no file, and a call changes *)
(* no file but the one it is about.                                        *)
file ==
  [i \in Inodes |->
     IF inode[i].status = "free" THEN Absent
     ELSE [name  |-> inode[i].name,
           bytes |-> [k \in 1..inode[i].file_size |-> ByteAt(i, k - 1)]]]

F == INSTANCE FileSystem WITH file <- file, out <- out,
                              file_handle_array <- file_handle_array

Abstract == F!Spec

=============================================================================
