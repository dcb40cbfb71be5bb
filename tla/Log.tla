-------------------------------- MODULE Log ---------------------------------
(***************************************************************************)
(* The write-ahead log of xv6 (log.c) with the part of the buffer cache it *)
(* relies on (bio.c): system calls that write to the disk run concurrently *)
(* between begin_op and end_op; the last one to end copies the blocks they *)
(* changed to the log, writes the header, copies them home and clears the  *)
(* header.  The machine may crash between any two writes of blocks, also   *)
(* while it recovers.                                                      *)
(*                                                                         *)
(* A block is a model value and its contents a member of Data.  A write of *)
(* one block is atomic, since a block is one sector of the disk.  A buffer *)
(* that nobody uses and that is not dirty may be recycled at any time;     *)
(* which one bget takes first, and that there are NBUF of them, is left    *)
(* out.  The log occupies nlog blocks, its header included.                *)
(***************************************************************************)
EXTENDS Integers, Sequences, FiniteSets

CONSTANTS
  Procs,
  Blocks,       (* the blocks outside the log                               *)
  Data,
  NoBlock,      (* instead of a block                                       *)
  NoProc,       (* instead of a process                                     *)
  NoData,       (* instead of contents: the block is not in the cache       *)
  MAXOPBLOCKS,  (* blocks begin_op reserves for a system call               *)
  LOGSIZE,
  OpBlocks      (* blocks a system call really changes, at most             *)

ASSUME BlockAssumption == NoBlock \notin Blocks
ASSUME ProcAssumption == NoProc \notin Procs /\ IsFiniteSet(Procs)
ASSUME DataAssumption == NoData \notin Data
ASSUME SizeAssumption == /\ MAXOPBLOCKS \in Nat
                         /\ LOGSIZE \in Nat /\ LOGSIZE > MAXOPBLOCKS
                         /\ OpBlocks \in Nat /\ OpBlocks < MAXOPBLOCKS

nlog == LOGSIZE

VARIABLES
  disk,         (* on the disk: the blocks in their home locations,         *)
  header,       (* the header block of the log, the sequence of block       *)
  logged,       (* numbers of a committed transaction, and the log blocks   *)
  data, dirty,  (* in memory: the buffer cache, the B_DIRTY buffers,        *)
  lock,         (* the holder of the sleep lock of each buffer              *)
  lh, outstanding, committing,   (* struct log                              *)
  stage, tail,  (* how far commit or recover_from_log is                    *)
  pc, buf,      (* where each process is, the buffer it has or waits for    *)
  tested,       (* the processes that are past the tests of log_write       *)
  wrote,        (* the blocks each system call has changed                  *)
  panicked

disks == <<disk, header, logged>>
cache == <<data, dirty, lock>>
log == <<lh, outstanding, committing, stage, tail>>
procs == <<pc, buf, tested, wrote>>
vars == <<disk, header, logged, data, dirty, lock, lh, outstanding,
          committing, stage, tail, pc, buf, tested, wrote, panicked>>

Stages == {"idle", "boot", "log", "head", "install", "clear", "done"}

TypeOK ==
  /\ disk \in [Blocks -> Data]
  /\ header \in Seq(Blocks) /\ Len(header) <= LOGSIZE
  /\ logged \in [1..LOGSIZE -> Data]
  /\ data \in [Blocks -> Data \cup {NoData}]
  /\ dirty \subseteq Blocks
  /\ lock \in [Blocks -> Procs \cup {NoProc}]
  /\ lh \in Seq(Blocks) /\ Len(lh) <= LOGSIZE
  /\ outstanding \in Nat
  /\ committing \in BOOLEAN
  /\ stage \in Stages
  /\ tail \in 0..LOGSIZE
  /\ pc \in [Procs -> {"user", "asleep", "awake", "op", "commit"}]
  /\ buf \in [Procs -> Blocks \cup {NoBlock}]
  /\ tested \subseteq Procs
  /\ wrote \in [Procs -> SUBSET Blocks]
  /\ panicked \in BOOLEAN

(* A disk as mkfs leaves it: the log is empty. *)
Init == /\ disk \in [Blocks -> Data]
        /\ header = <<>>
        /\ logged \in [1..LOGSIZE -> Data]
        /\ \A i, j \in 1..LOGSIZE : logged[i] = logged[j]
        /\ data = [b \in Blocks |-> NoData]
        /\ dirty = {}
        /\ lock = [b \in Blocks |-> NoProc]
        /\ lh = <<>>
        /\ outstanding = 0
        /\ committing = FALSE
        /\ stage = "boot"
        /\ tail = 0
        /\ pc = [p \in Procs |-> "user"]
        /\ buf = [p \in Procs |-> NoBlock]
        /\ tested = {}
        /\ wrote = [p \in Procs |-> {}]
        /\ panicked = FALSE

(* Processes run when initlog is through. *)
Up == ~panicked /\ (committing \/ stage = "idle")

(* What bread finds in block b: the buffer, or else the disk. *)
View(b) == IF data[b] = NoData THEN disk[b] ELSE data[b]

(* wakeup(&log).  Mutant: it is left out. *)
NoWakeup(q) == q
Wakeup(q) == [p \in Procs |-> IF q[p] = "asleep" THEN "awake" ELSE q[p]]

-----------------------------------------------------------------------------
(* System calls. *)

(* Mutant: what is reserved for the calls under way is not counted. *)
NoRoomForOne == Len(lh) + MAXOPBLOCKS > LOGSIZE
NoRoom == Len(lh) + (outstanding + 1) * MAXOPBLOCKS > LOGSIZE

begin_op(p) ==
  /\ Up /\ pc[p] \in {"user", "awake"} /\ buf[p] = NoBlock
  /\ IF committing \/ NoRoom
     THEN pc' = [pc EXCEPT ![p] = "asleep"] /\ UNCHANGED outstanding
     ELSE pc' = [pc EXCEPT ![p] = "op"] /\ outstanding' = outstanding + 1
  /\ UNCHANGED <<disks, cache, lh, committing, stage, tail, buf, tested,
                 wrote, panicked>>

(* A process asks for a buffer, in a system call that changes blocks or in *)
(* one that only reads; from then on the buffer is not recycled.           *)
bget(p, b) ==
  /\ Up /\ pc[p] \in {"user", "op"} /\ buf[p] = NoBlock
  /\ buf' = [buf EXCEPT ![p] = b]
  /\ UNCHANGED <<disks, cache, log, pc, tested, wrote, panicked>>

bread(p) ==
  LET b == buf[p] IN
  /\ Up /\ b # NoBlock /\ lock[b] = NoProc
  /\ lock' = [lock EXCEPT ![b] = p]
  /\ data' = [data EXCEPT ![b] = View(b)]
  /\ UNCHANGED <<disks, dirty, log, procs, panicked>>

Holds(p) == buf[p] # NoBlock /\ lock[buf[p]] = p

TooBig == Len(lh) >= LOGSIZE \/ Len(lh) >= nlog - 1

(* A system call changes the buffer it holds and calls log_write, which    *)
(* tests the length of the log before it takes log.lock.                   *)
Modify(p, d) ==
  LET b == buf[p] IN
  /\ Up /\ pc[p] = "op" /\ Holds(p) /\ p \notin tested
  /\ Cardinality(wrote[p] \cup {b}) <= OpBlocks
  /\ data' = [data EXCEPT ![b] = d]
  /\ wrote' = [wrote EXCEPT ![p] = @ \cup {b}]
  /\ IF TooBig \/ outstanding < 1
     THEN panicked' = TRUE /\ UNCHANGED tested
     ELSE tested' = tested \cup {p} /\ UNCHANGED panicked
  /\ UNCHANGED <<disks, dirty, lock, log, pc, buf>>

Absorbed(b) == \E i \in 1..Len(lh) : lh[i] = b

log_write(p) ==
  LET b == buf[p] IN
  /\ Up /\ p \in tested
  /\ lh' = IF Absorbed(b) THEN lh ELSE Append(lh, b)
  /\ dirty' = dirty \cup {b}
  /\ tested' = tested \ {p}
  /\ UNCHANGED <<disks, data, lock, outstanding, committing, stage, tail, pc,
                 buf, wrote, panicked>>

brelse(p) ==
  /\ Up /\ Holds(p) /\ p \notin tested
  /\ lock' = [lock EXCEPT ![buf[p]] = NoProc]
  /\ buf' = [buf EXCEPT ![p] = NoBlock]
  /\ UNCHANGED <<disks, data, dirty, log, pc, tested, wrote, panicked>>

(* bget gives the buffer to another block. *)
Recycle(b) ==
  /\ Up /\ data[b] # NoData /\ b \notin dirty
  /\ \A p \in Procs : buf[p] # b
  /\ data' = [data EXCEPT ![b] = NoData]
  /\ UNCHANGED <<disks, dirty, lock, log, procs, panicked>>

(* Mutant: the transaction is committed while other system calls run.     *)
AnyOp == outstanding >= 1
LastOp == outstanding = 1

end_op(p) ==
  /\ Up /\ pc[p] = "op" /\ buf[p] = NoBlock
  /\ outstanding' = outstanding - 1
  /\ wrote' = [wrote EXCEPT ![p] = {}]
  /\ panicked' = committing
  /\ IF LastOp
     THEN /\ committing' = TRUE
          /\ stage' = IF lh = <<>> THEN "done" ELSE "log"
          /\ pc' = [pc EXCEPT ![p] = "commit"]
     ELSE /\ pc' = Wakeup([pc EXCEPT ![p] = "user"])
          /\ UNCHANGED <<committing, stage>>
  /\ UNCHANGED <<disks, cache, lh, tail, buf, tested>>

-----------------------------------------------------------------------------
(* commit() and recover_from_log(), one write of a block at a time. *)

write_log ==
  LET b == lh[tail + 1] IN
  /\ ~panicked /\ stage = "log" /\ lock[b] = NoProc
  /\ logged' = [logged EXCEPT ![tail + 1] = View(b)]
  /\ data' = [data EXCEPT ![b] = View(b)]
  /\ IF tail + 1 = Len(lh)
     THEN stage' = "head" /\ tail' = 0
     ELSE tail' = tail + 1 /\ UNCHANGED stage
  /\ UNCHANGED <<disk, header, dirty, lock, lh, outstanding, committing,
                 procs, panicked>>

write_head ==
  /\ ~panicked /\ stage = "head"
  /\ header' = lh
  /\ stage' = "install"
  /\ UNCHANGED <<disk, logged, cache, lh, outstanding, committing, tail,
                 procs, panicked>>

install_trans ==
  LET b == lh[tail + 1] IN
  /\ ~panicked /\ stage = "install" /\ lock[b] = NoProc
  /\ disk' = [disk EXCEPT ![b] = logged[tail + 1]]
  /\ data' = [data EXCEPT ![b] = logged[tail + 1]]
  /\ dirty' = dirty \ {b}
  /\ IF tail + 1 = Len(lh)
     THEN stage' = "clear" /\ tail' = 0
     ELSE tail' = tail + 1 /\ UNCHANGED stage
  /\ UNCHANGED <<header, logged, lock, lh, outstanding, committing, procs,
                 panicked>>

ClearHead ==
  /\ ~panicked /\ stage = "clear"
  /\ lh' = <<>> /\ header' = <<>>
  /\ stage' = IF committing THEN "done" ELSE "idle"
  /\ UNCHANGED <<disk, logged, cache, outstanding, committing, tail, procs,
                 panicked>>

CommitEnds(p) ==
  /\ Up /\ stage = "done" /\ pc[p] = "commit"
  /\ committing' = FALSE
  /\ stage' = "idle"
  /\ pc' = Wakeup([pc EXCEPT ![p] = "user"])
  /\ UNCHANGED <<disks, cache, lh, outstanding, tail, buf, tested, wrote,
                 panicked>>

(* initlog reads the header and goes on as commit does. *)
read_head ==
  /\ ~panicked /\ stage = "boot"
  /\ lh' = header
  /\ stage' = IF header = <<>> THEN "clear" ELSE "install"
  /\ UNCHANGED <<disks, cache, outstanding, committing, tail, procs, panicked>>

(* The machine stops and starts again: what was in memory is gone. *)
Crash ==
  /\ stage # "boot"
  /\ data' = [b \in Blocks |-> NoData]
  /\ dirty' = {}
  /\ lock' = [b \in Blocks |-> NoProc]
  /\ lh' = <<>> /\ outstanding' = 0 /\ committing' = FALSE
  /\ stage' = "boot" /\ tail' = 0
  /\ pc' = [p \in Procs |-> "user"]
  /\ buf' = [p \in Procs |-> NoBlock]
  /\ tested' = {}
  /\ wrote' = [p \in Procs |-> {}]
  /\ panicked' = FALSE
  /\ UNCHANGED disks

Next ==
  \/ \E p \in Procs : \/ begin_op(p) \/ bread(p) \/ log_write(p) \/ brelse(p)
                      \/ end_op(p) \/ CommitEnds(p)
                      \/ \E b \in Blocks : bget(p, b)
                      \/ \E d \in Data : Modify(p, d)
  \/ \E b \in Blocks : Recycle(b)
  \/ write_log \/ write_head \/ install_trans \/ ClearHead
  \/ read_head \/ Crash

Spec == Init /\ [][Next]_vars

-----------------------------------------------------------------------------
(* Properties. *)

(* No process sleeps in begin_op while no commit is under way and there is *)
(* room for its system call: whoever makes the room or ends the commit     *)
(* wakes it (log.c 126-174).                                               *)
NobodySleepsInVain ==
  \A p \in Procs : pc[p] = "asleep" => committing \/ NoRoom

(* The log never overflows and log_write never finds it full, although the *)
(* last block of the log cannot be used, log_write tests the length before *)
(* it takes the lock, and a system call that ends gives up only what it    *)
(* did not use (log.c 132, 218).                                           *)
NoPanic == ~panicked /\ Len(lh) <= nlog - 1

(* The blocks changed since the last commit, and only they, are pinned in  *)
(* the cache and are in the log header in memory, each once (log.c 204).   *)
PinnedAreLogged ==
  Up /\ stage \in {"idle", "log", "head"} =>
    /\ dirty = {lh[i] : i \in 1..Len(lh)}
    /\ \A i, j \in 1..Len(lh) : lh[i] = lh[j] => i = j

(* What holds in every state. *)
Invariants == TypeOK /\ NobodySleepsInVain /\ PinnedAreLogged

-----------------------------------------------------------------------------
(* The log implements an atomic disk.  What a crash leaves is the disk     *)
(* with the blocks of the transaction whose header is written; the system  *)
(* calls see the cache.                                                    *)
stable == [b \in Blocks |->
             IF \E i \in 1..Len(header) : header[i] = b
             THEN logged[CHOOSE i \in 1..Len(header) : header[i] = b]
             ELSE disk[b]]
now == IF committing \/ stage = "idle" THEN [b \in Blocks |-> View(b)] ELSE stable
open == {p \in Procs : pc[p] = "op"}

A == INSTANCE AtomicDisk WITH now <- now, stable <- stable, open <- open

(* A crash leaves the disk as it was when no system call was under way,    *)
(* and recovery, also one that is itself interrupted, brings that back.    *)
Abstract == A!Spec
=============================================================================
