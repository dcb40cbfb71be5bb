# Verification of Operating-Systems-Labwork

The repository holds the programs of an operating-systems course: an xv6 kernel
that was extended in several ways, and user programs for Linux (pthreads, a
file system on a simulated disk, shells, inter-process communication,
allocators). There is no single program; each lab is a system of its own. The
models here cover the labs whose correctness depends on orders nobody wrote a
test for. Paths below are relative to `src/`, `C25/` stands for
`CS236-Spring-2025-Labs/`.

## 1. Inventory

| Component | State | Operations | What is hard |
|---|---|---|---|
| xv6-threads process table (`C25/xv6-threads/proc.c`) | `ptable.proc[]` (state, pid, parent, mainthread, killed, chan), `nextpid`, `cpu->proc` | allocproc, fork, thread_create, exit, thread_exit, wait, waitpid, thread_join, kill, sleep, wakeup, scheduler, yield | interleaving of CPUs, reuse of slots, missed wakeups, code that skips the lock |
| address spaces of threads (`C25/xv6-threads/proc.c`, `vm.c`) | `sz` and `pgdir` of each slot, page tables | thread_create, growproc, fork, wait, create_thread_stack, allocuvm, deallocuvm, copyuvm, freevm | one page table, a size for each thread |
| channels of user programs (`proc.c` 486-544) | `chan`, ids drawn from `nextpid` | sleepChan, sigChan, sigOneChan, getChannel | unlocked scan and store |
| user synchronisation (`C25/xv6-threads/ulib.c` 108-197) | lock word, channel, semaphore counter | acquireLock, releaseLock, condWait, signal, broadcast, semUp, semDown | release and sleep are two steps |
| barrier (`C25/xv6-threads/barrier.c`) | `cur_num`, `tot_num`, a spin lock | barrier_init, barrier_check | early and late arrivals, reuse |
| master-worker pool (`C25/pthreads/.../master-worker`, student variant in `labs/`) | buffer, `curr_buf_size`, `item_to_produce`, two condition variables | generate_requests_loop, consume_requests_loop, main | full and empty buffer, the last item, termination of everybody |
| reader-writer locks (`C25/pthreads/.../rwlock`, student variant in `labs/`) | `num_readers`, `num_writers`, mutexes, condition variable | ReaderLock, ReaderUnlock, WriterLock, WriterUnlock | exclusion, preference, a mutex held while waiting for another |
| zemaphores (`C25/pthreads/.../zemaphore`) | value, mutex, condition variable | zem_init, zem_down, zem_up, and the programs test-zem and test-toggle | wakeups that were not signalled |
| SimpleFS (`C25/file-system`) | superblock, inodes, data blocks on a disk image, file handles | create, delete, open, close, read, write, seek | partial failure of an allocation, stale handles |
| xv6-mem Part C, copy on write (`C25/xv6-mem/Part-C/xv6/vm.c`, `kalloc.c`) | reference counts of pages, page tables, free list | copyuvm, handlePageFault, kalloc, kfree, allocuvm, deallocuvm | counts changed by several CPUs without the lock, memory that runs out in the middle |
| xv6-mem Part B, lazy mmap | `sz`, page table | mmap, page fault | sizes and boundaries |
| xv6-proc-lab Part B scheduler | priorities, `ptable` | setprio, scheduler | starvation |
| xv6 log and buffer cache (`C25/xv6-threads/log.c`, `bio.c`) | log header on the disk and in memory, reservations, buffers and their locks | begin_op, log_write, end_op, commit, recover_from_log, bread, bwrite, brelse | crash between two writes, also during recovery; the log at its limit; buffers that may not leave the cache |
| xv6 pipe, sleep lock, spin lock | ring of bytes, lock words | piperead, pipewrite, acquiresleep | full and empty, closing |
| shell, part E (`C25/shell/shell-code/part-e.c`; parts A to D and `labs/` are earlier) | `fore_pgid`, `back_num`, `back_pgid`, process groups | command loop, `&`, `&&`, `&&&`, SIGINT handler, exit | children that end at any time, groups that children join after the fork |
| IPC programs (`C25/ipc-code`) | shared slots, two fifos; datagrams | producer, consumer; client, server | slot reuse, lost datagrams |
| allocators (`labs/malloc-code`, lab quiz buddy allocator) | free lists, bitmaps | init, alloc, dealloc, cleanup | splitting, merging, boundaries |
| dinner-restaurant problem (`labs/pthreads-sync-code`) | counters and semaphores | eater | everybody waiting |

Interactions: the user synchronisation calls the channel system calls, which
act on the process table and its scheduler; the barrier uses the kernel's sleep
and wakeup; the pthread programs run over the POSIX mutex and condition
variable, which are modelled from their use (a wait releases the mutex and
sleeps in one step, a signal wakes one waiter if there is one, and POSIX lets a
wait return without a signal).

What makes each modelled component correct, in a sentence: the process table
never mixes up two users of a slot and misses no exit; threads that share an
address space map, free and hand out no page of each other; a semaphore lets nobody
through for whom there was no unit and forgets nobody; a barrier opens when all
have come; every request is produced and consumed once; a writer shares the
lock with nobody; a file holds what was written to it and no block is lost; a
crash leaves the disk as it was between two system calls; a process never sees
another one's writes in memory and no page is lost; the shell's prompt comes when
the foreground is done, and ^C and exit reach whom they should.

## 2. Plan

The order follows how much a component's correctness depends on interleavings
and how much code of these labs (and not of the xv6 distribution) is in it.

| Step | Modules | State |
|---|---|---|
| 1 | `ProcTable`: processes, threads, channels | modelled, checked, safety properties proved |
| | `AddressSpace`: sizes, page tables and stacks of its threads | composed with `ProcTable`, checked, proved |
| 2 | `Ulib`: locks, condition variables, semaphores over the channels | modelled, checked, safety properties proved |
| 3 | `AbstractBarrier`, `Barrier` | modelled, checked, refinement proved |
| 4 | `Semaphore`, `Zemaphore`, `ZemTests` | modelled, checked, refinement proved |
| 5 | `Requests`, `MasterWorker` | modelled, checked, refinement proved |
| 6 | `ReadersWriters`, `RWLock` | modelled, checked, refinement proved |
| 7 | `FileSystem`, `SimpleFS` | modelled, checked, consistency and refinement proved |
| 8 | `PrivateMemory`, `CowFork` | modelled with all interleavings, checked, refinement proved until a process acts on an outdated count |
| 9 | `AtomicDisk`, `Log` | modelled with crashes, checked, refinement proved |
| 10 | `Shell` | modelled, checked, safety properties proved |
| 11 | lazy mmap (Part B), allocators against one abstract allocator, the shared-memory ring of the IPC lab | left |
| 12 | priority scheduler, the student versions of master-worker and rwlock as further clients of `Requests` and `ReadersWriters` | left |

Every safety property that a passing run checks is also a theorem (section 7).
What is left to prove comes with the modules of steps 11 and 12.

Which module composes which: `ZemTests` extends `Zemaphore` with the programs
that use it; `AddressSpace` extends `ProcTable`, each of its actions being one of
`ProcTable` together with what it does to the memory; `Ulib` has the same shape for the xv6 programs and shows the kernel
as what the channel calls of `ProcTable` do to a thread; each detailed module
instantiates its abstract one (`AbstractBarrier`, `Semaphore`, `Requests`,
`ReadersWriters`, `FileSystem`, `AtomicDisk`, `PrivateMemory`) with a refinement mapping given by definitions
that carry the names of the abstract variables, and checks `Abstract`. The
`MC...` modules only hold instances.

## 3. The modules and the code

**`ProcTable`** (`C25/xv6-threads/proc.c`, `proc.h`). One function per field of
`struct proc`, indexed by slots, plus `cpu` for `c->proc`, `nextpid`, and for a
process inside the kernel its place `pc` and its locals `np`, `ptr`, `num`. Code
between `acquire(&ptable.lock)` and its release, or the switch to the scheduler,
is one action. What the code does without the lock is split where another CPU or
a timer interrupt can come in: `AllocProc` / `Fork` or `AllocFailed`,
`ThreadCreate` (which loads `curproc->parent`) / `ThreadStart` (which stores it),
`GetChannel` / `GotChannel` around the unlocked `nextpid++`, `SigOneChan` (the
scan) / `SigOneChanStores`. `Wait`, `ThreadJoin` and `WaitPid` are taken both at
the call and after every wakeup. `Yield` happens wherever interrupts are on.

The programs that use the kernel appear through `Calls` (the system calls they
make) and `Rules` (what they are careful about): "join", a main thread joins its
threads before it exits and kill is not used on threads; "ids", getChannel does
not overlap another allocation of an id; "signal", a sigOneChan between its scan
and its store is not overlapped by another wakeup of the same process; "pids",
kill is given the pid of a process or thread that has been created, and waitpid that
of a child process, not of a thread. The tests of the lab keep these rules; what happens without them is in section 6.

**`AddressSpace`** (`proc.c`, `vm.c`) adds `pgdir` and `sz` of the slots and the set
of pages each page table maps; a page has `PageSize` units, so that sizes need not
be whole pages. `CreateThreadStack` is `ThreadCreate` with the stack that
create_thread_stack maps behind the caller's size, `CopyUvm` is `Fork` with the
copy, `Reap` a wait or waitpid with freevm, `Sbrk` is growproc. waitpid frees the
page table of whatever zombie it takes; "pids" keeps it away from threads. The
history variables `stack` and `heap` say what each page and unit was handed out for. growproc and
create_thread_stack take no lock; under "main" no two of them run on one page
table, so each is one step. `MemoryRules`, as the tests keep them: "main", only the
main thread of a process calls sbrk and thread_create; "own", sbrk is given back
only what it handed out; "aligned", threads are created when the size is a number
of pages; "memory", there is a page for the stack. Without any one of them
`MemoryApart` fails (section 6).

**`Ulib`** (`ulib.c` 108-197) runs the programs `t_sem1`, `t_sem2`, `t_l_cv1` and
`t_l_cv2`: each thread is at an instruction `ip` and, within a call, at a place
`at` (waiting for the lock, in the window before `sleepChan`, asleep, and so on).
`condWait` is three steps, as in the code: release the lock, sleep, take the lock
again. `overtaken` is a history flag: a signal or broadcast came while some
thread was in that window. Properties that cannot hold then are stated for the
behaviours in which it stays FALSE. What the library promises depends on its
callers: `DisciplineAssumption` says that a program releases, and waits with, a
lock that it has acquired (`Balanced`) and creates a thread once,
`SemaphoreAssumption` that a semaphore is initiated once, by main before the
threads, and that its condition variable is used for nothing else. The four
programs do so; TLC evaluates both for them. In `MCUlib` the toggles of `t_l_cv2`
run any number of `Rounds`; `Lines` is what a thread has printed.

**`Barrier`** (`barrier.c`). `barrier_init` by anyone when the last group is
through, `barrier_check` up to its end or its sleep, `Leave` for a process that
comes back from sleep, `Kill` for a process killed while it sleeps.

**`Zemaphore`, `ZemTests`** (`zemaphore.c`, `test-toggle.c`, `test-zem.c`). Value,
waiters and unblocked threads of each semaphore; `zem_down`, `zem_up`, the return
from `pthread_cond_wait`, and `ZSpurious`, the return POSIX allows without a
signal. The code waits with an `if`, so such a return lets a thread through: the
flag `excused` records it, and the abstract semaphore promises nothing after it.
`MCZemTests` writes the two programs down for any `NUM_THREADS` and `NUM_ITER`, the
constants of `test-toggle.c`; `Lines` is what a thread has printed.

**`MasterWorker`** (`master-worker.c`). Each pass of a loop under the mutex is one
action, and so is main's join and free. The buffer is the number of its first
entry and its length, as in the code.

**`RWLock`** (`rwlock-reader-pref.cpp`, `rwlock-writer-pref.cpp`). `is_reader_pref`
says which file is linked. A thread keeps the inner mutex over several steps only
while it waits for `lock`. `lock` is a default glibc mutex: the last reader
unlocks what the first one locked, which POSIX leaves undefined and glibc does.

**`SimpleFS`** (`simplefs-ops.c`, `simplefs-disk.c`). The free lists of the
superblock, the inodes, the data blocks byte by byte, the handles. Each operation
is one action, since one program calls them in sequence. A write computes the
blocks it needs as the code does, has its edge case at the end of the last block,
and may fail after it allocated, zeroed and filled that block; `lost` is the
history of such blocks.
What holds in every state: the lists agree with the inodes (`Consistent`), the
blocks in use are those of the files and the lost ones (`Accounted`), no two
files have one name (`Named`), and behind the end of a file its blocks are zeros
(`Blank`), so that a file that grows shows nothing of an earlier one.
In `FileSystem` a file is a name and a sequence of bytes. Handles survive
`simplefs_delete` in both, and may then name the next file in the inode.

**`Log`** (`log.c`, of `bio.c` what it relies on). On the disk the home blocks,
the header and the log blocks; in memory the cache, the dirty buffers and the
locks of the buffers, and `struct log`. A system call is `begin_op`, any number of
`bget` / `bread` / `Modify` (the change and the tests of `log_write`, which are
made before `log.lock` is taken) / `log_write` / `brelse`, and `end_op`. `commit` and
`recover_from_log` are one action per block written (`write_log`, `write_head`,
`install_trans`, `ClearHead`), since a block is a sector and a crash may come
between any two: `Crash` forgets the memory, `read_head` is what initlog finds.
The actions that commit and recovery share are the same ones, as in the code.
`Recycle` may throw out any clean buffer that is not in use, which is what the
`B_DIRTY` test in `bget` protects. In `AtomicDisk` there are only a disk, what a
crash would leave of it, and the system calls under way.

**`CowFork`** (`vm.c`, `kalloc.c`). Page tables, contents, counts and free list, and
for each process its place in the kernel. The xv6 makefile compiles without
optimisation, so `refs++` and `refs--`, which are made without `kmem.lock`, are a load
and a store with anything in between; `handlePageFault` reads the count up to three
times, each of which is a step. Nothing in the model keeps two processes away from one
count. The history variable `outdated` is set when a process stores a sum made from
a count that has changed since it was loaded, or takes itself off a count that it
saw above one and that is so no more. Nothing in the kernel prevents it, and it does
happen (section 6); the properties are stated for the behaviours up to there, that
is for every interleaving of the looks, loads and stores in which each decision is
still right when it is carried out. What comes after is in the model too: `cow_race` looks at it.
`leaked` is the history of counts that failed forks left too high (section 6). In
`PrivateMemory` a process is a sequence of pages.

**`Shell`** (`part-e.c`). A line stands for its leader, the child that runs its
commands, and for the process group of that number. `Forked`, what the shell does
after the fork, and `SetPgid`, what the leader does, race; `Wait` is `wait(NULL)`,
which takes any child that has ended; `exit` is two kills with a step between
them. ^C kills the foreground line's group as the signal handler does and, since the
terminal sends SIGINT to the group of the shell, whatever is in that one.
The history flags `stray`, `hurried` and `late` mark the behaviours in which
section 6 says the shell fails.

## 4. Runs

| Run | What it shows | Bounds, and why they are enough |
|---|---|---|
| `proc_table` | all system calls together: pids and slots are reused without mixing processes up, no exit is missed by a parent that waits or by a child that outlives its parent, nobody runs on two CPUs or after its exit, threads keep their address space, nothing panics | 4 slots (init, a process, its thread, and a child), 2 CPUs, ids up to 5, so slots are reused and orphans pass to init; one pid to kill; allocations may fail |
| `proc_live` | threads of one address space do not map, free or hand out each other's pages; a killed process exits, unless it sleeps in waitpid, and init collects its zombies | 3 slots (init, a process with a thread or a child), 2 CPUs, ids up to 4, so that slots are reused; up to 3 pages of 2 units, sbrk of half a page, a page and minus half a page: stacks before and after memory of sbrk, sizes that are no whole pages, threads that fork, stacks left by joined threads |
| `ulib` | no thread passes a semaphore without a unit, locks have one holder, no semUp is forgotten, the lines come in the promised order, the programs end | the test programs themselves, up to four threads; `t_l_cv2` with the 10 rounds of its loops |
| `barrier` | implements `AbstractBarrier`; the count is right also when a waiting process is killed; everybody clears | 4 processes in groups of every size, two uses |
| `zemaphore` | implements `Semaphore`; the test programs print in turn and end | the two programs with their own numbers: 3 threads and 10 rounds of `test-toggle` |
| `master_worker` | implements `Requests`; nobody waits in vain; everybody ends | all command lines with up to 4 requests, buffers of 1 to 3, 1 or 2 masters, 1 to 3 workers: buffers full and empty, more workers than requests, no requests |
| `rwlock` | both files implement `ReadersWriters`; preference of writers; everybody ends | 3 readers, 2 writers, each twice: first, middle and last reader, competing writers, coming back |
| `simplefs` | implements `FileSystem`; the disk is consistent; blocks are accounted for | 2 inodes for 3 names, 3 blocks of 2 bytes for files of up to 2 blocks, so inodes, blocks and handles run out and writes end before, at and after a block boundary; negative counts and seeks |
| `log` | implements `AtomicDisk` through crashes, also of recovery; header and pinned buffers agree; nobody sleeps in begin_op in vain; nothing panics | 3 processes, 3 blocks, contents 0 or 1, a log of 4 blocks (MAXOPBLOCKS 2, LOGSIZE 4, for 10 and 30) that has room for two system calls and overflows with a third block: system calls absorb each other's blocks, wait for room, and wait for a commit; any number of crashes |
| `cow` | until a process acts on an outdated count: implements `PrivateMemory`; counts are right at every step; no page is lost but by a fork that ran out of memory | 3 processes, 3 frames, up to 2 pages each, contents 0 or 1, a page-table page per page: pages with one, two and three users, memory that runs out in fork, fault and sbrk; at most one count left over by failed forks (`FewLeaks`), and no further once `outdated` is set (`UntilOutdated`). 1.6 million states |
| `cow_race` | violation, section 6 | as `cow`, but going on after `outdated` |
| `shell` | the prompt comes when the foreground is done, a command before && has ended when a later one starts (unless a &&& comes before, section 6), no more commands run than the &&& allow, ^C spares the background, exit kills all | 3 lines of up to 3 commands: two background lines and a foreground line beside them, the second one joining the first one's group; a single `&` |

Deadlock is not checked where the system may stop: programs that end, or that
sleep on a channel nobody signals.

Every property of a passing run has a mutant in PROJECT.json, a plausible bug in
the code under which TLC finds the property violated.

## 5. Fairness

`ProcTable`: the scheduler goes round the table, so a runnable process is not
passed over for ever (strong fairness of `Scheduler` per slot); a process inside
the kernel gets through it although the timer may interrupt it (strong fairness
of its steps, since it is only enabled while it is on a CPU); the timer ticks
(weak fairness of `Yield` and of the exit of a killed process); init's program
loops on wait. Nothing is assumed of what other programs do.
`Ulib`, `Barrier`, `Zemaphore`, `MasterWorker`, `RWLock`: weak fairness of each
thread's next step, which the schedulers of xv6 and Linux give; nothing is
assumed of who gets a mutex, or of which waiter a signal wakes.
`AddressSpace` has the fairness of `ProcTable`: no step of the memory needs one, and
none that `ProcTable` owes is held up by the memory, since under the rules no panic
is about to happen.
No liveness is claimed for SimpleFS, whose operations are single steps; nor for
the log, where system calls that overlap for ever and change only blocks that are
in the log already postpone the commit for ever (the code has nothing against
it); nor for copy on write and the shell, which loop only as long as programs and
users make them.

## 6. Disagreements

One run is expected to fail: `cow_race`. `kalloc.c:144` changes the counts of pages,
"to track number of processes using each physical frame" (`kalloc.c:21`), without
`kmem.lock`, and so do the decrement and `kfree`: a fork and a page fault of another
process on the same page lose one of the two updates. A count that is too low
gives the page to somebody else while it is still mapped. The looks of
`handlePageFault` before the decrement are not protected either: two processes that
fault on a page they share, and both find two users (`vm.c:407`), both copy it
and both take themselves off it, and the page, with no user left, is not freed. The run
`cow` and the proofs of section 7 say what the code does up to the first such
step, and nothing about what it does from there on.

What else was seen while modelling. Where a property depends on it, the
property's comment and the model's history flags or rules name the exception.

Process table. `proc.c:582`: kill does not look at the state of a slot, and
`allocproc` does not reset `killed`, so `kill(0)` marks a free slot and the next
process created in it dies at its first trap (rule "pids"). `proc.c:537`:
sigOneChan scans and stores without `ptable.lock`: the process found can be killed
and exit in between, is made RUNNABLE again and reaches `panic("zombie exit")`
(rule "signal"). `proc.c:506`: getChannel may hand out a number that becomes a pid
when two allocations of ids overlap (rule "ids"). waitpid does not give up when
killed (`proc.c:785`), which `KilledDies` says. waitpid on a thread, which the parent
of its main thread may call, frees the page table that the main thread still runs on
(`proc.c:781`; rule "pids"). thread_create reads `curproc->parent` without the lock
(`proc.c:651`), so the parent of a thread may name a slot that has been reused since;
only waitpid reads it. `init.c:27` exits when fork fails, which is
`panic("init exiting")`.

Address spaces. Threads share a page table but not `sz`. `proc.c:168`: a thread that
calls sbrk, or thread_create, after another one has done so maps pages that are
mapped, which is `panic("remap")` (rule "main"). Memory given back by one thread is
still counted by the others, and a fork in one of them reaches
`panic("copyuvm: page not present")` (rule "own"). `proc.c:647`: the null pointer of a
create_thread_stack without memory is taken for an address: the stack is in the
first page of the program, and `sz` counts a page that is not there (rule "memory").
`vm.c:258` puts the stack at the next page boundary but `proc.c:648` adds one page to
a size that may be in the middle of a page: sbrk then hands out the top of the
stack, and the thread's system calls find their arguments beyond its size (rule
"aligned"). thread_join does not free the stack. `sbrk` of minus the whole size frees
everything and then reports a failure.

User synchronisation. `ulib.c:150`: condWait releases the lock before it sleeps,
not in one step, so a signal in between is lost and `t_sem2` can hang (`overtaken`).
`barrier.c:34`: the count goes down only when a process that was woken has the lock
again, so a process that uses the barrier a second time without `barrier_init` may
be counted with the first group.

Log. `mkfs.c:25` makes the log LOGSIZE blocks long with its header, one less than
begin_op counts on: system calls that use their whole reservation would overflow
it. None of xv6's does, which is the assumption `OpBlocks < MAXOPBLOCKS`. log_write
tests the length before it takes `log.lock`; with that assumption the test cannot
go out of date. NBUF is not compared with what system calls and log pin together.

Copy on write. `vm.c:337`: when mappages fails in fork the count of the page at
hand has been raised and stays too high (`leaked`). `vm.c:426`: the fault copies to
what kalloc returns without looking at it (`CopyToNull`). `vm.c:396`: a fault where
there is no page table panics instead of ending the process (left out).

Shell. A line that is nothing but `&` is forked and not counted, so `back_num` is
wrong from then on, ^C may end later background lines and exit miss them (`stray`).
A line entered before the leader of the previous one has called setpgid finds the
group missing (`hurried`). exit is two kills, and a leader that changes groups
between them survives (`late`). In `a &&& b && c` the `wait(NULL)` of
`part-e.c:155` takes whichever of a and b ends first, so that c may start while b
runs, although the comment there says "we need to wait for the previous foreground
process to get done" and the lab's README uses && "to impose sequentiality". `ForegroundInOrder`
therefore promises the order only where no &&& comes before the &&, and elsewhere only
how many commands run. A ^C between the fork and the store of
`fore_pgid` reaches nobody.

SimpleFS. `simplefs-ops.c:177`: a write that allocated its block of the edge case
and then runs out of blocks keeps that block for ever (`lost`). A negative count
passes simplefs_write's checks and, through a handle that outlived its file, can
make the next file in the inode longer.

Programs that are not modelled. The master-worker program of `labs/` waits with
`if` (`master-worker.c:37`) and indexes the buffer at its length, not at its end
(`:74`). The reader-writer lock of `labs/` changes `nwrite` outside of the mutex
(`rwlock-writer-pref.cpp:48`). The diners' two zemaphores that serve as mutexes
start at 0. `xv6-mem/Part-B/xv6/trap.c:82` accepts a fault at the first address
behind the process.

## 7. What is proved

All proofs hold for any values of the constants that satisfy the named assumptions
in the modules that declare them: any number of slots and CPUs, any finite sets of
threads, processes, blocks and pages.

- `ProcTableProofs`. Four arguments, each under the rules (see `ProcTable` in
  section 3) that it needs and no others. `TypeCorrect`: the types are inductive on their own,
  for any set of rules. `Ids`, under "ids": every pid and channel is below
  `nextpid`, pids are distinct and no channel is one, and at most one `getChannel`
  is under way, with `nextpid` as it has read it; from it `PidsAreUnique` and
  `ChannelsApart`. `Kernel`, under "join" and "signal", says who may write whose
  state although not all of them hold `ptable.lock`: zombies make no calls
  (`Places`), a slot being created is an EMBRYO with one creator (`Creators`) and is
  nobody's main thread (`EmbryosAreAlone`), what `sigOneChan` has found is still
  asleep when it stores (`Signallers`), and a live thread's main thread is live.
  From it `OneCpu` (with the types: `Invariants`), `MainThreadsStay` and, by what a step does to one slot
  (`Effect`), `ExitIsFinal`, `PanicsNever` (also under "ids", and if nobody kills
  init) and `KillsHit` (also under "pids"). `Waiters`, on top of `Kernel` and under
  "pids", says that parents and init have not exited, what a process in `wait`,
  `waitpid` or `thread_join` sleeps on, and that no exit fell between its scan and
  its sleep: `ExitsReach`.
- `ProcTableProofs`, of `AddressSpace`: `MemoryStaysApart`, under "join", "signal",
  "pids" and all `MemoryRules`, for any page size. `Memory` is `Kernel` with three more parts.
  `MemoryTypeOK`: sizes and page tables. `Creation`: the slot that fork or
  thread_create is filling is on its own until the second half of thread_create
  puts it into the caller's group. `Layout`: every process with memory has its
  main thread's page table, a thread's size ends with its stack, the main thread's
  size is where the mapped pages end, and stacks and the memory of sbrk are below
  their owners' sizes and apart. `MemoryApart` alone is not inductive: that the next
  stack or heap page is new depends on the main thread's size being the largest,
  which only "main" and "own" keep, and on its being whole pages, which is "aligned".
  That waitpid only finds main threads, whose memory nobody uses any more, is a
  part of `Waiters`.
- `SyncProofs`, of `Ulib`, for any programs that keep `DisciplineAssumption` and
  `SemaphoreAssumption`. `LInv`: created threads were created by somebody who is
  past the call (`Births`), `lockvar` is 1 exactly when there is a holder and there
  is never a second one (`Exclusive`), and nobody uses a semaphore inside its lock
  (`NotNested`: otherwise the last releaseLock of the call would give up two
  acquisitions); from it `LocksHaveOneHolder`. `SInv` adds `Units`: the counter is
  the initial value, plus the semUps begun, minus the semDowns begun, and the
  threads woken together with the signals on their way are no more than the units
  handed out. `SemaphoreBound` alone is not inductive: a thread that is woken looks
  at the counter no more, so its unit must be known to have been set aside.
  `FirstCreator` says that main initiates alone. From it `SemaphoresAreBounded`.
  `WInv` adds `Announced`, from which `NobodyIsForgotten`: a sleeper leaves with
  each signal, unless the one the counter announced is still short of `sleepChan`.
  `LinesInOrder` is about the programs `t_sem2`, and `t_l_cv2` for any number of
  rounds. The former follows from `SemaphoreBound` on its two semaphores: what one
  side has printed bounds what the other may have. For the latter `CvTurns` says
  that `x` is the number of turns `toggle1` is ahead, and that only the toggle
  whose turn it is has left its `while`; it uses neither locks nor signals.
- `SyncProofs`, of `Barrier`. `CountInv`: `cur_num` is the number of processes inside and once
  somebody is let through nobody of the group is outside; from it `Refines`, the
  barrier implements `AbstractBarrier`, and `CountsProcesses`.
- `PthreadProofs`, of `Zemaphore`. `ZInv`: the waiters of a semaphore are its deficit, and every
  unit was used, is there, or is on its way to an unblocked thread. From it the
  library, under any client and under the test programs, implements `Semaphore`
  (`TestsRefine`), and `TestsCountWaiters`. `LinesInOrder` is about the two test
  programs, for any `NUM_THREADS` and `NUM_ITER`. `Accounts` says how many units
  each semaphore has been given and has given out, in terms of where the threads
  are: what a thread has printed is what came out of its semaphore, what went into
  it is what the thread before it has printed. `ZInv` bounds the former by the latter.
- `MasterWorkerProofs`. `Inv`: the requests produced are the ones below
  `item_to_produce`, the ones pending in the buffer are its last, a worker that
  returned left nothing to do, and nobody waits in vain. From it `Refines` and
  `NobodyForgotten`.
- `PthreadProofs`, of `RWLock`. `Inv`: the counts are the numbers of readers and registered
  writers, which mutex is held by whom, and a waiting reader has a writer to wake
  it. From it `Refines`, `PrefersWriters` and `NobodyForgotten`.
- `LogProofs`. The invariant says what is where in each phase: which stage goes with
  which flags (`Phases`), that `outstanding` counts the system calls (`Calls`), that
  what they may still add fits (`Reserved`, needed for `NeverFull`: the number of
  logged blocks alone is not inductive, since a call that ends gives up its
  reservation), that a buffer that is not dirty agrees with the disk (`Clean`),
  and that log blocks, header and cache agree as far as `tail` has come
  (`Contents`). From it `HeaderAgrees`, `NeverFull` and `Refines`: a crash in any
  phase leaves `stable`.
- `CowForkProofs`, for any interleaving of looks, loads and stores until a process
  acts on an outdated count. `Workers`: whose page table a process works on, and
  that nobody else does; `Tables`: which pages are mapped at each place;
  `Counting`: which count a process is at work on, and that a process which found
  itself the last user still is; `Counts`: the count is the number of users, leaks and
  of those who have a copy but are still counted, and a page on the free list has
  none of them; `Exclusive`: a writable page has one user. No part says that the
  number a process has seen is still the count, which is not so, except for the
  last user's: others may come and go between a look and the step that follows
  from it. From it `CountsAreRight`, `NoPageLost` and `MemoryIsPrivate`.

- `SimpleFSProofs`, for any numbers of inodes, blocks and handles, any block size
  and any arguments (`SimpleFSAssumption`). `Invariants` is inductive as it stands.
  The work is in the lists: that a free block found lowest first is in no file, that
  the blocks a write computes it needs (`RequiredIs`) are those the new length
  takes, with its edge case, and that the list of a file stays a list when they
  are put behind it (`Grown`). From it `DiskKept`, and `Implements`: every call is one
  operation of `FileSystem` with the same result, and reads the same bytes. A file
  that grows over the end of the written part reads zeros, which is what `Blank` is
  needed for, and open and delete find the one file of a name, which is `Named`. Its
  only hypothesis is that the value that stands for "no file" is not a file.
- `ShellProofs`, for any lines, any number of them, and commands that end at any
  time. `Line`: a leader has no more commands to wait for than it will
  wait for. `Order`: while only && has been passed, every earlier command is not just
  ended but reaped, so that the next wait cannot take it for the one it is meant for;
  behind a &&& it would not hold. `ForeReaped`: the leaders of earlier foreground
  lines are reaped, which only the shell does. `Counted`, unless `stray`: `back_num` is the number of
  background lines not reaped, and all of them ask for the group `back_pgid`.
  `Grouped`, unless also `hurried`: the group a leader asks for is there.
  `Leaving`: who is still alive after the first kill of exit has not left the shell's
  group, or is `late`. From it `OrderKept`, `ExitLeavesNone` and `BackgroundKept`.

The abstract invariants hold by a refinement argument: initial states map to
initial states and each action to a step of the abstract module or a stutter.

Only model-checked: liveness (`EverybodyClears`, `KilledDies`, `OrphansAreCollected`,
`Terminates` of `Ulib`, `MasterWorker` and `RWLock`, `TestEnds`), since it needs
fairness and ENABLED, which the provers do not reach; and what `CowFork` does once a
process has acted on an outdated count, where `cow_race` has the counterexample.

## 8. What is not modelled

PROJECT.json lists every component. Left out on purpose: the xv6 distribution's
own file system, pipes and locks, which the labs do not change; programs that
only read and print; the warm-ups; the lab quiz kernels, which are not in the
repository in full; the other copies of the xv6 tree, which differ from the one
modelled only where section 1 names a lab. Most lines of the repository are in
these copies (seven of the whole xv6 tree) and in test programs.

In the modelled components: procdump, exec and its new address space, the race of
two threads for one page-table entry without the rule "main", the error returns of
ulib for objects that were not initiated; the layout of SimpleFS structures in
blocks, names longer than a name field, and arguments out of range such as a file
handle beyond the array; which buffer bget recycles, and that there are NBUF; exec
and the pages the kernel keeps for itself; the parsing of the shell's lines, and
fork that fails in it.
