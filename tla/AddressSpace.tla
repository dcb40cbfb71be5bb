----------------------------- MODULE AddressSpace -----------------------------
(***************************************************************************)
(* The memory of the processes of ProcTable: threads share a page table,   *)
(* but each has a size of its own in struct proc.  thread_create puts the  *)
(* new thread's stack at the end of what its caller takes for the memory   *)
(* of the process, sbrk grows and shrinks the same end, and fork copies    *)
(* what lies below it (proc.c, vm.c of xv6-threads).                       *)
(*                                                                         *)
(* Every action of ProcTable happens here with what it does to the memory; *)
(* sbrk is added.  Addresses count units, PageSize of which are a page.  A *)
(* page table is named by the slot it was made for, and is the set of the  *)
(* user pages it maps.  The program, with the stack of its first thread,   *)
(* is page 0.  As in ProcTable a call that would panic is not taken.       *)
(***************************************************************************)
EXTENDS ProcTable, Integers

CONSTANTS
  PageSize,     (* the units of a page                                      *)
  MaxSize,      (* bound: the size of a process stays below it              *)
  Increments,   (* what programs pass to sbrk                               *)
  MemoryRules   (* what they are careful about, see below                   *)

(* "main":    only the main thread of a process calls sbrk and             *)
(*            thread_create.                                               *)
(* "own":     sbrk is given back only what it has handed out.              *)
(* "aligned": thread_create is called when the size is a number of pages.  *)
(* "memory":  there is a page left for the stack of a new thread.          *)
AllMemoryRules == {"main", "own", "aligned", "memory"}

ASSUME AddressSpaceAssumption ==
  /\ PageSize \in Nat \ {0} /\ MaxSize \in Nat /\ PageSize <= MaxSize
  /\ Increments \subseteq Int
  /\ MemoryRules \subseteq AllMemoryRules

VARIABLES
  pgdir,   (* p->pgdir                                                      *)
  sz,      (* p->sz                                                         *)
  pages,   (* the pages each page table maps                                *)
  stack,   (* history: the page with the stack of each process              *)
  heap     (* history: the units of each page table that sbrk has handed out*)

memory == <<pgdir, sz, pages, stack, heap>>
all    == <<vars, memory>>

(* PGROUNDUP, in pages. *)
PagesBelow(size) == 0..((size + PageSize - 1) \div PageSize - 1)
NextPage(size)   == (size + PageSize - 1) \div PageSize
UnitsOf(p)       == p * PageSize .. (p + 1) * PageSize - 1

MemoryTypeOK ==
  /\ pgdir \in [Slots -> Slots \cup {Nobody}]
  /\ sz \in [Slots -> 0..MaxSize]
  /\ pages \in [Slots -> SUBSET PagesBelow(MaxSize)]
  /\ stack \in [Slots -> PagesBelow(MaxSize)]
  /\ heap \in [Slots -> SUBSET (0..(MaxSize - 1))]

(* userinit: the program has one page. *)
MemoryInit ==
  LET none == [s \in Slots |-> {}] IN
  /\ pgdir = [s \in Slots |-> IF s = InitProc THEN s ELSE Nobody]
  /\ sz = [s \in Slots |-> IF s = InitProc THEN PageSize ELSE 0]
  /\ pages = [none EXCEPT ![InitProc] = {0}]
  /\ stack = [s \in Slots |-> 0]
  /\ heap = none

-----------------------------------------------------------------------------
(* The program of s calls sbrk and thread_create: init.c calls neither.    *)
Manages(s) == s # InitProc /\ ("main" \in MemoryRules => mainthread[s] = s)

MayCreate(s) ==
  /\ Manages(s)
  /\ "aligned" \in MemoryRules => sz[s] % PageSize = 0
  /\ (NextPage(sz[s]) + 1) * PageSize <= MaxSize

Allocate(c) ==
  /\ AllocProc(c)
  /\ pc'[cpu[c]] = "thread_create" => MayCreate(cpu[c])
  /\ UNCHANGED memory

(* fork: copyuvm copies the pages below the size of the caller, all of     *)
(* which have to be there.                                                 *)
CopyUvm(c) ==
  LET cur == cpu[c]  new == np[cur] IN
  /\ Fork(c)
  /\ PagesBelow(sz[cur]) \subseteq pages[pgdir[cur]]
  /\ pgdir' = [pgdir EXCEPT ![new] = new]
  /\ pages' = [pages EXCEPT ![new] = PagesBelow(sz[cur])]
  /\ sz' = [sz EXCEPT ![new] = sz[cur]]
  /\ stack' = [stack EXCEPT ![new] = stack[cur]]
  /\ heap' = [heap EXCEPT ![new] = {u \in heap[pgdir[cur]] : u < sz[cur]}]

(* create_thread_stack: the page after the caller's size, or the null      *)
(* pointer, which thread_create takes for an address.                      *)
StackPages(size) ==
  {NextPage(size)} \cup IF AllocFails /\ "memory" \notin MemoryRules THEN {0} ELSE {}

(* Mutant: the caller's size stays what it was. *)
OnlyTheirs(cur, new) == [sz EXCEPT ![new] = sz[cur] + PageSize]
BothGrow(cur, new) == [sz EXCEPT ![cur] = @ + PageSize, ![new] = sz[cur] + PageSize]

(* thread_create, up to the sizes of the caller and of the new thread.     *)
CreateThreadStack(c) ==
  LET cur == cpu[c]  new == np[cur] IN
  /\ ThreadCreate(c)
  /\ NextPage(sz[cur]) \notin pages[pgdir[cur]]
  /\ pgdir' = [pgdir EXCEPT ![new] = pgdir[cur]]
  /\ \E p \in StackPages(sz[cur]) :
       /\ pages' = [pages EXCEPT ![pgdir[cur]] = @ \cup ({p} \ {0})]
       /\ stack' = [stack EXCEPT ![new] = p]
  /\ sz' = BothGrow(cur, new)
  /\ UNCHANGED heap

(* growproc(n) with n > 0: allocuvm maps the pages from the old to the new *)
(* size, which may not be mapped yet.  When it runs out of memory it gives *)
(* back what it has mapped, and nothing has changed.                       *)
Grow(cur, n) ==
  LET d     == pgdir[cur]
      size  == sz[cur] + n
      fresh == PagesBelow(size) \ PagesBelow(sz[cur])
  IN  /\ n > 0 /\ size <= MaxSize
      /\ fresh \cap pages[d] = {}
      /\ pages' = [pages EXCEPT ![d] = @ \cup fresh]
      /\ sz' = [sz EXCEPT ![cur] = size]
      /\ heap' = [heap EXCEPT ![d] = @ \cup sz[cur]..(size - 1)]

(* growproc(n) with n < 0: deallocuvm frees the pages behind the new size, *)
(* of those that are there.  A new size of 0 would be taken for a failure. *)
Shrink(cur, n) ==
  LET d    == pgdir[cur]
      size == sz[cur] + n
  IN  /\ n < 0 /\ size > 0
      /\ "own" \in MemoryRules => size..(sz[cur] - 1) \subseteq heap[d]
      /\ pages' = [pages EXCEPT ![d] = @ \ (PagesBelow(sz[cur]) \ PagesBelow(size))]
      /\ sz' = [sz EXCEPT ![cur] = size]
      /\ heap' = [heap EXCEPT ![d] = {u \in @ : u < size}]

Sbrk(c, n) ==
  LET cur == cpu[c] IN
  /\ At(c, "user") /\ ~killed[cur]
  /\ Manages(cur)
  /\ Grow(cur, n) \/ Shrink(cur, n)
  /\ UNCHANGED <<vars, pgdir, stack>>

(* wait and waitpid free the page table of the zombie they reap, waitpid   *)
(* also that of a thread, whose main thread may still use it: "pids" keeps *)
(* it away from threads.  What is done with a page table after it was      *)
(* freed is not described.  init.c does not call waitpid.  thread_join     *)
(* leaves the stack of the thread where it is.                             *)
Reap(c) ==
  LET gone == {s \in Slots : state[s] = "ZOMBIE" /\ state'[s] = "UNUSED"} IN
  /\ \/ /\ Wait(c) \/ (cpu[c] # InitProc /\ \E s \in Slots : WaitPid(c, s))
        /\ pages' = On(pages, {pgdir[s] : s \in gone}, {})
        /\ heap' = On(heap, {pgdir[s] : s \in gone}, {})
     \/ (\E n \in 0..MaxPid : ThreadJoin(c, n)) /\ UNCHANGED <<pages, heap>>
  /\ UNCHANGED <<pgdir, sz, stack>>

(* The rest of ProcTable does not touch the memory. *)
Other(c) ==
  /\ \/ Scheduler(c) \/ Yield(c) \/ Signalling(c)
     \/ AllocFailed(c) \/ ThreadStart(c) \/ Exit(c)
  /\ UNCHANGED memory

MemoryNext ==
  \E c \in Cpus : \/ Allocate(c) \/ CopyUvm(c) \/ CreateThreadStack(c)
                  \/ Reap(c) \/ Other(c)
                  \/ \E n \in Increments : Sbrk(c, n)

MemorySpec == Init /\ MemoryInit /\ [][MemoryNext]_all

(* The scheduling of ProcTable; sbrk is called or not.                     *)
FairMemorySpec == MemorySpec /\ Fairness

-----------------------------------------------------------------------------
(* Properties *)

Started == {s \in Slots : state[s] \notin {"UNUSED", "EMBRYO"}}

(* The size of a main thread is where the mapped pages end: growproc and   *)
(* thread_create never find a page mapped already, which is panic("remap").*)
SizeIsTheEnd ==
  \A s \in Started : mainthread[s] = s => pages[pgdir[s]] = PagesBelow(sz[s])

(* What a thread takes for its memory is there: fork does not come upon a  *)
(* hole, which is panic("copyuvm: page not present").                      *)
NoHoles == \A s \in Started : PagesBelow(sz[s]) \subseteq pages[pgdir[s]]

(* A stack belongs to one thread and to no block of sbrk; and it lies below*)
(* the size of its thread, or no system call would find its arguments.     *)
StacksApart ==
  \A s \in Started :
    /\ UnitsOf(stack[s]) \cap heap[pgdir[s]] = {}
    /\ \A u \in UnitsOf(stack[s]) : u < sz[s]
    /\ \A t \in Started \ {s} : pgdir[t] = pgdir[s] => stack[t] # stack[s]

(* Threads that share an address space do not get into each other's way in *)
(* it, although each of them knows its end only as of its own last call.   *)
MemoryApart == MemoryTypeOK /\ SizeIsTheEnd /\ NoHoles /\ StacksApart
=============================================================================
