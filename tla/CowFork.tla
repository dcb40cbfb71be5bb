------------------------------ MODULE CowFork -------------------------------
(***************************************************************************)
(* Copy-on-write fork in xv6 (xv6-mem, Part C).  fork maps the parent's    *)
(* pages in the child, takes the write permission from both and counts the *)
(* users of each page; a write then faults, and the fault gives the page   *)
(* back to its last user or copies it.                                     *)
(*                                                                         *)
(* The counts are read and changed without kmem.lock, and the kernel is    *)
(* compiled without optimisation (Makefile), so that each ++ or -- is a    *)
(* load and a store.  Processes in the kernel therefore interleave between *)
(* any look at a count and any load or store of it.  The variable outdated *)
(* is history: it remembers that a process acted on a count that another   *)
(* one had changed since it looked.                                        *)
(*                                                                         *)
(* Pages that the kernel keeps for itself (stacks, page tables) have one   *)
(* user and are left out; that memory for them may run out is not.  The    *)
(* memory of a page is one value.                                          *)
(***************************************************************************)
EXTENDS Integers, Sequences, FiniteSets, FiniteSetsExt

CONSTANTS
  Procs,
  initproc,      (* the first process, which does not exit                  *)
  Frames,        (* the pages of physical memory                            *)
  MaxPages,      (* a bound on the size of a process, in pages              *)
  NPTENTRIES,    (* pages mapped by one page of a page table                *)
  Data, Zero, Junk,
  None           (* instead of a process or a page                          *)

ASSUME InitAssumption ==
  IsFiniteSet(Procs) /\ initproc \in Procs /\ None \notin Procs
ASSUME FrameAssumption == IsFiniteSet(Frames) /\ None \notin Frames
ASSUME SizeAssumption == MaxPages \in Nat \ {0} /\ NPTENTRIES \in Nat \ {0}
ASSUME DataAssumption ==
  Zero \in Data /\ Junk \notin Data /\ None \notin Seq(Data \cup {Junk})

Pages == 0..MaxPages - 1

VARIABLES
  state, parent, size,   (* of struct proc; the size is in pages            *)
  frame,     (* the page tables: the frame of each page, or None            *)
  cow,       (* the pages with PTE_COW set and PTE_W clear                  *)
  mem,       (* what the frames hold                                        *)
  refs,      (* count.refs                                                  *)
  freelist,  (* kmem.freelist                                               *)
  work,      (* what each process does in the kernel                        *)
  leaked,    (* counts that failed forks have left too high                 *)
  halted,    (* "no", "panic", or "wild" after a write through address 0    *)
  outdated   (* somebody acted on a count that was no longer so             *)

ptable == <<state, parent, size>>
pgdirs == <<frame, cow>>
kmem == <<refs, freelist>>
vars == <<state, parent, size, frame, cow, mem, refs, freelist, work, leaked,
          halted, outdated>>

(* at: the place in the kernel; who: the process whose page table it works *)
(* on; page: the page that faulted; f: the frame whose count it is at work *)
(* on; reg: what it loaded; keep: the pages that deallocuvm leaves.        *)
User == [at |-> "user", who |-> None, page |-> 0, f |-> None, reg |-> 0,
         keep |-> 0]
Places == {"user", "copy", "inc", "check", "last", "split", "drop", "dropped",
           "free", "junk", "sub", "subbed"}

TypeOK ==
  /\ state \in [Procs -> {"unused", "embryo", "running", "zombie"}]
  /\ parent \in [Procs -> Procs \cup {None}]
  /\ size \in [Procs -> 0..MaxPages]
  /\ frame \in [Procs -> [Pages -> Frames \cup {None}]]
  /\ cow \in [Procs -> SUBSET Pages]
  /\ mem \in [Frames -> Data \cup {Junk}]
  /\ refs \in [Frames -> Int]
  /\ freelist \in Seq(Frames)
  /\ work \in [Procs -> [at : Places, who : Procs \cup {None}, page : Pages,
                         f : Frames \cup {None}, reg : Int, keep : 0..MaxPages]]
  /\ leaked \in [Frames -> Nat]
  /\ halted \in {"no", "panic", "wild"}
  /\ outdated \in BOOLEAN

(* The first process has one page, the others are on the free list. *)
Init ==
  \E f1 \in Frames :
    /\ state = [p \in Procs |-> IF p = initproc THEN "running" ELSE "unused"]
    /\ parent = [p \in Procs |-> None]
    /\ size = [p \in Procs |-> IF p = initproc THEN 1 ELSE 0]
    /\ frame = [p \in Procs |-> [i \in Pages |->
                  IF p = initproc /\ i = 0 THEN f1 ELSE None]]
    /\ cow = [p \in Procs |-> {}]
    /\ mem = [f \in Frames |-> IF f = f1 THEN Zero ELSE Junk]
    /\ refs = [f \in Frames |-> IF f = f1 THEN 1 ELSE 0]
    /\ freelist \in [1..Cardinality(Frames) - 1 -> Frames \ {f1}]
    /\ \A j, k \in DOMAIN freelist : freelist[j] = freelist[k] => j = k
    /\ work = [p \in Procs |-> User]
    /\ leaked = [f \in Frames |-> 0]
    /\ halted = "no" /\ outdated = FALSE

At(p, place) == halted = "no" /\ state[p] = "running" /\ work[p].at = place
Go(p, w) == work' = [work EXCEPT ![p] = w]

Mapped(p) == {i \in Pages : frame[p][i] # None}

(* A process acts on what it saw of a count, and ok says that it is still  *)
(* so.  (History.)                                                         *)
Acts(ok) == outdated' = (outdated \/ ~ok)

-----------------------------------------------------------------------------
(* fork: copyuvm maps one page after the other. *)

Fork(p, c) ==
  /\ At(p, "user") /\ state[c] = "unused"
  /\ state' = [state EXCEPT ![c] = "embryo"]
  /\ Go(p, [User EXCEPT !.at = "copy", !.who = c])
  /\ UNCHANGED <<parent, size, pgdirs, mem, kmem, leaked, halted, outdated>>

NextPage(c) == Cardinality(Mapped(c))

(* Mutant: the parent keeps the write permission. *)
StillWritable(p, i) == cow
WriteProtected(p, i) == [cow EXCEPT ![p] = @ \cup {i}]

(* The parent loses the write permission; the count is loaded. *)
CopyPage(p) ==
  LET c == work[p].who
      i == NextPage(c)
      f == frame[p][i]
  IN
  /\ At(p, "copy") /\ i < size[p]
  /\ cow' = WriteProtected(p, i)
  /\ Go(p, [work[p] EXCEPT !.at = "inc", !.f = f, !.reg = refs[f]])
  /\ UNCHANGED <<ptable, frame, mem, kmem, leaked, halted, outdated>>

(* Mutant: the child is not counted. *)
NotIncreased(n) == n
Increased(n) == n + 1

(* The count is stored and the page mapped in the child. *)
CopiedPage(p) ==
  LET c == work[p].who IN
  /\ At(p, "inc") /\ Acts(refs[work[p].f] = work[p].reg)
  /\ refs' = [refs EXCEPT ![work[p].f] = Increased(work[p].reg)]
  /\ frame' = [frame EXCEPT ![c][NextPage(c)] = work[p].f]
  /\ cow' = [cow EXCEPT ![c] = @ \cup {NextPage(c)}]
  /\ Go(p, [User EXCEPT !.at = "copy", !.who = c])
  /\ UNCHANGED <<ptable, mem, freelist, leaked, halted>>

(* The count is stored, but there is no memory for the page of the page    *)
(* table that mappages needs: what is mapped already is freed.             *)
CopyFails(p) ==
  LET c == work[p].who IN
  /\ At(p, "inc") /\ NextPage(c) % NPTENTRIES = 0
  /\ Acts(refs[work[p].f] = work[p].reg)
  /\ refs' = [refs EXCEPT ![work[p].f] = Increased(work[p].reg)]
  /\ leaked' = [leaked EXCEPT ![work[p].f] = @ + 1]
  /\ Go(p, [User EXCEPT !.at = "free", !.who = c])
  /\ UNCHANGED <<ptable, pgdirs, mem, freelist, halted>>

Forked(p) ==
  LET c == work[p].who IN
  /\ At(p, "copy") /\ NextPage(c) = size[p]
  /\ size' = [size EXCEPT ![c] = size[p]]
  /\ parent' = [parent EXCEPT ![c] = p]
  /\ state' = [state EXCEPT ![c] = "running"]
  /\ Go(p, User)
  /\ UNCHANGED <<pgdirs, mem, kmem, leaked, halted, outdated>>

-----------------------------------------------------------------------------
(* Writes, of the program or of the kernel to memory of the program. *)

Write(p, i, d) ==
  /\ At(p, "user") /\ i \in Mapped(p) \ cow[p]
  /\ mem' = [mem EXCEPT ![frame[p][i]] = d]
  /\ UNCHANGED <<ptable, pgdirs, kmem, work, leaked, halted, outdated>>

(* exit: init finds the children.  The kernel panics if init exits. *)
Exits(p) ==
  IF p = initproc
  THEN halted' = "panic" /\ UNCHANGED <<state, parent>>
  ELSE /\ state' = [state EXCEPT ![p] = "zombie"]
       /\ parent' = [q \in Procs |->
                       IF parent[q] = p THEN initproc ELSE parent[q]]
       /\ UNCHANGED halted

(* The page fault of a write.  handlePageFault looks at the count; where   *)
(* it finds none it prints "not theoretically possible" and exits.         *)
PageFault(p, i) ==
  LET f == frame[p][i] IN
  /\ At(p, "user") /\ i \in cow[p]
  /\ IF refs[f] < 1
     THEN Exits(p) /\ UNCHANGED work
     ELSE /\ Go(p, [User EXCEPT !.at = "check", !.page = i, !.f = f])
          /\ UNCHANGED <<state, parent, halted>>
  /\ UNCHANGED <<size, pgdirs, mem, kmem, leaked, outdated>>

(* The second look decides who keeps the page. *)
LooksAgain(p) ==
  /\ At(p, "check")
  /\ Go(p, [work[p] EXCEPT !.at = IF refs[work[p].f] = 1 THEN "last"
                                                        ELSE "split"])
  /\ UNCHANGED <<ptable, pgdirs, mem, kmem, leaked, halted, outdated>>

LastUser(p) ==
  /\ At(p, "last")
  /\ cow' = [cow EXCEPT ![p] = @ \ {work[p].page}]
  /\ Go(p, User)
  /\ UNCHANGED <<ptable, frame, mem, kmem, leaked, halted, outdated>>

(* kalloc, the copy, and the new entry of the page table. *)
CopyOnWrite(p) ==
  LET i == work[p].page
      f == Head(freelist)
  IN
  /\ At(p, "split") /\ freelist # <<>>
  /\ freelist' = Tail(freelist)
  /\ refs' = [refs EXCEPT ![f] = 1]
  /\ mem' = [mem EXCEPT ![f] = mem[work[p].f]]
  /\ frame' = [frame EXCEPT ![p][i] = f]
  /\ cow' = [cow EXCEPT ![p] = @ \ {i}]
  /\ Go(p, [User EXCEPT !.at = "drop", !.f = work[p].f])
  /\ UNCHANGED <<ptable, leaked, halted, outdated>>

(* What kalloc returned is not tested: the copy goes to address 0.  The    *)
(* model ends there.                                                       *)
CopyToNull(p) ==
  /\ At(p, "split") /\ freelist = <<>>
  /\ halted' = "wild"
  /\ UNCHANGED <<ptable, pgdirs, mem, kmem, work, leaked, outdated>>

(* It takes itself off a count that it saw above one. *)
DecreaseLoads(p) ==
  /\ At(p, "drop") /\ Acts(refs[work[p].f] > 1)
  /\ Go(p, [work[p] EXCEPT !.at = "dropped", !.reg = refs[work[p].f]])
  /\ UNCHANGED <<ptable, pgdirs, mem, kmem, leaked, halted>>

(* Mutant: the process that has its own copy is still counted. *)
NotDecreased(n) == n
Decreased(n) == n - 1

DecreaseStores(p) ==
  /\ At(p, "dropped") /\ Acts(refs[work[p].f] = work[p].reg)
  /\ refs' = [refs EXCEPT ![work[p].f] = Decreased(work[p].reg)]
  /\ Go(p, User)
  /\ UNCHANGED <<ptable, pgdirs, mem, freelist, leaked, halted>>

-----------------------------------------------------------------------------
(* sbrk, exit and wait.  deallocuvm frees the pages from keep on. *)

Grow(p) ==
  LET f == Head(freelist) IN
  /\ At(p, "user") /\ size[p] < MaxPages /\ freelist # <<>>
  /\ freelist' = Tail(freelist)
  /\ refs' = [refs EXCEPT ![f] = 1]
  /\ mem' = [mem EXCEPT ![f] = Zero]
  /\ frame' = [frame EXCEPT ![p][size[p]] = f]
  /\ size' = [size EXCEPT ![p] = @ + 1]
  /\ UNCHANGED <<state, parent, cow, work, leaked, halted, outdated>>

(* No memory for the page table: the frame goes back to the list. *)
GrowFails(p) ==
  LET f == Head(freelist) IN
  /\ At(p, "user") /\ size[p] < MaxPages /\ freelist # <<>>
  /\ size[p] % NPTENTRIES = 0
  /\ refs' = [refs EXCEPT ![f] = 1]
  /\ mem' = [mem EXCEPT ![f] = Junk]
  /\ UNCHANGED <<ptable, pgdirs, freelist, work, leaked, halted, outdated>>

(* A process keeps the page with its code. *)
Shrink(p, n) ==
  /\ At(p, "user") /\ n \in 1..size[p] - 1
  /\ Go(p, [User EXCEPT !.at = "free", !.who = p, !.keep = n])
  /\ UNCHANGED <<ptable, pgdirs, mem, kmem, leaked, halted, outdated>>

(* Also for a page fault at an address outside of the memory whose page    *)
(* table exists; where there is none the kernel panics, which is left out. *)
Exit(p) ==
  /\ At(p, "user") /\ p # initproc
  /\ Exits(p)
  /\ UNCHANGED <<size, pgdirs, mem, kmem, work, leaked, outdated>>

Wait(p, c) ==
  /\ At(p, "user") /\ parent[c] = p /\ state[c] = "zombie"
  /\ Go(p, [User EXCEPT !.at = "free", !.who = c])
  /\ UNCHANGED <<ptable, pgdirs, mem, kmem, leaked, halted, outdated>>

ToFree(p) == {i \in Mapped(work[p].who) : i >= work[p].keep}
NextToFree(p) == Min(ToFree(p))

(* kfree looks whether the page has other users. *)
Kfree(p) ==
  LET f == frame[work[p].who][NextToFree(p)] IN
  /\ At(p, "free") /\ ToFree(p) # {}
  /\ IF refs[f] < 1
     THEN halted' = "panic" /\ UNCHANGED work
     ELSE /\ Go(p, [work[p] EXCEPT !.at = IF refs[f] > 1 THEN "sub" ELSE "junk",
                                   !.f = f])
          /\ UNCHANGED halted
  /\ UNCHANGED <<ptable, pgdirs, mem, kmem, leaked, outdated>>

KfreeLoads(p) ==
  /\ At(p, "sub") /\ Acts(refs[work[p].f] > 1)
  /\ Go(p, [work[p] EXCEPT !.at = "subbed", !.reg = refs[work[p].f]])
  /\ UNCHANGED <<ptable, pgdirs, mem, kmem, leaked, halted>>

Unmap(q, i) == /\ frame' = [frame EXCEPT ![q][i] = None]
               /\ cow' = [cow EXCEPT ![q] = @ \ {i}]

FreesOn(p) == Go(p, [User EXCEPT !.at = "free", !.who = work[p].who,
                                 !.keep = work[p].keep])

KfreeStores(p) ==
  /\ At(p, "subbed") /\ Acts(refs[work[p].f] = work[p].reg)
  /\ refs' = [refs EXCEPT ![work[p].f] = work[p].reg - 1]
  /\ Unmap(work[p].who, NextToFree(p))
  /\ FreesOn(p)
  /\ UNCHANGED <<ptable, mem, freelist, leaked, halted>>

(* The last user: the page goes on the list, under the lock. *)
KfreeLast(p) ==
  /\ At(p, "junk")
  /\ mem' = [mem EXCEPT ![work[p].f] = Junk]
  /\ freelist' = <<work[p].f>> \o freelist
  /\ Unmap(work[p].who, NextToFree(p))
  /\ FreesOn(p)
  /\ UNCHANGED <<ptable, refs, leaked, halted, outdated>>

(* growproc sets the new size; wait and a failed fork free the slot. *)
Freed(p) ==
  LET q == work[p].who IN
  /\ At(p, "free") /\ ToFree(p) = {}
  /\ size' = [size EXCEPT ![q] = work[p].keep]
  /\ IF q = p
     THEN UNCHANGED <<state, parent>>
     ELSE /\ state' = [state EXCEPT ![q] = "unused"]
          /\ parent' = [parent EXCEPT ![q] = None]
  /\ Go(p, User)
  /\ UNCHANGED <<pgdirs, mem, kmem, leaked, halted, outdated>>

Next ==
  \E p \in Procs :
    \/ \E c \in Procs : Fork(p, c) \/ Wait(p, c)
    \/ CopyPage(p) \/ CopiedPage(p) \/ CopyFails(p) \/ Forked(p)
    \/ \E i \in Pages : \/ PageFault(p, i)
                        \/ \E d \in Data : Write(p, i, d)
    \/ LooksAgain(p) \/ LastUser(p) \/ CopyOnWrite(p) \/ CopyToNull(p)
    \/ DecreaseLoads(p) \/ DecreaseStores(p)
    \/ Grow(p) \/ GrowFails(p) \/ Exit(p)
    \/ \E n \in Pages : Shrink(p, n)
    \/ Kfree(p) \/ KfreeLoads(p) \/ KfreeStores(p)
    \/ KfreeLast(p) \/ Freed(p)

Spec == Init /\ [][Next]_vars

-----------------------------------------------------------------------------
(* Properties.  Nothing is promised once a count was acted on that was no  *)
(* longer so.                                                              *)

Users(f) == {u \in Procs \X Pages : frame[u[1]][u[2]] = f}
OnList(f) == \E k \in 1..Len(freelist) : freelist[k] = f
Busy(f) == \E p \in Procs : work[p].f = f
(* Who does not use f any more but is still counted. *)
Droppers(f) == {p \in Procs : work[p].at \in {"drop", "dropped"}
                             /\ work[p].f = f}

(* The count of a page is the number of processes that use it, but for     *)
(* what failed forks left over; a page on the free list has no user and is *)
(* there once (kalloc.c 20, 76-83).                                        *)
CountsTrackUsers ==
  \A f \in Frames :
    /\ ~OnList(f) /\ ~Busy(f) => refs[f] = Cardinality(Users(f)) + leaked[f]
    /\ OnList(f) => Users(f) = {}
    /\ \A j, k \in 1..Len(freelist) : freelist[j] = freelist[k] => j = k

(* Unless somebody acted on a count that another one had changed: at every *)
(* moment, also while processes are between a load and a store, the count  *)
(* of a page is the number of its users and of those who are about to take *)
(* themselves off, but for what failed forks left over (kalloc.c 76-83,    *)
(* 143-148; vm.c 334, 434).                                                *)
RefsCountUsers ==
  ~outdated =>
  /\ CountsTrackUsers
  /\ \A f \in Frames : ~OnList(f) =>
       refs[f] = Cardinality(Users(f)) + Cardinality(Droppers(f)) + leaked[f]

(* A page that is neither on the free list nor used by anybody was lost by *)
(* a failed fork, and nothing else loses a page or panics (kalloc.c 68-99, *)
(* vm.c 391-444).                                                          *)
NothingLost ==
  /\ halted # "panic"
  /\ \A f \in Frames :
       OnList(f) \/ Busy(f) \/ Users(f) # {} \/ leaked[f] > 0

(* What holds until somebody acts on a count that another one had changed  *)
(* since: the types, and no page is lost but by a fork that fails.         *)
Invariants == outdated \/ (TypeOK /\ NothingLost)

-----------------------------------------------------------------------------
(* Copy on write implements a memory for each process.  While a process    *)
(* gives pages back it does not see them any more.                         *)
Visible(p) == IF work[p].at \in {"free", "junk", "sub", "subbed"} /\ work[p].who = p
              THEN work[p].keep
              ELSE size[p]
vm == [p \in Procs |->
         IF state[p] = "running"
         THEN [i \in 1..Visible(p) |-> mem[frame[p][i - 1]]]
         ELSE None]

M == INSTANCE PrivateMemory WITH vm <- vm, NoMemory <- None,
                                 excused <- outdated

(* Until somebody acts on a count that another one had changed, no process *)
(* sees what another one writes after the fork, nor what is left in a page *)
(* that was freed.                                                         *)
Abstract == M!Spec
=============================================================================
