--------------------------- MODULE CowForkProofs ----------------------------
(***************************************************************************)
(* Copy-on-write fork: until a process acts on a count that another one    *)
(* has changed since it looked, the counts are right, no page is lost but  *)
(* by a fork that fails, nothing panics, and each process has its memory   *)
(* to itself.  For any finite sets of processes and pages, and any         *)
(* interleaving of their looks at the counts, loads and stores.            *)
(***************************************************************************)
EXTENDS CowFork, FiniteSetTheorems, TLAPS

Copying == {"copy", "inc"}
Freeing == {"free", "junk", "sub", "subbed"}
Sharing == {"check", "last", "split", "drop", "dropped"}

(* A process is at work on its own pages or, alone, on those of a child    *)
(* that it makes or has waited for.                                        *)
Worker(p) ==
  LET w == work[p] IN
  /\ w.at # "user" => state[p] = "running"
  /\ w.at \in {"user"} \cup Sharing <=> w.who = None
  /\ w.at \in Copying => w.who # p /\ state[w.who] = "embryo"
  /\ w.at \in Freeing =>
       IF w.who = p
       THEN w.keep < size[p]
       ELSE /\ w.keep = 0 /\ state[w.who] \in {"embryo", "zombie"}
            /\ state[w.who] = "zombie" => parent[w.who] = p
Alone ==
  \A p, q \in Procs : work[p].who # None /\ work[p].who = work[q].who => p = q
Workers == (\A p \in Procs : Worker(p)) /\ Alone

(* The pages of a process are those below its size, but for those still to *)
(* be copied or already freed.                                             *)
Table(p) ==
  /\ cow[p] \subseteq Mapped(p)
  /\ state[p] = "unused" => Mapped(p) = {}
  /\ state[p] \in {"running", "zombie"} =>
       \/ Mapped(p) = 0..size[p] - 1
       \/ \E q \in Procs : work[q].at \in Freeing /\ work[q].who = p
Part(p) ==
  LET c == work[p].who IN
  /\ work[p].at \in Copying =>
       /\ Mapped(c) = 0..NextPage(c) - 1 /\ NextPage(c) <= size[p]
       /\ \A i \in Mapped(c) : frame[c][i] = frame[p][i]
  /\ work[p].at \in Freeing => 0..work[p].keep - 1 \subseteq Mapped(c)
Tables == \A p \in Procs : Table(p) /\ Part(p)

(* The frame whose count a process is at work on, and what it has seen of  *)
(* the count.  Only of a count of one can it be sure.                      *)
Counter(p) ==
  LET w == work[p] IN
  /\ w.at \in {"user", "copy", "free"} <=> w.f = None
  /\ w.at = "inc" => /\ NextPage(w.who) \in cow[p]
                     /\ w.f = frame[p][NextPage(w.who)]
  /\ w.at \in {"check", "last", "split"} =>
       w.page \in cow[p] /\ w.f = frame[p][w.page]
  /\ w.at \in {"junk", "sub", "subbed"} =>
       ToFree(p) # {} /\ w.f = frame[w.who][NextToFree(p)]
  /\ w.at \in {"last", "junk"} => refs[w.f] = 1
  /\ w.at \in {"dropped", "subbed"} => w.reg > 1
Counting == \A p \in Procs : Counter(p)

(* The counts, including those who are about to take themselves off; a     *)
(* page on the free list has no user and no count too many.                *)
Counts ==
  /\ \A f \in Frames :
       IF OnList(f)
       THEN Users(f) = {} /\ leaked[f] = 0 /\ ~Busy(f)
       ELSE /\ refs[f] = (Cardinality(Users(f)) + Cardinality(Droppers(f))) + leaked[f]
            /\ refs[f] > 0
  /\ \A j, k \in 1..Len(freelist) : freelist[j] = freelist[k] => j = k

(* A page that can be written has one user. *)
Exclusive ==
  \A p, q \in Procs : \A i \in Mapped(p) \ cow[p] : \A j \in Mapped(q) :
    frame[p][i] = frame[q][j] => p = q /\ i = j

(* What holds until somebody acts on an outdated count. *)
Inv == /\ TypeOK /\ halted # "panic"
       /\ Workers /\ Tables /\ Counting /\ Counts /\ Exclusive

-----------------------------------------------------------------------------
(* Numbers and sets of users. *)

LEMMA Least ==
  ASSUME NEW S \in SUBSET Nat, S # {}
  PROVE  Min(S) \in S
<1>1. PICK x \in S : \A y \in S : ~(<<y, x>> \in OpToRel(<, Nat))
  BY NatLessThanWellFounded, WFMin
<1>2. \A y \in S : ~(y < x)
  <2>1. \A y \in S : <<y, x>> \in Nat \X Nat
    OBVIOUS
  <2>2. \A y \in S : y < x => <<y, x>> \in OpToRel(<, Nat)
    BY <2>1 DEF OpToRel
  <2> QED
    BY <1>1, <2>2
<1>3. \A y \in S : x <= y
  BY <1>2
<1> QED
  BY <1>3 DEF Min

LEMMA PagesBelow ==
  ASSUME NEW n \in Nat
  PROVE  Cardinality(0..n - 1) = n
  BY FS_Interval

LEMMA DroppersFinite ==
  ASSUME NEW f \in Frames
  PROVE  IsFiniteSet(Droppers(f)) /\ Cardinality(Droppers(f)) \in Nat
<1>1. Droppers(f) \in SUBSET Procs
  BY DEF Droppers
<1> QED
  BY <1>1, FS_Subset, FS_CardinalityType, InitAssumption

LEMMA UsersFinite ==
  ASSUME NEW f \in Frames
  PROVE  IsFiniteSet(Users(f)) /\ Cardinality(Users(f)) \in Nat
<1>1. IsFiniteSet(Pages)
  BY FS_Interval, SizeAssumption DEF Pages
<1>2. IsFiniteSet(Procs \X Pages)
  BY <1>1, FS_Product, InitAssumption
<1>3. Users(f) \in SUBSET (Procs \X Pages)
  BY DEF Users
<1> QED
  BY <1>2, <1>3, FS_Subset, FS_CardinalityType

(* A page that is used is not on the free list and its count is positive.  *)
LEMMA Used ==
  ASSUME Inv, NEW p \in Procs, NEW i \in Mapped(p)
  PROVE  /\ frame[p][i] \in Frames /\ i \in Pages
         /\ <<p, i>> \in Users(frame[p][i])
         /\ ~OnList(frame[p][i])
         /\ refs[frame[p][i]] > 0
<1>1. frame[p][i] \in Frames /\ i \in Pages
  BY DEF Mapped, Inv, TypeOK
<1>2. <<p, i>> \in Users(frame[p][i])
  BY <1>1 DEF Users
<1> QED
  BY <1>1, <1>2 DEF Inv, Counts

(* The first page of the free list. *)
LEMMA FirstFree ==
  ASSUME Inv, freelist # <<>>
  PROVE  LET f == Head(freelist) IN
         /\ f \in Frames /\ OnList(f) /\ Users(f) = {} /\ leaked[f] = 0 /\ ~Busy(f)
         /\ Tail(freelist) \in Seq(Frames)
         /\ \A g \in Frames :
              (\E k \in 1..Len(Tail(freelist)) : Tail(freelist)[k] = g)
                <=> OnList(g) /\ g # f
         /\ \A j, k \in 1..Len(Tail(freelist)) :
              Tail(freelist)[j] = Tail(freelist)[k] => j = k
<1> DEFINE f == Head(freelist)
           t == Tail(freelist)
<1>1. /\ freelist \in Seq(Frames) /\ Len(freelist) \in Nat /\ Len(freelist) > 0
      /\ f = freelist[1] /\ t \in Seq(Frames) /\ Len(t) = Len(freelist) - 1
      /\ \A k \in 1..Len(t) : t[k] = freelist[k + 1] /\ k + 1 \in 1..Len(freelist)
      /\ 1 \in 1..Len(freelist)
  BY DEF Inv, TypeOK
<1>2. \A j, k \in 1..Len(freelist) : freelist[j] = freelist[k] => j = k
  BY DEF Inv, Counts
<1>3. f \in Frames /\ OnList(f)
  BY <1>1 DEF OnList
<1>4. ASSUME NEW g \in Frames
      PROVE  (\E k \in 1..Len(t) : t[k] = g) <=> OnList(g) /\ g # f
  <2>1. ASSUME NEW k \in 1..Len(t), t[k] = g PROVE OnList(g) /\ g # f
    BY <1>1, <1>2, <2>1 DEF OnList
  <2>2. ASSUME NEW k \in 1..Len(freelist), freelist[k] = g, g # f
        PROVE  \E j \in 1..Len(t) : t[j] = g
    <3>1. k - 1 \in 1..Len(t)
      BY <1>1, <2>2
    <3>2. t[k - 1] = freelist[k - 1 + 1]
      BY <1>1, <3>1
    <3> QED
      BY <2>2, <3>1, <3>2
  <2> QED
    BY <2>1, <2>2 DEF OnList
<1>5. \A j, k \in 1..Len(t) : t[j] = t[k] => j = k
  BY <1>1, <1>2
<1> QED
  BY <1>1, <1>3, <1>4, <1>5 DEF Inv, Counts

-----------------------------------------------------------------------------
LEMMA InitInv == Init => Inv
<1> SUFFICES ASSUME Init PROVE Inv
  OBVIOUS
<1>1. PICK f1 \in Frames :
        /\ frame = [p \in Procs |-> [i \in Pages |->
                      IF p = initproc /\ i = 0 THEN f1 ELSE None]]
        /\ mem = [f \in Frames |-> IF f = f1 THEN Zero ELSE Junk]
        /\ refs = [f \in Frames |-> IF f = f1 THEN 1 ELSE 0]
        /\ freelist \in [1..Cardinality(Frames) - 1 -> Frames \ {f1}]
  BY DEF Init
<1>2. /\ state = [p \in Procs |-> IF p = initproc THEN "running" ELSE "unused"]
      /\ parent = [p \in Procs |-> None]
      /\ size = [p \in Procs |-> IF p = initproc THEN 1 ELSE 0]
      /\ cow = [p \in Procs |-> {}]
      /\ work = [p \in Procs |-> User]
      /\ leaked = [f \in Frames |-> 0]
      /\ halted = "no" /\ outdated = FALSE
      /\ \A j, k \in DOMAIN freelist : freelist[j] = freelist[k] => j = k
  BY DEF Init
<1>3. /\ initproc \in Procs /\ None \notin Procs /\ None \notin Frames
      /\ 0 \in Pages /\ Pages \subseteq Nat /\ 0 \in 0..MaxPages /\ 1 \in 0..MaxPages
  BY InitAssumption, FrameAssumption, SizeAssumption DEF Pages
<1> DEFINE n == Cardinality(Frames) - 1
<1>4. n \in Nat /\ IsFiniteSet(Frames \ {f1}) /\ Cardinality(Frames \ {f1}) = n
  <2>1. /\ IsFiniteSet(Frames \ {f1})
        /\ Cardinality(Frames \ {f1}) = Cardinality(Frames) - 1
    BY FrameAssumption, FS_RemoveElement
  <2> QED
    BY <2>1, FS_CardinalityType
<1>5. freelist \in Seq(Frames) /\ Len(freelist) = n /\ DOMAIN freelist = 1..n
  BY <1>1, <1>4
<1>6. ASSUME NEW f \in Frames PROVE OnList(f) <=> f # f1
  <2>1. freelist \in Injection(1..n, Frames \ {f1})
    BY <1>1, <1>2, <1>5 DEF Injection, IsInjective
  <2>2. IsFiniteSet(1..n) /\ Cardinality(1..n) = n
    BY <1>4, FS_Interval
  <2> HIDE DEF n
  <2>3. freelist \in Surjection(1..n, Frames \ {f1})
    BY <1>4, <2>1, <2>2, FS_Injection
  <2> QED
    BY <1>5, <2>1, <2>3 DEF OnList, Surjection, Injection
<1>7. Users(f1) = {<<initproc, 0>>} /\ \A f \in Frames \ {f1} : Users(f) = {}
  BY <1>1, <1>3 DEF Users
<1>8. Mapped(initproc) = {0} /\ \A p \in Procs \ {initproc} : Mapped(p) = {}
  BY <1>1, <1>3 DEF Mapped
<1>9. TypeOK
  <2>1. work \in [Procs -> [at : Places, who : Procs \cup {None}, page : Pages,
                            f : Frames \cup {None}, reg : Int, keep : 0..MaxPages]]
    BY <1>2, <1>3 DEF User, Places
  <2>2. outdated \in BOOLEAN
    BY <1>2
  <2> QED
    BY <1>1, <1>2, <1>3, <1>5, <2>1, <2>2, DataAssumption DEF TypeOK
<1>10. Workers /\ Tables /\ Counting /\ Exclusive
  <2>1. \A p \in Procs : work[p] = User
    BY <1>2
  <2>2. User.at = "user" /\ User.who = None /\ User.f = None
    BY DEF User
  <2>3. Workers
    BY <1>3, <2>1, <2>2 DEF Workers, Worker, Alone, Copying, Freeing, Sharing
  <2>4. Tables
    <3>1. 0..size[initproc] - 1 = {0}
      BY <1>2, <1>3
    <3> QED
      BY <1>2, <1>8, <2>1, <2>2, <3>1 DEF Tables, Table, Part, Copying, Freeing
  <2>5. Counting
    BY <2>1, <2>2 DEF Counting, Counter
  <2>6. Exclusive
    BY <1>3, <1>8 DEF Exclusive
  <2> QED
    BY <2>3, <2>4, <2>5, <2>6
<1>11. Counts
  <2>1. Droppers(f1) = {} /\ \A f \in Frames : ~Busy(f)
    BY <1>2, <1>3 DEF Droppers, Busy, User
  <2>2. Cardinality(Users(f1)) = 1 /\ Cardinality(Droppers(f1)) = 0
    BY <1>7, <2>1, FS_Singleton, FS_EmptySet
  <2>3. ASSUME NEW f \in Frames, OnList(f)
        PROVE  Users(f) = {} /\ leaked[f] = 0 /\ ~Busy(f)
    BY <1>2, <1>6, <1>7, <2>1, <2>3
  <2>4. ASSUME NEW f \in Frames, ~OnList(f)
        PROVE  f = f1 /\ refs[f] = 1 /\ leaked[f] = 0
    BY <1>1, <1>2, <1>6, <2>4
  <2>5. \A j, k \in 1..Len(freelist) : freelist[j] = freelist[k] => j = k
    BY <1>2, <1>5
  <2> QED
    BY <2>1, <2>2, <2>3, <2>4, <2>5 DEF Counts
<1> QED
  BY <1>2, <1>9, <1>10, <1>11 DEF Inv

-----------------------------------------------------------------------------
(* The types. *)

WorkType == [at : Places, who : Procs \cup {None}, page : Pages,
             f : Frames \cup {None}, reg : Int, keep : 0..MaxPages]

LEMMA UserType == User \in WorkType
  BY SizeAssumption DEF User, WorkType, Places, Pages

LEMMA WorkOf ==
  ASSUME TypeOK, NEW p \in Procs
  PROVE  /\ work[p] \in WorkType
         /\ work[p].at \in Places /\ work[p].who \in Procs \cup {None}
         /\ work[p].page \in Pages /\ work[p].f \in Frames \cup {None}
         /\ work[p].reg \in Int /\ work[p].keep \in 0..MaxPages
<1>1. work[p] \in WorkType
  BY DEF TypeOK, WorkType
<1> QED
  BY <1>1 DEF WorkType

LEMMA PagesFinite == IsFiniteSet(Pages) /\ Pages \subseteq Nat
<1>1. 0 \in Int /\ MaxPages - 1 \in Int
  BY SizeAssumption
<1>2. IsFiniteSet(0..MaxPages - 1)
  BY <1>1, FS_Interval
<1> QED
  BY <1>2 DEF Pages

(* What a process copies, and what it frees.                               *)
LEMMA CopyFacts ==
  ASSUME Inv, NEW p \in Procs, work[p].at \in Copying
  PROVE  /\ work[p].who \in Procs /\ work[p].who # p
         /\ state[work[p].who] = "embryo" /\ state[p] = "running"
         /\ NextPage(work[p].who) \in Nat
         /\ NextPage(work[p].who) <= size[p] /\ size[p] <= MaxPages
         /\ Mapped(work[p].who) = 0..NextPage(work[p].who) - 1
         /\ size[p] \in Nat /\ MaxPages \in Nat
<1>1. work[p].who \in Procs /\ work[p].who # p /\ state[work[p].who] = "embryo"
      /\ state[p] = "running"
  BY WorkOf DEF Inv, Workers, Worker, Copying, Sharing
<1>2. Mapped(work[p].who) \in SUBSET Pages /\ IsFiniteSet(Pages)
  BY PagesFinite DEF Mapped
<1>3. NextPage(work[p].who) \in Nat
  BY <1>2, FS_Subset, FS_CardinalityType DEF NextPage
<1> QED
  BY <1>1, <1>3, SizeAssumption DEF Inv, Tables, Table, Part, TypeOK

LEMMA FreeFacts ==
  ASSUME Inv, NEW p \in Procs, ToFree(p) # {}, work[p].at \in Freeing
  PROVE  /\ work[p].who \in Procs
         /\ NextToFree(p) \in Mapped(work[p].who) /\ NextToFree(p) \in Pages
         /\ NextToFree(p) >= work[p].keep
         /\ frame[work[p].who][NextToFree(p)] \in Frames
<1>1. work[p].who \in Procs
  BY WorkOf DEF Inv, Workers, Worker, Freeing, Sharing
<1>2. ToFree(p) \in SUBSET Nat
  BY SizeAssumption DEF ToFree, Mapped, Pages
<1>3. NextToFree(p) \in ToFree(p)
  BY <1>2, Least DEF NextToFree
<1> QED
  BY <1>1, <1>3, Used DEF ToFree, Mapped

LEMMA Going ==
  ASSUME TypeOK, NEW p \in Procs, NEW w, Go(p, w)
  PROVE  /\ \A q \in Procs : work'[q] = IF q = p THEN w ELSE work[q]
         /\ w \in WorkType => work' \in [Procs -> WorkType]
  BY DEF Go, TypeOK, WorkType

(* The frame that each place in the kernel is about. *)
LEMMA WorkFrame ==
  ASSUME Inv, NEW p \in Procs,
         work[p].at \in Places \ {"user", "copy", "free"}
  PROVE  /\ work[p].f \in Frames /\ refs[work[p].f] \in Int
         /\ ~OnList(work[p].f)
<1>1. work[p].f # None
  BY DEF Inv, Counting, Counter
<1>2. work[p].f \in Frames /\ Busy(work[p].f)
  BY <1>1, WorkOf DEF Inv, Busy
<1> QED
  BY <1>2 DEF Inv, TypeOK, Counts

(* An entry of a page table is replaced. *)
LEMMA TableUpdate ==
  ASSUME NEW fr \in [Procs -> [Pages -> Frames \cup {None}]],
         NEW p \in Procs, NEW i \in Pages, NEW g \in Frames \cup {None}
  PROVE  [fr EXCEPT ![p][i] = g] \in [Procs -> [Pages -> Frames \cup {None}]]
<1>1. [fr[p] EXCEPT ![i] = g] \in [Pages -> Frames \cup {None}]
  OBVIOUS
<1> QED
  BY <1>1

(* The content or the count of a frame is replaced. *)
LEMMA FrameUpdate ==
  ASSUME NEW S, NEW fr \in [Frames -> S], NEW f \in Frames, NEW v \in S
  PROVE  [fr EXCEPT ![f] = v] \in [Frames -> S]
  OBVIOUS

LEMMA OutdatedStep ==
  ASSUME outdated \in BOOLEAN, [Next]_vars
  PROVE  outdated' \in BOOLEAN /\ (outdated => outdated')
<1>1. ASSUME NEW ok, Acts(ok) PROVE outdated' \in BOOLEAN /\ (outdated => outdated')
  BY <1>1 DEF Acts
<1>2. ASSUME NEW p \in Procs,
             \/ CopiedPage(p)
             \/ CopyFails(p)
             \/ DecreaseStores(p)
             \/ KfreeStores(p)
      PROVE  outdated' \in BOOLEAN /\ (outdated => outdated')
  <2>1. Acts(refs[work[p].f] = work[p].reg)
    BY <1>2 DEF CopiedPage, CopyFails, DecreaseStores, KfreeStores
  <2> QED
    BY <1>1, <2>1
<1>3. ASSUME NEW p \in Procs, DecreaseLoads(p) \/ KfreeLoads(p)
      PROVE  outdated' \in BOOLEAN /\ (outdated => outdated')
  <2>1. Acts(refs[work[p].f] > 1)
    BY <1>3 DEF DecreaseLoads, KfreeLoads
  <2> QED
    BY <1>1, <2>1
<1>4. ASSUME NEW p \in Procs,
             \/ \E c \in Procs : Fork(p, c)
             \/ \E c \in Procs : Wait(p, c)
             \/ CopyPage(p)
             \/ Forked(p)
             \/ \E i \in Pages : PageFault(p, i)
             \/ \E i \in Pages, d \in Data : Write(p, i, d)
             \/ LooksAgain(p)
             \/ LastUser(p)
             \/ CopyOnWrite(p)
             \/ CopyToNull(p)
             \/ Grow(p)
             \/ GrowFails(p)
             \/ Exit(p)
             \/ \E n \in Pages : Shrink(p, n)
             \/ Kfree(p)
             \/ KfreeLast(p)
             \/ Freed(p)
      PROVE  outdated' = outdated
  BY <1>4 DEF Fork, Wait, CopyPage, Forked, PageFault, Write, LooksAgain, LastUser, CopyOnWrite,
     CopyToNull, Grow, GrowFails, Exit, Shrink, Kfree, KfreeLast, Freed
<1>5. CASE UNCHANGED vars
  BY <1>5 DEF vars
<1> QED
  BY <1>2, <1>3, <1>4, <1>5 DEF Next

-----------------------------------------------------------------------------
(* What some steps do where the invariant holds. *)

LEMMA FaultLooks ==
  ASSUME Inv, NEW p \in Procs, NEW i \in Pages, PageFault(p, i)
  PROVE  /\ work[p].at = "user" /\ state[p] = "running" /\ i \in cow[p]
         /\ frame[p][i] \in Frames /\ ~OnList(frame[p][i])
         /\ Go(p, [User EXCEPT !.at = "check", !.page = i, !.f = frame[p][i]])
         /\ UNCHANGED <<ptable, pgdirs, mem, kmem, leaked, halted, outdated>>
<1>1. i \in Mapped(p)
  BY DEF PageFault, Inv, Tables, Table
<1>2. frame[p][i] \in Frames /\ ~OnList(frame[p][i]) /\ refs[frame[p][i]] > 0
  BY <1>1, Used
<1>3. refs[frame[p][i]] \in Int
  BY <1>2 DEF Inv, TypeOK
<1>4. ~(refs[frame[p][i]] < 1)
  BY <1>2, <1>3
<1> QED
  BY <1>2, <1>4 DEF PageFault, At, ptable

LEMMA KfreeLooks ==
  ASSUME Inv, NEW p \in Procs, Kfree(p)
  PROVE  LET f == frame[work[p].who][NextToFree(p)] IN
         /\ work[p].at = "free" /\ ToFree(p) # {}
         /\ f \in Frames /\ ~OnList(f)
         /\ \E place \in {"sub", "junk"} :
              /\ Go(p, [work[p] EXCEPT !.at = place, !.f = f])
              /\ place = "junk" => refs[f] = 1
         /\ UNCHANGED <<ptable, pgdirs, mem, kmem, leaked, halted, outdated>>
<1> DEFINE f == frame[work[p].who][NextToFree(p)]
<1>1. work[p].at = "free" /\ ToFree(p) # {}
  BY DEF Kfree, At
<1>2. f \in Frames /\ ~OnList(f) /\ refs[f] > 0
  BY <1>1, FreeFacts, Used DEF Freeing
<1>3. refs[f] \in Int
  BY <1>2 DEF Inv, TypeOK
<1>4. ~(refs[f] < 1) /\ (~(refs[f] > 1) => refs[f] = 1)
  BY <1>2, <1>3
<1>5. /\ Go(p, [work[p] EXCEPT !.at = IF refs[f] > 1 THEN "sub" ELSE "junk", !.f = f])
      /\ UNCHANGED <<ptable, pgdirs, mem, kmem, leaked, halted, outdated>>
  BY <1>4 DEF Kfree
<1>6. \E place \in {"sub", "junk"} :
        /\ Go(p, [work[p] EXCEPT !.at = place, !.f = f])
        /\ place = "junk" => refs[f] = 1
  <2>1. CASE refs[f] > 1
    BY <1>5, <2>1
  <2>2. CASE ~(refs[f] > 1)
    BY <1>4, <1>5, <2>2
  <2> QED
    BY <2>1, <2>2
<1> QED
  BY <1>1, <1>2, <1>5, <1>6

LEMMA Exiting ==
  ASSUME NEW p \in Procs, Exit(p)
  PROVE  /\ work[p].at = "user" /\ state[p] = "running"
         /\ state' = [state EXCEPT ![p] = "zombie"]
         /\ parent' = [q \in Procs |-> IF parent[q] = p THEN initproc ELSE parent[q]]
         /\ UNCHANGED <<size, pgdirs, mem, kmem, work, leaked, halted, outdated>>
  BY DEF Exit, Exits, At

LEMMA TypeStep == ASSUME Inv, [Next]_vars PROVE TypeOK'
<1>0. TypeOK /\ MaxPages \in Nat /\ Pages \subseteq 0..MaxPages
  BY SizeAssumption DEF Inv, Pages
<1>b. outdated' \in BOOLEAN
  BY <1>0, OutdatedStep DEF TypeOK
<1>u. User \in WorkType /\ \A q \in Procs : work[q] \in WorkType
  BY <1>0, UserType, WorkOf
<1>1. ASSUME NEW p \in Procs, NEW c \in Procs, Fork(p, c) PROVE TypeOK'
  <2>1. [User EXCEPT !.at = "copy", !.who = c] \in WorkType
    BY <1>u DEF WorkType, Places
  <2>2. work' \in [Procs -> WorkType]
    BY <1>0, <1>b, <1>1, <2>1, Going DEF Fork
  <2> QED
    BY <1>0, <1>b, <1>1, <2>2 DEF Fork, TypeOK, WorkType, pgdirs, kmem
<1>2. ASSUME NEW p \in Procs, NEW c \in Procs, Wait(p, c) PROVE TypeOK'
  <2>1. [User EXCEPT !.at = "free", !.who = c] \in WorkType
    BY <1>u DEF WorkType, Places
  <2>2. work' \in [Procs -> WorkType]
    BY <1>0, <1>b, <1>2, <2>1, Going DEF Wait
  <2> QED
    BY <1>0, <1>b, <1>2, <2>2 DEF Wait, TypeOK, WorkType, ptable, pgdirs, kmem
<1>3. ASSUME NEW p \in Procs, CopyPage(p) PROVE TypeOK'
  <2> DEFINE i == NextPage(work[p].who)
             f == frame[p][i]
  <2>1. i \in Pages
    BY <1>3, CopyFacts DEF CopyPage, At, Copying, Pages
  <2>2. f \in Frames \cup {None} /\ refs[f] \in Int
    <3>1. i \in Mapped(p)
      <4>1. state[p] = "running" /\ i \in 0..size[p] - 1
        BY <1>3, CopyFacts DEF CopyPage, At, Copying
      <4>2. ~ \E q \in Procs : work[q].at \in Freeing /\ work[q].who = p
        BY <1>3, <4>1 DEF Inv, Workers, Worker, CopyPage, At, Freeing, Copying
      <4> QED
        BY <4>1, <4>2 DEF Inv, Tables, Table, Part
    <3> QED
      BY <3>1, Used DEF Inv, TypeOK
  <2>3. [work[p] EXCEPT !.at = "inc", !.f = f, !.reg = refs[f]] \in WorkType
    BY <1>u, <2>2 DEF WorkType, Places
  <2>4. work' \in [Procs -> WorkType]
    BY <1>0, <1>b, <1>3, <2>3, Going DEF CopyPage
  <2> QED
    BY <1>0, <1>b, <1>3, <2>1, <2>4 DEF CopyPage, WriteProtected, TypeOK, WorkType, ptable, kmem
<1>4. ASSUME NEW p \in Procs, CopiedPage(p) \/ CopyFails(p) PROVE TypeOK'
  <2>1. work[p].who \in Procs /\ work[p].f \in Frames /\ work[p].reg \in Int
    BY <1>0, <1>4, CopyFacts, WorkFrame, WorkOf DEF CopiedPage, CopyFails, At, Copying, Places
  <2>2. /\ [User EXCEPT !.at = "copy", !.who = work[p].who] \in WorkType
        /\ [User EXCEPT !.at = "free", !.who = work[p].who] \in WorkType
    BY <1>u, <2>1 DEF WorkType, Places
  <2>3. work' \in [Procs -> WorkType]
    BY <1>0, <1>b, <1>4, <2>2, Going DEF CopiedPage, CopyFails
  <2>4. NextPage(work[p].who) \in 0..MaxPages
    BY <1>4, CopyFacts DEF CopiedPage, CopyFails, At, Copying
  <2>5. CASE CopyFails(p)
    <3>1. /\ refs' = [refs EXCEPT ![work[p].f] = work[p].reg + 1]
          /\ leaked' = [leaked EXCEPT ![work[p].f] = @ + 1]
          /\ UNCHANGED <<state, parent, size, frame, cow, mem, freelist, halted>>
      BY <2>5 DEF CopyFails, Increased, ptable, pgdirs
    <3> QED
      BY <1>0, <1>b, <2>1, <2>3, <3>1 DEF TypeOK, WorkType
  <2>6. CASE CopiedPage(p)
    <3>1. NextPage(work[p].who) \in Pages
      <4>1. NextPage(work[p].who) \in cow[p]
        BY <2>6 DEF CopiedPage, At, Inv, Counting, Counter
      <4> QED
        BY <1>0, <1>b, <4>1 DEF TypeOK
    <3> DEFINE i == NextPage(work[p].who)
               c == work[p].who
    <3>2. /\ refs' = [refs EXCEPT ![work[p].f] = work[p].reg + 1]
          /\ frame' = [frame EXCEPT ![c][i] = work[p].f]
          /\ cow' = [cow EXCEPT ![c] = @ \cup {i}]
          /\ UNCHANGED <<state, parent, size, mem, freelist, leaked, halted>>
      BY <2>6 DEF CopiedPage, Increased, ptable
    <3> HIDE DEF i, c
    <3>3. c \in Procs /\ i \in Pages
      BY <2>1, <3>1 DEF i, c
    <3>4. frame' \in [Procs -> [Pages -> Frames \cup {None}]]
      BY <1>0, <1>b, <2>1, <3>2, <3>3, TableUpdate DEF TypeOK
    <3>5. cow' \in [Procs -> SUBSET Pages]
      BY <1>0, <1>b, <3>2, <3>3 DEF TypeOK
    <3>6. refs' \in [Frames -> Int]
      BY <1>0, <1>b, <2>1, <3>2 DEF TypeOK
    <3>7. UNCHANGED <<state, parent, size, mem, freelist, leaked, halted>>
      BY <3>2
    <3> QED
      BY <1>0, <1>b, <2>3, <3>4, <3>5, <3>6, <3>7 DEF TypeOK, WorkType
  <2> QED
    BY <1>4, <2>5, <2>6
<1>5. ASSUME NEW p \in Procs, Forked(p) PROVE TypeOK'
  <2>1. work[p].who \in Procs
    BY <1>5, CopyFacts DEF Forked, At, Copying
  <2>2. work' \in [Procs -> WorkType]
    BY <1>0, <1>b, <1>5, <1>u, Going DEF Forked
  <2>3. /\ state' \in [Procs -> {"unused", "embryo", "running", "zombie"}]
        /\ parent' \in [Procs -> Procs \cup {None}]
        /\ size' \in [Procs -> 0..MaxPages]
    BY <1>0, <1>b, <1>5, <2>1 DEF Forked, TypeOK
  <2>4. UNCHANGED <<frame, cow, mem, refs, freelist, leaked, halted>>
    BY <1>5 DEF Forked, pgdirs, kmem
  <2> QED
    BY <1>0, <1>b, <2>2, <2>3, <2>4 DEF TypeOK, WorkType
<1>6. ASSUME NEW p \in Procs, NEW i \in Pages, PageFault(p, i) PROVE TypeOK'
  <2>1. [User EXCEPT !.at = "check", !.page = i, !.f = frame[p][i]] \in WorkType
    BY <1>6, <1>u, FaultLooks DEF WorkType, Places
  <2>2. work' \in [Procs -> WorkType]
    BY <1>0, <1>6, <2>1, FaultLooks, Going
  <2>3. UNCHANGED <<state, parent, size, frame, cow, mem, refs, freelist, leaked, halted>>
    BY <1>6, FaultLooks DEF ptable, pgdirs, kmem
  <2> QED
    BY <1>0, <1>b, <2>2, <2>3 DEF TypeOK, WorkType
<1>7. ASSUME NEW p \in Procs, NEW i \in Pages, NEW d \in Data, Write(p, i, d) PROVE TypeOK'
  BY <1>0, <1>b, <1>7 DEF Write, TypeOK, ptable, pgdirs, kmem
<1>8. ASSUME NEW p \in Procs, LastUser(p) PROVE TypeOK'
  <2>1. work' \in [Procs -> WorkType]
    BY <1>0, <1>b, <1>8, <1>u, Going DEF LastUser
  <2> QED
    BY <1>0, <1>b, <1>8, <2>1 DEF LastUser, TypeOK, WorkType, ptable, kmem
<1>9. ASSUME NEW p \in Procs, CopyOnWrite(p) PROVE TypeOK'
  <2> DEFINE f == Head(freelist)
  <2>1. f \in Frames /\ Tail(freelist) \in Seq(Frames)
    BY <1>9, FirstFree DEF CopyOnWrite
  <2>2. work[p].f \in Frames /\ work[p].page \in Pages
    BY <1>0, <1>b, <1>9, WorkFrame, WorkOf DEF CopyOnWrite, At, Places
  <2>3. [User EXCEPT !.at = "drop", !.f = work[p].f] \in WorkType
    BY <1>u, <2>2 DEF WorkType, Places
  <2>4. work' \in [Procs -> WorkType]
    BY <1>0, <1>b, <1>9, <2>3, Going DEF CopyOnWrite
  <2> HIDE DEF f
  <2>5. /\ freelist' = Tail(freelist) /\ refs' = [refs EXCEPT ![f] = 1]
        /\ mem' = [mem EXCEPT ![f] = mem[work[p].f]]
        /\ frame' = [frame EXCEPT ![p][work[p].page] = f]
        /\ cow' = [cow EXCEPT ![p] = @ \ {work[p].page}]
        /\ UNCHANGED <<state, parent, size, leaked, halted>>
    BY <1>9 DEF CopyOnWrite, ptable, f
  <2>6. frame' \in [Procs -> [Pages -> Frames \cup {None}]]
    BY <1>0, <1>b, <2>1, <2>2, <2>5, TableUpdate DEF TypeOK
  <2>7. cow' \in [Procs -> SUBSET Pages]
    BY <1>0, <1>b, <2>5 DEF TypeOK
  <2>8. mem' \in [Frames -> Data \cup {Junk}]
    BY <1>0, <1>b, <2>2, <2>5 DEF TypeOK
  <2>9. refs' \in [Frames -> Int] /\ freelist' \in Seq(Frames)
    BY <1>0, <1>b, <2>1, <2>5 DEF TypeOK
  <2>10. UNCHANGED <<state, parent, size, leaked, halted>>
    BY <2>5
  <2> QED
    BY <1>0, <1>b, <2>4, <2>6, <2>7, <2>8, <2>9, <2>10 DEF TypeOK, WorkType
<1>10. ASSUME NEW p \in Procs, CopyToNull(p) PROVE TypeOK'
  BY <1>0, <1>b, <1>10 DEF CopyToNull, TypeOK, ptable, pgdirs, kmem
<1>11. ASSUME NEW p \in Procs, DecreaseLoads(p) \/ KfreeLoads(p) PROVE TypeOK'
  <2>1. work[p].f \in Frames /\ refs[work[p].f] \in Int
    BY <1>11, WorkFrame DEF DecreaseLoads, KfreeLoads, At, Places
  <2>2. /\ [work[p] EXCEPT !.at = "dropped", !.reg = refs[work[p].f]] \in WorkType
        /\ [work[p] EXCEPT !.at = "subbed", !.reg = refs[work[p].f]] \in WorkType
    BY <1>u, <2>1 DEF WorkType, Places
  <2>3. work' \in [Procs -> WorkType]
    BY <1>0, <1>b, <1>11, <2>2, Going DEF DecreaseLoads, KfreeLoads
  <2> QED
    BY <1>0, <1>b, <1>11, <2>3 DEF DecreaseLoads, KfreeLoads, TypeOK, WorkType, ptable, pgdirs, kmem
<1>12. ASSUME NEW p \in Procs, DecreaseStores(p) PROVE TypeOK'
  <2>1. work[p].f \in Frames /\ work[p].reg \in Int
    BY <1>0, <1>12, WorkFrame, WorkOf DEF DecreaseStores, At, Places
  <2>2. work' \in [Procs -> WorkType]
    BY <1>0, <1>b, <1>12, <1>u, Going DEF DecreaseStores
  <2> QED
    BY <1>0, <1>b, <1>12, <2>1, <2>2 DEF DecreaseStores, Decreased, TypeOK, WorkType, ptable, pgdirs
<1>13. ASSUME NEW p \in Procs, Grow(p) \/ GrowFails(p) PROVE TypeOK'
  <2> DEFINE f == Head(freelist)
  <2>1. f \in Frames /\ Tail(freelist) \in Seq(Frames)
    BY <1>13, FirstFree DEF Grow, GrowFails
  <2>0. mem \in [Frames -> Data \cup {Junk}] /\ refs \in [Frames -> Int]
    BY <1>0 DEF TypeOK
  <2>z. Zero \in Data \cup {Junk} /\ Junk \in Data \cup {Junk} /\ 1 \in Int
    BY DataAssumption
  <2> HIDE DEF f
  <2>2. CASE Grow(p)
    <3>0. /\ refs' = [refs EXCEPT ![f] = 1]
          /\ mem' = [mem EXCEPT ![f] = Zero]
      BY <2>2 DEF Grow, f
    <3>1. /\ freelist' = Tail(freelist) /\ size[p] < MaxPages
          /\ frame' = [frame EXCEPT ![p][size[p]] = f]
          /\ size' = [size EXCEPT ![p] = @ + 1]
          /\ UNCHANGED <<state, parent, cow, work, leaked, halted>>
      BY <2>2 DEF Grow, f
    <3>2. size[p] \in Pages /\ size[p] + 1 \in 0..MaxPages
      BY <1>0, <1>b, <3>1 DEF TypeOK, Pages
    <3>3. frame' \in [Procs -> [Pages -> Frames \cup {None}]]
      BY <1>0, <1>b, <2>1, <3>1, <3>2, TableUpdate DEF TypeOK
    <3>4. size' \in [Procs -> 0..MaxPages]
      BY <1>0, <1>b, <3>1, <3>2 DEF TypeOK
    <3>5. mem' \in [Frames -> Data \cup {Junk}] /\ refs' \in [Frames -> Int]
      BY <2>0, <2>1, <2>z, <3>0, FrameUpdate
    <3>6. freelist' \in Seq(Frames) /\ UNCHANGED <<state, parent, cow, work, leaked, halted>>
      BY <2>1, <3>1
    <3> QED
      BY <1>0, <1>b, <3>3, <3>4, <3>5, <3>6 DEF TypeOK
  <2>3. CASE GrowFails(p)
    <3>1. /\ refs' = [refs EXCEPT ![f] = 1] /\ mem' = [mem EXCEPT ![f] = Junk]
          /\ UNCHANGED <<state, parent, size, frame, cow, freelist, work, leaked, halted>>
      BY <2>3 DEF GrowFails, f, ptable, pgdirs
    <3>2. mem' \in [Frames -> Data \cup {Junk}] /\ refs' \in [Frames -> Int]
      BY <2>0, <2>1, <2>z, <3>1, FrameUpdate
    <3>3. UNCHANGED <<state, parent, size, frame, cow, freelist, work, leaked, halted>>
      BY <3>1
    <3> QED
      BY <1>0, <1>b, <3>2, <3>3 DEF TypeOK
  <2> QED
    BY <1>13, <2>2, <2>3
<1>14. ASSUME NEW p \in Procs, Exit(p) PROVE TypeOK'
  <2>1. /\ state' = [state EXCEPT ![p] = "zombie"]
        /\ parent' = [q \in Procs |-> IF parent[q] = p THEN initproc ELSE parent[q]]
        /\ UNCHANGED <<size, frame, cow, mem, refs, freelist, work, leaked, halted>>
    BY <1>14, Exiting DEF pgdirs, kmem
  <2>2. parent' \in [Procs -> Procs \cup {None}]
    BY <1>0, <2>1, InitAssumption DEF TypeOK
  <2>3. state' \in [Procs -> {"unused", "embryo", "running", "zombie"}]
    BY <1>0, <2>1 DEF TypeOK
  <2>4. UNCHANGED <<size, frame, cow, mem, refs, freelist, work, leaked, halted>>
    BY <2>1
  <2> QED
    BY <1>0, <1>b, <2>2, <2>3, <2>4 DEF TypeOK
<1>15. ASSUME NEW p \in Procs, NEW n \in Pages, Shrink(p, n) PROVE TypeOK'
  <2>1. [User EXCEPT !.at = "free", !.who = p, !.keep = n] \in WorkType
    BY <1>0, <1>b, <1>u DEF WorkType, Places
  <2>2. work' \in [Procs -> WorkType]
    BY <1>0, <1>b, <1>15, <2>1, Going DEF Shrink
  <2> QED
    BY <1>0, <1>b, <1>15, <2>2 DEF Shrink, TypeOK, WorkType, ptable, pgdirs, kmem
<1>16. ASSUME NEW p \in Procs, Kfree(p) PROVE TypeOK'
  <2> DEFINE f == frame[work[p].who][NextToFree(p)]
  <2>1. PICK place \in {"sub", "junk"} : Go(p, [work[p] EXCEPT !.at = place, !.f = f])
    BY <1>16, KfreeLooks
  <2>2. f \in Frames
    BY <1>16, KfreeLooks
  <2>3. [work[p] EXCEPT !.at = place, !.f = f] \in WorkType
    BY <1>u, <2>2 DEF WorkType, Places
  <2>4. work' \in [Procs -> WorkType]
    BY <1>0, <2>1, <2>3, Going
  <2>5. UNCHANGED <<state, parent, size, frame, cow, mem, refs, freelist, leaked, halted>>
    BY <1>16, KfreeLooks DEF ptable, pgdirs, kmem
  <2> QED
    BY <1>0, <1>b, <2>4, <2>5 DEF TypeOK, WorkType
<1>17. ASSUME NEW p \in Procs, KfreeStores(p) PROVE TypeOK'
  <2>1. work[p].f \in Frames /\ work[p].reg \in Int
    BY <1>0, <1>17, WorkFrame, WorkOf DEF KfreeStores, At, Places
  <2>2. work[p].who \in Procs /\ NextToFree(p) \in Pages
    BY <1>17, FreeFacts DEF KfreeStores, At, Freeing, Inv, Counting, Counter
  <2> DEFINE w == [User EXCEPT !.at = "free", !.who = work[p].who, !.keep = work[p].keep]
             c == work[p].who
             i == NextToFree(p)
  <2>3. w \in WorkType
    BY <1>0, <1>b, <1>u, <2>2, WorkOf DEF WorkType, Places
  <2>4. Go(p, w)
    BY <1>17 DEF KfreeStores, FreesOn
  <2>5. work' \in [Procs -> WorkType]
    BY <1>0, <1>b, <2>3, <2>4, Going
  <2>6. /\ refs' = [refs EXCEPT ![work[p].f] = work[p].reg - 1]
        /\ frame' = [frame EXCEPT ![c][i] = None]
        /\ cow' = [cow EXCEPT ![c] = @ \ {i}]
        /\ UNCHANGED <<state, parent, size, mem, freelist, leaked, halted>>
    BY <1>17 DEF KfreeStores, Unmap, ptable
  <2> HIDE DEF i, c
  <2>7. c \in Procs /\ i \in Pages
    BY <2>2 DEF i, c
  <2> QED
    BY <1>0, <1>b, <2>1, <2>5, <2>6, <2>7 DEF TypeOK, WorkType
<1>18. ASSUME NEW p \in Procs, KfreeLast(p) PROVE TypeOK'
  <2> DEFINE w == [User EXCEPT !.at = "free", !.who = work[p].who, !.keep = work[p].keep]
             f == work[p].f
             c == work[p].who
             i == NextToFree(p)
  <2>1. f \in Frames
    BY <1>18, WorkFrame DEF KfreeLast, At, Places
  <2>2. c \in Procs /\ i \in Pages
    BY <1>18, FreeFacts DEF KfreeLast, At, Freeing, Inv, Counting, Counter
  <2>3. w \in WorkType
    BY <1>0, <1>u, <2>2, WorkOf DEF WorkType, Places
  <2>4. Go(p, w)
    BY <1>18 DEF KfreeLast, FreesOn
  <2>5. work' \in [Procs -> WorkType]
    BY <1>0, <2>3, <2>4, Going
  <2>6. /\ mem' = [mem EXCEPT ![f] = Junk] /\ freelist' = <<f>> \o freelist
        /\ frame' = [frame EXCEPT ![c][i] = None]
        /\ cow' = [cow EXCEPT ![c] = @ \ {i}]
        /\ UNCHANGED <<state, parent, size, refs, leaked, halted>>
    BY <1>18 DEF KfreeLast, Unmap, ptable
  <2> HIDE DEF i, c, f
  <2>7. c \in Procs /\ i \in Pages /\ f \in Frames
    BY <2>1, <2>2 DEF i, c, f
  <2>8. freelist' \in Seq(Frames)
    BY <1>0, <2>6, <2>7 DEF TypeOK
  <2>9. mem' \in [Frames -> Data \cup {Junk}]
    BY <1>0, <2>6, <2>7, FrameUpdate DEF TypeOK
  <2>10. frame' \in [Procs -> [Pages -> Frames \cup {None}]]
    BY <1>0, <2>6, <2>7, TableUpdate DEF TypeOK
  <2>11. cow' \in [Procs -> SUBSET Pages]
    BY <1>0, <2>6, <2>7 DEF TypeOK
  <2>12. UNCHANGED <<state, parent, size, refs, leaked, halted>>
    BY <2>6
  <2> QED
    BY <1>0, <1>b, <2>5, <2>8, <2>9, <2>10, <2>11, <2>12 DEF TypeOK, WorkType
<1>19. ASSUME NEW p \in Procs, Freed(p) PROVE TypeOK'
  <2>1. work[p].who \in Procs /\ work[p].keep \in 0..MaxPages
    BY <1>0, <1>b, <1>19, WorkOf DEF Freed, At, Inv, Workers, Worker, Sharing
  <2>2. work' \in [Procs -> WorkType]
    BY <1>0, <1>b, <1>19, <1>u, Going DEF Freed
  <2>3. /\ state' \in [Procs -> {"unused", "embryo", "running", "zombie"}]
        /\ parent' \in [Procs -> Procs \cup {None}]
        /\ size' \in [Procs -> 0..MaxPages]
    BY <1>0, <1>b, <1>19, <2>1 DEF Freed, TypeOK
  <2> QED
    BY <1>0, <1>b, <1>19, <2>2, <2>3 DEF Freed, TypeOK, WorkType, pgdirs, kmem
<1>20. CASE UNCHANGED vars
  BY <1>0, <1>b, <1>20 DEF vars, TypeOK, ptable, pgdirs, kmem
<1>21. ASSUME NEW p \in Procs, LooksAgain(p) PROVE TypeOK'
  <2>1. [work[p] EXCEPT !.at = IF refs[work[p].f] = 1 THEN "last" ELSE "split"] \in WorkType
    BY <1>u DEF WorkType, Places
  <2>2. work' \in [Procs -> WorkType]
    BY <1>0, <1>21, <2>1, Going DEF LooksAgain
  <2> QED
    BY <1>0, <1>b, <1>21, <2>2 DEF LooksAgain, TypeOK, WorkType, ptable, pgdirs, kmem
<1> QED
  BY <1>1, <1>2, <1>3, <1>4, <1>5, <1>6, <1>7, <1>8, <1>9, <1>10, <1>11, <1>12,
     <1>13, <1>14, <1>15, <1>16, <1>17, <1>18, <1>19, <1>20, <1>21 DEF Next

-----------------------------------------------------------------------------
(* Who works on whose pages. *)

LEMMA Untouched ==
  ASSUME Inv, NEW c \in Procs,
         \/ state[c] = "unused"
         \/ state[c] = "running" /\ work[c].who # c
         \/ state[c] = "zombie" /\ parent[c] \in Procs /\ work[parent[c]].at = "user"
  PROVE  \A q \in Procs : work[q].who # c
<1> SUFFICES ASSUME NEW q \in Procs, work[q].who = c PROVE FALSE
  OBVIOUS
<1>1. Worker(q) /\ work[q].at \in Places /\ c # None
  BY WorkOf, InitAssumption DEF Inv, Workers
<1>2. work[q].at \in Copying \cup Freeing
  BY <1>1 DEF Worker, Sharing, Copying, Freeing, Places
<1>3. CASE work[q].at \in Copying
  BY <1>1, <1>3 DEF Worker
<1>4. CASE work[q].at \in Freeing
  BY <1>1, <1>4 DEF Worker, Freeing
<1> QED
  BY <1>2, <1>3, <1>4

(* A step of p that leaves alone what the work of q is about. *)
LEMMA WorkerKept ==
  ASSUME NEW q \in Procs, Worker(q), work'[q] = work[q], state'[q] = state[q],
         size'[q] = size[q],
         \/ work[q].who = None
         \/ /\ state'[work[q].who] = state[work[q].who]
            /\ parent'[work[q].who] = parent[work[q].who]
  PROVE  Worker(q)'
<1>1. work[q].at \notin Sharing \cup {"user"} => work[q].who # None
  BY DEF Worker, Sharing
<1>2. \/ work[q].who # None
      \/ work[q].at \notin Copying \cup Freeing
  BY DEF Worker, Sharing, Copying, Freeing
<1> QED
  BY <1>1, <1>2 DEF Worker, Sharing, Copying, Freeing

LEMMA AloneKept ==
  ASSUME Alone, NEW p \in Procs,
         \A q \in Procs \ {p} : work'[q] = work[q],
         \/ work'[p].who = None
         \/ \A q \in Procs \ {p} : work[q].who # work'[p].who
  PROVE  Alone'
  BY DEF Alone

(* A step of p that changes only what p works at. *)
LEMMA WorkersKept ==
  ASSUME Inv, NEW p \in Procs,
         \A q \in Procs \ {p} : work'[q] = work[q],
         work'[p].who \in {None, work[p].who}
           \/ \A q \in Procs : work[q].who # work'[p].who,
         UNCHANGED <<state, size, parent>>, Worker(p)'
  PROVE  Workers'
<1>1. Alone'
  BY AloneKept DEF Inv, Workers, Alone
<1>2. \A q \in Procs \ {p} : Worker(q)'
  BY WorkerKept DEF Inv, Workers
<1> QED
  BY <1>1, <1>2 DEF Workers

LEMMA WorkersStep == ASSUME Inv, [Next]_vars PROVE Workers'
<1>0. TypeOK /\ Alone /\ None \notin Procs /\ \A q \in Procs : Worker(q)
  BY InitAssumption DEF Inv, Workers
<1>1. ASSUME NEW p \in Procs, NEW c \in Procs, Fork(p, c) PROVE Workers'
  <2>1. /\ work'[p].at = "copy" /\ work'[p].who = c
        /\ \A q \in Procs \ {p} : work'[q] = work[q]
    BY <1>0, <1>1 DEF Fork, User, Go, TypeOK
  <2>2. /\ \A q \in Procs : state'[q] = IF q = c THEN "embryo" ELSE state[q]
        /\ UNCHANGED <<size, parent>> /\ state[c] = "unused" /\ state[p] = "running"
        /\ work[p].at = "user"
    BY <1>0, <1>1 DEF Fork, At, TypeOK
  <2>3. \A q \in Procs : work[q].who # c
    BY <2>2, Untouched
  <2>4. Alone'
    BY <1>0, <2>1, <2>3, AloneKept
  <2>5. Worker(p)'
    BY <1>0, <2>1, <2>2 DEF Worker, Sharing, Copying, Freeing
  <2>6. Worker(c)'
    BY <1>0, <2>1, <2>2 DEF Worker, Sharing, Copying, Freeing
  <2>7. \A q \in Procs \ {p, c} : Worker(q)'
    BY <1>0, <2>1, <2>2, <2>3, WorkerKept, WorkOf
  <2> QED
    BY <2>4, <2>5, <2>6, <2>7 DEF Workers
<1>2. ASSUME NEW p \in Procs, NEW c \in Procs, Wait(p, c) PROVE Workers'
  <2>1. /\ work'[p].at = "free" /\ work'[p].who = c /\ work'[p].keep = 0
        /\ \A q \in Procs \ {p} : work'[q] = work[q]
    BY <1>0, <1>2 DEF Wait, User, Go, TypeOK
  <2>2. /\ UNCHANGED <<state, size, parent>> /\ state[c] = "zombie" /\ state[p] = "running"
        /\ parent[c] = p /\ work[p].at = "user"
    BY <1>2 DEF Wait, At, ptable
  <2>3. \A q \in Procs : work[q].who # c
    BY <2>2, Untouched
  <2>4. Worker(p)'
    BY <1>0, <2>1, <2>2 DEF Worker, Sharing, Copying, Freeing
  <2> QED
    BY <2>1, <2>2, <2>3, <2>4, WorkersKept
<1>3. ASSUME NEW p \in Procs, CopyPage(p) PROVE Workers'
  <2>1. work[p].at = "copy" /\ UNCHANGED <<state, size, parent>>
    BY <1>3 DEF CopyPage, At, ptable
  <2>2. /\ work'[p].at = "inc" /\ work'[p].who = work[p].who
        /\ \A q \in Procs \ {p} : work'[q] = work[q]
    BY <1>0, <1>3 DEF CopyPage, Go, TypeOK
  <2>3. Worker(p)'
    BY <1>0, <2>1, <2>2 DEF Worker, Sharing, Copying, Freeing
  <2> QED
    BY <2>1, <2>2, <2>3, WorkersKept
<1>4. ASSUME NEW p \in Procs, CopiedPage(p) PROVE Workers'
  <2>1. work[p].at = "inc" /\ UNCHANGED <<state, size, parent>>
    BY <1>4 DEF CopiedPage, At, ptable
  <2>2. /\ work'[p].at = "copy" /\ work'[p].who = work[p].who
        /\ \A q \in Procs \ {p} : work'[q] = work[q]
    BY <1>0, <1>4 DEF CopiedPage, User, Go, TypeOK
  <2>3. Worker(p)'
    BY <1>0, <2>1, <2>2 DEF Worker, Sharing, Copying, Freeing
  <2> QED
    BY <2>1, <2>2, <2>3, WorkersKept
<1>5. ASSUME NEW p \in Procs, CopyFails(p) PROVE Workers'
  <2>1. work[p].at = "inc" /\ UNCHANGED <<state, size, parent>>
    BY <1>5 DEF CopyFails, At, ptable
  <2>2. /\ work'[p].at = "free" /\ work'[p].who = work[p].who /\ work'[p].keep = 0
        /\ \A q \in Procs \ {p} : work'[q] = work[q]
    BY <1>0, <1>5 DEF CopyFails, User, Go, TypeOK
  <2>3. Worker(p)'
    BY <1>0, <2>1, <2>2 DEF Worker, Sharing, Copying, Freeing
  <2> QED
    BY <2>1, <2>2, <2>3, WorkersKept
<1>6. ASSUME NEW p \in Procs, Forked(p) PROVE Workers'
  <2>1. PICK c \in Procs : /\ c = work[p].who /\ work[p].at = "copy" /\ c # p
                           /\ state[c] = "embryo" /\ state[p] = "running"
    BY <1>6, CopyFacts DEF Forked, At, Copying
  <2>2. \A q \in Procs : /\ size'[q] = IF q = c THEN size[p] ELSE size[q]
                         /\ parent'[q] = IF q = c THEN p ELSE parent[q]
                         /\ state'[q] = IF q = c THEN "running" ELSE state[q]
    BY <1>0, <1>6, <2>1 DEF Forked, TypeOK
  <2>3. /\ work'[p].at = "user" /\ work'[p].who = None
        /\ \A q \in Procs \ {p} : work'[q] = work[q]
    BY <1>0, <1>6 DEF Forked, User, Go, TypeOK
  <2>4. \A q \in Procs \ {p} : work[q].who # c
    BY <1>0, <2>1 DEF Alone
  <2>5. Alone'
    BY <1>0, <2>3, AloneKept
  <2>6. Worker(p)'
    BY <2>3 DEF Worker, Sharing, Copying, Freeing
  <2>7. Worker(c)'
    <3>1. work[c].at = "user" /\ work[c].who = None
      BY <1>0, <2>1 DEF Worker
    <3> QED
      BY <2>1, <2>3, <3>1 DEF Worker, Sharing, Copying, Freeing
  <2>8. \A q \in Procs \ {p, c} : Worker(q)'
    BY <1>0, <2>2, <2>3, <2>4, WorkerKept, WorkOf
  <2> QED
    BY <2>5, <2>6, <2>7, <2>8 DEF Workers
<1>7. ASSUME NEW p \in Procs, NEW i \in Pages, PageFault(p, i) PROVE Workers'
  <2>1. UNCHANGED <<state, size, parent>> /\ work[p].at = "user" /\ state[p] = "running"
    BY <1>7, FaultLooks DEF ptable
  <2>2. /\ work'[p].at = "check" /\ work'[p].who = None
        /\ \A q \in Procs \ {p} : work'[q] = work[q]
    <3>1. Go(p, [User EXCEPT !.at = "check", !.page = i, !.f = frame[p][i]])
      BY <1>7, FaultLooks
    <3> QED
      BY <1>0, <3>1 DEF User, Go, TypeOK
  <2>3. Worker(p)'
    BY <2>1, <2>2 DEF Worker, Sharing, Copying, Freeing
  <2> QED
    BY <2>1, <2>2, <2>3, WorkersKept
<1>21. ASSUME NEW p \in Procs, LooksAgain(p) PROVE Workers'
  <2>1. work[p].at = "check" /\ UNCHANGED <<state, size, parent>>
    BY <1>21 DEF LooksAgain, At, ptable
  <2>2. /\ work'[p].at \in {"last", "split"} /\ work'[p].who = work[p].who
        /\ \A q \in Procs \ {p} : work'[q] = work[q]
    BY <1>0, <1>21 DEF LooksAgain, Go, TypeOK
  <2>3. Worker(p)'
    BY <1>0, <2>1, <2>2 DEF Worker, Sharing, Copying, Freeing
  <2> QED
    BY <2>1, <2>2, <2>3, WorkersKept
<1>8. ASSUME NEW p \in Procs, LastUser(p) \/ DecreaseStores(p) PROVE Workers'
  <2>1. /\ work'[p].at = "user" /\ work'[p].who = None
        /\ \A q \in Procs \ {p} : work'[q] = work[q]
    BY <1>0, <1>8 DEF LastUser, DecreaseStores, User, Go, TypeOK
  <2>2. UNCHANGED <<state, size, parent>>
    BY <1>8 DEF LastUser, DecreaseStores, ptable
  <2>3. Worker(p)'
    BY <2>1 DEF Worker, Sharing, Copying, Freeing
  <2> QED
    BY <2>1, <2>2, <2>3, WorkersKept
<1>9. ASSUME NEW p \in Procs, CopyOnWrite(p) PROVE Workers'
  <2>1. /\ work'[p].at = "drop" /\ work'[p].who = None
        /\ \A q \in Procs \ {p} : work'[q] = work[q]
    BY <1>0, <1>9 DEF CopyOnWrite, User, Go, TypeOK
  <2>2. UNCHANGED <<state, size, parent>> /\ state[p] = "running"
    BY <1>9 DEF CopyOnWrite, ptable, At
  <2>3. Worker(p)'
    BY <2>1, <2>2 DEF Worker, Sharing, Copying, Freeing
  <2> QED
    BY <2>1, <2>2, <2>3, WorkersKept
<1>10. ASSUME NEW p \in Procs, DecreaseLoads(p) PROVE Workers'
  <2>1. work[p].at = "drop" /\ UNCHANGED <<state, size, parent>>
    BY <1>10 DEF DecreaseLoads, At, ptable
  <2>2. /\ work'[p].at = "dropped" /\ work'[p].who = work[p].who
        /\ \A q \in Procs \ {p} : work'[q] = work[q]
    BY <1>0, <1>10 DEF DecreaseLoads, Go, TypeOK
  <2>3. Worker(p)'
    BY <1>0, <2>1, <2>2 DEF Worker, Sharing, Copying, Freeing
  <2> QED
    BY <2>1, <2>2, <2>3, WorkersKept
<1>11. ASSUME NEW p \in Procs, KfreeLoads(p) PROVE Workers'
  <2>1. work[p].at = "sub" /\ UNCHANGED <<state, size, parent>>
    BY <1>11 DEF KfreeLoads, At, ptable
  <2>2. /\ work'[p].at = "subbed" /\ work'[p].who = work[p].who /\ work'[p].keep = work[p].keep
        /\ \A q \in Procs \ {p} : work'[q] = work[q]
    BY <1>0, <1>11 DEF KfreeLoads, Go, TypeOK
  <2>3. Worker(p)'
    BY <1>0, <2>1, <2>2 DEF Worker, Sharing, Copying, Freeing
  <2> QED
    BY <2>1, <2>2, <2>3, WorkersKept
<1>12. ASSUME NEW p \in Procs, Grow(p) PROVE Workers'
  <2>1. /\ UNCHANGED <<state, parent, work>> /\ work[p].at = "user"
        /\ \A q \in Procs \ {p} : size'[q] = size[q]
    BY <1>0, <1>12 DEF Grow, At, TypeOK
  <2>2. Worker(p)'
    BY <1>0, <2>1 DEF Worker, Sharing, Copying, Freeing
  <2>3. \A q \in Procs \ {p} : Worker(q)'
    BY <1>0, <2>1, WorkerKept, WorkOf
  <2>4. Alone'
    BY <1>0, <2>1 DEF Alone
  <2> QED
    BY <2>2, <2>3, <2>4 DEF Workers
<1>13. ASSUME NEW p \in Procs, Exit(p) PROVE Workers'
  <2>1. /\ UNCHANGED <<size, work>> /\ work[p].at = "user" /\ state[p] = "running"
        /\ \A q \in Procs : /\ state'[q] = IF q = p THEN "zombie" ELSE state[q]
                            /\ parent'[q] = IF parent[q] = p THEN initproc ELSE parent[q]
    BY <1>0, <1>13, Exiting DEF TypeOK
  <2>2. work[p].who = None
    BY <1>0, <2>1 DEF Worker
  <2>3. \A q \in Procs : work[q].who # p
    BY <1>0, <2>1, <2>2, Untouched
  <2>4. Worker(p)'
    BY <2>1, <2>2 DEF Worker, Sharing, Copying, Freeing
  <2>5. ASSUME NEW q \in Procs \ {p} PROVE Worker(q)'
    <3>1. Worker(q) /\ work[q].who \in Procs \cup {None}
      BY <1>0, WorkOf
    <3> QED
      BY <1>0, <2>1, <2>3, <3>1 DEF Worker, Sharing, Copying, Freeing
  <2>6. Alone'
    BY <1>0, <2>1 DEF Alone
  <2> QED
    BY <2>4, <2>5, <2>6 DEF Workers
<1>14. ASSUME NEW p \in Procs, NEW n \in Pages, Shrink(p, n) PROVE Workers'
  <2>1. /\ work'[p].at = "free" /\ work'[p].who = p /\ work'[p].keep = n
        /\ \A q \in Procs \ {p} : work'[q] = work[q]
    BY <1>0, <1>14 DEF Shrink, User, Go, TypeOK
  <2>2. /\ UNCHANGED <<state, size, parent>> /\ state[p] = "running" /\ work[p].at = "user"
        /\ n < size[p]
    BY <1>0, <1>14 DEF Shrink, At, ptable, TypeOK
  <2>3. work[p].who = None
    BY <1>0, <2>2 DEF Worker
  <2>4. \A q \in Procs : work[q].who # p
    BY <1>0, <2>2, <2>3, Untouched
  <2>5. Worker(p)'
    BY <1>0, <2>1, <2>2 DEF Worker, Sharing, Copying, Freeing
  <2> QED
    BY <2>1, <2>2, <2>4, <2>5, WorkersKept
<1>15. ASSUME NEW p \in Procs, Kfree(p) PROVE Workers'
  <2>1. work[p].at = "free" /\ UNCHANGED <<state, size, parent>>
    BY <1>15, KfreeLooks DEF ptable
  <2>2. /\ work'[p].at \in {"sub", "junk"} /\ work'[p].who = work[p].who
        /\ work'[p].keep = work[p].keep
        /\ \A q \in Procs \ {p} : work'[q] = work[q]
    <3>1. PICK place \in {"sub", "junk"} :
            Go(p, [work[p] EXCEPT !.at = place, !.f = frame[work[p].who][NextToFree(p)]])
      BY <1>15, KfreeLooks
    <3> QED
      BY <1>0, <3>1 DEF Go, TypeOK
  <2>3. Worker(p)'
    BY <1>0, <2>1, <2>2 DEF Worker, Sharing, Copying, Freeing
  <2> QED
    BY <2>1, <2>2, <2>3, WorkersKept
<1>16. ASSUME NEW p \in Procs, KfreeStores(p) \/ KfreeLast(p) PROVE Workers'
  <2>1. work[p].at \in {"subbed", "junk"} /\ UNCHANGED <<state, size, parent>>
    BY <1>16 DEF KfreeStores, KfreeLast, At, ptable
  <2>2. /\ work'[p].at = "free" /\ work'[p].who = work[p].who /\ work'[p].keep = work[p].keep
        /\ \A q \in Procs \ {p} : work'[q] = work[q]
    <3>1. FreesOn(p)
      BY <1>16 DEF KfreeStores, KfreeLast
    <3> QED
      BY <1>0, <3>1 DEF FreesOn, User, Go, TypeOK
  <2>3. Worker(p)'
    BY <1>0, <2>1, <2>2 DEF Worker, Sharing, Copying, Freeing
  <2> QED
    BY <2>1, <2>2, <2>3, WorkersKept
<1>17. ASSUME NEW p \in Procs, Freed(p) PROVE Workers'
  <2>1. PICK c \in Procs : c = work[p].who /\ work[p].at = "free"
    BY <1>0, <1>17, WorkOf DEF Freed, At, Worker, Sharing
  <2>2. \A q \in Procs \ {c} : size'[q] = size[q] /\ state'[q] = state[q] /\ parent'[q] = parent[q]
    BY <1>0, <1>17, <2>1 DEF Freed, TypeOK
  <2>3. /\ work'[p].at = "user" /\ work'[p].who = None
        /\ \A q \in Procs \ {p} : work'[q] = work[q]
    BY <1>0, <1>17 DEF Freed, User, Go, TypeOK
  <2>4. \A q \in Procs \ {p} : work[q].who # c
    BY <1>0, <2>1 DEF Alone
  <2>5. c # p => work[c].at = "user" /\ work[c].who = None
    BY <1>0, <2>1 DEF Worker, Freeing
  <2>6. Alone'
    BY <1>0, <2>3, AloneKept
  <2>7. Worker(p)'
    BY <2>3 DEF Worker, Sharing, Copying, Freeing
  <2>8. c # p => Worker(c)'
    BY <2>1, <2>3, <2>5 DEF Worker, Sharing, Copying, Freeing
  <2>9. \A q \in Procs \ {p, c} : Worker(q)'
    BY <1>0, <2>2, <2>3, <2>4, WorkerKept, WorkOf
  <2> QED
    BY <2>6, <2>7, <2>8, <2>9 DEF Workers
<1>18. ASSUME UNCHANGED <<state, size, parent, work>> PROVE Workers'
  BY <1>0, <1>18 DEF Workers, Worker, Alone
<1>19. ASSUME NEW p \in Procs,
              \/ \E i \in Pages, d \in Data : Write(p, i, d)
              \/ CopyToNull(p)
              \/ GrowFails(p)
       PROVE  UNCHANGED <<state, size, parent, work>>
  BY <1>19 DEF Write, CopyToNull, GrowFails, ptable
<1>20. CASE UNCHANGED vars
  BY <1>18, <1>20 DEF vars, ptable
<1> QED
  BY <1>1, <1>2, <1>3, <1>4, <1>5, <1>6, <1>7, <1>8, <1>9, <1>10, <1>11, <1>12,
     <1>13, <1>14, <1>15, <1>16, <1>17, <1>18, <1>19, <1>20, <1>21 DEF Next

-----------------------------------------------------------------------------
(* The page tables. *)

LEMMA MappedKept ==
  ASSUME NEW q \in Procs, frame'[q] = frame[q]
  PROVE  Mapped(q)' = Mapped(q) /\ NextPage(q)' = NextPage(q)
  BY DEF Mapped, NextPage

LEMMA AllMapped ==
  ASSUME Inv, NEW p \in Procs, state[p] = "running", work[p].who # p
  PROVE  Mapped(p) = 0..size[p] - 1
  BY Untouched DEF Inv, Tables, Table

LEMMA TableKept ==
  ASSUME NEW q \in Procs, Table(q), frame'[q] = frame[q], cow'[q] = cow[q],
         size'[q] = size[q], state'[q] = state[q],
         \A r \in Procs : work[r].at \in Freeing /\ work[r].who = q =>
                            work'[r].at \in Freeing /\ work'[r].who = q
  PROVE  Table(q)'
  BY MappedKept DEF Table, Freeing

LEMMA PartKept ==
  ASSUME NEW q \in Procs, Part(q), Worker(q), work[q].who \in Procs \cup {None},
         work'[q] = work[q], frame'[q] = frame[q], size'[q] = size[q],
         work[q].who # None => frame'[work[q].who] = frame[work[q].who]
  PROVE  Part(q)'
<1>1. CASE work[q].at \in Copying \cup Freeing
  <2>1. PICK c \in Procs : c = work[q].who
    BY <1>1 DEF Worker, Copying, Freeing, Sharing
  <2>2. Mapped(c)' = Mapped(c) /\ NextPage(c)' = NextPage(c) /\ frame'[c] = frame[c]
    BY <2>1, MappedKept, InitAssumption
  <2> QED
    BY <2>1, <2>2 DEF Part
<1>2. CASE work[q].at \notin Copying \cup Freeing
  BY <1>2 DEF Part
<1> QED
  BY <1>1, <1>2

(* A step of p that changes no page table, or makes pages writable or not. *)
LEMMA TablesKept ==
  ASSUME Inv, NEW p \in Procs, UNCHANGED <<state, size, frame>>,
         \A q \in Procs \ {p} : work'[q] = work[q] /\ cow'[q] = cow[q],
         cow'[p] \subseteq Mapped(p), Part(p)',
         work[p].at \in Freeing => work'[p].at \in Freeing /\ work'[p].who = work[p].who
  PROVE  Tables'
<1>1. \A q \in Procs : Table(q) /\ Part(q) /\ Worker(q) /\ work[q].who \in Procs \cup {None}
  BY WorkOf DEF Inv, Tables, Workers
<1>2. ASSUME NEW q \in Procs \ {p} PROVE Table(q)' /\ Part(q)'
  <2>1. Part(q)'
    BY <1>1, PartKept
  <2>2. Table(q)'
    BY <1>1, TableKept
  <2> QED
    BY <2>1, <2>2
<1>3. Table(p)'
  <2>1. Mapped(p)' = Mapped(p)
    BY MappedKept
  <2>2. \A r \in Procs : work[r].at \in Freeing /\ work[r].who = p =>
                           work'[r].at \in Freeing /\ work'[r].who = p
    BY DEF Freeing
  <2> QED
    BY <1>1, <2>1, <2>2 DEF Table
<1> QED
  BY <1>2, <1>3 DEF Tables

(* The page that fork copies next. *)
LEMMA NextMapped ==
  ASSUME Inv, NEW p \in Procs, work[p].at \in Copying
  PROVE  /\ Mapped(p) = 0..size[p] - 1
         /\ NextPage(work[p].who) < size[p] => NextPage(work[p].who) \in Mapped(p)
<1>1. work[p].who # p /\ state[p] = "running"
  BY CopyFacts
<1>2. Mapped(p) = 0..size[p] - 1
  BY <1>1, AllMapped
<1>3. NextPage(work[p].who) \in Nat /\ size[p] \in Nat
  BY CopyFacts
<1> QED
  BY <1>2, <1>3

LEMMA TablesStep == ASSUME Inv, [Next]_vars PROVE Tables'
<1>0. /\ TypeOK /\ None \notin Procs
      /\ \A q \in Procs : Table(q) /\ Part(q) /\ Worker(q)
      /\ \A q \in Procs : work[q].who \in Procs \cup {None}
  BY InitAssumption, WorkOf DEF Inv, Workers, Tables
<1>1. ASSUME NEW p \in Procs, NEW c \in Procs, Fork(p, c) PROVE Tables'
  <2>1. /\ work'[p].at = "copy" /\ work'[p].who = c
        /\ \A q \in Procs \ {p} : work'[q] = work[q]
    BY <1>0, <1>1 DEF Fork, User, Go, TypeOK
  <2>2. /\ \A q \in Procs : state'[q] = IF q = c THEN "embryo" ELSE state[q]
        /\ UNCHANGED <<size, frame, cow>> /\ state[c] = "unused" /\ state[p] = "running"
        /\ work[p].at = "user" /\ size[p] \in Nat
    BY <1>0, <1>1 DEF Fork, At, TypeOK, pgdirs
  <2>3. Mapped(c) = {} /\ cow[c] = {}
    BY <1>0, <2>2 DEF Table
  <2>4. Mapped(c)' = {} /\ NextPage(c)' = 0
    BY <2>2, <2>3, MappedKept, FS_EmptySet DEF NextPage
  <2>5. Part(p)'
    <3>1. 0..0-1 = {}
      OBVIOUS
    <3> QED
      BY <2>1, <2>2, <2>4, <3>1 DEF Part, Copying, Freeing
  <2>6. \A q \in Procs \ {p} : Part(q)'
    BY <1>0, <2>1, <2>2, PartKept
  <2>7. Table(c)'
    BY <2>2, <2>3, <2>4 DEF Table
  <2>8. \A q \in Procs \ {c} : Table(q)'
    BY <1>0, <2>1, <2>2, TableKept DEF Freeing
  <2> QED
    BY <2>5, <2>6, <2>7, <2>8 DEF Tables
<1>2. ASSUME NEW p \in Procs, NEW c \in Procs, Wait(p, c) PROVE Tables'
  <2>1. /\ work'[p].at = "free" /\ work'[p].who = c /\ work'[p].keep = 0
        /\ \A q \in Procs \ {p} : work'[q] = work[q]
    BY <1>0, <1>2 DEF Wait, User, Go, TypeOK
  <2>2. UNCHANGED <<state, size, frame, cow>> /\ work[p].at = "user"
    BY <1>2 DEF Wait, At, ptable, pgdirs
  <2>3. Part(p)'
    <3>1. 0..0-1 = {}
      OBVIOUS
    <3> QED
      BY <2>1, <3>1 DEF Part, Copying, Freeing
  <2> QED
    BY <1>0, <2>1, <2>2, <2>3, TablesKept DEF Table, Freeing
<1>3. ASSUME NEW p \in Procs, CopyPage(p) PROVE Tables'
  <2>1. PICK c \in Procs : c = work[p].who /\ work[p].at = "copy" /\ c # p
    BY <1>3, CopyFacts DEF CopyPage, At, Copying
  <2>2. /\ work'[p].at = "inc" /\ work'[p].who = c
        /\ \A q \in Procs \ {p} : work'[q] = work[q]
    BY <1>0, <1>3, <2>1 DEF CopyPage, Go, TypeOK
  <2>3. NextPage(c) \in Mapped(p)
    BY <1>3, <2>1, NextMapped DEF CopyPage, Copying
  <2>4. /\ UNCHANGED <<state, size, frame>> /\ cow'[p] = cow[p] \cup {NextPage(c)}
        /\ \A q \in Procs \ {p} : cow'[q] = cow[q]
    BY <1>0, <1>3, <2>1 DEF CopyPage, WriteProtected, ptable, TypeOK
  <2>5. Mapped(c)' = Mapped(c) /\ NextPage(c)' = NextPage(c)
    BY <2>4, MappedKept
  <2>6. Part(p)'
    BY <1>0, <2>1, <2>2, <2>4, <2>5 DEF Part, Copying, Freeing
  <2>7. cow'[p] \subseteq Mapped(p)
    BY <1>0, <2>3, <2>4 DEF Table
  <2> QED
    BY <2>1, <2>2, <2>4, <2>6, <2>7, TablesKept DEF Freeing
<1>4. ASSUME NEW p \in Procs, CopiedPage(p) PROVE Tables'
  <2>1. PICK c \in Procs, n \in Nat :
          /\ c = work[p].who /\ work[p].at = "inc" /\ c # p /\ state[c] = "embryo"
          /\ n = NextPage(c) /\ Mapped(c) = 0..n - 1 /\ n <= size[p] /\ size[p] \in Nat
          /\ state[p] = "running"
    BY <1>4, CopyFacts DEF CopiedPage, At, Copying
  <2>2. /\ n \in cow[p] /\ work[p].f = frame[p][n] /\ n \in Mapped(p) /\ n < size[p]
        /\ work[p].f \in Frames
    <3>1. n \in cow[p] /\ work[p].f = frame[p][n]
      BY <2>1 DEF Inv, Counting, Counter
    <3>2. n \in Mapped(p) /\ Mapped(p) = 0..size[p] - 1
      BY <1>0, <2>1, <3>1, NextMapped DEF Table, Copying
    <3>3. frame[p][n] \in Frames
      BY <3>2, Used
    <3> QED
      BY <2>1, <3>1, <3>2, <3>3
  <2>3. /\ work'[p].at = "copy" /\ work'[p].who = c
        /\ \A q \in Procs \ {p} : work'[q] = work[q]
    BY <1>0, <1>4, <2>1 DEF CopiedPage, User, Go, TypeOK
  <2>4. /\ UNCHANGED <<state, size>> /\ cow'[c] = cow[c] \cup {n}
        /\ frame'[c] = [frame[c] EXCEPT ![n] = work[p].f]
        /\ \A q \in Procs \ {c} : cow'[q] = cow[q] /\ frame'[q] = frame[q]
    BY <1>0, <1>4, <2>1 DEF CopiedPage, ptable, TypeOK
  <2>5. /\ frame'[c][n] = frame[p][n] /\ \A i \in Pages \ {n} : frame'[c][i] = frame[c][i]
        /\ n \in Pages
    BY <1>0, <2>2, <2>4 DEF Mapped, TypeOK
  <2>6. Mapped(c)' = Mapped(c) \cup {n}
    BY <2>2, <2>5, FrameAssumption DEF Mapped
  <2>7. Mapped(c)' = 0..n /\ NextPage(c)' = n + 1
    <3>1. Mapped(c)' = 0..n
      BY <2>1, <2>6
    <3>2. Cardinality(0..n) = n + 1
      <4>1. n + 1 \in Nat /\ n + 1 - 1 = n
        BY <2>1
      <4> QED
        BY <4>1, PagesBelow
    <3> QED
      BY <3>1, <3>2 DEF NextPage
  <2>8. Part(p)'
    <3>1. n + 1 <= size[p] /\ n + 1 - 1 = n
      BY <2>1, <2>2
    <3>2. \A i \in Mapped(c) : frame[c][i] = frame[p][i] /\ i \in Pages \ {n}
      BY <1>0, <2>1 DEF Part, Copying, Mapped
    <3>3. \A i \in Mapped(c)' : frame'[c][i] = frame'[p][i]
      BY <2>1, <2>4, <2>5, <2>6, <3>2
    <3> QED
      BY <2>3, <2>4, <2>7, <3>1, <3>3 DEF Part, Copying, Freeing
  <2>9. ASSUME NEW q \in Procs \ {p} PROVE Part(q)'
    <3>1. q # c => frame'[q] = frame[q]
      BY <2>4
    <3>2. work[q].who # c
      BY <1>0, <2>1 DEF Inv, Workers, Alone
    <3>3. q = c => Part(q)'
      <4>1. work[c].at = "user"
        BY <1>0, <2>1 DEF Worker
      <4> QED
        BY <2>1, <2>3, <4>1 DEF Part, Copying, Freeing
    <3> QED
      BY <1>0, <2>3, <2>4, <3>1, <3>2, <3>3, PartKept
  <2>10. Table(c)'
    BY <1>0, <2>1, <2>4, <2>6 DEF Table
  <2>11. \A q \in Procs \ {c} : Table(q)'
    BY <1>0, <2>1, <2>3, <2>4, TableKept DEF Freeing
  <2> QED
    BY <2>8, <2>9, <2>10, <2>11 DEF Tables
<1>5. ASSUME NEW p \in Procs, CopyFails(p) PROVE Tables'
  <2>1. /\ work'[p].at = "free" /\ work'[p].who = work[p].who /\ work'[p].keep = 0
        /\ \A q \in Procs \ {p} : work'[q] = work[q]
    BY <1>0, <1>5 DEF CopyFails, User, Go, TypeOK
  <2>2. UNCHANGED <<state, size, frame, cow>> /\ work[p].at = "inc"
    BY <1>5 DEF CopyFails, At, ptable, pgdirs
  <2>3. Part(p)'
    <3>1. 0..0-1 = {}
      OBVIOUS
    <3> QED
      BY <2>1, <3>1 DEF Part, Copying, Freeing
  <2> QED
    BY <1>0, <2>1, <2>2, <2>3, TablesKept DEF Table, Freeing
<1>6. ASSUME NEW p \in Procs, Forked(p) PROVE Tables'
  <2>1. PICK c \in Procs : /\ c = work[p].who /\ work[p].at = "copy" /\ c # p
                           /\ state[c] = "embryo" /\ state[p] = "running"
                           /\ Mapped(c) = 0..size[p] - 1
    BY <1>6, CopyFacts DEF Forked, At, Copying
  <2>2. /\ \A q \in Procs : /\ size'[q] = IF q = c THEN size[p] ELSE size[q]
                            /\ state'[q] = IF q = c THEN "running" ELSE state[q]
        /\ UNCHANGED <<frame, cow>>
    BY <1>0, <1>6, <2>1 DEF Forked, TypeOK, pgdirs
  <2>3. /\ work'[p].at = "user" /\ work'[p].who = None
        /\ \A q \in Procs \ {p} : work'[q] = work[q]
    BY <1>0, <1>6 DEF Forked, User, Go, TypeOK
  <2>4. Part(p)'
    BY <2>3 DEF Part, Copying, Freeing
  <2>5. Part(c)'
    <3>1. work[c].at = "user"
      BY <1>0, <2>1 DEF Worker
    <3> QED
      BY <2>1, <2>3, <3>1 DEF Part, Copying, Freeing
  <2>6. \A q \in Procs \ {p, c} : Part(q)'
    BY <1>0, <2>2, <2>3, PartKept
  <2>7. Table(c)'
    BY <1>0, <2>1, <2>2, MappedKept DEF Table
  <2>8. \A q \in Procs \ {c} : Table(q)'
    BY <1>0, <2>1, <2>2, <2>3, TableKept DEF Freeing
  <2> QED
    BY <2>4, <2>5, <2>6, <2>7, <2>8 DEF Tables
<1>7. ASSUME NEW p \in Procs, NEW i \in Pages, PageFault(p, i) PROVE Tables'
  <2>1. UNCHANGED <<state, size, frame, cow>> /\ work[p].at = "user"
    BY <1>7, FaultLooks DEF ptable, pgdirs
  <2>2. work'[p].at = "check" /\ \A q \in Procs \ {p} : work'[q] = work[q]
    <3>1. Go(p, [User EXCEPT !.at = "check", !.page = i, !.f = frame[p][i]])
      BY <1>7, FaultLooks
    <3> QED
      BY <1>0, <3>1 DEF User, Go, TypeOK
  <2>3. Part(p)'
    BY <2>2 DEF Part, Copying, Freeing
  <2> QED
    BY <1>0, <2>1, <2>2, <2>3, TablesKept DEF Table, Freeing
<1>8. ASSUME NEW p \in Procs, LooksAgain(p) \/ LastUser(p) \/ DecreaseStores(p) \/ DecreaseLoads(p) PROVE Tables'
  <2>1. /\ work'[p].at \in {"user", "last", "split", "dropped"} /\ work[p].at \in Sharing
        /\ \A q \in Procs \ {p} : work'[q] = work[q]
    <3>1. CASE LastUser(p)
      BY <1>0, <3>1 DEF LastUser, At, Sharing, User, Go, TypeOK
    <3>2. CASE DecreaseStores(p)
      BY <1>0, <3>2 DEF DecreaseStores, At, Sharing, User, Go, TypeOK
    <3>3. CASE DecreaseLoads(p)
      BY <1>0, <3>3 DEF DecreaseLoads, At, Sharing, Go, TypeOK
    <3>4. CASE LooksAgain(p)
      BY <1>0, <3>4 DEF LooksAgain, At, Sharing, Go, TypeOK
    <3> QED
      BY <1>8, <3>1, <3>2, <3>3, <3>4
  <2>2. /\ UNCHANGED <<state, size, frame>> /\ cow'[p] \subseteq cow[p]
        /\ \A q \in Procs \ {p} : cow'[q] = cow[q]
    BY <1>0, <1>8 DEF LooksAgain, LastUser, DecreaseStores, DecreaseLoads, ptable, pgdirs, TypeOK
  <2>3. Part(p)'
    BY <2>1 DEF Part, Copying, Freeing
  <2> QED
    BY <1>0, <2>1, <2>2, <2>3, TablesKept DEF Table, Freeing, Sharing
<1>9. ASSUME NEW p \in Procs, CopyOnWrite(p) PROVE Tables'
  <2>1. PICK i \in Pages : i = work[p].page /\ work[p].at = "split" /\ i \in Mapped(p)
    BY <1>0, <1>9, WorkOf DEF CopyOnWrite, At, Inv, Counting, Counter, Table
  <2>2. PICK f \in Frames : f = Head(freelist)
    BY <1>9, FirstFree DEF CopyOnWrite
  <2>3. /\ UNCHANGED <<state, size>> /\ cow'[p] = cow[p] \ {i} /\ state[p] = "running"
        /\ frame'[p] = [frame[p] EXCEPT ![i] = f]
        /\ \A q \in Procs \ {p} : cow'[q] = cow[q] /\ frame'[q] = frame[q]
    BY <1>0, <1>9, <2>1, <2>2 DEF CopyOnWrite, ptable, At, TypeOK
  <2>4. /\ work'[p].at = "drop" /\ \A q \in Procs \ {p} : work'[q] = work[q]
    BY <1>0, <1>9 DEF CopyOnWrite, User, Go, TypeOK
  <2>5. work[p].who = None /\ \A q \in Procs : work[q].who # p
    BY <1>0, <2>1, <2>3, Untouched DEF Worker, Sharing
  <2>6. Mapped(p)' = Mapped(p)
    <3>1. \A j \in Pages : frame'[p][j] # None <=> frame[p][j] # None
      BY <1>0, <2>1, <2>2, <2>3, FrameAssumption DEF Mapped, TypeOK
    <3> QED
      BY <3>1 DEF Mapped
  <2>7. Part(p)'
    BY <2>4 DEF Part, Copying, Freeing
  <2>8. \A q \in Procs \ {p} : Part(q)'
    BY <1>0, <2>3, <2>4, <2>5, PartKept
  <2>9. Table(p)'
    BY <1>0, <2>3, <2>5, <2>6 DEF Table
  <2>10. \A q \in Procs \ {p} : Table(q)'
    BY <1>0, <2>1, <2>3, <2>4, TableKept DEF Freeing
  <2> QED
    BY <2>7, <2>8, <2>9, <2>10 DEF Tables
<1>10. ASSUME NEW p \in Procs, Grow(p) PROVE Tables'
  <2>1. PICK f \in Frames : f = Head(freelist)
    BY <1>10, FirstFree DEF Grow
  <2>2. PICK n \in Pages : n = size[p] /\ work[p].at = "user" /\ state[p] = "running" /\ n \in Nat
    BY <1>0, <1>10, SizeAssumption DEF Grow, At, TypeOK, Pages
  <2>3. /\ UNCHANGED <<state, cow, work>> /\ size'[p] = n + 1
        /\ frame'[p] = [frame[p] EXCEPT ![n] = f]
        /\ \A q \in Procs \ {p} : size'[q] = size[q] /\ frame'[q] = frame[q]
    BY <1>0, <1>10, <2>1, <2>2 DEF Grow, TypeOK
  <2>4. work[p].who = None /\ \A q \in Procs : work[q].who # p
    BY <1>0, <2>2, Untouched DEF Worker, Sharing
  <2>5. Mapped(p) = 0..n - 1
    BY <1>0, <2>2, <2>4, AllMapped
  <2>6. Mapped(p)' = 0..n
    <3>1. \A j \in Pages : frame'[p][j] # None <=> frame[p][j] # None \/ j = n
      BY <1>0, <2>1, <2>2, <2>3, FrameAssumption DEF TypeOK
    <3>2. Mapped(p)' = Mapped(p) \cup {n}
      BY <2>2, <3>1 DEF Mapped
    <3> QED
      BY <2>2, <2>5, <3>2
  <2>7. Table(p)'
    <3>1. 0..n = 0..(n + 1) - 1 /\ Mapped(p) \subseteq Mapped(p)'
      BY <2>2, <2>5, <2>6
    <3> QED
      BY <1>0, <2>2, <2>3, <2>6, <3>1 DEF Table
  <2>8. Part(p)'
    BY <2>2, <2>3 DEF Part, Copying, Freeing
  <2>9. \A q \in Procs \ {p} : Part(q)'
    BY <1>0, <2>3, <2>4, PartKept
  <2>10. \A q \in Procs \ {p} : Table(q)'
    BY <1>0, <2>3, TableKept
  <2> QED
    BY <2>7, <2>8, <2>9, <2>10 DEF Tables
<1>11. ASSUME NEW p \in Procs, Exit(p) PROVE Tables'
  <2>1. /\ UNCHANGED <<size, work, frame, cow>> /\ state[p] = "running"
        /\ \A q \in Procs : state'[q] = IF q = p THEN "zombie" ELSE state[q]
    BY <1>0, <1>11, Exiting DEF TypeOK, pgdirs
  <2>2. \A q \in Procs : Part(q)'
    BY <1>0, <2>1, PartKept
  <2>3. \A q \in Procs \ {p} : Table(q)'
    BY <1>0, <2>1, TableKept
  <2>4. Table(p)'
    BY <1>0, <2>1, MappedKept DEF Table
  <2> QED
    BY <2>2, <2>3, <2>4 DEF Tables
<1>12. ASSUME NEW p \in Procs, NEW n \in Pages, Shrink(p, n) PROVE Tables'
  <2>1. /\ work'[p].at = "free" /\ work'[p].who = p /\ work'[p].keep = n
        /\ \A q \in Procs \ {p} : work'[q] = work[q]
    BY <1>0, <1>12 DEF Shrink, User, Go, TypeOK
  <2>2. /\ UNCHANGED <<state, size, frame, cow>> /\ state[p] = "running" /\ work[p].at = "user"
        /\ n \in Nat /\ size[p] \in Nat /\ n < size[p]
    BY <1>0, <1>12, SizeAssumption DEF Shrink, At, ptable, pgdirs, TypeOK, Pages
  <2>3. Mapped(p) = 0..size[p] - 1
    BY <1>0, <2>2, AllMapped DEF Worker
  <2>4. Part(p)'
    <3>1. 0..n - 1 \subseteq Mapped(p)
      BY <2>2, <2>3
    <3> QED
      BY <2>1, <2>2, <3>1, MappedKept DEF Part, Copying, Freeing
  <2> QED
    BY <1>0, <2>1, <2>2, <2>4, TablesKept DEF Table, Freeing
<1>13. ASSUME NEW p \in Procs, Kfree(p) \/ KfreeLoads(p) PROVE Tables'
  <2>1. UNCHANGED <<state, size, frame, cow>> /\ work[p].at \in {"free", "sub"}
    BY <1>13, KfreeLooks DEF KfreeLoads, At, ptable, pgdirs
  <2>2. /\ work'[p].at \in {"junk", "sub", "subbed"} /\ work'[p].who = work[p].who
        /\ work'[p].keep = work[p].keep
        /\ \A q \in Procs \ {p} : work'[q] = work[q]
    <3>1. CASE KfreeLoads(p)
      BY <1>0, <3>1 DEF KfreeLoads, Go, TypeOK
    <3>2. CASE Kfree(p)
      <4>1. PICK place \in {"sub", "junk"} :
              Go(p, [work[p] EXCEPT !.at = place, !.f = frame[work[p].who][NextToFree(p)]])
        BY <3>2, KfreeLooks
      <4> QED
        BY <1>0, <4>1 DEF Go, TypeOK
    <3> QED
      BY <1>13, <3>1, <3>2
  <2>3. Part(p)'
    <3>1. PICK c \in Procs : c = work[p].who
      BY <1>0, <2>1 DEF Worker, Sharing
    <3> QED
      BY <1>0, <2>1, <2>2, <3>1, MappedKept DEF Part, Copying, Freeing
  <2> QED
    BY <1>0, <2>1, <2>2, <2>3, TablesKept DEF Table, Freeing
<1>14. ASSUME NEW p \in Procs, KfreeStores(p) \/ KfreeLast(p) PROVE Tables'
  <2>1. /\ work[p].at \in {"junk", "subbed"} /\ ToFree(p) # {} /\ UNCHANGED <<state, size>>
        /\ Unmap(work[p].who, NextToFree(p))
    BY <1>14 DEF KfreeStores, KfreeLast, At, Inv, Counting, Counter, ptable
  <2>2. PICK c \in Procs, i \in Pages : /\ c = work[p].who /\ i = NextToFree(p)
                                        /\ i >= work[p].keep
    BY <2>1, FreeFacts DEF Freeing
  <2>3. /\ frame'[c] = [frame[c] EXCEPT ![i] = None] /\ cow'[c] = cow[c] \ {i}
        /\ \A q \in Procs \ {c} : cow'[q] = cow[q] /\ frame'[q] = frame[q]
    BY <1>0, <2>1, <2>2 DEF Unmap, TypeOK
  <2>4. /\ work'[p].at = "free" /\ work'[p].who = c /\ work'[p].keep = work[p].keep
        /\ \A q \in Procs \ {p} : work'[q] = work[q]
    <3>1. CASE KfreeStores(p)
      BY <1>0, <2>2, <3>1 DEF KfreeStores, FreesOn, User, Go, TypeOK
    <3>2. CASE KfreeLast(p)
      BY <1>0, <2>2, <3>2 DEF KfreeLast, FreesOn, User, Go, TypeOK
    <3> QED
      BY <1>14, <3>1, <3>2
  <2>5. Mapped(c)' = Mapped(c) \ {i}
    <3>1. \A j \in Pages : frame'[c][j] # None <=> frame[c][j] # None /\ j # i
      BY <1>0, <2>2, <2>3 DEF TypeOK
    <3> QED
      BY <2>2, <3>1 DEF Mapped
  <2>6. \A q \in Procs \ {p} : work[q].who # c
    BY <1>0, <2>2 DEF Inv, Workers, Alone
  <2>7. Part(p)'
    <3>1. 0..work[p].keep - 1 \subseteq Mapped(c) /\ work[p].keep \in Nat /\ i \in Nat
      BY <1>0, <2>1, <2>2, WorkOf, SizeAssumption DEF Part, Freeing, Pages
    <3>2. 0..work[p].keep - 1 \subseteq Mapped(c)'
      BY <2>2, <2>5, <3>1
    <3> QED
      BY <2>4, <3>2 DEF Part, Copying, Freeing
  <2>8. ASSUME NEW q \in Procs \ {p} PROVE Part(q)'
    <3>1. CASE q = c
      <4>1. work[c].at \notin Copying \cup Freeing
        BY <1>0, <2>1, <2>2, <3>1 DEF Worker, Copying, Freeing
      <4> QED
        BY <2>4, <3>1, <4>1 DEF Part
    <3>2. CASE q # c
      BY <1>0, <2>1, <2>3, <2>4, <2>6, <3>2, PartKept
    <3> QED
      BY <3>1, <3>2
  <2>9. Table(c)'
    <3>1. cow'[c] \subseteq Mapped(c)'
      BY <1>0, <2>3, <2>5 DEF Table
    <3>2. state'[c] = state[c] /\ state[c] # "unused"
      BY <1>0, <2>1, <2>2 DEF Worker, Freeing
    <3>3. work'[p].at \in Freeing /\ work'[p].who = c
      BY <2>4 DEF Freeing
    <3> QED
      BY <3>1, <3>2, <3>3 DEF Table
  <2>10. \A q \in Procs \ {c} : Table(q)'
    BY <1>0, <2>1, <2>2, <2>3, <2>4, TableKept
  <2> QED
    BY <2>7, <2>8, <2>9, <2>10 DEF Tables
<1>15. ASSUME NEW p \in Procs, Freed(p) PROVE Tables'
  <2>1. PICK c \in Procs : c = work[p].who /\ work[p].at = "free"
    BY <1>0, <1>15, WorkOf DEF Freed, At, Worker, Sharing
  <2>2. PICK k \in Nat : k = work[p].keep
    BY <1>0, WorkOf
  <2>3. /\ size'[c] = k /\ state'[c] = IF c = p THEN state[c] ELSE "unused"
        /\ \A q \in Procs \ {c} : size'[q] = size[q] /\ state'[q] = state[q]
        /\ UNCHANGED <<frame, cow>> /\ ToFree(p) = {}
    BY <1>0, <1>15, <2>1, <2>2 DEF Freed, TypeOK, pgdirs
  <2>4. /\ work'[p].at = "user" /\ \A q \in Procs \ {p} : work'[q] = work[q]
    BY <1>0, <1>15 DEF Freed, User, Go, TypeOK
  <2>5. Mapped(c) = 0..k - 1
    <3>1. 0..k - 1 \subseteq Mapped(c)
      BY <1>0, <2>1, <2>2 DEF Part, Freeing
    <3>2. \A i \in Mapped(c) : i \in Nat /\ ~(i >= k)
      BY <2>1, <2>2, <2>3, SizeAssumption DEF ToFree, Mapped, Pages
    <3>3. \A i \in Mapped(c) : i \in 0..k - 1
      BY <3>2
    <3> QED
      BY <3>1, <3>3
  <2>6. c # p => k = 0 /\ Mapped(c) = {}
    <3>1. c # p => k = 0
      BY <1>0, <2>1, <2>2 DEF Worker, Freeing
    <3>2. 0..0 - 1 = {}
      OBVIOUS
    <3> QED
      BY <2>5, <3>1, <3>2
  <2>7. Table(c)'
    BY <1>0, <2>3, <2>5, <2>6, MappedKept DEF Table
  <2>8. \A q \in Procs \ {c} : Table(q)'
    BY <1>0, <2>1, <2>3, <2>4, TableKept
  <2>9. Part(p)'
    BY <2>4 DEF Part, Copying, Freeing
  <2>10. ASSUME NEW q \in Procs \ {p} PROVE Part(q)'
    <3>1. CASE q = c
      <4>1. work[c].at \notin Copying \cup Freeing
        BY <1>0, <2>1, <3>1 DEF Worker, Copying, Freeing
      <4> QED
        BY <2>4, <3>1, <4>1 DEF Part
    <3>2. CASE q # c
      BY <1>0, <2>3, <2>4, <3>2, PartKept
    <3> QED
      BY <3>1, <3>2
  <2> QED
    BY <2>7, <2>8, <2>9, <2>10 DEF Tables
<1>16. ASSUME UNCHANGED <<state, size, frame, cow, work>> PROVE Tables'
  BY <1>0, <1>16, MappedKept DEF Tables, Table, Part, Mapped, NextPage
<1>17. ASSUME NEW p \in Procs,
              \/ \E i \in Pages, d \in Data : Write(p, i, d)
              \/ CopyToNull(p)
              \/ GrowFails(p)
       PROVE  UNCHANGED <<state, size, frame, cow, work>>
  BY <1>17 DEF Write, CopyToNull, GrowFails, ptable, pgdirs
<1>18. CASE UNCHANGED vars
  BY <1>16, <1>18 DEF vars, ptable, pgdirs
<1> QED
  BY <1>1, <1>2, <1>3, <1>4, <1>5, <1>6, <1>7, <1>8, <1>9, <1>10, <1>11, <1>12,
     <1>13, <1>14, <1>15, <1>16, <1>17, <1>18 DEF Next

-----------------------------------------------------------------------------
(* The users of a page. *)

LEMMA UsersSet ==
  ASSUME TypeOK, NEW p \in Procs, NEW i \in Pages, NEW g,
         frame' = [frame EXCEPT ![p][i] = g]
  PROVE  \A f \in Frames :
           Users(f)' = IF f = g THEN Users(f) \cup {<<p, i>>} ELSE Users(f) \ {<<p, i>>}
<1>1. \A u \in Procs \X Pages :
        frame'[u[1]][u[2]] = IF u = <<p, i>> THEN g ELSE frame[u[1]][u[2]]
  <2>1. \A q \in Procs, j \in Pages :
          frame'[q][j] = IF q = p /\ j = i THEN g ELSE frame[q][j]
    BY DEF TypeOK
  <2> QED
    BY <2>1
<1> SUFFICES ASSUME NEW f \in Frames
             PROVE  Users(f)' = IF f = g THEN Users(f) \cup {<<p, i>>} ELSE Users(f) \ {<<p, i>>}
  OBVIOUS
<1>2. ASSUME NEW u \in Procs \X Pages
      PROVE  u \in Users(f)' <=> IF u = <<p, i>> THEN f = g ELSE u \in Users(f)
  BY <1>1 DEF Users
<1>3. Users(f) \subseteq Procs \X Pages /\ Users(f)' \subseteq Procs \X Pages
      /\ <<p, i>> \in Procs \X Pages
  BY DEF Users
<1> QED
  BY <1>2, <1>3

LEMMA UsersCleared ==
  ASSUME TypeOK, NEW p \in Procs, NEW i \in Pages,
         frame' = [frame EXCEPT ![p][i] = None]
  PROVE  \A f \in Frames : Users(f)' = Users(f) \ {<<p, i>>}
<1>1. \A f \in Frames :
        Users(f)' = IF f = None THEN Users(f) \cup {<<p, i>>} ELSE Users(f) \ {<<p, i>>}
  BY UsersSet
<1> QED
  BY <1>1, FrameAssumption

(* The only user, where the count is one. *)
LEMMA OneUser ==
  ASSUME Inv, NEW p \in Procs, NEW i \in Mapped(p), refs[frame[p][i]] = 1
  PROVE  /\ Users(frame[p][i]) = {<<p, i>>} /\ leaked[frame[p][i]] = 0
         /\ Droppers(frame[p][i]) = {}
<1>1. PICK f \in Frames : f = frame[p][i] /\ <<p, i>> \in Users(f) /\ ~OnList(f)
  BY Used
<1>2. IsFiniteSet(Users(f)) /\ Cardinality(Users(f)) \in Nat
  BY UsersFinite
<1>3. Cardinality(Users(f) \ {<<p, i>>}) = Cardinality(Users(f)) - 1
      /\ Cardinality(Users(f) \ {<<p, i>>}) \in Nat /\ IsFiniteSet(Users(f) \ {<<p, i>>})
  BY <1>1, <1>2, FS_RemoveElement, FS_CardinalityType
<1>4. leaked[f] \in Nat /\ refs[f] = 1
  BY <1>1 DEF Inv, TypeOK
<1>5. refs[f] = (Cardinality(Users(f)) + Cardinality(Droppers(f))) + leaked[f]
  BY <1>1 DEF Inv, Counts
<1>6. Cardinality(Droppers(f)) \in Nat /\ IsFiniteSet(Droppers(f))
  BY DroppersFinite
<1>7. Cardinality(Users(f)) = 1 /\ leaked[f] = 0 /\ Cardinality(Droppers(f)) = 0
  BY <1>2, <1>3, <1>4, <1>5, <1>6
<1>8. Users(f) \ {<<p, i>>} = {} /\ Droppers(f) = {}
  BY <1>3, <1>6, <1>7, FS_EmptySet
<1> QED
  BY <1>1, <1>7, <1>8

-----------------------------------------------------------------------------
(* Who is at work on which count. *)

(* Nobody else works on the pages of a process that p works on, and it is  *)
(* not itself at work on a count.                                          *)
LEMMA Apart ==
  ASSUME Inv, NEW p \in Procs, NEW c \in Procs,
         \/ c = work[p].who
         \/ c = p /\ state[p] = "running" /\ work[p].who = None
  PROVE  /\ \A q \in Procs \ {p} : work[q].who # c
         /\ \A q \in Procs \ {p} : work[q].f # None => q # c
<1>0. None \notin Procs
  BY InitAssumption
<1>1. \A q \in Procs \ {p} : work[q].who # c
  <2>1. CASE c = work[p].who
    BY <1>0, <2>1 DEF Inv, Workers, Alone
  <2>2. CASE c = p /\ state[p] = "running" /\ work[p].who = None
    BY <1>0, <2>2, Untouched
  <2> QED
    BY <2>1, <2>2
<1>2. ASSUME NEW q \in Procs \ {p}, q = c PROVE work[q].f = None
  <2>1. c = work[p].who /\ work[p].at \in Copying \cup Freeing /\ Worker(p) /\ Worker(c)
    BY <1>0, <1>2, WorkOf DEF Inv, Workers, Worker, Copying, Freeing, Sharing, Places
  <2>2. state[c] # "running"
    BY <1>2, <2>1 DEF Worker
  <2>3. work[c].at = "user"
    BY <2>1, <2>2 DEF Worker
  <2> QED
    BY <1>2, <2>3 DEF Inv, Counting, Counter
<1> QED
  BY <1>1, <1>2

(* Whoever is at work on a count uses the page, or has just stopped to.    *)
LEMMA UserOf ==
  ASSUME Inv, NEW p \in Procs,
         work[p].at \in Places \ {"user", "copy", "free", "drop", "dropped"}
  PROVE  \E c \in Procs : \E i \in Mapped(c) :
           /\ frame[c][i] = work[p].f
           /\ IF work[p].at \in {"junk", "sub", "subbed"}
              THEN c = work[p].who /\ i = NextToFree(p)
              ELSE c = p /\ (work[p].at # "inc" => i = work[p].page)
<1>1. Counter(p) /\ Table(p)
  BY DEF Inv, Counting, Tables
<1>2. CASE work[p].at \in {"junk", "sub", "subbed"}
  BY <1>1, <1>2, FreeFacts DEF Counter, Freeing
<1>3. CASE work[p].at = "inc"
  BY <1>1, <1>3 DEF Counter, Table
<1>4. CASE work[p].at \in {"check", "last", "split"}
  BY <1>1, <1>4 DEF Counter, Table
<1> QED
  BY <1>2, <1>3, <1>4 DEF Places

(* Who has seen a count of one is alone: nobody else uses the page or is   *)
(* at work on its count.                                                   *)
LEMMA LastOne ==
  ASSUME Inv, NEW p \in Procs, work[p].at \in {"last", "junk"}
  PROVE  /\ work[p].f \in Frames /\ refs[work[p].f] = 1 /\ ~OnList(work[p].f)
         /\ \E c \in Procs : \E i \in Mapped(c) :
              /\ frame[c][i] = work[p].f /\ Users(work[p].f) = {<<c, i>>}
              /\ leaked[work[p].f] = 0 /\ Droppers(work[p].f) = {}
              /\ IF work[p].at = "junk" THEN c = work[p].who /\ i = NextToFree(p)
                                        ELSE c = p /\ i = work[p].page
         /\ \A q \in Procs \ {p} : work[q].f # work[p].f
<1>1. work[p].f \in Frames /\ ~OnList(work[p].f) /\ refs[work[p].f] = 1
  <2>1. work[p].at \in Places \ {"user", "copy", "free"}
    BY DEF Places
  <2>2. Counter(p)
    BY DEF Inv, Counting
  <2> QED
    BY <2>1, <2>2, WorkFrame DEF Counter
<1>2. \E c \in Procs : \E i \in Mapped(c) :
        /\ frame[c][i] = work[p].f
        /\ IF work[p].at = "junk" THEN c = work[p].who /\ i = NextToFree(p)
                                  ELSE c = p /\ i = work[p].page
  BY UserOf DEF Places
<1>7. PICK c \in Procs : \E i \in Mapped(c) :
        /\ frame[c][i] = work[p].f
        /\ IF work[p].at = "junk" THEN c = work[p].who /\ i = NextToFree(p)
                                  ELSE c = p /\ i = work[p].page
  BY <1>2
<1>8. PICK i \in Mapped(c) :
        /\ frame[c][i] = work[p].f
        /\ IF work[p].at = "junk" THEN c = work[p].who /\ i = NextToFree(p)
                                  ELSE c = p /\ i = work[p].page
  BY <1>7
<1>3. Users(work[p].f) = {<<c, i>>} /\ leaked[work[p].f] = 0 /\ Droppers(work[p].f) = {}
  BY <1>1, <1>8, OneUser
<1>4. Worker(p) /\ Counter(p) /\ state[p] = "running"
  BY DEF Inv, Workers, Counting, Worker
<1>5. \A q \in Procs \ {p} : work[q].who # c /\ (work[q].f # None => q # c)
  BY <1>8, <1>4, Apart DEF Worker, Sharing
<1>6. ASSUME NEW q \in Procs \ {p}, work[q].f = work[p].f PROVE FALSE
  <2>1. work[q].f # None /\ work[q].at \in Places /\ Counter(q)
    BY <1>1, <1>6, FrameAssumption, WorkOf DEF Inv, Counting
  <2>2. work[q].at \in Places \ {"user", "copy", "free"}
    BY <2>1 DEF Counter
  <2>3. work[q].at \notin {"drop", "dropped"}
    BY <1>3, <1>6 DEF Droppers
  <2>4. PICK d \in Procs : /\ \E j \in Mapped(d) : frame[d][j] = work[q].f
                           /\ d = work[q].who \/ d = q
    BY <2>2, <2>3, UserOf
  <2>5. PICK j \in Mapped(d) : frame[d][j] = work[p].f
    BY <1>6, <2>4
  <2>6. <<d, j>> \in Users(work[p].f)
    BY <2>5, Used
  <2>7. d = c
    BY <1>3, <2>6
  <2> QED
    BY <1>5, <2>1, <2>4, <2>7
<1> QED
  BY <1>1, <1>8, <1>3, <1>6

LEMMA CounterKept ==
  ASSUME NEW q \in Procs, Counter(q), Worker(q), work[q].who \in Procs \cup {None},
         work'[q] = work[q],
         work[q].f # None =>
           /\ frame'[q] = frame[q] /\ cow'[q] = cow[q]
           /\ work[q].who # None => frame'[work[q].who] = frame[work[q].who],
         work[q].at \in {"last", "junk"} => refs'[work[q].f] = refs[work[q].f]
  PROVE  Counter(q)'
<1>1. CASE work[q].f = None
  BY <1>1 DEF Counter
<1>2. CASE work[q].f # None /\ work[q].who = None
  BY <1>2 DEF Counter, Worker, Sharing
<1>3. CASE work[q].f # None /\ work[q].who # None
  <2>1. PICK c \in Procs : c = work[q].who
    BY <1>3
  <2>2. Mapped(c)' = Mapped(c) /\ NextPage(c)' = NextPage(c) /\ frame'[c] = frame[c]
    BY <1>3, <2>1, MappedKept
  <2>3. ToFree(q)' = ToFree(q) /\ NextToFree(q)' = NextToFree(q)
    BY <2>1, <2>2 DEF ToFree, NextToFree
  <2> QED
    BY <1>3, <2>1, <2>2, <2>3 DEF Counter
<1> QED
  BY <1>1, <1>2, <1>3

LEMMA CountingKept ==
  ASSUME Inv, NEW p \in Procs,
         \A q \in Procs \ {p} : work'[q] = work[q],
         \A q \in Procs \ {p} : work[q].f # None =>
           /\ frame'[q] = frame[q] /\ cow'[q] = cow[q]
           /\ work[q].who # None => frame'[work[q].who] = frame[work[q].who],
         \A q \in Procs \ {p} : work[q].at \in {"last", "junk"} =>
           refs'[work[q].f] = refs[work[q].f],
         Counter(p)'
  PROVE  Counting'
<1>1. \A q \in Procs : Counter(q) /\ Worker(q) /\ work[q].who \in Procs \cup {None}
  BY WorkOf DEF Inv, Counting, Workers
<1>2. \A q \in Procs \ {p} : Counter(q)'
  BY <1>1, CounterKept
<1> QED
  BY <1>2 DEF Counting

(* Where p is at work on no count.                                         *)
LEMMA NoCounter ==
  ASSUME NEW p \in Procs, work'[p].f = None, work'[p].at \in {"user", "copy", "free"}
  PROVE  Counter(p)'
  BY DEF Counter

(* A step that changes the count of the frame that p is at work on, or of  *)
(* a free one, does not change it for one who has seen that it is alone.   *)
LEMMA OtherCounts ==
  ASSUME Inv, NEW p \in Procs, NEW f \in Frames, f = work[p].f \/ OnList(f),
         \A g \in Frames \ {f} : refs'[g] = refs[g]
  PROVE  \A q \in Procs \ {p} : work[q].at \in {"last", "junk"} =>
           refs'[work[q].f] = refs[work[q].f]
<1> SUFFICES ASSUME NEW q \in Procs \ {p}, work[q].at \in {"last", "junk"}
             PROVE  refs'[work[q].f] = refs[work[q].f]
  OBVIOUS
<1>1. /\ work[q].f \in Frames /\ ~OnList(work[q].f)
      /\ \A r \in Procs \ {q} : work[r].f # work[q].f
  BY LastOne
<1>2. work[q].f # f
  BY <1>1
<1> QED
  BY <1>1, <1>2

LEMMA CountingStep == ASSUME Inv, ~outdated', [Next]_vars PROVE Counting'
<1>0. /\ TypeOK /\ None \notin Procs /\ None \notin Frames
      /\ \A q \in Procs : Counter(q) /\ Worker(q) /\ Table(q)
      /\ \A q \in Procs : work[q].who \in Procs \cup {None}
  BY InitAssumption, FrameAssumption, WorkOf DEF Inv, Workers, Counting, Tables
<1>1. ASSUME NEW p \in Procs,
             \A q \in Procs \ {p} : work'[q] = work[q],
             UNCHANGED <<frame, refs>>, \A q \in Procs \ {p} : cow'[q] = cow[q],
             work'[p].f = None, work'[p].at \in {"user", "copy", "free"}
      PROVE  Counting'
  BY <1>1, CountingKept, NoCounter
<1>2. ASSUME NEW p \in Procs, NEW c \in Procs, Fork(p, c) \/ Wait(p, c) PROVE Counting'
  <2>1. /\ work'[p].f = None /\ work'[p].at \in {"copy", "free"}
        /\ \A q \in Procs \ {p} : work'[q] = work[q]
    <3>1. CASE Fork(p, c)
      BY <1>0, <3>1 DEF Fork, User, Go, TypeOK
    <3>2. CASE Wait(p, c)
      BY <1>0, <3>2 DEF Wait, User, Go, TypeOK
    <3> QED
      BY <1>2, <3>1, <3>2
  <2>2. UNCHANGED <<frame, cow, refs>>
    BY <1>2 DEF Fork, Wait, pgdirs, kmem
  <2> QED
    BY <1>1, <2>1, <2>2
<1>3. ASSUME NEW p \in Procs, CopyPage(p) PROVE Counting'
  <2>1. PICK c \in Procs : c = work[p].who /\ work[p].at = "copy" /\ c # p
    BY <1>3, CopyFacts DEF CopyPage, At, Copying
  <2>2. NextPage(c) \in Mapped(p)
    BY <1>3, <2>1, NextMapped DEF CopyPage, Copying
  <2>3. PICK f \in Frames : f = frame[p][NextPage(c)]
    BY <2>2, Used
  <2>4. /\ work'[p].at = "inc" /\ work'[p].who = c /\ work'[p].f = f
        /\ \A q \in Procs \ {p} : work'[q] = work[q]
    BY <1>0, <1>3, <2>1, <2>3 DEF CopyPage, Go, TypeOK
  <2>5. /\ UNCHANGED <<frame, refs>> /\ NextPage(c) \in cow'[p]
        /\ \A q \in Procs \ {p} : cow'[q] = cow[q]
    BY <1>0, <1>3, <2>1, <2>3 DEF CopyPage, WriteProtected, kmem, TypeOK
  <2>6. Counter(p)'
    BY <1>0, <2>3, <2>4, <2>5, MappedKept DEF Counter
  <2> QED
    BY <2>4, <2>5, <2>6, CountingKept
<1>4. ASSUME NEW p \in Procs, CopiedPage(p) PROVE Counting'
  <2>1. PICK c \in Procs : c = work[p].who /\ work[p].at = "inc"
    BY <1>4, CopyFacts DEF CopiedPage, At, Copying
  <2>2. PICK f \in Frames : f = work[p].f
    BY <2>1, WorkFrame DEF Places
  <2>3. /\ work'[p].f = None /\ work'[p].at = "copy"
        /\ \A q \in Procs \ {p} : work'[q] = work[q]
    BY <1>0, <1>4 DEF CopiedPage, User, Go, TypeOK
  <2>4. /\ \A g \in Frames \ {f} : refs'[g] = refs[g]
        /\ \A q \in Procs \ {c} : frame'[q] = frame[q] /\ cow'[q] = cow[q]
    BY <1>0, <1>4, <2>1, <2>2 DEF CopiedPage, TypeOK
  <2>5. /\ \A q \in Procs \ {p} : work[q].who # c
        /\ \A q \in Procs \ {p} : work[q].f # None => q # c
    BY <2>1, Apart
  <2>6. \A q \in Procs \ {p} : work[q].at \in {"last", "junk"} => refs'[work[q].f] = refs[work[q].f]
    BY <2>2, <2>4, OtherCounts
  <2> QED
    BY <1>0, <2>3, <2>4, <2>5, <2>6, NoCounter, CountingKept
<1>5. ASSUME NEW p \in Procs, CopyFails(p) \/ DecreaseStores(p) PROVE Counting'
  <2>1. PICK f \in Frames : f = work[p].f
    BY <1>5, WorkFrame DEF CopyFails, DecreaseStores, At, Places
  <2>2. /\ work'[p].f = None /\ work'[p].at \in {"free", "user"}
        /\ \A q \in Procs \ {p} : work'[q] = work[q]
    <3>1. CASE CopyFails(p)
      BY <1>0, <3>1 DEF CopyFails, User, Go, TypeOK
    <3>2. CASE DecreaseStores(p)
      BY <1>0, <3>2 DEF DecreaseStores, User, Go, TypeOK
    <3> QED
      BY <1>5, <3>1, <3>2
  <2>3. /\ \A g \in Frames \ {f} : refs'[g] = refs[g]
        /\ UNCHANGED <<frame, cow>>
    BY <1>0, <1>5, <2>1 DEF CopyFails, DecreaseStores, pgdirs, TypeOK
  <2>4. \A q \in Procs \ {p} : work[q].at \in {"last", "junk"} => refs'[work[q].f] = refs[work[q].f]
    BY <2>1, <2>3, OtherCounts
  <2> QED
    BY <2>2, <2>3, <2>4, NoCounter, CountingKept
<1>6. ASSUME NEW p \in Procs, Forked(p) \/ LastUser(p) \/ Freed(p) PROVE Counting'
  <2>1. /\ work'[p].f = None /\ work'[p].at = "user"
        /\ \A q \in Procs \ {p} : work'[q] = work[q]
    BY <1>0, <1>6 DEF Forked, LastUser, Freed, User, Go, TypeOK
  <2>2. UNCHANGED <<frame, refs>> /\ \A q \in Procs \ {p} : cow'[q] = cow[q]
    BY <1>0, <1>6 DEF Forked, LastUser, Freed, pgdirs, kmem, TypeOK
  <2> QED
    BY <1>1, <2>1, <2>2
<1>7. ASSUME UNCHANGED <<work, frame, cow, refs>> PROVE Counting'
  <2>1. \A q \in Procs : Counter(q) /\ Worker(q) /\ work[q].who \in Procs \cup {None}
    BY WorkOf DEF Inv, Counting, Workers
  <2>2. \A q \in Procs : Counter(q)'
    BY <1>7, <2>1, CounterKept
  <2> QED
    BY <2>2 DEF Counting
<1>8. ASSUME NEW p \in Procs, NEW i \in Pages, PageFault(p, i) PROVE Counting'
  <2>1. UNCHANGED <<frame, cow, refs>> /\ i \in cow[p] /\ frame[p][i] \in Frames
    BY <1>8, FaultLooks DEF pgdirs, kmem
  <2>2. /\ work'[p].at = "check" /\ work'[p].page = i /\ work'[p].f = frame[p][i]
        /\ \A q \in Procs \ {p} : work'[q] = work[q]
    <3>1. Go(p, [User EXCEPT !.at = "check", !.page = i, !.f = frame[p][i]])
      BY <1>8, FaultLooks
    <3> QED
      BY <1>0, <3>1 DEF User, Go, TypeOK
  <2>3. Counter(p)'
    BY <1>0, <2>1, <2>2 DEF Counter
  <2> QED
    BY <2>1, <2>2, <2>3, CountingKept
<1>19. ASSUME NEW p \in Procs, LooksAgain(p) PROVE Counting'
  <2>1. PICK f \in Frames : f = work[p].f /\ work[p].at = "check"
    BY <1>19, WorkFrame DEF LooksAgain, At, Places
  <2>2. /\ work'[p].at = IF refs[f] = 1 THEN "last" ELSE "split"
        /\ work'[p].f = f /\ work'[p].page = work[p].page
        /\ \A q \in Procs \ {p} : work'[q] = work[q]
    BY <1>0, <1>19, <2>1 DEF LooksAgain, Go, TypeOK
  <2>3. UNCHANGED <<frame, cow, refs>>
    BY <1>19 DEF LooksAgain, pgdirs, kmem
  <2>4. Counter(p)'
    BY <1>0, <2>1, <2>2, <2>3 DEF Counter
  <2> QED
    BY <2>2, <2>3, <2>4, CountingKept
<1>9. ASSUME NEW p \in Procs, CopyOnWrite(p) PROVE Counting'
  <2>1. PICK i \in Pages, f \in Frames :
          /\ i = work[p].page /\ f = work[p].f /\ f = frame[p][i] /\ i \in Mapped(p)
          /\ work[p].at = "split" /\ state[p] = "running"
    BY <1>0, <1>9, WorkOf, WorkFrame DEF CopyOnWrite, At, Counter, Table, Places
  <2>2. PICK h \in Frames : h = Head(freelist) /\ OnList(h)
    BY <1>9, FirstFree DEF CopyOnWrite
  <2>3. /\ \A g \in Frames \ {h} : refs'[g] = refs[g]
        /\ \A q \in Procs \ {p} : frame'[q] = frame[q] /\ cow'[q] = cow[q]
    BY <1>0, <1>9, <2>1, <2>2 DEF CopyOnWrite, TypeOK
  <2>5. /\ work'[p].at = "drop" /\ work'[p].f = f
        /\ \A q \in Procs \ {p} : work'[q] = work[q]
    BY <1>0, <1>9, <2>1 DEF CopyOnWrite, User, Go, TypeOK
  <2>6. work[p].who = None
    BY <1>0, <2>1 DEF Worker, Sharing
  <2>7. \A q \in Procs \ {p} : work[q].who # p
    BY <2>1, <2>6, Apart
  <2>8. \A q \in Procs \ {p} : work[q].at \in {"last", "junk"} => refs'[work[q].f] = refs[work[q].f]
    BY <2>2, <2>3, OtherCounts
  <2>9. Counter(p)'
    BY <1>0, <2>1, <2>5 DEF Counter
  <2> QED
    BY <1>0, <2>3, <2>5, <2>7, <2>8, <2>9, CountingKept
<1>10. ASSUME NEW p \in Procs, DecreaseLoads(p) PROVE Counting'
  <2>1. PICK f \in Frames : f = work[p].f /\ work[p].at = "drop"
    BY <1>10, WorkFrame DEF DecreaseLoads, At, Places
  <2>2. refs[f] > 1
    BY <1>10, <2>1 DEF DecreaseLoads, Acts
  <2>3. /\ work'[p].at = "dropped" /\ work'[p].f = f /\ work'[p].reg = refs[f]
        /\ \A q \in Procs \ {p} : work'[q] = work[q]
    BY <1>0, <1>10, <2>1 DEF DecreaseLoads, Go, TypeOK
  <2>4. UNCHANGED <<frame, cow, refs>>
    BY <1>10 DEF DecreaseLoads, pgdirs, kmem
  <2>5. Counter(p)'
    BY <1>0, <2>1, <2>2, <2>3, <2>4 DEF Counter
  <2> QED
    BY <2>3, <2>4, <2>5, CountingKept
<1>11. ASSUME NEW p \in Procs, KfreeLoads(p) PROVE Counting'
  <2>1. PICK c \in Procs, f \in Frames : c = work[p].who /\ f = work[p].f /\ work[p].at = "sub"
    BY <1>0, <1>11, WorkFrame DEF KfreeLoads, At, Worker, Sharing, Places
  <2>2. refs[f] > 1
    BY <1>11, <2>1 DEF KfreeLoads, Acts
  <2>3. /\ work'[p].at = "subbed" /\ work'[p].f = f /\ work'[p].reg = refs[f]
        /\ work'[p].who = c /\ work'[p].keep = work[p].keep
        /\ \A q \in Procs \ {p} : work'[q] = work[q]
    BY <1>0, <1>11, <2>1 DEF KfreeLoads, Go, TypeOK
  <2>4. UNCHANGED <<frame, cow, refs>>
    BY <1>11 DEF KfreeLoads, pgdirs, kmem
  <2>5. ToFree(p)' = ToFree(p) /\ NextToFree(p)' = NextToFree(p)
    BY <2>1, <2>3, <2>4, MappedKept DEF ToFree, NextToFree
  <2>6. Counter(p)'
    BY <1>0, <2>1, <2>2, <2>3, <2>4, <2>5 DEF Counter
  <2> QED
    BY <2>3, <2>4, <2>6, CountingKept
<1>12. ASSUME NEW p \in Procs, Grow(p) \/ GrowFails(p) PROVE Counting'
  <2>1. PICK h \in Frames : h = Head(freelist) /\ OnList(h)
    BY <1>12, FirstFree DEF Grow, GrowFails
  <2>2. /\ work[p].at = "user" /\ state[p] = "running" /\ UNCHANGED <<work, cow>>
        /\ \A g \in Frames \ {h} : refs'[g] = refs[g]
        /\ \A q \in Procs \ {p} : frame'[q] = frame[q]
    BY <1>0, <1>12, <2>1 DEF Grow, GrowFails, At, pgdirs, TypeOK
  <2>3. work[p].who = None /\ work[p].f = None
    BY <1>0, <2>2 DEF Worker, Counter
  <2>4. \A q \in Procs \ {p} : work[q].who # p
    BY <2>2, <2>3, Apart
  <2>5. \A q \in Procs \ {p} : work[q].at \in {"last", "junk"} => refs'[work[q].f] = refs[work[q].f]
    BY <2>1, <2>2, OtherCounts
  <2> QED
    BY <1>0, <2>2, <2>3, <2>4, <2>5, NoCounter, CountingKept
<1>13. ASSUME NEW p \in Procs, NEW n \in Pages, Shrink(p, n) PROVE Counting'
  <2>1. /\ work'[p].f = None /\ work'[p].at = "free"
        /\ \A q \in Procs \ {p} : work'[q] = work[q]
    BY <1>0, <1>13 DEF Shrink, User, Go, TypeOK
  <2>2. UNCHANGED <<frame, cow, refs>>
    BY <1>13 DEF Shrink, pgdirs, kmem
  <2> QED
    BY <1>1, <2>1, <2>2
<1>14. ASSUME NEW p \in Procs, Kfree(p) PROVE Counting'
  <2>1. PICK c \in Procs, f \in Frames : /\ c = work[p].who /\ work[p].at = "free"
                                         /\ f = frame[c][NextToFree(p)] /\ ToFree(p) # {}
    BY <1>14, FreeFacts, KfreeLooks DEF Freeing
  <2>2. UNCHANGED <<frame, cow, refs>>
    BY <1>14, KfreeLooks DEF pgdirs, kmem
  <2>3. PICK place \in {"sub", "junk"} : /\ Go(p, [work[p] EXCEPT !.at = place, !.f = f])
                                         /\ place = "junk" => refs[f] = 1
    BY <1>14, <2>1, KfreeLooks
  <2>4. /\ work'[p].at = place /\ work'[p].f = f /\ work'[p].who = c
        /\ work'[p].keep = work[p].keep
        /\ \A q \in Procs \ {p} : work'[q] = work[q]
    BY <1>0, <2>1, <2>3 DEF Go, TypeOK
  <2>5. ToFree(p)' = ToFree(p) /\ NextToFree(p)' = NextToFree(p)
    BY <2>1, <2>2, <2>4, MappedKept DEF ToFree, NextToFree
  <2>6. Counter(p)'
    BY <1>0, <2>1, <2>2, <2>3, <2>4, <2>5 DEF Counter
  <2> QED
    BY <2>2, <2>4, <2>6, CountingKept
<1>15. ASSUME NEW p \in Procs, KfreeStores(p) PROVE Counting'
  <2>1. PICK c \in Procs, f \in Frames : c = work[p].who /\ f = work[p].f
    BY <1>0, <1>15, WorkFrame DEF KfreeStores, At, Worker, Sharing, Places
  <2>2. /\ work'[p].f = None /\ work'[p].at = "free"
        /\ \A q \in Procs \ {p} : work'[q] = work[q]
    BY <1>0, <1>15 DEF KfreeStores, FreesOn, User, Go, TypeOK
  <2>3. /\ \A g \in Frames \ {f} : refs'[g] = refs[g]
        /\ \A q \in Procs \ {c} : frame'[q] = frame[q] /\ cow'[q] = cow[q]
    BY <1>0, <1>15, <2>1 DEF KfreeStores, Unmap, TypeOK
  <2>4. /\ \A q \in Procs \ {p} : work[q].who # c
        /\ \A q \in Procs \ {p} : work[q].f # None => q # c
    BY <2>1, Apart
  <2>5. \A q \in Procs \ {p} : work[q].at \in {"last", "junk"} => refs'[work[q].f] = refs[work[q].f]
    BY <2>1, <2>3, OtherCounts
  <2> QED
    BY <1>0, <2>2, <2>3, <2>4, <2>5, NoCounter, CountingKept
<1>16. ASSUME NEW p \in Procs, KfreeLast(p) PROVE Counting'
  <2>1. PICK c \in Procs : c = work[p].who
    BY <1>0, <1>16 DEF KfreeLast, At, Worker, Sharing
  <2>2. /\ work'[p].f = None /\ work'[p].at = "free"
        /\ \A q \in Procs \ {p} : work'[q] = work[q]
    BY <1>0, <1>16 DEF KfreeLast, FreesOn, User, Go, TypeOK
  <2>3. /\ UNCHANGED refs
        /\ \A q \in Procs \ {c} : frame'[q] = frame[q] /\ cow'[q] = cow[q]
    BY <1>0, <1>16, <2>1 DEF KfreeLast, Unmap, TypeOK
  <2>4. /\ \A q \in Procs \ {p} : work[q].who # c
        /\ \A q \in Procs \ {p} : work[q].f # None => q # c
    BY <2>1, Apart
  <2> QED
    BY <1>0, <2>2, <2>3, <2>4, NoCounter, CountingKept
<1>17. ASSUME NEW p \in Procs,
              \/ \E i \in Pages, d \in Data : Write(p, i, d)
              \/ CopyToNull(p)
              \/ Exit(p)
       PROVE  UNCHANGED <<work, frame, cow, refs>>
  BY <1>17, Exiting DEF Write, CopyToNull, pgdirs, kmem
<1>18. CASE UNCHANGED vars
  BY <1>7, <1>18 DEF vars, pgdirs, kmem
<1> QED
  BY <1>2, <1>3, <1>4, <1>5, <1>6, <1>7, <1>8, <1>9, <1>10, <1>11, <1>12,
     <1>13, <1>14, <1>15, <1>16, <1>17, <1>18, <1>19 DEF Next

-----------------------------------------------------------------------------
(* The count of each page. *)

Count(f) ==
  IF OnList(f)
  THEN Users(f) = {} /\ leaked[f] = 0 /\ ~Busy(f)
  ELSE /\ refs[f] = (Cardinality(Users(f)) + Cardinality(Droppers(f))) + leaked[f]
       /\ refs[f] > 0

(* Who takes itself off f is at work on f. *)
LEMMA DropperBusy ==
  ASSUME NEW f \in Frames, ~Busy(f)
  PROVE  Droppers(f) = {}
  BY DEF Droppers, Busy

(* One user or one who takes itself off, more or less. *)
LEMMA CountMore ==
  ASSUME NEW S, IsFiniteSet(S), NEW x, x \notin S
  PROVE  Cardinality(S \cup {x}) = Cardinality(S) + 1
  BY FS_AddElement

LEMMA CountLess ==
  ASSUME NEW S, IsFiniteSet(S), NEW x \in S
  PROVE  Cardinality(S \ {x}) = Cardinality(S) - 1
  BY FS_RemoveElement

LEMMA ListKept ==
  ASSUME Inv, UNCHANGED freelist, \A f \in Frames : Count(f)'
  PROVE  Counts'
  BY DEF Inv, Counts, Count, OnList

LEMMA CountKept ==
  ASSUME Inv, NEW f \in Frames, OnList(f)' <=> OnList(f),
         Users(f)' = Users(f), leaked'[f] = leaked[f], refs'[f] = refs[f] \/ OnList(f),
         Droppers(f)' = Droppers(f), Busy(f)' => Busy(f) \/ ~OnList(f)
  PROVE  Count(f)'
  BY DEF Inv, Counts, Count

(* Who takes itself off f stays the same. *)
LEMMA DroppersKept ==
  ASSUME NEW p \in Procs, NEW f \in Frames, \A q \in Procs \ {p} : work'[q] = work[q],
         p \in Droppers(f)' <=> p \in Droppers(f)
  PROVE  Droppers(f)' = Droppers(f)
  BY DEF Droppers

(* A step of p that changes only what p works at. *)
LEMMA CountsKept ==
  ASSUME Inv, NEW p \in Procs, UNCHANGED <<freelist, frame, leaked, refs>>,
         \A q \in Procs \ {p} : work'[q] = work[q],
         \/ work'[p].f = None
         \/ work'[p].f \in Frames /\ ~OnList(work'[p].f),
         \/ work'[p].at \notin {"drop", "dropped"} /\ work[p].at \notin {"drop", "dropped"}
         \/ /\ work'[p].at \in {"drop", "dropped"} /\ work[p].at \in {"drop", "dropped"}
            /\ work'[p].f = work[p].f
  PROVE  Counts'
<1>1. ASSUME NEW f \in Frames PROVE Count(f)'
  <2>1. OnList(f)' <=> OnList(f)
    BY DEF OnList
  <2>2. Users(f)' = Users(f)
    BY DEF Users
  <2>3. p \in Droppers(f)' <=> p \in Droppers(f)
    BY DEF Droppers
  <2>4. Droppers(f)' = Droppers(f)
    BY <2>3, DroppersKept
  <2>5. Busy(f)' => Busy(f) \/ ~OnList(f)
    BY FrameAssumption DEF Busy
  <2> QED
    BY <2>1, <2>2, <2>4, <2>5, CountKept
<1> QED
  BY <1>1, ListKept

(* A page goes from the free list to page i of p.  Where page i was mapped *)
(* before, p begins to take itself off.                                    *)
LEMMA CountsTaken ==
  ASSUME Inv, freelist # <<>>, freelist' = Tail(freelist),
         NEW p \in Procs, NEW i \in Pages,
         frame' = [frame EXCEPT ![p][i] = Head(freelist)],
         refs' = [refs EXCEPT ![Head(freelist)] = 1], UNCHANGED leaked,
         \A q \in Procs \ {p} : work'[q] = work[q],
         work'[p].f = work[p].f,
         \A f \in Frames :
           IF <<p, i>> \in Users(f)
           THEN Droppers(f)' = Droppers(f) \cup {p} /\ p \notin Droppers(f)
           ELSE Droppers(f)' = Droppers(f)
  PROVE  Counts'
<1>1. PICK h \in Frames : h = Head(freelist)
  BY FirstFree
<1>2. /\ OnList(h) /\ Users(h) = {} /\ leaked[h] = 0 /\ ~Busy(h)
      /\ \A g \in Frames : OnList(g)' <=> OnList(g) /\ g # h
      /\ \A j, k \in 1..Len(freelist') : freelist'[j] = freelist'[k] => j = k
  BY <1>1, FirstFree DEF OnList
<1>3. \A f \in Frames : /\ Users(f)' = IF f = h THEN Users(f) \cup {<<p, i>>}
                                                ELSE Users(f) \ {<<p, i>>}
                        /\ refs'[f] = IF f = h THEN 1 ELSE refs[f]
  BY <1>1, UsersSet DEF Inv, TypeOK
<1>4. \A f \in Frames : Busy(f)' <=> Busy(f)
  BY DEF Busy
<1>5. Count(h)'
  <2>1. Droppers(h)' = {}
    BY <1>2, <1>4, DropperBusy
  <2>2. Users(h)' = {<<p, i>>}
    BY <1>2, <1>3
  <2>3. Cardinality(Users(h)') = 1 /\ Cardinality(Droppers(h)') = 0
    BY <2>1, <2>2, FS_Singleton, FS_EmptySet
  <2>4. refs'[h] = 1 /\ leaked'[h] = 0 /\ ~OnList(h)'
    BY <1>2, <1>3
  <2> QED
    BY <2>3, <2>4 DEF Count
<1>6. ASSUME NEW f \in Frames \ {h}, OnList(f) PROVE Count(f)'
  <2>1. Count(f)
    BY DEF Inv, Counts, Count
  <2> QED
    BY <1>2, <1>3, <1>4, <1>6, <2>1 DEF Count
<1>7. ASSUME NEW f \in Frames \ {h}, ~OnList(f) PROVE Count(f)'
  <2>1. PICK k \in Nat, m \in Nat : k = Cardinality(Users(f)) /\ m = Cardinality(Droppers(f))
    BY UsersFinite, DroppersFinite
  <2>2. refs[f] = (k + m) + leaked[f] /\ refs[f] > 0 /\ leaked[f] \in Nat
    BY <1>7, <2>1 DEF Inv, Counts, TypeOK
  <2>3. Users(f)' = Users(f) \ {<<p, i>>} /\ refs'[f] = refs[f] /\ ~OnList(f)'
        /\ leaked'[f] = leaked[f]
    BY <1>2, <1>3, <1>7
  <2>4. CASE <<p, i>> \in Users(f)
    <3>1. Droppers(f)' = Droppers(f) \cup {p} /\ p \notin Droppers(f)
      BY <2>4
    <3>2. Cardinality(Users(f)') = k - 1
      BY <2>1, <2>3, <2>4, UsersFinite, CountLess
    <3>3. Cardinality(Droppers(f)') = m + 1
      BY <2>1, <3>1, DroppersFinite, CountMore
    <3>4. refs'[f] = ((k - 1) + (m + 1)) + leaked'[f] /\ refs'[f] > 0
      BY <2>2, <2>3
    <3> QED
      BY <2>3, <3>2, <3>3, <3>4 DEF Count
  <2>5. CASE <<p, i>> \notin Users(f)
    <3>1. Droppers(f)' = Droppers(f) /\ Users(f)' = Users(f)
      BY <2>3, <2>5
    <3> QED
      BY <2>1, <2>2, <2>3, <3>1 DEF Count
  <2> QED
    BY <2>4, <2>5
<1> QED
  BY <1>2, <1>5, <1>6, <1>7 DEF Counts, Count

LEMMA CountsStep == ASSUME Inv, ~outdated', [Next]_vars PROVE Counts'
<1>0. /\ TypeOK /\ None \notin Procs /\ None \notin Frames
      /\ \A q \in Procs : Counter(q) /\ Worker(q) /\ Table(q)
      /\ \A f \in Frames : Count(f)
  BY InitAssumption, FrameAssumption DEF Inv, Workers, Counting, Tables, Counts, Count
<1>1. ASSUME NEW p \in Procs, NEW c \in Procs, Fork(p, c) PROVE Counts'
  <2>1. /\ work'[p].f = None /\ work'[p].at = "copy"
        /\ \A q \in Procs \ {p} : work'[q] = work[q]
    BY <1>0, <1>1 DEF Fork, User, Go, TypeOK
  <2>2. UNCHANGED <<freelist, frame, leaked, refs>> /\ work[p].at = "user"
    BY <1>1 DEF Fork, At, pgdirs, kmem
  <2> QED
    BY <2>1, <2>2, CountsKept
<1>2. ASSUME NEW p \in Procs, NEW c \in Procs, Wait(p, c) PROVE Counts'
  <2>1. /\ work'[p].f = None /\ work'[p].at = "free"
        /\ \A q \in Procs \ {p} : work'[q] = work[q]
    BY <1>0, <1>2 DEF Wait, User, Go, TypeOK
  <2>2. UNCHANGED <<freelist, frame, leaked, refs>> /\ work[p].at = "user"
    BY <1>2 DEF Wait, At, pgdirs, kmem
  <2> QED
    BY <2>1, <2>2, CountsKept
<1>3. ASSUME NEW p \in Procs, CopyPage(p) PROVE Counts'
  <2>1. PICK c \in Procs : c = work[p].who /\ work[p].at = "copy"
    BY <1>3, CopyFacts DEF CopyPage, At, Copying
  <2>2. PICK f \in Frames : f = frame[p][NextPage(c)] /\ ~OnList(f)
    BY <1>3, <2>1, NextMapped, Used DEF CopyPage, Copying
  <2>3. /\ work'[p].at = "inc" /\ work'[p].f = f
        /\ \A q \in Procs \ {p} : work'[q] = work[q]
    BY <1>0, <1>3, <2>1, <2>2 DEF CopyPage, Go, TypeOK
  <2>4. UNCHANGED <<freelist, frame, leaked, refs>>
    BY <1>3 DEF CopyPage, kmem
  <2> QED
    BY <2>1, <2>2, <2>3, <2>4, CountsKept
<1>4. ASSUME NEW p \in Procs, CopiedPage(p) \/ CopyFails(p) PROVE Counts'
  <2>1. PICK c \in Procs, f \in Frames :
          /\ c = work[p].who /\ f = work[p].f /\ work[p].at = "inc" /\ c # p
          /\ ~OnList(f) /\ Mapped(c) = 0..NextPage(c) - 1 /\ NextPage(c) \in Nat
    BY <1>4, CopyFacts, WorkFrame DEF CopiedPage, CopyFails, At, Copying, Places
  <2>2. PICK n \in Pages : n = NextPage(c) /\ n \in Mapped(p) /\ f = frame[p][n] /\ n \in Nat
    BY <1>0, <2>1 DEF Counter, Table, Mapped
  <2>3. PICK k \in Nat, m \in Nat, n0 \in Nat :
          /\ k = Cardinality(Users(f)) /\ m = Cardinality(Droppers(f)) /\ n0 = leaked[f]
          /\ refs[f] = (k + m) + n0 /\ refs[f] > 0 /\ work[p].reg = refs[f]
    <3>1. Cardinality(Users(f)) \in Nat /\ Cardinality(Droppers(f)) \in Nat
          /\ leaked[f] \in Nat
      BY <1>0, UsersFinite, DroppersFinite DEF TypeOK
    <3>2. work[p].reg = refs[f]
      BY <1>4, <2>1 DEF CopiedPage, CopyFails, Acts
    <3> QED
      BY <1>0, <2>1, <3>1, <3>2 DEF Count
  <2>4. /\ work'[p].f = None /\ work'[p].at \in {"copy", "free"}
        /\ \A q \in Procs \ {p} : work'[q] = work[q]
    <3>1. CASE CopiedPage(p)
      BY <1>0, <3>1 DEF CopiedPage, User, Go, TypeOK
    <3>2. CASE CopyFails(p)
      BY <1>0, <3>2 DEF CopyFails, User, Go, TypeOK
    <3> QED
      BY <1>4, <3>1, <3>2
  <2>5. /\ UNCHANGED freelist
        /\ \A g \in Frames : refs'[g] = IF g = f THEN refs[f] + 1 ELSE refs[g]
    BY <1>0, <1>4, <2>1, <2>3 DEF CopiedPage, CopyFails, Increased, TypeOK
  <2>6. \A g \in Frames : /\ OnList(g)' <=> OnList(g)
                          /\ Droppers(g)' = Droppers(g)
                          /\ Busy(g)' => Busy(g)
    <3>1. \A g \in Frames : p \notin Droppers(g) /\ p \notin Droppers(g)'
      BY <2>1, <2>4 DEF Droppers
    <3>2. \A g \in Frames : Droppers(g)' = Droppers(g)
      BY <2>4, <3>1, DroppersKept
    <3> QED
      BY <1>0, <2>4, <2>5, <3>2 DEF OnList, Busy
  <2>7. \/ (Users(f)' = Users(f) /\ leaked'[f] = n0 + 1)
        \/ (Cardinality(Users(f)') = k + 1 /\ leaked'[f] = n0)
    <3>1. CASE CopiedPage(p)
      <4>1. frame' = [frame EXCEPT ![c][n] = f] /\ leaked' = leaked
        BY <2>1, <2>2, <3>1 DEF CopiedPage
      <4>2. Users(f)' = Users(f) \cup {<<c, n>>}
        BY <1>0, <4>1, UsersSet
      <4>3. <<c, n>> \notin Users(f)
        <5>1. n \notin Mapped(c)
          BY <2>1, <2>2
        <5> QED
          BY <1>0, <5>1 DEF Users, Mapped
      <4> QED
        BY <2>3, <4>1, <4>2, <4>3, UsersFinite, CountMore
    <3>2. CASE CopyFails(p)
      <4>1. UNCHANGED frame /\ leaked' = [leaked EXCEPT ![f] = @ + 1]
        BY <2>1, <3>2 DEF CopyFails, pgdirs
      <4>2. Users(f)' = Users(f)
        BY <4>1 DEF Users
      <4>3. leaked'[f] = n0 + 1
        BY <1>0, <2>3, <4>1 DEF TypeOK
      <4> QED
        BY <4>2, <4>3
    <3> QED
      BY <1>4, <3>1, <3>2
  <2>8. \A g \in Frames \ {f} : Users(g)' = Users(g) /\ leaked'[g] = leaked[g]
    <3>1. CASE CopiedPage(p)
      <4>1. frame' = [frame EXCEPT ![c][n] = f] /\ leaked' = leaked
        BY <2>1, <2>2, <3>1 DEF CopiedPage
      <4>2. \A g \in Frames \ {f} : Users(g)' = Users(g) \ {<<c, n>>}
        BY <1>0, <4>1, UsersSet
      <4>3. n \notin Mapped(c)
        BY <2>1, <2>2
      <4>4. \A g \in Frames : <<c, n>> \notin Users(g)
        BY <1>0, <4>3 DEF Users, Mapped
      <4> QED
        BY <4>1, <4>2, <4>4
    <3>2. CASE CopyFails(p)
      <4>1. UNCHANGED frame /\ leaked' = [leaked EXCEPT ![f] = @ + 1]
        BY <2>1, <3>2 DEF CopyFails, pgdirs
      <4> QED
        BY <1>0, <4>1 DEF Users, TypeOK
    <3> QED
      BY <1>4, <3>1, <3>2
  <2>9. Count(f)'
    <3>1. refs'[f] = ((k + m) + n0) + 1 /\ refs'[f] > 0
      BY <2>3, <2>5
    <3>2. ~OnList(f)' /\ Cardinality(Droppers(f)') = m
      BY <2>1, <2>3, <2>6
    <3>3. CASE Users(f)' = Users(f) /\ leaked'[f] = n0 + 1
      <4>1. refs'[f] = (k + m) + (n0 + 1)
        BY <3>1
      <4> QED
        BY <2>3, <3>1, <3>2, <3>3, <4>1 DEF Count
    <3>4. CASE Cardinality(Users(f)') = k + 1 /\ leaked'[f] = n0
      <4>1. refs'[f] = ((k + 1) + m) + n0
        BY <3>1
      <4> QED
        BY <3>1, <3>2, <3>4, <4>1 DEF Count
    <3> QED
      BY <2>7, <3>3, <3>4
  <2>10. \A g \in Frames \ {f} : Count(g)'
    BY <2>5, <2>6, <2>8, CountKept
  <2> QED
    BY <2>5, <2>9, <2>10, ListKept
<1>5. ASSUME NEW p \in Procs, Forked(p) \/ Freed(p) PROVE Counts'
  <2>1. /\ work'[p].f = None /\ work'[p].at = "user"
        /\ \A q \in Procs \ {p} : work'[q] = work[q]
    BY <1>0, <1>5 DEF Forked, Freed, User, Go, TypeOK
  <2>2. UNCHANGED <<freelist, frame, leaked, refs>> /\ work[p].at \in {"copy", "free"}
    BY <1>5 DEF Forked, Freed, At, pgdirs, kmem
  <2> QED
    BY <2>1, <2>2, CountsKept
<1>6. ASSUME UNCHANGED <<freelist, frame, leaked, refs, work>> PROVE Counts'
  <2>1. ASSUME NEW f \in Frames PROVE Count(f)'
    <3>1. /\ OnList(f)' <=> OnList(f)
          /\ Users(f)' = Users(f)
          /\ Droppers(f)' = Droppers(f)
          /\ Busy(f)' <=> Busy(f)
      BY <1>6 DEF OnList, Users, Droppers, Busy
    <3> QED
      BY <1>6, <3>1, CountKept
  <2> QED
    BY <1>6, <2>1, ListKept
<1>7. ASSUME NEW p \in Procs, NEW i \in Pages, PageFault(p, i) PROVE Counts'
  <2>1. UNCHANGED <<freelist, frame, leaked, refs>> /\ work[p].at = "user"
        /\ frame[p][i] \in Frames /\ ~OnList(frame[p][i])
    BY <1>7, FaultLooks DEF pgdirs, kmem
  <2>2. Go(p, [User EXCEPT !.at = "check", !.page = i, !.f = frame[p][i]])
    BY <1>7, FaultLooks
  <2>3. /\ work'[p].at = "check" /\ work'[p].f = frame[p][i]
        /\ \A q \in Procs \ {p} : work'[q] = work[q]
    BY <1>0, <2>2 DEF User, Go, TypeOK
  <2> QED
    BY <2>1, <2>3, CountsKept
<1>20. ASSUME NEW p \in Procs, LooksAgain(p) PROVE Counts'
  <2>1. work[p].f \in Frames /\ ~OnList(work[p].f) /\ UNCHANGED <<freelist, frame, leaked, refs>>
        /\ work[p].at = "check"
    BY <1>20, WorkFrame DEF LooksAgain, At, Places, pgdirs, kmem
  <2>2. /\ work'[p].f = work[p].f /\ work'[p].at \in {"last", "split"}
        /\ \A q \in Procs \ {p} : work'[q] = work[q]
    BY <1>0, <1>20 DEF LooksAgain, Go, TypeOK
  <2> QED
    BY <2>1, <2>2, CountsKept
<1>8. ASSUME NEW p \in Procs, LastUser(p) PROVE Counts'
  <2>1. /\ work'[p].f = None /\ work'[p].at = "user"
        /\ \A q \in Procs \ {p} : work'[q] = work[q]
    BY <1>0, <1>8 DEF LastUser, User, Go, TypeOK
  <2>2. UNCHANGED <<freelist, frame, leaked, refs>> /\ work[p].at = "last"
    BY <1>8 DEF LastUser, At, kmem
  <2> QED
    BY <2>1, <2>2, CountsKept
<1>9. ASSUME NEW p \in Procs, DecreaseLoads(p) \/ KfreeLoads(p) PROVE Counts'
  <2>1. work[p].f \in Frames /\ ~OnList(work[p].f) /\ UNCHANGED <<freelist, frame, leaked, refs>>
    BY <1>9, WorkFrame DEF DecreaseLoads, KfreeLoads, At, Places, pgdirs, kmem
  <2>2. CASE DecreaseLoads(p)
    <3>1. /\ work'[p].f = work[p].f /\ work'[p].at = "dropped" /\ work[p].at = "drop"
          /\ \A q \in Procs \ {p} : work'[q] = work[q]
      BY <1>0, <2>2 DEF DecreaseLoads, At, Go, TypeOK
    <3> QED
      BY <2>1, <3>1, CountsKept
  <2>3. CASE KfreeLoads(p)
    <3>1. /\ work'[p].f = work[p].f /\ work'[p].at = "subbed" /\ work[p].at = "sub"
          /\ \A q \in Procs \ {p} : work'[q] = work[q]
      BY <1>0, <2>3 DEF KfreeLoads, At, Go, TypeOK
    <3> QED
      BY <2>1, <3>1, CountsKept
  <2> QED
    BY <1>9, <2>2, <2>3
<1>10. ASSUME NEW p \in Procs, DecreaseStores(p) PROVE Counts'
  <2>1. PICK f \in Frames : f = work[p].f /\ work[p].at = "dropped" /\ ~OnList(f)
    BY <1>10, WorkFrame DEF DecreaseStores, At, Places
  <2>2. /\ work'[p].f = None /\ work'[p].at = "user"
        /\ \A q \in Procs \ {p} : work'[q] = work[q]
    BY <1>0, <1>10 DEF DecreaseStores, User, Go, TypeOK
  <2>3. PICK k \in Nat, m \in Nat, n0 \in Nat :
          /\ k = Cardinality(Users(f)) /\ m = Cardinality(Droppers(f)) /\ n0 = leaked[f]
          /\ refs[f] = (k + m) + n0 /\ refs[f] > 1 /\ work[p].reg = refs[f]
    <3>1. Cardinality(Users(f)) \in Nat /\ Cardinality(Droppers(f)) \in Nat
          /\ leaked[f] \in Nat
      BY <1>0, UsersFinite, DroppersFinite DEF TypeOK
    <3>2. work[p].reg = refs[f] /\ work[p].reg > 1
      BY <1>0, <1>10, <2>1 DEF DecreaseStores, Acts, Counter
    <3> QED
      BY <1>0, <2>1, <3>1, <3>2 DEF Count
  <2>4. /\ UNCHANGED <<freelist, frame, leaked>>
        /\ \A g \in Frames : refs'[g] = IF g = f THEN refs[f] - 1 ELSE refs[g]
    BY <1>0, <1>10, <2>1, <2>3 DEF DecreaseStores, Decreased, pgdirs, TypeOK
  <2>5. /\ p \in Droppers(f) /\ Droppers(f)' = Droppers(f) \ {p}
        /\ \A g \in Frames \ {f} : Droppers(g)' = Droppers(g)
    BY <1>0, <2>1, <2>2 DEF Droppers
  <2>6. \A g \in Frames : /\ OnList(g)' <=> OnList(g)
                          /\ Users(g)' = Users(g)
                          /\ Busy(g)' => Busy(g)
    BY <1>0, <2>1, <2>2, <2>4 DEF OnList, Users, Busy
  <2>7. Count(f)'
    <3>1. Cardinality(Droppers(f)') = m - 1
      BY <2>3, <2>5, DroppersFinite, CountLess
    <3>2. refs'[f] = (k + (m - 1)) + n0 /\ refs'[f] > 0
      BY <2>3, <2>4
    <3> QED
      BY <2>1, <2>3, <2>4, <2>6, <3>1, <3>2 DEF Count
  <2>8. \A g \in Frames \ {f} : Count(g)'
    BY <2>4, <2>5, <2>6, CountKept
  <2> QED
    BY <2>4, <2>7, <2>8, ListKept
<1>11. ASSUME NEW p \in Procs, CopyOnWrite(p) PROVE Counts'
  <2>1. PICK i \in Pages, f \in Frames :
          /\ i = work[p].page /\ f = work[p].f /\ f = frame[p][i] /\ i \in Mapped(p)
          /\ work[p].at = "split"
    BY <1>0, <1>11, WorkOf, WorkFrame DEF CopyOnWrite, At, Counter, Table, Inv, Places
  <2>2. /\ freelist # <<>> /\ freelist' = Tail(freelist)
        /\ frame' = [frame EXCEPT ![p][i] = Head(freelist)]
        /\ refs' = [refs EXCEPT ![Head(freelist)] = 1] /\ UNCHANGED leaked
    BY <1>11, <2>1 DEF CopyOnWrite
  <2>3. /\ work'[p].f = f /\ work'[p].at = "drop"
        /\ \A q \in Procs \ {p} : work'[q] = work[q]
    BY <1>0, <1>11, <2>1 DEF CopyOnWrite, User, Go, TypeOK
  <2>4. p \notin Droppers(f) /\ Droppers(f)' = Droppers(f) \cup {p}
    BY <2>1, <2>3 DEF Droppers
  <2>5. \A g \in Frames \ {f} : Droppers(g)' = Droppers(g)
    BY <2>1, <2>3 DEF Droppers
  <2>6. \A g \in Frames : <<p, i>> \in Users(g) <=> g = f
    BY <2>1 DEF Users
  <2>7. \A g \in Frames : IF <<p, i>> \in Users(g)
                          THEN Droppers(g)' = Droppers(g) \cup {p} /\ p \notin Droppers(g)
                          ELSE Droppers(g)' = Droppers(g)
    BY <2>4, <2>5, <2>6
  <2>8. work'[p].f = work[p].f
    BY <2>1, <2>3
  <2> QED
    BY <2>2, <2>3, <2>7, <2>8, CountsTaken
<1>12. ASSUME NEW p \in Procs, Grow(p) PROVE Counts'
  <2>1. PICK n \in Pages : n = size[p] /\ n \in Nat /\ work[p].at = "user" /\ state[p] = "running"
    BY <1>0, <1>12, SizeAssumption DEF Grow, At, TypeOK, Pages
  <2>2. /\ freelist # <<>> /\ freelist' = Tail(freelist)
        /\ frame' = [frame EXCEPT ![p][n] = Head(freelist)]
        /\ refs' = [refs EXCEPT ![Head(freelist)] = 1] /\ UNCHANGED <<leaked, work>>
    BY <1>12, <2>1 DEF Grow
  <2>3. Mapped(p) = 0..n - 1
    BY <1>0, <2>1, AllMapped DEF Worker
  <2>4. n \notin Mapped(p)
    BY <2>1, <2>3
  <2>5. \A g \in Frames : <<p, n>> \notin Users(g) /\ Droppers(g)' = Droppers(g)
    BY <1>0, <2>2, <2>4 DEF Users, Mapped, Droppers
  <2> QED
    BY <2>2, <2>5, CountsTaken
<1>13. ASSUME NEW p \in Procs, GrowFails(p) PROVE Counts'
  <2>1. PICK h \in Frames : h = Head(freelist) /\ OnList(h)
    BY <1>13, FirstFree DEF GrowFails
  <2>2. /\ UNCHANGED <<freelist, frame, leaked, work>>
        /\ \A g \in Frames \ {h} : refs'[g] = refs[g]
    BY <1>0, <1>13, <2>1 DEF GrowFails, pgdirs, TypeOK
  <2>3. ASSUME NEW f \in Frames PROVE Count(f)'
    <3>1. /\ OnList(f)' <=> OnList(f)
          /\ Users(f)' = Users(f)
          /\ Droppers(f)' = Droppers(f)
          /\ Busy(f)' <=> Busy(f)
      BY <2>2 DEF OnList, Users, Droppers, Busy
    <3> QED
      BY <2>1, <2>2, <3>1, CountKept
  <2> QED
    BY <2>2, <2>3, ListKept
<1>14. ASSUME NEW p \in Procs, NEW n \in Pages, Shrink(p, n) PROVE Counts'
  <2>1. /\ work'[p].f = None /\ work'[p].at = "free"
        /\ \A q \in Procs \ {p} : work'[q] = work[q]
    BY <1>0, <1>14 DEF Shrink, User, Go, TypeOK
  <2>2. UNCHANGED <<freelist, frame, leaked, refs>> /\ work[p].at = "user"
    BY <1>14 DEF Shrink, At, pgdirs, kmem
  <2> QED
    BY <2>1, <2>2, CountsKept
<1>15. ASSUME NEW p \in Procs, Kfree(p) PROVE Counts'
  <2>1. PICK f \in Frames : /\ f = frame[work[p].who][NextToFree(p)] /\ ~OnList(f)
                            /\ work[p].at = "free"
    BY <1>15, KfreeLooks
  <2>2. UNCHANGED <<freelist, frame, leaked, refs>>
    BY <1>15, KfreeLooks DEF pgdirs, kmem
  <2>3. PICK place \in {"sub", "junk"} : Go(p, [work[p] EXCEPT !.at = place, !.f = f])
    BY <1>15, <2>1, KfreeLooks
  <2>4. /\ work'[p].at = place /\ work'[p].f = f
        /\ \A q \in Procs \ {p} : work'[q] = work[q]
    BY <1>0, <2>3 DEF Go, TypeOK
  <2> QED
    BY <2>1, <2>2, <2>4, CountsKept
<1>16. ASSUME NEW p \in Procs, KfreeStores(p) PROVE Counts'
  <2>1. PICK c \in Procs, i \in Pages, f \in Frames :
          /\ c = work[p].who /\ i = NextToFree(p) /\ f = frame[c][i] /\ f = work[p].f
          /\ work[p].at = "subbed" /\ i \in Mapped(c)
    BY <1>0, <1>16, FreeFacts, WorkFrame DEF KfreeStores, At, Freeing, Counter, Places
  <2>2. ~OnList(f) /\ <<c, i>> \in Users(f)
    BY <2>1, Used
  <2>3. PICK k \in Nat, m \in Nat, n0 \in Nat :
          /\ k = Cardinality(Users(f)) /\ m = Cardinality(Droppers(f)) /\ n0 = leaked[f]
          /\ refs[f] = (k + m) + n0 /\ refs[f] > 1 /\ work[p].reg = refs[f]
    <3>1. Cardinality(Users(f)) \in Nat /\ Cardinality(Droppers(f)) \in Nat
          /\ leaked[f] \in Nat
      BY <1>0, UsersFinite, DroppersFinite DEF TypeOK
    <3>2. work[p].reg = refs[f] /\ work[p].reg > 1
      BY <1>0, <1>16, <2>1 DEF KfreeStores, Acts, Counter
    <3> QED
      BY <1>0, <2>2, <3>1, <3>2 DEF Count
  <2>4. /\ work'[p].f = None /\ work'[p].at = "free"
        /\ \A q \in Procs \ {p} : work'[q] = work[q]
    BY <1>0, <1>16 DEF KfreeStores, FreesOn, User, Go, TypeOK
  <2>5. /\ UNCHANGED <<freelist, leaked>> /\ frame' = [frame EXCEPT ![c][i] = None]
        /\ \A g \in Frames : refs'[g] = IF g = f THEN refs[f] - 1 ELSE refs[g]
    BY <1>0, <1>16, <2>1, <2>3 DEF KfreeStores, Unmap, TypeOK
  <2>6. \A g \in Frames : Users(g)' = IF g = f THEN Users(f) \ {<<c, i>>} ELSE Users(g)
    <3>1. \A g \in Frames : Users(g)' = Users(g) \ {<<c, i>>}
      BY <1>0, <2>5, UsersCleared
    <3>2. \A g \in Frames \ {f} : <<c, i>> \notin Users(g)
      BY <2>1 DEF Users
    <3> QED
      BY <3>1, <3>2
  <2>7. \A g \in Frames : /\ OnList(g)' <=> OnList(g)
                          /\ Droppers(g)' = Droppers(g)
                          /\ Busy(g)' => Busy(g)
    <3>1. \A g \in Frames : p \notin Droppers(g) /\ p \notin Droppers(g)'
      BY <2>1, <2>4 DEF Droppers
    <3>2. \A g \in Frames : Droppers(g)' = Droppers(g)
      BY <2>4, <3>1, DroppersKept
    <3> QED
      BY <1>0, <2>4, <2>5, <3>2 DEF OnList, Busy
  <2>8. Count(f)'
    <3>1. Cardinality(Users(f)') = k - 1 /\ Cardinality(Droppers(f)') = m
      BY <2>2, <2>3, <2>6, <2>7, UsersFinite, CountLess
    <3>2. refs'[f] = ((k - 1) + m) + n0 /\ refs'[f] > 0 /\ leaked'[f] = n0
      BY <2>3, <2>5
    <3> QED
      BY <2>2, <2>7, <3>1, <3>2 DEF Count
  <2>9. \A g \in Frames \ {f} : Count(g)'
    BY <2>5, <2>6, <2>7, CountKept
  <2> QED
    BY <2>5, <2>8, <2>9, ListKept
<1>17. ASSUME NEW p \in Procs, KfreeLast(p) PROVE Counts'
  <2>0. work[p].at = "junk"
    BY <1>17 DEF KfreeLast, At
  <2>1. PICK c \in Procs, i \in Pages, f \in Frames :
          /\ c = work[p].who /\ i = NextToFree(p) /\ f = frame[c][i] /\ i \in Mapped(c)
          /\ f = work[p].f
          /\ ~OnList(f) /\ Users(f) = {<<c, i>>} /\ leaked[f] = 0
          /\ \A q \in Procs \ {p} : work[q].f # f
    BY <2>0, LastOne DEF Mapped
  <2>2. /\ work'[p].f = None /\ work'[p].at = "free"
        /\ \A q \in Procs \ {p} : work'[q] = work[q]
    BY <1>0, <1>17 DEF KfreeLast, FreesOn, User, Go, TypeOK
  <2>3. ~Busy(f)'
    BY <1>0, <2>1, <2>2 DEF Busy
  <2>4. /\ freelist' = <<f>> \o freelist /\ UNCHANGED <<refs, leaked>>
        /\ frame' = [frame EXCEPT ![c][i] = None]
    BY <1>17, <2>1 DEF KfreeLast, Unmap
  <2>5. /\ freelist \in Seq(Frames) /\ Len(freelist) \in Nat
        /\ Len(freelist') = Len(freelist) + 1 /\ freelist'[1] = f
        /\ \A k \in 1..Len(freelist) : freelist'[k + 1] = freelist[k]
        /\ \A k \in 2..Len(freelist') : freelist'[k] = freelist[k - 1]
                                       /\ k - 1 \in 1..Len(freelist)
    <3>1. freelist \in Seq(Frames) /\ freelist' = <<f>> \o freelist
      BY <1>0, <2>4 DEF TypeOK
    <3>2. /\ Len(freelist) \in Nat /\ Len(freelist') = Len(freelist) + 1 /\ freelist'[1] = f
          /\ \A k \in 1..Len(freelist) + 1 :
               freelist'[k] = IF k = 1 THEN f ELSE freelist[k - 1]
      BY <3>1
    <3>3. \A k \in 1..Len(freelist) :
            k + 1 \in 1..Len(freelist) + 1 /\ k + 1 # 1 /\ k + 1 - 1 = k
      BY <3>2
    <3>4. \A k \in 2..Len(freelist') : k \in 1..Len(freelist) + 1 /\ k # 1
                                       /\ k - 1 \in 1..Len(freelist)
      BY <3>2
    <3> QED
      BY <3>1, <3>2, <3>3, <3>4
  <2>6. \A g \in Frames : OnList(g)' <=> OnList(g) \/ g = f
    <3>1. ASSUME NEW g \in Frames, OnList(g)' PROVE OnList(g) \/ g = f
      <4>1. PICK k \in 1..Len(freelist') : freelist'[k] = g
        BY <3>1 DEF OnList
      <4>2. k = 1 \/ k \in 2..Len(freelist')
        BY <2>5
      <4> QED
        BY <2>5, <4>1, <4>2 DEF OnList
    <3>2. ASSUME NEW g \in Frames, OnList(g) PROVE OnList(g)'
      <4>1. PICK k \in 1..Len(freelist) : freelist[k] = g
        BY <3>2 DEF OnList
      <4>2. k + 1 \in 1..Len(freelist') /\ freelist'[k + 1] = g
        BY <2>5, <4>1
      <4> QED
        BY <4>2 DEF OnList
    <3>3. OnList(f)'
      BY <2>5 DEF OnList
    <3> QED
      BY <3>1, <3>2, <3>3
  <2>7. ASSUME NEW j \in 1..Len(freelist'), NEW k \in 1..Len(freelist'),
               freelist'[j] = freelist'[k]
        PROVE  j = k
    <3>1. \A m, n \in 1..Len(freelist) : freelist[m] = freelist[n] => m = n
      BY DEF Inv, Counts
    <3>2. \A m \in 2..Len(freelist') : freelist'[m] # f
      BY <2>1, <2>5 DEF OnList
    <3>3. CASE j = 1 \/ k = 1
      BY <2>5, <2>7, <3>2, <3>3
    <3>4. CASE j \in 2..Len(freelist') /\ k \in 2..Len(freelist')
      <4>1. freelist[j - 1] = freelist[k - 1] /\ j - 1 \in 1..Len(freelist)
            /\ k - 1 \in 1..Len(freelist)
        BY <2>5, <2>7, <3>4
      <4>2. j - 1 = k - 1
        BY <3>1, <4>1
      <4> QED
        BY <4>2
    <3> QED
      BY <2>5, <3>3, <3>4
  <2>8. \A g \in Frames : Users(g)' = Users(g) \ {<<c, i>>}
    BY <1>0, <2>4, UsersCleared
  <2>9. \A g \in Frames : Droppers(g)' = Droppers(g) /\ (Busy(g)' => Busy(g))
    <3>1. \A g \in Frames : p \notin Droppers(g) /\ p \notin Droppers(g)'
      BY <2>0, <2>2 DEF Droppers
    <3>2. \A g \in Frames : Droppers(g)' = Droppers(g)
      BY <2>2, <3>1, DroppersKept
    <3> QED
      BY <1>0, <2>2, <3>2 DEF Busy
  <2>10. Count(f)'
    <3>1. Users(f)' = {}
      BY <2>1, <2>8
    <3>2. OnList(f)' /\ leaked'[f] = 0
      BY <2>1, <2>4, <2>6
    <3> QED
      BY <2>3, <3>1, <3>2 DEF Count
  <2>11. ASSUME NEW g \in Frames \ {f} PROVE Count(g)'
    <3>1. <<c, i>> \notin Users(g)
      BY <2>1 DEF Users
    <3>2. Users(g)' = Users(g)
      BY <2>8, <3>1
    <3>3. (OnList(g)' <=> OnList(g)) /\ leaked'[g] = leaked[g] /\ refs'[g] = refs[g]
      BY <2>4, <2>6
    <3> QED
      BY <2>9, <3>2, <3>3, CountKept
  <2> QED
    BY <2>7, <2>10, <2>11 DEF Counts, Count
<1>18. ASSUME NEW p \in Procs,
              \/ \E i \in Pages, d \in Data : Write(p, i, d)
              \/ CopyToNull(p)
              \/ Exit(p)
       PROVE  UNCHANGED <<freelist, frame, leaked, refs, work>>
  BY <1>18, Exiting DEF Write, CopyToNull, pgdirs, kmem
<1>19. CASE UNCHANGED vars
  BY <1>6, <1>19 DEF vars, pgdirs, kmem
<1> QED
  BY <1>1, <1>2, <1>3, <1>4, <1>5, <1>6, <1>7, <1>8, <1>9, <1>10, <1>11, <1>12,
     <1>13, <1>14, <1>15, <1>16, <1>17, <1>18, <1>19, <1>20 DEF Next

-----------------------------------------------------------------------------
(* Pages that can be written. *)

LEMMA ExclusiveLess ==
  ASSUME Exclusive,
         \A q \in Procs : \A i \in Mapped(q)' :
           /\ i \in Mapped(q) /\ frame'[q][i] = frame[q][i]
           /\ i \in cow[q] => i \in cow'[q]
  PROVE  Exclusive'
  BY DEF Exclusive

LEMMA ExclusiveTaken ==
  ASSUME Inv, freelist # <<>>, NEW p \in Procs, NEW i \in Pages,
         frame' = [frame EXCEPT ![p][i] = Head(freelist)],
         \A q \in Procs \ {p} : cow'[q] = cow[q], cow[p] \ {i} \subseteq cow'[p]
  PROVE  Exclusive'
<1>1. PICK h \in Frames : h = Head(freelist) /\ Users(h) = {}
  BY FirstFree
<1>2. \A q \in Procs, j \in Pages :
        frame'[q][j] = IF q = p /\ j = i THEN h ELSE frame[q][j]
  BY <1>1 DEF Inv, TypeOK
<1>3. ASSUME NEW q \in Procs, NEW j \in Pages PROVE frame[q][j] # h
  <2>1. <<q, j>> \in Procs \X Pages /\ <<q, j>> \notin Users(h)
    BY <1>1
  <2> QED
    BY <2>1 DEF Users
<1>4. \A q \in Procs : \A j \in Mapped(q)' :
        \/ q = p /\ j = i
        \/ /\ j \in Mapped(q) /\ frame'[q][j] = frame[q][j] /\ frame'[q][j] # h
           /\ j \in cow[q] => j \in cow'[q]
  BY <1>2, <1>3 DEF Mapped
<1>5. frame'[p][i] = h
  BY <1>2
<1>6. ASSUME NEW q \in Procs, NEW r \in Procs, NEW j \in Mapped(q)' \ cow'[q],
             NEW k \in Mapped(r)', frame'[q][j] = frame'[r][k]
      PROVE  q = r /\ j = k
  <2>1. CASE frame'[q][j] = h
    BY <1>4, <1>6, <2>1
  <2>2. CASE frame'[q][j] # h
    <3>1. j \in Mapped(q) \ cow[q] /\ k \in Mapped(r) /\ frame[q][j] = frame[r][k]
      BY <1>4, <1>5, <1>6, <2>2
    <3> QED
      BY <3>1 DEF Inv, Exclusive
  <2> QED
    BY <2>1, <2>2
<1> QED
  BY <1>6 DEF Exclusive

LEMMA ExclusiveStep == ASSUME Inv, [Next]_vars PROVE Exclusive'
<1>0. TypeOK /\ Exclusive /\ \A q \in Procs : Counter(q) /\ Table(q) /\ Worker(q)
  BY DEF Inv, Counting, Tables, Workers
<1>1. ASSUME UNCHANGED <<frame, cow>> PROVE Exclusive'
  BY <1>0, <1>1, MappedKept, ExclusiveLess
<1>2. ASSUME NEW p \in Procs, CopyPage(p) PROVE Exclusive'
  <2>1. UNCHANGED frame /\ \A q \in Procs : cow[q] \subseteq cow'[q]
    BY <1>0, <1>2 DEF CopyPage, WriteProtected, TypeOK
  <2> QED
    BY <1>0, <2>1, MappedKept, ExclusiveLess
<1>3. ASSUME NEW p \in Procs, CopiedPage(p) PROVE Exclusive'
  <2>1. PICK c \in Procs : c = work[p].who /\ work[p].at = "inc" /\ c # p
    BY <1>3, CopyFacts DEF CopiedPage, At, Copying
  <2>2. PICK n \in Pages, f \in Frames : /\ n = NextPage(c) /\ f = work[p].f /\ f = frame[p][n]
                                         /\ n \in cow[p] /\ n \in Mapped(p)
    BY <1>0, <2>1, WorkFrame DEF Counter, Table, Mapped, Places
  <2>3. /\ \A q \in Procs, j \in Pages :
             frame'[q][j] = IF q = c /\ j = n THEN f ELSE frame[q][j]
        /\ \A q \in Procs : cow'[q] = IF q = c THEN cow[c] \cup {n} ELSE cow[q]
    BY <1>0, <1>3, <2>1, <2>2 DEF CopiedPage, TypeOK
  <2>4. \A q \in Procs : \A j \in Mapped(q)' :
          \/ q = c /\ j = n /\ j \in cow'[q]
          \/ /\ j \in Mapped(q) /\ frame'[q][j] = frame[q][j]
             /\ j \in cow[q] => j \in cow'[q]
    BY <2>3 DEF Mapped
  <2>5. ASSUME NEW q \in Procs, NEW r \in Procs, NEW j \in Mapped(q)' \ cow'[q],
               NEW k \in Mapped(r)', frame'[q][j] = frame'[r][k]
        PROVE  q = r /\ j = k
    <3>1. j \in Mapped(q) \ cow[q] /\ frame'[q][j] = frame[q][j]
      BY <2>4
    <3>2. CASE r = c /\ k = n
      <4>1. frame[q][j] = frame[p][n]
        BY <2>2, <2>3, <2>5, <3>1, <3>2
      <4>2. q = p /\ j = n
        BY <1>0, <2>2, <3>1, <4>1 DEF Exclusive
      <4> QED
        BY <2>2, <3>1, <4>2
    <3>3. CASE ~(r = c /\ k = n)
      <4>1. k \in Mapped(r) /\ frame'[r][k] = frame[r][k]
        BY <2>4, <3>3
      <4>2. frame[q][j] = frame[r][k]
        BY <2>5, <3>1, <4>1
      <4> QED
        BY <1>0, <3>1, <4>1, <4>2 DEF Exclusive
    <3> QED
      BY <3>2, <3>3
  <2> QED
    BY <2>5 DEF Exclusive
<1>4. ASSUME NEW p \in Procs, LastUser(p) PROVE Exclusive'
  <2>0. work[p].at = "last"
    BY <1>4 DEF LastUser, At
  <2>1. PICK i \in Pages : i = work[p].page /\ i \in Mapped(p) /\ refs[frame[p][i]] = 1
    BY <1>0, <2>0, WorkOf DEF Counter, Table
  <2>2. /\ UNCHANGED frame /\ cow'[p] = cow[p] \ {i}
        /\ \A q \in Procs \ {p} : cow'[q] = cow[q]
    BY <1>0, <1>4, <2>1 DEF LastUser, TypeOK
  <2>3. Users(frame[p][i]) = {<<p, i>>}
    BY <2>1, OneUser
  <2>4. \A q \in Procs : \A j \in Mapped(q) : frame[q][j] = frame[p][i] => q = p /\ j = i
    <3>1. ASSUME NEW q \in Procs, NEW j \in Mapped(q), frame[q][j] = frame[p][i]
          PROVE  q = p /\ j = i
      <4>1. <<q, j>> \in Users(frame[p][i])
        BY <3>1 DEF Users, Mapped
      <4> QED
        BY <2>3, <4>1
    <3> QED
      BY <3>1
  <2>5. ASSUME NEW q \in Procs, NEW r \in Procs, NEW j \in Mapped(q) \ cow'[q],
               NEW k \in Mapped(r), frame[q][j] = frame[r][k]
        PROVE  q = r /\ j = k
    <3>1. CASE q = p /\ j = i
      BY <2>4, <2>5, <3>1
    <3>2. CASE ~(q = p /\ j = i)
      <4>1. j \notin cow[q]
        BY <2>2, <3>2
      <4> QED
        BY <1>0, <2>5, <4>1 DEF Exclusive
    <3> QED
      BY <3>1, <3>2
  <2> QED
    BY <2>2, <2>5, MappedKept DEF Exclusive
<1>5. ASSUME NEW p \in Procs, CopyOnWrite(p) PROVE Exclusive'
  <2>1. PICK i \in Pages : i = work[p].page
    BY <1>0, WorkOf
  <2>2. /\ freelist # <<>> /\ frame' = [frame EXCEPT ![p][i] = Head(freelist)]
        /\ cow'[p] = cow[p] \ {i} /\ \A q \in Procs \ {p} : cow'[q] = cow[q]
    BY <1>0, <1>5, <2>1 DEF CopyOnWrite, TypeOK
  <2> QED
    BY <2>2, ExclusiveTaken
<1>6. ASSUME NEW p \in Procs, Grow(p) PROVE Exclusive'
  <2>1. PICK n \in Pages : n = size[p]
    BY <1>0, <1>6, SizeAssumption DEF Grow, TypeOK, Pages
  <2>2. freelist # <<>> /\ frame' = [frame EXCEPT ![p][n] = Head(freelist)] /\ UNCHANGED cow
    BY <1>6, <2>1 DEF Grow
  <2> QED
    BY <2>2, ExclusiveTaken
<1>7. ASSUME NEW p \in Procs, KfreeStores(p) \/ KfreeLast(p) PROVE Exclusive'
  <2>1. PICK c \in Procs, i \in Pages : c = work[p].who /\ i = NextToFree(p)
    <3>1. work[p].at \in {"junk", "subbed"}
      BY <1>7 DEF KfreeStores, KfreeLast, At
    <3> QED
      BY <1>0, <3>1, FreeFacts DEF Freeing, Counter
  <2>2. /\ \A q \in Procs, j \in Pages :
             frame'[q][j] = IF q = c /\ j = i THEN None ELSE frame[q][j]
        /\ \A q \in Procs : cow'[q] = IF q = c THEN cow[c] \ {i} ELSE cow[q]
    <3>1. Unmap(c, i)
      BY <1>7, <2>1 DEF KfreeStores, KfreeLast
    <3> QED
      BY <1>0, <3>1 DEF Unmap, TypeOK
  <2>3. \A q \in Procs : \A j \in Mapped(q)' :
          /\ j \in Mapped(q) /\ frame'[q][j] = frame[q][j]
          /\ j \in cow[q] => j \in cow'[q]
    BY <2>2 DEF Mapped
  <2> QED
    BY <1>0, <2>3, ExclusiveLess
<1>8. ASSUME NEW p \in Procs,
             \/ \E c \in Procs : Fork(p, c)
             \/ \E c \in Procs : Wait(p, c)
             \/ CopyFails(p)
             \/ Forked(p)
             \/ \E i \in Pages : PageFault(p, i)
             \/ \E i \in Pages, d \in Data : Write(p, i, d)
             \/ LooksAgain(p)
             \/ CopyToNull(p)
             \/ DecreaseLoads(p)
             \/ DecreaseStores(p)
             \/ GrowFails(p)
             \/ Exit(p)
             \/ \E n \in Pages : Shrink(p, n)
             \/ Kfree(p)
             \/ KfreeLoads(p)
             \/ Freed(p)
      PROVE  UNCHANGED <<frame, cow>>
  BY <1>8, FaultLooks, KfreeLooks, Exiting
  DEF Fork, Wait, CopyFails, Forked, Write, LooksAgain, CopyToNull, DecreaseLoads,
      DecreaseStores, GrowFails, Shrink, KfreeLoads, Freed, pgdirs
<1>9. CASE UNCHANGED vars
  BY <1>1, <1>9 DEF vars, pgdirs
<1> QED
  BY <1>1, <1>2, <1>3, <1>4, <1>5, <1>6, <1>7, <1>8, <1>9 DEF Next

(* Neither a fault nor kfree finds a page without a count. *)
LEMMA PanicStep == ASSUME Inv, [Next]_vars PROVE halted' # "panic"
<1>0. halted # "panic" /\ TypeOK
  BY DEF Inv
<1>2. ASSUME NEW p \in Procs,
             \/ \E c \in Procs : Fork(p, c)
             \/ \E c \in Procs : Wait(p, c)
             \/ CopyPage(p)
             \/ CopiedPage(p)
             \/ CopyFails(p)
             \/ Forked(p)
             \/ \E i \in Pages : PageFault(p, i)
             \/ \E i \in Pages, d \in Data : Write(p, i, d)
             \/ LooksAgain(p)
             \/ LastUser(p)
             \/ CopyOnWrite(p)
             \/ DecreaseLoads(p)
             \/ DecreaseStores(p)
             \/ Grow(p)
             \/ GrowFails(p)
             \/ Exit(p)
             \/ \E n \in Pages : Shrink(p, n)
             \/ Kfree(p)
             \/ KfreeLoads(p)
             \/ KfreeStores(p)
             \/ KfreeLast(p)
             \/ Freed(p)
      PROVE  halted' = halted
  BY <1>2, FaultLooks, KfreeLooks, Exiting
  DEF Fork, Wait, CopyPage, CopiedPage, CopyFails, Forked, Write, LooksAgain, LastUser,
      CopyOnWrite, DecreaseLoads, DecreaseStores, Grow, GrowFails, Shrink, KfreeLoads,
      KfreeStores, KfreeLast, Freed
<1>3. ASSUME NEW p \in Procs, CopyToNull(p) PROVE halted' = "wild"
  BY <1>3 DEF CopyToNull
<1>4. CASE UNCHANGED vars
  BY <1>0, <1>4 DEF vars
<1> QED
  BY <1>0, <1>2, <1>3, <1>4 DEF Next

LEMMA InvStep == ASSUME Inv, ~outdated', [Next]_vars PROVE Inv'
  BY TypeStep, PanicStep, WorkersStep, TablesStep, CountingStep, CountsStep, ExclusiveStep
  DEF Inv

-----------------------------------------------------------------------------
(* What always holds. *)
Always == outdated \in BOOLEAN /\ (outdated \/ Inv)

LEMMA InvAlways == Spec => []Always
<1>1. Init => Always
  BY InitInv DEF Init, Always
<1>2. Always /\ [Next]_vars => Always'
  <2> SUFFICES ASSUME Always, [Next]_vars PROVE Always'
    OBVIOUS
  <2>1. outdated' \in BOOLEAN /\ (outdated => outdated')
    BY OutdatedStep DEF Always
  <2>2. ~outdated' => Inv'
    BY <2>1, InvStep DEF Always
  <2> QED
    BY <2>1, <2>2 DEF Always
<1> QED
  BY <1>1, <1>2, PTL DEF Spec

(* Until a process acts on a count that another one has changed since it   *)
(* looked, no page is lost but by a fork that fails, and nothing panics    *)
(* (kalloc.c 68-99, vm.c 391-444).                                         *)
THEOREM NoPageLost == Spec => []Invariants
<1>1. ASSUME Inv PROVE TypeOK /\ NothingLost
  <2>1. ASSUME NEW f \in Frames, ~OnList(f), ~Busy(f), Users(f) = {} PROVE leaked[f] > 0
    <3>1. refs[f] = (Cardinality(Users(f)) + Cardinality(Droppers(f))) + leaked[f]
          /\ refs[f] > 0
      BY <1>1, <2>1 DEF Inv, Counts
    <3>2. Cardinality(Users(f)) = 0 /\ Cardinality(Droppers(f)) = 0 /\ leaked[f] \in Nat
      BY <1>1, <2>1, DropperBusy, FS_EmptySet DEF Inv, TypeOK
    <3> QED
      BY <3>1, <3>2
  <2> QED
    BY <1>1, <2>1 DEF Inv, NothingLost
<1>2. Always => Invariants
  BY <1>1 DEF Always, Invariants
<1> QED
  BY <1>2, InvAlways, PTL

(* Until then a count is, at every moment, the number of those who use the *)
(* page or are about to take themselves off (kalloc.c 20).                 *)
THEOREM CountsAreRight == Spec => []RefsCountUsers
<1>1. ASSUME Inv PROVE CountsTrackUsers
  <2>1. ASSUME NEW f \in Frames, ~OnList(f), ~Busy(f)
        PROVE  refs[f] = Cardinality(Users(f)) + leaked[f]
    <3>1. refs[f] = (Cardinality(Users(f)) + Cardinality(Droppers(f))) + leaked[f]
      BY <1>1, <2>1 DEF Inv, Counts
    <3>2. Cardinality(Droppers(f)) = 0 /\ Cardinality(Users(f)) \in Nat /\ leaked[f] \in Nat
      BY <1>1, <2>1, DropperBusy, UsersFinite, FS_EmptySet DEF Inv, TypeOK
    <3> QED
      BY <3>1, <3>2
  <2> QED
    BY <1>1, <2>1 DEF Inv, Counts, CountsTrackUsers
<1>2. ASSUME Inv, NEW f \in Frames, ~OnList(f)
      PROVE  refs[f] = Cardinality(Users(f)) + Cardinality(Droppers(f)) + leaked[f]
  BY <1>2 DEF Inv, Counts
<1>3. Always => RefsCountUsers
  BY <1>1, <1>2 DEF Always, RefsCountUsers
<1> QED
  BY <1>3, InvAlways, PTL

-----------------------------------------------------------------------------
(* What the processes see of their memory.                                 *)

Memory(p) == [i \in 1..Visible(p) |-> mem[frame[p][i - 1]]]

LEMMA VmIs ==
  vm = [p \in Procs |-> IF state[p] = "running" THEN Memory(p) ELSE None]
  BY DEF vm, Memory

LEMMA VisiblePages ==
  ASSUME Inv, NEW p \in Procs, state[p] = "running"
  PROVE  /\ Visible(p) \in Nat /\ Visible(p) <= MaxPages
         /\ \A i \in 1..Visible(p) :
              i - 1 \in Mapped(p) /\ i - 1 < Visible(p) /\ i - 1 \in Nat
              /\ frame[p][i - 1] \in Frames
         /\ Memory(p) \in Seq(Data \cup {Junk}) /\ Len(Memory(p)) = Visible(p)
         /\ Memory(p) # None
<1>1. size[p] \in 0..MaxPages /\ work[p].keep \in 0..MaxPages
  BY WorkOf DEF Inv, TypeOK
<1>2. PICK n \in 0..MaxPages : n = Visible(p)
  BY <1>1 DEF Visible
<1>3. 0..n - 1 \subseteq Mapped(p)
  <2>1. CASE work[p].at \in Freeing /\ work[p].who = p
    BY <1>2, <2>1 DEF Visible, Freeing, Inv, Tables, Part
  <2>2. CASE ~(work[p].at \in Freeing /\ work[p].who = p)
    <3>1. n = size[p]
      BY <1>2, <2>2 DEF Visible, Freeing
    <3>2. work[p].who # p
      <4>1. CASE work[p].at \in Copying
        BY <4>1 DEF Inv, Workers, Worker
      <4>2. CASE work[p].at \notin Copying \cup Freeing
        <5>1. work[p].who = None
          BY <4>2, WorkOf DEF Inv, Workers, Worker, Copying, Freeing, Sharing, Places
        <5> QED
          BY <5>1, InitAssumption
      <4> QED
        BY <2>2, <4>1, <4>2
    <3> QED
      BY <3>1, <3>2, AllMapped
  <2> QED
    BY <2>1, <2>2
<1>4. n \in Nat /\ n <= MaxPages
  BY <1>2, SizeAssumption
<1>5. ASSUME NEW i \in 1..n
      PROVE  i - 1 \in Mapped(p) /\ i - 1 < n /\ i - 1 \in Nat /\ frame[p][i - 1] \in Frames
  <2>1. i - 1 \in 0..n - 1 /\ i - 1 < n /\ i - 1 \in Nat
    BY <1>4
  <2> QED
    BY <1>3, <2>1, Used
<1>6. \A i \in 1..n : mem[frame[p][i - 1]] \in Data \cup {Junk}
  BY <1>5 DEF Inv, TypeOK
<1>7. Memory(p) \in [1..n -> Data \cup {Junk}]
  BY <1>2, <1>6 DEF Memory
<1>8. Memory(p) \in Seq(Data \cup {Junk}) /\ Len(Memory(p)) = n
  BY <1>4, <1>7
<1> QED
  BY <1>2, <1>4, <1>5, <1>8, DataAssumption

LEMMA MemoryKept ==
  ASSUME Inv, NEW p \in Procs, state[p] = "running", Visible(p)' = Visible(p),
         \A i \in Mapped(p) : i < Visible(p) => mem'[frame'[p][i]] = mem[frame[p][i]]
  PROVE  Memory(p)' = Memory(p)
<1>1. \A i \in 1..Visible(p) : mem'[frame'[p][i - 1]] = mem[frame[p][i - 1]]
  BY VisiblePages
<1> QED
  BY <1>1 DEF Memory

LEMMA VmKept ==
  ASSUME \A p \in Procs : /\ state'[p] = "running" <=> state[p] = "running"
                          /\ state[p] = "running" => Memory(p)' = Memory(p)
  PROVE  vm' = vm
  BY DEF vm, Memory

(* A step that gives one process another memory. *)
LEMMA VmOne ==
  ASSUME NEW p \in Procs, NEW m, state'[p] = "running", Memory(p)' = m,
         \A q \in Procs \ {p} :
           /\ state'[q] = "running" <=> state[q] = "running"
           /\ state[q] = "running" => Memory(q)' = Memory(q)
  PROVE  vm' = [vm EXCEPT ![p] = m]
<1>1. vm' = [q \in Procs |-> IF state'[q] = "running" THEN Memory(q)' ELSE None]
  BY DEF vm, Memory
<1>2. \A q \in Procs : vm'[q] = IF q = p THEN m ELSE vm[q]
  BY <1>1, VmIs
<1> QED
  BY <1>1, <1>2, VmIs

LEMMA InitMaps == Init => M!Init
<1> SUFFICES ASSUME Init PROVE M!Init
  OBVIOUS
<1>0. Inv
  BY InitInv
<1>1. PICK f1 \in Frames :
        /\ frame = [p \in Procs |-> [i \in Pages |->
                      IF p = initproc /\ i = 0 THEN f1 ELSE None]]
        /\ mem = [f \in Frames |-> IF f = f1 THEN Zero ELSE Junk]
  BY DEF Init
<1>2. /\ \A p \in Procs : state[p] = IF p = initproc THEN "running" ELSE "unused"
      /\ size[initproc] = 1 /\ work[initproc] = User
      /\ initproc \in Procs /\ 0 \in Pages
  BY InitAssumption, SizeAssumption DEF Init, Pages
<1>3. Visible(initproc) = 1
  BY <1>2 DEF Visible, User
<1>4. Memory(initproc) = <<Zero>>
  <2>1. \A i \in 1..1 : i - 1 = 0
    OBVIOUS
  <2>2. Memory(initproc) = [i \in 1..1 |-> Zero]
    BY <1>1, <1>2, <1>3, <2>1 DEF Memory
  <2> QED
    BY <2>2
<1> QED
  BY <1>2, <1>4, VmIs DEF M!Init, Init

(* A step in which the memory of each process stays as it is.              *)
LEMMA Stutters ==
  ASSUME Inv, NEW p \in Procs, UNCHANGED <<state, size>>,
         \A q \in Procs \ {p} : work'[q] = work[q],
         state[p] = "running" => Visible(p)' = Visible(p),
         \A q \in Procs : state[q] = "running" =>
           \A i \in Mapped(q) : i < Visible(q) => mem'[frame'[q][i]] = mem[frame[q][i]]
  PROVE  vm' = vm
<1>1. ASSUME NEW q \in Procs, state[q] = "running" PROVE Memory(q)' = Memory(q)
  <2>1. Visible(q)' = Visible(q)
    BY <1>1 DEF Visible
  <2> QED
    BY <1>1, <2>1, MemoryKept
<1> QED
  BY <1>1, VmKept

LEMMA VisibleSame ==
  ASSUME NEW p \in Procs, size'[p] = size[p],
         \/ work[p].at \notin Freeing \/ work[p].who # p,
         \/ work'[p].at \notin Freeing \/ work'[p].who # p
  PROVE  Visible(p)' = Visible(p)
  BY DEF Visible, Freeing

LEMMA StutterSteps ==
  ASSUME Inv, NEW p \in Procs,
         \/ CopyPage(p)
         \/ CopiedPage(p)
         \/ CopyFails(p)
         \/ LooksAgain(p)
         \/ LastUser(p)
         \/ CopyToNull(p)
         \/ DecreaseLoads(p)
         \/ DecreaseStores(p)
         \/ Kfree(p)
         \/ KfreeLoads(p)
         \/ KfreeStores(p)
  PROVE  vm' = vm
<1>0. /\ TypeOK /\ None \notin Procs
      /\ \A q \in Procs : Worker(q) /\ Counter(q) /\ Table(q)
  BY InitAssumption DEF Inv, Workers, Counting, Tables
<1>1. UNCHANGED <<state, size, mem>>
  BY KfreeLooks DEF CopyPage, CopiedPage, CopyFails, LooksAgain, LastUser, CopyToNull,
     DecreaseLoads, DecreaseStores, KfreeLoads, KfreeStores, ptable
<1>2. ASSUME CopyPage(p) PROVE vm' = vm
  <2>1. /\ work'[p].at = "inc" /\ work[p].at = "copy" /\ UNCHANGED frame
        /\ \A q \in Procs \ {p} : work'[q] = work[q]
    BY <1>0, <1>2 DEF CopyPage, At, Go, TypeOK
  <2> QED
    BY <1>1, <2>1, VisibleSame, Stutters DEF Freeing
<1>3. ASSUME CopiedPage(p) PROVE vm' = vm
  <2>1. /\ work'[p].at = "copy" /\ work[p].at = "inc"
        /\ \A q \in Procs \ {p} : work'[q] = work[q]
    BY <1>0, <1>3 DEF CopiedPage, At, User, Go, TypeOK
  <2>2. \A q \in Procs : state[q] = "running" => frame'[q] = frame[q]
    <3>1. PICK c \in Procs : c = work[p].who /\ state[c] = "embryo"
      BY <2>1, CopyFacts DEF Copying
    <3>2. \A q \in Procs \ {c} : frame'[q] = frame[q]
      BY <1>0, <1>3, <3>1 DEF CopiedPage, TypeOK
    <3> QED
      BY <3>1, <3>2
  <2> QED
    BY <1>1, <2>1, <2>2, VisibleSame, Stutters DEF Freeing
<1>4. ASSUME CopyFails(p) PROVE vm' = vm
  <2>1. /\ work'[p].at = "free" /\ work'[p].who = work[p].who /\ work[p].at = "inc"
        /\ \A q \in Procs \ {p} : work'[q] = work[q]
    BY <1>0, <1>4 DEF CopyFails, At, User, Go, TypeOK
  <2>2. work[p].who # p /\ UNCHANGED frame
    BY <1>4, <2>1, CopyFacts DEF CopyFails, Copying, pgdirs
  <2> QED
    BY <1>1, <2>1, <2>2, VisibleSame, Stutters DEF Freeing
<1>5. ASSUME LastUser(p) \/ DecreaseStores(p) PROVE vm' = vm
  <2>1. /\ work'[p].at = "user" /\ work[p].at \in Sharing
        /\ \A q \in Procs \ {p} : work'[q] = work[q]
    BY <1>0, <1>5 DEF LastUser, DecreaseStores, At, User, Go, TypeOK, Sharing
  <2>2. UNCHANGED frame
    BY <1>5 DEF LastUser, DecreaseStores, pgdirs
  <2> QED
    BY <1>1, <2>1, <2>2, VisibleSame, Stutters DEF Freeing, Sharing
<1>6. ASSUME CopyToNull(p) PROVE vm' = vm
  <2>1. UNCHANGED <<frame, work>>
    BY <1>6 DEF CopyToNull, pgdirs
  <2> QED
    BY <1>1, <2>1, Stutters DEF Visible
<1>7. ASSUME DecreaseLoads(p) \/ LooksAgain(p) PROVE vm' = vm
  <2>1. UNCHANGED frame /\ work[p].at \in Sharing
    BY <1>7 DEF DecreaseLoads, LooksAgain, At, Sharing, pgdirs
  <2>2. /\ work'[p].at \in Sharing
        /\ \A q \in Procs \ {p} : work'[q] = work[q]
    <3>1. CASE DecreaseLoads(p)
      BY <1>0, <3>1 DEF DecreaseLoads, Go, TypeOK, Sharing
    <3>2. CASE LooksAgain(p)
      BY <1>0, <3>2 DEF LooksAgain, Go, TypeOK, Sharing
    <3> QED
      BY <1>7, <3>1, <3>2
  <2> QED
    BY <1>1, <2>1, <2>2, VisibleSame, Stutters DEF Freeing, Sharing
<1>8. ASSUME Kfree(p) \/ KfreeLoads(p) PROVE vm' = vm
  <2>1. UNCHANGED frame /\ work[p].at \in {"free", "sub"}
    BY <1>8, KfreeLooks DEF KfreeLoads, At, pgdirs
  <2>2. /\ work'[p].at \in {"junk", "sub", "subbed"} /\ work'[p].who = work[p].who
        /\ work'[p].keep = work[p].keep
        /\ \A q \in Procs \ {p} : work'[q] = work[q]
    <3>1. CASE KfreeLoads(p)
      BY <1>0, <3>1 DEF KfreeLoads, Go, TypeOK
    <3>2. CASE Kfree(p)
      <4>1. PICK f \in Frames : f = frame[work[p].who][NextToFree(p)]
        BY <3>2, KfreeLooks
      <4>2. PICK place \in {"sub", "junk"} : Go(p, [work[p] EXCEPT !.at = place, !.f = f])
        BY <3>2, <4>1, KfreeLooks
      <4> QED
        BY <1>0, <4>2 DEF Go, TypeOK
    <3> QED
      BY <1>8, <3>1, <3>2
  <2>3. Visible(p)' = Visible(p)
    BY <1>1, <2>1, <2>2 DEF Visible
  <2> QED
    BY <1>1, <2>1, <2>2, <2>3, Stutters
<1>9. ASSUME KfreeStores(p) PROVE vm' = vm
  <2>1. /\ work'[p].at = "free" /\ work'[p].who = work[p].who /\ work'[p].keep = work[p].keep
        /\ work[p].at = "subbed"
        /\ \A q \in Procs \ {p} : work'[q] = work[q]
    BY <1>0, <1>9 DEF KfreeStores, FreesOn, At, User, Go, TypeOK
  <2>2. PICK c \in Procs, i \in Pages : c = work[p].who /\ i = NextToFree(p) /\ i >= work[p].keep
    BY <1>0, <2>1, FreeFacts DEF Counter, Freeing
  <2>3. \A q \in Procs, j \in Pages :
          frame'[q][j] = IF q = c /\ j = i THEN None ELSE frame[q][j]
    BY <1>0, <1>9, <2>2 DEF KfreeStores, Unmap, TypeOK
  <2>4. ASSUME NEW q \in Procs, state[q] = "running", NEW j \in Mapped(q), j < Visible(q)
        PROVE  frame'[q][j] = frame[q][j]
    <3>1. CASE q = c
      <4>1. q = p /\ Visible(p) = work[p].keep
        BY <1>0, <2>1, <2>2, <2>4, <3>1 DEF Worker, Freeing, Visible
      <4>2. j # i
        BY <2>2, <2>4, <4>1, WorkOf, SizeAssumption DEF Inv, Pages, Mapped
      <4> QED
        BY <2>3, <4>2 DEF Mapped
    <3>2. CASE q # c
      BY <2>3, <3>2 DEF Mapped
    <3> QED
      BY <3>1, <3>2
  <2>5. Visible(p)' = Visible(p)
    BY <1>1, <2>1 DEF Visible
  <2> QED
    BY <1>1, <2>1, <2>4, <2>5, Stutters
<1> QED
  BY <1>2, <1>3, <1>4, <1>5, <1>6, <1>7, <1>8, <1>9

LEMMA MemorySteps ==
  ASSUME Inv, NEW p \in Procs, CopyOnWrite(p) \/ GrowFails(p) \/ KfreeLast(p)
  PROVE  vm' = vm
<1>0. /\ TypeOK /\ None \notin Procs
      /\ \A q \in Procs : Worker(q) /\ Counter(q) /\ Table(q)
  BY InitAssumption DEF Inv, Workers, Counting, Tables
<1>1. \A f \in Frames : Users(f) = {} => \A q \in Procs : \A j \in Mapped(q) : frame[q][j] # f
  BY Used
<1>2. ASSUME CopyOnWrite(p) PROVE vm' = vm
  <2>1. PICK i \in Pages, f \in Frames :
          i = work[p].page /\ f = work[p].f /\ f = frame[p][i] /\ work[p].at = "split"
    BY <1>0, <1>2, WorkOf, WorkFrame DEF CopyOnWrite, At, Counter, Places
  <2>2. PICK h \in Frames : h = Head(freelist) /\ Users(h) = {}
    BY <1>2, FirstFree DEF CopyOnWrite
  <2>3. /\ \A q \in Procs, j \in Pages :
             frame'[q][j] = IF q = p /\ j = i THEN h ELSE frame[q][j]
        /\ \A g \in Frames : mem'[g] = IF g = h THEN mem[f] ELSE mem[g]
        /\ UNCHANGED <<state, size>>
    BY <1>0, <1>2, <2>1, <2>2 DEF CopyOnWrite, ptable, TypeOK
  <2>4. work'[p].at = "drop" /\ \A q \in Procs \ {p} : work'[q] = work[q]
    BY <1>0, <1>2 DEF CopyOnWrite, User, Go, TypeOK
  <2>5. ASSUME NEW q \in Procs, NEW j \in Mapped(q)
        PROVE  mem'[frame'[q][j]] = mem[frame[q][j]]
    <3>1. j \in Pages /\ frame[q][j] \in Frames /\ frame[q][j] # h
      BY <1>1, <2>2, Used
    <3> QED
      BY <2>1, <2>3, <3>1
  <2> QED
    BY <2>1, <2>3, <2>4, <2>5, VisibleSame, Stutters DEF Freeing
<1>3. ASSUME GrowFails(p) PROVE vm' = vm
  <2>1. PICK h \in Frames : h = Head(freelist) /\ Users(h) = {}
    BY <1>3, FirstFree DEF GrowFails
  <2>2. /\ \A g \in Frames \ {h} : mem'[g] = mem[g]
        /\ UNCHANGED <<state, size, frame, work>>
    BY <1>0, <1>3, <2>1 DEF GrowFails, ptable, pgdirs, TypeOK
  <2>3. ASSUME NEW q \in Procs, NEW j \in Mapped(q)
        PROVE  mem'[frame'[q][j]] = mem[frame[q][j]]
    BY <1>1, <2>1, <2>2, Used
  <2> QED
    BY <2>2, <2>3, Stutters DEF Visible
<1>4. ASSUME KfreeLast(p) PROVE vm' = vm
  <2>0. work[p].at = "junk"
    BY <1>4 DEF KfreeLast, At
  <2>1. PICK c \in Procs, i \in Pages, f \in Frames :
          /\ c = work[p].who /\ i = NextToFree(p) /\ i >= work[p].keep
          /\ f = work[p].f /\ Users(f) = {<<c, i>>}
    <3>1. work[p].who \in Procs /\ NextToFree(p) >= work[p].keep
      BY <1>0, <2>0, FreeFacts DEF Freeing, Counter
    <3> QED
      BY <2>0, <3>1, LastOne DEF Mapped
  <2>2. /\ \A q \in Procs, j \in Pages :
             frame'[q][j] = IF q = c /\ j = i THEN None ELSE frame[q][j]
        /\ \A g \in Frames \ {f} : mem'[g] = mem[g]
        /\ UNCHANGED <<state, size>>
    BY <1>0, <1>4, <2>1 DEF KfreeLast, Unmap, ptable, TypeOK
  <2>3. /\ work'[p].at = "free" /\ work'[p].who = work[p].who /\ work'[p].keep = work[p].keep
        /\ \A q \in Procs \ {p} : work'[q] = work[q]
    BY <1>0, <1>4 DEF KfreeLast, FreesOn, User, Go, TypeOK
  <2>4. ASSUME NEW q \in Procs, state[q] = "running", NEW j \in Mapped(q), j < Visible(q)
        PROVE  mem'[frame'[q][j]] = mem[frame[q][j]]
    <3>1. q = c => j # i
      <4>1. ASSUME q = c PROVE q = p /\ Visible(p) = work[p].keep
        BY <1>0, <2>0, <2>1, <2>4, <4>1 DEF Worker, Freeing, Visible
      <4> QED
        BY <2>1, <2>4, <4>1, WorkOf, SizeAssumption DEF Inv, Pages, Mapped
    <3>2. j \in Pages /\ frame[q][j] \in Frames /\ <<q, j>> \in Users(frame[q][j])
      BY Used
    <3>3. <<q, j>> # <<c, i>>
      BY <3>1
    <3>4. frame[q][j] # f
      BY <2>1, <3>2, <3>3
    <3> QED
      BY <2>2, <3>1, <3>2, <3>4
  <2>5. Visible(p)' = Visible(p)
    BY <2>0, <2>2, <2>3 DEF Visible
  <2> QED
    BY <2>2, <2>3, <2>4, <2>5, Stutters
<1> QED
  BY <1>2, <1>3, <1>4

(* The steps that make, end or begin to free a process that cannot run.    *)
LEMMA SlotSteps ==
  ASSUME Inv, NEW p \in Procs,
         \/ \E c \in Procs : Fork(p, c)
         \/ \E c \in Procs : Wait(p, c)
         \/ \E i \in Pages : PageFault(p, i)
         \/ Freed(p)
  PROVE  vm' = vm
<1>0. /\ TypeOK /\ None \notin Procs
      /\ \A q \in Procs : Worker(q) /\ Table(q)
  BY InitAssumption DEF Inv, Workers, Tables
<1>1. UNCHANGED <<frame, mem>>
  BY FaultLooks DEF Fork, Wait, Freed, pgdirs
<1>2. ASSUME NEW c \in Procs, Fork(p, c) PROVE vm' = vm
  <2>1. /\ work'[p].at = "copy" /\ work[p].at = "user"
        /\ \A q \in Procs \ {p} : work'[q] = work[q]
    BY <1>0, <1>2 DEF Fork, At, User, Go, TypeOK
  <2>2. /\ \A q \in Procs : state'[q] = IF q = c THEN "embryo" ELSE state[q]
        /\ state[c] = "unused" /\ UNCHANGED size
    BY <1>0, <1>2 DEF Fork, TypeOK
  <2>3. ASSUME NEW q \in Procs, state[q] = "running" PROVE Memory(q)' = Memory(q)
    <3>1. Visible(q)' = Visible(q)
      BY <2>1, <2>2 DEF Visible
    <3> QED
      BY <1>1, <2>3, <3>1, MemoryKept
  <2> QED
    BY <2>2, <2>3, VmKept
<1>3. ASSUME NEW c \in Procs, Wait(p, c) PROVE vm' = vm
  <2>1. /\ work'[p].at = "free" /\ work'[p].who = c /\ work[p].at = "user"
        /\ \A q \in Procs \ {p} : work'[q] = work[q]
    BY <1>0, <1>3 DEF Wait, At, User, Go, TypeOK
  <2>2. c # p /\ UNCHANGED <<state, size>>
    BY <1>3 DEF Wait, At, ptable
  <2> QED
    BY <1>1, <2>1, <2>2, VisibleSame, Stutters DEF Freeing
<1>4. ASSUME NEW i \in Pages, PageFault(p, i) PROVE vm' = vm
  <2>1. /\ Go(p, [User EXCEPT !.at = "check", !.page = i, !.f = frame[p][i]])
        /\ UNCHANGED <<state, size>> /\ work[p].at = "user"
    BY <1>4, FaultLooks DEF ptable
  <2>2. work'[p].at = "check" /\ \A q \in Procs \ {p} : work'[q] = work[q]
    BY <1>0, <2>1 DEF User, Go, TypeOK
  <2> QED
    BY <1>1, <2>1, <2>2, VisibleSame, Stutters DEF Freeing
<1>5. ASSUME Freed(p) PROVE vm' = vm
  <2>1. PICK c \in Procs : c = work[p].who /\ work[p].at = "free"
    BY <1>0, <1>5, WorkOf DEF Freed, At, Worker, Sharing
  <2>2. /\ size'[c] = work[p].keep /\ state'[c] = IF c = p THEN state[c] ELSE "unused"
        /\ \A q \in Procs \ {c} : size'[q] = size[q] /\ state'[q] = state[q]
    BY <1>0, <1>5, <2>1 DEF Freed, TypeOK
  <2>3. /\ work'[p].at = "user" /\ \A q \in Procs \ {p} : work'[q] = work[q]
    BY <1>0, <1>5 DEF Freed, User, Go, TypeOK
  <2>4. c # p => state[c] # "running"
    BY <1>0, <2>1 DEF Worker, Freeing
  <2>5. ASSUME NEW q \in Procs, state[q] = "running" PROVE Memory(q)' = Memory(q)
    <3>1. CASE q = p /\ c = p
      <4>1. Visible(p)' = Visible(p)
        BY <2>1, <2>2, <2>3, <3>1 DEF Visible
      <4> QED
        BY <1>1, <2>5, <3>1, <4>1, MemoryKept
    <3>2. CASE q # c
      <4>1. Visible(q)' = Visible(q)
        BY <2>1, <2>2, <2>3, <3>2 DEF Visible
      <4> QED
        BY <1>1, <2>5, <4>1, MemoryKept
    <3> QED
      BY <2>4, <2>5, <3>1, <3>2
  <2>6. \A q \in Procs : state'[q] = "running" <=> state[q] = "running"
    BY <2>2, <2>4
  <2> QED
    BY <2>5, <2>6, VmKept
<1> QED
  BY <1>2, <1>3, <1>4, <1>5

(* Where a process does not free pages of its own, it sees all its pages.  *)
LEMMA SeesAll ==
  ASSUME Inv, NEW p \in Procs, work[p].at \notin Freeing \/ work[p].who # p
  PROVE  Visible(p) = size[p]
  BY DEF Visible, Freeing

LEMMA ForkMaps == ASSUME Inv, NEW p \in Procs, Forked(p) PROVE M!Promised
<1>0. TypeOK /\ None \notin Procs
  BY InitAssumption DEF Inv
<1>1. PICK c \in Procs : /\ c = work[p].who /\ work[p].at = "copy" /\ c # p
                         /\ state[c] = "embryo" /\ state[p] = "running" /\ work[c].at = "user"
                         /\ Mapped(c) = 0..size[p] - 1
                         /\ \A i \in Mapped(c) : frame[c][i] = frame[p][i]
  BY CopyFacts DEF Forked, At, Copying, Inv, Tables, Part, Workers, Worker
<1>2. /\ \A q \in Procs : /\ size'[q] = IF q = c THEN size[p] ELSE size[q]
                          /\ state'[q] = IF q = c THEN "running" ELSE state[q]
      /\ UNCHANGED <<frame, mem>>
  BY <1>0, <1>1 DEF Forked, TypeOK, pgdirs
<1>3. /\ work'[p].at = "user" /\ \A q \in Procs \ {p} : work'[q] = work[q]
  BY <1>0 DEF Forked, User, Go, TypeOK
<1>4. ASSUME NEW q \in Procs, state[q] = "running" PROVE Memory(q)' = Memory(q)
  <2>1. Visible(q)' = Visible(q)
    BY <1>1, <1>2, <1>3, <1>4 DEF Visible
  <2> QED
    BY <1>2, <1>4, <2>1, MemoryKept
<1>5. Memory(c)' = Memory(p)
  <2>1. Visible(c)' = size[p] /\ Visible(p) = size[p] /\ size[p] \in Nat
    BY <1>0, <1>1, <1>2, <1>3, CopyFacts DEF Visible, Copying
  <2>2. \A i \in 1..size[p] : i - 1 \in Mapped(c)
    BY <1>1, <2>1
  <2>3. \A i \in 1..size[p] : mem'[frame'[c][i - 1]] = mem[frame[p][i - 1]]
    BY <1>1, <1>2, <2>2
  <2> QED
    BY <2>1, <2>3 DEF Memory
<1>6. vm' = [vm EXCEPT ![c] = vm[p]]
  <2>1. vm[p] = Memory(p) /\ state'[c] = "running"
    BY <1>1, <1>2, VmIs
  <2>2. \A q \in Procs \ {c} : state'[q] = state[q]
    BY <1>2
  <2> QED
    BY <1>4, <1>5, <2>1, <2>2, VmOne
<1>7. M!Has(p) /\ ~M!Has(c)
  BY <1>1, VmIs, VisiblePages DEF M!Has
<1> QED
  BY <1>6, <1>7 DEF M!Promised, M!Fork

LEMMA WriteMaps ==
  ASSUME Inv, NEW p \in Procs, NEW i \in Pages, NEW d \in Data, Write(p, i, d)
  PROVE  M!Promised
<1>0. TypeOK
  BY DEF Inv
<1>1. /\ state[p] = "running" /\ work[p].at = "user" /\ i \in Mapped(p) \ cow[p]
      /\ UNCHANGED <<state, size, frame, work>>
  BY DEF Write, At, ptable, pgdirs
<1>2. PICK f \in Frames : f = frame[p][i] /\ \A g \in Frames : mem'[g] = IF g = f THEN d ELSE mem[g]
  BY <1>0, <1>1, Used DEF Write, TypeOK
<1>3. \A q \in Procs : Visible(q)' = Visible(q)
  BY <1>1 DEF Visible
<1>4. ASSUME NEW q \in Procs, NEW j \in Mapped(q)
      PROVE  mem'[frame'[q][j]] = IF q = p /\ j = i THEN d ELSE mem[frame[q][j]]
  <2>1. frame[q][j] = f => q = p /\ j = i
    BY <1>1, <1>2 DEF Inv, Exclusive
  <2>2. frame[q][j] \in Frames
    BY Used
  <2> QED
    BY <1>1, <1>2, <2>1, <2>2
<1>5. ASSUME NEW q \in Procs \ {p}, state[q] = "running" PROVE Memory(q)' = Memory(q)
  BY <1>3, <1>4, <1>5, MemoryKept
<1>6. Visible(p) = size[p] /\ Mapped(p) = 0..size[p] - 1 /\ size[p] \in 0..MaxPages
  <2>1. work[p].who # p
    BY <1>1, InitAssumption DEF Inv, Workers, Worker
  <2> QED
    BY <1>0, <1>1, <2>1, SeesAll, AllMapped DEF TypeOK
<1>7. i + 1 \in 1..Visible(p) /\ i + 1 \in 1..MaxPages /\ i \in Nat
  BY <1>1, <1>6, SizeAssumption DEF Pages
<1>8. Memory(p)' = [Memory(p) EXCEPT ![i + 1] = d]
  <2>1. \A k \in 1..Visible(p) : mem'[frame'[p][k - 1]] = IF k = i + 1 THEN d ELSE mem[frame[p][k - 1]]
    <3>1. \A k \in 1..Visible(p) : k - 1 \in Mapped(p) /\ (k - 1 = i <=> k = i + 1)
      BY <1>1, <1>7, VisiblePages
    <3> QED
      BY <1>4, <3>1
  <2> QED
    BY <1>3, <2>1 DEF Memory
<1>9. vm' = [vm EXCEPT ![p] = [@ EXCEPT ![i + 1] = d]]
  <2>1. vm[p] = Memory(p) /\ state' = state
    BY <1>1, VmIs
  <2>2. vm' = [vm EXCEPT ![p] = [Memory(p) EXCEPT ![i + 1] = d]]
    BY <1>1, <1>5, <1>8, <2>1, VmOne
  <2> QED
    BY <2>1, <2>2
<1>10. M!Has(p) /\ i + 1 \in 1..Len(vm[p])
  BY <1>1, <1>7, VmIs, VisiblePages DEF M!Has
<1>11. M!Write(p, i + 1, d)
  BY <1>9, <1>10 DEF M!Write
<1> QED
  BY <1>7, <1>11 DEF M!Promised

LEMMA GrowMaps == ASSUME Inv, NEW p \in Procs, Grow(p) PROVE M!Promised
<1>0. TypeOK
  BY DEF Inv
<1>1. PICK n \in Pages : /\ n = size[p] /\ work[p].at = "user" /\ state[p] = "running"
                         /\ n \in Nat
  BY <1>0, SizeAssumption DEF Grow, At, TypeOK, Pages
<1>2. PICK h \in Frames : h = Head(freelist) /\ Users(h) = {}
  BY FirstFree DEF Grow
<1>3. /\ UNCHANGED <<state, work>>
      /\ \A q \in Procs : size'[q] = IF q = p THEN n + 1 ELSE size[q]
      /\ \A q \in Procs, j \in Pages :
           frame'[q][j] = IF q = p /\ j = n THEN h ELSE frame[q][j]
      /\ \A g \in Frames : mem'[g] = IF g = h THEN Zero ELSE mem[g]
  BY <1>0, <1>1, <1>2 DEF Grow, TypeOK
<1>4. Visible(p) = n /\ Visible(p)' = n + 1 /\ Mapped(p) = 0..n - 1
  BY <1>1, <1>3, AllMapped, InitAssumption DEF Visible, Inv, Workers, Worker
<1>5. ASSUME NEW q \in Procs, NEW j \in Mapped(q) PROVE mem'[frame'[q][j]] = mem[frame[q][j]]
  <2>1. frame[q][j] \in Frames /\ frame[q][j] # h /\ j \in Pages
    BY <1>2, Used
  <2>2. ~(q = p /\ j = n)
    BY <1>1, <1>4
  <2> QED
    BY <1>3, <2>1, <2>2
<1>6. ASSUME NEW q \in Procs \ {p}, state[q] = "running" PROVE Memory(q)' = Memory(q)
  <2>1. Visible(q)' = Visible(q)
    BY <1>3 DEF Visible
  <2> QED
    BY <1>5, <1>6, <2>1, MemoryKept
<1>7. Memory(p)' = Append(Memory(p), Zero)
  <2>1. \A k \in 1..n : mem'[frame'[p][k - 1]] = mem[frame[p][k - 1]]
    BY <1>1, <1>4, <1>5, VisiblePages
  <2>2. mem'[frame'[p][n]] = Zero
    BY <1>1, <1>3
  <2>3. Memory(p)' = [k \in 1..n + 1 |-> IF k = n + 1 THEN Zero ELSE mem[frame[p][k - 1]]]
    <3>1. \A k \in 1..n + 1 : k \in 1..n \/ k = n + 1
      BY <1>1
    <3>2. \A k \in 1..n : k # n + 1
      BY <1>1
    <3>3. \A k \in 1..n + 1 : mem'[frame'[p][k - 1]] =
            IF k = n + 1 THEN Zero ELSE mem[frame[p][k - 1]]
      <4> SUFFICES ASSUME NEW k \in 1..n + 1
                   PROVE  mem'[frame'[p][k - 1]] =
                            IF k = n + 1 THEN Zero ELSE mem[frame[p][k - 1]]
        OBVIOUS
      <4>1. CASE k \in 1..n
        BY <2>1, <3>2, <4>1
      <4>2. CASE k = n + 1
        <5>1. k - 1 = n
          BY <1>1, <4>2
        <5> QED
          BY <2>2, <4>2, <5>1
      <4> QED
        BY <3>1, <4>1, <4>2
    <3>4. Memory(p)' = [k \in 1..n + 1 |-> mem'[frame'[p][k - 1]]]
      BY <1>4 DEF Memory
    <3> QED
      BY <3>3, <3>4
  <2>4. Memory(p) = [k \in 1..n |-> mem[frame[p][k - 1]]] /\ Memory(p) \in Seq(Data \cup {Junk})
        /\ Len(Memory(p)) = n
    BY <1>1, <1>4, VisiblePages DEF Memory
  <2> QED
    BY <1>1, <2>3, <2>4
<1>8. vm' = [vm EXCEPT ![p] = Append(@, Zero)]
  <2>1. vm' = [vm EXCEPT ![p] = Memory(p)']
    BY <1>1, <1>3, <1>6, VmOne
  <2>2. vm[p] = Memory(p)
    BY <1>1, VmIs
  <2> QED
    BY <1>7, <2>1, <2>2
<1>9. M!Has(p)
  BY <1>1, VmIs, VisiblePages DEF M!Has
<1> QED
  BY <1>8, <1>9 DEF M!Promised, M!Grow

LEMMA ShrinkMaps ==
  ASSUME Inv, NEW p \in Procs, NEW n \in Pages, Shrink(p, n) PROVE M!Promised
<1>0. TypeOK
  BY DEF Inv
<1>1. /\ work'[p].at = "free" /\ work'[p].who = p /\ work'[p].keep = n
      /\ \A q \in Procs \ {p} : work'[q] = work[q]
  BY <1>0 DEF Shrink, User, Go, TypeOK
<1>2. /\ UNCHANGED <<state, size, frame, mem>> /\ state[p] = "running" /\ work[p].at = "user"
      /\ n \in 1..size[p] - 1 /\ size[p] \in 0..MaxPages
  BY <1>0 DEF Shrink, At, ptable, pgdirs, TypeOK
<1>3. n \in 1..MaxPages /\ n < size[p] /\ n \in Nat /\ size[p] \in Nat
  BY <1>2, SizeAssumption
<1>4. Visible(p) = size[p] /\ Visible(p)' = n
  BY <1>1, <1>2, SeesAll DEF Freeing, Visible
<1>5. ASSUME NEW q \in Procs \ {p}, state[q] = "running" PROVE Memory(q)' = Memory(q)
  <2>1. Visible(q)' = Visible(q)
    BY <1>1, <1>2 DEF Visible
  <2> QED
    BY <1>2, <1>5, <2>1, MemoryKept
<1>6. Memory(p)' = SubSeq(Memory(p), 1, n)
  <2>1. Memory(p)' = [k \in 1..n |-> mem[frame[p][k - 1]]]
    BY <1>2, <1>4 DEF Memory
  <2>2. /\ Memory(p) = [k \in 1..size[p] |-> mem[frame[p][k - 1]]]
        /\ Memory(p) \in Seq(Data \cup {Junk}) /\ Len(Memory(p)) = size[p]
    BY <1>2, <1>4, VisiblePages DEF Memory
  <2>3. \A k \in 1..n : k \in 1..size[p] /\ 1 + k - 1 = k
    BY <1>3
  <2>4. SubSeq(Memory(p), 1, n) = [k \in 1..n |-> Memory(p)[k]]
    <3>1. SubSeq(Memory(p), 1, n) = [k \in 1..(1 + n - 1) |-> Memory(p)[1 + k - 1]]
      BY <1>3, <2>2
    <3> QED
      BY <1>3, <2>3, <3>1
  <2>5. \A k \in 1..n : Memory(p)[k] = mem[frame[p][k - 1]]
    BY <2>2, <2>3
  <2> QED
    BY <2>1, <2>4, <2>5
<1>7. vm' = [vm EXCEPT ![p] = SubSeq(@, 1, n)]
  BY <1>2, <1>5, <1>6 DEF vm, Memory
<1>8. M!Has(p) /\ n < Len(vm[p])
  BY <1>2, <1>3, <1>4, VmIs, VisiblePages DEF M!Has
<1>9. M!Shrink(p, n)
  BY <1>7, <1>8 DEF M!Shrink
<1> QED
  BY <1>3, <1>9 DEF M!Promised

LEMMA ExitMaps == ASSUME Inv, NEW p \in Procs, Exit(p) PROVE M!Promised
<1>1. /\ UNCHANGED <<size, work, frame, mem>> /\ state[p] = "running"
      /\ \A q \in Procs : state'[q] = IF q = p THEN "zombie" ELSE state[q]
  BY Exiting DEF Inv, TypeOK, pgdirs
<1>2. ASSUME NEW q \in Procs, state[q] = "running" PROVE Memory(q)' = Memory(q)
  <2>1. Visible(q)' = Visible(q)
    BY <1>1 DEF Visible
  <2> QED
    BY <1>1, <1>2, <2>1, MemoryKept
<1>3. vm' = [vm EXCEPT ![p] = None]
  BY <1>1, <1>2 DEF vm, Memory
<1>4. M!Has(p)
  BY <1>1, VmIs, VisiblePages DEF M!Has
<1> QED
  BY <1>3, <1>4 DEF M!Promised, M!Exit

(* Until a process acts on a count that another one has changed since it   *)
(* looked, copy on write gives each process a memory of its own: what is   *)
(* shared cannot be told from what fork would have copied (vm.c 317-345,   *)
(* 391-444).                                                               *)
THEOREM MemoryIsPrivate == Spec => Abstract
<1>1. Init => M!Init
  BY InitMaps
<1>2. ASSUME Inv, [Next]_vars PROVE M!Promised \/ vm' = vm
  <2>1. ASSUME NEW p \in Procs,
               \/ Forked(p)
               \/ \E i \in Pages, d \in Data : Write(p, i, d)
               \/ Grow(p)
               \/ \E n \in Pages : Shrink(p, n)
               \/ Exit(p)
        PROVE  M!Promised
    BY <1>2, <2>1, ForkMaps, WriteMaps, GrowMaps, ShrinkMaps, ExitMaps
  <2>2. ASSUME NEW p \in Procs,
               \/ \E c \in Procs : Fork(p, c)
               \/ \E c \in Procs : Wait(p, c)
               \/ CopyPage(p)
               \/ CopiedPage(p)
               \/ CopyFails(p)
               \/ \E i \in Pages : PageFault(p, i)
               \/ LooksAgain(p)
               \/ LastUser(p)
               \/ CopyOnWrite(p)
               \/ CopyToNull(p)
               \/ DecreaseLoads(p)
               \/ DecreaseStores(p)
               \/ GrowFails(p)
               \/ Kfree(p)
               \/ KfreeLoads(p)
               \/ KfreeStores(p)
               \/ KfreeLast(p)
               \/ Freed(p)
        PROVE  vm' = vm
    BY <1>2, <2>2, StutterSteps, MemorySteps, SlotSteps
  <2>3. CASE UNCHANGED vars
    BY <2>3 DEF vars, ptable, pgdirs, vm, Visible
  <2> QED
    BY <1>2, <2>1, <2>2, <2>3 DEF Next
<1>3. ASSUME Always, [Next]_vars PROVE [M!Next]_<<vm, outdated>>
  <2>1. outdated' \in BOOLEAN /\ (outdated => outdated')
    BY <1>3, OutdatedStep DEF Always
  <2>2. CASE outdated'
    BY <2>2 DEF M!Next
  <2>3. CASE ~outdated'
    <3>1. Inv /\ UNCHANGED outdated
      BY <1>3, <2>1, <2>3 DEF Always
    <3> QED
      BY <1>2, <1>3, <3>1 DEF M!Next
  <2> QED
    BY <2>1, <2>2, <2>3
<1> QED
  BY <1>1, <1>3, InvAlways, PTL DEF Spec, Abstract, M!Spec
=============================================================================
