----------------------------- MODULE LogProofs ------------------------------
(***************************************************************************)
(* The log never overflows, its header and the cache agree, nobody sleeps  *)
(* in begin_op in vain, and what a crash leaves is the disk between system *)
(* calls: for any numbers of processes and blocks, any size of the log and *)
(* any number of crashes, also during recovery.                            *)
(***************************************************************************)
EXTENDS Log, FiniteSetTheorems, TLAPS

Logged == {lh[i] : i \in 1..Len(lh)}

(* commit runs when no system call is open, and initlog before any process.*)
Phases ==
  /\ committing => /\ stage \in {"log", "head", "install", "clear", "done"}
                   /\ open = {}
  /\ ~committing => stage \in {"idle", "boot", "install", "clear"}
  /\ ~committing /\ stage # "idle" => /\ dirty = {}
                                      /\ \A p \in Procs : pc[p] = "user"
  /\ IF stage \in {"log", "install"} THEN tail < Len(lh) ELSE tail = 0
  /\ stage = "done" \/ (stage = "idle" /\ outstanding = 0) => lh = <<>>
  /\ stage = "head" => lh # <<>>

(* Only a system call changes blocks, as many as it may, each of which it  *)
(* holds from the change until log_write is through.                       *)
Calls ==
  /\ \A p \in Procs : /\ wrote[p] # {} => pc[p] = "op"
                      /\ IsFiniteSet(wrote[p])
                      /\ Cardinality(wrote[p]) <= OpBlocks
  /\ \A p \in tested : pc[p] = "op" /\ Holds(p) /\ buf[p] \in wrote[p]

(* What the open system calls have put in the log. *)
Used == {u \in open \X Logged : u[2] \in wrote[u[1]]}

(* The log has room for what begin_op has promised, and for one block more *)
(* as soon as only one system call is left.                                *)
Reserved ==
  /\ outstanding = Cardinality(open)
  /\ Len(lh) <= LOGSIZE - 2
  /\ outstanding > 0 =>
       Len(lh) + outstanding * MAXOPBLOCKS + (IF outstanding = 1 THEN 1 ELSE 0)
         <= LOGSIZE + Cardinality(Used)

Distinct(s) == \A i, j \in 1..Len(s) : s[i] = s[j] => i = j

(* A block that is not pinned, and that nobody has just changed, is in the *)
(* cache as it is on the disk.                                             *)
Clean == \A b \in Blocks :
           \/ b \in dirty
           \/ data[b] \in {NoData, disk[b]}
           \/ \E p \in tested : buf[p] = b

(* How far commit and recovery are. *)
Contents ==
  /\ Distinct(lh) /\ Distinct(header)
  /\ Len(header) <= LOGSIZE - 2
  /\ stage \in {"idle", "log", "head"} => dirty = Logged
  /\ stage = "install" /\ committing =>
       dirty = {lh[i] : i \in tail + 1..Len(lh)}
  /\ stage \in {"clear", "done"} => dirty = {}
  /\ stage \in {"idle", "log", "head", "done"} => header = <<>>
  /\ stage \in {"install", "clear"} => header = lh
  /\ stage = "log" => \A i \in 1..tail : logged[i] = View(lh[i])
  /\ stage = "head" \/ (stage = "install" /\ committing) =>
       \A i \in 1..Len(lh) : logged[i] = View(lh[i])
  /\ stage = "install" => \A i \in 1..tail : disk[lh[i]] = logged[i]
  /\ stage = "clear" => \A i \in 1..Len(lh) : disk[lh[i]] = logged[i]

Inv == /\ TypeOK /\ ~panicked
       /\ Phases /\ Calls /\ Reserved /\ Clean /\ Contents
       /\ NobodySleepsInVain

-----------------------------------------------------------------------------
(* Counting. *)

LEMMA OpenFinite == /\ IsFiniteSet(open) /\ Cardinality(open) \in Nat
                    /\ Cardinality(open) = 0 <=> open = {}
<1>1. open \subseteq Procs
  BY DEF open
<1>2. IsFiniteSet(open)
  BY <1>1, FS_Subset, ProcAssumption
<1> QED
  BY <1>2, FS_CardinalityType, FS_EmptySet

(* As many blocks per open system call as it may change, at most.          *)
LEMMA Pairs ==
  ASSUME NEW O, IsFiniteSet(O), NEW w, NEW L,
         \A p \in O : IsFiniteSet(w[p]) /\ Cardinality(w[p]) <= OpBlocks
  PROVE  LET U == {u \in O \X L : u[2] \in w[u[1]]}
         IN  /\ IsFiniteSet(U) /\ Cardinality(U) \in Nat
             /\ Cardinality(U) <= Cardinality(O) * OpBlocks
<1> DEFINE U == {u \in O \X L : u[2] \in w[u[1]]}
           S(p) == {b \in w[p] : b \in L}
           num(p) == CHOOSE f : f \in Injection(S(p), 1..OpBlocks)
           T == O \X (1..OpBlocks)
           F == [u \in U |-> <<u[1], num(u[1])[u[2]]>>]
<1>0. OpBlocks \in Nat
  BY SizeAssumption
<1>1. ASSUME NEW p \in O PROVE num(p) \in Injection(S(p), 1..OpBlocks)
  <2> DEFINE n == Cardinality(S(p))
  <2>1. IsFiniteSet(S(p)) /\ n <= OpBlocks /\ n \in Nat
    <3>1. IsFiniteSet(w[p]) /\ Cardinality(w[p]) <= OpBlocks
      BY <1>1
    <3>2. S(p) \in SUBSET w[p]
      OBVIOUS
    <3>3. IsFiniteSet(S(p)) /\ n <= Cardinality(w[p])
      BY <3>1, <3>2, FS_Subset
    <3>4. n \in Nat /\ Cardinality(w[p]) \in Nat
      BY <3>1, <3>3, FS_CardinalityType
    <3> QED
      BY <1>0, <3>1, <3>3, <3>4
  <2>2. ExistsBijection(S(p), 1..n)
    <3>1. IsFiniteSet(1..n) /\ Cardinality(1..n) = n
      BY <2>1, FS_Interval
    <3> HIDE DEF n
    <3> QED
      BY <2>1, <3>1, FS_SameCardinalityBij DEF n
  <2>3. PICK f : f \in Bijection(S(p), 1..n)
    BY <2>2 DEF ExistsBijection
  <2>4. f \in Injection(S(p), 1..OpBlocks)
    <3>1. f \in [S(p) -> 1..n] /\ IsInjective(f)
      BY <2>3 DEF Bijection, Injection
    <3>2. f \in [S(p) -> 1..OpBlocks]
      BY <3>1, <2>1, <1>0
    <3> QED
      BY <3>1, <3>2 DEF Injection
  <2> QED
    BY <2>4
<1>2. IsFiniteSet(T) /\ Cardinality(T) = Cardinality(O) * OpBlocks
  <2>1. IsFiniteSet(1..OpBlocks) /\ Cardinality(1..OpBlocks) = OpBlocks
    BY <1>0, FS_Interval
  <2> QED
    BY <2>1, FS_Product
<1>3. F \in Injection(U, T)
  <2>1. \A u \in U : u[1] \in O /\ u[2] \in S(u[1]) /\ u = <<u[1], u[2]>>
    OBVIOUS
  <2>2. \A p \in O : \A b \in S(p) : num(p)[b] \in 1..OpBlocks
    BY <1>1 DEF Injection
  <2>3. \A p \in O : \A a, b \in S(p) : num(p)[a] = num(p)[b] => a = b
    BY <1>1 DEF Injection, IsInjective
  <2> HIDE DEF num, S, U
  <2>4. F \in [U -> T]
    BY <2>1, <2>2
  <2>5. ASSUME NEW u \in U, NEW v \in U, F[u] = F[v] PROVE u = v
    BY <2>1, <2>3, <2>5
  <2> QED
    BY <2>4, <2>5 DEF Injection, IsInjective
<1> HIDE DEF F, T, U
<1>4. IsFiniteSet(U) /\ Cardinality(U) <= Cardinality(T)
  BY <1>2, <1>3, FS_Injection
<1>5. Cardinality(U) \in Nat
  BY <1>4, FS_CardinalityType
<1> QED
  BY <1>2, <1>4, <1>5 DEF U

LEMMA UsedBound ==
  ASSUME Calls
  PROVE  /\ IsFiniteSet(Used) /\ Cardinality(Used) \in Nat
         /\ Cardinality(Used) <= Cardinality(open) * OpBlocks
<1>1. \A p \in open : IsFiniteSet(wrote[p]) /\ Cardinality(wrote[p]) <= OpBlocks
  BY DEF Calls, open
<1> QED
  BY <1>1, OpenFinite, Pairs DEF Used

LEMMA UsedBoundNext ==
  ASSUME Calls'
  PROVE  /\ IsFiniteSet(Used') /\ Cardinality(Used') \in Nat
         /\ Cardinality(Used') <= Cardinality(open') * OpBlocks
<1>1. \A p \in open' :
        IsFiniteSet(wrote'[p]) /\ Cardinality(wrote'[p]) <= OpBlocks
  BY DEF Calls, open
<1>2. open' \subseteq Procs
  BY DEF open
<1>3. IsFiniteSet(open')
  BY <1>2, FS_Subset, ProcAssumption
<1> QED
  BY <1>1, <1>3, Pairs DEF Used

LEMMA InitInv == Init => Inv
<1> SUFFICES ASSUME Init PROVE Inv
  OBVIOUS
<1>1. open = {}
  BY DEF Init, open
<1>2. TypeOK
  <2>1. <<>> \in Seq(Blocks) /\ Len(<<>>) = 0 /\ 0 \in 0..LOGSIZE /\ 0 <= LOGSIZE
    BY SizeAssumption
  <2> QED
    BY <2>1 DEF Init, TypeOK, Stages
<1>3. Phases
  BY <1>1 DEF Init, Phases
<1>4. Calls
  BY SizeAssumption, FS_EmptySet DEF Init, Calls
<1>5. Reserved
  BY <1>1, SizeAssumption, FS_EmptySet DEF Init, Reserved
<1>6. Clean
  BY DEF Init, Clean
<1>7. Contents
  BY SizeAssumption DEF Init, Contents, Distinct
<1>8. NobodySleepsInVain
  BY DEF Init, NobodySleepsInVain
<1> QED
  BY <1>2, <1>3, <1>4, <1>5, <1>6, <1>7, <1>8 DEF Init, Inv

-----------------------------------------------------------------------------
(* The reservations. *)

(* a blocks for each of n system calls, one less than begin_op reserves.   *)
LEMMA Slack == ASSUME NEW n \in Nat
               PROVE  /\ n * OpBlocks \in Nat /\ n * MAXOPBLOCKS \in Nat
                      /\ n * OpBlocks <= n * MAXOPBLOCKS - n
                      /\ (n + 1) * MAXOPBLOCKS = n * MAXOPBLOCKS + MAXOPBLOCKS
<1> DEFINE k == MAXOPBLOCKS - 1 - OpBlocks
<1>1. k \in Nat /\ OpBlocks \in Nat /\ MAXOPBLOCKS = OpBlocks + 1 + k
  BY SizeAssumption
<1>2. n * k \in Nat /\ n * OpBlocks \in Nat
  BY <1>1
<1> HIDE DEF k
<1>3. n * MAXOPBLOCKS = n * OpBlocks + n + n * k
  BY <1>1
<1>4. (n + 1) * MAXOPBLOCKS = n * MAXOPBLOCKS + MAXOPBLOCKS
  BY <1>1
<1> QED
  BY <1>1, <1>2, <1>3, <1>4

LEMMA RoomForOne ==
  ASSUME NEW n \in Nat, n > 0, NEW reserved \in Nat, NEW may \in Nat,
         may <= reserved - n, NEW used \in Nat, used <= may, NEW l \in Nat,
         l + reserved + (IF n = 1 THEN 1 ELSE 0) <= LOGSIZE + used
  PROVE  l <= LOGSIZE - 2
  BY SizeAssumption

(* There is a block left beyond what begin_op has reserved.                *)
LEMMA RoomLeft ==
  ASSUME Calls, outstanding = Cardinality(open), outstanding > 0,
         Len(lh) \in Nat,
         Len(lh) + outstanding * MAXOPBLOCKS + (IF outstanding = 1 THEN 1 ELSE 0)
           <= LOGSIZE + Cardinality(Used)
  PROVE  Len(lh) <= LOGSIZE - 2
<1>1. outstanding \in Nat
  BY OpenFinite
<1>2. Cardinality(Used) \in Nat /\ Cardinality(Used) <= outstanding * OpBlocks
  BY UsedBound
<1>3. /\ outstanding * OpBlocks \in Nat /\ outstanding * MAXOPBLOCKS \in Nat
      /\ outstanding * OpBlocks <= outstanding * MAXOPBLOCKS - outstanding
  BY <1>1, Slack
<1> QED
  BY <1>1, <1>2, <1>3, RoomForOne

LEMMA BeginReserves ==
  ASSUME Inv, NEW p \in Procs, begin_op(p) PROVE Reserved'
<1>1. CASE committing \/ NoRoom
  <2>1. open' = open /\ UNCHANGED <<outstanding, lh, wrote>>
    BY <1>1 DEF begin_op, open, Inv, TypeOK
  <2>2. Used' = Used
    BY <2>1 DEF Used, Logged
  <2> QED
    BY <2>1, <2>2 DEF Inv, Reserved
<1>2. CASE ~committing /\ ~NoRoom
  <2>1. /\ outstanding' = outstanding + 1 /\ UNCHANGED <<lh, wrote>>
        /\ p \notin open /\ open' = open \cup {p}
    BY <1>2 DEF begin_op, open, Inv, TypeOK
  <2>2. outstanding' = Cardinality(open')
    BY <2>1, OpenFinite, FS_AddElement DEF Inv, Reserved
  <2>3. wrote[p] = {}
    BY <2>1 DEF Inv, Calls, open
  <2>4. Used' = Used
    BY <2>1, <2>3 DEF Used, Logged
  <2>5. Cardinality(Used) \in Nat
    BY UsedBound DEF Inv
  <2>6. Len(lh) \in Nat /\ outstanding \in Nat
    BY DEF Inv, TypeOK
  <2>7. Len(lh) + outstanding' * MAXOPBLOCKS <= LOGSIZE
    BY <1>2, <2>1, <2>6, Slack, SizeAssumption DEF NoRoom
  <2>8. outstanding' = 1 => Len(lh) = 0
    BY <1>2, <2>1, <2>6 DEF begin_op, Up, Inv, Phases
  <2>9. outstanding' = 1 => outstanding' * MAXOPBLOCKS < LOGSIZE
    BY SizeAssumption
  <2>10. outstanding' * MAXOPBLOCKS \in Nat /\ LOGSIZE \in Nat /\ outstanding' \in Nat
    BY <2>1, <2>6, Slack, SizeAssumption
  <2>11. Len(lh') + outstanding' * MAXOPBLOCKS + (IF outstanding' = 1 THEN 1 ELSE 0)
           <= LOGSIZE + Cardinality(Used')
    <3> DEFINE n == outstanding' * MAXOPBLOCKS
               u == Cardinality(Used)
    <3>1. n \in Nat /\ u \in Nat /\ Len(lh) + n <= LOGSIZE
          /\ (outstanding' = 1 => Len(lh) = 0 /\ n < LOGSIZE)
      BY <2>5, <2>7, <2>8, <2>9, <2>10
    <3> HIDE DEF n, u
    <3>2. Len(lh) + n + (IF outstanding' = 1 THEN 1 ELSE 0) <= LOGSIZE + u
      BY <2>6, <2>10, <3>1
    <3> QED
      BY <2>1, <2>4, <3>2 DEF n, u
  <2>12. Len(lh') <= LOGSIZE - 2
    BY <2>1 DEF Inv, Reserved
  <2> QED
    BY <2>2, <2>11, <2>12 DEF Reserved
<1> QED
  BY <1>1, <1>2

LEMMA ModifyReserves ==
  ASSUME Inv, NEW p \in Procs, NEW d \in Data, Modify(p, d), Calls'
  PROVE  Reserved'
<1>1. open' = open /\ UNCHANGED <<outstanding, lh, stage>>
  BY DEF Modify, log, open
<1>2. \A q \in Procs : wrote[q] \subseteq wrote'[q]
  BY DEF Modify, Inv, TypeOK
<1>3. Used \subseteq Used'
  BY <1>1, <1>2 DEF Used, Logged, open
<1>4. IsFiniteSet(Used') /\ Cardinality(Used') \in Nat /\ Cardinality(Used) \in Nat
      /\ Cardinality(Used) <= Cardinality(Used')
  BY <1>3, UsedBound, UsedBoundNext, FS_Subset DEF Inv
<1>5. Len(lh) \in Nat /\ outstanding \in Nat
  BY DEF Inv, TypeOK
<1> QED
  <2>1. outstanding * MAXOPBLOCKS \in Nat /\ LOGSIZE \in Nat
    BY <1>5, Slack, SizeAssumption
  <2> DEFINE n == outstanding * MAXOPBLOCKS
  <2>2. /\ outstanding = Cardinality(open) /\ Len(lh) <= LOGSIZE - 2
        /\ outstanding > 0 => Len(lh) + n + (IF outstanding = 1 THEN 1 ELSE 0)
                                <= LOGSIZE + Cardinality(Used)
    BY DEF Inv, Reserved
  <2>3. n' = n
    BY <1>1
  <2> HIDE DEF n
  <2>4. outstanding > 0 => Len(lh) + n + (IF outstanding = 1 THEN 1 ELSE 0)
                            <= LOGSIZE + Cardinality(Used')
    BY <1>4, <1>5, <2>1, <2>2 DEF n
  <2> QED
    BY <1>1, <2>2, <2>3, <2>4 DEF n, Reserved
LEMMA LogWriteReserves ==
  ASSUME Inv, NEW p \in Procs, log_write(p), Calls' PROVE Reserved'
<1> DEFINE b == buf[p]
<1>1. /\ p \in open /\ b \in wrote[p] /\ b \in Blocks
      /\ UNCHANGED <<outstanding, wrote, pc>>
  BY DEF log_write, Inv, TypeOK, Calls, Holds, open
<1>2. open' = open /\ outstanding = Cardinality(open) /\ outstanding > 0
  BY <1>1, OpenFinite DEF open, Inv, Reserved
<1>3. CASE Absorbed(b)
  <2>1. lh' = lh /\ Used' = Used
    BY <1>1, <1>2, <1>3 DEF log_write, Used, Logged
  <2> QED
    BY <1>1, <1>2, <2>1 DEF Inv, Reserved
<1>4. CASE ~Absorbed(b)
  <2>1. lh' = Append(lh, b) /\ Len(lh') = Len(lh) + 1 /\ Len(lh) \in Nat
    BY <1>1, <1>4 DEF log_write, Inv, TypeOK
  <2>2. b \notin Logged /\ Logged' = Logged \cup {b}
    <3>1. \A i \in 1..Len(lh) : lh'[i] = lh[i]
      BY <2>1 DEF Inv, TypeOK
    <3>2. lh'[Len(lh')] = b
      BY <2>1 DEF Inv, TypeOK
    <3> QED
      BY <1>4, <2>1, <3>1, <3>2 DEF Logged, Absorbed
  <2> DEFINE V == Used \cup {<<p, b>>}
  <2>3. <<p, b>> \notin Used /\ V \subseteq Used'
    BY <1>1, <1>2, <2>2 DEF Used
  <2>4. IsFiniteSet(Used) /\ Cardinality(Used) \in Nat
    BY UsedBound DEF Inv
  <2>5. IsFiniteSet(V) /\ Cardinality(V) = Cardinality(Used) + 1
    BY <2>3, <2>4, FS_AddElement
  <2>6. /\ IsFiniteSet(Used') /\ Cardinality(Used') \in Nat
        /\ Cardinality(Used') <= outstanding * OpBlocks
    BY <1>1, <1>2, UsedBoundNext
  <2>7. Cardinality(V) <= Cardinality(Used')
    BY <2>3, <2>6, FS_Subset
  <2> HIDE DEF V
  <2>8. outstanding \in Nat
    BY DEF Inv, TypeOK
  <2>9. /\ outstanding * OpBlocks \in Nat /\ outstanding * MAXOPBLOCKS \in Nat
        /\ outstanding * OpBlocks <= outstanding * MAXOPBLOCKS - outstanding
    BY <2>8, Slack
  <2>10. Len(lh) + outstanding * MAXOPBLOCKS + (IF outstanding = 1 THEN 1 ELSE 0)
           <= LOGSIZE + Cardinality(Used)
    BY <1>2 DEF Inv, Reserved
  <2>11. Len(lh') + outstanding * MAXOPBLOCKS + (IF outstanding = 1 THEN 1 ELSE 0)
           <= LOGSIZE + Cardinality(Used')
    BY <2>1, <2>4, <2>5, <2>6, <2>7, <2>8, <2>9, <2>10, SizeAssumption
  <2>12. Len(lh') \in Nat /\ outstanding > 0
    BY <1>2, <2>1
  <2>13. Len(lh') <= LOGSIZE - 2
    BY <2>6, <2>8, <2>9, <2>11, <2>12, RoomForOne
  <2> QED
    BY <1>1, <1>2, <2>11, <2>13 DEF Reserved
<1> QED
  BY <1>3, <1>4

LEMMA EndReserves ==
  ASSUME Inv, NEW p \in Procs, end_op(p), Calls' PROVE Reserved'
<1>1. /\ p \in open /\ outstanding' = outstanding - 1 /\ lh' = lh
      /\ wrote' = [wrote EXCEPT ![p] = {}]
  BY DEF end_op, open
<1>2. open' = open \ {p}
  BY DEF end_op, open, Wakeup, Inv, TypeOK
<1>3. outstanding' = Cardinality(open') /\ outstanding \in Nat
  BY <1>1, <1>2, OpenFinite, FS_RemoveElement DEF Inv, Reserved, TypeOK
<1>4. /\ IsFiniteSet(wrote[p]) /\ Cardinality(wrote[p]) \in Nat
      /\ Cardinality(wrote[p]) < MAXOPBLOCKS
  BY FS_CardinalityType, SizeAssumption DEF Inv, Calls
<1> DEFINE Mine == {u \in {p} \X wrote[p] : u[2] \in Logged}
<1>5. IsFiniteSet(Mine) /\ Cardinality(Mine) \in Nat
      /\ Cardinality(Mine) <= Cardinality(wrote[p])
  <2>1. IsFiniteSet({p}) /\ Cardinality({p}) = 1
    BY FS_Singleton
  <2>2. IsFiniteSet({p} \X wrote[p])
        /\ Cardinality({p} \X wrote[p]) = 1 * Cardinality(wrote[p])
    BY <1>4, <2>1, FS_Product
  <2>3. Mine \in SUBSET ({p} \X wrote[p])
    OBVIOUS
  <2>4. IsFiniteSet(Mine) /\ Cardinality(Mine) <= Cardinality({p} \X wrote[p])
    BY <2>2, <2>3, FS_Subset
  <2>5. Cardinality(Mine) \in Nat
    BY <2>4, FS_CardinalityType
  <2> QED
    BY <1>4, <2>2, <2>4, <2>5
<1>6. Used' = Used \ Mine
  BY <1>1, <1>2 DEF Used, Logged, Inv, TypeOK, open
<1>7. IsFiniteSet(Used) /\ Cardinality(Used) \in Nat
  BY UsedBound DEF Inv
<1> HIDE DEF Mine
<1>8. Cardinality(Used) <= Cardinality(Used') + Cardinality(Mine)
      /\ Cardinality(Used') \in Nat
  <2>1. /\ IsFiniteSet(Used \ Mine)
        /\ Cardinality(Used \ Mine) = Cardinality(Used) - Cardinality(Used \cap Mine)
    BY <1>7, FS_Difference
  <2>2. IsFiniteSet(Mine \cap Used)
        /\ Cardinality(Used \cap Mine) <= Cardinality(Mine)
    BY <1>5, FS_Intersection
  <2>3. IsFiniteSet(Used \cap Mine) /\ Cardinality(Used \cap Mine) \in Nat
    BY <1>7, FS_Intersection, FS_CardinalityType
  <2>4. Cardinality(Used \ Mine) \in Nat
    BY <2>1, FS_CardinalityType
  <2> QED
    BY <1>5, <1>6, <1>7, <2>1, <2>2, <2>3, <2>4
<1>9. outstanding > 0
  BY <1>1, <1>3, OpenFinite DEF Inv, Reserved
<1>10. Len(lh) + outstanding * MAXOPBLOCKS + (IF outstanding = 1 THEN 1 ELSE 0)
         <= LOGSIZE + Cardinality(Used)
  BY <1>9 DEF Inv, Reserved
<1>11. /\ outstanding' \in Nat /\ outstanding = outstanding' + 1
       /\ outstanding * MAXOPBLOCKS = outstanding' * MAXOPBLOCKS + MAXOPBLOCKS
       /\ outstanding' * MAXOPBLOCKS \in Nat
  <2>1. outstanding' \in Nat /\ outstanding = outstanding' + 1
    BY <1>1, <1>3, <1>9
  <2> QED
    BY <2>1, Slack
<1>12. Len(lh) \in Nat /\ lh' = lh /\ MAXOPBLOCKS \in Nat /\ LOGSIZE \in Nat
  BY <1>1, SizeAssumption DEF Inv, TypeOK
<1>13. Cardinality(Mine) < MAXOPBLOCKS
  BY <1>4, <1>5, <1>12
<1> DEFINE rest == outstanding' * MAXOPBLOCKS
           reserved == outstanding * MAXOPBLOCKS
           slack(n) == IF n = 1 THEN 1 ELSE 0
<1>14. Len(lh) + rest + slack(outstanding') <= LOGSIZE + Cardinality(Used')
  <2>1. reserved = rest + MAXOPBLOCKS /\ rest \in Nat
    BY <1>11
  <2>2. Len(lh) + reserved + slack(outstanding) <= LOGSIZE + Cardinality(Used)
    BY <1>10
  <2>3. slack(outstanding) \in {0, 1} /\ slack(outstanding') \in {0, 1}
    OBVIOUS
  <2>4. Len(lh) + reserved <= LOGSIZE + Cardinality(Used)
    <3> HIDE DEF reserved
    <3> QED
      BY <1>7, <1>12, <2>1, <2>2, <2>3
  <2> HIDE DEF rest, reserved, slack
  <2> QED
    BY <1>5, <1>7, <1>8, <1>12, <1>13, <2>1, <2>3, <2>4
<1> QED
  BY <1>3, <1>12, <1>14 DEF Inv, Reserved

-----------------------------------------------------------------------------
(* What each system call has changed and holds. *)

LEMMA CallsStep == ASSUME Inv, [Next]_vars PROVE Calls'
<1> USE DEF Calls, Holds
<1>0. /\ NoProc \notin Procs /\ NoBlock \notin Blocks
      /\ Calls /\ tested \subseteq Procs
      /\ lock \in [Blocks -> Procs \cup {NoProc}]
      /\ buf \in [Procs -> Blocks \cup {NoBlock}]
      /\ wrote \in [Procs -> SUBSET Blocks]
      /\ pc \in [Procs -> {"user", "asleep", "awake", "op", "commit"}]
  BY BlockAssumption, ProcAssumption DEF Inv, TypeOK
<1>1. ASSUME NEW p \in Procs, begin_op(p) PROVE Calls'
  BY <1>0, <1>1 DEF begin_op, cache
<1>2. ASSUME NEW p \in Procs, NEW b \in Blocks, bget(p, b) PROVE Calls'
  BY <1>0, <1>2 DEF bget, cache
<1>3. ASSUME NEW p \in Procs, bread(p) PROVE Calls'
  BY <1>0, <1>3 DEF bread, procs
<1>4. ASSUME NEW p \in Procs, NEW d \in Data, Modify(p, d) PROVE Calls'
  <2> DEFINE b == buf[p]
  <2>1. /\ pc[p] = "op" /\ b \in Blocks /\ lock[b] = p
        /\ Cardinality(wrote[p] \cup {b}) <= OpBlocks
        /\ wrote' = [wrote EXCEPT ![p] = @ \cup {b}]
        /\ tested' \subseteq tested \cup {p}
        /\ UNCHANGED <<pc, buf, lock>>
    BY <1>0, <1>4 DEF Modify
  <2>2. IsFiniteSet(wrote[p] \cup {b})
    BY <1>0, FS_AddElement
  <2> QED
    BY <1>0, <2>1, <2>2
<1>5. ASSUME NEW p \in Procs, log_write(p) PROVE Calls'
  BY <1>0, <1>5 DEF log_write
<1>6. ASSUME NEW p \in Procs, brelse(p) PROVE Calls'
  BY <1>0, <1>6 DEF brelse
<1>7. ASSUME NEW p \in Procs, end_op(p) PROVE Calls'
  <2>1. /\ pc[p] = "op" /\ buf[p] = NoBlock
        /\ wrote' = [wrote EXCEPT ![p] = {}]
        /\ UNCHANGED <<lock, buf, tested>>
        /\ \A q \in Procs \ {p} : pc[q] = "op" => pc'[q] = "op"
    BY <1>0, <1>7 DEF end_op, Wakeup, cache
  <2>2. p \notin tested
    BY <1>0, <2>1
  <2>3. IsFiniteSet({}) /\ Cardinality({}) <= OpBlocks
    BY FS_EmptySet, SizeAssumption
  <2> QED
    BY <1>0, <2>1, <2>2, <2>3
<1>8. ASSUME NEW p \in Procs, CommitEnds(p) PROVE Calls'
  <2>1. /\ pc[p] = "commit" /\ UNCHANGED <<lock, buf, tested, wrote>>
        /\ \A q \in Procs \ {p} : pc[q] = "op" => pc'[q] = "op"
    BY <1>0, <1>8 DEF CommitEnds, Wakeup, cache
  <2> QED
    BY <1>0, <2>1
<1>9. ASSUME Crash PROVE Calls'
  BY <1>9, FS_EmptySet, SizeAssumption DEF Crash
<1>10. ASSUME UNCHANGED <<lock, procs>> PROVE Calls'
  BY <1>0, <1>10 DEF procs
<1>11. ASSUME NEW b \in Blocks, Recycle(b) PROVE Calls'
  BY <1>11, <1>10 DEF Recycle
<1>12. CASE write_log \/ write_head \/ install_trans \/ ClearHead \/ read_head
  BY <1>12, <1>10
     DEF write_log, write_head, install_trans, ClearHead, read_head, cache
<1>13. CASE UNCHANGED vars
  BY <1>13, <1>10 DEF vars, procs
<1> QED
  BY <1>1, <1>2, <1>3, <1>4, <1>5, <1>6, <1>7, <1>8, <1>9, <1>11, <1>12, <1>13
     DEF Next

LEMMA ReservedStep == ASSUME Inv, [Next]_vars, Calls' PROVE Reserved'
<1>1. ASSUME UNCHANGED <<open, lh, outstanding, wrote>> PROVE Reserved'
  BY <1>1 DEF Inv, Reserved, Used, Logged
<1>2. ASSUME open' = {}, outstanding' = 0, Len(lh') <= LOGSIZE - 2
      PROVE  Reserved'
  BY <1>2, FS_EmptySet DEF Reserved
<1>3. 0 <= LOGSIZE - 2 /\ Len(header) <= LOGSIZE - 2
  BY SizeAssumption DEF Inv, Contents
<1>4. ASSUME NEW p \in Procs, begin_op(p) PROVE Reserved'
  BY <1>4, BeginReserves
<1>5. ASSUME NEW p \in Procs, NEW d \in Data, Modify(p, d) PROVE Reserved'
  BY <1>5, ModifyReserves
<1>6. ASSUME NEW p \in Procs, log_write(p) PROVE Reserved'
  BY <1>6, LogWriteReserves
<1>7. ASSUME NEW p \in Procs, end_op(p) PROVE Reserved'
  BY <1>7, EndReserves
<1>8. ASSUME NEW b \in Blocks, Recycle(b) \/ \E p \in Procs : bget(p, b)
      PROVE  Reserved'
  BY <1>1, <1>8 DEF bget, Recycle, log, procs, open
<1>9. ASSUME NEW p \in Procs, CommitEnds(p) PROVE Reserved'
  <2>1. open' = open
    BY <1>9 DEF CommitEnds, Wakeup, open, Inv, TypeOK
  <2> QED
    BY <1>1, <1>9, <2>1 DEF CommitEnds
<1>10. CASE write_log \/ write_head \/ install_trans
  BY <1>1, <1>10 DEF write_log, write_head, install_trans, procs, open
<1>11. CASE ClearHead \/ read_head
  <2>1. open = {} /\ Len(lh') <= LOGSIZE - 2 /\ UNCHANGED <<pc, outstanding>>
    BY <1>3, <1>11 DEF ClearHead, read_head, procs, Inv, Phases, open
  <2>2. open' = {} /\ outstanding' = 0
    BY <2>1, OpenFinite DEF open, Inv, Reserved
  <2> QED
    BY <1>2, <2>1, <2>2
<1>12. CASE Crash
  <2>1. open' = {} /\ outstanding' = 0 /\ lh' = <<>>
    BY <1>12 DEF Crash, open
  <2> QED
    BY <1>2, <1>3, <2>1
<1>13. CASE UNCHANGED vars
  BY <1>1, <1>13 DEF vars, open
<1>14. ASSUME NEW p \in Procs, bread(p) \/ brelse(p) PROVE Reserved'
  BY <1>1, <1>14 DEF bread, brelse, log, procs, open
<1> QED
  BY <1>4, <1>5, <1>6, <1>7, <1>8, <1>9, <1>10, <1>11, <1>12, <1>13, <1>14
     DEF Next

-----------------------------------------------------------------------------
(* Where commit and recovery are. *)

(* Processes in a system call find no commit under way.                    *)
LEMMA OpenIsIdle ==
  ASSUME Inv, NEW p \in open, Up
  PROVE  stage = "idle" /\ ~committing /\ outstanding > 0
<1>1. open # {}
  OBVIOUS
<1> QED
  BY <1>1, OpenFinite DEF Inv, Phases, Reserved, Up

LEMMA PhasesStep == ASSUME Inv, [Next]_vars PROVE Phases'
<1>0. Phases /\ outstanding = Cardinality(open) /\ lh \in Seq(Blocks)
      /\ header \in Seq(Blocks) /\ outstanding \in Nat /\ tail \in Nat
      /\ pc \in [Procs -> {"user", "asleep", "awake", "op", "commit"}]
      /\ \A p \in tested : p \in open
      /\ stage \in Stages
      /\ tested \subseteq Procs
  BY DEF Inv, Reserved, Calls, TypeOK, open
<1>1. ASSUME UNCHANGED <<dirty, lh, outstanding, committing, stage, tail, pc>>
      PROVE  Phases'
  BY <1>0, <1>1 DEF Phases, open
<1>2. ASSUME NEW p \in Procs, begin_op(p) PROVE Phases'
  <2>1. CASE committing \/ NoRoom
    <3>1. open' = open
      BY <1>0, <1>2, <2>1 DEF begin_op, open
    <3> QED
      BY <1>0, <1>2, <2>1, <3>1 DEF begin_op, Up, Phases, cache
  <2>2. CASE ~committing /\ ~NoRoom
    BY <1>0, <1>2, <2>2 DEF begin_op, Up, Phases
  <2> QED
    BY <2>1, <2>2
<1>3. ASSUME NEW b \in Blocks, Recycle(b) \/ \E p \in Procs : bget(p, b)
      PROVE  Phases'
  BY <1>1, <1>3 DEF Recycle, bget, cache, log, procs
<1>4. ASSUME NEW p \in Procs, bread(p) \/ brelse(p) PROVE Phases'
  BY <1>1, <1>4 DEF bread, brelse, log, procs
<1>5. ASSUME NEW p \in Procs, NEW d \in Data, Modify(p, d) PROVE Phases'
  BY <1>1, <1>5 DEF Modify, log
<1>6. ASSUME NEW p \in Procs, log_write(p) PROVE Phases'
  <2>1. stage = "idle" /\ ~committing /\ outstanding > 0
    BY <1>0, <1>6, OpenIsIdle DEF log_write
  <2> QED
    BY <1>0, <1>6, <2>1 DEF log_write, Phases, open
<1>7. ASSUME NEW p \in Procs, end_op(p) PROVE Phases'
  <2>1. stage = "idle" /\ ~committing /\ outstanding > 0 /\ p \in open
    BY <1>7, OpenIsIdle DEF end_op, open
  <2>2. open' = open \ {p}
    BY <1>0, <1>7 DEF end_op, open, Wakeup
  <2>3. CASE LastOp
    <3>1. Cardinality(open') = 0 /\ IsFiniteSet(open')
      <4>1. /\ IsFiniteSet(open \ {p})
            /\ Cardinality(open \ {p}) = Cardinality(open) - 1
        BY <2>1, OpenFinite, FS_RemoveElement
      <4>2. Cardinality(open) = 1
        BY <1>0, <2>3 DEF LastOp
      <4> QED
        BY <2>2, <4>1, <4>2
    <3>2. open' = {}
      BY <3>1, FS_EmptySet
    <3>3. lh # <<>> => 0 < Len(lh)
      BY <1>0
    <3> QED
      BY <1>0, <1>7, <2>1, <2>3, <3>2, <3>3 DEF end_op, Phases
  <2>4. CASE ~LastOp
    BY <1>0, <1>7, <2>1, <2>2, <2>4 DEF end_op, LastOp, Phases
  <2> QED
    BY <2>3, <2>4
<1>8. ASSUME NEW p \in Procs, CommitEnds(p) PROVE Phases'
  BY <1>0, <1>8 DEF CommitEnds, Phases
<1>9. CASE write_log
  BY <1>0, <1>9 DEF write_log, Phases, procs, open
<1>10. CASE write_head
  <2>1. committing /\ tail = 0
    BY <1>0, <1>10 DEF write_head, Phases
  <2>2. 0 < Len(lh)
    BY <1>0, <1>10 DEF write_head, Phases
  <2> QED
    BY <1>0, <1>10, <2>1, <2>2 DEF write_head, Phases, procs, open
<1>11. CASE install_trans
  BY <1>0, <1>11 DEF install_trans, Phases, procs, open
<1>12. CASE ClearHead
  BY <1>0, <1>12 DEF ClearHead, Phases, procs, open, cache
<1>13. CASE read_head
  <2>1. header # <<>> => 0 < Len(header)
    BY <1>0
  <2> QED
    BY <1>0, <1>13, <2>1 DEF read_head, Phases, procs, open, cache
<1>14. CASE Crash
  BY <1>14 DEF Crash, Phases, open
<1>15. CASE UNCHANGED vars
  BY <1>1, <1>15 DEF vars
<1> QED
  BY <1>2, <1>3, <1>4, <1>5, <1>6, <1>7, <1>8, <1>9, <1>10, <1>11, <1>12,
     <1>13, <1>14, <1>15 DEF Next

LEMMA NoPanicStep == ASSUME Inv, [Next]_vars PROVE ~panicked'
<1>1. ASSUME NEW p \in Procs, NEW d \in Data, Modify(p, d) PROVE ~panicked'
  <2>1. outstanding > 0 /\ outstanding \in Nat
    BY <1>1, OpenIsIdle DEF Modify, open, Inv, TypeOK
  <2>2. ~TooBig
    BY SizeAssumption DEF Inv, Reserved, TypeOK, TooBig, nlog
  <2> QED
    BY <1>1, <2>1, <2>2 DEF Modify, Inv
<1>2. ASSUME NEW p \in Procs, end_op(p) PROVE ~panicked'
  BY <1>2, OpenIsIdle DEF end_op, open
<1> QED
  BY <1>1, <1>2
     DEF Next, vars, begin_op, bget, bread, log_write, brelse, Recycle, write_log,
         write_head, install_trans, ClearHead, CommitEnds, read_head, Crash, Inv

(* Nobody sleeps but while a commit is under way or there is no room.      *)
LEMMA SleepStep ==
  ASSUME Inv, [Next]_vars, Phases' PROVE NobodySleepsInVain'
<1> USE DEF NobodySleepsInVain
<1>0. /\ NobodySleepsInVain /\ outstanding \in Nat /\ lh \in Seq(Blocks)
      /\ pc \in [Procs -> {"user", "asleep", "awake", "op", "commit"}]
      /\ MAXOPBLOCKS \in Nat /\ LOGSIZE \in Nat
  BY SizeAssumption DEF Inv, TypeOK
<1>1. ASSUME UNCHANGED <<pc, committing, lh, outstanding>>
      PROVE  NobodySleepsInVain'
  BY <1>0, <1>1 DEF NoRoom
<1>2. ASSUME NEW p \in Procs, begin_op(p) PROVE NobodySleepsInVain'
  <2>1. CASE committing \/ NoRoom
    BY <1>0, <1>2, <2>1 DEF begin_op, NoRoom
  <2>2. CASE ~committing /\ ~NoRoom
    <3>1. (outstanding + 1) * MAXOPBLOCKS
            = outstanding * MAXOPBLOCKS + MAXOPBLOCKS
          /\ (outstanding' + 1) * MAXOPBLOCKS
            = outstanding' * MAXOPBLOCKS + MAXOPBLOCKS
          /\ outstanding' = outstanding + 1
          /\ outstanding * MAXOPBLOCKS \in Nat
      BY <1>0, <1>2, <2>2, Slack DEF begin_op
    <3>2. NoRoom => NoRoom'
      BY <2>2
    <3> QED
      BY <1>0, <1>2, <2>2, <3>1 DEF begin_op, NoRoom
  <2> QED
    BY <2>1, <2>2
<1>3. ASSUME NEW b \in Blocks, Recycle(b) \/ \E p \in Procs : bget(p, b)
      PROVE  NobodySleepsInVain'
  BY <1>1, <1>3 DEF Recycle, bget, log, procs
<1>4. ASSUME NEW p \in Procs, bread(p) \/ brelse(p) PROVE NobodySleepsInVain'
  BY <1>1, <1>4 DEF bread, brelse, log, procs
<1>5. ASSUME NEW p \in Procs, NEW d \in Data, Modify(p, d)
      PROVE  NobodySleepsInVain'
  BY <1>1, <1>5 DEF Modify, log
<1>6. ASSUME NEW p \in Procs, log_write(p) PROVE NobodySleepsInVain'
  <2>1. Len(lh') >= Len(lh) /\ Len(lh') \in Nat /\ Len(lh) \in Nat
        /\ UNCHANGED <<pc, committing, outstanding>>
    BY <1>0, <1>6 DEF log_write
  <2>2. (outstanding + 1) * MAXOPBLOCKS \in Nat
    BY <1>0
  <2>3. NoRoom => NoRoom'
    BY <1>0, <2>1, <2>2 DEF NoRoom
  <2> QED
    BY <1>0, <2>1, <2>3
<1>7. ASSUME NEW p \in Procs, end_op(p) PROVE NobodySleepsInVain'
  <2>1. CASE LastOp
    BY <1>7, <2>1 DEF end_op
  <2>2. CASE ~LastOp
    BY <1>0, <1>7, <2>2 DEF end_op, Wakeup
  <2> QED
    BY <2>1, <2>2
<1>8. ASSUME NEW p \in Procs, CommitEnds(p) PROVE NobodySleepsInVain'
  BY <1>0, <1>8 DEF CommitEnds, Wakeup
<1>9. CASE write_log \/ write_head \/ install_trans
  BY <1>1, <1>9 DEF write_log, write_head, install_trans, procs
<1>10. CASE ClearHead \/ read_head
  <2>1. committing \/ \A p \in Procs : pc[p] = "user"
    BY <1>10 DEF ClearHead, read_head, Inv, Phases
  <2> QED
    BY <1>10, <2>1 DEF ClearHead, read_head, procs
<1>11. CASE Crash
  BY <1>11 DEF Crash
<1>12. CASE UNCHANGED vars
  BY <1>1, <1>12 DEF vars
<1> QED
  BY <1>2, <1>3, <1>4, <1>5, <1>6, <1>7, <1>8, <1>9, <1>10, <1>11, <1>12
     DEF Next

-----------------------------------------------------------------------------
(* The types. *)

LEMMA ViewType == ASSUME TypeOK, NEW b \in Blocks PROVE View(b) \in Data
  BY DEF TypeOK, View

LEMMA LogTail ==
  ASSUME Inv, stage \in {"log", "install"}
  PROVE  /\ tail + 1 \in 1..Len(lh) /\ tail + 1 \in 1..LOGSIZE
         /\ lh[tail + 1] \in Blocks
         /\ tail + 1 # Len(lh) => tail + 1 < Len(lh)
<1>1. /\ lh \in Seq(Blocks) /\ Len(lh) <= LOGSIZE /\ LOGSIZE \in Nat
      /\ tail < Len(lh) /\ tail \in Nat
  BY SizeAssumption DEF Inv, TypeOK, Phases
<1> QED
  BY <1>1

LEMMA TypeStep == ASSUME Inv, [Next]_vars, Reserved' PROVE TypeOK'
<1>0. TypeOK /\ LOGSIZE \in Nat
  BY SizeAssumption DEF Inv
<1> USE DEF TypeOK, Stages
<1>1. ASSUME NEW p \in Procs, begin_op(p) PROVE TypeOK'
  <2>1. /\ outstanding' \in Nat
        /\ pc' \in [Procs -> {"user", "asleep", "awake", "op", "commit"}]
    <3>1. /\ \/ pc' = [pc EXCEPT ![p] = "asleep"]
             \/ pc' = [pc EXCEPT ![p] = "op"]
          /\ outstanding' \in {outstanding, outstanding + 1}
      BY <1>1 DEF begin_op
    <3>2. /\ outstanding \in Nat
          /\ pc \in [Procs -> {"user", "asleep", "awake", "op", "commit"}]
      BY <1>0
    <3> QED
      BY <3>1, <3>2
  <2>2. UNCHANGED <<disks, cache, lh, committing, stage, tail, buf, tested, wrote, panicked>>
    BY <1>1 DEF begin_op
  <2> QED
    BY <1>0, <2>1, <2>2 DEF disks, cache
<1>2. ASSUME NEW p \in Procs, NEW b \in Blocks, bget(p, b) PROVE TypeOK'
  BY <1>0, <1>2 DEF bget, disks, cache, log
<1>3. ASSUME NEW p \in Procs, bread(p) PROVE TypeOK'
  <2>1. buf[p] \in Blocks
    BY <1>0, <1>3 DEF bread
  <2> QED
    BY <1>0, <1>3, <2>1, ViewType DEF bread, disks, log, procs
<1>4. ASSUME NEW p \in Procs, NEW d \in Data, Modify(p, d) PROVE TypeOK'
  <2>1. buf[p] \in Blocks
    BY <1>0, <1>4 DEF Modify, Holds
  <2> QED
    BY <1>0, <1>4, <2>1 DEF Modify, disks, log
<1>5. ASSUME NEW p \in Procs, log_write(p) PROVE TypeOK'
  <2>1. buf[p] \in Blocks
    BY <1>0, <1>5 DEF log_write, Inv, Calls, Holds
  <2>2. lh' \in Seq(Blocks) /\ Len(lh') <= LOGSIZE
    BY <1>0, <1>5, <2>1 DEF log_write, Reserved
  <2> QED
    BY <1>0, <1>5, <2>1, <2>2 DEF log_write, disks
<1>6. ASSUME NEW p \in Procs, brelse(p) PROVE TypeOK'
  BY <1>0, <1>6 DEF brelse, disks, log
<1>7. ASSUME NEW p \in Procs, end_op(p) PROVE TypeOK'
  <2>1. outstanding' \in Nat
    BY <1>0, <1>7, OpenIsIdle DEF end_op, open
  <2>2. pc' \in [Procs -> {"user", "asleep", "awake", "op", "commit"}]
    BY <1>0, <1>7 DEF end_op, Wakeup
  <2> QED
    BY <1>0, <1>7, <2>1, <2>2 DEF end_op, disks, cache
<1>8. ASSUME NEW p \in Procs, CommitEnds(p) PROVE TypeOK'
  BY <1>0, <1>8 DEF CommitEnds, Wakeup, disks, cache
<1>9. ASSUME NEW b \in Blocks, Recycle(b) PROVE TypeOK'
  BY <1>0, <1>9 DEF Recycle, disks, log, procs
<1>10. CASE write_log
  <2> DEFINE b == lh[tail + 1]
  <2>1. b \in Blocks /\ View(b) \in Data /\ tail + 1 \in 0..LOGSIZE
    BY <1>10, LogTail, ViewType DEF write_log, Inv
  <2> QED
    BY <1>0, <1>10, <2>1 DEF write_log, procs
<1>11. CASE write_head
  BY <1>0, <1>11 DEF write_head, cache, procs
<1>12. CASE install_trans
  <2> DEFINE b == lh[tail + 1]
  <2>1. b \in Blocks /\ logged[tail + 1] \in Data /\ tail + 1 \in 0..LOGSIZE
    BY <1>0, <1>12, LogTail DEF install_trans
  <2> QED
    BY <1>0, <1>12, <2>1 DEF install_trans, procs
<1>13. CASE ClearHead
  BY <1>0, <1>13 DEF ClearHead, cache, procs
<1>14. CASE read_head
  BY <1>0, <1>14 DEF read_head, disks, cache, procs
<1>15. CASE Crash
  <2>1. <<>> \in Seq(Blocks) /\ Len(<<>>) <= LOGSIZE /\ 0 \in 0..LOGSIZE
    BY <1>0
  <2> QED
    BY <1>0, <1>15, <2>1 DEF Crash, disks
<1>16. CASE UNCHANGED vars
  BY <1>0, <1>16 DEF vars
<1> QED
  BY <1>1, <1>2, <1>3, <1>4, <1>5, <1>6, <1>7, <1>8, <1>9, <1>10, <1>11,
     <1>12, <1>13, <1>14, <1>15, <1>16 DEF Next

-----------------------------------------------------------------------------
(* What the cache holds. *)

LEMMA CleanStep == ASSUME Inv, [Next]_vars PROVE Clean'
<1>0. /\ Clean /\ TypeOK /\ Calls /\ NoData \notin Data
      /\ \A b \in Blocks : disk[b] \in Data
  BY DataAssumption DEF Inv, TypeOK
<1> USE DEF Clean
<1>1. ASSUME UNCHANGED <<disk, data, dirty, buf, tested>> PROVE Clean'
  BY <1>0, <1>1
<1>2. ASSUME NEW p \in Procs, begin_op(p) PROVE Clean'
  BY <1>1, <1>2 DEF begin_op, disks, cache
<1>3. ASSUME NEW p \in Procs, NEW b \in Blocks, bget(p, b) PROVE Clean'
  BY <1>0, <1>3 DEF bget, disks, cache, Calls, Holds, TypeOK
<1>4. ASSUME NEW p \in Procs, bread(p) PROVE Clean'
  BY <1>0, <1>4 DEF bread, disks, procs, View, TypeOK
<1>5. ASSUME NEW p \in Procs, NEW d \in Data, Modify(p, d) PROVE Clean'
  <2>1. /\ tested' = tested \cup {p}
        /\ data' = [data EXCEPT ![buf[p]] = d]
        /\ UNCHANGED <<disk, dirty, buf>>
    BY <1>5, NoPanicStep DEF Modify, disks
  <2> QED
    BY <1>0, <2>1 DEF TypeOK
<1>6. ASSUME NEW p \in Procs, log_write(p) PROVE Clean'
  BY <1>0, <1>6 DEF log_write, disks, TypeOK
<1>7. ASSUME NEW p \in Procs, brelse(p) PROVE Clean'
  BY <1>0, <1>7 DEF brelse, disks, TypeOK
<1>8. ASSUME NEW p \in Procs, end_op(p) \/ CommitEnds(p) PROVE Clean'
  BY <1>1, <1>8 DEF end_op, CommitEnds, disks, cache
<1>9. ASSUME NEW b \in Blocks, Recycle(b) PROVE Clean'
  BY <1>0, <1>9 DEF Recycle, disks, procs, TypeOK
<1>10. CASE write_log
  <2>1. lh[tail + 1] \in Blocks
    BY <1>10, LogTail DEF write_log
  <2> QED
    BY <1>0, <1>10, <2>1 DEF write_log, procs, View, TypeOK
<1>11. CASE write_head
  BY <1>1, <1>11 DEF write_head, cache, procs
<1>12. CASE install_trans
  <2>1. lh[tail + 1] \in Blocks
    BY <1>12, LogTail DEF install_trans
  <2> QED
    BY <1>0, <1>12, <2>1 DEF install_trans, procs, TypeOK
<1>13. CASE ClearHead \/ read_head
  BY <1>1, <1>13 DEF ClearHead, read_head, disks, cache, procs
<1>14. CASE Crash
  BY <1>14 DEF Crash
<1>15. CASE UNCHANGED vars
  BY <1>1, <1>15 DEF vars
<1> QED
  BY <1>2, <1>3, <1>4, <1>5, <1>6, <1>7, <1>8, <1>9, <1>10, <1>11, <1>12,
     <1>13, <1>14, <1>15 DEF Next

(* The log header, the pinned blocks, the log on the disk and the blocks   *)
(* it is copied to agree at every stage.                                   *)
LEMMA ContentsStep == ASSUME Inv, [Next]_vars, Reserved' PROVE Contents'
<1>0. /\ TypeOK /\ Contents /\ Clean /\ Phases /\ Calls /\ lh \in Seq(Blocks)
      /\ header \in Seq(Blocks) /\ NoData \notin Data /\ 0 <= LOGSIZE - 2
  BY DataAssumption, SizeAssumption DEF Inv, TypeOK
<1>1. ASSUME UNCHANGED <<disk, header, logged, dirty, lh, tail, stage, committing>>,
             \A b \in Blocks : View(b)' = View(b)
      PROVE  Contents'
  <2>1. \A i \in 1..Len(lh) : lh[i] \in Blocks
    BY <1>0
  <2>2. stage = "log" => tail < Len(lh) /\ tail \in Nat
    BY <1>0 DEF Phases, TypeOK
  <2>3. stage = "log" => \A i \in 1..tail : lh[i] \in Blocks
    BY <2>1, <2>2, <1>0
  <2> QED
    BY <1>0, <1>1, <2>1, <2>3 DEF Contents, Distinct, Logged
<1>2. ASSUME UNCHANGED <<disk, header, logged, dirty, lh, tail, stage, committing,
                         data>>
      PROVE  Contents'
  BY <1>1, <1>2 DEF View
<1>3. ASSUME NEW p \in Procs, begin_op(p) \/ brelse(p) PROVE Contents'
  BY <1>2, <1>3 DEF begin_op, brelse, disks, cache, log
<1>4. ASSUME NEW p \in Procs, NEW b \in Blocks, bget(p, b) PROVE Contents'
  BY <1>2, <1>4 DEF bget, disks, cache, log
<1>5. ASSUME NEW p \in Procs, bread(p) PROVE Contents'
  <2>1. \A b \in Blocks : View(b)' = View(b)
    BY <1>0, <1>5 DEF bread, View, disks, TypeOK
  <2> QED
    BY <1>1, <1>5, <2>1 DEF bread, disks, log
<1>6. ASSUME NEW b \in Blocks, Recycle(b) PROVE Contents'
  <2>1. data[b] = disk[b]
    BY <1>0, <1>6 DEF Recycle, Clean, TypeOK
  <2>2. \A c \in Blocks : View(c)' = View(c)
    BY <1>0, <1>6, <2>1 DEF Recycle, View, disks, TypeOK
  <2> QED
    BY <1>1, <1>6, <2>2 DEF Recycle, disks, log
<1>7. ASSUME NEW p \in Procs, NEW d \in Data, Modify(p, d) PROVE Contents'
  <2>1. stage = "idle"
    BY <1>7, OpenIsIdle DEF Modify, open
  <2> QED
    BY <1>0, <1>7, <2>1 DEF Modify, disks, log, Contents, Distinct, Logged
<1>8. ASSUME NEW p \in Procs, log_write(p) PROVE Contents'
  <2> DEFINE b == buf[p]
  <2>1. stage = "idle" /\ b \in Blocks
    BY <1>0, <1>8, OpenIsIdle DEF log_write, open, Calls, Holds, TypeOK
  <2>2. UNCHANGED <<disk, header, logged, stage, committing, tail>>
        /\ dirty' = dirty \cup {b}
    BY <1>8 DEF log_write, disks
  <2>3. dirty' = Logged' /\ Distinct(lh')
    <3>1. CASE Absorbed(b)
      BY <1>0, <1>8, <2>1, <2>2, <3>1
         DEF log_write, Absorbed, Contents, Logged, Distinct
    <3>2. CASE ~Absorbed(b)
      <4>1. /\ lh' = Append(lh, b) /\ Len(lh') = Len(lh) + 1
            /\ \A i \in 1..Len(lh) : lh'[i] = lh[i] /\ lh[i] # b
            /\ lh'[Len(lh) + 1] = b /\ Len(lh) \in Nat
        BY <1>0, <1>8, <2>1, <3>2 DEF log_write, Absorbed
      <4>2. dirty = Logged /\ Distinct(lh)
        BY <1>0, <2>1 DEF Contents
      <4>3. Logged' = Logged \cup {b}
        BY <4>1 DEF Logged
      <4>4. Distinct(lh')
        BY <4>1, <4>2 DEF Distinct
      <4> QED
        BY <2>2, <4>2, <4>3, <4>4
    <3> QED
      BY <3>1, <3>2
  <2> QED
    BY <1>0, <2>1, <2>2, <2>3 DEF Contents
<1>9. ASSUME NEW p \in Procs, end_op(p) PROVE Contents'
  <2>1. stage = "idle" /\ tail = 0
    BY <1>0, <1>9, OpenIsIdle DEF end_op, open, Phases
  <2>2. UNCHANGED <<disk, header, logged, data, dirty, lh, tail>>
        /\ stage' \in {"idle", "done", "log"} /\ (stage' = "done" => lh = <<>>)
    BY <1>9, <2>1 DEF end_op, disks, cache
  <2> QED
    BY <1>0, <2>1, <2>2 DEF Contents, Distinct, Logged
<1>10. ASSUME NEW p \in Procs, CommitEnds(p) PROVE Contents'
  <2>1. lh = <<>> /\ stage = "done" /\ stage' = "idle"
        /\ UNCHANGED <<disk, header, logged, dirty, lh, tail>>
    BY <1>0, <1>10 DEF CommitEnds, Phases, disks, cache
  <2> QED
    BY <1>0, <2>1 DEF Contents, Distinct, Logged
<1>11. CASE write_log
  <2> DEFINE b == lh[tail + 1]
  <2>1. /\ b \in Blocks /\ tail + 1 \in 1..Len(lh) /\ tail + 1 \in 1..LOGSIZE
        /\ tail \in Nat /\ stage = "log"
    BY <1>0, <1>11, LogTail DEF write_log, TypeOK
  <2>2. \A c \in Blocks : View(c)' = View(c)
    BY <1>0, <1>11, <2>1, ViewType DEF write_log, View, TypeOK
  <2>3. \A i \in 1..tail + 1 : lh[i] \in Blocks /\ i \in 1..LOGSIZE
    <3>1. Len(lh) \in Nat /\ Len(lh) <= LOGSIZE /\ LOGSIZE \in Nat
      BY <1>0, SizeAssumption DEF TypeOK
    <3>2. \A i \in 1..tail + 1 : i \in 1..Len(lh) /\ i \in 1..LOGSIZE
      BY <2>1, <3>1
    <3> QED
      BY <1>0, <3>2
  <2>4. \A i \in 1..tail + 1 : logged'[i] = View(lh[i])'
    <3>1. \A i \in 1..tail : logged[i] = View(lh[i])
      BY <1>0, <2>1 DEF Contents
    <3>2. /\ logged' = [logged EXCEPT ![tail + 1] = View(b)]
          /\ DOMAIN logged = 1..LOGSIZE /\ lh' = lh
      BY <1>0, <1>11 DEF write_log, TypeOK
    <3>3. \A i \in 1..tail + 1 : View(lh[i])' = View(lh[i])
      BY <2>2, <2>3, <3>2 DEF View
    <3>4. \A i \in 1..tail : logged'[i] = View(lh[i])
      BY <2>1, <2>3, <3>1, <3>2
    <3>5. logged'[tail + 1] = View(lh[tail + 1])
      BY <2>1, <3>2
    <3>6. \A i \in 1..tail + 1 : logged'[i] = View(lh[i])
      BY <2>1, <3>4, <3>5
    <3> QED
      BY <3>3, <3>6
  <2>5. /\ UNCHANGED <<disk, header, dirty, lh, committing>>
        /\ \/ stage' = "head" /\ tail + 1 = Len(lh)
           \/ stage' = "log" /\ tail' = tail + 1
    BY <1>11, <2>1 DEF write_log
  <2> QED
    BY <1>0, <2>1, <2>4, <2>5 DEF Contents, Distinct, Logged
<1>12. CASE write_head
  <2>1. stage = "head" /\ tail = 0 /\ tail' = 0 /\ stage' = "install"
        /\ header' = lh /\ UNCHANGED <<disk, logged, data, dirty, lh, committing>>
    BY <1>0, <1>12 DEF write_head, Phases, cache
  <2>2. Len(lh) <= LOGSIZE - 2
    BY DEF Inv, Reserved
  <2> QED
    BY <1>0, <2>1, <2>2 DEF Contents, Distinct, Logged, View
<1>13. CASE install_trans
  <2> DEFINE b == lh[tail + 1]
  <2>1. /\ b \in Blocks /\ tail + 1 \in 1..Len(lh) /\ tail + 1 \in 1..LOGSIZE
        /\ tail \in Nat /\ stage = "install"
    BY <1>0, <1>13, LogTail DEF install_trans, TypeOK
  <2>2. /\ disk' = [disk EXCEPT ![b] = logged[tail + 1]]
        /\ data' = [data EXCEPT ![b] = logged[tail + 1]]
        /\ dirty' = dirty \ {b}
        /\ UNCHANGED <<header, logged, lh, committing>>
    BY <1>13 DEF install_trans
  <2>3. \/ stage' = "clear" /\ tail' = 0 /\ tail + 1 = Len(lh)
        \/ stage' = "install" /\ tail' = tail + 1
    BY <1>13, <2>1 DEF install_trans
  <2>4. \A i \in 1..Len(lh) : lh[i] \in Blocks /\ (lh[i] = b => i = tail + 1)
    BY <1>0, <2>1 DEF Contents, Distinct
  <2>5. \A i \in 1..tail + 1 : disk'[lh[i]] = logged'[i]
    <3>1. \A i \in 1..tail : i \in 1..Len(lh) /\ i # tail + 1
      BY <1>0, <2>1
    <3>2. \A i \in 1..tail : disk[lh[i]] = logged[i]
      BY <1>0, <2>1 DEF Contents
    <3>3. \A i \in 1..tail : disk'[lh[i]] = logged'[i]
      BY <1>0, <2>2, <2>4, <3>1, <3>2 DEF TypeOK
    <3>4. disk'[b] = logged'[tail + 1]
      BY <1>0, <2>1, <2>2 DEF TypeOK
    <3> QED
      BY <2>1, <3>3, <3>4
  <2>6. committing => \A i \in 1..Len(lh) : logged'[i] = View(lh[i])'
    <3> SUFFICES ASSUME committing, NEW i \in 1..Len(lh)
                 PROVE  logged'[i] = View(lh[i])'
      OBVIOUS
    <3>1. logged[i] = View(lh[i])
      BY <1>0, <2>1 DEF Contents
    <3>2. CASE i = tail + 1
      BY <1>0, <2>1, <2>2, <3>2 DEF View, TypeOK
    <3>3. CASE i # tail + 1
      BY <1>0, <2>2, <2>4, <3>1, <3>3 DEF View, TypeOK
    <3> QED
      BY <3>2, <3>3
  <2>7. committing => dirty' = {lh[i] : i \in tail + 2..Len(lh)}
    <3>1. committing => dirty = {lh[i] : i \in tail + 1..Len(lh)}
      BY <1>0, <2>1 DEF Contents
    <3>2. tail + 1..Len(lh) = {tail + 1} \cup (tail + 2..Len(lh))
      BY <1>0, <2>1
    <3>3. \A i \in tail + 2..Len(lh) : lh[i] # b
      BY <1>0, <2>1, <2>4
    <3> QED
      BY <2>2, <3>1, <3>2, <3>3
  <2>8. ~committing => dirty' = {}
    BY <1>0, <2>1, <2>2 DEF Phases
  <2>9. CASE stage' = "clear" /\ tail' = 0 /\ tail + 1 = Len(lh)
    <3>1. dirty' = {}
      BY <2>1, <2>7, <2>8, <2>9
    <3> QED
      BY <1>0, <2>1, <2>2, <2>5, <2>9, <3>1 DEF Contents, Distinct
  <2>10. CASE stage' = "install" /\ tail' = tail + 1
    <3>1. committing => dirty' = {lh[i] : i \in tail' + 1..Len(lh)}
      BY <2>1, <2>7, <2>10
    <3> QED
      BY <1>0, <2>1, <2>2, <2>5, <2>6, <2>10, <3>1 DEF Contents, Distinct
  <2> QED
    BY <2>3, <2>9, <2>10
<1>14. CASE ClearHead
  <2>1. /\ stage = "clear" /\ stage' \in {"idle", "done"}
        /\ header' = <<>> /\ lh' = <<>> /\ dirty' = dirty
    BY <1>14 DEF ClearHead, cache
  <2> QED
    BY <1>0, <2>1 DEF Contents, Distinct, Logged
<1>15. CASE read_head
  <2>1. /\ stage = "boot" /\ ~committing /\ tail = 0
        /\ lh' = header /\ UNCHANGED <<header, dirty, committing, tail>>
        /\ \/ stage' = "install"
           \/ stage' = "clear" /\ header = <<>>
    <3>1. stage = "boot" /\ ~committing /\ tail = 0
      BY <1>0, <1>15 DEF read_head, Phases
    <3>2. stage' = "install" \/ (stage' = "clear" /\ header = <<>>)
      BY <1>15 DEF read_head
    <3>3. lh' = header /\ UNCHANGED <<header, dirty, committing, tail>>
      BY <1>15 DEF read_head, disks, cache
    <3> QED
      BY <3>1, <3>2, <3>3
  <2>2. dirty = {}
    BY <1>0, <2>1 DEF Phases
  <2> QED
    BY <1>0, <2>1, <2>2 DEF Contents, Distinct
<1>16. CASE Crash
  BY <1>0, <1>16 DEF Crash, disks, Contents, Distinct
<1>17. CASE UNCHANGED vars
  BY <1>2, <1>17 DEF vars
<1> QED
  BY <1>3, <1>4, <1>5, <1>6, <1>7, <1>8, <1>9, <1>10, <1>11, <1>12, <1>13,
     <1>14, <1>15, <1>16, <1>17 DEF Next

-----------------------------------------------------------------------------
LEMMA NextInv == Inv /\ [Next]_vars => Inv'
<1> SUFFICES ASSUME Inv, [Next]_vars PROVE Inv'
  OBVIOUS
<1>1. Calls' /\ Phases' /\ Clean' /\ ~panicked'
  BY CallsStep, PhasesStep, CleanStep, NoPanicStep
<1>2. Reserved'
  BY <1>1, ReservedStep
<1>3. TypeOK' /\ Contents' /\ NobodySleepsInVain'
  BY <1>1, <1>2, TypeStep, ContentsStep, SleepStep
<1> QED
  BY <1>1, <1>2, <1>3 DEF Inv

LEMMA Invariance == Spec => []Inv
  BY InitInv, NextInv, PTL DEF Spec

(* The cache and the log header in memory agree, each block is in the      *)
(* header once, and begin_op lets nobody sleep for room that is there.     *)
THEOREM HeaderAgrees == Spec => []Invariants
<1>1. Inv => PinnedAreLogged
  BY DEF Inv, Contents, PinnedAreLogged, Logged, Distinct
<1>2. Inv => Invariants
  BY <1>1 DEF Inv, Invariants
<1> QED
  BY <1>2, Invariance, PTL

(* The log does not overflow and nothing panics, whatever the sizes, as    *)
(* long as a system call changes one block less than begin_op reserves.    *)
THEOREM NeverFull == Spec => []NoPanic
<1>1. Inv => NoPanic
  BY SizeAssumption DEF Inv, TypeOK, Reserved, NoPanic, nlog
<1> QED
  BY <1>1, Invariance, PTL

-----------------------------------------------------------------------------
(* Refinement. *)

InHeader(b) == \E i \in 1..Len(header) : header[i] = b

(* What recovery would find for a block. *)
LEMMA StableIs ==
  ASSUME Inv, NEW b \in Blocks
  PROVE  /\ \A i \in 1..Len(header) : header[i] = b => stable[b] = logged[i]
         /\ ~InHeader(b) => stable[b] = disk[b]
<1>1. \A i, j \in 1..Len(header) : header[i] = header[j] => i = j
  BY DEF Inv, Contents, Distinct
<1>2. ASSUME NEW i \in 1..Len(header), header[i] = b
      PROVE  stable[b] = logged[i]
  <2>1. (CHOOSE j \in 1..Len(header) : header[j] = b) = i
    BY <1>1, <1>2
  <2> QED
    BY <1>2, <2>1 DEF stable
<1> QED
  BY <1>2 DEF stable, InHeader

LEMMA StableSame == ASSUME UNCHANGED disks PROVE stable' = stable
  BY DEF disks, stable

LEMMA NowSame ==
  ASSUME (committing \/ stage = "idle")' <=> (committing \/ stage = "idle"),
         stable' = stable, \A b \in Blocks : View(b)' = View(b)
  PROVE  now' = now
  BY DEF now

(* A block that is not in the log, with no system call open.               *)
LEMMA Settled ==
  ASSUME Inv, open = {}, NEW b \in Blocks, b \notin dirty
  PROVE  View(b) = disk[b]
  BY DEF Inv, TypeOK, Calls, open, Clean, View

LEMMA InitRefines == Init => A!Init
<1> SUFFICES ASSUME Init PROVE A!Init
  OBVIOUS
<1>1. stable = [b \in Blocks |-> disk[b]] /\ now = stable
  BY DEF Init, stable, now
<1>2. stable \in [Blocks -> Data]
  BY <1>1 DEF Init
<1> QED
  BY <1>1, <1>2 DEF A!Init, Init, open

(* A system call's change of a buffer is the write it promises.            *)
LEMMA ModifyRefines ==
  ASSUME Inv, NEW p \in Procs, NEW d \in Data, Modify(p, d)
  PROVE  A!Next
<1> DEFINE b == buf[p]
<1>1. /\ b \in Blocks /\ p \in open /\ open' = open /\ stable' = stable
      /\ stage = "idle" /\ stage' = "idle"
  BY OpenIsIdle, StableSame DEF Modify, Holds, Inv, TypeOK, open, log
<1>2. \A c \in Blocks : View(c)' = IF c = b THEN d ELSE View(c)
  BY <1>1, DataAssumption DEF Modify, View, disks, Inv, TypeOK
<1>3. now' = [now EXCEPT ![b] = d]
  BY <1>1, <1>2 DEF now
<1> QED
  BY <1>1, <1>3 DEF A!Next, A!Write

(* The write of the header is the commit.                                  *)
LEMMA WriteHeadRefines == ASSUME Inv, write_head PROVE A!Commit
<1>1. /\ committing /\ committing' /\ stage = "head" /\ open = {}
      /\ header' = lh /\ UNCHANGED <<disk, logged, data, open, lh>>
  BY DEF write_head, cache, procs, open, Inv, Phases
<1>2. now = [b \in Blocks |-> View(b)] /\ now' = now
  BY <1>1 DEF now, View
<1>3. ASSUME NEW b \in Blocks PROVE stable'[b] = View(b)
  <2>1. CASE \E i \in 1..Len(lh) : lh[i] = b
    <3>1. \A i \in 1..Len(lh) : logged[i] = View(lh[i])
      BY <1>1 DEF Inv, Contents
    <3> DEFINE j == CHOOSE i \in 1..Len(lh) : lh[i] = b
    <3>2. j \in 1..Len(lh) /\ lh[j] = b
      BY <2>1
    <3>3. stable'[b] = logged[j]
      BY <1>1, <2>1 DEF stable
    <3> HIDE DEF j
    <3> QED
      BY <3>1, <3>2, <3>3
  <2>2. CASE ~ \E i \in 1..Len(lh) : lh[i] = b
    <3>1. b \notin dirty
      BY <1>1, <2>2 DEF Inv, Contents, Logged
    <3>2. stable'[b] = disk[b]
      BY <1>1, <2>2 DEF stable
    <3> QED
      BY <1>1, <3>1, <3>2, Settled
  <2> QED
    BY <2>1, <2>2
<1>4. stable' = now
  BY <1>2, <1>3 DEF stable
<1> QED
  BY <1>1, <1>2, <1>4 DEF A!Commit

(* Copies to the log and copies home change nothing that can be seen, now  *)
(* or after a crash.                                                       *)
LEMMA WriteLogRefines ==
  ASSUME Inv, write_log PROVE UNCHANGED <<now, stable, open>>
<1> DEFINE b == lh[tail + 1]
<1>1. b \in Blocks /\ stage = "log"
  BY LogTail DEF write_log
<1>2. header = <<>> /\ committing /\ committing'
      /\ UNCHANGED <<disk, header, open>>
  BY <1>1 DEF write_log, procs, open, Inv, Contents, Phases
<1>3. \A c \in Blocks : View(c)' = View(c)
  BY <1>1, ViewType, DataAssumption DEF write_log, View, Inv, TypeOK
<1>4. stable = [c \in Blocks |-> disk[c]] /\ stable' = [c \in Blocks |-> disk[c]]
  BY <1>2 DEF stable
<1> QED
  BY <1>2, <1>3, <1>4, NowSame

LEMMA InstallRefines ==
  ASSUME Inv, Inv', install_trans PROVE UNCHANGED <<now, stable, open>>
<1> DEFINE b == lh[tail + 1]
<1>1. b \in Blocks /\ stage = "install" /\ tail + 1 \in 1..Len(lh)
  BY LogTail DEF install_trans
<1>2. /\ disk' = [disk EXCEPT ![b] = logged[tail + 1]]
      /\ data' = [data EXCEPT ![b] = logged[tail + 1]]
      /\ header = lh /\ UNCHANGED <<header, logged, open, committing>>
  BY <1>1 DEF install_trans, procs, open, Inv, Contents
<1>3. stage' # "idle"
  BY <1>1 DEF install_trans
<1>4. ASSUME NEW c \in Blocks PROVE stable'[c] = stable[c]
  BY <1>1, <1>2 DEF stable, Inv, TypeOK
<1>5. stable' = stable
  BY <1>4 DEF stable
<1>6. CASE committing
  <2>1. logged[tail + 1] = View(b)
    BY <1>1, <1>6 DEF Inv, Contents
  <2>2. \A c \in Blocks : View(c)' = View(c)
    BY <1>1, <1>2, <2>1, ViewType, DataAssumption DEF View, Inv, TypeOK
  <2> QED
    BY <1>2, <1>5, <1>6, <2>2, NowSame
<1>7. CASE ~committing
  BY <1>1, <1>2, <1>3, <1>5, <1>7 DEF now
<1> QED
  BY <1>6, <1>7

LEMMA ClearHeadRefines ==
  ASSUME Inv, ClearHead PROVE UNCHANGED <<now, stable, open>>
<1>1. /\ stage = "clear" /\ header = lh /\ header' = <<>>
      /\ UNCHANGED <<disk, logged, data, open, committing>>
      /\ dirty = {} /\ open = {}
      /\ stage' = IF committing THEN "done" ELSE "idle"
  BY DEF ClearHead, cache, procs, open, Inv, Contents, Phases
<1>2. stable' = [b \in Blocks |-> disk[b]]
  BY <1>1 DEF stable
<1>3. ASSUME NEW b \in Blocks PROVE stable[b] = disk[b]
  <2>1. \A i \in 1..Len(header) : disk[header[i]] = logged[i]
    BY <1>1 DEF Inv, Contents
  <2> QED
    BY <2>1, StableIs DEF InHeader
<1>4. stable' = stable
  BY <1>2, <1>3 DEF stable
<1>5. \A b \in Blocks : View(b)' = View(b) /\ View(b) = disk[b]
  BY <1>1, Settled DEF View
<1>6. CASE committing
  BY <1>1, <1>4, <1>5, <1>6, NowSame
<1>7. CASE ~committing
  <2>1. now = stable
    BY <1>1, <1>7 DEF now
  <2>2. now' = [b \in Blocks |-> disk[b]]
    BY <1>1, <1>5, <1>7 DEF now
  <2> QED
    BY <1>1, <1>2, <1>4, <2>1, <2>2
<1> QED
  BY <1>6, <1>7

LEMMA StepRefines ==
  ASSUME Inv, Inv', [Next]_vars PROVE [A!Next]_<<now, stable, open>>
<1>1. ASSUME NEW p \in Procs, begin_op(p) PROVE [A!Next]_<<now, stable, open>>
  <2>1. stable' = stable /\ now' = now
    BY <1>1, StableSame, NowSame DEF begin_op, cache, disks, View
  <2>2. open' = open \/ (p \notin open /\ open' = open \cup {p})
    BY <1>1 DEF begin_op, open, Inv, TypeOK
  <2> QED
    BY <2>1, <2>2 DEF A!Next, A!Begin
<1>2. ASSUME NEW p \in Procs, brelse(p) \/ log_write(p)
      PROVE  UNCHANGED <<now, stable, open>>
  BY <1>2, StableSame, NowSame
     DEF brelse, log_write, cache, disks, View, log, open
<1>3. ASSUME NEW p \in Procs, NEW b \in Blocks, bget(p, b)
      PROVE  UNCHANGED <<now, stable, open>>
  BY <1>3, StableSame, NowSame DEF bget, cache, disks, View, log, open
<1>4. ASSUME NEW p \in Procs, bread(p) PROVE UNCHANGED <<now, stable, open>>
  <2>1. \A b \in Blocks : View(b)' = View(b)
    BY <1>4, ViewType, DataAssumption DEF bread, View, disks, Inv, TypeOK
  <2> QED
    BY <1>4, <2>1, StableSame, NowSame DEF bread, log, procs, open
<1>5. ASSUME NEW b \in Blocks, Recycle(b) PROVE UNCHANGED <<now, stable, open>>
  <2>1. data[b] = disk[b]
    BY <1>5 DEF Recycle, Inv, Clean, TypeOK
  <2>2. \A c \in Blocks : View(c)' = View(c)
    BY <1>5, <2>1 DEF Recycle, View, disks, Inv, TypeOK
  <2> QED
    BY <1>5, <2>2, StableSame, NowSame DEF Recycle, log, procs, open
<1>6. ASSUME NEW p \in Procs, NEW d \in Data, Modify(p, d) PROVE A!Next
  BY <1>6, ModifyRefines
<1>7. ASSUME NEW p \in Procs, end_op(p) PROVE A!Next
  <2>1. stage = "idle" /\ p \in open
    BY <1>7, OpenIsIdle DEF end_op, open
  <2>2. open' = open \ {p}
    BY <1>7 DEF end_op, open, Wakeup, Inv, TypeOK
  <2>3. stable' = stable /\ (committing \/ stage = "idle")'
        /\ UNCHANGED <<disk, data>>
    BY <1>7, <2>1, StableSame DEF end_op, cache, disks
  <2>4. now' = now
    BY <2>1, <2>3, NowSame DEF View
  <2> QED
    BY <2>1, <2>2, <2>3, <2>4 DEF A!Next, A!End
<1>8. ASSUME NEW p \in Procs, CommitEnds(p)
      PROVE  UNCHANGED <<now, stable, open>>
  <2>1. committing /\ stage' = "idle" /\ UNCHANGED <<disk, data>>
    BY <1>8 DEF CommitEnds, cache, disks, Inv, Phases
  <2>2. open' = open
    BY <1>8 DEF CommitEnds, Wakeup, open, Inv, TypeOK
  <2>3. stable' = stable
    BY <1>8, StableSame DEF CommitEnds
  <2> QED
    BY <2>1, <2>2, <2>3, NowSame DEF View
<1>9. CASE write_log
  BY <1>9, WriteLogRefines
<1>10. CASE write_head
  BY <1>10, WriteHeadRefines DEF A!Next
<1>11. CASE install_trans
  BY <1>11, InstallRefines
<1>12. CASE ClearHead
  BY <1>12, ClearHeadRefines
<1>13. CASE read_head
  <2>1. ~committing /\ ~committing' /\ stage # "idle" /\ stage' # "idle"
    BY <1>13 DEF read_head, Inv, Phases
  <2>2. stable' = stable /\ open' = open
    BY <1>13, StableSame DEF read_head, procs, open
  <2> QED
    BY <2>1, <2>2 DEF now
<1>14. CASE Crash
  <2>1. stable' = stable /\ open' = {} /\ now' = stable'
    BY <1>14, StableSame DEF Crash, open, now
  <2> QED
    BY <2>1 DEF A!Next, A!Crash
<1>15. CASE UNCHANGED vars
  BY <1>15, StableSame, NowSame DEF vars, disks, View, open
<1> QED
  BY <1>1, <1>2, <1>3, <1>4, <1>5, <1>6, <1>7, <1>8, <1>9, <1>10, <1>11,
     <1>12, <1>13, <1>14, <1>15 DEF Next

(* The log implements the atomic disk: whatever crashes interrupt, also a  *)
(* recovery, what is found afterwards is the disk as it was when no system *)
(* call was half done.                                                     *)
THEOREM Refines == Spec => Abstract
  BY InitRefines, StepRefines, Invariance, PTL
     DEF Spec, Abstract, A!Spec, A!vars
=============================================================================
