--------------------------- MODULE SimpleFSProofs ---------------------------
(***************************************************************************)
(* What SimpleFS keeps on its disk, for every number of inodes, blocks and *)
(* handles and every size of a block: the disk is consistent and no block  *)
(* is lost but by the write that fails in its edge case.  The operations   *)
(* but one disturb little; the write rests on what its helpers return,     *)
(* which is proved first: the least of a set, the k-th of a set, the k     *)
(* lowest free blocks, the blocks of a list, and how many blocks it needs. *)
(***************************************************************************)
EXTENDS SimpleFS, FiniteSetTheorems, WellFoundedInduction, TLAPS

-----------------------------------------------------------------------------
(* Numbers and sets of numbers                                             *)

(* A number is its quotient and its remainder.                             *)
LEMMA Division ==
  ASSUME NEW a \in Int, NEW d \in Nat \ {0}
  PROVE  /\ a \div d \in Int
         /\ a % d \in 0..(d - 1)
         /\ a = (a \div d) * d + (a % d)
BY SMT

(* A non-empty set of naturals has a least member.                         *)
LEMMA Least ==
  ASSUME NEW S \in SUBSET Nat, S # {}
  PROVE  \E x \in S : \A y \in S : x <= y
<1> DEFINE R == OpToRel(LAMBDA x, y : x < y, Nat)
<1>1. IsWellFoundedOn(R, Nat)
  BY NatLessThanWellFounded DEF OpToRel
<1>2. PICK x \in S : \A y \in S : <<y, x>> \notin R
  <2> HIDE DEF R
  <2> QED BY <1>1, WFMin
<1>3. \A y \in S : ~(y < x)
  BY <1>2, Zenon DEF OpToRel
<1> QED BY <1>3

(* Min is that member.                                                     *)
LEMMA MinIs ==
  ASSUME NEW S \in SUBSET Nat, S # {}
  PROVE  Min(S) \in S /\ \A y \in S : Min(S) <= y
BY Least DEF Min

(* How many members of S lie below b.                                      *)
Below(S, b) == {c \in S : c < b}

(* A set of numbers under m has a member with exactly k members below it,  *)
(* for every k smaller than its size.                                      *)
LEMMA Ranked ==
  ASSUME NEW m \in Nat, NEW S \in SUBSET Nat, \A s \in S : s <= m,
         NEW k \in Nat, k < Cardinality(S)
  PROVE  \E b \in S : Cardinality(Below(S, b)) = k
<1> DEFINE C == {b \in Nat : Cardinality(Below(S, b)) > k}
<1>0. IsFiniteSet(S)
  BY FS_BoundedSetOfNaturals
<1>n. \A s \in S : s \in Nat
  OBVIOUS
<1>1. \A b : IsFiniteSet(Below(S, b)) /\ Cardinality(Below(S, b)) \in Nat
  <2> TAKE b
  <2>1. Below(S, b) \in SUBSET S
    BY DEF Below
  <2> QED BY <1>0, <2>1, FS_Subset, FS_CardinalityType
<1>2. Below(S, m + 1) = S
  <2>1. \A s \in S : s < m + 1
    BY <1>n
  <2> QED BY <2>1 DEF Below
<1>3. m + 1 \in C
  BY <1>2
<1>4. PICK x \in C : \A y \in C : x <= y
  BY <1>3, Least
<1>5. x # 0
  <2>1. \A s \in S : ~(s < 0)
    BY <1>n
  <2>2. Below(S, 0) = {}
    BY <2>1 DEF Below
  <2> QED BY <2>2, FS_EmptySet
<1>6. x - 1 \in Nat /\ x - 1 \notin C
  BY <1>4, <1>5
<1>7. Cardinality(Below(S, x - 1)) <= k
  BY <1>1, <1>6
<1>8. x - 1 \in S
  <2> SUFFICES ASSUME x - 1 \notin S PROVE FALSE
    OBVIOUS
  <2>1. \A s \in S : s < x <=> s < x - 1
    BY <1>n, <1>4
  <2>2. Below(S, x) = Below(S, x - 1)
    BY <2>1 DEF Below
  <2> QED BY <1>1, <1>4, <1>7, <2>2
<1>9. Below(S, x) = Below(S, x - 1) \cup {x - 1}
  <2>1. \A s \in S : s < x <=> s < x - 1 \/ s = x - 1
    BY <1>n, <1>4
  <2> QED BY <1>8, <2>1 DEF Below
<1>10. Cardinality(Below(S, x)) <= Cardinality(Below(S, x - 1)) + 1
  <2> DEFINE T == Below(S, x - 1)
  <2>1. IsFiniteSet(T) /\ Cardinality(T) \in Nat
    BY <1>1
  <2>2. Cardinality(T \cup {x - 1}) <= Cardinality(T) + 1
    <3> HIDE DEF T
    <3>1. \A y : Cardinality(T \cup {y}) <= Cardinality(T) + 1
      <4> TAKE y
      <4>1. Cardinality(T \cup {y}) = IF y \in T THEN Cardinality(T)
                                               ELSE Cardinality(T) + 1
        BY <2>1, FS_AddElement, Zenon
      <4> QED BY <2>1, <4>1
    <3> QED BY <3>1
  <2>3. Cardinality(Below(S, x)) = Cardinality(T \cup {x - 1})
    BY <1>9, Zenon
  <2> QED BY <2>2, <2>3
<1>11. Cardinality(Below(S, x - 1)) = k
  BY <1>1, <1>4, <1>7, <1>10
<1> QED BY <1>8, <1>11

(* Only one member of S has exactly k members below it.                    *)
LEMMA RankedOnce ==
  ASSUME NEW m \in Nat, NEW S \in SUBSET Nat, \A s \in S : s <= m,
         NEW b \in S, NEW c \in S,
         Cardinality(Below(S, b)) = Cardinality(Below(S, c))
  PROVE  b = c
<1>0. IsFiniteSet(S)
  BY FS_BoundedSetOfNaturals
<1>n. \A s \in S : s \in Nat
  OBVIOUS
<1>1. \A x : IsFiniteSet(Below(S, x)) /\ Cardinality(Below(S, x)) \in Nat
  <2> TAKE x
  <2>1. Below(S, x) \in SUBSET S
    BY DEF Below
  <2> QED BY <1>0, <2>1, FS_Subset, FS_CardinalityType
<1>2. ASSUME NEW x \in S, NEW y \in S, x < y
      PROVE  Cardinality(Below(S, x)) # Cardinality(Below(S, y))
  <2>1. \A s \in S : s < x => s < y
    BY <1>n, <1>2
  <2>2. Below(S, x) \in SUBSET Below(S, y)
    BY <2>1 DEF Below
  <2>3. x \in Below(S, y) /\ x \notin Below(S, x)
    BY <1>n, <1>2 DEF Below
  <2> QED BY <1>1, <2>2, <2>3, FS_Subset
<1> QED BY <1>n, <1>2

(* Nth(S, k) is that member, and every member is the n-th for one n.       *)
LEMMA NthIs ==
  ASSUME NEW m \in Nat, NEW S \in SUBSET Nat, \A s \in S : s <= m,
         NEW k \in Nat, k < Cardinality(S)
  PROVE  Nth(S, k) \in S /\ Cardinality(Below(S, Nth(S, k))) = k
<1>1. \E b \in S : Cardinality(Below(S, b)) = k
  BY Ranked
<1> QED BY <1>1, Zenon DEF Nth, Below

LEMMA NthOnto ==
  ASSUME NEW m \in Nat, NEW S \in SUBSET Nat, \A s \in S : s <= m,
         NEW b \in S
  PROVE  \E k \in Nat : k < Cardinality(S) /\ Nth(S, k) = b
<1> DEFINE k == Cardinality(Below(S, b))
<1>0. IsFiniteSet(S)
  BY FS_BoundedSetOfNaturals
<1>1. Below(S, b) \in SUBSET S /\ b \notin Below(S, b)
  BY DEF Below
<1>2. k \in Nat /\ k < Cardinality(S)
  BY <1>0, <1>1, FS_Subset, FS_CardinalityType
<1>3. Nth(S, k) \in S /\ Cardinality(Below(S, Nth(S, k))) = k
  <2> HIDE DEF k
  <2> QED BY <1>2, NthIs
<1>4. Nth(S, k) = b
  BY <1>3, RankedOnce
<1> QED BY <1>2, <1>4

(* The k lowest free blocks are k free blocks, when there are that many.   *)
LEMMA LowestIs ==
  ASSUME NEW used, NEW k \in Nat, k <= Cardinality(Blocks \ used)
  PROVE  /\ Lowest(k, used) \subseteq Blocks \ used
         /\ Cardinality(Lowest(k, used)) = k
<1> DEFINE Free == Blocks \ used
           Good(S) == \A b \in S : \A c \in Blocks \ (used \cup S) : b < c
<1>0. /\ IsFiniteSet(Free) /\ Free \in SUBSET Nat
      /\ \A b \in Free : b <= NUM_DATA_BLOCKS
  <2>1. /\ Free \in SUBSET Nat /\ NUM_DATA_BLOCKS \in Nat
        /\ \A b \in Free : b <= NUM_DATA_BLOCKS
    BY SimpleFSAssumption DEF Blocks
  <2> HIDE DEF Free
  <2> QED BY <2>1, FS_BoundedSetOfNaturals
<1>1. \E S \in kSubset(k, Free) : Good(S)
  <2>1. CASE k = 0
    <3>1. {} \in kSubset(k, Free)
      BY <2>1, FS_EmptySet DEF kSubset
    <3> QED BY <3>1
  <2>2. CASE k # 0
    <3>1. PICK b \in Free : Cardinality(Below(Free, b)) = k - 1
      <4>1. k - 1 \in Nat /\ k - 1 < Cardinality(Free) /\ NUM_DATA_BLOCKS \in Nat
        BY <1>0, <2>2, FS_CardinalityType, SimpleFSAssumption
      <4> HIDE DEF Free
      <4> QED BY <1>0, <4>1, Ranked
    <3> DEFINE S == Below(Free, b) \cup {b}
    <3>2. IsFiniteSet(Below(Free, b)) /\ b \notin Below(Free, b)
      <4>1. Below(Free, b) \in SUBSET Free
        BY DEF Below
      <4>2. b \notin Below(Free, b)
        BY <1>0 DEF Below
      <4> QED BY <1>0, <4>1, <4>2, FS_Subset
    <3>3. Cardinality(S) = k
      <4> DEFINE T == Below(Free, b)
      <4>1. Cardinality(T \cup {b}) = Cardinality(T) + 1
        <5> HIDE DEF T
        <5> QED BY <3>2, FS_AddElement DEF T
      <4> QED BY <3>1, <4>1
    <3>4. S \in kSubset(k, Free)
      BY <3>3 DEF kSubset, Below
    <3>5. Good(S)
      BY <1>0, SimpleFSAssumption DEF Below, Blocks
    <3> QED BY <3>4, <3>5
  <2> QED BY <2>1, <2>2
<1>2. Lowest(k, used) \in kSubset(k, Free)
  BY <1>1, Zenon DEF Lowest
<1> QED BY <1>2 DEF kSubset

-----------------------------------------------------------------------------
(* The blocks of a file                                                    *)

(* The blocks of a list come first in it, and each comes once.             *)
IsList(d) ==
  \A j, k \in Direct :
    /\ j < k /\ d[k] # -1 => d[j] # -1
    /\ d[j] # -1 /\ d[j] = d[k] => j = k

Listed(d) == {j \in Direct : d[j] # -1}
Members(d) == {d[j] : j \in Direct} \ {-1}

(* A list of n blocks has them at the indices under n.                     *)
LEMMA ListIs ==
  ASSUME NEW d \in [Direct -> Blocks \cup {-1}], IsList(d)
  PROVE  /\ Cardinality(Listed(d)) \in 0..MAX_FILE_SIZE
         /\ \A j \in Direct : d[j] # -1 <=> j < Cardinality(Listed(d))
         /\ IsFiniteSet(Members(d))
         /\ Cardinality(Members(d)) = Cardinality(Listed(d))
<1> DEFINE S == {j \in Nat : j >= MAX_FILE_SIZE \/ d[j] = -1}
<1>0. MAX_FILE_SIZE \in Nat \ {0}
  BY SimpleFSAssumption
<1>1. MAX_FILE_SIZE \in S
  BY <1>0
<1>2. PICK n \in S : \A j \in S : n <= j
  BY <1>1, Least
<1>3. n \in 0..MAX_FILE_SIZE
  BY <1>0, <1>1, <1>2
<1>4. \A j \in Direct : d[j] # -1 <=> j < n
  <2> TAKE j \in Direct
  <2>1. j \in Nat /\ j < MAX_FILE_SIZE
    BY <1>0 DEF Direct
  <2>2. j < n => d[j] # -1
    BY <1>2, <2>1
  <2>3. ASSUME n <= j PROVE d[j] = -1
    <3>1. n \in Direct /\ d[n] = -1
      BY <1>0, <1>2, <2>1, <2>3 DEF Direct
    <3>2. n < j => d[j] = -1
      BY <3>1 DEF IsList
    <3>3. n = j => d[j] = -1
      BY <3>1
    <3> QED BY <1>3, <2>1, <2>3, <3>2, <3>3
  <2> QED BY <1>3, <2>1, <2>2, <2>3
<1>5. Listed(d) = 0..(n - 1)
  <2>1. \A j : j \in 0..(n - 1) <=> j \in Direct /\ j < n
    BY <1>0, <1>3 DEF Direct
  <2> QED BY <1>4, <2>1 DEF Listed
<1>6. IsFiniteSet(0..(n - 1)) /\ Cardinality(0..(n - 1)) = n
  BY <1>3, FS_Interval
<1>7. ExistsBijection(0..(n - 1), Members(d))
  <2> DEFINE f == [j \in 0..(n - 1) |-> d[j]]
  <2>0. \A j : j \in 0..(n - 1) <=> j \in Direct /\ d[j] # -1
    BY <1>5 DEF Listed
  <2>1. f \in Injection(0..(n - 1), Members(d))
    <3>1. f \in [0..(n - 1) -> Members(d)]
      BY <2>0 DEF Members
    <3>2. \A j, k \in 0..(n - 1) : f[j] = f[k] => j = k
      BY <2>0 DEF IsList
    <3> QED BY <3>1, <3>2 DEF Injection, IsInjective
  <2>2. f \in Surjection(0..(n - 1), Members(d))
    <3>1. f \in [0..(n - 1) -> Members(d)]
      BY <2>0 DEF Members
    <3>2. \A b \in Members(d) : \E j \in 0..(n - 1) : f[j] = b
      BY <2>0 DEF Members
    <3> QED BY <3>1, <3>2 DEF Surjection
  <2> QED BY <2>1, <2>2 DEF Bijection, ExistsBijection
<1>8. IsFiniteSet(Members(d)) /\ Cardinality(Members(d)) = n
  BY <1>6, <1>7, FS_Bijection
<1> QED BY <1>3, <1>4, <1>5, <1>6, <1>8

(* A list of as many blocks as one is told.                                *)
LEMMA ListOf ==
  ASSUME NEW d \in [Direct -> Blocks \cup {-1}], IsList(d),
         NEW n \in 0..MAX_FILE_SIZE, \A j \in Direct : d[j] # -1 <=> j < n
  PROVE  Cardinality(Listed(d)) = n
<1>0. MAX_FILE_SIZE \in Nat \ {0}
  BY SimpleFSAssumption
<1>1. \A j : j \in 0..(n - 1) <=> j \in Direct /\ j < n
  BY <1>0 DEF Direct
<1>2. Listed(d) = 0..(n - 1)
  BY <1>1 DEF Listed
<1> QED BY <1>2, FS_Interval

-----------------------------------------------------------------------------
(* How many blocks a write needs                                           *)

LEMMA Product ==
  ASSUME NEW a \in Int, NEW b \in Int, NEW d \in Nat
  PROVE  /\ a * d \in Int
         /\ (a + b) * d = a * d + b * d
         /\ (a - b) * d = a * d - b * d
         /\ a <= b => a * d <= b * d
BY SMT

(* CeilDiv is the least c with n <= c * d.                                 *)
LEMMA CeilDivIs ==
  ASSUME NEW n \in Nat, NEW d \in Nat \ {0}
  PROVE  /\ CeilDiv(n, d) \in Nat
         /\ n <= CeilDiv(n, d) * d
         /\ \A m \in Int : n <= m * d => CeilDiv(n, d) <= m
<1> DEFINE q == n \div d
           r == n % d
<1>1. q \in Int /\ r \in 0..(d - 1) /\ n = q * d + r
  BY Division
<1>2. q >= 0
  <2> SUFFICES ASSUME q <= -1 PROVE FALSE
    BY <1>1
  <2> HIDE DEF q, r
  <2>1. q * d <= (-1) * d
    BY <1>1, Product
  <2> QED BY <1>1, <2>1
<1>3. \A m \in Int : /\ m < q => m * d <= q * d - d
                     /\ m <= q => m * d <= q * d
                     /\ (q + 1) * d = q * d + d
  <2> HIDE DEF q, r
  <2> TAKE m \in Int
  <2>1. m < q => m * d <= (q - 1) * d
    BY <1>1, Product
  <2>2. (q - 1) * d = q * d - d /\ (q + 1) * d = q * d + d
    BY <1>1, Product
  <2>3. m <= q => m * d <= q * d
    BY <1>1, Product
  <2> QED BY <2>1, <2>2, <2>3
<1>4. CeilDiv(n, d) = q + (IF r # 0 THEN 1 ELSE 0)
  BY DEF CeilDiv
<1>5. q * d \in Int
  BY <1>1, Product
<1> HIDE DEF q, r
<1>6. CASE r = 0
  <2>1. CeilDiv(n, d) = q
    BY <1>1, <1>4, <1>6
  <2>2. \A m \in Int : n <= m * d => q <= m
    <3> TAKE m \in Int
    <3>1. m * d \in Int
      BY Product
    <3> QED BY <1>1, <1>3, <1>5, <1>6, <3>1
  <2> QED BY <1>1, <1>2, <1>5, <1>6, <2>1, <2>2
<1>7. CASE r # 0
  <2>1. CeilDiv(n, d) = q + 1
    BY <1>1, <1>4, <1>7
  <2>2. \A m \in Int : n <= m * d => q + 1 <= m
    <3> TAKE m \in Int
    <3>1. m * d \in Int
      BY Product
    <3> QED BY <1>1, <1>3, <1>5, <1>7, <3>1
  <2>3. (q + 1) * d = q * d + d
    BY <1>3
  <2> QED BY <1>1, <1>2, <1>5, <1>7, <2>1, <2>2, <2>3
<1> QED BY <1>6, <1>7

(* The blocks a write needs hold the file up to its last byte, and the     *)
(* inode has room for them.                                                *)
LEMMA RequiredIs ==
  ASSUME NEW h, Offset(h) \in 0..MaxBytes, NEW n \in Int, ~TooLong(h, n),
         NEW num \in 0..MAX_FILE_SIZE
  PROVE  /\ Required(h, n, num) \in Nat
         /\ num + Required(h, n, num) <= MAX_FILE_SIZE
         /\ Offset(h) + n <= (num + Required(h, n, num)) * BLOCKSIZE
<1> DEFINE off == Offset(h)
           B == BLOCKSIZE
           q == off \div B
           r == off % B
           avail == (num - (q + 1)) * B + (B - r)
           missing == IF n > avail THEN n - avail ELSE 0
           req == CeilDiv(missing, B)
<1>0. B \in Nat \ {0} /\ MAX_FILE_SIZE \in Nat \ {0} /\ num \in Nat /\ off \in Int
  BY SimpleFSAssumption DEF MaxBytes
<1>1. q \in Int /\ r \in 0..(B - 1) /\ off = q * B + r
  BY <1>0, Division
<1>2. Required(h, n, num) = req
  BY DEF Required
<1>3. off + n <= MAX_FILE_SIZE * B
  BY <1>0 DEF TooLong, MaxBytes
<1> HIDE DEF off, B, q, r
<1>4. avail = num * B - off /\ num * B \in Int
  <2>1. (num - (q + 1)) * B = num * B - (q + 1) * B
    BY <1>0, <1>1, Product
  <2>2. (q + 1) * B = q * B + B
    BY <1>0, <1>1, Product
  <2>3. num * B \in Int /\ q * B \in Int
    BY <1>0, <1>1, Product
  <2> QED BY <1>0, <1>1, <2>1, <2>2, <2>3
<1> HIDE DEF avail
<1>5. missing \in Nat /\ off + n <= num * B + missing
  BY <1>0, <1>4
<1>6. /\ req \in Nat /\ missing <= req * B
      /\ \A m \in Int : missing <= m * B => req <= m
  <2> HIDE DEF missing
  <2> QED BY <1>0, <1>5, CeilDivIs
<1>7. missing <= (MAX_FILE_SIZE - num) * B
  <2>1. (MAX_FILE_SIZE - num) * B = MAX_FILE_SIZE * B - num * B
    BY <1>0, Product
  <2>2. MAX_FILE_SIZE * B \in Int /\ num * B <= MAX_FILE_SIZE * B
    BY <1>0, Product
  <2> QED BY <1>0, <1>3, <1>4, <2>1, <2>2
<1> HIDE DEF missing, req
<1>8. num + req <= MAX_FILE_SIZE
  <2> DEFINE m == MAX_FILE_SIZE - num
  <2>0. m \in Int
    BY <1>0
  <2>1. req <= m
    <3> HIDE DEF m
    <3> QED BY <1>6, <1>7, <2>0 DEF m
  <2> QED BY <1>0, <1>6, <2>1
<1>9. off + n <= (num + req) * B
  <2>1. (num + req) * B = num * B + req * B /\ req * B \in Int
    BY <1>0, <1>6, Product
  <2> QED BY <1>0, <1>4, <1>5, <1>6, <2>1
<1> QED BY <1>2, <1>6, <1>8, <1>9 DEF off, B

-----------------------------------------------------------------------------
(* The invariant, inode by inode                                           *)

(* What Consistent says of one inode.                                      *)
Fine(i) ==
  /\ i \in inodes_used <=> inode[i].status = "used"
  /\ inode[i].status = "free" => BlocksOf(i) = {}
  /\ BlocksOf(i) \subseteq blocks_used
  /\ IsList(inode[i].direct_blocks)
  /\ inode[i].file_size <= Cardinality(BlocksOf(i)) * BLOCKSIZE

Apart == \A i, k \in Inodes : i # k => BlocksOf(i) \cap BlocksOf(k) = {}

(* The part of the invariant that is about the lists.                      *)
Disk == TypeOK /\ Consistent /\ Accounted

LEMMA ConsistentIs == Consistent <=> (\A i \in Inodes : Fine(i)) /\ Apart
BY DEF Consistent, Fine, Apart, IsList

LEMMA ConsistentNext == Consistent' <=> (\A i \in Inodes : Fine(i)') /\ Apart'
BY DEF Consistent, Fine, Apart, IsList

(* Not to touch the lists keeps them consistent.                           *)
LEMMA ListsAlone ==
  ASSUME Consistent, Accounted,
         UNCHANGED <<inodes_used, blocks_used, inode, lost>>
  PROVE  Consistent' /\ Accounted'
<1>1. \A i \in Inodes : BlocksOf(i)' = BlocksOf(i)
  BY DEF BlocksOf
<1>2. Owned' = Owned
  BY <1>1 DEF Owned
<1>3. \A i \in Inodes : Fine(i)' <=> Fine(i)
  BY <1>1 DEF Fine
<1>4. Apart' <=> Apart
  BY <1>1 DEF Apart
<1>5. Consistent'
  BY <1>3, <1>4, ConsistentIs, ConsistentNext
<1> QED BY <1>2, <1>5 DEF Accounted

Sizes == {NUM_INODES, NUM_DATA_BLOCKS, MAX_FILE_SIZE, BLOCKSIZE, MAX_OPEN_FILES,
          MaxBytes} \subseteq Nat /\ BLOCKSIZE \in Nat \ {0}

LEMMA SizesAre == Sizes
<1>1. \A x, y \in Nat : x * y \in Nat
  BY SMT
<1>2. MaxBytes \in Nat
  BY <1>1, SimpleFSAssumption DEF MaxBytes
<1> QED BY <1>2, SimpleFSAssumption DEF Sizes

LEMMA Nodes ==
  ASSUME TypeOK, NEW i \in Inodes
  PROVE  /\ inode[i].status \in {"free", "used"}
         /\ inode[i].name \in Names \cup {Absent}
         /\ inode[i].file_size \in 0..MaxBytes
         /\ inode[i].direct_blocks \in [Direct -> Blocks \cup {-1}]
         /\ BlocksOf(i) = Members(inode[i].direct_blocks)
         /\ BlocksOf(i) \subseteq Blocks
<1>1. inode[i] \in [status : {"free", "used"}, name : Names \cup {Absent},
                    file_size : 0..MaxBytes,
                    direct_blocks : [Direct -> Blocks \cup {-1}]]
  BY DEF TypeOK
<1>2. BlocksOf(i) = Members(inode[i].direct_blocks)
  BY DEF BlocksOf, Members
<1>3. Members(inode[i].direct_blocks) \subseteq Blocks
  BY <1>1 DEF Members
<1> QED BY <1>1, <1>2, <1>3

(* The list of an inode with no block.                                     *)
LEMMA NoBlocksIs ==
  /\ NoBlocks \in [Direct -> Blocks \cup {-1}]
  /\ IsList(NoBlocks)
  /\ Members(NoBlocks) = {}
BY DEF NoBlocks, IsList, Members

(* One inode becomes nd: the blocks of the others stay what they were.     *)
LEMMA OneInode ==
  ASSUME TypeOK, NEW i \in Inodes,
         NEW nd, inode' = [inode EXCEPT ![i] = nd]
  PROVE  /\ \A k \in Inodes : inode'[k] = IF k = i THEN nd ELSE inode[k]
         /\ BlocksOf(i)' = Members(nd.direct_blocks)
         /\ \A k \in Inodes : k # i => BlocksOf(k)' = BlocksOf(k)
<1>1. \A k \in Inodes : inode'[k] = IF k = i THEN nd ELSE inode[k]
  BY DEF TypeOK
<1>2. \A k \in Inodes : BlocksOf(k)' = {inode'[k].direct_blocks[j] : j \in Direct} \ {-1}
  BY DEF BlocksOf
<1>3. BlocksOf(i)' = Members(nd.direct_blocks)
  BY <1>1, <1>2 DEF Members
<1>4. \A k \in Inodes : k # i => BlocksOf(k)' = BlocksOf(k)
  BY <1>1, <1>2 DEF BlocksOf
<1> QED BY <1>1, <1>3, <1>4

-----------------------------------------------------------------------------
LEMMA Formatted == Init => Disk
<1> SUFFICES ASSUME Init PROVE Disk
  OBVIOUS
<1>0. Sizes
  BY SizesAre
<1>1. TypeOK
  <2>1. NoBlocks \in [Direct -> Blocks \cup {-1}] /\ 0 \in 0..MaxBytes
    BY <1>0, NoBlocksIs DEF Sizes
  <2> QED BY <2>1 DEF TypeOK, Init
<1>2. \A i \in Inodes : BlocksOf(i) = {}
  BY NoBlocksIs DEF Init, BlocksOf, Members
<1>3. Consistent
  <2>1. ASSUME NEW i \in Inodes PROVE Fine(i)
    <3>1. Cardinality(BlocksOf(i)) * BLOCKSIZE = 0
      BY <1>0, <1>2, FS_EmptySet DEF Sizes
    <3>2. IsList(inode[i].direct_blocks) /\ inode[i].file_size = 0
      BY NoBlocksIs DEF Init
    <3> QED BY <1>2, <3>1, <3>2 DEF Fine, Init
  <2> QED BY <1>2, <2>1, ConsistentIs DEF Apart
<1>4. Accounted
  BY <1>2 DEF Accounted, Owned, Init
<1> QED BY <1>1, <1>3, <1>4 DEF Disk

-----------------------------------------------------------------------------
(* The steps                                                               *)

LEMMA FoundIs ==
  ASSUME TypeOK, NEW name, Found(name) # {}
  PROVE  Min(Found(name)) \in Inodes /\ inode[Min(Found(name))].status = "used"
<1>1. Found(name) \in SUBSET Nat
  BY SizesAre DEF Found, Inodes, Sizes
<1>2. Min(Found(name)) \in Found(name)
  BY <1>1, MinIs
<1> QED BY <1>2 DEF Found

(* A new file gets the first free inode, and no block.                     *)
LEMMA CreateStep ==
  ASSUME Disk, NEW name \in Names, simplefs_create(name)
  PROVE  Disk'
<1>0. TypeOK /\ Consistent /\ Accounted /\ Sizes
  BY SizesAre DEF Disk
<1>1. CASE Fails
  <2>1. TypeOK'
    BY <1>0, <1>1 DEF Fails, TypeOK
  <2> QED BY <1>0, <1>1, <2>1, ListsAlone DEF Fails, Disk
<1>2. CASE FreeInodes # {} /\ ~Fails
  <2>1. PICK i \in FreeInodes : i = Min(FreeInodes)
    <3>1. FreeInodes \in SUBSET Nat
      BY <1>0 DEF FreeInodes, Inodes, Sizes
    <3> QED BY <1>2, <3>1, MinIs
  <2> DEFINE nd == [status |-> "used", name |-> name, file_size |-> 0,
                    direct_blocks |-> NoBlocks]
  <2>2. /\ inodes_used' = inodes_used \cup {i}
        /\ inode' = [inode EXCEPT ![i] = nd]
        /\ UNCHANGED <<blocks_used, data, file_handle_array, lost>>
    BY <1>2, <2>1 DEF simplefs_create
  <2>3. i \in Inodes /\ i \notin inodes_used
    BY <2>1 DEF FreeInodes
  <2>4. Fine(i) /\ BlocksOf(i) = {}
    <3>1. Fine(i)
      BY <1>0, <2>3, ConsistentIs
    <3>2. inode[i].status = "free"
      BY <1>0, <2>3, <3>1, Nodes DEF Fine
    <3> QED BY <3>1, <3>2 DEF Fine
  <2>5. /\ \A k \in Inodes : inode'[k] = IF k = i THEN nd ELSE inode[k]
        /\ \A k \in Inodes : BlocksOf(k)' = BlocksOf(k)
    <3> HIDE DEF nd
    <3>1. /\ \A k \in Inodes : inode'[k] = IF k = i THEN nd ELSE inode[k]
          /\ BlocksOf(i)' = Members(nd.direct_blocks)
          /\ \A k \in Inodes : k # i => BlocksOf(k)' = BlocksOf(k)
      BY <1>0, <2>2, <2>3, OneInode
    <3>2. Members(nd.direct_blocks) = {}
      BY NoBlocksIs DEF nd
    <3> QED BY <2>4, <3>1, <3>2
  <2>6. TypeOK'
    <3>1. nd \in [status : {"free", "used"}, name : Names \cup {Absent},
                  file_size : 0..MaxBytes,
                  direct_blocks : [Direct -> Blocks \cup {-1}]]
      BY <1>0, NoBlocksIs DEF Sizes
    <3> HIDE DEF nd
    <3>2. inode' \in [Inodes -> [status : {"free", "used"}, name : Names \cup {Absent},
                  file_size : 0..MaxBytes,
                  direct_blocks : [Direct -> Blocks \cup {-1}]]]
      BY <1>0, <2>2, <3>1 DEF TypeOK
    <3>3. inodes_used' \subseteq Inodes
      BY <1>0, <2>2, <2>3 DEF TypeOK
    <3> QED BY <1>0, <2>2, <3>2, <3>3 DEF TypeOK
  <2>7. ASSUME NEW k \in Inodes PROVE Fine(k)'
    <3>0. Fine(k)
      BY <1>0, ConsistentIs
    <3>1. CASE k = i
      <4>1. Cardinality(BlocksOf(i)') * BLOCKSIZE = 0
        <5>1. BlocksOf(i)' = {}
          BY <2>3, <2>4, <2>5
        <5>2. Cardinality(BlocksOf(i)') = 0
          BY <5>1, FS_EmptySet, Zenon
        <5> QED BY <1>0, <5>2 DEF Sizes
      <4>2. /\ inode'[i].status = "used" /\ inode'[i].file_size = 0
            /\ inode'[i].direct_blocks = NoBlocks
        BY <2>3, <2>5
      <4>3. i \in inodes_used'
        BY <2>2
      <4> QED BY <2>2, <2>3, <2>4, <2>5, <3>1, <4>1, <4>2, <4>3, NoBlocksIs DEF Fine
    <3>2. CASE k # i
      <4>1. inode'[k] = inode[k] /\ BlocksOf(k)' = BlocksOf(k)
        BY <2>5, <3>2
      <4>2. k \in inodes_used' <=> k \in inodes_used
        BY <2>2, <3>2
      <4> QED BY <2>2, <3>0, <4>1, <4>2 DEF Fine
    <3> QED BY <3>1, <3>2
  <2>8. Consistent'
    <3>1. Apart'
      BY <1>0, <2>5, ConsistentIs DEF Apart
    <3> QED BY <2>7, <3>1, ConsistentNext
  <2>9. Accounted'
    <3>1. Owned' = Owned
      BY <2>5 DEF Owned
    <3> QED BY <1>0, <2>2, <3>1 DEF Accounted
  <2> QED BY <2>6, <2>8, <2>9 DEF Disk
<1> QED BY <1>1, <1>2 DEF simplefs_create

(* Deleting a file frees its blocks, which are nobody else's, and its      *)
(* inode.                                                                  *)
LEMMA DeleteStep ==
  ASSUME Disk, NEW name \in Names, simplefs_delete(name)
  PROVE  Disk'
<1>0. TypeOK /\ Consistent /\ Accounted /\ Sizes
  BY SizesAre DEF Disk
<1>1. CASE Found(name) = {}
  <2>1. UNCHANGED <<inodes_used, blocks_used, inode, data, file_handle_array, lost>>
    BY <1>1 DEF simplefs_delete
  <2>2. TypeOK'
    BY <1>0, <2>1 DEF TypeOK
  <2> QED BY <1>0, <2>1, <2>2, ListsAlone DEF Disk
<1>2. CASE Found(name) # {}
  <2>1. PICK i \in Inodes : i = Min(Found(name)) /\ inode[i].status = "used"
    BY <1>0, <1>2, FoundIs
  <2> DEFINE nd == [inode[i] EXCEPT !.status = "free", !.file_size = 0,
                                    !.direct_blocks = NoBlocks]
  <2>2. /\ blocks_used' = blocks_used \ BlocksOf(i)
        /\ inodes_used' = inodes_used \ {i}
        /\ inode' = [inode EXCEPT ![i].status = "free", ![i].file_size = 0,
                                  ![i].direct_blocks = NoBlocks]
        /\ UNCHANGED <<data, file_handle_array, lost>>
    BY <1>2, <2>1 DEF simplefs_delete
  <2>3. inode' = [inode EXCEPT ![i] = nd]
    BY <1>0, <2>1, <2>2 DEF TypeOK
  <2>4. /\ nd \in [status : {"free", "used"}, name : Names \cup {Absent},
                   file_size : 0..MaxBytes,
                   direct_blocks : [Direct -> Blocks \cup {-1}]]
        /\ nd.status = "free" /\ nd.file_size = 0 /\ nd.direct_blocks = NoBlocks
    <3>1. inode[i] \in [status : {"free", "used"}, name : Names \cup {Absent},
                        file_size : 0..MaxBytes,
                        direct_blocks : [Direct -> Blocks \cup {-1}]]
      BY <1>0 DEF TypeOK
    <3>2. 0 \in 0..MaxBytes
      BY <1>0 DEF Sizes
    <3> QED BY <3>1, <3>2, NoBlocksIs
  <2> HIDE DEF nd
  <2>5. /\ \A k \in Inodes : inode'[k] = IF k = i THEN nd ELSE inode[k]
        /\ BlocksOf(i)' = {}
        /\ \A k \in Inodes : k # i => BlocksOf(k)' = BlocksOf(k)
    <3>1. /\ \A k \in Inodes : inode'[k] = IF k = i THEN nd ELSE inode[k]
          /\ BlocksOf(i)' = Members(nd.direct_blocks)
          /\ \A k \in Inodes : k # i => BlocksOf(k)' = BlocksOf(k)
      BY <1>0, <2>3, OneInode, Zenon
    <3>2. Members(nd.direct_blocks) = {}
      BY <2>4, NoBlocksIs, Zenon
    <3> QED BY <3>1, <3>2
  <2>6. \A k \in Inodes : k # i => BlocksOf(k) \cap BlocksOf(i) = {}
    BY <1>0, ConsistentIs DEF Apart
  <2>7. TypeOK'
    <3>1. inode' \in [Inodes -> [status : {"free", "used"}, name : Names \cup {Absent},
                  file_size : 0..MaxBytes,
                  direct_blocks : [Direct -> Blocks \cup {-1}]]]
      BY <1>0, <2>3, <2>4 DEF TypeOK
    <3>2. inodes_used' \subseteq Inodes /\ blocks_used' \subseteq Blocks
      BY <1>0, <2>2 DEF TypeOK
    <3> QED BY <1>0, <2>2, <3>1, <3>2 DEF TypeOK
  <2>8. ASSUME NEW k \in Inodes PROVE Fine(k)'
    <3>0. Fine(k)
      BY <1>0, ConsistentIs
    <3>1. CASE k = i
      <4>1. Cardinality(BlocksOf(i)') * BLOCKSIZE = 0
        <5>1. Cardinality(BlocksOf(i)') = 0
          BY <2>5, FS_EmptySet, Zenon
        <5> QED BY <1>0, <5>1 DEF Sizes
      <4>2. /\ inode'[i].status = "free" /\ inode'[i].file_size = 0
            /\ inode'[i].direct_blocks = NoBlocks
        BY <2>1, <2>4, <2>5
      <4>3. i \notin inodes_used'
        BY <2>2
      <4> QED BY <2>5, <3>1, <4>1, <4>2, <4>3, NoBlocksIs DEF Fine
    <3>2. CASE k # i
      <4>1. inode'[k] = inode[k] /\ BlocksOf(k)' = BlocksOf(k)
        BY <2>5, <3>2
      <4>2. k \in inodes_used' <=> k \in inodes_used
        BY <2>2, <3>2
      <4>3. BlocksOf(k) \subseteq blocks_used'
        BY <2>2, <2>6, <3>0, <3>2 DEF Fine
      <4> QED BY <3>0, <4>1, <4>2, <4>3 DEF Fine
    <3> QED BY <3>1, <3>2
  <2>9. Consistent'
    <3>1. Apart'
      BY <1>0, <2>5, ConsistentIs DEF Apart
    <3> QED BY <2>8, <3>1, ConsistentNext
  <2>10. Accounted'
    <3>1. Owned' = Owned \ BlocksOf(i)
      <4>1. \A b : b \in Owned' <=> \E k \in Inodes : k # i /\ b \in BlocksOf(k)
        BY <2>5 DEF Owned
      <4>2. \A b : b \in Owned <=> \E k \in Inodes : b \in BlocksOf(k)
        BY DEF Owned
      <4> QED BY <2>6, <4>1, <4>2
    <3>2. BlocksOf(i) \subseteq Owned
      BY <2>1 DEF Owned
    <3> QED BY <1>0, <2>2, <3>1, <3>2 DEF Accounted
  <2> QED BY <2>7, <2>9, <2>10 DEF Disk
<1> QED BY <1>1, <1>2

(* The operations on handles leave the disk alone.                         *)
LEMMA HandleStep ==
  ASSUME Disk,
         UNCHANGED <<inodes_used, blocks_used, inode, data, lost>>,
         \/ UNCHANGED file_handle_array
         \/ \E h \in Handles, i \in Inodes \cup {-1}, off \in 0..MaxBytes :
              file_handle_array' =
                [file_handle_array EXCEPT ![h] = [inode_number |-> i, offset |-> off]]
  PROVE  Disk'
<1>0. TypeOK /\ Consistent /\ Accounted
  BY DEF Disk
<1>1. TypeOK'
  <2>1. file_handle_array' \in [Handles -> [inode_number : Inodes \cup {-1},
                                            offset : 0..MaxBytes]]
    BY <1>0 DEF TypeOK
  <2> QED BY <1>0, <2>1 DEF TypeOK
<1> QED BY <1>0, <1>1, ListsAlone DEF Disk

LEMMA OpenStep ==
  ASSUME Disk, NEW name \in Names, simplefs_open(name)
  PROVE  Disk'
<1>0. TypeOK /\ Sizes
  BY SizesAre DEF Disk
<1>1. CASE Fails
  BY <1>1, HandleStep DEF Fails
<1>2. CASE Found(name) # {} /\ FreeHandles # {} /\ ~Fails
  <2>1. Min(FreeHandles) \in Handles
    <3>1. FreeHandles \in SUBSET Nat
      BY <1>0 DEF FreeHandles, Handles, Sizes
    <3>2. Min(FreeHandles) \in FreeHandles
      BY <1>2, <3>1, MinIs
    <3> QED BY <3>2 DEF FreeHandles
  <2>2. Min(Found(name)) \in Inodes /\ 0 \in 0..MaxBytes
    BY <1>0, <1>2, FoundIs DEF Sizes
  <2>3. /\ file_handle_array' = [file_handle_array EXCEPT
             ![Min(FreeHandles)] = [inode_number |-> Min(Found(name)), offset |-> 0]]
        /\ UNCHANGED <<inodes_used, blocks_used, inode, data, lost>>
    BY <1>2 DEF simplefs_open
  <2> QED BY <2>1, <2>2, <2>3, HandleStep
<1> QED BY <1>1, <1>2 DEF simplefs_open

LEMMA CloseStep ==
  ASSUME Disk, NEW h \in Handles, simplefs_close(h)
  PROVE  Disk'
<1>1. 0 \in 0..MaxBytes
  BY SizesAre DEF Sizes
<1> QED BY <1>1, HandleStep DEF simplefs_close

LEMMA ReadStep ==
  ASSUME Disk, NEW h \in Handles, NEW n \in Lengths, simplefs_read(h, n)
  PROVE  Disk'
BY HandleStep DEF simplefs_read, Fails

(* A seek keeps the offset inside the file.                                *)
LEMMA SeekStep ==
  ASSUME Disk, NEW h \in Handles, NEW k \in Seeks, simplefs_seek(h, k)
  PROVE  Disk'
<1>0. TypeOK /\ Sizes /\ k \in Int
  BY SizesAre, SimpleFSAssumption DEF Disk
<1>1. CASE Fails
  BY <1>1, HandleStep DEF Fails
<1>2. CASE CanSeek(h, k) /\ ~Fails
  <2>1. file_handle_array[h] \in [inode_number : Inodes \cup {-1}, offset : 0..MaxBytes]
    BY <1>0 DEF TypeOK
  <2>2. Number(h) \in Inodes /\ Offset(h) \in 0..MaxBytes
    BY <1>2, <2>1 DEF CanSeek, Number, Offset
  <2>3. inode[Number(h)].file_size \in 0..MaxBytes
    BY <1>0, <2>2, Nodes
  <2>4. Offset(h) + k \in 0..MaxBytes
    BY <1>0, <1>2, <2>2, <2>3 DEF CanSeek, Sizes
  <2>5. /\ file_handle_array' = [file_handle_array EXCEPT ![h].offset = @ + k]
        /\ UNCHANGED <<inodes_used, blocks_used, inode, data, lost>>
    BY <1>2 DEF simplefs_seek
  <2>6. file_handle_array' =
          [file_handle_array EXCEPT ![h] = [inode_number |-> Number(h),
                                            offset |-> Offset(h) + k]]
    <3>1. [file_handle_array[h] EXCEPT !.offset = @ + k]
            = [inode_number |-> Number(h), offset |-> Offset(h) + k]
      BY <2>1 DEF Number, Offset
    <3> QED BY <2>5, <3>1, Zenon
  <2>7. \E g \in Handles, i \in Inodes \cup {-1}, off \in 0..MaxBytes :
          file_handle_array' =
            [file_handle_array EXCEPT ![g] = [inode_number |-> i, offset |-> off]]
    BY <2>2, <2>4, <2>6
  <2> QED BY <2>5, <2>7, HandleStep
<1> QED BY <1>1, <1>2 DEF simplefs_seek

-----------------------------------------------------------------------------
(* The write                                                               *)

(* The list of a file that is written: its own blocks, the block of the    *)
(* edge case, and the fresh ones, each once and in the first places.       *)
LEMMA NewList ==
  ASSUME NEW old \in [Direct -> Blocks \cup {-1}], IsList(old),
         NEW first, first = Cardinality(Listed(old)),
         NEW edge \in SUBSET Blocks, NEW fresh \in SUBSET Blocks,
         edge \cap Members(old) = {}, fresh \cap (Members(old) \cup edge) = {},
         NEW num, num = first + Cardinality(edge), Cardinality(edge) \in {0, 1},
         NEW req \in Nat, req = Cardinality(fresh), num + req <= MAX_FILE_SIZE,
         NEW new,
         new = [j \in Direct |->
                  IF first <= j /\ j < num THEN Min(edge)
                  ELSE IF num <= j /\ j < num + req THEN Nth(fresh, j - num)
                  ELSE old[j]]
  PROVE  /\ new \in [Direct -> Blocks \cup {-1}]
         /\ IsList(new)
         /\ Members(new) = Members(old) \cup edge \cup fresh
         /\ Cardinality(Members(new)) = num + req
         /\ \A j \in Direct : old[j] # -1 => new[j] = old[j]
<1>0. Sizes /\ Blocks \in SUBSET Nat /\ \A b \in Blocks : b <= NUM_DATA_BLOCKS
  BY SizesAre DEF Sizes, Blocks
<1>1. /\ first \in 0..MAX_FILE_SIZE
      /\ \A j \in Direct : old[j] # -1 <=> j < first
      /\ num \in 0..MAX_FILE_SIZE /\ num + req \in 0..MAX_FILE_SIZE
      /\ num = first \/ num = first + 1
  BY <1>0, ListIs DEF Sizes
<1>2. Direct \in SUBSET Nat /\ \A j \in Nat : j < MAX_FILE_SIZE => j \in Direct
  BY <1>0 DEF Direct, Sizes
<1>3. /\ num = first => edge = {}
      /\ num # first => Min(edge) \in edge /\ edge = {Min(edge)}
  <2>0. IsFiniteSet(edge)
    <3>1. edge \in SUBSET Nat /\ \A b \in edge : b <= NUM_DATA_BLOCKS
      BY <1>0
    <3> QED BY <1>0, <3>1, FS_BoundedSetOfNaturals DEF Sizes
  <2>1. num = first => edge = {}
    <3>1. num = first => Cardinality(edge) = 0
      BY <1>1
    <3> QED BY <2>0, <3>1, FS_EmptySet
  <2>2. ASSUME num # first PROVE Min(edge) \in edge /\ edge = {Min(edge)}
    <3>1. Cardinality(edge) = 1
      BY <1>1, <2>2
    <3>2. PICK x : edge = {x}
      BY <2>0, <3>1, FS_Singleton
    <3>3. Min(edge) \in edge
      BY <1>0, <3>2, MinIs
    <3> QED BY <3>2, <3>3
  <2> QED BY <2>1, <2>2
<1>4. /\ \A k \in Nat : k < req => Nth(fresh, k) \in fresh
      /\ \A k, l \in Nat : k < req /\ l < req /\ Nth(fresh, k) = Nth(fresh, l) => k = l
      /\ \A b \in fresh : \E k \in Nat : k < req /\ Nth(fresh, k) = b
  <2>1. /\ fresh \in SUBSET Nat /\ NUM_DATA_BLOCKS \in Nat
        /\ \A b \in fresh : b <= NUM_DATA_BLOCKS
    BY <1>0 DEF Sizes
  <2>2. \A k \in Nat : k < req =>
          Nth(fresh, k) \in fresh /\ Cardinality(Below(fresh, Nth(fresh, k))) = k
    BY <2>1, NthIs
  <2>3. \A b \in fresh : \E k \in Nat : k < req /\ Nth(fresh, k) = b
    BY <2>1, NthOnto
  <2>4. \A k, l \in Nat : k < req /\ l < req /\ Nth(fresh, k) = Nth(fresh, l) => k = l
    BY <2>2, Zenon
  <2> QED BY <2>2, <2>3, <2>4
<1>5. ASSUME NEW j \in Direct
      PROVE  /\ j < first => new[j] = old[j] /\ old[j] \in Members(old)
             /\ first <= j /\ j < num => j = first /\ new[j] = Min(edge)
                                         /\ new[j] \in edge
             /\ num <= j /\ j < num + req => /\ new[j] = Nth(fresh, j - num)
                                             /\ j - num \in Nat /\ j - num < req
                                             /\ new[j] \in fresh
             /\ num + req <= j => new[j] = -1
             /\ j \in Nat
  <2>0. j \in Nat
    BY <1>2
  <2>1. j < first => new[j] = old[j] /\ old[j] \in Members(old)
    BY <1>1, <2>0 DEF Members
  <2>2. first <= j /\ j < num => j = first /\ new[j] = Min(edge) /\ new[j] \in edge
    BY <1>1, <1>3, <2>0
  <2>3. ASSUME num <= j, j < num + req
        PROVE  /\ new[j] = Nth(fresh, j - num) /\ j - num \in Nat
               /\ j - num < req /\ new[j] \in fresh
    <3>1. j - num \in Nat /\ j - num < req
      BY <1>1, <2>0, <2>3
    <3>2. new[j] = Nth(fresh, j - num)
      BY <1>1, <2>0, <2>3
    <3>3. Nth(fresh, j - num) \in fresh
      <4> DEFINE k == j - num
      <4> HIDE DEF k
      <4> QED BY <1>4, <3>1 DEF k
    <3> QED BY <3>1, <3>2, <3>3
  <2>4. num + req <= j => new[j] = -1
    BY <1>1, <2>0
  <2> QED BY <2>0, <2>1, <2>2, <2>3, <2>4
<1>6. /\ Members(old) \subseteq Blocks
      /\ \A j \in Direct : new[j] # -1 <=> j < num + req
  <2>1. Members(old) \subseteq Blocks /\ -1 \notin Blocks
    BY <1>0 DEF Members
  <2>2. ASSUME NEW j \in Direct PROVE new[j] # -1 <=> j < num + req
    <3>1. j < first \/ (first <= j /\ j < num) \/ (num <= j /\ j < num + req)
            \/ num + req <= j
      BY <1>1, <1>5
    <3>2. j < num + req <=> ~(num + req <= j)
      BY <1>1, <1>5
    <3>3. new[j] \in Blocks \/ num + req <= j
      BY <1>5, <2>1, <3>1
    <3>4. num + req <= j => new[j] = -1
      BY <1>5
    <3> QED BY <2>1, <3>2, <3>3, <3>4
  <2> QED BY <2>1, <2>2
<1>7. new \in [Direct -> Blocks \cup {-1}]
  <2>1. ASSUME NEW j \in Direct PROVE new[j] \in Blocks \cup {-1}
    <3>1. j < first \/ (first <= j /\ j < num) \/ (num <= j /\ j < num + req)
            \/ num + req <= j
      BY <1>1, <1>5
    <3> QED BY <1>5, <1>6, <3>1
  <2>2. new = [j \in Direct |-> new[j]]
    OBVIOUS
  <2> QED BY <2>1, <2>2
<1>8. IsList(new)
  <2>1. ASSUME NEW j \in Direct, NEW k \in Direct, j < k, new[k] # -1
        PROVE  new[j] # -1
    BY <1>1, <1>5, <1>6, <2>1
  <2>2. ASSUME NEW j \in Direct, NEW k \in Direct, new[j] # -1, new[j] = new[k]
        PROVE  j = k
    <3>0. new[k] # -1 /\ j < num + req /\ k < num + req
      BY <1>6, <2>2
    <3>1. CASE j < first /\ k < first
      <4>1. old[j] # -1 /\ old[j] = old[k]
        BY <1>5, <2>2, <3>1
      <4> QED BY <4>1 DEF IsList
    <3>2. CASE num <= j /\ num <= k
      <4> DEFINE x == j - num
                 y == k - num
      <4>1. /\ x \in Nat /\ x < req /\ y \in Nat /\ y < req
            /\ Nth(fresh, x) = Nth(fresh, y)
        BY <1>5, <2>2, <3>0, <3>2
      <4>2. x = y
        <5> HIDE DEF x, y
        <5> QED BY <1>4, <4>1
      <4> QED BY <1>1, <1>5, <4>2
    <3>3. CASE first <= j /\ j < num /\ first <= k /\ k < num
      BY <1>5, <3>3
    <3>4. /\ new[j] \in Members(old) <=> j < first
          /\ new[j] \in edge <=> (first <= j /\ j < num)
          /\ new[j] \in fresh <=> num <= j
          /\ new[k] \in Members(old) <=> k < first
          /\ new[k] \in edge <=> (first <= k /\ k < num)
          /\ new[k] \in fresh <=> num <= k
      <4>1. ASSUME NEW l \in Direct, l < num + req
            PROVE  /\ new[l] \in Members(old) <=> l < first
                   /\ new[l] \in edge <=> (first <= l /\ l < num)
                   /\ new[l] \in fresh <=> num <= l
        <5>1. CASE l < first
          <6>1. new[l] \in Members(old) /\ ~(first <= l) /\ ~(num <= l)
            BY <1>1, <1>5, <5>1
          <6> QED BY <5>1, <6>1
        <5>2. CASE first <= l /\ l < num
          <6>1. new[l] \in edge /\ ~(l < first) /\ ~(num <= l)
            BY <1>1, <1>5, <5>2
          <6> QED BY <5>2, <6>1
        <5>3. CASE num <= l
          <6>1. new[l] \in fresh /\ ~(l < first) /\ ~(l < num)
            BY <1>1, <1>5, <4>1, <5>3
          <6> QED BY <5>3, <6>1
        <5> QED BY <1>1, <1>5, <5>1, <5>2, <5>3
      <4> QED BY <3>0, <4>1
    <3> QED BY <1>1, <1>5, <2>2, <3>1, <3>2, <3>3, <3>4
  <2> QED BY <2>1, <2>2 DEF IsList
<1>9. Members(new) = Members(old) \cup edge \cup fresh
  <2>1. ASSUME NEW b \in Members(new) PROVE b \in Members(old) \cup edge \cup fresh
    <3>1. PICK j \in Direct : b = new[j] /\ new[j] # -1
      BY DEF Members
    <3>2. j < num + req
      BY <1>6, <3>1
    <3> QED BY <1>1, <1>5, <3>1, <3>2
  <2>2. ASSUME NEW b \in Members(old) PROVE b \in Members(new)
    <3>1. PICK j \in Direct : b = old[j] /\ old[j] # -1
      BY DEF Members
    <3>2. new[j] = old[j]
      BY <1>1, <1>5, <3>1
    <3> QED BY <3>1, <3>2 DEF Members
  <2>3. ASSUME NEW b \in edge PROVE b \in Members(new)
    <3>1. num # first /\ b = Min(edge)
      BY <1>3, <2>3
    <3>2. first \in Direct /\ first <= first /\ first < num
      BY <1>0, <1>1, <1>2, <3>1 DEF Sizes
    <3>3. new[first] = b
      BY <1>5, <3>1, <3>2
    <3> QED BY <1>0, <3>2, <3>3 DEF Members
  <2>4. ASSUME NEW b \in fresh PROVE b \in Members(new)
    <3>1. PICK k \in Nat : k < req /\ Nth(fresh, k) = b
      BY <1>4
    <3> DEFINE j == num + k
    <3>2. /\ j \in Direct /\ num <= j /\ j < num + req /\ j - num = k
      BY <1>0, <1>1, <1>2, <3>1 DEF Sizes
    <3>3. new[j] = b
      BY <1>5, <3>1, <3>2
    <3> HIDE DEF j
    <3> QED BY <1>0, <3>2, <3>3 DEF Members
  <2> QED BY <2>1, <2>2, <2>3, <2>4
<1>10. Cardinality(Members(new)) = num + req
  <2>1. Cardinality(Listed(new)) = num + req
    <3> DEFINE n == num + req
    <3>1. n \in 0..MAX_FILE_SIZE /\ \A j \in Direct : new[j] # -1 <=> j < n
      BY <1>1, <1>6
    <3> HIDE DEF n
    <3>2. Cardinality(Listed(new)) = n
      BY <1>7, <1>8, <3>1, ListOf
    <3> QED BY <3>2 DEF n
  <2> QED BY <1>7, <1>8, <2>1, ListIs
<1>11. \A j \in Direct : old[j] # -1 => new[j] = old[j]
  BY <1>1, <1>5
<1> QED BY <1>7, <1>8, <1>9, <1>10, <1>11

(* The bytes of the blocks that are written.                               *)
LEMMA StoredIs ==
  ASSUME TypeOK, NEW fresh, NEW d, NEW off, NEW n, NEW v \in Bytes
  PROVE  Stored(Filled(fresh), d, off, n, v)
           \in [Blocks -> [0..(BLOCKSIZE - 1) -> Bytes \cup {-1, 0}]]
<1>1. Filled(fresh) \in [Blocks -> [0..(BLOCKSIZE - 1) -> Bytes \cup {-1, 0}]]
  BY DEF Filled, Null, TypeOK
<1>2. ASSUME NEW old \in [Blocks -> [0..(BLOCKSIZE - 1) -> Bytes \cup {-1, 0}]]
      PROVE  Stored(old, d, off, n, v)
               \in [Blocks -> [0..(BLOCKSIZE - 1) -> Bytes \cup {-1, 0}]]
  BY DEF Stored
<1> QED BY <1>1, <1>2

(* What the edge case gives a write: at most one block, nobody's, and only *)
(* to a file that has room for it.                                         *)
LEMMA EdgeIs ==
  ASSUME TypeOK, Consistent, NEW h \in Handles, NEW n, CanWrite(h, n),
         NEW edge, edge = IF AtEdge(h) THEN Lowest(1, blocks_used) ELSE {}
  PROVE  /\ Number(h) \in Inodes /\ Offset(h) \in 0..MaxBytes
         /\ inode[Number(h)].status = "used"
         /\ edge \subseteq Blocks \ blocks_used
         /\ Cardinality(edge) \in {0, 1}
         /\ Cardinality(Listed(inode[Number(h)].direct_blocks)) + Cardinality(edge)
              \in 0..MAX_FILE_SIZE
<1>0. Sizes
  BY SizesAre
<1>1. file_handle_array[h] \in [inode_number : Inodes \cup {-1}, offset : 0..MaxBytes]
  BY DEF TypeOK
<1>2. Number(h) \in Inodes /\ Offset(h) \in 0..MaxBytes
  BY <1>1 DEF CanWrite, Bad, Number, Offset
<1>3. inode[Number(h)].status = "used"
  BY <1>2, Nodes DEF CanWrite, Bad
<1> DEFINE d == inode[Number(h)].direct_blocks
<1>4. d \in [Direct -> Blocks \cup {-1}] /\ IsList(d)
  <2>1. Fine(Number(h))
    BY <1>2, ConsistentIs
  <2> QED BY <1>2, <2>1, Nodes DEF Fine
<1>5. /\ Cardinality(Listed(d)) \in 0..MAX_FILE_SIZE
      /\ \A j \in Direct : d[j] # -1 <=> j < Cardinality(Listed(d))
  <2> HIDE DEF d
  <2> QED BY <1>4, ListIs
<1>6. CASE ~AtEdge(h)
  <2>1. edge = {} /\ Cardinality(edge) = 0
    BY <1>6, FS_EmptySet
  <2> QED BY <1>0, <1>2, <1>3, <1>5, <2>1 DEF Sizes
<1>7. CASE AtEdge(h)
  <2>1. edge = Lowest(1, blocks_used) /\ blocks_used # Blocks
    BY <1>7 DEF CanWrite
  <2>2. 1 <= Cardinality(Blocks \ blocks_used)
    <3> DEFINE Free == Blocks \ blocks_used
    <3>1. Free # {}
      BY <2>1 DEF TypeOK
    <3>2. /\ Free \in SUBSET Nat /\ NUM_DATA_BLOCKS \in Nat
          /\ \A b \in Free : b <= NUM_DATA_BLOCKS
      BY <1>0 DEF Blocks, Sizes
    <3> HIDE DEF Free
    <3>3. IsFiniteSet(Free)
      BY <3>2, FS_BoundedSetOfNaturals
    <3>4. Cardinality(Free) \in Nat /\ Cardinality(Free) # 0
      BY <3>1, <3>3, FS_EmptySet, FS_CardinalityType
    <3> QED BY <3>4 DEF Free
  <2>3. edge \subseteq Blocks \ blocks_used /\ Cardinality(edge) = 1
    BY <2>1, <2>2, LowestIs
  <2>4. Cardinality(Listed(d)) < MAX_FILE_SIZE
    <3> DEFINE q == Offset(h) \div BLOCKSIZE
    <3>1. q < MAX_FILE_SIZE /\ d[q] = -1
      BY <1>7, Zenon DEF AtEdge
    <3>2. q \in Nat
      <4>1. \A a \in Nat, b \in Nat \ {0} : a \div b \in Nat
        BY SMT
      <4> QED BY <1>0, <1>2, <4>1 DEF Sizes
    <3> HIDE DEF q, d
    <3>3. q \in Direct
      BY <1>0, <3>1, <3>2 DEF Direct, Sizes
    <3> QED BY <1>0, <1>5, <3>1, <3>2, <3>3 DEF Sizes
  <2> QED BY <1>0, <1>2, <1>3, <1>5, <2>3, <2>4 DEF Sizes
<1> QED BY <1>6, <1>7

(* Blocks that are filled with zeros are blocks.                           *)
LEMMA FilledIs ==
  ASSUME TypeOK, NEW edge \in SUBSET (Blocks \ blocks_used), data' = Filled(edge)
  PROVE  /\ data' \in [Blocks -> [0..(BLOCKSIZE - 1) -> Bytes \cup {-1, 0}]]
         /\ \A b \in blocks_used : data'[b] = data[b]
<1>1. \A b \in Blocks : Filled(edge)[b] = IF b \in edge THEN Null ELSE data[b]
  BY DEF Filled
<1>2. Null \in [0..(BLOCKSIZE - 1) -> Bytes \cup {-1, 0}]
  BY DEF Null
<1> QED BY <1>1, <1>2 DEF Filled, TypeOK

(* The write that fails leaves its block of the edge case in use: nobody's,*)
(* and lost.                                                               *)
LEMMA WriteFails ==
  ASSUME Disk, NEW edge \in SUBSET (Blocks \ blocks_used),
         blocks_used' = blocks_used \cup edge, lost' = lost \cup edge,
         data' = Filled(edge), UNCHANGED <<inodes_used, inode, file_handle_array>>
  PROVE  Disk'
<1>0. TypeOK /\ Consistent /\ Accounted
  BY DEF Disk
<1>1. TypeOK'
  <2>1. blocks_used' \subseteq Blocks /\ lost' \subseteq Blocks
    BY <1>0 DEF TypeOK
  <2>2. data' \in [Blocks -> [0..(BLOCKSIZE - 1) -> Bytes \cup {-1, 0}]]
    BY <1>0, FilledIs DEF TypeOK
  <2> QED BY <1>0, <2>1, <2>2 DEF TypeOK
<1>2. \A i \in Inodes : BlocksOf(i)' = BlocksOf(i)
  BY DEF BlocksOf
<1>3. \A i \in Inodes : Fine(i)'
  <2> TAKE i \in Inodes
  <2>1. Fine(i) /\ BlocksOf(i)' = BlocksOf(i)
    BY <1>0, <1>2, ConsistentIs
  <2>2. BlocksOf(i) \subseteq blocks_used'
    BY <2>1 DEF Fine
  <2> QED BY <2>1, <2>2 DEF Fine
<1>4. Consistent'
  <2>1. Apart'
    BY <1>0, <1>2, ConsistentIs DEF Apart
  <2> QED BY <1>3, <2>1, ConsistentNext
<1>5. Accounted'
  <2>1. Owned' = Owned
    BY <1>2 DEF Owned
  <2>2. Owned \subseteq blocks_used
    <3>1. \A i \in Inodes : BlocksOf(i) \subseteq blocks_used
      BY <1>0, ConsistentIs DEF Fine
    <3> QED BY <3>1 DEF Owned
  <2> QED BY <1>0, <2>1, <2>2 DEF Accounted
<1> QED BY <1>1, <1>4, <1>5 DEF Disk

(* A write of n bytes at the handle h that succeeds: the file in inode i   *)
(* gets the blocks in got, its list is new, and it has size bytes.         *)
Grown(h, n, v, i, got, new, size) ==
  /\ i = Number(h) /\ inode[i].status = "used"
  /\ Offset(h) \in 0..MaxBytes /\ Offset(h) + n <= MaxBytes
  /\ blocks_used' = blocks_used \cup got
  /\ IsList(new) /\ Members(new) = BlocksOf(i) \cup got
  /\ \A j \in Direct : inode[i].direct_blocks[j] # -1 => new[j] = inode[i].direct_blocks[j]
  /\ size = IF Offset(h) + n > inode[i].file_size THEN Offset(h) + n
                                                  ELSE inode[i].file_size
  /\ size <= Cardinality(Members(new)) * BLOCKSIZE
  /\ inode' = [inode EXCEPT ![i].direct_blocks = new, ![i].file_size = size]
  /\ data' = Stored(Filled(got), new, Offset(h), n, v)
  /\ out' = <<0, <<>>>>
  /\ UNCHANGED <<inodes_used, file_handle_array, lost>>

(* It gives the file blocks that nobody has, enough for all its bytes.     *)
LEMMA WriteSucceeds ==
  ASSUME Disk, NEW h, NEW n, NEW v \in Bytes, NEW i \in Inodes,
         NEW got \in SUBSET (Blocks \ blocks_used),
         NEW new \in [Direct -> Blocks \cup {-1}], NEW size \in 0..MaxBytes,
         Grown(h, n, v, i, got, new, size)
  PROVE  Disk'
<1>g. /\ inode[i].status = "used" /\ blocks_used' = blocks_used \cup got
      /\ IsList(new) /\ Members(new) = BlocksOf(i) \cup got
      /\ size <= Cardinality(Members(new)) * BLOCKSIZE
      /\ inode' = [inode EXCEPT ![i].direct_blocks = new, ![i].file_size = size]
      /\ UNCHANGED <<inodes_used, file_handle_array, lost>>
  BY Zenon DEF Grown
<1>d. data' \in [Blocks -> [0..(BLOCKSIZE - 1) -> Bytes \cup {-1, 0}]]
  <2>1. data' = Stored(Filled(got), new, Offset(h), n, v) /\ TypeOK
    BY Zenon DEF Grown, Disk
  <2> QED BY <2>1, StoredIs
<1>0. TypeOK /\ Consistent /\ Accounted
  BY DEF Disk
<1> DEFINE nd == [inode[i] EXCEPT !.direct_blocks = new, !.file_size = size]
<1>1. inode' = [inode EXCEPT ![i] = nd]
  BY <1>0, <1>g DEF TypeOK
<1>2. /\ nd \in [status : {"free", "used"}, name : Names \cup {Absent},
                 file_size : 0..MaxBytes,
                 direct_blocks : [Direct -> Blocks \cup {-1}]]
      /\ nd.status = "used" /\ nd.file_size = size /\ nd.direct_blocks = new
  <2>1. inode[i] \in [status : {"free", "used"}, name : Names \cup {Absent},
                      file_size : 0..MaxBytes,
                      direct_blocks : [Direct -> Blocks \cup {-1}]]
    BY <1>0 DEF TypeOK
  <2> QED BY <1>g, <2>1
<1> HIDE DEF nd
<1>3. /\ \A k \in Inodes : inode'[k] = IF k = i THEN nd ELSE inode[k]
      /\ BlocksOf(i)' = BlocksOf(i) \cup got
      /\ BlocksOf(i)' = Members(new)
      /\ \A k \in Inodes : k # i => BlocksOf(k)' = BlocksOf(k)
  <2>1. /\ \A k \in Inodes : inode'[k] = IF k = i THEN nd ELSE inode[k]
        /\ BlocksOf(i)' = Members(nd.direct_blocks)
        /\ \A k \in Inodes : k # i => BlocksOf(k)' = BlocksOf(k)
    BY <1>0, <1>1, OneInode, Zenon
  <2>2. BlocksOf(i)' = Members(new)
    BY <1>2, <2>1, Zenon
  <2> QED BY <1>g, <2>1, <2>2
<1>4. \A k \in Inodes : Fine(k) /\ BlocksOf(k) \subseteq blocks_used
  BY <1>0, ConsistentIs DEF Fine
<1>5. TypeOK'
  <2>1. inode' \in [Inodes -> [status : {"free", "used"}, name : Names \cup {Absent},
                file_size : 0..MaxBytes,
                direct_blocks : [Direct -> Blocks \cup {-1}]]]
    BY <1>0, <1>1, <1>2 DEF TypeOK
  <2>2. blocks_used' \subseteq Blocks
    BY <1>0, <1>g DEF TypeOK
  <2> QED BY <1>0, <1>d, <1>g, <2>1, <2>2 DEF TypeOK
<1>6. ASSUME NEW k \in Inodes PROVE Fine(k)'
  <2>1. CASE k = i
    <3>1. /\ inode'[i].status = "used" /\ inode'[i].file_size = size
          /\ inode'[i].direct_blocks = new
      BY <1>2, <1>3
    <3>2. i \in inodes_used'
      BY <1>g, <1>4 DEF Fine
    <3>3. BlocksOf(i)' \subseteq blocks_used'
      BY <1>g, <1>3, <1>4
    <3>4. size <= Cardinality(BlocksOf(i)') * BLOCKSIZE
      BY <1>g, <1>3
    <3> QED BY <1>g, <2>1, <3>1, <3>2, <3>3, <3>4 DEF Fine
  <2>2. CASE k # i
    <3>1. inode'[k] = inode[k] /\ BlocksOf(k)' = BlocksOf(k)
      BY <1>3, <2>2
    <3>2. BlocksOf(k) \subseteq blocks_used'
      BY <1>g, <1>4
    <3> QED BY <1>g, <1>4, <3>1, <3>2 DEF Fine
  <2> QED BY <2>1, <2>2
<1>7. Consistent'
  <2>1. \A k, l \in Inodes : k # l => BlocksOf(k) \cap BlocksOf(l) = {}
    BY <1>0, ConsistentIs DEF Apart
  <2>2. \A k \in Inodes : k # i => BlocksOf(k)' \cap BlocksOf(i)' = {}
    BY <1>3, <1>4, <2>1
  <2>3. ASSUME NEW k \in Inodes, NEW l \in Inodes, k # l
        PROVE  BlocksOf(k)' \cap BlocksOf(l)' = {}
    <3>1. CASE k = i
      BY <2>2, <2>3, <3>1
    <3>2. CASE l = i
      BY <2>2, <2>3, <3>2
    <3>3. CASE k # i /\ l # i
      BY <1>3, <2>1, <2>3, <3>3
    <3> QED BY <3>1, <3>2, <3>3
  <2>4. Apart'
    BY <2>3 DEF Apart
  <2> QED BY <1>6, <2>4, ConsistentNext
<1>8. Accounted'
  <2>1. Owned' = Owned \cup got
    <3>1. \A b : b \in Owned <=> \E k \in Inodes : b \in BlocksOf(k)
      BY DEF Owned
    <3>2. \A b : b \in Owned' <=> \E k \in Inodes : b \in BlocksOf(k)'
      BY DEF Owned
    <3>3. \A b : b \in Owned' => b \in Owned \cup got
      BY <1>3, <3>1, <3>2
    <3>4. \A b : b \in Owned => b \in Owned'
      BY <1>3, <3>1, <3>2
    <3>5. \A b : b \in got => b \in Owned'
      BY <1>3, <3>2
    <3> QED BY <3>3, <3>4, <3>5
  <2>2. got \cap lost = {}
    BY <1>0 DEF Accounted
  <2> QED BY <1>0, <1>g, <2>1, <2>2 DEF Accounted
<1> QED BY <1>5, <1>7, <1>8 DEF Disk

(* A write that passes the checks either fails in its edge case or because *)
(* of too few free blocks, or it succeeds.                                 *)
LEMMA WriteIs ==
  ASSUME Disk, NEW h \in Handles, NEW n \in Int, NEW v,
         CanWrite(h, n), WriteBytes(h, n, v),
         UNCHANGED <<inodes_used, file_handle_array>>
  PROVE  \/ \E edge \in SUBSET (Blocks \ blocks_used) :
              /\ blocks_used' = blocks_used \cup edge /\ lost' = lost \cup edge
              /\ out' = <<-1, <<>>>>
              /\ data' = Filled(edge) /\ UNCHANGED inode
         \/ \E i \in Inodes, got \in SUBSET (Blocks \ blocks_used),
               new \in [Direct -> Blocks \cup {-1}], size \in 0..MaxBytes :
              Grown(h, n, v, i, got, new, size)
<1>a. TypeOK /\ Consistent /\ Accounted /\ Sizes
  BY SizesAre DEF Disk
<1>b. CanWrite(h, n) /\ WriteBytes(h, n, v)
  OBVIOUS
<1>1. PICK edge : edge = IF AtEdge(h) THEN Lowest(1, blocks_used) ELSE {}
  OBVIOUS
<1>2. /\ Number(h) \in Inodes /\ Offset(h) \in 0..MaxBytes
      /\ inode[Number(h)].status = "used"
      /\ edge \subseteq Blocks \ blocks_used
      /\ Cardinality(edge) \in {0, 1}
      /\ Cardinality(Listed(inode[Number(h)].direct_blocks)) + Cardinality(edge)
           \in 0..MAX_FILE_SIZE
  BY <1>a, <1>b, <1>1, EdgeIs
<1>3. PICK i \in Inodes : i = Number(h)
  BY <1>2
<1>4. PICK old : old = inode[i].direct_blocks
  OBVIOUS
<1>5. PICK first : first = Cardinality(Listed(old))
  OBVIOUS
<1>6. PICK num : num = first + Cardinality(edge)
  OBVIOUS
<1>7. PICK req : req = Required(h, n, num)
  OBVIOUS
<1>8. PICK fresh : fresh = Lowest(req, blocks_used \cup edge)
  OBVIOUS
<1>9. PICK new : new = [j \in Direct |->
                IF first <= j /\ j < num THEN Min(edge)
                ELSE IF num <= j /\ j < num + req THEN Nth(fresh, j - num)
                ELSE old[j]]
  OBVIOUS
<1>10. PICK size : size = IF Offset(h) + n > inode[i].file_size THEN Offset(h) + n
                                                               ELSE inode[i].file_size
  OBVIOUS
<1>11. \/ /\ blocks_used' = blocks_used \cup edge /\ lost' = lost \cup edge
          /\ out' = <<-1, <<>>>>
          /\ data' = Filled(edge) /\ UNCHANGED inode
       \/ /\ Cardinality(Blocks \ (blocks_used \cup edge)) >= req
          /\ blocks_used' = (blocks_used \cup edge) \cup fresh
          /\ data' = Stored(Filled(edge \cup fresh), new, Offset(h), n, v)
          /\ inode' = [inode EXCEPT ![i].direct_blocks = new, ![i].file_size = size]
          /\ out' = <<0, <<>>>>
          /\ UNCHANGED lost
  BY <1>b, <1>1, <1>3, <1>4, <1>5, <1>6, <1>7, <1>8, <1>9, <1>10, Zenon
     DEF WriteBytes, WithEdge, Listed, Returns
<1>12. CASE /\ blocks_used' = blocks_used \cup edge /\ lost' = lost \cup edge
            /\ out' = <<-1, <<>>>>
            /\ data' = Filled(edge) /\ UNCHANGED inode
  <2>1. edge \in SUBSET (Blocks \ blocks_used)
    BY <1>2
  <2> QED BY <1>12, <2>1, Zenon
<1>13. CASE /\ Cardinality(Blocks \ (blocks_used \cup edge)) >= req
            /\ blocks_used' = (blocks_used \cup edge) \cup fresh
            /\ data' = Stored(Filled(edge \cup fresh), new, Offset(h), n, v)
            /\ inode' = [inode EXCEPT ![i].direct_blocks = new, ![i].file_size = size]
            /\ out' = <<0, <<>>>>
            /\ UNCHANGED lost
  <2>1. /\ old \in [Direct -> Blocks \cup {-1}] /\ IsList(old)
        /\ BlocksOf(i) = Members(old) /\ BlocksOf(i) \subseteq blocks_used
        /\ inode[i].file_size \in 0..MaxBytes
        /\ inode[i].file_size <= Cardinality(Members(old)) * BLOCKSIZE
    <3>1. Fine(i)
      BY <1>a, ConsistentIs
    <3> QED BY <1>a, <1>4, <3>1, Nodes DEF Fine
  <2>2. num \in 0..MAX_FILE_SIZE
    BY <1>2, <1>3, <1>4, <1>5, <1>6
  <2>3. /\ req \in Nat /\ num + req <= MAX_FILE_SIZE
        /\ Offset(h) + n <= (num + req) * BLOCKSIZE
    BY <1>a, <1>b, <1>2, <1>7, <2>2, RequiredIs DEF CanWrite
  <2>4. fresh \subseteq Blocks \ (blocks_used \cup edge) /\ Cardinality(fresh) = req
    <3> DEFINE used == blocks_used \cup edge
    <3>1. req <= Cardinality(Blocks \ used)
      <4>1. Cardinality(Blocks \ used) >= req
        BY <1>13
      <4> DEFINE c == Cardinality(Blocks \ used)
      <4>2. c >= req
        BY <4>1
      <4> HIDE DEF c
      <4>3. req <= c
        BY <4>2
      <4> QED BY <4>3 DEF c
    <3>2. fresh = Lowest(req, used)
      BY <1>8
    <3> HIDE DEF used
    <3>3. fresh \subseteq Blocks \ used /\ Cardinality(fresh) = req
      BY <2>3, <3>1, <3>2, LowestIs
    <3> QED BY <3>3 DEF used
  <2>5. /\ new \in [Direct -> Blocks \cup {-1}] /\ IsList(new)
        /\ Members(new) = Members(old) \cup edge \cup fresh
        /\ Cardinality(Members(new)) = num + req
        /\ \A j \in Direct : old[j] # -1 => new[j] = old[j]
    <3>1. /\ edge \in SUBSET Blocks /\ fresh \in SUBSET Blocks
          /\ edge \cap Members(old) = {} /\ fresh \cap (Members(old) \cup edge) = {}
      BY <1>2, <2>1, <2>4
    <3> QED BY <1>2, <1>5, <1>6, <1>9, <2>1, <2>3, <2>4, <3>1, NewList
  <2>6. Cardinality(Members(old)) * BLOCKSIZE <= (num + req) * BLOCKSIZE
    <3>1. Cardinality(Members(old)) = first /\ first \in Nat
      BY <1>a, <1>5, <2>1, ListIs DEF Sizes
    <3>2. first <= num + req /\ num + req \in Int /\ BLOCKSIZE \in Nat
      BY <1>a, <1>2, <1>6, <2>2, <2>3, <3>1 DEF Sizes
    <3> QED BY <3>1, <3>2, Product
  <2>7. size \in 0..MaxBytes /\ size <= Cardinality(Members(new)) * BLOCKSIZE
    <3>1. Offset(h) + n <= MaxBytes
      BY <1>a, <1>b, <1>2 DEF CanWrite, TooLong, Sizes
    <3>2. /\ (num + req) * BLOCKSIZE \in Int
          /\ Cardinality(Members(old)) * BLOCKSIZE \in Int
      <4>1. Cardinality(Members(old)) \in Nat
        BY <2>1, ListIs, FS_CardinalityType
      <4> QED BY <1>a, <2>2, <2>3, <4>1, Product DEF Sizes
    <3>3. inode[i].file_size <= (num + req) * BLOCKSIZE
      BY <1>a, <2>1, <2>6, <3>2 DEF Sizes
    <3>4. size \in 0..MaxBytes
      BY <1>a, <1>2, <1>10, <2>1, <3>1 DEF Sizes
    <3>5. size <= (num + req) * BLOCKSIZE
      BY <1>10, <2>3, <3>3
    <3> QED BY <2>5, <3>4, <3>5
  <2>8. PICK got : got = edge \cup fresh
    OBVIOUS
  <2>9. /\ got \in SUBSET (Blocks \ blocks_used)
        /\ blocks_used' = blocks_used \cup got
        /\ Members(new) = BlocksOf(i) \cup got
    BY <1>2, <1>13, <2>1, <2>4, <2>5, <2>8
  <2>10. Offset(h) + n <= MaxBytes
    BY <1>a, <1>b, <1>2 DEF CanWrite, TooLong, Sizes
  <2>11. Grown(h, n, v, i, got, new, size)
    <3>1. data' = Stored(Filled(got), new, Offset(h), n, v)
      BY <1>13, <2>8, Zenon
    <3> QED BY <1>2, <1>3, <1>4, <1>10, <1>13, <2>5, <2>7, <2>9, <2>10, <3>1, Zenon
        DEF Grown
  <2> QED BY <2>5, <2>7, <2>9, <2>11, Zenon
<1> QED BY <1>11, <1>12, <1>13

LEMMA WriteStep ==
  ASSUME Disk, NEW h \in Handles, NEW n \in Lengths, NEW v \in Bytes,
         simplefs_write(h, n, v)
  PROVE  Disk'
<1>1. CASE Fails
  BY <1>1, HandleStep DEF Fails
<1>2. CASE UNCHANGED <<inodes_used, blocks_used, inode, data, file_handle_array, lost>>
  BY <1>2, HandleStep
<1>3. CASE /\ CanWrite(h, n) /\ WriteBytes(h, n, v)
           /\ UNCHANGED <<inodes_used, file_handle_array>>
  <2>1. n \in Int
    BY SimpleFSAssumption
  <2> QED BY <1>3, <2>1, WriteIs, WriteFails, WriteSucceeds
<1> QED BY <1>1, <1>2, <1>3 DEF simplefs_write

-----------------------------------------------------------------------------
LEMMA Kept == Disk /\ [Next]_vars => Disk'
<1> SUFFICES ASSUME Disk, [Next]_vars PROVE Disk'
  OBVIOUS
<1>1. ASSUME NEW name \in Names, simplefs_create(name) PROVE Disk'
  BY <1>1, CreateStep
<1>2. ASSUME NEW name \in Names, simplefs_delete(name) PROVE Disk'
  BY <1>2, DeleteStep
<1>3. ASSUME NEW name \in Names, simplefs_open(name) PROVE Disk'
  BY <1>3, OpenStep
<1>4. ASSUME NEW h \in Handles, simplefs_close(h) PROVE Disk'
  BY <1>4, CloseStep
<1>5. ASSUME NEW h \in Handles, NEW n \in Lengths, simplefs_read(h, n)
      PROVE  Disk'
  BY <1>5, ReadStep
<1>6. ASSUME NEW h \in Handles, NEW n \in Lengths, NEW v \in Bytes,
             simplefs_write(h, n, v)
      PROVE  Disk'
  BY <1>6, WriteStep
<1>7. ASSUME NEW h \in Handles, NEW k \in Seeks, simplefs_seek(h, k)
      PROVE  Disk'
  BY <1>7, SeekStep
<1>8. CASE UNCHANGED vars
  BY <1>8, HandleStep DEF vars
<1> QED BY <1>1, <1>2, <1>3, <1>4, <1>5, <1>6, <1>7, <1>8 DEF Next

LEMMA DiskAlways == Spec => []Disk
<1>1. Init => Disk
  BY Formatted
<1> QED BY <1>1, Kept, PTL DEF Spec

-----------------------------------------------------------------------------
(* The bytes of the files                                                  *)

Length(i) == Cardinality(BlocksOf(i)) * BLOCKSIZE

BlankFrom(i) == \A p \in inode[i].file_size .. Length(i) - 1 : ByteAt(i, p) = 0

(* Position p of a list of c blocks is in one of them.                     *)
LEMMA Position ==
  ASSUME NEW c \in 0..MAX_FILE_SIZE, NEW p \in 0 .. c * BLOCKSIZE - 1
  PROVE  /\ p \div BLOCKSIZE \in Direct /\ p \div BLOCKSIZE < c
         /\ p % BLOCKSIZE \in 0..(BLOCKSIZE - 1)
         /\ (p \div BLOCKSIZE) * BLOCKSIZE + (p % BLOCKSIZE) = p
<1> DEFINE q == p \div BLOCKSIZE
           r == p % BLOCKSIZE
<1>0. Sizes /\ c \in Nat /\ c * BLOCKSIZE \in Nat /\ p \in Nat
  <2>1. Sizes /\ c \in Nat
    BY SizesAre DEF Sizes
  <2>2. c * BLOCKSIZE \in Int
    BY <2>1, Product DEF Sizes
  <2>3. p \in Nat /\ c * BLOCKSIZE > p
    BY <2>2
  <2> QED BY <2>1, <2>2, <2>3
<1>1. q \in Int /\ r \in 0..(BLOCKSIZE - 1) /\ p = q * BLOCKSIZE + r
  BY <1>0, Division DEF Sizes
<1>2. q \in Nat
  <2>1. \A a \in Nat, b \in Nat \ {0} : a \div b \in Nat
    BY SMT
  <2> QED BY <1>0, <2>1 DEF Sizes
<1> HIDE DEF q, r
<1>3. q < c
  <2> SUFFICES ASSUME c <= q PROVE FALSE
    BY <1>0, <1>2
  <2>1. c * BLOCKSIZE <= q * BLOCKSIZE /\ q * BLOCKSIZE \in Int
    BY <1>0, <1>1, Product DEF Sizes
  <2> QED BY <1>0, <1>1, <2>1
<1>4. q \in Direct
  BY <1>0, <1>2, <1>3 DEF Direct, Sizes
<1> QED BY <1>1, <1>3, <1>4 DEF q, r

(* A position is in one block only.                                        *)
LEMMA PositionOnce ==
  ASSUME NEW q \in Int, NEW r \in 0..(BLOCKSIZE - 1), NEW j \in Int
  PROVE  /\ j = q => j * BLOCKSIZE + r = q * BLOCKSIZE + r
         /\ q * BLOCKSIZE + r \in Int
BY SizesAre, Product DEF Sizes

(* The blocks of an inode: how many, and which positions they hold.        *)
LEMMA Held ==
  ASSUME Disk, NEW i \in Inodes
  PROVE  /\ Cardinality(BlocksOf(i)) \in 0..MAX_FILE_SIZE
         /\ Length(i) \in Nat
         /\ inode[i].file_size \in Nat /\ inode[i].file_size <= Length(i)
         /\ \A p \in 0 .. Length(i) - 1 :
              inode[i].direct_blocks[p \div BLOCKSIZE] \in BlocksOf(i)
<1> DEFINE d == inode[i].direct_blocks
<1>0. TypeOK /\ Consistent /\ Sizes
  BY SizesAre DEF Disk
<1>1. Fine(i)
  BY <1>0, ConsistentIs
<1>2. /\ d \in [Direct -> Blocks \cup {-1}] /\ IsList(d)
      /\ BlocksOf(i) = Members(d) /\ inode[i].file_size \in 0..MaxBytes
  BY <1>0, <1>1, Nodes DEF Fine
<1> HIDE DEF d
<1>3. /\ Cardinality(Members(d)) \in 0..MAX_FILE_SIZE
      /\ \A j \in Direct : d[j] # -1 <=> j < Cardinality(Members(d))
  BY <1>2, ListIs
<1>4. Cardinality(BlocksOf(i)) \in 0..MAX_FILE_SIZE
  BY <1>2, <1>3
<1>5. Length(i) \in Nat
  <2>1. \A x, y \in Nat : x * y \in Nat
    BY SMT
  <2> QED BY <1>0, <1>4, <2>1 DEF Length, Sizes
<1>6. inode[i].file_size \in Nat /\ inode[i].file_size <= Length(i)
  BY <1>0, <1>1, <1>2 DEF Fine, Length, Sizes
<1>7. ASSUME NEW p \in 0 .. Length(i) - 1 PROVE d[p \div BLOCKSIZE] \in BlocksOf(i)
  <2> DEFINE q == p \div BLOCKSIZE
  <2>1. q \in Direct /\ q < Cardinality(BlocksOf(i))
    BY <1>4, <1>7, Position DEF Length
  <2> HIDE DEF q
  <2>2. d[q] # -1
    BY <1>2, <1>3, <2>1
  <2>3. d[q] \in BlocksOf(i)
    BY <1>2, <2>1, <2>2 DEF Members
  <2> QED BY <2>3 DEF q
<1> QED BY <1>4, <1>5, <1>6, <1>7 DEF d

(* A file whose inode and data stay the same keeps its bytes.              *)
LEMMA SameBytes ==
  ASSUME NEW i \in Inodes, inode'[i] = inode[i], data' = data
  PROVE  /\ BlocksOf(i)' = BlocksOf(i) /\ Length(i)' = Length(i)
         /\ \A p : ByteAt(i, p)' = ByteAt(i, p)
         /\ BlankFrom(i) => BlankFrom(i)'
<1>1. BlocksOf(i)' = BlocksOf(i)
  BY DEF BlocksOf
<1>2. Length(i)' = Length(i)
  BY <1>1 DEF Length
<1>3. \A p : ByteAt(i, p)' = ByteAt(i, p)
  BY DEF ByteAt
<1> QED BY <1>1, <1>2, <1>3 DEF BlankFrom

(* A file whose inode stays the same keeps its bytes when its blocks do.   *)
LEMMA KeptBytes ==
  ASSUME Disk, NEW i \in Inodes, inode'[i] = inode[i],
         \A b \in blocks_used : data'[b] = data[b]
  PROVE  /\ \A p \in 0 .. Length(i) - 1 : ByteAt(i, p)' = ByteAt(i, p)
         /\ BlankFrom(i) => BlankFrom(i)'
<1>1. BlocksOf(i)' = BlocksOf(i)
  BY DEF BlocksOf
<1>2. Length(i)' = Length(i)
  BY <1>1 DEF Length
<1>3. BlocksOf(i) \subseteq blocks_used
  BY ConsistentIs DEF Disk, Fine
<1>4. ASSUME NEW p \in 0 .. Length(i) - 1 PROVE ByteAt(i, p)' = ByteAt(i, p)
  <2>1. inode[i].direct_blocks[p \div BLOCKSIZE] \in blocks_used
    BY <1>3, Held
  <2> QED BY <2>1 DEF ByteAt
<1>5. inode[i].file_size .. Length(i) - 1 \subseteq 0 .. Length(i) - 1
  BY Held
<1> QED BY <1>2, <1>4, <1>5 DEF BlankFrom

(* What a write that succeeds leaves in the inode it writes and in the     *)
(* others.                                                                 *)
LEMMA GrownNodes ==
  ASSUME Disk, NEW h, NEW n \in Int, NEW v, NEW i \in Inodes,
         NEW got \in SUBSET (Blocks \ blocks_used),
         NEW new \in [Direct -> Blocks \cup {-1}], NEW size \in 0..MaxBytes,
         Grown(h, n, v, i, got, new, size)
  PROVE  /\ inode'[i].status = "used" /\ inode'[i].name = inode[i].name
         /\ inode'[i].file_size = size /\ inode'[i].direct_blocks = new
         /\ BlocksOf(i)' = Members(new)
         /\ \A k \in Inodes \ {i} : inode'[k] = inode[k] /\ BlocksOf(k)' = BlocksOf(k)
<1>g. /\ inode[i].status = "used"
      /\ inode' = [inode EXCEPT ![i].direct_blocks = new, ![i].file_size = size]
  BY Zenon DEF Grown
<1>0. TypeOK
  BY DEF Disk
<1> DEFINE nd == [inode[i] EXCEPT !.direct_blocks = new, !.file_size = size]
<1>1. inode' = [inode EXCEPT ![i] = nd]
  BY <1>0, <1>g DEF TypeOK
<1>2. /\ nd.status = "used" /\ nd.name = inode[i].name
      /\ nd.file_size = size /\ nd.direct_blocks = new
  <2>1. inode[i] \in [status : {"free", "used"}, name : Names \cup {Absent},
                      file_size : 0..MaxBytes,
                      direct_blocks : [Direct -> Blocks \cup {-1}]]
    BY <1>0 DEF TypeOK
  <2> QED BY <1>g, <2>1
<1> HIDE DEF nd
<1>3. /\ \A k \in Inodes : inode'[k] = IF k = i THEN nd ELSE inode[k]
      /\ BlocksOf(i)' = Members(nd.direct_blocks)
      /\ \A k \in Inodes : k # i => BlocksOf(k)' = BlocksOf(k)
  BY <1>0, <1>1, OneInode, Zenon
<1>4. inode'[i] = nd
  BY <1>3
<1>5. BlocksOf(i)' = Members(new)
  BY <1>2, <1>3, Zenon
<1> QED BY <1>2, <1>3, <1>4, <1>5

(* The file that was written has v where it was written, its own bytes     *)
(* elsewhere, and zeros in the rest of its blocks.                         *)
LEMMA WrittenBytes ==
  ASSUME Disk, NEW h, NEW n \in Int, NEW v, NEW i \in Inodes, BlankFrom(i),
         NEW got \in SUBSET (Blocks \ blocks_used),
         NEW new \in [Direct -> Blocks \cup {-1}], NEW size \in 0..MaxBytes,
         Grown(h, n, v, i, got, new, size),
         NEW p \in 0 .. Cardinality(Members(new)) * BLOCKSIZE - 1
  PROVE  ByteAt(i, p)' = IF Offset(h) <= p /\ p < Offset(h) + n THEN v
                         ELSE IF p < inode[i].file_size THEN ByteAt(i, p) ELSE 0
<1>n. inode'[i].direct_blocks = new
  <2>1. /\ inode'[i].status = "used" /\ inode'[i].name = inode[i].name
        /\ inode'[i].file_size = size /\ inode'[i].direct_blocks = new
        /\ BlocksOf(i)' = Members(new)
        /\ \A k \in Inodes \ {i} : inode'[k] = inode[k] /\ BlocksOf(k)' = BlocksOf(k)
    BY GrownNodes, Zenon
  <2> QED BY <2>1
<1> DEFINE q == p \div BLOCKSIZE
           r == p % BLOCKSIZE
           old == inode[i].direct_blocks
           b == new[q]
           off == Offset(h)
<1>g. /\ IsList(new) /\ Members(new) = BlocksOf(i) \cup got
      /\ \A j \in Direct : old[j] # -1 => new[j] = old[j]
      /\ data' = Stored(Filled(got), new, off, n, v)
      /\ off \in Int
  BY DEF Grown
<1>0. TypeOK /\ Consistent /\ Sizes
  BY SizesAre DEF Disk
<1>1. /\ old \in [Direct -> Blocks \cup {-1}] /\ IsList(old)
      /\ BlocksOf(i) = Members(old) /\ BlocksOf(i) \subseteq blocks_used
  <2>1. Fine(i)
    BY <1>0, ConsistentIs
  <2> QED BY <1>0, <2>1, Nodes DEF Fine
<1>2. /\ Cardinality(Members(new)) \in 0..MAX_FILE_SIZE
      /\ \A j \in Direct : new[j] # -1 <=> j < Cardinality(Members(new))
  BY <1>g, ListIs
<1>3. /\ q \in Direct /\ q < Cardinality(Members(new))
      /\ r \in 0..(BLOCKSIZE - 1) /\ q * BLOCKSIZE + r = p
  BY <1>2, Position
<1>4. ByteAt(i, p)' = data'[b][r]
  BY <1>n DEF ByteAt
<1>5. ByteAt(i, p) = data[old[q]][r]
  BY DEF ByteAt
<1>6. inode[i].file_size \in Nat /\ inode[i].file_size <= Length(i) /\ Length(i) \in Nat
  BY Held
<1>7. p \in Nat
  <2>1. Cardinality(Members(new)) * BLOCKSIZE \in Int
    BY <1>0, <1>2, Product DEF Sizes
  <2> QED BY <2>1
<1> HIDE DEF q, r, old, off
<1>8. b \in Blocks /\ b \in Members(new)
  <2>1. new[q] # -1
    BY <1>2, <1>3
  <2> QED BY <1>3, <2>1 DEF Members
<1>9. data'[b][r] = IF off <= p /\ p < off + n THEN v ELSE Filled(got)[b][r]
  <2>1. data'[b][r] = IF \E j \in Direct : /\ new[j] = b /\ off <= j * BLOCKSIZE + r
                                           /\ j * BLOCKSIZE + r < off + n
                        THEN v ELSE Filled(got)[b][r]
    BY <1>g, <1>3, <1>8 DEF Stored
  <2>2. \A j \in Direct : new[j] = b <=> j = q
    BY <1>g, <1>2, <1>3 DEF IsList
  <2>3. (\E j \in Direct : /\ new[j] = b /\ off <= j * BLOCKSIZE + r
                           /\ j * BLOCKSIZE + r < off + n)
          <=> off <= p /\ p < off + n
    BY <1>3, <2>2, Zenon
  <2> QED BY <2>1, <2>3, Zenon
<1> HIDE DEF b
<1>10. CASE old[q] # -1
  <2>1. b = old[q] /\ b \in BlocksOf(i)
    BY <1>g, <1>1, <1>3, <1>10 DEF Members, b
  <2>2. b \notin got
    BY <1>1, <2>1
  <2>3. Filled(got)[b][r] = ByteAt(i, p)
    BY <1>5, <1>8, <2>1, <2>2 DEF Filled
  <2>4. p >= inode[i].file_size => ByteAt(i, p) = 0
    <3>1. p < Length(i)
      <4>1. /\ Cardinality(BlocksOf(i)) \in Nat
            /\ q < Cardinality(BlocksOf(i))
        <5>1. /\ Cardinality(Members(old)) \in 0..MAX_FILE_SIZE
              /\ \A j \in Direct : old[j] # -1 <=> j < Cardinality(Members(old))
          BY <1>1, ListIs
        <5> QED BY <1>1, <1>3, <1>10, <5>1
      <4>2. q \in Nat
        BY <1>0, <1>3 DEF Direct, Sizes
      <4>3. (q + 1) * BLOCKSIZE <= Length(i) /\ (q + 1) * BLOCKSIZE = q * BLOCKSIZE + BLOCKSIZE
        <5> DEFINE c == Cardinality(BlocksOf(i))
        <5>1. c \in Nat /\ q + 1 <= c
          BY <4>1, <4>2
        <5>2. Length(i) = c * BLOCKSIZE
          BY DEF Length
        <5> HIDE DEF c
        <5> QED BY <1>0, <4>2, <5>1, <5>2, Product DEF Sizes
      <4>4. q * BLOCKSIZE \in Int
        BY <1>0, <4>2, Product DEF Sizes
      <4> QED BY <1>0, <1>3, <1>6, <4>3, <4>4 DEF Sizes
    <3> QED BY <1>6, <1>7, <3>1 DEF BlankFrom
  <2> QED BY <1>4, <1>6, <1>7, <1>9, <2>3, <2>4 DEF off
<1>11. CASE old[q] = -1
  <2>1. b \in got
    <3>1. b \notin Members(old)
      <4> SUFFICES ASSUME NEW j \in Direct, old[j] # -1, b = old[j] PROVE FALSE
        BY DEF Members
      <4>1. new[j] = new[q] /\ new[j] # -1
        BY <1>g, <1>8 DEF b
      <4>2. j = q
        BY <1>g, <1>3, <4>1 DEF IsList
      <4> QED BY <1>11, <4>2
    <3> QED BY <1>g, <1>1, <1>8, <3>1
  <2>2. Filled(got)[b][r] = 0
    BY <1>3, <1>8, <2>1 DEF Filled, Null
  <2>3. ~(p < inode[i].file_size)
    <3> SUFFICES ASSUME p < inode[i].file_size PROVE FALSE
      OBVIOUS
    <3>1. p \in 0 .. Length(i) - 1
      BY <1>6, <1>7
    <3>2. old[q] \in BlocksOf(i)
      BY <3>1, Held DEF old, q
    <3> QED BY <1>1, <1>11, <3>2 DEF Members
  <2> QED BY <1>4, <1>9, <2>2, <2>3 DEF off
<1> QED BY <1>10, <1>11

(* The other files keep their bytes.                                       *)
LEMMA OtherBytes ==
  ASSUME Disk, NEW h, NEW n \in Int, NEW v, NEW i \in Inodes,
         NEW got \in SUBSET (Blocks \ blocks_used),
         NEW new \in [Direct -> Blocks \cup {-1}], NEW size \in 0..MaxBytes,
         Grown(h, n, v, i, got, new, size),
         NEW k \in Inodes \ {i}, NEW p \in 0 .. Length(k) - 1
  PROVE  ByteAt(k, p)' = ByteAt(k, p)
<1> DEFINE q == p \div BLOCKSIZE
           r == p % BLOCKSIZE
           b == inode[k].direct_blocks[q]
<1>0. TypeOK /\ Consistent /\ Sizes
  BY SizesAre DEF Disk
<1>g. /\ Members(new) = BlocksOf(i) \cup got
      /\ data' = Stored(Filled(got), new, Offset(h), n, v)
  BY Zenon DEF Grown
<1>1. b \in BlocksOf(k) /\ BlocksOf(k) \subseteq blocks_used /\ BlocksOf(k) \subseteq Blocks
  BY <1>0, Held, Nodes, ConsistentIs DEF Fine
<1>2. r \in 0..(BLOCKSIZE - 1)
  <2>1. Cardinality(BlocksOf(k)) \in 0..MAX_FILE_SIZE
    BY Held
  <2> QED BY <2>1, Position DEF Length
<1>3. ByteAt(k, p)' = data'[b][r] /\ ByteAt(k, p) = data[b][r]
  <2>1. inode'[k] = inode[k]
    BY GrownNodes
  <2> QED BY <2>1 DEF ByteAt
<1> HIDE DEF b, q, r
<1>4. b \notin Members(new) /\ b \notin got
  <2>1. BlocksOf(k) \cap BlocksOf(i) = {}
    BY <1>0, ConsistentIs DEF Apart
  <2> QED BY <1>g, <1>1, <2>1
<1>5. \A j \in Direct : new[j] # b
  <2>1. b # -1
    BY <1>0, <1>1 DEF Blocks, Sizes
  <2> QED BY <1>4, <2>1 DEF Members
<1>6. data'[b][r] = Filled(got)[b][r]
  BY <1>g, <1>1, <1>2, <1>5 DEF Stored
<1>7. Filled(got)[b][r] = data[b][r]
  BY <1>1, <1>4 DEF Filled
<1> QED BY <1>3, <1>6, <1>7

-----------------------------------------------------------------------------
(* Names and zeros                                                         *)

LEMMA BlankIs == /\ Blank <=> \A i \in Inodes : BlankFrom(i)
                 /\ Blank' <=> \A i \in Inodes : BlankFrom(i)'
BY DEF Blank, BlankFrom, Length

(* An inode without blocks has nothing behind the end.                     *)
LEMMA EmptyIsBlank ==
  ASSUME NEW i \in Inodes, BlocksOf(i)' = {}, inode'[i].file_size = 0
  PROVE  BlankFrom(i)'
<1>1. Length(i)' = 0
  <2>1. Cardinality(BlocksOf(i)') = 0
    BY FS_EmptySet, Zenon
  <2>2. Length(i)' = Cardinality(BlocksOf(i)') * BLOCKSIZE
    BY DEF Length
  <2>3. 0 * BLOCKSIZE = 0
    BY SizesAre DEF Sizes
  <2> QED BY <2>1, <2>2, <2>3
<1>2. \A p \in 0 .. 0 - 1 : FALSE
  OBVIOUS
<1> QED BY <1>1, <1>2 DEF BlankFrom

LEMMA FilesAlone ==
  ASSUME Invariants, UNCHANGED <<inode, data>>
  PROVE  Named' /\ Blank'
<1>1. \A i \in Inodes : BlankFrom(i) /\ inode'[i] = inode[i]
  BY BlankIs DEF Invariants
<1>2. \A i \in Inodes : BlankFrom(i)'
  BY <1>1, SameBytes
<1>3. Named'
  BY DEF Invariants, Named
<1> QED BY <1>2, <1>3, BlankIs

(* The write that fails after its edge case spoils no file. *)
LEMMA FailedFiles ==
  ASSUME Invariants, NEW edge \in SUBSET (Blocks \ blocks_used), data' = Filled(edge),
         UNCHANGED inode
  PROVE  Named' /\ Blank'
<1>0. Disk
  BY DEF Invariants, Disk
<1>1. \A b \in blocks_used : data'[b] = data[b]
  BY <1>0, FilledIs DEF Disk
<1>2. \A i \in Inodes : BlankFrom(i)'
  BY <1>0, <1>1, KeptBytes, BlankIs DEF Invariants
<1>3. Named'
  BY DEF Invariants, Named
<1> QED BY <1>2, <1>3, BlankIs

(* What create and delete do to the inodes.                                *)
LEMMA CreateIs ==
  ASSUME TypeOK, NEW name \in Names, simplefs_create(name), ~Fails
  PROVE  /\ Found(name) = {}
         /\ \E i \in Inodes :
              /\ i \notin inodes_used
              /\ inode' = [inode EXCEPT ![i] =
                   [status |-> "used", name |-> name, file_size |-> 0,
                    direct_blocks |-> NoBlocks]]
              /\ out' = <<i, <<>>>>
              /\ BlocksOf(i)' = {}
              /\ inode'[i] = [status |-> "used", name |-> name, file_size |-> 0,
                              direct_blocks |-> NoBlocks]
              /\ \A k \in Inodes : k # i => inode'[k] = inode[k]
         /\ UNCHANGED <<data, file_handle_array>>
<1>0. FreeInodes # {}
  BY DEF simplefs_create
<1>1. PICK i \in FreeInodes : i = Min(FreeInodes)
  <2>1. FreeInodes \in SUBSET Nat
    BY SizesAre DEF FreeInodes, Inodes, Sizes
  <2> QED BY <1>0, <2>1, MinIs
<1> DEFINE nd == [status |-> "used", name |-> name, file_size |-> 0,
                  direct_blocks |-> NoBlocks]
<1>2. /\ Found(name) = {} /\ inode' = [inode EXCEPT ![i] = nd]
      /\ out' = <<i, <<>>>>
      /\ UNCHANGED <<data, file_handle_array>>
  BY <1>1 DEF simplefs_create, Returns
<1>3. i \in Inodes /\ i \notin inodes_used
  BY DEF FreeInodes
<1>4. nd.direct_blocks = NoBlocks
  OBVIOUS
<1> HIDE DEF nd
<1>5. /\ \A k \in Inodes : inode'[k] = IF k = i THEN nd ELSE inode[k]
      /\ BlocksOf(i)' = Members(nd.direct_blocks)
      /\ \A k \in Inodes : k # i => BlocksOf(k)' = BlocksOf(k)
  BY <1>2, <1>3, OneInode, Zenon
<1>6. BlocksOf(i)' = {} /\ inode'[i] = nd
  BY <1>3, <1>4, <1>5, NoBlocksIs
<1>7. \A k \in Inodes : k # i => inode'[k] = inode[k]
  BY <1>5
<1> QED BY <1>2, <1>3, <1>6, <1>7 DEF nd

LEMMA DeleteIs ==
  ASSUME TypeOK, NEW name \in Names, simplefs_delete(name), Found(name) # {}
  PROVE  /\ \E i \in Found(name) :
              /\ inode'[i].status = "free" /\ inode'[i].file_size = 0
              /\ BlocksOf(i)' = {}
              /\ \A k \in Inodes : k # i => inode'[k] = inode[k]
         /\ UNCHANGED data
<1>1. PICK i \in Found(name) : i = Min(Found(name)) /\ i \in Inodes
  <2>1. Found(name) \in SUBSET Nat
    BY SizesAre DEF Found, Inodes, Sizes
  <2>2. Min(Found(name)) \in Found(name)
    BY <2>1, MinIs
  <2> QED BY <2>2 DEF Found
<1> DEFINE nd == [inode[i] EXCEPT !.status = "free", !.file_size = 0,
                                  !.direct_blocks = NoBlocks]
<1>2. /\ inode' = [inode EXCEPT ![i].status = "free", ![i].file_size = 0,
                                ![i].direct_blocks = NoBlocks]
      /\ UNCHANGED data
  BY <1>1 DEF simplefs_delete
<1>3. inode' = [inode EXCEPT ![i] = nd]
  BY <1>1, <1>2 DEF TypeOK
<1>4. nd.status = "free" /\ nd.file_size = 0 /\ nd.direct_blocks = NoBlocks
  <2>1. inode[i] \in [status : {"free", "used"}, name : Names \cup {Absent},
                      file_size : 0..MaxBytes,
                      direct_blocks : [Direct -> Blocks \cup {-1}]]
    BY <1>1 DEF TypeOK
  <2> QED BY <2>1
<1> HIDE DEF nd
<1>5. /\ \A k \in Inodes : inode'[k] = IF k = i THEN nd ELSE inode[k]
      /\ BlocksOf(i)' = Members(nd.direct_blocks)
      /\ \A k \in Inodes : k # i => BlocksOf(k)' = BlocksOf(k)
  BY <1>1, <1>3, OneInode, Zenon
<1>6. BlocksOf(i)' = {} /\ inode'[i] = nd
  BY <1>1, <1>4, <1>5, NoBlocksIs
<1>7. \A k \in Inodes : k # i => inode'[k] = inode[k]
  BY <1>5
<1> QED BY <1>2, <1>4, <1>6, <1>7

LEMMA CreateFiles ==
  ASSUME Invariants, NEW name \in Names, simplefs_create(name)
  PROVE  Named' /\ Blank'
<1>0. TypeOK /\ Named /\ Blank
  BY DEF Invariants
<1>1. CASE Fails
  BY <1>1, FilesAlone DEF Fails
<1>2. CASE ~Fails
  <2>1. PICK i \in Inodes :
          /\ BlocksOf(i)' = {}
          /\ inode'[i] = [status |-> "used", name |-> name, file_size |-> 0,
                          direct_blocks |-> NoBlocks]
          /\ \A k \in Inodes : k # i => inode'[k] = inode[k]
    BY <1>0, <1>2, CreateIs, Zenon
  <2>2. Found(name) = {} /\ data' = data
    BY <1>0, <1>2, CreateIs
  <2>3. Named'
    <3>1. \A k \in Inodes : inode[k].status = "used" => inode[k].name # name
      BY <2>2 DEF Found
    <3>2. inode'[i].status = "used" /\ inode'[i].name = name
      BY <2>1
    <3>3. ASSUME NEW j \in Inodes, NEW k \in Inodes, inode'[j].status = "used",
                 inode'[k].status = "used", inode'[j].name = inode'[k].name
          PROVE  j = k
      <4>1. j # i => inode'[j] = inode[j]
        BY <2>1
      <4>2. k # i => inode'[k] = inode[k]
        BY <2>1
      <4>3. CASE j # i /\ k # i
        BY <1>0, <3>3, <4>1, <4>2, <4>3 DEF Named
      <4>4. CASE j = i /\ k # i
        BY <3>1, <3>2, <3>3, <4>2, <4>4
      <4>5. CASE j # i /\ k = i
        BY <3>1, <3>2, <3>3, <4>1, <4>5
      <4> QED BY <4>3, <4>4, <4>5
    <3> QED BY <3>3 DEF Named
  <2>4. Blank'
    <3>1. ASSUME NEW k \in Inodes PROVE BlankFrom(k)'
      <4>1. CASE k = i
        <5>1. inode'[k].file_size = 0 /\ BlocksOf(k)' = {}
          BY <2>1, <4>1
        <5> QED BY <5>1, EmptyIsBlank
      <4>2. CASE k # i
        <5>1. inode'[k] = inode[k] /\ data' = data /\ BlankFrom(k)
          BY <1>0, <2>1, <2>2, <4>2, BlankIs
        <5> QED BY <5>1, SameBytes
      <4> QED BY <4>1, <4>2
    <3> QED BY <3>1, BlankIs
  <2> QED BY <2>3, <2>4
<1> QED BY <1>1, <1>2

LEMMA DeleteFiles ==
  ASSUME Invariants, NEW name \in Names, simplefs_delete(name)
  PROVE  Named' /\ Blank'
<1>0. TypeOK /\ Named /\ Blank
  BY DEF Invariants
<1>1. CASE Found(name) = {}
  BY <1>1, FilesAlone DEF simplefs_delete
<1>2. CASE Found(name) # {}
  <2>1. PICK i \in Found(name) :
          /\ inode'[i].status = "free" /\ inode'[i].file_size = 0
          /\ BlocksOf(i)' = {}
          /\ \A k \in Inodes : k # i => inode'[k] = inode[k]
    BY <1>0, <1>2, DeleteIs, Zenon
  <2>2. data' = data
    BY <1>0, <1>2, DeleteIs
  <2>3. Named'
    <3>1. ASSUME NEW j \in Inodes, NEW k \in Inodes, inode'[j].status = "used",
                 inode'[k].status = "used", inode'[j].name = inode'[k].name
          PROVE  j = k
      <4>1. j # i /\ k # i
        BY <2>1, <3>1
      <4>2. inode'[j] = inode[j] /\ inode'[k] = inode[k]
        BY <2>1, <4>1
      <4> QED BY <1>0, <3>1, <4>2 DEF Named
    <3> QED BY <3>1 DEF Named
  <2>4. Blank'
    <3>1. ASSUME NEW k \in Inodes PROVE BlankFrom(k)'
      <4>1. CASE k = i
        <5>1. inode'[k].file_size = 0 /\ BlocksOf(k)' = {}
          BY <2>1, <4>1
        <5> QED BY <5>1, EmptyIsBlank
      <4>2. CASE k # i
        <5>1. inode'[k] = inode[k] /\ data' = data /\ BlankFrom(k)
          BY <1>0, <2>1, <2>2, <4>2, BlankIs
        <5> QED BY <5>1, SameBytes
      <4> QED BY <4>1, <4>2
    <3> QED BY <3>1, BlankIs
  <2> QED BY <2>3, <2>4
<1> QED BY <1>1, <1>2

(* The zeros behind the end of the file are those of its fresh blocks.     *)
LEMMA GrownFiles ==
  ASSUME Invariants, Disk', NEW h, NEW n \in Int, NEW v, NEW i \in Inodes,
         NEW got \in SUBSET (Blocks \ blocks_used),
         NEW new \in [Direct -> Blocks \cup {-1}], NEW size \in 0..MaxBytes,
         Grown(h, n, v, i, got, new, size)
  PROVE  Named' /\ Blank'
<1>0. Disk /\ Named /\ Blank
  BY DEF Invariants, Disk
<1>1. /\ inode'[i].status = "used" /\ inode'[i].name = inode[i].name
      /\ inode'[i].file_size = size /\ inode'[i].direct_blocks = new
      /\ BlocksOf(i)' = Members(new)
      /\ \A k \in Inodes \ {i} : inode'[k] = inode[k] /\ BlocksOf(k)' = BlocksOf(k)
  BY <1>0, GrownNodes, Zenon
<1>g. /\ inode[i].status = "used" /\ Offset(h) \in Int
      /\ size = IF Offset(h) + n > inode[i].file_size THEN Offset(h) + n
                                                     ELSE inode[i].file_size
  BY DEF Grown
<1>2. Named'
  <2>1. \A k \in Inodes : inode'[k].status = inode[k].status /\ inode'[k].name = inode[k].name
    BY <1>1, <1>g
  <2> QED BY <1>0, <2>1 DEF Named
<1>3. BlankFrom(i)'
  <2>1. BlankFrom(i) /\ inode[i].file_size \in Nat
    BY <1>0, BlankIs, Held
  <2>2. Length(i)' = Cardinality(Members(new)) * BLOCKSIZE
    BY <1>1 DEF Length
  <2>3. ASSUME NEW p \in size .. Cardinality(Members(new)) * BLOCKSIZE - 1
        PROVE  ByteAt(i, p)' = 0
    <3>1. p \in Nat /\ p >= size
      OBVIOUS
    <3>2. p \in 0 .. Cardinality(Members(new)) * BLOCKSIZE - 1
      BY <3>1
    <3>3. ByteAt(i, p)' = IF Offset(h) <= p /\ p < Offset(h) + n THEN v
                          ELSE IF p < inode[i].file_size THEN ByteAt(i, p) ELSE 0
      BY <1>0, <2>1, <3>2, WrittenBytes
    <3>4. ~(Offset(h) <= p /\ p < Offset(h) + n) /\ ~(p < inode[i].file_size)
      BY <1>g, <2>1, <3>1
    <3> QED BY <3>3, <3>4, Zenon
  <2> QED BY <1>1, <2>2, <2>3 DEF BlankFrom
<1>4. ASSUME NEW k \in Inodes \ {i} PROVE BlankFrom(k)'
  <2>1. /\ BlankFrom(k) /\ inode[k].file_size \in Nat
    BY <1>0, BlankIs, Held
  <2>2. inode'[k] = inode[k] /\ Length(k)' = Length(k)
    BY <1>1 DEF Length
  <2>3. \A p \in 0 .. Length(k) - 1 : ByteAt(k, p)' = ByteAt(k, p)
    BY <1>0, OtherBytes
  <2>4. ASSUME NEW p \in inode[k].file_size .. Length(k) - 1 PROVE ByteAt(k, p)' = 0
    <3>1. p \in 0 .. Length(k) - 1
      BY <1>0, <2>1, Held
    <3>2. ByteAt(k, p) = 0
      BY <2>1 DEF BlankFrom
    <3> QED BY <2>3, <3>1, <3>2
  <2> QED BY <2>2, <2>4 DEF BlankFrom
<1>5. Blank'
  BY <1>3, <1>4, BlankIs
<1> QED BY <1>2, <1>5

LEMMA WriteFiles ==
  ASSUME Invariants, Disk', NEW h \in Handles, NEW n \in Lengths, NEW v \in Bytes,
         simplefs_write(h, n, v)
  PROVE  Named' /\ Blank'
<1>0. Disk /\ n \in Int
  BY SimpleFSAssumption DEF Invariants, Disk
<1>1. CASE UNCHANGED <<inode, data>>
  BY <1>1, FilesAlone
<1>2. CASE /\ CanWrite(h, n) /\ WriteBytes(h, n, v)
           /\ UNCHANGED <<inodes_used, file_handle_array>>
  BY <1>0, <1>2, WriteIs, FailedFiles, GrownFiles
<1> QED BY <1>1, <1>2 DEF simplefs_write, Fails

LEMMA FilesKept == Invariants /\ Disk' /\ [Next]_vars => Named' /\ Blank'
<1> SUFFICES ASSUME Invariants, Disk', [Next]_vars PROVE Named' /\ Blank'
  OBVIOUS
<1>1. ASSUME NEW name \in Names, simplefs_create(name) PROVE Named' /\ Blank'
  BY <1>1, CreateFiles
<1>2. ASSUME NEW name \in Names, simplefs_delete(name) PROVE Named' /\ Blank'
  BY <1>2, DeleteFiles
<1>3. ASSUME NEW name \in Names, simplefs_open(name) PROVE Named' /\ Blank'
  BY <1>3, FilesAlone DEF simplefs_open, Fails
<1>4. ASSUME NEW h \in Handles, simplefs_close(h) PROVE Named' /\ Blank'
  BY <1>4, FilesAlone DEF simplefs_close
<1>5. ASSUME NEW h \in Handles, NEW n \in Lengths, simplefs_read(h, n)
      PROVE  Named' /\ Blank'
  BY <1>5, FilesAlone DEF simplefs_read, Fails
<1>6. ASSUME NEW h \in Handles, NEW n \in Lengths, NEW v \in Bytes,
             simplefs_write(h, n, v)
      PROVE  Named' /\ Blank'
  BY <1>6, WriteFiles
<1>7. ASSUME NEW h \in Handles, NEW k \in Seeks, simplefs_seek(h, k)
      PROVE  Named' /\ Blank'
  BY <1>7, FilesAlone DEF simplefs_seek, Fails
<1>8. CASE UNCHANGED vars
  BY <1>8, FilesAlone DEF vars
<1> QED BY <1>1, <1>2, <1>3, <1>4, <1>5, <1>6, <1>7, <1>8 DEF Next

LEMMA FilesInit == Init => Named /\ Blank
<1> SUFFICES ASSUME Init PROVE Named /\ Blank
  OBVIOUS
<1>1. Named
  BY DEF Init, Named
<1>2. ASSUME NEW i \in Inodes PROVE BlankFrom(i)
  <2>1. BlocksOf(i) = {}
    BY NoBlocksIs DEF Init, BlocksOf, Members
  <2>2. Length(i) = 0
    <3>1. Cardinality(BlocksOf(i)) = 0
      BY <2>1, FS_EmptySet, Zenon
    <3>2. 0 * BLOCKSIZE = 0
      BY SizesAre DEF Sizes
    <3> QED BY <3>1, <3>2 DEF Length
  <2>3. inode[i].file_size = 0
    BY DEF Init
  <2>4. \A p \in 0 .. 0 - 1 : FALSE
    OBVIOUS
  <2> QED BY <2>2, <2>3, <2>4 DEF BlankFrom
<1>3. Blank
  BY <1>2, BlankIs
<1> QED BY <1>1, <1>3

(* However many inodes, blocks and handles there are, whatever the size of *)
(* a block: the free lists agree with the inodes, no block belongs to two  *)
(* files and no name to two, a file's blocks hold all its bytes and zeros  *)
(* behind them, and the blocks in use that no file has are those a write   *)
(* has left behind in its edge case (simplefs-ops.c).                      *)
THEOREM DiskKept == Spec => []Invariants
<1>1. Init => Invariants
  BY Formatted, FilesInit DEF Disk, Invariants
<1>2. Invariants /\ [Next]_vars => Invariants'
  BY Kept, FilesKept DEF Disk, Invariants
<1> QED BY <1>1, <1>2, PTL DEF Spec

-----------------------------------------------------------------------------
(* The refinement of FileSystem                                            *)

(* What a file is to the programs; a file is not the value Absent.         *)
Content(i) == [k \in 1..inode[i].file_size |-> ByteAt(i, k - 1)]
FileOf(i) == IF inode[i].status = "free" THEN Absent
             ELSE [name |-> inode[i].name, bytes |-> Content(i)]
NoFile == \A x, y : [name |-> x, bytes |-> y] # Absent

LEMMA FileIs ==
  /\ file = [i \in Inodes |-> FileOf(i)]
  /\ file' = [i \in Inodes |-> FileOf(i)']
BY DEF file, FileOf, Content

LEMMA SequenceOf ==
  ASSUME NEW n \in Nat, NEW s, s = [k \in 1..n |-> s[k]]
  PROVE  Len(s) = n
OBVIOUS

LEMMA UsedFile ==
  ASSUME NoFile, Disk, NEW i \in Inodes
  PROVE  /\ file[i] # Absent <=> inode[i].status = "used"
         /\ file[i] # Absent =>
              /\ file[i] = [name |-> inode[i].name, bytes |-> Content(i)]
              /\ file[i].name = inode[i].name /\ file[i].bytes = Content(i)
              /\ Len(file[i].bytes) = inode[i].file_size
<1>1. file[i] = FileOf(i)
  BY FileIs
<1>2. inode[i].status \in {"free", "used"} /\ inode[i].file_size \in Nat
  BY Nodes, Held DEF Disk
<1>3. Len(Content(i)) = inode[i].file_size
  <2>1. Content(i) = [k \in 1..inode[i].file_size |-> Content(i)[k]]
    BY DEF Content
  <2> QED BY <1>2, <2>1, SequenceOf
<1>4. inode[i].status = "used" => [name |-> inode[i].name, bytes |-> Content(i)] # Absent
  BY DEF NoFile
<1>5. inode[i].status = "used" => file[i] = [name |-> inode[i].name, bytes |-> Content(i)]
  BY <1>1 DEF FileOf
<1>6. inode[i].status = "free" => file[i] = Absent
  BY <1>1 DEF FileOf
<1> QED BY <1>2, <1>3, <1>4, <1>5, <1>6

LEMMA CalledIs ==
  ASSUME NoFile, Disk, NEW name
  PROVE  F!Called(name) = Found(name)
<1>1. \A i \in Inodes : file[i] # Absent /\ file[i].name = name
                          <=> inode[i].status = "used" /\ inode[i].name = name
  BY UsedFile
<1> QED BY <1>1 DEF F!Called, Found

(* A file whose inode stays the same and keeps its bytes is the same file. *)
LEMMA SameFile ==
  ASSUME NEW i \in Inodes, inode'[i] = inode[i],
         \A k \in 1..inode[i].file_size : ByteAt(i, k - 1)' = ByteAt(i, k - 1)
  PROVE  FileOf(i)' = FileOf(i)
<1>1. Content(i)' = Content(i)
  BY DEF Content
<1> QED BY <1>1 DEF FileOf

LEMMA SameFiles ==
  ASSUME UNCHANGED <<inode, data>>
  PROVE  file' = file
<1>1. ASSUME NEW i \in Inodes PROVE FileOf(i)' = FileOf(i)
  BY SameBytes, SameFile
<1> QED BY <1>1, FileIs

LEMMA FailFile ==
  ASSUME UNCHANGED <<inode, data, file_handle_array>>, out' = <<-1, <<>>>>
  PROVE  F!Next
<1>1. F!Fail
  BY SameFiles DEF F!Fail
<1> QED BY <1>1 DEF F!Next

LEMMA CreateFile ==
  ASSUME NoFile, Invariants, NEW name \in Names, simplefs_create(name)
  PROVE  F!Next
<1>0. TypeOK /\ Disk /\ Consistent
  BY DEF Invariants, Disk
<1>1. CASE Fails
  BY <1>1, FailFile DEF Fails, Returns
<1>2. CASE ~Fails
  <2>1. PICK i \in Inodes :
          /\ i \notin inodes_used
          /\ out' = <<i, <<>>>>
          /\ inode'[i] = [status |-> "used", name |-> name, file_size |-> 0,
                          direct_blocks |-> NoBlocks]
          /\ \A k \in Inodes : k # i => inode'[k] = inode[k]
    BY <1>0, <1>2, CreateIs, Zenon
  <2>2. Found(name) = {} /\ data' = data /\ UNCHANGED file_handle_array
    BY <1>0, <1>2, CreateIs
  <2>3. F!Called(name) = {}
    BY <1>0, <2>2, CalledIs
  <2>4. file[i] = Absent
    <3>1. inode[i].status # "used"
      BY <1>0, <2>1, ConsistentIs DEF Fine
    <3> QED BY <1>0, <3>1, UsedFile
  <2>5. FileOf(i)' = [name |-> name, bytes |-> <<>>]
    <3>1. /\ inode'[i].status = "used" /\ inode'[i].name = name
          /\ inode'[i].file_size = 0
      BY <2>1
    <3>2. Content(i)' = <<>>
      BY <3>1 DEF Content
    <3> QED BY <3>1, <3>2 DEF FileOf
  <2>6. ASSUME NEW k \in Inodes, k # i PROVE FileOf(k)' = FileOf(k)
    <3>1. inode'[k] = inode[k]
      BY <2>1, <2>6
    <3> QED BY <2>2, <3>1, SameBytes, SameFile
  <2>7. file' = [file EXCEPT ![i] = [name |-> name, bytes |-> <<>>]]
    BY <2>5, <2>6, FileIs
  <2>8. F!Create(name, i)
    BY <2>1, <2>2, <2>3, <2>4, <2>7 DEF F!Create
  <2> QED BY <2>8 DEF F!Next
<1> QED BY <1>1, <1>2

LEMMA DeleteFile ==
  ASSUME NoFile, Invariants, NEW name \in Names, simplefs_delete(name)
  PROVE  F!Next
<1>0. TypeOK /\ Disk /\ Named /\ UNCHANGED file_handle_array /\ out' = <<0, <<>>>>
  BY DEF Invariants, Disk, simplefs_delete, Returns
<1>1. CASE Found(name) = {}
  <2>1. file' = file
    BY <1>1, SameFiles DEF simplefs_delete
  <2>2. F!Called(name) = {}
    BY <1>0, <1>1, CalledIs
  <2>3. file = [i \in Inodes |-> file[i]]
    BY FileIs
  <2>4. F!Delete(name)
    BY <1>0, <2>1, <2>2, <2>3 DEF F!Delete
  <2> QED BY <2>4 DEF F!Next
<1>2. CASE Found(name) # {}
  <2>1. PICK i \in Found(name) :
          /\ inode'[i].status = "free"
          /\ \A k \in Inodes : k # i => inode'[k] = inode[k]
    BY <1>0, <1>2, DeleteIs, Zenon
  <2>2. data' = data
    BY <1>0, <1>2, DeleteIs
  <2>3. F!Called(name) = {i}
    <3>1. \A k \in Found(name) : k = i
      BY <1>0 DEF Named, Found
    <3> QED BY <1>0, <3>1, CalledIs
  <2>4. FileOf(i)' = Absent
    BY <2>1 DEF FileOf
  <2>5. ASSUME NEW k \in Inodes, k # i PROVE FileOf(k)' = FileOf(k)
    <3>1. inode'[k] = inode[k]
      BY <2>1, <2>5
    <3> QED BY <2>2, <3>1, SameBytes, SameFile
  <2>6. file' = [k \in Inodes |-> IF k \in F!Called(name) THEN Absent ELSE file[k]]
    BY <2>3, <2>4, <2>5, FileIs
  <2>7. F!Delete(name)
    BY <1>0, <2>6 DEF F!Delete
  <2> QED BY <2>7 DEF F!Next
<1> QED BY <1>1, <1>2

LEMMA OpenFile ==
  ASSUME NoFile, Invariants, NEW name \in Names, simplefs_open(name)
  PROVE  F!Next
<1>0. TypeOK /\ Disk
  BY DEF Invariants, Disk
<1>1. CASE Fails
  BY <1>1, FailFile DEF Fails, Returns
<1>2. CASE ~Fails
  <2>0. Found(name) # {} /\ FreeHandles # {}
    BY <1>2 DEF simplefs_open
  <2>1. PICK h \in FreeHandles : h = Min(FreeHandles)
    <3>1. FreeHandles \in SUBSET Nat
      BY SizesAre DEF FreeHandles, Handles, Sizes
    <3> QED BY <2>0, <3>1, MinIs
  <2>2. PICK i \in Found(name) : i = Min(Found(name))
    <3>1. Found(name) \in SUBSET Nat
      BY SizesAre DEF Found, Inodes, Sizes
    <3> QED BY <2>0, <3>1, MinIs
  <2>3. /\ file_handle_array' =
             [file_handle_array EXCEPT ![h] = [inode_number |-> i, offset |-> 0]]
        /\ out' = <<h, <<>>>>
        /\ UNCHANGED <<inode, data>>
    BY <1>2, <2>1, <2>2 DEF simplefs_open, Returns
  <2>4. h \in Handles /\ F!Open(h) = -1
    BY DEF FreeHandles, F!Open
  <2>5. F!OpenFile(name, h)
    BY <1>0, <2>3, <2>4, CalledIs, SameFiles DEF F!OpenFile
  <2> QED BY <2>4, <2>5 DEF F!Next
<1> QED BY <1>1, <1>2

LEMMA CloseFile ==
  ASSUME NEW h \in Handles, simplefs_close(h)
  PROVE  F!Next
<1>1. F!Close(h)
  BY SameFiles DEF simplefs_close, Returns, F!Close, F!Closed
<1> QED BY <1>1 DEF F!Next

(* What the file h is open on, when it has one.                            *)
LEMMA ValidIs ==
  ASSUME NoFile, Disk, NEW h \in Handles
  PROVE  /\ F!Open(h) = Number(h) /\ F!Offset(h) = Offset(h)
         /\ Number(h) \in Inodes \cup {-1} /\ Offset(h) \in 0..MaxBytes
         /\ -1 \notin Inodes
         /\ F!Valid(h) <=> ~Bad(h)
<1>1. /\ file_handle_array[h].inode_number \in Inodes \cup {-1}
      /\ file_handle_array[h].offset \in 0..MaxBytes
  <2>1. file_handle_array[h] \in [inode_number : Inodes \cup {-1}, offset : 0..MaxBytes]
    BY DEF Disk, TypeOK
  <2> QED BY <2>1
<1>2. F!Open(h) = Number(h) /\ F!Offset(h) = Offset(h)
  BY DEF F!Open, F!Offset, Number, Offset
<1>3. Inodes \in SUBSET Nat /\ -1 \notin Inodes
  BY SizesAre DEF Inodes, Sizes
<1>4. CASE Number(h) \in Inodes
  <2>1. file[Number(h)] # Absent <=> inode[Number(h)].status = "used"
    BY <1>4, UsedFile
  <2>2. inode[Number(h)].status \in {"free", "used"}
    BY <1>4, Nodes DEF Disk
  <2>3. ~(Number(h) < 0)
    <3>1. \A j \in Inodes : ~(j < 0)
      BY <1>3
    <3> QED BY <1>4, <3>1
  <2>4. Bad(h) <=> inode[Number(h)].status = "free"
    BY <2>3 DEF Bad
  <2>5. F!Valid(h) <=> file[Number(h)] # Absent
    BY <1>2, <1>4 DEF F!Valid
  <2> QED BY <1>1, <1>2, <1>3, <1>4, <2>1, <2>2, <2>4, <2>5 DEF Number, Offset
<1>5. CASE Number(h) = -1
  BY <1>1, <1>2, <1>3, <1>5 DEF F!Valid, Bad, Number, Offset
<1> QED BY <1>1, <1>4, <1>5 DEF Number

LEMMA SubSequence ==
  ASSUME NEW size \in Nat, NEW s, s = [k \in 1..size |-> s[k]],
         NEW off \in Nat, NEW n \in Nat, off + n <= size
  PROVE  SubSeq(s, off + 1, off + n) = [k \in 1..n |-> s[off + k]]
<1> DEFINE S == {s[k] : k \in 1..size}
<1>1. s \in [1..size -> S]
  OBVIOUS
<1> HIDE DEF S
<1>2. s \in Seq(S) /\ Len(s) = size
  BY <1>1
<1> QED BY <1>2

LEMMA ReadFile ==
  ASSUME NoFile, Invariants, NEW h \in Handles, NEW n \in Lengths, simplefs_read(h, n)
  PROVE  F!Next
<1>0. Disk /\ n \in Int /\ Sizes
  BY SimpleFSAssumption, SizesAre DEF Invariants, Disk
<1>1. CASE Fails
  BY <1>1, FailFile DEF Fails, Returns
<1>2. CASE ~Fails
  <2>0. /\ n > 0 /\ ~Bad(h) /\ Offset(h) + n <= inode[Number(h)].file_size
        /\ out' = <<0, [k \in 1..n |-> ByteAt(Number(h), Offset(h) + k - 1)]>>
        /\ UNCHANGED <<inode, data, file_handle_array>>
    BY <1>2 DEF simplefs_read, CanRead, InFile
  <2>1. /\ F!Open(h) = Number(h) /\ F!Offset(h) = Offset(h) /\ Offset(h) \in Nat
        /\ Number(h) \in Inodes /\ F!Valid(h) /\ Offset(h) <= MaxBytes
    BY <1>0, <2>0, ValidIs DEF Bad
  <2> DEFINE i == Number(h)
             off == Offset(h)
             s == file[i].bytes
  <2>2. s = Content(i) /\ Len(s) = inode[i].file_size /\ inode[i].file_size \in 0..MaxBytes
    <3>1. file[i] # Absent
      BY <2>1 DEF F!Valid
    <3> QED BY <1>0, <2>1, <3>1, UsedFile, Nodes DEF Disk
  <2>3. n \in -MaxBytes..MaxBytes /\ off + n <= Len(s)
    BY <1>0, <2>0, <2>1, <2>2 DEF Sizes
  <2>4. SubSeq(s, off + 1, off + n) = [k \in 1..n |-> ByteAt(i, off + k - 1)]
    <3>1. PICK m, sz, o : m = s /\ sz = inode[i].file_size /\ o = off
      OBVIOUS
    <3>2. m = [k \in 1..sz |-> ByteAt(i, k - 1)] /\ sz \in Nat /\ o \in Nat /\ o + n <= sz
      BY <2>0, <2>1, <2>2, <3>1 DEF Content
    <3> HIDE DEF s, i, off
    <3>3. n \in Nat
      BY <1>0, <2>0
    <3>4. m = [k \in 1..sz |-> m[k]]
      BY <3>2
    <3>5. SubSeq(m, o + 1, o + n) = [k \in 1..n |-> m[o + k]]
      BY <3>2, <3>3, <3>4, SubSequence
    <3>6. \A k \in 1..n : m[o + k] = ByteAt(i, o + k - 1)
      BY <3>2, <3>3
    <3>7. [k \in 1..n |-> m[o + k]] = [k \in 1..n |-> ByteAt(i, o + k - 1)]
      BY <3>6
    <3> QED BY <3>1, <3>5, <3>7
  <2>5. F!Read(h, n)
    BY <2>0, <2>1, <2>3, <2>4, SameFiles DEF F!Read
  <2> QED BY <2>3, <2>5 DEF F!Next
<1> QED BY <1>1, <1>2

LEMMA SeekFile ==
  ASSUME NoFile, Invariants, NEW h \in Handles, NEW k \in Seeks, simplefs_seek(h, k)
  PROVE  F!Next
<1>0. Disk /\ Consistent /\ TypeOK /\ k \in Int /\ Sizes
  BY SimpleFSAssumption, SizesAre DEF Invariants, Disk
<1>1. CASE Fails
  BY <1>1, FailFile DEF Fails, Returns
<1>2. CASE ~Fails
  <2>0. /\ Number(h) # -1 /\ Offset(h) >= -k
        /\ Offset(h) + k <= inode[Number(h)].file_size
        /\ file_handle_array' = [file_handle_array EXCEPT ![h].offset = @ + k]
        /\ out' = <<0, <<>>>>
        /\ UNCHANGED <<inode, data>>
    BY <1>2 DEF simplefs_seek, CanSeek, Returns
  <2>1. /\ F!Open(h) = Number(h) /\ F!Offset(h) = Offset(h) /\ Offset(h) \in 0..MaxBytes
        /\ Number(h) \in Inodes
        /\ F!Valid(h) <=> ~Bad(h)
    BY <1>0, <2>0, ValidIs
  <2> DEFINE i == Number(h)
  <2>i. i \in Inodes
    BY <2>1
  <2>2. inode[i].file_size \in 0..MaxBytes /\ inode[i].status \in {"free", "used"}
    <3> HIDE DEF i
    <3> QED BY <1>0, <2>i, Nodes
  <2>3. k \in -MaxBytes..MaxBytes /\ Offset(h) + k >= 0
    BY <1>0, <2>0, <2>1, <2>2 DEF Sizes
  <2>4. Offset(h) + k <= IF F!Valid(h) THEN Len(file[i].bytes) ELSE 0
    <3>1. F!Valid(h) => Len(file[i].bytes) = inode[i].file_size
      BY <1>0, <2>1, UsedFile DEF F!Valid
    <3>2. ~F!Valid(h) => inode[i].file_size = 0
      <4>1. ~F!Valid(h) => inode[i].status = "free"
        <5>1. ~(Number(h) < 0)
          <6>1. \A j \in Inodes : ~(j < 0)
            BY SizesAre DEF Inodes, Sizes
          <6> QED BY <2>1, <6>1
        <5>2. Bad(h) <=> inode[i].status = "free"
          BY <5>1 DEF Bad
        <5> QED BY <2>1, <5>2
      <4>2. inode[i].status = "free" => inode[i].file_size <= 0
        <5>1. Fine(i)
          <6> HIDE DEF i
          <6> QED BY <1>0, <2>i, ConsistentIs
        <5>2. Cardinality({}) * BLOCKSIZE = 0
          BY <1>0, FS_EmptySet DEF Sizes
        <5>3. inode[i].status = "free" => BlocksOf(i) = {}
          BY <5>1 DEF Fine
        <5>4. inode[i].file_size <= Cardinality(BlocksOf(i)) * BLOCKSIZE
          BY <5>1 DEF Fine
        <5> QED BY <5>2, <5>3, <5>4
      <4> QED BY <2>2, <4>1, <4>2
    <3> QED BY <2>0, <3>1, <3>2
  <2> HIDE DEF i
  <2>5. F!Seek(h, k)
    BY <2>0, <2>1, <2>3, <2>4, SameFiles DEF F!Seek, i
  <2> QED BY <2>3, <2>5 DEF F!Next
<1> QED BY <1>1, <1>2

(* A write that succeeds overwrites bytes of the file, and only of it.     *)
LEMMA Overwrites ==
  ASSUME NoFile, Invariants, NEW h, NEW n \in Int, NEW v, NEW i \in Inodes,
         NEW got \in SUBSET (Blocks \ blocks_used),
         NEW new \in [Direct -> Blocks \cup {-1}], NEW size \in 0..MaxBytes,
         Grown(h, n, v, i, got, new, size)
  PROVE  /\ file' = [file EXCEPT ![i].bytes = F!Overwritten(@, Offset(h), n, v)]
         /\ Offset(h) + n <= 0 => file' = file
<1>0. Disk /\ BlankFrom(i)
  BY BlankIs DEF Invariants, Disk
<1>1. /\ inode'[i].status = "used" /\ inode'[i].name = inode[i].name
      /\ inode'[i].file_size = size
      /\ \A k \in Inodes \ {i} : inode'[k] = inode[k]
  <2>1. /\ inode'[i].status = "used" /\ inode'[i].name = inode[i].name
        /\ inode'[i].file_size = size /\ inode'[i].direct_blocks = new
        /\ BlocksOf(i)' = Members(new)
        /\ \A k \in Inodes \ {i} : inode'[k] = inode[k] /\ BlocksOf(k)' = BlocksOf(k)
    BY <1>0, GrownNodes, Zenon
  <2> QED BY <2>1
<1>g. /\ inode[i].status = "used" /\ Offset(h) \in 0..MaxBytes
      /\ size = IF Offset(h) + n > inode[i].file_size THEN Offset(h) + n
                                                     ELSE inode[i].file_size
      /\ size <= Cardinality(Members(new)) * BLOCKSIZE
  BY Zenon DEF Grown
<1>2. PICK off, old, len : off = Offset(h) /\ old = Content(i) /\ len = inode[i].file_size
  OBVIOUS
<1>3. /\ off \in Nat /\ len \in Nat /\ size \in Nat
      /\ size = IF off + n > len THEN off + n ELSE len
  <2>1. Offset(h) \in Nat /\ size \in Nat
    BY <1>g, SizesAre DEF Sizes
  <2> QED BY <1>0, <1>g, <1>2, <2>1, Held
<1>4. PICK bytes : bytes = F!Overwritten(old, off, n, v)
  OBVIOUS
<1>5. Len(old) = len /\ \A p \in 1..len : old[p] = ByteAt(i, p - 1)
  <2>1. old = [k \in 1..len |-> ByteAt(i, k - 1)]
    BY <1>2 DEF Content
  <2>2. old = [k \in 1..len |-> old[k]]
    BY <2>1
  <2> QED BY <1>3, <2>1, <2>2, SequenceOf
<1>6. bytes = [p \in 1..size |-> IF off < p /\ p <= off + n THEN v
                                ELSE IF p <= len THEN old[p] ELSE 0]
  BY <1>3, <1>4, <1>5 DEF F!Overwritten
<1>7. ASSUME NEW p \in 1..size
      PROVE  ByteAt(i, p - 1)' = IF off < p /\ p <= off + n THEN v
                                 ELSE IF p <= len THEN old[p] ELSE 0
  <2>1. Cardinality(Members(new)) \in Nat
    <3>1. IsList(new)
      BY Zenon DEF Grown
    <3> QED BY <3>1, SizesAre, ListIs DEF Sizes
  <2>2. Cardinality(Members(new)) * BLOCKSIZE \in Int
    BY <2>1, SizesAre, Product DEF Sizes
  <2>3. p - 1 \in 0 .. Cardinality(Members(new)) * BLOCKSIZE - 1
    BY <1>g, <1>3, <2>2
  <2>4. ByteAt(i, p - 1)' = IF Offset(h) <= p - 1 /\ p - 1 < Offset(h) + n THEN v
                            ELSE IF p - 1 < inode[i].file_size THEN ByteAt(i, p - 1) ELSE 0
    BY <1>0, <2>3, WrittenBytes, Zenon
  <2>5. /\ off <= p - 1 /\ p - 1 < off + n <=> off < p /\ p <= off + n
    BY <1>3
  <2>6. p - 1 < len <=> p <= len
    BY <1>3
  <2>7. p <= len => old[p] = ByteAt(i, p - 1)
    BY <1>3, <1>5
  <2> QED BY <1>2, <2>4, <2>5, <2>6, <2>7, Zenon
<1>8. Content(i)' = bytes
  <2>1. Content(i)' = [k \in 1..size |-> ByteAt(i, k - 1)']
    BY <1>1 DEF Content
  <2> QED BY <1>6, <1>7, <2>1
<1>9. /\ FileOf(i) = [name |-> inode[i].name, bytes |-> old]
      /\ FileOf(i)' = [name |-> inode[i].name, bytes |-> bytes]
  BY <1>1, <1>g, <1>2, <1>8 DEF FileOf
<1>10. ASSUME NEW k \in Inodes, k # i PROVE FileOf(k)' = FileOf(k)
  <2>1. inode'[k] = inode[k]
    BY <1>1, <1>10
  <2>2. inode[k].file_size \in Nat /\ Length(k) \in Nat /\ inode[k].file_size <= Length(k)
    BY <1>0, Held
  <2>3. \A p \in 0 .. Length(k) - 1 : ByteAt(k, p)' = ByteAt(k, p)
    BY <1>0, <1>10, OtherBytes
  <2>4. \A p \in 1..inode[k].file_size : ByteAt(k, p - 1)' = ByteAt(k, p - 1)
    <3> SUFFICES ASSUME NEW p \in 1..inode[k].file_size
                 PROVE  ByteAt(k, p - 1)' = ByteAt(k, p - 1)
      OBVIOUS
    <3>1. p - 1 \in 0 .. Length(k) - 1
      BY <2>2
    <3> QED BY <2>3, <3>1
  <2> QED BY <2>1, <2>4, SameFile
<1>11. file' = [file EXCEPT ![i].bytes = F!Overwritten(@, Offset(h), n, v)]
  <2>1. file[i] = [name |-> inode[i].name, bytes |-> old]
    BY <1>9, FileIs
  <2>2. [file[i] EXCEPT !.bytes = F!Overwritten(@, Offset(h), n, v)]
          = [name |-> inode[i].name, bytes |-> bytes]
    <3>1. file[i].bytes = old
      BY <2>1
    <3> QED BY <1>2, <1>4, <2>1, <3>1
  <2> QED BY <1>9, <1>10, <2>2, FileIs
<1>12. ASSUME Offset(h) + n <= 0 PROVE file' = file
  <2>1. off + n <= 0 /\ size = len
    BY <1>2, <1>3, <1>12
  <2>2. \A p \in 1..len : ~(off < p /\ p <= off + n) /\ p <= len
    BY <1>3, <2>1
  <2>3. bytes = [p \in 1..len |-> old[p]]
    BY <1>6, <2>1, <2>2
  <2>4. old = [p \in 1..len |-> old[p]]
    BY <1>2 DEF Content
  <2>5. FileOf(i)' = FileOf(i)
    BY <1>9, <2>3, <2>4
  <2> QED BY <1>10, <2>5, FileIs
<1> QED BY <1>11, <1>12

LEMMA WriteFile ==
  ASSUME NoFile, Invariants, NEW h \in Handles, NEW n \in Lengths, NEW v \in Bytes,
         simplefs_write(h, n, v)
  PROVE  F!Next
<1>0. Disk /\ n \in Int /\ Sizes
  BY SimpleFSAssumption, SizesAre DEF Invariants, Disk
<1>1. ASSUME file' = file, out' = <<0, <<>>>>, UNCHANGED file_handle_array
      PROVE  F!Next
  <2>1. 0 \in -MaxBytes..MaxBytes
    BY <1>0 DEF Sizes
  <2>2. F!Write(h, 0, v)
    BY <1>1 DEF F!Write
  <2> QED BY <2>1, <2>2 DEF F!Next
<1>2. CASE n = 0 /\ UNCHANGED <<inode, data, file_handle_array>> /\ out' = <<0, <<>>>>
  BY <1>1, <1>2, SameFiles
<1>3. CASE Fails
  BY <1>3, FailFile DEF Fails, Returns
<1>4. CASE /\ n # 0 /\ CanWrite(h, n) /\ WriteBytes(h, n, v)
           /\ UNCHANGED <<inodes_used, file_handle_array>>
  <2>1. ASSUME NEW edge \in SUBSET (Blocks \ blocks_used), out' = <<-1, <<>>>>,
               data' = Filled(edge), UNCHANGED inode
        PROVE  F!Next
    <3>1. \A b \in blocks_used : data'[b] = data[b]
      BY <1>0, <2>1, FilledIs DEF Disk
    <3>2. ASSUME NEW i \in Inodes PROVE FileOf(i)' = FileOf(i)
      <4>1. 0 .. inode[i].file_size - 1 \subseteq 0 .. Length(i) - 1
        BY <1>0, Held
      <4>2. \A k \in 1..inode[i].file_size : ByteAt(i, k - 1)' = ByteAt(i, k - 1)
        BY <1>0, <2>1, <3>1, <4>1, KeptBytes, Held
      <4> QED BY <2>1, <4>2, SameFile
    <3>3. file' = file
      BY <3>2, FileIs
    <3>4. F!Fail
      BY <1>4, <2>1, <3>3 DEF F!Fail
    <3> QED BY <3>4 DEF F!Next
  <2>2. ASSUME NEW i \in Inodes, NEW got \in SUBSET (Blocks \ blocks_used),
               NEW new \in [Direct -> Blocks \cup {-1}], NEW size \in 0..MaxBytes,
               Grown(h, n, v, i, got, new, size)
        PROVE  F!Next
    <3>1. /\ i = Number(h) /\ inode[i].status = "used" /\ Offset(h) \in 0..MaxBytes
          /\ Offset(h) + n <= MaxBytes /\ out' = <<0, <<>>>>
          /\ UNCHANGED file_handle_array
      BY <2>2, Zenon DEF Grown
    <3>2. /\ file' = [file EXCEPT ![i].bytes = F!Overwritten(@, Offset(h), n, v)]
          /\ Offset(h) + n <= 0 => file' = file
      BY <1>0, <2>2, Overwrites, Zenon
    <3>3. CASE n < -MaxBytes
      <4>1. Offset(h) + n <= 0
        BY <1>0, <3>1, <3>3 DEF Sizes
      <4> QED BY <1>1, <3>1, <3>2, <4>1
    <3>4. CASE ~(n < -MaxBytes)
      <4>1. n \in -MaxBytes..MaxBytes
        BY <1>0, <3>1, <3>4 DEF Sizes
      <4>2. F!Open(h) = i /\ F!Offset(h) = Offset(h) /\ F!Valid(h)
        <5>1. file[i] # Absent
          BY <1>0, <3>1, UsedFile
        <5>2. F!Open(h) = Number(h) /\ F!Offset(h) = Offset(h)
          BY DEF F!Open, F!Offset, Number, Offset
        <5> QED BY <3>1, <5>1, <5>2 DEF F!Valid
      <4>3. F!Write(h, n, v)
        BY <1>4, <3>1, <3>2, <4>2 DEF F!Write
      <4> QED BY <4>1, <4>3 DEF F!Next
    <3> QED BY <3>3, <3>4
  <2> QED BY <1>0, <1>4, <2>1, <2>2, WriteIs
<1> QED BY <1>2, <1>3, <1>4 DEF simplefs_write, Returns

LEMMA EmptyDisk == Init => F!Init
<1> SUFFICES ASSUME Init PROVE F!Init
  OBVIOUS
<1>1. \A i \in Inodes : FileOf(i) = Absent
  BY DEF Init, FileOf
<1>2. file = [i \in Inodes |-> Absent]
  BY <1>1, FileIs
<1> QED BY <1>2 DEF Init, F!Init, F!Closed

LEMMA Maps ==
  ASSUME NoFile, Invariants, [Next]_vars
  PROVE  [F!Next]_<<file, file_handle_array, out>>
<1>1. ASSUME NEW name \in Names, simplefs_create(name) PROVE F!Next
  BY <1>1, CreateFile
<1>2. ASSUME NEW name \in Names, simplefs_delete(name) PROVE F!Next
  BY <1>2, DeleteFile
<1>3. ASSUME NEW name \in Names, simplefs_open(name) PROVE F!Next
  BY <1>3, OpenFile
<1>4. ASSUME NEW h \in Handles, simplefs_close(h) PROVE F!Next
  BY <1>4, CloseFile
<1>5. ASSUME NEW h \in Handles, NEW n \in Lengths, simplefs_read(h, n) PROVE F!Next
  BY <1>5, ReadFile
<1>6. ASSUME NEW h \in Handles, NEW n \in Lengths, NEW v \in Bytes,
             simplefs_write(h, n, v)
      PROVE  F!Next
  BY <1>6, WriteFile
<1>7. ASSUME NEW h \in Handles, NEW k \in Seeks, simplefs_seek(h, k) PROVE F!Next
  BY <1>7, SeekFile
<1>8. CASE UNCHANGED vars
  BY <1>8, SameFiles DEF vars
<1> QED BY <1>1, <1>2, <1>3, <1>4, <1>5, <1>6, <1>7, <1>8 DEF Next

(* What simplefs_* do on superblock, blocks and inodes is what a file      *)
(* system does on files: every call maps to one operation of FileSystem    *)
(* that returns the same and reads the same bytes, when no file is the     *)
(* value that stands for the absence of one.                               *)
THEOREM Implements ==
  ASSUME \A x, y : [name |-> x, bytes |-> y] # Absent
  PROVE  Spec => Abstract
<1>0. NoFile
  BY DEF NoFile
<1>1. Init => F!Init
  BY EmptyDisk
<1>2. Invariants /\ [Next]_vars => [F!Next]_<<file, file_handle_array, out>>
  BY <1>0, Maps
<1> QED BY <1>1, <1>2, DiskKept, PTL DEF Spec, Abstract, F!Spec
=============================================================================
