---------------------------- MODULE ShellProofs -----------------------------
(* What TLAPS proves of Shell, for any lines and any number of them.       *)
EXTENDS Shell, FiniteSetTheorems, SequenceTheorems, TLAPS

(* The commands of a line that its leader has still to wait for. *)
Unreaped(l) == {k \in 1..Last(l) : cmds[l][k] \in {"runs", "zombie"}}

Leaders == {"forked", "launch", "wait", "zombie", "reaped"}
Commands == {"none", "runs", "zombie", "reaped"}

(* The types, in the form the provers use. *)
Types ==
  /\ pc \in {"prompt", "forked", "wait", "exit", "gone"}
  /\ fore_pgid \in Numbers \cup {-1}
  /\ back_num \in Int
  /\ back_pgid \in Numbers \cup {-1}
  /\ lines \in Seq(Lines) /\ Len(lines) <= MaxLines
  /\ leader \in [Entered -> Leaders]
  /\ at \in [Entered -> Nat] /\ waits \in [Entered -> Nat]
  /\ joins \in [Entered -> Numbers \cup {-1}]
  /\ group \in [Entered -> Numbers \cup {Main}]
  /\ cmds = [l \in Entered |-> cmds[l]]
  /\ stray \in BOOLEAN /\ hurried \in BOOLEAN
  /\ late \subseteq Entered

(* The commands of a line that are not waited for are at most those that   *)
(* were started with &&&, and the one the leader waits for; at the end of  *)
(* the line it waits as often as there are commands left.                  *)
Waiting(l) ==
  /\ waits[l] >= 1 /\ at[l] > 1
  /\ IF at[l] <= Last(l)
     THEN /\ waits[l] = 1 /\ Beside(l, at[l]) = Beside(l, at[l] - 1)
          /\ Cardinality(Unreaped(l)) <= 1 + Beside(l, at[l] - 1)
     ELSE /\ waits[l] <= 1 + Beside(l, at[l] - 1)
          /\ Cardinality(Unreaped(l)) <= waits[l]

Line(l) ==
  /\ at[l] \in 1..Last(l) + 1 /\ waits[l] \in 0..Last(l)
  /\ cmds[l] \in [1..Last(l) -> Commands]
  /\ \A k \in at[l]..Last(l) : cmds[l][k] = "none"
  /\ leader[l] = "forked" => at[l] = 1
  /\ leader[l] = "launch" => /\ at[l] <= Last(l)
                             /\ Cardinality(Unreaped(l)) <= Beside(l, at[l])
  /\ leader[l] = "wait" => Waiting(l)
  /\ leader[l] \in {"zombie", "reaped"} => Unreaped(l) = {}

(* A command that && follows was waited for before the one after the next  *)
(* command was launched, where no &&& stands before it.                    *)
Order(l) == \A k \in 1..at[l] - 2 : Sequential(l, k) => k \notin Unreaped(l)

(* The shell has reaped the leaders of the foreground lines, except the    *)
(* one it has just forked or waits for, which only it can reap.            *)
ForeReaped ==
  /\ pc \in {"forked", "wait"} => Len(lines) \in Entered /\ leader[Len(lines)] # "reaped"
  /\ IF pc = "wait" THEN fore_pgid = Len(lines) /\ lines[fore_pgid].kind = "fg"
                    ELSE fore_pgid = -1
  /\ \A l \in Entered : lines[l].kind = "fg" /\ leader[l] # "reaped" =>
                          l = Len(lines) /\ pc \in {"forked", "wait"}

InBackground == {l \in Entered : lines[l].kind = "bg" /\ leader[l] # "reaped"}

(* back_num counts the background lines that were not reaped, and all of   *)
(* them ask for the group back_pgid, or will when the shell has stored it. *)
Counted ==
  /\ \A l \in Entered : lines[l].kind # "amp"
  /\ back_num = Cardinality(InBackground)
  /\ \A l \in Entered : group[l] \in {Main, joins[l]}
  /\ \A l \in Entered : lines[l].kind = "bg" =>
                          joins[l] \in Entered /\ lines[joins[l]].kind = "bg"
  /\ \A l \in InBackground :
       joins[l] = IF pc = "forked" /\ l = Len(lines) /\ back_num = 1
                  THEN l ELSE back_pgid

(* The leader of a background line gets into the group it asks for: it is  *)
(* there, as long as nobody has hurried.                                   *)
Grouped ==
  /\ \A l \in Entered : leader[l] = "forked" => group[l] = Main
  /\ \A l \in Entered : lines[l].kind = "bg" =>
       /\ leader[l] \in {"launch", "wait"} => group[l] = joins[l]
       /\ leader[l] = "forked" /\ joins[l] # l =>
            \E m \in InBackground : group[m] = joins[l]

(* What the kills of exit have left, or have still to find. *)
Leaving ==
  pc \in {"exit", "gone"} =>
    \A l \in Entered : LeaderLives(l) => \/ l \in late
                                         \/ pc = "exit" /\ group[l] = Main

Inv ==
  /\ Types
  /\ \A l \in Entered : Line(l) /\ Order(l)
  /\ ForeReaped
  /\ ~stray => Counted /\ Leaving
  /\ ~stray /\ ~hurried => Grouped

-----------------------------------------------------------------------------
(* Lines and the operators on them. *)

LEMMA LineIs ==
  ASSUME Types, NEW l \in Entered
  PROVE  /\ lines[l] \in Lines /\ lines[l].kind \in {"fg", "bg", "amp"}
         /\ lines[l].ops \in Seq({"&&", "&&&"})
         /\ Len(lines[l].ops) \in Nat /\ Last(l) = Len(lines[l].ops) + 1
         /\ Last(l) \in Nat /\ l \in Nat /\ l >= 1 /\ l \in Numbers
<1>1. lines[l] \in Lines /\ MaxLines \in Nat
  BY LinesAssumption DEF Types, Entered, LinesAssumption
<1>2. lines[l] \in [kind : {"fg", "bg", "amp"}, ops : Seq({"&&", "&&&"})]
  BY <1>1, LinesAssumption DEF LinesAssumption
<1> QED
  BY <1>1, <1>2 DEF Last, Entered, Types, Numbers

LEMMA BesideIs ==
  ASSUME Types, NEW l \in Entered, NEW k \in Nat
  PROVE  /\ Beside(l, k) \in Nat
         /\ k <= 1 => Beside(l, k) = 0
         /\ k > 0 => Beside(l, k + 1) =
              Beside(l, k) + (IF lines[l].ops[k] = "&&&" THEN 1 ELSE 0)
<1> DEFINE S(n) == {j \in 1..n - 1 : lines[l].ops[j] = "&&&"}
<1>1. \A n \in Nat : IsFiniteSet(S(n)) /\ Cardinality(S(n)) \in Nat
  <2> TAKE n \in Nat
  <2>1. S(n) \subseteq 1..n - 1 /\ IsFiniteSet(1..n - 1)
    BY FS_Interval
  <2> QED
    BY <2>1, FS_Subset, FS_CardinalityType
<1>2. k <= 1 => S(k) = {}
  OBVIOUS
<1>3. k > 0 => /\ k \notin S(k)
               /\ S(k + 1) = IF lines[l].ops[k] = "&&&" THEN S(k) \cup {k} ELSE S(k)
  OBVIOUS
<1>4. \A n \in Nat : Beside(l, n) = Cardinality(S(n))
  BY DEF Beside
<1> HIDE DEF S
<1>5. k > 0 => Cardinality(S(k + 1)) =
                 Cardinality(S(k)) + (IF lines[l].ops[k] = "&&&" THEN 1 ELSE 0)
  BY <1>1, <1>3, FS_AddElement
<1> QED
  BY <1>1, <1>2, <1>4, <1>5, FS_EmptySet

(* After the last command the leader calls wait as often as it must. *)
LEMMA NumSubprocIs ==
  ASSUME Types, NEW l \in Entered
  PROVE  NumSubproc(l) = 1 + Beside(l, Last(l))
<1>1. Last(l) - 1 = Len(lines[l].ops)
  BY LineIs
<1> QED
  BY <1>1 DEF NumSubproc, Beside

LEMMA BesideBound ==
  ASSUME Types, NEW l \in Entered
  PROVE  Beside(l, Last(l)) <= Last(l) - 1
<1>1. Last(l) - 1 \in Nat /\ 1 \in Int
  BY LineIs
<1>2. /\ IsFiniteSet(1..Last(l) - 1) /\ Cardinality(1..Last(l) - 1) = Last(l) - 1
  BY <1>1, FS_Interval
<1>3. PICK S : S = {j \in 1..Last(l) - 1 : lines[l].ops[j] = "&&&"}
  OBVIOUS
<1>4. S \subseteq 1..Last(l) - 1 /\ Beside(l, Last(l)) = Cardinality(S)
  BY <1>3 DEF Beside
<1> QED
  BY <1>2, <1>4, FS_Subset

LEMMA UnreapedFinite ==
  ASSUME Types, NEW l \in Entered
  PROVE  IsFiniteSet(Unreaped(l)) /\ Cardinality(Unreaped(l)) \in Nat
<1>1. Unreaped(l) \subseteq 1..Last(l) /\ IsFiniteSet(1..Last(l))
  BY LineIs, FS_Interval DEF Unreaped
<1> QED
  BY <1>1, FS_Subset, FS_CardinalityType

(* What the background and the prompt count. *)
LEMMA CountsFinite ==
  ASSUME Types
  PROVE  /\ IsFiniteSet(InBackground) /\ Cardinality(InBackground) \in Nat
         /\ IsFiniteSet(Zombies) /\ Cardinality(Zombies) \in Nat
<1>0. Len(lines) \in Nat /\ 1 \in Int
  BY DEF Types
<1>1. IsFiniteSet(Entered)
  BY <1>0, FS_Interval DEF Entered
<1>2. InBackground \subseteq Entered /\ Zombies \subseteq Entered
  BY DEF InBackground, Zombies
<1> QED
  BY <1>1, <1>2, FS_Subset, FS_CardinalityType

-----------------------------------------------------------------------------
(* The types. *)

LEMMA EnterIs ==
  ASSUME Types, NEW line \in Lines, Enter(line)
  PROVE  LET n == Len(lines) + 1 IN
         /\ n \in Numbers /\ n \notin Entered
         /\ Len(lines') = n /\ Entered' = Entered \cup {n}
         /\ lines' \in Seq(Lines)
         /\ lines'[n] = line /\ \A l \in Entered : lines'[l] = lines[l]
<1>1. /\ Len(lines) \in Nat /\ MaxLines \in Nat /\ Len(lines) < MaxLines
      /\ lines' = Append(lines, line) /\ lines \in Seq(Lines)
  BY LinesAssumption DEF Types, Enter, LinesAssumption
<1>2. /\ lines' \in Seq(Lines) /\ Len(lines') = Len(lines) + 1
      /\ lines'[Len(lines) + 1] = line
      /\ \A l \in 1..Len(lines) : lines'[l] = lines[l]
  BY <1>1, AppendProperties
<1> QED
  BY <1>1, <1>2 DEF Numbers, Entered

LEMMA AppendLast ==
  ASSUME NEW m \in Nat, NEW S, NEW s \in [1..m -> S], NEW x \in S
  PROVE  Append(s, x)[m + 1] = x
<1>1. s \in Seq(S) /\ Len(s) = m
  OBVIOUS
<1> QED
  BY <1>1, AppendProperties

(* A line that is entered adds an element to a function on the lines.      *)
LEMMA EnterAppends ==
  ASSUME Types, NEW line \in Lines, Enter(line), NEW S, NEW s \in [Entered -> S],
         NEW x \in S
  PROVE  /\ Append(s, x) \in [Entered' -> S]
         /\ Append(s, x)[Len(lines) + 1] = x
         /\ \A l \in Entered : Append(s, x)[l] = s[l]
<1>0. Len(lines) \in Nat /\ s \in [1..Len(lines) -> S]
  BY DEF Types, Entered
<1>1. s \in Seq(S) /\ Len(s) = Len(lines) /\ Len(lines) \in Nat
  BY <1>0
<1>2. /\ Append(s, x) \in Seq(S) /\ Len(Append(s, x)) = Len(lines) + 1
      /\ \A i \in 1..Len(lines) : Append(s, x)[i] = s[i]
      /\ Append(s, x)[Len(lines) + 1] = x
  BY <1>1, AppendProperties
<1>3. Append(s, x) \in [1..Len(lines) + 1 -> S]
  BY <1>2, LenProperties
<1>4. Entered' = 1..Len(lines) + 1 /\ Entered = 1..Len(lines)
  BY EnterIs DEF Entered
<1> QED
  BY <1>2, <1>3, <1>4

LEMMA CollectedIs ==
  ASSUME Types
  PROVE  /\ Collected \in [Entered -> Leaders]
         /\ \A l \in Entered : Collected[l] = IF leader[l] = "zombie" THEN "reaped"
                                              ELSE leader[l]
  BY DEF Types, Collected, Zombies, Leaders

LEMMA BackIs ==
  ASSUME Types
  PROVE  BackNum \in Int /\ BackPgid \in Numbers \cup {-1}
  BY CountsFinite DEF Types, BackNum, BackPgid

LEMMA EnterTypes ==
  ASSUME Types, NEW line \in Lines, Enter(line)
  PROVE  Types'
<1> DEFINE n == Len(lines) + 1
<1>1. /\ n \in Numbers /\ Len(lines') = n /\ Len(lines') <= MaxLines
      /\ lines' \in Seq(Lines) /\ Entered \subseteq Entered'
  BY EnterIs, LinesAssumption DEF Numbers, LinesAssumption
<1>2. PICK g \in Numbers \cup {-1} : joins' = Append(joins, g)
  BY <1>1, BackIs DEF Enter
<1>3. /\ joins' \in [Entered' -> Numbers \cup {-1}]
      /\ group' \in [Entered' -> Numbers \cup {Main}]
  <2>1. joins \in [Entered -> Numbers \cup {-1}] /\ group \in [Entered -> Numbers \cup {Main}]
    BY DEF Types
  <2>2. group' = Append(group, Main) /\ Main \in Numbers \cup {Main}
    BY DEF Enter
  <2> QED
    BY <1>2, <2>1, <2>2, EnterAppends
<1>4. leader' \in [Entered' -> Leaders]
  BY CollectedIs, EnterAppends DEF Enter, Leaders
<1>5. at' \in [Entered' -> Nat] /\ waits' \in [Entered' -> Nat]
  BY EnterAppends DEF Enter, Types
<1>6. cmds' = [l \in Entered' |-> cmds'[l]]
  <2> DEFINE c == [k \in 1..Len(line.ops) + 1 |-> "none"]
             S == {cmds[l] : l \in Entered} \cup {c}
  <2>1. cmds \in [Entered -> S] /\ c \in S
    BY DEF Types
  <2>2. cmds' = Append(cmds, c)
    BY DEF Enter
  <2> HIDE DEF c, S
  <2>3. cmds' \in [Entered' -> S]
    BY <2>1, <2>2, EnterAppends
  <2> QED
    BY <2>3
<1>7. /\ pc' = "forked" /\ UNCHANGED <<fore_pgid, late>>
      /\ back_num' \in Int /\ back_pgid' \in Numbers \cup {-1}
      /\ stray' \in BOOLEAN /\ hurried' \in BOOLEAN
  <2>1. back_num' \in {BackNum, BackNum + 1} /\ back_pgid' = BackPgid
    BY DEF Enter
  <2>2. BackNum + 1 \in Int
    BY BackIs
  <2>3. stray' \in BOOLEAN /\ hurried' \in BOOLEAN
    BY DEF Enter
  <2> QED
    BY <2>1, <2>2, <2>3, BackIs DEF Enter
<1> QED
  BY <1>1, <1>3, <1>4, <1>5, <1>6, <1>7 DEF Types

LEMMA KilledIs ==
  ASSUME Types, NEW g
  PROVE  /\ KilledLeaders(g) \in [Entered -> Leaders]
         /\ KilledCmds(g) = [l \in Entered |-> KilledCmds(g)[l]]
         /\ \A l \in Entered :
              /\ KilledLeaders(g)[l] = IF group[l] = g /\ LeaderLives(l) THEN "zombie"
                                       ELSE leader[l]
              /\ KilledCmds(g)[l] =
                   IF group[l] # g THEN cmds[l]
                   ELSE [k \in 1..Last(l) |-> IF cmds[l][k] = "none" THEN "none"
                                              ELSE "reaped"]
  BY DEF Types, KilledLeaders, KilledCmds, Leaders

LEMMA KilledTypes ==
  ASSUME Types, NEW g, Killed(g)
  PROVE  /\ leader' \in [Entered -> Leaders]
         /\ cmds' = [l \in Entered |-> cmds'[l]]
         /\ \A l \in Entered :
              /\ leader'[l] = IF group[l] = g /\ LeaderLives(l) THEN "zombie" ELSE leader[l]
              /\ cmds'[l] = IF group[l] # g THEN cmds[l]
                            ELSE [k \in 1..Last(l) |-> IF cmds[l][k] = "none"
                                                       THEN "none" ELSE "reaped"]
  BY KilledIs DEF Killed

(* What ^C does to a line of the foreground group, of the group of the     *)
(* shell, and of any other group.                                          *)
LEMMA InterruptIs ==
  ASSUME Types, Interrupt, NEW l \in Entered, cmds[l] \in [1..Last(l) -> Commands]
  PROVE  /\ leader'[l] = IF group[l] = fore_pgid /\ LeaderLives(l) THEN "zombie"
                         ELSE leader[l]
         /\ group[l] = fore_pgid =>
              cmds'[l] = [k \in 1..Last(l) |-> IF cmds[l][k] = "none" THEN "none"
                                               ELSE "reaped"]
         /\ group[l] # fore_pgid =>
              /\ cmds'[l] \in [1..Last(l) -> Commands]
              /\ \A k \in 1..Last(l) :
                   \/ cmds'[l][k] = cmds[l][k]
                   \/ /\ group[l] = Main /\ cmds[l][k] = "runs"
                      /\ cmds'[l][k] \in {"zombie", "reaped"}
<1>1. leader'[l] = IF group[l] = fore_pgid /\ LeaderLives(l) THEN "zombie" ELSE leader[l]
  BY KilledIs DEF Interrupt
<1>2. PICK S \in SUBSET UNION {{m} \X Running(m) : m \in {i \in Entered : group[i] = Main}} :
        cmds'[l] = [k \in 1..Last(l) |-> IF <<l, k>> \in S THEN Ended(l)
                                         ELSE KilledCmds(fore_pgid)[l][k]]
  BY DEF Interrupt
<1>3. \A k \in 1..Last(l) : <<l, k>> \in S => group[l] = Main /\ cmds[l][k] = "runs"
  BY <1>2 DEF Running
<1>4. Ended(l) \in {"zombie", "reaped"}
  BY DEF Ended
<1>5. CASE group[l] = fore_pgid
  <2>1. \A k \in 1..Last(l) : <<l, k>> \notin S
    BY <1>3, <1>5 DEF Types, Numbers, Main
  <2>2. KilledCmds(fore_pgid)[l] =
          [k \in 1..Last(l) |-> IF cmds[l][k] = "none" THEN "none" ELSE "reaped"]
    BY <1>5, KilledIs
  <2> QED
    BY <1>1, <1>2, <1>5, <2>1, <2>2
<1>6. CASE group[l] # fore_pgid
  <2>1. KilledCmds(fore_pgid)[l] = cmds[l]
    BY <1>6, KilledIs
  <2>2. ASSUME NEW k \in 1..Last(l)
        PROVE  \/ cmds'[l][k] = cmds[l][k]
               \/ /\ group[l] = Main /\ cmds[l][k] = "runs"
                  /\ cmds'[l][k] \in {"zombie", "reaped"}
    BY <1>2, <1>3, <1>4, <2>1
  <2>3. \A k \in 1..Last(l) : cmds'[l][k] \in Commands
    BY <2>2 DEF Commands
  <2>4. cmds'[l] \in [1..Last(l) -> Commands]
    BY <1>2, <2>3
  <2> QED
    BY <1>1, <1>6, <2>2, <2>4
<1> QED
  BY <1>5, <1>6

(* What the leaders and their commands do, and the shell beside them, for  *)
(* any step but that of a new line.                                        *)
LEMMA OtherTypes ==
  ASSUME Inv, [Next]_vars, \A line \in Lines : ~Enter(line)
  PROVE  Types' /\ UNCHANGED lines
<1>0. /\ Types /\ Len(lines) \in Nat /\ MaxLines \in Nat
      /\ \A l \in Entered : l \in Numbers /\ Last(l) \in Nat
  BY LineIs, LinesAssumption DEF Inv, Types, LinesAssumption
<1>1. CASE EnterNothing
  <2>1. /\ leader' \in [Entered -> Leaders] /\ back_num' \in Int
        /\ back_pgid' \in Numbers \cup {-1} /\ hurried' \in BOOLEAN
    BY <1>0, <1>1, CollectedIs, BackIs DEF EnterNothing
  <2> QED
    BY <1>0, <1>1, <2>1 DEF EnterNothing, Types, Entered
<1>2. CASE Forked
  <2>1. /\ pc' \in {"prompt", "wait"}
        /\ fore_pgid' \in {fore_pgid, Len(lines)} /\ back_pgid' \in {back_pgid, Len(lines)}
        /\ UNCHANGED <<back_num, lines, children, history>>
    BY <1>2 DEF Forked
  <2>2. Len(lines) \in Numbers
    BY <1>0, <1>2 DEF Types, Numbers, Forked, Inv, ForeReaped
  <2> QED
    BY <1>0, <2>1, <2>2 DEF Types, children, history, Entered
<1>3. CASE Waited
  <2>1. leader' \in [Entered -> Leaders]
    BY <1>0, <1>3 DEF Types, Waited, Leaders
  <2> QED
    BY <1>0, <1>3, <2>1 DEF Types, Waited, history, Entered
<1>4. CASE Exit \/ Exited
  <2>1. /\ leader' \in [Entered -> Leaders] /\ cmds' = [l \in Entered |-> cmds'[l]]
    BY <1>0, <1>4, KilledTypes DEF Exit, Exited, Types
  <2>2. pc' \in {"exit", "gone"}
        /\ UNCHANGED <<fore_pgid, back_num, back_pgid, lines, at, waits, joins, group, history>>
    BY <1>4 DEF Exit, Exited
  <2> QED
    BY <1>0, <2>1, <2>2 DEF Types, history, Entered
<1>5. CASE Interrupt
  <2>1. leader' \in [Entered -> Leaders]
    BY <1>0, <1>5, KilledIs DEF Interrupt
  <2>2. cmds' = [l \in Entered |-> cmds'[l]]
    BY <1>5 DEF Interrupt
  <2> QED
    BY <1>0, <1>5, <2>1, <2>2 DEF Interrupt, Types, shell, history, Entered
<1>6. ASSUME NEW l \in Entered, SetPgid(l) PROVE Types' /\ UNCHANGED lines
  <2>1. /\ leader' \in [Entered -> Leaders] /\ group' \in [Entered -> Numbers \cup {Main}]
        /\ late' \subseteq Entered
    BY <1>0, <1>6 DEF SetPgid, Types, Leaders, Exists
  <2> QED
    BY <1>0, <1>6, <2>1 DEF SetPgid, Types, shell, Entered
<1>7. ASSUME NEW l \in Entered, Launch(l) PROVE Types' /\ UNCHANGED lines
  <2>1. leader' \in [Entered -> Leaders] /\ cmds' = [m \in Entered |-> cmds'[m]]
    BY <1>0, <1>7 DEF Launch, Types, Leaders
  <2>2. at' \in [Entered -> Nat]
    BY <1>0, <1>7 DEF Launch, Types
  <2>3. waits' \in [Entered -> Nat]
    <3>1. Beside(l, Last(l)) \in Nat /\ NumSubproc(l) = 1 + Beside(l, Last(l))
      BY <1>0, NumSubprocIs, BesideIs
    <3>2. PICK n \in Nat : waits' \in {waits, [waits EXCEPT ![l] = n]}
      <4>1. NumSubproc(l) \in Nat
        BY <3>1
      <4> QED
        BY <1>7, <4>1 DEF Launch
    <3> QED
      BY <1>0, <3>2 DEF Types
  <2> QED
    BY <1>0, <1>7, <2>1, <2>2, <2>3 DEF Launch, Types, shell, history, Entered
<1>8. ASSUME NEW l \in Entered, Wait(l) PROVE Types' /\ UNCHANGED lines
  <2>1. leader' \in [Entered -> Leaders] /\ cmds' = [m \in Entered |-> cmds'[m]]
    BY <1>0, <1>8 DEF Wait, Types, Leaders
  <2>2. waits[l] - 1 \in Nat
    BY <1>0, <1>8 DEF Wait, Types, Inv, Line, Waiting
  <2>3. waits' \in [Entered -> Nat]
    BY <1>0, <1>8, <2>2 DEF Wait, Types
  <2> QED
    BY <1>0, <1>8, <2>1, <2>3 DEF Wait, Types, shell, history, Entered
<1>9. ASSUME NEW l \in Entered, NEW k \in 1..Last(l), Ends(l, k) PROVE Types' /\ UNCHANGED lines
  <2>1. cmds' = [m \in Entered |-> cmds'[m]]
    BY <1>0, <1>9 DEF Ends, Types
  <2> QED
    BY <1>0, <1>9, <2>1 DEF Ends, Types, shell, history, Entered
<1>10. CASE UNCHANGED vars
  BY <1>0, <1>10 DEF vars, Types, Entered
<1> QED
  BY <1>1, <1>2, <1>3, <1>4, <1>5, <1>6, <1>7, <1>8, <1>9, <1>10 DEF Next

-----------------------------------------------------------------------------
(* The lines: how many commands a leader has to wait for. *)

LEMMA SameLine ==
  ASSUME Types, NEW l \in Entered, lines'[l] = lines[l]
  PROVE  /\ Last(l)' = Last(l)
         /\ \A k \in Nat : Beside(l, k)' = Beside(l, k)
  BY DEF Last, Beside

(* The leader goes on as it was, or is reaped. *)
LEMMA LineKept ==
  ASSUME Types, NEW l \in Entered, Line(l), lines'[l] = lines[l],
         at'[l] = at[l], waits'[l] = waits[l], cmds'[l] = cmds[l],
         \/ leader'[l] = leader[l]
         \/ leader[l] = "zombie" /\ leader'[l] = "reaped"
  PROVE  Line(l)'
<1>1. Last(l)' = Last(l) /\ Unreaped(l)' = Unreaped(l)
  BY SameLine DEF Unreaped
<1>2. \A k \in Nat : Beside(l, k)' = Beside(l, k)
  BY SameLine
<1>3. /\ at[l] \in Nat /\ at[l] - 1 \in Nat
  BY LineIs DEF Line
<1>4. Waiting(l) => Waiting(l)'
  BY <1>1, <1>2, <1>3 DEF Waiting
<1> QED
  BY <1>1, <1>2, <1>3, <1>4 DEF Line

(* Commands of the line have ended, some perhaps reaped by somebody else.  *)
LEMMA LineEnds ==
  ASSUME Types, NEW l \in Entered, Line(l), lines'[l] = lines[l],
         at'[l] = at[l], waits'[l] = waits[l], leader'[l] = leader[l],
         cmds'[l] \in [1..Last(l) -> Commands],
         \A k \in 1..Last(l) :
           /\ cmds[l][k] = "none" => cmds'[l][k] = "none"
           /\ cmds'[l][k] \in {"runs", "zombie"} => cmds[l][k] \in {"runs", "zombie"}
  PROVE  Line(l)'
<1>1. Last(l)' = Last(l) /\ Unreaped(l)' \subseteq Unreaped(l)
  BY SameLine DEF Unreaped
<1>2. \A k \in Nat : Beside(l, k)' = Beside(l, k) /\ Beside(l, k) \in Nat
  BY SameLine, BesideIs
<1>3. at[l] \in Nat /\ at[l] - 1 \in Nat /\ waits[l] \in Nat
  BY LineIs DEF Line, Types
<1>4. /\ Cardinality(Unreaped(l)') \in Nat /\ Cardinality(Unreaped(l)) \in Nat
      /\ Cardinality(Unreaped(l)') <= Cardinality(Unreaped(l))
  BY <1>1, UnreapedFinite, FS_Subset, FS_CardinalityType
<1>5. Waiting(l) => Waiting(l)'
  BY <1>1, <1>2, <1>3, <1>4 DEF Waiting
<1>6. leader[l] = "launch" => Cardinality(Unreaped(l)') <= Beside(l, at[l])'
  <2>1. PICK k \in Nat : k = at[l]
    BY <1>3
  <2>2. leader[l] = "launch" => Cardinality(Unreaped(l)) <= Beside(l, k)
    BY <2>1 DEF Line
  <2>3. Beside(l, at[l])' = Beside(l, k)
    BY <1>2, <2>1
  <2> QED
    BY <1>2, <1>4, <2>2, <2>3
<1>7. \A k \in at[l]..Last(l) : cmds'[l][k] = "none"
  BY <1>3, LineIs DEF Line
<1> QED
  BY <1>1, <1>2, <1>3, <1>5, <1>6, <1>7 DEF Line

(* The group of the line is killed. *)
LEMMA LineKilled ==
  ASSUME Types, NEW l \in Entered, Line(l), lines'[l] = lines[l],
         at'[l] = at[l], waits'[l] = waits[l],
         leader'[l] = IF LeaderLives(l) THEN "zombie" ELSE leader[l],
         cmds'[l] = [k \in 1..Last(l) |-> IF cmds[l][k] = "none" THEN "none" ELSE "reaped"]
  PROVE  Line(l)'
<1>1. Last(l)' = Last(l) /\ Unreaped(l)' = {}
  BY SameLine DEF Unreaped
<1>2. leader'[l] \in {"zombie", "reaped"}
  BY DEF LeaderLives, Types, Leaders
<1>3. cmds'[l] \in [1..Last(l) -> Commands]
  BY DEF Commands
<1>4. \A k \in at[l]..Last(l) : cmds'[l][k] = "none"
  BY LineIs DEF Line
<1> QED
  BY <1>1, <1>2, <1>3, <1>4 DEF Line

LEMMA LineOfKilled ==
  ASSUME Types, NEW g, Killed(g), NEW l \in Entered, Line(l), UNCHANGED <<lines, at, waits>>
  PROVE  Line(l)'
<1>1. CASE group[l] = g
  BY <1>1, KilledTypes, LineKilled
<1>2. CASE group[l] # g
  BY <1>2, KilledTypes, LineKept
<1> QED
  BY <1>1, <1>2

(* The next command of the line is launched. *)
LEMMA LineLaunched ==
  ASSUME Types, NEW l \in Entered, Line(l), Launch(l)
  PROVE  Line(l)'
<1> PICK k \in Nat : k = at[l]
  BY DEF Types
<1>0. /\ leader[l] = "launch" /\ k \in 1..Last(l) /\ Last(l) \in Nat /\ k \in Nat
      /\ Cardinality(Unreaped(l)) <= Beside(l, k)
      /\ cmds[l] \in [1..Last(l) -> Commands]
      /\ \A j \in k..Last(l) : cmds[l][j] = "none"
  BY LineIs DEF Launch, Line
<1>1. /\ lines' = lines /\ at'[l] = k + 1
      /\ cmds'[l] = [cmds[l] EXCEPT ![k] = "runs"]
  BY DEF Launch, Types
<1>2. /\ Last(l)' = Last(l) /\ cmds'[l] \in [1..Last(l) -> Commands]
      /\ \A j \in k + 1..Last(l) : cmds'[l][j] = "none"
  BY <1>0, <1>1 DEF Last, Commands
<1>3. Unreaped(l)' = Unreaped(l) \cup {k} /\ k \notin Unreaped(l)
  BY <1>0, <1>1, <1>2 DEF Unreaped
<1>4. /\ Cardinality(Unreaped(l)') = Cardinality(Unreaped(l)) + 1
      /\ Cardinality(Unreaped(l)) \in Nat
  BY <1>3, UnreapedFinite, FS_AddElement
<1>5. /\ Beside(l, k) \in Nat /\ Beside(l, k)' = Beside(l, k)
      /\ Beside(l, k + 1)' = Beside(l, k + 1)
      /\ Beside(l, k + 1) = Beside(l, k) + (IF lines[l].ops[k] = "&&&" THEN 1 ELSE 0)
  <2>1. \A n \in Nat : Beside(l, n)' = Beside(l, n)
    BY <1>1, SameLine
  <2>2. PICK n \in Nat : n = k + 1
    OBVIOUS
  <2>3. Beside(l, k + 1)' = Beside(l, k + 1)
    BY <2>1, <2>2
  <2>4. /\ Beside(l, k) \in Nat
        /\ Beside(l, k + 1) = Beside(l, k) + (IF lines[l].ops[k] = "&&&" THEN 1 ELSE 0)
    <3>1. k > 0
      BY <1>0
    <3> QED
      BY <3>1, BesideIs
  <2> QED
    BY <2>1, <2>3, <2>4
<1>6. CASE k = Last(l)
  <2>1. /\ leader'[l] = "wait" /\ waits'[l] = NumSubproc(l)
    BY <1>6 DEF Launch, MustWait, Types
  <2>2. NumSubproc(l) = 1 + Beside(l, k) /\ 1 + Beside(l, k) <= Last(l)
    BY <1>0, <1>5, <1>6, NumSubprocIs, BesideBound
  <2>3. Waiting(l)'
    BY <1>0, <1>1, <1>2, <1>4, <1>5, <1>6, <2>1, <2>2 DEF Waiting
  <2> QED
    BY <1>0, <1>1, <1>2, <1>5, <1>6, <2>1, <2>2, <2>3 DEF Line
<1>7. CASE k < Last(l) /\ lines[l].ops[k] = "&&&"
  <2>1. leader'[l] = "launch" /\ waits'[l] = waits[l]
    BY <1>0, <1>7 DEF Launch, MustWait
  <2>2. Cardinality(Unreaped(l)') <= Beside(l, k + 1)'
    BY <1>0, <1>4, <1>5, <1>7
  <2>3. waits[l] \in 0..Last(l)
    BY DEF Line
  <2> QED
    BY <1>0, <1>1, <1>2, <1>7, <2>1, <2>2, <2>3 DEF Line
<1>8. CASE k < Last(l) /\ lines[l].ops[k] # "&&&"
  <2>1. leader'[l] = "wait" /\ waits'[l] = 1
    <3>1. (IF k = Last(l) THEN "end" ELSE lines[l].ops[k]) = lines[l].ops[k]
      BY <1>0, <1>8
    <3>2. lines[l].ops[k] # "end"
      <4>1. k \in 1..Len(lines[l].ops)
        BY <1>0, <1>8, LineIs
      <4> QED
        BY <4>1, LineIs
    <3> QED
      BY <1>8, <3>1, <3>2 DEF Launch, MustWait, Types
  <2>2. Waiting(l)'
    BY <1>0, <1>1, <1>2, <1>4, <1>5, <1>8, <2>1 DEF Waiting
  <2> QED
    BY <1>0, <1>1, <1>2, <1>8, <2>1, <2>2 DEF Line
<1> QED
  BY <1>0, <1>6, <1>7, <1>8

(* A call of wait returns. *)
LEMMA LineWaited ==
  ASSUME Types, NEW l \in Entered, Line(l), Wait(l)
  PROVE  Line(l)'
<1> PICK k \in Nat : k = at[l]
  BY DEF Types
<1> PICK w \in Nat : w = waits[l]
  BY DEF Types
<1>0. /\ leader[l] = "wait" /\ w >= 1 /\ k > 1 /\ k \in 1..Last(l) + 1 /\ Last(l) \in Nat
      /\ w \in 0..Last(l)
      /\ cmds[l] \in [1..Last(l) -> Commands]
      /\ \A j \in k..Last(l) : cmds[l][j] = "none"
      /\ IF k <= Last(l)
         THEN /\ w = 1 /\ Beside(l, k) = Beside(l, k - 1)
              /\ Cardinality(Unreaped(l)) <= 1 + Beside(l, k - 1)
         ELSE /\ w <= 1 + Beside(l, k - 1)
              /\ Cardinality(Unreaped(l)) <= w
  BY LineIs DEF Wait, Line, Waiting
<1>1. /\ lines' = lines /\ at' = at /\ waits'[l] = w - 1
      /\ leader'[l] = IF w > 1 THEN "wait" ELSE IF k <= Last(l) THEN "launch" ELSE "zombie"
  BY DEF Wait, Types
<1>2. /\ Beside(l, k) \in Nat /\ Beside(l, k)' = Beside(l, k)
      /\ k - 1 \in Nat /\ Beside(l, k - 1) \in Nat /\ Beside(l, k - 1)' = Beside(l, k - 1)
      /\ Last(l)' = Last(l)
  <2>1. (\A n \in Nat : Beside(l, n)' = Beside(l, n)) /\ Last(l)' = Last(l)
    BY <1>1, SameLine
  <2>2. PICK n \in Nat : n = k - 1
    BY <1>0
  <2>3. Beside(l, k - 1)' = Beside(l, k - 1)
    BY <2>1, <2>2
  <2>4. Beside(l, k) \in Nat /\ Beside(l, n) \in Nat
    BY BesideIs
  <2> QED
    BY <1>0, <2>1, <2>2, <2>3, <2>4
<1>3. /\ cmds'[l] \in [1..Last(l) -> Commands]
      /\ \A j \in k..Last(l) : cmds'[l][j] = "none"
      /\ \/ Unreaped(l) = {} /\ Unreaped(l)' = {}
         \/ \E j \in Unreaped(l) : Unreaped(l)' = Unreaped(l) \ {j}
  <2>1. ASSUME NEW j \in 1..Last(l), cmds[l][j] = "zombie", cmds' = [cmds EXCEPT ![l][j] = "reaped"]
        PROVE  <1>3
    <3>1. cmds'[l] = [cmds[l] EXCEPT ![j] = "reaped"]
      BY <2>1 DEF Types
    <3>2. /\ cmds'[l] \in [1..Last(l) -> Commands]
          /\ \A i \in k..Last(l) : cmds'[l][i] = "none"
      BY <1>0, <2>1, <3>1 DEF Commands
    <3>3. j \in Unreaped(l) /\ Unreaped(l)' = Unreaped(l) \ {j}
      BY <1>0, <1>2, <2>1, <3>1 DEF Unreaped
    <3> QED
      BY <3>2, <3>3
  <2>2. ASSUME {j \in 1..Last(l) : cmds[l][j] = "zombie"} = {}, Running(l) = {}, cmds' = cmds
        PROVE  <1>3
    <3>1. Unreaped(l) = {} /\ Unreaped(l)' = {}
      BY <1>2, <2>2 DEF Unreaped, Running
    <3> QED
      BY <1>0, <2>2, <3>1
  <2> QED
    BY <2>1, <2>2 DEF Wait
<1>4. /\ Cardinality(Unreaped(l)') \in Nat /\ Cardinality(Unreaped(l)) \in Nat
      /\ IF Unreaped(l) = {} THEN Cardinality(Unreaped(l)') = 0 /\ Cardinality(Unreaped(l)) = 0
         ELSE Cardinality(Unreaped(l)') = Cardinality(Unreaped(l)) - 1
  <2>1. IsFiniteSet(Unreaped(l)) /\ Cardinality(Unreaped(l)) \in Nat
    BY UnreapedFinite
  <2>2. CASE Unreaped(l) = {} /\ Unreaped(l)' = {}
    BY <2>2, FS_EmptySet
  <2>3. ASSUME NEW j \in Unreaped(l), Unreaped(l)' = Unreaped(l) \ {j}
        PROVE  <1>4
    <3>1. Cardinality(Unreaped(l)') = Cardinality(Unreaped(l)) - 1 /\ Unreaped(l) # {}
      BY <2>1, <2>3, FS_RemoveElement
    <3>2. Cardinality(Unreaped(l)) # 0
      BY <2>1, <3>1, FS_EmptySet
    <3> QED
      BY <2>1, <3>1, <3>2
  <2> QED
    BY <1>3, <2>2, <2>3
<1>5. IsFiniteSet(Unreaped(l)')
  <2>1. IsFiniteSet(Unreaped(l))
    BY UnreapedFinite
  <2> QED
    BY <1>3, <2>1, FS_EmptySet, FS_RemoveElement
<1>6. CASE w > 1
  <2>1. k > Last(l) /\ at'[l] = k /\ waits'[l] = w - 1 /\ w - 1 >= 1
    BY <1>0, <1>1, <1>6
  <2>2. Beside(l, at[l] - 1)' = Beside(l, k - 1) /\ w - 1 <= 1 + Beside(l, k - 1)
    BY <1>0, <1>2, <2>1
  <2>3. Cardinality(Unreaped(l)') <= w - 1
    BY <1>0, <1>4, <2>1
  <2>4. Waiting(l)'
    BY <1>0, <1>2, <2>1, <2>2, <2>3 DEF Waiting
  <2> QED
    BY <1>0, <1>1, <1>2, <1>3, <1>6, <2>4 DEF Line
<1>7. CASE w = 1 /\ k <= Last(l)
  <2>1. leader'[l] = "launch" /\ Cardinality(Unreaped(l)') <= Beside(l, k)'
    BY <1>0, <1>1, <1>2, <1>4, <1>7
  <2> QED
    BY <1>0, <1>1, <1>2, <1>3, <1>7, <2>1 DEF Line
<1>8. CASE w = 1 /\ k > Last(l)
  <2>1. Cardinality(Unreaped(l)') = 0
    BY <1>0, <1>4, <1>8
  <2>2. leader'[l] = "zombie" /\ Unreaped(l)' = {}
    BY <1>0, <1>1, <1>5, <1>8, <2>1, FS_EmptySet
  <2> QED
    BY <1>0, <1>1, <1>2, <1>3, <1>8, <2>2 DEF Line
<1> QED
  BY <1>0, <1>6, <1>7, <1>8

LEMMA LinesStep ==
  ASSUME Inv, [Next]_vars
  PROVE  \A l \in Entered' : Line(l)'
<1>0. /\ Types /\ \A l \in Entered : Line(l)
  BY DEF Inv
<1>1. ASSUME NEW line \in Lines, Enter(line) PROVE \A l \in Entered' : Line(l)'
  <2> DEFINE c == [k \in 1..Len(line.ops) + 1 |-> "none"]
  <2> PICK n \in Nat : n = Len(lines) + 1
    BY <1>0 DEF Types
  <2>1. ASSUME NEW l \in Entered PROVE Line(l)'
    <3>1. lines'[l] = lines[l]
      BY <1>0, <1>1, EnterIs
    <3>2. at'[l] = at[l] /\ waits'[l] = waits[l]
      <4>1. /\ at \in [Entered -> Nat] /\ at' = Append(at, 1) /\ 1 \in Nat
            /\ waits \in [Entered -> Nat] /\ waits' = Append(waits, 0) /\ 0 \in Nat
        BY <1>0, <1>1 DEF Enter, Types
      <4>2. Append(at, 1)[l] = at[l]
        BY <1>0, <1>1, <4>1, EnterAppends
      <4>3. Append(waits, 0)[l] = waits[l]
        BY <1>0, <1>1, <4>1, EnterAppends
      <4> QED
        BY <4>1, <4>2, <4>3
    <3>3. \/ leader'[l] = leader[l]
          \/ leader[l] = "zombie" /\ leader'[l] = "reaped"
      <4>1. leader' = Append(Collected, "forked") /\ "forked" \in Leaders
        BY <1>1 DEF Enter, Leaders
      <4>2. leader'[l] = Collected[l]
        BY <1>0, <1>1, <4>1, CollectedIs, EnterAppends
      <4> QED
        BY <1>0, <4>2, CollectedIs
    <3>4. cmds'[l] = cmds[l]
      <4> DEFINE S == {cmds[m] : m \in Entered} \cup {c}
      <4>1. cmds \in [Entered -> S] /\ c \in S /\ cmds' = Append(cmds, c)
        BY <1>0, <1>1 DEF Types, Enter
      <4> HIDE DEF c, S
      <4> QED
        BY <1>0, <1>1, <4>1, EnterAppends
    <3> QED
      BY <1>0, <3>1, <3>2, <3>3, <3>4, LineKept
  <2>2. Line(n)'
    <3>1. /\ Last(n)' = Len(line.ops) + 1 /\ Len(line.ops) \in Nat
      <4>1. lines'[n] = line
        BY <1>0, <1>1, EnterIs
      <4>2. line \in [kind : {"fg", "bg", "amp"}, ops : Seq({"&&", "&&&"})]
        BY LinesAssumption DEF LinesAssumption
      <4>3. line.ops \in Seq({"&&", "&&&"})
        BY <4>2
      <4> QED
        BY <4>1, <4>3 DEF Last
    <3>2. at'[n] = 1 /\ waits'[n] = 0 /\ leader'[n] = "forked"
      <4>1. /\ leader' = Append(Collected, "forked") /\ "forked" \in Leaders
            /\ at' = Append(at, 1) /\ waits' = Append(waits, 0)
        BY <1>1 DEF Enter, Leaders
      <4>2. Collected \in [Entered -> Leaders] /\ at \in [Entered -> Nat] /\ waits \in [Entered -> Nat]
        BY <1>0, CollectedIs DEF Types
      <4>3. Entered = 1..Len(lines) /\ Len(lines) \in Nat
        BY <1>0 DEF Entered, Types
      <4>4. /\ Append(Collected, "forked")[Len(lines) + 1] = "forked"
            /\ Append(at, 1)[Len(lines) + 1] = 1 /\ Append(waits, 0)[Len(lines) + 1] = 0
        BY <4>1, <4>2, <4>3, AppendLast
      <4> QED
        BY <4>1, <4>4
    <3>3. cmds'[n] = c
      <4> DEFINE S == {cmds[m] : m \in Entered} \cup {c}
      <4>1. cmds \in [Entered -> S] /\ c \in S /\ cmds' = Append(cmds, c)
        BY <1>0, <1>1 DEF Types, Enter
      <4> HIDE DEF c, S
      <4>2. Entered = 1..Len(lines) /\ Len(lines) \in Nat
        BY <1>0 DEF Entered, Types
      <4>3. Append(cmds, c)[Len(lines) + 1] = c
        BY <4>1, <4>2, AppendLast
      <4> QED
        BY <4>1, <4>3
    <3> QED
      BY <3>1, <3>2, <3>3 DEF Line, Commands
  <2> QED
    BY <1>0, <1>1, <2>1, <2>2, EnterIs
<1>2. SUFFICES ASSUME \A line \in Lines : ~Enter(line), NEW l \in Entered
               PROVE  Line(l)'
  <2>1. CASE \A line \in Lines : ~Enter(line)
    <3>1. Entered' = Entered
      BY <2>1, OtherTypes DEF Entered
    <3> QED
      BY <1>2, <2>1, <3>1
  <2> QED
    BY <1>1, <2>1
<1>3. lines' = lines
  BY <1>2, OtherTypes
<1>4. CASE EnterNothing
  BY <1>0, <1>3, <1>4, CollectedIs, LineKept DEF EnterNothing
<1>5. CASE Forked \/ UNCHANGED vars
  BY <1>0, <1>3, <1>5, LineKept DEF Forked, children, vars
<1>6. CASE Waited
  <2>1. \/ leader'[l] = leader[l]
        \/ leader[l] = "zombie" /\ leader'[l] = "reaped"
    BY <1>0, <1>6 DEF Waited, Types
  <2> QED
    BY <1>0, <1>3, <1>6, <2>1, LineKept DEF Waited
<1>7. CASE Exit \/ Exited
  BY <1>0, <1>3, <1>7, LineOfKilled, LineKept DEF Exit, Exited
<1>8. CASE Interrupt
  <2>1. /\ UNCHANGED <<lines, at, waits>> /\ Line(l)
        /\ cmds[l] \in [1..Last(l) -> Commands]
    BY <1>0, <1>8 DEF Interrupt, Line
  <2>2. CASE group[l] = fore_pgid
    BY <1>0, <1>8, <2>1, <2>2, InterruptIs, LineKilled
  <2>3. CASE group[l] # fore_pgid
    <3>1. /\ leader'[l] = leader[l] /\ cmds'[l] \in [1..Last(l) -> Commands]
          /\ \A k \in 1..Last(l) :
               /\ cmds[l][k] = "none" => cmds'[l][k] = "none"
               /\ cmds'[l][k] \in {"runs", "zombie"} => cmds[l][k] \in {"runs", "zombie"}
      BY <1>0, <1>8, <2>1, <2>3, InterruptIs
    <3> QED
      BY <1>0, <2>1, <3>1, LineEnds
  <2> QED
    BY <2>2, <2>3
<1>9. ASSUME NEW m \in Entered, SetPgid(m) PROVE Line(l)'
  <2>1. CASE m # l
    BY <1>0, <1>3, <1>9, <2>1, LineKept DEF SetPgid, Types
  <2>2. CASE m = l
    <3>1. /\ leader[l] = "forked" /\ leader'[l] = "launch" /\ at[l] = 1
          /\ UNCHANGED <<lines, at, waits, cmds>>
      BY <1>0, <1>9, <2>2 DEF SetPgid, Types, Line
    <3>2. /\ Unreaped(l)' = {} /\ Last(l)' = Last(l)
      BY <1>0, <3>1, LineIs DEF Unreaped, Last, Line
    <3>3. Cardinality(Unreaped(l)') = 0 /\ Beside(l, 1)' \in Nat
      BY <1>0, <3>1, <3>2, FS_EmptySet, BesideIs, SameLine
    <3>4. Cardinality(Unreaped(l)') <= Beside(l, at[l])'
      BY <3>1, <3>3
    <3>5. Last(l) \in Nat /\ Last(l) >= 1
      BY <1>0, LineIs
    <3>6. /\ waits[l] \in 0..Last(l) /\ cmds[l] \in [1..Last(l) -> Commands]
          /\ \A k \in at[l]..Last(l) : cmds[l][k] = "none"
      BY <1>0 DEF Line
    <3> QED
      BY <3>1, <3>2, <3>4, <3>5, <3>6 DEF Line
  <2> QED
    BY <2>1, <2>2
<1>10. ASSUME NEW m \in Entered, Launch(m) PROVE Line(l)'
  BY <1>0, <1>3, <1>10, LineKept, LineLaunched DEF Launch, Types
<1>11. ASSUME NEW m \in Entered, Wait(m) PROVE Line(l)'
  BY <1>0, <1>3, <1>11, LineKept, LineWaited DEF Wait, Types
<1>12. ASSUME NEW m \in Entered, NEW k \in 1..Last(m), Ends(m, k) PROVE Line(l)'
  <2>1. CASE m # l
    BY <1>0, <1>3, <1>12, <2>1, LineKept DEF Ends, Types
  <2>2. CASE m = l
    <3>1. /\ cmds[l] \in [1..Last(l) -> Commands] /\ cmds[l][k] = "runs"
          /\ \E c \in {"zombie", "reaped"} : cmds'[l] = [cmds[l] EXCEPT ![k] = c]
      BY <1>0, <1>12, <2>2 DEF Ends, Ended, Running, Line, Types
    <3>2. UNCHANGED <<lines, at, waits, leader>>
      BY <1>12 DEF Ends
    <3>3. /\ cmds'[l] \in [1..Last(l) -> Commands]
          /\ \A j \in 1..Last(l) :
               /\ cmds[l][j] = "none" => cmds'[l][j] = "none"
               /\ cmds'[l][j] \in {"runs", "zombie"} => cmds[l][j] \in {"runs", "zombie"}
      BY <1>12, <2>2, <3>1 DEF Commands
    <3> QED
      BY <1>0, <3>2, <3>3, LineEnds
  <2> QED
    BY <2>1, <2>2
<1> QED
  BY <1>2, <1>4, <1>5, <1>6, <1>7, <1>8, <1>9, <1>10, <1>11, <1>12 DEF Next

(* Only a launch adds to the commands that are to be waited for. *)
LEMMA OthersShrink ==
  ASSUME Inv, [Next]_vars, \A line \in Lines : ~Enter(line), NEW l \in Entered, ~Launch(l)
  PROVE  at'[l] = at[l] /\ Unreaped(l)' \subseteq Unreaped(l)
<1>0. /\ Types /\ lines' = lines /\ Last(l)' = Last(l)
      /\ cmds[l] \in [1..Last(l) -> Commands]
  BY OtherTypes DEF Inv, Line, Last
<1>1. CASE EnterNothing \/ Forked \/ Waited \/ UNCHANGED vars
  BY <1>0, <1>1 DEF EnterNothing, Forked, Waited, children, vars, Unreaped
<1>2. CASE Exit \/ Exited
  <2>1. at' = at /\ (cmds' = cmds \/ \E g : Killed(g))
    BY <1>2 DEF Exit, Exited
  <2> QED
    BY <1>0, <2>1, KilledTypes DEF Unreaped
<1>3. CASE Interrupt
  <2>1. \A k \in 1..Last(l) : cmds'[l][k] \in {"runs", "zombie"} =>
                               cmds[l][k] \in {"runs", "zombie"}
    BY <1>0, <1>3, InterruptIs
  <2> QED
    BY <1>0, <1>3, <2>1 DEF Interrupt, Unreaped
<1>4. ASSUME NEW m \in Entered, SetPgid(m)
      PROVE  at' = at /\ cmds' = cmds
  BY <1>4 DEF SetPgid
<1>5. ASSUME NEW m \in Entered, Launch(m)
      PROVE  at'[l] = at[l] /\ cmds'[l] = cmds[l]
  BY <1>0, <1>5 DEF Launch, Types
<1>6. ASSUME NEW m \in Entered, Wait(m)
      PROVE  /\ at' = at
             /\ \A k \in 1..Last(l) : cmds'[l][k] \in {cmds[l][k], "reaped"}
  <2>1. /\ at' = at
        /\ \/ \E j \in 1..Last(m) : cmds' = [cmds EXCEPT ![m][j] = "reaped"]
           \/ cmds' = cmds
    BY <1>6 DEF Wait
  <2>2. CASE cmds' = cmds
    BY <2>1, <2>2
  <2>3. ASSUME NEW j \in 1..Last(m), cmds' = [cmds EXCEPT ![m][j] = "reaped"]
        PROVE  \A k \in 1..Last(l) : cmds'[l][k] \in {cmds[l][k], "reaped"}
    <3>1. cmds'[l] = IF l = m THEN [cmds[l] EXCEPT ![j] = "reaped"] ELSE cmds[l]
      BY <1>0, <2>3 DEF Types
    <3> QED
      BY <1>0, <3>1
  <2> QED
    BY <2>1, <2>2, <2>3
<1>7. ASSUME NEW m \in Entered, NEW j \in 1..Last(m), Ends(m, j)
      PROVE  /\ at' = at
             /\ \A k \in 1..Last(l) : \/ cmds'[l][k] = cmds[l][k]
                                       \/ cmds[l][k] = "runs"
  BY <1>0, <1>7 DEF Ends, Running, Types
<1> QED
  BY <1>0, <1>1, <1>2, <1>3, <1>4, <1>5, <1>6, <1>7 DEF Next, Unreaped

(* Where only && stands before a command the leader has waited for all     *)
(* earlier ones.                                                           *)
LEMMA NoneBeside ==
  ASSUME Types, NEW l \in Entered, NEW k \in Nat, Sequential(l, k)
  PROVE  Beside(l, k + 1) = 0
<1>1. {j \in 1..k + 1 - 1 : lines[l].ops[j] = "&&&"} = {}
  BY DEF Sequential
<1> QED
  BY <1>1, FS_EmptySet DEF Beside

LEMMA OrderLaunched ==
  ASSUME Types, NEW l \in Entered, Line(l), Order(l), Launch(l)
  PROVE  Order(l)'
<1> PICK k \in Nat : k = at[l]
  BY DEF Types
<1>1. /\ k \in 1..Last(l) /\ Last(l) \in Nat /\ lines' = lines /\ at'[l] = k + 1
      /\ Cardinality(Unreaped(l)) <= Beside(l, k)
      /\ cmds'[l] = [cmds[l] EXCEPT ![k] = "runs"]
      /\ cmds[l] \in [1..Last(l) -> Commands]
  BY LineIs DEF Launch, Line, Types
<1>2. Unreaped(l)' \subseteq Unreaped(l) \cup {k}
  BY <1>1 DEF Unreaped, Last
<1>3. SUFFICES ASSUME NEW j \in 1..k - 1, Sequential(l, j) PROVE j \notin Unreaped(l)
  BY <1>1, <1>2 DEF Order, Sequential
<1>4. CASE j <= k - 2
  BY <1>3, <1>4 DEF Order
<1>5. CASE j = k - 1
  <2>1. j \in Nat /\ k = j + 1
    BY <1>5
  <2>2. Beside(l, j + 1) = 0
    BY <1>3, <2>1, NoneBeside
  <2>3. Beside(l, k) = 0
    BY <2>1, <2>2
  <2>4. IsFiniteSet(Unreaped(l)) /\ Cardinality(Unreaped(l)) \in Nat
    BY UnreapedFinite
  <2>5. Cardinality(Unreaped(l)) = 0
    BY <1>1, <2>3, <2>4
  <2> QED
    BY <2>4, <2>5, FS_EmptySet
<1> QED
  BY <1>4, <1>5

LEMMA OrderStep ==
  ASSUME Inv, [Next]_vars
  PROVE  \A l \in Entered' : Order(l)'
<1>0. /\ Types /\ Len(lines) \in Nat /\ \A l \in Entered : Line(l) /\ Order(l)
  BY DEF Inv, Types
<1>1. ASSUME NEW line \in Lines, Enter(line), NEW l \in Entered' PROVE Order(l)'
  <2>1. at' = Append(at, 1) /\ at \in [1..Len(lines) -> Nat]
    BY <1>0, <1>1 DEF Enter, Types, Entered
  <2>2. CASE l \in Entered
    <3>1. lines'[l] = lines[l] /\ Last(l)' = Last(l)
      BY <1>0, <1>1, <2>2, EnterIs DEF Last
    <3>2. at'[l] = at[l]
      BY <1>0, <1>1, <2>1, <2>2, EnterAppends DEF Types
    <3>3. cmds'[l] = cmds[l]
      <4> DEFINE c == [k \in 1..Len(line.ops) + 1 |-> "none"]
                 S == {cmds[m] : m \in Entered} \cup {c}
      <4>1. cmds \in [Entered -> S] /\ c \in S /\ cmds' = Append(cmds, c)
        BY <1>0, <1>1 DEF Types, Enter
      <4> HIDE DEF c, S
      <4> QED
        BY <1>0, <1>1, <2>2, <4>1, EnterAppends
    <3>4. Order(l)
      BY <1>0, <2>2
    <3> QED
      BY <3>1, <3>2, <3>3, <3>4 DEF Order, Sequential, Unreaped
  <2>3. CASE l = Len(lines) + 1
    <3>1. at'[l] = 1
      BY <1>0, <2>1, <2>3, AppendLast
    <3> QED
      BY <3>1 DEF Order
  <2> QED
    BY <1>0, <1>1, <2>2, <2>3, EnterIs
<1>2. ASSUME \A line \in Lines : ~Enter(line), NEW l \in Entered' PROVE Order(l)'
  <2>1. lines' = lines /\ l \in Entered
    BY <1>2, OtherTypes DEF Entered
  <2>2. CASE Launch(l)
    BY <1>0, <2>1, <2>2, OrderLaunched
  <2>3. CASE ~Launch(l)
    <3>1. at'[l] = at[l] /\ Unreaped(l)' \subseteq Unreaped(l)
      BY <1>2, <2>1, <2>3, OthersShrink
    <3> QED
      BY <1>0, <2>1, <3>1 DEF Order, Sequential
  <2> QED
    BY <2>2, <2>3
<1> QED
  BY <1>1, <1>2

-----------------------------------------------------------------------------
(* What becomes of a leader: nobody comes back, and only the shell reaps.  *)

LEMMA Leading ==
  ASSUME Inv, [Next]_vars, \A line \in Lines : ~Enter(line), NEW l \in Entered
  PROVE  \/ leader'[l] = leader[l]
         \/ leader[l] = "forked" /\ leader'[l] = "launch" /\ SetPgid(l)
         \/ leader[l] \in {"launch", "wait"} /\ leader'[l] \in {"launch", "wait", "zombie"}
         \/ LeaderLives(l) /\ leader'[l] = "zombie"
         \/ /\ leader[l] = "zombie" /\ leader'[l] = "reaped"
            /\ EnterNothing \/ (Waited /\ l = fore_pgid)
<1>0. Types /\ cmds[l] \in [1..Last(l) -> Commands]
  BY DEF Inv, Line
<1>1. CASE EnterNothing
  BY <1>0, <1>1, CollectedIs DEF EnterNothing
<1>2. CASE Forked \/ UNCHANGED vars
  BY <1>2 DEF Forked, children, vars
<1>3. CASE Waited
  BY <1>0, <1>3 DEF Waited, Types
<1>4. CASE Exit \/ Exited \/ Interrupt
  BY <1>0, <1>4, KilledTypes, InterruptIs DEF Exit, Exited
<1>5. ASSUME NEW m \in Entered, SetPgid(m)
      PROVE  \/ leader'[l] = leader[l]
             \/ m = l /\ leader[l] = "forked" /\ leader'[l] = "launch"
  BY <1>0, <1>5 DEF SetPgid, Types
<1>6. ASSUME NEW m \in Entered, Launch(m)
      PROVE  \/ leader'[l] = leader[l]
             \/ leader[l] = "launch" /\ leader'[l] = "wait"
  BY <1>0, <1>6 DEF Launch, Types
<1>7. ASSUME NEW m \in Entered, Wait(m)
      PROVE  \/ leader'[l] = leader[l]
             \/ leader[l] = "wait" /\ leader'[l] \in {"wait", "launch", "zombie"}
  BY <1>0, <1>7 DEF Wait, Types
<1>8. ASSUME NEW m \in Entered, NEW k \in 1..Last(m), Ends(m, k)
      PROVE  leader' = leader
  BY <1>8 DEF Ends
<1> QED
  BY <1>1, <1>2, <1>3, <1>4, <1>5, <1>6, <1>7, <1>8 DEF Next

(* The shell while it reaps and forks nobody.                              *)
LEMMA ShellRests ==
  ASSUME Inv, [Next]_vars, \A line \in Lines : ~Enter(line), ~EnterNothing, ~Forked, ~Waited
  PROVE  /\ UNCHANGED <<fore_pgid, back_num, back_pgid, joins, stray, hurried>>
         /\ \/ pc' = pc
            \/ pc = "prompt" /\ pc' = "exit" /\ Exit
            \/ pc = "exit" /\ pc' = "gone" /\ Exited
         /\ \/ group' = group /\ late' = late
            \/ \E l \in Entered : SetPgid(l)
  BY DEF Next, vars, shell, history, Exit, Exited, Interrupt, SetPgid, Launch, Wait, Ends

LEMMA ForeStep ==
  ASSUME Inv, [Next]_vars
  PROVE  ForeReaped'
<1>0. Types /\ ForeReaped /\ Len(lines) \in Nat
  BY DEF Inv, Types
<1>1. ASSUME NEW line \in Lines, Enter(line) PROVE ForeReaped'
  <2>1. /\ pc = "prompt" /\ pc' = "forked" /\ fore_pgid' = fore_pgid
        /\ leader' = Append(Collected, "forked") /\ "forked" \in Leaders
    BY <1>1 DEF Enter, Leaders
  <2>2. /\ Len(lines') = Len(lines) + 1 /\ Entered' = Entered \cup {Len(lines) + 1}
        /\ \A l \in Entered : lines'[l] = lines[l]
    BY <1>0, <1>1, EnterIs
  <2>3. /\ leader'[Len(lines) + 1] = "forked"
        /\ \A l \in Entered : leader'[l] = Collected[l]
    <3>1. Collected \in [Entered -> Leaders]
      BY <1>0, CollectedIs
    <3>2. \A l \in Entered : Append(Collected, "forked")[l] = Collected[l]
      BY <1>0, <1>1, <2>1, <3>1, EnterAppends
    <3>3. Append(Collected, "forked")[Len(lines) + 1] = "forked"
      BY <1>0, <2>1, <3>1, AppendLast DEF Entered
    <3> QED
      BY <2>1, <3>2, <3>3
  <2>4. \A l \in Entered : leader'[l] # "reaped" => leader[l] # "reaped"
    BY <1>0, <2>3, CollectedIs
  <2> QED
    BY <1>0, <2>1, <2>2, <2>3, <2>4 DEF ForeReaped
<1>2. SUFFICES ASSUME \A line \in Lines : ~Enter(line) PROVE ForeReaped'
  BY <1>1
<1>3. lines' = lines /\ Entered' = Entered
  BY <1>2, OtherTypes DEF Entered
<1>4. \A l \in Entered : leader'[l] # "reaped" => leader[l] # "reaped"
  BY <1>2, Leading DEF LeaderLives
<1>5. CASE EnterNothing
  BY <1>0, <1>3, <1>4, <1>5 DEF EnterNothing, ForeReaped
<1>6. CASE Forked
  BY <1>0, <1>3, <1>6 DEF Forked, ForeReaped, children
<1>7. CASE Waited
  <2>1. leader'[fore_pgid] = "reaped"
    BY <1>0, <1>7 DEF Waited, Types, ForeReaped
  <2> QED
    BY <1>0, <1>3, <1>4, <1>7, <2>1 DEF Waited, ForeReaped
<1>8. CASE ~EnterNothing /\ ~Forked /\ ~Waited
  <2>1. \A l \in Entered : leader'[l] = "reaped" => leader[l] = "reaped"
    BY <1>2, <1>8, Leading
  <2>2. /\ fore_pgid' = fore_pgid
        /\ \/ pc' = pc
           \/ pc \in {"prompt", "exit"} /\ pc' \in {"exit", "gone"}
    BY <1>2, <1>8, ShellRests
  <2> QED
    BY <1>0, <1>3, <1>4, <2>1, <2>2 DEF ForeReaped
<1> QED
  BY <1>5, <1>6, <1>7, <1>8

-----------------------------------------------------------------------------
(* The background.                                                         *)

LEMMA EnterFields ==
  ASSUME Types, NEW line \in Lines, Enter(line)
  PROVE  LET n == Len(lines) + 1
             g == IF line.kind # "bg" \/ back_num' = 1 THEN n ELSE back_pgid'
         IN
         /\ leader'[n] = "forked" /\ joins'[n] = g /\ group'[n] = Main
         /\ \A l \in Entered : /\ leader'[l] = IF leader[l] = "zombie" THEN "reaped" ELSE leader[l]
                               /\ joins'[l] = joins[l] /\ group'[l] = group[l]
<1> DEFINE n == Len(lines) + 1
           b == IF line.kind = "bg" THEN BackNum + 1 ELSE BackNum
           g == IF line.kind # "bg" \/ b = 1 THEN n ELSE BackPgid
<1>1. /\ Collected \in [Entered -> Leaders] /\ "forked" \in Leaders
      /\ joins \in [Entered -> Numbers \cup {-1}] /\ group \in [Entered -> Numbers \cup {Main}]
      /\ g \in Numbers \cup {-1} /\ Main \in Numbers \cup {Main}
      /\ Len(lines) \in Nat /\ Entered = 1..Len(lines)
  BY CollectedIs, BackIs, EnterIs DEF Types, Leaders, Entered
<1>2. /\ leader' = Append(Collected, "forked") /\ joins' = Append(joins, g)
      /\ group' = Append(group, Main) /\ back_num' = b /\ back_pgid' = BackPgid
  BY DEF Enter
<1> HIDE DEF g
<1>3. /\ Append(Collected, "forked")[Len(lines) + 1] = "forked"
      /\ Append(joins, g)[Len(lines) + 1] = g
      /\ Append(group, Main)[Len(lines) + 1] = Main
  BY <1>1, AppendLast
<1>4. ASSUME NEW l \in Entered
      PROVE  /\ Append(Collected, "forked")[l] = Collected[l]
             /\ Append(joins, g)[l] = joins[l] /\ Append(group, Main)[l] = group[l]
  BY <1>1, EnterAppends
<1> QED
  BY <1>2, <1>3, <1>4, CollectedIs DEF g

(* At the prompt the children that have ended are all background lines.    *)
LEMMA CollectedCount ==
  ASSUME Inv, ~stray, pc = "prompt"
  PROVE  /\ Zombies \subseteq InBackground
         /\ BackNum = Cardinality(InBackground \ Zombies)
         /\ IsFiniteSet(InBackground \ Zombies) /\ BackNum \in Nat
         /\ BackNum = 0 <=> InBackground \ Zombies = {}
         /\ \A l \in InBackground \ Zombies : joins[l] = back_pgid /\ BackPgid = back_pgid
<1>0. Types /\ ForeReaped /\ Counted
  BY DEF Inv
<1>1. Zombies \subseteq InBackground
  BY <1>0, LineIs DEF Zombies, InBackground, ForeReaped, Counted
<1>2. /\ IsFiniteSet(InBackground) /\ IsFiniteSet(Zombies)
      /\ Cardinality(InBackground) \in Nat /\ Cardinality(Zombies) \in Nat
  BY <1>0, CountsFinite
<1>3. InBackground \cap Zombies = Zombies
  BY <1>1
<1>4. /\ Cardinality(InBackground \ Zombies) = Cardinality(InBackground) - Cardinality(Zombies)
      /\ IsFiniteSet(InBackground \ Zombies)
  BY <1>2, <1>3, FS_Difference
<1>5. BackNum = Cardinality(InBackground \ Zombies)
  BY <1>0, <1>4 DEF BackNum, Counted
<1>6. BackNum \in Nat /\ (BackNum = 0 <=> InBackground \ Zombies = {})
  BY <1>4, <1>5, FS_CardinalityType, FS_EmptySet
<1>7. \A l \in InBackground \ Zombies : joins[l] = back_pgid /\ BackPgid = back_pgid
  BY <1>0, <1>6 DEF Counted, BackPgid
<1> QED
  BY <1>1, <1>4, <1>5, <1>6, <1>7

LEMMA CountedEnter ==
  ASSUME Inv, ~stray', NEW line \in Lines, Enter(line)
  PROVE  Counted' /\ InBackground' \subseteq (InBackground \ Zombies) \cup {Len(lines) + 1}
<1> PICK n \in Nat : n = Len(lines) + 1
  BY DEF Inv, Types
<1>0. /\ Types /\ ~stray /\ Counted /\ line.kind # "amp" /\ pc = "prompt" /\ pc' = "forked"
      /\ back_num' = IF line.kind = "bg" THEN BackNum + 1 ELSE BackNum
      /\ back_pgid' = BackPgid
  BY DEF Inv, Enter
<1>1. /\ n \in Numbers /\ n \notin Entered /\ Len(lines') = n /\ Entered' = Entered \cup {n}
      /\ lines'[n] = line /\ \A l \in Entered : lines'[l] = lines[l]
  BY <1>0, EnterIs
<1>2. /\ leader'[n] = "forked" /\ group'[n] = Main
      /\ joins'[n] = IF line.kind # "bg" \/ back_num' = 1 THEN n ELSE back_pgid'
      /\ \A l \in Entered : /\ leader'[l] = IF leader[l] = "zombie" THEN "reaped" ELSE leader[l]
                            /\ joins'[l] = joins[l] /\ group'[l] = group[l]
  BY <1>0, EnterFields
<1>3. /\ BackNum = Cardinality(InBackground \ Zombies) /\ BackNum \in Nat
      /\ IsFiniteSet(InBackground \ Zombies)
      /\ BackNum = 0 <=> InBackground \ Zombies = {}
      /\ \A l \in InBackground \ Zombies : joins[l] = back_pgid /\ BackPgid = back_pgid
  BY <1>0, CollectedCount
<1>4. /\ InBackground' = IF line.kind = "bg" THEN (InBackground \ Zombies) \cup {n}
                         ELSE InBackground \ Zombies
      /\ n \notin InBackground
  BY <1>1, <1>2 DEF InBackground, Zombies
<1>5. back_num' = Cardinality(InBackground')
  BY <1>0, <1>3, <1>4, FS_AddElement
<1>6. \A l \in Entered' : lines'[l].kind # "amp" /\ group'[l] \in {Main, joins'[l]}
  BY <1>0, <1>1, <1>2 DEF Counted
<1>7. ASSUME NEW l \in InBackground'
      PROVE  joins'[l] = IF l = n /\ back_num' = 1 THEN l ELSE back_pgid'
  <2>1. CASE l = n
    <3>1. line.kind = "bg"
      BY <1>4, <1>7, <2>1
    <3> QED
      BY <1>2, <2>1, <3>1
  <2>2. CASE l # n
    BY <1>0, <1>2, <1>3, <1>4, <1>7, <2>2 DEF InBackground
  <2> QED
    BY <2>1, <2>2
<1>8. ASSUME NEW l \in Entered', lines'[l].kind = "bg"
      PROVE  joins'[l] \in Entered' /\ lines'[joins'[l]].kind = "bg"
  <2>1. CASE l # n
    BY <1>0, <1>1, <1>2, <1>8, <2>1 DEF Counted
  <2>2. CASE l = n /\ back_num' = 1
    BY <1>1, <1>2, <1>8, <2>2
  <2>3. CASE l = n /\ back_num' # 1
    <3>1. line.kind = "bg" /\ BackNum # 0
      BY <1>0, <1>1, <1>3, <1>8, <2>3
    <3>2. PICK m \in InBackground : joins[m] = BackPgid
      BY <1>3, <3>1
    <3>3. joins'[n] \in Entered /\ lines[joins'[n]].kind = "bg"
      BY <1>0, <1>2, <2>3, <3>1, <3>2 DEF Counted, InBackground
    <3> QED
      BY <1>1, <2>3, <3>3
  <2> QED
    BY <2>1, <2>2, <2>3
<1>9. Counted'
  BY <1>0, <1>1, <1>5, <1>6, <1>7, <1>8 DEF Counted
<1> QED
  BY <1>4, <1>9

LEMMA CountedStep ==
  ASSUME Inv, [Next]_vars, ~stray'
  PROVE  Counted'
<1>1. CASE \E line \in Lines : Enter(line)
  BY <1>1, CountedEnter
<1>2. SUFFICES ASSUME \A line \in Lines : ~Enter(line) PROVE Counted'
  BY <1>1
<1>3. /\ lines' = lines /\ Entered' = Entered /\ Types /\ Len(lines) \in Nat
  BY <1>2, OtherTypes DEF Entered, Inv, Types
<1>4. ~stray
  BY <1>2, ShellRests DEF EnterNothing, Forked, Waited, history
<1>5. Counted /\ ForeReaped
  BY <1>4 DEF Inv
<1>6. CASE EnterNothing
  <2>1. /\ Zombies \subseteq InBackground
        /\ BackNum = Cardinality(InBackground \ Zombies)
        /\ \A l \in InBackground \ Zombies : joins[l] = back_pgid /\ BackPgid = back_pgid
    BY <1>4, <1>6, CollectedCount DEF EnterNothing
  <2>2. InBackground' = InBackground \ Zombies
    BY <1>3, <1>6, CollectedIs DEF EnterNothing, InBackground, Zombies
  <2>3. UNCHANGED <<pc, joins, group>> /\ pc = "prompt" /\ back_num' = BackNum /\ back_pgid' = BackPgid
    BY <1>6 DEF EnterNothing
  <2> QED
    BY <1>3, <1>5, <2>1, <2>2, <2>3 DEF Counted
<1>7. CASE Forked
  <2>1. /\ InBackground' = InBackground /\ UNCHANGED <<joins, group, back_num>>
        /\ Len(lines) \in Entered /\ leader[Len(lines)] # "reaped"
        /\ lines[Len(lines)].kind \in {"fg", "bg"}
    BY <1>3, <1>5, <1>7, LineIs DEF Forked, children, InBackground, ForeReaped, Counted
  <2>2. CASE lines[Len(lines)].kind = "fg"
    <3>1. pc' = "wait" /\ back_pgid' = back_pgid /\ Len(lines) \notin InBackground
      BY <1>7, <2>2 DEF Forked, InBackground
    <3> QED
      BY <1>3, <1>5, <2>1, <3>1 DEF Counted
  <2>3. CASE lines[Len(lines)].kind = "bg"
    <3>1. /\ pc = "forked" /\ pc' = "prompt" /\ Len(lines) \in InBackground
          /\ back_pgid' = IF back_num = 1 THEN Len(lines) ELSE back_pgid
      BY <1>7, <2>1, <2>3 DEF Forked, InBackground
    <3>2. back_num = 1 => \A l \in InBackground : l = Len(lines)
      <4>1. SUFFICES ASSUME back_num = 1 PROVE \A l \in InBackground : l = Len(lines)
        OBVIOUS
      <4>2. PICK x : InBackground = {x}
        BY <1>3, <1>5, <4>1, CountsFinite, FS_Singleton DEF Counted
      <4> QED
        BY <3>1, <4>2
    <3>3. \A l \in InBackground : joins[l] = back_pgid'
      BY <1>5, <3>1, <3>2 DEF Counted
    <3> QED
      BY <1>3, <1>5, <2>1, <3>1, <3>3 DEF Counted
  <2> QED
    BY <2>1, <2>2, <2>3
<1>8. CASE Waited
  <2>1. /\ lines[fore_pgid].kind = "fg" /\ \A l \in Entered : l # fore_pgid => leader'[l] = leader[l]
    BY <1>3, <1>5, <1>8 DEF Waited, ForeReaped, Types
  <2>2. InBackground' = InBackground
    BY <1>3, <2>1 DEF InBackground
  <2>3. /\ UNCHANGED <<joins, group, back_num, back_pgid>> /\ pc # "forked" /\ pc' # "forked"
    BY <1>8 DEF Waited
  <2> QED
    BY <1>3, <1>5, <2>2, <2>3 DEF Counted
<1>9. CASE ~EnterNothing /\ ~Forked /\ ~Waited
  <2>1. \A l \in Entered : leader'[l] = "reaped" <=> leader[l] = "reaped"
    BY <1>2, <1>9, Leading DEF LeaderLives
  <2>2. InBackground' = InBackground
    BY <1>3, <2>1 DEF InBackground
  <2>3. /\ UNCHANGED <<joins, back_num, back_pgid>> /\ (pc' = "forked" <=> pc = "forked")
    BY <1>2, <1>9, ShellRests
  <2>4. \A l \in Entered : group'[l] \in {group[l], joins[l]}
    BY <1>2, <1>3, <1>9, ShellRests DEF SetPgid, Types
  <2> QED
    BY <1>3, <1>5, <2>2, <2>3, <2>4 DEF Counted
<1> QED
  BY <1>6, <1>7, <1>8, <1>9

LEMMA GroupedStep ==
  ASSUME Inv, [Next]_vars, ~stray', ~hurried'
  PROVE  Grouped'
<1>0. Types /\ \A l \in Entered : l \in Numbers /\ l # Main
  BY LineIs DEF Inv, Numbers, Main
<1>1. ASSUME NEW line \in Lines, Enter(line) PROVE Grouped'
  <2> PICK n \in Nat : n = Len(lines) + 1
    BY <1>0 DEF Types
  <2>0. /\ ~stray /\ ~hurried /\ ~Hurry /\ Counted /\ Grouped /\ pc = "prompt"
        /\ back_num' = IF line.kind = "bg" THEN BackNum + 1 ELSE BackNum
        /\ back_pgid' = BackPgid
    BY <1>1 DEF Inv, Enter
  <2>1. /\ Entered' = Entered \cup {n} /\ n \notin Entered
        /\ lines'[n] = line /\ \A l \in Entered : lines'[l] = lines[l]
    BY <1>0, <1>1, EnterIs
  <2>2. /\ leader'[n] = "forked" /\ group'[n] = Main
        /\ joins'[n] = IF line.kind # "bg" \/ back_num' = 1 THEN n ELSE back_pgid'
        /\ \A l \in Entered : /\ leader'[l] = IF leader[l] = "zombie" THEN "reaped" ELSE leader[l]
                              /\ joins'[l] = joins[l] /\ group'[l] = group[l]
    BY <1>0, <1>1, EnterFields
  <2>3. \A l \in Entered : leader[l] # "forked"
    BY <2>0 DEF Hurry
  <2>4. ASSUME line.kind = "bg", joins'[n] # n
        PROVE  \E m \in InBackground' : group'[m] = joins'[n]
    <3>1. BackNum # 0 /\ joins'[n] = BackPgid
      BY <2>0, <2>2, <2>4
    <3>2. PICK m \in InBackground \ Zombies : joins[m] = BackPgid
      BY <1>1, <2>0, <3>1, CollectedCount
    <3>3. m \in Entered /\ lines[m].kind = "bg" /\ leader[m] \in {"launch", "wait"}
      BY <1>0, <2>3 DEF InBackground, Zombies, Types, Leaders
    <3>4. group[m] = BackPgid
      BY <2>0, <3>2, <3>3 DEF Grouped
    <3>5. m \in InBackground' /\ group'[m] = joins'[n]
      BY <2>1, <2>2, <3>1, <3>3, <3>4 DEF InBackground
    <3> QED
      BY <3>5
  <2>5. \A l \in Entered' : leader'[l] = "forked" => l = n
    BY <2>1, <2>2, <2>3
  <2>6. \A l \in Entered' : lines'[l].kind = "bg" /\ leader'[l] \in {"launch", "wait"} =>
                              group'[l] = joins'[l]
    BY <2>0, <2>1, <2>2 DEF Grouped
  <2> QED
    BY <2>1, <2>2, <2>4, <2>5, <2>6 DEF Grouped
<1>2. SUFFICES ASSUME \A line \in Lines : ~Enter(line) PROVE Grouped'
  BY <1>1
<1>3. lines' = lines /\ Entered' = Entered
  BY <1>2, OtherTypes DEF Entered
<1>4. ~stray /\ ~hurried /\ (EnterNothing => ~Hurry)
  <2>1. CASE EnterNothing
    <3>1. stray' = stray /\ hurried' = (hurried \/ Hurry)
      BY <2>1 DEF EnterNothing
    <3> QED
      BY <3>1
  <2>2. CASE ~EnterNothing
    <3>1. stray' = stray /\ hurried' = hurried
      BY <1>2, <2>2, ShellRests DEF Forked, Waited, history
    <3> QED
      BY <2>2, <3>1
  <2> QED
    BY <2>1, <2>2
<1>5. Counted /\ Grouped /\ ForeReaped
  BY <1>4 DEF Inv
<1>6. CASE EnterNothing
  <2>1. \A l \in Entered : leader[l] # "forked"
    BY <1>4, <1>6 DEF Hurry
  <2>2. /\ UNCHANGED <<joins, group>>
        /\ \A l \in Entered : leader'[l] = IF leader[l] = "zombie" THEN "reaped" ELSE leader[l]
    BY <1>0, <1>6, CollectedIs DEF EnterNothing
  <2> QED
    BY <1>3, <1>5, <2>1, <2>2 DEF Grouped
<1>7. SUFFICES ASSUME ~EnterNothing PROVE Grouped'
  BY <1>6
<1>8. joins' = joins
  BY <1>2, <1>7, ShellRests DEF Forked, Waited, children
<1>9. InBackground' = InBackground
  <2>1. CASE Waited
    <3>1. /\ lines[fore_pgid].kind = "fg" /\ \A l \in Entered : l # fore_pgid => leader'[l] = leader[l]
      BY <1>0, <1>5, <2>1 DEF Waited, ForeReaped, Types
    <3> QED
      BY <1>3, <3>1 DEF InBackground
  <2>2. CASE ~Waited
    <3>1. \A l \in Entered : leader'[l] = "reaped" <=> leader[l] = "reaped"
      BY <1>2, <1>7, <2>2, Leading DEF LeaderLives
    <3> QED
      BY <1>3, <3>1 DEF InBackground
  <2> QED
    BY <2>1, <2>2
<1>10. CASE group' = group
  <2>1. ASSUME NEW l \in Entered, SetPgid(l), lines[l].kind = "bg" PROVE group[l] = joins[l]
    <3>1. /\ leader[l] = "forked" /\ joins[l] \in Entered /\ joins[l] # -1
      BY <1>0, <1>5, <2>1 DEF SetPgid, Counted, Numbers
    <3>2. joins[l] = l \/ Exists(joins[l])
      BY <1>5, <2>1, <3>1 DEF Grouped, Exists, InBackground
    <3>3. group' = [group EXCEPT ![l] = joins[l]]
      BY <2>1, <3>1, <3>2 DEF SetPgid
    <3> QED
      BY <1>0, <1>10, <3>3 DEF Types
  <2>2. ASSUME NEW l \in Entered
        PROVE  /\ leader'[l] = "forked" => leader[l] = "forked"
               /\ leader'[l] \in {"launch", "wait"} =>
                    leader[l] \in {"launch", "wait"} \/ SetPgid(l)
    BY <1>2, Leading DEF LeaderLives
  <2> QED
    BY <1>3, <1>5, <1>8, <1>9, <1>10, <2>1, <2>2 DEF Grouped
<1>11. ASSUME NEW l \in Entered, SetPgid(l) PROVE Grouped'
  <2>1. /\ leader[l] = "forked" /\ group[l] = Main
        /\ leader' = [leader EXCEPT ![l] = "launch"] /\ leader'[l] = "launch"
        /\ \A m \in Entered : m # l => leader'[m] = leader[m] /\ group'[m] = group[m]
    BY <1>0, <1>5, <1>11 DEF SetPgid, Types, Grouped
  <2>2. lines[l].kind = "bg" => group'[l] = joins[l]
    <3>1. SUFFICES ASSUME lines[l].kind = "bg" PROVE group'[l] = joins[l]
      OBVIOUS
    <3>2. joins[l] \in Entered /\ joins[l] # -1
      BY <1>0, <1>5, <3>1 DEF Counted, Numbers
    <3>3. joins[l] = l \/ Exists(joins[l])
      BY <1>5, <2>1, <3>1 DEF Grouped, Exists, InBackground
    <3>4. group' = [group EXCEPT ![l] = joins[l]]
      BY <1>11, <3>2, <3>3 DEF SetPgid
    <3> QED
      BY <1>0, <3>4 DEF Types
  <2>3. ASSUME NEW m \in Entered, lines[m].kind = "bg", leader'[m] = "forked", joins[m] # m
        PROVE  \E i \in InBackground : group'[i] = joins[m]
    <3>1. leader[m] = "forked" /\ joins[m] # Main
      BY <1>0, <1>5, <2>1, <2>3 DEF Counted
    <3>2. PICK i \in InBackground : group[i] = joins[m]
      BY <1>5, <2>3, <3>1 DEF Grouped
    <3>3. i # l /\ i \in Entered
      BY <2>1, <3>1, <3>2 DEF InBackground
    <3> QED
      BY <2>1, <3>2, <3>3
  <2> QED
    BY <1>3, <1>5, <1>8, <1>9, <2>1, <2>2, <2>3 DEF Grouped
<1> QED
  BY <1>2, <1>7, <1>10, <1>11, ShellRests DEF Forked, Waited, children

LEMMA LeavingStep ==
  ASSUME Inv, [Next]_vars, ~stray'
  PROVE  Leaving'
<1>1. CASE \E line \in Lines : Enter(line)
  BY <1>1 DEF Enter, Leaving
<1>2. SUFFICES ASSUME \A line \in Lines : ~Enter(line) PROVE Leaving'
  BY <1>1
<1>3. CASE EnterNothing \/ Forked \/ Waited
  <2>1. pc' \in {"prompt", "wait"}
    BY <1>3 DEF EnterNothing, Forked, Waited
  <2> QED
    BY <2>1 DEF Leaving
<1>4. SUFFICES ASSUME ~EnterNothing, ~Forked, ~Waited PROVE Leaving'
  BY <1>3
<1>5. Entered' = Entered /\ lines' = lines /\ Types
  BY <1>2, OtherTypes DEF Entered, Inv
<1>6. ~stray
  BY <1>2, <1>4, ShellRests
<1>7. Counted /\ Leaving /\ ForeReaped
  BY <1>6 DEF Inv
<1>8. \A l \in Entered : LeaderLives(l)' => LeaderLives(l)
  BY <1>2, <1>4, Leading DEF LeaderLives
<1>9. CASE Exit
  <2>1. SUFFICES ASSUME NEW l \in Entered, LeaderLives(l)' PROVE group[l] = Main
    BY <1>5, <1>9 DEF Leaving, Exit
  <2>2. pc = "prompt" /\ LeaderLives(l) /\ leader[l] # "reaped"
    BY <1>8, <1>9, <2>1 DEF Exit, LeaderLives
  <2>3. l \in InBackground
    BY <1>5, <1>7, <2>2, LineIs DEF InBackground, ForeReaped, Counted
  <2>4. joins[l] = back_pgid /\ joins[l] \in Entered
    BY <1>7, <2>2, <2>3 DEF Counted, InBackground
  <2>5. back_pgid # -1
    BY <1>5, <2>4, LineIs
  <2>6. group[l] # back_pgid
    BY <1>5, <1>9, <2>1, <2>2, <2>5, KilledTypes DEF Exit, LeaderLives
  <2> QED
    BY <1>7, <2>4, <2>6 DEF Counted
<1>10. CASE Exited
  <2>1. SUFFICES ASSUME NEW l \in Entered, LeaderLives(l)' PROVE l \in late
    BY <1>5, <1>10 DEF Leaving, Exited, history
  <2>2. pc = "exit" /\ LeaderLives(l)
    BY <1>8, <1>10, <2>1 DEF Exited
  <2>3. group[l] # Main
    BY <1>5, <1>10, <2>1, <2>2, KilledTypes DEF Exited, LeaderLives
  <2> QED
    BY <1>7, <2>2, <2>3 DEF Leaving
<1>11. CASE pc' = pc
  <2>1. CASE group' = group /\ late' = late
    BY <1>5, <1>7, <1>8, <1>11, <2>1 DEF Leaving
  <2>2. ASSUME NEW m \in Entered, SetPgid(m) PROVE Leaving'
    <3>1. /\ late \subseteq late' /\ (pc = "exit" => m \in late')
          /\ \A l \in Entered : l # m => group'[l] = group[l]
      BY <1>5, <2>2 DEF SetPgid, Types
    <3>2. LeaderLives(m)
      BY <2>2 DEF SetPgid, LeaderLives
    <3> QED
      BY <1>5, <1>7, <1>8, <1>11, <3>1, <3>2 DEF Leaving
  <2> QED
    BY <1>2, <1>4, <2>1, <2>2, ShellRests
<1> QED
  BY <1>2, <1>4, <1>9, <1>10, <1>11, ShellRests

-----------------------------------------------------------------------------
(* The inductive invariant, and what follows from it.                      *)

LEMMA Initially ==
  ASSUME Init
  PROVE  Inv
<1>1. Entered = {} /\ Len(lines) = 0 /\ MaxLines \in Nat
  BY LinesAssumption DEF Init, Entered, LinesAssumption
<1>2. Types
  <2>1. lines \in Seq(Lines)
    BY DEF Init
  <2>2. \A S : <<>> \in [Entered -> S]
    BY <1>1
  <2>3. cmds = [l \in Entered |-> cmds[l]]
    BY <1>1 DEF Init
  <2>4. /\ leader \in [Entered -> Leaders]
        /\ at \in [Entered -> Nat] /\ waits \in [Entered -> Nat]
        /\ joins \in [Entered -> Numbers \cup {-1}]
        /\ group \in [Entered -> Numbers \cup {Main}]
    BY <2>2 DEF Init
  <2>5. late \subseteq Entered /\ Len(lines) <= MaxLines
    BY <1>1 DEF Init
  <2>6. /\ pc = "prompt" /\ fore_pgid = -1 /\ back_num = 0 /\ back_pgid = -1
        /\ stray \in BOOLEAN /\ hurried \in BOOLEAN
    BY DEF Init
  <2> QED
    BY <2>1, <2>3, <2>4, <2>5, <2>6 DEF Types
<1>3. ForeReaped
  BY <1>1 DEF Init, ForeReaped
<1>4. Counted
  <2>1. InBackground = {}
    BY <1>1 DEF InBackground
  <2> QED
    BY <1>1, <2>1, FS_EmptySet DEF Counted, Init
<1>5. Leaving /\ Grouped
  BY <1>1 DEF Leaving, Grouped
<1> QED
  BY <1>1, <1>2, <1>3, <1>4, <1>5 DEF Inv

LEMMA InvStep ==
  ASSUME Inv, [Next]_vars
  PROVE  Inv'
<1>1. Types'
  <2>1. CASE \E line \in Lines : Enter(line)
    BY <2>1, EnterTypes DEF Inv
  <2>2. CASE \A line \in Lines : ~Enter(line)
    BY <2>2, OtherTypes
  <2> QED
    BY <2>1, <2>2
<1> QED
  BY <1>1, LinesStep, OrderStep, ForeStep, CountedStep, LeavingStep, GroupedStep DEF Inv

(* In every state the lines, the counts and the groups agree.              *)
THEOREM Invariance == Spec => []Inv
<1>1. Init => Inv
  BY Initially
<1>2. Inv /\ [Next]_vars => Inv'
  BY InvStep
<1> QED
  BY <1>1, <1>2, PTL DEF Spec

LEMMA InOrder ==
  ASSUME Inv
  PROVE  TypeOK /\ ForegroundInOrder
<1>1. Types /\ ForeReaped /\ \A l \in Entered : Line(l) /\ Order(l)
  BY DEF Inv
<1>2. TypeOK
  BY <1>1 DEF TypeOK, Types, Line, Leaders, Commands
<1>3. ASSUME NEW l \in Entered
      PROVE  Running(l) \subseteq Unreaped(l) /\ IsFiniteSet(Unreaped(l))
  BY <1>1, UnreapedFinite DEF Running, Unreaped
<1>4. ASSUME NEW l \in Entered, pc = "prompt", lines[l].kind = "fg"
      PROVE  ~Alive(l)
  <2>1. leader[l] = "reaped"
    BY <1>1, <1>4 DEF ForeReaped
  <2> QED
    BY <1>1, <1>3, <2>1 DEF Alive, LeaderLives, Line
<1>5. ASSUME NEW l \in Entered
      PROVE  Cardinality(Running(l)) <= 1 + Beside(l, at[l] - 1)
  <2> PICK k \in Nat : k = at[l]
    BY <1>1 DEF Types
  <2>1. /\ k >= 1 /\ k - 1 \in Nat /\ Line(l) /\ leader[l] \in Leaders
        /\ Last(l) \in Nat /\ k \in 1..Last(l) + 1
    BY <1>1, LineIs DEF Line, Types
  <2>2. /\ Beside(l, k) \in Nat /\ Beside(l, k - 1) \in Nat
        /\ k = 1 => Beside(l, k) = 0
        /\ k > 1 => Beside(l, k) <= Beside(l, k - 1) + 1
    <3>1. PICK j \in Nat : j = k - 1
      BY <2>1
    <3>2. k = j + 1
      BY <3>1
    <3> QED
      BY <1>1, <3>1, <3>2, BesideIs
  <2>3. /\ Cardinality(Running(l)) \in Nat /\ Cardinality(Unreaped(l)) \in Nat
        /\ Cardinality(Running(l)) <= Cardinality(Unreaped(l))
        /\ Unreaped(l) = {} => Cardinality(Unreaped(l)) = 0
    BY <1>3, FS_Subset, FS_CardinalityType, FS_EmptySet
  <2>4. CASE leader[l] = "forked"
    <3>1. Unreaped(l) = {}
      BY <2>1, <2>4 DEF Line, Unreaped
    <3> QED
      BY <2>2, <2>3, <3>1
  <2>5. CASE leader[l] = "launch"
    <3>1. Cardinality(Unreaped(l)) <= Beside(l, k)
      BY <2>1, <2>5 DEF Line
    <3> QED
      BY <2>1, <2>2, <2>3, <3>1
  <2>6. CASE leader[l] = "wait"
    <3>1. Cardinality(Unreaped(l)) <= 1 + Beside(l, k - 1)
      BY <1>1, <2>1, <2>2, <2>3, <2>6 DEF Line, Waiting, Types
    <3> QED
      BY <2>2, <2>3, <3>1
  <2>7. CASE leader[l] \in {"zombie", "reaped"}
    <3>1. Unreaped(l) = {}
      BY <2>1, <2>7 DEF Line
    <3> QED
      BY <2>2, <2>3, <3>1
  <2> QED
    BY <2>1, <2>4, <2>5, <2>6, <2>7 DEF Leaders
<1>6. ASSUME NEW l \in Entered, NEW k \in 1..at[l] - 2, Sequential(l, k)
      PROVE  k \notin Running(l)
  BY <1>1, <1>3, <1>6 DEF Order
<1> QED
  BY <1>2, <1>4, <1>5, <1>6 DEF ForegroundInOrder

(* The prompt comes when the commands of the foreground lines have ended;  *)
(* a leader waits for a command before && when no &&& stands before it,    *)
(* and elsewhere runs no more commands at a time than one and one for each *)
(* &&& (part-e.c 155, 185-187, 197), for any lines.                        *)
THEOREM OrderKept == Spec => []Invariants
<1>1. Inv => Invariants
  BY InOrder DEF Invariants
<1> QED
  BY <1>1, Invariance, PTL

(* After exit only the leaders that changed groups between its two kills   *)
(* are left, for any number of lines (part-e.c 72-76).                     *)
THEOREM ExitLeavesNone == Spec => []ExitKillsAll
<1>1. ASSUME Inv PROVE ExitKillsAll
  <2>1. SUFFICES ASSUME pc = "gone", ~stray, NEW l \in Entered, Alive(l)
                 PROVE  l \in late
    BY DEF ExitKillsAll
  <2>2. Line(l) /\ Leaving /\ leader[l] \in Leaders
    BY <1>1, <2>1 DEF Inv, Types
  <2>3. Running(l) \subseteq Unreaped(l)
    BY DEF Running, Unreaped
  <2>4. LeaderLives(l)
    BY <2>1, <2>2, <2>3 DEF Alive, LeaderLives, Line, Leaders
  <2> QED
    BY <2>1, <2>2, <2>4 DEF Leaving
<1> QED
  BY <1>1, Invariance, PTL

(* ^C leaves the commands of the background lines alone, for any lines, as *)
(* long as nobody hurries or enters a single & (part-e.c 16-23).           *)
THEOREM BackgroundKept == Spec => BackgroundSurvives
<1> DEFINE Kept == Interrupt /\ ~hurried /\ ~stray =>
                     \A l \in Entered : lines[l].kind = "bg" => cmds'[l] = cmds[l]
<1>1. ASSUME Inv PROVE Kept
  <2>1. SUFFICES ASSUME Interrupt, ~hurried, ~stray, NEW l \in Entered, lines[l].kind = "bg"
                 PROVE  cmds'[l] = cmds[l]
    OBVIOUS
  <2>2. Types /\ Line(l) /\ ForeReaped /\ Counted /\ Grouped
    BY <1>1, <2>1 DEF Inv
  <2>3. joins[l] \in Entered /\ lines[joins[l]].kind = "bg" /\ group[l] \in {Main, joins[l]}
    BY <2>1, <2>2 DEF Counted
  <2>4. cmds[l] \in [1..Last(l) -> Commands]
    BY <2>2 DEF Line
  <2>5. group[l] # fore_pgid
    <3>1. CASE fore_pgid = -1
      BY <2>2, <3>1 DEF Types, Numbers, Main
    <3>2. CASE fore_pgid # -1
      <4>1. lines[fore_pgid].kind = "fg" /\ fore_pgid # Main
        BY <2>2, <3>2 DEF ForeReaped, Types, Numbers, Main
      <4> QED
        BY <2>3, <4>1
    <3> QED
      BY <3>1, <3>2
  <2>6. ASSUME group[l] = Main, NEW k \in 1..Last(l), cmds[l][k] = "runs"
        PROVE  FALSE
    <3>1. leader[l] \notin {"launch", "wait"}
      BY <2>1, <2>2, <2>3, <2>6, LineIs DEF Grouped, Main
    <3>2. leader[l] # "forked"
      BY <2>2, <2>6 DEF Line
    <3>3. k \in Unreaped(l)
      BY <2>6 DEF Unreaped
    <3> QED
      BY <2>2, <3>1, <3>2, <3>3 DEF Line, Types, Leaders
  <2>7. \A k \in 1..Last(l) : cmds'[l][k] = cmds[l][k]
    BY <2>1, <2>2, <2>4, <2>5, <2>6, InterruptIs
  <2>8. cmds'[l] \in [1..Last(l) -> Commands]
    BY <2>1, <2>2, <2>4, <2>5, InterruptIs
  <2>9. /\ cmds'[l] = [k \in 1..Last(l) |-> cmds'[l][k]]
        /\ cmds[l] = [k \in 1..Last(l) |-> cmds[l][k]]
    BY <2>4, <2>8
  <2>10. [k \in 1..Last(l) |-> cmds'[l][k]] = [k \in 1..Last(l) |-> cmds[l][k]]
    BY <2>7
  <2> QED
    BY <2>9, <2>10
<1>2. Inv /\ [Next]_vars => [Kept]_vars
  BY <1>1
<1> QED
  BY <1>2, Invariance, PTL DEF Spec, BackgroundSurvives
=============================================================================
