------------------------------- MODULE Shell --------------------------------
(***************************************************************************)
(* The shell of part E of the shell lab (part-e.c): foreground lines of    *)
(* commands joined by && and &&&, background lines, the process groups it  *)
(* puts them in, ^C and exit.  Each line is run by a child of the shell,   *)
(* its leader, which runs the commands as children of its own.             *)
(*                                                                         *)
(* Lines are numbered as they are entered; the number of a line stands for *)
(* the pid of its leader and for the process group that has this pid.  The *)
(* words of a line, cd, and lines refused with a message are abstracted to *)
(* what they change: nothing but what every prompt does.  A command is a   *)
(* program that ends by itself or at a signal.  Pids are not reused and    *)
(* fork does not fail.                                                     *)
(***************************************************************************)
EXTENDS Integers, Sequences, FiniteSets

CONSTANTS
  Lines,      (* what the user may enter: how the line ends ("fg": no &,    *)
              (* "bg": a last &, "amp": nothing but &) and the operators    *)
              (* between its commands                                       *)
  MaxLines    (* lines the user enters, at most                             *)

ASSUME LinesAssumption ==
  /\ Lines \subseteq [kind : {"fg", "bg", "amp"}, ops : Seq({"&&", "&&&"})]
  /\ \A l \in Lines : l.kind # "fg" => l.ops = <<>>
  /\ MaxLines \in Nat

VARIABLES
  pc,         (* the shell: at the prompt, after a fork, in waitpid, past   *)
              (* the first kill of exit, gone                               *)
  fore_pgid, back_num, back_pgid,     (* -1 for none                        *)
  lines,      (* the lines entered                                          *)
  leader,     (* the leader of each line                                    *)
  at,         (* the command it launches next                               *)
  waits,      (* calls of wait it is in                                     *)
  joins,      (* the group it asks for: its own number, back_pgid, or -1    *)
  group,      (* the group it is in; Shell for the group of the shell       *)
  cmds,       (* the commands of each line                                  *)
  stray,      (* a line with nothing but & was entered                      *)
  hurried,    (* a line was entered before an earlier leader had changed    *)
              (* groups                                                     *)
  late        (* the leaders that changed groups in the middle of exit      *)

shell == <<pc, fore_pgid, back_num, back_pgid>>
children == <<leader, at, waits, joins, group, cmds>>
history == <<stray, hurried, late>>
vars == <<pc, fore_pgid, back_num, back_pgid, lines, leader, at, waits, joins,
          group, cmds, stray, hurried, late>>

Main == 0                          (* the group of the shell                *)
Numbers == 1..MaxLines
Entered == 1..Len(lines)
Last(l) == Len(lines[l].ops) + 1   (* the last command of line l            *)

TypeOK ==
  /\ pc \in {"prompt", "forked", "wait", "exit", "gone"}
  /\ fore_pgid \in Numbers \cup {-1}
  /\ back_num \in Int
  /\ back_pgid \in Numbers \cup {-1}
  /\ lines \in Seq(Lines) /\ Len(lines) <= MaxLines
  /\ DOMAIN leader = Entered /\ DOMAIN cmds = Entered
  /\ \A l \in Entered :
       /\ leader[l] \in {"forked", "launch", "wait", "zombie", "reaped"}
       /\ at[l] \in 1..Last(l) + 1
       /\ waits[l] \in 0..Last(l)
       /\ joins[l] \in Numbers \cup {-1}
       /\ group[l] \in Numbers \cup {Main}
       /\ cmds[l] \in [1..Last(l) -> {"none", "runs", "zombie", "reaped"}]
  /\ stray \in BOOLEAN /\ hurried \in BOOLEAN
  /\ late \subseteq Entered

Init ==
  /\ pc = "prompt"
  /\ fore_pgid = -1 /\ back_num = 0 /\ back_pgid = -1
  /\ lines = <<>>
  /\ leader = <<>> /\ at = <<>> /\ waits = <<>> /\ joins = <<>>
  /\ group = <<>> /\ cmds = <<>>
  /\ stray = FALSE /\ hurried = FALSE /\ late = {}

LeaderLives(l) == leader[l] \in {"forked", "launch", "wait"}
Running(l) == {k \in 1..Last(l) : cmds[l][k] = "runs"}
Alive(l) == LeaderLives(l) \/ Running(l) # {}

(* A group exists while a process in it has not been reaped. *)
Exists(g) == \E l \in Entered :
               /\ group[l] = g
               /\ \/ leader[l] # "reaped"
                  \/ \E k \in 1..Last(l) : cmds[l][k] \in {"runs", "zombie"}

(* A command that ends is left to its leader, or else to init. *)
Ended(l) == IF LeaderLives(l) THEN "zombie" ELSE "reaped"

(* kill(-g, SIGTERM); init takes over what the leaders leave. *)
KilledLeaders(g) == [l \in Entered |-> IF group[l] = g /\ LeaderLives(l)
                                       THEN "zombie" ELSE leader[l]]
KilledCmds(g) == [l \in Entered |->
                    IF group[l] # g THEN cmds[l]
                    ELSE [k \in 1..Last(l) |-> IF cmds[l][k] = "none"
                                               THEN "none" ELSE "reaped"]]
Killed(g) == leader' = KilledLeaders(g) /\ cmds' = KilledCmds(g)

-----------------------------------------------------------------------------
(* The prompt.  A line that is no exit first collects the children that    *)
(* have ended.                                                             *)

Zombies == {l \in Entered : leader[l] = "zombie"}
Collected == [l \in Entered |-> IF l \in Zombies THEN "reaped" ELSE leader[l]]
(* Mutant: the children that have ended are not counted out. *)
NotCounted == back_num
BackNum == back_num - Cardinality(Zombies)
Hurry == \E l \in Entered : leader[l] = "forked"
(* Mutant: one of them ends the background. *)
UnlessOneEnded == IF Zombies # {} THEN -1 ELSE back_pgid
BackPgid == IF BackNum = 0 THEN -1 ELSE back_pgid

(* An empty line, a cd, or a line that is refused. *)
EnterNothing ==
  /\ pc = "prompt"
  /\ leader' = Collected
  /\ back_num' = BackNum
  /\ back_pgid' = BackPgid
  /\ hurried' = (hurried \/ Hurry)
  /\ UNCHANGED <<pc, fore_pgid, lines, at, waits, joins, group, cmds, stray,
                 late>>

Enter(line) ==
  LET l == Len(lines) + 1
      n == IF line.kind = "bg" THEN BackNum + 1 ELSE BackNum
      g == IF line.kind # "bg" \/ n = 1 THEN l ELSE BackPgid
  IN
  /\ pc = "prompt" /\ Len(lines) < MaxLines
  /\ pc' = "forked"
  /\ back_num' = n
  /\ back_pgid' = BackPgid
  /\ lines' = Append(lines, line)
  /\ leader' = Append(Collected, "forked")
  /\ at' = Append(at, 1)
  /\ waits' = Append(waits, 0)
  /\ joins' = Append(joins, g)
  /\ group' = Append(group, Main)
  /\ cmds' = Append(cmds, [k \in 1..Len(line.ops) + 1 |-> "none"])
  /\ stray' = (stray \/ line.kind = "amp")
  /\ hurried' = (hurried \/ Hurry)
  /\ UNCHANGED <<fore_pgid, late>>

(* What the shell does after the fork: a foreground line is waited for, a  *)
(* background line, or a single &, may give the background its group.      *)
Forked ==
  LET l == Len(lines) IN
  /\ pc = "forked"
  /\ IF lines[l].kind = "fg"
     THEN pc' = "wait" /\ fore_pgid' = l /\ UNCHANGED back_pgid
     ELSE /\ pc' = "prompt"
          /\ back_pgid' = IF back_num = 1 THEN l ELSE back_pgid
          /\ UNCHANGED fore_pgid
  /\ UNCHANGED <<back_num, lines, children, history>>

Waited ==
  /\ pc = "wait" /\ leader[fore_pgid] = "zombie"
  /\ leader' = [leader EXCEPT ![fore_pgid] = "reaped"]
  /\ fore_pgid' = -1
  /\ pc' = "prompt"
  /\ UNCHANGED <<back_num, back_pgid, lines, at, waits, joins, group, cmds,
                 history>>

(* exit: the background group, then the group of the shell, itself         *)
(* included.                                                               *)
Exit ==
  /\ pc = "prompt"
  /\ pc' = "exit"
  /\ IF back_pgid # -1 THEN Killed(back_pgid) ELSE UNCHANGED <<leader, cmds>>
  /\ UNCHANGED <<fore_pgid, back_num, back_pgid, lines, at, waits, joins,
                 group, history>>

Exited ==
  /\ pc = "exit"
  /\ pc' = "gone"
  /\ Killed(Main)
  /\ UNCHANGED <<fore_pgid, back_num, back_pgid, lines, at, waits, joins,
                 group, history>>

(* ^C goes to the group of the shell.  The handler of the shell kills the  *)
(* foreground group, if there is one (no group has the number -1); leaders *)
(* that are still in the group of the shell have the same handler, with no *)
(* foreground group; commands in it die unless they have not reached       *)
(* execvp.                                                                 *)
Interrupt ==
  /\ pc # "gone"
  /\ leader' = KilledLeaders(fore_pgid)
  /\ \E S \in SUBSET UNION {{l} \X Running(l) :
                            l \in {m \in Entered : group[m] = Main}} :
       cmds' = [l \in Entered |->
                  [k \in 1..Last(l) |-> IF <<l, k>> \in S THEN Ended(l)
                                        ELSE KilledCmds(fore_pgid)[l][k]]]
  /\ UNCHANGED <<shell, lines, at, waits, joins, group, history>>

-----------------------------------------------------------------------------
(* The leader of a line. *)

SetPgid(l) ==
  LET g == joins[l]
      joined == g = l \/ (g # -1 /\ Exists(g))
  IN
  /\ leader[l] = "forked"
  /\ leader' = [leader EXCEPT ![l] = "launch"]
  /\ group' = IF joined THEN [group EXCEPT ![l] = g] ELSE group
  /\ late' = IF pc = "exit" THEN late \cup {l} ELSE late
  /\ UNCHANGED <<shell, lines, at, waits, joins, cmds, stray, hurried>>

(* Commands that run side by side are waited for when all have started.    *)
NumSubproc(l) == 1 + Cardinality({k \in 1..Len(lines[l].ops) :
                                    lines[l].ops[k] = "&&&"})

(* Mutant: && does not wait for its command. *)
WaitsAtEnd(op) == op = "end"
MustWait(op) == op # "&&&"

(* The leader forks the next command; it stays in the group of the leader, *)
(* since fore_pgid is -1 in the leader.                                    *)
Launch(l) ==
  LET k == at[l]
      op == IF k = Last(l) THEN "end" ELSE lines[l].ops[k]
  IN
  /\ leader[l] = "launch"
  /\ cmds' = [cmds EXCEPT ![l][k] = "runs"]
  /\ at' = [at EXCEPT ![l] = k + 1]
  /\ IF MustWait(op)
     THEN /\ leader' = [leader EXCEPT ![l] = "wait"]
          /\ waits' = [waits EXCEPT ![l] = IF op = "end" THEN NumSubproc(l)
                                           ELSE 1]
     ELSE UNCHANGED <<leader, waits>>
  /\ UNCHANGED <<shell, lines, joins, group, history>>

(* wait returns for any command that has ended, or if there is none left;  *)
(* after the last one the leader goes on with the line, or exits.          *)
Wait(l) ==
  LET ended == {k \in 1..Last(l) : cmds[l][k] = "zombie"} IN
  /\ leader[l] = "wait"
  /\ \/ \E k \in ended : cmds' = [cmds EXCEPT ![l][k] = "reaped"]
     \/ ended = {} /\ Running(l) = {} /\ UNCHANGED cmds
  /\ waits' = [waits EXCEPT ![l] = @ - 1]
  /\ leader' = [leader EXCEPT ![l] = IF waits[l] > 1 THEN "wait"
                                     ELSE IF at[l] <= Last(l) THEN "launch"
                                     ELSE "zombie"]
  /\ UNCHANGED <<shell, lines, at, joins, group, history>>

Ends(l, k) ==
  /\ k \in Running(l)
  /\ cmds' = [cmds EXCEPT ![l][k] = Ended(l)]
  /\ UNCHANGED <<shell, lines, leader, at, waits, joins, group, history>>

Next ==
  \/ EnterNothing \/ Forked \/ Waited \/ Exit \/ Exited \/ Interrupt
  \/ \E line \in Lines : Enter(line)
  \/ \E l \in Entered :
       \/ SetPgid(l) \/ Launch(l) \/ Wait(l)
       \/ \E k \in 1..Last(l) : Ends(l, k)

Spec == Init /\ [][Next]_vars

-----------------------------------------------------------------------------
(* Properties. *)

(* ^C ends no command of a background line (README.md, Part D), unless a   *)
(* line was entered before the leader of an earlier one had changed        *)
(* groups, or a single & was entered, after which the count of the         *)
(* background lines is wrong (part-e.c 86, 137-138, 199).                  *)
BackgroundSurvives ==
  [][Interrupt /\ ~hurried /\ ~stray =>
       \A l \in Entered : lines[l].kind = "bg" => cmds'[l] = cmds[l]]_vars

(* When the shell has exited nothing that it started runs (README.md, Part *)
(* C), unless its leader changed groups between the two kills, or a single *)
(* & was entered (part-e.c 72-76).                                         *)
ExitKillsAll ==
  pc = "gone" => \A l \in Entered : Alive(l) => l \in late \/ stray

(* The prompt comes when all commands of the foreground lines have ended   *)
(* (part-e.c 185-187, 197).  A command that && follows has ended when a    *)
(* later one of its line is launched, as the comment at part-e.c:155 says, *)
(* provided no &&& stands before it.  Where one does, the wait may return  *)
(* for another command: in a &&& b && c the command c may start beside b,  *)
(* against that comment, and all that holds is a bound on the number of    *)
(* commands that run: one, and one more for each &&& the leader has passed.*)
Sequential(l, k) == \A j \in 1..k : lines[l].ops[j] = "&&"
Beside(l, k) == Cardinality({j \in 1..k - 1 : lines[l].ops[j] = "&&&"})
ForegroundInOrder ==
  \A l \in Entered :
    /\ pc = "prompt" /\ lines[l].kind = "fg" => ~Alive(l)
    /\ \A k \in 1..at[l] - 2 : Sequential(l, k) => k \notin Running(l)
    /\ Cardinality(Running(l)) <= 1 + Beside(l, at[l] - 1)

(* What holds in every state. *)
Invariants == TypeOK /\ ForegroundInOrder
=============================================================================
