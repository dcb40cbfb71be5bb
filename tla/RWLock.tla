------------------------------- MODULE RWLock -------------------------------
(***************************************************************************)
(* The two read-write locks of the pthread lab, rwlock-reader-pref.cpp and *)
(* rwlock-writer-pref.cpp, used by threads that read or write a number of  *)
(* times.  Both have a common mutex, lock, which the first reader takes and*)
(* the last one gives back, and an inner mutex for the counts: lock_r in   *)
(* the first file, lock_w in the second.                                   *)
(*                                                                         *)
(* A thread that holds the inner mutex keeps it only while it waits for    *)
(* lock; any other use of it is one action.  lock is a default mutex of    *)
(* glibc, which any thread can unlock.                                     *)
(***************************************************************************)
EXTENDS Integers, FiniteSets

CONSTANTS
  Readers, Writers,
  Nobody,
  Rounds      (* how often each thread takes the lock                       *)

ASSUME RWLockAssumption ==
  /\ IsFiniteSet(Readers) /\ IsFiniteSet(Writers)
  /\ Readers \cap Writers = {}
  /\ Nobody \notin Readers \cup Writers
  /\ Rounds \in Nat

Threads == Readers \cup Writers

VARIABLES
  is_reader_pref,  (* which of the two files is linked                      *)
  lock, inner,     (* who locked the mutexes                                *)
  num_readers, num_writers,
  pc,              (* where the thread is                                   *)
  left             (* the rounds it has still to begin                      *)

vars == <<is_reader_pref, lock, inner, num_readers, num_writers, pc, left>>

(* first: holds inner and waits for lock; cond: in pthread_cond_wait;      *)
(* waiting: a writer on its way to lock; leaving: a writer that has done   *)
(* with the count and still holds lock.                                    *)
ReaderPC == {"idle", "called", "cond", "first", "reading"}
WriterPC == {"idle", "called", "waiting", "writing", "leaving"}

TypeOK ==
  /\ is_reader_pref \in BOOLEAN
  /\ lock \in Threads \cup {Nobody}
  /\ inner \in Readers \cup {Nobody}
  /\ num_readers \in 0..Cardinality(Readers)
  /\ num_writers \in 0..Cardinality(Writers)
  /\ pc \in [Threads -> ReaderPC \cup WriterPC]
  /\ \A r \in Readers : pc[r] \in ReaderPC
  /\ \A w \in Writers : pc[w] \in WriterPC
  /\ left \in [Threads -> 0..Rounds]

(* InitalizeReadWriteLock *)
Init ==
  /\ is_reader_pref \in BOOLEAN
  /\ lock = Nobody
  /\ inner = Nobody
  /\ num_readers = 0
  /\ num_writers = 0
  /\ pc = [t \in Threads |-> "idle"]
  /\ left = [t \in Threads |-> Rounds]

Goto(t, p) == pc' = [pc EXCEPT ![t] = p]

(* The thread calls ReaderLock or WriterLock. *)
Call(t) ==
  /\ pc[t] = "idle" /\ left[t] > 0
  /\ left' = [left EXCEPT ![t] = @ - 1]
  /\ Goto(t, "called")
  /\ UNCHANGED <<is_reader_pref, lock, inner, num_readers, num_writers>>

-----------------------------------------------------------------------------
(* The tests of the code.  Mutants: a reader waits for several writers     *)
(* only; num_readers is tested after its increment; before its decrement.  *)
ManyWriters(n) == n > 1
AnyWriters(n) == n # 0
SecondReader(n) == n = 1
FirstReader(n) == n = 0
NoReaders(n) == n = 0
LastReader(n) == n = 1

(* The count without the thread that unlocks. *)
Uncounted(n) == n - 1

(* ReaderLock up to its return, or to a wait for cond_r or for lock. *)
MustYield == ~is_reader_pref /\ AnyWriters(num_writers)

ReaderWaits(r) ==
  /\ pc[r] = "called" /\ inner = Nobody
  /\ MustYield
  /\ Goto(r, "cond")
  /\ UNCHANGED <<is_reader_pref, lock, inner, num_readers, num_writers, left>>

ReaderFirst(r) ==
  /\ pc[r] = "called" /\ inner = Nobody
  /\ ~MustYield
  /\ FirstReader(num_readers)
  /\ inner' = r
  /\ Goto(r, "first")
  /\ UNCHANGED <<is_reader_pref, lock, num_readers, num_writers, left>>

ReaderJoins(r) ==
  /\ pc[r] = "called" /\ inner = Nobody
  /\ ~MustYield
  /\ ~FirstReader(num_readers)
  /\ num_readers' = num_readers + 1
  /\ Goto(r, "reading")
  /\ UNCHANGED <<is_reader_pref, lock, inner, num_writers, left>>

(* ReaderLock from its pthread_mutex_lock(lock). *)
ReaderLocks(r) ==
  /\ pc[r] = "first" /\ lock = Nobody
  /\ lock' = r
  /\ num_readers' = num_readers + 1
  /\ inner' = Nobody
  /\ Goto(r, "reading")
  /\ UNCHANGED <<is_reader_pref, num_writers, left>>

ReaderUnlock(r) ==
  /\ pc[r] = "reading" /\ inner = Nobody
  /\ num_readers' = Uncounted(num_readers)
  /\ lock' = IF LastReader(num_readers) THEN Nobody ELSE lock
  /\ Goto(r, "idle")
  /\ UNCHANGED <<is_reader_pref, inner, num_writers, left>>

(* pthread_cond_wait returns without a signal, as POSIX allows. *)
Spurious(r) ==
  /\ pc[r] = "cond"
  /\ Goto(r, "called")
  /\ UNCHANGED <<is_reader_pref, lock, inner, num_readers, num_writers, left>>

-----------------------------------------------------------------------------
(* WriterLock: the count of rwlock-writer-pref.cpp ... *)
WriterRegisters(w) ==
  /\ ~is_reader_pref
  /\ pc[w] = "called" /\ inner = Nobody
  /\ num_writers' = num_writers + 1
  /\ Goto(w, "waiting")
  /\ UNCHANGED <<is_reader_pref, lock, inner, num_readers, left>>

(* ... and the lock of both. *)
WriterLocks(w) ==
  /\ pc[w] = IF is_reader_pref THEN "called" ELSE "waiting"
  /\ lock = Nobody
  /\ lock' = w
  /\ Goto(w, "writing")
  /\ UNCHANGED <<is_reader_pref, inner, num_readers, num_writers, left>>

(* Whom the writer that leaves n others behind wakes.  Mutant: the count is*)
(* tested before its decrement.                                            *)
WokenEarly(n) == IF n + 1 = 0 THEN Readers ELSE {}
Woken(n) == IF n = 0 THEN Readers ELSE {}

(* WriterUnlock: the count ... *)
WriterLeaves(w) ==
  /\ ~is_reader_pref
  /\ pc[w] = "writing" /\ inner = Nobody
  /\ num_writers' = Uncounted(num_writers)
  /\ pc' = [t \in Threads |->
              IF t = w THEN "leaving"
              ELSE IF t \in Woken(num_writers - 1) /\ pc[t] = "cond" THEN "called"
              ELSE pc[t]]
  /\ UNCHANGED <<is_reader_pref, lock, inner, num_readers, left>>

(* ... and the lock. *)
WriterUnlocks(w) ==
  /\ pc[w] = IF is_reader_pref THEN "writing" ELSE "leaving"
  /\ lock' = Nobody
  /\ Goto(w, "idle")
  /\ UNCHANGED <<is_reader_pref, inner, num_readers, num_writers, left>>

-----------------------------------------------------------------------------
ReaderStep(r) == \/ Call(r) \/ ReaderWaits(r) \/ ReaderFirst(r)
                 \/ ReaderJoins(r) \/ ReaderLocks(r) \/ ReaderUnlock(r)

WriterStep(w) == \/ Call(w) \/ WriterRegisters(w) \/ WriterLocks(w)
                 \/ WriterLeaves(w) \/ WriterUnlocks(w)

Next == \/ \E r \in Readers : ReaderStep(r) \/ Spurious(r)
        \/ \E w \in Writers : WriterStep(w)

Spec == Init /\ [][Next]_vars

(* Every thread does what it can; nobody has to call again.  Each round is *)
(* finite, so this asks no fairness of the mutexes.                        *)
FairSpec == /\ Spec
            /\ \A r \in Readers : WF_vars(ReaderStep(r))
            /\ \A w \in Writers : WF_vars(WriterStep(w))

-----------------------------------------------------------------------------
(* Properties *)

(* Both files implement a read-write lock: a writer shares it with nobody, *)
(* as long as it has not given lock back, though the thread that gives lock*)
(* back for the readers need not be the one that took it.                  *)
reading == {r \in Readers : pc[r] = "reading"}
writing == {w \in Writers : pc[w] \in {"writing", "leaving"}}

RW == INSTANCE ReadersWriters
        WITH Threads <- Threads, reading <- reading, writing <- writing

Abstract == RW!Spec

(* rwlock-writer-pref.cpp: no reader comes in while a writer waits or      *)
(* writes, however long ago the reader saw that there was none.            *)
WriterPreference ==
  [][\A r \in Readers :
       ~is_reader_pref /\ pc[r] # "reading" /\ pc'[r] = "reading" =>
         \A w \in Writers : pc[w] \notin {"waiting", "writing"}]_vars

(* A reader is never held up because of another reader: the inner mutex is *)
(* kept only when nobody reads.  In rwlock-writer-pref.cpp a reader waits  *)
(* for cond_r only while there is a writer to wake it.                     *)
NoVainWait ==
  /\ inner # Nobody => reading = {}
  /\ \A r \in Readers : pc[r] = "cond" =>
       \E w \in Writers : pc[w] \in {"waiting", "writing"}

(* What holds in every state. *)
Invariants == TypeOK /\ NoVainWait

(* Every thread gets the lock as often as it calls for it, and gives it    *)
(* back.                                                                   *)
Terminates == <>\A t \in Threads : pc[t] = "idle" /\ left[t] = 0

=============================================================================
