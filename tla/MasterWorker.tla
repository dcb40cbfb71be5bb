---------------------------- MODULE MasterWorker ----------------------------
(***************************************************************************)
(* The master-worker program of the pthread lab (master-worker.c): masters *)
(* put numbered requests into a bounded buffer, workers take them out, one *)
(* mutex protects everything, and main joins all threads and frees the     *)
(* buffer.                                                                 *)
(*                                                                         *)
(* A thread holds the mutex from the start of its loop's body to the end,  *)
(* or to a pthread_cond_wait, after which the body goes on as from its     *)
(* start: each pass is one action.  Spurious is the return from            *)
(* pthread_cond_wait that POSIX allows without a signal.                   *)
(***************************************************************************)
EXTENDS Integers, FiniteSets

CONSTANTS
  Masters, Workers,
  Args        (* the command lines: total_items, max_buf_size, and which of *)
              (* the threads num_masters and num_workers have created       *)

ASSUME MasterWorkerAssumption ==
  /\ Masters \cap Workers = {}
  /\ Args \subseteq [total : Nat, size : Nat \ {0},
                     masters : (SUBSET Masters) \ {{}}, workers : (SUBSET Workers) \ {{}}]

Threads == Masters \cup Workers

VARIABLES
  args,
  item_to_produce, curr_buf_size,
  buffer,     (* -1: never written                                          *)
  pc,         (* main has not created the thread, or it is about to lock the*)
              (* mutex, waits on cond_p or cond_c, or has returned          *)
  freed,      (* main has joined all threads and freed the buffer           *)
  produced,   (* history: how often each request was printed as produced ...*)
  consumed    (* ... and consumed                                           *)

vars == <<args, item_to_produce, curr_buf_size, buffer, pc, freed, produced,
          consumed>>

total == args.total
Items == 0..(args.total - 1)
Slots == 0..(args.size - 1)
Created == args.masters \cup args.workers

TypeOK ==
  /\ args \in Args
  /\ item_to_produce \in 0..args.total
  /\ curr_buf_size \in 0..args.size
  /\ buffer \in [Slots -> Items \cup {-1}]
  /\ pc \in [Threads -> {"new", "loop", "wait", "done"}]
  /\ freed \in BOOLEAN
  /\ produced \in [Items -> Nat]
  /\ consumed \in [Items -> Nat]

(* main before its pthread_create calls *)
Init ==
  /\ args \in Args
  /\ item_to_produce = 0
  /\ curr_buf_size = 0
  /\ buffer = [k \in Slots |-> -1]
  /\ pc = [t \in Threads |-> "new"]
  /\ freed = FALSE
  /\ produced = [i \in Items |-> 0]
  /\ consumed = [i \in Items |-> 0]

-----------------------------------------------------------------------------
(* pthread_cond_broadcast wakes the masters in cond_p, the workers in      *)
(* cond_c.  Mutants: nobody is woken; nobody is for the last request.      *)
NoBroadcast == {}
NotForTheLast == IF item_to_produce + 1 >= total THEN {} ELSE Workers
BroadcastP == Masters
BroadcastC == Workers

(* What the threads do next when t goes on to p and those of W that wait   *)
(* are woken.                                                              *)
Goes(t, p, W) ==
  pc' = [u \in Threads |-> IF u = t THEN p
                           ELSE IF u \in W /\ pc[u] = "wait" THEN "loop"
                           ELSE pc[u]]

(* The buffer is full. *)
Full(n) == n >= args.size

(* Where the next request is taken from.  Mutant: the oldest one. *)
Oldest(n) == 0
Newest(n) == n - 1

MasterWaits(t) ==
  /\ pc[t] = "loop"
  /\ Full(curr_buf_size)
  /\ Goes(t, "wait", {})
  /\ UNCHANGED <<args, item_to_produce, curr_buf_size, buffer, freed, produced,
                 consumed>>

MasterReturns(t) ==
  /\ pc[t] = "loop"
  /\ ~Full(curr_buf_size)
  /\ item_to_produce >= total
  /\ Goes(t, "done", BroadcastP)
  /\ UNCHANGED <<args, item_to_produce, curr_buf_size, buffer, freed, produced,
                 consumed>>

Produce(t) ==
  /\ pc[t] = "loop"
  /\ ~Full(curr_buf_size)
  /\ item_to_produce < total
  /\ buffer' = [buffer EXCEPT ![curr_buf_size] = item_to_produce]
  /\ curr_buf_size' = curr_buf_size + 1
  /\ produced' = [produced EXCEPT ![item_to_produce] = @ + 1]
  /\ item_to_produce' = item_to_produce + 1
  /\ Goes(t, "loop", BroadcastC)
  /\ UNCHANGED <<args, freed, consumed>>

generate_requests_loop(t) == MasterWaits(t) \/ MasterReturns(t) \/ Produce(t)

WorkerReturns(t) ==
  /\ pc[t] = "loop"
  /\ curr_buf_size = 0
  /\ item_to_produce >= total
  /\ Goes(t, "done", BroadcastC)
  /\ UNCHANGED <<args, item_to_produce, curr_buf_size, buffer, freed, produced,
                 consumed>>

WorkerWaits(t) ==
  /\ pc[t] = "loop"
  /\ curr_buf_size = 0
  /\ item_to_produce < total
  /\ Goes(t, "wait", {})
  /\ UNCHANGED <<args, item_to_produce, curr_buf_size, buffer, freed, produced,
                 consumed>>

Consume(t) ==
  /\ pc[t] = "loop"
  /\ curr_buf_size # 0
  /\ curr_buf_size' = curr_buf_size - 1
  /\ consumed' = [consumed EXCEPT ![buffer[Newest(curr_buf_size)]] = @ + 1]
  /\ Goes(t, "loop", BroadcastP)
  /\ UNCHANGED <<args, item_to_produce, buffer, freed, produced>>

consume_requests_loop(t) == WorkerReturns(t) \/ WorkerWaits(t) \/ Consume(t)

Spurious(t) ==
  /\ pc[t] = "wait"
  /\ Goes(t, "loop", {})
  /\ UNCHANGED <<args, item_to_produce, curr_buf_size, buffer, freed, produced,
                 consumed>>

(* main creates the masters before the workers. *)
Create(t) ==
  /\ t \in Created /\ pc[t] = "new"
  /\ t \in Workers => \A u \in args.masters : pc[u] # "new"
  /\ Goes(t, "loop", {})
  /\ UNCHANGED <<args, item_to_produce, curr_buf_size, buffer, freed, produced,
                 consumed>>

(* main has joined every thread and frees the buffer. *)
JoinAndFree ==
  /\ ~freed
  /\ \A t \in Created : pc[t] = "done"
  /\ freed' = TRUE
  /\ UNCHANGED <<args, item_to_produce, curr_buf_size, buffer, pc, produced,
                 consumed>>

Step(t) == \/ t \in Masters /\ generate_requests_loop(t)
           \/ t \in Workers /\ consume_requests_loop(t)

Next == \/ JoinAndFree
        \/ \E t \in Threads : Create(t) \/ Step(t) \/ Spurious(t)

Spec == Init /\ [][Next]_vars

(* A thread that can go on does so, and main does.  Waits that nobody      *)
(* signals need not return.                                                *)
FairSpec == /\ Spec
            /\ WF_vars(JoinAndFree)
            /\ \A t \in Threads : WF_vars(Step(t)) /\ WF_vars(Create(t))

-----------------------------------------------------------------------------
(* Properties *)

(* A thread is left waiting only as long as what it waits for has not      *)
(* happened: a master while the buffer is full, a worker while the buffer  *)
(* is empty and there is more to come.                                     *)
NoLostWakeup ==
  \A t \in Threads : pc[t] = "wait" =>
    IF t \in Masters THEN curr_buf_size = args.size
                     ELSE curr_buf_size = 0 /\ item_to_produce < total

(* What holds in every state. *)
Invariants == TypeOK /\ NoLostWakeup

(* master-worker.c does what check.awk asks for: every request is produced *)
(* once and consumed once, in this order, before main frees the buffer,    *)
(* although masters and workers return at times of their own choosing.     *)
R == INSTANCE Requests WITH total <- total, produced <- produced,
                            consumed <- consumed, freed <- freed

Abstract == R!Spec

(* All threads return and main ends, whoever waits for whom at the end.    *)
Terminates == <>freed

=============================================================================
