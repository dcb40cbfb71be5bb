-------------------------- MODULE MasterWorkerProofs --------------------------
(* master-worker.c produces and consumes every request once, for any       *)
(* command line and any sets of masters and workers.                       *)
EXTENDS MasterWorker, TLAPS

(* The slots that are in use, and the requests in them.                    *)
Used == 0..(curr_buf_size - 1)
Pending(i) == \E k \in Used : buffer[k] = i

(* The buffer holds requests that were produced, each once; a request that *)
(* was produced and is not in the buffer was consumed.                     *)
Accounts ==
  /\ \A k \in Used : buffer[k] \in 0..(item_to_produce - 1)
  /\ \A j, k \in Used : buffer[j] = buffer[k] => j = k
  /\ \A i \in Items :
       /\ produced[i] = IF i < item_to_produce THEN 1 ELSE 0
       /\ consumed[i] = IF i < item_to_produce /\ ~Pending(i) THEN 1 ELSE 0

(* A worker that has returned has left nothing to do.                      *)
AllDone ==
  (\E t \in Workers : pc[t] = "done") =>
    curr_buf_size = 0 /\ item_to_produce = total

Inv == TypeOK /\ Accounts /\ AllDone /\ NoLostWakeup

(* What the command line says. *)
LEMMA ArgsOK ==
  ASSUME args \in Args
  PROVE  /\ args.total \in Nat /\ args.size \in Nat /\ args.size # 0
         /\ args.workers \subseteq Workers /\ args.workers # {}
<1>1. args \in [total : Nat, size : Nat \ {0}, masters : (SUBSET Masters) \ {{}},
                workers : (SUBSET Workers) \ {{}}]
  BY MasterWorkerAssumption DEF MasterWorkerAssumption
<1>2. /\ args.total \in Nat /\ args.size \in Nat \ {0}
      /\ args.workers \in (SUBSET Workers) \ {{}}
  BY <1>1
<1> QED
  BY <1>2

LEMMA ArgsType ==
  ASSUME TypeOK
  PROVE  /\ args.total \in Nat /\ args.size \in Nat /\ args.size # 0
         /\ args.workers \subseteq Workers /\ args.workers # {}
         /\ total = args.total
         /\ item_to_produce \in Nat /\ item_to_produce <= total
         /\ curr_buf_size \in Nat /\ curr_buf_size <= args.size
<1>1. args \in Args
  BY DEF TypeOK
<1>2. args.total \in Nat /\ args.size \in Nat
  BY <1>1, ArgsOK
<1> QED
  BY <1>1, <1>2, ArgsOK DEF TypeOK, total

LEMMA InitInv == Init => Inv
<1> SUFFICES ASSUME Init PROVE Inv
  OBVIOUS
<1>1. args \in Args /\ args.total \in Nat /\ args.size \in Nat
  BY ArgsOK DEF Init
<1>2. TypeOK
  <2>1. buffer \in [Slots -> Items \cup {-1}]
    BY DEF Init
  <2>2. produced \in [Items -> Nat] /\ consumed \in [Items -> Nat]
    BY DEF Init
  <2>3. item_to_produce \in 0..args.total /\ curr_buf_size \in 0..args.size
    BY <1>1 DEF Init
  <2> QED
    BY <1>1, <2>1, <2>2, <2>3 DEF Init, TypeOK
<1>3. Accounts
  BY <1>1 DEF Init, Accounts, Used, Items
<1>4. AllDone /\ NoLostWakeup
  BY DEF Init, AllDone, NoLostWakeup, Threads
<1> QED
  BY <1>2, <1>3, <1>4 DEF Inv

-----------------------------------------------------------------------------
(* Steps that leave the buffer alone. *)

Data == <<args, item_to_produce, curr_buf_size, buffer, produced, consumed>>

LEMMA SameData ==
  ASSUME Inv, UNCHANGED Data
  PROVE  Accounts' /\ total' = total /\ Items' = Items /\ Slots' = Slots
  BY DEF Inv, Data, Accounts, Used, Pending, total, Items, Slots

(* Where a step leaves the threads. *)
LEMMA GoesTo ==
  ASSUME TypeOK, NEW t \in Threads, NEW p \in {"new", "loop", "wait", "done"}, NEW W,
         Goes(t, p, W)
  PROVE  /\ pc' \in [Threads -> {"new", "loop", "wait", "done"}]
         /\ pc'[t] = p
         /\ \A u \in Threads \ {t} :
              \/ pc'[u] = pc[u] /\ (u \in W => pc[u] # "wait")
              \/ pc'[u] = "loop" /\ u \in W
  BY DEF Goes, TypeOK

LEMMA MasterWaitsInv ==
  ASSUME Inv, NEW t \in Masters, MasterWaits(t)
  PROVE  Inv'
<1>1. /\ UNCHANGED Data /\ UNCHANGED freed /\ t \in Threads
      /\ Goes(t, "wait", {}) /\ curr_buf_size >= args.size
  BY DEF MasterWaits, Data, Threads, Full
<1>2. curr_buf_size = args.size
  BY <1>1, ArgsType DEF Inv
<1> QED
  BY <1>1, <1>2, SameData, GoesTo, MasterWorkerAssumption
     DEF Inv, TypeOK, Data, AllDone, NoLostWakeup, Threads, MasterWorkerAssumption

LEMMA MasterReturnsInv ==
  ASSUME Inv, NEW t \in Masters, MasterReturns(t)
  PROVE  Inv'
<1>1. /\ UNCHANGED Data /\ UNCHANGED freed /\ t \in Threads
      /\ Goes(t, "done", Masters)
  BY DEF MasterReturns, BroadcastP, Data, Threads
<1> QED
  BY <1>1, SameData, GoesTo, MasterWorkerAssumption
     DEF Inv, TypeOK, Data, AllDone, NoLostWakeup, Threads, MasterWorkerAssumption

LEMMA WorkerReturnsInv ==
  ASSUME Inv, NEW t \in Workers, WorkerReturns(t)
  PROVE  Inv'
<1>1. /\ UNCHANGED Data /\ UNCHANGED freed /\ t \in Threads
      /\ Goes(t, "done", Workers) /\ curr_buf_size = 0 /\ item_to_produce >= total
  BY DEF WorkerReturns, BroadcastC, Data, Threads
<1>2. item_to_produce = total
  BY <1>1, ArgsType DEF Inv
<1> QED
  BY <1>1, <1>2, SameData, GoesTo, MasterWorkerAssumption
     DEF Inv, TypeOK, Data, AllDone, NoLostWakeup, Threads, MasterWorkerAssumption

LEMMA WorkerWaitsInv ==
  ASSUME Inv, NEW t \in Workers, WorkerWaits(t)
  PROVE  Inv'
<1>1. /\ UNCHANGED Data /\ UNCHANGED freed /\ t \in Threads /\ t \notin Masters
      /\ Goes(t, "wait", {}) /\ curr_buf_size = 0 /\ item_to_produce < total
  BY MasterWorkerAssumption DEF WorkerWaits, Data, Threads, MasterWorkerAssumption
<1> QED
  BY <1>1, SameData, GoesTo, MasterWorkerAssumption
     DEF Inv, TypeOK, Data, AllDone, NoLostWakeup, Threads, MasterWorkerAssumption

(* A thread starts or returns from its wait. *)
LEMMA GoesOnInv ==
  ASSUME Inv, NEW t \in Threads, Goes(t, "loop", {}), UNCHANGED Data, UNCHANGED freed
  PROVE  Inv'
  BY SameData, GoesTo DEF Inv, TypeOK, Data, AllDone, NoLostWakeup, Threads

-----------------------------------------------------------------------------
(* Steps that change the buffer. *)

(* A master puts the next request behind the others. *)
LEMMA ProduceData ==
  ASSUME Inv, NEW t \in Masters, Produce(t)
  PROVE  /\ TypeOK' /\ Accounts' /\ total' = total
         /\ curr_buf_size < args.size /\ item_to_produce \in Items
<1>0. /\ UNCHANGED <<args, freed, consumed>> /\ t \in Threads
      /\ curr_buf_size < args.size /\ item_to_produce < total
      /\ buffer' = [buffer EXCEPT ![curr_buf_size] = item_to_produce]
      /\ curr_buf_size' = curr_buf_size + 1
      /\ item_to_produce' = item_to_produce + 1
      /\ produced' = [produced EXCEPT ![item_to_produce] = @ + 1]
      /\ Goes(t, "loop", Workers)
  BY ArgsType DEF Produce, Full, BroadcastC, Threads, Inv
<1>1. /\ Slots' = Slots /\ Items' = Items /\ total' = total
      /\ curr_buf_size \in Slots /\ item_to_produce \in Items
  BY <1>0, ArgsType DEF Inv, Slots, Items, total
<1>2. /\ buffer \in [Slots -> Items \cup {-1}]
      /\ produced \in [Items -> Nat] /\ consumed \in [Items -> Nat]
  BY DEF Inv, TypeOK
<1>3. TypeOK'
  <2>1. buffer' \in [Slots -> Items \cup {-1}] /\ produced' \in [Items -> Nat]
    BY <1>0, <1>1, <1>2
  <2>2. item_to_produce' \in 0..args.total /\ curr_buf_size' \in 0..args.size
    BY <1>0, ArgsType DEF Inv
  <2> QED
    BY <1>0, <1>1, <1>2, <2>1, <2>2, GoesTo DEF Inv, TypeOK
<1>4. /\ Used' = Used \cup {curr_buf_size} /\ curr_buf_size \notin Used
      /\ Used \subseteq Slots
  BY <1>0, ArgsType DEF Inv, Used, Slots
<1>5. /\ buffer'[curr_buf_size] = item_to_produce
      /\ \A k \in Used : buffer'[k] = buffer[k] /\ buffer[k] \in 0..(item_to_produce - 1)
  BY <1>0, <1>1, <1>2, <1>4 DEF Inv, Accounts
<1>6. \A k \in Used' : buffer'[k] \in 0..(item_to_produce' - 1)
  BY <1>0, <1>4, <1>5, ArgsType DEF Inv
<1>7. \A j, k \in Used' : buffer'[j] = buffer'[k] => j = k
  BY <1>4, <1>5, ArgsType DEF Inv, Accounts
<1>8. \A i \in Items : Pending(i)' <=> Pending(i) \/ i = item_to_produce
  BY <1>4, <1>5 DEF Pending
<1>9. ~Pending(item_to_produce)
  BY <1>5, ArgsType DEF Inv, Pending
<1>10. ASSUME NEW i \in Items
       PROVE  /\ produced'[i] = IF i < item_to_produce' THEN 1 ELSE 0
              /\ consumed'[i] = IF i < item_to_produce' /\ ~Pending(i)' THEN 1 ELSE 0
  <2>1. /\ produced[i] = IF i < item_to_produce THEN 1 ELSE 0
        /\ consumed[i] = IF i < item_to_produce /\ ~Pending(i) THEN 1 ELSE 0
        /\ i \in Nat /\ item_to_produce \in Nat /\ consumed' = consumed
    BY <1>0, ArgsType DEF Inv, Accounts, Items
  <2>2. CASE i = item_to_produce
    BY <1>0, <1>2, <1>8, <2>1, <2>2
  <2>3. CASE i # item_to_produce
    BY <1>0, <1>2, <1>8, <2>1, <2>3
  <2> QED
    BY <2>2, <2>3
<1> QED
  BY <1>0, <1>1, <1>3, <1>6, <1>7, <1>10 DEF Accounts

LEMMA ProduceInv ==
  ASSUME Inv, NEW t \in Masters, Produce(t)
  PROVE  Inv'
<1>1. /\ Goes(t, "loop", Workers) /\ t \in Threads /\ args' = args
      /\ item_to_produce < total
  BY DEF Produce, BroadcastC, Threads
<1>2. AllDone'
  BY <1>1, GoesTo, ArgsType, ProduceData, MasterWorkerAssumption
     DEF Inv, AllDone, Threads, MasterWorkerAssumption
<1>3. NoLostWakeup'
  BY <1>1, GoesTo, ArgsType, ProduceData, MasterWorkerAssumption
     DEF Inv, NoLostWakeup, Threads, MasterWorkerAssumption
<1> QED
  BY <1>2, <1>3, ProduceData DEF Inv

(* A worker takes the last request of the buffer. *)
LEMMA ConsumeData ==
  ASSUME Inv, NEW t \in Workers, Consume(t)
  PROVE  /\ TypeOK' /\ Accounts' /\ total' = total
         /\ \E i \in Items : /\ produced[i] = 1 /\ consumed[i] = 0
                             /\ consumed' = [consumed EXCEPT ![i] = 1]
<1> DEFINE last == curr_buf_size - 1
           item == buffer[last]
<1>0. /\ UNCHANGED <<args, item_to_produce, buffer, freed, produced>> /\ t \in Threads
      /\ curr_buf_size # 0 /\ curr_buf_size' = last
      /\ consumed' = [consumed EXCEPT ![item] = @ + 1]
      /\ Goes(t, "loop", Masters)
  BY DEF Consume, Newest, BroadcastP, Threads
<1>1. /\ Slots' = Slots /\ Items' = Items /\ total' = total
  BY <1>0, ArgsType DEF Inv, Slots, Items, total
<1>2. /\ last \in Used /\ Used' = Used \ {last} /\ last \in Nat
  BY <1>0, ArgsType DEF Inv, Used
<1>3. item \in 0..(item_to_produce - 1) /\ item \in Items /\ Pending(item)
  BY <1>2, ArgsType DEF Inv, Accounts, Items, Pending
<1>4. produced[item] = 1 /\ consumed[item] = 0
  BY <1>3, ArgsType DEF Inv, Accounts
<1>5. consumed \in [Items -> Nat] /\ produced \in [Items -> Nat]
  BY DEF Inv, TypeOK
<1>6. TypeOK'
  <2>1. consumed' \in [Items -> Nat]
    BY <1>0, <1>3, <1>5
  <2>2. curr_buf_size' \in 0..args.size
    BY <1>0, ArgsType DEF Inv
  <2> QED
    BY <1>0, <1>1, <2>1, <2>2, GoesTo DEF Inv, TypeOK
<1>7. \A i \in Items : Pending(i)' <=> Pending(i) /\ i # item
  BY <1>0, <1>2, <1>3 DEF Inv, Accounts, Pending
<1>8. ASSUME NEW i \in Items
      PROVE  consumed'[i] = IF i < item_to_produce /\ ~Pending(i)' THEN 1 ELSE 0
  <2>1. consumed[i] = IF i < item_to_produce /\ ~Pending(i) THEN 1 ELSE 0
    BY DEF Inv, Accounts
  <2>2. CASE i = item
    BY <1>0, <1>3, <1>4, <1>5, <1>7, <2>2, ArgsType DEF Inv
  <2>3. CASE i # item
    BY <1>0, <1>5, <1>7, <2>1, <2>3
  <2> QED
    BY <2>2, <2>3
<1>9. Accounts'
  BY <1>0, <1>1, <1>2, <1>8 DEF Inv, Accounts
<1>10. consumed' = [consumed EXCEPT ![item] = 1]
  BY <1>0, <1>3, <1>4, <1>5
<1> QED
  BY <1>1, <1>3, <1>4, <1>6, <1>9, <1>10

LEMMA ConsumeInv ==
  ASSUME Inv, NEW t \in Workers, Consume(t)
  PROVE  Inv'
<1>1. /\ Goes(t, "loop", Masters) /\ t \in Threads
      /\ UNCHANGED <<args, item_to_produce>> /\ curr_buf_size # 0
  BY DEF Consume, BroadcastP, Threads
<1>2. AllDone'
  BY <1>1, GoesTo, ConsumeData, MasterWorkerAssumption
     DEF Inv, AllDone, Threads, MasterWorkerAssumption
<1>3. NoLostWakeup'
  BY <1>1, GoesTo, ConsumeData, MasterWorkerAssumption
     DEF Inv, NoLostWakeup, Threads, MasterWorkerAssumption
<1> QED
  BY <1>2, <1>3, ConsumeData DEF Inv

(* Every request has been dealt with when all threads have returned.       *)
LEMMA JoinedIsServed ==
  ASSUME Inv, JoinAndFree
  PROVE  /\ \A i \in Items : produced[i] = 1 /\ consumed[i] = 1
         /\ Inv'
<1>1. /\ UNCHANGED Data /\ pc' = pc /\ freed' = TRUE
      /\ \A t \in args.workers : pc[t] = "done"
  BY DEF JoinAndFree, Data, Created
<1>2. curr_buf_size = 0 /\ item_to_produce = total
  BY <1>1, ArgsType DEF Inv, AllDone
<1>3. \A i \in Items : i < item_to_produce /\ ~Pending(i)
  BY <1>2, ArgsType DEF Inv, Items, Pending, Used
<1>4. \A i \in Items : produced[i] = 1 /\ consumed[i] = 1
  BY <1>3 DEF Inv, Accounts
<1>5. Inv'
  BY <1>1, SameData DEF Inv, TypeOK, Data, AllDone, NoLostWakeup
<1> QED
  BY <1>4, <1>5

-----------------------------------------------------------------------------
LEMMA NextInv == Inv /\ [Next]_vars => Inv'
<1> SUFFICES ASSUME Inv, [Next]_vars PROVE Inv'
  OBVIOUS
<1>1. CASE UNCHANGED vars
  BY <1>1, SameData DEF vars, Inv, TypeOK, Data, AllDone, NoLostWakeup
<1>2. CASE JoinAndFree
  BY <1>2, JoinedIsServed
<1>3. ASSUME NEW t \in Masters, generate_requests_loop(t) PROVE Inv'
  BY <1>3, MasterWaitsInv, MasterReturnsInv, ProduceInv DEF generate_requests_loop
<1>4. ASSUME NEW t \in Workers, consume_requests_loop(t) PROVE Inv'
  BY <1>4, WorkerReturnsInv, WorkerWaitsInv, ConsumeInv DEF consume_requests_loop
<1>5. ASSUME NEW t \in Threads, Create(t) PROVE Inv'
  BY <1>5, GoesOnInv DEF Create, Data
<1>6. ASSUME NEW t \in Threads, Spurious(t) PROVE Inv'
  BY <1>6, GoesOnInv DEF Spurious, Data
<1> QED
  BY <1>1, <1>2, <1>3, <1>4, <1>5, <1>6 DEF Next, Step

THEOREM Invariance == Spec => []Inv
  BY InitInv, NextInv, PTL DEF Spec

(* A thread is left waiting only as long as what it waits for has not      *)
(* happened, whoever else waits, returns or wakes up unsignalled; and no   *)
(* index is ever outside of the buffer, no count outside its range.        *)
THEOREM NobodyForgotten == Spec => []Invariants
<1>1. Inv => Invariants
  BY DEF Inv, Invariants
<1> QED
  BY <1>1, Invariance, PTL


-----------------------------------------------------------------------------
LEMMA StepRefines ==
  Inv /\ [Next]_vars => [R!Next]_<<total, produced, consumed, freed>>
<1> SUFFICES ASSUME Inv, [Next]_vars
             PROVE  [R!Next]_<<total, produced, consumed, freed>>
  OBVIOUS
<1>0. R!Items = Items
  BY DEF R!Items, Items, total
<1>1. CASE UNCHANGED <<args, produced, consumed, freed>>
  BY <1>1 DEF total
<1>2. CASE JoinAndFree
  BY <1>0, <1>2, JoinedIsServed DEF JoinAndFree, R!Finish, R!Next, total
<1>3. ASSUME NEW t \in Masters, Produce(t) PROVE R!Next
  <2>1. /\ item_to_produce \in Items /\ produced[item_to_produce] = 0
        /\ produced' = [produced EXCEPT ![item_to_produce] = 1]
    <3>1. item_to_produce \in Items /\ produced \in [Items -> Nat]
      BY <1>3, ProduceData DEF Inv, TypeOK
    <3>2. produced[item_to_produce] = 0
      BY <3>1, ArgsType DEF Inv, Accounts
    <3> QED
      BY <1>3, <3>1, <3>2 DEF Produce
  <2>2. R!Produce(item_to_produce)
    BY <1>3, <2>1 DEF Produce, R!Produce, total
  <2> QED
    BY <1>0, <2>1, <2>2 DEF R!Next
<1>4. ASSUME NEW t \in Workers, Consume(t) PROVE R!Next
  <2>1. PICK i \in Items : /\ produced[i] = 1 /\ consumed[i] = 0
                           /\ consumed' = [consumed EXCEPT ![i] = 1]
    BY <1>4, ConsumeData
  <2>2. R!Consume(i)
    BY <1>4, <2>1 DEF Consume, R!Consume, total
  <2> QED
    BY <1>0, <2>1, <2>2 DEF R!Next
<1>5. \/ UNCHANGED <<args, produced, consumed, freed>>
      \/ JoinAndFree
      \/ \E t \in Masters : Produce(t)
      \/ \E t \in Workers : Consume(t)
  BY DEF Next, vars, Step, generate_requests_loop, consume_requests_loop,
         MasterWaits, MasterReturns, WorkerReturns, WorkerWaits, Create, Spurious
<1> QED
  BY <1>1, <1>2, <1>3, <1>4, <1>5

(* master-worker.c keeps the promise of check.awk.                         *)
THEOREM Refines == Spec => Abstract
<1>1. Init => R!Init
  BY ArgsOK DEF Init, R!Init, R!Items, Items, total
<1> QED
  BY <1>1, StepRefines, Invariance, PTL DEF Spec, Abstract, R!Spec

=============================================================================
