------------------------ MODULE SerialExecutorProofs -------------------------
(***************************************************************************)
(* For any number of client threads and any set of procedures: the counter *)
(* is exact and never wraps, the worker neither sleeps over work nor leaves*)
(* its loop early, and the executor implements the serial queue.           *)
(***************************************************************************)
EXTENDS SerialExecutor, DataLemmas

(* The mutex is held by whoever is in its scope, the worker submits only   *)
(* from a procedure, and what is being submitted is a procedure.           *)
LockInv ==
    /\ \A p \in Threads : spc[p] \in {"count", "unlock"} => lock = p
    /\ wpc \in {"subtract", "release"} => lock = Worker
    /\ spc[Worker] # "idle" => wpc = "running"
    /\ \A p \in Threads : spc[p] # "idle" => arg[p] \in Tasks
    /\ Poisoned => \A c \in Clients : spc[c] = "idle"

(* What each place of the worker says of its list and of the queue.        *)
WorkerInv ==
    /\ wpc \in {"invoke", "running"} => local # <<>>
    /\ wpc \in {"check", "asleep", "splice", "done"} => local = <<>>
    /\ wpc = "splice" => Poisoned \/ queue # <<>>
    /\ wpc \in {"subtract", "release"} =>
         queue = <<>> /\ (Poisoned \/ local # <<>>)
    /\ wpc = "done" => Poisoned /\ queue = <<>>
    /\ \A p \in Threads : spc[p] = "count" => queue # <<>>

(* Nothing is lost, repeated or reordered.                                 *)
HistoryInv == done \o (local \o queue) = pushed

IInv ==
    /\ TypeOK
    /\ LockInv
    /\ WorkerInv
    /\ Accounting
    /\ NoLostWakeup
    /\ HistoryInv

LEMMA InitIInv == Init => IInv
<1> SUFFICES ASSUME Init PROVE IInv
  OBVIOUS
<1> USE DEF Init
<1>1. TypeOK  BY DEF TypeOK
<1>2. LockInv  BY ThreadsAssumption DEF LockInv, Threads, Poisoned
<1>3. WorkerInv  BY DEF WorkerInv
<1>4. Accounting  BY EmptySeq DEF Accounting, Poisoned, PoisonPill, Taken, Uncounted
<1>5. NoLostWakeup  BY DEF NoLostWakeup
<1>6. HistoryInv
  <2>1. <<>> \in Seq(Tasks) /\ <<>> \o <<>> = <<>>
    BY ConcatEmptySeq
  <2> QED  BY <2>1 DEF HistoryInv
<1> QED  BY <1>1, <1>2, <1>3, <1>4, <1>5, <1>6 DEF IInv

(* Each action keeps the types.                                            *)
LEMMA TypeStep == TypeOK /\ LockInv /\ WorkerInv /\ [Next]_vars => TypeOK'
<1> SUFFICES ASSUME TypeOK, LockInv, WorkerInv, [Next]_vars PROVE TypeOK'
  OBVIOUS
<1> USE DEF TypeOK, submitVars
<1>1. ASSUME NEW p \in Threads, NEW t \in Tasks, NEW blocking \in BOOLEAN,
             Call(p, t, blocking)
      PROVE  TypeOK'
  BY <1>1 DEF Call
<1>2. ASSUME NEW p \in Threads, Push(p) PROVE TypeOK'
  <2>1. arg[p] \in Tasks  BY <1>2 DEF Push, LockInv
  <2>2. queue' \in Seq(Tasks) /\ pushed' \in Seq(Tasks)
    BY <2>1, <1>2, AppendProperties DEF Push
  <2> QED  BY <2>2, <1>2 DEF Push
<1>3. ASSUME NEW p \in Threads, Count(p) PROVE TypeOK'
  BY <1>3 DEF Count
<1>4. ASSUME NEW p \in Threads, Unlock(p) PROVE TypeOK'
  BY <1>4 DEF Unlock
<1>5. ASSUME NEW p \in Threads, Notify(p) PROVE TypeOK'
  BY <1>5 DEF Notify, Notified
<1>6. ASSUME NEW p \in Threads, Await(p) PROVE TypeOK'
  BY <1>6 DEF Await
<1>7. ASSUME Check PROVE TypeOK'
  BY <1>7 DEF Check
<1>8. ASSUME Splice PROVE TypeOK'
  BY <1>8 DEF Splice, Threads
<1>9. ASSUME Subtract PROVE TypeOK'
  BY <1>9, LenProperties DEF Subtract
<1>10. ASSUME Release PROVE TypeOK'
  BY <1>10 DEF Release
<1>11. ASSUME Invoke PROVE TypeOK'
  BY <1>11 DEF Invoke
<1>12. ASSUME Return PROVE TypeOK'
  <2>1. Head(local) \in Tasks /\ Tail(local) \in Seq(Tasks)
    BY <1>12, HeadThenTail DEF Return, WorkerInv
  <2>2. done' \in Seq(Tasks) /\ local' \in Seq(Tasks)
    BY <2>1, <1>12, AppendProperties DEF Return
  <2> QED  BY <2>2, <1>12 DEF Return
<1>13. ASSUME Destructor PROVE TypeOK'
  BY <1>13 DEF Destructor, Poison, NotifyPoison, Join, Notified
<1>14. CASE UNCHANGED vars
  BY <1>14 DEF vars
<1> QED
  BY <1>1, <1>2, <1>3, <1>4, <1>5, <1>6, <1>7, <1>8, <1>9, <1>10, <1>11,
     <1>12, <1>13, <1>14
  DEF Next, Submitter, WorkerLoop, Terminated

(* The mutex and the lifetime rule.                                        *)
LEMMA LockStep == TypeOK /\ LockInv /\ WorkerInv /\ [Next]_vars => LockInv'
<1> SUFFICES ASSUME TypeOK, LockInv, WorkerInv, [Next]_vars PROVE LockInv'
  OBVIOUS
<1>0. Worker \in Threads /\ Worker \notin Clients /\ None \notin Threads
  BY ThreadsAssumption DEF Threads
<1> USE DEF TypeOK, submitVars, LockInv, Poisoned, Threads
<1>1. ASSUME NEW p \in Threads, NEW t \in Tasks, NEW blocking \in BOOLEAN,
             Call(p, t, blocking)
      PROVE  LockInv'
  BY <1>1, <1>0 DEF Call
<1>2. ASSUME NEW p \in Threads, Push(p) PROVE LockInv'
  BY <1>2, <1>0 DEF Push
<1>3. ASSUME NEW p \in Threads, Count(p) PROVE LockInv'
  BY <1>3, <1>0 DEF Count
<1>4. ASSUME NEW p \in Threads, Unlock(p) PROVE LockInv'
  BY <1>4, <1>0 DEF Unlock
<1>5. ASSUME NEW p \in Threads, Notify(p) PROVE LockInv'
  BY <1>5, <1>0 DEF Notify, Notified
<1>6. ASSUME NEW p \in Threads, Await(p) PROVE LockInv'
  BY <1>6, <1>0 DEF Await
<1>7. ASSUME WorkerLoop PROVE LockInv'
  BY <1>7, <1>0
  DEF WorkerLoop, Check, Splice, Subtract, Release, Invoke, Return
<1>8. ASSUME Destructor PROVE LockInv'
  BY <1>8, <1>0 DEF Destructor, Poison, NotifyPoison, Join, Notified
<1>9. CASE UNCHANGED vars
  BY <1>9 DEF vars
<1> HIDE DEF TypeOK, submitVars, LockInv, Poisoned, Threads
<1> QED
  BY <1>1, <1>2, <1>3, <1>4, <1>5, <1>6, <1>7, <1>8, <1>9
  DEF Next, Submitter, Terminated

(* The worker's list and the queue: the loop passes its wait only for      *)
(* something to take or for the poison.                                    *)
LEMMA WorkerStep ==
    TypeOK /\ LockInv /\ WorkerInv /\ Accounting /\ [Next]_vars => WorkerInv'
<1> SUFFICES ASSUME TypeOK, LockInv, WorkerInv, Accounting, [Next]_vars
             PROVE  WorkerInv'
  OBVIOUS
<1>0. /\ Worker \in Threads /\ Worker \notin Clients /\ None \notin Threads
      /\ Len(queue) \in Nat /\ Len(local) \in Nat
      /\ queue = <<>> <=> Len(queue) = 0
      /\ Uncounted \in {0, 1}
  BY ThreadsAssumption, EmptyIffLenZero DEF Threads, TypeOK, Uncounted
<1> USE DEF TypeOK, submitVars, WorkerInv, Poisoned
<1>1. ASSUME NEW p \in Threads, NEW t \in Tasks, NEW blocking \in BOOLEAN,
             Call(p, t, blocking)
      PROVE  WorkerInv'
  BY <1>1 DEF Call
<1>2. ASSUME NEW p \in Threads, Push(p) PROVE WorkerInv'
  <2>1. arg[p] \in Tasks /\ wpc \notin {"subtract", "release"}
    BY <1>2, <1>0 DEF Push, LockInv
  <2>2. wpc # "done"
    BY <1>2, <1>0 DEF Push, LockInv, Threads
  <2>3. queue' # <<>>
    BY <1>2, <2>1, AppendProperties DEF Push
  <2> QED  BY <1>2, <2>1, <2>2, <2>3 DEF Push
<1>3. ASSUME NEW p \in Threads, Count(p) PROVE WorkerInv'
  BY <1>3 DEF Count
<1>4. ASSUME NEW p \in Threads, Unlock(p) PROVE WorkerInv'
  BY <1>4 DEF Unlock
<1>5. ASSUME NEW p \in Threads, Notify(p) PROVE WorkerInv'
  BY <1>5 DEF Notify, Notified
<1>6. ASSUME NEW p \in Threads, Await(p) PROVE WorkerInv'
  BY <1>6 DEF Await
<1>7. ASSUME Check PROVE WorkerInv'
  <2>1. qsize # 0 => Poisoned \/ queue # <<>>
    <3>1. Taken = 0 /\ (~Poisoned => PoisonPill = 0)
      BY <1>7 DEF Check, Taken, PoisonPill
    <3>2. Uncounted = 1 => queue # <<>>
      BY DEF Uncounted
    <3>3. ~Poisoned /\ queue = <<>> => qsize = 0
      BY <3>1, <3>2, <1>0 DEF Accounting
    <3> QED  BY <3>3
  <2> QED  BY <2>1, <1>7 DEF Check
<1>8. ASSUME Splice PROVE WorkerInv'
  <2>1. \A p \in Threads : spc[p] # "count"
    BY <1>8, <1>0 DEF Splice, LockInv
  <2> QED  BY <2>1, <1>8 DEF Splice
<1>9. ASSUME Subtract PROVE WorkerInv'
  BY <1>9 DEF Subtract
<1>10. ASSUME Release PROVE WorkerInv'
  BY <1>10 DEF Release
<1>11. ASSUME Invoke PROVE WorkerInv'
  BY <1>11 DEF Invoke
<1>12. ASSUME Return PROVE WorkerInv'
  <2>1. /\ Tail(local) \in Seq(Tasks)
        /\ Len(local) \in Nat \ {0}
        /\ Len(Tail(local)) = Len(local) - 1
    BY <1>12, HeadThenTail DEF Return
  <2>2. Tail(local) = <<>> <=> Len(Tail(local)) = 0
    <3>1. \A s \in Seq(Tasks) : s = <<>> <=> Len(s) = 0
      BY EmptyIffLenZero
    <3> QED  BY ONLY <2>1, <3>1
  <2>3. Tail(local) = <<>> <=> Len(local) = 1
    BY <2>1, <2>2
  <2> QED  BY <2>3, <1>12 DEF Return
<1>13. ASSUME Destructor PROVE WorkerInv'
  BY <1>13 DEF Destructor, Poison, NotifyPoison, Join, Notified
<1>14. CASE UNCHANGED vars
  BY <1>14 DEF vars
<1> HIDE DEF TypeOK, submitVars, WorkerInv, Poisoned
<1> QED
  BY <1>1, <1>2, <1>3, <1>4, <1>5, <1>6, <1>7, <1>8, <1>9, <1>10, <1>11,
     <1>12, <1>13, <1>14
  DEF Next, Submitter, WorkerLoop, Terminated

(* The counter.                                                            *)
LEMMA CountStep ==
    TypeOK /\ LockInv /\ WorkerInv /\ Accounting /\ [Next]_vars => Accounting'
<1> SUFFICES ASSUME TypeOK, LockInv, WorkerInv, Accounting, [Next]_vars
             PROVE  Accounting'
  OBVIOUS
<1>0. /\ Worker \in Threads /\ Worker \notin Clients /\ None \notin Threads
      /\ Len(queue) \in Nat /\ Len(local) \in Nat /\ Len(<<>>) = 0
      /\ qsize \in Int /\ PoisonPill \in Int /\ Uncounted \in {0, 1}
      /\ Taken \in Int
  <2>1. Len(queue) \in Nat /\ Len(local) \in Nat /\ Len(<<>>) = 0
    BY EmptySeq, LenProperties DEF TypeOK
  <2> QED
    BY <2>1, ThreadsAssumption
    DEF Threads, TypeOK, Uncounted, PoisonPill, Taken
<1> USE DEF TypeOK, submitVars, Accounting
<1>1. ASSUME NEW p \in Threads, NEW t \in Tasks, NEW blocking \in BOOLEAN,
             Call(p, t, blocking)
      PROVE  Accounting'
  <2>1. Uncounted' = Uncounted  BY <1>1 DEF Call, Uncounted
  <2>2. PoisonPill' = PoisonPill /\ Taken' = Taken
    BY <1>1 DEF Call, PoisonPill, Poisoned, Taken
  <2> QED  BY <1>1, <2>1, <2>2 DEF Call
<1>2. ASSUME NEW p \in Threads, Push(p) PROVE Accounting'
  <2>1. arg[p] \in Tasks /\ wpc # "subtract" /\ Uncounted = 0
    BY <1>2, <1>0 DEF Push, LockInv, Uncounted
  <2>2. Len(queue') = Len(queue) + 1
    BY <1>2, <2>1, AppendProperties DEF Push
  <2>3. Uncounted' = 1  BY <1>2 DEF Push, Uncounted
  <2>4. PoisonPill' = PoisonPill /\ Taken' = 0 /\ Taken = 0
    BY <1>2, <2>1 DEF Push, PoisonPill, Poisoned, Taken
  <2> QED  BY <1>0, <1>2, <2>1, <2>2, <2>3, <2>4 DEF Push
<1>3. ASSUME NEW p \in Threads, Count(p) PROVE Accounting'
  <2>1. Uncounted = 1 /\ Uncounted' = 0
    BY <1>3, <1>0 DEF Count, LockInv, Uncounted
  <2>2. PoisonPill' = PoisonPill /\ Taken' = Taken
    BY <1>3 DEF Count, PoisonPill, Poisoned, Taken
  <2> QED  BY <1>0, <1>3, <2>1, <2>2 DEF Count
<1>4. ASSUME NEW p \in Threads, Unlock(p) \/ Notify(p) \/ Await(p)
      PROVE Accounting'
  <2>1. Uncounted' = Uncounted /\ PoisonPill' = PoisonPill /\ Taken' = Taken
    BY <1>4
    DEF Unlock, Notify, Await, Notified, Uncounted, PoisonPill, Poisoned, Taken
  <2> QED  BY <1>4, <2>1 DEF Unlock, Notify, Await
<1>5. ASSUME WorkerLoop PROVE Accounting'
  <2>1. Uncounted' = Uncounted /\ PoisonPill' = PoisonPill
    BY <1>5
    DEF WorkerLoop, Check, Splice, Subtract, Release, Invoke, Return,
        Uncounted, PoisonPill, Poisoned
  <2>2. CASE Splice
    <3>1. Taken = 0 /\ Taken' = Len(queue) /\ Len(queue') = 0
      BY <1>0, <2>2 DEF Splice, Taken
    <3> QED  BY <1>0, <2>1, <2>2, <3>1 DEF Splice
  <2>3. CASE Subtract
    <3>1. Taken = Len(local) /\ Taken' = 0
      BY <2>3 DEF Subtract, Taken
    <3> QED  BY <1>0, <2>1, <2>3, <3>1 DEF Subtract
  <2>4. CASE Check \/ Release \/ Invoke \/ Return
    <3>1. Taken = 0 /\ Taken' = 0
      BY <2>4 DEF Check, Release, Invoke, Return, Taken
    <3> QED  BY <2>1, <2>4, <3>1 DEF Check, Release, Invoke, Return
  <2> QED  BY <1>5, <2>2, <2>3, <2>4 DEF WorkerLoop
<1>6. ASSUME Destructor PROVE Accounting'
  <2>1. Uncounted' = Uncounted /\ Taken' = Taken
    BY <1>6
    DEF Destructor, Poison, NotifyPoison, Join, Notified, Uncounted, Taken
  <2>2. CASE Poison
    <3>1. PoisonPill = 0 /\ PoisonPill' = 1
      BY <2>2 DEF Poison, PoisonPill, Poisoned
    <3> QED  BY <1>0, <2>1, <2>2, <3>1 DEF Poison
  <2>3. CASE NotifyPoison \/ Join
    <3>1. PoisonPill' = PoisonPill
      BY <2>3 DEF NotifyPoison, Join, PoisonPill, Poisoned
    <3> QED  BY <2>1, <2>3, <3>1 DEF NotifyPoison, Join
  <2> QED  BY <1>6, <2>2, <2>3 DEF Destructor
<1>7. CASE UNCHANGED vars
  BY <1>7 DEF vars, Uncounted, PoisonPill, Poisoned, Taken
<1> HIDE DEF TypeOK, submitVars, Accounting
<1> QED
  BY <1>1, <1>2, <1>3, <1>4, <1>5, <1>6, <1>7 DEF Next, Submitter, Terminated

(* No wakeup is lost: between a counter that became positive and a worker   *)
(* that sleeps there is always somebody on the way to notify_one().        *)
LEMMA WakeupStep ==
    TypeOK /\ NoLostWakeup /\ [Next]_vars => NoLostWakeup'
<1> SUFFICES ASSUME TypeOK, NoLostWakeup, [Next]_vars PROVE NoLostWakeup'
  OBVIOUS
<1> USE DEF TypeOK, submitVars, NoLostWakeup
<1>1. ASSUME NEW p \in Threads, NEW t \in Tasks, NEW blocking \in BOOLEAN,
             Call(p, t, blocking)
      PROVE  NoLostWakeup'
  BY <1>1 DEF Call
<1>2. ASSUME NEW p \in Threads, Push(p) PROVE NoLostWakeup'
  BY <1>2 DEF Push
<1>3. ASSUME NEW p \in Threads, Count(p) PROVE NoLostWakeup'
  BY <1>3 DEF Count
<1>4. ASSUME NEW p \in Threads, Unlock(p) PROVE NoLostWakeup'
  BY <1>4 DEF Unlock
<1>5. ASSUME NEW p \in Threads, Notify(p) PROVE NoLostWakeup'
  BY <1>5 DEF Notify, Notified
<1>6. ASSUME NEW p \in Threads, Await(p) PROVE NoLostWakeup'
  BY <1>6 DEF Await
<1>7. ASSUME WorkerLoop PROVE NoLostWakeup'
  BY <1>7 DEF WorkerLoop, Check, Splice, Subtract, Release, Invoke, Return
<1>8. ASSUME Destructor PROVE NoLostWakeup'
  BY <1>8 DEF Destructor, Poison, NotifyPoison, Join, Notified
<1>9. CASE UNCHANGED vars
  BY <1>9 DEF vars
<1> HIDE DEF TypeOK, submitVars, NoLostWakeup
<1> QED
  BY <1>1, <1>2, <1>3, <1>4, <1>5, <1>6, <1>7, <1>8, <1>9
  DEF Next, Submitter, Terminated

(* Only Push, Splice and Return move procedures.                           *)
LEMMA HistoryStep ==
    TypeOK /\ LockInv /\ WorkerInv /\ HistoryInv /\ [Next]_vars => HistoryInv'
<1> SUFFICES ASSUME TypeOK, LockInv, WorkerInv, HistoryInv, [Next]_vars
             PROVE  HistoryInv'
  OBVIOUS
<1>0. /\ queue \in Seq(Tasks) /\ local \in Seq(Tasks) /\ done \in Seq(Tasks)
      /\ local \o queue \in Seq(Tasks)
  BY ConcatProperties DEF TypeOK
<1>1. ASSUME NEW p \in Threads, Push(p) PROVE HistoryInv'
  <2>1. arg[p] \in Tasks  BY <1>1 DEF Push, LockInv
  <2>2. local \o Append(queue, arg[p]) = Append(local \o queue, arg[p])
    BY <1>0, <2>1, AppendToConcat
  <2>3. done \o Append(local \o queue, arg[p])
          = Append(done \o (local \o queue), arg[p])
    BY <1>0, <2>1, AppendToConcat
  <2> QED  BY <1>1, <2>2, <2>3 DEF Push, HistoryInv
<1>2. ASSUME Splice PROVE HistoryInv'
  <2>1. local = <<>> /\ local' = queue /\ queue' = <<>>
    BY <1>2 DEF Splice, WorkerInv
  <2>2. <<>> \o queue = queue /\ queue \o <<>> = queue
    BY <1>0, ConcatEmptySeq
  <2> QED  BY <1>2, <2>1, <2>2 DEF Splice, HistoryInv
<1>3. ASSUME Return PROVE HistoryInv'
  <2>1. /\ local # <<>>
        /\ done' = Append(done, Head(local))
        /\ local' = Tail(local)
        /\ queue' = queue /\ pushed' = pushed
    BY <1>3 DEF Return, WorkerInv
  <2>2. Append(done, Head(local)) \o (Tail(local) \o queue)
          = done \o (local \o queue)
    BY <1>0, <2>1, MoveHeadBefore, SMTT(30)
  <2> QED  BY <2>1, <2>2 DEF HistoryInv
<1>4. CASE UNCHANGED <<queue, local, done, pushed>>
  BY <1>4 DEF HistoryInv
<1>5. \/ \E p \in Threads : Push(p)
      \/ Splice
      \/ Return
      \/ UNCHANGED <<queue, local, done, pushed>>
  BY DEF Next, vars, Call, Submitter, Count, Unlock, Notify, Await, WorkerLoop,
     Check, Subtract, Release, Invoke, Destructor, Poison, NotifyPoison, Join,
     Terminated
<1> QED  BY <1>1, <1>2, <1>3, <1>4, <1>5

LEMMA NextIInv == IInv /\ [Next]_vars => IInv'
BY TypeStep, LockStep, WorkerStep, CountStep, WakeupStep, HistoryStep DEF IInv

(* The inductive invariant holds in every reachable state.                 *)
THEOREM Invariance == Spec => []IInv
<1>1. Init => IInv  BY InitIInv
<1>2. IInv /\ [Next]_vars => IInv'  BY NextIInv
<1> QED  BY <1>1, <1>2, PTL DEF Spec

(* fetch_add and fetch_sub keep m_queueSize exact and never take it below   *)
(* zero, whatever the threads do.                                          *)
THEOREM ExactCounter == Spec => [](Accounting /\ NoUnderflow)
<1>1. IInv => Accounting /\ NoUnderflow
  <2> SUFFICES ASSUME IInv PROVE NoUnderflow
    BY DEF IInv
  <2>0. TypeOK /\ LockInv /\ WorkerInv /\ Accounting
    BY DEF IInv
  <2>1. /\ Len(queue) \in Nat /\ Len(local) \in Nat
        /\ queue # <<>> => Len(queue) >= 1
    <3>1. \A s \in Seq(Tasks) : Len(s) \in Nat /\ (s = <<>> <=> Len(s) = 0)
      BY EmptyIffLenZero
    <3>2. queue \in Seq(Tasks) /\ local \in Seq(Tasks)
      BY <2>0 DEF TypeOK
    <3>3. /\ Len(queue) \in Nat /\ Len(local) \in Nat
          /\ queue # <<>> => Len(queue) # 0
      BY ONLY <3>1, <3>2
    <3> QED  BY ONLY <3>3
  <2>2. PoisonPill \in {0, 1} /\ Uncounted \in {0, 1}
    BY DEF PoisonPill, Uncounted
  <2>3. Uncounted = 1 => queue # <<>>
    BY <2>0 DEF Uncounted, WorkerInv
  <2>4. CASE wpc = "subtract"
    <3>1. Uncounted = 0 /\ Taken = Len(local)
      BY <2>0, <2>4, ThreadsAssumption
      DEF LockInv, Uncounted, Taken, Threads
    <3> QED  BY <2>0, <2>1, <2>2, <2>4, <3>1 DEF Accounting, NoUnderflow
  <2>5. CASE wpc # "subtract"
    <3>1. Taken = 0  BY <2>5 DEF Taken
    <3> QED  BY <2>0, <2>1, <2>2, <2>3, <2>5, <3>1 DEF Accounting, NoUnderflow
  <2> QED  BY <2>4, <2>5
<1> QED  BY <1>1, Invariance, PTL

(* The worker never sleeps over work nobody is about to announce.          *)
THEOREM NoWakeupLost == Spec => []NoLostWakeup
<1>1. IInv => NoLostWakeup  BY DEF IInv
<1> QED  BY <1>1, Invariance, PTL

(* The worker leaves its loop only when poisoned and with every accepted   *)
(* procedure run, those submitted by procedures included.                  *)
THEOREM DrainsBeforeExit == Spec => []ExitsDrained
<1>1. IInv => ExitsDrained
  <2> SUFFICES ASSUME IInv, wpc = "done"
               PROVE  Poisoned /\ queue = <<>> /\ done = pushed
    BY DEF ExitsDrained
  <2>1. Poisoned /\ queue = <<>> /\ local = <<>>
    BY DEF IInv, WorkerInv
  <2>2. <<>> \in Seq(Tasks) /\ done \in Seq(Tasks)
    BY DEF IInv, TypeOK
  <2>3. <<>> \o <<>> = <<>> /\ done \o <<>> = done
    BY <2>2, ConcatEmptySeq
  <2> QED  BY <2>1, <2>3 DEF IInv, HistoryInv
<1> QED  BY <1>1, Invariance, PTL

-----------------------------------------------------------------------------
(* Refinement.  Push is Submit, Invoke is Start, Return is Finish, Poison   *)
(* is Close and a Release of an empty list is Stop; every other step moves  *)
(* nothing the queue's users can see.                                      *)

LEMMA PushSubmits ==
    ASSUME IInv, NEW p \in Threads, Push(p)
    PROVE  \E t \in Tasks : Abstract!Submit(t)
<1>0. TypeOK /\ LockInv /\ WorkerInv  BY DEF IInv
<1>1. arg[p] \in Tasks  BY <1>0 DEF Push, LockInv
<1>2. wpc # "done" /\ (Poisoned => wpc = "running")
  BY <1>0 DEF Push, LockInv, WorkerInv, Threads
<1>3. wpc = "running" => Head(local) \in Tasks /\ Tail(local) \in Seq(Tasks)
  BY <1>0, HeadThenTail DEF WorkerInv, TypeOK
<1>4. ~Stopped /\ Stopped' = Stopped /\ Poisoned' = Poisoned
  BY <1>2 DEF Stopped, Poisoned, Push
<1>5. Poisoned => Current # None
  BY <1>2, <1>3, ThreadsAssumption DEF Current
<1>6. Current' = Current  BY DEF Current, Push
<1>7. Waiting' = Append(Waiting, arg[p])
  <2> DEFINE l == IF wpc = "running" THEN Tail(local) ELSE local
  <2>1. l \in Seq(Tasks) /\ queue \in Seq(Tasks)
    BY <1>0, <1>3 DEF TypeOK
  <2>2. Waiting = l \o queue /\ Waiting' = l \o Append(queue, arg[p])
    BY DEF Waiting, Push
  <2> HIDE DEF l
  <2> QED  BY <1>1, <2>1, <2>2, AppendToConcat
<1> QED  BY <1>1, <1>4, <1>5, <1>6, <1>7 DEF Abstract!Submit

LEMMA InvokeStarts == ASSUME IInv, Invoke PROVE Abstract!Start
<1>0. /\ local \in Seq(Tasks) /\ queue \in Seq(Tasks) /\ local # <<>>
      /\ wpc = "invoke" /\ wpc' = "running"
      /\ UNCHANGED <<queue, local, dpc>>
  BY DEF IInv, TypeOK, WorkerInv, Invoke
<1>1. /\ Current = None /\ Waiting = local \o queue
      /\ Current' = Head(local) /\ Waiting' = Tail(local) \o queue
  BY <1>0 DEF Current, Waiting
<1>2. /\ local \o queue # <<>>
      /\ Head(local \o queue) = Head(local)
      /\ Tail(local \o queue) = Tail(local) \o queue
  BY <1>0, HeadTailOfConcat
<1>3. Poisoned' = Poisoned /\ Stopped' = Stopped
  BY <1>0 DEF Poisoned, Stopped
<1> QED  BY <1>0, <1>1, <1>2, <1>3 DEF Abstract!Start

LEMMA ReturnFinishes == ASSUME IInv, Return PROVE Abstract!Finish
<1>0. /\ local \in Seq(Tasks) /\ local # <<>> /\ wpc = "running"
      /\ wpc' \in {"check", "invoke"}
      /\ local' = Tail(local)
      /\ UNCHANGED <<queue, dpc>>
  BY DEF IInv, TypeOK, WorkerInv, Return
<1>1. Head(local) \in Tasks  BY <1>0, HeadThenTail
<1>2. /\ Current = Head(local) /\ Current # None /\ Current' = None
      /\ Waiting' = Waiting
  BY <1>0, <1>1, ThreadsAssumption DEF Current, Waiting
<1>3. Poisoned' = Poisoned /\ Stopped' = Stopped
  BY <1>0 DEF Poisoned, Stopped
<1> QED  BY <1>0, <1>2, <1>3 DEF Abstract!Finish

LEMMA ReleaseStops ==
    ASSUME IInv, Release
    PROVE  Abstract!Stop \/ UNCHANGED Abstract!vars
<1>0. /\ wpc = "release" /\ queue = <<>> /\ (Poisoned \/ local # <<>>)
      /\ wpc' = IF local = <<>> THEN "done" ELSE "invoke"
      /\ UNCHANGED <<queue, local, dpc>>
  BY DEF IInv, WorkerInv, Release
<1>1. /\ Current = None /\ Current' = None /\ Waiting' = Waiting
      /\ Poisoned' = Poisoned /\ ~Stopped
  BY <1>0 DEF Current, Waiting, Poisoned, Stopped
<1>2. CASE local = <<>>
  <2>1. Waiting = <<>>
    <3>1. <<>> \in Seq(Tasks)  OBVIOUS
    <3> QED  BY <1>0, <1>2, <3>1, ConcatEmptySeq DEF Waiting
  <2>2. Stopped'  BY <1>0, <1>2 DEF Stopped
  <2> QED  BY <1>0, <1>1, <1>2, <2>1, <2>2 DEF Abstract!Stop
<1>3. CASE local # <<>>
  <2>1. Stopped' = Stopped  BY <1>0, <1>3 DEF Stopped
  <2> QED  BY <1>0, <1>1, <2>1 DEF Abstract!vars
<1> QED  BY <1>2, <1>3

LEMMA SpliceStutters == ASSUME IInv, Splice PROVE UNCHANGED Abstract!vars
<1>0. /\ queue \in Seq(Tasks) /\ local = <<>> /\ wpc = "splice"
      /\ wpc' = "subtract" /\ local' = queue /\ queue' = <<>>
      /\ UNCHANGED dpc
  BY DEF IInv, TypeOK, WorkerInv, Splice
<1>1. <<>> \o queue = queue /\ queue \o <<>> = queue
  BY <1>0, ConcatEmptySeq
<1>2. Waiting = queue /\ Waiting' = queue
  BY <1>0, <1>1 DEF Waiting
<1>3. Current' = Current /\ Poisoned' = Poisoned /\ Stopped' = Stopped
  BY <1>0 DEF Current, Poisoned, Stopped
<1> QED  BY <1>0, <1>2, <1>3 DEF Abstract!vars

LEMMA OthersStutter ==
    ASSUME IInv,
           \/ \E p \in Threads :
                \/ \E t \in Tasks, b \in BOOLEAN : Call(p, t, b)
                \/ Count(p) \/ Unlock(p) \/ Notify(p) \/ Await(p)
           \/ Check \/ Subtract \/ NotifyPoison \/ Join \/ UNCHANGED vars
    PROVE  UNCHANGED Abstract!vars
<1>1. UNCHANGED <<queue, local>>
  BY DEF Call, Count, Unlock, Notify, Await, Check, Subtract, NotifyPoison,
     Join, vars
<1>2. (wpc' = "running" <=> wpc = "running") /\ (wpc' = "done" <=> wpc = "done")
  BY DEF Call, Count, Unlock, Notify, Await, Notified, Check, Subtract,
     NotifyPoison, Join, vars
<1>3. Poisoned' = Poisoned
  BY DEF Call, Count, Unlock, Notify, Await, Check, Subtract, NotifyPoison,
     Join, vars, Poisoned
<1>4. Waiting' = Waiting  BY <1>1, <1>2 DEF Waiting
<1>5. Current' = Current  BY <1>1, <1>2 DEF Current
<1>6. Stopped' = Stopped  BY <1>2 DEF Stopped
<1> QED  BY <1>1, <1>3, <1>4, <1>5, <1>6 DEF Abstract!vars

LEMMA PoisonCloses == ASSUME Poison PROVE Abstract!Close
<1>1. Waiting' = Waiting /\ Current' = Current /\ Stopped' = Stopped
  BY DEF Poison, Waiting, Current, Stopped
<1>2. ~Poisoned /\ Poisoned' = TRUE
  BY DEF Poison, Poisoned
<1> QED  BY <1>1, <1>2 DEF Abstract!Close

(* The executor, with its lock, its counter and its sleeping worker, does   *)
(* what the serial queue does: procedures run one at a time, exactly once, *)
(* in the order accepted, and the worker stops only closed and drained.    *)
THEOREM Refinement == Spec => ImplementsQueue
<1>1. Init => Abstract!Init
  <2> SUFFICES ASSUME Init PROVE Abstract!Init
    OBVIOUS
  <2>1. <<>> \o <<>> = <<>>
    <3>1. <<>> \in Seq(Tasks)  OBVIOUS
    <3> QED  BY <3>1, ConcatEmptySeq
  <2>2. Waiting = <<>> /\ Current = None  BY <2>1 DEF Init, Waiting, Current
  <2>3. Poisoned = FALSE /\ Stopped = FALSE  BY DEF Init, Poisoned, Stopped
  <2> QED  BY <2>2, <2>3 DEF Init, Abstract!Init
<1>2. IInv /\ [Next]_vars => [Abstract!Next]_(Abstract!vars)
  <2> SUFFICES ASSUME IInv, [Next]_vars
               PROVE  Abstract!Next \/ UNCHANGED Abstract!vars
    OBVIOUS
  <2>1. CASE \E p \in Threads : Push(p)
    BY <2>1, PushSubmits DEF Abstract!Next
  <2>2. CASE Invoke  BY <2>2, InvokeStarts DEF Abstract!Next
  <2>3. CASE Return  BY <2>3, ReturnFinishes DEF Abstract!Next
  <2>4. CASE Release  BY <2>4, ReleaseStops DEF Abstract!Next
  <2>5. CASE Splice  BY <2>5, SpliceStutters
  <2>6. CASE Poison  BY <2>6, PoisonCloses DEF Abstract!Next
  <2>7. CASE \/ \E p \in Threads :
                  \/ \E t \in Tasks, b \in BOOLEAN : Call(p, t, b)
                  \/ Count(p) \/ Unlock(p) \/ Notify(p) \/ Await(p)
             \/ Check \/ Subtract \/ NotifyPoison \/ Join \/ UNCHANGED vars
    BY <2>7, OthersStutter
  <2> QED
    BY <2>1, <2>2, <2>3, <2>4, <2>5, <2>6, <2>7
    DEF Next, Submitter, WorkerLoop, Destructor, Terminated
<1>3. Spec => []IInv  BY Invariance
<1> QED  BY <1>1, <1>2, <1>3, PTL DEF Spec, ImplementsQueue, Abstract!Spec

(* Put end to end, what has run, what runs and what waits are what was      *)
(* accepted.                                                               *)
THEOREM ExactlyOnce == Spec => []QueueOrder
<1>1. IInv => QueueOrder
  <2> SUFFICES ASSUME IInv PROVE QueueOrder
    OBVIOUS
  <2>0. /\ queue \in Seq(Tasks) /\ local \in Seq(Tasks) /\ done \in Seq(Tasks)
        /\ done \o (local \o queue) = pushed
        /\ wpc = "running" => local # <<>>
    BY DEF IInv, TypeOK, WorkerInv, HistoryInv
  <2>00. queue \in Seq(Tasks) /\ local \in Seq(Tasks) /\ done \in Seq(Tasks)
    BY <2>0
  <2>1. CASE wpc = "running"
    <3>0. local # <<>>  BY <2>0, <2>1
    <3>1. Head(local) \in Tasks /\ Tail(local) \in Seq(Tasks)
      BY <2>00, <3>0, HeadThenTail
    <3>2. Current # None /\ Current = Head(local) /\ Waiting = Tail(local) \o queue
      BY <2>1, <3>1, ThreadsAssumption DEF Current, Waiting
    <3>3. done \o <<Head(local)>> = Append(done, Head(local))
      BY <2>0, <3>1, AppendIsConcat
    <3>4. Append(done, Head(local)) \o (Tail(local) \o queue)
            = done \o (local \o queue)
      BY <2>00, <3>0, MoveHeadBefore, SMTT(30)
    <3> QED  BY <2>0, <3>2, <3>3, <3>4 DEF QueueOrder, InProgress
  <2>2. CASE wpc # "running"
    <3>1. Current = None /\ Waiting = local \o queue
      BY <2>2 DEF Current, Waiting
    <3>2. done \o <<>> = done  BY <2>0, ConcatEmptySeq
    <3> QED  BY <2>0, <3>1, <3>2 DEF QueueOrder, InProgress
  <2> QED  BY <2>1, <2>2
<1> QED  BY <1>1, Invariance, PTL
==============================================================================
