-------------------------- MODULE EventsStreamProofs --------------------------
(***************************************************************************)
(* For any number of initial events and of changes, and any width of the   *)
(* counter: an event is written once and in order, one at a time; the      *)
(* counter's law holds although it may wrap; nobody sleeps over work; and  *)
(* a deleted reactor is left alone.                                        *)
(***************************************************************************)
EXTENDS EventsStream, DataLemmas

(* What each place of the worker says of its list and of the write.        *)
WorkerInv ==
    /\ wpc \in {"check", "asleep", "splice"} => local = <<>>
    /\ wpc \in {"mark", "start", "await", "dozing"} => local # <<>>
    /\ wpc = "start" => status = "InProgress"
    /\ writing => wpc \in {"await", "dozing"} /\ status = "InProgress"

(* The reactor is added once, by the first procedure, and removed once, by  *)
(* the one OnDone submits when everything else has ended.                  *)
LifeInv ==
    /\ epc # "idle" => outbox # 0
    /\ \A n \in 1 .. Len(tasks) :
         /\ tasks[n] = "add" => n = 1 /\ sink = "new" /\ epc = "idle"
         /\ tasks[n] = "release" => opc = "done"
    /\ sink = "deleted" => opc = "done" /\ epc = "idle"
    /\ opc # "no" => /\ wpc = "ended" /\ ~writing /\ notifies = 0
                     /\ cpc # "notify"

IInv ==
    /\ TypeOK
    /\ WorkerInv
    /\ LifeInv
    /\ NoLostWakeup
    /\ Accounting
    /\ DeliveredInOrder

LEMMA InitIInv == Init => IInv
<1> SUFFICES ASSUME Init PROVE IInv
  OBVIOUS
<1> USE DEF Init
<1>1. TypeOK
  <2>1. /\ tasks \in Seq({"add", "notify", "release"})
        /\ evq \in Seq(Nat) /\ local \in Seq(Nat)
        /\ sent \in Seq(Nat) /\ written \in Seq(Nat)
    OBVIOUS
  <2>2. qsize \in 0 .. Word - 1 /\ emitted \in 0 .. MaxEmit
    BY StreamAssumption
  <2> QED BY <2>1, <2>2 DEF TypeOK
<1>2. WorkerInv  BY DEF WorkerInv
<1>3. LifeInv  BY DEF LifeInv
<1>4. NoLostWakeup  BY DEF NoLostWakeup
<1>5. Accounting
  <2>1. 0 % Word = 0  BY StreamAssumption, ModSmall
  <2>2. Len(evq) = 0  OBVIOUS
  <2> QED BY <2>1, <2>2 DEF Accounting, Taken, CancelPill, Cancelled, Uncounted
<1>6. DeliveredInOrder
  <2>1. <<>> \in Seq(Nat) /\ <<>> \o <<>> = <<>>  BY ConcatEmptySeq
  <2> QED BY <2>1 DEF DeliveredInOrder, Unwritten, Popped
<1> QED BY <1>1, <1>2, <1>3, <1>4, <1>5, <1>6 DEF IInv

-----------------------------------------------------------------------------
(* Each action keeps the types.                                            *)
LEMMA TypeStep == TypeOK /\ WorkerInv /\ LifeInv /\ [Next]_vars => TypeOK'
<1> SUFFICES ASSUME TypeOK, WorkerInv, LifeInv, [Next]_vars PROVE TypeOK'
  OBVIOUS
<1> USE DEF TypeOK, execVars, grpcVars
<1>0. \A i \in Int : i % Word \in 0 .. Word - 1
  BY StreamAssumption, DivMod
<1>1. ASSUME Emit PROVE TypeOK'
  <2>1. tasks' \in Seq({"add", "notify", "release"})
    BY <1>1, AppendProperties DEF Emit
  <2> QED BY <1>1, <2>1, StreamAssumption DEF Emit
<1>2. ASSUME RunTask PROVE TypeOK'
  <2>1. tasks' \in Seq({"add", "notify", "release"})
    BY <1>2, HeadThenTail DEF RunTask
  <2>2. outbox' \in Nat
    BY <1>2, StreamAssumption DEF RunTask
  <2> QED BY <1>2, <2>1, <2>2 DEF RunTask
<1>3. ASSUME Push PROVE TypeOK'
  <2>1. Len(sent) + 1 \in Nat  BY LenProperties
  <2>2. evq' \in Seq(Nat) /\ sent' \in Seq(Nat)
    BY <1>3, <2>1, AppendProperties DEF Push
  <2> QED BY <1>3, <2>2 DEF Push
<1>4. ASSUME Count PROVE TypeOK'
  BY <1>4, <1>0 DEF Count
<1>5. ASSUME Notify PROVE TypeOK'
  BY <1>5 DEF Notify, Woken, LifeInv
<1>6. ASSUME Check PROVE TypeOK'
  BY <1>6 DEF Check
<1>7. ASSUME Splice PROVE TypeOK'
  BY <1>7 DEF Splice
<1>8. ASSUME Subtract PROVE TypeOK'
  <2>1. qsize - Len(local) \in Int  BY LenProperties
  <2> QED BY <1>8, <2>1, <1>0 DEF Subtract
<1>9. ASSUME MarkInProgress PROVE TypeOK'
  BY <1>9 DEF MarkInProgress
<1>10. ASSUME StartWrite PROVE TypeOK'
  BY <1>10 DEF StartWrite
<1>11. ASSUME AwaitWrite PROVE TypeOK'
  <2>1. Tail(local) \in Seq(Nat)
    BY <1>11, HeadThenTail DEF AwaitWrite, WorkerInv
  <2> QED BY <1>11, <2>1 DEF AwaitWrite
<1>12. ASSUME Finish PROVE TypeOK'
  BY <1>12 DEF Finish
<1>13. ASSUME Exit PROVE TypeOK'
  BY <1>13 DEF Exit
<1>14. ASSUME NEW ok \in BOOLEAN, WriteDone(ok) PROVE TypeOK'
  <2>1. Append(written, Head(local)) \in Seq(Nat)
    BY <1>14, HeadThenTail, AppendProperties DEF WriteDone, WorkerInv
  <2>2. written' \in Seq(Nat)
    BY <1>14, <2>1 DEF WriteDone
  <2>3. status' \in {"Idle", "InProgress", "Failed"}
    BY <1>14 DEF WriteDone
  <2>4. writing' \in BOOLEAN
    BY <1>14 DEF WriteDone
  <2>5. notifies' \in Nat
    BY <1>14 DEF WriteDone
  <2>6. UNCHANGED <<execVars, evq, qsize, wpc, local, grpcVars, finished, sent>>
    BY <1>14 DEF WriteDone
  <2> QED BY <2>2, <2>3, <2>4, <2>5, <2>6
<1>15. ASSUME WriteNotify PROVE TypeOK'
  BY <1>15 DEF WriteNotify
<1>16. ASSUME Cancel PROVE TypeOK'
  BY <1>16, <1>0 DEF Cancel
<1>17. ASSUME CancelNotify PROVE TypeOK'
  BY <1>17 DEF CancelNotify, Woken
<1>18. ASSUME OnDone PROVE TypeOK'
  <2>1. Append(tasks, "release") \in Seq({"add", "notify", "release"})
    BY AppendProperties
  <2> QED BY <1>18, <2>1 DEF OnDone, DoneJoin, DoneRelease
<1>19. CASE UNCHANGED vars
  BY <1>19 DEF vars
<1> QED
  BY <1>1, <1>2, <1>3, <1>4, <1>5, <1>6, <1>7, <1>8, <1>9, <1>10, <1>11,
     <1>12, <1>13, <1>14, <1>15, <1>16, <1>17, <1>18, <1>19
  DEF Next, Executor, WorkerLoop, Released

(* The worker holds a list exactly while it writes from it.                *)
LEMMA WorkerStep == TypeOK /\ WorkerInv /\ LifeInv /\ [Next]_vars => WorkerInv'
<1> SUFFICES ASSUME TypeOK, WorkerInv, LifeInv, [Next]_vars PROVE WorkerInv'
  OBVIOUS
<1> USE DEF WorkerInv, execVars, grpcVars
<1>1. ASSUME Emit PROVE WorkerInv'
  BY <1>1 DEF Emit
<1>2. ASSUME Executor PROVE WorkerInv'
  BY <1>2 DEF Executor, RunTask, Push, Count, Notify, Woken
<1>3. ASSUME Check PROVE WorkerInv'
  BY <1>3 DEF Check
<1>4. ASSUME Splice PROVE WorkerInv'
  BY <1>4 DEF Splice
<1>5. ASSUME Subtract PROVE WorkerInv'
  BY <1>5 DEF Subtract
<1>6. ASSUME MarkInProgress PROVE WorkerInv'
  BY <1>6 DEF MarkInProgress
<1>7. ASSUME StartWrite PROVE WorkerInv'
  BY <1>7 DEF StartWrite
<1>8. ASSUME AwaitWrite PROVE WorkerInv'
  <2>1. CASE status = "InProgress"
    BY <1>8, <2>1 DEF AwaitWrite
  <2>2. CASE status = "Failed"
    BY <1>8, <2>2 DEF AwaitWrite
  <2>3. CASE status = "Idle"
    <3>1. /\ Len(local) \in Nat \ {0}
          /\ Tail(local) \in Seq(Nat)
          /\ Len(Tail(local)) = Len(local) - 1
      BY <1>8, HeadThenTail DEF AwaitWrite, TypeOK
    <3>2. Tail(local) = <<>> <=> Len(local) = 1
      <4> DEFINE t == Tail(local)
      <4>1. t \in Seq(Nat) /\ Len(t) = Len(local) - 1  BY <3>1
      <4> HIDE DEF t
      <4>2. t = <<>> <=> Len(t) = 0  BY <4>1, EmptyIffLenZero
      <4> QED BY <3>1, <4>1, <4>2 DEF t
    <3>3. ~writing
      BY <2>3
    <3>4. /\ wpc' = IF Len(local) = 1 THEN "check" ELSE "mark"
          /\ local' = Tail(local)
          /\ writing' = writing
      BY <1>8, <2>3 DEF AwaitWrite
    <3> QED BY <3>2, <3>3, <3>4
  <2> QED BY <2>1, <2>2, <2>3 DEF TypeOK
<1>9. ASSUME Finish \/ Exit PROVE WorkerInv'
  BY <1>9 DEF Finish, Exit
<1>10. ASSUME NEW ok \in BOOLEAN, WriteDone(ok) PROVE WorkerInv'
  <2>1. ~writing' /\ wpc \in {"await", "dozing"} /\ wpc' = wpc /\ local' = local
    BY <1>10 DEF WriteDone
  <2> QED BY <2>1
<1>11. ASSUME WriteNotify PROVE WorkerInv'
  BY <1>11 DEF WriteNotify
<1>12. ASSUME Cancel \/ CancelNotify PROVE WorkerInv'
  BY <1>12 DEF Cancel, CancelNotify, Woken
<1>13. ASSUME OnDone PROVE WorkerInv'
  BY <1>13 DEF OnDone, DoneJoin, DoneRelease
<1>14. CASE UNCHANGED vars
  BY <1>14 DEF vars
<1> QED
  BY <1>1, <1>2, <1>3, <1>4, <1>5, <1>6, <1>7, <1>8, <1>9, <1>10, <1>11,
     <1>12, <1>13, <1>14
  DEF Next, WorkerLoop, Released

(* When the reactor is added and removed.                                  *)
LEMMA LifeStep == TypeOK /\ WorkerInv /\ LifeInv /\ [Next]_vars => LifeInv'
<1> SUFFICES ASSUME TypeOK, WorkerInv, LifeInv, [Next]_vars PROVE LifeInv'
  OBVIOUS
<1> USE DEF LifeInv, execVars, grpcVars
<1>1. ASSUME Emit PROVE LifeInv'
  <2>1. /\ Len(tasks') = Len(tasks) + 1
        /\ \A n \in 1 .. Len(tasks) : tasks'[n] = tasks[n]
        /\ tasks'[Len(tasks) + 1] = "notify"
    BY <1>1, AppendProperties DEF Emit, TypeOK
  <2>2. Len(tasks) \in Nat  BY LenProperties DEF TypeOK
  <2> QED BY <1>1, <2>1, <2>2 DEF Emit
<1>2. ASSUME RunTask PROVE LifeInv'
  <2>1. /\ Len(tasks) \in Nat \ {0}
        /\ Len(tasks') = Len(tasks) - 1
        /\ \A n \in 1 .. Len(tasks') : tasks'[n] = tasks[n + 1]
        /\ Head(tasks) = tasks[1]
    BY <1>2, HeadTailProperties, EmptySeq DEF RunTask, TypeOK
  <2>2. \A n \in 1 .. Len(tasks') : tasks'[n] # "add" /\ (tasks'[n] = "release" => opc = "done")
    BY <2>1
  <2>3. /\ epc' = IF outbox' = 0 THEN "idle" ELSE "push"
        /\ UNCHANGED <<wpc, writing, notifies, grpcVars>>
    BY <1>2 DEF RunTask
  <2>4. sink' = "deleted" => opc = "done" /\ epc' = "idle"
    <3>1. CASE Head(tasks) = "release"
      <4>1. outbox' = 0  BY <1>2, <3>1 DEF RunTask
      <4> QED BY <2>1, <2>3, <3>1, <4>1
    <3>2. CASE Head(tasks) # "release"
      <4>1. sink' = sink  BY <1>2, <3>2 DEF RunTask
      <4>2. CASE sink = "deleted"
        <5>1. Head(tasks) # "add"  BY <2>1, <4>2
        <5>2. outbox' = 0  BY <1>2, <4>2, <5>1 DEF RunTask
        <5> QED BY <2>3, <4>2, <5>2
      <4> QED BY <4>1, <4>2
    <3> QED BY <3>1, <3>2
  <2> QED BY <2>2, <2>3, <2>4
<1>3. ASSUME Push \/ Count PROVE LifeInv'
  BY <1>3 DEF Push, Count
<1>4. ASSUME Notify PROVE LifeInv'
  <2>1. \A n \in 1 .. Len(tasks) : tasks[n] # "add"
    BY <1>4 DEF Notify
  <2>2. sink # "deleted" /\ (outbox' = 0 <=> outbox = 1)
    BY <1>4 DEF Notify, TypeOK
  <2> QED BY <1>4, <2>1, <2>2 DEF Notify, Woken
<1>5. ASSUME WorkerLoop PROVE LifeInv'
  BY <1>5 DEF WorkerLoop, Check, Splice, Subtract, MarkInProgress, StartWrite,
              AwaitWrite, Finish, Exit
<1>6. ASSUME NEW ok \in BOOLEAN, WriteDone(ok) PROVE LifeInv'
  BY <1>6 DEF WriteDone
<1>7. ASSUME WriteNotify PROVE LifeInv'
  BY <1>7 DEF WriteNotify
<1>8. ASSUME Cancel \/ CancelNotify PROVE LifeInv'
  BY <1>8 DEF Cancel, CancelNotify, Woken
<1>9. ASSUME DoneJoin PROVE LifeInv'
  BY <1>9 DEF DoneJoin
<1>10. ASSUME DoneRelease PROVE LifeInv'
  <2>1. /\ Len(tasks') = Len(tasks) + 1
        /\ \A n \in 1 .. Len(tasks) : tasks'[n] = tasks[n]
        /\ tasks'[Len(tasks) + 1] = "release"
    BY <1>10, AppendProperties DEF DoneRelease, TypeOK
  <2>2. Len(tasks) \in Nat  BY LenProperties DEF TypeOK
  <2> QED BY <1>10, <2>1, <2>2 DEF DoneRelease
<1>11. CASE UNCHANGED vars
  BY <1>11 DEF vars
<1> QED
  BY <1>1, <1>2, <1>3, <1>4, <1>5, <1>6, <1>7, <1>8, <1>9, <1>10, <1>11
  DEF Next, Executor, OnDone, Released

(* A notification is on its way to whoever waits on a value that changed.  *)
LEMMA WakeStep ==
    TypeOK /\ WorkerInv /\ NoLostWakeup /\ [Next]_vars => NoLostWakeup'
<1> SUFFICES ASSUME TypeOK, WorkerInv, NoLostWakeup, [Next]_vars
             PROVE  NoLostWakeup'
  OBVIOUS
<1> USE DEF NoLostWakeup, execVars, grpcVars
<1>1. ASSUME Emit \/ RunTask \/ Push PROVE NoLostWakeup'
  BY <1>1 DEF Emit, RunTask, Push
<1>2. ASSUME Count \/ Notify PROVE NoLostWakeup'
  BY <1>2 DEF Count, Notify, Woken
<1>3. ASSUME Check \/ Splice \/ Subtract \/ MarkInProgress \/ StartWrite
      PROVE  NoLostWakeup'
  BY <1>3 DEF Check, Splice, Subtract, MarkInProgress, StartWrite
<1>4. ASSUME AwaitWrite PROVE NoLostWakeup'
  <2>1. /\ wpc' # "asleep"
        /\ wpc' = "dozing" => status = "InProgress"
        /\ status' = status
    BY <1>4 DEF AwaitWrite, TypeOK
  <2> QED BY <2>1
<1>5. ASSUME Finish \/ Exit PROVE NoLostWakeup'
  BY <1>5 DEF Finish, Exit
<1>6. ASSUME NEW ok \in BOOLEAN, WriteDone(ok) PROVE NoLostWakeup'
  <2>1. /\ notifies' > 0 /\ wpc' = wpc
        /\ wpc \in {"await", "dozing"}
    BY <1>6 DEF WriteDone, TypeOK, WorkerInv
  <2> QED BY <2>1
<1>7. ASSUME WriteNotify PROVE NoLostWakeup'
  BY <1>7 DEF WriteNotify
<1>8. ASSUME Cancel \/ CancelNotify PROVE NoLostWakeup'
  BY <1>8 DEF Cancel, CancelNotify, Woken
<1>9. ASSUME OnDone PROVE NoLostWakeup'
  BY <1>9 DEF OnDone, DoneJoin, DoneRelease
<1>10. CASE UNCHANGED vars
  BY <1>10 DEF vars
<1> QED
  BY <1>1, <1>2, <1>3, <1>4, <1>5, <1>6, <1>7, <1>8, <1>9, <1>10
  DEF Next, Executor, WorkerLoop, Released

-----------------------------------------------------------------------------
(* What the counter would be if it were not wrapped.                       *)
Total == Len(evq) + Taken + CancelPill - Uncounted

(* The law of the counter: whoever changes it adds what it has to the       *)
(* remainder, and that is the remainder of the sum.                        *)
LEMMA AccountingStep ==
    TypeOK /\ WorkerInv /\ Accounting /\ [Next]_vars => Accounting'
<1> SUFFICES ASSUME TypeOK, WorkerInv, Accounting, [Next]_vars
             PROVE  Accounting'
  OBVIOUS
<1> USE DEF execVars, grpcVars
<1>0. /\ Len(evq) \in Nat /\ Len(local) \in Nat
      /\ Taken \in Nat /\ CancelPill \in Nat /\ Uncounted \in Nat
      /\ Total \in Int
  BY LenProperties DEF TypeOK, Taken, CancelPill, Uncounted, Total
<1>a. qsize = Total % Word
  BY DEF Accounting, Total
<1>b. ASSUME NEW b \in Int, qsize' = (qsize + b) % Word, Total' = Total + b
      PROVE  Accounting'
  <2>1. ((Total % Word) + b) % Word = (Total + b) % Word
    <3>1. Word \in Nat \ {0}  BY StreamAssumption
    <3> QED BY <1>0, <3>1, ModAdd
  <2> QED BY <1>a, <1>b, <2>1 DEF Accounting, Total
<1>c. ASSUME qsize' = qsize, Total' = Total
      PROVE  Accounting'
  BY <1>a, <1>c DEF Accounting, Total
<1> USE DEF Taken, CancelPill, Cancelled, Uncounted
<1>1. ASSUME Emit \/ RunTask PROVE Accounting'
  <2>1. UNCHANGED <<evq, qsize, wpc, local, cpc>> /\ (epc = "count" <=> epc' = "count")
    BY <1>1 DEF Emit, RunTask
  <2>2. Total' = Total  BY <2>1 DEF Total
  <2> QED BY <2>1, <2>2, <1>c
<1>2. ASSUME Push PROVE Accounting'
  <2>1. Len(evq') = Len(evq) + 1
    <3>1. Len(sent) + 1 \in Nat  BY LenProperties DEF TypeOK
    <3> QED BY <1>2, <3>1, AppendProperties DEF Push, TypeOK
  <2>2. UNCHANGED <<qsize, Taken, CancelPill>> /\ Uncounted = 0 /\ Uncounted' = 1
    BY <1>2 DEF Push
  <2>3. Total' = Total
    <3> HIDE DEF Taken, CancelPill, Uncounted
    <3> QED BY <2>1, <2>2, <1>0 DEF Total
  <2> QED BY <2>2, <2>3, <1>c
<1>3. ASSUME Count PROVE Accounting'
  <2>1. Total' = Total + 1  BY <1>3, <1>0 DEF Count, Total
  <2> QED BY <1>3, <2>1, <1>b DEF Count
<1>4. ASSUME Notify PROVE Accounting'
  <2>1. Total' = Total  BY <1>4 DEF Notify, Woken, Total
  <2> QED BY <1>4, <2>1, <1>c DEF Notify
<1>5. ASSUME Splice PROVE Accounting'
  <2>1. Len(evq') = 0  BY <1>5, EmptySeq DEF Splice
  <2>2. Total' = Total  BY <1>5, <2>1, <1>0 DEF Splice, Total
  <2> QED BY <1>5, <2>2, <1>c DEF Splice
<1>6. ASSUME Subtract PROVE Accounting'
  <2>1. wpc' # "subtract"  BY <1>6 DEF Subtract
  <2>2. Total' = Total + (-Len(local))  BY <1>6, <2>1, <1>0 DEF Subtract, Total
  <2>3. qsize' = (qsize + (-Len(local))) % Word
    BY <1>6, <1>0 DEF Subtract, TypeOK
  <2> QED BY <2>2, <2>3, <1>0, <1>b
<1>7. ASSUME Check \/ MarkInProgress \/ StartWrite \/ Finish \/ Exit
      PROVE  Accounting'
  <2>1. Total' = Total /\ qsize' = qsize
    BY <1>7 DEF Check, MarkInProgress, StartWrite, Finish, Exit, Total
  <2> QED BY <2>1, <1>c
<1>8. ASSUME AwaitWrite PROVE Accounting'
  <2>1. wpc # "subtract" /\ wpc' # "subtract"
    BY <1>8 DEF AwaitWrite, TypeOK
  <2>2. Total' = Total  BY <1>8, <2>1 DEF AwaitWrite, Total
  <2> QED BY <1>8, <2>2, <1>c DEF AwaitWrite
<1>9. ASSUME NEW ok \in BOOLEAN, WriteDone(ok) PROVE Accounting'
  <2>1. UNCHANGED <<evq, qsize, Taken, CancelPill, Uncounted>>
    BY <1>9 DEF WriteDone
  <2>2. Total' = Total
    <3> HIDE DEF Taken, CancelPill, Uncounted
    <3> QED BY <2>1 DEF Total
  <2> QED BY <2>1, <2>2, <1>c
<1>10. ASSUME WriteNotify PROVE Accounting'
  <2>1. Total' = Total  BY <1>10 DEF WriteNotify, Total
  <2> QED BY <1>10, <2>1, <1>c DEF WriteNotify
<1>11. ASSUME Cancel PROVE Accounting'
  <2>1. UNCHANGED <<evq, Taken, Uncounted>> /\ CancelPill = 0 /\ CancelPill' = 1
    BY <1>11 DEF Cancel
  <2>2. Total' = Total + 1
    <3> HIDE DEF Taken, CancelPill, Uncounted
    <3> QED BY <2>1, <1>0 DEF Total
  <2> QED BY <1>11, <2>2, <1>b DEF Cancel
<1>12. ASSUME CancelNotify PROVE Accounting'
  <2>1. Total' = Total  BY <1>12 DEF CancelNotify, Woken, Total
  <2> QED BY <1>12, <2>1, <1>c DEF CancelNotify
<1>13. ASSUME OnDone PROVE Accounting'
  <2>1. Total' = Total /\ qsize' = qsize
    BY <1>13 DEF OnDone, DoneJoin, DoneRelease, Total
  <2> QED BY <2>1, <1>c
<1>14. CASE UNCHANGED vars
  <2>1. Total' = Total /\ qsize' = qsize  BY <1>14 DEF vars, Total
  <2> QED BY <2>1, <1>c
<1> QED
  BY <1>1, <1>2, <1>3, <1>4, <1>5, <1>6, <1>7, <1>8, <1>9, <1>10, <1>11,
     <1>12, <1>13, <1>14
  DEF Next, Executor, WorkerLoop, Released

(* What is written, what the worker holds and what is queued are together  *)
(* what was pushed, whoever moves an event on.                             *)
LEMMA OrderStep ==
    TypeOK /\ WorkerInv /\ DeliveredInOrder /\ [Next]_vars => DeliveredInOrder'
<1> SUFFICES ASSUME TypeOK, WorkerInv, DeliveredInOrder, [Next]_vars
             PROVE  DeliveredInOrder'
  OBVIOUS
<1>a. /\ written \in Seq(Nat) /\ local \in Seq(Nat) /\ evq \in Seq(Nat)
      /\ (written \o Unwritten) \o evq = sent
  BY DEF TypeOK, DeliveredInOrder
<1>b. ASSUME UNCHANGED <<written, Unwritten, evq, sent>>
      PROVE  DeliveredInOrder'
  BY <1>b, <1>a DEF DeliveredInOrder
<1>c. wpc \notin {"await", "dozing"} => Unwritten = local
  BY DEF Unwritten, Popped
<1>d. ASSUME UNCHANGED <<written, local, evq, sent, status>>,
             wpc' \in {"await", "dozing"} <=> wpc \in {"await", "dozing"}
      PROVE  DeliveredInOrder'
  <2>1. Unwritten' = Unwritten  BY <1>d DEF Unwritten, Popped
  <2> QED BY <1>d, <2>1, <1>b
<1> USE DEF execVars, grpcVars
<1>1. ASSUME Emit \/ RunTask \/ Count \/ Notify PROVE DeliveredInOrder'
  BY <1>1, <1>d DEF Emit, RunTask, Count, Notify, Woken
<1>2. ASSUME Push PROVE DeliveredInOrder'
  <2>1. Unwritten' = Unwritten  BY <1>2 DEF Push, Unwritten, Popped
  <2>2. Unwritten \in Seq(Nat)
    <3>1. Popped => local # <<>>  BY DEF Popped, WorkerInv
    <3>2. local # <<>> => Tail(local) \in Seq(Nat)  BY <1>a, HeadThenTail
    <3> QED BY <3>1, <3>2, <1>a DEF Unwritten
  <2> DEFINE w == written \o Unwritten
             e == Len(sent) + 1
  <2>3. w \in Seq(Nat) /\ e \in Nat
    BY <2>2, <1>a, ConcatProperties, LenProperties DEF TypeOK
  <2>4. w \o evq = sent  BY <1>a
  <2>5. evq' = Append(evq, e) /\ sent' = Append(sent, e)  BY <1>2 DEF Push
  <2>6. w' = w  BY <1>2, <2>1 DEF Push
  <2> HIDE DEF w, e
  <2>7. w \o Append(evq, e) = Append(w \o evq, e)
    BY <2>3, <1>a, AppendToConcat, SMTT(30)
  <2>8. w' \o evq' = sent'  BY <2>4, <2>5, <2>6, <2>7
  <2> QED BY <2>8 DEF DeliveredInOrder, w
<1>3. ASSUME Splice PROVE DeliveredInOrder'
  <2>1. /\ Unwritten = <<>>
        /\ Unwritten' = evq
        /\ evq' = <<>> /\ written' = written /\ sent' = sent
    BY <1>3 DEF Splice, Unwritten, Popped, WorkerInv
  <2>2. written \o <<>> = written  BY <1>a, ConcatEmptySeq
  <2>3. written \o evq \in Seq(Nat)  BY <1>a, ConcatProperties
  <2>4. (written \o evq) \o <<>> = written \o evq  BY <2>3, ConcatEmptySeq
  <2> QED BY <1>a, <2>1, <2>2, <2>4 DEF DeliveredInOrder
<1>4. ASSUME Check \/ Subtract \/ MarkInProgress \/ Finish \/ Exit
      PROVE  DeliveredInOrder'
  <2>1. /\ UNCHANGED <<written, local, evq, sent>>
        /\ wpc \notin {"await", "dozing"} /\ wpc' \notin {"await", "dozing"}
    BY <1>4 DEF Check, Subtract, MarkInProgress, Finish, Exit
  <2>2. Unwritten' = Unwritten  BY <2>1 DEF Unwritten, Popped
  <2> QED BY <2>1, <2>2, <1>b
<1>5. ASSUME StartWrite PROVE DeliveredInOrder'
  <2>1. Unwritten' = Unwritten
    BY <1>5 DEF StartWrite, Unwritten, Popped, WorkerInv
  <2> QED BY <1>5, <2>1, <1>b DEF StartWrite
<1>6. ASSUME AwaitWrite PROVE DeliveredInOrder'
  <2>1. Unwritten' = Unwritten
    BY <1>6 DEF AwaitWrite, Unwritten, Popped, TypeOK
  <2> QED BY <1>6, <2>1, <1>b DEF AwaitWrite
<1>7. ASSUME NEW ok \in BOOLEAN, WriteDone(ok) PROVE DeliveredInOrder'
  <2>1. /\ wpc \in {"await", "dozing"} /\ wpc' = wpc
        /\ status = "InProgress"
        /\ UNCHANGED <<local, evq, sent>>
    BY <1>7 DEF WriteDone, WorkerInv
  <2>2. Unwritten = local  BY <2>1 DEF Unwritten, Popped
  <2>3. CASE ok
    <3>1. written' = Append(written, Head(local)) /\ status' = "Idle"
      BY <1>7, <2>3 DEF WriteDone
    <3>2. Unwritten' = Tail(local)  BY <2>1, <3>1 DEF Unwritten, Popped
    <3>3. Append(written, Head(local)) \o Tail(local) = written \o local
      <4>1. local # <<>>  BY <2>1 DEF WorkerInv
      <4> QED BY <4>1, <1>a, MoveHead
    <3>4. written' \o Unwritten' = written \o Unwritten
      BY <2>2, <3>1, <3>2, <3>3
    <3> QED BY <1>a, <2>1, <3>4 DEF DeliveredInOrder
  <2>4. CASE ~ok
    <3>1. written' = written /\ status' = "Failed"
      BY <1>7, <2>4 DEF WriteDone
    <3>2. Unwritten' = local  BY <2>1, <3>1 DEF Unwritten, Popped
    <3> QED BY <2>1, <2>2, <3>1, <3>2, <1>b
  <2> QED BY <2>3, <2>4
<1>8. ASSUME WriteNotify \/ Cancel \/ CancelNotify PROVE DeliveredInOrder'
  BY <1>8, <1>d DEF WriteNotify, Cancel, CancelNotify, Woken
<1>9. ASSUME OnDone PROVE DeliveredInOrder'
  BY <1>9, <1>d DEF OnDone, DoneJoin, DoneRelease
<1>10. CASE UNCHANGED vars
  BY <1>10, <1>d DEF vars
<1> QED
  BY <1>1, <1>2, <1>3, <1>4, <1>5, <1>6, <1>7, <1>8, <1>9, <1>10
  DEF Next, Executor, WorkerLoop, Released

-----------------------------------------------------------------------------
(* The parts hold together from the start and over every step.             *)
THEOREM Invariance == Spec => []IInv
<1>1. Init => IInv
  BY InitIInv
<1>2. IInv /\ [Next]_vars => IInv'
  BY TypeStep, WorkerStep, LifeStep, WakeStep, AccountingStep, OrderStep DEF IInv
<1> QED BY <1>1, <1>2, PTL DEF Spec

(* Every variable keeps its type: the counter stays within its width and   *)
(* the worker takes the front of no empty list.                            *)
THEOREM TypeCorrect == Spec => []TypeOK
<1>1. IInv => TypeOK  BY DEF IInv
<1> QED BY <1>1, Invariance, PTL

(* m_queueSize is accounted for, whatever its width and however far the    *)
(* worker is ahead of it: pushEvent, worker and OnCancel change it under   *)
(* no common lock.                                                         *)
THEOREM CounterIsAccountedFor == Spec => []Accounting
<1>1. IInv => Accounting  BY DEF IInv
<1> QED BY <1>1, Invariance, PTL

(* The client gets what was pushed, in the order of the pushes and nothing *)
(* twice: of pushEvent, worker and OnWriteDone each moves one event on.    *)
THEOREM StreamIsInOrder == Spec => []DeliveredInOrder
<1>1. IInv => DeliveredInOrder  BY DEF IInv
<1> QED BY <1>1, Invariance, PTL

(* Neither the worker's wait for an event nor its wait for the write is    *)
(* left asleep by a change of what it waits on.                            *)
THEOREM WorkerIsWoken == Spec => []NoLostWakeup
<1>1. IInv => NoLostWakeup  BY DEF IInv
<1> QED BY <1>1, Invariance, PTL

(* StartWrite is not called while gRPC has a write of the stream.          *)
THEOREM WritesAreSerial == Spec => []OneWriteAtATime
<1>1. IInv => OneWriteAtATime  BY DEF IInv, WorkerInv, OneWriteAtATime
<1> QED BY <1>1, Invariance, PTL

(* What OnDone has the executor delete is no longer used: by no thread, no *)
(* reaction and no push.                                                   *)
THEOREM DeletedIsQuiet == Spec => []QuietWhenDeleted
<1>1. IInv => QuietWhenDeleted  BY DEF IInv, LifeInv, QuietWhenDeleted
<1> QED BY <1>1, Invariance, PTL

(* The worker comes past its wait for an event, for the cancellation or in *)
(* the moment between a push and its count, and for nothing else.          *)
THEOREM WaitEndsForCause == Spec => PassesWaitForCause
<1>1. ASSUME IInv, [Next]_vars, wpc = "check", wpc' = "splice"
      PROVE  evq # <<>> \/ Cancelled \/ epc = "count"
  <2>1. qsize # 0
    BY <1>1 DEF Next, Emit, Executor, RunTask, Push, Count, Notify, WorkerLoop,
       Check, Splice, Subtract, MarkInProgress, StartWrite, AwaitWrite, Finish,
       Exit, WriteDone, WriteNotify, Cancel, CancelNotify, OnDone, DoneJoin,
       DoneRelease, Released, Woken, vars
  <2>2. SUFFICES ASSUME evq = <<>>, ~Cancelled, epc # "count" PROVE FALSE
    OBVIOUS
  <2>3. Taken = 0 /\ CancelPill = 0 /\ Uncounted = 0 /\ Len(evq) = 0
    BY <1>1, <2>2 DEF Taken, CancelPill, Uncounted
  <2>4. qsize = 0 % Word
    BY <1>1, <2>3 DEF IInv, Accounting
  <2>5. 0 % Word = 0  BY StreamAssumption, ModSmall
  <2> QED BY <2>1, <2>4, <2>5
<1>2. IInv /\ [Next]_vars =>
        [wpc = "check" /\ wpc' = "splice" =>
           evq # <<>> \/ Cancelled \/ epc = "count"]_vars
  BY <1>1
<1> QED BY <1>2, Invariance, PTL DEF Spec, PassesWaitForCause
==============================================================================
