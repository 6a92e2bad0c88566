------------------------- MODULE MetricsStreamProofs -------------------------
(***************************************************************************)
(* For every width of the clock's low bits and every length of a run: the  *)
(* metrics show the time of the brew whose state they loaded, whenever the *)
(* executor changes the timer meanwhile, and writes do not overlap.        *)
(***************************************************************************)
EXTENDS MetricsStream, DataLemmas

(* The flag of a running timer does not disturb its value.                 *)
LEMMA FlagAside ==
    ASSUME NEW h \in Nat \ {0}, NEW v \in 0 .. h - 1
    PROVE  (h + v) % h = v
<1>1. /\ (h + v) \div h \in Int /\ (h + v) % h \in 0 .. h - 1
      /\ h + v = h * ((h + v) \div h) + ((h + v) % h)
  BY DivMod
<1>2. h * ((h + v) \div h) + ((h + v) % h) = h * 1 + v
  BY <1>1
<1> QED BY <1>1, <1>2, ModUnique

(* Between two times with the same high bits the low bits tell the time.   *)
LEMMA LowBitsDifference ==
    ASSUME NEW h \in Nat \ {0}, NEW a \in Nat, NEW b \in Nat, a <= b,
           a \div h = b \div h
    PROVE  /\ b - a \in 0 .. h - 1
           /\ (b % h) - (a % h) = b - a
           /\ ((b % h) - (a % h)) % (2 * h) = b - a
<1>1. /\ a \div h \in Int /\ a % h \in 0 .. h - 1 /\ b % h \in 0 .. h - 1
      /\ a = h * (a \div h) + (a % h)
      /\ b = h * (b \div h) + (b % h)
  BY DivMod
<1>2. h * (b \div h) = h * (a \div h) /\ h * (a \div h) \in Int
  BY <1>1
<1>3. (b % h) - (a % h) = b - a /\ b - a \in 0 .. h - 1
  BY <1>1, <1>2
<1>4. 2 * h \in Nat \ {0} /\ b - a \in 0 .. 2 * h - 1
  BY <1>3
<1> QED BY <1>3, <1>4, ModSmall

(* What a state of the timer says of the brew it is about.                 *)
Tells(state, b) ==
    /\ b.phase = "zero" => state = 0 /\ b.from = 0 /\ b.to = 0
    /\ b.phase = "running" => state = Half + (b.from % Half) /\ b.from <= clock
    /\ b.phase = "stopped" /\ ~Wrapped(b)
         => state = b.to - b.from /\ state \in 0 .. Half - 1

TimerInv ==
    /\ Tells(timer, brew)
    /\ wpc = "compute" => Tells(loaded, seen)

(* The worker is born with the stream and starts a write when it has       *)
(* marked the status.                                                      *)
StartInv ==
    /\ stream = "new" => wpc = "unborn"
    /\ wpc = "start" => status = "InProgress"

IInv == MetricsTypeOK /\ TimerInv /\ StartInv /\ WritesDoNotOverlap

LEMMA Widths ==
    /\ Half \in Nat \ {0} /\ Word \in Nat \ {0} /\ Word = 2 * Half
    /\ MaxTime \in Nat
    /\ 0 \in 0 .. Half + MaxTime
BY TimerAssumption DEF Word

LEMMA Remainders ==
    ASSUME NEW i \in Int
    PROVE  /\ i % Word \in 0 .. Word - 1
           /\ i % Half \in 0 .. Half - 1
           /\ Half + (i % Half) \in 0 .. Word - 1
<1>1. i % Word \in 0 .. Word - 1 /\ i % Half \in 0 .. Half - 1
  BY Widths, DivMod
<1> QED BY <1>1, Widths

(* The value of a running timer is the low bits of when it was started.    *)
LEMMA RunningValue ==
    ASSUME NEW t \in Nat, NEW state, state = Half + (t % Half)
    PROVE  IsRunning(state) /\ Value(state) = t % Half
<1> DEFINE v == t % Half
<1>1. v \in 0 .. Half - 1
  <2>1. t \in Int  OBVIOUS
  <2> QED BY <2>1, Remainders
<1>2. state = Half + v  OBVIOUS
<1> HIDE DEF v
<1>3. (Half + v) % Half = v  BY <1>1, Widths, FlagAside
<1>4. IsRunning(state) /\ Value(state) = v
  BY <1>1, <1>2, <1>3, Widths DEF IsRunning, Value
<1> QED BY <1>4 DEF v

(* elapsedTime of a state computes the time of its brew.                   *)
LEMMA ElapsedIsBrewTime ==
    ASSUME NEW b \in [phase : {"zero", "running", "stopped"},
                      from : 0 .. Half + MaxTime, to : 0 .. Half + MaxTime],
           NEW state \in 0 .. Word - 1, clock \in 0 .. Half + MaxTime,
           Tells(state, b), ~Wrapped(b)
    PROVE  Elapsed(state) = BrewTime(b)
<1>1. b.from \in Nat /\ clock \in Nat  BY Widths
<1>2. CASE b.phase = "zero"
  BY <1>2, Widths DEF Tells, Elapsed, IsRunning, BrewTime, EndOf
<1>3. CASE b.phase = "running"
  <2>1. state = Half + (b.from % Half) /\ b.from <= clock
    BY <1>3 DEF Tells
  <2>2. clock \div Half = b.from \div Half
    BY <1>3 DEF Wrapped, EndOf
  <2>4. IsRunning(state) /\ Value(state) = b.from % Half
    BY <1>1, <2>1, RunningValue
  <2>5. ((clock % Half) - (b.from % Half)) % (2 * Half) = clock - b.from
    BY <1>1, <2>1, <2>2, Widths, LowBitsDifference
  <2> QED BY <1>3, <2>4, <2>5, Widths DEF Elapsed, Now, BrewTime, EndOf
<1>4. CASE b.phase = "stopped"
  BY <1>4, Widths DEF Tells, Elapsed, IsRunning, BrewTime, EndOf
<1> QED BY <1>2, <1>3, <1>4

-----------------------------------------------------------------------------
LEMMA InitIInv == Init => IInv
<1> SUFFICES ASSUME Init PROVE IInv
  OBVIOUS
<1>1. clock \in 0 .. Half + MaxTime  BY Widths DEF Init, TimerInit
<1>2. 0 \in 0 .. Word - 1  BY Widths
<1>3. MetricsTypeOK
  <2>1. NoBrew \in [phase : {"zero", "running", "stopped"},
                   from : 0 .. Half + MaxTime, to : 0 .. Half + MaxTime]
    BY Widths DEF NoBrew
  <2>2. 0 \in 0 .. MaxNotifies  BY MetricsAssumption
  <2> QED BY <1>1, <1>2, <2>1, <2>2
    DEF Init, TimerInit, MetricsTypeOK, TimerTypeOK
<1>4. TimerInv /\ StartInv /\ WritesDoNotOverlap
  BY DEF Init, TimerInit, TimerInv, Tells, NoBrew, StartInv, WritesDoNotOverlap
<1> QED BY <1>3, <1>4 DEF IInv

(* The executor's calls of the timer.                                      *)
LEMMA TimingStep ==
    ASSUME IInv, Timing
    PROVE  IInv'
<1>1. /\ UNCHANGED <<stream, wpc, loaded, seen, shown, status, writing,
                     notifies, cancelled, finished>>
      /\ Start \/ Stop \/ Reset \/ Tick
  BY DEF Timing, readVars, grpcVars
<1>2. /\ clock \in 0 .. Half + MaxTime /\ clock \in Nat
      /\ timer \in 0 .. Word - 1
      /\ brew \in [phase : {"zero", "running", "stopped"},
                   from : 0 .. Half + MaxTime, to : 0 .. Half + MaxTime]
      /\ seen \in [phase : {"zero", "running", "stopped"},
                   from : 0 .. Half + MaxTime, to : 0 .. Half + MaxTime]
      /\ Now \in Nat /\ Value(timer) \in Nat
  <2>1. /\ clock \in 0 .. Half + MaxTime
        /\ timer \in 0 .. Word - 1
        /\ brew \in [phase : {"zero", "running", "stopped"},
                     from : 0 .. Half + MaxTime, to : 0 .. Half + MaxTime]
        /\ seen \in [phase : {"zero", "running", "stopped"},
                     from : 0 .. Half + MaxTime, to : 0 .. Half + MaxTime]
    BY DEF IInv, MetricsTypeOK, TimerTypeOK
  <2>2. clock \in Nat /\ timer \in Int  BY <2>1, Widths
  <2>3. clock % Half \in 0 .. Half - 1 /\ timer % Half \in 0 .. Half - 1
    BY <2>2, Remainders
  <2> QED BY <2>1, <2>2, <2>3 DEF Now, Value
<1>3. clock' \in 0 .. Half + MaxTime /\ clock <= clock'
  BY <1>1, <1>2, Widths DEF Start, Stop, Reset, Tick
<1>4. TimerTypeOK' /\ Tells(timer, brew)'
  <2>1. CASE Start
    <3>1. timer' \in 0 .. Word - 1 /\ timer' = Half + (clock % Half)
      <4>1. clock \in Int  BY <1>2
      <4> QED BY <4>1, <2>1, Remainders DEF Start, Now
    <3>2. brew' = [phase |-> "running", from |-> clock, to |-> clock]
          /\ clock' = clock
      BY <2>1 DEF Start
    <3> QED BY <1>2, <3>1, <3>2 DEF Tells, TimerTypeOK
  <2>2. CASE Stop
    <3>1. /\ clock' = clock
          /\ timer' = IF IsRunning(timer) THEN (Now - Value(timer)) % Word
                      ELSE timer
          /\ brew' = IF brew.phase = "running"
                     THEN [brew EXCEPT !.phase = "stopped", !.to = clock]
                     ELSE brew
      BY <2>2 DEF Stop
    <3>2. timer' \in 0 .. Word - 1
      <4>1. Now - Value(timer) \in Int  BY <1>2
      <4>2. (Now - Value(timer)) % Word \in 0 .. Word - 1  BY <4>1, Remainders
      <4> QED BY <3>1, <4>2, <1>2
    <3>3. TimerTypeOK'
      BY <1>2, <3>1, <3>2 DEF TimerTypeOK
    <3>4. CASE brew.phase = "running"
      <4>1. /\ timer = Half + (brew.from % Half) /\ brew.from <= clock
            /\ brew.from \in Nat
        BY <1>2, <3>4, Widths DEF IInv, TimerInv, Tells
      <4>2. IsRunning(timer) /\ Value(timer) = brew.from % Half
        BY <4>1, RunningValue
      <4>3. timer' = ((clock % Half) - (brew.from % Half)) % (2 * Half)
        BY <3>1, <4>2, Widths DEF Now
      <4>4. /\ brew'.phase = "stopped" /\ brew'.to = clock
            /\ brew'.from = brew.from
        BY <1>2, <3>1, <3>4
      <4>5. ASSUME clock \div Half = brew.from \div Half
            PROVE  timer' = clock - brew.from /\ timer' \in 0 .. Half - 1
        <5>1. brew.from \div Half = clock \div Half  BY <4>5
        <5>2. /\ clock - brew.from \in 0 .. Half - 1
              /\ ((clock % Half) - (brew.from % Half)) % (2 * Half)
                   = clock - brew.from
          BY <4>1, <5>1, <1>2, Widths, LowBitsDifference
        <5> QED BY <4>3, <5>2
      <4>6. Tells(timer, brew)'
        BY <4>4, <4>5 DEF Tells, Wrapped, EndOf
      <4> QED BY <3>3, <4>6
    <3>5. CASE brew.phase = "stopped"
      <4>1. brew' = brew  BY <3>1, <3>5
      <4>2. ~Wrapped(brew) => timer' = timer
        BY <3>1, <3>5, Widths DEF IInv, TimerInv, Tells, IsRunning
      <4>3. Tells(timer, brew)'
        BY <4>1, <4>2, <3>5, Widths DEF IInv, TimerInv, Tells, Wrapped, EndOf
      <4> QED BY <3>3, <4>3
    <3>6. CASE brew.phase = "zero"
      <4>1. brew' = brew /\ timer = 0  BY <3>1, <3>6 DEF IInv, TimerInv, Tells
      <4>2. timer' = timer  BY <3>1, <4>1, Widths DEF IsRunning
      <4>3. Tells(timer, brew)'
        BY <4>1, <4>2, <3>6 DEF IInv, TimerInv, Tells
      <4> QED BY <3>3, <4>3
    <3> QED BY <1>2, <3>4, <3>5, <3>6
  <2>3. CASE Reset
    <3>1. 0 \in 0 .. Word - 1  BY Widths
    <3> QED BY <1>2, <2>3, <3>1, Widths DEF Reset, NoBrew, Tells, TimerTypeOK
  <2>4. CASE Tick
    <3>1. timer' = timer /\ brew' = brew  BY <2>4 DEF Tick
    <3>2. TimerTypeOK'  BY <1>2, <1>3, <3>1 DEF TimerTypeOK
    <3>3. Tells(timer, brew)'
      <4>1. brew.from \in Nat /\ clock' \in Nat  BY <1>2, <1>3, Widths
      <4> QED BY <1>2, <1>3, <3>1, <4>1 DEF IInv, TimerInv, Tells, Wrapped, EndOf
    <3> QED BY <3>2, <3>3
  <2> QED BY <1>1, <2>1, <2>2, <2>3, <2>4
<1>5. wpc' = "compute" => Tells(loaded, seen)'
  <2>1. seen.from \in Nat /\ clock' \in Nat  BY <1>2, <1>3, Widths
  <2> QED BY <1>1, <1>2, <1>3, <2>1 DEF IInv, TimerInv, Tells, Wrapped, EndOf
<1>6. MetricsTypeOK'
  BY <1>1, <1>4 DEF IInv, MetricsTypeOK
<1> QED BY <1>1, <1>4, <1>5, <1>6 DEF IInv, TimerInv, StartInv, WritesDoNotOverlap

(* The stream's own steps leave the timer alone.                           *)
LEMMA StreamStep ==
    ASSUME IInv,
           \/ Open \/ WorkerLoop \/ WriteNotify \/ Cancel \/ Done
           \/ \E ok \in BOOLEAN : WriteDone(ok)
    PROVE  IInv'
<1> USE DEF timerVars, readVars, grpcVars
<1>1. UNCHANGED <<clock, timer, brew>>
  BY DEF Open, WorkerLoop, Load, Compute, MarkInProgress, StartWrite, AwaitWrite,
     Pause, Finish, Exit, WriteNotify, Cancel, Done, WriteDone
<1>2. TimerTypeOK'
  BY <1>1 DEF IInv, MetricsTypeOK, TimerTypeOK
<1>3. Tells(timer, brew)'
  BY <1>1 DEF IInv, TimerInv, Tells, Wrapped, EndOf
<1>4. wpc' = "compute" => Tells(loaded, seen)'
  <2>1. CASE Load
    BY <2>1, <1>1 DEF Load, IInv, TimerInv, Tells, Wrapped, EndOf
  <2>2. CASE ~Load
    <3>1. wpc' = "compute" => wpc = "compute" /\ loaded' = loaded /\ seen' = seen
      BY <2>2 DEF Open, WorkerLoop, Compute, MarkInProgress, StartWrite,
         AwaitWrite, Pause, Finish, Exit, WriteNotify, Cancel, Done, WriteDone,
         IInv, MetricsTypeOK
    <3> QED BY <3>1, <1>1 DEF IInv, TimerInv, Tells, Wrapped, EndOf
  <2> QED BY <2>1, <2>2
<1>5. shown' \in 0 .. Word - 1
  <2>1. CASE Compute
    <3>1. clock \in Int /\ loaded \in Int
      BY Widths DEF IInv, MetricsTypeOK, TimerTypeOK
    <3>2. Now \in Int /\ Value(loaded) \in Int
      BY <3>1, Remainders DEF Now, Value
    <3>3. (Now - Value(loaded)) % Word \in 0 .. Word - 1
      <4>1. Now - Value(loaded) \in Int  BY <3>2
      <4> QED BY <4>1, Remainders
    <3>4. Elapsed(loaded) \in 0 .. Word - 1
      BY <3>3 DEF IInv, MetricsTypeOK, Elapsed
    <3> QED BY <2>1, <3>4 DEF Compute
  <2>2. CASE ~Compute
    <3>1. shown' = shown
      BY <2>2 DEF Open, WorkerLoop, Load, MarkInProgress, StartWrite, AwaitWrite,
         Pause, Finish, Exit, WriteNotify, Cancel, Done, WriteDone
    <3> QED BY <3>1 DEF IInv, MetricsTypeOK
  <2> QED BY <2>1, <2>2
<1>6. /\ stream' \in {"new", "open", "refused", "deleted"}
      /\ loaded' \in 0 .. Word - 1
      /\ seen' \in [phase : {"zero", "running", "stopped"},
                    from : 0 .. Half + MaxTime, to : 0 .. Half + MaxTime]
  BY DEF IInv, MetricsTypeOK, TimerTypeOK, Open, WorkerLoop, Load, Compute,
     MarkInProgress, StartWrite, AwaitWrite, Pause, Finish, Exit, WriteNotify,
     Cancel, Done, WriteDone
<1>7. /\ status' \in {"Idle", "InProgress", "Failed"}
      /\ writing' \in BOOLEAN /\ cancelled' \in BOOLEAN /\ finished' \in BOOLEAN
  <2>1. CASE Open \/ WorkerLoop \/ WriteNotify \/ Cancel \/ Done
    BY <2>1 DEF IInv, MetricsTypeOK, Open, WorkerLoop, Load, Compute,
       MarkInProgress, StartWrite, AwaitWrite, Pause, Finish, Exit, WriteNotify,
       Cancel, Done
  <2>2. CASE \E ok \in BOOLEAN : WriteDone(ok)
    BY <2>2 DEF IInv, MetricsTypeOK, WriteDone
  <2> QED BY <2>1, <2>2
<1>8. wpc' \in {"unborn", "load", "compute", "mark", "start", "await",
                 "dozing", "pause", "finish", "exit", "ended"}
  <2>1. CASE AwaitWrite
    BY <2>1 DEF IInv, MetricsTypeOK, AwaitWrite
  <2>2. CASE WorkerLoop /\ ~AwaitWrite
    BY <2>2 DEF WorkerLoop, Load, Compute, MarkInProgress, StartWrite, Pause,
       Finish, Exit
  <2>3. CASE Open \/ WriteNotify \/ Cancel \/ Done
    BY <2>3 DEF IInv, MetricsTypeOK, Open, WriteNotify, Cancel, Done
  <2>4. CASE \E ok \in BOOLEAN : WriteDone(ok)
    BY <2>4 DEF IInv, MetricsTypeOK, WriteDone
  <2> QED BY <2>1, <2>2, <2>3, <2>4
<1>9. notifies' \in 0 .. MaxNotifies
  BY MetricsAssumption DEF IInv, MetricsTypeOK, Open, WorkerLoop, Load, Compute,
     MarkInProgress, StartWrite, AwaitWrite, Pause, Finish, Exit, WriteNotify,
     Cancel, Done, WriteDone
<1>10. StartInv' /\ WritesDoNotOverlap'
  <2> USE DEF IInv, StartInv, WritesDoNotOverlap
  <2>1. CASE AwaitWrite
    BY <2>1 DEF AwaitWrite, MetricsTypeOK
  <2>2. CASE WorkerLoop /\ ~AwaitWrite
    BY <2>2 DEF WorkerLoop, Load, Compute, MarkInProgress, StartWrite, Pause,
       Finish, Exit
  <2>3. CASE Open
    BY <2>3 DEF Open
  <2>4. CASE WriteNotify \/ Cancel \/ Done
    BY <2>4 DEF WriteNotify, Cancel, Done
  <2>5. CASE \E ok \in BOOLEAN : WriteDone(ok)
    BY <2>5 DEF WriteDone
  <2> QED BY <2>1, <2>2, <2>3, <2>4, <2>5
<1> QED
  BY <1>2, <1>3, <1>4, <1>5, <1>6, <1>7, <1>8, <1>9, <1>10
  DEF IInv, MetricsTypeOK, TimerInv

LEMMA NextIInv == IInv /\ [Next]_vars => IInv'
<1> SUFFICES ASSUME IInv, [Next]_vars PROVE IInv'
  OBVIOUS
<1>1. CASE UNCHANGED vars
  BY <1>1 DEF vars, timerVars, readVars, grpcVars, IInv, MetricsTypeOK,
     TimerTypeOK, TimerInv, Tells, Wrapped, EndOf, StartInv, WritesDoNotOverlap
<1>2. CASE Next
  BY <1>2, TimingStep, StreamStep DEF Next
<1> QED BY <1>1, <1>2

THEOREM Invariance == Spec => []IInv
BY InitIInv, NextIInv, PTL DEF Spec

(* Every variable keeps its type: the timer stays within its word.         *)
THEOREM TypeCorrect == Spec => []MetricsTypeOK
<1>1. IInv => MetricsTypeOK  BY DEF IInv
<1> QED BY <1>1, Invariance, PTL

(* The worker does not touch the metrics while gRPC has them, and           *)
(* OnWriteDone's store is not overwritten by the worker's.                 *)
THEOREM MetricsWritesAreSerial == Spec => []WritesDoNotOverlap
<1>1. IInv => WritesDoNotOverlap  BY DEF IInv
<1> QED BY <1>1, Invariance, PTL

(* elapsedTime is the time of the brew whose state it loaded, whatever the *)
(* executor does between the load and the reading of the clock.            *)
THEOREM BrewTimeIsRight == Spec => MetricsShowBrewTime
<1>1. ASSUME IInv, [Next]_vars, wpc = "compute", wpc' = "mark", ~Wrapped(seen)
      PROVE  shown' = BrewTime(seen)
  <2>1. Compute
    BY <1>1 DEF Next, vars, Timing, Open, WorkerLoop, Load, MarkInProgress,
       StartWrite, AwaitWrite, Pause, Finish, Exit, WriteNotify, Cancel, Done,
       WriteDone
  <2>2. Elapsed(loaded) = BrewTime(seen)
    BY <1>1, ElapsedIsBrewTime DEF IInv, TimerInv, MetricsTypeOK, TimerTypeOK
  <2> QED BY <2>1, <2>2 DEF Compute
<1>2. IInv /\ [Next]_vars =>
        [wpc = "compute" /\ wpc' = "mark" /\ ~Wrapped(seen)
           => shown' = BrewTime(seen)]_vars
  BY <1>1
<1> QED BY <1>2, Invariance, PTL DEF Spec, MetricsShowBrewTime
==============================================================================
