------------------------- MODULE HeatingStatusProofs -------------------------
(***************************************************************************)
(* For any temperatures, windows, hysteresis, rates of the sensor and      *)
(* streams: the two threads never publish at once, what they publish       *)
(* reaches the LEDs and every stream, and Ready takes the hysteresis that  *)
(* the callbacks ask for, no less and no more.                             *)
(***************************************************************************)
EXTENDS HeatingStatus, DataLemmas

(* What the callbacks ask for covers no more than the period, and every    *)
(* count below it is a shorter time.                                       *)
LEMMA RequiredRange ==
    ASSUME Period \in Nat, rate \in Nat \ {0}
    PROVE  /\ RequiredInvocations \in Nat \ {0}
           /\ (RequiredInvocations - 1) * rate \in 0 .. Period
           /\ \A h \in Nat : h < RequiredInvocations =>
                h * rate \in 0 .. (RequiredInvocations - 1) * rate
           /\ \A h \in Nat : h < RequiredInvocations - 1 =>
                h * rate < (RequiredInvocations - 1) * rate
<1> DEFINE q == RequiredInvocations
<1>1. q \in Nat \ {0} /\ (q - 1) * rate \in 0 .. Period
  <2>1. CASE Period = 0
    BY <2>1 DEF RequiredInvocations
  <2>2. CASE Period # 0
    <3> DEFINE d == (Period + rate - 1) \div rate
               m == (Period + rate - 1) % rate
    <3>1. q = d  BY <2>2 DEF RequiredInvocations
    <3>2. /\ d \in Int /\ m \in 0 .. rate - 1
          /\ Period + rate - 1 = rate * d + m
      <4>1. Period + rate - 1 \in Int  OBVIOUS
      <4> QED BY <4>1, DivMod
    <3> HIDE DEF d, m
    <3>3. d > 0
      <4> SUFFICES ASSUME d <= 0 PROVE FALSE
        BY <3>2
      <4>1. rate * d <= 0  BY <3>2
      <4> QED BY <3>2, <4>1, <2>2
    <3>4. (d - 1) * rate = rate * d - rate  BY <3>2
    <3>5. (d - 1) * rate \in Int  BY <3>2
    <3>6. (d - 1) * rate >= 0  BY <3>2, <3>3
    <3>7. (d - 1) * rate <= Period
      <4>1. rate * d \in Int  BY <3>2
      <4> QED BY <3>2, <3>4, <4>1
    <3> QED BY <3>1, <3>2, <3>3, <3>5, <3>6, <3>7
  <2> QED BY <2>1, <2>2
<1> HIDE DEF q
<1>2. \A h \in Nat : h < q => h * rate \in 0 .. (q - 1) * rate
  <2> SUFFICES ASSUME NEW h \in Nat, h < q
               PROVE  h * rate \in 0 .. (q - 1) * rate
    OBVIOUS
  <2>1. h * rate \in Nat /\ (q - 1) * rate \in Nat  BY <1>1
  <2>2. h <= q - 1  BY <1>1
  <2>3. h * rate <= (q - 1) * rate  BY <2>2, <1>1
  <2> QED BY <2>1, <2>3
<1>3. \A h \in Nat : h < q - 1 => h * rate < (q - 1) * rate
  <2> SUFFICES ASSUME NEW h \in Nat, h < q - 1
               PROVE  h * rate < (q - 1) * rate
    OBVIOUS
  <2>1. (h + 1) * rate <= (q - 1) * rate  BY <1>1
  <2>2. (h + 1) * rate = h * rate + rate  OBVIOUS
  <2>3. h * rate \in Nat /\ (q - 1) * rate \in Nat  BY <1>1
  <2> QED BY <2>1, <2>2, <2>3
<1> QED BY <1>1, <1>2, <1>3 DEF q

(* While the status is not Ready, what a callback has captured tells how   *)
(* long the readings have been in the window.                              *)
Counts(held, w) ==
    IF rate > 0
    THEN /\ held < RequiredInvocations
         /\ w = IF held = 0 THEN None ELSE (held - 1) * rate
    ELSE w = held /\ (held # None => held < Period)

CountInv ==
    cached # "Ready" =>
        /\ callback # None => Counts(callback.held, inWindow)
        /\ next # None => Counts(next.held, inWindow)

(* The worker works with no callback registered; the sensor's thread only  *)
(* in one.  What either publishes is the cached status.                    *)
PublishInv ==
    /\ pc["worker"] # "idle" => callback = None
    /\ pc["worker"] = "idle" => next = None
    /\ pc["sensor"] # "idle" => callback # None
    /\ \A th \in Threads :
         publishing[th] = IF pc[th] \in {"store", "enqueue"} THEN cached ELSE None

(* When nothing is under way that would correct it, what new streams read  *)
(* and what the streams were sent, or will have been, is the cached status.*)
StoredInv == (\A th \in Threads : pc[th] # "store") => stored = cached
QueueInv ==
    (\A th \in Threads : publishing[th] = None) =>
        IF queue # <<>> THEN queue[Len(queue)] = cached
        ELSE \A s \in Sinks : view[s] # None => view[s] = cached

IInv ==
    /\ TypeOK
    /\ CountInv
    /\ PublishInv
    /\ StoredInv
    /\ QueueInv
    /\ LedsFollowStatus

Result(status, gap) ==
    IF rate > 0 THEN FixedRate(status, callback.held, gap)
    ELSE VariableRate(status, callback.held, gap)

Reading(status, gap) ==
    IF status # "Ready" THEN None ELSE Least(Elapsed(inWindow, gap), Period)

(* One reading: a callback that turns the status to Ready has seen the      *)
(* hysteresis, one that does not goes on counting right.                   *)
LEMMA CountStep ==
    ASSUME TypeOK, CountInv, callback # None,
           NEW status \in Status, NEW gap \in Gaps
    PROVE  LET r == Result(status, gap)
               w == Reading(status, gap)
           IN  /\ r.held \in Held
               /\ r.apply = status \/ (r.apply = None /\ status = "Ready")
               /\ w \in 0 .. Period \cup {None}
               /\ (IF r.apply = None THEN cached ELSE r.apply) # "Ready"
                    => Counts(r.held, w)
               /\ cached # "Ready" /\ r.apply = "Ready"
                    => w # None /\ w >= Hysteresis
<1> DEFINE r == Result(status, gap)
           w == Reading(status, gap)
           held == callback.held
<1>1. /\ rate \in Nat /\ Period \in Nat /\ None \notin Nat
      /\ held \in Held /\ inWindow \in 0 .. Period \cup {None}
      /\ None \notin Status /\ gap \in Nat
  BY HeatingAssumption DEF TypeOK, Callbacks, Gaps, Status
<1>2. w \in 0 .. Period \cup {None}
  BY <1>1 DEF Reading, Least, Elapsed
<1>3. CASE rate > 0
  <2> DEFINE q == RequiredInvocations
  <2>1. /\ q \in Nat \ {0}
        /\ (q - 1) * rate \in 0 .. Period
        /\ \A h \in Nat : h < q => h * rate \in 0 .. (q - 1) * rate
    BY <1>1, <1>3, RequiredRange
  <2>2. gap = rate /\ held \in 0 .. q /\ r = FixedRate(status, held, gap)
    BY <1>1, <1>3 DEF Gaps, Held, Result
  <2>3. CASE status # "Ready"
    <3>1. r = [held |-> 0, apply |-> status] /\ w = None
      BY <2>2, <2>3 DEF FixedRate, Reading
    <3> QED BY <3>1, <2>1, <1>1, <1>2, <1>3, <2>3 DEF Counts, Held
  <2>4. CASE status = "Ready" /\ cached = "Ready"
    <3>1. r = [held |-> held, apply |-> None]
      BY <2>2, <2>4 DEF FixedRate
    <3> QED BY <3>1, <1>1, <1>2, <2>4
  <2>5. CASE status = "Ready" /\ cached # "Ready"
    <3>1. held < q /\ inWindow = IF held = 0 THEN None ELSE (held - 1) * rate
      BY <2>5, <1>3 DEF CountInv, Counts
    <3>2. w = held * rate
      <4>1. Elapsed(inWindow, gap) = held * rate
        <5>1. CASE held = 0
          BY <5>1, <3>1, <1>1 DEF Elapsed
        <5>2. CASE held # 0
          <6>1. held - 1 \in Nat /\ (held - 1) * rate \in Nat
            BY <5>2, <2>2, <1>1, <2>1
          <6>2. (held - 1) * rate + rate = held * rate
            BY <2>2, <1>1, <2>1
          <6> QED BY <5>2, <6>1, <6>2, <3>1, <2>2, <1>1 DEF Elapsed
        <5> QED BY <5>1, <5>2
      <4>2. held * rate \in 0 .. Period
        <5>1. held \in Nat /\ held < q  BY <2>1, <2>2, <3>1
        <5>2. held * rate \in 0 .. (q - 1) * rate  BY <2>1, <5>1
        <5> QED BY <2>1, <5>2, <1>1
      <4> QED BY <4>1, <4>2, <2>5, <1>1 DEF Reading, Least
    <3>3. r = [held |-> held + 1,
               apply |-> IF held + 1 < q THEN None ELSE "Ready"]
      BY <2>2, <2>5 DEF FixedRate
    <3>4. r.held = held + 1 /\ held \in 0 .. q - 1
      BY <3>1, <3>3, <2>1, <2>2
    <3>5. r.held \in Held  BY <3>4, <1>3, <2>1 DEF Held
    <3>6. CASE held + 1 < q
      <4>1. r.apply = None  BY <3>3, <3>6
      <4>2. (held + 1) - 1 = held  BY <3>4, <2>1
      <4>3. Counts(r.held, w)
        <5>1. r.held # 0 /\ r.held - 1 = held  BY <3>4, <4>2, <2>1
        <5> QED BY <5>1, <3>2, <3>4, <3>6, <1>3 DEF Counts
      <4> QED BY <4>1, <4>3, <3>5, <1>1, <1>2, <2>5
    <3>7. CASE ~(held + 1 < q)
      <4>1. r.apply = "Ready"  BY <3>3, <3>7
      <4>2. held = q - 1  BY <3>4, <3>7, <2>1
      <4>3. w = Hysteresis /\ w \in Nat
        BY <4>2, <3>2, <2>1, <1>3 DEF Hysteresis
      <4> QED BY <4>1, <4>3, <3>5, <1>1, <1>2, <2>5 DEF Status
    <3> QED BY <3>6, <3>7
  <2> QED BY <2>3, <2>4, <2>5
<1>4. CASE ~(rate > 0)
  <2>1. held \in 0 .. Period \cup {None} /\ r = VariableRate(status, held, gap)
    BY <1>1, <1>4 DEF Held, Result
  <2>2. CASE status # "Ready"
    <3>1. r = [held |-> None, apply |-> status] /\ w = None
      BY <2>1, <2>2 DEF VariableRate, Reading
    <3> QED BY <3>1, <1>1, <1>2, <1>4, <2>2 DEF Counts, Held
  <2>3. CASE status = "Ready" /\ cached = "Ready"
    <3>1. r = [held |-> held, apply |-> None]
      BY <2>1, <2>3 DEF VariableRate
    <3> QED BY <3>1, <1>1, <1>2, <2>3
  <2>4. CASE status = "Ready" /\ cached # "Ready"
    <3>1. inWindow = held
      BY <2>4, <1>4 DEF CountInv, Counts
    <3> DEFINE e == Elapsed(held, gap)
    <3>2. e \in Nat  BY <2>1, <1>1 DEF Elapsed
    <3>3. w = Least(e, Period)  BY <3>1, <2>4 DEF Reading
    <3>4. CASE e >= Period
      <4>1. r = [held |-> None, apply |-> "Ready"]
        BY <2>1, <2>4, <3>4 DEF VariableRate
      <4>2. w = Period  BY <3>2, <3>3, <3>4, <1>1 DEF Least
      <4> QED BY <4>1, <4>2, <1>1, <1>2, <1>4, <2>4 DEF Held, Hysteresis, Status
    <3>5. CASE ~(e >= Period)
      <4>1. r = [held |-> e, apply |-> None]
        BY <2>1, <2>4, <3>5 DEF VariableRate
      <4>2. w = e  BY <3>2, <3>3, <3>5, <1>1 DEF Least
      <4> QED BY <4>1, <4>2, <3>2, <3>5, <1>1, <1>2, <1>4, <2>4 DEF Counts, Held
    <3> QED BY <3>4, <3>5
  <2> QED BY <2>2, <2>3, <2>4
<1> QED BY <1>3, <1>4, <1>1

-----------------------------------------------------------------------------
LEMMA InitIInv == Init => IInv
<1> SUFFICES ASSUME Init PROVE IInv
  OBVIOUS
<1> USE DEF Init
<1>1. TypeOK
  BY DEF TypeOK, Dark, Status
<1>2. CountInv /\ StoredInv /\ QueueInv
  BY DEF CountInv, StoredInv, QueueInv
<1>3. PublishInv  BY DEF PublishInv, Threads
<1>4. LedsFollowStatus  BY DEF LedsFollowStatus
<1> QED BY <1>1, <1>2, <1>3, <1>4 DEF IInv

(* The types of the values that the actions make.                          *)
LEMMA ValueTypes ==
    /\ None \notin Status /\ None \notin Callbacks /\ None \notin Nat
    /\ \A mode, status : Leds(mode, status) \in
         [power : BOOLEAN, brew : BOOLEAN, steam : BOOLEAN]
    /\ \A t, target, window : MakeStatus(t, target, window) \in Status
<1>1. None \notin Status /\ None \notin Nat
  BY HeatingAssumption DEF Status
<1>2. None \notin Callbacks
  <2>1. Held \subseteq Nat \cup {None}
    <3>1. \A n : 0 .. n \subseteq Nat
      OBVIOUS
    <3> QED BY <3>1 DEF Held
  <2> QED BY <2>1, HeatingAssumption DEF Callbacks, Modes
<1>3. \A mode, status : Leds(mode, status) \in
        [power : BOOLEAN, brew : BOOLEAN, steam : BOOLEAN]
  BY DEF Leds
<1>4. \A t, target, window : MakeStatus(t, target, window) \in Status
  BY DEF MakeStatus, Status
<1> QED BY <1>1, <1>2, <1>3, <1>4

(* publishStatus of a thread while the other does not publish.             *)
LEMMA PublishKeeps ==
    ASSUME IInv, \A th \in Threads : pc[th] = "idle",
           NEW th \in Threads, NEW status \in Status, Publish(th, status),
           UNCHANGED <<stored, queue, view>>
    PROVE  /\ cached' = status
           /\ pc' \in [Threads -> {"idle", "store", "enqueue", "done"}]
           /\ publishing' \in [Threads -> Status \cup {None}]
           /\ \A x \in Threads : publishing'[x] =
                IF pc'[x] \in {"store", "enqueue"} THEN cached' ELSE None
           /\ \A x \in Threads : pc'[x] = "idle" <=> x # th
           /\ StoredInv' /\ QueueInv'
<1>1. /\ pc \in [Threads -> {"idle", "store", "enqueue", "done"}]
      /\ publishing \in [Threads -> Status \cup {None}]
      /\ \A x \in Threads : publishing[x] = None
      /\ None \notin Status
  BY ValueTypes DEF IInv, TypeOK, PublishInv
<1>2. CASE status = cached
  <2>1. /\ cached' = cached /\ publishing' = publishing
        /\ pc' = [pc EXCEPT ![th] = "done"]
    BY <1>2 DEF Publish
  <2>2. StoredInv'  BY <1>1, <2>1 DEF IInv, StoredInv
  <2>3. QueueInv'  BY <1>1, <2>1 DEF IInv, QueueInv
  <2> QED BY <1>1, <1>2, <2>1, <2>2, <2>3
<1>3. CASE status # cached
  <2>1. /\ cached' = status
        /\ publishing' = [publishing EXCEPT ![th] = status]
        /\ pc' = [pc EXCEPT ![th] = "store"]
    BY <1>3 DEF Publish
  <2>2. pc'[th] = "store" /\ publishing'[th] # None
    BY <1>1, <2>1
  <2>3. StoredInv'  BY <2>2 DEF StoredInv
  <2>4. QueueInv'  BY <2>2 DEF QueueInv
  <2> QED BY <1>1, <2>1, <2>3, <2>4
<1> QED BY <1>2, <1>3

LEMMA SampleStep ==
    ASSUME IInv, UNCHANGED rate, NEW t \in Temps, NEW gap \in Gaps, Sample(t, gap)
    PROVE  /\ IInv'
           /\ cached # "Ready" /\ cached' = "Ready"
                => inWindow' # None /\ inWindow' >= Hysteresis
<1> DEFINE status == MakeStatus(t, callback.target, Window(callback.mode))
           r == Result(status, gap)
           w == Reading(status, gap)
<1>1. /\ callback # None /\ callback \in Callbacks
      /\ next = None
      /\ \A th \in Threads : pc[th] = "idle"
      /\ status \in Status
  BY ValueTypes DEF Sample, IInv, TypeOK, PublishInv, Threads
<1>2. /\ callback' = [callback EXCEPT !.held = r.held]
      /\ inWindow' = w
      /\ IF r.apply = None
         THEN UNCHANGED <<cached, leds, pc, publishing>>
         ELSE Apply("sensor", callback.mode, r.apply)
      /\ UNCHANGED <<stored, next, queue, view>>
  BY DEF Sample, Result, Reading
<1> HIDE DEF status
<1>3. /\ r.held \in Held
      /\ r.apply = status \/ (r.apply = None /\ status = "Ready")
      /\ w \in 0 .. Period \cup {None}
      /\ (IF r.apply = None THEN cached ELSE r.apply) # "Ready"
           => Counts(r.held, w)
      /\ cached # "Ready" /\ r.apply = "Ready" => w # None /\ w >= Hysteresis
  BY <1>1, CountStep DEF IInv
<1> HIDE DEF r, w
<1>4. /\ callback' \in Callbacks
      /\ callback'.held = r.held /\ callback'.mode = callback.mode
  BY <1>1, <1>2, <1>3 DEF Callbacks
<1>5. Callbacks' = Callbacks
  BY DEF Callbacks, Held, RequiredInvocations
<1>6. cached' = IF r.apply = None THEN cached ELSE r.apply
  BY <1>2 DEF Apply, Publish
<1>7. CountInv'
  <2>1. cached' # "Ready" => Counts(r.held, w)
    BY <1>3, <1>6
  <2>2. callback'.held = r.held /\ inWindow' = w /\ next' = None /\ rate' = rate
    BY <1>1, <1>2, <1>4
  <2> QED BY <2>1, <2>2 DEF CountInv, Counts, RequiredInvocations
<1>8. callback' # None /\ next' = None
  BY <1>1, <1>2, <1>4, ValueTypes
<1>9. CASE r.apply = None
  <2>1. UNCHANGED <<cached, leds, pc, publishing, stored, next, queue, view>>
    BY <1>2, <1>9
  <2>2. TypeOK'
    BY <2>1, <1>2, <1>3, <1>4, <1>5 DEF IInv, TypeOK
  <2>3. PublishInv' /\ StoredInv' /\ QueueInv'
    BY <2>1, <1>1, <1>8 DEF IInv, PublishInv, StoredInv, QueueInv
  <2>4. LedsFollowStatus'
    BY <2>1, <1>1, <1>4, <1>8 DEF IInv, LedsFollowStatus, Leds
  <2> QED BY <2>1, <2>2, <2>3, <2>4, <1>7 DEF IInv
<1>10. CASE r.apply # None
  <2>1. /\ r.apply = status
        /\ leds' = Leds(callback.mode, status)
        /\ Publish("sensor", status)
    BY <1>2, <1>3, <1>10 DEF Apply
  <2>2. /\ cached' = status
        /\ pc' \in [Threads -> {"idle", "store", "enqueue", "done"}]
        /\ publishing' \in [Threads -> Status \cup {None}]
        /\ \A x \in Threads : publishing'[x] =
             IF pc'[x] \in {"store", "enqueue"} THEN cached' ELSE None
        /\ \A x \in Threads : pc'[x] = "idle" <=> x # "sensor"
        /\ StoredInv' /\ QueueInv'
    <3>1. "sensor" \in Threads  BY DEF Threads
    <3> QED BY <2>1, <3>1, <1>1, <1>2, PublishKeeps
  <2>3. TypeOK'
    BY <2>1, <2>2, <1>1, <1>2, <1>3, <1>4, <1>5, ValueTypes DEF IInv, TypeOK
  <2>4. PublishInv'
    BY <2>2, <1>8 DEF PublishInv, Threads
  <2>5. LedsFollowStatus'
    BY <2>1, <2>2, <1>4, <1>8 DEF LedsFollowStatus, Leds
  <2> QED BY <2>2, <2>3, <2>4, <2>5, <1>2, <1>3, <1>6, <1>7 DEF IInv
<1> QED BY <1>9, <1>10, <1>2, <1>3, <1>6

(* indicateBrewState and indicateSteamState, up to the publication.        *)
LEMMA IndicateStep ==
    ASSUME IInv, UNCHANGED rate, NEW mode \in Modes, NEW target \in Targets,
           NEW t \in Temps, Indicate(mode, target, t)
    PROVE  IInv'
<1> DEFINE status == MakeStatus(t, target, Window(mode))
<1>1. /\ \A th \in Threads : pc[th] = "idle"
      /\ status \in Status
      /\ leds' = Leds(mode, status) /\ Publish("worker", status)
      /\ callback' = None /\ next' = MakeCallback(mode, target)
      /\ inWindow' = IF status = "Ready" THEN 0 ELSE None
      /\ UNCHANGED <<stored, queue, view>>
  BY ValueTypes DEF Indicate, Apply, Threads
<1> HIDE DEF status
<1>2. /\ cached' = status
      /\ pc' \in [Threads -> {"idle", "store", "enqueue", "done"}]
      /\ publishing' \in [Threads -> Status \cup {None}]
      /\ \A x \in Threads : publishing'[x] =
           IF pc'[x] \in {"store", "enqueue"} THEN cached' ELSE None
      /\ \A x \in Threads : pc'[x] = "idle" <=> x # "worker"
      /\ StoredInv' /\ QueueInv'
  <2>1. "worker" \in Threads  BY DEF Threads
  <2> QED BY <2>1, <1>1, PublishKeeps
<1>3. rate \in Nat /\ Period \in Nat
  BY HeatingAssumption DEF IInv, TypeOK
<1>4. rate > 0 => RequiredInvocations \in Nat \ {0}
  BY <1>3, RequiredRange
<1>5. next' \in Callbacks' /\ next' \in Callbacks
  BY <1>1, <1>3, <1>4
  DEF MakeCallback, Callbacks, Held, RequiredInvocations
<1>6. TypeOK'
  BY <1>1, <1>2, <1>3, <1>5, ValueTypes DEF IInv, TypeOK
<1>7. CountInv'
  <2>1. cached' # "Ready" => inWindow' = None
    BY <1>1, <1>2
  <2>2. next'.held = IF rate > 0 THEN 0 ELSE None
    BY <1>1 DEF MakeCallback
  <2> QED BY <2>1, <2>2, <1>1, <1>3, <1>4
    DEF CountInv, Counts, RequiredInvocations
<1>8. PublishInv'
  BY <1>1, <1>2 DEF PublishInv, Threads
<1>9. LedsFollowStatus'
  <2>1. next' # None /\ next'.mode = mode
    BY <1>1, <1>5, ValueTypes DEF MakeCallback
  <2> QED BY <2>1, <1>1, <1>2 DEF LedsFollowStatus, Leds
<1> QED BY <1>2, <1>6, <1>7, <1>8, <1>9 DEF IInv

LEMMA DisableStep ==
    ASSUME IInv, UNCHANGED rate, Disable
    PROVE  IInv'
<1>1. /\ \A th \in Threads : pc[th] = "idle"
      /\ leds' = Dark /\ Publish("worker", "DISABLED")
      /\ callback' = None /\ next' = None /\ inWindow' = None
      /\ UNCHANGED <<stored, queue, view>>
  BY DEF Disable, Threads
<1>2. /\ cached' = "DISABLED"
      /\ pc' \in [Threads -> {"idle", "store", "enqueue", "done"}]
      /\ publishing' \in [Threads -> Status \cup {None}]
      /\ \A x \in Threads : publishing'[x] =
           IF pc'[x] \in {"store", "enqueue"} THEN cached' ELSE None
      /\ \A x \in Threads : pc'[x] = "idle" <=> x # "worker"
      /\ StoredInv' /\ QueueInv'
  <2>1. "worker" \in Threads /\ "DISABLED" \in Status  BY DEF Threads, Status
  <2> QED BY <2>1, <1>1, PublishKeeps
<1>3. TypeOK'
  BY <1>1, <1>2 DEF IInv, TypeOK, Dark, Status
<1>4. CountInv' /\ PublishInv' /\ LedsFollowStatus'
  BY <1>1, <1>2 DEF CountInv, PublishInv, LedsFollowStatus, Threads
<1> QED BY <1>2, <1>3, <1>4 DEF IInv

(* The two further steps of a publication.                                 *)
LEMMA StoreStep ==
    ASSUME IInv, UNCHANGED rate, NEW th \in Threads, Store(th)
    PROVE  IInv'
<1>1. /\ pc[th] = "store" /\ publishing[th] = cached
      /\ stored' = cached
      /\ pc' = [pc EXCEPT ![th] = "enqueue"]
      /\ UNCHANGED <<rate, callback, cached, leds, publishing, next, queue, view,
                     inWindow>>
  BY DEF Store, IInv, PublishInv
<1>2. pc \in [Threads -> {"idle", "store", "enqueue", "done"}]
  BY DEF IInv, TypeOK
<1>3. \A x \in Threads : /\ pc'[x] = "idle" <=> pc[x] = "idle"
                         /\ pc'[x] \in {"store", "enqueue"}
                              <=> pc[x] \in {"store", "enqueue"}
  BY <1>1, <1>2
<1>4. Callbacks' = Callbacks
  BY DEF Callbacks, Held, RequiredInvocations
<1>5. TypeOK'
  BY <1>1, <1>2, <1>4 DEF IInv, TypeOK
<1>6. CountInv' /\ LedsFollowStatus'
  BY <1>1 DEF IInv, CountInv, LedsFollowStatus, Leds, Counts, RequiredInvocations
<1>7. PublishInv'
  BY <1>1, <1>3 DEF IInv, PublishInv, Threads
<1>8. StoredInv' /\ QueueInv'
  BY <1>1 DEF IInv, StoredInv, QueueInv
<1> QED BY <1>5, <1>6, <1>7, <1>8 DEF IInv

LEMMA EnqueueStep ==
    ASSUME IInv, UNCHANGED rate, NEW th \in Threads, Enqueue(th)
    PROVE  IInv'
<1>1. /\ pc[th] = "enqueue" /\ publishing[th] = cached
      /\ queue' = Append(queue, cached)
      /\ publishing' = [publishing EXCEPT ![th] = None]
      /\ pc' = [pc EXCEPT ![th] = "done"]
      /\ UNCHANGED <<rate, callback, cached, stored, leds, next, view, inWindow>>
  BY DEF Enqueue, IInv, PublishInv
<1>2. /\ pc \in [Threads -> {"idle", "store", "enqueue", "done"}]
      /\ publishing \in [Threads -> Status \cup {None}]
      /\ queue \in Seq(Status) /\ cached \in Status
  BY DEF IInv, TypeOK
<1>3. /\ queue' \in Seq(Status) /\ queue' # <<>>
      /\ queue'[Len(queue')] = cached
  BY <1>1, <1>2, AppendProperties
<1>4. Callbacks' = Callbacks
  BY DEF Callbacks, Held, RequiredInvocations
<1>5. TypeOK'
  BY <1>1, <1>2, <1>3, <1>4 DEF IInv, TypeOK
<1>6. CountInv' /\ LedsFollowStatus'
  BY <1>1 DEF IInv, CountInv, LedsFollowStatus, Leds, Counts, RequiredInvocations
<1>7. PublishInv'
  BY <1>1, <1>2 DEF IInv, PublishInv, Threads
<1>8. StoredInv'
  BY <1>1, <1>2 DEF IInv, StoredInv
<1>9. QueueInv'
  BY <1>1, <1>3 DEF QueueInv
<1> QED BY <1>5, <1>6, <1>7, <1>8, <1>9 DEF IInv

(* The end of a callback and of an indication.                             *)
LEMMA ReturnStep ==
    ASSUME IInv, UNCHANGED rate, CallbackReturns \/ Register
    PROVE  IInv'
<1>1. /\ pc \in [Threads -> {"idle", "store", "enqueue", "done"}]
      /\ Threads = {"worker", "sensor"}
  BY DEF IInv, TypeOK, Threads
<1>2. Callbacks' = Callbacks
  BY DEF Callbacks, Held, RequiredInvocations
<1>3. CASE CallbackReturns
  <2>1. TypeOK'
    BY <1>1, <1>2, <1>3 DEF IInv, TypeOK, CallbackReturns
  <2>2. CountInv' /\ LedsFollowStatus' /\ QueueInv'
    BY <1>3 DEF IInv, CountInv, LedsFollowStatus, Leds, QueueInv, Counts,
                RequiredInvocations, CallbackReturns
  <2>3. PublishInv' /\ StoredInv'
    BY <1>1, <1>3 DEF IInv, PublishInv, StoredInv, CallbackReturns
  <2> QED BY <2>1, <2>2, <2>3 DEF IInv
<1>4. CASE Register
  <2>1. callback = None /\ pc["worker"] = "done"
    BY <1>4 DEF Register, IInv, PublishInv
  <2>2. pc["sensor"] = "idle"
    BY <2>1 DEF IInv, PublishInv
  <2>3. TypeOK'
    BY <1>1, <1>2, <1>4 DEF IInv, TypeOK, Register
  <2>4. CountInv' /\ LedsFollowStatus' /\ QueueInv'
    BY <2>1, <1>4 DEF IInv, CountInv, LedsFollowStatus, Leds, QueueInv, Counts,
                      RequiredInvocations, Register
  <2>5. PublishInv' /\ StoredInv'
    BY <1>1, <1>4, <2>1, <2>2 DEF IInv, PublishInv, StoredInv, Register
  <2> QED BY <2>3, <2>4, <2>5 DEF IInv
<1> QED BY <1>3, <1>4

(* The tasks about streams: a notification is delivered, or a stream comes *)
(* or goes.                                                                *)
LEMMA StreamsStep ==
    ASSUME IInv, UNCHANGED rate,
           Notify \/ \E s \in Sinks : AddSink(s) \/ RemoveSink(s)
    PROVE  IInv'
<1>1. UNCHANGED <<rate, callback, cached, stored, leds, pc, publishing, next,
                  inWindow>>
  BY DEF Notify, AddSink, RemoveSink
<1>2. /\ queue \in Seq(Status) /\ stored \in Status
      /\ view \in [Sinks -> Status \cup {None}]
  BY DEF IInv, TypeOK
<1>3. CountInv' /\ PublishInv' /\ StoredInv' /\ LedsFollowStatus'
  BY <1>1 DEF IInv, CountInv, PublishInv, StoredInv, LedsFollowStatus, Leds,
              Counts, RequiredInvocations
<1>4. Callbacks' = Callbacks
  BY DEF Callbacks, Held, RequiredInvocations
<1>5. queue' \in Seq(Status) /\ view' \in [Sinks -> Status \cup {None}] /\ QueueInv'
  <2>1. CASE Notify
    <3>1. /\ queue # <<>> /\ queue' = Tail(queue)
          /\ view' = [s \in Sinks |-> IF view[s] = None THEN None ELSE Head(queue)]
      BY <2>1 DEF Notify
    <3>2. /\ Head(queue) = queue[1] /\ Head(queue) \in Status
          /\ queue' \in Seq(Status) /\ Len(queue') = Len(queue) - 1
          /\ \A n \in 1 .. Len(queue') : queue'[n] = queue[n + 1]
          /\ Len(queue) \in Nat \ {0}
      BY <3>1, <1>2, HeadTailProperties, HeadThenTail
    <3>3. queue' = <<>> <=> Len(queue') = 0
      BY <3>2, EmptyIffLenZero
    <3>4. ASSUME \A th \in Threads : publishing[th] = None
          PROVE  queue[Len(queue)] = cached
      BY <3>1, <3>4 DEF IInv, QueueInv
    <3>5. CASE queue' = <<>>
      <4>1. Head(queue) = queue[Len(queue)]
        <5>1. Len(queue) = 1  BY <3>2, <3>3, <3>5
        <5> QED BY <5>1, <3>2
      <4>2. QueueInv'  BY <4>1, <3>1, <3>4, <3>5, <1>1 DEF QueueInv
      <4> QED BY <4>2, <3>1, <3>2
    <3>6. CASE queue' # <<>>
      <4>1. Len(queue') \in 1 .. Len(queue') /\ Len(queue') + 1 = Len(queue)
        BY <3>2, <3>3, <3>6
      <4>2. queue'[Len(queue')] = queue[Len(queue)]
        BY <4>1, <3>2
      <4>3. QueueInv'  BY <4>2, <3>4, <3>6, <1>1 DEF QueueInv
      <4> QED BY <4>3, <3>1, <3>2
    <3> QED BY <3>5, <3>6
  <2>2. CASE \E s \in Sinks : AddSink(s) \/ RemoveSink(s)
    <3>1. PICK s \in Sinks : AddSink(s) \/ RemoveSink(s)
      BY <2>2
    <3>2. /\ queue' = queue
          /\ view' = [view EXCEPT ![s] = stored] \/ view' = [view EXCEPT ![s] = None]
      BY <3>1 DEF AddSink, RemoveSink
    <3>3. (\A th \in Threads : publishing[th] = None) => stored = cached
      BY ValueTypes DEF IInv, PublishInv, StoredInv, TypeOK
    <3> QED BY <3>2, <3>3, <1>1, <1>2 DEF IInv, QueueInv
  <2> QED BY <2>1, <2>2
<1>6. TypeOK'
  BY <1>1, <1>4, <1>5 DEF IInv, TypeOK
<1> QED BY <1>3, <1>5, <1>6 DEF IInv

LEMMA NextIInv == IInv /\ [Next]_vars => IInv'
<1> SUFFICES ASSUME IInv, [Next]_vars PROVE IInv'
  OBVIOUS
<1>1. CASE UNCHANGED vars
  BY <1>1 DEF vars, IInv, TypeOK, CountInv, PublishInv, StoredInv, QueueInv,
              LedsFollowStatus, Leds, Counts, RequiredInvocations, Callbacks, Held
<1>2. CASE Next
  <2>1. Step /\ UNCHANGED rate  BY <1>2 DEF Next
  <2> QED BY <2>1, SampleStep, IndicateStep, DisableStep, StoreStep, EnqueueStep,
             ReturnStep, StreamsStep DEF Step
<1> QED BY <1>1, <1>2

THEOREM Invariance == Spec => []IInv
BY InitIInv, NextIInv, PTL DEF Spec

-----------------------------------------------------------------------------
(* Every variable keeps its type: what a callback has captured stays within *)
(* the count or the time that is required.                                 *)
THEOREM TypeCorrect == Spec => []TypeOK
<1>1. IInv => TypeOK  BY DEF IInv
<1> QED BY <1>1, Invariance, PTL

(* publishStatus, which is not synchronised, is never run by the executor  *)
(* and by the sensor's thread at once.                                     *)
THEOREM PublishersExclude == Spec => []OnePublisher
<1>1. IInv => OnePublisher  BY DEF IInv, PublishInv, OnePublisher
<1> QED BY <1>1, Invariance, PTL

(* applyStatus and disable leave the LEDs showing the cached status in the *)
(* mode that is indicated.                                                 *)
THEOREM LedsAreRight == Spec => []LedsFollowStatus
<1>1. IInv => LedsFollowStatus  BY DEF IInv
<1> QED BY <1>1, Invariance, PTL

(* Every stream in m_eventsSinks has the cached status or is about to get  *)
(* it, whenever it was added to them.                                      *)
THEOREM StreamsGetTheStatus == Spec => []SinksFollow
<1>1. ASSUME IInv PROVE SinksFollow
  <2> DEFINE underWay == {publishing[th] : th \in Threads} \ {None}
             last(s) == IF queue = <<>> THEN view[s] ELSE queue[Len(queue)]
  <2>1. \A th \in Threads : publishing[th] \in {None, cached}
    BY <1>1 DEF IInv, PublishInv
  <2>2. CASE underWay = {}
    <3>1. \A th \in Threads : publishing[th] = None  BY <2>2
    <3>2. \A s \in Sinks : view[s] # None => last(s) = cached
      BY <3>1, <1>1 DEF IInv, QueueInv
    <3> QED BY <3>2, <2>2 DEF SinksFollow
  <2>3. CASE underWay # {}
    <3>1. underWay = {cached}  BY <2>1, <2>3
    <3> QED BY <3>1, <2>3 DEF SinksFollow
  <2> QED BY <2>2, <2>3
<1> QED BY <1>1, Invariance, PTL

(* A status that is not Ready has not been in the window for what the       *)
(* callbacks ask for.                                                      *)
THEOREM ReadyIsNotLate == Spec => []ReadyOnceHeld
<1>1. ASSUME IInv, callback # None, inWindow # None, inWindow >= Hysteresis,
             cached # "Ready"
      PROVE  FALSE
  <2> DEFINE held == callback.held
             q == RequiredInvocations
  <2>1. /\ rate \in Nat /\ Period \in Nat /\ None \notin Nat
        /\ held \in Held /\ inWindow \in 0 .. Period
        /\ Counts(held, inWindow)
    BY <1>1, ValueTypes, HeatingAssumption
    DEF IInv, TypeOK, CountInv, Callbacks
  <2>2. CASE rate > 0
    <3>1. /\ q \in Nat \ {0}
          /\ (q - 1) * rate \in 0 .. Period
          /\ \A h \in Nat : h < q - 1 => h * rate < (q - 1) * rate
      BY <2>1, <2>2, RequiredRange
    <3>2. Hysteresis = (q - 1) * rate  BY <2>2 DEF Hysteresis
    <3> HIDE DEF q
    <3>3. held \in 0 .. q /\ held < q /\ held # 0 /\ inWindow = (held - 1) * rate
      BY <1>1, <2>1, <2>2 DEF Held, Counts, q
    <3>4. held - 1 \in Nat /\ held - 1 < q - 1  BY <3>1, <3>3
    <3>5. (held - 1) * rate < (q - 1) * rate  BY <3>1, <3>4
    <3>6. (held - 1) * rate >= (q - 1) * rate  BY <1>1, <3>2, <3>3
    <3>7. (held - 1) * rate \in Int /\ (q - 1) * rate \in Int
      BY <2>1, <3>1, <3>3
    <3> QED BY <3>5, <3>6, <3>7
  <2>3. CASE ~(rate > 0)
    <3>1. inWindow = held /\ held < Period
      BY <2>1, <2>3 DEF Counts
    <3> QED BY <1>1, <2>1, <2>3, <3>1 DEF Hysteresis
  <2> QED BY <2>2, <2>3
<1>2. IInv => ReadyOnceHeld
  BY <1>1 DEF ReadyOnceHeld
<1> QED BY <1>2, Invariance, PTL

(* The registered callbacks, of either kind, turn the status to Ready only  *)
(* after what they ask for.                                                *)
THEOREM ReadyIsNotEarly == Spec => ReadyAfterHysteresis
<1>1. ASSUME IInv, [Next]_vars, callback # None, callback' # None,
             cached # "Ready", cached' = "Ready"
      PROVE  inWindow' >= Hysteresis
  <2>1. Next  BY <1>1 DEF vars
  <2>2. PICK t \in Temps, gap \in Gaps : Sample(t, gap)
    BY <1>1, <2>1 DEF Next, Step, Indicate, Store, Enqueue, CallbackReturns,
       Disable, Register, Notify, AddSink, RemoveSink
  <2>3. UNCHANGED rate  BY <2>1 DEF Next
  <2> QED BY <1>1, <2>2, <2>3, SampleStep
<1>2. IInv /\ [Next]_vars =>
        [callback # None /\ callback' # None /\ cached # "Ready" /\ cached' = "Ready"
           => inWindow' >= Hysteresis]_vars
  BY <1>1
<1> QED BY <1>2, Invariance, PTL DEF Spec, ReadyAfterHysteresis
==============================================================================
