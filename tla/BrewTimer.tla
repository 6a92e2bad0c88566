------------------------------ MODULE BrewTimer -------------------------------
(***************************************************************************)
(* BrewTimer: a running flag and 31 bits of milliseconds in one atomic of  *)
(* 32 bits.  Running, it holds the low bits of the clock at the start;     *)
(* stopped, the length of the brew.  The executor writes it, metrics       *)
(* streams read it.                                                        *)
(*                                                                         *)
(* The low bits of the clock wrap every Half milliseconds (25 days in the  *)
(* code), and the difference of two of them is not masked.                 *)
(***************************************************************************)
EXTENDS Integers

CONSTANTS Half,     \* 2^31: RUNNING_FLAG, and VALUE_MASK + 1
          MaxTime   \* bound: the last time the clock shows

ASSUME TimerAssumption == Half \in Nat \ {0} /\ MaxTime \in Nat

VARIABLES clock,   \* steady_clock, in milliseconds since its epoch
          timer,   \* m_state
          brew     \* history: the brew that is timed, from when to when

timerVars == <<clock, timer, brew>>

Word == 2 * Half

NoBrew == [phase |-> "zero", from |-> 0, to |-> 0]

TimerInit ==
    /\ clock \in 0 .. Half
    /\ timer = 0
    /\ brew = NoBrew

IsRunning(state) == state >= Half
Value(state) == state % Half

Now == clock % Half

Start ==
    /\ timer' = Half + Now
    /\ brew' = [phase |-> "running", from |-> clock, to |-> clock]
    /\ UNCHANGED clock

Stop ==
    /\ timer' = IF IsRunning(timer) THEN (Now - Value(timer)) % Word ELSE timer
    /\ brew' = IF brew.phase = "running"
               THEN [brew EXCEPT !.phase = "stopped", !.to = clock] ELSE brew
    /\ UNCHANGED clock

Reset ==
    /\ timer' = 0
    /\ brew' = NoBrew
    /\ UNCHANGED clock

(* elapsedTime, after it loaded the state.                                 *)
Elapsed(state) == IF IsRunning(state) THEN (Now - Value(state)) % Word ELSE state

Tick ==
    /\ clock < MaxTime
    /\ clock' = clock + 1
    /\ UNCHANGED <<timer, brew>>

(* The references: how long a brew has lasted by now, and whether the low  *)
(* bits of the clock have wrapped meanwhile.                               *)
EndOf(b) == IF b.phase = "running" THEN clock ELSE b.to
BrewTime(b) == EndOf(b) - b.from
Wrapped(b) == EndOf(b) \div Half # b.from \div Half

TimerTypeOK ==
    /\ clock \in 0 .. Half + MaxTime
    /\ timer \in 0 .. Word - 1
    /\ brew \in [phase : {"zero", "running", "stopped"},
                 from : 0 .. Half + MaxTime, to : 0 .. Half + MaxTime]
==============================================================================
