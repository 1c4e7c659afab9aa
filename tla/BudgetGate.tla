----------------------------- MODULE BudgetGate -----------------------------
(***************************************************************************)
(* The gate every Telegram RPC passes through (budget.py, Budget.call and  *)
(* its helpers): a cap on attempts per run, a minimum interval per method, *)
(* flood cooldowns persisted in flood_log, bounded retries.  Telegram      *)
(* answers each attempt as it likes; runs end, are killed while they       *)
(* sleep, and start again with an empty memory and the same flood_log.     *)
(*                                                                         *)
(* Time is unbounded.  The code only ever compares the clock with a        *)
(* deadline, so a deadline is kept as the seconds left to it, 0 once it    *)
(* has passed, and Tick takes a second off each.                           *)
(***************************************************************************)
EXTENDS Integers, Sequences

CONSTANTS
    Methods,        \* RPC method names
    Interval,       \* effective_interval: base x pacing_factor, per method
    Threshold,      \* settings.flood_sleep_threshold
    MaxRpc,         \* settings.max_rpc_per_run
    MaxFloods,      \* MAX_FLOOD_RETRIES
    Backoffs,       \* TRANSIENT_BACKOFF_SECONDS x pacing_factor, in order
    FloodSeconds    \* the FLOOD_WAIT lengths Telegram may answer

ASSUME BudgetAssumption ==
    /\ Interval \in [Methods -> Nat]
    /\ Threshold \in Nat /\ MaxRpc \in Nat /\ MaxFloods \in Nat
    /\ Backoffs \in Seq(Nat)
    /\ FloodSeconds \subseteq Nat

VARIABLES
    until,      \* flood_log: seconds left to the latest deadline, per method
    rest,       \* _last_call: seconds left of the minimum interval, per method
    count,      \* _count
    pc,         \* where the gate stands; "down" when no run is active
    method,     \* the method being called
    attempt,    \* local attempt
    floods,     \* local floods
    transients, \* local transients
    wake,       \* seconds left of the sleep in progress
    answer      \* how the last call ended

VARIABLES       \* history variables, read by the properties only
    window,     \* seconds left of Telegram's own flood window, per method
    recent      \* seconds left of the interval after the last attempt sent

mem   == <<rest, count>>
call  == <<method, attempt, floods, transients, wake>>
ghost == <<window, recent>>
vars  == <<until, mem, pc, call, answer, ghost>>

MaxTransients == Len(Backoffs)   \* MAX_TRANSIENT_RETRIES
Later(a, b) == IF a >= b THEN a ELSE b

\* The margin on a server-mandated wait: ceil(s x 1.1) + 5, in integers.
FloodAppliedSeconds(s) == -((-(s * 11)) \div 10) + 5

Locations == {"down", "ready", "interval", "cooldown", "send", "sent",
              "floodwait", "backoff"}
Dispositions == {"ok", "skip", "phase_stop", "hard_stop"}

-----------------------------------------------------------------------------
Init ==
    /\ until = [m \in Methods |-> 0] /\ rest = [m \in Methods |-> 0]
    /\ count = 0
    /\ pc = "down" /\ method \in Methods
    /\ attempt = 0 /\ floods = 0 /\ transients = 0 /\ wake = 0
    /\ answer = "ok"
    /\ window = [m \in Methods |-> 0] /\ recent = [m \in Methods |-> 0]

Less(n) == IF n > 0 THEN n - 1 ELSE 0
Passed(f) == [m \in Methods |-> Less(f[m])]

(* A second passes: while the gate sleeps, while an RPC is under way,       *)
(* between calls and between runs.                                          *)
Tick ==
    /\ until' = Passed(until) /\ rest' = Passed(rest) /\ wake' = Less(wake)
    /\ window' = Passed(window) /\ recent' = Passed(recent)
    /\ UNCHANGED <<count, pc, method, attempt, floods, transients, answer>>

(* Budget.__init__: a new run remembers no call of an earlier one.          *)
StartRun ==
    /\ pc = "down"
    /\ pc' = "ready"
    /\ count' = 0 /\ rest' = [m \in Methods |-> 0]
    /\ recent' = [m \in Methods |-> 0]
    /\ UNCHANGED <<until, call, answer, window>>

(* A run ends between two calls, or is killed while it sleeps or waits.     *)
EndRun ==
    /\ pc # "down"
    /\ pc' = "down"
    /\ UNCHANGED <<until, mem, call, answer, ghost>>

Give(a) == pc' = "ready" /\ answer' = a

\* Mutant: one attempt too many is let through the cap.
StartCallOverCap(m) ==
    /\ pc = "ready"
    /\ method' = m
    /\ attempt' = 1 /\ floods' = 0 /\ transients' = 0
    /\ IF count > MaxRpc
       THEN Give("hard_stop") /\ UNCHANGED <<count, wake>>
       ELSE /\ count' = count + 1 /\ wake' = rest[m]
            /\ pc' = "interval" /\ UNCHANGED answer
    /\ UNCHANGED <<until, rest, ghost>>

(* _take_rpc, then _pace: the cap is checked before anything is waited for. *)
StartCall(m) ==
    /\ pc = "ready"
    /\ method' = m
    /\ attempt' = 1 /\ floods' = 0 /\ transients' = 0
    /\ IF count >= MaxRpc
       THEN Give("hard_stop") /\ UNCHANGED <<count, wake>>
       ELSE /\ count' = count + 1
            /\ wake' = rest[m]
            /\ pc' = "interval"
            /\ UNCHANGED answer
    /\ UNCHANGED <<until, rest, ghost>>

\* Mutant: the persisted cooldown is not looked up.
PacedBlindly ==
    /\ pc = "interval"
    /\ wake = 0
    /\ pc' = "cooldown"
    /\ UNCHANGED <<until, mem, call, answer, ghost>>

(* The minimum interval is over: now look up the persisted cooldown.        *)
Paced ==
    /\ pc = "interval"
    /\ wake = 0
    /\ wake' = until[method]
    /\ pc' = "cooldown"
    /\ UNCHANGED <<until, mem, method, attempt, floods, transients, answer, ghost>>

CooledDown ==
    /\ pc = "cooldown"
    /\ wake = 0
    /\ pc' = "send"
    /\ UNCHANGED <<until, mem, call, answer, ghost>>

(* A retry is counted against the cap and not paced again; after a flood    *)
(* _last_call is moved up to the end of the wait.                           *)
Retry ==
    /\ pc \in {"floodwait", "backoff"}
    /\ wake = 0
    /\ rest' = IF pc = "floodwait" THEN [rest EXCEPT ![method] = Interval[method]]
               ELSE rest
    /\ attempt' = attempt + 1
    /\ IF count >= MaxRpc
       THEN Give("hard_stop") /\ UNCHANGED count
       ELSE count' = count + 1 /\ pc' = "send" /\ UNCHANGED answer
    /\ UNCHANGED <<until, method, floods, transients, wake, ghost>>

\* Mutant: _last_call is not set when an attempt is made.
SendUnnoted ==
    /\ pc = "send"
    /\ pc' = "sent"
    /\ recent' = [recent EXCEPT ![method] = Interval[method]]
    /\ UNCHANGED <<until, mem, call, answer, window>>

(* The attempt leaves for Telegram.                                         *)
Send ==
    /\ pc = "send"
    /\ pc' = "sent"
    /\ rest' = [rest EXCEPT ![method] = Interval[method]]
    /\ recent' = [recent EXCEPT ![method] = Interval[method]]
    /\ UNCHANGED <<until, count, call, answer, window>>

(* Telegram answers, or classify turns its error into a disposition that is *)
(* raised.                                                                  *)
Answered ==
    /\ pc = "sent"
    /\ \E a \in Dispositions : Give(a)
    /\ UNCHANGED <<until, mem, call, ghost>>

\* Mutant: one flood too many is slept out.
FloodWaitOnceMore(s) ==
    /\ pc = "sent"
    /\ window' = [window EXCEPT ![method] = Later(@, s)]
    /\ LET applied == FloodAppliedSeconds(s)
       IN  /\ until' = [until EXCEPT ![method] = Later(@, applied)]
           /\ wake' = applied
           /\ IF applied > Threshold \/ floods > MaxFloods
              THEN Give("phase_stop")
              ELSE pc' = "floodwait" /\ UNCHANGED answer
    /\ floods' = floods + 1
    /\ UNCHANGED <<mem, method, attempt, transients, recent>>

(* FLOOD_WAIT s: the cooldown is persisted before the decision, which is    *)
(* to stop the phase or to sleep it out.                                    *)
FloodWait(s) ==
    /\ pc = "sent"
    /\ window' = [window EXCEPT ![method] = Later(@, s)]
    /\ LET applied == FloodAppliedSeconds(s)
       IN  /\ until' = [until EXCEPT ![method] = Later(@, applied)]
           /\ wake' = applied
           /\ IF applied > Threshold \/ floods >= MaxFloods
              THEN Give("phase_stop")
              ELSE pc' = "floodwait" /\ UNCHANGED answer
    /\ floods' = floods + 1
    /\ UNCHANGED <<mem, method, attempt, transients, recent>>

\* Mutant: a transient error is retried for ever, outside the count.
TransientForEver ==
    /\ pc = "sent"
    /\ wake' = Backoffs[1]
    /\ pc' = "send"
    /\ UNCHANGED <<until, mem, method, attempt, floods, transients, answer, ghost>>

(* A ConnectionError, TimeoutError or OSError.                              *)
Transient ==
    /\ pc = "sent"
    /\ transients' = transients + 1
    /\ IF transients >= MaxTransients
       THEN Give("phase_stop") /\ UNCHANGED wake
       ELSE /\ wake' = Backoffs[transients + 1]
            /\ pc' = "backoff"
            /\ UNCHANGED answer
    /\ UNCHANGED <<until, mem, method, attempt, floods, ghost>>

-----------------------------------------------------------------------------
Reply == Answered \/ Transient \/ \E s \in FloodSeconds : FloodWait(s)
Gate  == Paced \/ CooledDown \/ Retry \/ Send

Next == \/ Tick \/ StartRun \/ EndRun
        \/ \E m \in Methods : StartCall(m)
        \/ Gate \/ Reply

Spec == Init /\ [][Next]_vars

(* Time passes, the event loop runs the gate on when a sleep is over, and   *)
(* an RPC in flight is answered or times out.                               *)
FairSpec == Spec /\ WF_vars(Tick) /\ WF_vars(Gate) /\ WF_vars(Reply)

-----------------------------------------------------------------------------
(* Every variable keeps its type.                                           *)
TypeOK ==
    /\ until \in [Methods -> Nat] /\ rest \in [Methods -> Nat]
    /\ count \in Nat
    /\ pc \in Locations /\ method \in Methods /\ answer \in Dispositions
    /\ attempt \in Nat /\ floods \in Nat /\ transients \in Nat /\ wake \in Nat
    /\ window \in [Methods -> Nat] /\ recent \in [Methods -> Nat]

(* Every FLOOD_WAIT is honoured: no attempt of a method, a first one or a   *)
(* retry, of this run or of one started after the flooded run was killed,   *)
(* leaves inside the window Telegram closed that method for (ADR-0003).     *)
HonoursFloods == [][Send => window[method] = 0]_vars

(* A call's first attempt keeps the method's minimum interval to whatever   *)
(* attempt of that method this run sent last, retries included.             *)
CallsAreSpaced == [][Send /\ attempt = 1 => recent[method] = 0]_vars

(* Floods and transient errors, in any mixture, retry a call a bounded      *)
(* number of times, and a retry in the middle of that mixture no more gets  *)
(* past the cap of the run than a first attempt does (_take_rpc).           *)
RetriesBounded ==
    /\ attempt <= 1 + MaxFloods + MaxTransients
    /\ count <= MaxRpc

(* Whatever Telegram answers, a call ends: the phase is never wedged in it. *)
CallsEnd == (pc \notin {"down", "ready"}) ~> (pc \in {"down", "ready"})
-----------------------------------------------------------------------------
(* The inductive strengthening: the persisted deadline covers Telegram's    *)
(* window, a sleep in progress covers what it is for, and the retries so    *)
(* far add up.                                                              *)
Covered == \A m \in Methods : window[m] <= until[m]

FloodsWaitedOut ==
    /\ pc \in {"cooldown", "floodwait"} => until[method] <= wake
    /\ pc \in {"send", "sent", "backoff"} => until[method] = 0

IntervalWaitedOut ==
    /\ \A m \in Methods : recent[m] <= rest[m] /\ recent[m] <= Interval[m]
    /\ pc = "interval" => rest[method] <= wake
    /\ pc \in {"cooldown", "send"} /\ attempt = 1 => rest[method] = 0

Counted ==
    /\ pc \in {"interval", "cooldown", "send", "sent"} =>
          attempt = 1 + floods + transients
    /\ pc \in {"floodwait", "backoff"} =>
          attempt = floods + transients /\ 1 <= attempt
    /\ pc \notin {"down", "ready"} =>
          floods <= MaxFloods /\ transients <= MaxTransients

IInv == TypeOK /\ RetriesBounded
        /\ Covered /\ FloodsWaitedOut /\ IntervalWaitedOut /\ Counted
=============================================================================
