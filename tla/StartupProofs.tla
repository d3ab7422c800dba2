---------------------------- MODULE StartupProofs ----------------------------
(***************************************************************************)
(* Proofs about Startup: the probe of either unit has its verdict before   *)
(* systemd's TimeoutStartSec, for every setting of the durations that      *)
(* StartupAssumption admits and whatever the daemon does meanwhile.        *)
(***************************************************************************)
EXTENDS Startup, TLAPS

UnitState == {"probing", "waiting", "delay", "active", "booting", "running"}
Step == {"check", "list", "decide", "sleep"}

TypeOK ==
    /\ state \in [Unit -> UnitState]
    /\ step \in [Unit -> Step]
    /\ since \in [Unit -> Nat]
    /\ elapsed \in [Unit -> Nat]

(* How late a probe may be at each of its steps: an attempt begins at the  *)
(* deadline at the latest and each request of it takes its timeout at      *)
(* most.  The bound of one step follows from that of the step before it.   *)
InBounds(s, e, st) ==
    /\ st = "check" => s <= Request /\ e <= Timeout + s
    /\ st = "list" => s <= Request /\ e <= Timeout + Request + s
    /\ st = "decide" => e <= Timeout + 2 * Request
    /\ st = "sleep" => e <= Timeout

OnTime == \A u \in Unit : state[u] = "probing" => InBounds(since[u], elapsed[u], step[u])

IInv == TypeOK /\ OnTime

-----------------------------------------------------------------------------
LEMMA Durations ==
    /\ Timeout \in Nat /\ Request \in Nat /\ Interval \in Nat
    /\ 0 \in Nat /\ 0 <= Timeout /\ 0 <= Request
BY StartupAssumption DEF StartupAssumption

(* A step that changes one unit only, and leaves it within its bounds. *)
LEMMA OneUnit ==
    ASSUME IInv, NEW u \in Unit, NEW to \in UnitState, NEW at \in Step,
           NEW s \in Nat, NEW e \in Nat,
           state' = [state EXCEPT ![u] = to], step' = [step EXCEPT ![u] = at],
           since' = [since EXCEPT ![u] = s], elapsed' = [elapsed EXCEPT ![u] = e],
           to = "probing" => InBounds(s, e, at)
    PROVE  IInv'
<1>1. TypeOK'
  BY DEF IInv, TypeOK
<1>2. ASSUME NEW v \in Unit, state'[v] = "probing"
      PROVE  InBounds(since'[v], elapsed'[v], step'[v])
  <2>1. CASE v = u
    BY <1>2, <2>1 DEF IInv, TypeOK
  <2>2. CASE v # u
    <3>1. /\ state'[v] = state[v] /\ step'[v] = step[v]
          /\ since'[v] = since[v] /\ elapsed'[v] = elapsed[v]
      BY <2>2 DEF IInv, TypeOK
    <3>. QED
      BY <1>2, <3>1 DEF IInv, OnTime
  <2>. QED
    BY <2>1, <2>2
<1>3. OnTime'
  BY <1>2 DEF OnTime, InBounds
<1>. QED
  BY <1>1, <1>3 DEF IInv

(* The unit as it is, for a step that leaves some of it unchanged. *)
LEMMA AsItIs ==
    ASSUME IInv, NEW u \in Unit
    PROVE  /\ state[u] \in UnitState /\ state = [state EXCEPT ![u] = state[u]]
           /\ step[u] \in Step /\ step = [step EXCEPT ![u] = step[u]]
           /\ since[u] \in Nat /\ since = [since EXCEPT ![u] = since[u]]
           /\ elapsed[u] \in Nat /\ elapsed = [elapsed EXCEPT ![u] = elapsed[u]]
           /\ state[u] = "probing" => InBounds(since[u], elapsed[u], step[u])
BY DEF IInv, TypeOK, OnTime

LEMMA Starts == Init => IInv
BY Durations DEF Init, IInv, TypeOK, OnTime, InBounds, UnitState, Step

LEMMA Probes ==
    ASSUME IInv, NEW u \in Unit, StartProbe(u) PROVE IInv'
<1>1. InBounds(0, 0, "check")
  BY Durations DEF InBounds
<1>. QED
  BY <1>1, OneUnit DEF StartProbe, Enter, UnitState, Step

(* A unit leaves the probe, or is outside of it. *)
LEMMA Moves ==
    ASSUME IInv, NEW u \in Unit, NEW to \in UnitState \ {"probing"}, Enter(u, to),
           UNCHANGED <<step, elapsed>>,
           since' = since \/ since' = [since EXCEPT ![u] = 0]
    PROVE  IInv'
<1>1. PICK s \in Nat : since' = [since EXCEPT ![u] = s]
  BY AsItIs, Durations
<1>2. /\ step[u] \in Step /\ step' = [step EXCEPT ![u] = step[u]]
      /\ elapsed[u] \in Nat /\ elapsed' = [elapsed EXCEPT ![u] = elapsed[u]]
  BY AsItIs
<1>3. state' = [state EXCEPT ![u] = to]
  BY DEF Enter
<1>. QED
  BY <1>1, <1>2, <1>3, OneUnit

LEMMA Goes ==
    ASSUME IInv, NEW u \in Unit, NEW to \in Step, Go(u, to),
           InBounds(0, elapsed[u], to)
    PROVE  IInv'
<1>1. /\ state[u] \in UnitState /\ state' = [state EXCEPT ![u] = state[u]]
      /\ elapsed[u] \in Nat /\ elapsed' = [elapsed EXCEPT ![u] = elapsed[u]]
  BY AsItIs DEF Go
<1>2. step' = [step EXCEPT ![u] = to] /\ since' = [since EXCEPT ![u] = 0]
  BY DEF Go
<1>. QED
  BY <1>1, <1>2, OneUnit, Durations

LEMMA ProbeSteps ==
    ASSUME IInv, NEW u \in Unit, ProbeStep(u) PROVE IInv'
<1>. state[u] = "probing" /\ InBounds(since[u], elapsed[u], step[u])
  BY AsItIs DEF ProbeStep, CheckEnds, ListEnds, Decide, Wakes, Probing
<1>. since[u] \in Nat /\ elapsed[u] \in Nat
  BY AsItIs
<1>1. CASE CheckEnds(u)
  <2>1. InBounds(0, elapsed[u], "list") /\ InBounds(0, elapsed[u], "decide")
    BY <1>1, Durations DEF CheckEnds, Probing, InBounds
  <2>. QED
    BY <1>1, <2>1, Goes DEF CheckEnds, Step
<1>2. CASE ListEnds(u)
  <2>1. InBounds(0, elapsed[u], "decide")
    BY <1>2, Durations DEF ListEnds, Probing, InBounds
  <2>2. CASE Ready(u)
    BY <2>2, Moves DEF Ready, probe, UnitState
  <2>3. CASE Unready(u)
    BY <2>3, Moves DEF Unready, Restarting, UnitState
  <2>. QED
    BY <1>2, <2>1, <2>2, <2>3, Goes DEF ListEnds, Step
<1>3. CASE Decide(u)
  <2>1. elapsed[u] < Timeout => InBounds(0, elapsed[u], "sleep")
    BY Durations DEF InBounds
  <2>2. CASE Unready(u)
    BY <2>2, Moves DEF Unready, Restarting, UnitState
  <2>. QED
    BY <1>3, <2>1, <2>2, Goes, Durations DEF Decide, Step
<1>4. CASE Wakes(u)
  <2>1. InBounds(0, elapsed[u], "check")
    BY <1>4, Durations DEF Wakes, Probing, InBounds
  <2>. QED
    BY <1>4, <2>1, Goes DEF Wakes, Step
<1>. QED
  BY <1>1, <1>2, <1>3, <1>4 DEF ProbeStep

(* Time does not pass beyond what is due. *)
LEMMA Ticks == IInv /\ Tick => IInv'
<1>. SUFFICES ASSUME IInv, Tick PROVE IInv'
  OBVIOUS
<1>1. TypeOK'
  BY DEF Tick, IInv, TypeOK
<1>2. ASSUME NEW u \in Unit, state'[u] = "probing"
      PROVE  InBounds(since'[u], elapsed'[u], step'[u])
  <2>1. /\ state[u] = "probing" /\ step'[u] = step[u]
        /\ since'[u] = since[u] + 1 /\ elapsed'[u] = elapsed[u] + 1
    BY <1>2 DEF Tick, IInv, TypeOK
  <2>2. since[u] \in Nat /\ elapsed[u] \in Nat /\ InBounds(since[u], elapsed[u], step[u])
    BY <2>1, AsItIs
  <2>3. /\ step[u] \in {"check", "list"} => since[u] # Request
        /\ step[u] # "decide"
        /\ step[u] = "sleep" => elapsed[u] # Timeout
    BY <2>1 DEF Tick, Due, Probing, Slept
  <2>. QED
    BY <2>1, <2>2, <2>3, Durations DEF InBounds
<1>3. OnTime'
  BY <1>2 DEF OnTime, InBounds
<1>. QED
  BY <1>1, <1>3 DEF IInv

LEMMA Steps == IInv /\ [Next]_vars => IInv'
<1>. SUFFICES ASSUME IInv, [Next]_vars PROVE IInv'
  OBVIOUS
<1>. Signal \in Unit /\ App \in Unit
  BY DEF Unit
<1>1. CASE RestartSignal \/ StartApp
  BY <1>1, Probes DEF RestartSignal, StartApp
<1>2. CASE RestartApp
  BY <1>2, Moves DEF RestartApp, probe, UnitState
<1>3. CASE Boot
  <2>1. PICK to \in {"running", "delay"} : Enter(App, to)
    BY <1>3 DEF Boot, Restarting
  <2>. QED
    BY <1>3, <2>1, Moves DEF Boot, Restarting, UnitState
<1>4. CASE AppExits
  BY <1>4, Moves DEF AppExits, Restarting, UnitState
<1>5. CASE DaemonDies
  BY <1>5, Moves DEF DaemonDies, Restarting, UnitState
<1>6. CASE EnvChanges \/ DaemonServes \/ DaemonStalls \/ UNCHANGED vars
  BY <1>6 DEF EnvChanges, DaemonServes, DaemonStalls, vars, probe, IInv, TypeOK, OnTime,
              InBounds
<1>. QED
  BY <1>1, <1>2, <1>3, <1>4, <1>5, <1>6, ProbeSteps, Ticks DEF Next, UnitStep, EnvStep

(* Every reachable state satisfies IInv.  VerdictInTime alone is not kept  *)
(* by a tick: only the bound of the step a probe is at says how much time  *)
(* it still has. *)
THEOREM Inductive == Spec => []IInv
BY Starts, Steps, PTL DEF Spec

(* The probe of neither unit runs longer than its timeout and one attempt  *)
(* of two requests. *)
THEOREM VerdictOnTime == Spec => []VerdictInTime
<1>1. IInv => VerdictInTime
  <2>. SUFFICES ASSUME IInv, NEW u \in Unit, state[u] = "probing"
                PROVE  elapsed[u] <= Timeout + 2 * Request
    BY DEF VerdictInTime
  <2>. QED
    BY AsItIs, Durations DEF InBounds, Step
<1>. QED
  BY <1>1, Inductive, PTL

(* So systemd's TimeoutStartSec never ends a start that the probe would    *)
(* still have decided. *)
THEOREM NeverKilledBySystemd ==
    Spec => [](\A u \in Unit : state[u] = "probing" => elapsed[u] < TimeoutStart)
<1>1. IInv /\ VerdictInTime
         => \A u \in Unit : state[u] = "probing" => elapsed[u] < TimeoutStart
  <2>. SUFFICES ASSUME IInv, VerdictInTime, NEW u \in Unit, state[u] = "probing"
                PROVE  elapsed[u] < TimeoutStart
    OBVIOUS
  <2>1. elapsed[u] \in Nat /\ elapsed[u] <= Timeout + 2 * Request
    BY AsItIs DEF VerdictInTime
  <2>2. TimeoutStart \in Nat /\ Timeout + 2 * Request < TimeoutStart
    BY StartupAssumption DEF StartupAssumption
  <2>. QED
    BY <2>1, <2>2, Durations
<1>. QED
  BY <1>1, Inductive, VerdictOnTime, PTL
=============================================================================
