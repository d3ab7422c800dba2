------------------------------- MODULE Startup -------------------------------
(***************************************************************************)
(* How the two services come up: signal-cli.service, whose start is gated  *)
(* by the readiness probe (ExecStartPost), and sheltercheck.service, gated *)
(* by the same probe (ExecStartPre) and by the health check of its own     *)
(* start.  Both are restarted on failure.                                  *)
(*                                                                         *)
(* A daemon loads its accounts when it starts; one that started too early, *)
(* before the network, has none until it is restarted.  All durations are  *)
(* in units of the instance; whatever is not a request, a sleep or a       *)
(* restart delay takes no time.  An answer comes in one piece: urllib      *)
(* applies --request-timeout-seconds to each operation on the socket.      *)
(***************************************************************************)
EXTENDS Naturals

CONSTANTS
    Timeout,        \* --timeout-seconds
    Request,        \* --request-timeout-seconds
    Interval,       \* --retry-interval-seconds
    RestartSec,
    TimeoutStart,   \* TimeoutStartSec
    DaemonStart     \* how long a daemon takes to serve, if nothing is wrong

ASSUME StartupAssumption ==
    /\ {Timeout, Request, Interval, RestartSec, TimeoutStart, DaemonStart} \subseteq Nat \ {0}
    /\ Timeout + 2 * Request < TimeoutStart
    /\ DaemonStart < Timeout

Signal == "signal"      \* signal-cli.service
App == "app"            \* sheltercheck.service
Unit == {Signal, App}

VARIABLES
    env,        \* what a daemon that starts now would load
    accounts,   \* accounts the daemon has loaded
    serving,    \* whether it answers in time
    state,      \* state of each unit
    step,       \* where the probe of each unit is
    since,      \* time since that step, or the restart delay, began
    elapsed     \* time since the probe began

probe == <<step, since, elapsed>>
vars == <<env, accounts, serving, state, probe>>

Loads == [one |-> 1, unloaded |-> 0, two |-> 2]

Init ==
    /\ env \in DOMAIN Loads
    /\ accounts = Loads[env] /\ serving = FALSE
    /\ state = [u \in Unit |-> IF u = Signal THEN "probing" ELSE "waiting"]
    /\ step = [u \in Unit |-> "check"]
    /\ since = [u \in Unit |-> 0]
    /\ elapsed = [u \in Unit |-> 0]

Reachable == serving /\ state[Signal] # "delay"

-----------------------------------------------------------------------------
(* The units.                                                              *)

Enter(u, s) == state' = [state EXCEPT ![u] = s]
Restarting(u) == Enter(u, "delay") /\ since' = [since EXCEPT ![u] = 0]

StartProbe(u) ==
    /\ Enter(u, "probing")
    /\ step' = [step EXCEPT ![u] = "check"]
    /\ since' = [since EXCEPT ![u] = 0]
    /\ elapsed' = [elapsed EXCEPT ![u] = 0]

DelayOver(u) == state[u] = "delay" /\ since[u] = RestartSec

RestartSignal ==
    /\ DelayOver(Signal)
    /\ StartProbe(Signal)
    /\ accounts' = Loads[env] /\ serving' = FALSE
    /\ UNCHANGED env

RestartApp ==
    /\ DelayOver(App)
    /\ Enter(App, "waiting")
    /\ UNCHANGED <<env, accounts, serving, probe>>

(* Mutant: Requires= instead of Wants=: a failed start of signal-cli fails *)
(* this unit for good. *)
StartApp_Requires ==
    /\ state[App] = "waiting" /\ state[Signal] # "probing"
    /\ IF state[Signal] = "active" THEN StartProbe(App)
       ELSE Enter(App, "failed") /\ UNCHANGED probe
    /\ UNCHANGED <<env, accounts, serving>>

(* After=: the start job waits for that of signal-cli, whatever becomes of *)
(* it (Wants=). *)
StartApp ==
    /\ state[App] = "waiting" /\ state[Signal] # "probing"
    /\ StartProbe(App)
    /\ UNCHANGED <<env, accounts, serving>>

(* The new process checks the daemon once more before it serves. *)
Boot ==
    /\ state[App] = "booting"
    /\ IF Reachable /\ accounts = 1
       THEN Enter(App, "running") /\ UNCHANGED since
       ELSE Restarting(App)
    /\ UNCHANGED <<env, accounts, serving, step, elapsed>>

AppExits ==
    /\ state[App] = "running"
    /\ Restarting(App)
    /\ UNCHANGED <<env, accounts, serving, step, elapsed>>

-----------------------------------------------------------------------------
(* The probe: wait_until_ready.                                            *)

Probing(u, s) == state[u] = "probing" /\ step[u] = s

Go(u, s) ==
    /\ step' = [step EXCEPT ![u] = s]
    /\ since' = [since EXCEPT ![u] = 0]
    /\ UNCHANGED <<env, accounts, serving, state, elapsed>>

(* A unit that fails to start is stopped, the daemon with it. *)
Unready(u) ==
    /\ Restarting(u)
    /\ serving' = (serving /\ u # Signal)
    /\ UNCHANGED <<env, accounts, step, elapsed>>

Ready(u) ==
    /\ Enter(u, IF u = Signal THEN "active" ELSE "booting")
    /\ UNCHANGED <<env, accounts, serving, probe>>

CheckEnds(u) ==
    /\ Probing(u, "check")
    /\ Go(u, IF Reachable THEN "list" ELSE "decide")

ListEnds(u) ==
    /\ Probing(u, "list")
    /\ IF ~Reachable THEN Go(u, "decide")
       ELSE IF accounts = 1 THEN Ready(u) ELSE Unready(u)

Decide(u) ==
    /\ Probing(u, "decide")
    /\ IF elapsed[u] >= Timeout THEN Unready(u) ELSE Go(u, "sleep")

(* Mutant: the sleep is not cut at the deadline. *)
Slept_WholeInterval(u) == since[u] = Interval

Slept(u) == since[u] = Interval \/ elapsed[u] = Timeout

Wakes(u) ==
    /\ Probing(u, "sleep") /\ Slept(u)
    /\ Go(u, "check")

ProbeStep(u) == CheckEnds(u) \/ ListEnds(u) \/ Decide(u) \/ Wakes(u)

-----------------------------------------------------------------------------
(* The daemon and what it depends on.                                      *)

EnvChanges ==
    /\ env' \in DOMAIN Loads \ {env}
    /\ UNCHANGED <<accounts, serving, state, probe>>

DaemonServes ==
    /\ ~serving /\ state[Signal] # "delay"
    /\ serving' = TRUE
    /\ UNCHANGED <<env, accounts, state, probe>>

DaemonStalls ==
    /\ serving /\ env # "one"
    /\ serving' = FALSE
    /\ UNCHANGED <<env, accounts, state, probe>>

DaemonDies ==
    /\ state[Signal] # "delay" /\ env # "one"
    /\ serving' = FALSE
    /\ Restarting(Signal)
    /\ UNCHANGED <<env, accounts, step, elapsed>>

-----------------------------------------------------------------------------
(* Time passes unless something is due. *)

Due(u) == \/ Probing(u, "check") /\ since[u] = Request
          \/ Probing(u, "list") /\ since[u] = Request
          \/ Probing(u, "decide")
          \/ Probing(u, "sleep") /\ Slept(u)
          \/ DelayOver(u)
DaemonDue == /\ env = "one" /\ ~serving
             /\ state[Signal] = "active" \/ (state[Signal] = "probing"
                                             /\ elapsed[Signal] >= DaemonStart)

Tick ==
    /\ ~DaemonDue
    /\ \A u \in Unit : ~Due(u)
    /\ \E u \in Unit : state[u] \in {"probing", "delay"}
    /\ since' = [u \in Unit |-> IF state[u] \in {"probing", "delay"}
                                THEN since[u] + 1 ELSE since[u]]
    /\ elapsed' = [u \in Unit |-> IF state[u] = "probing" THEN elapsed[u] + 1
                                  ELSE elapsed[u]]
    /\ UNCHANGED <<env, accounts, serving, state, step>>

UnitStep == RestartSignal \/ RestartApp \/ StartApp \/ Boot \/ \E u \in Unit : ProbeStep(u)
EnvStep == EnvChanges \/ DaemonServes \/ DaemonStalls \/ DaemonDies \/ AppExits

Next == UnitStep \/ EnvStep \/ Tick

Spec == Init /\ [][Next]_vars
FairSpec == Spec /\ WF_vars(UnitStep) /\ WF_vars(Tick) /\ WF_vars(DaemonServes)

-----------------------------------------------------------------------------
(* Properties.                                                             *)

(* The probe has its verdict before systemd would kill it: it begins no    *)
(* attempt after its deadline, and an attempt is two requests.             *)
VerdictInTime ==
    \A u \in Unit : state[u] = "probing" => elapsed[u] <= Timeout + 2 * Request

(* "A hard Requires= leaves this unit failed after signal-cli's first      *)
(* failed start, even if signal-cli later recovers": once daemons start    *)
(* with their account and ShelterCheck does not exit, it runs, whatever    *)
(* failed before and however the two starts are placed in time.            *)
ComesUp ==
    <>[](env = "one") /\ <>[][~AppExits]_vars => <>[](state[App] = "running")
=============================================================================
