---------------------------- MODULE SignalClient ----------------------------
(***************************************************************************)
(* The outgoing side of signal_client.py: writes to signal-cli, one at a   *)
(* time under _outgoing_lock, behind a breaker that the first rate limit   *)
(* latches until the process ends.  A read is an RPC too: it takes no lock *)
(* and heeds no breaker, but its answer may trip it.                       *)
(*                                                                         *)
(* asyncio.Lock serves its waiters in order, so the lock is the queue of   *)
(* the writers that asked for it, and its head holds it.                   *)
(***************************************************************************)
EXTENDS Sequences

CONSTANT Writer     \* tasks of the event loop that write to Signal

VARIABLES
    queue,      \* _outgoing_lock
    breaker,    \* _outgoing_disabled
    call        \* what each writer's call is doing, or how it ended

gateway == <<queue, breaker, call>>

(* A call ends with a timestamp, an error from signal-cli, a rate limit,   *)
(* an answer that is missing or not understood, or without an RPC.         *)
Outcome == {"sent", "refused", "limited", "lost", "blocked"}
CallState == {"idle", "waiting", "rpc"} \cup Outcome

GatewayInit ==
    /\ queue = <<>>
    /\ breaker = FALSE
    /\ call = [w \in Writer |-> "idle"]

Holds(w) == queue # <<>> /\ Head(queue) = w

Ask(w) ==
    /\ call[w] = "idle"
    /\ queue' = Append(queue, w)
    /\ call' = [call EXCEPT ![w] = "waiting"]
    /\ UNCHANGED breaker

(* Mutant: a write does not wait for the lock. *)
Write_Unlocked(w) ==
    /\ call[w] = "waiting"
    /\ ~breaker
    /\ call' = [call EXCEPT ![w] = "rpc"]
    /\ UNCHANGED <<queue, breaker>>

(* The breaker is read under the lock, and the request goes out before the *)
(* event loop runs anything else.                                          *)
Write(w) ==
    /\ Holds(w) /\ call[w] = "waiting"
    /\ ~breaker
    /\ call' = [call EXCEPT ![w] = "rpc"]
    /\ UNCHANGED <<queue, breaker>>

(* Mutant: the lock is not released when the breaker refuses a write. *)
Refuse_KeepsLock(w) ==
    /\ Holds(w) /\ call[w] = "waiting"
    /\ breaker
    /\ call' = [call EXCEPT ![w] = "blocked"]
    /\ UNCHANGED <<queue, breaker>>

Refuse(w) ==
    /\ Holds(w) /\ call[w] = "waiting"
    /\ breaker
    /\ call' = [call EXCEPT ![w] = "blocked"]
    /\ queue' = Tail(queue)
    /\ UNCHANGED breaker

(* The answer, or the request timeout. *)
Answer(w) ==
    /\ Holds(w) /\ call[w] = "rpc"
    /\ \E outcome \in Outcome \ {"blocked"} :
          /\ call' = [call EXCEPT ![w] = outcome]
          /\ breaker' = (breaker \/ outcome = "limited")
    /\ queue' = Tail(queue)

(* The answer to a read, listAccounts: an error object that names a rate   *)
(* limit trips the breaker whatever the method, and whoever is writing.    *)
ReadAnswer ==
    /\ \E limited \in BOOLEAN : breaker' = (breaker \/ limited)
    /\ UNCHANGED <<queue, call>>

Serve(w) == Write(w) \/ Refuse(w) \/ Answer(w)

(* The caller goes on with the result. *)
Take(w) ==
    /\ call[w] \in Outcome
    /\ call' = [call EXCEPT ![w] = "idle"]
    /\ UNCHANGED <<queue, breaker>>

GatewayRestart == queue' = <<>> /\ breaker' = FALSE /\ call' = [w \in Writer |-> "idle"]
=============================================================================
