------------------------------- MODULE Process -------------------------------
(***************************************************************************)
(* The tasks of one process, as _run of __main__.py starts and stops them: *)
(* the main task, which makes one pass over what is due and then handles   *)
(* the events of the stream one by one, and the ticker, which repeats the  *)
(* pass.  Both take the tracker's lock, and under it, or for the reply to  *)
(* a command without it, write through SignalClient.  The health check of  *)
(* /status is a read outside both locks.                                   *)
(*                                                                         *)
(* A task runs alone from one await to the next; a step ends at an await.  *)
(* What a pass or an event does to the database is AlertTracker's and      *)
(* CommandHandler's subject: here it is a number of writes to Signal.      *)
(***************************************************************************)
EXTENDS SignalClient, Naturals, SequencesExt

CONSTANT MaxWrites      \* bound on the writes of one pass or event

Main == "main"
Ticker == "ticker"
ASSUME ProcessAssumption == Writer = {Main, Ticker} /\ MaxWrites \in Nat

VARIABLES
    pc,         \* what each task awaits
    tracker,    \* the tracker's _lock: its holder and its waiters, in order
    left,       \* writes the current pass or event may still make
    cancelled   \* the ticker is to be cancelled

tasks == <<pc, tracker, left, cancelled>>
vars == <<gateway, tasks>>

Locked == {"work", "write"}

(* _run has opened the database and recovered; there is no ticker yet.     *)
Started == [t \in Writer |-> IF t = Main THEN "boot" ELSE "none"]

Init ==
    /\ GatewayInit
    /\ pc = Started
    /\ tracker = <<>>
    /\ left = [t \in Writer |-> 0]
    /\ cancelled = FALSE

Goes(t, to) == pc' = [pc EXCEPT ![t] = to]

(* A task that is cancelled does nothing else. *)
Runs(t) == t = Main \/ ~cancelled

-----------------------------------------------------------------------------
(* process_due, handle_event and the /check commands of the tracker.       *)

(* The main task has an event, or the ticker's sleep is over.  The first   *)
(* pass is the main task's. *)
Begin(t) ==
    /\ pc[t] = "ready" \/ (t = Main /\ pc[t] = "boot")
    /\ tracker' = Append(tracker, t)
    /\ Goes(t, "lock")
    /\ UNCHANGED <<gateway, left, cancelled>>

Acquire(t) ==
    /\ pc[t] = "lock" /\ Head(tracker) = t
    /\ Goes(t, "work")
    /\ left' = [left EXCEPT ![t] = MaxWrites]
    /\ UNCHANGED <<gateway, tracker, cancelled>>

AskReport(t) ==
    /\ pc[t] = "work" /\ left[t] > 0
    /\ Ask(t)
    /\ Goes(t, "write")
    /\ left' = [left EXCEPT ![t] = @ - 1]
    /\ UNCHANGED <<tracker, cancelled>>

TakeReport(t) ==
    /\ pc[t] = "write"
    /\ Take(t)
    /\ Goes(t, "work")
    /\ UNCHANGED <<tracker, left, cancelled>>

Release(t) == tracker' = Tail(tracker) /\ left' = [left EXCEPT ![t] = 0]

(* After the first pass the ticker is created. *)
Leave(t) ==
    /\ pc[t] = "work"
    /\ Release(t)
    /\ pc' = [u \in Writer |-> IF u = t \/ pc[u] = "none" THEN "ready" ELSE pc[u]]
    /\ UNCHANGED <<gateway, cancelled>>

(* Mutant: an error in a pass ends the ticker. *)
PassFails_Ends ==
    /\ pc[Ticker] = "work"
    /\ Release(Ticker)
    /\ Goes(Ticker, "done")
    /\ UNCHANGED <<gateway, cancelled>>

(* The ticker logs an error of its pass and sleeps. *)
PassFails ==
    /\ pc[Ticker] = "work"
    /\ Release(Ticker)
    /\ Goes(Ticker, "ready")
    /\ UNCHANGED <<gateway, cancelled>>

(* The reply to a command is sent without the tracker's lock. *)
AskReply ==
    /\ pc[Main] = "ready"
    /\ Ask(Main)
    /\ Goes(Main, "reply")
    /\ UNCHANGED <<tracker, left, cancelled>>

TakeReply ==
    /\ pc[Main] = "reply"
    /\ Take(Main)
    /\ Goes(Main, "ready")
    /\ UNCHANGED <<tracker, left, cancelled>>

(* /status asks signal-cli for its accounts, and drops an error. *)
AskHealth ==
    /\ pc[Main] = "ready"
    /\ Goes(Main, "health")
    /\ UNCHANGED <<gateway, tracker, left, cancelled>>

TakeHealth ==
    /\ pc[Main] = "health"
    /\ ReadAnswer
    /\ Goes(Main, "ready")
    /\ UNCHANGED <<tracker, left, cancelled>>

-----------------------------------------------------------------------------
(* The end: the main task is interrupted or raises an error; the ticker is *)
(* cancelled and awaited, the session and then the database are closed.    *)

(* Mutant: a writer that is cancelled keeps its place in the outgoing lock. *)
Drop_KeepsPlace(t) ==
    /\ tracker' = RemoveFirst(tracker, t)
    /\ queue' = queue
    /\ call' = [call EXCEPT ![t] = "idle"]
    /\ left' = [left EXCEPT ![t] = 0]
    /\ UNCHANGED breaker

(* async with gives up every lock, and a place in the queue for one.       *)
Drop(t) ==
    /\ tracker' = RemoveFirst(tracker, t)
    /\ queue' = RemoveFirst(queue, t)
    /\ call' = [call EXCEPT ![t] = "idle"]
    /\ left' = [left EXCEPT ![t] = 0]
    /\ UNCHANGED breaker

Stop ==
    /\ pc[Main] \notin {"join", "close", "closed"}
    /\ Drop(Main)
    /\ cancelled' = (pc[Ticker] # "none")
    /\ Goes(Main, IF pc[Ticker] = "none" THEN "close" ELSE "join")

(* Mutant: the ticker takes its cancellation for a failed pass. *)
Cancelled_Swallowed ==
    /\ cancelled /\ pc[Ticker] # "done"
    /\ Drop(Ticker)
    /\ Goes(Ticker, "ready")
    /\ cancelled' = FALSE

Cancelled ==
    /\ cancelled /\ pc[Ticker] # "done"
    /\ Drop(Ticker)
    /\ Goes(Ticker, "done")
    /\ UNCHANGED cancelled

(* Mutant: the ticker is cancelled and not awaited. *)
Join_AtOnce ==
    /\ pc[Main] = "join"
    /\ Goes(Main, "close")
    /\ UNCHANGED <<gateway, tracker, left, cancelled>>

Join ==
    /\ pc[Main] = "join" /\ pc[Ticker] = "done"
    /\ Goes(Main, "close")
    /\ UNCHANGED <<gateway, tracker, left, cancelled>>

Close ==
    /\ pc[Main] = "close"
    /\ Goes(Main, "closed")
    /\ UNCHANGED <<gateway, tracker, left, cancelled>>

(* systemd starts the process again. *)
Restart ==
    /\ pc[Main] = "closed"
    /\ GatewayRestart
    /\ pc' = Started
    /\ cancelled' = FALSE
    /\ UNCHANGED <<tracker, left>>

-----------------------------------------------------------------------------
Works(t) ==
    /\ Runs(t)
    /\ \/ Acquire(t) \/ AskReport(t) \/ TakeReport(t) \/ Leave(t)
       \/ Serve(t) /\ UNCHANGED tasks

MainStep == Works(Main) \/ TakeReply \/ TakeHealth \/ Join \/ Close

TickerStep == Works(Ticker) \/ (Runs(Ticker) /\ (Begin(Ticker) \/ PassFails)) \/ Cancelled

Next == MainStep \/ TickerStep \/ Begin(Main) \/ AskReply \/ AskHealth \/ Stop \/ Restart

Spec == Init /\ [][Next]_vars

(* The event loop runs every task whose await is over; an RPC ends by its  *)
(* request timeout and the ticker's sleep by itself.  An event or a reason *)
(* to stop may never come. *)
FairSpec == Spec /\ WF_vars(MainStep) /\ WF_vars(TickerStep)

-----------------------------------------------------------------------------
(* Properties.                                                             *)

TypeOK ==
    /\ queue \in Seq(Writer) /\ breaker \in BOOLEAN /\ call \in [Writer -> CallState]
    /\ pc[Main] \in {"boot", "ready", "lock", "reply", "health", "join", "close", "closed"}
                    \cup Locked
    /\ pc[Ticker] \in {"none", "ready", "lock", "done"} \cup Locked
    /\ tracker \in Seq(Writer)
    /\ left \in [Writer -> 0 .. MaxWrites] /\ cancelled \in BOOLEAN

(* Each lock is held and awaited by exactly the tasks that are in it, each *)
(* once, wherever a task is cancelled: a lock nobody would release, or two *)
(* tasks within the tracker, cannot come about.                            *)
LocksFollowTasks ==
    /\ IsInjective(tracker) /\ IsInjective(queue)
    /\ ToSet(tracker) = {t \in Writer : pc[t] \in Locked \cup {"lock"}}
    /\ \A t \in Writer : pc[t] \in Locked => Head(tracker) = t
    /\ ToSet(queue) = {t \in Writer : call[t] \in {"waiting", "rpc"}}
    /\ \A t \in Writer : (call[t] # "idle") <=> (pc[t] \in {"write", "reply"})

(* When the session and the database are closed, no task is left that      *)
(* could use them, and none waits for an answer.                           *)
QuietOnceClosed ==
    pc[Main] \in {"close", "closed"} =>
        /\ pc[Ticker] \in {"none", "done"}
        /\ \A t \in Writer : call[t] = "idle"

Stopping == pc[Main] \in {"join", "close", "closed"}

(* The ticker comes back to its pass as long as the process runs, whatever *)
(* the main task does and however many passes fail; an event that is taken *)
(* up is handled; and a process that is to stop stops.                     *)
TasksProgress ==
    /\ pc[Ticker] = "ready" ~> pc[Ticker] = "work" \/ Stopping
    /\ pc[Main] \in Locked \cup {"lock", "reply", "health"} ~> pc[Main] \in {"ready", "closed"}
    /\ Stopping ~> pc[Main] = "closed"
=============================================================================
