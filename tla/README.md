# ShelterCheck in TLA+

ShelterCheck watches a Signal group through a local signal-cli daemon. When an
allowed author posts the control message, it opens a *session* (an alarm): it
follows the reactions of the people on today's released list, posts an
intermediate and a final report on who is missing, keeps the final report up to
date by editing it, and posts a completion when everybody has responded. Signal
commands edit the released list and force a check. State lives in SQLite and in
one text file; one asyncio process does the work and systemd restarts it.

Two promises make the program hard: a Signal message cannot be taken back, so
nothing may be sent twice, whatever crashes or is redelivered; and everything a
session says must agree with the reactions that were sent in time.

This directory holds the TLA+ modules of that system, the instances TLC checks,
and the theorems TLAPS proves. Paths below are relative to the repository;
`tracker.py` and its siblings are in `src/sheltercheck/`.

## Inventory

| Part | State | Operations | Talks to | What makes it correct |
|---|---|---|---|---|
| Alert tracker (`tracker.py`) | one `asyncio.Lock`; `service_started_at_ms` | messages, reactions, `process_due`, `/check`, `/check <text>` | database, released list, publisher | reports in their window, late reactions not counted, terminal sessions final, reports never silently stale |
| State database (`database.py`, `models.py`) | alarms, members, reactions, snapshots, outgoing operations, observed history; migrations | one transaction per method | SQLite | operation keys attempted once, rows of ended sessions frozen |
| Outgoing attempts (`outgoing.py`) | the operation of one key | claim, write, finish | database, Signal client | at most one RPC per key, uncertain stays uncertain |
| Signal client, writes (`signal_client.py`) | outgoing lock, latched breaker | send, edit, reaction | signal-cli over loopback HTTP | one write at a time, none begun after a rate limit that any RPC met, lock always released |
| Signal client, events (`signal_client.py`) | backoff, partial SSE event | `events` | signal-cli | whole events, in order, at most once; bounded backoff; one bad event does not end the stream |
| Event parser (`event_parser.py`) | none | JSON to events | main task | no event from a malformed envelope |
| Command handler (`commands.py`) | none of its own | ten slash commands | released list, tracker, publisher, database | a reply is true, an effect is not repeated |
| Released list (`released_list.py`) | a file, an `asyncio.Lock` | get, replace, add, remove, clear | file system | a reader sees a complete list, a failed write changes nothing |
| Admin CLI (`admin_cli.py`) | none | `released show/validate/import` | released list, from another process | validates before it replaces |
| Reporter (`reporter.py`) | none | texts, publishers | Signal client | the text is a function of the session |
| Roster, configuration (`roster.py`, `config.py`) | none | parse and validate | files | delays in order, identities distinct |
| Process (`__main__.py`) | ticker task, main task | start, loop, exit | all of the above | the ticker survives an exception, locks are given up on cancellation, nothing uses what is closed |
| Readiness probe and units (`deploy/`) | deadline, unit states | poll, start, restart | signal-cli, systemd | verdict in time, the services come up however their starts are placed |
| Scripts and tools (`deploy/*.sh`, `tools/`) | files | install, update, backup, dump | systemd | - |

How they interact. The main task reads Signal events one after another and gives
each to the command handler, and if it is no command to the tracker. The ticker
calls `process_due` every 0.25 s. Both tasks share the tracker's lock, which is
held across RPCs, and the client's outgoing lock. Durable state is shared by
successive processes; the released list also by `released import`.

Hard behaviour. A crash between any two transactions; an RPC whose answer is
lost; a breaker that somebody else's write trips, or a read outside the lock; events that are late,
repeated, missing or out of order; a pass that uses the time at which it began;
sessions of an earlier process that still are in the database; a second process
on the released list; a schema migration that is cut off and repeated; a stream
that is cut in the middle of an event; a daemon that comes up late or wrong; a
task that is cancelled while it holds, or waits for, a lock. `PROJECT.json` lists each hazard at its line, with the
properties that would catch it.

## Modules

| Module | Stands for | Role |
|---|---|---|
| `OutgoingOperations` | `outgoing_operations` table of `database.py` | states and transactions of an operation; no state of its own |
| `OutgoingLedger` | - | abstract specification: a write is open, claimed, then settled, and sent at most once |
| `StateDatabase` | the other tables of `database.py` | rows, transactions and due queries as operators |
| `AlertTracker` | `tracker.py`, `outgoing.py` | the tracker's state machine over the two modules above |
| `SignalClient` | writing half of `signal_client.py` | lock, breaker, calls |
| `CommandHandler` | `commands.py`, `released_list.py`, `admin_cli.py` | commands over `SignalClient`, beside ticker and import |
| `ReactionHistory` | reactions in `database.py`, their handling in `tracker.py` | history, responses and replay, with repetition, ties and restarts |
| `Migration` | `StateDatabase.__init__` and the migrations | the start of the database, commit by commit |
| `EventChannel` | docstring of `events` | abstract specification of the event stream |
| `EventStream` | reading half of `signal_client.py` | connections, lines, backoff; implements `EventChannel` |
| `Process` | `_run`, `_ticker` of `__main__.py` | the two tasks over both locks, from boot to close; uses `SignalClient` |
| `Startup` | `deploy/signal_cli_readiness.py`, `deploy/*.service` | both units, their probes and the daemon |
| `MC...` | - | inputs of the instances |
| `AlertTrackerProofs`, `SessionProofs` | - | lemmas and theorems about the tracker, the second extending the first |
| `ReactionHistoryProofs`, `CommandHandlerProofs`, `ProcessProofs`, `StartupProofs`, `MigrationProofs`, `EventStreamProofs` | - | theorems about those modules |

Definitions whose comment says *Mutant* are faulty variants kept beside the
definition they vary: they are used nowhere, and show that a property notices
the fault they plant.

### AlertTracker

*One job.* Every public method of the tracker holds `_lock` until it returns, so
the model has at most one call under way: `pc` says where it is, `job` holds its
local variables and `key` the operation it attempts. `pc = "free"` means the
lock is free. A step is one committed transaction or one RPC event, with three
exceptions that join two commits: `ReactionBegin` stores the reaction and expires
sessions (`tracker.py:292`, `310`), `CheckBegin` expires and cleans up (74, 75),
`IntakeTrigger` cleans up and creates the session (156, 175). The tracker's lock is held
over both, so only a crash can tell them apart, and `Crash` may leave the first
without the second (`FirstCommit`). Between two steps the clock may move, a
command's reply or the health check of `/status` may trip the breaker
(`CommandTripsBreaker`), a statement of the ticker may fail (`TickFails`: the pass
is over and the loop goes on, as `_ticker` catches every exception), and the
process may crash, which is also what an exception in the main task comes to.
Reads are part of the step that acts on them: while the lock is held nobody else
writes the tables.
`CommandTripsBreaker` needs a job of the ticker, because while the main task has
a job here it answers no other command; the model allows it in the pass before
the first event too, when there is none to answer yet.

*State.* `alarm[m]` is the row of `alarms` with its three child tables, keyed by
the message because (group, author, timestamp) is UNIQUE. `op` is
`outgoing_operations`. `observed` and `seen` are the history tables. `started`
is the start time of the process, `breaker` the client's flag. `wire` (RPCs per
key), `shown` (text last acknowledged) and `failures` are ghosts: no guard of the
code's actions reads them; `failures` bounds `Crash` and `TickFails`.

*Actions.* `TickBegin` to `TickEnd` are `process_due`; `MessageBegin`,
`Intake...`, `HostReaction` and `Settle` are `_handle_message`; `Reaction...`
are `_handle_reaction`; `Check...` are the two force methods. The evaluations
`ProcessIntermediate`, `ProcessFinal` / `SnapshotFinal` / `MarkFinalDue`,
`ProcessEdit`, `Complete` are called from several of them and return to
`job.back`. `Claim`, `Issue`, `Blocked`, `Succeed`, `Fail`, `RateLimited`,
`LoseAnswer`, `Post` are one attempt and the transition of the alarm it leads to.

*Abstractions.*
- A text is what can make two reports of a session differ: the snapshot, those
  of it who responded, the number missing.
- `_process_due_locked` fetches four lists and walks each; the model takes the
  first row of the first query that yields any. An evaluation removes its row
  from its query and adds none to an earlier one, so the order is the same.
- Early returns on `not is_active` or TTL that cannot be reached, because the
  caller tested the same values in the same stretch, are not repeated.
- Two reactions of one member with one timestamp agree on being a removal
  (`InputAssumption`): the emoji that breaks such a tie in the code is left out.
- The configuration does not change over a restart.

### SignalClient and CommandHandler

`queue` is the FIFO of `asyncio.Lock`, whose head holds it; `call[w]` is how far
the write of a task is. The breaker is read under the lock (`Write`, `Refuse`).
A read takes no lock and heeds no breaker, but `rpc` trips the breaker on the error
object of any method (`signal_client.py:185-190`), so the answer to one
(`ReadAnswer`) may trip it under a write of the other task.
The handler's `pc` runs through lookup, execution, recording, claim, lock and
outcome. `Execute` reads the list and `Replace` publishes the new one: no other
task of the process runs between them, but `released import` (`ImportBegin`,
`ImportReplace`, `ImportFails`) and `Crash` do. A file that is written through
`os.replace` changes in one step. The list is a set; order, and duplicates that
only a hand edit can produce, are left out. `/status` waits for its health check
(`HealthAnswers`), drops an error of it, and then reads the list. `/help` behaves as
`/getrt` without its read and has no token of its own. `cut` counts, for each command, the
executions a crash cut off before their reply operation was recorded. `/check` here is only
the write it may make; its whole effect, and its wait for the tracker's lock,
are in `AlertTracker`.

### ReactionHistory

`AlertTracker` keeps of a member's reactions what reports need. This module
takes the same handlers for one message and keeps every row: `history` is
`observed_reactions` in the order of its ids, `state` the event `reaction_state`
was last set by, emoji included. `Receive` is `_record_observed_reaction`,
`ApplyReceived` the `apply_reaction` after it; the two are transactions of their
own, and so is each row of a replay (`Replay`), so `Restart` may come between
any two. `Trigger`, `ObserveMessage`, `CheckMessage` are the ways a message
becomes known and gets its session, `Cleanup` is `cleanup_observed_history`,
`EndSession` expiry or completion, which a reaction may meet between its two
transactions. `applied` and `fresh` are ghosts.

### Migration

A step is what commits at once: Python's `sqlite3` opens a transaction before
INSERT, UPDATE and DELETE only, so the DROP and CREATE of the rebuild and every
statement of the script commit alone, while `INSERT ... SELECT`, DROP and RENAME
are one (`Swap`). `objects` and `columns` are the schema, `rows`, `released`,
`reaction`, `initial`, `op` the tables, `fk` the connection's
`PRAGMA foreign_keys`; `Cascade` is what dropping a referenced table does with it
on. `Stop` may come after any step. The running process writes the tables as the
tracker does (`AppStep`), so that later starts meet rows in mid-attempt. Columns
no property distinguishes (ids, texts, group) are left out, and the two
migrations of rows are one step each, as they are one transaction each.

### EventChannel and EventStream

The daemon's side (`SendLine`, `EndStream`, `GoesDown`, ...) is external: it
sends the events 1, 2, ... in data lines with a blank one after each, may end or
break the connection at any line, and does not repeat what was published while
nobody listened. The client's side is the code: `Connect`, `ConnectFails`, `Wake`
are the loop of `events` with its backoff, the `Read...` actions are
`_iter_sse_json`, `Fail` an error of the connection or a line that is not UTF-8,
`Handled` the return of the main task. `lines` is what the connection still
holds, `pending` is `data_lines`. `EventStream` implements `EventChannel` with
`flight` mapped to the events of which every data line is under way.

### Process

`pc` says what each task awaits, `tracker` and `queue` are the FIFOs of the two
`asyncio.Lock`s, `left` how many writes a pass or event may still make;
`AskHealth` and `TakeHealth` are `/status`, outside both locks. What the
passes do to the database is left to the other modules. `Stop` is an interrupt
or an escaping error at any await; `Drop` is what `async with` does when a task
is cancelled; `Cancelled`, `Join`, `Close` are the `finally` of `_run`. A
cancellation is delivered once, at an await.

### Startup

`state` is each unit's (`waiting`, `probing`, `booting`, `active` or `running`,
`delay`), `step`, `since` and `elapsed` are the loop of `wait_until_ready`.
`RestartSignal`, `StartApp`, `Unready` are what `Restart=`, `After=`, `Wants=` and
`ExecStartPost=`/`ExecStartPre=` make systemd do. The daemon is external: it
loads its accounts when it starts, and may start without any, with two, stall or
die as long as `env` is not `"one"`. Durations are in units; the assumption keeps
their order in the shipped files (deadline plus one attempt below
`TimeoutStartSec`; a healthy daemon serves before the deadline). An answer to
the probe comes in one piece: `urllib` applies the request timeout to each socket
operation, so one that trickles is bounded by `TimeoutStartSec` alone.
`--wait-for-account`, which only `update.sh` uses, is left out.

## What is checked

All runs but one pass; deadlock is checked everywhere.

| Run | Instance | Shows |
|---|---|---|
| `core` | 1 message, 2 members, 4 reactions, no crash | `ReportsInTheirWindow`, `DeadlineSemantics`, `ReportNeverSilentlyStale`, `CompletedPromptly`, `TerminalIsFinal`, `CompletionNeverDoublesReport`, `TypeOK` |
| `crash` | 1 message sent by a clock that is ahead, 2 members, 1 reaction, host reaction, any list, 1 crash or failed pass | `AtMostOnce`, `ImplementsLedger`, `ReportedIsSettled`, `NoReportDueAfterTerminal`, `PreStartFrozen`, `SendsOnlyWhileActive` |
| `pair` | 2 messages of one millisecond, unnamed reactions, short retention | `ResponsesFollowHistory`, `AmbiguousReactionsAreDropped` |
| `live` | fair, 1 crash or failed pass | `FinalIsEvaluated`, `EditsSettle` |
| `reactions` | 2 members, 5 reactions, 2 of them of one millisecond, restarts | `NewestWins`, `CaughtUp`, `HistoryCoversSession`, `TiesByArrival` |
| `commands` | `/addrt`, `/delrt`, `/status`, import, 1 crash | `ReplyTellsTheTruth`, `RepeatedOnlyAfterCrash`, `RepliesImplementLedger`, `LimitEndsWrites`, `TypeOK` |
| `settle` | fair, update, `/check`, malformed command | `CommandsSettle` |
| `migration` | fair, 20 older databases, 2 sessions, any number of stops | `NothingIsLost`, `ClaimedNeverRetryable`, `FinishedAsUninterrupted`, `RestartChangesNothing`, `StartCompletes` |
| `stream` | fair, 6 events of every form | `StreamImplementsChannel`, `BackoffFollowsFailures`, `StreamGoesOn` |
| `process` | fair, 2 tasks, 2 writes each, stop and restart | `LocksFollowTasks`, `QuietOnceClosed`, `TasksProgress` |
| `startup` | fair, deadline 4, request 1, interval 2, restart 2 | `VerdictInTime`, `ComesUp` |
| `uncertain_final` | 1 crash | a violation, see below |

*Bounds.* Time is in units in which the intermediate deadline is 1 and the final
one 2: before, at and after each deadline, with one unit left for late handling,
is `MaxTime` 4 to 6; `live` ends at 3, where an edit scheduled at the final
deadline is due. TTL is small enough to expire within `core` (5 of 6),
`crash` (4 of 5) and `pair` (3 of 4). One crash or failed pass shows what a
property says of one restart or one abandoned pass; the proofs cover any number. `MaxRev` bounds `reaction_revision` by disabling reactions that
would exceed it and is at least the number of changes the reactions of the
instance can make. Messages and reactions are delivered in any order, any number
of times, never before they were sent; in `crash` the sender's clock is one unit
ahead (`Skew`), so that a process may start between the delivery of a message and
its timestamp and find its session its own, the only way by which a tick comes
upon a session in which everybody has responded. One session cannot disturb
another except through routing, replay and history, which `pair` has two
messages for. `Retention` is never below `TTL`, as in the shipped configuration
(24 h); a configured TTL above it is not covered. In `commands` each message may
be received again at any time.

`reactions` has a removal, a new reaction and its removal in and around one
millisecond, so every order of tie, repetition and replay of three rows occurs;
`MaxHistory` is the number of distinct reactions, so no reaction is ever held
back. `migration` finds an empty database, the first version with every pair of
report states (pending, claimed with the answer lost, sent with and without a
timestamp), two later versions that lack one column, and one that another version
left in the middle of its own rebuild (with a table `alarms_new`); members and sessions
do not interact, so one member and two sessions are enough. `stream` has events
in one and two lines, one each of malformed, undecodable and non-object JSON,
up to five lines queued, and attempts beyond the number that takes the backoff
to its maximum (1, 2, 4, 5). `process` lets a pass make two writes, so that a
second one can wait behind another task's. In `startup` the interval does not
divide the deadline evenly in every sequence of slow and quick answers, so the
cut sleep, and an attempt that begins just before the deadline, occur.

*Fairness.* `FairSpec` of the tracker asks that a job goes on (its RPC ends by
the request timeout of 30 s, everything else is local), that the clock advances,
and, strongly, that the ticker gets the lock: it asks again 0.25 s after each
pass and `asyncio.Lock` serves waiters in order, so a stream of calls by the main
task does not keep it out for ever. In `CommandHandler` the main task's own
steps and the progress of whoever holds the outgoing lock are weakly fair. In
`Process` each task goes on when its await is over (an RPC ends by its timeout,
the ticker's sleep by itself), and nothing is assumed of events or of a reason to
stop. In `EventStream` only the client is fair, and `StreamGoesOn` is about a
signal-cli that stays up. In `Migration` a start goes on, and `StartCompletes` is
about a process that is no longer stopped. In `Startup` units and time go on and
a daemon serves at last; a healthy one does so within `DaemonStart`, which is the
meaning of healthy; `ComesUp` is about an environment that has become healthy and
an application that no longer exits.
Nothing is assumed of messages, reactions, commands, imports or crashes. The
tracker's liveness properties are about the running process: a crash discharges
them, because a later process leaves the sessions of an earlier one alone.
`FinalIsEvaluated` has one exception more, which TLC pointed out: when a statement
fails between `mark_outgoing_due` and `mark_reported`, `list_due_final` no longer
returns the session, and only a reaction or `/check` takes it up again. The
report may then not be sent at all, which is the side the repository's README
(lines 674-678) says it errs on.

*What the properties leave open.* `SendsOnlyWhileActive`, `ReportsInTheirWindow`
compare with the time the job began, as the code does: an RPC may leave later by
the length of those before it in the pass. `ReplyTellsTheTruth` excepts commands
during which an import replaced the file; the repository's README (line 726)
calls the lock process-local. `LimitEndsWrites` forbids writes that begin after the
breaker has tripped, not one that is under way when the health check of `/status`
trips it: its answer still counts. `CompletedPromptly` is about clocks that are not
ahead: a session dated after a restart belongs to the new process, and its next
pass completes it, not the call that took the last response.
`ReportNeverSilentlyStale` is checked without failing passes: with `MaxFailures`
1, TLC finds that a pass which fails between the answer to the final report and
`mark_reported`, or to an edit and its recording, lets a later evaluation put the
newer text on record although Signal shows the older one, until the next
reaction; the repository promises nothing for that case. `TiesByArrival` speaks
of a replay: for reactions of one millisecond that arrive live, the last to
arrive counts, and a redelivery may turn them round, as `apply_reaction` accepts
any different event of an equal timestamp. `StreamImplementsChannel` lets events
go that were published while no connection lived: signal-cli does not repeat them
on its stream, and nothing in the repository promises that the tracker hears of them.

### Finding

`uncertain_final`: `_complete_alarm` suppresses the independent completion when
the final report may exist but cannot be edited, and tests for it
`status == "reported"` (`tracker.py:566`). If the process dies after the final
report's RPC was issued and before `mark_reported`, the session stays `pending`
with its final operation uncertain or acknowledged. The next process leaves it
alone until `/check`; if everybody has responded by then (the replay of the
history counts the reactions that came since), `_force_alarm` calls
`_complete_alarm`, which takes the other branch and sends the completion beside
the report. The comment at `tracker.py:570-572`, the test
`test_uncertain_final_never_causes_independent_completion_duplicate` and the
README (line 235) say it should not. `core` shows the same property without
crashes.

## What is proved

Theorems hold for all messages, members, reactions, commands, events, databases,
delays and numbers of crashes, from the constants' named assumptions alone: `RowAssumption` (finite
member set, naturals), `TimingAssumption` (the order of delays `load_config`
enforces), `InputAssumption` and `HistoryAssumption` (inputs well typed),
`CommandAssumption` (commands of the known forms), `WriterAssumption` and
`ProcessAssumption` (the two tasks that write), `StartupAssumption` (the order of
the delays in the shipped units), `MigrationAssumption` (what an older version can
have left behind) and `StreamAssumption` (events have lines, the backoff is
positive). Six theorems need more, and each says so in its statement:

- `CompletedInTheSameCall`, `ResponsesAreOfTheHistory` and `DeadlinesHold` that
  `Skew = 0`, no sender's clock being ahead of the host's: a session dated after a
  restart belongs to the later process, which has not been given its history;
- `ResponsesAreOfTheHistory` and `DeadlinesHold` that `TTL <= Retention`, as with
  the delays of the shipped configuration (6 h and 24 h): the call that begins a
  session may otherwise forget its message again, as too old, in the same step;
- `CompletionDoublesNoReport`, `ReportsNotSilentlyStale` and `DeadlinesHold` that
  `MaxFailures = 0`, no crash and no failing pass. These are promises of
  an undisturbed process, for any number of messages, reactions, refused or lost
  RPCs. With a crash the first is false, as `uncertain_final` shows; with a failing
  pass the second (see above); and a `/check` in a later process replays into the
  session of an earlier one whatever came since, also what was sent after a deadline;
- `BackoffDoubles` that 2^0 = 1 and 2^(n+1) = 2 * 2^n, which the provers cannot
  unfold from the recursive definition of `^`.

| Module | Theorem | States |
|---|---|---|
| `AlertTrackerProofs` | `Inductive` | `Spec => []IInv` |
| | `TypeCorrect` | `Spec => []TypeOK` |
| | `AtMostOneAttempt` | `Spec => []AtMostOnce` |
| | `LedgerRefined` | `Spec => ImplementsLedger`: the tracker refines `OutgoingLedger` |
| | `TerminalStays` | `Spec => TerminalIsFinal` |
| `SessionProofs` | `SessionsInductive` | `Spec => []SInv` |
| | `ReportedSessionsAreSettled` | `Spec => []ReportedIsSettled` |
| | `EndedSessionsOweNoReport` | `Spec => []NoReportDueAfterTerminal` |
| | `OnlyActiveSessionsSend` | `Spec => SendsOnlyWhileActive` |
| | `ReportsKeepTheirWindow` | `Spec => ReportsInTheirWindow` |
| | `EarlierSessionsFrozen` | `Spec => PreStartFrozen` |
| | `CompletedInTheSameCall` | `Skew = 0` implies `Spec => []CompletedPromptly` |
| | `ResponsesAreOfTheHistory` | `Skew = 0`, `TTL <= Retention` imply `Spec => []ResponsesFollowHistory` |
| | `AmbiguousReactionsDropped` | `Spec => AmbiguousReactionsAreDropped` |
| | `CompletionDoublesNoReport` | `MaxFailures = 0` implies `Spec => CompletionNeverDoublesReport` |
| | `ReportsNotSilentlyStale` | `MaxFailures = 0` implies `Spec => []ReportNeverSilentlyStale` |
| | `DeadlinesHold` | `Skew = 0`, `MaxFailures = 0`, `TTL <= Retention` imply `Spec => DeadlineSemantics` |
| `ReactionHistoryProofs` | `Inductive` | `Spec => []IInv` |
| | `NewestAlwaysWins` | `Spec => []NewestWins` |
| | `HistoryAlwaysCovers` | `Spec => []HistoryCoversSession` |
| | `AlwaysCaughtUp` | `Spec => []CaughtUp` |
| | `ReplayBreaksTies` | `Spec => TiesByArrival` |
| `CommandHandlerProofs` | `Inductive` | `Spec => []IInv` |
| | `TypeCorrect` | `Spec => []TypeOK` |
| | `BreakerStopsWrites` | `Spec => LimitEndsWrites` |
| | `ExecutedOnceUnlessCrashed` | `Spec => []RepeatedOnlyAfterCrash` |
| | `RepliesAreTrue` | `Spec => []ReplyTellsTheTruth` |
| | `RepliesRefineLedger` | `Spec => RepliesImplementLedger` |
| `ProcessProofs` | `Inductive` | `Spec => []IInv` |
| | `TypeCorrect` | `Spec => []TypeOK` |
| | `EachLockHasItsTasks` | `Spec => []LocksFollowTasks` |
| | `NothingIsUsedOnceClosed` | `Spec => []QuietOnceClosed` |
| `StartupProofs` | `Inductive` | `Spec => []IInv` |
| | `VerdictOnTime` | `Spec => []VerdictInTime` |
| | `NeverKilledBySystemd` | no probe is under way for `TimeoutStartSec` |
| `MigrationProofs` | `Inductive` | `Spec => []IInv` |
| | `TypeCorrect` | `Spec => []TypeOK` |
| | `NoSessionLost` | `Spec => []NothingIsLost` |
| | `OldClaimsStay` | `Spec => []ClaimedNeverRetryable` |
| | `RestartsChangeNothing` | `Spec => RestartChangesNothing` |
| | `InterruptionsDoNotShow` | `Spec => FinishedAsUninterrupted` |
| `EventStreamProofs` | `Inductive` | `Spec => []IInv` |
| | `StreamRefinesChannel` | `Spec => StreamImplementsChannel`: the client refines `EventChannel` |
| | `BackoffBounded` | the delay never leaves `Initial .. Maximal` |
| | `BackoffDoubles` | `PowersOfTwo` implies `Spec => []BackoffFollowsFailures` |

*Tracker, attempts.* `IInv` is `TypeOK` with three parts none of which is
inductive alone:
- `JobOK`: a job that has chosen its work works on a message, an attempt has a
  key, and a job about to prepare an operation is on a session that exists.
- `OpsOK`: an operation exists only for a session that exists, so `create_alarm`
  overwrites none; an operation was on the wire at most once, and if it was its
  state says attempted; a session that has ended has no edit due, so no due query
  leads to it.
- `AttemptOK`: between claim and answer the operation of the job is
  `attempted_uncertain`, and was on the wire exactly if the RPC was issued. This
  is what carries at-most-once over a crash: `Claim` makes the operation
  unclaimable in the step before the RPC, and the next process finds it so.

The proof separates *quiet* steps, which leave `wire` alone and only evaluate
sessions or prepare operations, from the steps of an attempt; a lemma per operator of
`StateDatabase` and `OutgoingOperations` says what it keeps.

*Tracker, sessions.* A decision is made at the beginning of a job and acted upon
several transactions later, so the properties of sending are not inductive: `SInv`
carries the decision along. `TablesOK` relates status, operations and time
(settled reports, nothing due before its deadline, measured by the job's own
time). `PassOK` says a pass expired what was to expire. `SubjectOK` says the
session of a job was unexpired and, for automatic work, of this process.
`SendOK` says it is still active, and in its window, at every step up to the RPC.

*Tracker, completion.* Between two jobs nobody-missing must not occur in an
active session of this process. Inside a job it does: `CInv` says that it is then
the session of that job, which is not a pass, at a place from which every path
leads to `Complete`. That a pass is never such a job is what makes
the exception of a failing pass harmless, and `NotAhead` (no session is dated
after the present, from `Skew = 0`) is what makes a restart harmless.

*Tracker, responses.* `HInv` follows a reaction from its arrival to the row of its
session: rows of the history were accepted for a message that is known (`RowsOK`,
`KnownOK`), a session that is being created is given all rows of its message
(`IntakeOK`), a replay has every row not yet counted in its list (`TodoOK`), and what
is in the history is counted unless it is in hand (`CountedOK`). `ToldOK` makes
the last reaction of a member decide his response. That the history is cut only for
messages without an active session needs `TTL <= Retention` where a session begins.

*Tracker, ambiguity.* Whether a reaction that names no author is unique is decided when
it comes in; it may be applied only after a final report that was due has been sent.
`RoutedOK` says that the decision still holds, because within a job sessions of
this process can only become fewer. That there are finitely many
sessions and known messages is part of the invariant: the code counts them.

*Tracker, reports shown.* `ReportOK`: a pending session whose final report has been
claimed is the one whose attempt is under way. `CompletionOK` carries the decision of
`_complete_alarm` to the RPC. Both are lost in a crash, which is the finding.
For what Signal shows, `TextOK` says that the text on its way is still what
the session says, since no reaction is applied during an attempt; `OutcomeOK` that a
confirmed attempt has put it on display; `EditsOK` that no edit exists of a revision
still to come, so the edit of the present one was not spent earlier; `ShownOK` that the
text on record is the one shown and a session without scheduled edit is up to date or
was tried in vain.

*Tracker, deadlines.* The ticker may be late, so reactions sent after a deadline can be
there before the report is. `FreshOK`: none is from the future. `FinalOK`: before
the snapshot all counted responses are in time, and a job about to apply a late reaction
has sent the final report first or is about to. `IntermediateOK` says the same of the
intermediate report until the final deadline, and `ClaimOK` carries it to the
RPC. `ReplayOK` is what makes `/check` harmless here: by `HInv` a session of this
process already counts every row it replays, but for those older than itself.

*Reactions.* `NewestWins` follows from `apply_reaction`. `CaughtUp` needs that
the session was given exactly what the history holds: `HistoryCoversSession` is
one half, `CatchesUp` (all but what is in hand or still to replay) the other. The
order of a replay among equal timestamps, `InOrder`, gives `TiesByArrival`.

*Commands.* `GatewayOK` describes the queue of the outgoing lock with two tasks in
it, `OpsOK` the operation of the reply at each step of the handler, `ExecOK` counts
the executions of each command against those that were cut off and the one its operation
stands for, `ListOK` says that until it is replaced the list is
the one the command met, unless an import overtook it.

*Process.* The invariant is the typing of both queues with `LocksFollowTasks` and
`QuietOnceClosed`. The two support each other: that a lock's queue holds exactly the
tasks that work under it or wait for it, each once, is what lets a cancelled task
leave it by `RemoveFirst` without letting another one past its turn, and that the
ticker is gone before `Close` is what makes the empty queues final. Lemmas say
what joining and leaving a queue does to its order.

*Startup.* `VerdictInTime` bounds the whole of a wait, but a wait is a chain of
attempts and sleeps: `OnTime` bounds `elapsed` at each step of the loop by what the
step before allowed, down to the sleep that is cut at the deadline. That no
attempt begins after the deadline and none lasts longer than its
timeout makes systemd's own timeout unreachable for any order of slow, quick and
refused answers.

*Migration.* `Phase` says what a start has done by the time it is at a place:
foreign keys are off during the rebuild, the old table goes only once its columns
are known to be incomplete, the schema is complete before rows are
migrated. Until a first start is completed, `Upgrading` ties the database to the one
that was found: nothing but the rebuild has touched it, each row is the one it was
with the missing columns filled in (`RowFollows`), and its snapshot is the old one or
the one the migration took, once (`SnapshotKept`, `SnapshotTaken`). `Upgraded` is
what holds from then on. Because these depend on the database that was found and
not on the cuts, an interrupted upgrade ends as an uninterrupted one does, and
the start of an upgraded database changes nothing.

*Event stream.* What the client has kept, followed by what the connection holds, is
one word (`Word`), and the invariant is about that word alone: its data lines are
in order and each once (`Ordered`), two events have a blank line between them
(`Separated`), a blank line has all lines of its event before it (`Whole`), an event
begins with its first line (`FromTheFirst`), and nothing follows its end
(`EndIsLast`). Reading moves the boundary and leaves the word; `Sent`, `Sending`
and `Seen` tie it to the daemon's position and the log. Thus a blank line finds in
`pending` one whole event and nothing else, whatever was skipped, and what a
break leaves behind is at most one unfinished event, which `EventChannel` loses.
Each step is then mapped to one of the channel's or to a stutter.

Every invariant was first checked with TLC on the instances of the runs.

Only model-checked:
- liveness (`FinalIsEvaluated`, `EditsSettle`, `CommandsSettle`, `StartCompletes`,
  `StreamGoesOn`, `TasksProgress`, `ComesUp`), which is out of the prover's reach.

## Not modelled

- *Event parser, roster, configuration parsing, parsing of the released list*:
  functions of their input without state, on which the models build; of the
  configuration, the order of delays it enforces is `TimingAssumption`.
- *Health check, `released show` and `validate`, the counts of `/status`, the
  dump tool*: they only read.
- *Wording of texts*: a report is what can make two reports differ.
- *Recognition of a rate limit in an error, JSON-RPC framing*: pure functions;
  the models take each outcome they can have.
- *Install, update and backup scripts*: sequential shell around `systemctl` and
  file copies, with nobody concurrent to them but the services.
- *A reaction that arrives before its message* is dropped (`tracker.py:286`), and
  `ReactionIgnored` models that; the repository promises no recovery, so there is no
  property to check.
- *`--dry-run`*, which replaces the publisher and the list by ones in memory.
