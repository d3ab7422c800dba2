---------------------------- MODULE AlertTracker ----------------------------
(***************************************************************************)
(* The serialized, persistent state machine of ShelterCheck: tracker.py    *)
(* over database.py, with the outgoing attempts of outgoing.py and the     *)
(* breaker of signal_client.py as far as the tracker sees it.              *)
(*                                                                         *)
(* Two tasks of one event loop call the tracker: the main task with Signal *)
(* messages, reactions and /check commands, and the ticker.  Every entry   *)
(* point holds AlertTracker._lock until it returns, across its awaits, so  *)
(* there is at most one call, the JOB, at a time.  A step of the job is    *)
(* one committed SQLite transaction (or one Signal RPC); between two steps *)
(* the clock may advance, a command reply may trip the breaker, a pass of  *)
(* the ticker may fail, which loses the job, and the process may crash,    *)
(* which loses the job and the breaker; neither loses a row.               *)
(***************************************************************************)
EXTENDS StateDatabase

CONSTANTS
    Reaction,             \* accepted reactions that may be delivered
    Trigger,              \* messages with a trigger text of an allowed author
    TextClass,            \* normalized text of each message
    ReleasedFile,         \* what reading the released list may return
    Unreadable,           \* the value of a list that cannot be read
    IntermediateEnabled,  \* intermediate_check_enabled
    AutoHostReaction,     \* auto_host_reaction
    Skew,                 \* how far a sender's clock may be ahead of ours
    MaxTime,              \* bound on the clock
    MaxFailures           \* bound on the crashes and failed passes

(* load_config refuses any other order of the delays. *)
ASSUME TimingAssumption ==
    /\ 0 < FinalAfter /\ FinalAfter < TTL
    /\ IntermediateEnabled => 0 < IntermediateAfter /\ IntermediateAfter < FinalAfter

ASSUME InputAssumption ==
    /\ \A e \in Reaction :
          /\ e.target \in Message /\ e.named \in BOOLEAN
          /\ e.reactor \in Member /\ e.removed \in BOOLEAN /\ e.ts \in Nat
    /\ \A d, e \in Reaction : d.reactor = e.reactor /\ d.ts = e.ts
                              => d.removed = e.removed
    /\ Trigger \subseteq Message
    /\ \A file \in ReleasedFile : file = Unreadable \/ file \subseteq Member
    /\ \A S \in SUBSET Member : S # Unreadable
    /\ {IntermediateEnabled, AutoHostReaction} \subseteq BOOLEAN
    /\ {Skew, MaxTime, MaxFailures} \subseteq Nat

VARIABLES
    now,       \* the wall clock
    started,   \* service_started_at_ms of the running process
    alarm,     \* alarms and their member tables, by message
    op,        \* outgoing_operations, by key
    observed,  \* observed_messages
    seen,      \* observed_reactions
    breaker,   \* SignalClient._outgoing_disabled
    pc,        \* where the job that holds the tracker lock is
    key,       \* the operation it is attempting, if any
    job,       \* its local variables
    wire,      \* ghost: RPCs issued for each key, over all processes
    shown,     \* ghost: text of the report message as last acknowledged
    failures   \* ghost: crashes and failed passes so far

durable == <<alarm, op, observed, seen>>
ghosts == <<wire, shown>>
rest == <<now, started, observed, seen, breaker, ghosts, failures>>
vars == <<now, started, durable, breaker, pc, key, job, ghosts, failures>>

JobKind == {"tick", "message", "reaction", "check"}
AttemptPc == {"claim", "issue", "rpc", "post"}
Resting == {"free", "select", "apply", "settle"}  \* where an attempt returns
Pc == Resting \cup AttemptPc \cup
      {"snapshot", "due", "intake", "host", "late", "after",
       "adopt", "replay", "evaluate"}

NoKey == <<0, "none", 0>>

Idle == [by |-> "tick", now |-> 0, m |-> 0, todo |-> {}, changed |-> FALSE,
         back |-> "free", text |-> NoText, result |-> "absent"]

Init ==
    /\ now = 0
    /\ started = 0
    /\ alarm = [m \in Message |-> NoAlarm]
    /\ op = [k \in Key |-> "absent"]
    /\ observed = {}
    /\ seen = {}
    /\ breaker = FALSE
    /\ pc = "free" /\ key = NoKey /\ job = Idle
    /\ wire = [k \in Key |-> 0]
    /\ shown = [m \in Message |-> NoText]
    /\ failures = 0

-----------------------------------------------------------------------------
(* Control of the job.                                                     *)

Release == pc' = "free" /\ key' = NoKey /\ job' = Idle

Begin(by, at, m, todo) ==
    /\ pc' = at
    /\ key' = NoKey
    /\ job' = [Idle EXCEPT !.by = by, !.now = now, !.m = m, !.todo = todo]

Goto(at) == pc' = at /\ UNCHANGED <<key, job>>

(* An evaluation is over: the job continues where it was called from. *)
Return(back) ==
    IF back = "free" THEN Release
    ELSE /\ pc' = back
         /\ key' = NoKey
         /\ job' = [job EXCEPT !.back = "free", !.text = NoText,
                               !.result = "absent",
                               !.m = IF back = "select" THEN 0 ELSE @]

Attempt(k, text, back) ==
    /\ pc' = "claim"
    /\ key' = k
    /\ job' = [job EXCEPT !.m = k[1], !.text = text, !.back = back]

-----------------------------------------------------------------------------
(* attempt_outgoing_once: claim durably, issue the RPC, record how it      *)
(* ended, then the transition of the alarm the outcome belongs to.         *)

Claim ==
    /\ pc = "claim"
    /\ IF Claimable(op, key)
       THEN /\ op' = ClaimOutgoing(op, key)
            /\ pc' = "issue"
            /\ UNCHANGED job
       ELSE /\ job' = [job EXCEPT !.result = op[key]]
            /\ pc' = "post"
            /\ UNCHANGED op
    /\ UNCHANGED <<now, started, alarm, observed, seen, breaker, key, ghosts, failures>>

(* The breaker is read when the writer gets SignalClient._outgoing_lock. *)
Issue ==
    /\ pc = "issue"
    /\ ~breaker
    /\ wire' = [wire EXCEPT ![key] = @ + 1]
    /\ pc' = "rpc"
    /\ UNCHANGED <<now, started, durable, breaker, key, job, shown, failures>>

Finish(result) ==
    /\ op' = FinishOutgoing(op, key, result)
    /\ job' = [job EXCEPT !.result = result]
    /\ pc' = "post"
    /\ UNCHANGED <<now, started, alarm, observed, seen, key, wire, failures>>

Blocked == pc = "issue" /\ breaker /\ Finish("skipped") /\ UNCHANGED <<breaker, shown>>

Succeed ==
    /\ pc = "rpc"
    /\ Finish("attempted_success")
    /\ shown' = IF key[2] \in {"final", "report_edit"}
                THEN [shown EXCEPT ![key[1]] = job.text] ELSE shown
    /\ UNCHANGED breaker

(* signal-cli answers with an error or with failed recipients. *)
Fail == pc = "rpc" /\ Finish("attempted_failed") /\ UNCHANGED <<breaker, shown>>

RateLimited ==
    /\ pc = "rpc"
    /\ Finish("attempted_failed")
    /\ breaker' = TRUE
    /\ UNCHANGED shown

(* Timeout, connection reset or an answer that cannot be understood. *)
LoseAnswer == pc = "rpc" /\ Finish("attempted_uncertain") /\ UNCHANGED <<breaker, shown>>

(* Mutant: an edit that was not acknowledged stays due. *)
AfterAttempt_EditStaysDue(a, kind, result, text) ==
    CASE kind = "final" -> MarkReported(a, result, text)
      [] kind = "report_edit" -> IF result = "attempted_success"
                                 THEN RecordSuccessfulEdit(a, text) ELSE a
      [] kind \in {"completion", "completion_edit"} -> MarkCompleted(a)
      [] OTHER -> a

(* What the caller of attempt_outgoing_once does with the result. *)
AfterAttempt(a, kind, result, text) ==
    CASE kind = "final" -> MarkReported(a, result, text)
      [] kind = "report_edit" -> IF result = "attempted_success"
                                 THEN RecordSuccessfulEdit(a, text)
                                 ELSE ClearEditDue(a)
      [] kind \in {"completion", "completion_edit"} -> MarkCompleted(a)
      [] OTHER -> a

Post ==
    /\ pc = "post"
    /\ alarm' = [alarm EXCEPT ![job.m] =
                    AfterAttempt(@, key[2], job.result, job.text)]
    /\ op' = IF key[2] \in {"completion", "completion_edit"}
             THEN SkipOperations(op, {<<job.m, "intermediate", 0>>,
                                      <<job.m, "final", 0>>})
             ELSE op
    /\ Return(job.back)
    /\ UNCHANGED rest

AttemptStep == \/ Claim \/ Issue \/ Blocked
               \/ Succeed \/ Fail \/ RateLimited \/ LoseAnswer \/ Post

-----------------------------------------------------------------------------
(* The evaluations of one alarm.  Each is reached only for an alarm that   *)
(* its caller has just found active and not expired at job.now, in the     *)
(* same uninterrupted stretch of the job, so the early returns that repeat *)
(* those tests are not modelled again.                                     *)

(* Mutant: a completion is sent even if the final report may exist. *)
Complete_SendsAnyway(m, back) ==
    LET a == alarm[m]
        edited == a.status = "reported" /\ a.hasReport
        k == <<m, IF edited THEN "completion_edit" ELSE "completion", 0>>
    IN /\ op' = PrepareOutgoing(op, k, "due_not_attempted")
       /\ Attempt(k, NoText, back)
       /\ UNCHANGED alarm

Complete(m, back) ==
    LET a == alarm[m]
        edited == a.status = "reported" /\ a.hasReport
        local == /\ a.status = "reported"
                 /\ op[<<m, "final", 0>>] = "attempted_uncertain"
        k == <<m, IF edited THEN "completion_edit" ELSE "completion", 0>>
    IN /\ UNCHANGED alarm
       /\ IF ~edited /\ local
          THEN /\ op' = PrepareOutgoing(op, k, "skipped")
               /\ pc' = "post"
               /\ key' = k
               /\ job' = [job EXCEPT !.m = m, !.back = back, !.result = "skipped"]
          ELSE /\ op' = PrepareOutgoing(op, k, "due_not_attempted")
               /\ Attempt(k, NoText, back)

(* Mutant: the final deadline is not tested. *)
ProcessIntermediate_AfterFinal(m, back) ==
    LET k == <<m, "intermediate", 0>>
    IN IF ~IntermediateEnabled
       THEN Return(back) /\ UNCHANGED <<alarm, op>>
       ELSE IF Missing(alarm[m]) = {}
       THEN Complete(m, back)
       ELSE /\ op' = MarkOutgoingDue(op, k)
            /\ Attempt(k, NoText, back)
            /\ UNCHANGED alarm

ProcessIntermediate(m, back) ==
    LET a == alarm[m]
        k == <<m, "intermediate", 0>>
    IN IF ~IntermediateEnabled
       THEN Return(back) /\ UNCHANGED <<alarm, op>>
       ELSE IF job.now >= FinalAt(a)
       THEN op' = SkipOperations(op, {k}) /\ Return(back) /\ UNCHANGED alarm
       ELSE IF Missing(a) = {}
       THEN Complete(m, back)
       ELSE /\ op' = MarkOutgoingDue(op, k)
            /\ Attempt(k, NoText, back)
            /\ UNCHANGED alarm

(* The first of the three transactions of _process_final. *)
ProcessFinal(m, back) ==
    /\ op' = SkipOperations(op, {<<m, "intermediate", 0>>})
    /\ pc' = "snapshot"
    /\ job' = [job EXCEPT !.m = m, !.back = back]
    /\ UNCHANGED <<alarm, key>>

SnapshotFinal ==
    /\ pc = "snapshot"
    /\ IF Missing(alarm[job.m]) = {}
       THEN Complete(job.m, job.back)
       ELSE /\ alarm' = [alarm EXCEPT ![job.m] = SnapshotFinalMissing(@)]
            /\ Goto("due")
            /\ UNCHANGED op
    /\ UNCHANGED rest

MarkFinalDue ==
    LET k == <<job.m, "final", 0>>
    IN /\ pc = "due"
       /\ op' = MarkOutgoingDue(op, k)
       /\ Attempt(k, ReportText(alarm[job.m]), job.back)
       /\ UNCHANGED <<alarm, rest>>

ProcessEdit(m, back) ==
    LET a == alarm[m]
        k == <<m, "report_edit", a.rev>>
    IN IF ReportText(a) = a.lastText
       THEN /\ alarm' = [alarm EXCEPT ![m] = ClearEditDue(@)]
            /\ Return(back)
            /\ UNCHANGED op
       ELSE /\ op' = PrepareOutgoing(op, k, "due_not_attempted")
            /\ Attempt(k, ReportText(a), back)
            /\ UNCHANGED alarm

(* Mutant: expiry leaves the scheduled reports as they are. *)
ExpireDue_ReportsKept(from) ==
    alarm' = ExpireAlarms(alarm, now, from) /\ UNCHANGED op

ExpireDue(from) ==
    /\ alarm' = ExpireAlarms(alarm, now, from)
    /\ op' = SkipOperations(op,
                {k \in Key : k[1] \in DueToExpire(alarm, now, from)})

-----------------------------------------------------------------------------
(* process_due.  Each of its four loops runs over the rows its query       *)
(* returned; as one evaluation takes its alarm out of the query and no     *)
(* evaluation puts an alarm into an earlier one, taking the first row of   *)
(* the first query that returns any is the same.                           *)

(* Mutant: a pass does not expire before it evaluates. *)
TickBegin_NoExpiry ==
    /\ pc = "free"
    /\ Begin("tick", "select", 0, {})
    /\ UNCHANGED <<alarm, op, rest>>

TickBegin ==
    /\ pc = "free"
    /\ ExpireDue(started)
    /\ Begin("tick", "select", 0, {})
    /\ UNCHANGED rest

ToComplete == DueToComplete(alarm, started)
ToIntermediate == IF IntermediateEnabled
                  THEN DueIntermediate(alarm, op, job.now, started) ELSE {}
(* Mutants: the startup boundary is ignored; the final report waits for an *)
(* intermediate one.                                                       *)
ToFinal_AnyProcess == DueFinal(alarm, op, job.now, 0)
ToFinal_AfterIntermediate ==
    {m \in DueFinal(alarm, op, job.now, started) :
        op[<<m, "intermediate", 0>>] \in Attempted}

ToFinal == DueFinal(alarm, op, job.now, started)
ToEdit == DueEdits(alarm, job.now, started)

TickComplete ==
    /\ pc = "select"
    /\ \E m \in ToComplete : Complete(m, "select")
    /\ UNCHANGED rest

TickIntermediate ==
    /\ pc = "select"
    /\ ToComplete = {}
    /\ \E m \in ToIntermediate : ProcessIntermediate(m, "select")
    /\ UNCHANGED rest

TickFinal ==
    /\ pc = "select"
    /\ ToComplete = {} /\ ToIntermediate = {}
    /\ \E m \in ToFinal : ProcessFinal(m, "select")
    /\ UNCHANGED rest

TickEdit ==
    /\ pc = "select"
    /\ ToComplete = {} /\ ToIntermediate = {} /\ ToFinal = {}
    /\ \E m \in ToEdit : ProcessEdit(m, "select")
    /\ UNCHANGED rest

Cleanup(alarms) ==
    LET kept == RetainedMessages(observed, alarms, job.now)
    IN observed' = kept /\ seen' = RetainedReactions(seen, kept)

TickEnd ==
    /\ pc = "select"
    /\ ToComplete = {} /\ ToIntermediate = {} /\ ToFinal = {} /\ ToEdit = {}
    /\ Cleanup(alarm)
    /\ Release
    /\ UNCHANGED <<now, started, alarm, op, breaker, ghosts, failures>>

TickRun == TickComplete \/ TickIntermediate \/ TickFinal \/ TickEdit \/ TickEnd

-----------------------------------------------------------------------------
(* A message of the monitor group: fresh, from a backlog, or redelivered.  *)

MessageBegin(m) ==
    /\ pc = "free"
    /\ SentAt[m] <= now + Skew
    /\ observed' = observed \cup {m}
    /\ Begin("message", "intake", m, {})
    /\ UNCHANGED <<now, started, alarm, op, seen, breaker, ghosts, failures>>

(* _create_alarm reads the clock again after the released list. *)
Create(m, source, trk, file) ==
    LET status == IF file = Unreadable THEN "error"
                  ELSE IF now >= trk + TTL THEN "expired" ELSE "pending"
        released == IF file = Unreadable THEN {} ELSE file
    IN /\ alarm' = [alarm EXCEPT ![m] = InsertedAlarm(status, source, trk, released)]
       /\ op' = InsertOperations(op, m, status)

Starts(m) == m \in Trigger /\ SentAt[m] >= started /\ alarm[m].status = "none"

IntakeIgnored ==
    /\ pc = "intake"
    /\ ~Starts(job.m)
    /\ Cleanup(alarm)
    /\ Release
    /\ UNCHANGED <<now, started, alarm, op, breaker, ghosts, failures>>

IntakeTrigger ==
    /\ pc = "intake"
    /\ Starts(job.m)
    /\ Cleanup(alarm)
    /\ \E file \in ReleasedFile :
          Create(job.m, "standard", SentAt[job.m], file)
    /\ IF alarm'[job.m].status = "expired" THEN Release
       ELSE Goto(IF AutoHostReaction THEN "host" ELSE "settle")
    /\ UNCHANGED <<now, started, breaker, ghosts, failures>>

(* An alarm in error gets the host reaction too. *)
HostReaction ==
    LET k == <<job.m, "host_reaction", 0>>
    IN /\ pc = "host"
       /\ op' = PrepareOutgoing(op, k, "due_not_attempted")
       /\ Attempt(k, NoText, "settle")
       /\ UNCHANGED <<alarm, rest>>

(* Mutant: a check with nobody on the list is left open. *)
Settle_NoCompletion == pc = "settle" /\ Release /\ UNCHANGED <<alarm, op, rest>>

Settle ==
    /\ pc = "settle"
    /\ IF IsActive(alarm[job.m]) /\ Missing(alarm[job.m]) = {}
       THEN Complete(job.m, "free")
       ELSE Release /\ UNCHANGED <<alarm, op>>
    /\ UNCHANGED rest

MessageRun == IntakeIgnored \/ IntakeTrigger \/ HostReaction \/ Settle

-----------------------------------------------------------------------------
(* An accepted reaction to a message of the monitor group.                 *)

Row(m, e) == [msg |-> m, reactor |-> e.reactor, removed |-> e.removed, ts |-> e.ts]

Observe(e) ==
    LET resolved == Targeted(e, observed)
    IN seen' = IF Cardinality(resolved) = 1
               THEN seen \cup {Row(m, e) : m \in resolved} ELSE seen

ReactionIgnored(e) ==
    /\ pc = "free"
    /\ e.ts <= now + Skew
    /\ Cardinality(ReactionTargets(alarm, e, started)) # 1
    /\ Observe(e)
    /\ UNCHANGED <<now, started, alarm, op, observed, breaker, pc, key, job, ghosts, failures>>

(* Mutant: an ambiguous reaction is applied to some target. *)
ReactionBegin_AnyTarget(e) ==
    /\ pc = "free"
    /\ e.ts <= now + Skew
    /\ Observe(e)
    /\ ExpireDue(started)
    /\ \E m \in ReactionTargets(alarm, e, started) :
          Begin("reaction", "late", m, {Row(m, e)})
    /\ UNCHANGED <<now, started, observed, breaker, ghosts, failures>>

ReactionBegin(e) ==
    /\ pc = "free"
    /\ e.ts <= now + Skew
    /\ Cardinality(ReactionTargets(alarm, e, started)) = 1
    /\ Observe(e)
    /\ ExpireDue(started)
    /\ \E m \in ReactionTargets(alarm, e, started) :
          Begin("reaction", "late", m, {Row(m, e)})
    /\ UNCHANGED <<now, started, observed, breaker, ghosts, failures>>

(* Mutant: a reaction is applied before the report of a passed deadline. *)
ReactionLate_NeverFirst ==
    /\ pc = "late"
    /\ IF IsActive(alarm[job.m]) THEN Goto("apply") ELSE Release
    /\ UNCHANGED <<alarm, op, rest>>

(* A report whose deadline lies between the sending of the reaction and    *)
(* now is evaluated first.                                                 *)
ReactionLate ==
    LET m == job.m
        a == alarm[m]
    IN /\ pc = "late"
       /\ \E e \in job.todo :
             IF ~IsActive(a)
             THEN Release /\ UNCHANGED <<alarm, op>>
             ELSE IF a.status = "pending" /\ job.now >= FinalAt(a) /\ e.ts > FinalAt(a)
             THEN ProcessFinal(m, "apply")
             ELSE IF /\ a.status = "pending"
                     /\ job.now >= IntermediateAt(a) /\ job.now < FinalAt(a)
                     /\ e.ts > IntermediateAt(a)
             THEN ProcessIntermediate(m, "apply")
             ELSE Goto("apply") /\ UNCHANGED <<alarm, op>>
       /\ UNCHANGED rest

ReactionApply ==
    /\ pc = "apply"
    /\ \E e \in job.todo :
          /\ ChangesResponse(alarm[job.m], e) => alarm[job.m].rev < MaxRev
          /\ alarm' = [alarm EXCEPT ![job.m] = ApplyReaction(@, e, job.now)]
          /\ job' = [job EXCEPT !.changed = ChangesResponse(alarm[job.m], e)]
    /\ pc' = "after"
    /\ UNCHANGED <<now, started, op, observed, seen, breaker, key, ghosts, failures>>

ReactionAfter ==
    LET m == job.m
        a == alarm[m]
    IN /\ pc = "after"
       /\ \E e \in job.todo :
             IF ~IsActive(a)
             THEN Release /\ UNCHANGED <<alarm, op>>
             ELSE IF job.changed /\ ~e.removed /\ Missing(a) = {}
             THEN Complete(m, "free")
             ELSE IF a.status = "pending" /\ job.now >= FinalAt(a)
             THEN ProcessFinal(m, "free")
             ELSE IF a.status = "pending" /\ job.now >= IntermediateAt(a)
             THEN ProcessIntermediate(m, "free")
             ELSE Release /\ UNCHANGED <<alarm, op>>
       /\ UNCHANGED rest

ReactionRun == ReactionLate \/ ReactionApply \/ ReactionAfter

-----------------------------------------------------------------------------
(* /check and /check <text>.                                               *)

LatestStandard == {m \in StandardAlarms(alarm) :
                      \A n \in StandardAlarms(alarm) : SentAt[n] <= SentAt[m]}

(* Expiry and cleanup precede the lookup and also reach the alarms of      *)
(* earlier processes.                                                      *)
Kept == RetainedMessages(observed, ExpireAlarms(alarm, now, 0), now)

CheckPc(m, replays) ==
    IF ~replays THEN "evaluate"
    ELSE IF alarm[m].status = "none" THEN "adopt"
    ELSE IF IsActive(alarm[m]) /\ now < ExpiresAt(alarm[m]) THEN "replay"
    ELSE "evaluate"

CheckBegin(found, replays) ==
    /\ pc = "free"
    /\ ExpireDue(0)
    /\ observed' = Kept
    /\ seen' = RetainedReactions(seen, Kept)
    /\ IF found = {} THEN Release
       ELSE \E m \in found :
               Begin("check", CheckPc(m, replays), m,
                     {s \in seen : s.msg = m /\ CheckPc(m, replays) # "evaluate"})
    /\ UNCHANGED <<now, started, breaker, ghosts, failures>>

(* The newest observed trigger wins over the newest standard alarm unless  *)
(* it is older; only then is the history of its reactions replayed.        *)
CheckLatest ==
    LET preferred == {m \in LatestObserved(Kept \cap Trigger) :
                         \A n \in StandardAlarms(alarm) : SentAt[m] >= SentAt[n]}
    IN IF preferred # {} THEN CheckBegin(preferred, TRUE)
       ELSE CheckBegin(LatestStandard, FALSE)

CheckText(class) ==
    CheckBegin(LatestObserved({m \in Kept : TextClass[m] = class}), TRUE)

(* Mutant: a session taken up by /check starts without the history. *)
CheckAdopt_NoReplay ==
    /\ pc = "adopt"
    /\ \E file \in ReleasedFile : Create(job.m, "custom", job.now, file)
    /\ Goto("evaluate")
    /\ UNCHANGED rest

CheckAdopt ==
    /\ pc = "adopt"
    /\ \E file \in ReleasedFile : Create(job.m, "custom", job.now, file)
    /\ Goto(IF alarm'[job.m].status = "pending" THEN "replay" ELSE "evaluate")
    /\ UNCHANGED rest

CheckReplay ==
    /\ pc = "replay"
    /\ \E e \in job.todo :
          /\ \A d \in job.todo : e.ts <= d.ts
          /\ ChangesResponse(alarm[job.m], e) => alarm[job.m].rev < MaxRev
          /\ alarm' = [alarm EXCEPT ![job.m] = ApplyReaction(@, e, job.now)]
          /\ job' = [job EXCEPT !.todo = @ \ {e}]
    /\ UNCHANGED <<now, started, op, observed, seen, breaker, pc, key, ghosts, failures>>

CheckReplayed ==
    /\ pc = "replay"
    /\ job.todo = {}
    /\ Goto("evaluate")
    /\ UNCHANGED <<alarm, op, rest>>

CheckEvaluate ==
    LET m == job.m
        a == alarm[m]
        k == <<m, "manual_report", 0>>
    IN /\ pc = "evaluate"
       /\ IF ~IsActive(a) THEN Release /\ UNCHANGED <<alarm, op>>
          ELSE IF Missing(a) = {} THEN Complete(m, "free")
          ELSE IF a.status = "pending" /\ job.now >= FinalAt(a)
          THEN ProcessFinal(m, "free")
          ELSE /\ op' = PrepareOutgoing(op, k, "due_not_attempted")
               /\ Attempt(k, NoText, "free")
               /\ UNCHANGED alarm
       /\ UNCHANGED rest

CheckRun == CheckAdopt \/ CheckReplay \/ CheckReplayed \/ CheckEvaluate

-----------------------------------------------------------------------------
(* The environment.                                                        *)

ClockTick ==
    /\ now < MaxTime
    /\ now' = now + 1
    /\ UNCHANGED <<started, durable, breaker, pc, key, job, ghosts, failures>>

(* The reply to a command, or the health check of /status, meets the rate  *)
(* limit.  The health check takes no lock, so an RPC of the ticker may be  *)
(* under way; no command is answered while the main task has a job here.   *)
CommandTripsBreaker ==
    /\ job.by = "tick"
    /\ ~breaker
    /\ breaker' = TRUE
    /\ UNCHANGED <<now, started, durable, pc, key, job, ghosts, failures>>

(* A statement of the ticker fails: its pass is over, the loop goes on.    *)
(* Within an attempt only the recording of the outcome can fail so, as the *)
(* attempt turns an exception of the write itself into an outcome.         *)
TickFails ==
    /\ job.by = "tick" /\ pc # "free"
    /\ pc = "issue" => breaker
    /\ failures < MaxFailures
    /\ failures' = failures + 1
    /\ Release
    /\ UNCHANGED <<now, started, durable, breaker, ghosts>>

(* What is durable when the process dies between the first commit of a     *)
(* handler and the next one, which the model makes in the same step: the   *)
(* reaction that is observed, the expiry of a /check, and the cleanup that *)
(* precedes a new session.  Under the tracker's lock only a crash can tell *)
(* such commits apart.                                                     *)
FirstCommit ==
    \/ /\ pc = "free"
       /\ \E e \in Reaction : e.ts <= now + Skew /\ Observe(e)
       /\ UNCHANGED <<alarm, op, observed>>
    \/ /\ pc = "free"
       /\ ExpireDue(0)
       /\ UNCHANGED <<observed, seen>>
    \/ /\ pc = "intake"
       /\ Cleanup(alarm)
       /\ UNCHANGED <<alarm, op>>

(* The process dies and systemd starts another, at a later millisecond.    *)
Crash ==
    /\ failures < MaxFailures
    /\ now < MaxTime
    /\ failures' = failures + 1
    /\ now' = now + 1
    /\ started' = now + 1
    /\ breaker' = FALSE
    /\ Release
    /\ UNCHANGED durable \/ FirstCommit
    /\ UNCHANGED ghosts

Call == \/ TickBegin
        \/ \E m \in Message : MessageBegin(m)
        \/ \E e \in Reaction : ReactionBegin(e) \/ ReactionIgnored(e)
        \/ CheckLatest
        \/ \E class \in {TextClass[m] : m \in Message} : CheckText(class)

JobStep == \/ SnapshotFinal \/ MarkFinalDue \/ AttemptStep
           \/ TickRun \/ MessageRun \/ ReactionRun \/ CheckRun

Next == Call \/ JobStep \/ ClockTick \/ CommandTripsBreaker \/ TickFails \/ Crash

Spec == Init /\ [][Next]_vars

-----------------------------------------------------------------------------
(* Properties.                                                             *)

TypeOK ==
    /\ {now, started, failures} \subseteq Nat
    /\ alarm \in [Message -> Alarm]
    /\ op \in [Key -> OpState]
    /\ observed \subseteq Message
    /\ seen \subseteq Seen
    /\ breaker \in BOOLEAN
    /\ pc \in Pc
    /\ key \in Key \cup {NoKey}
    /\ job \in [by: JobKind, now: Nat, m: Message \cup {0}, todo: SUBSET Seen,
                changed: BOOLEAN, back: Resting, text: Text, result: OpState]
    /\ wire \in [Key -> Nat]
    /\ shown \in [Message -> Text]

OwnActive(m) == IsActive(alarm[m]) /\ alarm[m].trk >= started

Sending == wire' # wire      \* the step issues the RPC of key

(* Every logical operation is attempted with at most one RPC, whatever is  *)
(* redelivered, forced by /check or interrupted by a crash.                *)
AtMostOnce == \A k \in Key : wire[k] <= 1

(* A completed, expired or failed session is never reopened, and nothing   *)
(* in its row changes: a late reaction, a recovered attempt or a forced    *)
(* check leaves it as it ended.                                            *)
TerminalIsFinal ==
    [][\A m \in Message : alarm[m].status \in TerminalStatus
                          => alarm'[m] = alarm[m]]_vars

(* An RPC is issued only for a session that is active and was not expired  *)
(* when the work began; the one exception is the host reaction to a check  *)
(* whose released list could not be read.                                  *)
SendsOnlyWhileActive ==
    [][Sending => LET a == alarm[key[1]]
                  IN \/ IsActive(a) /\ job.now < ExpiresAt(a)
                     \/ a.status = "error" /\ key[2] = "host_reaction"]_vars

(* The intermediate report goes out between the two deadlines and before   *)
(* any final report, the final one after its deadline, once the            *)
(* intermediate one can no longer go out.                                  *)
ReportsInTheirWindow ==
    [][Sending =>
        LET m == key[1]
            a == alarm[m]
        IN /\ key[2] = "intermediate"
                 => /\ IntermediateAt(a) <= job.now /\ job.now < FinalAt(a)
                    /\ op[<<m, "final", 0>>] = "not_due"
           /\ key[2] = "final"
                 => /\ a.status = "pending" /\ job.now >= FinalAt(a)
                    /\ op[<<m, "intermediate", 0>>] \notin NotAttempted]_vars

(* A reaction sent after a deadline is not counted in the report of that   *)
(* deadline, however late the ticker, the reaction or both are handled.    *)
DeadlineSemantics ==
    [][/\ \A m \in Message : ~alarm[m].snapped /\ alarm'[m].snapped =>
             \A p \in Member : alarm[m].last[p] <= FinalAt(alarm[m])
       /\ Sending /\ key[2] = "intermediate" =>
             \A p \in Member : alarm[key[1]].last[p]
                                  <= IntermediateAt(alarm[key[1]])]_vars

(* The report message last acknowledged by Signal shows the present state  *)
(* of its session, unless an edit is scheduled or the one edit of this     *)
(* revision was attempted in vain.  It is a promise of undisturbed passes: *)
(* after one that fails between the answer and the storing of its text, a  *)
(* later evaluation puts a text on record that is not the one shown.       *)
ReportNeverSilentlyStale ==
    \A m \in Message :
        /\ pc = "free" /\ OwnActive(m)
        /\ alarm[m].hasReport /\ alarm[m].editDue = None
        => \/ shown[m] = ReportText(alarm[m])
           \/ op[<<m, "report_edit", alarm[m].rev>>]
                 \in {"attempted_failed", "attempted_uncertain", "skipped"}

(* No session of this process is left open once everybody has responded.   *)
CompletedPromptly ==
    pc = "free" => \A m \in Message : OwnActive(m) => Missing(alarm[m]) # {}

(* The independent completion message is not sent once the RPC of the      *)
(* final report went out, unless Signal refused that report.               *)
CompletionNeverDoublesReport ==
    [][Sending /\ key[2] = "completion"
        => \/ wire[<<key[1], "final", 0>>] = 0
           \/ op[<<key[1], "final", 0>>] = "attempted_failed"]_vars

(* A session is "reported" only after its final operation was settled, the *)
(* intermediate one can no longer be attempted, and the report can be      *)
(* edited exactly when its delivery was acknowledged.                      *)
ReportedIsSettled ==
    \A m \in Message : alarm[m].status = "reported" =>
        /\ op[<<m, "final", 0>>] \in Attempted \cup {"skipped"}
        /\ op[<<m, "intermediate", 0>>] \notin NotAttempted
        /\ alarm[m].hasReport <=> op[<<m, "final", 0>>] = "attempted_success"

(* No deadline report of a terminal session is waiting to be attempted.    *)
NoReportDueAfterTerminal ==
    \A m \in Message : alarm[m].status \in TerminalStatus =>
        \A kind \in {"intermediate", "final"} :
            op[<<m, kind, 0>>] \notin NotAttempted

(* A session of an earlier process is touched by /check alone.             *)
ByCheck == IF pc = "free" THEN pc' \notin {"select", "late", "intake"}
           ELSE job.by = "check"
PreStartFrozen ==
    [][\A m \in Message :
        /\ alarm[m].status # "none" /\ alarm[m].trk < started
        /\ alarm'[m] # alarm[m] \/ (Sending /\ key[1] = m)
        => ByCheck]_vars

(* For a session of this process, the recorded response of each released   *)
(* member is at least as new as every reaction in the candidate history,   *)
(* and is what the newest of them says.                                    *)
ResponsesFollowHistory ==
    pc = "free" =>
        \A s \in seen :
            LET a == alarm[s.msg]
            IN OwnActive(s.msg) /\ s.reactor \in a.released =>
                  /\ s.ts <= a.last[s.reactor]
                  /\ s.ts = a.last[s.reactor]
                       => (s.reactor \in a.responded <=> ~s.removed)

(* A reaction is applied to a session, or kept as a candidate for a later  *)
(* one, if it names the message, or if it names no author and no other     *)
(* session of this process, or no other known message, has its timestamp.  *)
ComesFrom(m, p, t, others) ==
    \E e \in Reaction :
        /\ e.reactor = p /\ e.ts = t /\ SentAt[e.target] = SentAt[m]
        /\ \/ e.named /\ e.target = m
           \/ ~e.named /\ \A n \in others \ {m} : SentAt[n] # SentAt[m]
AmbiguousReactionsAreDropped ==
    [][/\ pc = "apply" =>
            \A m \in Message, p \in Member :
                alarm'[m].last[p] > alarm[m].last[p]
                => ComesFrom(m, p, alarm'[m].last[p], {n \in Message : OwnActive(n)})
       /\ \A s \in seen' \ seen : ComesFrom(s.msg, s.reactor, s.ts, observed)]_vars

(* The outgoing operations implement the at-most-once ledger: an operation *)
(* is claimed before its RPC, sent at most once, never revised once its    *)
(* outcome is known, and left claimed for good by a lost answer or crash.  *)
Ledger == INSTANCE OutgoingLedger
            WITH entry <- [k \in Key |-> LedgerEntry(op[k])], sent <- wire
ImplementsLedger == Ledger!LedgerSpec

-----------------------------------------------------------------------------
(* Liveness.  An RPC ends by its request timeout and every other step of a *)
(* job is local, so a job that holds the lock goes on.  asyncio.Lock wakes *)
(* its waiters in order and the ticker asks for the lock again 0.25 s      *)
(* after it got it, so it is not kept out by calls of the main task that   *)
(* follow one another.                                                     *)
Fairness == WF_vars(JobStep) /\ SF_vars(TickBegin) /\ WF_vars(ClockTick)

FairSpec == Spec /\ Fairness

(* A pending session of this process whose final deadline lies within the  *)
(* horizon is evaluated or ends.  If a pass failed once the final report   *)
(* was due, only a reaction or /check takes the evaluation up again.       *)
FinalIsEvaluated ==
    \A m \in Message :
        alarm[m].status = "pending" /\ FinalAt(alarm[m]) <= MaxTime
            ~> \/ alarm[m].status # "pending" \/ alarm[m].trk < started
               \/ failures > 0 /\ op[<<m, "final", 0>>] # "not_due"

(* A scheduled edit of the report is attempted or given up, unless another *)
(* reaction postpones it past the horizon.                                 *)
EditsSettle ==
    \A m \in Message :
        alarm[m].editDue \in 0 .. MaxTime
            ~> alarm[m].editDue \notin 0 .. MaxTime \/ alarm[m].trk < started
=============================================================================
