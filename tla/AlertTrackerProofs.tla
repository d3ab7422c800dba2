------------------------ MODULE AlertTrackerProofs -------------------------
(***************************************************************************)
(* Proofs about AlertTracker for every value of its constants: what the    *)
(* transactions of StateDatabase preserve (the form of a row, the end of a *)
(* session, the order in which the state of an operation may change), and  *)
(* from it types, the refinement of the at-most-once ledger, and the       *)
(* finality of a session.                                                  *)
(***************************************************************************)
EXTENDS AlertTracker, FiniteSetTheorems, TLAPS

(* Only an active session has an edit scheduled. *)
RowOK(a) == a \in Alarm /\ (IsActive(a) \/ a.editDue = None)

(* b is what a transaction may make of the row a. *)
Follows(a, b) ==
    /\ RowOK(b)
    /\ a.status = "none" <=> b.status = "none"
    /\ a.status \in TerminalStatus => b = a

Open == {"absent"} \cup NotAttempted

(* A transaction that is not part of an attempt decides only operations    *)
(* that are still open.                                                    *)
Undecided(f, g) ==
    /\ g \in [Key -> OpState]
    /\ \A k \in Key : \/ g[k] = f[k]
                      \/ f[k] \in Open /\ g[k] \in Open \cup {"skipped"}

(* It inserts operations of the alarm m alone. *)
InsertsFor(f, g, m) ==
    \A k \in Key : f[k] = "absent" /\ g[k] # "absent" => k[1] = m

-----------------------------------------------------------------------------
(* Keys and texts.                                                         *)

(* Every one-shot kind of a message has a key (alarm_operation_key). *)
LEMMA OneShotKey ==
    ASSUME NEW m \in Message, NEW kind \in OneShotKind
    PROVE  <<m, kind, 0>> \in Key /\ <<m, kind, 0>>[1] = m /\ <<m, kind, 0>>[2] = kind
BY DEF Key

(* Every revision of a report has the key of its edit. *)
LEMMA EditKey ==
    ASSUME NEW m \in Message, NEW r \in 0 .. MaxRev
    PROVE  <<m, "report_edit", r>> \in Key /\ <<m, "report_edit", r>>[1] = m
BY DEF Key

(* A key names a message of the monitor group. *)
LEMMA KeyMessage ==
    ASSUME NEW k \in Key
    PROVE  k[1] \in Message
BY DEF Key

(* The text format_report makes of a row is a text. *)
LEMMA ReportTextType ==
    ASSUME NEW a \in Alarm
    PROVE  ReportText(a) \in Text
<1>1. a.released \subseteq Member /\ a.initial \subseteq Member
  BY DEF Alarm
<1>2. Missing(a) \subseteq Member
  BY <1>1 DEF Missing
<1>3. IsFiniteSet(Missing(a))
  BY <1>2, RowAssumption, FS_Subset DEF RowAssumption
<1>4. Cardinality(Missing(a)) \in Nat
  BY <1>3, FS_CardinalityType
<1>5. a.initial \cap a.responded \subseteq Member
  BY <1>1
<1>. QED
  BY <1>1, <1>4, <1>5 DEF ReportText, Text

-----------------------------------------------------------------------------
(* Alarm rows.                                                             *)

(* The empty row is one. *)
LEMMA NoAlarmOK == RowOK(NoAlarm)
BY RowAssumption DEF RowAssumption, RowOK, NoAlarm, Alarm, Status, Text, NoText, None

(* create_alarm inserts a row. *)
LEMMA InsertedAlarmOK ==
    ASSUME NEW status \in Status \ {"none"}, NEW source \in {"standard", "custom"},
           NEW trk \in Nat, NEW released \in SUBSET Member
    PROVE  RowOK(InsertedAlarm(status, source, trk, released))
           /\ InsertedAlarm(status, source, trk, released).status = status
<1>. DEFINE b == InsertedAlarm(status, source, trk, released)
<1>1. NoAlarm \in Alarm /\ NoAlarm.editDue = None
  BY NoAlarmOK DEF RowOK, NoAlarm
<1>2. b \in Alarm /\ b.status = status /\ b.editDue = None
  BY <1>1 DEF InsertedAlarm, Alarm
<1>. QED
  BY <1>2 DEF RowOK

(* apply_reaction leaves the row of an ended session as it is. *)
LEMMA ApplyReactionFollows ==
    ASSUME NEW a, RowOK(a), NEW e \in Seen, NEW t \in Nat,
           ChangesResponse(a, e) => a.rev < MaxRev
    PROVE  Follows(a, ApplyReaction(a, e, t))
<1>1. CASE ~Accepts(a, e)
  BY <1>1 DEF Follows, ApplyReaction
<1>2. CASE Accepts(a, e)
  <2>. DEFINE b == ApplyReaction(a, e, t)
  <2>1. a \in Alarm /\ a.status \in ActiveStatus
    BY <1>2 DEF Accepts, IsActive, RowOK
  <2>2. e.ts \in Nat /\ e.reactor \in Member
    BY DEF Seen
  <2>3. [a.last EXCEPT ![e.reactor] = e.ts] \in [Member -> Nat \cup {None}]
    BY <2>1, <2>2 DEF Alarm
  <2>4. a.rev \in 0 .. MaxRev /\ MaxRev \in Nat /\ Debounce \in Nat
    BY <2>1, RowAssumption DEF Alarm, RowAssumption
  <2>5. (IF ChangesResponse(a, e) THEN a.rev + 1 ELSE a.rev) \in 0 .. MaxRev
    BY <2>4
  <2>6. PICK responded \in SUBSET Member, rev \in 0 .. MaxRev,
             due \in Nat \cup {None} :
          b = [a EXCEPT !.last[e.reactor] = e.ts, !.responded = responded,
                        !.rev = rev, !.editDue = due]
    <3>. DEFINE responded == IF e.removed THEN a.responded \ {e.reactor}
                                          ELSE a.responded \cup {e.reactor}
                rev == IF ChangesResponse(a, e) THEN a.rev + 1 ELSE a.rev
                due == IF /\ ChangesResponse(a, e)
                          /\ a.status = "reported"
                          /\ a.hasReport
                       THEN t + Debounce ELSE a.editDue
    <3>0. rev \in 0 .. MaxRev
      BY <2>5
    <3>1. responded \in SUBSET Member /\ a.editDue \in Nat \cup {None}
      BY <2>1, <2>2 DEF Alarm
    <3>2. due \in Nat \cup {None}
      BY <2>4, <3>1
    <3>3. b = [a EXCEPT !.last[e.reactor] = e.ts, !.responded = responded,
                        !.rev = rev, !.editDue = due]
      BY <1>2 DEF ApplyReaction
    <3>. HIDE DEF b, responded, rev, due
    <3>. QED
      BY <3>0, <3>1, <3>2, <3>3
  <2>7. b \in Alarm /\ b.status = a.status
    <3>. DEFINE last == [a.last EXCEPT ![e.reactor] = e.ts]
    <3>1. b = [a EXCEPT !.last = last, !.responded = responded, !.rev = rev, !.editDue = due]
      BY <2>6
    <3>2. last \in [Member -> Nat \cup {None}]
      BY <2>3
    <3>. HIDE DEF b, last
    <3>. QED
      BY <2>1, <3>1, <3>2 DEF Alarm
  <2>. QED
    BY <2>1, <2>7 DEF Follows, RowOK, IsActive, ActiveStatus, TerminalStatus
<1>. QED
  BY <1>1, <1>2

(* snapshot_final_missing *)
LEMMA SnapshotFollows ==
    ASSUME NEW a, RowOK(a)
    PROVE  Follows(a, SnapshotFinalMissing(a))
BY DEF Follows, RowOK, SnapshotFinalMissing, Missing, Alarm, IsActive, TerminalStatus, ActiveStatus

(* mark_reported *)
LEMMA MarkReportedFollows ==
    ASSUME NEW a, RowOK(a), NEW result, NEW text \in Text
    PROVE  Follows(a, MarkReported(a, result, text))
BY DEF Follows, RowOK, MarkReported, Alarm, IsActive, TerminalStatus, ActiveStatus, Status

(* mark_completed *)
LEMMA MarkCompletedFollows ==
    ASSUME NEW a, RowOK(a)
    PROVE  Follows(a, MarkCompleted(a))
BY DEF Follows, RowOK, MarkCompleted, Alarm, IsActive, TerminalStatus, ActiveStatus, Status

(* clear_edit_due: no edit of an ended session is scheduled. *)
LEMMA ClearEditDueFollows ==
    ASSUME NEW a, RowOK(a)
    PROVE  Follows(a, ClearEditDue(a))
BY DEF Follows, RowOK, ClearEditDue, Alarm, IsActive, TerminalStatus, ActiveStatus

(* record_successful_edit *)
LEMMA RecordSuccessfulEditFollows ==
    ASSUME NEW a, RowOK(a), NEW text \in Text
    PROVE  Follows(a, RecordSuccessfulEdit(a, text))
BY DEF Follows, RowOK, RecordSuccessfulEdit, Alarm, IsActive, TerminalStatus, ActiveStatus

(* expire_due_alarms *)
LEMMA ExpireFollows ==
    ASSUME NEW alarms \in [Message -> Alarm], \A m \in Message : RowOK(alarms[m]),
           NEW t, NEW from
    PROVE  /\ ExpireAlarms(alarms, t, from) \in [Message -> Alarm]
           /\ \A m \in Message : Follows(alarms[m], ExpireAlarms(alarms, t, from)[m])
<1>1. ASSUME NEW m \in Message
      PROVE  Follows(alarms[m], ExpireAlarms(alarms, t, from)[m])
  <2>1. CASE m \in DueToExpire(alarms, t, from)
    <3>1. /\ ExpireAlarms(alarms, t, from)[m]
                = [alarms[m] EXCEPT !.status = "expired", !.editDue = None]
          /\ IsActive(alarms[m])
      BY <2>1 DEF ExpireAlarms, DueToExpire
    <3>. QED
      BY <3>1 DEF Follows, RowOK, Alarm, IsActive, TerminalStatus, ActiveStatus, Status
  <2>2. CASE m \notin DueToExpire(alarms, t, from)
    BY <2>2 DEF ExpireAlarms, Follows
  <2>. QED
    BY <2>1, <2>2
<1>. QED
  BY <1>1 DEF ExpireAlarms, Follows, RowOK

-----------------------------------------------------------------------------
(* The operations table.                                                   *)

(* skip_outgoing, also for all the keys of an expired alarm *)
LEMMA SkipUndecided ==
    ASSUME NEW f \in [Key -> OpState], NEW keys
    PROVE  Undecided(f, SkipOperations(f, keys))
           /\ \A k \in Key : f[k] = "absent" => SkipOperations(f, keys)[k] = "absent"
BY DEF Undecided, SkipOperations, OpState, NotAttempted, Open

(* mark_outgoing_due *)
LEMMA MarkDueUndecided ==
    ASSUME NEW f \in [Key -> OpState], NEW k0 \in Key
    PROVE  Undecided(f, MarkOutgoingDue(f, k0))
           /\ \A k \in Key : f[k] = "absent" => MarkOutgoingDue(f, k0)[k] = "absent"
BY DEF Undecided, MarkOutgoingDue, OpState, NotAttempted, Open

(* prepare_outgoing *)
LEMMA PrepareUndecided ==
    ASSUME NEW f \in [Key -> OpState], NEW k0 \in Key,
           NEW state \in {"due_not_attempted", "skipped"}
    PROVE  Undecided(f, PrepareOutgoing(f, k0, state))
           /\ InsertsFor(f, PrepareOutgoing(f, k0, state), k0[1])
BY DEF Undecided, InsertsFor, PrepareOutgoing, OpState, NotAttempted, Open

(* create_alarm, for an alarm that has no operation yet *)
LEMMA InsertUndecided ==
    ASSUME NEW f \in [Key -> OpState], NEW m \in Message, NEW status,
           \A k \in Key : k[1] = m => f[k] = "absent"
    PROVE  Undecided(f, InsertOperations(f, m, status))
           /\ InsertsFor(f, InsertOperations(f, m, status), m)
<1>. DEFINE i == <<m, "intermediate", 0>>
            d == <<m, "final", 0>>
            s == IF status \in ActiveStatus THEN "not_due" ELSE "skipped"
            g == InsertOperations(f, m, status)
<1>1. i \in Key /\ d \in Key /\ i # d /\ i[1] = m /\ d[1] = m
  BY DEF Key, OneShotKind
<1>2. f[i] = "absent" /\ f[d] = "absent"
  BY <1>1
<1>3. s \in {"not_due", "skipped"} /\ g = [f EXCEPT ![i] = s, ![d] = s]
  BY DEF InsertOperations
<1>. HIDE DEF i, d, s, g
<1>4. g \in [Key -> OpState] /\ g[i] = s /\ g[d] = s
  BY <1>1, <1>3 DEF OpState, NotAttempted
<1>5. \A k \in Key : k # i /\ k # d => g[k] = f[k]
  BY <1>1, <1>3
<1>6. Undecided(f, g)
  BY <1>2, <1>3, <1>4, <1>5 DEF Undecided, Open, NotAttempted
<1>7. InsertsFor(f, g, m)
  BY <1>1, <1>5 DEF InsertsFor
<1>. QED
  BY <1>6, <1>7 DEF g
-----------------------------------------------------------------------------
(* The tracker.                                                            *)

Job == [by: JobKind, now: Nat, m: Message \cup {0}, todo: SUBSET Seen,
        changed: BOOLEAN, back: Resting, text: Text, result: OpState]

(* A job works on a message unless it has yet to choose one; it attempts a *)
(* key; and it prepares operations only of a session that exists.          *)
JobOK ==
    /\ pc \notin {"free", "select"} => job.m \in Message
    /\ pc \in AttemptPc => key \in Key
    /\ pc \in {"host", "snapshot"} => alarm[job.m].status # "none"
    /\ pc = "adopt" => alarm[job.m].status = "none"

(* Operations exist only for sessions, and one whose RPC was issued is     *)
(* recorded as attempted.                                                  *)
OpsOK ==
    /\ \A m \in Message : RowOK(alarm[m])
    /\ \A k \in Key : /\ op[k] # "absent" => alarm[k[1]].status # "none"
                      /\ wire[k] \in 0 .. 1
                      /\ wire[k] = 1 => op[k] \in Attempted

(* Between the claim and its outcome the row says "attempted_uncertain",   *)
(* and the RPC has been issued or not.                                     *)
AttemptOK ==
    pc \in {"issue", "rpc"} =>
        /\ op[key] = "attempted_uncertain"
        /\ wire[key] = IF pc = "rpc" THEN 1 ELSE 0

IInv == TypeOK /\ JobOK /\ OpsOK /\ AttemptOK

(* The part of the type invariant that the evaluation of alarms leaves     *)
(* alone, and its part about a job between two attempts.                   *)
RestOK ==
    /\ {now, started, failures} \subseteq Nat
    /\ observed \subseteq Message
    /\ seen \subseteq Seen
    /\ breaker \in BOOLEAN
    /\ shown \in [Message -> Text]

Control == /\ pc \in Pc \ {"issue", "rpc"}
           /\ key \in Key \cup {NoKey}
           /\ job \in Job
           /\ JobOK

(* What a step outside the attempt of an operation may do to the tables.   *)
RowsWork ==
    /\ alarm' \in [Message -> Alarm]
    /\ \A m \in Message :
          /\ RowOK(alarm'[m])
          /\ alarm[m].status # "none" => alarm'[m].status # "none"
          /\ alarm[m].status \in TerminalStatus => alarm'[m] = alarm[m]

OpsWork ==
    /\ Undecided(op, op')
    /\ \A k \in Key : op'[k] # "absent"
          => op[k] # "absent" \/ alarm'[k[1]].status # "none"

Works == RowsWork /\ OpsWork /\ wire' = wire

-----------------------------------------------------------------------------
(* Control.                                                                *)

(* Releasing the lock leaves no job. *)
LEMMA ReleaseControl == Release => Control'
BY DEF Release, Control, JobOK, Idle, Job, Pc, Resting, AttemptPc, JobKind,
       NoText, Text, OpState

(* An evaluation returns to where it was called from. *)
LEMMA ReturnControl ==
    ASSUME IInv, NEW back \in Resting,
           back \in {"apply", "settle"} => job.m \in Message,
           Return(back)
    PROVE  Control'
<1>1. CASE back = "free"
  BY <1>1, ReleaseControl DEF Return
<1>2. CASE back # "free"
  <2>1. job \in Job
    BY DEF IInv, TypeOK, Job
  <2>2. NoText \in Text /\ "absent" \in OpState /\ "free" \in Resting
    BY DEF NoText, Text, OpState, Resting
  <2>3. job' \in Job /\ (back \in {"apply", "settle"} => job'.m = job.m)
    BY <1>2, <2>1, <2>2 DEF Return, Job
  <2>. QED
    BY <1>2, <2>3 DEF Return, Control, JobOK, Pc, Resting, AttemptPc
<1>. QED
  BY <1>1, <1>2

(* An attempt begins with its claim. *)
LEMMA AttemptControl ==
    ASSUME IInv, NEW k \in Key, NEW text \in Text, NEW back \in Resting,
           Attempt(k, text, back)
    PROVE  Control'
<1>1. job \in Job
  BY DEF IInv, TypeOK, Job
<1>2. job' \in Job /\ job'.m = k[1]
  BY <1>1, KeyMessage DEF Attempt, Job
<1>. QED
  BY <1>2, KeyMessage DEF Attempt, Control, JobOK, Pc, AttemptPc

(* A call that begins with a message. *)
LEMMA BeginControl ==
    ASSUME IInv, NEW by \in JobKind, NEW m \in Message, NEW todo \in SUBSET Seen,
           NEW at \in {"intake", "late", "adopt", "replay", "evaluate"},
           at = "adopt" => alarm'[m].status = "none",
           Begin(by, at, m, todo)
    PROVE  Control'
<1>1. now \in Nat
  BY DEF IInv, TypeOK
<1>2. job' \in Job /\ job'.m = m
  BY <1>1 DEF Begin, Idle, Job, NoText, Text, OpState, Resting
<1>. QED
  BY <1>2 DEF Begin, Control, JobOK, Pc, AttemptPc

(* A job goes on with the same local variables. *)
LEMMA GotoControl ==
    ASSUME IInv, job.m \in Message,
           NEW at \in {"host", "settle", "apply", "after", "replay", "evaluate", "due"},
           at = "host" => alarm'[job.m].status # "none",
           Goto(at)
    PROVE  Control'
BY DEF IInv, TypeOK, Goto, Control, JobOK, Pc, Resting, AttemptPc, Job

-----------------------------------------------------------------------------
(* The tables.                                                             *)

(* Rows that are not written stay as they are. *)
LEMMA RowsStay ==
    ASSUME IInv, UNCHANGED alarm
    PROVE  RowsWork
BY DEF IInv, TypeOK, OpsOK, RowsWork

(* One row is written. *)
LEMMA RowsFollow ==
    ASSUME IInv, NEW m \in Message, NEW b, Follows(alarm[m], b),
           alarm' = [alarm EXCEPT ![m] = b]
    PROVE  RowsWork
BY DEF IInv, TypeOK, OpsOK, RowsWork, Follows, RowOK

(* Operations that are not written stay as they are. *)
LEMMA OpsStay ==
    ASSUME IInv, UNCHANGED op
    PROVE  OpsWork
BY DEF IInv, TypeOK, OpsWork, Undecided

(* Operations are given up. *)
LEMMA OpsSkip ==
    ASSUME IInv, NEW keys, op' = SkipOperations(op, keys)
    PROVE  OpsWork
BY SkipUndecided DEF IInv, TypeOK, OpsWork

(* An operation becomes due. *)
LEMMA OpsDue ==
    ASSUME IInv, NEW k \in Key, op' = MarkOutgoingDue(op, k)
    PROVE  OpsWork
BY MarkDueUndecided DEF IInv, TypeOK, OpsWork

(* An operation of an existing session is inserted. *)
LEMMA OpsPrepare ==
    ASSUME IInv, RowsWork, NEW k \in Key, alarm[k[1]].status # "none",
           NEW state \in {"due_not_attempted", "skipped"},
           op' = PrepareOutgoing(op, k, state)
    PROVE  OpsWork
BY PrepareUndecided, KeyMessage DEF IInv, TypeOK, OpsWork, RowsWork, InsertsFor

(* _expire_due *)
LEMMA ExpireDueWorks ==
    ASSUME IInv, NEW from, ExpireDue(from)
    PROVE  RowsWork /\ OpsWork
<1>1. RowsWork
  BY ExpireFollows DEF IInv, TypeOK, OpsOK, ExpireDue, RowsWork, Follows
<1>2. OpsWork
  BY OpsSkip DEF ExpireDue
<1>. QED
  BY <1>1, <1>2

(* _create_alarm, for a message without a session *)
LEMMA CreateWorks ==
    ASSUME IInv, NEW m \in Message, alarm[m].status = "none",
           NEW source \in {"standard", "custom"}, NEW trk \in Nat,
           NEW file \in ReleasedFile, Create(m, source, trk, file)
    PROVE  RowsWork /\ OpsWork /\ alarm'[m].status # "none"
<1>1. PICK status \in Status \ {"none"}, released \in SUBSET Member :
        /\ alarm' = [alarm EXCEPT ![m] = InsertedAlarm(status, source, trk, released)]
        /\ op' = InsertOperations(op, m, status)
  <2>. DEFINE status == IF file = Unreadable THEN "error"
                        ELSE IF now >= trk + TTL THEN "expired" ELSE "pending"
              released == IF file = Unreadable THEN {} ELSE file
  <2>1. status \in Status \ {"none"}
    BY DEF Status, ActiveStatus, TerminalStatus
  <2>2. released \in SUBSET Member
    BY InputAssumption DEF InputAssumption
  <2>3. /\ alarm' = [alarm EXCEPT ![m] = InsertedAlarm(status, source, trk, released)]
        /\ op' = InsertOperations(op, m, status)
    BY DEF Create
  <2>. HIDE DEF status, released
  <2>. QED
    BY <2>1, <2>2, <2>3
<1>. DEFINE b == InsertedAlarm(status, source, trk, released)
<1>2. RowOK(b) /\ b.status # "none"
  BY InsertedAlarmOK
<1>. HIDE DEF b
<1>3. RowsWork /\ alarm'[m].status # "none"
  BY <1>1, <1>2 DEF IInv, TypeOK, OpsOK, RowsWork, RowOK, TerminalStatus, b
<1>4. \A k \in Key : k[1] = m => op[k] = "absent"
  BY DEF IInv, OpsOK
<1>5. op \in [Key -> OpState]
  BY DEF IInv, TypeOK
<1>6. Undecided(op, op') /\ InsertsFor(op, op', m)
  BY <1>1, <1>4, <1>5, InsertUndecided
<1>7. OpsWork
  BY <1>3, <1>6 DEF OpsWork, InsertsFor
<1>. QED
  BY <1>3, <1>7

-----------------------------------------------------------------------------
(* The evaluations.  Each ends in an attempt or returns to its caller.     *)

Evaluates == RowsWork /\ OpsWork /\ Control'

Callable(m, back) == /\ alarm[m].status # "none"
                     /\ back \in Resting
                     /\ back \in {"apply", "settle"} => job.m = m

(* _complete_alarm *)
LEMMA CompleteEvaluates ==
    ASSUME IInv, NEW m \in Message, NEW back, Callable(m, back), Complete(m, back)
    PROVE  Evaluates
<1>. DEFINE edited == alarm[m].status = "reported" /\ alarm[m].hasReport
            local == alarm[m].status = "reported"
                     /\ op[<<m, "final", 0>>] = "attempted_uncertain"
            k == <<m, IF edited THEN "completion_edit" ELSE "completion", 0>>
<1>1. k \in Key /\ k[1] = m
  BY OneShotKey DEF OneShotKind
<1>2. RowsWork
  BY RowsStay DEF Complete
<1>3. \/ /\ op' = PrepareOutgoing(op, k, "skipped")
         /\ pc' = "post" /\ key' = k
         /\ job' = [job EXCEPT !.m = m, !.back = back, !.result = "skipped"]
      \/ /\ op' = PrepareOutgoing(op, k, "due_not_attempted")
         /\ Attempt(k, NoText, back)
  BY DEF Complete
<1>. HIDE DEF k
<1>4. OpsWork
  BY <1>1, <1>2, <1>3, OpsPrepare DEF Callable
<1>5. CASE Attempt(k, NoText, back)
  <2>1. NoText \in Text
    BY DEF NoText, Text
  <2>. QED
    BY <1>1, <1>2, <1>4, <1>5, <2>1, AttemptControl DEF Callable, Evaluates
<1>6. CASE /\ pc' = "post" /\ key' = k
           /\ job' = [job EXCEPT !.m = m, !.back = back, !.result = "skipped"]
  <2>1. job' \in Job /\ job'.m = m
    BY <1>6 DEF IInv, TypeOK, Job, Callable, OpState
  <2>2. Control'
    BY <1>1, <1>6, <2>1 DEF Control, JobOK, Pc, AttemptPc
  <2>. QED
    BY <1>2, <1>4, <2>2 DEF Evaluates
<1>. QED
  BY <1>3, <1>5, <1>6

(* _process_intermediate *)
LEMMA IntermediateEvaluates ==
    ASSUME IInv, NEW m \in Message, NEW back, Callable(m, back),
           ProcessIntermediate(m, back)
    PROVE  Evaluates
<1>. DEFINE k == <<m, "intermediate", 0>>
<1>1. k \in Key
  BY OneShotKey DEF OneShotKind
<1>2. \/ Return(back) /\ UNCHANGED <<alarm, op>>
      \/ op' = SkipOperations(op, {k}) /\ Return(back) /\ UNCHANGED alarm
      \/ Complete(m, back)
      \/ /\ op' = MarkOutgoingDue(op, k)
         /\ Attempt(k, NoText, back)
         /\ UNCHANGED alarm
  BY DEF ProcessIntermediate
<1>3. NoText \in Text
  BY DEF NoText, Text
<1>4. Return(back) => Control'
  BY ReturnControl DEF Callable
<1>. HIDE DEF k
<1>5. CASE Return(back) /\ UNCHANGED <<alarm, op>>
  BY <1>4, <1>5, RowsStay, OpsStay DEF Evaluates
<1>6. CASE op' = SkipOperations(op, {k}) /\ Return(back) /\ UNCHANGED alarm
  BY <1>4, <1>6, RowsStay, OpsSkip DEF Evaluates
<1>7. CASE Complete(m, back)
  BY <1>7, CompleteEvaluates
<1>8. CASE op' = MarkOutgoingDue(op, k) /\ Attempt(k, NoText, back) /\ UNCHANGED alarm
  BY <1>1, <1>3, <1>8, RowsStay, OpsDue, AttemptControl DEF Callable, Evaluates
<1>. QED
  BY <1>2, <1>5, <1>6, <1>7, <1>8

(* _process_final, its first transaction *)
LEMMA FinalEvaluates ==
    ASSUME IInv, NEW m \in Message, NEW back, Callable(m, back), ProcessFinal(m, back)
    PROVE  Evaluates
<1>1. RowsWork /\ OpsWork
  BY RowsStay, OpsSkip DEF ProcessFinal
<1>2. job' \in Job /\ job'.m = m
  BY DEF IInv, TypeOK, ProcessFinal, Callable, Job
<1>3. Control'
  BY <1>2 DEF IInv, TypeOK, ProcessFinal, Callable, Control, JobOK, Pc, AttemptPc
<1>. QED
  BY <1>1, <1>3 DEF Evaluates

(* _process_edit *)
LEMMA EditEvaluates ==
    ASSUME IInv, NEW m \in Message, NEW back, Callable(m, back), ProcessEdit(m, back)
    PROVE  Evaluates
<1>. DEFINE k == <<m, "report_edit", alarm[m].rev>>
<1>1. RowOK(alarm[m]) /\ alarm[m] \in Alarm
  BY DEF IInv, OpsOK, RowOK
<1>2. k \in Key /\ k[1] = m
  BY <1>1, EditKey DEF Alarm
<1>3. ReportText(alarm[m]) \in Text
  BY <1>1, ReportTextType
<1>4. \/ /\ alarm' = [alarm EXCEPT ![m] = ClearEditDue(alarm[m])]
         /\ Return(back) /\ UNCHANGED op
      \/ /\ op' = PrepareOutgoing(op, k, "due_not_attempted")
         /\ Attempt(k, ReportText(alarm[m]), back) /\ UNCHANGED alarm
  BY DEF ProcessEdit
<1>. HIDE DEF k
<1>5. CASE /\ alarm' = [alarm EXCEPT ![m] = ClearEditDue(alarm[m])]
           /\ Return(back) /\ UNCHANGED op
  BY <1>1, <1>5, ClearEditDueFollows, RowsFollow, OpsStay, ReturnControl
     DEF Callable, Evaluates
<1>6. CASE /\ op' = PrepareOutgoing(op, k, "due_not_attempted")
           /\ Attempt(k, ReportText(alarm[m]), back) /\ UNCHANGED alarm
  BY <1>2, <1>3, <1>6, RowsStay, OpsPrepare, AttemptControl DEF Callable, Evaluates
<1>. QED
  BY <1>4, <1>5, <1>6

-----------------------------------------------------------------------------
(* The actions outside an attempt.                                         *)

Quiet == Evaluates /\ wire' = wire /\ RestOK'

(* What no evaluation touches keeps its type. *)
LEMMA RestStays == IInv /\ UNCHANGED rest => RestOK' /\ wire' = wire
BY DEF IInv, TypeOK, rest, ghosts, RestOK

(* The transition that follows an attempt. *)
LEMMA PostQuiet == IInv /\ Post => Quiet
<1>. SUFFICES ASSUME IInv, Post PROVE Quiet
  OBVIOUS
<1>. DEFINE m == job.m
            b == AfterAttempt(alarm[m], key[2], job.result, job.text)
<1>1. m \in Message /\ RowOK(alarm[m]) /\ job \in Job
  BY DEF Post, IInv, TypeOK, JobOK, OpsOK, AttemptPc, Job
<1>2. job.text \in Text /\ job.back \in Resting
  BY <1>1 DEF Job
<1>3. Follows(alarm[m], b)
  BY <1>1, <1>2, MarkReportedFollows, RecordSuccessfulEditFollows,
     ClearEditDueFollows, MarkCompletedFollows DEF AfterAttempt, Follows
<1>4. RowsWork
  BY <1>1, <1>3, RowsFollow DEF Post
<1>5. OpsWork
  BY OpsSkip, OpsStay DEF Post
<1>6. Control'
  BY <1>1, <1>2, ReturnControl DEF Post
<1>. QED
  BY <1>4, <1>5, <1>6, RestStays DEF Post, Quiet, Evaluates

(* The second and third transaction of _process_final. *)
LEMMA FinalQuiet == IInv /\ (SnapshotFinal \/ MarkFinalDue) => Quiet
<1>. SUFFICES ASSUME IInv, SnapshotFinal \/ MarkFinalDue PROVE Quiet
  OBVIOUS
<1>1. /\ job.m \in Message /\ RowOK(alarm[job.m])
      /\ job.back \in Resting
      /\ pc = "snapshot" => alarm[job.m].status # "none"
  BY DEF SnapshotFinal, MarkFinalDue, IInv, TypeOK, JobOK, OpsOK
<1>2. RestOK' /\ wire' = wire
  BY RestStays DEF SnapshotFinal, MarkFinalDue
<1>3. CASE SnapshotFinal
  <2>1. CASE Complete(job.m, job.back)
    BY <1>1, <1>2, <1>3, <2>1, CompleteEvaluates DEF SnapshotFinal, Callable, Quiet
  <2>2. CASE /\ alarm' = [alarm EXCEPT ![job.m] = SnapshotFinalMissing(@)]
             /\ Goto("due") /\ UNCHANGED op
    BY <1>1, <1>2, <2>2, SnapshotFollows, RowsFollow, OpsStay, GotoControl
       DEF Quiet, Evaluates
  <2>. QED
    BY <1>3, <2>1, <2>2 DEF SnapshotFinal
<1>4. CASE MarkFinalDue
  <2>. DEFINE k == <<job.m, "final", 0>>
  <2>1. k \in Key
    BY <1>1, OneShotKey DEF OneShotKind
  <2>2. ReportText(alarm[job.m]) \in Text
    BY <1>1, ReportTextType DEF RowOK
  <2>3. /\ op' = MarkOutgoingDue(op, k) /\ UNCHANGED alarm
        /\ Attempt(k, ReportText(alarm[job.m]), job.back)
    BY <1>4 DEF MarkFinalDue
  <2>. HIDE DEF k
  <2>. QED
    BY <1>1, <1>2, <2>1, <2>2, <2>3, RowsStay, OpsDue, AttemptControl
       DEF Quiet, Evaluates
<1>. QED
  BY <1>3, <1>4

(* process_due *)
LEMMA TickQuiet == IInv /\ (TickBegin \/ TickRun) => Quiet
<1>. SUFFICES ASSUME IInv, TickBegin \/ TickRun PROVE Quiet
  OBVIOUS
<1>. USE DEF Quiet
<1>1. CASE TickBegin
  <2>1. RowsWork /\ OpsWork
    BY <1>1, ExpireDueWorks DEF TickBegin
  <2>2. Control'
    BY <1>1 DEF TickBegin, Begin, Idle, IInv, TypeOK, Control, JobOK, Job, Pc,
                Resting, AttemptPc, JobKind, NoText, Text, OpState
  <2>. QED
    BY <1>1, <2>1, <2>2, RestStays DEF TickBegin, Evaluates
<1>2. CASE TickComplete
  <2>1. PICK m \in Message : alarm[m].status # "none" /\ Complete(m, "select")
    BY <1>2 DEF TickComplete, ToComplete, DueToComplete, Earliest, IsActive, ActiveStatus
  <2>. QED
    BY <1>2, <2>1, CompleteEvaluates, RestStays DEF TickComplete, Callable, Resting
<1>3. CASE TickIntermediate
  <2>1. PICK m \in Message :
          alarm[m].status # "none" /\ ProcessIntermediate(m, "select")
    BY <1>3 DEF TickIntermediate, ToIntermediate, DueIntermediate, Earliest
  <2>. QED
    BY <1>3, <2>1, IntermediateEvaluates, RestStays DEF TickIntermediate, Callable, Resting
<1>4. CASE TickFinal
  <2>1. PICK m \in Message : alarm[m].status # "none" /\ ProcessFinal(m, "select")
    BY <1>4 DEF TickFinal, ToFinal, DueFinal, Earliest
  <2>. QED
    BY <1>4, <2>1, FinalEvaluates, RestStays DEF TickFinal, Callable, Resting
<1>5. CASE TickEdit
  <2>1. PICK m \in Message : alarm[m].status # "none" /\ ProcessEdit(m, "select")
    BY <1>5 DEF TickEdit, ToEdit, DueEdits, Earliest
  <2>. QED
    BY <1>5, <2>1, EditEvaluates, RestStays DEF TickEdit, Callable, Resting
<1>6. CASE TickEnd
  <2>1. Control' /\ RowsWork /\ OpsWork
    BY <1>6, ReleaseControl, RowsStay, OpsStay DEF TickEnd
  <2>. QED
    BY <1>6, <2>1 DEF TickEnd, Cleanup, RetainedMessages, RetainedReactions, Evaluates,
                      IInv, TypeOK, RestOK, ghosts
<1>. QED
  BY <1>1, <1>2, <1>3, <1>4, <1>5, <1>6 DEF TickRun

(* _handle_message *)
LEMMA MessageQuiet ==
    IInv /\ (MessageRun \/ \E m \in Message : MessageBegin(m)) => Quiet
<1>. SUFFICES ASSUME IInv, MessageRun \/ \E m \in Message : MessageBegin(m)
              PROVE  Quiet
  OBVIOUS
<1>1. ASSUME NEW m \in Message, MessageBegin(m)
      PROVE  Quiet
  <2>1. Control'
    BY <1>1, BeginControl DEF MessageBegin, JobKind
  <2>2. RestOK' /\ wire' = wire /\ UNCHANGED <<alarm, op>>
    BY <1>1 DEF MessageBegin, IInv, TypeOK, RestOK, ghosts
  <2>. QED
    BY <2>1, <2>2, RowsStay, OpsStay DEF Quiet, Evaluates
<1>2. CASE IntakeIgnored
  <2>1. Control' /\ RowsWork /\ OpsWork
    BY <1>2, ReleaseControl, RowsStay, OpsStay DEF IntakeIgnored
  <2>. QED
    BY <1>2, <2>1 DEF IntakeIgnored, Cleanup, RetainedMessages, RetainedReactions,
                      Quiet, Evaluates, IInv, TypeOK, RestOK, ghosts
<1>3. CASE IntakeTrigger
  <2>1. job.m \in Message /\ alarm[job.m].status = "none" /\ SentAt[job.m] \in Nat
    BY <1>3, RowAssumption DEF IntakeTrigger, Starts, IInv, JobOK, RowAssumption
  <2>2. RowsWork /\ OpsWork /\ alarm'[job.m].status # "none"
    BY <1>3, <2>1, CreateWorks DEF IntakeTrigger
  <2>3. Release \/ Goto("host") \/ Goto("settle")
    BY <1>3 DEF IntakeTrigger
  <2>4. Control'
    BY <2>1, <2>2, <2>3, ReleaseControl, GotoControl
  <2>. QED
    BY <1>3, <2>2, <2>4 DEF IntakeTrigger, Cleanup, RetainedMessages, RetainedReactions,
                            Quiet, Evaluates, IInv, TypeOK, RestOK, ghosts
<1>4. CASE HostReaction
  <2>. DEFINE k == <<job.m, "host_reaction", 0>>
  <2>1. k \in Key /\ k[1] = job.m /\ alarm[job.m].status # "none"
    BY <1>4, OneShotKey DEF HostReaction, OneShotKind, IInv, JobOK
  <2>2. NoText \in Text /\ "settle" \in Resting
    BY DEF NoText, Text, Resting
  <2>3. /\ op' = PrepareOutgoing(op, k, "due_not_attempted")
        /\ Attempt(k, NoText, "settle") /\ UNCHANGED <<alarm, rest>>
    BY <1>4 DEF HostReaction
  <2>. HIDE DEF k
  <2>. QED
    BY <2>1, <2>2, <2>3, RowsStay, OpsPrepare, AttemptControl, RestStays
       DEF Quiet, Evaluates
<1>5. CASE Settle
  <2>1. CASE IsActive(alarm[job.m]) /\ Complete(job.m, "free")
    <3>1. job.m \in Message /\ Callable(job.m, "free")
      BY <1>5, <2>1 DEF Settle, IInv, JobOK, Callable, Resting, IsActive, ActiveStatus
    <3>. QED
      BY <1>5, <2>1, <3>1, CompleteEvaluates, RestStays DEF Settle, Quiet
  <2>2. CASE Release /\ UNCHANGED <<alarm, op>>
    BY <1>5, <2>2, ReleaseControl, RowsStay, OpsStay, RestStays
       DEF Settle, Quiet, Evaluates
  <2>. QED
    BY <1>5, <2>1, <2>2 DEF Settle
<1>. QED
  BY <1>1, <1>2, <1>3, <1>4, <1>5 DEF MessageRun

(* The history keeps its type. *)
LEMMA ObserveTyped ==
    ASSUME IInv, NEW e \in Reaction
    PROVE  /\ Observe(e) => seen' \subseteq Seen
           /\ \A n \in Message : Row(n, e) \in Seen
<1>1. \A n \in Message : Row(n, e) \in Seen
  BY InputAssumption DEF InputAssumption, Row, Seen
<1>. QED
  BY <1>1 DEF Observe, Targeted, IInv, TypeOK

(* _handle_reaction *)
LEMMA ReactionQuiet ==
    IInv /\ (ReactionRun \/ \E e \in Reaction : ReactionBegin(e) \/ ReactionIgnored(e))
        => Quiet
<1>. SUFFICES ASSUME IInv, ReactionRun \/ \E e \in Reaction :
                              ReactionBegin(e) \/ ReactionIgnored(e)
              PROVE  Quiet
  OBVIOUS
<1>. DEFINE m == job.m
<1>1. /\ pc # "free" /\ pc # "select" => m \in Message /\ RowOK(alarm[m])
      /\ job \in Job /\ job.todo \subseteq Seen /\ job.now \in Nat
  BY DEF IInv, TypeOK, JobOK, OpsOK, Job
<1>2. ASSUME NEW e \in Reaction, Observe(e)
      PROVE  /\ seen' \subseteq Seen
             /\ \A n \in Message : Row(n, e) \in Seen
  BY <1>2, ObserveTyped
<1>3. ASSUME NEW e \in Reaction, ReactionBegin(e)
      PROVE  Quiet
  <2>1. PICK n \in Message : Begin("reaction", "late", n, {Row(n, e)})
    BY <1>3 DEF ReactionBegin, ReactionTargets, Targeted
  <2>2. {Row(n, e)} \in SUBSET Seen /\ seen' \subseteq Seen
    BY <1>2, <1>3 DEF ReactionBegin
  <2>3. Control'
    BY <2>1, <2>2, BeginControl DEF JobKind
  <2>4. RowsWork /\ OpsWork
    BY <1>3, ExpireDueWorks DEF ReactionBegin
  <2>. QED
    BY <1>3, <2>2, <2>3, <2>4
       DEF ReactionBegin, Quiet, Evaluates, IInv, TypeOK, RestOK, ghosts
<1>4. ASSUME NEW e \in Reaction, ReactionIgnored(e)
      PROVE  Quiet
  <2>1. seen' \subseteq Seen
    BY <1>2, <1>4 DEF ReactionIgnored
  <2>2. Control'
    BY <1>4 DEF ReactionIgnored, IInv, TypeOK, Control, JobOK, Job, AttemptPc
  <2>. QED
    BY <1>4, <2>1, <2>2, RowsStay, OpsStay
       DEF ReactionIgnored, Quiet, Evaluates, IInv, TypeOK, RestOK, ghosts
<1>5. CASE ReactionLate
  <2>1. \/ Release /\ UNCHANGED <<alarm, op>>
        \/ IsActive(alarm[m]) /\ ProcessFinal(m, "apply")
        \/ IsActive(alarm[m]) /\ ProcessIntermediate(m, "apply")
        \/ Goto("apply") /\ UNCHANGED <<alarm, op>>
    BY <1>5 DEF ReactionLate
  <2>2. IsActive(alarm[m]) => Callable(m, "apply")
    BY DEF Callable, IsActive, ActiveStatus, Resting
  <2>3. m \in Message
    BY <1>1, <1>5 DEF ReactionLate
  <2>4. Evaluates
    BY <2>1, <2>2, <2>3, ReleaseControl, GotoControl, RowsStay, OpsStay,
       FinalEvaluates, IntermediateEvaluates DEF Evaluates
  <2>. QED
    BY <1>5, <2>4, RestStays DEF ReactionLate, Quiet
<1>6. CASE ReactionApply
  <2>1. PICK e \in Seen :
          /\ ChangesResponse(alarm[m], e) => alarm[m].rev < MaxRev
          /\ alarm' = [alarm EXCEPT ![m] = ApplyReaction(alarm[m], e, job.now)]
          /\ job' = [job EXCEPT !.changed = ChangesResponse(alarm[m], e)]
    BY <1>1, <1>6 DEF ReactionApply
  <2>2. m \in Message /\ RowOK(alarm[m])
    BY <1>1, <1>6 DEF ReactionApply
  <2>3. Follows(alarm[m], ApplyReaction(alarm[m], e, job.now))
    BY <1>1, <2>1, <2>2, ApplyReactionFollows
  <2>4. RowsWork /\ OpsWork
    BY <1>6, <2>1, <2>2, <2>3, RowsFollow, OpsStay DEF ReactionApply
  <2>5. ChangesResponse(alarm[m], e) \in BOOLEAN
    BY DEF ChangesResponse, Accepts
  <2>6. job' \in Job /\ job'.m = m
    BY <1>1, <2>1, <2>5 DEF Job
  <2>7. Control'
    BY <1>6, <2>2, <2>6 DEF ReactionApply, Control, JobOK, IInv, TypeOK, Pc, AttemptPc
  <2>. QED
    BY <1>6, <2>4, <2>7
       DEF ReactionApply, Quiet, Evaluates, IInv, TypeOK, RestOK, ghosts
<1>7. CASE ReactionAfter
  <2>1. \/ Release /\ UNCHANGED <<alarm, op>>
        \/ IsActive(alarm[m]) /\ Complete(m, "free")
        \/ IsActive(alarm[m]) /\ ProcessFinal(m, "free")
        \/ IsActive(alarm[m]) /\ ProcessIntermediate(m, "free")
    BY <1>7 DEF ReactionAfter
  <2>2. IsActive(alarm[m]) => Callable(m, "free")
    BY DEF Callable, IsActive, ActiveStatus, Resting
  <2>3. m \in Message
    BY <1>1, <1>7 DEF ReactionAfter
  <2>4. Evaluates
    BY <2>1, <2>2, <2>3, ReleaseControl, RowsStay, OpsStay,
       CompleteEvaluates, FinalEvaluates, IntermediateEvaluates DEF Evaluates
  <2>. QED
    BY <1>7, <2>4, RestStays DEF ReactionAfter, Quiet
<1>. QED
  BY <1>3, <1>4, <1>5, <1>6, <1>7 DEF ReactionRun

(* force_check_latest and force_check_message *)
LEMMA CheckBeginQuiet ==
    ASSUME IInv, NEW found \in SUBSET Message, NEW replays \in BOOLEAN,
           CheckBegin(found, replays)
    PROVE  Quiet
<1>1. RowsWork /\ OpsWork
  BY ExpireDueWorks DEF CheckBegin
<1>2. RestOK' /\ wire' = wire
  BY DEF CheckBegin, Kept, RetainedMessages, RetainedReactions, IInv, TypeOK, RestOK, ghosts
<1>3. ASSUME NEW m \in found,
             Begin("check", CheckPc(m, replays), m,
                   {s \in seen : s.msg = m /\ CheckPc(m, replays) # "evaluate"})
      PROVE  Control'
  <2>. DEFINE todo == {s \in seen : s.msg = m /\ CheckPc(m, replays) # "evaluate"}
  <2>1. todo \in SUBSET Seen
    BY DEF IInv, TypeOK
  <2>2. CheckPc(m, replays) \in {"adopt", "replay", "evaluate"}
    BY DEF CheckPc
  <2>3. CheckPc(m, replays) = "adopt" => alarm'[m].status = "none"
    BY ExpireFollows DEF CheckPc, CheckBegin, ExpireDue, Follows, IInv, TypeOK, OpsOK
  <2>. HIDE DEF todo
  <2>. QED
    BY <1>3, <2>1, <2>2, <2>3, BeginControl DEF JobKind, todo
<1>4. Control'
  BY <1>3, ReleaseControl DEF CheckBegin
<1>. QED
  BY <1>1, <1>2, <1>4 DEF Quiet, Evaluates

(* _force_observed_message and _force_alarm *)
LEMMA CheckRunQuiet == IInv /\ CheckRun => Quiet
<1>. SUFFICES ASSUME IInv, CheckRun PROVE Quiet
  OBVIOUS
<1>. DEFINE m == job.m
<1>1. /\ m \in Message /\ RowOK(alarm[m])
      /\ job \in Job /\ job.todo \subseteq Seen /\ job.now \in Nat
      /\ pc = "adopt" => alarm[m].status = "none"
  BY DEF CheckRun, CheckAdopt, CheckReplay, CheckReplayed, CheckEvaluate,
         IInv, TypeOK, JobOK, OpsOK, Job
<1>2. CASE CheckAdopt
  <2>1. RowsWork /\ OpsWork
    BY <1>1, <1>2, CreateWorks DEF CheckAdopt
  <2>2. Goto("replay") \/ Goto("evaluate")
    BY <1>2 DEF CheckAdopt
  <2>3. Control'
    BY <1>1, <2>2, GotoControl
  <2>. QED
    BY <1>2, <2>1, <2>3, RestStays DEF CheckAdopt, Quiet, Evaluates
<1>3. CASE CheckReplay
  <2>1. PICK e \in Seen :
          /\ ChangesResponse(alarm[m], e) => alarm[m].rev < MaxRev
          /\ alarm' = [alarm EXCEPT ![m] = ApplyReaction(alarm[m], e, job.now)]
          /\ job' = [job EXCEPT !.todo = job.todo \ {e}]
    BY <1>1, <1>3 DEF CheckReplay
  <2>2. Follows(alarm[m], ApplyReaction(alarm[m], e, job.now))
    BY <1>1, <2>1, ApplyReactionFollows
  <2>3. RowsWork /\ OpsWork
    BY <1>1, <1>3, <2>1, <2>2, RowsFollow, OpsStay DEF CheckReplay
  <2>4. job' \in Job /\ job'.m = m
    BY <1>1, <2>1 DEF Job
  <2>5. Control'
    BY <1>1, <1>3, <2>4 DEF CheckReplay, Control, JobOK, IInv, TypeOK, Pc, AttemptPc
  <2>. QED
    BY <1>3, <2>3, <2>5
       DEF CheckReplay, Quiet, Evaluates, IInv, TypeOK, RestOK, ghosts
<1>4. CASE CheckReplayed
  BY <1>1, <1>4, GotoControl, RowsStay, OpsStay, RestStays
     DEF CheckReplayed, Quiet, Evaluates
<1>5. CASE CheckEvaluate
  <2>. DEFINE k == <<m, "manual_report", 0>>
  <2>1. k \in Key /\ k[1] = m
    BY <1>1, OneShotKey DEF OneShotKind
  <2>2. \/ Release /\ UNCHANGED <<alarm, op>>
        \/ IsActive(alarm[m]) /\ Complete(m, "free")
        \/ IsActive(alarm[m]) /\ ProcessFinal(m, "free")
        \/ /\ IsActive(alarm[m])
           /\ op' = PrepareOutgoing(op, k, "due_not_attempted")
           /\ Attempt(k, NoText, "free") /\ UNCHANGED alarm
    BY <1>5 DEF CheckEvaluate
  <2>3. IsActive(alarm[m]) => Callable(m, "free")
    BY DEF Callable, IsActive, ActiveStatus, Resting
  <2>4. NoText \in Text /\ "free" \in Resting
    BY DEF NoText, Text, Resting
  <2>. HIDE DEF k
  <2>5. ASSUME IsActive(alarm[m]),
               op' = PrepareOutgoing(op, k, "due_not_attempted"),
               Attempt(k, NoText, "free"), UNCHANGED alarm
        PROVE  Evaluates
    <3>1. RowsWork /\ alarm[k[1]].status # "none"
      BY <2>1, <2>3, <2>5, RowsStay DEF Callable
    <3>2. OpsWork
      BY <2>1, <2>5, <3>1, OpsPrepare
    <3>3. Control'
      BY <2>1, <2>4, <2>5, AttemptControl
    <3>. QED
      BY <3>1, <3>2, <3>3 DEF Evaluates
  <2>6. ASSUME IsActive(alarm[m]), Complete(m, "free") \/ ProcessFinal(m, "free")
        PROVE  Evaluates
    BY <1>1, <2>3, <2>6, CompleteEvaluates, FinalEvaluates
  <2>7. ASSUME Release, UNCHANGED <<alarm, op>>
        PROVE  Evaluates
    BY <2>7, ReleaseControl, RowsStay, OpsStay DEF Evaluates
  <2>8. Evaluates
    BY <2>2, <2>5, <2>6, <2>7
  <2>. QED
    BY <1>5, <2>8, RestStays DEF CheckEvaluate, Quiet
<1>. QED
  BY <1>2, <1>3, <1>4, <1>5 DEF CheckRun

(* The commit that a crash cuts the rest of its handler off from. *)
LEMMA FirstCommitWorks ==
    ASSUME IInv, FirstCommit
    PROVE  RowsWork /\ OpsWork /\ observed' \subseteq Message /\ seen' \subseteq Seen
<1>1. observed \subseteq Message /\ seen \subseteq Seen
  BY DEF IInv, TypeOK
<1>2. CASE /\ \E e \in Reaction : e.ts <= now + Skew /\ Observe(e)
           /\ UNCHANGED <<alarm, op, observed>>
  BY <1>1, <1>2, ObserveTyped, RowsStay, OpsStay
<1>3. CASE ExpireDue(0) /\ UNCHANGED <<observed, seen>>
  BY <1>1, <1>3, ExpireDueWorks
<1>4. CASE Cleanup(alarm) /\ UNCHANGED <<alarm, op>>
  BY <1>1, <1>4, RowsStay, OpsStay DEF Cleanup, RetainedMessages, RetainedReactions
<1>. QED
  BY <1>2, <1>3, <1>4 DEF FirstCommit

(* A crash or a failed pass loses the job and no row. *)
LEMMA FailureQuiet == IInv /\ (Crash \/ TickFails) => Quiet
<1>. SUFFICES ASSUME IInv, Crash \/ TickFails PROVE Quiet
  OBVIOUS
<1>1. UNCHANGED <<wire, shown>> /\ Control'
  BY ReleaseControl DEF Crash, TickFails, ghosts
<1>2. now' \in Nat /\ started' \in Nat /\ failures' \in Nat
  BY DEF Crash, TickFails, IInv, TypeOK
<1>3. breaker' \in BOOLEAN
  BY Zenon DEF Crash, TickFails, IInv, TypeOK
<1>4. RowsWork /\ OpsWork /\ observed' \subseteq Message /\ seen' \subseteq Seen
  <2>1. CASE UNCHANGED durable
    BY <2>1, RowsStay, OpsStay DEF durable, IInv, TypeOK
  <2>2. CASE FirstCommit
    BY <2>2, FirstCommitWorks
  <2>. QED
    BY <2>1, <2>2 DEF Crash, TickFails
<1>. QED
  BY <1>1, <1>2, <1>3, <1>4 DEF Quiet, Evaluates, RestOK, IInv, TypeOK

(* Every step but those of an attempt and of the environment is quiet. *)
QuietStep == \/ Call \/ SnapshotFinal \/ MarkFinalDue \/ Post
             \/ TickRun \/ MessageRun \/ ReactionRun \/ CheckRun
             \/ TickFails \/ Crash

LEMMA QuietSteps == IInv /\ QuietStep => Quiet
<1>. SUFFICES ASSUME IInv, QuietStep PROVE Quiet
  OBVIOUS
<1>1. CASE CheckLatest
  <2>. DEFINE preferred == {m \in LatestObserved(Kept \cap Trigger) :
                              \A n \in StandardAlarms(alarm) : SentAt[m] >= SentAt[n]}
  <2>1. CheckBegin(preferred, TRUE) \/ CheckBegin(LatestStandard, FALSE)
    BY <1>1 DEF CheckLatest
  <2>2. preferred \in SUBSET Message
    BY DEF LatestObserved, Kept, RetainedMessages, IInv, TypeOK
  <2>3. LatestStandard \in SUBSET Message
    BY DEF LatestStandard, StandardAlarms
  <2>. HIDE DEF preferred
  <2>. QED
    BY <2>1, <2>2, <2>3, CheckBeginQuiet
<1>2. ASSUME NEW class, CheckText(class)
      PROVE  Quiet
  <2>. DEFINE found == LatestObserved({m \in Kept : TextClass[m] = class})
  <2>1. CheckBegin(found, TRUE)
    BY <1>2 DEF CheckText
  <2>2. found \in SUBSET Message
    BY DEF LatestObserved, Kept, RetainedMessages, IInv, TypeOK
  <2>. HIDE DEF found
  <2>. QED
    BY <2>1, <2>2, CheckBeginQuiet
<1>. QED
  BY <1>1, <1>2, PostQuiet, FinalQuiet, TickQuiet, MessageQuiet, ReactionQuiet,
     CheckRunQuiet, FailureQuiet DEF QuietStep, Call

-----------------------------------------------------------------------------
(* The inductive invariant.                                                *)

(* A quiet step preserves it. *)
LEMMA QuietPreserves == IInv /\ Quiet => IInv'
<1>. SUFFICES ASSUME IInv, Quiet PROVE IInv'
  OBVIOUS
<1>1. TypeOK'
  BY DEF Quiet, Evaluates, RowsWork, OpsWork, Undecided, Control, RestOK, IInv, TypeOK, Job
<1>2. JobOK' /\ AttemptOK'
  BY DEF Quiet, Evaluates, Control, AttemptOK
<1>3. ASSUME NEW k \in Key
      PROVE  /\ op'[k] # "absent" => alarm'[k[1]].status # "none"
             /\ wire'[k] \in 0 .. 1
             /\ wire'[k] = 1 => op'[k] \in Attempted
  BY KeyMessage DEF Quiet, Evaluates, RowsWork, OpsWork, Undecided, IInv, OpsOK,
                    Open, NotAttempted, Attempted
<1>4. OpsOK'
  BY <1>3 DEF OpsOK, Quiet, Evaluates, RowsWork
<1>. QED
  BY <1>1, <1>2, <1>4 DEF IInv

(* The steps of an attempt, other than the transition that follows it. *)
AttemptAction == Claim \/ Issue \/ Blocked \/ Succeed \/ Fail \/ RateLimited \/ LoseAnswer

(* They write no row, and at most their own operation. *)
LEMMA AttemptPreserves == IInv /\ AttemptAction => IInv'
<1>. SUFFICES ASSUME IInv, AttemptAction PROVE IInv'
  OBVIOUS
<1>1. /\ key \in Key /\ job \in Job /\ job.m \in Message
      /\ op \in [Key -> OpState] /\ wire \in [Key -> Nat]
  BY DEF AttemptAction, Claim, Issue, Blocked, Succeed, Fail, RateLimited, LoseAnswer,
         IInv, TypeOK, JobOK, AttemptPc, Job
<1>2. CASE Claim
  <2>1. CASE Claimable(op, key)
    <3>1. op' = [op EXCEPT ![key] = "attempted_uncertain"] /\ pc' = "issue"
          /\ UNCHANGED <<alarm, wire, key, job>> /\ op[key] = "due_not_attempted"
      BY <1>2, <2>1 DEF Claim, ClaimOutgoing, Claimable, ghosts
    <3>2. TypeOK'
      BY <1>1, <1>2, <3>1 DEF Claim, IInv, TypeOK, OpState, Attempted, Pc, AttemptPc, ghosts
    <3>3. JobOK' /\ AttemptOK'
      BY <1>1, <3>1 DEF JobOK, AttemptOK, AttemptPc, IInv, OpsOK, Attempted
    <3>4. OpsOK'
      BY <1>1, <3>1 DEF OpsOK, IInv, Attempted
    <3>. QED
      BY <3>2, <3>3, <3>4 DEF IInv
  <2>2. CASE ~Claimable(op, key)
    <3>1. /\ job' = [job EXCEPT !.result = op[key]] /\ pc' = "post"
          /\ UNCHANGED <<alarm, op, wire, key>>
      BY <1>2, <2>2 DEF Claim, ghosts
    <3>2. job' \in Job /\ job'.m = job.m
      BY <1>1, <3>1 DEF Job
    <3>3. TypeOK'
      BY <1>2, <3>1, <3>2 DEF Claim, IInv, TypeOK, Job, Pc, AttemptPc, ghosts
    <3>4. JobOK' /\ AttemptOK' /\ OpsOK'
      BY <1>1, <3>1, <3>2 DEF JobOK, AttemptOK, AttemptPc, IInv, OpsOK
    <3>. QED
      BY <3>3, <3>4 DEF IInv
  <2>. QED
    BY <2>1, <2>2
<1>3. CASE Issue
  <2>1. /\ wire' = [wire EXCEPT ![key] = 1] /\ pc' = "rpc"
        /\ UNCHANGED <<alarm, op, key, job>> /\ op[key] = "attempted_uncertain"
    BY <1>1, <1>3 DEF Issue, IInv, AttemptOK, durable
  <2>2. TypeOK'
    BY <1>1, <1>3, <2>1 DEF Issue, IInv, TypeOK, Pc, AttemptPc, durable
  <2>3. JobOK' /\ AttemptOK' /\ OpsOK'
    BY <1>1, <2>1 DEF JobOK, AttemptOK, AttemptPc, IInv, OpsOK, Attempted
  <2>. QED
    BY <2>2, <2>3 DEF IInv
<1>4. ASSUME NEW result \in {"skipped"} \cup Attempted, Finish(result),
             pc \in {"issue", "rpc"}, result = "skipped" => pc = "issue",
             breaker' \in BOOLEAN, shown' \in [Message -> Text]
      PROVE  IInv'
  <2>1. /\ op' = [op EXCEPT ![key] = result] /\ pc' = "post"
        /\ job' = [job EXCEPT !.result = result]
        /\ UNCHANGED <<alarm, wire, key>>
        /\ op[key] = "attempted_uncertain"
        /\ result = "skipped" => wire[key] = 0
    BY <1>1, <1>4 DEF Finish, FinishOutgoing, IInv, AttemptOK
  <2>2. result \in OpState
    BY DEF OpState
  <2>3. job' \in Job /\ job'.m = job.m
    BY <1>1, <2>1, <2>2 DEF Job
  <2>4. op' \in [Key -> OpState]
    BY <1>1, <2>1, <2>2
  <2>5. TypeOK'
    BY <1>4, <2>1, <2>3, <2>4 DEF Finish, IInv, TypeOK, Job, Pc, AttemptPc
  <2>6. JobOK' /\ AttemptOK'
    BY <1>1, <2>1, <2>3 DEF JobOK, AttemptOK, AttemptPc
  <2>7. ASSUME NEW k \in Key
        PROVE  /\ op'[k] # "absent" => alarm'[k[1]].status # "none"
               /\ wire'[k] \in 0 .. 1
               /\ wire'[k] = 1 => op'[k] \in Attempted
    BY <1>1, <2>1 DEF IInv, OpsOK
  <2>. QED
    BY <2>1, <2>5, <2>6, <2>7 DEF IInv, OpsOK
<1>5. breaker \in BOOLEAN /\ shown \in [Message -> Text] /\ job.text \in Text /\ key[1] \in Message
  BY <1>1, KeyMessage DEF IInv, TypeOK, Job
<1>6. CASE Blocked
  BY <1>4, <1>5, <1>6 DEF Blocked
<1>7. CASE Succeed
  BY <1>4, <1>5, <1>7 DEF Succeed, Attempted
<1>8. CASE Fail \/ RateLimited \/ LoseAnswer
  BY <1>4, <1>5, <1>8 DEF Fail, RateLimited, LoseAnswer, Attempted
<1>. QED
  BY <1>2, <1>3, <1>6, <1>7, <1>8 DEF AttemptAction

(* The clock and the breaker move under a job without touching it. *)
LEMMA EnvironmentPreserves == IInv /\ (ClockTick \/ CommandTripsBreaker) => IInv'
<1>. SUFFICES ASSUME IInv, ClockTick \/ CommandTripsBreaker PROVE IInv'
  OBVIOUS
<1>1. /\ UNCHANGED <<started, alarm, op, observed, seen, pc, key, job, wire, shown, failures>>
      /\ now' \in Nat /\ breaker' \in BOOLEAN
  <2>1. now \in Nat /\ breaker \in BOOLEAN
    BY DEF IInv, TypeOK
  <2>2. CASE ClockTick
    BY <2>1, <2>2 DEF ClockTick, durable, ghosts
  <2>3. CASE CommandTripsBreaker
    BY <2>1, <2>3 DEF CommandTripsBreaker, durable, ghosts
  <2>. QED
    BY <2>2, <2>3
<1>2. JobOK' /\ OpsOK' /\ AttemptOK'
  BY <1>1 DEF IInv, JobOK, OpsOK, AttemptOK
<1>3. TypeOK'
  BY <1>1 DEF IInv, TypeOK
<1>. QED
  BY <1>2, <1>3 DEF IInv

(* The initial state satisfies it. *)
LEMMA InitIInv == Init => IInv
<1>. SUFFICES ASSUME Init PROVE IInv
  OBVIOUS
<1>1. TypeOK
  <2>1. alarm \in [Message -> Alarm] /\ NoText \in Text
    BY NoAlarmOK DEF Init, RowOK, NoText, Text
  <2>2. job \in Job
    BY <2>1 DEF Init, Job, Idle, OpState, Resting, JobKind
  <2>3. /\ {now, started, failures} \subseteq Nat
        /\ op \in [Key -> OpState] /\ wire \in [Key -> Nat]
        /\ shown \in [Message -> Text]
        /\ pc \in Pc /\ key \in Key \cup {NoKey}
        /\ observed = {} /\ seen = {} /\ breaker = FALSE
    BY <2>1 DEF Init, OpState, Pc, Resting
  <2>. QED
    BY <2>1, <2>2, <2>3 DEF TypeOK, Job
<1>2. JobOK /\ AttemptOK
  BY DEF Init, JobOK, AttemptOK, AttemptPc
<1>3. OpsOK
  BY NoAlarmOK DEF Init, OpsOK
<1>. QED
  BY <1>1, <1>2, <1>3 DEF IInv

(* What a step is. *)
LEMMA StepKinds == Next => QuietStep \/ AttemptAction \/ ClockTick \/ CommandTripsBreaker
BY DEF Next, JobStep, AttemptStep, QuietStep, AttemptAction

(* Every step preserves it. *)
LEMMA StepPreserves == IInv /\ [Next]_vars => IInv'
<1>. SUFFICES ASSUME IInv, [Next]_vars PROVE IInv'
  OBVIOUS
<1>1. CASE Next
  BY <1>1, StepKinds, QuietSteps, QuietPreserves, AttemptPreserves, EnvironmentPreserves
<1>2. CASE UNCHANGED vars
  BY <1>2 DEF vars, durable, ghosts, IInv, TypeOK, JobOK, OpsOK, AttemptOK
<1>. QED
  BY <1>1, <1>2

(* The inductive invariant: types, the control of the job, and what the    *)
(* operations table says of the RPCs that went out.                        *)
THEOREM Inductive == Spec => []IInv
BY InitIInv, StepPreserves, PTL DEF Spec

(* Every variable of the tracker keeps its type. *)
THEOREM TypeCorrect == Spec => []TypeOK
<1>1. IInv => TypeOK
  BY DEF IInv
<1>. QED
  BY Inductive, <1>1, PTL

(* "At most one durable RPC attempt for a logical operation key"           *)
(* (attempt_outgoing_once), over every crash, redelivery and forced check. *)
THEOREM AtMostOneAttempt == Spec => []AtMostOnce
<1>1. IInv => AtMostOnce
  BY DEF IInv, OpsOK, AtMostOnce
<1>. QED
  BY Inductive, <1>1, PTL

-----------------------------------------------------------------------------
(* The ledger.                                                             *)

(* A state of an operation is an entry of the ledger. *)
LEMMA EntryType ==
    /\ \A state \in OpState : LedgerEntry(state) \in Ledger!Entry
    /\ \A state \in Open : LedgerEntry(state) = "open"
BY DEF OpState, NotAttempted, Attempted, Open, LedgerEntry, Ledger!Entry

(* A quiet step is a step of every entry of the ledger. *)
LEMMA QuietLedger == IInv /\ Quiet => Ledger!LedgerNext
<1>. SUFFICES ASSUME IInv, Quiet PROVE Ledger!LedgerNext
  OBVIOUS
<1>1. /\ op \in [Key -> OpState] /\ op' \in [Key -> OpState]
      /\ wire' = wire /\ wire \in [Key -> 0 .. 1]
  BY DEF Quiet, Evaluates, OpsWork, Undecided, IInv, TypeOK, OpsOK
<1>2. ASSUME NEW k \in Key
      PROVE  Ledger!Stays(k) \/ Ledger!Skips(k)
  <2>1. CASE op'[k] = op[k]
    BY <1>1, <2>1 DEF Ledger!Stays
  <2>2. CASE op[k] \in Open /\ op'[k] \in Open
    BY <1>1, <2>2, EntryType DEF Ledger!Stays
  <2>3. CASE op[k] \in Open /\ op'[k] = "skipped"
    BY <1>1, <2>3, EntryType DEF Ledger!Skips, LedgerEntry, NotAttempted
  <2>. QED
    BY <2>1, <2>2, <2>3 DEF Quiet, Evaluates, OpsWork, Undecided
<1>. QED
  BY <1>1, <1>2, EntryType DEF Ledger!LedgerNext

(* A step of an attempt is a step of its entry. *)
LEMMA AttemptLedger == IInv /\ AttemptAction => Ledger!LedgerNext
<1>. SUFFICES ASSUME IInv, AttemptAction PROVE Ledger!LedgerNext
  OBVIOUS
<1>1. /\ key \in Key /\ op \in [Key -> OpState]
      /\ wire \in [Key -> Nat] /\ wire \in [Key -> 0 .. 1]
  BY DEF AttemptAction, Claim, Issue, Blocked, Succeed, Fail, RateLimited, LoseAnswer,
         IInv, TypeOK, JobOK, OpsOK, AttemptPc
<1>2. IInv'
  BY AttemptPreserves
<1>3. op' \in [Key -> OpState] /\ wire' \in [Key -> 0 .. 1]
  BY <1>2 DEF IInv, TypeOK, OpsOK
<1>4. ASSUME NEW k \in Key, k # key
      PROVE  Ledger!Stays(k)
  BY <1>1, <1>4 DEF AttemptAction, Claim, ClaimOutgoing, Issue, Blocked, Succeed, Fail,
     RateLimited, LoseAnswer, Finish, FinishOutgoing, durable, ghosts, Ledger!Stays
<1>5. ASSUME NEW result, Finish(result), pc \in {"issue", "rpc"}
      PROVE  /\ op[key] = "attempted_uncertain" /\ op'[key] = result
             /\ wire'[key] = wire[key] /\ wire[key] = IF pc = "rpc" THEN 1 ELSE 0
  BY <1>1, <1>5 DEF Finish, FinishOutgoing, IInv, AttemptOK
<1>6. Claim => Ledger!Claims(key) \/ Ledger!Stays(key)
  BY <1>1 DEF Claim, Claimable, ClaimOutgoing, LedgerEntry, NotAttempted, ghosts,
              Ledger!Claims, Ledger!Stays
<1>7. Issue => Ledger!Sends(key)
  BY <1>1 DEF Issue, durable, IInv, AttemptOK, LedgerEntry, NotAttempted, Ledger!Sends
<1>8. Blocked => Ledger!Blocks(key)
  BY <1>1, <1>5 DEF Blocked, LedgerEntry, NotAttempted, Ledger!Blocks
<1>9. Succeed \/ Fail \/ RateLimited => Ledger!Records(key)
  BY <1>1, <1>5 DEF Succeed, Fail, RateLimited, LedgerEntry, NotAttempted, Ledger!Records
<1>10. LoseAnswer => Ledger!Stays(key)
  BY <1>1, <1>5 DEF LoseAnswer, Ledger!Stays
<1>11. \A k \in Key : \/ Ledger!Stays(k) \/ Ledger!Claims(k) \/ Ledger!Sends(k)
                       \/ Ledger!Records(k) \/ Ledger!Blocks(k) \/ Ledger!Skips(k)
  BY <1>4, <1>6, <1>7, <1>8, <1>9, <1>10 DEF AttemptAction
<1>. QED
  BY <1>1, <1>3, <1>11, EntryType DEF Ledger!LedgerNext

(* The tracker implements the at-most-once ledger: an operation is claimed *)
(* before its RPC, sent at most once, never revised once its outcome is    *)
(* known, and stays claimed for good when an answer or the process is lost *)
(* (claim_outgoing, finish_outgoing).                                      *)
THEOREM LedgerRefined == Spec => ImplementsLedger
<1>1. Init => Ledger!LedgerInit
  BY DEF Init, Ledger!LedgerInit, LedgerEntry
<1>2. IInv /\ [Next]_vars => [Ledger!LedgerNext]_<<[k \in Key |-> LedgerEntry(op[k])], wire>>
  <2>. SUFFICES ASSUME IInv, [Next]_vars
                PROVE  \/ Ledger!LedgerNext
                       \/ UNCHANGED <<[k \in Key |-> LedgerEntry(op[k])], wire>>
    OBVIOUS
  <2>1. CASE QuietStep
    BY <2>1, QuietSteps, QuietLedger
  <2>2. CASE AttemptAction
    BY <2>2, AttemptLedger
  <2>3. CASE ClockTick \/ CommandTripsBreaker \/ UNCHANGED vars
    BY <2>3 DEF ClockTick, CommandTripsBreaker, vars, durable, ghosts
  <2>. QED
    BY <2>1, <2>2, <2>3, StepKinds
<1>. QED
  BY <1>1, <1>2, Inductive, PTL DEF Spec, ImplementsLedger, Ledger!LedgerSpec

-----------------------------------------------------------------------------
(* The end of a session.                                                   *)

(* A completed, expired or failed session is never reopened, and nothing   *)
(* in its row changes: every transaction tests the status it finds, and no *)
(* edit of an ended session is left to be cleared.                         *)
THEOREM TerminalStays == Spec => TerminalIsFinal
<1>. DEFINE Frozen == \A m \in Message : alarm[m].status \in TerminalStatus
                                          => alarm'[m] = alarm[m]
<1>1. IInv /\ [Next]_vars => [Frozen]_vars
  <2>. SUFFICES ASSUME IInv, [Next]_vars PROVE Frozen
    OBVIOUS
  <2>1. CASE QuietStep
    BY <2>1, QuietSteps DEF Quiet, Evaluates, RowsWork
  <2>2. CASE AttemptAction
    BY <2>2 DEF AttemptAction, Claim, Issue, Blocked, Succeed, Fail, RateLimited,
                LoseAnswer, Finish, durable
  <2>3. CASE ClockTick \/ CommandTripsBreaker \/ UNCHANGED vars
    BY <2>3 DEF ClockTick, CommandTripsBreaker, vars, durable
  <2>. QED
    BY <2>1, <2>2, <2>3, StepKinds
<1>. QED
  BY <1>1, Inductive, PTL DEF Spec, TerminalIsFinal
=============================================================================
