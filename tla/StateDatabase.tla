--------------------------- MODULE StateDatabase ---------------------------
(***************************************************************************)
(* The SQLite store of a ShelterCheck process (database.py, models.py).    *)
(*                                                                         *)
(* This module has no state of its own.  It says what one row of each      *)
(* table is and what each committed transaction makes of it; AlertTracker  *)
(* owns the tables and commits one transaction per step.                   *)
(*                                                                         *)
(*  - alarms, released_members, reaction_state and initial_missing are one *)
(*    record per alarm.  A message is identified by its (group, author,    *)
(*    timestamp), which the alarms table declares UNIQUE, so the message   *)
(*    also names the alarm.                                                *)
(*  - outgoing_operations maps an operation key to its state.              *)
(*  - observed_messages and observed_reactions are sets of rows.           *)
(*                                                                         *)
(* A time is a Nat in units of the instance; a report's wording is reduced *)
(* to what can make two reports of one alarm differ.                       *)
(***************************************************************************)
EXTENDS Integers, FiniteSets

CONSTANTS
    Message,            \* messages of the monitor group (positive numbers)
    SentAt,             \* their Signal timestamps
    Member,             \* roster ACIs that can be on the released list
    MaxRev,             \* bound on reaction_revision, see ApplyReaction
    IntermediateAfter,  \* intermediate_check_seconds
    FinalAfter,         \* wait_seconds
    TTL,                \* active_check_ttl_seconds
    Debounce,           \* edit_debounce_milliseconds
    Retention           \* OBSERVED_RETENTION_MS

ASSUME RowAssumption ==
    /\ Message \subseteq Nat \ {0}
    /\ SentAt \in [Message -> Nat]
    /\ IsFiniteSet(Member)
    /\ {MaxRev, IntermediateAfter, FinalAfter, TTL, Debounce, Retention} \subseteq Nat

None == -1      \* SQL NULL in a timestamp column

ActiveStatus == {"pending", "reported"}
TerminalStatus == {"completed", "expired", "error"}
Status == {"none"} \cup ActiveStatus \cup TerminalStatus

OneShotKind == {"host_reaction", "intermediate", "final", "manual_report",
                "completion", "completion_edit"}

(* alarm:<id>:<kind>; only a report edit carries the revision it shows. *)
Key == (Message \X OneShotKind \X {0})
       \cup (Message \X {"report_edit"} \X (0 .. MaxRev))

-----------------------------------------------------------------------------
(* Alarm rows.                                                             *)

Text == [initial: SUBSET Member, green: SUBSET Member, missing: Nat]
NoText == [initial |-> {}, green |-> {}, missing |-> 0]

Alarm == [status: Status, source: {"standard", "custom"}, trk: Nat,
          released: SUBSET Member, responded: SUBSET Member,
          last: [Member -> Nat \cup {None}], initial: SUBSET Member,
          snapped: BOOLEAN, hasReport: BOOLEAN, lastText: Text,
          editDue: Nat \cup {None}, rev: 0 .. MaxRev]

NoAlarm == [status |-> "none", source |-> "standard", trk |-> 0,
            released |-> {}, responded |-> {},
            last |-> [p \in Member |-> None], initial |-> {},
            snapped |-> FALSE, hasReport |-> FALSE, lastText |-> NoText,
            editDue |-> None, rev |-> 0]

IsActive(a) == a.status \in ActiveStatus

Missing(a) == a.released \ a.responded

IntermediateAt(a) == a.trk + IntermediateAfter
FinalAt(a) == a.trk + FinalAfter
ExpiresAt(a) == a.trk + TTL

(* What distinguishes two reports of one alarm: one line per initially     *)
(* missing member, green or red, and the number still missing.             *)
ReportText(a) == [initial |-> a.initial,
                  green   |-> a.initial \cap a.responded,
                  missing |-> Cardinality(Missing(a))]

InsertedAlarm(status, source, trk, released) ==
    [NoAlarm EXCEPT !.status = status, !.source = source, !.trk = trk,
                    !.released = released]

(* Only the newest accepted event of a released member counts.  Two events *)
(* with one timestamp, reactor and target are the same event here: which   *)
(* of two emoji sent in one millisecond wins is not modelled.              *)
Accepts(a, e) == /\ IsActive(a)
                 /\ e.reactor \in a.released
                 /\ e.ts > a.last[e.reactor]

ChangesResponse(a, e) ==
    Accepts(a, e) /\ ((e.reactor \in a.responded) <=> e.removed)

(* Mutant: a removal does not schedule an edit of the report. *)
ApplyReaction_RemovalNotShown(a, e, t) ==
    IF ~Accepts(a, e) THEN a
    ELSE [a EXCEPT
            !.last[e.reactor] = e.ts,
            !.responded = IF e.removed THEN @ \ {e.reactor}
                                       ELSE @ \cup {e.reactor},
            !.rev = IF ChangesResponse(a, e) THEN @ + 1 ELSE @,
            !.editDue = IF /\ ChangesResponse(a, e) /\ ~e.removed
                           /\ a.status = "reported" /\ a.hasReport
                        THEN t + Debounce ELSE @]

ApplyReaction(a, e, t) ==
    IF ~Accepts(a, e) THEN a
    ELSE [a EXCEPT
            !.last[e.reactor] = e.ts,
            !.responded = IF e.removed THEN @ \ {e.reactor}
                                       ELSE @ \cup {e.reactor},
            !.rev = IF ChangesResponse(a, e) THEN @ + 1 ELSE @,
            !.editDue = IF /\ ChangesResponse(a, e)
                           /\ a.status = "reported"
                           /\ a.hasReport
                        THEN t + Debounce ELSE @]

SnapshotFinalMissing(a) ==
    IF a.status = "pending" /\ ~a.snapped
    THEN [a EXCEPT !.initial = Missing(a), !.snapped = TRUE]
    ELSE a

(* Mutant: the report is taken to be editable whatever became of its send. *)
MarkReported_AlwaysEditable(a, result, text) ==
    IF a.status = "pending"
    THEN [a EXCEPT !.status = "reported", !.lastText = text,
                   !.hasReport = TRUE, !.editDue = None]
    ELSE a

(* report_message_timestamp_ms is the RPC's result, so it is known exactly *)
(* when the send was acknowledged.                                         *)
MarkReported(a, result, text) ==
    IF a.status = "pending"
    THEN [a EXCEPT !.status = "reported", !.lastText = text,
                   !.hasReport = (result = "attempted_success"),
                   !.editDue = None]
    ELSE a

MarkCompleted(a) ==
    IF IsActive(a) THEN [a EXCEPT !.status = "completed", !.editDue = None]
    ELSE a

ClearEditDue(a) == [a EXCEPT !.editDue = None]

RecordSuccessfulEdit(a, text) ==
    IF a.status = "reported"
    THEN [a EXCEPT !.lastText = text, !.editDue = None]
    ELSE a

-----------------------------------------------------------------------------
(* The alarms table.  "from" is started_at_or_after_ms: the start of the   *)
(* process for automatic work, 0 for a manual check.                       *)

(* Mutant: the status is not tested. *)
DueToExpire_AnyStatus(alarms, t, from) ==
    {m \in Message : /\ alarms[m].status # "none"
                     /\ ExpiresAt(alarms[m]) <= t
                     /\ alarms[m].trk >= from}

DueToExpire(alarms, t, from) ==
    {m \in Message : /\ IsActive(alarms[m])
                     /\ ExpiresAt(alarms[m]) <= t
                     /\ alarms[m].trk >= from}

ExpireAlarms(alarms, t, from) ==
    [m \in Message |->
        IF m \in DueToExpire(alarms, t, from)
        THEN [alarms[m] EXCEPT !.status = "expired", !.editDue = None]
        ELSE alarms[m]]

(* SELECT ... ORDER BY timestamp, id: which of two alarms with the same    *)
(* timestamp was inserted first is left open.                              *)
Earliest(S, at) == {m \in S : \A n \in S : at[m] <= at[n]}

DueToComplete(alarms, from) ==
    LET due == {m \in Message : /\ IsActive(alarms[m])
                                /\ alarms[m].trk >= from
                                /\ Missing(alarms[m]) = {}}
    IN Earliest(due, [m \in due |-> alarms[m].trk])

DueIntermediate(alarms, ops, t, from) ==
    LET due == {m \in Message : /\ alarms[m].status = "pending"
                                /\ IntermediateAt(alarms[m]) <= t
                                /\ ops[<<m, "intermediate", 0>>] = "not_due"
                                /\ alarms[m].trk >= from}
    IN Earliest(due, [m \in due |-> alarms[m].trk])

DueFinal(alarms, ops, t, from) ==
    LET due == {m \in Message : /\ alarms[m].status = "pending"
                                /\ FinalAt(alarms[m]) <= t
                                /\ ops[<<m, "final", 0>>] = "not_due"
                                /\ alarms[m].trk >= from}
    IN Earliest(due, [m \in due |-> alarms[m].trk])

DueEdits(alarms, t, from) ==
    LET due == {m \in Message : /\ alarms[m].status = "reported"
                                /\ alarms[m].hasReport
                                /\ alarms[m].editDue # None
                                /\ alarms[m].editDue <= t
                                /\ alarms[m].trk >= from}
    IN Earliest(due, [m \in due |-> alarms[m].editDue])

StandardAlarms(alarms) ==
    {m \in Message : alarms[m].status # "none" /\ alarms[m].source = "standard"}

-----------------------------------------------------------------------------
(* The outgoing_operations table.                                          *)

INSTANCE OutgoingOperations

(* create_alarm inserts the two scheduled reports with the alarm. *)
InsertOperations(ops, m, status) ==
    [ops EXCEPT
        ![<<m, "intermediate", 0>>] =
            IF status \in ActiveStatus THEN "not_due" ELSE "skipped",
        ![<<m, "final", 0>>] =
            IF status \in ActiveStatus THEN "not_due" ELSE "skipped"]

-----------------------------------------------------------------------------
(* The candidate history.                                                  *)

Seen == [msg: Message, reactor: Member, removed: BOOLEAN, ts: Nat]

(* A reaction that names no author matches every message with its target   *)
(* timestamp.                                                              *)
Targeted(e, S) == {m \in S : SentAt[m] = SentAt[e.target]
                             /\ (e.named => m = e.target)}

ReactionTargets(alarms, e, from) ==
    Targeted(e, {m \in Message : IsActive(alarms[m]) /\ alarms[m].trk >= from})

(* ORDER BY sent_timestamp_ms DESC, sender_aci DESC: the numbering of the  *)
(* messages stands for the order of the authors.                           *)
LatestObserved(S) ==
    {m \in S : \A n \in S : \/ SentAt[n] < SentAt[m]
                            \/ SentAt[n] = SentAt[m] /\ n <= m}

(* The history of an active alarm is kept; deleting a message cascades to  *)
(* its reactions.                                                          *)
RetainedMessages(obs, alarms, t) ==
    {m \in obs : SentAt[m] >= t - Retention \/ IsActive(alarms[m])}

RetainedReactions(rows, obs) == {s \in rows : s.msg \in obs}
=============================================================================
