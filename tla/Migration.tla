------------------------------ MODULE Migration ------------------------------
(***************************************************************************)
(* Opening the database (StateDatabase.__init__ and _initialize): the      *)
(* schema is brought to the current version and the rows of an older       *)
(* version are represented in it, on every start of the process.           *)
(*                                                                         *)
(* A step is what commits at once.  Python's sqlite3 opens a transaction   *)
(* before INSERT, UPDATE and DELETE only, so each CREATE and DROP commits  *)
(* alone until the INSERT ... SELECT of the rebuild.  The process may die  *)
(* after any step and start again.  Once open, the running process writes  *)
(* the tables as the tracker does, so that a later start meets its rows.   *)
(***************************************************************************)
EXTENDS Integers, FiniteSets

CONSTANTS
    Id,         \* alarms.id
    Member,
    Legacy,     \* databases the first start may find
    Time,       \* Signal timestamps of reactions
    DefaultTTL  \* _DEFAULT_TTL_MS

(* The columns and the CHECK of alarms that older versions may lack.       *)
Column == {"tracking_started_at", "intermediate_deadline", "expires",
           "source", "initial_missing_snapshotted", "reaction_revision",
           "status_expired"}

(* What the script creates, in its order; "indexes" stands for all of them. *)
Script == <<"released_members", "reaction_state", "initial_missing",
            "outgoing_operations", "observed_messages", "observed_reactions",
            "indexes">>
Object == {"alarms", "alarms_new"} \cup {Script[n] : n \in DOMAIN Script}

Key == Id \X {"intermediate", "final"}
INSTANCE OutgoingOperations

(* report is initial_report_state and acked says that                      *)
(* report_message_timestamp_ms is not null.  A column the table lacks has  *)
(* no value; Unset stands for that.                                        *)
Unset == -1
Row == [trigger: Nat, deadline: Nat, tracking: Nat \cup {Unset},
        intermediate: Nat \cup {Unset}, expires: Nat \cup {Unset},
        source: {"standard", "custom", "unset"}, status: {"pending", "reported", "completed"},
        report: {-1, 0, 1}, acked: BOOLEAN, snapped: BOOLEAN, rev: Nat \cup {Unset}]

NoReaction == [responded |-> FALSE, last |-> Unset]
Reaction == [responded: BOOLEAN, last: Time \cup {Unset}]

IsDatabase(d) ==
    /\ d.objects \subseteq Object /\ d.columns \subseteq Column
    /\ DOMAIN d.rows \subseteq Id /\ d.rows \in [DOMAIN d.rows -> Row]
    /\ d.released \in [Id -> SUBSET Member]
    /\ d.reaction \in [Id -> [Member -> Reaction]]
    /\ d.initial \in [Id -> SUBSET Member]
    /\ d.op \in [Key -> OpState]

ASSUME MigrationAssumption ==
    /\ DefaultTTL \in Nat /\ Time \subseteq Nat
    /\ \A d \in Legacy :
          /\ IsDatabase(d)
          /\ "alarms" \notin d.objects => DOMAIN d.rows = {}
          /\ "alarms_new" \in d.objects => "alarms" \in d.objects /\ d.columns # Column
          /\ \A i \in DOMAIN d.rows : d.rows[i].report # 0
                                      => d.op[<<i, "final">>] \notin NotAttempted

VARIABLES
    objects,    \* tables and indexes of the schema
    columns,    \* what alarms has of Column
    rows,       \* alarms
    scratch,    \* rows of alarms_new
    released, reaction, initial,    \* the tables that reference alarms
    op,         \* outgoing_operations
    fk,         \* PRAGMA foreign_keys of the connection
    pc,
    origin,     \* ghost: the database the first start found
    migrated    \* ghost: a start has been completed

members == <<released, reaction, initial>>
data == <<columns, rows, members, op>>
vars == <<objects, data, scratch, fk, pc, origin, migrated>>

NoRows == [i \in {} |-> Unset]

Init ==
    /\ origin \in Legacy
    /\ objects = origin.objects /\ columns = origin.columns
    /\ rows = origin.rows /\ scratch = NoRows
    /\ released = origin.released /\ reaction = origin.reaction
    /\ initial = origin.initial /\ op = origin.op
    /\ fk = FALSE /\ pc = "off"
    /\ migrated = FALSE

Open ==
    /\ pc = "off"
    /\ pc' = "alarms"
    /\ fk' = TRUE
    /\ UNCHANGED <<objects, data, scratch, origin, migrated>>

-----------------------------------------------------------------------------
(* _migrate_alarm_table                                                    *)

CreateAlarms ==
    /\ pc = "alarms" /\ "alarms" \notin objects
    /\ objects' = objects \cup {"alarms"}
    /\ columns' = Column /\ rows' = NoRows
    /\ pc' = "script"
    /\ UNCHANGED <<members, op, scratch, fk, origin, migrated>>

KeepAlarms ==
    /\ pc = "alarms" /\ "alarms" \in objects /\ columns = Column
    /\ pc' = "script"
    /\ UNCHANGED <<objects, data, scratch, fk, origin, migrated>>

(* Mutant: foreign keys stay on while the table is replaced. *)
SuspendKeys_Keeps ==
    /\ pc = "alarms" /\ "alarms" \in objects /\ columns # Column
    /\ fk' = fk
    /\ pc' = "discard"
    /\ UNCHANGED <<objects, data, scratch, origin, migrated>>

SuspendKeys ==
    /\ pc = "alarms" /\ "alarms" \in objects /\ columns # Column
    /\ fk' = FALSE
    /\ pc' = "discard"
    /\ UNCHANGED <<objects, data, scratch, origin, migrated>>

(* Mutant: what an interrupted rebuild left behind is not dropped. *)
Discard_Nothing ==
    /\ pc = "discard"
    /\ pc' = "create"
    /\ UNCHANGED <<objects, data, scratch, fk, origin, migrated>>

Discard ==
    /\ pc = "discard"
    /\ objects' = objects \ {"alarms_new"} /\ scratch' = NoRows
    /\ pc' = "create"
    /\ UNCHANGED <<data, fk, origin, migrated>>

(* CREATE TABLE fails, and with it the process, when the table exists; the *)
(* "finally" has put the foreign keys back on by then. *)
CreateNew ==
    /\ pc = "create"
    /\ IF "alarms_new" \in objects THEN pc' = "off" /\ fk' = TRUE
       ELSE pc' = "swap" /\ UNCHANGED fk
    /\ objects' = objects \cup {"alarms_new"}
    /\ UNCHANGED <<data, scratch, origin, migrated>>

Rebuilt(r) ==
    LET value(column, old, fallback) == IF column \in columns THEN old ELSE fallback
    IN [r EXCEPT
          !.tracking = value("tracking_started_at", @, r.trigger),
          !.intermediate = value("intermediate_deadline", @, r.deadline),
          !.expires = value("expires", @, r.trigger + DefaultTTL),
          !.source = value("source", @, "standard"),
          !.snapped = value("initial_missing_snapshotted", @, FALSE),
          !.rev = value("reaction_revision", @, 0)]

(* Dropping a referenced table deletes its rows, and the rows that         *)
(* reference them, unless foreign keys are off.                            *)
Cascade ==
    IF fk
    THEN /\ released' = [i \in Id |-> {}] /\ initial' = [i \in Id |-> {}]
         /\ reaction' = [i \in Id |-> [p \in Member |-> NoReaction]]
         /\ op' = [k \in Key |-> "absent"]
    ELSE UNCHANGED <<members, op>>

(* Mutant: the old table is dropped in a transaction of its own. *)
Swap_TwoCommits ==
    /\ pc = "swap"
    /\ IF "alarms" \in objects
       THEN /\ scratch' = [i \in DOMAIN rows |-> Rebuilt(rows[i])]
            /\ rows' = NoRows /\ UNCHANGED <<pc, columns>>
            /\ objects' = objects \ {"alarms", "indexes"}
       ELSE /\ rows' = scratch /\ scratch' = NoRows /\ columns' = Column
            /\ objects' = (objects \ {"alarms_new"}) \cup {"alarms"}
            /\ pc' = "restore"
    /\ UNCHANGED <<members, op, fk, origin, migrated>>

(* INSERT ... SELECT, DROP and RENAME are one transaction. *)
Swap ==
    /\ pc = "swap"
    /\ rows' = [i \in DOMAIN rows |-> Rebuilt(rows[i])]
    /\ columns' = Column
    /\ objects' = objects \ {"alarms_new", "indexes"}
    /\ Cascade
    /\ pc' = "restore"
    /\ UNCHANGED <<scratch, fk, origin, migrated>>

RestoreKeys ==
    /\ pc = "restore"
    /\ fk' = TRUE
    /\ pc' = "script"
    /\ UNCHANGED <<objects, data, scratch, origin, migrated>>

-----------------------------------------------------------------------------
(* The rest of _initialize.                                                *)

(* CREATE ... IF NOT EXISTS *)
CreateNext ==
    /\ pc = "script"
    /\ \E n \in DOMAIN Script :
          /\ Script[n] \notin objects
          /\ \A m \in 1 .. n - 1 : Script[m] \in objects
          /\ objects' = objects \cup {Script[n]}
    /\ UNCHANGED <<data, scratch, fk, pc, origin, migrated>>

ScriptDone ==
    /\ pc = "script"
    /\ \A n \in DOMAIN Script : Script[n] \in objects
    /\ pc' = "snapshot"
    /\ UNCHANGED <<objects, data, scratch, fk, origin, migrated>>

InTime(i, p) == reaction[i][p].responded /\ reaction[i][p].last <= rows[i].deadline

Unsnapped == {i \in DOMAIN rows : rows[i].report # 0 /\ ~rows[i].snapped}

Snapshotted(S) ==
    [i \in DOMAIN rows |-> [rows[i] EXCEPT !.snapped = @ \/ i \in S]]

(* Mutant: the sessions are marked in a transaction before the one that    *)
(* stores their snapshots.                                                 *)
MigrateInitialMissing_MarksFirst ==
    /\ pc = "snapshot"
    /\ rows' = Snapshotted(Unsnapped)
    /\ pc' = IF Unsnapped = {} THEN "operations" ELSE pc
    /\ UNCHANGED <<objects, columns, members, op, scratch, fk, origin, migrated>>

(* _migrate_initial_missing: who was missing at the deadline of a report   *)
(* that an older version sent, or may have sent.                           *)
MigrateInitialMissing ==
    /\ pc = "snapshot"
    /\ initial' = [i \in Id |->
          initial[i] \cup {p \in released[i] : i \in Unsnapped /\ ~InTime(i, p)}]
    /\ rows' = Snapshotted(Unsnapped)
    /\ pc' = "operations"
    /\ UNCHANGED <<objects, columns, released, reaction, op, scratch, fk, origin, migrated>>

(* Mutant: a report whose timestamp is unknown counts as not sent. *)
LegacyState_NullIsUnsent(r) == IF r.acked THEN "attempted_success" ELSE "not_due"

LegacyState(r) ==
    CASE r.report = 0 -> "not_due"
      [] r.report = 1 /\ r.acked -> "attempted_success"
      [] OTHER -> "attempted_uncertain"

(* Mutant: INSERT OR REPLACE. *)
Inserted_Replaces(k) ==
    IF k[1] \notin DOMAIN rows THEN op[k]
    ELSE IF k[2] = "final" THEN LegacyState(rows[k[1]]) ELSE "skipped"

(* INSERT OR IGNORE *)
Inserted(k) ==
    IF k[1] \notin DOMAIN rows \/ op[k] # "absent" THEN op[k]
    ELSE IF k[2] = "final" THEN LegacyState(rows[k[1]]) ELSE "skipped"

MigrateOperations ==
    /\ pc = "operations"
    /\ op' = [k \in Key |-> Inserted(k)]
    /\ pc' = "running" /\ migrated' = TRUE
    /\ UNCHANGED <<objects, columns, rows, members, scratch, fk, origin>>

StartStep == \/ Open \/ CreateAlarms \/ KeepAlarms \/ SuspendKeys \/ Discard
             \/ CreateNew \/ Swap \/ RestoreKeys \/ CreateNext \/ ScriptDone
             \/ MigrateInitialMissing \/ MigrateOperations

-----------------------------------------------------------------------------
(* What the running process writes: one transaction of the tracker each.   *)

running == <<objects, columns, scratch, fk, pc, origin, migrated>>

CreateAlarm(i) ==
    /\ i \notin DOMAIN rows
    /\ \E S \in SUBSET Member : released' = [released EXCEPT ![i] = S]
    /\ rows' = [j \in DOMAIN rows \cup {i} |->
                  IF j # i THEN rows[j]
                  ELSE [trigger |-> 0, deadline |-> 1, tracking |-> 0,
                        intermediate |-> 1, expires |-> DefaultTTL,
                        source |-> "standard", status |-> "pending", report |-> 0,
                        acked |-> FALSE, snapped |-> FALSE, rev |-> 0]]
    /\ op' = [op EXCEPT ![<<i, "intermediate">>] = "not_due",
                        ![<<i, "final">>] = "not_due"]
    /\ UNCHANGED <<reaction, initial>>

ApplyReaction(i) ==
    /\ rows[i].status \in {"pending", "reported"}
    /\ \E p \in released[i], ts \in Time, responded \in BOOLEAN :
          /\ ts > reaction[i][p].last
          /\ reaction' = [reaction EXCEPT ![i][p] = [responded |-> responded, last |-> ts]]
    /\ UNCHANGED <<rows, released, initial, op>>

SnapshotMissing(i) ==
    /\ rows[i].status = "pending" /\ ~rows[i].snapped
    /\ initial' = [initial EXCEPT ![i] =
                     {p \in released[i] : ~reaction[i][p].responded}]
    /\ rows' = [rows EXCEPT ![i].snapped = TRUE]
    /\ UNCHANGED <<released, reaction, op>>

MarkDue(i) ==
    /\ rows[i].status = "pending" /\ rows[i].snapped
    /\ op' = MarkOutgoingDue(op, <<i, "final">>)
    /\ UNCHANGED <<rows, members>>

Claim(i) ==
    /\ Claimable(op, <<i, "final">>)
    /\ op' = ClaimOutgoing(op, <<i, "final">>)
    /\ UNCHANGED <<rows, members>>

Finish(i) ==
    /\ \E state \in {"attempted_success", "attempted_failed", "skipped"} :
          op' = FinishOutgoing(op, <<i, "final">>, state)
    /\ UNCHANGED <<rows, members>>

MarkReported(i) ==
    /\ rows[i].status = "pending" /\ rows[i].snapped
    /\ op[<<i, "final">>] \notin NotAttempted
    /\ rows' = [rows EXCEPT
          ![i].status = "reported",
          ![i].acked = (op[<<i, "final">>] = "attempted_success"),
          ![i].report = IF op[<<i, "final">>] = "attempted_uncertain" THEN -1 ELSE 1]
    /\ UNCHANGED <<members, op>>

AppStep ==
    /\ pc = "running"
    /\ \/ \E i \in Id : CreateAlarm(i)
       \/ \E i \in DOMAIN rows : \/ ApplyReaction(i) \/ SnapshotMissing(i)
                                 \/ MarkDue(i) \/ Claim(i) \/ Finish(i)
                                 \/ MarkReported(i)
    /\ UNCHANGED running

(* The process ends, by a crash or an exit; an open transaction is rolled  *)
(* back, which leaves the state as it was.                                 *)
Stop ==
    /\ pc # "off"
    /\ pc' = "off" /\ fk' = FALSE
    /\ UNCHANGED <<objects, data, scratch, origin, migrated>>

Next == StartStep \/ AppStep \/ Stop

Spec == Init /\ [][Next]_vars
FairSpec == Spec /\ WF_vars(StartStep)

-----------------------------------------------------------------------------
(* Properties.                                                             *)

TypeOK ==
    /\ IsDatabase([objects |-> objects, columns |-> columns, rows |-> rows,
                    released |-> released, reaction |-> reaction,
                    initial |-> initial, op |-> op])
    /\ DOMAIN scratch \subseteq Id
    /\ fk \in BOOLEAN /\ migrated \in BOOLEAN
    /\ pc \in {"off", "alarms", "discard", "create", "swap", "restore", "script",
               "snapshot", "operations", "running"}
    /\ origin \in Legacy

(* No committed state of the first start, however often it is cut off and  *)
(* repeated, lacks a session of the older version or a row about it: the   *)
(* members released for it and their responses.                            *)
NothingIsLost ==
    ~migrated =>
        /\ DOMAIN rows = DOMAIN origin.rows
        /\ released = origin.released
        /\ reaction = origin.reaction

(* "Represent old report claims without making any old write retryable"    *)
(* (_migrate_legacy_outgoing_operations): a report that an older version   *)
(* claimed is never due again, neither before nor after the migration.     *)
ClaimedNeverRetryable ==
    \A i \in DOMAIN origin.rows :
        origin.rows[i].report # 0 => op[<<i, "final">>] \notin NotAttempted

(* The database a completed first start leaves: what one uninterrupted     *)
(* migration makes of the origin, stated row by row.                       *)
Upgrades(i) ==
    LET was == origin.rows[i]
        row == rows'[i]
        had(column) == column \in origin.columns
        snapped == had("initial_missing_snapshotted") /\ was.snapped
        missed == {p \in origin.released[i] :
                     ~ /\ origin.reaction[i][p].responded
                       /\ origin.reaction[i][p].last <= was.deadline}
    IN /\ row.tracking = IF had("tracking_started_at") THEN was.tracking ELSE was.trigger
       /\ row.expires = IF had("expires") THEN was.expires ELSE was.trigger + DefaultTTL
       /\ row.status = was.status /\ row.report = was.report
       /\ row.snapped = (was.report # 0 \/ snapped)
       /\ initial'[i] = origin.initial[i] \cup (IF was.report # 0 /\ ~snapped THEN missed ELSE {})
       /\ op'[<<i, "intermediate">>] # "absent"
       /\ op'[<<i, "final">>] = IF origin.op[<<i, "final">>] # "absent"
                                THEN origin.op[<<i, "final">>]
                                ELSE LegacyState(was)

(* Wherever the first start was cut off, and however often, it ends in the *)
(* database that an uninterrupted one would have left.                     *)
FinishedAsUninterrupted ==
    [][~migrated /\ migrated' =>
         /\ objects' = Object \ {"alarms_new"} /\ columns' = Column /\ fk'
         /\ \A i \in DOMAIN origin.rows : Upgrades(i)]_vars

(* The migrations run on every start: on a database of the current version *)
(* they change no row, so that a crash in mid-attempt is not undone.       *)
RestartChangesNothing ==
    [][migrated /\ pc # "running" => UNCHANGED <<objects, data>>]_vars

(* If the process is no longer stopped, it starts: nothing that a start    *)
(* leaves behind when it is cut off makes the next ones fail.              *)
StartCompletes == <>[][~Stop]_vars => <>[](pc = "running")
=============================================================================
