--------------------------- MODULE MigrationProofs ---------------------------
(***************************************************************************)
(* Proofs about Migration: from whatever older database, and wherever the  *)
(* starts of the process are cut off, no session is lost, no claimed       *)
(* report becomes due again, the first completed start leaves what an      *)
(* uninterrupted one would have left, and a later one changes nothing.     *)
(***************************************************************************)
EXTENDS Migration, TLAPS

Final(i) == <<i, "final">>
Intermediate(i) == <<i, "intermediate">>

(* Where a start is, what the schema looks like.                           *)
Rebuilding == {"discard", "create", "swap"}
Rebuild == Rebuilding \cup {"restore"}
Current == {"restore", "script", "snapshot", "operations", "running"}
Schema == Object \ {"alarms_new"}

Phase ==
    /\ pc \in Rebuild => ~fk
    /\ pc \notin Rebuild \cup {"off"} => fk
    /\ "alarms_new" \in objects => "alarms" \in objects /\ columns # Column
    /\ pc \in Rebuilding => "alarms" \in objects /\ columns # Column
    /\ pc \in Current => "alarms" \in objects /\ columns = Column
    /\ pc \in {"snapshot", "operations", "running"} => objects = Schema
    /\ pc = "operations" => Unsnapped = {}
    /\ pc = "running" => migrated

(* A row on the way from the older version to this one: its snapshot is    *)
(* that of the origin, or the one the migration has taken.                 *)
HadSnapshot(i) ==
    "initial_missing_snapshotted" \in origin.columns /\ origin.rows[i].snapped

Missed(i) ==
    {p \in origin.released[i] : ~ /\ origin.reaction[i][p].responded
                                  /\ origin.reaction[i][p].last <= origin.rows[i].deadline}

SnapshotKept(i) ==
    (rows[i].snapped <=> HadSnapshot(i)) /\ initial[i] = origin.initial[i]

SnapshotTaken(i) ==
    /\ origin.rows[i].report # 0 /\ ~HadSnapshot(i) /\ rows[i].snapped
    /\ initial[i] = origin.initial[i] \cup Missed(i)

RowFollows(i) ==
    LET was == origin.rows[i]
    IN /\ rows[i].tracking = IF "tracking_started_at" \in origin.columns THEN was.tracking
                             ELSE was.trigger
       /\ rows[i].expires = IF "expires" \in origin.columns THEN was.expires
                            ELSE was.trigger + DefaultTTL
       /\ rows[i].deadline = was.deadline
       /\ rows[i].status = was.status
       /\ rows[i].report = was.report /\ rows[i].acked = was.acked

(* Until the first start is completed, the database is that of the origin, *)
(* but for what the rebuild and the snapshots have done to it.             *)
Upgrading ==
    /\ DOMAIN rows = DOMAIN origin.rows
    /\ "alarms" \notin objects => DOMAIN rows = {}
    /\ released = origin.released /\ reaction = origin.reaction /\ op = origin.op
    /\ columns # Column => /\ columns = origin.columns /\ rows = origin.rows
                           /\ initial = origin.initial
    /\ columns = Column => \A i \in DOMAIN rows :
                              RowFollows(i) /\ (SnapshotKept(i) \/ SnapshotTaken(i))

(* From then on it is of the current version, and nothing is left for a    *)
(* later start to do.                                                      *)
Upgraded ==
    /\ objects = Schema /\ columns = Column
    /\ DOMAIN origin.rows \subseteq DOMAIN rows
    /\ \A i \in DOMAIN rows : /\ rows[i].report # 0 => rows[i].snapped
                              /\ op[Intermediate(i)] # "absent"
                              /\ op[Final(i)] # "absent"

IInv ==
    /\ TypeOK /\ Phase
    /\ ~migrated => Upgrading
    /\ migrated => Upgraded
    /\ ClaimedNeverRetryable

-----------------------------------------------------------------------------
(* The types, without the record.                                          *)
DataTyped ==
    /\ columns \subseteq Column
    /\ DOMAIN rows \subseteq Id /\ rows \in [DOMAIN rows -> Row]
    /\ released \in [Id -> SUBSET Member]
    /\ reaction \in [Id -> [Member -> Reaction]]
    /\ initial \in [Id -> SUBSET Member]
    /\ op \in [Key -> OpState]

Place == {"off", "alarms", "discard", "create", "swap", "restore", "script",
          "snapshot", "operations", "running"}

ControlTyped ==
    /\ objects \subseteq Object /\ DOMAIN scratch \subseteq Id
    /\ fk \in BOOLEAN /\ migrated \in BOOLEAN /\ pc \in Place /\ origin \in Legacy

LEMMA Types ==
    /\ TypeOK <=> DataTyped /\ ControlTyped
    /\ TypeOK' <=> DataTyped' /\ ControlTyped'
BY DEF TypeOK, IsDatabase, DataTyped, ControlTyped, Place

LEMMA Origin ==
    ASSUME origin \in Legacy
    PROVE  /\ origin.objects \subseteq Object /\ origin.columns \subseteq Column
           /\ DOMAIN origin.rows \subseteq Id /\ origin.rows \in [DOMAIN origin.rows -> Row]
           /\ origin.released \in [Id -> SUBSET Member]
           /\ origin.reaction \in [Id -> [Member -> Reaction]]
           /\ origin.initial \in [Id -> SUBSET Member]
           /\ origin.op \in [Key -> OpState]
           /\ "alarms" \notin origin.objects => DOMAIN origin.rows = {}
           /\ "alarms_new" \in origin.objects
                 => "alarms" \in origin.objects /\ origin.columns # Column
           /\ \A i \in DOMAIN origin.rows :
                 origin.rows[i].report # 0 => origin.op[Final(i)] \notin NotAttempted
BY MigrationAssumption DEF MigrationAssumption, IsDatabase, Final

LEMMA Keys ==
    ASSUME NEW i \in Id
    PROVE  /\ Final(i) \in Key /\ Intermediate(i) \in Key
           /\ \A j : Final(i) # Intermediate(j)
           /\ \A j : Final(i) = Final(j) \/ Intermediate(i) = Intermediate(j) => i = j
BY DEF Key, Final, Intermediate

LEMMA RowFields ==
    ASSUME NEW r \in Row
    PROVE  /\ r.trigger \in Nat /\ r.deadline \in Nat
           /\ r.tracking \in Nat \cup {Unset} /\ r.intermediate \in Nat \cup {Unset}
           /\ r.expires \in Nat \cup {Unset} /\ r.source \in {"standard", "custom", "unset"}
           /\ r.status \in {"pending", "reported", "completed"}
           /\ r.report \in {-1, 0, 1} /\ r.acked \in BOOLEAN /\ r.snapped \in BOOLEAN
           /\ r.rev \in Nat \cup {Unset}
BY DEF Row

LEMMA ScriptNames ==
    \A n \in DOMAIN Script : Script[n] \in Schema /\ Script[n] # "alarms"
<1>1. \A n \in DOMAIN Script : Script[n] # "alarms" /\ Script[n] # "alarms_new"
  BY DEF Script
<1>. QED
  BY <1>1 DEF Schema, Object

LEMMA WholeSchema ==
    ASSUME objects \subseteq Object, "alarms" \in objects, "alarms_new" \notin objects,
           \A n \in DOMAIN Script : Script[n] \in objects
    PROVE  objects = Schema
BY DEF Schema, Object

-----------------------------------------------------------------------------
(* Steps on the schema and the connection only.                            *)

LEMMA DataStays ==
    ASSUME IInv, UNCHANGED <<data, origin, migrated>>,
           "alarms" \in objects => "alarms" \in objects',
           migrated => objects' = objects
    PROVE  /\ DataTyped'
           /\ ~migrated' => Upgrading'
           /\ migrated' => Upgraded'
           /\ ClaimedNeverRetryable'
           /\ Unsnapped' = Unsnapped
<1>1. UNCHANGED <<columns, rows, released, reaction, initial, op>>
  BY DEF data, members
<1>2. DataTyped'
  BY <1>1, Types DEF IInv, DataTyped
<1>3. ~migrated' => Upgrading'
  BY <1>1 DEF IInv, Upgrading, RowFollows, SnapshotKept, SnapshotTaken, HadSnapshot, Missed
<1>4. migrated' => Upgraded'
  BY <1>1 DEF IInv, Upgraded
<1>5. ClaimedNeverRetryable' /\ Unsnapped' = Unsnapped
  BY <1>1 DEF IInv, ClaimedNeverRetryable, Unsnapped
<1>. QED
  BY <1>2, <1>3, <1>4, <1>5

LEMMA Preserved ==
    ASSUME DataTyped', ControlTyped', Phase', ~migrated' => Upgrading',
           migrated' => Upgraded', ClaimedNeverRetryable'
    PROVE  IInv'
BY Types DEF IInv

LEMMA SchemaSteps ==
    ASSUME IInv,
           Open \/ KeepAlarms \/ SuspendKeys \/ Discard \/ CreateNew \/ RestoreKeys
           \/ CreateNext \/ ScriptDone \/ Stop
    PROVE  IInv'
<1>. USE DEF Rebuild, Rebuilding, Current, Place
<1>0. /\ ControlTyped /\ Phase /\ (migrated => objects = Schema /\ columns = Column)
      /\ "alarms_new" \in Object /\ "alarms_new" \notin Schema
  BY Types DEF IInv, Upgraded, Schema, Object
<1>1. UNCHANGED <<data, origin, migrated>>
  BY DEF Open, KeepAlarms, SuspendKeys, Discard, CreateNew, RestoreKeys, CreateNext,
         ScriptDone, Stop
<1>2. columns' = columns /\ ControlTyped'
  BY <1>0, <1>1, ScriptNames
     DEF ControlTyped, data, Schema, NoRows,
         Open, KeepAlarms, SuspendKeys, Discard, CreateNew, RestoreKeys, CreateNext,
         ScriptDone, Stop
<1>3. "alarms" \in objects => "alarms" \in objects'
  BY DEF Open, KeepAlarms, SuspendKeys, Discard, CreateNew, RestoreKeys, CreateNext,
         ScriptDone, Stop
<1>4. migrated => objects' = objects
  BY <1>0, ScriptNames
     DEF Phase, Open, KeepAlarms, SuspendKeys, Discard, CreateNew, RestoreKeys,
         CreateNext, ScriptDone, Stop
<1>5. /\ DataTyped' /\ (~migrated' => Upgrading') /\ (migrated' => Upgraded')
      /\ ClaimedNeverRetryable' /\ Unsnapped' = Unsnapped
  BY <1>1, <1>3, <1>4, DataStays
<1>6. Phase'
  <2>1. CASE Open \/ Stop
    BY <1>0, <1>2, <2>1 DEF Phase, Open, Stop
  <2>2. CASE KeepAlarms \/ SuspendKeys \/ RestoreKeys
    BY <1>0, <1>2, <2>2 DEF Phase, KeepAlarms, SuspendKeys, RestoreKeys
  <2>3. CASE Discard
    BY <1>0, <1>2, <2>3 DEF Phase, Discard
  <2>4. CASE CreateNew
    BY <1>0, <1>2, <2>4 DEF Phase, CreateNew
  <2>5. CASE CreateNext
    BY <1>0, <1>2, <2>5, ScriptNames DEF Phase, CreateNext
  <2>6. CASE ScriptDone
    BY <1>0, <1>2, <2>6, WholeSchema DEF Phase, ScriptDone, ControlTyped
  <2>. QED
    BY <2>1, <2>2, <2>3, <2>4, <2>5, <2>6
<1>. QED
  BY <1>2, <1>5, <1>6, Preserved

-----------------------------------------------------------------------------
(* The steps of a start that write.                                        *)

(* The table is only created when there is none, and then no session.      *)
LEMMA Creates == ASSUME IInv, CreateAlarms PROVE IInv'
<1>0. DataTyped /\ ControlTyped /\ Phase
  BY Types DEF IInv
<1>1. ~migrated /\ Upgrading /\ DOMAIN rows = {} /\ DOMAIN origin.rows = {}
  BY DEF IInv, CreateAlarms, Upgraded, Upgrading, Schema, Object
<1>2. /\ columns' = Column /\ rows' = NoRows /\ pc' = "script" /\ migrated' = migrated
      /\ objects' = objects \cup {"alarms"}
      /\ UNCHANGED <<released, reaction, initial, op, scratch, fk, origin>>
  BY DEF CreateAlarms, members
<1>3. DOMAIN rows' = {} /\ rows' \in [DOMAIN rows' -> Row]
  BY <1>2 DEF NoRows
<1>4. DataTyped'
  BY <1>0, <1>2, <1>3 DEF DataTyped
<1>5. ControlTyped'
  BY <1>0, <1>2 DEF ControlTyped, Place, Object
<1>6. Phase'
  BY <1>0, <1>2 DEF Phase, CreateAlarms, Rebuild, Rebuilding, Current
<1>7. Upgrading'
  BY <1>1, <1>2, <1>3 DEF Upgrading
<1>8. ClaimedNeverRetryable'
  BY <1>1, <1>2 DEF ClaimedNeverRetryable
<1>. QED
  BY <1>1, <1>2, <1>4, <1>5, <1>6, <1>7, <1>8, Preserved

LEMMA RebuiltRow ==
    ASSUME NEW r \in Row
    PROVE  /\ Rebuilt(r) \in Row
           /\ Rebuilt(r).tracking = IF "tracking_started_at" \in columns THEN r.tracking
                                    ELSE r.trigger
           /\ Rebuilt(r).expires = IF "expires" \in columns THEN r.expires
                                   ELSE r.trigger + DefaultTTL
           /\ Rebuilt(r).deadline = r.deadline /\ Rebuilt(r).status = r.status
           /\ Rebuilt(r).report = r.report /\ Rebuilt(r).acked = r.acked
           /\ Rebuilt(r).snapped <=> "initial_missing_snapshotted" \in columns /\ r.snapped
<1>1. DefaultTTL \in Nat /\ r.trigger + DefaultTTL \in Nat
  BY MigrationAssumption, RowFields DEF MigrationAssumption
<1>. DEFINE had(column) == column \in columns
            t == IF had("tracking_started_at") THEN r.tracking ELSE r.trigger
            d == IF had("intermediate_deadline") THEN r.intermediate ELSE r.deadline
            e == IF had("expires") THEN r.expires ELSE r.trigger + DefaultTTL
            s == IF had("source") THEN r.source ELSE "standard"
            b == IF had("initial_missing_snapshotted") THEN r.snapped ELSE FALSE
            v == IF had("reaction_revision") THEN r.rev ELSE 0
<1>2. /\ t \in Nat \cup {Unset} /\ d \in Nat \cup {Unset} /\ e \in Nat \cup {Unset}
      /\ s \in {"standard", "custom", "unset"} /\ b \in BOOLEAN /\ v \in Nat \cup {Unset}
  BY <1>1, RowFields
<1>3. Rebuilt(r) = [r EXCEPT !.tracking = t, !.intermediate = d, !.expires = e,
                              !.source = s, !.snapped = b, !.rev = v]
  BY DEF Rebuilt
<1>4. b <=> had("initial_missing_snapshotted") /\ r.snapped
  BY RowFields
<1>. HIDE DEF t, d, e, s, b, v
<1>5. /\ Rebuilt(r) \in Row
      /\ Rebuilt(r).tracking = t /\ Rebuilt(r).expires = e /\ Rebuilt(r).snapped = b
      /\ Rebuilt(r).deadline = r.deadline /\ Rebuilt(r).status = r.status
      /\ Rebuilt(r).report = r.report /\ Rebuilt(r).acked = r.acked
  BY <1>2, <1>3 DEF Row
<1>. QED
  BY <1>4, <1>5 DEF t, e

(* The rebuild makes of each row what the older version would have had.    *)
LEMMA Swaps == ASSUME IInv, Swap PROVE IInv'
<1>0. DataTyped /\ ControlTyped /\ Phase
  BY Types DEF IInv
<1>1. ~migrated /\ Upgrading /\ columns # Column /\ ~fk /\ "alarms" \in objects
  BY <1>0 DEF IInv, Swap, Phase, Upgraded, Rebuild, Rebuilding
<1>2. /\ columns' = Column /\ pc' = "restore" /\ migrated' = migrated
      /\ rows' = [i \in DOMAIN rows |-> Rebuilt(rows[i])]
      /\ objects' = objects \ {"alarms_new", "indexes"}
      /\ UNCHANGED <<released, reaction, initial, op, scratch, fk, origin>>
  BY <1>1 DEF Swap, Cascade, members
<1>3. /\ columns = origin.columns /\ rows = origin.rows /\ initial = origin.initial
      /\ released = origin.released /\ reaction = origin.reaction /\ op = origin.op
  BY <1>1 DEF Upgrading
<1>4. /\ DOMAIN rows' = DOMAIN rows
      /\ \A i \in DOMAIN rows : rows[i] \in Row /\ rows'[i] = Rebuilt(rows[i])
  BY <1>0, <1>2 DEF DataTyped
<1>5. rows' \in [DOMAIN rows' -> Row]
  BY <1>2, <1>4, RebuiltRow
<1>6. DataTyped'
  BY <1>0, <1>2, <1>4, <1>5 DEF DataTyped
<1>7. ControlTyped'
  BY <1>0, <1>2 DEF ControlTyped, Place
<1>8. Phase'
  BY <1>0, <1>1, <1>2 DEF Phase, Rebuild, Rebuilding, Current
<1>9. \A i \in DOMAIN rows' : RowFollows(i)' /\ SnapshotKept(i)'
  <2>. SUFFICES ASSUME NEW i \in DOMAIN rows
                PROVE  RowFollows(i)' /\ SnapshotKept(i)'
    BY <1>4
  <2>1. rows'[i] = Rebuilt(origin.rows[i]) /\ origin.rows[i] \in Row
    BY <1>3, <1>4
  <2>2. RowFollows(i)'
    BY <1>2, <1>3, <2>1, RebuiltRow DEF RowFollows
  <2>3. rows'[i].snapped <=> HadSnapshot(i)'
    BY <1>2, <1>3, <2>1, RebuiltRow DEF HadSnapshot
  <2>. QED
    BY <1>2, <1>3, <2>2, <2>3 DEF SnapshotKept
<1>10. Upgrading'
  BY <1>1, <1>2, <1>3, <1>4, <1>9 DEF Upgrading
<1>11. ClaimedNeverRetryable'
  BY <1>2 DEF IInv, ClaimedNeverRetryable
<1>. QED
  BY <1>1, <1>2, <1>6, <1>7, <1>8, <1>10, <1>11, Preserved

LEMMA SnapshottedRows ==
    ASSUME DataTyped, NEW S
    PROVE  /\ DOMAIN Snapshotted(S) = DOMAIN rows
           /\ \A i \in DOMAIN rows :
                 LET row == Snapshotted(S)[i]
                 IN /\ row \in Row
                    /\ i \notin S => row = rows[i]
                    /\ row.snapped <=> rows[i].snapped \/ i \in S
                    /\ row.tracking = rows[i].tracking /\ row.expires = rows[i].expires
                    /\ row.deadline = rows[i].deadline /\ row.status = rows[i].status
                    /\ row.report = rows[i].report /\ row.acked = rows[i].acked
<1>. SUFFICES ASSUME NEW i \in DOMAIN rows
              PROVE  LET row == [rows[i] EXCEPT !.snapped = @ \/ i \in S]
                     IN /\ row \in Row
                        /\ i \notin S => row = rows[i]
                        /\ row.snapped <=> rows[i].snapped \/ i \in S
                        /\ row.tracking = rows[i].tracking /\ row.expires = rows[i].expires
                        /\ row.deadline = rows[i].deadline /\ row.status = rows[i].status
                        /\ row.report = rows[i].report /\ row.acked = rows[i].acked
  BY DEF Snapshotted
<1>1. rows[i] \in Row
  BY DEF DataTyped
<1>. QED
  BY <1>1 DEF Row

(* Nothing is left to snapshot: the step changes nothing. *)
LEMMA NothingToSnapshot ==
    ASSUME DataTyped, Unsnapped = {}
    PROVE  /\ Snapshotted(Unsnapped) = rows
           /\ [i \in Id |-> initial[i] \cup {p \in released[i] : i \in Unsnapped /\ ~InTime(i, p)}]
                 = initial
<1>1. \A i \in DOMAIN rows : Snapshotted({})[i] = rows[i]
  BY SnapshottedRows
<1>2. Snapshotted({}) = rows
  BY <1>1 DEF Snapshotted, DataTyped
<1>3. \A i \in Id : initial[i] \cup {p \in released[i] : i \in {} /\ ~InTime(i, p)} = initial[i]
  OBVIOUS
<1>4. [i \in Id |-> initial[i] \cup {p \in released[i] : i \in {} /\ ~InTime(i, p)}] = initial
  BY <1>3 DEF DataTyped
<1>. QED
  BY <1>2, <1>4

LEMMA Snapshots == ASSUME IInv, MigrateInitialMissing PROVE IInv'
<1>0. DataTyped /\ ControlTyped /\ Phase
  BY Types DEF IInv
<1>1. columns = Column /\ objects = Schema /\ fk
  BY <1>0 DEF MigrateInitialMissing, Phase, Rebuild, Rebuilding, Current
<1>2. /\ rows' = Snapshotted(Unsnapped) /\ pc' = "operations"
      /\ initial' = [i \in Id |->
            initial[i] \cup {p \in released[i] : i \in Unsnapped /\ ~InTime(i, p)}]
      /\ UNCHANGED <<objects, columns, released, reaction, op, scratch, fk, origin, migrated>>
  BY DEF MigrateInitialMissing
<1>3. /\ DOMAIN rows' = DOMAIN rows
      /\ \A i \in DOMAIN rows :
            /\ rows'[i] \in Row
            /\ rows'[i].snapped <=> rows[i].snapped \/ i \in Unsnapped
            /\ i \notin Unsnapped => rows'[i] = rows[i]
            /\ rows'[i].tracking = rows[i].tracking /\ rows'[i].expires = rows[i].expires
            /\ rows'[i].deadline = rows[i].deadline /\ rows'[i].status = rows[i].status
            /\ rows'[i].report = rows[i].report /\ rows'[i].acked = rows[i].acked
  BY <1>0, <1>2, SnapshottedRows
<1>4. rows' \in [DOMAIN rows' -> Row]
  BY <1>2, <1>3 DEF Snapshotted
<1>5. /\ initial' \in [Id -> SUBSET Member]
      /\ \A i \in Id : initial'[i] = IF i \in Unsnapped
                                     THEN initial[i] \cup {p \in released[i] : ~InTime(i, p)}
                                     ELSE initial[i]
  BY <1>0, <1>2 DEF DataTyped
<1>6. DataTyped'
  BY <1>0, <1>2, <1>3, <1>4, <1>5 DEF DataTyped
<1>7. ControlTyped'
  BY <1>0, <1>2 DEF ControlTyped, Place
<1>8. Unsnapped' = {}
  BY <1>3 DEF Unsnapped
<1>9. Phase'
  BY <1>0, <1>1, <1>2, <1>8 DEF Phase, Rebuild, Rebuilding, Current, Schema, MigrateInitialMissing
<1>10. ~migrated => Upgrading'
  <2>. SUFFICES ASSUME ~migrated PROVE Upgrading'
    OBVIOUS
  <2>1. Upgrading
    BY DEF IInv
  <2>2. ASSUME NEW i \in DOMAIN rows
        PROVE  RowFollows(i)' /\ (SnapshotKept(i)' \/ SnapshotTaken(i)')
    <3>1. RowFollows(i) /\ (SnapshotKept(i) \/ SnapshotTaken(i)) /\ i \in Id
      BY <1>0, <1>1, <2>1 DEF Upgrading, DataTyped
    <3>2. RowFollows(i)'
      BY <1>2, <1>3, <3>1 DEF RowFollows
    <3>3. CASE i \notin Unsnapped
      BY <1>2, <1>3, <1>5, <3>1, <3>2, <3>3
         DEF SnapshotKept, SnapshotTaken, HadSnapshot, Missed
    <3>4. CASE i \in Unsnapped
      <4>1. ~rows[i].snapped /\ rows[i].report # 0
        BY <3>4 DEF Unsnapped
      <4>2. SnapshotKept(i) /\ ~HadSnapshot(i) /\ origin.rows[i].report # 0
        BY <3>1, <4>1 DEF SnapshotKept, SnapshotTaken, RowFollows
      <4>3. {p \in released[i] : ~InTime(i, p)} = Missed(i)
        BY <2>1, <3>1 DEF InTime, Missed, Upgrading, RowFollows
      <4>4. initial'[i] = origin.initial[i] \cup Missed(i)
        BY <1>5, <3>1, <3>4, <4>2, <4>3 DEF SnapshotKept
      <4>. QED
        BY <1>2, <1>3, <3>2, <3>4, <4>2, <4>4 DEF SnapshotTaken, HadSnapshot, Missed
    <3>. QED
      BY <3>3, <3>4
  <2>. QED
    BY <1>1, <1>2, <1>3, <2>1, <2>2 DEF Upgrading
<1>11. migrated => Upgraded'
  BY <1>2, <1>3 DEF IInv, Upgraded
<1>12. ClaimedNeverRetryable'
  BY <1>2 DEF IInv, ClaimedNeverRetryable
<1>. QED
  BY <1>2, <1>6, <1>7, <1>9, <1>10, <1>11, <1>12, Preserved

LEMMA LegacyStates ==
    ASSUME NEW r
    PROVE  /\ LegacyState(r) \in OpState /\ LegacyState(r) # "absent"
           /\ r.report # 0 => LegacyState(r) \notin NotAttempted
BY DEF LegacyState, OpState, Attempted, NotAttempted

LEMMA InsertedStates ==
    ASSUME DataTyped, NEW k \in Key
    PROVE  /\ Inserted(k) \in OpState
           /\ k[1] \in DOMAIN rows => Inserted(k) # "absent"
           /\ op[k] # "absent" => Inserted(k) = op[k]
<1>1. op[k] \in OpState /\ "skipped" \in OpState /\ "skipped" # "absent"
  BY DEF DataTyped, OpState
<1>. QED
  BY <1>1, LegacyStates DEF Inserted

LEMMA Inserts == ASSUME IInv, MigrateOperations PROVE IInv'
<1>0. DataTyped /\ ControlTyped /\ Phase
  BY Types DEF IInv
<1>1. columns = Column /\ objects = Schema /\ fk /\ Unsnapped = {}
  BY <1>0 DEF MigrateOperations, Phase, Rebuild, Rebuilding, Current
<1>2. /\ op' = [k \in Key |-> Inserted(k)] /\ pc' = "running" /\ migrated' = TRUE
      /\ UNCHANGED <<objects, columns, rows, released, reaction, initial, scratch, fk, origin>>
  BY DEF MigrateOperations, members
<1>3. op' \in [Key -> OpState]
  BY <1>0, <1>2, InsertedStates
<1>4. DataTyped' /\ ControlTyped'
  BY <1>0, <1>2, <1>3 DEF DataTyped, ControlTyped, Place
<1>5. Phase'
  BY <1>0, <1>1, <1>2 DEF Phase, Rebuild, Rebuilding, Current, Schema, MigrateOperations
<1>6. DOMAIN origin.rows \subseteq DOMAIN rows
  BY DEF IInv, Upgrading, Upgraded
<1>7. Upgraded'
  <2>1. ASSUME NEW i \in DOMAIN rows
        PROVE  op'[Intermediate(i)] # "absent" /\ op'[Final(i)] # "absent"
    <3>1. i \in Id /\ Final(i)[1] = i /\ Intermediate(i)[1] = i
      BY <1>0 DEF DataTyped, Final, Intermediate
    <3>. QED
      BY <1>0, <1>2, <3>1, Keys, InsertedStates
  <2>. QED
    BY <1>1, <1>2, <1>6, <2>1 DEF Upgraded, Unsnapped
<1>8. ClaimedNeverRetryable'
  <2>. SUFFICES ASSUME NEW i \in DOMAIN origin.rows, origin.rows[i].report # 0
                PROVE  op'[Final(i)] \notin NotAttempted
    BY <1>2 DEF ClaimedNeverRetryable, Final
  <2>1. op[Final(i)] \notin NotAttempted /\ i \in DOMAIN rows /\ i \in Id
    BY <1>0, <1>6 DEF IInv, ClaimedNeverRetryable, Final, DataTyped
  <2>2. op'[Final(i)] = Inserted(Final(i))
    BY <1>2, <2>1, Keys
  <2>3. CASE op[Final(i)] # "absent"
    BY <1>0, <2>1, <2>2, <2>3, Keys, InsertedStates
  <2>4. CASE op[Final(i)] = "absent"
    <3>1. ~migrated
      BY <2>1, <2>4 DEF IInv, Upgraded
    <3>2. rows[i].report = origin.rows[i].report
      BY <1>1, <2>1, <3>1 DEF IInv, Upgrading, RowFollows
    <3>3. Inserted(Final(i)) = LegacyState(rows[i])
      BY <2>1, <2>4 DEF Inserted, Final
    <3>. QED
      BY <2>2, <3>2, <3>3, LegacyStates
  <2>. QED
    BY <2>3, <2>4
<1>. QED
  BY <1>2, <1>4, <1>5, <1>7, <1>8, Preserved

-----------------------------------------------------------------------------
(* What the running process writes.                                        *)

LEMMA RunningFrame ==
    ASSUME IInv, pc = "running", UNCHANGED running,
           DOMAIN rows \subseteq DOMAIN rows', DOMAIN rows' \subseteq Id,
           rows' \in [DOMAIN rows' -> Row], released' \in [Id -> SUBSET Member],
           reaction' \in [Id -> [Member -> Reaction]], initial' \in [Id -> SUBSET Member],
           op' \in [Key -> OpState],
           \A i \in DOMAIN rows' : /\ rows'[i].report # 0 => rows'[i].snapped
                                   /\ op'[Intermediate(i)] # "absent"
                                   /\ op'[Final(i)] # "absent",
           \A i \in DOMAIN rows :
              op[Final(i)] \notin NotAttempted => op'[Final(i)] \notin NotAttempted
    PROVE  IInv'
<1>0. DataTyped /\ ControlTyped /\ Phase /\ migrated /\ Upgraded
  BY Types DEF IInv, Phase
<1>1. UNCHANGED <<objects, columns, scratch, fk, pc, origin, migrated>>
  BY DEF running
<1>2. DataTyped' /\ ControlTyped'
  BY <1>0, <1>1 DEF DataTyped, ControlTyped
<1>3. Phase'
  BY <1>0, <1>1 DEF Phase
<1>4. Upgraded'
  BY <1>0, <1>1 DEF Upgraded
<1>5. ClaimedNeverRetryable'
  BY <1>0, <1>1 DEF IInv, ClaimedNeverRetryable, Upgraded, Final
<1>. QED
  BY <1>0, <1>1, <1>2, <1>3, <1>4, <1>5, Preserved

LEMMA OpUpdates ==
    ASSUME DataTyped, NEW k \in Key,
           \/ op' = MarkOutgoingDue(op, k)
           \/ Claimable(op, k) /\ op' = ClaimOutgoing(op, k)
           \/ \E s \in {"attempted_success", "attempted_failed", "skipped"} :
                 op' = FinishOutgoing(op, k, s)
    PROVE  /\ op' \in [Key -> OpState]
           /\ \A j \in Key : /\ op[j] # "absent" => op'[j] # "absent"
                             /\ op[j] \notin NotAttempted => op'[j] \notin NotAttempted
<1>. USE DEF OpState, Attempted, NotAttempted
<1>1. op \in [Key -> OpState]
  BY DEF DataTyped
<1>2. CASE op' = MarkOutgoingDue(op, k)
  BY <1>1, <1>2 DEF MarkOutgoingDue
<1>3. CASE Claimable(op, k) /\ op' = ClaimOutgoing(op, k)
  BY <1>1, <1>3 DEF Claimable, ClaimOutgoing
<1>4. ASSUME NEW s \in {"attempted_success", "attempted_failed", "skipped"},
             op' = FinishOutgoing(op, k, s)
      PROVE  /\ op' \in [Key -> OpState]
             /\ \A j \in Key : /\ op[j] # "absent" => op'[j] # "absent"
                               /\ op[j] \notin NotAttempted => op'[j] \notin NotAttempted
  BY <1>1, <1>4 DEF FinishOutgoing
<1>. QED
  BY <1>2, <1>3, <1>4

LEMMA CreatesAlarm ==
    ASSUME IInv, pc = "running", UNCHANGED running, NEW i \in Id, CreateAlarm(i)
    PROVE  IInv'
<1>0. DataTyped /\ Upgraded
  BY Types DEF IInv, Phase
<1>. DEFINE new == [trigger |-> 0, deadline |-> 1, tracking |-> 0,
                    intermediate |-> 1, expires |-> DefaultTTL,
                    source |-> "standard", status |-> "pending", report |-> 0,
                    acked |-> FALSE, snapped |-> FALSE, rev |-> 0]
<1>1. new \in Row /\ new.report = 0
  BY MigrationAssumption DEF MigrationAssumption, Row
<1>2. /\ i \notin DOMAIN rows
      /\ rows' = [j \in DOMAIN rows \cup {i} |-> IF j # i THEN rows[j] ELSE new]
      /\ \E S \in SUBSET Member : released' = [released EXCEPT ![i] = S]
      /\ op' = [op EXCEPT ![Intermediate(i)] = "not_due", ![Final(i)] = "not_due"]
      /\ UNCHANGED <<reaction, initial>>
  BY DEF CreateAlarm, Intermediate, Final
<1>. HIDE DEF new
<1>3. /\ DOMAIN rows' = DOMAIN rows \cup {i} /\ rows'[i] = new
      /\ \A j \in DOMAIN rows : rows'[j] = rows[j] /\ rows[j] \in Row
  BY <1>0, <1>2 DEF DataTyped
<1>4. rows' \in [DOMAIN rows' -> Row]
  BY <1>1, <1>2, <1>3
<1>5. released' \in [Id -> SUBSET Member]
  BY <1>0, <1>2 DEF DataTyped
<1>6. /\ op' \in [Key -> OpState] /\ op'[Intermediate(i)] = "not_due" /\ op'[Final(i)] = "not_due"
      /\ \A k \in Key : k \notin {Intermediate(i), Final(i)} => op'[k] = op[k]
  <2>1. "not_due" \in OpState
    BY DEF OpState, NotAttempted
  <2>. QED
    BY <1>0, <1>2, <2>1, Keys DEF DataTyped
<1>7. \A j \in DOMAIN rows : /\ j \in Id /\ j # i
                             /\ op'[Final(j)] = op[Final(j)]
                             /\ op'[Intermediate(j)] = op[Intermediate(j)]
  <2>. SUFFICES ASSUME NEW j \in DOMAIN rows
                PROVE  /\ j \in Id /\ j # i
                       /\ op'[Final(j)] = op[Final(j)]
                       /\ op'[Intermediate(j)] = op[Intermediate(j)]
    OBVIOUS
  <2>1. j \in Id /\ j # i
    BY <1>0, <1>2 DEF DataTyped
  <2>2. /\ Final(j) \in Key \ {Intermediate(i), Final(i)}
        /\ Intermediate(j) \in Key \ {Intermediate(i), Final(i)}
    BY <2>1, Keys
  <2>. QED
    BY <1>6, <2>1, <2>2
<1>8. \A j \in DOMAIN rows' : /\ rows'[j].report # 0 => rows'[j].snapped
                              /\ op'[Intermediate(j)] # "absent"
                              /\ op'[Final(j)] # "absent"
  BY <1>0, <1>1, <1>3, <1>6, <1>7 DEF Upgraded
<1>9. DOMAIN rows' \subseteq Id
  BY <1>0, <1>3 DEF DataTyped
<1>10. reaction' \in [Id -> [Member -> Reaction]] /\ initial' \in [Id -> SUBSET Member]
  BY <1>0, <1>2 DEF DataTyped
<1>. QED
  BY <1>3, <1>4, <1>5, <1>6, <1>7, <1>8, <1>9, <1>10, RunningFrame

(* An attempt, from its being due to its end. *)
LEMMA Attempts ==
    ASSUME IInv, pc = "running", UNCHANGED running, NEW i \in DOMAIN rows,
           MarkDue(i) \/ Claim(i) \/ Finish(i)
    PROVE  IInv'
<1>0. DataTyped /\ Upgraded /\ DOMAIN rows \subseteq Id
  BY Types DEF IInv, Phase, DataTyped
<1>1. UNCHANGED <<rows, released, reaction, initial>>
  BY DEF MarkDue, Claim, Finish, members
<1>2. /\ op' \in [Key -> OpState]
      /\ \A j \in Key : /\ op[j] # "absent" => op'[j] # "absent"
                        /\ op[j] \notin NotAttempted => op'[j] \notin NotAttempted
  BY <1>0, Keys, OpUpdates DEF MarkDue, Claim, Finish, Final
<1>3. \A j \in DOMAIN rows : Final(j) \in Key /\ Intermediate(j) \in Key
  BY <1>0, Keys
<1>4. \A j \in DOMAIN rows' : /\ rows'[j].report # 0 => rows'[j].snapped
                              /\ op'[Intermediate(j)] # "absent"
                              /\ op'[Final(j)] # "absent"
  BY <1>0, <1>1, <1>2, <1>3 DEF Upgraded
<1>5. /\ rows' \in [DOMAIN rows' -> Row] /\ DOMAIN rows' \subseteq Id
      /\ released' \in [Id -> SUBSET Member]
      /\ reaction' \in [Id -> [Member -> Reaction]] /\ initial' \in [Id -> SUBSET Member]
  BY <1>0, <1>1 DEF DataTyped
<1>. QED
  BY <1>1, <1>2, <1>3, <1>4, <1>5, RunningFrame

(* A report is marked only when its session has been snapshotted. *)
LEMMA Writes ==
    ASSUME IInv, pc = "running", UNCHANGED running, NEW i \in DOMAIN rows,
           ApplyReaction(i) \/ SnapshotMissing(i) \/ MarkReported(i)
    PROVE  IInv'
<1>0. DataTyped /\ Upgraded /\ i \in Id
  BY Types DEF IInv, Phase, DataTyped
<1>1. UNCHANGED <<released, op>>
  BY DEF ApplyReaction, SnapshotMissing, MarkReported, members
<1>2. rows[i] \in Row /\ rows \in [DOMAIN rows -> Row]
  BY <1>0 DEF DataTyped
<1>3. reaction' \in [Id -> [Member -> Reaction]]
  <2>1. CASE ApplyReaction(i)
    <3>1. PICK p \in released[i], ts \in Time, responded \in BOOLEAN :
             reaction' = [reaction EXCEPT ![i][p] = [responded |-> responded, last |-> ts]]
      BY <2>1 DEF ApplyReaction
    <3>2. p \in Member /\ [responded |-> responded, last |-> ts] \in Reaction
      BY <1>0 DEF DataTyped, Reaction
    <3>. QED
      BY <1>0, <3>1, <3>2 DEF DataTyped
  <2>2. CASE SnapshotMissing(i) \/ MarkReported(i)
    BY <1>0, <2>2 DEF SnapshotMissing, MarkReported, members, DataTyped
  <2>. QED
    BY <2>1, <2>2
<1>4. initial' \in [Id -> SUBSET Member]
  <2>1. {p \in released[i] : ~reaction[i][p].responded} \in SUBSET Member
    BY <1>0 DEF DataTyped
  <2>. QED
    BY <1>0, <2>1 DEF ApplyReaction, SnapshotMissing, MarkReported, members, DataTyped
<1>5. \E r \in Row : rows' = [rows EXCEPT ![i] = r] /\ (r.report # 0 => r.snapped)
  <2>1. CASE ApplyReaction(i)
    <3>1. rows' = [rows EXCEPT ![i] = rows[i]]
      BY <1>2, <2>1 DEF ApplyReaction
    <3>. QED
      BY <1>0, <1>2, <3>1 DEF Upgraded
  <2>2. CASE SnapshotMissing(i)
    <3>1. rows' = [rows EXCEPT ![i] = [rows[i] EXCEPT !.snapped = TRUE]]
      BY <1>2, <2>2 DEF SnapshotMissing
    <3>2. [rows[i] EXCEPT !.snapped = TRUE] \in Row /\ [rows[i] EXCEPT !.snapped = TRUE].snapped
      BY <1>2 DEF Row
    <3>. QED
      BY <3>1, <3>2
  <2>3. CASE MarkReported(i)
    <3>. DEFINE b == op[Final(i)] = "attempted_success"
                n == IF op[Final(i)] = "attempted_uncertain" THEN -1 ELSE 1
                r == [rows[i] EXCEPT !.status = "reported", !.acked = b, !.report = n]
    <3>1. rows' = [rows EXCEPT ![i] = r]
      BY <1>2, <2>3 DEF MarkReported, Final
    <3>2. b \in BOOLEAN /\ n \in {-1, 0, 1} /\ rows[i].snapped
      BY <2>3 DEF MarkReported
    <3>. HIDE DEF b, n
    <3>3. r \in Row /\ r.snapped
      BY <1>2, <3>2 DEF Row
    <3>. QED
      BY <3>1, <3>3
  <2>. QED
    BY <2>1, <2>2, <2>3
<1>6. /\ DOMAIN rows' = DOMAIN rows /\ rows' \in [DOMAIN rows' -> Row]
      /\ \A j \in DOMAIN rows : rows'[j].report # 0 => rows'[j].snapped
  BY <1>0, <1>2, <1>5 DEF Upgraded
<1>7. \A j \in DOMAIN rows' : /\ rows'[j].report # 0 => rows'[j].snapped
                              /\ op'[Intermediate(j)] # "absent"
                              /\ op'[Final(j)] # "absent"
  BY <1>0, <1>1, <1>6 DEF Upgraded
<1>8. /\ DOMAIN rows' \subseteq Id /\ released' \in [Id -> SUBSET Member]
      /\ op' \in [Key -> OpState]
  BY <1>0, <1>1, <1>6 DEF DataTyped
<1>. QED
  BY <1>1, <1>3, <1>4, <1>6, <1>7, <1>8, RunningFrame

-----------------------------------------------------------------------------
LEMMA Starts == Init => IInv
<1>. SUFFICES ASSUME Init PROVE IInv
  OBVIOUS
<1>1. /\ origin \in Legacy /\ objects = origin.objects /\ columns = origin.columns
      /\ rows = origin.rows /\ scratch = NoRows /\ released = origin.released
      /\ reaction = origin.reaction /\ initial = origin.initial /\ op = origin.op
      /\ fk = FALSE /\ pc = "off" /\ migrated = FALSE
  BY DEF Init
<1>2. DataTyped /\ ControlTyped
  BY <1>1, Origin DEF DataTyped, ControlTyped, NoRows, Place
<1>3. Phase
  BY <1>1, Origin DEF Phase, Rebuild, Rebuilding, Current
<1>4. Upgrading
  <2>1. ASSUME NEW i \in DOMAIN rows, columns = Column
        PROVE  RowFollows(i) /\ SnapshotKept(i)
    <3>1. rows[i] \in Row
      BY <1>2 DEF DataTyped
    <3>. QED
      BY <1>1, <2>1, <3>1, RowFields DEF RowFollows, SnapshotKept, HadSnapshot, Column
  <2>. QED
    BY <1>1, <2>1, Origin DEF Upgrading
<1>5. ClaimedNeverRetryable
  BY <1>1, Origin DEF ClaimedNeverRetryable, Final
<1>. QED
  BY <1>1, <1>2, <1>3, <1>4, <1>5, Types DEF IInv

LEMMA Steps == IInv /\ [Next]_vars => IInv'
<1>. SUFFICES ASSUME IInv, [Next]_vars PROVE IInv'
  OBVIOUS
<1>1. CASE StartStep \/ Stop
  BY <1>1, SchemaSteps, Creates, Swaps, Snapshots, Inserts DEF StartStep
<1>2. CASE AppStep
  BY <1>2, CreatesAlarm, Attempts, Writes DEF AppStep
<1>3. CASE UNCHANGED vars
  <2>1. UNCHANGED <<objects, columns, rows, released, reaction, initial, op, scratch, fk,
                    pc, origin, migrated>>
    BY <1>3 DEF vars, data, members
  <2>2. /\ DataTyped' /\ (~migrated' => Upgrading') /\ (migrated' => Upgraded')
        /\ ClaimedNeverRetryable' /\ Unsnapped' = Unsnapped
    BY <2>1, DataStays DEF data, members
  <2>3. ControlTyped' /\ Phase'
    BY <2>1, <2>2, Types DEF IInv, ControlTyped, Phase
  <2>. QED
    BY <2>2, <2>3, Preserved
<1>. QED
  BY <1>1, <1>2, <1>3 DEF Next

(* Every reachable state satisfies IInv: until the first start is          *)
(* completed, each row is what an uninterrupted migration has made of that *)
(* of the origin so far, and from then on nothing is left to migrate.      *)
THEOREM Inductive == Spec => []IInv
BY Starts, Steps, PTL DEF Spec

(* Every row, key and table stays of its type. *)
THEOREM TypeCorrect == Spec => []TypeOK
<1>1. IInv => TypeOK
  BY DEF IInv
<1>. QED
  BY <1>1, Inductive, PTL

(* No session of an older database, nor what was recorded about it, is     *)
(* ever missing from a committed state of the first start. *)
THEOREM NoSessionLost == Spec => []NothingIsLost
<1>1. IInv => NothingIsLost
  BY DEF IInv, Upgrading, NothingIsLost
<1>. QED
  BY <1>1, Inductive, PTL

(* A report that an older version claimed is never due again. *)
THEOREM OldClaimsStay == Spec => []ClaimedNeverRetryable
<1>1. IInv => ClaimedNeverRetryable
  BY DEF IInv
<1>. QED
  BY <1>1, Inductive, PTL

(* A start on a database of the current version changes no row of it. *)
THEOREM RestartsChangeNothing == Spec => RestartChangesNothing
<1>1. ASSUME IInv, [Next]_vars, migrated, pc # "running"
      PROVE  UNCHANGED <<objects, data>>
  <2>0. /\ DataTyped /\ Upgraded /\ Phase /\ "alarms" \in Schema
        /\ objects = Schema /\ columns = Column
    BY <1>1, Types DEF IInv, Upgraded, Schema, Object
  <2>1. pc \notin Rebuilding /\ Unsnapped = {}
    BY <2>0 DEF Phase, Upgraded, Unsnapped
  <2>2. CASE Open \/ KeepAlarms \/ SuspendKeys \/ RestoreKeys \/ ScriptDone \/ Stop
    BY <2>2 DEF Open, KeepAlarms, SuspendKeys, RestoreKeys, ScriptDone, Stop
  <2>3. CASE Discard \/ CreateNew \/ Swap \/ CreateAlarms \/ CreateNext
    BY <2>0, <2>1, <2>3, ScriptNames
       DEF Discard, CreateNew, Swap, CreateAlarms, CreateNext, Rebuilding
  <2>4. CASE MigrateInitialMissing
    <3>1. rows' = rows /\ initial' = initial
      BY <2>0, <2>1, <2>4, NothingToSnapshot DEF MigrateInitialMissing
    <3>. QED
      BY <2>4, <3>1 DEF MigrateInitialMissing, data, members
  <2>5. CASE MigrateOperations
    <3>1. ASSUME NEW k \in Key PROVE Inserted(k) = op[k]
      <4>1. PICK i \in Id : k = Final(i) \/ k = Intermediate(i)
        BY DEF Key, Final, Intermediate
      <4>2. k[1] = i
        BY <4>1 DEF Final, Intermediate
      <4>. QED
        BY <2>0, <4>1, <4>2 DEF Inserted, Upgraded
    <3>2. op' = op
      BY <2>0, <2>5, <3>1 DEF MigrateOperations, DataTyped
    <3>. QED
      BY <2>5, <3>2 DEF MigrateOperations, data, members
  <2>6. CASE UNCHANGED vars
    BY <2>6 DEF vars
  <2>. QED
    BY <1>1, <2>2, <2>3, <2>4, <2>5, <2>6 DEF Next, StartStep, AppStep
<1>2. IInv /\ [Next]_vars => [migrated /\ pc # "running" => UNCHANGED <<objects, data>>]_vars
  BY <1>1
<1>. QED
  BY <1>2, Inductive, PTL DEF Spec, RestartChangesNothing

(* Wherever starts were cut off before, the first one to be completed      *)
(* leaves the schema and the rows that an uninterrupted one would have     *)
(* left. *)
THEOREM InterruptionsDoNotShow == Spec => FinishedAsUninterrupted
<1>1. ASSUME IInv, [Next]_vars, ~migrated, migrated'
      PROVE  /\ objects' = Object \ {"alarms_new"} /\ columns' = Column /\ fk'
             /\ \A i \in DOMAIN origin.rows : Upgrades(i)
  <2>1. MigrateOperations
    BY <1>1 DEF Next, StartStep, AppStep, Stop, running, vars,
                Open, CreateAlarms, KeepAlarms, SuspendKeys, Discard, CreateNew, Swap,
                RestoreKeys, CreateNext, ScriptDone, MigrateInitialMissing
  <2>2. DataTyped /\ ControlTyped /\ Phase /\ Upgrading
    BY <1>1, Types DEF IInv
  <2>3. columns = Column /\ objects = Schema /\ fk /\ Unsnapped = {}
    BY <2>1, <2>2 DEF MigrateOperations, Phase, Rebuild, Rebuilding, Current
  <2>4. /\ op' = [k \in Key |-> Inserted(k)]
        /\ UNCHANGED <<objects, columns, rows, released, reaction, initial, fk>>
    BY <2>1 DEF MigrateOperations, members
  <2>5. ASSUME NEW i \in DOMAIN origin.rows PROVE Upgrades(i)
    <3>1. /\ i \in DOMAIN rows /\ i \in Id /\ RowFollows(i)
          /\ SnapshotKept(i) \/ SnapshotTaken(i)
          /\ op = origin.op
      BY <2>2, <2>3 DEF Upgrading, DataTyped
    <3>2. rows[i].report # 0 => rows[i].snapped
      BY <2>3, <3>1 DEF Unsnapped
    <3>3. /\ rows[i].snapped <=> origin.rows[i].report # 0 \/ HadSnapshot(i)
          /\ initial[i] = origin.initial[i] \cup (IF origin.rows[i].report # 0 /\ ~HadSnapshot(i)
                                                THEN Missed(i) ELSE {})
      <4>1. CASE SnapshotKept(i)
        BY <3>1, <3>2, <4>1 DEF RowFollows, SnapshotKept
      <4>2. CASE SnapshotTaken(i)
        BY <3>1, <3>2, <4>2 DEF RowFollows, SnapshotTaken
      <4>. QED
        BY <3>1, <4>1, <4>2
    <3>4. /\ op'[Intermediate(i)] = Inserted(Intermediate(i))
          /\ op'[Final(i)] = Inserted(Final(i))
          /\ Intermediate(i) \in Key /\ Intermediate(i)[1] = i
          /\ Final(i)[1] = i /\ Final(i)[2] = "final"
      BY <2>4, <3>1, Keys DEF Intermediate, Final
    <3>5. op'[Intermediate(i)] # "absent"
      BY <2>2, <3>1, <3>4, InsertedStates
    <3>6. LegacyState(rows[i]) = LegacyState(origin.rows[i])
      BY <3>1 DEF RowFollows, LegacyState
    <3>7. op'[Final(i)] = IF origin.op[Final(i)] # "absent" THEN origin.op[Final(i)]
                          ELSE LegacyState(origin.rows[i])
      BY <3>1, <3>4, <3>6 DEF Inserted
    <3>8. rows[i].snapped \in BOOLEAN
      BY <2>2, <3>1, RowFields DEF DataTyped
    <3>9. rows[i].snapped = (origin.rows[i].report # 0 \/ HadSnapshot(i))
      BY <3>3, <3>8
    <3>. QED
      BY <2>4, <3>1, <3>3, <3>5, <3>7, <3>9
         DEF Upgrades, RowFollows, HadSnapshot, Missed, Intermediate, Final
  <2>. QED
    BY <2>3, <2>4, <2>5 DEF Schema
<1>2. IInv /\ [Next]_vars
        => [~migrated /\ migrated' =>
              /\ objects' = Object \ {"alarms_new"} /\ columns' = Column /\ fk'
              /\ \A i \in DOMAIN origin.rows : Upgrades(i)]_vars
  BY <1>1
<1>. QED
  BY <1>2, Inductive, PTL DEF Spec, FinishedAsUninterrupted
=============================================================================
