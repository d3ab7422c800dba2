---------------------------- MODULE MCMigration ----------------------------
(***************************************************************************)
(* Instances of Migration for TLC.                                         *)
(***************************************************************************)
EXTENDS Migration

CONSTANT ann

OneMember == {ann}
TwoIds == {1, 2}
Times == {1, 2}     \* at the deadline of the sessions, and after it

NoOps == [k \in Key |-> "absent"]
OneResponse(time) == [p \in Member |-> [responded |-> TRUE, last |-> time]]

Old(status, report, acked) ==
    [trigger |-> 0, deadline |-> 1, tracking |-> Unset, intermediate |-> Unset,
     expires |-> Unset, source |-> "unset", status |-> status, report |-> report,
     acked |-> acked, snapped |-> FALSE, rev |-> Unset]

(* A pending session, one whose report was claimed and its answer lost,    *)
(* and reported ones with and without the timestamp of the report.         *)
OldRows == {Old("pending", 0, FALSE), Old("pending", -1, FALSE),
            Old("reported", 1, TRUE), Old("reported", 1, FALSE)}

(* The first version: none of the columns, none of the later tables.  The  *)
(* member of session 1 answered too late, that of session 2 in time.       *)
First(r, s) ==
    [objects |-> {"alarms", "released_members", "reaction_state"}, columns |-> {},
     rows |-> <<r, s>>, released |-> <<Member, Member>>,
     reaction |-> <<OneResponse(2), OneResponse(1)>>,
     initial |-> <<{}, {}>>, op |-> NoOps]

(* Later versions, whose table only lacks the revision or only the         *)
(* 'expired' of its CHECK: session 1 was reported and snapshotted, 2 is    *)
(* pending and its report may have been attempted.                         *)
LaterRow(r, lacks, snapped) ==
    [r EXCEPT !.tracking = 1, !.intermediate = 0, !.expires = 4, !.source = "custom",
              !.snapped = snapped, !.rev = IF lacks = "reaction_revision" THEN Unset ELSE 3]
Later(lacks) ==
    [First(LaterRow(Old("reported", 1, TRUE), lacks, TRUE),
           LaterRow(Old("pending", 0, FALSE), lacks, FALSE)) EXCEPT
        !.objects = Object \ {"alarms_new"}, !.columns = Column \ {lacks},
        !.initial[1] = {ann},
        !.op = [k \in Key |-> IF k[2] = "intermediate" THEN "attempted_success"
                              ELSE IF k[1] = 1 THEN "attempted_success"
                              ELSE "attempted_uncertain"]]

Empty ==
    [objects |-> {}, columns |-> {}, rows |-> NoRows, released |-> <<{}, {}>>,
     reaction |-> [i \in Id |-> [p \in Member |-> NoReaction]],
     initial |-> <<{}, {}>>, op |-> NoOps]

(* An older version was stopped in the middle of its own rebuild. *)
CutOff(d) == [d EXCEPT !.objects = @ \cup {"alarms_new"}]

Found == {First(r, s) : r, s \in OldRows}
         \cup {Later("reaction_revision"), Later("status_expired"), Empty,
               CutOff(Later("status_expired"))}
=============================================================================
