--------------------------- MODULE SessionProofs ----------------------------
(***************************************************************************)
(* Proofs about AlertTracker, continued: when reports go out, what becomes *)
(* of them when their session ends, that automatic work keeps to the       *)
(* sessions of its own process, that a session is not left open once       *)
(* everybody has responded, that its responses are those of the recorded   *)
(* reactions and of no ambiguous one, and, in a process that is not        *)
(* disturbed, that no completion is sent beside a report, that the report  *)
(* shows its session, and that it counts nobody who was late.              *)
(***************************************************************************)
EXTENDS AlertTrackerProofs

IKey(m) == <<m, "intermediate", 0>>
FKey(m) == <<m, "final", 0>>

(* The two scheduled reports of a session exist with it.  A reported       *)
(* session has its final report settled, an ended one has neither waiting. *)
Settled(a, i, f) ==
    /\ a.status # "none" => i # "absent" /\ f # "absent"
    /\ a.status = "reported" =>
          /\ f \in Attempted \cup {"skipped"}
          /\ i \notin NotAttempted
          /\ a.hasReport <=> f = "attempted_success"
    /\ a.status \in TerminalStatus => i \notin NotAttempted /\ f \notin NotAttempted

(* The time at which the job began is the one all its decisions use.       *)
JobTime == IF pc = "free" THEN now ELSE job.now

(* The final report of a pending session is due only after its deadline.   *)
DueInTime(a, f, t) ==
    a.status = "pending" /\ f \notin {"absent", "not_due"} => FinalAt(a) <= t

TablesOK ==
    \A m \in Message :
        /\ Settled(alarm[m], op[IKey(m)], op[FKey(m)])
        /\ DueInTime(alarm[m], op[FKey(m)], JobTime)

(* The session a job works on was not expired when it began, and is one of *)
(* this process unless the job is a /check.                                *)
Subject(m) ==
    /\ IsActive(alarm[m]) => job.now < ExpiresAt(alarm[m])
    /\ job.by # "check" => alarm[m].trk >= started

Working == {"snapshot", "due"} \cup AttemptPc

(* A pass has expired what was to expire when it began.                    *)
PassOK ==
    pc # "free" /\ job.by = "tick" =>
        \A m \in Message : OwnActive(m) => job.now < ExpiresAt(alarm[m])

SubjectOK ==
    /\ job.now <= now
    /\ pc = "adopt" => job.by = "check"
    /\ pc = "select" => job.by = "tick"
    /\ pc \in Working /\ job.back = "select" => job.by = "tick"
    /\ pc \notin {"free", "select", "intake", "adopt"} => Subject(job.m)
    /\ pc = "host" => IsActive(alarm[job.m]) \/ alarm[job.m].status = "error"

ForFinal == pc \in {"snapshot", "due"} \/ (pc \in AttemptPc /\ key[2] = "final")

(* What is sent belongs to an active session, except for the host reaction *)
(* to a check in error; a report is sent at its time.                      *)
SendOK ==
    /\ pc \in AttemptPc => key[1] = job.m
    /\ pc \in Working =>
          \/ IsActive(alarm[job.m])
          \/ /\ pc \in AttemptPc /\ key[2] = "host_reaction"
             /\ alarm[job.m].status = "error"
    /\ ForFinal =>
          /\ alarm[job.m].status = "pending" /\ FinalAt(alarm[job.m]) <= job.now
          /\ op[IKey(job.m)] \notin NotAttempted
    /\ pc \in AttemptPc /\ key[2] = "final" => op[key] \notin {"absent", "not_due"}
    /\ pc = "post" /\ key[2] = "final" =>
          job.result = op[key] /\ op[key] \in Attempted \cup {"skipped"}
    /\ pc \in AttemptPc \ {"post"} /\ key[2] = "intermediate" =>
          /\ alarm[job.m].status = "pending"
          /\ IntermediateAt(alarm[job.m]) <= job.now
          /\ job.now < FinalAt(alarm[job.m])

SInv == TablesOK /\ PassOK /\ SubjectOK /\ SendOK

-----------------------------------------------------------------------------
(* The tables.                                                             *)

LEMMA ReportKeys ==
    \A m \in Message :
        /\ IKey(m) \in Key /\ IKey(m)[1] = m /\ IKey(m)[2] = "intermediate"
        /\ FKey(m) \in Key /\ FKey(m)[1] = m /\ FKey(m)[2] = "final"
BY DEF IKey, FKey, Key, OneShotKind

(* A key of one of the scheduled reports is that of its message. *)
LEMMA ReportKeyOf ==
    ASSUME NEW k \in Key
    PROVE  /\ k[1] \in Message
           /\ k[2] = "intermediate" => k = IKey(k[1])
           /\ k[2] = "final" => k = FKey(k[1])
BY DEF IKey, FKey, Key, OneShotKind

(* What no decision of a job depends on may change in a row. *)
SameRow(a, b) == b.status = a.status /\ b.hasReport = a.hasReport /\ b.trk = a.trk

RowsSame == \A m \in Message : SameRow(alarm[m], alarm'[m])

(* Without a change of status, an intermediate report that can no longer   *)
(* be attempted stays so, and the final one moves only once it is time.    *)
ReportsMove ==
    \A m \in Message :
        LET i == IKey(m)
            f == FKey(m)
        IN /\ \/ op'[i] = op[i]
              \/ op'[i] # "absent" /\ (op[i] \in NotAttempted \/ op'[i] \notin NotAttempted)
           /\ \/ op'[f] = op[f]
              \/ /\ alarm[m].status = "pending" /\ FinalAt(alarm[m]) <= JobTime
                 /\ op'[f] # "absent"

LEMMA TimesAreNumbers ==
    ASSUME IInv
    PROVE  /\ now \in Nat /\ job.now \in Nat /\ JobTime \in Nat
           /\ \A m \in Message : /\ alarm[m].trk \in Nat
                                  /\ FinalAt(alarm[m]) \in Nat
                                  /\ IntermediateAt(alarm[m]) \in Nat
                                  /\ ExpiresAt(alarm[m]) \in Nat
BY RowAssumption DEF IInv, TypeOK, JobTime, RowAssumption, Alarm, FinalAt, IntermediateAt, ExpiresAt

LEMMA TablesKept ==
    ASSUME IInv, IInv', TablesOK, RowsSame, ReportsMove, JobTime <= JobTime'
    PROVE  TablesOK'
<1>. SUFFICES ASSUME NEW m \in Message
              PROVE  /\ Settled(alarm[m], op[IKey(m)], op[FKey(m)])'
                     /\ DueInTime(alarm[m], op[FKey(m)], JobTime)'
  BY DEF TablesOK
<1>1. SameRow(alarm[m], alarm'[m]) /\ FinalAt(alarm'[m]) = FinalAt(alarm[m])
  BY DEF RowsSame, SameRow, FinalAt
<1>2. Settled(alarm'[m], op'[IKey(m)], op'[FKey(m)])
  BY <1>1 DEF TablesOK, Settled, SameRow, ReportsMove, TerminalStatus
<1>3. FinalAt(alarm[m]) \in Nat /\ JobTime \in Nat /\ JobTime' \in Nat
  BY TimesAreNumbers DEF IInv, TypeOK, JobTime
<1>4. DueInTime(alarm'[m], op'[FKey(m)], JobTime')
  <2>. SUFFICES ASSUME alarm[m].status = "pending", op'[FKey(m)] \notin {"absent", "not_due"}
                PROVE  FinalAt(alarm[m]) <= JobTime
    BY <1>1, <1>3 DEF DueInTime, SameRow
  <2>. QED
    BY DEF ReportsMove, TablesOK, DueInTime
<1>. QED
  BY <1>2, <1>4

(* Operations of any other kind leave the scheduled reports alone. *)
LEMMA OtherKindMoves ==
    ASSUME IInv, NEW k \in Key, k[2] \notin {"intermediate", "final"}, NEW state,
           op' = PrepareOutgoing(op, k, state)
    PROVE  ReportsMove
<1>1. \A m \in Message : k # IKey(m) /\ k # FKey(m)
  BY ReportKeys
<1>2. \A m \in Message : op'[IKey(m)] = op[IKey(m)] /\ op'[FKey(m)] = op[FKey(m)]
  BY <1>1, ReportKeys DEF PrepareOutgoing, IInv, TypeOK
<1>. QED
  BY <1>2 DEF ReportsMove

LEMMA NoMove == ASSUME UNCHANGED op PROVE ReportsMove
BY DEF ReportsMove

(* The intermediate report is given up. *)
LEMMA SkipMoves ==
    ASSUME IInv, NEW m \in Message, op' = SkipOperations(op, {IKey(m)})
    PROVE  ReportsMove /\ op'[IKey(m)] \notin NotAttempted
<1>1. \A n \in Message : IKey(n) # FKey(n) /\ FKey(n) # IKey(m)
  BY ReportKeys
<1>2. \A n \in Message : op'[FKey(n)] = op[FKey(n)]
  BY <1>1, ReportKeys DEF SkipOperations
<1>3. \A n \in Message : \/ op'[IKey(n)] = op[IKey(n)]
                         \/ op[IKey(n)] \in NotAttempted /\ op'[IKey(n)] = "skipped"
  BY ReportKeys DEF SkipOperations
<1>4. op'[IKey(m)] \notin NotAttempted
  BY ReportKeys DEF SkipOperations, NotAttempted
<1>. QED
  BY <1>2, <1>3, <1>4 DEF ReportsMove

(* A report becomes due. *)
LEMMA DueMoves ==
    ASSUME IInv, NEW k \in Key, op' = MarkOutgoingDue(op, k),
           k[2] = "final" => /\ alarm[k[1]].status = "pending"
                             /\ FinalAt(alarm[k[1]]) <= JobTime
    PROVE  ReportsMove
<1>1. \A n \in Key : \/ op'[n] = op[n]
                     \/ n = k /\ op[n] = "not_due" /\ op'[n] = "due_not_attempted"
  BY DEF MarkOutgoingDue, IInv, TypeOK
<1>. QED
  BY <1>1, ReportKeys DEF ReportsMove, NotAttempted

-----------------------------------------------------------------------------
(* The job.                                                                *)

Decided == PassOK /\ SubjectOK /\ SendOK

(* A step may end sessions, but neither reopens nor moves one.             *)
RowsClose == \A m \in Message : /\ alarm'[m].trk = alarm[m].trk
                                /\ IsActive(alarm'[m]) => IsActive(alarm[m])

LEMMA SameRowsClose == RowsSame => RowsClose
BY DEF RowsSame, SameRow, RowsClose, IsActive

(* The tracker's lock is released: nothing is claimed of a job. *)
LEMMA ReleaseJob ==
    ASSUME IInv, SInv, Release, now' \in Nat, now <= now'
    PROVE  Decided' /\ JobTime <= JobTime'
<1>1. pc' = "free" /\ job'.now = 0
  BY DEF Release, Idle
<1>2. Decided'
  BY <1>1 DEF Decided, PassOK, SubjectOK, SendOK, ForFinal, Working, AttemptPc
<1>3. JobTime <= JobTime'
  BY <1>1, TimesAreNumbers DEF JobTime, SInv, SubjectOK
<1>. QED
  BY <1>2, <1>3

(* An evaluation returns: its pass goes on, or its reaction, or nothing. *)
LEMMA ReturnJob ==
    ASSUME IInv, SInv, pc # "free", NEW back \in Resting, Return(back),
           RowsClose, UNCHANGED <<now, started>>,
           back = "select" => job.by = "tick",
           back \in {"apply", "settle"} => job.m \in Message /\ Subject(job.m)
    PROVE  Decided' /\ JobTime <= JobTime'
<1>1. CASE back = "free"
  <2>1. now \in Nat
    BY TimesAreNumbers
  <2>. QED
    BY <1>1, <2>1, ReleaseJob DEF Return
<1>2. CASE back # "free"
  <2>1. job \in Job /\ NoText \in Text
    BY DEF IInv, TypeOK, Job, NoText, Text
  <2>2. /\ pc' = back /\ back \in {"select", "apply", "settle"}
        /\ job'.now = job.now /\ job'.by = job.by /\ job'.back = "free"
        /\ back # "select" => job'.m = job.m
    BY <1>2, <2>1 DEF Return, Resting, Job
  <2>3. PassOK'
    BY <2>2 DEF SInv, PassOK, RowsClose, OwnActive, ExpiresAt
  <2>4. SubjectOK'
    BY <2>2 DEF SInv, SubjectOK, RowsClose, Subject, ExpiresAt, Working, AttemptPc
  <2>5. SendOK'
    BY <2>2 DEF SendOK, ForFinal, Working, AttemptPc
  <2>6. JobTime' = JobTime
    BY <2>2 DEF JobTime
  <2>. QED
    BY <2>3, <2>4, <2>5, <2>6, TimesAreNumbers DEF Decided
<1>. QED
  BY <1>1, <1>2

(* What an attempt presupposes. *)
Attemptable(k) ==
    LET a == alarm[k[1]]
    IN /\ Subject(k[1])
       /\ IsActive(a) \/ (k[2] = "host_reaction" /\ a.status = "error")
       /\ k[2] = "final" => /\ a.status = "pending" /\ FinalAt(a) <= job.now
                            /\ op'[IKey(k[1])] \notin NotAttempted
                            /\ op'[k] \notin {"absent", "not_due"}
       /\ k[2] = "intermediate" => /\ a.status = "pending"
                                   /\ IntermediateAt(a) <= job.now
                                   /\ job.now < FinalAt(a)

LEMMA AttemptJob ==
    ASSUME IInv, SInv, pc # "free", NEW k \in Key, NEW text, NEW back,
           Attempt(k, text, back), UNCHANGED <<alarm, now, started>>,
           back = "select" => job.by = "tick", Attemptable(k)
    PROVE  Decided' /\ JobTime <= JobTime'
<1>1. /\ pc' = "claim" /\ key' = k
      /\ job'.now = job.now /\ job'.by = job.by /\ job'.back = back
      /\ job'.m = k[1] /\ k[1] \in Message
  BY KeyMessage DEF Attempt, IInv, TypeOK, Job
<1>2. PassOK'
  BY <1>1 DEF SInv, PassOK, OwnActive
<1>3. SubjectOK'
  BY <1>1 DEF SInv, SubjectOK, Subject, Attemptable
<1>4. SendOK'
  BY <1>1 DEF SendOK, ForFinal, Attemptable, AttemptPc
<1>5. JobTime' = JobTime
  BY <1>1 DEF JobTime
<1>. QED
  BY <1>2, <1>3, <1>4, <1>5, TimesAreNumbers DEF Decided

(* The job goes on with its session. *)
LEMMA GotoJob ==
    ASSUME IInv, SInv, pc # "free", job.m \in Message, Subject(job.m),
           RowsClose, UNCHANGED <<now, started>>,
           NEW at \in {"settle", "apply", "after", "replay", "evaluate"}, Goto(at)
    PROVE  Decided' /\ JobTime <= JobTime'
<1>1. pc' = at /\ job' = job
  BY DEF Goto
<1>2. PassOK'
  BY <1>1 DEF SInv, PassOK, RowsClose, OwnActive, ExpiresAt
<1>3. SubjectOK'
  BY <1>1 DEF SInv, SubjectOK, RowsClose, Subject, ExpiresAt, Working, AttemptPc
<1>4. SendOK'
  BY <1>1 DEF SendOK, ForFinal, Working, AttemptPc
<1>5. JobTime' = JobTime
  BY <1>1 DEF JobTime
<1>. QED
  BY <1>2, <1>3, <1>4, <1>5, TimesAreNumbers DEF Decided

-----------------------------------------------------------------------------
(* The evaluations.                                                        *)

(* Where an evaluation of m may be called from, to return to back. *)
Called(m, back) ==
    /\ pc # "free" /\ back \in Resting
    /\ back = "select" => job.by = "tick"
    /\ back \in {"apply", "settle"} => m = job.m
    /\ IsActive(alarm[m]) /\ Subject(m)

LEMMA CompleteDecides ==
    ASSUME IInv, IInv', SInv, NEW m \in Message, NEW back, Called(m, back),
           Complete(m, back), UNCHANGED <<now, started>>
    PROVE  SInv'
<1>. DEFINE edited == alarm[m].status = "reported" /\ alarm[m].hasReport
            k == <<m, IF edited THEN "completion_edit" ELSE "completion", 0>>
<1>1. k \in Key /\ k[1] = m /\ k[2] \in {"completion", "completion_edit"}
  BY OneShotKey DEF OneShotKind
<1>2. /\ UNCHANGED alarm
      /\ \/ /\ op' = PrepareOutgoing(op, k, "skipped")
            /\ pc' = "post" /\ key' = k
            /\ job' = [job EXCEPT !.m = m, !.back = back, !.result = "skipped"]
         \/ /\ op' = PrepareOutgoing(op, k, "due_not_attempted")
            /\ Attempt(k, NoText, back)
  BY DEF Complete
<1>. HIDE DEF k
<1>3. ReportsMove
  BY <1>1, <1>2, OtherKindMoves
<1>4. Decided' /\ JobTime <= JobTime'
  <2>1. CASE Attempt(k, NoText, back)
    <3>1. Attemptable(k)
      BY <1>1 DEF Called, Attemptable
    <3>. QED
      BY <1>1, <1>2, <2>1, <3>1, AttemptJob DEF Called
  <2>2. CASE /\ pc' = "post" /\ key' = k
             /\ job' = [job EXCEPT !.m = m, !.back = back, !.result = "skipped"]
    <3>1. /\ job'.now = job.now /\ job'.by = job.by /\ job'.back = back /\ job'.m = m
      BY <2>2 DEF IInv, TypeOK
    <3>2. PassOK'
      BY <1>2, <2>2, <3>1 DEF SInv, PassOK, OwnActive, Called
    <3>3. SubjectOK'
      BY <1>2, <2>2, <3>1 DEF SInv, SubjectOK, Subject, Called
    <3>4. SendOK'
      BY <1>1, <1>2, <2>2, <3>1 DEF SendOK, ForFinal, Called, AttemptPc
    <3>5. JobTime' = JobTime
      BY <2>2, <3>1 DEF JobTime, Called
    <3>. QED
      BY <3>2, <3>3, <3>4, <3>5, TimesAreNumbers DEF Decided
  <2>. QED
    BY <1>2, <2>1, <2>2
<1>5. TablesOK'
  BY <1>2, <1>3, <1>4, TablesKept DEF SInv, RowsSame, SameRow
<1>. QED
  BY <1>4, <1>5 DEF SInv, Decided

(* A step of a job that changes no status and no report but within its     *)
(* time leaves the tables in order.                                        *)
LEMMA TablesDecide ==
    ASSUME IInv, IInv', SInv, RowsSame, ReportsMove, Decided' /\ JobTime <= JobTime'
    PROVE  SInv'
BY TablesKept DEF SInv, Decided

LEMMA IntermediateDecides ==
    ASSUME IInv, IInv', SInv, NEW m \in Message, NEW back, Called(m, back),
           alarm[m].status = "pending", IntermediateAt(alarm[m]) <= job.now,
           ProcessIntermediate(m, back), UNCHANGED <<now, started>>
    PROVE  SInv'
<1>1. \/ Return(back) /\ UNCHANGED <<alarm, op>>
      \/ op' = SkipOperations(op, {IKey(m)}) /\ Return(back) /\ UNCHANGED alarm
      \/ Complete(m, back)
      \/ /\ ~(job.now >= FinalAt(alarm[m]))
         /\ op' = MarkOutgoingDue(op, IKey(m))
         /\ Attempt(IKey(m), NoText, back)
         /\ UNCHANGED alarm
  BY DEF ProcessIntermediate, IKey
<1>2. UNCHANGED alarm => RowsSame /\ RowsClose
  BY SameRowsClose DEF RowsSame, SameRow
<1>3. ASSUME Return(back), UNCHANGED alarm
      PROVE  Decided' /\ JobTime <= JobTime'
  BY <1>2, <1>3, ReturnJob DEF Called
<1>4. CASE Return(back) /\ UNCHANGED <<alarm, op>>
  BY <1>2, <1>3, <1>4, NoMove, TablesDecide
<1>5. CASE op' = SkipOperations(op, {IKey(m)}) /\ Return(back) /\ UNCHANGED alarm
  BY <1>2, <1>3, <1>5, SkipMoves, TablesDecide
<1>6. CASE Complete(m, back)
  BY <1>6, CompleteDecides
<1>7. CASE /\ ~(job.now >= FinalAt(alarm[m]))
           /\ op' = MarkOutgoingDue(op, IKey(m))
           /\ Attempt(IKey(m), NoText, back)
           /\ UNCHANGED alarm
  <2>1. job.now < FinalAt(alarm[m])
    BY <1>7, TimesAreNumbers
  <2>2. Attemptable(IKey(m))
    BY <2>1, ReportKeys DEF Attemptable, Called
  <2>3. ReportsMove
    BY <1>7, ReportKeys, DueMoves
  <2>. QED
    BY <1>2, <1>7, <2>2, <2>3, ReportKeys, AttemptJob, TablesDecide DEF Called
<1>. QED
  BY <1>1, <1>4, <1>5, <1>6, <1>7

LEMMA FinalDecides ==
    ASSUME IInv, IInv', SInv, NEW m \in Message, NEW back, Called(m, back),
           alarm[m].status = "pending", FinalAt(alarm[m]) <= job.now,
           ProcessFinal(m, back), UNCHANGED <<now, started>>
    PROVE  SInv'
<1>1. /\ op' = SkipOperations(op, {IKey(m)}) /\ pc' = "snapshot"
      /\ job'.now = job.now /\ job'.by = job.by /\ job'.back = back /\ job'.m = m
      /\ UNCHANGED <<alarm, key>>
  BY DEF ProcessFinal, IKey, IInv, TypeOK
<1>2. RowsSame
  BY <1>1 DEF RowsSame, SameRow
<1>3. ReportsMove /\ op'[IKey(m)] \notin NotAttempted
  BY <1>1, SkipMoves
<1>4. PassOK'
  BY <1>1 DEF SInv, PassOK, OwnActive, Called
<1>5. SubjectOK'
  BY <1>1 DEF SInv, SubjectOK, Subject, Called
<1>6. SendOK'
  BY <1>1, <1>3 DEF SendOK, ForFinal, Called, AttemptPc
<1>7. JobTime' = JobTime
  BY <1>1 DEF JobTime, Called
<1>. QED
  BY <1>2, <1>3, <1>4, <1>5, <1>6, <1>7, TimesAreNumbers, TablesDecide DEF Decided

LEMMA EditDecides ==
    ASSUME IInv, IInv', SInv, NEW m \in Message, NEW back, Called(m, back),
           ProcessEdit(m, back), UNCHANGED <<now, started>>
    PROVE  SInv'
<1>. DEFINE k == <<m, "report_edit", alarm[m].rev>>
<1>1. k \in Key /\ k[1] = m /\ k[2] = "report_edit"
  BY EditKey DEF IInv, TypeOK, Alarm
<1>2. \/ /\ alarm' = [alarm EXCEPT ![m] = ClearEditDue(alarm[m])]
         /\ Return(back) /\ UNCHANGED op
      \/ /\ op' = PrepareOutgoing(op, k, "due_not_attempted")
         /\ Attempt(k, ReportText(alarm[m]), back) /\ UNCHANGED alarm
  BY DEF ProcessEdit
<1>. HIDE DEF k
<1>3. CASE /\ alarm' = [alarm EXCEPT ![m] = ClearEditDue(alarm[m])]
           /\ Return(back) /\ UNCHANGED op
  <2>1. RowsSame
    BY <1>3 DEF RowsSame, SameRow, ClearEditDue, IInv, TypeOK, Alarm
  <2>2. Decided' /\ JobTime <= JobTime'
    BY <1>3, <2>1, SameRowsClose, ReturnJob DEF Called
  <2>. QED
    BY <1>3, <2>1, <2>2, NoMove, TablesDecide
<1>4. CASE /\ op' = PrepareOutgoing(op, k, "due_not_attempted")
           /\ Attempt(k, ReportText(alarm[m]), back) /\ UNCHANGED alarm
  <2>1. Attemptable(k)
    BY <1>1 DEF Attemptable, Called
  <2>2. RowsSame /\ ReportsMove
    BY <1>1, <1>4, OtherKindMoves DEF RowsSame, SameRow
  <2>3. Decided' /\ JobTime <= JobTime'
    BY <1>1, <1>4, <2>1, AttemptJob DEF Called
  <2>. QED
    BY <2>2, <2>3, TablesDecide
<1>. QED
  BY <1>2, <1>3, <1>4

-----------------------------------------------------------------------------
(* The steps that end sessions.                                            *)

LEMMA SkipAll ==
    ASSUME IInv, NEW keys
    PROVE  \A k \in Key : /\ SkipOperations(op, keys)[k] =
                                IF k \in keys /\ op[k] \in NotAttempted
                                THEN "skipped" ELSE op[k]
                          /\ "skipped" \notin NotAttempted \cup {"absent", "not_due"}
BY DEF SkipOperations, NotAttempted

(* Expired sessions leave no report waiting, and the others are not yet    *)
(* expired. *)
LEMMA ExpireTables ==
    ASSUME IInv, SInv, NEW from \in Nat, ExpireDue(from), pc = "free",
           JobTime' \in Nat, now <= JobTime'
    PROVE  /\ TablesOK' /\ RowsClose
           /\ \A m \in Message : /\ alarm'[m].status = "none" <=> alarm[m].status = "none"
                                 /\ alarm[m].trk < from => alarm'[m] = alarm[m]
           /\ \A m \in Message : IsActive(alarm'[m]) /\ alarm'[m].trk >= from
                                     => now < ExpiresAt(alarm'[m])
<1>1. ASSUME NEW m \in Message
      PROVE  /\ alarm'[m].trk = alarm[m].trk
             /\ IsActive(alarm'[m]) => alarm'[m] = alarm[m]
             /\ alarm'[m].status = "none" <=> alarm[m].status = "none"
             /\ alarm[m].trk < from => alarm'[m] = alarm[m]
             /\ IsActive(alarm'[m]) /\ alarm'[m].trk >= from => now < ExpiresAt(alarm'[m])
             /\ Settled(alarm'[m], op'[IKey(m)], op'[FKey(m)])
             /\ DueInTime(alarm'[m], op'[FKey(m)], JobTime')
  <2>. DEFINE keys == {k \in Key : k[1] \in DueToExpire(alarm, now, from)}
  <2>1. /\ Settled(alarm[m], op[IKey(m)], op[FKey(m)])
        /\ DueInTime(alarm[m], op[FKey(m)], JobTime)
        /\ alarm[m] \in Alarm /\ alarm[m].trk \in Nat
    BY DEF SInv, TablesOK, IInv, TypeOK, Alarm
  <2>2. /\ JobTime = now /\ now \in Nat
        /\ ExpiresAt(alarm[m]) \in Nat /\ FinalAt(alarm[m]) \in Nat
    BY TimesAreNumbers DEF JobTime
  <2>3. op' = SkipOperations(op, keys)
    BY DEF ExpireDue
  <2>4. CASE m \in DueToExpire(alarm, now, from)
    <3>1. /\ alarm'[m] = [alarm[m] EXCEPT !.status = "expired", !.editDue = None]
          /\ IsActive(alarm[m]) /\ alarm[m].trk >= from
      BY <2>4 DEF ExpireDue, ExpireAlarms, DueToExpire
    <3>2. alarm'[m].status = "expired" /\ alarm'[m].trk = alarm[m].trk
      BY <2>1, <3>1 DEF Alarm
    <3>3. IKey(m) \in keys /\ FKey(m) \in keys
      BY <2>4, ReportKeys
    <3>. HIDE DEF keys
    <3>4. /\ op'[IKey(m)] \notin NotAttempted /\ op'[FKey(m)] \notin NotAttempted
          /\ op[IKey(m)] # "absent" => op'[IKey(m)] # "absent"
          /\ op[FKey(m)] # "absent" => op'[FKey(m)] # "absent"
      BY <2>3, <3>3, SkipAll, ReportKeys
    <3>. QED
      BY <2>1, <2>2, <3>1, <3>2, <3>4
         DEF Settled, DueInTime, IsActive, ActiveStatus, TerminalStatus
  <2>5. CASE m \notin DueToExpire(alarm, now, from)
    <3>1. alarm'[m] = alarm[m]
      BY <2>5 DEF ExpireDue, ExpireAlarms
    <3>2. IKey(m) \notin keys /\ FKey(m) \notin keys
      BY <2>5, ReportKeys
    <3>. HIDE DEF keys
    <3>3. op'[IKey(m)] = op[IKey(m)] /\ op'[FKey(m)] = op[FKey(m)]
      BY <2>3, <3>2, SkipAll, ReportKeys
    <3>4. IsActive(alarm[m]) /\ alarm[m].trk >= from => now < ExpiresAt(alarm[m])
      BY <2>2, <2>5 DEF DueToExpire
    <3>5. DueInTime(alarm'[m], op'[FKey(m)], JobTime')
      BY <2>1, <2>2, <3>1, <3>3 DEF DueInTime
    <3>. QED
      BY <2>1, <3>1, <3>3, <3>4, <3>5
  <2>. QED
    BY <2>4, <2>5
<1>. QED
  BY <1>1 DEF TablesOK, RowsClose

(* A process that dies may have committed the expiry of a /check.          *)
LEMMA CrashTables ==
    ASSUME Crash
    PROVE  UNCHANGED <<alarm, op>> \/ (pc = "free" /\ pc' = "free" /\ ExpireDue(0))
BY DEF Crash, FirstCommit, durable, Release

(* A new session has both its reports scheduled, or none if it ended as it *)
(* was created. *)
LEMMA CreateTables ==
    ASSUME IInv, IInv', SInv, NEW m \in Message, alarm[m].status = "none",
           NEW source, NEW trk \in Nat, NEW file, Create(m, source, trk, file),
           JobTime <= JobTime'
    PROVE  /\ TablesOK'
           /\ \A n \in Message \ {m} : alarm'[n] = alarm[n]
           /\ alarm'[m].trk = trk
           /\ alarm'[m].status \in {"pending", "expired", "error"}
           /\ alarm'[m].status = "pending" => now < trk + TTL
<1>. DEFINE status == IF file = Unreadable THEN "error"
                      ELSE IF now >= trk + TTL THEN "expired" ELSE "pending"
            released == IF file = Unreadable THEN {} ELSE file
            st == IF status \in ActiveStatus THEN "not_due" ELSE "skipped"
<1>1. /\ status \in {"pending", "expired", "error"}
      /\ status = "pending" => ~(now >= trk + TTL)
  OBVIOUS
<1>2. /\ alarm' = [alarm EXCEPT ![m] = InsertedAlarm(status, source, trk, released)]
      /\ op' = [op EXCEPT ![IKey(m)] = st, ![FKey(m)] = st]
  BY DEF Create, InsertOperations, IKey, FKey
<1>. HIDE DEF status, released
<1>3. /\ alarm'[m].status = status /\ alarm'[m].trk = trk
      /\ \A n \in Message \ {m} : alarm'[n] = alarm[n]
  BY <1>2 DEF InsertedAlarm, NoAlarm, IInv, TypeOK
<1>4. /\ op'[IKey(m)] = st /\ op'[FKey(m)] = st
      /\ \A n \in Message \ {m} : /\ op'[IKey(n)] = op[IKey(n)]
                                   /\ op'[FKey(n)] = op[FKey(n)]
  <2>1. op \in [Key -> OpState]
    BY DEF IInv, TypeOK
  <2>2. \A n \in Message \ {m} : /\ IKey(n) # IKey(m) /\ IKey(n) # FKey(m)
                                 /\ FKey(n) # IKey(m) /\ FKey(n) # FKey(m)
    BY ReportKeys
  <2>3. IKey(m) # FKey(m)
    BY ReportKeys
  <2>. HIDE DEF st
  <2>. QED
    BY <1>2, <2>1, <2>2, <2>3, ReportKeys
<1>5. /\ st \in {"not_due", "skipped"}
      /\ status \in ActiveStatus <=> st = "not_due"
  OBVIOUS
<1>. HIDE DEF st
<1>6. Settled(alarm'[m], op'[IKey(m)], op'[FKey(m)]) /\ DueInTime(alarm'[m], op'[FKey(m)], JobTime')
  BY <1>1, <1>3, <1>4, <1>5 DEF Settled, DueInTime, ActiveStatus, TerminalStatus, NotAttempted
<1>7. ASSUME NEW n \in Message \ {m}
      PROVE  Settled(alarm'[n], op'[IKey(n)], op'[FKey(n)]) /\ DueInTime(alarm'[n], op'[FKey(n)], JobTime')
  <2>1. /\ Settled(alarm[n], op[IKey(n)], op[FKey(n)])
        /\ DueInTime(alarm[n], op[FKey(n)], JobTime)
    BY DEF SInv, TablesOK
  <2>2. FinalAt(alarm[n]) \in Nat /\ JobTime \in Nat /\ JobTime' \in Nat
    BY TimesAreNumbers DEF IInv, TypeOK, JobTime
  <2>. QED
    BY <1>3, <1>4, <2>1, <2>2 DEF DueInTime
<1>8. TablesOK'
  BY <1>6, <1>7 DEF TablesOK
<1>9. status = "pending" => now < trk + TTL
  BY <1>1, TimesAreNumbers, RowAssumption DEF RowAssumption
<1>. QED
  BY <1>1, <1>3, <1>8, <1>9

(* The transition of the alarm that an attempt leads to. *)
LEMMA PostDecides == IInv /\ IInv' /\ SInv /\ Post => SInv'
<1>. SUFFICES ASSUME IInv, IInv', SInv, Post PROVE SInv'
  OBVIOUS
<1>. DEFINE m == job.m
            a == alarm[m]
            b == AfterAttempt(a, key[2], job.result, job.text)
            keys == {IKey(m), FKey(m)}
<1>1. /\ pc = "post" /\ m \in Message /\ key \in Key /\ a \in Alarm
      /\ job.back \in Resting /\ key[1] = m
  BY DEF Post, IInv, TypeOK, JobOK, AttemptPc, SInv, SendOK
<1>2. /\ alarm'[m] = b /\ \A n \in Message \ {m} : alarm'[n] = alarm[n]
      /\ op' = IF key[2] \in {"completion", "completion_edit"}
               THEN SkipOperations(op, keys) ELSE op
      /\ Return(job.back) /\ UNCHANGED <<now, started>>
  BY <1>1 DEF Post, IInv, TypeOK, rest, IKey, FKey
<1>3. /\ b.trk = a.trk
      /\ IsActive(b) => IsActive(a)
      /\ key[2] \in {"completion", "completion_edit"} =>
            b.status = IF IsActive(a) THEN "completed" ELSE a.status
      /\ key[2] = "final" =>
            IF a.status = "pending"
            THEN b.status = "reported" /\ b.hasReport = (job.result = "attempted_success")
            ELSE b = a
      /\ key[2] \notin {"completion", "completion_edit", "final"} => SameRow(a, b)
  <2>1. /\ key[2] = "final" => b = MarkReported(a, job.result, job.text)
        /\ key[2] \in {"completion", "completion_edit"} => b = MarkCompleted(a)
        /\ key[2] \notin {"completion", "completion_edit", "final"} =>
              b \in {a, RecordSuccessfulEdit(a, job.text), ClearEditDue(a)}
    BY DEF AfterAttempt
  <2>2. LET c == MarkReported(a, job.result, job.text)
        IN /\ c.trk = a.trk
           /\ IsActive(c) => IsActive(a)
           /\ IF a.status = "pending"
              THEN c.status = "reported" /\ c.hasReport = (job.result = "attempted_success")
              ELSE c = a
    BY <1>1 DEF MarkReported, IsActive, ActiveStatus, Alarm
  <2>3. LET c == MarkCompleted(a)
        IN /\ c.trk = a.trk
           /\ IsActive(c) => IsActive(a)
           /\ c.status = IF IsActive(a) THEN "completed" ELSE a.status
    BY <1>1 DEF MarkCompleted, IsActive, ActiveStatus, Alarm
  <2>4. \A c \in {a, RecordSuccessfulEdit(a, job.text), ClearEditDue(a)} : SameRow(a, c)
    BY <1>1 DEF RecordSuccessfulEdit, ClearEditDue, SameRow, Alarm
  <2>. HIDE DEF b
  <2>. QED
    BY <2>1, <2>2, <2>3, <2>4 DEF SameRow, IsActive
<1>. HIDE DEF b
<1>4. RowsClose
  BY <1>1, <1>2, <1>3 DEF RowsClose
<1>5. Decided' /\ JobTime <= JobTime'
  BY <1>1, <1>2, <1>4, ReturnJob DEF SInv, SubjectOK, Working, AttemptPc
<1>6. /\ Settled(a, op[IKey(m)], op[FKey(m)]) /\ DueInTime(a, op[FKey(m)], JobTime)
  BY <1>1 DEF SInv, TablesOK
<1>7. JobTime \in Nat /\ JobTime' \in Nat /\ \A n \in Message : FinalAt(alarm[n]) \in Nat
  BY TimesAreNumbers DEF IInv, TypeOK, JobTime
<1>8. CASE key[2] \in {"completion", "completion_edit"}
  <2>1. \A n \in Message \ {m} : IKey(n) \notin keys /\ FKey(n) \notin keys
    BY <1>1, ReportKeys
  <2>2. /\ \A n \in Message \ {m} : op'[IKey(n)] = op[IKey(n)] /\ op'[FKey(n)] = op[FKey(n)]
        /\ op'[IKey(m)] \notin NotAttempted /\ op'[FKey(m)] \notin NotAttempted
        /\ op[IKey(m)] # "absent" => op'[IKey(m)] # "absent"
        /\ op[FKey(m)] # "absent" => op'[FKey(m)] # "absent"
        /\ op[FKey(m)] \notin NotAttempted => op'[FKey(m)] = op[FKey(m)]
        /\ op[IKey(m)] \notin NotAttempted => op'[IKey(m)] = op[IKey(m)]
    BY <1>1, <1>2, <1>8, <2>1, SkipAll, ReportKeys
  <2>3. b.status \in TerminalStatus \/ b.status = "none"
    BY <1>1, <1>3, <1>8 DEF Alarm, Status, IsActive, TerminalStatus
  <2>4. a.status = "none" <=> b.status = "none"
    BY <1>3, <1>8 DEF IsActive, ActiveStatus
  <2>5. Settled(b, op'[IKey(m)], op'[FKey(m)]) /\ DueInTime(b, op'[FKey(m)], JobTime')
    BY <1>6, <2>2, <2>3, <2>4 DEF Settled, DueInTime, TerminalStatus
  <2>6. ASSUME NEW n \in Message \ {m}
        PROVE  Settled(alarm'[n], op'[IKey(n)], op'[FKey(n)]) /\ DueInTime(alarm'[n], op'[FKey(n)], JobTime')
    <3>1. Settled(alarm[n], op[IKey(n)], op[FKey(n)]) /\ DueInTime(alarm[n], op[FKey(n)], JobTime)
      BY DEF SInv, TablesOK
    <3>2. alarm'[n] = alarm[n] /\ op'[IKey(n)] = op[IKey(n)] /\ op'[FKey(n)] = op[FKey(n)]
      BY <1>2, <2>2
    <3>3. JobTime <= JobTime' /\ JobTime \in Nat /\ JobTime' \in Nat /\ FinalAt(alarm[n]) \in Nat
      BY <1>5, <1>7
    <3>. QED
      BY <3>1, <3>2, <3>3 DEF DueInTime
  <2>7. TablesOK'
    BY <1>1, <1>2, <2>5, <2>6 DEF TablesOK
  <2>. QED
    BY <1>5, <2>7 DEF SInv, Decided
<1>9. CASE key[2] = "final"
  <2>1. /\ a.status = "pending" /\ key = FKey(m) /\ op' = op
        /\ op[IKey(m)] \notin NotAttempted
        /\ job.result = op[FKey(m)] /\ op[FKey(m)] \in Attempted \cup {"skipped"}
    BY <1>1, <1>2, <1>9, ReportKeyOf DEF SInv, SendOK, ForFinal, AttemptPc
  <2>2. Settled(b, op'[IKey(m)], op'[FKey(m)]) /\ DueInTime(b, op'[FKey(m)], JobTime')
    BY <1>3, <1>6, <1>9, <2>1 DEF Settled, DueInTime, TerminalStatus
  <2>3. ASSUME NEW n \in Message \ {m}
        PROVE  Settled(alarm'[n], op'[IKey(n)], op'[FKey(n)]) /\ DueInTime(alarm'[n], op'[FKey(n)], JobTime')
    <3>1. Settled(alarm[n], op[IKey(n)], op[FKey(n)]) /\ DueInTime(alarm[n], op[FKey(n)], JobTime)
      BY DEF SInv, TablesOK
    <3>2. alarm'[n] = alarm[n] /\ op' = op
      BY <1>2, <2>1
    <3>3. JobTime <= JobTime' /\ JobTime \in Nat /\ JobTime' \in Nat /\ FinalAt(alarm[n]) \in Nat
      BY <1>5, <1>7
    <3>. QED
      BY <3>1, <3>2, <3>3 DEF DueInTime
  <2>4. TablesOK'
    BY <1>1, <1>2, <2>2, <2>3 DEF TablesOK
  <2>. QED
    BY <1>5, <2>4 DEF SInv, Decided
<1>10. CASE key[2] \notin {"completion", "completion_edit", "final"}
  <2>1. RowsSame
    BY <1>1, <1>2, <1>3, <1>10 DEF RowsSame, SameRow
  <2>. QED
    BY <1>2, <1>5, <1>10, <2>1, NoMove, TablesDecide
<1>. QED
  BY <1>8, <1>9, <1>10

-----------------------------------------------------------------------------
(* The steps of an attempt.                                                *)

(* They move their own operation, at its time, and leave the session. *)
LEMMA OwnOperation ==
    ASSUME IInv, IInv', SInv, pc \in {"claim", "issue", "rpc"}, pc' \in AttemptPc,
           UNCHANGED <<alarm, now, started, key>>,
           job' \in {job, [job EXCEPT !.result = job'.result]},
           \A k \in Key \ {key} : op'[k] = op[k],
           op'[key] = op[key] \/ op'[key] \notin NotAttempted \cup {"absent"},
           pc' = "post" /\ key[2] = "final" =>
               job'.result = op'[key] /\ op'[key] \in Attempted \cup {"skipped"}
    PROVE  SInv'
<1>1. /\ pc \in AttemptPc \ {"post"} /\ pc # "free"
      /\ key \in Key /\ job.m \in Message /\ key[1] = job.m
  BY DEF IInv, JobOK, SInv, SendOK, AttemptPc
<1>2. job'.m = job.m /\ job'.now = job.now /\ job'.by = job.by /\ job'.back = job.back
  <2>. DEFINE other == [job EXCEPT !.result = job'.result]
  <2>1. other.m = job.m /\ other.now = job.now /\ other.by = job.by /\ other.back = job.back
    BY DEF IInv, TypeOK
  <2>. HIDE DEF other
  <2>. QED
    BY <2>1 DEF other
<1>3. JobTime' = JobTime /\ JobTime = job.now /\ job.now \in Nat
  BY <1>1, <1>2, TimesAreNumbers DEF JobTime, AttemptPc
<1>4. RowsSame
  BY DEF RowsSame, SameRow
<1>5. ReportsMove
  <2>1. \A m \in Message : \/ op'[IKey(m)] = op[IKey(m)]
                           \/ op'[IKey(m)] \notin NotAttempted \cup {"absent"}
    BY ReportKeys
  <2>2. \A m \in Message : \/ op'[FKey(m)] = op[FKey(m)]
                           \/ op'[FKey(m)] # "absent" /\ key = FKey(m)
    BY ReportKeys
  <2>3. \A m \in Message : key = FKey(m) =>
          alarm[m].status = "pending" /\ FinalAt(alarm[m]) <= JobTime
    BY <1>1, <1>3, ReportKeys DEF SInv, SendOK, ForFinal
  <2>. QED
    BY <2>1, <2>2, <2>3 DEF ReportsMove
<1>6. PassOK'
  BY <1>1, <1>2 DEF SInv, PassOK, OwnActive, AttemptPc
<1>7. SubjectOK'
  BY <1>1, <1>2 DEF SInv, SubjectOK, Subject, Working, AttemptPc
<1>8. SendOK'
  <2>1. key[2] = "final" => /\ op'[IKey(job.m)] = op[IKey(job.m)]
                            /\ op'[key] \notin {"absent", "not_due"}
    BY <1>1, ReportKeys DEF SInv, SendOK, NotAttempted
  <2>. QED
    BY <1>1, <1>2, <2>1 DEF SInv, SendOK, ForFinal, Working, AttemptPc
<1>. QED
  BY <1>3, <1>4, <1>5, <1>6, <1>7, <1>8, TablesDecide DEF Decided

LEMMA AttemptDecides == IInv /\ IInv' /\ SInv /\ AttemptAction => SInv'
<1>. SUFFICES ASSUME IInv, IInv', SInv, AttemptAction PROVE SInv'
  OBVIOUS
<1>1. /\ key \in Key /\ op \in [Key -> OpState] /\ pc \in {"claim", "issue", "rpc"}
      /\ UNCHANGED <<alarm, now, started, key>>
  BY DEF AttemptAction, Claim, Issue, Blocked, Succeed, Fail, RateLimited, LoseAnswer,
         Finish, IInv, TypeOK, JobOK, AttemptPc, durable, ghosts
<1>2. CASE Claim
  <2>1. CASE Claimable(op, key)
    <3>1. /\ op' = [op EXCEPT ![key] = "attempted_uncertain"]
          /\ pc' = "issue" /\ job' = job
      BY <1>2, <2>1 DEF Claim, ClaimOutgoing
    <3>2. "attempted_uncertain" \notin NotAttempted \cup {"absent"}
      BY DEF NotAttempted
    <3>. QED
      BY <1>1, <3>1, <3>2, OwnOperation DEF AttemptPc
  <2>2. CASE ~Claimable(op, key)
    <3>1. /\ op' = op /\ pc' = "post" /\ job' = [job EXCEPT !.result = op[key]]
      BY <1>2, <2>2 DEF Claim
    <3>2. job'.result = op[key] /\ job' = [job EXCEPT !.result = job'.result]
      BY <3>1 DEF IInv, TypeOK
    <3>3. key[2] = "final" => op[key] \in Attempted \cup {"skipped"}
      BY <1>1, <2>2 DEF SInv, SendOK, AttemptPc, Claimable, OpState, NotAttempted
    <3>. QED
      BY <1>1, <3>1, <3>2, <3>3, OwnOperation DEF AttemptPc
  <2>. QED
    BY <2>1, <2>2
<1>3. CASE Issue
  <2>1. op' = op /\ pc' = "rpc" /\ job' = job
    BY <1>3 DEF Issue, durable
  <2>. QED
    BY <1>1, <2>1, OwnOperation DEF AttemptPc
<1>4. ASSUME NEW result \in Attempted \cup {"skipped"}, Finish(result),
             pc \in {"issue", "rpc"}
      PROVE  SInv'
  <2>1. op[key] = "attempted_uncertain"
    BY <1>4 DEF IInv, AttemptOK
  <2>2. op' = [op EXCEPT ![key] = result] /\ pc' = "post"
    BY <1>1, <1>4, <2>1 DEF Finish, FinishOutgoing
  <2>3. job'.result = result /\ job' = [job EXCEPT !.result = job'.result]
    BY <1>4 DEF Finish, IInv, TypeOK
  <2>4. result \notin NotAttempted \cup {"absent"}
    BY DEF Attempted, NotAttempted
  <2>. QED
    BY <1>1, <2>2, <2>3, <2>4, OwnOperation DEF AttemptPc
<1>5. CASE Blocked \/ Succeed \/ Fail \/ RateLimited \/ LoseAnswer
  BY <1>4, <1>5 DEF Blocked, Succeed, Fail, RateLimited, LoseAnswer, Attempted
<1>. QED
  BY <1>2, <1>3, <1>5 DEF AttemptAction

-----------------------------------------------------------------------------
(* The steps of the four kinds of job.                                     *)

(* The second and third transaction of _process_final. *)
LEMMA FinalStepsDecide ==
    IInv /\ IInv' /\ SInv /\ (SnapshotFinal \/ MarkFinalDue) => SInv'
<1>. SUFFICES ASSUME IInv, IInv', SInv, SnapshotFinal \/ MarkFinalDue PROVE SInv'
  OBVIOUS
<1>. DEFINE m == job.m
<1>1. /\ pc \in {"snapshot", "due"} /\ pc # "free" /\ m \in Message
      /\ UNCHANGED <<now, started>> /\ job.back \in Resting
      /\ alarm[m].status = "pending" /\ IsActive(alarm[m])
      /\ FinalAt(alarm[m]) <= job.now
      /\ op[IKey(m)] \notin NotAttempted
      /\ Subject(m)
      /\ job.back = "select" => job.by = "tick"
  BY DEF SnapshotFinal, MarkFinalDue, IInv, JobOK, TypeOK, rest, AttemptPc,
         SInv, SendOK, ForFinal, SubjectOK, Working, IsActive, ActiveStatus
<1>2. CASE SnapshotFinal
  <2>1. CASE Complete(m, job.back)
    BY <1>1, <2>1, CompleteDecides DEF Called
  <2>2. CASE /\ alarm' = [alarm EXCEPT ![m] = SnapshotFinalMissing(@)]
             /\ Goto("due") /\ UNCHANGED op
    <3>1. RowsSame
      BY <2>2 DEF RowsSame, SameRow, SnapshotFinalMissing, IInv, TypeOK, Alarm
    <3>2. pc' = "due" /\ job' = job
      BY <2>2 DEF Goto
    <3>3. /\ PassOK'
          /\ SubjectOK'
      BY <1>1, <3>1, <3>2 DEF SInv, PassOK, SubjectOK, Subject, RowsSame, SameRow,
                              OwnActive, IsActive, ExpiresAt, Working
    <3>4. SendOK'
      BY <1>1, <2>2, <3>1, <3>2
         DEF SendOK, ForFinal, RowsSame, SameRow, IsActive, FinalAt, AttemptPc
    <3>5. JobTime' = JobTime
      BY <1>1, <3>2 DEF JobTime
    <3>. QED
      BY <2>2, <3>1, <3>3, <3>4, <3>5, NoMove, TimesAreNumbers, TablesDecide DEF Decided
  <2>. QED
    BY <1>2, <2>1, <2>2 DEF SnapshotFinal
<1>3. CASE MarkFinalDue
  <2>1. /\ op' = MarkOutgoingDue(op, FKey(m))
        /\ Attempt(FKey(m), ReportText(alarm[m]), job.back) /\ UNCHANGED alarm
    BY <1>3 DEF MarkFinalDue, FKey
  <2>2. JobTime = job.now
    BY <1>1 DEF JobTime
  <2>3. ReportsMove
    BY <1>1, <2>1, <2>2, ReportKeys, DueMoves
  <2>4. op'[FKey(m)] \notin {"absent", "not_due"} /\ op'[IKey(m)] = op[IKey(m)]
    <3>1. op[FKey(m)] # "absent" /\ op \in [Key -> OpState]
      BY <1>1 DEF SInv, TablesOK, Settled, IInv, TypeOK
    <3>. QED
      BY <1>1, <2>1, <3>1, ReportKeys DEF MarkOutgoingDue
  <2>5. Attemptable(FKey(m))
    BY <1>1, <2>4, ReportKeys DEF Attemptable
  <2>6. RowsSame
    BY <2>1 DEF RowsSame, SameRow
  <2>. QED
    BY <1>1, <2>1, <2>3, <2>5, <2>6, ReportKeys, AttemptJob, TablesDecide
<1>. QED
  BY <1>2, <1>3

(* A call begins, knowing the time. *)
LEMMA BeginDecides ==
    ASSUME IInv, IInv', SInv, pc = "free", UNCHANGED <<now, started>>,
           NEW by \in JobKind, NEW m, NEW todo,
           NEW at \in {"select", "intake", "late", "adopt", "replay", "evaluate"},
           Begin(by, at, m, todo),
           at = "select" <=> by = "tick",
           at = "adopt" => by = "check",
           by = "tick" => \A n \in Message : IsActive(alarm'[n]) /\ alarm'[n].trk >= started
                                             => now < ExpiresAt(alarm'[n]),
           at \notin {"select", "intake", "adopt"} =>
               /\ IsActive(alarm'[m]) => now < ExpiresAt(alarm'[m])
               /\ by # "check" => alarm'[m].trk >= started
    PROVE  Decided' /\ JobTime' = now /\ JobTime = now
<1>1. /\ pc' = at /\ job'.now = now /\ job'.by = by /\ job'.m = m
  BY DEF Begin, Idle
<1>2. PassOK'
  BY <1>1 DEF PassOK, OwnActive, ExpiresAt
<1>3. now \in Nat
  BY TimesAreNumbers
<1>4. SubjectOK'
  BY <1>1, <1>3 DEF SubjectOK, Subject, ExpiresAt, Working, AttemptPc
<1>5. SendOK'
  BY <1>1 DEF SendOK, ForFinal, Working, AttemptPc
<1>. QED
  BY <1>1, <1>2, <1>4, <1>5 DEF Decided, JobTime

(* process_due *)
LEMMA TickDecides == IInv /\ IInv' /\ SInv /\ (TickBegin \/ TickRun) => SInv'
<1>. SUFFICES ASSUME IInv, IInv', SInv, TickBegin \/ TickRun PROVE SInv'
  OBVIOUS
<1>1. CASE TickBegin
  <2>1. /\ pc = "free" /\ ExpireDue(started) /\ Begin("tick", "select", 0, {})
        /\ UNCHANGED <<now, started>> /\ started \in Nat
    BY <1>1 DEF TickBegin, rest, IInv, TypeOK
  <2>2. JobTime' = now
    BY <2>1 DEF Begin, Idle, JobTime
  <2>3. /\ TablesOK'
        /\ \A m \in Message : IsActive(alarm'[m]) /\ alarm'[m].trk >= started
                                  => now < ExpiresAt(alarm'[m])
    BY <2>1, <2>2, TimesAreNumbers, ExpireTables
  <2>4. Decided'
    BY <2>1, <2>3, BeginDecides DEF JobKind
  <2>. QED
    BY <2>3, <2>4 DEF SInv, Decided
<1>2. ASSUME NEW m \in Message, pc = "select", IsActive(alarm[m]), alarm[m].trk >= started
      PROVE  Called(m, "select")
  BY <1>2 DEF SInv, SubjectOK, PassOK, OwnActive, Called, Subject, Resting
<1>3. CASE TickComplete
  <2>1. PICK m \in Message : /\ IsActive(alarm[m]) /\ alarm[m].trk >= started
                             /\ Complete(m, "select")
    BY <1>3 DEF TickComplete, ToComplete, DueToComplete, Earliest
  <2>. QED
    BY <1>2, <1>3, <2>1, CompleteDecides DEF TickComplete, rest
<1>4. CASE TickIntermediate
  <2>1. PICK m \in Message : /\ alarm[m].status = "pending" /\ alarm[m].trk >= started
                             /\ IntermediateAt(alarm[m]) <= job.now
                             /\ ProcessIntermediate(m, "select")
    BY <1>4 DEF TickIntermediate, ToIntermediate, DueIntermediate, Earliest
  <2>2. Called(m, "select")
    BY <1>2, <1>4, <2>1 DEF TickIntermediate, IsActive, ActiveStatus
  <2>. QED
    BY <1>4, <2>1, <2>2, IntermediateDecides DEF TickIntermediate, rest
<1>5. CASE TickFinal
  <2>1. PICK m \in Message : /\ alarm[m].status = "pending" /\ alarm[m].trk >= started
                             /\ FinalAt(alarm[m]) <= job.now
                             /\ ProcessFinal(m, "select")
    BY <1>5 DEF TickFinal, ToFinal, DueFinal, Earliest
  <2>2. Called(m, "select")
    BY <1>2, <1>5, <2>1 DEF TickFinal, IsActive, ActiveStatus
  <2>. QED
    BY <1>5, <2>1, <2>2, FinalDecides DEF TickFinal, rest
<1>6. CASE TickEdit
  <2>1. PICK m \in Message : /\ alarm[m].status = "reported" /\ alarm[m].trk >= started
                             /\ ProcessEdit(m, "select")
    BY <1>6 DEF TickEdit, ToEdit, DueEdits, Earliest
  <2>2. Called(m, "select")
    BY <1>2, <1>6, <2>1 DEF TickEdit, IsActive, ActiveStatus
  <2>. QED
    BY <1>6, <2>1, <2>2, EditDecides DEF TickEdit, rest
<1>7. CASE TickEnd
  <2>1. Release /\ UNCHANGED <<now, started, alarm, op>>
    BY <1>7 DEF TickEnd
  <2>2. Decided' /\ JobTime <= JobTime'
    BY <2>1, ReleaseJob, TimesAreNumbers
  <2>3. RowsSame
    BY <2>1 DEF RowsSame, SameRow
  <2>. QED
    BY <2>1, <2>2, <2>3, NoMove, TablesDecide
<1>. QED
  BY <1>1, <1>3, <1>4, <1>5, <1>6, <1>7 DEF TickRun

(* A job that created its session goes on with it. *)
LEMMA CreatedDecides ==
    ASSUME IInv, IInv', SInv, pc \in {"intake", "adopt"}, job.m \in Message,
           alarm[job.m].status = "none", NEW source, NEW trk \in Nat, NEW file,
           Create(job.m, source, trk, file), UNCHANGED <<now, started>>,
           job.by # "check" => trk >= started,
           alarm'[job.m].status # "expired",
           NEW at \in {"host", "settle", "replay", "evaluate"}, Goto(at)
    PROVE  SInv'
<1>1. pc' = at /\ job' = job /\ JobTime = job.now /\ JobTime' = job.now
  BY DEF Goto, JobTime
<1>2. job.now <= now /\ now \in Nat /\ job.now \in Nat
  BY TimesAreNumbers DEF SInv, SubjectOK
<1>3. /\ TablesOK'
      /\ \A n \in Message \ {job.m} : alarm'[n] = alarm[n]
      /\ alarm'[job.m].trk = trk
      /\ alarm'[job.m].status \in {"pending", "error"}
      /\ alarm'[job.m].status = "pending" => now < trk + TTL
  BY <1>1, <1>2, CreateTables
<1>4. IsActive(alarm'[job.m]) => job.now < ExpiresAt(alarm'[job.m])
  <2>1. TTL \in Nat
    BY RowAssumption DEF RowAssumption
  <2>. QED
    BY <1>2, <1>3, <2>1 DEF IsActive, ActiveStatus, ExpiresAt
<1>5. PassOK'
  BY <1>1, <1>3, <1>4 DEF SInv, PassOK, OwnActive, ExpiresAt
<1>6. SubjectOK'
  <2>1. at = "host" => IsActive(alarm'[job.m]) \/ alarm'[job.m].status = "error"
    BY <1>3 DEF IsActive, ActiveStatus
  <2>. QED
    BY <1>1, <1>2, <1>3, <1>4, <2>1 DEF SubjectOK, Subject, ExpiresAt, Working, AttemptPc
<1>7. SendOK'
  BY <1>1 DEF SendOK, ForFinal, Working, AttemptPc
<1>. QED
  BY <1>3, <1>5, <1>6, <1>7 DEF SInv

(* _handle_message *)
LEMMA MessageDecides ==
    IInv /\ IInv' /\ SInv /\ (MessageRun \/ \E m \in Message : MessageBegin(m)) => SInv'
<1>. SUFFICES ASSUME IInv, IInv', SInv, MessageRun \/ \E m \in Message : MessageBegin(m)
              PROVE  SInv'
  OBVIOUS
<1>1. UNCHANGED alarm => RowsSame
  BY DEF RowsSame, SameRow
<1>2. ASSUME NEW m \in Message, MessageBegin(m)
      PROVE  SInv'
  <2>1. /\ pc = "free" /\ Begin("message", "intake", m, {})
        /\ UNCHANGED <<now, started, alarm, op>>
    BY <1>2 DEF MessageBegin
  <2>2. Decided' /\ JobTime' = now /\ JobTime = now
    BY <2>1, BeginDecides DEF JobKind
  <2>. QED
    BY <1>1, <2>1, <2>2, NoMove, TimesAreNumbers, TablesDecide
<1>3. ASSUME Release, UNCHANGED <<now, started, alarm, op>>
      PROVE  SInv'
  BY <1>1, <1>3, ReleaseJob, NoMove, TimesAreNumbers, TablesDecide
<1>4. CASE IntakeIgnored
  BY <1>3, <1>4 DEF IntakeIgnored
<1>5. CASE IntakeTrigger
  <2>1. /\ pc = "intake" /\ job.m \in Message /\ alarm[job.m].status = "none"
        /\ SentAt[job.m] \in Nat /\ SentAt[job.m] >= started
        /\ UNCHANGED <<now, started>>
    BY <1>5, RowAssumption DEF IntakeTrigger, Starts, IInv, JobOK, RowAssumption
  <2>2. PICK file : Create(job.m, "standard", SentAt[job.m], file)
    BY <1>5 DEF IntakeTrigger
  <2>3. CASE alarm'[job.m].status = "expired"
    <3>1. Release
      BY <1>5, <2>3 DEF IntakeTrigger
    <3>2. Decided' /\ JobTime <= JobTime'
      BY <2>1, <3>1, ReleaseJob, TimesAreNumbers
    <3>3. TablesOK'
      BY <2>1, <2>2, <3>2, CreateTables
    <3>. QED
      BY <3>2, <3>3 DEF SInv, Decided
  <2>4. CASE alarm'[job.m].status # "expired"
    <3>1. Goto("host") \/ Goto("settle")
      BY <1>5, <2>4 DEF IntakeTrigger
    <3>. QED
      BY <2>1, <2>2, <2>4, <3>1, CreatedDecides
  <2>. QED
    BY <2>3, <2>4
<1>6. pc \in {"host", "settle"} =>
        /\ job.m \in Message /\ pc # "free" /\ Subject(job.m)
        /\ pc = "host" => IsActive(alarm[job.m]) \/ alarm[job.m].status = "error"
  BY DEF IInv, JobOK, SInv, SubjectOK
<1>7. CASE HostReaction
  <2>. DEFINE k == <<job.m, "host_reaction", 0>>
  <2>1. k \in Key /\ k[1] = job.m /\ k[2] = "host_reaction"
    BY <1>6, <1>7, OneShotKey DEF HostReaction, OneShotKind
  <2>2. /\ pc = "host" /\ op' = PrepareOutgoing(op, k, "due_not_attempted")
        /\ Attempt(k, NoText, "settle") /\ UNCHANGED <<alarm, now, started>>
    BY <1>7 DEF HostReaction, rest
  <2>. HIDE DEF k
  <2>3. Attemptable(k)
    BY <1>6, <2>1, <2>2 DEF Attemptable
  <2>4. Decided' /\ JobTime <= JobTime'
    BY <1>6, <2>1, <2>2, <2>3, AttemptJob
  <2>. QED
    BY <1>1, <2>1, <2>2, <2>4, OtherKindMoves, TablesDecide
<1>8. CASE Settle
  <2>1. CASE IsActive(alarm[job.m]) /\ Complete(job.m, "free")
    <3>1. Called(job.m, "free")
      BY <1>6, <1>8, <2>1 DEF Settle, Called, Resting
    <3>. QED
      BY <1>6, <1>8, <2>1, <3>1, CompleteDecides DEF Settle, rest
  <2>2. CASE Release /\ UNCHANGED <<alarm, op>>
    BY <1>3, <1>8, <2>2 DEF Settle, rest
  <2>. QED
    BY <1>8, <2>1, <2>2 DEF Settle
<1>. QED
  BY <1>2, <1>4, <1>5, <1>7, <1>8 DEF MessageRun

(* Applying a reaction keeps what the decisions depend on. *)
LEMMA ReactionSame ==
    ASSUME IInv, NEW m \in Message, NEW e, NEW t,
           alarm' = [alarm EXCEPT ![m] = ApplyReaction(alarm[m], e, t)]
    PROVE  RowsSame
<1>1. alarm[m] \in Alarm /\ alarm \in [Message -> Alarm]
  BY DEF IInv, TypeOK
<1>2. SameRow(alarm[m], ApplyReaction(alarm[m], e, t))
  BY <1>1 DEF ApplyReaction, SameRow, Alarm
<1>. QED
  BY <1>1, <1>2 DEF RowsSame, SameRow

(* A job that applied a reaction goes on with its session. *)
LEMMA AppliedDecides ==
    ASSUME IInv, IInv', SInv, pc \in {"apply", "replay"}, pc' \in {"after", "replay"},
           RowsSame, UNCHANGED <<now, started, op>>,
           job'.now = job.now, job'.by = job.by, job'.m = job.m, job.m \in Message
    PROVE  SInv'
<1>1. PassOK'
  BY DEF SInv, PassOK, RowsSame, SameRow, OwnActive, IsActive, ExpiresAt
<1>2. SubjectOK'
  BY DEF SInv, SubjectOK, Subject, RowsSame, SameRow, IsActive, ExpiresAt, Working, AttemptPc
<1>3. SendOK'
  BY DEF SendOK, ForFinal, Working, AttemptPc
<1>4. JobTime' = JobTime
  BY DEF JobTime
<1>. QED
  BY <1>1, <1>2, <1>3, <1>4, NoMove, TimesAreNumbers, TablesDecide DEF Decided

(* _handle_reaction *)
LEMMA ReactionDecides ==
    /\ IInv /\ IInv' /\ SInv
    /\ ReactionRun \/ (\E e \in Reaction : ReactionBegin(e) \/ ReactionIgnored(e))
    => SInv'
<1>. SUFFICES ASSUME IInv, IInv', SInv,
                     ReactionRun \/ (\E e \in Reaction : ReactionBegin(e) \/ ReactionIgnored(e))
              PROVE  SInv'
  OBVIOUS
<1>. DEFINE m == job.m
<1>1. ASSUME NEW e \in Reaction, ReactionBegin(e)
      PROVE  SInv'
  <2>1. PICK n \in Message : /\ IsActive(alarm[n]) /\ alarm[n].trk >= started
                             /\ Begin("reaction", "late", n, {Row(n, e)})
    BY <1>1 DEF ReactionBegin, ReactionTargets, Targeted
  <2>2. /\ pc = "free" /\ ExpireDue(started) /\ UNCHANGED <<now, started>>
        /\ started \in Nat
    BY <1>1 DEF ReactionBegin, IInv, TypeOK
  <2>3. JobTime' = now
    BY <2>1 DEF Begin, Idle, JobTime
  <2>4. /\ TablesOK' /\ RowsClose
        /\ \A p \in Message : IsActive(alarm'[p]) /\ alarm'[p].trk >= started
                                  => now < ExpiresAt(alarm'[p])
    BY <2>2, <2>3, TimesAreNumbers, ExpireTables
  <2>5. Decided'
    BY <2>1, <2>2, <2>4, BeginDecides DEF JobKind, RowsClose
  <2>. QED
    BY <2>4, <2>5 DEF SInv, Decided
<1>2. ASSUME NEW e \in Reaction, ReactionIgnored(e)
      PROVE  SInv'
  BY <1>2 DEF ReactionIgnored, SInv, TablesOK, JobTime, PassOK, SubjectOK, Subject, SendOK,
              ForFinal, Working, AttemptPc, OwnActive
<1>3. pc \in {"late", "apply", "after"} =>
        /\ pc # "free" /\ m \in Message /\ Subject(m)
        /\ IsActive(alarm[m]) => Called(m, "apply") /\ Called(m, "free")
  BY DEF IInv, JobOK, SInv, SubjectOK, Called, Resting
<1>4. ASSUME Release, UNCHANGED <<now, started, alarm, op>>
      PROVE  SInv'
  BY <1>4, ReleaseJob, NoMove, TimesAreNumbers, TablesDecide DEF RowsSame, SameRow
<1>5. m \in Message =>
        /\ job.now >= FinalAt(alarm[m]) => FinalAt(alarm[m]) <= job.now
        /\ job.now >= IntermediateAt(alarm[m]) => IntermediateAt(alarm[m]) <= job.now
  BY TimesAreNumbers
<1>6. CASE ReactionLate
  <2>1. \/ Release /\ UNCHANGED <<alarm, op>>
        \/ /\ IsActive(alarm[m]) /\ alarm[m].status = "pending"
           /\ job.now >= FinalAt(alarm[m]) /\ ProcessFinal(m, "apply")
        \/ /\ IsActive(alarm[m]) /\ alarm[m].status = "pending"
           /\ job.now >= IntermediateAt(alarm[m]) /\ ProcessIntermediate(m, "apply")
        \/ Goto("apply") /\ UNCHANGED <<alarm, op>>
    BY <1>6 DEF ReactionLate
  <2>2. pc = "late" /\ UNCHANGED <<now, started>>
    BY <1>6 DEF ReactionLate, rest
  <2>3. CASE Goto("apply") /\ UNCHANGED <<alarm, op>>
    <3>1. RowsSame
      BY <2>3 DEF RowsSame, SameRow
    <3>2. Decided' /\ JobTime <= JobTime'
      BY <1>3, <2>2, <2>3, <3>1, SameRowsClose, GotoJob
    <3>. QED
      BY <2>3, <3>1, <3>2, NoMove, TablesDecide
  <2>. QED
    BY <1>3, <1>4, <1>5, <2>1, <2>2, <2>3, FinalDecides, IntermediateDecides
<1>7. CASE ReactionApply
  <2>1. PICK e : /\ alarm' = [alarm EXCEPT ![m] = ApplyReaction(alarm[m], e, job.now)]
                 /\ job' = [job EXCEPT !.changed = ChangesResponse(alarm[m], e)]
    BY <1>7 DEF ReactionApply
  <2>2. pc = "apply" /\ pc' = "after" /\ UNCHANGED <<now, started, op>>
    BY <1>7 DEF ReactionApply
  <2>3. job'.now = job.now /\ job'.by = job.by /\ job'.m = job.m
    BY <2>1 DEF IInv, TypeOK
  <2>. QED
    BY <1>3, <2>1, <2>2, <2>3, ReactionSame, AppliedDecides
<1>8. CASE ReactionAfter
  <2>1. \/ Release /\ UNCHANGED <<alarm, op>>
        \/ IsActive(alarm[m]) /\ Complete(m, "free")
        \/ /\ IsActive(alarm[m]) /\ alarm[m].status = "pending"
           /\ job.now >= FinalAt(alarm[m]) /\ ProcessFinal(m, "free")
        \/ /\ IsActive(alarm[m]) /\ alarm[m].status = "pending"
           /\ job.now >= IntermediateAt(alarm[m]) /\ ProcessIntermediate(m, "free")
    BY <1>8 DEF ReactionAfter
  <2>2. pc = "after" /\ UNCHANGED <<now, started>>
    BY <1>8 DEF ReactionAfter, rest
  <2>. QED
    BY <1>3, <1>4, <1>5, <2>1, <2>2, CompleteDecides, FinalDecides, IntermediateDecides
<1>. QED
  BY <1>1, <1>2, <1>6, <1>7, <1>8 DEF ReactionRun

(* force_check_latest and force_check_message *)
LEMMA CheckBeginDecides ==
    ASSUME IInv, IInv', SInv, NEW found \in SUBSET Message, NEW replays \in BOOLEAN,
           CheckBegin(found, replays)
    PROVE  SInv'
<1>1. /\ pc = "free" /\ ExpireDue(0) /\ UNCHANGED <<now, started>>
      /\ 0 \in Nat /\ now \in Nat
  BY DEF CheckBegin, IInv, TypeOK
<1>2. CASE Release
  <2>1. Decided' /\ JobTime' = now
    BY <1>1, <1>2, ReleaseJob DEF Release, JobTime
  <2>2. TablesOK'
    BY <1>1, <2>1, ExpireTables
  <2>. QED
    BY <2>1, <2>2 DEF SInv, Decided
<1>3. ASSUME NEW m \in found, NEW todo, Begin("check", CheckPc(m, replays), m, todo)
      PROVE  SInv'
  <2>1. JobTime' = now /\ CheckPc(m, replays) \in {"adopt", "replay", "evaluate"}
    BY <1>3 DEF Begin, Idle, JobTime, CheckPc
  <2>2. /\ TablesOK'
        /\ \A n \in Message : IsActive(alarm'[n]) /\ alarm'[n].trk >= 0
                                  => now < ExpiresAt(alarm'[n])
    BY <1>1, <2>1, ExpireTables
  <2>3. alarm'[m].trk >= 0
    BY DEF IInv, TypeOK, Alarm
  <2>4. Decided'
    BY <1>1, <1>3, <2>1, <2>2, <2>3, BeginDecides DEF JobKind
  <2>. QED
    BY <2>2, <2>4 DEF SInv, Decided
<1>. QED
  BY <1>2, <1>3 DEF CheckBegin

LEMMA CheckCallDecides ==
    IInv /\ IInv' /\ SInv /\ (CheckLatest \/ \E class : CheckText(class)) => SInv'
<1>. SUFFICES ASSUME IInv, IInv', SInv, CheckLatest \/ \E class : CheckText(class)
              PROVE  SInv'
  OBVIOUS
<1>1. CASE CheckLatest
  <2>. DEFINE preferred == {m \in LatestObserved(Kept \cap Trigger) :
                              \A n \in StandardAlarms(alarm) : SentAt[m] >= SentAt[n]}
  <2>1. CheckBegin(preferred, TRUE) \/ CheckBegin(LatestStandard, FALSE)
    BY <1>1 DEF CheckLatest
  <2>2. preferred \in SUBSET Message
    BY DEF LatestObserved, Kept, RetainedMessages, IInv, TypeOK
  <2>3. LatestStandard \in SUBSET Message
    BY DEF LatestStandard, StandardAlarms
  <2>. HIDE DEF preferred
  <2>. QED
    BY <2>1, <2>2, <2>3, CheckBeginDecides
<1>2. ASSUME NEW class, CheckText(class)
      PROVE  SInv'
  <2>. DEFINE found == LatestObserved({m \in Kept : TextClass[m] = class})
  <2>1. CheckBegin(found, TRUE)
    BY <1>2 DEF CheckText
  <2>2. found \in SUBSET Message
    BY DEF LatestObserved, Kept, RetainedMessages, IInv, TypeOK
  <2>. HIDE DEF found
  <2>. QED
    BY <2>1, <2>2, CheckBeginDecides
<1>. QED
  BY <1>1, <1>2

(* _force_observed_message and _force_alarm *)
LEMMA CheckRunDecides == IInv /\ IInv' /\ SInv /\ CheckRun => SInv'
<1>. SUFFICES ASSUME IInv, IInv', SInv, CheckRun PROVE SInv'
  OBVIOUS
<1>. DEFINE m == job.m
<1>1. /\ pc # "free" /\ m \in Message /\ UNCHANGED <<now, started>>
      /\ pc = "adopt" => job.by = "check" /\ alarm[m].status = "none"
      /\ pc \in {"replay", "evaluate"} => Subject(m)
      /\ pc = "evaluate" /\ IsActive(alarm[m]) => Called(m, "free")
  BY DEF CheckRun, CheckAdopt, CheckReplay, CheckReplayed, CheckEvaluate, rest,
         IInv, JobOK, SInv, SubjectOK, Called, Resting
<1>2. CASE CheckAdopt
  <2>1. PICK file : Create(m, "custom", job.now, file)
    BY <1>2 DEF CheckAdopt
  <2>2. pc = "adopt" /\ (Goto("replay") \/ Goto("evaluate"))
    BY <1>2 DEF CheckAdopt
  <2>3. job.now \in Nat
    BY TimesAreNumbers
  <2>4. CASE alarm'[m].status # "expired"
    BY <1>1, <2>1, <2>2, <2>3, <2>4, CreatedDecides
  <2>5. CASE alarm'[m].status = "expired"
    <3>1. pc' \in {"replay", "evaluate"} /\ job' = job /\ JobTime' = JobTime
      BY <1>1, <2>2 DEF Goto, JobTime
    <3>2. TablesOK' /\ \A n \in Message \ {m} : alarm'[n] = alarm[n]
      <4>1. JobTime <= JobTime'
        BY <3>1, TimesAreNumbers
      <4>. QED
        BY <1>1, <2>1, <2>2, <2>3, <4>1, CreateTables
    <3>3. PassOK' /\ SubjectOK'
      BY <1>1, <2>2, <2>5, <3>1
         DEF SInv, PassOK, SubjectOK, Subject, IsActive, ActiveStatus, Working, AttemptPc
    <3>4. SendOK'
      BY <3>1 DEF SendOK, ForFinal, Working, AttemptPc
    <3>. QED
      BY <3>2, <3>3, <3>4 DEF SInv
  <2>. QED
    BY <2>4, <2>5
<1>3. CASE CheckReplay
  <2>1. PICK e : /\ alarm' = [alarm EXCEPT ![m] = ApplyReaction(alarm[m], e, job.now)]
                 /\ job' = [job EXCEPT !.todo = job.todo \ {e}]
    BY <1>3 DEF CheckReplay
  <2>2. pc = "replay" /\ pc' = "replay" /\ UNCHANGED <<now, started, op>>
    BY <1>3 DEF CheckReplay
  <2>3. job'.now = job.now /\ job'.by = job.by /\ job'.m = job.m
    BY <2>1 DEF IInv, TypeOK
  <2>. QED
    BY <1>1, <2>1, <2>2, <2>3, ReactionSame, AppliedDecides
<1>4. UNCHANGED alarm => RowsSame
  BY DEF RowsSame, SameRow
<1>5. CASE CheckReplayed
  <2>1. pc = "replay" /\ Goto("evaluate") /\ UNCHANGED <<alarm, op>>
    BY <1>5 DEF CheckReplayed
  <2>2. Decided' /\ JobTime <= JobTime'
    BY <1>1, <1>4, <2>1, SameRowsClose, GotoJob
  <2>. QED
    BY <1>4, <2>1, <2>2, NoMove, TablesDecide
<1>6. CASE CheckEvaluate
  <2>. DEFINE k == <<m, "manual_report", 0>>
  <2>1. k \in Key /\ k[1] = m /\ k[2] = "manual_report"
    BY <1>1, OneShotKey DEF OneShotKind
  <2>2. \/ Release /\ UNCHANGED <<alarm, op>>
        \/ IsActive(alarm[m]) /\ Complete(m, "free")
        \/ /\ IsActive(alarm[m]) /\ alarm[m].status = "pending"
           /\ job.now >= FinalAt(alarm[m]) /\ ProcessFinal(m, "free")
        \/ /\ IsActive(alarm[m])
           /\ op' = PrepareOutgoing(op, k, "due_not_attempted")
           /\ Attempt(k, NoText, "free") /\ UNCHANGED alarm
    BY <1>6 DEF CheckEvaluate
  <2>. HIDE DEF k
  <2>3. pc = "evaluate"
    BY <1>6 DEF CheckEvaluate
  <2>4. CASE Release /\ UNCHANGED <<alarm, op>>
    BY <1>1, <1>4, <2>4, ReleaseJob, NoMove, TimesAreNumbers, TablesDecide
  <2>5. CASE IsActive(alarm[m]) /\ Complete(m, "free")
    BY <1>1, <2>3, <2>5, CompleteDecides
  <2>6. CASE /\ IsActive(alarm[m]) /\ alarm[m].status = "pending"
             /\ job.now >= FinalAt(alarm[m]) /\ ProcessFinal(m, "free")
    <3>1. FinalAt(alarm[m]) <= job.now
      BY <1>1, <2>6, TimesAreNumbers
    <3>. QED
      BY <1>1, <2>3, <2>6, <3>1, FinalDecides
  <2>7. CASE /\ IsActive(alarm[m])
             /\ op' = PrepareOutgoing(op, k, "due_not_attempted")
             /\ Attempt(k, NoText, "free") /\ UNCHANGED alarm
    <3>1. Attemptable(k)
      BY <1>1, <2>1, <2>3, <2>7 DEF Attemptable
    <3>2. Decided' /\ JobTime <= JobTime'
      BY <1>1, <2>1, <2>7, <3>1, AttemptJob
    <3>. QED
      BY <1>4, <2>1, <2>7, <3>2, OtherKindMoves, TablesDecide
  <2>. QED
    BY <2>2, <2>4, <2>5, <2>6, <2>7
<1>. QED
  BY <1>2, <1>3, <1>5, <1>6 DEF CheckRun

-----------------------------------------------------------------------------
(* The environment, and the invariant.                                     *)

(* A lost job leaves the tables as its last transaction did. *)
LEMMA FailureDecides == IInv /\ IInv' /\ SInv /\ (TickFails \/ Crash) => SInv'
<1>. SUFFICES ASSUME IInv, IInv', SInv, TickFails \/ Crash PROVE SInv'
  OBVIOUS
<1>1. Release /\ now' \in Nat /\ now <= now'
  BY TimesAreNumbers DEF TickFails, Crash
<1>2. Decided' /\ JobTime <= JobTime'
  BY <1>1, ReleaseJob
<1>3. CASE UNCHANGED <<alarm, op>>
  <2>1. RowsSame
    BY <1>3 DEF RowsSame, SameRow
  <2>. QED
    BY <1>2, <1>3, <2>1, NoMove, TablesDecide
<1>4. CASE pc = "free" /\ ExpireDue(0)
  <2>1. JobTime' \in Nat /\ now <= JobTime'
    BY <1>1 DEF Release, JobTime
  <2>2. TablesOK'
    BY <1>4, <2>1, ExpireTables
  <2>. QED
    BY <1>2, <2>2 DEF SInv, Decided
<1>. QED
  BY <1>3, <1>4, CrashTables DEF TickFails, durable

(* Time passes under a job, which keeps the time it began with. *)
LEMMA ClockDecides ==
    IInv /\ IInv' /\ SInv /\ (ClockTick \/ CommandTripsBreaker \/ UNCHANGED vars) => SInv'
<1>. SUFFICES ASSUME IInv, IInv', SInv, ClockTick \/ CommandTripsBreaker \/ UNCHANGED vars
              PROVE  SInv'
  OBVIOUS
<1>1. UNCHANGED <<started, alarm, op, pc, key, job>> /\ now <= now'
  BY TimesAreNumbers DEF ClockTick, CommandTripsBreaker, vars, durable
<1>2. RowsSame /\ JobTime <= JobTime'
  BY <1>1, TimesAreNumbers DEF RowsSame, SameRow, JobTime
<1>3. PassOK' /\ SendOK'
  BY <1>1 DEF SInv, PassOK, SendOK, OwnActive, ForFinal
<1>4. SubjectOK'
  <2>1. job'.now <= now'
    BY <1>1, TimesAreNumbers DEF SInv, SubjectOK, IInv, TypeOK
  <2>. QED
    BY <1>1, <2>1 DEF SInv, SubjectOK, Subject
<1>. QED
  BY <1>1, <1>2, <1>3, <1>4, NoMove, TablesDecide DEF Decided

LEMMA InitSInv == Init => SInv
<1>. SUFFICES ASSUME Init PROVE SInv
  OBVIOUS
<1>1. pc = "free" /\ job.now = 0 /\ now = 0
  BY DEF Init, Idle
<1>2. \A m \in Message : alarm[m].status = "none"
  BY DEF Init, NoAlarm
<1>3. TablesOK
  BY <1>2 DEF TablesOK, Settled, DueInTime, TerminalStatus
<1>. QED
  BY <1>1, <1>3 DEF SInv, PassOK, SubjectOK, SendOK, ForFinal, Working, AttemptPc

LEMMA StepDecides == IInv /\ IInv' /\ SInv /\ [Next]_vars => SInv'
<1>. SUFFICES ASSUME IInv, IInv', SInv, [Next]_vars PROVE SInv'
  OBVIOUS
<1>1. CASE QuietStep
  BY <1>1, TickDecides, MessageDecides, ReactionDecides, CheckCallDecides,
     CheckRunDecides, FinalStepsDecide, PostDecides, FailureDecides DEF QuietStep, Call
<1>2. CASE AttemptAction
  BY <1>2, AttemptDecides
<1>3. CASE ClockTick \/ CommandTripsBreaker \/ UNCHANGED vars
  BY <1>3, ClockDecides
<1>. QED
  BY <1>1, <1>2, <1>3, StepKinds

(* What every session's reports and every job's decisions agree on.        *)
THEOREM SessionsInductive == Spec => []SInv
<1>1. IInv /\ [Next]_vars => IInv'
  BY StepPreserves
<1>. QED
  BY <1>1, InitSInv, StepDecides, Inductive, PTL DEF Spec

-----------------------------------------------------------------------------
(* What follows of the tables.                                             *)

(* A session is reported only once its final report is settled, with the   *)
(* intermediate one out of the way, and its report can be edited exactly   *)
(* when Signal acknowledged it (mark_reported), crash or no crash.         *)
THEOREM ReportedSessionsAreSettled == Spec => []ReportedIsSettled
<1>1. SInv => ReportedIsSettled
  BY DEF SInv, TablesOK, Settled, ReportedIsSettled, IKey, FKey
<1>. QED
  BY SessionsInductive, <1>1, PTL

(* However a session ends, by completion, expiry or an unreadable list, no *)
(* deadline report of it is left to be attempted (mark_completed,          *)
(* expire_alarms, create_alarm).                                           *)
THEOREM EndedSessionsOweNoReport == Spec => []NoReportDueAfterTerminal
<1>1. SInv => NoReportDueAfterTerminal
  BY DEF SInv, TablesOK, Settled, NoReportDueAfterTerminal, IKey, FKey
<1>. QED
  BY SessionsInductive, <1>1, PTL

-----------------------------------------------------------------------------
(* What follows of the sends.                                              *)

(* An RPC is issued by Issue alone, for the session of the job. *)
LEMMA OnlyIssueSends ==
    ASSUME IInv, SInv, [Next]_vars, wire' # wire
    PROVE  /\ pc = "issue" /\ key \in Key /\ key[1] = job.m /\ job.m \in Message
           /\ UNCHANGED alarm
<1>1. ~QuietStep
  BY QuietSteps DEF Quiet
<1>2. AttemptAction
  BY <1>1, StepKinds DEF ClockTick, CommandTripsBreaker, vars, ghosts
<1>3. Issue
  BY <1>2 DEF AttemptAction, Claim, Blocked, Succeed, Fail, RateLimited, LoseAnswer,
              Finish, ghosts
<1>. QED
  BY <1>3 DEF Issue, durable, IInv, JobOK, SInv, SendOK, AttemptPc

(* Nothing is sent for a session that has ended or was expired when the    *)
(* work began, but the host reaction to a check in error: no step between  *)
(* the evaluation and the RPC of a job can end its session.                *)
THEOREM OnlyActiveSessionsSend == Spec => SendsOnlyWhileActive
<1>. DEFINE Allowed ==
          Sending => LET a == alarm[key[1]]
                     IN \/ IsActive(a) /\ job.now < ExpiresAt(a)
                        \/ a.status = "error" /\ key[2] = "host_reaction"
<1>1. IInv /\ SInv /\ [Next]_vars => [Allowed]_vars
  <2>. SUFFICES ASSUME IInv, SInv, [Next]_vars, Sending
                PROVE  LET a == alarm[key[1]]
                       IN \/ IsActive(a) /\ job.now < ExpiresAt(a)
                          \/ a.status = "error" /\ key[2] = "host_reaction"
    OBVIOUS
  <2>1. pc = "issue" /\ key[1] = job.m
    BY OnlyIssueSends DEF Sending
  <2>. QED
    BY <2>1 DEF SInv, SendOK, SubjectOK, Subject, Working, AttemptPc
<1>. QED
  BY <1>1, Inductive, SessionsInductive, PTL DEF Spec, SendsOnlyWhileActive

(* The intermediate report goes out between its deadline and the final     *)
(* one, while the final one is not yet due; the final report after its     *)
(* deadline, when the intermediate one can no longer go out.               *)
THEOREM ReportsKeepTheirWindow == Spec => ReportsInTheirWindow
<1>. DEFINE InWindow ==
          Sending =>
            LET m == key[1]
                a == alarm[m]
            IN /\ key[2] = "intermediate"
                     => /\ IntermediateAt(a) <= job.now /\ job.now < FinalAt(a)
                        /\ op[<<m, "final", 0>>] = "not_due"
               /\ key[2] = "final"
                     => /\ a.status = "pending" /\ job.now >= FinalAt(a)
                        /\ op[<<m, "intermediate", 0>>] \notin NotAttempted
<1>1. IInv /\ SInv /\ [Next]_vars => [InWindow]_vars
  <2>. SUFFICES ASSUME IInv, SInv, [Next]_vars, Sending
                PROVE  InWindow
    OBVIOUS
  <2>. DEFINE m == job.m
  <2>1. pc = "issue" /\ key[1] = m /\ m \in Message
    BY OnlyIssueSends DEF Sending
  <2>2. job.now \in Nat /\ FinalAt(alarm[m]) \in Nat
    BY <2>1, TimesAreNumbers
  <2>3. /\ Settled(alarm[m], op[IKey(m)], op[FKey(m)])
        /\ DueInTime(alarm[m], op[FKey(m)], job.now)
    BY <2>1 DEF SInv, TablesOK, JobTime
  <2>4. key[2] = "intermediate" =>
          /\ IntermediateAt(alarm[m]) <= job.now /\ job.now < FinalAt(alarm[m])
          /\ op[FKey(m)] = "not_due"
    BY <2>1, <2>2, <2>3 DEF SInv, SendOK, AttemptPc, Settled, DueInTime
  <2>5. key[2] = "final" =>
          /\ alarm[m].status = "pending" /\ job.now >= FinalAt(alarm[m])
          /\ op[IKey(m)] \notin NotAttempted
    BY <2>1, <2>2 DEF SInv, SendOK, ForFinal, AttemptPc
  <2>. QED
    BY <2>1, <2>4, <2>5 DEF IKey, FKey
<1>. QED
  BY <1>1, Inductive, SessionsInductive, PTL DEF Spec, ReportsInTheirWindow

-----------------------------------------------------------------------------
(* Sessions of an earlier process.                                         *)

LEMMA EvaluationsWriteNoRow ==
    ASSUME NEW m, NEW back
    PROVE  /\ Complete(m, back) => UNCHANGED alarm
           /\ ProcessIntermediate(m, back) => UNCHANGED alarm
           /\ ProcessFinal(m, back) => UNCHANGED alarm
BY DEF Complete, ProcessIntermediate, ProcessFinal

(* A job writes the row of its own session, unless it is to choose one.    *)
LEMMA JobWritesOwnRow ==
    ASSUME IInv, JobStep, pc # "select", NEW m \in Message, m # job.m
    PROVE  alarm'[m] = alarm[m]
<1>1. alarm \in [Message -> Alarm]
  BY DEF IInv, TypeOK
<1>2. CASE SnapshotFinal \/ MarkFinalDue
  BY <1>1, <1>2, EvaluationsWriteNoRow DEF SnapshotFinal, MarkFinalDue
<1>3. CASE AttemptStep
  BY <1>1, <1>3 DEF AttemptStep, Claim, Issue, Blocked, Succeed, Fail, RateLimited,
                    LoseAnswer, Finish, Post, durable
<1>4. CASE MessageRun
  BY <1>1, <1>4, EvaluationsWriteNoRow
     DEF MessageRun, IntakeIgnored, IntakeTrigger, Create, HostReaction, Settle
<1>5. CASE ReactionRun
  BY <1>1, <1>5, EvaluationsWriteNoRow
     DEF ReactionRun, ReactionLate, ReactionApply, ReactionAfter
<1>6. CASE CheckRun
  BY <1>1, <1>6, EvaluationsWriteNoRow
     DEF CheckRun, CheckAdopt, Create, CheckReplay, CheckReplayed, CheckEvaluate
<1>7. CASE TickRun
  BY <1>7 DEF TickRun, TickComplete, TickIntermediate, TickFinal, TickEdit, TickEnd
<1>. QED
  BY <1>2, <1>3, <1>4, <1>5, <1>6, <1>7 DEF JobStep

(* A pass writes rows of this process. *)
LEMMA PassWritesOwnRows ==
    ASSUME IInv, JobStep, pc = "select", NEW m \in Message, alarm[m].trk < started
    PROVE  alarm'[m] = alarm[m]
<1>1. TickRun
  BY DEF JobStep, SnapshotFinal, MarkFinalDue, AttemptStep, Claim, Issue, Blocked,
         Succeed, Fail, RateLimited, LoseAnswer, Post, MessageRun, IntakeIgnored,
         IntakeTrigger, HostReaction, Settle, ReactionRun, ReactionLate,
         ReactionApply, ReactionAfter, CheckRun, CheckAdopt, CheckReplay,
         CheckReplayed, CheckEvaluate
<1>2. CASE TickComplete \/ TickIntermediate \/ TickFinal \/ TickEnd
  BY <1>2, EvaluationsWriteNoRow DEF TickComplete, TickIntermediate, TickFinal, TickEnd
<1>3. CASE TickEdit
  <2>1. PICK n \in Message : alarm[n].trk >= started /\ ProcessEdit(n, "select")
    BY <1>3 DEF TickEdit, ToEdit, DueEdits, Earliest
  <2>2. /\ alarm \in [Message -> Alarm] /\ started \in Nat
        /\ \A p \in Message : alarm[p].trk \in Nat
    BY DEF IInv, TypeOK, Alarm
  <2>3. n # m
    BY <2>1, <2>2
  <2>. QED
    BY <2>1, <2>2, <2>3 DEF ProcessEdit
<1>. QED
  BY <1>1, <1>2, <1>3 DEF TickRun

(* Automatic work keeps to the sessions of its own process: a session of   *)
(* an earlier one changes, or has something sent for it, by /check alone   *)
(* (started_at_or_after_ms).                                               *)
THEOREM EarlierSessionsFrozen == Spec => PreStartFrozen
<1>. DEFINE Frozen(m) ==
          /\ alarm[m].status # "none" /\ alarm[m].trk < started
          /\ alarm'[m] # alarm[m] \/ (Sending /\ key[1] = m)
          => ByCheck
<1>1. IInv /\ SInv /\ [Next]_vars => [\A m \in Message : Frozen(m)]_vars
  <2>. SUFFICES ASSUME IInv, SInv, [Next]_vars, NEW m \in Message,
                       alarm[m].status # "none", alarm[m].trk < started,
                       alarm'[m] # alarm[m] \/ (Sending /\ key[1] = m)
                PROVE  ByCheck
    OBVIOUS
  <2>1. ~(alarm[m].trk >= started)
    BY DEF IInv, TypeOK, Alarm
  <2>2. CASE Sending /\ key[1] = m
    BY <2>1, <2>2, OnlyIssueSends DEF Sending, SInv, SubjectOK, Subject, ByCheck
  <2>3. CASE alarm'[m] # alarm[m] /\ Call
    <3>1. ~ExpireDue(started)
      <4>1. m \notin DueToExpire(alarm, now, started)
        BY <2>1 DEF DueToExpire
      <4>. QED
        BY <2>3, <4>1 DEF ExpireDue, ExpireAlarms
    <3>2. ~TickBegin /\ (\A e \in Reaction : ~ReactionBegin(e) /\ ~ReactionIgnored(e))
          /\ (\A n \in Message : ~MessageBegin(n))
      BY <2>3, <3>1 DEF TickBegin, ReactionBegin, ReactionIgnored, MessageBegin
    <3>3. CheckLatest \/ \E class : CheckText(class)
      BY <2>3, <3>2 DEF Call
    <3>4. ASSUME NEW found, NEW replays, CheckBegin(found, replays)
          PROVE  ByCheck
      BY <3>4 DEF CheckBegin, ByCheck, Release, Begin, CheckPc
    <3>. QED
      BY <3>3, <3>4 DEF CheckLatest, CheckText
  <2>4. CASE alarm'[m] # alarm[m] /\ JobStep
    <3>1. pc # "select"
      BY <2>4, PassWritesOwnRows
    <3>2. m = job.m
      BY <2>4, <3>1, JobWritesOwnRow
    <3>3. pc # "free"
      BY <2>4 DEF JobStep, SnapshotFinal, MarkFinalDue, AttemptStep, Claim, Issue, Blocked,
         Succeed, Fail, RateLimited, LoseAnswer, Post, MessageRun, IntakeIgnored,
         IntakeTrigger, HostReaction, Settle, ReactionRun, ReactionLate,
         ReactionApply, ReactionAfter, CheckRun, CheckAdopt, CheckReplay,
         CheckReplayed, CheckEvaluate, TickRun, TickComplete, TickIntermediate,
         TickFinal, TickEdit, TickEnd
    <3>4. pc # "intake"
      BY <2>4, <3>2 DEF JobStep, SnapshotFinal, MarkFinalDue, AttemptStep, Claim, Issue, Blocked,
         Succeed, Fail, RateLimited, LoseAnswer, Post, MessageRun, IntakeIgnored,
         IntakeTrigger, Starts, HostReaction, Settle, ReactionRun, ReactionLate,
         ReactionApply, ReactionAfter, CheckRun, CheckAdopt, CheckReplay,
         CheckReplayed, CheckEvaluate, TickRun, TickComplete, TickIntermediate,
         TickFinal, TickEdit, TickEnd
    <3>. QED
      BY <2>1, <3>1, <3>2, <3>3, <3>4 DEF SInv, SubjectOK, Subject, ByCheck
  <2>5. CASE alarm'[m] # alarm[m] /\ ~Call /\ ~JobStep
    BY <2>5, CrashTables DEF Next, ClockTick, CommandTripsBreaker, TickFails, vars, durable, ByCheck
  <2>. QED
    BY <2>2, <2>3, <2>4, <2>5
<1>. QED
  BY <1>1, Inductive, SessionsInductive, PTL DEF Spec, PreStartFrozen
-----------------------------------------------------------------------------
(* Completion.                                                             *)

(* Where a call other than a pass of the ticker is.                        *)
CalledFor == {"intake", "host", "settle", "late", "apply", "after",
              "adopt", "replay", "evaluate"}

OneReaction == \A d, e \in job.todo : d = e

(* Only the call that put it there leaves a session to be completed, and   *)
(* it comes back to it: after the host reaction, and with its reaction.    *)
CallOK ==
    /\ pc \in CalledFor => job.by # "tick"
    /\ pc \in Working /\ job.back \in {"apply", "settle"} => job.by # "tick"
    /\ \/ pc \in {"late", "apply", "after"}
       \/ pc \in Working /\ job.back = "apply"
       => OneReaction
    /\ pc \in AttemptPc /\ key[2] = "host_reaction" => job.back = "settle"

Full(m) == OwnActive(m) /\ Missing(alarm[m]) = {}
Calm == \A m \in Message : ~Full(m)

Completing == {"completion", "completion_edit"}

(* A session nobody is missing from is the one of a job that is about to   *)
(* complete it.                                                            *)
FullOK ==
    \A m \in Message : Full(m) =>
        /\ m = job.m /\ job.by # "tick"
        /\ pc \in {"host", "settle", "after", "replay", "evaluate"} \cup AttemptPc
        /\ pc \in AttemptPc => key[2] \in Completing \cup {"host_reaction"}
        /\ pc = "after" => job.changed /\ \A e \in job.todo : ~e.removed

-----------------------------------------------------------------------------
(* Control.                                                                *)

LEMMA ReleaseCall == Release => CallOK'
BY DEF Release, CallOK, CalledFor, Working, AttemptPc

(* An evaluation returns to its caller, or is under way for it. *)
LEMMA CallEvaluates ==
    ASSUME IInv, NEW m, NEW back \in Resting,
           \/ Complete(m, back) \/ ProcessIntermediate(m, back)
           \/ ProcessFinal(m, back) \/ ProcessEdit(m, back),
           back \in {"apply", "settle"} => job.by # "tick",
           back = "apply" => OneReaction
    PROVE  CallOK'
<1>1. job \in Job
  BY DEF IInv, TypeOK, Job
<1>2. CASE Return(back)
  <2>1. CASE back = "free"
    BY <1>2, <2>1, ReleaseCall DEF Return
  <2>2. CASE back # "free"
    <3>1. pc' = back /\ job'.by = job.by /\ job'.todo = job.todo
      BY <1>1, <1>2, <2>2 DEF Return, Job
    <3>. QED
      BY <2>2, <3>1 DEF CallOK, CalledFor, Working, AttemptPc, Resting, OneReaction
  <2>. QED
    BY <2>1, <2>2
<1>3. ASSUME job'.by = job.by, job'.todo = job.todo, job'.back = back,
             pc' \in {"claim", "post", "snapshot"},
             pc' # "snapshot" => key'[2] # "host_reaction"
      PROVE  CallOK'
  BY <1>3 DEF CallOK, CalledFor, Working, AttemptPc, OneReaction
<1>4. ASSUME NEW k, NEW text, Attempt(k, text, back), k[2] # "host_reaction"
      PROVE  CallOK'
  BY <1>1, <1>3, <1>4 DEF Attempt, Job
<1>5. CASE Complete(m, back)
  <2>. DEFINE k == <<m, IF alarm[m].status = "reported" /\ alarm[m].hasReport
                        THEN "completion_edit" ELSE "completion", 0>>
  <2>1. k[2] # "host_reaction"
    OBVIOUS
  <2>2. \/ Attempt(k, NoText, back)
        \/ /\ pc' = "post" /\ key' = k
           /\ job' = [job EXCEPT !.m = m, !.back = back, !.result = "skipped"]
    BY <1>5 DEF Complete
  <2>. HIDE DEF k
  <2>. QED
    BY <1>1, <1>3, <1>4, <2>1, <2>2 DEF Job
<1>6. CASE ProcessIntermediate(m, back)
  BY <1>2, <1>4, <1>5, <1>6 DEF ProcessIntermediate
<1>7. CASE ProcessFinal(m, back)
  BY <1>1, <1>3, <1>7 DEF ProcessFinal, Job
<1>8. CASE ProcessEdit(m, back)
  BY <1>2, <1>4, <1>8 DEF ProcessEdit
<1>. QED
  BY <1>5, <1>6, <1>7, <1>8

LEMMA CallBegins == IInv /\ CallOK /\ Call => CallOK'
<1>. SUFFICES ASSUME IInv, CallOK, Call PROVE CallOK'
  OBVIOUS
<1>1. CASE TickBegin
  BY <1>1 DEF TickBegin, Begin, CallOK, CalledFor, Working, AttemptPc
<1>2. ASSUME NEW m \in Message, MessageBegin(m)
      PROVE  CallOK'
  BY <1>2 DEF MessageBegin, Begin, Idle, CallOK, CalledFor, Working, AttemptPc
<1>3. ASSUME NEW e \in Reaction, ReactionBegin(e)
      PROVE  CallOK'
  BY <1>3 DEF ReactionBegin, Begin, Idle, CallOK, CalledFor, Working, AttemptPc, OneReaction
<1>4. ASSUME NEW e \in Reaction, ReactionIgnored(e)
      PROVE  CallOK'
  BY <1>4 DEF ReactionIgnored, CallOK, OneReaction
<1>5. ASSUME NEW found, NEW replays, CheckBegin(found, replays)
      PROVE  CallOK'
  <2>1. ASSUME NEW m, NEW todo, Begin("check", CheckPc(m, replays), m, todo)
        PROVE  CallOK'
    BY <2>1 DEF Begin, Idle, CheckPc, CallOK, CalledFor, Working, AttemptPc
  <2>. QED
    BY <1>5, <2>1, ReleaseCall DEF CheckBegin
<1>6. CASE CheckLatest \/ \E class : CheckText(class)
  BY <1>5, <1>6 DEF CheckLatest, CheckText
<1>. QED
  BY <1>1, <1>2, <1>3, <1>4, <1>6 DEF Call

LEMMA CallGoesOn == IInv /\ CallOK /\ JobStep => CallOK'
<1>. SUFFICES ASSUME IInv, CallOK, JobStep PROVE CallOK'
  OBVIOUS
<1>. USE DEF CallOK, CalledFor, Working, AttemptPc, OneReaction
<1>1. job \in Job /\ job.back \in Resting
  BY DEF IInv, TypeOK, Job
<1>2. ASSUME NEW at, Goto(at), at \in CalledFor \cup {"due"},
             at \in CalledFor => job.by # "tick",
             at \in {"late", "apply", "after"} => OneReaction,
             at = "due" => pc = "snapshot"
      PROVE  CallOK'
  BY <1>2 DEF Goto
<1>3. {"free", "select", "apply"} \subseteq Resting
  BY DEF Resting
<1>4. CASE SnapshotFinal
  BY <1>1, <1>2, <1>4, CallEvaluates DEF SnapshotFinal
<1>5. CASE MarkFinalDue
  BY <1>1, <1>5 DEF MarkFinalDue, Attempt, Job
<1>6. CASE AttemptAction
  <2>1. /\ pc \in {"claim", "issue", "rpc"} /\ pc' \in AttemptPc /\ key' = key
        /\ job'.by = job.by /\ job'.todo = job.todo /\ job'.back = job.back
    BY <1>1, <1>6 DEF AttemptAction, Claim, Issue, Blocked, Succeed, Fail, RateLimited,
                      LoseAnswer, Finish, Job
  <2>. QED
    BY <2>1
<1>7. CASE Post
  <2>1. CASE job.back = "free"
    BY <1>7, <2>1, ReleaseCall DEF Post, Return
  <2>2. CASE job.back # "free"
    BY <1>1, <1>7, <2>2 DEF Post, Return, Resting, Job
  <2>. QED
    BY <2>1, <2>2
<1>8. CASE TickRun
  BY <1>3, <1>8, CallEvaluates, ReleaseCall
     DEF TickRun, TickComplete, TickIntermediate, TickFinal, TickEdit, TickEnd
<1>9. CASE MessageRun
  <2>1. CASE IntakeIgnored
    BY <2>1, ReleaseCall DEF IntakeIgnored
  <2>2. CASE IntakeTrigger
    BY <1>2, <2>2, ReleaseCall DEF IntakeTrigger
  <2>3. CASE HostReaction
    BY <1>1, <2>3 DEF HostReaction, Attempt, Job
  <2>4. CASE Settle
    BY <1>3, <2>4, CallEvaluates, ReleaseCall DEF Settle
  <2>. QED
    BY <1>9, <2>1, <2>2, <2>3, <2>4 DEF MessageRun
<1>10. CASE ReactionRun
  <2>1. CASE ReactionLate
    BY <1>2, <1>3, <2>1, CallEvaluates, ReleaseCall DEF ReactionLate
  <2>2. CASE ReactionApply
    BY <1>1, <2>2 DEF ReactionApply, Job
  <2>3. CASE ReactionAfter
    BY <1>3, <2>3, CallEvaluates, ReleaseCall DEF ReactionAfter
  <2>. QED
    BY <1>10, <2>1, <2>2, <2>3 DEF ReactionRun
<1>11. CASE CheckRun
  <2>1. CASE CheckAdopt
    BY <1>2, <2>1 DEF CheckAdopt
  <2>2. CASE CheckReplay
    BY <1>1, <2>2 DEF CheckReplay, Job
  <2>3. CASE CheckReplayed
    BY <1>2, <2>3 DEF CheckReplayed
  <2>4. CASE CheckEvaluate
    <3>. DEFINE k == <<job.m, "manual_report", 0>>
    <3>1. ASSUME Attempt(k, NoText, "free")
          PROVE  CallOK'
      <4>1. pc' = "claim" /\ key'[2] = "manual_report" /\ job'.back = "free"
        BY <1>1, <3>1 DEF Attempt, Job
      <4>. QED
        BY <4>1
    <3>2. \/ Complete(job.m, "free") \/ ProcessFinal(job.m, "free")
          \/ Release \/ Attempt(k, NoText, "free")
      BY <2>4 DEF CheckEvaluate
    <3>. QED
      BY <1>3, <3>1, <3>2, CallEvaluates, ReleaseCall
  <2>. QED
    BY <1>11, <2>1, <2>2, <2>3, <2>4 DEF CheckRun
<1>. QED
  BY <1>4, <1>5, <1>6, <1>7, <1>8, <1>9, <1>10, <1>11 DEF JobStep, AttemptStep, AttemptAction

LEMMA CallStep == IInv /\ CallOK /\ [Next]_vars => CallOK'
<1>. SUFFICES ASSUME IInv, CallOK, [Next]_vars PROVE CallOK'
  OBVIOUS
<1>1. CASE TickFails \/ Crash
  BY <1>1, ReleaseCall DEF TickFails, Crash
<1>2. CASE ClockTick \/ CommandTripsBreaker \/ UNCHANGED vars
  BY <1>2 DEF ClockTick, CommandTripsBreaker, vars, CallOK, OneReaction
<1>. QED
  BY <1>1, <1>2, CallBegins, CallGoesOn DEF Next

-----------------------------------------------------------------------------
(* The rows.                                                               *)

(* No session is opened, reopened or moved, and nobody responds or takes a  *)
(* response back. *)
SameSession(a, b) ==
    /\ b.trk = a.trk
    /\ b.status # "none" <=> a.status # "none"
    /\ IsActive(b) => IsActive(a)
    /\ b.status = "pending" =>
          a.status = "pending" /\ b.hasReport = a.hasReport /\ (a.snapped => b.snapped)
    /\ b.released = a.released /\ b.responded = a.responded /\ b.last = a.last
    /\ Missing(b) = Missing(a)

SameMissing == \A m \in Message : SameSession(alarm[m], alarm'[m])

LEMMA UnchangedMissing == UNCHANGED alarm => SameMissing
BY DEF SameMissing, SameSession

LEMMA RowMissing ==
    ASSUME IInv, NEW m \in Message, NEW b, alarm' = [alarm EXCEPT ![m] = b],
           SameSession(alarm[m], b)
    PROVE  SameMissing
BY DEF SameMissing, SameSession, IInv, TypeOK

(* The transitions that follow an attempt leave the responses. *)
LEMMA TransitionsMissing ==
    ASSUME NEW a \in Alarm, NEW kind, NEW result, NEW text
    PROVE  /\ SameSession(a, AfterAttempt(a, kind, result, text))
           /\ SameSession(a, SnapshotFinalMissing(a))
           /\ SameSession(a, ClearEditDue(a))
<1>1. SameSession(a, SnapshotFinalMissing(a))
  BY DEF SnapshotFinalMissing, IsActive, Missing, Alarm, SameSession
<1>2. SameSession(a, ClearEditDue(a))
  BY DEF ClearEditDue, IsActive, Missing, Alarm, SameSession
<1>3. SameSession(a, MarkReported(a, result, text))
  BY DEF MarkReported, IsActive, ActiveStatus, Missing, Alarm, SameSession
<1>4. SameSession(a, RecordSuccessfulEdit(a, text))
  BY DEF RecordSuccessfulEdit, IsActive, Missing, Alarm, SameSession
<1>5. SameSession(a, MarkCompleted(a))
  BY DEF MarkCompleted, IsActive, ActiveStatus, Missing, Alarm, SameSession
<1>6. AfterAttempt(a, kind, result, text) \in
        {a, MarkReported(a, result, text), RecordSuccessfulEdit(a, text),
         ClearEditDue(a), MarkCompleted(a)}
  BY DEF AfterAttempt
<1>7. SameSession(a, a)
  BY DEF SameSession
<1>. QED
  BY <1>1, <1>2, <1>3, <1>4, <1>5, <1>6, <1>7

LEMMA ExpiryMissing == ASSUME IInv, NEW from, ExpireDue(from) PROVE SameMissing
<1>. SUFFICES ASSUME NEW m \in Message
              PROVE  SameSession(alarm[m], alarm'[m])
  BY DEF SameMissing
<1>1. CASE m \in DueToExpire(alarm, now, from)
  <2>1. /\ alarm'[m].status = "expired" /\ alarm'[m].trk = alarm[m].trk
        /\ alarm'[m].released = alarm[m].released
        /\ alarm'[m].responded = alarm[m].responded /\ alarm'[m].last = alarm[m].last
        /\ IsActive(alarm[m])
    <3>1. /\ alarm'[m] = [alarm[m] EXCEPT !.status = "expired", !.editDue = None]
          /\ IsActive(alarm[m])
      BY <1>1 DEF ExpireDue, ExpireAlarms, DueToExpire
    <3>2. alarm[m] \in Alarm
      BY DEF IInv, TypeOK
    <3>. QED
      BY <3>1, <3>2 DEF Alarm
  <2>. QED
    BY <2>1 DEF IsActive, ActiveStatus, Missing, SameSession
<1>2. CASE m \notin DueToExpire(alarm, now, from)
  BY <1>2 DEF ExpireDue, ExpireAlarms, SameSession
<1>. QED
  BY <1>1, <1>2

(* Only a new session and a reaction change who is missing. *)
Changing == IntakeTrigger \/ CheckAdopt \/ ReactionApply \/ CheckReplay

LEMMA OthersKeepMissing == IInv /\ [Next]_vars => Changing \/ SameMissing
<1>. SUFFICES ASSUME IInv, [Next]_vars, ~Changing PROVE SameMissing
  OBVIOUS
<1>1. \A m \in Message : alarm[m] \in Alarm
  BY DEF IInv, TypeOK
<1>2. CASE UNCHANGED alarm
  BY <1>2, UnchangedMissing
<1>3. CASE Call
  <2>1. \/ UNCHANGED alarm
        \/ \E from : ExpireDue(from)
    BY <1>3 DEF Call, TickBegin, MessageBegin, ReactionBegin, ReactionIgnored,
                CheckLatest, CheckText, CheckBegin
  <2>. QED
    BY <1>2, <2>1, ExpiryMissing
<1>4. CASE SnapshotFinal
  <2>1. job.m \in Message
    BY <1>4 DEF SnapshotFinal, IInv, JobOK
  <2>2. \/ UNCHANGED alarm
        \/ alarm' = [alarm EXCEPT ![job.m] = SnapshotFinalMissing(alarm[job.m])]
    BY <1>4, EvaluationsWriteNoRow DEF SnapshotFinal
  <2>. QED
    BY <1>1, <1>2, <2>1, <2>2, TransitionsMissing, RowMissing
<1>5. CASE Post
  <2>1. job.m \in Message
    BY <1>5 DEF Post, IInv, JobOK, AttemptPc
  <2>. DEFINE a == alarm[job.m]
              b == AfterAttempt(a, key[2], job.result, job.text)
  <2>2. alarm' = [alarm EXCEPT ![job.m] = b]
    BY <1>5 DEF Post
  <2>3. SameSession(a, b)
    BY <1>1, <2>1, TransitionsMissing
  <2>. HIDE DEF b
  <2>. QED
    BY <2>1, <2>2, <2>3, RowMissing
<1>6. CASE TickEdit
  <2>1. PICK m \in Message : ProcessEdit(m, "select")
    BY <1>6 DEF TickEdit, ToEdit, DueEdits, Earliest
  <2>2. \/ UNCHANGED alarm
        \/ alarm' = [alarm EXCEPT ![m] = ClearEditDue(alarm[m])]
    BY <2>1 DEF ProcessEdit
  <2>. QED
    BY <1>1, <1>2, <2>2, TransitionsMissing, RowMissing
<1>7. CASE MarkFinalDue \/ AttemptAction
  BY <1>2, <1>7 DEF MarkFinalDue, AttemptAction, Claim, Issue, Blocked, Succeed, Fail,
                    RateLimited, LoseAnswer, Finish, durable
<1>8. CASE TickComplete \/ TickIntermediate \/ TickFinal \/ TickEnd
  BY <1>2, <1>8, EvaluationsWriteNoRow
     DEF TickComplete, TickIntermediate, TickFinal, TickEnd
<1>9. CASE MessageRun \/ ReactionRun \/ CheckRun
  BY <1>2, <1>9, EvaluationsWriteNoRow
     DEF Changing, MessageRun, IntakeIgnored, HostReaction, Settle, ReactionRun,
         ReactionLate, ReactionAfter, CheckRun, CheckReplayed, CheckEvaluate
<1>10. CASE ClockTick \/ CommandTripsBreaker \/ TickFails \/ Crash \/ UNCHANGED vars
  BY <1>2, <1>10, CrashTables, ExpiryMissing
     DEF ClockTick, CommandTripsBreaker, TickFails, vars, durable
<1>. QED
  BY <1>3, <1>4, <1>5, <1>6, <1>7, <1>8, <1>9, <1>10
     DEF Next, JobStep, AttemptStep, AttemptAction, TickRun

(* A process keeps its start time, and time goes on. *)
LEMMA OneProcess ==
    ASSUME [Next]_vars, ~Crash
    PROVE  UNCHANGED started
BY DEF Next, Call, TickBegin, MessageBegin, ReactionBegin, ReactionIgnored,
   CheckLatest, CheckText, CheckBegin, JobStep, SnapshotFinal, MarkFinalDue,
   AttemptStep, Claim, Issue, Blocked, Succeed, Fail, RateLimited, LoseAnswer,
   Finish, Post, TickRun, TickComplete, TickIntermediate, TickFinal, TickEdit,
   TickEnd, MessageRun, IntakeIgnored, IntakeTrigger, HostReaction, Settle,
   ReactionRun, ReactionLate, ReactionApply, ReactionAfter, CheckRun, CheckAdopt,
   CheckReplay, CheckReplayed, CheckEvaluate, ClockTick, CommandTripsBreaker,
   TickFails, vars, rest

LEMMA TimeAdvances ==
    ASSUME IInv, [Next]_vars
    PROVE  now <= now'
<1>1. now \in Nat
  BY DEF IInv, TypeOK
<1>2. now' = now \/ now' = now + 1
  BY DEF Next, Call, TickBegin, MessageBegin, ReactionBegin, ReactionIgnored,
     CheckLatest, CheckText, CheckBegin, JobStep, SnapshotFinal, MarkFinalDue,
     AttemptStep, Claim, Issue, Blocked, Succeed, Fail, RateLimited, LoseAnswer,
     Finish, Post, TickRun, TickComplete, TickIntermediate, TickFinal, TickEdit,
     TickEnd, MessageRun, IntakeIgnored, IntakeTrigger, HostReaction, Settle,
     ReactionRun, ReactionLate, ReactionApply, ReactionAfter, CheckRun, CheckAdopt,
     CheckReplay, CheckReplayed, CheckEvaluate,
     ClockTick, CommandTripsBreaker, TickFails, Crash, vars, rest
<1>. QED
  BY <1>1, <1>2

-----------------------------------------------------------------------------
(* Full sessions.                                                          *)

LEMMA CalmFull == Calm' => FullOK'
BY DEF Calm, FullOK

LEMMA FullBefore ==
    ASSUME SameMissing, UNCHANGED started, NEW m \in Message, Full(m)'
    PROVE  Full(m)
BY DEF SameMissing, SameSession, Full, OwnActive

(* The job of a full session goes on with it. *)
LEMMA FullFollows ==
    ASSUME SameMissing, UNCHANGED started, FullOK,
           job'.m = job.m, job'.by = job.by,
           pc' \in {"settle", "replay", "evaluate"}
              \/ (pc' \in AttemptPc /\ key'[2] \in Completing \cup {"host_reaction"})
    PROVE  FullOK'
<1>. SUFFICES ASSUME NEW m \in Message, Full(m)'
              PROVE  /\ m = job'.m /\ job'.by # "tick"
                     /\ pc' \in {"host", "settle", "after", "replay", "evaluate"} \cup AttemptPc
                     /\ pc' \in AttemptPc => key'[2] \in Completing \cup {"host_reaction"}
                     /\ pc' = "after" => job'.changed /\ \A e \in job'.todo : ~e.removed
  BY DEF FullOK
<1>1. Full(m)
  BY FullBefore
<1>. QED
  BY <1>1 DEF FullOK, AttemptPc

LEMMA CompleteFollows ==
    ASSUME IInv, FullOK, SameMissing, UNCHANGED started, NEW back, Complete(job.m, back)
    PROVE  FullOK'
<1>1. /\ job'.m = job.m /\ job'.by = job.by /\ pc' \in {"claim", "post"}
      /\ key'[2] \in Completing
  <2>. DEFINE k == <<job.m, IF alarm[job.m].status = "reported" /\ alarm[job.m].hasReport
                            THEN "completion_edit" ELSE "completion", 0>>
  <2>1. k[1] = job.m /\ k[2] \in Completing
    BY DEF Completing
  <2>2. \/ Attempt(k, NoText, back)
        \/ /\ pc' = "post" /\ key' = k
           /\ job' = [job EXCEPT !.m = job.m, !.back = back, !.result = "skipped"]
    BY DEF Complete
  <2>. HIDE DEF k
  <2>. QED
    BY <2>1, <2>2 DEF Attempt, IInv, TypeOK
<1>. QED
  BY <1>1, FullFollows DEF AttemptPc

(* An attempt completes its session, or was the host reaction to it. *)
LEMMA AttemptFull ==
    ASSUME IInv, SInv, CallOK, FullOK, ~Calm, AttemptStep
    PROVE  FullOK'
<1>1. PICK n \in Message : Full(n) /\ n = job.m
  BY DEF Calm, FullOK
<1>2. /\ SameMissing /\ UNCHANGED started
      /\ pc \in AttemptPc /\ key[2] \in Completing \cup {"host_reaction"}
  <2>1. SameMissing
    BY OthersKeepMissing DEF Next, JobStep, Changing, AttemptStep, Claim, Issue, Blocked,
       Succeed, Fail, RateLimited, LoseAnswer, Post, IntakeTrigger, CheckAdopt,
       ReactionApply, CheckReplay
  <2>2. UNCHANGED started /\ pc \in AttemptPc
    BY DEF AttemptStep, Claim, Issue, Blocked, Succeed, Fail, RateLimited, LoseAnswer,
       Finish, Post, rest, AttemptPc
  <2>. QED
    BY <1>1, <2>1, <2>2 DEF FullOK
<1>3. CASE AttemptAction
  <2>1. /\ job'.m = job.m /\ job'.by = job.by /\ key' = key /\ pc' \in AttemptPc
    BY <1>3 DEF AttemptAction, Claim, Issue, Blocked, Succeed, Fail, RateLimited,
                LoseAnswer, Finish, AttemptPc, IInv, TypeOK
  <2>. QED
    BY <1>2, <2>1, FullFollows
<1>4. CASE Post /\ key[2] = "host_reaction"
  <2>1. job.back = "settle" /\ Return("settle")
    BY <1>2, <1>4 DEF Post, CallOK
  <2>2. pc' = "settle" /\ job'.m = job.m /\ job'.by = job.by
    BY <2>1 DEF Return, IInv, TypeOK
  <2>. QED
    BY <1>2, <2>2, FullFollows
<1>5. CASE Post /\ key[2] \in Completing
  <2>1. alarm'[n] = MarkCompleted(alarm[n]) /\ alarm[n] \in Alarm
    BY <1>1, <1>5 DEF Post, AfterAttempt, Completing, IInv, TypeOK
  <2>2. ~IsActive(alarm'[n])
    BY <2>1 DEF MarkCompleted, IsActive, ActiveStatus, Alarm
  <2>3. Calm'
    <3>. SUFFICES ASSUME NEW m \in Message, Full(m)' PROVE FALSE
      BY DEF Calm
    <3>1. m = job.m
      BY <1>2, FullBefore DEF FullOK
    <3>. QED
      BY <1>1, <2>2, <3>1 DEF Full, OwnActive
  <2>. QED
    BY <2>3, CalmFull
<1>. QED
  BY <1>2, <1>3, <1>4, <1>5 DEF AttemptStep, AttemptAction

(* The other steps of the job of a full session. *)
LEMMA JobFull ==
    ASSUME IInv, CallOK, FullOK, ~Calm, JobStep, ~AttemptStep, ~CheckReplay
    PROVE  FullOK'
<1>1. PICK n \in Message : Full(n) /\ n = job.m
  BY DEF Calm, FullOK
<1>2. /\ pc \in {"host", "settle", "after", "replay", "evaluate"} \cup AttemptPc
      /\ IsActive(alarm[job.m]) /\ Missing(alarm[job.m]) = {}
      /\ pc = "after" => job.changed /\ \A e \in job.todo : ~e.removed
  BY <1>1 DEF FullOK, Full, OwnActive
<1>3. HostReaction \/ Settle \/ ReactionAfter \/ CheckReplayed \/ CheckEvaluate
  BY <1>2 DEF JobStep, SnapshotFinal, MarkFinalDue, TickRun, TickComplete,
     TickIntermediate, TickFinal, TickEdit, TickEnd, MessageRun, IntakeIgnored,
     IntakeTrigger, ReactionRun, ReactionLate, ReactionApply, CheckRun, CheckAdopt,
     AttemptPc
<1>4. SameMissing /\ UNCHANGED started
  BY <1>3, OthersKeepMissing
     DEF Next, JobStep, MessageRun, ReactionRun, CheckRun, Changing, IntakeTrigger,
         CheckAdopt, ReactionApply, CheckReplay, HostReaction, Settle, ReactionAfter,
         CheckReplayed, CheckEvaluate, rest
<1>5. CASE HostReaction
  <2>1. /\ pc' = "claim" /\ key'[2] = "host_reaction"
        /\ job'.m = job.m /\ job'.by = job.by
    BY <1>5 DEF HostReaction, Attempt, IInv, TypeOK
  <2>. QED
    BY <1>4, <2>1, FullFollows DEF AttemptPc
<1>6. CASE Settle \/ ReactionAfter \/ CheckEvaluate
  <2>1. Complete(job.m, "free")
    BY <1>2, <1>6 DEF Settle, ReactionAfter, CheckEvaluate
  <2>. QED
    BY <1>4, <2>1, CompleteFollows
<1>7. CASE CheckReplayed
  BY <1>4, <1>7, FullFollows DEF CheckReplayed, Goto
<1>. QED
  BY <1>3, <1>5, <1>6, <1>7

(* A new session may be full; its job goes on with it. *)
LEMMA NewFull ==
    ASSUME IInv, IInv', CallOK, FullOK, IntakeTrigger \/ CheckAdopt, SInv
    PROVE  FullOK'
<1>1. /\ pc \in {"intake", "adopt"} /\ job.m \in Message /\ UNCHANGED started
      /\ job.by # "tick" /\ alarm \in [Message -> Alarm]
  BY DEF IntakeTrigger, CheckAdopt, CallOK, CalledFor, IInv, TypeOK, JobOK, rest
<1>2. \A m \in Message \ {job.m} : alarm'[m] = alarm[m]
  BY <1>1 DEF IntakeTrigger, CheckAdopt, Create
<1>3. \/ Release /\ ~IsActive(alarm'[job.m])
      \/ Goto("host") \/ Goto("settle") \/ Goto("replay") \/ Goto("evaluate")
  BY DEF IntakeTrigger, CheckAdopt, IsActive, ActiveStatus
<1>. SUFFICES ASSUME NEW m \in Message, Full(m)'
              PROVE  /\ m = job'.m /\ job'.by # "tick"
                     /\ pc' \in {"host", "settle", "replay", "evaluate"}
  BY DEF FullOK, AttemptPc
<1>4. m = job.m
  <2>. SUFFICES ASSUME m # job.m PROVE FALSE
    OBVIOUS
  <2>1. Full(m)
    BY <1>1, <1>2 DEF Full, OwnActive
  <2>. QED
    BY <1>1, <2>1 DEF FullOK, AttemptPc
<1>5. ~Release
  BY <1>3, <1>4 DEF Full, OwnActive, Release, Goto
<1>. QED
  BY <1>1, <1>3, <1>4, <1>5 DEF Goto

(* The reaction of the last missing member changes the response. *)
LEMMA LastResponds ==
    ASSUME NEW a \in Alarm, NEW e, NEW t,
           Missing(a) # {}, Missing(ApplyReaction(a, e, t)) = {}
    PROVE  ChangesResponse(a, e) /\ ~e.removed
<1>1. Accepts(a, e)
  BY DEF ApplyReaction
<1>2. ApplyReaction(a, e, t).released = a.released
  BY <1>1 DEF ApplyReaction, Alarm
<1>3. ~e.removed
  <2>. SUFFICES ASSUME e.removed PROVE FALSE
    OBVIOUS
  <2>1. ApplyReaction(a, e, t).responded = a.responded \ {e.reactor}
    BY <1>1 DEF ApplyReaction, Alarm
  <2>. QED
    BY <1>2, <2>1 DEF Missing
<1>4. e.reactor \notin a.responded
  <2>. SUFFICES ASSUME e.reactor \in a.responded PROVE FALSE
    OBVIOUS
  <2>1. ApplyReaction(a, e, t).responded = a.responded
    BY <1>1, <1>3 DEF ApplyReaction, Alarm
  <2>. QED
    BY <1>2, <2>1 DEF Missing
<1>. QED
  BY <1>1, <1>3, <1>4 DEF ChangesResponse

LEMMA AppliedFull ==
    ASSUME IInv, IInv', CallOK, FullOK, ReactionApply \/ CheckReplay
    PROVE  FullOK'
<1>1. PICK e \in job.todo :
        /\ alarm' = [alarm EXCEPT ![job.m] = ApplyReaction(alarm[job.m], e, job.now)]
        /\ \/ /\ ReactionApply
              /\ job' = [job EXCEPT !.changed = ChangesResponse(alarm[job.m], e)]
           \/ /\ CheckReplay
              /\ job' = [job EXCEPT !.todo = job.todo \ {e}]
  BY DEF ReactionApply, CheckReplay
<1>2. /\ job.m \in Message /\ UNCHANGED started /\ job.by # "tick"
      /\ alarm \in [Message -> Alarm] /\ alarm[job.m] \in Alarm
      /\ job'.m = job.m /\ job'.by = job.by
      /\ <<pc, pc'>> \in {<<"apply", "after">>, <<"replay", "replay">>}
      /\ ReactionApply => pc = "apply"
      /\ CheckReplay => pc = "replay"
  BY <1>1 DEF ReactionApply, CheckReplay, CallOK, CalledFor, IInv, TypeOK, JobOK, AttemptPc
<1>3. SameRow(alarm[job.m], alarm'[job.m])
  BY <1>1, <1>2, ReactionSame DEF RowsSame
<1>. SUFFICES ASSUME NEW m \in Message, Full(m)'
              PROVE  /\ m = job.m
                     /\ pc = "apply" => job'.changed /\ \A d \in job'.todo : ~d.removed
  BY <1>2 DEF FullOK, AttemptPc
<1>4. m = job.m
  <2>. SUFFICES ASSUME m # job.m PROVE FALSE
    OBVIOUS
  <2>1. Full(m)
    BY <1>1, <1>2 DEF Full, OwnActive
  <2>. QED
    BY <2>1 DEF FullOK
<1>5. ASSUME pc = "apply"
      PROVE  job'.changed /\ \A d \in job'.todo : ~d.removed
  <2>1. ~Full(m)
    BY <1>5 DEF FullOK, AttemptPc
  <2>2. Missing(alarm[m]) # {} /\ Missing(alarm'[m]) = {}
    BY <1>2, <1>3, <1>4, <2>1 DEF Full, OwnActive, SameRow, IsActive
  <2>3. alarm'[m] = ApplyReaction(alarm[m], e, job.now)
    BY <1>1, <1>2, <1>4
  <2>4. ChangesResponse(alarm[m], e) /\ ~e.removed
    BY <1>2, <1>4, <2>2, <2>3, LastResponds
  <2>5. job' = [job EXCEPT !.changed = ChangesResponse(alarm[m], e)]
    BY <1>1, <1>2, <1>4, <1>5 DEF CheckReplay
  <2>6. job'.changed /\ job'.todo = job.todo
    BY <2>4, <2>5 DEF IInv, TypeOK
  <2>7. \A d \in job.todo : d = e
    BY <1>5 DEF CallOK, OneReaction
  <2>. QED
    BY <2>4, <2>6, <2>7
<1>. QED
  BY <1>4, <1>5

-----------------------------------------------------------------------------
(* No clock is ahead.                                                      *)

(* A session does not begin after now, so none outlives its process.       *)
NotAhead ==
    /\ \A m \in Message : alarm[m].status # "none" => alarm[m].trk <= now
    /\ pc = "intake" => SentAt[job.m] <= now

CInv == CallOK /\ FullOK /\ NotAhead

LEMMA FullStep ==
    ASSUME IInv, IInv', SInv, CInv, [Next]_vars
    PROVE  FullOK'
<1>. USE DEF CInv
<1>1. CASE IntakeTrigger \/ CheckAdopt
  BY <1>1, NewFull
<1>2. CASE ReactionApply \/ CheckReplay
  BY <1>2, AppliedFull
<1>3. CASE Crash
  <2>. SUFFICES ASSUME NEW m \in Message, Full(m)' PROVE FALSE
    BY CalmFull DEF Calm
  <2>1. started' = now + 1 /\ SameMissing
    BY <1>3, CrashTables, UnchangedMissing, ExpiryMissing DEF Crash
  <2>2. alarm'[m].trk = alarm[m].trk /\ alarm[m].trk <= now
    BY <2>1 DEF NotAhead, SameMissing, SameSession, Full, OwnActive, IsActive, ActiveStatus
  <2>. QED
    BY <2>1, <2>2, TimesAreNumbers DEF Full, OwnActive
<1>4. CASE ~Changing /\ ~Crash
  <2>1. SameMissing
    BY <1>4, OthersKeepMissing
  <2>2. UNCHANGED started
    BY <1>4, OneProcess
  <2>3. CASE Calm
    BY <2>1, <2>2, <2>3, FullBefore, CalmFull DEF Calm
  <2>4. CASE ~Calm
    <3>1. CASE AttemptStep
      BY <2>4, <3>1, AttemptFull
    <3>2. CASE JobStep /\ ~AttemptStep
      BY <1>4, <2>4, <3>2, JobFull DEF Changing
    <3>3. CASE Call \/ TickFails
      <4>1. pc # "free" /\ job.by # "tick"
        BY <2>4 DEF Calm, FullOK, AttemptPc
      <4>. QED
        BY <3>3, <4>1 DEF Call, TickBegin, MessageBegin, ReactionBegin, ReactionIgnored,
                          CheckLatest, CheckText, CheckBegin, TickFails
    <3>4. CASE ClockTick \/ CommandTripsBreaker \/ UNCHANGED vars
      BY <3>4 DEF ClockTick, CommandTripsBreaker, vars, durable, FullOK, Full, OwnActive
    <3>. QED
      BY <1>4, <3>1, <3>2, <3>3, <3>4 DEF Next
  <2>. QED
    BY <2>3, <2>4
<1>. QED
  BY <1>1, <1>2, <1>3, <1>4 DEF Changing

LEMMA AppliedSame ==
    ASSUME IInv, ReactionApply \/ CheckReplay
    PROVE  RowsSame
BY ReactionSame DEF ReactionApply, CheckReplay, IInv, JobOK, AttemptPc

(* A message is taken in only once it was sent. *)
LEMMA IntakeBegins ==
    ASSUME IInv, [Next]_vars, pc' = "intake"
    PROVE  \/ pc = "intake" /\ job' = job
           \/ \E m \in Message : MessageBegin(m)
<1>1. CASE Call
  BY <1>1 DEF Call, TickBegin, ReactionBegin, ReactionIgnored, CheckLatest, CheckText,
              CheckBegin, Begin, Release, CheckPc
<1>2. CASE JobStep
  <2>. USE DEF Goto, Release, Attempt
  <2>1. job.back \in Resting /\ {"free", "select", "apply"} \subseteq Resting
    BY DEF IInv, TypeOK, Resting
  <2>2. ASSUME NEW back \in Resting
        PROVE  /\ Return(back) => pc' # "intake"
               /\ \A m : Complete(m, back) \/ ProcessIntermediate(m, back)
                       \/ ProcessFinal(m, back) \/ ProcessEdit(m, back) => pc' # "intake"
    <3>1. Return(back) => pc' # "intake"
      BY DEF Return, Resting
    <3>2. \A m : Complete(m, back) => pc' # "intake"
      BY DEF Complete
    <3>. QED
      BY <3>1, <3>2 DEF ProcessIntermediate, ProcessFinal, ProcessEdit
  <2>3. CASE SnapshotFinal \/ MarkFinalDue \/ Post
    BY <2>1, <2>2, <2>3 DEF SnapshotFinal, MarkFinalDue, Post
  <2>4. CASE AttemptAction
    BY <2>4 DEF AttemptAction, Claim, Issue, Blocked, Succeed, Fail, RateLimited,
                LoseAnswer, Finish
  <2>5. CASE TickRun
    BY <2>1, <2>2, <2>5 DEF TickRun, TickComplete, TickIntermediate, TickFinal,
                            TickEdit, TickEnd
  <2>6. CASE MessageRun
    BY <2>1, <2>2, <2>6 DEF MessageRun, IntakeIgnored, IntakeTrigger, HostReaction, Settle
  <2>7. CASE ReactionRun
    BY <2>1, <2>2, <2>7 DEF ReactionRun, ReactionLate, ReactionApply, ReactionAfter
  <2>8. CASE CheckRun
    BY <2>1, <2>2, <2>8 DEF CheckRun, CheckAdopt, CheckReplay, CheckReplayed, CheckEvaluate
  <2>. QED
    BY <1>2, <2>3, <2>4, <2>5, <2>6, <2>7, <2>8 DEF JobStep, AttemptStep, AttemptAction
<1>. QED
  BY <1>1, <1>2 DEF Next, ClockTick, CommandTripsBreaker, TickFails, Crash, Release, vars

(* The only new sessions are those of Create. *)
LEMMA NotAheadStep ==
    ASSUME IInv, IInv', SInv, NotAhead, [Next]_vars, Skew = 0
    PROVE  NotAhead'
<1>1. now \in Nat /\ now' \in Nat /\ now <= now'
  BY TimeAdvances DEF IInv, TypeOK
<1>2. \A m \in Message : alarm[m].trk \in Nat /\ SentAt[m] \in Nat
  BY RowAssumption DEF RowAssumption, IInv, TypeOK, Alarm
<1>3. ASSUME NEW m \in Message, alarm'[m].status # "none"
      PROVE  alarm'[m].trk <= now'
  <2>1. CASE SameMissing \/ RowsSame
    <3>1. alarm[m].status # "none" /\ alarm'[m].trk = alarm[m].trk
      BY <1>3, <2>1 DEF SameMissing, SameSession, RowsSame, SameRow
    <3>. QED
      BY <1>1, <1>2, <3>1 DEF NotAhead
  <2>2. ASSUME NEW source, NEW trk \in Nat, NEW file, Create(job.m, source, trk, file),
               trk <= now, job.m \in Message
        PROVE  alarm'[m].trk <= now'
    <3>1. CASE m = job.m
      <4>1. alarm'[m].trk = trk
        BY <2>2, <3>1 DEF Create, InsertedAlarm, NoAlarm, IInv, TypeOK
      <4>. QED
        BY <1>1, <2>2, <4>1
    <3>2. CASE m # job.m
      <4>1. alarm'[m] = alarm[m]
        BY <2>2, <3>2 DEF Create, IInv, TypeOK
      <4>. QED
        BY <1>1, <1>2, <1>3, <4>1 DEF NotAhead
    <3>. QED
      BY <3>1, <3>2
  <2>3. CASE IntakeTrigger
    BY <1>2, <2>2, <2>3 DEF IntakeTrigger, NotAhead, IInv, JobOK
  <2>4. CASE CheckAdopt
    BY <2>2, <2>4, TimesAreNumbers DEF CheckAdopt, SInv, SubjectOK, IInv, JobOK
  <2>5. CASE ReactionApply \/ CheckReplay
    BY <2>1, <2>5, AppliedSame
  <2>. QED
    BY <2>1, <2>3, <2>4, <2>5, OthersKeepMissing DEF Changing
<1>4. pc' = "intake" => SentAt[job'.m] <= now'
  <2>1. ASSUME NEW m \in Message, MessageBegin(m)
        PROVE  SentAt[job'.m] <= now'
    <3>1. SentAt[m] <= now /\ job'.m = m
      BY <1>1, <1>2, <2>1 DEF MessageBegin, Begin, Idle
    <3>. QED
      BY <1>1, <1>2, <3>1
  <2>2. CASE pc = "intake" /\ job' = job
    BY <1>1, <1>2, <2>2 DEF NotAhead, IInv, JobOK
  <2>. QED
    BY <2>1, <2>2, IntakeBegins
<1>. QED
  BY <1>3, <1>4 DEF NotAhead

(* Between two calls, no session of this process is left open in which     *)
(* everybody has responded: the call that brought the last response, or    *)
(* that began with nobody missing, completes it before it returns, and no  *)
(* failure of the ticker falls in between.  It is assumed that no sender's *)
(* clock is ahead of ours: a session dated after a restart would belong to *)
(* the new process, whose next pass completes it.                          *)
THEOREM CompletedInTheSameCall ==
    ASSUME Skew = 0
    PROVE  Spec => []CompletedPromptly
<1>1. Init => CInv
  <2>. SUFFICES ASSUME Init PROVE CInv
    OBVIOUS
  <2>1. pc = "free" /\ \A m \in Message : alarm[m].status = "none"
    BY DEF Init, NoAlarm
  <2>. QED
    BY <2>1 DEF CInv, CallOK, FullOK, NotAhead, Full, OwnActive, IsActive, ActiveStatus,
                CalledFor, Working, AttemptPc
<1>2. IInv /\ IInv' /\ SInv /\ CInv /\ [Next]_vars => CInv'
  BY CallStep, FullStep, NotAheadStep DEF CInv
<1>3. CInv => CompletedPromptly
  BY DEF CInv, FullOK, CompletedPromptly, Full, AttemptPc
<1>4. IInv /\ [Next]_vars => IInv'
  BY StepPreserves
<1>. QED
  BY <1>1, <1>2, <1>3, <1>4, Inductive, SessionsInductive, PTL DEF Spec

-----------------------------------------------------------------------------
(* Responses.                                                              *)

(* A job that is to apply the reactions of its list to its session.        *)
InHand ==
    \/ pc \in {"late", "apply", "adopt", "replay"}
    \/ pc \in Working /\ job.back = "apply"

(* Every stored reaction, and every one a job has, was accepted.           *)
Accepted(s) ==
    \E e \in Reaction : s.reactor = e.reactor /\ s.ts = e.ts /\ s.removed = e.removed
RowsOK == \A s \in seen \cup job.todo : Accepted(s)

(* The response of a member is what the reaction of its time says.         *)
Told(a) == \A e \in Reaction : e.ts = a.last[e.reactor]
                               => (e.reactor \in a.responded <=> ~e.removed)
ToldOK == \A m \in Message : Told(alarm[m])

(* The message of an active session of this process is known, so that a    *)
(* reaction is ambiguous for the history if it is so for the sessions.     *)
KnownOK ==
    /\ IsFiniteSet(observed)
    /\ \A s \in seen : s.msg \in observed
    /\ \A m \in Message : OwnActive(m) => m \in observed
    /\ pc \in {"intake", "adopt"} => job.m \in observed

(* A trigger gets its session in the call that makes it known, so no       *)
(* reaction to it was stored before.                                       *)
IntakeOK ==
    /\ \A m \in observed : SentAt[m] <= now
    /\ \A m \in observed \cap Trigger :
          SentAt[m] >= started
          => alarm[m].status # "none" \/ (pc = "intake" /\ job.m = m)
    /\ pc = "intake" /\ Starts(job.m) => \A s \in seen : s.msg # job.m

(* What a job has in hand is for its session; /check has all there is.     *)
TodoOK ==
    /\ InHand => \A s \in job.todo : s.msg = job.m
    /\ pc = "adopt" => \A s \in seen : s.msg = job.m => s \in job.todo

(* A stored reaction is counted in its session, or in hand.                *)
Counted(s) ==
    OwnActive(s.msg) /\ s.reactor \in alarm[s.msg].released
    => s.ts <= alarm[s.msg].last[s.reactor]
CountedOK == \A s \in seen : Counted(s) \/ (InHand /\ s \in job.todo)

HInv == RowsOK /\ ToldOK /\ KnownOK /\ IntakeOK /\ TodoOK /\ CountedOK

-----------------------------------------------------------------------------
LEMMA RowTypes ==
    ASSUME IInv
    PROVE  /\ \A s \in seen \cup job.todo : /\ s \in Seen /\ s.msg \in Message
                                            /\ s.reactor \in Member /\ s.ts \in Nat
           /\ \A m \in Message : /\ alarm[m] \in Alarm /\ alarm[m].trk \in Nat
                                 /\ SentAt[m] \in Nat
           /\ \A m \in Message, p \in Member : /\ alarm[m].last[p] \in Nat \cup {-1}
           /\ \A e \in Reaction : e.reactor \in Member /\ e.ts \in Nat
                                  /\ e.removed \in BOOLEAN
           /\ now \in Nat /\ started \in Nat /\ observed \subseteq Message
           /\ job \in Job /\ job.now \in Nat
<1>1. \A m \in Message : alarm[m] \in Alarm
  BY DEF IInv, TypeOK
<1>2. \A m \in Message, p \in Member : alarm[m].last[p] \in Nat \cup {-1}
  BY <1>1 DEF Alarm, None
<1>3. \A m \in Message : alarm[m].trk \in Nat /\ SentAt[m] \in Nat
  BY <1>1, RowAssumption DEF Alarm, RowAssumption
<1>4. \A s \in seen \cup job.todo : s \in Seen
  BY DEF IInv, TypeOK
<1>5. job \in Job
  BY DEF IInv, TypeOK, Job
<1>. QED
  BY <1>1, <1>2, <1>3, <1>4, <1>5, InputAssumption DEF Seen, InputAssumption, IInv, TypeOK, Job

(* What happens to the list of a job that applies nothing from it: it is   *)
(* kept, or given up with the session, or made from what is stored.        *)
HandSteady ==
    \/ UNCHANGED <<pc, job, observed, seen>>
    \/ /\ pc = "intake" => ~Starts(job.m)
       /\ pc' # "intake"
       /\ \/ /\ InHand /\ InHand' /\ pc' # "adopt"
             /\ job'.todo = job.todo /\ job'.m = job.m
          \/ /\ ~InHand' /\ job'.todo \subseteq job.todo
             /\ InHand => job.todo = {} \/ ~IsActive(alarm[job.m])
          \/ /\ ~InHand /\ InHand' /\ job'.m \in observed'
             /\ job'.todo = {s \in seen : s.msg = job'.m}

HistoryShrinks ==
    \/ UNCHANGED <<observed, seen>>
    \/ \E t : /\ observed' = RetainedMessages(observed, alarm', t)
              /\ seen' = RetainedReactions(seen, observed')

LEMMA QuietHistory ==
    ASSUME IInv, IInv', HInv, SameMissing, UNCHANGED started, now <= now',
           HandSteady, HistoryShrinks
    PROVE  HInv'
<1>. USE DEF HInv
<1>1. /\ observed' \subseteq observed /\ seen' \subseteq seen
      /\ \A s \in seen' : s.msg \in observed'
      /\ \A m \in observed : IsActive(alarm'[m]) => m \in observed'
  BY DEF HistoryShrinks, RetainedMessages, RetainedReactions, KnownOK
<1>2. \A m \in Message : OwnActive(m)' => OwnActive(m)
  BY DEF SameMissing, SameSession, OwnActive
<1>3. RowsOK'
  BY <1>1 DEF RowsOK, HandSteady, Accepted
<1>4. ToldOK'
  BY DEF ToldOK, Told, SameMissing, SameSession
<1>5. KnownOK'
  <2>1. IsFiniteSet(observed')
    BY <1>1, FS_Subset DEF KnownOK
  <2>2. \A m \in Message : OwnActive(m)' => m \in observed'
    BY <1>1, <1>2 DEF KnownOK, OwnActive
  <2>3. pc' \in {"intake", "adopt"} => job'.m \in observed'
    BY DEF HandSteady, KnownOK, InHand
  <2>. QED
    BY <1>1, <2>1, <2>2, <2>3 DEF KnownOK
<1>6. IntakeOK'
  <2>1. \A m \in observed' : SentAt[m] <= now'
    BY <1>1, RowTypes DEF IntakeOK, IInv, TypeOK
  <2>2. ASSUME NEW m \in observed' \cap Trigger, SentAt[m] >= started
        PROVE  alarm'[m].status # "none" \/ (pc' = "intake" /\ job'.m = m)
    <3>1. alarm[m].status # "none" \/ (pc = "intake" /\ job.m = m)
      BY <1>1, <2>2 DEF IntakeOK
    <3>2. alarm'[m].status # "none" <=> alarm[m].status # "none"
      BY <1>1, RowTypes DEF SameMissing, SameSession
    <3>3. pc = "intake" /\ job.m = m
          => UNCHANGED <<pc, job>> \/ alarm[m].status # "none"
      BY <2>2 DEF HandSteady, Starts
    <3>. QED
      BY <3>1, <3>2, <3>3
  <2>3. pc' = "intake" /\ Starts(job.m)' => \A s \in seen' : s.msg # job'.m
    <3>. SUFFICES ASSUME pc' = "intake", Starts(job.m)'
                  PROVE  \A s \in seen' : s.msg # job'.m
      OBVIOUS
    <3>1. pc = "intake" /\ job' = job
      BY DEF HandSteady
    <3>2. job.m \in Message
      BY <3>1 DEF IInv, JobOK
    <3>3. Starts(job.m)
      BY <3>1, <3>2 DEF Starts, SameMissing, SameSession
    <3>. QED
      BY <1>1, <3>1, <3>3 DEF IntakeOK
  <2>. QED
    BY <2>1, <2>2, <2>3 DEF IntakeOK
<1>7. TodoOK'
  <2>1. CASE UNCHANGED <<pc, job, observed, seen>>
    BY <2>1 DEF TodoOK, InHand, Working, AttemptPc
  <2>2. CASE ~UNCHANGED <<pc, job, observed, seen>>
    BY <1>1, <2>2 DEF HandSteady, TodoOK, InHand
  <2>. QED
    BY <2>1, <2>2
<1>8. CountedOK'
  <2>. SUFFICES ASSUME NEW s \in seen', OwnActive(s.msg)', s.reactor \in alarm'[s.msg].released,
                       ~(InHand' /\ s \in job'.todo)
                PROVE  s.ts <= alarm'[s.msg].last[s.reactor]
    BY DEF CountedOK, Counted
  <2>1. s \in seen /\ s.msg \in Message
    BY <1>1, RowTypes
  <2>2. /\ OwnActive(s.msg) /\ s.reactor \in alarm[s.msg].released
        /\ alarm'[s.msg].last = alarm[s.msg].last
    BY <1>2, <2>1 DEF SameMissing, SameSession
  <2>3. ~(InHand /\ s \in job.todo)
    <3>1. CASE UNCHANGED <<pc, job, observed, seen>>
      BY <3>1 DEF InHand, Working, AttemptPc
    <3>2. CASE ~UNCHANGED <<pc, job, observed, seen>>
      BY <2>2, <3>2 DEF HandSteady, TodoOK, OwnActive
    <3>. QED
      BY <3>1, <3>2
  <2>. QED
    BY <2>1, <2>2, <2>3 DEF CountedOK, Counted
<1>. QED
  BY <1>3, <1>4, <1>5, <1>6, <1>7, <1>8

(* Such a step of a job that has nothing in hand takes nothing up. *)
HandLeft == HandSteady /\ (InHand' => InHand)

LEMMA HandKept ==
    ASSUME pc # "intake", pc' \notin {"intake", "adopt"}, InHand' <=> InHand,
           job'.todo = job.todo, job'.m = job.m
    PROVE  HandLeft
BY DEF HandLeft, HandSteady

LEMMA ReleaseHand ==
    ASSUME IInv, Release, pc = "intake" => ~Starts(job.m),
           InHand => job.todo = {} \/ ~IsActive(alarm[job.m])
    PROVE  HandLeft
BY DEF Release, Idle, HandLeft, HandSteady, InHand, Working, AttemptPc

(* An evaluation returns to the job that has something in hand, or is      *)
(* under way for it.                                                       *)
LEMMA EvaluationHand ==
    ASSUME IInv, NEW m, NEW back \in Resting, pc # "intake",
           \/ Complete(m, back) \/ ProcessIntermediate(m, back)
           \/ ProcessFinal(m, back) \/ ProcessEdit(m, back),
           IF back = "apply" THEN InHand /\ m = job.m ELSE ~InHand
    PROVE  HandLeft
<1>1. job \in Job
  BY DEF IInv, TypeOK, Job
<1>2. ASSUME job'.todo = job.todo, job'.m = m, job'.back = back,
             pc' \in {"claim", "post", "snapshot"}
      PROVE  HandLeft
  BY <1>2 DEF HandLeft, HandSteady, InHand, Working, AttemptPc
<1>3. CASE Return(back)
  <2>1. CASE back = "free"
    BY <1>3, <2>1, ReleaseHand DEF Return
  <2>2. CASE back # "free"
    <3>1. /\ pc' = back /\ job'.todo = job.todo
          /\ back # "select" => job'.m = job.m
      BY <1>1, <1>3, <2>2 DEF Return, Job
    <3>. QED
      BY <2>2, <3>1 DEF HandLeft, HandSteady, InHand, Working, AttemptPc, Resting
  <2>. QED
    BY <2>1, <2>2
<1>4. ASSUME NEW k, NEW text, Attempt(k, text, back), k[1] = m
      PROVE  HandLeft
  BY <1>1, <1>2, <1>4 DEF Attempt, Job
<1>5. CASE Complete(m, back)
  <2>. DEFINE k == <<m, IF alarm[m].status = "reported" /\ alarm[m].hasReport
                        THEN "completion_edit" ELSE "completion", 0>>
  <2>1. k[1] = m
    OBVIOUS
  <2>2. \/ Attempt(k, NoText, back)
        \/ /\ pc' = "post" /\ key' = k
           /\ job' = [job EXCEPT !.m = m, !.back = back, !.result = "skipped"]
    BY <1>5 DEF Complete
  <2>. HIDE DEF k
  <2>. QED
    BY <1>1, <1>2, <1>4, <2>1, <2>2 DEF Job
<1>6. CASE ProcessIntermediate(m, back)
  BY <1>3, <1>4, <1>5, <1>6 DEF ProcessIntermediate
<1>7. CASE ProcessFinal(m, back)
  BY <1>1, <1>2, <1>7 DEF ProcessFinal, Job
<1>8. CASE ProcessEdit(m, back)
  BY <1>3, <1>4, <1>8 DEF ProcessEdit
<1>. QED
  BY <1>5, <1>6, <1>7, <1>8

(* The steps of a job that apply no reaction and open no session. *)
LEMMA JobHand ==
    ASSUME IInv, JobStep, ~Changing
    PROVE  HandLeft /\ HistoryShrinks
<1>1. job \in Job /\ job.back \in Resting
  BY DEF IInv, TypeOK, Job
<1>2. {"free", "select", "apply"} \subseteq Resting
  BY DEF Resting
<1>3. CASE SnapshotFinal \/ MarkFinalDue \/ AttemptStep
  <2>1. UNCHANGED <<observed, seen>>
    BY <1>3 DEF SnapshotFinal, MarkFinalDue, AttemptStep, Claim, Issue, Blocked, Succeed,
                Fail, RateLimited, LoseAnswer, Finish, Post, rest, durable
  <2>2. ASSUME SnapshotFinal PROVE HandLeft
    <3>1. pc = "snapshot" /\ (InHand <=> job.back = "apply")
      BY <2>2 DEF SnapshotFinal, InHand, Working
    <3>2. CASE Complete(job.m, job.back)
      BY <1>1, <3>1, <3>2, EvaluationHand
    <3>3. CASE Goto("due")
      <4>1. pc' = "due" /\ UNCHANGED job
        BY <3>3 DEF Goto
      <4>2. InHand' <=> job.back = "apply"
        BY <4>1 DEF InHand, Working
      <4>. QED
        BY <3>1, <4>1, <4>2, HandKept
    <3>. QED
      BY <2>2, <3>2, <3>3 DEF SnapshotFinal
  <2>3. ASSUME MarkFinalDue PROVE HandLeft
    <3>1. /\ pc = "due" /\ pc' = "claim" /\ job'.back = job.back /\ job'.todo = job.todo
          /\ job'.m = job.m
      BY <1>1, <2>3 DEF MarkFinalDue, Attempt, Job
    <3>2. InHand' <=> InHand
      BY <3>1 DEF InHand, Working, AttemptPc
    <3>. QED
      BY <3>1, <3>2, HandKept
  <2>4. ASSUME AttemptAction PROVE HandLeft
    <3>1. /\ pc \in {"claim", "issue", "rpc"} /\ pc' \in AttemptPc
          /\ job'.todo = job.todo /\ job'.back = job.back /\ job'.m = job.m
      BY <1>1, <2>4 DEF AttemptAction, Claim, Issue, Blocked, Succeed, Fail, RateLimited,
                        LoseAnswer, Finish, AttemptPc, Job
    <3>2. InHand' <=> InHand
      BY <3>1 DEF InHand, Working, AttemptPc
    <3>. QED
      BY <3>1, <3>2, HandKept DEF AttemptPc
  <2>5. ASSUME Post PROVE HandLeft
    <3>1. CASE job.back = "free"
      <4>1. ~InHand /\ pc # "intake"
        BY <2>5, <3>1 DEF Post, InHand
      <4>2. Release
        BY <2>5, <3>1 DEF Post, Return
      <4>. QED
        BY <4>1, <4>2, ReleaseHand
    <3>2. CASE job.back # "free"
      <4>1. /\ pc = "post" /\ pc' = job.back /\ job'.todo = job.todo
            /\ job.back # "select" => job'.m = job.m
        BY <1>1, <2>5, <3>2 DEF Post, Return, Job
      <4>2. CASE job.back = "apply"
        <5>1. InHand /\ InHand'
          BY <4>1, <4>2 DEF InHand, Working, AttemptPc
        <5>. QED
          BY <4>1, <4>2, <5>1, HandKept
      <4>3. CASE job.back # "apply"
        <5>1. pc' \in {"select", "settle"}
          BY <1>1, <3>2, <4>1, <4>3 DEF Resting
        <5>2. ~InHand /\ ~InHand'
          BY <4>1, <4>3, <5>1 DEF InHand, Working, AttemptPc
        <5>. QED
          BY <4>1, <5>1, <5>2 DEF HandLeft, HandSteady
      <4>. QED
        BY <4>2, <4>3
    <3>. QED
      BY <3>1, <3>2
  <2>. QED
    BY <1>3, <2>1, <2>2, <2>3, <2>4, <2>5 DEF AttemptStep, AttemptAction, HistoryShrinks
<1>4. CASE TickRun
  <2>1. pc = "select" /\ ~InHand
    BY <1>4 DEF TickRun, TickComplete, TickIntermediate, TickFinal, TickEdit, TickEnd,
                InHand, Working, AttemptPc
  <2>2. HandLeft
    BY <1>2, <1>4, <2>1, EvaluationHand, ReleaseHand
       DEF TickRun, TickComplete, TickIntermediate, TickFinal, TickEdit, TickEnd
  <2>3. HistoryShrinks
    BY <1>4 DEF TickRun, TickComplete, TickIntermediate, TickFinal, TickEdit, TickEnd,
                Cleanup, rest, HistoryShrinks
  <2>. QED
    BY <2>2, <2>3
<1>5. CASE MessageRun
  <2>1. pc \in {"intake", "host", "settle"} /\ ~InHand
    BY <1>5 DEF MessageRun, IntakeIgnored, IntakeTrigger, HostReaction, Settle,
                InHand, Working, AttemptPc
  <2>2. CASE IntakeIgnored
    BY <2>1, <2>2, ReleaseHand DEF IntakeIgnored, Cleanup, HistoryShrinks
  <2>3. CASE HostReaction
    <3>1. /\ pc' = "claim" /\ job'.todo = job.todo /\ job'.back = "settle" /\ pc = "host"
      BY <1>1, <2>3 DEF HostReaction, Attempt, Job
    <3>. QED
      BY <2>1, <2>3, <3>1 DEF HandLeft, HandSteady, InHand, Working, HostReaction, rest, HistoryShrinks
  <2>4. CASE Settle
    <3>1. HandLeft
      BY <1>2, <2>1, <2>4, EvaluationHand, ReleaseHand DEF Settle
    <3>. QED
      BY <2>4, <3>1 DEF Settle, rest, HistoryShrinks
  <2>. QED
    BY <1>5, <2>2, <2>3, <2>4 DEF MessageRun, Changing
<1>6. CASE ReactionRun
  <2>1. UNCHANGED <<observed, seen>>
    BY <1>6 DEF ReactionRun, ReactionLate, ReactionApply, ReactionAfter, rest
  <2>2. ASSUME ReactionLate PROVE HandLeft
    <3>1. pc = "late" /\ InHand
      BY <2>2 DEF ReactionLate, InHand
    <3>2. \/ Release /\ ~IsActive(alarm[job.m])
          \/ ProcessFinal(job.m, "apply") \/ ProcessIntermediate(job.m, "apply")
          \/ Goto("apply")
      BY <2>2 DEF ReactionLate
    <3>3. CASE Goto("apply")
      <4>1. pc' = "apply" /\ UNCHANGED job
        BY <3>3 DEF Goto
      <4>. QED
        BY <3>1, <4>1, HandKept DEF InHand
    <3>. QED
      BY <1>2, <2>1, <3>1, <3>2, <3>3, EvaluationHand, ReleaseHand DEF HistoryShrinks
  <2>3. CASE ReactionAfter
    <3>1. pc = "after" /\ ~InHand
      BY <2>3 DEF ReactionAfter, InHand, Working, AttemptPc
    <3>2. \/ Release \/ Complete(job.m, "free")
          \/ ProcessFinal(job.m, "free") \/ ProcessIntermediate(job.m, "free")
      BY <2>3 DEF ReactionAfter
    <3>. QED
      BY <1>2, <2>1, <3>1, <3>2, EvaluationHand, ReleaseHand DEF HistoryShrinks
  <2>. QED
    BY <1>6, <2>1, <2>2, <2>3 DEF ReactionRun, Changing, HistoryShrinks
<1>7. CASE CheckRun
  <2>1. CASE CheckReplayed
    BY <2>1 DEF CheckReplayed, Goto, HandLeft, HandSteady, InHand, Working, AttemptPc, rest,
                HistoryShrinks
  <2>2. CASE CheckEvaluate
    <3>. DEFINE k == <<job.m, "manual_report", 0>>
    <3>1. pc = "evaluate" /\ ~InHand /\ UNCHANGED <<observed, seen>>
      BY <2>2 DEF CheckEvaluate, InHand, Working, AttemptPc, rest
    <3>2. ASSUME Attempt(k, NoText, "free")
          PROVE  HandLeft
      <4>1. pc' = "claim" /\ job'.todo = job.todo /\ job'.back = "free"
        BY <1>1, <3>2 DEF Attempt, Job
      <4>. QED
        BY <3>1, <4>1 DEF HandLeft, HandSteady, InHand, Working
    <3>3. \/ Complete(job.m, "free") \/ ProcessFinal(job.m, "free")
          \/ Release \/ Attempt(k, NoText, "free")
      BY <2>2 DEF CheckEvaluate
    <3>. HIDE DEF k
    <3>. QED
      BY <1>2, <3>1, <3>2, <3>3, EvaluationHand, ReleaseHand DEF HistoryShrinks
  <2>. QED
    BY <1>7, <2>1, <2>2 DEF CheckRun, Changing
<1>. QED
  BY <1>3, <1>4, <1>5, <1>6, <1>7 DEF JobStep

(* A message becomes known. *)
LEMMA MessageHistory ==
    ASSUME IInv, IInv', HInv, NEW n \in Message, MessageBegin(n), Skew = 0
    PROVE  HInv'
<1>. USE DEF HInv
<1>1. /\ UNCHANGED <<now, started, alarm, seen>> /\ observed' = observed \cup {n}
      /\ pc = "free" /\ pc' = "intake" /\ job'.m = n /\ job'.todo = {} /\ SentAt[n] <= now
  <2>1. SentAt[n] <= now + Skew
    BY DEF MessageBegin
  <2>. QED
    BY <2>1, RowTypes DEF MessageBegin, Begin, Idle
<1>2. ~InHand /\ ~InHand'
  BY <1>1 DEF InHand, Working, AttemptPc
<1>3. RowsOK' /\ ToldOK'
  BY <1>1 DEF RowsOK, Accepted, ToldOK, Told
<1>4. KnownOK'
  <2>1. IsFiniteSet(observed')
    BY <1>1, FS_AddElement DEF KnownOK
  <2>. QED
    BY <1>1, <2>1 DEF KnownOK, OwnActive
<1>5. IntakeOK'
  <2>1. ASSUME Starts(n)
        PROVE  n \notin observed
    BY <1>1, <2>1 DEF IntakeOK, Starts
  <2>2. Starts(n) => \A s \in seen : s.msg # n
    BY <2>1 DEF KnownOK
  <2>3. Starts(job.m)' <=> Starts(n)
    BY <1>1 DEF Starts
  <2>4. \A m \in observed' : SentAt[m] <= now'
    BY <1>1 DEF IntakeOK
  <2>5. \A m \in observed' \cap Trigger :
           SentAt[m] >= started' => alarm'[m].status # "none" \/ (pc' = "intake" /\ job'.m = m)
    BY <1>1 DEF IntakeOK
  <2>. QED
    BY <1>1, <2>2, <2>3, <2>4, <2>5 DEF IntakeOK
<1>6. TodoOK' /\ CountedOK'
  BY <1>1, <1>2 DEF TodoOK, CountedOK, Counted, OwnActive
<1>. QED
  BY <1>3, <1>4, <1>5, <1>6

LEMMA OneElement ==
    ASSUME NEW S, IsFiniteSet(S)
    PROVE  Cardinality(S) = 1 <=> \E x : S = {x}
BY FS_Singleton

(* A reaction that the history takes for a message is taken for its        *)
(* session as well, if that is an active one of this process.              *)
LEMMA SameTarget ==
    ASSUME IInv, KnownOK, NEW e \in Reaction, NEW n \in Message, OwnActive(n),
           Cardinality(Targeted(e, observed)) = 1, n \in Targeted(e, observed)
    PROVE  ReactionTargets(alarm, e, started) = {n}
<1>. DEFINE T == ReactionTargets(alarm, e, started)
<1>1. T \subseteq Targeted(e, observed)
  BY DEF ReactionTargets, Targeted, KnownOK, OwnActive
<1>2. IsFiniteSet(Targeted(e, observed))
  BY FS_Subset DEF KnownOK, Targeted
<1>3. Targeted(e, observed) = {n}
  BY <1>2, OneElement
<1>4. n \in T
  BY DEF ReactionTargets, Targeted, OwnActive
<1>. QED
  BY <1>1, <1>3, <1>4

(* A reaction arrives. *)
LEMMA ReactionHistory ==
    ASSUME IInv, IInv', HInv, NEW e \in Reaction, ReactionBegin(e) \/ ReactionIgnored(e)
    PROVE  HInv'
<1>. USE DEF HInv
<1>1. /\ UNCHANGED <<now, started, observed>> /\ pc = "free" /\ SameMissing /\ Observe(e)
      /\ pc' \in {"free", "late"}
  BY ExpiryMissing, UnchangedMissing DEF ReactionBegin, ReactionIgnored, Begin
<1>2. \A s \in seen' \ seen :
         /\ s.msg \in Targeted(e, observed) /\ s = Row(s.msg, e)
         /\ Cardinality(Targeted(e, observed)) = 1
  <2>1. \A m : Row(m, e).msg = m
    BY DEF Row
  <2>2. Cardinality(Targeted(e, observed)) # 1 => seen' = seen
    BY <1>1 DEF Observe
  <2>3. Cardinality(Targeted(e, observed)) = 1
        => seen' = seen \cup {Row(m, e) : m \in Targeted(e, observed)}
    BY <1>1 DEF Observe
  <2>. QED
    BY <2>1, <2>2, <2>3
<1>3. \/ pc' = "free" /\ job' = job
      \/ /\ pc' = "late" /\ job'.m \in ReactionTargets(alarm, e, started)
         /\ job'.todo = {Row(job'.m, e)}
  <2>1. CASE ReactionIgnored(e)
    BY <2>1 DEF ReactionIgnored
  <2>2. CASE ReactionBegin(e)
    <3>1. PICK m \in ReactionTargets(alarm, e, started) :
             Begin("reaction", "late", m, {Row(m, e)})
      BY <2>2 DEF ReactionBegin
    <3>2. pc' = "late" /\ job'.m = m /\ job'.todo = {Row(m, e)}
      BY <3>1 DEF Begin, Idle
    <3>. QED
      BY <3>2
  <2>. QED
    BY <2>1, <2>2
<1>4. ~InHand
  BY <1>1 DEF InHand, Working, AttemptPc
<1>5. \A m : Accepted(Row(m, e))
  BY DEF Accepted, Row
<1>6. \A m \in Message : OwnActive(m)' => OwnActive(m)
  BY <1>1 DEF SameMissing, SameSession, OwnActive
<1>7. RowsOK'
  BY <1>2, <1>3, <1>5 DEF RowsOK, Accepted
<1>8. ToldOK'
  BY <1>1 DEF ToldOK, Told, SameMissing, SameSession
<1>9. KnownOK'
  <2>1. \A s \in seen' : s.msg \in observed
    BY <1>2 DEF KnownOK, Targeted
  <2>. QED
    BY <1>1, <1>6, <2>1 DEF KnownOK
<1>10. IntakeOK'
  <2>1. \A m \in observed : alarm'[m].status # "none" <=> alarm[m].status # "none"
    BY <1>1, RowTypes DEF SameMissing, SameSession
  <2>. QED
    BY <1>1, <2>1 DEF IntakeOK
<1>11. TodoOK'
  <2>1. pc' = "late" => \A s \in job'.todo : s.msg = job'.m
    BY <1>3 DEF Row
  <2>2. InHand' => pc' = "late"
    BY <1>1 DEF InHand, Working, AttemptPc
  <2>. QED
    BY <1>1, <2>1, <2>2 DEF TodoOK
<1>12. CountedOK'
  <2>. SUFFICES ASSUME NEW s \in seen', OwnActive(s.msg)', s.reactor \in alarm'[s.msg].released,
                       ~(InHand' /\ s \in job'.todo)
                PROVE  s.ts <= alarm'[s.msg].last[s.reactor]
    BY DEF CountedOK, Counted
  <2>1. s.msg \in Message /\ OwnActive(s.msg)
    BY <1>6 DEF IInv, TypeOK, Seen
  <2>2. s \in seen
    <3>. SUFFICES ASSUME s \notin seen PROVE FALSE
      OBVIOUS
    <3>1. ReactionTargets(alarm, e, started) = {s.msg}
      BY <1>2, <2>1, SameTarget
    <3>2. ~ReactionIgnored(e)
      BY <3>1, OneElement, FS_Singleton DEF ReactionIgnored
    <3>3. pc' = "late" /\ job'.m = s.msg
      BY <1>3, <3>1, <3>2 DEF ReactionBegin, Begin
    <3>4. InHand'
      BY <3>3 DEF InHand
    <3>. QED
      BY <1>2, <1>3, <3>3, <3>4
  <2>3. s.reactor \in alarm[s.msg].released /\ alarm'[s.msg].last = alarm[s.msg].last
    BY <1>1, <2>1 DEF SameMissing, SameSession
  <2>. QED
    BY <1>4, <2>1, <2>2, <2>3 DEF CountedOK, Counted
<1>. QED
  BY <1>7, <1>8, <1>9, <1>10, <1>11, <1>12

(* A /check looks for its message, and for all that is stored about it. *)
LEMMA CheckHistory ==
    ASSUME IInv, IInv', HInv, NEW found \in SUBSET Message, NEW replays \in BOOLEAN,
           CheckBegin(found, replays), replays => found \subseteq Kept
    PROVE  HInv'
<1>1. /\ UNCHANGED <<now, started>> /\ pc = "free" /\ ~InHand
      /\ SameMissing /\ alarm' = ExpireAlarms(alarm, now, 0)
      /\ observed' = Kept /\ seen' = RetainedReactions(seen, Kept)
  BY ExpiryMissing DEF CheckBegin, ExpireDue, InHand, Working, AttemptPc
<1>2. HistoryShrinks
  BY <1>1 DEF HistoryShrinks, Kept
<1>3. HandSteady
  <2>1. CASE Release
    BY <1>1, <2>1, ReleaseHand DEF HandLeft
  <2>2. CASE ~Release
    <3>1. PICK m \in found :
            Begin("check", CheckPc(m, replays), m,
                  {s \in seen : s.msg = m /\ CheckPc(m, replays) # "evaluate"})
      BY <2>2 DEF CheckBegin
    <3>2. /\ pc' = CheckPc(m, replays) /\ job'.m = m
          /\ job'.todo = {s \in seen : s.msg = m /\ CheckPc(m, replays) # "evaluate"}
      BY <3>1 DEF Begin, Idle
    <3>3. CASE pc' = "evaluate"
      <4>1. job'.todo = {} /\ ~InHand'
        BY <3>2, <3>3 DEF InHand, Working, AttemptPc
      <4>. QED
        BY <1>1, <3>3, <4>1 DEF HandSteady
    <3>4. CASE pc' \in {"adopt", "replay"}
      <4>1. m \in observed'
        BY <1>1, <3>1, <3>2, <3>4 DEF CheckPc
      <4>2. InHand' /\ job'.todo = {s \in seen : s.msg = m}
        BY <3>2, <3>4 DEF InHand
      <4>. QED
        BY <1>1, <3>2, <3>4, <4>1, <4>2 DEF HandSteady
    <3>. QED
      BY <3>2, <3>3, <3>4 DEF CheckPc
  <2>. QED
    BY <2>1, <2>2
<1>. QED
  BY <1>1, <1>2, <1>3, QuietHistory, RowTypes

LEMMA CheckCallHistory ==
    ASSUME IInv, IInv', HInv, CheckLatest \/ \E class : CheckText(class)
    PROVE  HInv'
<1>1. CASE CheckLatest
  <2>. DEFINE preferred == {m \in LatestObserved(Kept \cap Trigger) :
                               \A n \in StandardAlarms(alarm) : SentAt[m] >= SentAt[n]}
  <2>1. preferred \in SUBSET Message /\ preferred \subseteq Kept
        /\ LatestStandard \in SUBSET Message
    BY RowTypes DEF Kept, RetainedMessages, LatestObserved, LatestStandard, StandardAlarms
  <2>2. CheckBegin(preferred, TRUE) \/ CheckBegin(LatestStandard, FALSE)
    BY <1>1 DEF CheckLatest
  <2>. HIDE DEF preferred
  <2>. QED
    BY <2>1, <2>2, CheckHistory
<1>2. ASSUME NEW class, CheckText(class)
      PROVE  HInv'
  <2>. DEFINE found == LatestObserved({m \in Kept : TextClass[m] = class})
  <2>1. found \in SUBSET Message /\ found \subseteq Kept
    BY RowTypes DEF Kept, RetainedMessages, LatestObserved
  <2>2. CheckBegin(found, TRUE)
    BY <1>2 DEF CheckText
  <2>. HIDE DEF found
  <2>. QED
    BY <2>1, <2>2, CheckHistory
<1>. QED
  BY <1>1, <1>2

(* No session lives on when the process dies. *)
LEMMA CrashHistory ==
    ASSUME IInv, IInv', HInv, NotAhead, Crash
    PROVE  HInv'
<1>. USE DEF HInv
<1>1. /\ now' = now + 1 /\ started' = now + 1 /\ pc' = "free" /\ job'.todo = {}
      /\ SameMissing
  BY CrashTables, UnchangedMissing, ExpiryMissing DEF Crash, Release, Idle
<1>2. ~InHand'
  BY <1>1 DEF InHand, Working, AttemptPc
<1>3. \A m \in Message : ~OwnActive(m)'
  <2>. SUFFICES ASSUME NEW m \in Message, OwnActive(m)' PROVE FALSE
    OBVIOUS
  <2>1. alarm'[m].trk >= now + 1
    BY <1>1 DEF OwnActive
  <2>2. alarm'[m].trk = alarm[m].trk /\ alarm[m].trk <= now
    BY <1>1 DEF OwnActive, NotAhead, SameMissing, SameSession, IsActive, ActiveStatus
  <2>. QED
    BY <2>1, <2>2, RowTypes
<1>4. /\ observed' \subseteq observed
      /\ \A s \in seen' : /\ Accepted(s)
                         /\ s.msg \in observed'
  <2>1. CASE UNCHANGED <<observed, seen>>
    BY <2>1 DEF RowsOK, KnownOK
  <2>2. ASSUME NEW e \in Reaction, Observe(e), UNCHANGED observed
        PROVE  \A s \in seen' : Accepted(s) /\ s.msg \in observed'
    BY <2>2 DEF Observe, Row, Targeted, Accepted, RowsOK, KnownOK
  <2>3. CASE Cleanup(alarm)
    BY <2>3 DEF Cleanup, RetainedMessages, RetainedReactions, RowsOK
  <2>. QED
    BY <2>1, <2>2, <2>3 DEF Crash, FirstCommit, durable, Cleanup, RetainedMessages
<1>5. RowsOK' /\ ToldOK'
  BY <1>1, <1>4 DEF RowsOK, Accepted, ToldOK, Told, SameMissing, SameSession
<1>6. KnownOK'
  <2>1. IsFiniteSet(observed')
    BY <1>4, FS_Subset DEF KnownOK
  <2>. QED
    BY <1>1, <1>3, <1>4, <2>1 DEF KnownOK
<1>7. IntakeOK'
  <2>1. \A m \in observed : SentAt[m] <= now' /\ ~(SentAt[m] >= started')
    BY <1>1, RowTypes DEF IntakeOK
  <2>. QED
    BY <1>1, <1>4, <2>1 DEF IntakeOK
<1>8. TodoOK' /\ CountedOK'
  <2>1. \A s \in seen' : s.msg \in Message
    BY DEF IInv, TypeOK, Seen
  <2>. QED
    BY <1>1, <1>2, <1>3, <2>1 DEF TodoOK, CountedOK, Counted
<1>. QED
  BY <1>5, <1>6, <1>7, <1>8

(* A new session has no response, and either nothing is stored about it or *)
(* all of that is in hand. *)
LEMMA CreationHistory ==
    ASSUME IInv, IInv', HInv, SInv, IntakeTrigger \/ CheckAdopt, TTL <= Retention
    PROVE  HInv'
<1>. USE DEF HInv
<1>1. PICK source, trk, file :
         /\ Create(job.m, source, trk, file)
         /\ IntakeTrigger => trk = SentAt[job.m]
         /\ IntakeTrigger \/ trk = job.now
  BY DEF IntakeTrigger, CheckAdopt
<1>2. /\ job.m \in Message /\ UNCHANGED <<now, started>>
      /\ alarm \in [Message -> Alarm] /\ job.m \in observed
      /\ IntakeTrigger => pc = "intake" /\ Starts(job.m) /\ pc' \in {"free", "host", "settle"}
      /\ CheckAdopt => pc = "adopt" /\ pc' \in {"replay", "evaluate"} /\ job' = job
      /\ job'.todo \subseteq job.todo
  BY DEF IntakeTrigger, CheckAdopt, KnownOK, IInv, TypeOK, JobOK, rest, Release, Idle, Goto
<1>3. /\ \A m \in Message \ {job.m} : alarm'[m] = alarm[m]
      /\ alarm'[job.m].status \in {"error", "expired", "pending"}
      /\ alarm'[job.m].status = "pending" => ~(now >= trk + TTL)
      /\ alarm'[job.m].trk = trk
      /\ alarm'[job.m].last = [p \in Member |-> -1]
  BY <1>1, <1>2 DEF Create, InsertedAlarm, NoAlarm, None
<1>4. /\ observed' \subseteq observed /\ seen' \subseteq seen
      /\ \A s \in seen' : s.msg \in observed'
      /\ \A m \in observed : IsActive(alarm[m]) => m \in observed'
      /\ IsActive(alarm'[job.m]) => job.m \in observed'
  <2>1. CASE CheckAdopt
    BY <1>2, <2>1 DEF CheckAdopt, rest, KnownOK
  <2>2. CASE IntakeTrigger
    <3>1. /\ observed' = RetainedMessages(observed, alarm, job.now)
          /\ seen' = RetainedReactions(seen, observed')
      BY <2>2 DEF IntakeTrigger, Cleanup
    <3>2. ASSUME IsActive(alarm'[job.m])
          PROVE  SentAt[job.m] >= job.now - Retention
      <4>1. ~(now >= SentAt[job.m] + TTL)
        BY <1>1, <1>3, <2>2, <3>2 DEF IsActive, ActiveStatus
      <4>2. /\ now \in Nat /\ SentAt[job.m] \in Nat /\ TTL \in Nat /\ Retention \in Nat
            /\ job.now \in Nat /\ job.now <= now
        BY <1>2, RowTypes, RowAssumption DEF RowAssumption, SInv, SubjectOK
      <4>. QED
        BY <4>1, <4>2
    <3>. QED
      BY <1>2, <3>1, <3>2 DEF RetainedMessages, RetainedReactions
  <2>. QED
    BY <2>1, <2>2
<1>5. RowsOK'
  BY <1>2, <1>4 DEF RowsOK, Accepted
<1>6. ToldOK'
  <2>1. Told(alarm'[job.m])
    BY <1>3, RowTypes DEF Told
  <2>. QED
    BY <1>3, <2>1 DEF ToldOK, Told
<1>7. KnownOK'
  <2>1. IsFiniteSet(observed')
    BY <1>4, FS_Subset DEF KnownOK
  <2>2. ASSUME NEW m \in Message, OwnActive(m)'
        PROVE  m \in observed'
    <3>1. CASE m = job.m
      BY <1>4, <2>2, <3>1 DEF OwnActive
    <3>2. CASE m # job.m
      <4>1. OwnActive(m)
        BY <1>2, <1>3, <2>2, <3>2 DEF OwnActive
      <4>. QED
        BY <1>4, <4>1 DEF KnownOK, OwnActive
    <3>. QED
      BY <3>1, <3>2
  <2>3. pc' \notin {"intake", "adopt"}
    BY <1>2
  <2>. QED
    BY <1>4, <2>1, <2>2, <2>3 DEF KnownOK
<1>8. IntakeOK'
  <2>1. \A m \in observed' : SentAt[m] <= now'
    BY <1>2, <1>4 DEF IntakeOK
  <2>2. ASSUME NEW m \in observed' \cap Trigger, SentAt[m] >= started'
        PROVE  alarm'[m].status # "none"
    <3>1. CASE m = job.m
      BY <1>3, <3>1
    <3>2. CASE m # job.m
      BY <1>2, <1>3, <1>4, <2>2, <3>2, RowTypes DEF IntakeOK
    <3>. QED
      BY <3>1, <3>2
  <2>3. pc' # "intake"
    BY <1>2
  <2>. QED
    BY <2>1, <2>2, <2>3 DEF IntakeOK
<1>9. TodoOK'
  <2>1. pc' # "adopt"
    BY <1>2
  <2>2. InHand' => CheckAdopt /\ InHand
    BY <1>2 DEF InHand, Working, AttemptPc
  <2>. QED
    BY <1>2, <2>1, <2>2 DEF TodoOK
<1>10. CountedOK'
  <2>. SUFFICES ASSUME NEW s \in seen', OwnActive(s.msg)', s.reactor \in alarm'[s.msg].released,
                       ~(InHand' /\ s \in job'.todo)
                PROVE  s.ts <= alarm'[s.msg].last[s.reactor]
    BY DEF CountedOK, Counted
  <2>1. s \in seen /\ s.msg \in Message
    BY <1>4, RowTypes
  <2>2. CASE s.msg # job.m
    <3>1. OwnActive(s.msg) /\ alarm'[s.msg] = alarm[s.msg]
      BY <1>2, <1>3, <2>1, <2>2 DEF OwnActive
    <3>2. ~(InHand /\ s \in job.todo)
      BY <2>2 DEF TodoOK
    <3>. QED
      BY <2>1, <3>1, <3>2 DEF CountedOK, Counted
  <2>3. CASE s.msg = job.m
    <3>1. CheckAdopt
      BY <1>2, <2>1, <2>3 DEF IntakeOK
    <3>2. s \in job'.todo
      BY <1>2, <2>1, <2>3, <3>1 DEF TodoOK
    <3>3. alarm'[job.m].status = "pending"
      BY <1>3, <2>3 DEF OwnActive, IsActive, ActiveStatus
    <3>4. InHand'
      BY <3>1, <3>3 DEF CheckAdopt, Goto, InHand
    <3>. QED
      BY <3>2, <3>4
  <2>. QED
    BY <2>2, <2>3
<1>. QED
  BY <1>5, <1>6, <1>7, <1>8, <1>9, <1>10

(* A reaction that is applied is counted, and puts no other one back. *)
LEMMA ApplyCounts ==
    ASSUME IInv, NEW a \in Alarm, NEW e \in Seen, NEW t, Accepted(e), Told(a)
    PROVE  LET b == ApplyReaction(a, e, t)
           IN /\ Told(b)
              /\ b.released = a.released /\ b.trk = a.trk /\ b.status = a.status
              /\ IsActive(a) /\ e.reactor \in a.released => e.ts <= b.last[e.reactor]
              /\ \A p \in Member : a.last[p] <= b.last[p]
<1>1. /\ e.reactor \in Member /\ e.ts \in Nat
      /\ a.last \in [Member -> Nat \cup {-1}]
      /\ \A p \in Member : a.last[p] \in Nat \cup {-1}
  <2>1. a.last \in [Member -> Nat \cup {-1}]
    BY DEF Alarm, None
  <2>. QED
    BY <2>1 DEF Seen
<1>2. CASE ~Accepts(a, e)
  BY <1>1, <1>2 DEF ApplyReaction, Accepts
<1>3. CASE Accepts(a, e)
  <2>. DEFINE b == ApplyReaction(a, e, t)
  <2>1. /\ b.released = a.released /\ b.trk = a.trk /\ b.status = a.status
        /\ b.last = [a.last EXCEPT ![e.reactor] = e.ts]
        /\ b.responded = IF e.removed THEN a.responded \ {e.reactor}
                         ELSE a.responded \cup {e.reactor}
    BY <1>3 DEF ApplyReaction, Alarm
  <2>. HIDE DEF b
  <2>2. Told(b)
    <3>. SUFFICES ASSUME NEW d \in Reaction, d.ts = b.last[d.reactor]
                  PROVE  d.reactor \in b.responded <=> ~d.removed
      BY DEF Told
    <3>1. d.reactor \in Member
      BY RowTypes
    <3>2. CASE d.reactor = e.reactor
      <4>1. PICK f \in Reaction : e.reactor = f.reactor /\ e.ts = f.ts /\ e.removed = f.removed
        BY DEF Accepted
      <4>2. d.ts = e.ts
        BY <1>1, <2>1, <3>2
      <4>3. d.removed = e.removed
        BY <3>2, <4>1, <4>2, InputAssumption DEF InputAssumption
      <4>4. e.removed \in BOOLEAN
        BY DEF Seen
      <4>. QED
        BY <2>1, <3>2, <4>3, <4>4
    <3>3. CASE d.reactor # e.reactor
      <4>1. d.ts = a.last[d.reactor]
        BY <1>1, <2>1, <3>1, <3>3
      <4>2. d.reactor \in b.responded <=> d.reactor \in a.responded
        BY <2>1, <3>3
      <4>. QED
        BY <4>1, <4>2 DEF Told
    <3>. QED
      BY <3>2, <3>3
  <2>3. e.ts > a.last[e.reactor]
    BY <1>3 DEF Accepts
  <2>4. \A p \in Member : a.last[p] <= b.last[p]
    BY <1>1, <2>1, <2>3
  <2>5. e.ts <= b.last[e.reactor]
    BY <1>1, <2>1
  <2>. QED
    BY <2>1, <2>2, <2>4, <2>5 DEF b
<1>. QED
  BY <1>2, <1>3

LEMMA AppliedHistory ==
    ASSUME IInv, IInv', CallOK, HInv, ReactionApply \/ CheckReplay
    PROVE  HInv'
<1>. USE DEF HInv
<1>1. PICK e \in job.todo :
        /\ alarm' = [alarm EXCEPT ![job.m] = ApplyReaction(alarm[job.m], e, job.now)]
        /\ \/ /\ ReactionApply
              /\ job' = [job EXCEPT !.changed = ChangesResponse(alarm[job.m], e)]
           \/ /\ CheckReplay
              /\ job' = [job EXCEPT !.todo = job.todo \ {e}]
  BY DEF ReactionApply, CheckReplay
<1>2. /\ job.m \in Message /\ UNCHANGED <<now, started, observed, seen>>
      /\ alarm \in [Message -> Alarm] /\ alarm[job.m] \in Alarm /\ e \in Seen
      /\ job'.m = job.m /\ job'.todo \subseteq job.todo
      /\ ReactionApply => pc = "apply" /\ pc' = "after" /\ OneReaction
      /\ CheckReplay => pc = "replay" /\ pc' = "replay"
      /\ e.msg = job.m
  BY <1>1 DEF ReactionApply, CheckReplay, CallOK, TodoOK, InHand, IInv, TypeOK, JobOK, AttemptPc
<1>3. Accepted(e) /\ Told(alarm[job.m])
  BY <1>2 DEF RowsOK, ToldOK
<1>. DEFINE a == alarm[job.m]
            b == ApplyReaction(alarm[job.m], e, job.now)
<1>4. /\ Told(b) /\ b.released = a.released /\ b.trk = a.trk /\ b.status = a.status
      /\ IsActive(a) /\ e.reactor \in a.released => e.ts <= b.last[e.reactor]
      /\ \A p \in Member : a.last[p] <= b.last[p]
  BY <1>2, <1>3, ApplyCounts
<1>5. alarm'[job.m] = b /\ \A m \in Message \ {job.m} : alarm'[m] = alarm[m]
  BY <1>1, <1>2
<1>. HIDE DEF b
<1>6. /\ \A m \in Message : /\ alarm'[m].status = alarm[m].status
                            /\ alarm'[m].trk = alarm[m].trk
                            /\ alarm'[m].released = alarm[m].released
      /\ \A m \in Message, p \in Member : alarm[m].last[p] <= alarm'[m].last[p]
  <2>1. \A m \in Message, p \in Member : alarm[m].last[p] <= alarm[m].last[p]
    BY RowTypes
  <2>. QED
    BY <1>4, <1>5, <2>1
<1>7. \A m \in Message : OwnActive(m)' <=> OwnActive(m)
  BY <1>2, <1>6 DEF OwnActive, IsActive
<1>8. pc' \notin {"intake", "adopt"} /\ pc \notin {"intake", "adopt"}
  BY <1>2
<1>9. RowsOK' /\ ToldOK'
  <2>1. RowsOK'
    BY <1>2 DEF RowsOK, Accepted
  <2>2. \A m \in Message : Told(alarm'[m])
    BY <1>4, <1>5 DEF ToldOK
  <2>. QED
    BY <2>1, <2>2 DEF ToldOK, Told
<1>10. KnownOK' /\ IntakeOK'
  <2>1. KnownOK'
    BY <1>2, <1>7, <1>8 DEF KnownOK
  <2>2. IntakeOK'
    BY <1>2, <1>6, <1>8, RowTypes DEF IntakeOK
  <2>. QED
    BY <2>1, <2>2
<1>11. TodoOK'
  <2>1. InHand
    BY <1>2 DEF InHand
  <2>. QED
    BY <1>2, <1>8, <2>1 DEF TodoOK
<1>12. CountedOK'
  <2>. SUFFICES ASSUME NEW s \in seen', OwnActive(s.msg)', s.reactor \in alarm'[s.msg].released,
                       ~(InHand' /\ s \in job'.todo)
                PROVE  s.ts <= alarm'[s.msg].last[s.reactor]
    BY DEF CountedOK, Counted
  <2>1. /\ s \in seen /\ s.msg \in Message /\ s.reactor \in Member /\ s.ts \in Nat
        /\ OwnActive(s.msg) /\ s.reactor \in alarm[s.msg].released
    BY <1>2, <1>6, <1>7, RowTypes
  <2>2. CASE s = e
    BY <1>2, <1>4, <1>5, <2>1, <2>2 DEF OwnActive
  <2>3. CASE s # e
    <3>1. s \notin job.todo
      <4>1. CASE ReactionApply
        BY <1>2, <2>3, <4>1 DEF OneReaction
      <4>2. CASE CheckReplay
        <5>1. InHand'
          BY <1>2, <4>2 DEF InHand
        <5>2. job'.todo = job.todo \ {e}
          BY <1>1, <1>2, <4>2 DEF ReactionApply, IInv, TypeOK
        <5>. QED
          BY <2>3, <5>1, <5>2
      <4>. QED
        BY <4>1, <4>2
    <3>2. s.ts <= alarm[s.msg].last[s.reactor]
      BY <2>1, <3>1 DEF CountedOK, Counted
    <3>3. /\ alarm[s.msg].last[s.reactor] <= alarm'[s.msg].last[s.reactor]
          /\ alarm[s.msg].last[s.reactor] \in Nat \cup {-1}
          /\ alarm'[s.msg].last[s.reactor] \in Nat \cup {-1}
      <4>1. alarm'[s.msg] \in Alarm
        BY <2>1 DEF IInv, TypeOK
      <4>. QED
        BY <1>6, <2>1, <4>1, RowTypes DEF Alarm, None
    <3>. QED
      BY <2>1, <3>2, <3>3
  <2>. QED
    BY <2>2, <2>3
<1>. QED
  BY <1>9, <1>10, <1>11, <1>12

LEMMA HistoryStep ==
    ASSUME IInv, IInv', SInv, CInv, HInv, [Next]_vars, Skew = 0, TTL <= Retention
    PROVE  HInv'
<1>. USE DEF CInv
<1>1. CASE IntakeTrigger \/ CheckAdopt
  BY <1>1, CreationHistory
<1>2. CASE ReactionApply \/ CheckReplay
  BY <1>2, AppliedHistory
<1>3. CASE Crash
  BY <1>3, CrashHistory
<1>4. CASE ~Changing /\ ~Crash
  <2>1. SameMissing /\ UNCHANGED started /\ now <= now'
    BY <1>4, OthersKeepMissing, OneProcess, TimeAdvances
  <2>2. CASE JobStep
    BY <1>4, <2>1, <2>2, JobHand, QuietHistory DEF HandLeft
  <2>3. CASE TickBegin
    <3>1. /\ pc = "free" /\ pc' = "select" /\ job'.todo = {} /\ UNCHANGED <<observed, seen>>
      BY <2>3 DEF TickBegin, Begin, Idle, rest
    <3>2. ~InHand /\ ~InHand'
      BY <3>1 DEF InHand, Working, AttemptPc
    <3>3. HandSteady /\ HistoryShrinks
      BY <3>1, <3>2 DEF HandSteady, HistoryShrinks
    <3>. QED
      BY <2>1, <3>3, QuietHistory
  <2>4. CASE TickFails
    <3>1. ~InHand /\ pc # "intake"
      BY <2>4 DEF TickFails, InHand, CallOK, CalledFor
    <3>2. HandSteady /\ HistoryShrinks
      BY <2>4, <3>1, ReleaseHand DEF TickFails, durable, HistoryShrinks, HandLeft
    <3>. QED
      BY <2>1, <3>2, QuietHistory
  <2>5. CASE ClockTick \/ CommandTripsBreaker \/ UNCHANGED vars
    <3>1. HandSteady /\ HistoryShrinks
      BY <2>5 DEF ClockTick, CommandTripsBreaker, vars, durable, HandSteady, HistoryShrinks
    <3>. QED
      BY <2>1, <3>1, QuietHistory
  <2>6. CASE CheckLatest \/ \E class : CheckText(class)
    BY <2>6, CheckCallHistory
  <2>. QED
    BY <1>4, <2>2, <2>3, <2>4, <2>5, <2>6, MessageHistory, ReactionHistory DEF Next, Call
<1>. QED
  BY <1>1, <1>2, <1>3, <1>4 DEF Changing

(* The invariant of the responses. *)
LEMMA HistoryInductive ==
    ASSUME Skew = 0, TTL <= Retention
    PROVE  Spec => [](CInv /\ HInv)
<1>1. Init => CInv /\ HInv
  <2>. SUFFICES ASSUME Init PROVE CInv /\ HInv
    OBVIOUS
  <2>1. /\ pc = "free" /\ observed = {} /\ seen = {} /\ job.todo = {}
        /\ \A m \in Message : alarm[m].status = "none"
        /\ \A m \in Message, p \in Member : alarm[m].last[p] = -1
    BY DEF Init, NoAlarm, Idle, None
  <2>2. CInv
    BY <2>1 DEF CInv, CallOK, FullOK, NotAhead, Full, OwnActive, IsActive, ActiveStatus,
                CalledFor, Working, AttemptPc
  <2>3. ToldOK
    BY <2>1, InputAssumption DEF ToldOK, Told, InputAssumption
  <2>4. KnownOK
    BY <2>1, FS_EmptySet DEF KnownOK, OwnActive, IsActive, ActiveStatus
  <2>5. TodoOK
    BY <2>1 DEF TodoOK
  <2>. QED
    BY <2>1, <2>2, <2>3, <2>4, <2>5 DEF HInv, RowsOK, IntakeOK, CountedOK
<1>2. IInv /\ IInv' /\ SInv /\ CInv /\ HInv /\ [Next]_vars => CInv' /\ HInv'
  BY CallStep, FullStep, NotAheadStep, HistoryStep DEF CInv
<1>3. IInv /\ [Next]_vars => IInv'
  BY StepPreserves
<1>. QED
  BY <1>1, <1>2, <1>3, Inductive, SessionsInductive, PTL DEF Spec

(* Between two calls, what an active session of this process records of a  *)
(* released member is what the newest reaction stored for its message      *)
(* says: what is recorded is applied or replayed, in whatever order the    *)
(* reactions came and whether before or after the session, and an          *)
(* ambiguous one neither recorded nor applied.  It is assumed that no      *)
(* sender's clock is ahead of ours, so that no session passes to a later   *)
(* process, and that messages are retained while their session may last.   *)
THEOREM ResponsesAreOfTheHistory ==
    ASSUME Skew = 0, TTL <= Retention
    PROVE  Spec => []ResponsesFollowHistory
<1>1. IInv /\ HInv => ResponsesFollowHistory
  <2>. SUFFICES ASSUME IInv, HInv, pc = "free", NEW s \in seen, OwnActive(s.msg),
                       s.reactor \in alarm[s.msg].released
                PROVE  /\ s.ts <= alarm[s.msg].last[s.reactor]
                       /\ s.ts = alarm[s.msg].last[s.reactor]
                          => (s.reactor \in alarm[s.msg].responded <=> ~s.removed)
    BY DEF ResponsesFollowHistory
  <2>1. ~InHand
    BY DEF InHand, Working, AttemptPc
  <2>2. s.ts <= alarm[s.msg].last[s.reactor]
    BY <2>1 DEF HInv, CountedOK, Counted
  <2>3. PICK e \in Reaction : s.reactor = e.reactor /\ s.ts = e.ts /\ s.removed = e.removed
    BY DEF HInv, RowsOK, Accepted
  <2>4. Told(alarm[s.msg])
    BY RowTypes DEF HInv, ToldOK
  <2>. QED
    BY <2>2, <2>3, <2>4 DEF Told
<1>. QED
  BY <1>1, Inductive, HistoryInductive, PTL

-----------------------------------------------------------------------------
(* Ambiguity.                                                              *)

(* A reaction under way, and what was decided when it came in. *)
InReaction ==
    \/ pc \in {"late", "apply"}
    \/ pc \in Working /\ job.back = "apply"

OwnSessions == {n \in Message : OwnActive(n)}
Sessions == {m \in Message : alarm[m].status # "none"}

RoutedOK ==
    InReaction => \A s \in job.todo : ComesFrom(job.m, s.reactor, s.ts, OwnSessions)

AInv == IsFiniteSet(observed) /\ IsFiniteSet(Sessions) /\ RoutedOK

(* A target that is the only one has the timestamp to itself, unless the   *)
(* reaction names it. *)
LEMMA OnlyTarget ==
    ASSUME NEW e \in Reaction, NEW S \in SUBSET Message, NEW m \in Targeted(e, S),
           IsFiniteSet(S), Cardinality(Targeted(e, S)) = 1
    PROVE  ComesFrom(m, e.reactor, e.ts, S)
<1>1. IsFiniteSet(Targeted(e, S))
  BY FS_Subset DEF Targeted
<1>2. Targeted(e, S) = {m}
  BY <1>1, OneElement
<1>3. \A n \in S \ {m} : ~e.named => SentAt[n] # SentAt[e.target]
  BY <1>2 DEF Targeted
<1>4. SentAt[e.target] = SentAt[m] /\ (e.named => m = e.target) /\ e.named \in BOOLEAN
  BY InputAssumption DEF Targeted, InputAssumption
<1>. QED
  BY <1>3, <1>4 DEF ComesFrom

(* Fewer sessions make no reaction ambiguous. *)
LEMMA FewerOthers ==
    ASSUME NEW S, NEW T \in SUBSET S, NEW m, NEW p, NEW t, ComesFrom(m, p, t, S)
    PROVE  ComesFrom(m, p, t, T)
BY DEF ComesFrom

LEMMA SessionsFollow ==
    ASSUME IInv, [Next]_vars, AInv
    PROVE  /\ IsFiniteSet(observed') /\ IsFiniteSet(Sessions')
           /\ ~Changing /\ ~Crash => OwnSessions' \subseteq OwnSessions
<1>1. IsFiniteSet(observed')
  <2>1. \/ observed' \subseteq observed
        \/ \E m \in Message : observed' = observed \cup {m}
    BY DEF Next, Call, TickBegin, MessageBegin, ReactionBegin, ReactionIgnored,
       CheckLatest, CheckText, CheckBegin, Kept, RetainedMessages, JobStep, SnapshotFinal,
       MarkFinalDue, AttemptStep, Claim, Issue, Blocked, Succeed, Fail, RateLimited,
       LoseAnswer, Finish, Post, TickRun, TickComplete, TickIntermediate, TickFinal,
       TickEdit, TickEnd, Cleanup, MessageRun, IntakeIgnored, IntakeTrigger, HostReaction,
       Settle, ReactionRun, ReactionLate, ReactionApply, ReactionAfter, CheckRun,
       CheckAdopt, CheckReplay, CheckReplayed, CheckEvaluate, ClockTick,
       CommandTripsBreaker, TickFails, Crash, FirstCommit, vars, rest, durable
  <2>. QED
    BY <2>1, FS_Subset, FS_AddElement DEF AInv
<1>2. IsFiniteSet(Sessions')
  <2>1. CASE SameMissing \/ ReactionApply \/ CheckReplay
    <3>1. SameMissing \/ RowsSame
      BY <2>1, AppliedSame
    <3>2. Sessions' = Sessions
      BY <3>1 DEF Sessions, SameMissing, SameSession, RowsSame, SameRow
    <3>. QED
      BY <3>2 DEF AInv
  <2>2. CASE IntakeTrigger \/ CheckAdopt
    <3>1. \A m \in Message \ {job.m} : alarm'[m] = alarm[m]
      BY <2>2 DEF IntakeTrigger, CheckAdopt, Create, IInv, TypeOK
    <3>2. Sessions' \subseteq Sessions \cup {job.m}
      BY <3>1 DEF Sessions
    <3>. QED
      BY <3>2, FS_Subset, FS_AddElement DEF AInv
  <2>. QED
    BY <2>1, <2>2, OthersKeepMissing DEF Changing
<1>3. ~Changing /\ ~Crash => OwnSessions' \subseteq OwnSessions
  BY OthersKeepMissing, OneProcess DEF OwnSessions, OwnActive, SameMissing, SameSession
<1>. QED
  BY <1>1, <1>2, <1>3

LEMMA SurvivesJob ==
    ASSUME IInv, JobStep
    PROVE  ~Crash
BY DEF JobStep, Crash, SnapshotFinal, MarkFinalDue, AttemptStep, Claim, Issue, Blocked,
   Succeed, Fail, RateLimited, LoseAnswer, Finish, Post, TickRun, TickComplete,
   TickIntermediate, TickFinal, TickEdit, TickEnd, MessageRun, IntakeIgnored,
   IntakeTrigger, HostReaction, Settle, ReactionRun, ReactionLate, ReactionApply,
   ReactionAfter, CheckRun, CheckAdopt, CheckReplay, CheckReplayed, CheckEvaluate, rest,
   IInv, TypeOK

LEMMA RoutedStep ==
    ASSUME IInv, CallOK, AInv, [Next]_vars
    PROVE  RoutedOK'
<1>1. ASSUME ~Changing, ~Crash, InReaction' => InReaction,
             InReaction' => job'.todo = job.todo /\ job'.m = job.m
      PROVE  RoutedOK'
  BY <1>1, SessionsFollow, FewerOthers DEF AInv, RoutedOK
<1>2. ASSUME pc' \in {"free", "select", "host", "settle", "after", "adopt", "replay", "evaluate"}
      PROVE  RoutedOK'
  BY <1>2 DEF RoutedOK, InReaction, Working, AttemptPc
<1>3. CASE Changing \/ Crash \/ TickFails \/ TickBegin
  BY <1>2, <1>3 DEF Changing, Crash, TickFails, TickBegin, Begin, Release, Goto, IntakeTrigger,
     CheckAdopt, ReactionApply, CheckReplay
<1>4. CASE JobStep /\ ~Changing /\ pc' \notin {"free", "select", "host", "settle", "after", "adopt", "replay", "evaluate"}
  <2>1. HandSteady /\ (InHand' => InHand) /\ ~Crash
    BY <1>4, JobHand, SurvivesJob DEF HandLeft
  <2>2. InReaction' => InHand' /\ InHand
    BY <2>1 DEF InReaction, InHand
  <2>3. InHand => InReaction
    <3>1. pc \notin {"adopt", "replay"}
      BY <1>4 DEF JobStep, SnapshotFinal, MarkFinalDue, AttemptStep, Claim, Issue, Blocked,
         Succeed, Fail, RateLimited, LoseAnswer, Post, TickRun, TickComplete,
         TickIntermediate, TickFinal, TickEdit, TickEnd, MessageRun, IntakeIgnored,
         IntakeTrigger, HostReaction, Settle, ReactionRun, ReactionLate, ReactionApply,
         ReactionAfter, CheckRun, CheckAdopt, CheckReplay, CheckReplayed, CheckEvaluate,
         AttemptPc, Changing, Goto
    <3>. QED
      BY <3>1 DEF InHand, InReaction
  <2>4. InReaction' => job'.todo = job.todo /\ job'.m = job.m
    BY <2>1, <2>2 DEF HandSteady
  <2>. QED
    BY <1>1, <1>4, <2>1, <2>2, <2>3, <2>4
<1>5. CASE ClockTick \/ CommandTripsBreaker \/ UNCHANGED vars
  <2>1. UNCHANGED <<pc, job, alarm, started>>
    BY <1>5 DEF ClockTick, CommandTripsBreaker, vars, durable
  <2>. QED
    BY <2>1 DEF AInv, RoutedOK, InReaction, Working, AttemptPc, OwnSessions, OwnActive, ComesFrom
<1>6. ASSUME NEW m \in Message, MessageBegin(m)
      PROVE  RoutedOK'
  BY <1>6 DEF MessageBegin, Begin, RoutedOK, InReaction, Working, AttemptPc
<1>7. ASSUME NEW e \in Reaction, ReactionIgnored(e)
      PROVE  RoutedOK'
  BY <1>2, <1>7 DEF ReactionIgnored
<1>8. ASSUME NEW e \in Reaction, ReactionBegin(e)
      PROVE  RoutedOK'
  <2>1. PICK m \in ReactionTargets(alarm, e, started) :
           Begin("reaction", "late", m, {Row(m, e)})
    BY <1>8 DEF ReactionBegin
  <2>2. job'.m = m /\ job'.todo = {Row(m, e)} /\ UNCHANGED started
    BY <1>8, <2>1 DEF Begin, Idle, ReactionBegin
  <2>3. ReactionTargets(alarm, e, started) = Targeted(e, OwnSessions)
    BY DEF ReactionTargets, OwnSessions, OwnActive
  <2>4. IsFiniteSet(OwnSessions)
    <3>1. OwnSessions \subseteq Sessions
      BY DEF OwnSessions, Sessions, OwnActive, IsActive, ActiveStatus
    <3>. QED
      BY <3>1, FS_Subset DEF AInv
  <2>5. ComesFrom(m, e.reactor, e.ts, OwnSessions)
    BY <1>8, <2>1, <2>3, <2>4, OnlyTarget DEF ReactionBegin, OwnSessions
  <2>6. OwnSessions' \subseteq OwnSessions
    <3>1. SameMissing
      BY <1>8, ExpiryMissing DEF ReactionBegin
    <3>. QED
      BY <2>2, <3>1 DEF OwnSessions, OwnActive, SameMissing, SameSession
  <2>7. ComesFrom(m, e.reactor, e.ts, OwnSessions')
    BY <2>5, <2>6, FewerOthers
  <2>. QED
    BY <2>2, <2>7 DEF RoutedOK, Row
<1>9. ASSUME CheckLatest \/ \E class : CheckText(class)
      PROVE  RoutedOK'
  BY <1>2, <1>9 DEF CheckLatest, CheckText, CheckBegin, Begin, Release, CheckPc
<1>. QED
  BY <1>2, <1>3, <1>4, <1>5, <1>6, <1>7, <1>8, <1>9 DEF Next, Call, Changing

(* A reaction that is applied to a session, or stored for a message, named *)
(* it, or was sent when no other active session, or no other known         *)
(* message, had its timestamp; what was decided when it came in still      *)
(* holds when it is applied, after a report that was sent first.           *)
THEOREM AmbiguousReactionsDropped == Spec => AmbiguousReactionsAreDropped
<1>1. Init => CallOK /\ AInv
  <2>. SUFFICES ASSUME Init PROVE CallOK /\ AInv
    OBVIOUS
  <2>1. pc = "free" /\ observed = {} /\ Sessions = {}
    BY DEF Init, NoAlarm, Sessions
  <2>. QED
    BY <2>1, FS_EmptySet DEF CallOK, CalledFor, AInv, RoutedOK, InReaction, Working, AttemptPc
<1>2. IInv /\ CallOK /\ AInv /\ [Next]_vars => CallOK' /\ AInv'
  BY CallStep, SessionsFollow, RoutedStep DEF AInv
<1>3. ASSUME IInv, AInv, Next, pc = "apply", NEW m \in Message, NEW p \in Member,
             alarm'[m].last[p] > alarm[m].last[p]
      PROVE  ComesFrom(m, p, alarm'[m].last[p], {n \in Message : OwnActive(n)})
  <2>1. ReactionApply
    <3>1. ~SameMissing
      BY <1>3, RowTypes DEF SameMissing, SameSession
    <3>. QED
      BY <1>3, <3>1, OthersKeepMissing DEF Changing, IntakeTrigger, CheckAdopt, CheckReplay
  <2>2. PICK e \in job.todo :
          alarm' = [alarm EXCEPT ![job.m] = ApplyReaction(alarm[job.m], e, job.now)]
    BY <2>1 DEF ReactionApply
  <2>3. alarm \in [Message -> Alarm] /\ alarm[m] \in Alarm
    BY <1>3 DEF IInv, TypeOK
  <2>4. m = job.m /\ alarm'[m] = ApplyReaction(alarm[m], e, job.now)
    BY <1>3, <2>2, <2>3, RowTypes
  <2>5. alarm'[m].last = [alarm[m].last EXCEPT ![e.reactor] = e.ts]
    BY <1>3, <2>3, <2>4, RowTypes DEF ApplyReaction, Alarm
  <2>6. p = e.reactor /\ alarm'[m].last[p] = e.ts
    BY <1>3, <2>3, <2>5, RowTypes DEF Alarm
  <2>7. ComesFrom(job.m, e.reactor, e.ts, OwnSessions)
    BY <1>3 DEF AInv, RoutedOK, InReaction
  <2>. QED
    BY <2>4, <2>6, <2>7 DEF OwnSessions
<1>4. ASSUME IInv, AInv, Next, NEW s \in seen' \ seen
      PROVE  ComesFrom(s.msg, s.reactor, s.ts, observed)
  <2>1. PICK e \in Reaction : Observe(e)
    BY <1>4 DEF Next, Call, TickBegin, MessageBegin, ReactionBegin, ReactionIgnored,
       CheckLatest, CheckText, CheckBegin, RetainedReactions, JobStep, SnapshotFinal,
       MarkFinalDue, AttemptStep, Claim, Issue, Blocked, Succeed, Fail, RateLimited,
       LoseAnswer, Finish, Post, TickRun, TickComplete, TickIntermediate, TickFinal,
       TickEdit, TickEnd, Cleanup, MessageRun, IntakeIgnored, IntakeTrigger, HostReaction,
       Settle, ReactionRun, ReactionLate, ReactionApply, ReactionAfter, CheckRun,
       CheckAdopt, CheckReplay, CheckReplayed, CheckEvaluate, ClockTick,
       CommandTripsBreaker, TickFails, Crash, FirstCommit, rest, durable
  <2>2. /\ Cardinality(Targeted(e, observed)) = 1
        /\ seen' = seen \cup {Row(m, e) : m \in Targeted(e, observed)}
    BY <1>4, <2>1 DEF Observe
  <2>3. PICK m \in Targeted(e, observed) : s = Row(m, e)
    BY <1>4, <2>2
  <2>4. observed \in SUBSET Message /\ IsFiniteSet(observed)
    BY <1>4 DEF IInv, TypeOK, AInv
  <2>5. ComesFrom(m, e.reactor, e.ts, observed)
    BY <2>2, <2>4, OnlyTarget
  <2>. QED
    BY <2>3, <2>5 DEF Row
<1>5. IInv /\ AInv /\ [Next]_vars
      => [/\ pc = "apply" =>
                \A m \in Message, p \in Member :
                    alarm'[m].last[p] > alarm[m].last[p]
                    => ComesFrom(m, p, alarm'[m].last[p], {n \in Message : OwnActive(n)})
          /\ \A s \in seen' \ seen : ComesFrom(s.msg, s.reactor, s.ts, observed)]_vars
  BY <1>3, <1>4
<1>. QED
  BY <1>1, <1>2, <1>5, Inductive, PTL DEF Spec, AmbiguousReactionsAreDropped

-----------------------------------------------------------------------------
(* Passes that are not cut off.                                            *)

(* Some promises are those of a process that neither dies nor fails in a   *)
(* statement of the ticker.                                                *)
Undisturbed == ~Crash /\ ~TickFails

LEMMA NoFailureLeft ==
    ASSUME IInv, MaxFailures = 0
    PROVE  Undisturbed
<1>1. ~(failures < 0)
  BY DEF IInv, TypeOK
<1>. QED
  BY <1>1 DEF Undisturbed, Crash, TickFails

(* Nothing but its creation makes a session pending. *)
LEMMA PendingBefore ==
    ASSUME IInv, [Next]_vars, NEW m \in Message, alarm'[m].status = "pending"
    PROVE  \/ alarm[m].status = "pending"
           \/ /\ m = job.m /\ alarm[m].status = "none"
              /\ IntakeTrigger \/ CheckAdopt
<1>1. CASE SameMissing \/ ReactionApply \/ CheckReplay
  <2>1. SameMissing \/ RowsSame
    BY <1>1, AppliedSame
  <2>. QED
    BY <2>1 DEF SameMissing, SameSession, RowsSame, SameRow
<1>2. CASE IntakeTrigger \/ CheckAdopt
  <2>1. alarm[job.m].status = "none"
    BY <1>2 DEF IntakeTrigger, Starts, CheckAdopt, IInv, JobOK
  <2>2. m # job.m => alarm'[m] = alarm[m]
    BY <1>2 DEF IntakeTrigger, CheckAdopt, Create, IInv, TypeOK
  <2>. QED
    BY <1>2, <2>1, <2>2
<1>. QED
  BY <1>1, <1>2, OthersKeepMissing DEF Changing

(* Whether the final report of a session is with Signal.                   *)
Reporting(m) == pc \in {"issue", "rpc", "post"} /\ key = FKey(m)

(* The attempt of a final report ends the pending phase of its session     *)
(* before the tracker does anything else.                                  *)
ReportOK ==
    \A m \in Message :
        alarm[m].status = "pending" /\ op[FKey(m)] \in Attempted => Reporting(m)

(* A step of a job between claim and transition is one of its attempt. *)
LEMMA InAttempt ==
    ASSUME [Next]_vars, Undisturbed, pc \in {"issue", "rpc", "post"}
    PROVE  \/ AttemptStep
           \/ UNCHANGED <<alarm, op, pc, key, job, wire, shown>>
BY DEF Undisturbed, Next, Call, TickBegin, MessageBegin, ReactionBegin, ReactionIgnored,
   CheckLatest, CheckText, CheckBegin, JobStep, SnapshotFinal, MarkFinalDue,
   TickRun, TickComplete, TickIntermediate, TickFinal, TickEdit, TickEnd, MessageRun,
   IntakeIgnored, IntakeTrigger, HostReaction, Settle, ReactionRun, ReactionLate,
   ReactionApply, ReactionAfter, CheckRun, CheckAdopt, CheckReplay, CheckReplayed,
   CheckEvaluate, ClockTick, CommandTripsBreaker, vars, durable, ghosts

(* An outcome is only ever recorded by the attempt that it is of. *)
LEMMA RecordedBefore ==
    ASSUME IInv, [Next]_vars, NEW k \in Key, op'[k] \in Attempted
    PROVE  \/ op[k] = op'[k] /\ (~AttemptAction \/ k # key)
           \/ AttemptAction /\ k = key
<1>1. CASE QuietStep
  <2>1. op'[k] = op[k]
    BY <1>1, QuietSteps DEF Quiet, Evaluates, OpsWork, Undecided, Open, NotAttempted, Attempted
  <2>. QED
    BY <2>1, QuietSteps, <1>1
<1>2. CASE AttemptAction
  BY <1>2 DEF AttemptAction, Claim, ClaimOutgoing, Issue, Blocked, Succeed, Fail,
     RateLimited, LoseAnswer, Finish, FinishOutgoing, durable, IInv, TypeOK
<1>3. CASE ClockTick \/ CommandTripsBreaker \/ UNCHANGED vars
  BY <1>3 DEF ClockTick, CommandTripsBreaker, vars, durable
<1>. QED
  BY <1>1, <1>2, <1>3, StepKinds

LEMMA ReportStep ==
    ASSUME IInv, SInv, ReportOK, [Next]_vars, Undisturbed
    PROVE  ReportOK'
<1>. SUFFICES ASSUME NEW m \in Message, alarm'[m].status = "pending", op'[FKey(m)] \in Attempted
              PROVE  Reporting(m)'
  BY DEF ReportOK
<1>. DEFINE k == FKey(m)
<1>1. k \in Key /\ k[1] = m /\ k[2] = "final"
  BY ReportKeys
<1>. HIDE DEF k
<1>2. CASE AttemptAction /\ k = key
  BY <1>2 DEF AttemptAction, Claim, Issue, Blocked, Succeed, Fail, RateLimited, LoseAnswer,
     Finish, Reporting, k
<1>3. CASE op[k] = op'[k] /\ (~AttemptAction \/ k # key)
  <2>1. alarm[m].status = "pending"
    <3>1. alarm[m].status # "none"
      BY <1>1, <1>3 DEF IInv, OpsOK, k, Attempted
    <3>. QED
      BY <3>1, PendingBefore
  <2>2. pc \in {"issue", "rpc", "post"} /\ key = k
    BY <1>3, <2>1 DEF ReportOK, Reporting, k
  <2>3. CASE AttemptStep
    <3>1. Post /\ job.m = m
      BY <1>1, <1>3, <2>2, <2>3 DEF AttemptStep, AttemptAction, SInv, SendOK, AttemptPc
    <3>2. alarm'[m] = MarkReported(alarm[m], job.result, job.text)
      BY <1>1, <2>2, <3>1 DEF Post, AfterAttempt, IInv, TypeOK
    <3>3. alarm'[m].status = "reported"
      BY <2>1, <3>2 DEF MarkReported, IInv, TypeOK, Alarm
    <3>. QED
      BY <3>3
  <2>4. CASE UNCHANGED <<alarm, op, pc, key, job, wire, shown>>
    BY <2>2, <2>4 DEF Reporting, k
  <2>. QED
    BY <2>2, <2>3, <2>4, InAttempt
<1>. QED
  BY <1>1, <1>2, <1>3, RecordedBefore DEF k

(* The final report was not delivered, and cannot be: it was refused or    *)
(* not sent at all.                                                        *)
NotDelivered(m) == op[FKey(m)] \notin {"attempted_success", "attempted_uncertain"}

CompletionOK ==
    pc \in {"claim", "issue"} /\ key[2] = "completion" => NotDelivered(key[1])

(* How an attempt begins. *)
BeginsIntermediate(m) ==
    /\ IntermediateEnabled
    /\ op' = MarkOutgoingDue(op, IKey(m))
    /\ \E back : Attempt(IKey(m), NoText, back)
    /\ UNCHANGED alarm

BeginsEdit(m) ==
    /\ pc = "select" /\ m \in ToEdit
    /\ op' = PrepareOutgoing(op, <<m, "report_edit", alarm[m].rev>>, "due_not_attempted")
    /\ Attempt(<<m, "report_edit", alarm[m].rev>>, ReportText(alarm[m]), "select")
    /\ UNCHANGED alarm

BeginsOther ==
    /\ pc' = "claim" /\ key'[2] \in {"host_reaction", "manual_report"}
    /\ op' = PrepareOutgoing(op, key', "due_not_attempted")
    /\ UNCHANGED alarm

Begins == \/ \E m, back : Complete(m, back)
          \/ \E m \in Message : BeginsIntermediate(m)
          \/ MarkFinalDue
          \/ \E m \in Message : BeginsEdit(m)
          \/ BeginsOther

LEMMA EvaluationBegins ==
    ASSUME NEW m \in Message, NEW back \in Resting, pc' \in AttemptPc,
           Complete(m, back) \/ ProcessIntermediate(m, back) \/ ProcessFinal(m, back)
    PROVE  Begins
<1>1. pc' \notin Resting /\ pc' # "snapshot"
  BY DEF AttemptPc, Resting
<1>2. ~Return(back)
  BY <1>1 DEF Return, Release, Resting
<1>. QED
  BY <1>1, <1>2 DEF ProcessIntermediate, ProcessFinal, Begins, BeginsIntermediate, IKey

LEMMA AttemptBegins ==
    ASSUME IInv, [Next]_vars, pc' \in AttemptPc
    PROVE  \/ Begins
           \/ AttemptAction
           \/ UNCHANGED <<alarm, op, pc, key, job, wire, shown>>
<1>1. {"free", "select", "apply"} \subseteq Resting /\ pc' \notin Resting
      /\ \A at \in CalledFor : pc' # at
  BY DEF Resting, AttemptPc, CalledFor
<1>2. pc' # "due" /\ job.back \in Resting /\ (pc \notin {"free", "select"} => job.m \in Message)
  BY DEF AttemptPc, IInv, TypeOK, JobOK
<1>3. ~Release /\ \A at \in CalledFor \cup {"due"} : ~Goto(at)
  BY <1>1, <1>2 DEF Release, Goto, Resting
<1>4. CASE SnapshotFinal \/ MarkFinalDue
  BY <1>1, <1>2, <1>3, <1>4, EvaluationBegins DEF SnapshotFinal, Begins
<1>5. CASE Post
  BY <1>1, <1>2, <1>3, <1>5 DEF Post, Return
<1>6. CASE TickRun
  <2>1. CASE TickEdit
    <3>1. PICK m \in Message : m \in ToEdit /\ ProcessEdit(m, "select")
      BY <2>1 DEF TickEdit, ToEdit, DueEdits, Earliest
    <3>2. ~Return("select")
      BY <1>1 DEF Return
    <3>3. BeginsEdit(m)
      BY <2>1, <3>1, <3>2 DEF TickEdit, ProcessEdit, BeginsEdit
    <3>. QED
      BY <3>3 DEF Begins
  <2>2. CASE TickComplete \/ TickIntermediate \/ TickFinal
    <3>1. ToComplete \cup ToIntermediate \cup ToFinal \subseteq Message
      BY DEF ToComplete, ToIntermediate, ToFinal, DueToComplete, DueIntermediate, DueFinal, Earliest
    <3>. QED
      BY <1>1, <2>2, <3>1, EvaluationBegins DEF TickComplete, TickIntermediate, TickFinal
  <2>. QED
    BY <1>3, <1>6, <2>1, <2>2 DEF TickRun, TickEnd
<1>7. CASE MessageRun
  <2>1. CASE HostReaction
    BY <2>1 DEF HostReaction, Attempt, Begins, BeginsOther
  <2>. QED
    BY <1>1, <1>2, <1>3, <1>7, <2>1, EvaluationBegins
       DEF MessageRun, IntakeIgnored, IntakeTrigger, Settle, CalledFor
<1>8. CASE ReactionRun
  BY <1>1, <1>2, <1>3, <1>8, EvaluationBegins
     DEF ReactionRun, ReactionLate, ReactionApply, ReactionAfter, CalledFor
<1>9. CASE CheckRun
  <2>1. CASE CheckEvaluate
    <3>. DEFINE k == <<job.m, "manual_report", 0>>
    <3>1. ASSUME Attempt(k, NoText, "free"), op' = PrepareOutgoing(op, k, "due_not_attempted"),
                 UNCHANGED alarm
          PROVE  Begins
      BY <3>1 DEF Attempt, Begins, BeginsOther
    <3>2. \/ Complete(job.m, "free") \/ ProcessFinal(job.m, "free") \/ Release
          \/ /\ Attempt(k, NoText, "free") /\ op' = PrepareOutgoing(op, k, "due_not_attempted")
             /\ UNCHANGED alarm
      BY <2>1 DEF CheckEvaluate
    <3>3. job.m \in Message
      BY <1>2, <2>1 DEF CheckEvaluate
    <3>. HIDE DEF k
    <3>. QED
      BY <1>1, <1>3, <3>1, <3>2, <3>3, EvaluationBegins
  <2>. QED
    BY <1>1, <1>3, <1>9, <2>1 DEF CheckRun, CheckAdopt, CheckReplay, CheckReplayed, CalledFor
<1>10. CASE Call
  BY <1>1, <1>3, <1>10 DEF Call, TickBegin, MessageBegin, ReactionBegin, ReactionIgnored,
     CheckLatest, CheckText, CheckBegin, CheckPc, Begin, CalledFor, Resting
<1>11. CASE ClockTick \/ CommandTripsBreaker \/ UNCHANGED vars
  BY <1>11 DEF ClockTick, CommandTripsBreaker, vars, durable, ghosts
<1>12. CASE TickFails \/ Crash
  BY <1>3, <1>12 DEF TickFails, Crash
<1>. QED
  BY <1>4, <1>5, <1>6, <1>7, <1>8, <1>9, <1>10, <1>11, <1>12
     DEF Next, JobStep, AttemptStep, AttemptAction

LEMMA CompletionStep ==
    ASSUME IInv, IInv', SInv, SInv', ReportOK, CompletionOK, [Next]_vars, Undisturbed
    PROVE  CompletionOK'
<1>. SUFFICES ASSUME pc' \in {"claim", "issue"}, key'[2] = "completion"
              PROVE  NotDelivered(key[1])'
  BY DEF CompletionOK
<1>1. CASE UNCHANGED <<alarm, op, pc, key, job, wire, shown>>
  BY <1>1 DEF CompletionOK, NotDelivered
<1>2. CASE AttemptAction
  <2>1. pc = "claim" /\ pc' = "issue" /\ key' = key /\ op' = ClaimOutgoing(op, key)
    BY <1>2 DEF AttemptAction, Claim, Issue, Blocked, Succeed, Fail, RateLimited,
                LoseAnswer, Finish
  <2>2. key \in Key /\ FKey(key[1]) # key /\ FKey(key[1]) \in Key
    <3>1. key \in Key
      BY <2>1 DEF IInv, JobOK, AttemptPc
    <3>2. FKey(key[1])[2] = "final" /\ FKey(key[1]) \in Key
      BY <3>1, KeyMessage, ReportKeys
    <3>. QED
      BY <2>1, <3>1, <3>2
  <2>3. op'[FKey(key[1])] = op[FKey(key[1])]
    BY <2>1, <2>2 DEF ClaimOutgoing, IInv, TypeOK
  <2>. QED
    BY <2>1, <2>3 DEF CompletionOK, NotDelivered
<1>3. ASSUME NEW m, NEW back, Complete(m, back)
      PROVE  NotDelivered(key[1])'
  <2>. DEFINE a == alarm[m]
              edited == a.status = "reported" /\ a.hasReport
              k == <<m, IF edited THEN "completion_edit" ELSE "completion", 0>>
  <2>1. k[1] = m /\ k[2] \in Completing /\ (k[2] = "completion" => ~edited)
    BY DEF Completing
  <2>2. /\ UNCHANGED alarm /\ pc' = "claim" /\ key' = k
        /\ edited \/ ~(a.status = "reported" /\ op[<<m, "final", 0>>] = "attempted_uncertain")
        /\ op' = PrepareOutgoing(op, k, "due_not_attempted")
    BY <1>3 DEF Complete, Attempt
  <2>. HIDE DEF k
  <2>3. key'[1] = m /\ m \in Message /\ IsActive(a) /\ ~edited
    <3>1. job'.m = m /\ m \in Message
      BY <2>1, <2>2 DEF SInv, SendOK, AttemptPc, IInv, JobOK
    <3>2. IsActive(alarm'[m])
      BY <2>1, <2>2, <3>1 DEF SInv, SendOK, AttemptPc, Working, Completing
    <3>. QED
      BY <2>1, <2>2, <3>1, <3>2
  <2>4. k # FKey(m) /\ FKey(m) \in Key
    BY <2>1, <2>3, ReportKeys DEF Completing
  <2>5. op'[FKey(m)] = op[FKey(m)]
    BY <2>2, <2>4 DEF PrepareOutgoing, IInv, TypeOK
  <2>6. CASE a.status = "pending"
    <3>1. pc \notin {"issue", "rpc", "post"}
      <4>1. ~AttemptAction
        BY <2>2 DEF AttemptAction, Claim, Issue, Blocked, Succeed, Fail, RateLimited,
                    LoseAnswer, Finish
      <4>2. ~Post
        <5>1. job.back \in Resting /\ "claim" \notin Resting
          BY DEF IInv, TypeOK, Resting
        <5>. QED
          BY <2>2, <5>1 DEF Post, Return, Release
      <4>. QED
        BY <2>2, <4>1, <4>2, InAttempt DEF AttemptStep, AttemptAction
    <3>2. op[FKey(m)] \notin Attempted
      BY <2>3, <2>6, <3>1 DEF ReportOK, Reporting
    <3>. QED
      BY <2>3, <2>5, <3>2 DEF NotDelivered, Attempted
  <2>7. CASE a.status = "reported"
    <3>1. op[FKey(m)] # "attempted_success"
      BY <2>3, <2>7 DEF SInv, TablesOK, Settled
    <3>. QED
      BY <2>2, <2>3, <2>5, <2>7, <3>1 DEF NotDelivered, FKey
  <2>. QED
    BY <2>3, <2>6, <2>7 DEF IsActive, ActiveStatus
<1>4. ~MarkFinalDue /\ ~BeginsOther /\ \A m \in Message : ~BeginsIntermediate(m) /\ ~BeginsEdit(m)
  <2>1. ~MarkFinalDue
    BY DEF MarkFinalDue, Attempt
  <2>2. ~BeginsOther
    BY DEF BeginsOther
  <2>3. \A m \in Message : ~BeginsIntermediate(m)
    BY ReportKeys DEF BeginsIntermediate, Attempt
  <2>4. \A m \in Message : ~BeginsEdit(m)
    BY DEF BeginsEdit, Attempt
  <2>. QED
    BY <2>1, <2>2, <2>3, <2>4
<1>. QED
  BY <1>1, <1>2, <1>3, <1>4, AttemptBegins DEF Begins, AttemptPc

(* In a process that neither dies nor has a pass fail, the independent     *)
(* completion message is not sent beside a final report that went out:     *)
(* once its RPC was issued, the report was refused.                        *)
THEOREM CompletionDoublesNoReport ==
    ASSUME MaxFailures = 0
    PROVE  Spec => CompletionNeverDoublesReport
<1>1. Init => ReportOK /\ CompletionOK
  BY ReportKeys DEF Init, ReportOK, CompletionOK, Attempted
<1>2. IInv /\ IInv' /\ SInv /\ SInv' /\ ReportOK /\ CompletionOK /\ [Next]_vars => ReportOK' /\ CompletionOK'
  BY NoFailureLeft, ReportStep, CompletionStep
<1>3. ASSUME IInv, SInv, CompletionOK, [Next]_vars, wire' # wire, key[2] = "completion"
      PROVE  \/ wire[<<key[1], "final", 0>>] = 0
             \/ op[<<key[1], "final", 0>>] = "attempted_failed"
  <2>1. pc = "issue" /\ key[1] \in Message
    BY <1>3, OnlyIssueSends
  <2>2. NotDelivered(key[1])
    BY <1>3, <2>1 DEF CompletionOK
  <2>3. wire[FKey(key[1])] \in 0 .. 1 /\ (wire[FKey(key[1])] = 1 => op[FKey(key[1])] \in Attempted)
    BY <1>3, <2>1, ReportKeys DEF IInv, OpsOK
  <2>. QED
    BY <2>2, <2>3 DEF NotDelivered, Attempted, FKey
<1>4. IInv /\ SInv /\ CompletionOK /\ [Next]_vars
      => [Sending /\ key[2] = "completion"
          => \/ wire[<<key[1], "final", 0>>] = 0
             \/ op[<<key[1], "final", 0>>] = "attempted_failed"]_vars
  BY <1>3 DEF Sending
<1>. QED
  BY <1>1, <1>2, <1>4, Inductive, SessionsInductive, PTL DEF Spec, CompletionNeverDoublesReport

-----------------------------------------------------------------------------
(* What the report message shows.                                          *)

EKey(m, r) == <<m, "report_edit", r>>

Editable(a) == a.status = "reported" /\ a.hasReport

(* Edits are prepared for the revisions a session has had.                 *)
EditsOK ==
    \A m \in Message, r \in 0 .. MaxRev :
        /\ op[EKey(m, r)] # "not_due"
        /\ op[EKey(m, r)] # "absent" => r <= alarm[m].rev

(* What is being sent is what the session says, and remains so.            *)
TextOK ==
    /\ pc \in AttemptPc /\ key[2] \in {"final", "report_edit"} =>
          job.text = ReportText(alarm[key[1]])
    /\ pc \in AttemptPc /\ key[2] = "report_edit" =>
          /\ Editable(alarm[key[1]]) /\ key = EKey(key[1], alarm[key[1]].rev)
          /\ op[key] # "absent"

OutcomeOK ==
    pc = "post" /\ key[2] \in {"final", "report_edit"} =>
        /\ job.result = op[key] /\ op[key] \in Attempted \cup {"skipped"}
        /\ job.result = "attempted_success" => shown[key[1]] = job.text

(* The text on record is the one shown; an edit of the present revision    *)
(* that was delivered shows what the session says; one that is not due has *)
(* been tried.                                                             *)
InVain == {"attempted_failed", "attempted_uncertain", "skipped"}
ShownOK ==
    \A m \in Message : Editable(alarm[m]) =>
        LET a == alarm[m]
            edit == op[EKey(m, a.rev)]
        IN /\ \/ a.lastText = shown[m]
              \/ /\ pc = "post" /\ key[1] = m /\ key[2] = "report_edit"
                 /\ job.result = "attempted_success"
           /\ edit = "attempted_success" => shown[m] = ReportText(a)
           /\ a.editDue = None => shown[m] = ReportText(a) \/ edit \in InVain

XInv == ReportOK /\ EditsOK /\ TextOK /\ OutcomeOK /\ ShownOK

-----------------------------------------------------------------------------
LEMMA EditKeys ==
    ASSUME IInv
    PROVE  /\ \A m \in Message, r \in 0 .. MaxRev : EKey(m, r) \in Key
           /\ \A m \in Message : alarm[m] \in Alarm /\ alarm[m].rev \in 0 .. MaxRev
           /\ \A m \in Message : EKey(m, alarm[m].rev) \in Key
<1>1. \A m \in Message : alarm[m] \in Alarm
  BY DEF IInv, TypeOK
<1>2. \A m \in Message : alarm[m].rev \in 0 .. MaxRev
  BY <1>1 DEF Alarm
<1>. QED
  BY <1>1, <1>2, EditKey DEF EKey

(* Operations of a report's edits are prepared by ProcessEdit and decided  *)
(* by their attempt, or given up when their session expires.               *)
EditsStay ==
    \A k \in Key : k[2] = "report_edit" =>
        op'[k] = op[k] \/ (op[k] \in NotAttempted /\ op'[k] = "skipped")

LEMMA OperatorsLeaveEdits ==
    ASSUME IInv
    PROVE  /\ UNCHANGED op => EditsStay
           /\ \A keys : op' = SkipOperations(op, keys) => EditsStay
           /\ \A k, state : k[2] # "report_edit" /\ op' = PrepareOutgoing(op, k, state) => EditsStay
           /\ \A k : k[2] # "report_edit" /\ op' = MarkOutgoingDue(op, k) => EditsStay
           /\ \A m, status : op' = InsertOperations(op, m, status) => EditsStay
<1>. USE DEF EditsStay, IInv, TypeOK
<1>1. UNCHANGED op => EditsStay
  OBVIOUS
<1>2. \A keys : op' = SkipOperations(op, keys) => EditsStay
  BY DEF SkipOperations
<1>3. \A k, state : k[2] # "report_edit" /\ op' = PrepareOutgoing(op, k, state) => EditsStay
  BY DEF PrepareOutgoing
<1>4. \A k : k[2] # "report_edit" /\ op' = MarkOutgoingDue(op, k) => EditsStay
  BY DEF MarkOutgoingDue
<1>5. \A m, status : op' = InsertOperations(op, m, status) => EditsStay
  BY DEF InsertOperations
<1>. QED
  BY <1>1, <1>2, <1>3, <1>4, <1>5

LEMMA EvaluationLeavesEdits ==
    ASSUME IInv, NEW m, NEW back,
           Complete(m, back) \/ ProcessIntermediate(m, back) \/ ProcessFinal(m, back)
    PROVE  EditsStay
<1>1. ASSUME Complete(m, back) PROVE EditsStay
  <2>. DEFINE k == <<m, IF alarm[m].status = "reported" /\ alarm[m].hasReport
                        THEN "completion_edit" ELSE "completion", 0>>
  <2>1. k[2] # "report_edit"
    OBVIOUS
  <2>2. \/ op' = PrepareOutgoing(op, k, "skipped")
        \/ op' = PrepareOutgoing(op, k, "due_not_attempted")
    BY <1>1 DEF Complete
  <2>. HIDE DEF k
  <2>. QED
    BY <2>1, <2>2, OperatorsLeaveEdits
<1>2. <<m, "intermediate", 0>>[2] # "report_edit"
  OBVIOUS
<1>. QED
  BY <1>1, <1>2, OperatorsLeaveEdits DEF ProcessIntermediate, ProcessFinal

LEMMA EditsMove ==
    ASSUME IInv, [Next]_vars
    PROVE  EditsStay \/ AttemptAction \/ \E m \in Message : BeginsEdit(m)
<1>. SUFFICES ASSUME ~AttemptAction
              PROVE  EditsStay \/ \E m \in Message : BeginsEdit(m)
  OBVIOUS
<1>1. CASE SnapshotFinal \/ MarkFinalDue
  <2>1. <<job.m, "final", 0>>[2] # "report_edit"
    OBVIOUS
  <2>. QED
    BY <1>1, <2>1, EvaluationLeavesEdits, OperatorsLeaveEdits DEF SnapshotFinal, MarkFinalDue
<1>2. CASE Post
  BY <1>2, OperatorsLeaveEdits DEF Post
<1>3. CASE TickRun
  <2>1. CASE TickEdit
    <3>1. PICK m \in Message : m \in ToEdit /\ ProcessEdit(m, "select")
      BY <2>1 DEF TickEdit, ToEdit, DueEdits, Earliest
    <3>. QED
      BY <2>1, <3>1, OperatorsLeaveEdits DEF TickEdit, ProcessEdit, BeginsEdit
  <2>. QED
    BY <1>3, <2>1, EvaluationLeavesEdits, OperatorsLeaveEdits
       DEF TickRun, TickComplete, TickIntermediate, TickFinal, TickEnd
<1>4. CASE MessageRun
  <2>1. <<job.m, "host_reaction", 0>>[2] # "report_edit"
    OBVIOUS
  <2>. QED
    BY <1>4, <2>1, EvaluationLeavesEdits, OperatorsLeaveEdits
       DEF MessageRun, IntakeIgnored, IntakeTrigger, Create, HostReaction, Settle
<1>5. CASE ReactionRun
  BY <1>5, EvaluationLeavesEdits, OperatorsLeaveEdits
     DEF ReactionRun, ReactionLate, ReactionApply, ReactionAfter
<1>6. CASE CheckRun
  <2>1. <<job.m, "manual_report", 0>>[2] # "report_edit"
    OBVIOUS
  <2>. QED
    BY <1>6, <2>1, EvaluationLeavesEdits, OperatorsLeaveEdits
       DEF CheckRun, CheckAdopt, Create, CheckReplay, CheckReplayed, CheckEvaluate
<1>7. CASE Call
  BY <1>7, OperatorsLeaveEdits
     DEF Call, TickBegin, MessageBegin, ReactionBegin, ReactionIgnored, CheckLatest,
         CheckText, CheckBegin, ExpireDue
<1>8. CASE ClockTick \/ CommandTripsBreaker \/ TickFails \/ Crash \/ UNCHANGED vars
  BY <1>8, CrashTables, OperatorsLeaveEdits
     DEF ClockTick, CommandTripsBreaker, TickFails, ExpireDue, vars, durable
<1>. QED
  BY <1>1, <1>2, <1>3, <1>4, <1>5, <1>6, <1>7, <1>8 DEF Next, JobStep, AttemptStep, AttemptAction

(* What a step that neither applies a reaction nor follows an attempt does *)
(* to a row, as far as its report is concerned.                            *)
KeepsReport(a, b) ==
    /\ a.status # "none" => b.rev = a.rev
    /\ Editable(b) =>
          /\ Editable(a) /\ b.lastText = a.lastText /\ ReportText(b) = ReportText(a)
          /\ b.editDue = None => a.editDue = None \/ ReportText(a) = a.lastText

LEMMA RowKept ==
    ASSUME NEW a \in Alarm
    PROVE  /\ KeepsReport(a, a)
           /\ KeepsReport(a, SnapshotFinalMissing(a))
           /\ KeepsReport(a, [a EXCEPT !.status = "expired", !.editDue = None])
           /\ ReportText(a) = a.lastText => KeepsReport(a, ClearEditDue(a))
<1>1. KeepsReport(a, a)
  BY DEF KeepsReport
<1>2. KeepsReport(a, SnapshotFinalMissing(a))
  BY DEF KeepsReport, SnapshotFinalMissing, Editable, Alarm
<1>3. KeepsReport(a, [a EXCEPT !.status = "expired", !.editDue = None])
  BY DEF KeepsReport, Editable, Alarm
<1>4. ReportText(a) = a.lastText => KeepsReport(a, ClearEditDue(a))
  <2>. DEFINE b == ClearEditDue(a)
  <2>1. /\ b.rev = a.rev /\ b.status = a.status /\ b.hasReport = a.hasReport
        /\ b.lastText = a.lastText /\ b.initial = a.initial
        /\ b.responded = a.responded /\ b.released = a.released
    BY DEF ClearEditDue, Alarm
  <2>. HIDE DEF b
  <2>2. ReportText(b) = ReportText(a)
    BY <2>1 DEF ReportText, Missing
  <2>. QED
    BY <2>1, <2>2 DEF KeepsReport, Editable, b
<1>. QED
  BY <1>1, <1>2, <1>3, <1>4

LEMMA ReportsKept ==
    ASSUME IInv, [Next]_vars, ~Post, ~ReactionApply, ~CheckReplay, NEW m \in Message
    PROVE  KeepsReport(alarm[m], alarm'[m])
<1>1. alarm \in [Message -> Alarm] /\ alarm[m] \in Alarm
  BY DEF IInv, TypeOK
<1>2. CASE UNCHANGED alarm
  BY <1>1, <1>2, RowKept
<1>3. ASSUME NEW from, alarm' = ExpireAlarms(alarm, now, from)
      PROVE  KeepsReport(alarm[m], alarm'[m])
  BY <1>1, <1>3, RowKept DEF ExpireAlarms
<1>4. CASE Call
  <2>1. \/ UNCHANGED alarm
        \/ \E from : alarm' = ExpireAlarms(alarm, now, from)
    BY <1>4 DEF Call, TickBegin, MessageBegin, ReactionBegin, ReactionIgnored,
                CheckLatest, CheckText, CheckBegin, ExpireDue
  <2>. QED
    BY <1>2, <1>3, <2>1
<1>5. CASE SnapshotFinal
  <2>1. \/ UNCHANGED alarm
        \/ alarm' = [alarm EXCEPT ![job.m] = SnapshotFinalMissing(alarm[job.m])]
    BY <1>5, EvaluationsWriteNoRow DEF SnapshotFinal
  <2>. QED
    BY <1>1, <1>2, <2>1, RowKept
<1>6. CASE IntakeTrigger \/ CheckAdopt
  <2>1. PICK source, trk, file : Create(job.m, source, trk, file)
    BY <1>6 DEF IntakeTrigger, CheckAdopt
  <2>2. alarm[job.m].status = "none"
    BY <1>6 DEF IntakeTrigger, Starts, CheckAdopt, IInv, JobOK
  <2>3. CASE m # job.m
    BY <1>1, <2>1, <2>3, RowKept DEF Create
  <2>4. CASE m = job.m
    <3>1. alarm'[m].hasReport = FALSE
      BY <1>1, <2>1, <2>4 DEF Create, InsertedAlarm, NoAlarm
    <3>. QED
      BY <2>2, <2>4, <3>1 DEF KeepsReport, Editable
  <2>. QED
    BY <2>3, <2>4
<1>7. CASE TickEdit
  <2>1. PICK n \in Message : ProcessEdit(n, "select")
    BY <1>7 DEF TickEdit, ToEdit, DueEdits, Earliest
  <2>2. \/ UNCHANGED alarm
        \/ /\ alarm' = [alarm EXCEPT ![n] = ClearEditDue(alarm[n])]
           /\ ReportText(alarm[n]) = alarm[n].lastText
    BY <2>1 DEF ProcessEdit
  <2>. QED
    BY <1>1, <1>2, <2>2, RowKept
<1>8. CASE MarkFinalDue \/ AttemptAction
  BY <1>2, <1>8 DEF MarkFinalDue, AttemptAction, Claim, Issue, Blocked, Succeed, Fail,
                    RateLimited, LoseAnswer, Finish, durable
<1>9. CASE TickComplete \/ TickIntermediate \/ TickFinal \/ TickEnd
  BY <1>2, <1>9, EvaluationsWriteNoRow
     DEF TickComplete, TickIntermediate, TickFinal, TickEnd
<1>10. CASE MessageRun \/ ReactionRun \/ CheckRun
  BY <1>2, <1>6, <1>10, EvaluationsWriteNoRow
     DEF MessageRun, IntakeIgnored, HostReaction, Settle, ReactionRun,
         ReactionLate, ReactionAfter, CheckRun, CheckReplayed, CheckEvaluate
<1>11. CASE ClockTick \/ CommandTripsBreaker \/ TickFails \/ Crash \/ UNCHANGED vars
  BY <1>2, <1>3, <1>11, CrashTables
     DEF ClockTick, CommandTripsBreaker, TickFails, ExpireDue, vars, durable
<1>. QED
  BY <1>4, <1>5, <1>7, <1>8, <1>9, <1>10, <1>11
     DEF Next, JobStep, AttemptStep, AttemptAction, TickRun

(* A reaction that changes a response makes a new revision, and has the    *)
(* report edited; any other leaves what there is to show.                  *)
LEMMA ApplyRevises ==
    ASSUME NEW a \in Alarm, NEW e \in Seen, NEW t \in Nat
    PROVE  LET b == ApplyReaction(a, e, t)
           IN /\ b.status = a.status /\ b.hasReport = a.hasReport /\ b.lastText = a.lastText
              /\ \/ KeepsReport(a, b) /\ b.rev = a.rev
                 \/ /\ ChangesResponse(a, e) /\ b.rev = a.rev + 1
                    /\ Editable(b) => b.editDue # None
<1>. DEFINE b == ApplyReaction(a, e, t)
<1>1. CASE ~Accepts(a, e)
  BY <1>1, RowKept DEF ApplyReaction
<1>2. CASE Accepts(a, e)
  <2>1. b = [a EXCEPT !.last[e.reactor] = e.ts,
                      !.responded = IF e.removed THEN a.responded \ {e.reactor}
                                                 ELSE a.responded \cup {e.reactor},
                      !.rev = IF ChangesResponse(a, e) THEN a.rev + 1 ELSE a.rev,
                      !.editDue = IF /\ ChangesResponse(a, e)
                                     /\ a.status = "reported" /\ a.hasReport
                                  THEN t + Debounce ELSE a.editDue]
    BY <1>2 DEF ApplyReaction
  <2>2. /\ b.status = a.status /\ b.hasReport = a.hasReport /\ b.lastText = a.lastText
        /\ b.initial = a.initial /\ b.released = a.released
        /\ b.responded = IF e.removed THEN a.responded \ {e.reactor}
                                      ELSE a.responded \cup {e.reactor}
        /\ b.rev = IF ChangesResponse(a, e) THEN a.rev + 1 ELSE a.rev
        /\ b.editDue = IF ChangesResponse(a, e) /\ a.status = "reported" /\ a.hasReport
                       THEN t + Debounce ELSE a.editDue
    BY <2>1 DEF Alarm
  <2>. HIDE DEF b
  <2>3. CASE ~ChangesResponse(a, e)
    <3>1. b.responded = a.responded
      BY <1>2, <2>2, <2>3 DEF ChangesResponse, Seen
    <3>2. ReportText(b) = ReportText(a)
      BY <2>2, <3>1 DEF ReportText, Missing
    <3>. QED
      BY <2>2, <2>3, <3>2 DEF KeepsReport, Editable, b
  <2>4. CASE ChangesResponse(a, e)
    <3>1. t + Debounce # None
      BY RowAssumption DEF RowAssumption, None
    <3>. QED
      BY <2>2, <2>4, <3>1 DEF Editable, b
  <2>. QED
    BY <2>3, <2>4
<1>. QED
  BY <1>1, <1>2

LEMMA RevisionsFollow ==
    ASSUME IInv, IInv', [Next]_vars, EditsOK
    PROVE  /\ \A m \in Message : alarm[m].status # "none" => alarm[m].rev <= alarm'[m].rev
           /\ ReactionApply \/ CheckReplay =>
                 /\ UNCHANGED <<op, shown>>
                 /\ \A m \in Message \ {job.m} : alarm'[m] = alarm[m]
                 /\ LET a == alarm[job.m]
                        b == alarm'[job.m]
                    IN /\ job.m \in Message
                       /\ b.status = a.status /\ b.hasReport = a.hasReport
                       /\ b.lastText = a.lastText
                       /\ \/ KeepsReport(a, b) /\ b.rev = a.rev
                          \/ /\ b.rev = a.rev + 1 /\ op[EKey(job.m, b.rev)] = "absent"
                             /\ Editable(b) => b.editDue # None
<1>1. /\ alarm \in [Message -> Alarm] /\ job.now \in Nat
      /\ \A m \in Message : /\ alarm[m].rev \in 0 .. MaxRev /\ alarm'[m].rev \in 0 .. MaxRev
                            /\ alarm[m] \in Alarm
      /\ MaxRev \in Nat
  <2>1. \A m \in Message : alarm[m] \in Alarm /\ alarm'[m] \in Alarm
    BY DEF IInv, TypeOK
  <2>. QED
    BY <2>1, RowAssumption DEF IInv, TypeOK, Alarm, RowAssumption
<1>2. ASSUME ReactionApply \/ CheckReplay
      PROVE  /\ UNCHANGED <<op, shown>>
             /\ \A m \in Message \ {job.m} : alarm'[m] = alarm[m]
             /\ LET a == alarm[job.m]
                    b == alarm'[job.m]
                IN /\ job.m \in Message
                   /\ b.status = a.status /\ b.hasReport = a.hasReport
                   /\ b.lastText = a.lastText
                   /\ \/ KeepsReport(a, b) /\ b.rev = a.rev
                      \/ /\ b.rev = a.rev + 1 /\ op[EKey(job.m, b.rev)] = "absent"
                         /\ Editable(b) => b.editDue # None
  <2>1. PICK e \in job.todo :
          /\ ChangesResponse(alarm[job.m], e) => alarm[job.m].rev < MaxRev
          /\ alarm' = [alarm EXCEPT ![job.m] = ApplyReaction(alarm[job.m], e, job.now)]
    BY <1>2 DEF ReactionApply, CheckReplay
  <2>2. job.m \in Message /\ e \in Seen /\ UNCHANGED <<op, shown>>
    BY <1>2 DEF ReactionApply, CheckReplay, IInv, JobOK, TypeOK, AttemptPc, ghosts
  <2>. DEFINE a == alarm[job.m]
              b == ApplyReaction(alarm[job.m], e, job.now)
  <2>3. alarm'[job.m] = b /\ \A m \in Message \ {job.m} : alarm'[m] = alarm[m]
    BY <1>1, <2>1, <2>2
  <2>4. /\ b.status = a.status /\ b.hasReport = a.hasReport /\ b.lastText = a.lastText
        /\ \/ KeepsReport(a, b) /\ b.rev = a.rev
           \/ /\ ChangesResponse(a, e) /\ b.rev = a.rev + 1
              /\ Editable(b) => b.editDue # None
    BY <1>1, <2>2, ApplyRevises
  <2>. HIDE DEF b
  <2>5. ASSUME ChangesResponse(a, e), b.rev = a.rev + 1
        PROVE  op[EKey(job.m, b.rev)] = "absent"
    <3>1. a.rev < MaxRev /\ a.rev \in 0 .. MaxRev
      BY <1>1, <2>1, <2>2, <2>5
    <3>2. b.rev \in 0 .. MaxRev /\ ~(b.rev <= a.rev)
      BY <1>1, <2>5, <3>1
    <3>. QED
      BY <2>2, <3>2 DEF EditsOK
  <2>. QED
    BY <2>2, <2>3, <2>4, <2>5
<1>3. ASSUME NEW m \in Message, alarm[m].status # "none"
      PROVE  alarm[m].rev <= alarm'[m].rev
  <2>1. CASE ReactionApply \/ CheckReplay
    <3>1. alarm'[m].rev = alarm[m].rev \/ alarm'[m].rev = alarm[m].rev + 1
      BY <1>2, <2>1
    <3>. QED
      BY <1>1, <3>1
  <2>2. CASE Post
    <3>1. AfterAttempt(alarm[job.m], key[2], job.result, job.text).rev = alarm[job.m].rev
      BY <1>1, <2>2 DEF Post, AfterAttempt, MarkReported, RecordSuccessfulEdit, ClearEditDue,
                        MarkCompleted, Alarm, IInv, JobOK, AttemptPc
    <3>2. alarm'[m].rev = alarm[m].rev
      BY <1>1, <2>2, <3>1 DEF Post
    <3>. QED
      BY <1>1, <3>2
  <2>3. CASE ~ReactionApply /\ ~CheckReplay /\ ~Post
    BY <1>1, <1>3, <2>3, ReportsKept DEF KeepsReport
  <2>. QED
    BY <2>1, <2>2, <2>3
<1>. QED
  BY <1>2, <1>3

LEMMA EditsStep ==
    ASSUME IInv, IInv', EditsOK, TextOK, [Next]_vars
    PROVE  EditsOK'
<1>. SUFFICES ASSUME NEW m \in Message, NEW r \in 0 .. MaxRev
              PROVE  /\ op'[EKey(m, r)] # "not_due"
                     /\ op'[EKey(m, r)] # "absent" => r <= alarm'[m].rev
  BY DEF EditsOK
<1>. DEFINE k == EKey(m, r)
<1>1. k \in Key /\ k[1] = m /\ k[2] = "report_edit" /\ k[3] = r
  BY EditKeys DEF EKey
<1>2. op[k] # "not_due" /\ (op[k] # "absent" => r <= alarm[m].rev)
  BY DEF EditsOK
<1>. HIDE DEF k
<1>3. alarm[m].rev \in Nat /\ alarm'[m].rev \in Nat /\ MaxRev \in Nat
  <2>1. alarm[m] \in Alarm /\ alarm'[m] \in Alarm
    BY DEF IInv, TypeOK
  <2>. QED
    BY <2>1, RowAssumption DEF Alarm, RowAssumption
<1>4. ASSUME op[k] # "absent"
      PROVE  r <= alarm'[m].rev
  <2>1. alarm[m].status # "none"
    BY <1>1, <1>4 DEF IInv, OpsOK
  <2>2. alarm[m].rev <= alarm'[m].rev
    BY <2>1, RevisionsFollow
  <2>. QED
    BY <1>2, <1>3, <1>4, <2>2
<1>5. CASE EditsStay
  <2>1. op'[k] = op[k] \/ (op[k] \in NotAttempted /\ op'[k] = "skipped")
    BY <1>1, <1>5 DEF EditsStay
  <2>. QED
    BY <1>2, <1>4, <2>1 DEF NotAttempted, k
<1>6. CASE AttemptAction
  <2>1. op'[k] = op[k] \/ (op[k] \in {"due_not_attempted", "attempted_uncertain"}
                           /\ op'[k] \in Attempted \cup {"skipped"})
    BY <1>1, <1>6 DEF AttemptAction, Claim, Claimable, ClaimOutgoing, Issue, Blocked, Succeed,
       Fail, RateLimited, LoseAnswer, Finish, FinishOutgoing, durable, IInv, TypeOK, AttemptOK,
       Attempted
  <2>. QED
    BY <1>2, <1>4, <2>1 DEF Attempted, k
<1>7. ASSUME NEW n \in Message, BeginsEdit(n)
      PROVE  op'[k] # "not_due" /\ (op'[k] # "absent" => r <= alarm'[m].rev)
  <2>1. op' = PrepareOutgoing(op, EKey(n, alarm[n].rev), "due_not_attempted") /\ UNCHANGED alarm
    BY <1>7 DEF BeginsEdit, EKey
  <2>2. CASE k = EKey(n, alarm[n].rev)
    <3>1. m = n /\ r = alarm[n].rev
      BY <1>1, <2>2 DEF EKey
    <3>2. op'[k] # "not_due"
      BY <1>1, <1>2, <2>1, <2>2 DEF PrepareOutgoing, IInv, TypeOK
    <3>. QED
      BY <1>3, <2>1, <3>1, <3>2
  <2>3. CASE k # EKey(n, alarm[n].rev)
    <3>1. op'[k] = op[k]
      BY <1>1, <2>1, <2>3 DEF PrepareOutgoing, IInv, TypeOK
    <3>. QED
      BY <1>2, <1>4, <3>1
  <2>. QED
    BY <2>2, <2>3
<1>. QED
  BY <1>5, <1>6, <1>7, EditsMove DEF k

(* What is to be sent is taken from the row in the step that begins the    *)
(* attempt, and nothing changes the row before its outcome is known.       *)
LEMMA TextStep ==
    ASSUME IInv, TextOK, [Next]_vars
    PROVE  TextOK'
<1>. SUFFICES ASSUME pc' \in AttemptPc, key'[2] \in {"final", "report_edit"}
              PROVE  /\ job'.text = ReportText(alarm'[key'[1]])
                     /\ key'[2] = "report_edit" =>
                           /\ Editable(alarm'[key'[1]])
                           /\ key' = EKey(key'[1], alarm'[key'[1]].rev)
                           /\ op'[key'] # "absent"
  BY DEF TextOK, Editable, ReportText, Missing, EKey
<1>1. CASE UNCHANGED <<alarm, op, pc, key, job, wire, shown>>
  BY <1>1 DEF TextOK
<1>2. CASE AttemptAction
  <2>1. pc \in AttemptPc /\ UNCHANGED <<alarm, key>> /\ key \in Key /\ job'.text = job.text
    BY <1>2 DEF AttemptAction, Claim, Issue, Blocked, Succeed, Fail, RateLimited, LoseAnswer,
                Finish, durable, IInv, TypeOK, JobOK, AttemptPc
  <2>2. op[key] # "absent" => op'[key] # "absent"
    BY <1>2, <2>1 DEF AttemptAction, Claim, ClaimOutgoing, Issue, Blocked, Succeed, Fail,
       RateLimited, LoseAnswer, Finish, FinishOutgoing, durable, IInv, TypeOK
  <2>. QED
    BY <2>1, <2>2 DEF TextOK
<1>3. \A m, back : ~Complete(m, back)
  <2>. SUFFICES ASSUME NEW m, NEW back, Complete(m, back)
                PROVE  FALSE
    OBVIOUS
  <2>. DEFINE k == <<m, IF alarm[m].status = "reported" /\ alarm[m].hasReport
                        THEN "completion_edit" ELSE "completion", 0>>
  <2>1. k[2] \in Completing
    BY DEF Completing
  <2>2. key' = k
    BY DEF Complete, Attempt
  <2>. HIDE DEF k
  <2>. QED
    BY <2>1, <2>2 DEF Completing
<1>4. ~BeginsOther /\ \A m \in Message : ~BeginsIntermediate(m)
  BY ReportKeys DEF BeginsOther, BeginsIntermediate, Attempt
<1>5. CASE MarkFinalDue
  <2>1. key' = FKey(job.m) /\ job'.text = ReportText(alarm[job.m]) /\ UNCHANGED alarm
    BY <1>5 DEF MarkFinalDue, Attempt, FKey, IInv, TypeOK
  <2>2. FKey(job.m)[1] = job.m /\ FKey(job.m)[2] = "final"
    BY DEF FKey
  <2>. QED
    BY <2>1, <2>2
<1>6. ASSUME NEW m \in Message, BeginsEdit(m)
      PROVE  /\ job'.text = ReportText(alarm'[key'[1]])
             /\ Editable(alarm'[key'[1]])
             /\ key' = EKey(key'[1], alarm'[key'[1]].rev)
             /\ op'[key'] # "absent"
  <2>. DEFINE k == EKey(m, alarm[m].rev)
  <2>1. k[1] = m /\ k \in Key
    BY EditKeys DEF EKey
  <2>2. /\ key' = k /\ job'.text = ReportText(alarm[m]) /\ UNCHANGED alarm
        /\ op' = PrepareOutgoing(op, k, "due_not_attempted")
    BY <1>6 DEF BeginsEdit, Attempt, EKey, IInv, TypeOK
  <2>3. Editable(alarm[m])
    BY <1>6 DEF BeginsEdit, ToEdit, DueEdits, Earliest, Editable
  <2>. HIDE DEF k
  <2>4. op'[k] # "absent"
    BY <2>1, <2>2 DEF PrepareOutgoing, IInv, TypeOK
  <2>5. key' = EKey(m, alarm[m].rev)
    BY <2>2 DEF k
  <2>. QED
    BY <2>1, <2>2, <2>3, <2>4, <2>5
<1>. QED
  BY <1>1, <1>2, <1>3, <1>4, <1>5, <1>6, AttemptBegins DEF Begins

(* An attempt that is found to have succeeded before it is claimed would   *)
(* be one of an earlier pass.                                              *)
LEMMA OutcomeStep ==
    ASSUME IInv, SInv, XInv, [Next]_vars
    PROVE  OutcomeOK'
<1>. SUFFICES ASSUME pc' = "post", key'[2] \in {"final", "report_edit"}
              PROVE  /\ job'.result = op'[key']
                     /\ op'[key'] \in Attempted \cup {"skipped"}
                     /\ job'.result = "attempted_success" => shown'[key'[1]] = job'.text
  BY DEF OutcomeOK
<1>1. CASE UNCHANGED <<alarm, op, pc, key, job, wire, shown>>
  BY <1>1 DEF XInv, OutcomeOK
<1>2. CASE AttemptAction
  <2>1. pc \in AttemptPc \ {"post"} /\ UNCHANGED <<alarm, key>> /\ key \in Key
    BY <1>2 DEF AttemptAction, Claim, Issue, Blocked, Succeed, Fail, RateLimited, LoseAnswer,
                Finish, durable, IInv, JobOK, AttemptPc
  <2>2. key[1] = job.m /\ key[1] \in Message
    BY <2>1, KeyMessage DEF SInv, SendOK
  <2>3. CASE Claim
    <3>1. /\ pc = "claim" /\ op[key] # "due_not_attempted" /\ UNCHANGED <<op, shown>>
          /\ job'.result = op[key] /\ job'.text = job.text
      BY <2>3 DEF Claim, Claimable, ghosts, IInv, TypeOK
    <3>2. CASE key[2] = "final"
      <4>1. op[key] \notin {"absent", "not_due"} /\ alarm[key[1]].status = "pending"
        BY <2>1, <2>2, <3>2 DEF SInv, SendOK, ForFinal
      <4>2. key = FKey(key[1])
        BY <2>1, <3>2, ReportKeyOf
      <4>3. op[key] \notin Attempted
        BY <2>2, <3>1, <4>1, <4>2 DEF XInv, ReportOK, Reporting
      <4>. QED
        BY <2>1, <3>1, <4>1, <4>3 DEF IInv, TypeOK, OpState, NotAttempted, Attempted
    <3>3. CASE key[2] = "report_edit"
      <4>. DEFINE a == alarm[key[1]]
      <4>1. /\ Editable(a) /\ key = EKey(key[1], a.rev) /\ op[key] # "absent"
            /\ job.text = ReportText(a)
        BY <2>1, <3>3 DEF XInv, TextOK
      <4>2. op[key] # "not_due"
        BY <2>2, <4>1, EditKeys DEF XInv, EditsOK
      <4>3. op[key] = "attempted_success" => shown[key[1]] = ReportText(a)
        BY <2>2, <4>1 DEF XInv, ShownOK
      <4>. QED
        BY <2>1, <3>1, <4>1, <4>2, <4>3 DEF IInv, TypeOK, OpState, NotAttempted
    <3>. QED
      BY <2>1, <3>2, <3>3
  <2>4. CASE ~Claim
    <3>1. PICK result \in Attempted \cup {"skipped"} :
            /\ Finish(result) /\ pc \in {"issue", "rpc"}
            /\ result = "attempted_success" => Succeed
      BY <1>2, <2>4 DEF AttemptAction, Issue, Blocked, Succeed, Fail, RateLimited, LoseAnswer,
                        Attempted
    <3>2. job'.result = result /\ job'.text = job.text /\ op'[key] = result
      BY <2>1, <3>1 DEF Finish, FinishOutgoing, IInv, TypeOK, AttemptOK
    <3>3. Succeed => shown'[key[1]] = job.text
      BY <2>1, <2>2 DEF Succeed, IInv, TypeOK
    <3>. QED
      BY <2>1, <3>1, <3>2, <3>3
  <2>. QED
    BY <2>3, <2>4
<1>3. \A m, back : ~Complete(m, back)
  <2>. SUFFICES ASSUME NEW m, NEW back, Complete(m, back)
                PROVE  FALSE
    OBVIOUS
  <2>. DEFINE k == <<m, IF alarm[m].status = "reported" /\ alarm[m].hasReport
                        THEN "completion_edit" ELSE "completion", 0>>
  <2>1. k[2] \in Completing
    BY DEF Completing
  <2>2. key' = k
    BY DEF Complete, Attempt
  <2>. HIDE DEF k
  <2>. QED
    BY <2>1, <2>2 DEF Completing
<1>4. ~BeginsOther /\ ~MarkFinalDue
      /\ \A m \in Message : ~BeginsIntermediate(m) /\ ~BeginsEdit(m)
  BY DEF BeginsOther, MarkFinalDue, BeginsIntermediate, BeginsEdit, Attempt
<1>. QED
  BY <1>1, <1>2, <1>3, <1>4, AttemptBegins DEF Begins, AttemptPc

LEMMA OnlySuccessShows ==
    ASSUME [Next]_vars, ~Succeed
    PROVE  UNCHANGED shown
<1>1. CASE Call \/ TickRun \/ MessageRun
  BY <1>1 DEF Call, TickBegin, MessageBegin, ReactionBegin, ReactionIgnored, CheckLatest,
     CheckText, CheckBegin, TickRun, TickComplete, TickIntermediate, TickFinal, TickEdit,
     TickEnd, MessageRun, IntakeIgnored, IntakeTrigger, HostReaction, Settle, rest, ghosts
<1>2. CASE ReactionRun \/ CheckRun \/ AttemptStep \/ SnapshotFinal \/ MarkFinalDue
  BY <1>2 DEF ReactionRun, ReactionLate, ReactionApply, ReactionAfter, CheckRun, CheckAdopt,
     CheckReplay, CheckReplayed, CheckEvaluate, AttemptStep, Claim, Issue, Blocked, Fail,
     RateLimited, LoseAnswer, Finish, Post, SnapshotFinal, MarkFinalDue, rest, ghosts
<1>3. CASE ClockTick \/ CommandTripsBreaker \/ TickFails \/ Crash \/ UNCHANGED vars
  BY <1>3 DEF ClockTick, CommandTripsBreaker, TickFails, Crash, vars, ghosts
<1>. QED
  BY <1>1, <1>2, <1>3 DEF Next, JobStep

(* The transition that follows an attempt leaves the row saying what is    *)
(* shown.                                                                  *)
LEMMA PostShows ==
    ASSUME IInv, IInv', SInv, XInv, Post, NEW m \in Message, Editable(alarm'[m])
    PROVE  LET b == alarm'[m]
               edit == op'[EKey(m, b.rev)]
           IN /\ b.lastText = shown[m]
              /\ edit = "attempted_success" => shown[m] = ReportText(b)
              /\ b.editDue = None => shown[m] = ReportText(b) \/ edit \in InVain
<1>. DEFINE a == alarm[m]
            b == alarm'[m]
            k == EKey(m, a.rev)
<1>1. pc = "post" /\ key[1] = job.m /\ job.m \in Message /\ key \in Key
  BY DEF Post, SInv, SendOK, IInv, JobOK, AttemptPc
<1>2. /\ a \in Alarm /\ k \in Key /\ k[2] = "report_edit"
      /\ \A n \in Message : ReportText(alarm[n]) = ReportText([alarm[n] EXCEPT !.editDue = None])
  <2>1. a \in Alarm /\ k \in Key /\ k[2] = "report_edit"
    BY EditKeys DEF EKey
  <2>2. ASSUME NEW n \in Message
        PROVE  ReportText(alarm[n]) = ReportText([alarm[n] EXCEPT !.editDue = None])
    BY EditKeys DEF ReportText, Missing, Alarm
  <2>. QED
    BY <2>1, <2>2
<1>3. op'[k] = op[k] \/ (op[k] \in NotAttempted /\ op'[k] = "skipped")
  BY <1>2, OperatorsLeaveEdits DEF Post, EditsStay
<1>4. CASE m # job.m
  <2>1. b = a
    BY <1>1, <1>4 DEF Post, IInv, TypeOK
  <2>2. /\ a.lastText = shown[m]
        /\ op[k] = "attempted_success" => shown[m] = ReportText(a)
        /\ a.editDue = None => shown[m] = ReportText(a) \/ op[k] \in InVain
    BY <1>1, <1>4, <2>1 DEF XInv, ShownOK
  <2>. HIDE DEF k
  <2>3. /\ op'[k] = "attempted_success" => shown[m] = ReportText(a)
        /\ a.editDue = None => shown[m] = ReportText(a) \/ op'[k] \in InVain
    BY <1>3, <2>2 DEF InVain, NotAttempted
  <2>. QED
    BY <2>1, <2>2, <2>3 DEF k
<1>5. CASE m = job.m
  <2>1. b = AfterAttempt(a, key[2], job.result, job.text)
    BY <1>1, <1>5 DEF Post, IInv, TypeOK
  <2>2. CASE key[2] = "final"
    <3>1. a.status = "pending" /\ job.text = ReportText(a)
      BY <1>1, <1>5, <2>2 DEF SInv, SendOK, ForFinal, AttemptPc, XInv, TextOK
    <3>2. b = MarkReported(a, job.result, job.text)
      BY <2>1, <2>2 DEF AfterAttempt
    <3>3. /\ b.lastText = job.text /\ b.initial = a.initial /\ b.responded = a.responded
          /\ b.released = a.released /\ b.hasReport = (job.result = "attempted_success")
      BY <1>2, <3>1, <3>2 DEF MarkReported, Alarm
    <3>4. shown[m] = job.text
      BY <1>1, <1>5, <2>2, <3>3 DEF XInv, OutcomeOK, Editable
    <3>. HIDE DEF b
    <3>5. ReportText(b) = ReportText(a)
      BY <3>3 DEF ReportText, Missing
    <3>. QED
      BY <3>1, <3>3, <3>4, <3>5 DEF b
  <2>3. CASE key[2] = "report_edit"
    <3>1. Editable(a) /\ key = k /\ job.text = ReportText(a)
      BY <1>1, <1>5, <2>3 DEF XInv, TextOK, AttemptPc
    <3>2. /\ job.result = op[k] /\ op[k] \in Attempted \cup {"skipped"}
          /\ job.result = "attempted_success" => shown[m] = job.text
      BY <1>1, <1>5, <2>3, <3>1 DEF XInv, OutcomeOK
    <3>3. op' = op
      BY <2>3 DEF Post
    <3>4. CASE job.result = "attempted_success"
      <4>1. b = RecordSuccessfulEdit(a, job.text)
        BY <2>1, <2>3, <3>4 DEF AfterAttempt
      <4>2. /\ b.lastText = job.text /\ b.initial = a.initial /\ b.responded = a.responded
            /\ b.released = a.released
        BY <1>2, <3>1, <4>1 DEF RecordSuccessfulEdit, Editable, Alarm
      <4>. HIDE DEF b
      <4>3. ReportText(b) = ReportText(a)
        BY <4>2 DEF ReportText, Missing
      <4>. QED
        BY <3>1, <3>2, <3>4, <4>2, <4>3 DEF b
    <3>5. CASE job.result # "attempted_success"
      <4>1. b = ClearEditDue(a)
        BY <2>1, <2>3, <3>5 DEF AfterAttempt
      <4>2. b.lastText = a.lastText /\ b.rev = a.rev
        BY <1>2, <4>1 DEF ClearEditDue, Alarm
      <4>3. a.lastText = shown[m]
        BY <3>1, <3>5 DEF XInv, ShownOK
      <4>4. op'[EKey(m, b.rev)] \in InVain
        BY <3>2, <3>3, <3>5, <4>2 DEF Attempted, InVain
      <4>. QED
        BY <4>2, <4>3, <4>4 DEF InVain
    <3>. QED
      BY <3>4, <3>5
  <2>4. CASE key[2] \in Completing
    <3>1. b = MarkCompleted(a)
      BY <2>1, <2>4 DEF AfterAttempt, Completing
    <3>. QED
      BY <1>2, <3>1 DEF MarkCompleted, IsActive, ActiveStatus, Editable, Alarm
  <2>5. CASE key[2] \notin Completing \cup {"final", "report_edit"}
    <3>1. b = a
      BY <2>1, <2>5 DEF AfterAttempt, Completing
    <3>2. op' = op
      BY <2>5 DEF Post, Completing
    <3>. QED
      BY <2>5, <3>1, <3>2 DEF XInv, ShownOK
  <2>. QED
    BY <2>2, <2>3, <2>4, <2>5
<1>. QED
  BY <1>4, <1>5

(* What the report of a session that a step leaves alone goes on showing.  *)
LEMMA ShownAsBefore ==
    ASSUME XInv, pc # "post", UNCHANGED shown, NEW m \in Message,
           KeepsReport(alarm[m], alarm'[m]), Editable(alarm'[m]),
           LET k == EKey(m, alarm[m].rev)
           IN \/ op'[k] = op[k]
              \/ op'[k] \in {"skipped", "due_not_attempted"} /\ op[k] \notin InVain
    PROVE  LET b == alarm'[m]
               edit == op'[EKey(m, b.rev)]
           IN /\ b.lastText = shown'[m]
              /\ edit = "attempted_success" => shown'[m] = ReportText(b)
              /\ b.editDue = None => shown'[m] = ReportText(b) \/ edit \in InVain
<1>. DEFINE a == alarm[m]
            b == alarm'[m]
            k == EKey(m, a.rev)
<1>1. /\ Editable(a) /\ b.lastText = a.lastText /\ ReportText(b) = ReportText(a) /\ b.rev = a.rev
      /\ b.editDue = None => a.editDue = None \/ ReportText(a) = a.lastText
  BY DEF KeepsReport, Editable
<1>2. /\ a.lastText = shown[m]
      /\ op[k] = "attempted_success" => shown[m] = ReportText(a)
      /\ a.editDue = None => shown[m] = ReportText(a) \/ op[k] \in InVain
  BY <1>1 DEF XInv, ShownOK
<1>3. \/ op'[k] = op[k]
      \/ op'[k] \in {"skipped", "due_not_attempted"} /\ op[k] \notin InVain
  OBVIOUS
<1>4. EKey(m, b.rev) = k
  BY <1>1
<1>. HIDE DEF k
<1>5. op'[k] = "attempted_success" => shown[m] = ReportText(a)
  BY <1>2, <1>3
<1>6. b.editDue = None => shown[m] = ReportText(a) \/ op'[k] \in InVain
  BY <1>1, <1>2, <1>3
<1>. QED
  BY <1>1, <1>2, <1>4, <1>5, <1>6

LEMMA ShownStep ==
    ASSUME IInv, IInv', SInv, XInv, [Next]_vars, Undisturbed
    PROVE  ShownOK'
<1>. SUFFICES ASSUME NEW m \in Message, Editable(alarm'[m])
              PROVE  LET b == alarm'[m]
                         edit == op'[EKey(m, b.rev)]
                     IN /\ \/ b.lastText = shown'[m]
                           \/ /\ pc' = "post" /\ key'[1] = m /\ key'[2] = "report_edit"
                              /\ job'.result = "attempted_success"
                        /\ edit = "attempted_success" => shown'[m] = ReportText(b)
                        /\ b.editDue = None => shown'[m] = ReportText(b) \/ edit \in InVain
  BY DEF ShownOK, Editable, EKey, ReportText, Missing
<1>. DEFINE a == alarm[m]
            b == alarm'[m]
            k == EKey(m, a.rev)
<1>1. CASE UNCHANGED <<alarm, op, pc, key, job, wire, shown>>
  BY <1>1 DEF XInv, ShownOK
<1>2. CASE Post
  <2>1. ~Succeed
    BY <1>2 DEF Post, Succeed
  <2>2. UNCHANGED shown
    BY <2>1, OnlySuccessShows
  <2>. QED
    BY <1>2, <2>2, PostShows
<1>3. CASE AttemptAction
  <2>1. pc \in AttemptPc \ {"post"} /\ UNCHANGED <<alarm, key>> /\ key \in Key
    BY <1>3 DEF AttemptAction, Claim, Issue, Blocked, Succeed, Fail, RateLimited, LoseAnswer,
                Finish, durable, IInv, JobOK, AttemptPc
  <2>2. /\ a.lastText = shown[m]
        /\ op[k] = "attempted_success" => shown[m] = ReportText(a)
        /\ a.editDue = None => shown[m] = ReportText(a) \/ op[k] \in InVain
    BY <2>1 DEF XInv, ShownOK
  <2>3. key[1] = m /\ key[2] = "report_edit" => key = k /\ job.text = ReportText(a)
    BY <2>1 DEF XInv, TextOK
  <2>4. ~(key[1] = m /\ key[2] = "final")
    BY <2>1 DEF SInv, SendOK, ForFinal, Editable
  <2>5. k \in Key /\ k[1] = m /\ k[2] = "report_edit"
    BY EditKeys DEF EKey
  <2>. HIDE DEF k
  <2>6. k # key => op'[k] = op[k]
    BY <1>3, <2>1, <2>5 DEF AttemptAction, Claim, ClaimOutgoing, Issue, Blocked, Succeed, Fail,
       RateLimited, LoseAnswer, Finish, FinishOutgoing, durable, IInv, TypeOK
  <2>7. CASE Succeed /\ key = k
    <3>1. /\ shown'[m] = job.text /\ pc' = "post" /\ job'.result = "attempted_success"
      BY <2>5, <2>7 DEF Succeed, Finish, IInv, TypeOK
    <3>. QED
      BY <2>1, <2>3, <2>5, <2>7, <3>1
  <2>8. CASE Succeed /\ key # k
    <3>1. shown'[m] = shown[m]
      BY <2>1, <2>3, <2>4, <2>8 DEF Succeed, IInv, TypeOK
    <3>. QED
      BY <2>1, <2>2, <2>6, <2>8, <3>1 DEF k
  <2>9. CASE ~Succeed
    <3>1. UNCHANGED shown
      BY <2>9, OnlySuccessShows
    <3>2. op'[k] = op[k] \/ op'[k] \in InVain \ {"attempted_success"}
      <4>1. CASE Claim \/ Issue
        BY <2>5, <4>1 DEF Claim, ClaimOutgoing, Issue, durable, InVain, IInv, TypeOK
      <4>2. CASE ~Claim /\ ~Issue
        <5>1. PICK result \in InVain : Finish(result)
          BY <1>3, <2>9, <4>2 DEF AttemptAction, Blocked, Fail, RateLimited, LoseAnswer, InVain
        <5>. QED
          BY <2>5, <2>6, <5>1 DEF Finish, FinishOutgoing, IInv, TypeOK, InVain
      <4>. QED
        BY <4>1, <4>2
    <3>. QED
      BY <2>1, <2>2, <3>1, <3>2 DEF k, InVain
  <2>. QED
    BY <2>7, <2>8, <2>9
<1>4. ASSUME pc # "post", UNCHANGED shown, KeepsReport(a, b), ~AttemptAction
      PROVE  /\ b.lastText = shown'[m]
             /\ op'[EKey(m, b.rev)] = "attempted_success" => shown'[m] = ReportText(b)
             /\ b.editDue = None => \/ shown'[m] = ReportText(b)
                                    \/ op'[EKey(m, b.rev)] \in InVain
  <2>1. k \in Key /\ k[2] = "report_edit"
    BY EditKeys DEF EKey
  <2>. HIDE DEF k
  <2>2. EditsStay \/ \E n \in Message : BeginsEdit(n)
    BY <1>4, EditsMove
  <2>3. ASSUME NEW n \in Message, BeginsEdit(n)
        PROVE  \/ op'[k] = op[k]
               \/ op'[k] = "due_not_attempted" /\ op[k] \notin InVain
    BY <2>1, <2>3 DEF BeginsEdit, PrepareOutgoing, IInv, TypeOK, InVain
  <2>4. \/ op'[k] = op[k]
        \/ op'[k] \in {"skipped", "due_not_attempted"} /\ op[k] \notin InVain
    BY <2>1, <2>2, <2>3 DEF EditsStay, NotAttempted, InVain
  <2>. QED
    BY <1>4, <2>4, ShownAsBefore DEF k
<1>5. CASE ReactionApply \/ CheckReplay
  <2>1. ~AttemptAction /\ pc # "post" /\ UNCHANGED <<op, shown>>
    BY <1>5 DEF ReactionApply, CheckReplay, AttemptAction, Claim, Issue, Blocked, Succeed,
                Fail, RateLimited, LoseAnswer, ghosts
  <2>2. EditsOK
    BY DEF XInv
  <2>3. CASE m # job.m
    <3>1. b = a
      BY <1>5, <2>2, <2>3, RevisionsFollow
    <3>. QED
      BY <1>4, <2>1, <3>1, EditKeys, RowKept
  <2>4. CASE m = job.m
    <3>1. /\ b.status = a.status /\ b.hasReport = a.hasReport /\ b.lastText = a.lastText
          /\ \/ KeepsReport(a, b)
             \/ /\ op[EKey(m, b.rev)] = "absent"
                /\ Editable(b) => b.editDue # None
      BY <1>5, <2>2, <2>4, RevisionsFollow
    <3>2. a.lastText = shown[m]
      BY <2>1, <3>1 DEF Editable, XInv, ShownOK
    <3>. QED
      BY <1>4, <2>1, <3>1, <3>2
  <2>. QED
    BY <2>3, <2>4
<1>6. CASE ~Post /\ ~AttemptAction /\ ~ReactionApply /\ ~CheckReplay
           /\ ~UNCHANGED <<alarm, op, pc, key, job, wire, shown>>
  <2>1. pc # "post"
    BY <1>6, InAttempt DEF AttemptStep, AttemptAction
  <2>2. UNCHANGED shown
    BY <1>6, OnlySuccessShows DEF AttemptAction
  <2>3. KeepsReport(a, b)
    BY <1>6, ReportsKept
  <2>. QED
    BY <1>4, <1>6, <2>1, <2>2, <2>3
<1>. QED
  BY <1>1, <1>2, <1>3, <1>5, <1>6

(* A report that is still to be sent has no message. *)
UnsentOK == \A m \in Message : alarm[m].status = "pending" => ~alarm[m].hasReport

LEMMA UnsentStep ==
    ASSUME IInv, UnsentOK, [Next]_vars
    PROVE  UnsentOK'
<1>. SUFFICES ASSUME NEW m \in Message, alarm'[m].status = "pending"
              PROVE  ~alarm'[m].hasReport
  BY DEF UnsentOK
<1>1. CASE alarm[m].status = "pending"
  <2>1. CASE IntakeTrigger \/ CheckAdopt
    <3>1. alarm[job.m].status = "none"
      BY <2>1 DEF IntakeTrigger, Starts, CheckAdopt, IInv, JobOK
    <3>2. m # job.m
      BY <1>1, <3>1
    <3>3. alarm'[m] = alarm[m]
      BY <2>1, <3>2 DEF IntakeTrigger, CheckAdopt, Create, IInv, TypeOK
    <3>. QED
      BY <1>1, <3>3 DEF UnsentOK
  <2>2. CASE SameMissing \/ ReactionApply \/ CheckReplay
    <3>1. alarm'[m].hasReport = alarm[m].hasReport
      BY <2>2, AppliedSame DEF SameMissing, SameSession, RowsSame, SameRow
    <3>. QED
      BY <1>1, <3>1 DEF UnsentOK
  <2>. QED
    BY <2>1, <2>2, OthersKeepMissing DEF Changing
<1>2. CASE alarm[m].status # "pending"
  <2>1. m = job.m /\ (IntakeTrigger \/ CheckAdopt)
    BY <1>2, PendingBefore
  <2>2. PICK source, trk, file : Create(job.m, source, trk, file)
    BY <2>1 DEF IntakeTrigger, CheckAdopt
  <2>. QED
    BY <2>1, <2>2 DEF Create, InsertedAlarm, NoAlarm, IInv, TypeOK
<1>. QED
  BY <1>1, <1>2

(* In a process that neither dies nor has a pass fail, the report message  *)
(* shows what its session says, unless an edit is scheduled or the edit of *)
(* this revision was attempted in vain.                                    *)
THEOREM ReportsNotSilentlyStale ==
    ASSUME MaxFailures = 0
    PROVE  Spec => []ReportNeverSilentlyStale
<1>1. Init => XInv
  <2>. SUFFICES ASSUME Init PROVE XInv
    OBVIOUS
  <2>1. /\ pc = "free"
        /\ \A m \in Message : ~Editable(alarm[m]) /\ alarm[m].status # "pending"
        /\ \A k \in Key : op[k] = "absent"
    BY DEF Init, NoAlarm, Editable
  <2>2. \A m \in Message, r \in 0 .. MaxRev : EKey(m, r) \in Key
    BY InitIInv, EditKeys
  <2>. QED
    BY <2>1, <2>2 DEF XInv, ReportOK, EditsOK, TextOK, OutcomeOK, ShownOK, AttemptPc
<1>2. IInv /\ IInv' /\ SInv /\ XInv /\ [Next]_vars => XInv'
  BY NoFailureLeft, ReportStep, EditsStep, TextStep, OutcomeStep, ShownStep DEF XInv
<1>3. Init => UnsentOK
  BY DEF Init, NoAlarm, UnsentOK
<1>4. IInv /\ UnsentOK /\ [Next]_vars => UnsentOK'
  BY UnsentStep
<1>5. XInv /\ UnsentOK => ReportNeverSilentlyStale
  <2>. SUFFICES ASSUME XInv, UnsentOK, NEW m \in Message, pc = "free", OwnActive(m),
                       alarm[m].hasReport, alarm[m].editDue = None
                PROVE  \/ shown[m] = ReportText(alarm[m])
                       \/ op[EKey(m, alarm[m].rev)] \in InVain
    BY DEF ReportNeverSilentlyStale, EKey, InVain
  <2>1. Editable(alarm[m])
    BY DEF UnsentOK, Editable, OwnActive, IsActive, ActiveStatus
  <2>. QED
    BY <2>1 DEF XInv, ShownOK
<1>. QED
  BY <1>1, <1>2, <1>3, <1>4, <1>5, Inductive, SessionsInductive, PTL DEF Spec

-----------------------------------------------------------------------------
(* Deadlines.                                                              *)

Timely(a, t) == \A p \in Member : a.last[p] <= t
SentBy(t) == \A e \in job.todo : e.ts <= t

(* The members a report names are those missing at its snapshot.           *)
Unsnapped(a) == a.status = "pending" /\ ~a.snapped

(* A session whose intermediate report can still go out.                   *)
Waiting(m) ==
    IntermediateEnabled /\ alarm[m].status = "pending" /\ op[IKey(m)] \in NotAttempted

(* A job that is to apply its reaction next, or after an evaluation.       *)
Applying == pc = "apply" \/ (pc \in Working /\ job.back = "apply")
Attempting(kinds) == pc \in AttemptPc /\ key[2] \in kinds

(* Without skew no reaction is from the future.                            *)
FreshOK == (\A s \in seen : s.ts <= now) /\ SentBy(job.now)

(* /check has nothing left to replay but what was sent before its session  *)
(* began.                                                                  *)
ReplayOK ==
    pc = "replay" =>
        \A s \in job.todo : s.reactor \in alarm[job.m].released
            => s.ts <= alarm[job.m].last[s.reactor] \/ s.ts <= alarm[job.m].trk

(* What is counted before the snapshot was sent by the final deadline; a   *)
(* reaction sent later is applied after the report, or not at all.         *)
FinalOK ==
    /\ \A m \in Message : Unsnapped(alarm[m]) => Timely(alarm[m], FinalAt(alarm[m]))
    /\ Applying /\ Unsnapped(alarm[job.m]) =>
          SentBy(FinalAt(alarm[job.m])) \/ ForFinal \/ Attempting(Completing)

(* The same for the intermediate report, which the final deadline ends.    *)
IntermediateOK ==
    /\ \A m \in Message : Waiting(m) =>
          Timely(alarm[m], IntermediateAt(alarm[m])) \/ FinalAt(alarm[m]) <= JobTime
    /\ Applying /\ Waiting(job.m) =>
          \/ SentBy(IntermediateAt(alarm[job.m])) \/ FinalAt(alarm[job.m]) <= job.now
          \/ Attempting(Completing \cup {"intermediate"})

(* The intermediate report is claimed while it waits.                      *)
ClaimOK ==
    Attempting({"intermediate"}) =>
        /\ IntermediateEnabled
        /\ pc = "claim" => op[key] \notin {"absent", "not_due"}
        /\ pc # "claim" => op[key] \notin NotAttempted
        /\ pc = "issue" => Timely(alarm[key[1]], IntermediateAt(alarm[key[1]]))

DInv == started = 0 /\ FreshOK /\ ReplayOK /\ FinalOK /\ IntermediateOK /\ ClaimOK

-----------------------------------------------------------------------------
(* A job that goes on decides by the time at which it began.               *)
LEMMA JobClock ==
    ASSUME IInv, [Next]_vars, pc' # "free"
    PROVE  job'.now = JobTime
<1>1. job \in Job
  BY DEF IInv, TypeOK, Job
<1>2. job.back \in Resting /\ "free" \in Resting
  BY <1>1 DEF Job, Resting
<1>. USE DEF JobTime
<1>3. CASE Call
  <2>1. CASE \E e \in Reaction : ReactionIgnored(e)
    BY <2>1 DEF ReactionIgnored
  <2>2. CASE ~\E e \in Reaction : ReactionIgnored(e)
    BY <1>3, <2>2 DEF Call, TickBegin, MessageBegin, ReactionBegin, CheckLatest,
                      CheckText, CheckBegin, Begin, Release, Idle
  <2>. QED
    BY <2>1, <2>2
<1>4. ASSUME NEW back, Return(back)
      PROVE  job'.now = job.now
  BY <1>1, <1>4 DEF Return, Release, Job
<1>5. ASSUME NEW k, NEW text, NEW back, Attempt(k, text, back)
      PROVE  job'.now = job.now
  BY <1>1, <1>5 DEF Attempt, Job
<1>6. ASSUME NEW m, NEW back, \/ Complete(m, back) \/ ProcessIntermediate(m, back)
                              \/ ProcessFinal(m, back) \/ ProcessEdit(m, back)
      PROVE  job'.now = job.now
  BY <1>1, <1>4, <1>5, <1>6 DEF Complete, ProcessIntermediate, ProcessFinal, ProcessEdit, Job
<1>7. CASE SnapshotFinal \/ MarkFinalDue \/ AttemptStep
  BY <1>1, <1>4, <1>5, <1>6, <1>7 DEF SnapshotFinal, MarkFinalDue, AttemptStep, Claim, Issue,
     Blocked, Succeed, Fail, RateLimited, LoseAnswer, Finish, Post, Goto, Job, AttemptPc
<1>8. CASE TickRun \/ MessageRun
  BY <1>4, <1>5, <1>6, <1>8 DEF TickRun, TickComplete, TickIntermediate, TickFinal, TickEdit,
     TickEnd, MessageRun, IntakeIgnored, IntakeTrigger, HostReaction, Settle, Goto, Release
<1>9. CASE ReactionRun \/ CheckRun
  BY <1>1, <1>5, <1>6, <1>9 DEF ReactionRun, ReactionLate, ReactionApply, ReactionAfter,
     CheckRun, CheckAdopt, CheckReplay, CheckReplayed, CheckEvaluate, Goto, Release, Job
<1>10. CASE ClockTick \/ CommandTripsBreaker \/ TickFails \/ Crash \/ UNCHANGED vars
  BY <1>10 DEF ClockTick, CommandTripsBreaker, TickFails, Crash, Release, vars
<1>. QED
  BY <1>3, <1>7, <1>8, <1>9, <1>10 DEF Next, JobStep

LEMMA ClockAdvances ==
    ASSUME IInv, SInv, [Next]_vars
    PROVE  JobTime <= JobTime' /\ JobTime \in Nat /\ JobTime' \in Nat
<1>1. /\ now \in Nat /\ now' \in Nat /\ now <= now' /\ job.now \in Nat /\ job.now <= now
  BY TimeAdvances, StepPreserves, RowTypes DEF IInv, TypeOK, SInv, SubjectOK
<1>2. JobTime \in Nat /\ JobTime <= now'
  BY <1>1 DEF JobTime
<1>3. JobTime' = IF pc' = "free" THEN now' ELSE job'.now
  BY DEF JobTime
<1>4. pc' # "free" => job'.now = JobTime
  BY JobClock
<1>. QED
  BY <1>1, <1>2, <1>3, <1>4

(* Where the reactions of a list come from. *)
LEMMA ListsFollow ==
    ASSUME IInv, [Next]_vars
    PROVE  /\ \A s \in seen' \ seen : s.ts <= now + Skew
           /\ \/ UNCHANGED job
              \/ job'.todo = {}
              \/ pc' # "free" /\ job'.todo \subseteq job.todo
              \/ /\ pc = "free" /\ job'.now = now
                 /\ \A s \in job'.todo : s \in seen \/ s.ts <= now + Skew
<1>1. job \in Job /\ job.back \in Resting /\ "free" \in Resting
  BY DEF IInv, TypeOK, Job, Resting
<1>2. ASSUME NEW back, Return(back)
      PROVE  job'.todo = {} \/ (pc' # "free" /\ job'.todo \subseteq job.todo)
  <2>1. CASE back = "free"
    BY <1>2, <2>1 DEF Return, Release, Idle
  <2>2. CASE back # "free"
    <3>1. pc' = back /\ job'.todo = job.todo
      BY <1>1, <1>2, <2>2 DEF Return, Job
    <3>. QED
      BY <2>2, <3>1
  <2>. QED
    BY <2>1, <2>2
<1>3. ASSUME NEW k, NEW text, NEW back, Attempt(k, text, back)
      PROVE  pc' # "free" /\ job'.todo \subseteq job.todo
  BY <1>1, <1>3 DEF Attempt, Job
<1>4. ASSUME NEW m, NEW back, \/ Complete(m, back) \/ ProcessIntermediate(m, back)
                              \/ ProcessFinal(m, back) \/ ProcessEdit(m, back)
      PROVE  job'.todo = {} \/ (pc' # "free" /\ job'.todo \subseteq job.todo)
  BY <1>1, <1>2, <1>3, <1>4 DEF Complete, ProcessIntermediate, ProcessFinal, ProcessEdit, Job
<1>5. ASSUME Release PROVE job'.todo = {}
  BY <1>5 DEF Release, Idle
<1>6. ASSUME JobStep
      PROVE  \/ UNCHANGED job
             \/ job'.todo = {} \/ (pc' # "free" /\ job'.todo \subseteq job.todo)
  <2>1. CASE SnapshotFinal \/ MarkFinalDue \/ AttemptStep
    BY <1>1, <1>2, <1>3, <1>4, <2>1 DEF SnapshotFinal, MarkFinalDue, AttemptStep, Claim, Issue,
       Blocked, Succeed, Fail, RateLimited, LoseAnswer, Finish, Post, Goto, Job, AttemptPc
  <2>2. CASE TickRun \/ MessageRun
    BY <1>2, <1>3, <1>4, <1>5, <2>2 DEF TickRun, TickComplete, TickIntermediate, TickFinal,
       TickEdit, TickEnd, MessageRun, IntakeIgnored, IntakeTrigger, HostReaction, Settle, Goto
  <2>3. CASE ReactionRun \/ CheckRun
    BY <1>1, <1>3, <1>4, <1>5, <2>3 DEF ReactionRun, ReactionLate, ReactionApply, ReactionAfter,
       CheckRun, CheckAdopt, CheckReplay, CheckReplayed, CheckEvaluate, Goto, Job
  <2>. QED
    BY <1>6, <2>1, <2>2, <2>3 DEF JobStep
<1>7. ASSUME JobStep PROVE seen' \subseteq seen
  BY <1>7 DEF RetainedReactions, Cleanup,
     JobStep, SnapshotFinal, MarkFinalDue, AttemptStep, Claim, Issue, Blocked, Succeed, Fail,
     RateLimited, LoseAnswer, Finish, Post, TickRun, TickComplete, TickIntermediate, TickFinal,
     TickEdit, TickEnd, MessageRun, IntakeIgnored, IntakeTrigger, HostReaction, Settle,
     ReactionRun, ReactionLate, ReactionApply, ReactionAfter, CheckRun, CheckAdopt,
     CheckReplay, CheckReplayed, CheckEvaluate, rest, durable
<1>8. ASSUME NEW found, NEW replays, CheckBegin(found, replays)
      PROVE  /\ seen' \subseteq seen
             /\ \/ job'.todo = {}
                \/ pc = "free" /\ job'.now = now /\ job'.todo \subseteq seen
  <2>1. seen' \subseteq seen /\ pc = "free"
    BY <1>8 DEF CheckBegin, RetainedReactions
  <2>2. CASE Release
    BY <1>5, <2>1, <2>2
  <2>3. CASE ~Release
    <3>1. PICK m : Begin("check", CheckPc(m, replays), m,
                         {s \in seen : s.msg = m /\ CheckPc(m, replays) # "evaluate"})
      BY <1>8, <2>3 DEF CheckBegin
    <3>2. job'.now = now /\ job'.todo \subseteq seen
      BY <3>1 DEF Begin, Idle
    <3>. QED
      BY <2>1, <3>2
  <2>. QED
    BY <2>2, <2>3
<1>9. ASSUME NEW e \in Reaction, Observe(e), e.ts <= now + Skew
      PROVE  \A s \in seen' \ seen : s.ts <= now + Skew
  BY <1>9 DEF Observe, Row
<1>10. ASSUME NEW e \in Reaction, ReactionBegin(e)
      PROVE  /\ pc = "free" /\ job'.now = now
             /\ \A s \in job'.todo : s.ts <= now + Skew
  BY <1>10 DEF ReactionBegin, Begin, Idle, Row
<1>11. CASE Call
  <2>1. CASE TickBegin \/ \E m \in Message : MessageBegin(m)
    BY <2>1 DEF TickBegin, MessageBegin, Begin, Idle, rest
  <2>2. ASSUME NEW e \in Reaction, ReactionBegin(e) \/ ReactionIgnored(e)
        PROVE  /\ \A s \in seen' \ seen : s.ts <= now + Skew
               /\ \/ UNCHANGED job
                  \/ /\ pc = "free" /\ job'.now = now
                     /\ \A s \in job'.todo : s \in seen \/ s.ts <= now + Skew
    BY <1>9, <1>10, <2>2 DEF ReactionBegin, ReactionIgnored
  <2>3. CASE CheckLatest \/ \E class : CheckText(class)
    BY <1>8, <2>3 DEF CheckLatest, CheckText
  <2>. QED
    BY <1>11, <2>1, <2>2, <2>3 DEF Call
<1>12. CASE ClockTick \/ CommandTripsBreaker \/ TickFails \/ UNCHANGED vars
  BY <1>5, <1>12 DEF ClockTick, CommandTripsBreaker, TickFails, durable, vars
<1>13. CASE Crash
  <2>1. job'.todo = {}
    BY <1>5, <1>13 DEF Crash
  <2>2. \/ seen' \subseteq seen
        \/ \E e \in Reaction : e.ts <= now + Skew /\ Observe(e)
    BY <1>13 DEF Crash, FirstCommit, Cleanup, RetainedReactions, durable
  <2>. QED
    BY <1>9, <2>1, <2>2
<1>. QED
  BY <1>6, <1>7, <1>11, <1>12, <1>13 DEF Next

LEMMA FreshStep ==
    ASSUME IInv, IInv', SInv, FreshOK, Skew = 0, [Next]_vars
    PROVE  FreshOK'
<1>1. /\ now \in Nat /\ now' \in Nat /\ now <= now' /\ now + Skew = now
      /\ job.now \in Nat /\ job.now <= now /\ JobTime \in Nat /\ job.now <= JobTime
  BY TimeAdvances, RowTypes DEF IInv, TypeOK, SInv, SubjectOK, JobTime
<1>2. \A s \in seen \cup job.todo \cup seen' \cup job'.todo : s.ts \in Nat
  <2>1. \A s \in seen' \cup job'.todo : s \in Seen
    BY DEF IInv, TypeOK
  <2>2. \A s \in Seen : s.ts \in Nat
    BY InputAssumption DEF Seen, InputAssumption
  <2>. QED
    BY <2>1, <2>2, RowTypes
<1>3. ASSUME NEW s \in seen' PROVE s.ts <= now'
  <2>1. s.ts <= now
    BY <1>1, ListsFollow DEF FreshOK
  <2>. QED
    BY <1>1, <1>2, <2>1
<1>4. ASSUME NEW s \in job'.todo PROVE s.ts <= job'.now
  <2>1. CASE UNCHANGED job
    BY <2>1, <1>4 DEF FreshOK, SentBy
  <2>2. CASE pc' # "free" /\ job'.todo \subseteq job.todo
    <3>1. s.ts <= job.now /\ job'.now = JobTime
      BY <2>2, JobClock DEF FreshOK, SentBy
    <3>. QED
      BY <1>1, <1>2, <3>1
  <2>3. CASE /\ pc = "free" /\ job'.now = now
             /\ \A r \in job'.todo : r \in seen \/ r.ts <= now + Skew
    BY <1>1, <2>3 DEF FreshOK
  <2>. QED
    BY <2>1, <2>2, <2>3, ListsFollow
<1>. QED
  BY <1>3, <1>4 DEF FreshOK, SentBy

(* Rows.                                                                   *)
LEMMA BoundTypes ==
    ASSUME IInv, NEW m \in Message
    PROVE  /\ FinalAt(alarm[m]) \in Nat /\ IntermediateAt(alarm[m]) \in Nat
           /\ alarm[m].trk <= FinalAt(alarm[m]) /\ alarm[m].trk <= IntermediateAt(alarm[m])
           /\ \A p \in Member : alarm[m].last[p] \in Nat \cup {-1}
<1>1. alarm[m].trk \in Nat /\ {IntermediateAfter, FinalAfter} \subseteq Nat
  BY RowTypes, RowAssumption DEF RowAssumption
<1>2. FinalAt(alarm[m]) = alarm[m].trk + FinalAfter
      /\ IntermediateAt(alarm[m]) = alarm[m].trk + IntermediateAfter
  BY DEF FinalAt, IntermediateAt
<1>. QED
  BY <1>1, <1>2, RowTypes

LEMMA AppliedInTime ==
    ASSUME IInv, NEW a \in Alarm, NEW e \in Seen, NEW t, NEW u \in Nat, Timely(a, u),
           e.reactor \in a.released => e.ts <= a.last[e.reactor] \/ e.ts <= u
    PROVE  Timely(ApplyReaction(a, e, t), u)
<1>1. /\ e.reactor \in Member /\ e.ts \in Nat
      /\ a.last \in [Member -> Nat \cup {-1}]
      /\ \A p \in Member : a.last[p] \in Nat \cup {-1}
  <2>1. a.last \in [Member -> Nat \cup {-1}]
    BY DEF Alarm, None
  <2>. QED
    BY <2>1 DEF Seen
<1>2. CASE ~Accepts(a, e)
  BY <1>2 DEF ApplyReaction
<1>3. CASE Accepts(a, e)
  <2>. DEFINE b == ApplyReaction(a, e, t)
  <2>1. b.last = [a.last EXCEPT ![e.reactor] = e.ts]
    BY <1>3 DEF ApplyReaction, Alarm
  <2>. HIDE DEF b
  <2>2. e.reactor \in a.released /\ e.ts > a.last[e.reactor]
    BY <1>3 DEF Accepts
  <2>3. e.ts <= u
    BY <1>1, <2>2
  <2>4. \A p \in Member : b.last[p] <= u
    BY <1>1, <2>1, <2>3 DEF Timely
  <2>. QED
    BY <2>4 DEF Timely, b
<1>. QED
  BY <1>2, <1>3

(* A session that is pending was so before, with the same deadlines, and   *)
(* is not less reported on than it was; or it is a new one.                *)
LEMMA PendingKept ==
    ASSUME IInv, [Next]_vars, NEW m \in Message, alarm'[m].status = "pending"
    PROVE  \/ /\ alarm[m].status = "pending" /\ alarm'[m].trk = alarm[m].trk
              /\ alarm[m].snapped => alarm'[m].snapped
              /\ FinalAt(alarm'[m]) = FinalAt(alarm[m])
              /\ IntermediateAt(alarm'[m]) = IntermediateAt(alarm[m])
           \/ /\ m = job.m /\ alarm[m].status = "none" /\ (IntakeTrigger \/ CheckAdopt)
              /\ \A p \in Member : alarm'[m].last[p] = -1
<1>1. CASE alarm[m].status = "pending"
  <2>1. CASE IntakeTrigger \/ CheckAdopt
    <3>1. alarm[job.m].status = "none"
      BY <2>1 DEF IntakeTrigger, Starts, CheckAdopt, IInv, JobOK
    <3>2. m # job.m
      BY <1>1, <3>1
    <3>3. alarm'[m] = alarm[m]
      BY <2>1, <3>2 DEF IntakeTrigger, CheckAdopt, Create, IInv, TypeOK
    <3>. QED
      BY <1>1, <3>3
  <2>2. CASE SameMissing
    BY <1>1, <2>2 DEF SameMissing, SameSession, FinalAt, IntermediateAt
  <2>3. CASE ReactionApply \/ CheckReplay
    <3>1. PICK e \in job.todo :
            alarm' = [alarm EXCEPT ![job.m] = ApplyReaction(alarm[job.m], e, job.now)]
      BY <2>3 DEF ReactionApply, CheckReplay
    <3>2. alarm[m] \in Alarm
      BY DEF IInv, TypeOK
    <3>3. alarm'[m] = alarm[m] \/ alarm'[m] = ApplyReaction(alarm[m], e, job.now)
      BY <3>1 DEF IInv, TypeOK
    <3>4. alarm'[m].trk = alarm[m].trk /\ alarm'[m].snapped = alarm[m].snapped
      BY <3>2, <3>3 DEF ApplyReaction, Alarm
    <3>. QED
      BY <1>1, <3>4 DEF FinalAt, IntermediateAt
  <2>. QED
    BY <2>1, <2>2, <2>3, OthersKeepMissing DEF Changing
<1>2. CASE alarm[m].status # "pending"
  <2>1. m = job.m /\ alarm[m].status = "none" /\ (IntakeTrigger \/ CheckAdopt)
    BY <1>2, PendingBefore
  <2>2. PICK source, trk, file : Create(job.m, source, trk, file)
    BY <2>1 DEF IntakeTrigger, CheckAdopt
  <2>3. PICK status, released : alarm'[m] = InsertedAlarm(status, source, trk, released)
    BY <2>1, <2>2 DEF Create, IInv, TypeOK
  <2>4. \A p \in Member : alarm'[m].last[p] = -1
    BY <2>3 DEF InsertedAlarm, NoAlarm, None
  <2>. QED
    BY <2>1, <2>4
<1>. QED
  BY <1>1, <1>2

(* What is counted in time stays so, if what is applied was sent in time.  *)
LEMMA TimelyStep ==
    ASSUME IInv, [Next]_vars, NEW m \in Message, NEW u \in Nat, alarm'[m].status = "pending",
           alarm[m].status = "pending" => Timely(alarm[m], u),
           alarm[m].status = "pending" /\ m = job.m /\ pc \in {"apply", "replay"} =>
               \A e \in job.todo : e.reactor \in alarm[m].released
                   => e.ts <= alarm[m].last[e.reactor] \/ e.ts <= u
    PROVE  Timely(alarm'[m], u)
<1>1. CASE alarm[m].status # "pending"
  <2>1. \A p \in Member : alarm'[m].last[p] = -1
    BY <1>1, PendingKept
  <2>2. -1 <= u
    OBVIOUS
  <2>. QED
    BY <2>1, <2>2 DEF Timely
<1>2. CASE alarm[m].status = "pending" /\ (IntakeTrigger \/ CheckAdopt)
  <2>1. alarm[job.m].status = "none"
    BY <1>2 DEF IntakeTrigger, Starts, CheckAdopt, IInv, JobOK
  <2>2. m # job.m
    BY <1>2, <2>1
  <2>3. alarm'[m] = alarm[m]
    BY <1>2, <2>2 DEF IntakeTrigger, CheckAdopt, Create, IInv, TypeOK
  <2>. QED
    BY <1>2, <2>3
<1>3. CASE alarm[m].status = "pending" /\ SameMissing
  BY <1>3 DEF SameMissing, SameSession, Timely
<1>4. CASE alarm[m].status = "pending" /\ (ReactionApply \/ CheckReplay)
  <2>1. PICK e \in job.todo :
          alarm' = [alarm EXCEPT ![job.m] = ApplyReaction(alarm[job.m], e, job.now)]
    BY <1>4 DEF ReactionApply, CheckReplay
  <2>2. pc \in {"apply", "replay"} /\ alarm[m] \in Alarm /\ e \in Seen
    BY <1>4, RowTypes DEF ReactionApply, CheckReplay
  <2>3. CASE m # job.m
    <3>1. alarm'[m] = alarm[m]
      BY <2>1, <2>3 DEF IInv, TypeOK
    <3>. QED
      BY <1>4, <3>1
  <2>4. CASE m = job.m
    <3>1. alarm'[m] = ApplyReaction(alarm[m], e, job.now)
      BY <2>1, <2>4 DEF IInv, TypeOK
    <3>. QED
      BY <1>4, <2>2, <2>4, <3>1, AppliedInTime
  <2>. QED
    BY <2>3, <2>4
<1>. QED
  BY <1>1, <1>2, <1>3, <1>4, OthersKeepMissing DEF Changing

(* A job that is to apply its reaction has found out whether a report goes *)
(* first, or has been at it since.                                         *)
LEMMA ApplyingFollows ==
    ASSUME IInv, [Next]_vars, Applying'
    PROVE  /\ job'.m = job.m /\ job'.todo = job.todo /\ job'.now = job.now /\ pc # "free"
           /\ \/ UNCHANGED <<pc, key, job, alarm, op>> /\ Applying
              \/ ReactionLate
              \/ Applying /\ (AttemptAction \/ SnapshotFinal \/ MarkFinalDue \/ Post)
<1>1. job \in Job /\ {"free", "select", "settle"} \subseteq Resting /\ job.back \in Resting
  BY DEF IInv, TypeOK, Job, Resting
<1>2. pc' \notin {"free", "select", "settle", "intake", "host", "late", "after", "adopt", "replay",
                  "evaluate"}
  BY DEF Applying, Working, AttemptPc
<1>3. ASSUME NEW m, NEW back \in {"free", "select", "settle"},
             \/ Complete(m, back) \/ ProcessIntermediate(m, back)
             \/ ProcessFinal(m, back) \/ ProcessEdit(m, back)
      PROVE  FALSE
  <2>1. ~Return(back)
    BY <1>2 DEF Return, Release
  <2>2. job'.back = back /\ pc' # "apply"
    BY <1>1, <1>3, <2>1 DEF Complete, ProcessIntermediate, ProcessFinal, ProcessEdit, Attempt, Job
  <2>. QED
    BY <2>2 DEF Applying
<1>4. ASSUME NEW k, NEW text, NEW back \in {"free", "select", "settle"}, Attempt(k, text, back)
      PROVE  FALSE
  <2>1. job'.back = back
    BY <1>1, <1>4 DEF Attempt, Job
  <2>. QED
    BY <1>2, <1>4, <2>1 DEF Applying, Attempt
<1>5. CASE Call
  <2>1. ~\E e \in Reaction : ReactionIgnored(e)
    BY <1>2 DEF ReactionIgnored
  <2>. QED
    BY <1>2, <1>5, <2>1 DEF Call, TickBegin, MessageBegin, ReactionBegin, CheckLatest, CheckText,
       CheckBegin, CheckPc, Begin, Release, Idle, Applying, Working, AttemptPc
<1>6. CASE TickRun \/ MessageRun
  BY <1>2, <1>3, <1>4, <1>6 DEF TickRun, TickComplete, TickIntermediate, TickFinal, TickEdit,
     TickEnd, MessageRun, IntakeIgnored, IntakeTrigger, HostReaction, Settle, Goto, Release
<1>7. CASE ReactionRun
  <2>1. ~ReactionApply /\ ~ReactionAfter
    BY <1>2, <1>3 DEF ReactionApply, ReactionAfter, Release
  <2>2. ReactionLate
    BY <1>7, <2>1 DEF ReactionRun
  <2>3. pc = "late" /\ job'.m = job.m /\ job'.todo = job.todo /\ job'.now = job.now
    <3>1. ASSUME Return("apply")
          PROVE  job'.m = job.m /\ job'.todo = job.todo /\ job'.now = job.now
      BY <1>1, <3>1 DEF Return, Job
    <3>2. ASSUME NEW k, NEW text, Attempt(k, text, "apply"), k[1] = job.m
          PROVE  job'.m = job.m /\ job'.todo = job.todo /\ job'.now = job.now
      BY <1>1, <3>2 DEF Attempt, Job
    <3>3. ASSUME Complete(job.m, "apply")
          PROVE  job'.m = job.m /\ job'.todo = job.todo /\ job'.now = job.now
      BY <1>1, <3>2, <3>3 DEF Complete, Job
    <3>4. ASSUME ProcessIntermediate(job.m, "apply")
          PROVE  job'.m = job.m /\ job'.todo = job.todo /\ job'.now = job.now
      BY <3>1, <3>2, <3>3, <3>4 DEF ProcessIntermediate
    <3>5. ASSUME ProcessFinal(job.m, "apply")
          PROVE  job'.m = job.m /\ job'.todo = job.todo /\ job'.now = job.now
      BY <1>1, <3>5 DEF ProcessFinal, Job
    <3>6. \/ ProcessFinal(job.m, "apply") \/ ProcessIntermediate(job.m, "apply")
          \/ Goto("apply")
      BY <1>2, <2>2 DEF ReactionLate, Release
    <3>7. pc = "late"
      BY <2>2 DEF ReactionLate
    <3>. QED
      BY <3>4, <3>5, <3>6, <3>7 DEF Goto
  <2>. QED
    BY <2>2, <2>3
<1>8. CASE CheckRun
  BY <1>2, <1>3, <1>4, <1>8 DEF CheckRun, CheckAdopt, CheckReplay, CheckReplayed, CheckEvaluate,
     Goto, Release
<1>9. CASE AttemptAction
  <2>1. /\ pc \in AttemptPc /\ pc' \in AttemptPc
        /\ job'.m = job.m /\ job'.todo = job.todo /\ job'.now = job.now /\ job'.back = job.back
    BY <1>1, <1>9 DEF AttemptAction, Claim, Issue, Blocked, Succeed, Fail, RateLimited, LoseAnswer,
       Finish, AttemptPc, Job
  <2>2. job'.back = "apply"
    BY <2>1 DEF Applying, AttemptPc
  <2>. QED
    BY <1>9, <2>1, <2>2 DEF Applying, Working, AttemptPc
<1>10. CASE SnapshotFinal \/ MarkFinalDue
  <2>1. pc \in {"snapshot", "due"}
    BY <1>10 DEF SnapshotFinal, MarkFinalDue
  <2>2. /\ job'.m = job.m /\ job'.todo = job.todo /\ job'.now = job.now /\ job'.back = job.back
        /\ pc' # "apply"
    <3>1. ASSUME NEW k, NEW text, Attempt(k, text, job.back), k[1] = job.m
          PROVE  /\ job'.m = job.m /\ job'.todo = job.todo /\ job'.now = job.now
                 /\ job'.back = job.back /\ pc' # "apply"
      BY <1>1, <3>1 DEF Attempt, Job
    <3>2. ASSUME Complete(job.m, job.back)
          PROVE  /\ job'.m = job.m /\ job'.todo = job.todo /\ job'.now = job.now
                 /\ job'.back = job.back /\ pc' # "apply"
      BY <1>1, <3>1, <3>2 DEF Complete, Job
    <3>. QED
      BY <1>10, <3>1, <3>2 DEF SnapshotFinal, MarkFinalDue, Goto
  <2>. QED
    BY <1>10, <2>1, <2>2 DEF Applying, Working
<1>11. CASE Post
  <2>1. pc = "post" /\ Return(job.back)
    BY <1>11 DEF Post
  <2>2. job.back = "apply"
    BY <1>1, <2>1 DEF Return, Release, Applying, Working, AttemptPc, Resting
  <2>3. job'.m = job.m /\ job'.todo = job.todo /\ job'.now = job.now
    BY <1>1, <2>1, <2>2 DEF Return, Job
  <2>. QED
    BY <1>11, <2>1, <2>2, <2>3 DEF Applying, Working, AttemptPc
<1>12. CASE ClockTick \/ CommandTripsBreaker \/ UNCHANGED vars
  <2>1. UNCHANGED <<pc, key, job, alarm, op>>
    BY <1>12 DEF ClockTick, CommandTripsBreaker, vars, durable
  <2>. QED
    BY <2>1 DEF Applying, Working, AttemptPc
<1>13. CASE TickFails \/ Crash
  BY <1>2, <1>13 DEF TickFails, Crash, Release
<1>. QED
  BY <1>5, <1>6, <1>7, <1>8, <1>9, <1>10, <1>11, <1>12, <1>13
     DEF Next, JobStep, AttemptStep, AttemptAction

(* The final report: what its snapshot is taken of.                        *)
LEMMA FinalStep ==
    ASSUME IInv, IInv', SInv, CallOK, FreshOK, ReplayOK, FinalOK, [Next]_vars
    PROVE  FinalOK'
<1>1. ASSUME NEW m \in Message, Unsnapped(alarm'[m]) PROVE Timely(alarm'[m], FinalAt(alarm'[m]))
  <2>1. alarm'[m].status = "pending" /\ ~alarm'[m].snapped
    BY <1>1 DEF Unsnapped
  <2>2. CASE alarm[m].status # "pending"
    <3>1. \A p \in Member : alarm'[m].last[p] = -1
      BY <2>1, <2>2, PendingKept
    <3>2. FinalAt(alarm'[m]) \in Nat
      <4>1. alarm'[m].trk \in Nat
        BY DEF IInv, TypeOK, Alarm
      <4>. QED
        BY <4>1, RowAssumption DEF RowAssumption, FinalAt
    <3>3. -1 <= FinalAt(alarm'[m])
      BY <3>2
    <3>. QED
      BY <3>1, <3>3 DEF Timely
  <2>3. CASE alarm[m].status = "pending"
    <3>. DEFINE u == FinalAt(alarm[m])
    <3>1. Unsnapped(alarm[m]) /\ FinalAt(alarm'[m]) = u
      BY <2>1, <2>3, PendingKept DEF Unsnapped
    <3>2. u \in Nat /\ alarm[m].trk <= u /\ alarm[m].trk \in Nat
      BY BoundTypes, RowTypes
    <3>3. Timely(alarm[m], u)
      BY <3>1 DEF FinalOK
    <3>. HIDE DEF u
    <3>4. ASSUME m = job.m, pc = "apply", NEW e \in job.todo
          PROVE  e.ts <= u
      BY <3>1, <3>4 DEF FinalOK, Applying, ForFinal, Attempting, AttemptPc, SentBy, u
    <3>5. ASSUME m = job.m, pc = "replay", NEW e \in job.todo, e.reactor \in alarm[m].released
          PROVE  e.ts <= alarm[m].last[e.reactor] \/ e.ts <= u
      <4>1. e.ts <= alarm[m].last[e.reactor] \/ e.ts <= alarm[m].trk
        BY <3>5 DEF ReplayOK
      <4>2. e.ts \in Nat
        BY RowTypes
      <4>. QED
        BY <3>2, <4>1, <4>2
    <3>6. Timely(alarm'[m], u)
      BY <2>1, <3>2, <3>3, <3>4, <3>5, TimelyStep
    <3>. QED
      BY <3>1, <3>6
  <2>. QED
    BY <2>2, <2>3
<1>2. ASSUME Applying', Unsnapped(alarm'[job'.m])
      PROVE  \/ \A e \in job'.todo : e.ts <= FinalAt(alarm'[job'.m])
             \/ ForFinal' \/ Attempting(Completing)'
  <2>. DEFINE m == job.m
  <2>1. job'.m = m /\ job'.todo = job.todo /\ pc # "free"
    BY <1>2, ApplyingFollows
  <2>2. m \in Message
    BY <1>2, ApplyingFollows DEF Applying, Working, ReactionLate, IInv, JobOK, AttemptPc
  <2>3. alarm'[m].status = "pending" /\ ~alarm'[m].snapped
    BY <1>2, <2>1 DEF Unsnapped
  <2>4. alarm[m].status = "pending" => Unsnapped(alarm[m]) /\ FinalAt(alarm'[m]) = FinalAt(alarm[m])
    BY <2>2, <2>3, PendingKept DEF Unsnapped
  <2>5. alarm[m].status = "pending"
    <3>1. pc \notin {"intake", "adopt"}
      BY <1>2, ApplyingFollows DEF Applying, Working, ReactionLate, AttemptPc
    <3>. QED
      BY <2>2, <2>3, <3>1, PendingKept DEF IntakeTrigger, CheckAdopt
  <2>6. SentBy(FinalAt(alarm[m])) => \A e \in job'.todo : e.ts <= FinalAt(alarm'[job'.m])
    BY <2>1, <2>4, <2>5 DEF SentBy
  <2>7. CASE ReactionLate
    <3>1. PICK e \in job.todo :
            \/ ~IsActive(alarm[m]) /\ Release
            \/ /\ job.now >= FinalAt(alarm[m]) /\ e.ts > FinalAt(alarm[m])
               /\ ProcessFinal(m, "apply")
            \/ ~(job.now >= FinalAt(alarm[m]) /\ e.ts > FinalAt(alarm[m]))
      BY <2>5, <2>7 DEF ReactionLate
    <3>2. IsActive(alarm[m])
      BY <2>5 DEF IsActive, ActiveStatus
    <3>3. CASE ProcessFinal(m, "apply")
      BY <3>3 DEF ProcessFinal, ForFinal
    <3>4. CASE ~(job.now >= FinalAt(alarm[m]) /\ e.ts > FinalAt(alarm[m]))
      <4>1. e.ts <= job.now /\ e.ts \in Nat /\ job.now \in Nat /\ FinalAt(alarm[m]) \in Nat
        BY <2>2, RowTypes, BoundTypes DEF FreshOK, SentBy
      <4>2. e.ts <= FinalAt(alarm[m])
        BY <3>4, <4>1
      <4>3. \A d \in job.todo : d = e
        BY <2>7 DEF CallOK, OneReaction, ReactionLate
      <4>. QED
        BY <2>6, <4>2, <4>3 DEF SentBy
    <3>. QED
      BY <3>1, <3>2, <3>3, <3>4
  <2>8. ASSUME Applying
        PROVE  SentBy(FinalAt(alarm[m])) \/ ForFinal \/ Attempting(Completing)
    BY <2>4, <2>5, <2>8 DEF FinalOK
  <2>9. CASE UNCHANGED <<pc, key, job, alarm, op>> /\ Applying
    BY <2>6, <2>8, <2>9 DEF ForFinal, Attempting, Working, AttemptPc
  <2>10. CASE Applying /\ AttemptAction
    <3>1. pc \in AttemptPc /\ pc' \in AttemptPc /\ key' = key
      BY <2>10 DEF AttemptAction, Claim, Issue, Blocked, Succeed, Fail, RateLimited, LoseAnswer,
                   Finish, AttemptPc
    <3>. QED
      BY <2>6, <2>8, <2>10, <3>1 DEF ForFinal, Attempting, AttemptPc
  <2>11. CASE SnapshotFinal
    <3>1. CASE Complete(m, job.back)
      <4>1. pc' \in AttemptPc /\ key'[1] = m /\ key'[2] \in Completing
        BY <3>1 DEF Complete, Attempt, AttemptPc, Completing
      <4>. QED
        BY <4>1 DEF Attempting
    <3>2. CASE Goto("due")
      BY <3>2 DEF Goto, ForFinal
    <3>. QED
      BY <2>11, <3>1, <3>2 DEF SnapshotFinal
  <2>12. CASE MarkFinalDue
    BY <2>12 DEF MarkFinalDue, Attempt, ForFinal, AttemptPc
  <2>13. CASE Applying /\ Post
    <3>1. pc = "post" /\ alarm'[m] = AfterAttempt(alarm[m], key[2], job.result, job.text)
      BY <2>2, <2>13 DEF Post, IInv, TypeOK
    <3>2. alarm[m] \in Alarm /\ IsActive(alarm[m])
      BY <2>2, <2>5 DEF IInv, TypeOK, IsActive, ActiveStatus
    <3>3. key[2] # "final"
      BY <2>3, <2>5, <3>1, <3>2 DEF AfterAttempt, MarkReported, Alarm
    <3>4. key[2] \notin Completing
      BY <2>3, <3>1, <3>2 DEF AfterAttempt, MarkCompleted, Alarm, Completing
    <3>. QED
      BY <2>6, <2>8, <2>13, <3>1, <3>3, <3>4 DEF ForFinal, Attempting
  <2>. QED
    BY <1>2, <2>7, <2>9, <2>10, <2>11, <2>12, <2>13, ApplyingFollows
<1>. QED
  BY <1>1, <1>2 DEF FinalOK, Unsnapped, Timely, SentBy, FinalAt

(* An operation that was decided stays so. *)
LEMMA UndecidedBefore ==
    ASSUME IInv, [Next]_vars, NEW k \in Key, op[k] # "absent", op'[k] \in NotAttempted
    PROVE  op[k] \in NotAttempted
<1>1. CASE QuietStep
  <2>1. op'[k] = op[k] \/ op[k] \in Open
    BY <1>1, QuietSteps DEF Quiet, Evaluates, OpsWork, Undecided
  <2>. QED
    BY <2>1 DEF Open
<1>2. CASE AttemptAction
  <2>1. key \in Key
    BY <1>2 DEF AttemptAction, Claim, Issue, Blocked, Succeed, Fail, RateLimited, LoseAnswer,
                IInv, JobOK, AttemptPc
  <2>2. op'[k] = op[k] \/ op'[k] \in Attempted \cup {"skipped"}
    BY <1>2, <2>1 DEF AttemptAction, Claim, ClaimOutgoing, Issue, Blocked, Succeed, Fail,
       RateLimited, LoseAnswer, Finish, FinishOutgoing, durable, IInv, TypeOK, Attempted
  <2>. QED
    BY <2>2 DEF NotAttempted, Attempted
<1>3. CASE ClockTick \/ CommandTripsBreaker \/ UNCHANGED vars
  BY <1>3 DEF ClockTick, CommandTripsBreaker, vars, durable
<1>. QED
  BY <1>1, <1>2, <1>3, StepKinds

LEMMA WaitingKept ==
    ASSUME IInv, SInv, [Next]_vars, NEW m \in Message, Waiting(m)', alarm[m].status = "pending"
    PROVE  Waiting(m)
<1>1. op[IKey(m)] # "absent" /\ IKey(m) \in Key
  BY ReportKeys DEF SInv, TablesOK, Settled
<1>2. IntermediateEnabled /\ op'[IKey(m)] \in NotAttempted
  BY DEF Waiting
<1>. QED
  BY <1>1, <1>2, UndecidedBefore DEF Waiting

(* The intermediate report: what it counts as a response.                  *)
LEMMA IntermediateStep ==
    ASSUME IInv, IInv', SInv, CallOK, FreshOK, ReplayOK, IntermediateOK, ClaimOK, [Next]_vars
    PROVE  IntermediateOK'
<1>1. ASSUME NEW m \in Message, Waiting(m)'
      PROVE  Timely(alarm'[m], IntermediateAt(alarm'[m])) \/ FinalAt(alarm'[m]) <= JobTime'
  <2>1. alarm'[m].status = "pending"
    BY <1>1 DEF Waiting
  <2>2. CASE alarm[m].status # "pending"
    <3>1. \A p \in Member : alarm'[m].last[p] = -1
      BY <2>1, <2>2, PendingKept
    <3>2. IntermediateAt(alarm'[m]) \in Nat
      <4>1. alarm'[m].trk \in Nat
        BY DEF IInv, TypeOK, Alarm
      <4>. QED
        BY <4>1, RowAssumption DEF RowAssumption, IntermediateAt
    <3>3. -1 <= IntermediateAt(alarm'[m])
      BY <3>2
    <3>. QED
      BY <3>1, <3>3 DEF Timely
  <2>3. CASE alarm[m].status = "pending"
    <3>. DEFINE u == IntermediateAt(alarm[m])
                f == FinalAt(alarm[m])
    <3>1. Waiting(m) /\ IntermediateAt(alarm'[m]) = u /\ FinalAt(alarm'[m]) = f
      BY <1>1, <2>1, <2>3, PendingKept, WaitingKept
    <3>2. /\ u \in Nat /\ f \in Nat /\ alarm[m].trk <= u /\ alarm[m].trk \in Nat
          /\ JobTime <= JobTime' /\ JobTime \in Nat /\ JobTime' \in Nat
      BY BoundTypes, RowTypes, ClockAdvances
    <3>3. Timely(alarm[m], u) \/ f <= JobTime
      BY <3>1 DEF IntermediateOK
    <3>4. ASSUME m = job.m, pc = "apply", NEW e \in job.todo
          PROVE  e.ts <= u \/ f <= JobTime
      BY <3>1, <3>4 DEF IntermediateOK, Applying, Attempting, AttemptPc, SentBy, JobTime
    <3>. HIDE DEF u, f
    <3>5. ASSUME m = job.m, pc = "replay", NEW e \in job.todo, e.reactor \in alarm[m].released
          PROVE  e.ts <= alarm[m].last[e.reactor] \/ e.ts <= u
      <4>1. e.ts <= alarm[m].last[e.reactor] \/ e.ts <= alarm[m].trk
        BY <3>5 DEF ReplayOK
      <4>2. e.ts \in Nat
        BY RowTypes
      <4>. QED
        BY <3>2, <4>1, <4>2
    <3>6. CASE f <= JobTime
      <4>1. f <= JobTime'
        BY <3>2, <3>6
      <4>. QED
        BY <3>1, <4>1
    <3>7. CASE ~(f <= JobTime)
      <4>1. Timely(alarm'[m], u)
        BY <2>1, <3>2, <3>3, <3>4, <3>5, <3>7, TimelyStep
      <4>. QED
        BY <3>1, <4>1
    <3>. QED
      BY <3>6, <3>7
  <2>. QED
    BY <2>2, <2>3
<1>2. ASSUME Applying', IntermediateEnabled, alarm'[job'.m].status = "pending",
             op'[IKey(job'.m)] \in NotAttempted
      PROVE  \/ \A e \in job'.todo : e.ts <= IntermediateAt(alarm'[job'.m])
             \/ FinalAt(alarm'[job'.m]) <= job'.now
             \/ Attempting(Completing \cup {"intermediate"})'
  <2>. DEFINE m == job.m
  <2>1. job'.m = m /\ job'.todo = job.todo /\ job'.now = job.now /\ pc # "free"
    BY <1>2, ApplyingFollows
  <2>2. m \in Message
    BY <1>2, ApplyingFollows DEF Applying, Working, ReactionLate, IInv, JobOK, AttemptPc
  <2>3. alarm'[m].status = "pending" /\ IntermediateEnabled /\ op'[IKey(m)] \in NotAttempted
    BY <1>2, <2>1
  <2>4. alarm[m].status = "pending"
    <3>1. pc \notin {"intake", "adopt"}
      BY <1>2, ApplyingFollows DEF Applying, Working, ReactionLate, AttemptPc
    <3>. QED
      BY <2>2, <2>3, <3>1, PendingKept DEF IntakeTrigger, CheckAdopt
  <2>5. /\ Waiting(m) /\ FinalAt(alarm'[m]) = FinalAt(alarm[m])
        /\ IntermediateAt(alarm'[m]) = IntermediateAt(alarm[m])
    <3>1. op[IKey(m)] \in NotAttempted
      <4>1. op[IKey(m)] # "absent" /\ IKey(m) \in Key
        BY <2>2, <2>4, ReportKeys DEF SInv, TablesOK, Settled
      <4>. QED
        BY <2>3, <4>1, UndecidedBefore
    <3>. QED
      BY <2>2, <2>3, <2>4, <3>1, PendingKept DEF Waiting
  <2>6. \/ SentBy(IntermediateAt(alarm[m]))
        \/ FinalAt(alarm[m]) <= job.now
        => \/ \A e \in job'.todo : e.ts <= IntermediateAt(alarm'[job'.m])
           \/ FinalAt(alarm'[job'.m]) <= job'.now
    BY <2>1, <2>5 DEF SentBy
  <2>7. IKey(m) = <<m, "intermediate", 0>> /\ IKey(m) \in Key /\ op[IKey(m)] \in NotAttempted
    BY <2>2, <2>5, ReportKeys DEF IKey, Waiting
  <2>8. \A keys : IKey(m) \in keys => op' # SkipOperations(op, keys)
    BY <2>3, <2>7 DEF SkipOperations, NotAttempted
  <2>9. CASE ReactionLate
    <3>1. PICK e \in job.todo :
            \/ ~IsActive(alarm[m]) /\ Release
            \/ ProcessFinal(m, "apply")
            \/ job.now < FinalAt(alarm[m]) /\ ProcessIntermediate(m, "apply")
            \/ ~(/\ job.now >= IntermediateAt(alarm[m]) /\ job.now < FinalAt(alarm[m])
                 /\ e.ts > IntermediateAt(alarm[m]))
      BY <2>4, <2>9 DEF ReactionLate
    <3>2. IsActive(alarm[m])
      BY <2>4 DEF IsActive, ActiveStatus
    <3>3. ~ProcessFinal(m, "apply")
      BY <2>7, <2>8 DEF ProcessFinal
    <3>4. ASSUME ProcessIntermediate(m, "apply")
          PROVE  Attempting(Completing \cup {"intermediate"})'
      <4>1. Complete(m, "apply") \/ Attempt(IKey(m), NoText, "apply")
        BY <2>3, <2>7, <2>8, <3>4 DEF ProcessIntermediate
      <4>2. CASE Complete(m, "apply")
        <5>1. pc' \in AttemptPc /\ key'[2] \in Completing
          BY <4>2 DEF Complete, Attempt, AttemptPc, Completing
        <5>. QED
          BY <5>1 DEF Attempting
      <4>3. CASE Attempt(IKey(m), NoText, "apply")
        <5>1. pc' \in AttemptPc /\ key'[2] = "intermediate"
          BY <2>7, <4>3 DEF Attempt, AttemptPc
        <5>. QED
          BY <5>1 DEF Attempting
      <4>. QED
        BY <4>1, <4>2, <4>3
    <3>5. CASE ~(/\ job.now >= IntermediateAt(alarm[m]) /\ job.now < FinalAt(alarm[m])
                 /\ e.ts > IntermediateAt(alarm[m]))
      <4>1. /\ e.ts <= job.now /\ e.ts \in Nat /\ job.now \in Nat
            /\ FinalAt(alarm[m]) \in Nat /\ IntermediateAt(alarm[m]) \in Nat
        BY <2>2, RowTypes, BoundTypes DEF FreshOK, SentBy
      <4>2. e.ts <= IntermediateAt(alarm[m]) \/ FinalAt(alarm[m]) <= job.now
        BY <3>5, <4>1
      <4>3. \A d \in job.todo : d = e
        BY <2>9 DEF CallOK, OneReaction, ReactionLate
      <4>. QED
        BY <2>6, <4>2, <4>3 DEF SentBy
    <3>. QED
      BY <3>1, <3>2, <3>3, <3>4, <3>5
  <2>10. ASSUME Applying
         PROVE  \/ SentBy(IntermediateAt(alarm[m])) \/ FinalAt(alarm[m]) <= job.now
                \/ Attempting(Completing \cup {"intermediate"})
    BY <2>5, <2>10 DEF IntermediateOK
  <2>11. CASE UNCHANGED <<pc, key, job, alarm, op>> /\ Applying
    BY <2>6, <2>10, <2>11 DEF Attempting
  <2>12. CASE Applying /\ AttemptAction
    <3>1. pc \in AttemptPc /\ pc' \in AttemptPc /\ key' = key
      BY <2>12 DEF AttemptAction, Claim, Issue, Blocked, Succeed, Fail, RateLimited, LoseAnswer,
                   Finish, AttemptPc
    <3>. QED
      BY <2>6, <2>10, <2>12, <3>1 DEF Attempting
  <2>13. ~SnapshotFinal /\ ~MarkFinalDue
    BY <2>7 DEF SnapshotFinal, MarkFinalDue, SInv, SendOK, ForFinal
  <2>14. CASE Applying /\ Post
    <3>1. pc = "post" /\ alarm'[m] = AfterAttempt(alarm[m], key[2], job.result, job.text)
      BY <2>2, <2>14 DEF Post, IInv, TypeOK
    <3>2. alarm[m] \in Alarm /\ IsActive(alarm[m])
      BY <2>2, <2>4 DEF IInv, TypeOK, IsActive, ActiveStatus
    <3>3. key[2] \notin Completing
      BY <2>3, <3>1, <3>2 DEF AfterAttempt, MarkCompleted, Alarm, Completing
    <3>4. key[2] # "intermediate"
      <4>1. key \in Key /\ key[1] = m
        BY <3>1 DEF IInv, JobOK, AttemptPc, SInv, SendOK
      <4>2. key[2] = "intermediate" => key = IKey(m)
        BY <4>1, ReportKeyOf
      <4>. QED
        BY <2>7, <3>1, <4>2 DEF ClaimOK, Attempting, AttemptPc
    <3>. QED
      BY <2>6, <2>10, <2>14, <3>3, <3>4 DEF Attempting
  <2>. QED
    BY <1>2, <2>6, <2>9, <2>11, <2>12, <2>13, <2>14, ApplyingFollows
<1>. QED
  BY <1>1, <1>2 DEF IntermediateOK, Timely, SentBy, Waiting, IKey, FinalAt, IntermediateAt

(* What /check still has to replay. *)
LEMMA ReplayStep ==
    ASSUME IInv, IInv', HInv, FreshOK, ReplayOK, started = 0, [Next]_vars
    PROVE  ReplayOK'
<1>. SUFFICES ASSUME pc' = "replay", NEW s \in job'.todo,
                     s.reactor \in alarm'[job'.m].released
              PROVE  s.ts <= alarm'[job'.m].last[s.reactor] \/ s.ts <= alarm'[job'.m].trk
  BY DEF ReplayOK
<1>1. job.back \in Resting /\ "replay" \notin Resting \cup {"claim", "post", "snapshot"}
  BY DEF IInv, TypeOK, Resting
<1>2. ASSUME NEW back \in Resting, Return(back) PROVE FALSE
  BY <1>1, <1>2 DEF Return, Release
<1>3. ASSUME NEW m, NEW back \in Resting,
             \/ Complete(m, back) \/ ProcessIntermediate(m, back)
             \/ ProcessFinal(m, back) \/ ProcessEdit(m, back)
      PROVE  FALSE
  BY <1>1, <1>2, <1>3 DEF Complete, ProcessIntermediate, ProcessFinal, ProcessEdit, Attempt
<1>4. CASE TickRun \/ MessageRun \/ ReactionRun
  BY <1>3, <1>4 DEF TickRun, TickComplete, TickIntermediate, TickFinal, TickEdit, TickEnd,
     MessageRun, IntakeIgnored, IntakeTrigger, HostReaction, Settle, ReactionRun, ReactionLate,
     ReactionApply, ReactionAfter, Goto, Release, Attempt, Resting
<1>5. CASE SnapshotFinal \/ MarkFinalDue \/ AttemptStep
  BY <1>1, <1>2, <1>3, <1>5 DEF SnapshotFinal, MarkFinalDue, AttemptStep, Claim, Issue, Blocked,
     Succeed, Fail, RateLimited, LoseAnswer, Finish, Post, Goto, Attempt
<1>6. CASE CheckReplayed \/ CheckEvaluate
  BY <1>3, <1>6 DEF CheckReplayed, CheckEvaluate, Goto, Release, Attempt, Resting
<1>7. CASE CheckAdopt
  <2>1. /\ UNCHANGED job /\ job.m \in Message
        /\ \E file : Create(job.m, "custom", job.now, file)
    BY <1>7 DEF CheckAdopt, Goto, IInv, JobOK, AttemptPc
  <2>2. alarm'[job.m].trk = job.now
    BY <2>1 DEF Create, InsertedAlarm, NoAlarm, IInv, TypeOK
  <2>3. s.ts <= job.now
    BY <2>1 DEF FreshOK, SentBy
  <2>. QED
    BY <2>1, <2>2, <2>3
<1>8. CASE CheckReplay
  <2>1. PICK e \in job.todo :
          /\ alarm' = [alarm EXCEPT ![job.m] = ApplyReaction(alarm[job.m], e, job.now)]
          /\ job' = [job EXCEPT !.todo = job.todo \ {e}]
    BY <1>8 DEF CheckReplay
  <2>2. /\ job.m \in Message /\ job'.m = job.m /\ job'.todo \subseteq job.todo
        /\ e \in Seen /\ alarm[job.m] \in Alarm /\ s \in job.todo
    BY <1>8, <2>1, RowTypes DEF CheckReplay, IInv, JobOK, TypeOK, AttemptPc
  <2>3. Accepted(e) /\ Told(alarm[job.m])
    BY <2>1, <2>2 DEF HInv, RowsOK, ToldOK
  <2>. DEFINE a == alarm[job.m]
              b == ApplyReaction(alarm[job.m], e, job.now)
  <2>4. b.released = a.released /\ b.trk = a.trk /\ \A p \in Member : a.last[p] <= b.last[p]
    BY <2>2, <2>3, ApplyCounts
  <2>5. alarm'[job.m] = b
    BY <2>1, <2>2 DEF IInv, TypeOK
  <2>. HIDE DEF b
  <2>6. s.ts <= a.last[s.reactor] \/ s.ts <= a.trk
    BY <1>8, <2>2, <2>4, <2>5 DEF ReplayOK, CheckReplay
  <2>7. /\ s.ts \in Nat /\ s.reactor \in Member /\ a.last[s.reactor] \in Nat \cup {-1}
        /\ alarm'[job.m].last[s.reactor] \in Nat \cup {-1}
    <3>1. alarm'[job.m].last \in [Member -> Nat \cup {-1}]
      BY <2>2 DEF IInv, TypeOK, Alarm, None
    <3>. QED
      BY <2>2, <3>1, RowTypes
  <2>8. a.last[s.reactor] <= b.last[s.reactor]
    BY <2>4, <2>7
  <2>. QED
    BY <2>2, <2>4, <2>5, <2>6, <2>7, <2>8
<1>9. ASSUME NEW found, NEW replays, CheckBegin(found, replays)
      PROVE  s.ts <= alarm'[job'.m].last[s.reactor]
  <2>1. ~Release
    BY DEF Release
  <2>2. PICK m \in found :
          Begin("check", CheckPc(m, replays), m,
                {r \in seen : r.msg = m /\ CheckPc(m, replays) # "evaluate"})
    BY <1>9, <2>1 DEF CheckBegin
  <2>3. /\ CheckPc(m, replays) = "replay" /\ job'.m = m /\ s \in seen /\ s.msg = m
        /\ pc = "free" /\ alarm' = ExpireAlarms(alarm, now, 0)
    BY <1>9, <2>2 DEF Begin, Idle, CheckBegin, ExpireDue
  <2>4. m \in Message
    BY <2>3, RowTypes
  <2>5. IsActive(alarm[m]) /\ now < ExpiresAt(alarm[m])
    BY <2>3 DEF CheckPc
  <2>6. now \in Nat /\ ExpiresAt(alarm[m]) \in Nat
    BY <2>4, RowTypes, RowAssumption DEF ExpiresAt, RowAssumption
  <2>7. alarm'[m] = alarm[m]
    <3>1. ~(ExpiresAt(alarm[m]) <= now)
      BY <2>5, <2>6
    <3>. QED
      BY <2>3, <2>4, <3>1 DEF ExpireAlarms, DueToExpire
  <2>8. OwnActive(m)
    BY <2>4, <2>5, RowTypes DEF OwnActive
  <2>9. ~InHand
    BY <2>3 DEF InHand, Working, AttemptPc
  <2>. QED
    BY <2>3, <2>7, <2>8, <2>9 DEF HInv, CountedOK, Counted
<1>10. CASE Call
  <2>1. ~\E e \in Reaction : ReactionIgnored(e)
    BY DEF ReactionIgnored
  <2>2. CASE CheckLatest \/ \E class : CheckText(class)
    BY <1>9, <2>2 DEF CheckLatest, CheckText
  <2>. QED
    BY <1>10, <2>1, <2>2 DEF Call, TickBegin, MessageBegin, ReactionBegin, Begin
<1>11. CASE ClockTick \/ CommandTripsBreaker \/ UNCHANGED vars
  <2>1. UNCHANGED <<pc, job, alarm>>
    BY <1>11 DEF ClockTick, CommandTripsBreaker, vars, durable
  <2>. QED
    BY <2>1 DEF ReplayOK
<1>12. CASE TickFails \/ Crash
  BY <1>12 DEF TickFails, Crash, Release
<1>. QED
  BY <1>4, <1>5, <1>6, <1>7, <1>8, <1>9, <1>10, <1>11, <1>12 DEF Next, JobStep, CheckRun

LEMMA ClaimStep ==
    ASSUME IInv, SInv, SInv', IntermediateOK, ClaimOK, [Next]_vars
    PROVE  ClaimOK'
<1>. SUFFICES ASSUME pc' \in AttemptPc, key'[2] = "intermediate"
              PROVE  /\ IntermediateEnabled
                     /\ pc' = "claim" => op'[key'] \notin {"absent", "not_due"}
                     /\ pc' # "claim" => op'[key'] \notin NotAttempted
                     /\ pc' = "issue" => Timely(alarm'[key'[1]], IntermediateAt(alarm'[key'[1]]))
  BY DEF ClaimOK, Attempting, Timely, IntermediateAt
<1>1. CASE UNCHANGED <<alarm, op, pc, key, job, wire, shown>>
  BY <1>1 DEF ClaimOK, Attempting
<1>2. CASE AttemptAction
  <2>1. /\ pc \in AttemptPc \ {"post"} /\ UNCHANGED <<alarm, key>> /\ key \in Key
        /\ pc' # "claim" /\ (pc' = "issue" => Claim)
    BY <1>2 DEF AttemptAction, Claim, Issue, Blocked, Succeed, Fail, RateLimited, LoseAnswer,
                Finish, durable, IInv, JobOK, AttemptPc
  <2>2. key = IKey(job.m) /\ job.m \in Message /\ key[1] = job.m
    <3>1. key[1] = job.m
      BY <2>1 DEF SInv, SendOK
    <3>. QED
      BY <2>1, <3>1, ReportKeyOf
  <2>3. IntermediateEnabled
    BY <2>1 DEF ClaimOK, Attempting
  <2>4. op'[key] \notin NotAttempted
    BY <1>2, <2>1 DEF ClaimOK, Attempting, AttemptAction, Claim, ClaimOutgoing, Claimable, Issue,
       Blocked, Succeed, Fail, RateLimited, LoseAnswer, Finish, FinishOutgoing, durable,
       IInv, TypeOK, AttemptOK, NotAttempted, AttemptPc
  <2>5. ASSUME pc' = "issue" PROVE Timely(alarm[job.m], IntermediateAt(alarm[job.m]))
    <3>1. pc = "claim" /\ op[key] = "due_not_attempted"
      BY <2>1, <2>5 DEF Claim, Claimable
    <3>2. /\ alarm[job.m].status = "pending" /\ job.now < FinalAt(alarm[job.m])
          /\ JobTime = job.now
      BY <2>1, <3>1 DEF SInv, SendOK, JobTime, AttemptPc
    <3>3. Waiting(job.m)
      BY <2>2, <2>3, <3>1, <3>2 DEF Waiting, NotAttempted
    <3>4. job.now \in Nat /\ FinalAt(alarm[job.m]) \in Nat
      BY <2>2, RowTypes, BoundTypes
    <3>5. ~(FinalAt(alarm[job.m]) <= JobTime)
      BY <3>2, <3>4
    <3>. QED
      BY <2>2, <3>3, <3>5 DEF IntermediateOK
  <2>. QED
    BY <2>1, <2>2, <2>3, <2>4, <2>5
<1>3. \A m, back : ~Complete(m, back)
  <2>. SUFFICES ASSUME NEW m, NEW back, Complete(m, back)
                PROVE  FALSE
    OBVIOUS
  <2>. DEFINE k == <<m, IF alarm[m].status = "reported" /\ alarm[m].hasReport
                        THEN "completion_edit" ELSE "completion", 0>>
  <2>1. k[2] \in Completing
    BY DEF Completing
  <2>2. key' = k
    BY DEF Complete, Attempt
  <2>. HIDE DEF k
  <2>. QED
    BY <2>1, <2>2 DEF Completing
<1>4. ASSUME NEW m \in Message, BeginsIntermediate(m)
      PROVE  IntermediateEnabled /\ pc' = "claim" /\ op'[key'] \notin {"absent", "not_due"}
  <2>1. /\ IntermediateEnabled /\ pc' = "claim" /\ key' = IKey(m) /\ job'.m = m
        /\ op' = MarkOutgoingDue(op, IKey(m)) /\ UNCHANGED alarm
    BY <1>4, ReportKeys DEF BeginsIntermediate, Attempt, IInv, TypeOK
  <2>2. alarm[m].status = "pending"
    BY <2>1 DEF SInv, SendOK, AttemptPc
  <2>3. op[IKey(m)] # "absent" /\ IKey(m) \in Key
    BY <2>2, ReportKeys DEF SInv, TablesOK, Settled
  <2>. QED
    BY <2>1, <2>3 DEF MarkOutgoingDue, IInv, TypeOK
<1>5. ~BeginsOther /\ ~MarkFinalDue /\ \A m \in Message : ~BeginsEdit(m)
  <2>1. ~BeginsOther
    BY DEF BeginsOther
  <2>2. ~MarkFinalDue
    BY DEF MarkFinalDue, Attempt
  <2>3. \A m \in Message : ~BeginsEdit(m)
    BY DEF BeginsEdit, Attempt
  <2>. QED
    BY <2>1, <2>2, <2>3
<1>. QED
  BY <1>1, <1>2, <1>3, <1>4, <1>5, AttemptBegins DEF Begins

LEMMA OnlySnapshotSnaps ==
    ASSUME IInv, [Next]_vars, NEW m \in Message, ~alarm[m].snapped, alarm'[m].snapped
    PROVE  alarm[m].status = "pending"
<1>1. alarm[m] \in Alarm /\ alarm \in [Message -> Alarm]
  BY DEF IInv, TypeOK
<1>2. ~UNCHANGED alarm
  OBVIOUS
<1>3. ~\E from : alarm' = ExpireAlarms(alarm, now, from)
  <2>1. ASSUME NEW from
        PROVE  \/ ExpireAlarms(alarm, now, from)[m] = alarm[m]
               \/ ExpireAlarms(alarm, now, from)[m]
                     = [alarm[m] EXCEPT !.status = "expired", !.editDue = None]
    BY DEF ExpireAlarms
  <2>2. [alarm[m] EXCEPT !.status = "expired", !.editDue = None].snapped = alarm[m].snapped
    BY <1>1 DEF Alarm
  <2>. QED
    BY <2>1, <2>2
<1>4. ~Post
  <2>1. ASSUME NEW kind, NEW result, NEW text
        PROVE  AfterAttempt(alarm[m], kind, result, text).snapped = alarm[m].snapped
    BY <1>1 DEF AfterAttempt, MarkReported, RecordSuccessfulEdit, ClearEditDue, MarkCompleted,
                Alarm
  <2>. QED
    BY <1>1, <2>1 DEF Post
<1>5. ~ReactionApply /\ ~CheckReplay
  <2>1. ASSUME NEW e, NEW t
        PROVE  ApplyReaction(alarm[m], e, t).snapped = alarm[m].snapped
    BY <1>1 DEF ApplyReaction, Alarm
  <2>. QED
    BY <1>1, <2>1 DEF ReactionApply, CheckReplay
<1>6. ~IntakeTrigger /\ ~CheckAdopt
  <2>1. \A status, source, trk, file :
            InsertedAlarm(status, source, trk, file).snapped = FALSE
    BY DEF InsertedAlarm, NoAlarm
  <2>2. ASSUME NEW n, NEW source, NEW trk, NEW file, Create(n, source, trk, file)
        PROVE  FALSE
    <3>1. PICK status, released :
             alarm' = [alarm EXCEPT ![n] = InsertedAlarm(status, source, trk, released)]
      BY <2>2 DEF Create
    <3>. QED
      BY <1>1, <2>1, <3>1
  <2>. QED
    BY <2>2 DEF IntakeTrigger, CheckAdopt
<1>7. CASE SnapshotFinal
  <2>1. alarm' = [alarm EXCEPT ![job.m] = SnapshotFinalMissing(alarm[job.m])]
    BY <1>2, <1>7, EvaluationsWriteNoRow DEF SnapshotFinal
  <2>. QED
    BY <1>1, <2>1 DEF SnapshotFinalMissing
<1>8. ~Call
  <2>. SUFFICES ASSUME Call
                PROVE  UNCHANGED alarm \/ \E from : alarm' = ExpireAlarms(alarm, now, from)
    BY <1>2, <1>3
  <2>. QED
    BY DEF Call, TickBegin, MessageBegin, ReactionBegin, ReactionIgnored, CheckLatest, CheckText,
           CheckBegin, ExpireDue
<1>9. ~TickRun
  <2>1. ASSUME TickEdit PROVE FALSE
    <3>1. PICK n \in Message : ProcessEdit(n, "select")
      BY <2>1 DEF TickEdit, ToEdit, DueEdits, Earliest
    <3>2. alarm' = [alarm EXCEPT ![n] = ClearEditDue(alarm[n])]
      BY <1>2, <3>1 DEF ProcessEdit
    <3>. QED
      BY <1>1, <3>2 DEF ClearEditDue, Alarm
  <2>. QED
    BY <1>2, <2>1, EvaluationsWriteNoRow
       DEF TickRun, TickComplete, TickIntermediate, TickFinal, TickEnd
<1>10. ~MessageRun /\ ~ReactionRun /\ ~CheckRun
  BY <1>2, <1>5, <1>6, EvaluationsWriteNoRow
     DEF MessageRun, IntakeIgnored, HostReaction, Settle, ReactionRun, ReactionLate,
         ReactionAfter, CheckRun, CheckReplayed, CheckEvaluate
<1>11. ~MarkFinalDue /\ ~AttemptAction
  BY <1>2 DEF MarkFinalDue, AttemptAction, Claim, Issue, Blocked, Succeed, Fail, RateLimited,
              LoseAnswer, Finish, durable
<1>12. ~(ClockTick \/ CommandTripsBreaker \/ TickFails \/ Crash \/ UNCHANGED vars)
  BY <1>2, <1>3, CrashTables
     DEF ClockTick, CommandTripsBreaker, TickFails, ExpireDue, vars, durable
<1>. QED
  BY <1>4, <1>7, <1>8, <1>9, <1>10, <1>11, <1>12 DEF Next, JobStep, AttemptStep, AttemptAction

(* In a process that neither dies nor has a pass fail, nobody's response   *)
(* to a report was sent after its deadline: neither to the intermediate    *)
(* one, nor to the final one, whose names are those of its snapshot.       *)
THEOREM DeadlinesHold ==
    ASSUME Skew = 0, MaxFailures = 0, TTL <= Retention
    PROVE  Spec => DeadlineSemantics
<1>1. Init => DInv
  <2>. SUFFICES ASSUME Init PROVE DInv
    OBVIOUS
  <2>1. /\ pc = "free" /\ seen = {} /\ job.todo = {} /\ started = 0
        /\ \A m \in Message : alarm[m].status = "none"
    BY DEF Init, NoAlarm, Idle
  <2>2. FreshOK /\ ReplayOK
    BY <2>1 DEF FreshOK, SentBy, ReplayOK
  <2>3. FinalOK
    BY <2>1 DEF FinalOK, Unsnapped, Applying, Working, AttemptPc
  <2>4. IntermediateOK
    BY <2>1 DEF IntermediateOK, Waiting, Applying, Working, AttemptPc
  <2>5. ClaimOK
    BY <2>1 DEF ClaimOK, Attempting, AttemptPc
  <2>. QED
    BY <2>1, <2>2, <2>3, <2>4, <2>5 DEF DInv
<1>2. IInv /\ IInv' /\ SInv /\ SInv' /\ CInv /\ HInv /\ DInv /\ [Next]_vars => DInv'
  <2>. SUFFICES ASSUME IInv, IInv', SInv, SInv', CInv, HInv, DInv, [Next]_vars
                PROVE  DInv'
    OBVIOUS
  <2>1. ~Crash
    BY NoFailureLeft DEF Undisturbed
  <2>2. started' = 0
    BY <2>1, OneProcess DEF DInv
  <2>. QED
    BY <2>2, FreshStep, ReplayStep, FinalStep, IntermediateStep, ClaimStep DEF CInv, DInv
<1>3. ASSUME IInv, DInv, [Next]_vars, NEW m \in Message, ~alarm[m].snapped, alarm'[m].snapped
      PROVE  Timely(alarm[m], FinalAt(alarm[m]))
  <2>1. Unsnapped(alarm[m])
    BY <1>3, OnlySnapshotSnaps DEF Unsnapped
  <2>. QED
    BY <1>3, <2>1 DEF DInv, FinalOK
<1>4. ASSUME IInv, SInv, DInv, [Next]_vars, wire' # wire, key[2] = "intermediate"
      PROVE  Timely(alarm[key[1]], IntermediateAt(alarm[key[1]]))
  <2>1. pc = "issue"
    BY <1>4, OnlyIssueSends
  <2>. QED
    BY <1>4, <2>1 DEF DInv, ClaimOK, Attempting, AttemptPc
<1>5. IInv /\ SInv /\ DInv /\ [Next]_vars
      => [/\ \A m \in Message : ~alarm[m].snapped /\ alarm'[m].snapped =>
                \A p \in Member : alarm[m].last[p] <= FinalAt(alarm[m])
          /\ Sending /\ key[2] = "intermediate" =>
                \A p \in Member : alarm[key[1]].last[p]
                                     <= IntermediateAt(alarm[key[1]])]_vars
  BY <1>3, <1>4 DEF Timely, Sending
<1>. QED
  BY <1>1, <1>2, <1>5, Inductive, SessionsInductive, HistoryInductive, PTL
     DEF Spec, DeadlineSemantics
=============================================================================
