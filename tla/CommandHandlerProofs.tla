------------------------ MODULE CommandHandlerProofs ------------------------
(***************************************************************************)
(* Proofs about CommandHandler for every set of commands, roster, list and *)
(* number of crashes: the outgoing lock, the repetition of commands, what  *)
(* a reply says, and the refinement of the at-most-once ledger.            *)
(***************************************************************************)
EXTENDS CommandHandler, SequenceTheorems, TLAPS

(* The lock is queued for by two tasks, each at most once.                 *)
Queues == {<<>>, <<Main>>, <<Ticker>>, <<Main, Ticker>>, <<Ticker, Main>>}

(* A task is in the queue exactly as long as its write is under way; only  *)
(* the head of the queue has a request out.                                *)
GatewayOK ==
    /\ queue \in Queues
    /\ breaker \in BOOLEAN
    /\ call \in [Writer -> CallState]
    /\ call[Main] \in {"waiting", "rpc"} <=> queue \notin {<<>>, <<Ticker>>}
    /\ call[Ticker] \in {"waiting", "rpc"} <=> queue \notin {<<>>, <<Main>>}
    /\ call[Main] = "rpc" => queue \in {<<Main>>, <<Main, Ticker>>}
    /\ call[Ticker] = "rpc" => queue \in {<<Ticker>>, <<Ticker, Main>>}

(* The part of the type invariant about the command and the list.          *)
HandlerType ==
    /\ op \in [Command -> OpState]
    /\ pc \in Pc
    /\ cmd \in Command \cup {NoCommand} /\ (pc # "idle" => cmd \in Command)
    /\ {list, read, before} \cup draft \subseteq SUBSET Name
    /\ reply \in Replies
    /\ overtaken \in BOOLEAN
    /\ {wire, executed, cut} \subseteq [Command -> Nat]
    /\ crashes \in Nat

Requested == {"rpc", "sent", "refused", "limited", "lost"}

(* The main task writes for the tracker or for its reply.  The reply       *)
(* operation does not exist before it is recorded; while the reply is sent *)
(* it is claimed, and its RPC was issued exactly if the call says so.      *)
OpsOK ==
    /\ call[Main] # "idle" => pc \in {"tracker", "send"}
    /\ pc \in {"execute"} \cup Unrecorded => op[cmd] = "absent"
    /\ pc = "claim" => op[cmd] # "absent"
    /\ pc \in {"ask", "send"} => op[cmd] = "attempted_uncertain"
    /\ pc = "ask" => wire[cmd] = 0
    /\ pc = "send" => wire[cmd] = IF call[Main] \in Requested THEN 1 ELSE 0
    /\ \A c \in Command : /\ wire[c] \in 0 .. 1
                          /\ op[c] \in {"absent"} \cup NotAttempted => wire[c] = 0

(* The execution of a command that is not counted as cut off: the one its  *)
(* operation stands for, or the one under way.                             *)
Stands(c) == Valid(c) /\ (op[c] # "absent" \/ (cmd = c /\ pc \in Unrecorded))

ExecOK ==
    \A c \in Command : executed[c] = IF Stands(c) THEN cut[c] + 1 ELSE cut[c]

(* Until the list is replaced it is the one the command met.               *)
ListOK ==
    /\ pc = "replace" => cmd.token \in {"set", "add", "del", "clear"}
    /\ pc \in {"execute", "replace", "tracker", "health"} /\ ~overtaken => list = before
    /\ pc = "replace" /\ cmd.token \in {"add", "del"} /\ ~overtaken =>
          read = list /\ Updated(cmd, list) # list

IInv == GatewayOK /\ HandlerType /\ OpsOK /\ ExecOK /\ ListOK /\ ReplyTellsTheTruth

-----------------------------------------------------------------------------
(* The gateway.                                                            *)

LEMMA TwoWriters == Main # Ticker /\ Main \in Writer /\ Ticker \in Writer
BY WriterAssumption DEF Main, Ticker

(* What the queue operators do to the queues that occur. *)
LEMMA ShortQueues ==
    ASSUME NEW v, NEW w
    PROVE  /\ Append(<<>>, v) = <<v>> /\ Append(<<v>>, w) = <<v, w>>
           /\ Tail(<<v>>) = <<>> /\ Tail(<<v, w>>) = <<w>>
           /\ Head(<<v>>) = v /\ Head(<<v, w>>) = v
<1>1. Append(<<>>, v) = <<v>>
  OBVIOUS
<1>2. Append(<<v>>, w) = <<v, w>>
  <2>. DEFINE S == {v, w}
  <2>1. <<v>> \in Seq(S) /\ <<v, w>> \in Seq(S) /\ Len(<<v>>) = 1 /\ Len(<<v, w>>) = 2
    OBVIOUS
  <2>2. Append(<<v>>, w) \in Seq(S) /\ Len(Append(<<v>>, w)) = 2
    BY <2>1, AppendProperties
  <2>3. Append(<<v>>, w)[1] = v /\ Append(<<v>>, w)[2] = w
    BY <2>1, AppendProperties
  <2>4. <<v, w>>[1] = v /\ <<v, w>>[2] = w
    OBVIOUS
  <2>. DEFINE s == Append(<<v>>, w)
              t == <<v, w>>
  <2>5. s \in Seq(S) /\ t \in Seq(S) /\ Len(s) = 2 /\ Len(t) = 2
    BY <2>1, <2>2
  <2>6. s[1] = t[1] /\ s[2] = t[2]
    BY <2>3, <2>4
  <2>. HIDE DEF S, s, t
  <2>7. \A i \in 1 .. Len(s) : s[i] = t[i]
    BY <2>5, <2>6
  <2>8. s = t
    BY <2>5, <2>7, SeqEqual
  <2>. QED
    BY <2>8 DEF s, t
<1>3. Tail(<<v>>) = <<>>
  OBVIOUS
<1>4. Tail(<<v, w>>) = <<w>>
  OBVIOUS
<1>5. Head(<<v>>) = v /\ Head(<<v, w>>) = v
  OBVIOUS
<1>. QED
  BY <1>1, <1>2, <1>3, <1>4, <1>5

LEMMA QueueFacts ==
    /\ Append(<<>>, Main) = <<Main>> /\ Append(<<>>, Ticker) = <<Ticker>>
    /\ Append(<<Main>>, Ticker) = <<Main, Ticker>>
    /\ Append(<<Ticker>>, Main) = <<Ticker, Main>>
    /\ Tail(<<Main>>) = <<>> /\ Tail(<<Ticker>>) = <<>>
    /\ Tail(<<Main, Ticker>>) = <<Ticker>> /\ Tail(<<Ticker, Main>>) = <<Main>>
    /\ Head(<<Main>>) = Main /\ Head(<<Main, Ticker>>) = Main
    /\ Head(<<Ticker>>) = Ticker /\ Head(<<Ticker, Main>>) = Ticker
BY ShortQueues

LEMMA QueuesDiffer ==
    /\ <<Main>> # <<>> /\ <<Ticker>> # <<>> /\ <<Main>> # <<Ticker>>
    /\ <<Main, Ticker>> \notin {<<>>, <<Main>>, <<Ticker>>, <<Ticker, Main>>}
    /\ <<Ticker, Main>> \notin {<<>>, <<Main>>, <<Ticker>>}
BY TwoWriters

(* Two tasks in one lock are never more than two waiters. *)
LEMMA QueueBounded == queue \in Queues => queue \in Seq(Writer) /\ Len(queue) <= 2
<1>1. ASSUME NEW v \in Writer, NEW w \in Writer
      PROVE  /\ <<>> \in Seq(Writer) /\ Len(<<>>) = 0
             /\ <<v>> \in Seq(Writer) /\ Len(<<v>>) = 1
             /\ <<v, w>> \in Seq(Writer) /\ Len(<<v, w>>) = 2
  <2>1. <<>> \in Seq(Writer) /\ Len(<<>>) = 0
    OBVIOUS
  <2>2. <<v>> \in Seq(Writer) /\ Len(<<v>>) = 1
    OBVIOUS
  <2>3. <<v, w>> \in Seq(Writer) /\ Len(<<v, w>>) = 2
    OBVIOUS
  <2>. QED
    BY <2>1, <2>2, <2>3
<1>2. \A v \in Writer : <<v>> \in Seq(Writer) /\ Len(<<v>>) = 1
  BY <1>1
<1>3. \A v, w \in Writer : <<v, w>> \in Seq(Writer) /\ Len(<<v, w>>) = 2
  BY <1>1
<1>4. /\ <<Main, Ticker>> \in Seq(Writer) /\ Len(<<Main, Ticker>>) = 2
      /\ <<Ticker, Main>> \in Seq(Writer) /\ Len(<<Ticker, Main>>) = 2
  BY <1>3, TwoWriters
<1>5. /\ <<Main>> \in Seq(Writer) /\ Len(<<Main>>) = 1
      /\ <<Ticker>> \in Seq(Writer) /\ Len(<<Ticker>>) = 1
      /\ <<>> \in Seq(Writer) /\ Len(<<>>) = 0
  BY <1>1, <1>2, TwoWriters
<1>6. ASSUME queue \in Queues
      PROVE  queue \in Seq(Writer) /\ (Len(queue) = 0 \/ Len(queue) = 1 \/ Len(queue) = 2)
  BY <1>4, <1>5, <1>6, Zenon DEF Queues
<1>7. \A n : n = 0 \/ n = 1 \/ n = 2 => n <= 2
  OBVIOUS
<1>. QED
  BY <1>6, <1>7, Zenon

LEMMA AskKeeps ==
    ASSUME GatewayOK, NEW w \in Writer, Ask(w)
    PROVE  GatewayOK'
BY TwoWriters, QueueFacts, QueuesDiffer, WriterAssumption
   DEF GatewayOK, Ask, Queues, CallState, Outcome

LEMMA WriteKeeps ==
    ASSUME GatewayOK, NEW w \in Writer, Write(w)
    PROVE  GatewayOK'
BY TwoWriters, QueueFacts, QueuesDiffer, WriterAssumption
   DEF GatewayOK, Write, Holds, Queues, CallState, Outcome

LEMMA RefuseKeeps ==
    ASSUME GatewayOK, NEW w \in Writer, Refuse(w)
    PROVE  GatewayOK'
BY TwoWriters, QueueFacts, QueuesDiffer, WriterAssumption
   DEF GatewayOK, Refuse, Holds, Queues, CallState, Outcome

(* The answer of one request finds no other under way. *)
LEMMA AnswerKeeps ==
    ASSUME GatewayOK, NEW w \in Writer, Answer(w)
    PROVE  GatewayOK'
<1>1. PICK outcome \in Outcome \ {"blocked"} :
          call' = [call EXCEPT ![w] = outcome] /\ breaker' = (breaker \/ outcome = "limited")
  BY DEF Answer
<1>2. outcome \in CallState \ {"waiting", "rpc"} /\ breaker' \in BOOLEAN
  BY <1>1 DEF Outcome, CallState, GatewayOK
<1>3. CASE w = Main
  <2>1. /\ \/ queue = <<Main>> /\ queue' = <<>>
           \/ queue = <<Main, Ticker>> /\ queue' = <<Ticker>>
        /\ call[Ticker] # "rpc"
    <3>1. call[Main] = "rpc" /\ queue' = Tail(queue)
      BY <1>3 DEF Answer
    <3>2. queue \in {<<Main>>, <<Main, Ticker>>}
      BY <3>1 DEF GatewayOK
    <3>3. call[Ticker] # "rpc"
      BY <3>2, QueuesDiffer DEF GatewayOK
    <3>. QED
      BY <3>1, <3>2, <3>3, QueueFacts
  <2>2. call'[Main] = outcome /\ call'[Ticker] = call[Ticker] /\ call' \in [Writer -> CallState]
    BY <1>1, <1>2, <1>3, TwoWriters DEF GatewayOK
  <2>. QED
    BY <1>2, <2>1, <2>2, QueuesDiffer DEF GatewayOK, Queues
<1>4. CASE w = Ticker
  <2>1. /\ \/ queue = <<Ticker>> /\ queue' = <<>>
           \/ queue = <<Ticker, Main>> /\ queue' = <<Main>>
        /\ call[Main] # "rpc"
    <3>1. call[Ticker] = "rpc" /\ queue' = Tail(queue)
      BY <1>4 DEF Answer
    <3>2. queue \in {<<Ticker>>, <<Ticker, Main>>}
      BY <3>1 DEF GatewayOK
    <3>3. call[Main] # "rpc"
      BY <3>2, QueuesDiffer DEF GatewayOK
    <3>. QED
      BY <3>1, <3>2, <3>3, QueueFacts
  <2>2. call'[Ticker] = outcome /\ call'[Main] = call[Main] /\ call' \in [Writer -> CallState]
    BY <1>1, <1>2, <1>4, TwoWriters DEF GatewayOK
  <2>. QED
    BY <1>2, <2>1, <2>2, QueuesDiffer DEF GatewayOK, Queues
<1>. QED
  BY <1>3, <1>4, WriterAssumption

LEMMA TakeKeeps ==
    ASSUME GatewayOK, NEW w \in Writer, Take(w)
    PROVE  GatewayOK'
BY TwoWriters, QueuesDiffer, WriterAssumption
   DEF GatewayOK, Take, Queues, CallState, Outcome

LEMMA RestartKeeps ==
    ASSUME GatewayRestart
    PROVE  GatewayOK'
BY TwoWriters, QueuesDiffer, WriterAssumption
   DEF GatewayOK, GatewayRestart, Queues, CallState, Outcome

LEMMA ReadKeeps ==
    ASSUME GatewayOK, ReadAnswer
    PROVE  GatewayOK'
BY DEF GatewayOK, ReadAnswer

LEMMA ServeKeeps ==
    ASSUME GatewayOK, NEW w \in Writer, Serve(w)
    PROVE  GatewayOK'
BY WriteKeeps, RefuseKeeps, AnswerKeeps DEF Serve

(* What the main task does without the gateway leaves it as it is. *)
LEMMA GatewayStays == GatewayOK /\ UNCHANGED gateway => GatewayOK'
BY DEF GatewayOK, gateway

-----------------------------------------------------------------------------
(* The list.                                                               *)

LEMMA NamesKnown == \A c \in Command : c.names \subseteq Name
BY DEF Name

(* An update of a list of known names is one. *)
LEMMA UpdatedKnown ==
    ASSUME NEW c \in Command, c.token \in {"set", "add", "del", "clear"},
           NEW current \in SUBSET Name
    PROVE  Updated(c, current) \in SUBSET Name
BY NamesKnown DEF Updated

LEMMA NoCommandUnknown == NoCommand \notin Command
BY CommandAssumption DEF NoCommand

(* A command that is carried out does what its reply says. *)
LEMMA UpdateTellsTheTruth ==
    ASSUME cmd.token \in {"set", "add", "del", "clear"}, list' = Updated(cmd, read),
           cmd' = cmd, before' = before,
           cmd.token \in {"add", "del"} =>
               read = before /\ Updated(cmd, before) # before
    PROVE  Changed'
BY DEF Updated, Changed

-----------------------------------------------------------------------------
(* The invariant holds at the start.                                       *)

LEMMA InitInvariant == Init => IInv
<1>. SUFFICES ASSUME Init PROVE IInv
  OBVIOUS
<1>1. GatewayOK
  BY TwoWriters, QueuesDiffer, WriterAssumption
     DEF Init, GatewayInit, GatewayOK, Queues, CallState, Outcome
<1>2. HandlerType
  <2>1. {list, read, before} \cup draft \subseteq SUBSET Name
    BY DEF Init, Name
  <2>2. op \in [Command -> OpState] /\ pc \in Pc /\ reply \in Replies
    BY DEF Init, OpState, Pc, Replies
  <2>3. crashes \in Nat /\ wire \in [Command -> Nat] /\ executed \in [Command -> Nat]
        /\ cut \in [Command -> Nat]
    BY DEF Init
  <2>. QED
    BY <2>1, <2>2, <2>3 DEF Init, HandlerType
<1>3. OpsOK
  BY TwoWriters, WriterAssumption DEF Init, GatewayInit, OpsOK, Unrecorded
<1>4. ExecOK
  BY DEF Init, ExecOK, Stands, Unrecorded
<1>5. ListOK /\ ReplyTellsTheTruth
  BY DEF Init, ListOK, ReplyTellsTheTruth
<1>. QED
  BY <1>1, <1>2, <1>3, <1>4, <1>5 DEF IInv

-----------------------------------------------------------------------------
(* The steps of the main task.                                             *)

(* The parts of the invariant about the command. *)
TaskOK == HandlerType /\ OpsOK /\ ExecOK /\ ListOK /\ ReplyTellsTheTruth

(* A step that executes nothing, and gives no command an operation that    *)
(* was not under way. *)
LEMMA ExecStays ==
    ASSUME IInv, UNCHANGED <<executed, cut>>,
           \A c \in Command : Stands(c)' <=> Stands(c)
    PROVE  ExecOK'
BY DEF IInv, ExecOK

(* The main task goes on with a command it has carried out. *)
LEMMA ExecGoesOn ==
    ASSUME IInv, UNCHANGED <<op, cmd, executed, cut>>,
           pc \in Unrecorded <=> pc' \in Unrecorded
    PROVE  ExecOK'
<1>1. \A c \in Command : Stands(c)' <=> Stands(c)
  BY DEF Stands, Valid
<1>. QED
  BY <1>1, ExecStays

LEMMA ReceiveKeeps ==
    ASSUME IInv, NEW c \in Command, Receive(c)
    PROVE  TaskOK'
<1>1. HandlerType'
  BY DEF IInv, HandlerType, Receive, Pc, Replies
<1>2. OpsOK'
  BY DEF IInv, OpsOK, Receive, Unrecorded, gateway
<1>3. ExecOK'
  <2>1. \A k \in Command : Stands(k)' <=> Stands(k)
    BY DEF Stands, Valid, Receive, Unrecorded
  <2>. QED
    BY <2>1, ExecStays DEF Receive
<1>4. ListOK' /\ ReplyTellsTheTruth'
  BY DEF Receive, ListOK, ReplyTellsTheTruth
<1>. QED
  BY <1>1, <1>2, <1>3, <1>4 DEF TaskOK

LEMMA RejectKeeps ==
    ASSUME IInv, Reject
    PROVE  TaskOK'
<1>1. HandlerType'
  BY DEF IInv, HandlerType, Reject, Respond, Pc, Replies
<1>2. OpsOK'
  BY DEF IInv, OpsOK, Reject, Respond, Unrecorded, gateway
<1>3. ExecOK'
  <2>1. \A c \in Command : Stands(c)' <=> Stands(c)
    BY DEF Stands, Valid, Reject, Respond, Unrecorded
  <2>. QED
    BY <2>1, ExecStays DEF Reject
<1>4. ListOK' /\ ReplyTellsTheTruth'
  BY DEF IInv, Reject, Respond, ListOK, ReplyTellsTheTruth
<1>. QED
  BY <1>1, <1>2, <1>3, <1>4 DEF TaskOK

(* The next execution is counted. *)
LEMMA ExecuteCounts ==
    ASSUME IInv, pc = "execute", Valid(cmd), pc' \in Unrecorded,
           executed' = [executed EXCEPT ![cmd] = @ + 1],
           UNCHANGED <<op, cmd, cut>>
    PROVE  ExecOK' /\ executed' \in [Command -> Nat]
<1>1. /\ cmd \in Command /\ executed \in [Command -> Nat] /\ cut \in [Command -> Nat]
      /\ op[cmd] = "absent"
  BY DEF IInv, HandlerType, OpsOK
<1>2. ~Stands(cmd) /\ Stands(cmd)'
  BY <1>1 DEF Stands, Valid, Unrecorded
<1>3. /\ executed' \in [Command -> Nat]
      /\ executed'[cmd] = executed[cmd] + 1
      /\ \A c \in Command : c # cmd => executed'[c] = executed[c]
  BY <1>1
<1>4. \A c \in Command : c # cmd => (Stands(c)' <=> Stands(c))
  BY DEF Stands, Valid
<1>. QED
  BY <1>1, <1>2, <1>3, <1>4 DEF IInv, ExecOK

LEMMA ExecuteKeeps ==
    ASSUME IInv, Execute
    PROVE  TaskOK'
<1>1. /\ cmd \in Command
      /\ cmd.token \in {"set", "add", "del", "clear", "get", "check", "status"}
  BY CommandAssumption DEF IInv, HandlerType, Execute
<1>2. /\ pc' \in {"tracker", "health", "replace", "prepare"}
      /\ reply' \in {reply, "info", "no_change"}
      /\ read' \in {read, list}
  BY <1>1 DEF Execute, Respond
<1>3. ExecOK' /\ executed' \in [Command -> Nat]
  BY <1>2, ExecuteCounts DEF Execute, Unrecorded
<1>4. HandlerType'
  BY <1>2, <1>3 DEF IInv, HandlerType, Execute, Pc, Replies
<1>5. OpsOK'
  BY <1>2 DEF IInv, OpsOK, Execute, Unrecorded, gateway
<1>6. ListOK'
  BY <1>1, <1>2 DEF IInv, ListOK, Execute, Respond, Reading, Writes
<1>7. ReplyTellsTheTruth'
  <2>. SUFFICES ASSUME pc' = "prepare", ~overtaken'
                PROVE  /\ reply' # "updated" /\ list' = before'
                       /\ reply' = "no_change" =>
                             /\ cmd.token = "add" => cmd.names \subseteq list
                             /\ cmd.token = "del" => cmd.names \cap list = {}
    BY <1>2 DEF Execute, ReplyTellsTheTruth
  <2>1. list' = before'
    BY DEF IInv, ListOK, Execute
  <2>2. reply' = "info" \/ (reply' = "no_change" /\ ~Writes(cmd, list))
    BY <1>1 DEF Execute, Respond
  <2>3. ~Writes(cmd, list) => /\ cmd.token = "add" => cmd.names \subseteq list
                              /\ cmd.token = "del" => cmd.names \cap list = {}
    BY DEF Writes, Updated
  <2>. QED
    BY <2>1, <2>2, <2>3
<1>. QED
  BY <1>3, <1>4, <1>5, <1>6, <1>7 DEF TaskOK

LEMMA ReadFailsKeeps ==
    ASSUME IInv, ReadFails
    PROVE  TaskOK'
<1>1. ExecOK' /\ executed' \in [Command -> Nat]
  BY ExecuteCounts DEF ReadFails, Respond, Unrecorded
<1>2. HandlerType'
  BY <1>1 DEF IInv, HandlerType, ReadFails, Respond, Pc, Replies
<1>3. OpsOK'
  BY DEF IInv, OpsOK, ReadFails, Respond, Unrecorded, gateway
<1>4. ListOK' /\ ReplyTellsTheTruth'
  BY DEF IInv, ReadFails, Respond, ListOK, ReplyTellsTheTruth
<1>. QED
  BY <1>1, <1>2, <1>3, <1>4 DEF TaskOK

LEMMA ReplaceKeeps ==
    ASSUME IInv, Replace
    PROVE  TaskOK'
<1>1. /\ cmd \in Command /\ read \in SUBSET Name
      /\ cmd.token \in {"set", "add", "del", "clear"}
  BY DEF IInv, HandlerType, ListOK, Replace
<1>2. list' \in SUBSET Name
  BY <1>1, UpdatedKnown DEF Replace
<1>3. HandlerType'
  BY <1>2 DEF IInv, HandlerType, Replace, Respond, Pc, Replies
<1>4. OpsOK'
  BY DEF IInv, OpsOK, Replace, Respond, Unrecorded, gateway
<1>5. ExecOK'
  BY ExecGoesOn DEF Replace, Respond, Unrecorded
<1>6. ListOK'
  BY DEF Replace, Respond, ListOK
<1>7. ReplyTellsTheTruth'
  <2>1. reply' = "updated"
    BY DEF Replace, Respond
  <2>2. ASSUME ~overtaken' PROVE Changed'
    <3>1. /\ ~overtaken /\ list' = Updated(cmd, read)
          /\ cmd' = cmd /\ before' = before
      BY <2>2 DEF Replace
    <3>2. cmd.token \in {"add", "del"} =>
              read = before /\ Updated(cmd, before) # before
      BY <3>1 DEF IInv, ListOK, Replace
    <3>. QED
      BY <1>1, <3>1, <3>2, UpdateTellsTheTruth
  <2>. QED
    BY <2>1, <2>2 DEF ReplyTellsTheTruth
<1>. QED
  BY <1>3, <1>4, <1>5, <1>6, <1>7 DEF TaskOK

LEMMA ReplaceFailsKeeps ==
    ASSUME IInv, ReplaceFails
    PROVE  TaskOK'
<1>1. HandlerType'
  BY DEF IInv, HandlerType, ReplaceFails, Respond, Pc, Replies
<1>2. OpsOK'
  BY DEF IInv, OpsOK, ReplaceFails, Respond, Unrecorded, gateway
<1>3. ExecOK'
  BY ExecGoesOn DEF ReplaceFails, Respond, Unrecorded
<1>4. ListOK' /\ ReplyTellsTheTruth'
  BY DEF IInv, ReplaceFails, Respond, ListOK, ReplyTellsTheTruth
<1>. QED
  BY <1>1, <1>2, <1>3, <1>4 DEF TaskOK

LEMMA TrackerKeeps ==
    ASSUME IInv, TrackerWrites \/ TrackerTakes \/ TrackerAnswers
    PROVE  TaskOK'
<1>1. /\ pc = "tracker" /\ pc' \in {"tracker", "prepare"}
      /\ pc' = "tracker" => reply' = reply
      /\ pc' = "prepare" => reply' = "info" /\ call'[Main] = "idle"
      /\ UNCHANGED <<list, op, cmd, read, draft, before, overtaken, wire,
                     executed, cut, crashes>>
  BY TwoWriters DEF IInv, GatewayOK, TrackerWrites, TrackerTakes, TrackerAnswers,
     Respond, Take, task, gateway
<1>2. HandlerType'
  BY <1>1 DEF IInv, HandlerType, Pc, Replies
<1>3. OpsOK'
  BY <1>1 DEF IInv, OpsOK, Unrecorded
<1>4. ExecOK'
  BY <1>1, ExecGoesOn DEF Unrecorded
<1>5. ListOK' /\ ReplyTellsTheTruth'
  BY <1>1 DEF IInv, ListOK, ReplyTellsTheTruth
<1>. QED
  BY <1>2, <1>3, <1>4, <1>5 DEF TaskOK

(* The health check leaves the list as it met it. *)
LEMMA HealthKeeps ==
    ASSUME IInv, HealthAnswers
    PROVE  TaskOK'
<1>1. /\ pc = "health" /\ pc' = "prepare" /\ reply' \in {"info", "failed"}
      /\ read' \in {read, list} /\ call' = call
      /\ UNCHANGED <<list, op, cmd, draft, before, overtaken, wire, executed, cut,
                     crashes>>
  BY DEF HealthAnswers, ReadAnswer, Respond
<1>2. HandlerType'
  BY <1>1 DEF IInv, HandlerType, Pc, Replies
<1>3. OpsOK'
  BY <1>1 DEF IInv, OpsOK, Unrecorded
<1>4. ExecOK'
  BY <1>1, ExecGoesOn DEF Unrecorded
<1>5. ListOK' /\ ReplyTellsTheTruth'
  BY <1>1 DEF IInv, ListOK, ReplyTellsTheTruth
<1>. QED
  BY <1>2, <1>3, <1>4, <1>5 DEF TaskOK

(* What the reply says stays true while it is sent. *)
LEMMA TruthStays ==
    ASSUME IInv, pc \in {"prepare", "claim", "ask", "send"},
           UNCHANGED <<list, cmd, read, reply, before>>, overtaken => overtaken',
           pc' \in {"prepare", "claim", "ask", "send"}
    PROVE  ListOK' /\ ReplyTellsTheTruth'
BY DEF IInv, ListOK, ReplyTellsTheTruth, Changed

LEMMA PrepareKeeps ==
    ASSUME IInv, Prepare
    PROVE  TaskOK'
<1>1. /\ cmd \in Command /\ op \in [Command -> OpState] /\ op[cmd] = "absent"
      /\ call[Main] = "idle"
  BY DEF IInv, HandlerType, OpsOK, Prepare, Unrecorded
<1>2. /\ op' \in [Command -> OpState] /\ op'[cmd] = "due_not_attempted"
      /\ \A c \in Command : c # cmd => op'[c] = op[c]
  BY <1>1 DEF Prepare, PrepareOutgoing, OpState, NotAttempted, Key
<1>3. UNCHANGED <<call, list, cmd, read, reply, draft, before, overtaken, wire,
                  executed, cut, crashes>> /\ pc = "prepare" /\ pc' = "claim"
  BY DEF Prepare, task, gateway
<1>4. HandlerType'
  BY <1>2, <1>3 DEF IInv, HandlerType, Pc
<1>5. OpsOK'
  BY <1>1, <1>2, <1>3 DEF IInv, OpsOK, NotAttempted, Unrecorded
<1>6. ExecOK'
  <2>1. \A c \in Command : Stands(c)' <=> Stands(c)
    BY <1>1, <1>2, <1>3 DEF Stands, Valid, Unrecorded
  <2>. QED
    BY <1>3, <2>1, ExecStays
<1>7. ListOK' /\ ReplyTellsTheTruth'
  BY <1>3, TruthStays
<1>. QED
  BY <1>4, <1>5, <1>6, <1>7 DEF TaskOK

(* The main task is done with a command whose operation exists. *)
LEMMA DoneKeeps ==
    ASSUME IInv, Done, pc \in {"claim", "send"}, cmd \in Command,
           UNCHANGED <<list, draft, wire, executed, cut, crashes>>,
           op' \in [Command -> OpState], op'[cmd] # "absent",
           op'[cmd] \notin NotAttempted \/ wire[cmd] = 0,
           \A c \in Command : c # cmd => op'[c] = op[c],
           call'[Main] = "idle"
    PROVE  TaskOK'
<1>1. HandlerType'
  BY DEF IInv, HandlerType, Done, Pc, Replies
<1>2. OpsOK'
  BY DEF IInv, OpsOK, Done, Unrecorded
<1>3. ExecOK'
  <2>1. op[cmd] # "absent"
    BY DEF IInv, OpsOK
  <2>2. \A c \in Command : Stands(c)' <=> Stands(c)
    BY <2>1 DEF Stands, Valid, Done, Unrecorded
  <2>. QED
    BY <2>2, ExecStays
<1>4. ListOK' /\ ReplyTellsTheTruth'
  BY DEF Done, ListOK, ReplyTellsTheTruth
<1>. QED
  BY <1>1, <1>2, <1>3, <1>4 DEF TaskOK

LEMMA ClaimKeeps ==
    ASSUME IInv, Claim
    PROVE  TaskOK'
<1>1. /\ cmd \in Command /\ op \in [Command -> OpState] /\ op[cmd] # "absent"
      /\ call[Main] = "idle" /\ pc = "claim"
  BY DEF IInv, HandlerType, OpsOK, Claim
<1>2. UNCHANGED <<call, list, draft, wire, executed, cut, crashes>>
  BY DEF Claim, gateway
<1>3. CASE Claimable(op, cmd) /\ op' = ClaimOutgoing(op, cmd) /\ pc' = "ask" /\ UNCHANGED task
  <2>1. /\ op' \in [Command -> OpState] /\ op'[cmd] = "attempted_uncertain"
        /\ \A c \in Command : c # cmd => op'[c] = op[c]
    BY <1>1, <1>3 DEF ClaimOutgoing, OpState, Attempted, Key
  <2>2. UNCHANGED <<cmd, read, reply, before, overtaken>> /\ pc' = "ask"
    BY <1>3 DEF task
  <2>3. wire[cmd] = 0
    BY <1>1, <1>3 DEF IInv, OpsOK, Claimable, NotAttempted
  <2>4. HandlerType'
    <3>1. {list', read', before'} \cup draft' \subseteq SUBSET Name
      BY <1>2, <2>2 DEF IInv, HandlerType
    <3>2. /\ cmd' \in Command /\ reply' \in Replies /\ overtaken' \in BOOLEAN
          /\ {wire', executed', cut'} \subseteq [Command -> Nat] /\ crashes' \in Nat
      BY <1>1, <1>2, <2>2 DEF IInv, HandlerType
    <3>. QED
      BY <2>1, <2>2, <3>1, <3>2 DEF HandlerType, Pc
  <2>5. OpsOK'
    BY <1>1, <1>2, <1>3, <2>1, <2>2, <2>3 DEF IInv, OpsOK, NotAttempted, Unrecorded
  <2>6. ExecOK'
    <3>1. \A c \in Command : Stands(c)' <=> Stands(c)
      BY <1>1, <2>1, <2>2 DEF Stands, Valid, Unrecorded
    <3>. QED
      BY <1>2, <3>1, ExecStays
  <2>7. ListOK' /\ ReplyTellsTheTruth'
    BY <1>1, <1>2, <1>3, <2>2, TruthStays
  <2>. QED
    BY <2>4, <2>5, <2>6, <2>7 DEF TaskOK
<1>4. CASE ~Claimable(op, cmd) /\ UNCHANGED op /\ Done
  <2>1. op[cmd] \notin NotAttempted \/ wire[cmd] = 0
    BY <1>1 DEF IInv, OpsOK
  <2>. QED
    BY <1>1, <1>2, <1>4, <2>1, DoneKeeps
<1>. QED
  BY <1>3, <1>4 DEF Claim

LEMMA AskReplyKeeps ==
    ASSUME IInv, AskReply
    PROVE  TaskOK'
<1>1. /\ cmd \in Command /\ pc = "ask" /\ pc' = "send"
      /\ op[cmd] = "attempted_uncertain" /\ wire[cmd] = 0
      /\ call'[Main] = "waiting"
      /\ UNCHANGED <<list, op, cmd, read, reply, before, overtaken, draft, wire,
                     executed, cut, crashes>>
  BY TwoWriters DEF IInv, HandlerType, OpsOK, GatewayOK, AskReply, Ask, task
<1>2. HandlerType'
  BY <1>1 DEF IInv, HandlerType, Pc
<1>3. OpsOK'
  BY <1>1 DEF IInv, OpsOK, Requested, Unrecorded
<1>4. ExecOK'
  BY <1>1, ExecGoesOn DEF Unrecorded
<1>5. ListOK' /\ ReplyTellsTheTruth'
  BY <1>1, TruthStays
<1>. QED
  BY <1>2, <1>3, <1>4, <1>5 DEF TaskOK

LEMMA FinishKeeps ==
    ASSUME IInv, Finish
    PROVE  TaskOK'
<1>1. /\ cmd \in Command /\ op \in [Command -> OpState] /\ pc = "send"
      /\ op[cmd] = "attempted_uncertain"
      /\ call[Main] \in Outcome /\ call'[Main] = "idle"
  BY TwoWriters DEF IInv, HandlerType, OpsOK, GatewayOK, Finish, Take
<1>2. OutcomeState(call[Main]) \in Attempted \cup {"skipped"}
  BY <1>1 DEF OutcomeState, Outcome, Attempted
<1>3. /\ op' \in [Command -> OpState]
      /\ op'[cmd] \in Attempted \cup {"skipped"}
      /\ \A c \in Command : c # cmd => op'[c] = op[c]
  BY <1>1, <1>2 DEF Finish, FinishOutgoing, OpState, Key
<1>4. op'[cmd] # "absent" /\ op'[cmd] \notin NotAttempted
  BY <1>3 DEF Attempted, NotAttempted
<1>. QED
  BY <1>1, <1>3, <1>4, DoneKeeps DEF Finish

-----------------------------------------------------------------------------
(* The steps of the others.                                                *)

(* A step that is not the main task's own and counts no RPC of a reply. *)
LEMMA OthersKeep ==
    ASSUME IInv, UNCHANGED <<list, op, pc, task, wire, executed, cut, crashes>>,
           draft' \subseteq SUBSET Name,
           call'[Main] # "idle" => call[Main] # "idle",
           pc = "send" => (call'[Main] \in Requested <=> call[Main] \in Requested)
    PROVE  TaskOK'
<1>1. UNCHANGED <<cmd, read, reply, before, overtaken>>
  BY DEF task
<1>2. HandlerType'
  BY <1>1 DEF IInv, HandlerType
<1>3. OpsOK'
  BY <1>1 DEF IInv, OpsOK
<1>4. ExecOK'
  BY <1>1, ExecGoesOn
<1>5. ListOK' /\ ReplyTellsTheTruth'
  BY <1>1 DEF IInv, ListOK, ReplyTellsTheTruth, Changed
<1>. QED
  BY <1>2, <1>3, <1>4, <1>5 DEF TaskOK

LEMMA GatewayStepKeeps ==
    ASSUME IInv, GatewayStep
    PROVE  TaskOK'
<1>1. PICK w \in Writer :
        /\ Serve(w)
        /\ wire' = IF w = Main /\ pc = "send" /\ Write(w)
                   THEN [wire EXCEPT ![cmd] = @ + 1] ELSE wire
        /\ UNCHANGED <<list, op, pc, task, draft, executed, cut, crashes>>
  BY DEF GatewayStep
<1>2. /\ call \in [Writer -> CallState]
      /\ call'[w] \in Outcome \cup {"rpc"} /\ call[w] \in {"waiting", "rpc"}
      /\ \A v \in Writer \ {w} : call'[v] = call[v]
  BY <1>1 DEF IInv, GatewayOK, Serve, Write, Refuse, Answer, Outcome
<1>3. draft' \subseteq SUBSET Name
  BY <1>1 DEF IInv, HandlerType
<1>4. CASE w = Main /\ pc = "send" /\ Write(w)
  <2>1. /\ cmd \in Command /\ op[cmd] = "attempted_uncertain"
        /\ wire[cmd] = 0 /\ wire \in [Command -> Nat]
        /\ call[Main] = "waiting" /\ call'[Main] = "rpc"
    BY <1>2, <1>4 DEF IInv, HandlerType, OpsOK, Write, Requested
  <2>2. /\ wire' \in [Command -> Nat] /\ wire'[cmd] = 1
        /\ \A c \in Command : c # cmd => wire'[c] = wire[c]
    BY <1>1, <1>4, <2>1
  <2>3. UNCHANGED <<cmd, read, reply, before, overtaken>>
    BY <1>1 DEF task
  <2>4. HandlerType'
    BY <1>1, <2>2, <2>3 DEF IInv, HandlerType
  <2>5. OpsOK'
    BY <1>1, <1>4, <2>1, <2>2, <2>3 DEF IInv, OpsOK, Requested, NotAttempted, Unrecorded
  <2>6. ExecOK'
    BY <1>1, <2>3, ExecGoesOn
  <2>7. ListOK' /\ ReplyTellsTheTruth'
    BY <1>1, <2>3 DEF IInv, ListOK, ReplyTellsTheTruth, Changed
  <2>. QED
    BY <2>4, <2>5, <2>6, <2>7 DEF TaskOK
<1>5. CASE ~(w = Main /\ pc = "send" /\ Write(w))
  <2>1. wire' = wire
    BY <1>1, <1>5
  <2>2. call'[Main] # "idle" => call[Main] # "idle"
    BY <1>2, TwoWriters
  <2>3. ASSUME pc = "send", w = Main
        PROVE  call'[Main] \in Requested <=> call[Main] \in Requested
    <3>1. CASE Refuse(w)
      BY <1>2, <2>3, <3>1, TwoWriters DEF Refuse, Requested
    <3>2. CASE Answer(w)
      BY <1>2, <2>3, <3>2, TwoWriters DEF Answer, Requested, Outcome
    <3>. QED
      BY <1>1, <1>5, <2>3, <3>1, <3>2 DEF Serve
  <2>4. pc = "send" => (call'[Main] \in Requested <=> call[Main] \in Requested)
    BY <1>2, <2>3, TwoWriters
  <2>. QED
    BY <1>1, <1>3, <2>1, <2>2, <2>4, OthersKeep
<1>. QED
  BY <1>4, <1>5

LEMMA TickerKeeps ==
    ASSUME IInv, TickerStep
    PROVE  TaskOK'
<1>1. call'[Main] = call[Main]
  BY TwoWriters DEF IInv, GatewayOK, TickerStep, Ask, Take
<1>2. draft' \subseteq SUBSET Name
  BY DEF IInv, HandlerType, TickerStep
<1>. QED
  BY <1>1, <1>2, OthersKeep DEF TickerStep

LEMMA ImportKeeps ==
    ASSUME IInv, ImportReplace \/ ImportFails \/ \E S \in Import : ImportBegin(S)
    PROVE  TaskOK'
<1>1. CASE ImportReplace
  <2>1. list' \in draft /\ draft' = {} /\ overtaken' = (pc # "idle")
    BY <1>1 DEF ImportReplace
  <2>2. list' \in SUBSET Name
    BY <2>1 DEF IInv, HandlerType
  <2>3. UNCHANGED <<call, op, pc, cmd, read, reply, before, wire, executed, cut, crashes>>
    BY <1>1 DEF ImportReplace, gateway
  <2>4. overtaken' \in BOOLEAN /\ (pc # "idle" => overtaken')
    BY <2>1, Zenon
  <2>5. HandlerType'
    BY <2>1, <2>2, <2>3, <2>4 DEF IInv, HandlerType
  <2>6. OpsOK'
    BY <2>3 DEF IInv, OpsOK
  <2>7. ExecOK'
    BY <2>3, ExecGoesOn
  <2>8. ListOK' /\ ReplyTellsTheTruth'
    BY <2>3, <2>4 DEF IInv, ListOK, ReplyTellsTheTruth
  <2>. QED
    BY <2>5, <2>6, <2>7, <2>8 DEF TaskOK
<1>2. CASE ImportFails \/ \E S \in Import : ImportBegin(S)
  <2>1. /\ call' = call
        /\ UNCHANGED <<list, op, pc, task, wire, executed, cut, crashes>>
    BY <1>2 DEF ImportFails, ImportBegin, gateway
  <2>2. draft' \subseteq SUBSET Name
    BY <1>2, CommandAssumption DEF ImportFails, ImportBegin, Name
  <2>. QED
    BY <2>1, <2>2, OthersKeep
<1>. QED
  BY <1>1, <1>2

(* A crash leaves the file, the operations and the requests sent. *)
LEMMA CrashKeeps ==
    ASSUME IInv, Crash
    PROVE  TaskOK'
<1>1. /\ cut \in [Command -> Nat] /\ cut' \in [Command -> Nat]
      /\ \A c \in Command :
            cut'[c] = IF cmd = c /\ pc \in Unrecorded /\ Valid(c)
                      THEN cut[c] + 1 ELSE cut[c]
  <2>1. cut \in [Command -> Nat] /\ (pc \in Unrecorded => cmd \in Command)
    BY DEF IInv, HandlerType, Unrecorded
  <2>2. CASE pc \in Unrecorded /\ Valid(cmd)
    BY <2>1, <2>2 DEF Crash
  <2>3. CASE ~(pc \in Unrecorded /\ Valid(cmd))
    BY <2>1, <2>3 DEF Crash
  <2>. QED
    BY <2>2, <2>3
<1>2. HandlerType'
  <2>1. {list', read', before'} \cup draft' \subseteq SUBSET Name
    BY DEF IInv, HandlerType, Crash, Done
  <2>2. pc' = "idle" /\ cmd' = NoCommand /\ reply' = "none" /\ overtaken' = FALSE
    BY DEF Crash, Done
  <2>3. /\ op' \in [Command -> OpState] /\ {wire', executed', cut'} \subseteq [Command -> Nat]
        /\ crashes' \in Nat
    BY <1>1 DEF IInv, HandlerType, Crash
  <2>. QED
    BY <2>1, <2>2, <2>3 DEF HandlerType, Pc, Replies
<1>3. OpsOK'
  BY TwoWriters DEF IInv, OpsOK, Crash, Done, GatewayRestart, Unrecorded
<1>4. ExecOK'
  <2>1. op' = op /\ executed' = executed /\ pc' = "idle"
    BY DEF Crash, Done
  <2>2. pc \in Unrecorded => op[cmd] = "absent"
    BY DEF IInv, OpsOK
  <2>3. \A c \in Command : Stands(c)' <=> Valid(c) /\ op[c] # "absent"
    BY <2>1 DEF Stands, Valid, Unrecorded
  <2>4. ASSUME NEW c \in Command
        PROVE  executed'[c] = IF Stands(c)' THEN cut'[c] + 1 ELSE cut'[c]
    <3>1. executed'[c] = IF Stands(c) THEN cut[c] + 1 ELSE cut[c]
      BY <2>1 DEF IInv, ExecOK
    <3>2. CASE cmd = c /\ pc \in Unrecorded /\ Valid(c)
      <4>1. Stands(c) /\ ~Stands(c)' /\ cut'[c] = cut[c] + 1
        BY <1>1, <2>2, <2>3, <3>2 DEF Stands
      <4>. QED
        BY <3>1, <4>1
    <3>3. CASE ~(cmd = c /\ pc \in Unrecorded /\ Valid(c))
      <4>1. (Stands(c)' <=> Stands(c)) /\ cut'[c] = cut[c]
        BY <1>1, <2>3, <3>3 DEF Stands
      <4>. QED
        BY <3>1, <4>1
    <3>. QED
      BY <3>2, <3>3
  <2>. QED
    BY <2>4 DEF ExecOK
<1>5. ListOK' /\ ReplyTellsTheTruth'
  BY DEF Crash, Done, ListOK, ReplyTellsTheTruth
<1>. QED
  BY <1>2, <1>3, <1>4, <1>5 DEF TaskOK

-----------------------------------------------------------------------------
(* The theorems.                                                           *)

(* What a step does to the gateway. *)
GatewayMove ==
    \/ UNCHANGED gateway
    \/ \E w \in Writer : Ask(w) \/ Serve(w) \/ Take(w)
    \/ ReadAnswer
    \/ GatewayRestart /\ crashes' # crashes

LEMMA StepMovesGateway == IInv /\ [Next]_vars => GatewayMove
<1>. SUFFICES ASSUME IInv, [Next]_vars PROVE GatewayMove
  OBVIOUS
<1>1. CASE TrackerWrites \/ TrackerTakes \/ AskReply \/ Finish
  BY <1>1, TwoWriters DEF GatewayMove, TrackerWrites, TrackerTakes, AskReply, Finish
<1>2. CASE GatewayStep
  BY <1>2 DEF GatewayMove, GatewayStep
<1>3. CASE TickerStep
  BY <1>3, TwoWriters DEF GatewayMove, TickerStep
<1>4. CASE HealthAnswers
  BY <1>4 DEF GatewayMove, HealthAnswers
<1>5. CASE Crash
  <2>1. crashes \in Nat /\ crashes' = crashes + 1 /\ GatewayRestart
    BY <1>5 DEF IInv, HandlerType, Crash
  <2>. QED
    BY <2>1 DEF GatewayMove
<1>6. CASE \E c \in Command : Receive(c)
  BY <1>6 DEF GatewayMove, Receive
<1>7. CASE Reject \/ Execute \/ ReadFails \/ Replace \/ ReplaceFails \/ TrackerAnswers
  BY <1>7 DEF GatewayMove, Reject, Execute, ReadFails, Replace, ReplaceFails,
     TrackerAnswers
<1>8. CASE Prepare \/ Claim
  BY <1>8 DEF GatewayMove, Prepare, Claim
<1>9. CASE ImportReplace \/ ImportFails \/ \E S \in Import : ImportBegin(S)
  BY <1>9 DEF GatewayMove, ImportReplace, ImportFails, ImportBegin
<1>10. CASE UNCHANGED vars
  BY <1>10 DEF GatewayMove, vars, gateway
<1>. QED
  BY <1>1, <1>2, <1>3, <1>4, <1>5, <1>6, <1>7, <1>8, <1>9, <1>10 DEF Next, MainStep

(* Every step keeps the gateway in order. *)
LEMMA StepKeepsGateway == IInv /\ [Next]_vars => GatewayOK'
<1>1. GatewayOK /\ GatewayMove => GatewayOK'
  BY AskKeeps, ServeKeeps, TakeKeeps, ReadKeeps, RestartKeeps, GatewayStays
     DEF GatewayMove
<1>. QED
  BY <1>1, StepMovesGateway DEF IInv

LEMMA StepKeepsTask == IInv /\ [Next]_vars => TaskOK'
<1>. SUFFICES ASSUME IInv, [Next]_vars PROVE TaskOK'
  OBVIOUS
<1>1. CASE \E c \in Command : Receive(c)
  BY <1>1, ReceiveKeeps
<1>2. CASE MainStep
  BY <1>2, RejectKeeps, ExecuteKeeps, ReadFailsKeeps, ReplaceKeeps,
     ReplaceFailsKeeps, TrackerKeeps, HealthKeeps, PrepareKeeps, ClaimKeeps, AskReplyKeeps,
     FinishKeeps DEF MainStep
<1>3. CASE GatewayStep
  BY <1>3, GatewayStepKeeps
<1>4. CASE TickerStep
  BY <1>4, TickerKeeps
<1>5. CASE ImportReplace \/ ImportFails \/ \E S \in Import : ImportBegin(S)
  BY <1>5, ImportKeeps
<1>6. CASE Crash
  BY <1>6, CrashKeeps
<1>7. CASE UNCHANGED vars
  <2>1. /\ UNCHANGED <<list, op, pc, task, wire, executed, cut, crashes>>
        /\ UNCHANGED <<call, draft>>
    BY <1>7 DEF vars
  <2>2. draft' \subseteq SUBSET Name
    BY <2>1 DEF IInv, HandlerType
  <2>. QED
    BY <2>1, <2>2, OthersKeep
<1>. QED
  BY <1>1, <1>2, <1>3, <1>4, <1>5, <1>6, <1>7 DEF Next

(* The strengthened invariant: who is in the outgoing lock, what the       *)
(* operation and the RPC of the reply are at each point of a command, how  *)
(* often it was executed, and that the list is the one it met.             *)
THEOREM Inductive == Spec => []IInv
<1>1. IInv /\ [Next]_vars => IInv'
  BY StepKeepsGateway, StepKeepsTask DEF IInv, TaskOK
<1>. QED
  BY <1>1, InitInvariant, PTL DEF Spec

(* The command handler and the outgoing lock stay well typed; the lock is  *)
(* never waited for by more than the two tasks.                            *)
THEOREM TypeCorrect == Spec => []TypeOK
<1>1. IInv => TypeOK
  BY QueueBounded DEF IInv, GatewayOK, HandlerType, TypeOK
<1>. QED
  BY <1>1, Inductive, PTL

(* What a move of the gateway does to the requests that are out. *)
LEMMA MoveLimits ==
    ASSUME GatewayOK, GatewayOK', GatewayMove
    PROVE  /\ \A v, w \in InFlight' : v = w
           /\ breaker' => InFlight' \subseteq InFlight
           /\ \A w \in InFlight : call'[w] = "limited" => breaker' /\ InFlight' = {}
           /\ breaker => breaker' \/ crashes' # crashes
<1>1. \A v, w \in InFlight' : v = w
  BY QueuesDiffer, WriterAssumption DEF GatewayOK, InFlight
<1>2. CASE UNCHANGED gateway
  <2>1. InFlight' = InFlight /\ breaker' = breaker
    BY <1>2 DEF gateway, InFlight
  <2>2. \A w \in InFlight : call'[w] # "limited"
    BY <1>2 DEF gateway, InFlight
  <2>. QED
    BY <1>1, <2>1, <2>2
<1>3. ASSUME NEW w \in Writer, Ask(w) \/ Serve(w) \/ Take(w)
      PROVE  /\ breaker' => InFlight' \subseteq InFlight
             /\ \A v \in InFlight : call'[v] = "limited" => breaker' /\ InFlight' = {}
             /\ breaker => breaker'
  <2>1. /\ call \in [Writer -> CallState] /\ breaker \in BOOLEAN
        /\ \A v, u \in InFlight : v = u
    BY QueuesDiffer, WriterAssumption DEF GatewayOK, InFlight
  <2>2. CASE Ask(w) \/ Refuse(w) \/ Take(w)
    <3>1. /\ breaker' = breaker /\ \A v \in Writer \ {w} : call'[v] = call[v]
          /\ call[w] # "rpc" /\ call'[w] # "rpc"
      BY <2>1, <2>2 DEF Ask, Refuse, Take, Outcome
    <3>. QED
      BY <3>1 DEF InFlight
  <2>3. CASE Write(w)
    <3>1. /\ ~breaker /\ breaker' = breaker /\ call[w] = "waiting"
          /\ \A v \in Writer \ {w} : call'[v] = call[v]
      BY <2>1, <2>3 DEF Write
    <3>. QED
      BY <3>1 DEF InFlight
  <2>4. CASE Answer(w)
    <3>1. PICK outcome \in Outcome \ {"blocked"} :
              call' = [call EXCEPT ![w] = outcome] /\ breaker' = (breaker \/ outcome = "limited")
      BY <2>4 DEF Answer
    <3>2. /\ call[w] = "rpc" /\ call'[w] = outcome /\ outcome # "rpc"
          /\ \A v \in Writer \ {w} : call'[v] = call[v]
      BY <2>1, <2>4, <3>1 DEF Answer, Outcome
    <3>3. InFlight = {w} /\ InFlight' = {}
      BY <2>1, <3>2 DEF InFlight
    <3>4. (outcome = "limited" => breaker') /\ (breaker => breaker')
      BY <3>1
    <3>. QED
      BY <3>2, <3>3, <3>4
  <2>. QED
    BY <1>3, <2>2, <2>3, <2>4 DEF Serve
<1>4. CASE ReadAnswer
  <2>1. InFlight' = InFlight /\ (breaker => breaker') /\ call' = call
    BY <1>4 DEF ReadAnswer, InFlight
  <2>. QED
    BY <1>1, <2>1 DEF InFlight
<1>5. CASE GatewayRestart /\ crashes' # crashes
  <2>1. InFlight' = {} /\ \A w \in Writer : call'[w] = "idle"
    BY <1>5 DEF GatewayRestart, InFlight
  <2>. QED
    BY <1>5, <2>1 DEF InFlight
<1>. QED
  BY <1>1, <1>2, <1>3, <1>4, <1>5 DEF GatewayMove

(* Once a rate limit has been met, by a write or by the health check       *)
(* outside the lock, no request begins until the process restarts, and at  *)
(* most the one already out ends (signal_client.py, rpc).                  *)
THEOREM BreakerStopsWrites == Spec => LimitEndsWrites
<1>1. IInv /\ IInv' /\ [Next]_vars =>
        [/\ \A v, w \in InFlight' : v = w
         /\ breaker' => InFlight' \subseteq InFlight
         /\ \A w \in InFlight : call'[w] = "limited" => breaker' /\ InFlight' = {}
         /\ breaker => breaker' \/ crashes' # crashes]_vars
  BY StepMovesGateway, MoveLimits DEF IInv
<1>. QED
  BY <1>1, Inductive, PTL DEF Spec, LimitEndsWrites

(* A command is executed again only if a crash cut its execution off       *)
(* before its reply operation was recorded: every other execution is the   *)
(* one its operation stands for (commands.py, handle_event).               *)
THEOREM ExecutedOnceUnlessCrashed == Spec => []RepeatedOnlyAfterCrash
<1>1. IInv => RepeatedOnlyAfterCrash
  BY DEF IInv, ExecOK, Stands, RepeatedOnlyAfterCrash
<1>. QED
  BY <1>1, Inductive, PTL

(* What a reply says of the list is so when it is sent, for every sequence *)
(* of commands, failed writes and crashes that no import cuts into         *)
(* (commands.py, _execute).                                                *)
THEOREM RepliesAreTrue == Spec => []ReplyTellsTheTruth
<1>1. IInv => ReplyTellsTheTruth
  BY DEF IInv
<1>. QED
  BY <1>1, Inductive, PTL

-----------------------------------------------------------------------------
(* The ledger.                                                             *)

LEMMA EntryType ==
    /\ \A state \in OpState : LedgerEntry(state) \in Ledger!Entry
    /\ \A state \in {"absent"} \cup NotAttempted : LedgerEntry(state) = "open"
BY DEF OpState, NotAttempted, Attempted, LedgerEntry, Ledger!Entry

(* A step of the ledger is a step of the entry of the command in hand; the *)
(* others stay. *)
LEMMA OneEntryMoves ==
    ASSUME IInv, TaskOK', cmd \in Command,
           \A c \in Command : c # cmd => op'[c] = op[c] /\ wire'[c] = wire[c],
           \/ Ledger!Stays(cmd) \/ Ledger!Claims(cmd) \/ Ledger!Sends(cmd)
           \/ Ledger!Records(cmd) \/ Ledger!Blocks(cmd)
    PROVE  Ledger!LedgerNext
<1>1. op' \in [Command -> OpState] /\ wire' \in [Command -> 0 .. 1]
  BY DEF TaskOK, HandlerType, OpsOK
<1>2. \A c \in Command : c # cmd => Ledger!Stays(c)
  BY DEF Ledger!Stays
<1>. QED
  BY <1>1, <1>2, EntryType DEF Ledger!LedgerNext, Key

LEMMA PrepareLedger ==
    ASSUME IInv, Prepare
    PROVE  Ledger!LedgerNext
<1>1. cmd \in Command /\ op \in [Command -> OpState] /\ op[cmd] = "absent"
  BY DEF IInv, HandlerType, OpsOK, Prepare, Unrecorded
<1>2. Ledger!Stays(cmd)
  BY <1>1, EntryType DEF Prepare, PrepareOutgoing, Key, NotAttempted, Ledger!Stays
<1>3. \A c \in Command : c # cmd => op'[c] = op[c] /\ wire'[c] = wire[c]
  BY <1>1 DEF Prepare, PrepareOutgoing, Key
<1>. QED
  BY <1>1, <1>2, <1>3, PrepareKeeps, OneEntryMoves

LEMMA ClaimLedger ==
    ASSUME IInv, Claim, ~UNCHANGED op
    PROVE  Ledger!LedgerNext
<1>1. /\ cmd \in Command /\ op \in [Command -> OpState] /\ wire' = wire
      /\ op[cmd] = "due_not_attempted" /\ op' = ClaimOutgoing(op, cmd)
  BY DEF IInv, HandlerType, Claim, Claimable
<1>2. Ledger!Claims(cmd)
  BY <1>1 DEF ClaimOutgoing, Key, LedgerEntry, NotAttempted, Ledger!Claims
<1>3. \A c \in Command : c # cmd => op'[c] = op[c] /\ wire'[c] = wire[c]
  BY <1>1 DEF ClaimOutgoing, Key
<1>. QED
  BY <1>1, <1>2, <1>3, ClaimKeeps, OneEntryMoves

LEMMA FinishLedger ==
    ASSUME IInv, Finish
    PROVE  Ledger!LedgerNext
<1>1. /\ cmd \in Command /\ op \in [Command -> OpState] /\ wire' = wire
      /\ op[cmd] = "attempted_uncertain" /\ call[Main] \in Outcome
      /\ wire[cmd] = IF call[Main] \in Requested THEN 1 ELSE 0
  BY TwoWriters DEF IInv, HandlerType, OpsOK, Finish, Take
<1>2. /\ op'[cmd] = OutcomeState(call[Main])
      /\ \A c \in Command : c # cmd => op'[c] = op[c] /\ wire'[c] = wire[c]
  BY <1>1 DEF Finish, FinishOutgoing, Key
<1>3. ASSUME call[Main] \in {"sent", "refused", "limited"}
      PROVE  Ledger!Records(cmd)
  <2>1. op'[cmd] \in {"attempted_success", "attempted_failed"} /\ wire[cmd] = 1
    BY <1>1, <1>2, <1>3 DEF OutcomeState, Requested
  <2>. QED
    BY <1>1, <2>1 DEF LedgerEntry, NotAttempted, Ledger!Records
<1>4. ASSUME call[Main] = "lost"
      PROVE  Ledger!Stays(cmd)
  BY <1>1, <1>2, <1>4 DEF OutcomeState, Ledger!Stays
<1>5. ASSUME call[Main] = "blocked"
      PROVE  Ledger!Blocks(cmd)
  <2>1. op'[cmd] = "skipped" /\ wire[cmd] = 0
    BY <1>1, <1>2, <1>5 DEF OutcomeState, Requested
  <2>. QED
    BY <1>1, <2>1 DEF LedgerEntry, NotAttempted, Ledger!Blocks
<1>6. call[Main] \in {"sent", "refused", "limited", "lost", "blocked"}
  BY <1>1 DEF Outcome
<1>. QED
  BY <1>1, <1>2, <1>3, <1>4, <1>5, <1>6, FinishKeeps, OneEntryMoves

LEMMA SendLedger ==
    ASSUME IInv, GatewayStep, ~UNCHANGED wire
    PROVE  Ledger!LedgerNext
<1>1. /\ pc = "send" /\ call[Main] = "waiting" /\ op' = op
      /\ wire' = [wire EXCEPT ![cmd] = @ + 1]
  BY DEF GatewayStep, Write
<1>2. /\ cmd \in Command /\ wire \in [Command -> Nat]
      /\ op[cmd] = "attempted_uncertain" /\ wire[cmd] = 0
  BY <1>1 DEF IInv, HandlerType, OpsOK, Requested
<1>3. Ledger!Sends(cmd)
  BY <1>1, <1>2 DEF LedgerEntry, NotAttempted, Ledger!Sends
<1>4. \A c \in Command : c # cmd => op'[c] = op[c] /\ wire'[c] = wire[c]
  BY <1>1, <1>2
<1>. QED
  BY <1>2, <1>3, <1>4, GatewayStepKeeps, OneEntryMoves

ReplyStep ==
    \/ Prepare
    \/ Claim /\ ~UNCHANGED op
    \/ Finish
    \/ GatewayStep /\ ~UNCHANGED wire

(* Every other step leaves the operations and their RPCs alone. *)
LEMMA RestLedger ==
    [Next]_vars => UNCHANGED <<op, wire>> \/ ReplyStep
<1>. SUFFICES ASSUME [Next]_vars PROVE UNCHANGED <<op, wire>> \/ ReplyStep
  OBVIOUS
<1>1. CASE \E c \in Command : Receive(c)
  BY <1>1 DEF Receive
<1>2. CASE Reject \/ Execute \/ ReadFails \/ Replace \/ ReplaceFails
  BY <1>2 DEF Reject, Execute, ReadFails, Replace, ReplaceFails
<1>3. CASE \/ TrackerWrites \/ TrackerTakes \/ TrackerAnswers \/ HealthAnswers
           \/ AskReply \/ TickerStep
  BY <1>3 DEF TrackerWrites, TrackerTakes, TrackerAnswers, HealthAnswers, AskReply,
     TickerStep
<1>4. CASE Claim /\ UNCHANGED op
  BY <1>4 DEF Claim
<1>5. CASE GatewayStep /\ UNCHANGED wire
  BY <1>5 DEF GatewayStep
<1>6. CASE ImportReplace \/ ImportFails \/ \E S \in Import : ImportBegin(S)
  BY <1>6 DEF ImportReplace, ImportFails, ImportBegin
<1>7. CASE Crash \/ UNCHANGED vars
  BY <1>7 DEF Crash, vars
<1>. QED
  BY <1>1, <1>2, <1>3, <1>4, <1>5, <1>6, <1>7 DEF Next, MainStep, ReplyStep

(* The replies implement the at-most-once ledger: a reply is claimed       *)
(* before its RPC, sent at most once, and stays claimed when its answer or *)
(* the process is lost (outgoing.py, attempt_outgoing_once).               *)
THEOREM RepliesRefineLedger == Spec => RepliesImplementLedger
<1>1. Init => Ledger!LedgerInit
  BY DEF Init, Ledger!LedgerInit, LedgerEntry, Key
<1>2. IInv /\ [Next]_vars => [Ledger!LedgerNext]_<<[c \in Command |-> LedgerEntry(op[c])], wire>>
  <2>. SUFFICES ASSUME IInv, [Next]_vars
                PROVE  \/ Ledger!LedgerNext
                       \/ UNCHANGED <<[c \in Command |-> LedgerEntry(op[c])], wire>>
    OBVIOUS
  <2>1. CASE UNCHANGED <<op, wire>>
    <3>1. op' = op /\ wire' = wire
      BY <2>1
    <3>2. \A c \in Command : LedgerEntry(op[c])' = LedgerEntry(op[c])
      BY <3>1
    <3>. QED
      BY <3>1, <3>2
  <2>2. CASE ReplyStep
    BY <2>2, PrepareLedger, ClaimLedger, FinishLedger, SendLedger DEF ReplyStep
  <2>. QED
    BY <2>1, <2>2, RestLedger
<1>. QED
  BY <1>1, <1>2, Inductive, PTL DEF Spec, RepliesImplementLedger, Ledger!LedgerSpec
=============================================================================
