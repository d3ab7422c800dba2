--------------------------- MODULE CommandHandler ---------------------------
(***************************************************************************)
(* The Signal commands of ShelterCheck (commands.py) over the released     *)
(* list (released_list.py), beside the tracker's own writes to Signal and  *)
(* the separate process of "released import" (admin_cli.py).               *)
(*                                                                         *)
(* The main task handles one command at a time: it executes it, records    *)
(* the reply operation, claims it, sends it and records the outcome.  The  *)
(* ticker may write a report meanwhile.  A crash loses the task, the lock  *)
(* and the breaker; the file and the operations stay.  A command of an     *)
(* allowed author may be delivered any number of times; one the handler    *)
(* ignores, because its author is not allowed or its token is unknown,     *)
(* changes nothing and is left out.                                        *)
(*                                                                         *)
(* The list is a set of names: order, and the duplicates only a hand edit  *)
(* can introduce, are left out.                                            *)
(***************************************************************************)
EXTENDS SignalClient, Naturals, FiniteSets

CONSTANTS
    Command,        \* commands that may be delivered, as records:
                    \*   token, names, wellformed
    Roster,         \* display names of the roster
    InitialList,    \* the released list at the start
    Import,         \* lists an administrator may import
    MaxCrashes      \* bound on the crashes

ASSUME CommandAssumption ==
    /\ Command # {}
    /\ \A c \in Command :
          /\ c.token \in {"set", "add", "del", "clear", "get", "check", "status"}
          /\ c.wellformed \in BOOLEAN
    /\ \A S \in Import : S \subseteq Roster
    /\ MaxCrashes \in Nat

Key == Command                      \* one reply operation for each message
INSTANCE OutgoingOperations

Main == "main"
Ticker == "ticker"
ASSUME WriterAssumption == Writer = {Main, Ticker}

VARIABLES
    list,       \* released_today.txt
    op,         \* outgoing_operations of the replies
    pc,         \* where the main task is
    cmd,        \* the command it handles
    read,       \* the list it has read
    reply,      \* what its reply says of the list
    draft,      \* lists being imported: written to a temporary file
    before,     \* ghost: the list when the command was taken up
    overtaken,  \* ghost: an import replaced the list since then
    wire,       \* ghost: RPCs issued for each reply
    executed,   \* ghost: how often each command was executed
    cut,        \* ghost: how many of these executions a crash cut off before
                \*   the reply operation was recorded
    crashes     \* ghost: crashes so far

task == <<cmd, read, reply, before, overtaken>>
vars == <<queue, breaker, call, list, op, pc, task, draft, wire, executed, cut, crashes>>

NoCommand == [token |-> "none", names |-> {}, wellformed |-> FALSE]

Replies == {"none", "updated", "no_change", "failed", "invalid", "info"}
Reading == {"add", "del", "get"}

Pc == {"idle", "execute", "replace", "tracker", "health", "prepare", "claim", "ask",
       "send"}

(* A command is carried out, and its reply operation not yet recorded.     *)
Unrecorded == {"replace", "tracker", "health", "prepare"}

Init ==
    /\ GatewayInit
    /\ list = InitialList
    /\ op = [c \in Command |-> "absent"]
    /\ pc = "idle"
    /\ cmd = NoCommand /\ read = {} /\ reply = "none"
    /\ before = {} /\ overtaken = FALSE
    /\ draft = {}
    /\ wire = [c \in Command |-> 0]
    /\ executed = [c \in Command |-> 0]
    /\ cut = [c \in Command |-> 0]
    /\ crashes = 0

-----------------------------------------------------------------------------
(* _execute.  Reading and replacing the list is one stretch of the event   *)
(* loop, but the import of another process and a crash can fall into it.   *)

(* /delrt also takes names that have left the roster. *)
Valid(c) ==
    /\ c.wellformed
    /\ c.token \in {"set", "add", "del"} => c.names # {}
    /\ c.token \in {"set", "add"} => c.names \subseteq Roster

(* Mutant: /addrt writes the additions alone. *)
Updated_AddReplaces(c, current) ==
    CASE c.token = "del" -> current \ c.names
      [] c.token \in {"set", "add"} -> c.names
      [] c.token = "clear" -> {}

Updated(c, current) ==
    CASE c.token = "add" -> current \cup c.names
      [] c.token = "del" -> current \ c.names
      [] c.token = "set" -> c.names
      [] c.token = "clear" -> {}

(* /setrt and /clearrt write whatever the list is. *)
Writes(c, current) ==
    \/ c.token \in {"set", "clear"}
    \/ c.token \in {"add", "del"} /\ Updated(c, current) # current

(* Mutant: the recorded reply operation is not looked up. *)
Receive_Again(c) ==
    /\ pc = "idle"
    /\ pc' = "execute"
    /\ cmd' = c /\ read' = {} /\ reply' = "none"
    /\ before' = list /\ overtaken' = FALSE
    /\ UNCHANGED <<gateway, list, op, draft, wire, executed, cut, crashes>>

Receive(c) ==
    /\ pc = "idle"
    /\ op[c] = "absent"
    /\ pc' = "execute"
    /\ cmd' = c /\ read' = {} /\ reply' = "none"
    /\ before' = list /\ overtaken' = FALSE
    /\ UNCHANGED <<gateway, list, op, draft, wire, executed, cut, crashes>>

Done ==
    /\ pc' = "idle"
    /\ cmd' = NoCommand /\ read' = {} /\ reply' = "none"
    /\ before' = {} /\ overtaken' = FALSE

Respond(with) == pc' = "prepare" /\ reply' = with

Reject ==
    /\ pc = "execute"
    /\ ~Valid(cmd)
    /\ Respond("invalid")
    /\ UNCHANGED <<gateway, list, op, cmd, read, draft, before, overtaken,
                   wire, executed, cut, crashes>>

Execute ==
    /\ pc = "execute"
    /\ Valid(cmd)
    /\ executed' = [executed EXCEPT ![cmd] = @ + 1]
    /\ read' = IF cmd.token \in Reading THEN list ELSE read
    /\ CASE cmd.token = "check" -> pc' = "tracker" /\ UNCHANGED reply
         [] cmd.token = "status" -> pc' = "health" /\ UNCHANGED reply
         [] cmd.token = "get" -> Respond("info")
         [] Writes(cmd, list) -> pc' = "replace" /\ UNCHANGED reply
         [] OTHER -> Respond("no_change")
    /\ UNCHANGED <<gateway, list, op, cmd, draft, before, overtaken, wire, cut, crashes>>

(* The list cannot be read. *)
ReadFails ==
    /\ pc = "execute"
    /\ Valid(cmd) /\ cmd.token \in Reading
    /\ executed' = [executed EXCEPT ![cmd] = @ + 1]
    /\ Respond("failed")
    /\ UNCHANGED <<gateway, list, op, cmd, read, draft, before, overtaken,
                   wire, cut, crashes>>

(* os.replace publishes the temporary file. *)
Replace ==
    /\ pc = "replace"
    /\ list' = Updated(cmd, read)
    /\ Respond("updated")
    /\ UNCHANGED <<gateway, op, cmd, read, draft, before, overtaken,
                   wire, executed, cut, crashes>>

(* The temporary file cannot be written, synced or renamed. *)
ReplaceFails ==
    /\ pc = "replace"
    /\ Respond("failed")
    /\ UNCHANGED <<gateway, list, op, cmd, read, draft, before, overtaken,
                   wire, executed, cut, crashes>>

(* /check: the tracker may send a report, and gives its result. *)
TrackerWrites ==
    /\ pc = "tracker"
    /\ Ask(Main)
    /\ UNCHANGED <<list, op, pc, task, draft, wire, executed, cut, crashes>>

TrackerTakes ==
    /\ pc = "tracker"
    /\ Take(Main)
    /\ Respond("info")
    /\ UNCHANGED <<list, op, cmd, read, draft, before, overtaken,
                   wire, executed, cut, crashes>>

TrackerAnswers ==
    /\ pc = "tracker"
    /\ call[Main] = "idle"
    /\ Respond("info")
    /\ UNCHANGED <<gateway, list, op, cmd, read, draft, before, overtaken,
                   wire, executed, cut, crashes>>

(* /status: what the health check fails with is dropped, and only then the *)
(* list is read.                                                           *)
HealthAnswers ==
    /\ pc = "health"
    /\ ReadAnswer
    /\ \/ read' = list /\ Respond("info")
       \/ UNCHANGED read /\ Respond("failed")
    /\ UNCHANGED <<list, op, cmd, draft, before, overtaken,
                   wire, executed, cut, crashes>>

-----------------------------------------------------------------------------
(* The reply: attempt_outgoing_once.                                       *)

Prepare ==
    /\ pc = "prepare"
    /\ op' = PrepareOutgoing(op, cmd, "due_not_attempted")
    /\ pc' = "claim"
    /\ UNCHANGED <<gateway, list, task, draft, wire, executed, cut, crashes>>

Claim ==
    /\ pc = "claim"
    /\ IF Claimable(op, cmd)
       THEN op' = ClaimOutgoing(op, cmd) /\ pc' = "ask" /\ UNCHANGED task
       ELSE UNCHANGED op /\ Done
    /\ UNCHANGED <<gateway, list, draft, wire, executed, cut, crashes>>

AskReply ==
    /\ pc = "ask"
    /\ Ask(Main)
    /\ pc' = "send"
    /\ UNCHANGED <<list, op, task, draft, wire, executed, cut, crashes>>

(* Mutant: a reply whose answer was lost is due again. *)
OutcomeState_RetryLost(outcome) ==
    CASE outcome = "sent" -> "attempted_success"
      [] outcome \in {"refused", "limited"} -> "attempted_failed"
      [] outcome = "lost" -> "due_not_attempted"
      [] outcome = "blocked" -> "skipped"

OutcomeState(outcome) ==
    CASE outcome = "sent" -> "attempted_success"
      [] outcome \in {"refused", "limited"} -> "attempted_failed"
      [] outcome = "lost" -> "attempted_uncertain"
      [] outcome = "blocked" -> "skipped"

Finish ==
    /\ pc = "send"
    /\ Take(Main)
    /\ op' = FinishOutgoing(op, cmd, OutcomeState(call[Main]))
    /\ Done
    /\ UNCHANGED <<list, draft, wire, executed, cut, crashes>>

MainStep == \/ Reject \/ Execute \/ ReadFails \/ Replace \/ ReplaceFails
            \/ TrackerWrites \/ TrackerTakes \/ TrackerAnswers \/ HealthAnswers
            \/ Prepare \/ Claim \/ AskReply \/ Finish

-----------------------------------------------------------------------------
(* What else happens.                                                      *)

(* A write of the main task or of the tracker makes progress. *)
GatewayStep ==
    \E w \in Writer :
        /\ Serve(w)
        /\ wire' = IF w = Main /\ pc = "send" /\ Write(w)
                   THEN [wire EXCEPT ![cmd] = @ + 1] ELSE wire
        /\ UNCHANGED <<list, op, pc, task, draft, executed, cut, crashes>>

(* The ticker's reports. *)
TickerStep ==
    /\ Ask(Ticker) \/ Take(Ticker)
    /\ UNCHANGED <<list, op, pc, task, draft, wire, executed, cut, crashes>>

(* "released import" in a process of its own: it reads only its source.    *)
ImportBegin(S) ==
    /\ draft = {}
    /\ draft' = {S}
    /\ UNCHANGED <<gateway, list, op, pc, task, wire, executed, cut, crashes>>

ImportReplace ==
    /\ draft # {}
    /\ \E S \in draft : list' = S
    /\ draft' = {}
    /\ overtaken' = (pc # "idle")
    /\ UNCHANGED <<gateway, op, pc, cmd, read, reply, before,
                   wire, executed, cut, crashes>>

ImportFails ==
    /\ draft # {}
    /\ draft' = {}
    /\ UNCHANGED <<gateway, list, op, pc, task, wire, executed, cut, crashes>>

Crash ==
    /\ crashes < MaxCrashes
    /\ crashes' = crashes + 1
    /\ cut' = IF pc \in Unrecorded /\ Valid(cmd)
              THEN [cut EXCEPT ![cmd] = @ + 1] ELSE cut
    /\ GatewayRestart
    /\ Done
    /\ UNCHANGED <<list, op, draft, wire, executed>>

Next == \/ \E c \in Command : Receive(c)
        \/ MainStep \/ GatewayStep \/ TickerStep
        \/ \E S \in Import : ImportBegin(S)
        \/ ImportReplace \/ ImportFails \/ Crash

Spec == Init /\ [][Next]_vars

-----------------------------------------------------------------------------
(* Properties.                                                             *)

Name == Roster \cup InitialList \cup UNION {c.names : c \in Command}

TypeOK ==
    /\ queue \in Seq(Writer) /\ Len(queue) <= 2
    /\ breaker \in BOOLEAN
    /\ call \in [Writer -> CallState]
    /\ op \in [Command -> OpState]
    /\ pc \in Pc
    /\ cmd \in Command \cup {NoCommand} /\ (pc # "idle" => cmd \in Command)
    /\ {list, read, before} \cup draft \subseteq SUBSET Name
    /\ reply \in Replies
    /\ overtaken \in BOOLEAN
    /\ {wire, executed, cut} \subseteq [Command -> Nat]
    /\ crashes \in Nat

(* What the reply says of the list holds when it is sent, unless another   *)
(* process has replaced the list meanwhile: "updated" means that exactly   *)
(* the change asked for was made to the list the command met, any other    *)
(* answer that the list is unchanged.                                      *)
Changed ==
    LET added == list \ before
        removed == before \ list
    IN CASE cmd.token = "set" -> list = cmd.names
         [] cmd.token = "clear" -> list = {}
         [] cmd.token = "add" -> /\ added # {} /\ removed = {}
                                 /\ added \subseteq cmd.names /\ cmd.names \subseteq list
         [] cmd.token = "del" -> /\ removed # {} /\ added = {}
                                 /\ removed \subseteq cmd.names
                                 /\ cmd.names \cap list = {}
         [] OTHER -> FALSE

ReplyTellsTheTruth ==
    pc \in {"prepare", "claim", "ask", "send"} /\ ~overtaken =>
        /\ reply = "updated" => Changed
        /\ reply # "updated" => list = before
        /\ reply = "no_change" => /\ cmd.token = "add" => cmd.names \subseteq list
                                  /\ cmd.token = "del" => cmd.names \cap list = {}

(* Every execution of a command is the one that its reply operation, or    *)
(* the main task at this moment, stands for, or a crash cut it off before  *)
(* the operation was recorded: no other redelivery and no other crash      *)
(* makes the handler execute a command again.                              *)
RepeatedOnlyAfterCrash ==
    \A c \in Command :
        LET underway == cmd = c /\ pc \in Unrecorded
        IN executed[c] = IF Valid(c) /\ (op[c] # "absent" \/ underway)
                         THEN cut[c] + 1 ELSE cut[c]

(* The reply operations implement the at-most-once ledger, as those of the *)
(* tracker do.                                                             *)
Ledger == INSTANCE OutgoingLedger
            WITH entry <- [c \in Command |-> LedgerEntry(op[c])], sent <- wire
RepliesImplementLedger == Ledger!LedgerSpec

(* A rate limit ends the writes: once the breaker has tripped no request   *)
(* begins before the process restarts.  The write that meets the limit was *)
(* the only one; when the health check meets it, at most one write is      *)
(* under way.                                                              *)
InFlight == {w \in Writer : call[w] = "rpc"}

LimitEndsWrites ==
    [][/\ \A v, w \in InFlight' : v = w
       /\ breaker' => InFlight' \subseteq InFlight
       /\ \A w \in InFlight : call'[w] = "limited" => breaker' /\ InFlight' = {}
       /\ breaker => breaker' \/ crashes' # crashes]_vars

(* Liveness.  An RPC, read or write, ends by its request timeout, the lock *)
(* is served in order, and everything else the main task does is local.    *)
Fairness == WF_vars(MainStep) /\ WF_vars(GatewayStep)
FairSpec == Spec /\ Fairness

(* A command is answered, refused or given up, so that the next Signal     *)
(* event is read, whatever the ticker writes meanwhile.                    *)
CommandsSettle == pc # "idle" ~> pc = "idle"
=============================================================================
