----------------------------- MODULE EventStream -----------------------------
(***************************************************************************)
(* The incoming side of signal_client.py: events() keeps one server-sent   *)
(* event stream from signal-cli, reconnects with a bounded backoff, and    *)
(* _iter_sse_json puts the lines of each event together.                   *)
(*                                                                         *)
(* signal-cli publishes the events 1, 2, ... in order, each as some data   *)
(* lines and a blank one, with comments in between, and does not repeat    *)
(* what was published while nobody was connected.  A connection may end in *)
(* good order or break at any line.  While the main task handles an event  *)
(* the generator is suspended and lines queue up.                          *)
(***************************************************************************)
EXTENDS Naturals, Sequences, SequencesExt

CONSTANTS
    Events,         \* how many events signal-cli publishes
    DataLines,      \* how many data lines each is sent in
    Form,           \* what each is: "object", other JSON, malformed, undecodable
    Initial,        \* reconnect_initial_seconds
    Maximal,        \* reconnect_max_seconds
    MaxLines,       \* bound on the lines that queue up
    MaxFailures     \* bound on the ghost failures

Event == 1 .. Events

ASSUME StreamAssumption ==
    /\ Events \in Nat
    /\ DataLines \in [Event -> Nat \ {0}]
    /\ Form \in [Event -> {"object", "other", "malformed", "undecodable"}]
    /\ Initial \in Nat \ {0} /\ Maximal \in Nat /\ Initial <= Maximal
    /\ MaxLines \in Nat /\ MaxFailures \in Nat /\ Initial * 2^MaxFailures >= Maximal

VARIABLES
    up,         \* whether signal-cli serves its event stream
    next,       \* the event it publishes next
    sent,       \* how many data lines of it are sent
    lines,      \* what the connection still holds for the client
    pending,    \* data_lines
    pc,         \* where the generator is
    received,   \* received_any
    backoff,
    log,        \* ghost: events yielded to the main task
    failures    \* ghost: attempts since the last event that yielded none

daemon == <<up, next, sent>>
vars == <<daemon, lines, pending, pc, received, backoff, log, failures>>

Data(e, n) == [kind |-> "data", event |-> e, part |-> n]
Other(kind) == [kind |-> kind, event |-> 0, part |-> 0]

Init ==
    /\ up = TRUE /\ next = 1 /\ sent = 0
    /\ lines = <<>> /\ pending = <<>>
    /\ pc = "connect" /\ received = FALSE /\ backoff = Initial
    /\ log = <<>> /\ failures = 0

-----------------------------------------------------------------------------
(* signal-cli.                                                             *)

Ended == lines # <<>> /\ Last(lines).kind \in {"end", "reset"}
Connected == pc \in {"read", "handle"} /\ ~Ended

SendLine ==
    /\ Connected /\ up /\ next \in Event /\ Len(lines) < MaxLines
    /\ IF sent < DataLines[next]
       THEN /\ lines' = Append(lines, Data(next, sent + 1))
            /\ sent' = sent + 1 /\ UNCHANGED next
       ELSE /\ lines' = Append(lines, Other("blank"))
            /\ next' = next + 1 /\ sent' = 0
    /\ UNCHANGED <<up, pending, pc, received, backoff, log, failures>>

SendComment ==
    /\ Connected /\ up /\ Len(lines) < MaxLines
    /\ lines' = Append(lines, Other("comment"))
    /\ UNCHANGED <<daemon, pending, pc, received, backoff, log, failures>>

(* The event it was sending is gone. *)
Abandon == next' = (IF sent > 0 THEN next + 1 ELSE next) /\ sent' = 0

(* The stream is closed in good order, or the connection breaks, or stays  *)
(* silent for sse_read_timeout_seconds. *)
EndStream ==
    /\ Connected
    /\ lines' \in {Append(lines, Other("end")), <<Other("reset")>>}
    /\ Abandon
    /\ UNCHANGED <<up, pending, pc, received, backoff, log, failures>>

PublishUnheard ==
    /\ ~Connected /\ next \in Event
    /\ next' = next + 1
    /\ UNCHANGED <<up, sent, lines, pending, pc, received, backoff, log, failures>>

GoesDown ==
    /\ up /\ up' = FALSE
    /\ Abandon
    /\ lines' = IF Connected THEN <<Other("reset")>> ELSE lines
    /\ UNCHANGED <<pending, pc, received, backoff, log, failures>>

ComesUp ==
    /\ ~up /\ up' = TRUE
    /\ UNCHANGED <<next, sent, lines, pending, pc, received, backoff, log, failures>>

DaemonStep == SendLine \/ SendComment \/ EndStream \/ PublishUnheard \/ GoesDown \/ ComesUp

-----------------------------------------------------------------------------
(* events                                                                  *)

(* Mutant: lines of a broken event survive into the next connection. *)
Connect_KeepsPending ==
    /\ pc = "connect" /\ up
    /\ pc' = "read" /\ received' = FALSE
    /\ UNCHANGED <<daemon, lines, pending, backoff, log, failures>>

Connect ==
    /\ pc = "connect" /\ up
    /\ pc' = "read" /\ received' = FALSE
    /\ pending' = <<>>
    /\ UNCHANGED <<daemon, lines, backoff, log, failures>>

ConnectFails ==
    /\ pc = "connect" /\ ~up
    /\ pc' = "sleep" /\ received' = FALSE
    /\ UNCHANGED <<daemon, lines, pending, backoff, log, failures>>

(* Mutant: an attempt that yielded events is backed off from all the same. *)
Wake_AlwaysDoubles ==
    /\ pc = "sleep"
    /\ pc' = "connect"
    /\ backoff' = IF backoff * 2 < Maximal THEN backoff * 2 ELSE Maximal
    /\ failures' = IF received \/ failures = MaxFailures THEN failures ELSE failures + 1
    /\ UNCHANGED <<daemon, lines, pending, received, log>>

Wake ==
    /\ pc = "sleep"
    /\ pc' = "connect"
    /\ IF received
       THEN UNCHANGED <<backoff, failures>>
       ELSE /\ backoff' = IF backoff * 2 < Maximal THEN backoff * 2 ELSE Maximal
            /\ failures' = IF failures = MaxFailures THEN failures ELSE failures + 1
    /\ UNCHANGED <<daemon, lines, pending, received, log>>

Handled ==
    /\ pc = "handle"
    /\ pc' = "read"
    /\ UNCHANGED <<daemon, lines, pending, received, backoff, log, failures>>

-----------------------------------------------------------------------------
(* _iter_sse_json                                                          *)

(* The lines together are the JSON of one event; a part of it, or parts of *)
(* two, are not. *)
Text(e) == [n \in 1 .. DataLines[e] |-> Data(e, n)]

Payload == {e \in Event : Form[e] = "object" /\ pending = Text(e)}

Yield(e) ==
    /\ log' = Append(log, e)
    /\ received' = TRUE /\ backoff' = Initial /\ failures' = 0
    /\ pc' = "handle"

Ignore == UNCHANGED <<received, backoff, log, failures, pc>>

Decodes(line) == line.kind = "data" => Form[line.event] # "undecodable"

ReadData ==
    /\ Head(lines).kind = "data" /\ Decodes(Head(lines))
    /\ pending' = Append(pending, Head(lines))
    /\ lines' = Tail(lines)
    /\ Ignore

ReadComment ==
    /\ Head(lines).kind = "comment"
    /\ lines' = Tail(lines)
    /\ Ignore /\ UNCHANGED pending

ReadBlank ==
    /\ Head(lines).kind = "blank"
    /\ lines' = Tail(lines)
    /\ pending' = <<>>
    /\ IF Payload = {} THEN Ignore ELSE \E e \in Payload : Yield(e)

(* What is pending at the end of the stream is still an event if it is     *)
(* complete; the generator then ends when it is resumed.                   *)
ReadEnd ==
    /\ Head(lines).kind = "end" /\ Payload # {}
    /\ pending' = <<>>
    /\ \E e \in Payload : Yield(e)
    /\ UNCHANGED lines

Read ==
    /\ pc = "read" /\ lines # <<>>
    /\ ReadData \/ ReadComment \/ ReadBlank \/ ReadEnd
    /\ UNCHANGED daemon

Broken ==
    \/ Head(lines).kind = "reset"
    \/ Head(lines).kind = "end" /\ Payload = {}

(* Mutant: a line that is not UTF-8 is not caught and ends the generator.  *)
Fail_Uncaught ==
    /\ pc = "read" /\ lines # <<>>
    /\ Broken \/ ~Decodes(Head(lines))
    /\ pc' = IF Broken THEN "sleep" ELSE "dead"
    /\ lines' = <<>>
    /\ Abandon
    /\ UNCHANGED <<up, pending, received, backoff, log, failures>>

(* An error of the connection, its end, or a line that is not UTF-8.       *)
Fail ==
    /\ pc = "read" /\ lines # <<>>
    /\ Broken \/ ~Decodes(Head(lines))
    /\ pc' = "sleep"
    /\ lines' = <<>>
    /\ Abandon
    /\ UNCHANGED <<up, pending, received, backoff, log, failures>>

ClientStep == Connect \/ ConnectFails \/ Wake \/ Handled \/ Read \/ Fail

Next == DaemonStep \/ ClientStep

Spec == Init /\ [][Next]_vars

(* The generator goes on and the main task comes back for the next event;  *)
(* nothing is assumed of signal-cli.                                       *)
FairSpec == Spec /\ WF_vars(ClientStep)

-----------------------------------------------------------------------------
(* Properties.                                                             *)

(* The events of which all data lines are under way.  The blank line may   *)
(* be missing: the end of the stream can stand for it.                     *)
Arriving(e) ==
    /\ pc \in {"read", "handle"}
    /\ Form[e] = "object"
    /\ {Data(e, n) : n \in 1 .. DataLines[e]} \subseteq Range(pending \o lines)

(* However the stream is cut into lines and connections, the main task     *)
(* sees what EventChannel says: whole events, in order, at most once, and  *)
(* every one of those sent while the connection lives.                     *)
Channel == INSTANCE EventChannel
             WITH live <- Connected,
                  flight <- {e \in Event : Arriving(e)}
StreamImplementsChannel == Channel!ChannelSpec

(* The wait before the next attempt follows from the number of attempts    *)
(* since the last event: reconnect_initial_seconds doubled for each, up to *)
(* reconnect_max_seconds, and never zero, so there is no busy loop.        *)
BackoffFollowsFailures ==
    backoff = Min({Initial * 2^failures, Maximal})

(* "reconnecting forever": whenever signal-cli stays up, the client reads  *)
(* its stream again and again, and an event that was sent to its end is    *)
(* yielded or lost with its connection.                                    *)
StreamGoesOn ==
    /\ <>[]up => []<>(pc = "read")
    /\ \A e \in Event : Arriving(e) /\ e < next ~> ~Arriving(e)
=============================================================================
