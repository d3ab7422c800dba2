--------------------------- MODULE ReactionHistory ---------------------------
(***************************************************************************)
(* The reactions to one message: the history StateDatabase keeps of them,  *)
(* the responses of the session about the message, and how AlertTracker    *)
(* brings the second in line with the first.  Reactions arrive in any      *)
(* order and any number of times.                                          *)
(*                                                                         *)
(* A step is one committed transaction; the tracker's lock keeps other     *)
(* handlers out until pc is "idle" again, and a crash may come between any *)
(* two.  A session of an earlier process is stale: reactions are no longer *)
(* applied to it as they arrive, but a /check still replays the history.   *)
(***************************************************************************)
EXTENDS Integers, Sequences, SequencesExt

CONSTANTS
    Member,     \* reactors
    Emoji,      \* accepted_reactions
    Time,       \* sent_timestamp_ms of reactions
    Event,      \* the reactions that are sent
    MaxHistory  \* bound on the rows of observed_reactions

NoEvent == [reactor |-> "none"]

ASSUME HistoryAssumption ==
    /\ Time \subseteq Int /\ MaxHistory \in Nat
    /\ \A e \in Event :
          /\ DOMAIN e = {"reactor", "emoji", "removed", "ts"}
          /\ e.reactor \in Member /\ e.emoji \in Emoji
          /\ e.removed \in BOOLEAN /\ e.ts \in Time

VARIABLES
    known,      \* the message is in observed_messages
    history,    \* observed_reactions, in the order of id
    session,    \* of alarms, and whether this process may act on it
    released,   \* released_members
    state,      \* reaction_state: the event last applied for each member
    pc,
    hand,       \* the event being handled
    todo,       \* the rows the replay has yet to apply
    applied,    \* ghost: events given to apply_reaction
    fresh       \* ghost: nothing has kept the session from the history since
                \* it was created without one, or since the latest replay

row == <<known, history>>
alarm == <<session, released>>
work == <<pc, hand, todo>>
vars == <<row, alarm, state, work, applied, fresh>>

Active == {"live", "stale"}

Init ==
    /\ known = FALSE /\ history = <<>>
    /\ session = "none" /\ released = {}
    /\ state = [p \in Member |-> NoEvent]
    /\ pc = "idle" /\ hand = NoEvent /\ todo = {}
    /\ applied = {} /\ fresh = FALSE

-----------------------------------------------------------------------------
(* The message.                                                            *)

Create(members) ==
    /\ session = "none"
    /\ session' = "live" /\ released' = members

(* It is no trigger, was sent before the service started, or its session   *)
(* exists. *)
ObserveMessage ==
    /\ pc = "idle"
    /\ known' = TRUE
    /\ UNCHANGED <<history, alarm, state, work, applied, fresh>>

(* The history there may be, when the message comes a second time, is not  *)
(* replayed. *)
Trigger(members) ==
    /\ pc = "idle"
    /\ known' = TRUE
    /\ Create(members)
    /\ fresh' = (history = <<>>)
    /\ UNCHANGED <<history, state, work, applied>>

(* Mutant: any message is cleaned up, and outside the tracker's lock. *)
Cleanup_AnyMessage ==
    /\ known
    /\ known' = FALSE /\ history' = <<>>
    /\ UNCHANGED <<alarm, state, work, applied, fresh>>

(* cleanup_observed_history, once the message is old enough *)
Cleanup ==
    /\ pc = "idle" /\ known /\ session \notin Active
    /\ known' = FALSE /\ history' = <<>>
    /\ UNCHANGED <<alarm, state, work, applied, fresh>>

(* The session expires, also while a reaction is handled, or is completed. *)
EndSession ==
    /\ pc \in {"idle", "apply"} /\ session \in Active
    /\ session' = "ended"
    /\ UNCHANGED <<row, released, state, work, applied, fresh>>

-----------------------------------------------------------------------------
(* apply_reaction                                                          *)

Applicable(e) == session \in Active /\ e.reactor \in released

(* Mutant: what arrives last is what counts. *)
Accepted_Arrival(e) == state[e.reactor] # e

Accepted(e) ==
    LET previous == state[e.reactor]
    IN \/ previous = NoEvent
       \/ e.ts > previous.ts
       \/ e.ts = previous.ts /\ e # previous

Apply(e) ==
    /\ state' = IF Applicable(e) /\ Accepted(e) THEN [state EXCEPT ![e.reactor] = e] ELSE state
    /\ applied' = IF Applicable(e) THEN applied \cup {e} ELSE applied

-----------------------------------------------------------------------------
(* _handle_reaction                                                        *)

(* INSERT OR IGNORE *)
Recorded(e) == IF Contains(history, e) THEN history ELSE Append(history, e)

Receive(e) ==
    /\ pc = "idle"
    /\ history' = IF known THEN Recorded(e) ELSE history
    /\ Len(history') <= MaxHistory
    /\ IF session = "live"
       THEN pc' = "apply" /\ hand' = e /\ UNCHANGED fresh
       ELSE /\ fresh' = (fresh /\ history' = history)
            /\ UNCHANGED <<pc, hand>>
    /\ UNCHANGED <<known, alarm, state, todo, applied>>

ApplyReceived ==
    /\ pc = "apply"
    /\ Apply(hand)
    /\ pc' = "idle" /\ hand' = NoEvent
    /\ UNCHANGED <<row, alarm, todo, fresh>>

-----------------------------------------------------------------------------
(* _force_observed_message                                                 *)

(* Mutant: nothing of the history is applied to a session that exists. *)
CheckMessage_ReplaysForNew(members) ==
    /\ pc = "idle" /\ known /\ session # "ended"
    /\ IF session = "none" THEN Create(members) ELSE UNCHANGED alarm
    /\ pc' = "replay" /\ todo' = IF session = "none" THEN DOMAIN history ELSE {}
    /\ fresh' = FALSE
    /\ UNCHANGED <<row, state, hand, applied>>

(* list_observed_reactions; ended sessions are evaluated as they are.      *)
CheckMessage(members) ==
    /\ pc = "idle" /\ known /\ session # "ended"
    /\ IF session = "none" THEN Create(members) ELSE UNCHANGED alarm
    /\ pc' = "replay" /\ todo' = DOMAIN history
    /\ fresh' = FALSE
    /\ UNCHANGED <<row, state, hand, applied>>

(* Mutant: ORDER BY event_timestamp_ms alone, so equal ones come in any order. *)
Precedes_ByTimestamp(n, m) == history[n].ts <= history[m].ts

(* ORDER BY event_timestamp_ms, id *)
Precedes(n, m) ==
    \/ history[n].ts < history[m].ts
    \/ history[n].ts = history[m].ts /\ n <= m

Replay(n) ==
    /\ pc = "replay" /\ n \in todo
    /\ \A m \in todo : Precedes(n, m)
    /\ Apply(history[n])
    /\ todo' = todo \ {n}
    /\ UNCHANGED <<row, alarm, pc, hand, fresh>>

Replayed ==
    /\ pc = "replay" /\ todo = {}
    /\ pc' = "idle" /\ fresh' = TRUE
    /\ UNCHANGED <<row, alarm, state, hand, todo, applied>>

-----------------------------------------------------------------------------
(* The process ends at any point and starts again.  A session whose start  *)
(* is ahead of this host's clock is not one of an earlier process.         *)
Restart ==
    /\ session' \in IF session = "live" THEN {"live", "stale"} ELSE {session}
    /\ pc' = "idle" /\ hand' = NoEvent /\ todo' = {}
    /\ fresh' = FALSE
    /\ UNCHANGED <<row, released, state, applied>>

Next ==
    \/ ObserveMessage \/ Cleanup \/ EndSession
    \/ \E members \in SUBSET Member : Trigger(members) \/ CheckMessage(members)
    \/ \E e \in Event : Receive(e)
    \/ ApplyReceived
    \/ \E n \in todo : Replay(n)
    \/ Replayed \/ Restart

Spec == Init /\ [][Next]_vars

-----------------------------------------------------------------------------
(* Properties.                                                             *)

TypeOK ==
    /\ known \in BOOLEAN /\ history \in Seq(Event)
    /\ session \in {"none", "live", "stale", "ended"}
    /\ released \subseteq Member
    /\ state \in [Member -> Event \cup {NoEvent}]
    /\ pc \in {"idle", "apply", "replay"}
    /\ IF pc = "apply" THEN hand \in Event ELSE hand = NoEvent
    /\ IF pc = "replay" THEN todo \subseteq DOMAIN history ELSE todo = {}
    /\ applied \subseteq Event /\ fresh \in BOOLEAN

(* s is a latest of the reactions of p in S: what "apply only the newest   *)
(* accepted event" (apply_reaction) leaves open is the choice among        *)
(* reactions of the same millisecond.                                      *)
IsNewest(s, p, S) ==
    LET own == {e \in S : e.reactor = p}
    IN IF own = {} THEN s = NoEvent
       ELSE s \in own /\ \A e \in own : e.ts <= s.ts

(* A member's response is that of the newest reaction the session has been *)
(* given, in whatever order live events and replays brought them, however  *)
(* often, and wherever the process died.                                   *)
NewestWins == \A p \in Member : IsNewest(state[p], p, applied)

Rows == {history[n] : n \in DOMAIN history}

(* "Add/remove reactions received before /check <text> are replayed ... so *)
(* a manual session at once has the right response state" (README): after  *)
(* a replay, and as long as this process keeps the session, the responses  *)
(* are those of the newest reactions of all that were ever recorded.       *)
CaughtUp ==
    pc = "idle" /\ fresh /\ session \in Active =>
        \A p \in released : IsNewest(state[p], p, Rows)

(* Whatever an active session has been given is in the history, which the  *)
(* cleanup keeps as long as it is active: after a restart at any point, a  *)
(* /check of the message still finds all of it.                            *)
HistoryCoversSession ==
    session \in Active => known /\ applied \subseteq Rows

(* Of a member's reactions of one millisecond, a replay leaves the one     *)
(* that was recorded last.                                                 *)
TiesByArrival ==
    [][Replayed => \A n \in DOMAIN history :
          LET p == history[n].reactor
          IN p \in released /\ (\A m \in DOMAIN history :
                                   history[m].reactor = p => Precedes(m, n))
             => state[p] = history[n]]_vars
=============================================================================
