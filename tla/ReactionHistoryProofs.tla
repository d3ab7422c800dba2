------------------------ MODULE ReactionHistoryProofs ------------------------
(***************************************************************************)
(* Whose reaction counts, for any reactions, members and length of the     *)
(* history.  NewestWins follows from apply_reaction alone.  CaughtUp needs *)
(* to know, beside it, that the session has been given exactly what the    *)
(* history holds: HistoryCoversSession is one half of that, CatchesUp the  *)
(* other, and both have to be followed through a replay row by row.        *)
(***************************************************************************)
EXTENDS ReactionHistory, TLAPS

(* What is still to be applied is in hand, or among the rows to replay.    *)
CatchesUp ==
    /\ fresh /\ session \in Active =>
          \A n \in DOMAIN history : history[n].reactor \in released =>
             history[n] \in applied \/ (pc = "apply" /\ history[n] = hand)
    /\ pc = "replay" =>
          /\ session \in Active /\ ~fresh
          /\ \A n \in DOMAIN history \ todo :
                history[n].reactor \in released => history[n] \in applied

InHand == pc = "apply" /\ session \in Active => hand \in Rows

Untouched == session = "none" => applied = {}

IInv == TypeOK /\ NewestWins /\ HistoryCoversSession /\ CatchesUp /\ InHand /\ Untouched

-----------------------------------------------------------------------------
(* A reaction has a reactor and a time, and is not the absence of one.     *)
LEMMA EventForm ==
    ASSUME NEW e \in Event
    PROVE  e.reactor \in Member /\ e.ts \in Int /\ e # NoEvent
<1>1. e.reactor \in Member /\ e.ts \in Int
  BY HistoryAssumption DEF HistoryAssumption
<1>2. DOMAIN e = {"reactor", "emoji", "removed", "ts"}
  BY HistoryAssumption DEF HistoryAssumption
<1>3. DOMAIN NoEvent = {"reactor"}
  BY DEF NoEvent
<1>4. "ts" \in DOMAIN e /\ "ts" \notin DOMAIN NoEvent
  BY <1>2, <1>3
<1>. QED
  BY <1>1, <1>4

(* INSERT OR IGNORE adds at most the row in question, and leaves it there. *)
LEMMA RecordedRows ==
    ASSUME history \in Seq(Event), NEW e \in Event
    PROVE  /\ Recorded(e) \in Seq(Event)
           /\ \A n \in DOMAIN history : n \in DOMAIN Recorded(e) /\ Recorded(e)[n] = history[n]
           /\ \A n \in DOMAIN Recorded(e) : n \in DOMAIN history \/ Recorded(e)[n] = e
           /\ \E n \in DOMAIN Recorded(e) : Recorded(e)[n] = e
<1>1. CASE Contains(history, e)
  BY <1>1 DEF Recorded, Contains
<1>2. CASE ~Contains(history, e)
  <2>1. Recorded(e) = Append(history, e)
    BY <1>2 DEF Recorded
  <2>2. DOMAIN history = 1 .. Len(history) /\ Len(history) \in Nat
    OBVIOUS
  <2>3. DOMAIN Append(history, e) = 1 .. Len(history) + 1
    OBVIOUS
  <2>4. Append(history, e)[Len(history) + 1] = e
    OBVIOUS
  <2>5. \A n \in 1 .. Len(history) : Append(history, e)[n] = history[n]
    OBVIOUS
  <2>6. Append(history, e) \in Seq(Event)
    OBVIOUS
  <2>. QED
    BY <2>1, <2>2, <2>3, <2>4, <2>5, <2>6
<1>. QED
  BY <1>1, <1>2

(* The heart of apply_reaction: it keeps the newest. *)
LEMMA ApplyKeepsNewest ==
    ASSUME TypeOK, NewestWins, NEW e \in Event, Apply(e)
    PROVE  /\ state' \in [Member -> Event \cup {NoEvent}]
           /\ applied' \subseteq Event
           /\ NewestWins'
<1>1. CASE ~Applicable(e)
  BY <1>1 DEF Apply, NewestWins, IsNewest, TypeOK
<1>2. CASE Applicable(e)
  <2>. DEFINE q == e.reactor
  <2>1. q \in Member /\ e.ts \in Int /\ applied' = applied \cup {e}
    BY <1>2, EventForm DEF Apply
  <2>2. state' = IF Accepted(e) THEN [state EXCEPT ![q] = e] ELSE state
    BY <1>2 DEF Apply
  <2>3. state' \in [Member -> Event \cup {NoEvent}] /\ applied' \subseteq Event
    BY <2>1, <2>2 DEF TypeOK
  <2>4. ASSUME NEW p \in Member, p # q
        PROVE  IsNewest(state'[p], p, applied')
    <3>1. state'[p] = state[p]
      BY <2>1, <2>2, <2>4 DEF TypeOK
    <3>2. {d \in applied' : d.reactor = p} = {d \in applied : d.reactor = p}
      BY <2>1, <2>4
    <3>3. IsNewest(state[p], p, applied)
      BY DEF NewestWins
    <3>. QED
      BY <3>1, <3>2, <3>3 DEF IsNewest
  <2>5. IsNewest(state'[q], q, applied')
    <3>. DEFINE own == {d \in applied : d.reactor = q}
                s == state[q]
    <3>1. {d \in applied' : d.reactor = q} = own \cup {e}
      BY <2>1
    <3>2. IsNewest(s, q, applied)
      BY <2>1 DEF NewestWins
    <3>3. \A d \in own : d \in Event /\ d.ts \in Int
      BY EventForm DEF TypeOK
    <3>4. CASE own = {}
      <4>1. s = NoEvent
        BY <3>2, <3>4 DEF IsNewest
      <4>2. state'[q] = e
        BY <2>1, <2>2, <4>1 DEF Accepted, TypeOK
      <4>. QED
        BY <2>1, <3>1, <3>4, <4>2 DEF IsNewest
    <3>5. CASE own # {}
      <4>1. s \in own /\ \A d \in own : d.ts <= s.ts
        BY <3>2, <3>5 DEF IsNewest
      <4>2. s.ts \in Int /\ s # NoEvent
        BY <3>3, <4>1, EventForm
      <4>3. CASE Accepted(e)
        <5>1. state'[q] = e
          BY <2>1, <2>2, <4>3 DEF TypeOK
        <5>2. s.ts <= e.ts
          BY <2>1, <4>2, <4>3 DEF Accepted
        <5>3. \A d \in own \cup {e} : d.ts <= e.ts
          BY <2>1, <3>3, <4>1, <4>2, <5>2
        <5>. QED
          BY <3>1, <5>1, <5>3 DEF IsNewest
      <4>4. CASE ~Accepted(e)
        <5>1. state'[q] = s
          BY <2>2, <4>4
        <5>2. e.ts <= s.ts
          BY <2>1, <4>2, <4>4 DEF Accepted
        <5>3. \A d \in own \cup {e} : d.ts <= s.ts
          BY <4>1, <5>2
        <5>. QED
          BY <3>1, <4>1, <5>1, <5>3 DEF IsNewest
      <4>. QED
        BY <4>3, <4>4
    <3>. QED
      BY <3>4, <3>5
  <2>. QED
    BY <2>3, <2>4, <2>5 DEF NewestWins
<1>. QED
  BY <1>1, <1>2

-----------------------------------------------------------------------------
(* Nothing has been sent at the start. *)
LEMMA InitIInv == Init => IInv
<1>. SUFFICES ASSUME Init PROVE IInv
  OBVIOUS
<1>1. TypeOK
  <2>1. history \in Seq(Event)
    BY DEF Init
  <2>2. state \in [Member -> Event \cup {NoEvent}]
    BY DEF Init
  <2>. QED
    BY <2>1, <2>2 DEF Init, TypeOK
<1>2. NewestWins
  BY DEF Init, NewestWins, IsNewest
<1>3. HistoryCoversSession /\ CatchesUp /\ InHand /\ Untouched
  BY DEF Init, HistoryCoversSession, CatchesUp, InHand, Untouched, Active
<1>. QED
  BY <1>1, <1>2, <1>3 DEF IInv

(* Steps that give the session nothing leave the newest where it is. *)
LEMMA NewestKept ==
    ASSUME NewestWins, UNCHANGED <<state, applied>>
    PROVE  NewestWins'
BY DEF NewestWins, IsNewest

(* Every step keeps the invariant. *)
LEMMA NextIInv == IInv /\ [Next]_vars => IInv'
<1>. SUFFICES ASSUME IInv, [Next]_vars PROVE IInv'
  OBVIOUS
<1>. USE DEF Active
<1>1. CASE ObserveMessage
  <2>1. TypeOK' /\ NewestWins'
    BY <1>1, NewestKept DEF IInv, ObserveMessage, TypeOK, alarm, work
  <2>2. HistoryCoversSession' /\ CatchesUp' /\ InHand' /\ Untouched'
    BY <1>1 DEF IInv, ObserveMessage, alarm, work, HistoryCoversSession, Rows, CatchesUp,
                InHand, Untouched
  <2>. QED
    BY <2>1, <2>2 DEF IInv
<1>2. ASSUME NEW members \in SUBSET Member, Trigger(members)
      PROVE  IInv'
  <2>0. fresh' \in BOOLEAN
    <3>1. fresh' = (history = <<>>)
      BY <1>2, Zenon DEF Trigger
    <3>. QED
      BY <3>1, Zenon
  <2>1. TypeOK' /\ NewestWins'
    BY <1>2, <2>0, NewestKept DEF IInv, Trigger, Create, TypeOK, work
  <2>2. applied = {} /\ applied' = {} /\ known' = TRUE /\ pc' = "idle"
    BY <1>2 DEF IInv, Trigger, Create, Untouched, work
  <2>3. CatchesUp'
    <3>1. CASE history = <<>>
      <4>1. DOMAIN history' = {}
        BY <1>2, <3>1 DEF Trigger
      <4>. QED
        BY <2>2, <4>1 DEF CatchesUp
    <3>2. CASE history # <<>>
      <4>1. ~fresh'
        BY <1>2, <3>2, Zenon DEF Trigger
      <4>. QED
        BY <2>2, <4>1 DEF CatchesUp
    <3>. QED
      BY <3>1, <3>2
  <2>. QED
    BY <1>2, <2>1, <2>2, <2>3 DEF IInv, HistoryCoversSession, InHand, Untouched
<1>3. CASE Cleanup
  <2>0. history' \in Seq(Event)
    BY <1>3 DEF Cleanup
  <2>1. TypeOK' /\ NewestWins'
    BY <1>3, <2>0, NewestKept DEF IInv, Cleanup, TypeOK, alarm, work
  <2>2. HistoryCoversSession' /\ CatchesUp' /\ InHand' /\ Untouched'
    BY <1>3 DEF IInv, Cleanup, alarm, work, HistoryCoversSession, Rows, CatchesUp,
                InHand, Untouched
  <2>. QED
    BY <2>1, <2>2 DEF IInv
<1>4. CASE EndSession
  <2>1. TypeOK' /\ NewestWins'
    BY <1>4, NewestKept DEF IInv, EndSession, TypeOK, row, work
  <2>2. HistoryCoversSession' /\ CatchesUp' /\ InHand' /\ Untouched'
    BY <1>4 DEF IInv, EndSession, row, work, HistoryCoversSession, CatchesUp, InHand, Untouched
  <2>. QED
    BY <2>1, <2>2 DEF IInv
<1>5. ASSUME NEW members \in SUBSET Member, CheckMessage(members)
      PROVE  IInv'
  <2>1. session' \in {"live", "stale"} /\ released' \subseteq Member
    BY <1>5 DEF IInv, TypeOK, CheckMessage, Create, alarm
  <2>2. pc' = "replay" /\ todo' = DOMAIN history /\ fresh' = FALSE /\ pc = "idle"
    BY <1>5 DEF CheckMessage
  <2>3. known /\ known' = known /\ UNCHANGED <<history, state, hand, applied>>
    BY <1>5 DEF CheckMessage, row
  <2>4. TypeOK'
    BY <2>1, <2>2, <2>3 DEF IInv, TypeOK
  <2>5. NewestWins'
    BY <2>3, NewestKept DEF IInv
  <2>6. HistoryCoversSession'
    <3>1. session \in {"none", "live", "stale"}
      BY <1>5 DEF CheckMessage, IInv, TypeOK
    <3>2. applied \subseteq Rows
      BY <3>1 DEF IInv, HistoryCoversSession, Untouched
    <3>. QED
      BY <2>3, <3>2 DEF HistoryCoversSession, Rows
  <2>7. CatchesUp' /\ InHand' /\ Untouched'
    BY <2>1, <2>2, <2>3 DEF CatchesUp, InHand, Untouched
  <2>. QED
    BY <2>4, <2>5, <2>6, <2>7 DEF IInv
<1>6. ASSUME NEW e \in Event, Receive(e)
      PROVE  IInv'
  <2>1. /\ pc = "idle" /\ hand = NoEvent
        /\ UNCHANGED <<known, session, released, state, todo, applied>>
        /\ history' = IF known THEN Recorded(e) ELSE history
    BY <1>6 DEF IInv, TypeOK, Receive, alarm
  <2>2. /\ history' \in Seq(Event)
        /\ \A n \in DOMAIN history : n \in DOMAIN history' /\ history'[n] = history[n]
        /\ \A n \in DOMAIN history' : n \in DOMAIN history \/ history'[n] = e
        /\ known => \E n \in DOMAIN history' : history'[n] = e
    BY <2>1, RecordedRows DEF IInv, TypeOK
  <2>3. NewestWins'
    BY <2>1, NewestKept DEF IInv
  <2>4. HistoryCoversSession' /\ Untouched'
    <3>1. Rows \subseteq Rows'
      BY <2>2 DEF Rows
    <3>. QED
      BY <2>1, <3>1 DEF IInv, HistoryCoversSession, Untouched
  <2>5. CASE session = "live"
    <3>1. pc' = "apply" /\ hand' = e /\ fresh' = fresh
      BY <1>6, <2>5 DEF Receive
    <3>2. known
      BY <2>5 DEF IInv, HistoryCoversSession
    <3>3. e \in Rows'
      BY <2>2, <3>2 DEF Rows
    <3>4. TypeOK'
      BY <2>1, <2>2, <3>1 DEF IInv, TypeOK
    <3>5. CatchesUp'
      <4>1. ASSUME fresh', NEW n \in DOMAIN history', history'[n].reactor \in released'
            PROVE  history'[n] \in applied' \/ history'[n] = hand'
        <5>1. CASE n \in DOMAIN history
          BY <2>1, <2>2, <2>5, <3>1, <4>1, <5>1 DEF IInv, CatchesUp
        <5>2. CASE n \notin DOMAIN history
          BY <2>2, <3>1, <5>2
        <5>. QED
          BY <5>1, <5>2
      <4>. QED
        BY <3>1, <4>1 DEF CatchesUp
    <3>. QED
      BY <2>3, <2>4, <3>1, <3>3, <3>4, <3>5 DEF IInv, InHand
  <2>6. CASE session # "live"
    <3>1. pc' = "idle" /\ hand' = hand /\ fresh' = (fresh /\ history' = history)
      BY <1>6, <2>1, <2>6 DEF Receive
    <3>2. TypeOK'
      BY <2>1, <2>2, <3>1 DEF IInv, TypeOK
    <3>3. CatchesUp'
      BY <2>1, <3>1 DEF IInv, CatchesUp
    <3>. QED
      BY <2>3, <2>4, <3>1, <3>2, <3>3 DEF IInv, InHand
  <2>. QED
    BY <2>5, <2>6
<1>7. CASE ApplyReceived
  <2>1. pc = "apply" /\ hand \in Event /\ Apply(hand) /\ pc' = "idle" /\ hand' = NoEvent
    BY <1>7 DEF ApplyReceived, IInv, TypeOK
  <2>2. UNCHANGED <<known, history, session, released, todo, fresh>>
    BY <1>7 DEF ApplyReceived, row, alarm
  <2>3. TypeOK' /\ NewestWins'
    BY <2>1, <2>2, ApplyKeepsNewest DEF IInv, TypeOK
  <2>4. applied' = IF Applicable(hand) THEN applied \cup {hand} ELSE applied
    BY <2>1 DEF Apply
  <2>5. HistoryCoversSession'
    BY <2>1, <2>2, <2>4 DEF IInv, HistoryCoversSession, InHand, Rows
  <2>6. CatchesUp'
    BY <2>1, <2>2, <2>4 DEF IInv, CatchesUp, Applicable
  <2>7. InHand' /\ Untouched'
    BY <2>1, <2>2, <2>4 DEF IInv, InHand, Untouched, Applicable
  <2>. QED
    BY <2>3, <2>5, <2>6, <2>7 DEF IInv
<1>8. ASSUME NEW n \in todo, Replay(n)
      PROVE  IInv'
  <2>1. n \in DOMAIN history /\ history[n] \in Event
    BY DEF IInv, TypeOK
  <2>2. pc = "replay" /\ Apply(history[n]) /\ todo' = todo \ {n}
        /\ UNCHANGED <<known, history, session, released, pc, hand, fresh>>
    BY <1>8 DEF Replay, row, alarm
  <2>3. TypeOK' /\ NewestWins'
    BY <2>1, <2>2, ApplyKeepsNewest DEF IInv, TypeOK
  <2>4. applied' = IF Applicable(history[n]) THEN applied \cup {history[n]} ELSE applied
    BY <2>2 DEF Apply
  <2>5. HistoryCoversSession'
    BY <2>1, <2>2, <2>4 DEF IInv, HistoryCoversSession, Rows
  <2>6. CatchesUp'
    BY <2>1, <2>2, <2>4 DEF IInv, CatchesUp, Applicable
  <2>7. InHand' /\ Untouched'
    BY <2>2, <2>4 DEF IInv, InHand, Untouched, Applicable
  <2>. QED
    BY <2>3, <2>5, <2>6, <2>7 DEF IInv
<1>9. CASE Replayed
  <2>1. TypeOK' /\ NewestWins'
    BY <1>9, NewestKept DEF IInv, Replayed, TypeOK, row, alarm
  <2>2. CatchesUp'
    BY <1>9 DEF IInv, Replayed, CatchesUp, row, alarm
  <2>3. HistoryCoversSession' /\ InHand' /\ Untouched'
    BY <1>9 DEF IInv, Replayed, row, alarm, HistoryCoversSession, Rows, InHand, Untouched
  <2>. QED
    BY <2>1, <2>2, <2>3 DEF IInv
<1>10. CASE Restart
  <2>1. session' \in {"none", "live", "stale", "ended"} /\ (session' \in Active <=> session \in Active)
        /\ (session' = "none" <=> session = "none")
    BY <1>10 DEF Restart, IInv, TypeOK
  <2>2. TypeOK' /\ NewestWins'
    BY <1>10, <2>1, NewestKept DEF IInv, Restart, TypeOK, row
  <2>3. HistoryCoversSession' /\ CatchesUp' /\ InHand' /\ Untouched'
    BY <1>10, <2>1 DEF IInv, Restart, row, HistoryCoversSession, Rows, CatchesUp, InHand, Untouched
  <2>. QED
    BY <2>2, <2>3 DEF IInv
<1>11. CASE UNCHANGED vars
  <2>1. TypeOK' /\ NewestWins'
    BY <1>11, NewestKept DEF IInv, vars, row, alarm, work, TypeOK
  <2>2. HistoryCoversSession' /\ CatchesUp' /\ InHand' /\ Untouched'
    BY <1>11 DEF IInv, vars, row, alarm, work, HistoryCoversSession, Rows, CatchesUp,
                 InHand, Untouched
  <2>. QED
    BY <2>1, <2>2 DEF IInv
<1>. QED
  BY <1>1, <1>2, <1>3, <1>4, <1>5, <1>6, <1>7, <1>8, <1>9, <1>10, <1>11 DEF Next

(* The strengthened invariant holds in every reachable state of the        *)
(* history, its session and a replay.                                      *)
THEOREM Inductive == Spec => []IInv
BY InitIInv, NextIInv, PTL DEF Spec

-----------------------------------------------------------------------------
(* Reactions of one millisecond.                                           *)

Done == DOMAIN history \ todo

LastDone(n) ==
    \A m \in Done : history[m].reactor = history[n].reactor => Precedes(m, n)

Shown(n) ==
    LET s == state[history[n].reactor]
    IN s = history[n] \/ (s # NoEvent /\ s.ts > history[n].ts)

(* A replay has reached some row in the order of the query, and shows the  *)
(* last row of each member up to there, unless it knew a newer reaction.   *)
InOrder ==
    pc = "replay" =>
        /\ \A n \in Done, m \in todo : Precedes(n, m)
        /\ \A n \in Done : history[n].reactor \in released /\ LastDone(n) => Shown(n)

(* The replay takes the rows in order. *)
LEMMA ReplayInOrder ==
    ASSUME IInv, InOrder, NEW k \in todo, Replay(k)
    PROVE  InOrder'
<1>. DEFINE e == history[k]
<1>1. k \in DOMAIN history /\ e \in Event /\ e.reactor \in Member /\ e.ts \in Int
  <2>1. k \in DOMAIN history /\ history \in Seq(Event)
    BY DEF IInv, TypeOK, Replay
  <2>2. e \in Event
    BY <2>1
  <2>. QED
    BY <2>1, <2>2, EventForm
<1>2. /\ pc = "replay" /\ Apply(e) /\ todo' = todo \ {k}
      /\ \A m \in todo : Precedes(k, m)
      /\ UNCHANGED <<history, session, released, pc>>
  BY DEF Replay, row, alarm
<1>3. Done' = Done \cup {k}
  BY <1>1, <1>2 DEF Done
<1>4. session \in Active
  BY <1>2 DEF IInv, CatchesUp
<1>5. \A n, m : Precedes(n, m)' <=> Precedes(n, m)
  BY <1>2 DEF Precedes
<1>6. \A n \in Done', m \in todo' : Precedes(n, m)'
  BY <1>2, <1>3, <1>5 DEF InOrder
<1>7. ASSUME NEW n \in Done', (history[n].reactor \in released)', LastDone(n)'
      PROVE  Shown(n)'
  <2>. DEFINE p == history[n].reactor
  <2>1. p \in released /\ p \in Member
    BY <1>2, <1>7 DEF IInv, TypeOK
  <2>2. \A m \in Done \cup {k} : history[m].reactor = p => Precedes(m, n)
    BY <1>2, <1>3, <1>5, <1>7 DEF LastDone
  <2>3. CASE n = k
    <3>1. Applicable(e)
      BY <1>4, <2>1, <2>3 DEF Applicable
    <3>2. CASE Accepted(e)
      <4>1. state'[p] = e
        BY <1>2, <2>1, <2>3, <3>1, <3>2 DEF Apply, IInv, TypeOK
      <4>. QED
        BY <1>2, <2>3, <4>1 DEF Shown
    <3>3. CASE ~Accepted(e)
      <4>1. state'[p] = state[p] /\ state[p] \in Event \cup {NoEvent}
        BY <1>2, <2>1, <3>3 DEF Apply, IInv, TypeOK
      <4>2. state[p] # NoEvent /\ ~(e.ts > state[p].ts)
            /\ ~(e.ts = state[p].ts /\ e # state[p])
        BY <2>3, <3>3 DEF Accepted
      <4>3. state[p].ts \in Int
        BY <4>1, <4>2, EventForm
      <4>4. state[p].ts > e.ts \/ state[p] = e
        BY <1>1, <4>2, <4>3
      <4>. QED
        BY <1>2, <2>3, <4>1, <4>2, <4>4 DEF Shown
    <3>. QED
      BY <3>2, <3>3
  <2>4. CASE n # k
    <3>1. n \in Done /\ Precedes(n, k)
      BY <1>2, <1>3, <2>4 DEF InOrder
    <3>2. LastDone(n)
      BY <2>2 DEF LastDone
    <3>3. Shown(n)
      BY <1>2, <2>1, <3>1, <3>2 DEF InOrder
    <3>4. e.reactor # p
      <4>. SUFFICES ASSUME e.reactor = p PROVE FALSE
        OBVIOUS
      <4>1. Precedes(k, n)
        BY <2>2
      <4>2. n \in Nat /\ k \in Nat /\ history[n] \in Event
        BY <1>1, <3>1 DEF Done, IInv, TypeOK
      <4>3. history[n].ts \in Int
        BY <4>2, EventForm
      <4>. QED
        BY <1>1, <2>4, <3>1, <4>1, <4>2, <4>3 DEF Precedes
    <3>5. state'[p] = state[p]
      BY <1>1, <1>2, <2>1, <3>4 DEF Apply, IInv, TypeOK
    <3>. QED
      BY <1>2, <3>3, <3>5 DEF Shown
  <2>. QED
    BY <2>3, <2>4
<1>. QED
  BY <1>6, <1>7 DEF InOrder

(* It starts with none of them, and nothing comes in between. *)
LEMMA NextInOrder == IInv /\ InOrder /\ [Next]_vars => InOrder'
<1>. SUFFICES ASSUME IInv, InOrder, [Next]_vars PROVE InOrder'
  OBVIOUS
<1>1. CASE ObserveMessage \/ Cleanup \/ EndSession \/ Restart
  BY <1>1 DEF ObserveMessage, Cleanup, EndSession, Restart, work, InOrder
<1>2. ASSUME NEW members \in SUBSET Member, Trigger(members)
      PROVE  InOrder'
  BY <1>2 DEF Trigger, work, InOrder
<1>3. ASSUME NEW members \in SUBSET Member, CheckMessage(members)
      PROVE  InOrder'
  <2>1. Done' = {}
    BY <1>3 DEF CheckMessage, row, Done
  <2>. QED
    BY <2>1 DEF InOrder
<1>4. ASSUME NEW e \in Event, Receive(e)
      PROVE  InOrder'
  BY <1>4 DEF Receive, InOrder
<1>5. CASE ApplyReceived \/ Replayed
  BY <1>5 DEF ApplyReceived, Replayed, InOrder
<1>6. ASSUME NEW n \in todo, Replay(n)
      PROVE  InOrder'
  BY <1>6, ReplayInOrder
<1>7. CASE UNCHANGED vars
  BY <1>7 DEF vars, row, alarm, work, InOrder, Done, LastDone, Shown, Precedes
<1>. QED
  BY <1>1, <1>2, <1>3, <1>4, <1>5, <1>6, <1>7 DEF Next

(* What a finished replay leaves. *)
LEMMA ReplayedShowsLast ==
    ASSUME IInv, InOrder, Replayed, NEW n \in DOMAIN history,
           history[n].reactor \in released,
           \A m \in DOMAIN history : history[m].reactor = history[n].reactor => Precedes(m, n)
    PROVE  state[history[n].reactor] = history[n]
<1>. DEFINE p == history[n].reactor
            s == state[p]
<1>1. pc = "replay" /\ todo = {}
  BY DEF Replayed
<1>2. Done = DOMAIN history
  BY <1>1 DEF Done
<1>3. Shown(n)
  BY <1>1, <1>2 DEF InOrder, LastDone
<1>4. history[n] \in applied
  BY <1>1 DEF IInv, CatchesUp
<1>5. s \in applied /\ s.reactor = p
  <2>1. p \in Member
    BY DEF IInv, TypeOK
  <2>2. IsNewest(s, p, applied)
    BY <2>1 DEF IInv, NewestWins
  <2>. QED
    BY <1>4, <2>2 DEF IsNewest
<1>6. PICK m \in DOMAIN history : history[m] = s
  BY <1>1, <1>5 DEF IInv, CatchesUp, HistoryCoversSession, Rows
<1>7. Precedes(m, n)
  BY <1>5, <1>6
<1>8. s.ts \in Int /\ history[n].ts \in Int
  BY <1>4, <1>5, EventForm DEF IInv, TypeOK
<1>9. s.ts <= history[n].ts
  BY <1>6, <1>7, <1>8 DEF Precedes
<1>. QED
  BY <1>3, <1>8, <1>9 DEF Shown

(* Of a member's reactions of one millisecond, a replay leaves the one     *)
(* that was recorded last.                                                 *)
THEOREM ReplayBreaksTies == Spec => TiesByArrival
<1>. DEFINE Ties == Replayed => \A n \in DOMAIN history :
          LET p == history[n].reactor
          IN p \in released /\ (\A m \in DOMAIN history :
                                   history[m].reactor = p => Precedes(m, n))
             => state[p] = history[n]
<1>1. Init => InOrder
  BY DEF Init, InOrder
<1>2. IInv /\ InOrder /\ [Next]_vars => [Ties]_vars
  BY ReplayedShowsLast
<1>3. Spec => [](IInv /\ InOrder)
  BY <1>1, InitIInv, NextIInv, NextInOrder, PTL DEF Spec
<1>. QED
  BY <1>2, <1>3, PTL DEF Spec, TiesByArrival

(* apply_reaction keeps the newest reaction of each member, whatever       *)
(* brought the reactions in which order.                                   *)
THEOREM NewestAlwaysWins == Spec => []NewestWins
<1>1. IInv => NewestWins
  BY DEF IInv
<1>. QED
  BY <1>1, Inductive, PTL

(* The cleanup never takes a reaction away that a /check of an active      *)
(* session would need.                                                     *)
THEOREM HistoryAlwaysCovers == Spec => []HistoryCoversSession
<1>1. IInv => HistoryCoversSession
  BY DEF IInv
<1>. QED
  BY <1>1, Inductive, PTL

(* A session that was replayed, and kept by the same process since, shows  *)
(* the newest of all recorded reactions.                                   *)
THEOREM AlwaysCaughtUp == Spec => []CaughtUp
<1>1. IInv => CaughtUp
  <2>. SUFFICES ASSUME IInv, pc = "idle", fresh, session \in Active,
                       NEW p \in released
                PROVE  IsNewest(state[p], p, Rows)
    BY DEF CaughtUp
  <2>1. p \in Member
    BY DEF IInv, TypeOK
  <2>2. IsNewest(state[p], p, applied)
    BY <2>1 DEF IInv, NewestWins
  <2>3. applied \subseteq Rows
    BY DEF IInv, HistoryCoversSession
  <2>4. \A e \in Rows : e.reactor = p => e \in applied
    BY DEF IInv, CatchesUp, Rows
  <2>5. {e \in Rows : e.reactor = p} = {e \in applied : e.reactor = p}
    BY <2>3, <2>4
  <2>. QED
    BY <2>2, <2>5 DEF IsNewest
<1>. QED
  BY <1>1, Inductive, PTL
=============================================================================
