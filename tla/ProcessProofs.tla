---------------------------- MODULE ProcessProofs ----------------------------
(***************************************************************************)
(* Proofs about Process: both locks are held and awaited by exactly the    *)
(* tasks that are in them, and no task is left when the session and the    *)
(* database are closed, for any number of writes, failing passes, stops    *)
(* and restarts.                                                           *)
(***************************************************************************)
EXTENDS Process, SequenceTheorems, TLAPS

MainPc == {"boot", "ready", "lock", "reply", "health", "join", "close", "closed"} \cup Locked
TickerPc == {"none", "ready", "lock", "done"} \cup Locked

(* TypeOK says where each task may be; this adds that there is no other.   *)
IInv == pc \in [Writer -> MainPc \cup TickerPc] /\ TypeOK /\ LocksFollowTasks /\ QuietOnceClosed

-----------------------------------------------------------------------------
(* A lock as a queue in which each task is at most once.                   *)

LEMMA Joins ==
    ASSUME NEW S, NEW q \in Seq(S), IsInjective(q), NEW t \in S, t \notin ToSet(q)
    PROVE  /\ Append(q, t) \in Seq(S)
           /\ IsInjective(Append(q, t))
           /\ ToSet(Append(q, t)) = ToSet(q) \cup {t}
           /\ \A u : u \in ToSet(q) => Head(Append(q, t)) = Head(q)
           /\ q = <<>> => Head(Append(q, t)) = t
<1>. DEFINE r == Append(q, t)
<1>1. /\ r \in Seq(S) /\ r # <<>> /\ Len(r) = Len(q) + 1 /\ Len(q) \in Nat
      /\ \A i \in 1 .. Len(q) : r[i] = q[i]
      /\ r[Len(q) + 1] = t
  BY AppendProperties, LenProperties
<1>2. DOMAIN q = 1 .. Len(q) /\ DOMAIN r = 1 .. Len(q) + 1
  BY <1>1, LenProperties
<1>3. Head(r) = IF q = <<>> THEN t ELSE Head(q)
  BY HeadTailAppend
<1>. HIDE DEF r
<1>4. ToSet(r) = ToSet(q) \cup {t}
  <2>1. \A i \in DOMAIN r : i \in DOMAIN q \/ i = Len(q) + 1
    BY <1>1, <1>2
  <2>2. Len(q) + 1 \in DOMAIN r /\ DOMAIN q \subseteq DOMAIN r
    BY <1>1, <1>2
  <2>. QED
    BY <1>1, <1>2, <2>1, <2>2 DEF ToSet
<1>5. IsInjective(r)
  <2>. SUFFICES ASSUME NEW i \in DOMAIN r, NEW j \in DOMAIN r, r[i] = r[j]
                PROVE  i = j
    BY DEF IsInjective
  <2>1. \A k \in DOMAIN q : r[k] # t
    BY <1>1, <1>2 DEF ToSet
  <2>2. CASE i \in DOMAIN q /\ j \in DOMAIN q
    BY <1>1, <1>2, <2>2 DEF IsInjective
  <2>3. CASE i \notin DOMAIN q /\ j \notin DOMAIN q
    BY <1>1, <1>2, <2>3
  <2>4. CASE i \in DOMAIN q /\ j \notin DOMAIN q
    BY <1>1, <1>2, <2>1, <2>4
  <2>5. CASE i \notin DOMAIN q /\ j \in DOMAIN q
    BY <1>1, <1>2, <2>1, <2>5
  <2>. QED
    BY <2>2, <2>3, <2>4, <2>5
<1>6. \A u : u \in ToSet(q) => q # <<>>
  BY <1>2 DEF ToSet
<1>. QED
  BY <1>1, <1>3, <1>4, <1>5, <1>6 DEF r

(* Leaving it from any place. *)
LEMMA RemovedAt ==
    ASSUME NEW S, NEW q \in Seq(S), IsInjective(q), NEW k \in 1 .. Len(q)
    PROVE  /\ RemoveAt(q, k) \in Seq(S)
           /\ IsInjective(RemoveAt(q, k))
           /\ ToSet(RemoveAt(q, k)) = ToSet(q) \ {q[k]}
           /\ k # 1 => Head(RemoveAt(q, k)) = Head(q)
<1>. DEFINE a == SubSeq(q, 1, k - 1)
            b == SubSeq(q, k + 1, Len(q))
            r == a \o b
            old(i) == IF i < k THEN i ELSE i + 1
<1>0. Len(q) \in Nat /\ k \in Int /\ 1 <= k /\ k <= Len(q)
  BY LenProperties
<1>1. Len(q) \in Nat /\ DOMAIN q = 1 .. Len(q) /\ k \in Int /\ \A i \in 1 .. Len(q) : q[i] \in S
  BY LenProperties, ElementOfSeq
<1>2. /\ a \in Seq(S) /\ Len(a) = k - 1
      /\ \A i \in 1 .. k - 1 : a[i] = q[i]
  <2>1. \A i \in 1 .. k - 1 : q[i] \in S
    BY <1>1
  <2>2. /\ a \in Seq(S)
        /\ Len(a) = IF 1 <= k - 1 THEN k - 1 - 1 + 1 ELSE 0
        /\ \A i \in 1 .. k - 1 - 1 + 1 : a[i] = q[1 + i - 1]
    BY <1>1, <2>1, SubSeqProperties
  <2>. HIDE DEF a
  <2>. QED
    BY <1>1, <2>2
<1>3. /\ b \in Seq(S) /\ Len(b) = Len(q) - k
      /\ \A i \in 1 .. Len(q) - k : b[i] = q[i + k]
  <2>1. \A i \in k + 1 .. Len(q) : q[i] \in S
    BY <1>1
  <2>2. /\ b \in Seq(S)
        /\ Len(b) = IF k + 1 <= Len(q) THEN Len(q) - (k + 1) + 1 ELSE 0
        /\ \A i \in 1 .. Len(q) - (k + 1) + 1 : b[i] = q[k + 1 + i - 1]
    BY <1>1, <2>1, SubSeqProperties
  <2>. HIDE DEF b
  <2>3. ASSUME NEW i \in 1 .. Len(q) - k
        PROVE  b[i] = q[i + k]
    <3>1. i \in 1 .. Len(q) - (k + 1) + 1 /\ k + 1 + i - 1 = i + k
      BY <1>1
    <3>. QED
      BY <2>2, <3>1
  <2>4. Len(b) = IF k + 1 <= Len(q) THEN Len(q) - (k + 1) + 1 ELSE 0
    BY <2>2
  <2>5. Len(b) = Len(q) - k
    BY <1>0, <2>4
  <2>. QED
    BY <2>2, <2>3, <2>5
<1>. HIDE DEF a, b
<1>4. /\ r \in Seq(S) /\ Len(r) = Len(q) - 1
      /\ \A i \in 1 .. Len(q) - 1 : r[i] = q[old(i)] /\ old(i) \in 1 .. Len(q) /\ old(i) # k
  <2>1. /\ r \in Seq(S) /\ Len(r) = Len(a) + Len(b)
        /\ \A i \in 1 .. Len(a) + Len(b) :
              r[i] = IF i <= Len(a) THEN a[i] ELSE b[i - Len(a)]
    BY <1>2, <1>3, ConcatProperties
  <2>. HIDE DEF r
  <2>2. ASSUME NEW i \in 1 .. Len(q) - 1
        PROVE  r[i] = q[old(i)] /\ old(i) \in 1 .. Len(q) /\ old(i) # k
    <3>1. CASE i < k
      <4>1. i \in 1 .. k - 1 /\ i \in 1 .. Len(a) + Len(b) /\ i <= Len(a)
        BY <1>1, <1>2, <1>3, <3>1
      <4>2. r[i] = a[i] /\ a[i] = q[i]
        BY <1>2, <2>1, <4>1
      <4>. QED
        BY <1>1, <3>1, <4>2
    <3>2. CASE i >= k
      <4>1. i - (k - 1) \in 1 .. Len(q) - k /\ (i - (k - 1)) + k = i + 1
        BY <1>1, <3>2
      <4>2. b[i - (k - 1)] = q[i + 1]
        BY <1>3, <4>1
      <4>3. i \in 1 .. Len(a) + Len(b) /\ ~(i <= Len(a)) /\ i - Len(a) = i - (k - 1)
        BY <1>1, <1>2, <1>3, <3>2
      <4>4. r[i] = q[i + 1]
        BY <2>1, <4>2, <4>3
      <4>. QED
        BY <1>1, <3>2, <4>4
    <3>. QED
      BY <1>1, <3>1, <3>2
  <2>. QED
    BY <1>1, <1>2, <1>3, <2>1, <2>2
<1>5. DOMAIN r = 1 .. Len(q) - 1 /\ r = RemoveAt(q, k)
  BY <1>4, LenProperties DEF RemoveAt, a, b
<1>6. \A j \in 1 .. Len(q) : j # k => \E i \in 1 .. Len(q) - 1 : old(i) = j
  <2>. SUFFICES ASSUME NEW j \in 1 .. Len(q), j # k
                PROVE  \E i \in 1 .. Len(q) - 1 : old(i) = j
    OBVIOUS
  <2>1. CASE j < k
    <3>1. j \in 1 .. Len(q) - 1 /\ old(j) = j
      BY <1>1, <2>1
    <3>. QED
      BY <3>1
  <2>2. CASE j > k
    <3>1. j - 1 \in 1 .. Len(q) - 1 /\ old(j - 1) = j
      BY <1>1, <2>2
    <3>. QED
      BY <3>1
  <2>. QED
    BY <1>1, <2>1, <2>2
<1>7. \A i, j \in 1 .. Len(q) - 1 : old(i) = old(j) => i = j
  BY <1>1
<1>. HIDE DEF r, old
<1>8. IsInjective(r)
  <2>. SUFFICES ASSUME NEW i \in DOMAIN r, NEW j \in DOMAIN r, r[i] = r[j]
                PROVE  i = j
    BY DEF IsInjective
  <2>1. q[old(i)] = q[old(j)] /\ old(i) \in DOMAIN q /\ old(j) \in DOMAIN q
    BY <1>1, <1>4, <1>5
  <2>. QED
    BY <1>5, <1>7, <2>1 DEF IsInjective
<1>9. ToSet(r) = ToSet(q) \ {q[k]}
  <2>1. \A x \in ToSet(r) : x \in ToSet(q) /\ x # q[k]
    <3>. SUFFICES ASSUME NEW i \in DOMAIN r
                  PROVE  r[i] \in ToSet(q) /\ r[i] # q[k]
      BY DEF ToSet
    <3>1. r[i] = q[old(i)] /\ old(i) \in DOMAIN q /\ old(i) # k /\ k \in DOMAIN q
      BY <1>1, <1>4, <1>5
    <3>. QED
      BY <3>1 DEF ToSet, IsInjective
  <2>2. \A x \in ToSet(q) : x # q[k] => x \in ToSet(r)
    <3>. SUFFICES ASSUME NEW j \in DOMAIN q, q[j] # q[k]
                  PROVE  q[j] \in ToSet(r)
      BY DEF ToSet
    <3>1. PICK i \in 1 .. Len(q) - 1 : old(i) = j
      BY <1>1, <1>6
    <3>. QED
      BY <1>4, <1>5, <3>1 DEF ToSet
  <2>. QED
    BY <2>1, <2>2
<1>10. k # 1 => Head(r) = Head(q)
  <2>. SUFFICES ASSUME k # 1
                PROVE  Head(r) = Head(q)
    OBVIOUS
  <2>1. 1 \in 1 .. Len(q) - 1 /\ old(1) = 1
    BY <1>1 DEF old
  <2>2. r[1] = q[1] /\ r # <<>> /\ q # <<>>
    BY <1>1, <1>4, <2>1
  <2>. QED
    BY <1>4, <2>2
<1>. QED
  BY <1>4, <1>5, <1>8, <1>9, <1>10

LEMMA Removed ==
    ASSUME NEW S, NEW q \in Seq(S), IsInjective(q), NEW t
    PROVE  /\ RemoveFirst(q, t) \in Seq(S)
           /\ IsInjective(RemoveFirst(q, t))
           /\ ToSet(RemoveFirst(q, t)) = ToSet(q) \ {t}
           /\ \A u : u \in ToSet(q) /\ u # t /\ Head(q) = u
                     => Head(RemoveFirst(q, t)) = Head(q)
<1>1. DOMAIN q = 1 .. Len(q) /\ Len(q) \in Nat
  BY LenProperties
<1>2. CASE \E i \in 1 .. Len(q) : q[i] = t
  <2>1. PICK k \in 1 .. Len(q) : q[k] = t
    BY <1>2
  <2>2. {i \in 1 .. Len(q) : q[i] = t} = {k}
    BY <1>1, <2>1 DEF IsInjective
  <2>3. Min({k}) = k
    BY <1>1 DEF Min
  <2>4. RemoveFirst(q, t) = RemoveAt(q, k)
    BY <1>2, <2>2, <2>3 DEF RemoveFirst, SelectInSeq
  <2>5. q # <<>>
    BY <1>1
  <2>6. k = 1 => Head(q) = t
    BY <2>1, <2>5
  <2>. QED
    BY <2>1, <2>4, <2>6, RemovedAt
<1>3. CASE ~ \E i \in 1 .. Len(q) : q[i] = t
  <2>1. RemoveFirst(q, t) = q
    BY <1>3 DEF RemoveFirst
  <2>. QED
    BY <1>1, <1>3, <2>1 DEF ToSet
<1>. QED
  BY <1>2, <1>3

(* Its holder gives it up. *)
LEMMA Passes ==
    ASSUME NEW S, NEW q \in Seq(S), IsInjective(q), q # <<>>
    PROVE  /\ Tail(q) \in Seq(S)
           /\ IsInjective(Tail(q))
           /\ ToSet(Tail(q)) = ToSet(q) \ {Head(q)}
<1>1. /\ Tail(q) \in Seq(S) /\ Len(Tail(q)) = Len(q) - 1 /\ Len(q) \in Nat
      /\ \A i \in 1 .. Len(Tail(q)) : Tail(q)[i] = q[i + 1]
      /\ Head(q) = q[1] /\ Len(q) # 0
  BY HeadTailProperties, LenProperties, EmptySeq
<1>2. DOMAIN q = 1 .. Len(q) /\ DOMAIN Tail(q) = 1 .. Len(q) - 1
  BY <1>1, LenProperties
<1>3. \A i \in DOMAIN Tail(q) : Tail(q)[i] = q[i + 1] /\ i + 1 \in DOMAIN q /\ i + 1 # 1
  BY <1>1, <1>2
<1>4. \A j \in DOMAIN q : j # 1 => j - 1 \in DOMAIN Tail(q) /\ Tail(q)[j - 1] = q[j]
  BY <1>1, <1>2
<1>5. 1 \in DOMAIN q /\ \A i, j \in DOMAIN Tail(q) : i + 1 = j + 1 => i = j
  BY <1>1, <1>2
<1>6. IsInjective(Tail(q))
  BY <1>3, <1>5 DEF IsInjective
<1>7. ToSet(Tail(q)) = ToSet(q) \ {Head(q)}
  <2>1. \A i \in DOMAIN q : i # 1 => q[i] # q[1]
    BY <1>5 DEF IsInjective
  <2>2. \A x \in ToSet(Tail(q)) : x \in ToSet(q) /\ x # Head(q)
    BY <1>1, <1>3, <2>1 DEF ToSet
  <2>3. ASSUME NEW x \in ToSet(q), x # Head(q)
        PROVE  x \in ToSet(Tail(q))
    <3>1. PICK j \in DOMAIN q : q[j] = x
      BY DEF ToSet
    <3>. QED
      BY <1>1, <1>4, <2>3, <3>1 DEF ToSet
  <2>. QED
    BY <2>2, <2>3
<1>. QED
  BY <1>1, <1>6, <1>7

-----------------------------------------------------------------------------
(* The steps.                                                              *)

LEMMA TwoTasks == Main \in Writer /\ Ticker \in Writer /\ Main # Ticker /\ Writer = {Main, Ticker}
BY ProcessAssumption DEF ProcessAssumption, Main, Ticker

(* The invariant, part by part.                                            *)
Placed ==
    /\ pc \in [Writer -> MainPc \cup TickerPc]
    /\ pc[Main] \in MainPc /\ pc[Ticker] \in TickerPc
    /\ breaker \in BOOLEAN /\ cancelled \in BOOLEAN
    /\ call \in [Writer -> CallState] /\ left \in [Writer -> 0 .. MaxWrites]
    /\ MaxWrites \in Nat

TrackerOK ==
    /\ tracker \in Seq(Writer) /\ IsInjective(tracker)
    /\ ToSet(tracker) = {t \in Writer : pc[t] \in Locked \cup {"lock"}}
    /\ \A t \in Writer : pc[t] \in Locked => Head(tracker) = t

QueueOK ==
    /\ queue \in Seq(Writer) /\ IsInjective(queue)
    /\ ToSet(queue) = {t \in Writer : call[t] \in {"waiting", "rpc"}}

CallsOK == \A t \in Writer : (call[t] # "idle") <=> (pc[t] \in {"write", "reply"})

LEMMA Parts ==
    /\ IInv <=> Placed /\ TrackerOK /\ QueueOK /\ CallsOK /\ QuietOnceClosed
    /\ IInv' <=> Placed' /\ TrackerOK' /\ QueueOK' /\ CallsOK' /\ QuietOnceClosed'
<1>1. MaxWrites \in Nat
  BY ProcessAssumption DEF ProcessAssumption
<1>. QED
  BY <1>1 DEF IInv, TypeOK, LocksFollowTasks, Placed, TrackerOK, QueueOK, CallsOK,
              MainPc, TickerPc

(* What a task does outside both locks leaves them alone. *)
LEMMA TrackerStays ==
    ASSUME TrackerOK, UNCHANGED tracker,
           \A t \in Writer : /\ pc'[t] \in Locked \cup {"lock"} <=> pc[t] \in Locked \cup {"lock"}
                             /\ pc'[t] \in Locked => pc[t] \in Locked
    PROVE  TrackerOK'
BY DEF TrackerOK

LEMMA TrackerAwaited ==
    ASSUME TrackerOK, NEW t \in Writer, tracker' = Append(tracker, t),
           pc[t] \notin Locked \cup {"lock"},
           pc \in [Writer -> MainPc \cup TickerPc], pc' = [pc EXCEPT ![t] = "lock"]
    PROVE  TrackerOK'
<1>1. t \notin ToSet(tracker)
  BY DEF TrackerOK
<1>2. /\ tracker' \in Seq(Writer) /\ IsInjective(tracker')
      /\ ToSet(tracker') = ToSet(tracker) \cup {t}
      /\ \A u : u \in ToSet(tracker) => Head(tracker') = Head(tracker)
  BY <1>1, Joins DEF TrackerOK
<1>3. "lock" \notin Locked
  BY DEF Locked
<1>4. \A u \in Writer : pc'[u] = IF u = t THEN "lock" ELSE pc[u]
  OBVIOUS
<1>5. ToSet(tracker') = {u \in Writer : pc'[u] \in Locked \cup {"lock"}}
  BY <1>2, <1>4 DEF TrackerOK
<1>6. \A u \in Writer : pc'[u] \in Locked => Head(tracker') = u
  BY <1>2, <1>3, <1>4 DEF TrackerOK
<1>. QED
  BY <1>2, <1>5, <1>6 DEF TrackerOK

LEMMA TrackerReleased ==
    ASSUME TrackerOK, NEW t \in Writer, tracker' = Tail(tracker), pc[t] \in Locked,
           pc'[t] \notin Locked \cup {"lock"},
           \A u \in Writer \ {t} : pc'[u] = pc[u] \/ (pc[u] = "none" /\ pc'[u] = "ready")
    PROVE  TrackerOK'
<1>1. Head(tracker) = t /\ t \in ToSet(tracker)
  BY DEF TrackerOK
<1>2. tracker # <<>>
  BY <1>1 DEF ToSet
<1>3. /\ tracker' \in Seq(Writer) /\ IsInjective(tracker')
      /\ ToSet(tracker') = ToSet(tracker) \ {t}
  BY <1>1, <1>2, Passes DEF TrackerOK
<1>4. \A u \in Writer \ {t} : /\ pc[u] \notin Locked
                              /\ pc'[u] \in Locked \cup {"lock"} <=> pc[u] \in Locked \cup {"lock"}
                              /\ pc'[u] \notin Locked
  BY <1>1 DEF TrackerOK, Locked
<1>5. ToSet(tracker') = {u \in Writer : pc'[u] \in Locked \cup {"lock"}}
  BY <1>3, <1>4 DEF TrackerOK
<1>. QED
  BY <1>3, <1>4, <1>5 DEF TrackerOK

LEMMA TrackerDropped ==
    ASSUME TrackerOK, NEW t \in Writer, tracker' = RemoveFirst(tracker, t),
           pc'[t] \notin Locked \cup {"lock"}, \A u \in Writer \ {t} : pc'[u] = pc[u]
    PROVE  TrackerOK'
<1>1. /\ tracker' \in Seq(Writer) /\ IsInjective(tracker')
      /\ ToSet(tracker') = ToSet(tracker) \ {t}
      /\ \A u : u \in ToSet(tracker) /\ u # t /\ Head(tracker) = u
                => Head(tracker') = Head(tracker)
  BY Removed DEF TrackerOK
<1>2. ToSet(tracker') = {u \in Writer : pc'[u] \in Locked \cup {"lock"}}
  BY <1>1 DEF TrackerOK
<1>3. ASSUME NEW u \in Writer, pc'[u] \in Locked
      PROVE  Head(tracker') = u
  <2>1. u # t /\ pc[u] \in Locked
    BY <1>3
  <2>2. u \in ToSet(tracker) /\ Head(tracker) = u
    BY <2>1 DEF TrackerOK
  <2>. QED
    BY <1>1, <2>1, <2>2
<1>. QED
  BY <1>1, <1>2, <1>3 DEF TrackerOK

LEMMA QueueSteps ==
    ASSUME Placed, QueueOK, NEW t \in Writer
    PROVE  /\ Ask(t) => QueueOK' /\ call' = [call EXCEPT ![t] = "waiting"]
           /\ Take(t) => QueueOK' /\ call' = [call EXCEPT ![t] = "idle"]
           /\ Serve(t) => QueueOK' /\ \E s \in {"rpc"} \cup Outcome :
                                         call' = [call EXCEPT ![t] = s]
           /\ Drop(t) => QueueOK' /\ call' = [call EXCEPT ![t] = "idle"]
<1>. DEFINE Busy == {"waiting", "rpc"}
<1>1. call \in [Writer -> CallState]
  BY DEF Placed
<1>2. ASSUME NEW s, call' = [call EXCEPT ![t] = s]
      PROVE  \A u \in Writer : call'[u] = IF u = t THEN s ELSE call[u]
  BY <1>1, <1>2
<1>3. ASSUME Ask(t) PROVE QueueOK'
  <2>1. t \notin ToSet(queue)
    BY <1>3 DEF Ask, QueueOK
  <2>2. /\ queue' \in Seq(Writer) /\ IsInjective(queue')
        /\ ToSet(queue') = ToSet(queue) \cup {t}
    BY <1>3, <2>1, Joins DEF Ask, QueueOK
  <2>3. \A u \in Writer : call'[u] = IF u = t THEN "waiting" ELSE call[u]
    BY <1>2, <1>3 DEF Ask
  <2>4. ToSet(queue') = {u \in Writer : call'[u] \in Busy}
    BY <2>2, <2>3 DEF QueueOK
  <2>. QED
    BY <2>2, <2>4 DEF QueueOK
<1>4. ASSUME Take(t) PROVE QueueOK'
  <2>1. call[t] \notin Busy
    BY <1>4 DEF Take, Outcome
  <2>. QED
    BY <1>2, <1>4, <2>1 DEF Take, QueueOK
<1>5. ASSUME Write(t) PROVE QueueOK'
  BY <1>2, <1>5 DEF Write, QueueOK
<1>6. ASSUME NEW s \in Outcome, call' = [call EXCEPT ![t] = s], Holds(t),
             queue' = Tail(queue)
      PROVE  QueueOK'
  <2>1. /\ queue' \in Seq(Writer) /\ IsInjective(queue')
        /\ ToSet(queue') = ToSet(queue) \ {t}
    BY <1>6, Passes DEF Holds, QueueOK
  <2>2. s \notin Busy
    BY DEF Outcome
  <2>3. \A u \in Writer : call'[u] = IF u = t THEN s ELSE call[u]
    BY <1>2, <1>6
  <2>4. ToSet(queue') = {u \in Writer : call'[u] \in Busy}
    BY <2>1, <2>2, <2>3 DEF QueueOK
  <2>. QED
    BY <2>1, <2>4 DEF QueueOK
<1>7. ASSUME Serve(t)
      PROVE  QueueOK' /\ \E s \in {"rpc"} \cup Outcome : call' = [call EXCEPT ![t] = s]
  <2>1. CASE Write(t)
    BY <1>5, <2>1 DEF Write
  <2>2. CASE Refuse(t)
    BY <1>6, <2>2 DEF Refuse, Outcome
  <2>3. CASE Answer(t)
    BY <1>6, <2>3 DEF Answer
  <2>. QED
    BY <1>7, <2>1, <2>2, <2>3 DEF Serve
<1>8. ASSUME Drop(t) PROVE QueueOK'
  <2>1. /\ queue' \in Seq(Writer) /\ IsInjective(queue')
        /\ ToSet(queue') = ToSet(queue) \ {t}
    BY <1>8, Removed DEF Drop, QueueOK
  <2>2. \A u \in Writer : call'[u] = IF u = t THEN "idle" ELSE call[u]
    BY <1>2, <1>8 DEF Drop
  <2>3. ToSet(queue') = {u \in Writer : call'[u] \in Busy}
    BY <2>1, <2>2 DEF QueueOK
  <2>. QED
    BY <2>1, <2>3 DEF QueueOK
<1>. QED
  BY <1>3, <1>4, <1>7, <1>8 DEF Ask, Take, Drop

-----------------------------------------------------------------------------
(* Where a task goes, for the functions pc and left. *)
LEMMA Moves ==
    ASSUME Placed, NEW t \in Writer, NEW to
    PROVE  /\ Goes(t, to) => \A u \in Writer : pc'[u] = IF u = t THEN to ELSE pc[u]
           /\ Goes(t, to) /\ to \in MainPc \cup TickerPc
                 => pc' \in [Writer -> MainPc \cup TickerPc]
           /\ left' = [left EXCEPT ![t] = 0] => left' \in [Writer -> 0 .. MaxWrites]
           /\ left' = [left EXCEPT ![t] = MaxWrites] => left' \in [Writer -> 0 .. MaxWrites]
           /\ left' = [left EXCEPT ![t] = @ - 1] /\ left[t] > 0
                 => left' \in [Writer -> 0 .. MaxWrites]
           /\ \A s : call' = [call EXCEPT ![t] = s]
                       => \A u \in Writer : call'[u] = IF u = t THEN s ELSE call[u]
           /\ \A s \in CallState : call' = [call EXCEPT ![t] = s]
                                     => call' \in [Writer -> CallState]
<1>. USE DEF Placed
<1>1. 0 \in 0 .. MaxWrites /\ MaxWrites \in 0 .. MaxWrites
  OBVIOUS
<1>2. left[t] \in 0 .. MaxWrites
  OBVIOUS
<1>3. left[t] > 0 => left[t] - 1 \in 0 .. MaxWrites
  BY <1>2
<1>4. left' = [left EXCEPT ![t] = 0] => left' \in [Writer -> 0 .. MaxWrites]
  BY <1>1
<1>5. left' = [left EXCEPT ![t] = MaxWrites] => left' \in [Writer -> 0 .. MaxWrites]
  BY <1>1
<1>6. left' = [left EXCEPT ![t] = @ - 1] /\ left[t] > 0 => left' \in [Writer -> 0 .. MaxWrites]
  BY <1>3
<1>. QED
  BY <1>4, <1>5, <1>6 DEF Goes

LEMMA Begins ==
    ASSUME IInv, NEW t \in Writer, Runs(t), Begin(t) PROVE IInv'
<1>1. Placed /\ TrackerOK /\ QueueOK /\ CallsOK /\ QuietOnceClosed
  BY Parts
<1>2. /\ \A u \in Writer : pc'[u] = IF u = t THEN "lock" ELSE pc[u]
      /\ pc' \in [Writer -> MainPc \cup TickerPc]
  BY <1>1, Moves DEF Begin, MainPc
<1>3. Placed'
  BY <1>1, <1>2, TwoTasks DEF Begin, gateway, Placed, MainPc, TickerPc
<1>4. TrackerOK'
  BY <1>1, TrackerAwaited DEF Begin, Goes, Placed, Locked
<1>5. QueueOK' /\ CallsOK'
  BY <1>1, <1>2 DEF Begin, gateway, QueueOK, CallsOK
<1>6. QuietOnceClosed'
  BY <1>1, <1>2, TwoTasks DEF Begin, gateway, QuietOnceClosed
<1>. QED
  BY <1>3, <1>4, <1>5, <1>6, Parts

LEMMA Acquires ==
    ASSUME IInv, NEW t \in Writer, Acquire(t) PROVE IInv'
<1>1. Placed /\ TrackerOK /\ QueueOK /\ CallsOK /\ QuietOnceClosed
  BY Parts
<1>2. /\ \A u \in Writer : pc'[u] = IF u = t THEN "work" ELSE pc[u]
      /\ pc' \in [Writer -> MainPc \cup TickerPc] /\ left' \in [Writer -> 0 .. MaxWrites]
  BY <1>1, Moves DEF Acquire, MainPc, Locked
<1>3. Placed'
  BY <1>1, <1>2, TwoTasks DEF Acquire, gateway, Placed, MainPc, TickerPc, Locked
<1>4. TrackerOK'
  <2>1. ToSet(tracker') = {u \in Writer : pc'[u] \in Locked \cup {"lock"}}
    BY <1>1, <1>2 DEF Acquire, TrackerOK, Locked
  <2>2. \A u \in Writer : pc'[u] \in Locked => Head(tracker') = u
    BY <1>1, <1>2 DEF Acquire, TrackerOK
  <2>. QED
    BY <1>1, <2>1, <2>2 DEF Acquire, TrackerOK
<1>5. QueueOK' /\ CallsOK'
  BY <1>1, <1>2 DEF Acquire, gateway, QueueOK, CallsOK
<1>6. QuietOnceClosed'
  BY <1>1, <1>2, TwoTasks DEF Acquire, gateway, QuietOnceClosed
<1>. QED
  BY <1>3, <1>4, <1>5, <1>6, Parts

(* A task asks for a write, under the tracker's lock or for a reply. *)
LEMMA Asks ==
    ASSUME IInv, NEW t \in Writer, AskReport(t) \/ (t = Main /\ AskReply) PROVE IInv'
<1>1. Placed /\ TrackerOK /\ QueueOK /\ CallsOK /\ QuietOnceClosed
  BY Parts
<1>2. Ask(t) /\ UNCHANGED <<breaker, tracker, cancelled>>
  BY DEF AskReport, AskReply, Ask
<1>3. QueueOK' /\ call' = [call EXCEPT ![t] = "waiting"]
  BY <1>1, <1>2, QueueSteps
<1>4. /\ \A u \in Writer : call'[u] = IF u = t THEN "waiting" ELSE call[u]
      /\ call' \in [Writer -> CallState]
  BY <1>1, <1>3, Moves DEF CallState
<1>5. PICK to \in {"write", "reply"} :
         /\ Goes(t, to)
         /\ to = "write" => pc[t] = "work"
         /\ to = "reply" => t = Main /\ pc[t] = "ready"
  BY DEF AskReport, AskReply
<1>6. /\ \A u \in Writer : pc'[u] = IF u = t THEN to ELSE pc[u]
      /\ pc' \in [Writer -> MainPc \cup TickerPc]
  BY <1>1, <1>5, Moves DEF MainPc, Locked
<1>7. left' \in [Writer -> 0 .. MaxWrites]
  BY <1>1, Moves DEF AskReport, AskReply, Placed
<1>8. Placed'
  BY <1>1, <1>2, <1>4, <1>5, <1>6, <1>7, TwoTasks DEF Placed, MainPc, TickerPc, Locked
<1>9. TrackerOK'
  BY <1>1, <1>2, <1>5, <1>6, TrackerStays DEF Locked
<1>10. CallsOK'
  BY <1>1, <1>4, <1>5, <1>6 DEF CallsOK
<1>11. QuietOnceClosed'
  BY <1>1, <1>5, <1>6, TwoTasks DEF QuietOnceClosed
<1>. QED
  BY <1>3, <1>8, <1>9, <1>10, <1>11, Parts

LEMMA Takes ==
    ASSUME IInv, NEW t \in Writer, TakeReport(t) \/ (t = Main /\ TakeReply) PROVE IInv'
<1>1. Placed /\ TrackerOK /\ QueueOK /\ CallsOK /\ QuietOnceClosed
  BY Parts
<1>2. Take(t) /\ UNCHANGED <<breaker, tracker, left, cancelled>>
  BY DEF TakeReport, TakeReply, Take
<1>3. QueueOK' /\ call' = [call EXCEPT ![t] = "idle"]
  BY <1>1, <1>2, QueueSteps
<1>4. /\ \A u \in Writer : call'[u] = IF u = t THEN "idle" ELSE call[u]
      /\ call' \in [Writer -> CallState]
  BY <1>1, <1>3, Moves DEF CallState
<1>5. PICK to \in {"work", "ready"} :
         /\ Goes(t, to)
         /\ to = "work" => pc[t] = "write"
         /\ to = "ready" => t = Main /\ pc[t] = "reply"
  BY DEF TakeReport, TakeReply
<1>6. /\ \A u \in Writer : pc'[u] = IF u = t THEN to ELSE pc[u]
      /\ pc' \in [Writer -> MainPc \cup TickerPc]
  BY <1>1, <1>5, Moves DEF MainPc, Locked
<1>7. Placed'
  BY <1>1, <1>2, <1>4, <1>5, <1>6, TwoTasks DEF Placed, MainPc, TickerPc, Locked
<1>8. TrackerOK'
  BY <1>1, <1>2, <1>5, <1>6, TrackerStays DEF Locked
<1>9. CallsOK'
  BY <1>1, <1>4, <1>5, <1>6 DEF CallsOK
<1>10. QuietOnceClosed'
  BY <1>1, <1>4, <1>5, <1>6, TwoTasks DEF QuietOnceClosed
<1>. QED
  BY <1>3, <1>7, <1>8, <1>9, <1>10, Parts

LEMMA Leaves ==
    ASSUME IInv, NEW t \in Writer, Leave(t) \/ (t = Ticker /\ PassFails) PROVE IInv'
<1>1. Placed /\ TrackerOK /\ QueueOK /\ CallsOK /\ QuietOnceClosed
  BY Parts
<1>2. pc[t] = "work" /\ Release(t) /\ UNCHANGED <<gateway, cancelled>>
  BY DEF Leave, PassFails
<1>3. pc' \in [Writer -> MainPc \cup TickerPc] /\ pc'[t] = "ready"
  BY <1>1, Moves DEF Leave, PassFails, MainPc, Placed
<1>4. \A u \in Writer \ {t} : pc'[u] = pc[u] \/ (pc[u] = "none" /\ pc'[u] = "ready")
  BY <1>1, Moves DEF Leave, PassFails
<1>5. left' \in [Writer -> 0 .. MaxWrites]
  BY <1>1, <1>2, Moves DEF Release
<1>6. pc[Main] # "none"
  BY <1>1 DEF Placed, MainPc, Locked
<1>7. Placed'
  BY <1>1, <1>2, <1>3, <1>4, <1>5, <1>6, TwoTasks
     DEF gateway, Placed, MainPc, TickerPc, Locked
<1>8. TrackerOK'
  BY <1>1, <1>2, <1>3, <1>4, TrackerReleased DEF Release, Locked
<1>9. QueueOK' /\ CallsOK'
  BY <1>1, <1>2, <1>3, <1>4 DEF gateway, QueueOK, CallsOK
<1>10. QuietOnceClosed'
  <2>. SUFFICES ASSUME pc'[Main] \in {"close", "closed"}
                PROVE  FALSE
    BY DEF QuietOnceClosed
  <2>1. pc[Main] = pc'[Main] /\ t # Main
    BY <1>3, <1>4, <1>6, TwoTasks
  <2>. QED
    BY <1>1, <1>2, <2>1, TwoTasks DEF QuietOnceClosed
<1>. QED
  BY <1>7, <1>8, <1>9, <1>10, Parts

(* A task is interrupted, wherever it is. *)
LEMMA Stops ==
    ASSUME IInv, Stop PROVE IInv'
<1>1. Placed /\ TrackerOK /\ QueueOK /\ CallsOK /\ QuietOnceClosed
  BY Parts
<1>2. QueueOK' /\ call' = [call EXCEPT ![Main] = "idle"]
  BY <1>1, QueueSteps, TwoTasks DEF Stop
<1>3. /\ \A u \in Writer : call'[u] = IF u = Main THEN "idle" ELSE call[u]
      /\ call' \in [Writer -> CallState]
  BY <1>1, <1>2, Moves, TwoTasks DEF CallState
<1>4. PICK to \in {"close", "join"} : Goes(Main, to) /\ (to = "close" => pc[Ticker] = "none")
  BY DEF Stop
<1>5. /\ \A u \in Writer : pc'[u] = IF u = Main THEN to ELSE pc[u]
      /\ pc' \in [Writer -> MainPc \cup TickerPc] /\ left' \in [Writer -> 0 .. MaxWrites]
  BY <1>1, <1>4, Moves, TwoTasks DEF MainPc, Stop, Drop
<1>6. Placed'
  BY <1>1, <1>3, <1>5, TwoTasks DEF Stop, Drop, Placed, MainPc
<1>7. TrackerOK'
  BY <1>1, <1>5, TrackerDropped, TwoTasks DEF Stop, Drop, Locked
<1>8. CallsOK'
  BY <1>1, <1>3, <1>5 DEF CallsOK
<1>9. QuietOnceClosed'
  BY <1>1, <1>3, <1>4, <1>5, TwoTasks DEF QuietOnceClosed, CallsOK
<1>. QED
  BY <1>2, <1>6, <1>7, <1>8, <1>9, Parts

LEMMA Cancels ==
    ASSUME IInv, Cancelled PROVE IInv'
<1>1. Placed /\ TrackerOK /\ QueueOK /\ CallsOK /\ QuietOnceClosed
  BY Parts
<1>2. QueueOK' /\ call' = [call EXCEPT ![Ticker] = "idle"]
  BY <1>1, QueueSteps, TwoTasks DEF Cancelled
<1>3. /\ \A u \in Writer : call'[u] = IF u = Ticker THEN "idle" ELSE call[u]
      /\ call' \in [Writer -> CallState]
  BY <1>1, <1>2, Moves, TwoTasks DEF CallState
<1>4. /\ \A u \in Writer : pc'[u] = IF u = Ticker THEN "done" ELSE pc[u]
      /\ pc' \in [Writer -> MainPc \cup TickerPc] /\ left' \in [Writer -> 0 .. MaxWrites]
  BY <1>1, Moves, TwoTasks DEF TickerPc, Cancelled, Drop
<1>5. Placed'
  BY <1>1, <1>3, <1>4, TwoTasks DEF Cancelled, Drop, Placed, TickerPc
<1>6. TrackerOK'
  BY <1>1, <1>4, TrackerDropped, TwoTasks DEF Cancelled, Drop, Locked
<1>7. CallsOK'
  BY <1>1, <1>3, <1>4 DEF CallsOK
<1>8. QuietOnceClosed'
  BY <1>1, <1>3, <1>4, TwoTasks DEF QuietOnceClosed
<1>. QED
  BY <1>2, <1>5, <1>6, <1>7, <1>8, Parts

(* Once both tasks have ended, no lock and no call is left to clean up. *)
LEMMA Ends ==
    ASSUME IInv, Join \/ Close PROVE IInv'
<1>1. Placed /\ TrackerOK /\ QueueOK /\ CallsOK /\ QuietOnceClosed
  BY Parts
<1>2. PICK to \in {"close", "closed"} : Goes(Main, to)
  BY DEF Join, Close
<1>3. UNCHANGED <<queue, breaker, call, tracker, left, cancelled>>
  BY DEF Join, Close, gateway
<1>4. /\ \A u \in Writer : pc'[u] = IF u = Main THEN to ELSE pc[u]
      /\ pc' \in [Writer -> MainPc \cup TickerPc]
  BY <1>1, <1>2, Moves, TwoTasks DEF MainPc
<1>5. pc[Main] \in {"join", "close"} /\ pc[Ticker] \in {"none", "done"}
  BY <1>1 DEF Join, Close, QuietOnceClosed
<1>6. Placed'
  BY <1>1, <1>3, <1>4, TwoTasks DEF Placed, MainPc
<1>7. TrackerOK'
  BY <1>1, <1>3, <1>4, <1>5, TrackerStays, TwoTasks DEF Locked
<1>8. QueueOK' /\ CallsOK'
  BY <1>1, <1>3, <1>4, <1>5, TwoTasks DEF QueueOK, CallsOK
<1>9. QuietOnceClosed'
  BY <1>1, <1>3, <1>4, <1>5, TwoTasks DEF QuietOnceClosed, CallsOK
<1>. QED
  BY <1>6, <1>7, <1>8, <1>9, Parts

(* The health check touches neither lock. *)
LEMMA Reads ==
    ASSUME IInv, AskHealth \/ TakeHealth PROVE IInv'
<1>1. Placed /\ TrackerOK /\ QueueOK /\ CallsOK /\ QuietOnceClosed
  BY Parts
<1>2. PICK to \in {"health", "ready"} : Goes(Main, to)
  BY DEF AskHealth, TakeHealth
<1>3. UNCHANGED <<queue, call, tracker, left, cancelled>> /\ breaker' \in BOOLEAN
  BY <1>1 DEF AskHealth, TakeHealth, ReadAnswer, gateway, Placed
<1>4. /\ \A u \in Writer : pc'[u] = IF u = Main THEN to ELSE pc[u]
      /\ pc' \in [Writer -> MainPc \cup TickerPc]
  BY <1>1, <1>2, Moves, TwoTasks DEF MainPc
<1>5. pc[Main] \in {"health", "ready"}
  BY DEF AskHealth, TakeHealth
<1>6. Placed'
  BY <1>1, <1>3, <1>4, TwoTasks DEF Placed, MainPc
<1>7. TrackerOK'
  BY <1>1, <1>3, <1>4, <1>5, TrackerStays, TwoTasks DEF Locked
<1>8. QueueOK' /\ CallsOK'
  BY <1>1, <1>3, <1>4, <1>5, TwoTasks DEF QueueOK, CallsOK
<1>9. QuietOnceClosed'
  BY <1>4, TwoTasks DEF QuietOnceClosed
<1>. QED
  BY <1>6, <1>7, <1>8, <1>9, Parts

LEMMA NobodyIn ==
    /\ <<>> \in Seq(Writer) /\ IsInjective(<<>>) /\ ToSet(<<>>) = {}
    /\ \A q \in Seq(Writer) : ToSet(q) = {} => q = <<>>
<1>1. ASSUME NEW q \in Seq(Writer), ToSet(q) = {} PROVE q = <<>>
  <2>1. DOMAIN q = 1 .. Len(q) /\ Len(q) \in Nat
    BY LenProperties
  <2>2. DOMAIN q = {}
    BY <1>1 DEF ToSet
  <2>3. Len(q) = 0
    BY <2>1, <2>2
  <2>. QED
    BY <2>3, EmptySeq
<1>. QED
  BY <1>1, EmptySeq DEF IsInjective, ToSet

LEMMA Starts ==
    /\ Init => IInv
    /\ IInv /\ Restart => IInv'
<1>. DEFINE p == Started
<1>1. p \in [Writer -> MainPc \cup TickerPc] /\ p[Main] = "boot" /\ p[Ticker] = "none"
  BY TwoTasks DEF Started, MainPc, TickerPc
<1>2. {t \in Writer : p[t] \in Locked \cup {"lock"}} = {}
  BY <1>1, TwoTasks DEF Locked
<1>3. MaxWrites \in Nat /\ 0 \in 0 .. MaxWrites
  BY ProcessAssumption DEF ProcessAssumption
<1>. HIDE DEF p
<1>4. ASSUME Init PROVE IInv
  <2>1. pc = p /\ tracker = <<>> /\ queue = <<>> /\ call = [w \in Writer |-> "idle"]
        /\ left = [t \in Writer |-> 0] /\ cancelled = FALSE /\ breaker = FALSE
    BY <1>4 DEF Init, GatewayInit, p
  <2>2. Placed
    BY <1>1, <1>3, <2>1 DEF Placed, MainPc, TickerPc, CallState
  <2>3. TrackerOK
    BY <1>1, <1>2, <2>1, NobodyIn, TwoTasks DEF TrackerOK, Locked
  <2>4. QueueOK
    BY <2>1, NobodyIn DEF QueueOK
  <2>5. CallsOK /\ QuietOnceClosed
    BY <1>1, <2>1, TwoTasks DEF CallsOK, QuietOnceClosed
  <2>. QED
    BY <2>2, <2>3, <2>4, <2>5, Parts
<1>5. ASSUME IInv, Restart PROVE IInv'
  <2>1. Placed /\ TrackerOK /\ QueueOK /\ CallsOK /\ QuietOnceClosed
    BY <1>5, Parts
  <2>2. /\ pc' = p /\ tracker' = tracker /\ queue' = <<>> /\ call' = [w \in Writer |-> "idle"]
        /\ left' = left /\ cancelled' = FALSE /\ breaker' = FALSE
    BY <1>5 DEF Restart, GatewayRestart, p
  <2>3. tracker = <<>>
    <3>1. {t \in Writer : pc[t] \in Locked \cup {"lock"}} = {}
      BY <1>5, <2>1, TwoTasks DEF Restart, QuietOnceClosed, Locked
    <3>. QED
      BY <2>1, <3>1, NobodyIn DEF TrackerOK
  <2>4. Placed'
    BY <1>1, <2>1, <2>2 DEF Placed, MainPc, TickerPc, CallState
  <2>5. TrackerOK'
    BY <1>1, <1>2, <2>2, <2>3, NobodyIn, TwoTasks DEF TrackerOK, Locked
  <2>6. QueueOK'
    BY <2>2, NobodyIn DEF QueueOK
  <2>7. CallsOK' /\ QuietOnceClosed'
    BY <1>1, <2>2, TwoTasks DEF CallsOK, QuietOnceClosed
  <2>. QED
    BY <2>4, <2>5, <2>6, <2>7, Parts
<1>. QED
  BY <1>4, <1>5

(* The gateway serves a call of a task. *)
LEMMA Serves ==
    ASSUME IInv, NEW t \in Writer, Serve(t), UNCHANGED tasks PROVE IInv'
<1>1. Placed /\ TrackerOK /\ QueueOK /\ CallsOK /\ QuietOnceClosed
  BY Parts
<1>2. QueueOK' /\ \E s \in {"rpc"} \cup Outcome : call' = [call EXCEPT ![t] = s]
  BY <1>1, QueueSteps
<1>3. PICK s \in {"rpc"} \cup Outcome : call' = [call EXCEPT ![t] = s]
  BY <1>2
<1>4. /\ \A u \in Writer : call'[u] = IF u = t THEN s ELSE call[u]
      /\ call' \in [Writer -> CallState]
  BY <1>1, <1>3, Moves DEF CallState
<1>5. call[t] # "idle" /\ s # "idle" /\ breaker' \in BOOLEAN
  BY <1>1 DEF Serve, Write, Refuse, Answer, Outcome, Placed
<1>6. UNCHANGED <<pc, tracker, left, cancelled>>
  BY DEF tasks
<1>7. Placed'
  BY <1>1, <1>4, <1>5, <1>6 DEF Placed
<1>8. TrackerOK'
  BY <1>1, <1>6 DEF TrackerOK
<1>9. CallsOK'
  BY <1>1, <1>4, <1>5, <1>6 DEF CallsOK
<1>10. QuietOnceClosed'
  BY <1>1, <1>4, <1>5, <1>6 DEF QuietOnceClosed
<1>. QED
  BY <1>2, <1>7, <1>8, <1>9, <1>10, Parts

-----------------------------------------------------------------------------
LEMMA Step == IInv /\ [Next]_vars => IInv'
<1>. SUFFICES ASSUME IInv, [Next]_vars
              PROVE  IInv'
  OBVIOUS
<1>1. ASSUME NEW t \in Writer, Works(t) PROVE IInv'
  BY <1>1, Acquires, Asks, Takes, Leaves, Serves DEF Works
<1>2. CASE MainStep
  BY <1>1, <1>2, Takes, Reads, Ends, TwoTasks DEF MainStep
<1>3. CASE TickerStep
  BY <1>1, <1>3, Begins, Leaves, Cancels, TwoTasks DEF TickerStep
<1>4. CASE Begin(Main)
  BY <1>4, Begins, TwoTasks DEF Runs
<1>5. CASE AskReply \/ AskHealth
  BY <1>5, Asks, Reads, TwoTasks
<1>6. CASE Stop
  BY <1>6, Stops
<1>7. CASE Restart
  BY <1>7, Starts
<1>8. CASE UNCHANGED vars
  BY <1>8 DEF vars, gateway, tasks, IInv, TypeOK, LocksFollowTasks, QuietOnceClosed
<1>. QED
  BY <1>2, <1>3, <1>4, <1>5, <1>6, <1>7, <1>8 DEF Next

(* Every reachable state satisfies IInv.  A task is within a lock exactly  *)
(* when its program counter says so: only with that can a step of one task *)
(* be seen to leave the other's place in the two queues alone.             *)
THEOREM Inductive == Spec => []IInv
BY Starts, Step, PTL DEF Spec

(* Both tasks are of the places the code has for them, and no more writes  *)
(* are left to a pass than it may make.                                    *)
THEOREM TypeCorrect == Spec => []TypeOK
<1>1. IInv => TypeOK
  BY DEF IInv
<1>. QED
  BY <1>1, Inductive, PTL

(* However tasks are cancelled, fail, stop and start again, the tracker's  *)
(* lock and the outgoing lock are held and awaited by exactly the tasks    *)
(* that are within them, each once.                                        *)
THEOREM EachLockHasItsTasks == Spec => []LocksFollowTasks
<1>1. IInv => LocksFollowTasks
  BY DEF IInv
<1>. QED
  BY <1>1, Inductive, PTL

(* When _run closes the session and the database, the ticker has ended and *)
(* no task waits for an answer.                                            *)
THEOREM NothingIsUsedOnceClosed == Spec => []QuietOnceClosed
<1>1. IInv => QuietOnceClosed
  BY DEF IInv
<1>. QED
  BY <1>1, Inductive, PTL
=============================================================================
